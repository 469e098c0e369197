----------------------------- MODULE JsonToken ------------------------------
(***************************************************************************)
(* The tokens of fast_json (core/include/fast-json.hpp): get_token, the    *)
(* number readers and extract_str_value.  A text is a sequence of          *)
(* one-character strings; positions count from 1 and the position behind   *)
(* the text is read as NUL, as std::string has it.                         *)
(***************************************************************************)
EXTENDS Naturals, Sequences, SequencesExt, FiniteSetsExt

Digit == [c \in {"0", "1", "2", "3", "4", "5", "6", "7", "8", "9"} |->
            CASE c = "0" -> 0 [] c = "1" -> 1 [] c = "2" -> 2 [] c = "3" -> 3
              [] c = "4" -> 4 [] c = "5" -> 5 [] c = "6" -> 6 [] c = "7" -> 7
              [] c = "8" -> 8 [] c = "9" -> 9]
Digits == DOMAIN Digit
HexLetter == [a |-> 10, b |-> 11, c |-> 12, d |-> 13, e |-> 14, f |-> 15,
              A |-> 10, B |-> 11, C |-> 12, D |-> 13, E |-> 14, F |-> 15]
HexDigits == Digits \union DOMAIN HexLetter
HexValue(c) == IF c \in Digits THEN Digit[c] ELSE HexLetter[c]
Letters == DOMAIN HexLetter \union
           {"l", "n", "r", "s", "t", "u", "x"}
(* isspace: CR, VT and FF stand for the characters TLA+ has no name for.   *)
Space == {" ", "\n", "\t", "CR", "VT", "FF"}

Ch(s, i) == IF i \in DOMAIN s THEN s[i] ELSE "NUL"

(* The first position from i on whose character is not in C.               *)
RunEnd(s, i, C) == Min({j \in i .. (Len(s) + 1) : Ch(s, j) \notin C})

Fail == [ok |-> FALSE]

-----------------------------------------------------------------------------
(* Numbers.                                                                *)

RECURSIVE NumberAt(_, _, _)
NumberAt(s, i, e) == IF e = i THEN 0 ELSE 10 * NumberAt(s, i, e - 1) + Digit[s[e - 1]]

(* match_json_integer: no leading zero; at the end of the text it reads 0. *)
MatchInteger(s, i) ==
    LET e == RunEnd(s, i, Digits)
    IN IF (e = i /\ i <= Len(s)) \/ (e > i + 1 /\ s[i] = "0") THEN Fail
       ELSE [ok |-> TRUE, value |-> NumberAt(s, i, e), end |-> e]

(* match_json_fraction: the digits stand for themselves.                   *)
MatchFraction(s, i) ==
    LET e == RunEnd(s, i, Digits)
    IN IF e = i /\ i <= Len(s) THEN Fail
       ELSE [ok |-> TRUE, value |-> SubSeq(s, i, e - 1), end |-> e]

Number(s, i) ==
    LET neg == s[i] = "-"
        b == IF neg THEN i + 1 ELSE i
        int == IF Ch(s, b) \in Digits THEN MatchInteger(s, b)
               ELSE [ok |-> ~neg, value |-> 0, end |-> b]
        frac == IF Ch(s, int.end) = "." THEN MatchFraction(s, int.end + 1)
                ELSE [ok |-> TRUE, value |-> <<>>, end |-> int.end]
        signAt == frac.end + 1
        eneg == Ch(s, signAt) = "-"
        expAt == IF Ch(s, signAt) \in {"-", "+"} THEN signAt + 1 ELSE signAt
        exp == IF Ch(s, frac.end) \notin {"e", "E"}
                 THEN [ok |-> TRUE, value |-> 0, end |-> frac.end]
               ELSE IF signAt > Len(s) \/ expAt > Len(s) THEN Fail
               ELSE MatchInteger(s, expAt)
    IN IF ~int.ok THEN Fail
       ELSE IF ~frac.ok THEN Fail
       ELSE IF ~exp.ok THEN Fail
       ELSE [ok |-> TRUE, type |-> "number", end |-> exp.end,
             value |-> [neg |-> neg, int |-> int.value, frac |-> frac.value,
                        exp |-> exp.value, eneg |-> exp.value # 0 /\ eneg]]

-----------------------------------------------------------------------------
(* Strings.  An escape is a backslash and one of the known letters or u    *)
(* and four hexadecimal digits.                                            *)

Escape == [n |-> "\n", t |-> "\t", r |-> "CR", b |-> "BS", f |-> "FF"]
          @@ [c \in {"\"", "\\", "/"} |-> c]

IsUnicode(s, i) == /\ Ch(s, i) = "u" /\ i + 4 <= Len(s)
                   /\ \A j \in i + 1 .. i + 4 : s[j] \in HexDigits

(* The position of the closing quote, 0 when there is none.  The scan goes *)
(* on one character behind the letter of an escape.                        *)
RECURSIVE StringEndAtQuote(_, _)
StringEndAtQuote(s, i) == IF i > Len(s) THEN 0
                          ELSE IF s[i] = "\"" THEN i ELSE StringEndAtQuote(s, i + 1)

RECURSIVE StringEnd(_, _)
StringEnd(s, i) ==
    IF i > Len(s) THEN 0
    ELSE IF s[i] = "\"" THEN i
    ELSE IF s[i] # "\\" THEN StringEnd(s, i + 1)
    ELSE IF Ch(s, i + 1) \in DOMAIN Escape \/ IsUnicode(s, i + 1) THEN StringEnd(s, i + 2)
    ELSE 0

Byte(n) == "byte " \o ToString(n)

(* extract_str_value: a \u escape is stored as its two bytes, low byte     *)
(* first; the other characters are themselves.                             *)
RECURSIVE StrValue(_, _, _)
StrValue(s, i, e) ==
    IF i >= e THEN <<>>
    ELSE IF s[i] # "\\" THEN <<s[i]>> \o StrValue(s, i + 1, e)
    ELSE IF s[i + 1] \in DOMAIN Escape THEN <<Escape[s[i + 1]]>> \o StrValue(s, i + 2, e)
    ELSE LET H(j) == HexValue(s[i + 1 + j])
         IN <<Byte(16 * H(3) + H(4)), Byte(16 * H(1) + H(2))>> \o StrValue(s, i + 6, e)

-----------------------------------------------------------------------------
(* get_token.                                                              *)

Punctuation == [c \in {"{", "}", ",", ":", "[", "]"} |->
    CASE c = "{" -> "lbrace" [] c = "}" -> "rbrace" [] c = "," -> "comma"
      [] c = ":" -> "colon" [] c = "[" -> "lsqrbra" [] c = "]" -> "rsqrbra"]

Words == {[w |-> <<"t", "r", "u", "e">>, type |-> "boolean", value |-> TRUE],
          [w |-> <<"f", "a", "l", "s", "e">>, type |-> "boolean", value |-> FALSE],
          [w |-> <<"n", "u", "l", "l">>, type |-> "null", value |-> FALSE]}

WordAt(s, i) == {w \in Words : \A j \in DOMAIN w.w : Ch(s, i + j - 1) = w.w[j]}

Token(type, end) == [ok |-> TRUE, type |-> type, value |-> <<>>, end |-> end]

GetToken(s, from) ==
    LET i == RunEnd(s, from, Space)
        c == Ch(s, i)
        close == StringEnd(s, i + 1)
    IN CASE i > Len(s) -> Token("eoi", i)
         [] c \in Digits \union {".", "-"} -> Number(s, i)
         [] c = "\"" -> IF close = 0 THEN Fail
                        ELSE [Token("string", close + 1)
                                EXCEPT !.value = StrValue(s, i + 1, close)]
         [] WordAt(s, i) # {} ->
              LET w == CHOOSE x \in WordAt(s, i) : TRUE
                  e == i + Len(w.w)
              IN IF Ch(s, e) \in Letters \union Digits THEN Fail
                 ELSE [ok |-> TRUE, type |-> w.type, value |-> w.value, end |-> e]
         [] c \in DOMAIN Punctuation -> Token(Punctuation[c], i + 1)
         [] c \in Letters /\ WordAt(s, i) = {} ->
              Token("id", RunEnd(s, i, Letters \union Digits))
         [] OTHER -> Fail

(* The text as the parser sees it: all its tokens, up to the first error.  *)
RECURSIVE TokensFrom(_, _)
TokensFrom(s, i) ==
    LET t == GetToken(s, i)
    IN IF ~t.ok THEN <<[type |-> "undef", value |-> <<>>]>>
       ELSE IF t.type = "eoi" THEN <<>>
       ELSE <<[type |-> t.type, value |-> t.value]>> \o TokensFrom(s, t.end)

-----------------------------------------------------------------------------
(* The texts JSON allows for a number and a string, as a reference.        *)

DigitsOf == [n \in 0 .. 9 |-> CHOOSE c \in Digits : Digit[c] = n]
IntText(n) == IF n < 10 THEN <<DigitsOf[n]>> ELSE <<DigitsOf[n \div 10], DigitsOf[n % 10]>>

NumberTexts(v) ==
    {(IF v.neg THEN <<"-">> ELSE <<>>) \o IntText(v.int)
       \o (IF v.frac = <<>> THEN <<>> ELSE <<".">> \o v.frac)
       \o (IF v.exp = 0 THEN <<>>
           ELSE <<e>> \o (IF v.eneg THEN <<"-">> ELSE p) \o IntText(v.exp)) :
       e \in {"e", "E"}, p \in {<<>>, <<"+">>}}

(* Characters written as \u escapes, with their code.                      *)
CodeOf == [U0041 |-> 65, UBEEF |-> 48879]
HexText(n) == [k \in 1 .. 4 |-> CHOOSE c \in HexDigits : HexValue(c) = (n \div 16 ^ (4 - k)) % 16]

CharText(c) == IF c \in DOMAIN CodeOf THEN <<"\\", "u">> \o HexText(CodeOf[c])
               ELSE IF c \in {Escape[l] : l \in DOMAIN Escape}
               THEN <<"\\", CHOOSE l \in DOMAIN Escape : Escape[l] = c>> ELSE <<c>>
StringText(cs) == <<"\"">> \o FlattenSeq([i \in DOMAIN cs |-> CharText(cs[i])]) \o <<"\"">>

Stored(c) == IF c \in DOMAIN CodeOf THEN <<Byte(CodeOf[c] % 256), Byte(CodeOf[c] \div 256)>>
             ELSE <<c>>
StringValue(cs) == FlattenSeq([i \in DOMAIN cs |-> Stored(cs[i])])

(* The text of cs with an escape of k digits at its end.                   *)
CutShort(cs, k) == Front(StringText(cs)) \o <<"\\", "u">> \o [i \in 1 .. k |-> "0"] \o <<"\"">>

Tok(type, value) == [type |-> type, value |-> value]

(* A number is read as it was written, whatever follows.                   *)
NumbersAreRead(vs, ends) ==
    \A v \in vs : \A t \in NumberTexts(v), z \in ends :
        TokensFrom(t \o z, 1) = <<Tok("number", v)>> \o TokensFrom(z, 1)

(* A string is read as it was written, \u escapes as two bytes; one whose  *)
(* last escape has too few digits is refused, whatever follows.            *)
StringsAreRead(css, ends) ==
    \A cs \in css, z \in ends :
        /\ TokensFrom(StringText(cs) \o z, 1) = <<Tok("string", StringValue(cs))>> \o TokensFrom(z, 1)
        /\ \A k \in 0 .. 3 : TokensFrom(CutShort(cs, k) \o z, 1) = <<Tok("undef", <<>>)>>
=============================================================================
