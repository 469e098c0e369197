-------------------------- MODULE EventLinkProofs --------------------------
(***************************************************************************)
(* Proofs about EventLink, for any number of nodes, events and             *)
(* connections.                                                            *)
(***************************************************************************)
EXTENDS EventLink, TLAPS, SequenceTheorems

Conn == [bytes : Seq(Tokens), end : {"open", "closed", "reset"}]
Thread == [at : {"header", "body", "astray", "ended"}, ev : Seq(Events)]
SenderState == [ev : Seq(Events), conn : Nat, at : {"pop", "connect", "write", "body"}]
HandedOver == [event : Events, whole : BOOLEAN, link : Links, conn : Nat]

-----------------------------------------------------------------------------
(* What the operators say of events, places and streams.                   *)

LEMMA EventIs ==
  ASSUME MaxEvents \in [Nodes -> Nat], NEW e
  PROVE  e \in Events <=> /\ e \in [node : Nodes, n : Nat]
                          /\ e.n \in 1 .. MaxEvents[e.node]
<1>1. ASSUME e \in Events
      PROVE  e \in [node : Nodes, n : Nat] /\ e.n \in 1 .. MaxEvents[e.node]
  <2>1. PICK n \in Nodes : e \in [node : {n}, n : 1 .. MaxEvents[n]]
    BY <1>1 DEF Events
  <2> QED
    BY <2>1
<1>2. ASSUME e \in [node : Nodes, n : Nat], e.n \in 1 .. MaxEvents[e.node]
      PROVE  e \in Events
  <2>1. e \in [node : {e.node}, n : 1 .. MaxEvents[e.node]]
    BY <1>2
  <2> QED
    BY <1>2, <2>1 DEF Events
<1> QED
  BY <1>1, <1>2

NoRepetition(s) == \A i, j \in DOMAIN s : s[i] = s[j] => i = j

LEMMA PlaceOfMember ==
  ASSUME NEW s, NEW i \in DOMAIN s, NoRepetition(s)
  PROVE  PlaceIn(s, s[i]) = i
BY DEF PlaceIn, NoRepetition

\* A sequence that grows by a new member keeps the places of the others.
LEMMA AppendKeepsPlaces ==
  ASSUME NEW S, NEW s \in Seq(S), NEW e \in S, NoRepetition(s), e \notin ToSet(s)
  PROVE  /\ NoRepetition(Append(s, e))
         /\ ToSet(Append(s, e)) = ToSet(s) \cup {e}
         /\ \A x \in ToSet(s) : PlaceIn(Append(s, e), x) = PlaceIn(s, x)
<1> DEFINE t == Append(s, e)
<1>1. /\ DOMAIN s = 1 .. Len(s) /\ DOMAIN t = 1 .. Len(s) + 1 /\ Len(s) \in Nat
      /\ t[Len(s) + 1] = e /\ \A i \in 1 .. Len(s) : t[i] = s[i]
  OBVIOUS
<1> HIDE DEF t
<1>2. ToSet(t) = ToSet(s) \cup {e}
  <2>1. \A i \in DOMAIN t : i \in DOMAIN s \/ i = Len(s) + 1
    BY <1>1
  <2>2. \A i \in DOMAIN s : i \in DOMAIN t /\ t[i] = s[i]
    BY <1>1
  <2>3. Len(s) + 1 \in DOMAIN t
    BY <1>1
  <2> QED
    BY <1>1, <2>1, <2>2, <2>3 DEF ToSet
<1>3. NoRepetition(t)
  BY <1>1 DEF NoRepetition, ToSet
<1>4. ASSUME NEW x \in ToSet(s)
      PROVE  PlaceIn(t, x) = PlaceIn(s, x)
  <2>1. PICK i \in DOMAIN s : x = s[i]
    BY DEF ToSet
  <2>2. PlaceIn(s, s[i]) = i
    BY PlaceOfMember
  <2>3. i \in DOMAIN t /\ t[i] = x
    BY <1>1, <2>1
  <2>4. PlaceIn(t, t[i]) = i
    BY <1>3, <2>3, PlaceOfMember
  <2> QED
    BY <2>1, <2>2, <2>3, <2>4
<1> QED
  BY <1>2, <1>3, <1>4 DEF t

\* Writing the next tokens of a message keeps a stream framed.
LEMMA WritingFrames ==
  ASSUME NEW b \in Seq(Tokens), NEW r \in Thread, NEW w \in Seq(Tokens), NEW e \in Events,
         NEW off \in {0, 2}, Framed(b, r),
         \A i \in DOMAIN w : w[i].ev = e /\ w[i].part = off + i,
         off = 0 => PartAt(b, r, Len(b)) = 3,
         off = 2 => PartAt(b, r, Len(b)) = 2 /\ EventAt(b, r, Len(b)) = e
  PROVE  /\ Framed(b \o w, r)
         /\ w # <<>> => /\ PartAt(b \o w, r, Len(b \o w)) = off + Len(w)
                        /\ EventAt(b \o w, r, Len(b \o w)) = e
<1> DEFINE z == b \o w
<1>1. /\ Len(b) \in Nat /\ Len(w) \in Nat /\ Len(z) = Len(b) + Len(w) /\ DOMAIN z = 1 .. Len(z)
      /\ DOMAIN b = 1 .. Len(b) /\ DOMAIN w = 1 .. Len(w)
      /\ \A i \in 1 .. Len(b) : z[i] = b[i]
      /\ \A i \in 1 .. Len(w) : z[Len(b) + i] = w[i]
  OBVIOUS
<1> HIDE DEF z
<1>2. \A i \in 0 .. Len(b) : PartAt(z, r, i) = PartAt(b, r, i) /\ EventAt(z, r, i) = EventAt(b, r, i)
  BY <1>1 DEF PartAt, EventAt
<1>3. \A i \in 1 .. Len(w) : PartAt(z, r, Len(b) + i) = off + i /\ EventAt(z, r, Len(b) + i) = e
  BY <1>1 DEF PartAt, EventAt
<1>4. ASSUME NEW i \in DOMAIN z
      PROVE  IF PartAt(z, r, i - 1) = 3 THEN PartAt(z, r, i) = 1
             ELSE PartAt(z, r, i) = PartAt(z, r, i - 1) + 1
                  /\ EventAt(z, r, i) = EventAt(z, r, i - 1)
  <2>1. CASE i <= Len(b)
    <3>1. i \in DOMAIN b /\ i \in 0 .. Len(b) /\ i - 1 \in 0 .. Len(b)
      BY <1>1, <2>1
    <3> QED
      BY <1>2, <3>1 DEF Framed
  <2>2. CASE i = Len(b) + 1
    <3>1. /\ i - 1 = Len(b) /\ Len(b) \in 0 .. Len(b) /\ 1 \in 1 .. Len(w)
      BY <1>1, <2>2
    <3>2. PartAt(z, r, i) = off + 1 /\ EventAt(z, r, i) = e
      BY <1>3, <2>2, <3>1
    <3>3. PartAt(z, r, i - 1) = PartAt(b, r, Len(b)) /\ EventAt(z, r, i - 1) = EventAt(b, r, Len(b))
      BY <1>2, <3>1
    <3> QED
      BY <3>2, <3>3
  <2>3. CASE i > Len(b) + 1
    <3> DEFINE k == i - Len(b)
    <3>1. k \in 1 .. Len(w) /\ i = Len(b) + k
      BY <1>1, <2>3
    <3>2. k - 1 \in 1 .. Len(w) /\ i - 1 = Len(b) + (k - 1)
      BY SMTT(30), <1>1, <2>3, <3>1
    <3> HIDE DEF k
    <3>3. PartAt(z, r, i) = off + k /\ EventAt(z, r, i) = e
      BY <1>3, <3>1
    <3>4. PartAt(z, r, i - 1) = off + (k - 1) /\ EventAt(z, r, i - 1) = e
      BY <1>3, <3>2
    <3>5. off + k \in 1 .. 3
      <4>1. w[k] \in Tokens /\ w[k].part = off + k
        BY <1>1, <3>1
      <4> QED
        BY <4>1 DEF Tokens
    <3>6. off + (k - 1) # 3 /\ off + k = (off + (k - 1)) + 1
      BY <3>1, <3>5
    <3> QED
      BY <3>3, <3>4, <3>6
  <2> QED
    BY <1>1, <2>1, <2>2, <2>3
<1>5. Framed(z, r)
  BY <1>4 DEF Framed
<1>6. ASSUME w # <<>>
      PROVE  PartAt(z, r, Len(z)) = off + Len(w) /\ EventAt(z, r, Len(z)) = e
  <2>1. Len(w) \in 1 .. Len(w)
    BY <1>1, <1>6
  <2> QED
    BY <1>1, <1>3, <2>1
<1> QED
  BY <1>5, <1>6 DEF z

\* What is left when the first k members of a sequence are taken.
LEMMA Rest ==
  ASSUME NEW S, NEW b \in Seq(S), NEW k \in 0 .. Len(b)
  PROVE  /\ SubSeq(b, k + 1, Len(b)) \in Seq(S)
         /\ Len(SubSeq(b, k + 1, Len(b))) = Len(b) - k
         /\ DOMAIN SubSeq(b, k + 1, Len(b)) = 1 .. Len(b) - k
         /\ \A i \in 1 .. Len(b) - k : SubSeq(b, k + 1, Len(b))[i] = b[i + k]
<1>1. Len(b) \in Nat /\ k + 1 \in 1 .. Len(b) + 1
  OBVIOUS
<1>2. \A i \in k + 1 .. Len(b) : i \in 1 .. Len(b)
  BY <1>1
<1>3. SubSeq(b, k + 1, Len(b)) \in Seq(S)
  BY <1>1, <1>2, SubSeqProperties
<1>4. Len(SubSeq(b, k + 1, Len(b))) = Len(b) - k
  BY <1>1, SubSeqProperties
<1>5. \A i \in 1 .. Len(b) - k : SubSeq(b, k + 1, Len(b))[i] = b[i + k]
  BY <1>1, SubSeqProperties
<1> QED
  BY <1>3, <1>4, <1>5

\* Reading a whole header or a body keeps a stream framed, and its end.
LEMMA HeaderFrames ==
  ASSUME NEW b \in Seq(Tokens), NEW r \in Thread, r.at = "header", Framed(b, r),
         Len(b) >= 2, NEW q \in Thread, q = [at |-> "body", ev |-> <<b[1].ev>>]
  PROVE  /\ Framed(SubSeq(b, 3, Len(b)), q)
         /\ \A s : EndsWhere(b, r, s) => EndsWhere(SubSeq(b, 3, Len(b)), q, s)
<1> DEFINE z == SubSeq(b, 3, Len(b))
<1>1. /\ Len(b) \in Nat /\ Len(z) = Len(b) - 2 /\ DOMAIN z = 1 .. Len(z)
      /\ DOMAIN b = 1 .. Len(b) /\ \A i \in 1 .. Len(z) : z[i] = b[i + 2]
  <2>1. 2 \in 0 .. Len(b) /\ 2 + 1 = 3 /\ Len(b) \in Nat /\ DOMAIN b = 1 .. Len(b)
    OBVIOUS
  <2> QED
    BY <2>1, Rest
<1> HIDE DEF z
<1>2. q.at = "body" /\ q.ev[1] = b[1].ev
  OBVIOUS
<1>3. PartAt(b, r, 1) = 1
  BY <1>1 DEF Framed, PartAt
<1>4. b[2].part = 2 /\ b[2].ev = b[1].ev
  BY <1>1, <1>3 DEF Framed, PartAt, EventAt
<1>5. \A i \in 0 .. Len(z) : /\ PartAt(z, q, i) = PartAt(b, r, i + 2)
                             /\ EventAt(z, q, i) = EventAt(b, r, i + 2)
  <2> SUFFICES ASSUME NEW i \in 0 .. Len(z)
               PROVE  /\ PartAt(z, q, i) = PartAt(b, r, i + 2)
                      /\ EventAt(z, q, i) = EventAt(b, r, i + 2)
    OBVIOUS
  <2>1. CASE i = 0
    BY <1>2, <1>4, <2>1 DEF PartAt, EventAt
  <2>2. CASE i # 0
    BY <1>1, <2>2 DEF PartAt, EventAt
  <2> QED
    BY <2>1, <2>2
<1>6. Framed(z, q)
  <2> SUFFICES ASSUME NEW i \in DOMAIN z
               PROVE  IF PartAt(z, q, i - 1) = 3 THEN PartAt(z, q, i) = 1
                      ELSE PartAt(z, q, i) = PartAt(z, q, i - 1) + 1
                           /\ EventAt(z, q, i) = EventAt(z, q, i - 1)
    BY DEF Framed
  <2>1. /\ i + 2 \in DOMAIN b /\ i \in 0 .. Len(z) /\ i - 1 \in 0 .. Len(z)
        /\ (i - 1) + 2 = (i + 2) - 1
    BY <1>1
  <2> QED
    BY <1>5, <2>1 DEF Framed
<1>7. ASSUME NEW s, EndsWhere(b, r, s) PROVE EndsWhere(z, q, s)
  <2>1. Len(z) \in 0 .. Len(z) /\ Len(z) + 2 = Len(b)
    BY <1>1
  <2> QED
    BY <1>5, <1>7, <2>1 DEF EndsWhere
<1> QED
  BY <1>6, <1>7 DEF z

LEMMA BodyFrames ==
  ASSUME NEW b \in Seq(Tokens), NEW r \in Thread, r.at = "body", Framed(b, r),
         b # <<>>, NEW q \in Thread, q = [r EXCEPT !.at = "header"]
  PROVE  /\ b[1].part = 3 /\ b[1].ev = r.ev[1]
         /\ Framed(SubSeq(b, 2, Len(b)), q)
         /\ \A s : EndsWhere(b, r, s) => EndsWhere(SubSeq(b, 2, Len(b)), q, s)
<1> DEFINE z == SubSeq(b, 2, Len(b))
<1>1. /\ Len(b) \in Nat /\ Len(b) >= 1 /\ Len(z) = Len(b) - 1 /\ DOMAIN z = 1 .. Len(z)
      /\ DOMAIN b = 1 .. Len(b) /\ \A i \in 1 .. Len(z) : z[i] = b[i + 1]
  <2>1. 1 \in 0 .. Len(b) /\ 1 + 1 = 2 /\ Len(b) \in Nat /\ DOMAIN b = 1 .. Len(b)
    OBVIOUS
  <2> QED
    BY <2>1, Rest
<1> HIDE DEF z
<1>2. q.at = "header" /\ q.ev = r.ev
  BY DEF Thread
<1>3. b[1].part = 3 /\ b[1].ev = r.ev[1]
  BY <1>1 DEF Framed, PartAt, EventAt
<1>5. \A i \in 0 .. Len(z) : /\ PartAt(z, q, i) = PartAt(b, r, i + 1)
                             /\ EventAt(z, q, i) = EventAt(b, r, i + 1)
  <2> SUFFICES ASSUME NEW i \in 0 .. Len(z)
               PROVE  /\ PartAt(z, q, i) = PartAt(b, r, i + 1)
                      /\ EventAt(z, q, i) = EventAt(b, r, i + 1)
    OBVIOUS
  <2>1. CASE i = 0
    BY <1>2, <1>3, <2>1 DEF PartAt, EventAt
  <2>2. CASE i # 0
    BY <1>1, <2>2 DEF PartAt, EventAt
  <2> QED
    BY <2>1, <2>2
<1>6. Framed(z, q)
  <2> SUFFICES ASSUME NEW i \in DOMAIN z
               PROVE  IF PartAt(z, q, i - 1) = 3 THEN PartAt(z, q, i) = 1
                      ELSE PartAt(z, q, i) = PartAt(z, q, i - 1) + 1
                           /\ EventAt(z, q, i) = EventAt(z, q, i - 1)
    BY DEF Framed
  <2>1. /\ i + 1 \in DOMAIN b /\ i \in 0 .. Len(z) /\ i - 1 \in 0 .. Len(z)
        /\ (i - 1) + 1 = (i + 1) - 1
    BY <1>1
  <2> QED
    BY <1>5, <2>1 DEF Framed
<1>7. ASSUME NEW s, EndsWhere(b, r, s) PROVE EndsWhere(z, q, s)
  <2>1. Len(z) \in 0 .. Len(z) /\ Len(z) + 1 = Len(b)
    BY <1>1
  <2> QED
    BY <1>5, <1>7, <2>1 DEF EndsWhere
<1> QED
  BY <1>3, <1>6, <1>7 DEF z

-----------------------------------------------------------------------------
(* An event that is pushed to the out queues of its node.                  *)

LEMMA PushOutAppends ==
  ASSUME TypeOK, NEW n \in Nodes, NEW e \in Events, PushOut(n, e)
  PROVE  /\ outq' \in [Links -> Seq(Events)] /\ emitted' \in [Links -> Seq(Events)]
         /\ \A l \in Links \ From(n) : outq'[l] = outq[l] /\ emitted'[l] = emitted[l]
         /\ \A l \in From(n) : /\ outq'[l] = Append(outq[l], e)
                               /\ emitted'[l] = Append(emitted[l], e)
<1>1. \A l \in From(n) : l \in Links
  BY DEF From
<1>2. \A l \in Links : Append(outq[l], e) \in Seq(Events) /\ Append(emitted[l], e) \in Seq(Events)
  BY DEF TypeOK
<1> QED
  BY <1>1, <1>2 DEF PushOut, TypeOK

\* What the links keep when a new event is pushed: the places of the others.
LEMMA PushOutKeepsPlaces ==
  ASSUME TypeOK, ForwardedOnce, NEW n \in Nodes, NEW e \in Events, PushOut(n, e),
         \A l \in From(n) : e \notin ToSet(emitted[l]),
         NEW l \in Links
  PROVE  /\ NoRepetition(emitted'[l])
         /\ ToSet(emitted'[l]) = IF l \in From(n) THEN ToSet(emitted[l]) \cup {e}
                                                  ELSE ToSet(emitted[l])
         /\ \A x \in ToSet(emitted[l]) : PlaceIn(emitted'[l], x) = PlaceIn(emitted[l], x)
<1>1. emitted[l] \in Seq(Events) /\ NoRepetition(emitted[l])
  BY DEF TypeOK, ForwardedOnce, NoRepetition
<1>2. CASE l \in From(n)
  <2>1. emitted'[l] = Append(emitted[l], e)
    BY <1>2, PushOutAppends
  <2> QED
    BY <1>1, <1>2, <2>1, AppendKeepsPlaces
<1>3. CASE l \notin From(n)
  <2>1. emitted'[l] = emitted[l]
    BY <1>3, PushOutAppends
  <2> QED
    BY <1>1, <1>3, <2>1
<1> QED
  BY <1>2, <1>3

\* A suffix q of s stays one when both grow.
LEMMA AppendKeepsSuffix ==
  ASSUME NEW S, NEW s \in Seq(S), NEW q \in Seq(S), NEW e \in S, NEW p \in Nat,
         p = Len(s) - Len(q), \A i \in DOMAIN q : q[i] = s[p + i]
  PROVE  /\ Len(Append(s, e)) - Len(Append(q, e)) = p
         /\ \A i \in DOMAIN Append(q, e) : Append(q, e)[i] = Append(s, e)[p + i]
         /\ p >= 1 => Append(s, e)[p] = s[p]
<1>1. /\ Len(s) \in Nat /\ Len(q) \in Nat /\ DOMAIN q = 1 .. Len(q)
      /\ DOMAIN Append(q, e) = 1 .. Len(q) + 1
      /\ Len(Append(s, e)) = Len(s) + 1 /\ Len(Append(q, e)) = Len(q) + 1
      /\ \A i \in 1 .. Len(s) : Append(s, e)[i] = s[i]
      /\ \A i \in 1 .. Len(q) : Append(q, e)[i] = q[i]
      /\ Append(s, e)[Len(s) + 1] = e /\ Append(q, e)[Len(q) + 1] = e
  OBVIOUS
<1>2. ASSUME NEW i \in 1 .. Len(q)
      PROVE  Append(q, e)[i] = Append(s, e)[p + i]
  <2>1. p + i \in 1 .. Len(s)
    BY <1>1
  <2> QED
    BY <1>1, <2>1
<1>3. p + (Len(q) + 1) = Len(s) + 1
  BY <1>1
<1>4. \A i \in DOMAIN Append(q, e) : Append(q, e)[i] = Append(s, e)[p + i]
  BY <1>1, <1>2, <1>3
<1>5. p >= 1 => p \in 1 .. Len(s)
  BY <1>1
<1>6. Len(Append(s, e)) - Len(Append(q, e)) = p
  BY <1>1
<1> QED
  BY <1>1, <1>4, <1>5, <1>6

LEMMA PushOutKeepsSenders ==
  ASSUME TypeOK, SendersHoldTheNext, NEW n \in Nodes, NEW e \in Events, PushOut(n, e),
         UNCHANGED sender
  PROVE  /\ SendersHoldTheNext'
         /\ \A l \in Links : Len(emitted'[l]) - Len(outq'[l]) = Popped(l)
<1> SUFFICES ASSUME NEW l \in Links
             PROVE  /\ Len(emitted'[l]) - Len(outq'[l]) = Popped(l)
                    /\ \A i \in DOMAIN outq'[l] : outq'[l][i] = emitted'[l][Popped(l) + i]
                    /\ Popped(l) >= 1 => emitted'[l][Popped(l)] = emitted[l][Popped(l)]
  BY ZenonT(60) DEF SendersHoldTheNext, Popped
<1>1. /\ outq[l] \in Seq(Events) /\ emitted[l] \in Seq(Events)
      /\ Popped(l) \in Nat /\ Popped(l) = Len(emitted[l]) - Len(outq[l])
      /\ \A i \in DOMAIN outq[l] : outq[l][i] = emitted[l][Popped(l) + i]
  BY DEF TypeOK, Popped, SendersHoldTheNext
<1>2. CASE l \notin From(n)
  BY <1>1, <1>2, PushOutAppends
<1>3. CASE l \in From(n)
  <2>1. outq'[l] = Append(outq[l], e) /\ emitted'[l] = Append(emitted[l], e)
    BY <1>3, PushOutAppends
  <2> DEFINE s == emitted[l]
             q == outq[l]
             k == Popped(l)
  <2>2. /\ s \in Seq(Events) /\ q \in Seq(Events) /\ k \in Nat /\ k = Len(s) - Len(q)
        /\ \A i \in DOMAIN q : q[i] = s[k + i]
    BY <1>1
  <2> HIDE DEF s, q, k
  <2>3. /\ Len(Append(s, e)) - Len(Append(q, e)) = k
        /\ \A i \in DOMAIN Append(q, e) : Append(q, e)[i] = Append(s, e)[k + i]
        /\ k >= 1 => Append(s, e)[k] = s[k]
    BY ONLY <2>2, e \in Events, AppendKeepsSuffix
  <2> QED
    BY <2>1, <2>3 DEF s, q, k
<1> QED
  BY <1>2, <1>3

LEMMA HandedTypes ==
  ASSUME TypeOK, NEW n \in Nodes, NEW i \in DOMAIN handed[n]
  PROVE  /\ handed[n][i].link \in Links /\ handed[n][i].event \in Events
         /\ handed[n][i].whole \in BOOLEAN /\ handed[n][i].conn \in Nat
<1>1. handed[n] \in Seq(HandedOver)
  BY DEF TypeOK, HandedOver
<1>2. handed[n][i] \in HandedOver
  BY <1>1
<1> QED
  BY <1>2 DEF HandedOver

\* It is enough that what was handed over stays gone.
LEMMA GoneStays ==
  ASSUME TypeOK, OnlyEmittedArrive, ReadIsGone, UNCHANGED handed,
         \A h : (h.link \in Links /\ h.event \in ToSet(emitted[h.link]) /\ Gone(h)) => Gone(h)'
  PROVE  ReadIsGone'
<1>1. \A n \in Nodes : \A k \in DOMAIN handed[n] :
        handed[n][k].link \in Links /\ handed[n][k].event \in ToSet(emitted[handed[n][k].link])
  BY HandedTypes DEF OnlyEmittedArrive
<1>2. ASSUME NEW n \in Nodes, NEW k \in DOMAIN handed[n], handed[n][k].whole, NEW h, h = handed[n][k]
      PROVE  Gone(h)'
  BY <1>1, <1>2 DEF ReadIsGone
<1> QED
  BY <1>2 DEF ReadIsGone

\* What is under way and what arrived stays where it is.
LEMMA PushOutKeepsLinks ==
  ASSUME TypeOK, ForwardedOnce, SendersHoldTheNext, StreamsAreFramed, OnlyEmittedArrive,
         WrittenOnce, ReadIsGone, ReadOnce,
         NEW n \in Nodes, NEW e \in Events, PushOut(n, e),
         \A l \in From(n) : e \notin ToSet(emitted[l]),
         UNCHANGED <<sender, conns, reader, handed>>
  PROVE  /\ SendersHoldTheNext' /\ StreamsAreFramed' /\ OnlyEmittedArrive'
         /\ WrittenOnce' /\ ReadIsGone' /\ ReadOnce'
<1>1. \A l \in Links : ToSet(emitted[l]) \subseteq ToSet(emitted'[l])
  BY PushOutKeepsPlaces
<1>2. \A l \in Links : \A x \in ToSet(emitted[l]) : PlaceIn(emitted'[l], x) = PlaceIn(emitted[l], x)
  BY PushOutKeepsPlaces
<1>3. \A l \in Links : Len(emitted'[l]) - Len(outq'[l]) = Len(emitted[l]) - Len(outq[l])
  BY PushOutKeepsSenders DEF Popped
<1>4. \A k \in Nodes : \A i \in DOMAIN handed[k] : handed[k][i].link \in Links
  BY HandedTypes
<1>12. \A l \in Links : Sent(l)' = Sent(l)
  BY <1>3 DEF Sent, Popped
<1>5. SendersHoldTheNext' /\ StreamsAreFramed'
  BY PushOutKeepsSenders DEF StreamsAreFramed
<1>6. OnlyEmittedArrive'
  BY <1>1, <1>4 DEF OnlyEmittedArrive
<1>7. \A l \in Links : \A c \in DOMAIN conns[l] : \A i \in Ends(conns[l][c].bytes) :
        conns[l][c].bytes[i].ev \in ToSet(emitted[l])
  BY DEF OnlyEmittedArrive, Ends
<1>8. \A k \in Nodes : \A i \in DOMAIN handed[k] :
        handed[k][i].event \in ToSet(emitted[handed[k][i].link])
  BY DEF OnlyEmittedArrive
<1>9. WrittenOnce'
  <2> SUFFICES ASSUME NEW l \in Links, NEW c \in DOMAIN conns[l], NEW i \in Ends(conns[l][c].bytes),
                      NEW d \in DOMAIN conns[l], NEW j \in Ends(conns[l][d].bytes)
               PROVE  LET p == conns[l][c].bytes[i].ev
                          q == conns[l][d].bytes[j].ev
                      IN  /\ PlaceIn(emitted'[l], p) <= Sent(l)
                          /\ c # d => p # q
                          /\ (c = d /\ i < j) => PlaceIn(emitted'[l], p) < PlaceIn(emitted'[l], q)
    BY <1>12 DEF WrittenOnce, Position
  <2>1. /\ PlaceIn(emitted'[l], conns[l][c].bytes[i].ev) = PlaceIn(emitted[l], conns[l][c].bytes[i].ev)
        /\ PlaceIn(emitted'[l], conns[l][d].bytes[j].ev) = PlaceIn(emitted[l], conns[l][d].bytes[j].ev)
    BY <1>2, <1>7
  <2> QED
    BY <2>1 DEF WrittenOnce, Position
<1>10. ReadIsGone'
  <2>1. ASSUME NEW h, h.link \in Links, h.event \in ToSet(emitted[h.link]), Gone(h)
        PROVE  Gone(h)'
    <3>1. PlaceIn(emitted'[h.link], h.event) = PlaceIn(emitted[h.link], h.event)
      BY <1>2, <2>1
    <3>2. ASSUME NEW c \in DOMAIN conns[h.link], NEW i \in Ends(conns[h.link][c].bytes)
          PROVE  PlaceIn(emitted'[h.link], conns[h.link][c].bytes[i].ev)
                   = PlaceIn(emitted[h.link], conns[h.link][c].bytes[i].ev)
      BY <1>2, <1>7, <2>1
    <3>3. Sent(h.link)' = Sent(h.link)
      BY <1>12, <2>1
    <3> QED
      BY <2>1, <3>1, <3>2, <3>3 DEF Gone, Position
  <2> QED
    BY <2>1, GoneStays
<1>11. ReadOnce'
  BY <1>2, <1>4, <1>8 DEF ReadOnce, Position
<1> QED
  BY <1>5, <1>6, <1>9, <1>10, <1>11

-----------------------------------------------------------------------------
(* The loop and the state machines.                                        *)

\* The parts of the invariant that are about the queues, and the rest.
QueueInv == TypeOK /\ UnsentAreNew /\ ForwardedOnce
LinkInv ==
  /\ SendersHoldTheNext /\ StreamsAreFramed /\ OnlyEmittedArrive
  /\ WrittenOnce /\ ReadIsGone /\ ReadOnce

LEMMA ParentParts == EventsAreSentOnce <=> QueueInv /\ LinkInv
BY DEF EventsAreSentOnce, QueueInv, LinkInv

LEMMA UnchangedLinks ==
  ASSUME TypeOK, LinkInv, UNCHANGED <<outq, emitted, sender, conns, reader, handed>>
  PROVE  LinkInv'
<1> USE DEF LinkInv
<1>1. SendersHoldTheNext' /\ StreamsAreFramed' /\ OnlyEmittedArrive'
  BY DEF SendersHoldTheNext, Popped, StreamsAreFramed, OnlyEmittedArrive
<1>0. \A l : Sent(l)' = Sent(l)
  BY DEF Sent, Popped
<1>2. WrittenOnce'
  BY <1>0 DEF WrittenOnce, Position
<1>3. ReadIsGone'
  <2>1. \A h : Gone(h) => Gone(h)'
    BY <1>0 DEF Gone, Position
  <2> QED
    BY <2>1, GoneStays
<1>4. ReadOnce'
  BY DEF ReadOnce, Position
<1> QED
  BY <1>1, <1>2, <1>3, <1>4

QueuedEvent == [event : Events, sent : BOOLEAN]

LEMMA QueueTypes ==
  ASSUME TypeOK, NEW n \in Nodes
  PROVE  /\ raised[n] \in Nat /\ mainq[n] \in Seq(QueuedEvent)
         /\ Len(mainq[n]) \in Nat /\ DOMAIN mainq[n] = 1 .. Len(mainq[n])
         /\ \A i \in DOMAIN mainq[n] : mainq[n][i].event \in Events /\ mainq[n][i].sent \in BOOLEAN
<1>1. raised[n] \in Nat /\ mainq[n] \in Seq(QueuedEvent)
  BY DEF TypeOK, QueuedEvent
<1>2. \A i \in DOMAIN mainq[n] : mainq[n][i] \in QueuedEvent
  BY <1>1
<1> QED
  BY <1>1, <1>2 DEF QueuedEvent

LEMMA LinkTypes ==
  ASSUME MaxEvents \in [Nodes -> Nat], TypeOK, NEW l \in Links
  PROVE  /\ l[1] \in Nodes /\ l[2] \in Nodes /\ l[1] # l[2] /\ l \in From(l[1])
         /\ outq[l] \in Seq(Events) /\ emitted[l] \in Seq(Events)
         /\ \A i \in DOMAIN emitted[l] : /\ emitted[l][i] \in Events /\ emitted[l][i].n \in Nat
                                         /\ emitted[l][i].node \in Nodes
<1>1. outq[l] \in Seq(Events) /\ emitted[l] \in Seq(Events)
  BY DEF TypeOK
<1>2. \A i \in DOMAIN emitted[l] : emitted[l][i] \in Events
  BY <1>1
<1> QED
  BY <1>1, <1>2, EventIs DEF Links, From

\* What is true of node m's main queue, in this state and the next.
QueueOf(m) ==
  \A i \in DOMAIN mainq[m] :
    LET q == mainq[m][i] IN
    /\ q.event.node = m => q.event.n <= raised[m]
    /\ ~ q.sent => q.event.node = m
    /\ q.event.node = m => \A l \in From(m) : q.sent <=> q.event \in ToSet(emitted[l])
    /\ \A j \in DOMAIN mainq[m] :
         (i < j /\ ~ q.sent /\ ~ mainq[m][j].sent) => q.event # mainq[m][j].event

\* The events 1 to raised of a link's node are in its queue or emitted.
Accounted(l) ==
  \A k \in 1 .. raised[l[1]] :
    \/ \E i \in DOMAIN emitted[l] : emitted[l][i].n = k
    \/ \E i \in DOMAIN mainq[l[1]] : mainq[l[1]][i].event.n = k
                                      /\ mainq[l[1]][i].event.node = l[1]

EmittedBy(l) ==
  /\ NoRepetition(emitted[l])
  /\ \A i \in DOMAIN emitted[l] : emitted[l][i].node = l[1] /\ emitted[l][i].n <= raised[l[1]]

LEMMA QueueInvParts ==
  QueueInv <=> /\ TypeOK
               /\ \A m \in Nodes : QueueOf(m)
               /\ \A l \in Links : EmittedBy(l) /\ Accounted(l)
BY DEF QueueInv, UnsentAreNew, ForwardedOnce, QueueOf, EmittedBy, Accounted, NoRepetition

LEMMA FromIs ==
  ASSUME NEW n \in Nodes, NEW l \in Links
  PROVE  l \in From(n) <=> l[1] = n
BY DEF From

\* The event a node raises next is in no queue yet.
LEMMA NextIsNew ==
  ASSUME MaxEvents \in [Nodes -> Nat], QueueInv, NEW n \in Nodes, raised[n] < MaxEvents[n]
  PROVE  LET e == [node |-> n, n |-> raised[n] + 1] IN
         /\ e \in Events
         /\ \A l \in From(n) : e \notin ToSet(emitted[l])
         /\ \A i \in DOMAIN mainq[n] : mainq[n][i].event # e
<1> DEFINE e == [node |-> n, n |-> raised[n] + 1]
<1>1. TypeOK /\ QueueOf(n) /\ raised[n] \in Nat
  BY QueueInvParts, QueueTypes
<1>2. e.node = n /\ e.n = raised[n] + 1
  OBVIOUS
<1>3. e \in Events
  <2>1. e \in [node : Nodes, n : Nat] /\ e.n \in 1 .. MaxEvents[e.node]
    BY <1>1
  <2> QED
    BY <2>1, EventIs
<1> HIDE DEF e
<1>4. ASSUME NEW l \in From(n) PROVE e \notin ToSet(emitted[l])
  <2>1. l \in Links /\ l[1] = n
    BY DEF From
  <2>2. \A i \in DOMAIN emitted[l] : emitted[l][i].n <= raised[n] /\ emitted[l][i].n \in Nat
    BY <1>1, <2>1, QueueInvParts, LinkTypes DEF EmittedBy
  <2> QED
    BY <1>1, <1>2, <2>2 DEF ToSet
<1>5. ASSUME NEW i \in DOMAIN mainq[n] PROVE mainq[n][i].event # e
  <2>1. mainq[n][i].event.n \in Nat
    BY <1>1, QueueTypes, EventIs
  <2> QED
    BY <1>1, <1>2, <2>1 DEF QueueOf
<1> QED
  BY <1>3, <1>4, <1>5 DEF e

\* A new event: it is appended to the main queue and, unless it is internal,
\* to the out queues.
LEMMA RaiseKeeps ==
  ASSUME MaxEvents \in [Nodes -> Nat], QueueInv, LinkInv, NEW n \in Nodes,
         NEW internal \in BOOLEAN, Raise(n, internal)
  PROVE  QueueInv' /\ LinkInv'
<1> DEFINE e == [node |-> n, n |-> raised[n] + 1]
           q == Queued(e, ~internal)
<1>0. TypeOK /\ ForwardedOnce /\ (\A m \in Nodes : QueueOf(m)) /\ \A l \in Links : EmittedBy(l) /\ Accounted(l)
  BY QueueInvParts DEF QueueInv
<1>1. /\ e \in Events /\ \A l \in From(n) : e \notin ToSet(emitted[l])
      /\ \A i \in DOMAIN mainq[n] : mainq[n][i].event # e
  BY NextIsNew DEF Raise
<1>2. e.node = n /\ e.n = raised[n] + 1 /\ q.event = e /\ q.sent = ~internal
  BY DEF Queued
<1>3. q \in QueuedEvent
  BY <1>1 DEF Queued, QueuedEvent
<1>4. /\ raised' = [raised EXCEPT ![n] = raised[n] + 1]
      /\ mainq' = [mainq EXCEPT ![n] = Append(mainq[n], q)]
      /\ IF internal THEN UNCHANGED <<outq, emitted>> ELSE PushOut(n, e)
      /\ UNCHANGED <<sender, conns, reader, handed>>
  BY DEF Raise
<1> HIDE DEF e, q
<1>5. /\ \A m \in Nodes \ {n} : raised'[m] = raised[m] /\ mainq'[m] = mainq[m]
      /\ raised'[n] = raised[n] + 1 /\ mainq'[n] = Append(mainq[n], q)
      /\ raised[n] \in Nat /\ raised[n] < MaxEvents[n]
  BY <1>0, <1>4 DEF TypeOK, Raise
<1>6. /\ outq' \in [Links -> Seq(Events)] /\ emitted' \in [Links -> Seq(Events)]
      /\ \A l \in Links : /\ NoRepetition(emitted'[l])
                          /\ ToSet(emitted'[l]) = IF l[1] = n /\ ~internal
                                                  THEN ToSet(emitted[l]) \cup {e}
                                                  ELSE ToSet(emitted[l])
  <2>1. CASE internal
    BY <1>0, <1>4, <2>1 DEF TypeOK, EmittedBy
  <2>2. CASE ~internal
    <3>1. PushOut(n, e)
      BY <1>4, <2>2
    <3>2. outq' \in [Links -> Seq(Events)] /\ emitted' \in [Links -> Seq(Events)]
      BY <1>0, <1>1, <3>1, PushOutAppends
    <3> QED
      BY <1>0, <1>1, <2>2, <3>1, <3>2, PushOutKeepsPlaces, FromIs
  <2> QED
    BY <2>1, <2>2
<1>7. TypeOK'
  <2>1. Append(mainq[n], q) \in Seq(QueuedEvent)
    BY <1>0, <1>3, QueueTypes
  <2>2. mainq' \in [Nodes -> Seq([event : Events, sent : BOOLEAN])]
    BY <1>0, <1>4, <2>1 DEF TypeOK, QueuedEvent
  <2>3. raised' \in [Nodes -> Nat] /\ \A m \in Nodes : raised'[m] <= MaxEvents[m]
    BY <1>0, <1>4, <1>5 DEF TypeOK
  <2> QED
    BY <1>0, <1>4, <1>6, <2>2, <2>3 DEF TypeOK
<1>8. LinkInv'
  <2>1. CASE internal
    BY <1>0, <1>4, <2>1, UnchangedLinks
  <2>2. CASE ~internal
    <3>1. PushOut(n, e)
      BY <1>4, <2>2
    <3> QED
      BY <1>0, <1>1, <1>4, <3>1, PushOutKeepsLinks DEF LinkInv
  <2> QED
    BY <2>1, <2>2
<1>9. ASSUME NEW l \in Links PROVE EmittedBy(l)'
  <2>1. \A x \in ToSet(emitted[l]) : x.node = l[1] /\ x.n <= raised[l[1]] /\ x.n \in Nat
    BY <1>0, LinkTypes DEF EmittedBy, ToSet
  <2>2. l[1] \in Nodes /\ raised[l[1]] \in Nat /\ raised'[l[1]] \in Nat /\ raised[l[1]] <= raised'[l[1]]
    <3>1. l[1] \in Nodes
      BY <1>0, LinkTypes
    <3>2. raised[l[1]] \in Nat
      BY <1>0, <3>1, QueueTypes
    <3> QED
      BY <1>5, <3>1, <3>2
  <2>3. \A x \in ToSet(emitted'[l]) : x.node = l[1] /\ x.n <= raised'[l[1]]
    BY <1>2, <1>5, <1>6, <2>1, <2>2
  <2> QED
    BY <1>6, <2>3 DEF EmittedBy, ToSet
<1>10. ASSUME NEW l \in Links PROVE Accounted(l)'
  <2> SUFFICES ASSUME NEW k \in 1 .. raised'[l[1]]
               PROVE  \/ \E x \in ToSet(emitted'[l]) : x.n = k
                      \/ \E i \in DOMAIN mainq'[l[1]] : /\ mainq'[l[1]][i].event.n = k
                                                        /\ mainq'[l[1]][i].event.node = l[1]
    BY DEF Accounted, ToSet
  <2>1. l[1] \in Nodes
    BY <1>0, LinkTypes
  <2>2. ToSet(emitted[l]) \subseteq ToSet(emitted'[l])
    BY <1>6
  <2>3. CASE k \in 1 .. raised[l[1]]
    <3>1. \/ \E x \in ToSet(emitted[l]) : x.n = k
          \/ \E i \in DOMAIN mainq[l[1]] : /\ mainq[l[1]][i].event.n = k
                                           /\ mainq[l[1]][i].event.node = l[1]
      BY <1>0, <2>3 DEF Accounted, ToSet
    <3>2. \A i \in DOMAIN mainq[l[1]] : i \in DOMAIN mainq'[l[1]] /\ mainq'[l[1]][i] = mainq[l[1]][i]
      <4>1. CASE l[1] = n
        BY SMTT(30), <1>0, <1>3, <1>5, <4>1, QueueTypes
      <4>2. CASE l[1] # n
        BY <1>5, <2>1, <4>2
      <4> QED
        BY <4>1, <4>2
    <3> QED
      BY <2>2, <3>1, <3>2
  <2>4. CASE k \notin 1 .. raised[l[1]]
    <3>1. l[1] = n /\ k = raised[n] + 1
      BY <1>5, <2>1, <2>4
    <3>2. /\ Len(mainq[n]) + 1 \in DOMAIN Append(mainq[n], q)
          /\ Append(mainq[n], q)[Len(mainq[n]) + 1] = q
      BY <1>0, <1>3, QueueTypes
    <3> QED
      BY <1>2, <1>5, <3>1, <3>2
  <2> QED
    BY <2>3, <2>4
<1>11. ASSUME NEW m \in Nodes PROVE QueueOf(m)'
  <2>1. CASE m # n
    <3>1. mainq'[m] = mainq[m] /\ raised'[m] = raised[m]
      BY <1>5, <2>1
    <3>2. \A l \in From(m) : ToSet(emitted'[l]) = ToSet(emitted[l])
      BY <1>6, <2>1 DEF From
    <3> QED
      BY <1>0, <3>1, <3>2 DEF QueueOf
  <2>2. CASE m = n
    <3> DEFINE s == mainq[n]
               t == mainq'[n]
    <3>1. /\ Len(s) \in Nat /\ DOMAIN s = 1 .. Len(s) /\ DOMAIN t = 1 .. Len(s) + 1
          /\ \A i \in 1 .. Len(s) : t[i] = s[i]
          /\ t[Len(s) + 1] = q
      BY <1>0, <1>3, <1>5, QueueTypes
    <3>2. \A i \in 1 .. Len(s) : /\ s[i].event \in Events /\ s[i].sent \in BOOLEAN
                                 /\ s[i].event.n \in Nat /\ s[i].event # e
      BY <1>0, <1>1, <3>1, QueueTypes, EventIs
    <3>3. /\ \A i \in 1 .. Len(s) : s[i].event.node = n => s[i].event.n <= raised[n]
          /\ \A i \in 1 .. Len(s) : ~s[i].sent => s[i].event.node = n
          /\ \A i \in 1 .. Len(s) : s[i].event.node = n =>
               \A l \in From(n) : s[i].sent <=> s[i].event \in ToSet(emitted[l])
          /\ \A i, j \in 1 .. Len(s) : (i < j /\ ~s[i].sent /\ ~s[j].sent) => s[i].event # s[j].event
      BY <1>0, <3>1 DEF QueueOf
    <3> HIDE DEF s, t
    <3>4. \A i \in 1 .. Len(s) + 1 : i \in 1 .. Len(s) \/ i = Len(s) + 1
      BY <3>1
    <3>5. \A i \in DOMAIN t : t[i].event.node = n => t[i].event.n <= raised'[n]
      BY <1>2, <1>5, <3>1, <3>2, <3>3, <3>4
    <3>6. \A i \in DOMAIN t : ~t[i].sent => t[i].event.node = n
      BY <1>2, <3>1, <3>3, <3>4
    <3>7. ASSUME NEW i \in DOMAIN t, t[i].event.node = n, NEW l \in From(n)
          PROVE  t[i].sent <=> t[i].event \in ToSet(emitted'[l])
      <4>1. ToSet(emitted'[l]) = IF ~internal THEN ToSet(emitted[l]) \cup {e} ELSE ToSet(emitted[l])
        BY <1>6 DEF From
      <4>2. CASE i \in 1 .. Len(s)
        BY <3>1, <3>2, <3>3, <3>7, <4>1, <4>2
      <4>3. CASE i = Len(s) + 1
        BY <1>1, <1>2, <3>1, <4>1, <4>3
      <4> QED
        BY <3>1, <3>4, <4>2, <4>3
    <3>8. ASSUME NEW i \in DOMAIN t, NEW j \in DOMAIN t, i < j, ~t[i].sent, ~t[j].sent
          PROVE  t[i].event # t[j].event
      <4>1. i \in 1 .. Len(s)
        BY <3>1, <3>8
      <4>2. CASE j \in 1 .. Len(s)
        BY <3>1, <3>3, <3>8, <4>1, <4>2
      <4>3. CASE j = Len(s) + 1
        BY <1>2, <3>1, <3>2, <4>1, <4>3
      <4> QED
        BY <3>1, <3>4, <4>2, <4>3
    <3> QED
      BY <2>2, <3>5, <3>6, <3>7, <3>8 DEF QueueOf, t
  <2> QED
    BY <2>1, <2>2
<1> QED
  BY <1>7, <1>8, <1>9, <1>10, <1>11, QueueInvParts DEF QueueInv, UnsentAreNew, ForwardedOnce, QueueOf, EmittedBy, Accounted, NoRepetition

\* The loop takes an event: one that was not sent is pushed to the out queues.
LEMMA FetchKeeps ==
  ASSUME MaxEvents \in [Nodes -> Nat], QueueInv, LinkInv, NEW n \in Nodes, Fetch(n)
  PROVE  QueueInv' /\ LinkInv'
<1> DEFINE s == mainq[n]
           q == s[1]
           e == q.event
           t == Tail(s)
<1>0. TypeOK /\ ForwardedOnce /\ (\A m \in Nodes : QueueOf(m)) /\ \A l \in Links : EmittedBy(l) /\ Accounted(l)
  BY QueueInvParts DEF QueueInv
<1>1. /\ s \in Seq(QueuedEvent) /\ s # <<>> /\ Len(s) \in Nat /\ Len(s) >= 1
      /\ DOMAIN s = 1 .. Len(s) /\ 1 \in DOMAIN s
      /\ t \in Seq(QueuedEvent) /\ DOMAIN t = 1 .. Len(s) - 1
      /\ \A i \in 1 .. Len(s) - 1 : t[i] = s[i + 1] /\ i + 1 \in DOMAIN s
  <2>1. s \in Seq(QueuedEvent) /\ s # <<>>
    BY <1>0, QueueTypes DEF Fetch
  <2> HIDE DEF s
  <2> QED
    BY ONLY <2>1
<1>2. /\ mainq' = [mainq EXCEPT ![n] = t]
      /\ IF q.sent THEN UNCHANGED <<outq, emitted>> ELSE PushOut(n, e)
      /\ UNCHANGED <<raised, sender, conns, reader, handed>>
  BY <1>1 DEF Fetch
<1>3. /\ \A i \in DOMAIN s : s[i].event \in Events /\ s[i].sent \in BOOLEAN
      /\ \A i \in DOMAIN s : s[i].event.node = n => s[i].event.n <= raised[n]
      /\ \A i \in DOMAIN s : ~s[i].sent => s[i].event.node = n
      /\ \A i \in DOMAIN s : s[i].event.node = n =>
           \A l \in From(n) : s[i].sent <=> s[i].event \in ToSet(emitted[l])
      /\ \A i, j \in DOMAIN s : (i < j /\ ~s[i].sent /\ ~s[j].sent) => s[i].event # s[j].event
  BY <1>0, QueueTypes DEF QueueOf
<1> HIDE DEF s, t
<1>4. /\ e \in Events /\ q.sent \in BOOLEAN
      /\ ~q.sent => e.node = n /\ \A l \in From(n) : e \notin ToSet(emitted[l])
  BY <1>1, <1>3
<1>5. /\ \A m \in Nodes \ {n} : mainq'[m] = mainq[m]
      /\ mainq'[n] = t /\ mainq' \in [Nodes -> Seq([event : Events, sent : BOOLEAN])]
  BY <1>0, <1>1, <1>2 DEF TypeOK, QueuedEvent
<1> HIDE DEF q
<1>6. /\ outq' \in [Links -> Seq(Events)] /\ emitted' \in [Links -> Seq(Events)]
      /\ \A l \in Links : /\ NoRepetition(emitted'[l])
                          /\ ToSet(emitted'[l]) = IF l[1] = n /\ ~q.sent
                                                  THEN ToSet(emitted[l]) \cup {e}
                                                  ELSE ToSet(emitted[l])
  <2>1. CASE q.sent
    BY <1>0, <1>2, <2>1 DEF TypeOK, EmittedBy
  <2>2. CASE ~q.sent
    <3>1. PushOut(n, e)
      BY <1>2, <2>2
    <3>2. outq' \in [Links -> Seq(Events)] /\ emitted' \in [Links -> Seq(Events)]
      BY <1>0, <1>4, <3>1, PushOutAppends
    <3> HIDE DEF e
    <3> QED
      BY <1>0, <1>4, <2>2, <3>1, <3>2, PushOutKeepsPlaces, FromIs
  <2> QED
    BY <2>1, <2>2
<1>7. TypeOK'
  BY <1>0, <1>2, <1>5, <1>6 DEF TypeOK
<1>8. LinkInv'
  <2>1. CASE q.sent
    BY <1>0, <1>2, <2>1, UnchangedLinks
  <2>2. CASE ~q.sent
    <3>1. PushOut(n, e)
      BY <1>2, <2>2
    <3> HIDE DEF e
    <3> QED
      BY <1>0, <1>2, <1>4, <2>2, <3>1, PushOutKeepsLinks DEF LinkInv
  <2> QED
    BY <2>1, <2>2
<1>9. ASSUME NEW l \in Links PROVE EmittedBy(l)'
  <2>1. \A x \in ToSet(emitted[l]) : x.node = l[1] /\ x.n <= raised[l[1]]
    BY <1>0 DEF EmittedBy, ToSet
  <2>2. e.node = n => e.n <= raised[n]
    BY <1>1, <1>3 DEF q
  <2>3. \A x \in ToSet(emitted'[l]) : x.node = l[1] /\ x.n <= raised'[l[1]]
    BY <1>2, <1>4, <1>6, <2>1, <2>2
  <2> QED
    BY <1>6, <2>3 DEF EmittedBy, ToSet
<1>10. ASSUME NEW l \in Links PROVE Accounted(l)'
  <2> SUFFICES ASSUME NEW k \in 1 .. raised[l[1]]
               PROVE  \/ \E x \in ToSet(emitted'[l]) : x.n = k
                      \/ \E i \in DOMAIN mainq'[l[1]] : /\ mainq'[l[1]][i].event.n = k
                                                        /\ mainq'[l[1]][i].event.node = l[1]
    BY <1>2 DEF Accounted, ToSet
  <2>1. l[1] \in Nodes /\ ToSet(emitted[l]) \subseteq ToSet(emitted'[l])
    BY <1>0, <1>6, LinkTypes
  <2>2. CASE \E x \in ToSet(emitted[l]) : x.n = k
    BY <2>1, <2>2
  <2>3. CASE ~ \E x \in ToSet(emitted[l]) : x.n = k
    <3>1. PICK i \in DOMAIN mainq[l[1]] : /\ mainq[l[1]][i].event.n = k
                                          /\ mainq[l[1]][i].event.node = l[1]
      BY <1>0, <2>3 DEF Accounted, ToSet
    <3>2. CASE l[1] # n
      BY <1>5, <2>1, <3>1, <3>2
    <3>3. CASE l[1] = n /\ i # 1
      <4>1. i - 1 \in 1 .. Len(s) - 1 /\ (i - 1) + 1 = i
        BY <1>1, <3>1, <3>3 DEF s
      <4>2. i - 1 \in DOMAIN t /\ t[i - 1] = s[i]
        BY <1>1, <4>1
      <4> QED
        BY <1>5, <3>1, <3>3, <4>2 DEF s
    <3>4. CASE l[1] = n /\ i = 1
      <4>1. e.n = k /\ e.node = n
        BY <3>1, <3>4 DEF s, q
      <4>2. l \in From(n)
        BY <3>4, FromIs
      <4>3. e \in ToSet(emitted'[l])
        <5>1. ToSet(emitted'[l]) = IF l[1] = n /\ ~q.sent THEN ToSet(emitted[l]) \cup {e} ELSE ToSet(emitted[l])
          BY <1>6
        <5>2. q.sent => e \in ToSet(emitted[l])
          BY <1>1, <1>3, <4>1, <4>2 DEF q
        <5> QED
          BY <3>4, <5>1, <5>2
      <4> QED
        BY <4>1, <4>3
    <3> QED
      BY <3>2, <3>3, <3>4
  <2> QED
    BY <2>2, <2>3
<1>11. ASSUME NEW m \in Nodes PROVE QueueOf(m)'
  <2>1. CASE m # n
    <3>1. mainq'[m] = mainq[m] /\ raised'[m] = raised[m]
      BY <1>2, <1>5, <2>1
    <3>2. \A l \in From(m) : ToSet(emitted'[l]) = ToSet(emitted[l])
      BY <1>6, <2>1 DEF From
    <3> QED
      BY <1>0, <3>1, <3>2 DEF QueueOf
  <2>2. CASE m = n
    <3>1. ASSUME NEW i \in DOMAIN t, t[i].event.node = n, NEW l \in From(n)
          PROVE  t[i].sent <=> t[i].event \in ToSet(emitted'[l])
      <4>1. ToSet(emitted'[l]) = IF ~q.sent THEN ToSet(emitted[l]) \cup {e} ELSE ToSet(emitted[l])
        BY <1>6 DEF From
      <4>2. t[i] = s[i + 1] /\ i + 1 \in DOMAIN s /\ 1 < i + 1
        BY <1>1
      <4>3. s[i + 1].sent <=> s[i + 1].event \in ToSet(emitted[l])
        BY <1>3, <3>1, <4>2
      <4>4. (~q.sent /\ ~s[i + 1].sent) => s[i + 1].event # e
        BY <1>1, <1>3, <4>2 DEF q
      <4>5. s[i + 1].sent \in BOOLEAN
        BY <1>3, <4>2
      <4> QED
        BY <4>1, <4>2, <4>3, <4>4, <4>5
    <3>2. \A i \in DOMAIN t : /\ t[i].event.node = n => t[i].event.n <= raised[n]
                              /\ ~t[i].sent => t[i].event.node = n
      BY ZenonT(60), <1>1, <1>3
    <3>3. ASSUME NEW i \in DOMAIN t, NEW j \in DOMAIN t, i < j, ~t[i].sent, ~t[j].sent
          PROVE  t[i].event # t[j].event
      <4>1. t[i] = s[i + 1] /\ t[j] = s[j + 1] /\ i + 1 \in DOMAIN s /\ j + 1 \in DOMAIN s /\ i + 1 < j + 1
        BY <1>1, <3>3
      <4> QED
        BY <1>3, <3>3, <4>1
    <3> QED
      BY <1>2, <1>5, <2>2, <3>1, <3>2, <3>3 DEF QueueOf
  <2> QED
    BY <2>1, <2>2
<1> QED
  BY <1>7, <1>8, <1>9, <1>10, <1>11, QueueInvParts DEF QueueInv, UnsentAreNew, ForwardedOnce, QueueOf, EmittedBy, Accounted, NoRepetition

-----------------------------------------------------------------------------
(* What the steps of the sender and consumer threads have in common.       *)

LEMMA UnchangedQueues ==
  ASSUME QueueInv, UNCHANGED <<raised, mainq, emitted>>, TypeOK'
  PROVE  QueueInv'
BY DEF QueueInv, UnsentAreNew, ForwardedOnce

\* A change at one place of the sequences of one link.
LEMMA OneChanges ==
  ASSUME NEW S, NEW f \in [Links -> Seq(S)], NEW l \in Links, NEW c \in DOMAIN f[l],
         NEW v \in S, NEW g, g = [f EXCEPT ![l] = [f[l] EXCEPT ![c] = v]]
  PROVE  /\ g \in [Links -> Seq(S)]
         /\ \A m \in Links : DOMAIN g[m] = DOMAIN f[m] /\ Len(g[m]) = Len(f[m])
         /\ g[l][c] = v
         /\ \A m \in Links : \A d \in DOMAIN f[m] : (m # l \/ d # c) => g[m][d] = f[m][d]
<1> DEFINE t == [f[l] EXCEPT ![c] = v]
<1>1. f[l] \in Seq(S)
  OBVIOUS
<1>2. t \in Seq(S) /\ Len(t) = Len(f[l]) /\ DOMAIN t = DOMAIN f[l]
  BY <1>1, ExceptSeq
<1>3. t[c] = v /\ \A d \in DOMAIN f[l] : d # c => t[d] = f[l][d]
  OBVIOUS
<1> HIDE DEF t
<1>4. g = [f EXCEPT ![l] = t]
  BY DEF t
<1>5. g \in [Links -> Seq(S)] /\ g[l] = t /\ \A m \in Links \ {l} : g[m] = f[m]
  BY <1>2, <1>4
<1> QED
  BY <1>2, <1>3, <1>5

LEMMA ConnTypes ==
  ASSUME TypeOK, NEW l \in Links, NEW c \in DOMAIN conns[l]
  PROVE  /\ conns[l][c] \in Conn /\ conns[l][c].bytes \in Seq(Tokens)
         /\ reader[l][c] \in Thread /\ c \in DOMAIN reader[l]
<1>1. conns[l] \in Seq(Conn) /\ reader[l] \in Seq(Thread) /\ Len(reader[l]) = Len(conns[l])
  BY DEF TypeOK, Conn, Thread
<1>2. conns[l][c] \in Conn /\ c \in DOMAIN reader[l]
  BY <1>1
<1>3. reader[l][c] \in Thread
  BY <1>1, <1>2
<1> QED
  BY <1>2, <1>3 DEF Conn

LEMMA SenderTypes ==
  ASSUME TypeOK, NEW l \in Links
  PROVE  /\ sender[l] \in SenderState /\ sender[l].ev \in Seq(Events)
         /\ sender[l].conn \in 0 .. Len(conns[l]) /\ Len(conns[l]) \in Nat
         /\ DOMAIN conns[l] = 1 .. Len(conns[l]) /\ DOMAIN reader[l] = 1 .. Len(conns[l])
         /\ conns[l] \in Seq(Conn) /\ reader[l] \in Seq(Thread)
<1>1. conns[l] \in Seq(Conn) /\ reader[l] \in Seq(Thread) /\ Len(reader[l]) = Len(conns[l])
  BY DEF TypeOK, Conn, Thread
<1>2. sender[l] \in SenderState /\ sender[l].conn <= Len(conns[l])
  BY DEF TypeOK, SenderState
<1> QED
  BY <1>1, <1>2 DEF SenderState

\* No stream got a last token: streams were cut in front or got others.
NoNewEnds ==
  \A l \in Links : \A c \in DOMAIN conns'[l] :
    \E k \in Nat : \A i \in Ends(conns'[l][c].bytes) :
      /\ c \in DOMAIN conns[l] /\ i + k \in Ends(conns[l][c].bytes)
      /\ conns'[l][c].bytes[i].ev = conns[l][c].bytes[i + k].ev

LEMMA NoNewEndsKeep ==
  ASSUME NoNewEnds, TypeOK', UNCHANGED emitted, WrittenOnce,
         \A l \in Links : Sent(l) \in Int /\ Sent(l)' = Sent(l)
  PROVE  /\ WrittenOnce'
         /\ \A h : h.link \in Links /\ Gone(h) => Gone(h)'
<1>1. \A l \in Links : \A c \in DOMAIN conns'[l] : \A i \in Ends(conns'[l][c].bytes) : i \in Nat
  <2> SUFFICES ASSUME NEW l \in Links, NEW c \in DOMAIN conns'[l]
               PROVE  \A i \in Ends(conns'[l][c].bytes) : i \in Nat
    OBVIOUS
  <2>1. conns'[l] \in Seq(Conn)
    BY DEF TypeOK, Conn
  <2>2. conns'[l][c] \in Conn
    BY <2>1
  <2>3. conns'[l][c].bytes \in Seq(Tokens)
    BY <2>2 DEF Conn
  <2> QED
    BY <2>3 DEF Ends
<1>2. WrittenOnce'
  <2> SUFFICES ASSUME NEW l \in Links, NEW c \in DOMAIN conns'[l], NEW i \in Ends(conns'[l][c].bytes),
                      NEW d \in DOMAIN conns'[l], NEW j \in Ends(conns'[l][d].bytes)
               PROVE  LET p == conns'[l][c].bytes[i].ev
                          q == conns'[l][d].bytes[j].ev
                      IN  /\ PlaceIn(emitted[l], p) <= Sent(l)
                          /\ c # d => p # q
                          /\ (c = d /\ i < j) => PlaceIn(emitted[l], p) < PlaceIn(emitted[l], q)
    BY DEF WrittenOnce, Position
  <2>1. PICK k \in Nat : \A ii \in Ends(conns'[l][c].bytes) :
            /\ c \in DOMAIN conns[l] /\ ii + k \in Ends(conns[l][c].bytes)
            /\ conns'[l][c].bytes[ii].ev = conns[l][c].bytes[ii + k].ev
    BY DEF NoNewEnds
  <2>2. CASE c = d
    <3>1. i < j => i + k < j + k
      BY <1>1, <2>2
    <3> QED
      BY <2>1, <2>2, <3>1 DEF WrittenOnce, Position
  <2>3. CASE c # d
    <3>1. PICK m \in Nat : \A ii \in Ends(conns'[l][d].bytes) :
              /\ d \in DOMAIN conns[l] /\ ii + m \in Ends(conns[l][d].bytes)
              /\ conns'[l][d].bytes[ii].ev = conns[l][d].bytes[ii + m].ev
      BY DEF NoNewEnds
    <3> QED
      BY <2>1, <2>3, <3>1 DEF WrittenOnce, Position
  <2> QED
    BY <2>2, <2>3
<1>3. ASSUME NEW h, h.link \in Links, Gone(h) PROVE Gone(h)'
  <2> SUFFICES ASSUME NEW c \in DOMAIN conns'[h.link], NEW i \in Ends(conns'[h.link][c].bytes)
               PROVE  LET f == conns'[h.link][c].bytes[i].ev IN
                      /\ h.event # f
                      /\ c = h.conn => PlaceIn(emitted[h.link], h.event) < PlaceIn(emitted[h.link], f)
    BY <1>3 DEF Gone, Position
  <2>1. PICK k \in Nat : /\ c \in DOMAIN conns[h.link] /\ i + k \in Ends(conns[h.link][c].bytes)
                         /\ conns'[h.link][c].bytes[i].ev = conns[h.link][c].bytes[i + k].ev
    BY <1>3 DEF NoNewEnds
  <2> QED
    BY <1>3, <2>1 DEF Gone, Position
<1> QED
  BY <1>2, <1>3

LEMMA NoNewEndsKeepAll ==
  ASSUME NoNewEnds, TypeOK, TypeOK', UNCHANGED <<emitted, handed>>, OnlyEmittedArrive,
         WrittenOnce, ReadIsGone,
         \A l \in Links : Sent(l) \in Int /\ Sent(l)' = Sent(l)
  PROVE  WrittenOnce' /\ ReadIsGone'
<1>1. WrittenOnce' /\ \A h : h.link \in Links /\ Gone(h) => Gone(h)'
  BY NoNewEndsKeep
<1>2. ReadIsGone'
  BY <1>1, GoneStays
<1> QED
  BY <1>1, <1>2

LEMMA SentIsInt ==
  ASSUME TypeOK, NEW l \in Links
  PROVE  Popped(l) \in Int /\ Sent(l) \in Int
BY DEF TypeOK, Popped, Sent

-----------------------------------------------------------------------------
(* The sender threads.                                                     *)

LEMMA PopKeeps ==
  ASSUME MaxEvents \in [Nodes -> Nat], QueueInv, LinkInv, NEW l \in Links, Pop(l)
  PROVE  QueueInv' /\ LinkInv'
<1> DEFINE s == emitted[l]
           q == outq[l]
           p == Popped(l)
<1>0. TypeOK /\ LinkInv
  BY DEF QueueInv
<1>1. /\ s \in Seq(Events) /\ q \in Seq(Events) /\ q # <<>>
      /\ p \in Nat /\ p = Len(s) - Len(q) /\ \A i \in DOMAIN q : q[i] = s[p + i]
      /\ sender[l].at = "pop"
  BY <1>0 DEF LinkInv, SendersHoldTheNext, TypeOK, Popped, Pop
<1>2. UNCHANGED <<raised, mainq, emitted, conns, reader, handed>>
  BY DEF Pop
<1>3. /\ outq' \in [Links -> Seq(Events)] /\ outq'[l] = Tail(q)
      /\ \A m \in Links \ {l} : outq'[m] = outq[m]
  BY <1>0, <1>1 DEF Pop, TypeOK
<1>4. /\ sender' \in [Links -> SenderState]
      /\ sender'[l].ev = <<Head(q)>> /\ sender'[l].conn = sender[l].conn
      /\ sender'[l].at = IF sender[l].conn = 0 THEN "connect" ELSE "write"
      /\ \A m \in Links \ {l} : sender'[m] = sender[m]
  <2>1. sender \in [Links -> SenderState]
    BY <1>0 DEF TypeOK, SenderState
  <2>2. <<Head(q)>> \in Seq(Events)
    BY <1>1
  <2>3. sender' = [sender EXCEPT ![l] = [sender[l] EXCEPT
                     !.ev = <<Head(q)>>, !.at = IF sender[l].conn = 0 THEN "connect" ELSE "write"]]
    BY DEF Pop
  <2>4. sender[l] \in SenderState
    BY <2>1
  <2> DEFINE v == [sender[l] EXCEPT
                     !.ev = <<Head(q)>>, !.at = IF sender[l].conn = 0 THEN "connect" ELSE "write"]
  <2>5. /\ v \in SenderState /\ v.ev = <<Head(q)>> /\ v.conn = sender[l].conn
        /\ v.at = IF sender[l].conn = 0 THEN "connect" ELSE "write"
    BY <2>2, <2>4 DEF SenderState
  <2> HIDE DEF v
  <2>6. sender' = [sender EXCEPT ![l] = v]
    BY <2>3 DEF v
  <2> QED
    BY <2>1, <2>5, <2>6
<1>5. /\ Len(Tail(q)) = Len(q) - 1 /\ Head(q) = s[p + 1] /\ p + 1 \in 1 .. Len(s)
      /\ \A i \in DOMAIN Tail(q) : Tail(q)[i] = s[(p + 1) + i]
  <2> HIDE DEF s, q, p
  <2>1. Len(q) \in Nat /\ Len(q) >= 1 /\ Len(s) \in Nat /\ DOMAIN q = 1 .. Len(q)
    BY <1>1
  <2>2. /\ Tail(q) \in Seq(Events) /\ Len(Tail(q)) = Len(q) - 1 /\ Head(q) = q[1]
        /\ DOMAIN Tail(q) = 1 .. Len(q) - 1
        /\ \A i \in 1 .. Len(q) - 1 : Tail(q)[i] = q[i + 1]
    BY <1>1
  <2>3. \A i \in 1 .. Len(q) - 1 : i + 1 \in DOMAIN q /\ p + (i + 1) = (p + 1) + i
    BY <1>1, <2>1
  <2>4. 1 \in DOMAIN q /\ p + 1 \in 1 .. Len(s)
    BY <1>1, <2>1
  <2> QED
    BY <1>1, <2>2, <2>3, <2>4
<1>6. (Popped(l))' = p + 1 /\ \A m \in Links \ {l} : Popped(m)' = Popped(m)
  <2>1. /\ (Popped(l))' = Len(s) - Len(Tail(q))
        /\ \A m \in Links \ {l} : Popped(m)' = Popped(m)
    BY <1>2, <1>3 DEF Popped
  <2> HIDE DEF s, q, p
  <2>2. Len(s) \in Nat /\ Len(q) \in Nat
    BY <1>1
  <2> QED
    BY <1>1, <1>5, <2>1, <2>2
<1>7. TypeOK'
  BY <1>0, <1>2, <1>3, <1>4 DEF TypeOK, SenderState
<1>8. SendersHoldTheNext'
  <2> SUFFICES ASSUME NEW m \in Links
               PROVE  /\ Popped(m)' >= 0
                      /\ \A i \in DOMAIN outq'[m] : outq'[m][i] = emitted[m][Popped(m)' + i]
                      /\ sender'[m].at # "pop" =>
                           Popped(m)' >= 1 /\ sender'[m].ev = <<emitted[m][Popped(m)']>>
                      /\ sender'[m].at \in {"write", "body"} => sender'[m].conn # 0
                      /\ sender'[m].at = "body" => sender'[m].ev[1].n \notin Flat
    BY <1>2 DEF SendersHoldTheNext
  <2>1. CASE m = l
    <3>1. Popped(m)' = p + 1 /\ p + 1 >= 1
      BY <1>1, <1>6, <2>1
    <3>2. sender'[m].at # "body" /\ (sender'[m].at = "write" => sender'[m].conn # 0)
      BY <1>4, <2>1
    <3>3. sender'[m].ev = <<emitted[m][p + 1]>>
      BY <1>4, <1>5, <2>1
    <3>4. \A i \in DOMAIN outq'[m] : outq'[m][i] = emitted[m][(p + 1) + i]
      BY <1>3, <1>5, <2>1
    <3> HIDE DEF p
    <3>5. Popped(m)' >= 0 /\ Popped(m)' >= 1
      BY <1>1, <3>1
    <3>6. /\ \A i \in DOMAIN outq'[m] : outq'[m][i] = emitted[m][Popped(m)' + i]
          /\ sender'[m].ev = <<emitted[m][Popped(m)']>>
      BY <3>1, <3>3, <3>4
    <3> QED
      BY <3>2, <3>5, <3>6
  <2>2. CASE m # l
    BY <1>0, <1>3, <1>4, <1>6, <2>2 DEF LinkInv, SendersHoldTheNext
  <2> QED
    BY <2>1, <2>2
<1>9. StreamsAreFramed' /\ OnlyEmittedArrive'
  <2>1. \A m \in Links : /\ sender'[m].conn = sender[m].conn
                         /\ sender'[m].at = "body" <=> sender[m].at = "body"
                         /\ sender'[m].at = "body" => sender'[m] = sender[m]
    BY <1>1, <1>4
  <2>2. ASSUME NEW m \in Links, NEW b, NEW r, EndsWhere(b, r, sender[m])
        PROVE  EndsWhere(b, r, sender'[m])
    BY <2>1, <2>2 DEF EndsWhere
  <2> QED
    BY <1>0, <1>2, <2>1, <2>2 DEF LinkInv, StreamsAreFramed, InStep, OnlyEmittedArrive
<1>10. \A m \in Links : Sent(m) \in Int /\ Sent(m)' = Sent(m)
  <2>1. \A m \in Links \ {l} : Sent(m)' = Sent(m)
    BY <1>4, <1>6 DEF Sent
  <2>2. Sent(l) = p /\ (Sent(l))' = (p + 1) - 1
    BY <1>1, <1>4, <1>6 DEF Sent
  <2>3. (p + 1) - 1 = p
    BY <1>1
  <2> QED
    BY <1>0, <2>1, <2>2, <2>3, SentIsInt
<1>11. NoNewEnds
  <2>1. \A m \in Links : \A c \in DOMAIN conns[m] : \A i \in Ends(conns[m][c].bytes) : i + 0 = i
    BY <1>0, ConnTypes DEF Ends
  <2> QED
    BY <1>2, <2>1 DEF NoNewEnds
<1>12. WrittenOnce' /\ ReadIsGone'
  BY <1>0, <1>2, <1>7, <1>10, <1>11, NoNewEndsKeepAll DEF LinkInv
<1>13. ReadOnce'
  BY <1>0, <1>2 DEF LinkInv, ReadOnce, Position
<1> QED
  BY <1>2, <1>7, <1>8, <1>9, <1>12, <1>13, UnchangedQueues DEF LinkInv

\* The threads' own state: what a step of a sender leaves to prove when it
\* neither takes nor finishes an event.
LEMMA SenderGoesOn ==
  ASSUME TypeOK, SendersHoldTheNext, UNCHANGED <<outq, emitted>>, NEW l \in Links,
         \A m \in Links \ {l} : sender'[m] = sender[m],
         sender[l].at # "pop", sender'[l].at # "pop", sender'[l].ev = sender[l].ev,
         sender'[l].at \in {"write", "body"} => sender'[l].conn # 0,
         sender'[l].at = "body" => sender[l].ev[1].n \notin Flat
  PROVE  /\ SendersHoldTheNext'
         /\ \A m \in Links : Sent(m) \in Int /\ Sent(m)' = Sent(m)
<1>1. \A m \in Links : Popped(m)' = Popped(m) /\ Popped(m) \in Int
  BY SentIsInt DEF Popped
<1>2. SendersHoldTheNext'
  <2> SUFFICES ASSUME NEW m \in Links
               PROVE  /\ Popped(m) >= 0
                      /\ \A i \in DOMAIN outq[m] : outq[m][i] = emitted[m][Popped(m) + i]
                      /\ sender'[m].at # "pop" =>
                           Popped(m) >= 1 /\ sender'[m].ev = <<emitted[m][Popped(m)]>>
                      /\ sender'[m].at \in {"write", "body"} => sender'[m].conn # 0
                      /\ sender'[m].at = "body" => sender'[m].ev[1].n \notin Flat
    BY <1>1 DEF SendersHoldTheNext
  <2>1. CASE m = l
    BY <2>1 DEF SendersHoldTheNext
  <2>2. CASE m # l
    BY <2>2 DEF SendersHoldTheNext
  <2> QED
    BY <2>1, <2>2
<1>3. \A m \in Links : Sent(m) \in Int /\ Sent(m)' = Sent(m)
  BY <1>1, SentIsInt DEF Sent
<1> QED
  BY <1>2, <1>3

LEMMA ConnectKeeps ==
  ASSUME MaxEvents \in [Nodes -> Nat], QueueInv, LinkInv, NEW l \in Links, Connect(l)
  PROVE  QueueInv' /\ LinkInv'
<1> DEFINE k == [bytes |-> <<>>, end |-> "open"]
           r == [at |-> "header", ev |-> <<>>]
           n == Len(conns[l]) + 1
<1>0. TypeOK /\ LinkInv
  BY DEF QueueInv
<1>1. /\ UNCHANGED <<raised, mainq, outq, emitted, handed>> /\ sender[l].at = "connect"
      /\ conns' = [conns EXCEPT ![l] = Append(conns[l], k)]
      /\ reader' = [reader EXCEPT ![l] = Append(reader[l], r)]
  BY DEF Connect
<1>2. k \in Conn /\ r \in Thread
  BY DEF Conn, Thread
<1>3. k.bytes = <<>> /\ k.end = "open" /\ r.at = "header"
  OBVIOUS
<1>4. conns[l] \in Seq(Conn) /\ reader[l] \in Seq(Thread) /\ Len(reader[l]) = Len(conns[l])
  BY <1>0 DEF TypeOK, Conn, Thread
<1> HIDE DEF k, r
<1>5. /\ conns' \in [Links -> Seq(Conn)] /\ reader' \in [Links -> Seq(Thread)]
      /\ \A m \in Links \ {l} : conns'[m] = conns[m] /\ reader'[m] = reader[m]
      /\ conns'[l] = Append(conns[l], k) /\ reader'[l] = Append(reader[l], r)
  <2>1. conns \in [Links -> Seq(Conn)] /\ reader \in [Links -> Seq(Thread)]
    BY <1>0 DEF TypeOK, Conn, Thread
  <2>2. Append(conns[l], k) \in Seq(Conn) /\ Append(reader[l], r) \in Seq(Thread)
    BY <1>2, <1>4
  <2> QED
    BY <1>1, <2>1, <2>2
<1>6. /\ Len(conns'[l]) = n /\ Len(reader'[l]) = n /\ DOMAIN conns'[l] = 1 .. n
      /\ n \in Nat /\ n # 0 /\ DOMAIN conns[l] = 1 .. n - 1
      /\ \A c \in 1 .. n - 1 : conns'[l][c] = conns[l][c] /\ reader'[l][c] = reader[l][c]
      /\ conns'[l][n] = k /\ reader'[l][n] = r
  BY <1>2, <1>4, <1>5
<1>7. /\ sender' \in [Links -> SenderState]
      /\ sender'[l].ev = sender[l].ev /\ sender'[l].conn = n /\ sender'[l].at = "write"
      /\ \A m \in Links \ {l} : sender'[m] = sender[m]
  <2>1. sender \in [Links -> SenderState] /\ sender[l] \in SenderState
    BY <1>0 DEF TypeOK, SenderState
  <2> DEFINE v == [sender[l] EXCEPT !.conn = n, !.at = "write"]
  <2>2. v \in SenderState /\ v.ev = sender[l].ev /\ v.conn = n /\ v.at = "write"
    BY <1>6, <2>1 DEF SenderState
  <2>3. sender' = [sender EXCEPT ![l] = v]
    BY DEF Connect
  <2> HIDE DEF v
  <2> QED
    BY <2>1, <2>2, <2>3
<1>8. TypeOK'
  <2>1. \A m \in Links : sender'[m].conn <= Len(conns'[m]) /\ Len(reader'[m]) = Len(conns'[m])
    <3> HIDE DEF n
    <3>1. sender'[l].conn <= Len(conns'[l]) /\ Len(reader'[l]) = Len(conns'[l])
      BY <1>6, <1>7
    <3>2. \A m \in Links \ {l} : sender[m].conn <= Len(conns[m]) /\ Len(reader[m]) = Len(conns[m])
      BY <1>0 DEF TypeOK
    <3> QED
      BY <1>5, <1>7, <3>1, <3>2
  <2> QED
    BY <1>0, <1>1, <1>5, <1>7, <2>1 DEF TypeOK, SenderState, Conn, Thread
<1>9. SendersHoldTheNext' /\ \A m \in Links : Sent(m) \in Int /\ Sent(m)' = Sent(m)
  BY <1>0, <1>1, <1>6, <1>7, SenderGoesOn DEF LinkInv
<1>10. \A m \in Links : \A c \in DOMAIN conns'[m] :
         \/ m = l /\ c = n
         \/ /\ c \in DOMAIN conns[m] /\ conns'[m][c] = conns[m][c] /\ reader'[m][c] = reader[m][c]
            /\ m # l \/ c # n
  <2> HIDE DEF n
  <2>1. \A c \in DOMAIN conns'[l] : c = n \/ c \in 1 .. n - 1
    BY <1>6
  <2>2. \A c \in 1 .. n - 1 : c # n
    BY <1>6
  <2> QED
    BY <1>5, <1>6, <2>1, <2>2
<1>11. StreamsAreFramed'
  <2> SUFFICES ASSUME NEW m \in Links, NEW c \in DOMAIN conns'[m]
               PROVE  InStep(conns'[m][c], reader'[m][c], sender'[m], c)
    BY DEF StreamsAreFramed
  <2>1. CASE m = l /\ c = n
    <3>1. /\ conns'[m][c].bytes = <<>> /\ conns'[m][c].end = "open"
          /\ reader'[m][c].at = "header" /\ sender'[m].at = "write"
      BY <1>3, <1>6, <1>7, <2>1
    <3>2. Framed(<<>>, reader'[m][c])
      BY DEF Framed
    <3>3. EndsWhere(<<>>, reader'[m][c], sender'[m])
      BY <3>1 DEF EndsWhere, PartAt
    <3> QED
      BY <3>1, <3>2, <3>3 DEF InStep
  <2>2. CASE m # l \/ c # n
    <3>1. InStep(conns[m][c], reader[m][c], sender[m], c)
      BY <1>0, <1>10, <2>2 DEF LinkInv, StreamsAreFramed
    <3> QED
      BY <1>7, <1>10, <2>2, <3>1 DEF InStep
  <2> QED
    BY <2>1, <2>2
<1>12. OnlyEmittedArrive'
  BY <1>0, <1>1, <1>3, <1>6, <1>10 DEF LinkInv, OnlyEmittedArrive
<1>13. NoNewEnds
  <2> SUFFICES ASSUME NEW m \in Links, NEW c \in DOMAIN conns'[m],
                      NEW i \in Ends(conns'[m][c].bytes)
               PROVE  /\ c \in DOMAIN conns[m] /\ i + 0 \in Ends(conns[m][c].bytes)
                      /\ conns'[m][c].bytes[i].ev = conns[m][c].bytes[i + 0].ev
    BY DEF NoNewEnds
  <2>1. ~(m = l /\ c = n)
    BY <1>3, <1>6 DEF Ends
  <2>2. c \in DOMAIN conns[m] /\ conns'[m][c] = conns[m][c]
    BY <1>10, <2>1
  <2>3. i + 0 = i
    BY <1>0, <2>2, ConnTypes DEF Ends
  <2> QED
    BY <2>2, <2>3
<1>14. WrittenOnce' /\ ReadIsGone'
  BY <1>0, <1>1, <1>8, <1>9, <1>13, NoNewEndsKeepAll DEF LinkInv
<1>15. ReadOnce'
  BY <1>0, <1>1 DEF LinkInv, ReadOnce, Position
<1> QED
  BY <1>1, <1>8, <1>9, <1>11, <1>12, <1>14, <1>15, UnchangedQueues DEF LinkInv

LEMMA PlaceBehindSuffix ==
  ASSUME NEW S, NEW s \in Seq(S), NEW q \in Seq(S), NEW p, p = Len(s) - Len(q), p >= 1
  PROVE  p \in DOMAIN s
OBVIOUS

\* What is written next: the next tokens of the event that the sender holds.
LEMMA BlockIs ==
  ASSUME TypeOK, SendersHoldTheNext, NEW l \in Links, sender[l].at \in {"write", "body"}
  PROVE  LET w == Block(l)  e == sender[l].ev[1] IN
         /\ e \in Events /\ e = emitted[l][Popped(l)] /\ Popped(l) \in DOMAIN emitted[l]
         /\ w \in Seq(Tokens) /\ Len(w) \in 1 .. 3 /\ Done(l) + Len(w) \in {2, 3}
         /\ \A i \in DOMAIN w : w[i].ev = e /\ w[i].part = Done(l) + i
         /\ Last(w).part = Done(l) + Len(w)
         /\ Done(l) + Len(w) = 2 => e.n \notin Flat
<1> DEFINE e == sender[l].ev[1]
           size == IF Done(l) = 2 THEN 1 ELSE IF e.n \in Flat THEN 3 ELSE 2
<1>1. Popped(l) >= 1 /\ sender[l].ev = <<emitted[l][Popped(l)]>>
  BY DEF SendersHoldTheNext
<1>2. Popped(l) \in DOMAIN emitted[l]
  <2>1. /\ emitted[l] \in Seq(Events) /\ outq[l] \in Seq(Events)
        /\ Popped(l) = Len(emitted[l]) - Len(outq[l])
    BY DEF TypeOK, Popped
  <2> QED
    BY <1>1, <2>1, PlaceBehindSuffix
<1>3. e \in Events /\ e = emitted[l][Popped(l)]
  BY <1>1, <1>2 DEF TypeOK
<1>4. /\ Done(l) \in {0, 2} /\ size \in 1 .. 3 /\ Done(l) + size \in {2, 3}
      /\ Done(l) + size = 2 => e.n \notin Flat
  BY DEF Done
<1>5. Block(l) = [i \in 1 .. size |-> [ev |-> e, part |-> Done(l) + i]]
  BY DEF Block
<1> HIDE DEF e, size
<1>6. \A i \in 1 .. size : Done(l) + i \in 1 .. 3
  BY <1>4
<1>7. \A i \in 1 .. size : /\ Block(l)[i] \in Tokens
                          /\ Block(l)[i].ev = e /\ Block(l)[i].part = Done(l) + i
  BY <1>3, <1>5, <1>6 DEF Tokens
<1>8. Block(l) \in Seq(Tokens) /\ Len(Block(l)) = size /\ DOMAIN Block(l) = 1 .. size
  BY <1>4, <1>5, <1>7
<1> QED
  BY <1>2, <1>3, <1>4, <1>7, <1>8 DEF Last, e

LEMMA EndsOfLonger ==
  ASSUME NEW b \in Seq(Tokens), NEW w \in Seq(Tokens), NEW i \in Ends(b \o w)
  PROVE  \/ i \in Ends(b) /\ (b \o w)[i] = b[i]
         \/ \E j \in DOMAIN w : i = Len(b) + j /\ w[j].part = 3 /\ (b \o w)[i] = w[j]
<1> DEFINE z == b \o w
<1>1. /\ Len(b) \in Nat /\ Len(w) \in Nat /\ DOMAIN z = 1 .. Len(b) + Len(w)
      /\ DOMAIN b = 1 .. Len(b) /\ DOMAIN w = 1 .. Len(w)
      /\ \A k \in 1 .. Len(b) : z[k] = b[k]
      /\ \A k \in 1 .. Len(w) : z[Len(b) + k] = w[k]
  OBVIOUS
<1> HIDE DEF z
<1>2. i \in DOMAIN z /\ z[i].part = 3
  BY DEF Ends, z
<1>3. CASE i <= Len(b)
  BY <1>1, <1>2, <1>3 DEF Ends, z
<1>4. CASE i > Len(b)
  <2>1. i - Len(b) \in DOMAIN w /\ i = Len(b) + (i - Len(b))
    BY <1>1, <1>2, <1>4
  <2> QED
    BY <1>1, <1>2, <2>1 DEF z
<1> QED
  BY <1>1, <1>2, <1>3, <1>4

LEMMA BlockPart ==
  ASSUME TypeOK, SendersHoldTheNext, NEW l \in Links, sender[l].at \in {"write", "body"},
         NEW k \in 0 .. Len(Block(l))
  PROVE  LET w == SubSeq(Block(l), 1, k) IN
         /\ w \in Seq(Tokens) /\ Len(w) = k
         /\ \A i \in DOMAIN w : w[i].ev = sender[l].ev[1] /\ w[i].part = Done(l) + i
<1> DEFINE s == Block(l)
<1>1. /\ s \in Seq(Tokens) /\ k \in 0 .. Len(s)
      /\ \A i \in DOMAIN s : s[i].ev = sender[l].ev[1] /\ s[i].part = Done(l) + i
  BY BlockIs
<1> HIDE DEF s
<1>2. \A i \in 1 .. k : s[i] \in Tokens /\ i \in DOMAIN s
  BY <1>1
<1>3. k \in Int /\ k >= 0 /\ k - 1 + 1 = k
  BY <1>1
<1>4. /\ SubSeq(s, 1, k) \in Seq(Tokens) /\ Len(SubSeq(s, 1, k)) = IF 1 <= k THEN k - 1 + 1 ELSE 0
      /\ \A i \in 1 .. k - 1 + 1 : SubSeq(s, 1, k)[i] = s[1 + i - 1]
  BY <1>2, <1>3, SubSeqProperties
<1>5. Len(SubSeq(s, 1, k)) = k /\ \A i \in 1 .. k : SubSeq(s, 1, k)[i] = s[i]
  BY <1>3, <1>4
<1>6. DOMAIN SubSeq(s, 1, k) = 1 .. k
  BY <1>4, <1>5
<1> QED
  BY <1>1, <1>2, <1>4, <1>5, <1>6 DEF s

\* What both writes do to the streams: the connection got the next k tokens.
Wrote(l, k, end) ==
  LET c == sender[l].conn IN
  \E v \in Conn :
    /\ v.bytes = conns[l][c].bytes \o SubSeq(Block(l), 1, k) /\ v.end = end
    /\ conns' = [conns EXCEPT ![l] = [conns[l] EXCEPT ![c] = v]]

LEMMA WroteTokens ==
  ASSUME TypeOK, SendersHoldTheNext, NEW l \in Links, sender[l].at \in {"write", "body"},
         NEW k \in 0 .. Len(Block(l)), NEW end \in {"open", "closed", "reset"}, Wrote(l, k, end)
  PROVE  LET c == sender[l].conn
             w == SubSeq(Block(l), 1, k)
         IN  /\ c \in DOMAIN conns[l] /\ c # 0
             /\ conns' \in [Links -> Seq(Conn)]
             /\ \A m \in Links : DOMAIN conns'[m] = DOMAIN conns[m] /\ Len(conns'[m]) = Len(conns[m])
             /\ conns'[l][c].bytes = conns[l][c].bytes \o w /\ conns'[l][c].end = end
             /\ \A m \in Links : \A d \in DOMAIN conns[m] : (m # l \/ d # c) => conns'[m][d] = conns[m][d]
             /\ w \in Seq(Tokens) /\ Len(w) = k
             /\ \A i \in DOMAIN w : w[i].ev = sender[l].ev[1] /\ w[i].part = Done(l) + i
<1> DEFINE c == sender[l].conn
           w == SubSeq(Block(l), 1, k)
<1>1. c \in DOMAIN conns[l] /\ c # 0
  <2>1. sender[l].conn # 0
    BY DEF SendersHoldTheNext
  <2> QED
    BY <2>1, SenderTypes
<1>2. w \in Seq(Tokens) /\ Len(w) = k
  BY BlockPart
<1>3. PICK v \in Conn : /\ v.bytes = conns[l][c].bytes \o w /\ v.end = end
                        /\ conns' = [conns EXCEPT ![l] = [conns[l] EXCEPT ![c] = v]]
  BY DEF Wrote
<1>4. conns \in [Links -> Seq(Conn)]
  BY DEF TypeOK, Conn
<1> HIDE DEF w, c
<1>5. /\ conns' \in [Links -> Seq(Conn)]
      /\ \A m \in Links : DOMAIN conns'[m] = DOMAIN conns[m] /\ Len(conns'[m]) = Len(conns[m])
      /\ conns'[l][c] = v
      /\ \A m \in Links : \A d \in DOMAIN conns[m] : (m # l \/ d # c) => conns'[m][d] = conns[m][d]
  BY <1>1, <1>3, <1>4, OneChanges
<1>6. \A i \in DOMAIN w : w[i].ev = sender[l].ev[1] /\ w[i].part = Done(l) + i
  BY BlockPart DEF w
<1> QED
  BY <1>1, <1>2, <1>3, <1>5, <1>6 DEF c, w

\* The stream that was written to is still framed, and its tokens are of
\* events of the link.
LEMMA WroteFramed ==
  ASSUME TypeOK, LinkInv, NEW l \in Links, sender[l].at \in {"write", "body"},
         NEW k \in 0 .. Len(Block(l)), NEW end \in {"open", "closed", "reset"}, Wrote(l, k, end),
         UNCHANGED <<emitted, reader, handed>>,
         conns[l][sender[l].conn].end = "reset" => k = 0
  PROVE  LET c == sender[l].conn
             b == conns'[l][c].bytes
             r == reader[l][c]
         IN  /\ OnlyEmittedArrive'
             /\ conns[l][c].end = "reset" => b = <<>>
             /\ r.at \in {"header", "body"} =>
                  /\ Framed(b, r)
                  /\ (conns[l][c].end = "open" /\ k > 0) =>
                       PartAt(b, r, Len(b)) = Done(l) + k /\ EventAt(b, r, Len(b)) = sender[l].ev[1]
<1> DEFINE c == sender[l].conn
           b == conns[l][c].bytes
           w == SubSeq(Block(l), 1, k)
           r == reader[l][c]
           e == sender[l].ev[1]
<1>0. SendersHoldTheNext /\ StreamsAreFramed /\ OnlyEmittedArrive
  BY DEF LinkInv
<1>1. /\ c \in DOMAIN conns[l] /\ c # 0
      /\ \A m \in Links : DOMAIN conns'[m] = DOMAIN conns[m]
      /\ conns'[l][c].bytes = b \o w
      /\ \A m \in Links : \A d \in DOMAIN conns[m] : (m # l \/ d # c) => conns'[m][d] = conns[m][d]
      /\ w \in Seq(Tokens) /\ Len(w) = k
      /\ \A i \in DOMAIN w : w[i].ev = e /\ w[i].part = Done(l) + i
  BY <1>0, WroteTokens
<1>2. b \in Seq(Tokens) /\ r \in Thread /\ InStep(conns[l][c], r, sender[l], c)
  BY <1>0, <1>1, ConnTypes DEF StreamsAreFramed
<1>3. e \in ToSet(emitted[l]) /\ e \in Events
  BY <1>0, BlockIs DEF ToSet
<1>4. Done(l) \in {0, 2} /\ (Done(l) = 2 <=> sender[l].at = "body")
  BY DEF Done
<1>5. conns[l][c].end # "closed"
  BY <1>2 DEF InStep
<1>6. conns[l][c].end \in {"open", "reset"}
  BY <1>1, <1>5, ConnTypes DEF Conn
<1> HIDE DEF b, w, r, e, c
<1>7. k = 0 => b \o w = b
  <2>1. k = 0 => w = <<>>
    BY <1>1
  <2> QED
    BY <1>2, <2>1, ConcatEmptySeq
<1>8. ASSUME r.at \in {"header", "body"}
      PROVE  /\ Framed(b \o w, r)
             /\ (conns[l][c].end = "open" /\ k > 0) =>
                  PartAt(b \o w, r, Len(b \o w)) = Done(l) + k /\ EventAt(b \o w, r, Len(b \o w)) = e
  <2>1. CASE conns[l][c].end = "reset"
    <3>1. Framed(b, r)
      BY <1>2, <1>8 DEF InStep, b
    <3>2. k = 0
      BY <2>1 DEF c
    <3>3. ~(k > 0)
      BY <3>2
    <3> QED
      BY <1>7, <3>1, <3>2, <3>3
  <2>2. CASE conns[l][c].end = "open"
    <3>1. Framed(b, r) /\ EndsWhere(b, r, sender[l])
      BY <1>2, <1>8, <2>2 DEF InStep, b, c
    <3>2. /\ Done(l) = 0 => PartAt(b, r, Len(b)) = 3
          /\ Done(l) = 2 => PartAt(b, r, Len(b)) = 2 /\ EventAt(b, r, Len(b)) = e
      BY <1>4, <3>1 DEF EndsWhere, e
    <3>3. k > 0 => w # <<>>
      BY <1>1
    <3>4. /\ Framed(b \o w, r)
          /\ w # <<>> => /\ PartAt(b \o w, r, Len(b \o w)) = Done(l) + Len(w)
                         /\ EventAt(b \o w, r, Len(b \o w)) = e
      <4> DEFINE off == Done(l)
      <4>1. /\ off \in {0, 2}
            /\ off = 0 => PartAt(b, r, Len(b)) = 3
            /\ off = 2 => PartAt(b, r, Len(b)) = 2 /\ EventAt(b, r, Len(b)) = e
        BY <1>4, <3>2
      <4>2. \A i \in DOMAIN w : w[i].ev = e /\ w[i].part = off + i
        BY <1>1
      <4>3. b \in Seq(Tokens) /\ w \in Seq(Tokens) /\ r \in Thread /\ Framed(b, r)
        BY <1>1, <1>2, <3>1
      <4>4. e \in Events
        BY <1>3
      <4> HIDE DEF off
      <4>5. /\ Framed(b \o w, r)
            /\ w # <<>> => /\ PartAt(b \o w, r, Len(b \o w)) = off + Len(w)
                           /\ EventAt(b \o w, r, Len(b \o w)) = e
        BY ONLY <4>1, <4>2, <4>3, <4>4, WritingFrames
      <4> QED
        BY <4>5 DEF off
    <3> QED
      BY <1>1, <3>3, <3>4
  <2> QED
    BY <1>6, <2>1, <2>2
<1>9. conns[l][c].end = "reset" => b \o w = <<>>
  <2>1. conns[l][c].end = "reset" => b = <<>> /\ k = 0
    BY <1>2 DEF InStep, b, c
  <2> QED
    BY <1>7, <2>1
<1>10. OnlyEmittedArrive'
  <2>1. \A i \in DOMAIN (b \o w) : (b \o w)[i].ev \in ToSet(emitted[l])
    <3>1. \A i \in DOMAIN b : b[i].ev \in ToSet(emitted[l])
      BY <1>0, <1>1 DEF OnlyEmittedArrive, b
    <3>2. \A i \in DOMAIN w : w[i].ev \in ToSet(emitted[l])
      BY <1>1, <1>3
    <3> QED
      <4>1. b \in Seq(Tokens) /\ w \in Seq(Tokens)
        BY <1>1, <1>2
      <4>2. \A i \in DOMAIN (b \o w) :
              \/ i \in DOMAIN b /\ (b \o w)[i] = b[i]
              \/ i - Len(b) \in DOMAIN w /\ (b \o w)[i] = w[i - Len(b)]
        BY ONLY <4>1
      <4> QED
        BY <3>1, <3>2, <4>2
  <2> SUFFICES ASSUME NEW m \in Links, NEW d \in DOMAIN conns'[m]
               PROVE  \A i \in DOMAIN conns'[m][d].bytes : conns'[m][d].bytes[i].ev \in ToSet(emitted[m])
    BY <1>0, <1>1 DEF OnlyEmittedArrive
  <2>2. CASE m = l /\ d = c
    BY <1>1, <2>1, <2>2
  <2>3. CASE m # l \/ d # c
    BY <1>0, <1>1, <2>3 DEF OnlyEmittedArrive
  <2> QED
    BY <2>2, <2>3
<1> QED
  BY <1>1, <1>8, <1>9, <1>10 DEF r, e, c, b

\* A part of a block completes no event.
LEMMA PartHasNoEnd ==
  ASSUME TypeOK, SendersHoldTheNext, NEW l \in Links, sender[l].at \in {"write", "body"},
         NEW k \in 0 .. Len(Block(l)), NEW end \in {"open", "closed", "reset"}, Wrote(l, k, end),
         Done(l) + k # 3
  PROVE  NoNewEnds
<1> DEFINE c == sender[l].conn
           b == conns[l][c].bytes
           w == SubSeq(Block(l), 1, k)
<1>1. /\ c \in DOMAIN conns[l]
      /\ \A m \in Links : DOMAIN conns'[m] = DOMAIN conns[m]
      /\ conns'[l][c].bytes = b \o w
      /\ \A m \in Links : \A d \in DOMAIN conns[m] : (m # l \/ d # c) => conns'[m][d] = conns[m][d]
      /\ w \in Seq(Tokens) /\ Len(w) = k
      /\ \A i \in DOMAIN w : w[i].part = Done(l) + i
  BY WroteTokens
<1>2. b \in Seq(Tokens)
  BY <1>1, ConnTypes
<1>3. Len(Block(l)) \in 1 .. 3 /\ Done(l) \in {0, 2} /\ Done(l) + Len(Block(l)) \in {2, 3}
  BY BlockIs DEF Done
<1> HIDE DEF c, b, w
<1>4. \A i \in DOMAIN w : w[i].part # 3
  BY <1>1, <1>3
<1>5. \A i \in Ends(b \o w) : i \in Ends(b) /\ (b \o w)[i] = b[i]
  BY <1>1, <1>2, <1>4, EndsOfLonger
<1> SUFFICES ASSUME NEW m \in Links, NEW d \in DOMAIN conns'[m],
                    NEW i \in Ends(conns'[m][d].bytes)
             PROVE  /\ d \in DOMAIN conns[m] /\ i + 0 \in Ends(conns[m][d].bytes)
                    /\ conns'[m][d].bytes[i].ev = conns[m][d].bytes[i + 0].ev
  BY DEF NoNewEnds
<1>6. d \in DOMAIN conns[m] /\ i \in Ends(conns[m][d].bytes) /\ conns'[m][d].bytes[i] = conns[m][d].bytes[i]
  <2>1. CASE m = l /\ d = c
    BY <1>1, <1>5, <2>1 DEF b
  <2>2. CASE m # l \/ d # c
    BY <1>1, <2>2
  <2> QED
    BY <2>1, <2>2
<1>7. i + 0 = i
  BY <1>6, ConnTypes DEF Ends
<1> QED
  BY <1>6, <1>7

LEMMA WriteFailsKeeps ==
  ASSUME MaxEvents \in [Nodes -> Nat], QueueInv, LinkInv, NEW l \in Links, NEW k \in 0 .. 2,
         WriteFails(l, k)
  PROVE  QueueInv' /\ LinkInv'
<1> DEFINE c == sender[l].conn
           end == IF conns[l][c].end = "open" THEN "closed" ELSE conns[l][c].end
<1>0. TypeOK /\ LinkInv /\ SendersHoldTheNext /\ StreamsAreFramed
  BY DEF QueueInv, LinkInv
<1>1. /\ UNCHANGED <<raised, mainq, outq, emitted, reader, handed>>
      /\ sender[l].at \in {"write", "body"}
      /\ k < Len(Block(l)) /\ (conns[l][c].end = "reset" => k = 0)
  BY DEF WriteFails
<1>2. Len(Block(l)) \in 1 .. 3 /\ Done(l) \in {0, 2} /\ Done(l) + Len(Block(l)) \in {2, 3}
  BY <1>0, <1>1, BlockIs DEF Done
<1>3. k \in 0 .. Len(Block(l)) /\ Done(l) + k # 3
  BY <1>1, <1>2
<1>4. c \in DOMAIN conns[l] /\ c # 0 /\ conns[l][c] \in Conn
  <2>1. c # 0
    BY <1>0, <1>1 DEF SendersHoldTheNext
  <2>2. c \in DOMAIN conns[l]
    BY <1>0, <2>1, SenderTypes
  <2> QED
    BY <1>0, <2>1, <2>2, ConnTypes
<1>5. end \in {"closed", "reset"}
  BY <1>4 DEF Conn
<1>6. Wrote(l, k, end)
  <2> DEFINE w == conns[l][c].bytes \o SubSeq(Block(l), 1, k)
             v == [conns[l][c] EXCEPT !.bytes = w, !.end = end]
  <2>1. conns' = [conns EXCEPT ![l] = [conns[l] EXCEPT ![c] = v]]
    BY <1>0, <1>4 DEF WriteFails, TypeOK
  <2>2. w \in Seq(Tokens)
    <3>1. SubSeq(Block(l), 1, k) \in Seq(Tokens)
      BY <1>0, <1>1, <1>3, BlockPart
    <3>2. conns[l][c].bytes \in Seq(Tokens)
      BY <1>0, <1>4, ConnTypes
    <3> QED
      BY <3>1, <3>2
  <2> HIDE DEF w, end
  <2>3. v \in Conn /\ v.bytes = w /\ v.end = end
    BY <1>4, <1>5, <2>2 DEF Conn
  <2> QED
    BY <2>1, <2>3 DEF Wrote, w
<1> HIDE DEF end, c
<1>7. /\ conns' \in [Links -> Seq(Conn)]
      /\ \A m \in Links : DOMAIN conns'[m] = DOMAIN conns[m] /\ Len(conns'[m]) = Len(conns[m])
      /\ conns'[l][c].end = end
      /\ \A m \in Links : \A d \in DOMAIN conns[m] : (m # l \/ d # c) => conns'[m][d] = conns[m][d]
  BY <1>0, <1>1, <1>3, <1>5, <1>6, WroteTokens DEF c
<1>8. /\ OnlyEmittedArrive'
      /\ conns[l][c].end = "reset" => conns'[l][c].bytes = <<>>
      /\ reader[l][c].at \in {"header", "body"} => Framed(conns'[l][c].bytes, reader[l][c])
  BY <1>0, <1>1, <1>3, <1>5, <1>6, WroteFramed DEF c
<1>9. /\ sender' \in [Links -> SenderState]
      /\ sender'[l].ev = sender[l].ev /\ sender'[l].conn = 0 /\ sender'[l].at = "connect"
      /\ \A m \in Links \ {l} : sender'[m] = sender[m]
  <2>1. sender \in [Links -> SenderState] /\ sender[l] \in SenderState
    BY <1>0 DEF TypeOK, SenderState
  <2> DEFINE v == [sender[l] EXCEPT !.conn = 0, !.at = "connect"]
  <2>2. v \in SenderState /\ v.ev = sender[l].ev /\ v.conn = 0 /\ v.at = "connect"
    BY <2>1 DEF SenderState
  <2>3. sender' = [sender EXCEPT ![l] = v]
    BY DEF WriteFails
  <2> HIDE DEF v
  <2> QED
    BY <2>1, <2>2, <2>3
<1>10. TypeOK'
  <2>1. \A m \in Links : sender'[m].conn <= Len(conns'[m]) /\ Len(reader'[m]) = Len(conns'[m])
    <3>1. \A m \in Links : /\ sender[m].conn <= Len(conns[m]) /\ Len(reader[m]) = Len(conns[m])
                           /\ 0 <= Len(conns[m])
      BY <1>0 DEF TypeOK
    <3> QED
      BY <1>1, <1>7, <1>9, <3>1
  <2> QED
    BY <1>0, <1>1, <1>7, <1>9, <2>1 DEF TypeOK, SenderState, Conn, Thread
<1>11. SendersHoldTheNext' /\ \A m \in Links : Sent(m) \in Int /\ Sent(m)' = Sent(m)
  BY <1>0, <1>1, <1>9, SenderGoesOn
<1>12. StreamsAreFramed'
  <2> SUFFICES ASSUME NEW m \in Links, NEW d \in DOMAIN conns[m]
               PROVE  InStep(conns'[m][d], reader[m][d], sender'[m], d)
    BY <1>1, <1>7 DEF StreamsAreFramed
  <2>0. d # 0
    BY <1>0, SenderTypes
  <2>1. CASE m = l /\ d = c
    <3>1. conns'[l][c].end = "reset" => conns[l][c].end = "reset"
      BY <1>7 DEF end
    <3> QED
      BY <1>5, <1>7, <1>8, <1>9, <2>0, <2>1, <3>1 DEF InStep
  <2>2. CASE m # l \/ d # c
    <3>1. InStep(conns[m][d], reader[m][d], sender[m], d)
      BY <1>0 DEF StreamsAreFramed
    <3> QED
      BY <1>7, <1>9, <2>0, <2>2, <3>1 DEF InStep
  <2> QED
    BY <2>1, <2>2
<1>13. NoNewEnds
  BY <1>0, <1>1, <1>3, <1>5, <1>6, PartHasNoEnd
<1>14. WrittenOnce' /\ ReadIsGone'
  BY <1>0, <1>1, <1>10, <1>11, <1>13, NoNewEndsKeepAll DEF LinkInv
<1>15. ReadOnce'
  BY <1>0, <1>1 DEF LinkInv, ReadOnce, Position
<1> QED
  BY <1>1, <1>8, <1>10, <1>11, <1>12, <1>14, <1>15, UnchangedQueues DEF LinkInv

LEMMA WriteWrites ==
  ASSUME TypeOK, LinkInv, NEW l \in Links, Write(l)
  PROVE  LET c == sender[l].conn  k == Len(Block(l)) IN
         /\ sender[l].at \in {"write", "body"} /\ conns[l][c].end = "open"
         /\ k \in 0 .. Len(Block(l)) /\ Wrote(l, k, "open")
         /\ sender' \in [Links -> SenderState]
         /\ sender'[l].ev = sender[l].ev /\ sender'[l].conn = c
         /\ sender'[l].at = IF Done(l) + k = 3 THEN "pop" ELSE "body"
         /\ \A m \in Links \ {l} : sender'[m] = sender[m]
<1> DEFINE c == sender[l].conn
           k == Len(Block(l))
           w == conns[l][c].bytes \o Block(l)
           v == [conns[l][c] EXCEPT !.bytes = w]
<1>0. SendersHoldTheNext
  BY DEF LinkInv
<1>1. sender[l].at \in {"write", "body"} /\ conns[l][c].end = "open"
  BY DEF Write
<1>2. /\ Block(l) \in Seq(Tokens) /\ k \in 1 .. 3
      /\ Last(Block(l)).part = Done(l) + k
  BY <1>0, <1>1, BlockIs
<1>3. c \in DOMAIN conns[l] /\ conns[l][c] \in Conn /\ conns[l][c].bytes \in Seq(Tokens)
  <2>1. c # 0
    BY <1>0, <1>1 DEF SendersHoldTheNext
  <2>2. c \in DOMAIN conns[l]
    BY <2>1, SenderTypes
  <2> QED
    BY <2>2, ConnTypes
<1>4. Wrote(l, k, "open")
  <2>1. conns' = [conns EXCEPT ![l] = [conns[l] EXCEPT ![c] = v]]
    BY <1>3 DEF Write, TypeOK
  <2>2. w \in Seq(Tokens)
    BY <1>2, <1>3
  <2>3. SubSeq(Block(l), 1, k) = Block(l)
    BY <1>2, SubSeqFull
  <2>4. w = conns[l][c].bytes \o SubSeq(Block(l), 1, k)
    BY <2>3
  <2> HIDE DEF w
  <2>5. v \in Conn /\ v.bytes = w /\ v.end = "open"
    BY <1>1, <1>3, <2>2 DEF Conn
  <2> QED
    BY <2>1, <2>4, <2>5 DEF Wrote
<1>5. /\ sender' \in [Links -> SenderState]
      /\ sender'[l].ev = sender[l].ev /\ sender'[l].conn = c
      /\ sender'[l].at = IF Done(l) + k = 3 THEN "pop" ELSE "body"
      /\ \A m \in Links \ {l} : sender'[m] = sender[m]
  <2> DEFINE at == IF Done(l) + k = 3 THEN "pop" ELSE "body"
             u == [sender[l] EXCEPT !.at = at]
  <2>1. sender \in [Links -> SenderState] /\ sender[l] \in SenderState
    BY DEF TypeOK, SenderState
  <2>2. u \in SenderState /\ u.ev = sender[l].ev /\ u.conn = c /\ u.at = at
    BY <2>1 DEF SenderState
  <2>3. sender' = [sender EXCEPT ![l] = u]
    BY <1>2 DEF Write
  <2> HIDE DEF u, at
  <2>4. sender' \in [Links -> SenderState] /\ sender'[l] = u /\ \A m \in Links \ {l} : sender'[m] = sender[m]
    BY <2>1, <2>2, <2>3
  <2> QED
    BY <2>2, <2>4 DEF at
<1>6. k \in 0 .. k
  BY <1>2
<1> QED
  BY <1>1, <1>4, <1>5, <1>6

LEMMA WriteKeepsStreams ==
  ASSUME TypeOK, LinkInv, NEW l \in Links, Write(l)
  PROVE  TypeOK' /\ StreamsAreFramed' /\ OnlyEmittedArrive'
<1> DEFINE c == sender[l].conn
           k == Len(Block(l))
<1>0. SendersHoldTheNext /\ StreamsAreFramed
  BY DEF LinkInv
<1>1. UNCHANGED <<raised, mainq, outq, emitted, reader, handed>>
  BY DEF Write
<1>2. /\ sender[l].at \in {"write", "body"} /\ conns[l][c].end = "open"
      /\ k \in 0 .. Len(Block(l)) /\ Wrote(l, k, "open")
      /\ sender' \in [Links -> SenderState]
      /\ sender'[l].ev = sender[l].ev /\ sender'[l].conn = c
      /\ sender'[l].at = IF Done(l) + k = 3 THEN "pop" ELSE "body"
      /\ \A m \in Links \ {l} : sender'[m] = sender[m]
  BY WriteWrites
<1>3. k > 0 /\ Done(l) + k \in {2, 3}
  <2>1. k \in 1 .. 3 /\ Done(l) + k \in {2, 3}
    BY <1>0, <1>2, BlockIs
  <2> HIDE DEF k
  <2> QED
    BY <2>1
<1> HIDE DEF c, k
<1>4. /\ conns' \in [Links -> Seq(Conn)]
      /\ \A m \in Links : DOMAIN conns'[m] = DOMAIN conns[m] /\ Len(conns'[m]) = Len(conns[m])
      /\ conns'[l][c].end = "open"
      /\ \A m \in Links : \A d \in DOMAIN conns[m] : (m # l \/ d # c) => conns'[m][d] = conns[m][d]
  BY <1>0, <1>2, WroteTokens DEF c
<1>5. conns[l][c].end # "reset"
  BY <1>2
<1>6. /\ OnlyEmittedArrive'
      /\ reader[l][c].at \in {"header", "body"} =>
           /\ Framed(conns'[l][c].bytes, reader[l][c])
           /\ PartAt(conns'[l][c].bytes, reader[l][c], Len(conns'[l][c].bytes)) = Done(l) + k
           /\ EventAt(conns'[l][c].bytes, reader[l][c], Len(conns'[l][c].bytes)) = sender[l].ev[1]
  BY <1>0, <1>1, <1>2, <1>3, <1>5, WroteFramed DEF c
<1>7. TypeOK'
  <2>1. \A m \in Links : sender'[m].conn <= Len(conns'[m]) /\ Len(reader'[m]) = Len(conns'[m])
    BY <1>1, <1>2, <1>4 DEF TypeOK, c
  <2> QED
    BY <1>1, <1>2, <1>4, <2>1 DEF TypeOK, SenderState, Conn, Thread
<1>8. StreamsAreFramed'
  <2> SUFFICES ASSUME NEW m \in Links, NEW d \in DOMAIN conns[m]
               PROVE  InStep(conns'[m][d], reader[m][d], sender'[m], d)
    BY <1>1, <1>4 DEF StreamsAreFramed
  <2>1. CASE m = l /\ d = c
    <3>1. reader[l][c].at \in {"header", "body"} =>
            EndsWhere(conns'[l][c].bytes, reader[l][c], sender'[l])
      BY <1>2, <1>3, <1>6 DEF EndsWhere
    <3> QED
      BY <1>4, <1>6, <2>1, <3>1 DEF InStep
  <2>2. CASE m # l \/ d # c
    <3>1. InStep(conns[m][d], reader[m][d], sender[m], d)
      BY <1>0 DEF StreamsAreFramed
    <3> QED
      BY <1>2, <1>4, <2>2, <3>1 DEF InStep, c
  <2> QED
    BY <2>1, <2>2
<1> QED
  BY <1>6, <1>7, <1>8

LEMMA PlaceIsNat ==
  ASSUME NEW S, NEW s \in Seq(S), NEW x \in ToSet(s)
  PROVE  PlaceIn(s, x) \in Nat
<1>1. \E i \in DOMAIN s : s[i] = x
  BY DEF ToSet
<1>2. PlaceIn(s, x) \in DOMAIN s
  BY <1>1 DEF PlaceIn
<1> QED
  BY <1>2

\* The last tokens after a write that completes an event: one more, at the end
\* of the connection's stream.
LEMMA WriteAddsOneEnd ==
  ASSUME TypeOK, LinkInv, NEW l \in Links, Write(l), Done(l) + Len(Block(l)) = 3,
         NEW m \in Links, NEW d \in DOMAIN conns'[m], NEW i \in Ends(conns'[m][d].bytes)
  PROVE  \/ /\ d \in DOMAIN conns[m] /\ i \in Ends(conns[m][d].bytes)
            /\ conns'[m][d].bytes[i].ev = conns[m][d].bytes[i].ev
         \/ /\ m = l /\ d = sender[l].conn /\ conns'[m][d].bytes[i].ev = sender[l].ev[1]
            /\ \A j \in Ends(conns'[m][d].bytes) : ~(i < j)
<1> DEFINE c == sender[l].conn
           k == Len(Block(l))
           b == conns[l][c].bytes
           w == SubSeq(Block(l), 1, k)
           e == sender[l].ev[1]
<1>0. SendersHoldTheNext
  BY DEF LinkInv
<1>1. sender[l].at \in {"write", "body"} /\ k \in 0 .. Len(Block(l)) /\ Wrote(l, k, "open")
  BY WriteWrites
<1>2. /\ c \in DOMAIN conns[l]
      /\ \A n \in Links : DOMAIN conns'[n] = DOMAIN conns[n]
      /\ conns'[l][c].bytes = b \o w
      /\ \A n \in Links : \A x \in DOMAIN conns[n] : (n # l \/ x # c) => conns'[n][x] = conns[n][x]
      /\ w \in Seq(Tokens) /\ Len(w) = k
      /\ \A x \in DOMAIN w : w[x].ev = e /\ w[x].part = Done(l) + x
  BY <1>0, <1>1, WroteTokens
<1>3. b \in Seq(Tokens)
  BY <1>2, ConnTypes
<1>4. Done(l) \in {0, 2} /\ Done(l) + k = 3
  BY DEF Done
<1> HIDE DEF c, k, b, w, e
<1>5. CASE m # l \/ d # c
  BY <1>2, <1>5
<1>6. CASE m = l /\ d = c
  <2>1. i \in Ends(b \o w) /\ conns'[m][d].bytes = b \o w
    BY <1>2, <1>6
  <2>2. CASE i \in Ends(b) /\ (b \o w)[i] = b[i]
    BY <1>2, <1>6, <2>1, <2>2 DEF b
  <2>3. CASE \E j \in DOMAIN w : i = Len(b) + j /\ w[j].part = 3 /\ (b \o w)[i] = w[j]
    <3>1. PICK j \in DOMAIN w : i = Len(b) + j /\ w[j].part = 3 /\ (b \o w)[i] = w[j]
      BY <2>3
    <3>2. w[j].ev = e /\ w[j].part = Done(l) + j /\ j \in Nat
      BY <1>2
    <3>3. j = k
      BY <1>2, <1>4, <3>1, <3>2
    <3>4. i = Len(b \o w) /\ DOMAIN (b \o w) = 1 .. Len(b \o w) /\ Len(b \o w) \in Nat
      <4>1. /\ b \in Seq(Tokens) /\ w \in Seq(Tokens)
            /\ i = Len(b) + Len(w)
        BY <1>2, <1>3, <3>1, <3>3
      <4> QED
        BY ONLY <4>1
    <3>5. \A x \in Ends(b \o w) : ~(i < x)
      BY <3>4 DEF Ends
    <3> QED
      BY <1>6, <2>1, <3>1, <3>2, <3>5 DEF c, e
  <2> QED
    BY <1>2, <1>3, <2>1, <2>2, <2>3, EndsOfLonger
<1> QED
  BY <1>5, <1>6

\* The sender has written an event completely.
LEMMA WriteCompletes ==
  ASSUME TypeOK, ForwardedOnce, LinkInv, NEW l \in Links, Write(l),
         Done(l) + Len(Block(l)) = 3
  PROVE  SendersHoldTheNext' /\ WrittenOnce' /\ ReadIsGone'
<1> DEFINE e == sender[l].ev[1]
           p == Popped(l)
           New(m, d, i) == /\ m = l /\ d = sender[l].conn /\ conns'[m][d].bytes[i].ev = e
                           /\ \A j \in Ends(conns'[m][d].bytes) : ~(i < j)
           Old(m, d, i) == /\ d \in DOMAIN conns[m] /\ i \in Ends(conns[m][d].bytes)
                           /\ conns'[m][d].bytes[i].ev = conns[m][d].bytes[i].ev
<1>0. SendersHoldTheNext /\ OnlyEmittedArrive /\ WrittenOnce /\ ReadIsGone
  BY DEF LinkInv
<1>1. UNCHANGED <<raised, mainq, outq, emitted, reader, handed>>
  BY DEF Write
<1>2. /\ sender[l].at \in {"write", "body"} /\ sender'[l].at = "pop"
      /\ \A m \in Links \ {l} : sender'[m] = sender[m]
  BY WriteWrites
<1>3. e = emitted[l][p] /\ p \in DOMAIN emitted[l] /\ p \in Int
  BY <1>0, <1>2, BlockIs, SentIsInt
<1>4. Position(l, e) = p
  BY <1>3, PlaceOfMember DEF Position, ForwardedOnce, NoRepetition
<1>5. \A m \in Links : Popped(m)' = Popped(m) /\ Popped(m) \in Int
  BY <1>1, SentIsInt DEF Popped
<1>6. SendersHoldTheNext'
  <2> SUFFICES ASSUME NEW m \in Links
               PROVE  /\ Popped(m) >= 0
                      /\ \A i \in DOMAIN outq[m] : outq[m][i] = emitted[m][Popped(m) + i]
                      /\ sender'[m].at # "pop" =>
                           Popped(m) >= 1 /\ sender'[m].ev = <<emitted[m][Popped(m)]>>
                      /\ sender'[m].at \in {"write", "body"} => sender'[m].conn # 0
                      /\ sender'[m].at = "body" => sender'[m].ev[1].n \notin Flat
    BY <1>1, <1>5 DEF SendersHoldTheNext
  <2>1. CASE m = l
    BY <1>0, <1>2, <2>1 DEF SendersHoldTheNext
  <2>2. CASE m # l
    BY <1>0, <1>2, <2>2 DEF SendersHoldTheNext
  <2> QED
    BY <2>1, <2>2
<1>7. /\ Sent(l) = p - 1 /\ (Sent(l))' = p
      /\ \A m \in Links \ {l} : Sent(m)' = Sent(m)
  BY <1>2, <1>5 DEF Sent
<1>8. \A m \in Links : \A d \in DOMAIN conns'[m] : \A i \in Ends(conns'[m][d].bytes) :
        Old(m, d, i) \/ New(m, d, i)
  BY WriteAddsOneEnd
<1>9. \A m \in Links : \A x \in ToSet(emitted[m]) : Position(m, x) \in Nat
  BY PlaceIsNat DEF Position, TypeOK
<1>10. \A m \in Links : \A x : Position(m, x)' = Position(m, x)
  BY <1>1 DEF Position
\* Events that were complete before keep away from the new one.
<1>11. ASSUME NEW m \in Links, NEW x \in ToSet(emitted[m]), Position(m, x) <= Sent(m)
       PROVE  /\ Position(m, x) <= Sent(m)'
              /\ m = l => x # e /\ Position(m, x) < p
  <2>1. Position(m, x) \in Nat
    BY <1>9
  <2> HIDE DEF p, e
  <2>2. CASE m = l
    <3>1. Position(l, x) \in Int /\ Position(l, x) <= p - 1
      BY <1>7, <1>11, <2>1, <2>2
    <3>2. Position(l, x) < p /\ Position(l, x) <= p
      BY <1>3, <3>1
    <3>3. x # e
      BY <1>3, <1>4, <3>2
    <3> QED
      BY <1>7, <2>2, <3>2, <3>3
  <2>3. CASE m # l
    BY <1>7, <1>11, <2>3
  <2> QED
    BY <2>2, <2>3
<1>12. ASSUME NEW m \in Links, NEW d \in DOMAIN conns'[m], NEW i \in Ends(conns'[m][d].bytes),
              Old(m, d, i)
       PROVE  LET x == conns'[m][d].bytes[i].ev IN
              x \in ToSet(emitted[m]) /\ Position(m, x) <= Sent(m)
  BY <1>0, <1>12 DEF OnlyEmittedArrive, WrittenOnce, Ends
<1>13. WrittenOnce'
  <2> SUFFICES ASSUME NEW m \in Links, NEW c \in DOMAIN conns'[m], NEW i \in Ends(conns'[m][c].bytes),
                      NEW d \in DOMAIN conns'[m], NEW j \in Ends(conns'[m][d].bytes)
               PROVE  LET x == conns'[m][c].bytes[i].ev
                          y == conns'[m][d].bytes[j].ev
                      IN  /\ Position(m, x) <= Sent(m)'
                          /\ c # d => x # y
                          /\ (c = d /\ i < j) => Position(m, x) < Position(m, y)
    BY <1>10 DEF WrittenOnce
  <2> DEFINE x == conns'[m][c].bytes[i].ev
             y == conns'[m][d].bytes[j].ev
  <2>1. Old(m, c, i) => /\ Position(m, x) <= Sent(m)'
                        /\ m = l => x # e /\ Position(m, x) < p
    BY <1>11, <1>12
  <2>2. Old(m, d, j) => (m = l => y # e /\ Position(m, y) < p)
    BY <1>11, <1>12
  <2>3. CASE Old(m, c, i) /\ Old(m, d, j)
    BY <1>0, <2>1, <2>3 DEF WrittenOnce
  <2>4. CASE Old(m, c, i) /\ New(m, d, j)
    <3>1. m = l /\ y = e /\ Position(m, y) = p
      BY <1>4, <2>4
    <3> QED
      BY <2>1, <2>4, <3>1
  <2>5. CASE New(m, c, i)
    <3>1. m = l /\ x = e /\ Position(m, x) = p /\ c = sender[l].conn
      BY <1>4, <2>5
    <3>2. Position(m, x) <= Sent(m)'
      BY <1>3, <1>7, <3>1
    <3>3. ~(c = d /\ i < j)
      BY <2>5
    <3>4. c # d => x # y
      BY <1>8, <2>2, <3>1
    <3> QED
      BY <3>2, <3>3, <3>4
  <2> QED
    BY <1>8, <2>3, <2>4, <2>5
<1>14. ReadIsGone'
  <2>1. ASSUME NEW h, h.link \in Links, h.event \in ToSet(emitted[h.link]), Gone(h)
        PROVE  Gone(h)'
    <3>1. /\ Position(h.link, h.event) <= Sent(h.link)'
          /\ h.link = l => h.event # e /\ Position(h.link, h.event) < p
      BY <1>11, <2>1 DEF Gone
    <3>2. ASSUME NEW c \in DOMAIN conns'[h.link], NEW i \in Ends(conns'[h.link][c].bytes)
          PROVE  LET f == conns'[h.link][c].bytes[i].ev IN
                 h.event # f /\ (c = h.conn => Position(h.link, h.event) < Position(h.link, f))
      <4>1. CASE Old(h.link, c, i)
        BY <2>1, <4>1 DEF Gone
      <4>2. CASE New(h.link, c, i)
        BY <1>4, <3>1, <4>2
      <4>3. Old(h.link, c, i) \/ New(h.link, c, i)
        BY <1>8, <2>1
      <4> QED
        BY <4>1, <4>2, <4>3
    <3>3. \A x : Position(h.link, x)' = Position(h.link, x)
      BY <1>10, <2>1
    <3> QED
      BY <3>1, <3>2, <3>3 DEF Gone
  <2> QED
    BY <1>0, <1>1, <2>1, GoneStays
<1> QED
  BY <1>6, <1>13, <1>14

LEMMA WriteKeeps ==
  ASSUME MaxEvents \in [Nodes -> Nat], QueueInv, LinkInv, NEW l \in Links, Write(l)
  PROVE  QueueInv' /\ LinkInv'
<1> DEFINE k == Len(Block(l))
<1>0. /\ TypeOK /\ ForwardedOnce /\ SendersHoldTheNext /\ OnlyEmittedArrive
      /\ WrittenOnce /\ ReadIsGone /\ ReadOnce
      /\ UNCHANGED <<raised, mainq, outq, emitted, reader, handed>>
  BY DEF QueueInv, LinkInv, Write
<1>1. TypeOK' /\ StreamsAreFramed' /\ OnlyEmittedArrive'
  BY <1>0, WriteKeepsStreams
<1>2. /\ sender[l].at \in {"write", "body"} /\ k \in 0 .. Len(Block(l)) /\ Wrote(l, k, "open")
      /\ sender'[l].ev = sender[l].ev /\ sender'[l].conn = sender[l].conn
      /\ sender'[l].at = IF Done(l) + k = 3 THEN "pop" ELSE "body"
      /\ \A m \in Links \ {l} : sender'[m] = sender[m]
  BY <1>0, WriteWrites
<1>3. Done(l) + k \in {2, 3} /\ (Done(l) + k = 2 => sender[l].ev[1].n \notin Flat)
  BY <1>0, <1>2, BlockIs
<1>4. sender[l].conn # 0
  BY <1>0, <1>2 DEF SendersHoldTheNext
<1>5. SendersHoldTheNext' /\ WrittenOnce' /\ ReadIsGone'
  <2>1. CASE Done(l) + k = 3
    BY <1>0, <2>1, WriteCompletes
  <2>2. CASE Done(l) + k = 2
    <3>1. Done(l) + k # 3 /\ sender[l].at # "pop" /\ sender'[l].at = "body"
      BY <1>2, <2>2
    <3>2. SendersHoldTheNext' /\ \A m \in Links : Sent(m) \in Int /\ Sent(m)' = Sent(m)
      BY <1>0, <1>2, <1>3, <1>4, <2>2, <3>1, SenderGoesOn
    <3>3. NoNewEnds
      BY <1>0, <1>2, <3>1, PartHasNoEnd
    <3> QED
      BY <1>0, <1>1, <3>2, <3>3, NoNewEndsKeepAll
  <2> QED
    BY <1>3, <2>1, <2>2
<1>6. ReadOnce'
  BY <1>0 DEF ReadOnce, Position
<1> QED
  BY <1>0, <1>1, <1>5, <1>6, UnchangedQueues DEF LinkInv

-----------------------------------------------------------------------------
(* The network and the consumer threads.                                   *)

\* A stream from which the first n tokens were taken.
Taken(l, c, n) ==
  \E v \in Conn :
    /\ v.bytes = SubSeq(conns[l][c].bytes, n + 1, Len(conns[l][c].bytes))
    /\ v.end \in {conns[l][c].end, "reset"}
    /\ v.end # conns[l][c].end => v.bytes = <<>>
    /\ conns' = [conns EXCEPT ![l] = [conns[l] EXCEPT ![c] = v]]

LEMMA TakeTakes ==
  ASSUME TypeOK, NEW l \in Links, NEW c \in DOMAIN conns[l],
         NEW n \in 0 .. Len(conns[l][c].bytes), conns' = Take(l, c, n)
  PROVE  Taken(l, c, n)
<1> DEFINE b == SubSeq(conns[l][c].bytes, n + 1, Len(conns[l][c].bytes))
           v == [conns[l][c] EXCEPT !.bytes = b]
<1>1. conns[l][c] \in Conn /\ conns[l][c].bytes \in Seq(Tokens)
  BY ConnTypes
<1>2. b \in Seq(Tokens)
  BY <1>1, Rest
<1>3. conns' = [conns EXCEPT ![l] = [conns[l] EXCEPT ![c] = v]]
  BY DEF Take, TypeOK
<1> HIDE DEF b
<1>4. v \in Conn /\ v.bytes = b /\ v.end = conns[l][c].end
  BY <1>1, <1>2 DEF Conn
<1> HIDE DEF v
<1> QED
  BY <1>3, <1>4 DEF Taken, b

LEMMA TakenTokens ==
  ASSUME TypeOK, NEW l \in Links, NEW c \in DOMAIN conns[l],
         NEW n \in 0 .. Len(conns[l][c].bytes), Taken(l, c, n)
  PROVE  /\ conns' \in [Links -> Seq(Conn)]
         /\ \A m \in Links : DOMAIN conns'[m] = DOMAIN conns[m] /\ Len(conns'[m]) = Len(conns[m])
         /\ conns'[l][c].bytes = SubSeq(conns[l][c].bytes, n + 1, Len(conns[l][c].bytes))
         /\ \A m \in Links : \A d \in DOMAIN conns[m] : (m # l \/ d # c) => conns'[m][d] = conns[m][d]
         /\ conns'[l][c].end \in {conns[l][c].end, "reset"}
         /\ conns'[l][c].end # conns[l][c].end => conns'[l][c].bytes = <<>>
<1>1. PICK v \in Conn :
        /\ v.bytes = SubSeq(conns[l][c].bytes, n + 1, Len(conns[l][c].bytes))
        /\ v.end \in {conns[l][c].end, "reset"}
        /\ v.end # conns[l][c].end => v.bytes = <<>>
        /\ conns' = [conns EXCEPT ![l] = [conns[l] EXCEPT ![c] = v]]
  BY DEF Taken
<1>2. conns \in [Links -> Seq(Conn)]
  BY DEF TypeOK, Conn
<1>3. /\ conns' \in [Links -> Seq(Conn)]
      /\ \A m \in Links : DOMAIN conns'[m] = DOMAIN conns[m] /\ Len(conns'[m]) = Len(conns[m])
      /\ conns'[l][c] = v
      /\ \A m \in Links : \A d \in DOMAIN conns[m] : (m # l \/ d # c) => conns'[m][d] = conns[m][d]
  BY <1>1, <1>2, OneChanges
<1> QED
  BY <1>1, <1>3

\* Taking tokens adds none: no event gets complete, and only events of the
\* links are on their way.
LEMMA TakenKeeps ==
  ASSUME TypeOK, OnlyEmittedArrive, NEW l \in Links, NEW c \in DOMAIN conns[l],
         NEW n \in 0 .. Len(conns[l][c].bytes), Taken(l, c, n)
  PROVE  /\ NoNewEnds
         /\ \A m \in Links : \A d \in DOMAIN conns'[m] : \A i \in DOMAIN conns'[m][d].bytes :
              conns'[m][d].bytes[i].ev \in ToSet(emitted[m])
<1> DEFINE b == conns[l][c].bytes
           z == conns'[l][c].bytes
<1>1. /\ \A m \in Links : DOMAIN conns'[m] = DOMAIN conns[m]
      /\ z = SubSeq(b, n + 1, Len(b))
      /\ \A m \in Links : \A d \in DOMAIN conns[m] : (m # l \/ d # c) => conns'[m][d] = conns[m][d]
  BY TakenTokens
<1>2. b \in Seq(Tokens) /\ n \in 0 .. Len(b)
  BY ConnTypes
<1>3. \A i \in DOMAIN b : b[i].ev \in ToSet(emitted[l])
  BY DEF OnlyEmittedArrive
<1> HIDE DEF b, z
<1>4. \A i \in DOMAIN z : i + n \in DOMAIN b /\ z[i] = b[i + n]
  <2>1. /\ Len(b) \in Nat /\ DOMAIN b = 1 .. Len(b) /\ DOMAIN z = 1 .. Len(b) - n
        /\ \A i \in 1 .. Len(b) - n : z[i] = b[i + n]
    BY <1>1, <1>2, Rest
  <2> QED
    BY <1>2, <2>1
<1>5. ASSUME NEW m \in Links, NEW d \in DOMAIN conns'[m]
      PROVE  /\ \E k \in Nat : \A i \in DOMAIN conns'[m][d].bytes :
                  /\ d \in DOMAIN conns[m] /\ i + k \in DOMAIN conns[m][d].bytes
                  /\ conns'[m][d].bytes[i] = conns[m][d].bytes[i + k]
             /\ \A i \in DOMAIN conns'[m][d].bytes : conns'[m][d].bytes[i].ev \in ToSet(emitted[m])
  <2>1. CASE m = l /\ d = c
    <3>1. n \in Nat
      BY <1>2
    <3> QED
      BY <1>1, <1>3, <1>4, <2>1, <3>1 DEF b, z
  <2>2. CASE m # l \/ d # c
    <3>1. d \in DOMAIN conns[m] /\ conns'[m][d] = conns[m][d]
      BY <1>1, <2>2
    <3>2. \A i \in DOMAIN conns[m][d].bytes : i + 0 = i
      BY <3>1, ConnTypes
    <3> QED
      BY <3>1, <3>2 DEF OnlyEmittedArrive
  <2> QED
    BY <2>1, <2>2
<1>6. NoNewEnds
  BY <1>5 DEF NoNewEnds, Ends
<1> QED
  BY <1>5, <1>6

LEMMA NothingTaken ==
  ASSUME TypeOK, NEW l \in Links, NEW c \in DOMAIN conns[l], UNCHANGED conns
  PROVE  Taken(l, c, 0) /\ 0 \in 0 .. Len(conns[l][c].bytes)
<1> DEFINE v == conns[l][c]
           b == v.bytes
<1>1. v \in Conn /\ b \in Seq(Tokens) /\ conns \in [Links -> Seq(Conn)]
  BY ConnTypes DEF TypeOK, Conn
<1>2. conns' = [conns EXCEPT ![l] = [conns[l] EXCEPT ![c] = v]]
  BY <1>1
<1> HIDE DEF v, b
<1>3. SubSeq(b, 0 + 1, Len(b)) = b /\ 0 \in 0 .. Len(b)
  BY <1>1, SubSeqFull
<1>4. v.bytes = SubSeq(v.bytes, 0 + 1, Len(v.bytes))
  BY <1>3 DEF b
<1> QED
  BY <1>1, <1>2, <1>3, <1>4 DEF Taken, v, b

\* What a consumer thread, or the network, leaves to prove: that the thread
\* still reads whole messages. The change is at connection c of link l.
LEMMA StreamStepKeeps ==
  ASSUME TypeOK, TypeOK', LinkInv, UNCHANGED <<outq, emitted, sender>>,
         NEW l \in Links, NEW c \in DOMAIN conns[l],
         NEW n \in 0 .. Len(conns[l][c].bytes), Taken(l, c, n),
         \A m \in Links : \A d \in DOMAIN reader[m] : (m # l \/ d # c) => reader'[m][d] = reader[m][d],
         reader'[l][c].at \in {"header", "body"} =>
           /\ Framed(conns'[l][c].bytes, reader'[l][c])
           /\ conns'[l][c].end = "open" =>
                /\ reader[l][c].at \in {"header", "body"}
                /\ \A s : EndsWhere(conns[l][c].bytes, reader[l][c], s)
                            => EndsWhere(conns'[l][c].bytes, reader'[l][c], s),
         reader'[l][c].at \in {"body", "astray"} =>
           reader'[l][c].ev # <<>> /\ reader'[l][c].ev[1] \in ToSet(emitted[l])
  PROVE  /\ SendersHoldTheNext' /\ StreamsAreFramed' /\ WrittenOnce'
         /\ \A h : h.link \in Links /\ Gone(h) => Gone(h)'
         /\ (\A k \in Nodes : \A i \in DOMAIN handed'[k] :
               LET h == handed'[k][i] IN h.link[2] = k /\ h.event \in ToSet(emitted'[h.link]))
            => OnlyEmittedArrive'
<1>0. SendersHoldTheNext /\ StreamsAreFramed /\ OnlyEmittedArrive /\ WrittenOnce
  BY DEF LinkInv
<1>1. /\ \A m \in Links : DOMAIN conns'[m] = DOMAIN conns[m]
      /\ conns'[l][c].bytes = SubSeq(conns[l][c].bytes, n + 1, Len(conns[l][c].bytes))
      /\ \A m \in Links : \A d \in DOMAIN conns[m] : (m # l \/ d # c) => conns'[m][d] = conns[m][d]
      /\ conns'[l][c].end \in {conns[l][c].end, "reset"}
      /\ conns'[l][c].end # conns[l][c].end => conns'[l][c].bytes = <<>>
  BY TakenTokens
<1>2. \A m \in Links : DOMAIN reader[m] = DOMAIN conns[m]
  BY SenderTypes
<1>3. SendersHoldTheNext' /\ \A m \in Links : Sent(m) \in Int /\ Sent(m)' = Sent(m)
  <2>1. \A m \in Links : Sent(m) \in Int
    BY SentIsInt
  <2> QED
    BY <1>0, <2>1 DEF SendersHoldTheNext, Sent, Popped
<1>4. StreamsAreFramed'
  <2> SUFFICES ASSUME NEW m \in Links, NEW d \in DOMAIN conns[m]
               PROVE  InStep(conns'[m][d], reader'[m][d], sender[m], d)
    BY <1>1 DEF StreamsAreFramed
  <2>1. InStep(conns[m][d], reader[m][d], sender[m], d)
    BY <1>0 DEF StreamsAreFramed
  <2>2. CASE m # l \/ d # c
    BY <1>1, <1>2, <2>1, <2>2
  <2>3. CASE m = l /\ d = c
    <3>1. conns'[l][c].end = "reset" => conns'[l][c].bytes = <<>>
      <4>1. CASE conns'[l][c].end # conns[l][c].end
        BY <1>1, <4>1
      <4>2. CASE conns'[l][c].end = conns[l][c].end /\ conns[l][c].end = "reset"
        <5>1. conns[l][c].bytes = <<>>
          BY <2>1, <2>3, <4>2 DEF InStep
        <5>2. n = 0 /\ SubSeq(<<>>, 0 + 1, Len(<<>>)) = <<>>
          BY <5>1, EmptySeq, SubSeqFull
        <5> QED
          BY <1>1, <5>1, <5>2
      <4> QED
        BY <4>1, <4>2
    <3>2. c = sender[l].conn => conns'[l][c].end # "closed"
      BY <1>1, <2>1, <2>3 DEF InStep
    <3>3. conns'[l][c].end = "open" => conns[l][c].end = "open"
      BY <1>1
    <3>4. ASSUME reader'[l][c].at \in {"header", "body"}, c = sender[l].conn, conns'[l][c].end = "open"
          PROVE  EndsWhere(conns'[l][c].bytes, reader'[l][c], sender[l])
      BY <2>1, <2>3, <3>3, <3>4 DEF InStep
    <3> QED
      BY <2>3, <3>1, <3>2, <3>4 DEF InStep
  <2> QED
    BY <2>2, <2>3
<1>5. /\ NoNewEnds
      /\ \A m \in Links : \A d \in DOMAIN conns'[m] : \A i \in DOMAIN conns'[m][d].bytes :
           conns'[m][d].bytes[i].ev \in ToSet(emitted[m])
  BY <1>0, TakenKeeps
<1>6. WrittenOnce' /\ \A h : h.link \in Links /\ Gone(h) => Gone(h)'
  BY <1>0, <1>3, <1>5, NoNewEndsKeep
<1>7. \A m \in Links : \A d \in DOMAIN conns'[m] :
        reader'[m][d].at \in {"body", "astray"} =>
          reader'[m][d].ev # <<>> /\ reader'[m][d].ev[1] \in ToSet(emitted[m])
  <2> SUFFICES ASSUME NEW m \in Links, NEW d \in DOMAIN conns[m], reader'[m][d].at \in {"body", "astray"}
               PROVE  reader'[m][d].ev # <<>> /\ reader'[m][d].ev[1] \in ToSet(emitted[m])
    BY <1>1
  <2>1. CASE m # l \/ d # c
    BY <1>0, <1>2, <2>1 DEF OnlyEmittedArrive
  <2>2. CASE m = l /\ d = c
    BY <2>2
  <2> QED
    BY <2>1, <2>2
<1>8. (\A k \in Nodes : \A i \in DOMAIN handed'[k] :
         LET h == handed'[k][i] IN h.link[2] = k /\ h.event \in ToSet(emitted'[h.link]))
      => OnlyEmittedArrive'
  BY <1>5, <1>7 DEF OnlyEmittedArrive
<1> QED
  BY <1>3, <1>4, <1>6, <1>8

\* A step that hands nothing over.
LEMMA SilentStepKeeps ==
  ASSUME TypeOK, LinkInv, UNCHANGED <<emitted, handed>>,
         \A h : h.link \in Links /\ Gone(h) => Gone(h)'
  PROVE  /\ ReadIsGone' /\ ReadOnce'
         /\ \A k \in Nodes : \A i \in DOMAIN handed'[k] :
              LET h == handed'[k][i] IN h.link[2] = k /\ h.event \in ToSet(emitted'[h.link])
<1>1. ReadIsGone'
  BY GoneStays DEF LinkInv
<1>2. ReadOnce'
  BY DEF LinkInv, ReadOnce, Position
<1>3. \A k \in Nodes : \A i \in DOMAIN handed'[k] :
        LET h == handed'[k][i] IN h.link[2] = k /\ h.event \in ToSet(emitted'[h.link])
  BY DEF LinkInv, OnlyEmittedArrive
<1> QED
  BY <1>1, <1>2, <1>3

\* The i-th event handed over at node k is the last one, and new.
HandedLast(k, i) == \A j \in DOMAIN handed'[k] : i # j => j \in DOMAIN handed[k] /\ ~(i < j)

\* What a consumer thread queues is behind all that was queued before.
LEMMA HandOverAppends ==
  ASSUME MaxEvents \in [Nodes -> Nat], TypeOK, NEW l \in Links, NEW e \in Events,
         NEW whole \in BOOLEAN, NEW c \in Nat, HandOver(l, e, whole, c)
  PROVE  /\ mainq' \in [Nodes -> Seq(QueuedEvent)] /\ handed' \in [Nodes -> Seq(HandedOver)]
         /\ \A k \in Nodes : \A i \in DOMAIN mainq'[k] :
              \/ i \in DOMAIN mainq[k] /\ mainq'[k][i] = mainq[k][i]
              \/ k = l[2] /\ mainq'[k][i].event = e /\ mainq'[k][i].sent = TRUE
         /\ \A k \in Nodes : \A i \in DOMAIN mainq[k] :
              i \in DOMAIN mainq'[k] /\ mainq'[k][i] = mainq[k][i]
         /\ \A k \in Nodes : \A i \in DOMAIN handed'[k] :
              \/ i \in DOMAIN handed[k] /\ handed'[k][i] = handed[k][i]
              \/ /\ k = l[2] /\ handed'[k][i].event = e /\ handed'[k][i].whole = whole
                 /\ handed'[k][i].link = l /\ handed'[k][i].conn = c
                 /\ HandedLast(k, i)
<1> DEFINE q == Queued(e, TRUE)
           h == [event |-> e, whole |-> whole, link |-> l, conn |-> c]
           k == l[2]
<1>1. k \in Nodes
  BY LinkTypes
<1>2. /\ mainq' = [mainq EXCEPT ![k] = Append(mainq[k], q)]
      /\ handed' = [handed EXCEPT ![k] = Append(handed[k], h)]
  BY DEF HandOver
<1>3. q \in QueuedEvent /\ q.event = e /\ q.sent = TRUE
  BY DEF Queued, QueuedEvent
<1>4. /\ h \in HandedOver /\ h.event = e /\ h.whole = whole /\ h.link = l /\ h.conn = c
  BY DEF HandedOver
<1>5. mainq \in [Nodes -> Seq(QueuedEvent)] /\ handed \in [Nodes -> Seq(HandedOver)]
  BY DEF TypeOK, QueuedEvent, HandedOver
<1> HIDE DEF q, h, k
<1>6. /\ mainq' \in [Nodes -> Seq(QueuedEvent)] /\ mainq'[k] = Append(mainq[k], q)
      /\ \A m \in Nodes \ {k} : mainq'[m] = mainq[m]
  <2>1. Append(mainq[k], q) \in Seq(QueuedEvent)
    BY <1>1, <1>3, <1>5
  <2> QED
    BY <1>1, <1>2, <1>5, <2>1
<1>7. /\ handed' \in [Nodes -> Seq(HandedOver)] /\ handed'[k] = Append(handed[k], h)
      /\ \A m \in Nodes \ {k} : handed'[m] = handed[m]
  <2>1. Append(handed[k], h) \in Seq(HandedOver)
    BY <1>1, <1>4, <1>5
  <2> QED
    BY <1>1, <1>2, <1>5, <2>1
<1>8. /\ \A i \in DOMAIN mainq'[k] : (i \in DOMAIN mainq[k] /\ mainq'[k][i] = mainq[k][i]) \/ mainq'[k][i] = q
      /\ \A i \in DOMAIN mainq[k] : i \in DOMAIN mainq'[k] /\ mainq'[k][i] = mainq[k][i]
  <2>1. mainq[k] \in Seq(QueuedEvent)
    BY <1>1, <1>5
  <2> QED
    BY <1>3, <1>6, <2>1
<1>9. \A i \in DOMAIN handed'[k] :
        \/ i \in DOMAIN handed[k] /\ handed'[k][i] = handed[k][i]
        \/ /\ handed'[k][i] = h
           /\ \A j \in DOMAIN handed'[k] : i # j => j \in DOMAIN handed[k] /\ ~(i < j)
  <2> DEFINE s == handed[k]
  <2>1. s \in Seq(HandedOver) /\ handed'[k] = Append(s, h)
    BY <1>1, <1>5, <1>7
  <2> HIDE DEF s
  <2>2. /\ DOMAIN Append(s, h) = 1 .. Len(s) + 1 /\ DOMAIN s = 1 .. Len(s) /\ Len(s) \in Nat
        /\ Append(s, h)[Len(s) + 1] = h /\ \A i \in 1 .. Len(s) : Append(s, h)[i] = s[i]
    BY <1>4, <2>1
  <2>3. \A i \in DOMAIN Append(s, h) :
          \/ i \in DOMAIN s /\ Append(s, h)[i] = s[i]
          \/ /\ Append(s, h)[i] = h
             /\ \A j \in DOMAIN Append(s, h) : i # j => j \in DOMAIN s /\ ~(i < j)
    BY ONLY <2>2
  <2> QED
    BY <2>1, <2>3 DEF s
<1>10. \A m \in Nodes : \A i \in DOMAIN mainq'[m] :
         \/ i \in DOMAIN mainq[m] /\ mainq'[m][i] = mainq[m][i]
         \/ m = k /\ mainq'[m][i].event = e /\ mainq'[m][i].sent = TRUE
  BY <1>3, <1>6, <1>8
<1>11. \A m \in Nodes : \A i \in DOMAIN mainq[m] :
         i \in DOMAIN mainq'[m] /\ mainq'[m][i] = mainq[m][i]
  BY <1>6, <1>8
<1>12. \A m \in Nodes : \A i \in DOMAIN handed'[m] :
         \/ i \in DOMAIN handed[m] /\ handed'[m][i] = handed[m][i]
         \/ /\ m = k /\ handed'[m][i].event = e /\ handed'[m][i].whole = whole
            /\ handed'[m][i].link = l /\ handed'[m][i].conn = c
            /\ HandedLast(m, i)
  <2> SUFFICES ASSUME NEW m \in Nodes, NEW i \in DOMAIN handed'[m],
                      ~(i \in DOMAIN handed[m] /\ handed'[m][i] = handed[m][i])
               PROVE  /\ m = k /\ handed'[m][i] = h
                      /\ HandedLast(m, i)
    BY <1>4
  <2>1. m = k
    BY <1>7
  <2> QED
    BY <1>9, <2>1 DEF HandedLast
<1> QED
  BY <1>6, <1>7, <1>10, <1>11, <1>12 DEF k

\* An event of another node that is queued is marked as sent: the out queues
\* get it from nobody.
LEMMA HandOverKeepsQueues ==
  ASSUME MaxEvents \in [Nodes -> Nat], QueueInv, TypeOK', UNCHANGED <<raised, emitted>>,
         NEW l \in Links, NEW e \in Events, e \in ToSet(emitted[l]),
         NEW whole \in BOOLEAN, NEW c \in Nat, HandOver(l, e, whole, c)
  PROVE  QueueInv'
<1>0. TypeOK /\ (\A m \in Nodes : QueueOf(m)) /\ \A m \in Links : EmittedBy(m) /\ Accounted(m)
  BY QueueInvParts
<1>1. /\ \A k \in Nodes : \A i \in DOMAIN mainq'[k] :
           \/ i \in DOMAIN mainq[k] /\ mainq'[k][i] = mainq[k][i]
           \/ k = l[2] /\ mainq'[k][i].event = e /\ mainq'[k][i].sent = TRUE
      /\ \A k \in Nodes : \A i \in DOMAIN mainq[k] :
           i \in DOMAIN mainq'[k] /\ mainq'[k][i] = mainq[k][i]
  BY <1>0, HandOverAppends
<1>2. e.node = l[1] /\ l[1] # l[2]
  BY <1>0, LinkTypes DEF EmittedBy, ToSet
<1>3. ASSUME NEW m \in Nodes PROVE QueueOf(m)'
  <2> SUFFICES ASSUME NEW i \in DOMAIN mainq'[m]
               PROVE  LET q == mainq'[m][i] IN
                      /\ q.event.node = m => q.event.n <= raised[m]
                      /\ ~ q.sent => q.event.node = m
                      /\ q.event.node = m => \A k \in From(m) : q.sent <=> q.event \in ToSet(emitted[k])
                      /\ \A j \in DOMAIN mainq'[m] :
                           (i < j /\ ~ q.sent /\ ~ mainq'[m][j].sent) => q.event # mainq'[m][j].event
    BY DEF QueueOf
  <2>1. CASE m = l[2] /\ mainq'[m][i].event = e /\ mainq'[m][i].sent = TRUE
    BY <1>2, <2>1
  <2>2. CASE i \in DOMAIN mainq[m] /\ mainq'[m][i] = mainq[m][i]
    <3>1. ASSUME NEW j \in DOMAIN mainq'[m], i < j, ~ mainq[m][i].sent, ~ mainq'[m][j].sent
          PROVE  mainq[m][i].event # mainq'[m][j].event
      <4>1. j \in DOMAIN mainq[m] /\ mainq'[m][j] = mainq[m][j]
        BY <1>1, <3>1
      <4> QED
        BY <1>0, <2>2, <3>1, <4>1 DEF QueueOf
    <3> QED
      BY <1>0, <2>2, <3>1 DEF QueueOf
  <2> QED
    BY <1>1, <2>1, <2>2
<1>4. ASSUME NEW m \in Links PROVE EmittedBy(m)' /\ Accounted(m)'
  <2>1. m[1] \in Nodes
    BY <1>0, LinkTypes
  <2>2. EmittedBy(m)'
    BY <1>0 DEF EmittedBy
  <2>3. Accounted(m)'
    <3> SUFFICES ASSUME NEW k \in 1 .. raised[m[1]]
                 PROVE  \/ \E i \in DOMAIN emitted[m] : emitted[m][i].n = k
                        \/ \E i \in DOMAIN mainq'[m[1]] : mainq'[m[1]][i].event.n = k
                                                          /\ mainq'[m[1]][i].event.node = m[1]
      BY DEF Accounted
    <3>1. \A i \in DOMAIN mainq[m[1]] : i \in DOMAIN mainq'[m[1]] /\ mainq'[m[1]][i] = mainq[m[1]][i]
      BY <1>1, <2>1
    <3> QED
      BY <1>0, <3>1 DEF Accounted
  <2> QED
    BY <2>2, <2>3
<1> QED
  BY <1>3, <1>4 DEF QueueInv, UnsentAreNew, ForwardedOnce, QueueOf, EmittedBy, Accounted, NoRepetition

\* What is left to prove when an event is handed over: if it was read
\* completely, that it is gone and that it was not handed over before.
LEMMA HandOverKeepsHanded ==
  ASSUME MaxEvents \in [Nodes -> Nat], TypeOK, LinkInv, UNCHANGED emitted,
         NEW l \in Links, NEW e \in Events, e \in ToSet(emitted[l]),
         NEW whole \in BOOLEAN, NEW c \in Nat, HandOver(l, e, whole, c),
         \A h : h.link \in Links /\ Gone(h) => Gone(h)',
         whole => \A h : (h.event = e /\ h.link = l /\ h.conn = c) => Gone(h)',
         whole => \A i \in DOMAIN handed[l[2]] :
                    handed[l[2]][i].whole =>
                      /\ handed[l[2]][i].event # e
                      /\ (handed[l[2]][i].link = l /\ handed[l[2]][i].conn = c)
                           => Position(l, handed[l[2]][i].event) < Position(l, e)
  PROVE  /\ ReadIsGone' /\ ReadOnce'
         /\ \A k \in Nodes : \A i \in DOMAIN handed'[k] :
              LET h == handed'[k][i] IN h.link[2] = k /\ h.event \in ToSet(emitted'[h.link])
<1> DEFINE Old(k, i) == i \in DOMAIN handed[k] /\ handed'[k][i] = handed[k][i]
           New(k, i) == /\ k = l[2] /\ handed'[k][i].event = e /\ handed'[k][i].whole = whole
                        /\ handed'[k][i].link = l /\ handed'[k][i].conn = c
                        /\ HandedLast(k, i)
<1>0. ReadIsGone /\ ReadOnce /\ OnlyEmittedArrive
  BY DEF LinkInv
<1>1. \A k \in Nodes : \A i \in DOMAIN handed'[k] : Old(k, i) \/ New(k, i)
  BY ONLY MaxEvents \in [Nodes -> Nat], TypeOK, l \in Links, e \in Events, whole \in BOOLEAN,
          c \in Nat, HandOver(l, e, whole, c), HandOverAppends
<1>2. \A k \in Nodes : \A i \in DOMAIN handed[k] : handed[k][i].link \in Links
  BY HandedTypes
<1>3. ReadIsGone'
  <2>1. ASSUME NEW k \in Nodes, NEW i \in DOMAIN handed'[k], handed'[k][i].whole, NEW h, h = handed'[k][i]
        PROVE  Gone(h)'
    <3>1. CASE Old(k, i)
      <4>1. h.link \in Links /\ Gone(h)
        BY <1>0, <1>2, <2>1, <3>1 DEF ReadIsGone
      <4> QED
        BY <4>1
    <3>2. CASE New(k, i)
      BY <2>1, <3>2
    <3> QED
      BY <1>1, <3>1, <3>2
  <2> QED
    BY <2>1 DEF ReadIsGone
<1>4. ReadOnce'
  <2> SUFFICES ASSUME NEW k \in Nodes, NEW i \in DOMAIN handed'[k], NEW j \in DOMAIN handed'[k],
                      i < j, handed'[k][i].whole, handed'[k][j].whole
               PROVE  LET h == handed'[k][i]  g == handed'[k][j] IN
                      /\ h.event # g.event
                      /\ (h.link = g.link /\ h.conn = g.conn) =>
                           PlaceIn(emitted[h.link], h.event) < PlaceIn(emitted[g.link], g.event)
    BY DEF ReadOnce, Position
  <2>1. i # j
    <3>1. handed' \in [Nodes -> Seq(HandedOver)]
      BY HandOverAppends
    <3>2. handed'[k] \in Seq(HandedOver)
      BY <3>1
    <3> QED
      BY <3>2
  <2>2. Old(k, i)
    BY <1>1, <2>1 DEF HandedLast
  <2>3. CASE Old(k, j)
    BY <1>0, <2>2, <2>3 DEF ReadOnce, Position
  <2>4. CASE New(k, j)
    <3>1. whole /\ k = l[2]
      BY <2>4
    <3> QED
      BY <2>2, <2>4, <3>1 DEF Position
  <2> QED
    BY <1>1, <2>3, <2>4
<1>5. \A k \in Nodes : \A i \in DOMAIN handed'[k] :
        LET h == handed'[k][i] IN h.link[2] = k /\ h.event \in ToSet(emitted'[h.link])
  BY <1>0, <1>1 DEF OnlyEmittedArrive
<1> QED
  BY <1>3, <1>4, <1>5

LEMMA ReaderTypes ==
  ASSUME TypeOK, NEW l \in Links, NEW c \in DOMAIN reader[l]
  PROVE  /\ c \in DOMAIN conns[l] /\ c \in Nat /\ reader[l][c] \in Thread
         /\ conns[l][c] \in Conn /\ conns[l][c].bytes \in Seq(Tokens)
<1>1. c \in DOMAIN conns[l] /\ c \in Nat
  BY SenderTypes
<1> QED
  BY <1>1, ConnTypes

\* The consumer thread on connection c of link l is now in state r.
NowReads(l, c, r) == reader' = [reader EXCEPT ![l] = [reader[l] EXCEPT ![c] = r]]

\* The types after a change at connection c of link l.
LEMMA StreamStepTypes ==
  ASSUME TypeOK, UNCHANGED <<raised, outq, emitted, sender>>,
         NEW l \in Links, NEW c \in DOMAIN conns[l],
         NEW n \in 0 .. Len(conns[l][c].bytes), Taken(l, c, n),
         NEW r \in Thread, NowReads(l, c, r),
         mainq' \in [Nodes -> Seq(QueuedEvent)], handed' \in [Nodes -> Seq(HandedOver)]
  PROVE  /\ TypeOK' /\ reader'[l][c] = r
         /\ \A m \in Links : \A d \in DOMAIN reader[m] : (m # l \/ d # c) => reader'[m][d] = reader[m][d]
<1>1. /\ conns' \in [Links -> Seq(Conn)]
      /\ \A m \in Links : Len(conns'[m]) = Len(conns[m])
  BY TakenTokens
<1>2. c \in DOMAIN reader[l] /\ reader \in [Links -> Seq(Thread)]
  BY ConnTypes DEF TypeOK, Thread
<1>3. /\ reader' \in [Links -> Seq(Thread)]
      /\ \A m \in Links : Len(reader'[m]) = Len(reader[m])
      /\ reader'[l][c] = r
      /\ \A m \in Links : \A d \in DOMAIN reader[m] : (m # l \/ d # c) => reader'[m][d] = reader[m][d]
  BY <1>2, OneChanges DEF NowReads
<1>4. \A m \in Links : sender'[m].conn <= Len(conns'[m]) /\ Len(reader'[m]) = Len(conns'[m])
  BY <1>1, <1>3 DEF TypeOK
<1>5. TypeOK'
  BY <1>1, <1>3, <1>4 DEF TypeOK, Conn, Thread, QueuedEvent, HandedOver
<1> QED
  BY <1>3, <1>5

LEMMA SameReader ==
  ASSUME TypeOK, NEW l \in Links, NEW c \in DOMAIN conns[l], UNCHANGED reader
  PROVE  NowReads(l, c, reader[l][c])
BY DEF TypeOK, NowReads

LEMMA ResetKeeps ==
  ASSUME MaxEvents \in [Nodes -> Nat], QueueInv, LinkInv, NEW l \in Links, NEW c, Reset(l, c)
  PROVE  QueueInv' /\ LinkInv'
<1> DEFINE b == conns[l][c].bytes
           v == [bytes |-> <<>>, end |-> "reset"]
<1>0. TypeOK /\ UNCHANGED <<raised, mainq, outq, emitted, sender, reader, handed>> /\ c \in DOMAIN conns[l]
  BY DEF QueueInv, Reset
<1>1. conns[l][c] \in Conn /\ b \in Seq(Tokens) /\ reader[l][c] \in Thread
  BY <1>0, ConnTypes
<1>2. Taken(l, c, Len(b)) /\ Len(b) \in 0 .. Len(b)
  <2>1. v \in Conn /\ v.bytes = <<>> /\ v.end = "reset"
    BY DEF Conn
  <2>2. conns' = [conns EXCEPT ![l] = [conns[l] EXCEPT ![c] = v]]
    BY DEF Reset
  <2> HIDE DEF v, b
  <2>3. Len(b) \in 0 .. Len(b) /\ SubSeq(b, Len(b) + 1, Len(b)) = <<>>
    <3>1. Len(b) \in Nat /\ Len(b) \in 0 .. Len(b)
      BY <1>1
    <3>2. SubSeq(b, Len(b) + 1, Len(b)) \in Seq(Tokens) /\ Len(SubSeq(b, Len(b) + 1, Len(b))) = Len(b) - Len(b)
      BY <1>1, <3>1, Rest
    <3>3. Len(b) - Len(b) = 0
      BY <3>1
    <3> QED
      BY <3>1, <3>2, <3>3
  <2> QED
    BY <2>1, <2>2, <2>3 DEF Taken, b
<1>3. conns'[l][c].end = "reset" /\ conns'[l][c].bytes = <<>>
  BY <1>0 DEF Reset, TypeOK
<1>4. /\ TypeOK'
      /\ \A m \in Links : \A d \in DOMAIN reader[m] : (m # l \/ d # c) => reader'[m][d] = reader[m][d]
  <2>1. NowReads(l, c, reader[l][c])
    BY <1>0, SameReader
  <2>2. mainq' \in [Nodes -> Seq(QueuedEvent)] /\ handed' \in [Nodes -> Seq(HandedOver)]
    BY <1>0 DEF TypeOK, QueuedEvent, HandedOver
  <2> HIDE DEF b
  <2>3. Taken(l, c, Len(b)) /\ Len(b) \in 0 .. Len(conns[l][c].bytes)
    BY <1>2 DEF b
  <2> QED
    BY <1>0, <1>1, <2>1, <2>2, <2>3, StreamStepTypes
<1>5. Framed(conns'[l][c].bytes, reader'[l][c]) /\ conns'[l][c].end # "open"
  BY <1>3 DEF Framed
<1>6. reader'[l][c].at \in {"body", "astray"} =>
        reader'[l][c].ev # <<>> /\ reader'[l][c].ev[1] \in ToSet(emitted[l])
  BY <1>0 DEF LinkInv, OnlyEmittedArrive
<1>7. /\ SendersHoldTheNext' /\ StreamsAreFramed' /\ WrittenOnce'
      /\ \A h : h.link \in Links /\ Gone(h) => Gone(h)'
      /\ (\A k \in Nodes : \A i \in DOMAIN handed'[k] :
            LET h == handed'[k][i] IN h.link[2] = k /\ h.event \in ToSet(emitted'[h.link]))
         => OnlyEmittedArrive'
  BY <1>0, <1>2, <1>4, <1>5, <1>6, StreamStepKeeps
<1>8. /\ ReadIsGone' /\ ReadOnce' /\ OnlyEmittedArrive'
  BY <1>0, <1>7, SilentStepKeeps
<1> QED
  BY <1>0, <1>4, <1>7, <1>8, UnchangedQueues DEF LinkInv

LEMMA ReadHeaderKeeps ==
  ASSUME MaxEvents \in [Nodes -> Nat], QueueInv, LinkInv, NEW l \in Links, NEW c,
         NEW n \in 1 .. 2, ReadHeader(l, c, n)
  PROVE  QueueInv' /\ LinkInv'
<1> DEFINE b == conns[l][c].bytes
           e == b[1].ev
           r == [at |-> IF n = 2 THEN "body" ELSE "astray", ev |-> <<Head(conns[l][c].bytes).ev>>]
<1>0. /\ TypeOK /\ OnlyEmittedArrive /\ StreamsAreFramed
      /\ UNCHANGED <<raised, mainq, outq, emitted, sender, handed>>
      /\ c \in DOMAIN reader[l] /\ reader[l][c].at = "header"
  BY DEF QueueInv, LinkInv, ReadHeader
<1>1. /\ c \in DOMAIN conns[l] /\ reader[l][c] \in Thread
      /\ conns[l][c] \in Conn /\ b \in Seq(Tokens)
  BY <1>0, ReaderTypes
<1>2. n <= Len(b) /\ conns' = Take(l, c, n) /\ NowReads(l, c, r)
  BY DEF ReadHeader, NowReads
<1>3. /\ n \in 0 .. Len(b) /\ 1 \in DOMAIN b /\ b[1] \in Tokens /\ Head(b) = b[1]
      /\ n = 2 => Len(b) >= 2
  <2> HIDE DEF b
  <2>1. Len(b) \in Nat /\ DOMAIN b = 1 .. Len(b) /\ Len(b) >= 1
    BY <1>1, <1>2
  <2>2. n \in 0 .. Len(b) /\ 1 \in DOMAIN b
    BY <1>2, <2>1
  <2> QED
    BY <1>1, <1>2, <2>1, <2>2
<1>4. e \in Events /\ e \in ToSet(emitted[l])
  BY <1>0, <1>1, <1>3 DEF OnlyEmittedArrive, Tokens
<1>5. /\ r \in Thread /\ r.ev # <<>> /\ r.ev[1] = e
      /\ r.at = IF n = 2 THEN "body" ELSE "astray"
      /\ n = 2 => r = [at |-> "body", ev |-> <<b[1].ev>>]
  <2>1. r = [at |-> IF n = 2 THEN "body" ELSE "astray", ev |-> <<e>>]
    BY <1>3
  <2>2. <<e>> \in Seq(Events) /\ <<e>> # <<>> /\ <<e>>[1] = e
    BY <1>4
  <2> HIDE DEF r
  <2>3. r \in Thread
    BY <2>1, <2>2 DEF Thread
  <2> QED
    BY <2>1, <2>2, <2>3
<1> HIDE DEF r, e
<1>6. Taken(l, c, n)
  BY <1>0, <1>1, <1>2, <1>3, TakeTakes
<1>7. /\ TypeOK' /\ reader'[l][c] = r
      /\ \A m \in Links : \A d \in DOMAIN reader[m] : (m # l \/ d # c) => reader'[m][d] = reader[m][d]
  <2>1. mainq' \in [Nodes -> Seq(QueuedEvent)] /\ handed' \in [Nodes -> Seq(HandedOver)]
    BY <1>0 DEF TypeOK, QueuedEvent, HandedOver
  <2>2. n \in 0 .. Len(conns[l][c].bytes)
    BY <1>3
  <2>3. r \in Thread /\ NowReads(l, c, r)
    BY <1>2, <1>5
  <2>4. TypeOK /\ UNCHANGED <<raised, outq, emitted, sender>> /\ c \in DOMAIN conns[l]
    BY <1>0, <1>1
  <2> QED
    BY ONLY l \in Links, <1>6, <2>1, <2>2, <2>3, <2>4, StreamStepTypes
<1>8. r.at \in {"header", "body"} =>
        /\ Framed(conns'[l][c].bytes, r)
        /\ \A s : EndsWhere(b, reader[l][c], s) => EndsWhere(conns'[l][c].bytes, r, s)
  <2> SUFFICES ASSUME n = 2
               PROVE  /\ Framed(conns'[l][c].bytes, r)
                      /\ \A s : EndsWhere(b, reader[l][c], s) => EndsWhere(conns'[l][c].bytes, r, s)
    BY <1>5
  <2>1. conns'[l][c].bytes = SubSeq(b, n + 1, Len(b)) /\ n + 1 = 3
    <3>1. n \in 0 .. Len(conns[l][c].bytes)
      BY <1>3
    <3>2. conns'[l][c].bytes = SubSeq(b, n + 1, Len(b))
      BY <1>0, <1>1, <1>6, <3>1, TakenTokens
    <3> QED
      BY <3>2
  <2>2. Framed(b, reader[l][c])
    BY <1>0, <1>1 DEF StreamsAreFramed, InStep
  <2> HIDE DEF b
  <2> QED
    BY <1>0, <1>1, <1>3, <1>5, <2>1, <2>2, HeaderFrames
<1>9. /\ SendersHoldTheNext' /\ StreamsAreFramed' /\ WrittenOnce'
      /\ \A h : h.link \in Links /\ Gone(h) => Gone(h)'
      /\ (\A k \in Nodes : \A i \in DOMAIN handed'[k] :
            LET h == handed'[k][i] IN h.link[2] = k /\ h.event \in ToSet(emitted'[h.link]))
         => OnlyEmittedArrive'
  BY <1>0, <1>1, <1>3, <1>4, <1>5, <1>6, <1>7, <1>8, StreamStepKeeps
<1>10. /\ ReadIsGone' /\ ReadOnce' /\ OnlyEmittedArrive'
  BY <1>0, <1>9, SilentStepKeeps
<1> QED
  BY <1>0, <1>7, <1>9, <1>10, UnchangedQueues DEF LinkInv

\* A thread that is astray, or whose recv fails, hands over an incomplete
\* event or none.
LEMMA IncompleteStepKeeps ==
  ASSUME MaxEvents \in [Nodes -> Nat], QueueInv, LinkInv, NEW l \in Links, NEW c \in DOMAIN conns[l],
         UNCHANGED <<raised, outq, emitted, sender>>,
         NEW n \in 0 .. Len(conns[l][c].bytes), Taken(l, c, n),
         NEW r \in Thread, NowReads(l, c, r),
         r.ev = reader[l][c].ev,
         r.at \in {"body", "astray"} => r.at = reader[l][c].at,
         r.at \in {"header", "body"} => conns'[l][c].bytes = <<>> /\ conns'[l][c].end # "open",
         \/ reader[l][c].at \in {"body", "astray"} /\ HandOver(l, reader[l][c].ev[1], FALSE, c)
         \/ UNCHANGED <<mainq, handed>>
  PROVE  QueueInv' /\ LinkInv'
<1> DEFINE e == reader[l][c].ev[1]
<1>0. TypeOK /\ OnlyEmittedArrive
  BY DEF QueueInv, LinkInv
<1>1. reader[l][c] \in Thread /\ c \in Nat
  BY <1>0, ConnTypes, SenderTypes
<1>2. reader[l][c].at \in {"body", "astray"} =>
        reader[l][c].ev # <<>> /\ e \in ToSet(emitted[l]) /\ e \in Events
  <2>1. reader[l][c].at \in {"body", "astray"} => reader[l][c].ev # <<>> /\ e \in ToSet(emitted[l])
    BY <1>0 DEF OnlyEmittedArrive
  <2>2. \A x \in ToSet(emitted[l]) : x \in Events
    BY <1>0 DEF TypeOK, ToSet
  <2> QED
    BY <2>1, <2>2
<1>3. mainq' \in [Nodes -> Seq(QueuedEvent)] /\ handed' \in [Nodes -> Seq(HandedOver)]
  <2>1. CASE UNCHANGED <<mainq, handed>>
    BY <1>0, <2>1 DEF TypeOK, QueuedEvent, HandedOver
  <2>2. CASE reader[l][c].at \in {"body", "astray"} /\ HandOver(l, e, FALSE, c)
    BY <1>0, <1>1, <1>2, <2>2, HandOverAppends
  <2> QED
    BY <2>1, <2>2
<1>4. /\ TypeOK' /\ reader'[l][c] = r
      /\ \A m \in Links : \A d \in DOMAIN reader[m] : (m # l \/ d # c) => reader'[m][d] = reader[m][d]
  BY <1>0, <1>3, StreamStepTypes
<1>5. r.at \in {"header", "body"} =>
        Framed(conns'[l][c].bytes, r) /\ conns'[l][c].end # "open"
  BY DEF Framed
<1>6. r.at \in {"body", "astray"} => r.ev # <<>> /\ r.ev[1] \in ToSet(emitted[l])
  BY <1>2
<1>7. /\ SendersHoldTheNext' /\ StreamsAreFramed' /\ WrittenOnce'
      /\ \A h : h.link \in Links /\ Gone(h) => Gone(h)'
      /\ (\A k \in Nodes : \A i \in DOMAIN handed'[k] :
            LET h == handed'[k][i] IN h.link[2] = k /\ h.event \in ToSet(emitted'[h.link]))
         => OnlyEmittedArrive'
  BY <1>0, <1>4, <1>5, <1>6, StreamStepKeeps
<1>8. CASE UNCHANGED <<mainq, handed>>
  <2>1. ReadIsGone' /\ ReadOnce' /\ OnlyEmittedArrive'
    BY <1>0, <1>7, <1>8, SilentStepKeeps
  <2> QED
    BY <1>4, <1>7, <1>8, <2>1, UnchangedQueues DEF LinkInv
<1>9. CASE reader[l][c].at \in {"body", "astray"} /\ HandOver(l, e, FALSE, c)
  <2> HIDE DEF e
  <2>1. e \in ToSet(emitted[l]) /\ e \in Events /\ HandOver(l, e, FALSE, c)
    BY <1>2, <1>9
  <2>2. ReadIsGone' /\ ReadOnce' /\ OnlyEmittedArrive'
    BY <1>0, <1>1, <1>7, <2>1, HandOverKeepsHanded
  <2>3. QueueInv'
    BY <1>1, <1>4, <2>1, HandOverKeepsQueues
  <2> QED
    BY <1>7, <2>2, <2>3 DEF LinkInv
<1> QED
  BY <1>8, <1>9

LEMMA ReadAstrayKeeps ==
  ASSUME MaxEvents \in [Nodes -> Nat], QueueInv, LinkInv, NEW l \in Links, NEW c, ReadAstray(l, c)
  PROVE  QueueInv' /\ LinkInv'
<1>0. /\ TypeOK /\ UNCHANGED <<raised, outq, emitted, sender, reader>>
      /\ c \in DOMAIN reader[l] /\ reader[l][c].at = "astray"
      /\ HandOver(l, reader[l][c].ev[1], FALSE, c) \/ UNCHANGED <<mainq, handed>>
  BY DEF QueueInv, ReadAstray
<1>1. /\ c \in DOMAIN conns[l] /\ reader[l][c] \in Thread /\ conns[l][c].bytes \in Seq(Tokens)
  BY <1>0, ReaderTypes
<1>2. PICK n \in 1 .. Len(conns[l][c].bytes) : conns' = Take(l, c, n)
  BY DEF ReadAstray
<1>3. n \in 0 .. Len(conns[l][c].bytes)
  BY <1>1
<1>4. Taken(l, c, n)
  BY <1>0, <1>1, <1>2, <1>3, TakeTakes
<1>5. NowReads(l, c, reader[l][c])
  BY <1>0, <1>1, SameReader
<1> QED
  BY <1>0, <1>1, <1>3, <1>4, <1>5, IncompleteStepKeeps

LEMMA ReadFailsKeeps ==
  ASSUME MaxEvents \in [Nodes -> Nat], QueueInv, LinkInv, NEW l \in Links, NEW c, ReadFails(l, c)
  PROVE  QueueInv' /\ LinkInv'
<1> DEFINE wraps == reader[l][c].at = "body" /\ conns[l][c].end = "reset"
           to == IF wraps THEN "header" ELSE "ended"
           r == [reader[l][c] EXCEPT !.at = to]
<1>0. /\ TypeOK /\ UNCHANGED <<raised, outq, emitted, sender, conns>>
      /\ c \in DOMAIN reader[l] /\ conns[l][c].bytes = <<>> /\ conns[l][c].end # "open"
      /\ NowReads(l, c, r)
      /\ IF wraps THEN HandOver(l, reader[l][c].ev[1], FALSE, c) ELSE UNCHANGED <<mainq, handed>>
  BY DEF QueueInv, ReadFails, NowReads
<1>1. c \in DOMAIN conns[l] /\ reader[l][c] \in Thread
  BY <1>0, ReaderTypes
<1>2. r \in Thread /\ r.ev = reader[l][c].ev /\ r.at = to
  BY <1>1 DEF Thread
<1>3. Taken(l, c, 0) /\ 0 \in 0 .. Len(conns[l][c].bytes)
  BY <1>0, <1>1, NothingTaken
<1>4. conns'[l][c].bytes = <<>> /\ conns'[l][c].end # "open"
  BY <1>0
<1>5. r.at \notin {"body", "astray"}
  BY <1>2
<1>6. \/ reader[l][c].at \in {"body", "astray"} /\ HandOver(l, reader[l][c].ev[1], FALSE, c)
      \/ UNCHANGED <<mainq, handed>>
  BY <1>0
<1> HIDE DEF r
<1> QED
  BY <1>0, <1>1, <1>2, <1>3, <1>4, <1>5, <1>6, IncompleteStepKeeps

\* The event whose body is read next: it is complete, and no other stream
\* ends it.
LEMMA ReadEventIsGone ==
  ASSUME MaxEvents \in [Nodes -> Nat], TypeOK, ForwardedOnce, LinkInv, UNCHANGED <<outq, emitted, sender>>,
         NEW l \in Links, NEW c \in DOMAIN conns[l], conns[l][c].bytes # <<>>,
         Taken(l, c, 1), NEW e, conns[l][c].bytes[1].part = 3, conns[l][c].bytes[1].ev = e
  PROVE  /\ \A h : (h.event = e /\ h.link = l /\ h.conn = c) => Gone(h)'
         /\ \A i \in DOMAIN handed[l[2]] :
              handed[l[2]][i].whole =>
                /\ handed[l[2]][i].event # e
                /\ (handed[l[2]][i].link = l /\ handed[l[2]][i].conn = c)
                     => Position(l, handed[l[2]][i].event) < Position(l, e)
<1> DEFINE b == conns[l][c].bytes
<1>0. WrittenOnce /\ ReadIsGone /\ OnlyEmittedArrive
  BY DEF LinkInv
<1>1. b \in Seq(Tokens) /\ b # <<>>
  BY ConnTypes
<1>2. 1 \in Ends(b) /\ 1 \in 0 .. Len(b) /\ 1 \in DOMAIN b
  BY <1>1 DEF Ends
<1>3. e \in ToSet(emitted[l])
  BY <1>0, <1>2 DEF OnlyEmittedArrive
<1>4. Position(l, e) \in Nat /\ Position(l, e) <= Sent(l)
  <2>1. Position(l, e) \in Nat
    BY <1>3, PlaceIsNat DEF Position, TypeOK
  <2> QED
    BY <1>0, <1>2, <2>1 DEF WrittenOnce
<1>5. /\ \A m \in Links : DOMAIN conns'[m] = DOMAIN conns[m]
      /\ conns'[l][c].bytes = SubSeq(b, 1 + 1, Len(b))
      /\ \A d \in DOMAIN conns[l] : d # c => conns'[l][d] = conns[l][d]
  BY <1>2, TakenTokens
<1>6. ASSUME NEW d \in DOMAIN conns[l], NEW i \in Ends(conns'[l][d].bytes)
      PROVE  LET f == conns'[l][d].bytes[i].ev IN
             e # f /\ (d = c => Position(l, e) < Position(l, f))
  <2>1. CASE d # c
    BY <1>0, <1>2, <1>5, <2>1 DEF WrittenOnce
  <2>2. CASE d = c
    <3>1. i \in 1 .. Len(b) - 1 /\ conns'[l][c].bytes[i] = b[i + 1] /\ b[i + 1].part = 3
      <4> DEFINE z == SubSeq(b, 1 + 1, Len(b))
      <4>1. /\ DOMAIN z = 1 .. Len(b) - 1 /\ \A x \in 1 .. Len(b) - 1 : z[x] = b[x + 1]
        BY <1>1, <1>2, Rest
      <4>2. i \in DOMAIN z /\ z[i].part = 3 /\ conns'[l][c].bytes = z
        BY <1>5, <2>2 DEF Ends
      <4> HIDE DEF z
      <4> QED
        BY <4>1, <4>2
    <3>2. i + 1 \in Ends(b) /\ 1 < i + 1
      <4>1. Len(b) \in Nat /\ DOMAIN b = 1 .. Len(b)
        BY <1>1
      <4> QED
        BY <3>1, <4>1 DEF Ends
    <3>3. Position(l, e) < Position(l, b[i + 1].ev)
      BY <1>0, <1>2, <3>2 DEF WrittenOnce
    <3>4. e # b[i + 1].ev
      BY <1>4, <3>3
    <3> QED
      BY <2>2, <3>1, <3>3, <3>4
  <2> QED
    BY <2>1, <2>2
<1>7. ASSUME NEW h, h.event = e, h.link = l, h.conn = c
      PROVE  Gone(h)'
  <2>1. \A x : Position(l, x)' = Position(l, x)
    BY DEF Position
  <2>2. (Sent(l))' = Sent(l)
    BY DEF Sent, Popped
  <2> QED
    BY <1>4, <1>5, <1>6, <1>7, <2>1, <2>2 DEF Gone
<1>8. ASSUME NEW i \in DOMAIN handed[l[2]], handed[l[2]][i].whole
      PROVE  LET g == handed[l[2]][i] IN
             g.event # e /\ ((g.link = l /\ g.conn = c) => Position(l, g.event) < Position(l, e))
  <2> DEFINE g == handed[l[2]][i]
  <2>1. l[2] \in Nodes /\ l[1] \in Nodes
    BY LinkTypes
  <2>2. g.link \in Links /\ g.link[2] = l[2] /\ g.event \in ToSet(emitted[g.link])
    BY <1>0, <2>1, HandedTypes DEF OnlyEmittedArrive
  <2>3. Gone(g)
    BY <1>0, <1>8, <2>1 DEF ReadIsGone
  <2> HIDE DEF g
  <2>4. g.link = l => g.event # e /\ (g.conn = c => Position(l, g.event) < Position(l, e))
    BY <1>2, <2>3 DEF Gone
  <2>5. ASSUME g.link # l PROVE g.event # e
    <3>1. g.link[1] # l[1]
      BY <2>2, <2>5 DEF Links
    <3>2. g.event.node = g.link[1] /\ e.node = l[1]
      BY <1>3, <2>2 DEF ForwardedOnce, ToSet
    <3> QED
      BY <2>5, <3>1, <3>2
  <2> QED
    BY <2>4, <2>5 DEF g
<1> QED
  BY <1>7, <1>8

LEMMA ReadBodyKeeps ==
  ASSUME MaxEvents \in [Nodes -> Nat], QueueInv, LinkInv, NEW l \in Links, NEW c, ReadBody(l, c)
  PROVE  QueueInv' /\ LinkInv'
<1> SUFFICES ASSUME NEW e, e = reader[l][c].ev[1]
             PROVE  QueueInv' /\ LinkInv'
  OBVIOUS
<1> DEFINE b == conns[l][c].bytes
           r == [reader[l][c] EXCEPT !.at = "header"]
<1>0. /\ TypeOK /\ ForwardedOnce /\ OnlyEmittedArrive /\ StreamsAreFramed
      /\ UNCHANGED <<raised, outq, emitted, sender>>
      /\ c \in DOMAIN reader[l] /\ reader[l][c].at = "body" /\ b # <<>>
      /\ conns' = Take(l, c, 1) /\ NowReads(l, c, r) /\ HandOver(l, e, TRUE, c)
  BY DEF QueueInv, LinkInv, ReadBody, NowReads
<1>1. c \in DOMAIN conns[l] /\ c \in Nat /\ reader[l][c] \in Thread /\ b \in Seq(Tokens)
  BY <1>0, ReaderTypes
<1>2. r \in Thread /\ r.at = "header"
  BY <1>1 DEF Thread
<1>3. 1 \in 0 .. Len(conns[l][c].bytes)
  BY <1>0, <1>1
<1>4. Taken(l, c, 1)
  BY <1>0, <1>1, <1>3, TakeTakes
<1>5. e \in ToSet(emitted[l]) /\ e \in Events
  <2>1. e \in ToSet(emitted[l])
    BY <1>0, <1>1 DEF OnlyEmittedArrive
  <2>2. \A x \in ToSet(emitted[l]) : x \in Events
    BY <1>0 DEF TypeOK, ToSet
  <2> QED
    BY <2>1, <2>2
<1>6. /\ b[1].part = 3 /\ b[1].ev = e
      /\ Framed(conns'[l][c].bytes, r)
      /\ \A s : EndsWhere(b, reader[l][c], s) => EndsWhere(conns'[l][c].bytes, r, s)
  <2>0. conns'[l][c].bytes = SubSeq(b, 1 + 1, Len(b))
    BY <1>0, <1>1, <1>3, <1>4, TakenTokens
  <2>1. conns'[l][c].bytes = SubSeq(b, 2, Len(b))
    BY <2>0
  <2>2. Framed(b, reader[l][c])
    BY <1>0, <1>1 DEF StreamsAreFramed, InStep
  <2> HIDE DEF b
  <2> QED
    BY <1>0, <1>1, <1>2, <2>1, <2>2, BodyFrames
<1> HIDE DEF r
<1>7. /\ TypeOK' /\ reader'[l][c] = r
      /\ \A m \in Links : \A d \in DOMAIN reader[m] : (m # l \/ d # c) => reader'[m][d] = reader[m][d]
  <2>1. mainq' \in [Nodes -> Seq(QueuedEvent)] /\ handed' \in [Nodes -> Seq(HandedOver)]
    BY <1>0, <1>1, <1>5, HandOverAppends
  <2> QED
    BY <1>0, <1>1, <1>2, <1>3, <1>4, <2>1, StreamStepTypes
<1>8. /\ SendersHoldTheNext' /\ StreamsAreFramed' /\ WrittenOnce'
      /\ \A g : g.link \in Links /\ Gone(g) => Gone(g)'
      /\ (\A k \in Nodes : \A i \in DOMAIN handed'[k] :
            LET g == handed'[k][i] IN g.link[2] = k /\ g.event \in ToSet(emitted'[g.link]))
         => OnlyEmittedArrive'
  BY <1>0, <1>1, <1>2, <1>3, <1>4, <1>6, <1>7, StreamStepKeeps
<1>9. /\ \A h : (h.event = e /\ h.link = l /\ h.conn = c) => Gone(h)'
      /\ \A i \in DOMAIN handed[l[2]] :
           handed[l[2]][i].whole =>
             /\ handed[l[2]][i].event # e
             /\ (handed[l[2]][i].link = l /\ handed[l[2]][i].conn = c)
                  => Position(l, handed[l[2]][i].event) < Position(l, e)
  BY <1>0, <1>1, <1>4, <1>6, ReadEventIsGone
<1>10. ReadIsGone' /\ ReadOnce' /\ OnlyEmittedArrive'
  BY <1>0, <1>1, <1>5, <1>8, <1>9, HandOverKeepsHanded
<1>11. QueueInv'
  BY <1>0, <1>1, <1>5, <1>7, HandOverKeepsQueues
<1> QED
  BY <1>8, <1>10, <1>11 DEF LinkInv

-----------------------------------------------------------------------------
(* The theorem.                                                            *)

LEMMA InitIsSound ==
  ASSUME MaxEvents \in [Nodes -> Nat], Init
  PROVE  QueueInv /\ LinkInv
<1>0. /\ raised = [n \in Nodes |-> 0] /\ mainq = [n \in Nodes |-> <<>>]
      /\ outq = [l \in Links |-> <<>>] /\ emitted = [l \in Links |-> <<>>]
      /\ sender = [l \in Links |-> [ev |-> <<>>, conn |-> 0, at |-> "pop"]]
      /\ conns = [l \in Links |-> <<>>] /\ reader = [l \in Links |-> <<>>]
      /\ handed = [n \in Nodes |-> <<>>]
  BY DEF Init
<1>1. \A l \in Links : l[1] \in Nodes
  BY DEF Links
<1>2. TypeOK
  BY <1>0 DEF TypeOK
<1>3. UnsentAreNew /\ ForwardedOnce
  BY <1>0, <1>1 DEF UnsentAreNew, ForwardedOnce
<1>4. SendersHoldTheNext
  BY <1>0 DEF SendersHoldTheNext, Popped
<1>5. StreamsAreFramed /\ OnlyEmittedArrive
  BY <1>0 DEF StreamsAreFramed, OnlyEmittedArrive
<1>6. WrittenOnce /\ ReadIsGone /\ ReadOnce
  BY <1>0 DEF WrittenOnce, ReadIsGone, ReadOnce
<1> QED
  BY <1>2, <1>3, <1>4, <1>5, <1>6 DEF QueueInv, LinkInv

LEMMA NextKeeps ==
  ASSUME MaxEvents \in [Nodes -> Nat], QueueInv, LinkInv, [Next]_vars
  PROVE  QueueInv' /\ LinkInv'
<1>1. CASE UNCHANGED vars
  <2>1. UNCHANGED <<raised, mainq, outq, emitted, sender, conns, reader, handed>>
    BY <1>1 DEF vars
  <2>2. TypeOK'
    BY <2>1 DEF QueueInv, TypeOK
  <2> QED
    BY <2>1, <2>2, UnchangedQueues, UnchangedLinks DEF QueueInv
<1>2. ASSUME NEW n \in Nodes, NEW internal \in BOOLEAN, Raise(n, internal) PROVE QueueInv' /\ LinkInv'
  BY <1>2, RaiseKeeps
<1>3. ASSUME NEW n \in Nodes, Fetch(n) PROVE QueueInv' /\ LinkInv'
  BY <1>3, FetchKeeps
<1>4. ASSUME NEW l \in Links, SenderThread(l) PROVE QueueInv' /\ LinkInv'
  <2>1. CASE Pop(l)
    BY <2>1, PopKeeps
  <2>2. CASE Connect(l)
    BY <2>2, ConnectKeeps
  <2>3. CASE Write(l)
    BY <2>3, WriteKeeps
  <2>4. ASSUME NEW k \in 0 .. 2, WriteFails(l, k) PROVE QueueInv' /\ LinkInv'
    BY <2>4, WriteFailsKeeps
  <2> QED
    BY <1>4, <2>1, <2>2, <2>3, <2>4 DEF SenderThread
<1>5. ASSUME NEW l \in Links, NEW c, Reset(l, c) PROVE QueueInv' /\ LinkInv'
  BY <1>5, ResetKeeps
<1>6. ASSUME NEW l \in Links, NEW c, ConsumerThread(l, c) PROVE QueueInv' /\ LinkInv'
  <2>1. CASE ReadFails(l, c)
    BY <2>1, ReadFailsKeeps
  <2>2. CASE ReadAstray(l, c)
    BY <2>2, ReadAstrayKeeps
  <2>3. CASE ReadBody(l, c)
    BY <2>3, ReadBodyKeeps
  <2>4. ASSUME NEW n \in 1 .. 2, ReadHeader(l, c, n) PROVE QueueInv' /\ LinkInv'
    BY <2>4, ReadHeaderKeeps
  <2> QED
    BY <1>6, <2>1, <2>2, <2>3, <2>4 DEF ConsumerThread
<1> QED
  BY <1>1, <1>2, <1>3, <1>4, <1>5, <1>6 DEF Next

\* However many nodes, events and connections there are, and whatever the
\* network cuts or resets: every event is queued for each remote node exactly
\* once and never sent on, and no event is read completely twice, although a
\* failed write makes its sender write the whole event again.
THEOREM EventsAreOnce == Spec => []EventsAreSentOnce
<1>1. Init => QueueInv /\ LinkInv
  BY InitIsSound, MaxEventsAssumption
<1>2. (QueueInv /\ LinkInv) /\ [Next]_vars => (QueueInv /\ LinkInv)'
  BY NextKeeps, MaxEventsAssumption
<1>3. QueueInv /\ LinkInv => EventsAreSentOnce
  BY ParentParts
<1> QED
  BY <1>1, <1>2, <1>3, PTL DEF Spec
=============================================================================
