------------------------------- MODULE Arena --------------------------------
(***************************************************************************)
(* Arena<arena_count> (core/include/arena.hpp), the allocator of the       *)
(* messages that travel with an event.  Every arena is a list of pages     *)
(* headed by a page without storage; freed pages of all arenas share one   *)
(* list.  A page is named by a number, its list links are the functions    *)
(* next and prev, and a piece of memory is a page and an offset in it.     *)
(* The pages in use, the pointers and the counters are the code's; the     *)
(* variable `live' records what the callers hold.                          *)
(***************************************************************************)
EXTENDS Naturals, FiniteSets, Sequences, TLC

CONSTANTS Arenas,        \* the arena numbers, arena_count of them
          MaxPages,      \* bound: pages obtained from malloc
          Nil            \* the null pointer

VARIABLES next, prev,    \* the links of the page headers
          limit,         \* page -> bytes behind its header
          avail,         \* page -> bytes handed out
          counter,       \* page -> allocations not returned
          tails,         \* arenatails
          freeblocks,
          live           \* allocations held by callers: [arena, page, at, n]

arenaVars == <<next, prev, limit, avail, counter, tails, freeblocks, live>>

HeaderSize == 40

(* arenahds[a], the page without storage that heads the list of arena a. *)
Hd(a) == <<"hd", a>>
Pages == DOMAIN limit
Resized(n) == (n * 11) \div 10

ArenaState == [next |-> next, prev |-> prev, limit |-> limit, avail |-> avail,
               counter |-> counter, tails |-> tails, freeblocks |-> freeblocks]

ArenaBecomes(s) == /\ next' = s.next /\ prev' = s.prev /\ limit' = s.limit
                   /\ avail' = s.avail /\ counter' = s.counter
                   /\ tails' = s.tails /\ freeblocks' = s.freeblocks

ArenaInit == LET hds == {Hd(a) : a \in Arenas} IN
    /\ next = [p \in hds |-> Nil] /\ prev = [p \in hds |-> Nil]
    /\ limit = [p \in hds |-> 0] /\ avail = [p \in hds |-> 0]
    /\ counter = [p \in hds |-> 0]
    /\ tails = [a \in Arenas |-> Hd(a)]
    /\ freeblocks = Nil /\ live = {}

-----------------------------------------------------------------------------
(* allocate: the tail page serves the request; a tail that is too small is *)
(* followed by the first free page, whatever its size, or by a new page.   *)

Fits(s, a, n) == s.avail[s.tails[a]] + n <= s.limit[s.tails[a]]

TakeFree(s, a) ==
    LET t == s.tails[a]
        p == s.freeblocks
        rest == s.next[p]
    IN [s EXCEPT !.next = [@ EXCEPT ![t] = p, ![p] = Nil],
                 !.prev = [q \in DOMAIN @ |-> IF q = p THEN t
                                              ELSE IF q = rest THEN Nil ELSE @[q]],
                 !.freeblocks = rest, !.tails[a] = p,
                 !.avail[p] = 0, !.counter[p] = 0]

NewPage(s, a, n) ==
    LET t == s.tails[a]
        p == <<"page", Cardinality(DOMAIN s.limit)>>
    IN [s EXCEPT !.next = (p :> Nil) @@ [@ EXCEPT ![t] = p],
                 !.prev = (p :> t) @@ @, !.limit = (p :> Resized(n)) @@ @,
                 !.avail = (p :> 0) @@ @, !.counter = (p :> 0) @@ @,
                 !.tails[a] = p]

(* The loop ends at a page with room; every round takes one more page.     *)
RECURSIVE Room(_, _, _)
Room(s, a, n) == IF Fits(s, a, n) THEN s
                 ELSE IF s.freeblocks # Nil THEN Room(TakeFree(s, a), a, n)
                 ELSE Room(NewPage(s, a, n), a, n)

Block(s, a, n) == [arena |-> a, page |-> s.tails[a], at |-> s.avail[s.tails[a]], n |-> n]

Allocate(s, a, n) ==
    LET r == Room(s, a, n) IN
    [state |-> [r EXCEPT !.avail[r.tails[a]] = @ + n, !.counter[r.tails[a]] = @ + 1],
     block |-> Block(r, a, n)]

-----------------------------------------------------------------------------
(* free(page, arena): the page leaves its list and heads the free list.    *)

FreePageLinksOnly(s, p, a) ==
    LET n == s.next[p]
        b == s.prev[p]
    IN [s EXCEPT !.next = [q \in DOMAIN @ |-> IF q = p THEN s.freeblocks
                                              ELSE IF q = b THEN n ELSE @[q]],
                 !.prev = [q \in DOMAIN @ |-> IF q = p THEN Nil
                                              ELSE IF q = n THEN b
                                              ELSE IF q = s.freeblocks THEN p ELSE @[q]],
                 !.freeblocks = p]

FreePage(s, p, a) ==
    LET t == IF s.tails[a] = p THEN s.prev[p] ELSE s.tails[a]
    IN [FreePageLinksOnly(s, p, a) EXCEPT !.tails[a] = t]

(* One allocation of page p is returned (find_page has found p).           *)
Release(s, p, a) ==
    LET c == [s EXCEPT !.counter[p] = @ - 1]
    IN IF c.counter[p] = 0 THEN FreePage(c, p, a) ELSE c

Reallocate(s, b, n) ==
    LET r == Allocate(s, b.arena, n)
    IN [r EXCEPT !.state = Release(@, b.page, b.arena)]

(* free(arena): the whole list is put in front of the free list.           *)
FreeArenaState(s, a) ==
    LET first == s.next[Hd(a)]
        last == s.tails[a]
        old == s.freeblocks
    IN IF first = Nil THEN s
       ELSE [s EXCEPT !.freeblocks = first,
                      !.next = [@ EXCEPT ![last] = old, ![Hd(a)] = Nil],
                      !.prev = [q \in DOMAIN @ |->
                                  IF q \in {first, Hd(a)} THEN Nil
                                  ELSE IF q = old THEN last ELSE @[q]],
                      !.tails[a] = Hd(a)]

-----------------------------------------------------------------------------
(* The operations, one action each.                                        *)

MayGrow(s) == Cardinality(DOMAIN s.limit \ {Hd(a) : a \in Arenas}) <= MaxPages

DoAllocate(a, n) ==
    \E r \in {Allocate(ArenaState, a, n)} :
        /\ MayGrow(r.state) /\ ArenaBecomes(r.state)
        /\ live' = live \union {r.block}

DoReallocate(b, n) ==
    \E r \in {Reallocate(ArenaState, b, n)} :
        /\ MayGrow(r.state) /\ ArenaBecomes(r.state)
        /\ live' = (live \ {b}) \union {r.block}

DoFree(b) ==
    /\ ArenaBecomes(Release(ArenaState, b.page, b.arena))
    /\ live' = live \ {b}

DoFreeArena(a) ==
    /\ ArenaBecomes(FreeArenaState(ArenaState, a))
    /\ live' = {b \in live : b.arena # a}

(* Callers of a standalone arena ask for pieces of the given sizes and     *)
(* hold at most `held' of them (a bound).                                  *)
ArenaNext(sizes, held) ==
    \/ \E a \in Arenas, n \in sizes : Cardinality(live) < held /\ DoAllocate(a, n)
    \/ \E b \in live, n \in sizes : b.n <= n /\ DoReallocate(b, n)
    \/ \E b \in live : DoFree(b)
    \/ \E a \in Arenas : DoFreeArena(a)

-----------------------------------------------------------------------------
(* The pages of a list, in order, from its first page.                     *)
RECURSIVE Chain(_, _)
Chain(p, bound) == IF p = Nil \/ bound = 0 THEN <<>>
                   ELSE <<p>> \o Chain(next[p], bound - 1)

Seqs == [l \in Arenas \union {Nil} |->
           Chain(IF l = Nil THEN freeblocks ELSE Hd(l), Cardinality(Pages) + 1)]

InList(l) == {Seqs[l][i] : i \in DOMAIN Seqs[l]}

(* The page lists of the arenas and of the free blocks stay a partition of *)
(* the pages, linked in both directions, and the tail of an arena is the   *)
(* last page of its list: without that allocate would run for ever.        *)
ListsAreSound ==
    /\ \A l, m \in Arenas \union {Nil} : l # m => InList(l) \cap InList(m) = {}
    /\ UNION {InList(l) : l \in Arenas \union {Nil}} = Pages
    /\ \A l \in Arenas \union {Nil} :
         /\ Len(Seqs[l]) = Cardinality(InList(l))
         /\ \A i \in DOMAIN Seqs[l] :
              prev[Seqs[l][i]] = IF i = 1 THEN Nil ELSE Seqs[l][i - 1]
    /\ \A a \in Arenas : tails[a] = Seqs[a][Len(Seqs[a])]

(* What callers hold lies inside one page of their arena, no two pieces    *)
(* overlap, and a page counts exactly the pieces it holds, so that a page  *)
(* is given away only when nobody uses it.                                 *)
BlocksAreSafe ==
    /\ \A b \in live : /\ b.page \in InList(b.arena)
                       /\ b.at + b.n <= avail[b.page]
    /\ \A p \in Pages : avail[p] <= limit[p]
    /\ \A b, c \in live : b # c /\ b.page = c.page =>
                            b.at + b.n <= c.at \/ c.at + c.n <= b.at
    /\ \A a \in Arenas : \A p \in InList(a) :
         counter[p] = Cardinality({b \in live : b.page = p})
=============================================================================
