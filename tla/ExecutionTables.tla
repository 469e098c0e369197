--------------------------- MODULE ExecutionTables ---------------------------
(***************************************************************************)
(* compute_state_and_event_ids (buildsms.cpp): the machines that were      *)
(* built become the tables of the execution loop.  Every machine and every *)
(* state gets an index, those of covering machines the highest ones; every *)
(* transition becomes an entry in the block of the machine it leaves.      *)
(* The order in which the registry is visited is abstracted to the order   *)
(* of the heap.                                                            *)
(***************************************************************************)
EXTENDS MachineBuild

VARIABLES tables        \* <<>> or the tables of the loop

tvars == <<program, store, phase, todo, tables>>

(* traverse_sms visits every machine below a registered one once.          *)
SmsReached == UNION {Below(store, store.reg[q]) : q \in DOMAIN store.reg}
Heap == [m \in DOMAIN store.sm |-> m]
Visited(cover) == SelectSeq(Heap, LAMBDA m : m \in SmsReached /\ store.sm[m].cover = cover)
VisitOrder == Visited(FALSE) \o Visited(TRUE)

(* compute_state_ids_fn: an item is a machine <<m, Unnamed>> or a state.   *)
ItemsOf(m) ==
    FoldSet(LAMBDA s, items : Append(items, <<m, s>>), <<<<m, Unnamed>>>>, store.sm[m].states)
Items(ms) == FlattenSeq([i \in DOMAIN ms |-> ItemsOf(ms[i])])
Indexed(items) == [x \in ToSet(items) |-> CHOOSE i \in DOMAIN items : items[i] = x]

(* The index of an end of a transition of x, 0 when none was assigned.  A  *)
(* source is searched by its name in x.  The target of a moved transition  *)
(* is searched by its name in the machine it was written in, any other     *)
(* target in its own machine; if x has a state of that name too and visits *)
(* it last, that state takes its place.                                    *)
At(idx, m, id) == IF <<m, id>> \in DOMAIN idx THEN idx[<<m, id>>] ELSE 0
FromIndex(idx, x, t) == IF t.from.k = "sm" THEN At(idx, t.from.sm, Unnamed)
                        ELSE At(idx, x, t.from.id)

ToIndex(idx, x, t, last) ==
    IF store.sm[x].states = {} THEN 0
    ELSE IF t.to.k = "sm" THEN At(idx, t.to.sm, Unnamed)
    ELSE IF t.orig \notin {Null, x} THEN At(idx, t.orig, t.to.id)
    ELSE IF last /\ <<x, t.to.id>> \in DOMAIN idx THEN idx[<<x, t.to.id>>]
    ELSE At(idx, t.to.sm, t.to.id)

(* insert_transitions: the transitions that leave machine m as a whole,    *)
(* from the machines that hold them, then those of its states.             *)
Entry(idx, x, m, i, last) ==
    LET t == store.sm[x].trans[i]
    IN [smp |-> idx[<<m, Unnamed>>], from |-> FromIndex(idx, x, t),
        to |-> ToIndex(idx, x, t, last), of |-> <<x, i>>]

EntriesOf(idx, x, m, last) ==
    LET chosen == SelectSeq([i \in DOMAIN store.sm[x].trans |-> i],
                    LAMBDA i : LET f == store.sm[x].trans[i].from
                               IN IF x = m THEN f.k # "sm" ELSE f.k = "sm" /\ f.sm = m)
    IN [j \in DOMAIN chosen |-> Entry(idx, x, m, chosen[j], last)]

BlockWithoutForeign(idx, m, last) ==
    <<[smp |-> idx[<<m, Unnamed>>], from |-> 0, to |-> 0, of |-> <<m, 0>>]>>
    \o EntriesOf(idx, m, m, last)

Block(idx, m, last) ==
    LET others == SelectSeq(Heap, LAMBDA x : x \in SmsReached \ {m})
    IN <<[smp |-> idx[<<m, Unnamed>>], from |-> 0, to |-> 0, of |-> <<m, 0>>]>>
       \o FlattenSeq([j \in DOMAIN others |-> EntriesOf(idx, others[j], m, last)])
       \o EntriesOf(idx, m, m, last)

(* state_to_first_transition: a machine's is the head of its block.        *)
First(table, n) ==
    LET is == {i \in DOMAIN table : n = table[i].from \/ (table[i].from = 0 /\ n = table[i].smp)}
    IN IF is = {} THEN 0 ELSE CHOOSE i \in is : \A j \in is : i <= j

(* Parents, joins and shadows.                                             *)
ParentOf(idx, n) ==
    LET m == {x \in DOMAIN idx : idx[x] = n}
        up == {x \in SmsReached : \E y \in m : \/ y[2] # Unnamed /\ y[1] = x
                                               \/ y[2] = Unnamed /\ y[1] \in ToSet(store.sm[x].children)}
    IN IF up = {} THEN 0 ELSE idx[<<CHOOSE x \in up : TRUE, Unnamed>>]

JoinOf(idx, m) == IF store.sm[m].join = NoEnd THEN 0 ELSE At(idx, m, store.sm[m].join.id)

(* children: the states of a machine, then its machines.                   *)
ChildrenOf(idx, m) ==
    Tail([i \in DOMAIN ItemsOf(m) |-> idx[ItemsOf(m)[i]]])
    \o [i \in DOMAIN store.sm[m].children |-> idx[<<store.sm[m].children[i], Unnamed>>]]

(* root_sms: the outermost machine, found through the parents' indices.    *)
RECURSIVE RootOf(_, _)
RootOf(parent, n) == IF parent[n] = 0 THEN n ELSE RootOf(parent, parent[n])

ShadowOf(idx, x) ==
    LET s == store.sm[x[1]]
    IN IF x[2] # Unnamed
       THEN IF x[2] \in DOMAIN s.shadow THEN At(idx, s.shadow[x[2]], x[2]) ELSE 0
       ELSE IF s.self # Null THEN At(idx, s.self, s.id) ELSE 0

Tables(last) ==
    LET idx == Indexed(Items(VisitOrder))
        table == FlattenSeq([i \in DOMAIN VisitOrder |-> Block(idx, VisitOrder[i], last)])
        parent == [n \in 1..Cardinality(DOMAIN idx) |-> ParentOf(idx, n)]
    IN [idx |-> idx, trans |-> table, parent |-> parent,
        root |-> [i \in DOMAIN table |-> RootOf(parent, table[i].smp)],
        children |-> [m \in SmsReached |-> ChildrenOf(idx, m)],
        first |-> [n \in 1..Cardinality(DOMAIN idx) |-> First(table, n)],
        join |-> [m \in SmsReached |-> JoinOf(idx, m)],
        shadow |-> [x \in DOMAIN idx |-> ShadowOf(idx, x)],
        covering |-> Len(Items(Visited(FALSE))) + 1]

(* An entry without source or target fails an assert.                      *)
BuildTables ==
    /\ phase = "done" /\ ~store.bad /\ tables = <<>>
    /\ \E last \in BOOLEAN : \E t \in {Tables(last)} :
         /\ tables' = t
         /\ store' = [store EXCEPT !.bad = \E i \in DOMAIN t.trans :
                        t.trans[i].of[2] # 0 /\ 0 \in {t.trans[i].from, t.trans[i].to}]
    /\ UNCHANGED <<program, phase, todo>>

TInit == Init /\ tables = <<>>
TNext == \/ Next /\ UNCHANGED tables
         \/ BuildTables
TSpec == TInit /\ [][TNext]_tvars

-----------------------------------------------------------------------------
Ready == phase = "done" /\ ~store.bad /\ tables # <<>>
Meant(e) == At(tables.idx, e.sm, IF e.k = "sm" THEN Unnamed ELSE e.id)

(* A target that the search by name can miss: that of a moved transition   *)
(* which is not a state of the machine it was written in, and that of one  *)
(* into another machine whose name is a state here as well.                *)
Mistaken(x, t) ==
    /\ t.to.k = "state"
    /\ \/ t.orig \notin {Null, x} /\ t.to.sm # t.orig
       \/ t.to.sm # x /\ t.to.id \in store.sm[x].states
Selfish(x, t) == t.from.k = "sm" /\ t.from.sm = x

(* A sound program fails no assert of the build, and of any program that   *)
(* reaches the loop, the loop finds every transition exactly once, in the  *)
(* block of the machine it leaves, behind the first entry of its source,   *)
(* with the indices of the very states and machines its ends name and the  *)
(* root of both; children and parents are each other's inverse.            *)
TablesAreRight ==
    /\ program.sound => ~store.bad
    /\ Ready =>
      /\ \A x \in SmsReached : \A i \in DOMAIN store.sm[x].trans :
           LET t == store.sm[x].trans[i]
               es == {e \in DOMAIN tables.trans : tables.trans[e].of = <<x, i>>}
           IN ~Selfish(x, t) =>
                /\ Cardinality(es) = 1
                /\ \A e \in es :
                     LET entry == tables.trans[e] IN
                     /\ entry.from = Meant(t.from)
                     /\ ~Mistaken(x, t) => entry.to = Meant(t.to)
                     /\ tables.root[e] = tables.idx[<<TopLevel(store, IF t.from.k = "sm" THEN t.from.sm ELSE x), Unnamed>>]
                     /\ entry.smp = IF t.from.k = "sm" THEN entry.from
                                    ELSE tables.parent[entry.from]
                     /\ \A d \in tables.first[entry.from]..e : tables.trans[d].smp = entry.smp
      /\ \A x \in DOMAIN tables.idx :
           /\ store.sm[x[1]].cover <=> tables.idx[x] >= tables.covering
           /\ x[2] = Unnamed => \A n \in ToSet(tables.children[x[1]]) : tables.parent[n] = tables.idx[x]
           /\ tables.parent[tables.idx[x]] # 0 =>
                \E m \in SmsReached : /\ tables.idx[<<m, Unnamed>>] = tables.parent[tables.idx[x]]
                                      /\ tables.idx[x] \in ToSet(tables.children[m])
=============================================================================
