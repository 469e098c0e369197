---------------------------- MODULE MachineBuild ----------------------------
(***************************************************************************)
(* Construction of the state machines from their definitions:              *)
(* process_statemachine and merge_state_machines (sm_sim_process_sm.cpp),  *)
(* State_machine::clone_from and merge (state_machines.cpp), the import    *)
(* and id resolution of the simulation core, and the back patching and     *)
(* instantiation that follow the definitions (buildsms.cpp).               *)
(*                                                                         *)
(* The heap of machines is a sequence: a pointer to a machine is its       *)
(* position.  The global registry State_machine::statemachines maps        *)
(* qualified ids, sequences of names, to machines.  An end of a transition *)
(* is a state [k |-> "state", sm, id], a machine [k |-> "sm", sm, id], or  *)
(* the path of an id that is still to be resolved.  Fatal errors and       *)
(* failing asserts (the build keeps them) end the program: `bad'.          *)
(***************************************************************************)
EXTENDS Naturals, Sequences, SequencesExt, FiniteSets, TLC

CONSTANTS Programs      \* the programs: [defs, insts, sound], sound when all names
                        \* that they use are defined where they are looked up

VARIABLES program,      \* the program that is built
          store,        \* [sm, reg, bad, reused, resolving]: heap, registry,
                        \* failure, the base machines that were cloned under their
                        \* own id, and whether clone_from may resolve imports
          phase,        \* define, imports, patch, move, instantiate, done
          todo          \* definitions, machines or instantiations left

vars == <<program, store, phase, todo>>

Null == 0
Unnamed == ""
End(k, m, id, path, owner) == [k |-> k, sm |-> m, id |-> id, path |-> path, owner |-> owner]
NoEnd == End("none", Null, Unnamed, <<>>, Null)
StateEnd(m, id) == End("state", m, id, <<>>, Null)
SmEnd(m, id) == End("sm", m, id, <<>>, Null)
PathEnd(p) == End("path", Null, Unnamed, p, Null)

Machine(id, parent) ==
    [id |-> id, parent |-> parent, states |-> {}, trans |-> <<>>, children |-> <<>>,
     join |-> NoEnd, complete |-> TRUE, imports |-> {}, concept |-> FALSE,
     thread |-> FALSE, threads |-> FALSE, labels |-> {}, cover |-> FALSE,
     shadow |-> <<>>, self |-> Null]

New(S, id, parent) == [S EXCEPT !.sm = Append(@, Machine(id, parent))]
Newest(S) == Len(S.sm)
Register(S, q, m) == [S EXCEPT !.reg = (q :> m) @@ @]
Registered(S, q) == IF q \in DOMAIN S.reg THEN S.reg[q] ELSE Null
Fatal(S) == [S EXCEPT !.bad = TRUE]
HasChild(S, m, c) == c \in ToSet(S.sm[m].children)
Initial == {"Initial", "initial"}
Final == {"Final", "final"}

-----------------------------------------------------------------------------
(* lookup: own states, own machines, the enclosing machines, and at last   *)
(* the registry.  get_sub_machine_by_name: the first child of that name.   *)

ChildNamed(S, m, id) ==
    LET is == {i \in DOMAIN S.sm[m].children : S.sm[S.sm[m].children[i]].id = id}
    IN IF is = {} THEN Null ELSE S.sm[m].children[CHOOSE i \in is : \A j \in is : i <= j]

Child(S, m, id) == LET At(c) == IF c = Null THEN NoEnd ELSE SmEnd(c, id) IN At(ChildNamed(S, m, id))

RECURSIVE Lookup(_, _, _)
Lookup(S, m, id) ==
    IF id \in S.sm[m].states THEN StateEnd(m, id)
    ELSE IF Child(S, m, id) # NoEnd THEN Child(S, m, id)
    ELSE IF S.sm[m].parent # Null THEN Lookup(S, S.sm[m].parent, id)
    ELSE IF Registered(S, <<id>>) # Null THEN SmEnd(Registered(S, <<id>>), id)
    ELSE NoEnd

(* resolve_q_id: a path starts at a machine inside of m or at a global one.*)
RECURSIVE Descend(_, _, _)
Descend(S, m, path) == IF m = Null \/ path = <<>> THEN m
                       ELSE Descend(S, ChildNamed(S, m, Head(path)), Tail(path))

Within(S, in, id) ==
    IF in = Null THEN NoEnd
    ELSE IF id \in S.sm[in].states THEN [StateEnd(in, id) EXCEPT !.owner = in]
    ELSE IF Child(S, in, id) # NoEnd THEN [Child(S, in, id) EXCEPT !.owner = in]
    ELSE NoEnd

ResolveQId(S, m, path) ==
    IF Len(path) = 1 THEN [Lookup(S, m, path[1]) EXCEPT !.owner = m]
    ELSE Within(S, IF ChildNamed(S, m, path[1]) # Null THEN Descend(S, m, Front(path))
                   ELSE Descend(S, Registered(S, <<path[1]>>), Tail(Front(path))), Last(path))

-----------------------------------------------------------------------------
(* clone_from: machine d becomes a copy of s; q is its qualified id.  The  *)
(* machines of s that a transition or the join leads to are cloned when    *)
(* they are met, the other children afterwards; a child that was met       *)
(* before is entered into the list of children once more.  `map' leads     *)
(* from the children of s to their copies.                                 *)

RECURSIVE CloneFrom(_, _, _, _)
RECURSIVE CloneEnds(_, _, _, _, _)
RECURSIVE CloneChildren(_, _, _, _, _)
RECURSIVE ResolveImports(_, _)

Described(S, s, d) ==
    [S EXCEPT !.sm[d] = [@ EXCEPT !.labels = S.sm[s].labels, !.thread = S.sm[s].thread,
                                  !.threads = S.sm[s].threads, !.concept = S.sm[s].concept,
                                  !.cover = S.sm[s].cover, !.states = S.sm[s].states,
                                  !.shadow = S.sm[s].shadow]]

(* A copy of child c of s is made below d.  A child that is not complete   *)
(* is resolved first, unless it is the source of a transition or the caller*)
(* of clone_from gave it no resolver.                                      *)
Resolved(S, c, may) == IF S.sm[c].complete THEN S
                       ELSE IF may /\ S.resolving THEN ResolveImports(S, c) ELSE Fatal(S)

CopyBelow(S, c, d, q, k) ==
    [S |-> [CloneFrom(Register(New(S, S.sm[c].id, d), q, k), c, k, q)
              EXCEPT !.sm[d].children = Append(@, k)],
     k |-> k]

CloneChild(S, c, d, q, may) ==
    LET Copy(T) == CopyBelow(T, c, d, Append(q, S.sm[c].id), Len(T.sm) + 1)
    IN Copy(Resolved(S, c, may))

(* C holds the store and the map.                                          *)
CloneEndOfOriginal(C, s, d, q, e, may) == [S |-> C.S, map |-> C.map, e |-> e]

CloneEnd(C, s, d, q, e, may) ==
    LET At(m) == [S |-> C.S, map |-> C.map, e |-> [e EXCEPT !.sm = m]]
        Copied(n) == [S |-> n.S, map |-> (e.sm :> n.k) @@ C.map, e |-> [e EXCEPT !.sm = n.k]]
    IN CASE e.k = "state" -> At(d)
         [] e.k = "sm" /\ e.sm \in DOMAIN C.map -> At(C.map[e.sm])
         [] e.k = "sm" /\ e.sm \notin DOMAIN C.map /\ HasChild(C.S, s, e.sm) ->
              Copied(CloneChild(C.S, e.sm, d, q, may))
         [] OTHER -> At(e.sm)

CloneEnds(C, s, d, q, i) ==
    LET t == C.S.sm[s].trans[i]
        Added(f, g) == [S |-> [g.S EXCEPT !.sm[d].trans = Append(@, [t EXCEPT !.from = f, !.to = g.e])],
                        map |-> g.map]
        To(f) == Added(f.e, CloneEnd(f, s, d, q, t.to, TRUE))
    IN IF i > Len(C.S.sm[s].trans) THEN C
       ELSE CloneEnds(To(CloneEnd(C, s, d, q, t.from, FALSE)), s, d, q, i + 1)

CloneChildren(C, s, d, q, i) ==
    LET c == C.S.sm[s].children[i]
        Copied(n) == [S |-> n.S, map |-> (c :> n.k) @@ C.map]
    IN IF i > Len(C.S.sm[s].children) THEN C
       ELSE CloneChildren(IF c \in DOMAIN C.map
                          THEN [C EXCEPT !.S.sm[d].children = Append(@, C.map[c])]
                          ELSE Copied(CloneChild(C.S, c, d, q, TRUE)), s, d, q, i + 1)

CloneFrom(S, s, d, q) ==
    LET Joins(j) == [j.S EXCEPT !.sm[d].join = j.e]
    IN IF ~S.sm[s].complete THEN Fatal(S)
       ELSE Joins(CloneEnd(CloneChildren(CloneEnds([S |-> Described(S, s, d), map |-> <<>>],
                                                   s, d, q, 1), s, d, q, 1),
                           s, d, q, S.sm[s].join, FALSE))

(* resolve_imports: the placeholders of imported machines become copies.   *)
Filled(S, c, t) == [CloneFrom(S, t, c, CHOOSE p \in DOMAIN S.reg : S.reg[p] = c)
                      EXCEPT !.sm[c].complete = TRUE]

RECURSIVE FillPlaceholders(_, _, _)
FillPlaceholders(S, m, i) ==
    LET Fill(c, t) == IF S.sm[c].complete THEN S
                      ELSE IF S.sm[c].id \notin S.sm[m].imports \/ t = Null THEN Fatal(S)
                      ELSE Filled(IF S.sm[t].complete THEN S ELSE ResolveImports(S, t), c, t)
        Import(c) == Fill(c, Registered(S, <<S.sm[c].id>>))
    IN IF i > Len(S.sm[m].children) \/ S.bad THEN S
       ELSE FillPlaceholders(Import(S.sm[m].children[i]), m, i + 1)

ResolveImports(S, m) == [FillPlaceholders(S, m, 1) EXCEPT !.sm[m].complete = TRUE]

-----------------------------------------------------------------------------
(* The machines below m, m included, and the machines that enclose it.     *)

RECURSIVE Below(_, _)
Below(S, m) == {m} \union UNION {Below(S, c) : c \in ToSet(S.sm[m].children)}
RECURSIVE TopLevel(_, _)
TopLevel(S, m) == IF S.sm[m].parent = Null THEN m ELSE TopLevel(S, S.sm[m].parent)

(* (The empty sequence makes TLC compute the list of machines at once.)    *)
OnMachines(S, ms, Op(_)) ==
    [S EXCEPT !.sm = [x \in DOMAIN @ |-> IF x \in ms THEN Op(@[x]) ELSE @[x]] \o <<>>]

OnEnds(m, Op(_)) == [m EXCEPT !.trans = [i \in DOMAIN @ |->
                        [@[i] EXCEPT !.from = Op(@), !.to = Op(@)]]]

(* replace_state, set_owner and remove_all_shadowing of the merged clones. *)
Renamed(S, c, new, main) ==
    LET Rep(e) == IF e.k = "state" /\ e.id = "Initial" /\ e.sm = c THEN StateEnd(main, new) ELSE e
        OpR(m) == OnEnds(m, Rep)
    IN OnMachines(S, Below(S, c), OpR)

Owned(S, c, main) ==
    LET Rep(e) == IF e.sm = c THEN [e EXCEPT !.sm = main] ELSE e
        OpO(m) == [OnEnds(m, Rep) EXCEPT !.parent = IF @ = c THEN main ELSE @]
    IN OnMachines(S, Below(S, c), OpO)

Unshadowed(S, c) == LET OpU(m) == [m EXCEPT !.shadow = <<>>] IN OnMachines(S, Below(S, c), OpU)

(* set_shadowing_info: the children are paired by their place in the list. *)
RECURSIVE Shadowing(_, _, _)
RECURSIVE ShadowingKids(_, _, _, _)
Shadowing(S, orig, clone) ==
    LET names == (S.sm[orig].states \cap S.sm[clone].states) \ (Initial \union Final)
        T == [S EXCEPT !.sm[clone].shadow = [s \in names |-> orig] @@ @]
    IN ShadowingKids(T, orig, clone, 1)
ShadowingKids(S, orig, clone, j) ==
    IF j > Len(S.sm[orig].children) \/ j > Len(S.sm[clone].children) THEN S
    ELSE ShadowingKids(Shadowing(S, S.sm[orig].children[j], S.sm[clone].children[j]),
                       orig, clone, j + 1)

Shadowed(S, m) == UNION {{S.sm[x].shadow[s] : s \in DOMAIN S.sm[x].shadow} : x \in Below(S, m)}

(* Another top level machine of the registry has a shadow inside of orig.  *)
IsShadowed(S, orig) ==
    \E q \in DOMAIN S.reg : /\ S.reg[q] # orig /\ S.sm[S.reg[q]].parent = Null
                            /\ Shadowed(S, S.reg[q]) \cap Below(S, orig) # {}

RECURSIVE AllShadowed(_, _, _)
AllShadowed(S, new, seen) ==
    IF new \subseteq seen THEN seen
    ELSE AllShadowed(S, UNION {{TopLevel(S, x) : x \in Shadowed(S, m)} : m \in new}, seen \union new)

(* clone_sm_mangle_name: a copy that nobody else shadows.                  *)
Mangled(S, orig, k) ==
    LET As(id) == Register(CloneFrom(New(S, id, Null), orig, k, <<id>>), <<id>>, k)
    IN As(S.sm[orig].id \o "__" \o ToString(k))

(* walk_two_structurally_identical_sms: each machine of a to that of b.    *)
RECURSIVE Paired(_, _, _, _)
RECURSIVE PairedKids(_, _, _, _, _)
Paired(S, a, b, map) == PairedKids(S, a, b, (a :> b) @@ map, 1)
PairedKids(S, a, b, map, j) ==
    IF j > Len(S.sm[a].children) \/ j > Len(S.sm[b].children) THEN map
    ELSE PairedKids(S, a, b, Paired(S, S.sm[a].children[j], S.sm[b].children[j], map), j + 1)

RECURSIVE MangledAll(_, _, _)
MangledAll(S, all, map) ==
    LET m == CHOOSE x \in all : TRUE
        Mapped(T, k) == MangledAll(T, all \ {m}, Paired(T, m, k, map))
    IN IF all = {} THEN [S |-> S, map |-> map]
       ELSE Mapped(Mangled(S, m, Len(S.sm) + 1), Len(S.sm) + 1)

HandleShadowingInPlace(S, clone, orig) ==
    IF S.sm[orig].concept THEN Shadowing(S, orig, clone) ELSE S

HandleShadowing(S, clone, orig) ==
    LET all == AllShadowed(S, {TopLevel(S, x) : x \in Shadowed(S, orig)}, {}) \union {orig}
        Moved(M) == LET Sh(m) == [m EXCEPT !.shadow = [s \in DOMAIN @ |->
                                    IF @[s] \in DOMAIN M.map THEN M.map[@[s]] ELSE Null]]
                    IN Shadowing(OnMachines(M.S, UNION {Below(M.S, M.map[m]) : m \in all}, Sh),
                                 M.map[orig], clone)
    IN IF ~S.sm[orig].concept THEN S
       ELSE IF ~IsShadowed(S, orig) THEN Shadowing(S, orig, clone)
       ELSE Moved(MangledAll(S, all, <<>>))

-----------------------------------------------------------------------------
(* merge_state_machines: the first machine is the body of the new one; the *)
(* others keep an initial state of their own, which the initial state of   *)
(* the body leads to.                                                      *)

Transition(f, t) == [from |-> f, to |-> t, abstract |-> FALSE, labels |-> {}, orig |-> Null]

CloneOf(S, m, parent) ==
    LET Copy(k) == Unshadowed(CloneFrom(New(S, S.sm[m].id, parent), m, k, <<S.sm[m].id>>), k)
    IN Copy(Len(S.sm) + 1)

InitialEnd(S, m) == LET i == S.sm[m].states \cap Initial
                    IN IF i = {} THEN NoEnd ELSE StateEnd(m, CHOOSE x \in i : TRUE)

Absorbed(S, main, c, init) ==
    [S EXCEPT !.sm[main] =
       [@ EXCEPT !.states = @ \union (S.sm[c].states \ (Initial \union Final)),
                 !.trans = @ \o S.sm[c].trans
                           \o <<Transition(InitialEnd(S, main), StateEnd(main, init))>>,
                 !.children = @ \o S.sm[c].children,
                 !.shadow = @ @@ S.sm[c].shadow]]

Joined(S, main, c, orig) ==
    LET From(init) ==
          Absorbed(HandleShadowing(Owned(Renamed([S EXCEPT !.sm[main].states = @ \union {init}],
                                                 c, init, main), c, main), c, orig), main, c, init)
    IN From("Initial_" \o S.sm[c].id)

RECURSIVE Clones(_, _, _, _)
Clones(S, ms, parent, cs) ==
    IF ms = <<>> THEN [S |-> S, cs |-> cs]
    ELSE Clones(CloneOf(S, Head(ms), parent), Tail(ms), parent, Append(cs, Len(S.sm) + 1))

RECURSIVE JoinAll(_, _, _, _)
JoinAll(S, main, cs, ms) ==
    IF ms = <<>> THEN S
    ELSE JoinAll(Joined(S, main, Head(cs), Head(ms)), main, Tail(cs), Tail(ms))

(* Abstract transitions without guard, event and action disappear, the     *)
(* others become normal ones.                                              *)
Concrete(m) == [m EXCEPT !.trans =
                  LET kept == SelectSeq(@, LAMBDA t : ~t.abstract \/ t.labels # {})
                  IN [i \in DOMAIN kept |-> [kept[i] EXCEPT !.abstract = FALSE]]]

Merged(S, ms, concrete, name, parent) ==
    LET Made(T, k) == [S |-> IF concrete THEN OnMachines(T, Below(T, k), Concrete) ELSE T, k |-> k]
        Reuse(T) == [T EXCEPT !.reused = @ \union {S.sm[ms[i]].id : i \in DOMAIN ms}]
        Body(T, k, cs) == JoinAll(HandleShadowing([T EXCEPT !.sm[k].id = name], k, ms[1]),
                                  k, cs, Tail(ms))
        From(C) == Made(Reuse(Body(C.S, C.cs[1], Tail(C.cs))), C.cs[1])
    IN From(Clones(S, ms, parent, <<>>))

-----------------------------------------------------------------------------
(* process_statemachine.  A definition is                                  *)
(* [name, states, trans, subs, threads, imports, join, implements,         *)
(*  extends, concept, abstract, cover, labels].                            *)

Named(S, ids) == [i \in DOMAIN ids |-> Registered(S, <<ids[i]>>)]

Fresh(S, id, parent) == [S |-> New(S, id, parent), k |-> Len(S.sm) + 1]

Created(S, def, q, parent) ==
    LET imp == Named(S, def.implements)
        ext == Named(S, def.extends)
        Impl == IF imp = <<>> THEN [S |-> S, k |-> Null] ELSE Merged(S, imp, TRUE, def.name, parent)
        Extended(A) ==
            IF ext # <<>> THEN Merged(A.S, (IF imp = <<>> THEN <<>> ELSE <<A.k>>) \o ext,
                                      FALSE, def.name, parent)
            ELSE IF imp # <<>> THEN A ELSE Fresh(S, def.name, parent)
        Reg(B) == [B EXCEPT !.S = Register(@, q, B.k)]
    IN IF Null \in ToSet(imp \o ext) THEN [Fresh(S, def.name, parent) EXCEPT !.S = Fatal(@)]
       ELSE Reg(Extended(Impl))

(* The machine takes the place of a state of its name in the parent.       *)
Adopted(S, m, parent, isThread) ==
    IF parent = Null THEN S
    ELSE LET id == S.sm[m].id
             was == S.sm[parent].shadow
             T == [S EXCEPT !.sm[parent].states = @ \ {id},
                            !.sm[parent].shadow = [s \in DOMAIN @ \ {id} |-> @[s]],
                            !.sm[parent].threads = @ \/ isThread,
                            !.sm[m].self = IF id \in DOMAIN was THEN was[id] ELSE @]
         IN IF ChildNamed(T, parent, id) # Null THEN T
            ELSE [T EXCEPT !.sm[parent].children = Append(@, m)]

(* Every import is a child without definition until imports are resolved.  *)
RECURSIVE Imported(_, _, _, _)
Imported(S, m, q, ids) ==
    IF ids = <<>> THEN S
    ELSE IF Head(ids) \in S.sm[m].imports THEN Imported(S, m, q, Tail(ids))
    ELSE LET N == New(S, Head(ids), m)
             k == Newest(N)
             A == [N EXCEPT !.sm[k].complete = FALSE,
                            !.sm[m].imports = @ \union {Head(ids)},
                            !.sm[m].children = Append(@, k)]
         IN Imported(Register(A, Append(q, Head(ids)), k), m, q, Tail(ids))

(* process_statemachine_helper_handle_transitions: two plain names are     *)
(* looked up at once, any other pair of ids later.  A label has to be an   *)
(* event or an action of this very machine.                                *)
RECURSIVE HandleTransitions(_, _, _, _)
HandleTransitions(S, m, ts, abstract) ==
    LET t == Head(ts)
        plain == Len(t.from) = 1 /\ Len(t.to) = 1
        EndOf(p) == IF plain THEN Lookup(S, m, p[1]) ELSE PathEnd(p)
        ab == abstract /\ t.from[1] \notin Initial /\ Last(t.to) \notin Final
        Added(f, g) ==
            IF NoEnd \in {f, g} \/ ~(t.labels \subseteq S.sm[m].labels) THEN Fatal(S)
            ELSE [S EXCEPT !.sm[m].trans = Append(@,
                    [from |-> f, to |-> g, abstract |-> ab, labels |-> t.labels, orig |-> Null])]
        Rest(T) == IF T.bad THEN T ELSE HandleTransitions(T, m, Tail(ts), abstract)
    IN IF ts = <<>> THEN S ELSE Rest(Added(EndOf(t.from), EndOf(t.to)))

Join(S, m, path) ==
    LET At(e) == IF e = NoEnd THEN Fatal(S) ELSE [S EXCEPT !.sm[m].join = e]
    IN IF path = <<>> THEN S
       ELSE At(IF Len(path) = 1 THEN Lookup(S, m, path[1]) ELSE PathEnd(path))

(* extract_sm_name_and_id, extract_sm_modifiers, and the sections of a     *)
(* definition that fill the machine itself.                                *)
QualifiedId(prefix, def) == Append(prefix, def.name)
IsAbstract(outer, def) == outer \/ def.abstract \/ def.concept
Populated(S, m, def) == [S EXCEPT !.sm[m].labels = @ \union def.labels,
                                  !.sm[m].states = @ \union def.states]

Entered(C, def, q, parent, isThread) ==
    IF C.S.bad THEN C
    ELSE [C EXCEPT !.S = Imported(Adopted(
            [C.S EXCEPT !.sm[C.k] = [@ EXCEPT !.concept = def.concept, !.thread = isThread,
                                              !.cover = def.cover \/ def.concept,
                                              !.complete = def.imports = <<>>]],
            C.k, parent, isThread), C.k, q, def.imports)]

RECURSIVE Process(_, _, _, _, _, _)
RECURSIVE ProcessAll(_, _, _, _, _, _)
Process(S, def, prefix, parent, isThread, outer) ==
    LET q == QualifiedId(prefix, def)
        abstract == IsAbstract(outer, def)
        Subs(C) == [C EXCEPT !.S = ProcessAll(ProcessAll(@, def.subs, q, C.k, FALSE, abstract),
                                              def.threads, q, C.k, TRUE, abstract)]
        Joins(T, m) == IF T.bad THEN T ELSE Join(T, m, def.join)
        Body(C) == IF C.S.bad THEN C.S
                   ELSE Joins(HandleTransitions(Populated(C.S, C.k, def), C.k, def.trans, abstract), C.k)
    IN Body(Subs(Entered(IF Registered(S, q) # Null THEN [S |-> S, k |-> Registered(S, q)]
                         ELSE Created(S, def, q, parent), def, q, parent, isThread)))

ProcessAll(S, defs, prefix, parent, isThread, abstract) ==
    IF defs = <<>> \/ S.bad THEN S
    ELSE ProcessAll(Process(S, Head(defs), prefix, parent, isThread, abstract),
                    Tail(defs), prefix, parent, isThread, abstract)

-----------------------------------------------------------------------------
(* handle_instantiation: x = base(...) is a copy of base in which the      *)
(* arguments, instantiations too, replace the states of their names.       *)

RECURSIVE Instantiated(_, _)
RECURSIVE WithArgs(_, _, _, _)
Instantiated(S, inst) ==
    LET Copy(b, k) == [CloneFrom(New(S, inst.name, Null), b, k, <<inst.base>>)
                         EXCEPT !.reused = @ \union {inst.base}]
        Made(k) == [S |-> WithArgs(Copy(Registered(S, <<inst.base>>), k), k, inst.name, inst.args), k |-> k]
    IN Made(Len(S.sm) + 1)
WithArgs(S, m, name, args) ==
    LET a == Head(args)
        Placed(I) == LET Rep(e) == IF e.id = a.name THEN SmEnd(I.k, a.name) ELSE e
                     IN [Register([I.S EXCEPT !.sm[I.k].parent = m], <<name, a.name>>, I.k)
                           EXCEPT !.sm[m] = [OnEnds(@, Rep) EXCEPT !.states = @ \ {a.name},
                                                                   !.children = Append(@, I.k)]]
    IN IF args = <<>> THEN S
       ELSE WithArgs(Placed(Instantiated(S, a)), m, name, Tail(args))

-----------------------------------------------------------------------------
(* The steps of the build.                                                 *)

Init == /\ program \in Programs
        /\ store = [sm |-> <<>>, reg |-> <<>>, bad |-> FALSE, reused |-> {},
                    resolving |-> FALSE]
        /\ phase = "define" /\ todo = {}

(* The definitions of the input, in order.                                 *)
Define(i) ==
    /\ phase = "define" /\ ~store.bad
    /\ i = Cardinality(todo) + 1 /\ i \in DOMAIN program.defs
    /\ \E s \in {Process(store, program.defs[i], <<>>, Null, FALSE, FALSE)} : store' = s
    /\ todo' = todo \union {i} /\ UNCHANGED <<phase, program>>

EndDefinitions ==
    /\ phase = "define" /\ ~store.bad /\ Cardinality(todo) = Len(program.defs)
    /\ phase' = "imports" /\ todo' = {} /\ store' = [store EXCEPT !.resolving = TRUE]
    /\ UNCHANGED program

(* Back patching of imports runs over the registry, in which a machine     *)
(* comes before the machines inside of it.                                 *)
Unresolved == {q \in DOMAIN store.reg : ~store.sm[store.reg[q]].complete
                                        /\ store.sm[store.reg[q]].imports # {}}

PatchImports ==
    /\ phase = "imports" /\ ~store.bad
    /\ \E q \in Unresolved :
         /\ ~\E p \in Unresolved : Len(p) < Len(q) /\ IsPrefix(p, q)
         /\ \E s \in {ResolveImports(store, store.reg[q])} : store' = s
    /\ UNCHANGED <<program, phase, todo>>

(* Joins and transitions: the remaining paths are resolved, each from the  *)
(* machine that holds it.  Sources outside of it are moved afterwards.     *)
Patched(S, m, e) == IF e.k = "path" THEN ResolveQId(S, m, e.path) ELSE e

PatchedFrom(S, m, e) ==
    LET r == Patched(S, m, e) IN IF r.owner = m THEN [r EXCEPT !.owner = Null] ELSE r

PatchMachine(S, m) ==
    [S.sm[m] EXCEPT !.join = Patched(S, m, @),
                    !.trans = [i \in DOMAIN @ |->
                       [@[i] EXCEPT !.from = PatchedFrom(S, m, @), !.to = Patched(S, m, @)]]]

RegisteredMachines(S) == {S.reg[q] : q \in DOMAIN S.reg}

Patch ==
    /\ phase = "imports" /\ ~store.bad /\ Unresolved = {}
    /\ LET ms == RegisteredMachines(store)
           sm == [m \in DOMAIN store.sm |-> IF m \in ms THEN PatchMachine(store, m) ELSE store.sm[m]]
           lost == \E m \in ms :
                     \/ store.sm[m].join.k = "path" /\ sm[m].join = NoEnd
                     \/ \E i \in DOMAIN sm[m].trans :
                          NoEnd.k \in {sm[m].trans[i].from.k, sm[m].trans[i].to.k}
       IN /\ store' = [store EXCEPT !.sm = sm, !.bad = lost, !.resolving = FALSE]
          /\ todo' = {m \in ms : \E i \in DOMAIN sm[m].trans : sm[m].trans[i].from.owner # Null}
    /\ phase' = "move" /\ UNCHANGED program

(* Transitions whose source lies in another machine move there.            *)
Foreign(t) == t.from.owner # Null
MovedTo(t, m) == [t EXCEPT !.orig = m,
                    !.from = [@ EXCEPT !.owner = Null,
                                       !.sm = IF t.from.k = "sm" THEN @ ELSE t.from.owner]]

MoveForeign(m) ==
    /\ phase = "move" /\ ~store.bad /\ m \in todo
    /\ LET out == SelectSeq(store.sm[m].trans, Foreign)
           For(p) == SelectSeq(out, LAMBDA t : t.from.owner = p)
           Keeps(x) == IF x = m THEN SelectSeq(store.sm[m].trans, LAMBDA t : ~Foreign(t))
                       ELSE store.sm[x].trans
           Gets(x) == [i \in DOMAIN For(x) |-> MovedTo(For(x)[i], m)]
       IN store' = [store EXCEPT !.sm = [x \in DOMAIN @ |->
                      [@[x] EXCEPT !.trans = Keeps(x) \o Gets(x)]]]
    /\ todo' = todo \ {m} /\ UNCHANGED <<program, phase>>

EndMoves == /\ phase = "move" /\ ~store.bad /\ todo = {}
            /\ phase' = "instantiate" /\ UNCHANGED <<program, store, todo>>

(* Assignments x = base(...) of the input, in order.                       *)
Instantiate(i) ==
    /\ phase = "instantiate" /\ ~store.bad
    /\ i = Cardinality(todo) + 1 /\ i \in DOMAIN program.insts
    /\ \E r \in {Instantiated(store, program.insts[i])} :
         store' = Register(r.S, <<program.insts[i].name>>, r.k)
    /\ todo' = todo \union {i} /\ UNCHANGED <<phase, program>>

EndBuild == /\ phase = "instantiate" /\ ~store.bad /\ Cardinality(todo) = Len(program.insts)
            /\ phase' = "done" /\ UNCHANGED <<program, store, todo>>

Next == \/ \E i \in DOMAIN program.defs : Define(i)
        \/ EndDefinitions \/ PatchImports \/ Patch
        \/ \E m \in DOMAIN store.sm : MoveForeign(m)
        \/ EndMoves \/ EndBuild
        \/ \E i \in DOMAIN program.insts : Instantiate(i)

Spec == Init /\ [][Next]_vars

-----------------------------------------------------------------------------
(* What the construction promises.                                         *)

RECURSIVE Route(_, _, _)
Route(S, top, x) == IF x = top \/ S.sm[x].parent = Null THEN <<>>
                    ELSE Append(Route(S, top, S.sm[x].parent), S.sm[x].id)

(* A machine as it looks from its top, which a copy has to look like too:  *)
(* ends inside of it by their route, other ends as they are.               *)
Seen(S, top, e) ==
    IF e.k \in {"state", "sm"} /\ e.sm \in Below(S, top)
    THEN [e EXCEPT !.sm = Null, !.path = Route(S, top, e.sm), !.owner = Null]
    ELSE [e EXCEPT !.owner = Null]

RECURSIVE Shape(_, _, _)
Shape(S, top, x) ==
    [states |-> S.sm[x].states,
     trans |-> [i \in DOMAIN S.sm[x].trans |->
                  [S.sm[x].trans[i] EXCEPT !.from = Seen(S, top, @), !.to = Seen(S, top, @)]],
     join |-> Seen(S, top, S.sm[x].join),
     thread |-> x # top /\ S.sm[x].thread, threads |-> S.sm[x].threads,
     kids |-> {<<S.sm[c].id, Shape(S, top, c)>> : c \in ToSet(S.sm[x].children)}]

IsCopy(S, c, t) == /\ Shape(S, c, c) = Shape(S, t, t)
                   /\ Below(S, c) \cap Below(S, t) = {}

(* A name that a machine inside of another one takes from the outside: a   *)
(* copy of the outer machine leads it to nowhere (or back to the template).*)
RECURSIVE Inside(_)
Inside(def) == LET kids == ToSet(def.subs) \union ToSet(def.threads)
               IN kids \union UNION {Inside(k) : k \in kids}
Own(def) == def.states \union ToSet(def.imports)
            \union {k.name : k \in ToSet(def.subs) \union ToSet(def.threads)}
Names(def) == UNION {{p[1] : p \in {t \in {def.trans[i].from, def.trans[i].to} : Len(t) = 1}} :
                       i \in DOMAIN def.trans}
Escapes == \E i \in DOMAIN program.defs : \E def \in Inside(program.defs[i]) :
              ~(Names(def) \subseteq Own(def))

(* A transition that was moved into a machine leads, in an instance of it, *)
(* to a state that the instance does not have.                             *)
HoldsMoved(S, b) == \E x \in Below(S, b) : \E i \in DOMAIN S.sm[x].trans : S.sm[x].trans[i].orig # Null

(* Back patching leaves every import a copy of its template that shares no *)
(* machine with it, however the imports nest and in whatever order the     *)
(* machines were defined (resolve_imports, clone_from); an instance without*)
(* arguments is such a copy of its base (handle_instantiation).            *)
ImportsAreCopies ==
    /\ phase = "imports" /\ ~store.bad /\ Unresolved = {} /\ ~Escapes =>
         \A m \in RegisteredMachines(store) : \A c \in ToSet(store.sm[m].children) :
           store.sm[c].id \in store.sm[m].imports =>
             IsCopy(store, c, store.reg[<<store.sm[c].id>>])
    /\ phase = "done" /\ ~Escapes =>
         \A i \in DOMAIN program.insts :
           program.insts[i].args = <<>> /\ ~HoldsMoved(store, store.reg[<<program.insts[i].base>>]) =>
             IsCopy(store, store.reg[<<program.insts[i].name>>], store.reg[<<program.insts[i].base>>])

(* A state shadows the state of the concept that has its name and its      *)
(* place, in a copy of the concept that no other machine shadows           *)
(* (merge_state_machines).  The machines are paired by their positions, so *)
(* this is promised only for concepts in which they are met in order.      *)
InOrder(S, m) ==
    \A x \in Below(S, m) :
      LET kids == S.sm[x].children IN \A i, j \in DOMAIN kids :
         /\ kids[i] = kids[j] => i = j
         /\ i < j => \A a, b \in DOMAIN S.sm[x].trans :
              kids[i] \in {S.sm[x].trans[a].from.sm, S.sm[x].trans[a].to.sm} /\
              kids[j] \in {S.sm[x].trans[b].from.sm, S.sm[x].trans[b].to.sm} => a <= b
Shadows(S, q) ==
    UNION {{<<x, n, S.sm[x].shadow[n]>> : n \in DOMAIN S.sm[x].shadow} : x \in Below(S, S.reg[q])}

ShadowsPair ==
    phase = "done" =>
      \A p, q \in {r \in DOMAIN store.reg : Len(r) = 1} :
        \A s \in Shadows(store, q) : InOrder(store, TopLevel(store, s[3])) =>
          /\ s[2] \in store.sm[s[3]].states
          /\ Route(store, Null, s[1]) = Route(store, Null, s[3])
          /\ p # q => \A r \in Shadows(store, p) : TopLevel(store, r[3]) # TopLevel(store, s[3])
=============================================================================
