------------------------------- MODULE MCLoop -------------------------------
(***************************************************************************)
(* A program's way into its main loop: the construction of its machines    *)
(* and tables (build), and the loop on the tables of one program (loop).   *)
(***************************************************************************)
EXTENDS MCExecutionLoop, MCPrograms

VARIABLES which, program, store, buildPhase, todo, tables

Build == INSTANCE ExecutionTables WITH Programs <- MCPrograms, phase <- buildPhase

buildVars == <<program, store, buildPhase, todo, tables>>
mcvars == <<vars, buildVars, which>>

MCInit == /\ Init
          /\ \/ /\ which = "build" /\ Build!TInit
             \/ /\ which = "loop"
                /\ program = <<>> /\ store = <<>> /\ buildPhase = "done"
                /\ todo = {} /\ tables = <<>>
BuildStep == which = "build" /\ Build!TNext /\ UNCHANGED <<vars, which>>
LoopStep == which = "loop" /\ Next /\ UNCHANGED <<buildVars, which>>
MCSpec == MCInit /\ [][BuildStep \/ LoopStep]_mcvars

(* Imports and instances are copies: see MachineBuild!ImportsAreCopies.    *)
ImportsAreCopies == which = "build" => Build!ImportsAreCopies

(* Implementations shadow their concepts: see MachineBuild!ShadowsPair.    *)
ShadowsPair == which = "build" => Build!ShadowsPair

(* The tables of the loop: see ExecutionTables!TablesAreRight.             *)
TablesAreRight == which = "build" => Build!TablesAreRight
=============================================================================
