---------------------------- MODULE MCEventQueue ----------------------------
(***************************************************************************)
(* The queue in its two environments: within the capacity of its rings     *)
(* (the specification of the proofs), and with ordinary events only, which *)
(* may overflow the ring.                                                  *)
(***************************************************************************)
EXTENDS EventQueue

VARIABLE environment

mcvars == <<vars, environment>>

WithinCapacity == environment = "within" /\ NextWithinCapacity /\ UNCHANGED environment
Overflowing == environment = "overflowing" /\ NextOrdinary /\ UNCHANGED environment

MCInit == Init /\ environment \in {"within", "overflowing"}
MCSpec == MCInit /\ [][WithinCapacity \/ Overflowing]_mcvars
=============================================================================
