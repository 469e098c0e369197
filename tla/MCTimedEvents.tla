--------------------------- MODULE MCTimedEvents ---------------------------
(* Constants for model checking TimedEvents.                               *)
EXTENDS TimedEvents

\* Unnamed timers and one named one.
MCTwoNames == {Unnamed, "t"}
MCAnyDelay == {"negative", "zero", "positive"}
=============================================================================
