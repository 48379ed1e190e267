---------------------------- MODULE MCNdsctlLoop ----------------------------
(***************************************************************************)
(* The settings of NdsctlLoop that TLC explores.                           *)
(***************************************************************************)
EXTENDS NdsctlLoop

\* One ndsctl at a time, whose command may come in two pieces.
OneByOne == [serialised |-> TRUE, pieces |-> TRUE, exit |-> FALSE]

\* Clients that do not keep to the lock, and a daemon that stops.
AtOnce == [serialised |-> FALSE, pieces |-> FALSE, exit |-> TRUE]

MCSettings == {OneByOne, AtOnce}
=============================================================================
