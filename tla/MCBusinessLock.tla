---------------------------- MODULE MCBusinessLock ----------------------------
(* Small instances of BusinessLock for TLC. *)
EXTENDS BusinessLock, TLC

CONSTANTS c1, c2

\* Two schedules of one coach at one venue.
SamePair == [c \in Calls |-> {1, 2}]
============================================================================
