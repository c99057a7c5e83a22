------------------------- MODULE MCSchedulerSnapshot -------------------------
(***************************************************************************)
(* SchedulerSnapshot instantiated for TLC.                                 *)
(***************************************************************************)
EXTENDS SchedulerSnapshot, TLC

CONSTANTS w1, w2, p1, p2, b1, f1

TwoWriters == {w1, w2}
OneWriter == {w1}
TwoPollers == {p1, p2}
OnePoller == {p1}
OneRebuilder == {b1}
OneReader == {f1}
OverlapSymmetry == Permutations(Writers) \cup Permutations(Pollers)

\* The account is deleted by its second change; it is paused by its first.
DeletedAtLast == [v \in Versions |-> IF v = 2 THEN "gone" ELSE "on"]
PausedOnce == [v \in Versions |-> IF v = 1 THEN "off" ELSE "on"]
=============================================================================
