---------------------- MODULE MCIdempotencyCoordinator ----------------------
(***************************************************************************)
(* IdempotencyCoordinator instantiated for TLC.                            *)
(***************************************************************************)
EXTENDS IdempotencyCoordinator, TLC

CONSTANTS c1, c2, p1, p2, i1, i2, i3

TwoCallers == {c1, c2}
ThreeIds == {i1, i2, i3}
TwoPrints == {p1, p2}
=============================================================================
