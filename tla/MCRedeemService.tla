--------------------------- MODULE MCRedeemService ---------------------------
(***************************************************************************)
(* RedeemService instantiated for TLC.                                     *)
(***************************************************************************)
EXTENDS RedeemService, TLC

CONSTANTS w1, w2

TwoWorkers == {w1, w2}
ThreeCodes == {"long", "short", "refund"}
MCKindOf == [c \in Codes |-> IF c = "refund" THEN "balance" ELSE "subscription"]
MCValueOf == [c \in Codes |-> CASE c = "long" -> 2 [] c = "short" -> 0 - 1 [] OTHER -> 0 - 2]
OneEach == [k \in Funds |-> 1]
WorkerSymmetry == Permutations(Workers)
TwoUnits == {2}
DayUpOrDown == {1, 0 - 1}
=============================================================================
