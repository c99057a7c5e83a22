---------------------------- MODULE MCWSConnPool ----------------------------
(***************************************************************************)
(* WSConnPool instantiated for TLC.                                        *)
(***************************************************************************)
EXTENDS WSConnPool

CONSTANTS r1, r2

TwoRequests == {r1, r2}
=============================================================================
