------------------------------ MODULE MCPeriod ------------------------------
(***************************************************************************)
(* A Period of four days, at a scale of ten units, with a pool that gives  *)
(* a baseline in quarters, one that gives ties in Buffer Days, and one a   *)
(* Commitments Budget has made negative.                                   *)
(***************************************************************************)
EXTENDS Period

FourDayPools == {7, 16, -5}
SomeAmounts == {-2, 1, 4}
MinusOneDay == -10
MinusThreeDays == -30
=============================================================================
