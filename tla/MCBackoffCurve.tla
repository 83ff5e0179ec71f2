--------------------------- MODULE MCBackoffCurve ---------------------------
(***************************************************************************)
(* Every first window and cap up to nine ticks, with the logarithm rounded  *)
(* either way.                                                             *)
(***************************************************************************)
EXTENDS BackoffCurve

CONSTANT Longest

AllConfigs ==
    {c \in [first : 1 .. Longest, max : 1 .. Longest, error : {-1, 0, 1}] :
        c.first <= c.max}
=============================================================================
