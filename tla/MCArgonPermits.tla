--------------------------- MODULE MCArgonPermits ---------------------------
(***************************************************************************)
(* An instance of ArgonPermits for TLC.                                    *)
(***************************************************************************)
EXTENDS ArgonPermits

CONSTANTS c1, c2, c3
=============================================================================
