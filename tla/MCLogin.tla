------------------------------ MODULE MCLogin ------------------------------
(***************************************************************************)
(* Instances of Login for TLC.                                             *)
(***************************************************************************)
EXTENDS Login, TLC

CONSTANTS r1, r2, r3, e1, e2, e3, e4, a1

\* Every address has a password.
OneActive == [e \in Emails |-> "active"]

\* One address of every kind.
OneOfEach ==
    [e \in Emails |-> CASE e = e1 -> "active"
                        [] e = e2 -> "unknown"
                        [] e = e3 -> "dormant"
                        [] OTHER  -> "corrupt"]

\* Logins are interchangeable.
Permutable == Permutations(Requests)
=============================================================================
