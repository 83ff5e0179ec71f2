----------------------------- MODULE PermitPool -----------------------------
(***************************************************************************)
(* What the Argon2 permits promise the code that takes them: at most Cap   *)
(* callers hold one, a caller gets one only after asking, and everyone who *)
(* asks is given one or gives up.                                          *)
(***************************************************************************)
EXTENDS Naturals, FiniteSets

CONSTANTS Callers, Cap

VARIABLES asking, holding

pool == <<asking, holding>>

Init == asking = {} /\ holding = {}

Ask(c) ==
    /\ c \notin asking \cup holding
    /\ asking' = asking \cup {c}
    /\ UNCHANGED holding

Grant(c) ==
    /\ c \in asking
    /\ Cardinality(holding) < Cap
    /\ asking' = asking \ {c}
    /\ holding' = holding \cup {c}

GiveUp(c) ==
    /\ c \in asking
    /\ asking' = asking \ {c}
    /\ UNCHANGED holding

Release(c) ==
    /\ c \in holding
    /\ holding' = holding \ {c}
    /\ UNCHANGED asking

\* A permit handed from one caller straight to another.
HandOver(c, d) ==
    /\ c \in holding
    /\ d \in asking
    /\ holding' = (holding \ {c}) \cup {d}
    /\ asking' = asking \ {d}

Next ==
    \/ \E c \in Callers : Ask(c) \/ Grant(c) \/ GiveUp(c) \/ Release(c)
    \/ \E c, d \in Callers : HandOver(c, d)

Spec == Init /\ [][Next]_pool

\* Nobody asks for ever.
Served == \A c \in Callers : c \in asking ~> c \notin asking
=============================================================================
