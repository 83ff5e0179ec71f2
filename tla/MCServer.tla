------------------------------ MODULE MCServer ------------------------------
(***************************************************************************)
(* Instances of Server for TLC.                                            *)
(***************************************************************************)
EXTENDS Server, TLC

CONSTANTS r1, r2

Plain ==
    [ path |-> "me", spelling |-> "plain", method |-> "GET", site |-> "same-origin",
      origin |-> "own", cookie |-> FALSE, body |-> {} ]

\* Each is there for a property: a login on its way to a permit, one the gate or
\* the contract answers, a HEAD and its GET, a cross-site logout, a probe.
SomeShapes ==
    { [Plain EXCEPT !.path = "login", !.method = "POST"],
      [Plain EXCEPT !.path = "login", !.method = "GET", !.spelling = "encoded"],
      [Plain EXCEPT !.path = "login", !.method = "POST",
                    !.body = {"undecodable", "constraint"}],
      [Plain EXCEPT !.path = "login", !.method = "POST", !.body = {"late"}],
      [Plain EXCEPT !.path = "me", !.method = "DELETE", !.cookie = TRUE, !.site = "same-site"],
      [Plain EXCEPT !.path = "unregistered"],
      [Plain EXCEPT !.path = "health", !.cookie = TRUE],
      [Plain EXCEPT !.path = "health", !.cookie = TRUE, !.method = "HEAD"],
      [Plain EXCEPT !.path = "logout", !.method = "POST", !.cookie = TRUE,
                    !.site = "", !.origin = "other", !.body = {"late"}] }

Default ==
    [ url |-> "set", local |-> TRUE, google |-> FALSE, port |-> 5182,
      log |-> TRUE, auto |-> TRUE, ttl |-> 1, lifetime |-> 2, first |-> 1,
      max |-> 2, read |-> 1, write |-> 1, shutdown |-> 1 ]

\* The defaults, where a shutdown is shorter than a login can take; patient ones
\* with a read timeout past the write deadline, with none and, without a local
\* provider, with a short one; and one that Load refuses.
SomeConfigs ==
    { Default,
      [Default EXCEPT !.shutdown = 4, !.read = 4],
      [Default EXCEPT !.shutdown = 4, !.read = 0],
      [Default EXCEPT !.local = FALSE, !.google = TRUE, !.auto = FALSE, !.shutdown = 3],
      [Default EXCEPT !.write = 0] }

\* For the liveness run: a login and a probe, whatever they wait for.
Waiting ==
    { [Plain EXCEPT !.path = "login", !.method = "POST", !.body = {"late"}],
      [Plain EXCEPT !.path = "health", !.cookie = TRUE] }

WithAndWithoutDeadline == {Default, [Default EXCEPT !.read = 0]}

\* Requests are interchangeable.
Permutable == Permutations(Requests)

=============================================================================
