------------------------------ MODULE Pipeline ------------------------------
(***************************************************************************)
(* What httpserver.New puts in front of the handlers: which middleware     *)
(* answers a request, in the order they are mounted, and which operation   *)
(* is reached when none does.  Pure functions of one request and of the    *)
(* configuration.                                                          *)
(*                                                                         *)
(* A request is a record: path is the route its decoded URL names,         *)
(* spelling how the URL spells it, method, site and origin the values of   *)
(* Sec-Fetch-Site and Origin, cookie whether it carries a session cookie   *)
(* and body the set of things wrong with its body; a late one does not     *)
(* come with the headers.  A middleware yields the set of its answer,      *)
(* empty when it calls the next one.                                       *)
(***************************************************************************)
EXTENDS Integers, Sequences

\* The operations of the contract, and the method each is registered with.
MethodOf ==
    [ health |-> "GET", methods |-> "GET", me |-> "GET",
      login |-> "POST", logout |-> "POST" ]

Requested ==
    [ path     : DOMAIN MethodOf \cup {"unregistered"},
      spelling : {"plain", "encoded", "encoded slash"},
      method   : {"GET", "HEAD", "POST", "PUT", "DELETE", "OPTIONS"},
      site     : {"", "same-origin", "none", "same-site", "cross-site"},
      origin   : {"", "own", "other"},
      cookie   : BOOLEAN,
      body     : SUBSET {"late", "undecodable", "constraint", "duplicate key"} ]

Answers ==
    {"200", "204", "400 INVALID_JSON_BODY", "400 VALIDATION", "401", "403",
     "404", "405", "429", "500", "503"}

\* The refusal of the first middleware of a chain that refuses.
FirstRefusal(chain) ==
    UNION { chain[i] : i \in { j \in DOMAIN chain :
                                   \A k \in 1 .. j - 1 : chain[k] = {} } }

-----------------------------------------------------------------------------
(***************************************************************************)
(* Before the session is resolved.                                         *)
(***************************************************************************)

optionsRefused(q) == IF q.method = "OPTIONS" THEN {"405"} ELSE {}

\* A gate that mirrors the operation's method as well as its path.
disabledOnlyForPost(q, enabled) ==
    IF ~ enabled /\ q.path = "login" /\ q.method = "POST" THEN {"404"} ELSE {}

\* The gate reads the decoded path, however it was spelt.
disabledLocalLogin404(q, enabled) ==
    IF ~ enabled /\ q.path = "login" THEN {"404"} ELSE {}

isSafeMethod(m) == m \in {"GET", "HEAD", "OPTIONS", "TRACE"}

\* A guard without the fallback for clients that send no Sec-Fetch-Site.
guardWithoutOrigin(q) ==
    IF ~ isSafeMethod(q.method) /\ q.site \notin {"", "same-origin", "none"}
    THEN {"403"}
    ELSE {}

\* Sec-Fetch-Site decides when it is there, Origin otherwise.
crossSiteGuard(q) ==
    IF /\ ~ isSafeMethod(q.method)
       /\ \/ q.site # "" /\ q.site \notin {"same-origin", "none"}
          \/ q.site = "" /\ q.origin = "other"
    THEN {"403"}
    ELSE {}

BeforeSession(q, enabled) ==
    FirstRefusal(<< optionsRefused(q),
                    disabledLocalLogin404(q, enabled),
                    crossSiteGuard(q) >>)

-----------------------------------------------------------------------------
(***************************************************************************)
(* After it: the routes, the contract's validator, the generated decode.   *)
(***************************************************************************)

\* chi routes on the decoded path, save one with an encoded slash: that one it
\* routes raw, and finds nothing.
routeOnDecodedPath(q) ==
    IF q.spelling = "encoded slash" THEN "unregistered" ELSE q.path

\* A HEAD routed as it came.
headAsHead(q) == q.method

\* HEAD is routed, validated and handled as GET.
headAsGet(q) == IF q.method = "HEAD" THEN "GET" ELSE q.method

Routing(q) ==
    IF routeOnDecodedPath(q) = "unregistered"
    THEN {"404"}
    ELSE IF MethodOf[routeOnDecodedPath(q)] # headAsGet(q) THEN {"405"} ELSE {}

\* Only the login declares a body, so only there is one read.
ReadsBody(q) == Routing(q) = {} /\ routeOnDecodedPath(q) = "login"

\* A body that does not decode is refused as that, whatever else is wrong with
\* it.
openapiRequestValidator(q) ==
    IF routeOnDecodedPath(q) # "login"
    THEN {}
    ELSE IF "undecodable" \in q.body
         THEN {"400 INVALID_JSON_BODY"}
         ELSE IF "constraint" \in q.body THEN {"400 VALIDATION"} ELSE {}

\* A body the contract accepts and the generated decode does not.
requestErrorHandler(q) ==
    IF routeOnDecodedPath(q) = "login" /\ "duplicate key" \in q.body
    THEN {"400 INVALID_JSON_BODY"}
    ELSE {}

AfterSession(q) ==
    FirstRefusal(<< Routing(q),
                    openapiRequestValidator(q),
                    requestErrorHandler(q) >>)

=============================================================================
