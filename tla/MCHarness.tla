----------------------------- MODULE MCHarness -----------------------------
(***************************************************************************)
(* The suites TLC puts the conformance runner through.  Each family varies *)
(* what one question turns on and holds the rest still.                    *)
(***************************************************************************)
EXTENDS Harness, TLC

MCJson == ("" :> None) @@ ("doc" :> "doc") @@ ("doc, reordered" :> "doc")
          @@ ("other" :> "other") @@ ("page" :> None)

MCColumns ==
    "sessions" :> << [name |-> "at", timestamp |-> TRUE],
                     [name |-> "ended_at", timestamp |-> TRUE],
                     [name |-> "id", timestamp |-> FALSE],
                     [name |-> "user_agent", timestamp |-> FALSE] >>

Row(at, ended, id) == [at |-> at, ended_at |-> ended, id |-> id, user_agent |-> 0]

MCSeed == "sessions" :> <<>>

-----------------------------------------------------------------------------

Req(path) ==
    [method |-> "GET", path |-> path, rawTarget |-> "", form |-> "slash",
     headers |-> {}, headersHex |-> <<>>, pad |-> None]

NoExpect ==
    [status |-> 200, statusByBackend |-> None, headers |-> <<>>, cookies |-> None,
     bodyJSON |-> None, bodyRaw |-> None, bodyEmpty |-> FALSE,
     sameAs |-> None, sameAsFor |-> <<>>, rows |-> <<>>]

Plain ==
    [name |-> "plain", profile |-> "", permit |-> {}, given |-> <<>>,
     request |-> Req("/me"), expect |-> NoExpect]

AskStep == [request |-> Req("/login"), sql |-> "", outage |-> FALSE, status |-> 200]

SqlStep == [request |-> None, sql |-> "statement", outage |-> FALSE, status |-> 0]

OutageStep == [request |-> None, sql |-> "", outage |-> TRUE, status |-> 0]

NoEntry ==
    [header |-> "", name |-> "", column |-> <<>>, headers |-> {}, body |-> FALSE,
     status |-> FALSE, why |-> TRUE, issue |-> TRUE, provisional |-> FALSE]

DateEntry == [NoEntry EXCEPT !.header = "date", !.issue = FALSE]

IdEntry == [NoEntry EXCEPT !.column = <<"sessions", "id">>]

Answer(status, body) ==
    [status |-> status, headers |-> "date" :> <<0>>, cookies |-> <<>>, body |-> body]

Suite(cs, es, answers) ==
    [cases |-> cs, entries |-> es, required |-> TRUE, short |-> FALSE,
     answers |-> [n \in Backends |-> answers], writes |-> [t \in Tables |-> {}],
     maxFaults |-> 0, maxKills |-> 0]

-----------------------------------------------------------------------------
(***************************************************************************)
(* Verdicts: every way to permit and to pin a status, a header and a body. *)
(***************************************************************************)

Ruling(body, status, headers, issue) ==
    [NoEntry EXCEPT !.name = "ruling", !.body = body, !.status = status,
                    !.headers = headers, !.issue = issue]

EntryLists ==
    {<<DateEntry>>} \cup
    {<<DateEntry, Ruling(body, status, headers, issue)>> :
        body \in BOOLEAN, status \in BOOLEAN, headers \in SUBSET {"allow"}, issue \in BOOLEAN}

Pins ==
    {NoExpect,
     [NoExpect EXCEPT !.bodyRaw = "doc"],
     [NoExpect EXCEPT !.bodyJSON = "doc"],
     [NoExpect EXCEPT !.bodyEmpty = TRUE]}

WithSameAs(e) ==
    {e, [e EXCEPT !.sameAs = Req("/absent")], [e EXCEPT !.sameAs = Req("/me")],
     [e EXCEPT !.sameAsFor = "go" :> Req("/absent")],
     [e EXCEPT !.sameAsFor = "kotlin" :> Req("/absent")]}

WithStatus(e) ==
    {e, [e EXCEPT !.status = 0, !.statusByBackend = ("go" :> 200) @@ ("kotlin" :> 404)],
     [e EXCEPT !.status = 0, !.statusByBackend = ("go" :> 200) @@ ("kotlin" :> 200)]}

VerdictCases ==
    {[Plain EXCEPT !.permit = p, !.expect = e] :
        p \in SUBSET {"ruling"},
        e \in UNION {WithStatus(f) : f \in UNION {WithSameAs(g) : g \in Pins}}}

VerdictAnswers ==
    {Answer(200, "doc"), Answer(200, "doc, reordered"), Answer(404, "page"), Answer(200, ""),
     [Answer(200, "doc") EXCEPT !.headers = ("date" :> <<0>>) @@ ("allow" :> <<"GET">>)]}

VerdictSuites == {Suite(<<c>>, es, VerdictAnswers) : c \in VerdictCases, es \in EntryLists}

-----------------------------------------------------------------------------
(***************************************************************************)
(* Cookies: what is set, when it expires and against which Date.           *)
(***************************************************************************)

Cookie(value, attrs, expires) ==
    [name |-> "session", value |-> value, attrs |-> attrs, expires |-> expires]

Attrs(maxAge) == ("path" :> "/") @@ ("max-age" :> maxAge) @@ ("httponly" :> "") @@ ("samesite" :> "Lax")

CookieAnswers ==
    {[Answer(200, "doc") EXCEPT !.headers = "date" :> <<date>>, !.cookies = cs] :
        date \in {0, 1, 3},
        cs \in {<<>>, <<Cookie(<<1>>, Attrs(5), 5)>>, <<Cookie(<<1>>, Attrs(5), 8)>>,
                <<Cookie(<<2>>, Attrs(5), 11)>>, <<Cookie(<<>>, Attrs(0), 0)>>,
                <<Cookie(<<1>>, Attrs(5), Garbled)>>, <<Cookie(<<1>>, Attrs(5), None)>>,
                <<Cookie(<<1>>, Attrs(5), 5), Cookie(<<1>>, Attrs(5), 6)>>}}
    \cup {[Answer(200, "doc") EXCEPT !.headers = <<>>, !.cookies = <<Cookie(<<1>>, Attrs(5), 5)>>]}

Wanted(expires, maxAge) ==
    [value |-> IF maxAge = 0 THEN <<>> ELSE None, pattern |-> IF maxAge = 0 THEN None ELSE {<<1>>, <<2>>},
     path |-> "/", domain |-> "", maxAge |-> maxAge, httpOnly |-> TRUE, secure |-> FALSE,
     sameSite |-> "Lax", expires |-> expires]

CookieSuites ==
    {Suite(<<[Plain EXCEPT !.expect.cookies = want]>>, <<DateEntry>>, CookieAnswers) :
        want \in {None, <<>>, "session" :> Wanted("max-age", 5), "session" :> Wanted("past", 0)}}

-----------------------------------------------------------------------------
(***************************************************************************)
(* Snapshots: two writes on each backend, with the id compared or masked.  *)
(***************************************************************************)

SnapshotSuites ==
    {[Suite(<<[Plain EXCEPT !.given = <<SqlStep>>, !.expect.rows = q]>>, es, {Answer(200, "doc")})
        EXCEPT !.writes["sessions"] = ws] :
        q \in {<<>>, <<[sql |-> TRUE, table |-> "sessions", cast |-> TRUE, rows |-> 1]>>,
               <<[sql |-> TRUE, table |-> "sessions", cast |-> FALSE, rows |-> 1]>>,
               <<[sql |-> TRUE, table |-> "sessions", cast |-> FALSE, rows |-> 0]>>},
        es \in {<<DateEntry>>, <<DateEntry, IdEntry>>},
        ws \in {{Row(0, None, 1), Row(0, None, 2), Row(0, 1, 2), Row(4, None, 1)}}}

-----------------------------------------------------------------------------
(***************************************************************************)
(* Runs: outages, calls that fail, runs killed and profiles that share a   *)
(* database.                                                               *)
(***************************************************************************)

OutageCase == [Plain EXCEPT !.name = "outage", !.given = <<AskStep, OutageStep>>]

Second(profile) ==
    [Plain EXCEPT !.name = "second", !.profile = profile, !.given = <<SqlStep>>,
                  !.expect.sameAs = Req("/absent")]

RunSuites ==
    {[Suite(cs, <<DateEntry, IdEntry>>, {Answer(200, "doc")})
        EXCEPT !.writes["sessions"] = {Row(0, None, 1)}, !.maxFaults = faults, !.maxKills = 1] :
        cs \in {<<OutageCase, Second("")>>, <<OutageCase, Second("local-disabled")>>,
                <<Second(""), OutageCase>>},
        faults \in 0 .. 2}

FlagSuites ==
    {[Suite(cs, <<DateEntry>>, {Answer(200, "doc"), Answer(404, "page")})
        EXCEPT !.required = required, !.short = short, !.maxFaults = 1] :
        cs \in {<<Plain>>, <<Plain, Plain>>, <<[Plain EXCEPT !.given = <<OutageStep, SqlStep>>]>>,
                <<[Plain EXCEPT !.given = <<[AskStep EXCEPT !.sql = "blank"]>>]>>},
        required \in BOOLEAN, short \in BOOLEAN}

MCSuites == VerdictSuites \cup CookieSuites \cup SnapshotSuites \cup RunSuites \cup FlagSuites

KilledSuites == {s \in RunSuites : s.maxFaults = 0}

MCInstants == {0, 3}
=============================================================================
