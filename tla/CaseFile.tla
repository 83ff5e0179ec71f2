------------------------------ MODULE CaseFile ------------------------------
(***************************************************************************)
(* The two files a conformance run is written in, contract/conformance:    *)
(* the cases and the list of permitted differences, and which of them the  *)
(* loaders accept.  Values only.                                           *)
(*                                                                         *)
(* A case, a step, an entry is the record its YAML decodes to.  None is a  *)
(* key that is not there, a map is a function on the keys it has, a list   *)
(* whose order means nothing is a set, and prose is whether there is any.  *)
(***************************************************************************)
EXTENDS Integers, Sequences

CONSTANT None

Backends == {"go", "kotlin"}

Profiles == {"default", "local-disabled"}

ProfileOf(c) == IF c.profile = "" THEN "default" ELSE c.profile

\* What a map gives for a key it may not have.
Lookup(map, key, zero) == IF key \in DOMAIN map THEN map[key] ELSE zero

StatusFor(expect, b) ==
    IF expect.statusByBackend # None
    THEN Lookup(expect.statusByBackend, b, 0)
    ELSE expect.status

SameAsRequest(expect, b) == Lookup(expect.sameAsFor, b, expect.sameAs)

-----------------------------------------------------------------------------
(***************************************************************************)
(* Cases.                                                                  *)
(***************************************************************************)

\* A target is relative to the API's base unless it is in asterisk or absolute
\* form; hex maps a header to whether its value is hex.
ValidRequest(r) ==
    /\ r.method # ""
    /\ r.path = "" \/ r.rawTarget = ""
    /\ IF r.rawTarget # "" THEN r.form \in {"asterisk", "absolute", "slash"}
                           ELSE r.form = "slash"
    /\ \A name \in DOMAIN r.headersHex :
           name # "Host" /\ name \notin r.headers /\ r.headersHex[name]
    /\ r.pad # None => r.pad.with # "" /\ r.pad.count > 0 /\ r.pad.tokens = 1

\* Exactly one of the two, and per backend only where the two differ.
ValidStatus(c) ==
    LET by == c.expect.statusByBackend
    IN  IF by = None
        THEN c.expect.status # 0
        ELSE /\ c.expect.status = 0
             /\ DOMAIN by = Backends
             /\ \A b \in Backends : by[b] # 0
             /\ by["go"] # by["kotlin"]
             /\ c.permit # {}

\* A same_as that is the request itself would compare an answer with itself.  A
\* same_as_for key with nothing under it is a nil request, which panics.
ValidSameAs(c) ==
    LET other(r) == r # None /\ ValidRequest(r) /\ r # c.request
    IN  /\ c.expect.sameAs # None => other(c.expect.sameAs)
        /\ \A b \in DOMAIN c.expect.sameAsFor :
               b \in Backends /\ other(c.expect.sameAsFor[b])

\* A step is one of three things, and an outage is the last step.  Its SQL is
\* "", "blank" (white space, which is trimmed here and so is none) or a
\* "statement".
ValidStep(given, i) ==
    LET g   == given[i]
        sql == g.sql = "statement"
    IN  \/ /\ g.request # None /\ ~ sql /\ ~ g.outage
           /\ ValidRequest(g.request) /\ g.status # 0
        \/ g.request = None /\ sql /\ ~ g.outage /\ g.status = 0
        \/ g.request = None /\ ~ sql /\ g.outage /\ g.status = 0 /\ i = Len(given)

\* Every attribute but Domain is pinned.
ValidCookieExpect(w) ==
    /\ (w.value = None) # (w.pattern = None)
    /\ w.path # None /\ w.maxAge # None /\ w.httpOnly # None /\ w.secure # None
    /\ w.sameSite # ""
    /\ w.expires \in {"absent", "past", "max-age"}

\* A body is pinned one way at most.
ValidBody(expect) ==
    /\ expect.bodyJSON = None \/ expect.bodyRaw = None
    /\ expect.bodyEmpty => expect.bodyJSON = None /\ expect.bodyRaw = None

ValidCase(c) ==
    /\ c.name # ""
    /\ ValidRequest(c.request)
    /\ ValidStatus(c)
    /\ ValidSameAs(c)
    /\ ValidBody(c.expect)
    /\ ProfileOf(c) \in Profiles
    /\ \A i \in DOMAIN c.given : ValidStep(c.given, i)
    /\ c.expect.cookies # None =>
           \A n \in DOMAIN c.expect.cookies : ValidCookieExpect(c.expect.cookies[n])
    /\ \A i \in DOMAIN c.expect.rows : c.expect.rows[i].sql /\ c.expect.rows[i].rows # None

Load(cases) ==
    /\ \A i \in DOMAIN cases : ValidCase(cases[i])
    /\ \A i, j \in DOMAIN cases : cases[i].name = cases[j].name => i = j

-----------------------------------------------------------------------------
(***************************************************************************)
(* Permitted differences.  A column is the parts its name has between its  *)
(* dots, and a header's name is in lower case.                             *)
(***************************************************************************)

\* A header or a column on every case, or a name that cases cite.
ValidEntry(e) ==
    /\ <<e.header # "", e.name # "", e.column # <<>>>> \in
           { <<TRUE, FALSE, FALSE>>, <<FALSE, TRUE, FALSE>>, <<FALSE, FALSE, TRUE>> }
    /\ e.column # <<>> => Len(e.column) = 2 /\ \A i \in 1 .. 2 : e.column[i] # ""
    /\ e.why
    /\ e.provisional => e.issue
    /\ IF e.name = ""
       THEN e.headers = {} /\ ~ e.body /\ ~ e.status
       ELSE e.issue /\ (e.headers # {} \/ e.body \/ e.status)

LoadPermitted(entries) ==
    /\ \A i \in DOMAIN entries : ValidEntry(entries[i])
    /\ \A i, j \in DOMAIN entries :
           /\ entries[i].header = entries[j].header
           /\ entries[i].name = entries[j].name
           /\ entries[i].column = entries[j].column
           => i = j

PermittedSet(entries) == {entries[i] : i \in DOMAIN entries}

Allows(permitted, header) == \E e \in permitted : e.header = header

MasksColumn(permitted, table, column) ==
    \E e \in permitted : e.column = <<table, column>>

\* The case-scoped entries a case cites.
Cited(permitted, c) == {e \in permitted : e.name # "" /\ e.name \in c.permit}

\* ForCase.
AllowsHeader(permitted, c, header) ==
    \/ Allows(permitted, header)
    \/ \E e \in Cited(permitted, c) : header \in e.headers

AllowsBody(permitted, c) == \E e \in Cited(permitted, c) : e.body

AllowsStatus(permitted, c) == \E e \in Cited(permitted, c) : e.status

\* Mutant: a same_as_for on either backend taken for a pin.
HasBodyPinOnEither(expect) ==
    \/ expect.sameAs # None \/ DOMAIN expect.sameAsFor # {}
    \/ expect.bodyJSON # None \/ expect.bodyRaw # None \/ expect.bodyEmpty

\* What holds Go's body when the other backend's may differ.
HasBodyPin(expect) ==
    \/ expect.sameAs # None \/ "go" \in DOMAIN expect.sameAsFor
    \/ expect.bodyJSON # None \/ expect.bodyRaw # None \/ expect.bodyEmpty

CheckPermits(cases, permitted) ==
    /\ \A i \in DOMAIN cases :
           LET c == cases[i]
           IN  /\ c.expect.statusByBackend # None => AllowsStatus(permitted, c)
               /\ \A n \in c.permit : \E e \in permitted : e.name = n /\ n # ""
               /\ \A e \in Cited(permitted, c) :
                      /\ e.body => HasBodyPin(c.expect)
                      /\ e.status => c.expect.statusByBackend # None
    /\ \A e \in permitted : e.name # "" => \E i \in DOMAIN cases : e.name \in cases[i].permit

\* What TestConformance goes on with.
Accepted(cases, entries) ==
    LoadPermitted(entries) /\ Load(cases) /\ CheckPermits(cases, PermittedSet(entries))
=============================================================================
