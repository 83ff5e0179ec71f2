------------------------------- MODULE Parity -------------------------------
(***************************************************************************)
(* What a conformance run holds two backends to on one case: each answer   *)
(* to the case, each to its own answer to another request, and the two     *)
(* answers and the rows behind them to each other.  Values only.           *)
(*                                                                         *)
(* An answer is its status, its headers (a function from lower-case names  *)
(* to the values sent), its Set-Cookie lines and its body.  Instants are   *)
(* seconds.  A cookie's value is a sequence of bytes; a pattern is the set *)
(* of the values it matches.                                               *)
(***************************************************************************)
EXTENDS CaseFile

CONSTANTS Garbled,   \* an instant that does not parse
          Json,      \* what each body parses to, None if it is not JSON
          Columns    \* each table's columns, in the order of their names

ExpiresTolerance == 2

StateTolerance == 2

Within(d, tolerance) == -tolerance <= d /\ d <= tolerance

\* What a list has at the places in a set, in the list's order.
Selected(list, places) ==
    LET upTo[k \in 0 .. Len(list)] ==
            IF k = 0 THEN <<>>
            ELSE IF k \in places THEN Append(upTo[k - 1], list[k]) ELSE upTo[k - 1]
    IN  upTo[Len(list)]

-----------------------------------------------------------------------------
(***************************************************************************)
(* Cookies.                                                                *)
(***************************************************************************)

\* The header's first value; a name with none reads as "".
Get(headers, name) == IF name \in DOMAIN headers THEN headers[name][1] ELSE ""

\* Mutant: instants measured from one moment for both backends.
DateOfRun(answer) == 0

\* The Date an answer's instants are measured against, None without one.
DateOf(answer) ==
    IF "date" \notin DOMAIN answer.headers \/ answer.headers["date"][1] = Garbled
    THEN None
    ELSE answer.headers["date"][1]

\* ParseSetCookies gives up on the whole header for one line without a name.
CookiesParse(answer) == \A i \in DOMAIN answer.cookies : answer.cookies[i].name # ""

\* An error is a class of its own.
expiresRelation(c, date) ==
    CASE c.expires = None                    -> [class |-> "absent", ahead |-> 0]
      [] c.expires = Garbled                 -> [class |-> "error", ahead |-> 0]
      [] c.expires \notin {None, Garbled} ->
             IF date = None THEN [class |-> "error", ahead |-> 0]
             ELSE IF c.expires <= date THEN [class |-> "past", ahead |-> 0]
             ELSE [class |-> "future", ahead |-> c.expires - date]

KnownAttrs == {"path", "domain", "max-age", "httponly", "secure", "samesite"}

CheckCookie(c, want, date) ==
    LET has(attr) == attr \in DOMAIN c.attrs
        r == expiresRelation(c, date)
    IN  /\ want.value # None => c.value = want.value
        /\ want.pattern # None => c.value \in want.pattern
        /\ Lookup(c.attrs, "path", "") = want.path
        /\ IF want.domain = "" THEN ~ has("domain")
                               ELSE Lookup(c.attrs, "domain", "") = want.domain
        /\ has("max-age") /\ c.attrs["max-age"] = want.maxAge
        /\ has("httponly") = want.httpOnly
        /\ has("secure") = want.secure
        /\ Lookup(c.attrs, "samesite", "") = want.sameSite
        /\ IF want.expires = "max-age"
           THEN r.class = "future" /\ Within(r.ahead - want.maxAge, ExpiresTolerance)
           ELSE r.class = want.expires
        /\ DOMAIN c.attrs \subseteq KnownAttrs

\* A minted value is compared by its length, an expiry by how far ahead it is.
SameCookie(a, b, aDate, bDate) ==
    LET ar == expiresRelation(a, aDate)
        br == expiresRelation(b, bDate)
    IN  /\ Len(a.value) = Len(b.value)
        /\ a.attrs = b.attrs
        /\ (a.expires = None) = (b.expires = None)
        /\ "error" \notin {ar.class, br.class}
        /\ ar.class = br.class
        /\ Within(ar.ahead - br.ahead, ExpiresTolerance)

\* Cookies are paired by name, in the order they are set.
Named(cookies, n) == Selected(cookies, {i \in DOMAIN cookies : cookies[i].name = n})

CookieParity(a, b, aDate, bDate) ==
    \A n \in {a[i].name : i \in DOMAIN a} \cup {b[i].name : i \in DOMAIN b} :
        LET as == Named(a, n)
            bs == Named(b, n)
        IN  /\ Len(as) = Len(bs)
            /\ \A i \in 1 .. Len(as) : SameCookie(as[i], bs[i], aDate, bDate)

-----------------------------------------------------------------------------
(***************************************************************************)
(* Persisted state.  A table is the sequence of its rows as a scan gives   *)
(* them, a row a function from its columns to a number, or None for NULL:  *)
(* an instant in a timestamp column, a text otherwise, where the numbers'  *)
(* order is that of the texts.                                             *)
(***************************************************************************)

Tables == DOMAIN Columns

\* The columns of a table a snapshot reads.
Kept(permitted, t) ==
    Selected(Columns[t],
             {i \in DOMAIN Columns[t] : ~ MasksColumn(permitted, t, Columns[t][i].name)})

\* A row as a snapshot taken at an instant holds it.
Cells(kept, row, now) ==
    [n \in {kept[i].name : i \in DOMAIN kept} |->
        IF row[n] # None /\ \E i \in DOMAIN kept : kept[i].name = n /\ kept[i].timestamp
        THEN row[n] - now
        ELSE row[n]]

\* The cells a row is sorted by: an instant is left out, a NULL one is not.
SortCells(kept, row) ==
    Selected([i \in DOMAIN kept |-> row[kept[i].name]],
             {i \in DOMAIN kept : ~ (kept[i].timestamp /\ row[kept[i].name] # None)})

\* A quoted text is before NULL.
CellBefore(x, y) == x # None /\ (y = None \/ x < y)

\* key() of the one is before key() of the other.
KeyBefore(k, l) ==
    \E i \in 1 .. Len(l) :
        /\ i <= Len(k) + 1
        /\ SubSeq(k, 1, i - 1) = SubSeq(l, 1, i - 1)
        /\ i = Len(k) + 1 \/ CellBefore(k[i], l[i])

\* Mutant: the rows left as the scan gave them.
ScanOrder(kept, rows) == {[i \in 1 .. Len(rows) |-> i]}

\* The orders sort.Slice may leave a scan's rows in: equal keys stay anyhow.
Sorted(kept, rows) ==
    {p \in [1 .. Len(rows) -> 1 .. Len(rows)] :
        /\ \A i, j \in 1 .. Len(rows) : p[i] = p[j] => i = j
        /\ \A i, j \in 1 .. Len(rows) :
               i < j => ~ KeyBefore(SortCells(kept, rows[p[j]]), SortCells(kept, rows[p[i]]))}

\* The snapshots of a database at an instant: a table all masked has no rows.
\* (A bound kept is computed once.)
Snapshots(permitted, db, now) ==
    LET view(t) ==
            UNION {IF kept = <<>> THEN {<<>>}
                   ELSE {[i \in 1 .. Len(db[t]) |-> Cells(kept, db[t][p[i]], now)] :
                             p \in Sorted(kept, db[t])} : kept \in {Kept(permitted, t)}}
    IN  {s \in [Tables -> UNION {view(t) : t \in Tables}] : \A t \in Tables : s[t] \in view(t)}

SameCell(timestamp, x, y) ==
    \/ x = y
    \/ timestamp /\ x # None /\ y # None /\ Within(x - y, StateTolerance)

IsTimestamp(t, n) == \E i \in DOMAIN Columns[t] : Columns[t][i].name = n /\ Columns[t][i].timestamp

\* equal.
SameRow(t, r, o) ==
    DOMAIN r = DOMAIN o /\ \A n \in DOMAIN r : SameCell(IsTimestamp(t, n), r[n], o[n])

SnapshotParity(a, b) ==
    \A t \in Tables : Len(a[t]) = Len(b[t]) /\ \A i \in 1 .. Len(a[t]) : SameRow(t, a[t][i], b[t][i])

\* An expect.rows query counts a table's rows; a row it returns whose columns
\* are not cast to text, an integer or a boolean is refused.
Query(q, db) == IF q.cast \/ db[q.table] = <<>> THEN Len(db[q.table]) ELSE None

-----------------------------------------------------------------------------
(***************************************************************************)
(* The verdict on a case.  A run is one backend's answer, its answer to    *)
(* the same_as request (None without one), its queries' results and its    *)
(* snapshot.                                                               *)
(***************************************************************************)

perResponseHeaders == {"date", "x-request-id"}

\* Each cookie the case names once and as it says, and no other.
assertCookies(c, got) ==
    /\ CookiesParse(got)
    /\ \A i \in DOMAIN got.cookies :
           LET ck == got.cookies[i]
           IN  /\ ck.name \in DOMAIN c.expect.cookies
               /\ CheckCookie(ck, c.expect.cookies[ck.name], DateOf(got))
    /\ \A n \in DOMAIN c.expect.cookies : Len(Named(got.cookies, n)) = 1

assertExpected(c, got, b) ==
    LET e == c.expect
    IN  /\ got.status = StatusFor(e, b)
        /\ \A n \in DOMAIN e.headers : Get(got.headers, n) = e.headers[n]
        /\ e.cookies # None => assertCookies(c, got)
        /\ IF e.bodyEmpty THEN got.body = ""
           ELSE IF e.bodyRaw # None THEN got.body = e.bodyRaw
           ELSE e.bodyJSON # None => Json[got.body] = e.bodyJSON

\* The values two answers send for a header other than Set-Cookie.
SameHeader(a, b, n) == Lookup(a.headers, n, <<>>) = Lookup(b.headers, n, <<>>)

assertSameAs(got, ref) ==
    /\ got.status = ref.status
    /\ \A n \in (DOMAIN got.headers \cup DOMAIN ref.headers) \ perResponseHeaders :
           SameHeader(got, ref, n)
    /\ got.cookies = ref.cookies
    /\ got.body = ref.body

equalBodies(x, y) == x = y \/ (Json[x] # None /\ Json[x] = Json[y])

assertParity(c, permitted, go, kt) ==
    /\ AllowsStatus(permitted, c) \/ go.status = kt.status
    /\ \A n \in DOMAIN go.headers \cup DOMAIN kt.headers :
           AllowsHeader(permitted, c, n) \/ SameHeader(go, kt, n)
    /\ \/ AllowsHeader(permitted, c, "set-cookie")
       \/ /\ CookiesParse(go) /\ CookiesParse(kt)
          /\ CookieParity(go.cookies, kt.cookies, DateOf(go), DateOf(kt))
    /\ AllowsBody(permitted, c) \/ equalBodies(go.body, kt.body)

assertRows(c, results) ==
    \A i \in DOMAIN c.expect.rows : results[i] = c.expect.rows[i].rows

\* The subtests of a case: expected/<backend> for both, and parity.
Green(c, permitted, runs) ==
    /\ \A b \in Backends :
           /\ assertExpected(c, runs[b].resp, b)
           /\ runs[b].ref # None => assertSameAs(runs[b].resp, runs[b].ref)
           /\ assertRows(c, runs[b].rows)
    /\ assertParity(c, permitted, runs["go"].resp, runs["kotlin"].resp)
    /\ SnapshotParity(runs["go"].state, runs["kotlin"].state)
=============================================================================
