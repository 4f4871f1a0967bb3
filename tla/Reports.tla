-------------------------------- MODULE Reports --------------------------------
(***************************************************************************)
(* The identity of a page, from the URL that is dispatched to the line that   *)
(* the dashboard shows of it: a dispatch is for a canonical URL                *)
(* (services/canonical-url.ts, services/scope.ts), the jobs of a site are      *)
(* grouped by URL in SQL, the groups of one page are merged, and the credits   *)
(* that a second query has summed up per URL are attributed to it              *)
(* (GET /sites/:id/pages in routes/sites.ts).                                *)
(*                                                                         *)
(* A URL is a path (whatever its case, with or without a slash at the end:     *)
(* groups and pages make no difference there) and the parameters of its query,  *)
(* which the canonical form sorts. Hosts are left out, as are the parts of a    *)
(* line that belong to one job: its CSS size and LCP image.                   *)
(***************************************************************************)
EXTENDS Naturals, Sequences, FiniteSetsExt, SequencesExt

CONSTANTS
    Path, None,
    Root,           \* the path of the home page
    Listed,         \* paths that optimize_only_urls matches
    Param,
    Ignored,        \* internal and tracking parameters, and those the site strips
    Visited,        \* the URLs that are dispatched (a subset of Url)
    Limit,          \* the groups that are read (100)
    MaxJobs, MaxTime    \* bounds

VARIABLES
    now,
    scope,      \* caching.optimize_scope ("templates-only" admits what "all" does)
    jobs,       \* optimization_jobs, with the state of their reservation
    reader      \* GET /pages: what it does next, its lines and sums, the jobs it saw

books == <<now, scope, jobs, reader>>

Resting == [pc |-> "rows", lines |-> <<>>, spent |-> None, saw |-> <<>>]

Url == [path : Path, query : SUBSET Param]

\* canonicalizeDispatchUrl
Canonical(url) == [url EXCEPT !.query = @ \ Ignored]

\* urlInScope
InScope(url) ==
    scope = "main-pages" => url.path = Root \/ url.path \in Listed

\* groupingKeyForUrl, and the expression that the SQL groups by.
PageOf(url) == url.path
GroupOf(url) == url

-----------------------------------------------------------------------------
Tick ==
    /\ now < MaxTime /\ now' = now + 1
    /\ UNCHANGED <<scope, jobs, reader>>

\* A job is free if a template fits its page.
Dispatch(url, credit) ==
    /\ Len(jobs) < MaxJobs /\ InScope(url)
    /\ jobs' = Append(jobs, [url |-> Canonical(url), at |-> now, status |-> "queued",
                             credit |-> credit])
    /\ UNCHANGED <<now, scope, reader>>

Finish(j, status) ==
    /\ jobs[j].status = "queued"
    /\ jobs' = [jobs EXCEPT ![j].status = status,
                            ![j].credit = IF @ = "none" THEN @
                                          ELSE IF status = "completed" THEN "consumed"
                                          ELSE "released"]
    /\ UNCHANGED <<now, scope, reader>>

-----------------------------------------------------------------------------
Having(status) == {j \in DOMAIN jobs : jobs[j].status = status}
Latest(js) == IF js = {} THEN None ELSE Max({jobs[j].at : j \in js})

\* SELECT ... GROUP BY lower(rtrim(url, '/'))
Groups == {GroupOf(jobs[j].url) : j \in DOMAIN jobs}

Row(g) ==
    LET js == {j \in DOMAIN jobs : GroupOf(jobs[j].url) = g} IN
    [url |-> g,
     total |-> Cardinality(js),
     completed |-> Cardinality(js \cap Having("completed")),
     failed |-> Cardinality(js \cap Having("failed")),
     run |-> Latest(js),
     done |-> Latest(js \cap Having("completed"))]

\* ORDER BY last_run_at DESC, in any order where that is the same.
Ordered(rows) == \A i, k \in DOMAIN rows : i < k => rows[i].run >= rows[k].run

\* Mutant of Merged: later rows only count if they ran later.
MergedIfLater(line, row) ==
    IF row.run > line.run
    THEN [line EXCEPT !.total = @ + row.total, !.completed = @ + row.completed,
                      !.failed = @ + row.failed, !.run = row.run, !.done = row.done]
    ELSE line

\* A further row of a page.
Merged(line, row) ==
    [line EXCEPT
        !.total = @ + row.total, !.completed = @ + row.completed, !.failed = @ + row.failed,
        !.run = IF row.run > @ THEN row.run ELSE @,
        !.done = IF row.done # None /\ (@ = None \/ row.done > @) THEN row.done ELSE @,
        !.url = IF @.query = {} \/ row.url.query = {} THEN row.url ELSE @]

\* Each row makes the line of its page, or is added to it.
Entered(lines, row) ==
    LET p == PageOf(row.url) IN
    IF p \in DOMAIN lines THEN [lines EXCEPT ![p] = Merged(@, row)]
    ELSE [q \in DOMAIN lines \cup {p} |-> IF q = p THEN row ELSE lines[q]]

Lines(rows) == FoldLeft(Entered, <<>>, rows)

\* LIMIT
Shown(rows) == [i \in DOMAIN rows \cap 1..Limit |-> rows[i]]

ReadRows ==
    /\ reader.pc = "rows" /\ jobs # <<>>
    /\ \E order \in SetToSeqs(Groups) :
         LET rows == [i \in DOMAIN order |-> Row(order[i])] IN
         /\ Ordered(rows)
         /\ reader' = [reader EXCEPT !.pc = "spend", !.saw = jobs, !.lines = Lines(Shown(rows))]
    /\ UNCHANGED <<now, scope, jobs>>

\* The credits held or consumed, per URL and then per page.
Spent(p) ==
    Cardinality({j \in DOMAIN jobs : /\ PageOf(jobs[j].url) = p
                                     /\ jobs[j].credit \in {"reserved", "consumed"}})

ReadSpend ==
    /\ reader.pc = "spend"
    /\ reader' = [reader EXCEPT !.pc = "answer", !.spent = [p \in Path |-> Spent(p)]]
    /\ UNCHANGED <<now, scope, jobs>>

Answer ==
    /\ reader.pc = "answer" /\ reader' = Resting
    /\ UNCHANGED <<now, scope, jobs>>

-----------------------------------------------------------------------------
Init ==
    /\ now = 0 /\ scope \in {"all", "main-pages"} /\ jobs = <<>>
    /\ reader = Resting

Next ==
    \/ Tick
    \/ \E url \in Visited, credit \in {"none", "reserved"} : Dispatch(url, credit)
    \/ \E j \in DOMAIN jobs, status \in {"completed", "failed"} : Finish(j, status)
    \/ ReadRows \/ ReadSpend \/ Answer

Spec == Init /\ [][Next]_books

-----------------------------------------------------------------------------
\* A line of an answer accounts for every job of its page that there was when the rows were
\* read, each once, whatever its query, and no page is left out, if the site has no more groups
\* than are read. Even if it has, the line has the date of the page's latest job; and the
\* credits, although read later, cover every job of the page that was completed and paid.
PagesAddUp ==
    reader.pc = "answer" =>
        LET saw == reader.saw
            Of(p) == {j \in DOMAIN saw : PageOf(saw[j].url) = p}
            With(status, js) == {j \in js : saw[j].status = status}
            Newest(js) == IF js = {} THEN None ELSE saw[Max(js)].at
            whole == Cardinality({GroupOf(saw[j].url) : j \in DOMAIN saw}) <= Limit
        IN  /\ whole => DOMAIN reader.lines = {PageOf(saw[j].url) : j \in DOMAIN saw}
            /\ \A p \in DOMAIN reader.lines :
                LET line == reader.lines[p]
                    done == With("completed", Of(p))
                IN  /\ line.run = Newest(Of(p))
                    /\ reader.spent[p] >= Cardinality({j \in done : saw[j].credit = "consumed"})
                    /\ whole => /\ line.total = Cardinality(Of(p))
                                /\ line.completed = Cardinality(done)
                                /\ line.failed = Cardinality(With("failed", Of(p)))
                                /\ line.done = Newest(done)
=============================================================================
