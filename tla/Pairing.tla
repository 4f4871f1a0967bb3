-------------------------------- MODULE Pairing --------------------------------
(***************************************************************************)
(* The pairing handshake of one domain: the connect page of the dashboard   *)
(* (app/connect/page.tsx), the edge's /auth/pair, /auth/redeem and          *)
(* /auth/verify (routes/auth.ts, middleware/auth.ts), POST /sites, and the  *)
(* plugin's return handler (class-handshake.php). Who may pair, and how many *)
(* sites, is SiteAccess; what /verify does to the configuration, ConfigSync. *)
(*                                                                         *)
(* An API key lives in five places: D1 keeps its hash, KV a record that     *)
(* answers for the row for an hour (site:<domain>), KV the key itself until *)
(* the plugin fetches it (pair_redeem:<state>), the plugin its option, and   *)
(* each request the copy in its hand. Every pairing mints another key, and   *)
(* the last one written to D1 is the one that counts. Keys are numbered in   *)
(* the order of their upserts; a hash is as good as its key. A nonce "state" *)
(* is a member of State, with a transient in WordPress and two KV entries.   *)
(***************************************************************************)
EXTENDS Naturals, FiniteSets

CONSTANTS
    State,          \* nonces of generate_connect_url: one per connect page
    Pairer,         \* /pair and POST /sites requests in progress at once
    Return,         \* requests of the return URL in WordPress
    Caller,         \* other calls of the plugin to the edge
    None,
    MaxPolls,       \* the page's polls for a purchase (20 in the code)
    MaxKeys,        \* bound on the keys minted
    MaxFaults,      \* bound on lost answers, crashes, lapses, expired nonces, reloads
    MaxCalls        \* bound on other calls, and on repeated returns

ASSUME ActorAssumption ==
    Pairer \cap Return = {} /\ Pairer \cap Caller = {} /\ Return \cap Caller = {}
ASSUME NoneAssumption == None \notin State \cup Nat
ASSUME BoundAssumption == {MaxPolls, MaxKeys, MaxFaults, MaxCalls} \subseteq Nat

Actor == Pairer \cup Return \cup Caller
Key == 1..MaxKeys
Page == {"none", "loading", "plans", "confirming", "ready", "authorizing", "paired", "left"}

VARIABLES
    paid,       \* the account has an active subscription
    page,       \* page[s]: what the connect page of s shows
    polls,      \* polls[s]: billing polls since the checkout
    row,        \* sites.site_api_key_hash, or None
    record,     \* the key in site:<domain>, or None
    binding,    \* binding[s]: pair_state:<s> is in KV
    redeem,     \* redeem[s]: the key in pair_redeem:<s>, or None
    transient,  \* transient[s]: wpins_auth_state_<s> is in WordPress
    option,     \* the plugin's API key, or None
    proc,       \* the statement each request is about to execute, and what it holds
    minted, faults, calls,
    last,       \* history: the last /pair request, and whether its answer arrived
    orderly,    \* history: no request of a handshake overlapped another
    verified    \* history: the key /verify accepted for a return since the last upsert

net  == <<page, polls, paid>>
edge == <<row, record, binding, redeem>>
wp   == <<transient, option>>
hist == <<last, orderly, verified>>
vars == <<net, edge, wp, proc, minted, faults, calls, hist>>

Idle == [pc |-> "idle", state |-> None, key |-> None, seen |-> None, live |-> FALSE]
At(a, pc) == proc[a].pc = pc
Become(a, p) == proc' = [proc EXCEPT ![a] = p]
Goto(a, pc)  == proc' = [proc EXCEPT ![a].pc = pc]
Rest(a) == Become(a, Idle)

Busy == {a \in Pairer \cup Return : ~At(a, "idle")}
Fault == faults < MaxFaults /\ faults' = faults + 1

-----------------------------------------------------------------------------
(***************************************************************************)
(* The connect page                                                        *)
(***************************************************************************)
Shown(s, what) == page' = [page EXCEPT ![s] = what]

\* generate_connect_url, and the browser opens it.
Connect(s) ==
    /\ page[s] = "none"
    /\ transient' = [transient EXCEPT ![s] = TRUE]
    /\ Shown(s, "loading")
    /\ UNCHANGED <<paid, polls, edge, option, proc, minted, faults, calls, hist>>

\* loadBilling. When it fails the page shows the plans all the same.
Load(s) ==
    /\ page[s] = "loading"
    /\ \/ Shown(s, IF paid THEN "ready" ELSE "plans") /\ UNCHANGED faults
       \/ Fault /\ Shown(s, "plans")
    /\ UNCHANGED <<paid, polls, edge, wp, proc, minted, calls, hist>>

\* handlePurchasePlan: to the checkout, and back to this page with ?success=1.
Purchase(s) ==
    /\ page[s] = "plans"
    /\ Shown(s, "confirming") /\ polls' = [polls EXCEPT ![s] = 0]
    /\ UNCHANGED <<paid, edge, wp, proc, minted, faults, calls, hist>>

\* A poll that finds no plan, or no answer, counts; after the last the page gives up.
Poll(s) ==
    /\ page[s] = "confirming"
    /\ \/ paid /\ Shown(s, "ready") /\ UNCHANGED <<polls, faults>>
       \/ /\ \/ ~paid /\ UNCHANGED faults
             \/ Fault
          /\ polls' = [polls EXCEPT ![s] = @ + 1]
          /\ IF polls[s] + 1 >= MaxPolls THEN Shown(s, "plans") ELSE UNCHANGED page
    /\ UNCHANGED <<paid, edge, wp, proc, minted, calls, hist>>

\* The payment provider's webhook, after a checkout; and the end of a subscription.
Pay ==
    /\ ~paid /\ \E s \in State : page[s] \in {"confirming", "plans"}
    /\ paid' = TRUE
    /\ UNCHANGED <<page, polls, edge, wp, proc, minted, faults, calls, hist>>

Lapse ==
    /\ paid /\ Fault /\ paid' = FALSE
    /\ UNCHANGED <<page, polls, edge, wp, proc, minted, calls, hist>>

\* Reload, or Back from the return: whatever request was in progress goes on unheard.
Reload(s) ==
    /\ page[s] \notin {"none", "loading"} /\ Fault
    /\ Shown(s, "loading")
    /\ proc' = [a \in Actor |-> IF a \in Pairer /\ proc[a].state = s
                                THEN [proc[a] EXCEPT !.live = FALSE] ELSE proc[a]]
    /\ UNCHANGED <<paid, polls, edge, wp, minted, calls, hist>>

\* handleAuthorize.
Authorize(s, p) ==
    /\ page[s] = "ready" /\ At(p, "idle") /\ minted + Cardinality(Busy \cap Pairer) < MaxKeys
    /\ Shown(s, "authorizing")
    /\ Become(p, [Idle EXCEPT !.pc = "gate", !.state = s, !.live = TRUE])
    /\ last' = [state |-> s, answered |-> FALSE]
    /\ orderly' = (orderly /\ Busy = {})
    /\ UNCHANGED <<paid, polls, edge, wp, minted, faults, calls, verified>>

\* The countdown ends: the browser follows callback_url.
Redirect(s, r) ==
    /\ page[s] = "paired" /\ At(r, "idle")
    /\ Shown(s, "left")
    /\ Become(r, [Idle EXCEPT !.pc = "return", !.state = s])
    /\ orderly' = (orderly /\ Busy = {} /\ last = [state |-> s, answered |-> TRUE])
    /\ UNCHANGED <<paid, polls, edge, wp, minted, faults, calls, last, verified>>

\* The return URL is opened again: a reload in wp-admin, or Forward.
Revisit(s, r) ==
    /\ page[s] \notin {"none"} /\ At(r, "idle") /\ calls < MaxCalls
    /\ calls' = calls + 1
    /\ Become(r, [Idle EXCEPT !.pc = "return", !.state = s])
    /\ orderly' = (orderly /\ Busy = {} /\ last = [state |-> s, answered |-> TRUE])
    /\ UNCHANGED <<net, edge, wp, minted, faults, last, verified>>

-----------------------------------------------------------------------------
(***************************************************************************)
(* POST /auth/pair, and POST /sites (a pairing without a nonce)            *)
(***************************************************************************)
Heard(p, what) ==
    IF proc[p].live THEN Shown(proc[p].state, what) ELSE UNCHANGED page

Register(p) ==
    /\ At(p, "idle") /\ row # None /\ minted + Cardinality(Busy \cap Pairer) < MaxKeys /\ Fault
    /\ Become(p, [Idle EXCEPT !.pc = "gate"])
    /\ orderly' = (orderly /\ Busy = {})
    /\ last' = [state |-> None, answered |-> FALSE]
    /\ UNCHANGED <<net, edge, wp, minted, calls, verified>>

\* No active subscription: 402, and the page looks at the billing again.
Refuse(p) ==
    /\ At(p, "gate") /\ ~paid
    /\ Heard(p, "loading") /\ Rest(p)
    /\ UNCHANGED <<paid, polls, edge, wp, minted, faults, calls, hist>>

Admit(p) ==
    /\ At(p, "gate") /\ paid
    /\ Goto(p, "upsert")
    /\ UNCHANGED <<net, edge, wp, minted, faults, calls, hist>>

\* Mutant of Upsert: ON CONFLICT leaves site_api_key_hash as it is.
UpsertKeepsHash(p) ==
    /\ At(p, "upsert")
    /\ minted' = minted + 1 /\ row' = IF row = None THEN minted' ELSE row
    /\ proc' = [proc EXCEPT ![p].pc = "record", ![p].key = minted']
    /\ verified' = None
    /\ UNCHANGED <<net, record, binding, redeem, wp, faults, calls, last, orderly>>

Upsert(p) ==
    /\ At(p, "upsert")
    /\ minted' = minted + 1 /\ row' = minted'
    /\ proc' = [proc EXCEPT ![p].pc = "record", ![p].key = minted']
    /\ verified' = None
    /\ UNCHANGED <<net, record, binding, redeem, wp, faults, calls, last, orderly>>

PutRecord(p) ==
    /\ At(p, "record")
    /\ record' = proc[p].key
    /\ IF proc[p].state = None THEN Rest(p) ELSE Goto(p, "bind")
    /\ UNCHANGED <<net, row, binding, redeem, wp, minted, faults, calls, hist>>

PutState(p) ==
    /\ At(p, "bind")
    /\ binding' = [binding EXCEPT ![proc[p].state] = TRUE]
    /\ Goto(p, "code")
    /\ UNCHANGED <<net, row, record, redeem, wp, minted, faults, calls, hist>>

PutRedeem(p) ==
    /\ At(p, "code")
    /\ redeem' = [redeem EXCEPT ![proc[p].state] = proc[p].key]
    /\ Goto(p, "answer")
    /\ UNCHANGED <<net, row, record, binding, wp, minted, faults, calls, hist>>

\* callback_url reaches the page, if it still waits for it.
Answer(p) ==
    /\ At(p, "answer")
    /\ Heard(p, "paired") /\ Rest(p)
    /\ last' = IF proc[p].live /\ last.state = proc[p].state
               THEN [last EXCEPT !.answered = TRUE] ELSE last
    /\ UNCHANGED <<paid, polls, edge, wp, minted, faults, calls, orderly, verified>>

\* The request fails, or its answer is lost: the page offers the button again.
PairFails(p) ==
    /\ ~At(p, "idle") /\ Fault
    /\ Heard(p, "ready") /\ Rest(p)
    /\ UNCHANGED <<paid, polls, edge, wp, minted, calls, hist>>

-----------------------------------------------------------------------------
(***************************************************************************)
(* handle_return, with /redeem and /verify; and the plugin's other calls   *)
(***************************************************************************)
CheckTransient(r) ==
    /\ At(r, "return")
    /\ IF transient[proc[r].state] THEN Goto(r, "redeem") ELSE Rest(r)
    /\ UNCHANGED <<net, edge, wp, minted, faults, calls, hist>>

ReadCode(r) ==
    /\ At(r, "redeem")
    /\ IF redeem[proc[r].state] = None THEN Rest(r)
       ELSE Become(r, [proc[r] EXCEPT !.pc = "consume", !.key = redeem[proc[r].state]])
    /\ UNCHANGED <<net, edge, wp, minted, faults, calls, hist>>

\* The code is deleted, then answered; an answer may be lost on its way.
Consume(r) ==
    /\ At(r, "consume")
    /\ redeem' = [redeem EXCEPT ![proc[r].state] = None]
    /\ Goto(r, "save")
    /\ UNCHANGED <<net, row, record, binding, wp, minted, faults, calls, hist>>

SaveKey(r) ==
    /\ At(r, "save")
    /\ transient' = [transient EXCEPT ![proc[r].state] = FALSE]
    /\ option' = proc[r].key
    /\ Goto(r, "auth")
    /\ UNCHANGED <<net, edge, minted, faults, calls, hist>>

\* A heartbeat, a dispatch, a settings save: any call with the plugin's key.
Call(c) ==
    /\ At(c, "idle") /\ option # None /\ calls < MaxCalls
    /\ calls' = calls + 1
    /\ Become(c, [Idle EXCEPT !.pc = "auth", !.key = option])
    /\ UNCHANGED <<net, edge, wp, minted, faults, hist>>

\* siteAuthMiddleware: the record, or else the row, must have the hash of the key.
Admitted(a, key) == Become(a, IF proc[a].key = key THEN [proc[a] EXCEPT !.pc = "state"] ELSE Idle)

ReadRecord(a) ==
    /\ At(a, "auth") /\ record # None
    /\ Admitted(a, record)
    /\ UNCHANGED <<net, edge, wp, minted, faults, calls, hist>>

ReadRow(a) ==
    /\ At(a, "auth") /\ record = None
    /\ Become(a, [proc[a] EXCEPT !.pc = "fill", !.seen = row])
    /\ UNCHANGED <<net, edge, wp, minted, faults, calls, hist>>

Fill(a) ==
    /\ At(a, "fill")
    /\ record' = proc[a].seen
    /\ Admitted(a, proc[a].seen)
    /\ UNCHANGED <<net, row, binding, redeem, wp, minted, faults, calls, hist>>

\* /verify with the nonce takes its binding; another call has none to show, and only
\* a /verify goes on to rewrite the record.
CheckState(a) ==
    /\ At(a, "state")
    /\ LET s == proc[a].state
       IN  \/ s # None /\ binding[s]
              /\ binding' = [binding EXCEPT ![s] = FALSE] /\ Goto(a, "sync")
           \/ s # None /\ ~binding[s] /\ Rest(a) /\ UNCHANGED binding
           \/ s = None /\ (Goto(a, "sync") \/ Rest(a)) /\ UNCHANGED binding
    /\ UNCHANGED <<net, row, record, redeem, wp, minted, faults, calls, hist>>

\* The record is read once more, and put back with the new configuration.
ReadSync(a) ==
    /\ At(a, "sync")
    /\ Become(a, [proc[a] EXCEPT !.seen = record,
                                 !.pc = IF record = None THEN "done" ELSE "rewrite"])
    /\ UNCHANGED <<net, edge, wp, minted, faults, calls, hist>>

Rewrite(a) ==
    /\ At(a, "rewrite")
    /\ record' = proc[a].seen
    /\ Goto(a, "done")
    /\ UNCHANGED <<net, row, binding, redeem, wp, minted, faults, calls, hist>>

\* The plugin says "connected"; or the call is over.
Done(a) ==
    /\ At(a, "done") /\ Rest(a)
    /\ verified' = IF proc[a].state # None THEN proc[a].key ELSE verified
    /\ UNCHANGED <<net, edge, wp, minted, faults, calls, last, orderly>>

\* A request of WordPress dies, or the edge's answer to it does not arrive.
CallFails(a) ==
    /\ ~At(a, "idle") /\ Fault
    /\ Rest(a)
    /\ UNCHANGED <<net, edge, wp, minted, calls, hist>>

\* ajax_disconnect.
Disconnect ==
    /\ option # None /\ Fault
    /\ option' = None /\ verified' = None
    /\ orderly' = (orderly /\ Busy = {})
    /\ UNCHANGED <<net, edge, transient, proc, minted, calls, last>>

-----------------------------------------------------------------------------
\* TTLs: the record's hour; the transient's, the binding's, and the code's ten minutes.
\* Mutant of ExpireRecord: the record is put without expirationTtl.
RecordStays == FALSE /\ UNCHANGED vars

ExpireRecord ==
    /\ record # None
    /\ record' = None
    /\ UNCHANGED <<net, row, binding, redeem, wp, proc, minted, faults, calls, hist>>

ExpireNonce(s) ==
    /\ Fault
    /\ \/ transient[s] /\ transient' = [transient EXCEPT ![s] = FALSE] /\ UNCHANGED <<binding, redeem>>
       \/ binding[s] /\ binding' = [binding EXCEPT ![s] = FALSE] /\ UNCHANGED <<transient, redeem>>
       \/ redeem[s] # None /\ redeem' = [redeem EXCEPT ![s] = None] /\ UNCHANGED <<transient, binding>>
    /\ UNCHANGED <<net, row, record, option, proc, minted, calls, hist>>

Init ==
    /\ paid \in BOOLEAN
    /\ page = [s \in State |-> "none"] /\ polls = [s \in State |-> 0]
    /\ row = None /\ record = None /\ option = None
    /\ binding = [s \in State |-> FALSE] /\ redeem = [s \in State |-> None]
    /\ transient = [s \in State |-> FALSE]
    /\ proc = [a \in Actor |-> Idle]
    /\ minted = 0 /\ faults = 0 /\ calls = 0
    /\ last = [state |-> None, answered |-> FALSE]
    /\ orderly = TRUE /\ verified = None

Browser(s) == Connect(s) \/ Load(s) \/ Purchase(s) \/ Poll(s)
Edge(p) ==
    Refuse(p) \/ Admit(p) \/ Upsert(p) \/ PutRecord(p) \/ PutState(p) \/ PutRedeem(p) \/ Answer(p)
Plugin(r) == CheckTransient(r) \/ ReadCode(r) \/ Consume(r) \/ SaveKey(r)
Authenticated(a) ==
    ReadRecord(a) \/ ReadRow(a) \/ Fill(a) \/ CheckState(a) \/ ReadSync(a) \/ Rewrite(a) \/ Done(a)

Next ==
    \/ \E s \in State : Browser(s) \/ Reload(s) \/ ExpireNonce(s)
    \/ \E s \in State, p \in Pairer : Authorize(s, p)
    \/ \E s \in State, r \in Return : Redirect(s, r) \/ Revisit(s, r)
    \/ \E p \in Pairer : Register(p) \/ Edge(p) \/ PairFails(p)
    \/ \E r \in Return : Plugin(r)
    \/ \E a \in Return \cup Caller : Authenticated(a) \/ CallFails(a)
    \/ \E c \in Caller : Call(c)
    \/ Pay \/ Lapse \/ Disconnect \/ ExpireRecord

\* A request that has begun runs on, and a record expires: the admin need do nothing.
Fairness ==
    /\ \A p \in Pairer : WF_vars(Edge(p))
    /\ \A r \in Return : WF_vars(Plugin(r))
    /\ \A a \in Return \cup Caller : WF_vars(Authenticated(a))
    /\ WF_vars(ExpireRecord)

Spec == Init /\ [][Next]_vars /\ Fairness

-----------------------------------------------------------------------------

\* When /verify has accepted a return, the plugin holds the key whose hash is in D1,
\* whatever the KV record says or will say: lost answers, crashes at any statement,
\* expired nonces and slow fills of the record do not leave a plugin that was told it
\* is connected with a key that dies with the record. (While the requests of a
\* handshake do not overlap, and the page is not left before its answer.)
VerifiedIsCurrent ==
    orderly /\ verified # None => option = verified /\ row = verified

\* A plugin that holds the current key is accepted again, whatever stale record a
\* concurrent fill or rewrite has left behind.
CurrentKeyIsAccepted ==
    (option # None /\ option = row) ~> (record \in {None, row} \/ option # row)
================================================================================
