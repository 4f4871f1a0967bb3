------------------------------- MODULE Sessions --------------------------------
(***************************************************************************)
(* How a request's session token is verified (middleware/auth.ts): against  *)
(* the provider's signing keys, of which KV holds a fresh copy for an hour   *)
(* (clerk:jwks) and a fallback for a week (clerk:jwks:stale). The provider   *)
(* is out of reach now and then; requests overlap.                         *)
(*                                                                         *)
(* Time is counted in lives of the fresh copy; a copy armed for five minutes *)
(* during an outage is "brief" and expires at any time. Which keys a set     *)
(* holds, signatures, expiry times and the shape of tokens are left out: what *)
(* matters is whether a request has a set of keys when it verifies its token.  *)
(* (In development a token passes without one; that is left out too.)          *)
(***************************************************************************)
EXTENDS Naturals

CONSTANTS
    Request,
    None,
    FallbackLife,   \* the life of the fallback copy (168 in the code)
    MaxHours,
    MaxFaults       \* bound on KV writes that fail, and on outages

VARIABLES
    up,         \* whether the provider answers
    now,
    fresh,      \* the fresh copy: when it ends, whether it is brief; None
    fallback,   \* the fallback copy, likewise
    kept,       \* when the fallback written last should end; None before the first
    req,        \* requests: what they do next, whether they have a set in hand, and
                \* whether, when they began, the fallback was not due to end
    faults

session == <<up, now, fresh, fallback, kept, req, faults>>

Free == [pc |-> "free", set |-> FALSE, due |-> FALSE]

Copy(end, brief) == [end |-> end, brief |-> brief]

\* KV drops what has expired.
Alive(copy) == copy # None /\ now < copy.end

Goto(r, pc) == req' = [req EXCEPT ![r].pc = pc]
Answer(r) == req' = [req EXCEPT ![r].pc = "verify"]

-----------------------------------------------------------------------------
\* The environment: the provider goes and comes, time passes once the requests that a
\* tick finds are through (they take seconds).
Outage ==
    /\ up /\ faults < MaxFaults /\ up' = FALSE /\ faults' = faults + 1
    /\ UNCHANGED <<now, fresh, fallback, kept, req>>

Return ==
    /\ ~up /\ up' = TRUE
    /\ UNCHANGED <<now, fresh, fallback, kept, req, faults>>

Tick ==
    /\ now < MaxHours /\ \A r \in Request : req[r] = Free
    /\ now' = now + 1
    /\ UNCHANGED <<up, fresh, fallback, kept, req, faults>>

\* A copy armed during an outage runs out before the hour is over.
RunOut ==
    /\ Alive(fresh) /\ fresh.brief /\ fresh' = None
    /\ UNCHANGED <<up, now, fallback, kept, req, faults>>

-----------------------------------------------------------------------------
Due == kept # None /\ now < kept

Begin(r) ==
    /\ req[r] = Free
    /\ req' = [req EXCEPT ![r] = [pc |-> "cached", set |-> FALSE, due |-> Due]]
    /\ UNCHANGED <<up, now, fresh, fallback, kept, faults>>

ReadCached(r) ==
    /\ req[r].pc = "cached"
    /\ req' = [req EXCEPT ![r] = IF Alive(fresh) THEN [@ EXCEPT !.pc = "verify", !.set = TRUE]
                                 ELSE [@ EXCEPT !.pc = "fetch"]]
    /\ UNCHANGED <<up, now, fresh, fallback, kept, faults>>

Fetch(r) ==
    /\ req[r].pc = "fetch"
    /\ req' = [req EXCEPT ![r] = IF up THEN [@ EXCEPT !.pc = "put", !.set = TRUE]
                                 ELSE [@ EXCEPT !.pc = "fallback"]]
    /\ UNCHANGED <<up, now, fresh, fallback, kept, faults>>

\* The two writes; if the first fails the second is not tried, and the keys are used
\* all the same.
Put(r) ==
    /\ req[r].pc = "put"
    /\ fresh' = Copy(now + 1, FALSE)
    /\ Goto(r, "keep")
    /\ UNCHANGED <<up, now, fallback, kept, faults>>

\* Mutant of Keep: the fallback lives no longer than the fresh copy.
KeepShort(r) ==
    /\ req[r].pc = "keep"
    /\ fallback' = Copy(now + 1, FALSE)
    /\ kept' = now + FallbackLife
    /\ Answer(r)
    /\ UNCHANGED <<up, now, fresh, faults>>

Keep(r) ==
    /\ req[r].pc = "keep"
    /\ fallback' = Copy(now + FallbackLife, FALSE)
    /\ kept' = now + FallbackLife
    /\ Answer(r)
    /\ UNCHANGED <<up, now, fresh, faults>>

WriteFails(r) ==
    /\ req[r].pc \in {"put", "keep"} /\ faults < MaxFaults
    /\ faults' = faults + 1
    /\ Answer(r)
    /\ UNCHANGED <<up, now, fresh, fallback, kept>>

ReadFallback(r) ==
    /\ req[r].pc = "fallback"
    /\ req' = [req EXCEPT ![r] = IF Alive(fallback)
                                 THEN [@ EXCEPT !.pc = "rearm", !.set = TRUE]
                                 ELSE [@ EXCEPT !.pc = "verify"]]
    /\ UNCHANGED <<up, now, fresh, fallback, kept, faults>>

\* For five minutes.
Rearm(r) ==
    /\ req[r].pc = "rearm"
    /\ fresh' = Copy(now + 1, TRUE)
    /\ Answer(r)
    /\ UNCHANGED <<up, now, fallback, kept, faults>>

\* The write fails: the copy just read is not used either, and the request is refused.
RearmFails(r) ==
    /\ req[r].pc = "rearm" /\ faults < MaxFaults
    /\ faults' = faults + 1
    /\ req' = [req EXCEPT ![r] = Free]
    /\ UNCHANGED <<up, now, fresh, fallback, kept>>

\* The signature is checked with the set in hand; without one the request is refused.
Verify(r) ==
    /\ req[r].pc = "verify"
    /\ req' = [req EXCEPT ![r] = Free]
    /\ UNCHANGED <<up, now, fresh, fallback, kept, faults>>

-----------------------------------------------------------------------------
Init ==
    /\ up \in BOOLEAN /\ now = 0
    /\ fresh = None /\ fallback = None /\ kept = None
    /\ req = [r \in Request |-> Free] /\ faults = 0

Next ==
    \/ Outage \/ Return \/ Tick \/ RunOut
    \/ \E r \in Request :
         \/ Begin(r) \/ ReadCached(r) \/ Fetch(r) \/ Put(r) \/ Keep(r) \/ WriteFails(r)
         \/ ReadFallback(r) \/ Rearm(r) \/ RearmFails(r) \/ Verify(r)

Spec == Init /\ [][Next]_session

-----------------------------------------------------------------------------
\* "A Clerk JWKS outage must not 401 the whole dashboard": for a week after the fallback
\* was last written, whatever expires and whichever requests overlap, a request that
\* begins then has keys in hand when it comes to verify its token. (Unless the write of
\* the brief copy fails: see RearmFails.)
OutageIsBridged ==
    \A r \in Request : req[r].pc = "verify" /\ req[r].due => req[r].set
=============================================================================
