------------------------------- MODULE Accounts --------------------------------
(***************************************************************************)
(* The users table. The identity provider's accounts reach it in two ways:  *)
(* by webhooks (routes/clerk-webhook.ts), each handled until it is answered, *)
(* in any order, and by every request of a signed-in user, whose middleware   *)
(* (middleware/auth.ts) inserts or refreshes the caller's row. Emails are     *)
(* unique in the table, and a row takes its sites and subscriptions with it   *)
(* when it goes, unless a site of another user hangs on such a subscription.  *)
(***************************************************************************)
EXTENDS Naturals, Sequences

CONSTANTS
    User, Email,
    Shared,         \* the users on whose subscription another user's site may be
    None,
    Local,          \* <id>@user.local, the address made up for a token without one
    MaxNews,        \* bound on the provider's events
    MaxCrashes      \* bound on handlers that stop half way

VARIABLES
    account,    \* the provider's accounts: their email; None if there is none
    token,      \* the users with a session token that is still accepted
    news,       \* the provider's events
    heard,      \* the events that were answered with success
    users,      \* the rows: an email, Local or None
    entry,      \* the users with a cached record of a site of theirs (site:<domain>)
    site,       \* whose subscription the site of a user is on; None without a site
    handler,    \* a deletion under way: the user, and the sites' records to drop
    crashes

people == <<account, token, news, heard, users, entry, site, handler, crashes>>

Resting == [user |-> None, pc |-> "rest", drop |-> FALSE]

Tell(kind, u, e) == news' = Append(news, [kind |-> kind, user |-> u, email |-> e])

\* The provider, whose accounts have different emails. A session's token outlives its
\* account by a minute or two.
SignUp(u, e) ==
    /\ Len(news) < MaxNews
    /\ account[u] = None /\ u \notin token /\ (\A i \in DOMAIN news : news[i].user # u)
    /\ \A v \in User : account[v] # e
    /\ account' = [account EXCEPT ![u] = e]
    /\ token' = token \cup {u}
    /\ Tell("created", u, e)
    /\ UNCHANGED <<heard, users, entry, site, handler, crashes>>

Change(u, e) ==
    /\ Len(news) < MaxNews
    /\ account[u] # None /\ \A v \in User : account[v] # e
    /\ account' = [account EXCEPT ![u] = e]
    /\ Tell("updated", u, e)
    /\ UNCHANGED <<token, heard, users, entry, site, handler, crashes>>

Close(u) ==
    /\ Len(news) < MaxNews
    /\ account[u] # None
    /\ account' = [account EXCEPT ![u] = None]
    /\ Tell("deleted", u, None)
    /\ UNCHANGED <<token, heard, users, entry, site, handler, crashes>>

TokenExpires(u) ==
    /\ u \in token /\ account[u] = None
    /\ token' = token \ {u}
    /\ UNCHANGED <<account, news, heard, users, entry, site, handler, crashes>>

-----------------------------------------------------------------------------
\* UNIQUE(email). (Made-up addresses contain the id and never collide.)
Free(u, e) == e \in Email => \A v \in User \ {u} : users[v] # e

\* Mutant of Refreshed: only a missing row is written.
RefreshedOnce(u, claim) ==
    IF users[u] # None THEN users[u] ELSE IF claim = None THEN Local ELSE claim

\* The ON CONFLICT clause: a made-up address never replaces a row's email.
Refreshed(u, claim) ==
    IF claim # None THEN claim ELSE IF users[u] = None THEN Local ELSE users[u]

\* Any request of a signed-in user. Its token may carry the account's email or not; a
\* statement that fails is logged, and the request goes on.
Visit(u, claim) ==
    /\ u \in token /\ claim \in {account[u], None}
    /\ LET e == Refreshed(u, claim) IN
         users' = IF Free(u, e) THEN [users EXCEPT ![u] = e] ELSE users
    /\ UNCHANGED <<account, token, news, heard, entry, site, handler, crashes>>

\* A user's site is registered or paired, on a subscription of theirs or, in an
\* organization, of another.
Pair(u, w) ==
    /\ u \in token /\ users[u] # None /\ users[w] # None /\ site[u] = None
    /\ w = u \/ w \in Shared
    /\ site' = [site EXCEPT ![u] = w]
    /\ entry' = entry \cup {u}
    /\ UNCHANGED <<account, token, news, heard, users, handler, crashes>>

\* The record expires. (Records that are written again are the matter of SiteAccess.)
Expire(u) ==
    /\ u \in entry /\ entry' = entry \ {u}
    /\ UNCHANGED <<account, token, news, heard, users, site, handler, crashes>>

-----------------------------------------------------------------------------
(***************************************************************************)
(* The webhook                                                             *)
(***************************************************************************)
Unheard(kind) == {i \in DOMAIN news : i \notin heard /\ news[i].kind = kind}

Hear(i) == heard' = heard \cup {i}

\* An upsert by id, or a failure that is answered with 500: the event comes again.
Created(i) ==
    /\ i \in Unheard("created") /\ Free(news[i].user, news[i].email)
    /\ users' = [users EXCEPT ![news[i].user] = news[i].email]
    /\ Hear(i)
    /\ UNCHANGED <<account, token, news, entry, site, handler, crashes>>

Updated(i) ==
    LET u == news[i].user IN
    /\ i \in Unheard("updated") /\ (users[u] # None => Free(u, news[i].email))
    /\ users' = IF users[u] = None THEN users ELSE [users EXCEPT ![u] = news[i].email]
    /\ Hear(i)
    /\ UNCHANGED <<account, token, news, entry, site, handler, crashes>>

\* The domains of the user's sites are read first.
Deleted(i) ==
    /\ i \in Unheard("deleted") /\ handler.pc = "rest"
    /\ handler' = [user |-> news[i].user, pc |-> "delete", drop |-> site[news[i].user] # None]
    /\ UNCHANGED <<account, token, news, heard, users, entry, site, crashes>>

\* The subscriptions of user u that a site of another user is on.
Needed(u) == \E v \in User \ {u} : site[v] = u

\* The row goes, and with it the user's sites and subscriptions.
DeleteUser ==
    LET u == handler.user IN
    /\ handler.pc = "delete" /\ ~Needed(u)
    /\ users' = [users EXCEPT ![u] = None]
    /\ site' = [site EXCEPT ![u] = None]
    /\ handler' = [handler EXCEPT !.pc = "purge"]
    /\ UNCHANGED <<account, token, news, heard, entry, crashes>>

DeleteFails ==
    /\ handler.pc = "delete" /\ Needed(handler.user)
    /\ handler' = Resting
    /\ UNCHANGED <<account, token, news, heard, users, entry, site, crashes>>

PurgeEntry ==
    /\ handler.pc = "purge"
    /\ entry' = IF handler.drop THEN entry \ {handler.user} ELSE entry
    /\ \E i \in Unheard("deleted") : news[i].user = handler.user /\ Hear(i)
    /\ handler' = Resting
    /\ UNCHANGED <<account, token, news, users, site, crashes>>

\* The invocation ends early. The next one finds no site, if the row is gone.
Crash ==
    /\ handler.pc # "rest" /\ crashes < MaxCrashes
    /\ crashes' = crashes + 1
    /\ handler' = Resting
    /\ UNCHANGED <<account, token, news, heard, users, entry, site>>

-----------------------------------------------------------------------------
Init ==
    /\ account = [u \in User |-> None] /\ token = {}
    /\ news = <<>> /\ heard = {}
    /\ users = [u \in User |-> None]
    /\ entry = {} /\ site = [u \in User |-> None]
    /\ handler = Resting /\ crashes = 0

Next ==
    \/ \E u \in User, e \in Email : SignUp(u, e) \/ Change(u, e)
    \/ \E u \in User : Close(u) \/ TokenExpires(u) \/ Expire(u)
    \/ \E u \in User, claim \in Email \cup {None} : Visit(u, claim)
    \/ \E u, w \in User : Pair(u, w)
    \/ \E i \in DOMAIN news : Created(i) \/ Updated(i) \/ Deleted(i)
    \/ DeleteUser \/ DeleteFails \/ PurgeEntry \/ Crash

\* A user comes back now and then with a token that has the email; an event is sent
\* until it is answered; a handler goes on.
Fairness ==
    /\ \A u \in User : WF_people(account[u] # None /\ Visit(u, account[u]))
    /\ \A i \in 1..MaxNews : WF_people(i \in DOMAIN news /\ (Created(i) \/ Updated(i)))
    /\ \A i \in 1..MaxNews : WF_people(i \in DOMAIN news /\ Deleted(i))
    /\ WF_people(DeleteUser \/ DeleteFails \/ PurgeEntry)

Spec == Init /\ [][Next]_people /\ Fairness

-----------------------------------------------------------------------------
\* A row of an account that is gone: its deletion is refused, or was followed by a last
\* request of a tab that was still open.
Leftover(v) == users[v] # None /\ account[v] = None

\* The row of an account gets the account's email again and again, in whatever order the
\* events of this account and of others come: only a leftover row can keep it away.
EmailsCatchUp ==
    \A u \in User : []<>( \/ account[u] \in {None, users[u]}
                          \/ \E v \in User : Leftover(v) /\ users[v] = account[u])
=============================================================================
