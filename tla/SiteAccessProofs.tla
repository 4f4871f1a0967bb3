--------------------------- MODULE SiteAccessProofs ---------------------------
(***************************************************************************)
(* Proofs about SiteAccess, for any sites, subscriptions, requests, webhook *)
(* deliveries and bounds: a site is deactivated only for a cause that the   *)
(* provider has announced. At the end, the same for the keys that a request *)
(* verifies its token with (Sessions).                                     *)
(*                                                                         *)
(* What a step may do depends on a row and on a webhook's event that were   *)
(* written by other steps, long before. Inv says what they stand for: a     *)
(* canceled row for an event that canceled it, a handler that deactivates   *)
(* sites for a revocation.                                                 *)
(***************************************************************************)
EXTENDS MCSiteAccess, TLAPS

\* What an actor has in hand is well typed.
StateOK(a, q) ==
    /\ a \in Hook   => q \in HookState
    /\ a \in Owner  => q \in OwnerState
    /\ a \in Caller => q \in CallerState
    /\ a = Sweeper  => q \in SweeperState

ProcOK == DOMAIN proc = Actor /\ \A a \in Actor : StateOK(a, proc[a])

EventOK == [sub : Subscription, kind : {"upsert", "cancel", "revoke"},
            status : Status, end : 0..MaxTime]

DataOK ==
    /\ now \in 0..MaxTime
    /\ events \in Seq(EventOK)
    /\ Len(events) <= MaxEvents
    /\ processed \subseteq DOMAIN events
    /\ subs \in [Subscription -> {None} \cup [status : Status, end : 0..MaxTime]]
    /\ sites \in [Site -> {None} \cup [sub : Subscription, active : BOOLEAN]]
    /\ cache \in [Entry -> [Site -> {"absent"} \cup Value]]
    /\ requests \in 0..MaxRequests /\ crashes \in 0..MaxCrashes

\* A cancellation says so.
CancelsCancel == \A i \in DOMAIN events : events[i].kind = "cancel" => events[i].status = "canceled"

\* A canceled row was canceled by an event.
Announced(s) == \E i \in Of(s) : events[i].status = "canceled"
RowsAnnounced ==
    \A s \in Subscription : subs[s] # None /\ subs[s].status = "canceled" => Announced(s)

\* A handler does what its event is for.
Due(q) ==
    q.pc # "idle" =>
        /\ q.event \in DOMAIN events
        /\ q.pc = "cancel" => events[q.event].kind = "cancel"
        /\ q.pc \in {"revoke", "affected", "deactivate", "purge"} =>
               events[q.event].kind = "revoke"
HooksDue == \A h \in Hook : Due(proc[h])

Inv == DataOK /\ ProcOK /\ CancelsCancel /\ RowsAnnounced /\ HooksDue

USE ActorAssumption, EntryAssumption, ReportedAssumption, NoneAssumption, BoundAssumption

\* TypeOK is the typing of the data and of the actors.
LEMMA TypeSplit == TypeOK <=> DataOK /\ ProcOK
<1>1. Hook \subseteq Actor /\ Owner \subseteq Actor /\ Caller \subseteq Actor /\ Sweeper \in Actor
  BY DEF Actor
<1>2. TypeOK => DataOK /\ ProcOK
  BY DEF TypeOK, DataOK, ProcOK, StateOK, EventOK
<1>3. DataOK /\ ProcOK => TypeOK
  BY <1>1 DEF TypeOK, DataOK, ProcOK, StateOK, EventOK
<1> QED
  BY <1>2, <1>3

\* An idle actor is well typed and due nothing.
LEMMA IdleOK == (\A a : StateOK(a, Idle)) /\ Due(Idle)
BY DEF StateOK, Idle, Due, HookState, OwnerState, CallerState, SweeperState

\* The initial states.
LEMMA InitInv == Init => Inv
<1> SUFFICES ASSUME Init PROVE Inv
  OBVIOUS
<1>1. events = << >> /\ DOMAIN events = {}
  BY DEF Init
<1>2. DataOK
  BY <1>1 DEF Init, DataOK, EventOK
<1>3. ProcOK /\ HooksDue
  BY IdleOK DEF Init, ProcOK, HooksDue, Actor
<1>4. CancelsCancel /\ RowsAnnounced
  BY <1>1 DEF Init, CancelsCancel, RowsAnnounced
<1> QED
  BY <1>2, <1>3, <1>4 DEF Inv

-------------------------------------------------------------------------------
(* Frames                                                                     *)

\* An actor moves to a state that it may have, the others stay where they are.
LEMMA Moves ==
    ASSUME Inv, NEW a \in Actor, NEW q, proc' = [proc EXCEPT ![a] = q],
           StateOK(a, q), a \in Hook => Due(q), events' = events
    PROVE  ProcOK' /\ HooksDue'
<1>1. DOMAIN proc' = Actor /\ proc'[a] = q /\ \A b \in Actor \ {a} : proc'[b] = proc[b]
  BY DEF Inv, ProcOK
<1>2. ProcOK'
  BY <1>1 DEF Inv, ProcOK, StateOK
<1>3. \A p : Due(p)' <=> Due(p)
  BY DEF Due
<1>4. HooksDue'
  BY <1>1, <1>3 DEF Inv, HooksDue, Actor
<1> QED
  BY <1>2, <1>4

\* With the events, the rows of the subscriptions stay as they were announced.
LEMMA RowsKept ==
    ASSUME Inv, events' = events, subs' = subs
    PROVE  CancelsCancel' /\ RowsAnnounced'
BY DEF Inv, CancelsCancel, RowsAnnounced, Announced, Of

\* An actor's step that leaves the provider's side alone.
LEMMA Steps ==
    ASSUME Inv, NEW a \in Actor, NEW q, proc' = [proc EXCEPT ![a] = q],
           StateOK(a, q), a \in Hook => Due(q), events' = events, subs' = subs, DataOK'
    PROVE  Inv'
BY Moves, RowsKept DEF Inv

\* The events of a subscription are among the events.
LEMMA EventIn == ASSUME DataOK, NEW i \in DOMAIN events PROVE events[i] \in EventOK /\ i \in 1..MaxEvents
BY DEF DataOK

-------------------------------------------------------------------------------
(* The provider                                                               *)

\* What is announced stays announced, and an event that is appended says what it is.
LEMMA EmitInv ==
    ASSUME Inv, NEW s \in Subscription,
           NEW kind \in {"upsert", "cancel", "revoke"}, NEW status \in Status,
           kind = "cancel" => status = "canceled", Emit(s, kind, status)
    PROVE  Inv'
<1> DEFINE e == [sub |-> s, kind |-> kind, status |-> status, end |-> now]
<1>1. e \in EventOK /\ events \in Seq(EventOK) /\ events' = Append(events, e)
  BY DEF Inv, DataOK, EventOK, Emit
<1>2. /\ DOMAIN events' = DOMAIN events \cup {Len(events) + 1}
      /\ \A i \in DOMAIN events : events'[i] = events[i]
      /\ events'[Len(events) + 1] = e
  BY <1>1
<1>3. DataOK'
  <2>1. events' \in Seq(EventOK) /\ Len(events') <= MaxEvents
    BY <1>1 DEF Emit
  <2> QED
    BY <2>1, <1>2 DEF Inv, DataOK, Emit
<1>4. CancelsCancel'
  BY <1>2 DEF Inv, CancelsCancel
<1>5. RowsAnnounced'
  <2>1. \A r \in Subscription : Of(r) \subseteq Of(r)' /\ \A i \in Of(r) : events'[i] = events[i]
    BY <1>2 DEF Of
  <2> QED
    BY <2>1 DEF Inv, RowsAnnounced, Announced, Emit
<1>6. ProcOK'
  BY DEF Inv, ProcOK, Emit, StateOK
<1>7. HooksDue'
  BY <1>2 DEF Inv, HooksDue, Due, Emit
<1> QED
  BY <1>3, <1>4, <1>5, <1>6, <1>7 DEF Inv

LEMMA TickInv == Inv /\ Tick => Inv'
BY DEF Inv, Tick, DataOK, ProcOK, StateOK, CancelsCancel, RowsAnnounced, Announced, Of,
       HooksDue, Due

-------------------------------------------------------------------------------
(* The webhook                                                                *)

LEMMA DeliverInv ==
    ASSUME Inv, NEW h \in Hook, NEW i \in DOMAIN events, Deliver(h, i)
    PROVE  Inv'
<1> DEFINE q == [pc |-> events[i].kind, event |-> i]
<1>1. events[i] \in EventOK /\ i \in 1..MaxEvents
  BY EventIn DEF Inv
<1>2. q \in HookState /\ h \in Actor /\ h \notin Owner \cup Caller \cup {Sweeper}
  BY <1>1 DEF HookState, EventOK, Actor
<1>3. StateOK(h, q)
  BY <1>2 DEF StateOK
<1>4. Due(q)
  BY <1>1 DEF Due, EventOK
<1>5. DataOK'
  BY DEF Deliver, Inv, DataOK
<1>6. proc' = [proc EXCEPT ![h] = q] /\ events' = events /\ subs' = subs
  BY DEF Deliver, Become
<1> HIDE DEF q
<1> QED
  BY <1>2, <1>3, <1>4, <1>5, <1>6, Steps

\* What a handler has in hand at each of its statements.
LEMMA HookHolds ==
    ASSUME Inv, NEW h \in Hook, ~At(h, "idle")
    PROVE  /\ h \in Actor /\ h \notin Owner \cup Caller \cup {Sweeper}
           /\ Due(proc[h])
           /\ events[proc[h].event] \in EventOK /\ proc[h].event \in 1..MaxEvents
           /\ \/ proc[h] \in [pc : {"upsert", "cancel", "revoke", "affected", "mark"},
                              event : 1..MaxEvents]
              \/ proc[h] \in [pc : {"deactivate", "purge", "mark"}, event : 1..MaxEvents,
                              left : SUBSET (Entry \X Site)]
<1>1. h \in Actor /\ h \notin Owner \cup Caller \cup {Sweeper}
  BY DEF Actor
<1>2. proc[h] \in HookState /\ Due(proc[h])
  BY <1>1 DEF Inv, ProcOK, StateOK, HooksDue
<1>3. proc[h].event \in DOMAIN events
  BY <1>2 DEF Due, At
<1>4. events[proc[h].event] \in EventOK /\ proc[h].event \in 1..MaxEvents
  BY <1>3, EventIn DEF Inv
<1> QED
  BY <1>1, <1>2, <1>4 DEF HookState, Idle, At

\* A handler goes on to a later statement of its event's.
LEMMA GoesOn ==
    ASSUME Inv, NEW h \in Hook, ~At(h, "idle"), NEW pc, Goto(h, pc),
           \/ pc = "mark"
           \/ pc = "affected" /\ At(h, "revoke")
           \/ pc = "purge" /\ At(h, "deactivate"),
           events' = events
    PROVE  ProcOK' /\ HooksDue'
<1> DEFINE q == [proc[h] EXCEPT !.pc = pc]
<1>1. h \in Actor /\ h \notin Owner \cup Caller \cup {Sweeper} /\ Due(proc[h])
  BY HookHolds
<1>2. q \in HookState
  <2>1. CASE proc[h] \in [pc : {"upsert", "cancel", "revoke", "affected", "mark"},
                          event : 1..MaxEvents]
    <3>1. q = [pc |-> pc, event |-> proc[h].event]
      BY <2>1
    <3>2. pc \in {"affected", "mark"}
      BY <2>1 DEF At
    <3> QED
      BY <2>1, <3>1, <3>2 DEF HookState
  <2>2. CASE proc[h] \in [pc : {"deactivate", "purge", "mark"}, event : 1..MaxEvents,
                          left : SUBSET (Entry \X Site)]
    <3>1. q = [pc |-> pc, event |-> proc[h].event, left |-> proc[h].left]
      BY <2>2
    <3>2. pc \in {"purge", "mark"}
      BY <2>2 DEF At
    <3> QED
      BY <2>2, <3>1, <3>2 DEF HookState
  <2> QED
    BY <2>1, <2>2, HookHolds
<1>3. StateOK(h, q)
  BY <1>1, <1>2 DEF StateOK
<1>4. q.pc = pc /\ q.event = proc[h].event
  BY HookHolds
<1>5. Due(q)
  BY <1>1, <1>4 DEF Due, At
<1>6. proc' = [proc EXCEPT ![h] = q]
  BY DEF Goto
<1> HIDE DEF q
<1> QED
  BY <1>1, <1>3, <1>5, <1>6, Moves

LEMMA UpsertInv == ASSUME Inv, NEW h \in Hook, Upsert(h) PROVE Inv'
<1> DEFINE e == events[proc[h].event]
<1>1. ~At(h, "idle") /\ At(h, "upsert")
  BY DEF Upsert, At
<1>2. e \in EventOK /\ proc[h].event \in DOMAIN events
  BY <1>1, HookHolds DEF Due, At
<1>3. /\ subs' = [subs EXCEPT ![e.sub] = [status |-> e.status, end |-> e.end]]
      /\ events' = events
  BY DEF Upsert
<1>4. ProcOK' /\ HooksDue'
  BY <1>1, GoesOn DEF Upsert
<1>5. DataOK'
  <2>1. subs' \in [Subscription -> {None} \cup [status : Status, end : 0..MaxTime]]
    BY <1>2, <1>3 DEF Inv, DataOK, EventOK
  <2> QED
    BY <2>1 DEF Inv, DataOK, Upsert
<1>6. CancelsCancel'
  BY <1>3 DEF Inv, CancelsCancel
<1>7. RowsAnnounced'
  <2> SUFFICES ASSUME NEW s \in Subscription, subs'[s] # None, subs'[s].status = "canceled"
               PROVE  Announced(s)'
    BY DEF RowsAnnounced
  <2>1. Announced(s)' <=> Announced(s)
    BY <1>3 DEF Announced, Of
  <2>2. CASE s = e.sub
    <3>1. e.status = "canceled" /\ proc[h].event \in Of(s)
      BY <1>2, <1>3, <2>2 DEF Inv, DataOK, Of
    <3> QED
      BY <2>1, <3>1 DEF Announced
  <2>3. CASE s # e.sub
    <3>1. subs'[s] = subs[s]
      BY <1>3, <2>3 DEF Inv, DataOK
    <3> QED
      BY <2>1, <3>1 DEF Inv, RowsAnnounced
  <2> QED
    BY <2>2, <2>3
<1> QED
  BY <1>4, <1>5, <1>6, <1>7 DEF Inv

\* A row is ended by an event that says so, or by a revocation.
LEMMA EndInv ==
    ASSUME Inv, NEW i \in DOMAIN events, NEW ending \in Status, End(events[i].sub, ending),
           ending = "canceled" => events[i].status = "canceled",
           events' = events
    PROVE  /\ subs' \in [Subscription -> {None} \cup [status : Status, end : 0..MaxTime]]
           /\ CancelsCancel' /\ RowsAnnounced'
<1> DEFINE s == events[i].sub
<1>1. s \in Subscription /\ i \in Of(s)
  BY EventIn DEF Inv, EventOK, Of
<1>2. CASE subs[s] = None
  <2>1. subs' = subs
    BY <1>2 DEF End
  <2> QED
    BY <2>1, RowsKept DEF Inv, DataOK
<1>3. CASE subs[s] # None
  <2>1. subs[s] \in [status : Status, end : 0..MaxTime]
    BY <1>1, <1>3 DEF Inv, DataOK
  <2>2. subs' = [subs EXCEPT ![s] = [subs[s] EXCEPT !.status = ending]]
    BY <1>3 DEF End
  <2>3. [subs[s] EXCEPT !.status = ending] \in [status : Status, end : 0..MaxTime]
    BY <2>1
  <2>4. subs' \in [Subscription -> {None} \cup [status : Status, end : 0..MaxTime]]
    BY <2>2, <2>3, <1>1 DEF Inv, DataOK
  <2>5. CancelsCancel'
    BY DEF Inv, CancelsCancel
  <2>6. \A r \in Subscription : Announced(r)' <=> Announced(r)
    BY DEF Announced, Of
  <2>7. \A r \in Subscription \ {s} : subs'[r] = subs[r]
    BY <2>2 DEF Inv, DataOK
  <2>8. subs'[s].status = ending
    BY <2>1, <2>2, <1>1 DEF Inv, DataOK
  <2>9. ending = "canceled" => Announced(s)
    BY <1>1 DEF Announced
  <2> QED
    BY <2>4, <2>5, <2>6, <2>7, <2>8, <2>9 DEF Inv, RowsAnnounced
<1> QED
  BY <1>2, <1>3

LEMMA CancelInv == ASSUME Inv, NEW h \in Hook, Cancel(h) PROVE Inv'
<1>1. ~At(h, "idle") /\ At(h, "cancel") /\ events' = events
  BY DEF Cancel, At
<1>2. proc[h].event \in DOMAIN events /\ events[proc[h].event].status = "canceled"
  BY <1>1, HookHolds DEF Due, At, Inv, CancelsCancel
<1>3. /\ subs' \in [Subscription -> {None} \cup [status : Status, end : 0..MaxTime]]
      /\ CancelsCancel' /\ RowsAnnounced'
  BY <1>1, <1>2, EndInv DEF Cancel, Status
<1>4. DataOK'
  BY <1>3 DEF Inv, DataOK, Cancel
<1>5. ProcOK' /\ HooksDue'
  BY <1>1, GoesOn DEF Cancel
<1> QED
  BY <1>3, <1>4, <1>5 DEF Inv

LEMMA RevokeInv == ASSUME Inv, NEW h \in Hook, Revoke(h) PROVE Inv'
<1>1. ~At(h, "idle") /\ At(h, "revoke") /\ events' = events
  BY DEF Revoke, At
<1>2. proc[h].event \in DOMAIN events
  BY <1>1, HookHolds DEF Due, At
<1>3. /\ subs' \in [Subscription -> {None} \cup [status : Status, end : 0..MaxTime]]
      /\ CancelsCancel' /\ RowsAnnounced'
  BY <1>1, <1>2, EndInv DEF Revoke, Status
<1>4. DataOK'
  BY <1>3 DEF Inv, DataOK, Revoke
<1>5. ProcOK' /\ HooksDue'
  BY <1>1, GoesOn DEF Revoke
<1> QED
  BY <1>3, <1>4, <1>5 DEF Inv

\* Deactivating sites keeps them well typed.
LEMMA DeactivatedOK ==
    ASSUME DataOK, NEW ss
    PROVE  Deactivated(ss) \in [Site -> {None} \cup [sub : Subscription, active : BOOLEAN]]
<1> DEFINE V == {None} \cup [sub : Subscription, active : BOOLEAN]
<1>1. \A d \in Site : sites[d] \in V
  BY DEF DataOK
<1>2. \A d \in Site : d \in Paired => [sites[d] EXCEPT !.active = FALSE] \in V
  BY <1>1 DEF Paired
<1> QED
  BY <1>1, <1>2 DEF Deactivated

LEMMA AffectedInv == ASSUME Inv, NEW h \in Hook, Affected(h) PROVE Inv'
<1> DEFINE ds == {d \in ActiveSites : sites[d].sub = events[proc[h].event].sub}
           q == [pc |-> "deactivate", event |-> proc[h].event, left |-> Entry \X ds]
<1>1. ~At(h, "idle") /\ At(h, "affected")
  BY DEF Affected, At
<1>2. /\ h \in Actor /\ h \notin Owner \cup Caller \cup {Sweeper} /\ Due(proc[h])
      /\ proc[h].event \in 1..MaxEvents
  BY <1>1, HookHolds
<1>3. q \in HookState
  <2>1. Entry \X ds \in SUBSET (Entry \X Site)
    BY DEF ActiveSites
  <2> HIDE DEF ds
  <2> QED
    BY <1>2, <2>1 DEF HookState
<1>4. StateOK(h, q)
  BY <1>2, <1>3 DEF StateOK
<1>5. Due(q)
  BY <1>1, <1>2 DEF Due, At
<1>6. /\ proc' = [proc EXCEPT ![h] = q] /\ events' = events /\ subs' = subs
      /\ DataOK'
  BY DEF Affected, Become, Inv, DataOK
<1> HIDE DEF q
<1> QED
  BY <1>2, <1>4, <1>5, <1>6, Steps

LEMMA DeactivateInv == ASSUME Inv, NEW h \in Hook, Deactivate(h) PROVE Inv'
<1>1. ~At(h, "idle") /\ At(h, "deactivate") /\ events' = events /\ subs' = subs
  BY DEF Deactivate, At
<1>2. DataOK'
  BY DeactivatedOK DEF Inv, DataOK, Deactivate
<1>3. ProcOK' /\ HooksDue'
  BY <1>1, GoesOn DEF Deactivate
<1> QED
  BY <1>1, <1>2, <1>3, RowsKept DEF Inv

LEMMA MarkInv == ASSUME Inv, NEW h \in Hook, Mark(h) PROVE Inv'
<1>1. ~At(h, "idle") /\ h \in Actor
  BY DEF Mark, At, Actor
<1>2. proc[h].event \in DOMAIN events
  BY <1>1, HookHolds DEF Due, At
<1>3. DataOK'
  BY <1>2 DEF Inv, DataOK, Mark
<1> QED
  BY <1>1, <1>3, IdleOK, Steps DEF Mark, Rest, Become

-------------------------------------------------------------------------------
(* Deleting entries: handlers, the sweeper and owners do                       *)

\* Whoever purges has entries in hand, and a handler its event.
LEMMA PurgeHolds ==
    ASSUME Inv, NEW a \in Actor, At(a, "purge")
    PROVE  /\ a \notin Caller
           /\ a \in Hook => /\ proc[a] \in [pc : {"deactivate", "purge", "mark"},
                                            event : 1..MaxEvents,
                                            left : SUBSET (Entry \X Site)]
                            /\ Due(proc[a])
           /\ a \in Owner => proc[a] \in [pc : {"purge"}, left : SUBSET (Entry \X Site)]
           /\ a = Sweeper => proc[a] \in [pc : {"sweep", "purge"}, left : SUBSET (Entry \X Site)]
<1>1. StateOK(a, proc[a])
  BY DEF Inv, ProcOK
<1>2. a \notin Caller
  BY <1>1 DEF StateOK, CallerState, Idle, At
<1>3. CASE a \in Hook
  BY <1>2, <1>3, HookHolds DEF At
<1>4. CASE a \in Owner
  BY <1>1, <1>2, <1>4 DEF StateOK, OwnerState, Idle, At
<1>5. CASE a = Sweeper
  BY <1>1, <1>2, <1>5 DEF StateOK, SweeperState, Idle, At
<1> QED
  BY <1>2, <1>3, <1>4, <1>5 DEF Actor

LEMMA PurgeEntryInv == ASSUME Inv, NEW a \in Actor, PurgeEntry(a) PROVE Inv'
<1>1. PICK k \in Entry, d \in Site :
          /\ cache' = [cache EXCEPT ![k][d] = "absent"]
          /\ proc' = [proc EXCEPT ![a].left = @ \ {<<k, d>>}]
  BY DEF PurgeEntry
<1> DEFINE rest == proc[a].left \ {<<k, d>>}
           q == [proc[a] EXCEPT !.left = rest]
<1>2. At(a, "purge") /\ events' = events /\ subs' = subs
  BY DEF PurgeEntry
<1>3. DataOK'
  BY <1>1 DEF Inv, DataOK, PurgeEntry
<1>4. StateOK(a, q) /\ (a \in Hook => Due(q))
  <2>1. CASE a \in Hook
    <3>1. q = [pc |-> proc[a].pc, event |-> proc[a].event, left |-> rest]
      BY <1>2, <2>1, PurgeHolds
    <3>2. q \in [pc : {"deactivate", "purge", "mark"}, event : 1..MaxEvents,
                 left : SUBSET (Entry \X Site)]
      BY <1>2, <2>1, <3>1, PurgeHolds
    <3>3. Due(q)
      BY <1>2, <2>1, <3>1, PurgeHolds DEF Due
    <3> HIDE DEF q
    <3> QED
      BY <2>1, <3>2, <3>3 DEF StateOK, HookState
  <2>2. CASE a \in Owner
    <3>1. q = [pc |-> proc[a].pc, left |-> rest]
      BY <1>2, <2>2, PurgeHolds
    <3>2. q \in [pc : {"purge"}, left : SUBSET (Entry \X Site)]
      BY <1>2, <2>2, <3>1, PurgeHolds
    <3> HIDE DEF q
    <3> QED
      BY <2>2, <3>2 DEF StateOK, OwnerState
  <2>3. CASE a = Sweeper
    <3>. proc[a] \in [pc : {"sweep", "purge"}, left : SUBSET (Entry \X Site)]
      BY <1>2, <2>3, PurgeHolds
    <3>1. q = [pc |-> proc[a].pc, left |-> rest]
      OBVIOUS
    <3>2. q \in [pc : {"sweep", "purge"}, left : SUBSET (Entry \X Site)]
      BY <3>1
    <3> HIDE DEF q
    <3> QED
      BY <2>3, <3>2 DEF StateOK, SweeperState
  <2> QED
    BY <1>2, <2>1, <2>2, <2>3, PurgeHolds DEF Actor
<1>5. proc' = [proc EXCEPT ![a] = q]
  BY <1>1
<1> HIDE DEF q
<1> QED
  BY <1>2, <1>3, <1>4, <1>5, Steps

\* Nobody's step to the end of an invocation needs a reason.
LEMMA RestInv ==
    ASSUME Inv, NEW a \in Actor, Rest(a), events' = events, subs' = subs, DataOK'
    PROVE  Inv'
BY IdleOK, Steps DEF Rest, Become

LEMMA PurgedInv == ASSUME Inv, NEW a \in Actor, Purged(a) PROVE Inv'
<1>1. At(a, "purge") /\ ~At(a, "idle") /\ events' = events /\ subs' = subs /\ DataOK'
  BY DEF Purged, At, Inv, DataOK
<1>2. CASE a \in Hook
  <2>1. ProcOK' /\ HooksDue'
    BY <1>1, <1>2, GoesOn DEF Purged
  <2> QED
    BY <1>1, <2>1, RowsKept DEF Inv
<1>3. CASE a \notin Hook
  BY <1>1, <1>3, RestInv DEF Purged
<1> QED
  BY <1>2, <1>3

-------------------------------------------------------------------------------
(* The sweeper                                                                *)

LEMMA SweepSelectInv == Inv /\ SweepSelect => Inv'
<1> SUFFICES ASSUME Inv, SweepSelect PROVE Inv'
  OBVIOUS
<1> DEFINE ds == {d \in ActiveSites : sites[d].sub \in Lapsed}
           q == [pc |-> "sweep", left |-> Entry \X ds]
<1>1. proc' = [proc EXCEPT ![Sweeper] = q] /\ events' = events /\ subs' = subs /\ DataOK'
  BY DEF SweepSelect, Become, Inv, DataOK
<1>2. Sweeper \in Actor /\ Sweeper \notin Hook \cup Owner \cup Caller
  BY DEF Actor
<1>3. StateOK(Sweeper, q)
  <2>1. Entry \X ds \in SUBSET (Entry \X Site)
    BY DEF ActiveSites
  <2> HIDE DEF ds
  <2> QED
    BY <1>2, <2>1 DEF StateOK, SweeperState
<1> HIDE DEF q
<1> QED
  BY <1>1, <1>2, <1>3, Steps

LEMMA SweepUpdateInv == Inv /\ SweepUpdate => Inv'
<1> SUFFICES ASSUME Inv, SweepUpdate PROVE Inv'
  OBVIOUS
<1> DEFINE q == [proc[Sweeper] EXCEPT !.pc = "purge"]
<1>1. proc' = [proc EXCEPT ![Sweeper] = q] /\ events' = events /\ subs' = subs
  BY DEF SweepUpdate, Goto
<1>2. DataOK'
  BY DeactivatedOK DEF SweepUpdate, Inv, DataOK
<1>3. Sweeper \in Actor /\ Sweeper \notin Hook \cup Owner \cup Caller
  BY DEF Actor
<1>4. proc[Sweeper] \in [pc : {"sweep", "purge"}, left : SUBSET (Entry \X Site)]
  BY <1>3 DEF Inv, ProcOK, StateOK, SweeperState, SweepUpdate, At, Idle
<1>5. StateOK(Sweeper, q)
  BY <1>3, <1>4 DEF StateOK, SweeperState
<1> HIDE DEF q
<1> QED
  BY <1>1, <1>2, <1>3, <1>5, Steps

-------------------------------------------------------------------------------
(* Owners and callers: they touch neither subscriptions nor events             *)

\* An owner or a caller moves to a state that it may have.
LEMMA OwnerMoves ==
    ASSUME Inv, NEW o \in Owner, NEW q \in OwnerState, proc' = [proc EXCEPT ![o] = q],
           events' = events, subs' = subs, DataOK'
    PROVE  Inv'
<1>1. o \in Actor /\ o \notin Hook \cup Caller \cup {Sweeper}
  BY DEF Actor
<1> QED
  BY <1>1, Steps DEF StateOK

LEMMA CallerMoves ==
    ASSUME Inv, NEW c \in Caller, NEW q \in CallerState, proc' = [proc EXCEPT ![c] = q],
           events' = events, subs' = subs, DataOK'
    PROVE  Inv'
<1>1. c \in Actor /\ c \notin Hook \cup Owner \cup {Sweeper}
  BY DEF Actor
<1> QED
  BY <1>1, Steps DEF StateOK

LEMMA LoadInv ==
    ASSUME Inv, NEW o \in Owner, NEW route \in {"pair", "register"}, NEW d \in Site,
           Load(o, route, d)
    PROVE  Inv'
<1>1. PICK s \in Subscription :
          proc' = [proc EXCEPT ![o] = [pc |-> "count", route |-> route, site |-> d, sub |-> s]]
  BY DEF Load, Become
<1>2. [pc |-> "count", route |-> route, site |-> d, sub |-> s] \in OwnerState
  BY DEF OwnerState
<1>3. events' = events /\ subs' = subs /\ DataOK'
  BY DEF Load, Inv, DataOK
<1> QED
  BY <1>1, <1>2, <1>3, OwnerMoves

\* What an owner that pairs or registers a site has in hand.
LEMMA OwnerHolds ==
    ASSUME Inv, NEW o \in Owner, proc[o].pc \in {"count", "attach", "enter"}
    PROVE  proc[o] \in [pc : {"count", "attach", "enter"}, route : {"pair", "register"},
                        site : Site, sub : Subscription]
BY DEF Inv, ProcOK, StateOK, OwnerState, Idle, Actor

\* And goes on with.
LEMMA OwnerGoesOn ==
    ASSUME Inv, NEW o \in Owner, proc[o].pc \in {"count", "attach", "enter"},
           NEW pc \in {"attach", "enter"}, Goto(o, pc),
           events' = events, subs' = subs, DataOK'
    PROVE  Inv'
<1> DEFINE q == [proc[o] EXCEPT !.pc = pc]
<1>1. q = [pc |-> pc, route |-> proc[o].route, site |-> proc[o].site, sub |-> proc[o].sub]
  BY OwnerHolds
<1>2. q \in OwnerState
  BY <1>1, OwnerHolds DEF OwnerState
<1>3. proc' = [proc EXCEPT ![o] = q]
  BY DEF Goto
<1> HIDE DEF q
<1> QED
  BY <1>2, <1>3, OwnerMoves

LEMMA CountInv == ASSUME Inv, NEW o \in Owner, Count(o) PROVE Inv'
<1>1. At(o, "count") /\ o \in Actor
  BY DEF Count, Actor
<1>2. events' = events /\ subs' = subs /\ DataOK'
  BY DEF Count, Inv, DataOK
<1>3. CASE Goto(o, "attach")
  BY <1>1, <1>2, <1>3, OwnerGoesOn DEF At
<1>4. CASE Rest(o)
  BY <1>1, <1>2, <1>4, RestInv
<1> QED
  BY <1>3, <1>4 DEF Count

LEMMA AttachInv == ASSUME Inv, NEW o \in Owner, Attach(o) PROVE Inv'
<1> DEFINE V == [sub : Subscription, active : BOOLEAN]
           d == proc[o].site
           keeps == proc[o].route = "register" /\ d \in Paired
           v == [sub |-> IF keeps THEN sites[d].sub ELSE proc[o].sub, active |-> TRUE]
<1>1. At(o, "attach") /\ d \in Site /\ proc[o].sub \in Subscription
  BY OwnerHolds DEF Attach, At
<1>2. sites' = [sites EXCEPT ![d] = v]
  BY DEF Attach
<1>3. v \in V
  <2>1. d \in Paired => sites[d].sub \in Subscription
    BY <1>1 DEF Inv, DataOK, Paired
  <2> QED
    BY <1>1, <2>1
<1> HIDE DEF v
<1>4. sites' \in [Site -> {None} \cup V]
  BY <1>1, <1>2, <1>3 DEF Inv, DataOK
<1>5. events' = events /\ subs' = subs /\ DataOK'
  BY <1>4 DEF Attach, Inv, DataOK
<1> QED
  BY <1>1, <1>5, OwnerGoesOn DEF Attach, At

LEMMA EnterInv == ASSUME Inv, NEW o \in Owner, Enter(o) PROVE Inv'
<1>1. proc[o].site \in Site /\ o \in Actor
  BY OwnerHolds DEF Enter, At, Actor
<1>2. events' = events /\ subs' = subs /\ DataOK'
  BY <1>1 DEF Enter, Inv, DataOK, Value
<1> QED
  BY <1>1, <1>2, RestInv DEF Enter

LEMMA DeleteInv == ASSUME Inv, NEW o \in Owner, NEW d \in Site, Delete(o, d) PROVE Inv'
<1>1. [pc |-> "purge", left |-> Entry \X {d}] \in OwnerState
  BY DEF OwnerState
<1>2. events' = events /\ subs' = subs /\ DataOK'
  BY DEF Delete, Inv, DataOK
<1> QED
  BY <1>1, <1>2, OwnerMoves DEF Delete, Become

LEMMA MissInv ==
    ASSUME Inv, NEW c \in Caller, NEW k \in Entry, NEW d \in Site, Miss(c, k, d)
    PROVE  Inv'
<1>1. [pc |-> "lookup", entry |-> k, site |-> d] \in CallerState
  BY DEF CallerState
<1>2. events' = events /\ subs' = subs /\ DataOK'
  BY DEF Miss, Inv, DataOK
<1> QED
  BY <1>1, <1>2, CallerMoves DEF Miss, Become

\* An answer is a value, or nothing to keep.
LEMMA AnswerOK == \A k \in Entry, d \in Site : Answer(k, d) \in {"absent"} \cup Value
BY DEF Answer, Value

LEMMA LookupInv == ASSUME Inv, NEW c \in Caller, Lookup(c) PROVE Inv'
<1> DEFINE k == proc[c].entry
           d == proc[c].site
           q == [pc |-> "put", entry |-> k, site |-> d, value |-> Answer(k, d)]
<1>1. c \in Actor /\ events' = events /\ subs' = subs /\ DataOK'
  BY DEF Lookup, Actor, Inv, DataOK
<1>2. k \in Entry /\ d \in Site
  BY DEF Lookup, At, Inv, ProcOK, StateOK, CallerState, Idle, Actor
<1>3. CASE Answer(k, d) = "absent"
  BY <1>1, <1>3, RestInv DEF Lookup
<1>4. CASE Answer(k, d) # "absent"
  <2>1. q \in CallerState
    BY <1>2, <1>4, AnswerOK DEF CallerState
  <2>2. proc' = [proc EXCEPT ![c] = q]
    BY <1>4 DEF Lookup, Become
  <2> HIDE DEF q
  <2> QED
    BY <1>1, <2>1, <2>2, CallerMoves
<1> QED
  BY <1>3, <1>4

LEMMA RewriteInv == ASSUME Inv, NEW c \in Caller, NEW d \in Site, Rewrite(c, d) PROVE Inv'
<1> DEFINE q == [pc |-> "put", entry |-> "site", site |-> d, value |-> cache["site"][d]]
<1>1. cache["site"][d] \in Value
  BY DEF Rewrite, Inv, DataOK
<1>2. q \in CallerState
  BY <1>1 DEF CallerState
<1>3. proc' = [proc EXCEPT ![c] = q] /\ events' = events /\ subs' = subs /\ DataOK'
  BY DEF Rewrite, Become, Inv, DataOK
<1> HIDE DEF q
<1> QED
  BY <1>2, <1>3, CallerMoves

LEMMA PutInv == ASSUME Inv, NEW c \in Caller, Put(c) PROVE Inv'
<1>1. proc[c].entry \in Entry /\ proc[c].site \in Site /\ proc[c].value \in Value
  BY DEF Put, At, Inv, ProcOK, StateOK, CallerState, Idle, Actor
<1>2. events' = events /\ subs' = subs /\ c \in Actor
  BY DEF Put, Actor
<1>3. DataOK'
  BY <1>1 DEF Put, Inv, DataOK
<1> QED
  BY <1>2, <1>3, RestInv DEF Put

LEMMA ExpireInv == ASSUME Inv, NEW k \in Entry, NEW d \in Site, Expire(k, d) PROVE Inv'
<1>1. DataOK'
  BY DEF Expire, Inv, DataOK
<1>2. ProcOK' /\ HooksDue'
  BY DEF Expire, Inv, ProcOK, StateOK, HooksDue, Due
<1> QED
  BY <1>1, <1>2, RowsKept DEF Expire, Inv

LEMMA CrashInv == ASSUME Inv, NEW a \in Actor, Crash(a) PROVE Inv'
<1>1. events' = events /\ subs' = subs /\ DataOK'
  BY DEF Crash, Inv, DataOK
<1> QED
  BY <1>1, RestInv DEF Crash

LEMMA StutterInv == Inv /\ UNCHANGED vars => Inv'
BY DEF vars, Inv, DataOK, ProcOK, StateOK, CancelsCancel, RowsAnnounced, Announced, Of,
       HooksDue, Due

-------------------------------------------------------------------------------
\* Every step preserves the invariant.
LEMMA NextInv == Inv /\ [Next]_vars => Inv'
<1> SUFFICES ASSUME Inv, [Next]_vars PROVE Inv'
  OBVIOUS
<1>1. Hook \cup Owner \cup Caller \cup {Sweeper} \subseteq Actor
  BY DEF Actor
<1>2. CASE Provide
  <2>1. ASSUME NEW s \in Subscription, NEW status \in Reported \cup {"active"},
               Emit(s, "upsert", status)
        PROVE  Inv'
    BY <2>1, EmitInv DEF Status
  <2>2. ASSUME NEW s \in Subscription,
               Emit(s, "cancel", "canceled") \/ Emit(s, "revoke", "canceled")
        PROVE  Inv'
    BY <2>2, EmitInv DEF Status
  <2> QED
    BY <1>2, <2>1, <2>2 DEF Provide
<1>3. CASE Tick
  BY <1>3, TickInv
<1>4. ASSUME NEW h \in Hook, (\E i \in DOMAIN events : Deliver(h, i)) \/ HookStep(h)
      PROVE  Inv'
  BY <1>1, <1>4, DeliverInv, UpsertInv, CancelInv, RevokeInv, AffectedInv, DeactivateInv,
     PurgeEntryInv, PurgedInv, MarkInv DEF HookStep
<1>5. CASE SweeperStep
  BY <1>1, <1>5, SweepSelectInv, SweepUpdateInv, PurgeEntryInv, PurgedInv DEF SweeperStep
<1>6. ASSUME NEW o \in Owner, Ask(o) \/ OwnerStep(o)
      PROVE  Inv'
  BY <1>1, <1>6, LoadInv, DeleteInv, CountInv, AttachInv, EnterInv, PurgeEntryInv, PurgedInv
     DEF Ask, OwnerStep
<1>7. ASSUME NEW c \in Caller, CallerStep(c)
      PROVE  Inv'
  BY <1>7, MissInv, RewriteInv, LookupInv, PutInv DEF CallerStep
<1>8. ASSUME NEW k \in Entry, NEW d \in Site, Expire(k, d)
      PROVE  Inv'
  BY <1>8, ExpireInv
<1>9. ASSUME NEW a \in Actor, Crash(a)
      PROVE  Inv'
  BY <1>9, CrashInv
<1>10. CASE UNCHANGED vars
  BY <1>10, StutterInv
<1> QED
  BY <1>2, <1>3, <1>4, <1>5, <1>6, <1>7, <1>8, <1>9, <1>10 DEF Next

\* What a canceled row and a handler in progress stand for, in every reachable state:
\* the invariant behind "sites are deactivated for a cause" (billing.ts:783-821).
THEOREM Announcements == Spec => []Inv
BY InitInv, NextInv, PTL DEF Spec

\* Every reachable state is well typed.
THEOREM AccessTypeCorrect == Spec => []TypeOK
<1>1. Inv => TypeOK
  BY TypeSplit DEF Inv
<1> QED
  BY <1>1, Announcements, PTL

-------------------------------------------------------------------------------
\* A site that a step deactivates belonged to a subscription that had ended.
LEMMA StepForCause ==
    ASSUME Inv, [Next]_vars, NEW d \in Site,
           Active(d), sites'[d] # None, ~sites'[d].active
    PROVE  Ended(sites[d].sub)
<1>1. sites' # sites /\ sites[d].sub \in Subscription
  BY DEF Inv, DataOK, Active, Paired
<1>2. ASSUME NEW h \in Hook, Deactivate(h)
      PROVE  Ended(sites[d].sub)
  <2>1. At(h, "deactivate") /\ ~At(h, "idle")
    BY <1>2 DEF Deactivate, At
  <2>2. proc[h].event \in DOMAIN events /\ events[proc[h].event].kind = "revoke"
    BY <2>1, HookHolds DEF Due, At
  <2>3. sites[d].sub = events[proc[h].event].sub
    BY <1>2 DEF Deactivate, Deactivated, Active, Paired
  <2> QED
    BY <2>2, <2>3 DEF Ended, Of
<1>3. ASSUME SweepUpdate
      PROVE  Ended(sites[d].sub)
  <2>1. sites[d].sub \in Lapsed
    BY <1>3 DEF SweepUpdate, Deactivated, Active, Paired
  <2>2. Announced(sites[d].sub) /\ subs[sites[d].sub].end < now
    BY <1>1, <2>1 DEF Lapsed, Inv, RowsAnnounced
  <2> QED
    BY <2>2 DEF Announced, Ended, Of
<1>4. ASSUME NEW o \in Owner, Attach(o)
      PROVE  FALSE
  <2>1. proc[o].site \in Site
    BY <1>4, OwnerHolds DEF Attach, At
  <2> QED
    BY <1>4, <2>1 DEF Attach, Inv, DataOK, Active
<1>5. ASSUME NEW o \in Owner, NEW b \in Site, Delete(o, b)
      PROVE  FALSE
  BY <1>5 DEF Delete, Inv, DataOK, Active
<1>6. \/ \E h \in Hook : Deactivate(h)
      \/ SweepUpdate
      \/ \E o \in Owner : Attach(o) \/ \E b \in Site : Delete(o, b)
  BY <1>1 DEF Next, vars, Provide, Emit, Tick, Deliver, HookStep, Upsert, Cancel, Revoke,
         Affected, PurgeEntry, Purged, Mark, SweeperStep, SweepSelect, Ask, Load, OwnerStep,
         Count, Enter, CallerStep, Miss, Rewrite, Lookup, Put, Expire, Crash
<1> QED
  BY <1>2, <1>3, <1>4, <1>5, <1>6

\* "canceled keeps sites active until current_period_end (sweeper deactivates after);
\* revoked deactivates immediately" (docs/SETUP.md:210): whatever handlers, sweeps and
\* requests run at the same time or stop half way, no site loses its service for less.
THEOREM NeverDeactivatedWithoutCause == Spec => DeactivatedForCause
<1>1. Inv /\ [Next]_vars =>
          [\A d \in Site :
              Active(d) /\ sites'[d] # None /\ ~sites'[d].active => Ended(sites[d].sub)]_vars
  BY StepForCause
<1> QED
  BY <1>1, Announcements, PTL DEF Spec, DeactivatedForCause

-------------------------------------------------------------------------------
(***************************************************************************)
(* The keys that a request verifies its token with (Sessions)              *)
(***************************************************************************)
\* The fallback lives until it is due to end. No tick finds a request under way: one that
\* began in time is in time.
KeyCopy == [end : Nat, brief : BOOLEAN]
Bearer == [pc : {"free", "cached", "fetch", "put", "keep", "fallback", "rearm", "verify"},
           set : BOOLEAN, due : BOOLEAN]

InHand(q) ==
    /\ q.pc \in {"put", "keep", "rearm"} => q.set
    /\ q.pc = "verify" /\ q.due => q.set
    /\ q.due /\ q # E!Free => E!Due

SessionInv ==
    /\ hour \in Nat /\ fresh \in KeyCopy \cup {None}
    /\ kept \in Nat \cup {None}
    /\ kept = None => fallback = None
    /\ kept # None => fallback \in KeyCopy /\ fallback.end = kept
    /\ req \in [Request -> Bearer] /\ \A r \in Request : InHand(req[r])

LEMMA SessionsBegin == E!Init => SessionInv
  BY DEF E!Init, E!Free, SessionInv, Bearer, InHand

\* A request goes on: the others have in hand what they had, in time as long as a due copy
\* stays one.
LEMMA SessionGoes ==
  ASSUME SessionInv, NEW r \in Request, NEW q \in Bearer, req' = [req EXCEPT ![r] = q],
         E!Due => E!Due', InHand(q)'
  PROVE  /\ req' \in [Request -> Bearer] /\ \A s \in Request : InHand(req[s])'
<1>1. req' \in [Request -> Bearer] /\ req'[r] = q /\ \A s \in Request \ {r} : req'[s] = req[s]
  BY DEF SessionInv
<1>2. \A s \in Request \ {r} : InHand(req[s])'
  BY <1>1 DEF SessionInv, InHand
<1> QED
  BY <1>1, <1>2 DEF InHand

\* Without a request's step, what is in hand stays good while a due copy stays one.
LEMMA WorldRests ==
  ASSUME SessionInv, UNCHANGED <<kept, fallback, req>>, hour' \in Nat,
         fresh' \in KeyCopy \cup {None},
         E!Due => E!Due' \/ \A r \in Request : req[r] = E!Free
  PROVE  SessionInv'
<1>1. \A r \in Request : InHand(req[r])'
  BY DEF SessionInv, InHand, E!Free
<1> QED
  BY <1>1 DEF SessionInv

LEMMA SessionStep ==
  ASSUME SessionInv, E!Next
  PROVE  SessionInv'
<1>1. CASE E!Outage \/ E!Return
  BY <1>1, WorldRests DEF SessionInv, E!Outage, E!Return, E!Due
<1>2. CASE E!Tick
  BY <1>2, WorldRests DEF SessionInv, E!Tick
<1>3. CASE E!RunOut
  BY <1>3, WorldRests DEF SessionInv, E!RunOut, E!Due
<1>4. ASSUME NEW r \in Request,
             \/ E!Begin(r) \/ E!ReadCached(r) \/ E!Fetch(r) \/ E!Put(r) \/ E!Keep(r)
             \/ E!WriteFails(r) \/ E!ReadFallback(r) \/ E!Rearm(r) \/ E!RearmFails(r)
             \/ E!Verify(r)
      PROVE  SessionInv'
  <2>1. req[r] \in Bearer /\ InHand(req[r])
    BY <1>4 DEF SessionInv
  <2>2. ASSUME NEW q \in Bearer, req' = [req EXCEPT ![r] = q], InHand(q)',
               UNCHANGED <<hour, kept, fallback>>, fresh' \in KeyCopy \cup {None}
        PROVE  SessionInv'
    <3>1. E!Due => E!Due'
      BY <2>2 DEF E!Due
    <3>2. req' \in [Request -> Bearer] /\ \A s \in Request : InHand(req[s])'
      BY <1>4, <2>2, <3>1, SessionGoes
    <3> QED
      BY <2>2, <3>2 DEF SessionInv
  <2>3. CASE E!Begin(r)
    <3> DEFINE q == [pc |-> "cached", set |-> FALSE, due |-> E!Due]
    <3>1. q \in Bearer /\ req' = [req EXCEPT ![r] = q] /\ UNCHANGED <<hour, kept, fallback, fresh>>
      BY <2>3 DEF E!Begin, Bearer, E!Due
    <3>2. q.due = E!Due /\ q.pc = "cached" /\ (E!Due => E!Due')
      BY <3>1 DEF E!Due
    <3> HIDE DEF q
    <3>3. PICK p \in Bearer : p = q
      BY <3>1
    <3>4. InHand(p)'
      BY <3>2, <3>3 DEF InHand
    <3> QED
      BY <2>2, <3>1, <3>3, <3>4 DEF SessionInv
  <2>4. ASSUME NEW pc \in {"verify", "fetch", "put", "keep", "fallback", "rearm"}, NEW set \in BOOLEAN,
               req' = [req EXCEPT ![r] = [req[r] EXCEPT !.pc = pc, !.set = set]],
               pc \in {"put", "keep", "rearm"} \/ (pc = "verify" /\ req[r].due) => set,
               req[r].pc # "free",
               UNCHANGED <<hour, kept, fallback>>, fresh' \in KeyCopy \cup {None}
        PROVE  SessionInv'
    <3>1. PICK q \in Bearer : q = [req[r] EXCEPT !.pc = pc, !.set = set]
      BY <2>1, <2>4 DEF Bearer
    <3>2. q.pc = pc /\ q.set = set /\ q.due = req[r].due
      BY <2>1, <3>1 DEF Bearer
    <3>3. req[r].due => E!Due
      BY <2>1, <2>4 DEF InHand, E!Free
    <3>4. E!Due => E!Due'
      BY <2>4 DEF E!Due
    <3>5. InHand(q)'
      BY <2>4, <3>2, <3>3, <3>4 DEF InHand
    <3> QED
      BY <2>2, <2>4, <3>1, <3>5
  <2>5. CASE E!ReadCached(r)
    <3>1. CASE E!Alive(fresh)
      <4>1. req' = [req EXCEPT ![r] = [req[r] EXCEPT !.pc = "verify", !.set = TRUE]]
        BY <2>5, <3>1 DEF E!ReadCached
      <4> QED
        BY <2>4, <2>5, <4>1 DEF E!ReadCached, SessionInv
    <3>2. CASE ~E!Alive(fresh)
      <4>1. req' = [req EXCEPT ![r] = [req[r] EXCEPT !.pc = "fetch", !.set = req[r].set]]
        BY <2>1, <2>5, <3>2 DEF E!ReadCached, Bearer
      <4> QED
        BY <2>1, <2>4, <2>5, <4>1 DEF E!ReadCached, SessionInv, Bearer
    <3> QED
      BY <3>1, <3>2
  <2>6. CASE E!Fetch(r)
    <3>1. CASE up
      <4>1. req' = [req EXCEPT ![r] = [req[r] EXCEPT !.pc = "put", !.set = TRUE]]
        BY <2>6, <3>1 DEF E!Fetch
      <4> QED
        BY <2>4, <2>6, <4>1 DEF E!Fetch, SessionInv
    <3>2. CASE ~up
      <4>1. req' = [req EXCEPT ![r] = [req[r] EXCEPT !.pc = "fallback", !.set = req[r].set]]
        BY <2>1, <2>6, <3>2 DEF E!Fetch, Bearer
      <4> QED
        BY <2>1, <2>4, <2>6, <4>1 DEF E!Fetch, SessionInv, Bearer
    <3> QED
      BY <3>1, <3>2
  <2>7. CASE E!ReadFallback(r)
    <3>1. CASE E!Alive(fallback)
      <4>1. req' = [req EXCEPT ![r] = [req[r] EXCEPT !.pc = "rearm", !.set = TRUE]]
        BY <2>7, <3>1 DEF E!ReadFallback
      <4> QED
        BY <2>4, <2>7, <4>1 DEF E!ReadFallback, SessionInv
    <3>2. CASE ~E!Alive(fallback)
      <4>1. req' = [req EXCEPT ![r] = [req[r] EXCEPT !.pc = "verify", !.set = req[r].set]]
        BY <2>1, <2>7, <3>2 DEF E!ReadFallback, Bearer
      <4>2. ~E!Due
        BY <3>2, FallbackAssumption DEF SessionInv, E!Due, E!Alive, KeyCopy
      <4>3. ~req[r].due
        BY <2>1, <2>7, <4>2 DEF InHand, E!Free, E!ReadFallback
      <4> QED
        BY <2>1, <2>4, <2>7, <4>1, <4>3 DEF E!ReadFallback, SessionInv, Bearer
    <3> QED
      BY <3>1, <3>2
  <2>8. CASE E!Put(r) \/ E!Rearm(r)
    <3>1. fresh' \in KeyCopy
      <4>1. PICK brief \in BOOLEAN : fresh' = [end |-> hour + 1, brief |-> brief]
        BY <2>8 DEF E!Put, E!Rearm, E!Copy
      <4>2. hour + 1 \in Nat
        BY DEF SessionInv
      <4> QED
        BY <4>1, <4>2 DEF KeyCopy
    <3>2. req[r].set /\ req[r].pc # "free"
      BY <2>1, <2>8 DEF E!Put, E!Rearm, InHand
    <3>3. PICK pc \in {"keep", "verify"} : req' = [req EXCEPT ![r].pc = pc]
      BY <2>8 DEF E!Put, E!Rearm, E!Goto, E!Answer
    <3>4. req' = [req EXCEPT ![r] = [req[r] EXCEPT !.pc = pc, !.set = TRUE]]
      BY <2>1, <3>2, <3>3 DEF Bearer, SessionInv
    <3>5. UNCHANGED <<hour, kept, fallback>>
      BY <2>8 DEF E!Put, E!Rearm
    <3> QED
      BY <2>4, <3>1, <3>2, <3>4, <3>5
  <2>9. CASE E!WriteFails(r)
    <3>1. req[r].set /\ req[r].pc # "free" /\ req' = [req EXCEPT ![r].pc = "verify"]
      BY <2>1, <2>9 DEF E!WriteFails, E!Answer, InHand
    <3>2. req' = [req EXCEPT ![r] = [req[r] EXCEPT !.pc = "verify", !.set = TRUE]]
      BY <2>1, <3>1 DEF Bearer, SessionInv
    <3>3. UNCHANGED <<hour, kept, fallback>> /\ fresh' \in KeyCopy \cup {None}
      BY <2>9 DEF E!WriteFails, SessionInv
    <3> QED
      BY <2>4, <3>1, <3>2, <3>3
  <2>10. CASE E!RearmFails(r) \/ E!Verify(r)
    <3>1. /\ req' = [req EXCEPT ![r] = E!Free]
          /\ UNCHANGED <<hour, kept, fallback, fresh>>
      BY <2>10 DEF E!RearmFails, E!Verify
    <3>2. PICK q \in Bearer : q = E!Free
      BY DEF E!Free, Bearer
    <3>3. InHand(q)'
      BY <3>2 DEF InHand, E!Free
    <3> QED
      BY <2>2, <3>1, <3>2, <3>3 DEF SessionInv
  <2>11. CASE E!Keep(r)
    <3>1. /\ req' = [req EXCEPT ![r] = [req[r] EXCEPT !.pc = "verify", !.set = TRUE]]
          /\ UNCHANGED <<hour, fresh>>
      BY <2>1, <2>11 DEF E!Keep, E!Answer, InHand, Bearer, SessionInv
    <3>2. PICK q \in Bearer : q = [req[r] EXCEPT !.pc = "verify", !.set = TRUE]
      BY <2>1 DEF Bearer
    <3>3. q.pc = "verify" /\ q.set
      BY <2>1, <3>2 DEF Bearer
    <3>4. fallback' \in KeyCopy /\ kept' \in Nat /\ fallback'.end = kept'
      BY <2>11, FallbackAssumption DEF E!Keep, E!Copy, KeyCopy, SessionInv
    <3>5. E!Due'
      BY <2>11, FallbackAssumption DEF E!Keep, E!Due, SessionInv
    <3>6. InHand(q)'
      BY <3>3, <3>5 DEF InHand
    <3>7. req' \in [Request -> Bearer] /\ \A s \in Request : InHand(req[s])'
      BY <1>4, <3>1, <3>2, <3>5, <3>6, SessionGoes
    <3> QED
      BY <3>1, <3>4, <3>7, FallbackAssumption DEF SessionInv
  <2> QED
    BY <1>4, <2>3, <2>5, <2>6, <2>7, <2>8, <2>9, <2>10, <2>11
<1> QED
  BY <1>1, <1>2, <1>3, <1>4 DEF E!Next

LEMMA SessionsRest ==
  ASSUME SessionInv, UNCHANGED session
  PROVE  SessionInv'
<1>1. UNCHANGED <<hour, fresh, fallback, kept, req>>
  BY DEF session
<1> QED
  BY <1>1 DEF SessionInv, InHand, E!Due

\* "A Clerk JWKS outage must not 401 the whole dashboard" (middleware/auth.ts:151): for any number
\* of overlapping requests, outages and lost writes, a request that began while the fallback was not
\* due to end has keys in hand when it verifies its token.
THEOREM OutagesAreBridged == AccessSpec => []OutageIsBridged
<1>1. AccessInit => SessionInv
  BY SessionsBegin DEF AccessInit
<1>2. SessionInv /\ [AccessNext]_<<vars, people, session, part>> => SessionInv'
  BY SessionStep, SessionsRest DEF AccessNext
<1>3. SessionInv => OutageIsBridged
  BY DEF SessionInv, InHand, OutageIsBridged, E!OutageIsBridged
<1> QED
  BY <1>1, <1>2, <1>3, PTL DEF AccessSpec
===============================================================================
