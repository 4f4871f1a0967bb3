--------------------------- MODULE ConfigSyncProofs ---------------------------
(***************************************************************************)
(* Proofs about ConfigSync, for any dashboard requests, PHP requests and    *)
(* bounds: the plugin's mode always has an author, and the mark of a        *)
(* dashboard's command is always earned.                                    *)
(*                                                                         *)
(* Neither invariant is inductive: a status reaches the option through the  *)
(* copy a request loaded, the config that authenticated its call, the       *)
(* command of an answer or a push on the wire.  Inv says that every such    *)
(* copy carries only what it may.                                           *)
(***************************************************************************)
EXTENDS ConfigSync, TLAPS

Authors == chosen \cup commanded

\* A config that is marked as the dashboard's carries a status of the dashboard's.
Earned(c) == c.dash => c.status \in commanded

\* An order that sets the status sets one with an author.
Ordered(o) == o.what \in {"switch", "deploy"} => o.status \in Authors

Called == {"auth", "fill", "merge", "look", "adopt", "mirror", "answer"}

\* What a request holds at each of its statements.
Holds(q) ==
    /\ q.pc \in Called \cup {"write"} => q.mem # None
    /\ q.pc = "write" => q.order # None
    /\ q.pc = "merge" => q.call = "verify"
    /\ q.pc \in {"look", "adopt"} => q.call = "heartbeat"
    /\ q.pc \in {"fill", "merge"} => q.auth # None
    /\ q.pc \in Called \ {"auth"} /\ q.call = "heartbeat" => q.auth # None
    /\ q.pc \in {"adopt", "mirror"} => q.cfg # None

\* Each copy a request holds carries only what it may.
Carries(q) ==
    /\ q.mem # None => q.mem.status \in Authors
    /\ q.auth # None => Earned(q.auth)
    /\ q.cfg # None => Earned(q.cfg)
    /\ q.apply # None => q.apply \in commanded
    /\ q.order # None => Ordered(q.order)

PhpInv  == \A p \in Worker : Holds(php[p]) /\ Carries(php[p])
PutInv  == \A d \in Dashboard : Earned(put[d].cfg) /\ (put[d].pc # "idle" => put[d].cfg.dash)
WireInv == \A m \in wire : Ordered(m)

Inv == TypeOK /\ ModeHasAnAuthor /\ MarkIsEarned /\ PhpInv /\ PutInv /\ WireInv

USE BoundsAssumption, CronAssumption, NoneAssumption, TriesAssumption, OffloadAssumption

\* An idle request is well typed, and holds nothing.
LEMMA IdleOK == Idle \in Process /\ Holds(Idle) /\ Carries(Idle)
BY DEF Idle, Process, Holds, Carries, Called

\* The preset is a config without the dashboard's mark.
LEMMA PresetOK == Preset \in Config /\ ~Preset.dash
BY DEF Preset, Config, Settings, Status

\* The initial states.
LEMMA InitInv == Init => Inv
<1> SUFFICES ASSUME Init PROVE Inv
  OBVIOUS
<1>1. option \in Option /\ option.status = "live"
  BY DEF Init, Option, Settings, Status
<1>2. TypeOK
  <2>1. put \in [Dashboard -> Saving]
    BY PresetOK DEF Init, Saving
  <2>2. php \in [Worker -> Process]
    BY IdleOK DEF Init
  <2>3. row \in Config /\ kv \in Config \cup {None} /\ chosen \subseteq Status
    BY <1>1, PresetOK DEF Init, Status
  <2>4. edits \in 0..MaxEdits /\ calls \in 0..MaxCalls /\ lost \in 0..MaxLost
    BY DEF Init
  <2> QED
    BY <1>1, <2>1, <2>2, <2>3, <2>4 DEF Init, TypeOK
<1>3. ModeHasAnAuthor /\ MarkIsEarned
  BY <1>1, PresetOK DEF Init, ModeHasAnAuthor, MarkIsEarned
<1>4. PhpInv
  BY IdleOK DEF Init, PhpInv
<1>5. PutInv /\ WireInv
  BY PresetOK DEF Init, PutInv, WireInv, Earned
<1> QED
  BY <1>2, <1>3, <1>4, <1>5 DEF Inv

-------------------------------------------------------------------------------
(* Frames: what holds of the requests still holds when they stay as they are   *)
(* and more has been chosen and commanded.                                     *)

LEMMA CarriesMore ==
    ASSUME NEW q, Carries(q), chosen \subseteq chosen', commanded \subseteq commanded'
    PROVE  Carries(q)'
BY DEF Carries, Earned, Ordered, Authors

LEMMA PhpKept ==
    ASSUME PhpInv, php' = php, chosen \subseteq chosen', commanded \subseteq commanded'
    PROVE  PhpInv'
BY CarriesMore DEF PhpInv, Holds

LEMMA PutKept ==
    ASSUME PutInv, put' = put, commanded \subseteq commanded'
    PROVE  PutInv'
BY DEF PutInv, Earned

LEMMA WireKept ==
    ASSUME WireInv, wire' \subseteq wire, chosen \subseteq chosen', commanded \subseteq commanded'
    PROVE  WireInv'
BY DEF WireInv, Ordered, Authors

-------------------------------------------------------------------------------
(* The dashboard's steps, and those of the environment. *)

\* A dashboard's save marks a status that it thereby commands.
LEMMA SaveInv ==
    ASSUME Inv, NEW d \in Dashboard, NEW cdn \in Offload, NEW status \in Status,
           Save(d, cdn, status)
    PROVE  Inv'
<1> USE DEF Save
<1>1. /\ put'[d].cfg.dash /\ put'[d].cfg.status \in commanded'
      /\ put'[d] \in Saving
  BY DEF Inv, TypeOK, Saving, Config, Settings
<1>2. TypeOK'
  BY <1>1 DEF Inv, TypeOK
<1>3. ModeHasAnAuthor' /\ MarkIsEarned'
  BY DEF Inv, ModeHasAnAuthor, MarkIsEarned
<1>4. PhpInv' /\ WireInv'
  BY PhpKept, WireKept DEF Inv
<1>5. PutInv'
  BY <1>1 DEF Inv, TypeOK, PutInv, Earned
<1> QED
  BY <1>2, <1>3, <1>4, <1>5 DEF Inv

\* What a dashboard request writes and sends is its own.
LEMMA DashboardInv ==
    ASSUME Inv, NEW d \in Dashboard,
           Update(d) \/ Cache(d) \/ Send(d) \/ Retry(d) \/ GiveUp(d)
    PROVE  Inv'
<1>1. put[d] \in Saving /\ put[d].cfg \in Config /\ Earned(put[d].cfg)
  BY DEF Inv, TypeOK, Saving, PutInv
<1>2. put[d].pc # "idle" => put[d].cfg.dash /\ put[d].cfg.status \in commanded
  BY DEF Inv, PutInv, Earned
<1>3. /\ put'[d] \in Saving /\ put'[d].cfg = put[d].cfg
      /\ put[d].pc # "idle"
      /\ put' = [put EXCEPT ![d] = put'[d]]
  BY <1>1 DEF Inv, TypeOK, Saving, Update, Cache, Send, Retry, GiveUp
<1>4. \A m \in wire' \ wire : m \in Order /\ Ordered(m)
  BY <1>1, <1>2 DEF Inv, TypeOK, Saving, Config, Push, Order, Ordered, Authors,
                    Update, Cache, Send, Retry, GiveUp
<1>5. /\ UNCHANGED <<option, optedOut, php, edits, calls, lost, commanded, chosen>>
      /\ row' \in {row, put[d].cfg} /\ kv' \in {kv, put[d].cfg}
  BY DEF Update, Cache, Cached, Send, Retry, GiveUp
<1>6. TypeOK'
  BY <1>1, <1>3, <1>4, <1>5 DEF Inv, TypeOK
<1>7. ModeHasAnAuthor' /\ MarkIsEarned'
  BY <1>1, <1>5 DEF Inv, ModeHasAnAuthor, MarkIsEarned, Earned
<1>8. PhpInv'
  BY <1>5, PhpKept DEF Inv
<1>9. PutInv'
  BY <1>2, <1>3, <1>5 DEF Inv, TypeOK, PutInv, Earned
<1>10. WireInv'
  BY <1>4, <1>5 DEF Inv, WireInv, Ordered, Authors
<1> QED
  BY <1>6, <1>7, <1>8, <1>9, <1>10 DEF Inv

\* Losing a push or the cache entry takes copies away.
LEMMA LossInv == ASSUME Inv, Expire \/ \E m \in wire : Lose(m) PROVE Inv'
<1>1. /\ UNCHANGED <<row, option, optedOut, put, php, edits, calls, commanded, chosen>>
      /\ kv' \in {kv, None} /\ wire' \subseteq wire /\ lost' \in 0..MaxLost
  BY DEF Expire, Lose, Inv, TypeOK
<1>2. TypeOK' /\ ModeHasAnAuthor' /\ MarkIsEarned'
  BY <1>1 DEF Inv, TypeOK, ModeHasAnAuthor, MarkIsEarned
<1>3. PhpInv' /\ PutInv' /\ WireInv'
  BY <1>1, PhpKept, PutKept, WireKept DEF Inv
<1> QED
  BY <1>2, <1>3 DEF Inv

-------------------------------------------------------------------------------
(* The plugin's steps.                                                         *)

\* A step of one request, to a state that is as it should be.
LEMMA PhpMoves ==
    ASSUME Inv, NEW p \in Worker, NEW q \in Process, php' = [php EXCEPT ![p] = q],
           Holds(q), Carries(q)',
           chosen \subseteq chosen', commanded \subseteq commanded'
    PROVE  php' \in [Worker -> Process] /\ PhpInv'
<1>1. php' \in [Worker -> Process]
  BY DEF Inv, TypeOK
<1>2. ASSUME NEW r \in Worker PROVE Holds(php'[r]) /\ Carries(php[r])'
  <2>1. CASE r = p
    <3>1. php'[r] = q
      BY <2>1 DEF Inv, TypeOK
    <3> QED
      BY <3>1
  <2>2. CASE r # p
    <3>1. php'[r] = php[r] /\ Holds(php[r]) /\ Carries(php[r])
      BY <2>2 DEF Inv, TypeOK, PhpInv
    <3> QED
      BY <3>1, CarriesMore
  <2> QED
    BY <2>1, <2>2
<1> QED
  BY <1>1, <1>2 DEF PhpInv, Holds

\* A request that starts with an order whose status, if it sets one, has an author.
LEMMA StartInv ==
    ASSUME Inv, NEW p \in Worker, NEW order \in Order, Start(p, order),
           order.what \in {"switch", "deploy"} => order.status \in chosen' \cup commanded',
           chosen \subseteq chosen', UNCHANGED commanded
    PROVE  php' \in [Worker -> Process] /\ PhpInv'
<1>1. php' = [php EXCEPT ![p] = php'[p]]
  BY DEF Inv, TypeOK, Start
<1>2. php'[p] = [Idle EXCEPT !.pc = "write", !.mem = option, !.order = order]
  BY DEF Inv, TypeOK, Start
<1>3. option \in Option /\ option.status \in Authors /\ option # None /\ order # None
  BY DEF Inv, TypeOK, ModeHasAnAuthor, Authors
<1>4. php'[p] \in Process /\ Holds(php'[p])
  BY <1>2, <1>3 DEF Process, Holds, Called, Idle
<1>5. Carries(php[p])'
  BY <1>2, <1>3 DEF Carries, Ordered, Authors, Idle
<1> QED
  BY <1>1, <1>4, <1>5, PhpMoves

\* A request that starts with a call.
LEMMA CallInv ==
    ASSUME Inv, NEW p \in Worker, NEW call \in {"verify", "heartbeat"}, NEW beat \in BOOLEAN,
           Call(p, call, beat), UNCHANGED <<chosen, commanded>>
    PROVE  php' \in [Worker -> Process] /\ PhpInv'
<1>1. php' = [php EXCEPT ![p] = php'[p]]
  BY DEF Inv, TypeOK, Call
<1>2. php'[p] = [Idle EXCEPT !.pc = "auth", !.call = call, !.beat = beat, !.mem = option]
  BY DEF Inv, TypeOK, Call
<1>3. option \in Option /\ option.status \in Authors /\ option # None
  BY DEF Inv, TypeOK, ModeHasAnAuthor, Authors
<1>4. php'[p] \in Process /\ Holds(php'[p])
  BY <1>2, <1>3 DEF Process, Holds, Called, Idle
<1>5. Carries(php[p])'
  BY <1>2, <1>3 DEF Carries, Authors, Idle
<1> QED
  BY <1>1, <1>4, <1>5, PhpMoves

\* What begins a request: a save, a switch, a push or a visit.
LEMMA RequestInv == ASSUME Inv, NEW p \in Worker, Request(p) PROVE Inv'
<1>1. ASSUME NEW page \in {"page", "preset", "assets"}, NEW cdn \in Offload, SavePage(p, page, cdn)
      PROVE  Inv'
  <2> DEFINE o == [what |-> page, settings |-> [rev |-> edits + 1, cdn |-> cdn],
                   status |-> option.status, try |-> 0]
  <2>1. o \in Order /\ o.what \notin {"switch", "deploy"}
    BY <1>1 DEF Inv, TypeOK, SavePage, Order, Option, Settings
  <2>2. php' \in [Worker -> Process] /\ PhpInv'
    BY <1>1, <2>1, StartInv DEF SavePage
  <2>3. edits' \in 0..MaxEdits
    BY <1>1 DEF Inv, TypeOK, SavePage
  <2>4. TypeOK' /\ ModeHasAnAuthor' /\ MarkIsEarned'
    BY <1>1, <2>2, <2>3 DEF Inv, TypeOK, ModeHasAnAuthor, MarkIsEarned, SavePage
  <2> QED
    BY <1>1, <2>2, <2>4, PutKept, WireKept DEF Inv, SavePage
<1>2. ASSUME NEW status \in Status, Switch(p, status)
      PROVE  Inv'
  <2> DEFINE o == [what |-> "switch", settings |-> option.settings, status |-> status,
                   try |-> 0]
  <2>1. o \in Order /\ o.status \in chosen'
    BY <1>2 DEF Inv, TypeOK, Switch, Order, Option
  <2>2. php' \in [Worker -> Process] /\ PhpInv'
    BY <1>2, <2>1, StartInv DEF Switch
  <2>3. TypeOK' /\ ModeHasAnAuthor' /\ MarkIsEarned'
    BY <1>2, <2>2 DEF Inv, TypeOK, ModeHasAnAuthor, MarkIsEarned, Switch
  <2> QED
    BY <1>2, <2>2, <2>3, PutKept, WireKept DEF Inv, Switch
<1>3. ASSUME NEW m \in wire, Receive(p, m)
      PROVE  Inv'
  <2>1. m \in Order /\ (m.what \in {"switch", "deploy"} => m.status \in chosen' \cup commanded')
    BY <1>3 DEF Inv, TypeOK, WireInv, Receive, Ordered, Authors
  <2>2. php' \in [Worker -> Process] /\ PhpInv'
    BY <1>3, <2>1, StartInv DEF Receive
  <2>3. TypeOK' /\ ModeHasAnAuthor' /\ MarkIsEarned'
    BY <1>3, <2>2 DEF Inv, TypeOK, ModeHasAnAuthor, MarkIsEarned, Receive
  <2> QED
    BY <1>3, <2>2, <2>3, PutKept, WireKept DEF Inv, Receive
<1>4. ASSUME NEW call \in {"verify", "heartbeat"}, NEW beat \in BOOLEAN, Visit(p, call, beat)
      PROVE  Inv'
  <2>1. php' \in [Worker -> Process] /\ PhpInv'
    BY <1>4, CallInv DEF Visit
  <2>2. TypeOK' /\ ModeHasAnAuthor' /\ MarkIsEarned'
    <3>1. calls' \in 0..MaxCalls
      BY <1>4 DEF Inv, TypeOK, Visit
    <3> QED
      BY <1>4, <2>1, <3>1 DEF Inv, TypeOK, ModeHasAnAuthor, MarkIsEarned, Visit
  <2> QED
    BY <1>4, <2>1, <2>2, PutKept, WireKept DEF Inv, Visit
<1> QED
  BY <1>1, <1>2, <1>3, <1>4 DEF Request

\* The calls that cron makes.
LEMMA CronInv == ASSUME Inv, NEW p \in Worker, StartSync(p) \/ Daily PROVE Inv'
<1>1. php' \in [Worker -> Process] /\ PhpInv'
  BY CallInv DEF StartSync, Daily
<1>2. UNCHANGED <<row, kv, option, optedOut, put, wire, edits, calls, lost, commanded, chosen>>
  BY DEF StartSync, Daily
<1>3. TypeOK' /\ ModeHasAnAuthor' /\ MarkIsEarned'
  BY <1>1, <1>2 DEF Inv, TypeOK, ModeHasAnAuthor, MarkIsEarned
<1> QED
  BY <1>1, <1>2, <1>3, PutKept, WireKept DEF Inv

\* A write of the option changes its status only by a switch or a deploy command.
LEMMA WriteInv == ASSUME Inv, NEW p \in Worker, Write(p) PROVE Inv'
<1> DEFINE o == php[p].order
<1> DEFINE mem == php[p].mem
<1>1. /\ o \in Order /\ Ordered(o)
      /\ mem \in Option /\ mem.status \in Authors
  BY DEF Write, Inv, TypeOK, Process, PhpInv, Holds, Carries
<1>2. option' \in Option /\ option'.status \in Authors
  <2>1. Written(mem, o) \in Option /\ Written(mem, o).status \in Authors
    BY <1>1 DEF Written, Option, Order, Ordered
  <2>2. option' \in {option, Written(mem, o)} /\ UNCHANGED <<chosen, commanded>>
    BY DEF Write
  <2>3. option \in Option /\ option.status \in Authors
    BY DEF Inv, TypeOK, ModeHasAnAuthor, Authors
  <2> QED
    BY <2>1, <2>2, <2>3
<1>3. php' \in [Worker -> Process] /\ PhpInv'
  <2>1. php' = [php EXCEPT ![p] = php'[p]] /\ php'[p] \in {Idle, [Idle EXCEPT !.pc = "sync"]}
    BY DEF Write, Inv, TypeOK
  <2>2. php'[p] \in Process /\ Holds(php'[p])
    <3>1. Idle \in Process /\ Holds(Idle)
      BY IdleOK
    <3>2. [Idle EXCEPT !.pc = "sync"] \in Process /\ Holds([Idle EXCEPT !.pc = "sync"])
      BY DEF Idle, Process, Holds, Called
    <3> QED
      BY <2>1, <3>1, <3>2
  <2>3. Carries(php[p])'
    BY <2>1 DEF Idle, Carries
  <2> QED
    BY <2>1, <2>2, <2>3, PhpMoves DEF Write
<1>4. put' \in [Dashboard -> Saving] /\ PutInv'
  <2>1. ASSUME NEW d \in Dashboard
        PROVE  /\ put'[d] \in Saving /\ put'[d].cfg = put[d].cfg
               /\ put'[d].pc # "idle" => put[d].pc # "idle"
    BY <2>1 DEF Write, Inv, TypeOK, Saving, Awaits
  <2>2. put' \in [Dashboard -> Saving]
    <3>1. put' = [d \in Dashboard |-> put'[d]]
      BY DEF Write
    <3> QED
      BY <2>1, <3>1
  <2>3. PutInv /\ UNCHANGED commanded
    BY DEF Write, Inv
  <2>4. PutInv'
    BY <2>1, <2>3 DEF PutInv, Earned
  <2> QED
    BY <2>2, <2>4
<1>5. optedOut' \in BOOLEAN
  BY <1>1 DEF Write, Inv, TypeOK, Order, Settings
<1>6. TypeOK' /\ ModeHasAnAuthor' /\ MarkIsEarned'
  BY <1>2, <1>3, <1>4, <1>5 DEF Write, Inv, TypeOK, ModeHasAnAuthor, MarkIsEarned, Authors
<1> QED
  BY <1>3, <1>4, <1>6, WireKept DEF Inv, Write

\* A call is authenticated by, and caches, a copy of the row.
LEMMA AuthInv == ASSUME Inv, NEW p \in Worker, Auth(p) \/ Fill(p) PROVE Inv'
<1>1. /\ php[p] \in Process /\ Holds(php[p]) /\ Carries(php[p])
      /\ row \in Config /\ Earned(row) /\ kv \in Config \cup {None} /\ (kv # None => Earned(kv))
  BY DEF Inv, TypeOK, PhpInv, MarkIsEarned, Earned
<1>2. UNCHANGED <<row, option, optedOut, put, wire, edits, calls, lost, commanded, chosen>>
  BY DEF Auth, Fill
<1>3. kv' \in Config \cup {None} /\ (kv' # None => Earned(kv)')
  BY <1>1 DEF Auth, Fill, Process, Holds, Carries, Earned
<1>4. php' = [php EXCEPT ![p] = php'[p]]
  BY DEF Auth, Fill, Inv, TypeOK
<1>5. php'[p] \in Process /\ Holds(php'[p])
  BY <1>1, NoneAssumption DEF Auth, Fill, First, Inv, TypeOK, Process, Holds, Called
<1>6. Carries(php[p])'
  BY <1>1, <1>2 DEF Auth, Fill, Inv, TypeOK, Process, Carries, Earned, Ordered, Authors
<1>7. php' \in [Worker -> Process] /\ PhpInv'
  BY <1>2, <1>4, <1>5, <1>6, PhpMoves
<1>8. TypeOK' /\ ModeHasAnAuthor' /\ MarkIsEarned'
  BY <1>2, <1>3, <1>7 DEF Inv, TypeOK, ModeHasAnAuthor, MarkIsEarned, Earned
<1> QED
  BY <1>2, <1>7, <1>8, PutKept, WireKept DEF Inv

\* What /verify and /heartbeat write to the row and to the cache is marked only if the
\* copy it comes from was.
LEMMA EdgeInv ==
    ASSUME Inv, NEW p \in Worker, Merge(p) \/ Look(p) \/ Adopt(p) \/ Mirror(p)
    PROVE  Inv'
<1>1. /\ php[p] \in Process /\ Holds(php[p]) /\ Carries(php[p])
      /\ row \in Config /\ Earned(row)
  BY DEF Inv, TypeOK, PhpInv, MarkIsEarned, Earned
<1>2. UNCHANGED <<option, optedOut, put, wire, edits, calls, lost, commanded, chosen>>
  BY DEF Merge, Look, Adopt, Mirror
<1>3. ASSUME Merge(p)
      PROVE  Merged(php[p].mem, php[p].auth) \in Config /\ Earned(Merged(php[p].mem, php[p].auth))
  BY <1>1, <1>3 DEF Merge, Merged, Process, Holds, Called, Carries, Earned, Option, Config
<1>4. row' \in Config /\ Earned(row)'
  BY <1>1, <1>2, <1>3 DEF Merge, Look, Adopt, Mirror, Process, Holds, Carries, Earned
<1>5. kv' \in Config \cup {None} /\ (kv' # None => Earned(kv)')
  BY <1>1, <1>2 DEF Merge, Look, Adopt, Mirror, Cached, Process, Holds, Carries, Earned,
                    Inv, TypeOK, MarkIsEarned
<1>6. php' = [php EXCEPT ![p] = php'[p]]
  BY DEF Merge, Look, Adopt, Mirror, Inv, TypeOK
<1>7. php'[p] \in Process /\ Holds(php'[p]) /\ Carries(php[p])'
  <2>1. CASE Merge(p)
    BY <1>1, <1>2, <1>3, <2>1 DEF Merge, Inv, TypeOK, Process, Holds, Called, Carries, Earned,
                                  Ordered, Authors
  <2>2. CASE Look(p)
    <3>1. php[p].mem \in Option
      BY <1>1, <2>2 DEF Look, Process, Holds, Called
    <3>2. /\ [row EXCEPT !.status = php[p].mem.status] \in Config
          /\ ~row.dash => Earned([row EXCEPT !.status = php[p].mem.status])
      BY <1>1, <3>1 DEF Config, Option, Earned
    <3>3. row.dash => row.status \in commanded /\ row.status \in Status
      BY <1>1 DEF Earned, Config
    <3> QED
      BY <1>1, <1>2, <2>2, <3>1, <3>2, <3>3 DEF Look, Inv, TypeOK, Process, Holds, Called,
                                  Carries, Earned, Ordered, Authors
  <2>3. CASE Adopt(p)
    BY <1>1, <1>2, <2>3 DEF Adopt, Inv, TypeOK, Process, Holds, Called, Carries, Earned,
                            Ordered, Authors
  <2>4. CASE Mirror(p)
    BY <1>1, <1>2, <2>4 DEF Mirror, Inv, TypeOK, Process, Holds, Called, Carries, Earned,
                            Ordered, Authors
  <2> QED
    BY <2>1, <2>2, <2>3, <2>4
<1>8. php' \in [Worker -> Process] /\ PhpInv'
  BY <1>2, <1>6, <1>7, PhpMoves
<1>9. TypeOK' /\ ModeHasAnAuthor' /\ MarkIsEarned'
  BY <1>2, <1>4, <1>5, <1>8 DEF Inv, TypeOK, ModeHasAnAuthor, MarkIsEarned, Earned
<1> QED
  BY <1>2, <1>8, <1>9, PutKept, WireKept DEF Inv

\* A request that goes on with the heartbeat is as it should be.
LEMMA ContinueOK ==
    ASSUME Inv, NEW p \in Worker, NEW mem \in Option
    PROVE  /\ Continue(p, mem) \in Process /\ Holds(Continue(p, mem))
           /\ Continue(p, mem).mem \in {mem, None}
           /\ Continue(p, mem).auth = None /\ Continue(p, mem).cfg = None
           /\ Continue(p, mem).apply = None /\ Continue(p, mem).order = None
<1>1. php[p].beat \in BOOLEAN /\ mem # None
  BY DEF Inv, TypeOK, Process
<1>2. CASE php[p].beat
  BY <1>1, <1>2 DEF Continue, Idle, Process, Holds, Called
<1>3. CASE ~php[p].beat
  BY <1>3, IdleOK DEF Continue, Idle
<1> QED
  BY <1>1, <1>2, <1>3

\* What an answer writes to the option has the status of the loaded copy, of the command
\* or of a marked config.
LEMMA AnswerInv == ASSUME Inv, NEW p \in Worker, Verified(p) \/ Beaten(p) PROVE Inv'
<1> DEFINE mem == php[p].mem
<1> DEFINE new == IF Verified(p) THEN Onboarded(mem)
                  ELSE Overwritten(Commanded(mem, php[p].apply), php[p].auth)
<1>1. /\ php[p] \in Process /\ Holds(php[p]) /\ Carries(php[p])
      /\ option \in Option /\ option.status \in Authors
  BY DEF Inv, TypeOK, PhpInv, ModeHasAnAuthor, Authors
<1>2. UNCHANGED <<row, kv, optedOut, put, wire, edits, calls, lost, commanded, chosen>>
  BY DEF Verified, Beaten
<1>3. mem \in Option /\ mem.status \in Authors /\ mem # None
  BY <1>1 DEF Verified, Beaten, Process, Holds, Called, Carries
<1>4. Onboarded(mem) \in Option /\ Onboarded(mem).status \in Authors
  BY <1>3 DEF Onboarded, Option, Settings
<1>5. ASSUME Beaten(p)
      PROVE  /\ Overwritten(Commanded(mem, php[p].apply), php[p].auth) \in Option
             /\ Overwritten(Commanded(mem, php[p].apply), php[p].auth).status \in Authors
  <2>1. Commanded(mem, php[p].apply) \in Option /\ Commanded(mem, php[p].apply).status \in Authors
    BY <1>1, <1>3 DEF Commanded, Option, Process, Carries, Authors
  <2>2. php[p].auth \in Config /\ Earned(php[p].auth)
    BY <1>1, <1>5 DEF Beaten, Process, Holds, Called, Carries
  <2> QED
    BY <2>1, <2>2 DEF Overwritten, Option, Config, Earned, Authors
<1>6. option' \in Option /\ option'.status \in Authors
  BY <1>1, <1>4, <1>5 DEF Verified, Beaten
<1>7. php' = [php EXCEPT ![p] = php'[p]]
  BY DEF Verified, Beaten, Inv, TypeOK
<1>8. php'[p] \in {Idle, Continue(p, Onboarded(mem))}
  BY DEF Verified, Beaten, Inv, TypeOK
<1>9. php'[p] \in Process /\ Holds(php'[p]) /\ Carries(php[p])'
  <2>1. php'[p] \in Process /\ Holds(php'[p])
    BY <1>4, <1>8, IdleOK, ContinueOK
  <2>2. /\ php'[p].mem \in {Onboarded(mem), None}
        /\ php'[p].auth = None /\ php'[p].cfg = None /\ php'[p].apply = None
        /\ php'[p].order = None
    BY <1>4, <1>8, ContinueOK DEF Idle
  <2>3. Carries(php[p])'
    BY <1>2, <1>4, <2>2 DEF Carries, Authors
  <2> QED
    BY <2>1, <2>3
<1>10. php' \in [Worker -> Process] /\ PhpInv'
  BY <1>2, <1>7, <1>9, PhpMoves
<1>11. TypeOK' /\ ModeHasAnAuthor' /\ MarkIsEarned'
  BY <1>2, <1>6, <1>10 DEF Inv, TypeOK, ModeHasAnAuthor, MarkIsEarned, Authors
<1> QED
  BY <1>2, <1>10, <1>11, PutKept, WireKept DEF Inv

\* A call that gets no answer leaves the plugin with its loaded copy.
LEMMA InterruptInv == ASSUME Inv, NEW p \in Worker, Interrupt(p) PROVE Inv'
<1>1. /\ php[p] \in Process /\ Holds(php[p]) /\ Carries(php[p])
  BY DEF Inv, TypeOK, PhpInv
<1>2. UNCHANGED <<row, kv, option, optedOut, put, wire, edits, calls, commanded, chosen>>
  BY DEF Interrupt
<1>3. php[p].mem \in Option /\ php[p].mem.status \in Authors /\ php[p].mem # None
  BY <1>1 DEF Interrupt, Process, Holds, Called, Carries
<1>4. php' = [php EXCEPT ![p] = php'[p]] /\ php'[p] = Continue(p, php[p].mem)
  BY DEF Interrupt, Inv, TypeOK
<1>5. php'[p] \in Process /\ Holds(php'[p]) /\ Carries(php[p])'
  <2>1. php'[p] \in Process /\ Holds(php'[p])
    BY <1>3, <1>4, ContinueOK
  <2>2. /\ php'[p].mem \in {php[p].mem, None}
        /\ php'[p].auth = None /\ php'[p].cfg = None /\ php'[p].apply = None
        /\ php'[p].order = None
    BY <1>3, <1>4, ContinueOK
  <2>3. Carries(php[p])'
    BY <1>2, <1>3, <2>2 DEF Carries, Authors
  <2> QED
    BY <2>1, <2>3
<1>6. php' \in [Worker -> Process] /\ PhpInv'
  BY <1>2, <1>4, <1>5, PhpMoves
<1>7. lost' \in 0..MaxLost
  BY DEF Interrupt, Inv, TypeOK
<1>8. TypeOK' /\ ModeHasAnAuthor' /\ MarkIsEarned'
  BY <1>2, <1>6, <1>7 DEF Inv, TypeOK, ModeHasAnAuthor, MarkIsEarned
<1> QED
  BY <1>2, <1>6, <1>8, PutKept, WireKept DEF Inv

-------------------------------------------------------------------------------
(* The theorems.                                                               *)

LEMMA NextInv == Inv /\ [Next]_vars => Inv'
<1> SUFFICES ASSUME Inv, [Next]_vars PROVE Inv'
  OBVIOUS
<1>1. ASSUME NEW d \in Dashboard, DashboardStep(d) PROVE Inv'
  BY <1>1, SaveInv, DashboardInv DEF DashboardStep
<1>2. ASSUME NEW p \in Worker, Request(p) PROVE Inv'
  BY <1>2, RequestInv
<1>3. ASSUME NEW p \in Worker, Proceed(p) PROVE Inv'
  BY <1>3, WriteInv, CronInv, AuthInv, EdgeInv, AnswerInv DEF Proceed
<1>4. ASSUME NEW p \in Worker, Interrupt(p) PROVE Inv'
  BY <1>4, InterruptInv
<1>5. CASE Daily
  BY <1>5, CronInv, CronAssumption
<1>6. CASE Expire \/ \E m \in wire : Lose(m)
  BY <1>6, LossInv
<1>7. CASE UNCHANGED vars
  <2>1. TypeOK' /\ ModeHasAnAuthor' /\ MarkIsEarned'
    BY <1>7 DEF Inv, TypeOK, ModeHasAnAuthor, MarkIsEarned, vars
  <2> QED
    BY <1>7, <2>1, PhpKept, PutKept, WireKept DEF Inv, vars
<1> QED
  BY <1>1, <1>2, <1>3, <1>4, <1>5, <1>6, <1>7 DEF Next

\* Every copy of the configuration and every request in progress is well typed and
\* carries a status it may carry.
THEOREM Provenance == Spec => []Inv
<1>1. Init => Inv
  BY InitInv
<1>2. Inv /\ [Next]_vars => Inv'
  BY NextInv
<1> QED
  BY <1>1, <1>2, PTL DEF Spec

\* Every reachable state is well typed.
THEOREM ConfigTypeCorrect == Spec => []TypeOK
<1>1. Inv => TypeOK
  BY DEF Inv
<1> QED
  BY <1>1, Provenance, PTL

\* The plugin is never in a mode that nobody chose in wp-admin and no save of the
\* dashboard carried, whatever is pushed, mirrored, cached, lost or overwritten.
THEOREM EveryModeHasAnAuthor == Spec => []ModeHasAnAuthor
<1>1. Inv => ModeHasAnAuthor
  BY DEF Inv
<1> QED
  BY <1>1, Provenance, PTL

\* No copy the edge keeps marks as the dashboard's a status that no save carried.
THEOREM EveryMarkIsEarned == Spec => []MarkIsEarned
<1>1. Inv => MarkIsEarned
  BY DEF Inv
<1> QED
  BY <1>1, Provenance, PTL

===============================================================================
