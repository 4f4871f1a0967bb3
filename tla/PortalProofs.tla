------------------------------ MODULE PortalProofs ------------------------------
(***************************************************************************)
(* Proofs about the parts of the portal, as one tab runs them (MCPortal).    *)
(* Every part has an invariant of its own, and every step of the portal is a  *)
(* step of one part that leaves the others as they are: the theorems at the   *)
(* end combine the two.                                                     *)
(***************************************************************************)
EXTENDS MCPortal, TLAPS

-----------------------------------------------------------------------------
(***************************************************************************)
(* The checkout                                                            *)
(***************************************************************************)
CheckoutPc == {"free", "call", "remember", "session", "error"}

CheckoutTypeOK ==
    /\ home \in C!Server \cup {None} /\ stock \in SUBSET C!Thing
    /\ override \in C!Server \cup {None} /\ hint \in C!Server \cup {None}
    /\ req \in [pc : CheckoutPc, wants : C!Thing \cup {None}, at : C!Server \cup {None},
                second : BOOLEAN, down : BOOLEAN]

\* A request that is under way asks one environment for one thing; when it asks the second
\* one, the first has refused the token.
Asking ==
    req.pc = "call" =>
        /\ req.at \in C!Server /\ req.wants \in C!Thing
        /\ req.second => C!Other(req.at) # home

\* The catalog is asked only for a reason.
CatalogForCause ==
    req.pc # "free" /\ req.wants = "catalog" => req.down \/ home = None \/ "configured" \notin stock

CheckoutInv ==
    /\ CheckoutTypeOK /\ Asking /\ CatalogForCause
    /\ req.pc \in {"remember", "session"} => req.at = home
    /\ C!SellsWhatItCan

LEMMA CheckoutBegins == C!Init => CheckoutInv
<1> SUFFICES ASSUME C!Init PROVE CheckoutInv
  OBVIOUS
<1>1. req = [pc |-> "free", wants |-> None, at |-> None, second |-> FALSE, down |-> FALSE]
  BY DEF C!Init, C!Fresh
<1>2. CheckoutTypeOK
  BY <1>1 DEF C!Init, CheckoutTypeOK, CheckoutPc
<1>3. req.pc = "free"
  BY <1>1
<1>4. QED
  BY <1>2, <1>3 DEF CheckoutInv, Asking, CatalogForCause, C!SellsWhatItCan

\* A call begins at the environment the worker prefers, which is one of the two.
LEMMA PreferredIsAServer ==
  ASSUME CheckoutTypeOK
  PROVE  C!Preferred \in C!Server
  BY DEF CheckoutTypeOK, C!Preferred, C!Server

\* An error is thrown for a reason: then the request goes on to the catalog, or is refused.
LEMMA ThrowKeepsInv ==
  ASSUME CheckoutInv, req.pc = "call", NEW unknown \in BOOLEAN, NEW down \in BOOLEAN,
         C!Throw(unknown, down), UNCHANGED <<home, stock, override>>,
         hint' \in C!Server \cup {None}, req.down => down,
         down \/ home = None \/ (req.wants \notin stock /\ req.wants # "catalog" /\ unknown)
  PROVE  CheckoutInv'
<1> USE DEF CheckoutInv
<1>1. C!Preferred \in C!Server
  BY PreferredIsAServer
<1>2. CASE req.wants = "configured" /\ C!ReadsAsUnknown(unknown)
  <2>1. req' = [pc |-> "call", wants |-> "catalog", at |-> C!Preferred, second |-> FALSE,
                down |-> down]
    BY <1>2 DEF C!Throw, C!Try
  <2>2. QED
    BY <1>1, <1>2, <2>1 DEF CheckoutTypeOK, CheckoutPc, Asking, CatalogForCause,
       C!SellsWhatItCan, C!Thing
<1>3. CASE ~(req.wants = "configured" /\ C!ReadsAsUnknown(unknown))
  <2>1. req' = [req EXCEPT !.pc = "error", !.down = down]
    BY <1>3 DEF C!Throw
  <2>2. req.wants # "configured" \/ ~unknown
    BY <1>3 DEF C!ReadsAsUnknown
  <2>3. QED
    BY <2>1, <2>2 DEF CheckoutTypeOK, CheckoutPc, Asking, CatalogForCause,
       C!SellsWhatItCan, C!Thing
<1>4. QED
  BY <1>2, <1>3

LEMMA CheckoutStep == CheckoutInv /\ [C!Next]_(C!billing) => CheckoutInv'
<1> SUFFICES ASSUME CheckoutInv, [C!Next]_(C!billing)
             PROVE  CheckoutInv'
  OBVIOUS
<1> USE DEF CheckoutInv
<1>1. CASE C!OtherRequest \/ C!HintExpires
  BY <1>1 DEF C!OtherRequest, C!HintExpires, CheckoutTypeOK, Asking, CatalogForCause,
     C!SellsWhatItCan
<1>2. CASE C!SelectPlan \/ C!OpenPortal
  <2>1. PICK what \in {"configured", "customer"} : C!Begin(what)
    BY <1>2 DEF C!SelectPlan, C!OpenPortal
  <2>2. req' = [pc |-> "call", wants |-> what, at |-> C!Preferred, second |-> FALSE, down |-> FALSE]
    BY <2>1 DEF C!Begin, C!Try
  <2>3. UNCHANGED <<home, stock, override, hint>> /\ C!Preferred \in C!Server
    BY <2>1, PreferredIsAServer DEF C!Begin
  <2>4. QED
    BY <2>2, <2>3 DEF CheckoutTypeOK, CheckoutPc, Asking, CatalogForCause, C!SellsWhatItCan,
       C!Thing
<1>3. CASE C!Refuse
  <2>1. CASE ~req.second
    <3>1. req' = [pc |-> "call", wants |-> req.wants, at |-> C!Other(req.at), second |-> TRUE,
                  down |-> req.down]
      BY <1>3, <2>1 DEF C!Refuse, CheckoutTypeOK
    <3>2. QED
      BY <1>3, <3>1 DEF C!Refuse, C!Other, C!Server, CheckoutTypeOK, CheckoutPc, Asking,
         CatalogForCause, C!SellsWhatItCan
  <2>2. CASE req.second
    <3>1. home = None
      BY <1>3, <2>2 DEF C!Refuse, C!Other, C!Server, CheckoutTypeOK, Asking
    <3>2. PICK unknown \in BOOLEAN : C!Throw(unknown, req.down)
      BY <1>3, <2>2, Zenon DEF C!Refuse
    <3>3. QED
      BY <1>3, <3>1, <3>2, ThrowKeepsInv DEF C!Refuse, CheckoutTypeOK
  <2>3. QED
    BY <2>1, <2>2 DEF CheckoutTypeOK
<1>4. CASE C!Serve
  BY <1>4 DEF C!Serve, CheckoutTypeOK, CheckoutPc, Asking, CatalogForCause, C!SellsWhatItCan
<1>5. CASE C!Lack
  <2>1. CASE req.wants = "catalog"
    BY <1>5, <2>1 DEF C!Lack, CheckoutTypeOK, CheckoutPc, Asking, CatalogForCause,
       C!SellsWhatItCan, C!Thing
  <2>2. CASE req.wants # "catalog"
    BY <1>5, <2>2, ThrowKeepsInv DEF C!Lack, CheckoutTypeOK
  <2>3. QED
    BY <2>1, <2>2
<1>6. CASE C!Down
  BY <1>6, ThrowKeepsInv DEF C!Down, CheckoutTypeOK
<1>7. CASE C!Remember
  BY <1>7 DEF C!Remember, CheckoutTypeOK, CheckoutPc, Asking, CatalogForCause,
     C!SellsWhatItCan
<1>8. CASE C!Answer
  BY <1>8 DEF C!Answer, C!Fresh, CheckoutTypeOK, CheckoutPc, Asking, CatalogForCause,
     C!SellsWhatItCan
<1>9. CASE UNCHANGED C!billing
  BY <1>9 DEF C!billing, CheckoutTypeOK, Asking, CatalogForCause, C!SellsWhatItCan, C!Other
<1>10. QED
  BY <1>1, <1>2, <1>3, <1>4, <1>5, <1>6, <1>7, <1>8, <1>9 DEF C!Next

-----------------------------------------------------------------------------
(***************************************************************************)
(* The attention feed                                                      *)
(***************************************************************************)
FeedTypeOK ==
    /\ news \in Nat /\ overview \in BOOLEAN
    /\ run \in [B!Reader -> Nat] /\ shown \in [B!Reader -> Nat]
    /\ asked \subseteq [by : B!Reader, run : Nat]
    /\ found \subseteq [by : B!Reader, run : Nat, news : Nat]

\* A run of an effect asks once: its question is on its way, or one answer is.
AskedOnce ==
    /\ \A q \in asked : q.run <= run[q.by]
    /\ \A a \in found : a.run <= run[a.by]
    /\ \A q \in asked, a \in found : q.by = a.by => q.run # a.run
    /\ \A a, b \in found : a.by = b.by /\ a.run = b.run => a = b

\* What is shown was so, and the answer that may replace it is no older.
FeedInOrder ==
    /\ \A w \in B!Reader : shown[w] <= news
    /\ \A a \in found : a.news <= news
    /\ \A a \in found : B!Current(a) => a.news >= shown[a.by]

FeedInv == FeedTypeOK /\ AskedOnce /\ FeedInOrder

\* A step of the feed never goes back.
FeedForward ==
    \A w \in B!Reader : (w = "queue" => overview /\ overview') => shown'[w] >= shown[w]

LEMMA FeedBegins == B!Init => FeedInv
  BY DEF B!Init, B!Reader, B!Current, FeedInv, FeedTypeOK, AskedOnce, FeedInOrder

LEMMA FeedHappens == ASSUME FeedInv, B!Happen PROVE FeedInv' /\ FeedForward
  BY DEF B!Happen, B!Current, FeedInv, FeedTypeOK, AskedOnce, FeedInOrder, FeedForward

LEMMA FeedNavigates == ASSUME FeedInv, B!Navigate PROVE FeedInv' /\ FeedForward
<1> USE DEF FeedInv
<1>1. PICK to \in BOOLEAN :
        LET again   == {"bell"} \cup (IF to # overview THEN {"queue"} ELSE {})
            present == {"bell"} \cup (IF to THEN {"queue"} ELSE {})
        IN  /\ overview' = to
            /\ run' = [w \in B!Reader |-> IF w \in again THEN run[w] + 1 ELSE run[w]]
            /\ asked' = asked \cup {[by |-> w, run |-> run'[w]] : w \in again \cap present}
            /\ shown' = [w \in B!Reader |-> IF w \in present THEN shown[w] ELSE 0]
            /\ UNCHANGED <<news, found>>
  BY DEF B!Navigate
<1> DEFINE again   == {"bell"} \cup (IF to # overview THEN {"queue"} ELSE {})
           present == {"bell"} \cup (IF to THEN {"queue"} ELSE {})
<1>2. again \subseteq B!Reader
  BY DEF B!Reader
<1>3. FeedTypeOK'
  BY <1>1, <1>2 DEF FeedTypeOK, B!Reader
<1>4. \A w \in B!Reader : run'[w] >= run[w] /\ (w \in again => run'[w] = run[w] + 1)
  BY <1>1 DEF FeedTypeOK
<1>5. \A q \in asked' : q \in asked \/ (q.by \in again /\ q.run = run'[q.by])
  BY <1>1
<1>6. AskedOnce'
  <2>1. \A q \in asked' : q.run <= run'[q.by]
    BY <1>3, <1>4, <1>5 DEF AskedOnce, FeedTypeOK
  <2>2. \A a \in found' : a.run <= run'[a.by]
    BY <1>1, <1>3, <1>4 DEF AskedOnce, FeedTypeOK
  <2>3. ASSUME NEW q \in asked', NEW a \in found', q.by = a.by
        PROVE  q.run # a.run
    <3>1. CASE q \in asked
      BY <1>1, <2>3, <3>1 DEF AskedOnce
    <3>2. CASE q.by \in again /\ q.run = run'[q.by]
      <4>1. a.run <= run[a.by] /\ a.run \in Nat /\ run[a.by] \in Nat
        BY <1>1 DEF AskedOnce, FeedTypeOK
      <4>2. QED
        BY <1>2, <1>4, <2>3, <3>2, <4>1
    <3>3. QED
      BY <1>5, <3>1, <3>2
  <2>4. \A a, b \in found' : a.by = b.by /\ a.run = b.run => a = b
    BY <1>1 DEF AskedOnce
  <2>5. QED
    BY <2>1, <2>2, <2>3, <2>4 DEF AskedOnce
<1>7. FeedInOrder'
  <2>1. \A w \in B!Reader : shown'[w] <= news' /\ shown'[w] \in {shown[w], 0}
    BY <1>1 DEF FeedInOrder, FeedTypeOK
  <2>2. \A a \in found' : a.news <= news'
    BY <1>1 DEF FeedInOrder
  <2>3. ASSUME NEW a \in found', a.run = run'[a.by]
        PROVE  a.news >= shown'[a.by]
    <3>1. a \in found /\ a.by \in B!Reader /\ a.run \in Nat /\ a.news \in Nat
      BY <1>1 DEF FeedTypeOK
    <3>2. run[a.by] = a.run
      BY <1>3, <1>4, <2>3, <3>1 DEF AskedOnce, FeedTypeOK
    <3>3. a.news >= shown[a.by]
      BY <3>1, <3>2 DEF FeedInOrder, B!Current
    <3>4. QED
      BY <2>1, <3>1, <3>3
  <2>4. QED
    BY <2>1, <2>2, <2>3 DEF FeedInOrder, B!Current
<1>8. FeedForward
  BY <1>1 DEF FeedForward, FeedTypeOK, B!Reader
<1>9. QED
  BY <1>3, <1>6, <1>7, <1>8

LEMMA FeedAnswers ==
  ASSUME FeedInv, NEW q \in asked, B!Answer(q) PROVE FeedInv' /\ FeedForward
<1> USE DEF FeedInv
<1> DEFINE n == [by |-> q.by, run |-> q.run, news |-> news]
<1>1. /\ asked' = asked \ {q} /\ found' \in {found, found \cup {n}}
      /\ UNCHANGED <<news, overview, run, shown>>
  BY DEF B!Answer
<1>2. n \in [by : B!Reader, run : Nat, news : Nat] /\ q \in [by : B!Reader, run : Nat]
  BY DEF FeedTypeOK
<1>3. FeedTypeOK'
  BY <1>1, <1>2 DEF FeedTypeOK
<1>4. AskedOnce'
  <2>1. \A p \in asked' : p \in asked /\ (p.by = q.by => p.run # q.run)
    BY <1>1, <1>2 DEF FeedTypeOK
  <2>2. QED
    BY <1>1, <1>2, <2>1 DEF AskedOnce
<1>5. FeedInOrder'
  BY <1>1, <1>2 DEF FeedInOrder, FeedTypeOK, B!Current
<1>6. FeedForward
  BY <1>1 DEF FeedForward, FeedTypeOK
<1>7. QED
  BY <1>3, <1>4, <1>5, <1>6

LEMMA FeedShows ==
  ASSUME FeedInv, NEW a \in found, B!Show(a) PROVE FeedInv' /\ FeedForward
<1> USE DEF FeedInv
<1>1. a \in [by : B!Reader, run : Nat, news : Nat]
  BY DEF FeedTypeOK
<1>2. found' = found \ {a} /\ UNCHANGED <<news, overview, run, asked>>
  BY DEF B!Show
<1>3. \A w \in B!Reader :
         shown'[w] = IF B!Current(a) /\ w = a.by THEN a.news ELSE shown[w]
  BY <1>1 DEF B!Show, FeedTypeOK
<1>4. FeedTypeOK'
  BY <1>1, <1>2 DEF B!Show, FeedTypeOK
<1>5. AskedOnce'
  BY <1>2 DEF AskedOnce
<1>6. FeedInOrder'
  <2>1. \A b \in found' : B!Current(b) /\ B!Current(a) => b.by # a.by
    BY <1>2 DEF AskedOnce, B!Current
  <2>2. QED
    BY <1>1, <1>2, <1>3, <2>1 DEF FeedInOrder, FeedTypeOK, B!Current
<1>7. FeedForward
  BY <1>1, <1>3 DEF FeedForward, FeedInOrder, FeedTypeOK
<1>8. QED
  BY <1>4, <1>5, <1>6, <1>7

LEMMA FeedStep ==
  FeedInv /\ [B!Next]_(B!attention) => FeedInv' /\ (FeedForward \/ UNCHANGED B!attention)
<1> SUFFICES ASSUME FeedInv, [B!Next]_(B!attention)
             PROVE  FeedInv' /\ (FeedForward \/ UNCHANGED B!attention)
  OBVIOUS
<1>1. CASE UNCHANGED B!attention
  BY <1>1 DEF B!attention, B!Current, FeedInv, FeedTypeOK, AskedOnce, FeedInOrder
<1>2. CASE B!Next
  BY <1>2, FeedHappens, FeedNavigates, FeedAnswers, FeedShows DEF B!Next
<1>3. QED
  BY <1>1, <1>2

-----------------------------------------------------------------------------
(***************************************************************************)
(* The settings                                                            *)
(***************************************************************************)
SettingsPut == [form : S!Form, kind : {"save", "deploy", "preset"}, config : Config]

SettingsTypeOK ==
    /\ stored \in Config /\ copy \in [S!Form -> Config]
    /\ draft \in [S!Form -> Config \cup {None}]
    /\ dirty \in [S!Form -> BOOLEAN]
    /\ busy \in [S!Form -> SUBSET {"save", "deploy"}]
    /\ status \in {"test", "live"}
    /\ puts \subseteq SettingsPut
    /\ reads \subseteq [form : S!Form, after : SettingsPut \cup {None}]
    /\ answers \subseteq [form : S!Form, after : SettingsPut \cup {None}, config : Config]
    /\ edited \in [S!Form -> Nat \cup {None}] /\ edits \in Nat

\* An edit that is still the user's is in a draft that counts as changed: that is what keeps
\* a late answer from replacing the draft of the panel, and a tab that is opened again from
\* seeding the one of the page.
EditKept ==
    \A f \in S!Form :
        /\ dirty[f] => draft[f] # None
        /\ edited[f] # None => dirty[f] /\ draft[f].body = edited[f]

SettingsInv == SettingsTypeOK /\ EditKept

LEMMA SettingsBegin == S!Init => SettingsInv
<1> SUFFICES ASSUME S!Init PROVE SettingsInv
  OBVIOUS
<1>1. stored \in Config
  BY DEF S!Init, S!Factory, Config
<1>2. QED
  BY <1>1 DEF S!Init, S!Form, SettingsInv, SettingsTypeOK, EditKept, Config

\* A form that sends its configuration changes neither its draft nor its marks.
LEMMA SendKeepsTypes ==
  ASSUME SettingsTypeOK, NEW f \in S!Form, NEW kind \in {"save", "deploy", "preset"},
         NEW config \in Config, S!Send(f, kind, config)
  PROVE  puts' \subseteq SettingsPut /\ busy' \in [S!Form -> SUBSET {"save", "deploy"}]
  BY DEF S!Send, S!Set, SettingsTypeOK, SettingsPut

\* The marks of an edit are taken away together, by a save that went well.
LEMMA DoneKeepsMarks ==
  ASSUME SettingsInv, NEW f \in S!Form, NEW kind \in {"save", "deploy", "preset"},
         NEW ok \in BOOLEAN, NEW config \in Config, S!Done(f, kind, ok, config)
  PROVE  /\ busy' \in [S!Form -> SUBSET {"save", "deploy"}]
         /\ dirty' \in [S!Form -> BOOLEAN]
         /\ edited' \in [S!Form -> Nat \cup {None}]
         /\ status' \in {"test", "live"}
         /\ \A g \in S!Form : edited'[g] # None => edited'[g] = edited[g] /\ dirty'[g]
<1> USE DEF SettingsInv
<1>1. busy' \in [S!Form -> SUBSET {"save", "deploy"}] /\ status' \in {"test", "live"}
  BY DEF S!Done, S!Set, SettingsTypeOK, Config
<1>2. dirty' \in [S!Form -> BOOLEAN] /\ edited' \in [S!Form -> Nat \cup {None}]
  BY DEF S!Done, S!Set, SettingsTypeOK
<1>3. ASSUME NEW g \in S!Form, edited'[g] # None
      PROVE  edited'[g] = edited[g] /\ dirty'[g]
  <2>1. CASE g = f /\ ok /\ kind = "save"
    BY <1>3, <2>1 DEF S!Done, S!Set, SettingsTypeOK
  <2>2. CASE g = f /\ ~(ok /\ kind = "save")
    BY <1>3, <2>2 DEF S!Done, S!Set, SettingsTypeOK, EditKept
  <2>3. CASE g # f
    BY <1>3, <2>3 DEF S!Done, S!Set, SettingsTypeOK, EditKept
  <2>4. QED
    BY <2>1, <2>2, <2>3
<1>4. QED
  BY <1>1, <1>2, <1>3

LEMMA EditsKeepInv ==
  ASSUME SettingsInv, NEW f \in S!Form,
         S!Edit(f) \/ S!ApplyPreset(f) \/ S!Discard(f)
  PROVE  SettingsInv'
<1> USE DEF SettingsInv, S!Set
<1>1. CASE S!Edit(f)
  <2> DEFINE d == [draft[f] EXCEPT !.body = edits + 2]
  <2>1. d \in Config /\ d.body = edits + 2 /\ edits + 2 \in Nat
    BY <1>1 DEF S!Edit, SettingsTypeOK, Config
  <2>2. draft' = [draft EXCEPT ![f] = d] /\ d # None
    BY <1>1, <2>1, AbsenceAssumption DEF S!Edit
  <2>3. SettingsTypeOK'
    BY <1>1, <2>1, <2>2 DEF S!Edit, S!Button, SettingsTypeOK
  <2>4. EditKept'
    BY <1>1, <2>1, <2>2 DEF S!Edit, SettingsTypeOK, EditKept
  <2>5. QED
    BY <2>3, <2>4
<1>2. CASE S!ApplyPreset(f)
  <2>1. [preset |-> S!Tuned.preset, body |-> S!Tuned.body, deploy |-> draft[f].deploy] \in Config
    BY <1>2 DEF S!ApplyPreset, S!Tuned, SettingsTypeOK, Config
  <2>2. SettingsTypeOK'
    BY <1>2, <2>1 DEF S!ApplyPreset, S!Button, SettingsTypeOK
  <2>3. EditKept'
    BY <1>2, <2>1, AbsenceAssumption DEF S!ApplyPreset, SettingsTypeOK, EditKept
  <2>4. QED
    BY <2>2, <2>3
<1>3. CASE S!Discard(f)
  BY <1>3 DEF S!Discard, SettingsTypeOK, EditKept
<1>4. QED
  BY <1>1, <1>2, <1>3

LEMMA SendsKeepInv ==
  ASSUME SettingsInv,
         (\E f \in S!Form : S!Save(f)) \/ S!PanelDeploy \/ S!PageDeploy \/ S!Quick
  PROVE  SettingsInv'
<1> USE DEF SettingsInv
<1>1. ASSUME NEW f \in S!Form, S!Save(f)
      PROVE  SettingsInv'
  <2>1. draft[f] \in Config
    BY <1>1 DEF S!Save, SettingsTypeOK, EditKept
  <2>2. S!Send(f, "save", draft[f]) /\ UNCHANGED <<stored, copy, draft, dirty, status, reads, answers, edited>>
        /\ edits' = edits + 1
    BY <1>1 DEF S!Save, S!Button
  <2>3. QED
    BY <2>1, <2>2, SendKeepsTypes DEF SettingsTypeOK, EditKept
<1>2. CASE S!PanelDeploy
  <2>1. PICK to \in {"test", "live"} :
          /\ S!Set("panel", draft, [draft["panel"] EXCEPT !.deploy = to])
          /\ S!Send("panel", "save", draft'["panel"])
    BY <1>2 DEF S!PanelDeploy
  <2>2. /\ draft["panel"] # None /\ edits' = edits + 1 /\ S!Set("panel", dirty, TRUE)
        /\ UNCHANGED <<stored, copy, status, reads, answers, edited>>
    BY <1>2 DEF S!PanelDeploy, S!Button
  <2> DEFINE d == [draft["panel"] EXCEPT !.deploy = to]
  <2>3. d \in Config /\ d.body = draft["panel"].body
    BY <2>2 DEF SettingsTypeOK, Config, S!Form
  <2>4. draft' = [draft EXCEPT !["panel"] = d] /\ dirty' = [dirty EXCEPT !["panel"] = TRUE]
    BY <2>1, <2>2 DEF S!Set
  <2>5. S!Send("panel", "save", d)
    BY <2>1, <2>4 DEF SettingsTypeOK, S!Form
  <2>6. SettingsTypeOK'
    <3>1. "panel" \in S!Form
      BY DEF S!Form
    <3>2. puts' \subseteq SettingsPut /\ busy' \in [S!Form -> SUBSET {"save", "deploy"}]
      BY <2>3, <2>5, <3>1, SendKeepsTypes
    <3>3. draft' \in [S!Form -> Config \cup {None}] /\ dirty' \in [S!Form -> BOOLEAN]
      BY <2>3, <2>4 DEF SettingsTypeOK
    <3>4. QED
      BY <2>2, <3>2, <3>3 DEF SettingsTypeOK
  <2>7. EditKept'
    BY <2>2, <2>3, <2>4, AbsenceAssumption DEF SettingsTypeOK, EditKept
  <2>8. QED
    BY <2>6, <2>7
<1>3. CASE S!PageDeploy \/ S!Quick
  <2>1. PICK kind \in {"deploy", "preset"}, config \in Config : S!Send("page", kind, config)
    <3>1. copy["page"] \in Config /\ edits + 2 \in Nat /\ status \in {"test", "live"}
      BY DEF SettingsTypeOK, S!Form
    <3>2. \A to \in {"test", "live"} : [copy["page"] EXCEPT !.deploy = to] \in Config
      BY <3>1 DEF Config
    <3>3. CASE S!PageDeploy
      BY <3>2, <3>3 DEF S!PageDeploy
    <3>4. CASE S!Quick
      <4>1. /\ [copy["page"] EXCEPT !.deploy = status] \in Config
            /\ [copy["page"] EXCEPT !.preset = S!Tuned.preset] \in Config
            /\ [copy["page"] EXCEPT !.body = edits + 2] \in Config
        BY <3>1, <3>2 DEF Config, S!Tuned
      <4>2. QED
        BY <3>4, <4>1 DEF S!Quick
    <3>5. QED
      BY <1>3, <3>3, <3>4
  <2>2. /\ edits' = edits + 1
        /\ UNCHANGED <<stored, copy, draft, dirty, status, reads, answers, edited>>
    BY <1>3 DEF S!PageDeploy, S!Quick, S!Button
  <2>3. "page" \in S!Form
    BY DEF S!Form
  <2>4. puts' \subseteq SettingsPut /\ busy' \in [S!Form -> SUBSET {"save", "deploy"}]
    BY <2>1, <2>3, SendKeepsTypes
  <2>5. QED
    BY <2>2, <2>4 DEF SettingsTypeOK, EditKept
<1>4. QED
  BY <1>1, <1>2, <1>3

LEMMA AnswersKeepInv ==
  ASSUME SettingsInv, NEW n \in answers, S!Show(n)
  PROVE  SettingsInv'
<1> USE DEF SettingsInv
<1>1. /\ n.form \in S!Form /\ n.config \in Config /\ n.after \in SettingsPut \cup {None}
      /\ answers' = answers \ {n} /\ copy' = [copy EXCEPT ![n.form] = n.config]
      /\ UNCHANGED <<stored, puts, reads, edits>>
  BY DEF S!Show, S!Set, SettingsTypeOK
<1>2. draft' = IF n.form = "panel" /\ ~dirty["panel"]
               THEN [draft EXCEPT !["panel"] = n.config] ELSE draft
  BY DEF S!Show
<1>3. /\ busy' \in [S!Form -> SUBSET {"save", "deploy"}]
      /\ dirty' \in [S!Form -> BOOLEAN]
      /\ edited' \in [S!Form -> Nat \cup {None}]
      /\ status' \in {"test", "live"}
      /\ \A g \in S!Form : edited'[g] # None => edited'[g] = edited[g] /\ dirty'[g]
      /\ \A g \in S!Form : dirty'[g] => dirty[g]
  <2>1. CASE n.after = None
    BY <2>1 DEF S!Show, SettingsTypeOK, EditKept
  <2>2. CASE n.after # None
    <3>1. S!Done("page", n.after.kind, TRUE, n.after.config)
      BY <2>2 DEF S!Show
    <3>2. n.after.kind \in {"save", "deploy", "preset"} /\ n.after.config \in Config
      BY <1>1, <2>2 DEF SettingsPut
    <3>3. "page" \in S!Form
      BY DEF S!Form
    <3>4. \A g \in S!Form : dirty'[g] => dirty[g]
      BY <3>1, <3>3 DEF S!Done, S!Set, SettingsTypeOK
    <3>5. QED
      BY <3>1, <3>2, <3>3, <3>4, DoneKeepsMarks
  <2>3. QED
    BY <2>1, <2>2
<1>4. SettingsTypeOK'
  BY <1>1, <1>2, <1>3 DEF SettingsTypeOK, S!Form
<1>5. EditKept'
  <2>1. ASSUME NEW g \in S!Form
        PROVE  /\ dirty'[g] => draft'[g] # None
               /\ edited'[g] # None => dirty'[g] /\ draft'[g].body = edited'[g]
    <3>1. dirty'[g] => dirty[g]
      BY <1>3
    <3>2. dirty[g] => draft'[g] = draft[g]
      BY <1>2 DEF SettingsTypeOK
    <3>3. edited'[g] # None => edited'[g] = edited[g] /\ dirty'[g]
      BY <1>3
    <3>4. QED
      BY <3>1, <3>2, <3>3 DEF EditKept
  <2>2. QED
    BY <2>1 DEF EditKept
<1>6. QED
  BY <1>4, <1>5

LEMMA PutsKeepInv ==
  ASSUME SettingsInv, NEW p \in puts, S!Put(p) \/ S!PutFails(p)
  PROVE  SettingsInv'
<1> USE DEF SettingsInv
<1>1. /\ p.form \in S!Form /\ p.config \in Config /\ p.kind \in {"save", "deploy", "preset"}
      /\ p \in SettingsPut
  BY DEF SettingsTypeOK, SettingsPut
<1>2. /\ puts' = puts \ {p} /\ stored' \in {stored, p.config} /\ edits' \in {edits, edits + 1}
      /\ UNCHANGED <<copy, draft, answers>>
  BY DEF S!Put, S!PutFails, S!Button
<1>3. reads' \in {reads, reads \cup {[form |-> "page", after |-> p]}}
  BY DEF S!Put, S!PutFails
<1>4. \/ \E f \in S!Form, ok \in BOOLEAN : S!Done(f, p.kind, ok, p.config)
      \/ UNCHANGED <<busy, dirty, edited, status>>
  BY <1>1 DEF S!Put, S!PutFails, S!Form
<1>5. /\ busy' \in [S!Form -> SUBSET {"save", "deploy"}]
      /\ dirty' \in [S!Form -> BOOLEAN]
      /\ edited' \in [S!Form -> Nat \cup {None}]
      /\ status' \in {"test", "live"}
      /\ \A g \in S!Form : edited'[g] # None => edited'[g] = edited[g] /\ dirty'[g]
      /\ \A g \in S!Form : dirty'[g] => dirty[g]
  <2>1. CASE UNCHANGED <<busy, dirty, edited, status>>
    BY <2>1 DEF SettingsTypeOK, EditKept
  <2>2. ASSUME NEW f \in S!Form, NEW ok \in BOOLEAN, S!Done(f, p.kind, ok, p.config)
        PROVE  <1>5!:
    <3>1. \A g \in S!Form : dirty'[g] => dirty[g]
      BY <2>2 DEF S!Done, S!Set, SettingsTypeOK
    <3>2. QED
      BY <1>1, <2>2, <3>1, DoneKeepsMarks
  <2>3. QED
    BY <1>4, <2>1, <2>2
<1>6. SettingsTypeOK'
  BY <1>1, <1>2, <1>3, <1>5 DEF SettingsTypeOK, S!Form
<1>7. EditKept'
  BY <1>2, <1>5 DEF EditKept
<1>8. QED
  BY <1>6, <1>7

LEMMA SettingsStep == SettingsInv /\ [S!Next]_(S!forms) => SettingsInv'
<1> SUFFICES ASSUME SettingsInv, [S!Next]_(S!forms)
             PROVE  SettingsInv'
  OBVIOUS
<1> USE DEF SettingsInv
<1>1. ASSUME NEW f \in S!Form, S!Poll(f)
      PROVE  SettingsInv'
  BY <1>1 DEF S!Poll, SettingsTypeOK, EditKept
<1>2. ASSUME NEW r \in reads, S!Reads(r)
      PROVE  SettingsInv'
  BY <1>2 DEF S!Reads, SettingsTypeOK, EditKept
<1>3. CASE S!OpenSettings
  BY <1>3 DEF S!OpenSettings, S!Seeds, S!Set, S!Form, SettingsTypeOK, EditKept
<1>4. CASE UNCHANGED S!forms
  BY <1>4 DEF S!forms, SettingsTypeOK, EditKept
<1>5. QED
  BY <1>1, <1>2, <1>3, <1>4, EditsKeepInv, SendsKeepInv, PutsKeepInv, AnswersKeepInv DEF S!Next

-----------------------------------------------------------------------------
(***************************************************************************)
(* The pairing handshake                                                   *)
(***************************************************************************)
PairerPc == {"gate", "upsert", "record", "bind", "code", "answer"}
Keyed    == {"auth", "fill", "state", "sync", "rewrite", "done"}
Request == [pc : PairerPc \cup Keyed \cup {"idle", "return", "redeem", "consume", "save"},
            state : State \cup {None}, key : Nat \cup {None}, seen : Nat \cup {None},
            live : BOOLEAN]

PairingTypeOK ==
    /\ proc \in [Actor -> Request]
    /\ {row, record, option, verified} \subseteq Nat \cup {None}
    /\ redeem \in [State -> Nat \cup {None}]
    /\ minted \in Nat /\ orderly \in BOOLEAN
    /\ last \in [state : State \cup {None}, answered : BOOLEAN]
    /\ \A c \in Caller : proc[c].state = None
    /\ \A r \in Return : proc[r].pc # "idle" => proc[r].state \in State

\* In an orderly handshake one request is under way at a time.
OneAtATime == \A a, b \in Busy : a = b

\* A pairing that runs is the last one, and not answered: from its upsert on it has the key
\* of the row, and the code it has put away, if it is still there, is that key.
PairingRuns(p) ==
    /\ last = [state |-> proc[p].state, answered |-> FALSE]
    /\ proc[p].pc \in {"record", "bind", "code", "answer"} => proc[p].key = row
    /\ proc[p].pc \in {"bind", "code", "answer"} => proc[p].state \in State
    /\ proc[p].pc = "answer" => redeem[proc[p].state] \in {None, row}

\* A return that runs follows the answer of the last pairing: once it has taken the code it
\* has the key of the row, which the plugin's option is when /verify is asked.
ReturnRuns(r) ==
    /\ last = [state |-> proc[r].state, answered |-> TRUE]
    /\ proc[r].pc \in {"consume", "save"} \cup Keyed => proc[r].key = row
    /\ proc[r].pc \in Keyed => option = proc[r].key

Handshake ==
    /\ OneAtATime
    /\ \A p \in Pairer \cap Busy : PairingRuns(p)
    /\ \A r \in Return \cap Busy : ReturnRuns(r)
    /\ last.answered => last.state \in State /\ redeem[last.state] \in {None, row}
    /\ verified # None => option = verified /\ row = verified

PairingInv == PairingTypeOK /\ (orderly => Handshake)

LEMMA PairingBegins == Init => PairingInv
<1> SUFFICES ASSUME Init PROVE PairingInv
  OBVIOUS
<1>1. Idle \in Request /\ Idle.state = None /\ Idle.pc = "idle"
  BY DEF Idle, Request
<1> HIDE DEF Idle
<1>2. PairingTypeOK
  BY <1>1 DEF Init, PairingTypeOK, Actor
<1>3. Busy = {}
  BY <1>1 DEF Init, Busy, At, Actor
<1>4. Handshake
  BY <1>3 DEF Init, Handshake, OneAtATime
<1>5. QED
  BY <1>2, <1>4 DEF PairingInv

\* A request goes on, and keeps a nonce if it is a return.
LEMMA RequestTyped ==
  ASSUME PairingTypeOK, NEW a \in Actor, NEW q \in Request, proc' = [proc EXCEPT ![a] = q],
         a \in Caller => q.state = None, a \in Return /\ q.pc # "idle" => q.state \in State
  PROVE  /\ proc' \in [Actor -> Request]
         /\ \A c \in Caller : proc'[c].state = None
         /\ \A r \in Return : proc'[r].pc # "idle" => proc'[r].state \in State
<1>1. \A b \in Actor : proc'[b] = IF b = a THEN q ELSE proc[b]
  BY DEF PairingTypeOK
<1>2. proc' \in [Actor -> Request]
  BY DEF PairingTypeOK
<1>3. \A c \in Caller : proc'[c].state = None
  BY <1>1 DEF PairingTypeOK, Actor
<1>4. \A r \in Return : proc'[r].pc # "idle" => proc'[r].state \in State
  BY <1>1 DEF PairingTypeOK, Actor
<1>5. QED
  BY <1>2, <1>3, <1>4

\* A step of one request, of which the handshake keeps what it holds: it ends, or it was under
\* way and goes on with the same nonce, in step with the row and the option.
LEMMA RequestStep ==
  ASSUME PairingInv, NEW a \in Actor, NEW q \in Request,
         proc' = [proc EXCEPT ![a] = q],
         a \in Caller => q.state = None,
         a \in Pairer \cup Return /\ q.pc # "idle" => proc[a].pc # "idle" /\ q.state = proc[a].state,
         record' \in Nat \cup {None}, redeem' \in [State -> Nat \cup {None}],
         \A s \in State : redeem'[s] \in {redeem[s], None},
         UNCHANGED <<row, option, minted, last, orderly, verified>>,
         orderly /\ a \in Pairer /\ q.pc # "idle" => PairingRuns(a)',
         orderly /\ a \in Return /\ q.pc # "idle" => ReturnRuns(a)'
  PROVE  PairingInv'
<1> USE DEF PairingInv
<1>1. \A b \in Actor : proc'[b] = IF b = a THEN q ELSE proc[b]
  BY DEF PairingTypeOK
<1>2. PairingTypeOK'
  BY RequestTyped DEF PairingTypeOK
<1>3. Busy' \subseteq Busy
  BY <1>1 DEF Busy, At, Actor
<1>4. ASSUME orderly PROVE Handshake'
  <2>1. OneAtATime'
    BY <1>3, <1>4 DEF Handshake, OneAtATime
  <2>2. ASSUME NEW p \in Pairer \cap Busy' PROVE PairingRuns(p)'
    <3>1. CASE p = a
      BY <1>1, <1>4, <2>2, <3>1 DEF Busy, At, Actor
    <3>2. CASE p # a
      <4>1. proc'[p] = proc[p] /\ PairingRuns(p)
        BY <1>1, <1>3, <1>4, <2>2, <3>2 DEF Handshake, Actor
      <4>2. QED
        BY <4>1 DEF PairingRuns
    <3>3. QED
      BY <3>1, <3>2
  <2>3. ASSUME NEW r \in Return \cap Busy' PROVE ReturnRuns(r)'
    <3>1. CASE r = a
      BY <1>1, <1>4, <2>3, <3>1 DEF Busy, At, Actor
    <3>2. CASE r # a
      <4>1. proc'[r] = proc[r] /\ ReturnRuns(r)
        BY <1>1, <1>3, <1>4, <2>3, <3>2 DEF Handshake, Actor
      <4>2. QED
        BY <4>1 DEF ReturnRuns
    <3>3. QED
      BY <3>1, <3>2
  <2>4. last.answered => last.state \in State /\ redeem'[last.state] \in {None, row}
    BY <1>4 DEF Handshake
  <2>5. QED
    BY <1>4, <2>1, <2>2, <2>3, <2>4 DEF Handshake
<1>5. QED
  BY <1>2, <1>4

\* Who is under way in an orderly handshake is alone.
LEMMA AloneInHandshake ==
  ASSUME PairingInv, orderly, NEW a \in Busy
  PROVE  Busy = {a} /\ (a \in Pairer => PairingRuns(a)) /\ (a \in Return => ReturnRuns(a))
  BY DEF PairingInv, Handshake, OneAtATime

\* The parts of the state the handshake does not depend on may change at any time.
LEMMA PairingStutters ==
  ASSUME PairingInv, record' \in Nat \cup {None}, redeem' \in [State -> Nat \cup {None}],
         \A s \in State : redeem'[s] \in {redeem[s], None},
         UNCHANGED <<proc, row, option, minted, last, orderly, verified>>
  PROVE  PairingInv'
<1> USE DEF PairingInv
<1>1. PairingTypeOK'
  BY DEF PairingTypeOK
<1>2. Busy' = Busy
  BY DEF Busy, At
<1>3. ASSUME orderly PROVE Handshake'
  <2>1. \A p \in Pairer \cap Busy : PairingRuns(p)'
    BY <1>3 DEF Handshake, PairingRuns
  <2>2. \A r \in Return \cap Busy : ReturnRuns(r)'
    BY <1>3 DEF Handshake, ReturnRuns
  <2>3. last.answered => last.state \in State /\ redeem'[last.state] \in {None, row}
    BY <1>3 DEF Handshake
  <2>4. QED
    BY <1>2, <1>3, <2>1, <2>2, <2>3 DEF Handshake, OneAtATime
<1>4. QED
  BY <1>1, <1>3

\* A handshake, or the part of one, that begins while nothing else is under way.
LEMMA RequestBegins ==
  ASSUME PairingInv, NEW a \in Pairer \cup Return, NEW q \in Request, proc[a].pc = "idle",
         proc' = [proc EXCEPT ![a] = q], a \in Return => q.state \in State,
         last' \in [state : State \cup {None}, answered : BOOLEAN],
         orderly' \in BOOLEAN, orderly' => orderly /\ Busy = {},
         UNCHANGED <<row, record, option, redeem, minted, verified>>,
         orderly' /\ a \in Pairer => PairingRuns(a)',
         orderly' /\ a \in Return => ReturnRuns(a)',
         orderly' /\ last'.answered => last' = last
  PROVE  PairingInv'
<1> USE DEF PairingInv
<1>1. a \in Actor /\ \A b \in Actor : proc'[b] = IF b = a THEN q ELSE proc[b]
  BY DEF PairingTypeOK, Actor
<1>2. PairingTypeOK'
  BY <1>1, ActorAssumption DEF PairingTypeOK, Actor
<1>3. Busy' \subseteq Busy \cup {a}
  BY <1>1 DEF Busy, At, Actor
<1>4. ASSUME orderly' PROVE Handshake'
  <2>1. OneAtATime'
    BY <1>3, <1>4 DEF OneAtATime
  <2>2. \A p \in Pairer \cap Busy' : PairingRuns(p)'
    BY <1>3, <1>4
  <2>3. \A r \in Return \cap Busy' : ReturnRuns(r)'
    BY <1>3, <1>4
  <2>4. QED
    BY <1>4, <2>1, <2>2, <2>3 DEF Handshake
<1>5. QED
  BY <1>2, <1>4

LEMMA IdleRequest == Idle \in Request /\ Idle.pc = "idle" /\ Idle.state = None
  BY DEF Idle, Request

\* A pairing begins, from the page or by POST /sites.
LEMMA AuthorizeKeepsPairing ==
  ASSUME PairingInv, NEW s \in State, NEW p \in Pairer, Authorize(s, p)
  PROVE  PairingInv'
<1> USE DEF PairingInv
<1>0. p \in Actor /\ p \notin Return
  BY ActorAssumption DEF Actor
<1> DEFINE q == [Idle EXCEPT !.pc = "gate", !.state = s, !.live = TRUE]
<1>1. q \in Request /\ q.pc = "gate" /\ q.state = s
  BY IdleRequest DEF Request, PairerPc
<1>2. /\ proc' = [proc EXCEPT ![p] = q] /\ proc[p].pc = "idle"
      /\ last' = [state |-> s, answered |-> FALSE]
      /\ orderly' = (orderly /\ Busy = {})
      /\ UNCHANGED <<row, record, option, redeem, minted, verified>>
  BY DEF Authorize, Become, At, edge, wp
<1>3. proc'[p] = q
  BY <1>0, <1>2 DEF PairingTypeOK
<1>4. PairingRuns(p)'
  BY <1>1, <1>2, <1>3 DEF PairingRuns
<1>5. /\ orderly' \in BOOLEAN /\ last' \in [state : State \cup {None}, answered : BOOLEAN]
      /\ orderly' => orderly /\ Busy = {}
      /\ orderly' /\ last'.answered => last' = last
  BY <1>2 DEF PairingTypeOK
<1> HIDE DEF q
<1>6. QED
  BY <1>0, <1>1, <1>2, <1>4, <1>5, RequestBegins

LEMMA RegisterKeepsPairing ==
  ASSUME PairingInv, NEW p \in Pairer, Register(p)
  PROVE  PairingInv'
<1> USE DEF PairingInv
<1>0. p \in Actor /\ p \notin Return
  BY ActorAssumption DEF Actor
<1> DEFINE q == [Idle EXCEPT !.pc = "gate"]
<1>1. q \in Request /\ q.pc = "gate" /\ q.state = None
  BY IdleRequest DEF Request, PairerPc
<1>2. /\ proc' = [proc EXCEPT ![p] = q] /\ proc[p].pc = "idle"
      /\ last' = [state |-> None, answered |-> FALSE]
      /\ orderly' = (orderly /\ Busy = {})
      /\ UNCHANGED <<row, record, option, redeem, minted, verified>>
  BY DEF Register, Become, At, edge, wp
<1>3. proc'[p] = q
  BY <1>0, <1>2 DEF PairingTypeOK
<1>4. PairingRuns(p)'
  BY <1>1, <1>2, <1>3 DEF PairingRuns
<1>5. /\ orderly' \in BOOLEAN /\ last' \in [state : State \cup {None}, answered : BOOLEAN]
      /\ orderly' => orderly /\ Busy = {}
      /\ orderly' /\ last'.answered => last' = last
  BY <1>2 DEF PairingTypeOK
<1> HIDE DEF q
<1>6. QED
  BY <1>0, <1>1, <1>2, <1>4, <1>5, RequestBegins

LEMMA ReturnKeepsPairing ==
  ASSUME PairingInv, NEW s \in State, NEW r \in Return, Redirect(s, r) \/ Revisit(s, r)
  PROVE  PairingInv'
<1> USE DEF PairingInv
<1>0. r \in Actor /\ r \notin Pairer
  BY ActorAssumption DEF Actor
<1> DEFINE q == [Idle EXCEPT !.pc = "return", !.state = s]
<1>1. q \in Request /\ q.pc = "return" /\ q.state = s
  BY IdleRequest DEF Request
<1>2. /\ proc' = [proc EXCEPT ![r] = q] /\ proc[r].pc = "idle"
      /\ orderly' = (orderly /\ Busy = {} /\ last = [state |-> s, answered |-> TRUE])
      /\ UNCHANGED <<row, record, option, redeem, minted, last, verified>>
  BY DEF Redirect, Revisit, Become, At, edge, wp, net
<1>3. proc'[r] = q
  BY <1>0, <1>2 DEF PairingTypeOK
<1>4. orderly' => ReturnRuns(r)'
  BY <1>1, <1>2, <1>3 DEF ReturnRuns, Keyed
<1>5. /\ orderly' \in BOOLEAN /\ last' \in [state : State \cup {None}, answered : BOOLEAN]
      /\ orderly' => orderly /\ Busy = {}
      /\ orderly' /\ last'.answered => last' = last
  BY <1>2 DEF PairingTypeOK
<1> HIDE DEF q
<1>6. QED
  BY <1>0, <1>1, <1>2, <1>4, <1>5, RequestBegins

\* The statements of a pairing.
LEMMA EdgeKeepsPairing ==
  ASSUME PairingInv, NEW p \in Pairer, Edge(p) \/ PairFails(p)
  PROVE  PairingInv'
<1> USE DEF PairingInv
<1>0. p \in Actor /\ p \notin Return /\ p \notin Caller /\ proc[p] \in Request
  BY ActorAssumption DEF Actor, PairingTypeOK
<1>a. ASSUME proc[p].pc # "idle", orderly PROVE Busy = {p} /\ PairingRuns(p)
  BY <1>0, <1>a, AloneInHandshake DEF Busy, At
<1>1. CASE Refuse(p) \/ PairFails(p)
  <2>1. proc' = [proc EXCEPT ![p] = Idle]
    BY <1>1 DEF Refuse, PairFails, Rest, Become
  <2>2. UNCHANGED <<row, record, option, redeem, minted, last, orderly, verified>>
    BY <1>1 DEF Refuse, PairFails, edge, wp, hist
  <2>3. QED
    BY <1>0, <2>1, <2>2, IdleRequest, RequestStep DEF PairingTypeOK
<1>2. CASE Admit(p)
  <2> DEFINE q == [proc[p] EXCEPT !.pc = "upsert"]
  <2>1. q \in Request /\ q.pc = "upsert" /\ q.state = proc[p].state
    BY <1>0 DEF Request, PairerPc
  <2>2. proc' = [proc EXCEPT ![p] = q] /\ proc[p].pc = "gate"
    BY <1>2 DEF Admit, Goto, At
  <2>3. UNCHANGED <<row, record, option, redeem, minted, last, orderly, verified>>
    BY <1>2 DEF Admit, edge, wp, hist
  <2>4. proc'[p] = q
    BY <1>0, <2>2 DEF PairingTypeOK
  <2>5. orderly => PairingRuns(p)'
    BY <1>a, <2>1, <2>2, <2>3, <2>4 DEF PairingRuns
  <2> HIDE DEF q
  <2>6. QED
    BY <1>0, <2>1, <2>2, <2>3, <2>5, RequestStep DEF PairingTypeOK
<1>3. CASE PutRecord(p)
  <2>1. CASE proc[p].state = None
    <3>1. proc' = [proc EXCEPT ![p] = Idle]
      BY <1>3, <2>1 DEF PutRecord, Rest, Become
    <3>2. UNCHANGED <<row, option, redeem, minted, last, orderly, verified>> /\ record' = proc[p].key
      BY <1>3 DEF PutRecord, wp, hist
    <3>3. proc[p].key \in Nat \cup {None}
      BY <1>0 DEF Request
    <3>4. QED
      BY <1>0, <3>1, <3>2, <3>3, IdleRequest, RequestStep DEF PairingTypeOK
  <2>2. CASE proc[p].state # None
    <3> DEFINE q == [proc[p] EXCEPT !.pc = "bind"]
    <3>1. q \in Request /\ q.pc = "bind" /\ q.state = proc[p].state /\ q.key = proc[p].key
      BY <1>0 DEF Request, PairerPc
    <3>2. proc' = [proc EXCEPT ![p] = q] /\ proc[p].pc = "record"
      BY <1>3, <2>2 DEF PutRecord, Goto, At
    <3>3. UNCHANGED <<row, option, redeem, minted, last, orderly, verified>> /\ record' = proc[p].key
      BY <1>3 DEF PutRecord, wp, hist
    <3>4. proc'[p] = q /\ proc[p].key \in Nat \cup {None} /\ proc[p].state \in State
      BY <1>0, <2>2, <3>2 DEF PairingTypeOK, Request
    <3>5. orderly => PairingRuns(p)'
      BY <1>a, <3>1, <3>2, <3>3, <3>4 DEF PairingRuns
    <3> HIDE DEF q
    <3>6. QED
      BY <1>0, <3>1, <3>2, <3>3, <3>4, <3>5, RequestStep DEF PairingTypeOK
  <2>3. QED
    BY <2>1, <2>2
<1>4. CASE PutState(p)
  <2> DEFINE q == [proc[p] EXCEPT !.pc = "code"]
  <2>1. q \in Request /\ q.pc = "code" /\ q.state = proc[p].state /\ q.key = proc[p].key
    BY <1>0 DEF Request, PairerPc
  <2>2. proc' = [proc EXCEPT ![p] = q] /\ proc[p].pc = "bind"
    BY <1>4 DEF PutState, Goto, At
  <2>3. UNCHANGED <<row, record, option, redeem, minted, last, orderly, verified>>
    BY <1>4 DEF PutState, wp, hist
  <2>4. proc'[p] = q
    BY <1>0, <2>2 DEF PairingTypeOK
  <2>5. orderly => PairingRuns(p)'
    BY <1>a, <2>1, <2>2, <2>3, <2>4 DEF PairingRuns
  <2> HIDE DEF q
  <2>6. QED
    BY <1>0, <2>1, <2>2, <2>3, <2>5, RequestStep DEF PairingTypeOK
<1>5. CASE Upsert(p)
  <2> DEFINE q == [proc[p] EXCEPT !.pc = "record", !.key = minted + 1]
  <2>0. minted + 1 \in Nat
    BY DEF PairingTypeOK
  <2>1. q \in Request /\ q.pc = "record" /\ q.state = proc[p].state /\ q.key = minted + 1
    BY <1>0, <2>0 DEF Request, PairerPc
  <2>3. /\ minted' = minted + 1 /\ row' = minted + 1 /\ verified' = None
        /\ UNCHANGED <<record, option, redeem, last, orderly>>
    BY <1>5 DEF Upsert, wp
  <2>2. proc' = [proc EXCEPT ![p] = q] /\ proc[p].pc = "upsert"
    <3>1. proc' = [proc EXCEPT ![p].pc = "record", ![p].key = minted + 1] /\ proc[p].pc = "upsert"
      BY <1>5, <2>3 DEF Upsert, At
    <3>2. [proc EXCEPT ![p].pc = "record", ![p].key = minted + 1] = [proc EXCEPT ![p] = q]
      BY <1>0 DEF PairingTypeOK
    <3>3. QED
      BY <3>1, <3>2
  <2> HIDE DEF q
  <2>4. \A b \in Actor : proc'[b] = IF b = p THEN q ELSE proc[b]
    BY <2>2 DEF PairingTypeOK
  <2>5. PairingTypeOK'
    <3>1. /\ proc' \in [Actor -> Request]
          /\ \A c \in Caller : proc'[c].state = None
          /\ \A r \in Return : proc'[r].pc # "idle" => proc'[r].state \in State
      BY <1>0, <2>1, <2>2, RequestTyped
    <3>2. QED
      BY <2>0, <2>3, <3>1 DEF PairingTypeOK
  <2>6. Busy' = Busy
    BY <2>1, <2>2, <2>4 DEF Busy, At, Actor
  <2>7. ASSUME orderly PROVE Handshake'
    <3>1. Busy' = {p} /\ PairingRuns(p)
      BY <1>a, <2>2, <2>6, <2>7
    <3>2. PairingRuns(p)'
      BY <1>0, <2>1, <2>3, <2>4, <3>1 DEF PairingRuns
    <3>3. ~last'.answered /\ p \notin Return
      BY <1>0, <2>3, <3>1 DEF PairingRuns
    <3>4. QED
      BY <2>3, <3>1, <3>2, <3>3 DEF Handshake, OneAtATime
  <2>8. QED
    BY <2>3, <2>5, <2>7
<1>6. CASE PutRedeem(p)
  <2> DEFINE q == [proc[p] EXCEPT !.pc = "answer"]
  <2>1. q \in Request /\ q.pc = "answer" /\ q.state = proc[p].state /\ q.key = proc[p].key
    BY <1>0 DEF Request, PairerPc
  <2>2. proc' = [proc EXCEPT ![p] = q] /\ proc[p].pc = "code"
    BY <1>6 DEF PutRedeem, Goto, At
  <2>3. /\ redeem' = [redeem EXCEPT ![proc[p].state] = proc[p].key]
        /\ UNCHANGED <<row, record, option, minted, last, orderly, verified>>
    BY <1>6 DEF PutRedeem, wp, hist
  <2> HIDE DEF q
  <2>4. \A b \in Actor : proc'[b] = IF b = p THEN q ELSE proc[b]
    BY <2>2 DEF PairingTypeOK
  <2>5. PairingTypeOK'
    <3>1. proc[p].key \in Nat \cup {None}
      BY <1>0 DEF Request
    <3>2. /\ proc' \in [Actor -> Request]
          /\ \A c \in Caller : proc'[c].state = None
          /\ \A r \in Return : proc'[r].pc # "idle" => proc'[r].state \in State
      BY <1>0, <2>1, <2>2, RequestTyped
    <3>3. redeem' \in [State -> Nat \cup {None}]
      BY <2>3, <3>1 DEF PairingTypeOK
    <3>4. QED
      BY <2>3, <3>2, <3>3 DEF PairingTypeOK
  <2>6. Busy' = Busy
    BY <2>1, <2>2, <2>4 DEF Busy, At, Actor
  <2>7. ASSUME orderly PROVE Handshake'
    <3>1. Busy' = {p} /\ PairingRuns(p)
      BY <1>a, <2>2, <2>6, <2>7
    <3>2. PairingRuns(p)'
      BY <1>0, <2>1, <2>2, <2>3, <2>4, <3>1 DEF PairingRuns, PairingTypeOK
    <3>3. ~last'.answered /\ p \notin Return
      BY <1>0, <2>3, <3>1 DEF PairingRuns
    <3>4. QED
      BY <2>3, <2>7, <3>1, <3>2, <3>3 DEF Handshake, OneAtATime
  <2>8. QED
    BY <2>3, <2>5, <2>7
<1>7. CASE Answer(p)
  <2>1. proc' = [proc EXCEPT ![p] = Idle] /\ proc[p].pc = "answer"
    BY <1>7 DEF Answer, Rest, Become, At
  <2>2. /\ UNCHANGED <<row, record, option, redeem, minted, orderly, verified>>
        /\ last' = IF proc[p].live /\ last.state = proc[p].state
                   THEN [last EXCEPT !.answered = TRUE] ELSE last
    BY <1>7 DEF Answer, edge, wp
  <2>3. \A b \in Actor : proc'[b] = IF b = p THEN Idle ELSE proc[b]
    BY <2>1 DEF PairingTypeOK
  <2>4. PairingTypeOK'
    <3>1. /\ proc' \in [Actor -> Request]
          /\ \A c \in Caller : proc'[c].state = None
          /\ \A r \in Return : proc'[r].pc # "idle" => proc'[r].state \in State
      BY <1>0, <2>1, IdleRequest, RequestTyped
    <3>2. last' \in [state : State \cup {None}, answered : BOOLEAN]
      BY <2>2 DEF PairingTypeOK
    <3>3. QED
      BY <2>2, <3>1, <3>2 DEF PairingTypeOK
  <2>5. Busy' = Busy \ {p}
    BY <2>3, IdleRequest DEF Busy, At, Actor
  <2>6. ASSUME orderly PROVE Handshake'
    <3>1. Busy' = {} /\ PairingRuns(p)
      BY <1>a, <2>1, <2>5, <2>6
    <3>2. last'.answered => last'.state \in State /\ redeem[last'.state] \in {None, row}
      BY <2>1, <2>2, <3>1 DEF PairingRuns
    <3>3. QED
      BY <2>2, <2>6, <3>1, <3>2 DEF Handshake, OneAtATime
  <2>7. QED
    BY <2>2, <2>4, <2>6
<1>8. QED
  BY <1>1, <1>2, <1>3, <1>4, <1>5, <1>6, <1>7 DEF Edge

\* The statements of a return, up to its /verify.
LEMMA PluginKeepsPairing ==
  ASSUME PairingInv, NEW r \in Return, Plugin(r)
  PROVE  PairingInv'
<1> USE DEF PairingInv
<1>0. r \in Actor /\ r \notin Pairer /\ r \notin Caller /\ proc[r] \in Request
  BY ActorAssumption DEF Actor, PairingTypeOK
<1>a. ASSUME proc[r].pc # "idle", orderly PROVE Busy = {r} /\ ReturnRuns(r) /\ Handshake
  BY <1>0, <1>a, AloneInHandshake DEF Busy, At
<1>1. ASSUME proc' = [proc EXCEPT ![r] = Idle],
             UNCHANGED <<row, record, option, redeem, minted, last, orderly, verified>>
      PROVE  PairingInv'
  BY <1>0, <1>1, IdleRequest, RequestStep DEF PairingTypeOK
<1>2. CASE CheckTransient(r)
  <2>1. CASE transient[proc[r].state]
    <3> DEFINE q == [proc[r] EXCEPT !.pc = "redeem"]
    <3>1. q \in Request /\ q.pc = "redeem" /\ q.state = proc[r].state /\ q.key = proc[r].key
      BY <1>0 DEF Request
    <3>2. proc' = [proc EXCEPT ![r] = q] /\ proc[r].pc = "return"
      BY <1>2, <2>1 DEF CheckTransient, Goto, At
    <3>3. UNCHANGED <<row, record, option, redeem, minted, last, orderly, verified>>
      BY <1>2 DEF CheckTransient, edge, wp, hist
    <3>4. proc'[r] = q
      BY <1>0, <3>2 DEF PairingTypeOK
    <3>5. orderly => ReturnRuns(r)'
      BY <1>a, <3>1, <3>2, <3>3, <3>4 DEF ReturnRuns, Keyed
    <3> HIDE DEF q
    <3>6. QED
      BY <1>0, <3>1, <3>2, <3>3, <3>5, RequestStep DEF PairingTypeOK
  <2>2. CASE ~transient[proc[r].state]
    BY <1>1, <1>2, <2>2 DEF CheckTransient, Rest, Become, edge, wp, hist
  <2>3. QED
    BY <2>1, <2>2
<1>3. CASE ReadCode(r)
  <2>1. CASE redeem[proc[r].state] # None
    <3> DEFINE q == [proc[r] EXCEPT !.pc = "consume", !.key = redeem[proc[r].state]]
    <3>1. proc' = [proc EXCEPT ![r] = q] /\ proc[r].pc = "redeem"
      BY <1>3, <2>1 DEF ReadCode, Become, At
    <3>2. proc[r].state \in State /\ redeem[proc[r].state] \in Nat
      BY <1>0, <2>1, <3>1 DEF PairingTypeOK
    <3>3. /\ q \in Request /\ q.pc = "consume" /\ q.state = proc[r].state
          /\ q.key = redeem[proc[r].state]
      BY <1>0, <3>2 DEF Request
    <3>4. UNCHANGED <<row, record, option, redeem, minted, last, orderly, verified>>
      BY <1>3 DEF ReadCode, edge, wp, hist
    <3>5. proc'[r] = q
      BY <1>0, <3>1 DEF PairingTypeOK
    <3> HIDE DEF q
    <3>6. ASSUME orderly PROVE ReturnRuns(r)'
      <4>1. ReturnRuns(r) /\ Handshake
        BY <1>a, <3>1, <3>6
      <4>2. last.answered /\ last.state = proc[r].state
        BY <4>1 DEF ReturnRuns
      <4>3. redeem[proc[r].state] = row
        BY <2>1, <4>1, <4>2 DEF Handshake
      <4>4. QED
        BY <3>3, <3>4, <3>5, <4>1, <4>3 DEF ReturnRuns, Keyed
    <3>7. QED
      BY <1>0, <3>1, <3>3, <3>4, <3>6, RequestStep DEF PairingTypeOK
  <2>2. CASE redeem[proc[r].state] = None
    BY <1>1, <1>3, <2>2 DEF ReadCode, Rest, Become, edge, wp, hist
  <2>3. QED
    BY <2>1, <2>2
<1>4. CASE Consume(r)
  <2> DEFINE q == [proc[r] EXCEPT !.pc = "save"]
  <2>1. q \in Request /\ q.pc = "save" /\ q.state = proc[r].state /\ q.key = proc[r].key
    BY <1>0 DEF Request
  <2>2. proc' = [proc EXCEPT ![r] = q] /\ proc[r].pc = "consume"
    BY <1>4 DEF Consume, Goto, At
  <2>3. /\ redeem' = [redeem EXCEPT ![proc[r].state] = None]
        /\ UNCHANGED <<row, record, option, minted, last, orderly, verified>>
    BY <1>4 DEF Consume, wp, hist
  <2>4. redeem' \in [State -> Nat \cup {None}] /\ \A s \in State : redeem'[s] \in {redeem[s], None}
    BY <2>3 DEF PairingTypeOK
  <2>5. proc'[r] = q
    BY <1>0, <2>2 DEF PairingTypeOK
  <2>6. orderly => ReturnRuns(r)'
    BY <1>a, <2>1, <2>2, <2>3, <2>5 DEF ReturnRuns, Keyed
  <2> HIDE DEF q
  <2>7. QED
    BY <1>0, <2>1, <2>2, <2>3, <2>4, <2>6, RequestStep DEF PairingTypeOK
<1>5. CASE SaveKey(r)
  <2> DEFINE q == [proc[r] EXCEPT !.pc = "auth"]
  <2>1. q \in Request /\ q.pc = "auth" /\ q.state = proc[r].state /\ q.key = proc[r].key
    BY <1>0 DEF Request, Keyed
  <2>2. proc' = [proc EXCEPT ![r] = q] /\ proc[r].pc = "save"
    BY <1>5 DEF SaveKey, Goto, At
  <2>3. /\ option' = proc[r].key
        /\ UNCHANGED <<row, record, redeem, minted, last, orderly, verified>>
    BY <1>5 DEF SaveKey, edge, hist
  <2> HIDE DEF q
  <2>4. \A b \in Actor : proc'[b] = IF b = r THEN q ELSE proc[b]
    BY <2>2 DEF PairingTypeOK
  <2>5. PairingTypeOK'
    <3>1. proc[r].key \in Nat \cup {None}
      BY <1>0 DEF Request
    <3>2. QED
      BY <1>0, <2>1, <2>2, <2>3, <2>4, <3>1 DEF PairingTypeOK
  <2>6. Busy' = Busy
    BY <2>1, <2>2, <2>4 DEF Busy, At, Actor
  <2>7. ASSUME orderly PROVE Handshake'
    <3>1. Busy' = {r} /\ ReturnRuns(r) /\ Handshake
      BY <1>a, <2>2, <2>6, <2>7
    <3>2. proc[r].key = row
      BY <2>2, <3>1 DEF ReturnRuns
    <3>3. ReturnRuns(r)'
      BY <1>0, <2>1, <2>2, <2>3, <2>4, <3>1 DEF ReturnRuns, Keyed
    <3>4. QED
      BY <1>0, <2>3, <3>1, <3>2, <3>3 DEF Handshake, OneAtATime
  <2>8. QED
    BY <2>3, <2>5, <2>7
<1>6. QED
  BY <1>2, <1>3, <1>4, <1>5 DEF Plugin

\* The statements of an authenticated call, a return's /verify among them.
LEMMA AuthenticatedKeepsPairing ==
  ASSUME PairingInv, NEW a \in Return \cup Caller, Authenticated(a) \/ CallFails(a)
  PROVE  PairingInv'
<1> USE DEF PairingInv
<1>0. a \in Actor /\ a \notin Pairer /\ proc[a] \in Request
  BY ActorAssumption DEF Actor, PairingTypeOK
<1>s. (a \in Caller => proc[a].state = None) /\ proc[a].seen \in Nat \cup {None}
  BY <1>0 DEF PairingTypeOK, Request
<1>a. ASSUME a \in Return, proc[a].pc # "idle", orderly PROVE Busy = {a} /\ ReturnRuns(a)
  BY <1>0, <1>a, AloneInHandshake DEF Busy, At
<1>1. ASSUME proc' = [proc EXCEPT ![a] = Idle], record' \in Nat \cup {None},
             UNCHANGED <<row, option, redeem, minted, last, orderly, verified>>
      PROVE  PairingInv'
  BY <1>0, <1>1, IdleRequest, RequestStep DEF PairingTypeOK
<1>2. ASSUME NEW q \in Request, q.pc \in Keyed, q.state = proc[a].state, q.key = proc[a].key,
             proc' = [proc EXCEPT ![a] = q], proc[a].pc \in Keyed, record' \in Nat \cup {None},
             UNCHANGED <<row, option, redeem, minted, last, orderly, verified>>
      PROVE  PairingInv'
  <2>1. proc'[a] = q /\ proc[a].pc # "idle"
    BY <1>0, <1>2 DEF PairingTypeOK, Keyed
  <2>2. ASSUME a \in Return, orderly PROVE ReturnRuns(a)'
    BY <1>a, <1>2, <2>1, <2>2 DEF ReturnRuns
  <2>3. QED
    BY <1>0, <1>s, <1>2, <2>1, <2>2, RequestStep DEF PairingTypeOK
<1>3. ASSUME NEW key, Admitted(a, key), proc[a].pc \in Keyed, record' \in Nat \cup {None},
             UNCHANGED <<row, option, redeem, minted, last, orderly, verified>>
      PROVE  PairingInv'
  <2>1. CASE proc[a].key = key
    <3> DEFINE q == [proc[a] EXCEPT !.pc = "state"]
    <3>1. q \in Request /\ q.pc \in Keyed /\ q.state = proc[a].state /\ q.key = proc[a].key
      BY <1>0 DEF Request, Keyed
    <3>2. proc' = [proc EXCEPT ![a] = q]
      BY <1>3, <2>1 DEF Admitted, Become
    <3> HIDE DEF q
    <3>3. QED
      BY <1>2, <1>3, <3>1, <3>2
  <2>2. CASE proc[a].key # key
    BY <1>1, <1>3, <2>2 DEF Admitted, Become
  <2>3. QED
    BY <2>1, <2>2
<1>4. ASSUME NEW pc \in Keyed, Goto(a, pc), proc[a].pc \in Keyed, record' \in Nat \cup {None},
             UNCHANGED <<row, option, redeem, minted, last, orderly, verified>>
      PROVE  PairingInv'
  <2> DEFINE q == [proc[a] EXCEPT !.pc = pc]
  <2>1. q \in Request /\ q.pc = pc /\ q.state = proc[a].state /\ q.key = proc[a].key
    BY <1>0, <1>4 DEF Request
  <2>2. proc' = [proc EXCEPT ![a] = q]
    BY <1>4 DEF Goto
  <2> HIDE DEF q
  <2>3. QED
    BY <1>2, <1>4, <2>1, <2>2
<1>5. CASE ReadRecord(a)
  <2>1. /\ Admitted(a, record) /\ proc[a].pc \in Keyed /\ record' \in Nat \cup {None}
        /\ UNCHANGED <<row, option, redeem, minted, last, orderly, verified>>
    BY <1>5 DEF ReadRecord, At, Keyed, edge, wp, hist, PairingTypeOK
  <2>2. QED
    BY <1>3, <2>1
<1>6. CASE ReadRow(a)
  <2> DEFINE q == [proc[a] EXCEPT !.pc = "fill", !.seen = row]
  <2>1. q \in Request /\ q.pc \in Keyed /\ q.state = proc[a].state /\ q.key = proc[a].key
    BY <1>0 DEF Request, Keyed, PairingTypeOK
  <2>2. proc' = [proc EXCEPT ![a] = q] /\ proc[a].pc \in Keyed
    BY <1>6 DEF ReadRow, Become, At, Keyed
  <2>3. /\ record' \in Nat \cup {None}
        /\ UNCHANGED <<row, option, redeem, minted, last, orderly, verified>>
    BY <1>6 DEF ReadRow, edge, wp, hist, PairingTypeOK
  <2> HIDE DEF q
  <2>4. QED
    BY <1>2, <2>1, <2>2, <2>3
<1>7. CASE Fill(a)
  <2>1. /\ Admitted(a, proc[a].seen) /\ proc[a].pc \in Keyed
        /\ UNCHANGED <<row, option, redeem, minted, last, orderly, verified>>
    BY <1>7 DEF Fill, At, Keyed, wp, hist
  <2>2. record' \in Nat \cup {None}
    BY <1>s, <1>7 DEF Fill
  <2>3. QED
    BY <1>3, <2>1, <2>2
<1>8. CASE CheckState(a)
  <2>1. /\ proc[a].pc \in Keyed /\ record' \in Nat \cup {None}
        /\ UNCHANGED <<row, option, redeem, minted, last, orderly, verified>>
    BY <1>8 DEF CheckState, At, Keyed, wp, hist, PairingTypeOK
  <2>2. Goto(a, "sync") \/ Rest(a)
    BY <1>8 DEF CheckState
  <2>3. "sync" \in Keyed
    BY DEF Keyed
  <2>4. QED
    BY <1>1, <1>4, <2>1, <2>2, <2>3 DEF Rest, Become
<1>9. CASE ReadSync(a)
  <2> DEFINE pc == IF record = None THEN "done" ELSE "rewrite"
             q == [proc[a] EXCEPT !.seen = record, !.pc = pc]
  <2>1. q \in Request /\ q.pc \in Keyed /\ q.state = proc[a].state /\ q.key = proc[a].key
    BY <1>0 DEF Request, Keyed, PairingTypeOK
  <2>2. proc' = [proc EXCEPT ![a] = q] /\ proc[a].pc \in Keyed
    BY <1>9 DEF ReadSync, Become, At, Keyed
  <2>3. /\ record' \in Nat \cup {None}
        /\ UNCHANGED <<row, option, redeem, minted, last, orderly, verified>>
    BY <1>9 DEF ReadSync, edge, wp, hist, PairingTypeOK
  <2> HIDE DEF q
  <2>4. QED
    BY <1>2, <2>1, <2>2, <2>3
<1>10. CASE Rewrite(a)
  <2>1. /\ Goto(a, "done") /\ proc[a].pc \in Keyed /\ "done" \in Keyed
        /\ UNCHANGED <<row, option, redeem, minted, last, orderly, verified>>
    BY <1>10 DEF Rewrite, At, Keyed, wp, hist
  <2>2. record' \in Nat \cup {None}
    BY <1>s, <1>10 DEF Rewrite
  <2>3. QED
    BY <1>4, <2>1, <2>2
<1>11. CASE Done(a)
  <2>1. /\ proc' = [proc EXCEPT ![a] = Idle] /\ proc[a].pc = "done"
        /\ verified' = IF proc[a].state # None THEN proc[a].key ELSE verified
    BY <1>11 DEF Done, Rest, Become, At
  <2>2. UNCHANGED <<row, record, option, redeem, minted, last, orderly>>
    BY <1>11 DEF Done, edge, wp
  <2>3. \A b \in Actor : proc'[b] = IF b = a THEN Idle ELSE proc[b]
    BY <2>1 DEF PairingTypeOK
  <2>4. verified' \in Nat \cup {None}
    BY <1>0, <2>1 DEF Request, PairingTypeOK
  <2>5. PairingTypeOK'
    <3>1. /\ proc' \in [Actor -> Request]
          /\ \A c \in Caller : proc'[c].state = None
          /\ \A r \in Return : proc'[r].pc # "idle" => proc'[r].state \in State
      BY <1>0, <2>1, IdleRequest, RequestTyped
    <3>2. QED
      BY <2>2, <2>4, <3>1 DEF PairingTypeOK
  <2>6. Busy' = Busy \ {a}
    BY <2>3, IdleRequest DEF Busy, At, Actor
  <2>7. ASSUME orderly PROVE Handshake'
    <3>1. OneAtATime'
      BY <2>6, <2>7 DEF Handshake, OneAtATime
    <3>2. ASSUME NEW p \in Pairer \cap Busy' PROVE PairingRuns(p)'
      <4>1. PairingRuns(p) /\ proc'[p] = proc[p]
        BY <2>3, <2>6, <2>7, <3>2 DEF Handshake, Actor
      <4>2. QED
        BY <2>2, <4>1 DEF PairingRuns
    <3>3. ASSUME NEW r \in Return \cap Busy' PROVE ReturnRuns(r)'
      <4>1. ReturnRuns(r) /\ proc'[r] = proc[r]
        BY <2>3, <2>6, <2>7, <3>3 DEF Handshake, Actor
      <4>2. QED
        BY <2>2, <4>1 DEF ReturnRuns
    <3>4. verified' # None => option = verified' /\ row = verified'
      <4>1. CASE proc[a].state # None
        <5>1. a \in Return /\ ReturnRuns(a)
          BY <1>a, <1>s, <2>1, <2>7, <4>1
        <5>2. QED
          BY <2>1, <4>1, <5>1 DEF ReturnRuns, Keyed
      <4>2. CASE proc[a].state = None
        BY <2>1, <2>7, <4>2 DEF Handshake
      <4>3. QED
        BY <4>1, <4>2
    <3>5. last'.answered => last'.state \in State /\ redeem'[last'.state] \in {None, row'}
      BY <2>2, <2>7 DEF Handshake
    <3>6. QED
      BY <2>2, <3>1, <3>2, <3>3, <3>4, <3>5 DEF Handshake
  <2>8. QED
    BY <2>2, <2>5, <2>7
<1>12. CASE CallFails(a)
  <2>1. /\ proc' = [proc EXCEPT ![a] = Idle] /\ record' \in Nat \cup {None}
        /\ UNCHANGED <<row, option, redeem, minted, last, orderly, verified>>
    BY <1>12 DEF CallFails, Rest, Become, edge, wp, hist, PairingTypeOK
  <2>2. QED
    BY <1>1, <2>1
<1>13. QED
  BY <1>5, <1>6, <1>7, <1>8, <1>9, <1>10, <1>11, <1>12 DEF Authenticated

\* What else happens: another call begins, the owner disconnects the plugin, entries expire,
\* the page is reloaded, the account pays or lapses.
LEMMA RestKeepsPairing ==
  ASSUME PairingInv,
         \/ \E c \in Caller : Call(c)
         \/ \E s \in State : Browser(s) \/ Reload(s) \/ ExpireNonce(s)
         \/ Pay \/ Lapse \/ Disconnect \/ ExpireRecord \/ UNCHANGED vars
  PROVE  PairingInv'
<1> USE DEF PairingInv
<1>1. ASSUME NEW c \in Caller, Call(c) PROVE PairingInv'
  <2> DEFINE q == [Idle EXCEPT !.pc = "auth", !.key = option]
  <2>1. q \in Request /\ q.state = None
    BY IdleRequest DEF Request, Keyed, PairingTypeOK
  <2>2. proc' = [proc EXCEPT ![c] = q]
    BY <1>1 DEF Call, Become
  <2>3. UNCHANGED <<row, record, option, redeem, minted, last, orderly, verified>>
    BY <1>1 DEF Call, edge, wp, hist
  <2>4. c \in Actor /\ c \notin Pairer /\ c \notin Return
    BY ActorAssumption DEF Actor
  <2> HIDE DEF q
  <2>5. QED
    BY <2>1, <2>2, <2>3, <2>4, RequestStep DEF PairingTypeOK
<1>2. CASE (\E s \in State : Browser(s)) \/ Pay \/ Lapse \/ ExpireRecord \/ UNCHANGED vars
  <2>1. UNCHANGED <<proc, row, option, redeem, minted, last, orderly, verified>>
    BY <1>2 DEF Browser, Connect, Load, Purchase, Poll, Pay, Lapse, ExpireRecord, edge, wp,
                hist, vars
  <2>2. record' \in Nat \cup {None}
    BY <1>2 DEF Browser, Connect, Load, Purchase, Poll, Pay, Lapse, ExpireRecord, edge, vars,
                PairingTypeOK
  <2>3. QED
    BY <2>1, <2>2, PairingStutters DEF PairingTypeOK
<1>3. ASSUME NEW s \in State, ExpireNonce(s) PROVE PairingInv'
  <2>1. UNCHANGED <<proc, row, record, option, minted, last, orderly, verified>>
    BY <1>3 DEF ExpireNonce, hist
  <2>2. redeem' = redeem \/ redeem' = [redeem EXCEPT ![s] = None]
    BY <1>3 DEF ExpireNonce
  <2>3. /\ redeem' \in [State -> Nat \cup {None}]
        /\ \A t \in State : redeem'[t] \in {redeem[t], None}
    BY <2>2 DEF PairingTypeOK
  <2>4. QED
    BY <2>1, <2>3, PairingStutters DEF PairingTypeOK
<1>4. ASSUME NEW s \in State, Reload(s) PROVE PairingInv'
  <2>1. UNCHANGED <<row, record, option, redeem, minted, last, orderly, verified>>
    BY <1>4 DEF Reload, edge, wp, hist
  <2>2. /\ proc' \in [Actor -> Request]
        /\ \A a \in Actor : /\ proc'[a].pc = proc[a].pc /\ proc'[a].state = proc[a].state
                            /\ proc'[a].key = proc[a].key
    <3>1. \A a \in Actor : /\ [proc[a] EXCEPT !.live = FALSE] \in Request
                          /\ [proc[a] EXCEPT !.live = FALSE].pc = proc[a].pc
                          /\ [proc[a] EXCEPT !.live = FALSE].state = proc[a].state
                          /\ [proc[a] EXCEPT !.live = FALSE].key = proc[a].key
      BY DEF PairingTypeOK, Request
    <3>2. proc' = [a \in Actor |-> IF a \in Pairer /\ proc[a].state = s
                                  THEN [proc[a] EXCEPT !.live = FALSE] ELSE proc[a]]
      BY <1>4 DEF Reload
    <3>3. QED
      BY <3>1, <3>2 DEF PairingTypeOK
  <2>3. PairingTypeOK'
    BY <2>1, <2>2 DEF PairingTypeOK, Actor
  <2>4. Busy' = Busy
    BY <2>2 DEF Busy, At, Actor
  <2>5. ASSUME orderly PROVE Handshake'
    <3>1. \A p \in Pairer \cap Busy : PairingRuns(p)'
      BY <2>1, <2>2, <2>5 DEF Handshake, PairingRuns, Actor
    <3>2. \A r \in Return \cap Busy : ReturnRuns(r)'
      BY <2>1, <2>2, <2>5 DEF Handshake, ReturnRuns, Actor
    <3>3. QED
      BY <2>1, <2>4, <2>5, <3>1, <3>2 DEF Handshake, OneAtATime
  <2>6. QED
    BY <2>1, <2>3, <2>5
<1>5. CASE Disconnect
  <2>1. /\ option' = None /\ verified' = None /\ orderly' = (orderly /\ Busy = {})
        /\ UNCHANGED <<row, record, redeem, proc, minted, last>>
    BY <1>5 DEF Disconnect, edge
  <2>2. PairingTypeOK' /\ Busy' = Busy
    BY <2>1 DEF PairingTypeOK, Busy, At
  <2>3. ASSUME orderly' PROVE Handshake'
    BY <2>1, <2>2, <2>3 DEF Handshake, OneAtATime
  <2>4. QED
    BY <2>2, <2>3
<1>6. QED
  BY <1>1, <1>2, <1>3, <1>4, <1>5

LEMMA PairingStep == PairingInv /\ [Next]_vars => PairingInv'
<1> SUFFICES ASSUME PairingInv, [Next]_vars
             PROVE  PairingInv'
  OBVIOUS
<1>1. ASSUME NEW s \in State, Browser(s) \/ Reload(s) \/ ExpireNonce(s)
      PROVE  PairingInv'
  BY <1>1, RestKeepsPairing
<1>2. ASSUME NEW s \in State, NEW p \in Pairer, Authorize(s, p)
      PROVE  PairingInv'
  BY <1>2, AuthorizeKeepsPairing
<1>3. ASSUME NEW s \in State, NEW r \in Return, Redirect(s, r) \/ Revisit(s, r)
      PROVE  PairingInv'
  BY <1>3, ReturnKeepsPairing
<1>4. ASSUME NEW p \in Pairer, Register(p) \/ Edge(p) \/ PairFails(p)
      PROVE  PairingInv'
  BY <1>4, RegisterKeepsPairing, EdgeKeepsPairing
<1>5. ASSUME NEW r \in Return, Plugin(r)
      PROVE  PairingInv'
  BY <1>5, PluginKeepsPairing
<1>6. ASSUME NEW a \in Return \cup Caller, Authenticated(a) \/ CallFails(a)
      PROVE  PairingInv'
  BY <1>6, AuthenticatedKeepsPairing
<1>7. ASSUME NEW c \in Caller, Call(c)
      PROVE  PairingInv'
  BY <1>7, RestKeepsPairing
<1>8. CASE Pay \/ Lapse \/ Disconnect \/ ExpireRecord \/ UNCHANGED vars
  BY <1>8, RestKeepsPairing
<1>9. QED
  BY <1>1, <1>2, <1>3, <1>4, <1>5, <1>6, <1>7, <1>8 DEF Next

-----------------------------------------------------------------------------
(***************************************************************************)
(* The portal                                                              *)
(***************************************************************************)
\* A step of the portal is a step of one part, and leaves the others as they are.
LEMMA PortalStep ==
  [PortalNext]_PortalVars =>
    [Next]_vars /\ [B!Next]_(B!attention) /\ [S!Next]_(S!forms) /\ [C!Next]_(C!billing)
<1> SUFFICES ASSUME [PortalNext]_PortalVars
             PROVE  [Next]_vars /\ [B!Next]_(B!attention) /\ [S!Next]_(S!forms)
                    /\ [C!Next]_(C!billing)
  OBVIOUS
<1>1. [Next]_vars
  BY DEF PortalNext, PortalVars
<1>2. [B!Next]_(B!attention)
  BY DEF PortalNext, PortalVars, bell, B!attention
<1>3. [S!Next]_(S!forms)
  BY DEF PortalNext, PortalVars, settings, S!forms
<1>4. [C!Next]_(C!billing)
  BY DEF PortalNext, PortalVars, billing, C!billing
<1>5. QED
  BY <1>1, <1>2, <1>3, <1>4

LEMMA PortalBegins == PortalInit => Init /\ B!Init /\ S!Init /\ C!Init
  BY DEF PortalInit

\* What the portal shows and holds, in every reachable state.
THEOREM PortalAsItStands == PortalSpec => [](PairingInv /\ FeedInv /\ SettingsInv /\ CheckoutInv)
<1>1. PortalInit => PairingInv /\ FeedInv /\ SettingsInv /\ CheckoutInv
  BY PortalBegins, PairingBegins, FeedBegins, SettingsBegin, CheckoutBegins
<1>2. PairingInv /\ FeedInv /\ SettingsInv /\ CheckoutInv /\ [PortalNext]_PortalVars =>
        (PairingInv /\ FeedInv /\ SettingsInv /\ CheckoutInv)'
  BY PortalStep, PairingStep, FeedStep, SettingsStep, CheckoutStep
<1> QED
  BY <1>1, <1>2, PTL DEF PortalSpec

\* However many connect pages, requests, lost answers, crashes and expiries: while the requests
\* of a handshake do not overlap (auth.ts and class-handshake.php do not see to that), a plugin
\* that /verify has told it is connected holds the key that D1 has the hash of.
THEOREM ConnectedMeansCurrent == PortalSpec => []VerifiedIsCurrent
<1>1. PairingInv => VerifiedIsCurrent
  BY DEF PairingInv, Handshake, VerifiedIsCurrent
<1> QED
  BY <1>1, PortalAsItStands, PTL

\* What the user edits in a form of the settings while nothing is being saved is still there
\* when saves, deployments and reads of the site answer, in any order and number
\* (SiteDetailPage.tsx and the embedded panel, "Never clobber unsaved edits").
THEOREM NothingTypedIsLost == PortalSpec => []EditsStay
<1>1. SettingsInv => EditsStay
  BY DEF SettingsInv, EditKept, EditsStay, S!EditsStay
<1> QED
  BY <1>1, PortalAsItStands, PTL

\* A checkout is refused only for a reason, and opens where the token is good, whatever override,
\* hint and concurrent requests the worker has seen (billing.ts).
THEOREM RefusedForAReason == PortalSpec => []SellsWhatItCan
<1>1. CheckoutInv => SellsWhatItCan
  BY DEF CheckoutInv, SellsWhatItCan
<1> QED
  BY <1>1, PortalAsItStands, PTL

\* However many reads overtake each other, neither the bell nor a queue that stays on screen goes
\* back to an older count.
THEOREM FeedOnlyAdvances == PortalSpec => FeedNeverGoesBack
<1>1. FeedInv /\ [PortalNext]_PortalVars =>
        [\A w \in B!Reader : (w = "queue" => overview /\ overview') => shown'[w] >= shown[w]]_(B!attention)
  BY PortalStep, FeedStep DEF FeedForward
<1> QED
  BY <1>1, PortalAsItStands, PTL DEF PortalSpec, FeedNeverGoesBack, B!FeedNeverGoesBack
===============================================================================
