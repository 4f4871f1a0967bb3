------------------------------ MODULE PageProofs ------------------------------
(***************************************************************************)
(* Proofs about a visit (MCPageTransform), for every page, every setting, any  *)
(* requests, workers and colos and all bounds: what comes to the visitor is    *)
(* the origin's page, and what the CDN stores under a key, or keeps in a       *)
(* colo's cache, is what the requests that look there may have.               *)
(*                                                                         *)
(* Scripts: ScriptInv says which places are past, for each way a script may    *)
(* load. Two scripts of one kind are loaded in one way, or stand on either     *)
(* side of the first that is deferred (FellowsBecome); so the next to run      *)
(* comes after its fellows that ran (OrderGrows).                             *)
(*                                                                         *)
(* Sheets: SheetInv says of each bundle file, of each request and of each      *)
(* page what edition its text is of, relative to the key it was named by and   *)
(* to the edition the request began with.                                     *)
(*                                                                         *)
(* Images: only what began as a placeholder changes (ImageInv).                *)
(*                                                                         *)
(* CDN: bytes come from deferred writes, which were decided from what a        *)
(* request had read some steps before. MediaInv says of each of them that it   *)
(* is right for the place it is going to, and of each request, that it looks   *)
(* for AVIF only if its browser wants it.                                     *)
(***************************************************************************)
EXTENDS MCPageTransform, FiniteSetTheorems, WellFoundedInduction, TLAPS

-----------------------------------------------------------------------------
(***************************************************************************)
(* The least of some numbers                                               *)
(***************************************************************************)
LEMMA Least ==
  ASSUME NEW S \in SUBSET Nat, S # {}
  PROVE  \E i \in S : \A j \in S : i <= j
<1> DEFINE R == OpToRel(<, Nat)
<1>1. IsWellFoundedOn(R, Nat)
  BY NatLessThanWellFounded
<1>2. \A a, b \in Nat : a < b => <<a, b>> \in R
  BY DEF R, OpToRel
<1> HIDE DEF R
<1>3. PICK i \in S : \A j \in S : ~ (<<j, i>> \in R)
  BY <1>1, WFMin
<1>4. \A j \in S : i \in Nat /\ j \in Nat /\ ~(j < i)
  BY <1>2, <1>3
<1>5. \A j \in S : i <= j
  BY <1>4
<1> QED
  BY <1>5

-----------------------------------------------------------------------------
(***************************************************************************)
(* The scripts                                                             *)
(***************************************************************************)
Loaders == {"none", "coming", "armed", "running", "over", "lost"}
Postponed == {"defer", "module"}

ScriptTypes ==
    /\ scripts \in Seq(ScriptKind) /\ mode \in {"none", "defer", "interaction_delay"}
    /\ strict \in BOOLEAN /\ parsed \in 0..Len(scripts)
    /\ ran \in Seq(Positions) /\ missed \subseteq Positions
    /\ loader \in Loaders /\ chain \in [at : 0..Len(scripts), failed : BOOLEAN]

\* The places that are past, each in its way.
Parsed == \A i \in Positions : Becomes(i) = "sync" /\ Over(i) => i <= parsed
Drained ==
    \A i \in Positions : Becomes(i) \in Postponed /\ Over(i) =>
        /\ parsed = Len(scripts)
        /\ \A j \in Positions : j < i /\ Becomes(j) \in Postponed => Over(j)
Chained ==
    /\ loader = "running" => chain.at \in Held
    /\ loader \in {"armed", "running", "over"} => parsed = Len(scripts)
    /\ \A i \in Held : Over(i) => loader \in {"running", "over"}
                                  /\ (loader = "running" => i < chain.at)

ScriptInv == ScriptTypes /\ Parsed /\ Drained /\ Chained /\ DocumentOrder

\* Two scripts of the kinds whose order the page promises.
Fellows(i, j) ==
    /\ scripts[i].mark = "none" /\ scripts[j].mark = "none"
    /\ scripts[i].load = scripts[j].load /\ scripts[j].load \in {"sync", "defer"}

\* Two scripts of one kind are treated alike, but that inline ones may stay where they are
\* before the first that is deferred.
LEMMA FellowsBecome ==
  ASSUME ScriptTypes, NEW i \in Positions, NEW j \in Positions, Fellows(i, j)
  PROVE  \/ Becomes(i) = Becomes(j) /\ Becomes(i) \in {"sync", "defer", "held"}
         \/ Becomes(i) = "sync" /\ Becomes(j) = "defer" /\ i < j
         \/ Becomes(i) = "defer" /\ Becomes(j) = "sync" /\ j < i
<1>1. scripts[i] \in ScriptKind /\ scripts[j] \in ScriptKind /\ i \in Nat /\ j \in Nat
  BY DEF ScriptTypes, Positions
<1>2. CASE Inactive
  <2>1. Becomes(i) = scripts[i].load /\ Becomes(j) = scripts[j].load
    BY <1>2 DEF Becomes
  <2> QED
    BY <2>1 DEF Fellows
<1>3. CASE ~Inactive /\ mode = "defer"
  <2>1. CASE scripts[i].load = "defer"
    BY <1>3, <2>1 DEF Becomes, Fellows, Untouched
  <2>2. CASE scripts[i].load = "sync"
    <3>1. ~Untouched(scripts[i]) /\ ~Untouched(scripts[j])
      BY <2>2 DEF Untouched, Fellows
    <3>2. /\ Becomes(i) = IF Deferred(i) THEN "defer" ELSE "sync"
          /\ Becomes(j) = IF Deferred(j) THEN "defer" ELSE "sync"
      BY <1>3, <3>1 DEF Becomes
    <3>3. ASSUME NEW a \in {i, j}, NEW b \in {i, j}, Deferred(b), b < a
          PROVE  Deferred(a)
      <4>1. CASE scripts[b].external
        <5>1. ~Untouched(scripts[b]) /\ scripts[a].mark = "none" /\ b \in 1..(a - 1)
          <6>1. ~Untouched(scripts[b])
            BY <3>1, Zenon
          <6>2. scripts[a].mark = "none"
            BY DEF Fellows
          <6>3. b \in 1..(a - 1)
            BY <3>3 DEF Positions, ScriptTypes
          <6> QED
            BY <6>1, <6>2, <6>3
        <5>2. ExternalDeferred(a)
          BY <4>1, <5>1, Zenon DEF ExternalDeferred
        <5>3. scripts[a].mark # "big"
          BY <5>1
        <5> QED
          BY <5>2, <5>3, Zenon DEF Deferred
      <4>2. CASE ExternalDeferred(b)
        BY <1>1, <3>3, <4>2 DEF Deferred, ExternalDeferred, Fellows
      <4> QED
        BY <3>3, <4>1, <4>2 DEF Deferred
    <3>4. CASE i = j
      BY <3>2, <3>4
    <3>5. CASE i < j
      <4>1. Deferred(i) => Deferred(j)
        BY <3>3, <3>5
      <4> QED
        BY <3>2, <3>5, <4>1
    <3>6. CASE j < i
      <4>1. Deferred(j) => Deferred(i)
        BY <3>3, <3>6
      <4> QED
        BY <3>2, <3>6, <4>1
    <3> QED
      BY <1>1, <3>4, <3>5, <3>6
  <2> QED
    BY <2>1, <2>2 DEF Fellows
<1>4. CASE ~Inactive /\ mode = "interaction_delay"
  <2>1. ~Untouched(scripts[i]) /\ ~Untouched(scripts[j])
    BY <1>4 DEF Untouched, Fellows
  <2> QED
    BY <1>4, <2>1 DEF Becomes, Fellows
<1> QED
  BY <1>2, <1>3, <1>4 DEF ScriptTypes, Inactive

LEMMA PageRests ==
  ASSUME UNCHANGED pageVars
  PROVE  /\ Positions' = Positions /\ Held' = Held
         /\ \A i : Becomes(i)' = Becomes(i)
         /\ \A i, j : Fellows(i, j)' = Fellows(i, j)
<1>1. UNCHANGED <<mode, strict, scripts>>
  BY DEF pageVars
<1>2. \A i : Becomes(i)' = Becomes(i)
  BY <1>1 DEF Becomes, Inactive, Untouched, Deferred, ExternalDeferred
<1>3. Positions' = Positions
  BY <1>1 DEF Positions
<1> QED
  BY <1>1, <1>2, <1>3 DEF Held, Fellows

\* Script x runs, or is given up.
Passes(x) ==
    \/ ran' = Append(ran, x) /\ UNCHANGED missed
    \/ missed' = missed \cup {x} /\ UNCHANGED ran

LEMMA OverGrows ==
  ASSUME ScriptTypes, UNCHANGED pageVars, NEW x \in Positions, Passes(x)
  PROVE  /\ ran' \in Seq(Positions) /\ missed' \subseteq Positions
         /\ \A i \in Positions : Over(i)' <=> Over(i) \/ i = x
<1>1. CASE ran' = Append(ran, x) /\ UNCHANGED missed
  <2>1. /\ ran' \in Seq(Positions) /\ Len(ran') = Len(ran) + 1 /\ ran'[Len(ran) + 1] = x
        /\ \A k \in 1..Len(ran) : ran'[k] = ran[k]
    BY <1>1 DEF ScriptTypes
  <2>2. Len(ran) \in Nat
    BY DEF ScriptTypes
  <2>3. \A i \in Positions : Ran(i)' <=> Ran(i) \/ i = x
    BY <2>1, <2>2 DEF Ran
  <2> QED
    BY <1>1, <2>1, <2>3 DEF Over, ScriptTypes
<1>2. CASE missed' = missed \cup {x} /\ UNCHANGED ran
  BY <1>2 DEF Over, Ran, ScriptTypes
<1> QED
  BY <1>1, <1>2 DEF Passes

LEMMA OrderGrows ==
  ASSUME ScriptTypes, DocumentOrder, UNCHANGED pageVars, NEW x \in Positions, Passes(x),
         x \notin missed => \A i \in Positions : Ran(i) /\ Fellows(i, x) => i < x
  PROVE  DocumentOrder'
<1>1. CASE missed' = missed \cup {x} /\ UNCHANGED ran
  BY <1>1 DEF DocumentOrder, pageVars
<1>2. CASE ran' = Append(ran, x) /\ UNCHANGED missed
  <2>1. /\ Len(ran') = Len(ran) + 1 /\ ran'[Len(ran) + 1] = x /\ Len(ran) \in Nat
        /\ \A k \in 1..Len(ran) : ran'[k] = ran[k] /\ ran[k] \in Positions
    BY <1>2 DEF ScriptTypes
  <2> SUFFICES ASSUME NEW k \in 1..(Len(ran) + 1), NEW l \in 1..(Len(ran) + 1),
                      k < l, ran'[l] \notin missed, Fellows(ran'[k], ran'[l])
               PROVE  ran'[k] < ran'[l]
    BY <1>2, <2>1 DEF DocumentOrder, Fellows, pageVars
  <2>2. k \in 1..Len(ran)
    BY <2>1
  <2>3. CASE l = Len(ran) + 1
    <3>1. ran'[l] = x /\ ran'[k] = ran[k] /\ Ran(ran[k]) /\ ran[k] \in Positions
      BY <2>1, <2>2, <2>3 DEF Ran
    <3> QED
      BY <3>1
  <2>4. CASE l \in 1..Len(ran)
    BY <2>1, <2>2, <2>4 DEF DocumentOrder, Fellows
  <2> QED
    BY <2>1, <2>3, <2>4
<1> QED
  BY <1>1, <1>2 DEF Passes

LEMMA NoneRuns ==
  ASSUME UNCHANGED <<pageVars, ran, missed>>
  PROVE  /\ \A i : Over(i)' = Over(i)
         /\ DocumentOrder' = DocumentOrder
  BY DEF pageVars, Over, Ran, DocumentOrder

LEMMA ParserGoes ==
  ASSUME ScriptInv, Parse
  PROVE  ScriptInv'
<1> DEFINE x == parsed + 1
<1>1. /\ parsed < Len(scripts) /\ parsed' = x /\ x \in Positions /\ parsed \in Nat
      /\ UNCHANGED <<pageVars, loader, chain>>
  BY DEF Parse, ScriptInv, ScriptTypes, Positions
<1>2. /\ Positions' = Positions /\ Held' = Held /\ \A i : Becomes(i)' = Becomes(i)
  BY <1>1, PageRests
<1>3. /\ loader \notin {"armed", "running", "over"}
      /\ \A i \in Positions : Becomes(i) \in Postponed => ~Over(i)
      /\ \A i \in Held : ~Over(i)
  BY <1>1 DEF ScriptInv, Chained, Drained, ScriptTypes
<1>4. CASE Becomes(x) = "sync"
  <2>1. Passes(x)
    BY <1>4 DEF Parse, Runs, Passes
  <2>2. /\ ran' \in Seq(Positions) /\ missed' \subseteq Positions
        /\ \A i \in Positions : Over(i)' <=> Over(i) \/ i = x
    BY <1>1, <2>1, OverGrows DEF ScriptInv
  <2>3. ASSUME NEW i \in Positions, Ran(i), Fellows(i, x)
        PROVE  i < x
    <3>1. Over(i)
      BY <2>3 DEF Over
    <3>2. Becomes(i) # "defer"
      BY <1>3, <3>1 DEF Postponed
    <3>3. Becomes(i) = "sync"
      BY <1>1, <1>4, <2>3, <3>2, FellowsBecome DEF ScriptInv
    <3> QED
      BY <1>1, <3>1, <3>3 DEF ScriptInv, Parsed, Positions
  <2>4. DocumentOrder'
    BY <1>1, <2>1, <2>3, OrderGrows DEF ScriptInv
  <2>5. ScriptTypes'
    BY <1>1, <1>2, <2>2 DEF ScriptInv, ScriptTypes, pageVars, Positions
  <2>6. Parsed'
    BY <1>1, <1>2, <2>2 DEF ScriptInv, Parsed, Positions
  <2>7. x \notin Held /\ Becomes(x) \notin Postponed
    BY <1>4 DEF Held, Postponed
  <2>8. Drained'
    BY <1>2, <1>3, <2>2, <2>7 DEF Drained
  <2>9. Chained'
    BY <1>1, <1>2, <1>3, <2>2, <2>7 DEF Chained, Held
  <2> QED
    BY <2>4, <2>5, <2>6, <2>8, <2>9 DEF ScriptInv
<1>5. CASE Becomes(x) # "sync"
  <2>1. UNCHANGED <<pageVars, ran, missed>>
    BY <1>1, <1>5 DEF Parse
  <2>2. (\A i : Over(i)' = Over(i)) /\ DocumentOrder' = DocumentOrder
    BY <2>1, NoneRuns
  <2>3. ScriptTypes'
    BY <1>1, <1>2, <2>1 DEF ScriptInv, ScriptTypes, pageVars, Positions
  <2>4. Parsed'
    BY <1>1, <1>2, <2>2 DEF ScriptInv, Parsed, Positions
  <2>5. Drained' /\ Chained'
    BY <1>1, <1>2, <1>3, <2>2 DEF Drained, Chained, Held
  <2> QED
    BY <2>2, <2>3, <2>4, <2>5 DEF ScriptInv
<1> QED
  BY <1>4, <1>5

LEMMA DeferredGoes ==
  ASSUME ScriptInv, NEW x \in Positions, RunDeferred(x)
  PROVE  ScriptInv'
<1>1. /\ parsed = Len(scripts) /\ Becomes(x) \in Postponed /\ ~Over(x)
      /\ \A j \in Positions : Becomes(j) \in Postponed /\ j < x => Over(j)
      /\ UNCHANGED <<pageVars, parsed, loader, chain>> /\ Passes(x)
  <2>1. x \in Queue /\ \A j \in Queue : x <= j
    BY DEF RunDeferred
  <2>2. \A j \in Positions : Becomes(j) \in Postponed /\ ~Over(j) => x <= j
    BY <2>1 DEF Queue, Postponed
  <2> QED
    BY <2>1, <2>2 DEF RunDeferred, Queue, Postponed, Runs, Passes, Positions, ScriptInv, ScriptTypes
<1>2. /\ Positions' = Positions /\ Held' = Held /\ \A i : Becomes(i)' = Becomes(i)
  BY <1>1, PageRests
<1>3. /\ ran' \in Seq(Positions) /\ missed' \subseteq Positions
      /\ \A i \in Positions : Over(i)' <=> Over(i) \/ i = x
  BY <1>1, OverGrows DEF ScriptInv
<1>4. ASSUME NEW i \in Positions, Ran(i), Fellows(i, x)
      PROVE  i < x
  <2>1. Over(i) /\ i # x
    BY <1>1, <1>4 DEF Over
  <2>2. CASE Becomes(i) = Becomes(x)
    <3>1. i <= x
      BY <1>1, <2>1, <2>2 DEF ScriptInv, Drained, Positions, ScriptTypes
    <3> QED
      BY <2>1, <3>1 DEF Positions
  <2>3. CASE Becomes(i) # Becomes(x)
    BY <1>1, <1>4, <2>3, FellowsBecome DEF ScriptInv, Postponed
  <2> QED
    BY <2>2, <2>3
<1>5. DocumentOrder'
  BY <1>1, <1>4, OrderGrows DEF ScriptInv
<1>6. ScriptTypes'
  BY <1>1, <1>2, <1>3 DEF ScriptInv, ScriptTypes, pageVars
<1>7. Parsed'
  BY <1>1, <1>2, <1>3 DEF ScriptInv, Parsed, Postponed
<1>8. Drained'
  BY <1>1, <1>2, <1>3 DEF ScriptInv, Drained, pageVars
<1>9. Chained'
  <2>1. x \notin Held
    BY <1>1 DEF Held, Postponed
  <2> QED
    BY <1>1, <1>2, <1>3, <2>1 DEF ScriptInv, Chained, Held, pageVars
<1> QED
  BY <1>5, <1>6, <1>7, <1>8, <1>9 DEF ScriptInv

LEMMA AsyncGoes ==
  ASSUME ScriptInv, NEW x \in Positions, RunAsync(x)
  PROVE  ScriptInv'
<1>1. /\ Becomes(x) = "async" /\ UNCHANGED <<pageVars, parsed, loader, chain>> /\ Passes(x)
  BY DEF RunAsync, Runs, Passes
<1>2. /\ Positions' = Positions /\ Held' = Held /\ \A i : Becomes(i)' = Becomes(i)
  BY <1>1, PageRests
<1>3. /\ ran' \in Seq(Positions) /\ missed' \subseteq Positions
      /\ \A i \in Positions : Over(i)' <=> Over(i) \/ i = x
  BY <1>1, OverGrows DEF ScriptInv
<1>4. \A i \in Positions : ~Fellows(i, x)
  BY <1>1, FellowsBecome DEF ScriptInv
<1>5. DocumentOrder'
  BY <1>1, <1>4, OrderGrows DEF ScriptInv
<1>6. ScriptTypes'
  BY <1>1, <1>2, <1>3 DEF ScriptInv, ScriptTypes, pageVars
<1>7. Parsed' /\ Drained'
  BY <1>1, <1>2, <1>3 DEF ScriptInv, Parsed, Drained, Postponed, pageVars
<1>8. Chained'
  BY <1>1, <1>2, <1>3 DEF ScriptInv, Chained, Held, pageVars
<1> QED
  BY <1>5, <1>6, <1>7, <1>8 DEF ScriptInv

LEMMA LateGoes ==
  ASSUME ScriptInv, NEW x \in Positions, ArrivesLate(x)
  PROVE  ScriptInv'
<1>1. /\ x \in missed /\ UNCHANGED <<pageVars, parsed, loader, chain>> /\ Passes(x)
  BY DEF ArrivesLate, Passes
<1>2. /\ Positions' = Positions /\ Held' = Held /\ \A i : Becomes(i)' = Becomes(i)
  BY <1>1, PageRests
<1>3. /\ ran' \in Seq(Positions) /\ missed' \subseteq Positions
      /\ \A i \in Positions : Over(i)' <=> Over(i)
  BY <1>1, OverGrows DEF ScriptInv, Over
<1>4. DocumentOrder'
  BY <1>1, OrderGrows DEF ScriptInv
<1>5. ScriptTypes'
  BY <1>1, <1>2, <1>3 DEF ScriptInv, ScriptTypes, pageVars
<1>6. Parsed' /\ Drained'
  BY <1>1, <1>2, <1>3 DEF ScriptInv, Parsed, Drained, pageVars
<1>7. Chained'
  BY <1>1, <1>2, <1>3 DEF ScriptInv, Chained, Held, pageVars
<1> QED
  BY <1>4, <1>5, <1>6, <1>7 DEF ScriptInv

\* The loader's chain takes the held scripts in their order.
LEMMA NextHeld ==
  ASSUME ScriptTypes, NEW i \in Nat
  PROVE  /\ Next1(i) \in Held \cup {0}
         /\ Next1(i) # 0 => Next1(i) > i
<1>1. Held \subseteq Nat \ {0}
  BY DEF Held, Positions, ScriptTypes
<1> DEFINE S == {j \in Held : j > i}
           P(k) == IF \E j \in Held : j > i
                   THEN k \in Held /\ k > i /\ \A j \in Held : j > i => k <= j
                   ELSE k = 0
<1>2. \E k \in Held \cup {0} : P(k)
  <2>1. CASE S = {}
    BY <2>1
  <2>2. CASE S # {}
    <3>1. PICK k \in S : \A j \in S : k <= j
      BY <1>1, <2>2, Least
    <3> QED
      BY <3>1
  <2> QED
    BY <2>1, <2>2
<1>3. Next1(i) \in Held \cup {0} /\ P(Next1(i))
  BY <1>2 DEF Next1
<1> QED
  BY <1>1, <1>3

LEMMA ChainGoes ==
  ASSUME ScriptInv, NEW i \in Nat, Advance(i),
         parsed = Len(scripts), UNCHANGED <<pageVars, parsed>>,
         \A j \in Held : Over(j)' => j <= i
  PROVE  /\ Chained' /\ loader' \in Loaders
         /\ chain' \in [at : 0..Len(scripts), failed : BOOLEAN]
<1>1. /\ chain' = [at |-> Next1(i), failed |-> FALSE]
      /\ loader' = IF Next1(i) = 0 THEN "over" ELSE "running"
      /\ Next1(i) \in Held \cup {0} /\ (Next1(i) # 0 => Next1(i) > i)
  BY NextHeld DEF Advance, ScriptInv
<1>2. Held \subseteq 1..Len(scripts) /\ Len(scripts) \in Nat
  BY DEF Held, Positions, ScriptInv, ScriptTypes
<1>3. chain' \in [at : 0..Len(scripts), failed : BOOLEAN] /\ chain'.at = Next1(i)
  <2>1. Next1(i) \in 0..Len(scripts)
    <3>1. CASE Next1(i) = 0
      BY <1>2, <3>1
    <3>2. CASE Next1(i) \in Held
      <4>1. Next1(i) \in 1..Len(scripts)
        BY <1>2, <3>2
      <4> QED
        BY <1>2, <4>1
    <3> QED
      BY <1>1, <3>1, <3>2
  <2> QED
    BY <1>1, <2>1
<1>4. Held' = Held /\ scripts' = scripts
  BY PageRests DEF pageVars
<1>5. ASSUME NEW j \in Held, Over(j)', loader' = "running"
      PROVE  j < chain'.at
  <2>1. chain'.at > i /\ chain'.at \in Nat /\ j \in Nat
    BY <1>1, <1>2, <1>3, <1>5
  <2>2. j <= i
    BY <1>5
  <2> QED
    BY <2>1, <2>2
<1>6. Chained'
  BY <1>1, <1>3, <1>4, <1>5 DEF Chained
<1> QED
  BY <1>1, <1>3, <1>6 DEF Loaders

LEMMA ChainTakes ==
  ASSUME ScriptInv, loader = "running", Passes(chain.at), Advance(chain.at),
         UNCHANGED <<pageVars, parsed>>
  PROVE  ScriptInv'
<1> DEFINE x == chain.at
<1>1. /\ x \in Held /\ x \in Positions /\ x \in Nat /\ Becomes(x) = "held" /\ parsed = Len(scripts)
      /\ \A i \in Held : Over(i) => i < x
  BY DEF ScriptInv, Chained, Held, Positions, ScriptTypes
<1> HIDE DEF x
<1>2. /\ Positions' = Positions /\ Held' = Held /\ \A i : Becomes(i)' = Becomes(i)
  BY PageRests
<1>3. /\ ran' \in Seq(Positions) /\ missed' \subseteq Positions
      /\ \A i \in Positions : Over(i)' <=> Over(i) \/ i = x
  BY <1>1, OverGrows DEF ScriptInv, x
<1>4. ASSUME NEW i \in Positions, Ran(i), Fellows(i, x)
      PROVE  i < x
  <2>1. Becomes(i) = "held"
    BY <1>1, <1>4, FellowsBecome DEF ScriptInv
  <2> QED
    BY <1>1, <1>4, <2>1 DEF Held, Over
<1>5. DocumentOrder'
  BY <1>1, <1>4, OrderGrows DEF ScriptInv, x
<1>6. \A j \in Held : Over(j)' => j <= x
  BY <1>1, <1>3 DEF Held, Positions
<1>7. /\ Chained' /\ loader' \in Loaders
      /\ chain' \in [at : 0..Len(scripts), failed : BOOLEAN]
  BY <1>1, <1>6, ChainGoes DEF x
<1>8. ScriptTypes'
  BY <1>2, <1>3, <1>7 DEF ScriptInv, ScriptTypes, pageVars
<1>9. Parsed'
  BY <1>1, <1>2, <1>3 DEF ScriptInv, Parsed
<1>10. Drained'
  BY <1>1, <1>2, <1>3 DEF ScriptInv, Drained, Postponed, pageVars
<1> QED
  BY <1>5, <1>7, <1>8, <1>9, <1>10 DEF ScriptInv

LEMMA LoaderGoes ==
  ASSUME ScriptInv, LoaderArms \/ TriggerLoad \/ ChainFails
  PROVE  ScriptInv'
<1>1. UNCHANGED <<pageVars, parsed, ran, missed>>
  BY DEF LoaderArms, TriggerLoad, ChainFails
<1>2. /\ Positions' = Positions /\ Held' = Held /\ \A i : Becomes(i)' = Becomes(i)
  BY <1>1, PageRests
<1>3. (\A i : Over(i)' = Over(i)) /\ DocumentOrder' = DocumentOrder
  BY <1>1, NoneRuns
<1>4. Parsed' /\ Drained' /\ DocumentOrder'
  BY <1>1, <1>2, <1>3 DEF ScriptInv, Parsed, Drained, pageVars
<1>5. /\ Chained' /\ loader' \in Loaders
      /\ chain' \in [at : 0..Len(scripts), failed : BOOLEAN]
  <2>1. CASE LoaderArms
    <3>1. /\ parsed = Len(scripts) /\ loader = "coming" /\ loader' \in {"armed", "lost"}
          /\ UNCHANGED <<scripts, parsed, chain>>
      BY <2>1, <1>1 DEF LoaderArms, pageVars
    <3>2. \A i \in Held : ~Over(i)
      BY <3>1 DEF ScriptInv, Chained
    <3>3. Chained'
      BY <1>2, <1>3, <3>1, <3>2 DEF Chained
    <3> QED
      BY <3>1, <3>3 DEF ScriptInv, ScriptTypes, Loaders
  <2>2. CASE TriggerLoad
    <3>1. loader = "armed" /\ Advance(0)
      BY <2>2 DEF TriggerLoad
    <3>2. parsed = Len(scripts) /\ \A i \in Held : ~Over(i)
      BY <3>1 DEF ScriptInv, Chained
    <3>3. \A i \in Held : Over(i)' => i <= 0
      BY <1>3, <3>2
    <3> QED
      BY <1>1, <3>1, <3>2, <3>3, ChainGoes
  <2>3. CASE ChainFails
    <3>1. UNCHANGED <<scripts, loader, parsed>> /\ chain' = [chain EXCEPT !.failed = TRUE]
      BY <2>3 DEF ChainFails, pageVars
    <3>2. chain' \in [at : 0..Len(scripts), failed : BOOLEAN] /\ chain'.at = chain.at
      BY <3>1 DEF ScriptInv, ScriptTypes
    <3>3. Chained'
      BY <1>2, <1>3, <3>1, <3>2 DEF ScriptInv, Chained
    <3> QED
      BY <3>1, <3>2, <3>3 DEF ScriptInv, ScriptTypes
  <2> QED
    BY <2>1, <2>2, <2>3
<1>6. ScriptTypes'
  BY <1>1, <1>2, <1>5 DEF ScriptInv, ScriptTypes, pageVars
<1> QED
  BY <1>4, <1>5, <1>6 DEF ScriptInv

LEMMA ScriptsStep ==
  ASSUME ScriptInv, ScriptNext
  PROVE  ScriptInv'
<1>1. ASSUME NEW i \in Positions, RunDeferred(i) \/ RunAsync(i) \/ ArrivesLate(i)
      PROVE  ScriptInv'
  BY <1>1, DeferredGoes, AsyncGoes, LateGoes
<1>2. CASE Parse
  BY <1>2, ParserGoes
<1>3. CASE LoaderArms \/ TriggerLoad \/ ChainFails
  BY <1>3, LoaderGoes
<1>4. CASE ChainRuns
  BY <1>4, ChainTakes DEF ChainRuns, Passes
<1>5. CASE Watchdog
  BY <1>5, ChainTakes DEF Watchdog, Passes
<1> QED
  BY <1>1, <1>2, <1>3, <1>4, <1>5 DEF ScriptNext

LEMMA ScriptsRest ==
  ASSUME ScriptInv, UNCHANGED scriptVars
  PROVE  ScriptInv'
<1>1. UNCHANGED <<pageVars, parsed, ran, loader, chain, missed>>
  BY DEF scriptVars
<1>2. /\ Positions' = Positions /\ Held' = Held /\ \A i : Becomes(i)' = Becomes(i)
  BY <1>1, PageRests
<1>3. (\A i : Over(i)' = Over(i)) /\ DocumentOrder' = DocumentOrder
  BY <1>1, NoneRuns
<1>4. ScriptTypes' /\ Parsed' /\ Drained'
  BY <1>1, <1>2, <1>3 DEF ScriptInv, ScriptTypes, Parsed, Drained, pageVars
<1>5. Chained'
  BY <1>1, <1>2, <1>3 DEF ScriptInv, Chained, pageVars
<1> QED
  BY <1>3, <1>4, <1>5 DEF ScriptInv

LEMMA ScriptsBegin ==
  ASSUME NEW page \in Seq(ScriptKind), NEW m \in Modes \cup {"none"}, NEW data \in BOOLEAN,
         ScriptInit(page, m, data)
  PROVE  ScriptInv
<1>1. /\ scripts = page /\ mode = m /\ strict = data /\ parsed = 0 /\ ran = <<>> /\ missed = {}
      /\ loader \in {"coming", "none"} /\ chain = [at |-> 0, failed |-> FALSE]
  BY DEF ScriptInit
<1>2. ScriptTypes
  BY <1>1 DEF ScriptTypes, Loaders, Modes, Positions
<1>3. \A i : ~Over(i)
  BY <1>1 DEF Over, Ran
<1>4. Parsed /\ Drained /\ Chained
  BY <1>1, <1>3 DEF Parsed, Drained, Chained
<1>5. DocumentOrder
  BY <1>1 DEF DocumentOrder
<1> QED
  BY <1>2, <1>4, <1>5 DEF ScriptInv

-----------------------------------------------------------------------------
(***************************************************************************)
(* The sheets                                                              *)
(***************************************************************************)
Edition == 0..MaxEdits
File == [edition : Edition, state : {"none", "empty", "emptied", "short", "whole"}]
Asked == [pc : {"start", "key", "fetch", "open", "write", "read", "done"},
          tier : {"none", "inline", "bundle"}, since : Edition, key : Edition, text : File]
PageServed == [tier : Tiers \cup {"none"}, text : File, since : Edition, key : Edition]

\* A file whose text is of no earlier edition than since, with every remote sheet in it.
Sound(file, since) == HasText(file) => file.state # "emptied" /\ file.edition >= since
Permitted(tier) == (tier = "inline" => MayInline) /\ (tier = "bundle" => MayBundle)

SheetTypes ==
    /\ sheets \in Seq(SheetKind) /\ css \in Css
    /\ edition \in Edition /\ transient \in {"none", "body", "empty"}
    /\ bundle \in [Edition -> File]
    /\ request \in [Requests -> Asked] /\ served \in [Requests -> PageServed]

RequestSound(q) ==
    /\ Permitted(q.tier)
    /\ q.since <= edition /\ q.key <= edition
    /\ q.pc \notin {"start", "done"} => q.tier # "none"
    /\ q.pc \in {"fetch", "open", "write", "read"} => q.since <= q.key
    /\ q.pc \in {"open", "write"} => q.text.state = "whole" /\ q.text.edition >= q.key

ServedSound(p) ==
    /\ Permitted(p.tier)
    /\ p.tier = "bundle" => p.since <= p.key
    /\ Sound(p.text, p.since)

SheetInv ==
    /\ SheetTypes
    /\ \A k \in Edition : Sound(bundle[k], k)
    /\ \A r \in Requests : RequestSound(request[r]) /\ ServedSound(served[r])

\* What the site has decided of a page stays while the page does.
LEMMA SettingsRest ==
  ASSUME UNCHANGED <<sheets, css>>
  PROVE  /\ \A t : Permitted(t)' <=> Permitted(t)
         /\ \A p : ServedSound(p)' <=> ServedSound(p)
         /\ edition' = edition => \A q : RequestSound(q)' <=> RequestSound(q)
<1>1. MayInline' = MayInline /\ MayBundle' = MayBundle
  BY DEF MayInline, MayBundle, CombineSafe, Main, Combinable, Places
<1>2. \A t : Permitted(t)' <=> Permitted(t)
  BY <1>1 DEF Permitted
<1>3. \A p : ServedSound(p)' <=> ServedSound(p)
  BY <1>2 DEF ServedSound
<1>4. edition' = edition => \A q : RequestSound(q)' <=> RequestSound(q)
  BY <1>2 DEF RequestSound
<1> QED
  BY <1>2, <1>3, <1>4

\* Each tier that is tried is one that the settings and the page allow.
LEMMA TiersPermitted ==
  ASSUME NEW t \in {"none", "inline", "bundle"}
  PROVE  /\ After(t) \in Tiers /\ Permitted(After(t))
         /\ After(t) \notin {"inline", "bundle"} => After(t) \in {"sheets", "origin"}
BY DEF After, Tiers, Permitted

LEMMA NoText ==
  /\ NoFile \in File /\ EmptyFile \in File
  /\ \A since : Sound(NoFile, since) /\ Sound(EmptyFile, since)
BY SheetAssumption DEF NoFile, EmptyFile, File, Edition, Sound, HasText

LEMMA FilesSound ==
  ASSUME SheetInv, NEW k \in Edition, NEW file \in File, Sound(file, k),
         bundle' = [bundle EXCEPT ![k] = file]
  PROVE  bundle' \in [Edition -> File] /\ \A j \in Edition : Sound(bundle'[j], j)
BY DEF SheetInv, SheetTypes

\* The step of request r.
LEMMA RequestMoves ==
  ASSUME SheetInv, NEW r \in Requests, NEW q \in Asked, RequestSound(q),
         request' = [request EXCEPT ![r] = q],
         \/ UNCHANGED served
         \/ \E p \in PageServed : ServedSound(p) /\ served' = [served EXCEPT ![r] = p],
         UNCHANGED <<sheets, css, edition>>, transient' \in {"none", "body", "empty"},
         bundle' \in [Edition -> File], \A j \in Edition : Sound(bundle'[j], j)
  PROVE  SheetInv'
<1>1. /\ \A p : ServedSound(p)' <=> ServedSound(p)
      /\ \A x : RequestSound(x)' <=> RequestSound(x)
  BY SettingsRest
<1>2. request' \in [Requests -> Asked] /\ \A s \in Requests : RequestSound(request'[s])
  BY DEF SheetInv, SheetTypes
<1>3. served' \in [Requests -> PageServed] /\ \A s \in Requests : ServedSound(served'[s])
  <2>1. CASE UNCHANGED served
    BY <2>1 DEF SheetInv, SheetTypes
  <2>2. CASE \E p \in PageServed : ServedSound(p) /\ served' = [served EXCEPT ![r] = p]
    BY <2>2 DEF SheetInv, SheetTypes
  <2> QED
    BY <2>1, <2>2
<1>4. SheetTypes'
  BY <1>2, <1>3 DEF SheetInv, SheetTypes
<1>5. \A j \in Edition : Sound(bundle[j], j)'
  BY DEF Sound, HasText
<1>6. \A s \in Requests : RequestSound(request[s])' /\ ServedSound(served[s])'
  BY <1>1, <1>2, <1>3
<1> QED
  BY <1>4, <1>5, <1>6 DEF SheetInv

LEMMA Serves ==
  ASSUME SheetInv, NEW r \in Requests, NEW t \in Tiers, NEW text \in File,
         Permitted(t), t = "bundle" => request[r].since <= request[r].key,
         Sound(text, request[r].since), Serve(r, t, text)
  PROVE  /\ \E q \in Asked : RequestSound(q) /\ request' = [request EXCEPT ![r] = q]
         /\ \E p \in PageServed : ServedSound(p) /\ served' = [served EXCEPT ![r] = p]
<1> DEFINE q == [request[r] EXCEPT !.pc = "done"]
           p == [tier |-> t, text |-> text, since |-> request[r].since, key |-> request[r].key]
<1>1. request[r] \in Asked /\ RequestSound(request[r])
  BY DEF SheetInv, SheetTypes
<1>2. /\ q \in Asked /\ q.pc = "done" /\ q.tier = request[r].tier
      /\ q.since = request[r].since /\ q.key = request[r].key
  BY <1>1 DEF Asked
<1>3. request' = [request EXCEPT ![r] = q]
  BY DEF Serve, Goto
<1>4. /\ p \in PageServed /\ p.tier = t /\ p.text = text
      /\ p.since = request[r].since /\ p.key = request[r].key
  BY <1>1 DEF PageServed, Asked
<1>5. served' = [served EXCEPT ![r] = p]
  BY DEF Serve
<1> HIDE DEF q, p
<1>6. RequestSound(q)
  BY <1>1, <1>2 DEF RequestSound
<1>7. ServedSound(p)
  BY <1>4 DEF ServedSound
<1> QED
  BY <1>2, <1>3, <1>4, <1>5, <1>6, <1>7

LEMMA Tries ==
  ASSUME SheetInv, NEW r \in Requests, NoBundle(r)
  PROVE  /\ \E q \in Asked : RequestSound(q) /\ request' = [request EXCEPT ![r] = q]
         /\ \/ UNCHANGED served
            \/ \E p \in PageServed : ServedSound(p) /\ served' = [served EXCEPT ![r] = p]
<1> DEFINE t == request[r].tier
           n == After(t)
           q == [[request[r] EXCEPT !.pc = "key"] EXCEPT !.tier = n]
<1>1. request[r] \in Asked /\ RequestSound(request[r]) /\ t \in {"none", "inline", "bundle"}
  BY DEF SheetInv, SheetTypes, Asked
<1>2. /\ n \in Tiers /\ Permitted(n)
      /\ n \notin {"inline", "bundle"} => n \in {"sheets", "origin"}
  BY <1>1, TiersPermitted
<1>3. Try(r, t)
  BY DEF NoBundle
<1> HIDE DEF t, n
<1>4. CASE n \in {"inline", "bundle"}
  <2>1. /\ q \in Asked /\ q.pc = "key" /\ q.tier = n
        /\ q.since = request[r].since /\ q.key = request[r].key
    BY <1>1, <1>4 DEF Asked
  <2>2. request' = [request EXCEPT ![r] = q] /\ UNCHANGED served
    BY <1>1, <1>3, <1>4 DEF Try, n
  <2> HIDE DEF q
  <2>3. RequestSound(q)
    BY <1>1, <1>2, <1>4, <2>1 DEF RequestSound
  <2> QED
    BY <2>1, <2>2, <2>3
<1>5. CASE n \notin {"inline", "bundle"}
  <2>1. Serve(r, n, NoFile)
    BY <1>3, <1>5 DEF Try, n
  <2> QED
    BY <1>2, <1>5, <2>1, NoText, Serves
<1> QED
  BY <1>4, <1>5

\* The requests that end without a bundle, whatever their step did to the files.
LEMMA GivesUp ==
  ASSUME SheetInv, NEW r \in Requests, NoBundle(r),
         UNCHANGED <<sheets, css, edition>>, transient' \in {"none", "body", "empty"},
         bundle' \in [Edition -> File], \A j \in Edition : Sound(bundle'[j], j)
  PROVE  SheetInv'
BY Tries, RequestMoves

LEMMA BeginGoes ==
  ASSUME SheetInv, NEW r \in Requests, Begin(r)
  PROVE  SheetInv'
<1> DEFINE n == After("none")
           q == [[[request[r] EXCEPT !.pc = "key"] EXCEPT !.tier = n] EXCEPT !.since = edition]
<1>1. /\ n \in Tiers /\ Permitted(n)
      /\ n \notin {"inline", "bundle"} => n \in {"sheets", "origin"}
  BY TiersPermitted
<1>2. request[r] \in Asked /\ RequestSound(request[r]) /\ edition \in Edition
  BY DEF SheetInv, SheetTypes
<1>3. UNCHANGED <<sheets, css, edition, transient, bundle>>
  BY DEF Begin
<1>4. /\ bundle' \in [Edition -> File] /\ \A j \in Edition : Sound(bundle'[j], j)
      /\ transient' \in {"none", "body", "empty"}
  BY <1>3 DEF SheetInv, SheetTypes
<1>5. CASE n \in {"inline", "bundle"}
  <2>1. request' = [request EXCEPT ![r] = q] /\ UNCHANGED served
    BY <1>2, <1>5 DEF Begin
  <2> HIDE DEF n
  <2>2. /\ q \in Asked /\ q.pc = "key" /\ q.tier = n
        /\ q.since = edition /\ q.key = request[r].key
    BY <1>2, <1>5 DEF Asked
  <2> HIDE DEF q
  <2>3. RequestSound(q)
    <3>1. edition <= edition
      BY <1>2, SheetAssumption DEF Edition
    <3> QED
      BY <1>1, <1>2, <1>5, <2>2, <3>1 DEF RequestSound
  <2> QED
    BY <1>3, <1>4, <2>1, <2>2, <2>3, RequestMoves
<1>6. CASE n \notin {"inline", "bundle"}
  <2>1. Serve(r, n, NoFile)
    BY <1>6 DEF Begin
  <2> HIDE DEF n
  <2> QED
    BY <1>1, <1>3, <1>4, <1>6, <2>1, NoText, Serves, RequestMoves
<1> QED
  BY <1>5, <1>6

LEMMA KeyGoes ==
  ASSUME SheetInv, NEW r \in Requests, Key(r)
  PROVE  SheetInv'
<1> DEFINE pc == IF bundle[edition].state = "none" THEN "fetch" ELSE "read"
           q == [[request[r] EXCEPT !.key = edition] EXCEPT !.pc = pc]
<1>1. request[r] \in Asked /\ RequestSound(request[r]) /\ edition \in Edition /\ request[r].pc = "key"
  BY DEF SheetInv, SheetTypes, Key
<1>2. UNCHANGED <<sheets, css, edition, transient, bundle, served>>
  BY DEF Key
<1>3. /\ bundle' \in [Edition -> File] /\ \A j \in Edition : Sound(bundle'[j], j)
      /\ transient' \in {"none", "body", "empty"}
  BY <1>2 DEF SheetInv, SheetTypes
<1>4. request' = [request EXCEPT ![r] = q] /\ pc \in {"fetch", "read"}
  BY <1>1 DEF Key, Version
<1> HIDE DEF pc
<1>5. /\ q \in Asked /\ q.pc = pc /\ q.tier = request[r].tier
      /\ q.since = request[r].since /\ q.key = edition
  BY <1>1, <1>4 DEF Asked
<1> HIDE DEF q
<1>6. RequestSound(q)
  <2>1. edition <= edition
    BY <1>1, SheetAssumption DEF Edition
  <2> QED
    BY <1>1, <1>4, <1>5, <2>1 DEF RequestSound
<1> QED
  BY <1>2, <1>3, <1>4, <1>5, <1>6, RequestMoves

LEMMA GatherGoes ==
  ASSUME SheetInv, NEW r \in Requests, request[r].pc = "fetch", NEW answer, Gather(r, answer),
         UNCHANGED <<sheets, css, edition, bundle>>, transient' \in {"none", "body", "empty"}
  PROVE  SheetInv'
<1> DEFINE text == [edition |-> edition, state |-> "whole"]
           q == [[request[r] EXCEPT !.pc = "open"] EXCEPT !.text = text]
<1>1. request[r] \in Asked /\ RequestSound(request[r]) /\ edition \in Edition
  BY DEF SheetInv, SheetTypes
<1>2. bundle' \in [Edition -> File] /\ \A j \in Edition : Sound(bundle'[j], j)
  BY DEF SheetInv, SheetTypes
<1>3. CASE Fetched(answer)
  <2>1. request' = [request EXCEPT ![r] = q] /\ UNCHANGED served
    BY <1>1, <1>3 DEF Gather, Fetched
  <2>2. text \in File /\ text.state = "whole" /\ text.edition = edition
    BY <1>1 DEF File
  <2> HIDE DEF text
  <2>3. /\ q \in Asked /\ q.pc = "open" /\ q.tier = request[r].tier /\ q.text = text
        /\ q.since = request[r].since /\ q.key = request[r].key
    BY <1>1, <2>2 DEF Asked
  <2> HIDE DEF q
  <2>4. q.text.edition >= q.key
    BY <1>1, <2>2, <2>3, SheetAssumption DEF RequestSound, Edition, Asked
  <2>5. RequestSound(q)
    BY <1>1, <2>2, <2>3, <2>4 DEF RequestSound
  <2> QED
    BY <1>2, <2>1, <2>3, <2>5, RequestMoves
<1>4. CASE ~Fetched(answer)
  BY <1>2, <1>4, GivesUp DEF Gather
<1> QED
  BY <1>3, <1>4

LEMMA FetchGoes ==
  ASSUME SheetInv, NEW r \in Requests, Fetch(r)
  PROVE  SheetInv'
<1>1. request[r].pc = "fetch" /\ UNCHANGED <<sheets, css, edition, bundle>>
  BY DEF Fetch
<1>2. /\ bundle' \in [Edition -> File] /\ \A j \in Edition : Sound(bundle'[j], j)
      /\ transient \in {"none", "body", "empty"}
  BY <1>1 DEF SheetInv, SheetTypes
<1>3. \/ Gather(r, "body") /\ transient' \in {"body", transient}
      \/ Gather(r, transient) /\ transient' = transient
      \/ NoBundle(r) /\ transient' = "empty"
  BY DEF Fetch
<1>4. CASE NoBundle(r) /\ transient' = "empty"
  BY <1>1, <1>2, <1>4, GivesUp
<1>5. CASE Gather(r, "body") /\ transient' \in {"body", transient}
  BY <1>1, <1>2, <1>5, GatherGoes
<1>6. CASE Gather(r, transient) /\ transient' = transient
  BY <1>1, <1>2, <1>6, GatherGoes
<1> QED
  BY <1>3, <1>4, <1>5, <1>6

LEMMA OpenGoes ==
  ASSUME SheetInv, NEW r \in Requests, Open(r)
  PROVE  SheetInv'
<1> DEFINE q == [request[r] EXCEPT !.pc = "write"]
<1>1. request[r] \in Asked /\ RequestSound(request[r]) /\ request[r].pc = "open"
  BY DEF SheetInv, SheetTypes, Open
<1>2. /\ UNCHANGED <<sheets, css, edition, transient, served>>
      /\ transient' \in {"none", "body", "empty"}
  BY DEF Open, SheetInv, SheetTypes
<1>3. request[r].key \in Edition /\ bundle' = [bundle EXCEPT ![request[r].key] = EmptyFile]
  BY <1>1 DEF Open, Asked
<1>4. bundle' \in [Edition -> File] /\ \A j \in Edition : Sound(bundle'[j], j)
  BY <1>3, NoText, FilesSound
<1>5. request' = [request EXCEPT ![r] = q]
  BY DEF Open, Goto
<1>6. /\ q \in Asked /\ q.pc = "write" /\ q.tier = request[r].tier /\ q.text = request[r].text
      /\ q.since = request[r].since /\ q.key = request[r].key
  BY <1>1 DEF Asked
<1> HIDE DEF q
<1>7. RequestSound(q)
  BY <1>1, <1>6 DEF RequestSound
<1> QED
  BY <1>2, <1>4, <1>5, <1>6, <1>7, RequestMoves

LEMMA WriteGoes ==
  ASSUME SheetInv, NEW r \in Requests, Write(r)
  PROVE  SheetInv'
<1> DEFINE q == [request[r] EXCEPT !.pc = "read"]
<1>1. request[r] \in Asked /\ RequestSound(request[r]) /\ request[r].pc = "write"
  BY DEF SheetInv, SheetTypes, Write
<1>2. /\ UNCHANGED <<sheets, css, edition, transient, served>>
      /\ transient' \in {"none", "body", "empty"}
  BY DEF Write, SheetInv, SheetTypes
<1>3. /\ request[r].key \in Edition /\ request[r].text \in File
      /\ Sound(request[r].text, request[r].key)
      /\ bundle' = [bundle EXCEPT ![request[r].key] = request[r].text]
  BY <1>1 DEF Write, Asked, RequestSound, Sound
<1>4. bundle' \in [Edition -> File] /\ \A j \in Edition : Sound(bundle'[j], j)
  BY <1>3, FilesSound
<1>5. request' = [request EXCEPT ![r] = q]
  BY DEF Write, Goto
<1>6. /\ q \in Asked /\ q.pc = "read" /\ q.tier = request[r].tier
      /\ q.since = request[r].since /\ q.key = request[r].key
  BY <1>1 DEF Asked
<1> HIDE DEF q
<1>7. RequestSound(q)
  BY <1>1, <1>6 DEF RequestSound
<1> QED
  BY <1>2, <1>4, <1>5, <1>6, <1>7, RequestMoves

LEMMA WriteFailsGoes ==
  ASSUME SheetInv, NEW r \in Requests, WriteFails(r)
  PROVE  SheetInv'
<1> DEFINE short == [request[r].text EXCEPT !.state = "short"]
<1>1. request[r] \in Asked /\ RequestSound(request[r]) /\ request[r].pc = "write"
  BY DEF SheetInv, SheetTypes, WriteFails
<1>2. request[r].text \in File /\ request[r].text.edition >= request[r].key /\ request[r].key \in Edition
  BY <1>1 DEF Asked, RequestSound
<1>3. short \in File /\ short.state = "short" /\ short.edition = request[r].text.edition
  BY <1>2 DEF File
<1>4. /\ UNCHANGED <<sheets, css, edition, transient>> /\ NoBundle(r)
      /\ bundle' = [bundle EXCEPT ![request[r].key] = short]
  BY DEF WriteFails
<1> HIDE DEF short
<1>5. bundle' \in [Edition -> File] /\ \A j \in Edition : Sound(bundle'[j], j)
  BY <1>2, <1>3, <1>4, FilesSound DEF Sound
<1>6. transient' \in {"none", "body", "empty"}
  BY <1>4 DEF SheetInv, SheetTypes
<1> QED
  BY <1>4, <1>5, <1>6, GivesUp

LEMMA ReadGoes ==
  ASSUME SheetInv, NEW r \in Requests, Read(r)
  PROVE  SheetInv'
<1> DEFINE file == bundle[request[r].key]
           tier == request[r].tier
           text == IF tier = "inline" THEN file ELSE NoFile
<1>1. /\ request[r] \in Asked /\ RequestSound(request[r]) /\ request[r].pc = "read"
      /\ request[r].since <= request[r].key
  BY DEF SheetInv, SheetTypes, Read, RequestSound
<1>2. /\ UNCHANGED <<sheets, css, edition, transient, bundle>>
      /\ transient' \in {"none", "body", "empty"}
      /\ bundle' \in [Edition -> File] /\ \A j \in Edition : Sound(bundle'[j], j)
  BY DEF Read, SheetInv, SheetTypes
<1>3. NoBundle(r) \/ Serve(r, tier, text)
  BY DEF Read
<1>4. /\ request[r].key \in Edition /\ request[r].since \in Edition
      /\ tier \in {"inline", "bundle"} /\ Permitted(tier)
  BY <1>1 DEF Asked, RequestSound
<1>5. file \in File /\ Sound(file, request[r].key)
  BY <1>4 DEF SheetInv, SheetTypes
<1> HIDE DEF tier
<1>6. text \in File /\ Sound(text, request[r].since)
  <2>1. CASE tier = "inline"
    <3>1. text = file
      BY <2>1
    <3> HIDE DEF file, text
    <3>2. file.edition \in Nat /\ request[r].key \in Nat /\ request[r].since \in Nat
      BY <1>4, <1>5, SheetAssumption DEF Edition, File
    <3>3. Sound(file, request[r].since)
      BY <1>1, <1>5, <3>2 DEF Sound
    <3> QED
      BY <1>5, <3>1, <3>3
  <2>2. CASE tier # "inline"
    BY <2>2, NoText
  <2> QED
    BY <2>1, <2>2
<1> HIDE DEF file, text
<1>7. CASE NoBundle(r)
  BY <1>2, <1>7, GivesUp
<1>8. CASE Serve(r, tier, text)
  <2>1. tier \in Tiers
    BY <1>4 DEF Tiers
  <2>2. /\ \E q \in Asked : RequestSound(q) /\ request' = [request EXCEPT ![r] = q]
        /\ \E p \in PageServed : ServedSound(p) /\ served' = [served EXCEPT ![r] = p]
    BY <1>1, <1>4, <1>6, <1>8, <2>1, Serves
  <2> QED
    BY <1>2, <2>2, RequestMoves
<1> QED
  BY <1>3, <1>7, <1>8

LEMMA SheetsLinger ==
  ASSUME SheetInv, UNCHANGED <<sheets, css, bundle, request, served>>,
         edition' \in Edition, edition <= edition', transient' \in {"none", "body", "empty"}
  PROVE  SheetInv'
<1>1. SheetTypes' /\ \A k \in Edition : Sound(bundle[k], k)'
  BY DEF SheetInv, SheetTypes, Sound, HasText
<1>2. ASSUME NEW r \in Requests
      PROVE  RequestSound(request[r])' /\ ServedSound(served[r])'
  <2> DEFINE q == request[r]
             p == served[r]
  <2>1. q \in Asked /\ RequestSound(q) /\ ServedSound(p) /\ q' = q /\ p' = p
    BY DEF SheetInv, SheetTypes
  <2>2. \A t : Permitted(t)' <=> Permitted(t)
    BY SettingsRest
  <2>3. /\ q.since \in Nat /\ q.key \in Nat /\ edition \in Nat /\ edition' \in Nat
    BY <2>1, SheetAssumption DEF Asked, Edition, SheetInv, SheetTypes
  <2> HIDE DEF q, p
  <2>4. q.since <= edition' /\ q.key <= edition'
    BY <2>1, <2>3 DEF RequestSound
  <2>5. RequestSound(q)'
    BY <2>1, <2>2, <2>4 DEF RequestSound
  <2>6. ServedSound(p)'
    BY <2>1, <2>2 DEF ServedSound, Sound, HasText
  <2> QED
    BY <2>5, <2>6 DEF q, p
<1> QED
  BY <1>1, <1>2 DEF SheetInv

LEMMA SheetsStep ==
  ASSUME SheetInv, SheetNext
  PROVE  SheetInv'
<1>1. ASSUME NEW r \in Requests, Build(r) \/ WriteFails(r)
      PROVE  SheetInv'
  BY <1>1, BeginGoes, KeyGoes, FetchGoes, OpenGoes, WriteGoes, ReadGoes, WriteFailsGoes DEF Build
<1>2. /\ edition \in Edition /\ transient \in {"none", "body", "empty"} /\ edition <= edition
  BY SheetAssumption DEF SheetInv, SheetTypes, Edition
<1>3. ASSUME NEW i \in Places, Loads(i) \/ LoadFails(i) \/ Rescue(i)
      PROVE  SheetInv'
  <2>1. UNCHANGED <<sheets, css, edition, transient, bundle, request, served>>
    BY <1>3 DEF Loads, LoadFails, Rescue, SetLink
  <2> QED
    BY <1>2, <2>1, SheetsLinger
<1>4. CASE Edit
  <2>1. edition' \in Edition /\ edition <= edition'
    BY <1>2, <1>4, SheetAssumption DEF Edit, Edition
  <2>2. UNCHANGED <<sheets, css, transient, bundle, request, served>>
    BY <1>4 DEF Edit
  <2> QED
    BY <1>2, <2>1, <2>2, SheetsLinger
<1>5. CASE Expire
  <2>1. UNCHANGED <<sheets, css, edition, bundle, request, served>> /\ transient' = "none"
    BY <1>5 DEF Expire
  <2> QED
    BY <1>2, <2>1, SheetsLinger
<1> QED
  BY <1>1, <1>3, <1>4, <1>5 DEF SheetNext

LEMMA SheetsRest ==
  ASSUME SheetInv, UNCHANGED sheetVars
  PROVE  SheetInv'
<1>1. /\ edition \in Edition /\ transient \in {"none", "body", "empty"} /\ edition <= edition
  BY SheetAssumption DEF SheetInv, SheetTypes, Edition
<1>2. UNCHANGED <<sheets, css, edition, transient, bundle, request, served>>
  BY DEF sheetVars
<1> QED
  BY <1>1, <1>2, SheetsLinger

LEMMA SheetsBegin ==
  ASSUME NEW page \in Seq(SheetKind), NEW settings \in Css, NEW policy,
         SheetInit(page, settings, policy)
  PROVE  SheetInv
<1> DEFINE q == [pc |-> IF page = <<>> THEN "done" ELSE "start", tier |-> "none",
                 since |-> 0, key |-> 0, text |-> NoFile]
<1>1. 0 \in Edition /\ 0 <= 0
  BY SheetAssumption DEF Edition
<1>2. q \in Asked /\ NoPage \in PageServed
  BY <1>1, NoText DEF Asked, PageServed, NoPage
<1>3. /\ request = [r \in Requests |-> q] /\ served = [r \in Requests |-> NoPage]
      /\ sheets = page /\ css = settings /\ edition = 0 /\ transient = "none"
      /\ bundle = [k \in Edition |-> NoFile]
  BY DEF SheetInit, Edition
<1>4. RequestSound(q)
  BY <1>1, <1>3 DEF RequestSound, Permitted
<1>5. ServedSound(NoPage)
  BY NoText DEF ServedSound, NoPage, Permitted
<1> HIDE DEF q
<1>6. SheetTypes
  BY <1>1, <1>2, <1>3, NoText DEF SheetTypes
<1> QED
  BY <1>3, <1>4, <1>5, <1>6, NoText DEF SheetInv

LEMMA SheetsWhole ==
  ASSUME SheetInv
  PROVE  WholeSheets
<1> DEFINE text(r) == IF served[r].tier = "bundle" THEN bundle[served[r].key] ELSE served[r].text
<1>1. ASSUME NEW r \in Requests
      PROVE  Sound(text(r), served[r].since)
  <2>1. served[r] \in PageServed /\ ServedSound(served[r]) /\ bundle \in [Edition -> File]
    BY DEF SheetInv, SheetTypes
  <2>2. CASE served[r].tier = "bundle"
    <3>1. /\ served[r].key \in Edition /\ text(r) = bundle[served[r].key]
          /\ Sound(text(r), served[r].key) /\ served[r].since <= served[r].key
      BY <2>1, <2>2 DEF PageServed, SheetInv, ServedSound
    <3>2. text(r).edition \in Nat /\ served[r].key \in Nat /\ served[r].since \in Nat
      BY <2>1, <3>1, SheetAssumption DEF PageServed, File, Edition
    <3> QED
      BY <3>1, <3>2 DEF Sound
  <2>3. CASE served[r].tier # "bundle"
    BY <2>1, <2>3 DEF ServedSound
  <2> QED
    BY <2>2, <2>3
<1> QED
  BY <1>1 DEF WholeSheets, Sound

\* One block of rules, at the place of the first of its sheets.
LEMMA BlockKeepsOrder ==
  ASSUME SheetInv, CombineSafe, Main # {}, NEW t,
         NEW i \in Main \cup {k \in Places : sheets[k] = "style"},
         NEW j \in Main \cup {k \in Places : sheets[k] = "style"}, i < j
  PROVE  \/ Place(t, i) < Place(t, j)
         \/ Place(t, i) = Place(t, j) /\ {i, j} \subseteq Main
<1> DEFINE f == First(Main)
<1>1. Places \subseteq Nat /\ Main \subseteq Places /\ Main \subseteq Combinable
  BY DEF SheetInv, SheetTypes, Places, Main, Combinable
<1>2. f \in Main /\ \A k \in Main : f <= k
  <2>1. \E k \in Main : \A l \in Main : k <= l
    BY <1>1, Least
  <2> QED
    BY <2>1 DEF First
<1>3. \A k \in Main : sheets[k] # "style"
  BY DEF Main, Combinable
<1>4. \A k : Place(t, k) = IF t \in {"inline", "bundle"} /\ k \in Main THEN f ELSE k
  BY DEF Place
<1> HIDE DEF f
<1>5. i \in Nat /\ j \in Nat /\ f \in Nat
  BY <1>1, <1>2
<1>6. CASE t \notin {"inline", "bundle"}
  BY <1>4, <1>6
<1>7. CASE i \in Main /\ j \in Main
  BY <1>4, <1>7
<1>8. CASE i \in Main /\ j \notin Main
  BY <1>2, <1>4, <1>5, <1>8
<1>9. CASE i \notin Main /\ j \in Main
  <2>1. i \in Places /\ sheets[i] = "style" /\ i # f
    BY <1>2, <1>3, <1>9
  <2>2. ~(f < i)
    BY <1>1, <1>2, <1>9, <2>1 DEF CombineSafe
  <2>3. i < f
    BY <1>5, <2>1, <2>2
  <2> QED
    BY <1>4, <1>9, <2>3
<1>10. CASE i \notin Main /\ j \notin Main
  BY <1>4, <1>10
<1> QED
  BY <1>7, <1>8, <1>9, <1>10

LEMMA SheetsKeepOrder ==
  ASSUME SheetInv
  PROVE  CascadeKept
<1> SUFFICES ASSUME NEW r \in Requests, NEW t, t = served[r].tier,
                    NEW i \in Main \cup {k \in Places : sheets[k] = "style"},
                    NEW j \in Main \cup {k \in Places : sheets[k] = "style"}, i < j
             PROVE  \/ Place(t, i) < Place(t, j)
                    \/ Place(t, i) = Place(t, j) /\ {i, j} \subseteq Main
  BY DEF CascadeKept
<1>1. Permitted(t)
  BY DEF SheetInv, ServedSound
<1>2. CASE t \in {"inline", "bundle"}
  <2>1. CombineSafe /\ Main # {}
    <3>1. CASE t = "inline"
      BY <1>1, <3>1 DEF Permitted, MayInline
    <3>2. CASE t = "bundle"
      BY <1>1, <3>2, FS_EmptySet DEF Permitted, MayBundle
    <3> QED
      BY <1>2, <3>1, <3>2
  <2> QED
    BY <2>1, BlockKeepsOrder
<1>3. CASE t \notin {"inline", "bundle"}
  BY <1>3 DEF Place
<1> QED
  BY <1>2, <1>3

-----------------------------------------------------------------------------
(***************************************************************************)
(* The images                                                              *)
(***************************************************************************)
ImageInv ==
    /\ images \in Seq(ImageKind) /\ media \in Media
    /\ measured \in 0..Len(images) /\ DOMAIN shows = Spots
    /\ \A i \in Spots : ~Blurred(i) /\ ~Waits(i) => shows[i] = "page"

LEMMA StagesRest ==
  ASSUME UNCHANGED <<images, media, measured>>
  PROVE  Spots' = Spots /\ \A i : Blurred(i)' = Blurred(i) /\ Waits(i)' = Waits(i)
<1>1. Spots' = Spots /\ Imgs' = Imgs /\ Backgrounds' = Backgrounds
  BY DEF Spots, Imgs, Backgrounds
<1>2. Guessed' = Guessed
  BY <1>1 DEF Guessed
<1>3. \A i : Urgent(i)' = Urgent(i) /\ Offloaded(i)' = Offloaded(i)
  BY <1>1, <1>2 DEF Urgent, Offloaded
<1> QED
  BY <1>1, <1>3 DEF Blurred, Waits

LEMMA ImagesStep ==
  ASSUME ImageInv, ImageNext
  PROVE  ImageInv'
<1>1. PICK i \in Spots : Approach(i) \/ Arrives(i) \/ Fails(i)
  BY DEF ImageNext
<1>2. /\ UNCHANGED <<images, media, measured>> /\ shows[i] # "page"
      /\ \E state : shows' = [shows EXCEPT ![i] = state]
  BY <1>1 DEF Approach, Arrives, Fails, Show
<1>3. PICK state : shows' = [shows EXCEPT ![i] = state]
  BY <1>2
<1>4. Spots' = Spots /\ \A j : Blurred(j)' = Blurred(j) /\ Waits(j)' = Waits(j)
  BY <1>2, StagesRest
<1>5. DOMAIN shows' = Spots /\ \A j \in Spots : j # i => shows'[j] = shows[j]
  BY <1>3 DEF ImageInv
<1>6. ASSUME NEW j \in Spots, ~Blurred(j), ~Waits(j)
      PROVE  shows'[j] = "page"
  BY <1>2, <1>5, <1>6 DEF ImageInv
<1> QED
  BY <1>2, <1>4, <1>5, <1>6 DEF ImageInv

LEMMA ImagesRest ==
  ASSUME ImageInv, UNCHANGED imageVars
  PROVE  ImageInv'
<1>1. UNCHANGED <<images, media, measured, shows>>
  BY DEF imageVars
<1>2. Spots' = Spots /\ \A j : Blurred(j)' = Blurred(j) /\ Waits(j)' = Waits(j)
  BY <1>1, StagesRest
<1> QED
  BY <1>1, <1>2 DEF ImageInv

LEMMA ImagesBegin ==
  ASSUME NEW page \in Seq(ImageKind), NEW settings \in Media, NEW policy,
         ImageInit(page, settings, policy)
  PROVE  ImageInv
<1>1. images = page /\ media = settings /\ measured \in {0} \cup 1..Len(page) /\ Len(page) \in Nat
  BY DEF ImageInit
<1>2. shows = [i \in Spots |-> IF Blurred(i) \/ Waits(i) THEN "placeholder" ELSE "page"]
  BY DEF ImageInit
<1>3. DOMAIN shows = Spots /\ \A i \in Spots : ~Blurred(i) /\ ~Waits(i) => shows[i] = "page"
  BY <1>2
<1>4. measured \in 0..Len(images)
  BY <1>1
<1> QED
  BY <1>1, <1>3, <1>4 DEF ImageInv

LEMMA OneIsUrgent ==
  ASSUME ImageInv
  PROVE  Cardinality({i \in Spots : Urgent(i)}) <= 1
<1> DEFINE U == {i \in Spots : Urgent(i)}
<1>1. ASSUME NEW x, U \subseteq {x}
      PROVE  Cardinality(U) <= 1
  <2> HIDE DEF U
  <2>1. CASE U = {}
    BY <2>1, FS_EmptySet
  <2>2. CASE U = {x}
    <3>1. Cardinality({x}) = 1
      BY FS_Singleton
    <3> QED
      BY <2>2, <3>1
  <2> QED
    BY <1>1, <2>1, <2>2
<1>2. CASE measured = 0
  <2>1. measured \notin Imgs
    BY <1>2 DEF Imgs, Spots
  <2> QED
    BY <1>1, <2>1 DEF Urgent
<1>3. CASE measured # 0
  <2>1. U \subseteq {measured}
    BY <1>3 DEF Urgent, Guessed
  <2> QED
    BY <1>1, <2>1
<1> QED
  BY <1>2, <1>3

LEMMA MeasuredFirst ==
  ASSUME ImageInv
  PROVE  MeasuredImageFirst
<1>1. ASSUME measured \in Imgs
      PROVE  /\ Urgent(measured) /\ ~Lazy(measured) /\ shows[measured] = "page"
             /\ <<measured, Target(measured)>> \in Preloads
  <2>1. Urgent(measured) /\ ~Lazy(measured) /\ ~Blurred(measured)
    BY <1>1 DEF Urgent, Lazy, Blurred
  <2>2. measured \in Spots /\ measured \notin Backgrounds /\ Guessed = {}
    BY <1>1 DEF Imgs, Backgrounds, Guessed, Spots
  <2>3. shows[measured] = "page"
    BY <2>1, <2>2 DEF ImageInv, Waits
  <2>4. Preloads = {<<measured, Target(measured)>>}
    BY <1>1, <2>2 DEF Preloads
  <2> QED
    BY <2>1, <2>3, <2>4
<1>2. ASSUME measured \in Backgrounds, ~Offloaded(measured)
      PROVE  shows[measured] = "page"
  <2>1. measured \in Spots /\ ~Waits(measured) /\ ~Blurred(measured)
    BY <1>2 DEF Backgrounds, Waits, Blurred, Imgs
  <2> QED
    BY <2>1 DEF ImageInv
<1> QED
  BY <1>1, <1>2, OneIsUrgent DEF MeasuredImageFirst

-----------------------------------------------------------------------------
(***************************************************************************)
(* The media CDN                                                           *)
(***************************************************************************)
\* What a place may hold: one that any browser is served from, or one for AVIF.
Right(plain, b) ==
    /\ b \in M!Bytes
    /\ plain => ~b.avif
    /\ M!Raster => b.derived

TaskOK(t) ==
    \/ t.op = "r2put" /\ t.key \in M!Key /\ Right(t.key = "main", t.val)
    \/ /\ t.op = "put" /\ t.colo \in Colo /\ t.variant \in M!Variant
       /\ t.val = M!Failure \/ Right(t.variant = "plain", t.val)
    \/ t.op = "delete" /\ t.colo \in Colo /\ t.variant \in M!Variant

Asking == {q \in [pc : {"match", "avif", "main", "fetch", "fill"}, colo : Colo,
                  variant : M!Variant] : q.pc = "avif" => q.variant = "avif"}
Working == [pc : {"read", "upload", "save"}, left : Nat \cup {None}]

ProcOK ==
    /\ DOMAIN proc = Getter \cup Worker
    /\ \A g \in Getter : proc[g] \in Asking \cup {M!Idle}
    /\ \A w \in Worker : proc[w] \in Working \cup {M!Idle}

CacheOK ==
    /\ cache \in [Colo -> [M!Variant -> M!Bytes \cup {M!Failure, None}]]
    /\ \A c \in Colo, variant \in M!Variant :
          cache[c][variant] \in {M!Failure, None} \/ Right(variant = "plain", cache[c][variant])

R2OK ==
    /\ r2 \in [M!Key -> M!Bytes \cup {None}]
    /\ \A key \in M!Key : r2[key] = None \/ Right(key = "main", r2[key])

TasksOK == \A t \in tasks : TaskOK(t)

MediaInv ==
    /\ asset \in M!Asset /\ queue \in Nat \cup {None}
    /\ ProcOK /\ CacheOK /\ R2OK /\ TasksOK

LEMMA FailureIsNoBytes == M!Failure \notin M!Bytes
<1>1. ASSUME M!Failure \in M!Bytes
      PROVE  FALSE
  <2>1. DOMAIN M!Failure = {"derived", "avif"}
    BY <1>1 DEF M!Bytes
  <2>2. DOMAIN M!Failure = {"failed"}
    BY DEF M!Failure
  <2> QED
    BY <2>1, <2>2
<1> QED
  BY <1>1

LEMMA MediaBegins == M!Init => MediaInv
  BY CdnAssumption DEF M!Init, MediaInv, ProcOK, CacheOK, R2OK, TasksOK, M!Idle

\* A request moves on; workers and other requests are where they were.
LEMMA ProcGoes ==
    ASSUME ProcOK, NEW a \in Getter \cup Worker, NEW q, proc' = [proc EXCEPT ![a] = q],
           a \in Getter => q \in Asking \cup {M!Idle}, a \in Worker => q \in Working \cup {M!Idle}
    PROVE  ProcOK'
<1>1. /\ DOMAIN proc' = Getter \cup Worker /\ proc'[a] = q
      /\ \A b \in (Getter \cup Worker) \ {a} : proc'[b] = proc[b]
  BY DEF ProcOK
<1> QED
  BY <1>1 DEF ProcOK

\* More deferred writes, of the asset that was asked for.
LEMMA TasksGrow ==
    ASSUME TasksOK, UNCHANGED asset, NEW T, tasks' = tasks \cup T, \A t \in T : TaskOK(t)
    PROVE  TasksOK'
<1>1. \A t \in tasks' : TaskOK(t)
  BY DEF TasksOK
<1> QED
  BY <1>1 DEF TasksOK, TaskOK, Right, M!Raster

LEMMA StoresRest ==
    ASSUME MediaInv, UNCHANGED <<asset, M!stores>>
    PROVE  CacheOK' /\ R2OK' /\ TasksOK'
  BY DEF MediaInv, M!stores, CacheOK, R2OK, TasksOK, TaskOK, Right, M!Raster

\* A request's step.
LEMMA GetterStep ==
    ASSUME MediaInv, NEW g \in Getter, M!Get(g) \/ M!Answer(g)
    PROVE  MediaInv'
<1> USE DEF M!At
<1>1. /\ asset \in M!Asset /\ ProcOK /\ CacheOK /\ R2OK /\ TasksOK
      /\ g \in Getter \cup Worker /\ g \notin Worker
      /\ proc[g] \in Asking \cup {M!Idle}
  BY CdnAssumption DEF MediaInv, ProcOK
<1>2. UNCHANGED <<asset, queue, cache, r2>>
  BY DEF M!Get, M!Answer, M!stores, M!Unverified, M!RangeHit, M!Match, M!AvifObject, M!MainObject, M!Object,
         M!Fetch, M!FillRaw, M!FillOriginal, M!Fill, M!Transcode, M!TranscodeFails, M!ImagesFails,
         M!PassOversize, M!Pass
<1>3. CacheOK' /\ R2OK'
  BY <1>1, <1>2 DEF CacheOK, R2OK, Right, M!Raster
<1>4. ASSUME ProcOK', TasksOK'
      PROVE  MediaInv'
  BY <1>2, <1>3, <1>4 DEF MediaInv
<1>5. ASSUME M!Rest(g)
      PROVE  ProcOK'
  BY <1>1, <1>5, ProcGoes DEF M!Rest
<1>6. ASSUME UNCHANGED tasks
      PROVE  TasksOK'
  BY <1>1, <1>2, <1>6 DEF TasksOK, TaskOK, Right, M!Raster
<1>7. CASE M!Get(g)
  <2>1. PICK c \in Colo, variant \in M!Variant :
            proc' = [proc EXCEPT ![g] = [pc |-> "match", colo |-> c, variant |-> variant]]
    BY <1>7 DEF M!Get, M!Variant
  <2>2. [pc |-> "match", colo |-> c, variant |-> variant] \in Asking
    BY DEF Asking
  <2>3. ProcOK'
    BY <1>1, <2>1, <2>2, ProcGoes
  <2> QED
    BY <1>4, <1>6, <1>7, <2>3 DEF M!Get, M!stores
<1>8. CASE M!Unverified(g) \/ M!RangeHit(g) \/ M!TranscodeFails(g) \/ M!ImagesFails(g) \/ M!PassOversize(g)
  <2>1. M!Rest(g) /\ UNCHANGED tasks
    BY <1>8 DEF M!Unverified, M!RangeHit, M!TranscodeFails, M!ImagesFails, M!PassOversize, M!Pass, M!stores
  <2> QED
    BY <1>4, <1>5, <1>6, <2>1
<1>9. ASSUME ~M!At(g, "idle")
      PROVE  proc[g] \in Asking /\ proc[g].colo \in Colo /\ proc[g].variant \in M!Variant
  BY <1>1, <1>9 DEF Asking, M!Idle
<1>10. CASE M!Match(g)
  <2>1. ~M!At(g, "idle") /\ UNCHANGED tasks
    BY <1>10 DEF M!Match, M!stores
  <2>2. CASE M!Rest(g)
    BY <1>4, <1>5, <1>6, <2>1, <2>2
  <2>3. CASE M!Goto(g, IF M!WantsAvif(g) THEN "avif" ELSE "main")
    <3>1. PICK pc \in {"avif", "main"} :
             proc' = [proc EXCEPT ![g].pc = pc] /\ (pc = "avif" => proc[g].variant = "avif")
      BY <2>3 DEF M!Goto, M!WantsAvif
    <3>2. [proc[g] EXCEPT !.pc = pc] \in Asking
      BY <1>9, <2>1, <3>1 DEF Asking
    <3>3. proc' = [proc EXCEPT ![g] = [proc[g] EXCEPT !.pc = pc]]
      BY <1>1, <3>1 DEF ProcOK
    <3>4. ProcOK'
      BY <1>1, <3>2, <3>3, ProcGoes
    <3> QED
      BY <1>4, <1>6, <2>1, <3>4
  <2> QED
    BY <1>10, <2>2, <2>3, Zenon DEF M!Match
<1>11. ASSUME NEW key \in M!Key, NEW otherwise \in {"main", "fetch"}, M!Object(g, key, otherwise),
              key = "avif" => proc[g].pc = "avif"
       PROVE  MediaInv'
  <2>1. ~M!At(g, "idle")
    BY <1>11 DEF M!Object, M!Key
  <2>2. CASE r2[key] # None
    <3>1. tasks' = tasks \cup {M!CachePut(g, r2[key])} /\ M!Rest(g)
      BY <1>11, <2>2 DEF M!Object
    <3>2. Right(key = "main", r2[key])
      BY <1>1, <2>2 DEF R2OK
    <3>3. key = "avif" => proc[g].variant = "avif"
      BY <1>9, <1>11, <2>1 DEF Asking
    <3>4. Right(proc[g].variant = "plain", r2[key])
      BY <3>2, <3>3 DEF Right, M!Key
    <3>5. TaskOK(M!CachePut(g, r2[key]))
      BY <1>9, <2>1, <3>4 DEF TaskOK, M!CachePut
    <3>6. TasksOK'
      BY <1>1, <1>2, <3>1, <3>5, TasksGrow
    <3> QED
      BY <1>4, <1>5, <3>1, <3>6
  <2>3. CASE r2[key] = None
    <3>1. proc' = [proc EXCEPT ![g].pc = otherwise] /\ UNCHANGED tasks
      BY <1>11, <2>3 DEF M!Object, M!Goto
    <3>2. [proc[g] EXCEPT !.pc = otherwise] \in Asking
      BY <1>9, <2>1 DEF Asking
    <3>3. proc' = [proc EXCEPT ![g] = [proc[g] EXCEPT !.pc = otherwise]]
      BY <1>1, <3>1 DEF ProcOK
    <3>4. ProcOK'
      BY <1>1, <3>2, <3>3, ProcGoes
    <3> QED
      BY <1>4, <1>6, <3>1, <3>4
  <2> QED
    BY <2>2, <2>3
<1>12. CASE M!AvifObject(g) \/ M!MainObject(g)
  <2>1. \/ M!Object(g, "avif", "main") /\ proc[g].pc = "avif"
        \/ M!Object(g, "main", "fetch")
    BY <1>12 DEF M!AvifObject, M!MainObject, M!Object
  <2> QED
    BY <1>11, <2>1 DEF M!Key
<1>13. CASE M!Fetch(g)
  <2>1. ~M!At(g, "idle")
    BY <1>13 DEF M!Fetch
  <2>2. CASE M!Goto(g, "fill") /\ UNCHANGED tasks
    <3>1. [proc[g] EXCEPT !.pc = "fill"] \in Asking
      BY <1>9, <2>1 DEF Asking
    <3>2. proc' = [proc EXCEPT ![g] = [proc[g] EXCEPT !.pc = "fill"]]
      BY <1>1, <2>2 DEF ProcOK, M!Goto
    <3>3. ProcOK'
      BY <1>1, <3>1, <3>2, ProcGoes
    <3> QED
      BY <1>4, <1>6, <2>2, <3>3
  <2>3. CASE M!Rest(g) /\ (UNCHANGED tasks \/ tasks' = tasks \cup {M!CachePut(g, M!Failure)})
    <3>1. TaskOK(M!CachePut(g, M!Failure))
      BY <1>9, <2>1 DEF TaskOK, M!CachePut
    <3>2. TasksOK'
      BY <1>1, <1>2, <1>6, <2>3, <3>1, TasksGrow
    <3> QED
      BY <1>4, <1>5, <2>3, <3>2
  <2> QED
    BY <1>13, <2>2, <2>3 DEF M!Fetch
<1>14. ASSUME NEW key \in M!Key, NEW b, M!Fill(g, key, b), Right(key = "main", b),
              Right(proc[g].variant = "plain", b)
       PROVE  MediaInv'
  <2>1. /\ ~M!At(g, "idle") /\ M!Rest(g)
        /\ tasks' = tasks \cup {M!R2Put(key, b), M!CachePut(g, b)}
    BY <1>14 DEF M!Fill
  <2>2. TaskOK(M!R2Put(key, b)) /\ TaskOK(M!CachePut(g, b))
    BY <1>9, <1>14, <2>1 DEF TaskOK, M!R2Put, M!CachePut
  <2>3. TasksOK'
    BY <1>1, <1>2, <2>1, <2>2, TasksGrow
  <2> QED
    BY <1>4, <1>5, <2>1, <2>3
<1>15. CASE M!FillRaw(g) \/ M!FillOriginal(g)
  <2>1. M!Fill(g, "main", M!Original) /\ ~M!Raster
    BY <1>15 DEF M!FillRaw, M!FillOriginal, M!Raster
  <2>2. \A plain \in BOOLEAN : Right(plain, M!Original)
    BY <2>1 DEF Right, M!Original, M!Bytes
  <2> QED
    BY <1>14, <2>1, <2>2 DEF M!Key
<1>16. CASE M!Transcode(g)
  <2>1. PICK key \in M!Key : /\ key = (IF M!WantsAvif(g) THEN "avif" ELSE "main")
                           /\ M!Fill(g, key, M!Derivative(g))
    BY <1>16 DEF M!Transcode, M!Key
  <2>2. M!Derivative(g) \in M!Bytes
    BY DEF M!Derivative, M!WantsAvif, M!Bytes
  <2>3. M!Derivative(g).derived /\ (M!Derivative(g).avif <=> proc[g].variant = "avif")
    BY DEF M!Derivative, M!WantsAvif
  <2>4. Right(key = "main", M!Derivative(g)) /\ Right(proc[g].variant = "plain", M!Derivative(g))
    BY <2>1, <2>2, <2>3 DEF Right, M!WantsAvif
  <2> QED
    BY <1>14, <2>1, <2>4
<1> QED
  BY <1>7, <1>8, <1>10, <1>12, <1>13, <1>15, <1>16 DEF M!Answer

\* A deferred write is made or lost; a colo forgets.
LEMMA WriteStep ==
    ASSUME MediaInv,
           \/ \E t \in tasks : M!Execute(t) \/ M!Lose(t)
           \/ \E c \in Colo, variant \in M!Variant : M!Evict(c, variant)
    PROVE  MediaInv'
<1>1. ProcOK /\ CacheOK /\ R2OK /\ TasksOK
  BY DEF MediaInv
<1>2. UNCHANGED <<asset, proc, queue>> /\ tasks' \subseteq tasks
  BY DEF M!Execute, M!Lose, M!Evict
<1>3. ProcOK' /\ TasksOK'
  BY <1>1, <1>2 DEF ProcOK, TasksOK, TaskOK, Right, M!Raster
<1>4. ASSUME NEW c \in Colo, NEW variant \in M!Variant, NEW v \in M!Bytes \cup {M!Failure, None},
             cache' = [cache EXCEPT ![c][variant] = v],
             v \in {M!Failure, None} \/ Right(variant = "plain", v)
      PROVE  CacheOK'
  <2>1. cache' \in [Colo -> [M!Variant -> M!Bytes \cup {M!Failure, None}]]
    BY <1>1, <1>4 DEF CacheOK
  <2>2. ASSUME NEW d \in Colo, NEW u \in M!Variant
        PROVE  cache'[d][u] = IF d = c /\ u = variant THEN v ELSE cache[d][u]
    BY <1>1, <1>4 DEF CacheOK
  <2>3. \A d \in Colo, u \in M!Variant :
            cache'[d][u] \in {M!Failure, None} \/ Right(u = "plain", cache'[d][u])
    BY <1>1, <1>4, <2>2 DEF CacheOK
  <2> QED
    BY <1>2, <2>1, <2>3 DEF CacheOK, Right, M!Raster
<1>5. ASSUME NEW t \in tasks, M!Execute(t)
      PROVE  CacheOK' /\ R2OK'
  <2>1. TaskOK(t)
    BY <1>1 DEF TasksOK
  <2>2. CASE t.op = "r2put"
    <3>1. r2' = [r2 EXCEPT ![t.key] = t.val] /\ cache' = cache
      BY <1>5, <2>2 DEF M!Execute
    <3>2. t.key \in M!Key /\ t.val \in M!Bytes /\ Right(t.key = "main", t.val)
      BY <2>1, <2>2 DEF TaskOK, Right
    <3>3. r2' \in [M!Key -> M!Bytes \cup {None}]
      BY <1>1, <3>1, <3>2 DEF R2OK
    <3>4. \A key \in M!Key : r2'[key] = None \/ Right(key = "main", r2'[key])
      BY <1>1, <3>1, <3>2 DEF R2OK
    <3> QED
      BY <1>1, <1>2, <3>1, <3>3, <3>4 DEF CacheOK, R2OK, Right, M!Raster
  <2>3. CASE t.op # "r2put"
    <3>1. /\ r2' = r2
          /\ cache' = [cache EXCEPT ![t.colo][t.variant] = IF t.op = "put" THEN t.val ELSE None]
      BY <1>5, <2>3 DEF M!Execute
    <3>2. t.colo \in Colo /\ t.variant \in M!Variant
      BY <2>1, <2>3 DEF TaskOK
    <3>3. PICK v : v = IF t.op = "put" THEN t.val ELSE None
      OBVIOUS
    <3>4. v \in {M!Failure, None} \/ Right(t.variant = "plain", v)
      BY <2>1, <2>3, <3>3 DEF TaskOK
    <3>5. v \in M!Bytes \cup {M!Failure, None}
      BY <3>4 DEF Right
    <3>6. CacheOK'
      BY <1>4, <3>1, <3>2, <3>3, <3>4, <3>5
    <3> QED
      BY <1>1, <1>2, <3>1, <3>6 DEF R2OK, Right, M!Raster
  <2> QED
    BY <2>2, <2>3
<1>6. ASSUME NEW t \in tasks, M!Lose(t)
      PROVE  CacheOK' /\ R2OK'
  BY <1>1, <1>2, <1>6 DEF M!Lose, CacheOK, R2OK, Right, M!Raster
<1>7. ASSUME NEW c \in Colo, NEW variant \in M!Variant, M!Evict(c, variant)
      PROVE  CacheOK' /\ R2OK'
  <2>1. CacheOK'
    BY <1>4, <1>7 DEF M!Evict
  <2> QED
    BY <1>1, <1>2, <1>7, <2>1 DEF M!Evict, R2OK, Right, M!Raster
<1> QED
  BY <1>2, <1>3, <1>5, <1>6, <1>7 DEF MediaInv

\* The plugin's queue and its worker. An upload replaces the object under the
\* requested key by a derivative, or by the file where there is none to make.
LEMMA WorkerStep ==
    ASSUME MediaInv, M!Enqueue \/ \E w \in Worker : M!Take(w) \/ M!Work(w)
    PROVE  MediaInv'
<1> USE DEF M!At
<1>1. /\ asset \in M!Asset /\ ProcOK /\ CacheOK /\ R2OK /\ TasksOK
      /\ queue \in Nat \cup {None}
  BY DEF MediaInv
<1>2. CASE M!Enqueue
  BY <1>1, <1>2, StoresRest DEF M!Enqueue, MediaInv, ProcOK
<1>3. ASSUME NEW w \in Worker, M!Take(w) \/ M!Work(w)
      PROVE  MediaInv'
  <2>1. /\ w \in Getter \cup Worker /\ w \notin Getter
        /\ proc[w] \in Working \cup {M!Idle}
    BY <1>1, CdnAssumption DEF ProcOK
  <2>2. ASSUME ~M!At(w, "idle")
        PROVE  proc[w] \in Working
    BY <2>1, <2>2 DEF M!Idle
  <2>3. ASSUME ~M!At(w, "idle"), NEW pc \in {"read", "upload", "save"}, M!Goto(w, pc)
        PROVE  ProcOK'
    <3>1. [proc[w] EXCEPT !.pc = pc] \in Working
      BY <2>2, <2>3 DEF Working
    <3>2. proc' = [proc EXCEPT ![w] = [proc[w] EXCEPT !.pc = pc]]
      BY <1>1, <2>1, <2>3 DEF ProcOK, M!Goto
    <3> QED
      BY <1>1, <2>1, <3>1, <3>2, ProcGoes
  <2>4. CASE M!Take(w)
    <3>1. PICK q \in Working : proc' = [proc EXCEPT ![w] = q]
      <4>1. queue \in Nat
        BY <1>1, <2>4 DEF M!Take
      <4>2. /\ [pc |-> "save", left |-> None] \in Working
            /\ [pc |-> "read", left |-> queue + 1] \in Working
        BY <4>1 DEF Working
      <4> QED
        BY <2>4, <4>2 DEF M!Take
    <3>2. ProcOK'
      BY <1>1, <2>1, <3>1, ProcGoes
    <3> QED
      BY <1>1, <2>4, <3>2, StoresRest DEF M!Take, MediaInv
  <2>5. CASE M!Read(w)
    <3>1. \E pc \in {"upload", "save"} : M!Goto(w, pc)
      BY <2>5 DEF M!Read, M!Goto
    <3>2. ProcOK'
      BY <2>3, <2>5, <3>1 DEF M!Read
    <3> QED
      BY <1>1, <2>5, <3>2, StoresRest DEF M!Read, MediaInv
  <2>6. CASE M!Upload(w)
    <3>1. UNCHANGED <<asset, cache, queue>> /\ ~M!At(w, "idle")
      BY <2>6 DEF M!Upload
    <3>2. ProcOK'
      <4>1. CASE M!Goto(w, "save")
        BY <2>3, <3>1, <4>1
      <4>2. CASE proc' = [proc EXCEPT ![w] = [pc |-> "save", left |-> None]]
        <5>1. [pc |-> "save", left |-> None] \in Working
          BY DEF Working
        <5> QED
          BY <1>1, <2>1, <4>2, <5>1, ProcGoes
      <4> QED
        BY <2>6, <4>1, <4>2 DEF M!Upload
    <3>3. CASE M!PutMedia
      <4>1. PICK c \in Colo : tasks' = tasks \cup {M!CacheDelete(c, variant) : variant \in M!Variant}
        BY <3>3 DEF M!PutMedia
      <4>2. \A t \in {M!CacheDelete(c, variant) : variant \in M!Variant} : TaskOK(t)
        BY DEF M!CacheDelete, TaskOK
      <4>3. TasksOK'
        BY <1>1, <3>1, <4>1, <4>2, TasksGrow
      <4>4. PICK b : b = [derived |-> M!Raster, avif |-> FALSE]
        OBVIOUS
      <4>5. Right(TRUE, b)
        <5>1. M!Raster \in BOOLEAN
          BY <1>1 DEF M!Asset, M!Raster
        <5>2. b \in M!Bytes /\ b.derived = M!Raster /\ b.avif = FALSE
          BY <4>4, <5>1 DEF M!Bytes
        <5> QED
          BY <5>2 DEF Right
      <4>6. r2' = r2 \/ r2' = [r2 EXCEPT !["main"] = b]
        BY <3>3, <4>4 DEF M!PutMedia
      <4>7. r2' \in [M!Key -> M!Bytes \cup {None}]
        BY <1>1, <4>5, <4>6 DEF R2OK, Right
      <4>8. \A key \in M!Key : r2'[key] = None \/ Right(key = "main", r2'[key])
        BY <1>1, <4>5, <4>6 DEF R2OK, Right
      <4>9. R2OK' /\ CacheOK'
        BY <1>1, <3>1, <4>7, <4>8 DEF R2OK, CacheOK, Right, M!Raster
      <4> QED
        BY <1>1, <3>1, <3>2, <4>3, <4>9 DEF MediaInv
    <3>4. CASE UNCHANGED <<r2, tasks>>
      BY <1>1, <3>1, <3>2, <3>4, StoresRest DEF MediaInv, M!stores
    <3> QED
      BY <2>6, <3>3, <3>4 DEF M!Upload, M!PutPublic
  <2>7. CASE M!Save(w)
    <3>1. proc[w] \in Working
      BY <2>2, <2>7 DEF M!Save
    <3>2. queue' \in Nat \cup {None}
      BY <2>7, <3>1 DEF M!Save, Working
    <3>3. ProcOK'
      BY <1>1, <2>1, <2>7, ProcGoes DEF M!Save, M!Rest
    <3> QED
      BY <1>1, <2>7, <3>2, <3>3, StoresRest DEF M!Save, MediaInv
  <2> QED
    BY <1>3, <2>4, <2>5, <2>6, <2>7 DEF M!Work
<1> QED
  BY <1>2, <1>3

LEMMA MediaRests ==
    ASSUME MediaInv, UNCHANGED M!vars
    PROVE  MediaInv'
  BY StoresRest DEF M!vars, M!stores, MediaInv, ProcOK

LEMMA MediaStep ==
    ASSUME MediaInv, M!Next
    PROVE  MediaInv'
  BY GetterStep, WriteStep, WorkerStep DEF M!Next

-----------------------------------------------------------------------------
(***************************************************************************)
(* The theorems                                                            *)
(***************************************************************************)
VisitInv == ScriptInv /\ SheetInv /\ ImageInv /\ MediaInv

LEMMA PagesTyped ==
  ASSUME NEW page \in Pages
  PROVE  /\ page.scripts \in Seq(ScriptKind) /\ page.sheets \in Seq(SheetKind)
         /\ page.images \in Seq(ImageKind)
<1>1. /\ page.scripts \in Seq(Scripts) /\ page.sheets \in Seq(SheetKind)
      /\ page.images \in Seq(ImageKinds)
  BY PageAssumption
<1>2. \A S, T : S \subseteq T => Seq(S) \subseteq Seq(T)
  OBVIOUS
<1>3. Seq(Scripts) \subseteq Seq(ScriptKind) /\ Seq(ImageKinds) \subseteq Seq(ImageKind)
  BY <1>2, ScriptAssumption, ImageAssumption
<1> QED
  BY <1>1, <1>3

LEMMA PageBegins ==
  ASSUME Init \/ Blank
  PROVE  ScriptInv /\ SheetInv /\ ImageInv
<1>1. CASE Blank
  <2>1. <<>> \in Seq(ScriptKind) /\ <<>> \in Seq(SheetKind) /\ <<>> \in Seq(ImageKind)
    OBVIOUS
  <2>2. CssOff \in Css
    BY DEF CssOff, Css
  <2>3. [offload |-> FALSE, optimize |-> FALSE, blur |-> FALSE, backgrounds |-> FALSE] \in Media
    BY DEF Media
  <2> QED
    BY <1>1, <2>1, <2>2, <2>3, ScriptsBegin, SheetsBegin, ImagesBegin DEF Blank
<1>2. CASE Init
  <2> DEFINE Opens(page, kept) ==
          /\ \E m \in IF "scripts" \in kept THEN Modes ELSE {"none"},
                data \in IF "scripts" \in kept THEN BOOLEAN ELSE {FALSE} :
                 ScriptInit(page.scripts, m, data)
          /\ \E policy \in IF page.sheets = <<>> /\ page.images = <<>> THEN {"none"} ELSE
                         IF page.sheets = <<>> THEN {"none", "inline"} ELSE Csp :
              /\ \E c \in IF "critical_css" \in kept THEN Settings ELSE {CssOff} :
                     SheetInit(page.sheets, c, policy)
              /\ \E blur \in IF {"offload", "media"} \subseteq kept THEN BOOLEAN ELSE {FALSE} :
                     ImageInit(page.images,
                               [offload |-> "offload" \in kept, optimize |-> "media" \in kept,
                                blur |-> blur, backgrounds |-> "bg_lazyload" \in kept],
                               policy # "inline")
  <2>1. PICK page \in Pages : \E kept \in Kept(page) : Opens(page, kept)
    BY <1>2, Zenon DEF Init
  <2>2. PICK kept : Opens(page, kept)
    BY <2>1, Zenon
  <2>3. PICK m \in Modes \cup {"none"}, data \in BOOLEAN : ScriptInit(page.scripts, m, data)
    BY <2>2
  <2>4. ScriptInv
    BY <2>3, PagesTyped, ScriptsBegin
  <2>5. SheetInv
    <3>1. PICK policy, c :
            /\ c \in IF "critical_css" \in kept THEN Settings ELSE {CssOff}
            /\ SheetInit(page.sheets, c, policy)
      BY <2>2, Zenon
    <3>2. CssOff \in Css
      BY DEF CssOff, Css
    <3>3. c \in Css
      BY <3>1, <3>2, PageAssumption
    <3> QED
      BY <3>1, <3>3, PagesTyped, SheetsBegin
  <2>6. PICK settings \in Media, runs \in BOOLEAN : ImageInit(page.images, settings, runs)
    <3>1. PICK policy, blur :
            /\ blur \in IF {"offload", "media"} \subseteq kept THEN BOOLEAN ELSE {FALSE}
            /\ ImageInit(page.images,
                         [offload |-> "offload" \in kept, optimize |-> "media" \in kept,
                          blur |-> blur, backgrounds |-> "bg_lazyload" \in kept],
                         policy # "inline")
      BY <2>2, Zenon
    <3>2. blur \in BOOLEAN
      BY <3>1
    <3>3. [offload |-> "offload" \in kept, optimize |-> "media" \in kept,
           blur |-> blur, backgrounds |-> "bg_lazyload" \in kept] \in Media
      BY <3>2 DEF Media
    <3>4. (policy # "inline") \in BOOLEAN
      OBVIOUS
    <3> QED
      BY <3>1, <3>3, <3>4, Zenon
  <2>7. ImageInv
    BY <2>6, PagesTyped, ImagesBegin
  <2> QED
    BY <2>4, <2>5, <2>7
<1> QED
  BY <1>1, <1>2

LEMMA VisitBegins == VisitInit => VisitInv
  BY PageBegins, MediaBegins DEF VisitInit, VisitInv

LEMMA VisitStep == VisitInv /\ [VisitNext]_<<vars, cdn, part>> => VisitInv'
<1> SUFFICES ASSUME VisitInv, [VisitNext]_<<vars, cdn, part>>
             PROVE  VisitInv'
  OBVIOUS
<1> USE DEF VisitInv
<1>1. ASSUME UNCHANGED cdn
      PROVE  MediaInv'
  BY <1>1, MediaRests DEF cdn, M!vars
<1>2. ASSUME UNCHANGED vars
      PROVE  ScriptInv' /\ SheetInv' /\ ImageInv'
  BY <1>2, ScriptsRest, SheetsRest, ImagesRest DEF vars
<1>3. CASE Next /\ UNCHANGED cdn
  BY <1>1, <1>3, ScriptsStep, SheetsStep, ImagesStep, ScriptsRest, SheetsRest, ImagesRest DEF Next
<1>4. CASE M!Next /\ UNCHANGED vars
  BY <1>2, <1>4, MediaStep
<1>5. CASE UNCHANGED <<vars, cdn, part>>
  BY <1>1, <1>2, <1>5
<1> QED
  BY <1>3, <1>4, <1>5 DEF VisitNext

\* Where a page is between the origin and the screen, and what the CDN keeps, in every
\* reachable state: the scripts that are past, the text and the key that each request has,
\* the images that stand behind a placeholder, the bytes under each key.
THEOREM VisitAsItStands == VisitSpec => []VisitInv
  BY VisitBegins, VisitStep, PTL DEF VisitSpec

\* What comes to the visitor is the origin's page: scripts run in its order, rules apply in its
\* order, no text lacks a remote sheet or is older than the request, and the image that was
\* measured as the largest comes first. For every page, every setting, any number of
\* requests that build the same bundle, any edits and any failures.
THEOREM OriginIsKept == VisitSpec => []OriginKept
<1>1. VisitInv => OriginKept
  BY SheetsKeepOrder, SheetsWhole, MeasuredFirst DEF VisitInv, ScriptInv, OriginKept
<1> QED
  BY <1>1, VisitAsItStands, PTL

\* "an original stored under the derivative key would be served immutable" (assets.ts:1142): no
\* original of a raster image is ever stored where its derivative belongs, and no AVIF where
\* any browser looks, for any overlapping requests, uploads, purges and writes lost or late.
THEOREM BytesAreRight == VisitSpec => []RightBytes
<1>1. MediaInv => RightBytes
  <2> SUFFICES ASSUME MediaInv
               PROVE  M!RightBytes
    BY DEF RightBytes
  <2>1. ASSUME NEW c \in Colo, NEW variant \in M!Variant, cache[c][variant] \in M!Bytes
        PROVE  Right(variant = "plain", cache[c][variant])
    BY <2>1, CdnAssumption, FailureIsNoBytes DEF MediaInv, CacheOK
  <2>2. ASSUME NEW key \in M!Key, r2[key] # None
        PROVE  Right(key = "main", r2[key])
    BY <2>2 DEF MediaInv, R2OK
  <2> QED
    BY <2>1, <2>2 DEF M!RightBytes, Right, M!Variant, M!Key
<1>2. VisitInv => RightBytes
  BY <1>1 DEF VisitInv
<1> QED
  BY <1>2, VisitAsItStands, PTL
=============================================================================
