--------------------------- MODULE WeightRefitProofs ---------------------------
(***************************************************************************)
(* Proofs about WeightRefit, for any engines, gateways, requests and model *)
(* and any threshold of the packed broadcast: what a refit leaves behind,  *)
(* and that no token is computed with weights of two versions.             *)
(*                                                                         *)
(* Neither property is inductive.  Both rest on the calls that can be      *)
(* under way where the refit is (EngineQueues, GateQueues): nothing but    *)
(* its own calls while it goes well, and after an exception at most the    *)
(* call it gave up on before the resume.  From them follows who stands     *)
(* still and which gates are closed (Standing, Gates), as long as nothing  *)
(* failed that is to blame (Blame); that the versions of the weights are   *)
(* one wherever a token can be computed, the flushes having been loaded up *)
(* to the present one (Pushing); and that the keys and values a reset has  *)
(* dropped are not made again before the engines resume (Fresh).           *)
(***************************************************************************)
EXTENDS WeightRefit, TLAPS, FiniteSetTheorems, WellFoundedInduction

EnginePause    == <<"engine", "pause">>
EngineResume   == <<"engine", "resume">>
GatewayResume  == <<"gateway", "resume">>

\* engines_paused and the lock are as the place in the refit says.
Control ==
    /\ frozen <=> pc \in {"pause gateways", "push", "reset", "resume engines"}
    /\ lock = "refit" <=> pc \notin {"idle", "lock", "failed"}

\* An error is of a call that is waited for, and ends the job.
Blame ==
    /\ error => pc \in {"pause engines", "pause gateways", "push", "reset",
                        "resume engines", "resume gateways"}
    /\ raised => pc \in {"resume engines", "resume gateways", "failed"}
    /\ pc = "failed" => raised
    /\ culprits # {} => error \/ raised
    /\ error /\ pc = "pause engines" => EnginePause \in culprits
    /\ error /\ pc = "resume engines" => EngineResume \in culprits
    /\ error /\ pc = "resume gateways" => GatewayResume \in culprits

\* The queues that occur.
Just(c) == <<c>>
Then(c, d) == <<c, d>>

\* The calls that an engine has not served.  The last one is a resume after an exception.
EngineAt(e) ==
    /\ pc \in {"idle", "lock", "pause gateways"} => engineCalls[e] = <<>>
    /\ pc = "resume gateways" /\ ~raised => engineCalls[e] = <<>>
    /\ pc = "pause engines" => engineCalls[e] \in {<<>>, Just(Pause)}
    /\ pc = "push" => engineCalls[e] \in {<<>>, Just(Load(part))}
    /\ pc = "reset" => engineCalls[e] \in {<<>>, Just(Reset)}
    /\ pc = "resume engines" =>
          \/ engineCalls[e] \in {<<>>, Just(Resume)}
          \/ raised /\ engineCalls[e] \in {Then(Load(part), Resume), Then(Reset, Resume)}
    /\ pc \in {"resume gateways", "failed"} /\ {EnginePause, EngineResume} \cap culprits = {} =>
          engineCalls[e] = <<>>

EngineQueues == \A e \in Engines : EngineAt(e)

\* The engines that stand still, unless a pause or a resume of theirs has failed.
Standing ==
    /\ pc \in {"idle", "lock"} => paused = {}
    /\ pc = "pause engines" /\ ~error => \A e \in Engines : engineCalls[e] = <<>> => e \in paused
    /\ pc \in {"pause gateways", "push", "reset"} => paused = Engines
    /\ pc = "resume engines" /\ EngineResume \notin culprits =>
          \A e \in Engines : engineCalls[e] = <<>> => e \notin paused
    /\ pc \in {"resume gateways", "failed"} /\ {EnginePause, EngineResume} \cap culprits = {} =>
          paused = {}

\* The calls that a gateway has not served.
GateAt(g) ==
    /\ pc \in {"idle", "lock", "pause engines", "push", "reset"} => gateCalls[g] = <<>>
    /\ pc = "pause gateways" => gateCalls[g] \in {<<>>, Just(Pause)}
    /\ pc = "resume engines" => gateCalls[g] = <<>> \/ (raised /\ gateCalls[g] = Just(Pause))
    /\ pc = "resume gateways" =>
          \/ gateCalls[g] \in {<<>>, Just(Resume)}
          \/ raised /\ gateCalls[g] = Then(Pause, Resume)
    /\ pc = "failed" /\ GatewayResume \notin culprits => gateCalls[g] = <<>>

GateQueues == \A g \in Gateways : GateAt(g)

\* The gates that are closed, unless a resume has failed, and the drains under way.
Gates ==
    /\ pc \in {"idle", "lock", "pause engines"} => closed = {}
    /\ pc = "resume gateways" /\ GatewayResume \notin culprits =>
          \A g \in Gateways : gateCalls[g] = <<>> => g \notin closed
    /\ pc = "failed" /\ GatewayResume \notin culprits => closed = {}
    /\ pc # "pause gateways" /\ ~raised => draining = {}

\* All engines have version v of every weight.
Even(v) == \A e \in Engines : \A w \in Weights : weights[e][w] = v

\* Before the push the engines have the version before, after it the present one, and in
\* between the present one up to the flush under way.
Pushing == ~raised =>
    /\ pc \in {"idle", "reset", "resume engines", "resume gateways"} => Even(version)
    /\ pc \in {"lock", "pause engines", "pause gateways"} => Even(version - 1)
    /\ pc = "push" /\ ~error => \A e \in Engines : \A i \in Entries :
          i < part \/ (engineCalls[e] = <<>> /\ i < Until(part)) =>
          weights[e][StateDict[i].name] = version

\* Engine e has keys and values of the present version only, cached or of a request.
Clean(e) ==
    /\ cache[e] \subseteq {version}
    /\ \A r \in Requests : at[r] = e => kv[r] \subseteq {version}

\* Keys and values of running requests only, and after a reset that was granted of the
\* present version only.
Fresh ==
    /\ \A r \in Requests : turn[r] # "running" => kv[r] = {}
    /\ mode.caching /\ ~raised =>
       /\ pc = "reset" /\ ~error =>
             \A e \in Engines \ refused : engineCalls[e] = <<>> => Clean(e)
       /\ pc \in {"idle", "resume engines", "resume gateways"} =>
             \A e \in Engines \ refused : Clean(e)

\* The inductive invariant.
Invariant ==
    /\ TypeOK /\ Control /\ Blame /\ EngineQueues /\ Standing /\ GateQueues /\ Gates
    /\ Pushing /\ Fresh
-----------------------------------------------------------------------------
(* The calls and their queues *)

\* The calls to the actors differ, and a call is known by its name.
LEMMA Calls ==
    /\ Pause # Resume /\ Pause # Reset /\ Resume # Reset
    /\ \A k : Load(k) \notin {Pause, Resume, Reset} /\ Load(k)[1] = "load" /\ Load(k)[2] = k
    /\ Pause[1] = "pause" /\ Resume[1] = "resume" /\ Reset[1] = "reset"
BY DEF Pause, Resume, Reset, Load

\* A call that follows another.
LEMMA Following == ASSUME NEW c, NEW d PROVE Append(<<c>>, d) = <<c, d>>
<1> DEFINE s == Append(<<c>>, d)
           t == <<c, d>>
<1>1. <<c>> \in Seq({c, d}) /\ c \in {c, d} /\ d \in {c, d} /\ Len(<<c>>) = 1
  OBVIOUS
<1>2. s \in Seq({c, d}) /\ Len(s) = 2 /\ s[1] = c /\ s[2] = d
  BY <1>1
<1>3. t \in Seq({c, d}) /\ Len(t) = 2 /\ t[1] = c /\ t[2] = d
  OBVIOUS
<1> HIDE DEF s, t
<1>4. \A i \in 1 .. 2 : s[i] = t[i]
  BY <1>2, <1>3
<1>5. s = t
  BY <1>2, <1>3, <1>4
<1>. QED
  BY <1>5 DEF s, t

\* What remains of two.
LEMMA Remaining == \A c, d : Tail(<<c, d>>) = <<d>>
OBVIOUS

\* The queues of the shapes that occur: what a call appends, serves and leaves behind.
LEMMA Shapes ==
    \A c : /\ Append(<<>>, c) = Just(c) /\ Head(Just(c)) = c /\ Tail(Just(c)) = <<>>
          /\ Just(c) # <<>>
          /\ \A d : /\ Append(Just(c), d) = Then(c, d) /\ Head(Then(c, d)) = c
                   /\ Tail(Then(c, d)) = Just(d) /\ Then(c, d) # <<>> /\ Just(c) # Then(c, d)
<1>1. ASSUME NEW c
      PROVE  /\ Append(<<>>, c) = Just(c) /\ Head(Just(c)) = c
             /\ Tail(Just(c)) = <<>> /\ Just(c) # <<>>
  BY DEF Just
<1>2. ASSUME NEW c, NEW d PROVE Append(Just(c), d) = Then(c, d) /\ Tail(Then(c, d)) = Just(d)
  BY Following, Remaining DEF Just, Then
<1>3. ASSUME NEW c, NEW d PROVE Head(Then(c, d)) = c /\ Then(c, d) # <<>> /\ Just(c) # Then(c, d)
  BY DEF Just, Then
<1>. QED
  BY <1>1, <1>2, <1>3

\* A queue of an engine stays one as calls come and are served.
LEMMA EngineQueueing ==
    /\ <<>> \in EngineQueue
    /\ \A q \in EngineQueue :
          /\ \A c \in EngineCalls : Append(q, c) \in EngineQueue
          /\ q # <<>> => Head(q) \in EngineCalls /\ Tail(q) \in EngineQueue
BY DEF EngineQueue

\* So does that of a gateway.
LEMMA GateQueueing ==
    /\ <<>> \in GateQueue
    /\ \A q \in GateQueue :
          /\ \A c \in {Pause, Resume} : Append(q, c) \in GateQueue
          /\ q # <<>> => Head(q) \in {Pause, Resume} /\ Tail(q) \in GateQueue
BY DEF GateQueue

\* The calls that the actors know.
LEMMA Known ==
    /\ Pause \in EngineCalls /\ Resume \in EngineCalls /\ Reset \in EngineCalls
    /\ \A k \in Nat : Load(k) \in EngineCalls
    /\ \A c \in EngineCalls : /\ c[1] \in {"pause", "resume", "reset", "load"}
                               /\ c[1] = "load" => c[2] \in Nat
BY DEF EngineCalls, Pause, Resume, Reset, Load

\* So is the oldest call of a queue.
LEMMA FirstKnown ==
    ASSUME NEW q \in EngineQueue, q # <<>>
    PROVE  Head(q)[1] \in {"pause", "resume", "reset", "load"} /\ Tail(q) \in EngineQueue
<1>1. Head(q) \in EngineCalls /\ Tail(q) \in EngineQueue
  BY EngineQueueing
<1>2. \A c \in EngineCalls : c[1] \in {"pause", "resume", "reset", "load"}
  BY DEF EngineCalls, Pause, Resume, Reset, Load
<1>. QED
  BY <1>1, <1>2, Zenon

\* A failure is heard of where its call is waited for.
LEMMA Heard ==
    /\ Awaited(<<"engine", "pause">>) <=> pc = "pause engines"
    /\ Awaited(<<"engine", "load">>) <=> pc = "push"
    /\ Awaited(<<"engine", "reset">>) <=> pc = "reset"
    /\ Awaited(<<"engine", "resume">>) <=> pc = "resume engines"
    /\ Awaited(<<"gateway", "pause">>) <=> pc = "pause gateways"
    /\ Awaited(<<"gateway", "resume">>) <=> pc = "resume gateways"
BY DEF Awaited

\* The types that the steps below need.
LEMMA Types ==
    TypeOK => /\ paused \subseteq Engines /\ closed \subseteq Gateways
              /\ draining \subseteq Gateways
              /\ engineCalls \in [Engines -> EngineQueue] /\ gateCalls \in [Gateways -> GateQueue]
              /\ at \in [Requests -> Engines] /\ version \in Nat /\ part \in Nat
              /\ weights \in [Engines -> [Weights -> Nat]] /\ kv \in [Requests -> SUBSET Nat]
              /\ cache \in [Engines -> SUBSET Nat] /\ refused \subseteq Engines
              /\ turn \in [Requests -> Turns] /\ error \in BOOLEAN /\ raised \in BOOLEAN
              /\ pc \in Places
BY DEF TypeOK
-----------------------------------------------------------------------------
(* The steps with a choice in them, as the invariant sees them *)

\* What no failure and no call touches.
LEMMA PushedIs ==
    ASSUME Control, Pushed
    PROVE  /\ pc \in {"push", "reset"} /\ pc' = "resume engines" /\ ~error /\ EnginesReturned
           /\ pc = "push" => Until(part) = End /\ ~mode.caching
           /\ engineCalls' = [e \in Engines |-> Append(engineCalls[e], Resume)]
           /\ UNCHANGED <<mode, lock, part, frozen, error, raised, version, gateCalls, failures,
                          culprits, paused, weights, closed, draining, turn, at, kv, cache,
                          refused>>
BY DEF Pushed, Finally, CallEngines, Control, serverVars, requestVars, cacheVars

\* An exception ends with the engines if they stand still, else with the gateways.
LEMMA RaiseIs ==
    ASSUME Control, Raise
    PROVE  /\ error /\ ~error' /\ raised'
           /\ UNCHANGED <<mode, lock, part, frozen, version, failures, culprits, paused, weights,
                          closed, draining, turn, at, kv, cache,
                          refused>>
           /\ \/ /\ pc = "pause engines" /\ pc' = "resume gateways" /\ UNCHANGED engineCalls
                 /\ gateCalls' = [g \in Gateways |-> Append(gateCalls[g], Resume)]
              \/ /\ pc \in {"pause gateways", "push", "reset"} /\ pc' = "resume engines"
                 /\ engineCalls' = [e \in Engines |-> Append(engineCalls[e], Resume)]
                 /\ UNCHANGED gateCalls
BY DEF Raise, Finally, CallEngines, CallGateways, Control, serverVars, requestVars, cacheVars

\* An engine takes its oldest call.
LEMMA EngineServesIs ==
    ASSUME TypeOK, NEW e \in Engines, EngineServes(e)
    PROVE  /\ engineCalls[e] # <<>> /\ engineCalls'[e] = Tail(engineCalls[e])
           /\ \A f \in Engines \ {e} : engineCalls'[f] = engineCalls[f]
           /\ UNCHANGED <<mode, lock, pc, part, frozen, error, raised, version, gateCalls, failures,
                          culprits, closed, draining, turn, at>>
BY Types DEF EngineServes, trainerVars

\* A call of an engine that fails is heard of where it is waited for.
LEMMA EngineFailsIs ==
    ASSUME TypeOK, NEW e \in Engines, EngineFails(e)
    PROVE  /\ engineCalls[e] # <<>> /\ engineCalls'[e] = Tail(engineCalls[e])
           /\ \A f \in Engines \ {e} : engineCalls'[f] = engineCalls[f]
           /\ UNCHANGED <<mode, lock, pc, part, frozen, raised, version, gateCalls, paused, weights,
                          closed, draining, turn, at, kv, cache,
                          refused>>
           /\ culprits' = culprits \union {<<"engine", Head(engineCalls[e])[1]>>}
           /\ error' = (error \/ \/ Head(engineCalls[e])[1] = "pause" /\ pc = "pause engines"
                                 \/ Head(engineCalls[e])[1] = "load" /\ pc = "push"
                                 \/ Head(engineCalls[e])[1] = "reset" /\ pc = "reset"
                                 \/ Head(engineCalls[e])[1] = "resume" /\ pc = "resume engines")
<1> DEFINE name == Head(engineCalls[e])[1]
<1>1. engineCalls[e] \in EngineQueue /\ engineCalls[e] # <<>>
  BY Types DEF EngineFails
<1>2. name \in {"pause", "resume", "reset", "load"}
  BY <1>1, FirstKnown
<1>3. /\ engineCalls' = [engineCalls EXCEPT ![e] = Tail(@)]
      /\ UNCHANGED <<mode, lock, pc, part, frozen, raised, version, gateCalls, paused, weights,
                     closed, draining, turn, at, kv, cache,
                          refused>>
      /\ error' = (error \/ Awaited(<<"engine", name>>))
      /\ culprits' = culprits \union {<<"engine", name>>}
  BY DEF EngineFails, CallFails, trainerVars, serverVars, requestVars, cacheVars
<1>4. Awaited(<<"engine", name>>) <=> \/ name = "pause" /\ pc = "pause engines"
                                      \/ name = "load" /\ pc = "push"
                                      \/ name = "reset" /\ pc = "reset"
                                      \/ name = "resume" /\ pc = "resume engines"
  BY <1>2, Heard
<1>. QED
  BY <1>1, <1>3, <1>4, Types

\* So is one of a gateway.
LEMMA GatewayFailsIs ==
    ASSUME TypeOK, NEW g \in Gateways, GatewayFails(g)
    PROVE  /\ gateCalls[g] # <<>> /\ gateCalls'[g] = Tail(gateCalls[g])
           /\ \A h \in Gateways \ {g} : gateCalls'[h] = gateCalls[h]
           /\ UNCHANGED <<mode, lock, pc, part, frozen, raised, version, engineCalls, paused,
                          weights, closed, draining, turn, at, kv, cache,
                          refused>>
           /\ culprits' = culprits \union {<<"gateway", Head(gateCalls[g])[1]>>}
           /\ error' = (error \/ \/ Head(gateCalls[g])[1] = "pause" /\ pc = "pause gateways"
                                 \/ Head(gateCalls[g])[1] = "resume" /\ pc = "resume gateways")
<1> DEFINE name == Head(gateCalls[g])[1]
<1>1. gateCalls[g] \in GateQueue /\ gateCalls[g] # <<>>
  BY Types DEF GatewayFails
<1>2. name \in {"pause", "resume"}
  BY <1>1, GateQueueing, Calls
<1>3. /\ gateCalls' = [gateCalls EXCEPT ![g] = Tail(@)]
      /\ UNCHANGED <<mode, lock, pc, part, frozen, raised, version, engineCalls, paused, weights,
                     closed, draining, turn, at, kv, cache,
                          refused>>
      /\ error' = (error \/ Awaited(<<"gateway", name>>))
      /\ culprits' = culprits \union {<<"gateway", name>>}
  BY DEF GatewayFails, CallFails, trainerVars, serverVars, requestVars, cacheVars
<1>4. Awaited(<<"gateway", name>>) <=> \/ name = "pause" /\ pc = "pause gateways"
                                       \/ name = "resume" /\ pc = "resume gateways"
  BY <1>2, Heard
<1>. QED
  BY <1>1, <1>3, <1>4, Types

\* A gateway takes its oldest call.
LEMMA GatewayPausesIs ==
    ASSUME TypeOK, NEW g \in Gateways, GatewayPauses(g)
    PROVE  /\ gateCalls[g] # <<>> /\ Head(gateCalls[g]) = Pause
           /\ gateCalls'[g] = Tail(gateCalls[g])
           /\ \A h \in Gateways \ {g} : gateCalls'[h] = gateCalls[h]
           /\ closed' = closed \union {g} /\ draining' \subseteq draining \union {g}
           /\ UNCHANGED <<mode, lock, pc, part, frozen, error, raised, version, engineCalls,
                          failures, culprits, paused, weights, turn, at, kv, cache,
                          refused>>
BY Types DEF GatewayPauses, trainerVars, requestVars, cacheVars

\* And opens for a resume.
LEMMA GatewayResumesIs ==
    ASSUME TypeOK, NEW g \in Gateways, GatewayResumes(g)
    PROVE  /\ gateCalls[g] # <<>> /\ Head(gateCalls[g]) = Resume
           /\ gateCalls'[g] = Tail(gateCalls[g])
           /\ \A h \in Gateways \ {g} : gateCalls'[h] = gateCalls[h]
           /\ closed' = closed \ {g}
           /\ UNCHANGED <<mode, lock, pc, part, frozen, error, raised, version, engineCalls,
                          failures, culprits, paused, weights, draining, turn, at, kv, cache,
                          refused>>
BY Types DEF GatewayResumes, trainerVars, requestVars, cacheVars

\* What an engine has before it, by where the refit is.
LEMMA EngineShapes ==
    ASSUME NEW e, EngineAt(e), engineCalls[e] # <<>>, pc \in Places
    PROVE  \/ /\ \/ pc = "pause engines" /\ Head(engineCalls[e]) = Pause
                 \/ pc = "push" /\ Head(engineCalls[e]) = Load(part)
                 \/ pc = "reset" /\ Head(engineCalls[e]) = Reset
                 \/ pc = "resume engines" /\ Head(engineCalls[e]) = Resume
              /\ Tail(engineCalls[e]) = <<>>
           \/ /\ pc = "resume engines" /\ raised
              /\ Head(engineCalls[e]) \in {Load(part), Reset}
              /\ Tail(engineCalls[e]) = Just(Resume) /\ Tail(engineCalls[e]) # <<>>
           \/ /\ pc = "failed" \/ (pc = "resume gateways" /\ raised)
              /\ EnginePause \in culprits \/ EngineResume \in culprits
<1>1. CASE pc = "pause engines"
  BY <1>1, Shapes DEF EngineAt
<1>2. CASE pc = "push"
  BY <1>2, Shapes DEF EngineAt
<1>3. CASE pc = "reset"
  BY <1>3, Shapes DEF EngineAt
<1>4. CASE pc = "resume engines"
  <2>1. /\ Head(Just(Resume)) = Resume /\ Tail(Just(Resume)) = <<>> /\ Just(Resume) # <<>>
        /\ \A c : Head(Then(c, Resume)) = c /\ Tail(Then(c, Resume)) = Just(Resume)
    BY Shapes
  <2>. QED
    BY <1>4, <2>1 DEF EngineAt
<1>. QED
  BY <1>1, <1>2, <1>3, <1>4 DEF EngineAt, Places

\* And what a gateway has.
LEMMA GateShapes ==
    ASSUME NEW g, GateAt(g), gateCalls[g] # <<>>, pc \in Places
    PROVE  \/ /\ \/ pc = "pause gateways" /\ Head(gateCalls[g]) = Pause
                 \/ pc = "resume engines" /\ raised /\ Head(gateCalls[g]) = Pause
                 \/ pc = "resume gateways" /\ Head(gateCalls[g]) = Resume
              /\ Tail(gateCalls[g]) = <<>>
           \/ /\ pc = "resume gateways" /\ raised /\ Head(gateCalls[g]) = Pause
              /\ Tail(gateCalls[g]) = Just(Resume) /\ Tail(gateCalls[g]) # <<>>
           \/ pc = "failed" /\ GatewayResume \in culprits
<1>1. CASE pc = "pause gateways"
  BY <1>1, Shapes DEF GateAt
<1>2. CASE pc = "resume engines"
  BY <1>2, Shapes DEF GateAt
<1>3. CASE pc = "resume gateways"
  <2>1. /\ Head(Just(Resume)) = Resume /\ Tail(Just(Resume)) = <<>> /\ Just(Resume) # <<>>
        /\ Head(Then(Pause, Resume)) = Pause /\ Tail(Then(Pause, Resume)) = Just(Resume)
    BY Shapes
  <2>. QED
    BY <1>3, <2>1 DEF GateAt
<1>. QED
  BY <1>1, <1>2, <1>3 DEF GateAt, Places

\* What the last call adds to what is there.
LEMMA Appending ==
    ASSUME NEW e
    PROVE  /\ engineCalls[e] = <<>> =>
                 /\ Append(engineCalls[e], Resume) = Just(Resume)
                 /\ Append(engineCalls[e], Resume) # <<>>
           /\ engineCalls[e] = Just(Load(part)) =>
                 /\ Append(engineCalls[e], Resume) = Then(Load(part), Resume)
                 /\ Append(engineCalls[e], Resume) # <<>>
           /\ engineCalls[e] = Just(Reset) =>
                 /\ Append(engineCalls[e], Resume) = Then(Reset, Resume)
                 /\ Append(engineCalls[e], Resume) # <<>>
BY Shapes

\* For a gateway.
LEMMA GateAppending ==
    ASSUME NEW g, gateCalls[g] = <<>> \/ gateCalls[g] = Just(Pause)
    PROVE  Append(gateCalls[g], Resume) # <<>>
BY Shapes
-----------------------------------------------------------------------------
(* The packed broadcast *)

\* A set of numbers has a least one.
LEMMA Least ==
    ASSUME NEW S, S \subseteq Nat, S # {}
    PROVE  Min(S) \in S /\ \A j \in S : Min(S) <= j
<1>1. PICK x \in S : \A y \in S : ~ (<<y, x>> \in OpToRel(<, Nat))
  BY NatLessThanWellFounded, WFMin
<1>2. ASSUME NEW y \in S PROVE x <= y
  <2>1. y < x => <<y, x>> \in OpToRel(<, Nat)
    BY DEF OpToRel
  <2>2. x \in Nat /\ y \in Nat /\ ~(y < x)
    BY <1>1, <2>1
  <2>. QED
    BY <2>2
<1>. QED
  BY <1>2 DEF Min

\* The weights are some of the entries, and there are some.
LEMMA EntriesAre ==
    /\ Entries \subseteq Nat /\ Entries # {} /\ End \in Nat
    /\ \A i \in Entries : i < End
<1>1. DOMAIN StateDict = 1 .. Len(StateDict) /\ Len(StateDict) \in Nat
  BY RefitAssumption
<1>2. \E i \in DOMAIN StateDict : StateDict[i].kind = "weight"
  BY RefitAssumption
<1>. QED
  BY <1>1, <1>2 DEF Entries, End

\* A flush ends somewhere.
LEMMA UntilIs == ASSUME NEW i \in Nat PROVE Until(i) \in Nat
<1> DEFINE S == {j \in Entries : i < j /\ Bytes(i, j) >= Threshold} \union {End}
<1>1. S \subseteq Nat /\ S # {}
  BY EntriesAre
<1>2. Min(S) \in S
  BY <1>1, Least
<1>. QED
  BY <1>1, <1>2 DEF Until

\* The first flush leaves no weight out.
LEMMA FirstIs == Min(Entries) \in Nat /\ \A i \in Entries : ~(i < Min(Entries))
<1> DEFINE m == Min(Entries)
<1>1. m \in Entries /\ \A i \in Entries : m <= i
  BY EntriesAre, Least
<1> HIDE DEF m
<1>2. m \in Nat /\ \A i \in Entries : ~(i < m)
  BY <1>1, EntriesAre
<1>. QED
  BY <1>2 DEF m

\* An engine that has the weights of a flush has what came before and what it carries.
LEMMA LoadedIs ==
    ASSUME NEW of, NEW k, NEW i \in Entries
    PROVE  /\ k <= i /\ i < Until(k) => Loaded(of, k)[StateDict[i].name] = version
           /\ of[StateDict[i].name] = version => Loaded(of, k)[StateDict[i].name] = version
BY DEF Loaded, Flush, Weights

\* An engine has one version of all when it has one of every entry.
LEMMA WeightsAre ==
    ASSUME TypeOK, \A e \in Engines : \A i \in Entries : weights[e][StateDict[i].name] = version
    PROVE  Even(version)
BY DEF Even, Weights

\* And has then used no other.
LEMMA UsedIs == ASSUME NEW v, Even(v), NEW e \in Engines PROVE Used(e) = {v}
<1>1. Weights # {}
  BY EntriesAre DEF Weights
<1>. QED
  BY <1>1 DEF Even, Used
-----------------------------------------------------------------------------
(* Every step preserves every part *)

\* Every step keeps engines_paused and the lock as the place in the refit says.
LEMMA ControlStep ==
    ASSUME TypeOK, Control, Blame, [Next]_vars PROVE Control'
<1>0. CASE UNCHANGED <<frozen, lock, pc>>
  BY <1>0 DEF Control
<1>1. CASE Acquire
  BY <1>1, Types DEF Acquire, callVars, requestVars, cacheVars, serverVars, trainerVars, Control
<1>2. CASE Locked
  BY <1>2, Types DEF Locked, CallEngines, callVars, requestVars, cacheVars, serverVars,
        trainerVars, Control
<1>3. CASE Evaluation
  BY <1>3, Types DEF Evaluation, callVars, requestVars, cacheVars, serverVars, trainerVars, Control
<1>4. CASE EnginesPaused
  BY <1>4, Types DEF EnginesPaused, CallGateways, EnginesReturned, callVars, requestVars, cacheVars,
        serverVars, trainerVars, Control
<1>5. CASE GatewaysPaused
  BY <1>5, Types DEF GatewaysPaused, CallEngines, EnginesReturned, GatewaysReturned, callVars,
        requestVars, cacheVars, serverVars, trainerVars, Control
<1>6. CASE ResetCache
  BY <1>6, Types DEF ResetCache, CallEngines, EnginesReturned, callVars, requestVars, cacheVars,
        serverVars, trainerVars, Control
<1>7. CASE Pushed
  BY <1>7, Types DEF Pushed, Finally, CallEngines, CallGateways, EnginesReturned, callVars,
        requestVars, cacheVars, serverVars, trainerVars, Control
<1>8. CASE Raise
  BY <1>8, Types DEF Raise, Finally, CallEngines, CallGateways, callVars, requestVars, cacheVars,
        serverVars, trainerVars, Control
<1>9. CASE EnginesResumed
  BY <1>9, Types DEF EnginesResumed, CallGateways, EnginesReturned, callVars, requestVars,
        cacheVars,
        serverVars, trainerVars, Control
<1>10. CASE GatewaysResumed
  BY <1>10, Types DEF GatewaysResumed, GatewaysReturned, callVars, requestVars, cacheVars,
        serverVars,
        trainerVars, Control
<1>11. CASE UNCHANGED vars
  BY <1>0, <1>11 DEF vars, trainerVars, callVars, serverVars, requestVars, cacheVars
<1>12. ASSUME
         \/ NextFlush
         \/ \E e \in Engines : EngineServes(e)
         \/ \E e \in Engines : EngineFails(e)
         \/ \E g \in Gateways : GatewayPauses(g)
         \/ \E g \in Gateways : Drained(g)
         \/ \E g \in Gateways : DrainTimesOut(g)
         \/ \E g \in Gateways : GatewayResumes(g)
         \/ \E g \in Gateways : GatewayFails(g)
         \/ \E r \in Requests : Ask(r)
         \/ \E r \in Requests : Forward(r)
         \/ \E r \in Requests : Decode(r)
         \/ \E r \in Requests : Answer(r)
         \/ \E r \in Requests : GiveUp(r)
       PROVE  Control'
  BY <1>0, <1>12 DEF NextFlush, EngineServes, EngineFails, GatewayPauses, Drained,
        DrainTimesOut, GatewayResumes, GatewayFails, Ask, Forward, Decode, Answer, GiveUp,
        CallFails, trainerVars, callVars, serverVars, requestVars, cacheVars
<1>. QED
  BY <1>1, <1>2, <1>3, <1>4, <1>5, <1>6, <1>7, <1>8, <1>9, <1>10, <1>11, <1>12 DEF Next,
        Trainer, Serve

\* Every step that fails is heard of and is put on record.
LEMMA BlameStep ==
    ASSUME TypeOK, Control, Blame, EngineQueues, GateQueues, [Next]_vars PROVE Blame'
<1>0. CASE UNCHANGED <<error, raised, pc, culprits>>
  BY <1>0 DEF Blame, EnginePause, EngineResume, GatewayResume
<1>1. CASE Acquire
  BY <1>1, Types DEF Acquire, callVars, requestVars, cacheVars, serverVars, trainerVars, Blame,
        EnginePause, EngineResume, GatewayResume
<1>2. CASE Locked
  BY <1>2, Types DEF Locked, CallEngines, callVars, requestVars, cacheVars, serverVars,
        trainerVars, Blame,
        EnginePause, EngineResume, GatewayResume
<1>3. CASE EnginesPaused
  BY <1>3, Types DEF EnginesPaused, CallGateways, EnginesReturned, callVars, requestVars, cacheVars,
        serverVars, trainerVars, Blame, EnginePause, EngineResume, GatewayResume
<1>4. CASE GatewaysPaused
  BY <1>4, Types DEF GatewaysPaused, CallEngines, EnginesReturned, GatewaysReturned, callVars,
        requestVars, cacheVars, serverVars, trainerVars, Blame, EnginePause, EngineResume,
        GatewayResume
<1>5. CASE ResetCache
  BY <1>5, Types DEF ResetCache, CallEngines, EnginesReturned, callVars, requestVars, cacheVars,
        serverVars, trainerVars, Blame, EnginePause, EngineResume, GatewayResume
<1>6. CASE Pushed
  <2>1. /\ pc \in {"push", "reset"} /\ pc' = "resume engines" /\ ~error
        /\ UNCHANGED <<error, raised, culprits>>
    BY <1>6, PushedIs
  <2>2. ~raised /\ culprits = {}
    BY <2>1 DEF Blame
  <2>3. ~error' /\ ~raised' /\ culprits' = {}
    BY <2>1, <2>2
  <2>. QED
    BY <2>1, <2>3 DEF Blame
<1>7. CASE Raise
  BY <1>7, RaiseIs DEF Blame
<1>8. CASE EnginesResumed
  BY <1>8, Types DEF EnginesResumed, CallGateways, EnginesReturned, callVars, requestVars,
        cacheVars,
        serverVars, trainerVars, Blame, EnginePause, EngineResume, GatewayResume
<1>9. CASE GatewaysResumed
  BY <1>9, Types DEF GatewaysResumed, GatewaysReturned, callVars, requestVars, cacheVars,
        serverVars,
        trainerVars, Blame, EnginePause, EngineResume, GatewayResume
<1>10. ASSUME NEW e \in Engines, EngineFails(e) PROVE Blame'
  <2>1. EngineAt(e) /\ pc \in Places /\ engineCalls[e] # <<>>
    BY <1>10, EngineFailsIs, Types DEF EngineQueues
  <2>2. \/ Head(engineCalls[e])[1] = "pause" /\ pc = "pause engines"
        \/ Head(engineCalls[e])[1] = "load" /\ pc = "push"
        \/ Head(engineCalls[e])[1] = "reset" /\ pc = "reset"
        \/ Head(engineCalls[e])[1] = "resume" /\ pc = "resume engines"
        \/ pc = "resume engines" /\ raised
        \/ pc \in {"resume gateways", "failed"} /\ culprits # {}
    BY <2>1, EngineShapes, Calls
  <2>. QED
    BY <1>10, <2>2, EngineFailsIs, Types DEF Blame, EnginePause, EngineResume, GatewayResume
<1>11. ASSUME NEW g \in Gateways, DrainTimesOut(g) PROVE Blame'
  BY <1>11, Types DEF DrainTimesOut, callVars, requestVars, cacheVars, serverVars, trainerVars,
        Blame,
        EnginePause, EngineResume, GatewayResume
<1>12. ASSUME NEW g \in Gateways, GatewayFails(g) PROVE Blame'
  <2>1. GateAt(g) /\ pc \in Places /\ gateCalls[g] # <<>>
    BY <1>12, GatewayFailsIs, Types DEF GateQueues
  <2>2. \/ Head(gateCalls[g])[1] = "pause" /\ pc = "pause gateways"
        \/ Head(gateCalls[g])[1] = "resume" /\ pc = "resume gateways"
        \/ pc \in {"resume engines", "resume gateways"} /\ raised
        \/ pc = "failed" /\ culprits # {}
    BY <2>1, GateShapes, Calls
  <2>. QED
    BY <1>12, <2>2, GatewayFailsIs, Types DEF Blame, EnginePause, EngineResume, GatewayResume
<1>13. CASE UNCHANGED vars
  BY <1>0, <1>13 DEF vars, trainerVars, callVars, serverVars, requestVars, cacheVars
<1>14. ASSUME
         \/ Evaluation
         \/ NextFlush
         \/ \E e \in Engines : EngineServes(e)
         \/ \E g \in Gateways : GatewayPauses(g)
         \/ \E g \in Gateways : Drained(g)
         \/ \E g \in Gateways : GatewayResumes(g)
         \/ \E r \in Requests : Ask(r)
         \/ \E r \in Requests : Forward(r)
         \/ \E r \in Requests : Decode(r)
         \/ \E r \in Requests : Answer(r)
         \/ \E r \in Requests : GiveUp(r)
       PROVE  Blame'
  BY <1>0, <1>14 DEF Evaluation, NextFlush, EngineServes, GatewayPauses, Drained,
        GatewayResumes, Ask, Forward, Decode, Answer, GiveUp, CallFails, trainerVars, callVars,
        serverVars, requestVars, cacheVars
<1>. QED
  BY <1>1, <1>2, <1>3, <1>4, <1>5, <1>6, <1>7, <1>8, <1>9, <1>10, <1>11, <1>12, <1>13, <1>14
        DEF Next, Trainer, Serve

\* Every step leaves each engine no calls but those of the present place.
LEMMA EngineQueuesStep ==
    ASSUME TypeOK, Control, Blame, EngineQueues, [Next]_vars PROVE EngineQueues'
<1>0. CASE UNCHANGED <<pc, engineCalls, raised, part, culprits>>
  BY <1>0 DEF EngineQueues, EngineAt, Control, Blame, EnginePause, EngineResume
<1>1. CASE Acquire
  BY <1>1, Types, Shapes DEF Acquire, callVars, requestVars, cacheVars, serverVars, trainerVars,
        EngineQueues, EngineAt, Control, Blame, EnginePause, EngineResume
<1>2. CASE Locked
  BY <1>2, Types, Shapes DEF Locked, CallEngines, callVars, requestVars, cacheVars, serverVars,
        trainerVars, EngineQueues, EngineAt, Control, Blame, EnginePause, EngineResume
<1>3. CASE EnginesPaused
  BY <1>3, Types, Shapes DEF EnginesPaused, CallGateways, EnginesReturned, callVars,
        requestVars, cacheVars, serverVars, trainerVars, EngineQueues, EngineAt, Control, Blame,
        EnginePause, EngineResume
<1>4. CASE GatewaysPaused
  BY <1>4, Types, Shapes DEF GatewaysPaused, CallEngines, EnginesReturned, GatewaysReturned,
        callVars, requestVars, cacheVars, serverVars, trainerVars, EngineQueues, EngineAt,
        Control, Blame,
        EnginePause, EngineResume
<1>5. CASE NextFlush
  BY <1>5, Types, Shapes DEF NextFlush, CallEngines, EnginesReturned, callVars, requestVars,
        cacheVars,
        serverVars, trainerVars, EngineQueues, EngineAt, Control, Blame, EnginePause,
        EngineResume
<1>6. CASE ResetCache
  BY <1>6, Types, Shapes DEF ResetCache, CallEngines, EnginesReturned, callVars, requestVars,
        cacheVars,
        serverVars, trainerVars, EngineQueues, EngineAt, Control, Blame, EnginePause,
        EngineResume
<1>7. CASE Pushed
  BY <1>7, PushedIs, Shapes DEF EngineQueues, EngineAt, Control, Blame, EnginePause,
        EngineResume, EnginesReturned
<1>8. CASE Raise
  <2>1. ASSUME NEW e \in Engines PROVE EngineAt(e)'
    <3>1. EngineAt(e)
      BY DEF EngineQueues
    <3>2. CASE pc = "pause engines"
      BY <1>8, <3>2, RaiseIs DEF Blame, EngineAt
    <3>3. CASE pc \in {"pause gateways", "push", "reset"}
      BY <1>8, <3>1, <3>3, RaiseIs, Appending DEF EngineAt
    <3>. QED
      BY <1>8, <3>2, <3>3, RaiseIs
  <2>. QED
    BY <2>1 DEF EngineQueues
<1>9. CASE EnginesResumed
  BY <1>9, Types, Shapes DEF EnginesResumed, CallGateways, EnginesReturned, callVars,
        requestVars, cacheVars, serverVars, trainerVars, EngineQueues, EngineAt, Control, Blame,
        EnginePause, EngineResume
<1>10. CASE GatewaysResumed
  BY <1>10, Types, Shapes DEF GatewaysResumed, GatewaysReturned, callVars, requestVars, cacheVars,
        serverVars, trainerVars, EngineQueues, EngineAt, Control, Blame, EnginePause,
        EngineResume
<1>11. ASSUME NEW e \in Engines, EngineServes(e) PROVE EngineQueues'
  <2>1. ASSUME NEW f \in Engines, f # e PROVE EngineAt(f)'
    BY <1>11, <2>1, EngineServesIs DEF EngineQueues, EngineAt, Control, Blame, EnginePause,
          EngineResume
  <2>2. EngineAt(e) /\ pc \in Places
    BY <1>11, Types DEF EngineQueues
  <2>3. EngineAt(e)'
    BY <1>11, <2>2, EngineServesIs, EngineShapes, Shapes, Calls DEF EngineAt, EnginePause,
          EngineResume
  <2>. QED
    BY <2>1, <2>3 DEF EngineQueues
<1>12. ASSUME NEW e \in Engines, EngineFails(e) PROVE EngineQueues'
  <2>1. ASSUME NEW f \in Engines, f # e PROVE EngineAt(f)'
    BY <1>12, <2>1, EngineFailsIs DEF EngineQueues, EngineAt, Control, Blame, EnginePause,
          EngineResume
  <2>2. EngineAt(e) /\ pc \in Places
    BY <1>12, Types DEF EngineQueues
  <2>3. EngineAt(e)'
    BY <1>12, <2>2, EngineFailsIs, EngineShapes, Shapes, Calls DEF EngineAt, EnginePause,
          EngineResume
  <2>. QED
    BY <2>1, <2>3 DEF EngineQueues
<1>13. ASSUME NEW g \in Gateways, GatewayFails(g) PROVE EngineQueues'
  BY <1>13, GatewayFailsIs, Shapes DEF EngineQueues, EngineAt, Control, Blame, EnginePause,
        EngineResume
<1>14. CASE UNCHANGED vars
  BY <1>0, <1>14 DEF vars, trainerVars, callVars, serverVars, requestVars, cacheVars
<1>15. ASSUME
         \/ Evaluation
         \/ \E g \in Gateways : GatewayPauses(g)
         \/ \E g \in Gateways : Drained(g)
         \/ \E g \in Gateways : DrainTimesOut(g)
         \/ \E g \in Gateways : GatewayResumes(g)
         \/ \E r \in Requests : Ask(r)
         \/ \E r \in Requests : Forward(r)
         \/ \E r \in Requests : Decode(r)
         \/ \E r \in Requests : Answer(r)
         \/ \E r \in Requests : GiveUp(r)
       PROVE  EngineQueues'
  BY <1>0, <1>15 DEF Evaluation, GatewayPauses, Drained, DrainTimesOut, GatewayResumes, Ask,
        Forward, Decode, Answer, GiveUp, CallFails, trainerVars, callVars, serverVars,
        requestVars, cacheVars
<1>. QED
  BY <1>1, <1>2, <1>3, <1>4, <1>5, <1>6, <1>7, <1>8, <1>9, <1>10, <1>11, <1>12, <1>13, <1>14,
        <1>15 DEF Next, Trainer, Serve

\* Engines stand still from the pause of all to the resume.
LEMMA StandingStep ==
    ASSUME TypeOK, Control, Blame, EngineQueues, Standing, [Next]_vars PROVE Standing'
<1>0. CASE UNCHANGED <<pc, engineCalls, error, paused, culprits>>
  BY <1>0 DEF Standing, EngineQueues, EngineAt, Control, Blame, EnginePause, EngineResume
<1>1. CASE Acquire
  BY <1>1, Types, Shapes DEF Acquire, callVars, requestVars, cacheVars, serverVars, trainerVars,
        Standing,
        EngineQueues, EngineAt, Control, Blame, EnginePause, EngineResume
<1>2. CASE Locked
  BY <1>2, Types, Shapes DEF Locked, CallEngines, callVars, requestVars, cacheVars, serverVars,
        trainerVars, Standing, EngineQueues, EngineAt, Control, Blame, EnginePause, EngineResume
<1>3. CASE EnginesPaused
  BY <1>3, Types, Shapes DEF EnginesPaused, CallGateways, EnginesReturned, callVars,
        requestVars, cacheVars, serverVars, trainerVars, Standing, EngineQueues, EngineAt,
        Control, Blame,
        EnginePause, EngineResume
<1>4. CASE GatewaysPaused
  BY <1>4, Types, Shapes DEF GatewaysPaused, CallEngines, EnginesReturned, GatewaysReturned,
        callVars, requestVars, cacheVars, serverVars, trainerVars, Standing, EngineQueues, EngineAt,
        Control, Blame, EnginePause, EngineResume
<1>5. CASE NextFlush
  BY <1>5, Types, Shapes DEF NextFlush, CallEngines, EnginesReturned, callVars, requestVars,
        cacheVars,
        serverVars, trainerVars, Standing, EngineQueues, EngineAt, Control, Blame, EnginePause,
        EngineResume
<1>6. CASE ResetCache
  BY <1>6, Types, Shapes DEF ResetCache, CallEngines, EnginesReturned, callVars, requestVars,
        cacheVars,
        serverVars, trainerVars, Standing, EngineQueues, EngineAt, Control, Blame, EnginePause,
        EngineResume
<1>7. CASE Pushed
  <2>1. /\ pc' = "resume engines" /\ EnginesReturned
        /\ engineCalls' = [e \in Engines |-> Append(engineCalls[e], Resume)]
    BY <1>7, PushedIs
  <2>2. \A e \in Engines : engineCalls'[e] # <<>>
    BY <2>1, Appending DEF EnginesReturned
  <2>. QED
    BY <2>1, <2>2 DEF Standing
<1>8. CASE Raise
  <2>1. CASE pc = "pause engines"
    BY <1>8, <2>1, RaiseIs DEF Standing, Blame
  <2>2. CASE pc \in {"pause gateways", "push", "reset"}
    <3>1. /\ pc' = "resume engines"
          /\ engineCalls' = [e \in Engines |-> Append(engineCalls[e], Resume)]
      BY <1>8, <2>2, RaiseIs
    <3>2. \A e \in Engines : engineCalls'[e] # <<>>
      BY <2>2, <3>1, Appending DEF EngineQueues, EngineAt
    <3>. QED
      BY <3>1, <3>2 DEF Standing
  <2>. QED
    BY <1>8, <2>1, <2>2, RaiseIs
<1>9. CASE EnginesResumed
  BY <1>9, Types, Shapes DEF EnginesResumed, CallGateways, EnginesReturned, callVars,
        requestVars, cacheVars, serverVars, trainerVars, Standing, EngineQueues, EngineAt,
        Control, Blame,
        EnginePause, EngineResume
<1>10. CASE GatewaysResumed
  BY <1>10, Types, Shapes DEF GatewaysResumed, GatewaysReturned, callVars, requestVars, cacheVars,
        serverVars, trainerVars, Standing, EngineQueues, EngineAt, Control, Blame, EnginePause,
        EngineResume
<1>11. ASSUME NEW e \in Engines, EngineServes(e) PROVE Standing'
  <2>1. EngineAt(e) /\ pc \in Places /\ engineCalls[e] # <<>>
    BY <1>11, EngineServesIs, Types DEF EngineQueues
  <2>2. paused' = IF Head(engineCalls[e]) = Pause THEN paused \union {e}
                  ELSE IF Head(engineCalls[e]) = Resume THEN paused \ {e} ELSE paused
    BY <1>11 DEF EngineServes
  <2>3. \/ pc = "pause engines" /\ paused' = paused \union {e}
        \/ pc \in {"push", "reset"} /\ paused' = paused
        \/ pc = "resume engines" /\ paused' = paused \ {e}
        \/ pc = "resume engines" /\ paused' = paused /\ engineCalls'[e] # <<>>
        \/ /\ pc \in {"resume gateways", "failed"}
           /\ EnginePause \in culprits \/ EngineResume \in culprits
    BY <1>11, <2>1, <2>2, EngineServesIs, EngineShapes, Calls
  <2>. QED
    BY <1>11, <2>3, EngineServesIs, Types DEF Standing
<1>12. ASSUME NEW e \in Engines, EngineFails(e) PROVE Standing'
  <2>1. EngineAt(e) /\ pc \in Places /\ engineCalls[e] # <<>>
    BY <1>12, EngineFailsIs, Types DEF EngineQueues
  <2>2. \/ pc = "pause engines" /\ error'
        \/ pc = "resume engines" /\ EngineResume \in culprits'
        \/ pc = "resume engines" /\ engineCalls'[e] # <<>>
        \/ pc \notin {"pause engines", "resume engines"}
    BY <1>12, <2>1, EngineFailsIs, EngineShapes, Calls DEF EngineResume
  <2>. QED
    BY <1>12, <2>2, EngineFailsIs, Types DEF Standing
<1>13. ASSUME NEW g \in Gateways, DrainTimesOut(g) PROVE Standing'
  BY <1>13, Types, Shapes DEF DrainTimesOut, callVars, requestVars, cacheVars, serverVars,
        trainerVars,
        Standing, EngineQueues, EngineAt, Control, Blame, EnginePause, EngineResume
<1>14. ASSUME NEW g \in Gateways, GatewayFails(g) PROVE Standing'
  BY <1>14, Types, Shapes DEF GatewayFails, CallFails, callVars, requestVars, cacheVars, serverVars,
        trainerVars, Standing, EngineQueues, EngineAt, Control, Blame, EnginePause, EngineResume
<1>15. CASE UNCHANGED vars
  BY <1>0, <1>15 DEF vars, trainerVars, callVars, serverVars, requestVars, cacheVars
<1>16. ASSUME
         \/ Evaluation
         \/ \E g \in Gateways : GatewayPauses(g)
         \/ \E g \in Gateways : Drained(g)
         \/ \E g \in Gateways : GatewayResumes(g)
         \/ \E r \in Requests : Ask(r)
         \/ \E r \in Requests : Forward(r)
         \/ \E r \in Requests : Decode(r)
         \/ \E r \in Requests : Answer(r)
         \/ \E r \in Requests : GiveUp(r)
       PROVE  Standing'
  BY <1>0, <1>16 DEF Evaluation, GatewayPauses, Drained, GatewayResumes, Ask, Forward, Decode,
        Answer, GiveUp, CallFails, trainerVars, callVars, serverVars, requestVars, cacheVars
<1>. QED
  BY <1>1, <1>2, <1>3, <1>4, <1>5, <1>6, <1>7, <1>8, <1>9, <1>10, <1>11, <1>12, <1>13, <1>14,
        <1>15, <1>16 DEF Next, Trainer, Serve

\* Every step leaves each gateway no calls but those of the present place.
LEMMA GateQueuesStep ==
    ASSUME TypeOK, Control, Blame, GateQueues, [Next]_vars PROVE GateQueues'
<1>0. CASE UNCHANGED <<pc, gateCalls, raised, culprits>>
  BY <1>0 DEF GateQueues, GateAt, Control, Blame, GatewayResume
<1>1. CASE Acquire
  BY <1>1, Types, Shapes DEF Acquire, callVars, requestVars, cacheVars, serverVars, trainerVars,
        GateQueues, GateAt, Control, Blame, GatewayResume
<1>2. CASE Locked
  BY <1>2, Types, Shapes DEF Locked, CallEngines, callVars, requestVars, cacheVars, serverVars,
        trainerVars, GateQueues, GateAt, Control, Blame, GatewayResume
<1>3. CASE EnginesPaused
  BY <1>3, Types, Shapes DEF EnginesPaused, CallGateways, EnginesReturned, callVars,
        requestVars, cacheVars, serverVars, trainerVars, GateQueues, GateAt, Control, Blame,
        GatewayResume
<1>4. CASE GatewaysPaused
  BY <1>4, Types, Shapes DEF GatewaysPaused, CallEngines, EnginesReturned, GatewaysReturned,
        callVars, requestVars, cacheVars, serverVars, trainerVars, GateQueues, GateAt, Control,
        Blame,
        GatewayResume
<1>5. CASE ResetCache
  BY <1>5, Types, Shapes DEF ResetCache, CallEngines, EnginesReturned, callVars, requestVars,
        cacheVars,
        serverVars, trainerVars, GateQueues, GateAt, Control, Blame, GatewayResume
<1>6. CASE Pushed
  BY <1>6, PushedIs, Shapes DEF GateQueues, GateAt, Control, Blame, GatewayResume, EnginesReturned
<1>7. CASE Raise
  BY <1>7, RaiseIs, Shapes DEF GateQueues, GateAt, Control, Blame, GatewayResume
<1>8. CASE EnginesResumed
  BY <1>8, Types, Shapes DEF EnginesResumed, CallGateways, EnginesReturned, callVars,
        requestVars, cacheVars, serverVars, trainerVars, GateQueues, GateAt, Control, Blame,
        GatewayResume
<1>9. CASE GatewaysResumed
  BY <1>9, Types, Shapes DEF GatewaysResumed, GatewaysReturned, callVars, requestVars, cacheVars,
        serverVars, trainerVars, GateQueues, GateAt, Control, Blame, GatewayResume
<1>10. ASSUME NEW e \in Engines, EngineFails(e) PROVE GateQueues'
  BY <1>10, EngineFailsIs, Shapes DEF GateQueues, GateAt, Control, Blame, GatewayResume
<1>11. ASSUME NEW g \in Gateways, GatewayPauses(g) PROVE GateQueues'
  <2>1. ASSUME NEW h \in Gateways, h # g PROVE GateAt(h)'
    BY <1>11, <2>1, GatewayPausesIs DEF GateQueues, GateAt, Control, Blame, GatewayResume
  <2>2. GateAt(g) /\ pc \in Places
    BY <1>11, Types DEF GateQueues
  <2>3. GateAt(g)'
    BY <1>11, <2>2, GatewayPausesIs, GateShapes, Shapes, Calls DEF GateAt, GatewayResume
  <2>. QED
    BY <2>1, <2>3 DEF GateQueues
<1>12. ASSUME NEW g \in Gateways, GatewayResumes(g) PROVE GateQueues'
  <2>1. ASSUME NEW h \in Gateways, h # g PROVE GateAt(h)'
    BY <1>12, <2>1, GatewayResumesIs DEF GateQueues, GateAt, Control, Blame, GatewayResume
  <2>2. GateAt(g) /\ pc \in Places
    BY <1>12, Types DEF GateQueues
  <2>3. GateAt(g)'
    BY <1>12, <2>2, GatewayResumesIs, GateShapes, Shapes, Calls DEF GateAt, GatewayResume
  <2>. QED
    BY <2>1, <2>3 DEF GateQueues
<1>13. ASSUME NEW g \in Gateways, GatewayFails(g) PROVE GateQueues'
  <2>1. ASSUME NEW h \in Gateways, h # g PROVE GateAt(h)'
    BY <1>13, <2>1, GatewayFailsIs DEF GateQueues, GateAt, Control, Blame, GatewayResume
  <2>2. GateAt(g) /\ pc \in Places
    BY <1>13, Types DEF GateQueues
  <2>3. GateAt(g)'
    BY <1>13, <2>2, GatewayFailsIs, GateShapes, Shapes, Calls DEF GateAt, GatewayResume
  <2>. QED
    BY <2>1, <2>3 DEF GateQueues
<1>14. CASE UNCHANGED vars
  BY <1>0, <1>14 DEF vars, trainerVars, callVars, serverVars, requestVars, cacheVars
<1>15. ASSUME
         \/ Evaluation
         \/ NextFlush
         \/ \E e \in Engines : EngineServes(e)
         \/ \E g \in Gateways : Drained(g)
         \/ \E g \in Gateways : DrainTimesOut(g)
         \/ \E r \in Requests : Ask(r)
         \/ \E r \in Requests : Forward(r)
         \/ \E r \in Requests : Decode(r)
         \/ \E r \in Requests : Answer(r)
         \/ \E r \in Requests : GiveUp(r)
       PROVE  GateQueues'
  BY <1>0, <1>15 DEF Evaluation, NextFlush, EngineServes, Drained, DrainTimesOut, Ask, Forward,
        Decode, Answer, GiveUp, CallFails, trainerVars, callVars, serverVars, requestVars, cacheVars
<1>. QED
  BY <1>1, <1>2, <1>3, <1>4, <1>5, <1>6, <1>7, <1>8, <1>9, <1>10, <1>11, <1>12, <1>13, <1>14,
        <1>15 DEF Next, Trainer, Serve

\* The gates are closed and opened by the calls of the refit only.
LEMMA GatesStep ==
    ASSUME TypeOK, Control, Blame, GateQueues, Gates, [Next]_vars PROVE Gates'
<1>0. CASE UNCHANGED <<pc, gateCalls, raised, culprits, closed, draining>>
  BY <1>0 DEF Gates, GateQueues, GateAt, Control, Blame, GatewayResume
<1>1. CASE Acquire
  BY <1>1, Types, Shapes DEF Acquire, callVars, requestVars, cacheVars, serverVars, trainerVars,
        Gates,
        GateQueues, GateAt, Control, Blame, GatewayResume
<1>2. CASE Locked
  BY <1>2, Types, Shapes DEF Locked, CallEngines, callVars, requestVars, cacheVars, serverVars,
        trainerVars, Gates, GateQueues, GateAt, Control, Blame, GatewayResume
<1>3. CASE EnginesPaused
  BY <1>3, Types, Shapes DEF EnginesPaused, CallGateways, EnginesReturned, callVars,
        requestVars, cacheVars, serverVars, trainerVars, Gates, GateQueues, GateAt, Control, Blame,
        GatewayResume
<1>4. CASE GatewaysPaused
  BY <1>4, Types, Shapes DEF GatewaysPaused, CallEngines, EnginesReturned, GatewaysReturned,
        callVars, requestVars, cacheVars, serverVars, trainerVars, Gates, GateQueues, GateAt,
        Control,
        Blame, GatewayResume
<1>5. CASE ResetCache
  BY <1>5, Types, Shapes DEF ResetCache, CallEngines, EnginesReturned, callVars, requestVars,
        cacheVars,
        serverVars, trainerVars, Gates, GateQueues, GateAt, Control, Blame, GatewayResume
<1>6. CASE Pushed
  BY <1>6, PushedIs, Types DEF Gates
<1>7. CASE Raise
  BY <1>7, RaiseIs, Types, Shapes DEF Gates, GateQueues, GateAt, Blame
<1>8. CASE EnginesResumed
  <2>1. /\ pc = "resume engines" /\ pc' = "resume gateways" /\ (raised => raised')
        /\ gateCalls' = [g \in Gateways |-> Append(gateCalls[g], Resume)]
        /\ UNCHANGED <<culprits, closed, draining>>
    BY <1>8, Types DEF EnginesResumed, CallGateways, serverVars
  <2>2. \A g \in Gateways : gateCalls'[g] # <<>>
    <3>1. ASSUME NEW g \in Gateways PROVE gateCalls'[g] # <<>>
      <4>1. gateCalls[g] = <<>> \/ gateCalls[g] = Just(Pause)
        BY <2>1 DEF GateQueues, GateAt
      <4>. QED
        BY <2>1, <4>1, GateAppending
    <3>. QED
      BY <3>1
  <2>. QED
    BY <2>1, <2>2, Types DEF Gates
<1>9. CASE GatewaysResumed
  BY <1>9, Types, Shapes DEF GatewaysResumed, GatewaysReturned, callVars, requestVars, cacheVars,
        serverVars, trainerVars, Gates, GateQueues, GateAt, Control, Blame, GatewayResume
<1>10. ASSUME NEW e \in Engines, EngineFails(e) PROVE Gates'
  BY <1>10, Types, Shapes DEF EngineFails, CallFails, callVars, requestVars, cacheVars, serverVars,
        trainerVars, Gates, GateQueues, GateAt, Control, Blame, GatewayResume
<1>11. ASSUME NEW g \in Gateways, GatewayPauses(g) PROVE Gates'
  <2>1. GateAt(g) /\ pc \in Places /\ gateCalls[g] # <<>>
    BY <1>11, GatewayPausesIs, Types DEF GateQueues
  <2>2. \/ pc = "pause gateways"
        \/ pc = "resume engines" /\ raised
        \/ pc = "resume gateways" /\ raised /\ gateCalls'[g] # <<>>
        \/ pc = "failed" /\ raised /\ GatewayResume \in culprits
    BY <1>11, <2>1, GatewayPausesIs, GateShapes, Calls DEF Blame
  <2>3. /\ UNCHANGED <<pc, raised, culprits>> /\ closed' = closed \union {g}
        /\ \A h \in Gateways \ {g} : gateCalls'[h] = gateCalls[h]
    BY <1>11, GatewayPausesIs
  <2>4. CASE pc = "pause gateways"
    BY <2>3, <2>4 DEF Gates
  <2>5. CASE pc = "resume engines" /\ raised
    BY <2>3, <2>5 DEF Gates
  <2>6. CASE pc = "resume gateways" /\ raised /\ gateCalls'[g] # <<>>
    BY <2>3, <2>6 DEF Gates
  <2>7. CASE pc = "failed" /\ raised /\ GatewayResume \in culprits
    BY <2>3, <2>7 DEF Gates
  <2>. QED
    BY <2>2, <2>4, <2>5, <2>6, <2>7
<1>12. ASSUME NEW g \in Gateways, Drained(g) PROVE Gates'
  BY <1>12, Types, Shapes DEF Drained, callVars, requestVars, cacheVars, serverVars, trainerVars,
        Gates,
        GateQueues, GateAt, Control, Blame, GatewayResume
<1>13. ASSUME NEW g \in Gateways, DrainTimesOut(g) PROVE Gates'
  BY <1>13, Types, Shapes DEF DrainTimesOut, callVars, requestVars, cacheVars, serverVars,
        trainerVars,
        Gates, GateQueues, GateAt, Control, Blame, GatewayResume
<1>14. ASSUME NEW g \in Gateways, GatewayResumes(g) PROVE Gates'
  <2>1. GateAt(g) /\ pc \in Places /\ gateCalls[g] # <<>>
    BY <1>14, GatewayResumesIs, Types DEF GateQueues
  <2>. QED
    BY <1>14, <2>1, GatewayResumesIs, GateShapes, Types, Shapes, Calls DEF Gates
<1>15. ASSUME NEW g \in Gateways, GatewayFails(g) PROVE Gates'
  <2>1. GateAt(g) /\ pc \in Places /\ gateCalls[g] # <<>>
    BY <1>15, GatewayFailsIs, Types DEF GateQueues
  <2>2. \/ pc = "resume gateways" /\ GatewayResume \in culprits'
        \/ pc = "resume gateways" /\ gateCalls'[g] # <<>>
        \/ pc # "resume gateways"
    BY <1>15, <2>1, GatewayFailsIs, GateShapes, Calls DEF GatewayResume
  <2>. QED
    BY <1>15, <2>2, GatewayFailsIs, Types DEF Gates
<1>16. CASE UNCHANGED vars
  BY <1>0, <1>16 DEF vars, trainerVars, callVars, serverVars, requestVars, cacheVars
<1>17. ASSUME
         \/ Evaluation
         \/ NextFlush
         \/ \E e \in Engines : EngineServes(e)
         \/ \E r \in Requests : Ask(r)
         \/ \E r \in Requests : Forward(r)
         \/ \E r \in Requests : Decode(r)
         \/ \E r \in Requests : Answer(r)
         \/ \E r \in Requests : GiveUp(r)
       PROVE  Gates'
  BY <1>0, <1>17 DEF Evaluation, NextFlush, EngineServes, Ask, Forward, Decode, Answer, GiveUp,
        CallFails, trainerVars, callVars, serverVars, requestVars, cacheVars
<1>. QED
  BY <1>1, <1>2, <1>3, <1>4, <1>5, <1>6, <1>7, <1>8, <1>9, <1>10, <1>11, <1>12, <1>13, <1>14,
        <1>15, <1>16, <1>17 DEF Next, Trainer, Serve

\* The versions advance flush by flush, on engines that stand still.
LEMMA PushingStep ==
    ASSUME TypeOK, Control, Blame, EngineQueues, Pushing, [Next]_vars PROVE Pushing'
<1>0. CASE UNCHANGED <<pc, raised, error, version, part, engineCalls, weights>>
  BY <1>0 DEF Pushing, Even
<1>1. CASE Acquire
  <2>1. pc = "idle" /\ pc' = "lock" /\ version' = version + 1 /\ UNCHANGED <<raised, weights>>
    BY <1>1 DEF Acquire, serverVars
  <2>2. version' - 1 = version
    BY <2>1, Types
  <2>. QED
    BY <2>1, <2>2 DEF Pushing, Even
<1>2. CASE Locked
  BY <1>2, Types DEF Locked, CallEngines, callVars, requestVars, cacheVars, serverVars, trainerVars,
        Pushing, Even
<1>3. CASE EnginesPaused
  BY <1>3, Types DEF EnginesPaused, CallGateways, EnginesReturned, callVars, requestVars, cacheVars,
        serverVars, trainerVars, Pushing, Even
<1>4. CASE GatewaysPaused
  <2>1. /\ pc = "pause gateways" /\ pc' = "push" /\ part' = Min(Entries)
        /\ engineCalls' = [e \in Engines |-> Append(engineCalls[e], Load(part'))]
    BY <1>4 DEF GatewaysPaused, CallEngines
  <2>2. \A e \in Engines : engineCalls'[e] # <<>>
    BY <2>1, Shapes DEF EngineQueues, EngineAt
  <2>3. \A i \in Entries : ~(i < part')
    BY <2>1, FirstIs
  <2>. QED
    BY <2>1, <2>2, <2>3 DEF Pushing
<1>5. CASE NextFlush
  <2>1. /\ pc = "push" /\ ~error /\ EnginesReturned /\ part' = Until(part)
        /\ engineCalls' = [e \in Engines |-> Append(engineCalls[e], Load(part'))]
        /\ UNCHANGED <<pc, version, raised, error, weights>>
    BY <1>5 DEF NextFlush, CallEngines, serverVars
  <2>2. \A e \in Engines : engineCalls'[e] # <<>>
    BY <2>1, Shapes DEF EnginesReturned
  <2>3. ~raised => \A e \in Engines : \A i \in Entries :
           i < part' => weights[e][StateDict[i].name] = version
    BY <2>1 DEF EnginesReturned, Pushing
  <2>. QED
    BY <2>1, <2>2, <2>3, Types DEF Pushing
<1>6. CASE ResetCache
  <2>1. /\ pc = "push" /\ pc' = "reset" /\ ~error /\ EnginesReturned /\ Until(part) = End
        /\ UNCHANGED <<version, raised, weights>>
    BY <1>6 DEF ResetCache, serverVars
  <2>2. ~raised => Even(version)
    BY <2>1, EntriesAre, WeightsAre DEF EnginesReturned, Pushing
  <2>. QED
    BY <2>1, <2>2, Types DEF Pushing, Even
<1>7. CASE Pushed
  <2>1. ~raised => Even(version)
    BY <1>7, PushedIs, EntriesAre, WeightsAre DEF EnginesReturned, Pushing
  <2>. QED
    BY <1>7, <2>1, PushedIs, Types DEF Pushing, Even
<1>8. CASE Raise
  BY <1>8, RaiseIs DEF Pushing
<1>9. CASE EnginesResumed
  BY <1>9, Types DEF EnginesResumed, CallGateways, EnginesReturned, callVars, requestVars,
        cacheVars,
        serverVars, trainerVars, Pushing, Even
<1>10. CASE GatewaysResumed
  BY <1>10, Types DEF GatewaysResumed, GatewaysReturned, callVars, requestVars, cacheVars,
        serverVars,
        trainerVars, Pushing, Even
<1>11. ASSUME NEW e \in Engines, EngineServes(e) PROVE Pushing'
  <2>1. EngineAt(e) /\ pc \in Places /\ engineCalls[e] # <<>>
    BY <1>11, EngineServesIs, Types DEF EngineQueues
  <2>2. weights' = IF Head(engineCalls[e])[1] = "load"
                   THEN [weights EXCEPT ![e] = Loaded(@, Head(engineCalls[e])[2])] ELSE weights
    BY <1>11 DEF EngineServes
  <2>3. \/ raised
        \/ pc = "push" /\ weights' = [weights EXCEPT ![e] = Loaded(@, part)]
        \/ pc # "push" /\ weights' = weights
    <3>1. pc = "push" => Head(engineCalls[e]) = Load(part)
      BY <2>1, EngineShapes
    <3>2. pc # "push" /\ ~raised => Head(engineCalls[e]) \in {Pause, Reset, Resume}
      BY <2>1, EngineShapes DEF Blame
    <3>3. Load(part)[1] = "load" /\ Load(part)[2] = part
      BY Calls
    <3>4. \A c \in {Pause, Reset, Resume} : c[1] # "load"
      BY Calls
    <3>. QED
      BY <2>2, <3>1, <3>2, <3>3, <3>4
  <2>4. UNCHANGED <<pc, raised, error, version, part>>
    BY <1>11, EngineServesIs
  <2>5. CASE raised
    BY <2>4, <2>5 DEF Pushing
  <2>6. CASE pc = "push" /\ weights' = [weights EXCEPT ![e] = Loaded(@, part)]
    <3>1. SUFFICES ASSUME ~raised, ~error, NEW f \in Engines, NEW i \in Entries,
                          i < part \/ (engineCalls'[f] = <<>> /\ i < Until(part))
                   PROVE  weights'[f][StateDict[i].name] = version
      BY <2>4, <2>6, Types DEF Pushing
    <3>2. CASE f # e
      BY <1>11, <2>6, <3>1, <3>2, EngineServesIs, Types DEF Pushing
    <3>3. CASE f = e
      <4>1. weights'[f] = Loaded(weights[e], part)
        BY <2>6, <3>3, Types
      <4>2. CASE i < part
        BY <2>6, <3>1, <3>3, <4>1, <4>2, LoadedIs DEF Pushing
      <4>3. CASE ~(i < part)
        <5>1. part <= i /\ i < Until(part)
          BY <3>1, <4>3, EntriesAre, Types
        <5>. QED
          BY <4>1, <5>1, LoadedIs
      <4>. QED
        BY <4>2, <4>3
    <3>. QED
      BY <3>2, <3>3
  <2>7. CASE pc # "push" /\ weights' = weights
    BY <2>4, <2>7 DEF Pushing, Even
  <2>. QED
    BY <2>3, <2>5, <2>6, <2>7
<1>12. ASSUME NEW e \in Engines, EngineFails(e) PROVE Pushing'
  <2>1. EngineAt(e) /\ pc \in Places /\ engineCalls[e] # <<>>
    BY <1>12, EngineFailsIs, Types DEF EngineQueues
  <2>2. pc = "push" => error'
    BY <1>12, <2>1, EngineFailsIs, EngineShapes, Calls
  <2>3. UNCHANGED <<pc, raised, version, part, weights>>
    BY <1>12, EngineFailsIs
  <2>. QED
    BY <2>2, <2>3 DEF Pushing, Even
<1>13. ASSUME NEW g \in Gateways, DrainTimesOut(g) PROVE Pushing'
  BY <1>13, Types DEF DrainTimesOut, callVars, requestVars, cacheVars, serverVars, trainerVars,
        Pushing, Even
<1>14. ASSUME NEW g \in Gateways, GatewayFails(g) PROVE Pushing'
  <2>1. /\ UNCHANGED <<pc, raised, version, part, engineCalls, weights>>
        /\ ~error' => ~error
    BY <1>14, GatewayFailsIs
  <2>. QED
    BY <2>1 DEF Pushing, Even
<1>15. CASE UNCHANGED vars
  BY <1>0, <1>15 DEF vars, trainerVars, callVars, serverVars, requestVars, cacheVars
<1>16. ASSUME
         \/ Evaluation
         \/ \E g \in Gateways : GatewayPauses(g)
         \/ \E g \in Gateways : Drained(g)
         \/ \E g \in Gateways : GatewayResumes(g)
         \/ \E r \in Requests : Ask(r)
         \/ \E r \in Requests : Forward(r)
         \/ \E r \in Requests : Decode(r)
         \/ \E r \in Requests : Answer(r)
         \/ \E r \in Requests : GiveUp(r)
       PROVE  Pushing'
  BY <1>0, <1>16 DEF Evaluation, GatewayPauses, Drained, GatewayResumes, Ask, Forward, Decode,
        Answer, GiveUp, CallFails, trainerVars, callVars, serverVars, requestVars, cacheVars
<1>. QED
  BY <1>1, <1>2, <1>3, <1>4, <1>5, <1>6, <1>7, <1>8, <1>9, <1>10, <1>11, <1>12, <1>13, <1>14,
        <1>15, <1>16 DEF Next, Trainer, Serve

\* What a reset has dropped is only made anew by engines that resume.
LEMMA FreshStep ==
    ASSUME TypeOK, Control, Blame, EngineQueues, Standing, Pushing, Fresh, [Next]_vars PROVE Fresh'
<1>0. CASE UNCHANGED <<mode, pc, raised, error, version, engineCalls, turn, at, kv, cache, refused>>
  BY <1>0 DEF Fresh, Clean
<1>1. CASE Acquire
  BY <1>1, Types DEF Acquire, callVars, requestVars, cacheVars, serverVars, trainerVars, Fresh,
        Clean
<1>2. CASE Locked
  BY <1>2, Types DEF Locked, CallEngines, callVars, requestVars, cacheVars, serverVars,
        trainerVars, Fresh, Clean
<1>3. CASE EnginesPaused
  BY <1>3, Types DEF EnginesPaused, CallGateways, EnginesReturned, callVars, requestVars, cacheVars,
        serverVars, trainerVars, Fresh, Clean
<1>4. CASE GatewaysPaused
  <2>. QED
    BY <1>4 DEF GatewaysPaused, requestVars, cacheVars, serverVars, Fresh, Clean
<1>5. CASE NextFlush
  BY <1>5, Types DEF NextFlush, CallEngines, EnginesReturned, callVars, requestVars, cacheVars,
        serverVars,
        trainerVars, Fresh, Clean
<1>6. CASE ResetCache
  <2>1. /\ pc' = "reset" /\ engineCalls' = [e \in Engines |-> Append(engineCalls[e], Reset)]
        /\ EnginesReturned /\ UNCHANGED <<turn, at, kv, cache,
                          refused>>
    BY <1>6 DEF ResetCache, CallEngines, requestVars, cacheVars
  <2>2. \A e \in Engines : engineCalls'[e] # <<>>
    BY <2>1, Shapes DEF EnginesReturned
  <2>. QED
    BY <2>1, <2>2, Types DEF Fresh, Clean
<1>7. CASE Pushed
  <2>1. pc = "push" => ~mode.caching
    BY <1>7, PushedIs
  <2>2. mode.caching /\ ~raised => \A e \in Engines \ refused : Clean(e)
    BY <1>7, <2>1, PushedIs, Types DEF EnginesReturned, Fresh, Clean
  <2>. QED
    BY <1>7, <2>2, PushedIs, Types DEF Fresh, Clean
<1>8. CASE Raise
  BY <1>8, RaiseIs DEF Fresh, Clean
<1>9. CASE EnginesResumed
  BY <1>9, Types DEF EnginesResumed, CallGateways, EnginesReturned, callVars, requestVars,
        cacheVars,
        serverVars, trainerVars, Fresh, Clean
<1>10. CASE GatewaysResumed
  BY <1>10, Types DEF GatewaysResumed, GatewaysReturned, callVars, requestVars, cacheVars,
        serverVars,
        trainerVars, Fresh, Clean
<1>11. ASSUME NEW e \in Engines, EngineServes(e) PROVE Fresh'
  <2>1. EngineAt(e) /\ pc \in Places /\ engineCalls[e] # <<>>
    BY <1>11, EngineServesIs, Types DEF EngineQueues
  <2>2. UNCHANGED <<mode, pc, raised, error, version, turn, at>>
    BY <1>11, EngineServesIs
  <2>3. \A d \in Engines \ {e} : engineCalls'[d] = engineCalls[d]
    BY <1>11, EngineServesIs
  <2>4. CASE Head(engineCalls[e]) = Reset /\ Reprefilled(e)
    <3>1. /\ cache'[e] = {} /\ \A d \in Engines \ {e} : cache'[d] = cache[d]
          /\ refused' = refused
          /\ \A r \in Requests : kv'[r] = IF turn[r] = "running" /\ at[r] = e THEN {} ELSE kv[r]
      BY <2>4, Types DEF Reprefilled
    <3>2. Clean(e)' /\ \A d \in Engines : Clean(d) => Clean(d)'
      BY <2>2, <3>1, Types DEF Fresh, Clean
    <3>3. \A q \in Requests : turn'[q] # "running" => kv'[q] = {}
      BY <2>2, <3>1 DEF Fresh
    <3>. QED
      BY <2>2, <2>3, <3>1, <3>2, <3>3 DEF Fresh
  <2>5. CASE Head(engineCalls[e]) = Reset /\ Refused(e)
    <3>1. /\ e \in refused' /\ refused' = refused \union {e}
          /\ UNCHANGED <<kv, cache>>
      BY <2>5 DEF Refused
    <3>2. \A d \in Engines : Clean(d) => Clean(d)'
      BY <2>2, <3>1 DEF Clean
    <3>. QED
      BY <2>2, <2>3, <3>1, <3>2 DEF Fresh
  <2>6. CASE Head(engineCalls[e]) # Reset
    <3>1. pc # "reset"
      BY <2>1, <2>6, EngineShapes
    <3>2. UNCHANGED <<kv, cache, refused>>
      BY <1>11, <2>6 DEF EngineServes, cacheVars
    <3>. QED
      BY <2>2, <3>1, <3>2, Types DEF Fresh, Clean
  <2>. QED
    BY <1>11, <2>4, <2>5, <2>6 DEF EngineServes
<1>12. ASSUME NEW e \in Engines, EngineFails(e) PROVE Fresh'
  <2>1. EngineAt(e) /\ pc \in Places /\ engineCalls[e] # <<>>
    BY <1>12, EngineFailsIs, Types DEF EngineQueues
  <2>2. pc = "reset" => error'
    BY <1>12, <2>1, EngineFailsIs, EngineShapes, Calls
  <2>3. /\ UNCHANGED <<mode, pc, raised, version, turn, at, kv, cache, refused>>
        /\ \A d \in Engines \ {e} : engineCalls'[d] = engineCalls[d]
    BY <1>12, EngineFailsIs
  <2>4. ~error' => ~error
    BY <1>12, EngineFailsIs
  <2>5. \A d \in Engines : Clean(d) => Clean(d)'
    BY <2>3 DEF Clean
  <2>. QED
    BY <2>2, <2>3, <2>4, <2>5 DEF Fresh
<1>13. ASSUME NEW g \in Gateways, DrainTimesOut(g) PROVE Fresh'
  BY <1>13, Types DEF DrainTimesOut, callVars, requestVars, cacheVars, serverVars, trainerVars,
        Fresh, Clean
<1>14. ASSUME NEW g \in Gateways, GatewayFails(g) PROVE Fresh'
  <2>1. UNCHANGED <<mode, pc, raised, version, engineCalls, turn, at, kv, cache, refused>>
    BY <1>14, GatewayFailsIs
  <2>2. ~error' => ~error
    BY <1>14, GatewayFailsIs
  <2>3. \A d \in Engines : Clean(d) => Clean(d)'
    BY <2>1 DEF Clean
  <2>. QED
    BY <2>1, <2>2, <2>3 DEF Fresh
<1>15. ASSUME NEW r \in Requests, Ask(r) PROVE Fresh'
  BY <1>15, Types DEF Ask, callVars, requestVars, cacheVars, serverVars, trainerVars, Fresh, Clean
<1>16. ASSUME NEW r \in Requests, Forward(r) PROVE Fresh'
  <2>0. PICK e \in Engines : \E hit \in {{}, cache[e]} :
             at' = [at EXCEPT ![r] = e] /\ kv' = [kv EXCEPT ![r] = hit]
    BY <1>16 DEF Forward
  <2>1. PICK hit \in {{}, cache[e]} :
             at' = [at EXCEPT ![r] = e] /\ kv' = [kv EXCEPT ![r] = hit]
    BY <2>0
  <2>2. /\ turn' = [turn EXCEPT ![r] = "running"]
        /\ UNCHANGED <<mode, pc, raised, error, version, engineCalls, cache, refused>>
    BY <1>16 DEF Forward, trainerVars, callVars, cacheVars
  <2>3. hit \subseteq cache[e]
    BY <2>1
  <2>4. ASSUME NEW d \in Engines, Clean(d) PROVE Clean(d)'
    BY <2>1, <2>2, <2>3, <2>4, Types DEF Clean
  <2>5. \A q \in Requests : turn'[q] # "running" => kv'[q] = {}
    BY <2>1, <2>2, Types DEF Fresh
  <2>. QED
    BY <2>2, <2>4, <2>5, Types DEF Fresh
<1>17. ASSUME NEW r \in Requests, Decode(r) PROVE Fresh'
  <2>1. /\ turn[r] = "running" /\ at[r] \in Engines /\ at[r] \notin paused
        /\ kv' = [kv EXCEPT ![r] = @ \union Used(at[r])]
        /\ UNCHANGED <<mode, pc, raised, error, version, engineCalls, turn, at, refused>>
    BY <1>17, Types DEF Decode, trainerVars, callVars
  <2>2. pc # "reset"
    BY <2>1 DEF Standing
  <2>3. ~raised /\ pc \in {"idle", "resume engines", "resume gateways"} => Used(at[r]) = {version}
    BY <2>1, UsedIs DEF Pushing
  <2>4. cache' = IF mode.caching THEN [cache EXCEPT ![at[r]] = @ \union kv'[r]] ELSE cache
    BY <1>17 DEF Decode
  <2>5. ASSUME NEW d \in Engines, Clean(d), mode.caching, Used(at[r]) = {version} PROVE Clean(d)'
    <3>1. \A q \in Requests : at[q] = d => kv'[q] \subseteq {version}
      BY <2>1, <2>5, Types DEF Clean
    <3>2. cache'[d] \subseteq {version}
      BY <2>1, <2>4, <2>5, <3>1, Types DEF Clean
    <3>. QED
      BY <2>1, <3>1, <3>2 DEF Clean
  <2>6. \A q \in Requests : turn'[q] # "running" => kv'[q] = {}
    BY <2>1, Types DEF Fresh
  <2>. QED
    BY <2>1, <2>2, <2>3, <2>5, <2>6 DEF Fresh
<1>18. ASSUME NEW r \in Requests, Answer(r) PROVE Fresh'
  BY <1>18, Types DEF Answer, callVars, requestVars, cacheVars, serverVars, trainerVars, Fresh,
        Clean
<1>19. ASSUME NEW r \in Requests, GiveUp(r) PROVE Fresh'
  BY <1>19, Types DEF GiveUp, callVars, requestVars, cacheVars, serverVars, trainerVars, Fresh,
        Clean
<1>20. CASE UNCHANGED vars
  BY <1>0, <1>20 DEF vars, trainerVars, callVars, serverVars, requestVars, cacheVars
<1>21. ASSUME
         \/ Evaluation
         \/ \E g \in Gateways : GatewayPauses(g)
         \/ \E g \in Gateways : Drained(g)
         \/ \E g \in Gateways : GatewayResumes(g)
       PROVE  Fresh'
  BY <1>0, <1>21 DEF Evaluation, GatewayPauses, Drained, GatewayResumes, CallFails, trainerVars,
        callVars, serverVars, requestVars, cacheVars
<1>. QED
  BY <1>1, <1>2, <1>3, <1>4, <1>5, <1>6, <1>7, <1>8, <1>9, <1>10, <1>11, <1>12, <1>13, <1>14,
        <1>15, <1>16, <1>17, <1>18, <1>19, <1>20, <1>21 DEF Next, Trainer, Serve

\* Every step keeps the types.
LEMMA TypeStep ==
    ASSUME TypeOK, [Next]_vars PROVE TypeOK'
<1>0. CASE UNCHANGED <<mode, lock, pc, part, frozen, error, raised, version, engineCalls, gateCalls,
                       paused, weights, closed, draining, turn, at, kv, cache, refused, failures,
                       culprits>>
  BY <1>0 DEF TypeOK, Places, Turns
<1>1. CASE Acquire
  BY <1>1 DEF Acquire, callVars, serverVars, requestVars, cacheVars, TypeOK, Places
<1>2. CASE Locked
  BY <1>2, Known, EngineQueueing, GateQueueing, UntilIs, FirstIs DEF Locked, CallEngines,
        callVars, requestVars, cacheVars, serverVars, trainerVars, TypeOK, Places, Turns
<1>3. CASE Evaluation
  BY <1>3, Known, EngineQueueing, GateQueueing, UntilIs, FirstIs DEF Evaluation, callVars,
        requestVars, cacheVars, serverVars, trainerVars, TypeOK, Places, Turns
<1>4. CASE EnginesPaused
  BY <1>4, Known, EngineQueueing, GateQueueing, UntilIs, FirstIs DEF EnginesPaused,
        CallGateways, EnginesReturned, callVars, requestVars, cacheVars, serverVars, trainerVars,
        TypeOK,
        Places, Turns
<1>5. CASE GatewaysPaused
  BY <1>5, Known, EngineQueueing, GateQueueing, UntilIs, FirstIs DEF GatewaysPaused,
        CallEngines, EnginesReturned, GatewaysReturned, callVars, requestVars, cacheVars,
        serverVars,
        trainerVars, TypeOK, Places, Turns
<1>6. CASE NextFlush
  BY <1>6, Known, EngineQueueing, GateQueueing, UntilIs, FirstIs DEF NextFlush, CallEngines,
        EnginesReturned, callVars, requestVars, cacheVars, serverVars, trainerVars, TypeOK,
        Places, Turns
<1>7. CASE ResetCache
  BY <1>7, Known, EngineQueueing, GateQueueing, UntilIs, FirstIs DEF ResetCache, CallEngines,
        EnginesReturned, callVars, requestVars, cacheVars, serverVars, trainerVars, TypeOK,
        Places, Turns
<1>8. CASE Pushed
  <2>1. [e \in Engines |-> Append(engineCalls[e], Resume)] \in [Engines -> EngineQueue]
    BY Types, Known, EngineQueueing
  <2>2. [g \in Gateways |-> Append(gateCalls[g], Resume)] \in [Gateways -> GateQueue]
    BY Types, GateQueueing
  <2>3. engineCalls' \in [Engines -> EngineQueue] /\ gateCalls' \in [Gateways -> GateQueue]
    BY <1>8, <2>1, <2>2, Types DEF Pushed, Finally, CallEngines, CallGateways
  <2>4. pc' \in Places
    BY <1>8 DEF Pushed, Finally, Places
  <2>. QED
    BY <1>8, <2>3, <2>4 DEF Pushed, Finally, serverVars, requestVars, cacheVars, TypeOK
<1>9. CASE Raise
  <2>1. [e \in Engines |-> Append(engineCalls[e], Resume)] \in [Engines -> EngineQueue]
    BY Types, Known, EngineQueueing
  <2>2. [g \in Gateways |-> Append(gateCalls[g], Resume)] \in [Gateways -> GateQueue]
    BY Types, GateQueueing
  <2>3. engineCalls' \in [Engines -> EngineQueue] /\ gateCalls' \in [Gateways -> GateQueue]
    BY <1>9, <2>1, <2>2, Types DEF Raise, Finally, CallEngines, CallGateways
  <2>4. pc' \in Places
    BY <1>9 DEF Raise, Finally, Places
  <2>. QED
    BY <1>9, <2>3, <2>4 DEF Raise, Finally, serverVars, requestVars, cacheVars, TypeOK
<1>10. CASE EnginesResumed
  BY <1>10, Known, EngineQueueing, GateQueueing, UntilIs, FirstIs DEF EnginesResumed,
        CallGateways, EnginesReturned, callVars, requestVars, cacheVars, serverVars, trainerVars,
        TypeOK,
        Places, Turns
<1>11. CASE GatewaysResumed
  BY <1>11, Known, EngineQueueing, GateQueueing, UntilIs, FirstIs DEF GatewaysResumed,
        GatewaysReturned, callVars, requestVars, cacheVars, serverVars, trainerVars, TypeOK,
        Places, Turns
<1>12. ASSUME NEW e \in Engines, EngineServes(e) PROVE TypeOK'
  <2> DEFINE call == Head(engineCalls[e])
  <2>1. /\ call \in EngineCalls /\ Tail(engineCalls[e]) \in EngineQueue
        /\ engineCalls' = [engineCalls EXCEPT ![e] = Tail(@)]
    BY <1>12, Types, EngineQueueing DEF EngineServes
  <2>2. engineCalls' \in [Engines -> EngineQueue]
    BY <2>1, Types
  <2>3. \A k \in Nat : Loaded(weights[e], k) \in [Weights -> Nat]
    BY Types DEF Loaded
  <2>4. weights' \in [Engines -> [Weights -> Nat]]
    BY <1>12, <2>1, <2>3, Known, Types DEF EngineServes
  <2>5. paused' \subseteq Engines
    BY <1>12, Types DEF EngineServes
  <2>6. kv' \in [Requests -> SUBSET Nat]
    BY <1>12, Types DEF EngineServes, Reprefilled, Refused, cacheVars
  <2>7. cache' \in [Engines -> SUBSET Nat] /\ refused' \subseteq Engines
    BY <1>12, Types DEF EngineServes, Reprefilled, Refused, cacheVars
  <2>. QED
    BY <1>12, <2>2, <2>4, <2>5, <2>6, <2>7 DEF EngineServes, trainerVars, TypeOK
<1>13. ASSUME NEW e \in Engines, EngineFails(e) PROVE TypeOK'
  <2>1. /\ engineCalls[e] # <<>> /\ engineCalls' = [engineCalls EXCEPT ![e] = Tail(@)]
    BY <1>13 DEF EngineFails
  <2>2. /\ Head(engineCalls[e])[1] \in {"pause", "resume", "reset", "load"}
        /\ engineCalls' \in [Engines -> EngineQueue]
    <3>1. engineCalls[e] \in EngineQueue /\ engineCalls \in [Engines -> EngineQueue]
      BY Types
    <3>2. /\ Head(engineCalls[e])[1] \in {"pause", "resume", "reset", "load"}
          /\ Tail(engineCalls[e]) \in EngineQueue
      BY <2>1, <3>1, FirstKnown
    <3>. QED
      BY <2>1, <3>1, <3>2
  <2>3. culprits' \subseteq Faults /\ error' \in BOOLEAN /\ failures' \in Nat
    BY <1>13, <2>2 DEF EngineFails, CallFails, Faults, TypeOK
  <2>. QED
    BY <1>13, <2>2, <2>3 DEF EngineFails, trainerVars, serverVars, requestVars, cacheVars, TypeOK
<1>14. ASSUME NEW g \in Gateways, GatewayPauses(g) PROVE TypeOK'
  BY <1>14, Known, EngineQueueing, GateQueueing, UntilIs, FirstIs DEF GatewayPauses, callVars,
        requestVars, cacheVars, serverVars, trainerVars, TypeOK, Places, Turns
<1>15. ASSUME NEW g \in Gateways, Drained(g) PROVE TypeOK'
  BY <1>15, Known, EngineQueueing, GateQueueing, UntilIs, FirstIs DEF Drained, callVars,
        requestVars, cacheVars, serverVars, trainerVars, TypeOK, Places, Turns
<1>16. ASSUME NEW g \in Gateways, DrainTimesOut(g) PROVE TypeOK'
  BY <1>16, Known, EngineQueueing, GateQueueing, UntilIs, FirstIs DEF DrainTimesOut, callVars,
        requestVars, cacheVars, serverVars, trainerVars, TypeOK, Places, Turns
<1>17. ASSUME NEW g \in Gateways, GatewayResumes(g) PROVE TypeOK'
  BY <1>17, Known, EngineQueueing, GateQueueing, UntilIs, FirstIs DEF GatewayResumes, callVars,
        requestVars, cacheVars, serverVars, trainerVars, TypeOK, Places, Turns
<1>18. ASSUME NEW g \in Gateways, GatewayFails(g) PROVE TypeOK'
  <2>1. gateCalls[g] # <<>> /\ gateCalls' = [gateCalls EXCEPT ![g] = Tail(@)]
    BY <1>18 DEF GatewayFails
  <2>2. /\ Head(gateCalls[g])[1] \in {"pause", "resume"}
        /\ gateCalls' \in [Gateways -> GateQueue]
    BY <2>1, Types, Calls, GateQueueing
  <2>3. culprits' \subseteq Faults /\ error' \in BOOLEAN /\ failures' \in Nat
    BY <1>18, <2>2 DEF GatewayFails, CallFails, Faults, TypeOK
  <2>. QED
    BY <1>18, <2>2, <2>3 DEF GatewayFails, trainerVars, serverVars, requestVars, cacheVars, TypeOK
<1>19. ASSUME NEW r \in Requests, Ask(r) PROVE TypeOK'
  BY <1>19, Known, EngineQueueing, GateQueueing, UntilIs, FirstIs DEF Ask, callVars,
        requestVars, cacheVars, serverVars, trainerVars, TypeOK, Places, Turns
<1>20. ASSUME NEW r \in Requests, Forward(r) PROVE TypeOK'
  <2>1. turn' \in [Requests -> Turns] /\ at' \in [Requests -> Engines]
    BY <1>20, Types DEF Forward, Turns
  <2>2. kv' \in [Requests -> SUBSET Nat]
    BY <1>20, Types DEF Forward
  <2>. QED
    BY <1>20, <2>1, <2>2 DEF Forward, trainerVars, callVars, serverVars, cacheVars, TypeOK
<1>21. ASSUME NEW r \in Requests, Decode(r) PROVE TypeOK'
  <2>1. Used(at[r]) \subseteq Nat
    BY Types DEF Used
  <2>2. kv' \in [Requests -> SUBSET Nat]
    BY <1>21, <2>1, Types DEF Decode
  <2>3. cache' \in [Engines -> SUBSET Nat]
    BY <1>21, <2>2, Types DEF Decode
  <2>. QED
    BY <1>21, <2>2, <2>3 DEF Decode, trainerVars, callVars, serverVars, TypeOK
<1>22. ASSUME NEW r \in Requests, Answer(r) PROVE TypeOK'
  BY <1>22, Known, EngineQueueing, GateQueueing, UntilIs, FirstIs DEF Answer, callVars,
        requestVars, cacheVars, serverVars, trainerVars, TypeOK, Places, Turns
<1>23. ASSUME NEW r \in Requests, GiveUp(r) PROVE TypeOK'
  BY <1>23, Known, EngineQueueing, GateQueueing, UntilIs, FirstIs DEF GiveUp, callVars,
        requestVars, cacheVars, serverVars, trainerVars, TypeOK, Places, Turns
<1>24. CASE UNCHANGED vars
  BY <1>0, <1>24 DEF vars, trainerVars, callVars, serverVars, requestVars, cacheVars
<1>. QED
  BY <1>1, <1>2, <1>3, <1>4, <1>5, <1>6, <1>7, <1>8, <1>9, <1>10, <1>11, <1>12, <1>13, <1>14,
        <1>15, <1>16, <1>17, <1>18, <1>19, <1>20, <1>21, <1>22, <1>23, <1>24 DEF Next, Trainer,
        Serve

-----------------------------------------------------------------------------
(* The invariant *)

\* It holds initially.
LEMMA Initially == Init => Invariant
<1> SUFFICES ASSUME Init PROVE Invariant
  OBVIOUS
<1>1. (CHOOSE e \in Engines : TRUE) \in Engines
  BY RefitAssumption
<1>2. TypeOK
  BY <1>1, EngineQueueing, GateQueueing DEF Init, TypeOK, Places, Turns
<1>3. Control /\ Blame /\ EngineQueues /\ Standing /\ GateQueues /\ Gates
  BY DEF Init, Control, Blame, EngineQueues, EngineAt, Standing, GateQueues, GateAt, Gates
<1>4. Pushing /\ Fresh
  BY DEF Init, Pushing, Even, Fresh, Clean
<1>. QED
  BY <1>2, <1>3, <1>4 DEF Invariant

\* The conjunction of the parts is inductive.
THEOREM InvariantHolds == Spec => []Invariant
<1>1. Invariant /\ [Next]_vars => Invariant'
  BY TypeStep, ControlStep, BlameStep, EngineQueuesStep, StandingStep, GateQueuesStep, GatesStep,
     PushingStep, FreshStep
  DEF Invariant
<1>. QED
  BY Initially, <1>1, PTL DEF Spec

\* TypeOK: every variable keeps to its type, for any engines, gateways, requests and model.
THEOREM TypeCorrect == Spec => []TypeOK
BY InvariantHolds, PTL DEF Invariant
-----------------------------------------------------------------------------
(* The properties *)

\* Whatever fails during a refit, broadcast_to_vllm leaves everything running that could be
\* asked to: RefitLeavesAllRunning.
THEOREM AllRunAfterRefit == Spec => []RefitLeavesAllRunning
<1>1. ASSUME Invariant PROVE RefitLeavesAllRunning
  <2>. USE <1>1 DEF Invariant
  <2>1. pc \in {"idle", "failed"} => lock # "refit"
    BY DEF Control
  <2>2. ASSUME pc = "idle"
        PROVE  /\ paused = {} /\ closed = {} /\ draining = {}
               /\ \A e \in Engines : Used(e) = {version}
               /\ mode.caching => \A e \in Engines \ refused :
                     /\ cache[e] \subseteq {version}
                     /\ \A r \in RunningAt(e) : kv[r] \subseteq {version}
    <3>1. ~raised
      BY <2>2 DEF Blame
    <3>2. paused = {} /\ closed = {} /\ draining = {}
      BY <2>2, <3>1 DEF Standing, Gates
    <3>3. \A e \in Engines : Used(e) = {version}
      BY <2>2, <3>1, UsedIs DEF Pushing
    <3>4. mode.caching => \A e \in Engines \ refused :
             cache[e] \subseteq {version} /\ \A r \in RunningAt(e) : kv[r] \subseteq {version}
      BY <2>2, <3>1 DEF Fresh, Clean, RunningAt
    <3>. QED
      BY <3>2, <3>3, <3>4
  <2>3. ASSUME pc = "failed"
        PROVE  /\ GatewayResume \notin culprits => closed = {}
               /\ culprits \cap {EnginePause, EngineResume} = {} => paused = {}
    BY <2>3 DEF Gates, Standing
  <2>. QED
    BY <2>1, <2>2, <2>3
    DEF RefitLeavesAllRunning, GatewayResume, EnginePause, EngineResume
<1>. QED
  BY InvariantHolds, <1>1, PTL

\* No token is computed with weights of two versions, however the refit, the flushes and the
\* requests interleave: NoMixedWeights.
THEOREM WeightsAreNotMixed == Spec => NoMixedWeights
<1>1. ASSUME Invariant, [Next]_vars
      PROVE  [~raised => \A r \in Requests : Decode(r) => Cardinality(Used(at[r])) = 1]_vars
  <2>1. SUFFICES ASSUME ~raised, NEW r \in Requests, Decode(r)
                 PROVE  Cardinality(Used(at[r])) = 1
    OBVIOUS
  <2>2. at[r] \in Engines /\ at[r] \notin paused /\ pc \in Places
    BY <1>1, <2>1, Types DEF Decode, Invariant
  <2>3. pc \notin {"pause gateways", "push", "reset", "failed"}
    BY <1>1, <2>1, <2>2 DEF Invariant, Standing, Blame
  <2>4. Even(version) \/ Even(version - 1)
    BY <1>1, <2>1, <2>2, <2>3 DEF Invariant, Pushing, Places
  <2>5. \E v : Used(at[r]) = {v}
    BY <2>2, <2>4, UsedIs
  <2>. QED
    BY <2>5, FS_Singleton
<1>. QED
  BY InvariantHolds, <1>1, PTL DEF Spec, NoMixedWeights
=============================================================================
