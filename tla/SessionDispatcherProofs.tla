----------------------- MODULE SessionDispatcherProofs -----------------------
(***************************************************************************)
(* What is proved of SessionDispatcher for every set of sessions and every *)
(* size of the worker pools.                                               *)
(*                                                                         *)
(* The id that enqueue() puts in the init queue is a token: at any moment  *)
(* it is in the init queue, with one init worker, in the ready queue, with *)
(* one run worker, or spent.  cancel() adds a second path to the post-run  *)
(* queue that the token does not know of, so the invariant says, session   *)
(* by session, where the token is (TokenInv), that nothing has reached     *)
(* POSTRUN while a callback runs or while the session is not cancelled     *)
(* (PostrunInv), and how stage agrees with both (StageInv).                *)
(***************************************************************************)
EXTENDS SessionDispatcher, FiniteSetTheorems, TLAPS

NoInitWorker(s) == \A w \in InitWorkers : initW[w].on # s
NoRunWorker(s)  == \A w \in RunWorkers : runW[w] # s
NoPostWorker(s) == \A p \in PostWorkers : postW[p] # s
NoToken(s) == initQ[s] = 0 /\ readyQ[s] = 0 /\ NoInitWorker(s) /\ NoRunWorker(s)
NoPost(s)  == postQ[s] = 0 /\ posts[s] = 0 /\ NoPostWorker(s)

\* Before enqueue() a session is nowhere.
FreshInv(s) ==
    /\ live \subseteq known /\ stopList \subseteq known
    /\ s \notin known => /\ NoToken(s) /\ NoPost(s)
                         /\ stage[s] = "INIT" /\ ~inflight[s]
                         /\ ~cancelled[s] /\ ~final[s] /\ canceller[s] = "no"
                         /\ inits[s] = 0 /\ runs[s] = 0

\* The token is in one place, and which callbacks it has been through.
TokenInv(s) ==
    /\ inits[s] <= 1 /\ runs[s] <= inits[s]
    /\ initQ[s] > 0 => /\ initQ[s] = 1 /\ readyQ[s] = 0
                       /\ NoInitWorker(s) /\ NoRunWorker(s)
                       /\ inits[s] = 0 /\ ~final[s]
    /\ \A w \in InitWorkers : initW[w].on = s =>
          /\ initQ[s] = 0 /\ readyQ[s] = 0 /\ NoRunWorker(s)
          /\ \A v \in InitWorkers : v # w => initW[v].on # s
          /\ inits[s] = 1 /\ runs[s] = 0 /\ ~final[s]
    /\ readyQ[s] > 0 => /\ initQ[s] = 0 /\ readyQ[s] = 1
                        /\ NoInitWorker(s) /\ NoRunWorker(s)
                        /\ inits[s] = 1 /\ runs[s] = 0 /\ ~final[s]
    /\ \A w \in RunWorkers : runW[w] = s =>
          /\ initQ[s] = 0 /\ readyQ[s] = 0 /\ NoInitWorker(s)
          /\ \A v \in RunWorkers : v # w => runW[v] # s
          /\ ~final[s]

\* Holding a run slot or waiting for one.
PastInit(s) ==
    \/ readyQ[s] > 0
    \/ \E w \in InitWorkers : initW[w].on = s /\ initW[w].at # "callback"

\* POSTRUN has not begun while a callback runs; for a session that was not
\* cancelled it follows the token.
PostrunInv(s) ==
    /\ \A w \in InitWorkers : initW[w].on = s /\ initW[w].at = "callback" =>
          NoPost(s) /\ canceller[s] # "parked"
    /\ \A w \in RunWorkers : runW[w] = s => NoPost(s) /\ canceller[s] # "parked"
    /\ ~cancelled[s] =>
          /\ canceller[s] = "no"
          /\ ~NoToken(s) => NoPost(s)
          /\ postQ[s] > 0 => postQ[s] = 1 /\ posts[s] = 0 /\ NoPostWorker(s)
          /\ \A p \in PostWorkers : postW[p] = s =>
                /\ postQ[s] = 0
                /\ \A q \in PostWorkers : q # p => postW[q] # s
          /\ posts[s] <= 1

\* The stage field agrees with where the session is.
StageInv(s) ==
    /\ \A w \in InitWorkers : initW[w].on = s /\ initW[w].at = "callback" =>
          stage[s] = "INIT" /\ inflight[s]
    /\ \A w \in RunWorkers : runW[w] = s => stage[s] = "RUNNING" /\ inflight[s]
    /\ ~cancelled[s] =>
          /\ initQ[s] > 0 => stage[s] = "INIT" /\ ~inflight[s]
          /\ PastInit(s) => stage[s] = "READY" /\ ~inflight[s]
          /\ postQ[s] > 0 => stage[s] = "POSTRUN" /\ ~inflight[s]
          /\ ~NoPostWorker(s) => stage[s] = "POSTRUN" /\ inflight[s]
    /\ s \in live =>
          /\ cancelled[s] /\ (initQ[s] > 0 \/ PastInit(s)) => stage[s] = "POSTRUN"
          /\ postQ[s] > 0 \/ ~NoPostWorker(s) \/ canceller[s] = "parked"
                => stage[s] = "POSTRUN"

\* In a queue or in some worker's hands.
Somewhere(s) == ~NoToken(s) \/ postQ[s] > 0 \/ ~NoPostWorker(s)

\* Which sessions are live, and that a live one is somewhere.
LiveInv(s) ==
    /\ s \in stopList => s \notin live
    /\ phase = "started" => stopList = {}
    /\ phase = "started" /\ ~cancelled[s] /\ PastInit(s) => s \in live
    /\ phase # "stopped" /\ s \in live /\ ~cancelled[s] => Somewhere(s)

SessionInv(s) == FreshInv(s) /\ TokenInv(s) /\ PostrunInv(s) /\ StageInv(s) /\ LiveInv(s)

IInv == TypeOK /\ \A s \in Sessions : SessionInv(s)
-----------------------------------------------------------------------------

\* The part of TypeOK that moving a session between stages can change.
StageType ==
    /\ stage \in [Sessions -> Stages]
    /\ inflight \in [Sessions -> BOOLEAN]
    /\ postQ \in [Sessions -> Nat]

\* Setting one flag of one session.
LEMMA FlagUpdate ==
    ASSUME NEW S, NEW f \in [S -> BOOLEAN], NEW x \in S, NEW b \in BOOLEAN
    PROVE  [f EXCEPT ![x] = b] \in [S -> BOOLEAN]
OBVIOUS

\* _begin and _move_to_postrun keep the types of what they write.
LEMMA StageTypes ==
    ASSUME TypeOK, NEW s \in Sessions
    PROVE  /\ EnterPostrun(s) => StageType'
           /\ MoveToPostrun(s) => StageType'
           /\ \A st \in Stages : Begin(s, st) /\ (postQ' = postQ \/ postQ' = Take(postQ, s))
                                 /\ postQ[s] > 0 => StageType'
           /\ \A st \in Stages : Begin(s, st) /\ postQ' = postQ => StageType'
<1> USE DEF TypeOK, StageType, Stages, Put, Take
<1>1. EnterPostrun(s) => StageType'
  BY DEF EnterPostrun
<1>2. MoveToPostrun(s) => StageType'
  BY <1>1 DEF MoveToPostrun
<1>3. ASSUME NEW st \in Stages, Begin(s, st)
      PROVE  stage' \in [Sessions -> Stages] /\ inflight' \in [Sessions -> BOOLEAN]
  BY <1>3 DEF Begin
<1>4. postQ[s] > 0 /\ postQ' = Take(postQ, s) => postQ' \in [Sessions -> Nat]
  OBVIOUS
<1>5. postQ' = postQ => postQ' \in [Sessions -> Nat]
  OBVIOUS
<1>6. QED BY <1>1, <1>2, <1>3, <1>4, <1>5

\* Every step keeps the types: one step per action, and under it the variables
\* that several branches of the action write.
LEMMA TypeStep ==
    ASSUME TypeOK, [Next]_vars
    PROVE  TypeOK'
<1> USE DispatcherAssumption
<1> USE DEF sessionVars, queues, workers, history, lifeVars
<1>1. ASSUME NEW s \in Sessions, Enqueue(s) PROVE TypeOK'
  BY <1>1 DEF Enqueue, TypeOK, Put
<1>2. ASSUME NEW s \in Sessions, Cancel(s) PROVE TypeOK'
  BY <1>2 DEF Cancel, Parked, TypeOK, Put, Stages
<1>3. ASSUME NEW s \in Sessions, CancelReturns(s) \/ CancelRaises(s) PROVE TypeOK'
  BY <1>3 DEF CancelReturns, CancelRaises, TypeOK, Put
<1>4. ASSUME NEW s \in Sessions, StopCancel(s) PROVE TypeOK'
  BY <1>4 DEF StopCancel, TypeOK
<1>5. CASE StopBegin \/ StopFinish
  BY <1>5 DEF StopBegin, StopFinish, TypeOK
<1>6. ASSUME NEW w \in InitWorkers, NEW s \in Sessions, TakeInit(w, s) PROVE TypeOK'
  <2>1. initQ' \in [Sessions -> Nat]
    BY <1>6 DEF TakeInit, TypeOK, Take
  <2>2. StageType'
    BY <1>6, StageTypes DEF TakeInit, TypeOK, StageType, Stages
  <2>3. /\ final' \in [Sessions -> BOOLEAN] /\ runtime' \in [Sessions -> BOOLEAN]
        /\ inits' \in [Sessions -> Nat]
    <3>1. final' = final \/ final' = [final EXCEPT ![s] = TRUE]
      BY <1>6 DEF TakeInit
    <3>2. runtime' = runtime \/ runtime' = [runtime EXCEPT ![s] = TRUE]
      BY <1>6 DEF TakeInit
    <3>3. inits' = inits \/ inits' = Count(inits, s)
      BY <1>6 DEF TakeInit
    <3>4. final' \in [Sessions -> BOOLEAN]
      BY <3>1, FlagUpdate DEF TypeOK
    <3>5. runtime' \in [Sessions -> BOOLEAN]
      BY <3>2, FlagUpdate DEF TypeOK
    <3>6. inits' \in [Sessions -> Nat]
      BY <3>3 DEF TypeOK, Count
    <3>7. QED BY <3>4, <3>5, <3>6
  <2>4. initW' \in [InitWorkers -> [at : {"callback", "wait", "granted"}, on : Sessions]
                                     \union {IdleInit}]
    BY <1>6 DEF TakeInit, TypeOK
  <2>5. QED BY <1>6, <2>1, <2>2, <2>3, <2>4 DEF TakeInit, TypeOK, StageType
<1>7. ASSUME NEW w \in InitWorkers, InitDone(w) PROVE TypeOK'
  <2>1. initW[w].on \in Sessions
    BY <1>7 DEF InitDone, IdleInit, TypeOK
  <2>2. StageType'
    <3>1. CASE MoveToPostrun(initW[w].on) BY <3>1, <2>1, StageTypes
    <3>2. CASE ~MoveToPostrun(initW[w].on)
      <4>1. postQ' = postQ
        BY <3>2, <1>7 DEF InitDone
      <4>2. stage' = stage \/ stage' = [stage EXCEPT ![initW[w].on] = "READY"]
        BY <3>2, <1>7 DEF InitDone
      <4>3. inflight' = inflight \/ inflight' = [inflight EXCEPT ![initW[w].on] = FALSE]
        BY <3>2, <1>7 DEF InitDone
      <4>4. inflight' \in [Sessions -> BOOLEAN]
        BY <4>3, <2>1, FlagUpdate DEF TypeOK
      <4>5. stage' \in [Sessions -> Stages]
        BY <4>2, <2>1 DEF TypeOK, Stages
      <4>6. QED BY <4>1, <4>4, <4>5 DEF TypeOK, StageType
    <3>3. QED BY <3>1, <3>2
  <2>3. final' \in [Sessions -> BOOLEAN]
    <3>1. \E failed \in BOOLEAN : final' = [final EXCEPT ![initW[w].on] = failed]
      BY <1>7 DEF InitDone
    <3>2. QED BY <3>1, <2>1, FlagUpdate DEF TypeOK
  <2>4. initW' \in [InitWorkers -> [at : {"callback", "wait", "granted"}, on : Sessions]
                                     \union {IdleInit}]
    BY <1>7, <2>1 DEF InitDone, TypeOK
  <2>5. QED BY <1>7, <2>2, <2>3, <2>4 DEF InitDone, TypeOK, StageType
<1>8. ASSUME NEW w \in InitWorkers, Grant(w) \/ SlotAcquired(w) PROVE TypeOK'
  <2>1. initW[w].on \in Sessions
    BY <1>8 DEF Grant, SlotAcquired, IdleInit, TypeOK
  <2>2. QED
    BY <1>8, <2>1 DEF Grant, SlotAcquired, TypeOK, Put
<1>9. ASSUME NEW w \in InitWorkers, SlotAbandoned(w) PROVE TypeOK'
  <2>1. initW[w].on \in Sessions
    BY <1>9 DEF SlotAbandoned, IdleInit, TypeOK
  <2>2. StageType'
    BY <1>9, <2>1, StageTypes DEF SlotAbandoned
  <2>3. QED BY <1>9, <2>2 DEF SlotAbandoned, TypeOK, StageType
<1>10. ASSUME NEW w \in RunWorkers, NEW s \in Sessions, TakeReady(w, s) PROVE TypeOK'
  <2>1. readyQ' \in [Sessions -> Nat] /\ slots' \in Nat
    BY <1>10 DEF TakeReady, TypeOK, Take
  <2>2. StageType'
    BY <1>10, StageTypes DEF TakeReady, TypeOK, StageType, Stages
  <2>3. runW' \in [RunWorkers -> Sessions \union {None}] /\ runs' \in [Sessions -> Nat]
    BY <1>10 DEF TakeReady, TypeOK, Count
  <2>4. QED BY <1>10, <2>1, <2>2, <2>3 DEF TakeReady, TypeOK, StageType
<1>11. ASSUME NEW w \in RunWorkers, RunDone(w) PROVE TypeOK'
  <2>1. runW[w] \in Sessions
    BY <1>11 DEF RunDone, TypeOK
  <2>2. StageType'
    BY <1>11, <2>1, StageTypes DEF RunDone
  <2>3. final' \in [Sessions -> BOOLEAN] /\ slots' \in Nat
    <3>1. \E failed \in BOOLEAN : final' = [final EXCEPT ![runW[w]] = failed]
      BY <1>11 DEF RunDone
    <3>2. slots' = slots + 1
      BY <1>11 DEF RunDone
    <3>3. final' \in [Sessions -> BOOLEAN]
      BY <2>1, <3>1, FlagUpdate DEF TypeOK
    <3>4. QED BY <3>2, <3>3 DEF TypeOK
  <2>4. QED BY <1>11, <2>2, <2>3 DEF RunDone, TypeOK, StageType
<1>12. ASSUME NEW w \in PostWorkers, NEW s \in Sessions, TakePost(w, s) PROVE TypeOK'
  <2>1. StageType'
    <3>1. CASE s \in live
      BY <3>1, <1>12, StageTypes DEF TakePost, Stages
    <3>2. CASE s \notin live
      BY <3>2, <1>12 DEF TakePost, TypeOK, StageType, Take
    <3>3. QED BY <3>1, <3>2
  <2>2. postW' \in [PostWorkers -> Sessions \union {None}] /\ posts' \in [Sessions -> Nat]
    BY <1>12 DEF TakePost, TypeOK, Count
  <2>3. QED BY <1>12, <2>1, <2>2 DEF TakePost, TypeOK, StageType
<1>13. ASSUME NEW w \in PostWorkers, PostDone(w) PROVE TypeOK'
  BY <1>13 DEF PostDone, TypeOK
<1>14. CASE UNCHANGED vars
  BY <1>14 DEF vars, TypeOK
<1>15. QED
  BY <1>1, <1>2, <1>3, <1>4, <1>5, <1>6, <1>7, <1>8, <1>9, <1>10, <1>11, <1>12,
     <1>13, <1>14
  DEF Next

\* Every variable keeps its type; slots in particular never goes negative, so a
\* worker granted a slot really took one.
THEOREM TypeCorrect == Spec => []TypeOK
<1>1. Init => TypeOK
  <2>1. Cardinality(RunWorkers) \in Nat
    BY DispatcherAssumption, FS_CardinalityType
  <2>2. QED BY <2>1, DispatcherAssumption DEF Init, TypeOK, Stages
<1>2. TypeOK /\ [Next]_vars => TypeOK'
  BY TypeStep
<1>3. QED BY <1>1, <1>2, PTL DEF Spec
-----------------------------------------------------------------------------
(***************************************************************************)
(* SessionInv is kept by every action.  An action moves one session: what  *)
(* the invariant says of any other is about variables the action leaves    *)
(* alone (SameKeeps).  Then, action by action, the session it moves.       *)
(***************************************************************************)

\* A step that leaves alone everything SessionInv(s) speaks of.
SameSession(s) ==
    /\ stage'[s] = stage[s] /\ inflight'[s] = inflight[s] /\ final'[s] = final[s]
    /\ cancelled'[s] = cancelled[s] /\ canceller'[s] = canceller[s]
    /\ initQ'[s] = initQ[s] /\ readyQ'[s] = readyQ[s] /\ postQ'[s] = postQ[s]
    /\ inits'[s] = inits[s] /\ runs'[s] = runs[s] /\ posts'[s] = posts[s]
SameWorkers(s) ==
    /\ \A w \in InitWorkers :
          initW'[w] = initW[w] \/ (initW[w].on # s /\ initW'[w].on # s)
    /\ \A w \in RunWorkers  : runW'[w] = s <=> runW[w] = s
    /\ \A w \in PostWorkers : postW'[w] = s <=> postW[w] = s
SameLife(s) ==
    /\ phase' = phase /\ stopList' = stopList
    /\ live' \subseteq known' /\ stopList' \subseteq known'
    /\ s \in live' <=> s \in live
    /\ s \in known' <=> s \in known
Same(s) == SameSession(s) /\ SameWorkers(s) /\ SameLife(s)

\* What the invariant says of a session holds as long as nothing of it changes.
LEMMA SameKeeps ==
    ASSUME NEW s \in Sessions, SessionInv(s), Same(s)
    PROVE  SessionInv(s)'
<1> USE DEF Same, SameSession, SameWorkers, SameLife
<1>1. /\ NoInitWorker(s)' <=> NoInitWorker(s)
      /\ NoRunWorker(s)' <=> NoRunWorker(s)
      /\ NoPostWorker(s)' <=> NoPostWorker(s)
  BY DEF NoInitWorker, NoRunWorker, NoPostWorker
<1>2. NoToken(s)' <=> NoToken(s)
  BY <1>1 DEF NoToken
<1>3. NoPost(s)' <=> NoPost(s)
  BY <1>1 DEF NoPost
<1>4. PastInit(s)' <=> PastInit(s)
  <2>1. \A w \in InitWorkers :
           initW'[w].on = s /\ initW'[w].at # "callback"
             <=> initW[w].on = s /\ initW[w].at # "callback"
    OBVIOUS
  <2>2. QED BY <2>1 DEF PastInit
<1>5. Somewhere(s)' <=> Somewhere(s)
  BY <1>1, <1>2 DEF Somewhere
<1>6. FreshInv(s)'
  BY <1>2, <1>3 DEF SessionInv, FreshInv
<1>7. TokenInv(s)'
  BY <1>1 DEF SessionInv, TokenInv
<1>8. PostrunInv(s)'
  BY <1>1, <1>2, <1>3 DEF SessionInv, PostrunInv
<1>9. StageInv(s)'
  BY <1>1, <1>4 DEF SessionInv, StageInv
<1>10. LiveInv(s)'
  BY <1>4, <1>5 DEF SessionInv, LiveInv
<1>11. QED BY <1>6, <1>7, <1>8, <1>9, <1>10 DEF SessionInv

\* The invariant of one session and the facts about the whole that go with it.
LEMMA InvOf ==
    ASSUME IInv, NEW s \in Sessions
    PROVE  /\ TypeOK /\ FreshInv(s) /\ TokenInv(s) /\ PostrunInv(s) /\ StageInv(s)
           /\ LiveInv(s) /\ live \subseteq known /\ stopList \subseteq known
BY DEF IInv, SessionInv, FreshInv

\* enqueue() puts the token of a fresh session in the init queue.
LEMMA EnqueueKeeps ==
    ASSUME IInv, NEW t \in Sessions, Enqueue(t)
    PROVE  \A s \in Sessions : SessionInv(s)'
<1> USE DispatcherAssumption DEF sessionVars, queues, workers, history, lifeVars
<1>1. ASSUME NEW s \in Sessions, s # t PROVE SessionInv(s)'
  <2>1. Same(s)
    BY <1>1, InvOf DEF Enqueue, Put, TypeOK, Same, SameSession, SameWorkers, SameLife
  <2>2. QED BY <1>1, <2>1, SameKeeps DEF IInv
<1>2. SessionInv(t)'
  <2>1. /\ NoToken(t) /\ NoPost(t) /\ stage[t] = "INIT" /\ ~inflight[t] /\ ~cancelled[t]
        /\ ~final[t] /\ canceller[t] = "no" /\ inits[t] = 0 /\ runs[t] = 0
        /\ live \subseteq known /\ stopList \subseteq known
        /\ phase = "started" => stopList = {}
    BY InvOf DEF Enqueue, FreshInv, LiveInv
  <2>2. /\ initQ'[t] = 1 /\ live' = live \union {t} /\ known' = known \union {t}
        /\ t \notin stopList
        /\ UNCHANGED <<sessionVars, readyQ, postQ, workers, history, phase, stopList,
                       canceller>>
    BY <2>1, InvOf DEF Enqueue, Put, NoToken, TypeOK
  <2>3. NoInitWorker(t)' /\ NoRunWorker(t)' /\ NoPost(t)' /\ NoPostWorker(t)'
    BY <2>1, <2>2 DEF NoToken, NoInitWorker, NoRunWorker, NoPost, NoPostWorker
  <2>4. FreshInv(t)'
    BY <2>1, <2>2 DEF FreshInv
  <2>5. TokenInv(t)'
    BY <2>1, <2>2, <2>3 DEF TokenInv, NoToken, NoInitWorker, NoRunWorker
  <2>6. PostrunInv(t)'
    BY <2>1, <2>2, <2>3 DEF PostrunInv, NoPost, NoInitWorker, NoRunWorker, NoPostWorker
  <2>7. ~PastInit(t)'
    BY <2>1, <2>2, <2>3 DEF PastInit, NoToken, NoInitWorker
  <2>8. StageInv(t)'
    BY <2>1, <2>2, <2>3, <2>7 DEF StageInv, NoPost, NoInitWorker, NoRunWorker, NoPostWorker
  <2>9. Somewhere(t)'
    BY <2>2 DEF Somewhere, NoToken
  <2>10. LiveInv(t)'
    BY <2>1, <2>2, <2>7, <2>9 DEF LiveInv
  <2>11. QED BY <2>4, <2>5, <2>6, <2>8, <2>10 DEF SessionInv
<1>3. QED BY <1>1, <1>2

\* cancel() of a parked session starts the second path to POSTRUN; its token
\* stays where it is.
LEMMA CancelKeeps ==
    ASSUME IInv, NEW t \in Sessions, Cancel(t)
    PROVE  \A s \in Sessions : SessionInv(s)'
<1> USE DispatcherAssumption DEF sessionVars, queues, workers, history, lifeVars
<1>1. ASSUME NEW s \in Sessions, s # t PROVE SessionInv(s)'
  <2>1. Same(s)
    BY <1>1, InvOf DEF Cancel, Put, TypeOK, Same, SameSession, SameWorkers, SameLife
  <2>2. QED BY <1>1, <2>1, SameKeeps DEF IInv
<1>2. SessionInv(t)'
  <2>1. /\ t \in live /\ t \in known /\ ~cancelled[t] /\ canceller[t] = "no"
        /\ cancelled'[t]
        /\ UNCHANGED <<inflight, final, runtime, initQ, readyQ, workers, history, lifeVars>>
    BY InvOf DEF Cancel, PostrunInv, TypeOK
  <2>2. /\ NoInitWorker(t)' <=> NoInitWorker(t)
        /\ NoRunWorker(t)' <=> NoRunWorker(t)
        /\ NoPostWorker(t)' <=> NoPostWorker(t)
        /\ PastInit(t)' <=> PastInit(t)
    BY <2>1 DEF NoInitWorker, NoRunWorker, NoPostWorker, PastInit
  <2>3. FreshInv(t)'
    BY <2>1, InvOf DEF FreshInv
  <2>4. TokenInv(t)'
    BY <2>1, <2>2, InvOf DEF TokenInv
  <2>5. LiveInv(t)'
    BY <2>1, InvOf DEF LiveInv
  <2>6. CASE Parked(t)
    <3>1. stage'[t] = "POSTRUN"
      BY <2>6, InvOf DEF Cancel, TypeOK
    <3>2. /\ \A w \in InitWorkers : ~(initW[w].on = t /\ initW[w].at = "callback")
          /\ NoRunWorker(t)
      BY <2>6, InvOf DEF Parked, StageInv, NoRunWorker
    <3>3. PostrunInv(t)'
      BY <2>1, <3>2 DEF PostrunInv, NoRunWorker
    <3>4. StageInv(t)'
      BY <2>1, <3>1, <3>2 DEF StageInv, NoRunWorker
    <3>5. QED BY <2>3, <2>4, <2>5, <3>3, <3>4 DEF SessionInv
  <2>7. CASE ~Parked(t)
    <3>1. stage'[t] = stage[t] /\ postQ' = postQ /\ canceller'[t] # "parked"
      BY <2>7, InvOf DEF Cancel, TypeOK
    <3>2. ~(initQ[t] > 0) /\ ~PastInit(t)
      BY <2>1, <2>7, InvOf DEF StageInv, Parked
    <3>3. PostrunInv(t)'
      BY <2>1, <2>2, <3>1, InvOf DEF PostrunInv, NoPost
    <3>4. StageInv(t)'
      BY <2>1, <2>2, <3>1, <3>2, InvOf DEF StageInv
    <3>5. QED BY <2>3, <2>4, <2>5, <3>3, <3>4 DEF SessionInv
  <2>8. QED BY <2>6, <2>7
<1>3. QED BY <1>1, <1>2

\* runtime.cancel() returned or raised: the second path reaches the post-run queue
\* or ends.
LEMMA CancelEndsKeeps ==
    ASSUME IInv, NEW t \in Sessions, CancelReturns(t) \/ CancelRaises(t)
    PROVE  \A s \in Sessions : SessionInv(s)'
<1> USE DispatcherAssumption DEF sessionVars, queues, workers, history, lifeVars
<1>1. ASSUME NEW s \in Sessions, s # t PROVE SessionInv(s)'
  <2>1. Same(s)
    BY <1>1, InvOf DEF CancelReturns, CancelRaises, Put, TypeOK, Same, SameSession,
                       SameWorkers, SameLife
  <2>2. QED BY <1>1, <2>1, SameKeeps DEF IInv
<1>2. SessionInv(t)'
  <2>1. /\ canceller[t] # "no" /\ canceller'[t] = "no"
        /\ postQ'[t] = postQ[t] \/ canceller[t] = "parked"
        /\ UNCHANGED <<sessionVars, initQ, readyQ, workers, history, lifeVars>>
    BY InvOf DEF CancelReturns, CancelRaises, Put, TypeOK
  <2>2. cancelled[t] /\ t \in known
    BY <2>1, InvOf DEF PostrunInv, FreshInv
  <2>3. /\ NoInitWorker(t)' <=> NoInitWorker(t)
        /\ NoRunWorker(t)' <=> NoRunWorker(t)
        /\ NoPostWorker(t)' <=> NoPostWorker(t)
        /\ PastInit(t)' <=> PastInit(t)
    BY <2>1 DEF NoInitWorker, NoRunWorker, NoPostWorker, PastInit
  <2>4. canceller[t] = "parked" =>
           /\ \A w \in InitWorkers : ~(initW[w].on = t /\ initW[w].at = "callback")
           /\ NoRunWorker(t)
           /\ t \in live => stage[t] = "POSTRUN"
    BY InvOf DEF PostrunInv, StageInv, NoRunWorker
  <2>5. FreshInv(t)'
    BY <2>1, <2>2, InvOf DEF FreshInv
  <2>6. TokenInv(t)'
    BY <2>1, <2>3, InvOf DEF TokenInv
  <2>7. PostrunInv(t)'
    BY <2>1, <2>2, <2>3, <2>4, InvOf DEF PostrunInv, NoPost, NoRunWorker
  <2>8. StageInv(t)'
    BY <2>1, <2>2, <2>3, <2>4, InvOf DEF StageInv
  <2>9. LiveInv(t)'
    BY <2>1, <2>2, InvOf DEF LiveInv
  <2>10. QED BY <2>5, <2>6, <2>7, <2>8, <2>9 DEF SessionInv
<1>3. QED BY <1>1, <1>2

\* stop() takes every session out of the dictionary and remembers them.
LEMMA StopBeginKeeps ==
    ASSUME IInv, StopBegin
    PROVE  \A s \in Sessions : SessionInv(s)'
<1> USE DispatcherAssumption DEF sessionVars, queues, workers, history, lifeVars
<1>1. SUFFICES ASSUME NEW s \in Sessions PROVE SessionInv(s)'
  OBVIOUS
<1>2. /\ live' = {} /\ stopList' = live /\ phase' = "stopping"
      /\ UNCHANGED <<sessionVars, queues, workers, history, known, canceller>>
  BY DEF StopBegin
<1>3. /\ NoInitWorker(s)' <=> NoInitWorker(s)
      /\ NoRunWorker(s)' <=> NoRunWorker(s)
      /\ NoPostWorker(s)' <=> NoPostWorker(s)
      /\ PastInit(s)' <=> PastInit(s)
  BY <1>2 DEF NoInitWorker, NoRunWorker, NoPostWorker, PastInit
<1>4. (NoToken(s)' <=> NoToken(s)) /\ (NoPost(s)' <=> NoPost(s))
  BY <1>2, <1>3 DEF NoToken, NoPost
<1>5. FreshInv(s)'
  BY <1>2, <1>4, InvOf DEF FreshInv
<1>6. TokenInv(s)'
  BY <1>2, <1>3, InvOf DEF TokenInv
<1>7. PostrunInv(s)'
  BY <1>2, <1>3, <1>4, InvOf DEF PostrunInv
<1>8. StageInv(s)'
  BY <1>2, <1>3, InvOf DEF StageInv
<1>9. LiveInv(s)'
  BY <1>2 DEF LiveInv
<1>10. QED BY <1>5, <1>6, <1>7, <1>8, <1>9 DEF SessionInv

\* stop() marks one of the sessions it found as cancelled.
LEMMA StopCancelKeeps ==
    ASSUME IInv, NEW t \in Sessions, StopCancel(t)
    PROVE  \A s \in Sessions : SessionInv(s)'
<1> USE DispatcherAssumption DEF sessionVars, queues, workers, history, lifeVars
<1>1. SUFFICES ASSUME NEW s \in Sessions PROVE SessionInv(s)'
  OBVIOUS
<1>2. /\ t \in stopList /\ stopList' = stopList \ {t} /\ phase # "started"
      /\ t \notin live /\ t \in known
      /\ cancelled'[t] /\ (s # t => cancelled'[s] = cancelled[s])
      /\ cancelled[s] => cancelled'[s]
      /\ UNCHANGED <<stage, inflight, final, runtime, queues, workers, history, phase, live,
                     known, canceller>>
  BY InvOf DEF StopCancel, LiveInv, TypeOK
<1>3. /\ NoInitWorker(s)' <=> NoInitWorker(s)
      /\ NoRunWorker(s)' <=> NoRunWorker(s)
      /\ NoPostWorker(s)' <=> NoPostWorker(s)
      /\ PastInit(s)' <=> PastInit(s)
  BY <1>2 DEF NoInitWorker, NoRunWorker, NoPostWorker, PastInit
<1>4. (NoToken(s)' <=> NoToken(s)) /\ (NoPost(s)' <=> NoPost(s))
  BY <1>2, <1>3 DEF NoToken, NoPost
<1>5. Somewhere(s)' <=> Somewhere(s)
  BY <1>2, <1>3, <1>4 DEF Somewhere
<1>6. FreshInv(s)'
  BY <1>2, <1>4, InvOf DEF FreshInv
<1>7. TokenInv(s)'
  BY <1>2, <1>3, InvOf DEF TokenInv
<1>8. PostrunInv(s)'
  BY <1>2, <1>3, <1>4, InvOf DEF PostrunInv
<1>9. StageInv(s)'
  BY <1>2, <1>3, InvOf DEF StageInv
<1>10. LiveInv(s)'
  BY <1>2, <1>3, <1>5, InvOf DEF LiveInv
<1>11. QED BY <1>6, <1>7, <1>8, <1>9, <1>10 DEF SessionInv

\* The workers are gone, and with them the tokens in their hands.
LEMMA StopFinishKeeps ==
    ASSUME IInv, StopFinish
    PROVE  \A s \in Sessions : SessionInv(s)'
<1> USE DispatcherAssumption DEF sessionVars, queues, workers, history, lifeVars
<1>1. SUFFICES ASSUME NEW s \in Sessions PROVE SessionInv(s)'
  OBVIOUS
<1>2. /\ \A w \in InitWorkers : initW'[w] = IdleInit
      /\ \A w \in RunWorkers : runW'[w] = None
      /\ \A p \in PostWorkers : postW'[p] = None
      /\ UNCHANGED <<sessionVars, queues, history, live, known, stopList, canceller>>
      /\ phase' = "stopped" /\ stopList = {}
  BY DEF StopFinish
<1>3. NoInitWorker(s)' /\ NoRunWorker(s)' /\ NoPostWorker(s)'
  BY <1>2 DEF NoInitWorker, NoRunWorker, NoPostWorker, IdleInit
<1>4. (NoToken(s) => NoToken(s)') /\ (NoPost(s) => NoPost(s)')
  BY <1>2, <1>3 DEF NoToken, NoPost
<1>5. PastInit(s)' <=> readyQ[s] > 0
  BY <1>2, <1>3 DEF PastInit, NoInitWorker
<1>6. FreshInv(s)'
  BY <1>2, <1>4, InvOf DEF FreshInv
<1>7. TokenInv(s)'
  BY <1>2, <1>3, InvOf DEF TokenInv, NoInitWorker, NoRunWorker
<1>8. PostrunInv(s)'
  <2>1. ~NoToken(s)' => ~NoToken(s)
    BY <1>4
  <2>2. QED
    BY <1>2, <1>3, <1>4, <2>1, InvOf DEF PostrunInv, NoInitWorker, NoRunWorker, NoPostWorker
<1>9. StageInv(s)'
  BY <1>2, <1>3, <1>5, InvOf DEF StageInv, PastInit, NoInitWorker, NoRunWorker
<1>10. LiveInv(s)'
  BY <1>2 DEF LiveInv
<1>11. QED BY <1>6, <1>7, <1>8, <1>9, <1>10 DEF SessionInv

\* The token of t is spent: t is put in the post-run queue unless it is gone or
\* cancel() has sent it to POSTRUN before.
LEMMA TokenSpent ==
    ASSUME IInv, NEW t \in Sessions, ~NoToken(t), NoToken(t)',
           MoveToPostrun(t) \/ (t \in live /\ EnterPostrun(t)),
           inits'[t] <= 1, runs'[t] <= inits'[t],
           UNCHANGED <<cancelled, canceller, postW, posts, lifeVars>>
    PROVE  SessionInv(t)'
<1> USE DEF lifeVars
<1>1. t \in known
  BY InvOf DEF FreshInv
<1>2. ~cancelled[t] => NoPost(t) /\ canceller[t] = "no" /\ stage[t] # "POSTRUN"
  <2>1. initQ[t] > 0 \/ readyQ[t] > 0 \/ ~NoInitWorker(t) \/ ~NoRunWorker(t)
    BY InvOf DEF NoToken, TypeOK
  <2>2. ~cancelled[t] /\ initQ[t] > 0 => stage[t] # "POSTRUN"
    BY InvOf DEF StageInv
  <2>3. ~cancelled[t] /\ readyQ[t] > 0 => stage[t] # "POSTRUN"
    BY InvOf DEF StageInv, PastInit
  <2>4. ~cancelled[t] /\ ~NoInitWorker(t) => stage[t] # "POSTRUN"
    BY InvOf DEF StageInv, PastInit, NoInitWorker
  <2>5. ~NoRunWorker(t) => stage[t] # "POSTRUN"
    BY InvOf DEF StageInv, NoRunWorker
  <2>6. ~cancelled[t] => NoPost(t) /\ canceller[t] = "no"
    BY InvOf DEF PostrunInv
  <2>7. QED BY <2>1, <2>2, <2>3, <2>4, <2>5, <2>6
<1>3. t \in live => stage'[t] = "POSTRUN"
  BY InvOf DEF MoveToPostrun, EnterPostrun, TypeOK
<1>4. ~cancelled[t] /\ t \in live => postQ'[t] = 1 /\ ~inflight'[t]
  <2>1. ~cancelled[t] /\ t \in live => EnterPostrun(t) /\ postQ[t] = 0
    BY <1>2 DEF MoveToPostrun, NoPost
  <2>2. QED BY <2>1, InvOf DEF EnterPostrun, Put, TypeOK
<1>5. ~cancelled[t] /\ t \notin live => postQ'[t] = 0
  BY <1>2 DEF MoveToPostrun, NoPost
<1>6. /\ NoPostWorker(t)' <=> NoPostWorker(t)
      /\ ~cancelled[t] => NoPostWorker(t) /\ posts[t] = 0
  BY <1>2 DEF NoPost, NoPostWorker
<1>7. NoInitWorker(t)' /\ NoRunWorker(t)' /\ initQ'[t] = 0 /\ readyQ'[t] = 0 /\ ~PastInit(t)'
  BY DEF NoToken, NoInitWorker, PastInit
<1>8. FreshInv(t)'
  BY <1>1, InvOf DEF FreshInv
<1>9. TokenInv(t)'
  BY <1>7 DEF TokenInv, NoInitWorker, NoRunWorker
<1>10. PostrunInv(t)'
  <2>1. ~cancelled[t] => /\ canceller[t] = "no" /\ posts[t] = 0 /\ NoPostWorker(t)
                         /\ postQ'[t] > 0 => postQ'[t] = 1
    BY <1>2, <1>4, <1>5, <1>6
  <2>2. QED
    BY <1>6, <1>7, <2>1 DEF PostrunInv, NoInitWorker, NoRunWorker, NoPostWorker
<1>11. StageInv(t)'
  <2>1. ~cancelled[t] => /\ NoPostWorker(t)
                         /\ postQ'[t] > 0 => stage'[t] = "POSTRUN" /\ ~inflight'[t]
    BY <1>3, <1>4, <1>5, <1>6
  <2>2. QED
    BY <1>3, <1>6, <1>7, <2>1 DEF StageInv, NoInitWorker, NoRunWorker
<1>12. LiveInv(t)'
  <2>1. ~cancelled[t] /\ t \in live => Somewhere(t)'
    BY <1>4 DEF Somewhere
  <2>2. QED BY <1>7, <2>1, InvOf DEF LiveInv
<1>13. QED BY <1>8, <1>9, <1>10, <1>11, <1>12 DEF SessionInv

\* An init worker takes the token out of the init queue.
LEMMA TakeInitKeeps ==
    ASSUME IInv, NEW u \in InitWorkers, NEW t \in Sessions, TakeInit(u, t)
    PROVE  \A s \in Sessions : SessionInv(s)'
<1> USE DispatcherAssumption DEF lifeVars
<1>1. /\ initW[u] = IdleInit /\ initQ[t] = 1 /\ initQ' = Take(initQ, t)
      /\ UNCHANGED <<cancelled, readyQ, runW, postW, runs, posts, lifeVars, slots, canceller>>
      /\ readyQ[t] = 0 /\ NoInitWorker(t) /\ NoRunWorker(t) /\ inits[t] = 0 /\ runs[t] = 0
      /\ ~final[t] /\ t \in known
  BY InvOf DEF TakeInit, TokenInv, FreshInv, NoToken, TypeOK
<1>2. initQ'[t] = 0 /\ ~NoToken(t)
  BY <1>1, InvOf DEF Take, TypeOK, NoToken
<1>3. ASSUME NEW s \in Sessions, s # t PROVE SessionInv(s)'
  <2>1. /\ stage'[s] = stage[s] /\ inflight'[s] = inflight[s] /\ postQ'[s] = postQ[s]
        /\ final'[s] = final[s] /\ inits'[s] = inits[s] /\ initQ'[s] = initQ[s]
    BY <1>3, InvOf DEF TakeInit, EnterPostrun, Begin, Put, Take, Count, TypeOK
  <2>2. \A w \in InitWorkers :
           initW'[w] = initW[w] \/ (initW[w].on # s /\ initW'[w].on # s)
    BY <1>3, InvOf DEF TakeInit, IdleInit, TypeOK
  <2>3. Same(s)
    BY <1>1, <2>1, <2>2, InvOf DEF Same, SameSession, SameWorkers, SameLife
  <2>4. QED BY <2>3, SameKeeps DEF IInv
<1>4. SessionInv(t)'
  <2>1. CASE /\ initW' = initW /\ inits' = inits
             /\ MoveToPostrun(t) \/ (t \in live /\ EnterPostrun(t))
    <3>1. NoToken(t)'
      BY <1>1, <1>2, <2>1 DEF NoToken, NoInitWorker, NoRunWorker
    <3>2. QED BY <1>1, <1>2, <2>1, <3>1, TokenSpent
  <2>2. CASE initW' = initW /\ inits' = Count(inits, t) /\ t \in live /\ EnterPostrun(t)
    <3>1. NoToken(t)'
      BY <1>1, <1>2, <2>2 DEF NoToken, NoInitWorker, NoRunWorker
    <3>2. inits'[t] = 1
      BY <1>1, <2>2, InvOf DEF Count, TypeOK
    <3>3. QED BY <1>1, <1>2, <2>2, <3>1, <3>2, TokenSpent
  <2>3. CASE /\ t \in live /\ ~Skips(t) /\ Begin(t, "INIT")
             /\ initW' = [initW EXCEPT ![u] = [at |-> "callback", on |-> t]]
             /\ inits' = Count(inits, t) /\ UNCHANGED <<final, postQ>>
    <3>1. /\ stage'[t] = "INIT" /\ inflight'[t] /\ inits'[t] = 1 /\ ~cancelled[t]
          /\ initW'[u] = [at |-> "callback", on |-> t]
          /\ \A w \in InitWorkers : w # u => initW'[w] = initW[w]
      BY <1>1, <2>3, InvOf DEF Begin, Count, Skips, TypeOK
    <3>2. NoPost(t) /\ canceller[t] = "no"
      BY <1>2, <3>1, InvOf DEF PostrunInv
    <3>3. NoPost(t)' /\ NoPostWorker(t)' /\ NoRunWorker(t)'
      BY <1>1, <2>3, <3>2 DEF NoPost, NoPostWorker, NoRunWorker
    <3>4. \A w \in InitWorkers : initW'[w].on = t => w = u
      BY <1>1, <3>1 DEF NoInitWorker
    <3>5. ~PastInit(t)'
      BY <1>1, <3>1, <3>4 DEF PastInit
    <3>6. FreshInv(t)'
      BY <1>1, InvOf DEF FreshInv
    <3>7. TokenInv(t)'
      BY <1>1, <1>2, <2>3, <3>1, <3>3, <3>4 DEF TokenInv, NoRunWorker
    <3>8. PostrunInv(t)'
      BY <1>1, <3>2, <3>3 DEF PostrunInv, NoPost, NoRunWorker, NoPostWorker
    <3>9. StageInv(t)'
      BY <1>1, <1>2, <3>1, <3>2, <3>3, <3>4, <3>5 DEF StageInv, NoPost, NoRunWorker
    <3>10. Somewhere(t)'
      BY <3>1 DEF Somewhere, NoToken, NoInitWorker
    <3>11. LiveInv(t)'
      BY <1>1, <3>5, <3>10, InvOf DEF LiveInv
    <3>12. QED BY <3>6, <3>7, <3>8, <3>9, <3>11 DEF SessionInv
  <2>4. QED BY <2>1, <2>2, <2>3 DEF TakeInit, MoveToPostrun
<1>5. QED BY <1>3, <1>4

\* The init callback is over: the session waits for a run slot or is on its way out.
LEMMA InitDoneKeeps ==
    ASSUME IInv, NEW u \in InitWorkers, InitDone(u)
    PROVE  \A s \in Sessions : SessionInv(s)'
<1> USE DispatcherAssumption DEF lifeVars
<1>1. PICK t \in Sessions : initW[u].on = t
  BY DEF IInv, InitDone, IdleInit, TypeOK
<1>2. /\ initW[u].at = "callback" /\ initQ[t] = 0 /\ readyQ[t] = 0 /\ NoRunWorker(t)
      /\ \A w \in InitWorkers : w # u => initW[w].on # t
      /\ inits[t] = 1 /\ runs[t] = 0 /\ ~NoToken(t) /\ NoPost(t)
      /\ UNCHANGED <<cancelled, runtime, initQ, readyQ, runW, postW, history, lifeVars,
                     slots, canceller>>
  BY <1>1, InvOf DEF InitDone, TokenInv, PostrunInv, NoToken, NoInitWorker
<1>3. \/ MoveToPostrun(t) /\ initW' = [initW EXCEPT ![u] = IdleInit]
      \/ /\ ~cancelled[t] /\ t \in live /\ postQ' = postQ
         /\ final' = [final EXCEPT ![t] = FALSE]
         /\ stage' = [stage EXCEPT ![t] = "READY"]
         /\ inflight' = [inflight EXCEPT ![t] = FALSE]
         /\ initW' = [initW EXCEPT ![u] = [at |-> "wait", on |-> t]]
  BY <1>1 DEF InitDone, MoveToPostrun
<1>4. ASSUME NEW s \in Sessions, s # t PROVE SessionInv(s)'
  <2>1. /\ stage'[s] = stage[s] /\ inflight'[s] = inflight[s] /\ postQ'[s] = postQ[s]
    BY <1>3, <1>4, InvOf DEF MoveToPostrun, EnterPostrun, Put, TypeOK
  <2>2. \E b \in BOOLEAN : final' = [final EXCEPT ![t] = b]
    BY <1>1 DEF InitDone
  <2>3. final'[s] = final[s]
    BY <1>4, <2>2, InvOf DEF TypeOK
  <2>4. \A w \in InitWorkers :
           initW'[w] = initW[w] \/ (initW[w].on # s /\ initW'[w].on # s)
    BY <1>1, <1>3, <1>4, InvOf DEF IdleInit, TypeOK
  <2>5. Same(s)
    BY <1>2, <2>1, <2>3, <2>4, InvOf DEF history, Same, SameSession, SameWorkers, SameLife
  <2>6. QED BY <2>5, SameKeeps DEF IInv
<1>5. SessionInv(t)'
  <2>1. CASE MoveToPostrun(t) /\ initW' = [initW EXCEPT ![u] = IdleInit]
    <3>1. \A w \in InitWorkers : initW'[w].on # t
      BY <1>2, <2>1, InvOf DEF IdleInit, TypeOK
    <3>2. NoToken(t)'
      BY <1>2, <3>1 DEF NoToken, NoInitWorker, NoRunWorker
    <3>3. QED BY <1>2, <2>1, <3>2, TokenSpent DEF history
  <2>2. CASE /\ ~cancelled[t] /\ t \in live /\ postQ' = postQ
             /\ final' = [final EXCEPT ![t] = FALSE]
             /\ stage' = [stage EXCEPT ![t] = "READY"]
             /\ inflight' = [inflight EXCEPT ![t] = FALSE]
             /\ initW' = [initW EXCEPT ![u] = [at |-> "wait", on |-> t]]
    <3>1. /\ stage'[t] = "READY" /\ ~inflight'[t] /\ ~final'[t] /\ canceller[t] = "no"
          /\ initW'[u] = [at |-> "wait", on |-> t]
          /\ \A w \in InitWorkers : w # u => initW'[w] = initW[w]
      BY <2>2, InvOf DEF TypeOK, PostrunInv
    <3>2. NoPost(t)' /\ NoPostWorker(t)' /\ NoRunWorker(t)' /\ postQ'[t] = 0
      BY <1>2, <2>2 DEF NoPost, NoPostWorker, NoRunWorker, history
    <3>3. \A w \in InitWorkers : initW'[w].on = t => w = u
      BY <1>2, <3>1
    <3>4. FreshInv(t)'
      BY <1>2, <2>2, InvOf DEF FreshInv
    <3>5. TokenInv(t)'
      BY <1>2, <3>1, <3>2, <3>3 DEF TokenInv, NoRunWorker, history
    <3>6. PostrunInv(t)'
      BY <1>2, <3>1, <3>2 DEF PostrunInv, NoPost, NoRunWorker, NoPostWorker
    <3>7. StageInv(t)'
      BY <1>2, <2>2, <3>1, <3>2, <3>3 DEF StageInv, NoRunWorker
    <3>8. Somewhere(t)'
      BY <3>1 DEF Somewhere, NoToken, NoInitWorker
    <3>9. LiveInv(t)'
      BY <1>2, <2>2, <3>8, InvOf DEF LiveInv
    <3>10. QED BY <3>4, <3>5, <3>6, <3>7, <3>9 DEF SessionInv
  <2>3. QED BY <1>3, <2>1, <2>2
<1>6. QED BY <1>4, <1>5

\* A waiting init worker is granted a run slot: it still has the token.
LEMMA GrantKeeps ==
    ASSUME IInv, NEW u \in InitWorkers, Grant(u)
    PROVE  \A s \in Sessions : SessionInv(s)'
<1> USE DEF sessionVars, queues, history, lifeVars
<1>1. SUFFICES ASSUME NEW s \in Sessions PROVE SessionInv(s)'
  OBVIOUS
<1>2. /\ UNCHANGED <<sessionVars, queues, runW, postW, history, lifeVars, canceller>>
      /\ \A w \in InitWorkers :
            /\ initW'[w].on = initW[w].on
            /\ initW'[w].at = "callback" <=> initW[w].at = "callback"
  BY InvOf DEF Grant, TypeOK
<1>3. /\ NoInitWorker(s)' <=> NoInitWorker(s)
      /\ NoRunWorker(s)' <=> NoRunWorker(s)
      /\ NoPostWorker(s)' <=> NoPostWorker(s)
      /\ PastInit(s)' <=> PastInit(s)
  BY <1>2 DEF NoInitWorker, NoRunWorker, NoPostWorker, PastInit
<1>4. (NoToken(s)' <=> NoToken(s)) /\ (NoPost(s)' <=> NoPost(s))
  BY <1>2, <1>3 DEF NoToken, NoPost
<1>5. Somewhere(s)' <=> Somewhere(s)
  BY <1>2, <1>3, <1>4 DEF Somewhere
<1>6. FreshInv(s)'
  BY <1>2, <1>4, InvOf DEF FreshInv
<1>7. TokenInv(s)'
  BY <1>2, <1>3, InvOf DEF TokenInv
<1>8. PostrunInv(s)'
  BY <1>2, <1>3, <1>4, InvOf DEF PostrunInv
<1>9. StageInv(s)'
  BY <1>2, <1>3, InvOf DEF StageInv
<1>10. LiveInv(s)'
  BY <1>2, <1>3, <1>5, InvOf DEF LiveInv
<1>11. QED BY <1>6, <1>7, <1>8, <1>9, <1>10 DEF SessionInv

\* The token moves from the init worker to the ready queue.
LEMMA SlotAcquiredKeeps ==
    ASSUME IInv, NEW u \in InitWorkers, SlotAcquired(u)
    PROVE  \A s \in Sessions : SessionInv(s)'
<1> USE DispatcherAssumption DEF sessionVars, history, lifeVars
<1>1. PICK t \in Sessions : initW[u].on = t
  BY DEF IInv, SlotAcquired, IdleInit, TypeOK
<1>2. /\ initW[u].at = "granted" /\ initQ[t] = 0 /\ readyQ[t] = 0 /\ NoRunWorker(t)
      /\ \A w \in InitWorkers : w # u => initW[w].on # t
      /\ inits[t] = 1 /\ runs[t] = 0 /\ ~final[t] /\ ~NoToken(t) /\ ~cancelled[t]
      /\ readyQ' = Put(readyQ, t) /\ initW' = [initW EXCEPT ![u] = IdleInit]
      /\ UNCHANGED <<sessionVars, initQ, postQ, runW, postW, history, lifeVars, canceller>>
  BY <1>1, InvOf DEF SlotAcquired, TokenInv, NoToken, NoInitWorker
<1>3. ASSUME NEW s \in Sessions, s # t PROVE SessionInv(s)'
  <2>1. readyQ'[s] = readyQ[s]
    BY <1>2, <1>3, InvOf DEF Put, TypeOK
  <2>2. \A w \in InitWorkers :
           initW'[w] = initW[w] \/ (initW[w].on # s /\ initW'[w].on # s)
    BY <1>1, <1>2, <1>3, InvOf DEF IdleInit, TypeOK
  <2>3. Same(s)
    BY <1>2, <2>1, <2>2, InvOf DEF Same, SameSession, SameWorkers, SameLife
  <2>4. QED BY <2>3, SameKeeps DEF IInv
<1>4. SessionInv(t)'
  <2>1. readyQ'[t] = 1 /\ PastInit(t) /\ PastInit(t)'
    BY <1>1, <1>2, InvOf DEF Put, TypeOK, PastInit
  <2>2. NoInitWorker(t)' /\ NoRunWorker(t)'
    BY <1>2, InvOf DEF NoInitWorker, NoRunWorker, IdleInit, TypeOK
  <2>3. NoPost(t) /\ NoPost(t)' /\ canceller[t] = "no"
    BY <1>2, InvOf DEF PostrunInv, NoPost, NoPostWorker
  <2>4. FreshInv(t)'
    BY <1>2, InvOf DEF FreshInv
  <2>5. TokenInv(t)'
    BY <1>2, <2>1, <2>2 DEF TokenInv, NoInitWorker, NoRunWorker
  <2>6. PostrunInv(t)'
    BY <1>2, <2>2, <2>3 DEF PostrunInv, NoPost, NoInitWorker, NoRunWorker, NoPostWorker
  <2>7. StageInv(t)'
    BY <1>2, <2>1, <2>2, <2>3, InvOf DEF StageInv, NoInitWorker, NoRunWorker, NoPost
  <2>8. Somewhere(t)'
    BY <2>1 DEF Somewhere, NoToken
  <2>9. LiveInv(t)'
    BY <1>2, <2>1, <2>8, InvOf DEF LiveInv
  <2>10. QED BY <2>4, <2>5, <2>6, <2>7, <2>9 DEF SessionInv
<1>5. QED BY <1>3, <1>4

\* The init worker drops the token of a cancelled session.
LEMMA SlotAbandonedKeeps ==
    ASSUME IInv, NEW u \in InitWorkers, SlotAbandoned(u)
    PROVE  \A s \in Sessions : SessionInv(s)'
<1> USE DispatcherAssumption DEF history, lifeVars
<1>1. PICK t \in Sessions : initW[u].on = t
  BY DEF IInv, SlotAbandoned, IdleInit, TypeOK
<1>2. /\ initQ[t] = 0 /\ readyQ[t] = 0 /\ NoRunWorker(t)
      /\ \A w \in InitWorkers : w # u => initW[w].on # t
      /\ inits[t] = 1 /\ runs[t] = 0 /\ ~NoToken(t)
      /\ initW' = [initW EXCEPT ![u] = IdleInit] /\ MoveToPostrun(t)
      /\ UNCHANGED <<cancelled, final, runtime, initQ, readyQ, runW, postW, history,
                     lifeVars, canceller>>
  BY <1>1, InvOf DEF SlotAbandoned, TokenInv, NoToken, NoInitWorker
<1>3. ASSUME NEW s \in Sessions, s # t PROVE SessionInv(s)'
  <2>1. stage'[s] = stage[s] /\ inflight'[s] = inflight[s] /\ postQ'[s] = postQ[s]
    BY <1>2, <1>3, InvOf DEF MoveToPostrun, EnterPostrun, Put, TypeOK
  <2>2. \A w \in InitWorkers :
           initW'[w] = initW[w] \/ (initW[w].on # s /\ initW'[w].on # s)
    BY <1>1, <1>2, <1>3, InvOf DEF IdleInit, TypeOK
  <2>3. Same(s)
    BY <1>2, <2>1, <2>2, InvOf DEF Same, SameSession, SameWorkers, SameLife
  <2>4. QED BY <2>3, SameKeeps DEF IInv
<1>4. SessionInv(t)'
  <2>1. NoToken(t)'
    BY <1>2, InvOf DEF NoToken, NoInitWorker, NoRunWorker, IdleInit, TypeOK
  <2>2. QED BY <1>2, <2>1, TokenSpent
<1>5. QED BY <1>3, <1>4

\* A run worker takes the token out of the ready queue.
LEMMA TakeReadyKeeps ==
    ASSUME IInv, NEW u \in RunWorkers, NEW t \in Sessions, TakeReady(u, t)
    PROVE  \A s \in Sessions : SessionInv(s)'
<1> USE DispatcherAssumption DEF lifeVars
<1>1. /\ runW[u] = None /\ readyQ[t] = 1 /\ readyQ' = Take(readyQ, t)
      /\ UNCHANGED <<cancelled, final, runtime, initQ, initW, postW, inits, posts, lifeVars,
                     canceller>>
      /\ initQ[t] = 0 /\ NoInitWorker(t) /\ NoRunWorker(t) /\ inits[t] = 1 /\ runs[t] = 0
      /\ ~final[t] /\ t \in known
  BY InvOf DEF TakeReady, TokenInv, FreshInv, NoToken, TypeOK
<1>2. readyQ'[t] = 0 /\ ~NoToken(t)
  BY <1>1, InvOf DEF Take, TypeOK, NoToken
<1>3. ASSUME NEW s \in Sessions, s # t PROVE SessionInv(s)'
  <2>1. /\ stage'[s] = stage[s] /\ inflight'[s] = inflight[s] /\ postQ'[s] = postQ[s]
        /\ runs'[s] = runs[s] /\ readyQ'[s] = readyQ[s]
    BY <1>3, InvOf DEF TakeReady, EnterPostrun, Begin, Put, Take, Count, TypeOK
  <2>2. \A w \in RunWorkers : runW'[w] = s <=> runW[w] = s
    BY <1>3, InvOf DEF TakeReady, TypeOK
  <2>3. Same(s)
    BY <1>1, <2>1, <2>2, InvOf DEF Same, SameSession, SameWorkers, SameLife
  <2>4. QED BY <2>3, SameKeeps DEF IInv
<1>4. SessionInv(t)'
  <2>1. CASE /\ runW' = runW /\ runs' = runs
             /\ MoveToPostrun(t) \/ (t \in live /\ EnterPostrun(t))
    <3>1. NoToken(t)'
      BY <1>1, <1>2, <2>1 DEF NoToken, NoInitWorker, NoRunWorker
    <3>2. QED BY <1>1, <1>2, <2>1, <3>1, TokenSpent
  <2>2. CASE /\ t \in live /\ ~Skips(t) /\ Begin(t, "RUNNING") /\ postQ' = postQ
             /\ runW' = [runW EXCEPT ![u] = t] /\ runs' = Count(runs, t)
    <3>1. /\ stage'[t] = "RUNNING" /\ inflight'[t] /\ runs'[t] = 1 /\ ~cancelled[t]
          /\ runW'[u] = t /\ \A w \in RunWorkers : w # u => runW'[w] # t
      BY <1>1, <2>2, InvOf DEF Begin, Count, Skips, TypeOK, NoRunWorker
    <3>2. NoPost(t) /\ canceller[t] = "no"
      BY <1>2, <3>1, InvOf DEF PostrunInv
    <3>3. NoPost(t)' /\ NoPostWorker(t)' /\ NoInitWorker(t)' /\ ~PastInit(t)'
      BY <1>1, <1>2, <2>2, <3>2 DEF NoPost, NoPostWorker, NoInitWorker, PastInit
    <3>4. FreshInv(t)'
      BY <1>1, InvOf DEF FreshInv
    <3>5. TokenInv(t)'
      BY <1>1, <1>2, <3>1, <3>3 DEF TokenInv, NoInitWorker
    <3>6. PostrunInv(t)'
      BY <1>1, <3>2, <3>3 DEF PostrunInv, NoPost, NoInitWorker, NoPostWorker
    <3>7. StageInv(t)'
      BY <1>1, <3>1, <3>2, <3>3 DEF StageInv, NoPost, NoInitWorker
    <3>8. Somewhere(t)'
      BY <3>1 DEF Somewhere, NoToken, NoRunWorker
    <3>9. LiveInv(t)'
      BY <1>1, <3>3, <3>8, InvOf DEF LiveInv
    <3>10. QED BY <3>4, <3>5, <3>6, <3>7, <3>9 DEF SessionInv
  <2>3. QED BY <2>1, <2>2 DEF TakeReady, MoveToPostrun
<1>5. QED BY <1>3, <1>4

\* The run callback is over and the token is spent.
LEMMA RunDoneKeeps ==
    ASSUME IInv, NEW u \in RunWorkers, RunDone(u)
    PROVE  \A s \in Sessions : SessionInv(s)'
<1> USE DispatcherAssumption DEF history, lifeVars
<1>1. PICK t \in Sessions : runW[u] = t
  BY DEF IInv, RunDone, TypeOK
<1>2. /\ initQ[t] = 0 /\ readyQ[t] = 0 /\ NoInitWorker(t) /\ ~NoToken(t)
      /\ \A w \in RunWorkers : w # u => runW[w] # t
      /\ inits[t] <= 1 /\ runs[t] <= inits[t]
      /\ runW' = [runW EXCEPT ![u] = None] /\ MoveToPostrun(t)
      /\ UNCHANGED <<cancelled, runtime, initQ, readyQ, initW, postW, history, lifeVars,
                     canceller>>
  BY <1>1, InvOf DEF RunDone, TokenInv, NoToken, NoRunWorker
<1>3. ASSUME NEW s \in Sessions, s # t PROVE SessionInv(s)'
  <2>1. stage'[s] = stage[s] /\ inflight'[s] = inflight[s] /\ postQ'[s] = postQ[s]
    BY <1>2, <1>3, InvOf DEF MoveToPostrun, EnterPostrun, Put, TypeOK
  <2>2. \E b \in BOOLEAN : final' = [final EXCEPT ![t] = b]
    BY <1>1 DEF RunDone
  <2>3. final'[s] = final[s]
    BY <1>3, <2>2, InvOf DEF TypeOK
  <2>4. \A w \in RunWorkers : runW'[w] = s <=> runW[w] = s
    BY <1>1, <1>2, <1>3, InvOf DEF TypeOK
  <2>5. Same(s)
    BY <1>2, <2>1, <2>3, <2>4, InvOf DEF Same, SameSession, SameWorkers, SameLife
  <2>6. QED BY <2>5, SameKeeps DEF IInv
<1>4. SessionInv(t)'
  <2>1. NoToken(t)'
    BY <1>2, InvOf DEF NoToken, NoInitWorker, NoRunWorker, TypeOK
  <2>2. QED BY <1>2, <2>1, TokenSpent
<1>5. QED BY <1>3, <1>4

\* A post-run worker takes one entry of the post-run queue.
LEMMA TakePostKeeps ==
    ASSUME IInv, NEW u \in PostWorkers, NEW t \in Sessions, TakePost(u, t)
    PROVE  \A s \in Sessions : SessionInv(s)'
<1> USE DispatcherAssumption DEF lifeVars
<1>1. /\ postW[u] = None /\ postQ[t] > 0 /\ postQ'[t] = postQ[t] - 1
      /\ UNCHANGED <<cancelled, final, runtime, initQ, readyQ, initW, runW, inits, runs,
                     lifeVars, canceller>>
  BY InvOf DEF TakePost, Take, TypeOK
<1>2. ASSUME NEW s \in Sessions, s # t PROVE SessionInv(s)'
  <2>1. /\ stage'[s] = stage[s] /\ inflight'[s] = inflight[s] /\ postQ'[s] = postQ[s]
        /\ posts'[s] = posts[s]
    BY <1>2, InvOf DEF TakePost, Begin, Take, Count, TypeOK
  <2>2. \A w \in PostWorkers : postW'[w] = s <=> postW[w] = s
    BY <1>2, InvOf DEF TakePost, TypeOK
  <2>3. Same(s)
    BY <1>1, <2>1, <2>2, InvOf DEF Same, SameSession, SameWorkers, SameLife
  <2>4. QED BY <2>3, SameKeeps DEF IInv
<1>3. SessionInv(t)'
  <2>1. /\ NoInitWorker(t)' <=> NoInitWorker(t)
        /\ NoRunWorker(t)' <=> NoRunWorker(t)
        /\ PastInit(t)' <=> PastInit(t)
    BY <1>1 DEF NoInitWorker, NoRunWorker, PastInit
  <2>2. NoToken(t)' <=> NoToken(t)
    BY <1>1, <2>1 DEF NoToken
  <2>3. ~NoPost(t) /\ t \in known
    BY <1>1, InvOf DEF NoPost, FreshInv
  <2>4. /\ \A w \in InitWorkers : ~(initW[w].on = t /\ initW[w].at = "callback")
        /\ NoRunWorker(t)
        /\ t \in live => stage[t] = "POSTRUN"
    BY <1>1, <2>3, InvOf DEF PostrunInv, StageInv, NoRunWorker
  <2>5. ~cancelled[t] => /\ canceller[t] = "no" /\ NoToken(t) /\ NoPostWorker(t)
                         /\ postQ'[t] = 0 /\ posts[t] = 0 /\ ~PastInit(t) /\ initQ[t] = 0
    <3>1. NoToken(t) => ~PastInit(t) /\ initQ[t] = 0
      BY InvOf DEF NoToken, NoInitWorker, PastInit, TypeOK
    <3>2. QED BY <1>1, <2>3, <3>1, InvOf DEF PostrunInv
  <2>6. FreshInv(t)'
    BY <1>1, <2>3, InvOf DEF FreshInv
  <2>7. TokenInv(t)'
    BY <1>1, <2>1, InvOf DEF TokenInv
  <2>8. CASE t \notin live /\ UNCHANGED <<stage, inflight, postW, posts>>
    <3>1. NoPostWorker(t)' <=> NoPostWorker(t)
      BY <2>8 DEF NoPostWorker
    <3>2. PostrunInv(t)'
      BY <1>1, <2>2, <2>4, <2>5, <2>8, <3>1 DEF PostrunInv, NoRunWorker, NoPostWorker
    <3>3. StageInv(t)'
      BY <1>1, <2>1, <2>4, <2>5, <2>8, <3>1 DEF StageInv, NoRunWorker
    <3>4. LiveInv(t)'
      BY <1>1, <2>1, <2>8, InvOf DEF LiveInv
    <3>5. QED BY <2>6, <2>7, <3>2, <3>3, <3>4 DEF SessionInv
  <2>9. CASE /\ t \in live /\ Begin(t, "POSTRUN") /\ posts' = Count(posts, t)
             /\ postW' = [postW EXCEPT ![u] = t]
    <3>1. /\ stage'[t] = "POSTRUN" /\ inflight'[t] /\ posts'[t] = posts[t] + 1
          /\ postW'[u] = t /\ \A p \in PostWorkers : p # u => postW'[p] = postW[p]
      BY <2>9, InvOf DEF Begin, Count, TypeOK
    <3>2. ~NoPostWorker(t)'
      BY <3>1 DEF NoPostWorker
    <3>3. ~cancelled[t] => /\ posts'[t] = 1
                           /\ \A p \in PostWorkers : p # u => postW'[p] # t
      BY <2>5, <3>1 DEF NoPostWorker
    <3>4. PostrunInv(t)'
      BY <1>1, <2>2, <2>4, <2>5, <3>1, <3>3 DEF PostrunInv, NoRunWorker
    <3>5. StageInv(t)'
      BY <1>1, <2>1, <2>4, <2>5, <3>1 DEF StageInv, NoRunWorker
    <3>6. LiveInv(t)'
      BY <1>1, <2>1, <3>2, InvOf DEF LiveInv, Somewhere
    <3>7. QED BY <2>6, <2>7, <3>4, <3>5, <3>6 DEF SessionInv
  <2>10. QED BY <2>8, <2>9 DEF TakePost
<1>4. QED BY <1>2, <1>3

\* Post-run handling is over and the session is forgotten.
LEMMA PostDoneKeeps ==
    ASSUME IInv, NEW u \in PostWorkers, PostDone(u)
    PROVE  \A s \in Sessions : SessionInv(s)'
<1> USE DispatcherAssumption DEF sessionVars, queues, history, lifeVars
<1>1. PICK t \in Sessions : postW[u] = t
  BY DEF IInv, PostDone, TypeOK
<1>2. /\ live' = live \ {t} /\ postW' = [postW EXCEPT ![u] = None]
      /\ UNCHANGED <<sessionVars, queues, initW, runW, history, phase, known, stopList,
                     canceller>>
  BY <1>1 DEF PostDone
<1>3. ASSUME NEW s \in Sessions, s # t PROVE SessionInv(s)'
  <2>1. \A p \in PostWorkers : postW'[p] = s <=> postW[p] = s
    BY <1>1, <1>2, <1>3, InvOf DEF TypeOK
  <2>2. Same(s)
    BY <1>2, <1>3, <2>1, InvOf DEF Same, SameSession, SameWorkers, SameLife
  <2>3. QED BY <2>2, SameKeeps DEF IInv
<1>4. SessionInv(t)'
  <2>1. /\ NoInitWorker(t)' <=> NoInitWorker(t)
        /\ NoRunWorker(t)' <=> NoRunWorker(t)
        /\ PastInit(t)' <=> PastInit(t)
    BY <1>2 DEF NoInitWorker, NoRunWorker, PastInit
  <2>2. NoToken(t)' <=> NoToken(t)
    BY <1>2, <2>1 DEF NoToken
  <2>3. ~NoPostWorker(t) /\ ~NoPost(t) /\ t \notin live' /\ t \in known
    BY <1>1, <1>2, InvOf DEF NoPostWorker, NoPost, FreshInv
  <2>4. /\ \A w \in InitWorkers : ~(initW[w].on = t /\ initW[w].at = "callback")
        /\ NoRunWorker(t)
    BY <2>3, InvOf DEF PostrunInv, NoRunWorker
  <2>5. ~cancelled[t] => /\ canceller[t] = "no" /\ NoToken(t) /\ postQ[t] = 0
                         /\ posts[t] <= 1 /\ ~PastInit(t) /\ initQ[t] = 0
                         /\ NoPostWorker(t)'
    <3>1. NoToken(t) => ~PastInit(t) /\ initQ[t] = 0
      BY InvOf DEF NoToken, NoInitWorker, PastInit, TypeOK
    <3>2. ~cancelled[t] => \A p \in PostWorkers : p # u => postW[p] # t
      BY <1>1, InvOf DEF PostrunInv
    <3>3. ~cancelled[t] => NoPostWorker(t)'
      BY <1>2, <3>2, InvOf DEF NoPostWorker, TypeOK
    <3>4. QED BY <1>1, <2>3, <3>1, <3>3, InvOf DEF PostrunInv
  <2>6. FreshInv(t)'
    BY <1>2, <2>3, InvOf DEF FreshInv
  <2>7. TokenInv(t)'
    BY <1>2, <2>1, InvOf DEF TokenInv
  <2>8. PostrunInv(t)'
    BY <1>2, <2>2, <2>4, <2>5 DEF PostrunInv, NoRunWorker, NoPostWorker
  <2>9. StageInv(t)'
    BY <1>2, <2>1, <2>3, <2>4, <2>5 DEF StageInv, NoRunWorker
  <2>10. LiveInv(t)'
    BY <1>2, <2>1, <2>3, <2>5, InvOf DEF LiveInv
  <2>11. QED BY <2>6, <2>7, <2>8, <2>9, <2>10 DEF SessionInv
<1>5. QED BY <1>3, <1>4

\* Nothing changes.
LEMMA StutterKeeps ==
    ASSUME IInv, UNCHANGED vars
    PROVE  \A s \in Sessions : SessionInv(s)'
<1>1. SUFFICES ASSUME NEW s \in Sessions PROVE SessionInv(s)'
  OBVIOUS
<1>2. Same(s)
  BY InvOf DEF vars, sessionVars, queues, workers, history, lifeVars, Same, SameSession,
               SameWorkers, SameLife
<1>3. QED BY <1>2, SameKeeps DEF IInv
-----------------------------------------------------------------------------
\* The inductive invariant: where each session's token is, and how stage,
\* inflight and the two paths to POSTRUN agree with it.
THEOREM InvariantHolds == Spec => []IInv
<1>1. Init => IInv
  <2> SUFFICES ASSUME Init PROVE IInv
    OBVIOUS
  <2>1. TypeOK
    <3>1. Cardinality(RunWorkers) \in Nat
      BY DispatcherAssumption, FS_CardinalityType
    <3>2. QED BY <3>1, DispatcherAssumption DEF Init, TypeOK, Stages
  <2>2. ASSUME NEW s \in Sessions PROVE SessionInv(s)
    <3>1. NoToken(s) /\ NoPost(s) /\ ~PastInit(s)
      BY DispatcherAssumption DEF Init, NoToken, NoPost, NoInitWorker, NoRunWorker,
                                  NoPostWorker, PastInit, IdleInit
    <3>2. FreshInv(s)
      BY <3>1 DEF Init, FreshInv
    <3>3. TokenInv(s)
      BY <3>1 DEF Init, TokenInv, NoToken, NoInitWorker, NoRunWorker
    <3>4. PostrunInv(s)
      BY <3>1 DEF Init, PostrunInv, NoToken, NoPost, NoInitWorker, NoRunWorker, NoPostWorker
    <3>5. StageInv(s)
      BY <3>1 DEF Init, StageInv, NoToken, NoPost, NoInitWorker, NoRunWorker
    <3>6. LiveInv(s)
      BY <3>1 DEF Init, LiveInv
    <3>7. QED BY <3>2, <3>3, <3>4, <3>5, <3>6 DEF SessionInv
  <2>3. QED BY <2>1, <2>2 DEF IInv
<1>2. IInv /\ [Next]_vars => IInv'
  <2> SUFFICES ASSUME IInv, [Next]_vars PROVE IInv'
    OBVIOUS
  <2>1. TypeOK'
    BY TypeStep DEF IInv
  <2>2. \A s \in Sessions : SessionInv(s)'
    <3>1. CASE UNCHANGED vars
      BY <3>1, StutterKeeps
    <3>2. ASSUME NEW t \in Sessions,
                 Enqueue(t) \/ Cancel(t) \/ CancelReturns(t) \/ CancelRaises(t)
                 \/ StopCancel(t)
          PROVE  \A s \in Sessions : SessionInv(s)'
      BY <3>2, EnqueueKeeps, CancelKeeps, CancelEndsKeeps, StopCancelKeeps
    <3>3. CASE StopBegin \/ StopFinish
      BY <3>3, StopBeginKeeps, StopFinishKeeps
    <3>4. ASSUME NEW u \in InitWorkers,
                 \/ \E t \in Sessions : TakeInit(u, t)
                 \/ InitDone(u) \/ Grant(u) \/ SlotAcquired(u) \/ SlotAbandoned(u)
          PROVE  \A s \in Sessions : SessionInv(s)'
      BY <3>4, TakeInitKeeps, InitDoneKeeps, GrantKeeps, SlotAcquiredKeeps,
         SlotAbandonedKeeps
    <3>5. ASSUME NEW u \in RunWorkers, RunDone(u) \/ \E t \in Sessions : TakeReady(u, t)
          PROVE  \A s \in Sessions : SessionInv(s)'
      BY <3>5, RunDoneKeeps, TakeReadyKeeps
    <3>6. ASSUME NEW u \in PostWorkers, PostDone(u) \/ \E t \in Sessions : TakePost(u, t)
          PROVE  \A s \in Sessions : SessionInv(s)'
      BY <3>6, PostDoneKeeps, TakePostKeeps
    <3>7. QED BY <3>1, <3>2, <3>3, <3>4, <3>5, <3>6 DEF Next
  <2>3. QED BY <2>1, <2>2 DEF IInv
<1>3. QED BY <1>1, <1>2, PTL DEF Spec

\* Post-run handling never overlaps an init or run callback of its session.
THEOREM CallbacksExclusive == Spec => []CallbackExclusion
<1>1. IInv => CallbackExclusion
  <2> SUFFICES ASSUME IInv, NEW s \in Sessions
               PROVE  /\ ~(InInit(s) /\ Running(s))
                      /\ ~(InPostrun(s) /\ (InInit(s) \/ Running(s)))
    BY DEF CallbackExclusion
  <2>1. TokenInv(s) /\ PostrunInv(s)
    BY DEF IInv, SessionInv
  <2>2. QED
    BY <2>1 DEF TokenInv, PostrunInv, NoPost, NoPostWorker, NoRunWorker, InInit, Running,
                InPostrun
<1>2. QED BY <1>1, InvariantHolds, PTL

\* A session is initialised and run at most once, in that order, and finalised
\* at most once unless it was cancelled.
THEOREM StagesDrivenOnce == Spec => []StagesOnce
<1>1. IInv => StagesOnce
  BY DEF IInv, SessionInv, TokenInv, PostrunInv, StagesOnce
<1>2. QED BY <1>1, InvariantHolds, PTL
-----------------------------------------------------------------------------
(* Run slots are conserved up to the drift of cancel(), and the dispatcher implements
   the session life cycle *)

\* The sets of sessions that hold a slot are finite, so they can be counted.
LEMMA SlotSetsFinite ==
    /\ IsFiniteSet(Backed) /\ IsFiniteSet(Holders)
    /\ IsFiniteSet({s \in Sessions : cancelled[s]})
<1>1. \A S : S \subseteq Sessions => IsFiniteSet(S)
  BY DispatcherAssumption, FS_Subset
<1>2. Backed \subseteq Sessions /\ Holders \subseteq Sessions
      /\ {s \in Sessions : cancelled[s]} \subseteq Sessions
  BY DEF Backed, Holders
<1>3. QED BY <1>1, <1>2

\* How the number of members changes when a set gains or loses one of them.
LEMMA CountsMonotone ==
    ASSUME NEW A, NEW B, IsFiniteSet(A), IsFiniteSet(B), NEW s
    PROVE  /\ Cardinality(A) \in Nat /\ Cardinality(B) \in Nat
           /\ A \subseteq B => Cardinality(A) <= Cardinality(B)
           /\ A \ {s} \subseteq B => Cardinality(A) <= Cardinality(B) + 1
           /\ A \union {s} \subseteq B /\ s \notin A => Cardinality(A) + 1 <= Cardinality(B)
<1>1. Cardinality(A) \in Nat /\ Cardinality(B) \in Nat
  BY FS_CardinalityType
<1>2. A \subseteq B => Cardinality(A) <= Cardinality(B)
  BY FS_Subset
<1>3. A \ {s} \subseteq B => Cardinality(A) <= Cardinality(B) + 1
  <2> SUFFICES ASSUME A \ {s} \subseteq B PROVE Cardinality(A) <= Cardinality(B) + 1
    OBVIOUS
  <2>1. IsFiniteSet(A \ {s}) /\ Cardinality(A) <= Cardinality(A \ {s}) + 1
        /\ Cardinality(A \ {s}) \in Nat
    <3>1. IsFiniteSet(A \ {s})
      BY FS_RemoveElement
    <3>2. Cardinality(A \ {s}) = IF s \in A THEN Cardinality(A) - 1 ELSE Cardinality(A)
      BY FS_RemoveElement
    <3>3. Cardinality(A \ {s}) \in Nat
      BY <3>1, FS_CardinalityType
    <3>4. QED BY <3>1, <3>2, <3>3, <1>1
  <2>2. Cardinality(A \ {s}) <= Cardinality(B)
    BY <2>1, FS_Subset
  <2>3. QED BY <2>1, <2>2, <1>1
<1>4. A \union {s} \subseteq B /\ s \notin A => Cardinality(A) + 1 <= Cardinality(B)
  <2> SUFFICES ASSUME A \union {s} \subseteq B, s \notin A
               PROVE  Cardinality(A) + 1 <= Cardinality(B)
    OBVIOUS
  <2>1. IsFiniteSet(A \union {s}) /\ Cardinality(A \union {s}) = Cardinality(A) + 1
    BY FS_AddElement
  <2>2. Cardinality(A \union {s}) <= Cardinality(B)
    BY <2>1, FS_Subset
  <2>3. QED BY <2>1, <2>2
<1>5. QED BY <1>1, <1>2, <1>3, <1>4
-----------------------------------------------------------------------------
\* How a step moves slots and the sessions that will give one back, as long as
\* stop() was not called.
SlotStep ==
    \/ Backed \subseteq Backed' /\ slots' >= slots
    \/ \E s \in Sessions : Backed \ {s} \subseteq Backed' /\ slots' = slots + 1
    \/ \E s \in Sessions : /\ s \notin Backed /\ Backed \union {s} \subseteq Backed'
                           /\ slots' = slots - 1

\* Every action taken while the dispatcher is started moves slots that way.
LEMMA SlotStepTaken ==
    ASSUME IInv, Next, phase = "started"
    PROVE  SlotStep
<1> USE DispatcherAssumption DEF sessionVars, queues, workers, history, lifeVars
<1>1. TypeOK /\ \A s \in Sessions : SessionInv(s)
  BY DEF IInv
<1>2. CASE \E s \in Sessions : Enqueue(s) \/ CancelReturns(s) \/ CancelRaises(s)
  BY <1>2 DEF SlotStep, Backed, Granted, Running, Enqueue, CancelReturns, CancelRaises,
              TypeOK, IInv
<1>3. ASSUME NEW s \in Sessions, Cancel(s) PROVE SlotStep
  <2>1. \A x \in Sessions : x # s => cancelled'[x] = cancelled[x]
    BY <1>3, <1>1 DEF Cancel, TypeOK
  <2>2. /\ \A x \in Sessions : Granted(x)' <=> Granted(x)
        /\ \A x \in Sessions : Running(x)' <=> Running(x)
        /\ readyQ' = readyQ
    BY <1>3 DEF Cancel, Granted, Running
  <2>3. Backed \ {s} \subseteq Backed'
    BY <2>1, <2>2 DEF Backed
  <2>4. CASE readyQ[s] > 0
    <3>1. stage[s] = "READY" /\ ~inflight[s]
      BY <1>3, <1>1, <2>4 DEF Cancel, SessionInv, StageInv, PastInit
    <3>2. slots' = slots + 1
      BY <3>1, <1>3 DEF Cancel, Parked
    <3>3. QED BY <2>3, <3>2 DEF SlotStep
  <2>5. CASE ~(readyQ[s] > 0)
    <3>1. Backed \subseteq Backed'
      BY <2>1, <2>2, <2>5 DEF Backed
    <3>2. slots' >= slots
      BY <1>3, <1>1 DEF Cancel, TypeOK
    <3>3. QED BY <3>1, <3>2 DEF SlotStep
  <2>6. QED BY <2>4, <2>5
<1>4. CASE StopBegin
  BY <1>4, <1>1 DEF SlotStep, Backed, Granted, Running, StopBegin, TypeOK
<1>5. CASE StopFinish \/ \E s \in Sessions : StopCancel(s)
  BY <1>5, <1>1 DEF StopFinish, StopCancel, SessionInv, LiveInv
<1>6. ASSUME NEW w \in InitWorkers, NEW s \in Sessions, TakeInit(w, s) PROVE SlotStep
  <2>1. \A x \in Sessions : Granted(x) => Granted(x)'
    BY <1>6, <1>1 DEF TakeInit, Granted, IdleInit, TypeOK
  <2>2. Backed \subseteq Backed' /\ slots' = slots
    BY <1>6, <2>1 DEF TakeInit, Backed, Running
  <2>3. QED BY <2>2, <1>1 DEF SlotStep, TypeOK
<1>7. ASSUME NEW w \in InitWorkers, InitDone(w) PROVE SlotStep
  <2>1. \A x \in Sessions : Granted(x) => Granted(x)'
    BY <1>7, <1>1 DEF InitDone, Granted, IdleInit, TypeOK
  <2>2. Backed \subseteq Backed' /\ slots' = slots
    BY <1>7, <2>1 DEF InitDone, Backed, Running
  <2>3. QED BY <2>2, <1>1 DEF SlotStep, TypeOK
<1>8. ASSUME NEW w \in InitWorkers, Grant(w) PROVE SlotStep
  <2> DEFINE s == initW[w].on
  <2>1. s \in Sessions /\ initW[w].at = "wait"
    BY <1>8, <1>1 DEF Grant, IdleInit, TypeOK
  <2>2. s \notin Backed
    BY <2>1, <1>1 DEF Backed, Granted, Running, SessionInv, TokenInv, NoRunWorker
  <2>3. Granted(s)' /\ \A x \in Sessions : Granted(x) => Granted(x)'
    BY <1>8, <1>1, <2>1 DEF Grant, Granted, TypeOK
  <2>4. Backed \union {s} \subseteq Backed' /\ slots' = slots - 1
    BY <1>8, <2>1, <2>3 DEF Grant, Backed, Running
  <2>5. QED BY <2>1, <2>2, <2>4 DEF SlotStep
<1>9. ASSUME NEW w \in InitWorkers, SlotAcquired(w) PROVE SlotStep
  <2> DEFINE s == initW[w].on
  <2>1. s \in Sessions /\ initW[w].at = "granted" /\ ~cancelled[s]
    BY <1>9, <1>1 DEF SlotAcquired, IdleInit, TypeOK
  <2>2. \A x \in Sessions : x # s /\ Granted(x) => Granted(x)'
    BY <1>9, <1>1, <2>1 DEF SlotAcquired, Granted, TypeOK
  <2>3. readyQ'[s] > 0 /\ \A x \in Sessions : x # s => readyQ'[x] = readyQ[x]
    BY <1>9, <1>1, <2>1 DEF SlotAcquired, Put, TypeOK
  <2>4. Backed \subseteq Backed' /\ slots' = slots
    BY <1>9, <2>1, <2>2, <2>3 DEF SlotAcquired, Backed, Running
  <2>5. QED BY <2>4, <1>1 DEF SlotStep, TypeOK
<1>10. ASSUME NEW w \in InitWorkers, SlotAbandoned(w) PROVE SlotStep
  <2> DEFINE s == initW[w].on
  <2>1. s \in Sessions /\ initW[w].at \in {"wait", "granted"}
    BY <1>10, <1>1 DEF SlotAbandoned, IdleInit, TypeOK
  <2>2. \A x \in Sessions : x # s /\ Granted(x) => Granted(x)'
    BY <1>10, <1>1, <2>1 DEF SlotAbandoned, Granted, TypeOK
  <2>3. Backed \ {s} \subseteq Backed'
    BY <1>10, <2>2 DEF SlotAbandoned, Backed, Running
  <2>4. CASE initW[w].at = "granted"
    BY <1>10, <2>1, <2>3, <2>4 DEF SlotAbandoned, SlotStep
  <2>5. CASE initW[w].at = "wait"
    <3>1. ~Granted(s)
      BY <2>1, <2>5, <1>1 DEF Granted, SessionInv, TokenInv
    <3>2. \A x \in Sessions : Granted(x) => Granted(x)'
      BY <2>2, <3>1
    <3>3. Backed \subseteq Backed' /\ slots' = slots
      BY <1>10, <2>5, <3>2 DEF SlotAbandoned, Backed, Running
    <3>4. QED BY <3>3, <1>1 DEF SlotStep, TypeOK
  <2>6. QED BY <2>1, <2>4, <2>5
<1>11. ASSUME NEW w \in RunWorkers, NEW s \in Sessions, TakeReady(w, s) PROVE SlotStep
  <2>1. /\ \A x \in Sessions : Granted(x)' <=> Granted(x)
        /\ \A x \in Sessions : Running(x) => Running(x)'
        /\ \A x \in Sessions : x # s => readyQ'[x] = readyQ[x]
        /\ cancelled' = cancelled
    BY <1>11, <1>1 DEF TakeReady, Granted, Running, Take, TypeOK
  <2>2. Backed \ {s} \subseteq Backed'
    BY <2>1 DEF Backed
  <2>3. CASE s \notin live
    <3>1. cancelled[s]
      BY <1>11, <1>1, <2>3 DEF TakeReady, SessionInv, LiveInv, PastInit
    <3>2. Backed \subseteq Backed' /\ slots' = slots
      BY <1>11, <2>1, <2>3, <3>1 DEF TakeReady, Backed
    <3>3. QED BY <3>2, <1>1 DEF SlotStep, TypeOK
  <2>4. CASE s \in live /\ Skips(s)
    BY <1>11, <2>2, <2>4 DEF TakeReady, SlotStep
  <2>5. CASE s \in live /\ ~Skips(s)
    <3>1. Running(s)' /\ slots' = slots
      BY <1>11, <1>1, <2>5 DEF TakeReady, Running, TypeOK
    <3>2. Backed \subseteq Backed'
      BY <2>2, <3>1 DEF Backed
    <3>3. QED BY <3>1, <3>2, <1>1 DEF SlotStep, TypeOK
  <2>6. QED BY <2>3, <2>4, <2>5
<1>12. ASSUME NEW w \in RunWorkers, RunDone(w) PROVE SlotStep
  <2>1. runW[w] \in Sessions /\ slots' = slots + 1
    BY <1>12, <1>1 DEF RunDone, TypeOK
  <2>2. \A x \in Sessions : x # runW[w] /\ Running(x) => Running(x)'
    BY <1>12, <1>1 DEF RunDone, Running, TypeOK
  <2>3. Backed \ {runW[w]} \subseteq Backed'
    BY <1>12, <2>2 DEF RunDone, Backed, Granted
  <2>4. QED BY <2>1, <2>3 DEF SlotStep
<1>13. CASE \E w \in PostWorkers : PostDone(w) \/ \E s \in Sessions : TakePost(w, s)
  BY <1>13, <1>1 DEF SlotStep, Backed, Granted, Running, PostDone, TakePost, TypeOK
<1>14. QED
  BY <1>2, <1>3, <1>4, <1>5, <1>6, <1>7, <1>8, <1>9, <1>10, <1>11, <1>12, <1>13 DEF Next

\* No run slot is ever lost before stop(): whatever is cancelled or fails, and
\* in whatever order, the semaphore and the sessions that will release it account
\* for every run worker.
THEOREM SlotsConserved == Spec => []NoSlotLost
<1>1. Init => NoSlotLost
  <2> SUFFICES ASSUME Init PROVE slots + Cardinality(Backed) >= Cardinality(RunWorkers)
    BY DEF NoSlotLost
  <2>1. Cardinality(RunWorkers) \in Nat /\ Cardinality(Backed) \in Nat
    BY DispatcherAssumption, FS_CardinalityType, SlotSetsFinite
  <2>2. QED BY <2>1 DEF Init
<1>2. NoSlotLost /\ IInv /\ IInv' /\ [Next]_vars => NoSlotLost'
  <2> SUFFICES ASSUME NoSlotLost, IInv, IInv', [Next]_vars, phase' = "started"
               PROVE  slots' + Cardinality(Backed') >= Cardinality(RunWorkers)
    BY DEF NoSlotLost
  <2>1. slots \in Nat /\ slots' \in Nat /\ Cardinality(RunWorkers) \in Nat
    BY DispatcherAssumption, FS_CardinalityType DEF IInv, TypeOK
  <2>2. IsFiniteSet(Backed) /\ IsFiniteSet(Backed')
    <3>1. Backed \subseteq Sessions /\ Backed' \subseteq Sessions
      BY DEF Backed
    <3>2. QED BY <3>1, DispatcherAssumption, FS_Subset
  <2>3. CASE UNCHANGED vars
    <3>1. phase' = phase /\ slots' = slots /\ Backed' = Backed
      BY <2>3 DEF vars, lifeVars, workers, queues, sessionVars, Backed, Granted, Running
    <3>2. QED BY <3>1 DEF NoSlotLost
  <2>4. CASE Next
    <3>1. phase = "started"
      BY <2>4 DEF Next, Enqueue, Cancel, CancelReturns, CancelRaises, StopBegin, StopFinish,
           StopCancel, TakeInit, InitDone, Grant, SlotAcquired, SlotAbandoned, TakeReady,
           RunDone, TakePost, PostDone, lifeVars
    <3>2. SlotStep
      BY <2>4, <3>1, SlotStepTaken
    <3>3. slots + Cardinality(Backed) >= Cardinality(RunWorkers)
      BY <3>1 DEF NoSlotLost
    <3>4. CASE Backed \subseteq Backed' /\ slots' >= slots
      BY <3>3, <3>4, <2>1, <2>2, CountsMonotone
    <3>5. ASSUME NEW s \in Sessions, Backed \ {s} \subseteq Backed' /\ slots' = slots + 1
          PROVE  slots' + Cardinality(Backed') >= Cardinality(RunWorkers)
      BY <3>3, <3>5, <2>1, <2>2, CountsMonotone
    <3>6. ASSUME NEW s \in Sessions, s \notin Backed, Backed \union {s} \subseteq Backed',
                 slots' = slots - 1
          PROVE  slots' + Cardinality(Backed') >= Cardinality(RunWorkers)
      BY <3>3, <3>6, <2>1, <2>2, CountsMonotone
    <3>7. QED BY <3>2, <3>4, <3>5, <3>6 DEF SlotStep
  <2>5. QED BY <2>3, <2>4
<1>3. QED BY <1>1, <1>2, InvariantHolds, PTL DEF Spec
-----------------------------------------------------------------------------
\* How a step moves slots and the sessions that hold one.  Only cancel() can
\* return a slot that nobody held.
DriftStep ==
    \/ Holders' \subseteq Holders /\ slots' <= slots
    \/ \E s \in Holders : Holders' \subseteq Holders \ {s} /\ slots' = slots + 1
    \/ \E s \in Sessions : Holders' \subseteq Holders \union {s} /\ slots' = slots - 1
    \/ \E s \in Sessions : /\ ~cancelled[s] /\ cancelled'[s]
                           /\ Holders' \subseteq Holders /\ slots' <= slots + 1

\* Every action moves slots that way, and no session is ever uncancelled.
LEMMA DriftStepTaken ==
    ASSUME IInv, Next
    PROVE  DriftStep /\ \A s \in Sessions : cancelled[s] => cancelled'[s]
<1> USE DispatcherAssumption DEF sessionVars, queues, workers, history, lifeVars
<1>1. TypeOK /\ \A s \in Sessions : SessionInv(s)
  BY DEF IInv
<1> DEFINE Kept == \A s \in Sessions : cancelled[s] => cancelled'[s]
<1>2. CASE \E s \in Sessions : Enqueue(s) \/ CancelReturns(s) \/ CancelRaises(s)
  BY <1>2, <1>1 DEF DriftStep, Holders, Granted, Running, Enqueue, CancelReturns,
                    CancelRaises, TypeOK
<1>3. ASSUME NEW s \in Sessions, Cancel(s) PROVE DriftStep /\ Kept
  <2>1. ~cancelled[s] /\ cancelled'[s] /\ Kept
    BY <1>3, <1>1 DEF Cancel, TypeOK
  <2>2. Holders' \subseteq Holders
    BY <1>3 DEF Cancel, Holders, Granted, Running
  <2>3. slots' <= slots + 1
    BY <1>3, <1>1 DEF Cancel, TypeOK
  <2>4. QED BY <2>1, <2>2, <2>3 DEF DriftStep
<1>4. CASE StopBegin \/ \E s \in Sessions : StopCancel(s)
  <2>1. Kept
    BY <1>4, <1>1 DEF StopBegin, StopCancel, TypeOK
  <2>2. Holders' \subseteq Holders /\ slots' <= slots
    BY <1>4, <1>1 DEF StopBegin, StopCancel, Holders, Granted, Running, TypeOK
  <2>3. QED BY <2>1, <2>2 DEF DriftStep
<1>5. CASE StopFinish
  <2>1. \A s \in Sessions : ~Granted(s)' /\ ~Running(s)'
    BY <1>5 DEF StopFinish, Granted, Running, IdleInit
  <2>2. Holders' \subseteq Holders /\ slots' <= slots
    BY <1>5, <1>1, <2>1 DEF StopFinish, Holders, TypeOK
  <2>3. QED BY <1>5, <2>2 DEF DriftStep, StopFinish
<1>6. ASSUME NEW w \in InitWorkers,
             InitDone(w) \/ \E s \in Sessions : TakeInit(w, s)
      PROVE  DriftStep /\ Kept
  <2>1. \A x \in Sessions : Granted(x)' => Granted(x)
    BY <1>6, <1>1 DEF TakeInit, InitDone, Granted, IdleInit, TypeOK
  <2>2. Holders' \subseteq Holders /\ slots' <= slots
    BY <1>6, <1>1, <2>1 DEF TakeInit, InitDone, Holders, Running, TypeOK
  <2>3. QED BY <1>6, <2>2 DEF DriftStep, TakeInit, InitDone
<1>7. ASSUME NEW w \in InitWorkers, Grant(w) PROVE DriftStep /\ Kept
  <2> DEFINE s == initW[w].on
  <2>1. s \in Sessions
    BY <1>7, <1>1 DEF Grant, IdleInit, TypeOK
  <2>2. \A x \in Sessions : x # s /\ Granted(x)' => Granted(x)
    BY <1>7, <1>1 DEF Grant, Granted, TypeOK
  <2>3. Holders' \subseteq Holders \union {s} /\ slots' = slots - 1
    BY <1>7, <2>2 DEF Grant, Holders, Running
  <2>4. QED BY <1>7, <2>1, <2>3 DEF DriftStep, Grant
<1>8. ASSUME NEW w \in InitWorkers, SlotAcquired(w) PROVE DriftStep /\ Kept
  <2> DEFINE s == initW[w].on
  <2>1. s \in Sessions /\ Granted(s)
    BY <1>8, <1>1 DEF SlotAcquired, Granted, IdleInit, TypeOK
  <2>2. \A x \in Sessions : Granted(x)' => Granted(x)
    BY <1>8, <1>1 DEF SlotAcquired, Granted, IdleInit, TypeOK
  <2>3. \A x \in Sessions : x # s => readyQ'[x] = readyQ[x]
    BY <1>8, <1>1, <2>1 DEF SlotAcquired, Put, TypeOK
  <2>4. Holders' \subseteq Holders /\ slots' <= slots
    BY <1>8, <1>1, <2>1, <2>2, <2>3 DEF SlotAcquired, Holders, Running, TypeOK
  <2>5. QED BY <1>8, <2>4 DEF DriftStep, SlotAcquired
<1>9. ASSUME NEW w \in InitWorkers, SlotAbandoned(w) PROVE DriftStep /\ Kept
  <2> PICK s \in Sessions : s = initW[w].on
    BY <1>9, <1>1 DEF SlotAbandoned, IdleInit, TypeOK
  <2>1. s = initW[w].on /\ initW[w].at \in {"wait", "granted"}
    BY <1>9 DEF SlotAbandoned
  <2>2. \A x \in Sessions : Granted(x)' => Granted(x)
    BY <1>9, <1>1 DEF SlotAbandoned, Granted, IdleInit, TypeOK
  <2>3. Holders' \subseteq Holders
    BY <1>9, <2>2 DEF SlotAbandoned, Holders, Running
  <2>4. CASE initW[w].at = "granted"
    <3>1. Granted(s) /\ s \in Holders
      BY <2>1, <2>4, <1>1 DEF Granted, Holders, IdleInit, TypeOK
    <3>2. ~Granted(s)'
      <4>1. initW'[w] = IdleInit /\ \A v \in InitWorkers : v # w => initW'[v] = initW[v]
        BY <1>9, <1>1 DEF SlotAbandoned, TypeOK
      <4>2. \A v \in InitWorkers : v # w => initW[v].on # s
        BY <2>1, <1>1 DEF SessionInv, TokenInv
      <4>3. QED BY <4>1, <4>2, <2>1 DEF Granted, IdleInit
    <3>3. readyQ'[s] = 0 /\ ~Running(s)'
      BY <1>9, <2>1, <1>1 DEF SlotAbandoned, Running, SessionInv, TokenInv, NoRunWorker
    <3>4. Holders' \subseteq Holders \ {s}
      BY <2>3, <3>2, <3>3 DEF Holders
    <3>5. slots' = slots + 1
      BY <1>9, <2>4 DEF SlotAbandoned
    <3>6. QED BY <3>1, <3>4, <3>5, <1>9 DEF DriftStep, SlotAbandoned
  <2>5. CASE initW[w].at = "wait"
    <3>1. slots' <= slots
      BY <1>9, <1>1, <2>5 DEF SlotAbandoned, TypeOK
    <3>2. QED BY <3>1, <2>3, <1>9 DEF DriftStep, SlotAbandoned
  <2>6. QED BY <2>1, <2>4, <2>5
<1>10. ASSUME NEW w \in RunWorkers, NEW s \in Sessions, TakeReady(w, s)
       PROVE  DriftStep /\ Kept
  <2>1. /\ \A x \in Sessions : Granted(x)' <=> Granted(x)
        /\ \A x \in Sessions : x # s => (Running(x)' <=> Running(x))
        /\ \A x \in Sessions : x # s => readyQ'[x] = readyQ[x]
    BY <1>10, <1>1 DEF TakeReady, Granted, Running, Take, TypeOK
  <2>2. s \in Holders /\ readyQ'[s] = 0 /\ ~Granted(s) /\ ~Running(s)
    BY <1>10, <1>1 DEF TakeReady, Holders, Granted, Running, Take, SessionInv, TokenInv,
                       NoInitWorker, NoRunWorker, TypeOK
  <2>3. Holders' \subseteq Holders
    BY <2>1, <2>2 DEF Holders
  <2>4. CASE s \in live /\ Skips(s)
    <3>1. ~Running(s)' /\ slots' = slots + 1
      BY <1>10, <1>1, <2>2, <2>4 DEF TakeReady, Running
    <3>2. Holders' \subseteq Holders \ {s}
      BY <2>1, <2>2, <2>3, <3>1 DEF Holders
    <3>3. QED BY <2>2, <3>1, <3>2, <1>10 DEF DriftStep, TakeReady
  <2>5. CASE ~(s \in live /\ Skips(s))
    <3>1. slots' <= slots
      BY <1>10, <1>1, <2>5 DEF TakeReady, TypeOK
    <3>2. QED BY <3>1, <2>3, <1>10 DEF DriftStep, TakeReady
  <2>6. QED BY <2>4, <2>5
<1>11. ASSUME NEW w \in RunWorkers, RunDone(w) PROVE DriftStep /\ Kept
  <2> DEFINE s == runW[w]
  <2>1. s \in Sessions /\ slots' = slots + 1 /\ s \in Holders
    BY <1>11, <1>1 DEF RunDone, Holders, Running, TypeOK
  <2>2. \A x \in Sessions : Running(x)' => Running(x) /\ x # s
    <3>1. runW'[w] = None /\ \A v \in RunWorkers : v # w => runW'[v] = runW[v]
      BY <1>11, <1>1 DEF RunDone, TypeOK
    <3>2. \A v \in RunWorkers : v # w => runW[v] # s
      BY <2>1, <1>1 DEF SessionInv, TokenInv
    <3>3. QED BY <3>1, <3>2 DEF Running
  <2>3. readyQ[s] = 0 /\ ~Granted(s)
    BY <2>1, <1>1 DEF Granted, SessionInv, TokenInv, NoInitWorker
  <2>4. Holders' \subseteq Holders \ {s}
    BY <1>11, <1>1, <2>2, <2>3 DEF RunDone, Holders, Granted, TypeOK
  <2>5. QED BY <1>11, <2>1, <2>4 DEF DriftStep, RunDone
<1>12. CASE \E w \in PostWorkers : PostDone(w) \/ \E s \in Sessions : TakePost(w, s)
  BY <1>12, <1>1 DEF DriftStep, Holders, Granted, Running, PostDone, TakePost, TypeOK
<1>13. QED
  BY <1>2, <1>3, <1>4, <1>5, <1>6, <1>7, <1>8, <1>9, <1>10, <1>11, <1>12 DEF Next

\* The pool of run slots never grows by more than one for every session that was
\* ever cancelled: the over-admission that cancel() causes is bounded.
THEOREM DriftIsBounded == Spec => []SlotDriftBounded
<1> DEFINE C == {s \in Sessions : cancelled[s]}
<1>1. Init => SlotDriftBounded
  <2> SUFFICES ASSUME Init PROVE SlotDriftBounded
    OBVIOUS
  <2>1. Holders = {} /\ C = {}
    BY DispatcherAssumption DEF Init, Holders, Granted, Running, IdleInit
  <2>2. Cardinality(RunWorkers) \in Nat
    BY DispatcherAssumption, FS_CardinalityType
  <2>3. Cardinality(Holders) = 0 /\ Cardinality(C) = 0
    BY <2>1, FS_EmptySet
  <2>4. slots = Cardinality(RunWorkers)
    BY DEF Init
  <2>5. slots + Cardinality(Holders) <= Cardinality(RunWorkers) + Cardinality(C)
    BY <2>2, <2>3, <2>4
  <2>6. QED BY <2>5 DEF SlotDriftBounded
<1>2. SlotDriftBounded /\ IInv /\ IInv' /\ [Next]_vars => SlotDriftBounded'
  <2> SUFFICES ASSUME SlotDriftBounded, IInv, IInv', [Next]_vars
               PROVE  SlotDriftBounded'
    OBVIOUS
  <2>1. slots \in Nat /\ slots' \in Nat /\ Cardinality(RunWorkers) \in Nat
    BY DispatcherAssumption, FS_CardinalityType DEF IInv, TypeOK
  <2>2. /\ IsFiniteSet(Holders) /\ IsFiniteSet(Holders')
        /\ IsFiniteSet(C) /\ IsFiniteSet(C')
    <3>1. Holders \subseteq Sessions /\ Holders' \subseteq Sessions
      BY DEF Holders
    <3>2. QED BY <3>1, DispatcherAssumption, FS_Subset
  <2>3. CASE UNCHANGED vars
    <3>1. slots' = slots /\ Holders' = Holders /\ C' = C
      BY <2>3 DEF vars, lifeVars, workers, queues, sessionVars, Holders, Granted, Running
    <3>2. QED BY <3>1 DEF SlotDriftBounded
  <2>4. CASE Next
    <3>1. DriftStep /\ C \subseteq C'
      BY <2>4, DriftStepTaken
    <3>2. slots + Cardinality(Holders) <= Cardinality(RunWorkers) + Cardinality(C)
      BY DEF SlotDriftBounded
    <3>3. Cardinality(C) \in Nat /\ Cardinality(C') \in Nat
          /\ Cardinality(C) <= Cardinality(C')
      BY <3>1, <2>2, CountsMonotone
    <3>4. Cardinality(Holders) \in Nat /\ Cardinality(Holders') \in Nat
      BY <2>2, FS_CardinalityType
    <3>5. SUFFICES slots' + Cardinality(Holders')
                     <= Cardinality(RunWorkers) + Cardinality(C')
      BY DEF SlotDriftBounded
    <3>6. CASE Holders' \subseteq Holders /\ slots' <= slots
      <4>1. Cardinality(Holders') <= Cardinality(Holders)
        BY <3>6, <2>2, CountsMonotone
      <4>2. QED BY <4>1, <3>6, <3>2, <3>3, <3>4, <2>1
    <3>7. ASSUME NEW s \in Holders, Holders' \subseteq Holders \ {s}, slots' = slots + 1
          PROVE  slots' + Cardinality(Holders') <= Cardinality(RunWorkers) + Cardinality(C')
      <4>1. Holders' \union {s} \subseteq Holders /\ s \notin Holders'
        BY <3>7
      <4>2. Cardinality(Holders') + 1 <= Cardinality(Holders)
        BY <4>1, <2>2, CountsMonotone
      <4>3. QED BY <4>2, <3>7, <3>2, <3>3, <3>4, <2>1
    <3>8. ASSUME NEW s \in Sessions, Holders' \subseteq Holders \union {s},
                 slots' = slots - 1
          PROVE  slots' + Cardinality(Holders') <= Cardinality(RunWorkers) + Cardinality(C')
      <4>1. Holders' \ {s} \subseteq Holders
        BY <3>8
      <4>2. Cardinality(Holders') <= Cardinality(Holders) + 1
        BY <4>1, <2>2, CountsMonotone
      <4>3. QED BY <4>2, <3>8, <3>2, <3>3, <3>4, <2>1
    <3>9. ASSUME NEW s \in Sessions, ~cancelled[s], cancelled'[s],
                 Holders' \subseteq Holders, slots' <= slots + 1
          PROVE  slots' + Cardinality(Holders') <= Cardinality(RunWorkers) + Cardinality(C')
      <4>1. C \union {s} \subseteq C' /\ s \notin C
        BY <3>1, <3>9
      <4>2. Cardinality(C) + 1 <= Cardinality(C')
        BY <4>1, <2>2, CountsMonotone
      <4>3. Cardinality(Holders') <= Cardinality(Holders)
        BY <3>9, <2>2, CountsMonotone
      <4>4. QED BY <4>2, <4>3, <3>9, <3>2, <3>3, <3>4, <2>1
    <3>10. QED BY <3>1, <3>6, <3>7, <3>8, <3>9 DEF DriftStep
  <2>5. QED BY <2>3, <2>4
<1>3. QED BY <1>1, <1>2, InvariantHolds, PTL DEF Spec

\* Acquire and the four releases of a run slot balance: none is lost before stop(), and
\* each cancel() adds at most one.
THEOREM SlotsStayBalanced == Spec => []SlotsBalanced
<1>1. NoSlotLost /\ SlotDriftBounded => SlotsBalanced
  BY DEF SlotsBalanced
<1>2. QED BY <1>1, SlotsConserved, DriftIsBounded, PTL
-----------------------------------------------------------------------------
\* How one step may move one session through its life.
Moves(s) ==
    \/ Life[s] = "absent" /\ Life'[s] = "INIT"
    \/ Life[s] = "INIT" /\ Life'[s] = "READY"
    \/ Life[s] = "READY" /\ Life'[s] = "RUNNING"
    \/ Life[s] \in {"INIT", "READY", "RUNNING"} /\ Life'[s] = "POSTRUN"
    \/ Life[s] = "POSTRUN" /\ Life'[s] = "gone"
    \/ Life'[s] = Life[s]

\* A step that moves one session that way, and no other, is a step of the
\* abstract life cycle or leaves it unchanged.
LEMMA OneSessionMoves ==
    ASSUME NEW s \in Sessions, Moves(s),
           \A x \in Sessions : x # s => Life'[x] = Life[x]
    PROVE  [Lifecycle!Next]_Life
<1>1. Life' = [Life EXCEPT ![s] = Life'[s]]
  BY DEF Life
<1>2. CASE Life'[s] = Life[s]
  <2>1. Life' = Life
    BY <1>2 DEF Life
  <2>2. QED BY <2>1
<1>3. CASE Life'[s] # Life[s]
  <2>1. \/ Lifecycle!Submit(s) \/ Lifecycle!GetReady(s) \/ Lifecycle!Run(s)
        \/ Lifecycle!Finalize(s) \/ Lifecycle!Leave(s)
    BY <1>1, <1>3 DEF Moves, Lifecycle!Submit, Lifecycle!GetReady, Lifecycle!Run,
                      Lifecycle!Finalize, Lifecycle!Leave
  <2>2. QED BY <2>1 DEF Lifecycle!Next
<1>4. QED BY <1>2, <1>3

\* Life of a session in terms of the variables.
LEMMA LifeOf ==
    ASSUME NEW s \in Sessions
    PROVE  /\ Life[s] = IF s \notin known THEN "absent"
                        ELSE IF s \in live THEN stage[s] ELSE "gone"
           /\ Life'[s] = IF s \notin known' THEN "absent"
                         ELSE IF s \in live' THEN stage'[s] ELSE "gone"
BY DEF Life

\* A step that changes stage only of s, and live and known not at all, moves s
\* through its life as it moves stage.
LEMMA StageMoves ==
    ASSUME TypeOK, NEW s \in Sessions, live' = live, known' = known,
           \A x \in Sessions : x # s => stage'[x] = stage[x],
           s \in live => \/ stage'[s] = stage[s]
                         \/ stage[s] = "INIT" /\ stage'[s] = "READY"
                         \/ stage[s] = "READY" /\ stage'[s] = "RUNNING"
                         \/ stage[s] # "POSTRUN" /\ stage'[s] = "POSTRUN"
    PROVE  [Lifecycle!Next]_Life
<1>1. Moves(s)
  BY LifeOf DEF Moves, TypeOK, Stages
<1>2. \A x \in Sessions : x # s => Life'[x] = Life[x]
  BY LifeOf
<1>3. QED BY <1>1, <1>2, OneSessionMoves

\* Every step of the dispatcher is a step of the life cycle or a stutter.
LEMMA StepSimulated ==
    ASSUME IInv, [Next]_vars
    PROVE  [Lifecycle!Next]_Life
<1> USE DispatcherAssumption DEF sessionVars, queues, workers, history, lifeVars
<1>1. TypeOK /\ \A s \in Sessions : SessionInv(s)
  BY DEF IInv
<1>2. CASE /\ live' = live /\ known' = known /\ stage' = stage
  BY <1>2 DEF Life
<1>3. CASE UNCHANGED vars
  BY <1>2, <1>3 DEF vars
<1>4. ASSUME NEW s \in Sessions, CancelReturns(s) \/ CancelRaises(s) \/ StopCancel(s)
      PROVE  [Lifecycle!Next]_Life
  BY <1>2, <1>4 DEF CancelReturns, CancelRaises, StopCancel
<1>5. ASSUME NEW s \in Sessions, Enqueue(s) PROVE [Lifecycle!Next]_Life
  <2>1. stage[s] = "INIT" /\ s \notin known /\ live' = live \union {s}
        /\ known' = known \union {s} /\ stage' = stage
    BY <1>5, <1>1 DEF Enqueue, SessionInv, FreshInv
  <2>2. Moves(s) /\ \A x \in Sessions : x # s => Life'[x] = Life[x]
    BY <2>1, LifeOf DEF Moves
  <2>3. QED BY <2>2, OneSessionMoves
<1>6. ASSUME NEW s \in Sessions, Cancel(s) PROVE [Lifecycle!Next]_Life
  <2>1. /\ live' = live /\ known' = known
        /\ \A x \in Sessions : x # s => stage'[x] = stage[x]
        /\ stage'[s] = stage[s] \/ (stage[s] # "POSTRUN" /\ stage'[s] = "POSTRUN")
    BY <1>6, <1>1 DEF Cancel, Parked, TypeOK
  <2>2. QED BY <1>1, <2>1, StageMoves
<1>7. CASE StopBegin
  <2>1. /\ live' = {} /\ known' = known /\ stage' = stage
        /\ live \subseteq known \/ Sessions = {}
    BY <1>7, <1>1 DEF StopBegin, SessionInv, FreshInv
  <2>2. \A s \in Sessions : Life'[s] = IF Life[s] \in Stages THEN "gone" ELSE Life[s]
    BY <1>1, <2>1, LifeOf DEF TypeOK, Stages
  <2>3. Life' = [s \in Sessions |-> IF Life[s] \in Stages THEN "gone" ELSE Life[s]]
    BY <2>2 DEF Life
  <2>4. Lifecycle!Shutdown
    BY <2>3 DEF Lifecycle!Shutdown, Lifecycle!Stages, Stages
  <2>5. QED BY <2>4 DEF Lifecycle!Next
<1>8. CASE StopFinish
  BY <1>2, <1>8 DEF StopFinish
<1>9. ASSUME NEW w \in InitWorkers, NEW s \in Sessions, TakeInit(w, s)
      PROVE  [Lifecycle!Next]_Life
  <2>1. /\ live' = live /\ known' = known
        /\ \A x \in Sessions : x # s => stage'[x] = stage[x]
    BY <1>9, <1>1 DEF TakeInit, Begin, EnterPostrun, TypeOK
  <2>2. s \in live /\ ~cancelled[s] => stage[s] = "INIT"
    BY <1>9, <1>1 DEF TakeInit, SessionInv, StageInv
  <2>3. s \in live /\ cancelled[s] => stage[s] = "POSTRUN"
    BY <1>9, <1>1 DEF TakeInit, SessionInv, StageInv
  <2>4. ~final[s]
    BY <1>9, <1>1 DEF TakeInit, SessionInv, TokenInv
  <2>5. s \in live => \/ stage'[s] = "POSTRUN"
                      \/ ~cancelled[s] /\ stage'[s] = "INIT"
    BY <1>9, <1>1 DEF TakeInit, Begin, EnterPostrun, Skips, TypeOK
  <2>6. QED BY <1>1, <2>1, <2>2, <2>3, <2>4, <2>5, StageMoves
<1>10. ASSUME NEW w \in InitWorkers, InitDone(w) PROVE [Lifecycle!Next]_Life
  <2> PICK s \in Sessions : s = initW[w].on
    BY <1>10, <1>1 DEF InitDone, IdleInit, TypeOK
  <2>1. /\ live' = live /\ known' = known
        /\ \A x \in Sessions : x # s => stage'[x] = stage[x]
    BY <1>10, <1>1 DEF InitDone, MoveToPostrun, EnterPostrun, TypeOK
  <2>2. stage[s] = "INIT"
    BY <1>10, <1>1 DEF InitDone, SessionInv, StageInv
  <2>3. stage'[s] \in {"INIT", "READY", "POSTRUN"}
    BY <1>10, <1>1, <2>2 DEF InitDone, MoveToPostrun, EnterPostrun, TypeOK
  <2>4. QED BY <1>1, <2>1, <2>2, <2>3, StageMoves
<1>11. ASSUME NEW w \in InitWorkers, Grant(w) \/ SlotAcquired(w) PROVE [Lifecycle!Next]_Life
  BY <1>2, <1>11 DEF Grant, SlotAcquired
<1>12. ASSUME NEW w \in InitWorkers, SlotAbandoned(w) PROVE [Lifecycle!Next]_Life
  <2> PICK s \in Sessions : s = initW[w].on
    BY <1>12, <1>1 DEF SlotAbandoned, IdleInit, TypeOK
  <2>1. /\ live' = live /\ known' = known
        /\ \A x \in Sessions : x # s => stage'[x] = stage[x]
        /\ stage'[s] = stage[s] \/ (stage[s] # "POSTRUN" /\ stage'[s] = "POSTRUN")
    BY <1>12, <1>1 DEF SlotAbandoned, MoveToPostrun, EnterPostrun, TypeOK
  <2>2. QED BY <1>1, <2>1, StageMoves
<1>13. ASSUME NEW w \in RunWorkers, NEW s \in Sessions, TakeReady(w, s)
       PROVE  [Lifecycle!Next]_Life
  <2>1. /\ live' = live /\ known' = known
        /\ \A x \in Sessions : x # s => stage'[x] = stage[x]
    BY <1>13, <1>1 DEF TakeReady, Begin, EnterPostrun, TypeOK
  <2>2. PastInit(s) /\ ~final[s]
    BY <1>13, <1>1 DEF TakeReady, PastInit, SessionInv, TokenInv
  <2>3. s \in live /\ ~cancelled[s] => stage[s] = "READY"
    BY <2>2, <1>1 DEF SessionInv, StageInv
  <2>4. s \in live /\ cancelled[s] => stage[s] = "POSTRUN"
    BY <2>2, <1>1 DEF SessionInv, StageInv
  <2>5. s \in live => \/ cancelled[s] /\ stage'[s] = "POSTRUN"
                      \/ ~cancelled[s] /\ stage'[s] = "RUNNING"
    BY <1>13, <1>1, <2>2 DEF TakeReady, Begin, EnterPostrun, Skips, TypeOK
  <2>6. QED BY <1>1, <2>1, <2>3, <2>4, <2>5, StageMoves
<1>14. ASSUME NEW w \in RunWorkers, RunDone(w) PROVE [Lifecycle!Next]_Life
  <2> PICK s \in Sessions : s = runW[w]
    BY <1>14, <1>1 DEF RunDone, TypeOK
  <2>1. /\ live' = live /\ known' = known
        /\ \A x \in Sessions : x # s => stage'[x] = stage[x]
        /\ stage'[s] = stage[s] \/ (stage[s] # "POSTRUN" /\ stage'[s] = "POSTRUN")
    BY <1>14, <1>1 DEF RunDone, MoveToPostrun, EnterPostrun, TypeOK
  <2>2. QED BY <1>1, <2>1, StageMoves
<1>15. ASSUME NEW w \in PostWorkers, NEW s \in Sessions, TakePost(w, s)
       PROVE  [Lifecycle!Next]_Life
  <2>1. /\ live' = live /\ known' = known
        /\ \A x \in Sessions : x # s => stage'[x] = stage[x]
    BY <1>15, <1>1 DEF TakePost, Begin, TypeOK
  <2>2. s \in live => stage[s] = "POSTRUN" /\ stage'[s] = "POSTRUN"
    BY <1>15, <1>1 DEF TakePost, Begin, TypeOK, SessionInv, StageInv
  <2>3. QED BY <1>1, <2>1, <2>2, StageMoves
<1>16. ASSUME NEW w \in PostWorkers, PostDone(w) PROVE [Lifecycle!Next]_Life
  <2> PICK s \in Sessions : s = postW[w]
    BY <1>16, <1>1 DEF PostDone, TypeOK
  <2>1. live' = live \ {s} /\ known' = known /\ stage' = stage
    BY <1>16 DEF PostDone
  <2>2. s \in live => stage[s] = "POSTRUN" /\ s \in known
    BY <1>1 DEF SessionInv, StageInv, FreshInv, NoPostWorker
  <2>3. Moves(s) /\ \A x \in Sessions : x # s => Life'[x] = Life[x]
    BY <2>1, <2>2, LifeOf DEF Moves
  <2>4. QED BY <2>3, OneSessionMoves
<1>17. QED
  BY <1>3, <1>4, <1>5, <1>6, <1>7, <1>8, <1>9, <1>10, <1>11, <1>12, <1>13, <1>14, <1>15,
     <1>16 DEF Next

\* The dispatcher, with its queues, pools, slots, cancellation and shutdown,
\* implements the life cycle its docstring promises.
THEOREM DispatcherImplementsLifecycle == Spec => ImplementsLifecycle
<1>1. Init => Lifecycle!Init
  BY DEF Init, Life, Lifecycle!Init
<1>2. IInv /\ [Next]_vars => [Lifecycle!Next]_Life
  BY StepSimulated
<1>3. QED
  BY <1>1, <1>2, InvariantHolds, PTL DEF Spec, ImplementsLifecycle, Lifecycle!Spec
-----------------------------------------------------------------------------
\* Where the token of a session is, or the post-run queue and workers, decides
\* stage and inflight, and with them the counter that snapshot() adds it to.
THEOREM SnapshotCounts == Spec => []SnapshotFaithful
<1>1. IInv => SnapshotFaithful
  <2> SUFFICES ASSUME IInv, phase # "stopped", NEW s \in live, ~cancelled[s]
               PROVE  Places(s) = {Bucket(s)}
    BY DEF SnapshotFaithful
  <2>0. s \in Sessions
    BY DEF IInv, TypeOK
  <2>1. TypeOK /\ TokenInv(s) /\ PostrunInv(s) /\ StageInv(s) /\ LiveInv(s)
    BY <2>0 DEF IInv, SessionInv
  <2> DEFINE Ready == Waiting(s) \/ Granted(s) \/ readyQ[s] > 0
             Post  == ~NoPostWorker(s)
  <2>2. Ready <=> PastInit(s)
    BY <2>0, <2>1, DispatcherAssumption DEF PastInit, Waiting, Granted, IdleInit, TypeOK
  <2>3. Post <=> InPostrun(s)
    BY DEF InPostrun, NoPostWorker
  <2>4. \/ /\ initQ[s] > 0 /\ ~InInit(s) /\ ~Ready /\ ~Running(s) /\ ~(postQ[s] > 0)
           /\ ~InPostrun(s) /\ Bucket(s) = "init_queue_depth"
        \/ /\ ~(initQ[s] > 0) /\ InInit(s) /\ ~Ready /\ ~Running(s) /\ ~(postQ[s] > 0)
           /\ ~InPostrun(s) /\ Bucket(s) = "init_inflight"
        \/ /\ ~(initQ[s] > 0) /\ ~InInit(s) /\ Ready /\ ~Running(s) /\ ~(postQ[s] > 0)
           /\ ~InPostrun(s) /\ Bucket(s) = "ready_depth"
        \/ /\ ~(initQ[s] > 0) /\ ~InInit(s) /\ ~Ready /\ Running(s) /\ ~(postQ[s] > 0)
           /\ ~InPostrun(s) /\ Bucket(s) = "run_inflight"
        \/ /\ ~(initQ[s] > 0) /\ ~InInit(s) /\ ~Ready /\ ~Running(s) /\ postQ[s] > 0
           /\ ~InPostrun(s) /\ Bucket(s) = "postrun_queue_depth"
        \/ /\ ~(initQ[s] > 0) /\ ~InInit(s) /\ ~Ready /\ ~Running(s) /\ ~(postQ[s] > 0)
           /\ InPostrun(s) /\ Bucket(s) = "postrun_inflight"
    <3>1. CASE initQ[s] > 0
      BY <2>1, <2>2, <2>3, <3>1
      DEF TokenInv, PostrunInv, StageInv, NoToken, NoPost, NoInitWorker, NoRunWorker,
          NoPostWorker, PastInit, InInit, Running, Bucket
    <3>2. CASE InInit(s)
      BY <2>1, <2>2, <2>3, <3>2
      DEF TokenInv, PostrunInv, StageInv, NoToken, NoPost, NoInitWorker, NoRunWorker,
          NoPostWorker, PastInit, InInit, Running, Bucket
    <3>3. CASE Ready
      BY <2>1, <2>2, <2>3, <3>3
      DEF TokenInv, PostrunInv, StageInv, NoToken, NoPost, NoInitWorker, NoRunWorker,
          NoPostWorker, PastInit, InInit, Running, Bucket
    <3>4. CASE Running(s)
      BY <2>1, <2>2, <2>3, <3>4
      DEF TokenInv, PostrunInv, StageInv, NoToken, NoPost, NoInitWorker, NoRunWorker,
          NoPostWorker, PastInit, InInit, Running, Bucket
    <3>5. CASE NoToken(s) /\ postQ[s] > 0
      BY <2>1, <2>2, <2>3, <3>5
      DEF PostrunInv, StageInv, NoToken, NoInitWorker, NoRunWorker, PastInit, InInit,
          Running, Bucket
    <3>6. CASE NoToken(s) /\ Post
      BY <2>1, <2>2, <2>3, <3>6
      DEF PostrunInv, StageInv, NoToken, NoInitWorker, NoRunWorker, NoPostWorker, PastInit,
          InInit, Running, Bucket, TypeOK
    <3>7. initQ[s] > 0 \/ InInit(s) \/ Ready \/ Running(s) \/ NoToken(s)
      BY <2>0, <2>1, DispatcherAssumption
      DEF NoToken, NoInitWorker, NoRunWorker, InInit, Waiting, Granted, Running,
                  IdleInit, TypeOK
    <3>8. NoToken(s) => postQ[s] > 0 \/ Post
      BY <2>1 DEF LiveInv, Somewhere
    <3>9. QED BY <3>1, <3>2, <3>3, <3>4, <3>5, <3>6, <3>7, <3>8
  <2>5. \A c \in Counters : Occupies(s, c) <=> c = Bucket(s)
    BY <2>4 DEF Counters, Occupies
  <2>6. Bucket(s) \in Counters
    BY <2>4 DEF Counters
  <2>7. QED BY <2>5, <2>6 DEF Places
<1>2. QED BY <1>1, InvariantHolds, PTL
=============================================================================
