-------------------------- MODULE SessionDispatcher --------------------------
(***************************************************************************)
(* The gateway's stage-isolated session dispatcher,                        *)
(* src/polar/gateway/dispatcher.py: three asyncio queues, three worker     *)
(* pools, one semaphore of run slots and a dictionary of live sessions.    *)
(*                                                                         *)
(* Granularity.  The dispatcher runs on one event loop: code between two   *)
(* suspension points is one step.  _lock is only ever held over code that  *)
(* does not suspend, and the queues are unbounded, so neither "async with  *)
(* self._lock" nor "await queue.put" lets another task in.  A step ends at *)
(* a queue get, at the await of a stage callback, at the wait for a run    *)
(* slot, or at the await of runtime.cancel().                              *)
(*                                                                         *)
(* A queue is a bag: the number of times each id is in it.  Dropping the   *)
(* order only adds behaviours; fairness puts back what FIFO guarantees.    *)
(***************************************************************************)
EXTENDS Naturals, FiniteSets

CONSTANTS
    Sessions,        \* session ids
    InitWorkers, RunWorkers, PostWorkers,   \* the tasks of the three pools
    CancelMayRaise,  \* whether BaseRuntime.cancel() can raise
    StopAllowed      \* whether stop() is called

None == "none"

\* __init__ rejects an empty pool.
ASSUME DispatcherAssumption ==
    /\ IsFiniteSet(Sessions) /\ None \notin Sessions
    /\ IsFiniteSet(RunWorkers)
    /\ InitWorkers # {} /\ RunWorkers # {} /\ PostWorkers # {}
    /\ CancelMayRaise \in BOOLEAN /\ StopAllowed \in BOOLEAN

VARIABLES
    phase,        \* "started" | "stopping" | "stopped"
    live,         \* the keys of _sessions
    known,        \* ids ever enqueued: the registry makes an id single-use
    stage,        \* ManagedSession.stage
    inflight,     \* ManagedSession.inflight
    cancelled,    \* ManagedSession.cancel_requested (and cancel_event)
    final,        \* ManagedSession.final_result is not None
    runtime,      \* ManagedSession.runtime is not None
    initQ, readyQ, postQ,       \* the three stage queues
    slots,        \* the value of the semaphore _ready_slots
    initW,        \* init workers: [at, on]
    runW, postW,  \* run and post-run workers: the session in their callback
    canceller,    \* a cancel() suspended in runtime.cancel(): "no" if none
    stopList,     \* sessions stop() has still to cancel
    inits, runs, posts          \* history: callbacks invoked per session

sessionVars == <<stage, inflight, cancelled, final, runtime>>
queues      == <<initQ, readyQ, postQ>>
workers     == <<initW, runW, postW>>
history     == <<inits, runs, posts>>
lifeVars    == <<phase, live, known, stopList>>
vars == <<sessionVars, queues, workers, history, lifeVars, slots, canceller>>
-----------------------------------------------------------------------------
IdleInit == [at |-> "idle", on |-> None]
Put(q, s)  == [q EXCEPT ![s] = @ + 1]
Take(q, s) == [q EXCEPT ![s] = @ - 1]
Count(h, s) == [h EXCEPT ![s] = @ + 1]

Stages == {"INIT", "READY", "RUNNING", "POSTRUN"}

\* Mutant: a cancelled session is not skipped.
MutSkips(s) == final[s]

\* A stage callback is skipped for a session that is cancelled or has its result.
Skips(s) == cancelled[s] \/ final[s]

Init ==
    /\ phase = "started" /\ live = {} /\ known = {} /\ stopList = {}
    /\ stage = [s \in Sessions |-> "INIT"]
    /\ inflight  = [s \in Sessions |-> FALSE]
    /\ cancelled = [s \in Sessions |-> FALSE]
    /\ final     = [s \in Sessions |-> FALSE]
    /\ runtime   = [s \in Sessions |-> FALSE]
    /\ initQ  = [s \in Sessions |-> 0]
    /\ readyQ = [s \in Sessions |-> 0]
    /\ postQ  = [s \in Sessions |-> 0]
    /\ slots = Cardinality(RunWorkers)
    /\ initW = [w \in InitWorkers |-> IdleInit]
    /\ runW  = [w \in RunWorkers  |-> None]
    /\ postW = [w \in PostWorkers |-> None]
    /\ canceller = [s \in Sessions |-> "no"]
    /\ inits = [s \in Sessions |-> 0]
    /\ runs  = [s \in Sessions |-> 0]
    /\ posts = [s \in Sessions |-> 0]
-----------------------------------------------------------------------------
(* Calls from the gateway: enqueue, cancel, stop. *)

Enqueue(s) ==
    /\ phase # "stopped"
    /\ s \notin known
    /\ live' = live \union {s}
    /\ known' = known \union {s}
    /\ initQ' = Put(initQ, s)
    /\ UNCHANGED <<sessionVars, readyQ, postQ, workers, history, phase, stopList,
                   slots, canceller>>

\* Mutant: a session in the middle of its init callback counts as parked.
MutParked(s) == stage[s] \in {"INIT", "READY"}

\* Parked: queued in INIT, or in READY whether or not it holds a run slot yet.
Parked(s) == stage[s] \in {"INIT", "READY"} /\ ~inflight[s]

\* The first cancel() of a session.  A later one returns without effect.  The
\* caller is suspended in runtime.cancel() when the session has a runtime.
Cancel(s) ==
    /\ s \in live /\ ~cancelled[s]
    /\ cancelled' = [cancelled EXCEPT ![s] = TRUE]
    /\ slots' = IF Parked(s) /\ stage[s] = "READY" THEN slots + 1 ELSE slots
    /\ stage' = [stage EXCEPT ![s] = IF Parked(s) THEN "POSTRUN" ELSE @]
    /\ canceller' = [canceller EXCEPT ![s] = CASE ~runtime[s] -> "no"
                                               [] runtime[s] /\ Parked(s) -> "parked"
                                               [] OTHER -> "busy"]
    /\ postQ' = IF Parked(s) /\ ~runtime[s] THEN Put(postQ, s) ELSE postQ
    /\ UNCHANGED <<inflight, final, runtime, initQ, readyQ, workers, history, lifeVars>>

\* runtime.cancel() returned: a parked session is handed to the post-run queue.
CancelReturns(s) ==
    /\ canceller[s] # "no"
    /\ canceller' = [canceller EXCEPT ![s] = "no"]
    /\ postQ' = IF canceller[s] = "parked" THEN Put(postQ, s) ELSE postQ
    /\ UNCHANGED <<sessionVars, initQ, readyQ, workers, history, lifeVars, slots>>

\* runtime.cancel() raised (process.kill() of a process that just exited, or the
\* container command failed): the exception leaves cancel() before the put.
CancelRaises(s) ==
    /\ CancelMayRaise
    /\ canceller[s] # "no"
    /\ canceller' = [canceller EXCEPT ![s] = "no"]
    /\ UNCHANGED <<sessionVars, queues, workers, history, lifeVars, slots>>

StopBegin ==
    /\ StopAllowed /\ phase = "started"
    /\ phase' = "stopping" /\ stopList' = live /\ live' = {}
    /\ UNCHANGED <<sessionVars, queues, workers, history, known, slots, canceller>>

StopCancel(s) ==
    /\ s \in stopList
    /\ stopList' = stopList \ {s}
    /\ cancelled' = [cancelled EXCEPT ![s] = TRUE]
    /\ UNCHANGED <<stage, inflight, final, runtime, queues, workers, history,
                   phase, live, known, slots, canceller>>

\* The worker tasks are cancelled wherever they are suspended.
StopFinish ==
    /\ phase = "stopping" /\ stopList = {}
    /\ phase' = "stopped"
    /\ initW' = [w \in InitWorkers |-> IdleInit]
    /\ runW'  = [w \in RunWorkers  |-> None]
    /\ postW' = [w \in PostWorkers |-> None]
    /\ UNCHANGED <<sessionVars, queues, history, live, known, stopList, slots, canceller>>
-----------------------------------------------------------------------------
(* _begin and _move_to_postrun, as they act on one session. *)

Begin(s, st) ==
    /\ stage' = [stage EXCEPT ![s] = st]
    /\ inflight' = [inflight EXCEPT ![s] = TRUE]

\* Mutant: the session stays marked as executing while it queues.
MutEnterPostrun(s) ==
    /\ stage' = [stage EXCEPT ![s] = "POSTRUN"]
    /\ postQ' = Put(postQ, s)
    /\ UNCHANGED inflight

EnterPostrun(s) ==
    /\ stage' = [stage EXCEPT ![s] = "POSTRUN"]
    /\ inflight' = [inflight EXCEPT ![s] = FALSE]
    /\ postQ' = Put(postQ, s)

\* _move_to_postrun: nothing for a session that is gone or already there.
MoveToPostrun(s) ==
    IF s \in live /\ stage[s] # "POSTRUN"
    THEN EnterPostrun(s)
    ELSE UNCHANGED <<stage, inflight, postQ>>
-----------------------------------------------------------------------------
(* Init workers. *)

\* One item of the init queue.  A session to be skipped goes through INIT and on
\* to POSTRUN without a suspension in between.
TakeInit(w, s) ==
    /\ phase # "stopped" /\ initW[w] = IdleInit /\ initQ[s] > 0
    /\ initQ' = Take(initQ, s)
    /\ \/ /\ s \notin live
          /\ UNCHANGED <<stage, inflight, final, runtime, postQ, initW, inits>>
       \/ /\ s \in live /\ Skips(s)
          /\ EnterPostrun(s)
          /\ UNCHANGED <<final, runtime, initW, inits>>
       \/ /\ s \in live /\ ~Skips(s)           \* no runtime can be created: no await
          /\ EnterPostrun(s)
          /\ final' = [final EXCEPT ![s] = TRUE]
          /\ inits' = Count(inits, s)
          /\ UNCHANGED <<runtime, initW>>
       \/ /\ s \in live /\ ~Skips(s)
          /\ Begin(s, "INIT")
          /\ runtime' = [runtime EXCEPT ![s] = TRUE]
          /\ initW' = [initW EXCEPT ![w] = [at |-> "callback", on |-> s]]
          /\ inits' = Count(inits, s)
          /\ UNCHANGED <<final, postQ>>
    /\ UNCHANGED <<cancelled, readyQ, runW, postW, runs, posts,
                   lifeVars, slots, canceller>>

\* The init callback is over, with or without a final result; _finish_init.
InitDone(w) ==
    LET s == initW[w].on IN
    /\ initW[w].at = "callback"
    /\ \E failed \in BOOLEAN :
         /\ final' = [final EXCEPT ![s] = failed]
         /\ \/ /\ cancelled[s] \/ failed
               /\ MoveToPostrun(s)
               /\ initW' = [initW EXCEPT ![w] = IdleInit]
            \/ /\ ~cancelled[s] /\ ~failed /\ s \notin live
               /\ initW' = [initW EXCEPT ![w] = IdleInit]
               /\ UNCHANGED <<stage, inflight, postQ>>
            \/ /\ ~cancelled[s] /\ ~failed /\ s \in live
               /\ stage' = [stage EXCEPT ![s] = "READY"]
               /\ inflight' = [inflight EXCEPT ![s] = FALSE]
               /\ initW' = [initW EXCEPT ![w] = [at |-> "wait", on |-> s]]
               /\ UNCHANGED postQ
    /\ UNCHANGED <<cancelled, runtime, initQ, readyQ, runW, postW, history,
                   lifeVars, slots, canceller>>

\* The semaphore serves the acquire task of _acquire_ready_slot.
Grant(w) ==
    LET s == initW[w].on IN
    /\ initW[w].at = "wait" /\ slots > 0
    /\ slots' = slots - 1
    /\ initW' = [initW EXCEPT ![w] = [at |-> "granted", on |-> s]]
    /\ UNCHANGED <<sessionVars, queues, runW, postW, history, lifeVars, canceller>>

SlotAcquired(w) ==
    LET s == initW[w].on IN
    /\ initW[w].at = "granted" /\ ~cancelled[s]
    /\ readyQ' = Put(readyQ, s)
    /\ initW' = [initW EXCEPT ![w] = IdleInit]
    /\ UNCHANGED <<sessionVars, initQ, postQ, runW, postW, history, lifeVars,
                   slots, canceller>>

\* cancel_event won, or a slot was granted but the session is cancelled by now.
SlotAbandoned(w) ==
    LET s == initW[w].on IN
    /\ initW[w].at \in {"wait", "granted"} /\ cancelled[s]
    /\ slots' = IF initW[w].at = "granted" THEN slots + 1 ELSE slots
    /\ MoveToPostrun(s)
    /\ initW' = [initW EXCEPT ![w] = IdleInit]
    /\ UNCHANGED <<cancelled, final, runtime, initQ, readyQ, runW, postW, history,
                   lifeVars, canceller>>
-----------------------------------------------------------------------------
(* Run workers. *)

\* Mutant: the id is read and stays at the head of the queue.
MutTakeReady(w, s) ==
    /\ phase # "stopped" /\ runW[w] = None /\ readyQ[s] > 0
    /\ s \in live /\ ~Skips(s)
    /\ Begin(s, "RUNNING")
    /\ runW' = [runW EXCEPT ![w] = s]
    /\ runs' = Count(runs, s)
    /\ UNCHANGED <<cancelled, final, runtime, queues, initW, postW, inits, posts,
                   lifeVars, slots, canceller>>

TakeReady(w, s) ==
    /\ phase # "stopped" /\ runW[w] = None /\ readyQ[s] > 0
    /\ readyQ' = Take(readyQ, s)
    /\ \/ /\ s \notin live
          /\ UNCHANGED <<stage, inflight, postQ, runW, runs, slots>>
       \/ /\ s \in live /\ Skips(s)
          /\ slots' = slots + 1
          /\ EnterPostrun(s)
          /\ UNCHANGED <<runW, runs>>
       \/ /\ s \in live /\ ~Skips(s)
          /\ Begin(s, "RUNNING")
          /\ runW' = [runW EXCEPT ![w] = s]
          /\ runs' = Count(runs, s)
          /\ UNCHANGED <<postQ, slots>>
    /\ UNCHANGED <<cancelled, final, runtime, initQ, initW, postW, inits, posts,
                   lifeVars, canceller>>

\* Mutant: a failed run keeps its slot.
MutRunDoneLeaks(w) ==
    LET s == runW[w] IN
    /\ s # None
    /\ \E failed \in BOOLEAN :
         /\ final' = [final EXCEPT ![s] = failed]
         /\ slots' = IF failed THEN slots ELSE slots + 1
    /\ MoveToPostrun(s)
    /\ runW' = [runW EXCEPT ![w] = None]
    /\ UNCHANGED <<cancelled, runtime, initQ, readyQ, initW, postW, history,
                   lifeVars, canceller>>

\* Mutant: the slot is given back here and once more by _move_to_postrun.
MutRunDoneTwice(w) ==
    LET s == runW[w] IN
    /\ s # None
    /\ slots' = slots + 2
    /\ MoveToPostrun(s)
    /\ runW' = [runW EXCEPT ![w] = None]
    /\ UNCHANGED <<cancelled, final, runtime, initQ, readyQ, initW, postW, history,
                   lifeVars, canceller>>

\* The run callback is over, with a final result if it failed.
RunDone(w) ==
    LET s == runW[w] IN
    /\ s # None
    /\ \E failed \in (IF cancelled[s] THEN {FALSE} ELSE BOOLEAN) :
         final' = [final EXCEPT ![s] = failed]
    /\ slots' = slots + 1
    /\ MoveToPostrun(s)
    /\ runW' = [runW EXCEPT ![w] = None]
    /\ UNCHANGED <<cancelled, runtime, initQ, readyQ, initW, postW, history,
                   lifeVars, canceller>>
-----------------------------------------------------------------------------
(* Post-run workers. *)

TakePost(w, s) ==
    /\ phase # "stopped" /\ postW[w] = None /\ postQ[s] > 0
    /\ postQ' = Take(postQ, s)
    /\ \/ /\ s \notin live
          /\ UNCHANGED <<stage, inflight, postW, posts>>
       \/ /\ s \in live
          /\ Begin(s, "POSTRUN")
          /\ postW' = [postW EXCEPT ![w] = s]
          /\ posts' = Count(posts, s)
    /\ UNCHANGED <<cancelled, final, runtime, initQ, readyQ, initW, runW, inits, runs,
                   lifeVars, slots, canceller>>

PostDone(w) ==
    /\ postW[w] # None
    /\ live' = live \ {postW[w]}
    /\ postW' = [postW EXCEPT ![w] = None]
    /\ UNCHANGED <<sessionVars, queues, initW, runW, history, phase, known, stopList,
                   slots, canceller>>
-----------------------------------------------------------------------------
Next ==
    \/ \E s \in Sessions : Enqueue(s) \/ Cancel(s) \/ CancelReturns(s) \/ CancelRaises(s)
    \/ StopBegin \/ StopFinish \/ \E s \in Sessions : StopCancel(s)
    \/ \E w \in InitWorkers :
          \/ \E s \in Sessions : TakeInit(w, s)
          \/ InitDone(w)
          \/ Grant(w) \/ SlotAcquired(w) \/ SlotAbandoned(w)
    \/ \E w \in RunWorkers  : RunDone(w)  \/ \E s \in Sessions : TakeReady(w, s)
    \/ \E w \in PostWorkers : PostDone(w) \/ \E s \in Sessions : TakePost(w, s)

Spec == Init /\ [][Next]_vars

(***************************************************************************)
(* Fairness.  The event loop runs every ready task.  A queue and the       *)
(* semaphore are FIFO, so whoever waits while the resource comes free      *)
(* again and again is served: strong fairness per session and per waiter.  *)
(* That a stage callback ends is assumed here.  The gateway bounds most of *)
(* what it does by the session's execution budget, but not the copies of   *)
(* files in INIT (GatewayNode); one that hangs keeps its worker.           *)
(***************************************************************************)
Fairness ==
    /\ \A s \in Sessions :
          /\ WF_vars(CancelReturns(s))
          /\ SF_vars(\E w \in InitWorkers : TakeInit(w, s))
          /\ SF_vars(\E w \in RunWorkers  : TakeReady(w, s))
          /\ SF_vars(\E w \in PostWorkers : TakePost(w, s))
    /\ \A w \in InitWorkers :
          /\ WF_vars(InitDone(w)) /\ SF_vars(Grant(w))
          /\ WF_vars(SlotAcquired(w)) /\ WF_vars(SlotAbandoned(w))
    /\ \A w \in RunWorkers  : WF_vars(RunDone(w))
    /\ \A w \in PostWorkers : WF_vars(PostDone(w))

FairSpec == Spec /\ Fairness
-----------------------------------------------------------------------------
(* Who holds what. *)

InInit(s)    == \E w \in InitWorkers : initW[w] = [at |-> "callback", on |-> s]
Waiting(s)   == \E w \in InitWorkers : initW[w] = [at |-> "wait", on |-> s]
Granted(s)   == \E w \in InitWorkers : initW[w] = [at |-> "granted", on |-> s]
Running(s)   == \E w \in RunWorkers  : runW[w] = s
InPostrun(s) == \E w \in PostWorkers : postW[w] = s

\* Sessions with a slot taken from the semaphore and not given back.
Holders == {s \in Sessions : Granted(s) \/ readyQ[s] > 0 \/ Running(s)}

\* Those of them that will give it back: cancel() has already given back the
\* slot of a session cancelled in the ready queue.
Backed ==
    {s \in Sessions : Granted(s) \/ (readyQ[s] > 0 /\ ~cancelled[s]) \/ Running(s)}

\* The counter of snapshot() that counts a session.
Bucket(s) ==
    CASE stage[s] = "INIT"    -> IF inflight[s] THEN "init_inflight" ELSE "init_queue_depth"
      [] stage[s] = "READY"   -> "ready_depth"
      [] stage[s] = "RUNNING" -> "run_inflight"
      [] OTHER -> IF inflight[s] THEN "postrun_inflight" ELSE "postrun_queue_depth"

Counters == {"init_queue_depth", "init_inflight", "ready_depth", "run_inflight",
             "postrun_queue_depth", "postrun_inflight"}

\* Where the id of a session really is: the counters it should add to.
Occupies(s, c) ==
    CASE c = "init_queue_depth"    -> initQ[s] > 0
      [] c = "init_inflight"       -> InInit(s)
      [] c = "ready_depth"         -> Waiting(s) \/ Granted(s) \/ readyQ[s] > 0
      [] c = "run_inflight"        -> Running(s)
      [] c = "postrun_queue_depth" -> postQ[s] > 0
      [] c = "postrun_inflight"    -> InPostrun(s)

Places(s) == {c \in Counters : Occupies(s, c)}
-----------------------------------------------------------------------------
TypeOK ==
    /\ phase \in {"started", "stopping", "stopped"}
    /\ live \subseteq Sessions /\ known \subseteq Sessions /\ stopList \subseteq Sessions
    /\ stage \in [Sessions -> Stages]
    /\ inflight \in [Sessions -> BOOLEAN]
    /\ cancelled \in [Sessions -> BOOLEAN]
    /\ final \in [Sessions -> BOOLEAN]
    /\ runtime \in [Sessions -> BOOLEAN]
    /\ initQ \in [Sessions -> Nat] /\ readyQ \in [Sessions -> Nat]
    /\ postQ \in [Sessions -> Nat]
    /\ slots \in Nat
    /\ initW \in [InitWorkers -> [at : {"callback", "wait", "granted"}, on : Sessions]
                                    \union {IdleInit}]
    /\ runW \in [RunWorkers -> Sessions \union {None}]
    /\ postW \in [PostWorkers -> Sessions \union {None}]
    /\ canceller \in [Sessions -> {"no", "busy", "parked"}]
    /\ inits \in [Sessions -> Nat] /\ runs \in [Sessions -> Nat]
    /\ posts \in [Sessions -> Nat]

\* Post-run handling, which tears the runtime down and deletes the session's
\* files, never overlaps an init or run callback of the same session, and those
\* two never overlap each other, however cancel() interleaves.
CallbackExclusion ==
    \A s \in Sessions :
        /\ ~(InInit(s) /\ Running(s))
        /\ ~(InPostrun(s) /\ (InInit(s) \/ Running(s)))

\* A session is initialised and run at most once, run only after it was
\* initialised, and finalised at most once unless it was cancelled.
StagesOnce ==
    \A s \in Sessions :
        /\ inits[s] <= 1 /\ runs[s] <= inits[s]
        /\ ~cancelled[s] => posts[s] <= 1

\* No run slot is ever lost: those in the semaphore and those that will come
\* back to it are at least as many as the run workers, so READY cannot wedge.
NoSlotLost ==
    phase = "started" => slots + Cardinality(Backed) >= Cardinality(RunWorkers)

\* Every cancel() inflates the pool of run slots by at most one.
SlotDriftBounded ==
    slots + Cardinality(Holders)
        <= Cardinality(RunWorkers) + Cardinality({s \in Sessions : cancelled[s]})

\* Whichever of its four places releases a slot, and in whatever order, the pool of run
\* slots never shrinks and grows by at most one for every cancel().
SlotsBalanced == NoSlotLost /\ SlotDriftBounded

\* The metrics the rollout server admits by: a session that was not cancelled is
\* in exactly one place and snapshot() counts it there.
SnapshotFaithful ==
    phase # "stopped" =>
        \A s \in live : ~cancelled[s] => Places(s) = {Bucket(s)}

\* No queue and no worker has the id of a cancelled session, and no cancel() will put it in
\* one: its runtime.cancel() raised.
Stranded(s) ==
    /\ cancelled[s] /\ runtime[s] /\ stage[s] = "POSTRUN"
    /\ canceller[s] = "no" /\ Places(s) = {}

\* Every session handed to the dispatcher is eventually finished with, unless the dispatcher
\* is stopped or a runtime.cancel() that raised left it in no queue.
EverySessionLeaves ==
    \A s \in Sessions :
        (s \in live) ~> (s \notin live \/ phase # "started" \/ Stranded(s))

\* The dispatcher implements the abstract session life cycle.
Life == [s \in Sessions |-> IF s \notin known THEN "absent"
                            ELSE IF s \in live THEN stage[s] ELSE "gone"]

Lifecycle == INSTANCE SessionLifecycle WITH life <- Life

\* Between two steps a session only ever moves forward through its stages, even
\* though a worker may begin an earlier stage of a session cancelled meanwhile.
ImplementsLifecycle == Lifecycle!Spec

(***************************************************************************)
(* What comments in dispatcher.py say, and the code does not do.           *)
(***************************************************************************)

\* "parked in READY (holding a ready slot), release it": the semaphore never
\* promises more slots than there are run workers.
SlotsNeverExceedPool ==
    slots + Cardinality(Holders) <= Cardinality(RunWorkers)

\* "Drive INIT -> READY -> RUNNING -> POSTRUN": each stage is driven once.
PostrunOnce == \A s \in Sessions : posts[s] <= 1
=============================================================================
