---------------------------- MODULE CompletionStore ----------------------------
(***************************************************************************)
(* What a gateway keeps of one session while completions pass through it:  *)
(* the registry (gateway/session.py), the store of completions             *)
(* (storage.py), the writer that copies them to disk                       *)
(* (completion_writer.py), and the handlers of server.py that use them.    *)
(*                                                                         *)
(* The handlers run on one event loop: what lies between two awaits is     *)
(* atomic.  save_message runs in a thread of its own, one step per lock,   *)
(* and reaches the loop again through call_soon_threadsafe, which keeps    *)
(* the order of the calls.  Of the session's stages the module keeps only  *)
(* what touches the store: dispatch, the load for the builder, the end of  *)
(* post-run, DELETE.  A request is one completion that somebody asks for.  *)
(***************************************************************************)
EXTENDS Naturals, Sequences, FiniteSets, SequencesExt

CONSTANTS
    Requests,     \* completion requests
    Explicit,     \* those that name the session; the others give its id as API key
    QueueSize     \* of the completion writer

\* A request is none of the other values of writer, queue and record.
ASSUME StoreAssumption ==
    /\ Explicit \subseteq Requests /\ IsFiniteSet(Requests) /\ QueueSize \in Nat \ {0}
    /\ Requests \intersect {"idle", "closed", "cancelled", "close", "no record"} = {}

VARIABLES
    registry,     \* the session's entry: "none", "bare" (no sampling parameters), "dispatched"
    strangers,    \* requests that were registered under an id made up for them
    record,       \* the store's completions of the session, or NoRecord
    session,      \* how far dispatch and post-run are
    trajectory,   \* the completions the builder was given
    deletion,     \* DELETE /sessions/{id}
    pc,           \* per request: its handler, and then the thread that saves it
    clock, stamp, \* time, and the timestamp of each completion
    number,       \* per request: the sequence number of its file, 0 before
    sequence,     \* the writer's last number for the session, which is never removed
    calls,        \* calls handed to the event loop by threads, oldest first
    queue,        \* the writer's queue
    writer,       \* "idle", the completion being written, "closed" or "cancelled"
    files,        \* completions on disk
    unwritten,    \* completions the writer dropped or failed to write
    earlier,      \* history: the requests answered before this one began
    late          \* history: a request was under way, or made, while the session was not known

sessionVars == <<registry, strangers, record, session, trajectory, deletion, late>>
threadVars  == <<clock, stamp, number, sequence>>
writerVars  == <<calls, queue, writer, files, unwritten>>
vars == <<sessionVars, pc, threadVars, writerVars, earlier>>
-----------------------------------------------------------------------------
NoRecord == <<"no record">>
Close == "close"      \* the None that CompletionWriter.close puts into the queue

Answered == {r \in Requests : pc[r] = "answered"}
InFlight == {r \in Requests : pc[r] \notin {"idle", "answered", "failed"}}

MutOpened(rec) == <<>>

\* _get_or_create_session_locked
Opened(rec) == IF rec = NoRecord THEN <<>> ELSE rec
Init ==
    /\ registry = "none" /\ strangers = {} /\ record = NoRecord
    /\ session = "new" /\ trajectory = NoRecord /\ deletion = "none" /\ late = FALSE
    /\ pc = [r \in Requests |-> "idle"]
    /\ clock = 0 /\ stamp = [r \in Requests |-> 0]
    /\ number = [r \in Requests |-> 0] /\ sequence = 0
    /\ calls = <<>> /\ queue = <<>> /\ writer = "idle" /\ files = {} /\ unwritten = {}
    /\ earlier = [r \in Requests |-> {}]
-----------------------------------------------------------------------------
(* The session *)

\* dispatch refuses an id the registry knows.
Register ==
    /\ session = "new"
    /\ IF registry = "none"
       THEN session' = "registered" /\ registry' = "dispatched" /\ record' = Opened(record)
       ELSE session' = "refused" /\ UNCHANGED <<registry, record>>
    /\ UNCHANGED <<strangers, trajectory, deletion, late, pc, threadVars, writerVars, earlier>>

\* The rest of dispatch: the session is enqueued, or what was done is undone.
Dispatched ==
    /\ session = "registered"
    /\ \/ session' = "running" /\ UNCHANGED <<registry, record, late>>
       \/ /\ session' = "refused" /\ registry' = "none" /\ record' = NoRecord
          /\ late' = (late \/ InFlight # {})
    /\ UNCHANGED <<strangers, trajectory, deletion, pc, threadVars, writerVars, earlier>>

\* load_completion_session, whose model sorts the completions by timestamp: the builder
\* gets them in the order that puts the timestamps in theirs.
Load ==
    /\ session = "running" /\ session' = "built"
    /\ LET kept == Opened(record)
       IN  \E order \in Bijection(DOMAIN kept, DOMAIN kept) :
               /\ trajectory' = [i \in DOMAIN kept |-> kept[order[i]]]
               /\ \A i, j \in DOMAIN kept :
                     i < j => stamp[kept[order[i]]] <= stamp[kept[order[j]]]
    /\ UNCHANGED <<registry, strangers, record, deletion, late, pc, threadVars, writerVars, earlier>>

\* _handle_postrun stores the result and drops the completions.  A session that
\* failed or was cancelled is not built.
Finish ==
    /\ session \in {"running", "built"} /\ session' = "finished"
    /\ record' = NoRecord /\ late' = (late \/ InFlight # {})
    /\ UNCHANGED <<registry, strangers, trajectory, deletion, pc, threadVars, writerVars, earlier>>

\* DELETE cancels the session first and waits for its container.
Delete ==
    /\ deletion = "none" /\ session # "stopped" /\ deletion' = "cancelling"
    /\ UNCHANGED <<registry, strangers, record, session, trajectory, late, pc, threadVars, writerVars,
                   earlier>>

MutForget ==
    /\ deletion = "cancelling" /\ deletion' = "done"
    /\ record' = NoRecord /\ UNCHANGED registry
    /\ late' = (late \/ InFlight # {})
    /\ UNCHANGED <<strangers, session, trajectory, pc, threadVars, writerVars, earlier>>

\* 404 for an id of which neither the registry nor the store knows anything.
Forget ==
    /\ deletion = "cancelling"
    /\ deletion' = IF registry = "none" /\ record \in {NoRecord, <<>>} THEN "not found" ELSE "done"
    /\ record' = NoRecord
    /\ registry' = IF deletion' = "done" THEN "none" ELSE registry
    /\ late' = (late \/ InFlight # {})
    /\ UNCHANGED <<strangers, session, trajectory, pc, threadVars, writerVars, earlier>>

-----------------------------------------------------------------------------
(* A proxied completion *)

\* resolve_session_id, and the check of the sampling parameters: an explicit id is
\* registered when it is unknown, an unknown API key gets an id of its own, and
\* neither of them has sampling parameters.
Begin(r) ==
    /\ pc[r] = "idle" /\ session # "stopped"
    /\ earlier' = [earlier EXCEPT ![r] = Answered]
    /\ registry' = IF registry = "none" /\ r \in Explicit THEN "bare" ELSE registry
    /\ strangers' = IF registry = "none" /\ r \notin Explicit THEN strangers \union {r} ELSE strangers
    /\ pc' = [pc EXCEPT ![r] = IF registry = "dispatched" THEN "upstream" ELSE "failed"]
    /\ late' = (late \/ registry = "none")
    /\ UNCHANGED <<record, session, trajectory, deletion, threadVars, writerVars>>

UpstreamFails(r) ==
    /\ pc[r] = "upstream" /\ pc' = [pc EXCEPT ![r] = "failed"]
    /\ UNCHANGED <<sessionVars, threadVars, writerVars, earlier>>

\* The engine answered; save_message makes the record, with its timestamp.
Stamp(r) ==
    /\ pc[r] = "upstream" /\ pc' = [pc EXCEPT ![r] = "saving"]
    /\ clock' = clock + 1 /\ stamp' = [stamp EXCEPT ![r] = clock']
    /\ UNCHANGED <<sessionVars, number, sequence, writerVars, earlier>>

\* The record is made again for a session that was forgotten meanwhile.
Save(r) ==
    /\ pc[r] = "saving" /\ pc' = [pc EXCEPT ![r] = "stored"]
    /\ record' = Append(Opened(record), r)
    /\ UNCHANGED <<registry, strangers, session, trajectory, deletion, late, threadVars, writerVars,
                   earlier>>

MutTakeNumber(r) ==
    /\ pc[r] = "stored" /\ pc' = [pc EXCEPT ![r] = "numbered"]
    /\ sequence' = Len(queue) + Cardinality(files) + 1 /\ number' = [number EXCEPT ![r] = sequence']
    /\ UNCHANGED <<sessionVars, clock, stamp, writerVars, earlier>>

\* CompletionWriter.enqueue: the number under a lock, the item handed to the loop.
TakeNumber(r) ==
    /\ pc[r] = "stored" /\ pc' = [pc EXCEPT ![r] = "numbered"]
    /\ sequence' = sequence + 1 /\ number' = [number EXCEPT ![r] = sequence']
    /\ UNCHANGED <<sessionVars, clock, stamp, writerVars, earlier>>

\* The item, and then the end of the thread, for which the handler waits.
HandOver(r) ==
    /\ pc[r] = "numbered" /\ pc' = [pc EXCEPT ![r] = "returning"]
    /\ calls' = calls \o <<<<"put", r>>, <<"answer", r>>>>
    /\ UNCHANGED <<sessionVars, threadVars, queue, writer, files, unwritten, earlier>>

\* _put_nowait_or_drop; or the response is sent.
RunCall ==
    /\ calls # <<>> /\ calls' = Tail(calls)
    /\ LET r == Head(calls)[2]
       IN  IF Head(calls)[1] = "answer"
           THEN pc' = [pc EXCEPT ![r] = "answered"] /\ UNCHANGED <<queue, unwritten>>
           ELSE /\ IF Len(queue) < QueueSize
                   THEN queue' = Append(queue, r) /\ UNCHANGED unwritten
                   ELSE unwritten' = unwritten \union {r} /\ UNCHANGED queue
                /\ UNCHANGED pc
    /\ UNCHANGED <<sessionVars, threadVars, writer, files, earlier>>
-----------------------------------------------------------------------------
(* The writer *)

WriterTakes ==
    /\ writer = "idle" /\ queue # <<>>
    /\ queue' = Tail(queue)
    /\ writer' = IF Head(queue) = Close THEN "closed" ELSE Head(queue)
    /\ UNCHANGED <<sessionVars, pc, threadVars, calls, files, unwritten, earlier>>

\* A write that fails is logged, and the next one follows.
WriterWrites ==
    /\ writer \in Requests /\ writer' = "idle"
    /\ \/ files' = files \union {writer} /\ UNCHANGED unwritten
       \/ unwritten' = unwritten \union {writer} /\ UNCHANGED files
    /\ UNCHANGED <<sessionVars, pc, threadVars, calls, queue, earlier>>

\* The server stops once its requests are answered: the node manager ends the session,
\* the store is cleared, and close() waits for room.
CloseWriter ==
    /\ session # "stopped" /\ InFlight = {} /\ deletion # "cancelling"
    /\ session' = "stopped" /\ record' = NoRecord
    /\ Len(queue) < QueueSize /\ queue' = Append(queue, Close)
    /\ UNCHANGED <<registry, strangers, trajectory, deletion, late, pc, threadVars, calls, writer,
                   files, unwritten, earlier>>

\* Its patience of five seconds ends: the task is cancelled, the thread that writes is
\* not, and may or may not succeed.
CloseGivesUp ==
    /\ Close \in ToSet(queue) /\ writer # "cancelled" /\ writer' = "cancelled"
    /\ \/ files' = files \union ({writer} \intersect Requests)
       \/ UNCHANGED files
    /\ UNCHANGED <<sessionVars, pc, threadVars, calls, queue, unwritten, earlier>>

Next ==
    \/ Register \/ Dispatched \/ Load \/ Finish \/ Delete \/ Forget
    \/ \E r \in Requests :
        \/ Begin(r) \/ UpstreamFails(r) \/ Stamp(r) \/ Save(r) \/ TakeNumber(r) \/ HandOver(r)
    \/ RunCall \/ WriterTakes \/ WriterWrites \/ CloseWriter \/ CloseGivesUp

Spec == Init /\ [][Next]_vars
-----------------------------------------------------------------------------
(* Properties *)

Places == {"idle", "upstream", "saving", "stored", "numbered", "returning", "answered", "failed"}

TypeOK ==
    /\ registry \in {"none", "bare", "dispatched"} /\ strangers \subseteq Requests
    /\ record = NoRecord \/ record \in Seq(Requests)
    /\ session \in {"new", "registered", "running", "built", "finished", "refused", "stopped"}
    /\ trajectory = NoRecord \/ trajectory \in Seq(Requests)
    /\ deletion \in {"none", "cancelling", "done", "not found"} /\ late \in BOOLEAN
    /\ pc \in [Requests -> Places]
    /\ clock \in Nat /\ stamp \in [Requests -> Nat]
    /\ sequence \in Nat /\ number \in [Requests -> Nat]
    /\ calls \in Seq({"put", "answer"} \X Requests)
    /\ queue \in Seq(Requests \union {Close}) /\ Len(queue) <= QueueSize
    /\ writer \in Requests \union {"idle", "closed", "cancelled"}
    /\ files \subseteq Requests /\ unwritten \subseteq Requests
    /\ earlier \in [Requests -> SUBSET Requests]

\* A completion the agent was answered with before the builder looked is in the
\* trajectory, unless the session was deleted meanwhile: save_message ends before the
\* response is sent.
AnsweredReachTrajectory ==
    [][Load /\ deletion # "done" => Answered \subseteq ToSet(trajectory')]_vars

\* Of two completions one of which began after the other was answered, the builder
\* gets the earlier one first, and its file has the smaller number, whatever threads do.
CausalOrder ==
    \A r, s \in Requests : s \in earlier[r] /\ number[r] # 0 /\ number[s] # 0 =>
        /\ number[s] < number[r]
        /\ trajectory # NoRecord => ~\E i, j \in DOMAIN trajectory :
               i < j /\ trajectory[i] = r /\ trajectory[j] = s

\* Once a session is over and deleted, registry and storage hold nothing of it but what
\* completions make that were under way when it was forgotten, or were asked for afterwards.
\* The writer keeps the count of its completions, which nothing removes.
OnlyCountRetained ==
    deletion = "done" /\ session \in {"finished", "refused"} /\ ~late =>
        /\ registry = "none" /\ record = NoRecord
        /\ sequence = Cardinality({r \in Requests : number[r] # 0})

\* What storage.py:38 calls the storage "for active gateway sessions" holds none that
\* was deleted.  Refuted: a completion under way makes the record again.
OnlyActiveSessions ==
    deletion = "done" /\ session \in {"finished", "refused"} => record = NoRecord
=============================================================================
