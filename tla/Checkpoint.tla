------------------------------- MODULE Checkpoint -------------------------------
(***************************************************************************)
(* Resumable checkpoints: save_ckpt, pruning and the choice of what to     *)
(* resume from (molt/trainer/fsdp/checkpoint.py), driven by the saves of   *)
(* rl_trainer.py for the policy and the critic, each of which has a        *)
(* directory of its own.                                                   *)
(*                                                                         *)
(* A file system operation is one action, and the job may be killed        *)
(* between any two.  os.replace is atomic; the shards of the model and of  *)
(* the optimizer, which all ranks write, are not.  A weight is named by    *)
(* the run and the step it is of.  The modification time of a directory    *)
(* changes when an entry of it is made, replaced or removed, not when      *)
(* something changes further down; the module keeps which directories are  *)
(* older than which by it.                                                 *)
(***************************************************************************)
EXTENDS Naturals, Sequences, FiniteSets, SequencesExt

CONSTANTS
    Actor, Groups,     \* the policy, and all groups of workers that save
    MaxStep, MaxMetric, MaxRuns,
    SaveSteps,         \* the values of --ckpt.save_steps to try; 0 stands for infinity
    MaxNums            \* and those of --ckpt.max_num

ASSUME CheckpointAssumption ==
    /\ Actor \in Groups /\ IsFiniteSet(Groups)
    /\ MaxStep \in Nat /\ MaxMetric \in Nat /\ MaxRuns \in Nat \ {0}
    /\ SaveSteps \subseteq Nat /\ MaxNums \subseteq Nat \ {0}

VARIABLES
    options,     \* [every, max]: of this job and its successors
    run, step,   \* which run of the job, and its global_step
    evaluated,   \* one more than the step evaluated last, 0 for none
    metric,      \* _latest_eval_metric_value and best_eval_metric_value, 0 for none
    dirs,        \* per group: the directories, by tag
    older,       \* per group: <<s, t>> when that of t was modified after that of s
    latest,      \* per group: the tag in the file "latest", or NoTag
    pc,          \* per group: where in save_ckpt, or "idle"
    job,         \* the tag being saved and the metric given with it
    victim,      \* per group: the directory being removed, or NoTag
    exports,     \* HF exports of the policy, oldest first
    loaded,      \* history: what each group loaded when this run began, or NoDir
    done         \* history: the step of the last save that returned

saveVars == <<pc, job, victim>>
diskVars == <<dirs, older, latest>>
trainVars == <<options, run, step, evaluated, metric>>
history == <<exports, loaded, done>>
vars == <<trainVars, saveVars, diskVars, history>>
-----------------------------------------------------------------------------
None == <<0, 0>>          \* a part of a checkpoint that is not there
Torn == <<0, 1>>          \* one that is written or removed in part
NoTag == <<"none", 0>>
Regular(t) == t[1] = "global_step"
Best(t) == t[1] = "best_global_step"

NoDir == [model |-> None, optim |-> None, extra |-> None, best |-> 0, metric |-> 0]

\* _is_loadable_ckpt_dir
Loadable(d) == d.model # None /\ d.extra # None
Whole(d) == d.model = d.extra /\ d.optim = d.extra

Init ==
    /\ options \in [every : SaveSteps, max : MaxNums]
    /\ run = 1 /\ step = 0 /\ evaluated = 0 /\ metric = [last |-> 0, best |-> 0]
    /\ dirs = [g \in Groups |-> [t \in {} |-> NoDir]] /\ older = [g \in Groups |-> {}]
    /\ latest = [g \in Groups |-> NoTag]
    /\ pc = [g \in Groups |-> "idle"] /\ job = [tag |-> NoTag, metric |-> 0]
    /\ victim = [g \in Groups |-> NoTag]
    /\ exports = <<>> /\ loaded = [g \in Groups |-> NoDir]
    /\ done = 0

Idle == \A g \in Groups : pc[g] = "idle"
Due(s) == options.every # 0 /\ s % options.every = 0

\* The file system: a directory changes, its own entries too (Touch) or not (Write).
WithDir(ds, t, d) == [s \in DOMAIN ds \union {t} |-> IF s = t THEN d ELSE ds[s]]
Without(R, t) == {p \in R : t \notin {p[1], p[2]}}
Write(g, t, d) ==
    /\ dirs' = [dirs EXCEPT ![g] = WithDir(@, t, d)]
    /\ UNCHANGED older
Touch(g, t, d) ==
    /\ dirs' = [dirs EXCEPT ![g] = WithDir(@, t, d)]
    /\ older' = [older EXCEPT ![g] = Without(@, t) \union ((DOMAIN dirs[g] \ {t}) \X {t})]
Here(g) == dirs[g][job.tag]
Content == <<run, step>>
-----------------------------------------------------------------------------
(* The trainer decides to save; ray.get waits for every group *)

BeginSave(tag, m) ==
    /\ job' = [tag |-> tag, metric |-> m]
    /\ pc' = [g \in Groups |-> "start"]

\* A step, and save_logs_and_checkpoints; at the last one the final save, which has no
\* metric.
Train ==
    /\ Idle /\ step < MaxStep /\ step' = step + 1
    /\ IF Due(step') \/ step' = MaxStep
       THEN BeginSave(<<"global_step", step'>>, IF Due(step') THEN metric.last ELSE 0)
       ELSE UNCHANGED <<job, pc>>
    /\ UNCHANGED <<options, run, evaluated, metric, victim, diskVars, exports, loaded,
                   done>>

\* save_best_checkpoint; a step is evaluated once, and before the first one only by a run
\* that found no checkpoint.
Evaluate(m) ==
    /\ Idle /\ step < MaxStep /\ step >= evaluated /\ evaluated' = step + 1
    /\ metric' = [last |-> m, best |-> IF m > metric.best THEN m ELSE metric.best]
    /\ IF m > metric.best
       THEN BeginSave(<<"best_global_step", step>>, m)
       ELSE UNCHANGED <<job, pc>>
    /\ UNCHANGED <<options, run, step, victim, diskVars, exports, loaded, done>>
-----------------------------------------------------------------------------
(* save_ckpt, one group *)

Goto(g, label) == pc' = [pc EXCEPT ![g] = label]

StartModel(g) ==
    /\ pc[g] = "start" /\ Goto(g, "model")
    /\ LET d == IF job.tag \in DOMAIN dirs[g] THEN Here(g) ELSE NoDir
       IN  IF d.model # None THEN Write(g, job.tag, [d EXCEPT !.model = Torn])
                             ELSE Touch(g, job.tag, [d EXCEPT !.model = Torn])
    /\ UNCHANGED <<trainVars, job, victim, latest, history>>

StartOptim(g) ==
    /\ pc[g] = "model" /\ Goto(g, "optim")
    /\ LET d == [Here(g) EXCEPT !.model = Content, !.optim = Torn]
       IN  IF Here(g).optim # None THEN Write(g, job.tag, d) ELSE Touch(g, job.tag, d)
    /\ UNCHANGED <<trainVars, job, victim, latest, history>>

EndOptim(g) ==
    /\ pc[g] = "optim" /\ Goto(g, "extra")
    /\ Write(g, job.tag, [Here(g) EXCEPT !.optim = Content])
    /\ UNCHANGED <<trainVars, job, victim, latest, history>>

WriteExtra(g) ==
    /\ pc[g] = "extra" /\ Goto(g, "metric")
    /\ Touch(g, job.tag, [Here(g) EXCEPT !.extra = Content, !.best = metric.best])
    /\ UNCHANGED <<trainVars, job, victim, latest, history>>

WriteMetric(g) ==
    /\ pc[g] = "metric" /\ Goto(g, IF Regular(job.tag) THEN "marker" ELSE "prune")
    /\ Touch(g, job.tag, [Here(g) EXCEPT !.metric = job.metric])
    /\ UNCHANGED <<trainVars, job, victim, latest, history>>

WriteMarker(g) ==
    /\ pc[g] = "marker" /\ Goto(g, "prune")
    /\ latest' = [latest EXCEPT ![g] = job.tag]
    /\ UNCHANGED <<trainVars, job, victim, dirs, older, history>>

\* _prune_checkpoints: another best one; or, while there are too many, the regular one
\* with the lowest metric (none is lower than any), the oldest of equals.
Worse(g, s, t) ==
    \/ dirs[g][s].metric < dirs[g][t].metric
    \/ dirs[g][s].metric = dirs[g][t].metric /\ <<s, t>> \in older[g]
RegularTags(g) == {t \in DOMAIN dirs[g] : Regular(t)}
MutVictims(g) ==
    LET others == DOMAIN dirs[g] \ {job.tag}
    IN  IF Regular(job.tag) /\ Cardinality(RegularTags(g)) <= options.max THEN {}
        ELSE {t \in others : \A s \in others : ~Worse(g, s, t)}

Victims(g) ==
    IF Best(job.tag) THEN {t \in DOMAIN dirs[g] : Best(t) /\ t # job.tag}
    ELSE LET others == RegularTags(g) \ {job.tag}
         IN  IF Cardinality(RegularTags(g)) <= options.max THEN {}
             ELSE {t \in others : \A s \in others : ~Worse(g, s, t)}

PickVictim(g) ==
    /\ pc[g] = "prune" /\ victim[g] = NoTag
    /\ \E t \in Victims(g) : victim' = [victim EXCEPT ![g] = t]
    /\ UNCHANGED <<trainVars, pc, job, diskVars, history>>

\* shutil.rmtree goes through the entries in the order the file system lists them, and
\* removes the directory last.
Shards == {"model", "optim"}
RemovePart(g) ==
    LET t == victim[g]
        d == dirs[g][t]
    IN  /\ t # NoTag
        /\ \/ \E p \in Shards :
               \/ d[p] \notin {None, Torn} /\ Write(g, t, [d EXCEPT ![p] = Torn])
               \/ d[p] = Torn /\ Touch(g, t, [d EXCEPT ![p] = None])
           \/ d.extra # None /\ Touch(g, t, [d EXCEPT !.extra = None])
           \/ d.metric # 0 /\ Touch(g, t, [d EXCEPT !.metric = 0])
        /\ UNCHANGED <<trainVars, pc, job, victim, latest, history>>

RemoveDir(g) ==
    LET t == victim[g]
    IN  /\ t # NoTag /\ dirs[g][t].metric = 0
        /\ {dirs[g][t][p] : p \in Shards \union {"extra"}} = {None}
        /\ dirs' = [dirs EXCEPT ![g] = [s \in DOMAIN @ \ {t} |-> @[s]]]
        /\ older' = [older EXCEPT ![g] = Without(@, t)]
        /\ victim' = [victim EXCEPT ![g] = NoTag]
        /\ UNCHANGED <<trainVars, pc, job, latest, history>>

\* prune_checkpoints on the exports: the same limits, without metrics, and best ones are
\* never counted.
Exported ==
    LET all == Append(Remove(exports, job.tag), job.tag)
        regular == SelectSeq(all, Regular)
    IN  IF Len(regular) <= options.max THEN all
        ELSE Remove(all, SelectSeq(regular, LAMBDA t : t # job.tag)[1])

MutPruned(g) ==
    /\ pc[g] = "prune"
    /\ Goto(g, "idle")
    /\ victim' = [victim EXCEPT ![g] = NoTag]
    /\ exports' = IF g = Actor THEN Exported ELSE exports
    /\ done' = IF Regular(job.tag) /\ \A h \in Groups \ {g} : pc[h] = "idle"
               THEN step ELSE done
    /\ UNCHANGED <<trainVars, job, diskVars, loaded>>

Pruned(g) ==
    /\ pc[g] = "prune" /\ victim[g] = NoTag /\ Victims(g) = {}
    /\ Goto(g, "idle")
    /\ exports' = IF g = Actor THEN Exported ELSE exports
    /\ done' = IF Regular(job.tag) /\ \A h \in Groups \ {g} : pc[h] = "idle"
               THEN step ELSE done
    /\ UNCHANGED <<trainVars, job, victim, diskVars, loaded>>
-----------------------------------------------------------------------------
(* The job is killed and submitted again *)

Newest(g, tags) ==
    IF tags = {} THEN NoTag ELSE CHOOSE t \in tags : \A s \in tags : <<t, s>> \notin older[g]
Candidates(g) == {t \in DOMAIN dirs[g] : Loadable(dirs[g][t])}

MutResolve(g) == Newest(g, Candidates(g))

\* _resolve_ckpt_load_dir, for a marker that never names a best checkpoint.
Resolve(g) ==
    IF latest[g] \in Candidates(g) THEN latest[g]
    ELSE LET regular == {t \in Candidates(g) : Regular(t)}
         IN  Newest(g, IF regular # {} THEN regular ELSE Candidates(g))

\* load_ckpt in every group; the policy's client state has the step and the best metric.
Crash ==
    /\ run < MaxRuns /\ run' = run + 1
    /\ loaded' = [g \in Groups |-> IF Resolve(g) = NoTag THEN NoDir
                                   ELSE dirs[g][Resolve(g)]]
    /\ step' = loaded'[Actor].extra[2]
    /\ evaluated' = IF Resolve(Actor) = NoTag THEN 0 ELSE step' + 1
    /\ metric' = [last |-> loaded'[Actor].best, best |-> loaded'[Actor].best]
    /\ pc' = [g \in Groups |-> "idle"] /\ victim' = [g \in Groups |-> NoTag]
    /\ UNCHANGED <<options, job, diskVars, exports, done>>

Save(g) ==
    \/ StartModel(g) \/ StartOptim(g) \/ EndOptim(g) \/ WriteExtra(g) \/ WriteMetric(g)
    \/ WriteMarker(g) \/ PickVictim(g) \/ RemovePart(g) \/ RemoveDir(g) \/ Pruned(g)

Next ==
    \/ Train
    \/ \E m \in 1..MaxMetric : Evaluate(m)
    \/ \E g \in Groups : Save(g)
    \/ Crash

Spec == Init /\ [][Next]_vars
-----------------------------------------------------------------------------
(* Properties *)

\* A restart goes on from the last save that returned or from one begun since, in every
\* group, however often the job was killed; and what the policy loads once it has a
\* marker is one save, complete: the marker comes after everything it stands for, and
\* what it names is neither pruned nor written over.
ResumesTheLastSave ==
    [][Crash =>
        /\ \A g \in Groups : loaded'[g].extra[2] >= done
        /\ latest[Actor] # NoTag => Whole(loaded'[Actor])]_vars

\* checkpoint.py:188 of extra_state.pt: "its presence means the whole checkpoint
\* finalized".  So whatever is loaded is complete.
LoadedIsWhole == \A g \in Groups : Whole(loaded[g])

\* Between saves a group keeps no more regular checkpoints than max_num, its marker
\* names one of them, and, unless the job was killed, all groups keep the same ones.
Retention ==
    Idle /\ run = 1 =>
        \A g, h \in Groups :
            /\ Cardinality(RegularTags(g)) <= options.max
            /\ latest[g] # NoTag => latest[g] \in Candidates(g)
            /\ RegularTags(g) = RegularTags(h)

\* The policy's saves are atomic, seen through its marker: the save that counts is the
\* one it names.
Saved == IF latest[Actor] = NoTag THEN None ELSE dirs[Actor][latest[Actor]].extra
Resumed == {loaded[Actor][p] : p \in Shards \union {"extra"}}
Atomic == INSTANCE AtomicCheckpoint
              WITH saved <- Saved, acknowledged <- done, resumed <- Resumed

\* File by file, with pruning of best and regular checkpoints and a kill between any two
\* operations, save_ckpt and load_ckpt are a save that happens at once and a restart that
\* goes on from it.
ImplementsAtomic == Atomic!Spec
=============================================================================
