--------------------------- MODULE CheckpointProofs ---------------------------
(***************************************************************************)
(* What is proved of Checkpoint for all groups of workers, all options and *)
(* any number of kills between two file operations.                        *)
(*                                                                         *)
(* What a restart loads rests on the marker of a group: it names a regular *)
(* directory that loads and is no older than the last save that returned   *)
(* (Marked), pruning is never at that directory (VictimInv), and for the   *)
(* policy, whose step is the job's, no later save comes back to it         *)
(* (PolicyInv).  SaveInv says what of the current save is on disk at each  *)
(* point of save_ckpt.                                                     *)
(*                                                                         *)
(* That all groups keep the same checkpoints is stated, until the first    *)
(* kill, with the set that they all had when the save began and the        *)
(* metrics in it (Agree): a group has that set, or the new directory       *)
(* besides, or has lost the one element that every group finds worst.      *)
(* That needs the age of a directory to be the age of its step, which      *)
(* removal disturbs for the directory it is at only.                       *)
(***************************************************************************)
EXTENDS Checkpoint, FiniteSetTheorems, WellFoundedInduction, TLAPS

Tags == {"global_step", "best_global_step"} \X Nat
Parts == Nat \X Nat
Contents == [model : Parts, optim : Parts, extra : Parts, best : Nat, metric : Nat]
Labels == {"idle", "start", "model", "optim", "extra", "metric", "marker", "prune"}

DirsOK(ds) ==
    /\ ds = [t \in DOMAIN ds |-> ds[t]]
    /\ DOMAIN ds \subseteq Tags /\ IsFiniteSet(DOMAIN ds)
    /\ \A t \in DOMAIN ds : ds[t] \in Contents

TypeOK ==
    /\ options \in [every : Nat, max : Nat \ {0}]
    /\ run \in Nat \ {0} /\ step \in Nat /\ evaluated \in Nat
    /\ metric \in [last : Nat, best : Nat]
    /\ dirs = [g \in Groups |-> dirs[g]] /\ \A g \in Groups : DirsOK(dirs[g])
    /\ older \in [Groups -> SUBSET (Tags \X Tags)]
    /\ latest \in [Groups -> Tags \union {NoTag}]
    /\ pc \in [Groups -> Labels]
    /\ job \in [tag : Tags \union {NoTag}, metric : Nat]
    /\ victim \in [Groups -> Tags \union {NoTag}]
    /\ loaded \in [Groups -> Contents] /\ done \in Nat

\* Being modified before is a strict order of the directories.
OrderInv(g) ==
    /\ older[g] \subseteq (DOMAIN dirs[g]) \X (DOMAIN dirs[g])
    /\ \A t \in DOMAIN dirs[g] : <<t, t>> \notin older[g]
    /\ \A s, t, u \in DOMAIN dirs[g] :
          <<s, t>> \in older[g] /\ <<t, u>> \in older[g] => <<s, u>> \in older[g]

\* extra_state.pt has the step of its directory; the marker names a directory that
\* loads, with a step at least that of the last save that returned.
Marked(g) ==
    /\ \A t \in DOMAIN dirs[g] : dirs[g][t].extra \in {None} \union (Nat \X {t[2]})
    /\ latest[g] = NoTag => done = 0
    /\ latest[g] # NoTag =>
          /\ Regular(latest[g]) /\ latest[g] \in DOMAIN dirs[g]
          /\ Loadable(dirs[g][latest[g]]) /\ done <= latest[g][2]

\* What is being removed is neither what the marker names nor what was just saved.
VictimInv(g) ==
    victim[g] # NoTag =>
        /\ pc[g] = "prune" /\ victim[g] \in DOMAIN dirs[g]
        /\ victim[g] # latest[g] /\ victim[g] # job.tag

\* What of the save is on disk, by the point that save_ckpt has reached.
Writing == {"start", "model", "optim", "extra", "metric", "marker"}
SaveInv(g) ==
    /\ pc[g] # "idle" => job.tag \in Tags /\ job.tag[2] = step
    /\ pc[g] \notin {"idle", "start"} => job.tag \in DOMAIN dirs[g]
    /\ pc[g] = "model" => Here(g).model = Torn
    /\ pc[g] \in {"optim", "extra", "metric", "marker"} => Here(g).model = Content
    /\ pc[g] \in {"extra", "metric", "marker"} => Here(g).optim = Content
    /\ pc[g] \in {"metric", "marker"} => Here(g).extra = Content
    /\ pc[g] = "marker" => Regular(job.tag)
    /\ pc[g] \notin Writing /\ ~Idle /\ Regular(job.tag) => latest[g] = job.tag

\* The marker of the policy names a complete save that no later one writes to.
PolicyInv ==
    latest[Actor] # NoTag =>
        /\ Whole(dirs[Actor][latest[Actor]]) /\ latest[Actor][2] <= step
        /\ pc[Actor] \in Writing /\ Regular(job.tag) => latest[Actor][2] < step

\* The regular checkpoints that a set of them, with these metrics, loses first, and what
\* is left of it and a new one.
Worst(B, M) ==
    {t \in B : \A s \in B : ~(M[s] < M[t] \/ (M[s] = M[t] /\ s[2] < t[2]))}
Kept(B, M) ==
    IF Cardinality(B) < options.max THEN B \union {job.tag}
    ELSE (B \union {job.tag}) \ Worst(B, M)

\* What a group has of B, the regular checkpoints that all had when this save began.
Progress(g, B, M) ==
    /\ Idle \/ Best(job.tag) => RegularTags(g) = B
    /\ Best(job.tag) /\ victim[g] # NoTag => Best(victim[g])
    /\ ~Idle /\ Regular(job.tag) =>
          /\ pc[g] = "start" => RegularTags(g) = B
          /\ pc[g] \in Writing \ {"start"} => RegularTags(g) = B \union {job.tag}
          /\ pc[g] = "prune" /\ victim[g] = NoTag =>
                RegularTags(g) \in {B \union {job.tag}, Kept(B, M)}
          /\ pc[g] = "prune" /\ victim[g] # NoTag =>
                /\ RegularTags(g) = B \union {job.tag} /\ Cardinality(B) = options.max
                /\ victim[g] \in Worst(B, M)
          /\ pc[g] = "idle" => RegularTags(g) = Kept(B, M)
          /\ pc[g] \notin Writing \ {"marker"} => Here(g).metric = job.metric


\* And its metrics and the order of its regular directories are those of B.
GroupAgrees(g, B, M) ==
    /\ Progress(g, B, M)
    /\ \A t \in B \intersect DOMAIN dirs[g] :
          t # victim[g] => dirs[g][t].metric = M[t]
    /\ \A s, t \in RegularTags(g) \ {victim[g]} : <<s, t>> \in older[g] <=> s[2] < t[2]

Agree(B, M) ==
    /\ \A t \in B : t[2] <= step /\ (~Idle /\ Regular(job.tag) => t[2] < step)
    /\ Cardinality(B) <= options.max
    /\ \A g \in Groups : GroupAgrees(g, B, M)

RegularSets == {B \in SUBSET Tags : IsFiniteSet(B) /\ \A t \in B : Regular(t)}
RetentionInv ==
    run = 1 => \E B \in RegularSets : \E M \in [B -> Nat] : Agree(B, M)

GroupInv(g) == OrderInv(g) /\ Marked(g) /\ VictimInv(g) /\ SaveInv(g)
Core == TypeOK /\ (\A g \in Groups : GroupInv(g)) /\ done <= step /\ PolicyInv
IInv == Core /\ RetentionInv
-----------------------------------------------------------------------------
(* Tags, directories and their order *)

\* A tag is regular or best, and is told by its step.
LEMMA TagFacts ==
    /\ NoTag \notin Tags /\ ~Regular(NoTag) /\ ~Best(NoTag)
    /\ \A t \in Tags : /\ t[2] \in Nat /\ (Regular(t) <=> ~Best(t))
                       /\ \A s \in Tags : Regular(s) /\ Regular(t) /\ s[2] = t[2] => s = t
    /\ \A n \in Nat : /\ <<"global_step", n>> \in Tags /\ Regular(<<"global_step", n>>)
                      /\ <<"best_global_step", n>> \in Tags
                      /\ Best(<<"best_global_step", n>>)
BY DEF Tags, NoTag, Regular, Best

\* A set of numbers has a least one.
LEMMA Least ==
    ASSUME NEW S, S \subseteq Nat, S # {}
    PROVE  \E m \in S : \A n \in S : m <= n
<1>1. PICK m \in S : \A n \in S : ~(<<n, m>> \in OpToRel(<, Nat))
  BY NatLessThanWellFounded, WFMin
<1>2. ASSUME NEW n \in S PROVE m <= n
  <2>1. n < m => <<n, m>> \in OpToRel(<, Nat)
    BY DEF OpToRel
  <2>2. m \in Nat /\ n \in Nat /\ ~(n < m)
    BY <1>1, <2>1
  <2>3. QED BY <2>2
<1>3. QED BY <1>2

\* Among finitely many directories one is older than none of the others: the one with
\* the fewest that were modified after it.
LEMMA NewestExists ==
    ASSUME NEW T, IsFiniteSet(T), T # {}, NEW R,
           \A t \in T : <<t, t>> \notin R,
           \A s, t, u \in T : <<s, t>> \in R /\ <<t, u>> \in R => <<s, u>> \in R
    PROVE  \E t \in T : \A s \in T : <<t, s>> \notin R
<1> DEFINE Later(t) == {s \in T : <<t, s>> \in R}
           Counts == {Cardinality(Later(t)) : t \in T}
<1>1. \A t \in T : IsFiniteSet(Later(t)) /\ Cardinality(Later(t)) \in Nat
  <2> TAKE t \in T
  <2>1. Later(t) \in SUBSET T
    OBVIOUS
  <2>2. IsFiniteSet(Later(t))
    BY <2>1, FS_Subset
  <2>3. QED BY <2>2, FS_CardinalityType
<1>2. ASSUME NEW s \in T, NEW t \in T, <<t, s>> \in R
      PROVE  Later(s) \in SUBSET Later(t) /\ s \in Later(t) /\ s \notin Later(s)
  BY <1>2
<1> HIDE DEF Later
<1>3. PICK t \in T : \A s \in T : Cardinality(Later(t)) <= Cardinality(Later(s))
  <2>1. Counts \subseteq Nat /\ Counts # {}
    BY <1>1
  <2>2. PICK m \in Counts : \A n \in Counts : m <= n
    <3> HIDE DEF Counts
    <3> QED BY <2>1, Least
  <2>3. QED BY <2>2
<1>4. ASSUME NEW s \in T, <<t, s>> \in R PROVE FALSE
  <2>1. Later(s) \in SUBSET Later(t) /\ Later(s) # Later(t)
    BY <1>2, <1>4
  <2>2. Cardinality(Later(s)) <= Cardinality(Later(t))
        /\ Cardinality(Later(s)) # Cardinality(Later(t))
    BY <2>1, <1>1, FS_Subset
  <2>3. QED BY <1>1, <1>3, <2>2
<1>5. QED BY <1>4

\* The worst of some regular checkpoints is one of them.
LEMMA WorstIsOne ==
    ASSUME NEW B \in RegularSets, B # {}, NEW M \in [B -> Nat]
    PROVE  \E v \in B : Worst(B, M) = {v}
<1>1. \A t \in B : M[t] \in Nat /\ t[2] \in Nat
  BY TagFacts DEF RegularSets
<1>2. PICK m \in {M[t] : t \in B} : \A n \in {M[t] : t \in B} : m <= n
  <2>1. {M[t] : t \in B} \subseteq Nat /\ {M[t] : t \in B} # {}
    BY <1>1
  <2>2. QED BY <2>1, Least
<1> DEFINE Lowest == {t \in B : M[t] = m}
<1>3. PICK k \in {t[2] : t \in Lowest} : \A n \in {t[2] : t \in Lowest} : k <= n
  <2>1. {t[2] : t \in Lowest} \subseteq Nat /\ {t[2] : t \in Lowest} # {}
    BY <1>1, <1>2
  <2>2. QED BY <2>1, Least
<1>4. PICK v \in B : M[v] = m /\ v[2] = k
  BY <1>3
<1>5. \A t \in B : m <= M[t] /\ (M[t] = m => k <= t[2])
  BY <1>2, <1>3
<1>6. v \in Worst(B, M)
  BY <1>1, <1>4, <1>5 DEF Worst
<1>7. ASSUME NEW w \in Worst(B, M) PROVE w = v
  <2>1. w \in B /\ ~(M[v] < M[w] \/ (M[v] = M[w] /\ v[2] < w[2]))
    BY DEF Worst
  <2>2. M[w] = m /\ w[2] = k
    BY <2>1, <1>1, <1>4, <1>5
  <2>3. Regular(w) /\ Regular(v) /\ w \in Tags /\ v \in Tags
    BY <2>1 DEF RegularSets
  <2>4. QED BY <2>2, <2>3, <1>4, TagFacts
<1>8. QED BY <1>6, <1>7

\* Types of what the actions read.
LEMMA Types ==
    ASSUME TypeOK, NEW g \in Groups
    PROVE  /\ DirsOK(dirs[g]) /\ older[g] \subseteq Tags \X Tags
           /\ latest[g] \in Tags \union {NoTag} /\ pc[g] \in Labels
           /\ victim[g] \in Tags \union {NoTag} /\ job.tag \in Tags \union {NoTag}
           /\ options.max \in Nat \ {0} /\ run \in Nat \ {0} /\ step \in Nat /\ done \in Nat
           /\ metric.last \in Nat /\ metric.best \in Nat /\ job.metric \in Nat
           /\ Content \in Parts /\ Content # None /\ Content # Torn
BY DEF TypeOK, Content, Parts, None, Torn
-----------------------------------------------------------------------------
(* How a directory changes *)

\* One directory of a group is made or changes, and what is older than what with it.
Changes(g, t, d) == (t \in DOMAIN dirs[g] /\ Write(g, t, d)) \/ Touch(g, t, d)

\* Then the group has that directory as given and all others as they were, and the order
\* of the others is the old one.
LEMMA ChangeIs ==
    ASSUME TypeOK, NEW g \in Groups, OrderInv(g), NEW t \in Tags, NEW d \in Contents,
           Changes(g, t, d)
    PROVE  /\ dirs' = [h \in Groups |-> dirs'[h]]
           /\ older' \in [Groups -> SUBSET (Tags \X Tags)]
           /\ \A h \in Groups \ {g} : dirs'[h] = dirs[h] /\ older'[h] = older[h]
           /\ DirsOK(dirs'[g]) /\ OrderInv(g)'
           /\ DOMAIN dirs'[g] = DOMAIN dirs[g] \union {t} /\ dirs'[g][t] = d
           /\ \A s \in DOMAIN dirs[g] \ {t} : dirs'[g][s] = dirs[g][s]
           /\ \A s, u \in DOMAIN dirs[g] \ {t} : <<s, u>> \in older'[g] <=> <<s, u>> \in older[g]
           /\ (older' = older /\ t \in DOMAIN dirs[g])
              \/ \A s \in DOMAIN dirs[g] \ {t} : /\ <<s, t>> \in older'[g]
                                                 /\ <<t, s>> \notin older'[g]
<1> DEFINE D == DOMAIN dirs[g]
           W == WithDir(dirs[g], t, d)
           R == older[g]
           N == Without(R, t) \union ((D \ {t}) \X {t})
<1>1. dirs = [h \in Groups |-> dirs[h]] /\ older \in [Groups -> SUBSET (Tags \X Tags)]
      /\ DirsOK(dirs[g]) /\ D \subseteq Tags /\ IsFiniteSet(D) /\ R \subseteq Tags \X Tags
  BY DEF TypeOK, DirsOK
<1>2. dirs' = [dirs EXCEPT ![g] = W]
  BY DEF Changes, Write, Touch
<1>3. /\ dirs' = [h \in Groups |-> dirs'[h]] /\ dirs'[g] = W
      /\ \A h \in Groups \ {g} : dirs'[h] = dirs[h]
  <2> HIDE DEF W
  <2> QED BY <1>1, <1>2
<1>4. /\ DOMAIN W = D \union {t} /\ W[t] = d
      /\ \A s \in D \ {t} : W[s] = dirs[g][s]
      /\ W = [s \in DOMAIN W |-> W[s]]
  BY DEF WithDir
<1>5. DirsOK(W)
  <2>1. IsFiniteSet(D \union {t})
    BY <1>1, FS_AddElement
  <2>2. \A s \in DOMAIN W : W[s] \in Contents
    <3> HIDE DEF W
    <3> QED BY <1>1, <1>4 DEF DirsOK
  <2>3. QED BY <1>1, <1>4, <2>1, <2>2 DEF DirsOK
<1>6. (older' = older /\ t \in D) \/ older' = [older EXCEPT ![g] = N]
  BY DEF Changes, Write, Touch
<1>7. /\ \A s, u \in D \ {t} : <<s, u>> \in N <=> <<s, u>> \in R
      /\ \A s \in D \ {t} : <<s, t>> \in N /\ <<t, s>> \notin N
      /\ <<t, t>> \notin N /\ N \subseteq (D \union {t}) \X (D \union {t})
      /\ N \subseteq Tags \X Tags
  <2>1. R \subseteq D \X D
    BY DEF OrderInv
  <2>2. QED BY <2>1, <1>1 DEF Without
<1>8. /\ older' \in [Groups -> SUBSET (Tags \X Tags)]
      /\ \A h \in Groups \ {g} : older'[h] = older[h]
      /\ (older'[g] = R /\ older' = older /\ t \in D) \/ older'[g] = N
  <2> HIDE DEF N
  <2> QED BY <1>1, <1>6, <1>7
<1>9. OrderInv(g)'
  <2> DEFINE E == D \union {t}
  <2> SUFFICES /\ older'[g] \subseteq E \X E
               /\ \A s \in E : <<s, s>> \notin older'[g]
               /\ \A s, u, v \in E : <<s, u>> \in older'[g] /\ <<u, v>> \in older'[g]
                                     => <<s, v>> \in older'[g]
    <3> HIDE DEF W
    <3> QED BY <1>3, <1>4 DEF OrderInv
  <2>1. CASE older'[g] = R /\ t \in D
    BY <2>1 DEF OrderInv
  <2>2. CASE older'[g] = N
    <3> HIDE DEF N
    <3>1. \A s \in E : <<s, s>> \notin N
      BY <1>7 DEF OrderInv
    <3>2. ASSUME NEW s \in E, NEW u \in E, NEW v \in E, <<s, u>> \in N, <<u, v>> \in N
          PROVE  <<s, v>> \in N
      <4>1. s # t /\ u # t
        BY <3>2, <1>7
      <4>2. CASE v = t
        BY <4>1, <4>2, <1>7
      <4>3. CASE v # t
        BY <4>1, <4>3, <3>2, <1>7 DEF OrderInv
      <4>4. QED BY <4>2, <4>3
    <3>3. QED BY <2>2, <3>1, <3>2, <1>7
  <2>3. QED BY <1>8, <2>1, <2>2
<1>10. QED
  <2> HIDE DEF W, N
  <2> QED BY <1>3, <1>4, <1>5, <1>7, <1>8, <1>9
-----------------------------------------------------------------------------
(* What one group's step leaves to the others *)

\* The invariant of a group speaks of its own directories, marker, program counter and
\* victim, and of the save.
LEMMA Untouched ==
    ASSUME NEW h \in Groups, GroupInv(h),
           dirs'[h] = dirs[h], older'[h] = older[h], latest'[h] = latest[h],
           pc'[h] = pc[h], victim'[h] = victim[h],
           job' = job, step' = step, run' = run, ~Idle' => ~Idle,
           latest[h] = NoTag => done' = 0,
           latest[h] # NoTag => done' <= latest[h][2]
    PROVE  GroupInv(h)'
<1>1. OrderInv(h)'
  BY DEF GroupInv, OrderInv
<1>2. Marked(h)'
  BY DEF GroupInv, Marked
<1>3. VictimInv(h)'
  BY DEF GroupInv, VictimInv
<1>4. SaveInv(h)'
  BY DEF GroupInv, SaveInv, Here, Content
<1>5. QED BY <1>1, <1>2, <1>3, <1>4 DEF GroupInv
-----------------------------------------------------------------------------
(* The files of a save *)

\* The steps that write files, not the marker.
Writes(g) == StartModel(g) \/ StartOptim(g) \/ EndOptim(g) \/ WriteExtra(g) \/ WriteMetric(g)

\* What the directory of the save is after such a step, by the point reached.
Written(d, at) ==
    /\ d.model # None /\ d.extra \in {None} \union (Nat \X {job.tag[2]})
    /\ at = "model" => d.model = Torn
    /\ at \in {"optim", "extra", "metric", "marker"} => d.model = Content
    /\ at \in {"extra", "metric", "marker"} => d.optim = Content
    /\ at \in {"metric", "marker"} => d.extra = Content
    /\ at = "marker" => Regular(job.tag)
    /\ at = "prune" => Best(job.tag)
    /\ at \in {"marker", "prune"} => d.metric = job.metric

\* Each of these steps changes that one directory, and what it had of extra_state.pt
\* it keeps or replaces.
LEMMA WritesAre ==
    ASSUME TypeOK, NEW g \in Groups, GroupInv(g), Writes(g)
    PROVE  /\ pc[g] \in Writing \ {"marker"} /\ job.tag \in Tags
           /\ pc' = [pc EXCEPT ![g] = pc'[g]] /\ pc'[g] \in Labels \ {"idle", "start"}
           /\ UNCHANGED <<trainVars, job, victim, latest, history>>
           /\ \E d \in Contents :
                 /\ Changes(g, job.tag, d) /\ Written(d, pc'[g])
                 /\ job.tag \in DOMAIN dirs[g] /\ Here(g).extra # None => d.extra # None
<1>1. /\ DirsOK(dirs[g]) /\ pc \in [Groups -> Labels] /\ Marked(g) /\ SaveInv(g)
      /\ step \in Nat /\ run \in Nat \ {0} /\ job.metric \in Nat /\ metric.best \in Nat
      /\ Content \in Parts /\ Content # None /\ Content # Torn
  BY Types DEF TypeOK, GroupInv
<1>2. pc[g] \in Writing \ {"marker"}
  BY DEF Writes, StartModel, StartOptim, EndOptim, WriteExtra, WriteMetric, Writing
<1>3. job.tag \in Tags /\ job.tag[2] = step
  BY <1>1, <1>2 DEF SaveInv, Writing
<1>4. /\ Torn \in Parts /\ None \in Parts /\ Torn # None
      /\ NoDir \in Contents /\ Content \in Nat \X {job.tag[2]}
  BY <1>1, <1>3 DEF Torn, None, NoDir, Parts, Contents, Content
<1>5. job.tag \in DOMAIN dirs[g] =>
         Here(g) \in Contents /\ Here(g).extra \in {None} \union (Nat \X {job.tag[2]})
  BY <1>1 DEF DirsOK, Marked, Here
<1>6. pc[g] # "start" => job.tag \in DOMAIN dirs[g]
  BY <1>1, <1>2 DEF SaveInv, Writing
<1>7. CASE StartModel(g)
  <2> DEFINE e == IF job.tag \in DOMAIN dirs[g] THEN Here(g) ELSE NoDir
             d == [e EXCEPT !.model = Torn]
  <2>1. pc' = [pc EXCEPT ![g] = "model"] /\ pc'[g] = "model"
        /\ UNCHANGED <<trainVars, job, victim, latest, history>>
    BY <1>1, <1>7 DEF StartModel, Goto
  <2>2. e \in Contents /\ e.extra \in {None} \union (Nat \X {job.tag[2]})
        /\ (job.tag \in DOMAIN dirs[g] => e.extra = Here(g).extra)
        /\ (e.model # None => job.tag \in DOMAIN dirs[g])
    BY <1>4, <1>5 DEF NoDir
  <2>3. IF e.model # None THEN Write(g, job.tag, d) ELSE Touch(g, job.tag, d)
    BY <1>7 DEF StartModel
  <2> HIDE DEF e
  <2>4. d \in Contents /\ d.model = Torn /\ d.extra = e.extra
    BY <2>2, <1>4 DEF Contents
  <2>5. Changes(g, job.tag, d)
    BY <2>2, <2>3 DEF Changes
  <2> HIDE DEF d
  <2>6. Written(d, "model")
    BY <2>2, <2>4, <1>4 DEF Written
  <2>7. QED BY <1>2, <1>3, <2>1, <2>2, <2>4, <2>5, <2>6 DEF Labels
<1>8. CASE StartOptim(g)
  <2> DEFINE d == [Here(g) EXCEPT !.model = Content, !.optim = Torn]
  <2>1. pc' = [pc EXCEPT ![g] = "optim"] /\ pc'[g] = "optim" /\ pc[g] = "model"
        /\ UNCHANGED <<trainVars, job, victim, latest, history>>
    BY <1>1, <1>8 DEF StartOptim, Goto
  <2>2. d \in Contents /\ d.model = Content /\ d.extra = Here(g).extra
    BY <2>1, <1>1, <1>4, <1>5, <1>6 DEF Contents
  <2>3. Changes(g, job.tag, d)
    BY <2>1, <1>6, <1>8 DEF StartOptim, Changes
  <2> HIDE DEF d
  <2>4. Written(d, "optim")
    BY <2>1, <2>2, <1>1, <1>5, <1>6 DEF Written
  <2>5. QED BY <1>2, <1>3, <2>1, <2>2, <2>3, <2>4 DEF Labels
<1>9. CASE EndOptim(g)
  <2> DEFINE d == [Here(g) EXCEPT !.optim = Content]
  <2>1. pc' = [pc EXCEPT ![g] = "extra"] /\ pc'[g] = "extra" /\ pc[g] = "optim"
        /\ UNCHANGED <<trainVars, job, victim, latest, history>>
    BY <1>1, <1>9 DEF EndOptim, Goto
  <2>2. /\ d \in Contents /\ d.model = Content /\ d.optim = Content
        /\ d.extra = Here(g).extra
    BY <2>1, <1>1, <1>5, <1>6 DEF Contents, SaveInv
  <2>3. Changes(g, job.tag, d)
    BY <2>1, <1>6, <1>9 DEF EndOptim, Changes
  <2> HIDE DEF d
  <2>4. Written(d, "extra")
    BY <2>1, <2>2, <1>1, <1>5, <1>6 DEF Written
  <2>5. QED BY <1>2, <1>3, <2>1, <2>2, <2>3, <2>4 DEF Labels
<1>10. CASE WriteExtra(g)
  <2> DEFINE d == [Here(g) EXCEPT !.extra = Content, !.best = metric.best]
  <2>1. pc' = [pc EXCEPT ![g] = "metric"] /\ pc'[g] = "metric" /\ pc[g] = "extra"
        /\ UNCHANGED <<trainVars, job, victim, latest, history>>
    BY <1>1, <1>10 DEF WriteExtra, Goto
  <2>2. /\ d \in Contents /\ d.model = Content /\ d.optim = Content /\ d.extra = Content
    BY <2>1, <1>1, <1>5, <1>6 DEF Contents, SaveInv
  <2>3. Changes(g, job.tag, d)
    BY <1>10 DEF WriteExtra, Changes
  <2> HIDE DEF d
  <2>4. Written(d, "metric")
    BY <2>1, <2>2, <1>1, <1>4 DEF Written
  <2>5. QED BY <1>1, <1>2, <1>3, <2>1, <2>2, <2>3, <2>4 DEF Labels
<1>11. CASE WriteMetric(g)
  <2> DEFINE d == [Here(g) EXCEPT !.metric = job.metric]
             at == IF Regular(job.tag) THEN "marker" ELSE "prune"
  <2>1. pc' = [pc EXCEPT ![g] = at] /\ pc'[g] = at /\ pc[g] = "metric"
        /\ UNCHANGED <<trainVars, job, victim, latest, history>>
    BY <1>1, <1>11 DEF WriteMetric, Goto
  <2>2. /\ d \in Contents /\ d.model = Content /\ d.optim = Content /\ d.extra = Content
        /\ d.metric = job.metric
    BY <2>1, <1>1, <1>5, <1>6 DEF Contents, SaveInv
  <2>3. Changes(g, job.tag, d)
    BY <1>11 DEF WriteMetric, Changes
  <2> HIDE DEF d
  <2>4. Written(d, at)
    BY <2>1, <2>2, <1>1, <1>3, <1>4, TagFacts DEF Written
  <2>5. QED BY <1>1, <1>2, <1>3, <2>1, <2>2, <2>3, <2>4 DEF Labels
<1>12. QED BY <1>7, <1>8, <1>9, <1>10, <1>11 DEF Writes

\* A step of save_ckpt changes nothing of the trainer but, at its end, done.
LEMMA TypesInSave ==
    ASSUME TypeOK,
           dirs' = [h \in Groups |-> dirs'[h]], \A h \in Groups : DirsOK(dirs'[h]),
           older' \in [Groups -> SUBSET (Tags \X Tags)],
           latest' \in [Groups -> Tags \union {NoTag}], pc' \in [Groups -> Labels],
           victim' \in [Groups -> Tags \union {NoTag}], done' \in Nat,
           UNCHANGED <<trainVars, job, loaded>>
    PROVE  TypeOK'
BY DEF TypeOK, trainVars

\* The steps that write files keep what a restart rests on.
LEMMA WritesSound ==
    ASSUME Core, NEW g \in Groups, Writes(g)
    PROVE  Core'
<1>1. TypeOK /\ GroupInv(g) /\ DirsOK(dirs[g])
  BY Types DEF Core
<1>2. /\ pc[g] \in Writing \ {"marker"} /\ job.tag \in Tags
      /\ pc' = [pc EXCEPT ![g] = pc'[g]] /\ pc'[g] \in Labels \ {"idle", "start"}
      /\ UNCHANGED <<trainVars, job, victim, latest, history>>
  BY <1>1, WritesAre
<1>3. PICK d \in Contents :
         /\ Changes(g, job.tag, d) /\ Written(d, pc'[g])
         /\ job.tag \in DOMAIN dirs[g] /\ Here(g).extra # None => d.extra # None
  BY <1>1, WritesAre
<1> DEFINE t == job.tag
<1>4. /\ dirs' = [h \in Groups |-> dirs'[h]]
      /\ older' \in [Groups -> SUBSET (Tags \X Tags)]
      /\ \A h \in Groups \ {g} : dirs'[h] = dirs[h] /\ older'[h] = older[h]
      /\ DirsOK(dirs'[g]) /\ OrderInv(g)'
      /\ DOMAIN dirs'[g] = DOMAIN dirs[g] \union {t} /\ dirs'[g][t] = d
      /\ \A s \in DOMAIN dirs[g] \ {t} : dirs'[g][s] = dirs[g][s]
  BY <1>1, <1>2, <1>3, ChangeIs DEF GroupInv
<1>5. /\ pc \in [Groups -> Labels] /\ latest \in [Groups -> Tags \union {NoTag}]
      /\ victim \in [Groups -> Tags \union {NoTag}] /\ done \in Nat
      /\ step \in Nat
  BY <1>1 DEF TypeOK
<1>6. /\ run' = run /\ step' = step /\ job' = job /\ victim' = victim /\ latest' = latest
      /\ done' = done /\ Content' = Content /\ loaded' = loaded
      /\ \A h \in Groups \ {g} : pc'[h] = pc[h]
      /\ pc' \in [Groups -> Labels] /\ ~Idle /\ ~Idle'
  BY <1>2, <1>5 DEF trainVars, history, Content, Idle, Writing
<1>7. TypeOK'
  <2>1. \A h \in Groups : DirsOK(dirs'[h])
    BY <1>1, <1>4, Types
  <2>2. QED BY <1>1, <1>2, <1>4, <1>5, <1>6, <2>1, TypesInSave
<1>8. ASSUME NEW h \in Groups \ {g} PROVE GroupInv(h)'
  <2>1. GroupInv(h) /\ (latest[h] = NoTag => done' = 0)
        /\ (latest[h] # NoTag => done' <= latest[h][2])
    BY <1>6 DEF Core, GroupInv, Marked
  <2>2. QED BY <1>4, <1>6, <2>1, Untouched
<1>9. Marked(g)'
  <2>1. /\ latest[g] = NoTag => done = 0
        /\ latest[g] # NoTag =>
             /\ Regular(latest[g]) /\ latest[g] \in DOMAIN dirs[g]
             /\ Loadable(dirs[g][latest[g]]) /\ done <= latest[g][2]
        /\ \A s \in DOMAIN dirs[g] : dirs[g][s].extra \in {None} \union (Nat \X {s[2]})
    BY <1>1 DEF GroupInv, Marked
  <2>2. \A s \in DOMAIN dirs'[g] : dirs'[g][s].extra \in {None} \union (Nat \X {s[2]})
    BY <2>1, <1>3, <1>4 DEF Written
  <2>3. latest[g] # NoTag => Loadable(dirs'[g][latest[g]])
    BY <2>1, <1>3, <1>4 DEF Written, Loadable, Here
  <2>4. QED BY <2>1, <2>2, <2>3, <1>4, <1>6 DEF Marked
<1>10. VictimInv(g)'
  BY <1>1, <1>2, <1>6 DEF GroupInv, VictimInv, Writing
<1>11. SaveInv(g)'
  <2>1. job.tag[2] = step
    BY <1>1, <1>2 DEF GroupInv, SaveInv, Writing
  <2>2. pc'[g] # "prune" => pc'[g] \in Writing
    BY <1>2 DEF Labels, Writing
  <2>3. pc'[g] = "prune" => ~Regular(job.tag)
    BY <1>2, <1>3, TagFacts DEF Written
  <2>4. Here(g)' = d
    BY <1>4, <1>6 DEF Here
  <2>5. QED BY <1>2, <1>3, <1>4, <1>6, <2>1, <2>2, <2>3, <2>4 DEF SaveInv, Written
<1>12. PolicyInv'
  <2> SUFFICES ASSUME latest[Actor] # NoTag
               PROVE  /\ Whole(dirs'[Actor][latest[Actor]]) /\ latest[Actor][2] <= step
                      /\ pc'[Actor] \in Writing /\ Regular(job.tag) => latest[Actor][2] < step
    BY <1>6 DEF PolicyInv
  <2>1. /\ Whole(dirs[Actor][latest[Actor]]) /\ latest[Actor][2] <= step
        /\ pc[Actor] \in Writing /\ Regular(job.tag) => latest[Actor][2] < step
    BY DEF Core, PolicyInv
  <2>2. CASE Actor # g
    BY <2>1, <2>2, <1>4, <1>6, CheckpointAssumption
  <2>3. CASE Actor = g
    <3>1. Regular(latest[g]) /\ latest[g] \in DOMAIN dirs[g] /\ latest[g][2] \in Nat
      BY <1>1, <2>3, <1>5, TagFacts DEF GroupInv, Marked
    <3>2. job.tag # latest[g]
      <4>1. job.tag[2] = step
        BY <1>1, <1>2 DEF GroupInv, SaveInv, Writing
      <4>2. QED BY <4>1, <3>1, <2>1, <2>3, <1>2, <1>5
    <3>3. QED BY <2>1, <2>3, <3>1, <3>2, <1>2, <1>4
  <2>4. QED BY <2>2, <2>3
<1>13. GroupInv(g)'
  BY <1>4, <1>9, <1>10, <1>11 DEF GroupInv
<1>14. done' <= step'
  BY <1>6 DEF Core
<1>15. QED BY <1>7, <1>8, <1>12, <1>13, <1>14 DEF Core
-----------------------------------------------------------------------------
(* The marker and pruning *)

\* The invariant, taken apart for a step of group g.
LEMMA CoreParts ==
    ASSUME Core, NEW g \in Groups
    PROVE  /\ TypeOK /\ PolicyInv /\ done <= step
           /\ \A h \in Groups : /\ GroupInv(h) /\ OrderInv(h) /\ Marked(h) /\ VictimInv(h)
                                /\ SaveInv(h) /\ DirsOK(dirs[h])
           /\ pc \in [Groups -> Labels] /\ latest \in [Groups -> Tags \union {NoTag}]
           /\ victim \in [Groups -> Tags \union {NoTag}] /\ done \in Nat /\ step \in Nat
           /\ older \in [Groups -> SUBSET (Tags \X Tags)]
           /\ dirs = [h \in Groups |-> dirs[h]]
           /\ pc[g] # "idle" => ~Idle /\ job.tag \in Tags /\ job.tag[2] = step
           /\ \A h \in Groups : /\ latest[h] = NoTag => done = 0
                                /\ latest[h] # NoTag => done <= latest[h][2]
BY Types DEF Core, GroupInv, TypeOK, Idle, SaveInv, Marked

\* A step of another group does not matter to the policy's marker.
LEMMA PolicyUntouched ==
    ASSUME PolicyInv, dirs'[Actor] = dirs[Actor], latest'[Actor] = latest[Actor],
           pc'[Actor] \in Writing => pc[Actor] \in Writing, job' = job, step' = step
    PROVE  PolicyInv'
BY DEF PolicyInv

\* The marker comes after everything it stands for.
LEMMA WriteMarkerSound ==
    ASSUME Core, NEW g \in Groups, WriteMarker(g)
    PROVE  Core'
<1>1. /\ pc[g] = "marker" /\ pc' = [pc EXCEPT ![g] = "prune"]
      /\ latest' = [latest EXCEPT ![g] = job.tag]
      /\ UNCHANGED <<trainVars, job, victim, dirs, older, history>>
  BY DEF WriteMarker, Goto
<1>2. /\ TypeOK /\ PolicyInv /\ done <= step /\ ~Idle
      /\ \A h \in Groups : /\ GroupInv(h) /\ OrderInv(h) /\ Marked(h) /\ VictimInv(h)
                           /\ SaveInv(h) /\ DirsOK(dirs[h])
      /\ pc \in [Groups -> Labels] /\ latest \in [Groups -> Tags \union {NoTag}]
      /\ job.tag \in Tags /\ job.tag[2] = step /\ done \in Nat /\ step \in Nat
      /\ \A h \in Groups : /\ latest[h] = NoTag => done = 0
                           /\ latest[h] # NoTag => done <= latest[h][2]
  BY <1>1, CoreParts
<1>3. /\ pc'[g] = "prune" /\ latest'[g] = job.tag /\ pc' \in [Groups -> Labels]
      /\ latest' \in [Groups -> Tags \union {NoTag}]
      /\ \A h \in Groups \ {g} : pc'[h] = pc[h] /\ latest'[h] = latest[h]
  BY <1>1, <1>2 DEF Labels
<1>4. /\ run' = run /\ step' = step /\ job' = job /\ victim' = victim /\ done' = done
      /\ loaded' = loaded /\ dirs' = dirs /\ older' = older /\ Content' = Content /\ ~Idle'
  BY <1>1, <1>3 DEF trainVars, history, Content, Idle
<1>5. /\ job.tag \in DOMAIN dirs[g] /\ Here(g).model = Content /\ Here(g).optim = Content
      /\ Here(g).extra = Content /\ Regular(job.tag) /\ Content # None
  BY <1>1, <1>2, Types DEF SaveInv
<1>6. TypeOK'
  <2>1. dirs' = [h \in Groups |-> dirs'[h]] /\ older' \in [Groups -> SUBSET (Tags \X Tags)]
        /\ victim' \in [Groups -> Tags \union {NoTag}]
    BY <1>2, <1>4 DEF TypeOK
  <2>2. QED BY <1>1, <1>2, <1>3, <1>4, <2>1, TypesInSave
<1>7. ASSUME NEW h \in Groups \ {g} PROVE GroupInv(h)'
  BY <1>2, <1>3, <1>4, Untouched
<1>8. GroupInv(g)'
  <2>1. OrderInv(g)'
    BY <1>2, <1>4 DEF OrderInv
  <2>2. Marked(g)'
    BY <1>2, <1>3, <1>4, <1>5, TagFacts DEF Marked, Loadable, Here
  <2>3. victim[g] = NoTag
    BY <1>1, <1>2 DEF VictimInv
  <2>4. VictimInv(g)'
    BY <2>3, <1>4 DEF VictimInv
  <2>5. SaveInv(g)'
    BY <1>2, <1>3, <1>4, <1>5 DEF SaveInv, Here
  <2>6. QED BY <2>1, <2>2, <2>4, <2>5 DEF GroupInv
<1>9. PolicyInv'
  <2>1. CASE Actor # g
    BY <2>1, <1>2, <1>3, <1>4, PolicyUntouched, CheckpointAssumption
  <2>2. CASE Actor = g
    BY <2>2, <1>2, <1>3, <1>4, <1>5 DEF PolicyInv, Whole, Here, Writing
  <2>3. QED BY <2>1, <2>2
<1>10. QED BY <1>2, <1>4, <1>6, <1>7, <1>8, <1>9 DEF Core

\* Neither the directory just saved nor the one of the marker is chosen for removal.
LEMMA VictimsAre ==
    ASSUME Core, NEW g \in Groups, pc[g] = "prune", NEW t \in Victims(g)
    PROVE  /\ t \in DOMAIN dirs[g] /\ t \in Tags /\ t # NoTag
           /\ t # job.tag /\ t # latest[g]
<1>1. /\ SaveInv(g) /\ Marked(g) /\ DOMAIN dirs[g] \subseteq Tags /\ ~Idle /\ job.tag \in Tags
  BY CoreParts DEF DirsOK
<1>2. t \in DOMAIN dirs[g] /\ t # job.tag
  BY DEF Victims, RegularTags
<1>3. CASE Best(job.tag)
  BY <1>1, <1>2, <1>3, TagFacts DEF Victims, Marked
<1>4. CASE Regular(job.tag)
  BY <1>1, <1>2, <1>4, TagFacts DEF SaveInv, Writing
<1>5. QED BY <1>1, <1>3, <1>4, TagFacts

\* Choosing what to remove.
LEMMA PickVictimSound ==
    ASSUME Core, NEW g \in Groups, PickVictim(g)
    PROVE  Core'
<1>1. PICK t \in Victims(g) : victim' = [victim EXCEPT ![g] = t]
  BY DEF PickVictim
<1>2. pc[g] = "prune" /\ UNCHANGED <<trainVars, pc, job, diskVars, history>>
  BY DEF PickVictim
<1>3. /\ t \in DOMAIN dirs[g] /\ t \in Tags /\ t # NoTag /\ t # job.tag /\ t # latest[g]
  BY <1>2, VictimsAre
<1>4. /\ TypeOK /\ PolicyInv /\ done <= step
      /\ \A h \in Groups : /\ GroupInv(h) /\ OrderInv(h) /\ Marked(h)
                           /\ SaveInv(h) /\ DirsOK(dirs[h])
      /\ victim \in [Groups -> Tags \union {NoTag}] /\ done \in Nat
      /\ \A h \in Groups : /\ latest[h] = NoTag => done = 0
                           /\ latest[h] # NoTag => done <= latest[h][2]
  BY CoreParts
<1>5. /\ victim'[g] = t /\ victim' \in [Groups -> Tags \union {NoTag}]
      /\ \A h \in Groups \ {g} : victim'[h] = victim[h]
  BY <1>1, <1>3, <1>4
<1>6. /\ run' = run /\ step' = step /\ job' = job /\ done' = done /\ pc' = pc
      /\ loaded' = loaded /\ dirs' = dirs /\ older' = older /\ latest' = latest
      /\ Content' = Content /\ Idle' = Idle
  BY <1>2 DEF trainVars, history, diskVars, Content, Idle
<1>7. TypeOK'
  <2>1. /\ dirs' = [h \in Groups |-> dirs'[h]]
        /\ older' \in [Groups -> SUBSET (Tags \X Tags)]
        /\ latest' \in [Groups -> Tags \union {NoTag}] /\ pc' \in [Groups -> Labels]
    BY <1>4, <1>6 DEF TypeOK
  <2>2. QED BY <1>2, <1>4, <1>5, <1>6, <2>1, TypesInSave
<1>8. ASSUME NEW h \in Groups \ {g} PROVE GroupInv(h)'
  BY <1>4, <1>5, <1>6, Untouched
<1>9. GroupInv(g)'
  <2>1. OrderInv(g)' /\ Marked(g)'
    BY <1>4, <1>6 DEF OrderInv, Marked
  <2>2. VictimInv(g)'
    BY <1>2, <1>3, <1>5, <1>6 DEF VictimInv
  <2>3. SaveInv(g)'
    BY <1>4, <1>6 DEF SaveInv, Here
  <2>4. QED BY <2>1, <2>2, <2>3 DEF GroupInv
<1>10. PolicyInv'
  BY <1>4, <1>6 DEF PolicyInv
<1>11. QED BY <1>4, <1>6, <1>7, <1>8, <1>9, <1>10 DEF Core

\* An entry of the victim is removed: the directory changes, and has extra_state.pt as it
\* was or no more.
LEMMA RemovePartIs ==
    ASSUME Core, NEW g \in Groups, RemovePart(g)
    PROVE  /\ pc[g] = "prune" /\ victim[g] \in DOMAIN dirs[g] /\ victim[g] \in Tags
           /\ victim[g] # job.tag /\ victim[g] # latest[g]
           /\ UNCHANGED <<trainVars, pc, job, victim, latest, history>>
           /\ \E d \in Contents : /\ Changes(g, victim[g], d)
                                  /\ d.extra \in {None, dirs[g][victim[g]].extra}
<1> DEFINE t == victim[g]
           d == dirs[g][t]
<1>1. t # NoTag /\ UNCHANGED <<trainVars, pc, job, victim, latest, history>>
  BY DEF RemovePart
<1>2. DirsOK(dirs[g]) /\ VictimInv(g) /\ victim \in [Groups -> Tags \union {NoTag}]
  BY CoreParts
<1>3. /\ pc[g] = "prune" /\ t \in DOMAIN dirs[g] /\ t \in Tags /\ t # job.tag
      /\ t # latest[g] /\ d \in Contents
  BY <1>1, <1>2 DEF VictimInv, DirsOK
<1>4. None \in Parts /\ Torn \in Parts
  BY DEF None, Torn, Parts
<1>5. ASSUME NEW e \in Contents, e.extra \in {None, d.extra}, Write(g, t, e) \/ Touch(g, t, e)
      PROVE  \E f \in Contents : Changes(g, t, f) /\ f.extra \in {None, d.extra}
  BY <1>3, <1>5 DEF Changes
<1> HIDE DEF d
<1>6. ASSUME NEW p \in Shards, NEW q \in {None, Torn}
      PROVE  [d EXCEPT ![p] = q] \in Contents /\ [d EXCEPT ![p] = q].extra = d.extra
  <2>1. CASE p = "model"
    BY <2>1, <1>3, <1>4 DEF Contents
  <2>2. CASE p = "optim"
    BY <2>2, <1>3, <1>4 DEF Contents
  <2>3. QED BY <2>1, <2>2 DEF Shards
<1>7. [d EXCEPT !.extra = None] \in Contents /\ [d EXCEPT !.extra = None].extra = None
  BY <1>3, <1>4 DEF Contents
<1>8. [d EXCEPT !.metric = 0] \in Contents /\ [d EXCEPT !.metric = 0].extra = d.extra
  BY <1>3 DEF Contents
<1>9. \/ \E p \in Shards : \/ Write(g, t, [d EXCEPT ![p] = Torn])
                           \/ Touch(g, t, [d EXCEPT ![p] = None])
      \/ Touch(g, t, [d EXCEPT !.extra = None])
      \/ Touch(g, t, [d EXCEPT !.metric = 0])
  BY DEF RemovePart, d
<1>10. \E f \in Contents : Changes(g, t, f) /\ f.extra \in {None, d.extra}
  <2>1. CASE \E p \in Shards : Write(g, t, [d EXCEPT ![p] = Torn])
    BY <2>1, <1>5, <1>6
  <2>2. CASE \E p \in Shards : Touch(g, t, [d EXCEPT ![p] = None])
    BY <2>2, <1>5, <1>6
  <2>3. CASE Touch(g, t, [d EXCEPT !.extra = None])
    BY <2>3, <1>5, <1>7
  <2>4. CASE Touch(g, t, [d EXCEPT !.metric = 0])
    BY <2>4, <1>5, <1>8
  <2>5. QED BY <1>9, <2>1, <2>2, <2>3, <2>4
<1>11. QED BY <1>1, <1>3, <1>10 DEF d

\* Removing entries does not touch what the marker names.
LEMMA RemovePartSound ==
    ASSUME Core, NEW g \in Groups, RemovePart(g)
    PROVE  Core'
<1> DEFINE t == victim[g]
<1>1. /\ pc[g] = "prune" /\ t \in DOMAIN dirs[g] /\ t \in Tags /\ t # job.tag
      /\ t # latest[g] /\ UNCHANGED <<trainVars, pc, job, victim, latest, history>>
  BY RemovePartIs
<1>2. PICK d \in Contents : Changes(g, t, d) /\ d.extra \in {None, dirs[g][t].extra}
  BY RemovePartIs
<1>3. /\ TypeOK /\ PolicyInv /\ done <= step
      /\ \A h \in Groups : /\ GroupInv(h) /\ OrderInv(h) /\ Marked(h) /\ VictimInv(h)
                           /\ SaveInv(h) /\ DirsOK(dirs[h])
      /\ done \in Nat
      /\ \A h \in Groups : /\ latest[h] = NoTag => done = 0
                           /\ latest[h] # NoTag => done <= latest[h][2]
  BY CoreParts
<1>4. /\ dirs' = [h \in Groups |-> dirs'[h]]
      /\ older' \in [Groups -> SUBSET (Tags \X Tags)]
      /\ \A h \in Groups \ {g} : dirs'[h] = dirs[h] /\ older'[h] = older[h]
      /\ DirsOK(dirs'[g]) /\ OrderInv(g)'
      /\ DOMAIN dirs'[g] = DOMAIN dirs[g] \union {t} /\ dirs'[g][t] = d
      /\ \A s \in DOMAIN dirs[g] \ {t} : dirs'[g][s] = dirs[g][s]
  BY <1>1, <1>2, <1>3, ChangeIs
<1>5. /\ run' = run /\ step' = step /\ job' = job /\ done' = done /\ pc' = pc
      /\ loaded' = loaded /\ victim' = victim /\ latest' = latest
      /\ Content' = Content /\ Idle' = Idle
  BY <1>1 DEF trainVars, history, Content, Idle
<1>6. TypeOK'
  <2>1. /\ latest' \in [Groups -> Tags \union {NoTag}] /\ pc' \in [Groups -> Labels]
        /\ victim' \in [Groups -> Tags \union {NoTag}]
    BY <1>3, <1>5 DEF TypeOK
  <2>2. \A h \in Groups : DirsOK(dirs'[h])
    BY <1>3, <1>4
  <2>3. QED BY <1>1, <1>3, <1>4, <1>5, <2>1, <2>2, TypesInSave
<1>7. ASSUME NEW h \in Groups \ {g} PROVE GroupInv(h)'
  BY <1>3, <1>4, <1>5, Untouched
<1>8. GroupInv(g)'
  <2>1. Marked(g)'
    <3>1. \A s \in DOMAIN dirs'[g] : dirs'[g][s].extra \in {None} \union (Nat \X {s[2]})
      BY <1>1, <1>2, <1>3, <1>4 DEF Marked
    <3>2. QED BY <3>1, <1>1, <1>3, <1>4, <1>5 DEF Marked, Loadable
  <2>2. VictimInv(g)'
    BY <1>1, <1>3, <1>4, <1>5 DEF VictimInv
  <2>3. SaveInv(g)'
    BY <1>1, <1>3, <1>4, <1>5 DEF SaveInv, Here
  <2>4. QED BY <1>4, <2>1, <2>2, <2>3 DEF GroupInv
<1>9. PolicyInv'
  <2>1. CASE Actor # g
    BY <2>1, <1>3, <1>4, <1>5, PolicyUntouched, CheckpointAssumption
  <2>2. CASE Actor = g
    BY <2>2, <1>1, <1>3, <1>4, <1>5 DEF PolicyInv, Marked
  <2>3. QED BY <2>1, <2>2
<1>10. QED BY <1>3, <1>5, <1>6, <1>7, <1>8, <1>9 DEF Core
\* The victim is gone.
LEMMA RemoveDirIs ==
    ASSUME Core, NEW g \in Groups, RemoveDir(g)
    PROVE  LET t == victim[g]
           IN  /\ pc[g] = "prune" /\ t \in DOMAIN dirs[g] /\ t \in Tags
               /\ t # job.tag /\ t # latest[g]
               /\ UNCHANGED <<trainVars, pc, job, latest, history>>
               /\ victim'[g] = NoTag /\ victim' \in [Groups -> Tags \union {NoTag}]
               /\ dirs' = [h \in Groups |-> dirs'[h]]
               /\ older' \in [Groups -> SUBSET (Tags \X Tags)]
               /\ \A h \in Groups \ {g} : /\ dirs'[h] = dirs[h] /\ older'[h] = older[h]
                                          /\ victim'[h] = victim[h]
               /\ DOMAIN dirs'[g] = DOMAIN dirs[g] \ {t} /\ DirsOK(dirs'[g])
               /\ \A s \in DOMAIN dirs'[g] : dirs'[g][s] = dirs[g][s]
               /\ older'[g] = Without(older[g], t)
<1> DEFINE t == victim[g]
           D == DOMAIN dirs[g] \ {t}
           W == [s \in D |-> dirs[g][s]]
<1>1. /\ t # NoTag /\ UNCHANGED <<trainVars, pc, job, latest, history>>
      /\ dirs' = [dirs EXCEPT ![g] = W]
      /\ older' = [older EXCEPT ![g] = Without(older[g], t)]
      /\ victim' = [victim EXCEPT ![g] = NoTag]
  BY DEF RemoveDir
<1>2. /\ DirsOK(dirs[g]) /\ VictimInv(g) /\ victim \in [Groups -> Tags \union {NoTag}]
      /\ older \in [Groups -> SUBSET (Tags \X Tags)] /\ dirs = [h \in Groups |-> dirs[h]]
  BY CoreParts
<1>3. /\ pc[g] = "prune" /\ t \in DOMAIN dirs[g] /\ t \in Tags /\ t # job.tag
      /\ t # latest[g]
  BY <1>1, <1>2 DEF VictimInv, DirsOK
<1>4. IsFiniteSet(D)
  BY <1>2, FS_RemoveElement DEF DirsOK
<1>5. DirsOK(W) /\ DOMAIN W = D /\ \A s \in D : W[s] = dirs[g][s]
  BY <1>2, <1>4 DEF DirsOK
<1> HIDE DEF W
<1>6. /\ dirs' = [h \in Groups |-> dirs'[h]] /\ dirs'[g] = W
      /\ \A h \in Groups \ {g} : dirs'[h] = dirs[h]
  BY <1>1, <1>2
<1>7. Without(older[g], t) \subseteq Tags \X Tags
  BY <1>2 DEF Without
<1>8. /\ older' \in [Groups -> SUBSET (Tags \X Tags)] /\ older'[g] = Without(older[g], t)
      /\ \A h \in Groups \ {g} : older'[h] = older[h]
  BY <1>1, <1>2, <1>7
<1>9. /\ victim'[g] = NoTag /\ victim' \in [Groups -> Tags \union {NoTag}]
      /\ \A h \in Groups \ {g} : victim'[h] = victim[h]
  BY <1>1, <1>2
<1>10. QED BY <1>1, <1>3, <1>5, <1>6, <1>8, <1>9

\* Nor does removing the directory.
LEMMA RemoveDirSound ==
    ASSUME Core, NEW g \in Groups, RemoveDir(g)
    PROVE  Core'
<1> DEFINE t == victim[g]
<1>1. /\ pc[g] = "prune" /\ t \in DOMAIN dirs[g] /\ t # job.tag /\ t # latest[g]
      /\ UNCHANGED <<trainVars, pc, job, latest, history>>
      /\ victim'[g] = NoTag /\ victim' \in [Groups -> Tags \union {NoTag}]
      /\ dirs' = [h \in Groups |-> dirs'[h]]
      /\ older' \in [Groups -> SUBSET (Tags \X Tags)]
      /\ \A h \in Groups \ {g} : /\ dirs'[h] = dirs[h] /\ older'[h] = older[h]
                                 /\ victim'[h] = victim[h]
      /\ DOMAIN dirs'[g] = DOMAIN dirs[g] \ {t} /\ DirsOK(dirs'[g])
      /\ \A s \in DOMAIN dirs'[g] : dirs'[g][s] = dirs[g][s]
      /\ older'[g] = Without(older[g], t)
  BY RemoveDirIs
<1>2. /\ TypeOK /\ PolicyInv /\ done <= step
      /\ \A h \in Groups : /\ GroupInv(h) /\ OrderInv(h) /\ Marked(h)
                           /\ SaveInv(h) /\ DirsOK(dirs[h])
      /\ done \in Nat
      /\ \A h \in Groups : /\ latest[h] = NoTag => done = 0
                           /\ latest[h] # NoTag => done <= latest[h][2]
  BY CoreParts
<1>3. /\ run' = run /\ step' = step /\ job' = job /\ done' = done /\ pc' = pc
      /\ loaded' = loaded /\ latest' = latest /\ Content' = Content /\ Idle' = Idle
  BY <1>1 DEF trainVars, history, Content, Idle
<1>4. TypeOK'
  <2>1. latest' \in [Groups -> Tags \union {NoTag}] /\ pc' \in [Groups -> Labels]
    BY <1>2, <1>3 DEF TypeOK
  <2>2. \A h \in Groups : DirsOK(dirs'[h])
    BY <1>1, <1>2
  <2>3. QED BY <1>1, <1>2, <1>3, <2>1, <2>2, TypesInSave
<1>5. ASSUME NEW h \in Groups \ {g} PROVE GroupInv(h)'
  BY <1>1, <1>2, <1>3, Untouched
<1>6. GroupInv(g)'
  <2>1. OrderInv(g)'
    <3>1. /\ older[g] \subseteq (DOMAIN dirs[g]) \X (DOMAIN dirs[g])
          /\ \A s \in DOMAIN dirs[g] : <<s, s>> \notin older[g]
          /\ \A s, u, v \in DOMAIN dirs[g] :
                <<s, u>> \in older[g] /\ <<u, v>> \in older[g] => <<s, v>> \in older[g]
      BY <1>2 DEF OrderInv
    <3>2. \A s, u : <<s, u>> \in older'[g] <=> <<s, u>> \in older[g] /\ t \notin {s, u}
      BY <1>1 DEF Without
    <3>3. older'[g] \subseteq (DOMAIN dirs'[g]) \X (DOMAIN dirs'[g])
      BY <3>1, <1>1 DEF Without
    <3>4. QED BY <3>1, <3>2, <3>3, <1>1 DEF OrderInv
  <2>2. Marked(g)'
    BY <1>1, <1>2, <1>3 DEF Marked, Loadable
  <2>3. VictimInv(g)'
    BY <1>1 DEF VictimInv
  <2>4. SaveInv(g)'
    BY <1>1, <1>2, <1>3 DEF SaveInv, Here
  <2>5. QED BY <2>1, <2>2, <2>3, <2>4 DEF GroupInv
<1>7. PolicyInv'
  <2>1. CASE Actor # g
    BY <2>1, <1>1, <1>2, <1>3, PolicyUntouched, CheckpointAssumption
  <2>2. CASE Actor = g
    BY <2>2, <1>1, <1>2, <1>3 DEF PolicyInv, Marked
  <2>3. QED BY <2>1, <2>2
<1>8. QED BY <1>2, <1>3, <1>4, <1>5, <1>6, <1>7 DEF Core

\* When the last group returns from a regular save, the markers of all groups name it.
LEMMA PrunedSound ==
    ASSUME Core, NEW g \in Groups, Pruned(g)
    PROVE  Core'
<1>1. /\ pc[g] = "prune" /\ victim[g] = NoTag /\ pc' = [pc EXCEPT ![g] = "idle"]
      /\ done' = IF Regular(job.tag) /\ \A h \in Groups \ {g} : pc[h] = "idle"
                 THEN step ELSE done
      /\ UNCHANGED <<trainVars, job, victim, diskVars, loaded>>
  BY DEF Pruned, Goto
<1>2. /\ TypeOK /\ PolicyInv /\ done <= step /\ ~Idle /\ job.tag[2] = step /\ job.tag \in Tags
      /\ \A h \in Groups : /\ GroupInv(h) /\ OrderInv(h) /\ Marked(h)
                           /\ SaveInv(h) /\ DirsOK(dirs[h])
      /\ done \in Nat /\ step \in Nat /\ pc \in [Groups -> Labels]
      /\ \A h \in Groups : /\ latest[h] = NoTag => done = 0
                           /\ latest[h] # NoTag => done <= latest[h][2]
  BY <1>1, CoreParts
<1>3. /\ pc'[g] = "idle" /\ pc' \in [Groups -> Labels]
      /\ \A h \in Groups \ {g} : pc'[h] = pc[h]
  BY <1>1, <1>2 DEF Labels
<1>4. /\ run' = run /\ step' = step /\ job' = job /\ loaded' = loaded
      /\ latest' = latest /\ dirs' = dirs /\ older' = older /\ victim' = victim
      /\ Content' = Content
  BY <1>1 DEF trainVars, diskVars, Content
<1>5. /\ done' \in Nat /\ done' <= step
      /\ \A h \in Groups : /\ latest[h] = NoTag => done' = 0
                           /\ latest[h] # NoTag => done' <= latest[h][2]
  <2>1. CASE Regular(job.tag) /\ \A h \in Groups \ {g} : pc[h] = "idle"
    <3>1. \A h \in Groups : latest[h] = job.tag
      BY <2>1, <1>1, <1>2 DEF SaveInv, Writing
    <3>2. QED BY <2>1, <3>1, <1>1, <1>2, TagFacts
  <2>2. CASE ~(Regular(job.tag) /\ \A h \in Groups \ {g} : pc[h] = "idle")
    BY <2>2, <1>1, <1>2
  <2>3. QED BY <2>1, <2>2
<1>6. TypeOK'
  <2>1. /\ latest' \in [Groups -> Tags \union {NoTag}]
        /\ victim' \in [Groups -> Tags \union {NoTag}]
        /\ dirs' = [h \in Groups |-> dirs'[h]]
        /\ older' \in [Groups -> SUBSET (Tags \X Tags)]
    BY <1>2, <1>4 DEF TypeOK
  <2>2. QED BY <1>1, <1>2, <1>3, <1>4, <1>5, <2>1, TypesInSave
<1>7. ASSUME NEW h \in Groups \ {g} PROVE GroupInv(h)'
  BY <1>2, <1>3, <1>4, <1>5, Untouched
<1>8. GroupInv(g)'
  <2>1. OrderInv(g)'
    BY <1>2, <1>4 DEF OrderInv
  <2>2. Marked(g)'
    BY <1>2, <1>4, <1>5 DEF Marked
  <2>3. VictimInv(g)'
    BY <1>1, <1>4 DEF VictimInv
  <2>4. SaveInv(g)'
    BY <1>1, <1>2, <1>3, <1>4 DEF SaveInv, Writing
  <2>5. QED BY <2>1, <2>2, <2>3, <2>4 DEF GroupInv
<1>9. PolicyInv'
  <2>1. pc'[Actor] \in Writing => pc[Actor] \in Writing
    BY <1>3, CheckpointAssumption DEF Writing
  <2>2. QED BY <2>1, <1>2, <1>4, PolicyUntouched
<1>10. QED BY <1>4, <1>5, <1>6, <1>7, <1>8, <1>9 DEF Core
-----------------------------------------------------------------------------
(* The trainer, and the kill *)

\* A save begins, if one does, when no group is in one; a regular one after a step.
LEMMA BeginSound ==
    ASSUME Core, Idle, step' \in {step, step + 1},
           UNCHANGED <<options, run, victim, diskVars, loaded, done>>,
           evaluated' \in Nat, metric' \in [last : Nat, best : Nat],
           UNCHANGED <<job, pc>> \/ /\ pc' = [h \in Groups |-> "start"]
                                    /\ job' \in [tag : Tags, metric : Nat]
                                    /\ job'.tag[2] = step'
                                    /\ Regular(job'.tag) => step' = step + 1
    PROVE  Core'
<1>1. /\ TypeOK /\ PolicyInv /\ done <= step /\ step \in Nat /\ done \in Nat
      /\ pc \in [Groups -> Labels] /\ \A h \in Groups : GroupInv(h)
      /\ latest \in [Groups -> Tags \union {NoTag}]
  <2>1. Actor \in Groups
    BY CheckpointAssumption
  <2>2. QED BY <2>1, CoreParts
<1>2. /\ dirs' = dirs /\ older' = older /\ latest' = latest /\ victim' = victim
      /\ done' = done /\ loaded' = loaded /\ run' = run /\ options' = options
      /\ step' \in Nat /\ step <= step'
  BY <1>1 DEF diskVars
<1>3. pc' \in [Groups -> Labels] /\ job' \in [tag : Tags \union {NoTag}, metric : Nat]
  <2>1. job \in [tag : Tags \union {NoTag}, metric : Nat]
    BY <1>1 DEF TypeOK
  <2>2. QED BY <2>1, <1>1 DEF Labels
<1>4. TypeOK'
  BY <1>1, <1>2, <1>3 DEF TypeOK
<1>5. ASSUME NEW h \in Groups PROVE GroupInv(h)'
  <2>1. OrderInv(h)' /\ Marked(h)'
    BY <1>1, <1>2 DEF GroupInv, OrderInv, Marked
  <2>2. pc[h] = "idle"
    BY DEF Idle
  <2>3. VictimInv(h)'
    BY <1>1, <1>2, <2>2 DEF GroupInv, VictimInv
  <2>4. SaveInv(h)'
    <3>1. CASE UNCHANGED <<job, pc>>
      BY <2>2, <3>1 DEF SaveInv, Writing, Idle
    <3>2. CASE /\ pc' = [i \in Groups |-> "start"] /\ job' \in [tag : Tags, metric : Nat]
               /\ job'.tag[2] = step'
      <4>1. pc'[h] = "start" /\ job'.tag \in Tags
        BY <3>2
      <4>2. QED BY <3>2, <4>1 DEF SaveInv, Writing
    <3>3. QED BY <3>1, <3>2
  <2>5. QED BY <2>1, <2>3, <2>4 DEF GroupInv
<1>6. PolicyInv'
  <2> SUFFICES ASSUME latest[Actor] # NoTag
               PROVE  /\ Whole(dirs[Actor][latest[Actor]]) /\ latest[Actor][2] <= step'
                      /\ pc'[Actor] \in Writing /\ Regular(job'.tag)
                         => latest[Actor][2] < step'
    BY <1>2 DEF PolicyInv
  <2>1. Whole(dirs[Actor][latest[Actor]]) /\ latest[Actor][2] <= step
    BY <1>1 DEF PolicyInv
  <2>2. latest[Actor][2] \in Nat /\ pc[Actor] = "idle"
    BY <1>1, CheckpointAssumption, TagFacts DEF Idle
  <2>3. QED BY <2>1, <2>2, <1>1, <1>2 DEF Writing
<1>7. done' <= step'
  BY <1>1, <1>2
<1>8. QED BY <1>4, <1>5, <1>6, <1>7 DEF Core

\* A step of training.
LEMMA TrainSound == ASSUME Core, Train PROVE Core'
<1>1. TypeOK /\ step \in Nat /\ metric \in [last : Nat, best : Nat] /\ evaluated \in Nat
  BY DEF Core, TypeOK
<1>2. /\ Idle /\ step' = step + 1
      /\ UNCHANGED <<options, run, victim, diskVars, loaded, done, evaluated, metric>>
  BY DEF Train
<1>3. UNCHANGED <<job, pc>> \/ /\ pc' = [h \in Groups |-> "start"]
                               /\ job' \in [tag : Tags, metric : Nat]
                               /\ job'.tag[2] = step'
  <2>1. \/ UNCHANGED <<job, pc>>
        \/ BeginSave(<<"global_step", step'>>, IF Due(step') THEN metric.last ELSE 0)
    BY DEF Train
  <2>2. ASSUME NEW m \in Nat, BeginSave(<<"global_step", step'>>, m)
        PROVE  /\ pc' = [h \in Groups |-> "start"]
               /\ job' \in [tag : Tags, metric : Nat] /\ job'.tag[2] = step'
    <3>1. step' \in Nat
      BY <1>1, <1>2
    <3>2. <<"global_step", step'>> \in Tags
      BY <3>1, TagFacts
    <3>3. QED BY <2>2, <3>2 DEF BeginSave
  <2>3. (IF Due(step') THEN metric.last ELSE 0) \in Nat
    BY <1>1
  <2>4. QED BY <2>1, <2>2, <2>3
<1>4. QED BY <1>1, <1>2, <1>3, BeginSound

\* An evaluation, which saves under a best tag.
LEMMA EvaluateSound == ASSUME Core, NEW m \in 1..MaxMetric, Evaluate(m) PROVE Core'
<1>1. TypeOK /\ step \in Nat /\ metric \in [last : Nat, best : Nat] /\ m \in Nat
  BY CheckpointAssumption DEF Core, TypeOK
<1>2. /\ Idle /\ step' = step /\ evaluated' = step + 1
      /\ metric' = [last |-> m, best |-> IF m > metric.best THEN m ELSE metric.best]
      /\ UNCHANGED <<options, run, victim, diskVars, loaded, done>>
  BY DEF Evaluate
<1>3. metric' \in [last : Nat, best : Nat] /\ evaluated' \in Nat
  BY <1>1, <1>2
<1>4. UNCHANGED <<job, pc>> \/ /\ pc' = [h \in Groups |-> "start"]
                               /\ job' \in [tag : Tags, metric : Nat]
                               /\ job'.tag[2] = step' /\ ~Regular(job'.tag)
  <2>1. UNCHANGED <<job, pc>> \/ BeginSave(<<"best_global_step", step>>, m)
    BY DEF Evaluate
  <2>2. <<"best_global_step", step>> \in Tags /\ ~Regular(<<"best_global_step", step>>)
    BY <1>1, TagFacts
  <2>3. QED BY <2>1, <2>2, <1>1, <1>2 DEF BeginSave
<1>5. QED BY <1>1, <1>2, <1>3, <1>4, BeginSound
\* What a restart resumes from is there and loads; it is what the marker names, if there
\* is one.
LEMMA ResolveIs ==
    ASSUME Core, NEW g \in Groups
    PROVE  /\ Resolve(g) = NoTag \/ Resolve(g) \in Candidates(g)
           /\ latest[g] # NoTag => Resolve(g) = latest[g]
<1>1. /\ OrderInv(g) /\ Marked(g) /\ IsFiniteSet(DOMAIN dirs[g])
      /\ DOMAIN dirs[g] \subseteq Tags
  BY CoreParts DEF DirsOK
<1>2. CASE latest[g] # NoTag
  <2>1. latest[g] \in Candidates(g)
    BY <1>1, <1>2 DEF Marked, Candidates
  <2>2. QED BY <2>1 DEF Resolve
<1>3. CASE latest[g] = NoTag
  <2>1. latest[g] \notin Candidates(g)
    BY <1>1, <1>3, TagFacts DEF Candidates
  <2>2. ASSUME NEW T, T \subseteq Candidates(g)
        PROVE  Newest(g, T) = NoTag \/ Newest(g, T) \in Candidates(g)
    <3>1. CASE T = {}
      BY <3>1 DEF Newest
    <3>2. CASE T # {}
      <4>1. T \subseteq DOMAIN dirs[g]
        BY <2>2 DEF Candidates
      <4>2. IsFiniteSet(T)
        BY <4>1, <1>1, FS_Subset
      <4>3. /\ \A t \in T : <<t, t>> \notin older[g]
            /\ \A s, t, u \in T :
                  <<s, t>> \in older[g] /\ <<t, u>> \in older[g] => <<s, u>> \in older[g]
        BY <4>1, <1>1 DEF OrderInv
      <4>4. \E t \in T : \A s \in T : <<t, s>> \notin older[g]
        BY <3>2, <4>2, <4>3, NewestExists
      <4>5. Newest(g, T) \in T
        BY <3>2, <4>4 DEF Newest
      <4>6. QED BY <4>5, <2>2
    <3>3. QED BY <3>1, <3>2
  <2>3. {t \in Candidates(g) : Regular(t)} \subseteq Candidates(g)
    OBVIOUS
  <2>4. Resolve(g) = Newest(g, {t \in Candidates(g) : Regular(t)})
        \/ Resolve(g) = Newest(g, Candidates(g))
    BY <2>1 DEF Resolve
  <2>5. QED BY <1>3, <2>2, <2>3, <2>4
<1>4. QED BY <1>2, <1>3

\* What each group loads after a kill.
LEMMA CrashIs ==
    ASSUME Core, Crash, NEW g \in Groups
    PROVE  /\ loaded'[g] \in Contents /\ loaded'[g].extra[2] \in Nat
           /\ done <= loaded'[g].extra[2]
           /\ latest[g] # NoTag => /\ loaded'[g] = dirs[g][latest[g]]
                                   /\ loaded'[g].extra[2] = latest[g][2]
<1>1. /\ Marked(g) /\ DirsOK(dirs[g]) /\ latest[g] \in Tags \union {NoTag} /\ done \in Nat
      /\ latest[g] = NoTag => done = 0
  BY CoreParts
<1>2. loaded'[g] = IF Resolve(g) = NoTag THEN NoDir ELSE dirs[g][Resolve(g)]
  BY DEF Crash
<1>3. /\ NoDir \in Contents /\ NoDir.extra[2] = 0
  BY DEF NoDir, Contents, Parts, None
<1>4. /\ loaded'[g] \in Contents
  BY <1>1, <1>2, <1>3, ResolveIs DEF DirsOK, Candidates
<1>5. loaded'[g].extra[2] \in Nat
  <2>1. loaded'[g].extra \in Parts
    BY <1>4 DEF Contents
  <2>2. QED BY <2>1 DEF Parts
<1>6. CASE latest[g] = NoTag
  BY <1>1, <1>4, <1>5, <1>6
<1>7. CASE latest[g] # NoTag
  <2>1. /\ loaded'[g] = dirs[g][latest[g]] /\ latest[g] \in DOMAIN dirs[g]
        /\ Loadable(dirs[g][latest[g]]) /\ done <= latest[g][2]
    BY <1>1, <1>2, <1>7, ResolveIs DEF Marked
  <2>2. loaded'[g].extra \in Nat \X {latest[g][2]}
    BY <2>1, <1>1 DEF Marked, Loadable
  <2>3. loaded'[g].extra[2] = latest[g][2]
    BY <2>2
  <2>4. QED BY <1>4, <1>5, <2>1, <2>3
<1>8. QED BY <1>6, <1>7

\* A kill leaves the disk as it is, and the next run goes on from the policy's marker.
LEMMA CrashSound == ASSUME Core, Crash PROVE Core' /\ run' > 1
<1>1. /\ UNCHANGED <<options, job, diskVars, done>> /\ run' = run + 1
      /\ step' = loaded'[Actor].extra[2]
      /\ evaluated' = IF Resolve(Actor) = NoTag THEN 0 ELSE step' + 1
      /\ metric' = [last |-> loaded'[Actor].best, best |-> loaded'[Actor].best]
      /\ loaded' = [h \in Groups |-> IF Resolve(h) = NoTag THEN NoDir
                                     ELSE dirs[h][Resolve(h)]]
      /\ pc' = [h \in Groups |-> "idle"] /\ victim' = [h \in Groups |-> NoTag]
  BY DEF Crash
<1>2. /\ TypeOK /\ PolicyInv /\ done \in Nat /\ run \in Nat \ {0}
      /\ \A h \in Groups : GroupInv(h)
  <2>1. Actor \in Groups
    BY CheckpointAssumption
  <2>2. QED BY <2>1, CoreParts, Types
<1>3. /\ dirs' = dirs /\ older' = older /\ latest' = latest
      /\ done' = done /\ job' = job /\ options' = options
  BY <1>1 DEF diskVars
<1>4. /\ loaded'[Actor] \in Contents /\ step' \in Nat /\ done <= step'
      /\ latest[Actor] # NoTag => latest[Actor][2] = step'
  BY <1>1, CrashIs, CheckpointAssumption
<1>5. TypeOK'
  <2>1. loaded' \in [Groups -> Contents]
    BY <1>1, CrashIs
  <2>2. evaluated' \in Nat /\ metric' \in [last : Nat, best : Nat]
    BY <1>1, <1>4 DEF Contents
  <2>3. pc' \in [Groups -> Labels] /\ victim' \in [Groups -> Tags \union {NoTag}]
        /\ run' \in Nat \ {0}
    BY <1>1, <1>2 DEF Labels
  <2>4. QED BY <1>2, <1>3, <1>4, <2>1, <2>2, <2>3 DEF TypeOK
<1>6. Idle'
  BY <1>1 DEF Idle
<1>7. ASSUME NEW h \in Groups PROVE GroupInv(h)'
  <2>1. OrderInv(h)' /\ Marked(h)'
    BY <1>2, <1>3 DEF GroupInv, OrderInv, Marked
  <2>2. pc'[h] = "idle" /\ victim'[h] = NoTag
    BY <1>1
  <2>3. VictimInv(h)' /\ SaveInv(h)'
    BY <1>6, <2>2 DEF VictimInv, SaveInv, Writing
  <2>4. QED BY <2>1, <2>3 DEF GroupInv
<1>8. PolicyInv'
  BY <1>1, <1>2, <1>3, <1>4, CheckpointAssumption DEF PolicyInv, Writing
<1>9. done' <= step' /\ run' > 1
  BY <1>1, <1>2, <1>3, <1>4
<1>10. QED BY <1>5, <1>7, <1>8, <1>9 DEF Core
-----------------------------------------------------------------------------
(* The invariant of what a restart rests on *)

\* Nothing is on disk when the job begins.
LEMMA InitCore == Init => Core
<1> SUFFICES ASSUME Init PROVE Core
  OBVIOUS
<1>1. /\ run = 1 /\ step = 0 /\ done = 0
      /\ options \in [every : SaveSteps, max : MaxNums] /\ evaluated = 0
      /\ metric = [last |-> 0, best |-> 0] /\ job = [tag |-> NoTag, metric |-> 0]
      /\ dirs = [g \in Groups |-> [t \in {} |-> NoDir]] /\ older = [g \in Groups |-> {}]
      /\ latest = [g \in Groups |-> NoTag] /\ pc = [g \in Groups |-> "idle"]
      /\ victim = [g \in Groups |-> NoTag] /\ loaded = [g \in Groups |-> NoDir]
  BY DEF Init
<1>2. NoDir \in Contents
  BY DEF NoDir, Contents, Parts, None
<1>3. \A g \in Groups : DOMAIN dirs[g] = {} /\ DirsOK(dirs[g])
  BY <1>1, FS_EmptySet DEF DirsOK
<1>4. TypeOK
  <2>1. options \in [every : Nat, max : Nat \ {0}]
    BY <1>1, CheckpointAssumption
  <2>2. QED BY <1>1, <1>2, <1>3, <2>1 DEF TypeOK, Labels
<1>5. ASSUME NEW g \in Groups PROVE GroupInv(g)
  BY <1>1, <1>3 DEF GroupInv, OrderInv, Marked, VictimInv, SaveInv, Writing, Idle
<1>6. PolicyInv /\ done <= step
  BY <1>1, CheckpointAssumption DEF PolicyInv
<1>7. QED BY <1>4, <1>5, <1>6 DEF Core

\* Every step keeps it.
LEMMA StepCore == Core /\ [Next]_vars => Core'
<1> SUFFICES ASSUME Core, [Next]_vars PROVE Core'
  OBVIOUS
<1>1. CASE Train
  BY <1>1, TrainSound
<1>2. CASE \E m \in 1..MaxMetric : Evaluate(m)
  BY <1>2, EvaluateSound
<1>3. CASE \E g \in Groups : Save(g)
  BY <1>3, WritesSound, WriteMarkerSound, PickVictimSound, RemovePartSound, RemoveDirSound,
     PrunedSound DEF Save, Writes
<1>4. CASE Crash
  BY <1>4, CrashSound
<1>5. CASE UNCHANGED vars
  <2>1. /\ UNCHANGED <<options, run, step, evaluated, metric, dirs, older, latest, pc, job>>
        /\ UNCHANGED <<victim, loaded, done>>
    BY <1>5 DEF vars, trainVars, saveVars, diskVars, history
  <2>2. TypeOK'
    BY <2>1 DEF Core, TypeOK
  <2>3. \A g \in Groups : GroupInv(g)'
    BY <2>1 DEF Core, GroupInv, OrderInv, Marked, VictimInv, SaveInv, Here, Content, Idle
  <2>4. PolicyInv'
    BY <2>1 DEF Core, PolicyInv
  <2>5. QED BY <2>1, <2>2, <2>3, <2>4 DEF Core
<1>6. QED BY <1>1, <1>2, <1>3, <1>4, <1>5 DEF Next

\* Core is an invariant.
LEMMA CoreHolds == Spec => []Core
<1>1. QED BY InitCore, StepCore, PTL DEF Spec

\* Every variable that the properties speak of keeps its type.
THEOREM TypeCorrect == Spec => []TypeOK
<1>1. Core => TypeOK
  BY DEF Core
<1>2. QED BY <1>1, CoreHolds, PTL

\* A restart goes on from the last save that returned or from one begun since, in every
\* group, after any number of kills; and the policy, once it has a marker, loads one
\* complete save.
THEOREM RestartsResume == Spec => ResumesTheLastSave
<1>1. ASSUME Core, Crash
      PROVE  /\ \A g \in Groups : loaded'[g].extra[2] >= done
             /\ latest[Actor] # NoTag => Whole(loaded'[Actor])
  <2>1. ASSUME NEW g \in Groups PROVE loaded'[g].extra[2] >= done
    <3>1. done \in Nat
      BY <1>1 DEF Core, TypeOK
    <3>2. QED BY <1>1, <3>1, CrashIs
  <2>2. latest[Actor] # NoTag => Whole(loaded'[Actor])
    BY <1>1, CrashIs, CheckpointAssumption DEF Core, PolicyInv
  <2>3. QED BY <2>1, <2>2
<1>2. Core => [Crash => /\ \A g \in Groups : loaded'[g].extra[2] >= done
                        /\ latest[Actor] # NoTag => Whole(loaded'[Actor])]_vars
  BY <1>1
<1>3. QED BY <1>2, CoreHolds, PTL DEF ResumesTheLastSave
-----------------------------------------------------------------------------
(* All groups keep the same checkpoints *)

\* What is left of the old checkpoints and the new one is within the limit, and all but
\* the worst of the old.
LEMMA KeptIs ==
    ASSUME TypeOK, NEW B \in RegularSets, NEW M \in [B -> Nat],
           Cardinality(B) <= options.max, job.tag \in Tags, Regular(job.tag), job.tag \notin B
    PROVE  /\ Kept(B, M) \in RegularSets /\ Cardinality(Kept(B, M)) <= options.max
           /\ Cardinality(B \union {job.tag}) = Cardinality(B) + 1 /\ Cardinality(B) \in Nat
           /\ job.tag \in Kept(B, M) /\ Kept(B, M) \subseteq B \union {job.tag}
           /\ Cardinality(B) = options.max => /\ \E v \in B : Worst(B, M) = {v}
                                              /\ Kept(B, M) = (B \union {job.tag}) \ Worst(B, M)
           /\ Cardinality(B) < options.max => Kept(B, M) = B \union {job.tag}
<1> DEFINE A == B \union {job.tag}
<1>1. IsFiniteSet(B) /\ B \subseteq Tags /\ (\A t \in B : Regular(t)) /\ options.max \in Nat \ {0}
  BY DEF RegularSets, TypeOK
<1>2. IsFiniteSet(A) /\ Cardinality(A) = Cardinality(B) + 1 /\ Cardinality(B) \in Nat
  BY <1>1, FS_AddElement, FS_CardinalityType
<1>3. A \in RegularSets
  BY <1>1, <1>2 DEF RegularSets
<1>4. CASE Cardinality(B) < options.max
  <2>1. Kept(B, M) = A
    BY <1>4 DEF Kept
  <2> HIDE DEF A
  <2>2. Cardinality(Kept(B, M)) <= options.max
    BY <2>1, <1>1, <1>2, <1>4
  <2>3. QED BY <2>1, <2>2, <1>1, <1>2, <1>3, <1>4 DEF A
<1>5. CASE Cardinality(B) = options.max
  <2>1. B # {}
    BY <1>1, <1>5, FS_EmptySet
  <2>2. PICK v \in B : Worst(B, M) = {v}
    BY <2>1, WorstIsOne
  <2>3. Kept(B, M) = A \ {v}
    BY <1>1, <1>5, <2>2 DEF Kept
  <2>4. IsFiniteSet(A \ {v}) /\ Cardinality(A \ {v}) = Cardinality(A) - 1
    BY <1>2, FS_RemoveElement
  <2>5. Cardinality(Kept(B, M)) <= options.max
    BY <2>3, <2>4, <1>1, <1>2, <1>5
  <2>6. Kept(B, M) \in RegularSets
    BY <2>3, <2>4, <1>3 DEF RegularSets
  <2>7. QED BY <2>2, <2>3, <2>5, <2>6, <1>1, <1>2, <1>5
<1>6. QED BY <1>1, <1>2, <1>4, <1>5

\* The directory being saved is not one of those that were there before.
LEMMA JobIsNew ==
    ASSUME Core, NEW g \in Groups, pc[g] # "idle", NEW B \in RegularSets,
           NEW M \in [B -> Nat], Agree(B, M)
    PROVE  /\ ~Idle /\ job.tag \in Tags /\ job.tag[2] = step /\ step \in Nat
           /\ job.tag \notin B /\ GroupAgrees(g, B, M)
           /\ \A t \in B : Regular(t) /\ t \in Tags /\ t[2] \in Nat
           /\ Regular(job.tag) => \A t \in B : t[2] < step
<1>1. ~Idle /\ job.tag \in Tags /\ job.tag[2] = step /\ step \in Nat
  BY CoreParts
<1>2. \A t \in B : Regular(t) /\ t \in Tags /\ t[2] \in Nat
  BY TagFacts DEF RegularSets
<1>3. GroupAgrees(g, B, M) /\ (Regular(job.tag) => \A t \in B : t[2] < step)
  BY <1>1 DEF Agree
<1>4. job.tag \notin B
  BY <1>1, <1>2, <1>3
<1>5. QED BY <1>1, <1>2, <1>3, <1>4

\* While a save goes on, a step of one group is no matter to what the others have.
LEMMA AgreeInSave ==
    ASSUME NEW g \in Groups, NEW B \in RegularSets, NEW M \in [B -> Nat], Agree(B, M),
           \A h \in Groups \ {g} : /\ dirs'[h] = dirs[h] /\ older'[h] = older[h]
                                   /\ pc'[h] = pc[h] /\ victim'[h] = victim[h],
           UNCHANGED <<options, step, job>>, ~Idle, ~Idle', GroupAgrees(g, B, M)'
    PROVE  Agree(B, M)'
<1>1. ASSUME NEW h \in Groups \ {g} PROVE GroupAgrees(h, B, M)'
  <2>1. GroupAgrees(h, B, M) /\ RegularTags(h)' = RegularTags(h) /\ Here(h)' = Here(h)
        /\ Kept(B, M)' = Kept(B, M)
    BY DEF Agree, RegularTags, Here, Kept, Worst
  <2>2. Progress(h, B, M)'
    BY <2>1 DEF GroupAgrees, Progress, Worst
  <2>3. QED BY <2>1, <2>2 DEF GroupAgrees
<1>2. QED BY <1>1 DEF Agree

\* A group that writes has the old regular checkpoints and, once it has begun, the new
\* one, which is the youngest.
LEMMA WritesAgree ==
    ASSUME Core, NEW g \in Groups, Writes(g), NEW B \in RegularSets, NEW M \in [B -> Nat],
           Agree(B, M)
    PROVE  Agree(B, M)'
<1> DEFINE t == job.tag
<1>1. /\ TypeOK /\ GroupInv(g) /\ VictimInv(g) /\ DirsOK(dirs[g]) /\ OrderInv(g)
      /\ pc \in [Groups -> Labels]
  BY CoreParts
<1>2. /\ pc[g] \in Writing \ {"marker"} /\ job.tag \in Tags
      /\ pc' = [pc EXCEPT ![g] = pc'[g]] /\ pc'[g] \in Labels \ {"idle", "start"}
      /\ UNCHANGED <<trainVars, job, victim, latest, history>>
  BY <1>1, WritesAre
<1>3. PICK d \in Contents : Changes(g, job.tag, d) /\ Written(d, pc'[g])
  BY <1>1, WritesAre
<1>4. /\ \A h \in Groups \ {g} : dirs'[h] = dirs[h] /\ older'[h] = older[h]
      /\ OrderInv(g)'
      /\ DOMAIN dirs'[g] = DOMAIN dirs[g] \union {t} /\ dirs'[g][t] = d
      /\ \A s \in DOMAIN dirs[g] \ {t} : dirs'[g][s] = dirs[g][s]
      /\ \A s, u \in DOMAIN dirs[g] \ {t} : <<s, u>> \in older'[g] <=> <<s, u>> \in older[g]
      /\ (older' = older /\ t \in DOMAIN dirs[g])
         \/ \A s \in DOMAIN dirs[g] \ {t} : <<s, t>> \in older'[g] /\ <<t, s>> \notin older'[g]
  BY <1>1, <1>2, <1>3, ChangeIs
<1>5. /\ ~Idle /\ t[2] = step /\ step \in Nat /\ t \notin B /\ GroupAgrees(g, B, M)
      /\ \A s \in B : Regular(s) /\ s \in Tags /\ s[2] \in Nat
      /\ Regular(t) => \A s \in B : s[2] < step
  BY <1>2, JobIsNew DEF Writing
<1>6. /\ options' = options /\ step' = step /\ job' = job /\ victim' = victim
      /\ \A h \in Groups \ {g} : pc'[h] = pc[h]
      /\ pc' \in [Groups -> Labels] /\ ~Idle' /\ Here(g)' = d
  BY <1>1, <1>2, <1>4 DEF trainVars, Idle, Here
<1>7. victim[g] = NoTag
  BY <1>1, <1>2 DEF VictimInv, Writing
<1>8. RegularTags(g)' = IF Regular(t) THEN RegularTags(g) \union {t} ELSE RegularTags(g)
  <2>1. RegularTags(g)' = {s \in DOMAIN dirs'[g] : Regular(s)}
    BY DEF RegularTags
  <2>2. CASE Regular(t)
    BY <2>1, <2>2, <1>4 DEF RegularTags
  <2>3. CASE ~Regular(t)
    BY <2>1, <2>3, <1>4 DEF RegularTags
  <2>4. QED BY <2>2, <2>3
<1>9. Regular(t) => /\ pc'[g] \in Writing \ {"start"} /\ RegularTags(g)' = B \union {t}
                    /\ (pc[g] = "start" => RegularTags(g) = B)
                    /\ (pc[g] # "start" => RegularTags(g) = B \union {t})
  <2> SUFFICES ASSUME Regular(t)
               PROVE  /\ pc'[g] \in Writing \ {"start"} /\ RegularTags(g)' = B \union {t}
                      /\ (pc[g] = "start" => RegularTags(g) = B)
                      /\ (pc[g] # "start" => RegularTags(g) = B \union {t})
    OBVIOUS
  <2>1. pc'[g] # "prune"
    BY <1>2, <1>3, TagFacts DEF Written
  <2>2. /\ pc[g] = "start" => RegularTags(g) = B
        /\ pc[g] # "start" => RegularTags(g) = B \union {t}
    BY <1>2, <1>5 DEF GroupAgrees, Progress
  <2>3. QED BY <2>1, <2>2, <1>2, <1>8 DEF Labels, Writing
<1>10. ~Regular(t) => Best(t) /\ RegularTags(g) = B /\ RegularTags(g)' = B
  BY <1>2, <1>5, <1>8, TagFacts DEF GroupAgrees, Progress
<1>11. Progress(g, B, M)'
  <2>1. CASE Regular(t)
    <3>1. ~Best(t) /\ (pc'[g] = "marker" => d.metric = job.metric)
      BY <2>1, <1>2, <1>3, TagFacts DEF Written
    <3>2. pc'[g] \notin {"start", "prune", "idle"}
          /\ (pc'[g] \notin Writing \ {"marker"} => pc'[g] = "marker")
      BY <2>1, <1>9 DEF Writing
    <3>3. QED BY <2>1, <3>1, <3>2, <1>6, <1>9 DEF Progress
  <2>2. CASE ~Regular(t)
    BY <2>2, <1>6, <1>7, <1>10 DEF Progress
  <2>3. QED BY <2>1, <2>2
<1>12. \A s \in B \intersect DOMAIN dirs'[g] : s # victim'[g] => dirs'[g][s].metric = M[s]
  BY <1>4, <1>5, <1>6 DEF GroupAgrees
<1>13. ASSUME NEW s \in RegularTags(g)', NEW u \in RegularTags(g)'
       PROVE  <<s, u>> \in older'[g] <=> s[2] < u[2]
  <2>1. \A x, y \in RegularTags(g) : <<x, y>> \in older[g] <=> x[2] < y[2]
    <3>1. \A x \in RegularTags(g) : x # NoTag
      BY <1>1, TagFacts DEF RegularTags, DirsOK
    <3>2. QED BY <3>1, <1>5, <1>7 DEF GroupAgrees
  <2>2. CASE s # t /\ u # t
    <3>1. s \in RegularTags(g) /\ u \in RegularTags(g)
      BY <2>2, <1>8, <1>13
    <3>2. s \in DOMAIN dirs[g] \ {t} /\ u \in DOMAIN dirs[g] \ {t}
      BY <3>1, <2>2 DEF RegularTags
    <3>3. QED BY <3>1, <3>2, <2>1, <1>4
  <2>3. CASE s = t /\ u = t
    <3>1. <<t, t>> \notin older'[g]
      BY <1>4 DEF OrderInv
    <3>2. QED BY <2>3, <3>1, <1>5
  <2>4. CASE (s = t) # (u = t)
    <3>1. Regular(t)
      BY <2>4, <1>10, <1>13, <1>5
    <3>2. RegularTags(g)' = B \union {t} /\ \A x \in B : x[2] < t[2] /\ x[2] \in Nat
      BY <3>1, <1>5, <1>9
    <3>3. CASE older' = older /\ t \in DOMAIN dirs[g]
      <4>1. s \in RegularTags(g) /\ u \in RegularTags(g)
        BY <3>1, <3>3, <1>8, <1>13 DEF RegularTags
      <4>2. QED BY <4>1, <3>3, <2>1
    <3>4. CASE \A x \in DOMAIN dirs[g] \ {t} : <<x, t>> \in older'[g] /\ <<t, x>> \notin older'[g]
      <4>1. \A x \in B : x \in DOMAIN dirs[g] \ {t}
        BY <3>1, <1>5, <1>9 DEF RegularTags
      <4>2. \A x \in B : <<x, t>> \in older'[g] /\ <<t, x>> \notin older'[g] /\ ~(t[2] < x[2])
        BY <4>1, <3>2, <3>4, <1>5
      <4>3. CASE s = t /\ u \in B
        BY <4>2, <4>3
      <4>4. CASE u = t /\ s \in B
        BY <4>2, <4>4, <3>2
      <4>5. QED BY <4>3, <4>4, <2>4, <3>2, <1>13
    <3>5. QED BY <3>3, <3>4, <1>4
  <2>5. QED BY <2>2, <2>3, <2>4
<1>14. GroupAgrees(g, B, M)'
  BY <1>11, <1>12, <1>13 DEF GroupAgrees
<1>15. QED BY <1>4, <1>5, <1>6, <1>14, AgreeInSave
\* The marker is no matter to what is kept.
LEMMA WriteMarkerAgree ==
    ASSUME Core, NEW g \in Groups, WriteMarker(g), NEW B \in RegularSets,
           NEW M \in [B -> Nat], Agree(B, M)
    PROVE  Agree(B, M)'
<1>1. /\ pc[g] = "marker" /\ pc' = [pc EXCEPT ![g] = "prune"]
      /\ UNCHANGED <<trainVars, job, victim, dirs, older, history>>
  BY DEF WriteMarker, Goto
<1>2. VictimInv(g) /\ SaveInv(g) /\ pc \in [Groups -> Labels]
  BY CoreParts
<1>3. ~Idle /\ job.tag \in Tags /\ GroupAgrees(g, B, M)
  BY <1>1, JobIsNew
<1>4. /\ victim[g] = NoTag /\ Regular(job.tag) /\ ~Best(job.tag)
  BY <1>1, <1>2, <1>3, TagFacts DEF VictimInv, SaveInv
<1>5. /\ pc'[g] = "prune" /\ (\A h \in Groups \ {g} : pc'[h] = pc[h]) /\ ~Idle'
      /\ options' = options /\ step' = step /\ job' = job /\ dirs' = dirs
      /\ older' = older /\ victim' = victim
  BY <1>1, <1>2 DEF trainVars, Idle
<1>6. RegularTags(g) = B \union {job.tag} /\ Here(g).metric = job.metric
  BY <1>1, <1>3, <1>4 DEF GroupAgrees, Progress, Writing
<1>7. RegularTags(g)' = RegularTags(g) /\ Here(g)' = Here(g)
  BY <1>5 DEF RegularTags, Here
<1>8. Progress(g, B, M)'
  BY <1>4, <1>5, <1>6, <1>7 DEF Progress, Writing
<1>9. GroupAgrees(g, B, M)'
  BY <1>3, <1>5, <1>7, <1>8 DEF GroupAgrees
<1>10. QED BY <1>3, <1>5, <1>9, AgreeInSave

\* Every group finds the same checkpoint to remove, or none.
LEMMA VictimsAgree ==
    ASSUME Core, NEW g \in Groups, pc[g] = "prune", victim[g] = NoTag, Regular(job.tag),
           NEW B \in RegularSets, NEW M \in [B -> Nat], Agree(B, M)
    PROVE  /\ Victims(g) = {} => RegularTags(g) = Kept(B, M)
           /\ Victims(g) # {} => /\ RegularTags(g) = B \union {job.tag}
                                 /\ Cardinality(B) = options.max
                                 /\ Victims(g) = Worst(B, M)
<1> DEFINE R == RegularTags(g)
<1>1. /\ TypeOK /\ DirsOK(dirs[g]) /\ options.max \in Nat \ {0}
  BY CoreParts, Types
<1>2. /\ ~Idle /\ job.tag \in Tags /\ job.tag \notin B /\ GroupAgrees(g, B, M)
      /\ Cardinality(B) <= options.max
  BY JobIsNew DEF Agree
<1>3. /\ Kept(B, M) \in RegularSets /\ Cardinality(Kept(B, M)) <= options.max
      /\ Cardinality(B \union {job.tag}) = Cardinality(B) + 1 /\ Cardinality(B) \in Nat
      /\ Cardinality(B) = options.max => \E v \in B : Worst(B, M) = {v}
      /\ Cardinality(B) < options.max => Kept(B, M) = B \union {job.tag}
  BY <1>1, <1>2, KeptIs
<1>4. R \in {B \union {job.tag}, Kept(B, M)}
  BY <1>2 DEF GroupAgrees, Progress
<1>5. Victims(g) = IF Cardinality(R) <= options.max THEN {}
                   ELSE {t \in R \ {job.tag} : \A s \in R \ {job.tag} : ~Worse(g, s, t)}
  BY <1>2, TagFacts DEF Victims
<1>6. CASE R = Kept(B, M)
  BY <1>3, <1>5, <1>6
<1>7. CASE R = B \union {job.tag} /\ Cardinality(B) < options.max
  BY <1>3, <1>5, <1>7
<1>8. CASE R = B \union {job.tag} /\ Cardinality(B) = options.max
  <2>1. ~(Cardinality(R) <= options.max) /\ R \ {job.tag} = B
    BY <1>1, <1>2, <1>3, <1>8
  <2>2. ASSUME NEW s \in B, NEW t \in B
        PROVE  Worse(g, s, t) <=> M[s] < M[t] \/ (M[s] = M[t] /\ s[2] < t[2])
    <3>1. s \in R /\ t \in R /\ s # NoTag /\ t # NoTag
      BY <1>8, TagFacts DEF RegularSets
    <3>2. s \in DOMAIN dirs[g] /\ t \in DOMAIN dirs[g]
      BY <3>1 DEF RegularTags
    <3>3. dirs[g][s].metric = M[s] /\ dirs[g][t].metric = M[t]
          /\ (<<s, t>> \in older[g] <=> s[2] < t[2])
      BY <3>1, <3>2, <1>2 DEF GroupAgrees
    <3>4. QED BY <3>3 DEF Worse
  <2>3. Victims(g) = Worst(B, M)
    BY <1>5, <2>1, <2>2 DEF Worst
  <2>4. QED BY <1>3, <1>8, <2>3
<1>9. Cardinality(B) < options.max \/ Cardinality(B) = options.max
  BY <1>1, <1>2, <1>3
<1>10. QED BY <1>4, <1>6, <1>7, <1>8, <1>9

\* Choosing a victim.
LEMMA PickVictimAgree ==
    ASSUME Core, NEW g \in Groups, PickVictim(g), NEW B \in RegularSets,
           NEW M \in [B -> Nat], Agree(B, M)
    PROVE  Agree(B, M)'
<1>1. PICK t \in Victims(g) : victim' = [victim EXCEPT ![g] = t]
  BY DEF PickVictim
<1>2. /\ pc[g] = "prune" /\ victim[g] = NoTag
      /\ UNCHANGED <<trainVars, pc, job, diskVars, history>>
  BY DEF PickVictim
<1>3. ~Idle /\ job.tag \in Tags /\ GroupAgrees(g, B, M)
  BY <1>2, JobIsNew
<1>4. victim \in [Groups -> Tags \union {NoTag}] /\ DirsOK(dirs[g])
  BY CoreParts
<1>5. /\ victim'[g] = t /\ (\A h \in Groups \ {g} : victim'[h] = victim[h])
      /\ options' = options /\ step' = step /\ job' = job /\ dirs' = dirs
      /\ older' = older /\ pc' = pc /\ ~Idle'
  BY <1>1, <1>2, <1>3, <1>4 DEF trainVars, diskVars, Idle
<1>6. RegularTags(g)' = RegularTags(g) /\ Here(g)' = Here(g) /\ Worst(B, M)' = Worst(B, M)
  BY <1>5 DEF RegularTags, Here, Worst
<1>7. Progress(g, B, M)'
  <2>1. CASE Regular(job.tag)
    <3>1. ~Best(job.tag) /\ Here(g).metric = job.metric
      BY <2>1, <1>2, <1>3, TagFacts DEF GroupAgrees, Progress, Writing
    <3>2. /\ RegularTags(g) = B \union {job.tag} /\ Cardinality(B) = options.max
          /\ t \in Worst(B, M)
      BY <2>1, <1>1, <1>2, VictimsAgree
    <3>3. t # NoTag
      BY <3>2, TagFacts DEF RegularSets, Worst
    <3>4. QED BY <2>1, <3>1, <3>2, <3>3, <1>2, <1>5, <1>6 DEF Progress, Writing
  <2>2. CASE Best(job.tag)
    <3>1. RegularTags(g) = B /\ ~Regular(job.tag) /\ Best(t)
      BY <2>2, <1>3, TagFacts DEF GroupAgrees, Progress, Victims
    <3>2. QED BY <2>2, <3>1, <1>5, <1>6 DEF Progress
  <2>3. QED BY <2>1, <2>2, <1>3, TagFacts
<1>8. \A s \in B : s # NoTag
  BY TagFacts DEF RegularSets
<1>9. \A s \in RegularTags(g) : s # NoTag
  BY <1>4, TagFacts DEF RegularTags, DirsOK
<1>10. GroupAgrees(g, B, M)'
  BY <1>2, <1>3, <1>5, <1>6, <1>7, <1>8, <1>9 DEF GroupAgrees
<1>11. QED BY <1>3, <1>5, <1>10, AgreeInSave

\* What removal changes before the directory is gone is of the victim only.
LEMMA RemovePartAgree ==
    ASSUME Core, NEW g \in Groups, RemovePart(g), NEW B \in RegularSets,
           NEW M \in [B -> Nat], Agree(B, M)
    PROVE  Agree(B, M)'
<1> DEFINE t == victim[g]
<1>1. /\ pc[g] = "prune" /\ t \in DOMAIN dirs[g] /\ t \in Tags /\ t # job.tag
      /\ UNCHANGED <<trainVars, pc, job, victim, latest, history>>
  BY RemovePartIs
<1>2. PICK d \in Contents : Changes(g, t, d)
  BY RemovePartIs
<1>3. TypeOK /\ OrderInv(g) /\ SaveInv(g)
  BY CoreParts
<1>4. /\ \A h \in Groups \ {g} : dirs'[h] = dirs[h] /\ older'[h] = older[h]
      /\ DOMAIN dirs'[g] = DOMAIN dirs[g] \union {t}
      /\ \A s \in DOMAIN dirs[g] \ {t} : dirs'[g][s] = dirs[g][s]
      /\ \A s, u \in DOMAIN dirs[g] \ {t} : <<s, u>> \in older'[g] <=> <<s, u>> \in older[g]
  BY <1>1, <1>2, <1>3, ChangeIs
<1>5. ~Idle /\ job.tag \in Tags /\ GroupAgrees(g, B, M)
  BY <1>1, JobIsNew
<1>6. /\ options' = options /\ step' = step /\ job' = job /\ pc' = pc /\ victim' = victim
      /\ ~Idle'
  BY <1>1, <1>5 DEF trainVars, Idle
<1>7. RegularTags(g)' = RegularTags(g) /\ Here(g)' = Here(g) /\ Worst(B, M)' = Worst(B, M)
  <2>1. DOMAIN dirs'[g] = DOMAIN dirs[g] /\ job.tag \in DOMAIN dirs[g] \ {t}
    BY <1>1, <1>3, <1>4 DEF SaveInv
  <2>2. QED BY <2>1, <1>4, <1>6 DEF RegularTags, Here, Worst
<1>8. Progress(g, B, M)'
  BY <1>1, <1>5, <1>6, <1>7, TagFacts DEF GroupAgrees, Progress, Writing
<1>9. \A s \in B \intersect DOMAIN dirs'[g] : s # victim'[g] => dirs'[g][s].metric = M[s]
  BY <1>4, <1>5, <1>6 DEF GroupAgrees
<1>10. \A s, u \in RegularTags(g) \ {t} : <<s, u>> \in older'[g] <=> s[2] < u[2]
  BY <1>4, <1>5 DEF GroupAgrees, RegularTags
<1>11. GroupAgrees(g, B, M)'
  BY <1>6, <1>7, <1>8, <1>9, <1>10 DEF GroupAgrees
<1>12. QED BY <1>4, <1>5, <1>6, <1>11, AgreeInSave

\* And then the group has what is to be kept.
LEMMA RemoveDirAgree ==
    ASSUME Core, NEW g \in Groups, RemoveDir(g), NEW B \in RegularSets,
           NEW M \in [B -> Nat], Agree(B, M)
    PROVE  Agree(B, M)'
<1> DEFINE t == victim[g]
<1>1. /\ pc[g] = "prune" /\ t \in Tags /\ t # job.tag
      /\ UNCHANGED <<trainVars, pc, job, latest, history>>
      /\ victim'[g] = NoTag
      /\ \A h \in Groups \ {g} : /\ dirs'[h] = dirs[h] /\ older'[h] = older[h]
                                 /\ victim'[h] = victim[h]
      /\ DOMAIN dirs'[g] = DOMAIN dirs[g] \ {t}
      /\ \A s \in DOMAIN dirs'[g] : dirs'[g][s] = dirs[g][s]
      /\ older'[g] = Without(older[g], t)
  BY RemoveDirIs
<1>2. ~Idle /\ job.tag \in Tags /\ GroupAgrees(g, B, M) /\ job.tag \notin B
      /\ Cardinality(B) <= options.max
  BY <1>1, JobIsNew DEF Agree
<1>3. /\ options' = options /\ step' = step /\ job' = job /\ pc' = pc /\ ~Idle'
  BY <1>1, <1>2 DEF trainVars, Idle
<1>4. t # NoTag /\ TypeOK /\ SaveInv(g)
  BY <1>1, CoreParts, TagFacts
<1>5. RegularTags(g)' = RegularTags(g) \ {t}
  BY <1>1 DEF RegularTags
<1>6. Progress(g, B, M)'
  <2>1. CASE Regular(job.tag)
    <3>1. /\ RegularTags(g) = B \union {job.tag} /\ Cardinality(B) = options.max
          /\ t \in Worst(B, M) /\ Here(g).metric = job.metric /\ ~Best(job.tag)
      BY <2>1, <1>1, <1>2, <1>4, TagFacts DEF GroupAgrees, Progress, Writing
    <3>2. /\ \E v \in B : Worst(B, M) = {v}
          /\ Kept(B, M) = (B \union {job.tag}) \ Worst(B, M)
      BY <2>1, <3>1, <1>2, <1>4, KeptIs
    <3>3. RegularTags(g)' = Kept(B, M)
      BY <3>1, <3>2, <1>5
    <3>4. Kept(B, M)' = Kept(B, M)
      BY <1>3 DEF Kept, Worst
    <3>5. job.tag \in DOMAIN dirs'[g]
      BY <1>1, <1>4 DEF SaveInv
    <3>6. Here(g)' = Here(g)
      BY <3>5, <1>1, <1>3 DEF Here
    <3>7. QED BY <2>1, <3>1, <3>3, <3>4, <3>6, <1>1, <1>3 DEF Progress, Writing
  <2>2. CASE Best(job.tag)
    <3>1. RegularTags(g) = B /\ Best(t) /\ ~Regular(job.tag)
      BY <2>2, <1>2, <1>4, TagFacts DEF GroupAgrees, Progress
    <3>2. RegularTags(g)' = B
      BY <3>1, <1>1, <1>5, TagFacts DEF RegularTags
    <3>3. QED BY <2>2, <3>1, <3>2, <1>1, <1>3 DEF Progress
  <2>3. QED BY <2>1, <2>2, <1>2, TagFacts
<1>7. \A s \in B \intersect DOMAIN dirs'[g] : dirs'[g][s].metric = M[s]
  BY <1>1, <1>2 DEF GroupAgrees
<1>8. \A s, u \in RegularTags(g)' : <<s, u>> \in older'[g] <=> s[2] < u[2]
  BY <1>1, <1>2, <1>5 DEF GroupAgrees, Without
<1>9. GroupAgrees(g, B, M)'
  BY <1>6, <1>7, <1>8 DEF GroupAgrees
<1>10. QED BY <1>1, <1>2, <1>3, <1>9, AgreeInSave
\* A group that is done has the checkpoints to be kept; when the last one is, all have
\* the same.
LEMMA PrunedAgree ==
    ASSUME Core, NEW g \in Groups, Pruned(g), NEW B \in RegularSets, NEW M \in [B -> Nat],
           Agree(B, M)
    PROVE  \E C \in RegularSets : \E N \in [C -> Nat] : Agree(C, N)'
<1>1. /\ pc[g] = "prune" /\ victim[g] = NoTag /\ pc' = [pc EXCEPT ![g] = "idle"]
      /\ Victims(g) = {} /\ UNCHANGED <<trainVars, job, victim, diskVars, loaded>>
  BY DEF Pruned, Goto
<1>2. /\ TypeOK /\ pc \in [Groups -> Labels] /\ job.metric \in Nat
      /\ \A h \in Groups : VictimInv(h) /\ DirsOK(dirs[h])
  BY CoreParts, Types
<1>3. /\ ~Idle /\ job.tag \in Tags /\ GroupAgrees(g, B, M) /\ job.tag \notin B
      /\ Cardinality(B) <= options.max /\ job.tag[2] = step /\ step \in Nat
      /\ \A t \in B : Regular(t) /\ t \in Tags /\ t[2] \in Nat
      /\ \A t \in B : t[2] <= step /\ (Regular(job.tag) => t[2] < step)
      /\ \A h \in Groups : GroupAgrees(h, B, M)
  BY <1>1, JobIsNew DEF Agree
<1>4. /\ pc'[g] = "idle" /\ (\A h \in Groups \ {g} : pc'[h] = pc[h])
      /\ options' = options /\ step' = step /\ job' = job /\ dirs' = dirs
      /\ older' = older /\ victim' = victim
  BY <1>1, <1>2 DEF trainVars, diskVars
<1>5. /\ \A h \in Groups : RegularTags(h)' = RegularTags(h) /\ Here(h)' = Here(h)
      /\ Kept(B, M)' = Kept(B, M)
  BY <1>4 DEF RegularTags, Here, Kept, Worst
<1>6. Regular(job.tag) => /\ RegularTags(g) = Kept(B, M) /\ Here(g).metric = job.metric
                          /\ ~Best(job.tag)
  BY <1>1, <1>3, VictimsAgree, TagFacts DEF GroupAgrees, Progress, Writing
<1>7. Best(job.tag) => /\ \A h \in Groups : RegularTags(h) = B
                       /\ ~Regular(job.tag)
  BY <1>3, TagFacts DEF GroupAgrees, Progress
<1>8. CASE ~Idle'
  <2>1. Progress(g, B, M)'
    <3>1. CASE Regular(job.tag)
      BY <3>1, <1>4, <1>5, <1>6, <1>8 DEF Progress, Writing
    <3>2. CASE Best(job.tag)
      BY <3>2, <1>1, <1>4, <1>5, <1>7, <1>8 DEF Progress, Writing
    <3>3. QED BY <3>1, <3>2, <1>3, TagFacts
  <2>2. GroupAgrees(g, B, M)'
    BY <2>1, <1>3, <1>4, <1>5 DEF GroupAgrees
  <2>3. Agree(B, M)'
    BY <2>2, <1>3, <1>4, <1>8, AgreeInSave
  <2>4. QED BY <2>3
<1>9. CASE Idle'
  <2>1. \A h \in Groups : victim[h] = NoTag
    BY <1>1, <1>2, <1>4, <1>9 DEF VictimInv, Idle
  <2>2. CASE Best(job.tag)
    <3>1. ASSUME NEW h \in Groups PROVE GroupAgrees(h, B, M)'
      <4>1. Progress(h, B, M)'
        BY <2>1, <2>2, <1>4, <1>5, <1>7, <1>9 DEF Progress
      <4>2. QED BY <4>1, <1>3, <1>4, <1>5 DEF GroupAgrees
    <3>2. Agree(B, M)'
      BY <3>1, <1>3, <1>4, <1>9 DEF Agree
    <3>3. QED BY <3>2
  <2>3. CASE Regular(job.tag)
    <3>0. PICK C : C = Kept(B, M)
      OBVIOUS
    <3>1. /\ C \in RegularSets /\ Cardinality(C) <= options.max
          /\ C \subseteq B \union {job.tag}
      BY <3>0, <2>3, <1>2, <1>3, KeptIs
    <3>2. PICK N : N = [t \in C |-> IF t = job.tag THEN job.metric ELSE M[t]]
      OBVIOUS
    <3>3. \A h \in Groups : RegularTags(h) = C /\ Here(h).metric = job.metric
      <4>1. ASSUME NEW h \in Groups \ {g}
            PROVE  RegularTags(h) = C /\ Here(h).metric = job.metric
        <5>1. pc[h] = "idle"
          BY <1>4, <1>9 DEF Idle
        <5>2. QED BY <5>1, <3>0, <2>3, <1>3 DEF GroupAgrees, Progress, Writing
      <4>2. QED BY <4>1, <3>0, <2>3, <1>6
    <3>4. N \in [C -> Nat] /\ \A t \in C : N[t] = IF t = job.tag THEN job.metric ELSE M[t]
      BY <3>1, <3>2, <1>2
    <3>5. ASSUME NEW h \in Groups PROVE GroupAgrees(h, C, N)'
      <4>1. Progress(h, C, N)'
        BY <2>1, <2>3, <3>3, <1>4, <1>5, <1>6, <1>9 DEF Progress
      <4>2. ASSUME NEW t \in C, t \in DOMAIN dirs[h]
            PROVE  dirs[h][t].metric = N[t]
        <5>1. CASE t = job.tag
          BY <5>1, <3>3, <3>4 DEF Here
        <5>2. CASE t # job.tag
          <6>1. t \in B /\ t # NoTag
            BY <5>2, <3>1, <1>3, TagFacts
          <6>2. QED BY <5>2, <6>1, <4>2, <2>1, <3>4, <1>3 DEF GroupAgrees
        <5>3. QED BY <5>1, <5>2
      <4>3. QED BY <4>1, <4>2, <1>3, <1>4, <1>5 DEF GroupAgrees
    <3>6. \A t \in C : t[2] <= step
      BY <3>1, <1>3
    <3>7. Agree(C, N)'
      BY <3>1, <3>5, <3>6, <1>4, <1>9 DEF Agree
    <3>8. QED BY <3>1, <3>4, <3>7
  <2>4. QED BY <2>2, <2>3, <1>3, TagFacts
<1>10. QED BY <1>8, <1>9

\* A save begins with what all groups have between saves.
LEMMA BeginAgree ==
    ASSUME Core, Idle, step' \in {step, step + 1},
           UNCHANGED <<options, victim, diskVars>>,
           UNCHANGED <<job, pc>> \/ /\ pc' = [h \in Groups |-> "start"]
                                    /\ job'.tag \in Tags
                                    /\ Regular(job'.tag) => step' = step + 1,
           NEW B \in RegularSets, NEW M \in [B -> Nat], Agree(B, M)
    PROVE  Agree(B, M)'
<1>1. /\ step \in Nat /\ (\A h \in Groups : VictimInv(h)) /\ Actor \in Groups
  BY CoreParts, CheckpointAssumption
<1>2. /\ \A t \in B : t[2] <= step /\ t[2] \in Nat
      /\ Cardinality(B) <= options.max
      /\ \A h \in Groups : GroupAgrees(h, B, M)
  BY TagFacts DEF Agree, RegularSets
<1>3. \A h \in Groups : pc[h] = "idle" /\ victim[h] = NoTag /\ RegularTags(h) = B
  BY <1>1, <1>2 DEF Idle, VictimInv, GroupAgrees, Progress
<1>4. /\ dirs' = dirs /\ older' = older /\ victim' = victim /\ options' = options
      /\ \A h \in Groups : RegularTags(h)' = RegularTags(h)
  BY DEF diskVars, RegularTags
<1>5. ASSUME NEW h \in Groups PROVE GroupAgrees(h, B, M)'
  <2>1. Progress(h, B, M)'
    <3>1. CASE UNCHANGED <<job, pc>>
      <4>1. Idle'
        BY <3>1 DEF Idle
      <4>2. QED BY <4>1, <1>3, <1>4 DEF Progress
    <3>2. CASE pc' = [i \in Groups |-> "start"]
      <4>1. pc'[h] = "start"
        BY <3>2
      <4>2. QED BY <4>1, <1>3, <1>4 DEF Progress, Writing
    <3>3. QED BY <3>1, <3>2
  <2>2. QED BY <2>1, <1>2, <1>3, <1>4 DEF GroupAgrees
<1>6. \A t \in B : t[2] <= step' /\ (~Idle' /\ Regular(job'.tag) => t[2] < step')
  <2>1. CASE UNCHANGED <<job, pc>>
    <3>1. Idle'
      BY <2>1 DEF Idle
    <3>2. QED BY <3>1, <1>1, <1>2
  <2>2. CASE Regular(job'.tag) => step' = step + 1
    BY <2>2, <1>1, <1>2
  <2>3. QED BY <2>1, <2>2
<1>7. QED BY <1>2, <1>4, <1>5, <1>6 DEF Agree

\* Every step keeps what is said of retention; after a kill nothing is.
LEMMA StepRetention == IInv /\ [Next]_vars => RetentionInv'
<1> SUFFICES ASSUME IInv, [Next]_vars, run' = 1
             PROVE  \E C \in RegularSets : \E N \in [C -> Nat] : Agree(C, N)'
  BY DEF RetentionInv
<1>1. Core /\ TypeOK /\ step \in Nat /\ run \in Nat \ {0}
  BY DEF IInv, Core, TypeOK
<1>2. ~Crash
  BY <1>1, CrashSound
<1>3. run = 1
  BY <1>1, <1>2
     DEF Next, Train, Evaluate, Save, StartModel, StartOptim, EndOptim, WriteExtra, WriteMetric,
         WriteMarker, PickVictim, RemovePart, RemoveDir, Pruned, vars, trainVars
<1>4. PICK B \in RegularSets : \E M \in [B -> Nat] : Agree(B, M)
  BY <1>3 DEF IInv, RetentionInv
<1>5. PICK M \in [B -> Nat] : Agree(B, M)
  BY <1>4
<1>6. ASSUME Agree(B, M)'
      PROVE  \E C \in RegularSets : \E N \in [C -> Nat] : Agree(C, N)'
  BY <1>6
<1>7. CASE Train
  <2>1. /\ Idle /\ step' = step + 1 /\ UNCHANGED <<options, victim, diskVars>>
        /\ \/ UNCHANGED <<job, pc>>
           \/ BeginSave(<<"global_step", step'>>, IF Due(step') THEN metric.last ELSE 0)
    BY <1>7 DEF Train
  <2>2. step' \in Nat
    BY <2>1, <1>1
  <2>3. <<"global_step", step'>> \in Tags
    BY <2>2, TagFacts
  <2>4. UNCHANGED <<job, pc>> \/ (pc' = [h \in Groups |-> "start"] /\ job'.tag \in Tags)
    BY <2>1, <2>3 DEF BeginSave
  <2>5. Agree(B, M)'
    BY <2>1, <2>4, <1>1, <1>5, BeginAgree
  <2>6. QED BY <2>5, <1>6
<1>8. CASE \E m \in 1..MaxMetric : Evaluate(m)
  <2>1. PICK m \in 1..MaxMetric : Evaluate(m)
    BY <1>8
  <2>2. /\ Idle /\ step' = step /\ UNCHANGED <<options, victim, diskVars>>
        /\ UNCHANGED <<job, pc>> \/ BeginSave(<<"best_global_step", step>>, m)
    BY <2>1 DEF Evaluate
  <2>3. <<"best_global_step", step>> \in Tags /\ ~Regular(<<"best_global_step", step>>)
    BY <1>1, TagFacts
  <2>4. UNCHANGED <<job, pc>> \/ /\ pc' = [h \in Groups |-> "start"]
                                 /\ job'.tag \in Tags /\ ~Regular(job'.tag)
    BY <2>2, <2>3 DEF BeginSave
  <2>5. Agree(B, M)'
    BY <2>2, <2>4, <1>1, <1>5, BeginAgree
  <2>6. QED BY <2>5, <1>6
<1>9. CASE \E g \in Groups : Save(g)
  <2>1. PICK g \in Groups : Save(g)
    BY <1>9
  <2>2. CASE Pruned(g)
    BY <2>2, <1>1, <1>5, PrunedAgree
  <2>3. CASE ~Pruned(g)
    <3>1. Agree(B, M)'
      BY <2>1, <2>3, <1>1, <1>5, WritesAgree, WriteMarkerAgree, PickVictimAgree, RemovePartAgree,
         RemoveDirAgree DEF Save, Writes
    <3>2. QED BY <3>1, <1>6
  <2>4. QED BY <2>2, <2>3
<1>10. CASE UNCHANGED vars
  <2>1. UNCHANGED <<options, step, dirs, older, pc, job, victim>>
    BY <1>10 DEF vars, trainVars, saveVars, diskVars
  <2>2. Agree(B, M)'
    BY <2>1, <1>5 DEF Agree, GroupAgrees, Progress, RegularTags, Here, Kept, Worst, Idle
  <2>3. QED BY <2>2, <1>6
<1>11. QED BY <1>2, <1>7, <1>8, <1>9, <1>10 DEF Next

\* When the job begins no group has a checkpoint.
LEMMA InitRetention == Init => RetentionInv
<1> SUFFICES ASSUME Init PROVE \E B \in RegularSets : \E M \in [B -> Nat] : Agree(B, M)
  BY DEF RetentionInv
<1>1. /\ step = 0 /\ options \in [every : SaveSteps, max : MaxNums]
      /\ dirs = [g \in Groups |-> [t \in {} |-> NoDir]]
      /\ pc = [g \in Groups |-> "idle"] /\ victim = [g \in Groups |-> NoTag]
  BY DEF Init
<1>2. IsFiniteSet({}) /\ Cardinality({}) = 0 /\ options.max \in Nat
  BY <1>1, FS_EmptySet, CheckpointAssumption
<1>3. {} \in RegularSets
  BY <1>2 DEF RegularSets
<1> DEFINE N == [t \in {} |-> 0]
<1>4. N \in [{} -> Nat]
  OBVIOUS
<1> HIDE DEF N
<1>5. ASSUME NEW g \in Groups PROVE GroupAgrees(g, {}, N)
  <2>1. RegularTags(g) = {}
    BY <1>1 DEF RegularTags
  <2>2. Idle /\ victim[g] = NoTag
    BY <1>1 DEF Idle
  <2>3. QED BY <2>1, <2>2 DEF GroupAgrees, Progress
<1>6. Agree({}, N)
  BY <1>2, <1>5 DEF Agree
<1>7. QED BY <1>3, <1>4, <1>6

\* The inductive invariant.
THEOREM InvariantHolds == Spec => []IInv
<1>1. Init => IInv
  BY InitCore, InitRetention DEF IInv
<1>2. IInv /\ [Next]_vars => IInv'
  BY StepCore, StepRetention DEF IInv
<1>3. QED BY <1>1, <1>2, PTL DEF Spec

\* Between saves every group keeps at most max_num regular checkpoints, with the one its
\* marker names, and until the first kill all groups keep the same.
THEOREM CheckpointsAreKept == Spec => []Retention
<1>1. IInv => Retention
  <2> SUFFICES ASSUME IInv, Idle, run = 1, NEW g \in Groups, NEW h \in Groups
               PROVE  /\ Cardinality(RegularTags(g)) <= options.max
                      /\ latest[g] # NoTag => latest[g] \in Candidates(g)
                      /\ RegularTags(g) = RegularTags(h)
    BY DEF Retention
  <2>1. PICK B \in RegularSets : \E M \in [B -> Nat] : Agree(B, M)
    BY DEF IInv, RetentionInv
  <2>2. RegularTags(g) = B /\ RegularTags(h) = B /\ Cardinality(B) <= options.max
    BY <2>1 DEF Agree, GroupAgrees, Progress
  <2>3. latest[g] # NoTag => latest[g] \in Candidates(g)
    BY DEF IInv, Core, GroupInv, Marked, Candidates
  <2>4. QED BY <2>2, <2>3
<1>2. QED BY <1>1, InvariantHolds, PTL
-----------------------------------------------------------------------------
(* The policy's saves are atomic *)

\* The save that counts, as the marker has it.
LEMMA SavedIs ==
    ASSUME Core
    PROVE  /\ latest[Actor] = NoTag => Saved = None
           /\ latest[Actor] # NoTag => /\ Saved = dirs[Actor][latest[Actor]].extra
                                       /\ Saved # None /\ Saved[2] = latest[Actor][2]
<1>1. /\ Marked(Actor) /\ DirsOK(dirs[Actor])
  BY CoreParts, CheckpointAssumption
<1>2. ASSUME latest[Actor] # NoTag
      PROVE  LET e == dirs[Actor][latest[Actor]].extra
             IN  e # None /\ e[2] = latest[Actor][2]
  <2>1. LET e == dirs[Actor][latest[Actor]].extra
        IN  e # None /\ e \in {None} \union (Nat \X {latest[Actor][2]})
    BY <1>1, <1>2 DEF Marked, Loadable
  <2>2. QED BY <2>1
<1>3. QED BY <1>2 DEF Saved

\* A step that leaves the policy's marker and what it names is a stutter, unless a save
\* returns or the job is killed.
LEMMA MarkerKept ==
    ASSUME done' = done, loaded' = loaded, latest'[Actor] = latest[Actor],
           latest[Actor] # NoTag =>
               dirs'[Actor][latest[Actor]] = dirs[Actor][latest[Actor]]
    PROVE  UNCHANGED <<Saved, done, Resumed>>
BY DEF Saved, Resumed

\* Files are written to another directory than the marker's.
LEMMA WritesStutter ==
    ASSUME Core, NEW g \in Groups, Writes(g)
    PROVE  UNCHANGED <<Saved, done, Resumed>>
<1>1. /\ TypeOK /\ GroupInv(g) /\ OrderInv(g) /\ PolicyInv /\ step \in Nat /\ SaveInv(g)
      /\ latest \in [Groups -> Tags \union {NoTag}]
  BY CoreParts
<1>2. /\ pc[g] \in Writing /\ job.tag \in Tags
      /\ UNCHANGED <<trainVars, job, victim, latest, history>>
  BY <1>1, WritesAre
<1>3. PICK d \in Contents : Changes(g, job.tag, d)
  BY <1>1, WritesAre
<1>4. /\ \A h \in Groups \ {g} : dirs'[h] = dirs[h]
      /\ \A s \in DOMAIN dirs[g] \ {job.tag} : dirs'[g][s] = dirs[g][s]
  BY <1>1, <1>2, <1>3, ChangeIs
<1>5. ASSUME latest[Actor] # NoTag
      PROVE  dirs'[Actor][latest[Actor]] = dirs[Actor][latest[Actor]]
  <2>1. CASE Actor # g
    BY <2>1, <1>4, CheckpointAssumption
  <2>2. CASE Actor = g
    <3>1. Regular(latest[g]) /\ latest[g] \in DOMAIN dirs[g] /\ latest[g][2] \in Nat
      BY <1>1, <1>5, <2>2, TagFacts DEF GroupInv, Marked
    <3>2. job.tag[2] = step /\ (Regular(job.tag) => latest[g][2] < step)
      BY <1>1, <1>2, <1>5, <2>2 DEF SaveInv, PolicyInv, Writing
    <3>3. job.tag # latest[g]
      BY <3>1, <3>2, <1>1
    <3>4. QED BY <2>2, <3>1, <3>3, <1>4
  <2>3. QED BY <2>1, <2>2
<1>6. QED BY <1>2, <1>5, MarkerKept DEF history

\* A save takes effect when the marker is written.
LEMMA MarkerCommits ==
    ASSUME Core, NEW g \in Groups, WriteMarker(g)
    PROVE  Atomic!Commit \/ UNCHANGED <<Saved, done, Resumed>>
<1>1. /\ pc[g] = "marker" /\ latest' = [latest EXCEPT ![g] = job.tag]
      /\ UNCHANGED <<trainVars, job, victim, dirs, older, history>>
  BY DEF WriteMarker
<1>2. /\ TypeOK /\ PolicyInv /\ SaveInv(g) /\ latest \in [Groups -> Tags \union {NoTag}]
      /\ job.tag \in Tags /\ job.tag[2] = step /\ step \in Nat
  BY <1>1, CoreParts
<1>3. CASE Actor # g
  BY <1>1, <1>2, <1>3, MarkerKept, CheckpointAssumption DEF history
<1>4. CASE Actor = g
  <2>1. latest'[Actor] = job.tag /\ job.tag # NoTag
    BY <1>1, <1>2, <1>4, TagFacts
  <2>2. Saved' = Content
    BY <1>1, <1>2, <1>4, <2>1 DEF Saved, SaveInv, Here
  <2>3. Content \in Parts /\ Content # None /\ Content[2] = step
    BY <1>2, <1>4, Types DEF Content
  <2>4. Saved # None => step > Saved[2]
    <3>1. ASSUME Saved # None PROVE latest[Actor] # NoTag /\ Saved[2] = latest[Actor][2]
      BY <3>1, SavedIs
    <3>2. Regular(job.tag)
      BY <1>1, <1>2 DEF SaveInv
    <3>3. latest[Actor] # NoTag => latest[Actor][2] < step /\ latest[Actor][2] \in Nat
      BY <3>2, <1>1, <1>2, <1>4, TagFacts DEF PolicyInv, Writing
    <3>4. QED BY <3>1, <3>3, <1>2
  <2>5. UNCHANGED <<done, Resumed>>
    BY <1>1 DEF Resumed, history
  <2>6. QED BY <2>2, <2>3, <2>4, <2>5
            DEF Atomic!Commit, Atomic!Saves, Atomic!Nothing, Parts, None
<1>5. QED BY <1>3, <1>4

\* What is pruned is not what the marker names.
LEMMA PruningStutters ==
    ASSUME Core, NEW g \in Groups, PickVictim(g) \/ RemovePart(g) \/ RemoveDir(g)
    PROVE  UNCHANGED <<Saved, done, Resumed>>
<1>1. CASE PickVictim(g)
  BY <1>1, MarkerKept DEF PickVictim, diskVars, history
<1>2. CASE RemovePart(g)
  <2>1. /\ victim[g] # latest[g] /\ victim[g] \in Tags
        /\ UNCHANGED <<trainVars, pc, job, victim, latest, history>>
    BY <1>2, RemovePartIs
  <2>2. PICK d \in Contents : Changes(g, victim[g], d)
    BY <1>2, RemovePartIs
  <2>3. TypeOK /\ OrderInv(g) /\ Marked(Actor)
    BY CoreParts, CheckpointAssumption
  <2>4. /\ \A h \in Groups \ {g} : dirs'[h] = dirs[h]
        /\ \A s \in DOMAIN dirs[g] \ {victim[g]} : dirs'[g][s] = dirs[g][s]
    BY <2>1, <2>2, <2>3, ChangeIs
  <2>5. latest[Actor] # NoTag => dirs'[Actor][latest[Actor]] = dirs[Actor][latest[Actor]]
    BY <2>1, <2>3, <2>4, CheckpointAssumption DEF Marked
  <2>6. QED BY <2>1, <2>5, MarkerKept DEF history
<1>3. CASE RemoveDir(g)
  <2>1. /\ victim[g] # latest[g]
        /\ UNCHANGED <<trainVars, pc, job, latest, history>>
        /\ \A h \in Groups \ {g} : dirs'[h] = dirs[h]
        /\ DOMAIN dirs'[g] = DOMAIN dirs[g] \ {victim[g]}
        /\ \A s \in DOMAIN dirs'[g] : dirs'[g][s] = dirs[g][s]
    BY <1>3, RemoveDirIs
  <2>2. Marked(Actor)
    BY CoreParts, CheckpointAssumption
  <2>3. latest[Actor] # NoTag => dirs'[Actor][latest[Actor]] = dirs[Actor][latest[Actor]]
    BY <2>1, <2>2, CheckpointAssumption DEF Marked
  <2>4. QED BY <2>1, <2>3, MarkerKept DEF history
<1>4. QED BY <1>1, <1>2, <1>3

\* When the last group returns from a regular save, it is the one that counts.
LEMMA PrunedAcknowledges ==
    ASSUME Core, NEW g \in Groups, Pruned(g)
    PROVE  Atomic!Acknowledge \/ UNCHANGED <<Saved, done, Resumed>>
<1>1. /\ pc[g] = "prune"
      /\ done' = IF Regular(job.tag) /\ \A h \in Groups \ {g} : pc[h] = "idle"
                 THEN step ELSE done
      /\ UNCHANGED <<trainVars, job, victim, diskVars, loaded>>
  BY DEF Pruned
<1>2. /\ ~Idle /\ job.tag[2] = step /\ job.tag \in Tags
      /\ \A h \in Groups : SaveInv(h)
  BY <1>1, CoreParts
<1>3. UNCHANGED <<Saved, Resumed>>
  BY <1>1 DEF Saved, Resumed, diskVars
<1>4. CASE Regular(job.tag) /\ \A h \in Groups \ {g} : pc[h] = "idle"
  <2>1. latest[Actor] = job.tag
    BY <1>1, <1>2, <1>4, CheckpointAssumption DEF SaveInv, Writing
  <2>2. Saved[2] = step
    BY <2>1, <1>2, SavedIs, TagFacts
  <2>3. QED BY <2>2, <1>1, <1>3, <1>4 DEF Atomic!Acknowledge
<1>5. CASE ~(Regular(job.tag) /\ \A h \in Groups \ {g} : pc[h] = "idle")
  BY <1>1, <1>3, <1>5
<1>6. QED BY <1>4, <1>5

\* A kill leaves the save that counts, and the next run has all of it.
LEMMA CrashRestarts ==
    ASSUME Core, Crash
    PROVE  Atomic!Restart
<1>1. UNCHANGED <<Saved, done>>
  BY DEF Crash, Saved, diskVars
<1>2. /\ loaded'[Actor] \in Contents
      /\ latest[Actor] # NoTag => loaded'[Actor] = dirs[Actor][latest[Actor]]
  BY CrashIs, CheckpointAssumption
<1>3. Resumed' = {loaded'[Actor].model, loaded'[Actor].optim, loaded'[Actor].extra}
  BY DEF Resumed, Shards
<1>4. CASE latest[Actor] = NoTag
  <2>1. Saved = None
    BY <1>4, SavedIs
  <2>2. Resumed' \in SUBSET Parts
    BY <1>2, <1>3 DEF Contents
  <2>3. QED BY <2>1, <2>2, <1>1 DEF Atomic!Restart, Atomic!Saves, Atomic!Nothing, Parts, None
<1>5. CASE latest[Actor] # NoTag
  <2>1. Saved # None /\ Saved = dirs[Actor][latest[Actor]].extra
    BY <1>5, SavedIs
  <2>2. Whole(dirs[Actor][latest[Actor]])
    BY <1>5 DEF Core, PolicyInv
  <2>3. Resumed' = {Saved}
    BY <1>2, <1>3, <1>5, <2>1, <2>2 DEF Whole
  <2>4. QED BY <2>1, <2>3, <1>1 DEF Atomic!Restart, Atomic!Nothing, None
<1>6. QED BY <1>4, <1>5

\* Every step of the saves is a step of the atomic one or a stutter.
LEMMA StepSimulated ==
    ASSUME Core, [Next]_vars
    PROVE  [Atomic!Next]_<<Saved, done, Resumed>>
<1>1. CASE Train
  BY <1>1, MarkerKept DEF Train, diskVars
<1>2. CASE \E m \in 1..MaxMetric : Evaluate(m)
  BY <1>2, MarkerKept DEF Evaluate, diskVars
<1>3. CASE \E g \in Groups : Save(g)
  BY <1>3, WritesStutter, MarkerCommits, PruningStutters, PrunedAcknowledges
     DEF Save, Writes, Atomic!Next
<1>4. CASE Crash
  BY <1>4, CrashRestarts DEF Atomic!Next
<1>5. CASE UNCHANGED vars
  BY <1>5 DEF vars, diskVars, history, Saved, Resumed
<1>6. QED BY <1>1, <1>2, <1>3, <1>4, <1>5 DEF Next

\* To the trainer the policy's saves happen at once, and a killed job goes on from the
\* last, although every one is written and removed file by file in several groups.
THEOREM CheckpointImplementsAtomic == Spec => ImplementsAtomic
<1>1. Init => Atomic!Init
  <2> SUFFICES ASSUME Init PROVE Atomic!Init
    OBVIOUS
  <2>1. latest[Actor] = NoTag /\ loaded[Actor] = NoDir /\ done = 0
    BY CheckpointAssumption DEF Init
  <2>2. Resumed = {None}
    BY <2>1 DEF Resumed, Shards, NoDir
  <2>3. QED BY <2>1, <2>2 DEF Atomic!Init, Atomic!Nothing, Saved, None
<1>2. Core /\ [Next]_vars => [Atomic!Next]_<<Saved, done, Resumed>>
  BY StepSimulated
<1>3. QED
  BY <1>1, <1>2, CoreHolds, PTL DEF Spec, ImplementsAtomic, Atomic!Spec
===============================================================================
