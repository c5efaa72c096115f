-------------------------- MODULE AsyncTrainerProofs --------------------------
(***************************************************************************)
(* Proofs about AsyncTrainer, for any data set, number of episodes, batch, *)
(* number of rollouts, length of the queues, command line and any number   *)
(* of times the job is killed: a prompt is trained at most once in a pass  *)
(* over the data and none is forgotten, batches are not stale in           *)
(* force_sync_mode, and every checkpoint can be resumed from.              *)
(*                                                                         *)
(* None of the three is inductive.  That a prompt is trained once needs    *)
(* all the places a prompt can be in (Separate), and that the loader's     *)
(* position bounds what is in them (Read, Reading).  What a restart skips  *)
(* needs what a snapshot covers once the batches queued before it have     *)
(* been trained (Snapshots), the size of the pool (Pool), and that nothing *)
(* is evaluated, hence nothing saved, before the first update after a      *)
(* restart (Resumed).  Staleness needs the tokens (Tokens): one for every  *)
(* batch under way, so that a group dispatched now has fewer than          *)
(* async_queue_size updates before it (Versions).  Under all of them is    *)
(* where the two actors can be at once (Locks, Places, Ending).            *)
(***************************************************************************)
EXTENDS AsyncTrainer, FiniteSetTheorems, FunctionTheorems, SequenceTheorems, TLAPS

\* VLLMLock as the two actors can leave it: free,
Free   == <<>>
\* held by the generator,
OneG   == <<"generator">>
\* held by the trainer,
OneT   == <<"trainer">>
\* held by the generator while the trainer waits,
GThenT == <<"generator", "trainer">>
\* and the other way round.
TThenG == <<"trainer", "generator">>
\* How many prompts the passes before e have,
Before(e) == e * DataLen
\* how many have been read,
Here      == Before(Pass) + cursor
\* and how many a snapshot has read.
Point(at) == Before(at.episode + at.again) + at.cursor

\* The prompts of an entry of the queue, or of what is in training.
Of(x) == IF x.kind = "batch" THEN Ids(x.groups) ELSE {}

\* The prompts trained once the first i entries of the queue have been.
Seen(i) == trained \union Of(training) \union UNION {Of(queue[j]) : j \in 1 .. i}

\* Where the generator holds a token.
Working == {"eval", "refill", "wait", "ship"}
\* How many tokens the generator holds,
Busy    == IF gpc \in Working THEN 1 ELSE 0
\* and how many batches the trainer has taken.
Taken   == IF training = NoBatch THEN 0 ELSE 1

\* VLLMLock: the generator's turn and the trainer's are where their actors are.
Locks ==
    /\ lock \in {Free, OneG, OneT, GThenT, TThenG}
    /\ tpc = "refit" <=> lock \notin {Free, OneG}
    /\ mode.partial \/ gpc \in {"slot", "ending"} => lock \in {Free, OneT}
    /\ ~mode.partial /\ gpc \in {"eval", "refill"} => lock \notin {Free, OneT}
    /\ ~mode.partial /\ gpc \in {"wait", "ship"} => lock \in {OneG, GThenT}

\* The trainer has a batch from taking it to the refit, and its weights are the engines'.
Places ==
    /\ tpc \in {"train", "refit"} <=> training # NoBatch
    /\ engine = step
    /\ tpc \in {"get", "train", "refit"} => step < MaxSteps

\* Where the generator is in the data.
Reading ==
    /\ drained => cursor = DataLen
    /\ gpc = "ending" => episode = Episodes /\ cursor = 0 /\ inflight = {}
    /\ gpc \notin {"ending", "done"} => episode < Episodes

\* The groups in the pool: never more than the engines take, nor more than a batch that
\* are finished; in force_sync_mode one batch in all.
Pool ==
    /\ IsFiniteSet(inflight) /\ IsFiniteSet(finished)
    /\ Cardinality(inflight) <= Capacity
    /\ Cardinality(finished) <= Batch
    /\ mode.forceSync => Cardinality(finished) + Cardinality(inflight) <= Batch
    /\ gpc \in {"slot", "eval", "ending"} => finished = {} /\ (mode.forceSync => inflight = {})
    /\ gpc \in {"refill", "wait"} => Cardinality(finished) < Batch
    /\ gpc = "ship" => /\ Cardinality(inflight) < Capacity
                       /\ inflight # {} => Cardinality(finished) = Batch
    /\ \A g, h \in inflight : g.id = h.id => g = h

\* All the data have been read, and nothing of them is in the pool.
AllOut == inflight = {} /\ finished = {} /\ episode = Episodes /\ cursor = 0

\* The end of the data is the last thing in the queue.
Ending ==
    /\ \A i \in 1 .. Len(queue) : queue[i] = Done => i = Len(queue) /\ gpc = "done"
    /\ gpc = "done" /\ tpc \in {"get", "train", "refit"} =>
          Len(queue) > 0 /\ queue[Len(queue)] = Done /\ AllOut
    /\ tpc \in {"final", "done"} /\ step < MaxSteps => gpc = "done" /\ Len(queue) = 0 /\ AllOut

\* The prompts that are somewhere, or were trained or dropped.
Known == Ids(inflight) \union Ids(finished) \union Seen(Len(queue)) \union dropped

\* The prompts somewhere in the system are the ones that were read.
Read ==
    /\ Known \subseteq 1 .. Here
    /\ 1 .. Here \subseteq Known \union skipped

\* A prompt is in one place only.
Separate ==
    /\ \A i, j \in 1 .. Len(queue) : i # j => Of(queue[i]) \cap Of(queue[j]) = {}
    /\ \A i \in 1 .. Len(queue) :
          Of(queue[i]) \cap (Of(training) \union Ids(inflight) \union Ids(finished)
                                \union trained \union dropped) = {}
    /\ Of(training) \cap (Ids(inflight) \union Ids(finished) \union trained \union dropped) = {}
    /\ Ids(inflight) \cap (Ids(finished) \union trained \union dropped) = {}
    /\ Ids(finished) \cap (trained \union dropped) = {}

\* How many prompts a restart may skip.
Most == IF mode.forceSync THEN 0 ELSE Capacity - 1

\* A snapshot is good for weights that have seen these prompts, in a run that skipped those.
Sound(at, seen, lost, most) ==
    /\ at.buffer = {} /\ at.episode < Episodes /\ (at.drained => at.cursor = DataLen)
    /\ at.dropped \subseteq 1 .. Point(at) /\ seen \subseteq 1 .. Point(at)
    /\ LET rest == (1 .. Point(at)) \ (seen \union at.dropped \union lost)
       IN  IsFiniteSet(rest) /\ Cardinality(rest) <= most

\* The client states that came with a batch are good for the weights when it is trained.
Snapshots ==
    /\ \A i \in 1 .. Len(queue) : queue[i].kind = "batch" =>
          Sound(queue[i].at, Seen(i), skipped, Most) /\ Point(queue[i].at) > 0
    /\ training # NoBatch => Sound(training.at, Seen(0), skipped, Most) /\ Point(training.at) > 0
    /\ latest # NoState => Sound(latest, trained, skipped, Most)
    /\ step = 0 => trained = {}

\* An episode is begun again by a restart only, once.
Begun ==
    /\ again <= crashes /\ latest.again <= crashes
    /\ \A i \in 1 .. Len(queue) : queue[i].kind = "batch" => queue[i].at.again <= crashes
    /\ training # NoBatch => training.at.again <= crashes
    /\ saved # NoCkpt => saved.at.again <= crashes
    /\ best # NoCkpt => best.ckpt.at.again <= crashes

\* A resumed job evaluates nothing before its first update.
Resumed ==
    latest = NoState /\ step > 0 =>
        /\ ~fresh /\ gpc # "eval"
        /\ \A i \in 1 .. Len(tokens) : tokens[i] \in {0, step}
        /\ gpc \in Working => held \in {0, step}
        /\ \A i \in 1 .. Len(queue) : queue[i].kind # "eval"
        /\ synced => nextEval > step

\* A checkpoint that can be resumed from.
SoundCkpt(c) ==
    /\ Sound(c.at, c.trained, c.skipped, Most)
    /\ c.step > 0 => c.at # NoState
    /\ c.step = 0 => c.trained = {}

\* The checkpoints on disk can be resumed from.
Saved ==
    /\ saved # NoCkpt => SoundCkpt(saved)
    /\ best # NoCkpt => SoundCkpt(best.ckpt)

\* In force_sync_mode a token is in rollout_slots, with an actor, or stands for an entry of
\* the queue.
Tokens == mode.forceSync =>
    Len(tokens) + Busy + Taken + Len(queue) <= mode.queueSize + (IF gpc = "done" THEN 1 ELSE 0)

\* With n batches to train before it, the group is trained soon enough.
Timely(g, n) == engine - g.ver + n < mode.queueSize

\* In force_sync_mode every group is trained soon enough where it stands.
Versions == mode.forceSync =>
    /\ \A g \in inflight \union finished : Timely(g, Len(queue) + Taken)
    /\ \A i \in 1 .. Len(queue) : queue[i].kind = "batch" =>
          \A g \in queue[i].groups : Timely(g, i - 1 + Taken)
    /\ training # NoBatch => \A g \in training.groups : Timely(g, 0)

\* With a queue of one, nothing is evaluated under a step that is not the engines'.
Solo == mode.forceSync /\ mode.queueSize = 1 =>
    /\ \A i \in 1 .. Len(tokens) : tokens[i] \in {0, step} /\ (tokens[i] = 0 /\ fresh => step = 0)
    /\ gpc \in Working => held \in {0, step} /\ (held = 0 /\ fresh => step = 0)
    /\ gpc = "eval" => held = step
    /\ \A i \in 1 .. Len(queue) : queue[i].kind = "eval" =>
          queue[i].step = step /\ queue[i].evaluated = step
    /\ best # NoCkpt => best.ckpt.step = best.evaluated /\ best.tag = best.evaluated

\* The inductive invariant.
Inv == /\ TypeOK /\ Locks /\ Places /\ Reading /\ Pool /\ Ending /\ Read /\ Separate /\ Snapshots
       /\ Begun /\ Resumed /\ Saved /\ Tokens /\ Versions /\ Solo

-----------------------------------------------------------------------------
(* About the operators the model is built from *)

\* What the code asks of the command line.
LEMMA Sizes ==
    /\ DataLen \in Nat \ {0} /\ Episodes \in Nat \ {0} /\ Batch \in Nat \ {0}
    /\ Capacity \in Nat \ {0}
    /\ MaxSteps \in Nat \ {0} /\ EvalSteps \in Nat \ {0} /\ SaveSteps \in Nat \ {0}
BY TrainerAssumption

\* The types that the steps below need.
LEMMA Types ==
    ASSUME TypeOK
    PROVE  /\ mode.queueSize \in Nat \ {0} /\ mode.forceSync \in BOOLEAN
           /\ mode.partial \in BOOLEAN
           /\ tokens \in Seq(Nat) /\ queue \in Seq(Entries)
           /\ engine \in Nat /\ step \in Nat /\ held \in Nat /\ nextEval \in Nat
           /\ episode \in Nat /\ episode <= Episodes /\ cursor \in Nat /\ cursor <= DataLen
           /\ inflight \subseteq Groups /\ finished \subseteq Groups
           /\ training \in Batches \union {NoBatch} /\ latest \in States
           /\ trained \subseteq Prompts /\ dropped \subseteq Prompts /\ skipped \subseteq Prompts
           /\ gpc \in {"slot", "eval", "refill", "wait", "ship", "ending", "done"}
           /\ tpc \in {"get", "train", "refit", "final", "done"}
           /\ drained \in BOOLEAN /\ fresh \in BOOLEAN /\ synced \in BOOLEAN
BY TrainerAssumption DEF TypeOK

\* The number of the pass, and what bounds it.
LEMMA PassTypes ==
    ASSUME TypeOK
    PROVE  again \in Nat /\ crashes \in Nat /\ Pass \in Nat
BY Sizes DEF TypeOK, Pass

\* An entry of the queue is of one kind.
LEMMA EntryKinds ==
    /\ \A x \in Entries : /\ x.kind \in {"batch", "eval", "done"}
                          /\ x.kind = "batch" <=> x \in Batches
                          /\ x.kind = "eval" <=> x \in Evals
                          /\ x.kind = "done" <=> x = Done
    /\ Done \in Entries /\ Done.kind = "done"
    /\ \A x \in Batches : /\ x \in Entries /\ x.kind = "batch" /\ x # NoBatch
                          /\ x.groups \subseteq Groups /\ x.at \in States
    /\ \A x \in Evals : x \in Entries /\ x.kind = "eval" /\ x.step \in Nat /\ x.evaluated \in Nat
    /\ NoBatch.kind = "none"
BY DEF Entries, Batches, Evals, Done, NoBatch

\* What is in a batch.
LEMMA OfEntry ==
    /\ \A x : x.kind = "batch" => Of(x) = Ids(x.groups)
    /\ \A x : x.kind # "batch" => Of(x) = {}
    /\ Of(NoBatch) = {} /\ Of(Done) = {}
BY DEF Of, NoBatch, Done

\* The ids of groups.
LEMMA IdsOf ==
    /\ Ids({}) = {}
    /\ \A g : Ids({g}) = {g.id}
    /\ \A S \in SUBSET Groups : Ids(S) \subseteq Prompts
    /\ \A S : \A g \in S : g.id \in Ids(S)
    /\ \A S : Ids(S) = {} => S = {}
BY DEF Ids, Groups

\* The ids of two sets of groups.
LEMMA IdsUnion == ASSUME NEW S, NEW T PROVE Ids(S \union T) = Ids(S) \union Ids(T)
BY DEF Ids

\* A queue with one more entry.
LEMMA Appended ==
    ASSUME NEW S, NEW q \in Seq(S), NEW x \in S
    PROVE  /\ Append(q, x) \in Seq(S) /\ Len(Append(q, x)) = Len(q) + 1
           /\ \A i \in 1 .. Len(q) : Append(q, x)[i] = q[i]
           /\ Append(q, x)[Len(q) + 1] = x
OBVIOUS

\* A queue without its first one.
LEMMA Taking ==
    ASSUME NEW S, NEW q \in Seq(S), q # <<>>
    PROVE  /\ Len(q) \in Nat \ {0} /\ Head(q) = q[1] /\ Head(q) \in S
           /\ Tail(q) \in Seq(S) /\ Len(Tail(q)) = Len(q) - 1
           /\ \A i \in 1 .. Len(q) - 1 : Tail(q)[i] = q[i + 1]
OBVIOUS

\* A queue's entries.
LEMMA Entry ==
    ASSUME NEW S, NEW q \in Seq(S)
    PROVE  /\ Len(q) \in Nat /\ \A i \in 1 .. Len(q) : q[i] \in S
           /\ Len(q) = 0 <=> q = <<>>
OBVIOUS

\* The passes are read one after the other.
LEMMA Passes ==
    /\ \A e \in Nat : Before(e) \in Nat /\ Before(e + 1) = Before(e) + DataLen
    /\ Before(0) = 0
    /\ \A n \in Nat : 1 .. n \subseteq Prompts
    /\ \A e, c : ReadUpTo(e, c) = 1 .. Before(e) + c
<1>1. \A e \in Nat : Before(e) \in Nat /\ Before(e + 1) = Before(e) + DataLen
  BY Sizes DEF Before
<1>2. Before(0) = 0 /\ \A n \in Nat : 1 .. n \subseteq Prompts
  BY Sizes DEF Before, Prompts
<1>3. \A e, c : ReadUpTo(e, c) = 1 .. Before(e) + c
  BY DEF Before, ReadUpTo
<1>. QED
  BY <1>1, <1>2, <1>3

\* The next evaluation point is ahead.
LEMMA PointAhead ==
    ASSUME NEW g \in Nat
    PROVE  NextPoint(g) \in Nat /\ NextPoint(g) > g
BY Sizes DEF NextPoint

\* The image of a finite set is no larger.
LEMMA ImageSize ==
    ASSUME NEW S, IsFiniteSet(S), NEW T, NEW f \in [S -> T], \A y \in T : \E x \in S : f[x] = y
    PROVE  IsFiniteSet(T) /\ Cardinality(T) <= Cardinality(S)
<1>1. f \in Surjection(S, T)
  BY DEF Surjection
<1>. QED
  BY <1>1, FS_Surjection

\* No more prompts than groups.
LEMMA IdsSize ==
    ASSUME NEW S, IsFiniteSet(S)
    PROVE  IsFiniteSet(Ids(S)) /\ Cardinality(Ids(S)) <= Cardinality(S)
<1> DEFINE f == [g \in S |-> g.id]
<1>1. f \in [S -> Ids(S)] /\ \A y \in Ids(S) : \E g \in S : f[g] = y
  BY DEF Ids
<1>. QED
  BY <1>1, ImageSize

\* One group for every prompt that is dispatched.
LEMMA DispatchedAre ==
    ASSUME NEW ps \in SUBSET Prompts, IsFiniteSet(ps), engine \in Nat
    PROVE  /\ Dispatched(ps) \subseteq Groups /\ Ids(Dispatched(ps)) = ps
           /\ \A g \in Dispatched(ps) : g.ver = engine /\ g.id \in ps
           /\ \A g, h \in Dispatched(ps) : g.id = h.id => g = h
           /\ IsFiniteSet(Dispatched(ps)) /\ Cardinality(Dispatched(ps)) <= Cardinality(ps)
<1> DEFINE f == [p \in ps |-> [id |-> p, ver |-> engine]]
<1>1. /\ f \in [ps -> Dispatched(ps)]
      /\ \A y \in Dispatched(ps) : \E p \in ps : f[p] = y
  BY DEF Dispatched
<1>3. Ids(Dispatched(ps)) = ps
  <2>1. \A g \in Dispatched(ps) : g.id \in ps
    BY DEF Dispatched
  <2>2. \A p \in ps : [id |-> p, ver |-> engine] \in Dispatched(ps)
    BY DEF Dispatched
  <2>3. \A p : [id |-> p, ver |-> engine].id = p
    OBVIOUS
  <2>. QED
    BY <2>1, <2>2, <2>3 DEF Ids
<1>2. /\ Dispatched(ps) \subseteq Groups
      /\ \A g \in Dispatched(ps) : g.ver = engine /\ g.id \in ps
      /\ \A g, h \in Dispatched(ps) : g.id = h.id => g = h
  BY DEF Dispatched, Groups, Ids
<1>4. IsFiniteSet(Dispatched(ps)) /\ Cardinality(Dispatched(ps)) <= Cardinality(ps)
  <2> HIDE DEF f
  <2>. QED
    BY <1>1, ImageSize
<1>. QED
  BY <1>2, <1>3, <1>4

\* One who waits behind another.
LEMMA Following == ASSUME NEW c, NEW d PROVE Append(<<c>>, d) = <<c, d>>
<1> DEFINE s == Append(<<c>>, d)
           t == <<c, d>>
<1>1. <<c>> \in Seq({c, d}) /\ c \in {c, d} /\ d \in {c, d} /\ Len(<<c>>) = 1
  OBVIOUS
<1>2. s \in Seq({c, d}) /\ Len(s) = 2 /\ s[1] = c /\ s[2] = d
  BY <1>1
<1>3. t \in Seq({c, d}) /\ Len(t) = 2 /\ t[1] = c /\ t[2] = d
  OBVIOUS
<1> HIDE DEF s, t
<1>4. s = t
  BY <1>2, <1>3
<1>. QED
  BY <1>4 DEF s, t

\* VLLMLock is asked for and released.
LEMMA Turns ==
    /\ Append(Free, "generator") = OneG /\ Append(OneT, "generator") = TThenG
    /\ Append(Free, "trainer") = OneT /\ Append(OneG, "trainer") = GThenT
    /\ Tail(OneG) = Free /\ Tail(GThenT) = OneT /\ Tail(OneT) = Free /\ Tail(TThenG) = OneG
    /\ Head(OneG) = "generator" /\ Head(GThenT) = "generator"
    /\ Head(OneT) = "trainer" /\ Head(TThenG) = "trainer"
    /\ Free = <<>> /\ OneG # <<>> /\ OneT # <<>> /\ GThenT # <<>> /\ TThenG # <<>>
    /\ OneG # OneT /\ OneG # TThenG /\ OneG # GThenT /\ OneT # GThenT /\ OneT # TThenG
    /\ GThenT # TThenG
    /\ {Free, OneG, OneT, GThenT, TThenG} \subseteq Seq({"generator", "trainer"})
<1>1. \A c, d : Append(<<c>>, d) = <<c, d>>
  BY Following
<1>4. \A c, d : Tail(<<c, d>>) = <<d>>
  OBVIOUS
<1>2. \A c : Append(<<>>, c) = <<c>> /\ Tail(<<c>>) = <<>>
  OBVIOUS
<1>3. \A c, d : Head(<<c>>) = c /\ Head(<<c, d>>) = c /\ Len(<<c>>) = 1 /\ Len(<<c, d>>) = 2
  OBVIOUS
<1>. QED
  BY <1>1, <1>2, <1>3, <1>4 DEF Free, OneG, OneT, GThenT, TThenG

\* The pool is counted in natural numbers.
LEMMA Counted ==
    ASSUME Pool
    PROVE  Cardinality(inflight) \in Nat /\ Cardinality(finished) \in Nat
BY FS_CardinalityType DEF Pool

\* The position in the data.
LEMMA Position ==
    ASSUME TypeOK
    PROVE  /\ Before(Pass) \in Nat /\ Here \in Nat
           /\ Before(Pass + 1) = Before(Pass) + DataLen
           /\ Here <= Before(Pass + 1)
<1>1. Pass \in Nat /\ cursor \in Nat /\ cursor <= DataLen
  BY Types, PassTypes
<1>2. /\ Before(Pass) \in Nat /\ Before(Pass + 1) = Before(Pass) + DataLen
  BY <1>1, Passes
<1>. QED
  BY <1>1, <1>2, Sizes DEF Here, Pass

\* What may be dispatched.
LEMMA RoomIs ==
    ASSUME TypeOK, Pool, gpc = "refill"
    PROVE  /\ Room \in Nat /\ Cardinality(inflight) + Room <= Capacity
           /\ mode.forceSync => Cardinality(finished) + Cardinality(inflight) + Room <= Batch
<1>1. /\ Cardinality(inflight) <= Capacity
      /\ mode.forceSync => Cardinality(finished) + Cardinality(inflight) <= Batch
      /\ mode.forceSync \in BOOLEAN
  BY Types DEF Pool
<1> DEFINE i == Cardinality(inflight)
           f == Cardinality(finished)
<1>2. i \in Nat /\ f \in Nat
  BY Counted
<1>3. Room = IF mode.forceSync /\ Batch - f - i < Capacity - i THEN Batch - f - i ELSE Capacity - i
  BY DEF Room
<1> HIDE DEF i, f
<1>4. i <= Capacity /\ (mode.forceSync => f + i <= Batch)
  BY <1>1 DEF i, f
<1>5. /\ Room \in Nat /\ i + Room <= Capacity
      /\ mode.forceSync => f + i + Room <= Batch
  BY <1>1, <1>2, <1>3, <1>4, Sizes
<1>. QED
  BY <1>5 DEF i, f

\* The prompts of a dispatch follow those that have been read, up to the pass's end.
LEMMA PromptsFollow ==
    ASSUME TypeOK, NEW n \in Nat
    PROVE  LET c == cursor + Cardinality(PromptBatch(n)) IN
           /\ PromptBatch(n) = Here + 1 .. Before(Pass) + c
           /\ PromptBatch(n) \subseteq Prompts /\ IsFiniteSet(PromptBatch(n))
           /\ Cardinality(PromptBatch(n)) \in Nat /\ Cardinality(PromptBatch(n)) <= n
           /\ c <= DataLen
           /\ Cardinality(PromptBatch(n)) < n => c = DataLen
<1> DEFINE last == Before(Pass + 1)
           top  == IF Here + n <= last THEN Here + n ELSE last
<1>1. /\ Here \in Nat /\ last \in Nat /\ Here <= last
      /\ Before(Pass) \in Nat /\ last = Before(Pass) + DataLen /\ DataLen \in Nat
      /\ cursor \in Nat /\ Here = Before(Pass) + cursor
  BY Position, Types, Sizes DEF Here
<1>2. PromptBatch(n) = {p \in Here + 1 .. Here + n : p <= last}
  BY DEF PromptBatch, Here, Pass, Before
<1> HIDE DEF last
<1>4. top \in Nat /\ Here <= top /\ top <= last /\ top <= Here + n
  BY <1>1
<1>5. PromptBatch(n) = Here + 1 .. top
  BY <1>1, <1>2
<1>6. top < Here + n => top = last
  BY <1>1
<1> HIDE DEF top
<1>7. IsFiniteSet(PromptBatch(n)) /\ Cardinality(PromptBatch(n)) = top - Here
  <2>1. \A a, b \in Int : /\ IsFiniteSet(a .. b)
                          /\ Cardinality(a .. b) = IF a > b THEN 0 ELSE b - a + 1
    BY FS_Interval
  <2>2. Here + 1 \in Int /\ top \in Int
    BY <1>1, <1>4
  <2>3. /\ IsFiniteSet(Here + 1 .. top)
        /\ Cardinality(Here + 1 .. top) = IF Here + 1 > top THEN 0 ELSE top - (Here + 1) + 1
    BY <2>1, <2>2
  <2>4. (IF Here + 1 > top THEN 0 ELSE top - (Here + 1) + 1) = top - Here
    BY <1>1, <1>4
  <2>. QED
    BY <1>5, <2>3, <2>4
<1>8. PromptBatch(n) \subseteq Prompts
  BY <1>1, <1>4, <1>5 DEF Prompts
<1> DEFINE c == cursor + Cardinality(PromptBatch(n))
<1>9. Before(Pass) + c = top /\ c <= DataLen /\ (top < Here + n => c = DataLen)
  BY <1>1, <1>4, <1>6, <1>7
<1>10. Cardinality(PromptBatch(n)) \in Nat /\ Cardinality(PromptBatch(n)) <= n
  BY <1>1, <1>4, <1>7
<1>11. Cardinality(PromptBatch(n)) < n => top < Here + n
  BY <1>1, <1>4, <1>7
<1>. QED
  BY <1>5, <1>7, <1>8, <1>9, <1>10, <1>11

\* The last batches in the queue do not change when one is added.
LEMMA SeenAppended ==
    ASSUME TypeOK, NEW x \in Entries, queue' = Append(queue, x), UNCHANGED <<trained, training>>,
           NEW n, n = Len(queue)
    PROVE  /\ \A i \in 0 .. n : Seen(i)' = Seen(i)
           /\ Seen(n + 1)' = Seen(n) \union Of(x)
<1>1. /\ n \in Nat /\ queue'[n + 1] = x /\ \A i \in 1 .. n : queue'[i] = queue[i]
  BY Types, Appended, Entry
<1>2. ASSUME NEW i \in 0 .. n PROVE Seen(i)' = Seen(i)
  <2>1. UNION {Of(queue'[j]) : j \in 1 .. i} = UNION {Of(queue[j]) : j \in 1 .. i}
    BY <1>1
  <2>. QED
    BY <2>1 DEF Seen, Of
<1>3. Seen(n + 1)' = Seen(n) \union Of(x)
  <2>1. UNION {Of(queue'[j]) : j \in 1 .. n + 1}
            = (UNION {Of(queue[j]) : j \in 1 .. n}) \union Of(x)
    <3>1. /\ \A j \in 1 .. n + 1 : j = n + 1 \/ j \in 1 .. n
          /\ \A j \in 1 .. n : j \in 1 .. n + 1
          /\ n + 1 \in 1 .. n + 1
      BY <1>1
    <3>. QED
      BY <1>1, <3>1
  <2>. QED
    BY <2>1 DEF Seen, Of
<1>. QED
  BY <1>2, <1>3

\* Taking the first batch into training counts it once.
LEMMA SeenTaken ==
    ASSUME TypeOK, queue # <<>>, queue' = Tail(queue), trained' = trained,
           Of(training') = Of(training) \union Of(Head(queue))
    PROVE  \A i \in 0 .. Len(queue) - 1 : Seen(i)' = Seen(i + 1)
<1>1. /\ Len(queue) \in Nat \ {0} /\ Head(queue) = queue[1]
      /\ \A i \in 1 .. Len(queue) - 1 : queue'[i] = queue[i + 1]
  BY Types, Taking
<1>2. ASSUME NEW i \in 0 .. Len(queue) - 1 PROVE Seen(i)' = Seen(i + 1)
  <2>1. UNION {Of(queue[j]) : j \in 1 .. i + 1}
            = Of(queue[1]) \union UNION {Of(queue[j + 1]) : j \in 1 .. i}
    <3>1. \A j \in 1 .. i + 1 : j = 1 \/ (j - 1 \in 1 .. i /\ j = (j - 1) + 1)
      OBVIOUS
    <3>2. \A j \in 1 .. i : j + 1 \in 1 .. i + 1
      OBVIOUS
    <3>3. 1 \in 1 .. i + 1
      OBVIOUS
    <3>. QED
      BY <3>1, <3>2, <3>3
  <2>2. UNION {Of(queue'[j]) : j \in 1 .. i} = UNION {Of(queue[j + 1]) : j \in 1 .. i}
    BY <1>1
  <2>. QED
    BY <1>1, <2>1, <2>2 DEF Seen, Of
<1>. QED
  BY <1>2

\* So does training it.
LEMMA SeenTrained ==
    ASSUME trained' = trained \union Of(training), Of(training') = {}, UNCHANGED queue
    PROVE  \A i : Seen(i)' = Seen(i)
BY DEF Seen, Of

-----------------------------------------------------------------------------
(* The steps with a choice or a computation in them, as the invariant sees them *)

\* A dispatch moves the position in the data over the prompts it puts in flight.
LEMMA RefillIs ==
    ASSUME TypeOK, Pool, Reading, Known \subseteq 1 .. Here, Refill, NEW n, n = Here
    PROVE  /\ gpc = "refill" /\ gpc' = IF inflight' = {} THEN "ship" ELSE "wait"
           /\ Here' \in Nat /\ n <= Here'
           /\ cursor' \in 0 .. DataLen /\ drained' \in BOOLEAN /\ (drained' => cursor' = DataLen)
           /\ inflight' \subseteq Groups /\ inflight \subseteq inflight'
           /\ Ids(inflight') = Ids(inflight) \union (n + 1 .. Here')
           /\ \A g \in inflight' : g \in inflight \/ g.ver = engine
           /\ \A g, h \in inflight' : g.id = h.id => g = h
           /\ IsFiniteSet(inflight') /\ Cardinality(inflight') <= Cardinality(inflight) + Room
           /\ UNCHANGED <<tokens, queue, lock, engine, held, episode, again, finished, fresh, synced,
                          lastEval, nextEval, tpc, step, training, latest, trained, saved, best,
                          mode, skipped, crashes, dropped>>
<1> DEFINE ps == PromptBatch(Room)
<1>1. /\ gpc = "refill" /\ gpc' = IF inflight' = {} THEN "ship" ELSE "wait"
      /\ UNCHANGED <<tokens, queue, lock, engine, held, episode, again, finished, fresh, synced,
                     lastEval, nextEval, tpc, step, training, latest, trained, saved, best,
                     mode, skipped, crashes, dropped>>
      /\ drained => UNCHANGED <<cursor, drained, inflight>>
      /\ ~drained => /\ cursor' = cursor + Cardinality(ps)
                     /\ inflight' = inflight \union Dispatched(ps)
                     /\ drained' = (Cardinality(ps) < Room)
  BY DEF Refill, trainerVars, diskVars, runVars
<1>2. /\ Room \in Nat /\ n \in Nat /\ episode < Episodes /\ engine \in Nat
      /\ cursor \in 0 .. DataLen /\ drained \in BOOLEAN /\ inflight \subseteq Groups
      /\ drained => cursor = DataLen
      /\ IsFiniteSet(inflight) /\ Cardinality(inflight) \in Nat
      /\ \A g, h \in inflight : g.id = h.id => g = h
  BY <1>1, RoomIs, Position, Types, Counted DEF Reading, Pool
<1>3. Ids(inflight) \subseteq 1 .. n
  BY DEF Known
<1>4. CASE drained
  <2>1. UNCHANGED <<cursor, drained, inflight>>
    BY <1>1, <1>4
  <2>2. Here' = n
    BY <1>1, <2>1 DEF Here, Pass
  <2>3. n + 1 .. Here' = {}
    BY <1>2, <2>2
  <2>. QED
    BY <1>1, <1>2, <1>4, <2>1, <2>2, <2>3
<1>5. CASE ~drained
  <2>1. /\ ps = n + 1 .. Before(Pass) + (cursor + Cardinality(ps))
        /\ ps \subseteq Prompts /\ IsFiniteSet(ps)
        /\ Cardinality(ps) \in Nat /\ Cardinality(ps) <= Room
        /\ cursor + Cardinality(ps) <= DataLen
        /\ Cardinality(ps) < Room => cursor + Cardinality(ps) = DataLen
    BY <1>2, PromptsFollow
  <2> HIDE DEF ps
  <2>2. /\ cursor' = cursor + Cardinality(ps) /\ inflight' = inflight \union Dispatched(ps)
        /\ drained' = (Cardinality(ps) < Room) /\ Pass' = Pass
    BY <1>1, <1>5 DEF Pass
  <2>3. Here' = Before(Pass) + (cursor + Cardinality(ps))
    BY <2>2 DEF Here, Pass
  <2>4. n = Before(Pass) + cursor /\ Before(Pass) \in Nat /\ cursor \in Nat
    BY Position, Types DEF Here, Pass
  <2>5. Here' \in Nat /\ n <= Here' /\ ps = n + 1 .. Here'
    BY <2>1, <2>3, <2>4
  <2>6. /\ Dispatched(ps) \subseteq Groups /\ Ids(Dispatched(ps)) = ps
        /\ \A g \in Dispatched(ps) : g.ver = engine /\ g.id \in ps
        /\ \A g, h \in Dispatched(ps) : g.id = h.id => g = h
        /\ IsFiniteSet(Dispatched(ps)) /\ Cardinality(Dispatched(ps)) <= Cardinality(ps)
    BY <1>2, <2>1, DispatchedAre
  <2>7. Ids(inflight') = Ids(inflight) \union (n + 1 .. Here')
    <3>1. Ids(inflight \union Dispatched(ps)) = Ids(inflight) \union Ids(Dispatched(ps))
      BY IdsUnion
    <3>. QED
      BY <2>2, <2>5, <2>6, <3>1
  <2>8. \A g, h \in inflight' : g.id = h.id => g = h
    <3>1. \A g \in inflight : g.id \in 1 .. n
      BY <1>3, IdsOf
    <3>2. \A g \in Dispatched(ps) : g.id \in n + 1 .. Here'
      BY <2>5, <2>6
    <3>3. \A i : ~(i \in 1 .. n /\ i \in n + 1 .. Here')
      BY <1>2, <2>5
    <3>. QED
      BY <1>2, <2>2, <2>6, <3>1, <3>2, <3>3
  <2>9. IsFiniteSet(inflight') /\ Cardinality(inflight') <= Cardinality(inflight) + Room
    <3>1. /\ IsFiniteSet(inflight')
          /\ Cardinality(inflight') = Cardinality(inflight) + Cardinality(Dispatched(ps))
                                        - Cardinality(inflight \cap Dispatched(ps))
      BY <1>2, <2>2, <2>6, FS_Union
    <3>2. Cardinality(inflight \cap Dispatched(ps)) \in Nat /\ Cardinality(Dispatched(ps)) \in Nat
      BY <1>2, <2>6, FS_Intersection, FS_CardinalityType
    <3>. QED
      BY <1>2, <2>1, <2>6, <3>1, <3>2
  <2>10. cursor' \in 0 .. DataLen /\ drained' \in BOOLEAN /\ (drained' => cursor' = DataLen)
    <3>1. cursor' \in 0 .. DataLen
      BY <2>1, <2>2, <2>4, Sizes
    <3>2. drained' \in BOOLEAN /\ (drained' => Cardinality(ps) < Room)
      <4>1. drained' = (Cardinality(ps) < Room)
        BY <2>2
      <4>2. drained' \in BOOLEAN
        BY <4>1
      <4>3. drained' => Cardinality(ps) < Room
        BY <4>1
      <4>. QED
        BY <4>2, <4>3
    <3>. QED
      BY <2>1, <2>2, <3>1, <3>2
  <2>11. /\ inflight' \subseteq Groups /\ inflight \subseteq inflight'
         /\ \A g \in inflight' : g \in inflight \/ g.ver = engine
    BY <1>2, <2>2, <2>6
  <2>. QED
    BY <1>1, <2>5, <2>7, <2>8, <2>9, <2>10, <2>11
<1>. QED
  BY <1>4, <1>5

\* A rollout that ends takes its group to the finished ones or to the dropped ones.
LEMMA CollectIs ==
    ASSUME TypeOK, Pool, NEW g \in inflight, Collect(g)
    PROVE  /\ gpc = "wait" /\ gpc' = IF Cardinality(finished') < Batch THEN "refill" ELSE "ship"
           /\ inflight' = inflight \ {g} /\ g.id \in Prompts
           /\ Ids(inflight) = Ids(inflight') \union {g.id} /\ g.id \notin Ids(inflight')
           /\ \/ /\ finished' = finished \union {g} /\ dropped' = dropped
                 /\ Ids(finished') = Ids(finished) \union {g.id}
              \/ dropped' = dropped \union {g.id} /\ finished' = finished
           /\ IsFiniteSet(inflight') /\ IsFiniteSet(finished')
           /\ Cardinality(inflight') = Cardinality(inflight) - 1
           /\ Cardinality(finished') \in Nat /\ Cardinality(finished') <= Cardinality(finished) + 1
           /\ UNCHANGED <<tokens, queue, lock, engine, held, episode, again, cursor, drained, fresh,
                          synced, lastEval, nextEval, tpc, step, training, latest, trained,
                          saved, best, mode, skipped, crashes>>
<1>1. /\ gpc = "wait" /\ gpc' = IF Cardinality(finished') < Batch THEN "refill" ELSE "ship"
      /\ inflight' = inflight \ {g}
      /\ \/ finished' = finished \union {g} /\ dropped' = dropped
         \/ dropped' = dropped \union {g.id} /\ finished' = finished
      /\ UNCHANGED <<tokens, queue, lock, engine, held, episode, again, cursor, drained, fresh,
                     synced, lastEval, nextEval, tpc, step, training, latest, trained,
                     saved, best, mode, skipped, crashes>>
  BY DEF Collect, trainerVars, diskVars, runVars
<1>2. g.id \in Prompts
  BY Types DEF Groups
<1>3. Ids(inflight) = Ids(inflight') \union {g.id} /\ g.id \notin Ids(inflight')
  BY <1>1 DEF Pool, Ids
<1>4. /\ IsFiniteSet(inflight') /\ Cardinality(inflight') = Cardinality(inflight) - 1
  BY <1>1, FS_RemoveElement DEF Pool
<1>5. /\ IsFiniteSet(finished') /\ Cardinality(finished') \in Nat
      /\ Cardinality(finished') <= Cardinality(finished) + 1
  <2>1. IsFiniteSet(finished) /\ Cardinality(finished) \in Nat
    BY Counted DEF Pool
  <2>2. /\ IsFiniteSet(finished \union {g})
        /\ Cardinality(finished \union {g}) = Cardinality(finished)
             \/ Cardinality(finished \union {g}) = Cardinality(finished) + 1
    BY <2>1, FS_AddElement
  <2>3. CASE finished' = finished
    BY <2>1, <2>3
  <2>4. CASE finished' = finished \union {g}
    BY <2>1, <2>2, <2>4
  <2>. QED
    BY <1>1, <2>3, <2>4
<1>6. \/ /\ finished' = finished \union {g} /\ dropped' = dropped
         /\ Ids(finished') = Ids(finished) \union {g.id}
      \/ dropped' = dropped \union {g.id} /\ finished' = finished
  <2>1. Ids(finished \union {g}) = Ids(finished) \union {g.id}
    BY DEF Ids
  <2>. QED
    BY <1>1, <2>1
<1>. QED
  BY <1>1, <1>2, <1>3, <1>4, <1>5, <1>6

\* The batch that is put in the queue.
Sending == [kind |-> "batch", groups |-> finished, at |-> Snapshot(dropped, {})]

\* Its client states are the position in the data.
LEMMA SendingIs ==
    ASSUME TypeOK
    PROVE  /\ Sending \in Batches /\ Sending \in Entries /\ Sending.kind = "batch"
           /\ Sending.groups = finished /\ Of(Sending) = Ids(finished)
           /\ Sending.at.buffer = {} /\ Sending.at.episode = episode
           /\ Sending.at.again = again /\ Sending.at.drained = drained
           /\ Sending.at.cursor = cursor
           /\ Sending.at.dropped = dropped /\ Point(Sending.at) = Here
<1>1. Snapshot(dropped, {}) = [episode |-> episode, again |-> again, cursor |-> cursor,
                               drained |-> drained, dropped |-> dropped, buffer |-> {}]
  BY DEF Snapshot
<1>2. Snapshot(dropped, {}) \in States
  BY <1>1, Types, PassTypes DEF States
<1>3. Sending \in Batches /\ Sending.kind = "batch" /\ Sending.groups = finished
  BY <1>2, Types DEF Sending, Batches
<1>4. /\ Sending.at.buffer = {} /\ Sending.at.episode = episode
      /\ Sending.at.again = again /\ Sending.at.drained = drained /\ Sending.at.cursor = cursor
      /\ Sending.at.dropped = dropped /\ Point(Sending.at) = Here
  BY <1>1 DEF Sending, Point, Here, Pass
<1>. QED
  BY <1>3, <1>4, EntryKinds, OfEntry

\* What is finished is sent or dropped, all of it; an episode ends when it has been read.
LEMMA ShipIs ==
    ASSUME TypeOK, Pool, Reading, Ship, NEW n, n = Here
    PROVE  /\ gpc = "ship" /\ finished' = {} /\ Here' = n
           /\ \/ /\ tokens' = Append(tokens, held) /\ queue' = queue
                 /\ dropped' = dropped \union Ids(finished)
              \/ /\ tokens' = tokens /\ queue' = Append(queue, Sending) /\ finished # {}
                 /\ dropped' = dropped
           /\ \/ gpc' = "slot" /\ UNCHANGED <<episode, cursor, drained>>
              \/ /\ inflight = {} /\ episode' = episode + 1 /\ cursor' = 0 /\ drained' = FALSE
                 /\ gpc' = IF episode + 1 < Episodes THEN "slot" ELSE "ending"
           /\ ReleaseLock
           /\ UNCHANGED <<engine, held, again, inflight, fresh, synced, lastEval, nextEval, tpc, step,
                          training, latest, trained, saved, best, mode, skipped, crashes>>
<1> DEFINE Right(groups) == Cardinality(groups) = Batch
                              \/ (Cardinality(groups) < Batch /\ groups = finished)
<1>1. ASSUME NEW groups \in SUBSET finished, Right(groups) PROVE groups = finished
  <2>1. /\ IsFiniteSet(finished) /\ Cardinality(finished) <= Batch
        /\ Cardinality(finished) \in Nat /\ Batch \in Nat
    BY Counted, Sizes DEF Pool
  <2>2. /\ Cardinality(groups) <= Cardinality(finished)
        /\ Cardinality(finished) = Cardinality(groups) => finished = groups
    BY <2>1, FS_Subset
  <2>3. IsFiniteSet(groups)
    BY <2>1, FS_Subset
  <2>4. Cardinality(groups) \in Nat
    BY <2>3, FS_CardinalityType
  <2>. QED
    BY <1>1, <2>1, <2>2, <2>4
<1> DEFINE exhausted == drained /\ inflight = {}
           sent == IF ~(exhausted /\ mode.onPolicy /\ Cardinality(finished) < Batch)
                   THEN finished ELSE {}
<1>2. /\ gpc = "ship" /\ finished' = {} /\ dropped' = dropped \union Ids(finished \ sent)
      /\ \/ /\ sent = {}
            /\ tokens' = Append(tokens, held) /\ UNCHANGED queue
         \/ /\ sent # {}
            /\ queue' = Append(queue, [kind |-> "batch", groups |-> sent,
                                       at |-> Snapshot(dropped, {})])
            /\ UNCHANGED tokens
      /\ \/ exhausted /\ EndEpisode
         \/ ~exhausted /\ gpc' = "slot" /\ UNCHANGED <<episode, cursor, drained>>
      /\ ReleaseLock
  <2>1. PICK groups \in SUBSET finished :
          /\ Right(groups)
          /\ LET surplus   == finished \ groups
                 over == drained /\ surplus = {} /\ inflight = {}
                 keep      == ~(over /\ mode.onPolicy /\ Cardinality(groups) < Batch)
                 out       == IF keep THEN groups ELSE {}
             IN  /\ finished' = surplus
                 /\ dropped' = dropped \union Ids(groups \ out)
                 /\ \/ /\ out = {}
                       /\ tokens' = Append(tokens, held) /\ UNCHANGED queue
                    \/ /\ out # {} /\ Len(queue) < mode.queueSize
                       /\ queue' = Append(queue, [kind |-> "batch", groups |-> out,
                                                  at |-> Snapshot(dropped, surplus)])
                       /\ UNCHANGED tokens
                 /\ \/ over /\ EndEpisode
                    \/ ~over /\ gpc' = "slot" /\ UNCHANGED <<episode, cursor, drained>>
    BY DEF Ship
  <2>2. groups = finished
    BY <1>1, <2>1
  <2>3. finished \ groups = {}
    BY <2>2
  <2>4. gpc = "ship" /\ ReleaseLock
    BY DEF Ship
  <2>. QED
    BY <2>1, <2>2, <2>3, <2>4
<1>3. UNCHANGED <<engine, held, again, inflight, fresh, synced, lastEval, nextEval, tpc, step,
                  training, latest, trained, saved, best, mode, skipped, crashes>>
  BY DEF Ship, trainerVars, diskVars, runVars
<1>4. \/ /\ tokens' = Append(tokens, held) /\ queue' = queue
         /\ dropped' = dropped \union Ids(finished)
      \/ /\ tokens' = tokens /\ queue' = Append(queue, Sending) /\ finished # {}
         /\ dropped' = dropped
  <2>1. CASE sent = finished
    BY <1>2, <2>1, IdsOf DEF Sending
  <2>2. CASE sent = {}
    BY <1>2, <2>2, IdsOf
  <2>. QED
    BY <2>1, <2>2
<1>5. \/ gpc' = "slot" /\ UNCHANGED <<episode, cursor, drained>>
      \/ /\ inflight = {} /\ episode' = episode + 1 /\ cursor' = 0 /\ drained' = FALSE
         /\ gpc' = IF episode + 1 < Episodes THEN "slot" ELSE "ending"
  BY <1>2 DEF EndEpisode
<1>6. Here' = n
  <2>1. CASE exhausted /\ EndEpisode
    <3>1. /\ episode' = episode + 1 /\ again' = again /\ cursor' = 0 /\ cursor = DataLen
          /\ episode \in Nat /\ again \in Nat
      BY <1>3, <2>1, Types, PassTypes DEF EndEpisode, Reading
    <3>2. Pass' = Pass + 1 /\ Before(Pass + 1) = Before(Pass) + DataLen /\ Before(Pass) \in Nat
      BY <3>1, Position DEF Pass
    <3>3. DataLen \in Nat
      BY Sizes
    <3>. QED
      BY <3>1, <3>2, <3>3 DEF Here, Pass
  <2>2. CASE UNCHANGED <<episode, cursor, drained>>
    BY <1>3, <2>2 DEF Here, Pass
  <2>. QED
    BY <1>2, <2>1, <2>2
<1>. QED
  BY <1>2, <1>3, <1>4, <1>5, <1>6

\* A snapshot of nothing, for a job that starts from scratch.
LEMMA NothingRead ==
    ASSUME mode.forceSync \in BOOLEAN, NEW lost
    PROVE  NoState \in States /\ Point(NoState) = 0 /\ Sound(NoState, {}, lost, Most)
<1>1. NoState \in States /\ Point(NoState) = 0 /\ NoState.buffer = {} /\ NoState.dropped = {}
  BY Passes, Sizes DEF NoState, States, Point
<1>2. (1 .. Point(NoState)) \ ({} \union NoState.dropped \union lost) = {}
  BY <1>1
<1>3. IsFiniteSet({}) /\ Cardinality({}) <= Most
  BY Sizes, FS_EmptySet DEF Most
<1>4. NoState.episode < Episodes /\ NoState.drained = FALSE
  BY Sizes DEF NoState
<1>. QED
  BY <1>1, <1>2, <1>3, <1>4 DEF Sound

\* A job starts anew from a sound snapshot, whichever checkpoint it is.
LEMMA CrashFrom ==
    ASSUME TypeOK, Saved, Crash
    PROVE  /\ UNCHANGED <<mode, saved, best>> /\ crashes' \in Nat
           /\ \E c \in States, s \in Nat, seen, lost \in SUBSET Prompts :
                 /\ Start(c, s, seen, lost) /\ Sound(c, seen, lost, Most)
                 /\ s > 0 => c # NoState
                 /\ s = 0 => seen = {}
<1>1. UNCHANGED <<mode, saved, best>> /\ crashes' \in Nat
  BY DEF Crash, diskVars, TypeOK
<1>2. ASSUME NEW ckpt \in Ckpts, SoundCkpt(ckpt), Resume(ckpt)
      PROVE  \E c \in States, s \in Nat, seen, lost \in SUBSET Prompts :
                 /\ Start(c, s, seen, lost) /\ Sound(c, seen, lost, Most)
                 /\ s > 0 => c # NoState
                 /\ s = 0 => seen = {}
  <2>1. /\ ckpt.at \in States /\ ckpt.step \in Nat
        /\ ckpt.trained \in SUBSET Prompts /\ ckpt.skipped \in SUBSET Prompts
    BY DEF Ckpts
  <2>2. Start(ckpt.at, ckpt.step, ckpt.trained, ckpt.skipped)
    BY <1>2 DEF Resume
  <2>. QED
    BY <1>2, <2>1, <2>2 DEF SoundCkpt
<1>3. CASE saved # NoCkpt /\ Resume(saved)
  BY <1>1, <1>2, <1>3 DEF TypeOK, Saved
<1>4. CASE saved = NoCkpt /\ best # NoCkpt /\ Resume(best.ckpt)
  <2>1. best.ckpt \in Ckpts /\ SoundCkpt(best.ckpt)
    BY <1>4 DEF TypeOK, Bests, Saved
  <2>. QED
    BY <1>1, <1>2, <1>4, <2>1
<1>5. CASE Start(NoState, 0, {}, {})
  <2>1. mode.forceSync \in BOOLEAN
    BY Types
  <2>. QED
    BY <1>1, <1>5, <2>1, NothingRead
<1>. QED
  BY <1>3, <1>4, <1>5 DEF Crash

\* What a job starts anew with, from a sound snapshot.
Afresh(c, s, seen, lost) ==
    /\ Sound(c, seen, lost, Most) /\ (s > 0 => c # NoState) /\ (s = 0 => seen = {})
    /\ tokens' \in Seq(Nat) /\ Len(tokens') = mode.queueSize
    /\ \A i \in 1 .. Len(tokens') : tokens'[i] = 0
    /\ queue' = <<>> /\ Len(queue') = 0 /\ lock' = Free /\ engine' = s /\ step' = s
    /\ held' = 0 /\ drained' = FALSE /\ inflight' = {} /\ finished' = {}
    /\ episode' \in Nat /\ episode' < Episodes /\ again' \in Nat
    /\ cursor' \in Nat /\ cursor' <= DataLen /\ Here' = Point(c)
    /\ fresh' = (c = NoState) /\ synced' = (c = NoState)
    /\ lastEval' = -1 /\ nextEval' = EvalSteps
    /\ training' = NoBatch /\ latest' = NoState
    /\ trained' = seen /\ dropped' = c.dropped /\ dropped' \subseteq Prompts
    /\ seen \subseteq 1 .. Point(c) /\ c.dropped \subseteq 1 .. Point(c)
    /\ skipped' = lost \union ((1 .. Point(c)) \ (seen \union c.dropped))
    /\ skipped' \subseteq Prompts
    /\ tpc' \in {"get", "done"} /\ (tpc' = "get" <=> s < MaxSteps)
    /\ gpc' = IF tpc' = "done" THEN "done" ELSE "slot"
    /\ UNCHANGED <<mode, saved, best>> /\ crashes' \in Nat

\* A crash starts the job anew.
LEMMA CrashIs ==
    ASSUME TypeOK, Saved, Crash
    PROVE  \E c \in States, s \in Nat, seen, lost \in SUBSET Prompts : Afresh(c, s, seen, lost)
<1>0. UNCHANGED <<mode, saved, best>> /\ crashes' \in Nat
  BY CrashFrom
<1>. SUFFICES ASSUME NEW c \in States, NEW s \in Nat, NEW seen \in SUBSET Prompts,
                     NEW lost \in SUBSET Prompts, Start(c, s, seen, lost),
                     Sound(c, seen, lost, Most),
                     s > 0 => c # NoState, s = 0 => seen = {}
              PROVE  Afresh(c, s, seen, lost)
  BY CrashFrom
<1>1. /\ tokens' = [i \in 1 .. mode.queueSize |-> 0]
      /\ queue' = <<>> /\ lock' = Free /\ engine' = s /\ step' = s
      /\ held' = 0 /\ drained' = FALSE /\ inflight' = {} /\ finished' = c.buffer
      /\ episode' = c.episode
      /\ again'  = IF c.drained THEN c.again + 1 ELSE c.again
      /\ cursor' = IF c.drained THEN 0 ELSE c.cursor
      /\ fresh' = (c = NoState) /\ synced' = (c = NoState)
      /\ lastEval' = -1 /\ nextEval' = EvalSteps
      /\ training' = NoBatch /\ latest' = NoState
      /\ trained' = seen /\ dropped' = c.dropped
      /\ skipped' = lost \union
            (ReadUpTo(c.episode + c.again, c.cursor) \ (seen \union c.dropped \union Ids(c.buffer)))
      /\ tpc' = IF s >= MaxSteps THEN "done" ELSE "get"
      /\ gpc' = IF s >= MaxSteps THEN "done" ELSE "slot"
  BY DEF Start, Free
<1>2. /\ c.buffer = {} /\ c.episode < Episodes /\ (c.drained => c.cursor = DataLen)
      /\ seen \subseteq 1 .. Point(c) /\ c.dropped \subseteq 1 .. Point(c)
  BY DEF Sound
<1>3. /\ c.episode \in Nat /\ c.cursor \in Nat /\ c.cursor <= DataLen
      /\ c.again \in Nat /\ c.drained \in BOOLEAN /\ c.dropped \subseteq Prompts
  BY Sizes DEF States
<1>4. ReadUpTo(c.episode + c.again, c.cursor) = 1 .. Point(c) /\ Ids(c.buffer) = {}
  BY <1>2, Passes, IdsOf DEF Point
<1>5. 1 .. Point(c) \subseteq Prompts
  <2>1. c.episode + c.again \in Nat
    BY <1>3
  <2>2. Before(c.episode + c.again) \in Nat
    BY <2>1, Passes
  <2>3. Point(c) \in Nat
    BY <1>3, <2>2 DEF Point
  <2>. QED
    BY <2>3, Passes
<1>6. /\ tokens' \in Seq(Nat) /\ Len(tokens') = mode.queueSize
      /\ \A i \in 1 .. Len(tokens') : tokens'[i] = 0
  <2>1. mode.queueSize \in Nat
    BY Types
  <2>. QED
    BY <1>1, <2>1
<1>7. Here' = Point(c) /\ again' \in Nat /\ cursor' \in Nat /\ cursor' <= DataLen
  <2>1. DataLen \in Nat /\ c.episode + c.again \in Nat
    BY <1>3, Sizes
  <2>2. CASE c.drained
    <3>1. Pass' = (c.episode + c.again) + 1 /\ cursor' = 0 /\ c.cursor = DataLen
      BY <1>1, <1>2, <1>3, <2>2 DEF Pass
    <3>2. Before((c.episode + c.again) + 1) = Before(c.episode + c.again) + DataLen
      BY <2>1, Passes
    <3>3. Before(c.episode + c.again) \in Nat
      BY <2>1, Passes
    <3>4. Here' = Point(c)
      BY <2>1, <3>1, <3>2, <3>3 DEF Here, Point
    <3>5. again' \in Nat
      BY <1>1, <1>3, <2>2
    <3>. QED
      BY <2>1, <3>1, <3>4, <3>5
  <2>3. CASE ~c.drained
    BY <1>1, <1>3, <2>3 DEF Here, Point, Pass
  <2>. QED
    BY <1>3, <2>2, <2>3
<1>8. tpc' \in {"get", "done"} /\ (tpc' = "get" <=> s < MaxSteps)
      /\ gpc' = IF tpc' = "done" THEN "done" ELSE "slot"
  BY <1>1, Sizes
<1>9. skipped' = lost \union ((1 .. Point(c)) \ (seen \union c.dropped))
  BY <1>1, <1>4
<1>. QED
  BY <1>0, <1>1, <1>2, <1>3, <1>5, <1>6, <1>7, <1>8, <1>9 DEF Afresh

-----------------------------------------------------------------------------
(* Every step keeps the invariant *)

\* The lock is where the actors say it is.
LEMMA LocksStep ==
    ASSUME TypeOK, Locks, Pool, Reading, Read, Saved, Next
    PROVE  Locks'
<1>1. CASE TakeSlot
  <2>1. /\ gpc = "slot" /\ gpc' \in {"eval", "refill"} /\ UNCHANGED <<tpc, mode>>
        /\ lock' = IF mode.partial THEN lock ELSE Append(lock, "generator")
    BY <1>1 DEF TakeSlot, RequestLock, trainerVars, runVars
  <2>2. lock \in {Free, OneT} /\ mode.partial \in BOOLEAN
    BY <2>1, Types DEF Locks
  <2>. QED
    BY <2>1, <2>2, Turns DEF Locks
<1>2. CASE Evaluate
  <2>1. /\ gpc = "eval" /\ gpc' = "slot" /\ UNCHANGED <<tpc, mode>> /\ HasLock /\ ReleaseLock
    BY <1>2 DEF Evaluate, trainerVars, runVars
  <2>. QED
    BY <2>1, Turns DEF Locks, HasLock, ReleaseLock
<1>3. CASE Refill
  <2>1. /\ gpc = "refill" /\ gpc' \in {"wait", "ship"} /\ UNCHANGED <<tpc, mode, lock>> /\ HasLock
    BY <1>3 DEF Refill, trainerVars, runVars
  <2>. QED
    BY <2>1, Turns DEF Locks, HasLock
<1>4. CASE \E g \in inflight : Collect(g)
  <2>1. /\ gpc = "wait" /\ gpc' \in {"refill", "ship"} /\ UNCHANGED <<tpc, mode, lock>>
    BY <1>4 DEF Collect, trainerVars, runVars
  <2>. QED
    BY <2>1, Turns DEF Locks
<1>5. CASE Ship
  <2>1. /\ gpc = "ship" /\ gpc' \in {"slot", "ending"} /\ UNCHANGED <<tpc, mode>> /\ ReleaseLock
    BY <1>5, ShipIs
  <2>. QED
    BY <2>1, Turns DEF Locks, ReleaseLock
<1>6. CASE PutDone \/ KillGenerator
  <2>1. gpc' = "done" /\ UNCHANGED <<tpc, mode, lock>>
    BY <1>6 DEF PutDone, KillGenerator, trainerVars, runVars
  <2>. QED
    BY <2>1 DEF Locks
<1>7. CASE TakeBatch \/ TakeEval \/ TakeDone \/ FinalSave
  <2>1. tpc # "refit" /\ tpc' # "refit" /\ UNCHANGED <<gpc, mode, lock>>
    BY <1>7 DEF TakeBatch, TakeEval, TakeDone, FinalSave, generatorVars, trainerVars, runVars
  <2>. QED
    BY <2>1 DEF Locks
<1>8. CASE Optimize
  <2>1. /\ tpc = "train" /\ tpc' = "refit" /\ lock' = Append(lock, "trainer")
        /\ UNCHANGED <<gpc, mode>>
    BY <1>8 DEF Optimize, generatorVars, runVars
  <2>. QED
    BY <2>1, Turns DEF Locks
<1>9. CASE Refit
  <2>1. /\ tpc = "refit" /\ tpc' # "refit" /\ Head(lock) = "trainer" /\ lock' = Tail(lock)
        /\ UNCHANGED <<gpc, mode>>
    BY <1>9 DEF Refit, generatorVars, runVars
  <2>. QED
    BY <2>1, Turns DEF Locks
<1>10. CASE Crash
  <2>0. PICK c \in States, s \in Nat, seen \in SUBSET Prompts, lost \in SUBSET Prompts :
          Afresh(c, s, seen, lost)
    BY <1>10, CrashIs
  <2>1. lock' = Free /\ tpc' # "refit"
    BY <2>0 DEF Afresh
  <2>2. gpc' \in {"slot", "done"}
    BY <2>0 DEF Afresh
  <2>. QED
    BY <2>1, <2>2, Turns DEF Locks
<1>. QED
  BY <1>1, <1>2, <1>3, <1>4, <1>5, <1>6, <1>7, <1>8, <1>9, <1>10 DEF Next, Generator, Trainer

\* The trainer is where its batch says it is.
LEMMA PlacesStep ==
    ASSUME TypeOK, Places, Saved, Next
    PROVE  Places'
<1>1. CASE Generator \/ KillGenerator
  <2>1. UNCHANGED <<tpc, training, engine, step>>
    BY <1>1 DEF Generator, KillGenerator, TakeSlot, Evaluate, Refill, Collect, Ship, PutDone,
          trainerVars
  <2>. QED
    BY <2>1 DEF Places
<1>2. CASE TakeBatch
  <2>1. /\ tpc = "get" /\ tpc' = "train" /\ UNCHANGED <<engine, step>> /\ training' = Head(queue)
        /\ queue # <<>> /\ Head(queue).kind = "batch"
    BY <1>2 DEF TakeBatch
  <2>2. training' # NoBatch
    BY <2>1, EntryKinds
  <2>. QED
    BY <2>1, <2>2 DEF Places
<1>3. CASE TakeEval \/ TakeDone \/ FinalSave
  <2>1. /\ tpc \in {"get", "final"} /\ tpc' \in {tpc, "final", "done"}
        /\ UNCHANGED <<engine, step, training>>
    BY <1>3 DEF TakeEval, TakeDone, FinalSave, trainerVars
  <2>. QED
    BY <2>1 DEF Places
<1>4. CASE Optimize
  <2>1. tpc = "train" /\ tpc' = "refit" /\ UNCHANGED <<engine, step, training>>
    BY <1>4 DEF Optimize
  <2>. QED
    BY <2>1 DEF Places
<1>5. CASE Refit
  <2>1. /\ engine' = step + 1 /\ step' = step + 1 /\ training' = NoBatch
        /\ tpc' = IF step + 1 >= MaxSteps THEN "final" ELSE "get"
    BY <1>5 DEF Refit
  <2>. QED
    BY <2>1, Types, Sizes DEF Places
<1>6. CASE Crash
  <2>0. PICK c \in States, s \in Nat, seen \in SUBSET Prompts, lost \in SUBSET Prompts :
          Afresh(c, s, seen, lost)
    BY <1>6, CrashIs
  <2>1. /\ engine' = step' /\ training' = NoBatch /\ tpc' \in {"get", "done"}
        /\ tpc' = "get" => step' < MaxSteps
    BY <2>0 DEF Afresh
  <2>. QED
    BY <2>1 DEF Places
<1>. QED
  BY <1>1, <1>2, <1>3, <1>4, <1>5, <1>6 DEF Next, Trainer

\* The generator is where its position in the data says it is.
LEMMA ReadingStep ==
    ASSUME TypeOK, Pool, Reading, Read, Saved, Next
    PROVE  Reading'
<1>1. CASE TakeSlot \/ Evaluate
  <2>1. /\ gpc \in {"slot", "eval"} /\ gpc' \in {"slot", "eval", "refill"}
        /\ UNCHANGED <<drained, cursor, episode>>
    BY <1>1 DEF TakeSlot, Evaluate
  <2>. QED
    BY <2>1 DEF Reading
<1>2. CASE Refill
  <2>1. /\ gpc = "refill" /\ gpc' \in {"ship", "wait"} /\ (drained' => cursor' = DataLen)
        /\ episode' = episode
    BY <1>2, RefillIs DEF Read
  <2>. QED
    BY <2>1 DEF Reading
<1>3. CASE \E g \in inflight : Collect(g)
  <2>1. /\ gpc = "wait" /\ gpc' \in {"refill", "ship"} /\ UNCHANGED <<drained, cursor, episode>>
    BY <1>3 DEF Collect
  <2>. QED
    BY <2>1 DEF Reading
<1>4. CASE Ship
  <2>1. /\ gpc = "ship" /\ inflight' = inflight
        /\ \/ gpc' = "slot" /\ UNCHANGED <<episode, cursor, drained>>
           \/ /\ inflight = {} /\ episode' = episode + 1 /\ cursor' = 0 /\ drained' = FALSE
              /\ gpc' = IF episode + 1 < Episodes THEN "slot" ELSE "ending"
    BY <1>4, ShipIs
  <2>2. episode \in Nat /\ episode < Episodes /\ Episodes \in Nat
    BY <2>1, Types, Sizes DEF Reading
  <2>. QED
    BY <2>1, <2>2 DEF Reading
<1>5. CASE PutDone \/ KillGenerator
  <2>1. gpc' = "done" /\ UNCHANGED <<drained, cursor, episode>>
    BY <1>5 DEF PutDone, KillGenerator
  <2>. QED
    BY <2>1 DEF Reading
<1>6. CASE Trainer
  <2>1. UNCHANGED <<gpc, drained, cursor, episode, inflight>>
    BY <1>6 DEF Trainer, TakeBatch, TakeEval, TakeDone, Optimize, Refit, FinalSave, generatorVars
  <2>. QED
    BY <2>1 DEF Reading
<1>7. CASE Crash
  <2>0. PICK c \in States, s \in Nat, seen \in SUBSET Prompts, lost \in SUBSET Prompts :
          Afresh(c, s, seen, lost)
    BY <1>7, CrashIs
  <2>1. drained' = FALSE /\ episode' < Episodes /\ gpc' \in {"slot", "done"}
    BY <2>0 DEF Afresh
  <2>. QED
    BY <2>1 DEF Reading
<1>. QED
  BY <1>1, <1>2, <1>3, <1>4, <1>5, <1>6, <1>7 DEF Next, Generator

\* The pool keeps to its sizes.
LEMMA PoolStep ==
    ASSUME TypeOK, Pool, Reading, Read, Saved, Next
    PROVE  Pool'
<1>0. /\ Cardinality(inflight) \in Nat /\ Cardinality(finished) \in Nat
      /\ Cardinality({}) = 0 /\ IsFiniteSet({}) /\ \A S : Cardinality(S) # 0 => S # {}
  BY Counted, FS_EmptySet
<1>1. CASE TakeSlot \/ Evaluate
  <2>1. /\ gpc \in {"slot", "eval"} /\ gpc' \in {"slot", "eval", "refill"}
        /\ UNCHANGED <<mode, inflight, finished>>
    BY <1>1 DEF TakeSlot, Evaluate, runVars
  <2>. QED
    BY <2>1, <1>0, Sizes DEF Pool
<1>2. CASE Refill
  <2>1. /\ gpc = "refill" /\ gpc' = IF inflight' = {} THEN "ship" ELSE "wait"
        /\ IsFiniteSet(inflight') /\ Cardinality(inflight') <= Cardinality(inflight) + Room
        /\ \A g, h \in inflight' : g.id = h.id => g = h
        /\ UNCHANGED <<mode, finished>>
    BY <1>2, RefillIs DEF Read
  <2>2. /\ Room \in Nat /\ Cardinality(inflight) + Room <= Capacity
        /\ mode.forceSync => Cardinality(finished) + Cardinality(inflight) + Room <= Batch
    BY <2>1, RoomIs
  <2>3. Cardinality(inflight') \in Nat /\ (inflight' = {} => Cardinality(inflight') = 0)
    BY <2>1, <1>0, FS_CardinalityType
  <2>. QED
    BY <2>1, <2>2, <2>3, <1>0, Sizes DEF Pool
<1>3. ASSUME NEW g \in inflight, Collect(g) PROVE Pool'
  <2>1. /\ gpc = "wait" /\ gpc' = IF Cardinality(finished') < Batch THEN "refill" ELSE "ship"
        /\ inflight' = inflight \ {g}
        /\ IsFiniteSet(inflight') /\ IsFiniteSet(finished')
        /\ Cardinality(inflight') = Cardinality(inflight) - 1
        /\ Cardinality(finished') \in Nat /\ Cardinality(finished') <= Cardinality(finished) + 1
        /\ mode' = mode
    BY <1>3, CollectIs
  <2>. QED
    BY <2>1, <1>0, Sizes DEF Pool
<1>4. CASE Ship
  <2>1. /\ gpc = "ship" /\ gpc' \in {"slot", "ending"}
        /\ finished' = {} /\ UNCHANGED <<mode, inflight>>
    BY <1>4, ShipIs
  <2>2. mode.forceSync => inflight = {}
    <3>1. CASE inflight # {}
      <4>1. Cardinality(finished) = Batch /\ Cardinality(inflight) # 0
        BY <1>0, <2>1, <3>1, FS_EmptySet DEF Pool
      <4>. QED
        BY <4>1, <1>0, Sizes DEF Pool
    <3>. QED
      BY <3>1
  <2>. QED
    BY <2>1, <2>2, <1>0, Sizes, Types DEF Pool
<1>5. CASE PutDone \/ KillGenerator
  <2>1. gpc' = "done" /\ UNCHANGED <<mode, inflight, finished>>
    BY <1>5 DEF PutDone, KillGenerator, runVars
  <2>. QED
    BY <2>1 DEF Pool
<1>6. CASE Trainer
  <2>1. UNCHANGED <<gpc, mode, inflight, finished>>
    BY <1>6 DEF Trainer, TakeBatch, TakeEval, TakeDone, Optimize, Refit, FinalSave, generatorVars,
          runVars
  <2>. QED
    BY <2>1 DEF Pool
<1>7. CASE Crash
  <2>0. PICK c \in States, s \in Nat, seen \in SUBSET Prompts, lost \in SUBSET Prompts :
          Afresh(c, s, seen, lost)
    BY <1>7, CrashIs
  <2>1. inflight' = {} /\ finished' = {} /\ gpc' \in {"slot", "done"}
    BY <2>0 DEF Afresh
  <2>. QED
    BY <2>1, <1>0, Sizes DEF Pool
<1>. QED
  BY <1>1, <1>2, <1>3, <1>4, <1>5, <1>6, <1>7 DEF Next, Generator

\* The entry that an evaluation puts in the queue.
EvalResult == [kind |-> "eval", step |-> held, evaluated |-> engine]

\* The generator's steps, as the queue sees them.
LEMMA GeneratorQueue ==
    ASSUME TypeOK, Pool, Reading, Generator
    PROVE  /\ gpc # "done" /\ UNCHANGED <<tpc, step, training, latest, trained, engine, skipped>>
           /\ \/ queue' = queue /\ gpc' # "done"
              \/ /\ queue' = Append(queue, EvalResult) /\ EvalResult \in Evals
                 /\ gpc = "eval" /\ gpc' = "slot"
              \/ queue' = Append(queue, Sending) /\ gpc = "ship" /\ gpc' # "done"
              \/ queue' = Append(queue, Done) /\ gpc = "ending" /\ gpc' = "done"
<1>1. CASE TakeSlot \/ Refill
  BY <1>1 DEF TakeSlot, Refill, trainerVars, runVars
<1>2. CASE Evaluate
  <2>1. EvalResult \in Evals
    BY Types DEF EvalResult, Evals
  <2>. QED
    BY <1>2, <2>1 DEF Evaluate, EvalResult, trainerVars, runVars
<1>3. CASE \E g \in inflight : Collect(g)
  BY <1>3 DEF Collect, trainerVars, runVars
<1>4. CASE Ship
  BY <1>4, ShipIs
<1>5. CASE PutDone
  BY <1>5 DEF PutDone, trainerVars, runVars
<1>. QED
  BY <1>1, <1>2, <1>3, <1>4, <1>5 DEF Generator

\* The end of the data stays the last thing in the queue.
LEMMA EndingStep ==
    ASSUME TypeOK, Pool, Reading, Ending, Saved, Next
    PROVE  Ending'
<1>0. /\ queue \in Seq(Entries) /\ Len(queue) \in Nat
      /\ \A i \in 1 .. Len(queue) : queue[i] \in Entries
  BY Types, Entry
<1>1. CASE Generator
  <2>1. /\ gpc # "done" /\ UNCHANGED <<tpc, step>>
        /\ \A i \in 1 .. Len(queue) : queue[i] # Done
        /\ ~(tpc \in {"final", "done"} /\ step < MaxSteps)
    BY <1>1, GeneratorQueue DEF Ending
  <2>2. CASE queue' = queue /\ gpc' # "done"
    BY <2>1, <2>2 DEF Ending
  <2>3. CASE gpc' # "done" /\ \E x \in Entries : x # Done /\ queue' = Append(queue, x)
    BY <1>0, <2>1, <2>3, Appended DEF Ending
  <2>4. CASE queue' = Append(queue, Done) /\ gpc = "ending" /\ gpc' = "done"
    <3>1. AllOut'
      <4>1. AllOut
        BY <2>4 DEF AllOut, Reading, Pool
      <4>2. UNCHANGED <<inflight, finished, episode, again, cursor>>
        BY <1>1, <2>4 DEF Generator, TakeSlot, Evaluate, Refill, Collect, Ship, PutDone
      <4>. QED
        BY <4>1, <4>2 DEF AllOut
    <3>2. Done \in Entries
      BY EntryKinds
    <3>. QED
      BY <1>0, <2>1, <2>4, <3>1, <3>2, Appended DEF Ending
  <2>. QED
    BY <1>1, <2>2, <2>3, <2>4, GeneratorQueue, SendingIs, EntryKinds
<1>2. CASE TakeBatch \/ TakeEval
  <2>1. /\ tpc = "get" /\ tpc' \in {"get", "train"} /\ queue # <<>> /\ queue' = Tail(queue)
        /\ Head(queue).kind \in {"batch", "eval"}
        /\ UNCHANGED <<gpc, inflight, finished, episode, again, cursor>>
    BY <1>2 DEF TakeBatch, TakeEval, generatorVars, trainerVars
  <2>2. /\ Len(queue) > 0 /\ Head(queue) = queue[1] /\ Len(queue') = Len(queue) - 1
        /\ \A i \in 1 .. Len(queue) - 1 : queue'[i] = queue[i + 1]
    BY <1>0, <2>1, Taking
  <2>3. queue[1] # Done
    BY <2>1, <2>2, EntryKinds
  <2>4. /\ \A i \in 1 .. Len(queue) : queue[i] = Done => i = Len(queue) /\ gpc = "done"
        /\ gpc = "done" => queue[Len(queue)] = Done /\ AllOut
    BY <2>1 DEF Ending
  <2>5. \A i \in 1 .. Len(queue') : queue'[i] = Done => i = Len(queue') /\ gpc' = "done"
    <3>1. \A i \in 1 .. Len(queue') : i \in 1 .. Len(queue) - 1 /\ i + 1 \in 1 .. Len(queue)
      BY <1>0, <2>2
    <3>2. ASSUME NEW i \in 1 .. Len(queue'), queue'[i] = Done
          PROVE  i + 1 = Len(queue) /\ gpc = "done"
      BY <2>2, <2>4, <3>1, <3>2
    <3>3. ASSUME NEW i \in 1 .. Len(queue'), queue'[i] = Done
          PROVE  i = Len(queue')
      BY <1>0, <2>2, <3>1, <3>2, <3>3
    <3>. QED
      BY <2>1, <3>2, <3>3
  <2>6. gpc' = "done" => Len(queue') > 0 /\ queue'[Len(queue')] = Done
    <3>1. gpc' = "done" => Len(queue) # 1 /\ queue[Len(queue)] = Done
      BY <2>1, <2>3, <2>4
    <3>. QED
      BY <1>0, <2>2, <3>1
  <2>7. AllOut' = AllOut
    BY <2>1 DEF AllOut
  <2>. QED
    BY <2>1, <2>4, <2>5, <2>6, <2>7 DEF Ending
<1>3. CASE TakeDone
  <2>1. /\ tpc = "get" /\ tpc' = "final" /\ queue # <<>> /\ queue' = Tail(queue)
        /\ Head(queue) = Done
        /\ UNCHANGED <<gpc, inflight, finished, episode, again, cursor>>
    BY <1>3 DEF TakeDone, generatorVars
  <2>2. /\ Len(queue) > 0 /\ Head(queue) = queue[1] /\ Len(queue') = Len(queue) - 1
    BY <1>0, <2>1, Taking
  <2>3. gpc = "done" /\ Len(queue) = 1 /\ AllOut
    <3>1. 1 \in 1 .. Len(queue) /\ queue[1] = Done
      BY <1>0, <2>1, <2>2
    <3>. QED
      BY <2>1, <3>1 DEF Ending
  <2>4. AllOut'
    BY <2>1, <2>3 DEF AllOut
  <2>. QED
    BY <1>0, <2>1, <2>2, <2>3, <2>4 DEF Ending
<1>4. CASE Optimize \/ Refit \/ FinalSave
  <2>1. /\ UNCHANGED <<gpc, queue, inflight, finished, episode, again, cursor>>
        /\ \/ tpc \in {"train", "refit"} /\ tpc' \in {"get", "train", "refit"}
           \/ tpc' \in {"final", "done"} /\ step' >= MaxSteps
           \/ tpc = "final" /\ tpc' = "done" /\ step' = step
    BY <1>4, Types, Sizes DEF Optimize, Refit, FinalSave, generatorVars
  <2>2. AllOut' = AllOut
    BY <2>1 DEF AllOut
  <2>3. step' \in Nat
    BY <1>4, Types DEF Optimize, Refit, FinalSave
  <2>. QED
    BY <2>1, <2>2, <2>3, Sizes DEF Ending
<1>5. CASE KillGenerator
  BY <1>5 DEF KillGenerator, Ending, trainerVars
<1>6. CASE Crash
  <2>0. PICK c \in States, s \in Nat, seen \in SUBSET Prompts, lost \in SUBSET Prompts :
          Afresh(c, s, seen, lost)
    BY <1>6, CrashIs
  <2>1. /\ Len(queue') = 0 /\ step' \in Nat
        /\ \/ tpc' = "get" /\ gpc' = "slot"
           \/ tpc' = "done" /\ ~(step' < MaxSteps)
    <3>1. /\ Len(queue') = 0 /\ step' = s /\ tpc' \in {"get", "done"}
          /\ tpc' = "get" <=> s < MaxSteps
          /\ gpc' = IF tpc' = "done" THEN "done" ELSE "slot"
      BY <2>0 DEF Afresh
    <3>. QED
      BY <3>1
  <2>. QED
    BY <2>1 DEF Ending
<1>. QED
  BY <1>1, <1>2, <1>3, <1>4, <1>5, <1>6 DEF Next, Trainer

\* Nothing is read, nothing is lost where nothing moves.
LEMMA Unmoved ==
    ASSUME UNCHANGED <<inflight, finished, queue, trained, training, dropped>>
    PROVE  Known' = Known /\ (Separate => Separate')
<1>1. /\ Ids(inflight') = Ids(inflight) /\ Ids(finished') = Ids(finished)
      /\ Of(training') = Of(training) /\ \A i : Of(queue'[i]) = Of(queue[i])
  OBVIOUS
<1>2. Known' = Known
  BY <1>1 DEF Known, Seen, Of, Ids
<1>3. Separate => Separate'
  BY <1>1 DEF Separate, Of, Ids
<1>. QED
  BY <1>2, <1>3

\* An entry put in the queue is ahead of the trainer.
LEMMA AheadAppended ==
    ASSUME TypeOK, NEW x \in Entries, queue' = Append(queue, x), UNCHANGED <<trained, training>>
    PROVE  Seen(Len(queue))' = Seen(Len(queue)) \union Of(x)
<1>1. PICK n : n = Len(queue)
  OBVIOUS
<1>2. Len(queue') = n + 1
  BY <1>1, Types, Appended
<1>3. Seen(n + 1)' = Seen(Len(queue))'
  BY <1>2 DEF Seen
<1>4. Seen(n + 1)' = Seen(n) \union Of(x)
  BY <1>1, SeenAppended
<1>. QED
  BY <1>1, <1>3, <1>4

\* One taken into training is not lost.
LEMMA AheadTaken ==
    ASSUME TypeOK, queue # <<>>, queue' = Tail(queue), trained' = trained,
           Of(training') = Of(training) \union Of(Head(queue))
    PROVE  Seen(Len(queue))' = Seen(Len(queue))
<1>1. PICK n : n = Len(queue)
  OBVIOUS
<1>2. Len(queue') = n - 1 /\ n \in Nat \ {0}
  BY <1>1, Types, Taking
<1>3. Seen(n - 1)' = Seen(Len(queue))'
  BY <1>2 DEF Seen
<1>4. Seen(n - 1)' = Seen((n - 1) + 1)
  BY <1>1, <1>2, SeenTaken
<1>. QED
  BY <1>1, <1>2, <1>3, <1>4

\* Nor is one trained.
LEMMA AheadTrained ==
    ASSUME trained' = trained \union Of(training), Of(training') = {}, UNCHANGED queue
    PROVE  Seen(Len(queue))' = Seen(Len(queue))
BY SeenTrained DEF Seen, Of

\* The trainer's steps, as the queue sees them.
LEMMA TrainerQueue ==
    ASSUME TypeOK, Places, Trainer
    PROVE  /\ UNCHANGED <<inflight, finished, episode, again, cursor, dropped, skipped, mode, drained>>
           /\ UNCHANGED <<gpc, held, fresh, synced, lastEval, nextEval>>
           /\ \/ UNCHANGED <<queue, trained, training>> /\ tpc' # "get"
              \/ /\ queue # <<>> /\ queue' = Tail(queue) /\ trained' = trained
                 /\ Of(training') = Of(training) \union Of(Head(queue))
                 /\ tpc = "get" /\ training = NoBatch
              \/ /\ queue' = queue /\ trained' = trained \union Of(training)
                 /\ training' = NoBatch /\ tpc = "refit" /\ training # NoBatch
<1>0. UNCHANGED <<inflight, finished, episode, again, cursor, dropped, skipped, mode, drained, gpc, held,
                  fresh, synced, lastEval, nextEval>>
  BY DEF Trainer, TakeBatch, TakeEval, TakeDone, Optimize, Refit, FinalSave, generatorVars, runVars
<1>1. CASE TakeBatch
  <2>1. /\ tpc = "get" /\ queue # <<>> /\ queue' = Tail(queue) /\ trained' = trained
        /\ training' = Head(queue)
    BY <1>1 DEF TakeBatch
  <2>2. training = NoBatch /\ Of(training) = {}
    BY <2>1, OfEntry DEF Places
  <2>. QED
    BY <1>0, <2>1, <2>2
<1>2. CASE TakeEval \/ TakeDone
  <2>1. /\ tpc = "get" /\ queue # <<>> /\ queue' = Tail(queue)
        /\ UNCHANGED <<trained, training>> /\ Head(queue).kind # "batch"
    BY <1>2, EntryKinds DEF TakeEval, TakeDone, trainerVars
  <2>2. training = NoBatch /\ Of(Head(queue)) = {}
    BY <2>1, OfEntry DEF Places
  <2>. QED
    BY <1>0, <2>1, <2>2
<1>3. CASE Optimize \/ FinalSave
  <2>1. UNCHANGED <<queue, trained, training>> /\ tpc' # "get"
    BY <1>3 DEF Optimize, FinalSave
  <2>. QED
    BY <1>0, <2>1
<1>4. CASE Refit
  <2>1. /\ queue' = queue /\ tpc = "refit" /\ training' = NoBatch
        /\ trained' = trained \union Ids(training.groups)
    BY <1>4 DEF Refit
  <2>2. training # NoBatch
    BY <2>1 DEF Places
  <2>3. training.kind = "batch"
    BY <2>2, Types, EntryKinds
  <2>4. Ids(training.groups) = Of(training)
    BY <2>3, OfEntry
  <2>. QED
    BY <1>0, <2>1, <2>2, <2>4
<1>. QED
  BY <1>1, <1>2, <1>3, <1>4 DEF Trainer

\* What has been read is somewhere, and no more.
LEMMA ReadStep ==
    ASSUME TypeOK, Places, Pool, Reading, Read, Saved, Next
    PROVE  Read'
<1>1. CASE Trainer
  <2>1. Seen(Len(queue))' = Seen(Len(queue))
    BY <1>1, TrainerQueue, AheadTaken, AheadTrained, OfEntry DEF Seen, Of
  <2>2. UNCHANGED <<inflight, finished, episode, again, cursor, dropped, skipped>>
    BY <1>1, TrainerQueue
  <2>3. Known' = Known
    <3>1. Ids(inflight)' = Ids(inflight) /\ Ids(finished)' = Ids(finished)
      BY <2>2 DEF Ids
    <3>. QED
      BY <2>1, <2>2, <3>1 DEF Known
  <2>4. Here' = Here
    BY <2>2 DEF Here, Pass
  <2>. QED
    BY <2>2, <2>3, <2>4 DEF Read
<1>2. CASE TakeSlot \/ PutDone \/ Evaluate \/ KillGenerator
  <2>1. UNCHANGED <<inflight, finished, episode, again, cursor, dropped, skipped, training, trained>>
    BY <1>2 DEF TakeSlot, PutDone, Evaluate, KillGenerator, trainerVars, runVars
  <2>2. Seen(Len(queue))' = Seen(Len(queue))
    <3>1. CASE queue' = queue
      BY <2>1, <3>1 DEF Seen, Of
    <3>2. CASE queue' = Append(queue, EvalResult) /\ EvalResult \in Evals
      <4>1. EvalResult \in Entries /\ Of(EvalResult) = {}
        BY <3>2, EntryKinds, OfEntry
      <4>. QED
        BY <2>1, <3>2, <4>1, AheadAppended
    <3>3. CASE queue' = Append(queue, Done)
      BY <2>1, <3>3, EntryKinds, OfEntry, AheadAppended
    <3>4. CASE KillGenerator
      BY <3>1, <3>4 DEF KillGenerator
    <3>5. CASE Generator /\ gpc # "ship"
      BY <3>1, <3>2, <3>3, <3>5, GeneratorQueue
    <3>6. gpc # "ship" \/ KillGenerator
      BY <1>2 DEF TakeSlot, PutDone, Evaluate
    <3>. QED
      BY <1>2, <3>4, <3>5, <3>6 DEF Generator
  <2>3. Known' = Known
    <3>1. Ids(inflight)' = Ids(inflight) /\ Ids(finished)' = Ids(finished)
      BY <2>1 DEF Ids
    <3>. QED
      BY <2>1, <2>2, <3>1 DEF Known
  <2>4. Here' = Here
    BY <2>1 DEF Here, Pass
  <2>. QED
    BY <2>1, <2>3, <2>4 DEF Read
<1>3. CASE Refill
  <2>1. PICK n : n = Here
    OBVIOUS
  <2>2. /\ Here' \in Nat /\ n <= Here'
        /\ Ids(inflight') = Ids(inflight) \union (n + 1 .. Here')
        /\ UNCHANGED <<finished, dropped, skipped, queue, training, trained>>
    BY <1>3, <2>1, RefillIs DEF Read
  <2>3. Known' = Known \union (n + 1 .. Here')
    <3>1. Seen(Len(queue))' = Seen(Len(queue)) /\ Ids(finished)' = Ids(finished)
      BY <2>2 DEF Seen, Of, Ids
    <3>2. Ids(inflight)' = Ids(inflight) \union (n + 1 .. Here')
      BY <2>2 DEF Ids
    <3>. QED
      BY <2>2, <3>1, <3>2 DEF Known
  <2>4. n \in Nat
    BY <2>1, Position
  <2>5. 1 .. Here' = (1 .. n) \union (n + 1 .. Here')
    BY <2>2, <2>4
  <2>. QED
    BY <2>1, <2>2, <2>3, <2>5 DEF Read
<1>4. ASSUME NEW g \in inflight, Collect(g) PROVE Read'
  <2>1. /\ Ids(inflight) = Ids(inflight') \union {g.id}
        /\ \/ dropped' = dropped /\ Ids(finished') = Ids(finished) \union {g.id}
           \/ dropped' = dropped \union {g.id} /\ finished' = finished
        /\ UNCHANGED <<queue, episode, again, cursor, training, trained, skipped>>
    BY <1>4, CollectIs
  <2>2. Known' = Known
    <3>1. Seen(Len(queue))' = Seen(Len(queue))
      BY <2>1 DEF Seen, Of
    <3>2. Ids(inflight) = Ids(inflight)' \union {g.id}
      BY <2>1 DEF Ids
    <3>3. CASE dropped' = dropped /\ Ids(finished') = Ids(finished) \union {g.id}
      <4>1. Ids(finished)' = Ids(finished) \union {g.id}
        BY <3>3 DEF Ids
      <4>. QED
        BY <3>1, <3>2, <3>3, <4>1 DEF Known
    <3>4. CASE dropped' = dropped \union {g.id} /\ finished' = finished
      <4>1. Ids(finished)' = Ids(finished)
        BY <3>4 DEF Ids
      <4>. QED
        BY <3>1, <3>2, <3>4, <4>1 DEF Known
    <3>. QED
      BY <2>1, <3>3, <3>4
  <2>3. Here' = Here
    BY <2>1 DEF Here, Pass
  <2>. QED
    BY <2>1, <2>2, <2>3 DEF Read
<1>5. CASE Ship
  <2>1. PICK n : n = Here
    OBVIOUS
  <2>2. /\ finished' = {} /\ Here' = n
        /\ \/ queue' = queue /\ dropped' = dropped \union Ids(finished)
           \/ queue' = Append(queue, Sending) /\ dropped' = dropped
        /\ UNCHANGED <<inflight, training, trained, skipped>>
    BY <1>5, <2>1, ShipIs
  <2>3. Ids(finished)' = {} /\ Ids(inflight)' = Ids(inflight)
    BY <2>2 DEF Ids
  <2>4. CASE queue' = queue /\ dropped' = dropped \union Ids(finished)
    <3>1. Seen(Len(queue))' = Seen(Len(queue))
      BY <2>2, <2>4 DEF Seen, Of
    <3>2. Known' = Known
      BY <2>2, <2>3, <2>4, <3>1 DEF Known
    <3>. QED
      BY <2>1, <2>2, <3>2 DEF Read
  <2>5. CASE queue' = Append(queue, Sending) /\ dropped' = dropped
    <3>1. Seen(Len(queue))' = Seen(Len(queue)) \union Ids(finished)
      BY <2>2, <2>5, SendingIs, AheadAppended
    <3>2. Known' = Known
      BY <2>2, <2>3, <2>5, <3>1 DEF Known
    <3>. QED
      BY <2>1, <2>2, <3>2 DEF Read
  <2>. QED
    BY <2>2, <2>4, <2>5
<1>6. CASE Crash
  <2>0. PICK c \in States, s \in Nat, seen \in SUBSET Prompts, lost \in SUBSET Prompts :
          Afresh(c, s, seen, lost)
    BY <1>6, CrashIs
  <2>1. /\ inflight' = {} /\ finished' = {} /\ Len(queue') = 0 /\ training' = NoBatch
        /\ trained' = seen /\ dropped' = c.dropped /\ Here' = Point(c)
        /\ seen \subseteq 1 .. Point(c) /\ c.dropped \subseteq 1 .. Point(c)
        /\ skipped' = lost \union ((1 .. Point(c)) \ (seen \union c.dropped))
    BY <2>0 DEF Afresh
  <2>2. Known' = seen \union c.dropped
    <3>1. Ids(inflight)' = {} /\ Ids(finished)' = {}
      BY <2>1 DEF Ids
    <3>2. Of(training)' = {}
      BY <2>1 DEF Of, NoBatch
    <3>3. Seen(Len(queue))' = seen
      BY <2>1, <3>2 DEF Seen
    <3>. QED
      BY <2>1, <3>1, <3>3 DEF Known
  <2>. QED
    BY <2>1, <2>2 DEF Read
<1>. QED
  BY <1>1, <1>2, <1>3, <1>4, <1>5, <1>6 DEF Next, Generator

\* A prompt stays in one place when what is finished, or nothing, is put in the queue.
LEMMA SeparateAppended ==
    ASSUME TypeOK, Separate, NEW x \in Entries, queue' = Append(queue, x),
           UNCHANGED <<trained, training, dropped, inflight>>,
           Of(x) \subseteq Ids(finished), Ids(finished') \subseteq Ids(finished),
           Of(x) \cap Ids(finished') = {}
    PROVE  Separate'
<1>1. PICK n : n = Len(queue)
  OBVIOUS
<1>2. /\ n \in Nat /\ Len(queue') = n + 1
      /\ \A i \in 1 .. n : Of(queue'[i]) = Of(queue[i])
      /\ Of(queue'[n + 1]) = Of(x)
      /\ \A i \in 1 .. n + 1 : i \in 1 .. n \/ i = n + 1
  BY <1>1, Types, Appended, Entry
<1>3. /\ \A i, j \in 1 .. n : i # j => Of(queue[i]) \cap Of(queue[j]) = {}
      /\ \A i \in 1 .. n :
            Of(queue[i]) \cap (Of(training) \union Ids(inflight) \union Ids(finished)
                                  \union trained \union dropped) = {}
      /\ Of(training) \cap (Ids(inflight) \union Ids(finished) \union trained \union dropped) = {}
      /\ Ids(inflight) \cap (Ids(finished) \union trained \union dropped) = {}
      /\ Ids(finished) \cap (trained \union dropped) = {}
  BY <1>1 DEF Separate
<1>4. \A i \in 1 .. n : Of(x) \cap Of(queue[i]) = {}
  BY <1>3
<1>5. \A i, j \in 1 .. n + 1 : i # j => Of(queue'[i]) \cap Of(queue'[j]) = {}
  <2>. TAKE i, j \in 1 .. n + 1
  <2>1. CASE i \in 1 .. n /\ j \in 1 .. n
    BY <1>2, <1>3, <2>1
  <2>2. CASE i = n + 1 /\ j \in 1 .. n
    BY <1>2, <1>4, <2>2
  <2>3. CASE i \in 1 .. n /\ j = n + 1
    BY <1>2, <1>4, <2>3
  <2>. QED
    BY <1>2, <2>1, <2>2, <2>3
<1>6. \A i \in 1 .. n + 1 :
         Of(queue'[i]) \cap (Of(training) \union Ids(inflight) \union Ids(finished')
                                \union trained \union dropped) = {}
  <2>. TAKE i \in 1 .. n + 1
  <2>1. CASE i \in 1 .. n
    BY <1>2, <1>3, <2>1
  <2>2. CASE i = n + 1
    BY <1>2, <1>3, <2>2
  <2>. QED
    BY <1>2, <2>1, <2>2
<1>7. /\ Of(training) \cap (Ids(inflight) \union Ids(finished') \union trained \union dropped) = {}
      /\ Ids(inflight) \cap (Ids(finished') \union trained \union dropped) = {}
      /\ Ids(finished') \cap (trained \union dropped) = {}
  BY <1>3
<1>8. Len(queue') = n + 1 /\ UNCHANGED <<trained, training, dropped, inflight>>
  BY <1>2
<1>. QED
  BY <1>5, <1>6, <1>7, <1>8 DEF Separate

\* And when the trainer takes an entry.
LEMMA SeparateTaken ==
    ASSUME TypeOK, Separate, queue # <<>>, queue' = Tail(queue),
           UNCHANGED <<trained, dropped, inflight, finished>>,
           Of(training') = Of(training) \union Of(Head(queue))
    PROVE  Separate'
<1>1. PICK n : n = Len(queue)
  OBVIOUS
<1>2. /\ n \in Nat \ {0} /\ Len(queue') = n - 1
      /\ \A i \in 1 .. n - 1 : i + 1 \in 1 .. n /\ i + 1 # 1 /\ Of(queue'[i]) = Of(queue[i + 1])
      /\ 1 \in 1 .. n /\ Head(queue) = queue[1]
  BY <1>1, Types, Taking
<1>3. /\ \A i, j \in 1 .. n : i # j => Of(queue[i]) \cap Of(queue[j]) = {}
      /\ \A i \in 1 .. n :
            Of(queue[i]) \cap (Of(training) \union Ids(inflight) \union Ids(finished)
                                  \union trained \union dropped) = {}
      /\ Of(training) \cap (Ids(inflight) \union Ids(finished) \union trained \union dropped) = {}
      /\ Ids(inflight) \cap (Ids(finished) \union trained \union dropped) = {}
      /\ Ids(finished) \cap (trained \union dropped) = {}
  BY <1>1 DEF Separate
<1>4. \A i, j \in 1 .. n - 1 : i # j => Of(queue'[i]) \cap Of(queue'[j]) = {}
  <2>. TAKE i, j \in 1 .. n - 1
  <2>1. i # j => i + 1 # j + 1
    BY <1>2
  <2>. QED
    BY <1>2, <1>3, <2>1
<1>5. \A i \in 1 .. n - 1 :
         Of(queue'[i]) \cap (Of(training') \union Ids(inflight) \union Ids(finished)
                                \union trained \union dropped) = {}
  <2>. TAKE i \in 1 .. n - 1
  <2>1. Of(queue'[i]) \cap Of(queue[1]) = {}
    BY <1>2, <1>3
  <2>2. Of(queue'[i]) \cap (Of(training) \union Ids(inflight) \union Ids(finished)
                                \union trained \union dropped) = {}
    BY <1>2, <1>3
  <2>. QED
    BY <1>2, <2>1, <2>2
<1>6. Of(training') \cap (Ids(inflight) \union Ids(finished) \union trained \union dropped) = {}
  <2>1. Of(queue[1]) \cap (Ids(inflight) \union Ids(finished) \union trained \union dropped) = {}
    BY <1>2, <1>3
  <2>. QED
    BY <1>2, <1>3, <2>1
<1>7. Len(queue') = n - 1 /\ UNCHANGED <<trained, dropped, inflight, finished>>
  BY <1>2
<1>. QED
  BY <1>3, <1>4, <1>5, <1>6, <1>7 DEF Separate

\* A prompt is in one place after every step.
LEMMA SeparateStep ==
    ASSUME TypeOK, Places, Pool, Reading, Read, Separate, Saved, Next
    PROVE  Separate'
<1>1. CASE Trainer
  <2>1. UNCHANGED <<inflight, finished, dropped>>
    BY <1>1, TrainerQueue
  <2>2. CASE UNCHANGED <<queue, trained, training>>
    BY <2>1, <2>2, Unmoved
  <2>3. CASE /\ queue # <<>> /\ queue' = Tail(queue) /\ trained' = trained
             /\ Of(training') = Of(training) \union Of(Head(queue))
    BY <2>1, <2>3, SeparateTaken
  <2>4. CASE queue' = queue /\ trained' = trained \union Of(training) /\ training' = NoBatch
    <3>1. Of(training') = {}
      BY <2>4, OfEntry
    <3>. QED
      BY <2>1, <2>4, <3>1 DEF Separate
  <2>. QED
    BY <1>1, <2>2, <2>3, <2>4, TrainerQueue
<1>2. CASE TakeSlot \/ PutDone \/ Evaluate \/ KillGenerator
  <2>1. UNCHANGED <<inflight, finished, dropped, training, trained>>
    BY <1>2 DEF TakeSlot, PutDone, Evaluate, KillGenerator, trainerVars
  <2>3. CASE queue' = queue
    BY <2>1, <2>3, Unmoved
  <2>4. CASE \E x \in Entries : queue' = Append(queue, x) /\ Of(x) = {}
    BY <2>1, <2>4, SeparateAppended
  <2>5. CASE Generator /\ gpc # "ship"
    BY <2>3, <2>4, <2>5, GeneratorQueue, EntryKinds, OfEntry
  <2>6. CASE KillGenerator
    BY <2>3, <2>6 DEF KillGenerator
  <2>. QED
    BY <1>2, <2>5, <2>6 DEF TakeSlot, PutDone, Evaluate, Generator
<1>3. CASE Refill
  <2>1. PICK n : n = Here
    OBVIOUS
  <2>2. /\ Ids(inflight') = Ids(inflight) \union (n + 1 .. Here')
        /\ Here' \in Nat /\ UNCHANGED <<finished, dropped, queue, training, trained>>
    BY <1>3, <2>1, RefillIs DEF Read
  <2>3. n \in Nat /\ Known \subseteq 1 .. n
    BY <2>1, Position DEF Read
  <2>4. Known \cap (n + 1 .. Here') = {}
    BY <2>2, <2>3
  <2>5. /\ Ids(finished) \subseteq Known /\ trained \subseteq Known /\ dropped \subseteq Known
        /\ Of(training) \subseteq Known
        /\ \A i \in 1 .. Len(queue) : Of(queue[i]) \subseteq Known
    BY DEF Known, Seen
  <2>. QED
    BY <2>2, <2>4, <2>5 DEF Separate
<1>4. ASSUME NEW g \in inflight, Collect(g) PROVE Separate'
  <2>1. /\ Ids(inflight) = Ids(inflight') \union {g.id} /\ g.id \notin Ids(inflight')
        /\ \/ dropped' = dropped /\ Ids(finished') = Ids(finished) \union {g.id}
           \/ dropped' = dropped \union {g.id} /\ finished' = finished
        /\ UNCHANGED <<queue, training, trained>>
    BY <1>4, CollectIs
  <2>2. CASE dropped' = dropped /\ Ids(finished') = Ids(finished) \union {g.id}
    BY <2>1, <2>2 DEF Separate
  <2>3. CASE dropped' = dropped \union {g.id} /\ finished' = finished
    BY <2>1, <2>3 DEF Separate
  <2>. QED
    BY <2>1, <2>2, <2>3
<1>5. CASE Ship
  <2>1. PICK n : n = Here
    OBVIOUS
  <2>2. /\ finished' = {}
        /\ \/ queue' = queue /\ dropped' = dropped \union Ids(finished)
           \/ queue' = Append(queue, Sending) /\ dropped' = dropped
        /\ UNCHANGED <<inflight, training, trained>>
    BY <1>5, <2>1, ShipIs
  <2>3. Ids(finished') = {}
    BY <2>2, IdsOf
  <2>4. CASE queue' = queue /\ dropped' = dropped \union Ids(finished)
    BY <2>2, <2>3, <2>4 DEF Separate
  <2>5. CASE queue' = Append(queue, Sending) /\ dropped' = dropped
    BY <2>2, <2>3, <2>5, SendingIs, SeparateAppended
  <2>. QED
    BY <2>2, <2>4, <2>5
<1>6. CASE Crash
  <2>0. PICK c \in States, s \in Nat, seen \in SUBSET Prompts, lost \in SUBSET Prompts :
          Afresh(c, s, seen, lost)
    BY <1>6, CrashIs
  <2>1. inflight' = {} /\ finished' = {} /\ Len(queue') = 0 /\ training' = NoBatch
    BY <2>0 DEF Afresh
  <2>2. Ids(inflight') = {} /\ Ids(finished') = {} /\ Of(training') = {}
    BY <2>1, IdsOf, OfEntry
  <2>. QED
    BY <2>1, <2>2 DEF Separate
<1>. QED
  BY <1>1, <1>2, <1>3, <1>4, <1>5, <1>6 DEF Next, Generator

\* In force_sync_mode nothing is in flight behind a batch.
LEMMA NoneBehind ==
    ASSUME TypeOK, Pool, gpc = "ship", mode.forceSync
    PROVE  inflight = {}
<1>1. /\ Cardinality(inflight) \in Nat /\ Cardinality(finished) \in Nat
      /\ inflight # {} => Cardinality(inflight) # 0
  BY Counted, FS_EmptySet DEF Pool
<1>. QED
  BY <1>1, Sizes DEF Pool

\* The snapshot that goes with a batch is sound: what has been read and is not before it or
\* in it is in flight.
LEMMA SendingSound ==
    ASSUME TypeOK, Pool, Reading, Read, gpc = "ship", finished # {}
    PROVE  /\ Sound(Sending.at, Seen(Len(queue)) \union Ids(finished), skipped, Most)
           /\ Point(Sending.at) > 0
<1> DEFINE seen == Seen(Len(queue)) \union Ids(finished)
           rest == (1 .. Here) \ (seen \union dropped \union skipped)
<1>1. /\ seen \subseteq 1 .. Here /\ dropped \subseteq 1 .. Here /\ rest \subseteq Ids(inflight)
  BY DEF Read, Known
<1>2. Here \in Nat /\ Here > 0
  <2>1. Ids(finished) # {} /\ Ids(finished) \subseteq 1 .. Here
    BY IdsOf DEF Read, Known
  <2>. QED
    BY <2>1, Position
<1>3. IsFiniteSet(Ids(inflight)) /\ Cardinality(Ids(inflight)) <= Cardinality(inflight)
  BY IdsSize DEF Pool
<1>4. IsFiniteSet(rest) /\ Cardinality(rest) <= Cardinality(Ids(inflight))
  BY <1>1, <1>3, FS_Subset
<1>5. /\ Cardinality(rest) \in Nat /\ Cardinality(Ids(inflight)) \in Nat
      /\ Cardinality(inflight) \in Nat
  BY <1>3, <1>4, Counted, FS_CardinalityType
<1>6. Cardinality(inflight) <= Most
  <2>1. CASE mode.forceSync
    BY <2>1, NoneBehind, FS_EmptySet DEF Most
  <2>2. CASE ~mode.forceSync
    BY <2>2, <1>5, Sizes DEF Most, Pool
  <2>. QED
    BY <2>1, <2>2
<1>7. Most \in Nat
  BY Sizes DEF Most
<1>8. IsFiniteSet(rest) /\ Cardinality(rest) <= Most
  BY <1>3, <1>4, <1>5, <1>6, <1>7
<1>9. /\ Sending.at.buffer = {} /\ Sending.at.episode < Episodes
      /\ Sending.at.drained => Sending.at.cursor = DataLen
      /\ Sending.at.dropped = dropped /\ Point(Sending.at) = Here
  BY SendingIs DEF Reading
<1>. QED
  BY <1>1, <1>2, <1>8, <1>9 DEF Sound

\* Whatever is put in the queue or taken from it has client states that fit its place.
LEMMA SnapshotsStep ==
    ASSUME TypeOK, Places, Pool, Reading, Read, Snapshots, Saved, Next
    PROVE  Snapshots'
<1>0. PICK n : n = Len(queue)
  OBVIOUS
<1>1. CASE Generator
  <2>1. UNCHANGED <<mode, training, latest, trained, step, skipped>>
    BY <1>1, GeneratorQueue DEF Generator, TakeSlot, Evaluate, Refill, Collect, Ship, PutDone,
          runVars
  <2>2. Most' = Most
    BY <2>1 DEF Most
  <2>3. CASE queue' = queue
    BY <2>1, <2>2, <2>3 DEF Snapshots, Seen
  <2>4. CASE /\ \E x \in Entries :
                  /\ queue' = Append(queue, x)
                  /\ x.kind = "batch" => /\ Sound(x.at, Seen(n) \union Of(x), skipped, Most)
                                         /\ Point(x.at) > 0
    <3>1. PICK x \in Entries :
            /\ queue' = Append(queue, x)
            /\ x.kind = "batch" => /\ Sound(x.at, Seen(n) \union Of(x), skipped, Most)
                                   /\ Point(x.at) > 0
      BY <2>4
    <3>2. /\ n \in Nat /\ Len(queue') = n + 1 /\ \A i \in 1 .. n : queue'[i] = queue[i]
          /\ queue'[n + 1] = x
      BY <1>0, <3>1, Types, Appended, Entry
    <3>3. /\ \A i \in 0 .. n : Seen(i)' = Seen(i)
          /\ Seen(n + 1)' = Seen(n) \union Of(x)
      BY <1>0, <2>1, <3>1, SeenAppended
    <3>4. \A i \in 1 .. n + 1 : i \in 1 .. n \/ i = n + 1
      BY <3>2
    <3>5. \A i \in 1 .. n : i \in 0 .. n /\ 0 \in 0 .. n
      BY <3>2
    <3>6. \A i \in 1 .. n + 1 : queue'[i].kind = "batch" =>
             Sound(queue'[i].at, Seen(i)', skipped, Most) /\ Point(queue'[i].at) > 0
      <4>. TAKE i \in 1 .. n + 1
      <4>1. CASE i \in 1 .. n
        BY <1>0, <3>2, <3>3, <3>5, <4>1 DEF Snapshots
      <4>2. CASE i = n + 1
        BY <3>1, <3>2, <3>3, <4>2
      <4>. QED
        BY <3>4, <4>1, <4>2
    <3>7. Seen(0)' = Seen(0)
      BY <3>2, <3>3
    <3>. QED
      BY <2>1, <2>2, <3>2, <3>6, <3>7 DEF Snapshots
  <2>5. CASE gpc = "ship" /\ Ship /\ queue' # queue
    <3>1. queue' = Append(queue, Sending) /\ finished # {}
      BY <2>5, ShipIs
    <3>. QED
      BY <1>0, <2>4, <2>5, <3>1, SendingIs, SendingSound
  <2>6. CASE ~Ship
    <3>1. gpc # "ship"
      BY <1>1, <2>6 DEF Generator, TakeSlot, Evaluate, Refill, Collect, PutDone
    <3>. QED
      BY <1>1, <2>3, <2>4, <3>1, GeneratorQueue, EntryKinds
  <2>7. Ship => gpc = "ship"
    BY DEF Ship
  <2>. QED
    BY <2>3, <2>5, <2>6, <2>7
<1>2. CASE TakeBatch \/ TakeEval \/ TakeDone
  <2>1. /\ UNCHANGED <<mode, latest, trained, step, skipped>>
        /\ queue # <<>> /\ queue' = Tail(queue)
        /\ (training' = Head(queue) /\ Head(queue).kind = "batch") \/ training' = NoBatch
        /\ Of(training') = Of(training) \union Of(Head(queue))
    <3>1. tpc = "get"
      BY <1>2 DEF TakeBatch, TakeEval, TakeDone
    <3>2. training = NoBatch /\ Of(training) = {}
      BY <3>1, OfEntry DEF Places
    <3>3. CASE TakeBatch
      BY <3>2, <3>3 DEF TakeBatch, runVars
    <3>4. CASE TakeEval \/ TakeDone
      <4>1. /\ UNCHANGED <<mode, latest, trained, step, skipped, training>>
            /\ queue # <<>> /\ queue' = Tail(queue) /\ Head(queue).kind # "batch"
        BY <3>4, EntryKinds DEF TakeEval, TakeDone, trainerVars, runVars
      <4>. QED
        BY <3>2, <4>1, OfEntry
    <3>. QED
      BY <1>2, <3>3, <3>4
  <2>2. /\ n \in Nat \ {0} /\ Head(queue) = queue[1] /\ Len(queue') = n - 1
        /\ \A i \in 1 .. n - 1 : queue'[i] = queue[i + 1]
    BY <1>0, <2>1, Types, Taking
  <2>3. \A i \in 0 .. n - 1 : Seen(i)' = Seen(i + 1)
    BY <1>0, <2>1, SeenTaken
  <2>4. /\ \A i \in 1 .. n - 1 : i \in 0 .. n - 1 /\ i + 1 \in 1 .. n
        /\ 0 \in 0 .. n - 1 /\ 1 \in 1 .. n
    BY <2>2
  <2>5. Most' = Most
    BY <2>1 DEF Most
  <2>6. \A i \in 1 .. n - 1 : queue'[i].kind = "batch" =>
           Sound(queue'[i].at, Seen(i)', skipped, Most) /\ Point(queue'[i].at) > 0
    BY <1>0, <2>2, <2>3, <2>4 DEF Snapshots
  <2>7. training' # NoBatch =>
            Sound(training'.at, Seen(0)', skipped, Most) /\ Point(training'.at) > 0
    <3>1. Seen(0)' = Seen(1)
      BY <2>3, <2>4
    <3>. QED
      BY <1>0, <2>1, <2>2, <2>4, <3>1 DEF Snapshots
  <2>. QED
    BY <2>1, <2>2, <2>5, <2>6, <2>7 DEF Snapshots
<1>3. CASE Optimize \/ FinalSave \/ KillGenerator
  <2>1. UNCHANGED <<mode, queue, training, latest, trained, step, skipped>>
    BY <1>3 DEF Optimize, FinalSave, KillGenerator, trainerVars, runVars
  <2>2. Most' = Most
    BY <2>1 DEF Most
  <2>. QED
    BY <2>1, <2>2 DEF Snapshots, Seen
<1>4. CASE Refit
  <2>1. /\ UNCHANGED <<mode, queue, skipped>> /\ training' = NoBatch /\ latest' = training.at
        /\ trained' = trained \union Ids(training.groups) /\ step' = step + 1 /\ tpc = "refit"
    BY <1>4 DEF Refit, runVars
  <2>2. training # NoBatch /\ training \in Batches /\ Ids(training.groups) = Of(training)
    BY <2>1, Types, EntryKinds, OfEntry DEF Places
  <2>3. Of(training') = {}
    BY <2>1, OfEntry
  <2>4. \A i : Seen(i)' = Seen(i)
    BY <2>1, <2>2, <2>3, SeenTrained
  <2>5. trained' = Seen(0)
    BY <2>1, <2>2 DEF Seen
  <2>6. Most' = Most /\ step' # 0
    BY <2>1, Types DEF Most
  <2>. QED
    BY <2>1, <2>2, <2>4, <2>5, <2>6 DEF Snapshots
<1>5. CASE Crash
  <2>0. PICK c \in States, s \in Nat, seen \in SUBSET Prompts, lost \in SUBSET Prompts :
          Afresh(c, s, seen, lost)
    BY <1>5, CrashIs
  <2>1. /\ Len(queue') = 0 /\ training' = NoBatch /\ latest' = NoState
        /\ (step' = 0 => trained' = {})
    BY <2>0 DEF Afresh
  <2>. QED
    BY <2>1 DEF Snapshots
<1>. QED
  BY <1>1, <1>2, <1>3, <1>4, <1>5 DEF Next, Trainer

\* The client states that come with a batch are not those of a job that has read nothing.
LEMMA NotNothing ==
    ASSUME NEW at, Point(at) > 0
    PROVE  at # NoState
BY Passes, Sizes DEF NoState, Point

\* A token is put back in rollout_slots.
LEMMA TokenAppended ==
    ASSUME TypeOK, NEW k \in Nat, tokens' = Append(tokens, k)
    PROVE  /\ Len(tokens) \in Nat /\ Len(tokens') = Len(tokens) + 1
           /\ \A i \in 1 .. Len(tokens') :
                 tokens'[i] = k \/ (i \in 1 .. Len(tokens) /\ tokens'[i] = tokens[i])
<1>1. /\ Len(tokens) \in Nat /\ Len(tokens') = Len(tokens) + 1
      /\ \A i \in 1 .. Len(tokens) : tokens'[i] = tokens[i]
      /\ tokens'[Len(tokens) + 1] = k
  BY Types, Appended, Entry
<1>2. \A i \in 1 .. Len(tokens') : i \in 1 .. Len(tokens) \/ i = Len(tokens) + 1
  BY <1>1
<1>. QED
  BY <1>1, <1>2

\* A token is taken.
LEMMA TokenTaken ==
    ASSUME TypeOK, tokens # <<>>, tokens' = Tail(tokens)
    PROVE  /\ Len(tokens) \in Nat \ {0} /\ Len(tokens') = Len(tokens) - 1
           /\ 1 \in 1 .. Len(tokens) /\ Head(tokens) = tokens[1] /\ Head(tokens) \in Nat
           /\ \A i \in 1 .. Len(tokens') :
                 i + 1 \in 1 .. Len(tokens) /\ tokens'[i] = tokens[i + 1]
<1>1. /\ Len(tokens) \in Nat \ {0} /\ Head(tokens) = tokens[1] /\ Head(tokens) \in Nat
      /\ Len(tokens') = Len(tokens) - 1
      /\ \A i \in 1 .. Len(tokens) - 1 : tokens'[i] = tokens[i + 1]
  BY Types, Taking
<1>2. \A i \in 1 .. Len(tokens') : i \in 1 .. Len(tokens) - 1 /\ i + 1 \in 1 .. Len(tokens)
  BY <1>1
<1>. QED
  BY <1>1, <1>2

\* An entry is put in the queue.
LEMMA QueueAppended ==
    ASSUME TypeOK, NEW x \in Entries, queue' = Append(queue, x)
    PROVE  /\ Len(queue) \in Nat /\ Len(queue') = Len(queue) + 1
           /\ \A i \in 1 .. Len(queue') :
                 \/ i = Len(queue) + 1 /\ queue'[i] = x
                 \/ i \in 1 .. Len(queue) /\ queue'[i] = queue[i]
<1>1. /\ Len(queue) \in Nat /\ Len(queue') = Len(queue) + 1
      /\ \A i \in 1 .. Len(queue) : queue'[i] = queue[i]
      /\ queue'[Len(queue) + 1] = x
  BY Types, Appended, Entry
<1>2. \A i \in 1 .. Len(queue') : i \in 1 .. Len(queue) \/ i = Len(queue) + 1
  BY <1>1
<1>. QED
  BY <1>1, <1>2

\* An entry is taken from the queue.
LEMMA QueueTaken ==
    ASSUME TypeOK, queue # <<>>, queue' = Tail(queue)
    PROVE  /\ Len(queue) \in Nat \ {0} /\ Len(queue') = Len(queue) - 1
           /\ 1 \in 1 .. Len(queue) /\ Head(queue) = queue[1] /\ Head(queue) \in Entries
           /\ \A i \in 1 .. Len(queue') :
                 i + 1 \in 1 .. Len(queue) /\ queue'[i] = queue[i + 1]
<1>1. /\ Len(queue) \in Nat \ {0} /\ Head(queue) = queue[1] /\ Head(queue) \in Entries
      /\ Len(queue') = Len(queue) - 1
      /\ \A i \in 1 .. Len(queue) - 1 : queue'[i] = queue[i + 1]
  BY Types, Taking
<1>2. \A i \in 1 .. Len(queue') : i \in 1 .. Len(queue) - 1 /\ i + 1 \in 1 .. Len(queue)
  BY <1>1
<1>. QED
  BY <1>1, <1>2

\* A resumed job waits for its first update with the evaluations.
LEMMA ResumedStep ==
    ASSUME TypeOK, Places, Pool, Reading, Snapshots, Resumed, Saved, Next
    PROVE  Resumed'
<1>0. step \in Nat /\ held \in Nat /\ nextEval \in Nat /\ synced \in BOOLEAN /\ fresh \in BOOLEAN
  BY Types
<1>1. CASE TakeSlot
  <2>1. /\ UNCHANGED <<latest, step, fresh, queue>> /\ gpc' \in {"eval", "refill"}
        /\ tokens # <<>> /\ tokens' = Tail(tokens) /\ held' = Head(tokens)
        /\ synced' = (synced \/ held' > 0)
        /\ LET point == IF ~synced /\ held' > 0 THEN NextPoint(held') ELSE nextEval IN
           /\ gpc' = "eval" => \/ held' > 0 /\ held' >= point
                               \/ held' = 0 /\ fresh
           /\ gpc' # "eval" => nextEval' = point
    BY <1>1 DEF TakeSlot, trainerVars
  <2>2. SUFFICES ASSUME latest = NoState, step > 0 PROVE Resumed'
    BY <2>1 DEF Resumed
  <2>3. /\ ~fresh /\ \A i \in 1 .. Len(tokens) : tokens[i] \in {0, step}
        /\ \A i \in 1 .. Len(queue) : queue[i].kind # "eval"
        /\ synced => nextEval > step
    BY <2>2 DEF Resumed
  <2>4. held' \in {0, step}
    BY <2>1, <2>3, TokenTaken
  <2>5. NextPoint(step) \in Nat /\ NextPoint(step) > step
    BY <1>0, PointAhead
  <2>6. gpc' # "eval"
    BY <1>0, <2>1, <2>2, <2>3, <2>4, <2>5
  <2>7. synced' => nextEval' > step
    <3>1. CASE held' = 0
      BY <1>0, <2>1, <2>3, <2>6, <3>1
    <3>2. CASE held' = step
      BY <1>0, <2>1, <2>2, <2>3, <2>5, <2>6, <3>2
    <3>. QED
      BY <2>4, <3>1, <3>2
  <2>8. \A i \in 1 .. Len(tokens') : tokens'[i] \in {0, step}
    BY <2>1, <2>3, TokenTaken
  <2>. QED
    BY <2>1, <2>3, <2>4, <2>6, <2>7, <2>8 DEF Resumed
<1>2. CASE Evaluate
  BY <1>2 DEF Evaluate, Resumed, trainerVars
<1>3. CASE Refill \/ \E g \in inflight : Collect(g)
  <2>1. /\ UNCHANGED <<latest, step, fresh, tokens, held, queue, synced, nextEval>>
        /\ gpc \in {"refill", "wait"} /\ gpc' \in {"refill", "wait", "ship"}
    BY <1>3 DEF Refill, Collect, trainerVars
  <2>. QED
    BY <2>1 DEF Resumed, Working
<1>4. CASE Ship
  <2>1. /\ UNCHANGED <<latest, step, fresh, held, synced, nextEval>>
        /\ gpc = "ship" /\ gpc' \in {"slot", "ending"}
        /\ \/ tokens' = Append(tokens, held) /\ queue' = queue
           \/ tokens' = tokens /\ queue' = Append(queue, Sending)
    BY <1>4, ShipIs
  <2>2. SUFFICES ASSUME latest = NoState, step > 0 PROVE Resumed'
    BY <2>1 DEF Resumed
  <2>3. /\ ~fresh /\ \A i \in 1 .. Len(tokens) : tokens[i] \in {0, step}
        /\ \A i \in 1 .. Len(queue) : queue[i].kind # "eval"
        /\ synced => nextEval > step
        /\ held \in {0, step}
    BY <2>1, <2>2 DEF Resumed, Working
  <2>4. \A i \in 1 .. Len(tokens') : tokens'[i] \in {0, step}
    BY <1>0, <2>1, <2>3, TokenAppended
  <2>5. \A i \in 1 .. Len(queue') : queue'[i].kind # "eval"
    <3>1. CASE queue' = Append(queue, Sending)
      BY <2>3, <3>1, SendingIs, QueueAppended
    <3>. QED
      BY <2>1, <2>3, <3>1
  <2>. QED
    BY <2>1, <2>3, <2>4, <2>5 DEF Resumed, Working
<1>5. CASE PutDone
  <2>1. /\ UNCHANGED <<latest, step, fresh, tokens, synced, nextEval>>
        /\ gpc' = "done" /\ queue' = Append(queue, Done)
    BY <1>5 DEF PutDone, trainerVars
  <2>2. (latest = NoState /\ step > 0) => \A i \in 1 .. Len(queue') : queue'[i].kind # "eval"
    BY <2>1, EntryKinds, QueueAppended DEF Resumed
  <2>. QED
    BY <2>1, <2>2 DEF Resumed, Working
<1>6. CASE TakeBatch \/ TakeDone
  <2>1. /\ UNCHANGED <<latest, step, fresh, gpc, held, synced, nextEval>>
        /\ tokens' \in {tokens, Append(tokens, step)}
        /\ queue # <<>> /\ queue' = Tail(queue)
    BY <1>6 DEF TakeBatch, TakeDone, generatorVars
  <2>2. SUFFICES ASSUME latest = NoState, step > 0 PROVE Resumed'
    BY <2>1 DEF Resumed
  <2>3. /\ ~fresh /\ \A i \in 1 .. Len(tokens) : tokens[i] \in {0, step}
        /\ \A i \in 1 .. Len(queue) : queue[i].kind # "eval"
    BY <2>2 DEF Resumed
  <2>4. \A i \in 1 .. Len(tokens') : tokens'[i] \in {0, step}
    BY <1>0, <2>1, <2>3, TokenAppended
  <2>5. \A i \in 1 .. Len(queue') : queue'[i].kind # "eval"
    BY <2>1, <2>3, QueueTaken
  <2>. QED
    BY <2>1, <2>2, <2>4, <2>5 DEF Resumed, Working
<1>7. CASE TakeEval
  <2>1. /\ UNCHANGED <<latest, step>> /\ queue # <<>> /\ queue' = Tail(queue)
        /\ Head(queue).kind = "eval"
    BY <1>7 DEF TakeEval, trainerVars
  <2>2. ~(latest = NoState /\ step > 0)
    BY <2>1, QueueTaken DEF Resumed
  <2>. QED
    BY <2>1, <2>2 DEF Resumed
<1>8. CASE Optimize \/ FinalSave \/ KillGenerator
  <2>1. /\ UNCHANGED <<latest, step, fresh, tokens, held, queue, synced, nextEval>>
        /\ gpc' \in {gpc, "done"}
    BY <1>8 DEF Optimize, FinalSave, KillGenerator, generatorVars, trainerVars
  <2>. QED
    BY <2>1 DEF Resumed, Working
<1>9. CASE Refit
  <2>1. latest' = training.at /\ tpc = "refit"
    BY <1>9 DEF Refit
  <2>2. latest' # NoState
    BY <2>1, NotNothing DEF Places, Snapshots
  <2>. QED
    BY <2>2 DEF Resumed
<1>10. CASE Crash
  <2>0. PICK c \in States, s \in Nat, seen \in SUBSET Prompts, lost \in SUBSET Prompts :
          Afresh(c, s, seen, lost)
    BY <1>10, CrashIs
  <2>1. /\ \A i \in 1 .. Len(tokens') : tokens'[i] = 0
        /\ Len(queue') = 0 /\ gpc' \in {"slot", "done"} /\ step' = s
        /\ s > 0 => c # NoState
        /\ fresh' = (c = NoState) /\ synced' = (c = NoState)
    BY <2>0 DEF Afresh
  <2>2. step' > 0 => ~fresh' /\ ~synced'
    BY <2>1
  <2>. QED
    BY <2>1, <2>2 DEF Resumed, Working
<1>. QED
  BY <1>1, <1>2, <1>3, <1>4, <1>5, <1>6, <1>7, <1>8, <1>9, <1>10 DEF Next, Generator, Trainer

\* A checkpoint of sound client states is sound.
LEMMA CkptSound ==
    ASSUME NEW at, NEW s \in Nat, NEW seen, Sound(at, seen, skipped, Most),
           s > 0 => at # NoState, s = 0 => seen = {}
    PROVE  SoundCkpt(Ckpt(at, s, seen))
BY DEF SoundCkpt, Ckpt

\* Every checkpoint on disk stays one that a job can resume from.
LEMMA SavedStep ==
    ASSUME TypeOK, Places, Snapshots, Resumed, Saved, Next
    PROVE  Saved'
<1>0. mode' = mode /\ Most' = Most /\ step \in Nat /\ mode.forceSync \in BOOLEAN
  <2>1. mode' = mode
    BY DEF Next, Generator, Trainer, KillGenerator, Crash, TakeSlot, Evaluate, Refill, Collect,
          Ship, PutDone, TakeBatch, TakeEval, TakeDone, Optimize, Refit, FinalSave, runVars
  <2>. QED
    BY <2>1, Types DEF Most
<1>1. ASSUME UNCHANGED <<saved, best>> PROVE Saved'
  BY <1>0, <1>1 DEF Saved, SoundCkpt
<1>2. CASE Generator \/ KillGenerator \/ Crash \/ TakeBatch \/ TakeDone \/ Optimize
  <2>1. UNCHANGED <<saved, best>>
    BY <1>2 DEF Generator, KillGenerator, Crash, TakeSlot, Evaluate, Refill, Collect,
          Ship, PutDone, TakeBatch, TakeDone, Optimize, diskVars
  <2>. QED
    BY <1>1, <2>1
<1>3. CASE TakeEval
  <2>1. /\ saved' = saved /\ queue # <<>> /\ Head(queue).kind = "eval" /\ queue' = Tail(queue)
        /\ \/ best' = best
           \/ best' = [kind |-> "best", ckpt |-> Ckpt(latest, step, trained),
                       tag |-> Head(queue).step, evaluated |-> Head(queue).evaluated]
    BY <1>3 DEF TakeEval
  <2>2. latest = NoState => step = 0
    BY <1>0, <2>1, QueueTaken DEF Resumed
  <2>3. Sound(latest, trained, skipped, Most)
    <3>1. CASE latest = NoState
      <4>1. trained = {}
        BY <2>2, <3>1 DEF Snapshots
      <4>. QED
        BY <1>0, <3>1, <4>1, NothingRead
    <3>2. CASE latest # NoState
      BY <3>2 DEF Snapshots
    <3>. QED
      BY <3>1, <3>2
  <2>4. SoundCkpt(Ckpt(latest, step, trained))
    BY <1>0, <2>2, <2>3, CkptSound DEF Snapshots
  <2>. QED
    BY <1>0, <2>1, <2>4 DEF Saved, SoundCkpt
<1>4. CASE Refit
  <2>1. /\ best' = best /\ latest' = training.at /\ step' = step + 1 /\ tpc = "refit"
        /\ trained' = trained \union Ids(training.groups)
        /\ saved' \in {saved, Ckpt(latest', step', trained')}
    BY <1>4 DEF Refit
  <2>2. training # NoBatch /\ Ids(training.groups) = Of(training)
    BY <2>1, Types, EntryKinds, OfEntry DEF Places
  <2>3. trained' = Seen(0)
    BY <2>1, <2>2 DEF Seen
  <2>4. Sound(latest', trained', skipped, Most) /\ latest' # NoState
    BY <2>1, <2>2, <2>3, NotNothing DEF Snapshots
  <2>5. step' \in Nat /\ step' # 0
    BY <1>0, <2>1
  <2>6. SoundCkpt(Ckpt(latest', step', trained'))
    BY <2>4, <2>5, CkptSound
  <2>. QED
    BY <1>0, <2>1, <2>6 DEF Saved, SoundCkpt
<1>5. CASE FinalSave
  <2>1. /\ best' = best
        /\ saved' = saved \/ (latest # NoState /\ saved' = Ckpt(latest, step, trained))
    BY <1>5 DEF FinalSave
  <2>2. latest # NoState => SoundCkpt(Ckpt(latest, step, trained))
    BY <1>0, CkptSound DEF Snapshots
  <2>. QED
    BY <1>0, <2>1, <2>2 DEF Saved, SoundCkpt
<1>. QED
  BY <1>2, <1>3, <1>4, <1>5 DEF Next, Trainer

\* The command line stays.
LEMMA ModeStays == ASSUME Next PROVE mode' = mode
BY DEF Next, Generator, Trainer, KillGenerator, Crash, TakeSlot, Evaluate, Refill, Collect,
      Ship, PutDone, TakeBatch, TakeEval, TakeDone, Optimize, Refit, FinalSave, runVars

\* In force_sync_mode no token is made twice.
LEMMA TokensStep ==
    ASSUME TypeOK, Places, Pool, Reading, Ending, Tokens, Saved, Next
    PROVE  Tokens'
<1>0. /\ Len(tokens) \in Nat /\ Len(queue) \in Nat /\ mode.queueSize \in Nat /\ mode' = mode
      /\ step \in Nat /\ held \in Nat
  BY Types, Entry, ModeStays
<1>1. SUFFICES ASSUME mode.forceSync PROVE Tokens'
  BY <1>0 DEF Tokens
<1>2. Len(tokens) + Busy + Taken + Len(queue) <= mode.queueSize + (IF gpc = "done" THEN 1 ELSE 0)
  BY <1>1 DEF Tokens
<1>3. Busy \in {0, 1} /\ Taken \in {0, 1}
  BY DEF Busy, Taken
<1>4. CASE TakeSlot
  <2>1. /\ UNCHANGED <<training, queue>> /\ gpc = "slot" /\ gpc' \in {"eval", "refill"}
        /\ tokens # <<>> /\ tokens' = Tail(tokens)
    BY <1>4 DEF TakeSlot, trainerVars
  <2>2. Busy = 0 /\ Busy' = 1 /\ Taken' = Taken /\ Len(queue') = Len(queue)
    BY <2>1 DEF Busy, Taken, Working
  <2>3. Len(tokens') = Len(tokens) - 1
    BY <2>1, TokenTaken
  <2>. QED
    BY <1>0, <1>2, <1>3, <2>1, <2>2, <2>3 DEF Tokens
<1>5. CASE Evaluate
  <2>1. /\ UNCHANGED <<training, tokens>> /\ gpc = "eval" /\ gpc' = "slot"
        /\ queue' = Append(queue, EvalResult) /\ EvalResult \in Entries
    <3>1. EvalResult \in Evals
      BY Types DEF EvalResult, Evals
    <3>. QED
      BY <1>5, <3>1, EntryKinds DEF Evaluate, EvalResult, trainerVars
  <2>2. Busy = 1 /\ Busy' = 0 /\ Taken' = Taken /\ Len(tokens') = Len(tokens)
    BY <2>1 DEF Busy, Taken, Working
  <2>3. Len(queue') = Len(queue) + 1
    BY <2>1, QueueAppended
  <2>. QED
    BY <1>0, <1>2, <1>3, <2>1, <2>2, <2>3 DEF Tokens
<1>6. CASE Refill \/ \E g \in inflight : Collect(g)
  <2>1. /\ UNCHANGED <<training, tokens, queue>> /\ gpc \in {"refill", "wait"}
        /\ gpc' \in {"refill", "wait", "ship"}
    BY <1>6 DEF Refill, Collect, trainerVars
  <2>2. Busy = 1 /\ Busy' = 1 /\ Taken' = Taken
    BY <2>1 DEF Busy, Taken, Working
  <2>. QED
    BY <1>0, <1>2, <2>1, <2>2 DEF Tokens
<1>7. CASE Ship
  <2>1. /\ training' = training /\ gpc = "ship" /\ gpc' \in {"slot", "ending"}
        /\ \/ tokens' = Append(tokens, held) /\ queue' = queue
           \/ tokens' = tokens /\ queue' = Append(queue, Sending)
    BY <1>7, ShipIs
  <2>2. Busy = 1 /\ Busy' = 0 /\ Taken' = Taken
    BY <2>1 DEF Busy, Taken, Working
  <2>3. /\ Len(tokens') \in Nat /\ Len(queue') \in Nat
        /\ Len(tokens') + Len(queue') = Len(tokens) + Len(queue) + 1
    <3>1. CASE tokens' = Append(tokens, held) /\ queue' = queue
      <4>1. Len(tokens') = Len(tokens) + 1 /\ Len(queue') = Len(queue)
        BY <1>0, <3>1, TokenAppended
      <4>. QED
        BY <1>0, <4>1
    <3>2. CASE tokens' = tokens /\ queue' = Append(queue, Sending)
      <4>1. Sending \in Entries
        BY SendingIs
      <4>2. Len(queue') = Len(queue) + 1 /\ Len(tokens') = Len(tokens)
        BY <3>2, <4>1, QueueAppended
      <4>. QED
        BY <1>0, <4>2
    <3>. QED
      BY <2>1, <3>1, <3>2
  <2>. QED
    BY <1>0, <1>2, <1>3, <2>1, <2>2, <2>3 DEF Tokens
<1>8. CASE PutDone
  <2>1. /\ UNCHANGED <<training, tokens>> /\ gpc = "ending" /\ gpc' = "done"
        /\ queue' = Append(queue, Done) /\ Done \in Entries
    BY <1>8, EntryKinds DEF PutDone, trainerVars
  <2>2. Busy = 0 /\ Busy' = 0 /\ Taken' = Taken /\ Len(tokens') = Len(tokens)
    BY <2>1 DEF Busy, Taken, Working
  <2>3. Len(queue') = Len(queue) + 1
    BY <2>1, QueueAppended
  <2>. QED
    BY <1>0, <1>2, <1>3, <2>1, <2>2, <2>3 DEF Tokens
<1>9. CASE TakeBatch \/ TakeEval \/ TakeDone
  <2>1. /\ tpc = "get" /\ queue # <<>> /\ queue' = Tail(queue) /\ gpc' = gpc
        /\ \/ tokens' = tokens
           \/ tokens' = Append(tokens, step) /\ training' = training
    BY <1>1, <1>9 DEF TakeBatch, TakeEval, TakeDone, generatorVars, trainerVars
  <2>2. training = NoBatch
    BY <2>1 DEF Places
  <2>3. Taken = 0 /\ Taken' \in {0, 1} /\ (training' = training => Taken' = 0) /\ Busy' = Busy
    BY <2>1, <2>2 DEF Taken, Busy
  <2>4. Len(queue') = Len(queue) - 1
    BY <2>1, QueueTaken
  <2>5. Len(tokens') + Taken' <= Len(tokens) + 1 /\ Len(tokens') \in Nat
    BY <1>0, <2>1, <2>3, TokenAppended
  <2>. QED
    BY <1>0, <1>2, <1>3, <2>1, <2>3, <2>4, <2>5 DEF Tokens
<1>10. CASE Optimize \/ FinalSave
  <2>1. UNCHANGED <<training, tokens, queue, gpc>>
    BY <1>10 DEF Optimize, FinalSave, generatorVars
  <2>. QED
    BY <1>0, <1>2, <2>1 DEF Tokens, Busy, Taken
<1>11. CASE Refit
  <2>1. /\ UNCHANGED <<queue, gpc>> /\ tpc = "refit" /\ training' = NoBatch
        /\ tokens' = Append(tokens, step + 1)
    BY <1>1, <1>11 DEF Refit, generatorVars
  <2>2. Taken = 1 /\ Taken' = 0 /\ Busy' = Busy
    BY <2>1 DEF Places, Taken, Busy
  <2>3. Len(tokens') = Len(tokens) + 1
    <3>1. step + 1 \in Nat
      BY <1>0
    <3>. QED
      BY <2>1, <3>1, TokenAppended
  <2>. QED
    BY <1>0, <1>2, <1>3, <2>1, <2>2, <2>3 DEF Tokens
<1>12. CASE KillGenerator
  <2>1. UNCHANGED <<training, tokens, queue>> /\ gpc # "done" /\ gpc' = "done"
    BY <1>12 DEF KillGenerator, trainerVars
  <2>2. Busy' = 0 /\ Taken' = Taken
    BY <2>1 DEF Busy, Taken, Working
  <2>. QED
    BY <1>0, <1>2, <1>3, <2>1, <2>2 DEF Tokens
<1>13. CASE Crash
  <2>0. PICK c \in States, s \in Nat, seen \in SUBSET Prompts, lost \in SUBSET Prompts :
          Afresh(c, s, seen, lost)
    BY <1>13, CrashIs
  <2>1. /\ Len(tokens') = mode.queueSize /\ Len(queue') = 0 /\ training' = NoBatch
        /\ gpc' \in {"slot", "done"}
    BY <2>0 DEF Afresh
  <2>2. Busy' = 0 /\ Taken' = 0
    BY <2>1 DEF Busy, Taken, Working
  <2>. QED
    BY <1>0, <2>1, <2>2 DEF Tokens
<1>. QED
  BY <1>4, <1>5, <1>6, <1>7, <1>8, <1>9, <1>10, <1>11, <1>12, <1>13 DEF Next, Generator, Trainer

\* The fewer batches before it, the sooner.
LEMMA Sooner ==
    ASSUME TypeOK, NEW g \in Groups, NEW n \in Nat, NEW m \in Nat, m <= n, Timely(g, n)
    PROVE  Timely(g, m)
BY Types DEF Timely, Groups

\* In force_sync_mode every group stays close enough to the engines.
LEMMA VersionsStep ==
    ASSUME TypeOK, Places, Pool, Reading, Read, Tokens, Versions, Saved, Next
    PROVE  Versions'
<1>0. /\ Len(tokens) \in Nat /\ Len(queue) \in Nat /\ mode.queueSize \in Nat /\ mode' = mode
      /\ engine \in Nat /\ Taken \in {0, 1}
      /\ inflight \subseteq Groups /\ finished \subseteq Groups
      /\ \A i \in 1 .. Len(queue) : queue[i] \in Entries
  BY Types, Entry, ModeStays DEF Taken
<1>1. SUFFICES ASSUME mode.forceSync PROVE Versions'
  BY <1>0 DEF Versions
<1>2. /\ \A g \in inflight \union finished : Timely(g, Len(queue) + Taken)
      /\ \A i \in 1 .. Len(queue) : queue[i].kind = "batch" =>
            \A g \in queue[i].groups : Timely(g, i - 1 + Taken)
      /\ training # NoBatch => \A g \in training.groups : Timely(g, 0)
  BY <1>1 DEF Versions
<1>3. CASE TakeSlot \/ Optimize \/ FinalSave \/ KillGenerator
  <2>1. UNCHANGED <<engine, inflight, finished, queue, training>>
    BY <1>3 DEF TakeSlot, Optimize, FinalSave, KillGenerator, generatorVars, trainerVars
  <2>. QED
    BY <1>0, <1>2, <2>1 DEF Versions, Timely, Taken
<1>4. CASE Evaluate \/ PutDone
  <2>1. /\ UNCHANGED <<engine, inflight, finished, training>> /\ gpc \in {"eval", "ending"}
    BY <1>4 DEF Evaluate, PutDone, trainerVars
  <2>2. PICK x \in Entries : queue' = Append(queue, x) /\ x.kind # "batch"
    BY <1>4, <2>1, GeneratorQueue, EntryKinds DEF Generator, Evaluate, PutDone
  <2>3. inflight = {} /\ finished = {}
    BY <1>1, <2>1 DEF Pool
  <2>4. \A i \in 1 .. Len(queue') : queue'[i].kind = "batch" =>
           i \in 1 .. Len(queue) /\ queue'[i] = queue[i]
    BY <2>2, QueueAppended
  <2>. QED
    BY <1>0, <1>2, <2>1, <2>3, <2>4 DEF Versions, Timely, Taken
<1>5. CASE Refill
  <2>1. PICK n : n = Here
    OBVIOUS
  <2>2. /\ gpc = "refill" /\ \A g \in inflight' : g \in inflight \/ g.ver = engine
        /\ UNCHANGED <<engine, finished, queue, training>>
    BY <1>5, <2>1, RefillIs DEF Read
  <2>3. Len(queue) + Taken < mode.queueSize
    <3>1. Busy = 1
      BY <2>2 DEF Busy, Working
    <3>. QED
      BY <1>0, <1>1, <2>2, <3>1 DEF Tokens
  <2>4. \A g \in inflight' \union finished : Timely(g, Len(queue) + Taken)
    <3>. TAKE g \in inflight' \union finished
    <3>1. CASE g.ver = engine
      BY <1>0, <2>3, <3>1 DEF Timely
    <3>. QED
      BY <1>2, <2>2, <3>1
  <2>. QED
    BY <1>0, <1>2, <2>2, <2>4 DEF Versions, Timely, Taken
<1>6. ASSUME NEW g \in inflight, Collect(g) PROVE Versions'
  <2>1. /\ UNCHANGED <<engine, queue, training>>
        /\ inflight' \union finished' \subseteq inflight \union finished
    BY <1>6, CollectIs
  <2>. QED
    BY <1>0, <1>2, <2>1 DEF Versions, Timely, Taken
<1>7. CASE Ship
  <2>1. /\ UNCHANGED <<engine, training, inflight>> /\ gpc = "ship" /\ finished' = {}
        /\ queue' = queue \/ queue' = Append(queue, Sending)
    BY <1>7, ShipIs
  <2>2. inflight = {}
    BY <1>1, <2>1, NoneBehind
  <2>3. CASE queue' = queue
    BY <1>0, <1>2, <2>1, <2>2, <2>3 DEF Versions, Timely, Taken
  <2>4. CASE queue' = Append(queue, Sending)
    <3>1. \A i \in 1 .. Len(queue') :
             \/ i = Len(queue) + 1 /\ queue'[i].groups = finished
             \/ i \in 1 .. Len(queue) /\ queue'[i] = queue[i]
      BY <2>4, QueueAppended, SendingIs
    <3>2. \A i \in 1 .. Len(queue') : queue'[i].kind = "batch" =>
             \A g \in queue'[i].groups : Timely(g, i - 1 + Taken)
      <4>. TAKE i \in 1 .. Len(queue')
      <4>1. CASE i = Len(queue) + 1 /\ queue'[i].groups = finished
        <5>1. i - 1 + Taken = Len(queue) + Taken
          BY <1>0, <4>1
        <5>. QED
          BY <1>2, <4>1, <5>1
      <4>2. CASE i \in 1 .. Len(queue) /\ queue'[i] = queue[i]
        BY <1>2, <4>2
      <4>. QED
        BY <3>1, <4>1, <4>2
    <3>. QED
      BY <1>0, <1>2, <2>1, <2>2, <3>2 DEF Versions, Timely, Taken
  <2>. QED
    BY <2>1, <2>3, <2>4
<1>8. CASE TakeBatch
  <2>1. /\ UNCHANGED <<engine, inflight, finished>> /\ tpc = "get" /\ queue # <<>>
        /\ queue' = Tail(queue) /\ training' = Head(queue) /\ Head(queue).kind = "batch"
    BY <1>8 DEF TakeBatch, generatorVars
  <2>2. Taken = 0 /\ Taken' = 1
    BY <2>1, EntryKinds DEF Places, Taken
  <2>3. /\ Len(queue') = Len(queue) - 1 /\ 1 \in 1 .. Len(queue) /\ training' = queue[1]
        /\ \A i \in 1 .. Len(queue') : i + 1 \in 1 .. Len(queue) /\ queue'[i] = queue[i + 1]
    BY <2>1, QueueTaken
  <2>4. \A g \in inflight \union finished : Timely(g, Len(queue') + 1)
    <3>1. Len(queue') + 1 = Len(queue) + Taken
      BY <1>0, <2>2, <2>3
    <3>. QED
      BY <1>2, <3>1
  <2>5. \A i \in 1 .. Len(queue') : queue'[i].kind = "batch" =>
           \A g \in queue'[i].groups : Timely(g, i - 1 + 1)
    <3>. TAKE i \in 1 .. Len(queue')
    <3>1. i - 1 + 1 = (i + 1) - 1 + Taken
      BY <1>0, <2>2, <2>3
    <3>. QED
      BY <1>2, <2>3, <3>1
  <2>6. \A g \in training'.groups : Timely(g, 0)
    <3>1. 1 - 1 + Taken = 0
      BY <2>2
    <3>2. queue[1].kind = "batch"
      BY <2>1, <2>3
    <3>3. \A g \in queue[1].groups : Timely(g, 1 - 1 + Taken)
      BY <1>2, <2>3, <3>2
    <3>. QED
      BY <2>3, <3>1, <3>3
  <2>. QED
    BY <1>0, <2>1, <2>2, <2>4, <2>5, <2>6 DEF Versions, Timely
<1>9. CASE TakeEval \/ TakeDone
  <2>1. /\ UNCHANGED <<engine, inflight, finished, training>> /\ tpc = "get" /\ queue # <<>>
        /\ queue' = Tail(queue)
    BY <1>9 DEF TakeEval, TakeDone, generatorVars, trainerVars
  <2>2. training = NoBatch /\ Taken = 0 /\ Taken' = 0
    BY <2>1 DEF Places, Taken
  <2>3. /\ Len(queue) \in Nat \ {0} /\ Len(queue') = Len(queue) - 1
        /\ \A i \in 1 .. Len(queue') : i + 1 \in 1 .. Len(queue) /\ queue'[i] = queue[i + 1]
    BY <2>1, QueueTaken
  <2>4. \A g \in inflight \union finished : Timely(g, Len(queue') + 0)
    BY <1>0, <1>2, <2>2, <2>3, Sooner
  <2>5. \A i \in 1 .. Len(queue') : queue'[i].kind = "batch" =>
           \A g \in queue'[i].groups : Timely(g, i - 1 + 0)
    <3>. TAKE i \in 1 .. Len(queue')
    <3>1. SUFFICES ASSUME queue'[i].kind = "batch", NEW g \in queue'[i].groups
                   PROVE  Timely(g, i - 1 + 0)
      OBVIOUS
    <3>2. i + 1 \in 1 .. Len(queue) /\ queue'[i] = queue[i + 1] /\ i \in Nat \ {0}
      BY <1>0, <2>3
    <3>3. Timely(g, (i + 1) - 1 + Taken) /\ g \in Groups
      BY <1>0, <1>2, <3>1, <3>2, EntryKinds
    <3>4. i - 1 + 0 \in Nat /\ (i + 1) - 1 + Taken \in Nat /\ i - 1 + 0 <= (i + 1) - 1 + Taken
      BY <2>2, <3>2
    <3>. QED
      BY <3>3, <3>4, Sooner
  <2>. QED
    BY <1>0, <2>1, <2>2, <2>4, <2>5 DEF Versions, Timely
<1>10. CASE Refit
  <2>1. /\ UNCHANGED <<inflight, finished, queue>> /\ tpc = "refit" /\ training' = NoBatch
        /\ engine' = step + 1
    BY <1>10 DEF Refit, generatorVars
  <2>2. Taken = 1 /\ Taken' = 0 /\ engine' = engine + 1
    BY <2>1 DEF Places, Taken
  <2>3. \A g \in Groups : \A n \in Nat : Timely(g, n + 1) => engine' - g.ver + n < mode.queueSize
    BY <1>0, <2>2 DEF Timely, Groups
  <2>4. \A g \in inflight \union finished : engine' - g.ver + (Len(queue) + 0) < mode.queueSize
    BY <1>0, <1>2, <2>2, <2>3
  <2>5. \A i \in 1 .. Len(queue) : queue[i].kind = "batch" =>
           \A g \in queue[i].groups : engine' - g.ver + (i - 1 + 0) < mode.queueSize
    <3>. TAKE i \in 1 .. Len(queue)
    <3>1. SUFFICES ASSUME queue[i].kind = "batch", NEW g \in queue[i].groups
                   PROVE  engine' - g.ver + (i - 1 + 0) < mode.queueSize
      OBVIOUS
    <3>2. Timely(g, i - 1 + Taken) /\ g \in Groups
      BY <1>0, <1>2, <3>1, EntryKinds
    <3>3. i - 1 + Taken = (i - 1 + 0) + 1 /\ i - 1 + 0 \in Nat
      BY <1>0, <2>2
    <3>. QED
      BY <2>3, <3>2, <3>3
  <2>. QED
    BY <1>0, <2>1, <2>2, <2>4, <2>5 DEF Versions, Timely
<1>11. CASE Crash
  <2>0. PICK c \in States, s \in Nat, seen \in SUBSET Prompts, lost \in SUBSET Prompts :
          Afresh(c, s, seen, lost)
    BY <1>11, CrashIs
  <2>1. inflight' = {} /\ finished' = {} /\ Len(queue') = 0 /\ training' = NoBatch
    BY <2>0 DEF Afresh
  <2>. QED
    BY <2>1 DEF Versions
<1>. QED
  BY <1>3, <1>4, <1>5, <1>6, <1>7, <1>8, <1>9, <1>10, <1>11 DEF Next, Generator, Trainer

\* With a queue of one in force_sync_mode, nothing waits while a batch is trained.
LEMMA Alone ==
    ASSUME TypeOK, Places, Ending, Tokens, mode.forceSync, mode.queueSize = 1, tpc = "refit"
    PROVE  /\ Len(tokens) = 0 /\ gpc \notin Working
           /\ \A i \in 1 .. Len(queue) : queue[i].kind # "eval"
<1>1. Len(tokens) \in Nat /\ Len(queue) \in Nat
  BY Types, Entry
<1>2. Taken = 1 /\ Busy \in {0, 1} /\ (gpc \in Working <=> Busy = 1)
  BY DEF Places, Taken, Busy
<1>3. Len(tokens) + Busy + Taken + Len(queue) <= 1 + (IF gpc = "done" THEN 1 ELSE 0)
  BY DEF Tokens
<1>4. CASE gpc # "done"
  BY <1>1, <1>2, <1>3, <1>4
<1>5. CASE gpc = "done"
  <2>1. Busy = 0 /\ Len(queue) > 0 /\ queue[Len(queue)] = Done
    BY <1>5 DEF Busy, Working, Ending
  <2>2. Len(tokens) = 0 /\ Len(queue) = 1
    <3>1. Busy = 0 /\ Taken = 1
      BY <1>2, <2>1
    <3>2. Len(tokens) + 0 + 1 + Len(queue) <= 2
      BY <1>3, <1>5, <3>1
    <3>. QED
      BY <1>1, <2>1, <3>2
  <2>3. \A i \in 1 .. Len(queue) : i = Len(queue)
    BY <2>2
  <2>. QED
    BY <1>2, <2>1, <2>2, <2>3, EntryKinds
<1>. QED
  BY <1>4, <1>5

\* With a queue of one in force_sync_mode, every token that is not of the last restart has
\* the engines' step.
LEMMA SoloStep ==
    ASSUME TypeOK, Places, Pool, Reading, Ending, Tokens, Solo, Saved, Next
    PROVE  Solo'
<1>0. mode' = mode /\ step \in Nat /\ held \in Nat /\ engine = step /\ fresh \in BOOLEAN
  BY Types, ModeStays DEF Places
<1>1. SUFFICES ASSUME mode.forceSync, mode.queueSize = 1 PROVE Solo'
  BY <1>0 DEF Solo
<1> DEFINE Right(k) == k \in {0, step} /\ (k = 0 /\ fresh => step = 0)
<1>2. /\ \A i \in 1 .. Len(tokens) : Right(tokens[i])
      /\ gpc \in Working => Right(held)
      /\ gpc = "eval" => held = step
      /\ \A i \in 1 .. Len(queue) : queue[i].kind = "eval" =>
            queue[i].step = step /\ queue[i].evaluated = step
      /\ best # NoCkpt => best.ckpt.step = best.evaluated /\ best.tag = best.evaluated
  BY <1>1 DEF Solo
<1>3. CASE TakeSlot
  <2>1. /\ UNCHANGED <<step, fresh, queue, best>> /\ gpc' \in {"eval", "refill"}
        /\ tokens # <<>> /\ tokens' = Tail(tokens) /\ held' = Head(tokens)
        /\ gpc' = "eval" => held' > 0 \/ (held' = 0 /\ fresh)
    BY <1>3 DEF TakeSlot, trainerVars, diskVars
  <2>2. /\ Right(held') /\ held' \in Nat
        /\ \A i \in 1 .. Len(tokens') : Right(tokens'[i])
    BY <1>2, <2>1, TokenTaken
  <2>3. gpc' = "eval" => held' = step
    BY <1>0, <2>1, <2>2
  <2>. QED
    BY <1>2, <2>1, <2>2, <2>3 DEF Solo
<1>4. CASE Evaluate
  <2>1. /\ UNCHANGED <<step, fresh, tokens, best>> /\ gpc = "eval" /\ gpc' = "slot"
        /\ queue' = Append(queue, EvalResult)
    BY <1>4 DEF Evaluate, EvalResult, trainerVars, diskVars
  <2>2. EvalResult \in Entries
    <3>1. EvalResult \in Evals
      BY Types DEF EvalResult, Evals
    <3>. QED
      BY <3>1, EntryKinds
  <2>3. EvalResult.step = step /\ EvalResult.evaluated = step
    BY <1>0, <1>2, <2>1 DEF EvalResult
  <2>4. \A i \in 1 .. Len(queue') : queue'[i].kind = "eval" =>
           queue'[i].step = step /\ queue'[i].evaluated = step
    BY <1>2, <2>1, <2>2, <2>3, QueueAppended
  <2>. QED
    BY <1>2, <2>1, <2>4 DEF Solo, Working
<1>5. CASE Refill \/ \E g \in inflight : Collect(g)
  <2>1. /\ UNCHANGED <<step, fresh, tokens, held, queue, best>>
        /\ gpc \in {"refill", "wait"} /\ gpc' \in {"refill", "wait", "ship"}
    BY <1>5 DEF Refill, Collect, trainerVars, diskVars
  <2>. QED
    BY <1>2, <2>1 DEF Solo, Working
<1>6. CASE Ship
  <2>1. /\ UNCHANGED <<step, fresh, best>> /\ gpc = "ship" /\ gpc' \in {"slot", "ending"}
        /\ \/ tokens' = Append(tokens, held) /\ queue' = queue
           \/ tokens' = tokens /\ queue' = Append(queue, Sending)
    BY <1>6, ShipIs
  <2>2. Right(held)
    BY <1>2, <2>1 DEF Working
  <2>3. \A i \in 1 .. Len(tokens') : Right(tokens'[i])
    BY <1>0, <1>2, <2>1, <2>2, TokenAppended
  <2>4. \A i \in 1 .. Len(queue') : queue'[i].kind = "eval" =>
           queue'[i].step = step /\ queue'[i].evaluated = step
    <3>1. CASE queue' = Append(queue, Sending)
      BY <1>2, <3>1, SendingIs, QueueAppended
    <3>. QED
      BY <1>2, <2>1, <3>1
  <2>. QED
    BY <1>2, <2>1, <2>3, <2>4 DEF Solo, Working
<1>7. CASE PutDone
  <2>1. /\ UNCHANGED <<step, fresh, tokens, best>> /\ gpc' = "done"
        /\ queue' = Append(queue, Done)
    BY <1>7 DEF PutDone, trainerVars, diskVars
  <2>2. \A i \in 1 .. Len(queue') : queue'[i].kind = "eval" =>
           queue'[i].step = step /\ queue'[i].evaluated = step
    BY <1>2, <2>1, EntryKinds, QueueAppended
  <2>. QED
    BY <1>2, <2>1, <2>2 DEF Solo, Working
<1>8. CASE TakeBatch \/ TakeDone
  <2>1. /\ UNCHANGED <<step, fresh, tokens, held, gpc, best>>
        /\ queue # <<>> /\ queue' = Tail(queue)
    BY <1>1, <1>8 DEF TakeBatch, TakeDone, generatorVars, diskVars
  <2>2. \A i \in 1 .. Len(queue') : queue'[i].kind = "eval" =>
           queue'[i].step = step /\ queue'[i].evaluated = step
    BY <1>2, <2>1, QueueTaken
  <2>. QED
    BY <1>2, <2>1, <2>2 DEF Solo
<1>9. CASE TakeEval
  <2>1. /\ UNCHANGED <<step, fresh, held, gpc>> /\ tokens' = Append(tokens, step)
        /\ queue # <<>> /\ queue' = Tail(queue) /\ Head(queue).kind = "eval"
        /\ \/ best' = best
           \/ best' = [kind |-> "best", ckpt |-> Ckpt(latest, step, trained),
                       tag |-> Head(queue).step, evaluated |-> Head(queue).evaluated]
    BY <1>9 DEF TakeEval, generatorVars, trainerVars
  <2>2. Head(queue).step = step /\ Head(queue).evaluated = step
    BY <1>2, <2>1, QueueTaken
  <2>3. \A i \in 1 .. Len(queue') : queue'[i].kind = "eval" =>
           queue'[i].step = step /\ queue'[i].evaluated = step
    BY <1>2, <2>1, QueueTaken
  <2>4. \A i \in 1 .. Len(tokens') : Right(tokens'[i])
    BY <1>0, <1>2, <2>1, TokenAppended
  <2>5. best' # NoCkpt => best'.ckpt.step = best'.evaluated /\ best'.tag = best'.evaluated
    BY <1>2, <2>1, <2>2 DEF Ckpt
  <2>. QED
    BY <1>2, <2>1, <2>3, <2>4, <2>5 DEF Solo
<1>10. CASE Optimize \/ FinalSave \/ KillGenerator
  <2>1. UNCHANGED <<step, fresh, tokens, held, queue, best>> /\ gpc' \in {gpc, "done"}
    BY <1>10 DEF Optimize, FinalSave, KillGenerator, generatorVars, trainerVars, diskVars
  <2>. QED
    BY <1>2, <2>1 DEF Solo, Working
<1>11. CASE Refit
  <2>1. /\ UNCHANGED <<fresh, held, queue, gpc, best>> /\ tpc = "refit" /\ step' = step + 1
        /\ tokens' = Append(tokens, step + 1)
    BY <1>1, <1>11 DEF Refit, generatorVars
  <2>2. /\ Len(tokens) = 0 /\ gpc \notin Working
        /\ \A i \in 1 .. Len(queue) : queue[i].kind # "eval"
    BY <1>1, <2>1, Alone
  <2>3. step + 1 \in Nat /\ step + 1 # 0
    BY <1>0
  <2>4. \A i \in 1 .. Len(tokens') : tokens'[i] = step + 1
    BY <2>1, <2>2, <2>3, TokenAppended
  <2>. QED
    BY <1>2, <2>1, <2>2, <2>3, <2>4 DEF Solo, Working
<1>12. CASE Crash
  <2>0. PICK c \in States, s \in Nat, seen \in SUBSET Prompts, lost \in SUBSET Prompts :
          Afresh(c, s, seen, lost)
    BY <1>12, CrashIs
  <2>1. /\ \A i \in 1 .. Len(tokens') : tokens'[i] = 0
        /\ Len(queue') = 0 /\ gpc' \in {"slot", "done"} /\ step' = s /\ best' = best
        /\ s > 0 => c # NoState
        /\ fresh' = (c = NoState)
    BY <2>0 DEF Afresh
  <2>2. fresh' => step' = 0
    <3>1. CASE s > 0
      BY <2>1, <3>1
    <3>2. CASE s = 0
      BY <2>1, <3>2
    <3>. QED
      BY <3>1, <3>2
  <2>. QED
    BY <1>2, <2>1, <2>2 DEF Solo, Working
<1>. QED
  BY <1>3, <1>4, <1>5, <1>6, <1>7, <1>8, <1>9, <1>10, <1>11, <1>12 DEF Next, Generator, Trainer

\* The types, after every step.
LEMMA TypeStep ==
    ASSUME Inv, Next, Locks'
    PROVE  TypeOK'
<1>a. TypeOK /\ Places /\ Pool /\ Reading /\ Read /\ Saved /\ Snapshots /\ Locks'
  BY DEF Inv
<1>b. lock' \in Seq({"generator", "trainer"})
  BY <1>a, Turns DEF Locks
<1>c. mode' = mode /\ mode \in Modes
  BY <1>a, ModeStays DEF TypeOK
<1>d. step + 1 \in Nat /\ 0 \in Nat
  BY <1>a, Types
<1>1. CASE TakeSlot
  <2>1. held' \in Nat /\ tokens' \in Seq(Nat)
    BY <1>a, <1>1, Types, Taking DEF TakeSlot
  <2>2. synced' \in BOOLEAN
    <3>1. synced' = (synced \/ Head(tokens) > 0)
      BY <1>1 DEF TakeSlot
    <3>. QED
      BY <3>1
  <2>3. NextPoint(Head(tokens)) \in Nat /\ Head(tokens) \in Nat
    <3>1. Head(tokens) \in Nat
      BY <1>a, <1>1, Types, Taking DEF TakeSlot
    <3>. QED
      BY <3>1, PointAhead
  <2>4. nextEval' \in Nat /\ lastEval' \in Nat \union {-1} /\ gpc' \in {"eval", "refill"}
    BY <1>a, <1>1, <2>3 DEF TakeSlot, TypeOK
  <2>5. UNCHANGED <<queue, engine, episode, again, cursor, drained, inflight, finished, fresh,
                    tpc, step, training, latest, trained, saved, best, mode, skipped,
                    crashes, dropped>>
    BY <1>1 DEF TakeSlot, trainerVars, diskVars, runVars
  <2>. QED
    BY <1>a, <1>b, <1>c, <1>d, <2>1, <2>2, <2>4, <2>5 DEF TypeOK
<1>2. CASE Evaluate
  <2>1. queue' \in Seq(Entries)
    BY <1>a, <1>2, GeneratorQueue, Types, EntryKinds, Appended DEF Evaluate, Generator
  <2>. QED
    BY <1>a, <1>b, <1>c, <1>d, <1>2, <2>1 DEF TypeOK, Evaluate, trainerVars, diskVars, runVars
<1>3. CASE Refill
  <2>1. PICK n : n = Here
    OBVIOUS
  <2>2. /\ gpc' = IF inflight' = {} THEN "ship" ELSE "wait"
        /\ cursor' \in 0 .. DataLen /\ drained' \in BOOLEAN /\ inflight' \subseteq Groups
        /\ UNCHANGED <<tokens, queue, lock, engine, held, episode, again, finished, fresh, synced,
                       lastEval, nextEval, tpc, step, training, latest, trained, saved, best,
                       mode, skipped, crashes, dropped>>
    BY <1>a, <1>3, <2>1, RefillIs DEF Read
  <2>. QED
    BY <1>a, <1>b, <1>c, <1>d, <2>2 DEF TypeOK
<1>4. ASSUME NEW g \in inflight, Collect(g) PROVE TypeOK'
  <2>1. /\ gpc' \in {"refill", "ship"} /\ inflight' = inflight \ {g} /\ g.id \in Prompts
        /\ \/ finished' = finished \union {g} /\ dropped' = dropped
           \/ dropped' = dropped \union {g.id} /\ finished' = finished
        /\ UNCHANGED <<tokens, queue, lock, engine, held, episode, again, cursor, drained, fresh,
                       synced, lastEval, nextEval, tpc, step, training, latest, trained,
                       saved, best, mode, skipped, crashes>>
    BY <1>a, <1>4, CollectIs
  <2>2. inflight' \subseteq Groups /\ finished' \subseteq Groups /\ dropped' \subseteq Prompts
    BY <1>a, <2>1, Types
  <2>. QED
    BY <1>a, <1>b, <1>c, <1>d, <2>1, <2>2 DEF TypeOK
<1>5. CASE Ship
  <2>1. PICK n : n = Here
    OBVIOUS
  <2>2. /\ gpc = "ship" /\ finished' = {}
        /\ \/ /\ tokens' = Append(tokens, held) /\ queue' = queue
              /\ dropped' = dropped \union Ids(finished)
           \/ tokens' = tokens /\ queue' = Append(queue, Sending) /\ dropped' = dropped
        /\ \/ gpc' = "slot" /\ UNCHANGED <<episode, cursor, drained>>
           \/ /\ inflight = {} /\ episode' = episode + 1 /\ cursor' = 0 /\ drained' = FALSE
              /\ gpc' = IF episode + 1 < Episodes THEN "slot" ELSE "ending"
        /\ UNCHANGED <<engine, held, again, inflight, fresh, synced, lastEval, nextEval, tpc, step,
                       training, latest, trained, saved, best, mode, skipped, crashes>>
    BY <1>a, <1>5, <2>1, ShipIs
  <2>3. queue' \in Seq(Entries) /\ tokens' \in Seq(Nat)
    <3>1. Sending \in Entries /\ held \in Nat /\ queue \in Seq(Entries) /\ tokens \in Seq(Nat)
      BY <1>a, Types, SendingIs, EntryKinds
    <3>2. Append(tokens, held) \in Seq(Nat) /\ Append(queue, Sending) \in Seq(Entries)
      BY <3>1, Appended
    <3>. QED
      BY <2>2, <3>1, <3>2
  <2>4. dropped' \subseteq Prompts
    BY <1>a, <2>2, Types, IdsOf
  <2>5. /\ episode' \in 0 .. Episodes /\ cursor' \in 0 .. DataLen /\ drained' \in BOOLEAN
        /\ gpc' \in {"slot", "ending"}
    <3>1. episode \in Nat /\ episode < Episodes /\ Episodes \in Nat /\ DataLen \in Nat
      BY <1>a, <2>2, Types, Sizes DEF Reading
    <3>2. /\ episode \in 0 .. Episodes /\ cursor \in 0 .. DataLen /\ drained \in BOOLEAN
          /\ episode + 1 \in 0 .. Episodes /\ 0 \in 0 .. DataLen /\ FALSE \in BOOLEAN
      BY <1>a, <3>1 DEF TypeOK
    <3>3. CASE gpc' = "slot" /\ UNCHANGED <<episode, cursor, drained>>
      BY <3>2, <3>3
    <3>4. CASE /\ episode' = episode + 1 /\ cursor' = 0 /\ drained' = FALSE
               /\ gpc' = IF episode + 1 < Episodes THEN "slot" ELSE "ending"
      BY <3>2, <3>4
    <3>. QED
      BY <2>2, <3>3, <3>4
  <2>. QED
    BY <1>a, <1>b, <1>c, <1>d, <2>2, <2>3, <2>4, <2>5 DEF TypeOK
<1>6. CASE PutDone
  <2>1. queue' \in Seq(Entries)
    BY <1>a, <1>6, Types, EntryKinds, Appended DEF PutDone
  <2>. QED
    BY <1>a, <1>b, <1>c, <1>d, <1>6, <2>1 DEF TypeOK, PutDone, trainerVars, diskVars, runVars
<1>7. CASE TakeBatch
  <2>1. /\ queue' \in Seq(Entries) /\ training' \in Batches /\ tokens' \in Seq(Nat)
    BY <1>a, <1>7, Types, EntryKinds, Taking, Appended DEF TakeBatch
  <2>. QED
    BY <1>a, <1>b, <1>c, <1>d, <1>7, <2>1 DEF TypeOK, TakeBatch, generatorVars, diskVars, runVars
<1>8. CASE TakeEval
  <2>1. queue' \in Seq(Entries) /\ Head(queue) \in Evals /\ tokens' \in Seq(Nat)
    BY <1>a, <1>8, Types, EntryKinds, Taking, Appended DEF TakeEval
  <2>2. Head(queue).step \in Nat /\ Head(queue).evaluated \in Nat
    BY <2>1, EntryKinds
  <2>3. Ckpt(latest, step, trained) \in Ckpts
    BY <1>a, Types DEF Ckpt, Ckpts
  <2>4. best' \in Bests \union {NoCkpt}
    BY <1>a, <1>8, <2>2, <2>3 DEF TakeEval, Bests, TypeOK
  <2>. QED
    BY <1>a, <1>b, <1>c, <1>d, <1>8, <2>1, <2>4
    DEF TypeOK, TakeEval, generatorVars, trainerVars, runVars
<1>9. CASE TakeDone
  <2>1. queue' \in Seq(Entries)
    BY <1>a, <1>9, Types, Taking DEF TakeDone
  <2>. QED
    BY <1>a, <1>b, <1>c, <1>d, <1>9, <2>1 DEF TypeOK, TakeDone, generatorVars, diskVars, runVars
<1>10. CASE Optimize
  BY <1>a, <1>b, <1>c, <1>d, <1>10 DEF TypeOK, Optimize, generatorVars, diskVars, runVars
<1>11. CASE Refit
  <2>1. training \in Batches
    BY <1>a, <1>11, Types DEF Refit, Places
  <2>2. training.at \in States /\ Ids(training.groups) \subseteq Prompts
    BY <2>1, EntryKinds, IdsOf
  <2>3. trained' \subseteq Prompts /\ latest' \in States /\ step' \in Nat /\ tokens' \in Seq(Nat)
    BY <1>a, <1>b, <1>c, <1>d, <1>11, <2>2, Types, Appended DEF Refit
  <2>4. Ckpt(latest', step', trained') \in Ckpts
    BY <1>a, <2>3, Types DEF Ckpt, Ckpts
  <2>5. saved' \in Ckpts \union {NoCkpt}
    BY <1>a, <1>11, <2>4 DEF Refit, TypeOK
  <2>. QED
    BY <1>a, <1>b, <1>c, <1>d, <1>11, <2>3, <2>5 DEF TypeOK, Refit, generatorVars, runVars
<1>12. CASE FinalSave
  <2>1. Ckpt(latest, step, trained) \in Ckpts
    BY <1>a, Types DEF Ckpt, Ckpts
  <2>2. saved' \in Ckpts \union {NoCkpt}
    BY <1>a, <1>12, <2>1 DEF FinalSave, TypeOK
  <2>. QED
    BY <1>a, <1>b, <1>c, <1>d, <1>12, <2>2 DEF TypeOK, FinalSave, generatorVars, runVars
<1>13. CASE KillGenerator
  BY <1>a, <1>b, <1>c, <1>d, <1>13 DEF TypeOK, KillGenerator, trainerVars, diskVars, runVars
<1>14. CASE Crash
  <2>0. PICK c \in States, s \in Nat, seen \in SUBSET Prompts, lost \in SUBSET Prompts :
          Afresh(c, s, seen, lost)
    BY <1>a, <1>14, CrashIs
  <2>1. /\ tokens' \in Seq(Nat) /\ queue' = <<>> /\ engine' = s /\ step' = s
        /\ held' = 0 /\ drained' = FALSE /\ inflight' = {} /\ finished' = {}
        /\ episode' \in Nat /\ episode' < Episodes /\ again' \in Nat
        /\ cursor' \in Nat /\ cursor' <= DataLen
        /\ lastEval' = -1 /\ nextEval' = EvalSteps
        /\ training' = NoBatch /\ latest' = NoState
        /\ trained' = seen /\ dropped' \subseteq Prompts /\ skipped' \subseteq Prompts
        /\ tpc' \in {"get", "done"} /\ gpc' \in {"slot", "done"}
        /\ UNCHANGED <<mode, saved, best>> /\ crashes' \in Nat
    BY <2>0 DEF Afresh
  <2>2. fresh' \in BOOLEAN /\ synced' \in BOOLEAN
    <3>1. fresh' = (c = NoState) /\ synced' = (c = NoState)
      BY <2>0 DEF Afresh
    <3>. QED
      BY <3>1
  <2>3. NoState \in States
    BY <1>a, Types, NothingRead
  <2>4. queue' \in Seq(Entries)
    BY <2>1
  <2>5. episode' \in 0 .. Episodes /\ cursor' \in 0 .. DataLen /\ nextEval' \in Nat
    BY <2>1, Sizes
  <2>. QED
    BY <1>a, <1>b, <1>c, <1>d, <2>1, <2>2, <2>3, <2>4, <2>5 DEF TypeOK
<1>. QED
  BY <1>1, <1>2, <1>3, <1>4, <1>5, <1>6, <1>7, <1>8, <1>9, <1>10, <1>11, <1>12, <1>13, <1>14
     DEF Next, Generator, Trainer

\* A run has at most one more episode begun again than the snapshot it resumed from.
LEMMA BegunStep ==
    ASSUME TypeOK, Places, Pool, Reading, Begun, Next
    PROVE  Begun'
<1> DEFINE Few(q) == \A i \in 1 .. Len(q) : q[i].kind = "batch" => q[i].at.again <= crashes
<1>0. /\ again \in Nat /\ crashes \in Nat /\ queue \in Seq(Entries) /\ Few(queue)
      /\ again <= crashes /\ latest.again <= crashes
  BY Types, PassTypes DEF Begun
<1>a. ASSUME NEW x \in Entries, x.kind = "batch" => x.at.again <= crashes
      PROVE  Few(Append(queue, x))
  <2>1. /\ Len(Append(queue, x)) = Len(queue) + 1 /\ Append(queue, x)[Len(queue) + 1] = x
        /\ \A i \in 1 .. Len(queue) : Append(queue, x)[i] = queue[i]
        /\ Len(queue) \in Nat
    BY <1>0, Appended, Entry
  <2>2. \A i \in 1 .. Len(queue) + 1 : i \in 1 .. Len(queue) \/ i = Len(queue) + 1
    BY <2>1
  <2>. QED
    BY <1>0, <1>a, <2>1, <2>2
<1>b. ASSUME queue # <<>>
      PROVE  /\ Few(Tail(queue))
             /\ Head(queue).kind = "batch" => Head(queue).at.again <= crashes
  <2>1. /\ Len(queue) \in Nat \ {0} /\ Head(queue) = queue[1]
        /\ Len(Tail(queue)) = Len(queue) - 1
        /\ \A i \in 1 .. Len(queue) - 1 : Tail(queue)[i] = queue[i + 1]
    BY <1>0, <1>b, Taking
  <2>2. 1 \in 1 .. Len(queue) /\ \A i \in 1 .. Len(queue) - 1 : i + 1 \in 1 .. Len(queue)
    BY <2>1
  <2>. QED
    BY <1>0, <2>1, <2>2
<1>1. ASSUME UNCHANGED <<again, crashes, latest, training, saved, best>>, Few(queue')
      PROVE  Begun'
  BY <1>1 DEF Begun
<1> HIDE DEF Few
<1>2. CASE TakeSlot \/ Refill \/ (\E g \in inflight : Collect(g)) \/ KillGenerator \/ Optimize
  <2>1. UNCHANGED <<again, crashes, latest, training, saved, best, queue>>
    BY <1>2 DEF TakeSlot, Refill, Collect, KillGenerator, Optimize, generatorVars, trainerVars,
          diskVars, runVars
  <2>. QED
    BY <1>0, <1>1, <2>1
<1>3. CASE Evaluate
  <2>1. /\ UNCHANGED <<again, crashes, latest, training, saved, best>>
        /\ queue' = Append(queue, [kind |-> "eval", step |-> held, evaluated |-> engine])
    BY <1>3 DEF Evaluate, trainerVars, diskVars, runVars
  <2>2. [kind |-> "eval", step |-> held, evaluated |-> engine] \in Evals
    BY Types DEF Evals
  <2>. QED
    BY <1>1, <1>a, <2>1, <2>2, EntryKinds
<1>4. CASE Ship
  <2>1. /\ UNCHANGED <<again, crashes, latest, training, saved, best>>
        /\ queue' = queue \/ queue' = Append(queue, Sending)
    BY <1>4, ShipIs
  <2>2. Sending \in Entries /\ Sending.at.again <= crashes
    BY <1>0, SendingIs
  <2>. QED
    BY <1>0, <1>1, <1>a, <2>1, <2>2
<1>5. CASE PutDone
  <2>1. /\ UNCHANGED <<again, crashes, latest, training, saved, best>>
        /\ queue' = Append(queue, Done)
    BY <1>5 DEF PutDone, trainerVars, diskVars, runVars
  <2>. QED
    BY <1>1, <1>a, <2>1, EntryKinds
<1>6. CASE TakeDone
  <2>1. /\ UNCHANGED <<again, crashes, latest, training, saved, best>>
        /\ queue # <<>> /\ queue' = Tail(queue)
    BY <1>6 DEF TakeDone, generatorVars, diskVars, runVars
  <2>. QED
    BY <1>1, <1>b, <2>1
<1>7. CASE TakeBatch
  <2>1. /\ UNCHANGED <<again, crashes, latest, saved, best>>
        /\ queue # <<>> /\ queue' = Tail(queue)
        /\ training' = Head(queue) /\ Head(queue).kind = "batch"
    BY <1>7 DEF TakeBatch, generatorVars, diskVars, runVars
  <2>. QED
    BY <1>b, <2>1 DEF Begun, Few
<1>8. CASE TakeEval
  <2>1. /\ UNCHANGED <<again, crashes, latest, training, saved>>
        /\ queue # <<>> /\ queue' = Tail(queue)
        /\ best' = best \/ best'.ckpt = Ckpt(latest, step, trained)
    BY <1>8 DEF TakeEval, generatorVars, trainerVars, runVars
  <2>2. Ckpt(latest, step, trained).at = latest
    BY DEF Ckpt
  <2>. QED
    BY <1>0, <1>b, <2>1, <2>2 DEF Begun, Few
<1>9. CASE Refit
  <2>1. /\ UNCHANGED <<again, crashes, best, queue>>
        /\ latest' = training.at /\ training' = NoBatch
        /\ saved' = saved \/ saved' = Ckpt(latest', step', trained')
    BY <1>9 DEF Refit, generatorVars, runVars
  <2>2. Ckpt(latest', step', trained').at = latest'
    BY DEF Ckpt
  <2>3. training # NoBatch
    BY <1>9 DEF Refit, Places
  <2>. QED
    BY <2>1, <2>2, <2>3 DEF Begun
<1>10. CASE FinalSave
  <2>1. /\ UNCHANGED <<again, crashes, latest, training, best, queue>>
        /\ saved' = saved \/ saved' = Ckpt(latest, step, trained)
    BY <1>10 DEF FinalSave, generatorVars, runVars
  <2>2. Ckpt(latest, step, trained).at = latest
    BY DEF Ckpt
  <2>. QED
    BY <2>1, <2>2 DEF Begun
<1>11. CASE Crash
  <2>1. PICK c, s, seen, lost :
           c \in States /\ s \in Nat /\ Start(c, s, seen, lost) /\ c.again <= crashes
    <3>1. NoState \in States /\ NoState.again = 0
      BY Types, NothingRead DEF NoState
    <3>2. saved # NoCkpt => saved.at \in States /\ saved.step \in Nat /\ saved.at.again <= crashes
      BY DEF Begun, TypeOK, Ckpts
    <3>3. best # NoCkpt => /\ best.ckpt.at \in States /\ best.ckpt.step \in Nat
                           /\ best.ckpt.at.again <= crashes
      BY DEF Begun, TypeOK, Bests, Ckpts
    <3>. QED
      BY <1>0, <1>11, <3>1, <3>2, <3>3 DEF Crash, Resume
  <2>2. crashes' = crashes + 1 /\ UNCHANGED <<saved, best>>
    BY <1>11 DEF Crash, diskVars
  <2>3. /\ again' = c.again \/ again' = c.again + 1
        /\ queue' = <<>> /\ training' = NoBatch /\ latest' = NoState
    BY <2>1 DEF Start
  <2>4. again' <= crashes' /\ latest'.again <= crashes'
    BY <1>0, <2>1, <2>2, <2>3 DEF NoState, States
  <2>5. /\ saved # NoCkpt => saved.at.again \in Nat /\ saved.at.again <= crashes
        /\ best # NoCkpt => best.ckpt.at.again \in Nat /\ best.ckpt.at.again <= crashes
    BY DEF Begun, TypeOK, Bests, Ckpts, States
  <2>6. /\ saved' # NoCkpt => saved'.at.again <= crashes'
        /\ best' # NoCkpt => best'.ckpt.at.again <= crashes'
    BY <1>0, <2>2, <2>5
  <2>. QED
    BY <2>3, <2>4, <2>6 DEF Begun
<1>. QED
  BY <1>2, <1>3, <1>4, <1>5, <1>6, <1>7, <1>8, <1>9, <1>10, <1>11 DEF Next, Generator, Trainer

\* Nothing has been read yet.
LEMMA InitInv == Init => Inv
<1> SUFFICES ASSUME Init PROVE Inv
  OBVIOUS
<1> DEFINE n == mode.queueSize
<1>1. mode \in Modes /\ n \in Nat \ {0} /\ mode.forceSync \in BOOLEAN /\ mode.partial \in BOOLEAN
  BY TrainerAssumption DEF Init
<1>2. tokens \in Seq(Nat) /\ Len(tokens) = n /\ \A i \in 1 .. Len(tokens) : tokens[i] = 0
  <2>1. tokens = [i \in 1 .. n |-> 0]
    BY DEF Init
  <2> HIDE DEF n
  <2>. QED
    BY <1>1, <2>1
<1>3. /\ queue = <<>> /\ lock = <<>> /\ engine = 0 /\ gpc = "slot" /\ held = 0
      /\ episode = 0 /\ cursor = 0 /\ again = 0 /\ drained = FALSE /\ inflight = {} /\ finished = {}
      /\ fresh = TRUE /\ synced = TRUE /\ lastEval = -1 /\ nextEval = EvalSteps
      /\ tpc = "get" /\ step = 0 /\ training = NoBatch /\ latest = NoState
      /\ saved = NoCkpt /\ best = NoCkpt
      /\ trained = {} /\ dropped = {} /\ skipped = {} /\ crashes = 0
  BY DEF Init
<1>4. Len(queue) = 0 /\ queue \in Seq(Entries) /\ lock \in Seq({"generator", "trainer"})
  BY <1>3
<1>5. NoState \in States
  BY <1>1, NothingRead
<1>6. TypeOK
  <2>1. /\ EvalSteps \in Nat /\ 0 \in Nat /\ 0 \in 0 .. Episodes /\ 0 \in 0 .. DataLen
        /\ -1 \in Nat \union {-1}
    BY Sizes
  <2>2. engine \in Nat /\ held \in Nat /\ step \in Nat /\ crashes \in Nat /\ nextEval \in Nat
    BY <1>3, <2>1
  <2>. QED
    BY <1>1, <1>2, <1>3, <1>4, <1>5, <2>1, <2>2 DEF TypeOK
<1>7. Locks
  BY <1>3, Turns DEF Locks
<1>8. Places /\ Reading /\ Ending /\ Begun /\ Resumed /\ Saved /\ Versions
  BY <1>1, <1>3, <1>4, Sizes DEF Places, Reading, Ending, Begun, NoState, Resumed, Saved, Versions
<1>9. Pool
  BY <1>3, FS_EmptySet, Sizes DEF Pool
<1>10. Seen(Len(queue)) = {} /\ Of(training) = {} /\ Ids({}) = {}
  BY <1>3, <1>4, OfEntry, IdsOf DEF Seen
<1>11. Read
  <2>1. Before(Pass) = 0 /\ cursor = 0
    BY <1>3, Passes DEF Pass
  <2>2. Here = 0
    BY <2>1 DEF Here, Pass
  <2>3. 1 .. Here = {}
    BY <2>2
  <2>. QED
    BY <1>3, <1>10, <2>3 DEF Read, Known
<1>12. Separate /\ Snapshots
  BY <1>3, <1>4, <1>10 DEF Separate, Snapshots
<1>13. Tokens
  BY <1>1, <1>2, <1>3, <1>4 DEF Tokens, Busy, Taken, Working
<1>14. Solo
  BY <1>2, <1>3, <1>4 DEF Solo, Working
<1>. QED
  BY <1>6, <1>7, <1>8, <1>9, <1>11, <1>12, <1>13, <1>14 DEF Inv

\* Every step keeps the invariant.
LEMMA InductiveStep ==
    ASSUME Inv, [Next]_vars
    PROVE  Inv'
<1>1. CASE Next
  <2>1. TypeOK /\ Locks /\ Places /\ Reading /\ Pool /\ Ending /\ Read /\ Separate /\ Snapshots
    BY DEF Inv
  <2>2. Begun /\ Resumed /\ Saved /\ Tokens /\ Versions /\ Solo
    BY DEF Inv
  <2>3. Locks' /\ Places' /\ Reading' /\ Pool' /\ Ending' /\ Read' /\ Separate' /\ Snapshots'
    BY <1>1, <2>1, <2>2, LocksStep, PlacesStep, ReadingStep, PoolStep, EndingStep, ReadStep,
       SeparateStep, SnapshotsStep
  <2>4. Begun' /\ Resumed' /\ Saved' /\ Tokens' /\ Versions' /\ Solo'
    BY <1>1, <2>1, <2>2, BegunStep, ResumedStep, SavedStep, TokensStep, VersionsStep, SoloStep
  <2>5. TypeOK'
    BY <1>1, <2>3, TypeStep
  <2>. QED
    BY <2>3, <2>4, <2>5 DEF Inv
<1>2. CASE UNCHANGED vars
  <2>. USE <1>2 DEF Inv, vars, generatorVars, trainerVars, diskVars, runVars
  <2>1. TypeOK'
    BY DEF TypeOK
  <2>2. Locks' /\ Places' /\ Reading' /\ Pool'
    BY DEF Locks, Places, Reading, Pool
  <2>3. Ending'
    BY DEF Ending, AllOut
  <2>4. Read' /\ Separate'
    BY Unmoved DEF Read, Here, Pass
  <2>5. Snapshots'
    <3>1. Most' = Most
      BY DEF Most
    <3>2. \A i : Seen(i)' = Seen(i)
      BY DEF Seen, Of
    <3>. QED
      BY <3>1, <3>2 DEF Snapshots, Sound
  <2>6. Begun' /\ Resumed'
    BY DEF Begun, Resumed
  <2>7. Saved'
    BY DEF Saved, SoundCkpt, Sound, Most
  <2>8. Tokens' /\ Versions'
    BY DEF Tokens, Versions, Timely, Busy, Taken
  <2>9. Solo'
    BY DEF Solo
  <2>. QED
    BY <2>1, <2>2, <2>3, <2>4, <2>5, <2>6, <2>7, <2>8, <2>9
<1>. QED
  BY <1>1, <1>2

\* The inductive invariant, for every data set, batch, queue, mode and number of restarts.
THEOREM InvariantHolds == Spec => []Inv
<1>. QED
  BY InitInv, InductiveStep, PTL DEF Spec

\* TypeOK: every variable of the two actors and of the disk keeps to its type.
THEOREM TypeCorrect == Spec => []TypeOK
<1>1. Inv => TypeOK
  BY DEF Inv
<1>. QED
  BY <1>1, InvariantHolds, PTL
-----------------------------------------------------------------------------
(* The properties *)

\* Three entries and the ones behind them.
LEMMA Joined ==
    ASSUME NEW S, NEW a \in Seq(S), NEW b \in Seq(S), Len(a) = 3
    PROVE  /\ a \o b \in Seq(S) /\ Len(a \o b) = 3 + Len(b)
           /\ \A i \in 1 .. 3 : (a \o b)[i] = a[i]
           /\ \A i \in 1 .. Len(b) : (a \o b)[3 + i] = b[i]
<1>1. Len(b) \in Nat
  OBVIOUS
<1>2. /\ a \o b \in Seq(S) /\ Len(a \o b) = 3 + Len(b)
      /\ \A i \in 1 .. 3 + Len(b) : (a \o b)[i] = IF i <= 3 THEN a[i] ELSE b[i - 3]
  <2>1. /\ a \o b \in Seq(S) /\ Len(a \o b) = Len(a) + Len(b)
        /\ \A i \in 1 .. Len(a) + Len(b) :
              (a \o b)[i] = IF i <= Len(a) THEN a[i] ELSE b[i - Len(a)]
    BY ConcatProperties
  <2>. QED
    BY <2>1
<1>3. \A i \in 1 .. 3 : i \in 1 .. 3 + Len(b) /\ i <= 3
  BY <1>1
<1>4. \A i \in 1 .. Len(b) : 3 + i \in 1 .. 3 + Len(b) /\ ~(3 + i <= 3) /\ (3 + i) - 3 = i
  BY <1>1
<1>. QED
  BY <1>2, <1>3, <1>4

\* The places a prompt on its way can be in.
LEMMA PlacesOnTheWay ==
    ASSUME TypeOK
    PROVE  /\ Len(queue) \in Nat
           /\ DOMAIN OnTheirWay = 1 .. 3 + Len(queue)
           /\ OnTheirWay[1] = Ids(inflight) /\ OnTheirWay[2] = Ids(finished)
           /\ OnTheirWay[3] = Of(training)
           /\ \A i \in 1 .. Len(queue) : OnTheirWay[3 + i] = Of(queue[i])
<1> DEFINE n == Len(queue)
           t == IF training = NoBatch THEN {} ELSE Ids(training.groups)
           a == <<Ids(inflight), Ids(finished), t>>
           b == [i \in 1 .. n |-> IF queue[i].kind = "batch" THEN Ids(queue[i].groups) ELSE {}]
           S == SUBSET Prompts
<1>1. n \in Nat /\ \A i \in 1 .. n : queue[i] \in Entries
  BY Types, Entry
<1>2. t = Of(training) /\ t \in S /\ Ids(inflight) \in S /\ Ids(finished) \in S
  <2>1. training \in Batches \/ training = NoBatch
    BY Types
  <2>2. training \in Batches => training # NoBatch /\ Of(training) = Ids(training.groups)
                                /\ training.groups \in SUBSET Groups
    BY EntryKinds, OfEntry
  <2>3. Ids(inflight) \in S /\ Ids(finished) \in S
    BY Types, IdsOf
  <2>. QED
    BY <2>1, <2>2, <2>3, IdsOf, OfEntry
<1>3. \A i \in 1 .. n : b[i] = Of(queue[i]) /\ b[i] \in S
  <2>1. TAKE i \in 1 .. n
  <2>2. b[i] = Of(queue[i])
    BY DEF Of
  <2>3. queue[i].kind = "batch" => queue[i].groups \in SUBSET Groups
    BY <1>1, EntryKinds
  <2>. QED
    BY <2>2, <2>3, IdsOf, OfEntry
<1>4. OnTheirWay = a \o b
  BY DEF OnTheirWay
<1>5. a \in Seq(S) /\ Len(a) = 3 /\ a[1] = Ids(inflight) /\ a[2] = Ids(finished) /\ a[3] = t
  BY <1>2
<1>6. b \in Seq(S) /\ Len(b) = n
  BY <1>1, <1>3
<1> HIDE DEF a, b, n, t, S
<1>7. /\ a \o b \in Seq(S) /\ Len(a \o b) = 3 + n
      /\ \A i \in 1 .. 3 : (a \o b)[i] = a[i]
      /\ \A i \in 1 .. n : (a \o b)[3 + i] = b[i]
  BY <1>5, <1>6, Joined
<1>8. DOMAIN (a \o b) = 1 .. 3 + n
  BY <1>7
<1>9. 1 \in 1 .. 3 /\ 2 \in 1 .. 3 /\ 3 \in 1 .. 3
  OBVIOUS
<1>10. /\ OnTheirWay[1] = Ids(inflight) /\ OnTheirWay[2] = Ids(finished)
       /\ OnTheirWay[3] = Of(training)
  BY <1>2, <1>4, <1>5, <1>7, <1>9
<1>11. \A i \in 1 .. n : OnTheirWay[3 + i] = Of(queue[i])
  BY <1>3, <1>4, <1>7
<1>. QED
  BY <1>1, <1>4, <1>8, <1>10, <1>11 DEF n

\* No weights are updated twice with one prompt of a pass over the data, across surplus
\* groups, the two actors and restarts from any checkpoint; a restart adds one pass at most,
\* of an episode that was read to its end; and no prompt is forgotten: OncePerPass.
THEOREM PromptsTrainedOnce == Spec => []OncePerPass
<1>1. ASSUME Inv PROVE OncePerPass
  <2>. DEFINE n == Len(queue)
  <2>1. TypeOK /\ Places /\ Reading /\ Ending /\ Read /\ Separate
    BY <1>1 DEF Inv
  <2>2. /\ n \in Nat /\ DOMAIN OnTheirWay = 1 .. 3 + n
        /\ OnTheirWay[1] = Ids(inflight) /\ OnTheirWay[2] = Ids(finished)
        /\ OnTheirWay[3] = Of(training)
        /\ \A i \in 1 .. n : OnTheirWay[3 + i] = Of(queue[i])
    BY <2>1, PlacesOnTheWay
  <2>3. /\ \A i, j \in 1 .. n : i # j => Of(queue[i]) \cap Of(queue[j]) = {}
        /\ \A i \in 1 .. n :
              Of(queue[i]) \cap (Of(training) \union Ids(inflight) \union Ids(finished)
                                    \union trained \union dropped) = {}
        /\ Of(training) \cap (Ids(inflight) \union Ids(finished) \union trained
                                 \union dropped) = {}
        /\ Ids(inflight) \cap (Ids(finished) \union trained \union dropped) = {}
        /\ Ids(finished) \cap (trained \union dropped) = {}
    BY <2>1 DEF Separate
  <2> HIDE DEF n
  <2>4. \A i \in 1 .. 3 + n :
           i = 1 \/ i = 2 \/ i = 3 \/ (i - 3 \in 1 .. n /\ i = 3 + (i - 3))
    BY <2>2
  <2>5. ASSUME NEW i \in 1 .. 3 + n PROVE OnTheirWay[i] \cap (trained \union dropped) = {}
    <3>1. CASE i \in {1, 2, 3}
      BY <2>2, <2>3, <3>1
    <3>2. CASE i - 3 \in 1 .. n /\ i = 3 + (i - 3)
      <4>1. OnTheirWay[i] = Of(queue[i - 3])
        BY <2>2, <3>2
      <4>. QED
        BY <2>3, <3>2, <4>1
    <3>. QED
      BY <2>4, <3>1, <3>2
  <2>6. ASSUME NEW i \in 1 .. 3 + n, NEW j \in 1 .. 3 + n, i # j
        PROVE  OnTheirWay[i] \cap OnTheirWay[j] = {}
    <3>1. CASE i \in {1, 2, 3} /\ j \in {1, 2, 3}
      BY <2>2, <2>3, <2>6, <3>1
    <3>2. ASSUME i - 3 \in 1 .. n, i = 3 + (i - 3), j \in {1, 2, 3}
          PROVE  OnTheirWay[i] \cap OnTheirWay[j] = {}
      <4>1. OnTheirWay[i] = Of(queue[i - 3])
        BY <2>2, <3>2
      <4>. QED
        BY <2>2, <2>3, <3>2, <4>1
    <3>3. ASSUME j - 3 \in 1 .. n, j = 3 + (j - 3), i \in {1, 2, 3}
          PROVE  OnTheirWay[i] \cap OnTheirWay[j] = {}
      <4>1. OnTheirWay[j] = Of(queue[j - 3])
        BY <2>2, <3>3
      <4>. QED
        BY <2>2, <2>3, <3>3, <4>1
    <3>4. ASSUME i - 3 \in 1 .. n, i = 3 + (i - 3), j - 3 \in 1 .. n, j = 3 + (j - 3)
          PROVE  OnTheirWay[i] \cap OnTheirWay[j] = {}
      <4>1. OnTheirWay[i] = Of(queue[i - 3]) /\ OnTheirWay[j] = Of(queue[j - 3])
        BY <2>2, <3>4
      <4>2. i - 3 # j - 3
        BY <2>2, <2>6
      <4>. QED
        BY <2>3, <3>4, <4>1, <4>2
    <3>. QED
      BY <2>4, <3>1, <3>2, <3>3, <3>4
  <2>7. ASSUME tpc = "done", step < MaxSteps
        PROVE  /\ episode = Episodes
               /\ ReadUpTo(Pass, 0) \subseteq trained \union dropped \union skipped
    <3>1. n = 0 /\ inflight = {} /\ finished = {} /\ episode = Episodes /\ cursor = 0
      BY <2>1, <2>7 DEF Ending, AllOut, n
    <3>2. training = NoBatch
      BY <2>1, <2>7 DEF Places
    <3>3. Known = trained \union dropped
      <4>1. Seen(0) = trained
        BY <3>2, OfEntry DEF Seen
      <4>. QED
        BY <3>1, <4>1, IdsOf DEF Known, n
    <3>4. ReadUpTo(Pass, 0) = 1 .. Here
      BY <3>1, Passes DEF Here, Pass
    <3>. QED
      BY <2>1, <3>1, <3>3, <3>4 DEF Read
  <2>8. again <= crashes
    BY <1>1 DEF Inv, Begun
  <2>. QED
    BY <2>2, <2>5, <2>6, <2>7, <2>8 DEF OncePerPass
<1>. QED
  BY <1>1, InvariantHolds, PTL

\* force_sync_mode: a batch is trained at most async_queue_size - 1 updates after the weights
\* its groups were dispatched under: StalenessBounded.
THEOREM BatchesAreTimely == Spec => []StalenessBounded
<1>1. ASSUME Inv PROVE StalenessBounded
  <2>1. ASSUME mode.forceSync, training # NoBatch, NEW g \in training.groups
        PROVE  step - g.ver < mode.queueSize
    <3>1. engine = step /\ Timely(g, 0)
      BY <1>1, <2>1 DEF Inv, Places, Versions
    <3>2. training.groups \subseteq Groups
      BY <1>1, <2>1, Types, EntryKinds DEF Inv
    <3>3. g.ver \in Nat /\ step \in Nat
      BY <1>1, <2>1, <3>2, Types DEF Inv, Groups
    <3>. QED
      BY <3>1, <3>3 DEF Timely
  <2>. QED
    BY <2>1 DEF StalenessBounded
<1>. QED
  BY <1>1, InvariantHolds, PTL

\* Every checkpoint on disk can be resumed from, and a restart from it skips only what was in
\* flight behind one batch: CheckpointsSound.
THEOREM RestartsSkipLittle == Spec => []CheckpointsSound
<1>1. ASSUME Inv PROVE CheckpointsSound
  <2>1. ASSUME NEW c \in Checkpoints PROVE SoundCkpt(c)
    BY <1>1, <2>1 DEF Inv, Saved, Checkpoints
  <2>2. ASSUME NEW c \in Checkpoints
        PROVE  /\ Cardinality(Skips(c)) <= IF mode.forceSync THEN 0 ELSE Capacity - 1
               /\ c.step > 0 => c.at # NoState
    <3>1. Sound(c.at, c.trained, c.skipped, Most) /\ (c.step > 0 => c.at # NoState)
      BY <2>1 DEF SoundCkpt
    <3>2. Ids(c.at.buffer) = {}
      BY <3>1, IdsOf DEF Sound
    <3>3. ReadUpTo(c.at.episode + c.at.again, c.at.cursor) = 1 .. Point(c.at)
      BY Passes DEF Point
    <3>4. Skips(c) = (1 .. Point(c.at)) \ (c.trained \union c.at.dropped \union c.skipped)
      BY <3>2, <3>3 DEF Skips
    <3>. QED
      BY <3>1, <3>4 DEF Sound, Most
  <2>3. mode.forceSync /\ mode.queueSize = 1 /\ best # NoCkpt =>
            best.ckpt.step = best.evaluated /\ best.tag = best.evaluated
    BY <1>1 DEF Inv, Solo
  <2>. QED
    BY <2>2, <2>3 DEF CheckpointsSound
<1>. QED
  BY <1>1, InvariantHolds, PTL
=============================================================================
