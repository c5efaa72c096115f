------------------------- MODULE CompletionStoreProofs -------------------------
(***************************************************************************)
(* Proofs about CompletionStore, for every finite set of completion        *)
(* requests and every size of the writer's queue: the two invariants and   *)
(* the action property that the runs check.                                *)
(*                                                                         *)
(* None of them is inductive.  That causes come first rests on clock and   *)
(* sequence only growing, and on a completion being stamped, stored and    *)
(* numbered before it is answered (Marked, Handed, Caused).  That only the *)
(* writer's count is retained, and that nothing answered is missed, rests  *)
(* on where a record can come from: nobody gets past the registry before   *)
(* dispatch (New), the record stays until the session is over (Kept), and  *)
(* after DELETE only a completion that was under way makes it again        *)
(* (Gone).  The count itself only ever grows, by one each time (Counted).  *)
(***************************************************************************)
EXTENDS CompletionStore, FiniteSetTheorems, TLAPS

\* How far a completion must be to have a timestamp, a place in the record, a number.
Stamped  == {"saving", "stored", "numbered", "returning", "answered"}
Saved    == {"stored", "numbered", "returning", "answered"}
Numbered == {"numbered", "returning", "answered"}

\* Timestamps and numbers are given in their places, and are never ahead of their counters.
Marked ==
    \A r \in Requests :
        /\ stamp[r] <= clock /\ (stamp[r] # 0 <=> pc[r] \in Stamped)
        /\ number[r] <= sequence /\ (number[r] # 0 <=> pc[r] \in Numbered)

\* The writer's last number for the session says how many of its completions got one.
Counted == sequence = Cardinality({r \in Requests : number[r] # 0})

\* The loop answers only for threads that have come to their end.
Handed ==
    \A i \in DOMAIN calls :
        calls[i][1] = "answer" => pc[calls[i][2]] \in {"returning", "answered"}

\* What was answered before a request began precedes it in both orders.
Caused ==
    \A r \in Requests : \A s \in earlier[r] :
        /\ pc[s] = "answered" /\ pc[r] # "idle"
        /\ stamp[r] # 0 => stamp[s] < stamp[r]
        /\ number[r] # 0 => number[s] < number[r]

\* What the builder was given is stamped, and in order.
InOrder ==
    trajectory # NoRecord =>
        /\ \A i \in DOMAIN trajectory : stamp[trajectory[i]] # 0
        /\ \A i, j \in DOMAIN trajectory : i < j => stamp[trajectory[i]] <= stamp[trajectory[j]]

\* Before dispatch nothing gets past the registry, or is asked for unnoticed.
New ==
    session = "new" =>
        /\ registry # "dispatched" /\ record = NoRecord
        /\ \A r \in Requests : pc[r] \in {"idle", "failed"}
        /\ ~late => registry = "none" /\ deletion # "done"

\* Until the session is over or deleted, its record has every completion that was saved.
Kept ==
    session \in {"registered", "running", "built"} /\ deletion # "done" =>
        /\ registry = "dispatched" /\ record # NoRecord
        /\ \A r \in Requests : pc[r] \in Saved => \E i \in DOMAIN record : record[i] = r

\* A deleted session has no record, and nobody who could make it again.
Gone ==
    deletion = "done" /\ ~late =>
        /\ registry = "none" /\ record = NoRecord
        /\ \A r \in Requests : pc[r] \in {"idle", "answered", "failed"}

\* The record holds saved completions only.
Recorded ==
    record # NoRecord => \A i \in DOMAIN record : pc[record[i]] \in Saved

IInv == /\ TypeOK /\ Marked /\ Counted /\ Handed /\ Caused
        /\ Recorded /\ InOrder /\ New /\ Kept /\ Gone
-----------------------------------------------------------------------------
\* The types of counters and sequences, one by one.
LEMMA Types ==
    ASSUME TypeOK
    PROVE  /\ clock \in Nat /\ sequence \in Nat
           /\ stamp \in [Requests -> Nat] /\ number \in [Requests -> Nat]
           /\ calls \in Seq({"put", "answer"} \X Requests)
           /\ queue \in Seq(Requests \union {Close}) /\ Len(queue) <= QueueSize
           /\ record = NoRecord \/ record \in Seq(Requests)
           /\ trajectory = NoRecord \/ trajectory \in Seq(Requests)
           /\ Opened(record) \in Seq(Requests)
           /\ earlier \in [Requests -> SUBSET Requests]
  <1>1. clock \in Nat /\ sequence \in Nat  BY DEF TypeOK
  <1>2. stamp \in [Requests -> Nat] /\ number \in [Requests -> Nat]  BY DEF TypeOK
  <1>3. calls \in Seq({"put", "answer"} \X Requests)  BY DEF TypeOK
  <1>4. queue \in Seq(Requests \union {Close}) /\ Len(queue) <= QueueSize  BY DEF TypeOK
  <1>5. record = NoRecord \/ record \in Seq(Requests)  BY DEF TypeOK
  <1>6. Opened(record) \in Seq(Requests)  BY <1>5 DEF Opened
  <1>7. trajectory = NoRecord \/ trajectory \in Seq(Requests)  BY DEF TypeOK
  <1>8. earlier \in [Requests -> SUBSET Requests]  BY DEF TypeOK
  <1> QED BY <1>1, <1>2, <1>3, <1>4, <1>5, <1>6, <1>7, <1>8

\* What calls, records and causes are made of.
LEMMA Elements ==
    ASSUME TypeOK
    PROVE  /\ \A i \in DOMAIN calls : calls[i][1] \in {"put", "answer"} /\ calls[i][2] \in Requests
           /\ record # NoRecord => \A i \in DOMAIN record : record[i] \in Requests
           /\ trajectory # NoRecord => \A i \in DOMAIN trajectory : trajectory[i] \in Requests
           /\ \A r \in Requests : earlier[r] \subseteq Requests
  <1>1. \A i \in DOMAIN calls : calls[i] \in {"put", "answer"} \X Requests
    <2>1. calls \in Seq({"put", "answer"} \X Requests)  BY Types
    <2> QED BY <2>1
  <1>2. record # NoRecord => \A i \in DOMAIN record : record[i] \in Requests
    <2>1. record = NoRecord \/ record \in Seq(Requests)  BY Types
    <2> QED BY <2>1
  <1>3. trajectory # NoRecord => \A i \in DOMAIN trajectory : trajectory[i] \in Requests
    <2>1. trajectory = NoRecord \/ trajectory \in Seq(Requests)  BY Types
    <2> QED BY <2>1
  <1>4. \A r \in Requests : earlier[r] \subseteq Requests
    <2>1. earlier \in [Requests -> SUBSET Requests]  BY Types
    <2> QED BY <2>1
  <1> QED BY <1>1, <1>2, <1>3, <1>4

\* Appending to a sequence keeps what it has and adds one.
LEMMA Appended ==
    ASSUME NEW S, NEW seq \in Seq(S), NEW e \in S
    PROVE  /\ Append(seq, e) \in Seq(S)
           /\ \A i \in DOMAIN Append(seq, e) :
                 Append(seq, e)[i] = e \/ (i \in DOMAIN seq /\ Append(seq, e)[i] = seq[i])
           /\ \A i \in DOMAIN seq : i \in DOMAIN Append(seq, e) /\ Append(seq, e)[i] = seq[i]
           /\ Len(seq) \in Nat /\ Len(Append(seq, e)) = Len(seq) + 1
           /\ Len(seq) + 1 \in DOMAIN Append(seq, e) /\ Append(seq, e)[Len(seq) + 1] = e
  OBVIOUS

\* The tail of a sequence is the sequence from its second element on.
LEMMA Tails ==
    ASSUME NEW S, NEW seq \in Seq(S), seq # <<>>
    PROVE  /\ Tail(seq) \in Seq(S) /\ Len(Tail(seq)) = Len(seq) - 1 /\ Len(seq) \in Nat
           /\ 1 \in DOMAIN seq /\ Head(seq) = seq[1]
           /\ \A i \in DOMAIN Tail(seq) : i + 1 \in DOMAIN seq /\ Tail(seq)[i] = seq[i + 1]
  OBVIOUS

\* A call of the loop leaves every handler where it is, or ends one whose thread is done.
LEMMA RanCall ==
    ASSUME TypeOK, Handed, RunCall
    PROVE  \/ UNCHANGED pc
           \/ \E r \in Requests : /\ pc[r] \in {"returning", "answered"}
                                  /\ pc' = [pc EXCEPT ![r] = "answered"]
  <1>1. calls # <<>> /\ 1 \in DOMAIN calls /\ Head(calls) = calls[1]
    BY Tails DEF RunCall, TypeOK
  <1>2. calls[1][2] \in Requests  BY <1>1, Elements
  <1>3. calls[1][1] = "answer" => pc[calls[1][2]] \in {"returning", "answered"}
    BY <1>1 DEF Handed
  <1> QED BY <1>1, <1>2, <1>3 DEF RunCall

\* Every step keeps every variable in its type.
LEMMA TypeStep ==
    ASSUME TypeOK, [Next]_vars
    PROVE  TypeOK'
  <1> USE DEF sessionVars, threadVars, writerVars
  <1>1. CASE Register
    <2>1. record' = NoRecord \/ record' \in Seq(Requests)  BY <1>1, Types DEF Register, Opened
    <2>2. registry' \in {"none", "bare", "dispatched"} /\ session' \in {"registered",
          "refused"}  BY <1>1 DEF Register, TypeOK
    <2> QED BY <1>1, <2>1, <2>2 DEF Register, TypeOK
  <1>2. CASE Dispatched  BY <1>2 DEF Dispatched, InFlight, TypeOK
  <1>3. CASE Load
    <2>1. Opened(record) \in Seq(Requests)  BY Types
    <2>2. PICK order \in Bijection(DOMAIN Opened(record), DOMAIN Opened(record)) :
             trajectory' = [i \in DOMAIN Opened(record) |-> Opened(record)[order[i]]]
      BY <1>3 DEF Load
    <2>3. \A i \in DOMAIN Opened(record) : Opened(record)[order[i]] \in Requests
      BY <2>1 DEF Bijection, Injection
    <2>4. trajectory' \in Seq(Requests)  BY <2>1, <2>2, <2>3
    <2> QED BY <1>3, <2>4 DEF Load, TypeOK
  <1>4. CASE Finish  BY <1>4 DEF Finish, InFlight, TypeOK
  <1>5. CASE Delete  BY <1>5 DEF Delete, TypeOK
  <1>6. CASE Forget  BY <1>6 DEF Forget, InFlight, TypeOK
  <1>7. ASSUME NEW r \in Requests, Begin(r) PROVE TypeOK'
    <2>1. pc' \in [Requests -> Places]  BY <1>7 DEF Begin, TypeOK, Places
    <2>2. earlier' \in [Requests -> SUBSET Requests]  BY <1>7 DEF Begin, Answered, TypeOK
    <2>3. strangers' \subseteq Requests  BY <1>7 DEF Begin, TypeOK
    <2>4. registry' \in {"none", "bare", "dispatched"} /\ late' \in BOOLEAN  BY <1>7 DEF Begin,
          TypeOK
    <2> QED BY <1>7, <2>1, <2>2, <2>3, <2>4 DEF Begin, TypeOK
  <1>8. ASSUME NEW r \in Requests, UpstreamFails(r) PROVE TypeOK'
    <2>1. pc' \in [Requests -> Places]  BY <1>8 DEF UpstreamFails, TypeOK, Places
    <2> QED BY <1>8, <2>1 DEF UpstreamFails, TypeOK
  <1>9. ASSUME NEW r \in Requests, Stamp(r) PROVE TypeOK'
    <2>1. pc' \in [Requests -> Places]  BY <1>9 DEF Stamp, TypeOK, Places
    <2>2. clock' \in Nat  BY <1>9, Types DEF Stamp
    <2>3. stamp' \in [Requests -> Nat]  BY <1>9, <2>2 DEF Stamp, TypeOK
    <2> QED BY <1>9, <2>1, <2>2, <2>3 DEF Stamp, TypeOK
  <1>10. ASSUME NEW r \in Requests, Save(r) PROVE TypeOK'
    <2>1. pc' \in [Requests -> Places]  BY <1>10 DEF Save, TypeOK, Places
    <2>2. Opened(record) \in Seq(Requests)  BY <1>10, Types
    <2>3. record' \in Seq(Requests)  BY <1>10, <2>2, Appended DEF Save
    <2> QED BY <1>10, <2>1, <2>2, <2>3 DEF Save, TypeOK
  <1>11. ASSUME NEW r \in Requests, TakeNumber(r) PROVE TypeOK'
    <2>1. pc' \in [Requests -> Places]  BY <1>11 DEF TakeNumber, TypeOK, Places
    <2>2. sequence' \in Nat  BY <1>11, Types DEF TakeNumber
    <2>3. number' \in [Requests -> Nat]  BY <1>11, <2>2 DEF TakeNumber, TypeOK
    <2> QED BY <1>11, <2>1, <2>2, <2>3 DEF TakeNumber, TypeOK
  <1>12. ASSUME NEW r \in Requests, HandOver(r) PROVE TypeOK'
    <2>1. pc' \in [Requests -> Places]  BY <1>12 DEF HandOver, TypeOK, Places
    <2>2. <<<<"put", r>>, <<"answer", r>>>> \in Seq({"put", "answer"} \X Requests)  BY <1>12
    <2>3. calls' \in Seq({"put", "answer"} \X Requests)  BY <1>12, <2>2, Types DEF HandOver
    <2> QED BY <1>12, <2>1, <2>2, <2>3 DEF HandOver, TypeOK
  <1>13. CASE RunCall
    <2> DEFINE r == Head(calls)[2]
    <2>1. /\ calls' \in Seq({"put", "answer"} \X Requests)
          /\ Head(calls) = calls[1] /\ 1 \in DOMAIN calls
      BY <1>13, Tails DEF RunCall, TypeOK
    <2>2. r \in Requests  BY <2>1, Elements
    <2>3. pc' \in [Requests -> Places]  BY <1>13, <2>2 DEF RunCall, TypeOK, Places
    <2>4. queue' \in Seq(Requests \union {Close}) /\ Len(queue') <= QueueSize
      <3>1. CASE queue' = queue  BY <3>1 DEF TypeOK
      <3>2. CASE Len(queue) < QueueSize /\ queue' = Append(queue, r)
        <4>1. /\ queue \in Seq(Requests \union {Close}) /\ r \in Requests \union {Close}
              /\ QueueSize \in Nat
          BY <2>2, Types, StoreAssumption
        <4> QED BY <3>2, <4>1, Appended
      <3> QED BY <1>13, <3>1, <3>2 DEF RunCall
    <2>5. unwritten' \subseteq Requests  BY <1>13, <2>2 DEF RunCall, TypeOK
    <2> QED BY <1>13, <2>1, <2>3, <2>4, <2>5 DEF RunCall, TypeOK
  <1>14. CASE WriterTakes
    <2>0. queue \in Seq(Requests \union {Close}) /\ QueueSize \in Nat /\ queue # <<>>
      BY <1>14, Types, StoreAssumption DEF WriterTakes
    <2>1. /\ queue' \in Seq(Requests \union {Close}) /\ Len(queue') <= QueueSize
          /\ Head(queue) = queue[1] /\ 1 \in DOMAIN queue
      BY <1>14, <2>0, Types, Tails DEF WriterTakes
    <2>2. writer' \in Requests \union {"idle", "closed", "cancelled"}
      BY <1>14, <2>1, Types DEF WriterTakes
    <2> QED BY <1>14, <2>1, <2>2 DEF WriterTakes, TypeOK
  <1>15. CASE WriterWrites  BY <1>15 DEF WriterWrites, TypeOK
  <1>16. CASE CloseWriter
    <2>1. Close \in Requests \union {Close}  OBVIOUS
    <2>2. queue' \in Seq(Requests \union {Close}) /\ Len(queue') <= QueueSize
      <3>1. queue \in Seq(Requests \union {Close}) /\ QueueSize \in Nat  BY Types, StoreAssumption
      <3> QED BY <1>16, <2>1, <3>1, Appended DEF CloseWriter
    <2> QED BY <1>16, <2>2 DEF CloseWriter, TypeOK
  <1>17. CASE CloseGivesUp  BY <1>17 DEF CloseGivesUp, TypeOK
  <1>18. CASE UNCHANGED vars  BY <1>18 DEF vars, TypeOK
  <1> QED BY <1>1, <1>2, <1>3, <1>4, <1>5, <1>6, <1>7, <1>8, <1>9, <1>10, <1>11, <1>12, <1>13,
        <1>14, <1>15, <1>16, <1>17, <1>18 DEF Next

\* Clock and sequence only grow.
LEMMA MarkedStep ==
    ASSUME TypeOK, TypeOK', Marked, Handed, [Next]_vars
    PROVE  Marked'
  <1> USE DEF sessionVars, threadVars, writerVars, Marked, Stamped, Numbered
  <1>1. CASE Register  BY <1>1 DEF Register, Opened, TypeOK
  <1>2. CASE Dispatched  BY <1>2 DEF Dispatched, InFlight, TypeOK
  <1>3. CASE Load  BY <1>3 DEF Load, Opened, TypeOK
  <1>4. CASE Finish  BY <1>4 DEF Finish, InFlight, TypeOK
  <1>5. CASE Delete  BY <1>5 DEF Delete, TypeOK
  <1>6. CASE Forget  BY <1>6 DEF Forget, InFlight, TypeOK
  <1>7. ASSUME NEW r \in Requests, Begin(r) PROVE Marked'
    BY <1>7 DEF Begin, Answered, TypeOK
  <1>8. ASSUME NEW r \in Requests, UpstreamFails(r) PROVE Marked'
    BY <1>8 DEF UpstreamFails, TypeOK
  <1>9. ASSUME NEW r \in Requests, Stamp(r) PROVE Marked'
    <2>1. clock \in Nat /\ clock' = clock + 1 /\ clock' # 0 /\ pc[r] = "upstream"  BY <1>9,
          Types DEF Stamp
    <2>2. stamp'[r] = clock' /\ pc'[r] = "saving"  BY <1>9 DEF Stamp, TypeOK
    <2>3. \A s \in Requests : s # r => stamp'[s] = stamp[s] /\ pc'[s] = pc[s] /\ stamp[s] \in Nat
      BY <1>9 DEF Stamp, TypeOK
    <2>4. UNCHANGED <<number, sequence>>  BY <1>9 DEF Stamp
    <2>5. clock' <= clock' /\ \A s \in Requests : s # r => stamp[s] <= clock'  BY <2>1, <2>3
    <2> QED BY <2>1, <2>2, <2>3, <2>4, <2>5
  <1>10. ASSUME NEW r \in Requests, Save(r) PROVE Marked'
    BY <1>10 DEF Save, Opened, TypeOK
  <1>11. ASSUME NEW r \in Requests, TakeNumber(r) PROVE Marked'
    <2>1. /\ sequence \in Nat /\ sequence' = sequence + 1 /\ sequence' # 0 /\ sequence' \in Nat
          /\ pc[r] = "stored"
      BY <1>11, Types DEF TakeNumber
    <2>2. number'[r] = sequence' /\ pc'[r] = "numbered"  BY <1>11 DEF TakeNumber, TypeOK
    <2>3. \A s \in Requests : s # r => number'[s] = number[s] /\ pc'[s] = pc[s] /\ number[s] \in Nat
      BY <1>11 DEF TakeNumber, TypeOK
    <2>4. UNCHANGED <<stamp, clock>>  BY <1>11 DEF TakeNumber
    <2>5. sequence' <= sequence' /\ \A s \in Requests : s # r => number[s] <= sequence'
      BY <2>1, <2>3
    <2> QED BY <2>1, <2>2, <2>3, <2>4, <2>5
  <1>12. ASSUME NEW r \in Requests, HandOver(r) PROVE Marked'
    BY <1>12 DEF HandOver, TypeOK
  <1>13. CASE RunCall
    <2>1. CASE UNCHANGED pc  BY <1>13, <2>1 DEF RunCall, TypeOK
    <2>2. CASE \E r \in Requests : /\ pc[r] \in {"returning", "answered"}
                                   /\ pc' = [pc EXCEPT ![r] = "answered"]
      BY <1>13, <2>2 DEF RunCall, TypeOK
    <2> QED BY <1>13, <2>1, <2>2, RanCall
  <1>14. CASE WriterTakes  BY <1>14 DEF WriterTakes, TypeOK
  <1>15. CASE WriterWrites  BY <1>15 DEF WriterWrites, TypeOK
  <1>16. CASE CloseWriter  BY <1>16 DEF CloseWriter, TypeOK
  <1>17. CASE CloseGivesUp  BY <1>17 DEF CloseGivesUp, TypeOK
  <1>18. CASE UNCHANGED vars  BY <1>18 DEF vars, TypeOK
  <1> QED BY <1>1, <1>2, <1>3, <1>4, <1>5, <1>6, <1>7, <1>8, <1>9, <1>10, <1>11, <1>12, <1>13,
        <1>14, <1>15, <1>16, <1>17, <1>18 DEF Next

\* Nobody but TakeNumber touches the count, and it counts one request more.
LEMMA CountedStep ==
    ASSUME TypeOK, Marked, Counted, [Next]_vars
    PROVE  Counted'
  <1> DEFINE numbered == {r \in Requests : number[r] # 0}
  <1>1. ASSUME NEW r \in Requests, TakeNumber(r) PROVE Counted'
    <2>1. sequence \in Nat /\ sequence' = sequence + 1 /\ sequence' # 0
      BY <1>1, Types DEF TakeNumber
    <2>2. number[r] = 0  BY <1>1 DEF Marked, Numbered, TakeNumber
    <2>3. number'[r] # 0 /\ \A s \in Requests : s # r => number'[s] = number[s]
      BY <1>1, <2>1 DEF TakeNumber, TypeOK
    <2>4. r \notin numbered /\ {s \in Requests : number'[s] # 0} = numbered \union {r}
      BY <2>2, <2>3
    <2>5. IsFiniteSet(numbered)  BY FS_Subset, StoreAssumption
    <2>6. Cardinality(numbered \union {r}) = Cardinality(numbered) + 1
      BY <2>4, <2>5, FS_AddElement
    <2> QED BY <2>1, <2>4, <2>6 DEF Counted
  <1>2. CASE UNCHANGED <<number, sequence>>  BY <1>2 DEF Counted
  <1>3. UNCHANGED <<number, sequence>> \/ \E r \in Requests : TakeNumber(r)
    BY DEF Next, vars, threadVars, Register, Dispatched, Load, Finish, Delete, Forget, Begin,
       UpstreamFails, Stamp, Save, HandOver, RunCall, WriterTakes, WriterWrites, CloseWriter,
       CloseGivesUp
  <1> QED BY <1>1, <1>2, <1>3

\* A thread hands over its own end.
LEMMA HandedStep ==
    ASSUME TypeOK, TypeOK', Handed, [Next]_vars
    PROVE  Handed'
  <1> USE DEF sessionVars, threadVars, writerVars, Handed
  <1>1. CASE Register  BY <1>1 DEF Register, Opened
  <1>2. CASE Dispatched  BY <1>2 DEF Dispatched, InFlight
  <1>3. CASE Load  BY <1>3 DEF Load, Opened
  <1>4. CASE Finish  BY <1>4 DEF Finish, InFlight
  <1>5. CASE Delete  BY <1>5 DEF Delete
  <1>6. CASE Forget  BY <1>6 DEF Forget, InFlight
  <1>7. ASSUME NEW r \in Requests, Begin(r) PROVE Handed'
    <2>1. pc[r] \notin {"returning", "answered"} /\ calls' = calls  BY <1>7 DEF Begin
    <2>2. \A s \in Requests : s # r => pc'[s] = pc[s]  BY <1>7 DEF Begin, TypeOK
    <2> QED BY <2>1, <2>2, Elements
  <1>8. ASSUME NEW r \in Requests, UpstreamFails(r) PROVE Handed'
    <2>1. pc[r] \notin {"returning", "answered"} /\ calls' = calls  BY <1>8 DEF UpstreamFails
    <2>2. \A s \in Requests : s # r => pc'[s] = pc[s]  BY <1>8 DEF UpstreamFails, TypeOK
    <2> QED BY <2>1, <2>2, Elements
  <1>9. ASSUME NEW r \in Requests, Stamp(r) PROVE Handed'
    <2>1. pc[r] \notin {"returning", "answered"} /\ calls' = calls  BY <1>9 DEF Stamp
    <2>2. \A s \in Requests : s # r => pc'[s] = pc[s]  BY <1>9 DEF Stamp, TypeOK
    <2> QED BY <2>1, <2>2, Elements
  <1>10. ASSUME NEW r \in Requests, Save(r) PROVE Handed'
    <2>1. pc[r] \notin {"returning", "answered"} /\ calls' = calls  BY <1>10 DEF Save
    <2>2. \A s \in Requests : s # r => pc'[s] = pc[s]  BY <1>10 DEF Save, TypeOK
    <2> QED BY <2>1, <2>2, Elements
  <1>11. ASSUME NEW r \in Requests, TakeNumber(r) PROVE Handed'
    <2>1. pc[r] \notin {"returning", "answered"} /\ calls' = calls  BY <1>11 DEF TakeNumber
    <2>2. \A s \in Requests : s # r => pc'[s] = pc[s]  BY <1>11 DEF TakeNumber, TypeOK
    <2> QED BY <2>1, <2>2, Elements
  <1>12. ASSUME NEW r \in Requests, HandOver(r) PROVE Handed'
    <2> DEFINE two == <<<<"put", r>>, <<"answer", r>>>>
    <2>1. \A s \in Requests : pc[s] \in {"returning", "answered"} => pc'[s] = pc[s]
      BY <1>12 DEF HandOver, TypeOK
    <2>2. pc'[r] = "returning"  BY <1>12 DEF HandOver, TypeOK
    <2>3. \A i \in DOMAIN calls' : \/ i \in DOMAIN calls /\ calls'[i] = calls[i]
                                   \/ calls'[i][2] = r
      <3>1. calls \in Seq({"put", "answer"} \X Requests)  BY Types
      <3>2. calls' = calls \o two /\ two[1][2] = r /\ two[2][2] = r  BY <1>12 DEF HandOver
      <3>3. Len(calls') = Len(calls) + 2  BY <3>1, <3>2
      <3>4. \A i \in 1..Len(calls) : calls'[i] = calls[i]  BY <3>1, <3>2
      <3>5. calls'[Len(calls) + 1] = two[1] /\ calls'[Len(calls) + 2] = two[2]  BY <3>1, <3>2
      <3>6. DOMAIN calls = 1..Len(calls) /\ DOMAIN calls' = 1..Len(calls') /\ Len(calls) \in Nat
        BY <3>1, <3>2
      <3>7. \A i \in 1..(Len(calls) + 2) :
               i \in 1..Len(calls) \/ i = Len(calls) + 1 \/ i = Len(calls) + 2
        BY <3>6
      <3> QED BY <3>2, <3>3, <3>4, <3>5, <3>6, <3>7
    <2> QED BY <2>1, <2>2, <2>3, Elements
  <1>13. CASE RunCall
    <2>1. \A i \in DOMAIN calls' : i + 1 \in DOMAIN calls /\ calls'[i] = calls[i + 1]
      BY <1>13, Tails DEF RunCall, TypeOK
    <2>2. \A s \in Requests :
             pc[s] \in {"returning", "answered"} => pc'[s] \in {"returning", "answered"}
      BY <1>13, RanCall DEF TypeOK
    <2> QED BY <2>1, <2>2, Elements
  <1>14. CASE WriterTakes  BY <1>14 DEF WriterTakes
  <1>15. CASE WriterWrites  BY <1>15 DEF WriterWrites
  <1>16. CASE CloseWriter  BY <1>16 DEF CloseWriter
  <1>17. CASE CloseGivesUp  BY <1>17 DEF CloseGivesUp
  <1>18. CASE UNCHANGED vars  BY <1>18 DEF vars
  <1> QED BY <1>1, <1>2, <1>3, <1>4, <1>5, <1>6, <1>7, <1>8, <1>9, <1>10, <1>11, <1>12, <1>13,
        <1>14, <1>15, <1>16, <1>17, <1>18 DEF Next

\* What is later is marked later.
LEMMA CausedStep ==
    ASSUME TypeOK, TypeOK', Marked, Handed, Caused, [Next]_vars
    PROVE  Caused'
  <1> USE DEF sessionVars, threadVars, writerVars, Caused
  <1>1. CASE Register  BY <1>1 DEF Register, Opened, TypeOK
  <1>2. CASE Dispatched  BY <1>2 DEF Dispatched, InFlight, TypeOK
  <1>3. CASE Load  BY <1>3 DEF Load, Opened, TypeOK
  <1>4. CASE Finish  BY <1>4 DEF Finish, InFlight, TypeOK
  <1>5. CASE Delete  BY <1>5 DEF Delete, TypeOK
  <1>6. CASE Forget  BY <1>6 DEF Forget, InFlight, TypeOK
  <1>7. ASSUME NEW r \in Requests, Begin(r) PROVE Caused'
    <2>1. /\ pc[r] = "idle" /\ pc'[r] # "idle"
          /\ earlier'[r] = {s \in Requests : pc[s] = "answered"}
          /\ \A s \in Requests : s # r => pc'[s] = pc[s] /\ earlier'[s] = earlier[s]
          /\ UNCHANGED <<stamp, number>>
      BY <1>7 DEF Begin, Answered, TypeOK
    <2>2. stamp[r] = 0 /\ number[r] = 0  BY <2>1 DEF Marked, Stamped, Numbered, TypeOK
    <2> QED BY <2>1, <2>2, Elements
  <1>8. ASSUME NEW r \in Requests, UpstreamFails(r) PROVE Caused'
    <2>1. /\ UNCHANGED <<stamp, number, earlier>>
          /\ pc[r] \notin {"answered", "idle"} /\ pc'[r] # "idle"
          /\ \A s \in Requests : s # r => pc'[s] = pc[s]
      BY <1>8 DEF UpstreamFails, TypeOK
    <2> QED BY <2>1, Elements
  <1>9. ASSUME NEW r \in Requests, Stamp(r) PROVE Caused'
    <2>1. /\ pc[r] = "upstream" /\ pc'[r] = "saving" /\ stamp'[r] = clock + 1
          /\ \A s \in Requests : s # r => pc'[s] = pc[s] /\ stamp'[s] = stamp[s]
          /\ UNCHANGED <<number, earlier>>
      BY <1>9 DEF Stamp, TypeOK
    <2>2. \A s \in Requests : stamp[s] \in Nat /\ clock \in Nat /\ stamp[s] < clock + 1
      BY Types DEF Marked
    <2>3. \A s \in Requests : r \notin earlier[s]  BY <2>1
    <2> QED BY <2>1, <2>2, <2>3, Elements
  <1>10. ASSUME NEW r \in Requests, Save(r) PROVE Caused'
    <2>1. /\ UNCHANGED <<stamp, number, earlier>>
          /\ pc[r] \notin {"answered", "idle"} /\ pc'[r] # "idle"
          /\ \A s \in Requests : s # r => pc'[s] = pc[s]
      BY <1>10 DEF Save, TypeOK
    <2> QED BY <2>1, Elements
  <1>11. ASSUME NEW r \in Requests, TakeNumber(r) PROVE Caused'
    <2>1. /\ pc[r] = "stored" /\ pc'[r] = "numbered" /\ number'[r] = sequence + 1
          /\ \A s \in Requests : s # r => pc'[s] = pc[s] /\ number'[s] = number[s]
          /\ UNCHANGED <<stamp, earlier>>
      BY <1>11 DEF TakeNumber, TypeOK
    <2>2. \A s \in Requests : number[s] \in Nat /\ sequence \in Nat /\ number[s] < sequence + 1
      BY Types DEF Marked
    <2>3. \A s \in Requests : r \notin earlier[s]  BY <2>1
    <2> QED BY <2>1, <2>2, <2>3, Elements
  <1>12. ASSUME NEW r \in Requests, HandOver(r) PROVE Caused'
    <2>1. /\ UNCHANGED <<stamp, number, earlier>>
          /\ pc[r] \notin {"answered", "idle"} /\ pc'[r] # "idle"
          /\ \A s \in Requests : s # r => pc'[s] = pc[s]
      BY <1>12 DEF HandOver, TypeOK
    <2> QED BY <2>1, Elements
  <1>13. CASE RunCall
    <2>1. UNCHANGED <<stamp, number, earlier>>  BY <1>13 DEF RunCall
    <2>2. \A s \in Requests : /\ pc[s] = "answered" => pc'[s] = "answered"
                              /\ pc[s] # "idle" => pc'[s] # "idle"
      BY <1>13, RanCall DEF TypeOK
    <2> QED BY <2>1, <2>2, Elements
  <1>14. CASE WriterTakes  BY <1>14 DEF WriterTakes, TypeOK
  <1>15. CASE WriterWrites  BY <1>15 DEF WriterWrites, TypeOK
  <1>16. CASE CloseWriter  BY <1>16 DEF CloseWriter, TypeOK
  <1>17. CASE CloseGivesUp  BY <1>17 DEF CloseGivesUp, TypeOK
  <1>18. CASE UNCHANGED vars  BY <1>18 DEF vars, TypeOK
  <1> QED BY <1>1, <1>2, <1>3, <1>4, <1>5, <1>6, <1>7, <1>8, <1>9, <1>10, <1>11, <1>12, <1>13,
        <1>14, <1>15, <1>16, <1>17, <1>18 DEF Next

\* A completion is recorded by the step that saves it.
LEMMA RecordedStep ==
    ASSUME TypeOK, TypeOK', Handed, Recorded, [Next]_vars
    PROVE  Recorded'
  <1> USE DEF sessionVars, threadVars, writerVars, Recorded, Saved
  <1>1. CASE Register
    <2>1. record' = record \/ record' = <<>>  BY <1>1 DEF Register, Opened
    <2>2. pc' = pc  BY <1>1 DEF Register
    <2> QED BY <2>1, <2>2
  <1>2. CASE Dispatched  BY <1>2 DEF Dispatched, InFlight
  <1>3. CASE Load  BY <1>3 DEF Load, Opened
  <1>4. CASE Finish  BY <1>4 DEF Finish, InFlight
  <1>5. CASE Delete  BY <1>5 DEF Delete
  <1>6. CASE Forget  BY <1>6 DEF Forget, InFlight
  <1>7. ASSUME NEW r \in Requests, Begin(r) PROVE Recorded'
    <2>1. record' = record /\ \A s \in Requests : pc[s] \in Saved => pc'[s] \in Saved
      BY <1>7 DEF Begin, TypeOK
    <2> QED BY <2>1, Elements
  <1>8. ASSUME NEW r \in Requests, UpstreamFails(r) PROVE Recorded'
    <2>1. record' = record /\ \A s \in Requests : pc[s] \in Saved => pc'[s] \in Saved
      BY <1>8 DEF UpstreamFails, TypeOK
    <2> QED BY <2>1, Elements
  <1>9. ASSUME NEW r \in Requests, Stamp(r) PROVE Recorded'
    <2>1. record' = record /\ \A s \in Requests : pc[s] \in Saved => pc'[s] \in Saved
      BY <1>9 DEF Stamp, TypeOK
    <2> QED BY <2>1, Elements
  <1>10. ASSUME NEW r \in Requests, Save(r) PROVE Recorded'
    <2>1. /\ \A s \in Requests : pc[s] \in Saved => pc'[s] \in Saved
          /\ pc'[r] \in Saved
      BY <1>10 DEF Save, TypeOK
    <2>2. Opened(record) \in Seq(Requests)  BY Types
    <2>3. \A i \in DOMAIN Opened(record) :
             pc[Opened(record)[i]] \in Saved /\ Opened(record)[i] \in Requests
      BY Elements DEF Opened
    <2>4. record' = Append(Opened(record), r)  BY <1>10 DEF Save
    <2> QED BY <2>1, <2>2, <2>3, <2>4, Appended
  <1>11. ASSUME NEW r \in Requests, TakeNumber(r) PROVE Recorded'
    <2>1. record' = record /\ \A s \in Requests : pc[s] \in Saved => pc'[s] \in Saved
      BY <1>11 DEF TakeNumber, TypeOK
    <2> QED BY <2>1, Elements
  <1>12. ASSUME NEW r \in Requests, HandOver(r) PROVE Recorded'
    <2>1. record' = record /\ \A s \in Requests : pc[s] \in Saved => pc'[s] \in Saved
      BY <1>12 DEF HandOver, TypeOK
    <2> QED BY <2>1, Elements
  <1>13. CASE RunCall
    <2>1. record' = record  BY <1>13 DEF RunCall
    <2>2. \A s \in Requests : pc[s] \in Saved => pc'[s] \in Saved  BY <1>13, RanCall DEF TypeOK
    <2> QED BY <2>1, <2>2, Elements
  <1>14. CASE WriterTakes  BY <1>14 DEF WriterTakes
  <1>15. CASE WriterWrites  BY <1>15 DEF WriterWrites
  <1>16. CASE CloseWriter  BY <1>16 DEF CloseWriter
  <1>17. CASE CloseGivesUp  BY <1>17 DEF CloseGivesUp
  <1>18. CASE UNCHANGED vars  BY <1>18 DEF vars
  <1> QED BY <1>1, <1>2, <1>3, <1>4, <1>5, <1>6, <1>7, <1>8, <1>9, <1>10, <1>11, <1>12, <1>13,
        <1>14, <1>15, <1>16, <1>17, <1>18 DEF Next

\* The builder gets what is recorded, sorted; no timestamp changes after that.
LEMMA InOrderStep ==
    ASSUME TypeOK, TypeOK', Marked, Recorded, InOrder, [Next]_vars
    PROVE  InOrder'
  <1> USE DEF sessionVars, threadVars, writerVars, InOrder
  <1>1. CASE Register  BY <1>1 DEF Register, Opened
  <1>2. CASE Dispatched  BY <1>2 DEF Dispatched, InFlight
  <1>3. CASE Load
    <2> DEFINE kept == Opened(record)
    <2>1. PICK order \in Bijection(DOMAIN kept, DOMAIN kept) :
             /\ trajectory' = [i \in DOMAIN kept |-> kept[order[i]]]
             /\ \A i, j \in DOMAIN kept : i < j => stamp[kept[order[i]]] <= stamp[kept[order[j]]]
      BY <1>3 DEF Load
    <2>2. \A i \in DOMAIN kept : order[i] \in DOMAIN kept  BY DEF Bijection, Injection
    <2>3. \A i \in DOMAIN kept : kept[i] \in Requests /\ pc[kept[i]] \in Saved
      BY Elements DEF Opened, Recorded
    <2>4. \A i \in DOMAIN kept : stamp[kept[order[i]]] # 0
      BY <2>2, <2>3 DEF Marked, Saved, Stamped
    <2>5. UNCHANGED stamp  BY <1>3 DEF Load
    <2> QED BY <2>1, <2>4, <2>5
  <1>4. CASE Finish  BY <1>4 DEF Finish, InFlight
  <1>5. CASE Delete  BY <1>5 DEF Delete
  <1>6. CASE Forget  BY <1>6 DEF Forget, InFlight
  <1>7. ASSUME NEW r \in Requests, Begin(r) PROVE InOrder'
    BY <1>7 DEF Begin, Answered
  <1>8. ASSUME NEW r \in Requests, UpstreamFails(r) PROVE InOrder'
    BY <1>8 DEF UpstreamFails
  <1>9. ASSUME NEW r \in Requests, Stamp(r) PROVE InOrder'
    <2>1. /\ UNCHANGED trajectory /\ stamp[r] = 0
          /\ \A s \in Requests : s # r => stamp'[s] = stamp[s]
      BY <1>9 DEF Stamp, TypeOK, Marked, Stamped
    <2> QED BY <2>1, Elements
  <1>10. ASSUME NEW r \in Requests, Save(r) PROVE InOrder'
    BY <1>10 DEF Save, Opened
  <1>11. ASSUME NEW r \in Requests, TakeNumber(r) PROVE InOrder'
    BY <1>11 DEF TakeNumber
  <1>12. ASSUME NEW r \in Requests, HandOver(r) PROVE InOrder'
    BY <1>12 DEF HandOver
  <1>13. CASE RunCall  BY <1>13 DEF RunCall
  <1>14. CASE WriterTakes  BY <1>14 DEF WriterTakes
  <1>15. CASE WriterWrites  BY <1>15 DEF WriterWrites
  <1>16. CASE CloseWriter  BY <1>16 DEF CloseWriter
  <1>17. CASE CloseGivesUp  BY <1>17 DEF CloseGivesUp
  <1>18. CASE UNCHANGED vars  BY <1>18 DEF vars
  <1> QED BY <1>1, <1>2, <1>3, <1>4, <1>5, <1>6, <1>7, <1>8, <1>9, <1>10, <1>11, <1>12, <1>13,
        <1>14, <1>15, <1>16, <1>17, <1>18 DEF Next

\* Dispatch comes before everything.
LEMMA NewStep ==
    ASSUME TypeOK, TypeOK', Handed, New, [Next]_vars
    PROVE  New'
  <1> USE DEF sessionVars, threadVars, writerVars, New
  <1>1. CASE Register  BY <1>1 DEF Register, Opened, TypeOK
  <1>2. CASE Dispatched  BY <1>2 DEF Dispatched, InFlight, TypeOK
  <1>3. CASE Load  BY <1>3 DEF Load, Opened, TypeOK
  <1>4. CASE Finish  BY <1>4 DEF Finish, InFlight, TypeOK
  <1>5. CASE Delete  BY <1>5 DEF Delete, TypeOK
  <1>6. CASE Forget  BY <1>6 DEF Forget, InFlight, TypeOK
  <1>7. ASSUME NEW r \in Requests, Begin(r) PROVE New'
    BY <1>7 DEF Begin, Answered, TypeOK
  <1>8. ASSUME NEW r \in Requests, UpstreamFails(r) PROVE New'
    BY <1>8 DEF UpstreamFails, TypeOK
  <1>9. ASSUME NEW r \in Requests, Stamp(r) PROVE New'
    BY <1>9 DEF Stamp, TypeOK
  <1>10. ASSUME NEW r \in Requests, Save(r) PROVE New'
    BY <1>10 DEF Save, Opened, TypeOK
  <1>11. ASSUME NEW r \in Requests, TakeNumber(r) PROVE New'
    BY <1>11 DEF TakeNumber, TypeOK
  <1>12. ASSUME NEW r \in Requests, HandOver(r) PROVE New'
    BY <1>12 DEF HandOver, TypeOK
  <1>13. CASE RunCall
    <2>1. CASE UNCHANGED pc  BY <1>13, <2>1 DEF RunCall, TypeOK
    <2>2. CASE \E r \in Requests : /\ pc[r] \in {"returning", "answered"}
                                   /\ pc' = [pc EXCEPT ![r] = "answered"]
      BY <1>13, <2>2 DEF RunCall, TypeOK
    <2> QED BY <1>13, <2>1, <2>2, RanCall
  <1>14. CASE WriterTakes  BY <1>14 DEF WriterTakes, TypeOK
  <1>15. CASE WriterWrites  BY <1>15 DEF WriterWrites, TypeOK
  <1>16. CASE CloseWriter  BY <1>16 DEF CloseWriter, TypeOK
  <1>17. CASE CloseGivesUp  BY <1>17 DEF CloseGivesUp, TypeOK
  <1>18. CASE UNCHANGED vars  BY <1>18 DEF vars, TypeOK
  <1> QED BY <1>1, <1>2, <1>3, <1>4, <1>5, <1>6, <1>7, <1>8, <1>9, <1>10, <1>11, <1>12, <1>13,
        <1>14, <1>15, <1>16, <1>17, <1>18 DEF Next

\* The record lasts.
LEMMA KeptStep ==
    ASSUME TypeOK, TypeOK', New, Handed, Kept, [Next]_vars
    PROVE  Kept'
  <1> USE DEF sessionVars, threadVars, writerVars, New, Kept, Saved
  <1>1. CASE Register
    <2>1. /\ session = "new"
          /\ session' = "registered" => registry' = "dispatched" /\ record' = Opened(record)
          /\ session' \in {"registered", "refused"} /\ pc' = pc
      BY <1>1 DEF Register
    <2>2. Opened(record) = <<>>  BY <2>1 DEF Opened
    <2>3. <<>> # NoRecord  BY DEF NoRecord
    <2> QED BY <2>1, <2>2, <2>3
  <1>2. CASE Dispatched  BY <1>2 DEF Dispatched, InFlight, TypeOK
  <1>3. CASE Load  BY <1>3 DEF Load, Opened, TypeOK
  <1>4. CASE Finish  BY <1>4 DEF Finish, InFlight, TypeOK
  <1>5. CASE Delete  BY <1>5 DEF Delete, TypeOK
  <1>6. CASE Forget  BY <1>6 DEF Forget, InFlight, TypeOK
  <1>7. ASSUME NEW r \in Requests, Begin(r) PROVE Kept'
    BY <1>7 DEF Begin, Answered, TypeOK
  <1>8. ASSUME NEW r \in Requests, UpstreamFails(r) PROVE Kept'
    BY <1>8 DEF UpstreamFails, TypeOK
  <1>9. ASSUME NEW r \in Requests, Stamp(r) PROVE Kept'
    BY <1>9 DEF Stamp, TypeOK
  <1>10. ASSUME NEW r \in Requests, Save(r) PROVE Kept'
    <2>1. /\ UNCHANGED <<session, deletion, registry>> /\ record' = Append(Opened(record), r)
          /\ \A s \in Requests : s # r => pc'[s] = pc[s]
      BY <1>10 DEF Save, TypeOK
    <2>2. Opened(record) \in Seq(Requests)  BY Types
    <2>3. record' # NoRecord
      <3>1. Len(record') = Len(Opened(record)) + 1 /\ record'[Len(record')] = r
        BY <2>1, <2>2, Appended
      <3>2. r # "no record"  BY StoreAssumption
      <3>3. Len(NoRecord) = 1 /\ NoRecord[1] = "no record"  BY DEF NoRecord
      <3> QED BY <3>1, <3>2, <3>3
    <2>4. r \in Requests /\ \E i \in DOMAIN record' : record'[i] = r  BY <2>1, <2>2, Appended
    <2>5. ASSUME record # NoRecord, NEW i \in DOMAIN record
          PROVE  \E j \in DOMAIN record' : record'[j] = record[i]
      BY <2>1, <2>2, <2>5, Appended DEF Opened
    <2> QED BY <2>1, <2>3, <2>4, <2>5
  <1>11. ASSUME NEW r \in Requests, TakeNumber(r) PROVE Kept'
    BY <1>11 DEF TakeNumber, TypeOK
  <1>12. ASSUME NEW r \in Requests, HandOver(r) PROVE Kept'
    BY <1>12 DEF HandOver, TypeOK
  <1>13. CASE RunCall
    <2>1. CASE UNCHANGED pc  BY <1>13, <2>1 DEF RunCall, TypeOK
    <2>2. CASE \E r \in Requests : /\ pc[r] \in {"returning", "answered"}
                                   /\ pc' = [pc EXCEPT ![r] = "answered"]
      BY <1>13, <2>2 DEF RunCall, TypeOK
    <2> QED BY <1>13, <2>1, <2>2, RanCall
  <1>14. CASE WriterTakes  BY <1>14 DEF WriterTakes, TypeOK
  <1>15. CASE WriterWrites  BY <1>15 DEF WriterWrites, TypeOK
  <1>16. CASE CloseWriter  BY <1>16 DEF CloseWriter, TypeOK
  <1>17. CASE CloseGivesUp  BY <1>17 DEF CloseGivesUp, TypeOK
  <1>18. CASE UNCHANGED vars  BY <1>18 DEF vars, TypeOK
  <1> QED BY <1>1, <1>2, <1>3, <1>4, <1>5, <1>6, <1>7, <1>8, <1>9, <1>10, <1>11, <1>12, <1>13,
        <1>14, <1>15, <1>16, <1>17, <1>18 DEF Next

\* Nobody makes the record again unnoticed.
LEMMA GoneStep ==
    ASSUME TypeOK, TypeOK', New, Handed, Gone, [Next]_vars
    PROVE  Gone'
  <1> USE DEF sessionVars, threadVars, writerVars, New, Gone
  <1>1. CASE Register  BY <1>1 DEF Register, Opened, TypeOK
  <1>2. CASE Dispatched  BY <1>2 DEF Dispatched, InFlight, TypeOK
  <1>3. CASE Load  BY <1>3 DEF Load, Opened, TypeOK
  <1>4. CASE Finish  BY <1>4 DEF Finish, InFlight, TypeOK
  <1>5. CASE Delete  BY <1>5 DEF Delete, TypeOK
  <1>6. CASE Forget  BY <1>6 DEF Forget, InFlight, TypeOK
  <1>7. ASSUME NEW r \in Requests, Begin(r) PROVE Gone'
    BY <1>7 DEF Begin, Answered, TypeOK
  <1>8. ASSUME NEW r \in Requests, UpstreamFails(r) PROVE Gone'
    BY <1>8 DEF UpstreamFails, TypeOK
  <1>9. ASSUME NEW r \in Requests, Stamp(r) PROVE Gone'
    BY <1>9 DEF Stamp, TypeOK
  <1>10. ASSUME NEW r \in Requests, Save(r) PROVE Gone'
    BY <1>10 DEF Save, Opened, TypeOK
  <1>11. ASSUME NEW r \in Requests, TakeNumber(r) PROVE Gone'
    BY <1>11 DEF TakeNumber, TypeOK
  <1>12. ASSUME NEW r \in Requests, HandOver(r) PROVE Gone'
    BY <1>12 DEF HandOver, TypeOK
  <1>13. CASE RunCall
    <2>1. CASE UNCHANGED pc  BY <1>13, <2>1 DEF RunCall, TypeOK
    <2>2. CASE \E r \in Requests : /\ pc[r] \in {"returning", "answered"}
                                   /\ pc' = [pc EXCEPT ![r] = "answered"]
      BY <1>13, <2>2 DEF RunCall, TypeOK
    <2> QED BY <1>13, <2>1, <2>2, RanCall
  <1>14. CASE WriterTakes  BY <1>14 DEF WriterTakes, TypeOK
  <1>15. CASE WriterWrites  BY <1>15 DEF WriterWrites, TypeOK
  <1>16. CASE CloseWriter  BY <1>16 DEF CloseWriter, TypeOK
  <1>17. CASE CloseGivesUp  BY <1>17 DEF CloseGivesUp, TypeOK
  <1>18. CASE UNCHANGED vars  BY <1>18 DEF vars, TypeOK
  <1> QED BY <1>1, <1>2, <1>3, <1>4, <1>5, <1>6, <1>7, <1>8, <1>9, <1>10, <1>11, <1>12, <1>13,
        <1>14, <1>15, <1>16, <1>17, <1>18 DEF Next

-----------------------------------------------------------------------------
\* Nothing was dispatched, asked for or written.
LEMMA Initially == Init => IInv
  <1> SUFFICES ASSUME Init PROVE IInv  OBVIOUS
  <1> USE DEF Init
  <1>1. TypeOK
    <2>1. pc \in [Requests -> Places]  BY DEF Places
    <2>2. Len(queue) <= QueueSize
      <3>1. Len(queue) = 0  OBVIOUS
      <3>2. QueueSize \in Nat  BY StoreAssumption
      <3> QED BY <3>1, <3>2
    <2>3. calls \in Seq({"put", "answer"} \X Requests) /\ queue \in Seq(Requests \union {Close})
      OBVIOUS
    <2> QED BY <2>1, <2>2, <2>3 DEF TypeOK
  <1>2. Marked /\ Counted
    <2>1. {r \in Requests : number[r] # 0} = {}  OBVIOUS
    <2>2. Counted  BY <2>1, FS_EmptySet DEF Counted
    <2> QED BY <2>2 DEF Marked, Stamped, Numbered
  <1>3. Handed /\ Caused  BY DEF Handed, Caused
  <1>4. Recorded /\ InOrder  BY DEF Recorded, InOrder
  <1>5. New /\ Kept /\ Gone  BY DEF New, Kept, Gone
  <1> QED BY <1>1, <1>2, <1>3, <1>4, <1>5 DEF IInv

\* Each part of the invariant follows from itself and the parts before it.
LEMMA Inductive == IInv /\ [Next]_vars => IInv'
  <1> SUFFICES ASSUME IInv, [Next]_vars PROVE IInv'  OBVIOUS
  <1>1. TypeOK /\ TypeOK'  BY TypeStep DEF IInv
  <1>2. Marked' /\ Counted' /\ Handed' /\ Caused'
    BY <1>1, MarkedStep, CountedStep, HandedStep, CausedStep DEF IInv
  <1>3. Recorded' /\ InOrder'  BY <1>1, RecordedStep, InOrderStep DEF IInv
  <1>4. New' /\ Kept' /\ Gone'  BY <1>1, NewStep, KeptStep, GoneStep DEF IInv
  <1> QED BY <1>1, <1>2, <1>3, <1>4 DEF IInv

\* The inductive invariant holds whatever the threads, the writer and DELETE do when.
THEOREM InvariantHolds == Spec => []IInv
  BY Initially, Inductive, PTL DEF Spec

\* Every variable of the store, its writer and its handlers keeps its type.
THEOREM TypeCorrect == Spec => []TypeOK
  <1>1. IInv => TypeOK  BY DEF IInv
  <1> QED BY <1>1, InvariantHolds, PTL

\* A completion that began after another was answered comes after it for the builder and
\* on disk: save_message stamps and enqueue numbers before the response is sent, and
\* CompletionSession sorts by the timestamps.
THEOREM CausesComeFirst == Spec => []CausalOrder
  <1>1. IInv => CausalOrder
    <2> SUFFICES ASSUME IInv, NEW r \in Requests, NEW s \in Requests, s \in earlier[r],
                        number[r] # 0, number[s] # 0
                 PROVE  /\ number[s] < number[r]
                        /\ trajectory # NoRecord => ~\E i, j \in DOMAIN trajectory :
                              i < j /\ trajectory[i] = r /\ trajectory[j] = s
      BY DEF CausalOrder
    <2>1. number[s] < number[r] /\ (stamp[r] # 0 => stamp[s] < stamp[r])  BY DEF IInv, Caused
    <2>2. ASSUME trajectory # NoRecord, NEW i \in DOMAIN trajectory, NEW j \in DOMAIN trajectory,
                 i < j, trajectory[i] = r, trajectory[j] = s
          PROVE  FALSE
      <3>1. stamp[r] # 0 /\ stamp[r] <= stamp[s]  BY <2>2 DEF IInv, InOrder
      <3>2. stamp[r] \in Nat /\ stamp[s] \in Nat  BY Types DEF IInv
      <3> QED BY <2>1, <3>1, <3>2
    <2> QED BY <2>1, <2>2
  <1> QED BY <1>1, InvariantHolds, PTL

\* delete_session forgets a session that is over but for the writer's count of it, unless a
\* completion was under way or asked for when the session was not known.
THEOREM OnlyTheCountIsRetained == Spec => []OnlyCountRetained
  <1>1. IInv => OnlyCountRetained  BY DEF IInv, Gone, Counted, OnlyCountRetained
  <1> QED BY <1>1, InvariantHolds, PTL

\* load_completion_session misses no completion the agent was answered with.
THEOREM AnsweredAreLoaded == Spec => AnsweredReachTrajectory
  <1>1. ASSUME IInv, Load, deletion # "done"
        PROVE  Answered \subseteq ToSet(trajectory')
    <2> SUFFICES ASSUME NEW r \in Answered PROVE r \in ToSet(trajectory')  OBVIOUS
    <2>1. r \in Requests /\ pc[r] \in Saved  BY DEF Answered, Saved
    <2>2. record # NoRecord /\ \E i \in DOMAIN record : record[i] = r
      BY <1>1, <2>1 DEF IInv, Kept, Load
    <2>3. Opened(record) = record  BY <2>2 DEF Opened
    <2>4. PICK order \in Bijection(DOMAIN record, DOMAIN record) :
             trajectory' = [i \in DOMAIN record |-> record[order[i]]]
      BY <1>1, <2>3 DEF Load
    <2>5. \A i \in DOMAIN record : \E j \in DOMAIN record : order[j] = i
      BY DEF Bijection, Surjection
    <2> QED BY <2>2, <2>4, <2>5 DEF ToSet
  <1>2. IInv /\ [Next]_vars =>
           [Load /\ deletion # "done" => Answered \subseteq ToSet(trajectory')]_vars
    BY <1>1
  <1> QED BY <1>2, InvariantHolds, PTL DEF Spec, AnsweredReachTrajectory
=============================================================================
