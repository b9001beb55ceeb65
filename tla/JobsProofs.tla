----------------------------- MODULE JobsProofs -----------------------------
(***************************************************************************)
(* Proofs about Jobs, for any set of Sisters, jobs and handler tasks:      *)
(* types, results, waiters, who executes, where an authorized job stays    *)
(* and the order of nonce and queue.                                       *)
(***************************************************************************)
EXTENDS Jobs, TLAPS

\* The entries of a queue, by position.
LEMMA SeqEntries ==
  ASSUME NEW S, NEW q \in Seq(S)
  PROVE  /\ Len(q) \in Nat
         /\ \A k \in 1..Len(q) : q[k] \in S
OBVIOUS

\* VecDeque::pop_front moves every entry one place to the front.
LEMMA PopEntries ==
  ASSUME NEW S, NEW q \in Seq(S), q # << >>
  PROVE  /\ Head(q) \in S /\ Head(q) = q[1]
         /\ Len(q) \in Nat \ {0}
         /\ Tail(q) \in Seq(S)
         /\ Len(Tail(q)) = Len(q) - 1
         /\ \A k \in 1..(Len(q) - 1) : Tail(q)[k] = q[k + 1]
OBVIOUS

\* VecDeque::push_back leaves every entry where it is.
LEMMA PushEntries ==
  ASSUME NEW S, NEW q \in Seq(S), NEW e \in S
  PROVE  /\ Append(q, e) \in Seq(S)
         /\ Len(Append(q, e)) = Len(q) + 1
         /\ \A k \in 1..Len(q) : Append(q, e)[k] = q[k]
         /\ Append(q, e)[Len(q) + 1] = e
OBVIOUS

\* The entries of two runs of a queue put together.
LEMMA ConcatEntries ==
  ASSUME NEW S, NEW l \in Seq(S), NEW r \in Seq(S)
  PROVE  /\ l \o r \in Seq(S)
         /\ Len(l \o r) = Len(l) + Len(r)
         /\ \A k \in 1..(Len(l) + Len(r)) :
              (l \o r)[k] = IF k <= Len(l) THEN l[k] ELSE r[k - Len(l)]
OBVIOUS

\* VecDeque::remove(i) keeps the other entries, in order.
LEMMA WithoutEntries ==
  ASSUME NEW S, NEW q \in Seq(S), NEW i \in 1..Len(q)
  PROVE  /\ Without(q, i) \in Seq(S)
         /\ Len(Without(q, i)) = Len(q) - 1
         /\ \A k \in 1..(Len(q) - 1) :
              Without(q, i)[k] = IF k < i THEN q[k] ELSE q[k + 1]
<1> DEFINE l == SubSeq(q, 1, i - 1)
           r == SubSeq(q, i + 1, Len(q))
<1>0. Len(q) \in Nat /\ \A k \in 1..Len(q) : q[k] \in S
  BY Zenon, SeqEntries
<1>1. /\ l \in Seq(S)
      /\ Len(l) = i - 1
      /\ \A k \in 1..(i - 1) : l[k] = q[k]
  BY <1>0
<1>2. /\ r \in Seq(S)
      /\ Len(r) = Len(q) - i
      /\ \A k \in 1..(Len(q) - i) : r[k] = q[i + k]
  BY <1>0
<1>3. /\ l \o r \in Seq(S)
      /\ Len(l \o r) = Len(l) + Len(r)
      /\ \A k \in 1..(Len(l) + Len(r)) :
           (l \o r)[k] = IF k <= Len(l) THEN l[k] ELSE r[k - Len(l)]
  BY Zenon, <1>1, <1>2, ConcatEntries
<1>4. Without(q, i) = l \o r
  BY Zenon DEF Without
<1> HIDE DEF l, r
<1>5. Len(l) + Len(r) = Len(q) - 1
  BY <1>0, <1>1, <1>2
<1>6. ASSUME NEW k \in 1..(Len(q) - 1)
      PROVE  (l \o r)[k] = IF k < i THEN q[k] ELSE q[k + 1]
  <2>1. CASE k < i
    BY SMTT(30), <2>1, <1>0, <1>1, <1>3, <1>5
  <2>2. CASE ~(k < i)
    <3>1. k - (i - 1) \in 1..(Len(q) - i) /\ i + (k - (i - 1)) = k + 1
      BY <2>2, <1>0
    <3>2. (l \o r)[k] = r[k - (i - 1)]
      BY SMTT(30), <2>2, <1>0, <1>1, <1>3, <1>5
    <3>3. r[k - (i - 1)] = q[k + 1]
      BY Zenon, <3>1, <1>2
    <3> QED
      BY Zenon, <2>2, <3>2, <3>3
  <2> QED
    BY ZenonT(60), <2>1, <2>2
<1> QED
  BY Zenon, <1>3, <1>4, <1>5, <1>6

\* What a queue holds after pop_front it held before.
LEMMA PopKeeps ==
  ASSUME NEW S, NEW q \in Seq(S), q # << >>, NEW k \in 1..Len(Tail(q))
  PROVE  \E m \in 1..Len(q) : Tail(q)[k] = q[m]
<1>1. k + 1 \in 1..Len(q) /\ Tail(q)[k] = q[k + 1]
  BY PopEntries
<1> QED
  BY Zenon, <1>1

\* What a queue holds after a removal it held before.
LEMMA WithoutKeeps ==
  ASSUME NEW S, NEW q \in Seq(S), NEW i \in 1..Len(q),
         NEW k \in 1..Len(Without(q, i))
  PROVE  \E m \in 1..Len(q) : Without(q, i)[k] = q[m]
<1>1. Len(q) \in Nat
  BY Zenon, SeqEntries
<1>2. /\ Len(Without(q, i)) = Len(q) - 1
      /\ \A n \in 1..(Len(q) - 1) :
           Without(q, i)[n] = IF n < i THEN q[n] ELSE q[n + 1]
  BY Zenon, WithoutEntries
<1>3. k \in 1..(Len(q) - 1)
  BY Zenon, <1>2
<1>4. k \in 1..Len(q) /\ k + 1 \in 1..Len(q)
  BY <1>1, <1>3
<1> QED
  BY Zenon, <1>2, <1>3, <1>4

-----------------------------------------------------------------------------
(* Type correctness *)

\* Updating one entry of a two-level map keeps its type.
LEMMA Update2 ==
  ASSUME NEW S, NEW T, NEW V, NEW f \in [S -> [T -> V]],
         NEW a \in S, NEW b \in T, NEW v \in V
  PROVE  [f EXCEPT ![a][b] = v] \in [S -> [T -> V]]
BY Zenon

\* A submission that is under way has built its envelope, which TypeOK alone
\* does not know when the envelope is put on the wire.
CallMade ==
  \A j \in JobIds :
    /\ sub[j] \in {"sending", "waiting", "inline"} => call[j] # NoCall
    /\ call[j] # NoCall => call[j].job.id = j

TypeInv == TypeOK /\ CallMade

\* What a handler task or the executor works on is a job.
LEMMA TaskTyped ==
  ASSUME TypeOK, NEW s \in Sisters, NEW t \in Tasks, task[s][t].pc # "idle"
  PROVE  /\ task[s][t] \in TaskRecord
         /\ task[s][t].job \in LocalJob
         /\ task[s][t].job.id \in JobIds
         /\ task[s][t].peer \in Sisters
<1>1. task[s][t] \in TaskRecord \cup {Idle}
  BY DEF TypeOK
<1>2. task[s][t] \in TaskRecord
  BY <1>1 DEF Idle
<1> QED
  BY Zenon, <1>2 DEF TaskRecord, LocalJob

\* What the executor works on is a job.
LEMMA ExecTyped ==
  ASSUME TypeOK, NEW s \in Sisters, exec[s].pc # "idle"
  PROVE  /\ exec[s] \in ExecRecord
         /\ exec[s].job \in LocalJob
         /\ exec[s].job.id \in JobIds
         /\ exec[s].job.creator \in Sisters
<1>1. exec[s] \in ExecRecord \cup {Idle}
  BY Zenon DEF TypeOK
<1>2. exec[s] \in ExecRecord
  BY <1>1 DEF Idle
<1> QED
  BY Zenon, <1>2 DEF ExecRecord, LocalJob

\* Moving a handler to another program counter.
LEMMA TaskMoves ==
  ASSUME TypeOK, NEW s \in Sisters, NEW t \in Tasks, task[s][t].pc # "idle",
         NEW pc \in {"forward", "record", "enqueue", "handing", "mark", "return"}
  PROVE  [task EXCEPT ![s][t].pc = pc] \in [Sisters -> [Tasks -> TaskRecord \cup {Idle}]]
<1>1. [task[s][t] EXCEPT !.pc = pc] \in TaskRecord
  BY TaskTyped DEF TaskRecord
<1>2. [task EXCEPT ![s][t].pc = pc]
        = [task EXCEPT ![s][t] = [task[s][t] EXCEPT !.pc = pc]]
  BY Zenon DEF TypeOK
<1>3. task \in [Sisters -> [Tasks -> TaskRecord \cup {Idle}]]
  BY Zenon DEF TypeOK
<1> QED
  BY Zenon, <1>1, <1>2, <1>3, Update2

\* A handler that returns leaves the task table well typed.
LEMMA TaskEnds ==
  ASSUME TypeOK, NEW s \in Sisters, NEW t \in Tasks
  PROVE  [task EXCEPT ![s][t] = Idle] \in [Sisters -> [Tasks -> TaskRecord \cup {Idle}]]
<1>1. task \in [Sisters -> [Tasks -> TaskRecord \cup {Idle}]]
  BY Zenon DEF TypeOK
<1> QED
  BY Zenon, <1>1, Update2

\* The mark_* operations of JobManager keep the metadata map well typed.
LEMMA MarkTyped ==
  ASSUME TypeOK, NEW s \in Sisters, NEW j \in JobIds, NEW status \in Status,
         Mark(s, j, status)
  PROVE  jobs' \in [Sisters -> [JobIds -> Status]]
BY Zenon DEF TypeOK, Mark

\* JobManager::enqueue keeps the metadata map and the queue well typed.
LEMMA EnqueueTyped ==
  ASSUME TypeOK, NEW s \in Sisters, NEW job \in LocalJob, Enqueue(s, job)
  PROVE  /\ jobs' \in [Sisters -> [JobIds -> Status]]
         /\ queue' \in [Sisters -> Seq(LocalJob)]
<1>1. job.id \in JobIds /\ "Queued" \in Status
  BY Zenon DEF LocalJob, Status
<1> QED
  BY <1>1 DEF TypeOK, Enqueue

\* TypeOK and CallMade together are inductive.
LEMMA TypeStep == TypeInv /\ [Next]_vars => TypeInv'
<1> SUFFICES ASSUME TypeOK, CallMade, [Next]_vars PROVE TypeOK' /\ CallMade'
  BY Zenon DEF TypeInv
<1> USE JobsAssumption DEF netVars, durable, waiting, history
<1>1. ASSUME NEW j \in JobIds, NEW c \in Sisters, NEW e \in Sisters, NEW via \in Sisters,
             NEW auth \in Sisters \cup {NoAuth}, SubmitReserve(j, c, e, via, auth)
      PROVE  TypeOK' /\ CallMade'
  <2>1. call'[j] \in JobData /\ call'[j].job.id = j /\ call'[j].to # NoAuth
    BY <1>1 DEF TypeOK, JobData, LocalJob, SubmitReserve
  <2>2. call' \in [JobIds -> JobData \cup {NoCall}] /\ sub' \in [JobIds -> SubPc]
        /\ pending' \in [Sisters -> SUBSET JobIds]
    BY SMTT(30), <1>1, <2>1 DEF TypeOK, SubPc, SubmitReserve
  <2>3. CallMade'
    BY Zenon, <1>1, <2>1 DEF TypeOK, CallMade, NoCall, SubmitReserve
  <2> QED
    BY Zenon, <1>1, <2>2, <2>3 DEF TypeOK, SubmitReserve
<1>2. ASSUME NEW j \in JobIds, NEW c \in Sisters, SubmitInline(j, c)
      PROVE  TypeOK' /\ CallMade'
  <2>1. call'[j] \in JobData /\ call'[j].job.id = j /\ call'[j].to # NoAuth
    BY Zenon, <1>2 DEF TypeOK, JobData, LocalJob, SubmitInline
  <2>2. call' \in [JobIds -> JobData \cup {NoCall}] /\ sub' \in [JobIds -> SubPc]
    BY Zenon, <1>2, <2>1 DEF TypeOK, SubPc, SubmitInline
  <2>3. jobs' \in [Sisters -> [JobIds -> Status]]
    BY Zenon, <1>2 DEF TypeOK, Status, SubmitInline
  <2>4. starts' \in [Sisters -> [JobIds -> 0..2]]
    BY SMTT(30), <1>2 DEF TypeOK, SubmitInline
  <2>5. CallMade'
    BY Zenon, <1>2, <2>1 DEF TypeOK, CallMade, NoCall, SubmitInline
  <2> QED
    BY Zenon, <1>2, <2>2, <2>3, <2>4, <2>5 DEF TypeOK, SubmitInline
<1>3. ASSUME NEW j \in JobIds, NEW c \in Sisters, SubmitLocal(j, c)
      PROVE  TypeOK' /\ CallMade'
  <2>1. [id |-> j, creator |-> c, auth |-> NoAuth] \in LocalJob
    BY Zenon, <1>3 DEF LocalJob
  <2>2. jobs' \in [Sisters -> [JobIds -> Status]] /\ queue' \in [Sisters -> Seq(LocalJob)]
    BY Zenon, <1>3, <2>1, EnqueueTyped DEF SubmitLocal
  <2>3. sub' \in [JobIds -> SubPc]
    BY Zenon, <1>3 DEF TypeOK, SubPc, SubmitLocal
  <2> QED
    BY Zenon, <1>3, <2>1, <2>2, <2>3 DEF TypeOK, CallMade, SubmitLocal
<1>4. ASSUME NEW j \in JobIds, SubmitTransmit(j)
      PROVE  TypeOK' /\ CallMade'
  <2>1. call[j] \in JobData
    BY Zenon, <1>4 DEF TypeOK, CallMade, SubmitTransmit
  <2> QED
    BY Zenon, <1>4, <2>1 DEF TypeOK, CallMade, SubmitTransmit
<1>5. ASSUME NEW j \in JobIds, SubmitSent(j)
      PROVE  TypeOK' /\ CallMade'
  <2>1. sub' \in [JobIds -> SubPc]
    BY Zenon, <1>5 DEF TypeOK, SubPc, SubmitSent
  <2> QED
    BY Zenon, <1>5, <2>1 DEF TypeOK, CallMade, SubmitSent
<1>6. ASSUME NEW j \in JobIds, SubmitSendFails(j)
      PROVE  TypeOK' /\ CallMade'
  <2>1. sub' \in [JobIds -> SubPc] /\ pending' \in [Sisters -> SUBSET JobIds]
    BY ZenonT(60), <1>6 DEF TypeOK, SubPc, SubmitSendFails
  <2> QED
    BY Zenon, <1>6, <2>1 DEF TypeOK, CallMade, SubmitSendFails
<1>7. ASSUME NEW j \in JobIds, SubmitResult(j)
      PROVE  TypeOK' /\ CallMade'
  <2>1. sub' \in [JobIds -> SubPc]
    BY Zenon, <1>7 DEF TypeOK, SubPc, SubmitResult
  <2> QED
    BY Zenon, <1>7, <2>1 DEF TypeOK, CallMade, SubmitResult
<1>8. ASSUME NEW j \in JobIds, SubmitTimeout(j)
      PROVE  TypeOK' /\ CallMade'
  <2>1. sub' \in [JobIds -> SubPc] /\ pending' \in [Sisters -> SUBSET JobIds]
    BY ZenonT(60), <1>8 DEF TypeOK, SubPc, SubmitTimeout
  <2> QED
    BY Zenon, <1>8, <2>1 DEF TypeOK, CallMade, SubmitTimeout
<1>9. ASSUME NEW j \in JobIds, SubmitDropped(j)
      PROVE  TypeOK' /\ CallMade'
  <2>1. sub' \in [JobIds -> SubPc]
    BY Zenon, <1>9 DEF TypeOK, SubPc, SubmitDropped
  <2> QED
    BY Zenon, <1>9, <2>1 DEF TypeOK, CallMade, SubmitDropped
<1>10. ASSUME NEW j \in JobIds, InlineFinished(j)
      PROVE  TypeOK' /\ CallMade'
  <2>1. call[j].from \in Sisters
    BY Zenon, <1>10 DEF TypeOK, CallMade, JobData, InlineFinished
  <2>2. jobs' \in [Sisters -> [JobIds -> Status]]
    BY Zenon, <1>10, <2>1, MarkTyped DEF Status, InlineFinished
  <2>3. sub' \in [JobIds -> SubPc]
    BY Zenon, <1>10 DEF TypeOK, SubPc, InlineFinished
  <2> QED
    BY SMTT(30), <1>10, <2>1, <2>2, <2>3 DEF TypeOK, CallMade, InlineFinished
<1>11. ASSUME NEW s \in Sisters, NEW t \in Tasks, NEW m \in jobMsgs, NEW known \in BOOLEAN,
             HandleJob(s, t, m, known)
      PROVE  TypeOK' /\ CallMade'
  <2>1. m.job \in LocalJob /\ m.executor \in Sisters
    BY Zenon, <1>11 DEF TypeOK, JobData
  <2>2. task' \in [Sisters -> [Tasks -> TaskRecord \cup {Idle}]]
    BY SMTT(30), <1>11, <2>1, Update2 DEF TypeOK, TaskRecord, HandleJob
  <2> QED
    BY Zenon, <1>11, <2>1, <2>2 DEF TypeOK, CallMade, HandleJob
<1>12. ASSUME NEW s \in Sisters, NEW r \in Sisters, NEW t \in Tasks, NEW known \in BOOLEAN,
             HandleJobRequest(s, t, r, known)
      PROVE  TypeOK' /\ CallMade'
  <2>1. queue[s] \in Seq(LocalJob) /\ \A i \in 1..Len(queue[s]) : queue[s][i] \in LocalJob
    BY Zenon, <1>12, SeqEntries DEF TypeOK
  <2>2. queue' \in [Sisters -> Seq(LocalJob)]
    BY SMTT(30), <1>12, <2>1, WithoutEntries DEF TypeOK, HandleJobRequest
  <2>3. task' \in [Sisters -> [Tasks -> TaskRecord \cup {Idle}]]
    BY SMTT(30), <1>12, <2>1, Update2 DEF TypeOK, TaskRecord, HandleJobRequest
  <2> QED
    BY Zenon, <1>12, <2>1, <2>2, <2>3 DEF TypeOK, CallMade, HandleJobRequest
<1>13. ASSUME NEW s \in Sisters, NEW t \in Tasks, RecordNonce(s, t)
      PROVE  TypeOK' /\ CallMade'
  <2>1. task[s][t].job.id \in JobIds /\ task' \in [Sisters -> [Tasks -> TaskRecord \cup {Idle}]]
    BY ZenonT(60), <1>13, TaskTyped, TaskMoves DEF RecordNonce
  <2>2. nonces' \in [Sisters -> SUBSET JobIds]
    BY SMTT(30), <1>13, <2>1 DEF TypeOK, RecordNonce
  <2> QED
    BY Zenon, <1>13, <2>1, <2>2 DEF TypeOK, CallMade, RecordNonce
<1>14. ASSUME NEW s \in Sisters, NEW t \in Tasks, RecordFails(s, t)
      PROVE  TypeOK' /\ CallMade'
  <2>1. task' \in [Sisters -> [Tasks -> TaskRecord \cup {Idle}]]
    BY Zenon, <1>14, TaskEnds DEF RecordFails
  <2>2. torn' \in [Sisters -> BOOLEAN]
    BY ZenonT(60), <1>14 DEF TypeOK, RecordFails
  <2> QED
    BY Zenon, <1>14, <2>1, <2>2 DEF TypeOK, CallMade, RecordFails
<1>15. ASSUME NEW s \in Sisters, NEW t \in Tasks, HandlerEnqueue(s, t)
      PROVE  TypeOK' /\ CallMade'
  <2>1. task' \in [Sisters -> [Tasks -> TaskRecord \cup {Idle}]]
    BY Zenon, <1>15, TaskEnds DEF HandlerEnqueue
  <2>2. jobs' \in [Sisters -> [JobIds -> Status]] /\ queue' \in [Sisters -> Seq(LocalJob)]
    BY Zenon, <1>15, TaskTyped, EnqueueTyped DEF HandlerEnqueue
  <2> QED
    BY Zenon, <1>15, <2>1, <2>2 DEF TypeOK, CallMade, HandlerEnqueue
<1>16. ASSUME NEW s \in Sisters, NEW t \in Tasks, Forward(s, t)
      PROVE  TypeOK' /\ CallMade'
  <2>1. task' \in [Sisters -> [Tasks -> TaskRecord \cup {Idle}]]
    BY Zenon, <1>16, TaskEnds DEF Forward
  <2>2. [from |-> s, to |-> task[s][t].peer, executor |-> task[s][t].peer,
         job |-> task[s][t].job] \in JobData
    BY Zenon, <1>16, TaskTyped DEF JobData, Forward
  <2> QED
    BY Zenon, <1>16, <2>1, <2>2 DEF TypeOK, CallMade, Forward
<1>17. ASSUME NEW s \in Sisters, NEW t \in Tasks, HandOver(s, t)
      PROVE  TypeOK' /\ CallMade'
  <2>1. task' \in [Sisters -> [Tasks -> TaskRecord \cup {Idle}]]
    <3>1. \A pc \in {"mark", "return"} : [task EXCEPT ![s][t].pc = pc]
                                          \in [Sisters -> [Tasks -> TaskRecord \cup {Idle}]]
      BY ZenonT(60), <1>17, TaskMoves DEF HandOver
    <3> QED
      BY SMTT(30), <1>17, <3>1 DEF HandOver
  <2>2. [from |-> s, to |-> task[s][t].peer, executor |-> task[s][t].peer,
         job |-> task[s][t].job] \in JobData
    BY Zenon, <1>17, TaskTyped DEF JobData, HandOver
  <2> QED
    BY Zenon, <1>17, <2>1, <2>2 DEF TypeOK, CallMade, HandOver
<1>18. ASSUME NEW s \in Sisters, NEW t \in Tasks, MarkTransferred(s, t)
      PROVE  TypeOK' /\ CallMade'
  <2>1. task' \in [Sisters -> [Tasks -> TaskRecord \cup {Idle}]]
    BY Zenon, <1>18, TaskEnds DEF MarkTransferred
  <2>2. jobs' \in [Sisters -> [JobIds -> Status]]
    BY Zenon, <1>18, TaskTyped, MarkTyped DEF Status, MarkTransferred
  <2> QED
    BY Zenon, <1>18, <2>1, <2>2 DEF TypeOK, CallMade, MarkTransferred
<1>19. ASSUME NEW s \in Sisters, NEW t \in Tasks, ReturnJob(s, t)
      PROVE  TypeOK' /\ CallMade'
  <2>1. task' \in [Sisters -> [Tasks -> TaskRecord \cup {Idle}]]
    BY Zenon, <1>19, TaskEnds DEF ReturnJob
  <2>2. queue' \in [Sisters -> Seq(LocalJob)]
    BY SMTT(30), <1>19, TaskTyped DEF TypeOK, PushBack, ReturnJob
  <2> QED
    BY Zenon, <1>19, <2>1, <2>2 DEF TypeOK, CallMade, ReturnJob
<1>20. ASSUME NEW s \in Sisters, NEW m \in resMsgs, HandleJobResponse(s, m)
      PROVE  TypeOK' /\ CallMade'
  <2>1. m.id \in JobIds
    BY Zenon, <1>20 DEF TypeOK, JobResultData
  <2>2. pending' \in [Sisters -> SUBSET JobIds] /\ value' \subseteq JobIds
    BY Zenon, <1>20, <2>1 DEF TypeOK, HandleJobResponse
  <2> QED
    BY Zenon, <1>20, <2>1, <2>2 DEF TypeOK, CallMade, HandleJobResponse
<1>21. ASSUME NEW s \in Sisters, ExecutorPop(s)
      PROVE  TypeOK' /\ CallMade'
  <2>1. queue[s] \in Seq(LocalJob) /\ Head(queue[s]) \in LocalJob /\ Tail(queue[s]) \in Seq(LocalJob)
    BY Zenon, <1>21, PopEntries DEF TypeOK, ExecutorPop
  <2>2. queue' \in [Sisters -> Seq(LocalJob)]
    BY Zenon, <1>21, <2>1 DEF TypeOK, ExecutorPop
  <2>3. exec' \in [Sisters -> ExecRecord \cup {Idle}]
    BY Zenon, <1>21, <2>1 DEF TypeOK, ExecRecord, ExecutorPop
  <2> QED
    BY Zenon, <1>21, <2>1, <2>2, <2>3 DEF TypeOK, CallMade, ExecutorPop
<1>22. ASSUME NEW s \in Sisters, ExecutorStart(s)
      PROVE  TypeOK' /\ CallMade'
  <2>1. exec[s] \in ExecRecord /\ exec[s].job.id \in JobIds
    BY Zenon, <1>22, ExecTyped DEF ExecutorStart
  <2>2. jobs' \in [Sisters -> [JobIds -> Status]]
    BY Zenon, <1>22, <2>1, MarkTyped DEF Status, ExecutorStart
  <2>3. starts' \in [Sisters -> [JobIds -> 0..2]]
    BY <1>22, <2>1 DEF TypeOK, ExecutorStart
  <2>4. exec' \in [Sisters -> ExecRecord \cup {Idle}]
    BY ZenonT(60), <1>22, <2>1 DEF TypeOK, ExecRecord, ExecutorStart
  <2> QED
    BY Zenon, <1>22, <2>1, <2>2, <2>3, <2>4 DEF TypeOK, CallMade, ExecutorStart
<1>23. ASSUME NEW s \in Sisters, ExecutorFinish(s)
      PROVE  TypeOK' /\ CallMade'
  <2>1. exec[s] \in ExecRecord /\ exec[s].job.id \in JobIds
    BY Zenon, <1>23, ExecTyped DEF ExecutorFinish
  <2>2. jobs' \in [Sisters -> [JobIds -> Status]]
    BY Zenon, <1>23, <2>1, MarkTyped DEF Status, ExecutorFinish
  <2>3. exec' \in [Sisters -> ExecRecord \cup {Idle}]
    BY ZenonT(60), <1>23, <2>1 DEF TypeOK, ExecRecord, ExecutorFinish
  <2> QED
    BY <1>23, <2>1, <2>2, <2>3 DEF TypeOK, CallMade, ExecutorFinish
<1>24. ASSUME NEW s \in Sisters, ExecutorRespond(s)
      PROVE  TypeOK' /\ CallMade'
  <2>1. exec[s].job.id \in JobIds /\ exec[s].job.creator \in Sisters
    BY Zenon, <1>24, ExecTyped DEF ExecutorRespond
  <2>2. resMsgs' \subseteq JobResultData
    BY SMTT(30), <1>24, <2>1 DEF TypeOK, JobResultData, ExecutorRespond
  <2>3. exec' \in [Sisters -> ExecRecord \cup {Idle}]
    BY Zenon, <1>24 DEF TypeOK, ExecutorRespond
  <2> QED
    BY Zenon, <1>24, <2>1, <2>2, <2>3 DEF TypeOK, CallMade, ExecutorRespond
<1>25. ASSUME NEW s \in Sisters, Crash(s)
      PROVE  TypeOK' /\ CallMade'
  <2>1. queue' \in [Sisters -> Seq(LocalJob)] /\ jobs' \in [Sisters -> [JobIds -> Status]]
    BY <1>25 DEF TypeOK, Status, Crash
  <2>2. pending' \in [Sisters -> SUBSET JobIds] /\ torn' \in [Sisters -> BOOLEAN]
    BY ZenonT(60), <1>25 DEF TypeOK, Crash
  <2>3. task' \in [Sisters -> [Tasks -> TaskRecord \cup {Idle}]]
        /\ exec' \in [Sisters -> ExecRecord \cup {Idle}]
    BY Zenon, <1>25 DEF TypeOK, Crash
  <2>4. sub' \in [JobIds -> SubPc] /\ faults' \in Nat
    BY SMTT(30), <1>25 DEF TypeOK, SubPc, Crash
  <2> QED
    BY Zenon, <1>25, <2>1, <2>2, <2>3, <2>4 DEF TypeOK, CallMade, Crash
<1>26. ASSUME NEW s \in Sisters, NEW p \in Sisters, StealTick(s, p)
      PROVE  TypeOK' /\ CallMade'
  BY SMTT(30), <1>26 DEF TypeOK, CallMade, StealTick
<1>27. ASSUME NEW j \in JobIds, Expire(j)
      PROVE  TypeOK' /\ CallMade'
  BY Zenon, <1>27 DEF TypeOK, CallMade, Expire
<1>28. CASE UNCHANGED vars
  BY Zenon, <1>28 DEF TypeOK, CallMade, vars
<1>29. ASSUME NEW s \in Sisters, NEW t \in Tasks, AbortHandler(s, t)
      PROVE  TypeOK' /\ CallMade'
  <2>1. task' \in [Sisters -> [Tasks -> TaskRecord \cup {Idle}]]
    BY Zenon, <1>29, TaskEnds DEF AbortHandler
  <2> QED
    BY SMTT(30), <1>29, <2>1 DEF TypeOK, CallMade, AbortHandler
<1> QED
  BY Zenon, <1>1, <1>2, <1>3, <1>4, <1>5, <1>6, <1>7, <1>8, <1>9, <1>10,
     <1>11, <1>12, <1>13, <1>14, <1>15, <1>16, <1>17, <1>18, <1>19, <1>20, <1>21,
     <1>22, <1>23, <1>24, <1>25, <1>26, <1>27, <1>28, <1>29
     DEF Next, Submission, Handler, Executor

\* The type invariant holds when the Sisters start.
LEMMA TypeInit == Init => TypeInv
<1> SUFFICES ASSUME Init PROVE TypeOK /\ CallMade
  BY Zenon DEF TypeInv
<1> USE DEF Init
<1>1. jobMsgs \subseteq JobData /\ resMsgs \subseteq JobResultData
  BY Zenon
<1>2. queue \in [Sisters -> Seq(LocalJob)] /\ jobs \in [Sisters -> [JobIds -> Status]]
  BY DEF Status
<1>3. /\ task \in [Sisters -> [Tasks -> TaskRecord \cup {Idle}]]
      /\ exec \in [Sisters -> ExecRecord \cup {Idle}]
  BY Zenon
<1>4. sub \in [JobIds -> SubPc] /\ call \in [JobIds -> JobData \cup {NoCall}]
  BY Zenon DEF SubPc
<1>5. starts \in [Sisters -> [JobIds -> 0..2]]
  OBVIOUS
<1>6. CallMade
  BY Zenon DEF CallMade
<1> QED
  BY Zenon, <1>1, <1>2, <1>3, <1>4, <1>5, <1>6 DEF TypeOK

\* The strengthened type invariant holds in every reachable state.
LEMMA TypeAlways == Spec => []TypeInv
<1>1. Init => TypeInv
  BY Zenon, TypeInit
<1>2. TypeInv /\ [Next]_vars => TypeInv'
  BY Zenon, TypeStep
<1> QED
  BY <1>1, <1>2, PTL DEF Spec

\* Every reachable state is well typed: in particular only envelopes that a
\* submission built are ever sent, forwarded or handed over.
THEOREM TypeCorrect == Spec => []TypeOK
<1>1. TypeInv => TypeOK
  BY Zenon DEF TypeInv
<1> QED
  BY <1>1, TypeAlways, PTL

-----------------------------------------------------------------------------
(* Results and waiters *)

\* Everything that carries a result stems from a finished execution.
ResultTrail ==
  /\ \A m \in resMsgs : \E s \in Sisters : <<s, m.id>> \in finished
  /\ \A s \in Sisters : exec[s].pc = "respond" => <<s, exec[s].job.id>> \in finished
  /\ \A j \in value : \E s \in Sisters : <<s, j>> \in finished
  /\ ResultIsGenuine

\* Every step keeps the trail from a result back to its execution.
LEMMA ResultStep == TypeInv /\ ResultTrail /\ [Next]_vars => ResultTrail'
<1> SUFFICES ASSUME TypeOK, CallMade, ResultTrail, [Next]_vars PROVE ResultTrail'
  BY Zenon DEF TypeInv
<1> USE DEF netVars, durable, waiting, history
<1>1. ASSUME NEW j \in JobIds, NEW c \in Sisters, NEW e \in Sisters, NEW via \in Sisters,
             NEW auth \in Sisters \cup {NoAuth}, SubmitReserve(j, c, e, via, auth)
      PROVE  ResultTrail'
  BY ZenonT(60), <1>1 DEF TypeOK, ResultTrail, ResultIsGenuine, SubmitReserve
<1>2. ASSUME NEW j \in JobIds, NEW c \in Sisters, SubmitInline(j, c)
      PROVE  ResultTrail'
  BY ZenonT(60), <1>2 DEF TypeOK, ResultTrail, ResultIsGenuine, SubmitInline
<1>3. ASSUME NEW j \in JobIds, NEW c \in Sisters, SubmitLocal(j, c)
      PROVE  ResultTrail'
  BY ZenonT(60), <1>3 DEF TypeOK, ResultTrail, ResultIsGenuine, SubmitLocal, Enqueue
<1>4. ASSUME NEW j \in JobIds, SubmitTransmit(j)
      PROVE  ResultTrail'
  BY ZenonT(60), <1>4 DEF TypeOK, ResultTrail, ResultIsGenuine, SubmitTransmit
<1>5. ASSUME NEW j \in JobIds, SubmitSent(j)
      PROVE  ResultTrail'
  BY ZenonT(60), <1>5 DEF TypeOK, ResultTrail, ResultIsGenuine, SubmitSent
<1>6. ASSUME NEW j \in JobIds, SubmitSendFails(j)
      PROVE  ResultTrail'
  BY ZenonT(60), <1>6 DEF TypeOK, ResultTrail, ResultIsGenuine, SubmitSendFails
<1>7. ASSUME NEW j \in JobIds, SubmitResult(j)
      PROVE  ResultTrail'
  BY ZenonT(60), <1>7 DEF TypeOK, ResultTrail, ResultIsGenuine, SubmitResult
<1>8. ASSUME NEW j \in JobIds, SubmitTimeout(j)
      PROVE  ResultTrail'
  BY ZenonT(60), <1>8 DEF TypeOK, ResultTrail, ResultIsGenuine, SubmitTimeout
<1>9. ASSUME NEW j \in JobIds, SubmitDropped(j)
      PROVE  ResultTrail'
  BY ZenonT(60), <1>9 DEF TypeOK, ResultTrail, ResultIsGenuine, SubmitDropped
<1>10. ASSUME NEW j \in JobIds, InlineFinished(j)
      PROVE  ResultTrail'
  <2>1. call[j].from \in Sisters
    BY ZenonT(60), <1>10 DEF TypeOK, CallMade, JobData, InlineFinished
  <2> QED
    BY ZenonT(60), <1>10, <2>1 DEF TypeOK, ResultTrail, ResultIsGenuine, InlineFinished
<1>11. ASSUME NEW s \in Sisters, NEW t \in Tasks, NEW m \in jobMsgs, NEW known \in BOOLEAN,
             HandleJob(s, t, m, known)
      PROVE  ResultTrail'
  BY ZenonT(60), <1>11 DEF TypeOK, ResultTrail, ResultIsGenuine, HandleJob
<1>12. ASSUME NEW s \in Sisters, NEW r \in Sisters, NEW t \in Tasks, NEW known \in BOOLEAN,
             HandleJobRequest(s, t, r, known)
      PROVE  ResultTrail'
  BY ZenonT(60), <1>12 DEF TypeOK, ResultTrail, ResultIsGenuine, HandleJobRequest
<1>13. ASSUME NEW s \in Sisters, NEW t \in Tasks, RecordNonce(s, t)
      PROVE  ResultTrail'
  BY ZenonT(60), <1>13 DEF TypeOK, ResultTrail, ResultIsGenuine, RecordNonce
<1>14. ASSUME NEW s \in Sisters, NEW t \in Tasks, RecordFails(s, t)
      PROVE  ResultTrail'
  BY ZenonT(60), <1>14 DEF TypeOK, ResultTrail, ResultIsGenuine, RecordFails
<1>15. ASSUME NEW s \in Sisters, NEW t \in Tasks, HandlerEnqueue(s, t)
      PROVE  ResultTrail'
  BY ZenonT(60), <1>15 DEF TypeOK, ResultTrail, ResultIsGenuine, HandlerEnqueue, Enqueue
<1>16. ASSUME NEW s \in Sisters, NEW t \in Tasks, Forward(s, t)
      PROVE  ResultTrail'
  BY ZenonT(60), <1>16 DEF TypeOK, ResultTrail, ResultIsGenuine, Forward
<1>17. ASSUME NEW s \in Sisters, NEW t \in Tasks, HandOver(s, t)
      PROVE  ResultTrail'
  BY ZenonT(60), <1>17 DEF TypeOK, ResultTrail, ResultIsGenuine, HandOver
<1>18. ASSUME NEW s \in Sisters, NEW t \in Tasks, MarkTransferred(s, t)
      PROVE  ResultTrail'
  BY ZenonT(60), <1>18 DEF TypeOK, ResultTrail, ResultIsGenuine, MarkTransferred
<1>19. ASSUME NEW s \in Sisters, NEW t \in Tasks, ReturnJob(s, t)
      PROVE  ResultTrail'
  BY ZenonT(60), <1>19 DEF TypeOK, ResultTrail, ResultIsGenuine, ReturnJob, PushBack
<1>20. ASSUME NEW s \in Sisters, NEW m \in resMsgs, HandleJobResponse(s, m)
      PROVE  ResultTrail'
  BY ZenonT(60), <1>20 DEF TypeOK, ResultTrail, ResultIsGenuine, HandleJobResponse
<1>21. ASSUME NEW s \in Sisters, ExecutorPop(s)
      PROVE  ResultTrail'
  BY ZenonT(60), <1>21 DEF TypeOK, ResultTrail, ResultIsGenuine, ExecutorPop
<1>22. ASSUME NEW s \in Sisters, ExecutorStart(s)
      PROVE  ResultTrail'
  <2>1. exec[s] \in ExecRecord
    BY Zenon, <1>22, ExecTyped DEF ExecutorStart
  <2>2. \A p \in Sisters : exec'[p].pc = "respond" =>
          exec[p].pc = "respond" /\ exec'[p].job = exec[p].job
    BY Zenon, <1>22, <2>1 DEF TypeOK, ExecRecord, Idle, ExecutorStart
  <2> QED
    BY ZenonT(60), <1>22, <2>2 DEF TypeOK, ResultTrail, ResultIsGenuine, ExecutorStart
<1>23. ASSUME NEW s \in Sisters, ExecutorFinish(s)
      PROVE  ResultTrail'
  <2>1. exec[s] \in ExecRecord
    BY Zenon, <1>23, ExecTyped DEF ExecutorFinish
  <2>2. \A p \in Sisters : exec'[p].pc = "respond" =>
          \/ exec[p].pc = "respond" /\ exec'[p].job = exec[p].job
          \/ p = s /\ exec'[p].job = exec[p].job
    BY Zenon, <1>23, <2>1 DEF TypeOK, ExecRecord, Idle, ExecutorFinish
  <2>3. finished \subseteq finished' /\ <<s, exec[s].job.id>> \in finished'
    BY Zenon, <1>23 DEF ExecutorFinish
  <2>4. \A p \in Sisters : exec'[p].pc = "respond" => <<p, exec'[p].job.id>> \in finished'
    BY Zenon, <2>2, <2>3 DEF ResultTrail
  <2> QED
    BY Zenon, <1>23, <2>3, <2>4 DEF ResultTrail, ResultIsGenuine, ExecutorFinish
<1>24. ASSUME NEW s \in Sisters, ExecutorRespond(s)
      PROVE  ResultTrail'
  <2>1. \A p \in Sisters : exec'[p].pc = "respond" =>
          exec[p].pc = "respond" /\ exec'[p].job = exec[p].job
    BY Zenon, <1>24 DEF TypeOK, Idle, ExecutorRespond
  <2>2. \A m \in resMsgs' : \E p \in Sisters : <<p, m.id>> \in finished
    <3>1. <<s, exec[s].job.id>> \in finished
      BY Zenon, <1>24 DEF ResultTrail, ExecutorRespond
    <3>2. \A m \in resMsgs' : m \in resMsgs \/ m.id = exec[s].job.id
      BY SMTT(30), <1>24 DEF ExecutorRespond
    <3> QED
      BY Zenon, <3>1, <3>2 DEF ResultTrail
  <2> QED
    BY ZenonT(60), <1>24, <2>1, <2>2 DEF TypeOK, ResultTrail, ResultIsGenuine, ExecutorRespond
<1>25. ASSUME NEW s \in Sisters, Crash(s)
      PROVE  ResultTrail'
  <2>1. \A p \in Sisters : exec'[p].pc = "respond" =>
          exec[p].pc = "respond" /\ exec'[p].job = exec[p].job
    BY Zenon, <1>25 DEF TypeOK, Idle, Crash
  <2>2. \A j \in JobIds : sub'[j] = "ok" => sub[j] = "ok"
    BY Zenon, <1>25 DEF TypeOK, Crash
  <2> QED
    BY ZenonT(60), <1>25, <2>1, <2>2 DEF TypeOK, ResultTrail, ResultIsGenuine, Crash
<1>26. ASSUME NEW s \in Sisters, NEW p \in Sisters, StealTick(s, p)
      PROVE  ResultTrail'
  BY ZenonT(60), <1>26 DEF TypeOK, ResultTrail, ResultIsGenuine, StealTick
<1>27. ASSUME NEW j \in JobIds, Expire(j)
      PROVE  ResultTrail'
  BY ZenonT(60), <1>27 DEF TypeOK, ResultTrail, ResultIsGenuine, Expire
<1>28. CASE UNCHANGED vars
  BY ZenonT(60), <1>28 DEF TypeOK, ResultTrail, ResultIsGenuine, vars
<1>29. ASSUME NEW s \in Sisters, NEW t \in Tasks, AbortHandler(s, t)
      PROVE  ResultTrail'
  BY ZenonT(60), <1>29 DEF TypeOK, ResultTrail, ResultIsGenuine, AbortHandler
<1> QED
  BY Zenon, <1>1, <1>2, <1>3, <1>4, <1>5, <1>6, <1>7, <1>8, <1>9, <1>10, <1>11, <1>12,
     <1>13, <1>14, <1>15, <1>16, <1>17, <1>18, <1>19, <1>20, <1>21, <1>22, <1>23, <1>24,
     <1>25, <1>26, <1>27, <1>28, <1>29
     DEF Next, Submission, Handler, Executor

\* Every step keeps a waiting submission resolvable.
LEMMA WaiterStep == TypeInv /\ WaiterReachable /\ [Next]_vars => WaiterReachable'
<1> SUFFICES ASSUME TypeOK, CallMade, WaiterReachable, [Next]_vars PROVE WaiterReachable'
  BY Zenon DEF TypeInv
<1> USE DEF netVars, durable, waiting, history
<1>1. ASSUME NEW j \in JobIds, NEW c \in Sisters, NEW e \in Sisters, NEW via \in Sisters,
             NEW auth \in Sisters \cup {NoAuth}, SubmitReserve(j, c, e, via, auth)
      PROVE  WaiterReachable'
  BY SMTT(30), <1>1 DEF TypeOK, WaiterReachable, SubmitReserve
<1>2. ASSUME NEW j \in JobIds, NEW c \in Sisters, SubmitInline(j, c)
      PROVE  WaiterReachable'
  BY Zenon, <1>2 DEF TypeOK, WaiterReachable, SubmitInline
<1>3. ASSUME NEW j \in JobIds, NEW c \in Sisters, SubmitLocal(j, c)
      PROVE  WaiterReachable'
  BY Zenon, <1>3 DEF TypeOK, WaiterReachable, SubmitLocal, Enqueue
<1>4. ASSUME NEW j \in JobIds, SubmitTransmit(j)
      PROVE  WaiterReachable'
  BY Zenon, <1>4 DEF TypeOK, WaiterReachable, SubmitTransmit
<1>5. ASSUME NEW j \in JobIds, SubmitSent(j)
      PROVE  WaiterReachable'
  BY Zenon, <1>5 DEF TypeOK, WaiterReachable, SubmitSent
<1>6. ASSUME NEW j \in JobIds, SubmitSendFails(j)
      PROVE  WaiterReachable'
  BY SMTT(30), <1>6 DEF TypeOK, WaiterReachable, SubmitSendFails
<1>7. ASSUME NEW j \in JobIds, SubmitResult(j)
      PROVE  WaiterReachable'
  BY Zenon, <1>7 DEF TypeOK, WaiterReachable, SubmitResult
<1>8. ASSUME NEW j \in JobIds, SubmitTimeout(j)
      PROVE  WaiterReachable'
  BY SMTT(30), <1>8 DEF TypeOK, WaiterReachable, SubmitTimeout
<1>9. ASSUME NEW j \in JobIds, SubmitDropped(j)
      PROVE  WaiterReachable'
  BY Zenon, <1>9 DEF TypeOK, WaiterReachable, SubmitDropped
<1>10. ASSUME NEW j \in JobIds, InlineFinished(j)
      PROVE  WaiterReachable'
  BY Zenon, <1>10 DEF TypeOK, WaiterReachable, InlineFinished
<1>11. ASSUME NEW s \in Sisters, NEW t \in Tasks, NEW m \in jobMsgs, NEW known \in BOOLEAN,
             HandleJob(s, t, m, known)
      PROVE  WaiterReachable'
  BY ZenonT(60), <1>11 DEF TypeOK, WaiterReachable, HandleJob
<1>12. ASSUME NEW s \in Sisters, NEW r \in Sisters, NEW t \in Tasks, NEW known \in BOOLEAN,
             HandleJobRequest(s, t, r, known)
      PROVE  WaiterReachable'
  BY Zenon, <1>12 DEF TypeOK, WaiterReachable, HandleJobRequest
<1>13. ASSUME NEW s \in Sisters, NEW t \in Tasks, RecordNonce(s, t)
      PROVE  WaiterReachable'
  BY Zenon, <1>13 DEF TypeOK, WaiterReachable, RecordNonce
<1>14. ASSUME NEW s \in Sisters, NEW t \in Tasks, RecordFails(s, t)
      PROVE  WaiterReachable'
  BY ZenonT(60), <1>14 DEF TypeOK, WaiterReachable, RecordFails
<1>15. ASSUME NEW s \in Sisters, NEW t \in Tasks, HandlerEnqueue(s, t)
      PROVE  WaiterReachable'
  BY Zenon, <1>15 DEF TypeOK, WaiterReachable, HandlerEnqueue, Enqueue
<1>16. ASSUME NEW s \in Sisters, NEW t \in Tasks, Forward(s, t)
      PROVE  WaiterReachable'
  BY Zenon, <1>16 DEF TypeOK, WaiterReachable, Forward
<1>17. ASSUME NEW s \in Sisters, NEW t \in Tasks, HandOver(s, t)
      PROVE  WaiterReachable'
  BY Zenon, <1>17 DEF TypeOK, WaiterReachable, HandOver
<1>18. ASSUME NEW s \in Sisters, NEW t \in Tasks, MarkTransferred(s, t)
      PROVE  WaiterReachable'
  BY Zenon, <1>18 DEF TypeOK, WaiterReachable, MarkTransferred
<1>19. ASSUME NEW s \in Sisters, NEW t \in Tasks, ReturnJob(s, t)
      PROVE  WaiterReachable'
  BY Zenon, <1>19 DEF TypeOK, WaiterReachable, ReturnJob, PushBack
<1>20. ASSUME NEW s \in Sisters, NEW m \in resMsgs, HandleJobResponse(s, m)
      PROVE  WaiterReachable'
  BY SMTT(30), <1>20 DEF TypeOK, WaiterReachable, HandleJobResponse
<1>21. ASSUME NEW s \in Sisters, ExecutorPop(s)
      PROVE  WaiterReachable'
  BY Zenon, <1>21 DEF TypeOK, WaiterReachable, ExecutorPop
<1>22. ASSUME NEW s \in Sisters, ExecutorStart(s)
      PROVE  WaiterReachable'
  BY Zenon, <1>22 DEF TypeOK, WaiterReachable, ExecutorStart
<1>23. ASSUME NEW s \in Sisters, ExecutorFinish(s)
      PROVE  WaiterReachable'
  BY Zenon, <1>23 DEF TypeOK, WaiterReachable, ExecutorFinish
<1>24. ASSUME NEW s \in Sisters, ExecutorRespond(s)
      PROVE  WaiterReachable'
  BY Zenon, <1>24 DEF TypeOK, WaiterReachable, ExecutorRespond
<1>25. ASSUME NEW s \in Sisters, Crash(s)
      PROVE  WaiterReachable'
  BY SMTT(30), <1>25 DEF TypeOK, WaiterReachable, Crash
<1>26. ASSUME NEW s \in Sisters, NEW p \in Sisters, StealTick(s, p)
      PROVE  WaiterReachable'
  BY Zenon, <1>26 DEF TypeOK, WaiterReachable, StealTick
<1>27. ASSUME NEW j \in JobIds, Expire(j)
      PROVE  WaiterReachable'
  BY Zenon, <1>27 DEF TypeOK, WaiterReachable, Expire
<1>28. CASE UNCHANGED vars
  BY Zenon, <1>28 DEF TypeOK, WaiterReachable, vars
<1>29. ASSUME NEW s \in Sisters, NEW t \in Tasks, AbortHandler(s, t)
      PROVE  WaiterReachable'
  BY ZenonT(60), <1>29 DEF TypeOK, WaiterReachable, AbortHandler
<1> QED
  BY ZenonT(60), <1>1, <1>2, <1>3, <1>4, <1>5, <1>6, <1>7, <1>8, <1>9, <1>10, <1>11, <1>12,
     <1>13, <1>14, <1>15, <1>16, <1>17, <1>18, <1>19, <1>20, <1>21, <1>22, <1>23, <1>24,
     <1>25, <1>26, <1>27, <1>28, <1>29
     DEF Next, Submission, Handler, Executor

\* A submission reports a result only if some Sister ran the command to its end,
\* whatever responses were lost, repeated or late.
THEOREM ResultsAreGenuine == Spec => []ResultIsGenuine
<1>1. Init => ResultTrail
  BY DEF Init, ResultTrail, ResultIsGenuine, Idle
<1>2. TypeInv /\ ResultTrail /\ [Next]_vars => ResultTrail'
  BY Zenon, ResultStep
<1>3. ResultTrail => ResultIsGenuine
  BY Zenon DEF ResultTrail
<1> QED
  BY <1>1, <1>2, <1>3, TypeAlways, PTL DEF Spec

\* A submission that waits can be resolved: neither a cancelled sibling, nor a
\* response that was consumed, nor a crash strands it.
THEOREM WaitersAreReachable == Spec => []WaiterReachable
<1>1. Init => WaiterReachable
  BY Zenon DEF Init, WaiterReachable
<1>2. TypeInv /\ WaiterReachable /\ [Next]_vars => WaiterReachable'
  BY Zenon, WaiterStep
<1> QED
  BY <1>1, <1>2, TypeAlways, PTL DEF Spec

-----------------------------------------------------------------------------
(* Invariants on jobs in circulation *)

\* A job in circulation is the one its submission built; only submit_local
\* makes jobs without an envelope.
Genuine(job) ==
  IF call[job.id] = NoCall THEN sub[job.id] = "enqueued" /\ job.auth = NoAuth
                           ELSE job = call[job.id].job

\* Nothing carries a job id that no submission has drawn yet.
Drawn ==
  /\ \A j \in JobIds : sub[j] = "idle" => call[j] = NoCall
  /\ \A s \in Sisters, j \in JobIds : starts[s][j] > 0 => sub[j] # "idle"
  /\ \A m \in jobMsgs : Genuine(m.job)
  /\ \A s \in Sisters : \A i \in 1..Len(queue[s]) : Genuine(queue[s][i])
  /\ \A s \in Sisters, t \in Tasks : task[s][t].pc # "idle" => Genuine(task[s][t].job)
  /\ \A s \in Sisters : exec[s].pc # "idle" => Genuine(exec[s].job)

\* The Sister may hold the job.
Entitled(s, job) ==
  IF job.auth = NoAuth THEN s \in Insecure \/ job.creator = s ELSE job.auth = s

\* No Sister asks itself for work, and an authorized job is only ever queued at
\* the Sister it names, so work stealing never moves one.
Custody ==
  /\ \A r \in reqMsgs : r[1] # r[2]
  /\ \A s \in Sisters : \A i \in 1..Len(queue[s]) : Entitled(s, queue[s][i])
  /\ \A s \in Sisters, t \in Tasks :
       /\ task[s][t].pc \in {"record", "enqueue", "handing", "mark", "return"}
            => Entitled(s, task[s][t].job)
       /\ task[s][t].pc = "record" => task[s][t].job.auth # NoAuth
       /\ task[s][t].pc \in {"handing", "mark", "return"}
            => task[s][t].job.auth = NoAuth
  /\ \A s \in Sisters : exec[s].pc # "idle" => Entitled(s, exec[s].job)

\* The three places where an admitted job waits for its start.
InQueue(s, j) == {i \in 1..Len(queue[s]) : queue[s][i].id = j}
InTask(s, j) == {t \in Tasks : task[s][t].pc = "enqueue" /\ task[s][t].job.id = j}
InExec(s, j) == exec[s].pc = "popped" /\ exec[s].job.id = j

\* An authorized job that has not expired waits at most once at s, and only
\* before its first start; waiting or started, its nonce is on disk.
OneToken(s, j) ==
  /\ \A i, k \in InQueue(s, j) : i = k
  /\ \A t, u \in InTask(s, j) : t = u
  /\ InQueue(s, j) = {} \/ InTask(s, j) = {}
  /\ InExec(s, j) => InQueue(s, j) = {} /\ InTask(s, j) = {}
  /\ InQueue(s, j) # {} \/ InTask(s, j) # {} \/ InExec(s, j)
       => starts[s][j] = 0 /\ j \in nonces[s]
  /\ starts[s][j] > 0
       => starts[s][j] = 1 /\ j \in nonces[s] /\ call[j].job.auth = s

Once ==
  \A s \in Sisters, j \in JobIds :
    Authorized(j) /\ j \notin expired => OneToken(s, j)

-----------------------------------------------------------------------------
(* Which steps touch what *)

\* What each step leaves alone, of the state that jobs live in.
LEMMA Footprints ==
  ASSUME [Next]_vars
  PROVE  \/ UNCHANGED <<jobMsgs, reqMsgs, queue, jobs, task, exec, nonces, expired, sub, call,
                        starts>>
         \/ /\ \E j \in JobIds, c, e, via \in Sisters, auth \in Sisters \cup {NoAuth} :
                 SubmitReserve(j, c, e, via, auth)
            /\ UNCHANGED <<jobMsgs, reqMsgs, queue, jobs, task, exec, nonces, expired, starts>>
         \/ /\ \E j \in JobIds, c \in Sisters : SubmitInline(j, c)
            /\ UNCHANGED <<jobMsgs, reqMsgs, queue, task, exec, nonces, expired>>
         \/ /\ \E j \in JobIds, c \in Sisters : SubmitLocal(j, c)
            /\ UNCHANGED <<jobMsgs, reqMsgs, task, exec, nonces, expired, call, starts>>
         \/ /\ \E j \in JobIds : SubmitTransmit(j)
            /\ UNCHANGED <<reqMsgs, queue, jobs, task, exec, nonces, expired, call, starts>>
         \/ /\ \E j \in JobIds :
                 \/ SubmitSent(j) \/ SubmitSendFails(j) \/ SubmitResult(j)
                 \/ SubmitTimeout(j) \/ SubmitDropped(j)
            /\ UNCHANGED <<jobMsgs, reqMsgs, queue, jobs, task, exec, nonces, expired, call,
                           starts>>
         \/ /\ \E j \in JobIds : InlineFinished(j)
            /\ UNCHANGED <<jobMsgs, reqMsgs, queue, task, exec, nonces, expired, call, starts>>
         \/ /\ \E s \in Sisters, t \in Tasks, m \in jobMsgs, known \in BOOLEAN :
                 HandleJob(s, t, m, known)
            /\ UNCHANGED <<jobMsgs, reqMsgs, queue, jobs, exec, nonces, expired, sub, call, starts>>
         \/ /\ \E s, r \in Sisters, t \in Tasks, known \in BOOLEAN :
                 HandleJobRequest(s, t, r, known)
            /\ UNCHANGED <<jobMsgs, reqMsgs, jobs, exec, nonces, expired, sub, call, starts>>
         \/ /\ \E s \in Sisters, t \in Tasks : RecordNonce(s, t)
            /\ UNCHANGED <<jobMsgs, reqMsgs, queue, jobs, exec, expired, sub, call, starts>>
         \/ /\ \E s \in Sisters, t \in Tasks :
                 RecordFails(s, t) \/ AbortHandler(s, t)
            /\ UNCHANGED <<jobMsgs, reqMsgs, queue, jobs, exec, nonces, expired, sub, call, starts>>
         \/ /\ \E s \in Sisters, t \in Tasks : HandlerEnqueue(s, t)
            /\ UNCHANGED <<jobMsgs, reqMsgs, exec, nonces, expired, sub, call, starts>>
         \/ /\ \E s \in Sisters, t \in Tasks :
                 Forward(s, t) \/ HandOver(s, t)
            /\ UNCHANGED <<reqMsgs, queue, jobs, exec, nonces, expired, sub, call, starts>>
         \/ /\ \E s \in Sisters, t \in Tasks : MarkTransferred(s, t)
            /\ UNCHANGED <<jobMsgs, reqMsgs, queue, exec, nonces, expired, sub, call, starts>>
         \/ /\ \E s \in Sisters, t \in Tasks : ReturnJob(s, t)
            /\ UNCHANGED <<jobMsgs, reqMsgs, jobs, exec, nonces, expired, sub, call, starts>>
         \/ /\ \E s \in Sisters : ExecutorPop(s)
            /\ UNCHANGED <<jobMsgs, reqMsgs, jobs, task, nonces, expired, sub, call, starts>>
         \/ /\ \E s \in Sisters : ExecutorStart(s)
            /\ UNCHANGED <<jobMsgs, reqMsgs, queue, task, nonces, expired, sub, call>>
         \/ /\ \E s \in Sisters : ExecutorFinish(s)
            /\ UNCHANGED <<jobMsgs, reqMsgs, queue, task, nonces, expired, sub, call, starts>>
         \/ /\ \E s \in Sisters : ExecutorRespond(s)
            /\ UNCHANGED <<jobMsgs, reqMsgs, queue, jobs, task, nonces, expired, sub, call, starts>>
         \/ /\ \E s \in Sisters : Crash(s)
            /\ UNCHANGED <<jobMsgs, reqMsgs, nonces, expired, call, starts>>
         \/ /\ \E s, p \in Sisters : StealTick(s, p)
            /\ UNCHANGED <<jobMsgs, queue, jobs, task, exec, nonces, expired, sub, call, starts>>
         \/ /\ \E j \in JobIds : Expire(j)
            /\ UNCHANGED <<jobMsgs, reqMsgs, queue, jobs, task, exec, nonces, sub, call, starts>>
<1>1. ASSUME NEW j \in JobIds, NEW c \in Sisters, NEW e \in Sisters,
             NEW via \in Sisters, NEW auth \in Sisters \cup {NoAuth},
             SubmitReserve(j, c, e, via, auth)
      PROVE  UNCHANGED <<jobMsgs, reqMsgs, queue, jobs, task, exec, nonces, expired, starts>>
  BY Zenon, <1>1 DEF SubmitReserve, netVars, durable, waiting, history
<1>2. ASSUME NEW j \in JobIds, NEW c \in Sisters, SubmitInline(j, c)
      PROVE  UNCHANGED <<jobMsgs, reqMsgs, queue, task, exec, nonces, expired>>
  BY Zenon, <1>2 DEF SubmitInline, netVars, durable, waiting, history
<1>3. ASSUME NEW j \in JobIds, NEW c \in Sisters, SubmitLocal(j, c)
      PROVE  UNCHANGED <<jobMsgs, reqMsgs, task, exec, nonces, expired, call, starts>>
  BY Zenon, <1>3 DEF SubmitLocal, netVars, durable, waiting, history
<1>4. ASSUME NEW j \in JobIds, SubmitTransmit(j)
      PROVE  UNCHANGED <<reqMsgs, queue, jobs, task, exec, nonces, expired, call, starts>>
  BY Zenon, <1>4 DEF SubmitTransmit, netVars, durable, waiting, history
<1>5. ASSUME NEW j \in JobIds,
             \/ SubmitSent(j) \/ SubmitSendFails(j) \/ SubmitResult(j)
             \/ SubmitTimeout(j) \/ SubmitDropped(j)
      PROVE  UNCHANGED <<jobMsgs, reqMsgs, queue, jobs, task, exec, nonces, expired, call, starts>>
  BY Zenon, <1>5 DEF SubmitSent, SubmitSendFails, SubmitResult, SubmitTimeout, SubmitDropped,
     netVars, durable, waiting, history
<1>6. ASSUME NEW j \in JobIds, InlineFinished(j)
      PROVE  UNCHANGED <<jobMsgs, reqMsgs, queue, task, exec, nonces, expired, call, starts>>
  BY Zenon, <1>6 DEF InlineFinished, netVars, durable, waiting, history
<1>7. ASSUME NEW s \in Sisters, NEW t \in Tasks, NEW m \in jobMsgs, NEW known \in BOOLEAN,
             HandleJob(s, t, m, known)
      PROVE  UNCHANGED <<jobMsgs, reqMsgs, queue, jobs, exec, nonces, expired, sub, call, starts>>
  BY Zenon, <1>7 DEF HandleJob, netVars, durable, waiting, history
<1>8. ASSUME NEW s \in Sisters, NEW r \in Sisters, NEW t \in Tasks, NEW known \in BOOLEAN,
             HandleJobRequest(s, t, r, known)
      PROVE  UNCHANGED <<jobMsgs, reqMsgs, jobs, exec, nonces, expired, sub, call, starts>>
  BY Zenon, <1>8 DEF HandleJobRequest, netVars, durable, waiting, history
<1>9. ASSUME NEW s \in Sisters, NEW t \in Tasks, RecordNonce(s, t)
      PROVE  UNCHANGED <<jobMsgs, reqMsgs, queue, jobs, exec, expired, sub, call, starts>>
  BY Zenon, <1>9 DEF RecordNonce, netVars, durable, waiting, history
<1>10. ASSUME NEW s \in Sisters, NEW t \in Tasks,
             RecordFails(s, t) \/ AbortHandler(s, t)
      PROVE  UNCHANGED <<jobMsgs, reqMsgs, queue, jobs, exec, nonces, expired, sub, call, starts>>
  BY Zenon, <1>10 DEF RecordFails, AbortHandler, netVars, durable, waiting, history
<1>11. ASSUME NEW s \in Sisters, NEW t \in Tasks, HandlerEnqueue(s, t)
      PROVE  UNCHANGED <<jobMsgs, reqMsgs, exec, nonces, expired, sub, call, starts>>
  BY Zenon, <1>11 DEF HandlerEnqueue, netVars, durable, waiting, history
<1>12. ASSUME NEW s \in Sisters, NEW t \in Tasks,
             Forward(s, t) \/ HandOver(s, t)
      PROVE  UNCHANGED <<reqMsgs, queue, jobs, exec, nonces, expired, sub, call, starts>>
  BY Zenon, <1>12 DEF Forward, HandOver, netVars, durable, waiting, history
<1>13. ASSUME NEW s \in Sisters, NEW t \in Tasks, MarkTransferred(s, t)
      PROVE  UNCHANGED <<jobMsgs, reqMsgs, queue, exec, nonces, expired, sub, call, starts>>
  BY Zenon, <1>13 DEF MarkTransferred, netVars, durable, waiting, history
<1>14. ASSUME NEW s \in Sisters, NEW t \in Tasks, ReturnJob(s, t)
      PROVE  UNCHANGED <<jobMsgs, reqMsgs, jobs, exec, nonces, expired, sub, call, starts>>
  BY Zenon, <1>14 DEF ReturnJob, netVars, durable, waiting, history
<1>15. ASSUME NEW s \in Sisters, NEW m \in resMsgs, HandleJobResponse(s, m)
      PROVE  UNCHANGED <<jobMsgs, reqMsgs, queue, jobs, task, exec, nonces, expired, sub, call,
                         starts>>
  BY Zenon, <1>15 DEF HandleJobResponse, netVars, durable, waiting, history
<1>16. ASSUME NEW s \in Sisters, ExecutorPop(s)
      PROVE  UNCHANGED <<jobMsgs, reqMsgs, jobs, task, nonces, expired, sub, call, starts>>
  BY Zenon, <1>16 DEF ExecutorPop, netVars, durable, waiting, history
<1>17. ASSUME NEW s \in Sisters, ExecutorStart(s)
      PROVE  UNCHANGED <<jobMsgs, reqMsgs, queue, task, nonces, expired, sub, call>>
  BY Zenon, <1>17 DEF ExecutorStart, netVars, durable, waiting, history
<1>18. ASSUME NEW s \in Sisters, ExecutorFinish(s)
      PROVE  UNCHANGED <<jobMsgs, reqMsgs, queue, task, nonces, expired, sub, call, starts>>
  BY Zenon, <1>18 DEF ExecutorFinish, netVars, durable, waiting, history
<1>19. ASSUME NEW s \in Sisters, ExecutorRespond(s)
      PROVE  UNCHANGED <<jobMsgs, reqMsgs, queue, jobs, task, nonces, expired, sub, call, starts>>
  BY Zenon, <1>19 DEF ExecutorRespond, netVars, durable, waiting, history
<1>20. ASSUME NEW s \in Sisters, Crash(s)
      PROVE  UNCHANGED <<jobMsgs, reqMsgs, nonces, expired, call, starts>>
  BY Zenon, <1>20 DEF Crash, netVars, durable, waiting, history
<1>21. ASSUME NEW s \in Sisters, NEW p \in Sisters, StealTick(s, p)
      PROVE  UNCHANGED <<jobMsgs, queue, jobs, task, exec, nonces, expired, sub, call, starts>>
  BY Zenon, <1>21 DEF StealTick, netVars, durable, waiting, history
<1>22. ASSUME NEW j \in JobIds, Expire(j)
      PROVE  UNCHANGED <<jobMsgs, reqMsgs, queue, jobs, task, exec, nonces, sub, call, starts>>
  BY Zenon, <1>22 DEF Expire, netVars, durable, waiting, history
<1>23. CASE UNCHANGED vars
  BY Zenon, <1>23 DEF vars, netVars, durable, waiting, history
<1> QED
  BY ZenonT(60), <1>1, <1>2, <1>3, <1>4, <1>5, <1>6, <1>7, <1>8, <1>9, <1>10, <1>11, <1>12,
     <1>13, <1>14, <1>15, <1>16, <1>17, <1>18, <1>19, <1>20, <1>21, <1>22, <1>23
     DEF Next, Submission, Handler, Executor

\* Only local submissions, handlers, the executor and a crash touch a queue.
LEMMA QueueFrame ==
  ASSUME [Next]_vars
  PROVE  \/ UNCHANGED queue
         \/ \E s \in Sisters, j \in JobIds : SubmitLocal(j, s)
         \/ \E s \in Sisters, t \in Tasks : HandlerEnqueue(s, t) \/ ReturnJob(s, t)
         \/ \E s, r \in Sisters, t \in Tasks, known \in BOOLEAN :
              HandleJobRequest(s, t, r, known)
         \/ \E s \in Sisters : ExecutorPop(s) \/ Crash(s)
BY Zenon, Footprints

\* Only the inbound handlers and a crash touch the handler table.
LEMMA TaskFrame ==
  ASSUME [Next]_vars
  PROVE  \/ UNCHANGED task
         \/ \E s \in Sisters, t \in Tasks, m \in jobMsgs, known \in BOOLEAN :
              HandleJob(s, t, m, known)
         \/ \E s, r \in Sisters, t \in Tasks, known \in BOOLEAN :
              HandleJobRequest(s, t, r, known)
         \/ \E s \in Sisters, t \in Tasks : Handler(s, t) \/ AbortHandler(s, t)
         \/ \E s \in Sisters : Crash(s)
BY Zenon, Footprints DEF Handler

\* Only the executor loop and a crash touch the executor.
LEMMA ExecFrame ==
  ASSUME [Next]_vars
  PROVE  UNCHANGED exec \/ \E s \in Sisters : Executor(s) \/ Crash(s)
BY Zenon, Footprints DEF Executor

\* Job envelopes are sent by submissions, by forwarding and by hand-over.
LEMMA MessageFrame ==
  ASSUME [Next]_vars
  PROVE  \/ UNCHANGED jobMsgs
         \/ \E j \in JobIds : SubmitTransmit(j)
         \/ \E s \in Sisters, t \in Tasks : Forward(s, t) \/ HandOver(s, t)
BY Zenon, Footprints

-----------------------------------------------------------------------------
(* Where jobs come from *)

\* The entries of a queue are jobs.
LEMMA QueueTyped ==
  ASSUME TypeOK, NEW s \in Sisters
  PROVE  /\ queue[s] \in Seq(LocalJob)
         /\ Len(queue[s]) \in Nat
         /\ \A i \in 1..Len(queue[s]) : queue[s][i] \in LocalJob
BY Zenon, SeqEntries DEF TypeOK

\* JobQueue::push adds one entry at the back of one queue.
LEMMA Appended ==
  ASSUME TypeOK, NEW s \in Sisters, NEW job \in LocalJob,
         queue' = [queue EXCEPT ![s] = Append(@, job)]
  PROVE  /\ \A p \in Sisters : p # s => queue'[p] = queue[p]
         /\ Len(queue'[s]) = Len(queue[s]) + 1
         /\ queue'[s][Len(queue[s]) + 1] = job
         /\ \A i \in 1..Len(queue[s]) : queue'[s][i] = queue[s][i]
<1>1. queue[s] \in Seq(LocalJob) /\ queue'[s] = Append(queue[s], job)
  BY Zenon DEF TypeOK
<1>2. \A p \in Sisters : p # s => queue'[p] = queue[p]
  BY Zenon DEF TypeOK
<1> QED
  BY <1>1, <1>2, PushEntries

\* A queue entry was queued before, comes from a handler, or is a new local job.
QueueSource(s, i) ==
  \/ \E k \in 1..Len(queue[s]) : queue'[s][i] = queue[s][k]
  \/ \E t \in Tasks : /\ task[s][t].pc \in {"enqueue", "return"}
                      /\ queue'[s][i] = task[s][t].job
  \/ \E j \in JobIds :
       /\ sub[j] = "idle" /\ sub'[j] = "enqueued" /\ UNCHANGED call
       /\ queue'[s][i] = [id |-> j, creator |-> s, auth |-> NoAuth]

\* QueueSource accounts for every entry of every queue after a step.
LEMMA QueueMoves ==
  ASSUME TypeOK, [Next]_vars, NEW s \in Sisters, NEW i \in 1..Len(queue'[s])
  PROVE  QueueSource(s, i)
<1>1. CASE UNCHANGED queue
  BY Zenon, <1>1 DEF QueueSource
<1>2. ASSUME NEW p \in Sisters, NEW j \in JobIds, SubmitLocal(j, p)
      PROVE  QueueSource(s, i)
  <2>1. [id |-> j, creator |-> p, auth |-> NoAuth] \in LocalJob
    BY Zenon DEF LocalJob
  <2>2. queue' = [queue EXCEPT ![p] =
                    Append(@, [id |-> j, creator |-> p, auth |-> NoAuth])]
    BY Zenon, <1>2 DEF SubmitLocal, Enqueue
  <2>3. sub[j] = "idle" /\ sub'[j] = "enqueued" /\ UNCHANGED call
    BY Zenon, <1>2 DEF SubmitLocal, TypeOK
  <2> QED
    BY <2>1, <2>2, <2>3, Appended, QueueTyped DEF QueueSource
<1>3. ASSUME NEW p \in Sisters, NEW t \in Tasks, HandlerEnqueue(p, t) \/ ReturnJob(p, t)
      PROVE  QueueSource(s, i)
  <2>1. /\ task[p][t].pc \in {"enqueue", "return"}
        /\ queue' = [queue EXCEPT ![p] = Append(@, task[p][t].job)]
    BY Zenon, <1>3 DEF HandlerEnqueue, ReturnJob, Enqueue, PushBack
  <2>2. task[p][t].job \in LocalJob
    BY Zenon, <2>1, TaskTyped
  <2> QED
    BY SMTT(30), <2>1, <2>2, Appended, QueueTyped DEF QueueSource
<1>4. ASSUME NEW p \in Sisters, NEW r \in Sisters, NEW t \in Tasks,
             NEW known \in BOOLEAN, HandleJobRequest(p, t, r, known)
      PROVE  QueueSource(s, i)
  <2>1. PICK k \in 1..Len(queue[p]) : queue' = [queue EXCEPT ![p] = Without(@, k)]
    BY ZenonT(60), <1>4 DEF HandleJobRequest
  <2>2. CASE s # p
    BY Zenon, <2>1, <2>2 DEF TypeOK, QueueSource
  <2>3. CASE s = p
    <3>1. queue'[s] = Without(queue[s], k)
      BY Zenon, <2>1, <2>3 DEF TypeOK
    <3>2. queue[s] \in Seq(LocalJob) /\ k \in 1..Len(queue[s])
      BY Zenon, <2>3, <2>1, QueueTyped
    <3>3. i \in 1..Len(Without(queue[s], k))
      BY Zenon, <3>1
    <3>4. \E m \in 1..Len(queue[s]) : Without(queue[s], k)[i] = queue[s][m]
      BY <3>1, <3>2, <3>3, WithoutKeeps
    <3>5. \E m \in 1..Len(queue[s]) : queue'[s][i] = queue[s][m]
      BY Zenon, <3>1, <3>4
    <3> QED
      BY Zenon, <3>5 DEF QueueSource
  <2> QED
    BY Zenon, <2>2, <2>3
<1>5. ASSUME NEW p \in Sisters, ExecutorPop(p)
      PROVE  QueueSource(s, i)
  <2>1. CASE s # p
    BY Zenon, <1>5, <2>1 DEF TypeOK, ExecutorPop, QueueSource
  <2>2. CASE s = p
    <3>1. queue'[s] = Tail(queue[s]) /\ queue[s] # <<>>
      BY Zenon, <1>5, <2>2 DEF TypeOK, ExecutorPop
    <3>2. queue[s] \in Seq(LocalJob)
      BY Zenon, <2>2, QueueTyped
    <3>3. i \in 1..Len(Tail(queue[s]))
      BY Zenon, <3>1
    <3>4. \E m \in 1..Len(queue[s]) : Tail(queue[s])[i] = queue[s][m]
      BY Zenon, <3>1, <3>2, <3>3, PopKeeps
    <3>5. \E m \in 1..Len(queue[s]) : queue'[s][i] = queue[s][m]
      BY Zenon, <3>1, <3>4
    <3> QED
      BY Zenon, <3>5 DEF QueueSource
  <2> QED
    BY Zenon, <2>1, <2>2
<1>6. ASSUME NEW p \in Sisters, Crash(p)
      PROVE  QueueSource(s, i)
  <2>1. s # p /\ queue'[s] = queue[s]
    BY <1>6 DEF TypeOK, Crash
  <2> QED
    BY Zenon, <2>1 DEF QueueSource
<1> QED
  BY Zenon, <1>1, <1>2, <1>3, <1>4, <1>5, <1>6, QueueFrame

\* A busy handler was busy before with the same job and has advanced, has taken
\* in an envelope, or has taken a job off the queue for a requester.
TaskSource(s, t) ==
  \/ /\ task[s][t].pc # "idle"
     /\ task'[s][t].job = task[s][t].job
     /\ \/ task'[s][t].pc = task[s][t].pc
        \/ /\ task[s][t].pc = "record" /\ task'[s][t].pc = "enqueue"
           /\ task[s][t].job.id \in nonces'[s]
        \/ task[s][t].pc = "handing" /\ task'[s][t].pc \in {"mark", "return"}
  \/ \E m \in jobMsgs :
       /\ task'[s][t].job = m.job
       /\ \/ task'[s][t].pc = "forward"
          \/ m.job.auth = NoAuth /\ s \in Insecure /\ task'[s][t].pc = "enqueue"
          \/ m.job.auth # NoAuth /\ m.job.auth = s /\ task'[s][t].pc = "record"
  \/ \E i \in 1..Len(queue[s]), r \in Sisters :
       /\ <<r, s>> \in reqMsgs
       /\ JobTransferable(s, queue[s][i], r)
       /\ task'[s][t].job = queue[s][i]
       /\ task'[s][t].pc \in {"handing", "return"}

\* A step of one handler leaves the others alone.
LEMMA OtherTasks ==
  ASSUME TypeOK, NEW p \in Sisters, NEW u \in Tasks, NEW rec,
         task' = [task EXCEPT ![p][u] = rec]
  PROVE  /\ task'[p][u] = rec
         /\ \A s \in Sisters, t \in Tasks : s # p \/ t # u => task'[s][t] = task[s][t]
BY Zenon DEF TypeOK

Advance(p, u, pc) ==
  task[p][u].pc # "idle" /\ task' = [task EXCEPT ![p][u].pc = pc]

\* A handler that advances keeps its job, and leaves the others alone.
LEMMA MovedTask ==
  ASSUME TypeOK, NEW p \in Sisters, NEW u \in Tasks, NEW pc, Advance(p, u, pc)
  PROVE  /\ task'[p][u].pc = pc
         /\ task'[p][u].job = task[p][u].job
         /\ \A s \in Sisters, t \in Tasks : s # p \/ t # u => task'[s][t] = task[s][t]
<1> DEFINE rec == [task[p][u] EXCEPT !.pc = pc]
<1>1. task' = [task EXCEPT ![p][u] = rec]
  BY Zenon DEF TypeOK, Advance
<1>2. task[p][u] \in TaskRecord
  BY Zenon, TaskTyped DEF Advance
<1>3. rec.pc = pc /\ rec.job = task[p][u].job
  BY Zenon, <1>2 DEF TaskRecord
<1> HIDE DEF rec
<1>4. /\ task'[p][u] = rec
      /\ \A s \in Sisters, t \in Tasks : s # p \/ t # u => task'[s][t] = task[s][t]
  BY Zenon, <1>1 DEF TypeOK
<1> QED
  BY Zenon, <1>3, <1>4

\* TaskSource accounts for every busy handler after a step.
LEMMA HandlerMoves ==
  ASSUME TypeOK, [Next]_vars, NEW s \in Sisters, NEW t \in Tasks, task'[s][t].pc # "idle"
  PROVE  TaskSource(s, t)
<1>0. task[s][t] = task'[s][t] => TaskSource(s, t)
  BY Zenon DEF TaskSource
<1>1. CASE UNCHANGED task
  BY Zenon, <1>0, <1>1
<1>2. ASSUME NEW p \in Sisters, NEW u \in Tasks, NEW m \in jobMsgs, NEW known \in BOOLEAN,
             HandleJob(p, u, m, known)
      PROVE  TaskSource(s, t)
  <2> DEFINE forward == m.executor # p /\ known
             rec == [pc   |-> IF forward THEN "forward"
                              ELSE IF m.job.auth = NoAuth THEN "enqueue" ELSE "record",
                     job  |-> m.job,
                     peer |-> m.executor]
  <2>1. task' = [task EXCEPT ![p][u] = rec]
    BY Zenon, <1>2 DEF HandleJob
  <2>2. CASE s = p /\ t = u
    <3>1. task'[s][t] = rec
      BY Zenon, <2>1, <2>2 DEF TypeOK
    <3>2. ~forward => IF m.job.auth = NoAuth THEN s \in Insecure ELSE m.job.auth = s
      BY Zenon, <1>2, <2>2 DEF HandleJob
    <3> QED
      BY <3>1, <3>2 DEF TaskSource
  <2> QED
    BY SMTT(30), <1>0, <2>1, <2>2, OtherTasks
<1>3. ASSUME NEW p \in Sisters, NEW r \in Sisters, NEW u \in Tasks, NEW known \in BOOLEAN,
             HandleJobRequest(p, u, r, known)
      PROVE  TaskSource(s, t)
  <2>1. PICK i \in 1..Len(queue[p]) :
          /\ JobTransferable(p, queue[p][i], r)
          /\ task' = [task EXCEPT ![p][u] = [pc   |-> IF known THEN "handing" ELSE "return",
                                             job  |-> queue[p][i],
                                             peer |-> r]]
    BY ZenonT(60), <1>3 DEF HandleJobRequest
  <2>2. CASE s = p /\ t = u
    <3>1. /\ task'[s][t].job = queue[s][i]
          /\ task'[s][t].pc \in {"handing", "return"}
      BY Zenon, <2>1, <2>2 DEF TypeOK
    <3>2. <<r, s>> \in reqMsgs
      BY Zenon, <1>3, <2>2 DEF HandleJobRequest
    <3> QED
      BY Zenon, <2>1, <2>2, <3>1, <3>2 DEF TaskSource
  <2> QED
    BY SMTT(30), <1>0, <2>1, <2>2, OtherTasks
<1>4. ASSUME NEW p \in Sisters, NEW u \in Tasks, Handler(p, u) \/ AbortHandler(p, u)
      PROVE  TaskSource(s, t)
  <2>1. CASE task' = [task EXCEPT ![p][u] = Idle]
    BY SMTT(30), <1>0, <2>1, OtherTasks DEF Idle
  <2>2. ASSUME NEW pc, Advance(p, u, pc),
               \/ /\ task[p][u].pc = "record" /\ pc = "enqueue"
                  /\ task[p][u].job.id \in nonces'[p]
               \/ task[p][u].pc = "handing" /\ pc \in {"mark", "return"}
        PROVE  TaskSource(s, t)
    <3>1. /\ task'[p][u].pc = pc
          /\ task'[p][u].job = task[p][u].job
          /\ \A q \in Sisters, v \in Tasks : q # p \/ v # u => task'[q][v] = task[q][v]
      BY Zenon, <2>2, MovedTask
    <3> QED
      BY Zenon, <1>0, <2>2, <3>1 DEF TaskSource
  <2>3. RecordNonce(p, u) => task[p][u].job.id \in nonces'[p]
    BY DEF TypeOK, RecordNonce
  <2> QED
    BY ZenonT(60), <1>4, <2>1, <2>2, <2>3 
       DEF Handler, RecordNonce, RecordFails, HandlerEnqueue, Forward, HandOver,
           MarkTransferred, ReturnJob, AbortHandler, Advance
<1>5. ASSUME NEW p \in Sisters, Crash(p)
      PROVE  TaskSource(s, t)
  BY Zenon, <1>0, <1>5 DEF TypeOK, Idle, Crash
<1> QED
  BY Zenon, <1>1, <1>2, <1>3, <1>4, <1>5, TaskFrame

\* The executor works on what it had, or on the head of the queue.
LEMMA ExecMoves ==
  ASSUME TypeOK, [Next]_vars, NEW s \in Sisters, exec'[s].pc # "idle"
  PROVE  \/ exec[s].pc # "idle" /\ exec'[s].job = exec[s].job
         \/ 1 \in 1..Len(queue[s]) /\ exec'[s].job = queue[s][1]
<1>1. CASE UNCHANGED exec
  BY Zenon, <1>1
<1>2. ASSUME NEW p \in Sisters, ExecutorPop(p)
      PROVE  \/ exec[s].pc # "idle" /\ exec'[s].job = exec[s].job
             \/ 1 \in 1..Len(queue[s]) /\ exec'[s].job = queue[s][1]
  <2>1. /\ exec' = [exec EXCEPT ![p] = [pc |-> "popped", job |-> Head(queue[p])]]
        /\ queue[p] # <<>>
    BY Zenon, <1>2 DEF ExecutorPop
  <2>2. Head(queue[p]) = queue[p][1] /\ 1 \in 1..Len(queue[p])
    BY SMTT(30), <2>1, QueueTyped, PopEntries
  <2> QED
    BY Zenon, <2>1, <2>2 DEF TypeOK
<1>3. ASSUME NEW p \in Sisters,
             ExecutorStart(p) \/ ExecutorFinish(p) \/ ExecutorRespond(p) \/ Crash(p)
      PROVE  exec[s].pc # "idle" /\ exec'[s].job = exec[s].job
  <2>1. CASE exec' = [exec EXCEPT ![p] = Idle]
    BY Zenon, <2>1 DEF TypeOK, Idle
  <2>2. ASSUME NEW pc, exec' = [exec EXCEPT ![p].pc = pc], exec[p].pc # "idle"
        PROVE  exec[s].pc # "idle" /\ exec'[s].job = exec[s].job
    <3>1. exec[p] \in ExecRecord
      BY Zenon, <2>2, ExecTyped
    <3> QED
      BY Zenon, <2>2, <3>1 DEF TypeOK, ExecRecord
  <2> QED
    BY Zenon, <1>3, <2>1, <2>2 DEF ExecutorStart, ExecutorFinish, ExecutorRespond, Crash
<1> QED
  BY Zenon, <1>1, <1>2, <1>3, ExecFrame DEF Executor

\* An envelope on the wire was sent by a submission or carries a handler's job.
LEMMA MessageMoves ==
  ASSUME TypeOK, [Next]_vars, NEW m \in jobMsgs'
  PROVE  \/ m \in jobMsgs
         \/ \E j \in JobIds : sub[j] = "sending" /\ m = call[j]
         \/ \E s \in Sisters, t \in Tasks :
              task[s][t].pc # "idle" /\ m.job = task[s][t].job
<1>1. CASE UNCHANGED jobMsgs
  BY Zenon, <1>1
<1>2. CASE \E j \in JobIds : SubmitTransmit(j)
  BY Zenon, <1>2 DEF SubmitTransmit
<1>3. CASE \E s \in Sisters, t \in Tasks : Forward(s, t) \/ HandOver(s, t)
  BY SMTT(30), <1>3 DEF Forward, HandOver
<1> QED
  BY Zenon, <1>1, <1>2, <1>3, MessageFrame

-----------------------------------------------------------------------------
(* Jobs in circulation are genuine *)

\* Only submission steps and a crash change the submission futures.
LEMMA SubFrame ==
  ASSUME [Next]_vars
  PROVE  \/ UNCHANGED <<sub, call>>
         \/ \E j \in JobIds, c, e, via \in Sisters, auth \in Sisters \cup {NoAuth} :
              SubmitReserve(j, c, e, via, auth)
         \/ \E j \in JobIds, c \in Sisters : SubmitInline(j, c) \/ SubmitLocal(j, c)
         \/ \E j \in JobIds :
              Submission(j) \/ SubmitDropped(j) \/ InlineFinished(j)
         \/ \E s \in Sisters : Crash(s)
BY Zenon, Footprints DEF Submission

\* Commands are started by the executor and by inline submissions only.
LEMMA StartsFrame ==
  ASSUME [Next]_vars
  PROVE  \/ UNCHANGED starts
         \/ \E j \in JobIds, c \in Sisters : SubmitInline(j, c)
         \/ \E s \in Sisters : ExecutorStart(s)
BY Zenon, Footprints

\* A job id is drawn once: its envelope is then fixed.
Settled(j) ==
  /\ sub[j] # "idle" => call'[j] = call[j] /\ sub'[j] # "idle"
  /\ sub[j] = "enqueued" => sub'[j] = "enqueued"
  /\ sub'[j] = "idle" => call'[j] = call[j]

\* Every step leaves drawn job ids settled.
LEMMA CallMoves ==
  ASSUME TypeOK, [Next]_vars, NEW j \in JobIds
  PROVE  Settled(j)
<1>1. CASE UNCHANGED <<sub, call>>
  BY Zenon, <1>1 DEF Settled
<1>2. ASSUME NEW k \in JobIds, NEW c \in Sisters, NEW e \in Sisters, NEW via \in Sisters,
             NEW auth \in Sisters \cup {NoAuth}, SubmitReserve(k, c, e, via, auth)
      PROVE  Settled(j)
  BY Zenon, <1>2 DEF Settled, TypeOK, SubmitReserve
<1>3. ASSUME NEW k \in JobIds, NEW c \in Sisters, SubmitInline(k, c) \/ SubmitLocal(k, c)
      PROVE  Settled(j)
  BY SMTT(30), <1>3 DEF Settled, TypeOK, SubmitInline, SubmitLocal
<1>4. ASSUME NEW k \in JobIds, Submission(k) \/ SubmitDropped(k) \/ InlineFinished(k)
      PROVE  Settled(j)
  BY ZenonT(60), <1>4 DEF Settled, TypeOK, waiting, Submission, SubmitTransmit, SubmitSent, SubmitSendFails,
              SubmitResult, SubmitTimeout, SubmitDropped, InlineFinished
<1>5. ASSUME NEW s \in Sisters, Crash(s)
      PROVE  Settled(j)
  BY Zenon, <1>5 DEF Settled, TypeOK, Crash
<1> QED
  BY Zenon, <1>1, <1>2, <1>3, <1>4, <1>5, SubFrame

\* A genuine job stays genuine.
LEMMA GenuineStays ==
  ASSUME TypeOK, Drawn, [Next]_vars, NEW job \in LocalJob, Genuine(job)
  PROVE  Genuine(job)'
<1>1. job.id \in JobIds
  BY Zenon DEF LocalJob
<1>2. sub[job.id] # "idle"
  BY Zenon, <1>1 DEF Drawn, Genuine
<1> QED
  BY Zenon, <1>1, <1>2, CallMoves DEF Settled, Genuine

\* Every step keeps the jobs in circulation genuine.
LEMMA DrawnStep == TypeInv /\ Drawn /\ [Next]_vars => Drawn'
<1> SUFFICES ASSUME TypeOK, CallMade, Drawn, [Next]_vars PROVE Drawn'
  BY Zenon DEF TypeInv
<1>0. TypeOK'
  BY Zenon, TypeStep DEF TypeInv
<1>1. \A j \in JobIds : sub'[j] = "idle" => call'[j] = NoCall
  BY Zenon, CallMoves DEF Settled, Drawn
<1>2. ASSUME NEW s \in Sisters, NEW j \in JobIds, starts'[s][j] > 0
      PROVE  sub'[j] # "idle"
  <2>1. CASE starts'[s][j] = starts[s][j]
    BY Zenon, <1>2, <2>1, CallMoves DEF Settled, Drawn
  <2>2. ASSUME NEW k \in JobIds, NEW c \in Sisters, SubmitInline(k, c)
        PROVE  sub'[j] # "idle"
    BY Zenon, <2>1, <2>2 DEF TypeOK, SubmitInline
  <2>3. ASSUME NEW p \in Sisters, ExecutorStart(p)
        PROVE  sub'[j] # "idle"
    <3>1. CASE p = s /\ exec[s].job.id = j
      <4>1. Genuine(exec[s].job) /\ exec[s].job \in LocalJob
        BY Zenon, <2>3, <3>1, ExecTyped DEF Drawn, ExecutorStart
      <4> QED
        BY Zenon, <3>1, <4>1, CallMoves DEF Settled, Drawn, Genuine
    <3>2. CASE ~(p = s /\ exec[s].job.id = j)
      BY Zenon, <2>1, <2>3, <3>2 DEF TypeOK, ExecutorStart
    <3> QED
      BY Zenon, <3>1, <3>2
  <2> QED
    BY Zenon, <2>1, <2>2, <2>3, StartsFrame
<1>3. ASSUME NEW m \in jobMsgs'
      PROVE  Genuine(m.job)'
  <2>1. CASE m \in jobMsgs
    <3>1. m.job \in LocalJob
      BY Zenon, <2>1 DEF TypeOK, JobData
    <3> QED
      BY Zenon, <2>1, <3>1, GenuineStays DEF Drawn
  <2>2. ASSUME NEW j \in JobIds, sub[j] = "sending", m = call[j]
        PROVE  Genuine(m.job)'
    <3>1. call[j] # NoCall /\ call[j].job.id = j /\ call[j].job \in LocalJob
      BY Zenon, <2>2 DEF TypeOK, CallMade, JobData
    <3> QED
      BY Zenon, <2>2, <3>1, CallMoves DEF Settled, Genuine
  <2>3. ASSUME NEW s \in Sisters, NEW t \in Tasks, task[s][t].pc # "idle",
               m.job = task[s][t].job
        PROVE  Genuine(m.job)'
    <3>1. m.job \in LocalJob
      BY Zenon, <2>3, TaskTyped
    <3>2. Genuine(m.job)
      BY Zenon, <2>3 DEF Drawn
    <3> QED
      BY ZenonT(60), <3>1, <3>2, GenuineStays
  <2> QED
    BY Zenon, <2>1, <2>2, <2>3, MessageMoves
<1>4. ASSUME NEW s \in Sisters, NEW i \in 1..Len(queue'[s])
      PROVE  Genuine(queue[s][i])'
  <2> SUFFICES ASSUME NEW job, job = queue'[s][i] PROVE Genuine(job)'
    BY Zenon DEF Genuine
  <2>1. ASSUME NEW k \in 1..Len(queue[s]), job = queue[s][k]
        PROVE  Genuine(job)'
    <3>1. job \in LocalJob
      BY Zenon, <2>1, QueueTyped
    <3>2. Genuine(job)
      BY Zenon, <2>1 DEF Drawn
    <3> QED
      BY ZenonT(60), <3>1, <3>2, GenuineStays
  <2>2. ASSUME NEW t \in Tasks, task[s][t].pc # "idle", job = task[s][t].job
        PROVE  Genuine(job)'
    <3>1. job \in LocalJob
      BY Zenon, <2>2, TaskTyped
    <3>2. Genuine(job)
      BY Zenon, <2>2 DEF Drawn
    <3> QED
      BY ZenonT(60), <3>1, <3>2, GenuineStays
  <2>3. ASSUME NEW j \in JobIds, sub[j] = "idle", sub'[j] = "enqueued", UNCHANGED call,
               job = [id |-> j, creator |-> s, auth |-> NoAuth]
        PROVE  Genuine(job)'
    BY SMTT(30), <2>3 DEF Drawn, Genuine
  <2> QED
    BY ZenonT(60), <2>1, <2>2, <2>3, QueueMoves DEF QueueSource
<1>5. ASSUME NEW s \in Sisters, NEW t \in Tasks, task'[s][t].pc # "idle"
      PROVE  Genuine(task[s][t].job)'
  <2> SUFFICES ASSUME NEW job, job = task'[s][t].job PROVE Genuine(job)'
    BY Zenon DEF Genuine
  <2>1. CASE task[s][t].pc # "idle" /\ job = task[s][t].job
    <3>1. job \in LocalJob
      BY Zenon, <2>1, TaskTyped
    <3>2. Genuine(job)
      BY Zenon, <2>1 DEF Drawn
    <3> QED
      BY ZenonT(60), <3>1, <3>2, GenuineStays
  <2>2. ASSUME NEW m \in jobMsgs, job = m.job
        PROVE  Genuine(job)'
    <3>1. m.job \in LocalJob
      BY Zenon DEF TypeOK, JobData
    <3> QED
      BY Zenon, <2>2, <3>1, GenuineStays DEF Drawn
  <2>3. ASSUME NEW k \in 1..Len(queue[s]), job = queue[s][k]
        PROVE  Genuine(job)'
    <3>1. job \in LocalJob
      BY Zenon, <2>3, QueueTyped
    <3>2. Genuine(job)
      BY Zenon, <2>3 DEF Drawn
    <3> QED
      BY ZenonT(60), <3>1, <3>2, GenuineStays
  <2> QED
    BY ZenonT(60), <1>5, <2>1, <2>2, <2>3, HandlerMoves DEF TaskSource
<1>6. ASSUME NEW s \in Sisters, exec'[s].pc # "idle"
      PROVE  Genuine(exec[s].job)'
  <2> SUFFICES ASSUME NEW job, job = exec'[s].job PROVE Genuine(job)'
    BY Zenon DEF Genuine
  <2>1. CASE exec[s].pc # "idle" /\ job = exec[s].job
    <3>1. job \in LocalJob
      BY Zenon, <2>1, ExecTyped
    <3>2. Genuine(job)
      BY Zenon, <2>1 DEF Drawn
    <3> QED
      BY ZenonT(60), <3>1, <3>2, GenuineStays
  <2>2. CASE 1 \in 1..Len(queue[s]) /\ job = queue[s][1]
    <3>1. job \in LocalJob
      BY Zenon, <2>2, QueueTyped
    <3>2. Genuine(job)
      BY Zenon, <2>2 DEF Drawn
    <3> QED
      BY ZenonT(60), <3>1, <3>2, GenuineStays
  <2> QED
    BY Zenon, <1>6, <2>1, <2>2, ExecMoves
<1> QED
  BY Zenon, <1>1, <1>2, <1>3, <1>4, <1>5, <1>6 DEF Drawn

-----------------------------------------------------------------------------
(* Custody *)

\* Only the stealing loop sends JobRequests.
LEMMA RequestFrame ==
  ASSUME [Next]_vars
  PROVE  UNCHANGED reqMsgs \/ \E s, p \in Sisters : StealTick(s, p)
BY Zenon, Footprints

\* Every step keeps each Sister within what its handler admitted.
LEMMA CustodyStep == TypeInv /\ Custody /\ [Next]_vars => Custody'
<1> SUFFICES ASSUME TypeOK, Custody, [Next]_vars PROVE Custody'
  BY Zenon DEF TypeInv
<1>1. ASSUME NEW r \in reqMsgs' PROVE r[1] # r[2]
  <2>1. ASSUME NEW s \in Sisters, NEW p \in Sisters, StealTick(s, p)
        PROVE  r \in reqMsgs \/ (r = <<s, p>> /\ p # s)
    BY Zenon, <1>1, <2>1 DEF StealTick
  <2>2. r \in reqMsgs \/ \E s, p \in Sisters : r = <<s, p>> /\ p # s
    BY Zenon, <1>1, <2>1, RequestFrame
  <2> QED
    BY <2>2 DEF Custody
<1>2. ASSUME NEW s \in Sisters, NEW i \in 1..Len(queue'[s])
      PROVE  Entitled(s, queue'[s][i])
  <2>1. ASSUME NEW k \in 1..Len(queue[s]), queue'[s][i] = queue[s][k]
        PROVE  Entitled(s, queue'[s][i])
    BY Zenon, <2>1 DEF Custody
  <2>2. ASSUME NEW t \in Tasks, task[s][t].pc \in {"enqueue", "return"},
               queue'[s][i] = task[s][t].job
        PROVE  Entitled(s, queue'[s][i])
    BY Zenon, <2>2 DEF Custody
  <2>3. ASSUME NEW j \in JobIds,
               queue'[s][i] = [id |-> j, creator |-> s, auth |-> NoAuth]
        PROVE  Entitled(s, queue'[s][i])
    BY SMTT(30), <2>3 DEF Entitled
  <2> QED
    BY ZenonT(60), <2>1, <2>2, <2>3, QueueMoves DEF QueueSource
<1>3. ASSUME NEW s \in Sisters, NEW t \in Tasks, task'[s][t].pc # "idle"
      PROVE  /\ task'[s][t].pc # "forward" => Entitled(s, task'[s][t].job)
             /\ task'[s][t].pc = "record" => task'[s][t].job.auth # NoAuth
             /\ task'[s][t].pc \in {"handing", "mark", "return"}
                  => task'[s][t].job.auth = NoAuth
  <2> DEFINE Good ==
        /\ task'[s][t].pc # "forward" => Entitled(s, task'[s][t].job)
        /\ task'[s][t].pc = "record" => task'[s][t].job.auth # NoAuth
        /\ task'[s][t].pc \in {"handing", "mark", "return"}
             => task'[s][t].job.auth = NoAuth
  <2>1. ASSUME task[s][t].pc # "idle", task'[s][t].job = task[s][t].job,
               \/ task'[s][t].pc = task[s][t].pc
               \/ task[s][t].pc = "record" /\ task'[s][t].pc = "enqueue"
               \/ task[s][t].pc = "handing" /\ task'[s][t].pc \in {"mark", "return"}
        PROVE  Good
    <3>1. task[s][t].pc \in {"forward", "record", "enqueue", "handing", "mark", "return"}
      BY Zenon, <2>1, TaskTyped DEF TaskRecord
    <3> QED
      BY ZenonT(60), <2>1, <3>1 DEF Custody
  <2>2. ASSUME NEW m \in jobMsgs, task'[s][t].job = m.job,
               \/ task'[s][t].pc = "forward"
               \/ m.job.auth = NoAuth /\ s \in Insecure /\ task'[s][t].pc = "enqueue"
               \/ m.job.auth # NoAuth /\ m.job.auth = s /\ task'[s][t].pc = "record"
        PROVE  Good
    BY Zenon, <2>2 DEF Entitled
  <2>3. ASSUME NEW i \in 1..Len(queue[s]), NEW r \in Sisters, <<r, s>> \in reqMsgs,
               JobTransferable(s, queue[s][i], r), task'[s][t].job = queue[s][i],
               task'[s][t].pc \in {"handing", "return"}
        PROVE  Good
    <3>1. r # s
      BY Zenon, <2>3 DEF Custody
    <3>2. Entitled(s, queue[s][i])
      BY Zenon DEF Custody
    <3>3. queue[s][i].auth = NoAuth
      BY Zenon, <2>3, <3>1, <3>2 DEF Entitled, JobTransferable
    <3> QED
      BY Zenon, <2>3, <3>2, <3>3
  <2> QED
    BY ZenonT(60), <1>3, <2>1, <2>2, <2>3, HandlerMoves DEF TaskSource
<1>4. ASSUME NEW s \in Sisters, exec'[s].pc # "idle"
      PROVE  Entitled(s, exec'[s].job)
  BY Zenon, <1>4, ExecMoves DEF Custody
<1>5. \A s \in Sisters, t \in Tasks :
        /\ task'[s][t].pc \in {"record", "enqueue", "handing", "mark", "return"}
             => Entitled(s, task'[s][t].job)
        /\ task'[s][t].pc = "record" => task'[s][t].job.auth # NoAuth
        /\ task'[s][t].pc \in {"handing", "mark", "return"}
             => task'[s][t].job.auth = NoAuth
  BY Zenon, <1>3
<1> QED
  BY Zenon, <1>1, <1>2, <1>4, <1>5 DEF Custody, Entitled

\* The places Held collects.
LEMMA HeldWhere ==
  ASSUME TypeOK, NEW s \in Sisters, NEW job \in Held(s)
  PROVE  \/ \E i \in 1..Len(queue[s]) : job = queue[s][i]
         \/ \E t \in Tasks : /\ task[s][t].pc \in {"enqueue", "handing", "mark", "return"}
                             /\ job = task[s][t].job
         \/ exec[s].pc # "idle" /\ job = exec[s].job
<1>1. exec[s] # Idle => exec[s].pc # "idle"
  BY ZenonT(60) DEF TypeOK, ExecRecord
<1> QED
  BY Zenon, <1>1 DEF Held

\* Custody is stronger than OnlyTargetRuns.
LEMMA CustodyHeld == TypeOK /\ Custody => OnlyTargetRuns
<1> SUFFICES ASSUME TypeOK, Custody, NEW s \in Sisters, NEW job \in Held(s)
             PROVE  Entitled(s, job)
  BY Zenon DEF OnlyTargetRuns, Entitled
<1> QED
  BY SMTT(30), HeldWhere DEF Custody

\* Nobody holds anything when the Sisters start.
LEMMA CustodyInit == Init => Custody /\ Drawn
BY SMTT(30) DEF Init, Custody, Drawn, Idle

\* Whatever is sent, repeated, forwarded, stolen or lost, a Sister only ever
\* holds jobs its handler was entitled to take.
THEOREM OnlyTheTargetRuns == Spec => []OnlyTargetRuns
<1>1. Init => Custody
  BY Zenon, CustodyInit
<1>2. TypeInv /\ Custody /\ [Next]_vars => Custody'
  BY Zenon, CustodyStep
<1>3. TypeInv /\ Custody => OnlyTargetRuns
  BY Zenon, CustodyHeld DEF TypeInv
<1> QED
  BY <1>1, <1>2, <1>3, TypeAlways, PTL DEF Spec

\* Work stealing never takes an authorized job, because the handler only admits
\* jobs that name its own Sister and no Sister asks itself for work.
THEOREM AuthorizedStaysPut == Spec => []AuthorizedNotStolen
<1>1. Init => Custody
  BY Zenon, CustodyInit
<1>2. TypeInv /\ Custody /\ [Next]_vars => Custody'
  BY Zenon, CustodyStep
<1>3. Custody => AuthorizedNotStolen
  BY Zenon DEF Custody, AuthorizedNotStolen
<1> QED
  BY <1>1, <1>2, <1>3, TypeAlways, PTL DEF Spec

-----------------------------------------------------------------------------
(* The nonce is durable before the job is admitted *)

NonceHeld ==
  /\ \A s \in Sisters : \A i \in 1..Len(queue[s]) :
       queue[s][i].auth # NoAuth => queue[s][i].id \in nonces[s] \cup expired
  /\ \A s \in Sisters, t \in Tasks :
       task[s][t].pc = "enqueue" /\ task[s][t].job.auth # NoAuth
         => task[s][t].job.id \in nonces[s] \cup expired
  /\ \A s \in Sisters :
       exec[s].pc # "idle" /\ exec[s].job.auth # NoAuth
         => exec[s].job.id \in nonces[s] \cup expired

\* Only AuthorizationNonceStore::record and time change what is consumed.
LEMMA NonceFrame ==
  ASSUME [Next]_vars
  PROVE  \/ UNCHANGED <<nonces, expired>>
         \/ \E s \in Sisters, t \in Tasks : RecordNonce(s, t)
         \/ \E j \in JobIds : Expire(j)
BY Zenon, Footprints

\* A recorded nonce is forgotten only after the authorization has expired.
LEMMA NoncesGrow ==
  ASSUME TypeOK, [Next]_vars, NEW s \in Sisters
  PROVE  /\ nonces[s] \cup expired \subseteq nonces'[s] \cup expired'
         /\ expired \subseteq expired'
<1>1. ASSUME NEW p \in Sisters, NEW t \in Tasks, RecordNonce(p, t)
      PROVE  nonces[s] \ expired \subseteq nonces'[s] /\ expired' = expired
  BY Zenon, <1>1 DEF TypeOK, RecordNonce
<1>2. ASSUME NEW j \in JobIds, Expire(j)
      PROVE  nonces' = nonces /\ expired \subseteq expired'
  BY Zenon, <1>2 DEF Expire, durable
<1> QED
  BY Zenon, <1>1, <1>2, NonceFrame

\* Every step keeps the nonces of admitted jobs on disk until expiry.
LEMMA NonceStep == TypeInv /\ Custody /\ NonceHeld /\ [Next]_vars => NonceHeld'
<1> SUFFICES ASSUME TypeOK, Custody, NonceHeld, [Next]_vars PROVE NonceHeld'
  BY Zenon DEF TypeInv
<1> DEFINE Recorded(s, job) == job.auth # NoAuth => job.id \in nonces[s] \cup expired
           Kept(s, job) == job.auth # NoAuth => job.id \in nonces'[s] \cup expired'
<1>1. \A s \in Sisters, job \in LocalJob : Recorded(s, job) => Kept(s, job)
  BY Zenon, NoncesGrow
<1>2. ASSUME NEW s \in Sisters, NEW i \in 1..Len(queue[s])
      PROVE  Kept(s, queue[s][i])
  BY Zenon, <1>1, QueueTyped DEF NonceHeld
<1>3. ASSUME NEW s \in Sisters, NEW i \in 1..Len(queue'[s])
      PROVE  Kept(s, queue'[s][i])
  <2>1. ASSUME NEW t \in Tasks, task[s][t].pc \in {"enqueue", "return"}
        PROVE  Kept(s, task[s][t].job)
    BY Zenon, <1>1, <2>1, TaskTyped DEF NonceHeld, Custody
  <2>2. ASSUME NEW j \in JobIds PROVE Kept(s, [id |-> j, creator |-> s, auth |-> NoAuth])
    BY Zenon
  <2> HIDE DEF Kept
  <2> QED
    BY ZenonT(60), <1>2, <2>1, <2>2, QueueMoves DEF QueueSource
<1>4. ASSUME NEW s \in Sisters, NEW t \in Tasks, task'[s][t].pc = "enqueue"
      PROVE  Kept(s, task'[s][t].job)
  <2>1. CASE task[s][t].pc = "enqueue" /\ task'[s][t].job = task[s][t].job
    BY Zenon, <1>1, <2>1, TaskTyped DEF NonceHeld
  <2>2. CASE task[s][t].job.id \in nonces'[s] /\ task'[s][t].job = task[s][t].job
    BY Zenon, <2>2
  <2>3. CASE task'[s][t].job.auth = NoAuth
    BY Zenon, <2>3
  <2> QED
    BY ZenonT(60), <1>4, <2>1, <2>2, <2>3, HandlerMoves DEF TaskSource
<1>5. ASSUME NEW s \in Sisters, exec'[s].pc # "idle"
      PROVE  Kept(s, exec'[s].job)
  <2>1. CASE exec[s].pc # "idle" /\ exec'[s].job = exec[s].job
    BY Zenon, <1>1, <2>1, ExecTyped DEF NonceHeld
  <2> HIDE DEF Kept
  <2> QED
    BY Zenon, <1>2, <1>5, <2>1, ExecMoves
<1> QED
  BY Zenon, <1>3, <1>4, <1>5 DEF NonceHeld

\* The handler "persists the nonce before queueing the job": an admitted
\* authorized job has its nonce on disk until the authorization expires.
THEOREM NonceIsDurable == Spec => []NonceBeforeQueue
<1>1. Init => Custody /\ NonceHeld
  BY CustodyInit DEF Init, NonceHeld, Idle
<1>2. TypeInv /\ Custody /\ NonceHeld /\ [Next]_vars => Custody' /\ NonceHeld'
  BY Zenon, CustodyStep, NonceStep
<1>3. TypeInv /\ Custody /\ NonceHeld => NonceBeforeQueue
  <2> SUFFICES ASSUME TypeOK, Custody, NonceHeld, NEW s \in Sisters, NEW job \in Held(s),
                      job.auth # NoAuth
               PROVE  job.id \in nonces[s] \cup expired
    BY Zenon DEF NonceBeforeQueue, TypeInv
  <2> QED
    BY SMTT(30), HeldWhere DEF Custody, NonceHeld
<1> QED
  BY <1>1, <1>2, <1>3, TypeAlways, PTL DEF Spec
=============================================================================
