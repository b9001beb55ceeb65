-------------------------- MODULE JobsAtMostOnce ----------------------------
(***************************************************************************)
(* While an authorization is valid, its job starts at most once in the     *)
(* whole Network: the proof that Once is inductive.                        *)
(***************************************************************************)
EXTENDS JobsProofs

\* The steps that touch queues, handlers, executors, starts or nonces.
LEMMA TokenFrame ==
  ASSUME [Next]_vars
  PROVE  \/ UNCHANGED <<queue, task, exec, starts, nonces>>
         \/ \E j \in JobIds, c \in Sisters : SubmitInline(j, c) \/ SubmitLocal(j, c)
         \/ \E s \in Sisters, t \in Tasks, m \in jobMsgs, known \in BOOLEAN :
              HandleJob(s, t, m, known)
         \/ \E s, r \in Sisters, t \in Tasks, known \in BOOLEAN :
              HandleJobRequest(s, t, r, known)
         \/ \E s \in Sisters, t \in Tasks : Handler(s, t) \/ AbortHandler(s, t)
         \/ \E s \in Sisters : Executor(s) \/ Crash(s)
BY Zenon, Footprints DEF Handler, Executor

\* The step gives j no new token at s and forgets nothing about it.
NoNewToken(s, j) ==
  /\ \A i, k \in InQueue(s, j)' :
       \E a, b \in InQueue(s, j) : i # k => a # b
  /\ InTask(s, j)' \subseteq InTask(s, j)
  /\ InExec(s, j)' => InExec(s, j)
  /\ starts'[s][j] = starts[s][j]
  /\ j \in nonces[s] => j \in nonces'[s]
  /\ call'[j] = call[j]

\* A step that adds no token keeps OneToken.
LEMMA TokenKept ==
  ASSUME NEW s \in Sisters, NEW j \in JobIds, OneToken(s, j), NoNewToken(s, j)
  PROVE  OneToken(s, j)'
<1>1. InQueue(s, j)' # {} => InQueue(s, j) # {}
  BY Zenon DEF NoNewToken
<1>2. \A i, k \in InQueue(s, j)' : i = k
  BY Zenon DEF NoNewToken, OneToken
<1>3. \A t, u \in InTask(s, j)' : t = u
  BY Zenon DEF NoNewToken, OneToken
<1>4. /\ InQueue(s, j)' = {} \/ InTask(s, j)' = {}
      /\ InExec(s, j)' => InQueue(s, j)' = {} /\ InTask(s, j)' = {}
  BY Zenon, <1>1 DEF NoNewToken, OneToken
<1>5. InQueue(s, j)' # {} \/ InTask(s, j)' # {} \/ InExec(s, j)'
        => starts'[s][j] = 0 /\ j \in nonces'[s]
  BY Zenon, <1>1 DEF NoNewToken, OneToken
<1>6. starts'[s][j] > 0 => starts'[s][j] = 1 /\ j \in nonces'[s] /\ call'[j].job.auth = s
  BY Zenon DEF NoNewToken, OneToken
<1> QED
  BY Zenon, <1>2, <1>3, <1>4, <1>5, <1>6 DEF OneToken

\* A job id that was drawn in this very step is nowhere yet.
LEMMA FreshOnce ==
  ASSUME TypeOK, Drawn, [Next]_vars, NEW s \in Sisters, NEW j \in JobIds,
         Authorized(j)', ~Authorized(j)
  PROVE  OneToken(s, j)'
<1>1. sub[j] = "idle" /\ call[j] = NoCall /\ call'[j] # call[j]
  BY Zenon, CallMoves DEF Authorized, Drawn, Settled
<1>2. \A job \in LocalJob : Genuine(job) => job.id # j
  BY Zenon, <1>1 DEF Genuine
<1>3. \A k \in 1..Len(queue[s]) : queue[s][k].id # j
  BY Zenon, <1>2, QueueTyped DEF Drawn
<1>4. \A t \in Tasks : task[s][t].pc # "idle" => task[s][t].job.id # j
  BY Zenon, <1>2, TaskTyped DEF Drawn
<1>5. \A m \in jobMsgs : m.job.id # j
  BY Zenon, <1>2 DEF Drawn, TypeOK, JobData
<1>6. exec[s].pc # "idle" => exec[s].job.id # j
  BY Zenon, <1>2, ExecTyped DEF Drawn
<1>7. InQueue(s, j)' = {}
  <2> SUFFICES ASSUME NEW i \in 1..Len(queue'[s]), queue'[s][i].id = j PROVE FALSE
    BY Zenon DEF InQueue
  <2> QED
    BY ZenonT(60), <1>1, <1>3, <1>4, QueueMoves DEF QueueSource
<1>8. InTask(s, j)' = {}
  <2> SUFFICES ASSUME NEW t \in Tasks, task'[s][t].pc = "enqueue", task'[s][t].job.id = j
               PROVE  FALSE
    BY Zenon DEF InTask
  <2> QED
    BY ZenonT(60), <1>3, <1>4, <1>5, HandlerMoves DEF TaskSource
<1>9. ~InExec(s, j)'
  BY Zenon, <1>3, <1>6, ExecMoves DEF InExec
<1>10. starts'[s][j] = 0
  <2>1. starts[s][j] = 0
    <3>1. starts[s][j] \in 0..2
      BY DEF TypeOK
    <3>2. ~(starts[s][j] > 0)
      BY Zenon, <1>1 DEF Drawn
    <3> QED
      BY <3>1, <3>2
  <2>2. ASSUME NEW k \in JobIds, NEW c \in Sisters, SubmitInline(k, c)
        PROVE  starts'[s][j] = starts[s][j]
    <3>1. k # j
      BY Zenon, <2>2 DEF Authorized, TypeOK, SubmitInline
    <3> QED
      BY Zenon, <2>2, <3>1 DEF TypeOK, SubmitInline
  <2>3. ASSUME NEW p \in Sisters, ExecutorStart(p)
        PROVE  starts'[s][j] = starts[s][j]
    <3>1. p = s => exec[p].job.id # j
      BY Zenon, <1>6, <2>3 DEF ExecutorStart
    <3> QED
      BY Zenon, <2>3, <3>1 DEF TypeOK, ExecutorStart
  <2> QED
    BY Zenon, <2>1, <2>2, <2>3, StartsFrame
<1> QED
  BY <1>7, <1>8, <1>9, <1>10 DEF OneToken

\* Every step keeps Once: only RecordNonce makes a token, only a start uses it.
LEMMA OnceStep ==
  TypeInv /\ Drawn /\ Custody /\ Once /\ [Next]_vars => Once'
<1> SUFFICES ASSUME TypeOK, CallMade, Drawn, Custody, Once, [Next]_vars,
                    NEW s \in Sisters, NEW j \in JobIds,
                    Authorized(j)', j \notin expired'
             PROVE  OneToken(s, j)'
  BY Zenon DEF TypeInv, Once
<1>1. CASE ~Authorized(j)
  BY Zenon, <1>1, FreshOnce
<1> SUFFICES ASSUME Authorized(j) PROVE OneToken(s, j)'
  BY Zenon, <1>1
<1>2. j \notin expired /\ OneToken(s, j)
  BY Zenon, NoncesGrow DEF Once
<1>3. sub[j] # "idle" /\ call'[j] = call[j]
  BY Zenon, CallMoves DEF Drawn, Authorized, Settled
<1>4. \A job \in LocalJob : Genuine(job) /\ job.id = j => job.auth # NoAuth
  BY Zenon DEF Genuine, Authorized
<1>5. j \in nonces[s] => j \in nonces'[s]
  BY Zenon, <1>2, NoncesGrow
<1>6. \A k \in 1..Len(queue[s]) : queue[s][k].id = j => queue[s][k].auth # NoAuth
  BY Zenon, <1>4, QueueTyped DEF Drawn
<1>7. \A t \in Tasks : task[s][t].pc # "idle" /\ task[s][t].job.id = j
                         => task[s][t].job.auth # NoAuth
  BY Zenon, <1>4, TaskTyped DEF Drawn
<1>8. \A t \in Tasks : task[s][t].pc \in {"handing", "mark", "return"}
                         => task[s][t].job.id # j
  BY Zenon, <1>7 DEF Custody
<1>10. ASSUME UNCHANGED queue PROVE InQueue(s, j)' = InQueue(s, j)
  BY Zenon, <1>10 DEF InQueue
<1>11. ASSUME UNCHANGED task PROVE InTask(s, j)' = InTask(s, j)
  BY Zenon, <1>11 DEF InTask
<1>12. ASSUME UNCHANGED exec PROVE InExec(s, j)' = InExec(s, j)
  BY Zenon, <1>12 DEF InExec
<1>20. CASE UNCHANGED <<queue, task, exec, starts, nonces>>
  <2>1. NoNewToken(s, j)
    BY Zenon, <1>3, <1>20, <1>10, <1>11, <1>12 DEF NoNewToken
  <2> QED
    BY Zenon, <1>2, <2>1, TokenKept
<1>21. ASSUME NEW k \in JobIds, NEW c \in Sisters, SubmitInline(k, c)
       PROVE  OneToken(s, j)'
  <2>1. k # j
    BY Zenon, <1>3, <1>21 DEF SubmitInline
  <2>2. starts'[s][j] = starts[s][j]
    BY Zenon, <1>21, <2>1 DEF TypeOK, SubmitInline
  <2>3. UNCHANGED <<queue, task, exec>>
    BY Zenon, <1>21 DEF SubmitInline
  <2>4. NoNewToken(s, j)
    BY Zenon, <1>3, <1>5, <2>2, <2>3, <1>10, <1>11, <1>12 DEF NoNewToken
  <2> QED
    BY Zenon, <1>2, <2>4, TokenKept
<1>22. ASSUME NEW k \in JobIds, NEW c \in Sisters, SubmitLocal(k, c)
       PROVE  OneToken(s, j)'
  <2>1. k # j
    BY Zenon, <1>3, <1>22 DEF SubmitLocal
  <2>2. UNCHANGED <<task, exec, starts, nonces>>
    BY Zenon, <1>22 DEF SubmitLocal, durable, history
  <2>3. [id |-> k, creator |-> c, auth |-> NoAuth] \in LocalJob
    BY Zenon DEF LocalJob
  <2>4. queue' = [queue EXCEPT ![c] = Append(@, [id |-> k, creator |-> c, auth |-> NoAuth])]
    BY Zenon, <1>22 DEF SubmitLocal, Enqueue
  <2>5. InQueue(s, j)' \subseteq InQueue(s, j)
    BY SMTT(30), <2>1, <2>3, <2>4, Appended, QueueTyped DEF InQueue
  <2>6. NoNewToken(s, j)
    BY Zenon, <1>3, <2>2, <2>5, <1>11, <1>12 DEF NoNewToken
  <2> QED
    BY Zenon, <1>2, <2>6, TokenKept
<1>23. ASSUME NEW p \in Sisters, NEW u \in Tasks, NEW m \in jobMsgs, NEW known \in BOOLEAN,
              HandleJob(p, u, m, known)
       PROVE  OneToken(s, j)'
  <2>1. UNCHANGED <<queue, exec, starts, nonces>>
    BY Zenon, <1>23 DEF HandleJob, durable, history
  <2>2. m.job.auth = NoAuth => m.job.id # j
    BY Zenon, <1>4 DEF Drawn, TypeOK, JobData
  <2> DEFINE rec == [pc   |-> IF m.executor # p /\ known THEN "forward"
                              ELSE IF m.job.auth = NoAuth THEN "enqueue" ELSE "record",
                     job  |-> m.job,
                     peer |-> m.executor]
  <2>3. task' = [task EXCEPT ![p][u] = rec]
    BY Zenon, <1>23 DEF HandleJob
  <2>4. ~(rec.pc = "enqueue" /\ rec.job.id = j)
    BY Zenon, <2>2
  <2> HIDE DEF rec
  <2>5. InTask(s, j)' \subseteq InTask(s, j)
    BY Zenon, <2>3, <2>4 DEF InTask, TypeOK
  <2>6. NoNewToken(s, j)
    BY Zenon, <1>3, <2>1, <2>5, <1>10, <1>12 DEF NoNewToken
  <2> QED
    BY Zenon, <1>2, <2>6, TokenKept
<1>24. ASSUME NEW p \in Sisters, NEW r \in Sisters, NEW u \in Tasks, NEW known \in BOOLEAN,
              HandleJobRequest(p, u, r, known)
       PROVE  OneToken(s, j)'
  <2>1. UNCHANGED <<exec, starts, nonces>>
    BY Zenon, <1>24 DEF HandleJobRequest, durable, history
  <2>2. PICK n \in 1..Len(queue[p]) :
          /\ queue' = [queue EXCEPT ![p] = Without(@, n)]
          /\ task' = [task EXCEPT ![p][u] = [pc   |-> IF known THEN "handing" ELSE "return",
                                             job  |-> queue[p][n],
                                             peer |-> r]]
    BY ZenonT(60), <1>24 DEF HandleJobRequest
  <2>3. InTask(s, j)' \subseteq InTask(s, j)
    BY Zenon, <2>2 DEF InTask, TypeOK
  <2>4. ASSUME NEW i \in InQueue(s, j)', NEW k \in InQueue(s, j)'
        PROVE  \E a, b \in InQueue(s, j) : i # k => a # b
    <3>1. CASE s # p
      <4>1. InQueue(s, j)' = InQueue(s, j)
        BY Zenon, <2>2, <3>1 DEF InQueue, TypeOK
      <4> QED
        BY Zenon, <4>1
    <3>2. CASE s = p
      <4>1. /\ Len(queue'[s]) = Len(queue[s]) - 1
            /\ \A l \in 1..(Len(queue[s]) - 1) :
                 queue'[s][l] = IF l < n THEN queue[s][l] ELSE queue[s][l + 1]
        <5>1. queue'[s] = Without(queue[s], n)
          BY Zenon, <2>2, <3>2 DEF TypeOK
        <5> QED
          BY SMTT(30), <2>2, <3>2, <5>1, WithoutEntries, QueueTyped
      <4> DEFINE old(l) == IF l < n THEN l ELSE l + 1
      <4>2. \A l \in InQueue(s, j)' : old(l) \in InQueue(s, j)
        <5> SUFFICES ASSUME NEW l \in 1..Len(queue'[s]), queue'[s][l].id = j
                     PROVE  old(l) \in 1..Len(queue[s]) /\ queue[s][old(l)].id = j
          BY Zenon DEF InQueue
        <5>0. Len(queue[s]) \in Nat
          BY Zenon, QueueTyped
        <5>1. l \in 1..(Len(queue[s]) - 1) /\ Len(queue[s]) \in Nat
          BY Zenon, <4>1, <5>0
        <5>2. queue'[s][l] = queue[s][old(l)]
          BY Zenon, <4>1, <5>1
        <5> QED
          BY SMTT(30), <5>1, <5>2
      <4>3. i # k => old(i) # old(k)
        BY SMTT(30), <4>1, QueueTyped DEF InQueue
      <4> QED
        BY Zenon, <4>2, <4>3
    <3> QED
      BY Zenon, <3>1, <3>2
  <2>5. NoNewToken(s, j)
    BY Zenon, <1>3, <2>1, <2>3, <2>4, <1>12 DEF NoNewToken
  <2> QED
    BY Zenon, <1>2, <2>5, TokenKept
<1>25. ASSUME NEW p \in Sisters, NEW u \in Tasks, RecordNonce(p, u)
       PROVE  OneToken(s, j)'
  <2>1. UNCHANGED <<queue, exec, starts>> /\ task[p][u].pc = "record"
    BY Zenon, <1>25 DEF RecordNonce, history
  <2>2. /\ task'[p][u].pc = "enqueue"
        /\ task'[p][u].job = task[p][u].job
        /\ \A q \in Sisters, v \in Tasks : q # p \/ v # u => task'[q][v] = task[q][v]
    <3>1. Advance(p, u, "enqueue")
      BY Zenon, <1>25 DEF RecordNonce, Advance
    <3> QED
      BY Zenon, <3>1, MovedTask
  <2>3. CASE p = s /\ task[s][u].job.id = j
    <3>1. j \notin nonces[s] /\ j \in nonces'[s]
      BY Zenon, <1>2, <1>25, <2>3 DEF RecordNonce, TypeOK
    <3>2. InQueue(s, j) = {} /\ InTask(s, j) = {} /\ ~InExec(s, j) /\ ~(starts[s][j] > 0)
      BY Zenon, <1>2, <3>1 DEF OneToken
    <3>3. InTask(s, j)' = {u}
      BY SMTT(30), <2>2, <2>3, <3>2 DEF InTask
    <3>4. InQueue(s, j)' = {} /\ ~InExec(s, j)' /\ starts'[s][j] = 0
      <4>1. starts[s][j] \in 0..2
        BY DEF TypeOK
      <4>2. starts[s][j] = 0
        BY SMTT(30), <3>2, <4>1
      <4> QED
        BY Zenon, <2>1, <3>2, <4>2, <1>10, <1>12
    <3> QED
      BY SMTT(30), <3>1, <3>3, <3>4 DEF OneToken
  <2>4. CASE ~(p = s /\ task[s][u].job.id = j)
    <3>1. InTask(s, j)' \subseteq InTask(s, j)
      BY Zenon, <2>2, <2>4 DEF InTask
    <3>2. NoNewToken(s, j)
      BY Zenon, <1>3, <1>5, <2>1, <3>1, <1>10, <1>12 DEF NoNewToken
    <3> QED
      BY Zenon, <1>2, <3>2, TokenKept
  <2> QED
    BY Zenon, <2>3, <2>4
<1>26. ASSUME NEW p \in Sisters, NEW u \in Tasks,
              \/ RecordFails(p, u) \/ Forward(p, u) \/ MarkTransferred(p, u)
              \/ AbortHandler(p, u)
       PROVE  OneToken(s, j)'
  <2>1. UNCHANGED <<queue, exec, starts, nonces>> /\ task' = [task EXCEPT ![p][u] = Idle]
    BY Zenon, <1>26 DEF RecordFails, Forward, MarkTransferred, AbortHandler, durable, history
  <2>2. InTask(s, j)' \subseteq InTask(s, j)
    BY Zenon, <2>1 DEF InTask, TypeOK, Idle
  <2>3. NoNewToken(s, j)
    BY Zenon, <1>3, <2>1, <2>2, <1>10, <1>12 DEF NoNewToken
  <2> QED
    BY Zenon, <1>2, <2>3, TokenKept
<1>27. ASSUME NEW p \in Sisters, NEW u \in Tasks, HandOver(p, u)
       PROVE  OneToken(s, j)'
  <2>1. UNCHANGED <<queue, exec, starts, nonces>>
    BY Zenon, <1>27 DEF HandOver, durable, history
  <2>2. PICK pc \in {"mark", "return"} : Advance(p, u, pc)
    BY Zenon, <1>27 DEF HandOver, Advance
  <2>3. task'[p][u].pc # "enqueue"
        /\ \A q \in Sisters, v \in Tasks : q # p \/ v # u => task'[q][v] = task[q][v]
    <3>1. /\ task'[p][u].pc = pc
          /\ \A q \in Sisters, v \in Tasks : q # p \/ v # u => task'[q][v] = task[q][v]
      BY SMTT(30), <2>2, MovedTask
    <3> QED
      BY Zenon, <3>1
  <2>4. InTask(s, j)' \subseteq InTask(s, j)
    BY Zenon, <2>3 DEF InTask
  <2>5. NoNewToken(s, j)
    BY Zenon, <1>3, <2>1, <2>4, <1>10, <1>12 DEF NoNewToken
  <2> QED
    BY Zenon, <1>2, <2>5, TokenKept
<1>28. ASSUME NEW p \in Sisters, NEW u \in Tasks, HandlerEnqueue(p, u) \/ ReturnJob(p, u)
       PROVE  OneToken(s, j)'
  <2>1. /\ UNCHANGED <<exec, starts, nonces>>
        /\ task' = [task EXCEPT ![p][u] = Idle]
        /\ task[p][u].pc \in {"enqueue", "return"}
        /\ queue' = [queue EXCEPT ![p] = Append(@, task[p][u].job)]
    BY Zenon, <1>28 DEF HandlerEnqueue, ReturnJob, Enqueue, PushBack, durable, history
  <2>2. task[p][u].job \in LocalJob
    BY Zenon, <2>1, TaskTyped
  <2>3. InTask(s, j)' = InTask(s, j) \ (IF s = p THEN {u} ELSE {})
    BY Zenon, <2>1 DEF InTask, TypeOK, Idle
  <2>4. /\ \A q \in Sisters : q # p => queue'[q] = queue[q]
        /\ Len(queue'[p]) = Len(queue[p]) + 1
        /\ queue'[p][Len(queue[p]) + 1] = task[p][u].job
        /\ \A i \in 1..Len(queue[p]) : queue'[p][i] = queue[p][i]
    BY ZenonT(60), <2>1, <2>2, Appended
  <2>5. CASE s = p /\ task[p][u].job.id = j
    <3>1. u \in InTask(s, j)
      BY Zenon, <1>8, <2>1, <2>5 DEF InTask
    <3>2. /\ InTask(s, j) = {u} /\ InQueue(s, j) = {} /\ ~InExec(s, j)
          /\ starts[s][j] = 0 /\ j \in nonces[s]
      BY Zenon, <1>2, <3>1 DEF OneToken
    <3>3. InTask(s, j)' = {} /\ ~InExec(s, j)' /\ starts'[s][j] = 0 /\ j \in nonces'[s]
      BY Zenon, <2>1, <2>3, <2>5, <3>2, <1>12
    <3>4. InQueue(s, j)' \subseteq {Len(queue[s]) + 1}
      <4>1. \A i \in 1..Len(queue[s]) : queue'[s][i].id # j
        BY Zenon, <2>4, <2>5, <3>2 DEF InQueue
      <4> QED
        BY SMTT(30), <4>1, <2>4, <2>5, QueueTyped DEF InQueue
    <3> QED
      BY SMTT(30), <3>3, <3>4 DEF OneToken
  <2>6. CASE ~(s = p /\ task[p][u].job.id = j)
    <3>1. InQueue(s, j)' \subseteq InQueue(s, j)
      BY SMTT(30), <2>4, <2>6, QueueTyped DEF InQueue
    <3>2. NoNewToken(s, j)
      BY Zenon, <1>3, <2>1, <2>3, <3>1, <1>12 DEF NoNewToken
    <3> QED
      BY Zenon, <1>2, <3>2, TokenKept
  <2> QED
    BY Zenon, <2>5, <2>6
<1>29. ASSUME NEW p \in Sisters, ExecutorPop(p)
       PROVE  OneToken(s, j)'
  <2>1. /\ UNCHANGED <<task, starts, nonces>>
        /\ exec' = [exec EXCEPT ![p] = [pc |-> "popped", job |-> Head(queue[p])]]
        /\ queue' = [queue EXCEPT ![p] = Tail(@)]
        /\ queue[p] # <<>>
    BY Zenon, <1>29 DEF ExecutorPop, durable, history
  <2>2. CASE s # p
    <3>1. InQueue(s, j)' = InQueue(s, j) /\ InExec(s, j)' = InExec(s, j)
      BY Zenon, <2>1, <2>2 DEF TypeOK, InQueue, InExec
    <3>2. NoNewToken(s, j)
      BY Zenon, <1>3, <2>1, <3>1, <1>11 DEF NoNewToken
    <3> QED
      BY Zenon, <1>2, <3>2, TokenKept
  <2>3. CASE s = p
    <3>1. queue'[s] = Tail(queue[s]) /\ exec'[s] = [pc |-> "popped", job |-> Head(queue[s])]
      BY Zenon, <2>1, <2>3 DEF TypeOK
    <3>2. /\ Len(queue'[s]) = Len(queue[s]) - 1 /\ Len(queue[s]) \in Nat \ {0}
          /\ Head(queue[s]) = queue[s][1]
          /\ \A n \in 1..Len(queue'[s]) : queue'[s][n] = queue[s][n + 1]
      <4>1. queue[s] \in Seq(LocalJob) /\ queue[s] # <<>>
        BY Zenon, <2>1, <2>3, QueueTyped
      <4>2. /\ Head(queue[s]) = queue[s][1]
            /\ Len(queue[s]) \in Nat \ {0}
            /\ Len(Tail(queue[s])) = Len(queue[s]) - 1
            /\ \A n \in 1..(Len(queue[s]) - 1) : Tail(queue[s])[n] = queue[s][n + 1]
        BY Zenon, <4>1, PopEntries
      <4> QED
        BY Zenon, <3>1, <4>2
    <3>3. \A n \in InQueue(s, j)' : n \in Nat /\ n # 0 /\ n + 1 \in InQueue(s, j)
      BY SMTT(30), <3>2 DEF InQueue
    <3>4. CASE queue[s][1].id = j
      <4>1. 1 \in InQueue(s, j)
        BY SMTT(30), <3>2, <3>4 DEF InQueue
      <4>2. /\ InTask(s, j) = {} /\ ~InExec(s, j) /\ starts[s][j] = 0 /\ j \in nonces[s]
            /\ \A n \in InQueue(s, j) : n = 1
        BY Zenon, <1>2, <4>1 DEF OneToken
      <4>3. InQueue(s, j)' = {}
        <5> SUFFICES ASSUME NEW n \in InQueue(s, j)' PROVE FALSE
          BY Zenon
        <5>1. n \in Nat /\ n # 0 /\ n + 1 = 1
          BY Zenon, <3>3, <4>2
        <5> QED
          BY <5>1
      <4>4. InTask(s, j)' = {} /\ starts'[s][j] = 0 /\ j \in nonces'[s]
        BY Zenon, <2>1, <4>2, <1>11
      <4> QED
        BY SMTT(30), <4>3, <4>4 DEF OneToken
    <3>5. CASE queue[s][1].id # j
      <4>1. ~InExec(s, j)'
        BY SMTT(30), <3>1, <3>2, <3>5 DEF InExec
      <4>2. \A i, k \in InQueue(s, j)' : \E a, b \in InQueue(s, j) : i # k => a # b
        BY SMTT(30), <3>3
      <4>3. NoNewToken(s, j)
        BY ZenonT(60), <1>3, <2>1, <4>1, <4>2, <1>11 DEF NoNewToken
      <4> QED
        BY Zenon, <1>2, <4>3, TokenKept
    <3> QED
      BY Zenon, <3>4, <3>5
  <2> QED
    BY Zenon, <2>2, <2>3
<1>30. ASSUME NEW p \in Sisters, ExecutorStart(p)
       PROVE  OneToken(s, j)'
  <2>1. /\ UNCHANGED <<queue, task, nonces>>
        /\ exec[p].pc = "popped"
        /\ exec' = [exec EXCEPT ![p].pc = "running"]
        /\ starts' = [starts EXCEPT ![p][exec[p].job.id] = IF @ = 0 THEN 1 ELSE 2]
    BY Zenon, <1>30 DEF ExecutorStart, durable
  <2>2. exec[p] \in ExecRecord /\ exec[p].job \in LocalJob /\ exec[p].job.id \in JobIds
    BY Zenon, <2>1, ExecTyped
  <2>3. /\ exec'[p].pc = "running"
        /\ \A q \in Sisters : q # p => exec'[q] = exec[q]
    BY Zenon, <2>1, <2>2 DEF TypeOK, ExecRecord
  <2>4. CASE s = p /\ exec[s].job.id = j
    <3>1. InExec(s, j)
      BY Zenon, <2>1, <2>4 DEF InExec
    <3>2. InQueue(s, j) = {} /\ InTask(s, j) = {} /\ starts[s][j] = 0 /\ j \in nonces[s]
      BY Zenon, <1>2, <3>1 DEF OneToken
    <3>3. starts'[s][j] = 1
      BY Zenon, <2>1, <2>4, <3>2 DEF TypeOK
    <3>4. call[j].job.auth = s
      <4>1. Genuine(exec[s].job) /\ Entitled(s, exec[s].job)
        BY Zenon, <2>1, <2>4 DEF Drawn, Custody
      <4> QED
        BY Zenon, <2>4, <4>1 DEF Genuine, Entitled, Authorized
    <3>5. InQueue(s, j)' = {} /\ InTask(s, j)' = {} /\ ~InExec(s, j)' /\ j \in nonces'[s]
      BY Zenon, <2>1, <2>3, <2>4, <3>2, <1>10, <1>11 DEF InExec
    <3> QED
      BY ZenonT(60), <1>3, <3>3, <3>4, <3>5 DEF OneToken
  <2>5. CASE ~(s = p /\ exec[s].job.id = j)
    <3>1. starts'[s][j] = starts[s][j]
      BY Zenon, <2>1, <2>2, <2>5 DEF TypeOK
    <3>2. InExec(s, j)' => InExec(s, j)
      BY Zenon, <2>3 DEF InExec
    <3>3. NoNewToken(s, j)
      BY Zenon, <1>3, <2>1, <3>1, <3>2, <1>10, <1>11 DEF NoNewToken
    <3> QED
      BY Zenon, <1>2, <3>3, TokenKept
  <2> QED
    BY Zenon, <2>4, <2>5
<1>31. ASSUME NEW p \in Sisters, ExecutorFinish(p) \/ ExecutorRespond(p)
       PROVE  OneToken(s, j)'
  <2>1. /\ UNCHANGED <<queue, task, starts, nonces>>
        /\ exec[p].pc \in {"running", "respond"}
        /\ \/ exec' = [exec EXCEPT ![p] = Idle]
           \/ exec' = [exec EXCEPT ![p].pc = "respond"]
    BY Zenon, <1>31 DEF ExecutorFinish, ExecutorRespond, durable, history
  <2>2. exec[p] \in ExecRecord
    BY Zenon, <2>1, ExecTyped
  <2>3. InExec(s, j)' => InExec(s, j)
    <3>1. \A q \in Sisters : q # p => exec'[q] = exec[q]
      BY Zenon, <2>1 DEF TypeOK
    <3>2. exec'[p].pc # "popped"
      BY <2>1, <2>2 DEF TypeOK, ExecRecord, Idle
    <3> QED
      BY Zenon, <3>1, <3>2 DEF InExec
  <2>4. NoNewToken(s, j)
    BY Zenon, <1>3, <2>1, <2>3, <1>10, <1>11 DEF NoNewToken
  <2> QED
    BY Zenon, <1>2, <2>4, TokenKept
<1>32. ASSUME NEW p \in Sisters, Crash(p)
       PROVE  OneToken(s, j)'
  <2>1. UNCHANGED <<starts, nonces>>
    BY Zenon, <1>32 DEF Crash, history
  <2>2. /\ InQueue(s, j)' \subseteq InQueue(s, j)
        /\ InTask(s, j)' \subseteq InTask(s, j)
        /\ InExec(s, j)' => InExec(s, j)
    BY SMTT(30), <1>32 DEF InQueue, InTask, InExec, TypeOK, Idle, Crash
  <2>3. NoNewToken(s, j)
    BY Zenon, <1>3, <2>1, <2>2 DEF NoNewToken
  <2> QED
    BY Zenon, <1>2, <2>3, TokenKept
<1> QED
  BY Zenon, <1>20, <1>21, <1>22, <1>23, <1>24, <1>25, <1>26, <1>27, <1>28, <1>29, <1>30,
     <1>31, <1>32, TokenFrame DEF Handler, Executor

\* Once is stronger than AtMostOnceWhileValid.
LEMMA OnceSuffices == TypeOK /\ Once => AtMostOnceWhileValid
<1> SUFFICES ASSUME TypeOK, Once, NEW j \in JobIds, Authorized(j), j \notin expired,
                    NEW s \in Sisters, NEW p \in Sisters
             PROVE  /\ starts[s][j] <= 1
                    /\ (starts[s][j] = 1 /\ starts[p][j] = 1) => s = p
  BY Zenon DEF AtMostOnceWhileValid
<1>1. starts[s][j] \in 0..2 /\ starts[p][j] \in 0..2
  BY DEF TypeOK
<1>2. OneToken(s, j) /\ OneToken(p, j)
  BY Zenon DEF Once
<1>3. /\ starts[s][j] > 0 => starts[s][j] = 1 /\ call[j].job.auth = s
      /\ starts[p][j] > 0 => call[j].job.auth = p
  BY Zenon, <1>2 DEF OneToken
<1> QED
  BY SMTT(30), <1>1, <1>3

\* At-most-once execution: while the authorization is valid, no sequence of
\* redelivered, forwarded, stolen or returned jobs and of restarts makes any
\* Sister start its command a second time, or two Sisters start it.
THEOREM AtMostOnceExecution == Spec => []AtMostOnceWhileValid
<1> DEFINE IInv == Drawn /\ Custody /\ Once
<1>1. Init => IInv
  BY Zenon, CustodyInit DEF Init, Once, Authorized
<1>2. TypeInv /\ IInv /\ [Next]_vars => IInv'
  BY Zenon, DrawnStep, CustodyStep, OnceStep
<1>3. TypeInv /\ IInv => AtMostOnceWhileValid
  BY Zenon, OnceSuffices DEF TypeInv
<1> HIDE DEF IInv
<1> QED
  BY <1>1, <1>2, <1>3, TypeAlways, PTL DEF Spec

-----------------------------------------------------------------------------
(* The status of a finished job *)

\* Where a status of j at s comes from.
StatusSource(s, j) ==
  \/ jobs'[s][j] \in {jobs[s][j], "none"}
  \/ sub[j] = "idle" /\ sub'[j] # "idle" /\ jobs'[s][j] \in {"Queued", "Running"}
  \/ sub[j] = "inline"
  \/ /\ \E t \in Tasks : task[s][t].pc = "enqueue" /\ task[s][t].job.id = j
     /\ jobs'[s][j] = "Queued"
  \/ /\ \E t \in Tasks : task[s][t].pc = "mark" /\ task[s][t].job.id = j
     /\ jobs'[s][j] = "Transferred"
  \/ exec[s].pc = "popped" /\ exec[s].job.id = j /\ jobs'[s][j] = "Running"
  \/ exec[s].pc = "running" /\ exec[s].job.id = j /\ exec'[s].pc # "running"

\* Only these steps write a job's metadata.
LEMMA StatusFrame ==
  ASSUME [Next]_vars
  PROVE  \/ UNCHANGED jobs
         \/ \E j \in JobIds, c \in Sisters : SubmitInline(j, c) \/ SubmitLocal(j, c)
         \/ \E j \in JobIds : InlineFinished(j)
         \/ \E s \in Sisters, t \in Tasks : HandlerEnqueue(s, t) \/ MarkTransferred(s, t)
         \/ \E s \in Sisters : ExecutorStart(s) \/ ExecutorFinish(s) \/ Crash(s)
BY Zenon, Footprints

\* Every status comes from one of these sources.
LEMMA StatusMoves ==
  ASSUME TypeOK, [Next]_vars, NEW s \in Sisters, NEW j \in JobIds
  PROVE  StatusSource(s, j)
<1>1. CASE UNCHANGED jobs
  BY Zenon, <1>1 DEF StatusSource
<1>2. ASSUME NEW k \in JobIds, NEW c \in Sisters, SubmitInline(k, c) \/ SubmitLocal(k, c)
      PROVE  StatusSource(s, j)
  <2>1. PICK st \in {"Queued", "Running"}, at \in {"inline", "enqueued"} :
          /\ sub[k] = "idle" /\ sub' = [sub EXCEPT ![k] = at]
          /\ jobs' = [jobs EXCEPT ![c][k] = st]
    BY Zenon, <1>2 DEF SubmitInline, SubmitLocal, Enqueue
  <2> QED
    BY Zenon, <2>1 DEF TypeOK, StatusSource
<1>3. ASSUME NEW k \in JobIds, InlineFinished(k)
      PROVE  StatusSource(s, j)
  <2>1. PICK c, st : sub[k] = "inline" /\ Mark(c, k, st)
    BY Zenon, <1>3 DEF InlineFinished
  <2> QED
    BY <2>1 DEF Mark, TypeOK, StatusSource
<1>4. ASSUME NEW p \in Sisters, NEW t \in Tasks, HandlerEnqueue(p, t)
      PROVE  StatusSource(s, j)
  <2>1. /\ task[p][t].pc = "enqueue" /\ task[p][t].job.id \in JobIds
        /\ jobs' = [jobs EXCEPT ![p][task[p][t].job.id] = "Queued"]
    BY Zenon, <1>4, TaskTyped DEF HandlerEnqueue, Enqueue
  <2> QED
    BY Zenon, <2>1 DEF TypeOK, StatusSource
<1>5. ASSUME NEW p \in Sisters, NEW t \in Tasks, MarkTransferred(p, t)
      PROVE  StatusSource(s, j)
  <2>1. /\ task[p][t].pc = "mark" /\ task[p][t].job.id \in JobIds
        /\ Mark(p, task[p][t].job.id, "Transferred")
    BY Zenon, <1>5, TaskTyped DEF MarkTransferred
  <2> QED
    BY Zenon, <2>1 DEF Mark, TypeOK, StatusSource
<1>6. ASSUME NEW p \in Sisters, ExecutorStart(p)
      PROVE  StatusSource(s, j)
  <2>1. /\ exec[p].pc = "popped" /\ exec[p].job.id \in JobIds
        /\ Mark(p, exec[p].job.id, "Running")
    BY Zenon, <1>6, ExecTyped DEF ExecutorStart
  <2> QED
    BY Zenon, <2>1 DEF Mark, TypeOK, StatusSource
<1>7. ASSUME NEW p \in Sisters, ExecutorFinish(p)
      PROVE  StatusSource(s, j)
  <2>1. exec[p].pc = "running" /\ exec[p].job.id \in JobIds /\ exec[p] \in ExecRecord
    BY Zenon, <1>7, ExecTyped DEF ExecutorFinish
  <2>2. PICK st : Mark(p, exec[p].job.id, st)
    BY Zenon, <1>7 DEF ExecutorFinish
  <2>3. exec'[p].pc # "running"
    BY Zenon, <1>7, <2>1 DEF ExecutorFinish, TypeOK, Idle, ExecRecord
  <2> QED
    BY Zenon, <2>1, <2>2, <2>3 DEF Mark, TypeOK, StatusSource
<1>8. ASSUME NEW p \in Sisters, Crash(p)
      PROVE  StatusSource(s, j)
  BY Zenon, <1>8 DEF Crash, TypeOK, StatusSource
<1> QED
  BY Zenon, <1>1, <1>2, <1>3, <1>4, <1>5, <1>6, <1>7, <1>8, StatusFrame

\* Started stays started, and what runs now ran before or was started now.
LEMMA RunningMoves ==
  ASSUME TypeOK, Drawn, [Next]_vars, NEW s \in Sisters
  PROVE  /\ \A j \in JobIds : starts[s][j] > 0 => starts'[s][j] > 0
         /\ exec'[s].pc = "running" =>
              /\ exec[s].pc \in {"popped", "running"} /\ exec'[s].job = exec[s].job
              /\ exec[s].pc = "popped" => starts'[s][exec[s].job.id] > 0
<1>1. ASSUME NEW p \in Sisters, ExecutorStart(p)
      PROVE  /\ \A j \in JobIds : starts[s][j] > 0 => starts'[s][j] > 0
             /\ exec'[s].pc = "running" =>
                  /\ exec[s].pc \in {"popped", "running"} /\ exec'[s].job = exec[s].job
                  /\ exec[s].pc = "popped" => starts'[s][exec[s].job.id] > 0
  <2>1. exec[p].pc = "popped" /\ exec[p] \in ExecRecord /\ exec[p].job.id \in JobIds
    BY Zenon, <1>1, ExecTyped DEF ExecutorStart
  <2>2. /\ starts' = [starts EXCEPT ![p][exec[p].job.id] = IF @ = 0 THEN 1 ELSE 2]
        /\ exec' = [exec EXCEPT ![p].pc = "running"]
    BY Zenon, <1>1 DEF ExecutorStart
  <2>4. /\ \A j \in JobIds : starts[s][j] > 0 => starts'[s][j] > 0
        /\ p = s => starts'[s][exec[s].job.id] > 0
    BY SMTT(30), <2>1, <2>2 DEF TypeOK
  <2>5. CASE s = p
    <3>1. exec'[s].job = exec[s].job
      BY Zenon, <2>1, <2>2, <2>5 DEF TypeOK, ExecRecord
    <3> QED
      BY Zenon, <2>1, <2>4, <2>5, <3>1
  <2>6. CASE s # p
    <3>1. exec'[s] = exec[s]
      BY Zenon, <2>2, <2>6 DEF TypeOK
    <3>2. exec[s].pc = "running" => exec[s].pc # "popped"
      BY Zenon
    <3> QED
      BY Zenon, <2>4, <3>1, <3>2
  <2> QED
    BY Zenon, <2>5, <2>6
<1>2. ASSUME ~\E p \in Sisters : ExecutorStart(p)
      PROVE  \A j \in JobIds : starts[s][j] > 0 => starts'[s][j] > 0
  <2>1. ASSUME NEW k \in JobIds, NEW c \in Sisters, SubmitInline(k, c)
        PROVE  \A j \in JobIds : starts[s][j] > 0 => starts'[s][j] > 0
    BY <2>1 DEF SubmitInline, TypeOK
  <2> QED
    BY Zenon, <1>2, <2>1, StartsFrame
<1>3. ASSUME ~\E p \in Sisters : ExecutorStart(p), exec'[s].pc = "running"
      PROVE  exec[s].pc = "running" /\ exec'[s].job = exec[s].job
  <2>1. CASE UNCHANGED exec
    BY Zenon, <1>3, <2>1
  <2>2. ASSUME NEW p \in Sisters, ExecutorPop(p)
        PROVE  exec[s].pc = "running" /\ exec'[s].job = exec[s].job
    BY Zenon, <1>3, <2>2 DEF ExecutorPop, TypeOK
  <2>3. ASSUME NEW p \in Sisters, exec' = [exec EXCEPT ![p] = Idle]
        PROVE  exec[s].pc = "running" /\ exec'[s].job = exec[s].job
    BY Zenon, <1>3, <2>3 DEF TypeOK, Idle
  <2>4. ASSUME NEW p \in Sisters, exec[p].pc # "idle",
               exec' = [exec EXCEPT ![p].pc = "respond"]
        PROVE  exec[s].pc = "running" /\ exec'[s].job = exec[s].job
    <3>1. exec[p] \in ExecRecord
      BY Zenon, <2>4, ExecTyped
    <3>2. exec'[p].pc = "respond"
      BY Zenon, <2>4, <3>1 DEF TypeOK, ExecRecord
    <3>3. s # p => exec'[s] = exec[s]
      BY Zenon, <2>4 DEF TypeOK
    <3> QED
      BY Zenon, <1>3, <3>2, <3>3
  <2>5. ASSUME NEW p \in Sisters, ExecutorFinish(p) \/ ExecutorRespond(p) \/ Crash(p)
        PROVE  \/ exec' = [exec EXCEPT ![p] = Idle]
               \/ exec[p].pc # "idle" /\ exec' = [exec EXCEPT ![p].pc = "respond"]
    BY Zenon, <2>5 DEF ExecutorFinish, ExecutorRespond, Crash
  <2> QED
    BY Zenon, <1>3, <2>1, <2>2, <2>3, <2>4, <2>5, ExecFrame DEF Executor
<1> QED
  BY Zenon, <1>1, <1>2, <1>3

\* Only an inline submission gives a job an inline call, and it is unauthorized.
LEMMA InlineMoves ==
  ASSUME TypeOK, [Next]_vars, NEW j \in JobIds, sub'[j] = "inline"
  PROVE  \/ sub[j] = "inline" /\ call'[j] = call[j]
         \/ call'[j].job.auth = NoAuth
<1>1. CASE UNCHANGED <<sub, call>>
  BY Zenon, <1>1
<1>2. ASSUME NEW k \in JobIds, NEW c \in Sisters, SubmitInline(k, c)
      PROVE  \/ sub[j] = "inline" /\ call'[j] = call[j]
             \/ call'[j].job.auth = NoAuth
  BY Zenon, <1>2 DEF SubmitInline, TypeOK
<1>3. ASSUME NEW k \in JobIds, NEW pc, sub' = [sub EXCEPT ![k] = pc], pc # "inline"
      PROVE  sub[j] = "inline" /\ k # j
  BY Zenon, <1>3 DEF TypeOK
<1>4. ASSUME NEW k \in JobIds, NEW c \in Sisters, NEW e \in Sisters, NEW via \in Sisters,
             NEW auth \in Sisters \cup {NoAuth}, SubmitReserve(k, c, e, via, auth)
      PROVE  sub[j] = "inline" /\ call'[j] = call[j]
  BY Zenon, <1>3, <1>4 DEF SubmitReserve, TypeOK
<1>5. ASSUME NEW k \in JobIds, NEW c \in Sisters, SubmitLocal(k, c)
      PROVE  sub[j] = "inline" /\ call'[j] = call[j]
  BY Zenon, <1>3, <1>5 DEF SubmitLocal
<1>6. ASSUME NEW k \in JobIds, Submission(k) \/ SubmitDropped(k) \/ InlineFinished(k)
      PROVE  sub[j] = "inline" /\ call'[j] = call[j]
  <2>1. UNCHANGED call
    BY Zenon, <1>6 DEF Submission, SubmitTransmit, SubmitSent, SubmitSendFails, SubmitResult,
         SubmitTimeout, SubmitDropped, InlineFinished, waiting
  <2>2. \/ UNCHANGED sub
        \/ \E pc \in {"waiting", "error", "ok", "timeout", "dropped"} :
             sub' = [sub EXCEPT ![k] = pc]
    BY Zenon, <1>6 DEF Submission, SubmitTransmit, SubmitSent, SubmitSendFails, SubmitResult,
         SubmitTimeout, SubmitDropped, InlineFinished, waiting
  <2> QED
    BY Zenon, <1>3, <2>1, <2>2
<1>7. ASSUME NEW p \in Sisters, Crash(p)
      PROVE  sub[j] = "inline" /\ call'[j] = call[j]
  BY Zenon, <1>7 DEF Crash, TypeOK
<1> QED
  BY Zenon, <1>1, <1>2, <1>4, <1>5, <1>6, <1>7, SubFrame

\* The metadata of a job that ended says so only after its one start, and with
\* its command no longer running.
Tracked ==
  /\ \A j \in JobIds : sub[j] = "idle" => \A s \in Sisters : jobs[s][j] = "none"
  /\ \A j \in JobIds : sub[j] = "inline" => call[j].job.auth = NoAuth
  /\ \A s \in Sisters : exec[s].pc = "running" => starts[s][exec[s].job.id] > 0
  /\ \A s \in Sisters, j \in JobIds :
       Authorized(j) /\ j \notin expired /\ jobs[s][j] \in {"Completed", "Failed"} =>
         starts[s][j] > 0 /\ ~(exec[s].pc = "running" /\ exec[s].job.id = j)

\* Nothing a Sister carries has the id of a submission not made yet.
LEMMA NobodyCarries ==
  ASSUME TypeOK, Drawn, NEW s \in Sisters, NEW j \in JobIds, sub[j] = "idle"
  PROVE  /\ \A t \in Tasks : task[s][t].pc # "idle" => task[s][t].job.id # j
         /\ exec[s].pc # "idle" => exec[s].job.id # j
<1>1. \A job \in LocalJob : Genuine(job) => job.id # j
  BY Zenon DEF Genuine, Drawn
<1>2. \A t \in Tasks : task[s][t].pc # "idle" => task[s][t].job.id # j
  BY Zenon, <1>1, TaskTyped DEF Drawn
<1>3. exec[s].pc # "idle" => exec[s].job.id # j
  BY Zenon, <1>1, ExecTyped DEF Drawn
<1> QED
  BY Zenon, <1>2, <1>3

\* A submission never made leaves no metadata.
LEMMA UndrawnIsUnknown ==
  ASSUME TypeOK, Drawn, Tracked, [Next]_vars, NEW s \in Sisters, NEW j \in JobIds,
         sub'[j] = "idle"
  PROVE  jobs'[s][j] = "none"
<1>1. sub[j] = "idle" /\ jobs[s][j] = "none"
  BY Zenon, CallMoves DEF Settled, Tracked
<1>2. /\ \A t \in Tasks : task[s][t].pc # "idle" => task[s][t].job.id # j
      /\ exec[s].pc # "idle" => exec[s].job.id # j
  BY Zenon, <1>1, NobodyCarries
<1> QED
  BY ZenonT(30), <1>1, <1>2, StatusMoves DEF StatusSource

\* Only its own start gives an authorized job a final status.
LEMMA FinalAfterStart ==
  ASSUME TypeOK, Drawn, Once, Tracked, [Next]_vars, NEW s \in Sisters, NEW j \in JobIds,
         Authorized(j)', j \notin expired', jobs'[s][j] \in {"Completed", "Failed"}
  PROVE  starts'[s][j] > 0 /\ ~(exec'[s].pc = "running" /\ exec'[s].job.id = j)
<1>0. jobs'[s][j] \notin {"none", "Queued", "Running", "Transferred"}
  BY Zenon
<1>1. Authorized(j)
  <2> SUFFICES ASSUME ~Authorized(j) PROVE FALSE
    BY Zenon
  <2>1. sub[j] = "idle"
    BY Zenon, CallMoves DEF Authorized, Drawn, Settled
  <2>2. /\ \A t \in Tasks : task[s][t].pc # "idle" => task[s][t].job.id # j
        /\ exec[s].pc # "idle" => exec[s].job.id # j
    BY Zenon, <2>1, NobodyCarries
  <2>3. jobs[s][j] = "none"
    BY Zenon, <2>1 DEF Tracked
  <2> QED
    BY ZenonT(30), <1>0, <2>1, <2>2, <2>3, StatusMoves DEF StatusSource
<1>2. j \notin expired /\ OneToken(s, j)
  BY Zenon, <1>1, NoncesGrow DEF Once
<1>3. sub[j] # "idle" /\ sub[j] # "inline"
  BY Zenon, <1>1 DEF Tracked, Drawn, Authorized
<1>4. \/ jobs'[s][j] = jobs[s][j]
      \/ exec[s].pc = "running" /\ exec[s].job.id = j /\ exec'[s].pc # "running"
  BY ZenonT(30), <1>0, <1>3, StatusMoves DEF StatusSource
<1>5. CASE jobs'[s][j] = jobs[s][j]
  <2>1. starts[s][j] > 0 /\ ~(exec[s].pc = "running" /\ exec[s].job.id = j)
    BY Zenon, <1>1, <1>2, <1>5 DEF Tracked
  <2>2. starts'[s][j] > 0
    BY Zenon, <2>1, RunningMoves
  <2>3. starts[s][j] # 0
    BY SMTT(30), <2>1
  <2>4. ~InExec(s, j)
    BY Zenon, <1>2, <2>3 DEF OneToken
  <2> QED
    BY Zenon, <2>1, <2>2, <2>4, RunningMoves DEF InExec
<1>6. CASE exec[s].pc = "running" /\ exec[s].job.id = j /\ exec'[s].pc # "running"
  BY Zenon, <1>6, RunningMoves DEF Tracked
<1> QED
  BY Zenon, <1>4, <1>5, <1>6

\* Every step keeps the metadata in step with the executions.
LEMMA TrackedStep ==
  TypeInv /\ Drawn /\ Once /\ Tracked /\ [Next]_vars => Tracked'
<1> SUFFICES ASSUME TypeOK, Drawn, Once, Tracked, [Next]_vars PROVE Tracked'
  BY Zenon DEF TypeInv
<1>1. \A s \in Sisters, j \in JobIds : sub'[j] = "idle" => jobs'[s][j] = "none"
  BY Zenon, UndrawnIsUnknown
<1>2. ASSUME NEW j \in JobIds, sub'[j] = "inline"
      PROVE  call'[j].job.auth = NoAuth
  BY Zenon, <1>2, InlineMoves DEF Tracked
<1>3. ASSUME NEW s \in Sisters, exec'[s].pc = "running"
      PROVE  starts'[s][exec'[s].job.id] > 0
  <2>1. exec[s].pc \in {"popped", "running"} /\ exec'[s].job = exec[s].job
    BY Zenon, <1>3, RunningMoves
  <2>2. exec[s].job.id \in JobIds
    BY Zenon, <2>1, ExecTyped
  <2> QED
    BY Zenon, <1>3, <2>1, <2>2, RunningMoves DEF Tracked
<1>4. \A s \in Sisters, j \in JobIds :
        Authorized(j)' /\ j \notin expired' /\ jobs'[s][j] \in {"Completed", "Failed"} =>
          starts'[s][j] > 0 /\ ~(exec'[s].pc = "running" /\ exec'[s].job.id = j)
  BY Zenon, FinalAfterStart
<1> QED
  BY Zenon, <1>1, <1>2, <1>3, <1>4 DEF Tracked

\* A step that finds an authorized job ended leaves it so, or forgets it.
LEMMA FinalStep ==
  ASSUME TypeOK, Drawn, Custody, Once, Tracked, [Next]_vars,
         NEW s \in Sisters, NEW j \in JobIds,
         jobs[s][j] \in {"Completed", "Failed"}, Authorized(j), j \notin expired
  PROVE  jobs'[s][j] \in {jobs[s][j], "none"}
<1>1. starts[s][j] > 0 /\ ~(exec[s].pc = "running" /\ exec[s].job.id = j)
  BY Zenon DEF Tracked
<1>2. starts[s][j] # 0
  BY SMTT(30), <1>1
<1>3. ~InExec(s, j) /\ InTask(s, j) = {}
  BY Zenon, <1>2 DEF Once, OneToken
<1>4. sub[j] # "idle" /\ sub[j] # "inline"
  BY Zenon DEF Tracked, Drawn, Authorized
<1>5. ASSUME NEW t \in Tasks, task[s][t].pc = "mark", task[s][t].job.id = j
      PROVE  FALSE
  <2>1. Genuine(task[s][t].job) /\ task[s][t].job.auth = NoAuth
    BY Zenon, <1>5 DEF Drawn, Custody
  <2> QED
    BY Zenon, <1>5, <2>1 DEF Genuine, Authorized
<1> QED
  <2>1. ~(exec[s].pc = "popped" /\ exec[s].job.id = j)
    BY Zenon, <1>3 DEF InExec
  <2>2. ~\E t \in Tasks : task[s][t].pc = "enqueue" /\ task[s][t].job.id = j
    BY Zenon, <1>3 DEF InTask
  <2>3. StatusSource(s, j)
    BY Zenon, StatusMoves
  <2> QED
    BY ZenonT(30), <1>1, <1>4, <1>5, <2>1, <2>2, <2>3 DEF StatusSource

\* What a Sister reports of an authorized job that ended is final while the
\* authorization lasts: no late mark_transferred and no repeated delivery
\* rewrites it, and only a restart forgets it.
THEOREM FinishedStaysFinished == Spec => FinalStatusStable
<1> DEFINE IInv == Drawn /\ Custody /\ Once /\ Tracked
           Stable == \A s \in Sisters, j \in JobIds :
             (jobs[s][j] \in {"Completed", "Failed"} /\ Authorized(j) /\ j \notin expired)
               => jobs'[s][j] \in {jobs[s][j], "none"}
<1>1. Init => IInv
  BY CustodyInit DEF Init, Once, Authorized, Tracked, Idle
<1>2. TypeInv /\ IInv /\ [Next]_vars => IInv'
  BY Zenon, DrawnStep, CustodyStep, OnceStep, TrackedStep
<1>3. TypeInv /\ IInv /\ [Next]_vars => [Stable]_vars
  BY Zenon, FinalStep DEF TypeInv
<1>4. (Spec => [][Stable]_vars) => (Spec => FinalStatusStable)
  BY Zenon DEF FinalStatusStable
<1> HIDE DEF IInv, Stable
<1> QED
  BY <1>1, <1>2, <1>3, <1>4, TypeAlways, PTL DEF Spec
=============================================================================
