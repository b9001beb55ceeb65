-------------------------------- MODULE Jobs --------------------------------
(***************************************************************************)
(* Remote command execution between Sisters: the submission futures of     *)
(* node.rs, the Job, JobRequest and JobResponse arms of handler.rs, the    *)
(* queue, metadata and waiters of JobManager, the executor loop, work      *)
(* stealing and the durable nonce store behind human authorizations.       *)
(*                                                                         *)
(* The control plane is the authenticated Iroh one.  A message, once sent, *)
(* stays in its set: it may be received late, out of order, several times  *)
(* or never.  A send that reports an error may nevertheless have been      *)
(* received (control_channel::send never waits for an acknowledgement).    *)
(* The peer table belongs to another component, so whether a peer is known *)
(* is a nondeterministic read.  A message the handler rejects changes      *)
(* nothing and is no step.  A command is identified with its job id, and   *)
(* so is the nonce of its authorization (both are fresh random values).    *)
(***************************************************************************)
EXTENDS Naturals, Sequences

CONSTANTS
  Sisters,       \* the members of the Network
  JobIds,        \* the job ids submissions may draw
  Tasks,         \* concurrent inbound handler tasks of one Sister
  Insecure,      \* Sisters started with --insecure-development
  NoAuth,        \* authorization = None
  CompatVia,     \* may a Job reach a Sister that is not its executor?
  MaxQueue,      \* bound: a Job is received only below this queue length
  MaxFaults      \* bound: crashes and aborted handlers, together

ASSUME JobsAssumption ==
  /\ Insecure \subseteq Sisters
  /\ NoAuth \notin Sisters
  /\ CompatVia \in BOOLEAN
  /\ MaxQueue \in Nat
  /\ MaxFaults \in Nat

VARIABLES
  jobMsgs,   \* Job envelopes sent so far
  resMsgs,   \* JobResponse envelopes sent so far
  reqMsgs,   \* JobRequest envelopes sent so far, <<from, to>>
  queue,     \* queue[s]: JobQueue
  jobs,      \* jobs[s][j]: the status in the metadata map, "none" if absent
  pending,   \* pending[s]: job ids with a result sender in the waiter map
  task,      \* task[s][t]: an inbound handler between two of its awaits
  exec,      \* exec[s]: the executor loop
  nonces,    \* nonces[s]: used-command-nonces.json (durable)
  torn,      \* torn[s]: that file no longer parses (durable)
  expired,   \* jobs whose authorization window has passed
  sub,       \* sub[j]: where the submission future of j stands
  call,      \* call[j]: the Job envelope that submission built
  value,     \* jobs whose oneshot channel holds a result
  starts,    \* history: how often s started j (2 stands for "more than once")
  finished,  \* history: <<s, j>> such that s ran j to its end
  faults    \* number of faults so far

netVars == <<jobMsgs, resMsgs, reqMsgs>>
durable == <<nonces, torn>>
waiting == <<pending, sub, call, value>>
history == <<starts, finished>>
vars == <<netVars, queue, jobs, task, exec, durable, expired, waiting, history,
          faults>>

-----------------------------------------------------------------------------
(* Data *)

Status == {"none", "Queued", "Running", "Transferred", "Completed", "Failed"}

\* LocalJob: what a queued job keeps of the JobData it came from.
LocalJob == [id : JobIds, creator : Sisters, auth : Sisters \cup {NoAuth}]

\* A Job envelope.  auth is the Sister the authorization names as its target.
JobData == [from : Sisters, to : Sisters, executor : Sisters, job : LocalJob]

JobResultData == [from : Sisters, to : Sisters, id : JobIds, creator : Sisters]

Idle == [pc |-> "idle"]

\* An inbound handler: peer is the Sister it forwards or hands its job to.
TaskRecord ==
  [pc : {"forward", "record", "enqueue", "handing", "mark", "return"},
   job : LocalJob, peer : Sisters]

ExecRecord == [pc : {"popped", "running", "respond"}, job : LocalJob]

SubPc == {"idle", "sending", "waiting", "inline", "ok", "enqueued", "error",
          "timeout", "dropped"}

NoCall == [to |-> NoAuth]

TypeOK ==
  /\ jobMsgs \subseteq JobData
  /\ resMsgs \subseteq JobResultData
  /\ reqMsgs \subseteq Sisters \X Sisters
  /\ queue \in [Sisters -> Seq(LocalJob)]
  /\ jobs \in [Sisters -> [JobIds -> Status]]
  /\ pending \in [Sisters -> SUBSET JobIds]
  /\ task \in [Sisters -> [Tasks -> TaskRecord \cup {Idle}]]
  /\ exec \in [Sisters -> ExecRecord \cup {Idle}]
  /\ nonces \in [Sisters -> SUBSET JobIds]
  /\ torn \in [Sisters -> BOOLEAN]
  /\ expired \subseteq JobIds
  /\ sub \in [JobIds -> SubPc]
  /\ call \in [JobIds -> JobData \cup {NoCall}]
  /\ value \subseteq JobIds
  /\ starts \in [Sisters -> [JobIds -> 0..2]]
  /\ finished \subseteq Sisters \X JobIds
  /\ faults \in Nat

Init ==
  /\ jobMsgs = {}
  /\ resMsgs = {}
  /\ reqMsgs = {}
  /\ queue = [s \in Sisters |-> <<>>]
  /\ jobs = [s \in Sisters |-> [j \in JobIds |-> "none"]]
  /\ pending = [s \in Sisters |-> {}]
  /\ task = [s \in Sisters |-> [t \in Tasks |-> Idle]]
  /\ exec = [s \in Sisters |-> Idle]
  /\ nonces = [s \in Sisters |-> {}]
  /\ torn = [s \in Sisters |-> FALSE]
  /\ expired = {}
  /\ sub = [j \in JobIds |-> "idle"]
  /\ call = [j \in JobIds |-> NoCall]
  /\ value = {}
  /\ starts = [s \in Sisters |-> [j \in JobIds |-> 0]]
  /\ finished = {}
  /\ faults = 0

-----------------------------------------------------------------------------
(* JobManager *)

\* The metadata map is updated only where the job has an entry.
Mark(s, j, status) ==
  jobs' = [jobs EXCEPT ![s][j] = IF @ = "none" THEN @ ELSE status]

\* Metadata and queue membership change together; an old entry is overwritten.
Enqueue(s, job) ==
  /\ jobs' = [jobs EXCEPT ![s][job.id] = "Queued"]
  /\ queue' = [queue EXCEPT ![s] = Append(@, job)]

\* VecDeque::remove: the other entries keep their order.
Without(q, i) == SubSeq(q, 1, i - 1) \o SubSeq(q, i + 1, Len(q))

PushBack(s, job) == queue' = [queue EXCEPT ![s] = Append(@, job)]

IsBusy(s) ==
  \/ queue[s] # <<>>
  \/ \E j \in JobIds : jobs[s][j] \in {"Queued", "Running"}

\* Mutant: the authorization's target is not compared with the requester.
JobTransferableAny(s, job, requester) ==
  IF job.auth = NoAuth THEN s \in Insecure ELSE TRUE

\* An authorized job may only go to the Sister its authorization names, an
\* unauthorized one only in development mode.
JobTransferable(s, job, requester) ==
  IF job.auth = NoAuth THEN s \in Insecure ELSE job.auth = requester

-----------------------------------------------------------------------------
(* Submission: submit_job_remote and submit_to_sister_authorized *)

\* With valid human material the authorization names the executor; without any
\* there is none.  Partial, invalid or revoked material is an early error.
SubmitAuthorization(e) == {e, NoAuth}

\* The future has reserved the waiter and built the envelope, which goes to the
\* executor itself unless CompatVia.
SubmitReserve(j, c, e, via, auth) ==
  /\ sub[j] = "idle"
  /\ e # c
  /\ via # c
  /\ via = e \/ CompatVia
  /\ auth \in SubmitAuthorization(e)
  /\ sub' = [sub EXCEPT ![j] = "sending"]
  /\ call' = [call EXCEPT ![j] =
       [from |-> c, to |-> via, executor |-> e,
        job |-> [id |-> j, creator |-> c, auth |-> auth]]]
  /\ pending' = [pending EXCEPT ![c] = @ \cup {j}]
  /\ UNCHANGED <<netVars, queue, jobs, task, exec, durable, expired, value,
                 history, faults>>

\* The bytes leave while the send is still in progress.
SubmitTransmit(j) ==
  /\ sub[j] = "sending"
  /\ call[j] \notin jobMsgs
  /\ jobMsgs' = jobMsgs \cup {call[j]}
  /\ UNCHANGED <<resMsgs, reqMsgs, queue, jobs, task, exec, durable, expired,
                 waiting, history, faults>>

SubmitSent(j) ==
  /\ sub[j] = "sending"
  /\ call[j] \in jobMsgs
  /\ sub' = [sub EXCEPT ![j] = "waiting"]
  /\ UNCHANGED <<netVars, queue, jobs, task, exec, durable, expired, pending,
                 call, value, history, faults>>

\* The send reports an error, whether or not the envelope went out.
SubmitSendFails(j) ==
  /\ sub[j] = "sending"
  /\ sub' = [sub EXCEPT ![j] = "error"]
  /\ pending' = [pending EXCEPT ![call[j].from] = @ \ {j}]
  /\ UNCHANGED <<netVars, queue, jobs, task, exec, durable, expired, call,
                 value, history, faults>>

\* tokio's timeout polls the receiver before the deadline.
SubmitResult(j) ==
  /\ sub[j] = "waiting"
  /\ j \in value
  /\ sub' = [sub EXCEPT ![j] = "ok"]
  /\ UNCHANGED <<netVars, queue, jobs, task, exec, durable, expired, pending,
                 call, value, history, faults>>


SubmitTimeout(j) ==
  /\ sub[j] = "waiting"
  /\ j \notin value
  /\ sub' = [sub EXCEPT ![j] = "timeout"]
  /\ pending' = [pending EXCEPT ![call[j].from] = @ \ {j}]
  /\ UNCHANGED <<netVars, queue, jobs, task, exec, durable, expired, call,
                 value, history, faults>>

\* The loopback API drops the future when its client goes away.  Nothing is
\* cleaned up: a reserved waiter stays, an inline job stays Running.
SubmitDropped(j) ==
  /\ sub[j] \in {"sending", "waiting", "inline"}
  /\ sub' = [sub EXCEPT ![j] = "dropped"]
  /\ UNCHANGED <<netVars, queue, jobs, task, exec, durable, expired, pending,
                 call, value, history, faults>>

\* executor == creator: the job runs inline, outside the queue.
SubmitInline(j, c) ==
  /\ sub[j] = "idle"
  /\ sub' = [sub EXCEPT ![j] = "inline"]
  /\ call' = [call EXCEPT ![j] =
       [from |-> c, to |-> c, executor |-> c,
        job |-> [id |-> j, creator |-> c, auth |-> NoAuth]]]
  /\ jobs' = [jobs EXCEPT ![c][j] = "Running"]
  /\ starts' = [starts EXCEPT ![c][j] = 1]
  /\ UNCHANGED <<netVars, queue, task, exec, durable, expired, pending, value,
                 finished, faults>>

InlineFinished(j) ==
  LET c == call[j].from IN
  /\ sub[j] = "inline"
  /\ sub' = [sub EXCEPT ![j] = "ok"]
  /\ \/ Mark(c, j, "Completed")
     \/ Mark(c, j, "Failed")
  /\ finished' = finished \cup {<<c, j>>}
  /\ UNCHANGED <<netVars, queue, task, exec, durable, expired, pending, call,
                 value, starts, faults>>

\* submit_local: into the own queue, no waiter.
SubmitLocal(j, c) ==
  /\ sub[j] = "idle"
  /\ Len(queue[c]) < MaxQueue
  /\ sub' = [sub EXCEPT ![j] = "enqueued"]
  /\ Enqueue(c, [id |-> j, creator |-> c, auth |-> NoAuth])
  /\ UNCHANGED <<netVars, task, exec, durable, expired, pending, call, value,
                 history, faults>>

-----------------------------------------------------------------------------
(* Inbound handlers *)

\* Mutant: verified for the declared executor although the job is kept here.
HandleJobWrongTarget(s, t, m, known) ==
  LET forward == m.executor # s /\ known IN
  /\ task[s][t] = Idle
  /\ m.to = s
  /\ Len(queue[s]) < MaxQueue
  /\ IF m.job.auth = NoAuth
     THEN s \in Insecure
     ELSE m.job.auth = m.executor /\ m.job.id \notin expired
  /\ task' = [task EXCEPT ![s][t] =
       [pc   |-> IF forward THEN "forward"
                 ELSE IF m.job.auth = NoAuth THEN "enqueue" ELSE "record",
        job  |-> m.job,
        peer |-> m.executor]]
  /\ UNCHANGED <<netVars, queue, jobs, exec, durable, expired, waiting, history,
                 faults>>

\* Up to the nonce lock of the Job arm.  known is what the peer table said of
\* the declared executor; signature, network, role, constraints and revocation
\* either pass or the envelope is rejected.
HandleJob(s, t, m, known) ==
  LET forward == m.executor # s /\ known
      target  == IF forward THEN m.executor ELSE s
  IN
  /\ task[s][t] = Idle
  /\ m.to = s
  /\ Len(queue[s]) < MaxQueue
  /\ IF m.job.auth = NoAuth
     THEN s \in Insecure
     ELSE m.job.auth = target /\ m.job.id \notin expired
  /\ task' = [task EXCEPT ![s][t] =
       [pc   |-> IF forward THEN "forward"
                 ELSE IF m.job.auth = NoAuth THEN "enqueue" ELSE "record",
        job  |-> m.job,
        peer |-> m.executor]]
  /\ UNCHANGED <<netVars, queue, jobs, exec, durable, expired, waiting, history,
                 faults>>

\* Mutant: no replay test.
RecordNonceReplay(s, t) ==
  /\ task[s][t].pc = "record"
  /\ ~torn[s]
  /\ nonces' = [nonces EXCEPT ![s] = (@ \ expired) \cup {task[s][t].job.id}]
  /\ task' = [task EXCEPT ![s][t].pc = "enqueue"]
  /\ UNCHANGED <<netVars, queue, jobs, exec, torn, expired, waiting, history,
                 faults>>

\* Mutant: the nonce is tested but not written.
RecordNonceUnsaved(s, t) ==
  /\ task[s][t].pc = "record"
  /\ ~torn[s]
  /\ task[s][t].job.id \notin nonces[s] \ expired
  /\ nonces' = [nonces EXCEPT ![s] = @ \ expired]
  /\ task' = [task EXCEPT ![s][t].pc = "enqueue"]
  /\ UNCHANGED <<netVars, queue, jobs, exec, torn, expired, waiting, history,
                 faults>>

\* AuthorizationNonceStore::record under the nonce lock, with a clock read of
\* its own: entries expired by now are dropped before the replay test.
RecordNonce(s, t) ==
  LET j    == task[s][t].job.id
      kept == nonces[s] \ expired
  IN
  /\ task[s][t].pc = "record"
  /\ ~torn[s]
  /\ j \notin kept
  /\ nonces' = [nonces EXCEPT ![s] = kept \cup {j}]
  /\ task' = [task EXCEPT ![s][t].pc = "enqueue"]
  /\ UNCHANGED <<netVars, queue, jobs, exec, torn, expired, waiting, history,
                 faults>>

\* Replay, an unreadable file or an I/O error: the handler fails and the job is
\* not queued.  A failed write may leave the file torn.
RecordFails(s, t) ==
  /\ task[s][t].pc = "record"
  /\ \/ torn' = torn
     \/ /\ ~torn[s]
        /\ task[s][t].job.id \notin nonces[s] \ expired
        /\ torn' = [torn EXCEPT ![s] = TRUE]
  /\ task' = [task EXCEPT ![s][t] = Idle]
  /\ UNCHANGED <<netVars, queue, jobs, exec, nonces, expired, waiting, history,
                 faults>>

HandlerEnqueue(s, t) ==
  /\ task[s][t].pc = "enqueue"
  /\ Enqueue(s, task[s][t].job)
  /\ task' = [task EXCEPT ![s][t] = Idle]
  /\ UNCHANGED <<netVars, exec, durable, expired, waiting, history, faults>>

\* A failed forward only ends the handler with an error.
Forward(s, t) ==
  /\ task[s][t].pc = "forward"
  /\ \/ jobMsgs' = jobMsgs
     \/ jobMsgs' = jobMsgs \cup
          {[from |-> s, to |-> task[s][t].peer, executor |-> task[s][t].peer,
            job |-> task[s][t].job]}
  /\ task' = [task EXCEPT ![s][t] = Idle]
  /\ UNCHANGED <<resMsgs, reqMsgs, queue, jobs, exec, durable, expired, waiting,
                 history, faults>>

\* JobRequest: the first transferable job leaves the queue.  With nothing to
\* give the handler at most answers Ack, which no Sister acts on.
HandleJobRequest(s, t, requester, known) ==
  /\ task[s][t] = Idle
  /\ <<requester, s>> \in reqMsgs
  /\ \E i \in 1..Len(queue[s]) :
       /\ JobTransferable(s, queue[s][i], requester)
       /\ \A k \in 1..(i - 1) : ~JobTransferable(s, queue[s][k], requester)
       /\ queue' = [queue EXCEPT ![s] = Without(@, i)]
       /\ task' = [task EXCEPT ![s][t] =
            [pc   |-> IF known THEN "handing" ELSE "return",
             job  |-> queue[s][i],
             peer |-> requester]]
  /\ UNCHANGED <<netVars, jobs, exec, durable, expired, waiting, history,
                 faults>>

HandOver(s, t) ==
  /\ task[s][t].pc = "handing"
  /\ \/ /\ jobMsgs' = jobMsgs \cup
             {[from |-> s, to |-> task[s][t].peer, executor |-> task[s][t].peer,
               job |-> task[s][t].job]}
        /\ \E outcome \in {"mark", "return"} :
             task' = [task EXCEPT ![s][t].pc = outcome]
     \/ /\ jobMsgs' = jobMsgs
        /\ task' = [task EXCEPT ![s][t].pc = "return"]
  /\ UNCHANGED <<resMsgs, reqMsgs, queue, jobs, exec, durable, expired, waiting,
                 history, faults>>

MarkTransferred(s, t) ==
  /\ task[s][t].pc = "mark"
  /\ Mark(s, task[s][t].job.id, "Transferred")
  /\ task' = [task EXCEPT ![s][t] = Idle]
  /\ UNCHANGED <<netVars, queue, exec, durable, expired, waiting, history,
                 faults>>

\* Mutant: the job that could not be handed over is dropped.
ReturnJobDrops(s, t) ==
  /\ task[s][t].pc = "return"
  /\ task' = [task EXCEPT ![s][t] = Idle]
  /\ UNCHANGED <<netVars, queue, jobs, exec, durable, expired, waiting, history,
                 faults>>

ReturnJob(s, t) ==
  /\ task[s][t].pc = "return"
  /\ PushBack(s, task[s][t].job)
  /\ task' = [task EXCEPT ![s][t] = Idle]
  /\ UNCHANGED <<netVars, jobs, exec, durable, expired, waiting, history,
                 faults>>

\* Mutant: a response that overtakes the end of the send is dropped.
HandleJobResponseEarly(s, m) ==
  /\ m \in resMsgs
  /\ m.to = s
  /\ m.creator = s
  /\ m.id \in pending[s]
  /\ pending' = [pending EXCEPT ![s] = @ \ {m.id}]
  /\ value' = IF sub[m.id] = "waiting" THEN value \cup {m.id} ELSE value
  /\ UNCHANGED <<netVars, queue, jobs, task, exec, durable, expired, sub, call,
                 history, faults>>

\* A waiter is resolved at most once; the value is dropped when the submission
\* future no longer listens.
HandleJobResponse(s, m) ==
  /\ m \in resMsgs
  /\ m.to = s
  /\ m.creator = s
  /\ m.id \in pending[s]
  /\ pending' = [pending EXCEPT ![s] = @ \ {m.id}]
  /\ value' = IF sub[m.id] \in {"sending", "waiting"}
              THEN value \cup {m.id} ELSE value
  /\ UNCHANGED <<netVars, queue, jobs, task, exec, durable, expired, sub, call,
                 history, faults>>

-----------------------------------------------------------------------------
(* The executor loop and work stealing *)

ExecutorPop(s) ==
  /\ exec[s] = Idle
  /\ queue[s] # <<>>
  /\ exec' = [exec EXCEPT ![s] = [pc |-> "popped", job |-> Head(queue[s])]]
  /\ queue' = [queue EXCEPT ![s] = Tail(@)]
  /\ UNCHANGED <<netVars, jobs, task, durable, expired, waiting, history,
                 faults>>

ExecutorStart(s) ==
  /\ exec[s].pc = "popped"
  /\ Mark(s, exec[s].job.id, "Running")
  /\ starts' = [starts EXCEPT ![s][exec[s].job.id] = IF @ = 0 THEN 1 ELSE 2]
  /\ exec' = [exec EXCEPT ![s].pc = "running"]
  /\ UNCHANGED <<netVars, queue, task, durable, expired, waiting, finished,
                 faults>>

ExecutorFinish(s) ==
  /\ exec[s].pc = "running"
  /\ \/ Mark(s, exec[s].job.id, "Completed")
     \/ Mark(s, exec[s].job.id, "Failed")
  /\ finished' = finished \cup {<<s, exec[s].job.id>>}
  /\ exec' = IF exec[s].job.creator = s
             THEN [exec EXCEPT ![s] = Idle]
             ELSE [exec EXCEPT ![s].pc = "respond"]
  /\ UNCHANGED <<netVars, queue, task, durable, expired, waiting, starts,
                 faults>>

\* Mutant: the response leaves before the command has ended.
ExecutorRespondEarly(s) ==
  /\ exec[s].pc \in {"running", "respond"}
  /\ resMsgs' = resMsgs \cup
       {[from |-> s, to |-> exec[s].job.creator, id |-> exec[s].job.id,
         creator |-> exec[s].job.creator]}
  /\ exec' = [exec EXCEPT ![s] = Idle]
  /\ UNCHANGED <<jobMsgs, reqMsgs, queue, jobs, task, durable, expired, waiting,
                 history, faults>>

\* A result that cannot be delivered is only logged.
ExecutorRespond(s) ==
  /\ exec[s].pc = "respond"
  /\ \/ resMsgs' = resMsgs
     \/ resMsgs' = resMsgs \cup
          {[from |-> s, to |-> exec[s].job.creator, id |-> exec[s].job.id,
            creator |-> exec[s].job.creator]}
  /\ exec' = [exec EXCEPT ![s] = Idle]
  /\ UNCHANGED <<jobMsgs, reqMsgs, queue, jobs, task, durable, expired, waiting,
                 history, faults>>

\* The load of p is what its last State broadcast said, so it may be stale.
StealTick(s, p) ==
  /\ p # s
  /\ ~IsBusy(s)
  /\ <<s, p>> \notin reqMsgs
  /\ reqMsgs' = reqMsgs \cup {<<s, p>>}
  /\ UNCHANGED <<jobMsgs, resMsgs, queue, jobs, task, exec, durable, expired,
                 waiting, history, faults>>

-----------------------------------------------------------------------------
(* Environment: time, aborted handlers and crashes *)

Expire(j) ==
  /\ call[j] # NoCall
  /\ j \notin expired
  /\ expired' = expired \cup {j}
  /\ UNCHANGED <<netVars, queue, jobs, task, exec, durable, waiting, history,
                 faults>>

\* The session a handler runs on ends (it was idle, lost or shut down) and the
\* handler's task is aborted at its await; push_back follows without one.
AbortHandler(s, t) ==
  /\ task[s][t] # Idle
  /\ task[s][t].pc # "return"
  /\ faults < MaxFaults
  /\ faults' = faults + 1
  /\ task' = [task EXCEPT ![s][t] = Idle]
  /\ UNCHANGED <<netVars, queue, jobs, exec, durable, expired, waiting, history>>

\* A Sister dies and restarts: memory is gone, the nonce file stays.  The file
\* is written in place, so dying while a handler records tears it.
Crash(s) ==
  /\ faults < MaxFaults
  /\ faults' = faults + 1
  /\ queue' = [queue EXCEPT ![s] = <<>>]
  /\ jobs' = [jobs EXCEPT ![s] = [j \in JobIds |-> "none"]]
  /\ pending' = [pending EXCEPT ![s] = {}]
  /\ task' = [task EXCEPT ![s] = [t \in Tasks |-> Idle]]
  /\ exec' = [exec EXCEPT ![s] = Idle]
  /\ sub' = [j \in JobIds |->
       IF sub[j] \in {"sending", "waiting", "inline"} /\ call[j].from = s
       THEN "dropped" ELSE sub[j]]
  /\ \/ torn' = torn
     \/ /\ \E t \in Tasks : task[s][t].pc = "record"
        /\ torn' = [torn EXCEPT ![s] = TRUE]
  /\ UNCHANGED <<netVars, nonces, expired, call, value, history>>

-----------------------------------------------------------------------------
(* Specification *)

Submission(j) ==
  \/ SubmitTransmit(j)
  \/ SubmitSent(j)
  \/ SubmitSendFails(j)
  \/ SubmitResult(j)
  \/ SubmitTimeout(j)

Handler(s, t) ==
  \/ RecordNonce(s, t)
  \/ RecordFails(s, t)
  \/ HandlerEnqueue(s, t)
  \/ Forward(s, t)
  \/ HandOver(s, t)
  \/ MarkTransferred(s, t)
  \/ ReturnJob(s, t)

Executor(s) ==
  \/ ExecutorPop(s)
  \/ ExecutorStart(s)
  \/ ExecutorFinish(s)
  \/ ExecutorRespond(s)

Next ==
  \/ \E j \in JobIds, c, e, via \in Sisters, auth \in Sisters \cup {NoAuth} :
       SubmitReserve(j, c, e, via, auth)
  \/ \E j \in JobIds, c \in Sisters : SubmitInline(j, c) \/ SubmitLocal(j, c)
  \/ \E j \in JobIds : Submission(j) \/ SubmitDropped(j) \/ InlineFinished(j)
  \/ \E s \in Sisters, t \in Tasks, m \in jobMsgs, known \in BOOLEAN :
       HandleJob(s, t, m, known)
  \/ \E s, r \in Sisters, t \in Tasks, known \in BOOLEAN :
       HandleJobRequest(s, t, r, known)
  \/ \E s \in Sisters, t \in Tasks : Handler(s, t) \/ AbortHandler(s, t)
  \/ \E s \in Sisters, m \in resMsgs : HandleJobResponse(s, m)
  \/ \E s \in Sisters : Executor(s) \/ Crash(s)
  \/ \E s, p \in Sisters : StealTick(s, p)
  \/ \E j \in JobIds : Expire(j)

Spec == Init /\ [][Next]_vars

-----------------------------------------------------------------------------
(* Safety *)

Authorized(j) == call[j] # NoCall /\ call[j].job.auth # NoAuth

\* Jobs s has taken responsibility for: queued, in the hands of a handler that
\* is about to queue, hand over or return them, or in the executor.
Held(s) ==
  {queue[s][i] : i \in 1..Len(queue[s])}
  \cup {task[s][t].job : t \in {u \in Tasks :
          task[s][u].pc \in {"enqueue", "handing", "mark", "return"}}}
  \cup (IF exec[s] = Idle THEN {} ELSE {exec[s].job})

\* A Sister only ever holds an authorized job whose authorization names it, and
\* a job without authorization only if it created the job or was started in
\* development mode, whatever was forwarded, stolen or redelivered.
OnlyTargetRuns ==
  \A s \in Sisters : \A job \in Held(s) :
    IF job.auth = NoAuth THEN s \in Insecure \/ job.creator = s
                         ELSE job.auth = s

\* "A Job authorized to Sister A is NOT stealable by Sister B": no steal request
\* ever takes an authorized job off a queue.
AuthorizedNotStolen ==
  \A s \in Sisters, t \in Tasks :
    task[s][t].pc \in {"handing", "mark", "return"} => task[s][t].job.auth = NoAuth

\* The nonce of an authorized job is on disk before the job is queued (unless
\* it has been compacted after expiry), so that a crash cannot forget it.
NonceBeforeQueue ==
  \A s \in Sisters : \A job \in Held(s) :
    job.auth # NoAuth => job.id \in nonces[s] \cup expired

\* While its authorization is valid, an authorized job is started at most once
\* in the whole Network, across redelivery, forwarding, stealing and restarts.
AtMostOnceWhileValid ==
  \A j \in JobIds :
    (Authorized(j) /\ j \notin expired) =>
      \A s, p \in Sisters :
        /\ starts[s][j] <= 1
        /\ (starts[s][j] = 1 /\ starts[p][j] = 1) => s = p

\* A submission that reports a result has one: some Sister ran the command to
\* its end.
ResultIsGenuine ==
  \A j \in JobIds : sub[j] = "ok" => \E s \in Sisters : <<s, j>> \in finished

\* A submission that still waits can still be resolved: either the channel
\* holds its value or its sender is in the creator's waiter map.
WaiterReachable ==
  \A j \in JobIds : sub[j] \in {"sending", "waiting"} =>
    j \in value \/ j \in pending[call[j].from]

\* A finished authorized job stays finished: no late mark_transferred, no second
\* enqueue rewrites its status (a crash forgets it).
FinalStatusStable ==
  [][\A s \in Sisters, j \in JobIds :
       (jobs[s][j] \in {"Completed", "Failed"} /\ Authorized(j) /\ j \notin expired)
         => jobs'[s][j] \in {jobs[s][j], "none"}]_vars

-----------------------------------------------------------------------------
(* Liveness *)

\* The result timeout is a timer; handlers and the executor are tasks the
\* runtime keeps polling.  Commands and sends are assumed to end.  The executor
\* polls the queue at a fixed interval and so meets a job that is there again
\* and again, although a steal request may keep taking it and failing.
Fairness ==
  /\ \A j \in JobIds : WF_vars(SubmitResult(j) \/ SubmitTimeout(j))
  /\ \A s \in Sisters :
       /\ SF_vars(ExecutorPop(s))
       /\ WF_vars(ExecutorStart(s) \/ ExecutorFinish(s) \/ ExecutorRespond(s))
       /\ \A t \in Tasks : WF_vars(Handler(s, t))

LiveSpec == Spec /\ Fairness


\* Where no handler is aborted, a queued job does not stay queued: it is started
\* or given away, even while steal requests keep taking and returning it.
QueuedMovesOn ==
  \A s \in Sisters, j \in JobIds :
    (jobs[s][j] = "Queued") ~> (jobs[s][j] # "Queued")

=============================================================================
