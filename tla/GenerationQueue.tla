--------------------------- MODULE GenerationQueue ---------------------------
(***************************************************************************)
(* The Redis job queue between the control-api and the ai-worker: requests  *)
(* mark an issue, a plan or a source and push a job, the poll loop of the   *)
(* worker moves jobs onto a processing list and starts an asyncio task for  *)
(* each, the task checks that it is still wanted, runs the model and        *)
(* stores the result, and its finalizer takes the job off the list.  A plan *)
(* makes issues and pushes their jobs.  The worker may stop at any time and *)
(* requeues its processing list when it starts again.                      *)
(*                                                                         *)
(* There is one worker process (docker-compose names its container).  All   *)
(* issues belong to the series of Plan.  gen numbers the requests for a     *)
(* target; the code has no such number, it only tells the model which job   *)
(* belongs to which request.                                               *)
(***************************************************************************)
EXTENDS Naturals, Sequences

CONSTANTS
  Issues,      \* rows of the issues table, created or not
  Sources,     \* rows of the sources table
  Plan,        \* the plan of the series
  Slots,       \* bound: asyncio tasks at a time
  NoSlot,      \* no task
  Requests,    \* requests of the control-api in progress at a time
  Operations,  \* the requests the environment makes
  Tiers,       \* of the requested models: TRUE is a free-tier model
  MaxGen,      \* bound: requests per target
  Faults,      \* the kinds of fault that may happen
  MaxFaults    \* bound: faults in a behaviour

Targets == Issues \union Sources \union {Plan}
FaultKinds == {"redis", "db", "crash", "backlog"}
OperationKinds == {"issue", "plan", "source", "cancel"}

ASSUME QueueAssumption ==
  /\ Issues \intersect Sources = {} /\ Plan \notin Issues \union Sources
  /\ Slots # {} /\ NoSlot \notin Slots
  /\ Operations \subseteq OperationKinds
  /\ Tiers \subseteq BOOLEAN
  /\ MaxGen \in Nat \ {0}
  /\ Faults \subseteq FaultKinds
  /\ MaxFaults \in Nat

VARIABLES
  status,      \* of each target; an ingestion in progress is "generating" too
  content,     \* issues whose content_json is not empty
  gen,         \* requests made so far for each target
  lost,        \* targets whose last job a failure lost, or left behind
  queue,       \* the list generation_queue
  processing,  \* the list generation_queue:processing, as a set
  loop,        \* the poll loop of the worker
  task,        \* its asyncio tasks
  llm,         \* _llm_task
  running,     \* _running_jobs
  signals,     \* cancel messages published and not yet received
  req,         \* the requests in progress
  faults

workerVars == <<loop, task, llm, running, signals>>
listVars == <<queue, processing>>
rowVars == <<status, content, gen>>
vars == <<rowVars, lost, listVars, workerVars, req, faults>>

Job == [target: Targets, gen: 1..MaxGen, free: BOOLEAN]
NoJob == [target |-> Plan, gen |-> 1, free |-> FALSE]

LoopStages == {"down", "recover", "poll", "took", "batch", "unack", "repush"}
BatchExtras == 4
Loop == [stage: LoopStages, job: Job, left: 0..BatchExtras]

TaskStages == {"idle", "preflight", "model", "persist", "outline", "commit",
               "push", "done"}
Task == [stage: TaskStages, job: Job, ok: BOOLEAN, missing: SUBSET Issues, todo: SUBSET Job]
IdleTask == [stage |-> "idle", job |-> NoJob, ok |-> FALSE, missing |-> {}, todo |-> {}]

RequestStages == {"idle", "mark", "enqueue", "enqueuePlan", "markPlan",
                  "restore", "publish"}
Request == [stage: RequestStages, job: Job, content: BOOLEAN]
NoRequest == [stage |-> "idle", job |-> NoJob, content |-> FALSE]

Fault(kind) == kind \in Faults /\ faults < MaxFaults /\ faults' = faults + 1
NoFault == faults' = faults

Generation(job) == job.target \notin Sources
IssueJob(job) == job.target \in Issues
Jobs(list) == {list[i] : i \in 1..Len(list)}

InStage(k, stage) == task[k].stage = stage
Idle(k) == InStage(k, "idle")
CurrentJob(t, job) == job.target = t /\ job.gen = gen[t]

-----------------------------------------------------------------------------
(* The poll loop.                                                          *)

LoopAt(stage) == [stage |-> stage, job |-> NoJob, left |-> 0]
loopTo(stage) == loop' = LoopAt(stage)
loopHolds(stage, job) == loop' = [LoopAt(stage) EXCEPT !.job = job]

startWorker ==
  /\ loop.stage = "down"
  /\ loopTo("recover")
  /\ NoFault
  /\ UNCHANGED <<rowVars, lost, listVars, task, llm, running, signals, req>>

(* Mutant: the list is recovered while tasks are running.                  *)
recoverAnytime ==
  /\ loop.stage \in {"recover", "poll"}
  /\ \/ \E job \in processing :
          /\ processing' = processing \ {job}
          /\ queue' = <<job>> \o queue
          /\ UNCHANGED loop
     \/ processing = {} /\ loopTo("poll") /\ UNCHANGED listVars
  /\ NoFault
  /\ UNCHANGED <<rowVars, lost, task, llm, running, signals, req>>

(* Mutant: nothing is recovered.                                           *)
recoverNothing ==
  /\ loop.stage = "recover"
  /\ loopTo("poll")
  /\ NoFault
  /\ UNCHANGED <<rowVars, lost, listVars, task, llm, running, signals, req>>

(* The order of the processing list is left open.                          *)
recoverProcessingQueue ==
  /\ loop.stage = "recover"
  /\ \/ \E job \in processing :
          /\ processing' = processing \ {job}
          /\ queue' = <<job>> \o queue
          /\ UNCHANGED loop
     \/ processing = {} /\ loopTo("poll") /\ UNCHANGED listVars
  /\ NoFault
  /\ UNCHANGED <<rowVars, lost, task, llm, running, signals, req>>

(* BLMOVE and LMOVE take the oldest job.                                   *)
MoveHead == /\ queue # <<>>
            /\ processing' = processing \union {Head(queue)}
            /\ queue' = Tail(queue)

takeJob ==
  /\ loop.stage = "poll"
  /\ MoveHead
  /\ loopHolds("took", Head(queue))
  /\ NoFault
  /\ UNCHANGED <<rowVars, lost, task, llm, running, signals, req>>

(* A new task replaces _llm_task and the entry of its target, whatever they *)
(* point at.  Its slot is only a name of the task.                         *)
dispatch(job) ==
  \E k \in Slots :
    /\ Idle(k)
    /\ task' = [task EXCEPT ![k] = [IdleTask EXCEPT !.stage = "preflight", !.job = job]]
    /\ llm' = IF Generation(job) THEN k ELSE llm
    /\ running' = IF Generation(job) THEN [running EXCEPT ![job.target] = k] ELSE running

MustWait(job) == Generation(job) /\ job.free /\ llm # NoSlot

Batchable(job, first) ==
  IF Generation(first) THEN IssueJob(job) /\ ~job.free ELSE ~Generation(job)

(* One free-tier call at a time: a free job waits at the head of the queue  *)
(* while a generation runs.  Paid issue jobs and ingestions are batched.   *)
dispatchJob ==
  /\ loop.stage = "took"
  /\ \/ /\ MustWait(loop.job)
        /\ loopHolds("unack", loop.job)
        /\ UNCHANGED <<task, llm, running>>
     \/ /\ ~MustWait(loop.job)
        /\ dispatch(loop.job)
        /\ loop' = IF Batchable(loop.job, loop.job)
                   THEN [loop EXCEPT !.stage = "batch", !.left = BatchExtras]
                   ELSE LoopAt("poll")
  /\ NoFault
  /\ UNCHANGED <<rowVars, lost, listVars, signals, req>>

takeExtra ==
  /\ loop.stage = "batch"
  /\ \/ /\ loop.left = 0 \/ queue = <<>>
        /\ loopTo("poll")
        /\ UNCHANGED <<listVars, task, llm, running>>
     \/ /\ loop.left > 0 /\ MoveHead
        /\ \/ /\ Batchable(Head(queue), loop.job)
              /\ dispatch(Head(queue))
              /\ loop' = [loop EXCEPT !.left = @ - 1]
           \/ /\ ~Batchable(Head(queue), loop.job)
              /\ loopHolds("unack", Head(queue))
              /\ UNCHANGED <<task, llm, running>>
  /\ NoFault
  /\ UNCHANGED <<rowVars, lost, signals, req>>

(* A job that is lost leaves its target without one, if it was the last.    *)
Losing(jobs) ==
  lost' = lost \union {t \in Targets : \E job \in jobs : CurrentJob(t, job)}

(* _put_back, in two commands; an error of either ends the poll.  An error  *)
(* of the first leaves the job on the processing list, where only the next *)
(* start of the worker finds it.                                           *)
unackJob ==
  /\ loop.stage = "unack"
  /\ \/ /\ NoFault
        /\ processing' = processing \ {loop.job}
        /\ loopHolds("repush", loop.job)
        /\ UNCHANGED lost
     \/ Fault("redis") /\ loopTo("poll") /\ Losing({loop.job}) /\ UNCHANGED processing
  /\ UNCHANGED <<rowVars, queue, task, llm, running, signals, req>>

(* Mutant: the job is pushed back to the tail of a list nobody reads.      *)
repushNowhere ==
  /\ loop.stage = "repush"
  /\ NoFault /\ loopTo("poll")
  /\ UNCHANGED <<rowVars, lost, listVars, task, llm, running, signals, req>>

repushJob ==
  /\ loop.stage = "repush"
  /\ \/ NoFault /\ queue' = <<loop.job>> \o queue /\ UNCHANGED lost
     \/ Fault("redis") /\ Losing({loop.job}) /\ UNCHANGED queue
  /\ loopTo("poll")
  /\ UNCHANGED <<rowVars, processing, task, llm, running, signals, req>>

-----------------------------------------------------------------------------
(* A task.                                                                 *)

taskTo(k, stage) == task' = [task EXCEPT ![k].stage = stage]

(* The task has ended: its callbacks remove the entry of its target, also   *)
(* when a later task has taken it over.                                    *)
released(k) ==
  /\ llm' = IF llm = k THEN NoSlot ELSE llm
  /\ running' = IF Generation(task[k].job)
                THEN [running EXCEPT ![task[k].job.target] = NoSlot] ELSE running
handlerReturns(k) == taskTo(k, "done") /\ released(k)
handlerGoesOn(k, stage) == taskTo(k, stage) /\ UNCHANGED <<llm, running>>

(* A failure to read the status counts as a failed generation.             *)
preflight(k) ==
  LET t == task[k].job.target
  IN /\ InStage(k, "preflight")
     /\ \/ NoFault /\ t \in Sources /\ handlerGoesOn(k, "model")
        \/ NoFault /\ t \notin Sources /\ status[t] = "generating" /\ handlerGoesOn(k, "model")
        \/ NoFault /\ t \notin Sources /\ status[t] # "generating" /\ handlerReturns(k)
        \/ Fault("db") /\ t \notin Sources /\ handlerGoesOn(k, "persist")
     /\ UNCHANGED <<rowVars, lost, listVars, loop, signals, req>>

(* The workflow or the ingestion succeeds or fails; every exception is      *)
(* turned into a failed result.                                            *)
runModel(k) ==
  /\ InStage(k, "model")
  /\ \E ok \in BOOLEAN :
       task' = [task EXCEPT ![k].stage = "persist", ![k].ok = ok]
  /\ NoFault
  /\ UNCHANGED <<rowVars, lost, listVars, loop, llm, running, signals, req>>

(* An UPDATE that stores the result only while the target is generating,    *)
(* except for a source.  An error of it is logged and the result dropped.  *)
(* The outline of a good plan is stored in any case.                       *)
persistResult(k) ==
  LET job == task[k].job
      t == job.target
      ok == task[k].ok
      wanted == status[t] = "generating" \/ t \in Sources
  IN /\ InStage(k, "persist")
     /\ \/ /\ NoFault
           /\ status' = IF wanted
                        THEN [status EXCEPT ![t] = IF ok THEN "ready" ELSE "failed"]
                        ELSE status
           /\ content' = IF ~wanted \/ t \notin Issues THEN content
                         ELSE IF ok THEN content \union {t} ELSE content \ {t}
           /\ UNCHANGED lost
        \/ Fault("db") /\ Losing({job}) /\ UNCHANGED <<status, content>>
     /\ IF t = Plan /\ ok THEN handlerGoesOn(k, "outline") ELSE handlerReturns(k)
     /\ UNCHANGED <<gen, listVars, loop, signals, req>>

(* _materialize_issues_from_plan: in one transaction the issues are read,   *)
(* and those that are missing, pending or failed by then are set to        *)
(* generating; then their jobs are pushed one by one.  (Issues that have    *)
(* used up MaxGen are passed over: a bound of the model.)                  *)
readOutline(k) ==
  /\ InStage(k, "outline")
  /\ task' = [task EXCEPT ![k].stage = "commit",
                          ![k].missing =
                            {i \in Issues : status[i] \in {"absent", "pending", "failed"}}]
  /\ NoFault
  /\ UNCHANGED <<rowVars, lost, listVars, loop, llm, running, signals, req>>

ChildJob(i, parent) == [target |-> i, gen |-> gen[i] + 1, free |-> parent.free]

commitOutline(k) ==
  LET made == {i \in task[k].missing : gen[i] < MaxGen}
      jobs == {ChildJob(i, task[k].job) : i \in made}
  IN /\ InStage(k, "commit")
     /\ \/ /\ NoFault
           /\ status' = [t \in Targets |-> IF t \in made THEN "generating" ELSE status[t]]
           /\ gen' = [t \in Targets |-> IF t \in made THEN gen[t] + 1 ELSE gen[t]]
           /\ lost' = lost \ made
           /\ task' = [task EXCEPT ![k].stage = "push", ![k].todo = jobs]
           /\ UNCHANGED <<llm, running>>
        \/ Fault("db") /\ handlerReturns(k) /\ UNCHANGED <<status, gen, lost>>
     /\ UNCHANGED <<content, listVars, loop, signals, req>>

pushChild(k) ==
  LET todo == task[k].todo
  IN /\ InStage(k, "push")
     /\ \/ todo = {} /\ NoFault /\ handlerReturns(k) /\ UNCHANGED <<queue, lost>>
        \/ /\ NoFault
           /\ \E job \in todo :
                /\ queue' = Append(queue, job)
                /\ task' = [task EXCEPT ![k].todo = todo \ {job}]
           /\ UNCHANGED <<llm, running, lost>>
        \/ /\ todo # {} /\ Fault("redis") /\ handlerReturns(k)
           /\ Losing(todo)
           /\ UNCHANGED queue
     /\ UNCHANGED <<rowVars, processing, loop, signals, req>>

(* _finalize: the job leaves the processing list.  No exception reaches it, *)
(* so its branches for a retry and a dead letter are left out.             *)
finalize(k) ==
  /\ InStage(k, "done")
  /\ \/ NoFault /\ processing' = processing \ {task[k].job}
     \/ Fault("redis") /\ UNCHANGED processing
  /\ task' = [task EXCEPT ![k] = IdleTask]
  /\ UNCHANGED <<rowVars, lost, queue, loop, llm, running, signals, req>>

(* The jobs of issues that a task has made and not pushed yet. *)
Unpushed(k) == IF InStage(k, "push") THEN task[k].todo ELSE {}

(* A cancel message: the task of the target is cancelled at its next await, *)
(* and its finalizer returns at once, so that its job stays on the list.   *)
receiveCancel(t) ==
  LET k == running[t]
  IN /\ t \in signals
     /\ signals' = signals \ {t}
     /\ IF k = NoSlot
        THEN UNCHANGED <<task, llm, running, lost>>
        ELSE /\ task' = [task EXCEPT ![k] = IdleTask]
             /\ released(k)
             /\ Losing(Unpushed(k))
     /\ NoFault
     /\ UNCHANGED <<rowVars, listVars, loop, req>>

(* The worker stops, killed or told to: either way its tasks are gone and   *)
(* their jobs stay on the processing list.                                 *)
stopWorker ==
  /\ loop.stage # "down"
  /\ Fault("crash")
  /\ loopTo("down")
  /\ task' = [k \in Slots |-> IdleTask]
  /\ llm' = NoSlot
  /\ running' = [t \in Targets |-> NoSlot]
  /\ signals' = {}
  /\ Losing((UNION {Unpushed(k) : k \in Slots})
              \union (IF loop.stage = "repush" THEN {loop.job} ELSE {}))
  /\ UNCHANGED <<rowVars, listVars, req>>

-----------------------------------------------------------------------------
(* The control-api.                                                        *)

At(q, stage) == req[q].stage = stage
ReqTo(q, stage) == req' = [req EXCEPT ![q].stage = stage]
Done(q) == req' = [req EXCEPT ![q] = NoRequest]
Begin(q, op, stage, t, free) ==
  /\ op \in Operations /\ At(q, "idle")
  /\ op = "cancel" \/ gen[t] < MaxGen
  /\ req' = [req EXCEPT ![q] = [stage |-> stage, content |-> t \in content,
                                job |-> [NoJob EXCEPT !.target = t, !.free = free]]]
  /\ NoFault
  /\ UNCHANGED <<rowVars, lost, listVars, workerVars>>

generateIssue(q, t) ==
  /\ t \in Issues /\ status[t] # "generating"
  /\ \E free \in Tiers : Begin(q, "issue", "mark", t, free)

reindexSource(q, t) ==
  /\ t \in Sources
  /\ Begin(q, "source", "mark", t, FALSE)

(* A row is updated, or inserted by createIssue: generating, or pending for *)
(* a source.                                                               *)
markGenerating(q) ==
  LET t == req[q].job.target
  IN /\ At(q, "mark")
     /\ gen[t] < MaxGen
     /\ status' = [status EXCEPT ![t] = "generating"]
     /\ gen' = [gen EXCEPT ![t] = @ + 1]
     /\ lost' = lost \ {t}
     /\ req' = [req EXCEPT ![q].stage = "enqueue", ![q].job.gen = gen[t] + 1]
     /\ NoFault
     /\ UNCHANGED <<content, listVars, workerVars>>

enqueueJob(q) ==
  LET t == req[q].job.target
  IN /\ At(q, "enqueue")
     /\ \/ NoFault /\ queue' = Append(queue, req[q].job) /\ UNCHANGED status
        \/ Fault("redis") /\ status' = [status EXCEPT ![t] = "failed"] /\ UNCHANGED queue
     /\ Done(q)
     /\ UNCHANGED <<content, gen, lost, processing, workerVars>>

(* A plan is marked after its job has been pushed.                         *)
generatePlan(q) ==
  \E free \in Tiers : Begin(q, "plan", "enqueuePlan", Plan, free)

enqueuePlan(q) ==
  /\ At(q, "enqueuePlan")
  /\ gen[Plan] < MaxGen
  /\ \/ /\ NoFault
        /\ queue' = Append(queue, [req[q].job EXCEPT !.gen = gen[Plan] + 1])
        /\ gen' = [gen EXCEPT ![Plan] = @ + 1]
        /\ lost' = lost \ {Plan}
        /\ ReqTo(q, "markPlan")
     \/ Fault("redis") /\ Done(q) /\ UNCHANGED <<queue, gen, lost>>
  /\ UNCHANGED <<status, content, processing, workerVars>>

markPlan(q) ==
  /\ At(q, "markPlan")
  /\ status' = [status EXCEPT ![Plan] = "generating"]
  /\ Done(q)
  /\ NoFault
  /\ UNCHANGED <<content, gen, lost, listVars, workerVars>>

(* cancelIssueGeneration: the status it restores depends on the content it  *)
(* has read.                                                               *)
cancelGeneration(q, t) ==
  /\ t \in Issues /\ status[t] = "generating"
  /\ Begin(q, "cancel", "restore", t, FALSE)

restoreStatus(q) ==
  LET t == req[q].job.target
  IN /\ At(q, "restore")
     /\ status' = [status EXCEPT ![t] = IF req[q].content THEN "ready" ELSE "pending"]
     /\ ReqTo(q, "publish")
     /\ NoFault
     /\ UNCHANGED <<content, gen, lost, listVars, workerVars>>

(* Nobody hears a message while the worker is down or recovers.            *)
publishCancel(q) ==
  /\ At(q, "publish")
  /\ signals' = IF loop.stage \in {"down", "recover"} THEN signals
                ELSE signals \union {req[q].job.target}
  /\ Done(q)
  /\ NoFault
  /\ UNCHANGED <<rowVars, lost, listVars, loop, task, llm, running>>

crashRequest(q) ==
  /\ ~At(q, "idle")
  /\ Fault("crash")
  /\ IF At(q, "enqueue") THEN Losing({req[q].job}) ELSE UNCHANGED lost
  /\ Done(q)
  /\ UNCHANGED <<rowVars, listVars, workerVars>>

-----------------------------------------------------------------------------
(* The job of the current request of t is in the queue or in a task.       *)
Attended(t) ==
  \/ \E job \in Jobs(queue) : CurrentJob(t, job)
  \/ \E k \in Slots : ~Idle(k) /\ CurrentJob(t, task[k].job)
  \/ loop.stage \in {"took", "unack", "repush"} /\ CurrentJob(t, loop.job)
  \/ \E q \in Requests : At(q, "enqueue") /\ CurrentJob(t, req[q].job)
  \/ \E k \in Slots : \E job \in Unpushed(k) : CurrentJob(t, job)

(* The watchdog gives up issues and plans that have been generating for 45  *)
(* minutes.  For a job on its way that is a backlog and counts as a fault.  *)
sweepGenerating(t) ==
  /\ t \notin Sources /\ status[t] = "generating"
  /\ Fault("backlog") \/ (~Attended(t) /\ NoFault)
  /\ status' = [status EXCEPT ![t] = "failed"]
  /\ UNCHANGED <<content, gen, lost, listVars, workerVars, req>>

-----------------------------------------------------------------------------
Init ==
  /\ status = [t \in Targets |-> IF t \in Issues THEN "absent" ELSE "pending"]
  /\ content = {}
  /\ gen = [t \in Targets |-> 0]
  /\ lost = {}
  /\ queue = <<>> /\ processing = {}
  /\ loop = LoopAt("down")
  /\ task = [k \in Slots |-> IdleTask]
  /\ llm = NoSlot
  /\ running = [t \in Targets |-> NoSlot]
  /\ signals = {}
  /\ req = [q \in Requests |-> NoRequest]
  /\ faults = 0

loopStep ==
  \/ startWorker \/ recoverProcessingQueue \/ takeJob \/ dispatchJob
  \/ takeExtra \/ unackJob \/ repushJob

taskStep(k) ==
  \/ preflight(k) \/ runModel(k) \/ persistResult(k)
  \/ readOutline(k) \/ commitOutline(k) \/ pushChild(k) \/ finalize(k)

beginRequest(q) ==
  \/ generatePlan(q)
  \/ \E t \in Targets : generateIssue(q, t) \/ reindexSource(q, t) \/ cancelGeneration(q, t)

requestStep(q) ==
  \/ markGenerating(q) \/ enqueueJob(q)
  \/ enqueuePlan(q) \/ markPlan(q)
  \/ restoreStatus(q) \/ publishCancel(q)

Next ==
  \/ loopStep \/ stopWorker
  \/ \E k \in Slots : taskStep(k)
  \/ \E t \in Targets : receiveCancel(t) \/ sweepGenerating(t)
  \/ \E q \in Requests : beginRequest(q) \/ requestStep(q) \/ crashRequest(q)

Spec == Init /\ [][Next]_vars

(* A worker that stops is started again, its event loop goes on with the    *)
(* poll loop and with every task, requests that have begun are served, and *)
(* the watchdog ticks.                                                     *)
Fairness ==
  /\ WF_vars(loopStep)
  /\ \A k \in Slots : WF_vars(taskStep(k))
  /\ \A q \in Requests : WF_vars(requestStep(q))
  /\ \A t \in Targets : WF_vars(receiveCancel(t)) /\ WF_vars(sweepGenerating(t) /\ NoFault)

FairSpec == Spec /\ Fairness

-----------------------------------------------------------------------------
(* What the variables can hold. *)
TypeOK ==
  /\ status \in [Targets -> {"absent", "pending", "generating", "ready", "failed"}]
  /\ content \subseteq Issues
  /\ gen \in [Targets -> 0..MaxGen]
  /\ lost \subseteq Targets
  /\ queue \in Seq(Job)
  /\ processing \subseteq Job
  /\ loop \in Loop
  /\ task \in [Slots -> Task]
  /\ llm \in Slots \union {NoSlot}
  /\ running \in [Targets -> Slots \union {NoSlot}]
  /\ signals \subseteq Targets
  /\ req \in [Requests -> Request]
  /\ faults \in Nat

(* Where the last job of a target can be: on a list, between the two        *)
(* commands of a put-back, or about to be pushed.                          *)
Carried(t) ==
  \/ \E job \in Jobs(queue) \union processing : CurrentJob(t, job)
  \/ loop.stage = "repush" /\ CurrentJob(t, loop.job)
  \/ \E q \in Requests : At(q, "enqueue") /\ CurrentJob(t, req[q].job)
  \/ \E k \in Slots : \E job \in Unpushed(k) : CurrentJob(t, job)

(* The queue is reliable (main.py:189-197): as long as an issue or a source *)
(* waits, its last job is somewhere, however often the worker stops; it     *)
(* is only lost by an error of one of the commands of a put-back, by a      *)
(* crash between marking and pushing, or when the result cannot be stored. *)
JobKept ==
  \A t \in Issues \union Sources :
    status[t] = "generating" /\ t \notin lost => Carried(t)

(* No job runs twice at a time (main.py:181, 155-165): recovery never takes *)
(* a job of a task that is alive, and a put-back never copies one.         *)
OneTaskPerJob ==
  \A k, l \in Slots : ~Idle(k) /\ ~Idle(l) /\ task[k].job = task[l].job => k = l

(* Every ingestion and every generation that has been accepted ends, also   *)
(* when the worker stops in the middle or an error ends a poll, unless its *)
(* job is lost or was left behind by a put-back.                           *)
AcceptedJobsEnd ==
  \A t \in Targets :
    status[t] = "generating" ~> status[t] # "generating" \/ t \in lost
=============================================================================
