----------------------------- MODULE QueueProofs -----------------------------
(***************************************************************************)
(* OneTaskPerJob and JobKept for any number of tasks, requests, targets and *)
(* faults.  Places is where a job can be: in one place among the two lists, *)
(* a put-back, a request and the jobs a plan has not pushed yet (OnePlace), *)
(* in the hands of one task or of the loop (OneWorker), and never with a    *)
(* number that no request has given out (NoneFuture).  A finalizer takes    *)
(* the job of its task off the processing list, so JobKept needs to know    *)
(* that a task that has ended owes nobody a result (EndsSettled).           *)
(***************************************************************************)
EXTENDS GenerationQueue, SequenceTheorems, TLAPS

Distinct(s) == \A i, j \in 1..Len(s) : s[i] = s[j] => i = j

-----------------------------------------------------------------------------
(* Lists. *)

LEMMA AppendJobs ==
  ASSUME NEW S, NEW s \in Seq(S), NEW x \in S
  PROVE  /\ Append(s, x) \in Seq(S) /\ Jobs(Append(s, x)) = Jobs(s) \union {x}
         /\ Distinct(s) /\ x \notin Jobs(s) => Distinct(Append(s, x))
<1> DEFINE a == Append(s, x)
<1>1. /\ a \in Seq(S) /\ Len(a) = Len(s) + 1 /\ Len(s) \in Nat /\ a[Len(s) + 1] = x
      /\ \A i \in 1..Len(s) : a[i] = s[i]
  BY AppendProperties, LenProperties
<1> HIDE DEF a
<1>2. Jobs(a) = Jobs(s) \union {x}
  BY <1>1 DEF Jobs
<1>3. Distinct(s) /\ x \notin Jobs(s) => Distinct(a)
  BY <1>1 DEF Jobs, Distinct
<1> QED
  BY <1>1, <1>2, <1>3 DEF a

LEMMA PushJobs ==
  ASSUME NEW S, NEW s \in Seq(S), NEW x \in S
  PROVE  /\ <<x>> \o s \in Seq(S) /\ Jobs(<<x>> \o s) = Jobs(s) \union {x}
         /\ Distinct(s) /\ x \notin Jobs(s) => Distinct(<<x>> \o s)
<1> DEFINE a == <<x>> \o s
<1>1. <<x>> \in Seq(S) /\ Len(<<x>>) = 1 /\ <<x>>[1] = x
  OBVIOUS
<1>2. /\ a \in Seq(S) /\ Len(a) = Len(s) + 1 /\ Len(s) \in Nat /\ a[1] = x
      /\ \A i \in 1..Len(a) : i # 1 => i - 1 \in 1..Len(s) /\ a[i] = s[i - 1]
  BY <1>1, ConcatProperties, LenProperties
<1>3. \A i \in 1..Len(s) : i + 1 \in 1..Len(a) /\ a[i + 1] = s[i]
  BY <1>2
<1> HIDE DEF a
<1>4. Jobs(a) = Jobs(s) \union {x}
  <2>1. ASSUME NEW y \in Jobs(a) PROVE y \in Jobs(s) \union {x}
    BY <1>2, <2>1 DEF Jobs
  <2>2. ASSUME NEW y \in Jobs(s) \union {x} PROVE y \in Jobs(a)
    <3>1. CASE y = x
      <4>1. 1 \in 1..Len(a)
        BY <1>2
      <4> QED
        BY <1>2, <3>1, <4>1 DEF Jobs
    <3>2. CASE y \in Jobs(s)
      <4>1. PICK i \in 1..Len(s) : y = s[i]
        BY <3>2 DEF Jobs
      <4> QED
        BY <1>3, <4>1 DEF Jobs
    <3> QED
      BY <3>1, <3>2
  <2> QED
    BY <2>1, <2>2
<1>5. ASSUME Distinct(s), x \notin Jobs(s), NEW i \in 1..Len(a), NEW j \in 1..Len(a), a[i] = a[j]
      PROVE  i = j
  <2>1. \A n \in 1..Len(s) : s[n] # x
    BY <1>5 DEF Jobs
  <2>2. CASE i = 1 \/ j = 1
    BY <1>2, <1>5, <2>1, <2>2
  <2>3. CASE i # 1 /\ j # 1
    <3>1. i - 1 = j - 1
      BY <1>2, <1>5, <2>3 DEF Distinct
    <3> QED
      BY <1>2, <3>1
  <2> QED
    BY <2>2, <2>3
<1> QED
  BY <1>2, <1>4, <1>5 DEF a, Distinct

LEMMA TakeJobs ==
  ASSUME NEW S, NEW s \in Seq(S), s # <<>>
  PROVE  /\ Head(s) \in S /\ Tail(s) \in Seq(S) /\ Jobs(s) = Jobs(Tail(s)) \union {Head(s)}
         /\ Distinct(s) => Distinct(Tail(s)) /\ Head(s) \notin Jobs(Tail(s))
<1> DEFINE t == Tail(s)
           h == Head(s)
<1>1. /\ h \in S /\ t \in Seq(S) /\ Len(s) \in Nat /\ Len(s) > 0 /\ Len(t) = Len(s) - 1 /\ h = s[1]
      /\ \A i \in 1..Len(t) : t[i] = s[i + 1]
  BY HeadTailProperties, LenProperties, EmptySeq
<1> HIDE DEF t, h
<1>2. Jobs(s) = Jobs(t) \union {h}
  <2>1. ASSUME NEW y \in Jobs(s) PROVE y \in Jobs(t) \union {h}
    <3>1. PICK i \in 1..Len(s) : y = s[i]
      BY DEF Jobs
    <3>2. CASE i = 1
      BY <1>1, <3>1, <3>2
    <3>3. CASE i # 1
      <4>1. i - 1 \in 1..Len(t) /\ t[i - 1] = s[i]
        BY <1>1, <3>3
      <4> QED
        BY <3>1, <4>1 DEF Jobs
    <3> QED
      BY <3>2, <3>3
  <2>2. ASSUME NEW y \in Jobs(t) \union {h} PROVE y \in Jobs(s)
    <3>1. CASE y = h
      <4>1. 1 \in 1..Len(s)
        BY <1>1
      <4> QED
        BY <1>1, <3>1, <4>1 DEF Jobs
    <3>2. CASE y \in Jobs(t)
      <4>1. PICK i \in 1..Len(t) : y = t[i]
        BY <3>2 DEF Jobs
      <4>2. i + 1 \in 1..Len(s)
        BY <1>1
      <4> QED
        BY <1>1, <4>1, <4>2 DEF Jobs
    <3> QED
      BY <3>1, <3>2
  <2> QED
    BY <2>1, <2>2
<1>3. ASSUME Distinct(s) PROVE Distinct(t) /\ h \notin Jobs(t)
  <2>1. ASSUME NEW i \in 1..Len(t), NEW j \in 1..Len(t), t[i] = t[j] PROVE i = j
    <3>1. i + 1 \in 1..Len(s) /\ j + 1 \in 1..Len(s)
      BY <1>1
    <3>2. i + 1 = j + 1
      BY <1>1, <1>3, <2>1, <3>1 DEF Distinct
    <3> QED
      BY <1>1, <3>2
  <2>2. ASSUME NEW i \in 1..Len(t) PROVE t[i] # h
    <3>1. i + 1 \in 1..Len(s) /\ 1 \in 1..Len(s) /\ i + 1 # 1
      BY <1>1
    <3> QED
      BY <1>1, <1>3, <3>1 DEF Distinct
  <2> QED
    BY <2>1, <2>2 DEF Distinct, Jobs
<1> QED
  BY <1>1, <1>2, <1>3 DEF t, h

-----------------------------------------------------------------------------
(* Types. *)

LEMMA Constructed ==
  /\ NoJob \in Job
  /\ \A stage \in LoopStages : LoopAt(stage) \in Loop
  /\ \A stage \in LoopStages, job \in Job : [LoopAt(stage) EXCEPT !.job = job] \in Loop
  /\ IdleTask \in Task /\ NoRequest \in Request
BY QueueAssumption DEF NoJob, Job, Targets, LoopAt, Loop, LoopStages, BatchExtras, IdleTask, Task,
   TaskStages, NoRequest, Request, RequestStages

LEMMA TaskChanges ==
  ASSUME TypeOK, NEW k \in Slots
  PROVE  /\ \A stage \in TaskStages :
              /\ [task EXCEPT ![k].stage = stage] \in [Slots -> Task]
              /\ \A ok \in BOOLEAN :
                   [task EXCEPT ![k].stage = stage, ![k].ok = ok] \in [Slots -> Task]
              /\ \A job \in Job :
                   [task EXCEPT ![k] = [IdleTask EXCEPT !.stage = stage, !.job = job]]
                     \in [Slots -> Task]
              /\ \A missing \in SUBSET Issues :
                   [task EXCEPT ![k].stage = stage, ![k].missing = missing] \in [Slots -> Task]
              /\ \A todo \in SUBSET Job :
                   [task EXCEPT ![k].stage = stage, ![k].todo = todo] \in [Slots -> Task]
         /\ \A todo \in SUBSET Job : [task EXCEPT ![k].todo = todo] \in [Slots -> Task]
         /\ [task EXCEPT ![k] = IdleTask] \in [Slots -> Task]
<1>1. task \in [Slots -> Task] /\ task[k] \in Task /\ IdleTask \in Task
  BY Constructed DEF TypeOK
<1>2. ASSUME NEW stage \in TaskStages
      PROVE  /\ [task EXCEPT ![k].stage = stage] \in [Slots -> Task]
             /\ \A ok \in BOOLEAN :
                   [task EXCEPT ![k].stage = stage, ![k].ok = ok] \in [Slots -> Task]
  BY <1>1 DEF Task
<1>3. ASSUME NEW stage \in TaskStages, NEW job \in Job
      PROVE  [task EXCEPT ![k] = [IdleTask EXCEPT !.stage = stage, !.job = job]] \in [Slots -> Task]
  BY <1>1 DEF Task
<1>4. ASSUME NEW stage \in TaskStages, NEW missing \in SUBSET Issues, NEW todo \in SUBSET Job
      PROVE  /\ [task EXCEPT ![k].stage = stage, ![k].missing = missing] \in [Slots -> Task]
             /\ [task EXCEPT ![k].stage = stage, ![k].todo = todo] \in [Slots -> Task]
             /\ [task EXCEPT ![k].todo = todo] \in [Slots -> Task]
  BY <1>1 DEF Task
<1>5. [task EXCEPT ![k] = IdleTask] \in [Slots -> Task]
  BY <1>1
<1>6. ~(TaskStages = {})
  BY DEF TaskStages
<1> QED
  BY <1>2, <1>3, <1>4, <1>5, <1>6

LEMMA ReleasedTyped ==
  ASSUME TypeOK, NEW k \in Slots, released(k)
  PROVE  llm' \in Slots \union {NoSlot} /\ running' \in [Targets -> Slots \union {NoSlot}]
BY DEF released, TypeOK

LEMMA HandlerTyped ==
  ASSUME TypeOK, NEW k \in Slots,
         handlerReturns(k) \/ \E stage \in TaskStages : handlerGoesOn(k, stage)
  PROVE  /\ task' \in [Slots -> Task]
         /\ llm' \in Slots \union {NoSlot} /\ running' \in [Targets -> Slots \union {NoSlot}]
<1>1. CASE handlerReturns(k)
  BY <1>1, TaskChanges, ReleasedTyped DEF handlerReturns, taskTo, TaskStages
<1>2. ASSUME NEW stage \in TaskStages, handlerGoesOn(k, stage)
      PROVE  task' \in [Slots -> Task] /\ UNCHANGED <<llm, running>>
  BY <1>2, TaskChanges DEF handlerGoesOn, taskTo
<1> QED
  BY <1>1, <1>2 DEF TypeOK

LEMMA DispatchTyped ==
  ASSUME TypeOK, NEW job \in Job, dispatch(job)
  PROVE  /\ task' \in [Slots -> Task]
         /\ llm' \in Slots \union {NoSlot} /\ running' \in [Targets -> Slots \union {NoSlot}]
<1>1. PICK k \in Slots :
        /\ task' = [task EXCEPT ![k] = [IdleTask EXCEPT !.stage = "preflight", !.job = job]]
        /\ llm' = IF Generation(job) THEN k ELSE llm
        /\ running' = IF Generation(job) THEN [running EXCEPT ![job.target] = k] ELSE running
  BY Zenon DEF dispatch
<1>2. task' \in [Slots -> Task]
  BY <1>1, TaskChanges DEF TaskStages
<1> QED
  BY <1>1, <1>2 DEF TypeOK

LEMMA RequestChanges ==
  ASSUME TypeOK, NEW q \in Requests
  PROVE  /\ [req EXCEPT ![q] = NoRequest] \in [Requests -> Request]
         /\ \A stage \in RequestStages :
              /\ [req EXCEPT ![q].stage = stage] \in [Requests -> Request]
              /\ \A n \in 1..MaxGen :
                   [req EXCEPT ![q].stage = stage, ![q].job.gen = n] \in [Requests -> Request]
         /\ req[q].job \in Job /\ req[q].job.target \in Targets
<1>1. req \in [Requests -> Request] /\ req[q] \in Request /\ NoRequest \in Request
  BY Constructed DEF TypeOK
<1>2. req[q].job \in Job /\ req[q].job.target \in Targets
  BY <1>1 DEF Request, Job
<1>3. ASSUME NEW stage \in RequestStages
      PROVE  [req EXCEPT ![q].stage = stage] \in [Requests -> Request]
  BY <1>1 DEF Request
<1>4. ASSUME NEW stage \in RequestStages, NEW n \in 1..MaxGen
      PROVE  [req EXCEPT ![q].stage = stage, ![q].job.gen = n] \in [Requests -> Request]
  <2>1. [req[q].job EXCEPT !.gen = n] \in Job
    BY <1>2 DEF Job
  <2>2. [req[q] EXCEPT !.stage = stage, !.job = [req[q].job EXCEPT !.gen = n]] \in Request
    BY <1>1, <2>1 DEF Request
  <2> QED
    BY <1>1, <2>1, <2>2 DEF Request
<1> QED
  BY <1>1, <1>2, <1>3, <1>4

LEMMA TypeInit == Init => TypeOK
BY Constructed, QueueAssumption DEF Init, TypeOK, Targets, LoopStages

LEMMA LoopChanges ==
  ASSUME TypeOK
  PROVE  /\ LoopAt("poll") \in Loop
         /\ \A job \in Job : [LoopAt("unack") EXCEPT !.job = job] \in Loop
         /\ [loop EXCEPT !.stage = "batch", !.left = BatchExtras] \in Loop
         /\ [loop EXCEPT !.stage = "batch", !.left = BatchExtras].stage = "batch"
         /\ loop.left > 0 => [loop EXCEPT !.left = loop.left - 1] \in Loop
<1>1. loop \in Loop /\ {"poll", "unack", "batch"} \subseteq LoopStages
  BY DEF TypeOK, LoopStages
<1>2. /\ [loop EXCEPT !.stage = "batch", !.left = BatchExtras] \in Loop
      /\ [loop EXCEPT !.stage = "batch", !.left = BatchExtras].stage = "batch"
  <2>1. ASSUME NEW stage \in LoopStages, NEW left \in 0..BatchExtras
        PROVE  /\ [loop EXCEPT !.stage = stage, !.left = left] \in Loop
               /\ [loop EXCEPT !.stage = stage, !.left = left].stage = stage
    BY <1>1 DEF Loop
  <2>2. BatchExtras \in 0..BatchExtras
    BY DEF BatchExtras
  <2> QED
    BY <1>1, <2>1, <2>2
<1>3. ASSUME loop.left > 0 PROVE [loop EXCEPT !.left = loop.left - 1] \in Loop
  <2>1. loop.left - 1 \in 0..BatchExtras
    BY <1>1, <1>3 DEF Loop, BatchExtras
  <2> QED
    BY <1>1, <2>1 DEF Loop
<1> QED
  BY <1>1, <1>2, <1>3, Constructed

(* A put-back and a recovery push to the head, a request and a task to the  *)
(* tail.                                                                    *)
LEMMA ListsTyped ==
  ASSUME TypeOK
  PROVE  /\ \A job \in Job : <<job>> \o queue \in Seq(Job) /\ Append(queue, job) \in Seq(Job)
         /\ queue # <<>> => Head(queue) \in Job /\ Tail(queue) \in Seq(Job)
BY PushJobs, AppendJobs, TakeJobs DEF TypeOK

LEMMA LoopTyped == ASSUME TypeOK, loopStep PROVE TypeOK'
<1>1. CASE startWorker
  BY <1>1, Constructed DEF startWorker, TypeOK, loopTo, NoFault, rowVars, listVars, LoopStages
<1>2. CASE recoverProcessingQueue
  <2>1. loop' \in Loop
    BY <1>2, Constructed DEF recoverProcessingQueue, TypeOK, loopTo, LoopStages
  <2>2. queue' \in Seq(Job) /\ processing' \subseteq Job
    BY <1>2, ListsTyped DEF recoverProcessingQueue, TypeOK, listVars
  <2> QED
    BY <1>2, <2>1, <2>2 DEF recoverProcessingQueue, TypeOK, NoFault, rowVars
<1>3. CASE takeJob
  BY <1>3, Constructed, ListsTyped
     DEF takeJob, MoveHead, TypeOK, loopHolds, NoFault, rowVars, LoopStages
<1>4. CASE dispatchJob
  <2>1. loop.job \in Job
    BY DEF TypeOK, Loop
  <2>2. loop' \in Loop
    BY <1>4, <2>1, LoopChanges DEF dispatchJob, loopHolds
  <2>3. /\ task' \in [Slots -> Task]
        /\ llm' \in Slots \union {NoSlot} /\ running' \in [Targets -> Slots \union {NoSlot}]
    BY <1>4, <2>1, DispatchTyped DEF dispatchJob, TypeOK
  <2> QED
    BY <1>4, <2>2, <2>3 DEF dispatchJob, TypeOK, NoFault, rowVars, listVars
<1>5. CASE takeExtra
  <2>1. loop \in Loop /\ LoopAt("poll") \in Loop
    BY Constructed DEF TypeOK, LoopStages
  <2>2. CASE loop.left = 0 \/ queue = <<>>
    <3>1. queue # <<>> => loop.left = 0
      BY <2>2
    <3>2. loopTo("poll") /\ UNCHANGED <<listVars, task, llm, running>>
      BY <1>5, <2>1, <3>1 DEF takeExtra, MoveHead, Loop, BatchExtras
    <3> QED
      BY <1>5, <2>1, <3>2 DEF takeExtra, loopTo, TypeOK, NoFault, rowVars, listVars
  <2>3. CASE ~(loop.left = 0 \/ queue = <<>>)
    <3>1. MoveHead /\ Head(queue) \in Job /\ Tail(queue) \in Seq(Job) /\ loop.left > 0
      BY <1>5, <2>3, ListsTyped DEF takeExtra
    <3>2. queue' \in Seq(Job) /\ processing' \subseteq Job
      BY <3>1 DEF MoveHead, TypeOK
    <3>3. loop' \in Loop
      BY <1>5, <2>3, <3>1, LoopChanges DEF takeExtra, loopHolds
    <3>4. /\ task' \in [Slots -> Task]
          /\ llm' \in Slots \union {NoSlot} /\ running' \in [Targets -> Slots \union {NoSlot}]
      BY <1>5, <2>3, <3>1, DispatchTyped DEF takeExtra, TypeOK
    <3> QED
      BY <1>5, <3>2, <3>3, <3>4 DEF takeExtra, TypeOK, NoFault, rowVars
  <2> QED
    BY <2>2, <2>3
<1>6. CASE unackJob
  BY <1>6, Constructed
     DEF unackJob, TypeOK, loopHolds, loopTo, Losing, NoFault, Fault, rowVars, LoopStages, Loop
<1>7. CASE repushJob
  <2>1. loop.job \in Job
    BY DEF TypeOK, Loop
  <2>2. queue' \in Seq(Job) /\ lost' \subseteq Targets
    BY <1>7, <2>1, ListsTyped DEF repushJob, TypeOK, Losing
  <2>3. loop' \in Loop
    BY <1>7, Constructed DEF repushJob, loopTo, LoopStages
  <2> QED
    BY <1>7, <2>2, <2>3 DEF repushJob, TypeOK, NoFault, Fault, rowVars
<1> QED
  BY <1>1, <1>2, <1>3, <1>4, <1>5, <1>6, <1>7 DEF loopStep

LEMMA TaskTyped == ASSUME TypeOK, NEW k \in Slots, taskStep(k) PROVE TypeOK'
<1>t. task \in [Slots -> Task] /\ task[k] \in Task /\ task[k].job \in Job
      /\ task[k].job.target \in Targets
  BY DEF TypeOK, Task, Job
<1> DEFINE Handled ==
      /\ task' \in [Slots -> Task]
      /\ llm' \in Slots \union {NoSlot} /\ running' \in [Targets -> Slots \union {NoSlot}]
<1>1. CASE preflight(k)
  <2>1. Handled
    BY <1>1, HandlerTyped DEF preflight, TaskStages
  <2> QED
    BY <1>1, <2>1 DEF preflight, TypeOK, NoFault, Fault, rowVars, listVars
<1>2. CASE runModel(k)
  <2>1. task' \in [Slots -> Task]
    <3>1. PICK ok \in BOOLEAN : task' = [task EXCEPT ![k].stage = "persist", ![k].ok = ok]
      BY <1>2, Zenon DEF runModel
    <3> QED
      BY <3>1, TaskChanges, Zenon DEF TaskStages
  <2> QED
    BY <1>2, <2>1 DEF runModel, TypeOK, NoFault, rowVars, listVars
<1>3. CASE persistResult(k)
  <2>1. Handled
    BY <1>3, HandlerTyped DEF persistResult, TaskStages
  <2>2. /\ status' \in [Targets -> {"absent", "pending", "generating", "ready", "failed"}]
        /\ content' \subseteq Issues /\ lost' \subseteq Targets
    BY <1>3, <1>t DEF persistResult, TypeOK, Losing
  <2> QED
    BY <1>3, <2>1, <2>2 DEF persistResult, TypeOK, NoFault, Fault, listVars
<1>4. CASE readOutline(k)
  <2>1. {i \in Issues : status[i] \in {"absent", "pending", "failed"}} \in SUBSET Issues
    OBVIOUS
  <2>2. task' \in [Slots -> Task]
    BY <1>4, <2>1, TaskChanges DEF readOutline, TaskStages
  <2> QED
    BY <1>4, <2>2 DEF readOutline, TypeOK, NoFault, rowVars, listVars
<1>5. CASE commitOutline(k)
  <2> DEFINE made == {i \in task[k].missing : gen[i] < MaxGen}
             jobs == {ChildJob(i, task[k].job) : i \in made}
  <2>1. made \subseteq Issues /\ \A i \in made : i \in Targets /\ gen[i] + 1 \in 1..MaxGen
    BY <1>t, QueueAssumption DEF Task, Targets, TypeOK
  <2>2. jobs \in SUBSET Job
    BY <1>t, <2>1 DEF Job, ChildJob
  <2> HIDE DEF made, jobs
  <2>3. CASE task' = [task EXCEPT ![k].stage = "push", ![k].todo = jobs] /\ UNCHANGED <<llm, running>>
             /\ status' = [t \in Targets |-> IF t \in made THEN "generating" ELSE status[t]]
             /\ gen' = [t \in Targets |-> IF t \in made THEN gen[t] + 1 ELSE gen[t]]
             /\ lost' = lost \ made /\ NoFault
    <3>1. task' \in [Slots -> Task]
      BY <2>2, <2>3, TaskChanges DEF TaskStages
    <3>2. gen' \in [Targets -> 0..MaxGen]
      BY <2>1, <2>3, QueueAssumption DEF TypeOK
    <3> QED
      BY <1>5, <2>3, <3>1, <3>2 DEF commitOutline, TypeOK, NoFault, listVars
  <2>4. CASE Fault("db") /\ handlerReturns(k) /\ UNCHANGED <<status, gen, lost>>
    <3>1. Handled
      BY <2>4, HandlerTyped
    <3> QED
      BY <1>5, <2>4, <3>1 DEF commitOutline, TypeOK, Fault, listVars
  <2> QED
    BY <1>5, <2>3, <2>4 DEF commitOutline, made, jobs
<1>6. CASE pushChild(k)
  <2>1. task[k].todo \in SUBSET Job
    BY <1>t DEF Task
  <2>2. CASE handlerReturns(k)
    <3>1. Handled
      BY <2>2, HandlerTyped
    <3>2. queue' = queue \/ \E job \in task[k].todo : queue' = Append(queue, job)
      BY <1>6 DEF pushChild
    <3>3. queue' \in Seq(Job)
      BY <2>1, <3>2, ListsTyped DEF TypeOK
    <3> QED
      BY <1>6, <3>1, <3>3 DEF pushChild, TypeOK, NoFault, Fault, rowVars, Losing
  <2>3. ASSUME NEW job \in task[k].todo, queue' = Append(queue, job),
               task' = [task EXCEPT ![k].todo = task[k].todo \ {job}],
               UNCHANGED <<llm, running, lost>>, NoFault
        PROVE  TypeOK'
    <3>1. queue' \in Seq(Job) /\ task[k].todo \ {job} \in SUBSET Job
      BY <2>1, <2>3, ListsTyped
    <3>2. task' \in [Slots -> Task]
      BY <2>3, <3>1, TaskChanges
    <3> QED
      BY <1>6, <2>3, <3>1, <3>2 DEF pushChild, TypeOK, NoFault, rowVars
  <2> QED
    BY <1>6, <2>2, <2>3 DEF pushChild
<1>7. CASE finalize(k)
  <2>1. task' \in [Slots -> Task]
    BY <1>7, TaskChanges DEF finalize
  <2> QED
    BY <1>7, <2>1 DEF finalize, TypeOK, NoFault, Fault, rowVars
<1> QED
  BY <1>1, <1>2, <1>3, <1>4, <1>5, <1>6, <1>7 DEF taskStep

LEMMA BeginTyped ==
  ASSUME TypeOK, NEW q \in Requests, NEW op, NEW stage \in RequestStages, NEW t \in Targets,
         NEW free \in BOOLEAN, Begin(q, op, stage, t, free)
  PROVE  TypeOK'
<1> DEFINE job == [NoJob EXCEPT !.target = t, !.free = free]
           new == [stage |-> stage, content |-> t \in content, job |-> job]
<1>1. job \in Job
  BY Constructed DEF Job
<1> HIDE DEF job
<1>2. new \in Request
  BY <1>1 DEF Request
<1> HIDE DEF new
<1>3. req' = [req EXCEPT ![q] = new]
  BY DEF Begin, new, job
<1>4. req' \in [Requests -> Request]
  BY <1>2, <1>3 DEF TypeOK
<1> QED
  BY <1>4 DEF Begin, TypeOK, NoFault, rowVars, listVars, workerVars

LEMMA RequestTyped ==
  ASSUME TypeOK, NEW q \in Requests, beginRequest(q) \/ requestStep(q) \/ crashRequest(q)
  PROVE  TypeOK'
<1>1. CASE beginRequest(q)
  <2>1. {"mark", "enqueuePlan", "restore"} \subseteq RequestStages /\ Plan \in Targets /\ Tiers \subseteq BOOLEAN
    BY QueueAssumption DEF RequestStages, Targets
  <2> QED
    BY <1>1, <2>1, BeginTyped DEF beginRequest, generatePlan, generateIssue, reindexSource, cancelGeneration
<1>2. CASE markGenerating(q)
  <2> DEFINE t == req[q].job.target
  <2>t. t \in Targets
    BY RequestChanges
  <2>1. t \in Targets /\ gen[t] + 1 \in 1..MaxGen
    BY <1>2, <2>t, QueueAssumption DEF markGenerating, TypeOK
  <2>2. req' \in [Requests -> Request]
    BY <1>2, <2>1, RequestChanges DEF markGenerating, RequestStages
  <2>3. gen' \in [Targets -> 0..MaxGen]
    BY <1>2, <2>1 DEF markGenerating, TypeOK
  <2> QED
    BY <1>2, <2>2, <2>3 DEF markGenerating, TypeOK, NoFault, listVars, workerVars
<1>3. CASE enqueueJob(q)
  <2>1. req' \in [Requests -> Request]
    BY <1>3, RequestChanges DEF enqueueJob, Done
  <2>2. queue' \in Seq(Job)
    <3>1. req[q].job \in Job
      BY RequestChanges
    <3> QED
      BY <1>3, <3>1, ListsTyped DEF enqueueJob, TypeOK
  <2>3. faults' \in Nat /\ UNCHANGED <<content, gen, lost, processing, workerVars>>
    BY <1>3 DEF enqueueJob, TypeOK, NoFault, Fault
  <2>4. status' \in [Targets -> {"absent", "pending", "generating", "ready", "failed"}]
    BY <1>3 DEF enqueueJob, TypeOK
  <2> QED
    BY <2>1, <2>2, <2>3, <2>4 DEF TypeOK, workerVars
<1>4. CASE enqueuePlan(q)
  <2> DEFINE job == [req[q].job EXCEPT !.gen = gen[Plan] + 1]
  <2>1. Plan \in Targets /\ gen[Plan] + 1 \in 1..MaxGen
    BY <1>4, QueueAssumption DEF enqueuePlan, TypeOK, Targets
  <2>2. job \in Job
    BY <2>1, RequestChanges DEF Job
  <2>3. queue' \in Seq(Job) /\ gen' \in [Targets -> 0..MaxGen]
    <3>1. Append(queue, job) \in Seq(Job)
      BY <2>2, ListsTyped
    <3>2. queue' = Append(queue, job) \/ UNCHANGED queue
      BY <1>4 DEF enqueuePlan
    <3>3. gen' = [gen EXCEPT ![Plan] = gen[Plan] + 1] \/ UNCHANGED gen
      BY <1>4 DEF enqueuePlan
    <3> HIDE DEF job
    <3>4. queue' \in Seq(Job)
      BY <3>1, <3>2 DEF TypeOK
    <3>5. gen' \in [Targets -> 0..MaxGen]
      <4>1. gen \in [Targets -> 0..MaxGen] /\ gen[Plan] + 1 \in 0..MaxGen
        BY <2>1, QueueAssumption DEF TypeOK
      <4> QED
        BY <3>3, <4>1
    <3> QED
      BY <3>4, <3>5
  <2>4. req' \in [Requests -> Request]
    <3>1. req' = [req EXCEPT ![q].stage = "markPlan"] \/ req' = [req EXCEPT ![q] = NoRequest]
      BY <1>4, Zenon DEF enqueuePlan, Done, ReqTo
    <3>2. "markPlan" \in RequestStages
      BY DEF RequestStages
    <3> QED
      BY <3>1, <3>2, RequestChanges
  <2> QED
    BY <1>4, <2>3, <2>4 DEF enqueuePlan, TypeOK, NoFault, Fault, workerVars
<1>5. CASE markPlan(q)
  BY <1>5, Constructed DEF markPlan, Done, TypeOK, NoFault, listVars, workerVars, Targets
<1>6. CASE restoreStatus(q)
  BY <1>6 DEF restoreStatus, ReqTo, TypeOK, NoFault, listVars, workerVars, Request, RequestStages
<1>7. CASE publishCancel(q)
  BY <1>7, Constructed DEF publishCancel, Done, TypeOK, NoFault, rowVars, listVars, Request, Job
<1>8. CASE crashRequest(q)
  BY <1>8, Constructed DEF crashRequest, Losing, Done, TypeOK, Fault, rowVars, listVars, workerVars
<1> QED
  BY <1>1, <1>2, <1>3, <1>4, <1>5, <1>6, <1>7, <1>8 DEF requestStep

LEMMA OthersTyped ==
  ASSUME TypeOK, stopWorker \/ \E t \in Targets : receiveCancel(t) \/ sweepGenerating(t)
  PROVE  TypeOK'
<1>1. CASE stopWorker
  BY <1>1, Constructed DEF stopWorker, Losing, TypeOK, loopTo, Fault, rowVars, listVars, LoopStages
<1>2. ASSUME NEW t \in Targets, receiveCancel(t) PROVE TypeOK'
  BY <1>2, Constructed DEF receiveCancel, Losing, released, TypeOK, NoFault, rowVars, listVars
<1>3. ASSUME NEW t \in Targets, sweepGenerating(t) PROVE TypeOK'
  BY <1>3 DEF sweepGenerating, TypeOK, NoFault, Fault, listVars, workerVars
<1> QED
  BY <1>1, <1>2, <1>3

LEMMA TypeStep == TypeOK /\ [Next]_vars => TypeOK'
<1>1. TypeOK /\ UNCHANGED vars => TypeOK'
  BY DEF TypeOK, vars, rowVars, listVars, workerVars
<1> QED
  BY <1>1, LoopTyped, TaskTyped, RequestTyped, OthersTyped DEF Next

-----------------------------------------------------------------------------
(* Where jobs are.                                                          *)

Listed == Jobs(queue) \union processing
Carrying == IF loop.stage = "repush" THEN {loop.job} ELSE {}
Marked(q) == IF At(q, "enqueue") THEN {req[q].job} ELSE {}
Taken == IF loop.stage \in {"took", "unack"} THEN {loop.job} ELSE {}
Working(k) == IF Idle(k) THEN {} ELSE {task[k].job}

(* A job is in one place at a time: in the queue, on the processing list,   *)
(* between the commands of a put-back, or about to be pushed.               *)
OnePlace ==
  /\ Distinct(queue)
  /\ Jobs(queue) \intersect processing = {}
  /\ Carrying \intersect Listed = {}
  /\ \A q \in Requests : Marked(q) \intersect (Listed \union Carrying) = {}
  /\ \A k \in Slots : Unpushed(k) \intersect (Listed \union Carrying) = {}
  /\ \A q, p \in Requests : q # p => Marked(q) \intersect Marked(p) = {}
  /\ \A k, l \in Slots : k # l => Unpushed(k) \intersect Unpushed(l) = {}
  /\ \A q \in Requests, k \in Slots : Marked(q) \intersect Unpushed(k) = {}

(* What a task or the poll loop works on is on the processing list, for     *)
(* itself; before the list is recovered there are no tasks.                 *)
OneWorker ==
  /\ \A k \in Slots : Working(k) \subseteq processing
  /\ \A k, l \in Slots : k # l => Working(k) \intersect Working(l) = {}
  /\ Taken \subseteq processing
  /\ \A k \in Slots : Taken \intersect Working(k) = {}
  /\ loop.stage \in {"down", "recover"} => \A k \in Slots : Idle(k)

(* The next request of a target has a number no job has yet. *)
Known(jobs) == \A job \in jobs : job.gen <= gen[job.target]
NoneFuture ==
  /\ Known(Listed \union Carrying)
  /\ \A q \in Requests : Known(Marked(q))
  /\ \A k \in Slots : Known(Unpushed(k))

Places == OnePlace /\ OneWorker /\ NoneFuture

(* Nothing is added anywhere, and the lists stay as they are.               *)
LEMMA Fewer ==
  ASSUME Places, UNCHANGED <<queue, processing, gen>>,
         Carrying' \subseteq Carrying, Taken' \subseteq Taken,
         \A q \in Requests : Marked(q)' \subseteq Marked(q),
         \A k \in Slots : Unpushed(k)' \subseteq Unpushed(k) /\ Working(k)' \subseteq Working(k),
         loop'.stage \in {"down", "recover"} => \A k \in Slots : Idle(k)'
  PROVE  Places'
<1>1. Jobs(queue)' = Jobs(queue) /\ Listed' = Listed /\ Distinct(queue)' = Distinct(queue)
  BY DEF Jobs, Distinct, Listed
<1>2. OnePlace'
  BY <1>1, Zenon DEF Places, OnePlace
<1>3. OneWorker'
  BY DEF Places, OneWorker
<1>4. NoneFuture'
  BY <1>1, Zenon DEF Places, NoneFuture, Known
<1> QED
  BY <1>2, <1>3, <1>4 DEF Places

LEMMA AllJobs ==
  ASSUME TypeOK
  PROVE  /\ Listed \union Carrying \subseteq Job
         /\ \A q \in Requests : Marked(q) \subseteq Job
         /\ \A k \in Slots : Unpushed(k) \subseteq Job
<1>1. Jobs(queue) \subseteq Job
  BY DEF TypeOK, Jobs
<1>2. Listed \union Carrying \subseteq Job
  BY <1>1 DEF TypeOK, Listed, Carrying, Loop
<1> QED
  BY <1>2 DEF TypeOK, Marked, Request, Unpushed, Task

LEMMA PlacesInit == Init => Places
<1> SUFFICES ASSUME Init PROVE Places
  OBVIOUS
<1>1. Jobs(queue) = {} /\ Distinct(queue) /\ processing = {}
  BY DEF Init, Jobs, Distinct
<1>2. Carrying = {} /\ Taken = {}
  BY DEF Init, Carrying, Taken, LoopAt
<1>3. /\ \A q \in Requests : Marked(q) = {}
      /\ \A k \in Slots : Unpushed(k) = {} /\ Working(k) = {} /\ Idle(k)
  BY DEF Init, Marked, At, NoRequest, Unpushed, Working, Idle, InStage, IdleTask
<1> QED
  BY <1>1, <1>2, <1>3 DEF Places, OnePlace, OneWorker, NoneFuture, Known, Listed

LEMMA LoopPlaces == ASSUME TypeOK, Places, loopStep PROVE Places'
<1>q. queue \in Seq(Job) /\ loop.job \in Job
  BY DEF TypeOK, Loop
<1> DEFINE SameRequests == \A q \in Requests : Marked(q)' = Marked(q)
           SameTasks == \A k \in Slots :
             Unpushed(k)' = Unpushed(k) /\ Working(k)' = Working(k) /\ Idle(k)' = Idle(k)
<1>r. UNCHANGED req => SameRequests
  BY DEF Marked, At
<1>t. UNCHANGED task => SameTasks
  BY DEF Unpushed, Working, Idle, InStage
<1> HIDE DEF SameRequests, SameTasks
(* The head of the queue goes to the processing list. *)
<1>m. ASSUME MoveHead, UNCHANGED <<req, gen>>
      PROVE  /\ Head(queue) \in Jobs(queue) /\ processing' = processing \union {Head(queue)}
             /\ Jobs(queue)' = Jobs(queue) \ {Head(queue)} /\ Listed' = Listed
             /\ Distinct(queue)'
  <2>1. queue # <<>> /\ queue' = Tail(queue) /\ processing' = processing \union {Head(queue)}
    BY <1>m DEF MoveHead
  <2>2. /\ Jobs(queue) = Jobs(Tail(queue)) \union {Head(queue)}
        /\ Distinct(Tail(queue)) /\ Head(queue) \notin Jobs(Tail(queue))
    BY <1>q, <2>1, TakeJobs DEF Places, OnePlace
  <2>3. Jobs(queue)' = Jobs(Tail(queue)) /\ Distinct(queue)' = Distinct(Tail(queue))
    BY <2>1 DEF Jobs, Distinct
  <2> QED
    BY <2>1, <2>2, <2>3 DEF Listed
<1>d. ASSUME NEW job, dispatch(job)
      PROVE  \E k \in Slots :
               /\ Working(k) = {} /\ Working(k)' = {job}
               /\ Unpushed(k)' = {}
               /\ \A l \in Slots \ {k} : Unpushed(l)' = Unpushed(l) /\ Working(l)' = Working(l)
               /\ ~Idle(k)'
  <2>1. PICK k \in Slots :
          /\ Idle(k)
          /\ task' = [task EXCEPT ![k] = [IdleTask EXCEPT !.stage = "preflight", !.job = job]]
    BY <1>d, Zenon DEF dispatch
  <2>2. /\ task'[k].stage = "preflight" /\ task'[k].job = job
        /\ \A l \in Slots \ {k} : task'[l] = task[l]
    BY <2>1 DEF TypeOK, IdleTask
  <2> QED
    <3>1. Working(k) = {} /\ Working(k)' = {job} /\ Unpushed(k)' = {} /\ ~Idle(k)'
      BY <2>1, <2>2 DEF Working, Unpushed, Idle, InStage
    <3>2. \A l \in Slots \ {k} : Unpushed(l)' = Unpushed(l) /\ Working(l)' = Working(l)
      BY <2>2 DEF Working, Unpushed, Idle, InStage
    <3> QED
      BY <3>1, <3>2
<1>1. CASE startWorker
  <2>1. UNCHANGED <<queue, processing, gen, req, task>> /\ loop'.stage = "recover" /\ loop.stage = "down"
    BY <1>1 DEF startWorker, listVars, rowVars, loopTo, LoopAt
  <2>2. Carrying' = {} /\ Taken' = {} /\ \A k \in Slots : Idle(k)'
    BY <1>t, <2>1 DEF Carrying, Taken, Places, OneWorker, SameTasks
  <2> QED
    BY <1>r, <1>t, <2>1, <2>2, Fewer DEF SameRequests, SameTasks
<1>2. CASE recoverProcessingQueue
  <2>1. UNCHANGED <<gen, req, task>> /\ loop.stage = "recover"
    BY <1>2 DEF recoverProcessingQueue, rowVars
  <2>2. Carrying = {} /\ Taken = {} /\ \A k \in Slots : Idle(k) /\ Working(k) = {}
    BY <2>1 DEF Carrying, Taken, Places, OneWorker, Working
  <2>3. CASE loopTo("poll") /\ UNCHANGED listVars
    <3>1. Carrying' = {} /\ Taken' = {} /\ loop'.stage = "poll"
      BY <2>3 DEF Carrying, Taken, loopTo, LoopAt
    <3> QED
      BY <1>r, <1>t, <2>1, <2>3, <3>1, Fewer DEF SameRequests, SameTasks, listVars
  <2>4. ASSUME NEW job \in processing, processing' = processing \ {job},
               queue' = <<job>> \o queue, UNCHANGED loop
        PROVE  Places'
    <3>1. job \in Job /\ job \notin Jobs(queue)
      BY <2>4 DEF TypeOK, Places, OnePlace
    <3>2. Jobs(<<job>> \o queue) = Jobs(queue) \union {job} /\ Distinct(<<job>> \o queue)
      BY <1>q, <3>1, PushJobs DEF Places, OnePlace
    <3>3. Jobs(queue)' = Jobs(queue) \union {job} /\ Distinct(queue)'
      BY <2>4, <3>2 DEF Jobs, Distinct
    <3>4. Listed' = Listed /\ Carrying' = {} /\ Taken' = {}
      BY <2>2, <2>4, <3>3 DEF Listed, Carrying, Taken
    <3>5. OnePlace'
      BY <1>r, <1>t, <2>1, <2>2, <2>4, <3>3, <3>4 DEF Places, OnePlace, SameRequests, SameTasks
    <3>6. OneWorker'
      BY <1>t, <2>1, <2>2, <2>4, <3>4 DEF OneWorker, SameTasks
    <3>7. NoneFuture'
      BY <1>r, <1>t, <2>1, <2>2, <3>4 DEF Places, NoneFuture, Known, SameRequests, SameTasks
    <3> QED
      BY <3>5, <3>6, <3>7 DEF Places
  <2> QED
    BY <1>2, <2>3, <2>4 DEF recoverProcessingQueue
<1>3. CASE takeJob
  <2>1. UNCHANGED <<gen, req, task>> /\ MoveHead /\ loop.stage = "poll"
    BY <1>3 DEF takeJob, rowVars
  <2>2. Carrying = {} /\ Carrying' = {} /\ Taken' = {Head(queue)} /\ loop'.stage = "took"
    BY <1>3, <2>1 DEF takeJob, Carrying, Taken, loopHolds, LoopAt
  <2>3. OnePlace'
    BY <1>m, <1>r, <1>t, <2>1, <2>2 DEF Places, OnePlace, SameRequests, SameTasks
  <2>4. OneWorker'
    BY <1>m, <1>t, <2>1, <2>2 DEF Places, OnePlace, OneWorker, SameTasks
  <2>5. NoneFuture'
    BY <1>m, <1>r, <1>t, <2>1, <2>2 DEF Places, NoneFuture, Known, SameRequests, SameTasks
  <2> QED
    BY <2>3, <2>4, <2>5 DEF Places
<1>4. CASE dispatchJob
  <2>1. UNCHANGED <<queue, processing, gen, req>> /\ loop.stage = "took"
    BY <1>4 DEF dispatchJob, rowVars, listVars
  <2>2. Taken = {loop.job} /\ Carrying = {}
    BY <2>1 DEF Taken, Carrying
  <2>3. CASE loopHolds("unack", loop.job) /\ UNCHANGED <<task, llm, running>>
    <3>1. Taken' = {loop.job} /\ Carrying' = {} /\ loop'.stage = "unack"
      BY <2>3 DEF Taken, Carrying, loopHolds, LoopAt
    <3> QED
      BY <1>r, <1>t, <2>1, <2>2, <2>3, <3>1, Fewer DEF SameRequests, SameTasks
  <2>4. CASE dispatch(loop.job) /\ loop'.stage \in {"batch", "poll"}
    <3>1. Taken' = {} /\ Carrying' = {} /\ loop'.stage \notin {"down", "recover"}
      BY <2>4 DEF Taken, Carrying
    <3>2. PICK k \in Slots :
               /\ Working(k) = {} /\ Working(k)' = {loop.job}
               /\ Unpushed(k)' = {}
               /\ \A l \in Slots \ {k} : Unpushed(l)' = Unpushed(l) /\ Working(l)' = Working(l)
      BY <1>d, <2>4
    <3>3. Jobs(queue)' = Jobs(queue) /\ Listed' = Listed /\ Distinct(queue)' = Distinct(queue)
      BY <2>1 DEF Jobs, Distinct, Listed
    <3>4. OnePlace'
      BY <1>r, <2>1, <2>2, <3>1, <3>2, <3>3 DEF Places, OnePlace, SameRequests
    <3>5. OneWorker'
      BY <2>1, <2>2, <3>1, <3>2 DEF Places, OneWorker
    <3>6. NoneFuture'
      BY <1>r, <2>1, <2>2, <3>1, <3>2, <3>3 DEF Places, NoneFuture, Known, SameRequests
    <3> QED
      BY <3>4, <3>5, <3>6 DEF Places
  <2>5. LoopAt("poll").stage = "poll"
    BY DEF LoopAt
  <2>6. ASSUME ~(loopHolds("unack", loop.job) /\ UNCHANGED <<task, llm, running>>)
        PROVE  dispatch(loop.job) /\ loop'.stage \in {"batch", "poll"}
    BY <1>4, <2>5, <2>6, LoopChanges DEF dispatchJob
  <2> QED
    BY <2>3, <2>4, <2>6
<1>5. CASE takeExtra
  <2>1. UNCHANGED <<gen, req>> /\ loop.stage = "batch"
    BY <1>5 DEF takeExtra, rowVars
  <2>2. Taken = {} /\ Carrying = {}
    BY <2>1 DEF Taken, Carrying
  <2>3. CASE loopTo("poll") /\ UNCHANGED <<listVars, task, llm, running>>
    <3>1. Taken' = {} /\ Carrying' = {} /\ loop'.stage = "poll"
      BY <2>3 DEF Taken, Carrying, loopTo, LoopAt
    <3> QED
      BY <1>r, <1>t, <2>1, <2>2, <2>3, <3>1, Fewer DEF SameRequests, SameTasks, listVars
  <2>4. CASE MoveHead /\ dispatch(Head(queue)) /\ loop' = [loop EXCEPT !.left = loop.left - 1]
    <3>1. Taken' = {} /\ Carrying' = {} /\ loop'.stage = "batch"
      BY <2>1, <2>4 DEF Taken, Carrying, TypeOK, Loop
    <3>2. PICK k \in Slots :
               /\ Working(k) = {} /\ Working(k)' = {Head(queue)}
               /\ Unpushed(k)' = {}
               /\ \A l \in Slots \ {k} : Unpushed(l)' = Unpushed(l) /\ Working(l)' = Working(l)
      BY <1>d, <2>4
    <3>4. OnePlace'
      BY <1>m, <1>r, <2>1, <2>2, <2>4, <3>1, <3>2 DEF Places, OnePlace, SameRequests
    <3>5. OneWorker'
      BY <1>m, <2>1, <2>2, <2>4, <3>1, <3>2 DEF Places, OnePlace, OneWorker
    <3>6. NoneFuture'
      BY <1>m, <1>r, <2>1, <2>2, <2>4, <3>1, <3>2 DEF Places, NoneFuture, Known, SameRequests
    <3> QED
      BY <3>4, <3>5, <3>6 DEF Places
  <2>5. CASE MoveHead /\ loopHolds("unack", Head(queue)) /\ UNCHANGED <<task, llm, running>>
    <3>1. Taken' = {Head(queue)} /\ Carrying' = {} /\ loop'.stage = "unack"
      BY <2>5 DEF Taken, Carrying, loopHolds, LoopAt
    <3>4. OnePlace'
      BY <1>m, <1>r, <1>t, <2>1, <2>2, <2>5, <3>1 DEF Places, OnePlace, SameRequests, SameTasks
    <3>5. OneWorker'
      BY <1>m, <1>t, <2>1, <2>2, <2>5, <3>1 DEF Places, OnePlace, OneWorker, SameTasks
    <3>6. NoneFuture'
      BY <1>m, <1>r, <1>t, <2>1, <2>2, <2>5, <3>1 DEF Places, NoneFuture, Known, SameRequests, SameTasks
    <3> QED
      BY <3>4, <3>5, <3>6 DEF Places
  <2> QED
    BY <1>5, <2>3, <2>4, <2>5 DEF takeExtra
<1>6. CASE unackJob
  <2>1. UNCHANGED <<queue, gen, req, task>> /\ loop.stage = "unack"
    BY <1>6 DEF unackJob, rowVars
  <2>2. Taken = {loop.job} /\ Carrying = {}
    BY <2>1 DEF Taken, Carrying
  <2>3. CASE loopTo("poll") /\ UNCHANGED processing
    <3>1. Taken' = {} /\ Carrying' = {} /\ loop'.stage = "poll"
      BY <2>3 DEF Taken, Carrying, loopTo, LoopAt
    <3> QED
      BY <1>r, <1>t, <2>1, <2>2, <2>3, <3>1, Fewer DEF SameRequests, SameTasks
  <2>4. CASE processing' = processing \ {loop.job} /\ loopHolds("repush", loop.job)
    <3>1. Taken' = {} /\ Carrying' = {loop.job} /\ loop'.stage = "repush"
      BY <2>4 DEF Taken, Carrying, loopHolds, LoopAt
    <3>2. loop.job \in processing /\ loop.job \notin Jobs(queue)
      BY <2>2 DEF Places, OnePlace, OneWorker
    <3>3. Jobs(queue)' = Jobs(queue) /\ Distinct(queue)' = Distinct(queue)
      BY <2>1 DEF Jobs, Distinct
    <3>4. Listed' = Listed \ {loop.job} /\ loop.job \in Listed
      BY <2>4, <3>2, <3>3 DEF Listed
    <3>5. OnePlace'
      BY <1>r, <1>t, <2>1, <2>2, <2>4, <3>1, <3>2, <3>3, <3>4
         DEF Places, OnePlace, SameRequests, SameTasks
    <3>6. OneWorker'
      BY <1>t, <2>1, <2>2, <2>4, <3>1, <3>2 DEF Places, OneWorker, SameTasks
    <3>7. NoneFuture'
      BY <1>r, <1>t, <2>1, <2>2, <3>1, <3>4 DEF Places, NoneFuture, Known, SameRequests, SameTasks
    <3> QED
      BY <3>5, <3>6, <3>7 DEF Places
  <2> QED
    BY <1>6, <2>3, <2>4 DEF unackJob
<1>7. CASE repushJob
  <2>1. UNCHANGED <<processing, gen, req, task>> /\ loop.stage = "repush"
    BY <1>7 DEF repushJob, rowVars
  <2>2. /\ Taken = {} /\ Carrying = {loop.job}
        /\ Taken' = {} /\ Carrying' = {} /\ loop'.stage = "poll"
    BY <1>7, <2>1 DEF repushJob, loopTo, LoopAt, Taken, Carrying
  <2>3. CASE UNCHANGED queue
    BY <1>r, <1>t, <2>1, <2>2, <2>3, Fewer DEF SameRequests, SameTasks
  <2>4. CASE queue' = <<loop.job>> \o queue
    <3>1. loop.job \notin Jobs(queue) /\ loop.job \notin Listed
      BY <2>2 DEF Places, OnePlace, Listed
    <3>2. Jobs(<<loop.job>> \o queue) = Jobs(queue) \union {loop.job} /\ Distinct(<<loop.job>> \o queue)
      BY <1>q, <3>1, PushJobs DEF Places, OnePlace
    <3>3. Jobs(queue)' = Jobs(queue) \union {loop.job} /\ Distinct(queue)'
      BY <2>4, <3>2 DEF Jobs, Distinct
    <3>4. Listed' = Listed \union {loop.job}
      BY <2>1, <3>3 DEF Listed
    <3>5. OnePlace'
      BY <1>r, <1>t, <2>1, <2>2, <3>1, <3>3, <3>4 DEF Places, OnePlace, SameRequests, SameTasks, Listed
    <3>6. OneWorker'
      BY <1>t, <2>1, <2>2 DEF Places, OneWorker, SameTasks
    <3>7. NoneFuture'
      BY <1>r, <1>t, <2>1, <2>2, <3>4 DEF Places, NoneFuture, Known, SameRequests, SameTasks
    <3> QED
      BY <3>5, <3>6, <3>7 DEF Places
  <2> QED
    BY <1>7, <2>3, <2>4 DEF repushJob
<1> QED
  BY <1>1, <1>2, <1>3, <1>4, <1>5, <1>6, <1>7 DEF loopStep

(* A step of one task leaves the other tasks alone.                         *)
OthersKeep(k) == \A l \in Slots : l # k => task'[l] = task[l]
GoesTo(k, stage) ==
  OthersKeep(k) /\ task'[k].stage = stage /\ task'[k].job = task[k].job

LEMMA OtherTasks ==
  ASSUME NEW k \in Slots, OthersKeep(k)
  PROVE  \A l \in Slots : l # k =>
           Idle(l)' = Idle(l) /\ Unpushed(l)' = Unpushed(l) /\ Working(l)' = Working(l)
BY DEF OthersKeep, Idle, InStage, Unpushed, Working

LEMMA SameLoop ==
  /\ UNCHANGED loop => Carrying' = Carrying /\ Taken' = Taken
  /\ UNCHANGED req => \A q \in Requests : Marked(q)' = Marked(q)
  /\ UNCHANGED task => \A k \in Slots :
       Idle(k)' = Idle(k) /\ Unpushed(k)' = Unpushed(k) /\ Working(k)' = Working(k)
  /\ UNCHANGED queue => Jobs(queue)' = Jobs(queue) /\ Distinct(queue)' = Distinct(queue)
BY DEF Carrying, Taken, Marked, At, Idle, InStage, Unpushed, Working, Jobs, Distinct

LEMMA OwnTask ==
  ASSUME TypeOK, NEW k \in Slots
  PROVE  /\ handlerReturns(k) => GoesTo(k, "done")
         /\ \A stage : handlerGoesOn(k, stage) => GoesTo(k, stage)
         /\ runModel(k) => GoesTo(k, "persist")
         /\ readOutline(k) => GoesTo(k, "commit")
         /\ \A todo :
              /\ task' = [task EXCEPT ![k].stage = "push", ![k].todo = todo]
                   => GoesTo(k, "push") /\ task'[k].todo = todo
              /\ task' = [task EXCEPT ![k].todo = todo]
                   => GoesTo(k, task[k].stage) /\ task'[k].todo = todo
         /\ task' = [task EXCEPT ![k] = IdleTask] => OthersKeep(k) /\ task'[k] = IdleTask
<1>t. task \in [Slots -> Task] /\ task[k] \in Task
  BY DEF TypeOK
<1>1. ASSUME NEW stage, task' = [task EXCEPT ![k].stage = stage] PROVE GoesTo(k, stage)
  BY <1>t, <1>1 DEF Task, GoesTo, OthersKeep
<1>2. ASSUME NEW stage, NEW ok, task' = [task EXCEPT ![k].stage = stage, ![k].ok = ok]
      PROVE  GoesTo(k, stage)
  BY <1>t, <1>2 DEF Task, GoesTo, OthersKeep
<1>3. ASSUME NEW stage, NEW missing,
             task' = [task EXCEPT ![k].stage = stage, ![k].missing = missing]
      PROVE  GoesTo(k, stage)
  BY <1>t, <1>3 DEF Task, GoesTo, OthersKeep
<1>4. ASSUME NEW stage, NEW todo, task' = [task EXCEPT ![k].stage = stage, ![k].todo = todo]
      PROVE  GoesTo(k, stage) /\ task'[k].todo = todo
  BY <1>t, <1>4 DEF Task, GoesTo, OthersKeep
<1>5. ASSUME NEW todo, task' = [task EXCEPT ![k].todo = todo]
      PROVE  GoesTo(k, task[k].stage) /\ task'[k].todo = todo
  BY <1>t, <1>5 DEF Task, GoesTo, OthersKeep
<1>6. ASSUME task' = [task EXCEPT ![k] = IdleTask] PROVE OthersKeep(k) /\ task'[k] = IdleTask
  BY <1>t, <1>6 DEF OthersKeep
<1>7. handlerReturns(k) => GoesTo(k, "done")
  BY <1>1 DEF handlerReturns, taskTo
<1>8. ASSUME NEW stage, handlerGoesOn(k, stage) PROVE GoesTo(k, stage)
  BY <1>1, <1>8 DEF handlerGoesOn, taskTo
<1>9. runModel(k) => GoesTo(k, "persist")
  BY <1>2 DEF runModel
<1>10. readOutline(k) => GoesTo(k, "commit")
  BY <1>3 DEF readOutline
<1> QED
  BY <1>4, <1>5, <1>6, <1>7, <1>8, <1>9, <1>10

(* A task that goes on or returns pushes nothing any more, or nothing yet.  *)
LEMMA TaskGoesOn ==
  ASSUME Places, NEW k \in Slots, ~Idle(k), NEW stage, GoesTo(k, stage),
         stage \notin {"idle", "push"}, UNCHANGED <<queue, processing, gen, loop, req>>
  PROVE  Places'
<1>1. \A l \in Slots : l # k =>
        Idle(l)' = Idle(l) /\ Unpushed(l)' = Unpushed(l) /\ Working(l)' = Working(l)
  BY OtherTasks DEF GoesTo
<1>2. Unpushed(k)' = {} /\ Working(k)' = Working(k) /\ ~Idle(k)'
  BY DEF GoesTo, Unpushed, Working, Idle, InStage
<1>3. loop'.stage \in {"down", "recover"} => \A l \in Slots : Idle(l)'
  BY DEF Places, OneWorker
<1> QED
  BY <1>1, <1>2, <1>3, SameLoop, Fewer

(* A task that ends.  Its job may leave the processing list.                *)
LEMMA TaskEnds ==
  ASSUME TypeOK, Places, NEW k \in Slots, task' = [task EXCEPT ![k] = IdleTask],
         UNCHANGED <<queue, gen, loop, req>>,
         UNCHANGED processing \/ processing' = processing \ Working(k)
  PROVE  Places'
<1>1. /\ task'[k] = IdleTask
      /\ \A l \in Slots : l # k =>
           Idle(l)' = Idle(l) /\ Unpushed(l)' = Unpushed(l) /\ Working(l)' = Working(l)
  BY OwnTask, OtherTasks
<1>2. Unpushed(k)' = {} /\ Working(k)' = {} /\ Idle(k)'
  BY <1>1 DEF Unpushed, Working, Idle, InStage, IdleTask
<1>3. Listed' \subseteq Listed
  BY SameLoop DEF Listed
<1>4. OnePlace'
  BY <1>1, <1>2, <1>3, SameLoop DEF Places, OnePlace
<1>5. OneWorker'
  BY <1>1, <1>2, SameLoop DEF Places, OneWorker
<1>6. NoneFuture'
  BY <1>1, <1>2, <1>3, SameLoop DEF Places, NoneFuture, Known
<1> QED
  BY <1>4, <1>5, <1>6 DEF Places

LEMMA TaskPlaces == ASSUME TypeOK, Places, NEW k \in Slots, taskStep(k) PROVE Places'
<1>1. CASE preflight(k) \/ runModel(k) \/ persistResult(k) \/ readOutline(k)
  <2>1. ~Idle(k) /\ UNCHANGED <<queue, processing, gen, loop, req>>
    BY <1>1 DEF preflight, runModel, persistResult, readOutline, Idle, InStage, rowVars, listVars
  <2>2. \E stage \in {"model", "persist", "outline", "commit", "done"} : GoesTo(k, stage)
    <3>1. \/ GoesTo(k, "model") \/ GoesTo(k, "persist") \/ GoesTo(k, "outline")
          \/ GoesTo(k, "commit") \/ GoesTo(k, "done")
      BY <1>1, OwnTask DEF preflight, persistResult
    <3> HIDE DEF GoesTo
    <3> QED
      BY <3>1
  <2> QED
    BY <2>1, <2>2, TaskGoesOn
<1>2. CASE finalize(k)
  <2>1. /\ task' = [task EXCEPT ![k] = IdleTask] /\ Working(k) = {task[k].job}
        /\ UNCHANGED <<queue, gen, loop, req>>
        /\ UNCHANGED processing \/ processing' = processing \ {task[k].job}
    BY <1>2 DEF finalize, Working, Idle, InStage, rowVars
  <2> QED
    BY <2>1, TaskEnds
<1>3. CASE commitOutline(k)
  <2> DEFINE made == {i \in task[k].missing : gen[i] < MaxGen}
             jobs == {ChildJob(i, task[k].job) : i \in made}
  <2>1. ~Idle(k) /\ Unpushed(k) = {} /\ UNCHANGED <<queue, processing, loop, req>>
    BY <1>3 DEF commitOutline, Idle, InStage, Unpushed, listVars
  <2>2. CASE handlerReturns(k) /\ UNCHANGED gen
    BY <2>1, <2>2, OwnTask, TaskGoesOn
  <2>3. CASE /\ task' = [task EXCEPT ![k].stage = "push", ![k].todo = jobs]
             /\ gen' = [t \in Targets |-> IF t \in made THEN gen[t] + 1 ELSE gen[t]]
    <3>1. GoesTo(k, "push") /\ task'[k].todo = jobs
      BY <2>3, OwnTask
    <3>2. \A l \in Slots : l # k =>
            Idle(l)' = Idle(l) /\ Unpushed(l)' = Unpushed(l) /\ Working(l)' = Working(l)
      BY <3>1, OtherTasks DEF GoesTo
    <3>3. Unpushed(k)' = jobs /\ Working(k)' = Working(k) /\ ~Idle(k)'
      BY <2>1, <3>1 DEF GoesTo, Unpushed, Working, Idle, InStage
    <3>4. /\ made \subseteq Targets /\ \A t \in Targets : gen[t] \in Nat
          /\ \A t \in Targets : gen'[t] = IF t \in made THEN gen[t] + 1 ELSE gen[t]
      BY <2>3, QueueAssumption DEF TypeOK, Task, Targets
    <3>5. \A job \in jobs : job.target \in made /\ job.gen = gen[job.target] + 1
      BY DEF ChildJob
    <3>6. Listed' = Listed
      BY <2>1, SameLoop DEF Listed
    <3>7. /\ Listed \union Carrying \subseteq Job
          /\ \A q \in Requests : Marked(q) \subseteq Job
          /\ \A l \in Slots : Unpushed(l) \subseteq Job
      BY AllJobs
    <3> HIDE DEF jobs, made
    <3>8. ASSUME NEW set \in SUBSET Job, Known(set)
          PROVE  (\A job \in set : job.gen <= gen'[job.target]) /\ set \intersect jobs = {}
      <4>1. \A job \in set : job.target \in Targets /\ job.gen \in Nat /\ job.gen <= gen[job.target]
        BY <3>8 DEF Job, Known
      <4> QED
        BY <3>4, <3>5, <4>1
    <3>9. \A job \in jobs : job.gen <= gen'[job.target]
      BY <3>4, <3>5
    <3>10. /\ \A job \in Listed \union Carrying : job.gen <= gen'[job.target]
           /\ (Listed \union Carrying) \intersect jobs = {}
           /\ \A q \in Requests :
                (\A job \in Marked(q) : job.gen <= gen'[job.target]) /\ Marked(q) \intersect jobs = {}
           /\ \A l \in Slots :
                (\A job \in Unpushed(l) : job.gen <= gen'[job.target]) /\ Unpushed(l) \intersect jobs = {}
      BY <3>7, <3>8 DEF Places, NoneFuture
    <3>11. OnePlace'
      BY <2>1, <3>2, <3>3, <3>6, <3>10, SameLoop DEF Places, OnePlace
    <3>12. OneWorker'
      BY <2>1, <3>2, <3>3, SameLoop DEF Places, OneWorker
    <3>13. NoneFuture'
      BY <2>1, <3>2, <3>3, <3>6, <3>9, <3>10, SameLoop DEF NoneFuture, Known
    <3> QED
      BY <3>11, <3>12, <3>13 DEF Places
  <2> QED
    BY <1>3, <2>2, <2>3 DEF commitOutline
<1>4. CASE pushChild(k)
  <2>1. ~Idle(k) /\ Unpushed(k) = task[k].todo /\ UNCHANGED <<processing, gen, loop, req>>
    BY <1>4 DEF pushChild, Idle, InStage, Unpushed, rowVars
  <2>2. CASE handlerReturns(k) /\ UNCHANGED queue
    BY <2>1, <2>2, OwnTask, TaskGoesOn
  <2>3. ASSUME NEW job \in task[k].todo, queue' = Append(queue, job),
               task' = [task EXCEPT ![k].todo = task[k].todo \ {job}]
        PROVE  Places'
    <3>1. GoesTo(k, task[k].stage) /\ task'[k].todo = task[k].todo \ {job}
      BY <2>3, OwnTask
    <3>2. \A l \in Slots : l # k =>
            Idle(l)' = Idle(l) /\ Unpushed(l)' = Unpushed(l) /\ Working(l)' = Working(l)
      BY <3>1, OtherTasks DEF GoesTo
    <3>3. task[k].stage = "push"
      BY <1>4 DEF pushChild, InStage
    <3>4. Unpushed(k)' = Unpushed(k) \ {job} /\ Working(k)' = Working(k) /\ ~Idle(k)'
      BY <2>1, <3>1, <3>3 DEF GoesTo, Unpushed, Working, Idle, InStage
    <3>5. job \in Unpushed(k) /\ job \in Job /\ queue \in Seq(Job)
      BY <2>1, <2>3 DEF TypeOK, Task
    <3>6. job \notin Listed \union Carrying
      BY <3>5 DEF Places, OnePlace
    <3>7. Jobs(Append(queue, job)) = Jobs(queue) \union {job} /\ Distinct(Append(queue, job))
      BY <3>5, <3>6, AppendJobs DEF Places, OnePlace, Listed
    <3>8. Jobs(queue)' = Jobs(queue) \union {job} /\ Distinct(queue)'
      BY <2>3, <3>7 DEF Jobs, Distinct
    <3>9. Listed' = Listed \union {job}
      BY <2>1, <3>8 DEF Listed
    <3>10. \A q \in Requests : job \notin Marked(q)
      BY <3>5 DEF Places, OnePlace
    <3>11. \A l \in Slots : l # k => job \notin Unpushed(l)
      BY <3>5 DEF Places, OnePlace
    <3>12. OnePlace'
      BY <2>1, <3>2, <3>4, <3>6, <3>8, <3>9, <3>10, <3>11, SameLoop DEF Places, OnePlace, Listed
    <3>13. OneWorker'
      BY <2>1, <3>2, <3>4, SameLoop DEF Places, OneWorker
    <3>14. NoneFuture'
      BY <2>1, <3>2, <3>4, <3>5, <3>9, SameLoop DEF Places, NoneFuture, Known
    <3> QED
      BY <3>12, <3>13, <3>14 DEF Places
  <2> QED
    BY <1>4, <2>2, <2>3 DEF pushChild
<1> QED
  BY <1>1, <1>2, <1>3, <1>4 DEF taskStep

(* What a request does to its own entry.                                    *)
RequestGoesTo(q, stage) ==
  req'[q].stage = stage /\ \A p \in Requests : p # q => req'[p] = req[p]

LEMMA OwnRequest ==
  ASSUME TypeOK, NEW q \in Requests
  PROVE  /\ Done(q) => RequestGoesTo(q, "idle")
         /\ \A stage : ReqTo(q, stage) => RequestGoesTo(q, stage)
         /\ \A n : req' = [req EXCEPT ![q].stage = "enqueue", ![q].job.gen = n]
                     => /\ RequestGoesTo(q, "enqueue")
                        /\ req'[q].job = [req[q].job EXCEPT !.gen = n]
         /\ \A op, stage, t, free : Begin(q, op, stage, t, free) =>
              RequestGoesTo(q, stage) /\ req'[q].job = [NoJob EXCEPT !.target = t, !.free = free]
<1>t. req \in [Requests -> Request] /\ req[q] \in Request /\ NoRequest.stage = "idle"
  BY DEF TypeOK, NoRequest
<1>1. ASSUME Done(q) PROVE RequestGoesTo(q, "idle")
  BY <1>t, <1>1 DEF Done, RequestGoesTo
<1>2. ASSUME NEW stage, ReqTo(q, stage) PROVE RequestGoesTo(q, stage)
  BY <1>t, <1>2 DEF ReqTo, RequestGoesTo, Request
<1>3. ASSUME NEW n, req' = [req EXCEPT ![q].stage = "enqueue", ![q].job.gen = n]
      PROVE  RequestGoesTo(q, "enqueue") /\ req'[q].job = [req[q].job EXCEPT !.gen = n]
  BY <1>t, <1>3 DEF RequestGoesTo, Request
<1>4. ASSUME NEW op, NEW stage, NEW t, NEW free, Begin(q, op, stage, t, free)
      PROVE  RequestGoesTo(q, stage) /\ req'[q].job = [NoJob EXCEPT !.target = t, !.free = free]
  BY <1>t, <1>4 DEF Begin, RequestGoesTo
<1> QED
  BY <1>1, <1>2, <1>3, <1>4

LEMMA OwnMarks ==
  ASSUME NEW q \in Requests, NEW stage, RequestGoesTo(q, stage)
  PROVE  /\ \A p \in Requests : p # q => Marked(p)' = Marked(p)
         /\ Marked(q)' = IF stage = "enqueue" THEN {req'[q].job} ELSE {}
BY DEF RequestGoesTo, Marked, At

(* Only jobs of the plan make issues, and only its requests are pushed      *)
(* before they are marked.                                                  *)
OfPlan ==
  /\ \A q \in Requests : At(q, "enqueuePlan") => req[q].job.target = Plan
  /\ \A k \in Slots : task[k].stage \in {"outline", "commit", "push"} => task[k].job.target = Plan

LEMMA OfPlanInit == Init => OfPlan
BY DEF Init, OfPlan, At, NoRequest, IdleTask

LEMMA OfPlanStep == TypeOK /\ OfPlan /\ [Next]_vars => OfPlan'
<1> SUFFICES ASSUME TypeOK, OfPlan, [Next]_vars PROVE OfPlan'
  OBVIOUS
<1> DEFINE Req == \A q \in Requests : At(q, "enqueuePlan") => req[q].job.target = Plan
           Makes(stage) == stage \in {"outline", "commit", "push"}
           Tsk == \A k \in Slots : Makes(task[k].stage) => task[k].job.target = Plan
<1>r. Req /\ req \in [Requests -> Request] /\ task \in [Slots -> Task] /\ (UNCHANGED req => Req')
      /\ (UNCHANGED task => Tsk') /\ Tsk
  BY DEF OfPlan, TypeOK, At
<1>k. ASSUME NEW k \in Slots, NEW stage, GoesTo(k, stage), Makes(stage) => task[k].job.target = Plan
      PROVE  Tsk'
  BY <1>r, <1>k DEF GoesTo, OthersKeep
<1>i. ASSUME NEW k \in Slots, task' = [task EXCEPT ![k] = IdleTask] PROVE Tsk'
  BY <1>r, <1>i, OwnTask, ZenonT(30) DEF OthersKeep, IdleTask
<1>d. ASSUME NEW job, dispatch(job) PROVE Tsk'
  <2>1. PICK k \in Slots :
          task' = [task EXCEPT ![k] = [IdleTask EXCEPT !.stage = "preflight", !.job = job]]
    BY <1>d, Zenon DEF dispatch
  <2>2. task'[k].stage = "preflight" /\ \A l \in Slots : l # k => task'[l] = task[l]
    BY <1>r, <2>1 DEF IdleTask
  <2> QED
    BY <1>r, <2>2
<1>1. CASE loopStep
  <2>1. UNCHANGED req /\ (UNCHANGED task \/ \E job : dispatch(job))
    BY <1>1 DEF loopStep, startWorker, recoverProcessingQueue, takeJob, dispatchJob,
     takeExtra, unackJob, repushJob
  <2> QED
    BY <1>r, <1>d, <2>1 DEF OfPlan
<1>2. ASSUME NEW k \in Slots, taskStep(k) PROVE OfPlan'
  <2>1. UNCHANGED req
    BY <1>2 DEF taskStep, preflight, runModel, persistResult, readOutline, commitOutline,
     pushChild, finalize
  <2>2. Tsk'
    <3>1. CASE handlerReturns(k) \/ handlerGoesOn(k, "model") \/ handlerGoesOn(k, "persist") \/ runModel(k)
      BY <1>k, <3>1, OwnTask
    <3>2. CASE handlerGoesOn(k, "outline") /\ task[k].job.target = Plan
      BY <1>k, <3>2, OwnTask
    <3>3. CASE readOutline(k)
      BY <1>k, <1>r, <3>3, OwnTask DEF readOutline, InStage
    <3>4. CASE commitOutline(k)
      BY <1>k, <1>r, <3>4, <3>1, OwnTask DEF commitOutline, InStage
    <3>5. CASE pushChild(k)
      BY <1>k, <1>r, <3>5, <3>1, OwnTask, ZenonT(30) DEF pushChild, InStage
    <3>6. CASE finalize(k)
      BY <1>i, <3>6 DEF finalize
    <3>7. CASE preflight(k)
      BY <3>1, <3>7 DEF preflight
    <3>8. CASE persistResult(k)
      BY <3>1, <3>2, <3>8 DEF persistResult
    <3> QED
      BY <1>2, <3>1, <3>3, <3>4, <3>5, <3>6, <3>7, <3>8 DEF taskStep
  <2> QED
    BY <1>r, <2>1, <2>2 DEF OfPlan
<1>3. ASSUME NEW q \in Requests, beginRequest(q) \/ requestStep(q) \/ crashRequest(q) PROVE OfPlan'
  <2>1. UNCHANGED task
    BY <1>3 DEF beginRequest, requestStep, crashRequest, generatePlan, generateIssue, reindexSource,
       cancelGeneration, Begin, markGenerating, enqueueJob, enqueuePlan, markPlan, restoreStatus,
       publishCancel, workerVars
  <2>2. ASSUME NEW stage, RequestGoesTo(q, stage),
               stage = "enqueuePlan" => req'[q].job.target = Plan
        PROVE  Req'
    BY <1>r, <2>2 DEF At, RequestGoesTo
  <2>3. ASSUME Done(q) PROVE Req'
    BY <2>2, <2>3, OwnRequest
  <2>4. ASSUME NEW stage, stage # "enqueuePlan", ReqTo(q, stage) PROVE Req'
    BY <2>2, <2>4, OwnRequest
  <2>5. ASSUME NEW n, req' = [req EXCEPT ![q].stage = "enqueue", ![q].job.gen = n] PROVE Req'
    BY <2>2, <2>5, OwnRequest
  <2>6. ASSUME NEW op, NEW stage, NEW t, NEW free, Begin(q, op, stage, t, free),
               stage = "enqueuePlan" => t = Plan
        PROVE  Req'
    <3>1. [NoJob EXCEPT !.target = t, !.free = free].target = t
      BY DEF NoJob
    <3>2. RequestGoesTo(q, stage) /\ req'[q].job = [NoJob EXCEPT !.target = t, !.free = free]
      BY <1>r, <2>6 DEF Begin, RequestGoesTo
    <3> QED
      BY <2>2, <2>6, <3>1, <3>2
  <2>7. ASSUME beginRequest(q) PROVE Req'
    <3>1. ASSUME generatePlan(q) PROVE Req'
      BY <2>6, <3>1 DEF generatePlan
    <3>2. ASSUME NEW t \in Targets, generateIssue(q, t) \/ reindexSource(q, t) \/ cancelGeneration(q, t)
          PROVE  Req'
      <4>1. \E op, free : Begin(q, op, "mark", t, free) \/ Begin(q, op, "restore", t, free)
        BY <3>2 DEF generateIssue, reindexSource, cancelGeneration
      <4> QED
        BY <2>6, <4>1
    <3> QED
      BY <2>7, <3>1, <3>2 DEF beginRequest
  <2>8. ASSUME requestStep(q) \/ crashRequest(q) PROVE Req'
    <3>1. CASE markGenerating(q)
      BY <2>5, <3>1 DEF markGenerating
    <3>2. CASE ~markGenerating(q)
      <4>1. Done(q) \/ ReqTo(q, "markPlan") \/ ReqTo(q, "publish")
        BY <2>8, <3>2 DEF requestStep, crashRequest, enqueueJob, enqueuePlan, markPlan, restoreStatus,
           publishCancel
      <4> QED
        BY <2>3, <2>4, <4>1
    <3> QED
      BY <3>1, <3>2
  <2> QED
    BY <1>3, <1>r, <2>1, <2>7, <2>8 DEF OfPlan
<1>4. CASE stopWorker
  BY <1>r, <1>4 DEF stopWorker, OfPlan, IdleTask
<1>5. ASSUME NEW t \in Targets, receiveCancel(t) PROVE OfPlan'
  <2>1. running[t] = NoSlot \/ running[t] \in Slots
    BY DEF TypeOK
  <2> QED
    BY <1>5, <1>i, <1>r, <2>1 DEF receiveCancel, OfPlan
<1>6. ASSUME NEW t \in Targets, sweepGenerating(t) PROVE OfPlan'
  BY <1>6, <1>r DEF sweepGenerating, OfPlan, workerVars
<1>7. CASE UNCHANGED vars
  BY <1>7, <1>r DEF vars, OfPlan, workerVars
<1> QED
  BY <1>1, <1>2, <1>3, <1>4, <1>5, <1>6, <1>7 DEF Next

(* A job is pushed to the tail of the queue that was nowhere else.          *)
LEMMA Pushed ==
  ASSUME TypeOK, Places, UNCHANGED <<processing, loop, task>>, \A t \in Targets : gen'[t] >= gen[t],
         gen' \in [Targets -> 0..MaxGen],
         NEW job \in Job, queue' = Append(queue, job), job \notin Listed \union Carrying,
         job.gen <= gen'[job.target],
         \A k \in Slots : job \notin Unpushed(k),
         NEW q \in Requests, Marked(q)' = {},
         \A p \in Requests : p # q => job \notin Marked(p) /\ Marked(p)' = Marked(p)
  PROVE  Places'
<1>1. Jobs(Append(queue, job)) = Jobs(queue) \union {job} /\ Distinct(Append(queue, job))
  BY AppendJobs DEF Places, OnePlace, Listed, TypeOK
<1>2. Jobs(queue)' = Jobs(queue) \union {job} /\ Distinct(queue)'
  BY <1>1 DEF Jobs, Distinct
<1>3. Listed' = Listed \union {job}
  BY <1>2 DEF Listed
<1>4. OnePlace'
  BY <1>2, <1>3, SameLoop DEF Places, OnePlace, Listed
<1>5. OneWorker'
  BY SameLoop DEF Places, OneWorker
<1>6. ASSUME NEW set \in SUBSET Job, Known(set) PROVE \A j \in set : j.gen <= gen'[j.target]
  <2>1. \A j \in set : j.target \in Targets /\ j.gen \in Nat /\ j.gen <= gen[j.target]
    BY <1>6 DEF Job, Known
  <2>2. \A t \in Targets : gen[t] \in Nat /\ gen'[t] \in Nat
    BY QueueAssumption DEF TypeOK
  <2> QED
    BY <2>1, <2>2
<1>7. /\ \A j \in Listed \union Carrying : j.gen <= gen'[j.target]
      /\ \A p \in Requests : \A j \in Marked(p) : j.gen <= gen'[j.target]
      /\ \A k \in Slots : \A j \in Unpushed(k) : j.gen <= gen'[j.target]
  BY <1>6, AllJobs DEF Places, NoneFuture
<1>8. NoneFuture'
  BY <1>3, <1>7, SameLoop DEF NoneFuture, Known
<1> QED
  BY <1>4, <1>5, <1>8 DEF Places

(* No job has the number of the next request. *)
LEMMA NextIsNew ==
  ASSUME TypeOK, Places, NEW t \in Targets, NEW job, job.target = t, job.gen = gen[t] + 1
  PROVE  /\ job \notin Listed \union Carrying
         /\ \A q \in Requests : job \notin Marked(q)
         /\ \A k \in Slots : job \notin Unpushed(k)
<1>1. gen[t] \in Nat /\ ~(gen[t] + 1 <= gen[t])
  BY QueueAssumption DEF TypeOK
<1> QED
  BY <1>1 DEF Places, NoneFuture, Known

LEMMA RequestPlaces ==
  ASSUME TypeOK, OfPlan, Places, NEW q \in Requests,
         beginRequest(q) \/ requestStep(q) \/ crashRequest(q)
  PROVE  Places'
<1>f. ASSUME UNCHANGED <<queue, processing, gen, loop, task>>, Marked(q)' = {},
             \A p \in Requests : p # q => Marked(p)' = Marked(p)
      PROVE  Places'
  <2>1. loop'.stage \in {"down", "recover"} => \A k \in Slots : Idle(k)'
    BY <1>f, SameLoop DEF Places, OneWorker
  <2> QED
    BY <1>f, <2>1, SameLoop, Fewer
<1>1. CASE beginRequest(q)
  <2>1. \E op, t, free : \E stage \in {"mark", "enqueuePlan", "restore"} : Begin(q, op, stage, t, free)
    BY <1>1 DEF beginRequest, generatePlan, generateIssue, reindexSource, cancelGeneration
  <2>2. UNCHANGED <<queue, processing, gen, loop, task>>
    BY <2>1 DEF Begin, rowVars, listVars, workerVars
  <2> QED
    <3>1. \E stage \in {"mark", "enqueuePlan", "restore"} : RequestGoesTo(q, stage)
      BY <2>1, OwnRequest
    <3> QED
      BY <1>f, <2>2, <3>1, OwnMarks
<1>2. CASE markGenerating(q)
  <2> DEFINE t == req[q].job.target
             job == [req[q].job EXCEPT !.gen = gen[t] + 1]
  <2>1. /\ UNCHANGED <<queue, processing, loop, task>> /\ gen' = [gen EXCEPT ![t] = gen[t] + 1]
        /\ req' = [req EXCEPT ![q].stage = "enqueue", ![q].job.gen = gen[t] + 1]
    BY <1>2 DEF markGenerating, listVars, workerVars
  <2>2. t \in Targets /\ req[q].job \in Job
    BY RequestChanges
  <2>3. /\ Marked(q)' = {job}
        /\ \A p \in Requests : p # q => Marked(p)' = Marked(p)
    BY <2>1, OwnRequest, OwnMarks
  <2>4. job.target = t /\ job.gen = gen[t] + 1
    BY <2>2 DEF Job
  <2>5. Listed' = Listed
    BY <2>1, SameLoop DEF Listed
  <2> HIDE DEF job
  <2>6. /\ job \notin Listed \union Carrying
        /\ \A p \in Requests : job \notin Marked(p)
        /\ \A k \in Slots : job \notin Unpushed(k)
    BY <2>2, <2>4, NextIsNew
  <2>7. OnePlace'
    BY <2>1, <2>3, <2>5, <2>6, SameLoop DEF Places, OnePlace
  <2>8. OneWorker'
    BY <2>1, SameLoop DEF Places, OneWorker
  <2>9. gen'[t] = gen[t] + 1 /\ \A u \in Targets : gen[u] \in Nat /\ (u # t => gen'[u] = gen[u])
    BY <2>1, <2>2, QueueAssumption DEF TypeOK
  <2>10. ASSUME NEW set \in SUBSET Job, Known(set) PROVE \A j \in set : j.gen <= gen'[j.target]
    <3>1. \A j \in set : j.target \in Targets /\ j.gen \in Nat /\ j.gen <= gen[j.target]
      BY <2>10 DEF Job, Known
    <3> QED
      BY <2>9, <3>1
  <2>11. /\ \A j \in Listed \union Carrying : j.gen <= gen'[j.target]
         /\ \A p \in Requests : \A j \in Marked(p) : j.gen <= gen'[j.target]
         /\ \A k \in Slots : \A j \in Unpushed(k) : j.gen <= gen'[j.target]
    BY <2>10, AllJobs DEF Places, NoneFuture
  <2>12. job.gen <= gen'[job.target]
    BY <2>2, <2>4, <2>9
  <2>13. NoneFuture'
    BY <2>1, <2>3, <2>5, <2>11, <2>12, SameLoop DEF NoneFuture, Known
  <2> QED
    BY <2>7, <2>8, <2>13 DEF Places
<1>3. CASE enqueueJob(q)
  <2> DEFINE job == req[q].job
  <2>1. UNCHANGED <<processing, gen, loop, task>> /\ Done(q) /\ At(q, "enqueue")
    BY <1>3 DEF enqueueJob, workerVars
  <2>2. Marked(q) = {job} /\ job \in Job
    BY <2>1, RequestChanges DEF Marked
  <2>3. Marked(q)' = {} /\ \A p \in Requests : p # q => Marked(p)' = Marked(p)
    <3>1. RequestGoesTo(q, "idle")
      BY <2>1, OwnRequest
    <3> QED
      BY <3>1, OwnMarks
  <2>4. CASE UNCHANGED queue
    BY <1>f, <2>1, <2>3, <2>4
  <2>5. CASE queue' = Append(queue, job)
    <3>1. /\ job \notin Listed \union Carrying
          /\ \A p \in Requests : p # q => job \notin Marked(p)
          /\ \A k \in Slots : job \notin Unpushed(k)
      BY <2>2 DEF Places, OnePlace
    <3> HIDE DEF job
    <3>2. gen \in [Targets -> 0..MaxGen] /\ MaxGen \in Nat
      BY QueueAssumption DEF TypeOK
    <3>3. gen' \in [Targets -> 0..MaxGen] /\ \A t \in Targets : gen'[t] >= gen[t]
      BY <2>1, <3>2
    <3>4. job.gen <= gen[job.target]
      BY <2>2 DEF Places, NoneFuture, Known
    <3>5. job.gen <= gen'[job.target]
      BY <2>1, <3>4
    <3> QED
      BY <2>1, <2>2, <2>3, <2>5, <3>1, <3>3, <3>5, Pushed
  <2> QED
    BY <1>3, <2>4, <2>5 DEF enqueueJob
<1>4. CASE enqueuePlan(q)
  <2> DEFINE job == [req[q].job EXCEPT !.gen = gen[Plan] + 1]
  <2>1. UNCHANGED <<processing, loop, task>> /\ At(q, "enqueuePlan")
        /\ (Done(q) \/ ReqTo(q, "markPlan"))
    BY <1>4 DEF enqueuePlan, workerVars
  <2>2. Marked(q)' = {} /\ \A p \in Requests : p # q => Marked(p)' = Marked(p)
    <3>1. RequestGoesTo(q, "idle") \/ RequestGoesTo(q, "markPlan") \/ RequestGoesTo(q, "publish")
      BY <2>1, OwnRequest
    <3> QED
      BY <3>1, OwnMarks
  <2>3. CASE UNCHANGED <<queue, gen>>
    BY <1>f, <2>1, <2>2, <2>3
  <2>4. CASE queue' = Append(queue, job) /\ gen' = [gen EXCEPT ![Plan] = gen[Plan] + 1]
    <3>t. req[q].job \in Job
      BY RequestChanges
    <3>1. req[q].job.target = Plan
      BY <2>1 DEF OfPlan
    <3>2. job.target = Plan /\ job.gen = gen[Plan] + 1
      BY <3>t, <3>1 DEF Job
    <3>3. Plan \in Targets /\ gen[Plan] + 1 \in 1..MaxGen /\ gen[Plan] \in Nat
      BY <1>4, QueueAssumption DEF enqueuePlan, TypeOK, Targets
    <3>4. job \in Job
      BY <3>t, <3>3 DEF Job
    <3> HIDE DEF job
    <3>5. /\ job \notin Listed \union Carrying
          /\ \A p \in Requests : job \notin Marked(p)
          /\ \A k \in Slots : job \notin Unpushed(k)
      BY <3>2, <3>3, NextIsNew
    <3>6. gen \in [Targets -> 0..MaxGen] /\ MaxGen \in Nat
      BY QueueAssumption DEF TypeOK
    <3>7. gen' \in [Targets -> 0..MaxGen] /\ \A t \in Targets : gen'[t] >= gen[t]
      BY <2>4, <3>3, <3>6
    <3>8. job.gen <= gen'[job.target]
      BY <2>4, <3>2, <3>3, <3>6
    <3> QED
      BY <2>1, <2>2, <2>4, <3>4, <3>5, <3>7, <3>8, Pushed
  <2> QED
    BY <1>4, <2>3, <2>4 DEF enqueuePlan
<1>5. CASE markPlan(q) \/ publishCancel(q) \/ restoreStatus(q) \/ crashRequest(q)
  <2>1. UNCHANGED <<queue, processing, gen, loop, task>> /\ (Done(q) \/ ReqTo(q, "publish"))
    BY <1>5 DEF markPlan, publishCancel, restoreStatus, crashRequest, rowVars, listVars, workerVars
  <2>2. Marked(q)' = {} /\ \A p \in Requests : p # q => Marked(p)' = Marked(p)
    <3>1. RequestGoesTo(q, "idle") \/ RequestGoesTo(q, "markPlan") \/ RequestGoesTo(q, "publish")
      BY <2>1, OwnRequest
    <3> QED
      BY <3>1, OwnMarks
  <2> QED
    BY <1>f, <2>1, <2>2
<1> QED
  BY <1>1, <1>2, <1>3, <1>4, <1>5 DEF requestStep

LEMMA OtherPlaces ==
  ASSUME TypeOK, Places, stopWorker \/ \E t \in Targets : receiveCancel(t) \/ sweepGenerating(t)
  PROVE  Places'
<1>1. CASE stopWorker
  <2>1. /\ UNCHANGED <<queue, processing, gen, req>> /\ task' = [k \in Slots |-> IdleTask]
        /\ loop'.stage = "down"
    BY <1>1 DEF stopWorker, rowVars, listVars, loopTo, LoopAt
  <2>2. \A k \in Slots : Unpushed(k)' = {} /\ Working(k)' = {} /\ Idle(k)'
    BY <2>1 DEF Unpushed, Working, Idle, InStage, IdleTask
  <2>3. Carrying' = {} /\ Taken' = {}
    BY <2>1 DEF Carrying, Taken
  <2> QED
    BY <2>1, <2>2, <2>3, SameLoop, Fewer
<1>2. ASSUME NEW t \in Targets, receiveCancel(t) PROVE Places'
  <2>1. UNCHANGED <<queue, processing, gen, loop, req>>
    BY <1>2 DEF receiveCancel, rowVars, listVars
  <2>2. CASE UNCHANGED task
    <3>1. loop'.stage \in {"down", "recover"} => \A k \in Slots : Idle(k)'
      BY <2>1, <2>2, SameLoop DEF Places, OneWorker
    <3> QED
      BY <2>1, <2>2, <3>1, SameLoop, Fewer
  <2>3. CASE running[t] # NoSlot /\ task' = [task EXCEPT ![running[t]] = IdleTask]
    <3>1. running[t] \in Slots
      BY <2>3 DEF TypeOK
    <3> QED
      BY <2>1, <2>3, <3>1, TaskEnds
  <2> QED
    BY <1>2, <2>2, <2>3 DEF receiveCancel
<1>3. ASSUME NEW t \in Targets, sweepGenerating(t) PROVE Places'
  <2>1. UNCHANGED <<queue, processing, gen, loop, task, req>>
    BY <1>3 DEF sweepGenerating, listVars, workerVars
  <2>2. loop'.stage \in {"down", "recover"} => \A k \in Slots : Idle(k)'
    BY <2>1, SameLoop DEF Places, OneWorker
  <2> QED
    BY <2>1, <2>2, SameLoop, Fewer
<1> QED
  BY <1>1, <1>2, <1>3

LEMMA PlacesStep == TypeOK /\ OfPlan /\ Places /\ [Next]_vars => Places'
<1>1. ASSUME Places, UNCHANGED vars PROVE Places'
  <2>1. UNCHANGED <<queue, processing, gen, loop, task, req>>
    BY <1>1 DEF vars, rowVars, listVars, workerVars
  <2>2. loop'.stage \in {"down", "recover"} => \A k \in Slots : Idle(k)'
    BY <1>1, <2>1, SameLoop DEF Places, OneWorker
  <2> QED
    BY <1>1, <2>1, <2>2, SameLoop, Fewer
<1> QED
  BY <1>1, LoopPlaces, TaskPlaces, RequestPlaces, OtherPlaces DEF Next

(* Every variable keeps its type, whatever the bounds.                      *)
THEOREM QueueTypes == Spec => []TypeOK
<1> QED
  BY TypeInit, TypeStep, PTL DEF Spec

(* No job is worked on twice at a time, for any number of tasks, requests,  *)
(* targets and faults: recovery happens before there are tasks, and a       *)
(* put-back takes off the processing list what it pushes.                   *)
THEOREM NoJobTwice == Spec => []OneTaskPerJob
<1>1. Places => OneTaskPerJob
  BY DEF Places, OneWorker, Working, OneTaskPerJob
<1> QED
  BY <1>1, TypeInit, TypeStep, OfPlanInit, OfPlanStep, PlacesInit, PlacesStep, PTL DEF Spec

-----------------------------------------------------------------------------
(* The last job of an issue or a source.                                    *)

Waiting == Issues \union Sources
Settled(t) == status[t] # "generating" \/ t \in lost
Holds(job) ==
  \/ job \in Listed \union Carrying
  \/ \E q \in Requests : job \in Marked(q)
  \/ \E k \in Slots : job \in Unpushed(k)

(* A task whose handler has returned takes its job off the list, and owes   *)
(* nobody a result.                                                         *)
EndsSettled ==
  \A k \in Slots : InStage(k, "done") =>
    \A t \in Waiting : CurrentJob(t, task[k].job) => Settled(t)

LEMMA CarriedIsHeld == \A t : Carried(t) <=> \E job : Holds(job) /\ CurrentJob(t, job)
BY DEF Carried, Holds, Listed, Carrying, Marked

LEMMA KeptHeld == JobKept <=> \A t \in Waiting : Settled(t) \/ Carried(t)
BY DEF JobKept, Settled, Waiting

(* A step keeps the last job of a target that it does not request anew.     *)
LEMMA Keeping ==
  ASSUME JobKept, NEW t \in Waiting, gen'[t] = gen[t], Settled(t) => Settled(t)',
         \A job : Holds(job) /\ CurrentJob(t, job) => Holds(job)' \/ Settled(t)'
  PROVE  Settled(t)' \/ Carried(t)'
<1>1. \A job : CurrentJob(t, job)' <=> CurrentJob(t, job)
  BY DEF CurrentJob
<1>2. Settled(t) \/ \E job : Holds(job) /\ CurrentJob(t, job)
  BY KeptHeld, CarriedIsHeld
<1>3. Carried(t)' <=> \E job : Holds(job)' /\ CurrentJob(t, job)'
  BY DEF Carried, Holds, Listed, Carrying, Marked
<1> QED
  BY <1>1, <1>2, <1>3

LEMMA LosingSettles ==
  ASSUME NEW jobs, Losing(jobs)
  PROVE  /\ \A t : t \in lost => t \in lost'
         /\ \A t \in Targets, job \in jobs : CurrentJob(t, job) => t \in lost'
BY DEF Losing

LEMMA WaitingTargets == Waiting \subseteq Targets /\ Plan \notin Waiting
BY QueueAssumption DEF Waiting, Targets

LEMMA HeadMoves ==
  ASSUME TypeOK, MoveHead
  PROVE  Listed' = Listed
<1>1. queue \in Seq(Job) /\ queue # <<>> /\ queue' = Tail(queue)
      /\ processing' = processing \union {Head(queue)}
  BY DEF TypeOK, MoveHead
<1>2. Jobs(queue) = Jobs(Tail(queue)) \union {Head(queue)}
  BY <1>1, TakeJobs
<1>3. Jobs(queue)' = Jobs(Tail(queue))
  BY <1>1 DEF Jobs
<1> QED
  BY <1>1, <1>2, <1>3 DEF Listed

LEMMA LoopKeeps == ASSUME TypeOK, JobKept, loopStep PROVE JobKept'
<1>q. queue \in Seq(Job) /\ loop.job \in Job /\ processing \subseteq Job
  BY DEF TypeOK, Loop
<1>1. UNCHANGED <<status, gen, req>>
  BY DEF loopStep, startWorker, recoverProcessingQueue, takeJob, dispatchJob, takeExtra, unackJob,
         repushJob, rowVars
<1>2. \A k \in Slots : Unpushed(k)' = Unpushed(k)
  <2>1. ASSUME NEW job, dispatch(job) PROVE \A k \in Slots : Unpushed(k)' = Unpushed(k)
    <3>1. PICK k \in Slots :
            /\ Idle(k)
            /\ task' = [task EXCEPT ![k] = [IdleTask EXCEPT !.stage = "preflight", !.job = job]]
      BY <2>1, Zenon DEF dispatch
    <3>2. task'[k].stage = "preflight" /\ OthersKeep(k)
      BY <3>1 DEF TypeOK, IdleTask, OthersKeep
    <3>3. Unpushed(k) = {} /\ Unpushed(k)' = {}
      BY <3>1, <3>2 DEF Unpushed, Idle, InStage
    <3> QED
      BY <3>2, <3>3, OtherTasks
  <2>2. UNCHANGED task \/ \E job : dispatch(job)
    BY DEF loopStep, startWorker, recoverProcessingQueue, takeJob, dispatchJob,
     takeExtra, unackJob, repushJob
  <2> QED
    BY <2>1, <2>2, SameLoop
<1>3. /\ \A t : t \in lost => t \in lost'
      /\ \A job \in Listed \union Carrying :
           \/ job \in (Listed \union Carrying)'
           \/ \A t \in Targets : CurrentJob(t, job) => t \in lost'
  <2>1. CASE startWorker
    <3>1. UNCHANGED <<queue, processing, lost>> /\ Carrying = {}
      BY <2>1 DEF startWorker, listVars, Carrying
    <3> QED
      BY <3>1, SameLoop DEF Listed
  <2>2. CASE recoverProcessingQueue
    <3>1. UNCHANGED lost /\ Carrying = {}
      BY <2>2 DEF recoverProcessingQueue, Carrying
    <3>2. ASSUME NEW job \in processing, processing' = processing \ {job}, queue' = <<job>> \o queue
          PROVE  Listed' = Listed
      <4>1. Jobs(<<job>> \o queue) = Jobs(queue) \union {job}
        BY <1>q, <3>2, PushJobs
      <4>2. Jobs(queue)' = Jobs(queue) \union {job}
        BY <3>2, <4>1 DEF Jobs
      <4> QED
        BY <3>2, <4>2 DEF Listed
    <3>3. UNCHANGED listVars => Listed' = Listed
      BY SameLoop DEF Listed, listVars
    <3>4. Listed' = Listed
      BY <2>2, <3>2, <3>3 DEF recoverProcessingQueue
    <3> QED
      BY <3>1, <3>4
  <2>3. CASE takeJob \/ dispatchJob \/ takeExtra
    <3>1. UNCHANGED lost /\ Carrying = {} /\ (MoveHead \/ UNCHANGED listVars)
      BY <2>3 DEF takeJob, dispatchJob, takeExtra, Carrying
    <3>2. Listed' = Listed
      BY <3>1, HeadMoves, SameLoop DEF Listed, listVars
    <3> QED
      BY <3>1, <3>2
  <2>4. CASE unackJob
    <3>1. UNCHANGED queue /\ Carrying = {}
      BY <2>4 DEF unackJob, Carrying
    <3>2. CASE UNCHANGED processing /\ Losing({loop.job})
      BY <3>1, <3>2, SameLoop, LosingSettles DEF Listed
    <3>3. CASE /\ processing' = processing \ {loop.job} /\ loopHolds("repush", loop.job)
               /\ UNCHANGED lost
      <4>1. Carrying' = {loop.job}
        BY <3>3 DEF Carrying, loopHolds, LoopAt
      <4> QED
        BY <3>1, <3>3, <4>1, SameLoop DEF Listed
    <3> QED
      BY <2>4, <3>2, <3>3 DEF unackJob
  <2>5. CASE repushJob
    <3>1. UNCHANGED processing /\ Carrying = {loop.job}
      BY <2>5 DEF repushJob, Carrying
    <3>2. CASE queue' = <<loop.job>> \o queue /\ UNCHANGED lost
      <4>1. Jobs(<<loop.job>> \o queue) = Jobs(queue) \union {loop.job}
        BY <1>q, PushJobs
      <4>2. Jobs(queue)' = Jobs(queue) \union {loop.job}
        BY <3>2, <4>1 DEF Jobs
      <4> QED
        BY <3>1, <3>2, <4>2 DEF Listed
    <3>3. CASE UNCHANGED queue /\ Losing({loop.job})
      <4>1. Listed' = Listed
        BY <3>1, <3>3, SameLoop DEF Listed
      <4> QED
        BY <3>1, <3>3, <4>1, LosingSettles
    <3> QED
      BY <2>5, <3>2, <3>3 DEF repushJob
  <2> QED
    BY <2>1, <2>2, <2>3, <2>4, <2>5 DEF loopStep
<1>4. ASSUME NEW t \in Waiting PROVE Settled(t)' \/ Carried(t)'
  <2>1. gen'[t] = gen[t] /\ (Settled(t) => Settled(t)') /\ (t \in lost' => Settled(t)')
    BY <1>1, <1>3 DEF Settled
  <2>2. ASSUME NEW job, Holds(job), CurrentJob(t, job) PROVE Holds(job)' \/ Settled(t)'
    <3>1. CASE job \in Listed \union Carrying
      BY <1>3, <2>1, <2>2, <3>1, WaitingTargets DEF Holds
    <3>2. CASE \E q \in Requests : job \in Marked(q)
      BY <1>1, <3>2, SameLoop DEF Holds
    <3>3. CASE \E k \in Slots : job \in Unpushed(k)
      BY <1>2, <3>3 DEF Holds
    <3> QED
      BY <2>2, <3>1, <3>2, <3>3 DEF Holds
  <2> QED
    BY <2>1, <2>2, Keeping
<1>5. \A t \in Waiting : Settled(t)' \/ Carried(t)'
  BY <1>4
<1> QED
  BY <1>5 DEF JobKept, Settled, Waiting

LEMMA TaskKeeps ==
  ASSUME TypeOK, OfPlan, Places, JobKept, EndsSettled, NEW k \in Slots, taskStep(k)
  PROVE  JobKept' /\ EndsSettled'
<1> DEFINE job == task[k].job
<1>t. job \in Job /\ job.target \in Targets /\ \A t \in Targets : gen[t] \in Nat
  BY QueueAssumption DEF TypeOK, Task, Job
<1>u. UNCHANGED req
  BY DEF taskStep, preflight, runModel, persistResult, readOutline, commitOutline,
     pushChild, finalize
(* A task that ends its handler, with its job settled, or goes on.          *)
<1>e. ASSUME OthersKeep(k), UNCHANGED gen, \A t \in Waiting : Settled(t) => Settled(t)',
             task'[k].stage # "done"
               \/ (task'[k].job = job /\ \A t \in Waiting : CurrentJob(t, job) => Settled(t)')
      PROVE  EndsSettled'
  <2>1. ASSUME NEW l \in Slots, task'[l].stage = "done", NEW t \in Waiting,
               CurrentJob(t, task[l].job)'
        PROVE  Settled(t)'
    <3>1. CASE l = k
      BY <1>e, <2>1, <3>1 DEF CurrentJob
    <3>2. CASE l # k
      BY <1>e, <2>1, <3>2 DEF EndsSettled, InStage, CurrentJob, OthersKeep
    <3> QED
      BY <3>1, <3>2
  <2> QED
    BY <2>1 DEF EndsSettled, InStage
(* A task that pushes nothing loses nothing.                                *)
<1>j. ASSUME UNCHANGED <<queue, processing, gen, loop>>, OthersKeep(k), Unpushed(k) = {},
             \A t \in Waiting : Settled(t) => Settled(t)'
      PROVE  JobKept'
  <2>1. \A j : Holds(j) => Holds(j)'
    BY <1>j, <1>u, SameLoop, OtherTasks DEF Holds, Listed
  <2>2. \A t \in Waiting : Settled(t)' \/ Carried(t)'
    BY <1>j, <2>1, Keeping
  <2> QED
    BY <2>2 DEF JobKept, Settled, Waiting
<1>1. CASE preflight(k)
  <2>1. UNCHANGED <<queue, processing, gen, loop, status, lost>> /\ Unpushed(k) = {}
    BY <1>1 DEF preflight, rowVars, listVars, Unpushed, InStage
  <2>2. \A t \in Waiting : (Settled(t)' <=> Settled(t))
    BY <2>1 DEF Settled
  <2>3. GoesTo(k, "model") \/ GoesTo(k, "persist")
        \/ (GoesTo(k, "done") /\ status[job.target] # "generating")
    BY <1>1, OwnTask DEF preflight
  <2>4. OthersKeep(k) /\ (task'[k].stage # "done"
               \/ (task'[k].job = job /\ \A t \in Waiting : CurrentJob(t, job) => Settled(t)'))
    <3>1. \/ OthersKeep(k) /\ task'[k].stage \in {"model", "persist"}
          \/ OthersKeep(k) /\ task'[k].job = job /\ status[job.target] # "generating"
      BY <2>3 DEF GoesTo
    <3>2. status[job.target] # "generating" => \A t \in Waiting : CurrentJob(t, job) => Settled(t)'
      BY <2>2 DEF Settled, CurrentJob
    <3> QED
      BY <3>1, <3>2
  <2> QED
    BY <1>e, <1>j, <2>1, <2>2, <2>4
<1>2. CASE runModel(k) \/ readOutline(k)
  <2>1. UNCHANGED <<queue, processing, gen, loop, status, lost>> /\ Unpushed(k) = {}
    BY <1>2 DEF runModel, readOutline, rowVars, listVars, Unpushed, InStage
  <2>2. \A t \in Waiting : (Settled(t)' <=> Settled(t))
    BY <2>1 DEF Settled
  <2>3. GoesTo(k, "persist") \/ GoesTo(k, "commit")
    BY <1>2, OwnTask
  <2>4. OthersKeep(k) /\ task'[k].stage # "done"
    BY <2>3 DEF GoesTo
  <2> QED
    BY <1>e, <1>j, <2>1, <2>2, <2>4
<1>3. CASE persistResult(k)
  <2>1. UNCHANGED <<queue, processing, gen, loop>> /\ Unpushed(k) = {}
    BY <1>3 DEF persistResult, listVars, Unpushed, InStage
  <2>2. /\ \A t \in Waiting : Settled(t) => Settled(t)'
        /\ \A t \in Waiting : CurrentJob(t, job) => Settled(t)'
    <3>1. CASE /\ UNCHANGED lost
               /\ status' = IF status[job.target] = "generating" \/ job.target \in Sources
                            THEN [status EXCEPT ![job.target] = IF task[k].ok THEN "ready" ELSE "failed"]
                            ELSE status
      <4>1. ASSUME NEW t \in Waiting
            PROVE  /\ t = job.target => status'[t] # "generating"
                   /\ t # job.target => status'[t] = status[t]
        BY <1>t, <3>1, WaitingTargets DEF TypeOK
      <4>2. \A t \in Waiting : CurrentJob(t, job) => Settled(t)'
        BY <4>1 DEF Settled, CurrentJob
      <4>3. \A t \in Waiting : Settled(t) => Settled(t)'
        BY <3>1, <4>1 DEF Settled
      <4> QED
        BY <4>2, <4>3
    <3>2. CASE Losing({job}) /\ UNCHANGED status
      <4>1. /\ \A t : t \in lost => t \in lost'
            /\ \A t \in Waiting : CurrentJob(t, job) => t \in lost'
        BY <3>2, LosingSettles, WaitingTargets
      <4> QED
        BY <3>2, <4>1 DEF Settled
    <3> QED
      BY <1>3, <3>1, <3>2 DEF persistResult
  <2>3. GoesTo(k, "outline") \/ GoesTo(k, "done")
    BY <1>3, OwnTask DEF persistResult
  <2>4. OthersKeep(k) /\ (task'[k].stage # "done"
               \/ (task'[k].job = job /\ \A t \in Waiting : CurrentJob(t, job) => Settled(t)'))
    BY <2>2, <2>3 DEF GoesTo, CurrentJob
  <2> QED
    BY <1>e, <1>j, <2>1, <2>2, <2>4
<1>4. CASE commitOutline(k)
  <2> DEFINE made == {i \in task[k].missing : gen[i] < MaxGen}
             jobs == {ChildJob(i, job) : i \in made}
  <2>1. UNCHANGED <<queue, processing, loop>> /\ Unpushed(k) = {} /\ job.target = Plan
    BY <1>4 DEF commitOutline, listVars, Unpushed, InStage, OfPlan
  <2>2. CASE handlerReturns(k) /\ UNCHANGED <<status, gen, lost>>
    <3>1. \A t \in Waiting : (Settled(t)' <=> Settled(t))
      BY <2>2 DEF Settled
    <3>2. GoesTo(k, "done") /\ \A t \in Waiting : ~CurrentJob(t, job)
      BY <2>1, <2>2, OwnTask, WaitingTargets DEF CurrentJob
    <3> QED
      BY <1>e, <1>j, <2>1, <2>2, <3>1, <3>2 DEF GoesTo
  <2>3. CASE /\ status' = [t \in Targets |-> IF t \in made THEN "generating" ELSE status[t]]
             /\ gen' = [t \in Targets |-> IF t \in made THEN gen[t] + 1 ELSE gen[t]]
             /\ lost' = lost \ made
             /\ task' = [task EXCEPT ![k].stage = "push", ![k].todo = jobs]
    <3>1. GoesTo(k, "push") /\ task'[k].todo = jobs
      BY <2>3, OwnTask
    <3>2. Unpushed(k)' = jobs
      BY <3>1 DEF GoesTo, Unpushed, InStage
    <3>3. \A j : Holds(j) => Holds(j)'
      BY <1>u, <2>1, <3>1, SameLoop, OtherTasks DEF Holds, Listed, GoesTo
    <3>4. ASSUME NEW t \in Waiting PROVE Settled(t)' \/ Carried(t)'
      <4>1. CASE t \in made
        <5>1. PICK child : child = ChildJob(t, job)
          OBVIOUS
        <5>2. child \in Unpushed(k)'
          BY <3>2, <4>1, <5>1
        <5>3. CurrentJob(t, child)'
          BY <2>3, <4>1, <5>1, WaitingTargets DEF ChildJob, CurrentJob
        <5> QED
          BY <5>2, <5>3 DEF Carried
      <4>2. CASE t \notin made
        <5>1. gen'[t] = gen[t] /\ (Settled(t) => Settled(t)')
          BY <2>3, <4>2, WaitingTargets DEF Settled
        <5> QED
          BY <3>3, <5>1, Keeping
      <4> QED
        BY <4>1, <4>2
    <3>5. JobKept'
      BY <3>4 DEF JobKept, Settled, Waiting
    <3>6. ASSUME NEW l \in Slots, task'[l].stage = "done", NEW t \in Waiting,
               CurrentJob(t, task[l].job)'
          PROVE  Settled(t)'
      <4>1. l # k /\ task'[l] = task[l]
        BY <3>1, <3>6 DEF GoesTo, OthersKeep
      <4>2. task[l].job.gen <= gen[task[l].job.target]
        BY <3>6, <4>1 DEF Places, OneWorker, NoneFuture, Known, Working, Idle, InStage, Listed
      <4>3. task[l].job.target = t /\ task[l].job.gen = gen'[t]
        BY <3>6, <4>1 DEF CurrentJob
      <4>4. t \notin made
        BY <1>t, <2>3, <4>2, <4>3, WaitingTargets
      <4>5. gen'[t] = gen[t] /\ (Settled(t) => Settled(t)')
        BY <2>3, <4>4, WaitingTargets DEF Settled
      <4> QED
        BY <3>6, <4>1, <4>3, <4>5 DEF EndsSettled, InStage, CurrentJob
    <3>7. EndsSettled'
      BY <3>6 DEF EndsSettled, InStage
    <3> QED
      BY <3>5, <3>7
  <2> QED
    BY <1>4, <2>2, <2>3 DEF commitOutline
<1>5. CASE pushChild(k)
  <2>1. UNCHANGED <<status, gen, processing, loop>> /\ Unpushed(k) = task[k].todo /\ job.target = Plan
        /\ task[k].stage = "push"
    BY <1>5 DEF pushChild, rowVars, Unpushed, InStage, OfPlan
  <2>2. \A t \in Waiting : ~CurrentJob(t, job)
    BY <2>1, WaitingTargets DEF CurrentJob
  <2>3. CASE handlerReturns(k) /\ UNCHANGED queue
            /\ ((task[k].todo = {} /\ UNCHANGED lost) \/ Losing(task[k].todo))
    <3>1. GoesTo(k, "done")
      BY <2>3, OwnTask
    <3>2. ASSUME NEW t \in Waiting PROVE (Settled(t) => Settled(t)') /\ (Settled(t)' \/ Carried(t)')
      <4>1. /\ Settled(t) => Settled(t)'
            /\ \A j \in Unpushed(k) : CurrentJob(t, j) => Settled(t)'
        BY <2>1, <2>3, LosingSettles, WaitingTargets DEF Settled
      <4>2. \A j : Holds(j) => Holds(j)' \/ j \in Unpushed(k)
        BY <1>u, <2>1, <2>3, <3>1, SameLoop, OtherTasks DEF Holds, Listed, GoesTo
      <4> QED
        BY <2>1, <4>1, <4>2, Keeping
    <3>3. JobKept'
      BY <3>2 DEF JobKept, Settled, Waiting
    <3> QED
      BY <1>e, <2>1, <2>2, <3>1, <3>2, <3>3 DEF GoesTo
  <2>4. ASSUME NEW j \in task[k].todo, queue' = Append(queue, j), UNCHANGED lost,
               task' = [task EXCEPT ![k].todo = task[k].todo \ {j}]
        PROVE  JobKept' /\ EndsSettled'
    <3>1. GoesTo(k, "push") /\ task'[k].todo = task[k].todo \ {j}
      BY <2>1, <2>4, OwnTask
    <3>2. Jobs(Append(queue, j)) = Jobs(queue) \union {j}
      BY <2>4, AppendJobs DEF TypeOK, Task
    <3>3. Jobs(queue)' = Jobs(queue) \union {j}
      BY <2>4, <3>2 DEF Jobs
    <3>4. Unpushed(k)' = Unpushed(k) \ {j}
      BY <2>1, <3>1 DEF GoesTo, Unpushed, InStage
    <3>5. \A i : Holds(i) => Holds(i)'
      BY <1>u, <2>1, <3>1, <3>3, <3>4, SameLoop, OtherTasks DEF Holds, Listed, GoesTo
    <3>6. \A t \in Waiting : (Settled(t)' <=> Settled(t))
      BY <2>1, <2>4 DEF Settled
    <3>7. \A t \in Waiting : Settled(t)' \/ Carried(t)'
      BY <2>1, <3>5, <3>6, Keeping
    <3>8. JobKept'
      BY <3>7 DEF JobKept, Settled, Waiting
    <3>9. OthersKeep(k) /\ task'[k].stage # "done"
      BY <3>1 DEF GoesTo
    <3> QED
      BY <1>e, <2>1, <3>6, <3>8, <3>9
  <2> QED
    BY <1>5, <2>3, <2>4 DEF pushChild
<1>6. CASE finalize(k)
  <2>1. /\ UNCHANGED <<status, gen, lost, queue, loop>> /\ Unpushed(k) = {} /\ InStage(k, "done")
        /\ task' = [task EXCEPT ![k] = IdleTask]
        /\ UNCHANGED processing \/ processing' = processing \ {job}
    BY <1>6 DEF finalize, rowVars, Unpushed, InStage
  <2>r. OthersKeep(k) /\ task'[k] = IdleTask
    BY <2>1, OwnTask
  <2>2. OthersKeep(k) /\ task'[k].stage # "done"
    BY <2>r DEF IdleTask
  <2>3. \A t \in Waiting : (Settled(t)' <=> Settled(t))
    BY <2>1 DEF Settled
  <2>4. \A j : Holds(j) => Holds(j)' \/ j = job
    BY <1>u, <2>1, <2>2, SameLoop, OtherTasks DEF Holds, Listed
  <2>5. ASSUME NEW t \in Waiting PROVE Settled(t)' \/ Carried(t)'
    <3>1. CurrentJob(t, job) => Settled(t)'
      BY <2>1, <2>3 DEF EndsSettled
    <3> QED
      BY <2>1, <2>3, <2>4, <3>1, Keeping
  <2>6. JobKept'
    BY <2>5 DEF JobKept, Settled, Waiting
  <2> QED
    BY <1>e, <2>1, <2>2, <2>3, <2>6
<1> QED
  BY <1>1, <1>2, <1>3, <1>4, <1>5, <1>6 DEF taskStep

(* A step that ends no task and asks for nothing anew.                      *)
LEMMA EndsKept ==
  ASSUME EndsSettled, UNCHANGED gen, \A t \in Waiting : Settled(t) => Settled(t)',
         \A k \in Slots : task'[k].stage = "done" => task'[k] = task[k]
  PROVE  EndsSettled'
BY DEF EndsSettled, InStage, CurrentJob

LEMMA LoopEnds == ASSUME TypeOK, EndsSettled, loopStep PROVE EndsSettled'
<1>1. UNCHANGED <<status, gen>> /\ \A t : t \in lost => t \in lost'
  BY DEF loopStep, startWorker, recoverProcessingQueue, takeJob, dispatchJob, takeExtra, unackJob,
         repushJob, rowVars, Losing
<1>2. \A t \in Waiting : Settled(t) => Settled(t)'
  BY <1>1 DEF Settled
<1>3. UNCHANGED task \/ \E job : dispatch(job)
  BY DEF loopStep, startWorker, recoverProcessingQueue, takeJob, dispatchJob,
     takeExtra, unackJob, repushJob
<1>4. ASSUME NEW job, dispatch(job)
      PROVE  \A k \in Slots : task'[k].stage = "done" => task'[k] = task[k]
  <2>1. PICK k \in Slots :
          task' = [task EXCEPT ![k] = [IdleTask EXCEPT !.stage = "preflight", !.job = job]]
    BY <1>4, Zenon DEF dispatch
  <2>2. task'[k].stage = "preflight" /\ OthersKeep(k)
    BY <2>1 DEF TypeOK, IdleTask, OthersKeep
  <2> QED
    BY <2>2 DEF OthersKeep
<1> QED
  BY <1>1, <1>2, <1>3, <1>4, EndsKept

(* A step that changes no number, no list, no task and no carried job.      *)
LEMMA NothingMoves ==
  ASSUME JobKept, EndsSettled, UNCHANGED <<gen, queue, processing, loop, task>>,
         \A t \in Waiting : Settled(t) => Settled(t)',
         \A q \in Requests : \A job \in Marked(q) :
           job \in Marked(q)' \/ \A t \in Waiting : CurrentJob(t, job) => Settled(t)'
  PROVE  JobKept' /\ EndsSettled'
<1>1. EndsSettled'
  BY EndsKept
<1>2. ASSUME NEW t \in Waiting PROVE Settled(t)' \/ Carried(t)'
  <2>1. \A job : Holds(job) /\ CurrentJob(t, job) => Holds(job)' \/ Settled(t)'
    BY SameLoop DEF Holds, Listed
  <2> QED
    BY <2>1, Keeping
<1> QED
  BY <1>1, <1>2 DEF JobKept, Settled, Waiting

LEMMA RequestKeeps ==
  ASSUME TypeOK, OfPlan, Places, JobKept, EndsSettled, NEW q \in Requests,
         beginRequest(q) \/ requestStep(q) \/ crashRequest(q)
  PROVE  JobKept' /\ EndsSettled'
<1> DEFINE job == req[q].job
<1>t. /\ job \in Job /\ job.target \in Targets
      /\ status \in [Targets -> {"absent", "pending", "generating", "ready", "failed"}]
  BY RequestChanges DEF Job, TypeOK
<1>1. CASE beginRequest(q)
  <2>1. \E op, t, free : \E stage \in {"mark", "enqueuePlan", "restore"} : Begin(q, op, stage, t, free)
    BY <1>1 DEF beginRequest, generatePlan, generateIssue, reindexSource, cancelGeneration
  <2>2. UNCHANGED <<status, lost, gen, queue, processing, loop, task>> /\ At(q, "idle")
    BY <2>1 DEF Begin, rowVars, listVars, workerVars
  <2>3. \A p \in Requests : p # q => Marked(p)' = Marked(p)
    <3>1. \E stage : RequestGoesTo(q, stage)
      BY <2>1, OwnRequest
    <3> QED
      BY <3>1, OwnMarks
  <2>4. Marked(q) = {}
    BY <2>2 DEF Marked, At
  <2>5. \A t \in Waiting : Settled(t) => Settled(t)'
    BY <2>2 DEF Settled
  <2> QED
    BY <2>2, <2>3, <2>4, <2>5, NothingMoves
<1>2. CASE markPlan(q) \/ publishCancel(q) \/ restoreStatus(q)
  <2>1. /\ UNCHANGED <<lost, gen, queue, processing, loop, task>> /\ (Done(q) \/ ReqTo(q, "publish"))
        /\ ~At(q, "enqueue")
    BY <1>2 DEF markPlan, publishCancel, restoreStatus, rowVars, listVars, workerVars, At
  <2>2. \A t \in Waiting : Settled(t) => Settled(t)'
    <3>1. UNCHANGED status \/ status' = [status EXCEPT ![Plan] = "generating"]
          \/ status' = [status EXCEPT ![job.target] = "ready"]
          \/ status' = [status EXCEPT ![job.target] = "pending"]
      BY <1>2 DEF markPlan, publishCancel, restoreStatus, rowVars
    <3>2. \A t \in Waiting : status'[t] = "generating" => status[t] = "generating"
      BY <1>t, <3>1, WaitingTargets
    <3> QED
      BY <2>1, <3>2 DEF Settled
  <2>3. \A p \in Requests : p # q => Marked(p)' = Marked(p)
    <3>1. \E stage : RequestGoesTo(q, stage)
      BY <2>1, OwnRequest
    <3> QED
      BY <3>1, OwnMarks
  <2>4. Marked(q) = {}
    BY <2>1 DEF Marked
  <2> QED
    BY <2>1, <2>2, <2>3, <2>4, NothingMoves
<1>3. CASE crashRequest(q)
  <2>1. /\ UNCHANGED <<status, gen, queue, processing, loop, task>> /\ Done(q)
        /\ IF At(q, "enqueue") THEN Losing({job}) ELSE UNCHANGED lost
    BY <1>3 DEF crashRequest, rowVars, listVars, workerVars
  <2>2. /\ \A t \in Waiting : Settled(t) => Settled(t)'
        /\ \A j \in Marked(q) : \A t \in Waiting : CurrentJob(t, j) => Settled(t)'
    <3>1. CASE At(q, "enqueue")
      <4>1. Losing({job}) /\ Marked(q) = {job}
        BY <2>1, <3>1 DEF Marked
      <4>2. \A t : t \in lost => t \in lost'
        BY <4>1, LosingSettles
      <4>3. \A t \in Waiting : CurrentJob(t, job) => t \in lost'
        BY <4>1, LosingSettles, WaitingTargets
      <4> HIDE DEF job
      <4> QED
        BY <2>1, <4>1, <4>2, <4>3 DEF Settled
    <3>2. CASE ~At(q, "enqueue")
      BY <2>1, <3>2 DEF Settled, Marked
    <3> QED
      BY <3>1, <3>2
  <2>3. \A p \in Requests : p # q => Marked(p)' = Marked(p)
    BY <2>1, OwnRequest, OwnMarks
  <2> QED
    BY <2>1, <2>2, <2>3, NothingMoves
<1>4. CASE enqueuePlan(q)
  <2>1. /\ UNCHANGED <<status, processing, loop, task>> /\ (Done(q) \/ ReqTo(q, "markPlan"))
        /\ ~At(q, "enqueue") /\ (UNCHANGED <<queue, gen, lost>> \/
             (gen' = [gen EXCEPT ![Plan] = gen[Plan] + 1] /\ lost' = lost \ {Plan} /\
              queue' = Append(queue, [job EXCEPT !.gen = gen[Plan] + 1]) /\ gen[Plan] < MaxGen))
    BY <1>4 DEF enqueuePlan, workerVars, At
  <2>2. \A p \in Requests : Marked(p) \subseteq Marked(p)'
    <3>1. \E stage : RequestGoesTo(q, stage)
      BY <2>1, OwnRequest
    <3>2. Marked(q) = {}
      BY <2>1 DEF Marked
    <3> QED
      BY <3>1, <3>2, OwnMarks
  <2>3. \A t \in Waiting : gen'[t] = gen[t] /\ (Settled(t) => Settled(t)')
    <3>1. \A t \in Waiting : t # Plan /\ t \in Targets
      BY WaitingTargets
    <3>2. gen \in [Targets -> 0..MaxGen]
      BY DEF TypeOK
    <3> QED
      BY <2>1, <3>1, <3>2 DEF Settled
  <2>4. Jobs(queue) \subseteq Jobs(queue)'
    <3>1. CASE UNCHANGED queue
      BY <3>1 DEF Jobs
    <3>2. ASSUME NEW j \in Job, queue' = Append(queue, j) PROVE Jobs(queue) \subseteq Jobs(queue)'
      <4>1. Jobs(Append(queue, j)) = Jobs(queue) \union {j}
        BY AppendJobs DEF TypeOK
      <4>2. Jobs(queue)' = Jobs(queue) \union {j}
        BY <3>2, <4>1 DEF Jobs
      <4> QED
        BY <4>2
    <3>3. gen[Plan] < MaxGen => [job EXCEPT !.gen = gen[Plan] + 1] \in Job
      <4>1. Plan \in Targets
        BY DEF Targets
      <4>2. gen[Plan] \in 0..MaxGen /\ MaxGen \in Nat
        BY <4>1, QueueAssumption DEF TypeOK
      <4> QED
        BY <1>t, <4>2 DEF Job
    <3> QED
      BY <2>1, <3>1, <3>2, <3>3
  <2>5. \A j : Holds(j) => Holds(j)'
    BY <2>1, <2>2, <2>4, SameLoop DEF Holds, Listed
  <2>6. \A t \in Waiting : Settled(t)' \/ Carried(t)'
    BY <2>3, <2>5, Keeping
  <2>7. EndsSettled'
    BY <2>1, <2>3 DEF EndsSettled, InStage, CurrentJob
  <2> QED
    BY <2>6, <2>7 DEF JobKept, Settled, Waiting
<1>5. CASE enqueueJob(q)
  <2>1. /\ UNCHANGED <<lost, gen, processing, loop, task>> /\ Done(q) /\ Marked(q) = {job}
        /\ \/ queue' = Append(queue, job) /\ UNCHANGED status
           \/ status' = [status EXCEPT ![job.target] = "failed"] /\ UNCHANGED queue
    BY <1>5 DEF enqueueJob, workerVars, Marked
  <2>2. /\ \A t \in Waiting : Settled(t) => Settled(t)'
        /\ UNCHANGED queue => \A t \in Waiting : CurrentJob(t, job) => Settled(t)'
    <3>1. CASE status' = [status EXCEPT ![job.target] = "failed"]
      <4>1. \A t \in Waiting : /\ t = job.target => status'[t] # "generating"
                               /\ t # job.target => status'[t] = status[t]
        BY <1>t, <3>1, WaitingTargets
      <4>2. \A t \in Waiting : CurrentJob(t, job) => Settled(t)'
        BY <4>1 DEF Settled, CurrentJob
      <4>3. \A t \in Waiting : Settled(t) => Settled(t)'
        BY <2>1, <4>1 DEF Settled
      <4> QED
        BY <4>2, <4>3
    <3>2. CASE queue' = Append(queue, job) /\ UNCHANGED status
      <4>1. queue' # queue
        BY <3>2 DEF TypeOK
      <4> QED
        BY <2>1, <3>2, <4>1 DEF Settled
    <3> QED
      BY <2>1, <3>1, <3>2
  <2>3. \A p \in Requests : p # q => Marked(p)' = Marked(p)
    BY <2>1, OwnRequest, OwnMarks
  <2>4. CASE UNCHANGED queue
    <3> HIDE DEF job
    <3> QED
      BY <2>1, <2>2, <2>3, <2>4, NothingMoves
  <2>5. CASE queue' = Append(queue, job)
    <3>1. Jobs(Append(queue, job)) = Jobs(queue) \union {job}
      BY <1>t, AppendJobs DEF TypeOK
    <3>2. Jobs(queue)' = Jobs(queue) \union {job}
      BY <2>5, <3>1 DEF Jobs
    <3>3. \A j : Holds(j) => Holds(j)'
      <4> HIDE DEF job
      <4> QED
        BY <2>1, <2>3, <3>2, SameLoop DEF Holds, Listed
    <3>4. \A t \in Waiting : Settled(t)' \/ Carried(t)'
      BY <2>1, <2>2, <3>3, Keeping
    <3>5. EndsSettled'
      BY <2>1, <2>2, EndsKept
    <3> QED
      BY <3>4, <3>5 DEF JobKept, Settled, Waiting
  <2> QED
    BY <2>1, <2>4, <2>5
<1>6. CASE markGenerating(q)
  <2> DEFINE new == [job EXCEPT !.gen = gen[job.target] + 1]
  <2>1. /\ UNCHANGED <<queue, processing, loop, task>> /\ ~At(q, "enqueue")
        /\ status' = [status EXCEPT ![job.target] = "generating"]
        /\ gen' = [gen EXCEPT ![job.target] = gen[job.target] + 1]
        /\ lost' = lost \ {job.target}
        /\ req' = [req EXCEPT ![q].stage = "enqueue", ![q].job.gen = gen[job.target] + 1]
    BY <1>6 DEF markGenerating, listVars, workerVars, At
  <2>2. /\ Marked(q)' = {new} /\ Marked(q) = {}
        /\ \A p \in Requests : p # q => Marked(p)' = Marked(p)
    <3>1. RequestGoesTo(q, "enqueue") /\ req'[q].job = new
      BY <2>1, OwnRequest
    <3>2. Marked(q) = {}
      BY <2>1 DEF Marked
    <3> QED
      BY <3>1, <3>2, OwnMarks
  <2>3. new.target = job.target /\ new.gen = gen[job.target] + 1
    BY <1>t DEF Job
  <2>4. /\ gen'[job.target] = gen[job.target] + 1
        /\ \A t \in Waiting : t # job.target => gen'[t] = gen[t] /\ (Settled(t) => Settled(t)')
    <3>1. gen \in [Targets -> 0..MaxGen]
      BY DEF TypeOK
    <3> QED
      BY <1>t, <2>1, <3>1, WaitingTargets DEF Settled
  <2>5. \A j : Holds(j) => Holds(j)'
    BY <2>1, <2>2, SameLoop DEF Holds, Listed
  <2>6. PICK child, target : child = new /\ target = job.target
    OBVIOUS
  <2>7. ASSUME NEW t \in Waiting PROVE Settled(t)' \/ Carried(t)'
    <3>1. CASE t = target
      <4>1. CurrentJob(t, child)' /\ child \in Marked(q)'
        BY <2>2, <2>3, <2>4, <2>6, <3>1 DEF CurrentJob
      <4> QED
        BY <4>1, CarriedIsHeld DEF Carried, Marked
    <3>2. CASE t # target
      BY <2>4, <2>5, <2>6, <3>2, Keeping
    <3> QED
      BY <3>1, <3>2
  <2>8. JobKept'
    BY <2>7 DEF JobKept, Settled, Waiting
  <2>9. ASSUME NEW k \in Slots, task'[k].stage = "done", NEW t \in Waiting, CurrentJob(t, task[k].job)'
        PROVE  Settled(t)'
    <3>1. task[k].stage = "done" /\ task[k].job.target = t /\ task[k].job.gen = gen'[t]
      BY <2>1, <2>9 DEF CurrentJob
    <3>2. task[k].job.gen <= gen[t]
      BY <3>1 DEF Places, OneWorker, NoneFuture, Known, Working, Idle, InStage, Listed
    <3>3. t # target
      BY <2>4, <2>6, <3>1, <3>2, WaitingTargets, QueueAssumption DEF TypeOK
    <3> QED
      BY <2>4, <2>6, <3>1, <3>3 DEF EndsSettled, InStage, CurrentJob
  <2>10. EndsSettled'
    BY <2>9 DEF EndsSettled, InStage
  <2> QED
    BY <2>8, <2>10
<1> QED
  BY <1>1, <1>2, <1>3, <1>4, <1>5, <1>6 DEF requestStep

LEMMA OtherKeeps ==
  ASSUME TypeOK, JobKept, EndsSettled,
         stopWorker \/ \E t \in Targets : receiveCancel(t) \/ sweepGenerating(t)
  PROVE  JobKept' /\ EndsSettled'
(* The tasks that end at once lose what they have not pushed.               *)
<1>l. ASSUME UNCHANGED <<status, gen, queue, processing, req>>, NEW jobs, Losing(jobs),
             UNCHANGED loop \/ \A job \in Carrying : job \in jobs,
             \A k \in Slots : task'[k] = task[k] \/ (task'[k] = IdleTask /\ Unpushed(k) \subseteq jobs)
      PROVE  JobKept' /\ EndsSettled'
  <2>1. \A t \in Waiting : Settled(t) => Settled(t)'
    BY <1>l, LosingSettles DEF Settled
  <2>2. \A t \in Waiting : \A job \in jobs : CurrentJob(t, job) => Settled(t)'
    BY <1>l, LosingSettles, WaitingTargets DEF Settled
  <2>3. \A k \in Slots : \A job \in Unpushed(k) : job \in Unpushed(k)' \/ job \in jobs
    BY <1>l DEF Unpushed, InStage
  <2>4. \A job : Holds(job) => Holds(job)' \/ job \in jobs
    BY <1>l, <2>3, SameLoop DEF Holds, Listed
  <2>5. \A t \in Waiting : Settled(t)' \/ Carried(t)'
    BY <1>l, <2>1, <2>2, <2>4, Keeping
  <2>6. EndsSettled'
    BY <1>l, <2>1, EndsKept DEF IdleTask
  <2> QED
    BY <2>5, <2>6 DEF JobKept, Settled, Waiting
<1>1. CASE stopWorker
  <2> DEFINE jobs == (UNION {Unpushed(k) : k \in Slots}) \union Carrying
  <2>1. /\ UNCHANGED <<status, gen, queue, processing, req>> /\ Losing(jobs)
        /\ task' = [k \in Slots |-> IdleTask]
    BY <1>1 DEF stopWorker, rowVars, listVars, Carrying
  <2>2. \A job \in Carrying : job \in jobs
    OBVIOUS
  <2>3. \A k \in Slots : task'[k] = IdleTask /\ Unpushed(k) \subseteq jobs
    BY <2>1
  <2> HIDE DEF jobs
  <2> QED
    BY <1>l, <2>1, <2>2, <2>3
<1>2. ASSUME NEW t \in Targets, receiveCancel(t) PROVE JobKept' /\ EndsSettled'
  <2> DEFINE k == running[t]
  <2>1. UNCHANGED <<status, gen, queue, processing, loop, req>>
    BY <1>2 DEF receiveCancel, rowVars, listVars
  <2>2. CASE UNCHANGED <<task, lost>>
    <3>1. \A t1 \in Waiting : Settled(t1) => Settled(t1)'
      BY <2>1, <2>2 DEF Settled
    <3>2. \A q \in Requests : Marked(q)' = Marked(q)
      BY <2>1, SameLoop
    <3> QED
      BY <2>1, <2>2, <3>1, <3>2, NothingMoves
  <2>3. CASE k # NoSlot /\ task' = [task EXCEPT ![k] = IdleTask] /\ Losing(Unpushed(k))
    <3>1. PICK slot \in Slots : slot = running[t]
      BY <2>3 DEF TypeOK
    <3>2. OthersKeep(slot) /\ task'[slot] = IdleTask
      BY <2>3, <3>1, OwnTask
    <3>3. PICK jobs : jobs = Unpushed(slot)
      OBVIOUS
    <3>4. Losing(jobs)
      BY <2>3, <3>1, <3>3
    <3> QED
      BY <1>l, <2>1, <3>2, <3>3, <3>4 DEF OthersKeep
  <2> QED
    BY <1>2, <2>2, <2>3 DEF receiveCancel
<1>3. ASSUME NEW t \in Targets, sweepGenerating(t) PROVE JobKept' /\ EndsSettled'
  <2>1. /\ UNCHANGED <<gen, lost, queue, processing, loop, task, req>>
        /\ status' = [status EXCEPT ![t] = "failed"]
    BY <1>3 DEF sweepGenerating, listVars, workerVars
  <2>2. \A t1 \in Waiting : Settled(t1) => Settled(t1)'
    BY <2>1, WaitingTargets DEF TypeOK, Settled
  <2>3. \A q \in Requests : Marked(q)' = Marked(q)
    BY <2>1, SameLoop
  <2> QED
    BY <2>1, <2>2, <2>3, NothingMoves
<1> QED
  BY <1>1, <1>2, <1>3

LEMMA KeptInit == Init => JobKept /\ EndsSettled
<1>1. Init => \A t \in Targets : status[t] # "generating"
  BY DEF Init
<1>2. Init => JobKept
  BY <1>1 DEF JobKept, Targets
<1>3. Init => EndsSettled
  BY <1>1, WaitingTargets DEF EndsSettled, Settled
<1> QED
  BY <1>2, <1>3

LEMMA KeptStep ==
  TypeOK /\ OfPlan /\ Places /\ JobKept /\ EndsSettled /\ [Next]_vars => JobKept' /\ EndsSettled'
<1>1. ASSUME JobKept, EndsSettled, UNCHANGED vars PROVE JobKept' /\ EndsSettled'
  <2>1. UNCHANGED <<status, lost, queue, processing, gen, loop, task, req>>
    BY <1>1 DEF vars, rowVars, listVars, workerVars
  <2>2. \A t \in Waiting : Settled(t) => Settled(t)'
    BY <2>1 DEF Settled
  <2>3. \A q \in Requests : Marked(q)' = Marked(q)
    BY <2>1, SameLoop
  <2> QED
    BY <1>1, <2>1, <2>2, <2>3, NothingMoves
<1> QED
  BY <1>1, LoopKeeps, LoopEnds, TaskKeeps, RequestKeeps, OtherKeeps DEF Next

(* As long as an issue or a source waits, its last job is on a list or      *)
(* about to be put on one, for any number of tasks, requests, targets and   *)
(* faults, unless one of the faults that JobKept names has lost it: a task  *)
(* takes its job off the list only when nobody waits for its result.        *)
THEOREM JobsKept == Spec => []JobKept
<1> QED
  BY TypeInit, TypeStep, OfPlanInit, OfPlanStep, PlacesInit, PlacesStep,
     KeptInit, KeptStep, PTL DEF Spec
=============================================================================
