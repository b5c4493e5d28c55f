---------------------------- MODULE SendControl ----------------------------
(***************************************************************************)
(* Delivery composed with the other writers of its tables: the control-api *)
(* handlers that approve, reschedule, cancel and regenerate an issue or     *)
(* pause, resume and delete its series, the recipients handlers, and the    *)
(* ai-worker, which stores a generated issue and may schedule it by itself. *)
(*                                                                         *)
(* A request reads first and writes later, in statements that are not in    *)
(* one transaction: each of them is a step of its own, so that any two      *)
(* requests, and a request and a delivery, interleave between them.         *)
(***************************************************************************)
EXTENDS Delivery

CONSTANTS
  Requests,     \* requests and worker jobs that can be in progress at a time
  Operations,   \* the operations the environment uses
  MaxRequests   \* bound: requests begun in a behaviour

OperationKinds == {"approve", "reschedule", "cancel", "regenerate", "persist",
                   "pause", "delete", "audience"}

ASSUME ControlAssumption == /\ Operations \subseteq OperationKinds
                            /\ MaxRequests \in Nat

VARIABLES
  req,       \* the requests in progress
  begun      \* requests begun so far

controlVars == <<vars, req, begun>>

(* op names the operation; content is the content_json it loaded; found is  *)
(* the row its lookup returned.                                            *)
RequestStages == {"idle", "approve", "find", "update", "insert", "withdraw",
                  "restore", "mark", "enqueue", "schedule", "failRows"}
Request == [stage: RequestStages, op: OperationKinds, content: BOOLEAN,
            found: Schedules]
NoRequest == [stage |-> "idle", op |-> "cancel", content |-> FALSE,
              found |-> CHOOSE s \in Schedules : TRUE]

Done(q) == req' = [req EXCEPT ![q] = NoRequest]
Stage(q, stage) == req' = [req EXCEPT ![q].stage = stage]
At(q, stage) == req[q].stage = stage

workerVars == <<held, bounced, queued, worker, inbox>>
RowsOnly == UNCHANGED <<issue, series, deliverable, recorded, workerVars>>
IssueOnly == UNCHANGED <<row, series, deliverable, recorded, workerVars>>
TablesKept == UNCHANGED <<row, issue, series, deliverable, recorded, workerVars>>

(* A handler begins by loading the issue; a deleted series hides it.       *)
Begin(q, op, stage) ==
  /\ op \in Operations
  /\ At(q, "idle") /\ begun < MaxRequests
  /\ req' = [req EXCEPT ![q] = [NoRequest EXCEPT !.stage = stage, !.op = op,
                                                 !.content = issue.content]]
  /\ begun' = begun + 1
  /\ NoFault

-----------------------------------------------------------------------------
(* Approve and reschedule.  Nothing in the code sets issues.locked, so the  *)
(* check of it is left out; the send time comes with the request.          *)

approveIssue(q) ==
  /\ Begin(q, "approve", "approve")
  /\ ~series.deleted
  /\ issue.status \in {"ready", "approved"} /\ issue.content
  /\ TablesKept

setApproved(q) ==
  /\ At(q, "approve")
  /\ issue' = [issue EXCEPT !.status = "approved"]
  /\ Stage(q, "find")
  /\ NoFault /\ UNCHANGED begun /\ IssueOnly

(* Any status but sent is accepted; without content the request fails      *)
(* after it has stored the new time, which is not modelled.                *)
rescheduleIssue(q) ==
  /\ Begin(q, "reschedule", "find")
  /\ ~series.deleted
  /\ issue.status # "sent" /\ issue.content
  /\ TablesKept

(* upsertDeliverySchedule, and _auto_schedule_delivery of the ai-worker,    *)
(* which also takes up a failed row: look up one row of the issue, then     *)
(* write it by primary key, or insert one.  The lookup does not lock.      *)
Reusable(op) == {"pending", "claimed"} \union (IF op = "persist" THEN {"failed"} ELSE {})

findSchedule(q) ==
  /\ At(q, "find")
  /\ \/ \E s \in Schedules :
          /\ row[s].status \in Reusable(req[q].op)
          /\ req' = [req EXCEPT ![q].stage = "update", ![q].found = s]
     \/ /\ \A s \in Schedules : row[s].status \notin Reusable(req[q].op)
        /\ Stage(q, "insert")
  /\ NoFault /\ UNCHANGED begun /\ TablesKept

(* Only an approval may carry a time in the past: reschedule refuses it,    *)
(* and the ai-worker moves it at least a minute ahead.                     *)
RunAtDue(op) == IF op = "approve" THEN BOOLEAN ELSE {FALSE}

updateSchedule(q) ==
  /\ At(q, "update")
  /\ \E due \in RunAtDue(req[q].op) :
       row' = [row EXCEPT ![req[q].found] = NewRow(due)]
  /\ Done(q)
  /\ NoFault /\ UNCHANGED begun /\ RowsOnly

insertSchedule(q) ==
  /\ At(q, "insert")
  /\ \E s \in Schedules, due \in RunAtDue(req[q].op) :
       row[s].status = "absent" /\ row' = [row EXCEPT ![s] = NewRow(due)]
  /\ Done(q)
  /\ NoFault /\ UNCHANGED begun /\ RowsOnly

-----------------------------------------------------------------------------
(* Cancel the send.                                                        *)

cancelIssueSend(q) ==
  /\ Begin(q, "cancel", "withdraw")
  /\ ~series.deleted
  /\ issue.status # "sent"
  /\ TablesKept

(* Mutant: a send that has begun is withdrawn as well.                     *)
WithdrawnLate(s, status) ==
  IF row[s].status \in {"pending", "claimed", "running"}
  THEN enter(row[s], status) ELSE row[s]

Withdrawn(s, status) ==
  IF row[s].status \in {"pending", "claimed"}
  THEN enter(row[s], status) ELSE row[s]

withdrawSchedules(q) ==
  /\ At(q, "withdraw")
  /\ row' = [s \in Schedules |-> Withdrawn(s, "canceled")]
  /\ Stage(q, "restore")
  /\ NoFault /\ UNCHANGED begun /\ RowsOnly

(* Mutant: the status of the issue is left as it is.                       *)
restoreIssueNot(q) ==
  /\ At(q, "restore")
  /\ Done(q)
  /\ NoFault /\ UNCHANGED begun /\ TablesKept

restoreIssue(q) ==
  /\ At(q, "restore")
  /\ issue' = [issue EXCEPT !.status = IF req[q].content THEN "ready" ELSE "failed"]
  /\ Done(q)
  /\ NoFault /\ UNCHANGED begun /\ IssueOnly

-----------------------------------------------------------------------------
(* Generation: the API marks the issue, the ai-worker stores the result.    *)

generateIssue(q) ==
  /\ Begin(q, "regenerate", "mark")
  /\ ~series.deleted
  /\ issue.status # "generating"
  /\ TablesKept

markGenerating(q) ==
  /\ At(q, "mark")
  /\ issue' = [issue EXCEPT !.status = "generating"]
  /\ Stage(q, "enqueue")
  /\ NoFault /\ UNCHANGED begun /\ IssueOnly

queueIssueGeneration(q) ==
  /\ At(q, "enqueue")
  /\ \/ NoFault /\ UNCHANGED issue
     \/ Fault("enqueue") /\ issue' = [issue EXCEPT !.status = "failed"]
  /\ Done(q)
  /\ UNCHANGED begun /\ IssueOnly

(* One guarded UPDATE.  A generation that failed empties content_json.     *)
persistIssueResult(q) ==
  /\ Begin(q, "persist", "schedule")
  /\ issue.status = "generating"
  /\ issue' = [status |-> "ready", content |-> TRUE]
  /\ IssueOnly

persistFailedResult(q) ==
  /\ Begin(q, "persist", "failRows")
  /\ issue.status = "generating"
  /\ issue' = [status |-> "failed", content |-> FALSE]
  /\ IssueOnly

failSchedules(q) ==
  /\ At(q, "failRows")
  /\ row' = [s \in Schedules |-> Withdrawn(s, "failed")]
  /\ Done(q)
  /\ NoFault /\ UNCHANGED begun /\ RowsOnly

(* Manual approval, a poor quality score or no send time end the job here.  *)
autoSchedule(q) ==
  /\ At(q, "schedule")
  /\ \/ Done(q) /\ UNCHANGED issue
     \/ /\ Stage(q, "find")
        /\ issue' = IF issue.status = "ready" THEN [issue EXCEPT !.status = "approved"]
                    ELSE issue
  /\ NoFault /\ UNCHANGED begun /\ IssueOnly

(* The process that serves the request stops between two statements.       *)
crashRequest(q) ==
  /\ ~At(q, "idle")
  /\ Fault("crash")
  /\ Done(q)
  /\ UNCHANGED begun /\ TablesKept

-----------------------------------------------------------------------------
(* One-statement operations.                                               *)

updateSeriesStatus ==
  /\ "pause" \in Operations
  /\ series' = [series EXCEPT !.paused = ~@]
  /\ UNCHANGED <<row, issue, deliverable, recorded, workerVars, faults, req, begun>>

deleteSeries ==
  /\ "delete" \in Operations /\ ~series.deleted
  /\ series' = [series EXCEPT !.deleted = TRUE]
  /\ UNCHANGED <<row, issue, deliverable, recorded, workerVars, faults, req, begun>>

(* A recipient confirms, unsubscribes, or is suppressed or restored.       *)
changeAudience(r) ==
  /\ "audience" \in Operations
  /\ deliverable' = IF r \in deliverable THEN deliverable \ {r} ELSE deliverable \union {r}
  /\ UNCHANGED <<row, issue, series, recorded, workerVars, faults, req, begun>>

-----------------------------------------------------------------------------
(* An approval has scheduled its issue.                                    *)
ControlInit ==
  /\ Init
  /\ issue.status = "approved" => \E s \in Schedules : row[s] # NoRow
  /\ req = [q \in Requests |-> NoRequest]
  /\ begun = 0

requestStep(q) ==
  \/ approveIssue(q) \/ setApproved(q) \/ rescheduleIssue(q)
  \/ findSchedule(q) \/ updateSchedule(q) \/ insertSchedule(q)
  \/ cancelIssueSend(q) \/ withdrawSchedules(q) \/ restoreIssue(q)
  \/ generateIssue(q) \/ markGenerating(q) \/ queueIssueGeneration(q)
  \/ persistIssueResult(q) \/ persistFailedResult(q) \/ failSchedules(q)
  \/ autoSchedule(q) \/ crashRequest(q)

ControlNext ==
  \/ WorkerNext /\ UNCHANGED <<req, begun>>
  \/ \E q \in Requests : requestStep(q)
  \/ updateSeriesStatus \/ deleteSeries
  \/ \E r \in Recipients : changeAudience(r)

ControlSpec == ControlInit /\ [][ControlNext]_controlVars

-----------------------------------------------------------------------------
(* What the variables can hold. *)
ControlTypeOK ==
  /\ TypeOK
  /\ req \in [Requests -> Request]
  /\ begun \in Nat

(* As long as nothing fails, an approved issue of a series that is not      *)
(* deleted has a row that is or was its send, or a request that goes on     *)
(* with it: no interleaving of approvals, cancellations, reschedules and    *)
(* generations leaves an issue that says approved and is never sent        *)
(* (handlers.go:1076-1090, handlers_issues.go:338-357, main.py:863-914).   *)
ApprovedHasSchedule ==
  faults = 0 /\ issue.status = "approved" /\ ~series.deleted =>
    \/ \E s \in Schedules : row[s].status \notin {"absent", "canceled"}
    \/ \E q \in Requests : req[q].stage \in {"find", "update", "insert", "restore"}

(* The refinement: the detailed send implements SendOnce.  A row waits     *)
(* while pending or claimed, and the audience of a try is the one of the   *)
(* handler that mails for the row.                                         *)
SendState(status) ==
  CASE status = "absent"                  -> "none"
    [] status \in {"pending", "claimed"} -> "waiting"
    [] status = "running"                -> "sending"
    [] status = "completed"              -> "sent"
    [] OTHER                             -> status

Once == INSTANCE SendOnce WITH
  Sends <- Schedules,
  state <- [s \in Schedules |-> SendState(row[s].status)],
  audience <- [s \in Schedules |->
                 UNION {worker[h].audience : h \in {k \in Handlers :
                                            Sending(k) /\ worker[k].job = s}}],
  copies <- inbox

(* Without faults other than refused mails, and with cancellations, pauses, *)
(* deletions and changes of the audience at any time, a send never mails    *)
(* an address twice, is never withdrawn once begun, and completes only     *)
(* when its audience is reached (delivery.go:113-123, 290-292).            *)
ImplementsSendOnce == Once!Spec
=============================================================================
