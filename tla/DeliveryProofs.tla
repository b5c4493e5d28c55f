--------------------------- MODULE DeliveryProofs ---------------------------
(***************************************************************************)
(* Theorems about Delivery, for every number of rows, scheduler loops,      *)
(* handlers and recipients and every bound.  Types come first: that the    *)
(* attempts of a row stay in range depends on which statuses have an       *)
(* attempt left, so the two are one invariant.                             *)
(*                                                                         *)
(* Then about SendControl, for every number of requests as well: types,     *)
(* that an approved issue has its send, and that the detailed send          *)
(* implements SendOnce.  The control worker keeps its invariants there      *)
(* too: the other writers leave its claims, tasks and handlers alone and   *)
(* move rows that wait only.                                               *)
(***************************************************************************)
EXTENDS SendControl, FiniteSetTheorems, TLAPS

(* What a handler is about to write when it settles its row.               *)
SettleVerdict ==
  \A h \in Handlers : worker[h].stage = "settle"
                        => worker[h].verdict \in {"completed", "failed", "retry"}

Typed == TypeOK /\ AttemptsWithinBudget /\ SettleVerdict

(* The attempts of a row fit its status.                                   *)
FitsBudget(r) == /\ r.status = "claimed" => r.attempts < MaxAttempts
                 /\ r.status = "running" => r.attempts \in 1..MaxAttempts

-----------------------------------------------------------------------------
(* Records.                                                                *)

LEMMA IdleRunTyped == IdleRun \in Run /\ IdleRun.stage = "idle"
BY DeliveryAssumption DEF IdleRun, Run, Stages, Verdicts, Addresses

LEMMA NewRowsTyped ==
  {NoRow, NewRow(TRUE), NewRow(FALSE)}
    \subseteq {r \in Row : r.status \in {"absent", "pending"}}
BY DeliveryAssumption DEF NoRow, NewRow, Row, Statuses

(* Entering a status keeps everything of the row but its age.              *)
LEMMA EnterRow ==
  ASSUME NEW r \in Row, NEW status \in Statuses
  PROVE  /\ enter(r, status) \in Row
         /\ enter(r, status).status = status
         /\ enter(r, status).attempts = r.attempts
         /\ ~enter(r, status).aged
BY DEF enter, Row

LEMMA AfterPreflight ==
  ASSUME NEW r \in Row, NEW verdict, r.status = "claimed", FitsBudget(r)
  PROVE  afterPreflight(r, verdict) \in Row /\ FitsBudget(afterPreflight(r, verdict))
<1>1. enter(r, "running") \in Row /\ enter(r, "pending") \in Row
      /\ enter(r, "canceled") \in Row /\ enter(r, "failed") \in Row
  BY EnterRow DEF Statuses
<1>2. r.attempts \in 0..MaxAttempts /\ r.attempts < MaxAttempts /\ MaxAttempts \in Nat
  BY DeliveryAssumption DEF Row, FitsBudget
<1>3. CASE verdict = "send"
  <2> DEFINE new == [enter(r, "running") EXCEPT !.attempts = @ + 1]
  <2>1. afterPreflight(r, verdict) = new
    BY <1>3 DEF afterPreflight
  <2>2. enter(r, "running").status = "running" /\ enter(r, "running").attempts = r.attempts
    BY EnterRow DEF Statuses
  <2>3. r.attempts + 1 \in 1..MaxAttempts
    BY <1>2
  <2>4. new \in Row /\ new.status = "running" /\ new.attempts = r.attempts + 1
    BY <1>1, <2>2, <2>3 DEF Row
  <2> QED
    BY <2>1, <2>3, <2>4 DEF FitsBudget
<1>4. CASE verdict = "defer"
  <2> DEFINE new == [enter(r, "pending") EXCEPT !.due = FALSE]
  <2>1. afterPreflight(r, verdict) = new
    BY <1>4 DEF afterPreflight
  <2>2. new \in Row /\ new.status = "pending"
    BY <1>1, EnterRow DEF Row, Statuses
  <2> QED
    BY <2>1, <2>2 DEF FitsBudget
<1>5. CASE verdict \notin {"send", "defer"}
  <2>1. afterPreflight(r, verdict) \in {enter(r, "canceled"), enter(r, "failed")}
    BY <1>5 DEF afterPreflight
  <2>2. enter(r, "canceled").status = "canceled" /\ enter(r, "failed").status = "failed"
    BY EnterRow DEF Statuses
  <2> QED
    BY <1>1, <2>1, <2>2 DEF FitsBudget
<1> QED
  BY <1>3, <1>4, <1>5

LEMMA AfterSend ==
  ASSUME NEW r \in Row, NEW verdict \in {"completed", "failed", "retry"}
  PROVE  afterSend(r, verdict) \in Row /\ FitsBudget(afterSend(r, verdict))
<1>1. CASE verdict = "retry"
  <2> DEFINE new == [enter(r, "pending") EXCEPT !.due = FALSE]
  <2>1. enter(r, "pending") \in Row /\ enter(r, "pending").status = "pending"
    BY EnterRow DEF Statuses
  <2>2. new \in Row /\ new.status = "pending"
    BY <2>1 DEF Row
  <2> QED
    BY <1>1, <2>2 DEF FitsBudget, afterSend
<1>2. CASE verdict # "retry"
  BY <1>2, EnterRow DEF FitsBudget, afterSend, Statuses
<1> QED
  BY <1>1, <1>2

-----------------------------------------------------------------------------
(* How a step may change the table and the handlers.                       *)

LEMMA BudgetIsFit ==
  AttemptsWithinBudget <=> \A s \in Schedules : FitsBudget(row[s])
BY DEF AttemptsWithinBudget, FitsBudget

(* A step that writes one row.                                             *)
LEMMA OneRow ==
  ASSUME Typed, NEW s \in Schedules, NEW r \in Row, FitsBudget(r),
         row' = [row EXCEPT ![s] = r]
  PROVE  row' \in [Schedules -> Row] /\ AttemptsWithinBudget'
<1>1. row' \in [Schedules -> Row]
  BY DEF Typed, TypeOK
<1>2. \A t \in Schedules : row'[t] = IF t = s THEN r ELSE row[t]
  BY DEF Typed, TypeOK
<1>3. \A t \in Schedules : FitsBudget(row[t])
  BY BudgetIsFit DEF Typed
<1>4. \A t \in Schedules : FitsBudget(row'[t])
  BY <1>2, <1>3
<1> QED
  BY <1>1, <1>4 DEF AttemptsWithinBudget, FitsBudget

(* A step that moves some rows into one status.                            *)
LEMMA SomeRows ==
  ASSUME Typed, NEW S \in SUBSET Schedules, NEW status \in Statuses, status # "running",
         status = "claimed" => \A s \in S : row[s].attempts < MaxAttempts,
         row' = [s \in Schedules |-> IF s \in S THEN enter(row[s], status) ELSE row[s]]
  PROVE  row' \in [Schedules -> Row] /\ AttemptsWithinBudget'
<1>1. \A s \in Schedules : row[s] \in Row /\ FitsBudget(row[s])
  BY BudgetIsFit DEF Typed, TypeOK
<1>2. \A s \in S : enter(row[s], status) \in Row /\ FitsBudget(enter(row[s], status))
  BY <1>1, EnterRow DEF FitsBudget
<1>3. \A s \in Schedules : row'[s] \in Row /\ FitsBudget(row'[s])
  BY <1>1, <1>2
<1> QED
  BY <1>3 DEF AttemptsWithinBudget, FitsBudget

(* A step of one handler.                                                  *)
LEMMA OneRun ==
  ASSUME Typed, NEW h \in Handlers, NEW run \in Run,
         run.stage = "settle" => run.verdict \in {"completed", "failed", "retry"},
         become(h, run)
  PROVE  worker' \in [Handlers -> Run] /\ SettleVerdict'
<1>1. worker' \in [Handlers -> Run]
  BY DEF Typed, TypeOK, become
<1>2. \A k \in Handlers : worker'[k] = IF k = h THEN run ELSE worker[k]
  BY DEF Typed, TypeOK, become
<1> QED
  BY <1>1, <1>2 DEF Typed, SettleVerdict

LEMMA ReturnTyped ==
  ASSUME Typed, NEW h \in Handlers, Return(h)
  PROVE  worker' \in [Handlers -> Run] /\ SettleVerdict'
BY OneRun, IdleRunTyped DEF Return

LEMMA RowsKept == ASSUME Typed, UNCHANGED row
                  PROVE  row' \in [Schedules -> Row] /\ AttemptsWithinBudget'
BY DEF Typed, TypeOK, AttemptsWithinBudget

LEMMA RunsKept == ASSUME Typed, UNCHANGED worker
                  PROVE  worker' \in [Handlers -> Run] /\ SettleVerdict'
BY DEF Typed, TypeOK, SettleVerdict

LEMMA DbTyped ==
  ASSUME Typed, NEW h \in Handlers, DbWorks(h) \/ DbFails(h) PROVE faults' \in Nat
BY DEF Typed, TypeOK, DbWorks, DbFails, Fault, NoFault

-----------------------------------------------------------------------------
LEMMA TypedInit == Init => Typed
<1> SUFFICES ASSUME Init PROVE Typed
  OBVIOUS
<1>1. row \in [Schedules -> Row]
  BY NewRowsTyped DEF Init
<1>2. \A s \in Schedules : row[s].status \in {"absent", "pending"}
  BY NewRowsTyped DEF Init
<1>3. worker \in [Handlers -> Run] /\ \A h \in Handlers : worker[h].stage = "idle"
  BY IdleRunTyped DEF Init, InitProcesses
<1>4. issue \in [status: IssueStatuses, content: BOOLEAN]
  BY DEF Init, InitTables, IssueStates, IssueStatuses
<1>5. TypeOK
  BY <1>1, <1>3, <1>4 DEF TypeOK, Init, InitTables, InitProcesses
<1> QED
  BY <1>2, <1>3, <1>5 DEF Typed, AttemptsWithinBudget, SettleVerdict

LEMMA TypedPoller ==
  ASSUME Typed, NEW p \in Pollers, pollerStep(p) PROVE Typed'
<1>1. ASSUME NEW S \in SUBSET Schedules, processDueJobs(p, S) PROVE Typed'
  <2>1. row' \in [Schedules -> Row] /\ AttemptsWithinBudget'
    BY <1>1, SomeRows DEF processDueJobs, Eligible, Statuses
  <2>2. worker' \in [Handlers -> Run] /\ SettleVerdict'
    BY <1>1, RunsKept DEF processDueJobs
  <2> QED
    BY <1>1, <2>1, <2>2 DEF processDueJobs, Typed, TypeOK
<1>2. ASSUME NEW s \in Schedules, enqueueTask(p, s) PROVE Typed'
  <2>1. AttemptsWithinBudget' /\ SettleVerdict'
    BY <1>2, RowsKept, RunsKept DEF enqueueTask, tableVars
  <2>2. TypeOK'
    BY <1>2 DEF enqueueTask, tableVars, Fault, NoFault, Typed, TypeOK
  <2> QED
    BY <2>1, <2>2 DEF Typed
<1>3. ASSUME NEW s \in Schedules, putBack(p, s) PROVE Typed'
  <2>1. row' \in [Schedules -> Row] /\ AttemptsWithinBudget'
    <3>1. CASE UNCHANGED row
      BY <3>1, RowsKept
    <3>2. CASE row' = [row EXCEPT ![s] = enter(@, "pending")]
      <4>1. row' = [row EXCEPT ![s] = enter(row[s], "pending")] /\ row[s] \in Row
        BY <3>2 DEF Typed, TypeOK
      <4>2. enter(row[s], "pending") \in Row /\ FitsBudget(enter(row[s], "pending"))
        BY <4>1, EnterRow DEF FitsBudget, Statuses
      <4> QED
        BY <4>1, <4>2, OneRow
    <3> QED
      BY <1>3, <3>1, <3>2 DEF putBack
  <2>2. worker' \in [Handlers -> Run] /\ SettleVerdict'
    BY <1>3, RunsKept DEF putBack
  <2> QED
    BY <1>3, <2>1, <2>2 DEF putBack, Typed, TypeOK, Fault, NoFault
<1>4. ASSUME crashPoller(p) PROVE Typed'
  <2>1. AttemptsWithinBudget' /\ SettleVerdict'
    BY <1>4, RowsKept, RunsKept DEF crashPoller, tableVars
  <2> QED
    BY <1>4, <2>1 DEF crashPoller, tableVars, Fault, Typed, TypeOK
<1> QED
  BY <1>1, <1>2, <1>3, <1>4 DEF pollerStep

(* DeliverScheduled, action by action.                                     *)
LEMMA TypedLoad == ASSUME Typed, NEW h \in Handlers, loadIssue(h) PROVE Typed'
<1> DEFINE run == [worker[h] EXCEPT !.stage = "decide", !.verdict = decideDelivery]
<1>1. worker[h] \in Run /\ decideDelivery \in {"cancel", "defer", "send", "fail"}
  BY DEF Typed, TypeOK, decideDelivery
<1>2. run \in Run /\ run.stage = "decide"
  BY <1>1 DEF Run, Stages, Verdicts
<1>3. Return(h) \/ become(h, run)
  BY DEF loadIssue
<1>4. worker' \in [Handlers -> Run] /\ SettleVerdict'
  BY <1>2, <1>3, OneRun, ReturnTyped
<1>5. row' \in [Schedules -> Row] /\ AttemptsWithinBudget'
  BY RowsKept DEF loadIssue, tableVars
<1>6. faults' \in Nat
  BY DbTyped DEF loadIssue
<1> QED
  BY <1>4, <1>5, <1>6 DEF loadIssue, tableVars, queueVars, Typed, TypeOK

LEMMA TypedPreflight == ASSUME Typed, NEW h \in Handlers, preflight(h) PROVE Typed'
<1> DEFINE s == worker[h].job
           run == [worker[h] EXCEPT !.stage = "list"]
           r == afterPreflight(row[s], worker[h].verdict)
<1>1. worker[h] \in Run /\ s \in Schedules /\ row[s] \in Row /\ FitsBudget(row[s])
  BY BudgetIsFit DEF Typed, TypeOK, Run
<1>2. run \in Run /\ run.stage = "list"
  BY <1>1 DEF Run, Stages
<1>3. Return(h) \/ become(h, run)
  BY DEF preflight
<1>4. worker' \in [Handlers -> Run] /\ SettleVerdict'
  BY <1>2, <1>3, OneRun, ReturnTyped
<1>5. UNCHANGED row \/ (row[s].status = "claimed" /\ row' = [row EXCEPT ![s] = r])
  BY DEF preflight, transition
<1>6. row' \in [Schedules -> Row] /\ AttemptsWithinBudget'
  <2>1. CASE UNCHANGED row
    BY <2>1, RowsKept
  <2>2. CASE row[s].status = "claimed" /\ row' = [row EXCEPT ![s] = r]
    <3>1. r \in Row /\ FitsBudget(r)
      BY <1>1, <2>2, AfterPreflight
    <3> QED
      BY <1>1, <2>2, <3>1, OneRow
  <2> QED
    BY <1>5, <2>1, <2>2
<1>7. faults' \in Nat
  BY DbTyped DEF preflight
<1> QED
  BY <1>4, <1>6, <1>7 DEF preflight, queueVars, Typed, TypeOK

LEMMA TypedList == ASSUME Typed, NEW h \in Handlers, listRecipients(h) PROVE Typed'
<1> DEFINE failed == [worker[h] EXCEPT !.stage = "reload", !.erred = TRUE]
           listed == [worker[h] EXCEPT !.stage = "next", !.audience = recipientEmails,
                                       !.todo = recipientEmails]
<1>1. worker[h] \in Run /\ recipientEmails \in SUBSET Addresses
  BY DEF Typed, TypeOK, recipientEmails, Addresses
<1>2. failed \in Run /\ failed.stage = "reload" /\ listed \in Run /\ listed.stage = "next"
  BY <1>1 DEF Run, Stages
<1>3. worker' \in [Handlers -> Run] /\ SettleVerdict'
  BY <1>2, OneRun DEF listRecipients
<1>4. row' \in [Schedules -> Row] /\ AttemptsWithinBudget'
  BY RowsKept DEF listRecipients, tableVars
<1>5. faults' \in Nat
  BY DbTyped DEF listRecipients
<1> QED
  BY <1>3, <1>4, <1>5 DEF listRecipients, tableVars, queueVars, Typed, TypeOK

LEMMA TypedRecipient ==
  ASSUME Typed, NEW h \in Handlers, NEW a \in Addresses, nextRecipient(h, a) PROVE Typed'
<1> DEFINE skipped == [worker[h] EXCEPT !.todo = @ \ {a}]
           mailed == [worker[h] EXCEPT !.stage = "mail", !.current = a]
<1>1. worker[h] \in Run /\ worker[h].stage = "next"
  BY DEF Typed, TypeOK, nextRecipient
<1>2. skipped \in Run /\ skipped.stage = "next" /\ mailed \in Run /\ mailed.stage = "mail"
  BY <1>1 DEF Run, Stages
<1>3. worker' \in [Handlers -> Run] /\ SettleVerdict'
  BY <1>2, OneRun DEF nextRecipient
<1>4. row' \in [Schedules -> Row] /\ AttemptsWithinBudget'
  BY RowsKept DEF nextRecipient, tableVars
<1>5. faults' \in Nat
  BY DbTyped DEF nextRecipient
<1> QED
  BY <1>3, <1>4, <1>5 DEF nextRecipient, tableVars, queueVars, Typed, TypeOK

LEMMA TypedMail == ASSUME Typed, NEW h \in Handlers, mailSend(h) PROVE Typed'
<1> DEFINE answered(ok) == [worker[h] EXCEPT !.stage = "record", !.accepted = ok]
<1>1. worker[h] \in Run
  BY DEF Typed, TypeOK
<1>2. \A ok \in BOOLEAN : answered(ok) \in Run /\ answered(ok).stage = "record"
  BY <1>1 DEF Run, Stages
<1>3. \E ok \in BOOLEAN : become(h, answered(ok))
  BY DEF mailSend
<1>4. worker' \in [Handlers -> Run] /\ SettleVerdict'
  BY <1>2, <1>3, OneRun
<1>5. row' \in [Schedules -> Row] /\ AttemptsWithinBudget'
  BY RowsKept DEF mailSend, tableVars
<1>6. inbox' \in [Addresses -> Nat]
  BY DEF mailSend, Typed, TypeOK
<1>7. faults' \in Nat
  BY DEF mailSend, Fault, NoFault, Typed, TypeOK
<1> QED
  BY <1>4, <1>5, <1>6, <1>7 DEF mailSend, tableVars, queueVars, Typed, TypeOK

LEMMA TypedRecord == ASSUME Typed, NEW h \in Handlers, recordDelivery(h) PROVE Typed'
<1> DEFINE run == [worker[h] EXCEPT !.stage = "next", !.todo = @ \ {worker[h].current},
                                    !.accepted = FALSE, !.erred = @ \/ ~worker[h].accepted]
<1>1. worker[h] \in Run
  BY DEF Typed, TypeOK
<1>2. run \in Run /\ run.stage = "next"
  BY <1>1 DEF Run, Stages
<1>3. become(h, run)
  BY DEF recordDelivery
<1>4. worker' \in [Handlers -> Run] /\ SettleVerdict'
  BY <1>2, <1>3, OneRun
<1>5. row' \in [Schedules -> Row] /\ AttemptsWithinBudget'
  BY RowsKept DEF recordDelivery
<1>6. recorded' \in [Addresses -> {"none", "submitted", "delivered", "failed"}]
  BY DEF recordDelivery, Typed, TypeOK
<1>7. faults' \in Nat
  BY DbTyped DEF recordDelivery
<1> QED
  BY <1>4, <1>5, <1>6, <1>7 DEF recordDelivery, queueVars, Typed, TypeOK

LEMMA TypedFinish == ASSUME Typed, NEW h \in Handlers, finishIssue(h) PROVE Typed'
<1> DEFINE ended == [worker[h] EXCEPT !.stage = "reload"]
           failed == [worker[h] EXCEPT !.stage = "reload", !.erred = TRUE]
<1>1. worker[h] \in Run
  BY DEF Typed, TypeOK
<1>2. ended \in Run /\ ended.stage = "reload" /\ failed \in Run /\ failed.stage = "reload"
  BY <1>1 DEF Run, Stages
<1>3. become(h, ended) \/ become(h, failed)
  BY DEF finishIssue
<1>4. worker' \in [Handlers -> Run] /\ SettleVerdict'
  BY <1>2, <1>3, OneRun
<1>5. row' \in [Schedules -> Row] /\ AttemptsWithinBudget'
  BY RowsKept DEF finishIssue
<1>6. issue' \in [status: IssueStatuses, content: BOOLEAN]
  BY DEF finishIssue, Typed, TypeOK, IssueStatuses
<1>7. faults' \in Nat
  BY DbTyped DEF finishIssue, NoFault, Typed, TypeOK
<1> QED
  BY <1>4, <1>5, <1>6, <1>7 DEF finishIssue, queueVars, Typed, TypeOK

LEMMA TypedReload == ASSUME Typed, NEW h \in Handlers, reloadSchedule(h) PROVE Typed'
<1> DEFINE settling(v) == [worker[h] EXCEPT !.stage = "settle", !.verdict = v]
<1>1. worker[h] \in Run
  BY DEF Typed, TypeOK
<1>2. \A v \in {"completed", "failed", "retry"} :
        settling(v) \in Run /\ settling(v).verdict = v
  BY <1>1 DEF Run, Stages, Verdicts
<1>3. Return(h) \/ \E v \in {"completed", "failed", "retry"} : become(h, settling(v))
  BY DEF reloadSchedule
<1>4. worker' \in [Handlers -> Run] /\ SettleVerdict'
  BY <1>2, <1>3, OneRun, ReturnTyped
<1>5. row' \in [Schedules -> Row] /\ AttemptsWithinBudget'
  BY RowsKept DEF reloadSchedule, tableVars
<1>6. faults' \in Nat
  BY DbTyped DEF reloadSchedule
<1> QED
  BY <1>4, <1>5, <1>6 DEF reloadSchedule, tableVars, queueVars, Typed, TypeOK

LEMMA TypedSettle == ASSUME Typed, NEW h \in Handlers, settle(h) PROVE Typed'
<1> DEFINE s == worker[h].job
           r == afterSend(row[s], worker[h].verdict)
<1>1. s \in Schedules /\ row[s] \in Row
  BY DEF Typed, TypeOK, Run
<1>2. r \in Row /\ FitsBudget(r)
  BY <1>1, AfterSend DEF settle, Typed, SettleVerdict
<1>3. UNCHANGED row \/ row' = [row EXCEPT ![s] = r]
  BY DEF settle, transition
<1>4. row' \in [Schedules -> Row] /\ AttemptsWithinBudget'
  BY <1>1, <1>2, <1>3, RowsKept, OneRow
<1>5. worker' \in [Handlers -> Run] /\ SettleVerdict'
  BY ReturnTyped DEF settle
<1>6. faults' \in Nat
  BY DbTyped DEF settle
<1> QED
  BY <1>4, <1>5, <1>6 DEF settle, queueVars, Typed, TypeOK

LEMMA TypedHandler ==
  ASSUME Typed, NEW h \in Handlers, handlerStep(h) PROVE Typed'
BY TypedLoad, TypedPreflight, TypedList, TypedRecipient, TypedMail, TypedRecord,
   TypedFinish, TypedReload, TypedSettle DEF handlerStep

-----------------------------------------------------------------------------
(* Asynq, processes and time.                                              *)

LEMMA TypedTake ==
  ASSUME Typed, NEW h \in Handlers, NEW s \in Schedules, DeliverIssueTask(h, s) PROVE Typed'
<1> DEFINE run == [worker[h] EXCEPT !.stage = "load", !.job = s, !.ctx = TRUE]
<1>1. worker[h] \in Run
  BY DEF Typed, TypeOK
<1>2. run \in Run /\ run.stage = "load"
  BY <1>1 DEF Run, Stages
<1>3. worker' \in [Handlers -> Run] /\ SettleVerdict'
  BY <1>2, OneRun DEF DeliverIssueTask
<1>4. row' \in [Schedules -> Row] /\ AttemptsWithinBudget'
  BY RowsKept DEF DeliverIssueTask, tableVars
<1>5. queued' \in [Schedules -> Nat]
  BY DEF DeliverIssueTask, Typed, TypeOK
<1> QED
  BY <1>3, <1>4, <1>5 DEF DeliverIssueTask, tableVars, Typed, TypeOK

LEMMA TypedExpire == ASSUME Typed, NEW h \in Handlers, expireContext(h) PROVE Typed'
<1> DEFINE run == [worker[h] EXCEPT !.ctx = FALSE]
<1>1. worker[h] \in Run
  BY DEF Typed, TypeOK
<1>2. run \in Run /\ run.stage = worker[h].stage /\ run.verdict = worker[h].verdict
  BY <1>1 DEF Run
<1>3. worker' \in [Handlers -> Run] /\ SettleVerdict'
  BY <1>2, OneRun DEF expireContext, Typed, SettleVerdict
<1>4. row' \in [Schedules -> Row] /\ AttemptsWithinBudget'
  BY RowsKept DEF expireContext, tableVars
<1> QED
  BY <1>3, <1>4 DEF expireContext, Fault, tableVars, queueVars, Typed, TypeOK

LEMMA TypedCrash == ASSUME Typed, NEW h \in Handlers, crashHandler(h) PROVE Typed'
<1>1. worker' \in [Handlers -> Run] /\ SettleVerdict'
  BY ReturnTyped DEF crashHandler
<1>2. row' \in [Schedules -> Row] /\ AttemptsWithinBudget'
  BY RowsKept DEF crashHandler, tableVars
<1>3. queued' \in [Schedules -> Nat]
  BY DEF crashHandler, Typed, TypeOK
<1> QED
  BY <1>1, <1>2, <1>3 DEF crashHandler, Fault, tableVars, Typed, TypeOK

LEMMA TypedTime ==
  ASSUME Typed, NEW s \in Schedules, becomeDue(s) \/ becomeAged(s) PROVE Typed'
<1> DEFINE due == [row[s] EXCEPT !.due = TRUE]
           aged == [row[s] EXCEPT !.aged = TRUE]
<1>1. row[s] \in Row /\ FitsBudget(row[s])
  BY BudgetIsFit DEF Typed, TypeOK
<1>2. due \in Row /\ FitsBudget(due) /\ aged \in Row /\ FitsBudget(aged)
  BY <1>1 DEF Row, FitsBudget
<1>3. row' = [row EXCEPT ![s] = due] \/ row' = [row EXCEPT ![s] = aged]
  BY DEF becomeDue, becomeAged
<1>4. row' \in [Schedules -> Row] /\ AttemptsWithinBudget'
  BY <1>2, <1>3, OneRow
<1>5. worker' \in [Handlers -> Run] /\ SettleVerdict'
  BY RunsKept DEF becomeDue, becomeAged
<1>6. faults' \in Nat
  BY DEF becomeDue, becomeAged, Fault, NoFault, Typed, TypeOK
<1> QED
  BY <1>4, <1>5, <1>6 DEF becomeDue, becomeAged, queueVars, Typed, TypeOK

LEMMA TypedSweep == ASSUME Typed, sweep \/ sweepIssues PROVE Typed'
<1>1. ASSUME sweep PROVE Typed'
  <2> DEFINE S == {s \in Schedules : Stuck(s)}
  <2>1. row' = [s \in Schedules |-> IF s \in S THEN enter(row[s], "pending") ELSE row[s]]
    BY <1>1 DEF sweep
  <2>2. row' \in [Schedules -> Row] /\ AttemptsWithinBudget'
    BY <2>1, SomeRows DEF Statuses
  <2>3. worker' \in [Handlers -> Run] /\ SettleVerdict'
    BY <1>1, RunsKept DEF sweep
  <2> QED
    BY <1>1, <2>2, <2>3 DEF sweep, queueVars, Typed, TypeOK
<1>2. ASSUME sweepIssues PROVE Typed'
  <2>1. AttemptsWithinBudget' /\ SettleVerdict'
    BY <1>2, RowsKept, RunsKept DEF sweepIssues
  <2> QED
    BY <1>2, <2>1 DEF sweepIssues, queueVars, IssueStatuses, Typed, TypeOK
<1> QED
  BY <1>1, <1>2

LEMMA TypedNext == Typed /\ [WorkerNext]_vars => Typed'
<1> SUFFICES ASSUME Typed, [WorkerNext]_vars PROVE Typed'
  OBVIOUS
<1>1. CASE UNCHANGED vars
  <2>1. AttemptsWithinBudget' /\ SettleVerdict'
    BY <1>1, RowsKept, RunsKept DEF vars
  <2> QED
    BY <1>1, <2>1 DEF vars, Typed, TypeOK
<1>2. ASSUME NEW p \in Pollers, pollerStep(p) PROVE Typed'
  BY <1>2, TypedPoller
<1>3. ASSUME NEW s \in Schedules, rowStep(s) PROVE Typed'
  BY <1>3, TypedTime, TypedTake DEF rowStep
<1>4. ASSUME NEW h \in Handlers, handlerStep(h) \/ expireContext(h) \/ crashHandler(h)
      PROVE Typed'
  BY <1>4, TypedHandler, TypedExpire, TypedCrash
<1> QED
  BY <1>1, <1>2, <1>3, <1>4, TypedSweep DEF WorkerNext

(* Every reachable state is well typed and every row that is claimed has an *)
(* attempt left.                                                           *)
THEOREM SpecTyped == Spec => []Typed
BY TypedInit, TypedNext, PTL DEF Spec

(* Type correctness of the control worker.                                 *)
THEOREM TypeCorrect == Spec => []TypeOK
<1>1. Typed => TypeOK
  BY DEF Typed
<1> QED
  BY <1>1, SpecTyped, PTL

(* No interleaving of claims, retries, reclaims and put-backs lets a row    *)
(* run more than max_attempts times between two rewrites of it.            *)
THEOREM AttemptsBudget == Spec => []AttemptsWithinBudget
<1>1. Typed => AttemptsWithinBudget
  BY DEF Typed
<1> QED
  BY <1>1, SpecTyped, PTL

-----------------------------------------------------------------------------
(* One live sender.  The status of a row is a lock: preflight takes it when *)
(* it moves the row from claimed to running, settle gives it back, and the *)
(* watchdog may break it only after the context of its holder has expired.  *)
(* A put-back after a failed enqueue breaks it at any time, so enqueues are *)
(* assumed not to fail.                                                    *)

LiveRun(run) == run.stage \in SendStages /\ run.ctx

(* The holder of the lock cannot be reclaimed.                             *)
LiveRowIsFresh == \A h \in Handlers : Live(h) => ~row[worker[h].job].aged

Locked == LiveSenderOwnsRow /\ OneLiveSender /\ LiveRowIsFresh

NothingBounced == \A p \in Pollers : bounced[p] = {}

LEMMA LiveIsLiveRun == \A h : Live(h) <=> LiveRun(worker[h])
BY DEF Live, Sending, LiveRun

(* Rows change, but not those of the live handlers.                        *)
LEMMA LockedRows ==
  ASSUME Typed, Locked, UNCHANGED worker,
         \A h \in Handlers : Live(h) => row'[worker[h].job] = row[worker[h].job]
  PROVE  Locked'
<1>1. \A h \in Handlers : Live(h)' <=> Live(h)
  BY DEF Live, Sending
<1> QED
  BY <1>1 DEF Locked, LiveSenderOwnsRow, OneLiveSender, LiveRowIsFresh

(* A handler changes, and is not live afterwards.                          *)
LEMMA LockedQuiet ==
  ASSUME Typed, Locked, NEW h \in Handlers, NEW run, become(h, run), ~LiveRun(run),
         \A k \in Handlers \ {h} : Live(k) => row'[worker[k].job] = row[worker[k].job]
  PROVE  Locked'
<1>1. \A k \in Handlers : worker'[k] = IF k = h THEN run ELSE worker[k]
  BY DEF become, Typed, TypeOK
<1>2. \A k \in Handlers : Live(k)' => k # h /\ Live(k) /\ worker'[k] = worker[k]
  BY <1>1 DEF Live, Sending, LiveRun
<1> QED
  BY <1>2 DEF Locked, LiveSenderOwnsRow, OneLiveSender, LiveRowIsFresh

(* A handler goes on mailing for the same row.                             *)
LEMMA LockedProgress ==
  ASSUME Typed, Locked, NEW h \in Handlers, NEW run, become(h, run), UNCHANGED row,
         Sending(h), run.job = worker[h].job, run.ctx = worker[h].ctx
  PROVE  Locked'
<1>1. \A k \in Handlers : worker'[k] = IF k = h THEN run ELSE worker[k]
  BY DEF become, Typed, TypeOK
<1>2. \A k \in Handlers : Live(k)' => Live(k) /\ worker'[k].job = worker[k].job
  BY <1>1 DEF Live, Sending
<1> QED
  BY <1>2 DEF Locked, LiveSenderOwnsRow, OneLiveSender, LiveRowIsFresh

(* A handler returns, with the table unchanged.                            *)
LEMMA LockedReturn ==
  ASSUME Typed, Locked, NEW h \in Handlers, Return(h), UNCHANGED row
  PROVE  Locked'
<1>1. ~LiveRun(IdleRun)
  BY IdleRunTyped DEF LiveRun, SendStages
<1> QED
  BY <1>1, LockedQuiet DEF Return

LEMMA LockedInit == Init => Locked /\ NothingBounced
<1> SUFFICES ASSUME Init PROVE Locked /\ NothingBounced
  OBVIOUS
<1>1. \A h \in Handlers : ~Live(h)
  BY IdleRunTyped DEF Init, InitProcesses, Live, Sending, SendStages
<1> QED
  BY <1>1 DEF Init, InitProcesses, Locked, LiveSenderOwnsRow, OneLiveSender,
              LiveRowIsFresh, NothingBounced

LEMMA BouncedNext ==
  ASSUME {"enqueue", "lost_enqueue"} \cap Faults = {}, Typed, NothingBounced, [WorkerNext]_vars
  PROVE  NothingBounced'
<1>1. CASE UNCHANGED bounced
  BY <1>1 DEF NothingBounced
<1>2. ASSUME NEW p \in Pollers, pollerStep(p) PROVE NothingBounced'
  <2>1. ASSUME NEW S \in SUBSET Schedules, processDueJobs(p, S) PROVE UNCHANGED bounced
    BY <2>1 DEF processDueJobs
  <2>2. ASSUME NEW s \in Schedules, enqueueTask(p, s) PROVE UNCHANGED bounced
    BY <2>2 DEF enqueueTask, Fault
  <2>3. ASSUME NEW s \in Schedules, putBack(p, s) PROVE FALSE
    BY <2>3 DEF putBack, NothingBounced
  <2>4. ASSUME crashPoller(p) PROVE NothingBounced'
    BY <2>4 DEF crashPoller, NothingBounced, Typed, TypeOK
  <2> QED
    BY <1>1, <1>2, <2>1, <2>2, <2>3, <2>4 DEF pollerStep
<1>3. ASSUME NEW s \in Schedules, rowStep(s) PROVE UNCHANGED bounced
  BY <1>3 DEF rowStep, becomeDue, becomeAged, DeliverIssueTask, queueVars
<1>4. ASSUME NEW h \in Handlers, handlerStep(h) PROVE UNCHANGED bounced
  BY <1>4 DEF handlerStep, loadIssue, preflight, listRecipients, nextRecipient, mailSend,
              recordDelivery, finishIssue, reloadSchedule, settle, queueVars
<1>5. ASSUME NEW h \in Handlers, expireContext(h) \/ crashHandler(h) PROVE UNCHANGED bounced
  BY <1>5 DEF expireContext, crashHandler, queueVars
<1>6. ASSUME sweep \/ sweepIssues PROVE UNCHANGED bounced
  BY <1>6 DEF sweep, sweepIssues, queueVars
<1> QED
  BY <1>1, <1>2, <1>3, <1>4, <1>5, <1>6 DEF WorkerNext, vars

LEMMA LockedPoller ==
  ASSUME Typed, Locked, NothingBounced, NEW p \in Pollers, pollerStep(p) PROVE Locked'
<1>1. ASSUME NEW S \in SUBSET Schedules, processDueJobs(p, S) PROVE Locked'
  <2>1. \A h \in Handlers : Live(h) => worker[h].job \in Schedules \ S
    BY <1>1 DEF processDueJobs, Eligible, Locked, LiveSenderOwnsRow, Typed, TypeOK, Run
  <2> QED
    BY <1>1, <2>1, LockedRows DEF processDueJobs
<1>2. ASSUME NEW s \in Schedules, enqueueTask(p, s) PROVE Locked'
  BY <1>2, LockedRows DEF enqueueTask, tableVars
<1>3. ASSUME NEW s \in Schedules, putBack(p, s) PROVE FALSE
  BY <1>3 DEF putBack, NothingBounced
<1>4. ASSUME crashPoller(p) PROVE Locked'
  BY <1>4, LockedRows DEF crashPoller, tableVars
<1> QED
  BY <1>1, <1>2, <1>3, <1>4 DEF pollerStep

(* Only a row that is claimed, and so not held, is moved by a preflight.    *)
LEMMA LockedPreflight == ASSUME Typed, Locked, NEW h \in Handlers, preflight(h) PROVE Locked'
<1> DEFINE s == worker[h].job
           run == [worker[h] EXCEPT !.stage = "list"]
           r == afterPreflight(row[s], worker[h].verdict)
<1>1. worker[h] \in Run /\ s \in Schedules /\ row[s] \in Row
  BY DEF Typed, TypeOK, Run
<1>2. CASE UNCHANGED row /\ Return(h)
  BY <1>2, LockedReturn
<1>3. CASE row[s].status = "claimed" /\ row' = [row EXCEPT ![s] = r]
  <2>1. \A t \in Schedules : row'[t] = IF t = s THEN r ELSE row[t]
    BY <1>3 DEF Typed, TypeOK
  <2>2. \A k \in Handlers : Live(k) => worker[k].job \in Schedules /\ worker[k].job # s
    BY <1>3 DEF Locked, LiveSenderOwnsRow, Typed, TypeOK, Run
  <2>3. CASE Return(h)
    <3>1. ~LiveRun(IdleRun)
      BY IdleRunTyped DEF LiveRun, SendStages
    <3> QED
      BY <2>1, <2>2, <2>3, <3>1, LockedQuiet DEF Return
  <2>4. CASE worker[h].verdict = "send" /\ become(h, run)
    <3>1. \A k \in Handlers : worker'[k] = IF k = h THEN run ELSE worker[k]
      BY <2>4 DEF become, Typed, TypeOK
    <3>2. run.job = s
      BY <1>1 DEF Run
    <3>3. \A k \in Handlers : Live(k)' => k = h \/ (Live(k) /\ worker'[k] = worker[k])
      BY <3>1 DEF Live, Sending
    <3>4. r.status = "running" /\ ~r.aged
      <4> DEFINE taken == enter(row[s], "running")
      <4>1. taken \in Row /\ taken.status = "running" /\ ~taken.aged
        BY <1>1, EnterRow DEF Statuses
      <4>2. r = [taken EXCEPT !.attempts = @ + 1]
        BY <2>4 DEF afterPreflight
      <4> QED
        BY <4>1, <4>2 DEF Row
    <3>5. ASSUME NEW k \in Handlers, Live(k)'
          PROVE  row'[worker'[k].job].status = "running" /\ ~row'[worker'[k].job].aged
      <4>1. CASE k = h
        BY <1>1, <2>1, <3>1, <3>2, <3>4, <4>1
      <4>2. CASE k # h
        BY <2>1, <2>2, <3>3, <3>5, <4>2 DEF Locked, LiveSenderOwnsRow, LiveRowIsFresh
      <4> QED
        BY <4>1, <4>2
    <3>6. ASSUME NEW j \in Handlers, NEW k \in Handlers, Live(j)', Live(k)',
                 worker'[j].job = worker'[k].job
          PROVE  j = k
      BY <2>2, <3>1, <3>2, <3>3, <3>6 DEF Locked, OneLiveSender
    <3> QED
      BY <3>5, <3>6 DEF Locked, LiveSenderOwnsRow, OneLiveSender, LiveRowIsFresh
  <2> QED
    BY <1>3, <2>3, <2>4 DEF preflight
<1>4. CASE UNCHANGED row /\ row[s].status # "claimed"
  BY <1>4, <1>2 DEF preflight
<1> QED
  BY <1>2, <1>3, <1>4 DEF preflight, transition

(* A live handler is alone with its row, so nobody else loses it.          *)
LEMMA LockedSettle == ASSUME Typed, Locked, NEW h \in Handlers, settle(h) PROVE Locked'
<1> DEFINE s == worker[h].job
           r == afterSend(row[s], worker[h].verdict)
<1>1. s \in Schedules
  BY DEF Typed, TypeOK, Run
<1>2. CASE UNCHANGED row
  BY <1>2, LockedReturn DEF settle
<1>3. CASE DbWorks(h) /\ row' = [row EXCEPT ![s] = r]
  <2>1. Live(h)
    BY <1>3 DEF settle, DbWorks, Live, Sending, SendStages
  <2>2. \A k \in Handlers \ {h} : Live(k) => worker[k].job # s
    BY <2>1 DEF Locked, OneLiveSender
  <2>3. \A t \in Schedules \ {s} : row'[t] = row[t]
    BY <1>3 DEF Typed, TypeOK
  <2>4. \A k \in Handlers : worker[k].job \in Schedules
    BY DEF Typed, TypeOK, Run
  <2>5. ~LiveRun(IdleRun)
    BY IdleRunTyped DEF LiveRun, SendStages
  <2> QED
    BY <2>2, <2>3, <2>4, <2>5, LockedQuiet DEF settle, Return
<1> QED
  BY <1>2, <1>3 DEF settle, transition

LEMMA LockedHandler ==
  ASSUME Typed, Locked, NEW h \in Handlers, handlerStep(h) PROVE Locked'
<1> DEFINE w == worker[h]
<1>0. w \in Run
  BY DEF Typed, TypeOK
<1>1. ASSUME loadIssue(h) PROVE Locked'
  <2> DEFINE run == [w EXCEPT !.stage = "decide", !.verdict = decideDelivery]
  <2>1. ~LiveRun(run)
    BY <1>0 DEF Run, LiveRun, SendStages
  <2>2. UNCHANGED row
    BY <1>1 DEF loadIssue, tableVars
  <2>3. Return(h) \/ become(h, run)
    BY <1>1 DEF loadIssue
  <2> QED
    BY <2>1, <2>2, <2>3, LockedReturn, LockedQuiet
<1>2. ASSUME listRecipients(h) PROVE Locked'
  <2> DEFINE failed == [w EXCEPT !.stage = "reload", !.erred = TRUE]
             listed == [w EXCEPT !.stage = "next", !.audience = recipientEmails,
                                 !.todo = recipientEmails]
  <2>1. failed.job = w.job /\ failed.ctx = w.ctx /\ listed.job = w.job /\ listed.ctx = w.ctx
    BY <1>0 DEF Run
  <2> QED
    BY <1>2, <2>1, LockedProgress DEF listRecipients, Sending, SendStages, tableVars
<1>3. ASSUME NEW a \in Addresses, nextRecipient(h, a) PROVE Locked'
  <2> DEFINE skipped == [w EXCEPT !.todo = @ \ {a}]
             mailed == [w EXCEPT !.stage = "mail", !.current = a]
  <2>1. skipped.job = w.job /\ skipped.ctx = w.ctx /\ mailed.job = w.job /\ mailed.ctx = w.ctx
    BY <1>0 DEF Run
  <2> QED
    BY <1>3, <2>1, LockedProgress DEF nextRecipient, Sending, SendStages, tableVars
<1>4. ASSUME mailSend(h) PROVE Locked'
  <2> DEFINE answered(ok) == [w EXCEPT !.stage = "record", !.accepted = ok]
  <2>1. \A ok \in BOOLEAN : answered(ok).job = w.job /\ answered(ok).ctx = w.ctx
    BY <1>0 DEF Run
  <2>2. \E ok \in BOOLEAN : become(h, answered(ok))
    BY <1>4 DEF mailSend
  <2> QED
    BY <1>4, <2>1, <2>2, LockedProgress DEF mailSend, Sending, SendStages, tableVars
<1>5. ASSUME recordDelivery(h) PROVE Locked'
  <2> DEFINE run == [w EXCEPT !.stage = "next", !.todo = @ \ {w.current},
                              !.accepted = FALSE, !.erred = @ \/ ~w.accepted]
  <2>1. run.job = w.job /\ run.ctx = w.ctx
    BY <1>0 DEF Run
  <2> QED
    BY <1>5, <2>1, LockedProgress DEF recordDelivery, Sending, SendStages
<1>6. ASSUME finishIssue(h) PROVE Locked'
  <2> DEFINE ended == [w EXCEPT !.stage = "reload"]
             failed == [w EXCEPT !.stage = "reload", !.erred = TRUE]
  <2>1. ended.job = w.job /\ ended.ctx = w.ctx /\ failed.job = w.job /\ failed.ctx = w.ctx
    BY <1>0 DEF Run
  <2> QED
    BY <1>6, <2>1, LockedProgress DEF finishIssue, Sending, SendStages
<1>7. ASSUME reloadSchedule(h) PROVE Locked'
  <2> DEFINE settling(v) == [w EXCEPT !.stage = "settle", !.verdict = v]
  <2>1. \A v \in Verdicts : settling(v).job = w.job /\ settling(v).ctx = w.ctx
    BY <1>0 DEF Run
  <2>2. Return(h) \/ \E v \in Verdicts : become(h, settling(v))
    BY <1>7 DEF reloadSchedule, Verdicts
  <2> QED
    BY <1>7, <2>1, <2>2, LockedReturn, LockedProgress
    DEF reloadSchedule, Sending, SendStages, tableVars
<1> QED
  BY <1>1, <1>2, <1>3, <1>4, <1>5, <1>6, <1>7, LockedPreflight, LockedSettle DEF handlerStep

LEMMA LockedRest ==
  ASSUME Typed, Locked, NEW h \in Handlers, NEW s \in Schedules,
         \/ DeliverIssueTask(h, s) \/ expireContext(h) \/ crashHandler(h)
         \/ becomeDue(s) \/ becomeAged(s)
  PROVE  Locked'
<1>0. worker[h] \in Run /\ \A k \in Handlers : worker[k].job \in Schedules
  BY DEF Typed, TypeOK, Run
<1>1. ASSUME DeliverIssueTask(h, s) PROVE Locked'
  <2> DEFINE run == [worker[h] EXCEPT !.stage = "load", !.job = s, !.ctx = TRUE]
  <2>1. ~LiveRun(run)
    BY <1>0 DEF Run, LiveRun, SendStages
  <2> QED
    BY <1>1, <2>1, LockedQuiet DEF DeliverIssueTask, tableVars
<1>2. ASSUME expireContext(h) PROVE Locked'
  <2> DEFINE run == [worker[h] EXCEPT !.ctx = FALSE]
  <2>1. ~LiveRun(run)
    BY <1>0 DEF Run, LiveRun
  <2> QED
    BY <1>2, <2>1, LockedQuiet DEF expireContext, tableVars
<1>3. ASSUME crashHandler(h) PROVE Locked'
  BY <1>3, LockedReturn DEF crashHandler, tableVars
<1>4. ASSUME becomeDue(s) \/ becomeAged(s) PROVE Locked'
  <2>1. \A k \in Handlers : Live(k) => worker[k].job # s
    <3>1. CASE becomeDue(s)
      BY <3>1 DEF becomeDue, Locked, LiveSenderOwnsRow
    <3>2. CASE becomeAged(s) /\ row[s].status = "claimed"
      BY <3>2 DEF Locked, LiveSenderOwnsRow
    <3>3. CASE becomeAged(s) /\ row[s].status = "running"
      BY <3>3 DEF becomeAged, Live
    <3> QED
      BY <1>4, <3>1, <3>2, <3>3 DEF becomeAged
  <2>2. \A t \in Schedules \ {s} : row'[t] = row[t]
    BY <1>4 DEF becomeDue, becomeAged, Typed, TypeOK
  <2> QED
    BY <1>0, <1>4, <2>1, <2>2, LockedRows DEF becomeDue, becomeAged
<1> QED
  BY <1>1, <1>2, <1>3, <1>4

LEMMA LockedSweep == ASSUME Typed, Locked, sweep \/ sweepIssues PROVE Locked'
<1>1. ASSUME sweep PROVE Locked'
  <2>1. \A h \in Handlers : Live(h) => worker[h].job \in Schedules /\ ~Stuck(worker[h].job)
    BY DEF Locked, LiveRowIsFresh, Stuck, Typed, TypeOK, Run
  <2> QED
    BY <1>1, <2>1, LockedRows DEF sweep
<1>2. ASSUME sweepIssues PROVE Locked'
  BY <1>2, LockedRows DEF sweepIssues
<1> QED
  BY <1>1, <1>2

LEMMA LockedNext ==
  ASSUME Typed, Locked, NothingBounced, [WorkerNext]_vars PROVE Locked'
<1>1. CASE UNCHANGED vars
  BY <1>1, LockedRows DEF vars
<1>2. ASSUME NEW p \in Pollers, pollerStep(p) PROVE Locked'
  BY <1>2, LockedPoller
<1>3. ASSUME NEW h \in Handlers, handlerStep(h) \/ expireContext(h) \/ crashHandler(h)
      PROVE Locked'
  BY <1>3, LockedHandler, LockedRest, DeliveryAssumption
<1>4. ASSUME NEW s \in Schedules, rowStep(s) PROVE Locked'
  <2>1. ASSUME NEW h \in Handlers, DeliverIssueTask(h, s) PROVE Locked'
    BY <2>1, LockedRest
  <2>2. ASSUME becomeDue(s) \/ becomeAged(s) PROVE Locked'
    <3>1. CASE Handlers = {}
      BY <2>2, <3>1, LockedRows DEF becomeDue, becomeAged
    <3>2. CASE Handlers # {}
      BY <2>2, <3>2, LockedRest
    <3> QED
      BY <3>1, <3>2
  <2> QED
    BY <1>4, <2>1, <2>2 DEF rowStep
<1> QED
  BY <1>1, <1>2, <1>3, <1>4, LockedSweep DEF WorkerNext

(* While enqueues do not fail, a row that a live handler is sending stays   *)
(* running, whatever the watchdog, retries, duplicate tasks, crashes and    *)
(* database errors do in the meantime.                                     *)
THEOREM LiveSendKeepsRow ==
  ASSUME {"enqueue", "lost_enqueue"} \cap Faults = {} PROVE Spec => []LiveSenderOwnsRow
<1>1. Locked /\ NothingBounced /\ Typed /\ [WorkerNext]_vars => (Locked /\ NothingBounced)'
  BY LockedNext, BouncedNext
<1>2. Locked => LiveSenderOwnsRow
  BY DEF Locked
<1> QED
  BY <1>1, <1>2, LockedInit, SpecTyped, PTL DEF Spec

(* While enqueues do not fail, no two handlers with a live context ever     *)
(* mail for the same row.                                                  *)
THEOREM NoSecondLiveSend ==
  ASSUME {"enqueue", "lost_enqueue"} \cap Faults = {} PROVE Spec => []OneLiveSender
<1>1. Locked /\ NothingBounced /\ Typed /\ [WorkerNext]_vars => (Locked /\ NothingBounced)'
  BY LockedNext, BouncedNext
<1>2. Locked => OneLiveSender
  BY DEF Locked
<1> QED
  BY <1>1, <1>2, LockedInit, SpecTyped, PTL DEF Spec

-----------------------------------------------------------------------------
(* A run without an error has reached its audience.  What a handler         *)
(* believes rests on the deliveries table, so the invariant says that the  *)
(* table never claims a copy nobody has, and that a handler has dealt with *)
(* every address of its audience that is no longer to do.                  *)

Reached(a) == inbox[a] > 0
WillBeReached(a) == inbox'[a] > 0

RecordedIsReached == \A a \in Addresses : recorded[a] \in {"submitted", "delivered"} => Reached(a)

RunReached(run) ==
  /\ run.stage = "record" /\ run.accepted => Reached(run.current)
  /\ run.stage \in {"next", "mail", "record", "reload", "settle"} /\ ~run.erred
       => \A a \in run.audience \ run.todo : Reached(a)
  /\ run.stage \in {"reload", "settle"} /\ ~run.erred => run.todo = {}

AllReached == RecordedIsReached /\ \A h \in Handlers : RunReached(worker[h])

(* Copies are never taken back.                                            *)
InboxGrows == \A a \in Addresses : Reached(a) => WillBeReached(a)

LEMMA RunStaysReached ==
  ASSUME NEW run \in Run, RunReached(run), InboxGrows
  PROVE  /\ run.stage = "record" /\ run.accepted => WillBeReached(run.current)
         /\ run.stage \in {"next", "mail", "record", "reload", "settle"} /\ ~run.erred
              => \A a \in run.audience \ run.todo : WillBeReached(a)
BY DEF RunReached, InboxGrows, Run

LEMMA ReachedOneRun ==
  ASSUME Typed, AllReached, InboxGrows, NEW h \in Handlers, NEW run, become(h, run),
         RecordedIsReached',
         /\ run.stage = "record" /\ run.accepted => WillBeReached(run.current)
         /\ run.stage \in {"next", "mail", "record", "reload", "settle"} /\ ~run.erred
              => \A a \in run.audience \ run.todo : WillBeReached(a)
         /\ run.stage \in {"reload", "settle"} /\ ~run.erred => run.todo = {}
  PROVE  AllReached'
<1>1. \A k \in Handlers : worker'[k] = IF k = h THEN run ELSE worker[k]
  BY DEF become, Typed, TypeOK
<1>2. ASSUME NEW k \in Handlers PROVE RunReached(worker[k])'
  <2>1. CASE k = h
    BY <1>1, <2>1 DEF RunReached, Reached, WillBeReached
  <2>2. CASE k # h
    <3>1. worker[k] \in Run /\ RunReached(worker[k]) /\ worker'[k] = worker[k]
      BY <1>1, <2>2 DEF AllReached, Typed, TypeOK
    <3> QED
      BY <3>1, RunStaysReached DEF RunReached, Reached, WillBeReached
  <2> QED
    BY <2>1, <2>2
<1> QED
  BY <1>2 DEF AllReached

LEMMA ReachedKept ==
  ASSUME Typed, AllReached, UNCHANGED <<recorded, inbox, worker>> PROVE AllReached'
BY DEF AllReached, RecordedIsReached, RunReached, Reached

(* Steps of a handler that mail and record nothing.                        *)
LEMMA ReachedQuiet ==
  ASSUME Typed, AllReached, UNCHANGED <<recorded, inbox>>, NEW h \in Handlers, NEW run,
         become(h, run), RunReached(run)
  PROVE  AllReached'
<1>1. InboxGrows /\ RecordedIsReached'
  BY DEF InboxGrows, Reached, WillBeReached, AllReached, RecordedIsReached
<1>2. \A a : WillBeReached(a) <=> Reached(a)
  BY DEF Reached, WillBeReached
<1> QED
  BY <1>1, <1>2, ReachedOneRun DEF RunReached

LEMMA ReachedReturn ==
  ASSUME Typed, AllReached, UNCHANGED <<recorded, inbox>>, NEW h \in Handlers, Return(h)
  PROVE  AllReached'
<1>1. RunReached(IdleRun)
  BY IdleRunTyped DEF RunReached
<1> QED
  BY <1>1, ReachedQuiet DEF Return

LEMMA ReachedMail ==
  ASSUME Typed, AllReached, NEW h \in Handlers, mailSend(h) PROVE AllReached'
<1> DEFINE w == worker[h]
           answered(ok) == [w EXCEPT !.stage = "record", !.accepted = ok]
<1>1. w \in Run /\ w.stage = "mail" /\ RunReached(w) /\ inbox \in [Addresses -> Nat]
  BY DEF mailSend, Typed, TypeOK, AllReached
<1>2. w.current \in Addresses
  BY <1>1 DEF Run
<1>3. PICK ok \in BOOLEAN : /\ become(h, answered(ok))
                            /\ inbox' = [inbox EXCEPT ![w.current] = @ + 1]
                                 \/ (~ok /\ UNCHANGED inbox)
  BY DEF mailSend
<1>4. InboxGrows /\ (ok => WillBeReached(w.current))
  <2>1. CASE inbox' = [inbox EXCEPT ![w.current] = @ + 1]
    <3>1. \A a \in Addresses : inbox'[a] = IF a = w.current THEN inbox[a] + 1 ELSE inbox[a]
      BY <1>1, <2>1
    <3>2. \A a \in Addresses : inbox[a] \in Nat
      BY <1>1
    <3> QED
      BY <1>2, <3>1, <3>2 DEF InboxGrows, Reached, WillBeReached
  <2>2. CASE ~ok /\ UNCHANGED inbox
    BY <2>2 DEF InboxGrows, Reached, WillBeReached
  <2> QED
    BY <1>3, <2>1, <2>2
<1>5. RecordedIsReached'
  BY <1>4 DEF mailSend, tableVars, AllReached, RecordedIsReached, InboxGrows, Reached, WillBeReached
<1>6. \A a \in w.audience \ w.todo : ~w.erred => WillBeReached(a)
  BY <1>1, <1>4, RunStaysReached
<1> DEFINE run == answered(ok)
<1>7. /\ run.stage = "record" /\ (run.accepted <=> ok) /\ run.current = w.current
      /\ (run.erred <=> w.erred) /\ run.audience = w.audience /\ run.todo = w.todo
  BY <1>1 DEF Run
<1>8. become(h, run)
  BY <1>3 DEF become
<1> HIDE DEF run
<1>9. run.stage = "record" /\ run.accepted => WillBeReached(run.current)
  BY <1>4, <1>7
<1>10. run.stage \in {"next", "mail", "record", "reload", "settle"} /\ ~run.erred
        => \A a \in run.audience \ run.todo : WillBeReached(a)
  BY <1>6, <1>7
<1>11. run.stage \in {"reload", "settle"} /\ ~run.erred => run.todo = {}
  BY <1>7
<1> QED
  BY <1>4, <1>5, <1>8, <1>9, <1>10, <1>11, ReachedOneRun

LEMMA ReachedRecord ==
  ASSUME Typed, AllReached, NEW h \in Handlers, recordDelivery(h) PROVE AllReached'
<1> DEFINE w == worker[h]
           run == [w EXCEPT !.stage = "next", !.todo = @ \ {w.current},
                            !.accepted = FALSE, !.erred = @ \/ ~w.accepted]
<1>1. w \in Run /\ w.stage = "record" /\ RunReached(w)
  BY DEF recordDelivery, Typed, TypeOK, AllReached
<1>2. \A a : WillBeReached(a) <=> Reached(a)
  BY DEF recordDelivery, Reached, WillBeReached
<1>3. InboxGrows
  BY <1>2 DEF InboxGrows
<1>4. RecordedIsReached'
  <2>1. \A a \in Addresses : recorded'[a] = recorded[a]
                             \/ recorded'[a] = "failed"
                             \/ (a = w.current /\ w.accepted)
    BY DEF recordDelivery, Typed, TypeOK
  <2> QED
    BY <1>1, <1>2, <2>1 DEF AllReached, RecordedIsReached, RunReached, Reached, WillBeReached
<1>5. /\ run.stage = "next" /\ run.audience = w.audience
      /\ run.todo = w.todo \ {w.current} /\ run.erred = (w.erred \/ ~w.accepted)
  BY <1>1 DEF Run
<1>6. ~run.erred => \A a \in run.audience \ run.todo : WillBeReached(a)
  BY <1>1, <1>2, <1>5 DEF RunReached
<1>7. become(h, run)
  BY DEF recordDelivery
<1> QED
  BY <1>3, <1>4, <1>5, <1>6, <1>7, ReachedOneRun

LEMMA ReachedHandler ==
  ASSUME Typed, AllReached, NEW h \in Handlers, handlerStep(h) PROVE AllReached'
<1> DEFINE w == worker[h]
<1>0. w \in Run /\ RunReached(w)
  BY DEF Typed, TypeOK, AllReached
<1>1. ASSUME loadIssue(h) PROVE AllReached'
  <2> DEFINE run == [w EXCEPT !.stage = "decide", !.verdict = decideDelivery]
  <2>1. RunReached(run)
    BY <1>0 DEF Run, RunReached
  <2>2. UNCHANGED <<recorded, inbox>> /\ (Return(h) \/ become(h, run))
    BY <1>1 DEF loadIssue, tableVars
  <2> QED
    BY <2>1, <2>2, ReachedReturn, ReachedQuiet
<1>2. ASSUME preflight(h) PROVE AllReached'
  <2> DEFINE run == [w EXCEPT !.stage = "list"]
  <2>1. RunReached(run)
    BY <1>0 DEF Run, RunReached
  <2>2. UNCHANGED <<recorded, inbox>> /\ (Return(h) \/ become(h, run))
    BY <1>2 DEF preflight
  <2> QED
    BY <2>1, <2>2, ReachedReturn, ReachedQuiet
<1>3. ASSUME listRecipients(h) PROVE AllReached'
  <2> DEFINE failed == [w EXCEPT !.stage = "reload", !.erred = TRUE]
             listed == [w EXCEPT !.stage = "next", !.audience = recipientEmails,
                                 !.todo = recipientEmails]
  <2>1. RunReached(failed) /\ RunReached(listed)
    BY <1>0 DEF Run, RunReached
  <2>2. UNCHANGED <<recorded, inbox>> /\ (become(h, failed) \/ become(h, listed))
    BY <1>3 DEF listRecipients, tableVars
  <2> QED
    BY <2>1, <2>2, ReachedQuiet
<1>4. ASSUME NEW a \in Addresses, nextRecipient(h, a) PROVE AllReached'
  <2> DEFINE skipped == [w EXCEPT !.todo = @ \ {a}]
             mailed == [w EXCEPT !.stage = "mail", !.current = a]
  <2>1. w.stage = "next" /\ UNCHANGED <<recorded, inbox>>
    BY <1>4 DEF nextRecipient, tableVars
  <2>2. CASE become(h, skipped) /\ recorded[a] \in {"submitted", "delivered"}
    <3>1. Reached(a)
      BY <2>2 DEF AllReached, RecordedIsReached
    <3>2. RunReached(skipped)
      BY <1>0, <2>1, <3>1 DEF Run, RunReached
    <3> QED
      BY <2>1, <2>2, <3>2, ReachedQuiet
  <2>3. CASE become(h, mailed)
    <3>1. RunReached(mailed)
      BY <1>0, <2>1 DEF Run, RunReached
    <3> QED
      BY <2>1, <2>3, <3>1, ReachedQuiet
  <2> QED
    BY <1>4, <2>2, <2>3 DEF nextRecipient
<1>5. ASSUME finishIssue(h) PROVE AllReached'
  <2> DEFINE ended == [w EXCEPT !.stage = "reload"]
             failed == [w EXCEPT !.stage = "reload", !.erred = TRUE]
  <2>1. RunReached(failed) /\ RunReached(ended)
    BY <1>0, <1>5 DEF Run, RunReached, finishIssue
  <2>2. UNCHANGED <<recorded, inbox>> /\ (become(h, failed) \/ become(h, ended))
    BY <1>5 DEF finishIssue
  <2> QED
    BY <2>1, <2>2, ReachedQuiet
<1>6. ASSUME reloadSchedule(h) PROVE AllReached'
  <2> DEFINE settling(v) == [w EXCEPT !.stage = "settle", !.verdict = v]
  <2>1. \A v \in Verdicts : RunReached(settling(v))
    BY <1>0, <1>6 DEF Run, RunReached, reloadSchedule
  <2>2. UNCHANGED <<recorded, inbox>>
        /\ (Return(h) \/ \E v \in Verdicts : become(h, settling(v)))
    BY <1>6 DEF reloadSchedule, tableVars, Verdicts
  <2> QED
    BY <2>1, <2>2, ReachedReturn, ReachedQuiet
<1>7. ASSUME settle(h) PROVE AllReached'
  BY <1>7, ReachedReturn DEF settle
<1> QED
  BY <1>1, <1>2, <1>3, <1>4, <1>5, <1>6, <1>7, ReachedMail, ReachedRecord DEF handlerStep

LEMMA ReachedRest ==
  ASSUME Typed, AllReached, NEW h \in Handlers,
         (\E s \in Schedules : DeliverIssueTask(h, s)) \/ expireContext(h) \/ crashHandler(h)
  PROVE  AllReached'
<1>0. worker[h] \in Run /\ RunReached(worker[h])
  BY DEF Typed, TypeOK, AllReached
<1>1. ASSUME NEW s \in Schedules, DeliverIssueTask(h, s) PROVE AllReached'
  <2> DEFINE run == [worker[h] EXCEPT !.stage = "load", !.job = s, !.ctx = TRUE]
  <2>1. RunReached(run)
    BY <1>0 DEF Run, RunReached
  <2> QED
    BY <1>1, <2>1, ReachedQuiet DEF DeliverIssueTask, tableVars
<1>2. ASSUME expireContext(h) PROVE AllReached'
  <2> DEFINE run == [worker[h] EXCEPT !.ctx = FALSE]
  <2>1. RunReached(run)
    BY <1>0 DEF Run, RunReached
  <2> QED
    BY <1>2, <2>1, ReachedQuiet DEF expireContext, tableVars
<1>3. ASSUME crashHandler(h) PROVE AllReached'
  BY <1>3, ReachedReturn DEF crashHandler, tableVars
<1> QED
  BY <1>1, <1>2, <1>3

LEMMA ReachedNext == ASSUME Typed, AllReached, [WorkerNext]_vars PROVE AllReached'
<1>1. CASE UNCHANGED vars
  BY <1>1, ReachedKept DEF vars
<1>2. ASSUME NEW p \in Pollers, pollerStep(p) PROVE AllReached'
  BY <1>2, ReachedKept DEF pollerStep, processDueJobs, enqueueTask, putBack, crashPoller, tableVars
<1>3. ASSUME NEW s \in Schedules, becomeDue(s) \/ becomeAged(s) PROVE AllReached'
  BY <1>3, ReachedKept DEF becomeDue, becomeAged
<1>4. ASSUME sweep \/ sweepIssues PROVE AllReached'
  BY <1>4, ReachedKept DEF sweep, sweepIssues
<1> QED
  BY <1>1, <1>2, <1>3, <1>4, ReachedHandler, ReachedRest DEF WorkerNext, rowStep

(* Whatever fails, crashes or runs twice: a run that reports success has    *)
(* reached every address of its audience, so an issue counts as sent only  *)
(* when each of them has its copy.                                         *)
THEOREM SuccessReachesAll == Spec => []FinishedRunReachedAll
<1>1. Init => AllReached
  <2> SUFFICES ASSUME Init PROVE AllReached
    OBVIOUS
  <2>1. \A h \in Handlers : worker[h].stage = "idle"
    BY IdleRunTyped DEF Init, InitProcesses
  <2> QED
    BY <2>1 DEF Init, InitTables, AllReached, RecordedIsReached, RunReached
<1>2. AllReached => FinishedRunReachedAll
  BY DEF AllReached, RunReached, FinishedRunReachedAll, Reached
<1>3. Typed /\ AllReached /\ [WorkerNext]_vars => AllReached'
  BY ReachedNext
<1> QED
  BY <1>1, <1>2, <1>3, SpecTyped, PTL DEF Spec

-----------------------------------------------------------------------------
(* The issue has one scheduled row, and every task, claim and handler is   *)
(* about that row. Attempts are never taken back.                          *)

Scheduled(s) == row[s].status # "absent"

(* Somebody holds the row, or a task of it.                                *)
Carried(s) ==
  \/ \E p \in Pollers : s \in held[p] \union bounced[p]
  \/ queued[s] > 0
  \/ \E h \in Handlers : ~Idle(h) /\ worker[h].job = s

OneScheduled ==
  /\ \A s, t \in Schedules : Scheduled(s) /\ Scheduled(t) => s = t
  /\ \A s \in Schedules : Carried(s) => Scheduled(s)

RowsGrow == \A s \in Schedules : /\ Scheduled(s)' <=> Scheduled(s)
                                 /\ row'[s].attempts >= row[s].attempts

(* A step of one handler leaves the others alone.                          *)
LEMMA OtherRuns ==
  ASSUME Typed, NEW h \in Handlers, NEW run, become(h, run)
  PROVE  \A k \in Handlers : worker'[k] = IF k = h THEN run ELSE worker[k]
BY DEF become, Typed, TypeOK

(* A step that writes one row, that moves some rows to one status, that    *)
(* writes none.                                                            *)
LEMMA RowsGrowOne ==
  ASSUME Typed, NEW s \in Schedules, NEW new, row' = [row EXCEPT ![s] = new] \/ UNCHANGED row,
         new.status # "absent", Scheduled(s), new.attempts >= row[s].attempts
  PROVE  RowsGrow
<1>1. \A t \in Schedules : row[t].attempts \in Nat /\ row[t].attempts >= row[t].attempts
  BY DeliveryAssumption DEF Typed, TypeOK, Row
<1>2. \A t \in Schedules : row'[t] = IF t = s /\ row' # row THEN new ELSE row[t]
  BY DEF Typed, TypeOK
<1> QED
  BY <1>1, <1>2 DEF RowsGrow, Scheduled

LEMMA RowsGrowSome ==
  ASSUME Typed, NEW S \in SUBSET Schedules, NEW status \in Statuses \ {"absent"},
         \A s \in S : Scheduled(s),
         row' = [s \in Schedules |-> IF s \in S THEN enter(row[s], status) ELSE row[s]]
  PROVE  RowsGrow
<1>1. \A t \in Schedules : row[t] \in Row /\ row[t].attempts \in Nat /\ row[t].attempts >= row[t].attempts
  BY DeliveryAssumption DEF Typed, TypeOK, Row
<1>2. \A t \in S : enter(row[t], status).status = status /\ enter(row[t], status).attempts = row[t].attempts
  BY <1>1, EnterRow
<1> QED
  BY <1>1, <1>2 DEF RowsGrow, Scheduled

LEMMA RowsStay == ASSUME Typed, UNCHANGED row PROVE RowsGrow
BY DeliveryAssumption DEF Typed, TypeOK, Row, RowsGrow, Scheduled

(* What the two transitions of a handler do to the attempts of its row.    *)
LEMMA AttemptsGrow ==
  ASSUME NEW r \in Row, NEW verdict
  PROVE  /\ afterPreflight(r, verdict).status # "absent"
         /\ afterPreflight(r, verdict).attempts >= r.attempts
         /\ verdict = "send" => afterPreflight(r, verdict).attempts = r.attempts + 1
<1> DEFINE running == enter(r, "running")
           deferred == [enter(r, "pending") EXCEPT !.due = FALSE]
<1>1. \A status \in Statuses : /\ enter(r, status) \in Row /\ enter(r, status).status = status
                               /\ enter(r, status).attempts = r.attempts
  BY EnterRow
<1>2. r.attempts \in Nat
  BY DeliveryAssumption DEF Row
<1>3. [running EXCEPT !.attempts = @ + 1].attempts = r.attempts + 1
      /\ [running EXCEPT !.attempts = @ + 1].status = "running"
  BY <1>1 DEF Statuses, Row
<1>4. deferred.attempts = r.attempts /\ deferred.status = "pending"
  BY <1>1 DEF Statuses, Row
<1>5. \A status \in {"canceled", "failed"} :
        enter(r, status).status # "absent" /\ enter(r, status).attempts = r.attempts
  BY <1>1 DEF Statuses
<1>6. afterPreflight(r, verdict) \in {[running EXCEPT !.attempts = @ + 1], deferred,
                                      enter(r, "canceled"), enter(r, "failed")}
      /\ (verdict = "send" => afterPreflight(r, verdict) = [running EXCEPT !.attempts = @ + 1])
  BY DEF afterPreflight
<1> HIDE DEF running, deferred
<1>7. r.attempts + 1 >= r.attempts /\ r.attempts >= r.attempts
  BY <1>2
<1>8. CASE afterPreflight(r, verdict) = [running EXCEPT !.attempts = @ + 1]
  BY <1>3, <1>7, <1>8
<1>9. CASE afterPreflight(r, verdict) = deferred /\ verdict # "send"
  BY <1>4, <1>7, <1>9
<1>10. CASE afterPreflight(r, verdict) \in {enter(r, "canceled"), enter(r, "failed")} /\ verdict # "send"
  BY <1>5, <1>7, <1>10
<1> QED
  BY <1>6, <1>8, <1>9, <1>10

LEMMA SettledRow ==
  ASSUME NEW r \in Row, NEW verdict \in {"completed", "failed", "retry"}
  PROVE  /\ afterSend(r, verdict).status = IF verdict = "retry" THEN "pending" ELSE verdict
         /\ afterSend(r, verdict).attempts = r.attempts
<1>1. \A status \in Statuses : /\ enter(r, status) \in Row /\ enter(r, status).status = status
                               /\ enter(r, status).attempts = r.attempts
  BY EnterRow
<1>2. [enter(r, "pending") EXCEPT !.due = FALSE].attempts = r.attempts
      /\ [enter(r, "pending") EXCEPT !.due = FALSE].status = "pending"
  BY <1>1 DEF Statuses, Row
<1> QED
  BY <1>1, <1>2 DEF afterSend, Statuses

-----------------------------------------------------------------------------
(* What each step of a handler does to its run.                            *)

(* The run w goes on as run, for the same task, with the same work left.   *)
SameTask(run, w) == run.job = w.job /\ (run.ctx <=> w.ctx)
SameWork(run, w) == run.todo = w.todo /\ run.audience = w.audience /\ (run.erred <=> w.erred)

LEMMA IdleRunFields ==
  /\ IdleRun \in Run /\ IdleRun.stage = "idle" /\ ~IdleRun.ctx
  /\ ~IdleRun.erred /\ ~IdleRun.accepted /\ IdleRun.todo = {} /\ IdleRun.audience = {}
BY IdleRunTyped DEF IdleRun

(* One lemma per action: the stage it needs, and the run it leaves behind. *)
LEMMA LoadStep ==
  ASSUME Typed, NEW h \in Handlers, loadIssue(h)
  PROVE  /\ worker[h].stage = "load" /\ UNCHANGED <<tableVars, inbox, queueVars>>
         /\ \/ Return(h)
            \/ \E run \in Run : /\ become(h, run) /\ run.stage = "decide"
                                /\ SameTask(run, worker[h]) /\ SameWork(run, worker[h])
                                /\ (run.accepted <=> worker[h].accepted)
                                /\ NoFault
<1> DEFINE run == [worker[h] EXCEPT !.stage = "decide", !.verdict = decideDelivery]
<1>1. worker[h] \in Run /\ decideDelivery \in {"cancel", "defer", "send", "fail"}
  BY DEF Typed, TypeOK, decideDelivery
<1>2. /\ run \in Run /\ run.stage = "decide" /\ SameTask(run, worker[h]) /\ SameWork(run, worker[h])
      /\ (run.accepted <=> worker[h].accepted)
  BY <1>1 DEF Run, Stages, Verdicts, SameTask, SameWork
<1>3. Return(h) \/ (become(h, run) /\ NoFault)
  BY DEF loadIssue, DbWorks
<1> QED
  BY <1>2, <1>3 DEF loadIssue

LEMMA PreflightStep ==
  ASSUME Typed, NEW h \in Handlers, preflight(h)
  PROVE  /\ worker[h].stage = "decide"
         /\ UNCHANGED <<issue, series, deliverable, recorded, inbox, queueVars>>
         /\ \/ Return(h) /\ UNCHANGED row
            \/ /\ Return(h) /\ NoFault /\ worker[h].verdict # "send"
               /\ row[worker[h].job].status = "claimed"
               /\ row' = [row EXCEPT ![worker[h].job] =
                            afterPreflight(row[worker[h].job], worker[h].verdict)]
            \/ /\ NoFault /\ worker[h].ctx
               /\ row[worker[h].job].status = "claimed"
               /\ row' = [row EXCEPT ![worker[h].job] = afterPreflight(row[worker[h].job], "send")]
               /\ \E run \in Run : /\ become(h, run) /\ run.stage = "list"
                                   /\ SameTask(run, worker[h]) /\ SameWork(run, worker[h])
                                   /\ (run.accepted <=> worker[h].accepted)
<1> DEFINE run == [worker[h] EXCEPT !.stage = "list"]
           s == worker[h].job
<1>1. worker[h] \in Run
  BY DEF Typed, TypeOK
<1>2. /\ run \in Run /\ run.stage = "list" /\ SameTask(run, worker[h]) /\ SameWork(run, worker[h])
      /\ (run.accepted <=> worker[h].accepted)
  BY <1>1 DEF Run, Stages, SameTask, SameWork
<1>3. CASE DbFails(h) /\ Return(h) /\ UNCHANGED row
  BY <1>3 DEF preflight
<1>4. CASE /\ DbWorks(h)
           /\ transition(s, "claimed", afterPreflight(row[s], worker[h].verdict))
           /\ IF worker[h].verdict = "send" /\ row[s].status = "claimed"
              THEN become(h, run) ELSE Return(h)
  <2>1. CASE row[s].status = "claimed" /\ worker[h].verdict = "send"
    BY <1>2, <1>4, <2>1 DEF preflight, transition, DbWorks
  <2>2. CASE row[s].status = "claimed" /\ worker[h].verdict # "send"
    BY <1>4, <2>2 DEF preflight, transition, DbWorks
  <2>3. CASE row[s].status # "claimed"
    BY <1>4, <2>3 DEF preflight, transition
  <2> QED
    BY <2>1, <2>2, <2>3
<1> QED
  BY <1>3, <1>4 DEF preflight

LEMMA ListStep ==
  ASSUME Typed, NEW h \in Handlers, listRecipients(h)
  PROVE  /\ worker[h].stage = "list" /\ UNCHANGED <<tableVars, inbox, queueVars>>
         /\ \E run \in Run :
              /\ become(h, run) /\ SameTask(run, worker[h])
              /\ (run.accepted <=> worker[h].accepted)
              /\ \/ run.stage = "reload" /\ run.erred /\ DbFails(h)
                 \/ /\ run.stage = "next" /\ NoFault /\ run.ctx
                    /\ run.todo = recipientEmails /\ run.audience = recipientEmails
                    /\ (run.erred <=> worker[h].erred)
<1> DEFINE failed == [worker[h] EXCEPT !.stage = "reload", !.erred = TRUE]
           listed == [worker[h] EXCEPT !.stage = "next", !.audience = recipientEmails,
                                       !.todo = recipientEmails]
<1>1. worker[h] \in Run /\ recipientEmails \in SUBSET Addresses
  BY DEF Typed, TypeOK, recipientEmails, Addresses
<1>2. failed \in Run /\ failed.stage = "reload" /\ SameTask(failed, worker[h]) /\ failed.erred
      /\ (failed.accepted <=> worker[h].accepted)
  BY <1>1 DEF Run, Stages, SameTask
<1>3. listed \in Run /\ listed.stage = "next" /\ SameTask(listed, worker[h])
      /\ listed.todo = recipientEmails /\ listed.audience = recipientEmails
      /\ (listed.erred <=> worker[h].erred)
      /\ (listed.accepted <=> worker[h].accepted) /\ (listed.ctx <=> worker[h].ctx)
  BY <1>1 DEF Run, Stages, SameTask
<1>4. \/ DbFails(h) /\ become(h, failed)
      \/ NoFault /\ worker[h].ctx /\ become(h, listed)
  BY DEF listRecipients, DbWorks
<1> HIDE DEF failed, listed
<1> QED
  BY <1>2, <1>3, <1>4 DEF listRecipients

LEMMA RecipientStep ==
  ASSUME Typed, NEW h \in Handlers, NEW a \in Addresses, nextRecipient(h, a)
  PROVE  /\ worker[h].stage = "next" /\ a \in worker[h].todo
         /\ UNCHANGED <<tableVars, inbox, queueVars>>
         /\ \E run \in Run :
              /\ become(h, run) /\ SameTask(run, worker[h]) /\ run.audience = worker[h].audience
              /\ (run.erred <=> worker[h].erred) /\ (run.accepted <=> worker[h].accepted)
              /\ \/ /\ run.stage = "next" /\ run.todo = worker[h].todo \ {a} /\ run.ctx
                    /\ recorded[a] \in {"submitted", "delivered"} /\ NoFault
                 \/ /\ run.stage = "mail" /\ run.todo = worker[h].todo /\ run.current = a
                    /\ (recorded[a] \notin {"submitted", "delivered"} /\ NoFault /\ worker[h].ctx) \/ DbFails(h)
<1> DEFINE skipped == [worker[h] EXCEPT !.todo = @ \ {a}]
           mailed == [worker[h] EXCEPT !.stage = "mail", !.current = a]
<1>1. worker[h] \in Run /\ worker[h].stage = "next"
  BY DEF Typed, TypeOK, nextRecipient
<1>2. skipped \in Run /\ skipped.stage = "next" /\ SameTask(skipped, worker[h])
      /\ skipped.todo = worker[h].todo \ {a} /\ skipped.audience = worker[h].audience
      /\ (skipped.ctx <=> worker[h].ctx)
      /\ (skipped.erred <=> worker[h].erred) /\ (skipped.accepted <=> worker[h].accepted)
  BY <1>1 DEF Run, SameTask
<1>3. mailed \in Run /\ mailed.stage = "mail" /\ SameTask(mailed, worker[h])
      /\ mailed.todo = worker[h].todo /\ mailed.audience = worker[h].audience /\ mailed.current = a
      /\ (mailed.erred <=> worker[h].erred) /\ (mailed.accepted <=> worker[h].accepted)
  BY <1>1 DEF Run, Stages, SameTask
<1>4. \/ /\ NoFault /\ worker[h].ctx /\ recorded[a] \in {"submitted", "delivered"}
         /\ become(h, skipped)
      \/ /\ (recorded[a] \notin {"submitted", "delivered"} /\ NoFault /\ worker[h].ctx) \/ DbFails(h)
         /\ become(h, mailed)
  BY DEF nextRecipient, DbWorks
<1> HIDE DEF skipped, mailed
<1>5. CASE /\ NoFault /\ worker[h].ctx /\ recorded[a] \in {"submitted", "delivered"}
           /\ become(h, skipped)
  BY <1>1, <1>2, <1>5 DEF nextRecipient
<1>6. CASE /\ (recorded[a] \notin {"submitted", "delivered"} /\ NoFault /\ worker[h].ctx) \/ DbFails(h)
           /\ become(h, mailed)
  BY <1>1, <1>3, <1>6 DEF nextRecipient
<1> QED
  BY <1>4, <1>5, <1>6

LEMMA MailStep ==
  ASSUME Typed, NEW h \in Handlers, mailSend(h)
  PROVE  /\ worker[h].stage = "mail" /\ UNCHANGED <<tableVars, queueVars>>
         /\ \E run \in Run :
              /\ become(h, run) /\ run.stage = "record"
              /\ SameTask(run, worker[h]) /\ SameWork(run, worker[h])
              /\ run.current = worker[h].current
              /\ \/ run.accepted /\ NoFault /\ inbox' = [inbox EXCEPT ![worker[h].current] = @ + 1]
                 \/ /\ ~run.accepted /\ Fault("lost_reply")
                    /\ inbox' = [inbox EXCEPT ![worker[h].current] = @ + 1]
                 \/ ~run.accepted /\ NoFault /\ UNCHANGED inbox
<1> DEFINE answered(ok) == [worker[h] EXCEPT !.stage = "record", !.accepted = ok]
<1>1. worker[h] \in Run
  BY DEF Typed, TypeOK
<1>2. \A ok \in BOOLEAN : /\ answered(ok) \in Run /\ answered(ok).stage = "record"
                          /\ SameTask(answered(ok), worker[h]) /\ SameWork(answered(ok), worker[h])
                          /\ answered(ok).current = worker[h].current
                          /\ (answered(ok).accepted <=> ok)
  BY <1>1 DEF Run, Stages, SameTask, SameWork
<1>3. \/ become(h, answered(TRUE)) /\ NoFault /\ inbox' = [inbox EXCEPT ![worker[h].current] = @ + 1]
      \/ /\ become(h, answered(FALSE)) /\ Fault("lost_reply")
         /\ inbox' = [inbox EXCEPT ![worker[h].current] = @ + 1]
      \/ become(h, answered(FALSE)) /\ NoFault /\ UNCHANGED inbox
  BY DEF mailSend
<1> HIDE DEF answered
<1> QED
  BY <1>2, <1>3 DEF mailSend

LEMMA RecordStep ==
  ASSUME Typed, NEW h \in Handlers, recordDelivery(h)
  PROVE  /\ worker[h].stage = "record"
         /\ UNCHANGED <<row, issue, series, deliverable, inbox, queueVars>>
         /\ \/ DbFails(h) /\ UNCHANGED recorded
            \/ /\ NoFault /\ worker[h].ctx
               /\ recorded' = IF worker[h].current = Owner THEN recorded
                              ELSE [recorded EXCEPT ![worker[h].current] =
                                      IF worker[h].accepted THEN "submitted" ELSE "failed"]
         /\ \E run \in Run :
              /\ become(h, run) /\ run.stage = "next" /\ SameTask(run, worker[h])
              /\ run.audience = worker[h].audience
              /\ run.todo = worker[h].todo \ {worker[h].current} /\ ~run.accepted
              /\ (run.erred <=> worker[h].erred \/ ~worker[h].accepted)
<1> DEFINE run == [worker[h] EXCEPT !.stage = "next", !.todo = @ \ {worker[h].current},
                                    !.accepted = FALSE, !.erred = @ \/ ~worker[h].accepted]
<1>1. worker[h] \in Run
  BY DEF Typed, TypeOK
<1>2. /\ run \in Run /\ run.stage = "next" /\ SameTask(run, worker[h])
      /\ run.audience = worker[h].audience
      /\ run.todo = worker[h].todo \ {worker[h].current} /\ ~run.accepted
      /\ (run.erred <=> worker[h].erred \/ ~worker[h].accepted)
  BY <1>1 DEF Run, Stages, SameTask
<1>3. become(h, run)
  BY DEF recordDelivery
<1> HIDE DEF run
<1>4. \/ DbFails(h) /\ UNCHANGED recorded
      \/ /\ NoFault /\ worker[h].ctx
         /\ recorded' = IF worker[h].current = Owner THEN recorded
                        ELSE [recorded EXCEPT ![worker[h].current] =
                                IF worker[h].accepted THEN "submitted" ELSE "failed"]
  BY DEF recordDelivery, DbWorks
<1> QED
  BY <1>2, <1>3, <1>4 DEF recordDelivery

LEMMA FinishStep ==
  ASSUME Typed, NEW h \in Handlers, finishIssue(h)
  PROVE  /\ worker[h].stage = "next" /\ worker[h].todo = {}
         /\ UNCHANGED <<row, series, deliverable, recorded, inbox, queueVars>>
         /\ \E run \in Run :
              /\ become(h, run) /\ run.stage = "reload" /\ SameTask(run, worker[h])
              /\ run.audience = worker[h].audience
              /\ run.todo = worker[h].todo /\ (run.accepted <=> worker[h].accepted)
              /\ \/ NoFault /\ (run.erred <=> worker[h].erred)
                 \/ DbFails(h) /\ run.erred
<1> DEFINE ended == [worker[h] EXCEPT !.stage = "reload"]
           failed == [worker[h] EXCEPT !.stage = "reload", !.erred = TRUE]
<1>1. worker[h] \in Run
  BY DEF Typed, TypeOK
<1>2. /\ ended \in Run /\ ended.stage = "reload" /\ SameTask(ended, worker[h])
      /\ ended.todo = worker[h].todo /\ ended.audience = worker[h].audience /\ (ended.erred <=> worker[h].erred)
      /\ (ended.accepted <=> worker[h].accepted)
  BY <1>1 DEF Run, Stages, SameTask
<1>3. /\ failed \in Run /\ failed.stage = "reload" /\ SameTask(failed, worker[h])
      /\ failed.todo = worker[h].todo /\ failed.audience = worker[h].audience /\ failed.erred
      /\ (failed.accepted <=> worker[h].accepted)
  BY <1>1 DEF Run, Stages, SameTask
<1>4. (become(h, ended) /\ NoFault) \/ (become(h, failed) /\ DbFails(h))
  BY DEF finishIssue, DbWorks
<1> HIDE DEF ended, failed
<1> QED
  BY <1>2, <1>3, <1>4 DEF finishIssue

LEMMA ReloadStep ==
  ASSUME Typed, NEW h \in Handlers, reloadSchedule(h)
  PROVE  /\ worker[h].stage = "reload" /\ UNCHANGED <<tableVars, inbox, queueVars>>
         /\ \/ DbFails(h) /\ Return(h)
            \/ \E run \in Run : /\ become(h, run) /\ run.stage = "settle" /\ NoFault
                                /\ SameTask(run, worker[h]) /\ SameWork(run, worker[h])
                                /\ (run.verdict = "completed" <=> ~worker[h].erred)
                                /\ (run.accepted <=> worker[h].accepted)
<1> DEFINE settling(v) == [worker[h] EXCEPT !.stage = "settle", !.verdict = v]
<1>1. worker[h] \in Run
  BY DEF Typed, TypeOK
<1>2. \A v \in {"completed", "failed", "retry"} :
        /\ settling(v) \in Run /\ settling(v).stage = "settle" /\ settling(v).verdict = v
        /\ SameTask(settling(v), worker[h]) /\ SameWork(settling(v), worker[h])
        /\ (settling(v).accepted <=> worker[h].accepted)
  BY <1>1 DEF Run, Stages, Verdicts, SameTask, SameWork
<1>3. \/ DbFails(h) /\ Return(h)
      \/ \E v \in {"completed", "failed", "retry"} :
           become(h, settling(v)) /\ NoFault /\ (v = "completed" <=> ~worker[h].erred)
  BY DEF reloadSchedule, DbWorks
<1> HIDE DEF settling
<1> QED
  BY <1>2, <1>3 DEF reloadSchedule

LEMMA TakeStep ==
  ASSUME Typed, NEW h \in Handlers, NEW s \in Schedules, DeliverIssueTask(h, s)
  PROVE  /\ Idle(h) /\ UNCHANGED <<tableVars, inbox, held, bounced, faults>>
         /\ \E run \in Run : /\ become(h, run) /\ run.stage = "load" /\ run.job = s /\ run.ctx
                             /\ SameWork(run, worker[h]) /\ (run.accepted <=> worker[h].accepted)
<1> DEFINE run == [worker[h] EXCEPT !.stage = "load", !.job = s, !.ctx = TRUE]
<1>1. worker[h] \in Run
  BY DEF Typed, TypeOK
<1>2. /\ run \in Run /\ run.stage = "load" /\ run.job = s /\ run.ctx
      /\ SameWork(run, worker[h]) /\ (run.accepted <=> worker[h].accepted)
  BY <1>1 DEF Run, Stages, SameWork
<1> HIDE DEF run
<1>3. become(h, run)
  BY DEF DeliverIssueTask, run
<1> QED
  BY <1>2, <1>3 DEF DeliverIssueTask

LEMMA ExpireStep ==
  ASSUME Typed, NEW h \in Handlers, expireContext(h)
  PROVE  /\ ~Idle(h) /\ worker[h].ctx /\ UNCHANGED <<tableVars, inbox, queueVars>>
         /\ faults' = faults + 1
         /\ \E run \in Run : /\ become(h, run) /\ ~run.ctx /\ run.stage = worker[h].stage
                             /\ run.job = worker[h].job /\ SameWork(run, worker[h])
                             /\ run.current = worker[h].current
                             /\ (run.accepted <=> worker[h].accepted)
<1> DEFINE run == [worker[h] EXCEPT !.ctx = FALSE]
<1>1. worker[h] \in Run
  BY DEF Typed, TypeOK
<1>2. /\ run \in Run /\ ~run.ctx /\ run.stage = worker[h].stage /\ run.job = worker[h].job
      /\ SameWork(run, worker[h]) /\ run.current = worker[h].current
      /\ (run.accepted <=> worker[h].accepted)
  BY <1>1 DEF Run, SameWork
<1> HIDE DEF run
<1>3. become(h, run)
  BY DEF expireContext, run
<1> QED
  BY <1>2, <1>3 DEF expireContext, Fault

(* A handler that does not return stays with its row.                      *)
LEMMA KeepsJob ==
  ASSUME Typed, NEW h \in Handlers, handlerStep(h) \/ expireContext(h) \/ crashHandler(h)
  PROVE  \E run \in Run : become(h, run) /\ (run.stage = "idle" \/ run.job = worker[h].job)
<1>1. Return(h) => \E run \in Run : become(h, run) /\ run.stage = "idle"
  BY IdleRunFields DEF Return
<1>2. settle(h) \/ crashHandler(h) => Return(h)
  BY DEF settle, crashHandler
<1>3. loadIssue(h) \/ preflight(h) \/ reloadSchedule(h)
        => \E run \in Run : become(h, run) /\ (run.stage = "idle" \/ run.job = worker[h].job)
  BY <1>1, LoadStep, PreflightStep, ReloadStep DEF SameTask
<1>4. listRecipients(h) \/ (\E a \in Addresses : nextRecipient(h, a)) \/ mailSend(h)
        \/ recordDelivery(h) \/ finishIssue(h)
        => \E run \in Run : become(h, run) /\ run.job = worker[h].job
  BY ListStep, RecipientStep, MailStep, RecordStep, FinishStep DEF SameTask
<1> QED
  BY <1>1, <1>2, <1>3, <1>4, ExpireStep DEF handlerStep

-----------------------------------------------------------------------------
(* No step makes a row, or lowers the attempts of one.                     *)
LEMMA PollerRows == ASSUME Typed, OneScheduled, NEW p \in Pollers, pollerStep(p) PROVE RowsGrow
<1>1. ASSUME NEW S \in SUBSET Schedules, processDueJobs(p, S) PROVE RowsGrow
  BY <1>1, RowsGrowSome DEF processDueJobs, Eligible, Scheduled, Statuses
<1>2. ASSUME NEW s \in Schedules, putBack(p, s) PROVE RowsGrow
  <2>1. Scheduled(s)
    BY <1>2 DEF putBack, OneScheduled, Carried
  <2>2. row[s] \in Row
    BY DEF Typed, TypeOK
  <2>3. /\ enter(row[s], "pending").status = "pending"
        /\ enter(row[s], "pending").attempts = row[s].attempts /\ row[s].attempts >= row[s].attempts
    BY <2>2, EnterRow, DeliveryAssumption DEF Statuses, Row
  <2>4. row' = [row EXCEPT ![s] = enter(row[s], "pending")] \/ UNCHANGED row
    BY <1>2 DEF putBack
  <2> QED
    BY <2>1, <2>3, <2>4, RowsGrowOne
<1>3. ASSUME (\E s \in Schedules : enqueueTask(p, s)) \/ crashPoller(p) PROVE RowsGrow
  BY <1>3, RowsStay DEF enqueueTask, crashPoller, tableVars
<1> QED
  BY <1>1, <1>2, <1>3 DEF pollerStep

LEMMA HandlerRows == ASSUME Typed, OneScheduled, NEW h \in Handlers, handlerStep(h) PROVE RowsGrow
<1> DEFINE s == worker[h].job
<1>1. s \in Schedules /\ row[s] \in Row
  BY DEF Typed, TypeOK, Run
<1>2. CASE preflight(h)
  <2>1. Scheduled(s)
    BY <1>1, <1>2 DEF preflight, OneScheduled, Carried, Idle
  <2>2. UNCHANGED row \/ row' = [row EXCEPT ![s] = afterPreflight(row[s], worker[h].verdict)]
    BY <1>2 DEF preflight, transition
  <2> QED
    BY <1>1, <2>1, <2>2, AttemptsGrow, RowsGrowOne
<1>3. CASE settle(h)
  <2>1. Scheduled(s) /\ worker[h].verdict \in {"completed", "failed", "retry"}
    BY <1>1, <1>3 DEF settle, OneScheduled, Carried, Idle, Typed, SettleVerdict
  <2>2. UNCHANGED row \/ row' = [row EXCEPT ![s] = afterSend(row[s], worker[h].verdict)]
    BY <1>3 DEF settle, transition
  <2>3. /\ afterSend(row[s], worker[h].verdict).status # "absent"
        /\ afterSend(row[s], worker[h].verdict).attempts >= row[s].attempts
    BY <1>1, <2>1, SettledRow, DeliveryAssumption DEF Row
  <2> QED
    BY <1>1, <2>1, <2>2, <2>3, RowsGrowOne
<1>4. CASE UNCHANGED row
  BY <1>4, RowsStay
<1> QED
  BY <1>2, <1>3, <1>4 DEF handlerStep, loadIssue, listRecipients, nextRecipient, mailSend,
     recordDelivery, finishIssue, reloadSchedule, tableVars

LEMMA OtherRows ==
  ASSUME Typed, \/ \E s \in Schedules : rowStep(s)
                \/ \E h \in Handlers : expireContext(h) \/ crashHandler(h)
                \/ sweep \/ sweepIssues
  PROVE  RowsGrow
<1>1. ASSUME NEW s \in Schedules, becomeDue(s) \/ becomeAged(s) PROVE RowsGrow
  <2>1. row[s] \in Row /\ Scheduled(s) /\ row[s].attempts >= row[s].attempts
    BY <1>1, DeliveryAssumption DEF becomeDue, becomeAged, Typed, TypeOK, Scheduled, Row
  <2>2. row' = [row EXCEPT ![s] = [row[s] EXCEPT !.due = TRUE]]
        \/ row' = [row EXCEPT ![s] = [row[s] EXCEPT !.aged = TRUE]]
    BY <1>1 DEF becomeDue, becomeAged
  <2>3. \A new \in {[row[s] EXCEPT !.due = TRUE], [row[s] EXCEPT !.aged = TRUE]} :
          new.status = row[s].status /\ new.attempts = row[s].attempts
    BY <2>1 DEF Row
  <2> QED
    BY <2>1, <2>2, <2>3, RowsGrowOne DEF Scheduled
<1>2. CASE sweep
  <2> DEFINE S == {s \in Schedules : Stuck(s)}
  <2>1. row' = [s \in Schedules |-> IF s \in S THEN enter(row[s], "pending") ELSE row[s]]
    BY <1>2 DEF sweep
  <2>2. \A s \in S : Scheduled(s)
    BY DEF Stuck, Scheduled
  <2> QED
    BY <2>1, <2>2, RowsGrowSome DEF Statuses
<1>3. CASE UNCHANGED row
  BY <1>3, RowsStay
<1> QED
  BY <1>1, <1>2, <1>3 DEF rowStep, DeliverIssueTask, expireContext, crashHandler, sweepIssues, tableVars

LEMMA RowsGrowNext == ASSUME Typed, OneScheduled, [WorkerNext]_vars PROVE RowsGrow
BY PollerRows, HandlerRows, OtherRows, RowsStay DEF WorkerNext, vars

LEMMA ScheduledInit == Init => OneScheduled
<1> SUFFICES ASSUME Init PROVE OneScheduled
  OBVIOUS
<1>1. \A s \in Schedules : Scheduled(s) => row[s] # NoRow
  BY DEF Scheduled, NoRow
<1>2. \A h \in Handlers : Idle(h)
  BY IdleRunTyped DEF Init, InitProcesses, Idle
<1>3. ASSUME NEW s \in Schedules, queued[s] > 0 PROVE FALSE
  <2>1. queued[s] = 0
    BY DEF Init, InitProcesses
  <2> QED
    BY <1>3, <2>1
<1>5. \A p \in Pollers : held[p] = {} /\ bounced[p] = {}
  BY DEF Init, InitProcesses
<1>4. \A s \in Schedules : ~Carried(s)
  BY <1>2, <1>3, <1>5 DEF Carried
<1> QED
  BY <1>1, <1>4 DEF Init, OneScheduled

(* A task is made only for a row that is held, and a held row is scheduled.*)
LEMMA ScheduledNext == ASSUME Typed, OneScheduled, [WorkerNext]_vars PROVE OneScheduled'
<1>1. RowsGrow
  BY RowsGrowNext
<1>2. ASSUME NEW s \in Schedules, Carried(s)' PROVE Scheduled(s)
  <2>1. held \in [Pollers -> SUBSET Schedules] /\ bounced \in [Pollers -> SUBSET Schedules]
        /\ queued \in [Schedules -> Nat]
    BY DEF Typed, TypeOK
  <2>2. CASE UNCHANGED <<held, bounced, queued, worker>>
    <3>1. Carried(s)
      BY <1>2, <2>2 DEF Carried, Idle
    <3> QED
      BY <3>1 DEF OneScheduled
  <2>3. ASSUME NEW p \in Pollers, pollerStep(p) PROVE Scheduled(s)
    <3>0. UNCHANGED worker
      BY <2>3 DEF pollerStep, processDueJobs, enqueueTask, putBack, crashPoller
    <3>1. ASSUME NEW S \in SUBSET Schedules, processDueJobs(p, S) PROVE Scheduled(s)
      <4>1. Carried(s) \/ s \in S
        BY <1>2, <2>1, <3>0, <3>1 DEF processDueJobs, Carried, Idle
      <4> QED
        BY <3>1, <4>1 DEF processDueJobs, Eligible, Scheduled, OneScheduled
    <3>2. ASSUME NEW t \in Schedules, enqueueTask(p, t) PROVE Scheduled(s)
      <4>1. s # t => (queued'[s] > 0 => queued[s] > 0)
        BY <2>1, <3>2 DEF enqueueTask
      <4>2. \A o \in Pollers : s \in held'[o] \union bounced'[o] => s \in held[o] \union bounced[o] \union {t}
        BY <2>1, <3>2 DEF enqueueTask
      <4>3. Carried(s) \/ s = t
        BY <1>2, <3>0, <4>1, <4>2 DEF Carried, Idle
      <4>4. Carried(t)
        BY <3>2 DEF enqueueTask, Carried
      <4> QED
        BY <4>3, <4>4 DEF OneScheduled
    <3>3. ASSUME (\E t \in Schedules : putBack(p, t)) \/ crashPoller(p) PROVE Scheduled(s)
      <4>1. Carried(s)
        BY <1>2, <2>1, <3>0, <3>3 DEF putBack, crashPoller, Carried, Idle
      <4> QED
        BY <4>1 DEF OneScheduled
    <3> QED
      BY <2>3, <3>1, <3>2, <3>3 DEF pollerStep
  <2>4. ASSUME NEW h \in Handlers, handlerStep(h) \/ expireContext(h) \/ crashHandler(h)
        PROVE  Scheduled(s)
    <3> DEFINE w == worker[h]
    <3>1. UNCHANGED <<held, bounced>> /\ ~Idle(h)
      BY <2>4 DEF handlerStep, loadIssue, preflight, listRecipients, nextRecipient, mailSend,
         recordDelivery, finishIssue, reloadSchedule, settle, expireContext, crashHandler, queueVars, Idle
    <3>2. UNCHANGED queued \/ (queued' = [queued EXCEPT ![w.job] = @ + 1])
      BY <2>4 DEF handlerStep, loadIssue, preflight, listRecipients, nextRecipient, mailSend,
         recordDelivery, finishIssue, reloadSchedule, settle, expireContext, crashHandler, queueVars
    <3>3. PICK run \in Run : become(h, run) /\ (run.stage = "idle" \/ run.job = w.job)
      BY <2>4, KeepsJob
    <3>4. Carried(s)
      <4>1. queued'[s] > 0 => queued[s] > 0 \/ s = w.job
        BY <2>1, <3>2
      <4>2. \A k \in Handlers : ~Idle(k)' /\ worker'[k].job = s => ~Idle(k) /\ worker[k].job = s
        BY <3>1, <3>3, OtherRuns DEF Idle
      <4> QED
        BY <1>2, <3>1, <4>1, <4>2 DEF Carried
    <3> QED
      BY <3>4 DEF OneScheduled
  <2>5. ASSUME NEW t \in Schedules, NEW h \in Handlers, DeliverIssueTask(h, t) PROVE Scheduled(s)
    <3>1. PICK run \in Run : become(h, run) /\ run.job = t
      BY <2>5, TakeStep
    <3>2. queued'[s] > 0 => queued[s] > 0
      BY <2>1, <2>5 DEF DeliverIssueTask
    <3>3. Carried(t) /\ UNCHANGED <<held, bounced>>
      BY <2>5 DEF DeliverIssueTask, Carried
    <3>4. Carried(s) \/ s = t
      BY <1>2, <3>1, <3>2, <3>3, OtherRuns DEF Carried, Idle
    <3> QED
      BY <3>3, <3>4 DEF OneScheduled
  <2> QED
    BY <2>2, <2>3, <2>4, <2>5 DEF WorkerNext, rowStep, becomeDue, becomeAged, sweep, sweepIssues,
       queueVars, vars
<1> QED
  BY <1>1, <1>2 DEF RowsGrow, OneScheduled

-----------------------------------------------------------------------------
(* The shape of a run: no error and no answer before the first mail, the   *)
(* recipient in hand is still to do, and the owner is mailed alone.        *)
Blank(run) ==
  /\ run.stage \in {"idle", "load", "decide", "list"} => ~run.erred
  /\ run.stage \in {"idle", "load", "decide", "list", "next", "mail"} => ~run.accepted
  /\ run.stage \in {"mail", "record"} => run.current \in run.todo
  /\ run.stage \in {"next", "mail", "record"} /\ Owner \in run.todo => run.todo = {Owner} /\ ~run.erred

Shaped == \A h \in Handlers : Blank(worker[h])

LEMMA ShapedOneRun ==
  ASSUME Typed, Shaped, NEW h \in Handlers, NEW run, become(h, run), Blank(run) PROVE Shaped'
<1>1. \A k \in Handlers : Blank(worker'[k])
  BY OtherRuns DEF Shaped
<1> QED
  BY <1>1 DEF Shaped, Blank

LEMMA ShapedReturn == ASSUME Typed, Shaped, NEW h \in Handlers, Return(h) PROVE Shaped'
BY IdleRunFields, ShapedOneRun DEF Return, Blank

LEMMA ShapedHandler == ASSUME Typed, Shaped, NEW h \in Handlers, handlerStep(h) PROVE Shaped'
<1> DEFINE w == worker[h]
<1>0. Blank(w)
  BY DEF Shaped
<1>1. CASE loadIssue(h)
  <2>1. CASE Return(h)
    BY <2>1, ShapedReturn
  <2>2. ASSUME NEW run \in Run, become(h, run), run.stage = "decide", SameWork(run, w),
               run.accepted <=> w.accepted
        PROVE  Shaped'
    <3>1. Blank(run)
      BY <1>0, <1>1, <2>2 DEF Blank, SameWork, loadIssue
    <3> QED
      BY <2>2, <3>1, ShapedOneRun
  <2> QED
    BY <1>1, <2>1, <2>2, LoadStep
<1>2. CASE preflight(h)
  <2>1. CASE Return(h)
    BY <2>1, ShapedReturn
  <2>2. ASSUME NEW run \in Run, become(h, run), run.stage = "list", SameWork(run, w),
               run.accepted <=> w.accepted
        PROVE  Shaped'
    <3>1. Blank(run)
      BY <1>0, <1>2, <2>2 DEF Blank, SameWork, preflight
    <3> QED
      BY <2>2, <3>1, ShapedOneRun
  <2> QED
    BY <1>2, <2>1, <2>2, PreflightStep
<1>3. CASE listRecipients(h)
  <2>1. PICK run \in Run : /\ become(h, run) /\ (run.accepted <=> w.accepted)
                           /\ \/ run.stage = "reload"
                              \/ /\ run.stage = "next" /\ run.todo = recipientEmails
                                 /\ (run.erred <=> w.erred)
    BY <1>3, ListStep
  <2>2. Owner \in recipientEmails => recipientEmails = {Owner}
    BY DeliveryAssumption DEF recipientEmails, Typed, TypeOK
  <2>3. w.stage = "list"
    BY <1>3 DEF listRecipients
  <2>4. Blank(run)
    BY <1>0, <2>1, <2>2, <2>3 DEF Blank
  <2> QED
    BY <2>1, <2>4, ShapedOneRun
<1>4. CASE \E a \in Addresses : nextRecipient(h, a)
  <2>1. PICK a \in Addresses : nextRecipient(h, a)
    BY <1>4
  <2>2. PICK run \in Run : /\ become(h, run)
                           /\ (run.erred <=> w.erred) /\ (run.accepted <=> w.accepted)
                           /\ \/ run.stage = "next" /\ run.todo = w.todo \ {a}
                              \/ run.stage = "mail" /\ run.todo = w.todo /\ run.current = a
    BY <2>1, RecipientStep
  <2>3. w.stage = "next" /\ a \in w.todo
    BY <2>1 DEF nextRecipient
  <2>4. Blank(run)
    BY <1>0, <2>2, <2>3 DEF Blank
  <2> QED
    BY <2>2, <2>4, ShapedOneRun
<1>5. CASE mailSend(h)
  <2>1. PICK run \in Run : /\ become(h, run) /\ run.stage = "record" /\ SameWork(run, w)
                           /\ run.current = w.current
    BY <1>5, MailStep
  <2>2. Blank(run)
    BY <1>0, <1>5, <2>1 DEF Blank, SameWork, mailSend
  <2> QED
    BY <2>1, <2>2, ShapedOneRun
<1>6. CASE recordDelivery(h)
  <2>1. PICK run \in Run : /\ become(h, run) /\ run.stage = "next"
                           /\ run.todo = w.todo \ {w.current} /\ ~run.accepted
    BY <1>6, RecordStep
  <2>2. Owner \notin w.todo \ {w.current}
    BY <1>0, <1>6 DEF Blank, recordDelivery
  <2>3. Blank(run)
    BY <2>1, <2>2 DEF Blank
  <2> QED
    BY <2>1, <2>3, ShapedOneRun
<1>7. CASE finishIssue(h)
  <2>1. PICK run \in Run : become(h, run) /\ run.stage = "reload"
    BY <1>7, FinishStep
  <2> QED
    BY <2>1, ShapedOneRun DEF Blank
<1>8. CASE reloadSchedule(h)
  <2>1. CASE Return(h)
    BY <2>1, ShapedReturn
  <2>2. ASSUME NEW run \in Run, become(h, run), run.stage = "settle" PROVE Shaped'
    BY <2>2, ShapedOneRun DEF Blank
  <2> QED
    BY <1>8, <2>1, <2>2, ReloadStep
<1>9. CASE settle(h)
  BY <1>9, ShapedReturn DEF settle
<1> QED
  BY <1>1, <1>2, <1>3, <1>4, <1>5, <1>6, <1>7, <1>8, <1>9 DEF handlerStep

LEMMA ShapedNext == ASSUME Typed, Shaped, [WorkerNext]_vars PROVE Shaped'
<1>1. CASE UNCHANGED worker
  BY <1>1 DEF Shaped, Blank
<1>2. ASSUME NEW h \in Handlers, NEW s \in Schedules, DeliverIssueTask(h, s) PROVE Shaped'
  <2>1. PICK run \in Run : /\ become(h, run) /\ run.stage = "load" /\ SameWork(run, worker[h])
                           /\ (run.accepted <=> worker[h].accepted)
    BY <1>2, TakeStep
  <2>2. Blank(run)
    BY <1>2, <2>1 DEF Shaped, Blank, SameWork, DeliverIssueTask, Idle
  <2> QED
    BY <2>1, <2>2, ShapedOneRun
<1>3. ASSUME NEW h \in Handlers, expireContext(h) PROVE Shaped'
  <2>1. PICK run \in Run : /\ become(h, run) /\ run.stage = worker[h].stage
                           /\ SameWork(run, worker[h]) /\ run.current = worker[h].current
                           /\ (run.accepted <=> worker[h].accepted)
    BY <1>3, ExpireStep
  <2>2. Blank(run)
    BY <2>1 DEF Shaped, Blank, SameWork
  <2> QED
    BY <2>1, <2>2, ShapedOneRun
<1>4. ASSUME NEW h \in Handlers, crashHandler(h) PROVE Shaped'
  BY <1>4, ShapedReturn DEF crashHandler
<1>5. ASSUME NEW p \in Pollers, pollerStep(p) PROVE UNCHANGED worker
  BY <1>5 DEF pollerStep, processDueJobs, enqueueTask, putBack, crashPoller
<1> QED
  BY <1>1, <1>2, <1>3, <1>4, <1>5, ShapedHandler
  DEF WorkerNext, rowStep, becomeDue, becomeAged, sweep, sweepIssues, vars

LEMMA ShapedInit == Init => Shaped
BY IdleRunFields DEF Init, InitProcesses, Shaped, Blank

-----------------------------------------------------------------------------
(* Copies and attempts. A run mails an address at most once, and every run *)
(* that mails was counted as an attempt of the row by the preflight that   *)
(* let it in.                                                              *)

(* The run may mail a once more.                                           *)
MayMail(run, a) ==
  \/ run.stage = "list"
  \/ run.stage \in {"next", "mail"} /\ a \in run.todo
  \/ run.stage = "record" /\ a \in run.todo \ {run.current}

Mailers(a) == {h \in Handlers : MayMail(worker[h], a)}

WithinAttempts ==
  \A a \in Addresses :
    /\ IsFiniteSet(Mailers(a))
    /\ \A s \in Schedules :
         Scheduled(s) => inbox[a] + Cardinality(Mailers(a)) <= row[s].attempts

(* No address has more copies of the issue than its row has attempts.      *)
OneCopyPerAttempt ==
  \A a \in Addresses, s \in Schedules : Scheduled(s) => inbox[a] <= row[s].attempts

(* A run without a context that may mail a once more: it cannot see what   *)
(* has become of the table in the meantime.                                *)
Lapsed(run, a) == ~run.ctx /\ run.stage # "list" /\ MayMail(run, a)

Strays(a) == {h \in Handlers : Lapsed(worker[h], a)}

(* Two finite sets that differ in at most one element.                     *)
LEMMA OneApart ==
  ASSUME NEW A, NEW B, NEW h, IsFiniteSet(A), B \ {h} = A \ {h}
  PROVE  /\ IsFiniteSet(B) /\ Cardinality(A) \in Nat /\ Cardinality(B) \in Nat
         /\ Cardinality(B) <= Cardinality(A) + 1
         /\ (h \in B => h \in A) => Cardinality(B) <= Cardinality(A)
         /\ h \in A /\ h \notin B => Cardinality(B) + 1 <= Cardinality(A)
<1> DEFINE C == A \ {h}
<1>1. IsFiniteSet(C) /\ Cardinality(C) = IF h \in A THEN Cardinality(A) - 1 ELSE Cardinality(A)
  BY FS_RemoveElement
<1>2. IsFiniteSet(C \union {h}) /\ Cardinality(C \union {h}) = Cardinality(C) + 1
  BY <1>1, FS_AddElement
<1>3. Cardinality(C) \in Nat /\ Cardinality(A) \in Nat
  BY <1>1, FS_CardinalityType
<1>4. B = C \/ (h \in B /\ B = C \union {h})
  OBVIOUS
<1> HIDE DEF C
<1>5. CASE B = C
  BY <1>1, <1>3, <1>5
<1>6. CASE h \in B /\ B = C \union {h}
  BY <1>1, <1>2, <1>3, <1>6
<1>7. h \notin B => B = C
  BY <1>4
<1> QED
  BY <1>4, <1>5, <1>6

(* A step of handler h adds h to these sets or takes it away, nothing else.*)
LEMMA OneMailer ==
  ASSUME Typed, NEW h \in Handlers, NEW run, become(h, run), NEW a
  PROVE  /\ Mailers(a)' \ {h} = Mailers(a) \ {h}
         /\ h \in Mailers(a)' <=> MayMail(run, a)
         /\ h \in Mailers(a) <=> MayMail(worker[h], a)
         /\ Strays(a)' \ {h} = Strays(a) \ {h}
         /\ h \in Strays(a)' <=> Lapsed(run, a)
         /\ h \in Strays(a) <=> Lapsed(worker[h], a)
BY OtherRuns DEF Mailers, Strays, MayMail, Lapsed

LEMMA NoMailers ==
  ASSUME NEW a, Init PROVE Mailers(a) = {} /\ Strays(a) = {}
<1>1. \A h \in Handlers : worker[h].stage = "idle"
  BY IdleRunTyped DEF Init, InitProcesses
<1> QED
  BY <1>1 DEF Mailers, Strays, MayMail, Lapsed

LEMMA WithinInit == Init => WithinAttempts
<1> SUFFICES ASSUME Init PROVE WithinAttempts
  OBVIOUS
<1>1. \A a \in Addresses : inbox[a] = 0 /\ IsFiniteSet(Mailers(a)) /\ Cardinality(Mailers(a)) = 0
  BY NoMailers, FS_EmptySet DEF Init, InitTables
<1>2. \A s \in Schedules : row[s].attempts \in Nat
  BY TypedInit, DeliveryAssumption DEF Typed, TypeOK, Row
<1> QED
  BY <1>1, <1>2 DEF WithinAttempts

(* A step keeps the bound when it lets nobody else mail a, when it turns   *)
(* one that may mail a into a copy, or when it comes with an attempt.      *)
LEMMA WithinOneRun ==
  ASSUME Typed, Typed', WithinAttempts, RowsGrow, NEW h \in Handlers, NEW run, become(h, run),
         \A a \in Addresses :
           \/ inbox'[a] = inbox[a] /\ (MayMail(run, a) => MayMail(worker[h], a))
           \/ inbox'[a] = inbox[a] + 1 /\ MayMail(worker[h], a) /\ ~MayMail(run, a)
           \/ /\ inbox'[a] = inbox[a]
              /\ \A s \in Schedules : Scheduled(s) => row'[s].attempts >= row[s].attempts + 1
  PROVE  WithinAttempts'
<1> SUFFICES ASSUME NEW a \in Addresses
             PROVE  /\ IsFiniteSet(Mailers(a)')
                    /\ \A s \in Schedules : Scheduled(s)'
                         => inbox'[a] + Cardinality(Mailers(a)') <= row'[s].attempts
  BY DEF WithinAttempts
<1>1. PICK A, B : A = Mailers(a) /\ B = Mailers(a)'
  OBVIOUS
<1>2. /\ IsFiniteSet(A) /\ B \ {h} = A \ {h}
      /\ (h \in B <=> MayMail(run, a)) /\ (h \in A <=> MayMail(worker[h], a))
  BY <1>1, OneMailer DEF WithinAttempts
<1>3. /\ IsFiniteSet(B) /\ Cardinality(A) \in Nat /\ Cardinality(B) \in Nat
      /\ Cardinality(B) <= Cardinality(A) + 1
      /\ (h \in B => h \in A) => Cardinality(B) <= Cardinality(A)
      /\ h \in A /\ h \notin B => Cardinality(B) + 1 <= Cardinality(A)
  BY <1>2, OneApart
<1>4. inbox[a] \in Nat
  BY DEF Typed, TypeOK
<1>5. ASSUME NEW s \in Schedules, Scheduled(s)'
      PROVE  inbox'[a] + Cardinality(B) <= row'[s].attempts
  <2>1. Scheduled(s) /\ row'[s].attempts >= row[s].attempts
    BY <1>5 DEF RowsGrow
  <2>2. row[s].attempts \in Nat /\ row'[s].attempts \in Nat
    BY DeliveryAssumption DEF Typed, TypeOK, Row
  <2>3. inbox[a] + Cardinality(A) <= row[s].attempts
    BY <1>1, <2>1 DEF WithinAttempts
  <2>4. CASE inbox'[a] = inbox[a] /\ (MayMail(run, a) => MayMail(worker[h], a))
    BY <1>2, <1>3, <1>4, <2>1, <2>2, <2>3, <2>4
  <2>5. CASE inbox'[a] = inbox[a] + 1 /\ MayMail(worker[h], a) /\ ~MayMail(run, a)
    BY <1>2, <1>3, <1>4, <2>1, <2>2, <2>3, <2>5
  <2>6. CASE inbox'[a] = inbox[a] /\ row'[s].attempts >= row[s].attempts + 1
    BY <1>3, <1>4, <2>2, <2>3, <2>6
  <2> QED
    BY <2>1, <2>4, <2>5, <2>6
<1> QED
  BY <1>1, <1>3, <1>5

LEMMA WithinReturn ==
  ASSUME Typed, Typed', WithinAttempts, RowsGrow, NEW h \in Handlers, Return(h), UNCHANGED inbox
  PROVE  WithinAttempts'
<1>1. \A a \in Addresses : ~MayMail(IdleRun, a)
  BY IdleRunFields DEF MayMail
<1> QED
  BY <1>1, WithinOneRun DEF Return

(* The handler that may mail everybody has just counted an attempt.        *)
LEMMA WithinPreflight ==
  ASSUME Typed, Typed', OneScheduled, WithinAttempts, RowsGrow, NEW h \in Handlers, preflight(h)
  PROVE  WithinAttempts'
<1> DEFINE w == worker[h]
<1>1. UNCHANGED inbox
  BY DEF preflight
<1>2. CASE Return(h)
  BY <1>1, <1>2, WithinReturn
<1>3. ASSUME row' = [row EXCEPT ![w.job] = afterPreflight(row[w.job], "send")],
             NEW run \in Run, become(h, run)
      PROVE  WithinAttempts'
  <2>1. w.job \in Schedules /\ row[w.job] \in Row /\ Carried(w.job)
    BY DEF Typed, TypeOK, Run, Carried, preflight, Idle
  <2>2. \A s \in Schedules : Scheduled(s) => s = w.job
    BY <2>1 DEF OneScheduled
  <2>3. afterPreflight(row[w.job], "send").attempts = row[w.job].attempts + 1
    BY <2>1, AttemptsGrow
  <2>4. row'[w.job].attempts = row[w.job].attempts + 1 /\ row[w.job].attempts \in Nat
    BY <1>3, <2>1, <2>3, DeliveryAssumption DEF Typed, TypeOK, Row
  <2> QED
    BY <1>1, <1>3, <2>2, <2>4, WithinOneRun
<1> QED
  BY <1>2, <1>3, PreflightStep

LEMMA WithinMail ==
  ASSUME Typed, Typed', Shaped, WithinAttempts, RowsGrow, NEW h \in Handlers, mailSend(h)
  PROVE  WithinAttempts'
<1> DEFINE w == worker[h]
<1>1. PICK run \in Run : /\ become(h, run) /\ run.stage = "record" /\ SameWork(run, w)
                         /\ run.current = w.current
                         /\ \/ inbox' = [inbox EXCEPT ![w.current] = @ + 1]
                            \/ UNCHANGED inbox
  BY MailStep
<1>2. w.stage = "mail" /\ w.current \in w.todo
  BY DEF mailSend, Shaped, Blank
<1>3. \A a \in Addresses : /\ MayMail(run, a) => MayMail(w, a)
                           /\ MayMail(w, w.current) /\ ~MayMail(run, w.current)
  BY <1>1, <1>2 DEF MayMail, SameWork
<1>4. \A a \in Addresses : \/ inbox'[a] = inbox[a]
                           \/ a = w.current /\ inbox'[a] = inbox[a] + 1
  BY <1>1 DEF Typed, TypeOK
<1> QED
  BY <1>1, <1>3, <1>4, WithinOneRun

LEMMA WithinHandler ==
  ASSUME Typed, Typed', OneScheduled, Shaped, WithinAttempts, RowsGrow,
         NEW h \in Handlers, handlerStep(h)
  PROVE  WithinAttempts'
<1> DEFINE w == worker[h]
<1>1. CASE loadIssue(h)
  <2>1. ASSUME NEW run \in Run, become(h, run), run.stage = "decide" PROVE WithinAttempts'
    BY <1>1, <2>1, WithinOneRun DEF MayMail, loadIssue
  <2> QED
    BY <1>1, <2>1, LoadStep, WithinReturn
<1>2. CASE listRecipients(h)
  <2>1. PICK run \in Run : become(h, run)
    BY <1>2, ListStep
  <2> QED
    BY <1>2, <2>1, WithinOneRun DEF MayMail, listRecipients
<1>3. CASE \E a \in Addresses : nextRecipient(h, a)
  <2>1. PICK a \in Addresses : nextRecipient(h, a)
    BY <1>3
  <2>2. PICK run \in Run : /\ become(h, run)
                           /\ \/ run.stage = "next" /\ run.todo = w.todo \ {a}
                              \/ run.stage = "mail" /\ run.todo = w.todo
    BY <2>1, RecipientStep
  <2>3. w.stage = "next" /\ UNCHANGED inbox
    BY <2>1 DEF nextRecipient
  <2> QED
    BY <2>2, <2>3, WithinOneRun DEF MayMail
<1>4. CASE recordDelivery(h)
  <2>1. PICK run \in Run : /\ become(h, run) /\ run.stage = "next"
                           /\ run.todo = w.todo \ {w.current}
    BY <1>4, RecordStep
  <2> QED
    BY <1>4, <2>1, WithinOneRun DEF MayMail, recordDelivery
<1>5. CASE finishIssue(h)
  <2>1. PICK run \in Run : become(h, run) /\ run.stage = "reload"
    BY <1>5, FinishStep
  <2> QED
    BY <1>5, <2>1, WithinOneRun DEF MayMail, finishIssue
<1>6. CASE reloadSchedule(h)
  <2>1. ASSUME NEW run \in Run, become(h, run), run.stage = "settle" PROVE WithinAttempts'
    BY <1>6, <2>1, WithinOneRun DEF MayMail, reloadSchedule
  <2> QED
    BY <1>6, <2>1, ReloadStep, WithinReturn
<1>7. CASE settle(h)
  BY <1>7, WithinReturn DEF settle
<1> QED
  BY <1>1, <1>2, <1>3, <1>4, <1>5, <1>6, <1>7, WithinPreflight, WithinMail DEF handlerStep

LEMMA WithinNext ==
  ASSUME Typed, Typed', OneScheduled, Shaped, WithinAttempts, [WorkerNext]_vars
  PROVE  WithinAttempts'
<1>0. RowsGrow
  BY RowsGrowNext
<1>1. CASE UNCHANGED <<worker, inbox>>
  <2>1. \A a : Mailers(a)' = Mailers(a)
    BY <1>1 DEF Mailers, MayMail
  <2>2. ASSUME NEW a \in Addresses, NEW s \in Schedules, Scheduled(s)'
        PROVE  inbox'[a] + Cardinality(Mailers(a)') <= row'[s].attempts
    <3>1. inbox[a] + Cardinality(Mailers(a)) <= row[s].attempts /\ row'[s].attempts >= row[s].attempts
      BY <1>0, <2>2 DEF RowsGrow, WithinAttempts
    <3>2. inbox[a] \in Nat /\ row[s].attempts \in Nat /\ row'[s].attempts \in Nat
      BY DeliveryAssumption DEF Typed, TypeOK, Row
    <3>3. Cardinality(Mailers(a)) \in Nat
      BY FS_CardinalityType DEF WithinAttempts
    <3> QED
      BY <1>1, <2>1, <3>1, <3>2, <3>3
  <2> QED
    BY <2>1, <2>2 DEF WithinAttempts
<1>2. ASSUME NEW h \in Handlers, NEW s \in Schedules, DeliverIssueTask(h, s) PROVE WithinAttempts'
  <2>1. PICK run \in Run : become(h, run) /\ run.stage = "load"
    BY <1>2, TakeStep
  <2> QED
    BY <1>0, <1>2, <2>1, WithinOneRun DEF MayMail, DeliverIssueTask
<1>3. ASSUME NEW h \in Handlers, expireContext(h) PROVE WithinAttempts'
  <2>1. PICK run \in Run : /\ become(h, run) /\ run.stage = worker[h].stage
                           /\ SameWork(run, worker[h]) /\ run.current = worker[h].current
    BY <1>3, ExpireStep
  <2> QED
    BY <1>0, <1>3, <2>1, WithinOneRun DEF MayMail, SameWork, expireContext
<1>4. ASSUME NEW h \in Handlers, crashHandler(h) PROVE WithinAttempts'
  BY <1>0, <1>4, WithinReturn DEF crashHandler
<1>5. ASSUME NEW p \in Pollers, pollerStep(p) PROVE UNCHANGED <<worker, inbox>>
  BY <1>5 DEF pollerStep, processDueJobs, enqueueTask, putBack, crashPoller
<1> QED
  BY <1>0, <1>1, <1>2, <1>3, <1>4, <1>5, WithinHandler
  DEF WorkerNext, rowStep, becomeDue, becomeAged, sweep, sweepIssues, vars

(* Whatever fails, runs twice, is reclaimed under a live handler or        *)
(* crashes: no address ever gets more copies of an issue than its row has  *)
(* counted attempts, and so never more than max_attempts. This is what is  *)
(* left when DuplicatesCostFaults is not true (see there).                 *)
THEOREM CopiesWithinAttempts == Spec => []OneCopyPerAttempt
<1>1. Init => OneScheduled /\ Shaped /\ WithinAttempts
  BY ScheduledInit, ShapedInit, WithinInit
<1>2. Typed /\ Typed' /\ OneScheduled /\ Shaped /\ WithinAttempts /\ [WorkerNext]_vars
        => (OneScheduled /\ Shaped /\ WithinAttempts)'
  BY ScheduledNext, ShapedNext, WithinNext
<1>3. Typed /\ WithinAttempts => OneCopyPerAttempt
  <2> SUFFICES ASSUME Typed, WithinAttempts, NEW a \in Addresses, NEW s \in Schedules, Scheduled(s)
               PROVE  inbox[a] <= row[s].attempts
    BY DEF OneCopyPerAttempt
  <2>1. inbox[a] \in Nat /\ row[s].attempts \in Nat /\ Cardinality(Mailers(a)) \in Nat
    BY FS_CardinalityType, DeliveryAssumption DEF WithinAttempts, Typed, TypeOK, Row
  <2> QED
    BY <2>1 DEF WithinAttempts
<1> QED
  BY <1>1, <1>2, <1>3, SpecTyped, PTL DEF Spec

-----------------------------------------------------------------------------
(* Terminal rows. Every UPDATE but the put-back names the status it starts *)
(* from.                                                                   *)

LEMMA PreflightKeepsTerminal ==
  ASSUME Typed, NEW h \in Handlers, preflight(h) \/ settle(h)
  PROVE  \A s \in Schedules : row[s].status \in Terminal => row'[s] = row[s]
<1> DEFINE w == worker[h]
<1>1. w.job \in Schedules
  BY DEF Typed, TypeOK, Run
<1>2. UNCHANGED row \/ \E new : row' = [row EXCEPT ![w.job] = new] /\ row[w.job].status \in {"claimed", "running"}
  BY DEF preflight, settle, transition
<1> QED
  BY <1>1, <1>2 DEF Terminal, Typed, TypeOK

LEMMA TerminalStays ==
  ASSUME Typed, NothingBounced, [WorkerNext]_vars
  PROVE  \A s \in Schedules : row[s].status \in Terminal => row'[s].status = row[s].status
<1> SUFFICES ASSUME NEW s \in Schedules, row[s].status \in Terminal
             PROVE  row'[s].status = row[s].status
  OBVIOUS
<1>1. CASE UNCHANGED row
  BY <1>1
<1>2. ASSUME NEW p \in Pollers, pollerStep(p) PROVE row'[s].status = row[s].status
  <2>1. ASSUME NEW S \in SUBSET Schedules, processDueJobs(p, S) PROVE row'[s].status = row[s].status
    BY <2>1 DEF processDueJobs, Eligible, Terminal
  <2>2. ASSUME NEW t \in Schedules, putBack(p, t) PROVE FALSE
    BY <2>2 DEF putBack, NothingBounced
  <2> QED
    BY <1>1, <1>2, <2>1, <2>2 DEF pollerStep, enqueueTask, crashPoller, tableVars
<1>3. ASSUME NEW t \in Schedules, becomeDue(t) \/ becomeAged(t) PROVE row'[s].status = row[s].status
  BY <1>3 DEF becomeDue, becomeAged, Typed, TypeOK, Terminal
<1>4. ASSUME NEW h \in Handlers, handlerStep(h) PROVE row'[s].status = row[s].status
  <2>1. CASE preflight(h) \/ settle(h)
    BY <2>1, PreflightKeepsTerminal
  <2> QED
    BY <1>1, <1>4, <2>1 DEF handlerStep, loadIssue, listRecipients, nextRecipient, mailSend,
       recordDelivery, finishIssue, reloadSchedule, tableVars
<1>5. CASE sweep
  BY <1>5 DEF sweep, Stuck, Terminal
<1> QED
  BY <1>1, <1>2, <1>3, <1>4, <1>5
  DEF WorkerNext, rowStep, DeliverIssueTask, expireContext, crashHandler, sweepIssues, tableVars, vars

(* While enqueues do not fail, a row that is completed, failed or canceled *)
(* stays so: only the put-back after a failed enqueue updates a row        *)
(* whatever its status has become.                                         *)
THEOREM TerminalStatusIsFinal ==
  ASSUME {"enqueue", "lost_enqueue"} \cap Faults = {} PROVE Spec => TerminalIsFinal
<1>1. NothingBounced /\ Typed /\ [WorkerNext]_vars
        => NothingBounced' /\ [\A s \in Schedules : row[s].status \in Terminal
                                 => row'[s].status = row[s].status]_row
  BY TerminalStays, BouncedNext
<1> QED
  BY <1>1, LockedInit, SpecTyped, PTL DEF Spec, TerminalIsFinal

-----------------------------------------------------------------------------
(* Copies and faults. The account of an address: the copies it has, the    *)
(* handlers without a context that may still mail it, and one more unless  *)
(* somebody knows that it has its copy. Refused mails and retries change   *)
(* nothing in it; whatever raises it by one is a fault. The database keeps *)
(* a recorded copy, the live handler one that is not recorded yet, or that *)
(* cannot be (the owner's); a completed row is never sent again.           *)

Dealing(run, a) == run.ctx /\ run.stage \in {"mail", "record"} /\ run.current = a

(* The run has nobody left to mail and is about to complete its row.       *)
Ending(run) ==
  /\ run.ctx /\ ~run.erred
  /\ \/ run.stage = "next" /\ run.todo = {}
     \/ run.stage = "reload"
     \/ run.stage = "settle" /\ run.verdict = "completed"

Covered(a) ==
  \/ recorded[a] \in {"submitted", "delivered"} /\ \A h \in Handlers : ~Dealing(worker[h], a)
  \/ \E h \in Handlers : Dealing(worker[h], a) /\ worker[h].accepted
  \/ \E h \in Handlers : Ending(worker[h])
  \/ \E s \in Schedules : row[s].status = "completed"

CopiesPaid ==
  \A a \in Addresses :
    /\ IsFiniteSet(Strays(a))
    /\ inbox[a] + Cardinality(Strays(a)) + (IF Covered(a) THEN 0 ELSE 1) <= 1 + faults

Recorded(a) == recorded[a] \in {"submitted", "delivered"}

(* There is one scheduled row and a live handler holds it, so nobody else  *)
(* is live and no row is completed.                                        *)
LEMMA AloneWhenLive ==
  ASSUME Typed, Locked, OneScheduled, NEW h \in Handlers, Live(h)
  PROVE  /\ \A k \in Handlers \ {h} : ~Live(k)
         /\ \A s \in Schedules : row[s].status # "completed"
<1>1. \A k \in Handlers : Live(k) => worker[k].job \in Schedules /\ Scheduled(worker[k].job)
  <2> SUFFICES ASSUME NEW k \in Handlers, Live(k)
               PROVE  worker[k].job \in Schedules /\ Scheduled(worker[k].job)
    OBVIOUS
  <2>1. worker[k].job \in Schedules /\ ~Idle(k)
    BY DEF Typed, TypeOK, Run, Live, Sending, SendStages, Idle
  <2> QED
    BY <2>1 DEF OneScheduled, Carried
<1>2. row[worker[h].job].status = "running"
  BY DEF Locked, LiveSenderOwnsRow
<1>3. \A k \in Handlers : Live(k) => k = h
  BY <1>1 DEF OneScheduled, Locked, OneLiveSender
<1> QED
  BY <1>1, <1>2, <1>3 DEF OneScheduled, Scheduled

LEMMA WorkIsLive ==
  ASSUME NEW k, NEW a
  PROVE  Dealing(worker[k], a) \/ Ending(worker[k]) => Live(k)
BY DEF Dealing, Ending, Live, Sending, SendStages

(* Only the live handler, or the table, can say that a has its copy.       *)
LEMMA NotCovered ==
  ASSUME Typed, Locked, OneScheduled, NEW h \in Handlers, Live(h), NEW a,
         ~Ending(worker[h]), Dealing(worker[h], a) => ~worker[h].accepted,
         Dealing(worker[h], a) \/ ~Recorded(a)
  PROVE  ~Covered(a)
<1>1. \A k \in Handlers : k # h => ~Dealing(worker[k], a) /\ ~Ending(worker[k])
  BY AloneWhenLive, WorkIsLive
<1>2. \A s \in Schedules : row[s].status # "completed"
  BY AloneWhenLive
<1> QED
  BY <1>1, <1>2 DEF Covered, Recorded

LEMMA CoveredAfter ==
  ASSUME NEW a
  PROVE  Covered(a)' <=> \/ Recorded(a)' /\ \A k \in Handlers : ~Dealing(worker'[k], a)
                         \/ \E k \in Handlers : Dealing(worker'[k], a) /\ worker'[k].accepted
                         \/ \E k \in Handlers : Ending(worker'[k])
                         \/ \E s \in Schedules : row'[s].status = "completed"
BY DEF Covered, Recorded, Dealing, Ending

(* What keeps an address covered in a step of handler h.                    *)
LEMMA StaysCovered ==
  ASSUME Typed, NEW h \in Handlers, NEW run, become(h, run), NEW a,
         Recorded(a) => Recorded(a)',
         \A s \in Schedules : row[s].status = "completed" => row'[s].status = "completed",
         Dealing(run, a) => Dealing(worker[h], a),
         Dealing(worker[h], a) /\ worker[h].accepted => Dealing(run, a) /\ run.accepted,
         Ending(worker[h]) => Ending(run)
  PROVE  Covered(a) => Covered(a)'
<1>1. \A k \in Handlers : worker'[k] = IF k = h THEN run ELSE worker[k]
  BY OtherRuns
<1>2. \A k \in Handlers : Dealing(worker'[k], a) => Dealing(worker[k], a)
  BY <1>1
<1>3. \A k \in Handlers : Dealing(worker[k], a) /\ worker[k].accepted
                            => Dealing(worker'[k], a) /\ worker'[k].accepted
  BY <1>1
<1>4. \A k \in Handlers : Ending(worker[k]) => Ending(worker'[k])
  BY <1>1
<1> HIDE DEF Dealing, Ending
<1> QED
  BY <1>2, <1>3, <1>4, CoveredAfter DEF Covered, Recorded

Kept(a) == Covered(a) => Covered(a)'

(* How one step of a handler may move the account of an address: nothing is*)
(* spent, or a fault is booked for one loss, or a copy is sent that had    *)
(* been accounted for.                                                     *)
LEMMA PaidOneRun ==
  ASSUME Typed, Typed', CopiesPaid, NEW h \in Handlers, NEW run, become(h, run),
         \A a \in Addresses :
           \/ /\ inbox'[a] = inbox[a] /\ faults' \in {faults, faults + 1}
              /\ Lapsed(run, a) => Lapsed(worker[h], a)
              /\ Kept(a)
           \/ /\ inbox'[a] = inbox[a] /\ faults' = faults + 1
              /\ Lapsed(run, a) => Lapsed(worker[h], a) \/ Kept(a)
           \/ /\ inbox'[a] = inbox[a] + 1 /\ faults' = faults
              /\ Lapsed(worker[h], a) /\ ~Lapsed(run, a)
              /\ Kept(a)
           \/ /\ inbox'[a] = inbox[a] + 1 /\ faults' = faults
              /\ Lapsed(run, a) => Lapsed(worker[h], a)
              /\ ~Covered(a) /\ Covered(a)'
           \/ /\ inbox'[a] = inbox[a] + 1 /\ faults' = faults + 1
              /\ Lapsed(run, a) => Lapsed(worker[h], a)
              /\ Kept(a)
  PROVE  CopiesPaid'
<1> DEFINE open(c) == IF c THEN 0 ELSE 1
<1> SUFFICES ASSUME NEW a \in Addresses
             PROVE  /\ IsFiniteSet(Strays(a)')
                    /\ inbox'[a] + Cardinality(Strays(a)') + open(Covered(a)') <= 1 + faults'
  BY DEF CopiesPaid
<1>1. PICK A, B : A = Strays(a) /\ B = Strays(a)'
  OBVIOUS
<1>2. /\ IsFiniteSet(A) /\ B \ {h} = A \ {h}
      /\ (h \in B <=> Lapsed(run, a)) /\ (h \in A <=> Lapsed(worker[h], a))
  BY <1>1, OneMailer DEF CopiesPaid
<1>3. /\ IsFiniteSet(B) /\ Cardinality(A) \in Nat /\ Cardinality(B) \in Nat
      /\ Cardinality(B) <= Cardinality(A) + 1
      /\ (h \in B => h \in A) => Cardinality(B) <= Cardinality(A)
      /\ h \in A /\ h \notin B => Cardinality(B) + 1 <= Cardinality(A)
  BY <1>2, OneApart
<1>4. inbox[a] \in Nat /\ faults \in Nat
  BY DEF Typed, TypeOK
<1>5. inbox[a] + Cardinality(A) + open(Covered(a)) <= 1 + faults
  BY <1>1 DEF CopiesPaid
<1>6. PICK c \in BOOLEAN, d \in BOOLEAN : (c <=> Covered(a)) /\ (d <=> Covered(a)')
  OBVIOUS
<1>7. inbox[a] + Cardinality(A) + open(c) <= 1 + faults
  BY <1>5, <1>6
<1>8. inbox'[a] + Cardinality(B) + open(d) <= 1 + faults'
  <2>1. CASE /\ inbox'[a] = inbox[a] /\ faults' \in {faults, faults + 1}
             /\ Lapsed(run, a) => Lapsed(worker[h], a)
             /\ Kept(a)
    BY <1>2, <1>3, <1>4, <1>6, <1>7, <2>1 DEF Kept
  <2>2. CASE /\ inbox'[a] = inbox[a] /\ faults' = faults + 1
             /\ Lapsed(run, a) => Lapsed(worker[h], a) \/ Kept(a)
    BY <1>2, <1>3, <1>4, <1>6, <1>7, <2>2 DEF Kept
  <2>3. CASE /\ inbox'[a] = inbox[a] + 1 /\ faults' = faults
             /\ Lapsed(worker[h], a) /\ ~Lapsed(run, a)
             /\ Kept(a)
    BY <1>2, <1>3, <1>4, <1>6, <1>7, <2>3 DEF Kept
  <2>4. CASE /\ inbox'[a] = inbox[a] + 1 /\ faults' = faults
             /\ Lapsed(run, a) => Lapsed(worker[h], a)
             /\ ~Covered(a) /\ Covered(a)'
    BY <1>2, <1>3, <1>4, <1>6, <1>7, <2>4
  <2>5. CASE /\ inbox'[a] = inbox[a] + 1 /\ faults' = faults + 1
             /\ Lapsed(run, a) => Lapsed(worker[h], a)
             /\ Kept(a)
    BY <1>2, <1>3, <1>4, <1>6, <1>7, <2>5 DEF Kept
  <2> QED
    BY <2>1, <2>2, <2>3, <2>4, <2>5
<1>9. inbox'[a] + Cardinality(B) + open(Covered(a)') <= 1 + faults'
  BY <1>6, <1>8
<1> QED
  BY <1>1, <1>3, <1>9

-----------------------------------------------------------------------------
(* What every step can rely on.                                            *)
Sound == Typed /\ Typed' /\ Locked /\ OneScheduled /\ Shaped
Paying == Sound /\ CopiesPaid

CompletedStays == \A s \in Schedules : row[s].status = "completed" => row'[s].status = "completed"

LEMMA DbFaults ==
  ASSUME NEW h, DbFails(h)
  PROVE  IF worker[h].ctx THEN faults' = faults + 1 ELSE faults' = faults
BY DEF DbFails, Fault, NoFault

(* Nothing is mailed: a fault pays for what h may forget, or h forgets     *)
(* nothing.                                                                *)
LEMMA PaidQuiet ==
  ASSUME Paying, NEW h \in Handlers, NEW run, become(h, run),
         UNCHANGED <<recorded, inbox>>, CompletedStays,
         \/ faults' = faults + 1
         \/ /\ faults' = faults
            /\ \A a \in Addresses :
                 /\ Dealing(run, a) => Dealing(worker[h], a)
                 /\ Dealing(worker[h], a) /\ worker[h].accepted => Dealing(run, a) /\ run.accepted
            /\ Ending(worker[h]) => Ending(run),
         \A a \in Addresses : Lapsed(run, a) => Lapsed(worker[h], a)
  PROVE  CopiesPaid'
<1>1. CASE faults' = faults + 1
  BY <1>1, PaidOneRun DEF Paying, Sound
<1>2. CASE faults' # faults + 1
  <2>1. \A a \in Addresses : Kept(a)
    BY <1>2, StaysCovered DEF Paying, Sound, Kept, Recorded, CompletedStays
  <2> QED
    BY <1>2, <2>1, PaidOneRun DEF Paying, Sound
<1> QED
  BY <1>1, <1>2

(* A handler that returns: a fault pays for it, or nothing was known to it.*)
LEMMA PaidReturn ==
  ASSUME Paying, NEW h \in Handlers, Return(h), UNCHANGED <<recorded, inbox>>, CompletedStays,
         \/ faults' = faults + 1
         \/ faults' = faults /\ ~Live(h)
  PROVE  CopiesPaid'
<1>1. \A a : ~Lapsed(IdleRun, a) /\ ~Dealing(IdleRun, a)
  BY IdleRunFields DEF Lapsed, MayMail, Dealing
<1>2. ~Live(h) => \A a : ~Dealing(worker[h], a) /\ ~Ending(worker[h])
  BY WorkIsLive
<1> QED
  BY <1>1, <1>2, PaidQuiet DEF Return

LEMMA PaidBefore ==
  ASSUME Paying, CompletedStays, NEW h \in Handlers, loadIssue(h) \/ preflight(h)
  PROVE  CopiesPaid'
<1> DEFINE w == worker[h]
<1>1. ~Live(h) /\ UNCHANGED <<recorded, inbox>> /\ \A a : ~Dealing(w, a) /\ ~Ending(w)
  BY DEF loadIssue, preflight, tableVars, Live, Sending, SendStages, Dealing, Ending
<1>2. faults' = faults \/ faults' = faults + 1
  BY DbFaults DEF loadIssue, preflight, DbWorks, NoFault
<1>3. CASE Return(h)
  BY <1>1, <1>2, <1>3, PaidReturn
<1>4. ASSUME NEW run, become(h, run), run.stage \in {"decide", "list"} PROVE CopiesPaid'
  <2>1. \A a : ~Lapsed(run, a) /\ ~Dealing(run, a)
    BY <1>4 DEF Lapsed, MayMail, Dealing
  <2> QED
    BY <1>1, <1>2, <1>4, <2>1, PaidQuiet
<1> QED
  BY <1>3, <1>4, LoadStep, PreflightStep DEF Paying, Sound

LEMMA PaidList ==
  ASSUME Paying, CompletedStays, NEW h \in Handlers, listRecipients(h)
  PROVE  CopiesPaid'
<1> DEFINE w == worker[h]
<1>1. PICK run \in Run : /\ become(h, run)
                         /\ \/ run.stage = "reload" /\ run.erred /\ DbFails(h)
                            \/ run.stage = "next" /\ NoFault /\ run.ctx
  BY ListStep DEF Paying, Sound
<1>2. /\ UNCHANGED <<recorded, inbox>>
      /\ \A a : ~Dealing(w, a) /\ ~Ending(w) /\ ~Dealing(run, a) /\ ~Lapsed(run, a)
  BY <1>1 DEF listRecipients, tableVars, Dealing, Ending, Lapsed, MayMail
<1>3. faults' = faults \/ faults' = faults + 1
  BY <1>1, DbFaults DEF NoFault
<1> QED
  BY <1>1, <1>2, <1>3, PaidQuiet

(* A live handler mails an address without a record: nobody has covered it. *)
LEMMA RecipientKeeps ==
  ASSUME Sound, CompletedStays, NEW h \in Handlers, NEW b \in Addresses, nextRecipient(h, b),
         worker[h].ctx, faults' = faults
  PROVE  \A a \in Addresses : Kept(a)
<1> DEFINE w == worker[h]
<1>1. /\ w.stage = "next" /\ b \in w.todo /\ UNCHANGED <<recorded, inbox>> /\ Live(h)
      /\ \A a : ~Dealing(w, a) /\ ~Ending(w)
  BY DEF nextRecipient, tableVars, Dealing, Ending, Live, Sending, SendStages
<1>2. faults' # faults + 1
  BY DEF Sound, Typed, TypeOK
<1>3. PICK run \in Run : /\ become(h, run) /\ SameTask(run, w)
                         /\ \/ run.stage = "next"
                            \/ run.stage = "mail" /\ run.current = b /\ ~Recorded(b)
  BY <1>2, RecipientStep, DbFaults DEF Sound, Recorded
<1>4. ASSUME NEW a \in Addresses, ~Dealing(run, a) PROVE Kept(a)
  BY <1>1, <1>3, <1>4, StaysCovered DEF Sound, Kept, CompletedStays, Recorded
<1>5. CASE run.stage = "next"
  BY <1>4, <1>5 DEF Dealing
<1>6. CASE run.stage = "mail" /\ run.current = b /\ ~Recorded(b)
  <2>1. ~Covered(b)
    BY <1>1, <1>6, NotCovered DEF Sound
  <2>2. \A a \in Addresses : a # b => ~Dealing(run, a)
    BY <1>6 DEF Dealing
  <2> QED
    BY <1>4, <2>1, <2>2 DEF Kept
<1> QED
  BY <1>3, <1>5, <1>6

(* An address that is mailed by a live handler is not recorded, or its     *)
(* lookup failed; a handler without a context mails what it was already    *)
(* counted for.                                                            *)
LEMMA PaidRecipient ==
  ASSUME Paying, CompletedStays, NEW h \in Handlers, NEW b \in Addresses, nextRecipient(h, b)
  PROVE  CopiesPaid'
<1> DEFINE w == worker[h]
<1>1. /\ w.stage = "next" /\ b \in w.todo /\ UNCHANGED <<recorded, inbox>>
      /\ \A a : ~Dealing(w, a) /\ ~Ending(w)
  BY DEF nextRecipient, tableVars, Dealing, Ending
<1>2. PICK run \in Run :
        /\ become(h, run) /\ SameTask(run, w)
        /\ \/ run.stage = "next" /\ run.ctx /\ NoFault
           \/ /\ run.stage = "mail" /\ run.todo = w.todo /\ run.current = b
              /\ (~Recorded(b) /\ NoFault /\ w.ctx) \/ DbFails(h)
  BY RecipientStep DEF Paying, Sound, Recorded
<1>3. \A a : Lapsed(run, a) => Lapsed(w, a)
  BY <1>1, <1>2 DEF Lapsed, MayMail, SameTask
<1>4. CASE run.stage = "next" /\ NoFault
  <2>1. \A a : ~Dealing(run, a)
    BY <1>4 DEF Dealing
  <2> QED
    BY <1>1, <1>2, <1>3, <1>4, <2>1, PaidQuiet DEF NoFault
<1>5. CASE DbFails(h) /\ w.ctx
  BY <1>1, <1>2, <1>3, <1>5, DbFaults, PaidQuiet
<1>6. CASE DbFails(h) /\ ~w.ctx
  <2>1. \A a : ~Dealing(run, a)
    BY <1>2, <1>6 DEF Dealing, SameTask
  <2> QED
    BY <1>1, <1>2, <1>3, <1>6, <2>1, DbFaults, PaidQuiet
<1>7. CASE run.stage = "mail" /\ run.current = b /\ ~Recorded(b) /\ NoFault /\ w.ctx
  <2>4. \A a \in Addresses : Kept(a)
    BY <1>7, RecipientKeeps DEF Paying, NoFault
  <2> QED
    BY <1>1, <1>2, <1>3, <1>7, <2>4, PaidOneRun DEF Paying, Sound, NoFault
<1> QED
  BY <1>2, <1>4, <1>5, <1>6, <1>7

(* Handing a message to the provider loses nobody's knowledge, and a live   *)
(* handler mails nobody who is covered.                                    *)
LEMMA MailKeeps ==
  ASSUME Sound, CompletedStays, NEW h \in Handlers, mailSend(h)
  PROVE  \A a \in Addresses : Kept(a)
<1> DEFINE w == worker[h]
<1>1. w.stage = "mail" /\ UNCHANGED <<row, recorded>> /\ ~w.accepted /\ ~Ending(w)
  BY DEF mailSend, tableVars, Ending, Sound, Shaped, Blank
<1>2. PICK run \in Run : /\ become(h, run) /\ run.stage = "record" /\ SameTask(run, w)
                         /\ run.current = w.current
  BY MailStep DEF Sound
<1>3. \A a : Dealing(run, a) <=> Dealing(w, a)
  BY <1>1, <1>2 DEF Dealing, SameTask
<1> QED
  BY <1>1, <1>2, <1>3, StaysCovered DEF Sound, Kept, CompletedStays, Recorded

LEMMA MailCovers ==
  ASSUME Sound, NEW h \in Handlers, mailSend(h), worker[h].ctx,
         NEW c \in Addresses, c = worker[h].current
  PROVE  ~Covered(c) /\ (worker'[h].accepted => Covered(c)')
<1> DEFINE w == worker[h]
<1>1. Live(h) /\ Dealing(w, c) /\ ~Ending(w) /\ ~w.accepted
  BY DEF mailSend, Live, Sending, SendStages, Dealing, Ending, Sound, Shaped, Blank
<1>2. ~Covered(c)
  BY <1>1, NotCovered DEF Sound
<1>3. PICK run \in Run : /\ become(h, run) /\ run.stage = "record" /\ SameTask(run, w)
                         /\ run.current = c
  BY MailStep DEF Sound
<1>4. worker'[h] = run /\ Dealing(run, c)
  BY <1>3, OtherRuns DEF Sound, Dealing, SameTask
<1>5. run.accepted => Covered(c)'
  BY <1>4, CoveredAfter
<1> QED
  BY <1>2, <1>4, <1>5

(* A live handler mails an address that is not covered and knows the       *)
(* answer, a handler without a context spends its place among the strays,  *)
(* and a lost answer is a fault.                                           *)
LEMMA PaidMail ==
  ASSUME Paying, CompletedStays, NEW h \in Handlers, mailSend(h)
  PROVE  CopiesPaid'
<1> DEFINE w == worker[h]
<1>0. PICK c \in Addresses : c = w.current
  BY DEF Paying, Sound, Typed, TypeOK, Run
<1>1. w.stage = "mail" /\ c \in w.todo
  BY <1>0 DEF mailSend, Paying, Sound, Shaped, Blank
<1>2. PICK run \in Run :
        /\ become(h, run) /\ run.stage = "record" /\ SameTask(run, w) /\ SameWork(run, w)
        /\ run.current = c
        /\ \/ run.accepted /\ NoFault /\ inbox' = [inbox EXCEPT ![c] = @ + 1]
           \/ ~run.accepted /\ Fault("lost_reply") /\ inbox' = [inbox EXCEPT ![c] = @ + 1]
           \/ ~run.accepted /\ NoFault /\ UNCHANGED inbox
  BY <1>0, MailStep DEF Paying, Sound
<1>3. \A a : Lapsed(run, a) => Lapsed(w, a) /\ a # c
  BY <1>0, <1>1, <1>2 DEF Lapsed, MayMail, SameTask, SameWork
<1>4. worker'[h] = run
  BY <1>2, OtherRuns DEF Paying, Sound
<1>5. \A a \in Addresses : Kept(a)
  BY MailKeeps DEF Paying
<1>6. \A a \in Addresses : inbox'[a] = IF inbox' # inbox /\ a = c THEN inbox[a] + 1 ELSE inbox[a]
  BY <1>2 DEF Paying, Sound, Typed, TypeOK
<1>7. faults' = faults \/ faults' = faults + 1
  BY <1>2 DEF NoFault, Fault
<1>8. CASE run.accepted /\ NoFault
  <2>1. CASE w.ctx
    <3>1. ~Covered(c) /\ Covered(c)'
      BY <1>0, <1>4, <1>8, <2>1, MailCovers DEF Paying
    <3>2. ASSUME NEW a \in Addresses
          PROVE  \/ inbox'[a] = inbox[a] /\ faults' = faults /\ Kept(a)
                 \/ /\ inbox'[a] = inbox[a] + 1 /\ faults' = faults
                    /\ ~Covered(a) /\ Covered(a)'
      <4>1. CASE a = c
        BY <1>5, <1>6, <1>8, <3>1, <4>1 DEF NoFault
      <4>2. CASE a # c
        BY <1>5, <1>6, <1>8, <4>2 DEF NoFault
      <4> QED
        BY <4>1, <4>2
    <3> QED
      BY <1>2, <1>3, <3>2, PaidOneRun DEF Paying, Sound
  <2>2. CASE ~w.ctx
    <3>1. Lapsed(w, c)
      BY <1>0, <1>1, <2>2 DEF Lapsed, MayMail
    <3>2. ASSUME NEW a \in Addresses
          PROVE  \/ inbox'[a] = inbox[a] /\ faults' = faults /\ Kept(a)
                 \/ /\ inbox'[a] = inbox[a] + 1 /\ faults' = faults
                    /\ Lapsed(w, a) /\ ~Lapsed(run, a) /\ Kept(a)
      BY <1>3, <1>5, <1>6, <1>8, <3>1 DEF NoFault
    <3> QED
      BY <1>2, <1>3, <3>2, PaidOneRun DEF Paying, Sound
  <2> QED
    BY <2>1, <2>2
<1>9. CASE Fault("lost_reply")
  <2>1. faults' = faults + 1
    BY <1>9 DEF Fault
  <2>2. ASSUME NEW a \in Addresses
        PROVE  /\ inbox'[a] = inbox[a] \/ inbox'[a] = inbox[a] + 1
               /\ Kept(a) /\ (Lapsed(run, a) => Lapsed(w, a))
    BY <1>3, <1>5, <1>6
  <2> QED
    BY <1>2, <2>1, <2>2, PaidOneRun DEF Paying, Sound
<1>10. CASE UNCHANGED inbox
  <2>1. \A a \in Addresses : Kept(a) /\ (Lapsed(run, a) => Lapsed(w, a)) /\ inbox'[a] = inbox[a]
    BY <1>3, <1>5, <1>10
  <2> QED
    BY <1>2, <1>7, <2>1, PaidOneRun DEF Paying, Sound
<1> QED
  BY <1>2, <1>8, <1>9, <1>10

(* What the live handler knew goes to the table; the owner's copy cannot be*)
(* recorded, but then the run is about to end.                             *)
LEMMA RecordKeeps ==
  ASSUME Sound, CompletedStays, NEW h \in Handlers, recordDelivery(h),
         worker[h].ctx, faults' = faults
  PROVE  \A a \in Addresses : Kept(a)
<1> DEFINE w == worker[h]
<1>0. PICK c \in Addresses : c = w.current
  BY DEF Sound, Typed, TypeOK, Run
<1>1. /\ w.stage = "record" /\ UNCHANGED row /\ ~Ending(w) /\ w \in Run
      /\ c \in w.todo /\ (Owner \in w.todo => w.todo = {Owner} /\ ~w.erred)
  BY <1>0 DEF recordDelivery, Ending, Sound, Typed, TypeOK, Run, Shaped, Blank
<1>2. PICK run \in Run :
        /\ become(h, run) /\ run.stage = "next" /\ SameTask(run, w)
        /\ run.todo = w.todo \ {c} /\ ~run.accepted
        /\ (run.erred <=> w.erred \/ ~w.accepted)
  BY <1>0, RecordStep DEF Sound
<1>3. recorded' = IF c = Owner THEN recorded
                  ELSE [recorded EXCEPT ![c] = IF w.accepted THEN "submitted" ELSE "failed"]
  <2>1. faults' # faults + 1
    BY DEF Sound, Typed, TypeOK
  <2> QED
    BY <1>0, <2>1, RecordStep, DbFaults DEF Sound
<1>4. Live(h) /\ Dealing(w, c) /\ \A a : ~Dealing(run, a) /\ (Dealing(w, a) => a = c)
  BY <1>0, <1>1, <1>2 DEF Live, Sending, SendStages, Dealing
<1>5. Covered(c) => w.accepted
  BY <1>1, <1>4, NotCovered DEF Sound
<1>6. ASSUME NEW a \in Addresses, a # c PROVE Kept(a)
  <2>1. recorded'[a] = recorded[a]
    BY <1>3, <1>6 DEF Sound, Typed, TypeOK
  <2> QED
    BY <1>1, <1>2, <1>4, <1>6, <2>1, StaysCovered DEF Sound, Kept, CompletedStays, Recorded
<1>7. Kept(c)
  <2> SUFFICES ASSUME w.accepted PROVE Covered(c)'
    BY <1>5 DEF Kept
  <2>1. worker'[h] = run /\ \A k \in Handlers : k # h => worker'[k] = worker[k]
    BY <1>2, OtherRuns DEF Sound
  <2>2. CASE c = Owner
    <3>1. run.ctx /\ ~run.erred /\ run.stage = "next" /\ run.todo = {}
      BY <1>1, <1>2, <2>2 DEF SameTask
    <3> QED
      BY <2>1, <3>1 DEF Covered, Ending
  <2>3. CASE c # Owner
    <3>1. recorded'[c] = "submitted"
      BY <1>3, <2>3 DEF Sound, Typed, TypeOK
    <3>2. \A k \in Handlers : k # h => ~Dealing(worker[k], c)
      BY <1>4, AloneWhenLive, WorkIsLive DEF Sound
    <3>3. \A k \in Handlers : ~Dealing(worker'[k], c)
      BY <1>4, <2>1, <3>2
    <3> QED
      BY <3>1, <3>3, CoveredAfter DEF Recorded
  <2> QED
    BY <2>2, <2>3
<1> QED
  BY <1>6, <1>7

LEMMA PaidRecord ==
  ASSUME Paying, CompletedStays, NEW h \in Handlers, recordDelivery(h)
  PROVE  CopiesPaid'
<1> DEFINE w == worker[h]
<1>1. w.stage = "record" /\ UNCHANGED <<row, inbox>> /\ ~Ending(w)
  BY DEF recordDelivery, Ending
<1>2. PICK run \in Run :
        become(h, run) /\ run.stage = "next" /\ SameTask(run, w) /\ run.todo = w.todo \ {w.current}
  BY RecordStep DEF Paying, Sound
<1>3. \A a : (Lapsed(run, a) => Lapsed(w, a)) /\ ~Dealing(run, a)
  BY <1>1, <1>2 DEF Lapsed, MayMail, SameTask, Dealing
<1>4. CASE DbFails(h) /\ UNCHANGED recorded
  <2>1. CASE w.ctx
    BY <1>1, <1>2, <1>3, <1>4, <2>1, DbFaults, PaidQuiet
  <2>2. CASE ~w.ctx
    <3>1. \A a : ~Dealing(w, a)
      BY <2>2 DEF Dealing
    <3> QED
      BY <1>1, <1>2, <1>3, <1>4, <2>2, <3>1, DbFaults, PaidQuiet
  <2> QED
    BY <2>1, <2>2
<1>5. CASE NoFault /\ w.ctx
  <2>1. \A a \in Addresses : Kept(a)
    BY <1>5, RecordKeeps DEF Paying, NoFault
  <2> QED
    BY <1>1, <1>2, <1>3, <1>5, <2>1, PaidOneRun DEF Paying, Sound, NoFault
<1> QED
  BY <1>4, <1>5, RecordStep DEF Paying, Sound

LEMMA PaidFinish ==
  ASSUME Paying, CompletedStays, NEW h \in Handlers, finishIssue(h) \/ reloadSchedule(h)
  PROVE  CopiesPaid'
<1> DEFINE w == worker[h]
<1>1. /\ w.stage \in {"next", "reload"} /\ UNCHANGED <<recorded, inbox>> /\ \A a : ~Dealing(w, a)
  BY DEF finishIssue, reloadSchedule, tableVars, Dealing
<1>2. ASSUME NEW run, become(h, run), run.stage \in {"reload", "settle"}, SameTask(run, w),
             \/ DbFails(h)
             \/ NoFault /\ (Ending(w) => Ending(run))
      PROVE  CopiesPaid'
  <2>1. \A a : ~Lapsed(run, a) /\ ~Dealing(run, a)
    BY <1>2 DEF Lapsed, MayMail, Dealing
  <2>2. ~w.ctx => ~Ending(w)
    BY DEF Ending
  <2> QED
    BY <1>1, <1>2, <2>1, <2>2, DbFaults, PaidQuiet DEF NoFault
<1>3. CASE finishIssue(h)
  <2>1. PICK run \in Run : /\ become(h, run) /\ run.stage = "reload" /\ SameTask(run, w)
                           /\ \/ NoFault /\ (run.erred <=> w.erred)
                              \/ DbFails(h)
    BY <1>3, FinishStep DEF Paying, Sound
  <2>2. (run.erred <=> w.erred) => (Ending(w) => Ending(run))
    BY <2>1 DEF Ending, SameTask
  <2> QED
    BY <1>2, <2>1, <2>2
<1>4. CASE reloadSchedule(h)
  <2>1. CASE DbFails(h) /\ Return(h)
    <3>1. ~w.ctx => ~Live(h)
      BY DEF Live
    <3> QED
      BY <1>1, <2>1, <3>1, DbFaults, PaidReturn DEF finishIssue, reloadSchedule
  <2>2. ASSUME NEW run \in Run, become(h, run), run.stage = "settle", NoFault, SameTask(run, w),
               SameWork(run, w), run.verdict = "completed" <=> ~w.erred
        PROVE  CopiesPaid'
    <3>1. Ending(w) => Ending(run)
      BY <2>2 DEF Ending, SameTask, SameWork
    <3> QED
      BY <1>2, <2>2, <3>1
  <2> QED
    BY <1>4, <2>1, <2>2, ReloadStep DEF Paying, Sound
<1> QED
  BY <1>3, <1>4

LEMMA PaidSettle ==
  ASSUME Paying, CompletedStays, NEW h \in Handlers, settle(h)
  PROVE  CopiesPaid'
<1> DEFINE w == worker[h]
<1>1. /\ w.stage = "settle" /\ UNCHANGED <<recorded, inbox>> /\ Return(h)
      /\ w.verdict \in {"completed", "failed", "retry"} /\ w.job \in Schedules
  BY DEF settle, Paying, Sound, Typed, TypeOK, Run, SettleVerdict
<1>2. CASE DbFails(h)
  <2>1. ~w.ctx => ~Live(h)
    BY DEF Live
  <2> QED
    BY <1>1, <1>2, <2>1, DbFaults, PaidReturn
<1>3. CASE DbWorks(h) /\ transition(w.job, "running", afterSend(row[w.job], w.verdict))
  <2>1. \A a : ~Lapsed(IdleRun, a) /\ ~Dealing(IdleRun, a) /\ ~Dealing(w, a)
    BY <1>1, IdleRunFields DEF Lapsed, MayMail, Dealing
  <2>2. CASE w.verdict # "completed"
    <3>1. ~Ending(w)
      BY <1>1, <2>2 DEF Ending
    <3> QED
      BY <1>1, <1>3, <2>1, <3>1, PaidQuiet DEF Return, DbWorks, NoFault
  <2>3. CASE w.verdict = "completed"
    <3>1. row[w.job].status = "running"
      BY <1>1, <1>3 DEF Paying, Sound, Locked, LiveSenderOwnsRow, Live, Sending, SendStages, DbWorks
    <3>2. row' = [row EXCEPT ![w.job] = afterSend(row[w.job], w.verdict)] /\ row[w.job] \in Row
      BY <1>1, <1>3, <3>1 DEF transition, Paying, Sound, Typed, TypeOK
    <3>3. row'[w.job].status = "completed"
      BY <1>1, <2>3, <3>2, SettledRow DEF Paying, Sound, Typed, TypeOK
    <3>4. \A a : Kept(a)
      BY <1>1, <3>3 DEF Kept, Covered
    <3> QED
      BY <1>1, <1>3, <2>1, <3>4, PaidOneRun DEF Paying, Sound, Return, DbWorks, NoFault
  <2> QED
    BY <2>2, <2>3
<1> QED
  BY <1>2, <1>3 DEF settle

(* The context expires: the handler becomes a stray for the addresses it   *)
(* has not mailed yet, or forgets the one in hand, never both.             *)
LEMMA PaidExpire ==
  ASSUME Paying, CompletedStays, NEW h \in Handlers, expireContext(h)
  PROVE  CopiesPaid'
<1> DEFINE w == worker[h]
<1>1. PICK run \in Run : /\ become(h, run) /\ ~run.ctx /\ run.stage = w.stage
                         /\ SameWork(run, w) /\ run.current = w.current
  BY ExpireStep DEF Paying, Sound
<1>2. w.ctx /\ faults' = faults + 1 /\ UNCHANGED <<row, recorded, inbox>>
  BY ExpireStep DEF Paying, Sound, tableVars
<1>3. ASSUME NEW a \in Addresses, Lapsed(run, a) PROVE Kept(a)
  <2>1. w.stage \in {"next", "mail", "record"} /\ a \in w.todo /\ (w.stage = "record" => a # w.current)
    BY <1>1, <1>3 DEF Lapsed, MayMail, SameWork
  <2>2. ~Ending(w) /\ Live(h)
    BY <1>2, <2>1 DEF Ending, Live, Sending, SendStages
  <2>3. ~Dealing(run, a)
    BY <1>1 DEF Dealing
  <2>4. CASE Dealing(w, a)
    <3>1. ~w.accepted
      BY <2>1, <2>4 DEF Dealing, Paying, Sound, Shaped, Blank
    <3> QED
      BY <2>2, <2>4, <3>1, NotCovered DEF Paying, Sound, Kept
  <2>5. CASE ~Dealing(w, a)
    BY <1>1, <1>2, <2>2, <2>3, <2>5, StaysCovered DEF Paying, Sound, Kept, CompletedStays, Recorded
  <2> QED
    BY <2>4, <2>5
<1> QED
  BY <1>1, <1>2, <1>3, PaidOneRun DEF Paying, Sound

LEMMA PaidNext ==
  ASSUME Paying, NothingBounced, [WorkerNext]_vars PROVE CopiesPaid'
<1>0. CompletedStays
  BY TerminalStays DEF Paying, Sound, CompletedStays, Terminal
<1>1. ASSUME UNCHANGED <<worker, recorded, inbox>>, faults' = faults \/ faults' = faults + 1
      PROVE  CopiesPaid'
  <2>1. \A a : Strays(a)' = Strays(a)
    BY <1>1 DEF Strays, Lapsed, MayMail
  <2>2. \A a : Covered(a) => Covered(a)'
    BY <1>0, <1>1 DEF Covered, CompletedStays, Dealing, Ending
  <2>3. ASSUME NEW a \in Addresses
        PROVE  inbox'[a] + Cardinality(Strays(a)') + (IF Covered(a)' THEN 0 ELSE 1) <= 1 + faults'
    <3>1. inbox[a] \in Nat /\ faults \in Nat /\ Cardinality(Strays(a)) \in Nat
      BY FS_CardinalityType DEF Paying, Sound, Typed, TypeOK, CopiesPaid
    <3>2. inbox[a] + Cardinality(Strays(a)) + (IF Covered(a) THEN 0 ELSE 1) <= 1 + faults
      BY DEF Paying, Sound, CopiesPaid
    <3> QED
      BY <1>1, <2>1, <2>2, <3>1, <3>2
  <2> QED
    BY <2>1, <2>3 DEF Paying, Sound, CopiesPaid
<1>2. CASE UNCHANGED vars
  BY <1>1, <1>2 DEF vars
<1>3. ASSUME NEW p \in Pollers, pollerStep(p) PROVE CopiesPaid'
  <2>1. UNCHANGED <<worker, recorded, inbox>>
    BY <1>3 DEF pollerStep, processDueJobs, enqueueTask, putBack, crashPoller, tableVars
  <2>2. faults' = faults \/ faults' = faults + 1
    BY <1>3 DEF pollerStep, processDueJobs, enqueueTask, putBack, crashPoller, Fault, NoFault
  <2> QED
    BY <1>1, <2>1, <2>2
<1>4. ASSUME NEW s \in Schedules, becomeDue(s) \/ becomeAged(s) PROVE CopiesPaid'
  BY <1>1, <1>4 DEF becomeDue, becomeAged, Fault, NoFault
<1>5. CASE sweep \/ sweepIssues
  BY <1>1, <1>5 DEF sweep, sweepIssues
<1>6. ASSUME NEW h \in Handlers, NEW s \in Schedules, DeliverIssueTask(h, s) PROVE CopiesPaid'
  <2>1. PICK run \in Run : become(h, run) /\ run.stage = "load"
    BY <1>6, TakeStep DEF Paying, Sound
  <2>2. \A a : ~Dealing(worker[h], a) /\ ~Ending(worker[h]) /\ ~Dealing(run, a) /\ ~Lapsed(run, a)
    BY <1>6, <2>1 DEF DeliverIssueTask, Idle, Dealing, Ending, Lapsed, MayMail
  <2> QED
    BY <1>0, <1>6, <2>1, <2>2, PaidQuiet DEF DeliverIssueTask, tableVars
<1>7. ASSUME NEW h \in Handlers, crashHandler(h) PROVE CopiesPaid'
  BY <1>0, <1>7, PaidReturn DEF crashHandler, Fault, tableVars
<1> QED
  BY <1>0, <1>2, <1>3, <1>4, <1>5, <1>6, <1>7, PaidBefore, PaidList, PaidRecipient, PaidMail,
     PaidRecord, PaidFinish, PaidSettle, PaidExpire DEF WorkerNext, handlerStep, rowStep

LEMMA PaidInit == Init => CopiesPaid
<1> SUFFICES ASSUME Init PROVE CopiesPaid
  OBVIOUS
<1>1. \A a \in Addresses : inbox[a] = 0 /\ IsFiniteSet(Strays(a)) /\ Cardinality(Strays(a)) = 0
  BY NoMailers, FS_EmptySet DEF Init, InitTables
<1>2. faults = 0
  BY DEF Init, InitProcesses
<1>3. ASSUME NEW a \in Addresses
      PROVE  inbox[a] + Cardinality(Strays(a)) + (IF Covered(a) THEN 0 ELSE 1) <= 1 + faults
  BY <1>1, <1>2
<1> QED
  BY <1>1, <1>3 DEF CopiesPaid

(* While enqueues do not fail, refusals and retries never cost an address a*)
(* second copy, and every lost answer, failed statement, timeout, backlog  *)
(* or crash costs it at most one.                                          *)
THEOREM FaultsPayForCopies ==
  ASSUME {"enqueue", "lost_enqueue"} \cap Faults = {} PROVE Spec => []DuplicatesCostFaults
<1>1. Init => Locked /\ NothingBounced /\ OneScheduled /\ Shaped /\ CopiesPaid
  BY LockedInit, ScheduledInit, ShapedInit, PaidInit
<1>2. Typed /\ Typed' /\ Locked /\ NothingBounced /\ OneScheduled /\ Shaped /\ CopiesPaid
        /\ [WorkerNext]_vars
        => (Locked /\ NothingBounced /\ OneScheduled /\ Shaped /\ CopiesPaid)'
  BY LockedNext, BouncedNext, ScheduledNext, ShapedNext, PaidNext DEF Paying, Sound
<1>3. Typed /\ CopiesPaid => DuplicatesCostFaults
  <2> SUFFICES ASSUME Typed, CopiesPaid, NEW r \in Addresses PROVE inbox[r] <= 1 + faults
    BY DEF DuplicatesCostFaults
  <2>1. Addresses = Addresses /\ inbox[r] \in Nat /\ faults \in Nat /\ Cardinality(Strays(r)) \in Nat
    BY FS_CardinalityType DEF CopiesPaid, Typed, TypeOK
  <2>2. inbox[r] + Cardinality(Strays(r)) + (IF Covered(r) THEN 0 ELSE 1) <= 1 + faults
    BY DEF CopiesPaid
  <2> QED
    BY <2>1, <2>2
<1> QED
  BY <1>1, <1>2, <1>3, SpecTyped, PTL DEF Spec

-----------------------------------------------------------------------------
(* SendControl: the other writers of the tables.                           *)

(* The requests in progress.                                               *)
Requested == req \in [Requests -> Request] /\ begun \in Nat

(* The requests that are in no progress have one value.                    *)
LEMMA NoRequestTyped == NoRequest \in Request /\ NoRequest.stage = "idle"
BY DeliveryAssumption DEF NoRequest, Request, RequestStages, OperationKinds

(* What a request does to its own entry.                                   *)
LEMMA RequestTyped ==
  ASSUME Typed, Requested, NEW q \in Requests, requestStep(q)
  PROVE  Requested'
<1> DEFINE r == req[q]
<1>1. r \in Request /\ issue.content \in BOOLEAN
  BY DEF Requested, Typed, TypeOK
<1>2. ASSUME NEW new \in Request, req' = [req EXCEPT ![q] = new], UNCHANGED begun PROVE Requested'
  BY <1>2 DEF Requested
<1>3. ASSUME NEW op \in OperationKinds, NEW stage \in RequestStages, Begin(q, op, stage) PROVE Requested'
  <2>1. [NoRequest EXCEPT !.stage = stage, !.op = op, !.content = issue.content] \in Request
    BY <1>1, NoRequestTyped DEF Request
  <2> QED
    BY <1>3, <2>1 DEF Begin, Requested
<1>4. ASSUME NEW stage \in RequestStages, Stage(q, stage), UNCHANGED begun PROVE Requested'
  <2>1. [r EXCEPT !.stage = stage] \in Request
    BY <1>1 DEF Request
  <2> QED
    BY <1>4, <2>1 DEF Stage, Requested
<1>5. Done(q) /\ UNCHANGED begun => Requested'
  BY NoRequestTyped DEF Done, Requested
<1>6. approveIssue(q) \/ rescheduleIssue(q) \/ cancelIssueSend(q) \/ generateIssue(q)
        \/ persistIssueResult(q) \/ persistFailedResult(q) => Requested'
  BY <1>3 DEF approveIssue, rescheduleIssue, cancelIssueSend, generateIssue, persistIssueResult,
     persistFailedResult, OperationKinds, RequestStages
<1>7. setApproved(q) \/ withdrawSchedules(q) \/ markGenerating(q) => Requested'
  BY <1>4 DEF setApproved, withdrawSchedules, markGenerating, RequestStages
<1>8. ASSUME findSchedule(q) PROVE Requested'
  <2>1. ASSUME NEW s \in Schedules, req' = [req EXCEPT ![q].stage = "update", ![q].found = s]
        PROVE  Requested'
    <3>1. [r EXCEPT !.stage = "update", !.found = s] \in Request
      BY <1>1 DEF Request, RequestStages
    <3> QED
      BY <1>8, <2>1, <3>1 DEF findSchedule, Requested
  <2> QED
    BY <1>4, <1>8, <2>1 DEF findSchedule, RequestStages
<1>9. updateSchedule(q) \/ insertSchedule(q) \/ restoreIssue(q) \/ queueIssueGeneration(q)
        \/ failSchedules(q) \/ crashRequest(q) => Requested'
  BY <1>5 DEF updateSchedule, insertSchedule, restoreIssue, queueIssueGeneration, failSchedules, crashRequest
<1>10. autoSchedule(q) => Requested'
  BY <1>4, <1>5 DEF autoSchedule, RequestStages
<1> QED
  BY <1>6, <1>7, <1>8, <1>9, <1>10 DEF requestStep

(* What it does to the table: it writes one new row, withdraws the waiting  *)
(* ones, or leaves it alone.                                               *)
Waiting == {s \in Schedules : row[s].status \in {"pending", "claimed"}}

LEMMA WithdrawnRows ==
  ASSUME NEW status, row' = [s \in Schedules |-> Withdrawn(s, status)]
  PROVE  row' = [s \in Schedules |-> IF s \in Waiting THEN enter(row[s], status) ELSE row[s]]
BY DEF Withdrawn, Waiting

LEMMA RequestRows ==
  ASSUME Typed, Requested, NEW q \in Requests, requestStep(q)
  PROVE  \/ UNCHANGED row
         \/ \E s \in Schedules, due \in BOOLEAN :
              row' = [row EXCEPT ![s] = NewRow(due)] /\ req[q].stage \in {"update", "insert"}
         \/ \E status \in {"canceled", "failed"} :
              /\ row' = [s \in Schedules |-> IF s \in Waiting THEN enter(row[s], status) ELSE row[s]]
              /\ status = "canceled" => withdrawSchedules(q)
<1>1. req[q].found \in Schedules /\ RunAtDue(req[q].op) \subseteq BOOLEAN
  BY DEF Requested, Request, RunAtDue
<1>2. CASE updateSchedule(q) \/ insertSchedule(q)
  BY <1>1, <1>2 DEF updateSchedule, insertSchedule, At
<1>3. CASE withdrawSchedules(q) \/ failSchedules(q)
  BY <1>3, WithdrawnRows DEF withdrawSchedules, failSchedules
<1>4. CASE UNCHANGED row
  BY <1>4
<1> QED
  BY <1>2, <1>3, <1>4
  DEF requestStep, approveIssue, setApproved, rescheduleIssue, findSchedule, cancelIssueSend, restoreIssue,
      generateIssue, markGenerating, queueIssueGeneration, persistIssueResult, persistFailedResult,
      autoSchedule, crashRequest, TablesKept, IssueOnly

(* What it leaves to the control worker, and how it changes the issue.      *)
LEMMA RequestKeeps ==
  ASSUME Typed, NEW q \in Requests, requestStep(q)
  PROVE  /\ UNCHANGED <<series, deliverable, recorded, workerVars>>
         /\ issue' \in [status: IssueStatuses, content: BOOLEAN]
         /\ faults' = faults \/ (faults' = faults + 1 /\ {"enqueue", "crash"} \cap Faults # {})
<1>1. UNCHANGED <<series, deliverable, recorded, workerVars>>
  BY DEF requestStep, approveIssue, setApproved, rescheduleIssue, findSchedule, updateSchedule,
     insertSchedule, cancelIssueSend, withdrawSchedules, restoreIssue,
     generateIssue, markGenerating, queueIssueGeneration, persistIssueResult, persistFailedResult,
     failSchedules, autoSchedule, crashRequest, TablesKept, IssueOnly, RowsOnly
<1>2. issue' = issue
      \/ (\E status \in IssueStatuses : issue' = [issue EXCEPT !.status = status])
      \/ issue' \in [status: IssueStatuses, content: BOOLEAN]
  <2>1. persistIssueResult(q) \/ persistFailedResult(q)
          => issue' \in [status: IssueStatuses, content: BOOLEAN]
    <3>1. \A st \in IssueStatuses, c \in BOOLEAN :
            [status |-> st, content |-> c] \in [status: IssueStatuses, content: BOOLEAN]
      OBVIOUS
    <3>2. TRUE \in BOOLEAN /\ FALSE \in BOOLEAN /\ "ready" \in IssueStatuses /\ "failed" \in IssueStatuses
      BY DEF IssueStatuses
    <3>3. persistIssueResult(q) => issue' = [status |-> "ready", content |-> TRUE]
      BY DEF persistIssueResult
    <3>4. persistFailedResult(q) => issue' = [status |-> "failed", content |-> FALSE]
      BY DEF persistFailedResult
    <3> QED
      BY <3>1, <3>2, <3>3, <3>4
  <2>2. setApproved(q) \/ restoreIssue(q) \/ markGenerating(q) \/ queueIssueGeneration(q) \/ autoSchedule(q)
          => issue' = issue \/ \E status \in IssueStatuses : issue' = [issue EXCEPT !.status = status]
    BY DEF setApproved, restoreIssue, markGenerating, queueIssueGeneration, autoSchedule, IssueStatuses
  <2>3. approveIssue(q) \/ rescheduleIssue(q) \/ findSchedule(q) \/ updateSchedule(q) \/ insertSchedule(q)
          \/ cancelIssueSend(q) \/ withdrawSchedules(q) \/ generateIssue(q) \/ failSchedules(q) \/ crashRequest(q)
          => issue' = issue
    BY DEF approveIssue, rescheduleIssue, findSchedule, updateSchedule, insertSchedule, cancelIssueSend,
       withdrawSchedules, generateIssue, failSchedules, crashRequest, TablesKept, RowsOnly
  <2> QED
    BY <2>1, <2>2, <2>3 DEF requestStep
<1>3. issue' \in [status: IssueStatuses, content: BOOLEAN]
  BY <1>2 DEF Typed, TypeOK, IssueStatuses
<1>4. faults' = faults \/ (faults' = faults + 1 /\ {"enqueue", "crash"} \cap Faults # {})
  BY DEF requestStep, approveIssue, setApproved, rescheduleIssue, findSchedule, updateSchedule,
     insertSchedule, cancelIssueSend, withdrawSchedules, restoreIssue,
     generateIssue, markGenerating, queueIssueGeneration, persistIssueResult, persistFailedResult,
     failSchedules, autoSchedule, crashRequest, Begin, NoFault, Fault
<1> QED
  BY <1>1, <1>3, <1>4

LEMMA ControlTypedInit == ControlInit => Typed /\ Requested
BY TypedInit, NoRequestTyped DEF ControlInit, Requested

LEMMA ControlTypedNext ==
  ASSUME Typed, Requested, [ControlNext]_controlVars PROVE Typed' /\ Requested'
<1>1. CASE UNCHANGED controlVars
  BY <1>1, TypedNext DEF controlVars, Requested
<1>2. CASE WorkerNext /\ UNCHANGED <<req, begun>>
  BY <1>2, TypedNext DEF Requested
<1>3. ASSUME NEW q \in Requests, requestStep(q) PROVE Typed' /\ Requested'
  <2>1. row' \in [Schedules -> Row] /\ AttemptsWithinBudget'
    <3>1. CASE UNCHANGED row
      BY <3>1, RowsKept
    <3>2. ASSUME NEW s \in Schedules, NEW due \in BOOLEAN, row' = [row EXCEPT ![s] = NewRow(due)]
          PROVE  row' \in [Schedules -> Row] /\ AttemptsWithinBudget'
      <4>1. NewRow(due) \in Row /\ FitsBudget(NewRow(due))
        BY DeliveryAssumption DEF NewRow, Row, Statuses, FitsBudget
      <4> QED
        BY <3>2, <4>1, OneRow
    <3>3. ASSUME NEW status \in {"canceled", "failed"},
                 row' = [s \in Schedules |-> IF s \in Waiting THEN enter(row[s], status) ELSE row[s]]
          PROVE  row' \in [Schedules -> Row] /\ AttemptsWithinBudget'
      BY <3>3, SomeRows DEF Waiting, Statuses
    <3> QED
      BY <1>3, <3>1, <3>2, <3>3, RequestRows
  <2>2. worker' \in [Handlers -> Run] /\ SettleVerdict' /\ faults' \in Nat
    BY <1>3, RequestKeeps, RunsKept DEF workerVars, Typed, TypeOK
  <2> QED
    BY <1>3, <2>1, <2>2, RequestKeeps, RequestTyped DEF workerVars, Typed, TypeOK
<1>4. CASE updateSeriesStatus \/ deleteSeries
  <2>1. AttemptsWithinBudget' /\ SettleVerdict'
    BY <1>4, RowsKept, RunsKept DEF updateSeriesStatus, deleteSeries, workerVars
  <2>2. series' \in [paused: BOOLEAN, deleted: BOOLEAN]
    BY <1>4 DEF updateSeriesStatus, deleteSeries, Typed, TypeOK
  <2> QED
    BY <1>4, <2>1, <2>2 DEF updateSeriesStatus, deleteSeries, workerVars, Typed, TypeOK, Requested
<1>5. ASSUME NEW r \in Recipients, changeAudience(r) PROVE Typed' /\ Requested'
  <2>1. AttemptsWithinBudget' /\ SettleVerdict'
    BY <1>5, RowsKept, RunsKept DEF changeAudience, workerVars
  <2> QED
    BY <1>5, <2>1 DEF changeAudience, workerVars, Typed, TypeOK, Requested
<1> QED
  BY <1>1, <1>2, <1>3, <1>4, <1>5 DEF ControlNext

(* Every reachable state is well typed, with the requests in it.           *)
THEOREM ControlTyped == ControlSpec => [](Typed /\ Requested)
<1>1. Typed /\ Requested /\ [ControlNext]_controlVars => (Typed /\ Requested)'
  BY ControlTypedNext
<1> QED
  BY <1>1, ControlTypedInit, PTL DEF ControlSpec

(* Type correctness of the control worker together with the other writers  *)
(* of its tables.                                                          *)
THEOREM ControlTypeCorrect == ControlSpec => []ControlTypeOK
<1>1. Typed /\ Requested => ControlTypeOK
  BY DEF Typed, Requested, ControlTypeOK
<1> QED
  BY <1>1, ControlTyped, PTL

-----------------------------------------------------------------------------
(* An approved issue has its send.                                         *)

(* A run cancels a row because it found the series deleted, which it stays. *)
CancelsDeleted ==
  \A h \in Handlers : worker[h].stage = "decide" /\ worker[h].verdict = "cancel" => series.deleted

HasRow == \E s \in Schedules : row[s].status \notin {"absent", "canceled"}

LEMMA AfterPreflightStatus ==
  ASSUME NEW r \in Row, NEW verdict
  PROVE  afterPreflight(r, verdict).status = CASE verdict = "send" -> "running"
                                               [] verdict = "defer" -> "pending"
                                               [] verdict = "cancel" -> "canceled"
                                               [] OTHER -> "failed"
<1>1. \A status \in Statuses : enter(r, status) \in Row /\ enter(r, status).status = status
  BY EnterRow
<1>2. [enter(r, "running") EXCEPT !.attempts = @ + 1].status = "running"
      /\ [enter(r, "pending") EXCEPT !.due = FALSE].status = "pending"
  BY <1>1 DEF Statuses, Row
<1>3. enter(r, "canceled").status = "canceled" /\ enter(r, "failed").status = "failed"
  BY <1>1 DEF Statuses
<1> QED
  BY <1>2, <1>3 DEF afterPreflight

LEMMA CancelsInit == Init => CancelsDeleted
BY IdleRunFields DEF Init, InitProcesses, CancelsDeleted

LEMMA CancelsWorker ==
  ASSUME Typed, CancelsDeleted, WorkerNext PROVE CancelsDeleted'
<1>0. UNCHANGED series
  BY DEF WorkerNext, pollerStep, processDueJobs, enqueueTask, putBack, crashPoller, rowStep, becomeDue,
     becomeAged, DeliverIssueTask, handlerStep, loadIssue, preflight, listRecipients, nextRecipient,
     mailSend, recordDelivery, finishIssue, reloadSchedule, settle, expireContext, crashHandler,
     sweep, sweepIssues, tableVars
<1>1. CASE UNCHANGED worker
  BY <1>0, <1>1 DEF CancelsDeleted
<1>2. ASSUME NEW h \in Handlers, NEW run, become(h, run),
             run.stage = "decide" /\ run.verdict = "cancel" => series.deleted
      PROVE  CancelsDeleted'
  BY <1>0, <1>2, OtherRuns DEF CancelsDeleted
<1>3. ASSUME NEW h \in Handlers, loadIssue(h) PROVE CancelsDeleted'
  <2> DEFINE run == [worker[h] EXCEPT !.stage = "decide", !.verdict = decideDelivery]
  <2>1. worker[h] \in Run
    BY DEF Typed, TypeOK
  <2>2. run.verdict = "cancel" => series.deleted
    BY <2>1 DEF Run, decideDelivery
  <2>3. Return(h) \/ become(h, run)
    BY <1>3 DEF loadIssue
  <2>4. IdleRun.stage # "decide"
    BY IdleRunFields
  <2> HIDE DEF run
  <2> QED
    BY <1>2, <2>2, <2>3, <2>4 DEF Return
<1>4. ASSUME NEW h \in Handlers, NEW run, become(h, run), run.stage # "decide" PROVE CancelsDeleted'
  BY <1>2, <1>4
<1>5. ASSUME NEW h \in Handlers,
             preflight(h) \/ listRecipients(h) \/ (\E a \in Addresses : nextRecipient(h, a)) \/ mailSend(h)
             \/ recordDelivery(h) \/ finishIssue(h) \/ reloadSchedule(h) \/ settle(h) \/ crashHandler(h)
             \/ \E s \in Schedules : DeliverIssueTask(h, s)
      PROVE  CancelsDeleted'
  <2>1. CASE Return(h)
    BY <1>4, <2>1, IdleRunFields DEF Return
  <2>2. CASE preflight(h)
    BY <1>4, <2>1, <2>2, PreflightStep
  <2>3. CASE listRecipients(h)
    BY <1>4, <2>3, ListStep
  <2>4. CASE \E a \in Addresses : nextRecipient(h, a)
    BY <1>4, <2>4, RecipientStep
  <2>5. CASE mailSend(h) \/ recordDelivery(h)
    BY <1>4, <2>5, MailStep, RecordStep
  <2>6. CASE finishIssue(h) \/ reloadSchedule(h)
    BY <1>4, <2>1, <2>6, FinishStep, ReloadStep
  <2>7. CASE settle(h) \/ crashHandler(h)
    BY <2>1, <2>7 DEF settle, crashHandler
  <2>8. CASE \E s \in Schedules : DeliverIssueTask(h, s)
    BY <1>4, <2>8, TakeStep
  <2> QED
    BY <1>5, <2>2, <2>3, <2>4, <2>5, <2>6, <2>7, <2>8
<1>6. ASSUME NEW h \in Handlers, expireContext(h) PROVE CancelsDeleted'
  <2> DEFINE run == [worker[h] EXCEPT !.ctx = FALSE]
  <2>1. worker[h] \in Run
    BY DEF Typed, TypeOK
  <2>2. run.verdict = worker[h].verdict /\ run.stage = worker[h].stage
    BY <2>1 DEF Run
  <2>3. become(h, run)
    BY <1>6 DEF expireContext
  <2> HIDE DEF run
  <2> QED
    BY <1>2, <2>2, <2>3 DEF CancelsDeleted
<1>7. ASSUME NEW p \in Pollers, pollerStep(p) PROVE UNCHANGED worker
  BY <1>7 DEF pollerStep, processDueJobs, enqueueTask, putBack, crashPoller
<1>8. ASSUME NEW s \in Schedules, becomeDue(s) \/ becomeAged(s) PROVE UNCHANGED worker
  BY <1>8 DEF becomeDue, becomeAged
<1>9. sweep \/ sweepIssues => UNCHANGED worker
  BY DEF sweep, sweepIssues
<1> QED
  BY <1>1, <1>3, <1>5, <1>6, <1>7, <1>8, <1>9 DEF WorkerNext, rowStep, handlerStep

(* No step of the control worker approves an issue, and the rows it cancels *)
(* are those of a deleted series.                                          *)
LEMMA WorkerKeepsSend ==
  ASSUME Typed, CancelsDeleted, WorkerNext
  PROVE  /\ issue'.status = "approved" => issue.status = "approved"
         /\ HasRow => HasRow' \/ series.deleted
         /\ UNCHANGED series /\ faults' \in {faults, faults + 1}
<1>1. issue'.status = "approved" => issue.status = "approved"
  BY DEF WorkerNext, pollerStep, processDueJobs, enqueueTask, putBack, crashPoller, rowStep, becomeDue,
     becomeAged, DeliverIssueTask, handlerStep, loadIssue, preflight, listRecipients, nextRecipient,
     mailSend, recordDelivery, finishIssue, reloadSchedule, settle, expireContext, crashHandler,
     sweep, sweepIssues, tableVars, Typed, TypeOK
<1>2. UNCHANGED series
  BY DEF WorkerNext, pollerStep, processDueJobs, enqueueTask, putBack, crashPoller, rowStep, becomeDue,
     becomeAged, DeliverIssueTask, handlerStep, loadIssue, preflight, listRecipients, nextRecipient,
     mailSend, recordDelivery, finishIssue, reloadSchedule, settle, expireContext, crashHandler,
     sweep, sweepIssues, tableVars
<1>3. faults' \in {faults, faults + 1}
  BY ZenonT(30) DEF WorkerNext, pollerStep, processDueJobs, enqueueTask, putBack, crashPoller, rowStep, becomeDue,
     becomeAged, DeliverIssueTask, handlerStep, loadIssue, preflight, listRecipients, nextRecipient,
     mailSend, recordDelivery, finishIssue, reloadSchedule, settle, expireContext, crashHandler,
     sweep, sweepIssues, DbWorks, DbFails, Fault, NoFault
<1>4. ASSUME NEW s \in Schedules, row[s].status \notin {"absent", "canceled"}, ~series.deleted
      PROVE  row'[s].status \notin {"absent", "canceled"}
  <2>0. row[s] \in Row
    BY DEF Typed, TypeOK
  <2>1. CASE UNCHANGED row
    BY <1>4, <2>1
  <2>2. ASSUME NEW t \in Schedules, NEW new, row' = [row EXCEPT ![t] = new],
               new.status \notin {"absent", "canceled"}
        PROVE  row'[s].status \notin {"absent", "canceled"}
    BY <1>4, <2>2 DEF Typed, TypeOK
  <2>3. \A t \in Schedules : enter(row[t], "pending").status = "pending"
                             /\ enter(row[t], "claimed").status = "claimed"
    BY EnterRow DEF Typed, TypeOK, Statuses
  <2>4. ASSUME NEW p \in Pollers, pollerStep(p) PROVE row'[s].status \notin {"absent", "canceled"}
    <3>1. ASSUME NEW S \in SUBSET Schedules, processDueJobs(p, S)
          PROVE  row'[s].status \notin {"absent", "canceled"}
      BY <1>4, <2>3, <3>1 DEF processDueJobs
    <3>2. ASSUME NEW t \in Schedules, putBack(p, t) PROVE row'[s].status \notin {"absent", "canceled"}
      BY <2>1, <2>2, <2>3, <3>2 DEF putBack
    <3> QED
      BY <2>1, <2>4, <3>1, <3>2 DEF pollerStep, enqueueTask, crashPoller, tableVars
  <2>5. ASSUME NEW h \in Handlers, preflight(h) PROVE row'[s].status \notin {"absent", "canceled"}
    <3> DEFINE w == worker[h]
    <3>1. w.job \in Schedules /\ row[w.job] \in Row
      BY DEF Typed, TypeOK, Run
    <3>2. w.verdict # "cancel"
      BY <1>4, <2>5 DEF CancelsDeleted, preflight
    <3>3. afterPreflight(row[w.job], w.verdict).status \notin {"absent", "canceled"}
      BY <3>1, <3>2, AfterPreflightStatus
    <3>4. UNCHANGED row \/ row' = [row EXCEPT ![w.job] = afterPreflight(row[w.job], w.verdict)]
      BY <2>5 DEF preflight, transition
    <3> QED
      BY <2>1, <2>2, <3>1, <3>3, <3>4
  <2>6. ASSUME NEW h \in Handlers, settle(h) PROVE row'[s].status \notin {"absent", "canceled"}
    <3> DEFINE w == worker[h]
    <3>1. w.job \in Schedules /\ row[w.job] \in Row /\ w.verdict \in {"completed", "failed", "retry"}
      BY <2>6 DEF Typed, TypeOK, Run, SettleVerdict, settle
    <3>2. afterSend(row[w.job], w.verdict).status \notin {"absent", "canceled"}
      BY <3>1, SettledRow
    <3>3. UNCHANGED row \/ row' = [row EXCEPT ![w.job] = afterSend(row[w.job], w.verdict)]
      BY <2>6 DEF settle, transition
    <3> QED
      BY <2>1, <2>2, <3>1, <3>2, <3>3
  <2>7. ASSUME NEW t \in Schedules, becomeDue(t) \/ becomeAged(t)
        PROVE  row'[s].status \notin {"absent", "canceled"}
    BY <1>4, <2>0, <2>7 DEF becomeDue, becomeAged, Typed, TypeOK, Row
  <2>8. CASE sweep
    BY <1>4, <2>3, <2>8 DEF sweep
  <2> QED
    BY <2>1, <2>4, <2>5, <2>6, <2>7, <2>8
    DEF WorkerNext, rowStep, handlerStep, DeliverIssueTask, loadIssue, listRecipients, nextRecipient,
        mailSend, recordDelivery, finishIssue, reloadSchedule, expireContext, crashHandler, sweepIssues, tableVars
<1> QED
  BY <1>1, <1>2, <1>3, <1>4 DEF HasRow

OnTheWay == {"find", "update", "insert", "restore"}
Attending == \E q \in Requests : req[q].stage \in OnTheWay

LEMMA ApprovedFolded ==
  ApprovedHasSchedule <=> (faults = 0 /\ issue.status = "approved" /\ ~series.deleted => HasRow \/ Attending)
BY DEF ApprovedHasSchedule, HasRow, Attending, OnTheWay

LEMMA ApprovedAfter ==
  ApprovedHasSchedule'
    <=> (faults' = 0 /\ issue'.status = "approved" /\ ~series'.deleted => HasRow' \/ Attending')
BY DEF ApprovedHasSchedule, HasRow, Attending, OnTheWay

(* A request that is not on its way to the table, and does not approve.     *)
LEMMA RequestLetsBe ==
  ASSUME Requested, NEW q \in Requests, NEW new, req' = [req EXCEPT ![q] = new],
         req[q].stage \notin OnTheWay, HasRow => HasRow'
  PROVE  HasRow \/ Attending => HasRow' \/ Attending'
<1>1. \A k \in Requests : k # q => req'[k] = req[k]
  BY DEF Requested
<1> QED
  BY <1>1 DEF Attending

LEMMA RowsKeepSend == UNCHANGED row => (HasRow => HasRow')
BY DEF HasRow

LEMMA ApprovedRequest ==
  ASSUME Typed, Requested, NEW q \in Requests, requestStep(q), HasRow \/ Attending,
         issue.status = "approved", faults' = faults
  PROVE  HasRow' \/ Attending' \/ issue'.status # "approved"
<1>0. req[q] \in Request /\ req \in [Requests -> Request]
  BY DEF Requested
<1>1. CASE setApproved(q) \/ rescheduleIssue(q) \/ findSchedule(q) \/ withdrawSchedules(q)
  <2>1. req'[q].stage \in OnTheWay
    <3>1. setApproved(q) \/ withdrawSchedules(q) => req'[q].stage \in OnTheWay
      BY <1>0 DEF setApproved, withdrawSchedules, Stage, OnTheWay, Request
    <3>2. rescheduleIssue(q) => req'[q].stage \in OnTheWay
      BY <1>0, NoRequestTyped DEF rescheduleIssue, Begin, OnTheWay, Request
    <3>3. findSchedule(q) => req'[q].stage \in OnTheWay
      BY <1>0 DEF findSchedule, Stage, OnTheWay, Request
    <3> QED
      BY <1>1, <3>1, <3>2, <3>3
  <2> QED
    BY <2>1 DEF Attending
<1>2. CASE updateSchedule(q) \/ insertSchedule(q)
  <2>1. req[q].found \in Schedules /\ RunAtDue(req[q].op) \subseteq BOOLEAN
    BY <1>0 DEF Request, RunAtDue
  <2>2. PICK s \in Schedules, due \in BOOLEAN : row' = [row EXCEPT ![s] = NewRow(due)]
    BY <1>2, <2>1 DEF updateSchedule, insertSchedule
  <2>3. row'[s].status = "pending"
    BY <2>2 DEF Typed, TypeOK, NewRow
  <2> QED
    BY <2>3 DEF HasRow
<1>3. CASE restoreIssue(q) \/ markGenerating(q) \/ persistIssueResult(q) \/ persistFailedResult(q)
  <2>1. restoreIssue(q) \/ markGenerating(q) => issue'.status # "approved"
    BY DEF restoreIssue, markGenerating, Typed, TypeOK
  <2>2. persistIssueResult(q) \/ persistFailedResult(q) => issue'.status # "approved"
    BY DEF persistIssueResult, persistFailedResult
  <2> QED
    BY <1>3, <2>1, <2>2
<1>4. CASE approveIssue(q) \/ cancelIssueSend(q) \/ generateIssue(q) \/ queueIssueGeneration(q)
  <2>1. UNCHANGED row /\ \E new : req' = [req EXCEPT ![q] = new]
    BY <1>4 DEF approveIssue, cancelIssueSend, generateIssue, queueIssueGeneration, Begin, Done,
       TablesKept, IssueOnly
  <2>2. req[q].stage \notin OnTheWay
    BY <1>4 DEF approveIssue, cancelIssueSend, generateIssue, queueIssueGeneration, Begin, At, OnTheWay
  <2> QED
    BY <2>1, <2>2, RequestLetsBe, RowsKeepSend
<1>5. CASE failSchedules(q)
  <2>1. req[q].stage \notin OnTheWay /\ \E new : req' = [req EXCEPT ![q] = new]
    BY <1>5 DEF failSchedules, At, OnTheWay, Done
  <2>2. HasRow => HasRow'
    <3>1. row' = [s \in Schedules |-> IF s \in Waiting THEN enter(row[s], "failed") ELSE row[s]]
      BY <1>5, WithdrawnRows DEF failSchedules
    <3>2. \A s \in Schedules : enter(row[s], "failed").status = "failed"
      BY EnterRow DEF Typed, TypeOK, Statuses
    <3> QED
      BY <3>1, <3>2 DEF HasRow
  <2> QED
    BY <2>1, <2>2, RequestLetsBe
<1>6. CASE autoSchedule(q)
  <2>1. req[q].stage \notin OnTheWay /\ UNCHANGED row
    BY <1>6 DEF autoSchedule, At, OnTheWay, IssueOnly
  <2>2. \E new : req' = [req EXCEPT ![q] = new]
    BY <1>6 DEF autoSchedule, Stage, Done
  <2> QED
    BY <2>1, <2>2, RequestLetsBe, RowsKeepSend
<1>7. CASE crashRequest(q)
  BY <1>7 DEF crashRequest, Fault, Typed, TypeOK
<1> QED
  BY <1>1, <1>2, <1>3, <1>4, <1>5, <1>6, <1>7 DEF requestStep

LEMMA ApprovedNext ==
  ASSUME Typed, Requested, CancelsDeleted, ApprovedHasSchedule, [ControlNext]_controlVars
  PROVE  ApprovedHasSchedule' /\ CancelsDeleted'
<1>0. faults \in Nat
  BY DEF Typed, TypeOK
<1>1. CASE UNCHANGED controlVars
  BY <1>1 DEF controlVars, vars, ApprovedHasSchedule, CancelsDeleted
<1>2. CASE WorkerNext /\ UNCHANGED <<req, begun>>
  <2>1. /\ issue'.status = "approved" => issue.status = "approved"
        /\ HasRow => HasRow' \/ series.deleted
        /\ UNCHANGED series /\ faults' \in {faults, faults + 1}
    BY <1>2, WorkerKeepsSend
  <2>2. Attending' <=> Attending
    BY <1>2 DEF Attending
  <2>3. faults' = 0 => faults = 0
    BY <1>0, <2>1
  <2>4. faults' = 0 /\ issue'.status = "approved" /\ ~series'.deleted => HasRow' \/ Attending'
    BY <2>1, <2>2, <2>3, ApprovedFolded
  <2> QED
    BY <1>2, <2>4, CancelsWorker, ApprovedAfter
<1>3. ASSUME NEW q \in Requests, requestStep(q) PROVE ApprovedHasSchedule' /\ CancelsDeleted'
  <2>1. /\ UNCHANGED <<series, worker>>
        /\ faults' \in {faults, faults + 1}
    BY <1>3, RequestKeeps DEF workerVars
  <2>2. CancelsDeleted'
    BY <2>1 DEF CancelsDeleted
  <2>3. ASSUME faults' = 0, issue'.status = "approved", ~series'.deleted PROVE HasRow' \/ Attending'
    <3>1. faults = 0 /\ faults' = faults
      BY <1>0, <2>1, <2>3
    <3>2. CASE issue.status = "approved"
      BY <1>3, <2>1, <2>3, <3>1, <3>2, ApprovedRequest, ApprovedFolded
    <3>3. CASE issue.status # "approved"
      <4>1. setApproved(q) \/ autoSchedule(q)
        BY <1>3, <2>3, <3>3 DEF requestStep, approveIssue, rescheduleIssue, findSchedule, updateSchedule,
           insertSchedule, cancelIssueSend, withdrawSchedules, restoreIssue, generateIssue, markGenerating,
           queueIssueGeneration, persistIssueResult, persistFailedResult, failSchedules, crashRequest,
           TablesKept, RowsOnly, Typed, TypeOK
      <4>2. Stage(q, "find")
        BY <2>3, <3>3, <4>1 DEF setApproved, autoSchedule
      <4>3. req'[q].stage = "find"
        BY <4>2 DEF Stage, Requested, Request
      <4> QED
        BY <4>3 DEF Attending, OnTheWay
    <3> QED
      BY <3>2, <3>3
  <2> QED
    BY <2>2, <2>3, ApprovedAfter
<1>4. CASE updateSeriesStatus \/ deleteSeries \/ \E r \in Recipients : changeAudience(r)
  <2>1. UNCHANGED <<row, issue, worker, faults, req>> /\ (series.deleted => series'.deleted)
    BY <1>4 DEF updateSeriesStatus, deleteSeries, changeAudience, workerVars, Typed, TypeOK
  <2> QED
    BY <2>1 DEF ApprovedHasSchedule, CancelsDeleted
<1> QED
  BY <1>1, <1>2, <1>3, <1>4 DEF ControlNext

LEMMA ApprovedInit == ControlInit => ApprovedHasSchedule /\ CancelsDeleted
<1> SUFFICES ASSUME ControlInit PROVE ApprovedHasSchedule /\ CancelsDeleted
  OBVIOUS
<1>1. \A s \in Schedules : row[s] # NoRow => row[s].status = "pending"
  BY DEF ControlInit, Init, NewRow
<1>2. ApprovedHasSchedule
  BY <1>1 DEF ControlInit, ApprovedHasSchedule
<1> QED
  BY <1>2, CancelsInit DEF ControlInit

(* As long as nothing fails, no interleaving of approvals, cancellations,   *)
(* reschedules, generations and deliveries leaves an issue that says       *)
(* approved without a row that is or was its send, or a request that is    *)
(* about to write one.                                                     *)
THEOREM ApprovedIsSent == ControlSpec => []ApprovedHasSchedule
<1>1. Typed /\ Requested /\ CancelsDeleted /\ ApprovedHasSchedule /\ [ControlNext]_controlVars
        => (CancelsDeleted /\ ApprovedHasSchedule)'
  BY ApprovedNext
<1> QED
  BY <1>1, ApprovedInit, ControlTyped, PTL DEF ControlSpec

-----------------------------------------------------------------------------
(* The refinement of SendOnce, in the conditions it is promised for: mails *)
(* are refused and queues back up, sends are canceled, series are paused   *)
(* and deleted and audiences change, all at any time.  Then the context of *)
(* a handler never dies, so a handler that mails holds its row to the end. *)

Calm == /\ Faults \subseteq {"refuse", "backlog"}
        /\ Operations \subseteq {"cancel", "pause", "delete", "audience"}

OnlyWithdrawals == \A q \in Requests : req[q].stage \in {"idle", "withdraw", "restore"}

ContextsHold == \A h \in Handlers : ~Idle(h) => worker[h].ctx

RunningIsSent ==
  \A s \in Schedules : row[s].status = "running" => \E h \in Handlers : Sending(h) /\ worker[h].job = s

(* A run has an audience from listRecipients on, mails only its members,    *)
(* and completes its row only without an error.                            *)
Tried(run) ==
  /\ run.stage \in {"idle", "load", "decide", "list"} => run.audience = {}
  /\ run.stage \in SendStages \ {"list"} => run.audience # {}
  /\ run.stage \in {"next", "mail", "record"} => run.todo \subseteq run.audience
  /\ run.stage = "settle" /\ run.verdict = "completed" => ~run.erred

Tries == \A h \in Handlers : Tried(worker[h])

(* The account of CopiesPaid when nothing can be lost.                     *)
OneCopy == \A a \in Addresses : inbox[a] + (IF Covered(a) THEN 0 ELSE 1) <= 1

Steady == /\ Typed /\ Requested /\ Locked /\ NothingBounced /\ OneScheduled /\ Shaped /\ AllReached
          /\ OnlyWithdrawals /\ ContextsHold /\ RunningIsSent /\ Tries /\ OneCopy

(* What the handlers keep of it, and what a step of one may rely on.       *)
Steering == ContextsHold /\ RunningIsSent /\ Tries /\ OneCopy
Working == Calm /\ Sound /\ AllReached /\ CompletedStays /\ Steering

-----------------------------------------------------------------------------
LEMMA CalmFaults ==
  ASSUME Calm, NEW kind \in FaultKinds \ {"refuse", "backlog"} PROVE ~Fault(kind)
BY DEF Calm, Fault

LEMMA CalmDb ==
  ASSUME Calm, ContextsHold, NEW h \in Handlers, ~Idle(h) PROVE ~DbFails(h)
BY CalmFaults DEF ContextsHold, DbFails, FaultKinds

(* How one step of a handler keeps the four.                               *)
LEMMA SteeringOneRun ==
  ASSUME Working, NEW h \in Handlers, NEW run, become(h, run),
         run.stage # "idle" => run.ctx, Tried(run),
         \A s \in Schedules : row'[s].status = "running"
           => IF run.stage \in SendStages /\ run.job = s THEN TRUE
              ELSE row[s].status = "running" /\ ~(Sending(h) /\ worker[h].job = s),
         \A a \in Addresses : \/ inbox'[a] = inbox[a] /\ Kept(a)
                              \/ inbox'[a] = inbox[a] + 1 /\ ~Covered(a) /\ Covered(a)'
  PROVE  Steering'
<1>1. \A k \in Handlers : worker'[k] = IF k = h THEN run ELSE worker[k]
  BY OtherRuns DEF Working, Sound
<1>2. ContextsHold' /\ Tries'
  BY <1>1 DEF Working, Steering, ContextsHold, Tries, Idle
<1>3. RunningIsSent'
  <2> SUFFICES ASSUME NEW s \in Schedules, row'[s].status = "running"
               PROVE  \E k \in Handlers : worker'[k].stage \in SendStages /\ worker'[k].job = s
    BY DEF RunningIsSent, Sending
  <2>1. CASE run.stage \in SendStages /\ run.job = s
    BY <1>1, <2>1
  <2>2. CASE row[s].status = "running" /\ ~(Sending(h) /\ worker[h].job = s)
    <3>1. PICK k \in Handlers : Sending(k) /\ worker[k].job = s
      BY <2>2 DEF Working, Steering, RunningIsSent
    <3> QED
      BY <1>1, <2>2, <3>1 DEF Sending
  <2> QED
    BY <2>1, <2>2
<1>4. OneCopy'
  <2> SUFFICES ASSUME NEW a \in Addresses PROVE inbox'[a] + (IF Covered(a)' THEN 0 ELSE 1) <= 1
    BY DEF OneCopy
  <2>1. inbox[a] \in Nat /\ inbox[a] + (IF Covered(a) THEN 0 ELSE 1) <= 1
    BY DEF Working, Steering, OneCopy, Sound, Typed, TypeOK
  <2>2. PICK c \in BOOLEAN, d \in BOOLEAN : (c <=> Covered(a)) /\ (d <=> Covered(a)')
    OBVIOUS
  <2>3. \/ inbox'[a] = inbox[a] /\ (c => d)
        \/ inbox'[a] = inbox[a] + 1 /\ ~c /\ d
    BY <2>2 DEF Kept
  <2>4. inbox'[a] + (IF d THEN 0 ELSE 1) <= 1
    BY <2>1, <2>2, <2>3
  <2> QED
    BY <2>2, <2>4
<1> QED
  BY <1>2, <1>3, <1>4 DEF Steering

(* The step mails nobody, and h knows nothing of a copy that run forgets.   *)
LEMMA SteeringQuiet ==
  ASSUME Working, NEW h \in Handlers, NEW run, become(h, run), UNCHANGED <<recorded, inbox>>,
         run.stage # "idle" => run.ctx, Tried(run),
         \A s \in Schedules : row'[s].status = "running"
           => IF run.stage \in SendStages /\ run.job = s THEN TRUE
              ELSE row[s].status = "running" /\ ~(Sending(h) /\ worker[h].job = s),
         \A a \in Addresses : ~Dealing(worker[h], a) /\ ~Dealing(run, a),
         Ending(worker[h]) => Ending(run)
  PROVE  Steering'
<1>1. \A a \in Addresses : Kept(a)
  BY StaysCovered DEF Working, Sound, Kept, CompletedStays, Recorded
<1> QED
  BY <1>1, SteeringOneRun

(* The row is not touched and the handler goes on with it.                 *)
LEMMA SteeringOn ==
  ASSUME Working, NEW h \in Handlers, NEW run, become(h, run), UNCHANGED <<row, recorded, inbox>>,
         run.ctx, Tried(run), Sending(h) => run.stage \in SendStages /\ run.job = worker[h].job,
         \A a \in Addresses : ~Dealing(worker[h], a) /\ ~Dealing(run, a),
         Ending(worker[h]) => Ending(run)
  PROVE  Steering'
BY SteeringQuiet

(* The run of a handler that is at work.                                   *)
LEMMA WorkingRun ==
  ASSUME Working, NEW h \in Handlers
  PROVE  /\ worker[h] \in Run /\ Tried(worker[h]) /\ Blank(worker[h]) /\ RunReached(worker[h])
         /\ ~Idle(h) => worker[h].ctx /\ ~DbFails(h)
BY CalmDb DEF Working, Sound, Steering, ContextsHold, Tries, Shaped, AllReached, Typed, TypeOK

LEMMA SteeringBegin ==
  ASSUME Working, NEW h \in Handlers,
         loadIssue(h) \/ \E s \in Schedules : DeliverIssueTask(h, s)
  PROVE  Steering'
<1> DEFINE w == worker[h]
<1>1. w.stage \in {"idle", "load"} /\ UNCHANGED <<row, recorded, inbox>> /\ Tried(w)
  BY WorkingRun DEF loadIssue, DeliverIssueTask, tableVars, Idle
<1>2. w.stage = "load" => ~DbFails(h)
  BY WorkingRun DEF Idle
<1>3. PICK run \in Run : /\ become(h, run) /\ run.stage \in {"load", "decide"} /\ run.ctx
                         /\ run.audience = {}
  <2>1. CASE loadIssue(h)
    <3>1. w.stage = "load" /\ w.ctx
      BY <2>1, WorkingRun DEF loadIssue, Idle
    <3> DEFINE run == [w EXCEPT !.stage = "decide", !.verdict = decideDelivery]
    <3>2. run \in Run /\ run.stage = "decide" /\ run.ctx /\ run.audience = {}
      <4>1. decideDelivery \in Verdicts /\ w \in Run
        BY WorkingRun DEF decideDelivery, Verdicts
      <4> QED
        BY <3>1, <4>1, <1>1 DEF Run, Stages, Tried
    <3> QED
      BY <1>2, <2>1, <3>1, <3>2 DEF loadIssue
  <2>2. ASSUME NEW s \in Schedules, DeliverIssueTask(h, s)
        PROVE  \E run \in Run : /\ become(h, run) /\ run.stage \in {"load", "decide"} /\ run.ctx
                                /\ run.audience = {}
    <3>1. w.stage = "idle"
      BY <2>2 DEF DeliverIssueTask, Idle
    <3> QED
      BY <1>1, <2>2, <3>1, TakeStep DEF Working, Sound, SameWork, Tried
  <2> QED
    BY <2>1, <2>2
<1>4. Tried(run) /\ ~Sending(h)
  BY <1>1, <1>3 DEF Tried, Sending, SendStages
<1>5. \A a \in Addresses : ~Dealing(w, a) /\ ~Dealing(run, a)
  BY <1>1, <1>3 DEF Dealing
<1>6. ~Ending(w)
  BY <1>1 DEF Ending
<1> QED
  BY <1>1, <1>3, <1>4, <1>5, <1>6, SteeringOn

LEMMA SteeringPreflight == ASSUME Working, NEW h \in Handlers, preflight(h) PROVE Steering'
<1> DEFINE w == worker[h]
<1>1. /\ w.stage = "decide" /\ UNCHANGED <<recorded, inbox>> /\ w.job \in Schedules /\ Tried(w)
      /\ w.ctx /\ ~DbFails(h) /\ row[w.job] \in Row
  BY WorkingRun DEF preflight, Idle, Run, Working, Sound, Typed, TypeOK
<1>2. ~Sending(h) /\ ~Ending(w) /\ \A a : ~Dealing(w, a)
  BY <1>1 DEF Sending, SendStages, Ending, Dealing
<1>3. /\ IdleRun.stage = "idle" /\ Tried(IdleRun) /\ \A a : ~Dealing(IdleRun, a)
  BY IdleRunFields DEF Tried, SendStages, Dealing
<1>4. CASE Return(h) /\ UNCHANGED row
  BY <1>1, <1>2, <1>3, <1>4, SteeringQuiet DEF Return
<1>5. CASE /\ Return(h) /\ w.verdict # "send"
           /\ row' = [row EXCEPT ![w.job] = afterPreflight(row[w.job], w.verdict)]
  <2>1. afterPreflight(row[w.job], w.verdict).status # "running"
    BY <1>1, <1>5, AfterPreflightStatus
  <2>2. \A s \in Schedules : row'[s].status = "running" => row[s].status = "running"
    BY <1>1, <1>5, <2>1 DEF Working, Sound, Typed, TypeOK
  <2> QED
    BY <1>1, <1>2, <1>3, <1>5, <2>2, SteeringQuiet DEF Return
<1>6. ASSUME NEW run \in Run, become(h, run), run.stage = "list", SameTask(run, w), SameWork(run, w),
             row' = [row EXCEPT ![w.job] = afterPreflight(row[w.job], "send")]
      PROVE  Steering'
  <2>1. run.ctx /\ Tried(run) /\ run.job = w.job /\ run.stage \in SendStages
    BY <1>1, <1>6 DEF Tried, SameTask, SameWork, SendStages
  <2>2. \A s \in Schedules : s # w.job => row'[s] = row[s]
    BY <1>6 DEF Working, Sound, Typed, TypeOK
  <2>3. \A a : ~Dealing(run, a)
    BY <1>6 DEF Dealing
  <2> QED
    BY <1>1, <1>2, <1>6, <2>1, <2>2, <2>3, SteeringQuiet
<1> QED
  BY <1>4, <1>5, <1>6, PreflightStep DEF Working, Sound

LEMMA SteeringList == ASSUME Working, NEW h \in Handlers, listRecipients(h) PROVE Steering'
<1> DEFINE w == worker[h]
<1>1. w.stage = "list" /\ UNCHANGED <<row, recorded, inbox>> /\ w.ctx /\ ~DbFails(h)
  BY WorkingRun DEF listRecipients, tableVars, Idle
<1>2. PICK run \in Run : /\ become(h, run) /\ SameTask(run, w) /\ run.stage = "next"
                         /\ run.todo = recipientEmails /\ run.audience = recipientEmails
  BY <1>1, ListStep DEF Working, Sound
<1>3. recipientEmails # {}
  BY DEF recipientEmails
<1>4. run.ctx /\ Tried(run) /\ run.stage \in SendStages /\ run.job = w.job
  BY <1>1, <1>2, <1>3 DEF Tried, SendStages, SameTask
<1>5. ~Ending(w) /\ \A a : ~Dealing(w, a) /\ ~Dealing(run, a)
  BY <1>1, <1>2 DEF Ending, Dealing
<1> QED
  BY <1>1, <1>2, <1>4, <1>5, SteeringOn

LEMMA SteeringRecipient ==
  ASSUME Working, NEW h \in Handlers, NEW b \in Addresses, nextRecipient(h, b) PROVE Steering'
<1> DEFINE w == worker[h]
<1>1. /\ w.stage = "next" /\ UNCHANGED <<row, recorded, inbox>> /\ w.ctx /\ ~DbFails(h) /\ Tried(w)
      /\ Sending(h)
  BY WorkingRun DEF nextRecipient, tableVars, Idle, Sending, SendStages
<1>2. faults' = faults
  BY <1>1 DEF nextRecipient, DbWorks, NoFault
<1>3. PICK run \in Run : /\ become(h, run) /\ SameTask(run, w) /\ run.audience = w.audience
                         /\ run.stage \in {"next", "mail"} /\ run.todo \subseteq w.todo
  BY RecipientStep DEF Working, Sound
<1>4. run.ctx /\ Tried(run) /\ run.stage \in SendStages /\ run.job = w.job
  BY <1>1, <1>3 DEF Tried, SendStages, SameTask
<1>5. \A a \in Addresses : Kept(a)
  BY <1>1, <1>2, RecipientKeeps DEF Working
<1> QED
  BY <1>1, <1>3, <1>4, <1>5, SteeringOneRun

LEMMA SteeringMail == ASSUME Working, NEW h \in Handlers, mailSend(h) PROVE Steering'
<1> DEFINE w == worker[h]
<1>0. PICK c \in Addresses : c = w.current
  BY WorkingRun DEF Run
<1>1. w.stage = "mail" /\ UNCHANGED <<row, recorded>> /\ w.ctx /\ Tried(w) /\ Sending(h)
  BY WorkingRun DEF mailSend, tableVars, Idle, Sending, SendStages
<1>2. PICK run \in Run :
        /\ become(h, run) /\ run.stage = "record" /\ SameTask(run, w) /\ SameWork(run, w)
        /\ \/ run.accepted /\ inbox' = [inbox EXCEPT ![c] = @ + 1]
           \/ UNCHANGED inbox
  BY <1>0, MailStep, CalmFaults DEF Working, Sound, FaultKinds
<1>3. run.ctx /\ Tried(run) /\ run.stage \in SendStages /\ run.job = w.job /\ worker'[h] = run
  BY <1>1, <1>2, OtherRuns DEF Tried, SendStages, SameTask, SameWork, Working, Sound
<1>4. ASSUME NEW a \in Addresses
      PROVE  \/ inbox'[a] = inbox[a] /\ Kept(a)
             \/ inbox'[a] = inbox[a] + 1 /\ ~Covered(a) /\ Covered(a)'
  <2>1. Kept(a) /\ inbox \in [Addresses -> Nat]
    BY MailKeeps DEF Working, Sound, Typed, TypeOK
  <2>2. CASE UNCHANGED inbox \/ a # c
    BY <1>2, <2>1, <2>2
  <2>3. CASE run.accepted /\ inbox' = [inbox EXCEPT ![c] = @ + 1] /\ a = c
    BY <1>0, <1>1, <1>3, <2>1, <2>3, MailCovers DEF Working
  <2> QED
    BY <1>2, <2>2, <2>3
<1> QED
  BY <1>1, <1>2, <1>3, <1>4, SteeringOneRun

LEMMA SteeringRecord == ASSUME Working, NEW h \in Handlers, recordDelivery(h) PROVE Steering'
<1> DEFINE w == worker[h]
<1>1. w.stage = "record" /\ UNCHANGED <<row, inbox>> /\ w.ctx /\ ~DbFails(h) /\ Tried(w) /\ Sending(h)
  BY WorkingRun DEF recordDelivery, Idle, Sending, SendStages
<1>2. faults' = faults
  BY <1>1 DEF recordDelivery, DbWorks, NoFault
<1>3. PICK run \in Run : /\ become(h, run) /\ run.stage = "next" /\ SameTask(run, w)
                         /\ run.audience = w.audience /\ run.todo \subseteq w.todo
  BY RecordStep DEF Working, Sound
<1>4. run.ctx /\ Tried(run) /\ run.stage \in SendStages /\ run.job = w.job
  BY <1>1, <1>3 DEF Tried, SendStages, SameTask
<1>5. \A a \in Addresses : Kept(a)
  BY <1>1, <1>2, RecordKeeps DEF Working
<1> QED
  BY <1>1, <1>3, <1>4, <1>5, SteeringOneRun

LEMMA SteeringFinish ==
  ASSUME Working, NEW h \in Handlers, finishIssue(h) \/ reloadSchedule(h) PROVE Steering'
<1> DEFINE w == worker[h]
<1>1. /\ w.stage \in {"next", "reload"} /\ UNCHANGED <<row, recorded, inbox>> /\ w.ctx /\ ~DbFails(h)
      /\ Tried(w) /\ Sending(h)
  BY WorkingRun DEF finishIssue, reloadSchedule, tableVars, Idle, Sending, SendStages
<1>2. PICK run \in Run : /\ become(h, run) /\ SameTask(run, w) /\ run.audience = w.audience
                         /\ run.stage \in {"reload", "settle"} /\ (run.erred <=> w.erred)
                         /\ run.stage = "settle" => (run.verdict = "completed" <=> ~w.erred)
  <2>1. CASE finishIssue(h)
    BY <1>1, <2>1, FinishStep DEF Working, Sound
  <2>2. CASE reloadSchedule(h)
    BY <1>1, <2>2, ReloadStep DEF Working, Sound, SameWork
  <2> QED
    BY <2>1, <2>2
<1>3. run.ctx /\ Tried(run) /\ run.stage \in SendStages /\ run.job = w.job
  BY <1>1, <1>2 DEF Tried, SendStages, SameTask
<1>4. (Ending(w) => Ending(run)) /\ \A a : ~Dealing(w, a) /\ ~Dealing(run, a)
  BY <1>1, <1>2, <1>3 DEF Ending, Dealing
<1> QED
  BY <1>1, <1>2, <1>3, <1>4, SteeringOn

(* The row that is settled has been held all along.                        *)
LEMMA SettleCalm ==
  ASSUME Working, NEW h \in Handlers, settle(h), NEW s \in Schedules, s = worker[h].job
  PROVE  /\ worker[h].stage = "settle" /\ worker[h].verdict \in {"completed", "failed", "retry"}
         /\ row[s].status = "running" /\ row[s] \in Row
         /\ row' = [row EXCEPT ![s] = afterSend(row[s], worker[h].verdict)]
         /\ Return(h) /\ UNCHANGED <<recorded, inbox>> /\ Sending(h)
<1>1. worker[h].stage = "settle" /\ worker[h].ctx /\ ~DbFails(h)
  BY WorkingRun DEF settle, Idle
<1>2. Sending(h) /\ Live(h)
  BY <1>1 DEF Sending, SendStages, Live
<1>3. row[s].status = "running" /\ row[s] \in Row
  BY <1>2 DEF Working, Sound, Locked, LiveSenderOwnsRow, Typed, TypeOK
<1> QED
  BY <1>1, <1>2, <1>3 DEF settle, transition, Working, Sound, Typed, SettleVerdict

LEMMA SteeringSettle == ASSUME Working, NEW h \in Handlers, settle(h) PROVE Steering'
<1> DEFINE w == worker[h]
<1>0. PICK s \in Schedules : s = w.job
  BY WorkingRun DEF Run
<1>1. /\ w.stage = "settle" /\ w.verdict \in {"completed", "failed", "retry"}
      /\ row[s].status = "running" /\ row[s] \in Row
      /\ row' = [row EXCEPT ![s] = afterSend(row[s], w.verdict)]
      /\ Return(h) /\ UNCHANGED <<recorded, inbox>> /\ Sending(h)
  BY <1>0, SettleCalm
<1>2. IdleRun.stage = "idle" /\ Tried(IdleRun) /\ \A a : ~Dealing(IdleRun, a) /\ ~Dealing(w, a)
  BY <1>1, IdleRunFields DEF Tried, SendStages, Dealing
<1>3. /\ row'[s].status = IF w.verdict = "retry" THEN "pending" ELSE w.verdict
      /\ \A t \in Schedules : t # s => row'[t] = row[t]
  BY <1>1, SettledRow DEF Working, Sound, Typed, TypeOK
<1>4. \A t \in Schedules : row'[t].status = "running" => t # s /\ row[t].status = "running"
  BY <1>1, <1>3
<1>5. \A a \in Addresses : Kept(a)
  <2>1. CASE w.verdict = "completed"
    BY <1>3, <2>1 DEF Kept, Covered
  <2>2. CASE w.verdict # "completed"
    <3>1. ~Ending(w)
      BY <1>1, <2>2 DEF Ending
    <3> QED
      BY <1>1, <1>2, <3>1, StaysCovered DEF Return, Working, Sound, Kept, CompletedStays, Recorded
  <2> QED
    BY <2>1, <2>2
<1> QED
  BY <1>0, <1>1, <1>2, <1>4, <1>5, SteeringOneRun DEF Return

(* Nobody at work changes, and no row starts to run.                       *)
LEMMA SteeringKept ==
  ASSUME Typed, Steering, UNCHANGED <<worker, recorded, inbox>>, CompletedStays,
         \A s \in Schedules : row'[s].status = "running" => row[s].status = "running"
  PROVE  Steering'
<1>1. ContextsHold' /\ Tries' /\ RunningIsSent'
  BY DEF Steering, ContextsHold, Tries, RunningIsSent, Sending, Idle
<1>2. \A a \in Addresses : Covered(a) => Covered(a)'
  BY DEF Covered, CompletedStays, Dealing, Ending
<1>3. ASSUME NEW a \in Addresses PROVE inbox'[a] + (IF Covered(a)' THEN 0 ELSE 1) <= 1
  <2>1. inbox[a] \in Nat /\ inbox[a] + (IF Covered(a) THEN 0 ELSE 1) <= 1
    BY DEF Steering, OneCopy, Typed, TypeOK
  <2> QED
    BY <1>2, <2>1
<1> QED
  BY <1>1, <1>3 DEF Steering, OneCopy

LEMMA SteeringWorker ==
  ASSUME Working, NothingBounced, [WorkerNext]_vars PROVE Steering'
<1>0. Typed /\ Steering /\ CompletedStays
  BY DEF Working, Sound
<1>1. CASE UNCHANGED vars
  BY <1>0, <1>1, SteeringKept DEF vars
<1>2. ASSUME NEW p \in Pollers, pollerStep(p) PROVE Steering'
  <2>1. UNCHANGED <<worker, recorded, inbox>>
    BY <1>2 DEF pollerStep, processDueJobs, enqueueTask, putBack, crashPoller, tableVars
  <2>2. ASSUME NEW S \in SUBSET Schedules, processDueJobs(p, S), NEW s \in Schedules,
               row'[s].status = "running"
        PROVE  row[s].status = "running"
    <3>1. enter(row[s], "claimed").status = "claimed"
      BY EnterRow DEF Working, Sound, Typed, TypeOK, Statuses
    <3> QED
      BY <2>2, <3>1 DEF processDueJobs
  <2>3. \A s \in Schedules : ~putBack(p, s)
    BY DEF putBack, NothingBounced
  <2>4. (\E s \in Schedules : enqueueTask(p, s)) \/ crashPoller(p) => UNCHANGED row
    BY DEF enqueueTask, crashPoller, tableVars
  <2> QED
    BY <1>0, <1>2, <2>1, <2>2, <2>3, <2>4, SteeringKept DEF pollerStep
<1>3. ASSUME NEW s \in Schedules, becomeDue(s) \/ becomeAged(s) PROVE Steering'
  <2>1. \A t \in Schedules : row'[t].status = row[t].status
    <3>1. row[s] \in Row
      BY <1>0 DEF Typed, TypeOK
    <3>2. [row[s] EXCEPT !.due = TRUE].status = row[s].status
          /\ [row[s] EXCEPT !.aged = TRUE].status = row[s].status
      BY <3>1 DEF Row
    <3>3. row' = [row EXCEPT ![s] = [row[s] EXCEPT !.due = TRUE]]
          \/ row' = [row EXCEPT ![s] = [row[s] EXCEPT !.aged = TRUE]]
      BY <1>3 DEF becomeDue, becomeAged
    <3> QED
      BY <1>0, <3>2, <3>3 DEF Typed, TypeOK
  <2> QED
    BY <1>0, <1>3, <2>1, SteeringKept DEF becomeDue, becomeAged
<1>4. CASE sweep
  <2>1. \A s \in Schedules : enter(row[s], "pending").status = "pending"
    BY <1>0, EnterRow DEF Typed, TypeOK, Statuses
  <2>2. \A s \in Schedules : row'[s].status = "running" => row[s].status = "running"
    BY <1>4, <2>1 DEF sweep
  <2> QED
    BY <1>0, <1>4, <2>2, SteeringKept DEF sweep
<1>5. CASE sweepIssues
  BY <1>0, <1>5, SteeringKept DEF sweepIssues
<1>6. ASSUME NEW h \in Handlers, expireContext(h) \/ crashHandler(h) PROVE FALSE
  BY <1>6, CalmFaults DEF expireContext, crashHandler, FaultKinds, Working
<1> QED
  BY <1>1, <1>2, <1>3, <1>4, <1>5, <1>6, SteeringBegin, SteeringPreflight, SteeringList, SteeringRecipient,
     SteeringMail, SteeringRecord, SteeringFinish, SteeringSettle DEF WorkerNext, rowStep, handlerStep

(* What the other writers do: a cancellation withdraws the waiting rows,    *)
(* everything else leaves the rows and the worker alone.                   *)
LEMMA CalmControl ==
  ASSUME Calm, Requested, OnlyWithdrawals,
         \/ \E q \in Requests : requestStep(q)
         \/ updateSeriesStatus \/ deleteSeries
         \/ \E r \in Recipients : changeAudience(r)
  PROVE  /\ OnlyWithdrawals' /\ UNCHANGED <<recorded, workerVars>>
         /\ \/ UNCHANGED row
            \/ row' = [s \in Schedules |-> IF s \in Waiting THEN enter(row[s], "canceled") ELSE row[s]]
<1>1. ASSUME NEW q \in Requests, requestStep(q)
      PROVE  /\ OnlyWithdrawals' /\ UNCHANGED <<recorded, workerVars>>
             /\ \/ UNCHANGED row
                \/ row' = [s \in Schedules |-> IF s \in Waiting THEN enter(row[s], "canceled") ELSE row[s]]
  <2>1. cancelIssueSend(q) \/ withdrawSchedules(q) \/ restoreIssue(q)
    <3>1. req[q].stage \in {"idle", "withdraw", "restore"}
      BY DEF OnlyWithdrawals
    <3>2. ~crashRequest(q)
      BY CalmFaults DEF crashRequest, FaultKinds
    <3>3. \A stage : \A op \in {"approve", "reschedule", "regenerate", "persist"} : ~Begin(q, op, stage)
      BY DEF Begin, Calm
    <3> QED
      BY <1>1, <3>1, <3>2, <3>3
      DEF requestStep, approveIssue, setApproved, rescheduleIssue, findSchedule, updateSchedule, insertSchedule,
          generateIssue, markGenerating, queueIssueGeneration, persistIssueResult, persistFailedResult,
          failSchedules, autoSchedule, At
  <2>2. PICK new : req' = [req EXCEPT ![q] = new] /\ new.stage \in {"idle", "withdraw", "restore"}
    <3>1. req[q] \in Request
      BY DEF Requested
    <3>2. CASE cancelIssueSend(q)
      <4>1. [NoRequest EXCEPT !.stage = "withdraw", !.op = "cancel", !.content = issue.content].stage = "withdraw"
        BY NoRequestTyped DEF Request
      <4> QED
        BY <3>2, <4>1 DEF cancelIssueSend, Begin
    <3>3. CASE withdrawSchedules(q)
      <4>1. [req[q] EXCEPT !.stage = "restore"].stage = "restore"
        BY <3>1 DEF Request
      <4> QED
        BY <3>3, <4>1 DEF withdrawSchedules, Stage
    <3>4. CASE restoreIssue(q)
      BY <3>4, NoRequestTyped DEF restoreIssue, Done
    <3> QED
      BY <2>1, <3>2, <3>3, <3>4
  <2>3. OnlyWithdrawals'
    BY <2>2 DEF OnlyWithdrawals, Requested
  <2>4. UNCHANGED <<recorded, workerVars>>
    BY <2>1 DEF cancelIssueSend, withdrawSchedules, restoreIssue, TablesKept, RowsOnly, IssueOnly
  <2>5. \/ UNCHANGED row
        \/ row' = [s \in Schedules |-> IF s \in Waiting THEN enter(row[s], "canceled") ELSE row[s]]
    BY <2>1, WithdrawnRows DEF cancelIssueSend, withdrawSchedules, restoreIssue, TablesKept, IssueOnly
  <2> QED
    BY <2>3, <2>4, <2>5
<1>2. ASSUME updateSeriesStatus \/ deleteSeries \/ \E r \in Recipients : changeAudience(r)
      PROVE  /\ OnlyWithdrawals' /\ UNCHANGED <<row, recorded, workerVars>>
  BY <1>2 DEF updateSeriesStatus, deleteSeries, changeAudience, OnlyWithdrawals
<1> QED
  BY <1>1, <1>2

LEMMA CanceledRows ==
  ASSUME Typed, row' = [s \in Schedules |-> IF s \in Waiting THEN enter(row[s], "canceled") ELSE row[s]]
  PROVE  \A s \in Schedules : IF s \in Waiting THEN row'[s].status = "canceled" ELSE row'[s] = row[s]
BY EnterRow DEF Typed, TypeOK, Statuses

LEMMA SteadyControl ==
  ASSUME Calm, Steady, Typed', UNCHANGED <<recorded, workerVars>>,
         \/ UNCHANGED row
         \/ row' = [s \in Schedules |-> IF s \in Waiting THEN enter(row[s], "canceled") ELSE row[s]]
  PROVE  (Locked /\ NothingBounced /\ OneScheduled /\ Shaped /\ AllReached /\ Steering)'
<1>0. Typed /\ UNCHANGED <<recorded, worker, inbox, held, bounced, queued>>
  BY DEF Steady, workerVars
<1>1. \A s \in Schedules : \/ row'[s] = row[s]
                           \/ row[s].status \in {"pending", "claimed"} /\ row'[s].status = "canceled"
  BY <1>0, CanceledRows DEF Waiting
<1>2. Locked'
  <2>1. \A h \in Handlers : Live(h) => row'[worker[h].job] = row[worker[h].job]
    BY <1>0, <1>1 DEF Steady, Locked, LiveSenderOwnsRow, Typed, TypeOK, Run
  <2> QED
    BY <1>0, <2>1, LockedRows DEF Steady
<1>3. NothingBounced' /\ Shaped' /\ AllReached'
  BY <1>0, ReachedKept DEF Steady, NothingBounced, Shaped
<1>4. OneScheduled'
  <2>1. \A s \in Schedules : Scheduled(s)' <=> Scheduled(s)
    BY <1>1 DEF Scheduled
  <2>2. \A s \in Schedules : Carried(s)' <=> Carried(s)
    BY <1>0 DEF Carried, Idle
  <2> QED
    BY <2>1, <2>2 DEF Steady, OneScheduled
<1>5. Steering'
  BY <1>0, <1>1, SteeringKept DEF Steady, Steering, CompletedStays
<1> QED
  BY <1>2, <1>3, <1>4, <1>5

LEMMA SteadyNext ==
  ASSUME Calm, Steady, [ControlNext]_controlVars PROVE Steady'
<1>1. Typed' /\ Requested'
  BY ControlTypedNext DEF Steady
<1>2. CASE UNCHANGED controlVars \/ (WorkerNext /\ UNCHANGED <<req, begun>>)
  <2>1. [WorkerNext]_vars /\ UNCHANGED req
    BY <1>2 DEF controlVars
  <2>2. Locked' /\ NothingBounced' /\ OneScheduled' /\ Shaped' /\ AllReached'
    <3>1. {"enqueue", "lost_enqueue"} \cap Faults = {}
      BY DEF Calm
    <3> QED
      BY <1>1, <2>1, <3>1, LockedNext, BouncedNext, ScheduledNext, ShapedNext, ReachedNext DEF Steady
  <2>3. CompletedStays
    BY <2>1, TerminalStays DEF Steady, CompletedStays, Terminal
  <2>4. Steering'
    BY <1>1, <2>1, <2>3, SteeringWorker DEF Steady, Working, Sound, Steering
  <2>5. OnlyWithdrawals'
    BY <2>1 DEF Steady, OnlyWithdrawals
  <2> QED
    BY <1>1, <2>2, <2>4, <2>5 DEF Steady, Steering
<1>3. CASE \/ \E q \in Requests : requestStep(q)
           \/ updateSeriesStatus \/ deleteSeries
           \/ \E r \in Recipients : changeAudience(r)
  BY <1>1, <1>3, CalmControl, SteadyControl DEF Steady, Steering
<1> QED
  BY <1>2, <1>3 DEF ControlNext

LEMMA SteadyInit == ControlInit => Steady
<1> SUFFICES ASSUME ControlInit PROVE Steady
  OBVIOUS
<1>1. Typed /\ Requested /\ Locked /\ NothingBounced /\ OneScheduled /\ Shaped
  BY ControlTypedInit, LockedInit, ScheduledInit, ShapedInit DEF ControlInit
<1>2. \A h \in Handlers : worker[h] = IdleRun
  BY DEF ControlInit, Init, InitProcesses
<1>3. AllReached
  BY <1>2, IdleRunFields DEF ControlInit, Init, InitTables, AllReached, RecordedIsReached, RunReached
<1>4. OnlyWithdrawals
  BY NoRequestTyped DEF ControlInit, OnlyWithdrawals
<1>5. ContextsHold /\ Tries
  BY <1>2, IdleRunFields DEF ContextsHold, Tries, Tried, Idle, SendStages
<1>6. RunningIsSent
  BY NewRowsTyped DEF ControlInit, Init, RunningIsSent
<1>7. OneCopy
  BY DEF ControlInit, Init, InitTables, OneCopy
<1> QED
  BY <1>1, <1>3, <1>4, <1>5, <1>6, <1>7 DEF Steady

-----------------------------------------------------------------------------
(* The variables of SendOnce.  The handlers that mail for a row are one, so *)
(* the union below is its audience.                                        *)
Audience(W, s) == UNION {W[h].audience : h \in {k \in Handlers : W[k].stage \in SendStages /\ W[k].job = s}}

(* What run contributes to it.                                             *)
Share(run, s) == IF run.stage \in SendStages /\ run.job = s THEN run.audience ELSE {}

LEMMA AudienceShares ==
  ASSUME NEW W, NEW s PROVE \A a : a \in Audience(W, s) <=> \E h \in Handlers : a \in Share(W[h], s)
BY DEF Audience, Share

LEMMA SameShare ==
  ASSUME Typed, NEW h \in Handlers, NEW run, become(h, run), NEW s, Share(run, s) = Share(worker[h], s)
  PROVE  Audience(worker', s) = Audience(worker, s)
<1>1. \A k \in Handlers : Share(worker'[k], s) = Share(worker[k], s)
  BY OtherRuns
<1>2. \A a : a \in Audience(worker', s) <=> a \in Audience(worker, s)
  <2> HIDE DEF Share
  <2> QED
    BY <1>1, AudienceShares
<1> QED
  BY <1>2

(* The handler that sends a row is the only one.                           *)
LEMMA OnlySender ==
  ASSUME Working, NEW h \in Handlers, Sending(h), NEW k \in Handlers, k # h
  PROVE  ~Sending(k)
<1>1. \A i \in Handlers : Sending(i) => Live(i)
  BY WorkingRun DEF Sending, SendStages, Idle, Live
<1> QED
  BY <1>1, AloneWhenLive DEF Working, Sound

LEMMA SenderAudience ==
  ASSUME Working, NEW h \in Handlers, Sending(h), NEW run, become(h, run), NEW s, s = worker[h].job
  PROVE  /\ Audience(worker, s) = worker[h].audience
         /\ Audience(worker', s) = Share(run, s)
         /\ \A t : t # s /\ Share(run, t) = {} => Audience(worker', t) = Audience(worker, t)
<1>1. \A k \in Handlers : worker'[k] = IF k = h THEN run ELSE worker[k]
  BY OtherRuns DEF Working, Sound
<1>2. \A t : \A k \in Handlers : k # h => Share(worker[k], t) = {}
  BY OnlySender DEF Share, Sending
<1>3. Share(worker[h], s) = worker[h].audience /\ \A t : t # s => Share(worker[h], t) = {}
  BY DEF Share, Sending
<1> HIDE DEF Share
<1>4. \A a : a \in Audience(worker, s) <=> a \in worker[h].audience
  BY <1>2, <1>3, AudienceShares
<1>5. \A a : a \in Audience(worker', s) <=> a \in Share(run, s)
  BY <1>1, <1>2, AudienceShares
<1>6. ASSUME NEW t, t # s, Share(run, t) = {} PROVE Audience(worker', t) = Audience(worker, t)
  <2>1. Share(run, t) = Share(worker[h], t)
    BY <1>3, <1>6
  <2> QED
    BY <2>1, SameShare DEF Working, Sound
<1> QED
  BY <1>4, <1>5, <1>6

-----------------------------------------------------------------------------
(* The steps of SendOnce.                                                  *)
SameStates == \A s \in Schedules : SendState(row'[s].status) = SendState(row[s].status)
SameAudiences == \A s \in Schedules : Audience(worker', s) = Audience(worker, s)

LEMMA StatusStates ==
  /\ SendState("absent") = "none" /\ SendState("pending") = "waiting" /\ SendState("claimed") = "waiting"
  /\ SendState("running") = "sending" /\ SendState("completed") = "sent"
  /\ SendState("failed") = "failed" /\ SendState("canceled") = "canceled"
BY DEF SendState

(* The value of audience in the instance of SendOnce.                      *)
Audiences == [s \in Schedules |->
                UNION {worker[h].audience : h \in {k \in Handlers : Sending(k) /\ worker[k].job = s}}]

LEMMA AudiencesAre ==
  /\ Audiences = [s \in Schedules |-> Audience(worker, s)]
  /\ Audiences' = [s \in Schedules |-> Audience(worker', s)]
BY DEF Audiences, Audience, Sending

LEMMA NothingHappens ==
  ASSUME SameStates, SameAudiences, UNCHANGED inbox PROVE UNCHANGED Once!vars
BY DEF SameStates, SameAudiences, Once!vars, Audience, Sending

LEMMA SendsWithdrawn ==
  ASSUME NEW S \in SUBSET Schedules, S # {}, NEW end \in {"canceled", "failed"},
         \A s \in S : SendState(row[s].status) = "waiting" /\ SendState(row'[s].status) = end,
         \A s \in Schedules \ S : SendState(row'[s].status) = SendState(row[s].status),
         SameAudiences, UNCHANGED inbox
  PROVE  Once!Next
<1>1. Once!Withdraw(S, end)
  BY DEF Once!Withdraw, SameAudiences, Audience, Sending
<1> QED
  BY <1>1 DEF Once!Next

LEMMA SendBegins ==
  ASSUME NEW s \in Schedules,
         SendState(row[s].status) = "waiting", SendState(row'[s].status) = "sending",
         \A t \in Schedules \ {s} : SendState(row'[t].status) = SendState(row[t].status),
         SameAudiences, UNCHANGED inbox
  PROVE  Once!Next
<1>1. Once!Begin(s)
  BY DEF Once!Begin, SameAudiences, Audience, Sending
<1> QED
  BY <1>1 DEF Once!Next

LEMMA AudienceChosen ==
  ASSUME NEW s \in Schedules, NEW A \in SUBSET Addresses, A # {},
         SendState(row[s].status) = "sending", Audience(worker, s) = {}, Audience(worker', s) = A,
         \A t \in Schedules \ {s} : Audience(worker', t) = Audience(worker, t),
         SameStates, UNCHANGED inbox
  PROVE  Once!Next
<1>1. Audiences' = [Audiences EXCEPT ![s] = A] /\ Audiences[s] = {}
  BY AudiencesAre
<1>2. Once!ChooseAudience(s, A)
  BY <1>1 DEF Once!ChooseAudience, SameStates, Audiences
<1> QED
  BY <1>2 DEF Once!Next

LEMMA CopyDelivered ==
  ASSUME NEW s \in Schedules, NEW a \in Addresses,
         SendState(row[s].status) = "sending", a \in Audience(worker, s),
         inbox[a] = 0, inbox' = [inbox EXCEPT ![a] = 1], SameStates, SameAudiences
  PROVE  Once!Next
<1>1. Once!Deliver(s, a)
  BY DEF Once!Deliver, SameStates, SameAudiences, Audience, Sending
<1> QED
  BY <1>1 DEF Once!Next

LEMMA TryEnds ==
  ASSUME NEW s \in Schedules, NEW end \in {"sent", "failed", "waiting"},
         SendState(row[s].status) = "sending", SendState(row'[s].status) = end,
         \A t \in Schedules \ {s} : SendState(row'[t].status) = SendState(row[t].status),
         Audience(worker, s) # {}, Audience(worker', s) = {},
         \A t \in Schedules \ {s} : Audience(worker', t) = Audience(worker, t),
         end = "sent" => \A a \in Audience(worker, s) : inbox[a] = 1,
         UNCHANGED inbox
  PROVE  Once!Next
<1>1. Audiences' = [Audiences EXCEPT ![s] = {}] /\ Audiences[s] = Audience(worker, s)
  BY AudiencesAre
<1>2. Once!EndTry(s, end)
  BY <1>1 DEF Once!EndTry, Audiences
<1> QED
  BY <1>2 DEF Once!Next

-----------------------------------------------------------------------------
(* Every step of the detailed system is a step of SendOnce or changes       *)
(* nothing in it.                                                          *)

LEMMA RefinesPoller ==
  ASSUME Working, NothingBounced, NEW p \in Pollers, pollerStep(p) PROVE [Once!Next]_Once!vars
<1>1. UNCHANGED <<worker, inbox>> /\ SameAudiences
  BY DEF pollerStep, processDueJobs, enqueueTask, putBack, crashPoller, SameAudiences
<1>2. SameStates
  <2>1. ASSUME NEW S \in SUBSET Schedules, processDueJobs(p, S), NEW s \in Schedules
        PROVE  SendState(row'[s].status) = SendState(row[s].status)
    <3>1. enter(row[s], "claimed").status = "claimed"
      BY EnterRow DEF Working, Sound, Typed, TypeOK, Statuses
    <3> QED
      BY <2>1, <3>1, StatusStates DEF processDueJobs, Eligible
  <2>2. \A s \in Schedules : ~putBack(p, s)
    BY DEF putBack, NothingBounced
  <2> QED
    BY <2>1, <2>2 DEF pollerStep, enqueueTask, crashPoller, tableVars, SameStates
<1> QED
  BY <1>1, <1>2, NothingHappens

(* A row that runs has a live handler, so the watchdog returns claimed rows *)
(* only.                                                                   *)
LEMMA RefinesRow ==
  ASSUME Working, (\E s \in Schedules : becomeDue(s) \/ becomeAged(s)) \/ sweep \/ sweepIssues
  PROVE  [Once!Next]_Once!vars
<1>1. UNCHANGED <<worker, inbox>> /\ SameAudiences
  BY DEF becomeDue, becomeAged, sweep, sweepIssues, SameAudiences
<1>2. SameStates
  <2>1. ASSUME NEW s \in Schedules, becomeDue(s) \/ becomeAged(s) PROVE SameStates
    <3>1. row[s] \in Row
      BY DEF Working, Sound, Typed, TypeOK
    <3>2. [row[s] EXCEPT !.due = TRUE].status = row[s].status
          /\ [row[s] EXCEPT !.aged = TRUE].status = row[s].status
      BY <3>1 DEF Row
    <3>3. row' = [row EXCEPT ![s] = [row[s] EXCEPT !.due = TRUE]]
          \/ row' = [row EXCEPT ![s] = [row[s] EXCEPT !.aged = TRUE]]
      BY <2>1 DEF becomeDue, becomeAged
    <3>4. \A t \in Schedules : row'[t].status = row[t].status
      BY <3>2, <3>3 DEF Working, Sound, Typed, TypeOK
    <3> QED
      BY <3>4 DEF SameStates
  <2>2. CASE sweep
    <3> SUFFICES ASSUME NEW s \in Schedules PROVE SendState(row'[s].status) = SendState(row[s].status)
      BY DEF SameStates
    <3>1. CASE ~Stuck(s)
      BY <2>2, <3>1 DEF sweep
    <3>2. CASE Stuck(s)
      <4>1. row[s].status # "running"
        <5> SUFFICES ASSUME row[s].status = "running" PROVE FALSE
          OBVIOUS
        <5>1. PICK h \in Handlers : Sending(h) /\ worker[h].job = s
          BY DEF Working, Steering, RunningIsSent
        <5>2. Live(h)
          BY <5>1, WorkingRun DEF Sending, SendStages, Idle, Live
        <5> QED
          BY <3>2, <5>1, <5>2 DEF Working, Sound, Locked, LiveRowIsFresh, Stuck
      <4>2. enter(row[s], "pending").status = "pending"
        BY EnterRow DEF Working, Sound, Typed, TypeOK, Statuses
      <4>3. row'[s] = enter(row[s], "pending") /\ row[s].status = "claimed"
        BY <2>2, <3>2, <4>1 DEF sweep, Stuck
      <4> QED
        BY <4>2, <4>3, StatusStates
    <3> QED
      BY <3>1, <3>2
  <2> QED
    BY <2>1, <2>2 DEF sweepIssues, SameStates
<1> QED
  BY <1>1, <1>2, NothingHappens

(* Steps of a handler that keep the row and the audience.                  *)
LEMMA RefinesQuiet ==
  ASSUME Working, NEW h \in Handlers, NEW run, become(h, run), UNCHANGED <<row, inbox>>,
         \A s \in Schedules : Share(run, s) = Share(worker[h], s)
  PROVE  [Once!Next]_Once!vars
BY SameShare, NothingHappens DEF Working, Sound, SameAudiences, SameStates

LEMMA RefinesSteps ==
  ASSUME Working, NEW h \in Handlers,
         \/ loadIssue(h) \/ \E s \in Schedules : DeliverIssueTask(h, s)
         \/ \E b \in Addresses : nextRecipient(h, b)
         \/ recordDelivery(h) \/ finishIssue(h) \/ reloadSchedule(h)
  PROVE  [Once!Next]_Once!vars
<1> DEFINE w == worker[h]
<1>1. UNCHANGED <<row, inbox>> /\ Tried(w)
  BY WorkingRun DEF loadIssue, DeliverIssueTask, nextRecipient, recordDelivery, finishIssue, reloadSchedule,
     tableVars
<1>2. ASSUME NEW run \in Run, become(h, run), ~Sending(h), run.stage \notin SendStages
      PROVE  [Once!Next]_Once!vars
  BY <1>1, <1>2, RefinesQuiet DEF Share, Sending
<1>3. ASSUME NEW run \in Run, become(h, run), Sending(h), run.stage \in SendStages, SameTask(run, w),
             run.audience = w.audience
      PROVE  [Once!Next]_Once!vars
  BY <1>1, <1>3, RefinesQuiet DEF Share, Sending, SameTask
<1>4. CASE loadIssue(h)
  <2>1. ~Sending(h)
    BY <1>4 DEF loadIssue, Sending, SendStages
  <2>2. PICK run \in Run : become(h, run) /\ run.stage \in {"idle", "decide"}
    BY <1>4, LoadStep, IdleRunFields DEF Working, Sound, Return
  <2> QED
    BY <1>2, <2>1, <2>2 DEF SendStages
<1>5. ASSUME NEW s \in Schedules, DeliverIssueTask(h, s) PROVE [Once!Next]_Once!vars
  <2>1. PICK run \in Run : become(h, run) /\ run.stage = "load"
    BY <1>5, TakeStep DEF Working, Sound
  <2>2. ~Sending(h)
    BY <1>5 DEF DeliverIssueTask, Idle, Sending, SendStages
  <2> QED
    BY <1>2, <2>1, <2>2 DEF SendStages
<1>6. ASSUME NEW b \in Addresses, nextRecipient(h, b) PROVE [Once!Next]_Once!vars
  <2>1. Sending(h)
    BY <1>6 DEF nextRecipient, Sending, SendStages
  <2>2. PICK run \in Run : /\ become(h, run) /\ run.stage \in {"next", "mail"} /\ SameTask(run, w)
                           /\ run.audience = w.audience
    BY <1>6, RecipientStep DEF Working, Sound
  <2> QED
    BY <1>3, <2>1, <2>2 DEF SendStages
<1>7. CASE recordDelivery(h) \/ finishIssue(h)
  <2>1. Sending(h)
    BY <1>7 DEF recordDelivery, finishIssue, Sending, SendStages
  <2>2. PICK run \in Run : /\ become(h, run) /\ run.stage \in {"next", "reload"} /\ SameTask(run, w)
                           /\ run.audience = w.audience
    BY <1>7, RecordStep, FinishStep DEF Working, Sound
  <2> QED
    BY <1>3, <2>1, <2>2 DEF SendStages
<1>8. CASE reloadSchedule(h)
  <2>1. Sending(h) /\ ~DbFails(h)
    BY <1>8, WorkingRun DEF reloadSchedule, Sending, SendStages, Idle
  <2>2. PICK run \in Run : /\ become(h, run) /\ run.stage = "settle" /\ SameTask(run, w)
                           /\ run.audience = w.audience
    BY <1>8, <2>1, ReloadStep DEF Working, Sound, SameWork
  <2> QED
    BY <1>3, <2>1, <2>2 DEF SendStages
<1> QED
  BY <1>4, <1>5, <1>6, <1>7, <1>8

LEMMA RefinesPreflight ==
  ASSUME Working, NEW h \in Handlers, preflight(h) PROVE [Once!Next]_Once!vars
<1> DEFINE w == worker[h]
<1>0. PICK s \in Schedules : s = w.job
  BY WorkingRun DEF Run
<1>1. w.stage = "decide" /\ ~Sending(h) /\ UNCHANGED inbox /\ Tried(w) /\ row[s] \in Row
  BY WorkingRun DEF preflight, Sending, SendStages, Working, Sound, Typed, TypeOK
<1>2. ASSUME Return(h) PROVE SameAudiences
  <2>1. \A t \in Schedules : Share(IdleRun, t) = Share(w, t)
    BY <1>1, IdleRunFields DEF Share, Sending
  <2> QED
    BY <1>2, <2>1, SameShare DEF Return, Working, Sound, SameAudiences
<1>3. CASE Return(h) /\ UNCHANGED row
  BY <1>1, <1>2, <1>3, NothingHappens DEF SameStates
<1>4. ASSUME NEW new, row' = [row EXCEPT ![s] = new]
      PROVE  row'[s] = new /\ \A t \in Schedules \ {s} : SendState(row'[t].status) = SendState(row[t].status)
  BY <1>4 DEF Working, Sound, Typed, TypeOK
<1>5. CASE /\ Return(h) /\ w.verdict # "send" /\ row[s].status = "claimed"
           /\ row' = [row EXCEPT ![s] = afterPreflight(row[s], w.verdict)]
  <2>1. row'[s].status \in {"pending", "canceled", "failed"}
    BY <1>1, <1>4, <1>5, AfterPreflightStatus, ZenonT(30)
  <2>2. CASE row'[s].status = "pending"
    BY <1>1, <1>2, <1>4, <1>5, <2>2, NothingHappens, StatusStates DEF SameStates
  <2>3. CASE row'[s].status \in {"canceled", "failed"}
    <3>1. PICK end \in {"canceled", "failed"} : end = row'[s].status
      BY <2>3
    <3>2. SendState(row'[s].status) = end /\ SendState(row[s].status) = "waiting"
      BY <1>5, <3>1, StatusStates
    <3>3. PICK S \in SUBSET Schedules : S = {s}
      OBVIOUS
    <3>4. \A t \in Schedules \ S : SendState(row'[t].status) = SendState(row[t].status)
      BY <1>4, <1>5, <3>3
    <3> QED
      BY <1>1, <1>2, <1>5, <3>2, <3>3, <3>4, SendsWithdrawn
  <2> QED
    BY <2>1, <2>2, <2>3
<1>6. ASSUME NEW run \in Run, become(h, run), run.stage = "list", SameWork(run, w),
             row[s].status = "claimed",
             row' = [row EXCEPT ![s] = afterPreflight(row[s], "send")]
      PROVE  [Once!Next]_Once!vars
  <2>1. row'[s].status = "running"
    BY <1>1, <1>4, <1>6, AfterPreflightStatus
  <2>2. \A t \in Schedules : Share(run, t) = Share(w, t)
    BY <1>1, <1>6 DEF Share, SameWork, Tried, Sending
  <2>3. SameAudiences
    BY <1>6, <2>2, SameShare DEF Working, Sound, SameAudiences
  <2> QED
    BY <1>1, <1>4, <1>6, <2>1, <2>3, SendBegins, StatusStates
<1> QED
  BY <1>0, <1>3, <1>5, <1>6, PreflightStep DEF Working, Sound

(* The row of a handler that mails.                                        *)
LEMMA SenderState ==
  ASSUME Working, NEW h \in Handlers, Sending(h)
  PROVE  SendState(row[worker[h].job].status) = "sending"
<1>1. Live(h)
  BY WorkingRun DEF Sending, SendStages, Idle, Live
<1> QED
  BY <1>1, StatusStates DEF Working, Sound, Locked, LiveSenderOwnsRow

LEMMA RefinesList ==
  ASSUME Working, NEW h \in Handlers, listRecipients(h) PROVE [Once!Next]_Once!vars
<1> DEFINE w == worker[h]
<1>0. PICK s \in Schedules : s = w.job
  BY WorkingRun DEF Run
<1>1. /\ w.stage = "list" /\ UNCHANGED <<row, inbox>> /\ ~DbFails(h) /\ w.audience = {} /\ Sending(h)
  BY WorkingRun DEF listRecipients, tableVars, Idle, Tried, Sending, SendStages
<1>2. PICK run \in Run : /\ become(h, run) /\ SameTask(run, w) /\ run.stage = "next"
                         /\ run.audience = recipientEmails
  BY <1>1, ListStep DEF Working, Sound
<1>3. recipientEmails # {} /\ recipientEmails \in SUBSET Addresses
  BY <1>2 DEF recipientEmails, Run
<1>4. Share(run, s) = recipientEmails /\ \A t : t # s => Share(run, t) = {}
  BY <1>0, <1>2 DEF Share, SameTask, SendStages
<1>5. /\ Audience(worker, s) = {} /\ Audience(worker', s) = recipientEmails
      /\ \A t \in Schedules \ {s} : Audience(worker', t) = Audience(worker, t)
  BY <1>0, <1>1, <1>2, <1>4, SenderAudience
<1> QED
  BY <1>0, <1>1, <1>3, <1>5, SenderState, AudienceChosen DEF SameStates

(* The address has no copy yet: nobody has covered it.                     *)
LEMMA RefinesMail ==
  ASSUME Working, NEW h \in Handlers, mailSend(h) PROVE [Once!Next]_Once!vars
<1> DEFINE w == worker[h]
<1>0. PICK s \in Schedules, c \in Addresses : s = w.job /\ c = w.current
  BY WorkingRun DEF Run
<1>1. w.stage = "mail" /\ UNCHANGED row /\ w.ctx /\ Tried(w) /\ Blank(w) /\ Sending(h)
  BY WorkingRun DEF mailSend, tableVars, Idle, Sending, SendStages
<1>2. PICK run \in Run :
        /\ become(h, run) /\ run.stage = "record" /\ SameTask(run, w) /\ SameWork(run, w)
        /\ inbox' = [inbox EXCEPT ![c] = @ + 1] \/ UNCHANGED inbox
  BY <1>0, MailStep DEF Working, Sound
<1>3. \A t \in Schedules : Share(run, t) = Share(w, t)
  BY <1>1, <1>2 DEF Share, SameTask, SameWork, Sending, SendStages
<1>4. SameAudiences
  BY <1>2, <1>3, SameShare DEF Working, Sound, SameAudiences
<1>5. CASE UNCHANGED inbox
  BY <1>1, <1>4, <1>5, NothingHappens DEF SameStates
<1>6. CASE inbox' = [inbox EXCEPT ![c] = @ + 1]
  <2>1. c \in Audience(worker, s)
    <3>1. c \in w.audience
      BY <1>0, <1>1 DEF Tried, Blank
    <3> QED
      BY <1>0, <1>1, <1>2, <3>1, SenderAudience
  <2>2. ~Covered(c)
    BY <1>0, <1>1, MailCovers DEF Working
  <2>3. inbox[c] = 0 /\ inbox' = [inbox EXCEPT ![c] = 1]
    <3>1. inbox[c] \in Nat /\ inbox[c] + 1 <= 1
      BY <2>2 DEF Working, Steering, OneCopy, Sound, Typed, TypeOK
    <3>2. inbox[c] = 0
      BY <3>1
    <3> QED
      BY <1>6, <3>2
  <2> QED
    BY <1>0, <1>1, <1>4, <2>1, <2>3, SenderState, CopyDelivered DEF SameStates
<1> QED
  BY <1>2, <1>5, <1>6

(* A try that counts as sent has reached its audience, once each.          *)
LEMMA RefinesSettle ==
  ASSUME Working, NEW h \in Handlers, settle(h) PROVE [Once!Next]_Once!vars
<1> DEFINE w == worker[h]
<1>0. PICK s \in Schedules : s = w.job
  BY WorkingRun DEF Run
<1>1. /\ w.stage = "settle" /\ w.verdict \in {"completed", "failed", "retry"}
      /\ row[s].status = "running" /\ row[s] \in Row
      /\ row' = [row EXCEPT ![s] = afterSend(row[s], w.verdict)]
      /\ Return(h) /\ UNCHANGED <<recorded, inbox>> /\ Sending(h)
  BY <1>0, SettleCalm
<1>2. Tried(w) /\ RunReached(w) /\ w \in Run
  BY WorkingRun
<1> DEFINE end == IF w.verdict = "retry" THEN "waiting" ELSE IF w.verdict = "completed" THEN "sent" ELSE "failed"
<1>3. SendState(row'[s].status) = end /\ end \in {"sent", "failed", "waiting"}
  <2>1. row'[s].status = IF w.verdict = "retry" THEN "pending" ELSE w.verdict
    BY <1>1, SettledRow DEF Working, Sound, Typed, TypeOK
  <2> QED
    BY <1>1, <2>1, StatusStates
<1>4. \A t \in Schedules \ {s} : SendState(row'[t].status) = SendState(row[t].status)
  BY <1>1 DEF Working, Sound, Typed, TypeOK
<1>5. \A t : Share(IdleRun, t) = {}
  BY IdleRunFields DEF Share
<1>6. /\ Audience(worker, s) = w.audience /\ Audience(worker', s) = {}
      /\ \A t \in Schedules \ {s} : Audience(worker', t) = Audience(worker, t)
  BY <1>0, <1>1, <1>5, SenderAudience DEF Return
<1>7. w.audience # {}
  BY <1>1, <1>2 DEF Tried, SendStages
<1>8. ASSUME end = "sent", NEW a \in w.audience PROVE inbox[a] = 1
  <2>1. w.verdict = "completed" /\ ~w.erred
    BY <1>1, <1>2, <1>8 DEF Tried
  <2>2. inbox[a] > 0 /\ a \in Addresses
    BY <1>1, <1>2, <1>8, <2>1 DEF RunReached, Reached, Run
  <2>3. inbox[a] \in Nat /\ inbox[a] <= 1
    BY <2>2 DEF Working, Steering, OneCopy, Sound, Typed, TypeOK
  <2> QED
    BY <2>2, <2>3
<1>9. SendState(row[s].status) = "sending"
  BY <1>1, StatusStates
<1> HIDE DEF end
<1> QED
  BY <1>1, <1>3, <1>4, <1>6, <1>7, <1>8, <1>9, TryEnds

LEMMA RefinesWorker ==
  ASSUME Working, NothingBounced, [WorkerNext]_vars PROVE [Once!Next]_Once!vars
<1>1. CASE UNCHANGED vars
  BY <1>1, NothingHappens DEF vars, SameStates, SameAudiences
<1>2. ASSUME NEW h \in Handlers, expireContext(h) \/ crashHandler(h) PROVE FALSE
  BY <1>2, CalmFaults DEF expireContext, crashHandler, FaultKinds, Working
<1> QED
  BY <1>1, <1>2, RefinesPoller, RefinesRow, RefinesSteps, RefinesPreflight, RefinesList, RefinesMail,
     RefinesSettle DEF WorkerNext, rowStep, handlerStep

LEMMA RefinesControl ==
  ASSUME Typed, UNCHANGED workerVars,
         \/ UNCHANGED row
         \/ row' = [s \in Schedules |-> IF s \in Waiting THEN enter(row[s], "canceled") ELSE row[s]]
  PROVE  [Once!Next]_Once!vars
<1>1. UNCHANGED inbox /\ SameAudiences
  BY DEF workerVars, SameAudiences
<1>2. CASE UNCHANGED row
  BY <1>1, <1>2, NothingHappens DEF SameStates
<1>3. CASE row' = [s \in Schedules |-> IF s \in Waiting THEN enter(row[s], "canceled") ELSE row[s]]
  <2>1. \A s \in Schedules : IF s \in Waiting THEN row'[s].status = "canceled" ELSE row'[s] = row[s]
    BY <1>3, CanceledRows
  <2>2. CASE Waiting = {}
    BY <1>1, <2>1, <2>2, NothingHappens DEF SameStates
  <2>3. CASE Waiting # {}
    <3>1. Waiting \in SUBSET Schedules
          /\ \A s \in Waiting : SendState(row[s].status) = "waiting" /\ SendState(row'[s].status) = "canceled"
      BY <2>1, StatusStates DEF Waiting
    <3> QED
      BY <1>1, <2>1, <2>3, <3>1, SendsWithdrawn
  <2> QED
    BY <2>2, <2>3
<1> QED
  BY <1>2, <1>3

LEMMA RefinesNext ==
  ASSUME Calm, Steady, [ControlNext]_controlVars PROVE [Once!Next]_Once!vars
<1>1. CASE UNCHANGED controlVars \/ (WorkerNext /\ UNCHANGED <<req, begun>>)
  <2>1. [WorkerNext]_vars
    BY <1>1 DEF controlVars
  <2>2. CompletedStays /\ Typed'
    BY <2>1, TerminalStays, TypedNext DEF Steady, CompletedStays, Terminal
  <2> QED
    BY <2>1, <2>2, RefinesWorker DEF Steady, Working, Sound, Steering
<1>2. CASE \/ \E q \in Requests : requestStep(q)
           \/ updateSeriesStatus \/ deleteSeries
           \/ \E r \in Recipients : changeAudience(r)
  BY <1>2, CalmControl, RefinesControl DEF Steady
<1> QED
  BY <1>1, <1>2 DEF ControlNext

LEMMA RefinesInit == ControlInit => Once!Init
<1> SUFFICES ASSUME ControlInit PROVE Once!Init
  OBVIOUS
<1>1. \A s \in Schedules : SendState(row[s].status) \in {"none", "waiting"}
  BY NewRowsTyped, StatusStates DEF ControlInit, Init
<1>2. \A h \in Handlers : ~Sending(h)
  BY IdleRunFields DEF ControlInit, Init, InitProcesses, Sending, SendStages
<1>3. Audiences = [s \in Schedules |-> {}]
  BY <1>2 DEF Audiences
<1> QED
  BY <1>1, <1>3 DEF Once!Init, Audiences, ControlInit, Init, InitTables

(* While the provider refuses mails and queues back up, and sends are       *)
(* canceled, series paused and deleted and audiences changed at any time:  *)
(* no address is mailed twice, a send that has begun is not withdrawn, and *)
(* it counts as sent only when each address of its audience has its copy.  *)
THEOREM SendsOnce ==
  ASSUME Faults \subseteq {"refuse", "backlog"},
         Operations \subseteq {"cancel", "pause", "delete", "audience"}
  PROVE  ControlSpec => ImplementsSendOnce
<1>0. Calm
  BY DEF Calm
<1>1. ControlInit => Steady /\ Once!Init
  BY SteadyInit, RefinesInit
<1>2. Steady /\ [ControlNext]_controlVars => Steady' /\ [Once!Next]_Once!vars
  BY <1>0, SteadyNext, RefinesNext
<1> QED
  BY <1>1, <1>2, PTL DEF ControlSpec, ImplementsSendOnce, Once!Spec

=============================================================================
