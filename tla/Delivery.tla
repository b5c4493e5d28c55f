------------------------------ MODULE Delivery ------------------------------
(***************************************************************************)
(* How the control worker sends one issue: the scheduler claims due rows of *)
(* the schedules table and hands each one to Asynq, an Asynq handler takes  *)
(* the row from claimed to running and mails every recipient, and the      *)
(* watchdog returns rows that stay in progress for too long.  Every row of  *)
(* Schedules belongs to the same issue: issues share nothing but their      *)
(* series, which a delivery only reads.                                    *)
(*                                                                         *)
(* Time is abstract.  due stands for run_at <= now, and aged for a         *)
(* claimed_at or started_at older than stuckScheduleAge; ctx is TRUE while  *)
(* the 300 s Asynq context of a handler is alive.                          *)
(***************************************************************************)
EXTENDS Naturals

CONSTANTS
  Schedules,    \* identities of rows of the schedules table, used or not yet
  Pollers,      \* scheduler loops, one per control-worker replica
  Handlers,     \* Asynq worker goroutines of all replicas
  Recipients,   \* rows of the recipients table of the workspace
  Owner,        \* the creator of the series, mailed when nobody else can be
  MaxAttempts,  \* max_attempts of a row
  Faults,       \* the kinds of fault that may happen
  MaxFaults,    \* bound: faults in a behaviour (refused mails are not counted)
  MaxQueued,    \* bound: copies of the task of one row waiting in Asynq
  MaxMails      \* bound: copies of the issue one address may receive

FaultKinds == {"enqueue", "lost_enqueue", "db", "refuse", "lost_reply", "timeout", "backlog", "crash"}

ASSUME DeliveryAssumption ==
  /\ Schedules # {}
  /\ Owner \notin Recipients
  /\ MaxAttempts \in Nat \ {0}
  /\ Faults \subseteq FaultKinds
  /\ MaxFaults \in Nat
  /\ MaxQueued \in Nat \ {0}
  /\ MaxMails \in Nat

VARIABLES
  row,          \* the schedules table
  issue,        \* status of the issue, and whether content_json is non-empty
  series,       \* whether the series is paused, and whether it is deleted
  deliverable,  \* recipients that are verified and not suppressed
  recorded,     \* status of the deliveries row of each recipient
  inbox,        \* copies of the issue the provider accepted for each address
  held,         \* rows a scheduler loop has claimed and not yet enqueued
  bounced,      \* rows whose enqueue failed, about to be put back
  queued,       \* copies of the task of each row that wait in Asynq
  worker,       \* the run of DeliverScheduled in each handler
  faults        \* faults so far

tableVars == <<row, issue, series, deliverable, recorded>>
queueVars == <<held, bounced, queued>>
vars == <<row, issue, series, deliverable, recorded, inbox,
          held, bounced, queued, worker, faults>>

Statuses == {"absent", "pending", "claimed", "running",
             "completed", "failed", "canceled"}
Terminal == {"completed", "failed", "canceled"}
IssueStatuses == {"pending", "generating", "ready", "approved", "sent", "failed"}
Addresses == Recipients \union {Owner}

Row == [status: Statuses, attempts: 0..MaxAttempts, due: BOOLEAN, aged: BOOLEAN]

(* The stages of DeliverScheduled between two statements that other         *)
(* processes can observe.                                                  *)
Stages == {"idle", "load", "decide", "list", "next", "mail", "record",
           "reload", "settle"}
SendStages == {"list", "next", "mail", "record", "reload", "settle"}

Verdicts == {"none", "send", "defer", "cancel", "fail", "completed", "failed", "retry"}

(* job is meaningful outside "idle" only, current in "mail" and "record".   *)
Run == [stage: Stages, job: Schedules, ctx: BOOLEAN, verdict: Verdicts,
        audience: SUBSET Addresses, todo: SUBSET Addresses,
        current: Addresses, accepted: BOOLEAN, erred: BOOLEAN]

Idle(h) == worker[h].stage = "idle"
Sending(h) == worker[h].stage \in SendStages

(* Every kind of fault is optional and their number is bounded.             *)
Fault(kind) == /\ kind \in Faults
               /\ faults < MaxFaults
               /\ faults' = faults + 1
NoFault == faults' = faults

(* A statement run under the context of handler h: once the context has    *)
(* expired every statement returns an error, before that one fails only    *)
(* when the database does.                                                 *)
DbWorks(h) == worker[h].ctx /\ NoFault
DbFails(h) == \/ ~worker[h].ctx /\ NoFault
              \/ worker[h].ctx /\ Fault("db")

(* The handler returns: its goroutine takes another task later.  Nothing   *)
(* of a finished run is read again, so its fields get default values.      *)
IdleRun == [stage |-> "idle", job |-> CHOOSE s \in Schedules : TRUE,
            ctx |-> FALSE, verdict |-> "none", audience |-> {}, todo |-> {},
            current |-> Owner, accepted |-> FALSE, erred |-> FALSE]
become(h, run) == worker' = [worker EXCEPT ![h] = run]
Return(h) == become(h, IdleRun)

(* The age of a row counts from its last change of status.                 *)
enter(r, status) == [r EXCEPT !.status = status, !.aged = FALSE]

-----------------------------------------------------------------------------
(* The scheduler loop.                                                     *)

(* Mutant: the attempts of a row are not looked at.                        *)
EligibleAtAnyAttempt(s) == row[s].status = "pending" /\ row[s].due

Eligible(s) == /\ row[s].status = "pending"
               /\ row[s].due
               /\ row[s].attempts < MaxAttempts

(* One UPDATE claims a batch.  LIMIT and SKIP LOCKED let it miss some of    *)
(* the due rows.  The loop is sequential: a batch is enqueued before the    *)
(* next one is claimed.                                                    *)
processDueJobs(p, S) ==
  /\ held[p] = {} /\ bounced[p] = {}
  /\ S # {}
  /\ \A s \in S : Eligible(s)
  /\ row' = [s \in Schedules |->
               IF s \in S THEN enter(row[s], "claimed")
               ELSE row[s]]
  /\ held' = [held EXCEPT ![p] = S]
  /\ UNCHANGED <<issue, series, deliverable, recorded, inbox, bounced, queued,
                 worker, faults>>

(* The task reaches Redis and the call returns; or the call returns an     *)
(* error, with the task in Redis (only the answer was lost) or without.    *)
enqueueTask(p, s) ==
  /\ s \in held[p] /\ bounced[p] = {}
  /\ held' = [held EXCEPT ![p] = @ \ {s}]
  /\ \/ /\ NoFault
        /\ queued[s] < MaxQueued
        /\ queued' = [queued EXCEPT ![s] = @ + 1]
        /\ UNCHANGED bounced
     \/ /\ bounced' = [bounced EXCEPT ![p] = {s}]
        /\ \/ Fault("enqueue") /\ UNCHANGED queued
           \/ /\ Fault("lost_enqueue")
              /\ queued[s] < MaxQueued
              /\ queued' = [queued EXCEPT ![s] = @ + 1]
  /\ UNCHANGED <<tableVars, inbox, worker>>

(* After a failed enqueue the row is updated by primary key, whatever its   *)
(* status has become; the error of this update is not looked at.           *)
putBack(p, s) ==
  /\ s \in bounced[p]
  /\ bounced' = [bounced EXCEPT ![p] = {}]
  /\ \/ /\ NoFault
        /\ row' = [row EXCEPT ![s] = enter(@, "pending")]
     \/ Fault("db") /\ UNCHANGED row
  /\ UNCHANGED <<issue, series, deliverable, recorded, inbox, held, queued, worker>>

crashPoller(p) ==
  /\ held[p] # {} \/ bounced[p] # {}
  /\ Fault("crash")
  /\ held' = [held EXCEPT ![p] = {}]
  /\ bounced' = [bounced EXCEPT ![p] = {}]
  /\ UNCHANGED <<tableVars, inbox, queued, worker>>

-----------------------------------------------------------------------------
(* DeliverScheduled.                                                       *)

DeliverIssueTask(h, s) ==
  /\ Idle(h) /\ queued[s] > 0
  /\ queued' = [queued EXCEPT ![s] = @ - 1]
  /\ become(h, [worker[h] EXCEPT !.stage = "load", !.job = s, !.ctx = TRUE])
  /\ UNCHANGED <<tableVars, inbox, held, bounced, faults>>

(* An issue row is never deleted by this code, so the branches for a       *)
(* missing issue are left out; a series can be deleted at any time.        *)
decideDelivery ==
  IF series.deleted THEN "cancel"
  ELSE IF series.paused THEN "defer"
  ELSE IF issue.content THEN "send"
  ELSE IF issue.status = "generating" THEN "defer"
  ELSE "fail"

(* An error other than "not found" leaves the row claimed.                 *)
loadIssue(h) ==
  /\ worker[h].stage = "load"
  /\ \/ DbFails(h) /\ Return(h)
     \/ /\ DbWorks(h)
        /\ become(h, [worker[h] EXCEPT !.stage = "decide", !.verdict = decideDelivery])
  /\ UNCHANGED <<tableVars, inbox, queueVars>>

(* Mutant: the update is not conditional.                                  *)
transitionAlways(s, from, new) == row' = [row EXCEPT ![s] = new]

(* UPDATE ... WHERE id = s AND status = from.                              *)
transition(s, from, new) ==
  row' = IF row[s].status = from THEN [row EXCEPT ![s] = new] ELSE row

afterPreflight(r, verdict) ==
  CASE verdict = "send"   -> [enter(r, "running") EXCEPT !.attempts = @ + 1]
    [] verdict = "defer"  -> [enter(r, "pending") EXCEPT !.due = FALSE]
    [] verdict = "cancel" -> enter(r, "canceled")
    [] OTHER              -> enter(r, "failed")

(* Mutant: the handler sends although another one has taken the row.       *)
preflightSendsAnyway(h) ==
  /\ worker[h].stage = "decide"
  /\ DbWorks(h)
  /\ transition(worker[h].job, "claimed", afterPreflight(row[worker[h].job], worker[h].verdict))
  /\ IF worker[h].verdict = "send"
     THEN become(h, [worker[h] EXCEPT !.stage = "list"])
     ELSE Return(h)
  /\ UNCHANGED <<issue, series, deliverable, recorded, inbox, queueVars>>

preflight(h) ==
  LET s == worker[h].job
      verdict == worker[h].verdict
  IN /\ worker[h].stage = "decide"
     /\ \/ DbFails(h) /\ Return(h) /\ UNCHANGED row
        \/ /\ DbWorks(h)
           /\ transition(s, "claimed", afterPreflight(row[s], verdict))
           /\ IF verdict = "send" /\ row[s].status = "claimed"
              THEN become(h, [worker[h] EXCEPT !.stage = "list"])
              ELSE Return(h)
     /\ UNCHANGED <<issue, series, deliverable, recorded, inbox, queueVars>>

(* The audience is read once.  Without a deliverable recipient the owner   *)
(* of the series is the audience.                                          *)
recipientEmails ==
  IF deliverable = {} THEN {Owner} ELSE deliverable

listRecipients(h) ==
  /\ worker[h].stage = "list"
  /\ \/ /\ DbFails(h)
        /\ become(h, [worker[h] EXCEPT !.stage = "reload", !.erred = TRUE])
     \/ /\ DbWorks(h)
        /\ become(h, [worker[h] EXCEPT !.stage = "next", !.audience = recipientEmails,
                                       !.todo = recipientEmails])
  /\ UNCHANGED <<tableVars, inbox, queueVars>>

(* Mutant: recipients that have their copy are not skipped.                *)
nextRecipientAgain(h, r) ==
  /\ worker[h].stage = "next" /\ r \in worker[h].todo
  /\ NoFault
  /\ become(h, [worker[h] EXCEPT !.stage = "mail", !.current = r])
  /\ UNCHANGED <<tableVars, inbox, queueVars>>

(* A lookup that fails counts as "no row yet": the address is mailed.      *)
nextRecipient(h, r) ==
  /\ worker[h].stage = "next" /\ r \in worker[h].todo
  /\ \/ /\ DbWorks(h) /\ recorded[r] \in {"submitted", "delivered"}
        /\ become(h, [worker[h] EXCEPT !.todo = @ \ {r}])
     \/ /\ \/ DbWorks(h) /\ recorded[r] \notin {"submitted", "delivered"}
           \/ DbFails(h)
        /\ become(h, [worker[h] EXCEPT !.stage = "mail", !.current = r])
  /\ UNCHANGED <<tableVars, inbox, queueVars>>

(* mail.Send has its own timeout and ignores the context: the provider     *)
(* accepts the message, refuses it, or accepts it and the answer is lost.   *)
mailSend(h) ==
  LET r == worker[h].current
      answered(ok) == become(h, [worker[h] EXCEPT !.stage = "record", !.accepted = ok])
  IN /\ worker[h].stage = "mail"
     /\ inbox[r] < MaxMails
     /\ \/ NoFault /\ answered(TRUE) /\ inbox' = [inbox EXCEPT ![r] = @ + 1]
        \/ Fault("lost_reply") /\ answered(FALSE) /\ inbox' = [inbox EXCEPT ![r] = @ + 1]
        \/ "refuse" \in Faults /\ NoFault /\ answered(FALSE) /\ UNCHANGED inbox
     /\ UNCHANGED <<tableVars, queueVars>>

(* Mutant: a failed address does not make the run fail.                    *)
recordDeliveryForgiving(h) ==
  LET r == worker[h].current
  IN /\ worker[h].stage = "record"
     /\ DbWorks(h)
     /\ recorded' = [recorded EXCEPT ![r] = IF worker[h].accepted THEN "submitted" ELSE "failed"]
     /\ become(h, [worker[h] EXCEPT !.stage = "next", !.todo = @ \ {r}, !.accepted = FALSE])
     /\ UNCHANGED <<row, issue, series, deliverable, inbox, queueVars>>

(* An upsert whose error is only logged.  The owner has no recipients row,  *)
(* so the foreign key refuses every deliveries row for the owner.          *)
recordDelivery(h) ==
  LET r == worker[h].current
      ok == worker[h].accepted
  IN /\ worker[h].stage = "record"
     /\ \/ DbFails(h) /\ UNCHANGED recorded
        \/ /\ DbWorks(h)
           /\ recorded' = IF r = Owner THEN recorded
                          ELSE [recorded EXCEPT ![r] = IF ok THEN "submitted" ELSE "failed"]
     /\ become(h, [worker[h] EXCEPT !.stage = "next", !.todo = @ \ {r},
                                    !.accepted = FALSE, !.erred = @ \/ ~ok])
     /\ UNCHANGED <<row, issue, series, deliverable, inbox, queueVars>>

(* The end of deliverIssue: the issue is sent when nobody failed, whatever  *)
(* its status is by now.                                                   *)
finishIssue(h) ==
  /\ worker[h].stage = "next" /\ worker[h].todo = {}
  /\ \/ /\ worker[h].erred /\ NoFault
        /\ become(h, [worker[h] EXCEPT !.stage = "reload"])
        /\ UNCHANGED issue
     \/ /\ ~worker[h].erred /\ DbWorks(h)
        /\ become(h, [worker[h] EXCEPT !.stage = "reload"])
        /\ issue' = [issue EXCEPT !.status = "sent"]
     \/ /\ ~worker[h].erred /\ DbFails(h)
        /\ become(h, [worker[h] EXCEPT !.stage = "reload", !.erred = TRUE])
        /\ UNCHANGED issue
  /\ UNCHANGED <<row, series, deliverable, recorded, inbox, queueVars>>

reloadSchedule(h) ==
  LET s == worker[h].job
      verdict == IF ~worker[h].erred THEN "completed"
                 ELSE IF row[s].attempts >= MaxAttempts THEN "failed" ELSE "retry"
  IN /\ worker[h].stage = "reload"
     /\ \/ DbFails(h) /\ Return(h)
        \/ /\ DbWorks(h)
           /\ become(h, [worker[h] EXCEPT !.stage = "settle", !.verdict = verdict])
     /\ UNCHANGED <<tableVars, inbox, queueVars>>

(* Mutant: a retry is not turned into a pending row.                       *)
afterSendVerbatim(r, verdict) == enter(r, verdict)

afterSend(r, verdict) ==
  IF verdict = "retry"
  THEN [enter(r, "pending") EXCEPT !.due = FALSE]
  ELSE enter(r, verdict)

settle(h) ==
  LET s == worker[h].job
  IN /\ worker[h].stage = "settle"
     /\ \/ DbFails(h) /\ UNCHANGED row
        \/ DbWorks(h) /\ transition(s, "running", afterSend(row[s], worker[h].verdict))
     /\ Return(h)
     /\ UNCHANGED <<issue, series, deliverable, recorded, inbox, queueVars>>

-----------------------------------------------------------------------------
(* Asynq, processes and time.                                              *)

(* The 300 s task timeout.  The goroutine is not stopped by it.            *)
expireContext(h) ==
  /\ ~Idle(h) /\ worker[h].ctx
  /\ Fault("timeout")
  /\ become(h, [worker[h] EXCEPT !.ctx = FALSE])
  /\ UNCHANGED <<tableVars, inbox, queueVars>>

(* The process of handler h stops.  A graceful shutdown of Asynq puts the   *)
(* task back into its queue; after a kill MaxRetry(0) archives it.          *)
crashHandler(h) ==
  LET s == worker[h].job
  IN /\ ~Idle(h)
     /\ Fault("crash")
     /\ Return(h)
     /\ \/ UNCHANGED queued
        \/ queued[s] < MaxQueued /\ queued' = [queued EXCEPT ![s] = @ + 1]
     /\ UNCHANGED <<tableVars, inbox, held, bounced>>

becomeDue(s) ==
  /\ row[s].status = "pending" /\ ~row[s].due
  /\ row' = [row EXCEPT ![s].due = TRUE]
  /\ UNCHANGED <<issue, series, deliverable, recorded, inbox, queueVars, worker, faults>>

(* The task of a claimed row is on its way to preflight.                   *)
Attended(s) ==
  \/ queued[s] > 0
  \/ \E p \in Pollers : s \in held[p] \union bounced[p]
  \/ \E h \in Handlers : worker[h].stage \in {"load", "decide"} /\ worker[h].job = s

(* Mutant: a stuckScheduleAge below the timeout of a task.                 *)
becomeAgedEarly(s) ==
  /\ ~row[s].aged /\ row[s].status \in {"claimed", "running"}
  /\ row' = [row EXCEPT ![s].aged = TRUE]
  /\ UNCHANGED <<issue, series, deliverable, recorded, inbox, queueVars, worker, faults>>

(* stuckScheduleAge (15 minutes) passes for a row in progress.  For a task  *)
(* on its way that is a backlog and counts as a fault.  A handler that set *)
(* the row running began its 300 s context before started_at, so by then    *)
(* that context has expired or the handler is gone.                        *)
becomeAged(s) ==
  /\ ~row[s].aged
  /\ \/ row[s].status = "claimed" /\ ~Attended(s) /\ NoFault
     \/ row[s].status = "claimed" /\ Attended(s) /\ Fault("backlog")
     \/ /\ row[s].status = "running" /\ NoFault
        /\ \A h \in Handlers : Sending(h) /\ worker[h].job = s => ~worker[h].ctx
  /\ row' = [row EXCEPT ![s].aged = TRUE]
  /\ UNCHANGED <<issue, series, deliverable, recorded, inbox, queueVars, worker>>

(* Mutant: running rows are left alone.                                    *)
StuckWhileClaimed(s) == row[s].status = "claimed" /\ row[s].aged

(* The watchdog: one UPDATE returns every row stuck in progress.           *)
Stuck(s) == row[s].status \in {"claimed", "running"} /\ row[s].aged

sweep ==
  /\ \E s \in Schedules : Stuck(s)
  /\ row' = [s \in Schedules |->
               IF Stuck(s) THEN enter(row[s], "pending")
               ELSE row[s]]
  /\ UNCHANGED <<issue, series, deliverable, recorded, inbox, queueVars, worker, faults>>

(* Its second UPDATE gives up a generation that stopped: the age of the     *)
(* generation (45 minutes) is left open, and the content stays as it is.   *)
sweepIssues ==
  /\ issue.status = "generating"
  /\ issue' = [issue EXCEPT !.status = "failed"]
  /\ UNCHANGED <<row, series, deliverable, recorded, inbox, queueVars, worker, faults>>

-----------------------------------------------------------------------------
NewRow(due) == [status |-> "pending", attempts |-> 0, due |-> due, aged |-> FALSE]
NoRow == [status |-> "absent", attempts |-> 0, due |-> FALSE, aged |-> FALSE]

(* Generation and editing leave these combinations behind.                 *)
IssueStates ==
  [status: {"ready", "approved", "generating", "sent", "failed"}, content: {TRUE}]
    \union [status: {"pending", "generating", "failed"}, content: {FALSE}]

InitTables ==
  /\ issue \in IssueStates
  /\ series \in [paused: BOOLEAN, deleted: BOOLEAN]
  /\ deliverable \in SUBSET Recipients
  /\ recorded = [r \in Addresses |-> "none"]
  /\ inbox = [r \in Addresses |-> 0]

InitProcesses ==
  /\ held = [p \in Pollers |-> {}]
  /\ bounced = [p \in Pollers |-> {}]
  /\ queued = [s \in Schedules |-> 0]
  /\ worker = [h \in Handlers |-> IdleRun]
  /\ faults = 0

(* The issue has one scheduled row, or none.                               *)
Init ==
  /\ row \in [Schedules -> {NoRow, NewRow(TRUE), NewRow(FALSE)}]
  /\ \A s, t \in Schedules : row[s] # NoRow /\ row[t] # NoRow => s = t
  /\ InitTables
  /\ InitProcesses

handlerStep(h) ==
  \/ loadIssue(h) \/ preflight(h) \/ listRecipients(h)
  \/ \E r \in Addresses : nextRecipient(h, r)
  \/ mailSend(h) \/ recordDelivery(h) \/ finishIssue(h)
  \/ reloadSchedule(h) \/ settle(h)

pollerStep(p) ==
  \/ \E S \in SUBSET Schedules : processDueJobs(p, S)
  \/ \E s \in Schedules : enqueueTask(p, s) \/ putBack(p, s)
  \/ crashPoller(p)

rowStep(s) ==
  \/ becomeDue(s) \/ becomeAged(s)
  \/ \E h \in Handlers : DeliverIssueTask(h, s)

WorkerNext ==
  \/ \E p \in Pollers : pollerStep(p)
  \/ \E s \in Schedules : rowStep(s)
  \/ \E h \in Handlers : handlerStep(h) \/ expireContext(h) \/ crashHandler(h)
  \/ sweep
  \/ sweepIssues

Spec == Init /\ [][WorkerNext]_vars

(* What the code's scheduling guarantees: every loop ticks, every replica   *)
(* that is not dead goes on with its handler, time passes, and Asynq takes *)
(* waiting tasks in order whenever a handler is free (hence SF).           *)
Fairness ==
  /\ \A p \in Pollers, s \in Schedules :
       /\ WF_vars(\E S \in SUBSET Schedules : s \in S /\ processDueJobs(p, S))
       /\ WF_vars(enqueueTask(p, s))
       /\ WF_vars(putBack(p, s))
  /\ \A s \in Schedules :
       /\ SF_vars(\E h \in Handlers : DeliverIssueTask(h, s))
       /\ WF_vars(becomeDue(s))
       /\ WF_vars(becomeAged(s) /\ NoFault)
  /\ \A h \in Handlers : WF_vars(handlerStep(h))
  /\ WF_vars(sweep)
  /\ WF_vars(sweepIssues)

FairSpec == Spec /\ Fairness

-----------------------------------------------------------------------------
(* What the variables can hold. *)
TypeOK ==
  /\ row \in [Schedules -> Row]
  /\ issue \in [status: IssueStatuses, content: BOOLEAN]
  /\ series \in [paused: BOOLEAN, deleted: BOOLEAN]
  /\ deliverable \subseteq Recipients
  /\ recorded \in [Addresses -> {"none", "submitted", "delivered", "failed"}]
  /\ inbox \in [Addresses -> Nat]
  /\ held \in [Pollers -> SUBSET Schedules]
  /\ bounced \in [Pollers -> SUBSET Schedules]
  /\ queued \in [Schedules -> Nat]
  /\ worker \in [Handlers -> Run]
  /\ faults \in Nat

(* A handler that is mailing and whose context is alive.                   *)
Live(h) == Sending(h) /\ worker[h].ctx

(* While a live handler mails, its row stays running: no sweep, duplicate   *)
(* task or deferral takes the row away from it (delivery.go:120-123,       *)
(* watchdog.go:42-46).                                                     *)
LiveSenderOwnsRow ==
  \A h \in Handlers : Live(h) => row[worker[h].job].status = "running"

(* No two live handlers mail for the same row: a stale or duplicate task is *)
(* a no-op instead of a second send (delivery.go:120-123).                 *)
OneLiveSender ==
  \A h, k \in Handlers :
    Live(h) /\ Live(k) /\ worker[h].job = worker[k].job => h = k

(* A row is only ever claimed with an attempt left and only runs on a      *)
(* counted attempt, however it was reclaimed, retried or reset in between.  *)
AttemptsWithinBudget ==
  \A s \in Schedules :
    /\ row[s].status = "claimed" => row[s].attempts < MaxAttempts
    /\ row[s].status = "running" => row[s].attempts \in 1..MaxAttempts

(* An address gets a second copy only when something failed: refused mails  *)
(* and retries alone never duplicate, because a recipient with a submitted *)
(* row is skipped (delivery.go:290-292), and one fault costs an address at *)
(* most one extra copy.  An enqueue that reports an error although its     *)
(* task is queued is worse than that: the put-back takes the row from a    *)
(* live handler, two handlers overwrite each other's record of an address, *)
(* and every later attempt may mail it again.                              *)
DuplicatesCostFaults == \A r \in Addresses : inbox[r] <= 1 + faults

(* A run that ends without an error has reached its whole audience, in     *)
(* this run or an earlier one: no row becomes completed, and no issue sent, *)
(* while an address of the audience has nothing (delivery.go:314-348).     *)
FinishedRunReachedAll ==
  \A h \in Handlers :
    worker[h].stage \in {"reload", "settle"} /\ ~worker[h].erred
      => \A r \in worker[h].audience : inbox[r] > 0

(* The worker, the scheduler and the watchdog never take a row out of a    *)
(* terminal status (the diagram at delivery.go:115-118).                   *)
TerminalIsFinal ==
  [][\A s \in Schedules : row[s].status \in Terminal
                            => row'[s].status = row[s].status]_row

(* A crashed, hung or lost task cannot keep a row in progress for ever     *)
(* (watchdog.go:1-2).                                                      *)
InProgressReleased ==
  \A s \in Schedules :
    row[s].status \in {"claimed", "running"}
      ~> row[s].status \notin {"claimed", "running"}

(* A row of a series that is not paused is settled - sent, failed or        *)
(* canceled - or has used all its attempts, whatever goes wrong on the way *)
(* and also when the issue is still being generated (delivery.go:115-118). *)
EventuallySettled ==
  \A s \in Schedules :
    row[s].status = "pending" /\ ~series.paused
      ~> row[s].status \in Terminal \/ row[s].attempts = MaxAttempts
=============================================================================
