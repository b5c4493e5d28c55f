# Cadensend in TLA+

Cadensend plans, writes and sends newsletter series. A user describes a series,
an AI worker turns it into a plan and into issues, the user approves an issue
(or the worker does it, when manual approval is off), and a Go worker mails it
to the recipients at its send time. A Next.js application shows all of it,
edits it, and polls for what the workers do. This directory holds TLA+ models of the
parts where the outcome depends on the order of steps of several processes, TLC
configurations that check them, and proofs checked by TLAPS.

## 1. Inventory

| Part | Source | State | Operations | What is hard |
|---|---|---|---|---|
| Scheduler | `backend/control-worker/internal/scheduler` | rows of `schedules`; the batch in its hand | claim due rows, enqueue each to Asynq, put back after an error | several replicas, crash between claim and enqueue, an enqueue whose answer is lost |
| Delivery worker | `.../delivery`, `.../tasks` | the row's status and attempts, `deliveries`, `issues.status` | preflight, list audience, mail, record, finish, settle | every statement is its own transaction; duplicate tasks; a 300 s context that mailing ignores; partial failures and retries |
| Watchdog | `.../watchdog` | `schedules`, `issues`, `series.plan_status` | three sweeps every 2 minutes | racing what is slow but alive |
| Issue control | `backend/control-api/cmd/server/handlers.go`, `handlers_issues.go` | `issues`, `issue_versions`, `schedules`, `series` | approve, reschedule, cancel send, generate, cancel generation, versions, edit, delete series, pause | read first and write later without a transaction |
| Generation queue | `ai-service/ai-engine/workers/main.py` | Redis lists `generation_queue` and `:processing`, asyncio tasks, `_running_jobs`, `_llm_task` | take, dispatch, batch, put back, finalize, cancel, recover | stops between two Redis commands, late cancels, late results |
| Plan materialisation | same file | `series.plan_status`, `issues` | store the plan, make issues, push their jobs | commit before push |
| Recipients, links, webhook | `control-api/cmd/server/handlers_recipients.go`, `handlers_webhooks.go`, `internal/auth/linktoken.go` | `recipients`, `deliveries`, `provider_events` | verify, suppress, unsubscribe, provider events | events repeated, reordered, recorded but not applied |
| Accounts and sessions | `internal/service/user.go`, `internal/middleware`, and in the web `app/api/v1/[...slug]/route.ts`, `contexts/AuthContext.tsx`, the pages that sign in | users, tokens, the version cache, the cookie, the user a tab shows | log in, sign-in link, refresh, reset, revoke, delete | a session slides while other requests are open; cached versions |
| Assistant | `hooks/useAssistantChat.ts`, `components/assistant`, `handlers_assistant_threads.go` | the list of messages, a chain of writes, streams, cards that wait for a decision | send, stream, approve, submit, switch, reload | several writers of one list, each awaiting something |
| Issue editor | `app/(workspace)/issues/[id]/page.tsx`, `IssueVersionPanel.tsx` | the draft, its dirty mark and timer | edit, autosave, flush, poll, every button | typing during a save; buttons that use the server's text |
| New series and series page | `app/(workspace)/series/create`, `series/[id]` | the form; plan, issues and sources as shown | steps, brief, submit; two polls, eleven buttons and dialogs | polls that must stop neither early nor late |
| List pages | `sources`, `recipients`, `runs`, `dashboard`, `connectors`, `workflows` | a copy of rows, a dialog | read, change, read again | late answers over newer state |
| Ingestion | `api/app/workers/ingestion_worker.py` | `sources`, Qdrant points | fetch, scan, deduplicate, embed, index | two ingestions of the same content, re-index, delete |
| Agent graph | `api/app/services/agent_graph.py`, `graph_policy.py` | the graph state of a run | plan, validate, write, critique, revise, call tools | loops and their limits |
| Retrieval, content checks, analytics, migrations | | | | mostly stateless or I/O |

How they interact: the control-api and the ai-worker write the same PostgreSQL
rows as the control-worker and share no lock; the API pushes jobs on a Redis
list and publishes cancellations on a channel; the scheduler hands rows to Asynq
(Redis); the provider calls the API's webhook. The web application calls the API
through a proxy that owns the session cookie, keeps copies of rows in its pages,
and learns what the workers did by polling. Correctness means: a send that
was approved happens, once per address, within its attempts, and stops where it
may still be stopped; a job that was accepted ends; whatever crashes, nothing
stays in progress for ever; and what a page shows, saves and decides is what the
server has in the end. `PROJECT.json` lists the hazards with their lines.

## 2. Modules

| Module | Models | Kind |
|---|---|---|
| `Delivery` | scheduler, delivery worker, watchdog, the mail provider's outcomes, crashes, timeouts | component |
| `SendControl` | `Delivery` composed with the API handlers and the ai-worker's auto-scheduling, which write the same tables | composition |
| `SendOnce` | what sending promises: withdraw while waiting, one copy per address, sent only when the audience is reached | abstract specification |
| `GenerationQueue` | control-api requests, Redis lists, poll loop, tasks, cancellation, recovery | component |
| `Recipients` | the audience: recipients, links, the public pages, the provider's webhook, and the sends that read and write the same rows | component |
| `Sessions` | one account: its browsers, the proxy with the cookie, the API with its cached token version | component |
| `Assistant` | the chat of one tab, its streams and cards, and the writes of its threads | component |
| `IssueEditor` | the editor page, the API's handlers of one issue with its versions, and the worker that replaces the text | composition |
| `SeriesForm` | the form of a new series, the preview of its dates, and the submission | component |
| `SeriesPage` | EXTENDS `SeriesForm`: the page that opens then, with the server and the worker | composition |
| `Library` | the six list pages | component |
| `MC...` | the same modules with symmetry sets, where they are sound, for TLC | for TLC |
| `DeliveryProofs`, `QueueProofs`, `RecipientsProofs`, `SessionsProofs`, `AssistantProofs`, `EditorProofs`, `SeriesProofs`, `LibraryProofs` | theorems about `Delivery` and `SendControl` with `SendOnce`, `GenerationQueue`, `Recipients`, `Sessions`, `Assistant`, `IssueEditor`, `SeriesPage` with its form, and `Library` | proofs |

### Delivery

One action is one database statement, one mail or one Redis command, because
other processes can act between any two of them. `row` is the `schedules` table
(only rows of one issue; issues do not interfere). `worker[h]` is the run of
`DeliverScheduled` in an Asynq goroutine: `stage` is the next statement,
`verdict` what it decided and has not yet written, `todo` the recipients left,
`erred` whether `firstErr` is set, `ctx` whether the 300 s context is alive.
`processDueJobs` and `enqueueTask` split `held` (claimed, not yet enqueued) and
`bounced` (enqueue failed, row not yet put back). Every failed statement takes
the branch of the code: an error before the mail leaves the row for the
watchdog, a failed lookup mails again, a failed upsert is only logged.

Time is abstract. `due` is `run_at <= now`; `aged` is `claimed_at` or
`started_at` older than 15 minutes. A running row ages only when the context of
its handler is over or the handler is gone, since 300 s end before 15 minutes; a
claimed row whose task is still on its way ages only by a backlog, which counts
as a fault. Losing `issues` rows is left out since no code deletes them.

### SendControl

A request is a record with a stage; a handler is as many actions as it has
statements (`approveIssue`, `setApproved`, `findSchedule`, `updateSchedule` or
`insertSchedule`). `findSchedule` remembers a row and `updateSchedule` writes
it by primary key, whatever it has become: that is the code. The actions of
`Delivery` interleave with them. Editing the text of an issue and cancelling a
generation are not part of this module.

### GenerationQueue

`queue` and `processing` are the two lists, `loop` the poll loop between two
awaits, `task[k]` an asyncio task, `llm` and `running` the fields `_llm_task`
and `_running_jobs` with their overwriting and their removal by key. `gen`
numbers the requests for a target so that the model can tell an old job from a
new one; `lost` remembers for which targets a failure destroyed the last job, or
left it behind in the processing list until the worker starts again (a Redis error
in `_put_back`), so that `JobKept` names the windows and admits no other. For a source, whose
row goes through several statuses, all of them are `"generating"`. Approved and
sent issues do not occur here; the outline leaves both alone.

### Recipients

`rcpt` is the `recipients` table of all workspaces; a row keeps its address for
life and is never used again after it was removed. `links` holds the links in
mailboxes that have not expired: a signature covers purpose, workspace, address
and expiry, so a link passes `verifyPurposeToken` exactly when it is one of
these and agrees with the row the page found. That row is `First(email)`, the
one with the least primary key whatever its workspace, as GORM's `First` has it.
Each statement of a handler is an action, so an event is recorded, looked up,
applied to deliveries and applied to the recipient in four steps. `delivery` is
the row of the current issue; a send is `Delivery` reduced to what it reads and
writes here, with database errors where they change what is mailed twice.
`agreed`, `complained`, `misdirected` and `applied` are histories that only
properties read: `complained` holds the rows that were *mailed* and whose mail had a
final event, whichever row the webhook then found, and `misdirected` those of them
for which it found another.
The series owner, mailed when there is nobody else, is not in this module.

### The modules of the web

A page is a record of what React keeps, and a handler is a request with the
calls it still has to make: between two awaits of one handler any other handler
or the user can act, so a click, each call on the server, and what is done with
each answer are actions of their own. `RequestFails` fails a call before or
after the server did it. The buttons of the pages are guards (`Enabled`,
`CanSend`, `SourceButtons` and so on), which say when each is shown and not
disabled; texts and layout are left out. A history variable (`contended`,
`retimed`, `crossed`, `missed`, `stale`) says where one handler has met another in a way
the code does not handle, see "What the histories leave out" below.

`Sessions`: a token is a version and an age (before or past half of its life);
`HalfLife` is the passing of twelve hours, `CacheTick` the end of the fifteen
seconds of the cached version. A request of the browser comes to the proxy, which first exchanges
an old token: that is a call of its own, which passes the middleware (`Authenticate`,
`FillCache`) like every other, and only then mints (`Refresh`), so that a revocation
can fall between the check and the mint. The middleware lets a token pass when the
database fails. Then come the middleware again for the request itself, its handler,
the proxy, which sets or clears the cookie (`Deliver`), and the context (`Told`). A
sign-in link can expire at any time (`Expire`).

`Assistant`: `tab.msgs` is the list, `streams` the calls of `streamChat` that
have not returned, with the copy of the answer each of them owns, `chain` the
writes that wait for each other, `work` the handlers of the two kinds of card
while they run, `changing` a change of thread.

`IssueEditor`: a content is a number, so that "the same text" can be said. Contents
in `Untidy` are those that `NormalizeContent` changes; the negative number is what it
makes of one (`Normalized`), and `Same` compares two up to that. The send time is an
edit of its own: it sets the dirty mark and leaves the text, and so `contentRef`,
alone. A poll starts whatever is in flight. The API's handlers are cut at their
statements: read, check the status and the content, take a version number, insert the
version, write.

`SeriesForm`: days are numbers and weekdays their remainder by seven, months
have thirty days. `PreviewSendDates` is the page's walk over the days,
`IssueSendTimes` the worker's arithmetic from `FirstSend`, which moves a first send
that is not to come by a day. `SeriesPage` has one row of each
issue and source; the handlers of the API are one step each, since
`GenerationQueue` has their parts.

`Library`: which page is open is chosen once, since the pages share no state.
Where they differ, an action names its page: `addSource`, `openPreview`,
`reindex`, `removeSource` (sources), `handleAdd`, `handleRemove`, `handleResend`,
`toggleSuppressed` (recipients), `retry` (runs), `deleteSeries` (dashboard),
`handleSync`, `handleSaveConfig` (connectors), `assignToSeries`, `runPreview`
(workflows).

## 3. Runs

Bounds are constants named in the modules: `MaxFaults` (faults in a behaviour),
`MaxQueued`, `MaxMails`, `MaxRequests`, `MaxGen`, `Slots`. Refused mails are not
counted as faults.

| Run | Question | Bounds and why they suffice |
|---|---|---|
| `delivery_faults` | does a send keep to the state machine under every fault but a lost answer of an enqueue, and is every row given back or settled? | 1 row, 2 handlers (a race needs two), 2 recipients (one fails, one not), 2 attempts (a first and a last), 1 fault of any kind; no symmetry, since it checks liveness |
| `control_withdraw` | does the send implement `SendOnce` under cancel, pause, delete and changing audiences? | 2 handlers, 2 recipients, a backlog and refused mails |
| `control_races` | do two requests of any kind and a send leave every approved issue with its send? | 2 requests, 2 rows, failed enqueues and crashes |
| `generation_jobs` | is the queue reliable, and does everything accepted end? | a plan, its issue and a source, each requested once, one request at a time and a cancellation, 2 tasks, one fault of any kind; two requests at once, repeated ones and any number of issues are what `QueueProofs` proves the two safety properties for |
| `recipients_events` | do pages, events and sends agree on who may be mailed? | 2 workspaces with 1 address and 2 rows (an address once in each, or twice in one after a removal), 2 requests at a time of 3 (an event, its replay and the restore between them), 1 fault, 1 mail to each row |
| `recipients_message_ids` | do terminal events stop sends when the provider names no events? | as `recipients_events` with no `event_id`, 2 requests and no fault; a violation is expected |
| `sessions_slide` | does an active session slide, and does a revoked one end? | 1 browser, 2 requests at a time (a refresh beside anything), 2 versions, a link that may expire, a fault |
| `assistant_cards` | do the writers of the conversation respect each other? | 2 threads, both kinds of card, 5 messages (a question, its answer with a card, a result and its answer, and one more), a fault, a change of thread |
| `issue_edit` | is what is shown saved, and what is shown used? | 2 handlers at a time, the first text and 2 more, one of them changed by the server, 2 send times, 2 clicks of the nine buttons, a failed request |
| `series` | does a valid form become a page that shows what the server has? | 3 weekdays and 3 cadences, all 4 durations, 2 issues and a source, 1 click of the eleven buttons on top of the polls, a failure |
| `library_pages` | do lists and previews survive late answers? | 2 rows, 2 handlers at a time, 2 clicks, a failure, every page |

`DuplicatesCostFaults` relates the copies in an inbox to the faults so far:
refused mails, retries, deferrals and duplicate tasks never duplicate a mail,
and a fault costs at most one copy per address. An enqueue that
fails is one of the faults; one whose task reaches Redis although its answer is lost
(`"lost_enqueue"`) is not in `delivery_faults`, because the put-back after it is
not conditional (scheduler.go:166): it revives a row that was sent or cancelled meanwhile, against
`TerminalIsFinal` and delivery.go:120-123.

Two runs state what a comment of the code says and fail:

- `control_approve_again`: approving again, or rescheduling, resets a row that has
  begun to run, and a second handler mails beside the first.
- `recipients_message_ids`: without an `event_id` the events of a mail share its
  message id (handlers_webhooks.go:83). A mail goes out, its first event is recorded, and the
  hard bounce after it is dropped as a replay, so that its recipient stays active:
  "terminal events that must stop future sends" (handlers_webhooks.go:40) do not. With an
  `event_id`, `TerminalEventsStopSends` still fails where two workspaces have
  the same reader: the webhook takes the first row with the address
  (handlers_webhooks.go:148), suppresses that one, and the workspace that sent the mail goes
  on. `FinalEventSuppresses`, which `recipients_events` checks, excepts such rows
  (`misdirected`).

Of the properties of the web, these are worth a word:

- `FirstVisitAccepted`: the effect of the magic-link page runs more than once, and
  the second use of a link is refused; the mark in `request.current` is what
  keeps the page from showing an error to a user it has signed in. The property is
  about the acceptance only: the `me` that was sent when the page was mounted may be
  refused after the link was accepted, and then takes the new cookie and the user away.
- `RevokedStops` is about tokens, and about the end: a version that is read before a
  revocation can be cached after it, so for some seconds an old token passes; in the
  end none does, neither for a request nor for an exchange. It is not about sessions. While
  the old version is cached, an old token may be exchanged, and the fresh one
  has the new version (handlers_auth.go:29-38); a password change or a revocation in that time
  answers with such a token too. A session that was revoked goes on then,
  against auth.go:25-26 and route.ts:16-17, which say that revocation reaches it.
- `LastSaveWins`, `NothingLost`, `DecidedStays`: every write carries the whole
  list, so the order of writes decides what is left of the conversation. `DecidedStays`
  is about every step, crossed or not, and names the two in which the page makes a
  decided card pending again (`MayForget`), against useAssistantChat.ts:149-152: a stream that
  is still open commits its own copy of the message (428, 432), or a list is shown that was read
  without the decision.
- `SavedWhenClean` and `EditsSaved` are two sides of one comparison
  (page.tsx:229): a save that was overtaken by typing must neither call the new
  text saved nor stop the timer that will save it. The comparison is of texts: a send
  time that is changed during a save (827-830) is called saved, and its timer is
  stopped. `SavedWhenClean` names that case (`retimed`), and `EditsSaved` says nothing
  of it, since the mark is gone. The texts agree up to what `NormalizeContent` changes.
- `DraftRestorable`: whatever a regeneration or a restore replaces was kept as a
  version before, although autosaves keep none for ten minutes.
- `PreviewIsSchedule` is about the daily cadence, and about the weekly ones where the
  only weekday is that of the start: the preview is the schedule when the start is
  to come, and a day early for each issue when it is not, which nothing in the form
  prevents (the date has no `min`). For several weekdays, which is the form's default, and
  for months the preview and the worker disagree, see below.
- `PlanShown`, `PageIsCurrent`: the polls stop when they should and not before.

### What the histories leave out

The code does not handle every overlap, and the properties say so with a history
variable. What happens there, found with the models:

- Assistant (`crossed`): a stream puts its own copy of the answer back, so that a
  card approved while it streams is pending again (`DecidedStays` names it); a thread made slowly while a
  message is sent takes that message with it; a result is told in whichever
  thread is shown; the end of an aborted stream clears the mark of the next; a
  page reloaded during an action leaves its card executing.
- Issue editor (`contended`): a page may approve while it generates; a text typed
  during a generation is saved over its result; two saves of the page arrive in
  any order, or take the same version number and one fails; cancelling reads the
  issue again and drops what was typed; restoring goes on when the draft could
  not be saved; a cancelled generation, and one that ended before the page's
  first poll, leaves `generating` set. A failed save leaves a text that no version
  has and that a regeneration then replaces.
- Issue editor (`retimed`): a send time that is changed while a save runs is marked
  saved and is not saved until something else is edited (page.tsx:229, 827-830).
- Recipients (`misdirected`): an event of a mail is applied to the first row with its
  address, so that the workspace that sent the mail goes on; a link is refused when
  the other workspace's row with the same reader comes first.
- Series page (`missed`): lists that were asked for by two handlers are shown in
  the order they come; an issue that is made by hand while the plan is under way
  ends the poll for the others. A late brief (`overtaken`) changes a form that
  was validated before. `send_days` is stored and previewed, but the send times
  are steps from the first date, which `_first_send` moves when it is not to come
  (issue_schedule.py:44-52). A failed pause, retry or test mail replaces
  the page by its error.
- List pages (`stale`): a list that was read before a deletion shows the row
  again; the result of a workflow's preview appears under the workflow picked
  since; saving one connector's key closes the dialog of another.
- Sessions: a refusal of a request sent before a sign-in clears the new cookie, the
  `me` of the magic-link page among them; a refresh under way during a sign-out brings
  the cookie back; a token slid late, of the old version, overwrites the cookie
  that a revocation or a password change has set; a revoked session that was exchanged in
  time goes on, see above; two uses of one
  sign-in link, or of one reset token, at the same moment both succeed
  (user.go:501, 549); a failed `BumpTokenVersion` is ignored.

More behaviours show in the older modules and have no run, since the repository's
words can be read either way, or since a property would restate the code: a
crash on the last attempt leaves a pending row with no attempt left, which is
neither sent nor failed (`EventuallySettled` counts it as ended); rescheduling an
issue that was never approved
inserts a row that will be sent; a recipient suppressed while a send is under
way is still mailed, because the audience is read once; a send that outlives
both its context and the watchdog's 15 minutes is mailed by two handlers at once
(`LiveSenderOwnsRow` is about handlers whose context is alive); a finished send
marks its issue sent, whatever it has become; a paid
generation hides a running free one from the gate (`MustWait`); a plan job can
reach the worker before its plan is marked generating and is then skipped; a
Redis error in `_put_back` leaves a job in the processing list until the worker
starts again (`JobKept` and `AcceptedJobsEnd` count it as `lost`); nothing gives up an
ingestion that stopped; and an event that was recorded and not applied is dropped
when the provider repeats it (`FinalEventSuppresses` is about behaviours without a
fault).

### Fairness

`Delivery!Fairness`: the scheduler and the watchdog are tickers, goroutines go on
until they return, time passes, so each is weakly fair. A waiting task is taken
with strong fairness, because Asynq is first in first out and a handler becomes
free again and again. Faults, crashes and requests are never fair.
`GenerationQueue!Fairness`: the event loop serves the poll loop, every task and
the cancel listener; the container is restarted after a stop; requests in
progress are served; the watchdog ticks.
The modules of the web: requests are answered and effects run, each weakly fair;
timers tick as long as what they poll for is shown, and since a handler
may be running whenever they do, they are strongly fair. A hidden tab stops the
timer of the Run Center; it is taken to be shown again. The user, faults and
failures are never fair.

## 4. Proofs

`DeliveryProofs` proves for every set of rows, loops, handlers and recipients,
every `max_attempts` and any number of faults:

- `TypeCorrect`: `Spec => []TypeOK`, and `AttemptsBudget`:
  `Spec => []AttemptsWithinBudget`. They come from one inductive invariant,
  `Typed`, that adds to both that a handler about to settle holds one of the
  verdicts a send can end with; without it `settle` could write anything.
- `LiveSendKeepsRow` and `NoSecondLiveSend`, assuming that no enqueue fails:
  `Spec => []LiveSenderOwnsRow` and `Spec => []OneLiveSender`. The inductive
  invariant `Locked` has both, because they hold each other up (only the one
  live sender of a row may move it out of running), and that a running row with a
  live sender is not aged, so that the sweep leaves it. `NothingBounced` says that no
  put-back is under way, which is where the assumption enters:
  the put-back is not conditional, so it cannot be dropped.
- `SuccessReachesAll`: `Spec => []FinishedRunReachedAll`. `AllReached` adds what
  the loop has done so far: a submitted row, an accepted mail and every address
  no longer in `todo` of a run without an error have a copy in the inbox.
- `CopiesWithinAttempts`: `Spec => []OneCopyPerAttempt`, with every fault and without
  an assumption: an address holds at most one copy for each attempt its row has
  begun. `WithinAttempts` bounds the copies together with the runs that may
  still mail the address by the attempts that were counted in preflight.
- `TerminalStatusIsFinal` and `FaultsPayForCopies`, assuming that no enqueue fails:
  `Spec => TerminalIsFinal` and `Spec => []DuplicatesCostFaults`. The first needs that
  a row settled by a live handler is `Locked` to it and that no put-back is under way.
  The second is an account, `CopiesPaid`: the copies of an address, the runs whose
  context is over and that may still mail it (`Strays`), and one more if nothing
  keeps the next run from mailing it (`Covered` is false) never exceed one more than
  the faults. A mail turns one of these into a copy, and each step that opens
  the account again (an answer lost, a record not written, a crash, an expired
  context) is a fault.

The assumption of the last two is not for convenience. `TerminalIsFinal` is
false with `"lost_enqueue"`, see above; and `DuplicatesCostFaults`, which holds in
`delivery_faults` where an enqueue may fail, fails with five attempts, a lost enqueue
and a refused mail: the put-back takes the row from a live handler, and the row is
claimed while that handler mails, so that two copies cost one fault or none. TLC
shows it in about 50 steps with `MaxAttempts = 5` and `MaxFaults = 1`. What holds
however enqueues fail is `CopiesWithinAttempts`.

About `SendControl`, `DeliveryProofs` proves for every set of rows, requests, handlers and recipients:

- `ControlTypeCorrect`: `ControlSpec => []ControlTypeOK`.
- `ApprovedIsSent`: `ControlSpec => []ApprovedHasSchedule`, for all operations and any
  number of requests at once. The issue's status and its rows are written by separate
  statements of several requests, so the invariant speaks of what is about to be
  written too; `CancelsDeleted` adds that a send only cancels its row on its own
  when the series is deleted, which excuses the issue.
- `SendsOnce`: `ControlSpec => ImplementsSendOnce`, the refinement of `SendOnce`: the
  initial states map to initial states, and under `Steady` every step maps to a step
  or a stutter. It assumes what `control_withdraw` has: nothing but refused
  mails and a backlog fails, and the operations are cancel, pause, delete and changes
  of the audience. Both are what `SendOnce` promises: a crash between a mail and its
  record costs a second copy, and approving again (`control_approve_again`) is a second
  send. `Steady` has `Locked`, `AllReached`, `OneCopy`, which says that an address has
  no copy as long as a run may mail it and one at most afterwards, and
  `OnlyWithdrawals`, that what the requests have in hand can only withdraw.

`QueueProofs` proves for any number of tasks, requests, issues, sources and faults:

- `QueueTypes`: `Spec => []TypeOK`.
- `NoJobTwice`: `Spec => []OneTaskPerJob`. `Places` says where a job can be: in one
  place among the queue, the processing list, a put-back, a request that is about to
  push it and the jobs a plan has committed and not pushed (`OnePlace`); a job in work is
  on the processing list and in the hands of one task, or of the loop (`OneWorker`);
  none has a number that no request has given out
  (`NoneFuture`), so that what is pushed is new everywhere. While the worker recovers
  it has no task, so that what recovery requeues is nobody's. `OfPlan` says that
  only jobs of the plan make issues.
- `JobsKept`: `Spec => []JobKept`. Most steps move the last job of a target
  from one place to another (`Keeping`) or settle the target. The finalizer does
  neither: it takes the job off the processing list, and that is sound because a task
  whose handler has returned owes nobody a result (`EndsSettled`), which
  `NoneFuture` keeps true when the target is requested anew.

The proof is why `todo` holds the jobs of a plan as the transaction built them:
with the issues alone in it, a job would take the number of a request made between
the commit and its push, which the code cannot do.

`RecipientsProofs` proves every property of `recipients_events` for every table,
any number of workspaces, addresses, requests and faults:

- `RecipientsTyped`: `Spec => []TypeOK`. It needs that some row with an address
  comes first (`FirstIsLive`), which is where `Ids \subseteq Nat` is used.
- `DoubleOptIn`: `Spec => []MailedAgreed`. `OptedIn` says that ids are only
  handed on, from a page that matched a link to `verified`, to the audience of a
  send and to the mail, and that each holder has only rows whose reader agreed.
- `ReplaysDropped`: `Spec => []AppliedOnce`. `Once` says that the external ids of
  the events in hand are recorded, differ from each other and from those applied;
  it does not depend on `OwnEventId`.
- `ComplaintsSuppress`: `OwnEventId => (Spec => []FinalEventSuppresses)`. `Traced`
  says that, while nothing fails, an external id that is recorded is that of an event that
  was applied or is in hand, so that what is dropped is a replay; that needs a
  provider that names its events, and `recipients_message_ids` shows that it cannot be
  dropped. `Caring` adds that a recipient with a complaint is still there. Rows whose
  event met another row (`misdirected`) are excepted, so the theorem promises nothing
  to the second of two workspaces with the same reader.
- `DeliveredStays`: `Spec => DeliveredIsFinal`. `OwnRows` and `Fresh` say that two
  sends never have the same row and that, while nothing fails, a send mails only
  rows without an accepted mail, so its late record cannot hit a confirmed one.

`SessionsProofs` proves both safety properties of `sessions_slide` for any number of
browsers, requests, links, visits, versions and faults:

- `ActiveStays`: `Spec => ActiveStaysSignedIn`. `Sliding` says of each open request of
  a browser whose cookie is old that the request has slid it, is about to try, had a fault, is a
  sign-out, or can no longer slide it, since the session is over; and that a browser
  which was served is in none of these states but the last. That a refused
  refresh means the session is over, although the middleware decides by a cached version,
  is `NotAhead`: an old cookie is never newer than what the cache has, or a late
  read is about to put in it.
- `FirstVisit`: `Spec => []FirstVisitAccepted`. `Linked` says that a tab on the page of a
  link has no request but its own, and that its `verify` is of the link in its
  address. `Opened` counts visits: before the first, nobody has the link; after it,
  one tab and at most one request do (`OpenedOnce`), and that request is on its way to
  an answer that succeeds (`Works`), unless the link expires first.
- `SessionsTyped`: `Spec => []TypeOK`. That the versions stay in range counts the open
  requests that are still to raise the version (`Room`), which is why `Requests` is
  assumed finite.

The proof of the first corrected the model. With two browsers, a deletion whose
`BumpTokenVersion` is lost leaves the version as it was; the other browser's
requests then pass by the cached version while its refresh is refused, since the account
is gone, and half a lifetime later it is signed out. That is what should happen, so
`ActiveStaysSignedIn` now excepts a deleted account as well as a revoked session.
`sessions_slide`, with one browser, could not show it.

`AssistantProofs` proves every property of `assistant_cards` but the liveness one, for
any number of threads, messages, faults and changes of the thread:

- `ChatTyped`: `Spec => []Typed`. Ids are numbers below `nextId`, and no list holds one
  twice (`Once`): it is by an id that a stream finds its message, a decision its card
  and the server a row, so that each of these touches one message.
- `LastOneWins`: `Spec => []LastSaveWins`, whatever the user does meanwhile. `Ordered`
  says that the newest write of each thread in the chain is the last list queued
  for it, and that a thread with none has that list on the server; `Placed`, that
  every handler works on a conversation that exists or on none of the server's, and
  that a thread nobody made has nothing written.
- `StopWorks`, `SaidIsKept` and `DecisionIsKept`: `Spec => []StopReachesStream`,
  `NothingLost` and `DecidedStays`. The first two come from one invariant, `Alone`, about
  behaviours where nothing unfinished is crossed. `Calm` says what that is: a thread is
  changed only when nothing waits, and at most one card and one open
  stream are at work. From it follow that there is one stream, for the thread that is
  shown, whose controller the page holds (`Reach`); that what was said grows along
  rows, chain and page (`Grows`); and that what would be read back has every decision
  the page shows (`Decisions`). `Reach` is where the order of the chain is
  needed: a stream that ended waits for its write, and a card may be waiting for one too;
  a second stream cannot start since that one is behind it (`Ahead`).
  `Remembers` is what a step keeps, from which `NothingLost` follows, and `DecidedStays`
  for what has not crossed. `DecisionIsKept` needs more, since it is about every
  step: whatever has crossed, a card marks and appends (`CardsKeep`), a stream touches
  no message but the one it has the copy of, which is `Asks` (`StreamsKeep`), and a step
  that shows another list ends a change of thread or starts one (`ShownChanges`);
  `DecisionsLast` puts them together.

`EditorProofs` proves the three invariants of `issue_edit` for any number of
handlers, contents, clicks and failures:

- `EditorTyped`: `Spec => []Typed`. Contents are numbers below `nextDraft` and their
  negatives (`Known`), so that a new text differs from every other and from what the
  server has made of it; and each request is at a step its call takes.
- `CleanIsSaved`, `ShownIsUsed` and `ReplacedIsKept`: `Spec => []SavedWhenClean`,
  `[]FlushedBeforeUse` and `[]DraftRestorable`. All three come from one invariant,
  `Watched`: until handlers overlap (`contended`), the page is `Attended` and `Dated`.
  Attended, at most one handler is active, and `Proper` says what it may rely on at
  each of its steps: a save has the text that is shown, unless it was typed since, and
  then the page is marked (`Saving`); an answer on its way is still true, or a generation is
  under way (`Getting`); what is approved or tested is the text of the row (`Using`);
  what is replaced is the text of the row, and once it is written over, a version
  (`Replacing`). And a page that is clean shows the text of the row, up to what the
  server normalizes (`SameAsSaved`), except between a restore and the read after it. That one
  handler is active is not given: `StaysAlone` derives it, from the step not being
  `Contending`. `Dated` says the same of the send time, as far as `retimed` allows:
  the time a save or an approval carries is the page's, and what was answered is the
  row's. It rests on `Attended`, which does not rest on it, so the two are proved one
  after the other.

`SeriesProofs` proves `SubmissionsValid`, `Spec => ValidWhenSubmitted`, for every
set of dates, weekdays and cadences and every bound. `ValidWhenSubmitted` alone is
not inductive: the button of the last step validates only that step. `StepsValid`
adds that every step before the one that is shown is valid: going on validates what
it passes, going back validates nothing but leaves less before it, and a
field is changed in its own step, which is never before itself. A brief that answers
late writes the topic from wherever the form is; `overtaken` marks
it and excuses that submission. The rest of `SeriesPage` leaves the form alone.

It also proves `PageCurrent`, `Spec => []PageIsCurrent`, for any number of issues,
sources, handlers and clicks. `Current` is the strengthening: while no call has
failed, each part of the page is right or due. The issues, the sources and the plan are
*right* when they are the server's, or when what is shown sets a poll; they are
*due* when the handler that runs is about to read them, or has changed them and reads
next. What the server does meanwhile keeps them so: it only changes an item that
is busy, which the page shows busy or reads, or makes the issues of a plan, for which
a page without issues polls. `Shaped` holds what this needs of the
handlers, for lists of calls of any length: whoever changes issues or sources reads
them back in the next call (`ReadsBack`), and opening reads everything
(`Opening`). `Early` says that the server has no issues before the page opens, and
`Alone` turns `missed`, a history variable, into what it records: at most one
handler, and no issues before those of the plan. `handleRetryFailedIssues` gives the
list of its calls by its elements, so that its length need not be bounded.

And it proves `PreviewAgrees`, `Spec => []PreviewIsSchedule`, for every start, set of
weekdays and cadence and any number of weeks. `PreviewSendDates` is a recursive function
of at most six dates; that one exists and has the values its definition says is
shown from its dates themselves (`PreviewIs`, `PreviewRight`), and each of them follows from
the one before (`FirstDate`, `NextDate`), so that no induction is needed. `ScheduleIs`
says what the worker makes of the same form when the plan is made at a given time, with its
first send moved or not.

`LibraryProofs` proves `ChunksBelong`, `Spec => []ChunksOfPreview`, for every set of
sources and any number of handlers and failures. `OwnNumber` says that the calls in
flight for chunks bear numbers no larger than the last one given out, and that a call
with the last number is for the source that is open. Opening and closing a preview
both give out a new number, so whatever was in flight is stale from then on
(`StillFits`); an answer with a stale number shows nothing (`ToldFits`).

It also proves `ListsAreCurrent`, `Spec => []ListIsCurrent`, for every page, number of
rows, handlers and clicks. `Shaped` says what a handler may be made of: either one
call whose effect the page can show on its own copy, or one whose effect it cannot,
and then a reading follows it. `Current` is the strengthening: each row and each tie of
the view, and of every list on its way that is not old, is right, or it is due to be
made right by a handler that is sure to read (`WillRead`), has read (`HasRead`), or
has done the change and is about to put it in (`HasDone`). A row shown as being
indexed counts as right, since the timer of the sources reads as long as one is
shown. An answer may discharge what others rely on only if it repairs it itself, and
that fails when an old list arrives after a newer one: that is what `stale` excuses.

Of the type invariants only that of `Delivery` is in a run. Those of `Delivery`,
`SendControl`, `GenerationQueue`, `Recipients` and `Sessions` are proved; those of the other modules, which have bounds in
them, are written for the reader, and the proofs have their own that hold without
(`Typed`, `Shaped`).

Each preservation proof has one step for each action, or for each group of
actions that leave its invariant's variables alone. Every invariant and every action
property of the runs that must pass is proved. The liveness properties are
checked by TLC only, because liveness is out of the prover's reach.

## 5. What could come next

- `Ingestion`: statuses, duplicate detection, re-index and delete.
- The limits of the agent graph, and the pacing of model calls.
- The content preferences of the settings page: a failed load shows empty
  preferences, and saving them then erases the stored ones.
- An abstract specification of a generation, accepted and then settled once, that
  `GenerationQueue` implements as `SendControl` implements `SendOnce`.

## 6. Not modelled

Rendering of mails, prompts and model calls (their outcome is a choice), Qdrant
and ranking, analytics, logging, rate limits, and of the web what only draws. The
alert mail to the owner changes no state and is left out; so is the page that
asks an unsubscriber to confirm.
The retry and dead-letter branches of the ai-worker's finalizer are left out
because every handler catches its exceptions, so that none reaches it. An
ingestion is a job with a final status; two ingestions of the same content
may each miss the other (ingestion_worker.py:285), which no module shows. New
issues take `MAX + 1` as their sequence number (handlers.go:469) in one step here.
