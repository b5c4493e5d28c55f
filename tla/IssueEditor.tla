----------------------------- MODULE IssueEditor -----------------------------
(***************************************************************************)
(* The page that edits one issue (issues/[id]/page.tsx): its autosave, its   *)
(* buttons and its polling, against the handlers of the control-api that     *)
(* read the row, keep a version of it and write it in separate statements,   *)
(* and against the worker that replaces the content.                        *)
(*                                                                         *)
(* A content is a number, a new one for each edit and each generated draft;  *)
(* 0 is no content, and -c is c as the server normalizes it.  The send time  *)
(* is one of Times, set and not past.  No code locks an issue, so that the   *)
(* checks for a locked one are left out.                                     *)
(***************************************************************************)
EXTENDS Integers, FiniteSets, SequencesExt

CONSTANTS
  Requests,     \* handlers of the page that run at a time
  Handlers,     \* the buttons that are used
  Times,        \* send times
  Untidy,       \* the contents that NormalizeContent changes
  MaxFaults,    \* bound: requests that fail
  MaxDrafts,    \* bound: contents
  MaxClicks     \* bound: clicks of buttons

Flushing == {"generate", "restore", "approve", "test"}    \* they save the edits first
Buttons == Flushing \union {"save", "leave", "reschedule", "cancelSend", "cancelGeneration"}

ASSUME IssueEditorAssumption ==
  /\ Requests # {} /\ Handlers \subseteq Buttons /\ 0 \in Times
  /\ Untidy \subseteq Nat \ {0}
  /\ MaxFaults \in Nat /\ MaxDrafts \in Nat \ {0} /\ MaxClicks \in Nat

VARIABLES
  issue,      \* the row of the issue
  versions,   \* issue_versions, by number
  recent,     \* the last version is younger than minAutosaveSnapshotGap
  job,        \* the worker has the issue
  page,       \* the state of the page
  req,        \* the handlers of the page that run, each with its request
  nextDraft, faults, clicks,
  contended,  \* history: writers overlapped, or the page missed a change
  retimed     \* history: the send time was changed while a save ran

vars == <<issue, versions, recent, job, page, req, nextDraft, faults, clicks, contended, retimed>>

Contents == (-MaxDrafts)..MaxDrafts
Statuses == {"pending", "generating", "ready", "failed", "approved", "sent"}
Calls == {"save", "get", "generate", "restore", "approve", "test", "reschedule",
          "cancelSend", "cancelGeneration"}
Idle == [handler |-> "none", call |-> "get", stage |-> "none", shown |-> 0, body |-> 0,
         at |-> 0, seen |-> 0, was |-> "pending", number |-> 0, ok |-> FALSE]
Away == [open |-> FALSE, content |-> 0, at |-> 0, status |-> "pending", dirty |-> FALSE,
         timer |-> FALSE, generating |-> FALSE]

(* What the variables can hold. *)
TypeOK ==
  /\ issue \in [content : Contents, at : Times, status : Statuses]
  /\ versions \in Seq(Contents \ {0})
  /\ {recent, job, contended, retimed} \subseteq BOOLEAN
  /\ page \in [open : BOOLEAN, content : Contents, at : Times, status : Statuses,
               dirty : BOOLEAN, timer : BOOLEAN, generating : BOOLEAN]
  /\ req \in [Requests -> [handler : Buttons \union {"none", "open", "auto", "poll", "gone"},
                           call : Calls,
                           stage : {"none", "read", "number", "insert", "write", "answer"},
                           shown : Contents,    \* the content at the click
                           body : Contents,     \* of a save, or the version to restore
                           at : Times,          \* the send time it has, or got
                           seen : Contents, was : Statuses,   \* the row as it was read
                           number : 0..(Len(versions) + 1), ok : BOOLEAN]]
  /\ nextDraft \in 1..(MaxDrafts + 1) /\ faults \in 0..MaxFaults /\ clicks \in 0..MaxClicks

Running(h) == {r \in Requests : req[r].handler = h}
Active == {r \in Requests : req[r].handler # "none"}

-----------------------------------------------------------------------------
(* The page. *)

Editable == page.status # "sent"

(* Bound: room for the drafts the worker may still bring. *)
Expected == (IF job THEN 1 ELSE 0)
  + Cardinality({r \in Requests : "generate" \in {req[r].call, req[r].handler}})

(* Bound: once handlers overlap the user only watches; the properties speak *)
(* of the others.                                                           *)
Acts == page.open /\ ~contended

(* Edits are possible whatever the page waits for, and also when they cannot *)
(* be saved: no field of the editor is disabled.                            *)
EditorTabs == Acts
updateContent(c) == [page EXCEPT !.content = c, !.dirty = TRUE, !.timer = TRUE]
setScheduledAt(t) == [page EXCEPT !.at = t, !.dirty = TRUE, !.timer = TRUE]
Edit ==
  /\ EditorTabs /\ nextDraft + Expected <= MaxDrafts
  /\ page' = updateContent(nextDraft)
  /\ nextDraft' = nextDraft + 1
  /\ UNCHANGED <<issue, versions, recent, job, req, faults, clicks>>

Begin(r, h, call, b) ==
  req' = [req EXCEPT ![r] =
    [Idle EXCEPT !.handler = h, !.call = call, !.stage = "read",
                 !.shown = IF req[r].handler = h THEN req[r].shown
                           ELSE IF h \in Flushing THEN page.content ELSE 0,
                 !.body = b,
                 !.at = IF call = "get" THEN 0
                        ELSE IF req[r].handler = h THEN req[r].at ELSE page.at]]
NotServer == UNCHANGED <<issue, versions, recent, job, nextDraft, faults>>

Clicked == Acts /\ clicks < MaxClicks /\ clicks' = clicks + 1

(* The field of the send time; it counts as a click.                        *)
EditTime(t) ==
  /\ EditorTabs /\ Clicked
  /\ t # page.at /\ page' = setScheduledAt(t)
  /\ UNCHANGED req /\ NotServer

(* loadIssue when the page opens. *)
Open(r) ==
  /\ ~page.open /\ req[r].handler = "none" /\ Running("open") = {}
  /\ Begin(r, "open", "get", 0)
  /\ UNCHANGED page /\ NotServer /\ UNCHANGED clicks

(* saveIssue(true) by the timer; a later edit starts the timer again.       *)
Autosave(r) ==
  /\ page.dirty /\ page.timer /\ Editable /\ req[r].handler = "none"
  /\ page' = [page EXCEPT !.timer = FALSE]
  /\ Begin(r, "auto", "save", page.content)
  /\ NotServer /\ UNCHANGED clicks

(* A poll of an issue that is generated: the interval starts one whether or  *)
(* not the one before was answered.                                         *)
Poll(r) ==
  /\ page.open /\ page.status = "generating"
  /\ req[r].handler = "none"
  /\ Begin(r, "poll", "get", 0)
  /\ UNCHANGED page /\ NotServer /\ UNCHANGED clicks

(* The buttons the page shows and enables: in its header, over a generation, *)
(* and for a version of the panel.                                          *)
Generating == page.generating \/ page.status = "generating"
Restorable ==
  IF Editable /\ Running("restore") = {} THEN ToSet(versions) \ {issue.content} ELSE {}
Enabled(h) ==
  CASE h = "save" -> Editable /\ Running("save") = {}
    [] h = "leave" -> TRUE
    [] h = "generate" -> ~Generating /\ Editable
    [] h = "test" -> Running("test") = {} /\ ~Generating
    [] h = "approve" -> page.status \notin {"approved", "sent"}
    [] h \in {"reschedule", "cancelSend"} -> page.status = "approved"
    [] h = "cancelGeneration" -> Generating
    [] h = "restore" -> Restorable # {}

(* The rest of generateIssue sets the page to generating before it asks.    *)
Calling(h) == [page EXCEPT !.generating = @ \/ h = "generate"]

(* A click.  Edits that are not saved are saved first by some handlers;     *)
(* saveIssue saves nothing of an issue that is not editable.                *)
Click(r, h) ==
  /\ h \in Handlers \ {"save", "leave"}
  /\ req[r].handler = "none" /\ Enabled(h) /\ Running(h) = {}
  /\ h = "generate" => nextDraft + Expected <= MaxDrafts
  /\ IF page.dirty /\ h \in Flushing
     THEN /\ Editable \/ h = "restore"
          /\ Begin(r, h, "save", page.content) /\ UNCHANGED page
     ELSE /\ page' = Calling(h)
          /\ \E b \in IF h = "restore" THEN Restorable ELSE {0} : Begin(r, h, h, b)
  /\ Clicked /\ NotServer

SaveDraft(r) ==
  /\ "save" \in Handlers
  /\ req[r].handler = "none" /\ Enabled("save")
  /\ Begin(r, "save", "save", page.content)
  /\ UNCHANGED page /\ Clicked /\ NotServer

(* What runs for a page that is left goes on without it. *)
Orphans == [r \in Requests |->
  IF req[r].handler = "none" THEN Idle
  ELSE [req[r] EXCEPT !.handler = "gone", !.shown = 0]]

(* navigateAway: with the edits saved, or dropped. *)
Leave(r) ==
  /\ "leave" \in Handlers /\ req[r].handler = "none"
  /\ \/ page' = Away /\ req' = Orphans
     \/ /\ page.dirty /\ Editable
        /\ Begin(r, "leave", "save", page.content) /\ UNCHANGED page
  /\ Clicked /\ NotServer

(* What the page does with an answer: loadIssue, the poll, saveIssue and    *)
(* generateIssue.                                                           *)
Loaded(q) == [Away EXCEPT !.open = TRUE, !.content = q.seen, !.at = q.at,
                          !.status = q.was, !.generating = page.generating]
(* Mutant: the poll takes the content and forgets the status. *)
PolledContent(q) == [page EXCEPT !.content = q.seen, !.generating = FALSE]

Polled(q) == IF q.was = "generating" THEN [page EXCEPT !.status = q.was]
             ELSE [Loaded(q) EXCEPT !.generating = FALSE, !.at = page.at]
(* Mutants: whatever was typed since is called saved; and the timer that a   *)
(* later edit started is lost with the answer.                               *)
SavedAlways(q) ==
  [page EXCEPT !.status = q.was, !.dirty = FALSE, !.timer = FALSE]
SavedWithoutTimer(q) ==
  [page EXCEPT !.status = q.was, !.dirty = @ /\ page.content # q.body, !.timer = FALSE]

(* What is compared is the content: a send time that was changed meanwhile  *)
(* is called saved, and its timer ends.                                     *)
Saved(q) == LET clean == page.content = q.body IN
  [page EXCEPT !.status = q.was, !.dirty = @ /\ ~clean, !.timer = @ /\ ~clean]

Told(q) ==
  CASE q.call = "get" /\ q.ok -> IF q.handler = "poll" THEN Polled(q) ELSE Loaded(q)
    [] q.call = "save" /\ q.ok -> Saved(q)
    [] q.call = "generate" -> IF q.ok THEN [page EXCEPT !.status = "generating"]
                              ELSE [page EXCEPT !.generating = FALSE]
    [] OTHER -> page

(* Mutant: approving goes on when the edits could not be saved. *)
NextCallUnsaved(q) ==
  CASE q.call = "save" /\ q.handler \in Flushing -> {q.handler}
    [] q.call \in {"restore", "cancelSend"} /\ q.ok -> {"get"}
    [] q.call = "cancelGeneration" -> {"get"}
    [] OTHER -> {}

(* What a handler does after its answer: approving and testing need the     *)
(* edits saved, generating and restoring go on without.                     *)
NextCall(q) ==
  CASE q.call = "save" /\ q.handler \in {"approve", "test"} /\ q.ok -> {q.handler}
    [] q.call = "save" /\ q.handler \in {"generate", "restore"} -> {q.handler}
    [] q.call \in {"restore", "cancelSend"} /\ q.ok -> {"get"}
    [] q.call = "cancelGeneration" -> {"get"}
    [] OTHER -> {}
Leaves(q) == q.ok /\ (q.call = "approve" \/ q.handler = "leave")

Answer(r) ==
  LET q == req[r] IN
  /\ q.stage = "answer"
  /\ IF q.handler = "gone" THEN req' = [req EXCEPT ![r] = Idle] /\ UNCHANGED page
     ELSE IF Leaves(q)
     THEN page' = Away /\ req' = [Orphans EXCEPT ![r] = Idle]
     ELSE IF NextCall(q) = {}
     THEN page' = Told(q) /\ req' = [req EXCEPT ![r] = Idle]
     ELSE \E c \in NextCall(q) :
            /\ page' = [Told(q) EXCEPT !.generating = @ \/ c = "generate"]
            /\ \E b \in IF c = "restore" THEN ToSet(versions) ELSE {0} :
                 Begin(r, q.handler, c, b)
  /\ NotServer /\ UNCHANGED clicks

-----------------------------------------------------------------------------
(* The handlers of the control-api. *)

Refuse(r) == req' = [req EXCEPT ![r] = [@ EXCEPT !.stage = "answer", !.ok = FALSE,
                                       !.seen = 0, !.was = "pending", !.number = 0]]
Go(r, s) == [req[r] EXCEPT !.stage = s, !.seen = issue.content, !.was = issue.status,
                           !.at = IF req[r].call = "get" THEN issue.at ELSE @]

(* loadWorkspaceIssue and the checks on what it read; those that change     *)
(* nothing answer at once.                                                  *)
Refused(c) ==
  CASE c \in {"restore", "reschedule"} -> issue.status = "sent"
    [] c = "approve" -> issue.status \notin {"ready", "approved"} \/ issue.content = 0
    [] c = "cancelSend" -> issue.status = "sent"
    [] c = "cancelGeneration" -> issue.status # "generating"
    [] c = "test" -> issue.content = 0
    [] OTHER -> FALSE
AnswersAtOnce(c) == c \in {"get", "test"} \/ (c = "generate" /\ issue.status = "generating")

ReadIssue(r) ==
  LET c == req[r].call IN
  /\ req[r].stage = "read"
  /\ IF Refused(c) THEN Refuse(r)
     ELSE req' = [req EXCEPT ![r] =
            IF AnswersAtOnce(c) THEN [Go(r, "answer") EXCEPT !.ok = TRUE]
            ELSE Go(r, IF c \in {"save", "restore", "generate"} THEN "number" ELSE "write")]
  /\ UNCHANGED <<issue, versions, recent, job, page, nextDraft, faults, clicks>>

(* Mutant: a restore, or a regeneration, soon after another version keeps   *)
(* none.                                                                    *)
ShouldSnapshotSeldom(c, auto) ==
  c # 0 /\ (versions = <<>> \/ (Last(versions) # c /\ ~recent))

(* shouldSnapshot: an autosave keeps no version soon after another one.     *)
ShouldSnapshot(c, auto) ==
  c # 0 /\ (versions = <<>> \/ (Last(versions) # c /\ ~(auto /\ recent)))

(* snapshotIssueVersion takes MAX(version) + 1 and inserts it; the index is *)
(* unique.                                                                  *)
IsAutosave(q) == q.call = "save" /\ q.handler \notin {"save", "leave"}
SnapshotNumber(r) ==
  /\ req[r].stage = "number"
  /\ req' = IF ShouldSnapshot(req[r].seen, IsAutosave(req[r]))
            THEN [req EXCEPT ![r].stage = "insert", ![r].number = Len(versions) + 1]
            ELSE [req EXCEPT ![r].stage = "write", ![r].seen = 0, ![r].was = "pending"]
  /\ UNCHANGED <<issue, versions, recent, job, page, nextDraft, faults, clicks>>

SnapshotInsert(r) ==
  /\ req[r].stage = "insert"
  /\ IF req[r].number = Len(versions) + 1
     THEN /\ versions' = Append(versions, req[r].seen) /\ recent' = TRUE
          /\ req' = [req EXCEPT ![r].stage = "write", ![r].number = 0,
                                ![r].seen = 0, ![r].was = "pending"]
     ELSE Refuse(r) /\ UNCHANGED <<versions, recent>>
  /\ UNCHANGED <<issue, job, page, nextDraft, faults, clicks>>

(* NormalizeContent: what it changes, it changes once.                      *)
Normalized(c) == IF c \in Untidy THEN -c ELSE c

(* What each handler writes; cancelling restores a status from the content  *)
(* that was read.                                                           *)
Written(q) ==
  CASE q.call = "save" -> [issue EXCEPT !.content = Normalized(q.body), !.at = q.at]
    [] q.call = "restore" -> [issue EXCEPT !.content = q.body]
    [] q.call = "generate" -> [issue EXCEPT !.status = "generating"]
    [] q.call = "approve" -> [issue EXCEPT !.status = "approved", !.at = q.at]
    [] q.call = "reschedule" -> [issue EXCEPT !.at = q.at]
    [] q.call = "cancelSend" -> [issue EXCEPT !.status = IF q.seen # 0 THEN "ready" ELSE "failed"]
    [] q.call = "cancelGeneration" ->
         [issue EXCEPT !.status = IF q.seen # 0 THEN "ready" ELSE "pending"]

WriteIssue(r) ==
  /\ req[r].stage = "write"
  /\ issue' = Written(req[r])
  /\ job' = (job \/ req[r].call = "generate")
  /\ req' = [req EXCEPT ![r].stage = "answer", ![r].ok = TRUE,
                        ![r].seen = issue'.content, ![r].was = issue'.status]
  /\ UNCHANGED <<versions, recent, page, nextDraft, faults, clicks>>

(* A request fails before its next step, or its answer is lost. *)
RequestFails(r) ==
  /\ faults < MaxFaults /\ faults' = faults + 1
  /\ req[r].stage \in {"read", "number", "insert", "write"} \/ (req[r].stage = "answer" /\ req[r].ok)
  /\ Refuse(r)
  /\ UNCHANGED <<issue, versions, recent, job, page, nextDraft, clicks>>

-----------------------------------------------------------------------------
(* The worker, the delivery and time. *)

(* A result is dropped when the issue is no longer generated. *)
Generated ==
  /\ job /\ job' = FALSE
  /\ IF issue.status = "generating"
     THEN \/ /\ issue' = [issue EXCEPT !.content = nextDraft, !.status = "ready"]
             /\ nextDraft' = nextDraft + 1
          \/ issue' = [issue EXCEPT !.status = "failed"] /\ UNCHANGED nextDraft
     ELSE UNCHANGED <<issue, nextDraft>>
  /\ UNCHANGED <<versions, recent, page, req, faults, clicks>>

Sent ==
  /\ issue.status = "approved" /\ issue' = [issue EXCEPT !.status = "sent"]
  /\ UNCHANGED <<versions, recent, job, page, req, nextDraft, faults, clicks>>

TenMinutes ==
  /\ recent /\ recent' = FALSE
  /\ UNCHANGED <<issue, versions, job, page, req, nextDraft, faults, clicks>>

-----------------------------------------------------------------------------
Init ==
  /\ issue \in {[content |-> 0, at |-> 0, status |-> "pending"],
                [content |-> 1, at |-> 0, status |-> "ready"]}
  /\ versions = <<>> /\ recent = FALSE /\ job = FALSE
  /\ page = Away
  /\ req = [r \in Requests |-> Idle]
  /\ nextDraft = issue.content + 1 /\ faults = 0 /\ clicks = 0
  /\ contended = FALSE /\ retimed = FALSE

(* Two handlers of the page at a time, an edit while a handler other than a *)
(* save runs, edits or another handler while the issue is generated, or a   *)
(* result of the worker that the page does not wait for; or the page was not *)
(* told what was restored.                                                  *)
Edited == page' # page /\ req' = req
Contending ==
  \/ Cardinality(Active') > 1
  \/ Edited /\ \E r \in Active : req[r].handler \notin {"auto", "save"}
  \/ job /\ ~job' /\ page.status # "generating"
  \/ faults' # faults /\ \E r \in Active : req[r].call \in {"restore", "get"} /\ req'[r] # req[r]
  \/ /\ job' \/ page'.status = "generating"
     /\ page'.dirty \/ \E r \in Requests :
          req'[r].handler \in {"auto", "save", "approve", "restore", "cancelSend"}

(* The one edit that a save which runs marks as saved.                      *)
Retiming == Edited /\ page'.at # page.at /\ Active # {}
Note == contended' = (contended \/ Contending) /\ retimed' = (retimed \/ Retiming)

User(r) ==
  \/ SaveDraft(r) \/ Leave(r) \/ \E h \in Handlers : Click(r, h)
Effects(r) == Open(r) \/ Autosave(r) \/ Poll(r)
Serve(r) == ReadIssue(r) \/ SnapshotNumber(r) \/ SnapshotInsert(r) \/ WriteIssue(r) \/ Answer(r)

Next ==
  /\ \/ Edit \/ (\E t \in Times : EditTime(t)) \/ Generated \/ Sent \/ TenMinutes
     \/ \E r \in Requests : User(r) \/ Effects(r) \/ Serve(r) \/ RequestFails(r)
  /\ Note

Spec == Init /\ [][Next]_vars

(* Requests are answered, timers fire, and the worker ends its job.         *)
Fairness ==
  /\ WF_vars(Generated /\ Note)
  /\ \A r \in Requests : WF_vars(Serve(r) /\ Note)
  /\ SF_vars((\E r \in Requests : Autosave(r)) /\ Note)
  /\ SF_vars((\E r \in Requests : Poll(r)) /\ Note)
FairSpec == Spec /\ Fairness

-----------------------------------------------------------------------------
(* Properties. *)

(* The page does not call an edit saved that the server has not: a save     *)
(* clears the mark only when nothing was typed since.  The one edit for     *)
(* which it does is left out and named: a send time that is changed while a *)
(* save runs (retimed) is marked as saved by the answer.  The text of the   *)
(* row is that of the page up to what NormalizeContent changes.             *)
Same(c, d) == Normalized(c) = Normalized(d)
SavedWhenClean ==
  (~contended /\ page.open /\ ~page.dirty /\ Active = {} /\ page.status # "generating")
  => Same(page.content, issue.content) /\ (page.at = issue.at \/ retimed)

(* "Flush edits still waiting on the autosave debounce; otherwise they'd be *)
(* missing from the approved issue": what is approved, or mailed as a test, *)
(* is what was shown at the click.                                          *)
FlushedBeforeUse ==
  ~contended => \A r \in Requests :
    (req[r].call \in {"approve", "test"} /\ req[r].ok /\ req[r].handler # "gone")
    => Same(req[r].seen, req[r].shown)

(* "Keep the current draft as a version so a regenerate is reversible", and *)
(* a restore as well: the draft that was shown at the click can be restored *)
(* afterwards, while nothing fails and no handlers overlap.                 *)
DraftRestorable ==
  (~contended /\ faults = 0) => \A r \in Requests :
    (req[r].call \in {"generate", "restore"} /\ req[r].ok /\ req[r].shown # 0)
    => \E v \in ToSet(versions) : Same(v, req[r].shown)

(* An edit does not stay marked as unsaved: the timer that saves it is not  *)
(* lost, unless a request fails, two saves meet at one version number, or   *)
(* the issue is sent.  (A send time that is changed during a save loses its *)
(* mark together with its timer: SavedWhenClean.)                           *)
EditsSaved == page.dirty ~> (~page.dirty \/ faults > 0 \/ contended \/ ~Editable)

(* A page that shows a generation finds out that it ended, also when its     *)
(* polls overlap and an older answer comes last.                            *)
GenerationShown == page.status = "generating" ~> page.status # "generating"
=============================================================================
