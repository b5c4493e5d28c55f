----------------------------- MODULE SeriesPage -----------------------------
(***************************************************************************)
(* The page of a series (series/[id]/page.tsx) that opens after SeriesForm:  *)
(* what it loads, its two polls, its buttons and dialogs, against the server *)
(* and the worker that plans the series and fills its issues and sources.   *)
(*                                                                         *)
(* An item is an issue or a source; an issue is its sequence number.  The   *)
(* server's handlers are one step each here; GenerationQueue has their parts.*)
(***************************************************************************)
EXTENDS SeriesForm

CONSTANTS
  Requests,    \* handlers of the page that run at a time
  MaxIssues,   \* bound: issues of a series
  Buttons,     \* the buttons that are used
  MaxClicks    \* bound: clicks of the page

AllButtons == {"generatePlan", "createIssue", "retry", "retryAll", "addSource",
               "deleteSource", "pause", "settings", "context", "test", "deleteSeries"}

ASSUME SeriesPageAssumption ==
  /\ Requests # {} /\ Buttons \subseteq AllButtons /\ {MaxIssues, MaxClicks} \subseteq Nat

IssueIds == 1..MaxIssues
SourceIds == MaxIssues + 1..MaxIssues + MaxSources
Items == IssueIds \union SourceIds
NoItems == [i \in Items |-> "none"]

VARIABLES
  server,   \* the rows of the series
  work,     \* the worker's job of the plan
  page,     \* the state of the page
  req,      \* the handlers that run, each with the calls it has left
  owed,     \* history: issues "Retry failed" still has to ask for
  clicks,
  missed    \* history: handlers overlapped, or issues came before the plan's

pageVars == <<server, work, page, req, owed, clicks, missed>>
vars == <<formVars, pageVars>>

NoServer == [plan |-> "generating", modules |-> 0, items |-> NoItems, paused |-> FALSE,
             deleted |-> FALSE]
Closed == [view |-> "loading", plan |-> "", modules |-> 0, items |-> NoItems,
           paused |-> FALSE, retrying |-> 0]
Unread == [plan |-> "", modules |-> 0, items |-> NoItems, paused |-> FALSE]
Idle == [handler |-> "none", calls |-> <<>>, stage |-> "none", ok |-> FALSE, got |-> Unread]
Handlers == AllButtons \union {"none", "open", "planPoll", "busyPoll"}

(* What the variables can hold. *)
TypeOK ==
  /\ FormTypeOK
  /\ server.plan \in {"generating", "ready", "failed"} /\ server.modules \in 0..MaxIssues
  /\ page.view \in {"loading", "open", "error"}
  /\ page.plan \in {"", "generating", "ready", "failed"} /\ page.modules \in 0..MaxIssues
  /\ {server.items, page.items} \subseteq [Items -> {"none", "busy", "ready", "failed"}]
  /\ {server.paused, server.deleted, page.paused, missed} \subseteq BOOLEAN
  /\ page.retrying \in 0..MaxIssues
  /\ work \in {"none", "plan", "materialize", "lost"}
  /\ \A r \in Requests : /\ req[r].handler \in Handlers
                         /\ req[r].stage \in {"none", "asked", "answered"}
                         /\ (req[r].handler = "none") = (req[r] = Idle)
                         /\ (req[r].calls = <<>>) = (req[r] = Idle)
  /\ owed \subseteq IssueIds /\ clicks \in 0..MaxClicks

Active == {r \in Requests : req[r].handler # "none"}
Running(h) == {r \in Requests : req[r].handler = h}
Shown(ids, status) == {i \in ids : page.items[i] = status}

-----------------------------------------------------------------------------
(* The server and the worker. *)

Call(op, id) == [op |-> op, id |-> id]
Fresh(ids) == {i \in ids : server.items[i] = "none" /\ \A j \in ids : j < i => server.items[j] # "none"}

(* What the page can ask for: each call with its refusals. *)
Refused(c) ==
  \/ server.deleted
  \/ c.op = "createIssue" /\ Fresh(IssueIds) = {}
  \/ c.op = "addSource" /\ Fresh(SourceIds) = {}
  \/ c.op \in {"generate", "deleteSource"} /\ server.items[c.id] = "none"

After(c) ==
  CASE c.op = "generatePlan" -> [server EXCEPT !.plan = "generating"]
    [] c.op = "createIssue" -> [server EXCEPT !.items[CHOOSE i \in Fresh(IssueIds) : TRUE] = "busy"]
    [] c.op = "addSource" -> [server EXCEPT !.items[CHOOSE i \in Fresh(SourceIds) : TRUE] = "busy"]
    [] c.op = "generate" -> [server EXCEPT !.items[c.id] = "busy"]
    [] c.op = "deleteSource" -> [server EXCEPT !.items[c.id] = "none"]
    [] c.op = "pause" -> [server EXCEPT !.paused = TRUE]
    [] c.op = "resume" -> [server EXCEPT !.paused = FALSE]
    [] c.op = "deleteSeries" -> [server EXCEPT !.deleted = TRUE]
    [] OTHER -> server

(* The part of the rows a call answers with. *)
Got(c, s) ==
  LET Of(ids) == [i \in Items |-> IF i \in ids THEN s.items[i] ELSE "none"] IN
  CASE c.op \in {"getSeries", "update"} -> [Unread EXCEPT !.paused = s.paused]
    [] c.op = "getIssues" -> [Unread EXCEPT !.items = Of(IssueIds)]
    [] c.op = "getSources" -> [Unread EXCEPT !.items = Of(SourceIds)]
    [] c.op = "getPlan" -> [Unread EXCEPT !.plan = s.plan, !.modules = s.modules]
    [] OTHER -> Unread

Asks(c) == owed \ (IF c.op = "generate" THEN {c.id} ELSE {})

Serve(r) ==
  LET c == Head(req[r].calls) IN
  /\ req[r].stage = "asked"
  /\ IF Refused(c)
     THEN /\ req' = [req EXCEPT ![r].stage = "answered", ![r].ok = FALSE]
          /\ UNCHANGED <<server, work>>
     ELSE /\ server' = After(c)
          /\ work' = IF c.op = "generatePlan" THEN "plan" ELSE work
          /\ req' = [req EXCEPT ![r].stage = "answered", ![r].ok = TRUE,
                                ![r].got = Got(c, server')]
  /\ owed' = Asks(c)
  /\ UNCHANGED <<formVars, page, clicks>>

(* A call fails, before or after the server did it. *)
RequestFails(r) ==
  /\ faults < MaxFaults /\ faults' = faults + 1
  /\ req[r].stage = "asked" \/ (req[r].stage = "answered" /\ req[r].ok)
  /\ req' = [req EXCEPT ![r].stage = "answered", ![r].ok = FALSE, ![r].got = Unread]
  /\ owed' = Asks(Head(req[r].calls))
  /\ UNCHANGED <<where, form, brief, submission, made, attached, overtaken,
                 server, work, page, clicks>>

(* Bound: the worker begins when the page opens, which may read nothing      *)
(* until it has ended.                                                      *)
Working == where # "form"

(* The plan is ready before its issues are there. *)
PlanEnds ==
  /\ Working /\ work = "plan"
  /\ IF server.plan # "generating" THEN work' = "none" /\ UNCHANGED server
     ELSE \/ /\ work' = "materialize"
             /\ \E n \in {0, MaxIssues} : server' = [server EXCEPT !.plan = "ready", !.modules = n]
          \/ work' = "none" /\ server' = [server EXCEPT !.plan = "failed", !.modules = 0]
  /\ UNCHANGED <<formVars, page, req, owed, clicks>>

(* Issues of the plan that are missing or failed are made; an error is only *)
(* logged.                                                                  *)
Materialize ==
  /\ Working /\ work = "materialize"
  /\ \/ /\ work' = "none"
        /\ server' = [server EXCEPT !.items = [i \in Items |->
             IF i <= server.modules /\ server.items[i] \in {"none", "failed"} /\ ~server.deleted
             THEN "busy" ELSE server.items[i]]]
     \/ work' = "lost" /\ UNCHANGED server
  /\ UNCHANGED <<formVars, page, req, owed, clicks>>

(* Bound: a source always becomes ready; the page treats a failed one alike. *)
ItemEnds(i) ==
  /\ Working /\ server.items[i] = "busy"
  /\ \E s \in IF i \in IssueIds THEN {"ready", "failed"} ELSE {"ready"} :
       server' = [server EXCEPT !.items[i] = s]
  /\ UNCHANGED <<formVars, work, page, req, owed, clicks>>

-----------------------------------------------------------------------------
(* The page. *)

Begin(r, h, calls) ==
  req' = [req EXCEPT ![r] = [Idle EXCEPT !.handler = h, !.calls = calls, !.stage = "asked"]]
NotServer == UNCHANGED <<formVars, server, work>>

OpenPage(r) ==
  /\ where = "page" /\ page.view = "loading" /\ Active = {}
  /\ Begin(r, "open", <<Call("getSeries", 0), Call("getIssues", 0),
                        Call("getSources", 0), Call("getPlan", 0)>>)
  /\ UNCHANGED <<page, owed, clicks>> /\ NotServer

(* The effects that poll: for a plan and its issues, and for busy items.    *)
WaitingForIssues == page.plan = "ready" /\ page.modules > 0 /\ \A i \in IssueIds : page.items[i] = "none"
PlanPolls == where = "page" /\ (page.plan = "generating" \/ WaitingForIssues)
IssuesBusy == Shown(IssueIds, "busy") # {}
SourcesBusy == Shown(SourceIds, "busy") # {}
BusyPolls == where = "page" /\ (IssuesBusy \/ SourcesBusy)

(* Mutant: the issues are not asked for with the plan. *)
PlanPollAlone(r) ==
  /\ PlanPolls /\ req[r].handler = "none"
  /\ Begin(r, "planPoll", <<Call("getPlan", 0)>>)
  /\ UNCHANGED <<page, owed, clicks>> /\ NotServer

PlanPoll(r) ==
  /\ PlanPolls /\ req[r].handler = "none"
  /\ Begin(r, "planPoll", <<Call("getPlan", 0), Call("getIssues", 0)>>)
  /\ UNCHANGED <<page, owed, clicks>> /\ NotServer

BusyPoll(r) ==
  /\ BusyPolls /\ req[r].handler = "none"
  /\ Begin(r, "busyPoll", (IF IssuesBusy THEN <<Call("getIssues", 0)>> ELSE <<>>)
                          \o (IF SourcesBusy THEN <<Call("getSources", 0)>> ELSE <<>>))
  /\ UNCHANGED <<page, owed, clicks>> /\ NotServer

(* The calls of each handler; pausing is decided by the series as it is     *)
(* shown, and retrying asks for the issues that are shown as failed.        *)
handleGeneratePlan == {<<Call("generatePlan", 0)>>}
confirmDeleteSeries == {<<Call("deleteSeries", 0)>>}
SourcesTab == SourceIds \ Shown(SourceIds, "none")    \* the rows that can be deleted
confirmDeleteSource == {<<Call("deleteSource", i), Call("getSources", 0)>> : i \in SourcesTab}
handleSendTest == {<<Call("test", 0)>>}
handlePauseResume == {<<Call(IF page.paused THEN "resume" ELSE "pause", 0)>>}
handleSaveSettings == {<<Call("update", 0)>>}
handleContextPreview == {<<Call("context", 0)>>}
handleCreateIssue == {<<Call("createIssue", 0), Call("getIssues", 0)>>}
handleRetryIssue(i) == <<Call("generate", i), Call("getIssues", 0)>>
handleRetryFailedIssues ==
  LET failed == Shown(IssueIds, "failed")
      n == Cardinality(failed)
      InOrder == {ids \in [1..n -> failed] : \A j, k \in 1..n : j < k => ids[j] < ids[k]}
  IN {[k \in 1..2 * n |-> handleRetryIssue(ids[(k + 1) \div 2])[2 - (k % 2)]] :
        ids \in InOrder \ {<<>>}}
handleAddSource == {<<Call("addSource", 0), Call("getSources", 0)>>}

CallsOf(h) ==
  CASE h = "generatePlan" -> handleGeneratePlan
    [] h = "createIssue" -> handleCreateIssue
    [] h = "retry" -> {handleRetryIssue(i) : i \in Shown(IssueIds, "failed")}
    [] h = "retryAll" -> handleRetryFailedIssues
    [] h = "addSource" -> handleAddSource
    [] h = "deleteSource" -> confirmDeleteSource
    [] h = "pause" -> handlePauseResume
    [] h = "settings" -> handleSaveSettings
    [] h = "context" -> handleContextPreview
    [] h = "test" -> handleSendTest
    [] h = "deleteSeries" -> confirmDeleteSeries

(* The buttons that each part of the page enables. *)
Free(hs) == {h \in hs : Running(h) = {}}
Header == {"pause"} \union Free({"test"})
IssuesTab == Free({"test"}) \union {h \in {"retry", "retryAll"} : page.retrying = 0}
PlanTab == Free({"test"}) \union {h \in Free({"generatePlan"}) : page.plan # "generating"}
ContextTab == Free({"context"})
SettingsDialog == Free({"settings"})
IssueDialog == Free({"createIssue"})
SourceDialog == Free({"addSource"})
ConfirmDialogs == Free({"deleteSeries", "deleteSource"})
Enabled(h) ==
  h \in UNION {Header, IssuesTab, PlanTab, ContextTab,
                SettingsDialog, IssueDialog, SourceDialog, ConfirmDialogs}

Click(r, h) ==
  /\ where = "page" /\ page.view = "open" /\ req[r].handler = "none"
  /\ Enabled(h) /\ clicks < MaxClicks /\ clicks' = clicks + 1
  /\ \E calls \in CallsOf(h) :
       /\ Begin(r, h, calls)
       /\ page' = IF h \in {"retry", "retryAll"}
                  THEN [page EXCEPT !.retrying = Head(calls).id] ELSE page
       /\ owed' = IF h = "retryAll" THEN owed \union Shown(IssueIds, "failed") ELSE owed
  /\ NotServer

(* What the page shows after an answer: the list of a kind is replaced.     *)
Replaced(ids, got) == [i \in Items |-> IF i \in ids THEN got.items[i] ELSE page.items[i]]
(* Mutant: the sources that were read are not shown. *)
ToldIssues(c, got) ==
  CASE c.op = "getSeries" -> [page EXCEPT !.view = "open", !.paused = got.paused]
    [] c.op = "getIssues" -> [page EXCEPT !.items = Replaced(IssueIds, got)]
    [] c.op = "getPlan" -> [page EXCEPT !.plan = got.plan, !.modules = got.modules]
    [] c.op = "generatePlan" -> [page EXCEPT !.plan = "generating"]
    [] c.op \in {"pause", "resume"} -> [page EXCEPT !.paused = c.op = "pause"]
    [] OTHER -> page

Told(c, got) ==
  CASE c.op = "getSeries" -> [page EXCEPT !.view = "open", !.paused = got.paused]
    [] c.op = "getIssues" -> [page EXCEPT !.items = Replaced(IssueIds, got)]
    [] c.op = "getSources" -> [page EXCEPT !.items = Replaced(SourceIds, got)]
    [] c.op = "getPlan" -> [page EXCEPT !.plan = got.plan, !.modules = got.modules]
    [] c.op = "generatePlan" -> [page EXCEPT !.plan = "generating"]
    [] c.op \in {"pause", "resume"} -> [page EXCEPT !.paused = c.op = "pause"]
    [] c.op = "update" -> [page EXCEPT !.paused = got.paused]
    [] OTHER -> page

(* And after a failure: loading a list leaves it empty, the dialogs and the *)
(* polls keep what is shown, and any other failure takes the page's place.  *)
Failed(h, c) ==
  IF h = "open" /\ c.op # "getSeries"
  THEN Told(c, [Unread EXCEPT !.plan = page.plan, !.modules = page.modules])
  ELSE IF h \in {"open", "retry", "retryAll", "pause", "test"} THEN [page EXCEPT !.view = "error"]
  ELSE page

(* Mutant: the first issue that cannot be retried ends "Retry failed". *)
RestUntilFailure(q) ==
  IF q.ok \/ (q.handler = "open" /\ Head(q.calls).op # "getSeries") THEN Tail(q.calls)
  ELSE <<>>

(* The calls that follow: after a failure, opening goes on with its other   *)
(* lists and retrying with the next issue.                                  *)
Rest(q) ==
  LET c == Head(q.calls) IN
  IF q.ok \/ (q.handler = "open" /\ c.op # "getSeries") THEN Tail(q.calls)
  ELSE IF q.handler = "retryAll" /\ c.op = "generate" THEN Tail(Tail(q.calls))
  ELSE IF q.handler = "retryAll" THEN Tail(q.calls)
  ELSE <<>>

(* handleRetryIssue marks its issue, clears the error, and unmarks it.      *)
Retrying(p, h, rest) ==
  IF h \notin {"retry", "retryAll"} \/ (rest # <<>> /\ Head(rest).op # "generate") THEN p
  ELSE IF rest = <<>> THEN [p EXCEPT !.retrying = 0]
  ELSE [p EXCEPT !.retrying = Head(rest).id, !.view = "open"]

Answer(r) ==
  LET q == req[r]
      c == Head(q.calls)
      rest == Rest(q)
  IN
  /\ q.stage = "answered"
  /\ req' = [req EXCEPT ![r] = IF rest = <<>> THEN Idle
                               ELSE [q EXCEPT !.calls = rest, !.stage = "asked",
                                              !.ok = FALSE, !.got = Unread]]
  /\ IF c.op = "deleteSeries" /\ q.ok
     THEN where' = "away" /\ page' = Closed
     ELSE /\ page' = IF where # "page" THEN page
                     ELSE Retrying(IF q.ok THEN Told(c, q.got) ELSE Failed(q.handler, c),
                                   q.handler, rest)
          /\ UNCHANGED where
  /\ UNCHANGED <<form, brief, submission, made, attached, faults, overtaken,
                 server, work, owed, clicks>>

-----------------------------------------------------------------------------
Init ==
  /\ FormInit
  /\ server = NoServer /\ work = "none" /\ page = Closed
  /\ req = [r \in Requests |-> Idle] /\ owed = {} /\ clicks = 0 /\ missed = FALSE

(* The form's steps: creating a series queues its plan, or cannot, and its   *)
(* sources are indexed.                                                     *)
FormStep ==
  /\ FormNext
  /\ IF made' # made
     THEN \/ server' = NoServer /\ work' = "plan"
          \/ server' = [NoServer EXCEPT !.plan = "failed"] /\ work' = "none"
     ELSE /\ server' = IF attached' = attached + 1
                       THEN [server EXCEPT !.items[MaxIssues + attached'] = "busy"]
                       ELSE server
          /\ UNCHANGED work
  /\ UNCHANGED <<page, req, owed, clicks>>

(* Handlers overlap, or there are issues before the plan's are made.        *)
Missing ==
  \/ Cardinality(Active') > 1
  \/ work' \in {"plan", "materialize"} /\ \E i \in IssueIds : server'.items[i] # "none"

Effects(r) == OpenPage(r) \/ PlanPoll(r) \/ BusyPoll(r)

Next ==
  /\ \/ FormStep \/ PlanEnds \/ Materialize
     \/ \E i \in Items : ItemEnds(i)
     \/ \E r \in Requests : \/ Effects(r) \/ Serve(r) \/ Answer(r) \/ RequestFails(r)
                            \/ \E h \in Buttons : Click(r, h)
  /\ missed' = (missed \/ Missing)

Spec == Init /\ [][Next]_vars

(* Requests are answered, the timers of the polls tick, the worker goes on. *)
Note == missed' = (missed \/ Missing)
Fairness ==
  /\ WF_vars(PlanEnds /\ Note) /\ WF_vars(Materialize /\ Note)
  /\ \A i \in Items : WF_vars(ItemEnds(i) /\ Note)
  /\ \A r \in Requests : WF_vars((Serve(r) \/ Answer(r)) /\ Note)
  /\ SF_vars((\E r \in Requests : PlanPoll(r)) /\ Note)
  /\ SF_vars((\E r \in Requests : BusyPoll(r)) /\ Note)
FairSpec == Spec /\ Fairness

-----------------------------------------------------------------------------
(* Properties. *)

(* A page that does not poll has nothing to wait for: when no handler runs  *)
(* and no poll is set, what it shows is what the server has, unless a call   *)
(* failed, handlers overlapped or there were issues before the plan's.      *)
PageIsCurrent ==
  (/\ where = "page" /\ page.view = "open" /\ Active = {} /\ ~PlanPolls /\ ~BusyPolls
   /\ faults = 0 /\ ~missed)
  => /\ work \in {"none", "lost"} \/ page.modules = 0
     /\ page.items = server.items
     /\ page.plan = server.plan /\ page.paused = server.paused

(* "waitingForIssues": a page that waits for a plan without issues comes to *)
(* show its issues, or that it failed or has none, although the worker       *)
(* makes them after the plan; unless it cannot make them, or the series is   *)
(* gone.                                                                    *)
PlanShown == PlanPolls ~> (~PlanPolls \/ work = "lost" \/ server.deleted)

(* "Retry failed" asks for every issue it was clicked for, also when one of *)
(* them fails.                                                              *)
RetryAsksAll == owed # {} ~> owed = {}
=============================================================================
