------------------------------ MODULE Library ------------------------------
(***************************************************************************)
(* The list pages of the workspace: sources, recipients, the Run Center, the *)
(* dashboard, connectors and workflows. Each keeps a copy of rows of the    *)
(* server, reads it again after its own changes, on a timer, or not at all, *)
(* and its answers come in any order. Which page is open is chosen once.    *)
(***************************************************************************)
EXTENDS Integers, FiniteSets, Sequences

CONSTANTS
  Items,      \* rows of a page; connectors' keys and workflows are named alike
  NoItem,
  Pages,      \* the pages that are opened
  Requests,   \* handlers of the page that run at a time
  MaxFaults,  \* bound: requests that fail
  MaxClicks   \* bound: what the user and others do

AllPages == {"sources", "recipients", "runs", "dashboard", "connectors", "workflows"}
ASSUME LibraryAssumption ==
  /\ NoItem \notin Items /\ Requests # {} /\ Pages \subseteq AllPages
  /\ {MaxFaults, MaxClicks} \subseteq Nat

(* A recipient waits or is verified, and is stopped or not.                  *)
Statuses == {"none", "busy", "ready", "failed", "waiting", "verified", "waitingStopped", "stopped"}
Deleted == "deleted"    \* an id is not used again
Filters == {"all", "failed"}
FirstStatuses ==
  [sources |-> {"none", "ready"}, recipients |-> {"none", "waiting"}, runs |-> {"busy", "failed"},
   dashboard |-> {"none", "ready"}, connectors |-> {"ready"}, workflows |-> {"ready"}]

VARIABLES
  page,    \* the page that is open
  server,  \* the rows: status, and the key or the workflow of each
  view,    \* the state of the page
  req,     \* the handlers that run, each with the calls it has left
  clicks, faults,
  stale    \* history: what the page cannot know of, or an old answer after a new one

vars == <<page, server, view, req, clicks, faults, stale>>

Nothing == [i \in Items |-> "none"]
Untied == [i \in Items |-> NoItem]
Closed == [rows |-> Nothing, tied |-> Untied, loading |-> TRUE, error |-> FALSE,
           filter |-> "all", listed |-> "all", auto |-> TRUE, busy |-> NoItem,
           chosen |-> NoItem, number |-> 0, result |-> NoItem, key |-> NoItem]
Call(op, id, arg) == [op |-> op, id |-> id, arg |-> arg]
Idle == [handler |-> "none", calls |-> <<>>, stage |-> "none", ok |-> FALSE,
         rows |-> Nothing, tied |-> Untied, old |-> FALSE]

(* What the variables can hold. *)
TypeOK ==
  /\ page \in Pages
  /\ server \in [rows : [Items -> Statuses \union {Deleted}], tied : [Items -> Items \union {NoItem}]]
  /\ {view.rows} \subseteq [Items -> Statuses] /\ view.tied \in [Items -> Items \union {NoItem}]
  /\ {view.loading, view.error, view.auto, stale} \subseteq BOOLEAN
  /\ {view.filter, view.listed} \subseteq Filters
  /\ {view.busy, view.chosen, view.result, view.key} \subseteq Items \union {NoItem}
  /\ view.number \in 0..MaxClicks /\ clicks \in 0..MaxClicks /\ faults \in 0..MaxFaults
  /\ \A r \in Requests : /\ req[r].stage \in {"none", "asked", "answered"}
                         /\ (req[r].handler = "none") = (req[r] = Idle)
                         /\ (req[r].calls = <<>>) = (req[r] = Idle)

Active == {r \in Requests : req[r].handler # "none"}
Running(h) == {r \in Active : req[r].handler = h}
Shown(status) == {i \in Items : view.rows[i] = status}

-----------------------------------------------------------------------------
(* The server. *)

Listed(filter) ==
  [i \in Items |-> IF server.rows[i] # Deleted /\ filter \in {"all", server.rows[i]} THEN server.rows[i] ELSE "none"]
Stopped(status) == status \in {"waitingStopped", "stopped"}
Toggled(status, stop) ==
  CASE status \in {"waiting", "waitingStopped"} -> IF stop THEN "waitingStopped" ELSE "waiting"
    [] OTHER -> IF stop THEN "stopped" ELSE "verified"

Refused(c) ==
  IF c.op = "add" THEN \A i \in Items : server.rows[i] # "none"
  ELSE c.op \notin {"list", "sync"} /\ server.rows[c.id] \in {"none", Deleted}

After(c) ==
  CASE c.op = "add" -> [server EXCEPT !.rows[CHOOSE i \in Items : server.rows[i] = "none"] =
                          IF page = "recipients" THEN "waiting" ELSE "busy"]
    [] c.op \in {"reindex", "retry"} -> [server EXCEPT !.rows[c.id] = "busy"]
    [] c.op = "remove" -> [server EXCEPT !.rows[c.id] = Deleted]
    [] c.op = "toggle" -> [server EXCEPT !.rows[c.id] = Toggled(@, c.arg)]
    [] c.op \in {"saveConfig", "assign"} -> [server EXCEPT !.tied[c.id] = c.arg]
    [] OTHER -> server

Serve(r) ==
  LET c == Head(req[r].calls) IN
  /\ req[r].stage = "asked"
  /\ server' = IF Refused(c) THEN server ELSE After(c)
  /\ req' = [req EXCEPT ![r].stage = "answered", ![r].ok = ~Refused(c),
               ![r].rows = IF c.op = "list" THEN Listed(c.arg) ELSE Nothing,
               ![r].tied = IF c.op = "list" THEN server.tied ELSE Untied]
  /\ UNCHANGED <<page, view, clicks, faults, stale>>

(* A call fails, before or after the server did it. *)
RequestFails(r) ==
  /\ faults < MaxFaults /\ faults' = faults + 1
  /\ req[r].stage = "asked" \/ (req[r].stage = "answered" /\ req[r].ok)
  /\ req' = [req EXCEPT ![r] = [Idle EXCEPT !.handler = req[r].handler, !.calls = req[r].calls,
                                            !.stage = "answered"]]
  /\ UNCHANGED <<page, server, view, clicks, stale>>

(* An indexing or a generation ends; a reader follows the link of the mail.  *)
Bound == clicks < MaxClicks /\ clicks' = clicks + 1
ItemEnds(i) ==
  /\ server.rows[i] = "busy"
  /\ \E s \in {"ready", "failed"} : server' = [server EXCEPT !.rows[i] = s]
  /\ UNCHANGED <<page, view, req, clicks, faults, stale>>
ReaderVerifies(i) ==
  /\ page = "recipients" /\ server.rows[i] = "waiting"
  /\ server' = [server EXCEPT !.rows[i] = "verified"]
  /\ stale' = TRUE
  /\ Bound /\ UNCHANGED <<page, view, req, faults>>

-----------------------------------------------------------------------------
(* The handlers. *)

Begin(r, h, calls) ==
  /\ req[r].handler = "none"
  /\ req' = [req EXCEPT ![r] = [Idle EXCEPT !.handler = h, !.calls = calls, !.stage = "asked"]]
Reload == <<Call("list", NoItem, view.filter)>>

(* The effect that reads a page when it opens, "Try again", which workflows  *)
(* have not, and "Refresh".                                                 *)
Load(r) ==
  /\ \/ view.loading /\ Active = {}
     \/ /\ ~view.loading /\ clicks < MaxClicks
        /\ (view.error /\ page # "workflows") \/ page = "runs"
  /\ clicks' = IF view.loading THEN clicks ELSE clicks + 1
  /\ Begin(r, "load", Reload)
  /\ UNCHANGED <<page, server, view, faults, stale>>

(* While an indexing is shown, and in the Run Center all the time, a timer  *)
(* reads again.                                                             *)
SourcesPoll == page = "sources" /\ Shown("busy") # {}
RunsPoll == page = "runs" /\ view.auto
(* Mutant: the timer reads without the filter. *)
PollUnfiltered(r) ==
  /\ ~view.loading /\ Running("poll") = {}
  /\ SourcesPoll \/ RunsPoll
  /\ Begin(r, "poll", <<Call("list", NoItem, "all")>>)
  /\ UNCHANGED <<page, server, view, clicks, faults, stale>>

Poll(r) ==
  /\ ~view.loading /\ Running("poll") = {}    \* bound: one reading of the timer at a time
  /\ SourcesPoll \/ RunsPoll
  /\ Begin(r, "poll", Reload)
  /\ UNCHANGED <<page, server, view, clicks, faults, stale>>

(* The rows each button is shown and enabled for.  A recipient's buttons    *)
(* wait for each other; a source's re-ingest for every other.               *)
Rows == Items \ Shown("none")
SourceButtons(h) ==
  CASE h = "openPreview" -> IF view.number < MaxClicks THEN Shown("ready") ELSE {}
    [] h = "reindex" -> IF Running(h) = {} THEN Shown("ready") \union Shown("failed") ELSE {}
    [] h = "removeSource" -> IF Running(h) = {} THEN Rows ELSE {}
RecipientButtons(h) ==
  IF view.busy # NoItem THEN {} ELSE IF h = "handleResend" THEN Shown("waiting") ELSE Rows
RunButtons == Shown("failed") \ {view.busy}
DashboardButtons == IF Running("deleteSeries") = {} THEN Rows ELSE {}
SavingConfig == \E r \in Running("handleSaveConfig") : Head(req[r].calls).op # "list"
ConnectorButtons(h) ==
  IF h = "handleSync" THEN Rows \ {view.busy}
  ELSE IF view.key # NoItem /\ ~SavingConfig THEN {view.chosen} ELSE {}
WorkflowButtons(h) ==
  IF Running(h) # {} THEN {} ELSE IF h = "assignToSeries" THEN Rows ELSE {view.chosen}

Click(r, on, h, calls) ==
  /\ page = on /\ ~view.loading /\ Bound
  /\ Begin(r, h, calls)
  /\ UNCHANGED <<page, server, faults, stale>>

addSource(r) ==
  /\ Running("addSource") = {}
  /\ Click(r, "sources", "addSource", <<Call("add", NoItem, 0)>> \o Reload)
  /\ UNCHANGED view
openPreview(r, i) ==
  /\ i \in SourceButtons("openPreview")
  /\ Click(r, "sources", "openPreview", <<Call("chunks", i, view.number + 1)>>)
  /\ view' = [view EXCEPT !.chosen = i, !.result = NoItem, !.number = @ + 1]
reindex(r, i) ==
  /\ i \in SourceButtons("reindex")
  /\ Click(r, "sources", "reindex", <<Call("reindex", i, 0)>> \o Reload)
  /\ UNCHANGED view
removeSource(r, i) ==
  /\ i \in SourceButtons("removeSource")
  /\ Click(r, "sources", "removeSource", <<Call("remove", i, 0)>>)
  /\ UNCHANGED view

handleAdd(r) ==
  /\ Running("handleAdd") = {}
  /\ Click(r, "recipients", "handleAdd", <<Call("add", NoItem, 0)>> \o Reload)
  /\ view' = [view EXCEPT !.error = FALSE]
handleRemove(r, i) ==
  /\ i \in RecipientButtons("handleRemove")
  /\ Click(r, "recipients", "handleRemove", <<Call("remove", i, 0)>> \o Reload)
  /\ view' = [view EXCEPT !.busy = i]
handleResend(r, i) ==
  /\ i \in RecipientButtons("handleResend")
  /\ Click(r, "recipients", "handleResend", <<Call("resend", i, 0)>>)
  /\ view' = [view EXCEPT !.busy = i]

(* Mutant: a change is not followed by a reading. *)
toggleSuppressedOnce(r, i) ==
  /\ i \in RecipientButtons("toggleSuppressed")
  /\ Click(r, "recipients", "toggleSuppressed", <<Call("toggle", i, ~Stopped(view.rows[i]))>>)
  /\ view' = [view EXCEPT !.busy = i]

(* It asks for the opposite of what is shown. *)
toggleSuppressed(r, i) ==
  /\ i \in RecipientButtons("toggleSuppressed")
  /\ Click(r, "recipients", "toggleSuppressed",
           <<Call("toggle", i, ~Stopped(view.rows[i]))>> \o Reload)
  /\ view' = [view EXCEPT !.busy = i]

retry(r, i) ==
  /\ i \in RunButtons
  /\ Click(r, "runs", "retry", <<Call("retry", i, 0)>> \o Reload)
  /\ view' = [view EXCEPT !.busy = i]

deleteSeries(r, i) ==
  /\ i \in DashboardButtons
  /\ Click(r, "dashboard", "deleteSeries", <<Call("remove", i, 0)>>)
  /\ UNCHANGED view

handleSaveConfig(r, i) ==
  /\ i \in ConnectorButtons("handleSaveConfig")
  /\ Click(r, "connectors", "handleSaveConfig", <<Call("saveConfig", i, view.key)>> \o Reload)
  /\ UNCHANGED view
handleSync(r, i) ==
  /\ i \in ConnectorButtons("handleSync")
  /\ Click(r, "connectors", "handleSync", <<Call("sync", i, 0)>>)
  /\ view' = [view EXCEPT !.busy = i]

assignToSeries(r, i) ==
  /\ i \in WorkflowButtons("assignToSeries")
  /\ Click(r, "workflows", "assignToSeries", <<Call("assign", i, view.chosen)>>)
  /\ UNCHANGED view
runPreview(r, i) ==
  /\ i \in WorkflowButtons("runPreview")
  /\ Click(r, "workflows", "runPreview", <<Call("runPreview", i, 0)>>)
  /\ view' = [view EXCEPT !.result = NoItem]

-----------------------------------------------------------------------------
(* What the user does without a request. *)

ClosePreview ==
  /\ page = "sources" /\ view.chosen # NoItem /\ view.number < MaxClicks
  /\ view' = [view EXCEPT !.chosen = NoItem, !.result = NoItem, !.number = @ + 1]
  /\ Bound /\ UNCHANGED <<page, server, req, faults, stale>>

(* A new filter is an effect of its own: it reads at once.                  *)
PickFilter(r, f) ==
  /\ page = "runs" /\ ~view.loading /\ f # view.filter
  /\ Begin(r, "load", <<Call("list", NoItem, f)>>)
  /\ view' = [view EXCEPT !.filter = f]
  /\ Bound /\ UNCHANGED <<page, server, faults, stale>>
ToggleAuto ==
  /\ page = "runs" /\ view' = [view EXCEPT !.auto = ~@]
  /\ Bound /\ UNCHANGED <<page, server, req, faults, stale>>

Configure(i) ==
  /\ page = "connectors" /\ i \in Items \ Shown("none")
  /\ view' = [view EXCEPT !.chosen = i, !.key = NoItem]
  /\ UNCHANGED <<page, server, req, clicks, faults, stale>>
Cancel ==
  /\ page = "connectors" /\ view.chosen # NoItem
  /\ view' = [view EXCEPT !.chosen = NoItem, !.key = NoItem]
  /\ UNCHANGED <<page, server, req, clicks, faults, stale>>
TypeKey ==
  /\ page = "connectors" /\ view.chosen # NoItem /\ view.key # view.chosen
  /\ view' = [view EXCEPT !.key = view.chosen]
  /\ UNCHANGED <<page, server, req, clicks, faults, stale>>

PickWorkflow(i) ==
  /\ page = "workflows" /\ view.chosen # i
  /\ view' = [view EXCEPT !.chosen = i, !.result = NoItem]
  /\ stale' = (stale \/ Running("runPreview") # {})
  /\ Bound /\ UNCHANGED <<page, server, req, faults>>

(* The dashboard's assistant has made a series and has the list read again.  *)
SeriesMade(r) ==
  /\ page = "dashboard" /\ ~view.loading
  /\ \E i \in Items : server.rows[i] = "none" /\ server' = [server EXCEPT !.rows[i] = "ready"]
  /\ Begin(r, "load", Reload)
  /\ Bound /\ UNCHANGED <<page, view, faults, stale>>

-----------------------------------------------------------------------------
(* The answers. *)

(* Mutant: chunks are shown whatever was opened meanwhile. *)
ToldLate(q, c) ==
  CASE c.op = "list" -> [view EXCEPT !.rows = q.rows, !.tied = q.tied, !.listed = c.arg,
                                     !.loading = FALSE, !.error = FALSE]
    [] c.op = "remove" /\ page # "recipients" -> [view EXCEPT !.rows[c.id] = "none"]
    [] c.op \in {"chunks", "runPreview"} -> [view EXCEPT !.result = c.id]
    [] OTHER -> view

(* After a success: a list replaces what is shown, a deletion is taken out  *)
(* of what is shown by then, chunks count when no other preview was opened  *)
(* or closed meanwhile, a preview of a workflow always does.                *)
Told(q, c) ==
  CASE c.op = "list" -> [view EXCEPT !.rows = q.rows, !.tied = q.tied, !.listed = c.arg,
                                     !.loading = FALSE, !.error = FALSE]
    [] c.op = "remove" /\ page # "recipients" -> [view EXCEPT !.rows[c.id] = "none"]
    [] c.op = "chunks" -> IF c.arg = view.number THEN [view EXCEPT !.result = c.id] ELSE view
    [] c.op = "runPreview" -> [view EXCEPT !.result = c.id]
    [] c.op = "assign" -> [view EXCEPT !.tied[c.id] = c.arg]
    [] c.op = "saveConfig" -> [view EXCEPT !.chosen = NoItem, !.key = NoItem]
    [] OTHER -> view

(* After a failure: dialogs and the preview tell of theirs, the others take *)
(* the notice of the page, and what is shown stays.                         *)
Failed(c) ==
  CASE c.op = "list" -> [view EXCEPT !.error = TRUE, !.loading = FALSE]
    [] c.op \in {"reindex", "toggle", "resend", "retry"} \/ (c.op = "add" /\ page = "recipients")
       -> [view EXCEPT !.error = TRUE]
    [] c.op = "runPreview" -> [view EXCEPT !.result = c.id]
    [] OTHER -> view

(* A handler that ends clears the busy row, whichever it is by then.        *)
Marking == {"handleRemove", "handleResend", "toggleSuppressed", "retry", "handleSync"}
Released(v, q, rest) ==
  IF rest = <<>> /\ q.handler \in Marking THEN [v EXCEPT !.busy = NoItem] ELSE v

(* Lists that were read before this change of what is shown are old.        *)
Aged(r, c) ==
  [s \in Requests |->
     IF s # r /\ req[s].stage = "answered" /\ Head(req[s].calls).op = "list"
        /\ (c.op = "list" \/ (c.op \in {"remove", "assign"} /\ page # "recipients"))
     THEN [req[s] EXCEPT !.old = TRUE] ELSE req[s]]

Answer(r) ==
  LET q == req[r]
      c == Head(q.calls)
      rest == IF q.ok THEN Tail(q.calls) ELSE <<>>
  IN
  /\ q.stage = "answered"
  /\ view' = Released(IF q.ok THEN Told(q, c) ELSE Failed(c), q, rest)
  /\ req' = [Aged(r, c) EXCEPT ![r] =
               IF rest = <<>> THEN Idle
               ELSE [Idle EXCEPT !.handler = q.handler, !.calls = rest, !.stage = "asked"]]
  /\ stale' = (stale \/ (c.op = "list" /\ q.old))
  /\ UNCHANGED <<page, server, clicks, faults>>

-----------------------------------------------------------------------------
Init ==
  /\ page \in Pages
  /\ \E rows \in [Items -> FirstStatuses[page]] : server = [rows |-> rows, tied |-> Untied]
  /\ IF page = "workflows" THEN \E i \in Items : view = [Closed EXCEPT !.chosen = i]
     ELSE view = Closed
  /\ req = [r \in Requests |-> Idle]
  /\ clicks = 0 /\ faults = 0 /\ stale = FALSE

Polls == \E r \in Requests : Poll(r)
UserActs(r) ==
  \/ addSource(r) \/ handleAdd(r)
  \/ \E i \in Items :
       \/ openPreview(r, i) \/ reindex(r, i) \/ removeSource(r, i)
       \/ handleRemove(r, i) \/ handleResend(r, i) \/ toggleSuppressed(r, i)
       \/ retry(r, i) \/ deleteSeries(r, i)
       \/ handleSaveConfig(r, i) \/ handleSync(r, i)
       \/ assignToSeries(r, i) \/ runPreview(r, i)
  \/ \E f \in Filters : PickFilter(r, f)
  \/ SeriesMade(r)
Others == \E i \in Items : ItemEnds(i) \/ ReaderVerifies(i) \/ Configure(i) \/ PickWorkflow(i)

Next ==
  \/ \E r \in Requests : Load(r) \/ Serve(r) \/ RequestFails(r) \/ Answer(r) \/ UserActs(r)
  \/ Polls \/ ClosePreview \/ ToggleAuto \/ TypeKey \/ Cancel \/ Others

Spec == Init /\ [][Next]_vars

(* Requests are answered, timers tick, and what is indexed ends.            *)
Fairness ==
  /\ \A r \in Requests : WF_vars(Serve(r) \/ Answer(r))
  /\ \A i \in Items : WF_vars(ItemEnds(i))
  /\ WF_vars(\E r \in Requests : Load(r) /\ view.loading)
  /\ SF_vars(Polls)
FairSpec == Spec /\ Fairness

-----------------------------------------------------------------------------
(* Properties. *)

(* Without a timer nothing repairs a list: when no handler runs and no timer *)
(* is set, it is what the server has, unless something failed, a reader      *)
(* acted, or an old list came after a newer one.                            *)
ListIsCurrent ==
  (/\ page # "runs" /\ ~view.loading /\ Active = {} /\ ~SourcesPoll
   /\ faults = 0 /\ ~view.error /\ ~stale)
  => view.rows = Listed("all") /\ view.tied = server.tied

(* "previewRequest": chunks are never shown under another source, however   *)
(* late they come and whatever is opened and closed meanwhile.              *)
ChunksOfPreview ==
  page = "sources" /\ view.result # NoItem => view.result = view.chosen

(* An answer for another filter may come last; the timer repairs it. *)
FilterShown == [](page = "runs" => <>(~view.auto \/ view.listed = view.filter))
=============================================================================
