--------------------------- MODULE LibraryProofs ---------------------------
(***************************************************************************)
(* What the list pages promise for every set of rows and any number of      *)
(* handlers and failures.  ChunksOfPreview: the sources page numbers its    *)
(* previews (previewRequest), and shows an answer only when its number is   *)
(* still the last.  ListIsCurrent: whatever is changed is read back, or put *)
(* into the copy of the page.                                              *)
(***************************************************************************)
EXTENDS Library, SequenceTheorems, TLAPS

(* The calls a handler of the sources page has left.  Those for chunks bear *)
(* the number of their preview, and the last number belongs to the source   *)
(* that is open.                                                            *)
SourceOps == {"add", "list", "chunks", "reindex", "remove"}
CallFits(c, v) ==
  /\ c.op \in SourceOps
  /\ c.op = "chunks" => /\ c.arg \in Nat /\ c.arg <= v.number
                        /\ c.arg = v.number => c.id = v.chosen
CallsFit(s, v) ==
  \/ s = <<>>
  \/ Len(s) = 1 /\ s = <<s[1]>> /\ CallFits(s[1], v)
  \/ Len(s) = 2 /\ s = <<s[1], s[2]>> /\ CallFits(s[1], v) /\ CallFits(s[2], v)
RequestFields == {"handler", "calls", "stage", "ok", "rows", "tied", "old"}
RequestFits(q, v) ==
  /\ q = [field \in RequestFields |-> q[field]]
  /\ CallsFit(q.calls, v)
  /\ q.stage # "none" => q.calls # <<>>
ViewFields == {"rows", "tied", "loading", "error", "filter", "listed", "auto", "busy",
               "chosen", "number", "result", "key"}
ViewFits(v) ==
  /\ v = [field \in ViewFields |-> v[field]]
  /\ v.number \in Nat
  /\ v.result # NoItem => v.result = v.chosen

OwnNumber ==
  page = "sources" =>
    /\ ViewFits(view)
    /\ req = [r \in Requests |-> req[r]]
    /\ \A r \in Requests : RequestFits(req[r], view)

-----------------------------------------------------------------------------
(* Calls. *)

LEMMA OneElement == ASSUME NEW a PROVE Head(<<a>>) = a /\ Tail(<<a>>) = <<>>
<1>1. <<a>> \in Seq({a}) /\ Len(<<a>>) = 1 /\ <<a>>[1] = a
  OBVIOUS
<1>2. Tail(<<a>>) \in Seq({a}) /\ Len(Tail(<<a>>)) = 0
  BY <1>1, HeadTailProperties
<1> QED
  BY <1>1, <1>2

LEMMA TwoElements ==
  ASSUME NEW a, NEW b
  PROVE  Head(<<a, b>>) = a /\ Tail(<<a, b>>) = <<b>> /\ <<a>> \o <<b>> = <<a, b>>
<1> DEFINE S == {a, b}
<1>1. /\ <<a, b>> \in Seq(S) /\ Len(<<a, b>>) = 2 /\ <<a, b>>[1] = a /\ <<a, b>>[2] = b
      /\ <<a>> \in Seq(S) /\ Len(<<a>>) = 1 /\ <<a>>[1] = a
      /\ <<b>> \in Seq(S) /\ Len(<<b>>) = 1 /\ <<b>>[1] = b
  OBVIOUS
<1> HIDE DEF S
<1>2. Tail(<<a, b>>) = <<b>>
  <2>1. /\ Tail(<<a, b>>) \in Seq(S) /\ Len(Tail(<<a, b>>)) = 1
        /\ Tail(<<a, b>>)[1] = b
    BY <1>1, HeadTailProperties
  <2> QED
    BY <1>1, <2>1, SeqEqual
<1>3. <<a>> \o <<b>> = <<a, b>>
  <2> DEFINE s == <<a>> \o <<b>>
  <2>1. s \in Seq(S) /\ Len(s) = 2 /\ s[1] = a /\ s[2] = b
    BY <1>1, ConcatProperties
  <2> HIDE DEF s
  <2>2. s = <<a, b>>
    BY <1>1, <2>1, SeqEqual
  <2> QED
    BY <2>2 DEF s
<1> QED
  BY <1>1, <1>2, <1>3

LEMMA NoCallsFit == ASSUME NEW v PROVE CallsFit(<<>>, v)
BY DEF CallsFit

LEMMA OneCallFits ==
  ASSUME NEW v, NEW c, CallFits(c, v) PROVE CallsFit(<<c>>, v)
BY DEF CallsFit

LEMMA TwoCallsFit ==
  ASSUME NEW v, NEW c, NEW d, CallFits(c, v), CallFits(d, v) PROVE CallsFit(<<c, d>>, v)
BY DEF CallsFit

LEMMA FirstCallFits ==
  ASSUME NEW v, NEW s, CallsFit(s, v), s # <<>>
  PROVE  CallFits(Head(s), v) /\ CallsFit(Tail(s), v)
<1>1. CASE s = <<s[1]>> /\ CallFits(s[1], v)
  <2>1. Head(s) = s[1] /\ Tail(s) = <<>>
    BY <1>1, OneElement, Zenon
  <2> QED
    BY <1>1, <2>1, NoCallsFit
<1>2. CASE s = <<s[1], s[2]>> /\ CallFits(s[1], v) /\ CallFits(s[2], v)
  <2>1. Head(s) = s[1] /\ Tail(s) = <<s[2]>>
    BY <1>2, TwoElements, Zenon
  <2> QED
    BY <1>2, <2>1, OneCallFits
<1> QED
  BY <1>1, <1>2 DEF CallsFit

(* A call without a number fits whatever is open. *)
LEMMA PlainCallFits ==
  ASSUME NEW v, NEW op \in SourceOps \ {"chunks"}, NEW id, NEW arg
  PROVE  CallFits(Call(op, id, arg), v)
BY DEF CallFits, Call

LEMMA ReloadFits ==
  ASSUME NEW v
  PROVE  /\ CallsFit(Reload, v)
         /\ \A op \in SourceOps \ {"chunks"} : \A id, arg : CallsFit(<<Call(op, id, arg)>> \o Reload, v)
<1>1. CallFits(Call("list", NoItem, view.filter), v)
  BY PlainCallFits DEF SourceOps
<1>2. ASSUME NEW op \in SourceOps \ {"chunks"}, NEW id, NEW arg
      PROVE  CallsFit(<<Call(op, id, arg)>> \o Reload, v)
  <2>1. <<Call(op, id, arg)>> \o Reload = <<Call(op, id, arg), Call("list", NoItem, view.filter)>>
    BY TwoElements, Zenon DEF Reload
  <2> QED
    BY <1>1, <2>1, PlainCallFits, TwoCallsFit
<1> QED
  BY <1>1, <1>2, OneCallFits DEF Reload

(* A request goes on to fit when the page opens or closes a preview, since  *)
(* its number is not the last any more.                                     *)
LEMMA StillFits ==
  ASSUME NEW v, NEW w, v.number \in Nat,
         \/ w.number = v.number /\ w.chosen = v.chosen
         \/ w.number = v.number + 1,
         NEW q, RequestFits(q, v)
  PROVE  RequestFits(q, w)
<1>1. ASSUME NEW c, CallFits(c, v) PROVE CallFits(c, w)
  BY <1>1 DEF CallFits
<1> QED
  BY <1>1, Zenon DEF RequestFits, CallsFit

LEMMA IdleFits == ASSUME NEW v PROVE RequestFits(Idle, v)
BY NoCallsFit DEF RequestFits, RequestFields, Idle

LEMMA AskedFits ==
  ASSUME NEW v, NEW h, NEW calls, CallsFit(calls, v), calls # <<>>
  PROVE  RequestFits([Idle EXCEPT !.handler = h, !.calls = calls, !.stage = "asked"], v)
<1> DEFINE q == [Idle EXCEPT !.handler = h, !.calls = calls, !.stage = "asked"]
<1>1. Idle = [field \in RequestFields |-> Idle[field]]
  BY IdleFits DEF RequestFits
<1>2. q = [field \in RequestFields |-> q[field]] /\ q.calls = calls
  BY <1>1 DEF RequestFields
<1> HIDE DEF q
<1>3. RequestFits(q, v)
  BY <1>2 DEF RequestFits
<1> QED
  BY <1>3 DEF q

(* A handler that begins leaves the others as they are; the view may change *)
(* as long as it fits.                                                      *)
LEMMA BeginFits ==
  ASSUME OwnNumber, page = "sources", UNCHANGED page, ViewFits(view'),
         \/ view'.number = view.number /\ view'.chosen = view.chosen
         \/ view'.number = view.number + 1,
         NEW r \in Requests, NEW h, NEW calls, CallsFit(calls, view'), calls # <<>>,
         Begin(r, h, calls)
  PROVE  OwnNumber'
<1> DEFINE new == [Idle EXCEPT !.handler = h, !.calls = calls, !.stage = "asked"]
<1>1. RequestFits(new, view')
  BY AskedFits
<1>2. \A s \in Requests : RequestFits(req[s], view')
  BY StillFits DEF OwnNumber, ViewFits
<1> HIDE DEF new
<1>3. req' = [req EXCEPT ![r] = new]
  BY DEF Begin, new
<1>4. /\ req' = [s \in Requests |-> req'[s]]
      /\ \A s \in Requests : req'[s] = IF s = r THEN new ELSE req[s]
  BY <1>3 DEF OwnNumber
<1> QED
  BY <1>1, <1>2, <1>4, Zenon DEF OwnNumber

LEMMA ViewOnlyFits ==
  ASSUME OwnNumber, page = "sources", UNCHANGED <<page, req>>, ViewFits(view'),
         \/ view'.number = view.number /\ view'.chosen = view.chosen
         \/ view'.number = view.number + 1
  PROVE  OwnNumber'
<1>1. \A s \in Requests : RequestFits(req[s], view')
  BY StillFits DEF OwnNumber, ViewFits
<1> QED
  BY <1>1 DEF OwnNumber

-----------------------------------------------------------------------------
(* What the user does. *)

LEMMA OtherPagesFit ==
  ASSUME page = "sources", NEW r \in Requests
  PROVE  /\ ~handleAdd(r) /\ ~SeriesMade(r) /\ ~ToggleAuto /\ ~TypeKey /\ ~Cancel
         /\ \A f \in Filters : ~PickFilter(r, f)
         /\ \A i \in Items :
              /\ ~handleRemove(r, i) /\ ~handleResend(r, i) /\ ~toggleSuppressed(r, i)
              /\ ~retry(r, i) /\ ~deleteSeries(r, i) /\ ~handleSaveConfig(r, i)
              /\ ~handleSync(r, i) /\ ~assignToSeries(r, i) /\ ~runPreview(r, i)
              /\ ~ReaderVerifies(i) /\ ~Configure(i) /\ ~PickWorkflow(i)
BY DEF handleAdd, SeriesMade, ToggleAuto, TypeKey, Cancel, PickFilter, handleRemove,
       handleResend, toggleSuppressed, retry, deleteSeries, handleSaveConfig, handleSync,
       assignToSeries, runPreview, ReaderVerifies, Configure, PickWorkflow, Click

WithPreview(v, i) == [v EXCEPT !.chosen = i, !.result = NoItem, !.number = v.number + 1]
LEMMA NewPreviewFits ==
  ASSUME NEW v, ViewFits(v), NEW i
  PROVE  LET w == WithPreview(v, i) IN
         ViewFits(w) /\ w.number = v.number + 1 /\ w.chosen = i
<1> DEFINE w == WithPreview(v, i)
<1>1. v = [field \in ViewFields |-> v[field]] /\ v.number \in Nat
  BY DEF ViewFits
<1>2. /\ w = [field \in ViewFields |-> w[field]]
      /\ w.chosen = i /\ w.result = NoItem /\ w.number = v.number + 1
  BY <1>1 DEF ViewFields, WithPreview
<1> HIDE DEF w
<1>3. w.number \in Nat
  BY <1>1, <1>2
<1>4. ViewFits(w)
  BY <1>2, <1>3 DEF ViewFits
<1> QED
  BY <1>2, <1>4 DEF w

LEMMA OpenPreviewFits ==
  ASSUME OwnNumber, page = "sources", NEW r \in Requests, NEW i \in Items, openPreview(r, i)
  PROVE  OwnNumber'
<1> DEFINE c == Call("chunks", i, view.number + 1)
<1>1. ViewFits(view) /\ view' = WithPreview(view, i)
  BY DEF openPreview, OwnNumber, WithPreview
<1>2. ViewFits(view') /\ view'.number = view.number + 1 /\ view'.chosen = i
  BY <1>1, NewPreviewFits
<1>3. CallFits(c, view')
  <2>1. view.number + 1 \in Nat
    BY <1>1 DEF ViewFits
  <2>2. c.op = "chunks" /\ c.arg = view.number + 1 /\ c.id = i
    BY DEF Call
  <2> QED
    BY <1>2, <2>1, <2>2 DEF CallFits, SourceOps
<1>4. CallsFit(<<c>>, view') /\ <<c>> # <<>>
  BY <1>3, OneCallFits
<1>5. Begin(r, "openPreview", <<c>>) /\ UNCHANGED page
  BY DEF openPreview, Click
<1> QED
  BY <1>2, <1>4, <1>5, BeginFits

LEMMA ClosePreviewFits ==
  ASSUME OwnNumber, page = "sources", ClosePreview PROVE OwnNumber'
<1>1. ViewFits(view) /\ view' = WithPreview(view, NoItem)
  BY DEF ClosePreview, OwnNumber, WithPreview
<1>2. ViewFits(view') /\ view'.number = view.number + 1
  BY <1>1, NewPreviewFits
<1> QED
  BY <1>2, ViewOnlyFits DEF ClosePreview

(* The other buttons, the timer and the effect leave the view alone.        *)
LEMMA PlainHandlersFit ==
  ASSUME OwnNumber, page = "sources", NEW r \in Requests,
         \/ addSource(r) \/ Load(r) \/ Poll(r)
         \/ \E i \in Items : reindex(r, i) \/ removeSource(r, i)
  PROVE  OwnNumber'
<1>1. ASSUME NEW h, NEW calls, Begin(r, h, calls), UNCHANGED <<page, view>>,
             CallsFit(calls, view), calls # <<>>
      PROVE  OwnNumber'
  BY <1>1, BeginFits DEF OwnNumber
<1>2. CallsFit(Reload, view) /\ Reload # <<>>
  BY ReloadFits DEF Reload
<1>3. ASSUME NEW op \in SourceOps \ {"chunks"}, NEW id
      PROVE  /\ CallsFit(<<Call(op, id, 0)>> \o Reload, view)
             /\ <<Call(op, id, 0)>> \o Reload # <<>>
             /\ CallsFit(<<Call(op, id, 0)>>, view) /\ <<Call(op, id, 0)>> # <<>>
  <2>1. <<Call(op, id, 0)>> \o Reload = <<Call(op, id, 0), Call("list", NoItem, view.filter)>>
    BY TwoElements, Zenon DEF Reload
  <2>2. <<Call(op, id, 0), Call("list", NoItem, view.filter)>> # <<>> /\ <<Call(op, id, 0)>> # <<>>
    OBVIOUS
  <2> QED
    BY <2>1, <2>2, ReloadFits, PlainCallFits, OneCallFits, Zenon
<1>4. {"add", "reindex", "remove"} \subseteq SourceOps \ {"chunks"}
  BY DEF SourceOps
<1>5. CASE Load(r) \/ Poll(r)
  BY <1>1, <1>2, <1>5 DEF Load, Poll
<1>6. CASE addSource(r)
  BY <1>1, <1>3, <1>4, <1>6 DEF addSource, Click
<1>7. ASSUME NEW i \in Items, reindex(r, i) \/ removeSource(r, i) PROVE OwnNumber'
  BY <1>1, <1>3, <1>4, <1>7 DEF reindex, removeSource, Click
<1> QED
  BY <1>5, <1>6, <1>7

-----------------------------------------------------------------------------
(* The server, and the answers. *)

LEMMA ServeFits ==
  ASSUME OwnNumber, page = "sources", NEW r \in Requests, Serve(r) \/ RequestFails(r)
  PROVE  OwnNumber'
<1>1. /\ ViewFits(view) /\ req = [s \in Requests |-> req[s]]
      /\ \A s \in Requests : RequestFits(req[s], view)
  BY DEF OwnNumber
<1>2. ASSUME NEW q, req' = [req EXCEPT ![r] = q], RequestFits(q, view), UNCHANGED <<page, view>>
      PROVE  OwnNumber'
  BY <1>1, <1>2 DEF OwnNumber
<1>3. req[r].calls # <<>>
  BY <1>1 DEF Serve, RequestFails, RequestFits
<1>4. CASE Serve(r)
  <2> DEFINE c == Head(req[r].calls)
             q == [req[r] EXCEPT !.stage = "answered", !.ok = ~Refused(c),
                     !.rows = IF c.op = "list" THEN Listed(c.arg) ELSE Nothing,
                     !.tied = IF c.op = "list" THEN server.tied ELSE Untied]
  <2>1. q = [field \in RequestFields |-> q[field]] /\ q.calls = req[r].calls
    BY <1>1 DEF RequestFits, RequestFields
  <2>2. req' = [req EXCEPT ![r] = q] /\ UNCHANGED <<page, view>>
    BY <1>4 DEF Serve
  <2> HIDE DEF q
  <2>3. RequestFits(q, view)
    BY <1>1, <1>3, <2>1 DEF RequestFits
  <2> QED
    BY <1>2, <2>2, <2>3
<1>5. CASE RequestFails(r)
  <2> DEFINE q == [Idle EXCEPT !.handler = req[r].handler, !.calls = req[r].calls,
                               !.stage = "answered"]
  <2>1. Idle = [field \in RequestFields |-> Idle[field]]
    BY IdleFits DEF RequestFits
  <2>2. q = [field \in RequestFields |-> q[field]] /\ q.calls = req[r].calls
    BY <2>1 DEF RequestFields
  <2>3. req' = [req EXCEPT ![r] = q] /\ UNCHANGED <<page, view>>
    BY <1>5 DEF RequestFails
  <2> HIDE DEF q
  <2>4. RequestFits(q, view)
    BY <1>1, <1>3, <2>2 DEF RequestFits
  <2> QED
    BY <1>2, <2>3, <2>4
<1> QED
  BY <1>4, <1>5

(* What an answer does to the page. *)
LEMMA ToldFits ==
  ASSUME page = "sources", ViewFits(view), NEW q, NEW c, CallFits(c, view)
  PROVE  /\ ViewFits(Told(q, c)) /\ ViewFits(Failed(c))
         /\ \A w \in {Told(q, c), Failed(c)} :
              w.number = view.number /\ w.chosen = view.chosen
<1>1. view = [field \in ViewFields |-> view[field]] /\ view.number \in Nat
      /\ (view.result # NoItem => view.result = view.chosen)
  BY DEF ViewFits
<1>2. ASSUME NEW w, w = [field \in ViewFields |-> w[field]], w.number = view.number,
             w.chosen = view.chosen, w.result \in {view.result, view.chosen}
      PROVE  ViewFits(w)
  BY <1>1, <1>2 DEF ViewFits
<1> DEFINE shown == [view EXCEPT !.rows = q.rows, !.tied = q.tied, !.listed = c.arg,
                                 !.loading = FALSE, !.error = FALSE]
           taken == [view EXCEPT !.rows[c.id] = "none"]
           chunks == [view EXCEPT !.result = c.id]
           noList == [view EXCEPT !.error = TRUE, !.loading = FALSE]
           notice == [view EXCEPT !.error = TRUE]
<1>3. \/ Told(q, c) \in {shown, taken, view}
      \/ c.op = "chunks" /\ c.arg = view.number /\ Told(q, c) = chunks
  BY DEF Told, CallFits, SourceOps
<1>4. Failed(c) \in {noList, notice, view}
  BY DEF Failed, CallFits, SourceOps
<1>5. c.op = "chunks" /\ c.arg = view.number => c.id = view.chosen
  BY DEF CallFits
<1>6. \A w \in {shown, taken, noList, notice, view} :
        /\ w = [field \in ViewFields |-> w[field]] /\ w.number = view.number
        /\ w.chosen = view.chosen /\ w.result = view.result
  BY <1>1 DEF ViewFields
<1>7. /\ chunks = [field \in ViewFields |-> chunks[field]] /\ chunks.number = view.number
      /\ chunks.chosen = view.chosen /\ chunks.result = c.id
  BY <1>1 DEF ViewFields
<1> HIDE DEF shown, taken, chunks, noList, notice
<1> QED
  BY <1>2, <1>3, <1>4, <1>5, <1>6, <1>7

LEMMA ReleasedFits ==
  ASSUME NEW v, ViewFits(v), NEW q, NEW rest
  PROVE  LET w == Released(v, q, rest) IN
         ViewFits(w) /\ w.number = v.number /\ w.chosen = v.chosen
<1> DEFINE w == [v EXCEPT !.busy = NoItem]
<1>1. /\ w = [field \in ViewFields |-> w[field]]
      /\ w.number = v.number /\ w.chosen = v.chosen /\ w.result = v.result
  BY DEF ViewFits, ViewFields
<1>2. Released(v, q, rest) \in {v, w}
  BY DEF Released
<1> HIDE DEF w
<1>3. ViewFits(w)
  BY <1>1 DEF ViewFits
<1> QED
  BY <1>1, <1>2, <1>3

LEMMA AgedFits ==
  ASSUME \A s \in Requests : RequestFits(req[s], view), NEW r \in Requests, NEW c
  PROVE  \A s \in Requests : RequestFits(Aged(r, c)[s], view)
<1> SUFFICES ASSUME NEW s \in Requests PROVE RequestFits(Aged(r, c)[s], view)
  OBVIOUS
<1> DEFINE q == [req[s] EXCEPT !.old = TRUE]
<1>1. q = [field \in RequestFields |-> q[field]] /\ q.calls = req[s].calls /\ q.stage = req[s].stage
  BY DEF RequestFits, RequestFields
<1>2. Aged(r, c)[s] \in {q, req[s]}
  BY DEF Aged
<1> HIDE DEF q
<1>3. RequestFits(q, view)
  BY <1>1 DEF RequestFits
<1> QED
  BY <1>2, <1>3

LEMMA AnswerFits ==
  ASSUME OwnNumber, page = "sources", NEW r \in Requests, Answer(r)
  PROVE  OwnNumber'
<1> DEFINE q == req[r]
           c == Head(q.calls)
           rest == IF q.ok THEN Tail(q.calls) ELSE <<>>
           shown == IF q.ok THEN Told(q, c) ELSE Failed(c)
           new == IF rest = <<>> THEN Idle
                  ELSE [Idle EXCEPT !.handler = q.handler, !.calls = rest, !.stage = "asked"]
<1>1. /\ ViewFits(view) /\ req = [s \in Requests |-> req[s]]
      /\ \A s \in Requests : RequestFits(req[s], view)
  BY DEF OwnNumber
<1>2. /\ q.stage = "answered" /\ view' = Released(shown, q, rest)
      /\ req' = [Aged(r, c) EXCEPT ![r] = new] /\ UNCHANGED page
  BY Zenon DEF Answer
<1>3. q.calls # <<>> /\ CallsFit(q.calls, view)
  BY <1>1, <1>2 DEF RequestFits
<1>4. CallFits(c, view) /\ CallsFit(rest, view)
  BY <1>3, FirstCallFits, NoCallsFit
<1> HIDE DEF rest
<1>5. RequestFits(new, view)
  BY <1>4, IdleFits, AskedFits
<1>6. ViewFits(shown) /\ shown.number = view.number /\ shown.chosen = view.chosen
  BY <1>1, <1>4, ToldFits
<1>7. ViewFits(view') /\ view'.number = view.number /\ view'.chosen = view.chosen
  BY <1>2, <1>6, ReleasedFits
<1>8. \A s \in Requests : RequestFits(Aged(r, c)[s], view)
  BY <1>1, AgedFits
<1> HIDE DEF new, c
<1>9. /\ req' = [s \in Requests |-> req'[s]]
      /\ \A s \in Requests : req'[s] = IF s = r THEN new ELSE Aged(r, c)[s]
  BY <1>2 DEF Aged
<1>10. \A s \in Requests : RequestFits(req'[s], view)
  BY <1>5, <1>8, <1>9
<1>11. \A s \in Requests : RequestFits(req'[s], view')
  BY <1>1, <1>7, <1>10, StillFits DEF ViewFits
<1> QED
  BY <1>7, <1>9, <1>11 DEF OwnNumber

-----------------------------------------------------------------------------
(* ChunksOfPreview. *)

LEMMA OwnNumberInit == Init => OwnNumber
<1> SUFFICES ASSUME Init, page = "sources" PROVE OwnNumber
  BY DEF OwnNumber
<1>1. view = Closed /\ req = [r \in Requests |-> Idle]
  BY DEF Init
<1>2. ViewFits(Closed)
  BY DEF Closed, ViewFits, ViewFields
<1> QED
  BY <1>1, <1>2, IdleFits DEF OwnNumber

LEMMA SamePage == [Next]_vars => UNCHANGED page
<1>1. ASSUME NEW r \in Requests, UserActs(r) PROVE UNCHANGED page
  BY <1>1, Zenon
     DEF UserActs, addSource, handleAdd, openPreview, reindex, removeSource, handleRemove,
         handleResend, toggleSuppressed, retry, deleteSeries, handleSaveConfig, handleSync,
         assignToSeries, runPreview, PickFilter, SeriesMade, Click
<1>2. ASSUME NEW r \in Requests, Load(r) \/ Serve(r) \/ RequestFails(r) \/ Answer(r)
      PROVE  UNCHANGED page
  BY <1>2, Zenon DEF Load, Serve, RequestFails, Answer
<1>3. ASSUME Polls \/ ClosePreview \/ ToggleAuto \/ TypeKey \/ Cancel PROVE UNCHANGED page
  BY <1>3, Zenon DEF Polls, Poll, ClosePreview, ToggleAuto, TypeKey, Cancel
<1>4. ASSUME Others \/ UNCHANGED vars PROVE UNCHANGED page
  BY <1>4 DEF Others, ItemEnds, ReaderVerifies, Configure, PickWorkflow, vars
<1> QED
  BY <1>1, <1>2, <1>3, <1>4 DEF Next

LEMMA OwnNumberStep == OwnNumber /\ [Next]_vars => OwnNumber'
<1> SUFFICES ASSUME OwnNumber, [Next]_vars PROVE OwnNumber'
  OBVIOUS
<1>1. CASE page # "sources"
  BY <1>1, SamePage DEF OwnNumber
<1>2. CASE page = "sources"
  <2>1. ASSUME NEW r \in Requests, UserActs(r) PROVE OwnNumber'
    BY <1>2, <2>1, OtherPagesFit, PlainHandlersFit, OpenPreviewFits, Zenon DEF UserActs
  <2>2. ASSUME NEW r \in Requests, Load(r) \/ Serve(r) \/ RequestFails(r) \/ Answer(r)
        PROVE  OwnNumber'
    BY <1>2, <2>2, PlainHandlersFit, ServeFits, AnswerFits, Zenon
  <2>3. CASE Polls
    BY <1>2, <2>3, PlainHandlersFit, Zenon DEF Polls
  <2>4. CASE ClosePreview
    BY <1>2, <2>4, ClosePreviewFits
  <2>5. PICK r \in Requests : TRUE
    BY LibraryAssumption
  <2>6. ~ToggleAuto /\ ~TypeKey /\ ~Cancel
    BY <1>2, <2>5, OtherPagesFit
  <2>7. CASE Others
    <3>1. PICK i \in Items : ItemEnds(i)
      BY <1>2, <2>5, <2>7, OtherPagesFit DEF Others
    <3> QED
      BY <1>2, <3>1, ViewOnlyFits DEF ItemEnds, OwnNumber
  <2>8. CASE UNCHANGED vars
    BY <1>2, <2>8, ViewOnlyFits DEF vars, OwnNumber
  <2> QED
    BY <2>1, <2>2, <2>3, <2>4, <2>6, <2>7, <2>8, Zenon DEF Next
<1> QED
  BY <1>1, <1>2

(* The chunks that are shown are always those of the source that is open,   *)
(* for any number of sources, handlers, failures and previews.              *)
THEOREM ChunksBelong == Spec => []ChunksOfPreview
<1>1. OwnNumber => ChunksOfPreview
  BY DEF OwnNumber, ViewFits, ChunksOfPreview
<1> QED
  BY <1>1, OwnNumberInit, OwnNumberStep, PTL DEF Spec

-----------------------------------------------------------------------------
(* What the pages with a list hold, and what their handlers have to do: a   *)
(* change that the page cannot make on its own copy is followed by a        *)
(* reading, and only such changes are shown without one.                    *)
IsMap(f) == f = [i \in Items |-> f[i]]
ReadsAll(c) == c.op = "list" /\ c.arg = "all"
Single(c) ==
  \/ ReadsAll(c)
  \/ c.op \in {"chunks", "resend", "sync", "runPreview"}
  \/ c.op = "assign" /\ page = "workflows"
  \/ c.op = "remove" /\ page \in {"sources", "dashboard"}
ReadAfter(c) ==
  \/ c.op = "add" /\ page \in {"sources", "recipients"}
  \/ c.op = "reindex" /\ page = "sources"
  \/ c.op \in {"toggle", "remove"} /\ page = "recipients"
  \/ c.op = "saveConfig" /\ page = "connectors"
CallsOf(s) ==
  \/ s = <<>>
  \/ s = <<s[1]>> /\ Single(s[1])
  \/ s = <<s[1], s[2]>> /\ ReadAfter(s[1]) /\ ReadsAll(s[2])

First(q) == Head(q.calls)
Assigns(q) == q.stage # "none" /\ First(q).op = "assign"
RequestShaped(q) ==
  /\ q = [field \in RequestFields |-> q[field]]
  /\ CallsOf(q.calls)
  /\ q.stage \in {"none", "asked", "answered"}
  /\ q.handler = "none" <=> q.stage = "none"
  /\ q.stage # "none" => q.calls # <<>>
  /\ q.stage = "answered" /\ First(q).op = "list" /\ faults = 0 => q.ok
  /\ IsMap(q.rows) /\ IsMap(q.tied)
  /\ Assigns(q) => q.handler = "assignToSeries"
ServerShaped ==
  /\ server = [rows |-> server.rows, tied |-> server.tied]
  /\ IsMap(server.rows) /\ IsMap(server.tied)
  /\ page # "sources" => \A i \in Items : server.rows[i] # "busy"
ViewShaped(v) ==
  /\ v = [field \in ViewFields |-> v[field]]
  /\ IsMap(v.rows) /\ IsMap(v.tied) /\ v.filter = "all"
HasDone(q, op, i) == q.stage = "answered" /\ q.ok /\ First(q).op = op /\ First(q).id = i
Done(q) ==
  \A i \in Items : /\ HasDone(q, "remove", i) => server.rows[i] = Deleted
                   /\ HasDone(q, "assign", i) => server.tied[i] = First(q).arg
Shaped ==
  page # "runs" =>
    /\ ServerShaped /\ ViewShaped(view)
    /\ faults \in Nat
    /\ req = [r \in Requests |-> req[r]]
    /\ \A r \in Requests : RequestShaped(req[r]) /\ Done(req[r])
    /\ \A r, s \in Requests : Assigns(req[r]) /\ Assigns(req[s]) => r = s

(* A row or a tie is right when it is the server's, or shows an indexing,   *)
(* so that the timer reads again; otherwise it is due to be made right by a *)
(* handler that is sure to read, has read, or takes out or ties the row.    *)
Seen(i) == IF server.rows[i] # Deleted THEN server.rows[i] ELSE "none"
RowRight(rows, i) == rows[i] = Seen(i) \/ (page = "sources" /\ rows[i] = "busy")
TieRight(tied, i) == tied[i] = server.tied[i]
WillRead(q) ==
  \/ q.stage = "asked" /\ First(q).op = "list"
  \/ q.stage = "answered" /\ q.ok /\ First(q).op # "list" /\ Tail(q.calls) # <<>>
HasRead(q) == q.stage = "answered" /\ First(q).op = "list"
RowDue(q, i) ==
  \/ WillRead(q)
  \/ HasRead(q) /\ RowRight(q.rows, i)
  \/ HasDone(q, "remove", i)
TieDue(q, i) ==
  \/ WillRead(q)
  \/ HasRead(q) /\ TieRight(q.tied, i)
  \/ HasDone(q, "assign", i)
Right(rows, tied) ==
  \A i \in Items :
    /\ RowRight(rows, i) \/ \E s \in Requests : RowDue(req[s], i)
    /\ TieRight(tied, i) \/ \E s \in Requests : TieDue(req[s], i)
Current ==
  page # "runs" /\ faults = 0 /\ ~stale =>
    /\ ~view.loading => Right(view.rows, view.tied)
    /\ \A s \in Requests : HasRead(req[s]) /\ ~req[s].old => Right(req[s].rows, req[s].tied)

(* Without a handler that runs nothing is due. *)
LEMMA CurrentShown == Shaped /\ Current => ListIsCurrent
<1> SUFFICES ASSUME Shaped, Current, page # "runs", ~view.loading, Active = {}, ~SourcesPoll,
                    faults = 0, ~stale
             PROVE  view.rows = Listed("all") /\ view.tied = server.tied
  BY DEF ListIsCurrent
<1>1. \A s \in Requests : req[s].stage = "none"
  BY DEF Shaped, RequestShaped, Active
<1>2. Right(view.rows, view.tied)
  BY DEF Current
<1>3. \A i \in Items : RowRight(view.rows, i) /\ TieRight(view.tied, i)
  BY <1>1, <1>2 DEF Right, RowDue, TieDue, WillRead, HasRead, HasDone
<1>4. \A i \in Items : page = "sources" => view.rows[i] # "busy"
  BY DEF SourcesPoll, Shown
<1>5. \A i \in Items : view.rows[i] = Listed("all")[i] /\ view.tied[i] = server.tied[i]
  BY <1>3, <1>4 DEF RowRight, TieRight, Seen, Listed
<1>6. IsMap(view.rows) /\ IsMap(view.tied) /\ IsMap(server.tied) /\ IsMap(Listed("all"))
  BY DEF Shaped, ServerShaped, ViewShaped, IsMap, Listed
<1> QED
  BY <1>5, <1>6 DEF IsMap

-----------------------------------------------------------------------------
(* Shapes. *)

LEMMA SingleShaped ==
  ASSUME NEW op, NEW id, NEW arg, Single(Call(op, id, arg))
  PROVE  CallsOf(<<Call(op, id, arg)>>) /\ <<Call(op, id, arg)>> # <<>>
BY DEF CallsOf

LEMMA ReloadShaped ==
  ASSUME view.filter = "all"
  PROVE  /\ CallsOf(Reload) /\ Reload # <<>> /\ Head(Reload).op = "list"
         /\ \A op, id, arg : ReadAfter(Call(op, id, arg)) =>
              /\ CallsOf(<<Call(op, id, arg)>> \o Reload) /\ <<Call(op, id, arg)>> \o Reload # <<>>
              /\ Head(<<Call(op, id, arg)>> \o Reload).op = op
<1> DEFINE l == Call("list", NoItem, view.filter)
<1>1. ReadsAll(l) /\ l.op = "list"
  BY DEF ReadsAll, Call
<1>2. Reload = <<l>>
  BY DEF Reload
<1> HIDE DEF l
<1>3. CallsOf(<<l>>) /\ <<l>> # <<>>
  BY <1>1 DEF CallsOf, Single
<1>4. Head(<<l>>) = l
  BY OneElement
<1>5. ASSUME NEW op, NEW id, NEW arg, ReadAfter(Call(op, id, arg))
      PROVE  /\ CallsOf(<<Call(op, id, arg)>> \o Reload) /\ <<Call(op, id, arg)>> \o Reload # <<>>
             /\ Head(<<Call(op, id, arg)>> \o Reload).op = op
  <2> DEFINE c == Call(op, id, arg)
  <2>1. c.op = op
    BY DEF Call
  <2> HIDE DEF c
  <2>2. <<c>> \o <<l>> = <<c, l>> /\ Head(<<c, l>>) = c
    BY TwoElements, Zenon
  <2>3. ReadAfter(c)
    BY <1>5 DEF c
  <2>4. CallsOf(<<c, l>>) /\ <<c, l>> # <<>>
    BY <1>1, <2>3 DEF CallsOf
  <2> QED
    BY <1>2, <2>1, <2>2, <2>4 DEF c
<1> QED
  BY <1>1, <1>2, <1>3, <1>4, <1>5

LEMMA CallsAre ==
  ASSUME NEW s, CallsOf(s), s # <<>>
  PROVE  \/ s = <<s[1]>> /\ Head(s) = s[1] /\ Tail(s) = <<>> /\ Single(Head(s))
         \/ /\ s = <<s[1], s[2]>> /\ Head(s) = s[1] /\ Tail(s) = <<s[2]>> /\ ReadAfter(Head(s))
            /\ ReadsAll(s[2]) /\ Head(Tail(s)) = s[2] /\ Tail(s) # <<>>
<1>1. CASE s = <<s[1]>> /\ Single(s[1])
  <2>1. Head(s) = s[1] /\ Tail(s) = <<>>
    BY <1>1, OneElement, Zenon
  <2> QED
    BY <1>1, <2>1
<1>2. CASE s = <<s[1], s[2]>> /\ ReadAfter(s[1]) /\ ReadsAll(s[2])
  <2>1. Head(s) = s[1] /\ Tail(s) = <<s[2]>>
    BY <1>2, TwoElements, Zenon
  <2>2. Head(Tail(s)) = s[2] /\ Tail(s) # <<>>
    BY <2>1, OneElement
  <2> QED
    BY <1>2, <2>1, <2>2, Zenon
<1> QED
  BY <1>1, <1>2 DEF CallsOf

LEMMA IdleShaped == RequestShaped(Idle) /\ Idle.stage = "none" /\ ~Assigns(Idle)
<1>1. Idle = [field \in RequestFields |-> Idle[field]]
  BY IdleFits DEF RequestFits
<1>2. /\ Idle.handler = "none" /\ Idle.stage = "none" /\ Idle.calls = <<>>
      /\ IsMap(Idle.rows) /\ IsMap(Idle.tied)
  BY DEF Idle, IsMap, Nothing, Untied
<1> QED
  BY <1>1, <1>2 DEF RequestShaped, CallsOf, Assigns

(* A handler that has a call to ask for. *)
Asking(h, calls) == [Idle EXCEPT !.handler = h, !.calls = calls, !.stage = "asked"]
LEMMA AskingShaped ==
  ASSUME NEW h, h # "none", NEW calls, CallsOf(calls), calls # <<>>,
         Head(calls).op = "assign" => h = "assignToSeries"
  PROVE  LET q == Asking(h, calls) IN
         /\ RequestShaped(q) /\ q.stage = "asked" /\ q.calls = calls
         /\ Assigns(q) => Head(calls).op = "assign"
<1> DEFINE q == Asking(h, calls)
<1>1. Idle = [field \in RequestFields |-> Idle[field]] /\ IsMap(Idle.rows) /\ IsMap(Idle.tied)
  BY IdleShaped DEF RequestShaped
<1>2. /\ q = [field \in RequestFields |-> q[field]] /\ q.calls = calls /\ q.stage = "asked"
      /\ q.handler = h /\ q.rows = Idle.rows /\ q.tied = Idle.tied
  BY <1>1 DEF Asking, RequestFields
<1> HIDE DEF q
<1>3. RequestShaped(q) /\ (Assigns(q) => Head(calls).op = "assign")
  BY <1>1, <1>2 DEF RequestShaped, Assigns, First
<1> QED
  BY <1>2, <1>3 DEF q

(* How shapes are kept: nothing of a request depends on more than the page, *)
(* and on whether something failed.                                        *)
LEMMA RequestShapedStays ==
  ASSUME NEW q, RequestShaped(q), UNCHANGED page, faults' = 0 => faults = 0
  PROVE  RequestShaped(q)'
BY Zenon DEF RequestShaped, CallsOf, Single, ReadAfter

LEMMA BeginDoes ==
  ASSUME req = [s \in Requests |-> req[s]], NEW r \in Requests, NEW h, NEW calls, Begin(r, h, calls)
  PROVE  /\ req[r].handler = "none" /\ req' = [s \in Requests |-> req'[s]]
         /\ \A s \in Requests : req'[s] = IF s = r THEN Asking(h, calls) ELSE req[s]
<1> DEFINE q == Asking(h, calls)
<1>1. req' = [req EXCEPT ![r] = q] /\ req[r].handler = "none"
  BY DEF Begin, Asking
<1> HIDE DEF q
<1>2. /\ req' = [s \in Requests |-> req'[s]]
      /\ \A s \in Requests : req'[s] = IF s = r THEN q ELSE req[s]
  BY <1>1
<1> QED
  BY <1>1, <1>2 DEF q

(* What is due stays due when the server is left alone and handlers only    *)
(* begin.                                                                  *)
LEMMA RightStays ==
  ASSUME UNCHANGED <<page, server>>, \A s \in Requests : req'[s] = req[s] \/ req[s].stage = "none",
         NEW rows, NEW tied, Right(rows, tied)
  PROVE  Right(rows, tied)'
<1> SUFFICES ASSUME NEW i \in Items
             PROVE  /\ RowRight(rows, i)' \/ \E s \in Requests : RowDue(req[s], i)'
                    /\ TieRight(tied, i)' \/ \E s \in Requests : TieDue(req[s], i)'
  BY DEF Right
<1>1. /\ RowRight(rows, i) => RowRight(rows, i)'
      /\ TieRight(tied, i) => TieRight(tied, i)'
  BY DEF RowRight, TieRight, Seen
<1>2. ASSUME NEW s \in Requests, RowDue(req[s], i) PROVE RowDue(req[s], i)'
  <2>1. req'[s] = req[s]
    BY <1>2 DEF RowDue, WillRead, HasRead, HasDone
  <2> QED
    BY <1>2, <2>1 DEF RowDue, WillRead, HasRead, HasDone, First, RowRight, Seen
<1>3. ASSUME NEW s \in Requests, TieDue(req[s], i) PROVE TieDue(req[s], i)'
  <2>1. req'[s] = req[s]
    BY <1>3 DEF TieDue, WillRead, HasRead, HasDone
  <2> QED
    BY <1>3, <2>1 DEF TieDue, WillRead, HasRead, HasDone, First, TieRight
<1> QED
  BY <1>1, <1>2, <1>3 DEF Right

LEMMA BeginKeeps ==
  ASSUME Shaped, Current, page # "runs", UNCHANGED <<page, server, faults, stale>>,
         ViewShaped(view'), view'.rows = view.rows, view'.tied = view.tied,
         view'.loading = view.loading,
         NEW r \in Requests, NEW h, h # "none", NEW calls, CallsOf(calls), calls # <<>>,
         Head(calls).op = "assign" => h = "assignToSeries" /\ Running(h) = {},
         Begin(r, h, calls)
  PROVE  Shaped' /\ Current'
<1> DEFINE q == Asking(h, calls)
<1>1. /\ RequestShaped(q) /\ q.stage = "asked" /\ q.calls = calls
      /\ Assigns(q) => Head(calls).op = "assign"
  BY AskingShaped
<1>2. /\ ServerShaped /\ faults \in Nat
      /\ \A s \in Requests : RequestShaped(req[s]) /\ Done(req[s])
      /\ \A s, t \in Requests : Assigns(req[s]) /\ Assigns(req[t]) => s = t
  BY DEF Shaped
<1>3. /\ req[r].stage = "none" /\ req' = [s \in Requests |-> req'[s]]
      /\ \A s \in Requests : req'[s] = IF s = r THEN q ELSE req[s]
  BY <1>2, BeginDoes DEF Shaped, RequestShaped
<1> HIDE DEF q
<1>4. ASSUME NEW s \in Requests PROVE (RequestShaped(req[s]) /\ Done(req[s]))'
  <2>1. RequestShaped(req'[s]) /\ Done(req'[s])
    BY <1>1, <1>2, <1>3 DEF Done, HasDone
  <2>2. PICK p : p = req'[s]
    OBVIOUS
  <2>3. RequestShaped(p)' /\ Done(p)'
    BY <2>1, <2>2, RequestShapedStays DEF Done, HasDone
  <2> QED
    BY <2>2, <2>3 DEF RequestShaped, Done, HasDone, Assigns, First
<1>5. ASSUME NEW s \in Requests, NEW t \in Requests, Assigns(req'[s]), Assigns(req'[t]) PROVE s = t
  <2>1. ASSUME NEW p \in Requests, Assigns(req[p]), Assigns(q) PROVE FALSE
    <3>1. h = "assignToSeries" /\ Running(h) = {}
      BY <1>1, <2>1
    <3>2. req[p].handler = "assignToSeries"
      BY <1>2, <2>1 DEF RequestShaped
    <3> QED
      BY <3>1, <3>2 DEF Running, Active
  <2> QED
    BY <1>2, <1>3, <1>5, <2>1
<1>6. Shaped'
  BY <1>2, <1>3, <1>4, <1>5 DEF Shaped, ServerShaped, Assigns, First
<1>7. \A rows, tied : Right(rows, tied) => Right(rows, tied)'
  BY <1>3, RightStays
<1>8. ASSUME NEW s \in Requests, HasRead(req'[s]), faults' = 0, ~stale', ~req'[s].old
      PROVE  Right(req'[s].rows, req'[s].tied)
  BY <1>1, <1>3, <1>8 DEF HasRead, Current
<1>9. Current'
  BY <1>7, <1>8 DEF Current, HasRead, First
<1> QED
  BY <1>6, <1>9

-----------------------------------------------------------------------------
(* What the user does. *)

Plain(w) == ViewShaped(w) /\ w.rows = view.rows /\ w.tied = view.tied /\ w.loading = view.loading
LEMMA PlainViews ==
  ASSUME ViewShaped(view), NEW i, NEW n
  PROVE  /\ Plain(view) /\ Plain([view EXCEPT !.error = FALSE])
         /\ Plain([view EXCEPT !.busy = i]) /\ Plain([view EXCEPT !.result = i])
         /\ Plain([view EXCEPT !.key = i]) /\ Plain([view EXCEPT !.error = TRUE])
         /\ Plain([view EXCEPT !.chosen = i, !.result = NoItem])
         /\ Plain([view EXCEPT !.chosen = i, !.key = NoItem])
         /\ Plain([view EXCEPT !.chosen = i, !.result = NoItem, !.number = n])
<1>1. view = [field \in ViewFields |-> view[field]]
  BY DEF ViewShaped
<1>2. ASSUME NEW w, w = [field \in ViewFields |-> w[field]], w.rows = view.rows,
             w.tied = view.tied, w.loading = view.loading, w.filter = view.filter
      PROVE  Plain(w)
  BY <1>2 DEF Plain, ViewShaped
<1> DEFINE Ws == {view, [view EXCEPT !.error = FALSE], [view EXCEPT !.busy = i],
                  [view EXCEPT !.result = i], [view EXCEPT !.key = i], [view EXCEPT !.error = TRUE],
                  [view EXCEPT !.chosen = i, !.result = NoItem],
                  [view EXCEPT !.chosen = i, !.key = NoItem],
                  [view EXCEPT !.chosen = i, !.result = NoItem, !.number = n]}
<1>3. \A w \in Ws : /\ w = [field \in ViewFields |-> w[field]] /\ w.rows = view.rows
                    /\ w.tied = view.tied /\ w.loading = view.loading /\ w.filter = view.filter
  BY <1>1 DEF ViewFields
<1>4. \A w \in Ws : Plain(w)
  BY <1>2, <1>3
<1> QED
  BY <1>4

(* A handler begins; with it the view may change, but not in what is listed. *)
LEMMA PlainKeeps ==
  ASSUME Shaped, Current, page # "runs", UNCHANGED <<page, server, faults, stale>>, Plain(view'),
         NEW r \in Requests, NEW h, h # "none", NEW op, NEW id, NEW arg,
         \/ Begin(r, h, Reload) /\ op = "list"
         \/ Begin(r, h, <<Call(op, id, arg)>> \o Reload) /\ ReadAfter(Call(op, id, arg))
         \/ Begin(r, h, <<Call(op, id, arg)>>) /\ Single(Call(op, id, arg)),
         op = "assign" => h = "assignToSeries" /\ Running(h) = {}
  PROVE  Shaped' /\ Current'
<1>1. view.filter = "all"
  BY DEF Shaped, ViewShaped
<1>2. ASSUME NEW calls, Begin(r, h, calls), CallsOf(calls), calls # <<>>, Head(calls).op = op
      PROVE  Shaped' /\ Current'
  BY <1>2, BeginKeeps DEF Plain
<1>3. CASE Begin(r, h, Reload) /\ op = "list"
  BY <1>1, <1>2, <1>3, ReloadShaped
<1>4. CASE Begin(r, h, <<Call(op, id, arg)>> \o Reload) /\ ReadAfter(Call(op, id, arg))
  BY <1>1, <1>2, <1>4, ReloadShaped
<1>5. CASE Begin(r, h, <<Call(op, id, arg)>>) /\ Single(Call(op, id, arg))
  <2>1. Head(<<Call(op, id, arg)>>).op = op
    BY OneElement DEF Call
  <2> QED
    BY <1>2, <1>5, <2>1, SingleShaped
<1> QED
  BY <1>3, <1>4, <1>5

LEMMA ReadingKeeps ==
  ASSUME Shaped, Current, page # "runs", NEW r \in Requests, Load(r) \/ Poll(r)
  PROVE  Shaped' /\ Current'
<1>1. PICK h : Begin(r, h, Reload) /\ h # "none"
  BY DEF Load, Poll
<1>2. UNCHANGED <<page, server, faults, stale, view>>
  BY DEF Load, Poll
<1>3. Plain(view')
  BY <1>2, PlainViews DEF Shaped
<1>4. CallsOf(Reload) /\ Reload # <<>> /\ Head(Reload).op = "list"
  BY ReloadShaped DEF Shaped, ViewShaped
<1> QED
  BY <1>1, <1>2, <1>3, <1>4, BeginKeeps DEF Plain

LEMMA ButtonKeeps ==
  ASSUME Shaped, Current, page # "runs", NEW r \in Requests, NEW i,
         \/ addSource(r) \/ handleAdd(r)
         \/ openPreview(r, i) \/ reindex(r, i) \/ removeSource(r, i)
         \/ handleRemove(r, i) \/ handleResend(r, i) \/ toggleSuppressed(r, i)
         \/ retry(r, i) \/ deleteSeries(r, i) \/ handleSaveConfig(r, i) \/ handleSync(r, i)
         \/ assignToSeries(r, i) \/ runPreview(r, i)
  PROVE  Shaped' /\ Current'
<1>1. ViewShaped(view)
  BY DEF Shaped
<1>2. ASSUME NEW on, NEW h, h # "none", NEW op, NEW id, NEW arg, Plain(view'),
             \/ Click(r, on, h, <<Call(op, id, arg)>> \o Reload) /\ ReadAfter(Call(op, id, arg))
             \/ Click(r, on, h, <<Call(op, id, arg)>>) /\ Single(Call(op, id, arg)),
             op = "assign" => h = "assignToSeries" /\ Running(h) = {}
      PROVE  Shaped' /\ Current'
  BY <1>2, PlainKeeps DEF Click
<1>3. \A op, id, arg : Call(op, id, arg).op = op
  BY DEF Call
<1>4. CASE addSource(r) \/ reindex(r, i)
  <2>1. Plain(view')
    BY <1>1, <1>4, PlainViews DEF addSource, reindex
  <2>2. CASE addSource(r)
    <3>1. Click(r, "sources", "addSource", <<Call("add", NoItem, 0)>> \o Reload) /\ page = "sources"
      BY <2>2 DEF addSource, Click
    <3>2. ReadAfter(Call("add", NoItem, 0))
      BY <1>3, <3>1 DEF ReadAfter
    <3> QED
      BY <1>2, <2>1, <3>1, <3>2
  <2>3. CASE reindex(r, i)
    <3>1. Click(r, "sources", "reindex", <<Call("reindex", i, 0)>> \o Reload) /\ page = "sources"
      BY <2>3 DEF reindex, Click
    <3>2. ReadAfter(Call("reindex", i, 0))
      BY <1>3, <3>1 DEF ReadAfter
    <3> QED
      BY <1>2, <2>1, <3>1, <3>2
  <2> QED
    BY <1>4, <2>2, <2>3
<1>5. CASE openPreview(r, i) \/ handleResend(r, i) \/ handleSync(r, i) \/ runPreview(r, i)
  <2>1. Plain(view')
    <3>1. CASE openPreview(r, i)
      <4>1. PICK n : view' = [view EXCEPT !.chosen = i, !.result = NoItem, !.number = n]
        BY <3>1 DEF openPreview
      <4> QED
        BY <1>1, <4>1, PlainViews
    <3>2. CASE handleResend(r, i) \/ handleSync(r, i)
      BY <1>1, <3>2, PlainViews DEF handleResend, handleSync
    <3>3. CASE runPreview(r, i)
      BY <1>1, <3>3, PlainViews DEF runPreview
    <3> QED
      BY <1>5, <3>1, <3>2, <3>3
  <2>2. PICK on, h, op, arg : /\ Click(r, on, h, <<Call(op, i, arg)>>) /\ h # "none"
                              /\ op \in {"chunks", "resend", "sync", "runPreview"}
    BY <1>5 DEF openPreview, handleResend, handleSync, runPreview
  <2>3. Single(Call(op, i, arg)) /\ op # "assign"
    BY <1>3, <2>2 DEF Single
  <2> QED
    BY <1>2, <2>1, <2>2, <2>3
<1>6. CASE removeSource(r, i) \/ deleteSeries(r, i)
  <2>1. Plain(view')
    BY <1>1, <1>6, PlainViews DEF removeSource, deleteSeries
  <2>2. PICK on, h : /\ Click(r, on, h, <<Call("remove", i, 0)>>) /\ h # "none"
                     /\ on \in {"sources", "dashboard"}
    BY <1>6 DEF removeSource, deleteSeries
  <2>3. PICK op : op = "remove"
    OBVIOUS
  <2>4. Single(Call(op, i, 0)) /\ op # "assign"
    BY <1>3, <2>2, <2>3 DEF Single, Click
  <2> QED
    BY <1>2, <2>1, <2>2, <2>3, <2>4
<1>7. CASE handleAdd(r)
  <2>1. Plain(view')
    BY <1>1, <1>7, PlainViews DEF handleAdd
  <2>2. Click(r, "recipients", "handleAdd", <<Call("add", NoItem, 0)>> \o Reload)
    BY <1>7 DEF handleAdd
  <2>3. ReadAfter(Call("add", NoItem, 0))
    BY <1>3, <2>2 DEF ReadAfter, Click
  <2> QED
    BY <1>2, <2>1, <2>2, <2>3
<1>8. CASE handleRemove(r, i) \/ toggleSuppressed(r, i)
  <2>1. Plain(view')
    BY <1>1, <1>8, PlainViews DEF handleRemove, toggleSuppressed
  <2>2. PICK h, op, arg : /\ Click(r, "recipients", h, <<Call(op, i, arg)>> \o Reload) /\ h # "none"
                          /\ op \in {"toggle", "remove"}
    BY <1>8 DEF handleRemove, toggleSuppressed
  <2>3. ReadAfter(Call(op, i, arg)) /\ op # "assign"
    BY <1>3, <2>2 DEF ReadAfter, Click
  <2> QED
    BY <1>2, <2>1, <2>2, <2>3
<1>9. CASE handleSaveConfig(r, i)
  <2>1. Plain(view')
    BY <1>1, <1>9, PlainViews DEF handleSaveConfig
  <2>2. PICK arg : Click(r, "connectors", "handleSaveConfig", <<Call("saveConfig", i, arg)>> \o Reload)
    BY <1>9 DEF handleSaveConfig
  <2>3. ReadAfter(Call("saveConfig", i, arg))
    BY <1>3, <2>2 DEF ReadAfter, Click
  <2> QED
    BY <1>2, <2>1, <2>2, <2>3
<1>10. CASE assignToSeries(r, i)
  <2>1. Plain(view')
    BY <1>1, <1>10, PlainViews DEF assignToSeries
  <2>2. PICK arg : Click(r, "workflows", "assignToSeries", <<Call("assign", i, arg)>>)
    BY <1>10 DEF assignToSeries
  <2>3. Single(Call("assign", i, arg)) /\ Running("assignToSeries") = {}
    BY <1>3, <1>10, <2>2 DEF Single, Click, assignToSeries, WorkflowButtons
  <2> QED
    BY <1>2, <2>1, <2>2, <2>3
<1>11. ~retry(r, i)
  BY DEF retry, Click
<1> QED
  BY <1>4, <1>5, <1>6, <1>7, <1>8, <1>9, <1>10, <1>11

(* The view changes without a handler, but not in what is listed.           *)
LEMMA ViewOnlyKeeps ==
  ASSUME Shaped, Current, page # "runs", UNCHANGED <<page, server, req, faults>>, Plain(view'),
         stale => stale'
  PROVE  Shaped' /\ Current'
<1>1. ServerShaped' /\ ViewShaped(view')
  BY DEF Shaped, ServerShaped, Plain
<1>2. ASSUME NEW s \in Requests PROVE (RequestShaped(req[s]) /\ Done(req[s]))'
  <2>1. RequestShaped(req[s]) /\ Done(req[s])
    BY DEF Shaped
  <2>2. PICK q : q = req[s]
    OBVIOUS
  <2>3. RequestShaped(q)' /\ Done(q)'
    BY <2>1, <2>2, RequestShapedStays DEF Done, HasDone
  <2> QED
    BY <2>2, <2>3 DEF RequestShaped, Done, HasDone, Assigns, First
<1>3. Shaped'
  BY <1>1, <1>2 DEF Shaped, Assigns, First
<1>4. \A rows, tied : Right(rows, tied) => Right(rows, tied)'
  BY RightStays
<1>5. Current'
  BY <1>4 DEF Current, HasRead, First, Plain
<1> QED
  BY <1>3, <1>5

LEMMA UserAlone ==
  ASSUME Shaped, Current, page # "runs", NEW i,
         ClosePreview \/ TypeKey \/ Cancel \/ Configure(i) \/ PickWorkflow(i)
  PROVE  Shaped' /\ Current'
<1>1. ViewShaped(view)
  BY DEF Shaped
<1>2. ASSUME Plain(view') PROVE Shaped' /\ Current'
  <2>1. UNCHANGED <<page, server, req, faults>>
    BY DEF ClosePreview, TypeKey, Cancel, Configure, PickWorkflow
  <2>2. stale' = stale \/ stale' = (stale \/ Running("runPreview") # {})
    BY DEF ClosePreview, TypeKey, Cancel, Configure, PickWorkflow
  <2>3. stale => stale'
    BY <2>2
  <2> QED
    BY <1>2, <2>1, <2>3, ViewOnlyKeeps
<1>3. CASE ClosePreview
  <2>1. PICK n : view' = [view EXCEPT !.chosen = NoItem, !.result = NoItem, !.number = n]
    BY <1>3 DEF ClosePreview
  <2> QED
    BY <1>1, <1>2, <2>1, PlainViews
<1>4. CASE TypeKey \/ Cancel \/ Configure(i)
  <2>1. PICK j : view' \in {[view EXCEPT !.key = j], [view EXCEPT !.chosen = j, !.key = NoItem]}
    BY <1>4 DEF TypeKey, Cancel, Configure
  <2> QED
    BY <1>1, <1>2, <2>1, PlainViews
<1>5. CASE PickWorkflow(i)
  BY <1>1, <1>5, <1>2, PlainViews DEF PickWorkflow
<1> QED
  BY <1>3, <1>4, <1>5

(* A row changes without a handler of the page. *)
LEMMA RowChanges ==
  ASSUME ServerShaped, NEW i \in Items, NEW status, status # "busy",
         server' = [server EXCEPT !.rows[i] = status], UNCHANGED page
  PROVE  /\ ServerShaped' /\ server'.tied = server.tied
         /\ \A j \in Items : server'.rows[j] = IF j = i THEN status ELSE server.rows[j]
<1>1. /\ server = [rows |-> server.rows, tied |-> server.tied]
      /\ server.rows = [j \in Items |-> server.rows[j]] /\ IsMap(server.tied)
      /\ page # "sources" => \A j \in Items : server.rows[j] # "busy"
  BY DEF ServerShaped, IsMap
<1>2. PICK rows : rows = [server.rows EXCEPT ![i] = status]
  OBVIOUS
<1>3. server' = [rows |-> rows, tied |-> server.tied]
  BY <1>1, <1>2
<1>4. IsMap(rows) /\ \A j \in Items : rows[j] = IF j = i THEN status ELSE server.rows[j]
  BY <1>1, <1>2 DEF IsMap
<1> QED
  BY <1>1, <1>3, <1>4 DEF ServerShaped, IsMap

(* Shapes when a row that was not deleted changes. *)
LEMMA RowShaped ==
  ASSUME Shaped, page # "runs", NEW i \in Items, NEW status, status # "busy",
         server.rows[i] # Deleted, server' = [server EXCEPT !.rows[i] = status],
         UNCHANGED <<page, view, faults>>,
         req' = [s \in Requests |-> req'[s]],
         \A s \in Requests : RequestShaped(req'[s]) /\ Done(req'[s]),
         \A s, r \in Requests : Assigns(req'[s]) /\ Assigns(req'[r]) => s = r
  PROVE  Shaped'
<1>1. /\ ServerShaped' /\ server'.tied = server.tied
      /\ \A j \in Items : server'.rows[j] = IF j = i THEN status ELSE server.rows[j]
  BY RowChanges DEF Shaped
<1>2. ASSUME NEW s \in Requests PROVE (RequestShaped(req[s]) /\ Done(req[s]))'
  <2>1. PICK q : q = req'[s] /\ RequestShaped(q) /\ Done(q)
    OBVIOUS
  <2>2. RequestShaped(q)'
    BY <2>1, RequestShapedStays
  <2>3. Done(q)'
    BY <1>1, <2>1 DEF Done, HasDone, First
  <2> QED
    BY <2>1, <2>2, <2>3, SMTT(30) DEF RequestShaped, Done, HasDone, Assigns, First
<1> QED
  BY <1>1, <1>2 DEF Shaped, Assigns, First, ViewShaped

LEMMA ItemEndsKeeps ==
  ASSUME Shaped, Current, page # "runs", NEW i \in Items, ItemEnds(i)
  PROVE  Shaped' /\ Current'
<1>1. PICK status \in {"ready", "failed"} : server' = [server EXCEPT !.rows[i] = status]
  BY DEF ItemEnds
<1>2. /\ server.rows[i] = "busy" /\ UNCHANGED <<page, view, req, faults, stale>>
  BY DEF ItemEnds
<1>3. /\ req = [s \in Requests |-> req[s]] /\ page = "sources"
      /\ \A s \in Requests : RequestShaped(req[s]) /\ Done(req[s])
      /\ \A s, r \in Requests : Assigns(req[s]) /\ Assigns(req[r]) => s = r
  BY <1>2 DEF Shaped, ServerShaped
<1>4. Shaped'
  <2>1. /\ status # "busy" /\ server.rows[i] # Deleted /\ UNCHANGED <<page, view, faults>>
        /\ req' = req
    BY <1>1, <1>2 DEF Deleted
  <2> QED
    BY <1>1, <1>3, <2>1, RowShaped
<1>5. /\ server'.tied = server.tied
      /\ \A j \in Items : server'.rows[j] = IF j = i THEN status ELSE server.rows[j]
  BY <1>1, <1>2, RowChanges DEF Shaped
<1>6. ASSUME NEW rows, NEW tied, Right(rows, tied) PROVE Right(rows, tied)'
  <2>1. \A q : \A j \in Items : RowRight(q, j) => RowRight(q, j)'
    BY <1>2, <1>3, <1>5 DEF RowRight, Seen, Deleted
  <2>2. \A q : \A j \in Items : TieRight(q, j) => TieRight(q, j)'
    BY <1>5 DEF TieRight
  <2>3. ASSUME NEW s \in Requests, NEW j \in Items PROVE RowDue(req[s], j) => RowDue(req[s], j)'
    <3>1. PICK rs : rs = req[s].rows /\ req' = req
      BY <1>2
    <3> QED
      BY <2>1, <3>1 DEF RowDue, WillRead, HasRead, HasDone, First
  <2>4. ASSUME NEW s \in Requests, NEW j \in Items PROVE TieDue(req[s], j) => TieDue(req[s], j)'
    <3>1. PICK rs : rs = req[s].tied /\ req' = req
      BY <1>2
    <3> QED
      BY <2>2, <3>1 DEF TieDue, WillRead, HasRead, HasDone, First
  <2> QED
    BY <1>6, <2>1, <2>2, <2>3, <2>4 DEF Right
<1>7. Current'
  BY <1>2, <1>6 DEF Current, HasRead, First
<1> QED
  BY <1>4, <1>7

LEMMA ReaderKeeps ==
  ASSUME Shaped, page # "runs", NEW i \in Items, ReaderVerifies(i)
  PROVE  Shaped' /\ Current'
<1>1. /\ server' = [server EXCEPT !.rows[i] = "verified"] /\ server.rows[i] # Deleted
      /\ UNCHANGED <<page, view, req, faults>> /\ stale'
  BY DEF ReaderVerifies, Deleted
<1>2. /\ req = [s \in Requests |-> req[s]]
      /\ \A s \in Requests : RequestShaped(req[s]) /\ Done(req[s])
      /\ \A s, r \in Requests : Assigns(req[s]) /\ Assigns(req[r]) => s = r
  BY DEF Shaped
<1>3. PICK status : status = "verified" /\ status # "busy"
  OBVIOUS
<1>4. Shaped'
  BY <1>1, <1>2, <1>3, RowShaped
<1> QED
  BY <1>1, <1>4 DEF Current

LEMMA SeriesMadeKeeps ==
  ASSUME Shaped, page # "runs", NEW r \in Requests, SeriesMade(r)
  PROVE  Shaped' /\ Current'
<1>1. PICK i \in Items : server.rows[i] = "none" /\ server' = [server EXCEPT !.rows[i] = "ready"]
  BY DEF SeriesMade
<1>2. UNCHANGED <<page, view, faults, stale>> /\ Begin(r, "load", Reload)
  BY DEF SeriesMade
<1>3. PICK q : q = Asking("load", Reload)
  OBVIOUS
<1>4. CallsOf(Reload) /\ Reload # <<>> /\ Head(Reload).op = "list"
  BY ReloadShaped DEF Shaped, ViewShaped
<1>5. RequestShaped(q) /\ q.stage = "asked" /\ q.calls = Reload /\ ~Assigns(q)
  BY <1>3, <1>4, AskingShaped
<1>6. /\ req' = [s \in Requests |-> req'[s]]
      /\ \A s \in Requests : req'[s] = IF s = r THEN q ELSE req[s]
  BY <1>2, <1>3, BeginDoes DEF Shaped
<1>7. /\ \A s \in Requests : RequestShaped(req'[s]) /\ Done(req'[s])
      /\ \A s, t \in Requests : Assigns(req'[s]) /\ Assigns(req'[t]) => s = t
  BY <1>5, <1>6 DEF Shaped, Done, HasDone
<1>8. Shaped'
  <2>1. PICK status : status = "ready" /\ status # "busy" /\ server.rows[i] # Deleted
    BY <1>1 DEF Deleted
  <2> QED
    BY <1>1, <1>2, <1>6, <1>7, <2>1, RowShaped
<1>9. WillRead(req[r])'
  BY <1>4, <1>5, <1>6 DEF WillRead, First
<1>10. (\A rows, tied : Right(rows, tied))'
  BY <1>9 DEF Right, RowDue, TieDue
<1> QED
  BY <1>8, <1>10 DEF Current

-----------------------------------------------------------------------------
(* The server. *)

(* What a call that is not refused does to the rows.                        *)
LEMMA ServerAfter ==
  ASSUME ServerShaped, NEW c, Single(c) \/ ReadAfter(c), ~Refused(c), page # "runs"
  PROVE  LET a == After(c) IN
         /\ a = [rows |-> a.rows, tied |-> a.tied] /\ IsMap(a.rows) /\ IsMap(a.tied)
         /\ page # "sources" => \A i \in Items : a.rows[i] # "busy"
         /\ \A i \in Items : server.rows[i] = Deleted => a.rows[i] = Deleted
         /\ c.op = "remove" => /\ a.tied = server.tied
                               /\ \A i \in Items :
                                    a.rows[i] = IF i = c.id THEN Deleted ELSE server.rows[i]
         /\ c.op = "assign" => /\ a.rows = server.rows
                               /\ \A i \in Items :
                                    a.tied[i] = IF i = c.id THEN c.arg ELSE server.tied[i]
         /\ c.op \notin {"assign", "saveConfig"} => a.tied = server.tied
         /\ c.op \in {"list", "chunks", "resend", "sync", "runPreview"} => a = server
<1> DEFINE a == After(c)
<1>1. /\ server = [rows |-> server.rows, tied |-> server.tied]
      /\ server.rows = [i \in Items |-> server.rows[i]]
      /\ server.tied = [i \in Items |-> server.tied[i]]
      /\ page # "sources" => \A i \in Items : server.rows[i] # "busy"
  BY DEF ServerShaped, IsMap
<1>2. ASSUME NEW j, NEW status, server.rows[j] # Deleted, page = "sources" \/ status # "busy",
             a = [server EXCEPT !.rows[j] = status], c.op \in {"add", "reindex", "toggle"}
      PROVE  /\ a = [rows |-> a.rows, tied |-> a.tied] /\ IsMap(a.rows) /\ a.tied = server.tied
             /\ page # "sources" => \A i \in Items : a.rows[i] # "busy"
             /\ \A i \in Items : server.rows[i] = Deleted => a.rows[i] = Deleted
  <2>1. PICK rows : rows = [server.rows EXCEPT ![j] = status]
    OBVIOUS
  <2>2. a = [rows |-> rows, tied |-> server.tied]
    BY <1>1, <1>2, <2>1
  <2>3. IsMap(rows) /\ \A i \in Items : rows[i] = IF i = j THEN status ELSE server.rows[i]
    BY <1>1, <2>1 DEF IsMap
  <2>4. a.rows = rows /\ a.tied = server.tied /\ a = [rows |-> a.rows, tied |-> a.tied]
    BY <2>2
  <2> HIDE DEF a
  <2> QED
    BY <1>1, <1>2, <2>3, <2>4
<1>3. CASE c.op = "add"
  <2>1. PICK j : j = CHOOSE i \in Items : server.rows[i] = "none"
    OBVIOUS
  <2>2. server.rows[j] = "none"
    BY <1>3, <2>1 DEF Refused
  <2>3. PICK status : status = IF page = "recipients" THEN "waiting" ELSE "busy"
    OBVIOUS
  <2>4. a = [server EXCEPT !.rows[j] = status]
    BY <1>3, <2>1, <2>3 DEF After
  <2>5. server.rows[j] # Deleted /\ (page = "sources" \/ status # "busy")
    BY <1>3, <2>2, <2>3 DEF Deleted, Single, ReadsAll, ReadAfter
  <2> QED
    BY <1>1, <1>2, <1>3, <2>4, <2>5 DEF IsMap
<1>4. CASE c.op = "reindex"
  <2>1. a = [server EXCEPT !.rows[c.id] = "busy"] /\ page = "sources"
    BY <1>4 DEF After, Single, ReadsAll, ReadAfter
  <2>2. server.rows[c.id] # Deleted
    BY <1>4 DEF Refused
  <2> QED
    BY <1>1, <1>2, <1>4, <2>1, <2>2 DEF IsMap
<1>5. CASE c.op = "toggle"
  <2>1. PICK status : status = Toggled(server.rows[c.id], c.arg)
    OBVIOUS
  <2>2. a = [server EXCEPT !.rows[c.id] = status] /\ status # "busy"
    BY <1>5, <2>1 DEF After, Toggled
  <2>3. server.rows[c.id] # Deleted
    BY <1>5 DEF Refused
  <2> QED
    BY <1>1, <1>2, <1>5, <2>2, <2>3 DEF IsMap
<1>6. CASE c.op = "remove"
  <2>1. PICK rows : rows = [server.rows EXCEPT ![c.id] = Deleted]
    OBVIOUS
  <2>2. a = [server EXCEPT !.rows[c.id] = Deleted]
    BY <1>6 DEF After
  <2>3. a = [rows |-> rows, tied |-> server.tied]
    BY <1>1, <2>1, <2>2
  <2>4. IsMap(rows) /\ \A i \in Items : rows[i] = IF i = c.id THEN Deleted ELSE server.rows[i]
    BY <1>1, <2>1 DEF IsMap
  <2>5. a.rows = rows /\ a.tied = server.tied /\ a = [rows |-> a.rows, tied |-> a.tied]
    BY <2>3
  <2> QED
    BY <1>1, <1>6, <2>4, <2>5 DEF Deleted, IsMap
<1>7. CASE c.op \in {"assign", "saveConfig"}
  <2>1. PICK tied : tied = [server.tied EXCEPT ![c.id] = c.arg]
    OBVIOUS
  <2>2. a = [server EXCEPT !.tied[c.id] = c.arg]
    BY <1>7 DEF After
  <2>3. a = [rows |-> server.rows, tied |-> tied]
    BY <1>1, <2>1, <2>2
  <2>4. IsMap(tied) /\ \A i \in Items : tied[i] = IF i = c.id THEN c.arg ELSE server.tied[i]
    BY <1>1, <2>1 DEF IsMap
  <2>5. a.rows = server.rows /\ a.tied = tied /\ a = [rows |-> a.rows, tied |-> a.tied]
    BY <2>3
  <2> QED
    BY <1>1, <1>7, <2>4, <2>5 DEF IsMap
<1>8. CASE c.op \in {"list", "chunks", "resend", "sync", "runPreview"}
  <2>1. a = server
    BY <1>8 DEF After
  <2> QED
    BY <1>1, <1>8, <2>1 DEF IsMap
<1>9. c.op \in {"add", "reindex", "toggle", "remove", "assign", "saveConfig",
                "list", "chunks", "resend", "sync", "runPreview"}
  BY DEF Single, ReadsAll, ReadAfter
<1> QED
  BY <1>3, <1>4, <1>5, <1>6, <1>7, <1>8, <1>9

(* An answer on its way. *)
LEMMA Answered ==
  ASSUME Shaped, page # "runs", NEW r \in Requests, Serve(r)
  PROVE  \E q : /\ req' = [s \in Requests |-> req'[s]]
                /\ \A s \in Requests : req'[s] = IF s = r THEN q ELSE req[s]
                /\ q = [field \in RequestFields |-> q[field]]
                /\ q.calls = req[r].calls /\ q.stage = "answered" /\ q.handler = req[r].handler
                /\ q.ok = ~Refused(First(q))
                /\ q.rows = IF First(q).op = "list" THEN Listed(First(q).arg) ELSE Nothing
                /\ q.tied = IF First(q).op = "list" THEN server.tied ELSE Untied
<1>1. PICK c : c = Head(req[r].calls)
  OBVIOUS
<1>2. PICK q : q = [req[r] EXCEPT !.stage = "answered", !.ok = ~Refused(c),
                      !.rows = IF c.op = "list" THEN Listed(c.arg) ELSE Nothing,
                      !.tied = IF c.op = "list" THEN server.tied ELSE Untied]
  OBVIOUS
<1>3. req' = [req EXCEPT ![r] = q]
  BY <1>1, <1>2 DEF Serve
<1>4. req = [s \in Requests |-> req[s]] /\ req[r] = [field \in RequestFields |-> req[r][field]]
  BY DEF Shaped, RequestShaped
<1>5. /\ q = [field \in RequestFields |-> q[field]]
      /\ q.calls = req[r].calls /\ q.stage = "answered" /\ q.handler = req[r].handler
      /\ q.ok = ~Refused(c)
      /\ q.rows = IF c.op = "list" THEN Listed(c.arg) ELSE Nothing
      /\ q.tied = IF c.op = "list" THEN server.tied ELSE Untied
  BY <1>2, <1>4 DEF RequestFields
<1>6. First(q) = c
  BY <1>1, <1>5 DEF First
<1> QED
  BY <1>3, <1>4, <1>5, <1>6

LEMMA CallsFirst ==
  ASSUME NEW q, RequestShaped(q), q.stage # "none"
  PROVE  /\ Single(First(q)) \/ ReadAfter(First(q))
         /\ First(q).op = "list" => First(q).arg = "all" /\ Tail(q.calls) = <<>>
         /\ ReadAfter(First(q)) /\ ~Single(First(q)) =>
              Tail(q.calls) # <<>> /\ CallsOf(Tail(q.calls)) /\ Head(Tail(q.calls)).op = "list"
         /\ Tail(q.calls) # <<>> =>
              CallsOf(Tail(q.calls)) /\ Head(Tail(q.calls)).op = "list" /\ First(q).op # "list"
<1>1. CallsOf(q.calls) /\ q.calls # <<>>
  BY DEF RequestShaped
<1>2. CASE Head(q.calls) = q.calls[1] /\ Tail(q.calls) = <<>> /\ Single(Head(q.calls))
  BY <1>2 DEF First, Single, ReadAfter, ReadsAll
<1>3. CASE /\ Tail(q.calls) = <<q.calls[2]>> /\ ReadAfter(Head(q.calls))
           /\ ReadsAll(q.calls[2]) /\ Head(Tail(q.calls)) = q.calls[2] /\ Tail(q.calls) # <<>>
  <2>1. PICK l : l = q.calls[2] /\ ReadsAll(l)
    BY <1>3
  <2>2. CallsOf(<<l>>)
    BY <2>1 DEF CallsOf, Single
  <2> QED
    BY <1>3, <2>1, <2>2 DEF First, ReadAfter, ReadsAll
<1> QED
  BY <1>1, <1>2, <1>3, CallsAre

LEMMA ServeShaped ==
  ASSUME Shaped, page # "runs", NEW r \in Requests, Serve(r)
  PROVE  Shaped'
<1>1. PICK q : /\ req' = [s \in Requests |-> req'[s]]
               /\ \A s \in Requests : req'[s] = IF s = r THEN q ELSE req[s]
               /\ q = [field \in RequestFields |-> q[field]]
               /\ q.calls = req[r].calls /\ q.stage = "answered" /\ q.handler = req[r].handler
               /\ q.ok = ~Refused(First(q))
               /\ q.rows = IF First(q).op = "list" THEN Listed(First(q).arg) ELSE Nothing
               /\ q.tied = IF First(q).op = "list" THEN server.tied ELSE Untied
  BY Answered
<1>2. /\ ServerShaped /\ ViewShaped(view) /\ faults \in Nat
      /\ \A s \in Requests : RequestShaped(req[s]) /\ Done(req[s])
      /\ \A s, t \in Requests : Assigns(req[s]) /\ Assigns(req[t]) => s = t
  BY DEF Shaped
<1>3. /\ req[r].stage = "asked" /\ UNCHANGED <<page, view, faults>>
      /\ server' = IF Refused(First(q)) THEN server ELSE After(First(q))
  BY <1>1 DEF Serve, First
<1>4. First(q) = First(req[r]) /\ (Assigns(q) <=> Assigns(req[r]))
  BY <1>1, <1>3 DEF First, Assigns
<1>5. RequestShaped(q)
  <2>1. First(q).op = "list" => q.ok
    BY <1>1 DEF Refused
  <2>2. IsMap(q.rows) /\ IsMap(q.tied)
    BY <1>1, <1>2 DEF IsMap, Listed, Nothing, Untied, ServerShaped
  <2>3. /\ CallsOf(q.calls) /\ q.calls # <<>> /\ q.handler # "none"
        /\ Assigns(req[r]) => q.handler = "assignToSeries"
    BY <1>1, <1>2, <1>3 DEF RequestShaped
  <2> QED
    BY <1>1, <1>4, <2>1, <2>2, <2>3 DEF RequestShaped
<1>6. Single(First(q)) \/ ReadAfter(First(q))
  BY <1>1, <1>5, CallsFirst
<1>7. ServerShaped'
  BY <1>2, <1>3, <1>6, ServerAfter DEF ServerShaped
<1>8. ASSUME NEW s \in Requests, s # r PROVE (RequestShaped(req[s]) /\ Done(req[s]))'
  <2>1. PICK p : p = req[s] /\ req'[s] = p /\ RequestShaped(p) /\ Done(p)
    BY <1>1, <1>2, <1>8
  <2>2. RequestShaped(p)'
    BY <1>3, <2>1, RequestShapedStays
  <2>3. ASSUME NEW i \in Items, HasDone(p, "remove", i) PROVE server'.rows[i] = Deleted
    BY <1>2, <1>3, <1>6, <2>1, <2>3, ServerAfter DEF Done
  <2>4. ASSUME NEW i \in Items, HasDone(p, "assign", i) PROVE server'.tied[i] = First(p).arg
    <3>1. Assigns(p) /\ p.stage # "none" /\ First(p).op = "assign"
      BY <2>4 DEF HasDone, Assigns
    <3>2. page = "workflows"
      BY <2>1, <3>1, CallsFirst DEF Single, ReadAfter, ReadsAll
    <3>3. ~Assigns(req[r])
      BY <1>2, <1>8, <2>1, <3>1
    <3>4. First(q).op \notin {"assign", "saveConfig"}
      BY <1>1, <1>4, <1>6, <3>2, <3>3 DEF Assigns, Single, ReadAfter, ReadsAll
    <3>5. server'.tied = server.tied
      BY <1>2, <1>3, <1>6, <3>4, ServerAfter
    <3> QED
      BY <2>1, <2>4, <3>5 DEF Done
  <2>5. Done(p)'
    BY <2>3, <2>4 DEF Done, HasDone, First
  <2> QED
    BY <2>1, <2>2, <2>5 DEF RequestShaped, Done, HasDone, Assigns, First
<1>9. (RequestShaped(req[r]) /\ Done(req[r]))'
  <2>1. RequestShaped(q)'
    BY <1>3, <1>5, RequestShapedStays
  <2>2. Done(q)'
    <3>1. ASSUME NEW i \in Items, q.ok, First(q).op = "remove", First(q).id = i
          PROVE  server'.rows[i] = Deleted
      BY <1>1, <1>2, <1>3, <1>6, <3>1, ServerAfter, ZenonT(30)
    <3>2. ASSUME NEW i \in Items, q.ok, First(q).op = "assign", First(q).id = i
          PROVE  server'.tied[i] = First(q).arg
      <4>1. PICK c : c = First(q) /\ ~Refused(c) /\ server' = After(c)
        BY <1>1, <1>3, <3>2
      <4>2. c.op = "assign" /\ c.id = i /\ (Single(c) \/ ReadAfter(c))
        BY <1>6, <3>2, <4>1
      <4>3. After(c).tied[i] = c.arg
        BY <1>2, <4>1, <4>2, ServerAfter
      <4> QED
        BY <4>1, <4>3
    <3> QED
      BY <3>1, <3>2 DEF Done, HasDone, First
  <2>3. req'[r] = q
    BY <1>1
  <2> QED
    BY <2>1, <2>2, <2>3 DEF RequestShaped, Done, HasDone, Assigns, First
<1>10. ASSUME NEW s \in Requests, NEW t \in Requests, Assigns(req'[s]), Assigns(req'[t])
       PROVE  s = t
  BY <1>1, <1>2, <1>4, <1>10
<1>11. ViewShaped(view)' /\ faults' \in Nat
  BY <1>2, <1>3 DEF ViewShaped
<1> QED
  BY <1>1, <1>7, <1>8, <1>9, <1>10, <1>11 DEF Shaped, Assigns, First

LEMMA ServeRight ==
  ASSUME Shaped, page # "runs", NEW r \in Requests, Serve(r), NEW rows, NEW tied, Right(rows, tied)
  PROVE  Right(rows, tied)'
<1>1. PICK q : /\ \A s \in Requests : req'[s] = IF s = r THEN q ELSE req[s]
               /\ q.calls = req[r].calls /\ q.stage = "answered"
               /\ q.ok = ~Refused(First(q))
               /\ q.rows = IF First(q).op = "list" THEN Listed(First(q).arg) ELSE Nothing
               /\ q.tied = IF First(q).op = "list" THEN server.tied ELSE Untied
  BY Answered
<1>2. ServerShaped /\ RequestShaped(req[r])
  BY DEF Shaped
<1>3. /\ req[r].stage = "asked" /\ page' = page
      /\ server' = IF Refused(First(q)) THEN server ELSE After(First(q))
  BY <1>1 DEF Serve, First
<1>4. /\ First(q) = First(req[r]) /\ First(q) = First(q)' /\ req'[r] = q
      /\ Single(First(q)) \/ ReadAfter(First(q))
      /\ First(q).op = "list" => First(q).arg = "all"
      /\ ReadAfter(First(q)) /\ ~Single(First(q)) => Tail(q.calls) # <<>> /\ First(q).op # "list"
  BY <1>1, <1>2, <1>3, CallsFirst DEF First, ReadAfter
<1>5. CASE First(q).op = "list"
  <2>1. server' = server
    BY <1>2, <1>3, <1>4, <1>5, ServerAfter
  <2>2. \A i \in Items : q.rows[i] = Seen(i)' /\ q.tied[i] = server'.tied[i]
    BY <1>1, <1>4, <1>5, <2>1 DEF Listed, Seen
  <2>3. HasRead(req[r])' /\ (req[r].rows)' = q.rows /\ (req[r].tied)' = q.tied
    BY <1>1, <1>4, <1>5 DEF HasRead, First
  <2> QED
    BY <2>2, <2>3 DEF Right, RowDue, TieDue, RowRight, TieRight
<1>6. CASE First(q).op # "list" /\ q.ok /\ Tail(q.calls) # <<>>
  <2>1. WillRead(req[r])'
    BY <1>1, <1>4, <1>6 DEF WillRead, First
  <2> QED
    BY <2>1 DEF Right, RowDue, TieDue
<1>7. CASE First(q).op # "list" /\ (q.ok => Tail(q.calls) = <<>>)
  <2>1. ASSUME NEW s \in Requests, NEW i \in Items, RowDue(req[s], i) \/ TieDue(req[s], i)
        PROVE  s # r /\ req'[s] = req[s]
    BY <1>1, <1>3, <1>4, <1>7, <2>1 DEF RowDue, TieDue, WillRead, HasRead, HasDone
  <2>2. q.ok => Single(First(q))
    BY <1>4, <1>7
  <2>3. ASSUME NEW i \in Items, server'.rows[i] = server.rows[i], NEW l, RowRight(l, i)
        PROVE  RowRight(l, i)'
    BY <1>3, <2>3 DEF RowRight, Seen
  <2>4. ASSUME NEW i \in Items, server'.tied[i] = server.tied[i], NEW l, TieRight(l, i)
        PROVE  TieRight(l, i)'
    BY <2>4 DEF TieRight
  <2>5. ASSUME NEW i \in Items, server'.rows[i] = server.rows[i], NEW s \in Requests, RowDue(req[s], i)
        PROVE  RowDue(req[s], i)'
    <3>1. PICK p : p = req[s] /\ req'[s] = p /\ RowDue(p, i)
      BY <2>1, <2>5
    <3>2. RowDue(p, i)'
      BY <2>3, <2>5, <3>1 DEF RowDue, WillRead, HasRead, HasDone, First
    <3> QED
      BY <3>1, <3>2 DEF RowDue, WillRead, HasRead, HasDone, First, RowRight, Seen
  <2>6. ASSUME NEW i \in Items, server'.tied[i] = server.tied[i], NEW s \in Requests, TieDue(req[s], i)
        PROVE  TieDue(req[s], i)'
    <3>1. PICK p : p = req[s] /\ req'[s] = p /\ TieDue(p, i)
      BY <2>1, <2>6
    <3>2. TieDue(p, i)'
      BY <2>4, <2>6, <3>1 DEF TieDue, WillRead, HasRead, HasDone, First
    <3> QED
      BY <3>1, <3>2 DEF TieDue, WillRead, HasRead, HasDone, First, TieRight
  <2>7. ASSUME NEW i \in Items
        PROVE  \/ server'.rows[i] = server.rows[i]
               \/ q.ok /\ First(q).op = "remove" /\ First(q).id = i
    BY <1>1, <1>2, <1>3, <1>7, <2>2, ServerAfter DEF Single, ReadsAll
  <2>8. ASSUME NEW i \in Items
        PROVE  \/ server'.tied[i] = server.tied[i]
               \/ q.ok /\ First(q).op = "assign" /\ First(q).id = i
    BY <1>1, <1>2, <1>3, <1>7, <2>2, ServerAfter DEF Single, ReadsAll
  <2>9. ASSUME NEW i \in Items, q.ok
        PROVE  /\ First(q).op = "remove" /\ First(q).id = i => RowDue(req[r], i)'
               /\ First(q).op = "assign" /\ First(q).id = i => TieDue(req[r], i)'
    BY <1>1, <1>4, <2>9 DEF RowDue, TieDue, HasDone, First
  <2>10. ASSUME NEW i \in Items
         PROVE  /\ RowRight(rows, i)' \/ \E s \in Requests : RowDue(req[s], i)'
                /\ TieRight(tied, i)' \/ \E s \in Requests : TieDue(req[s], i)'
    <3>1. RowRight(rows, i)' \/ \E s \in Requests : RowDue(req[s], i)'
      BY <2>3, <2>5, <2>7, <2>9 DEF Right
    <3>2. TieRight(tied, i)' \/ \E s \in Requests : TieDue(req[s], i)'
      BY <2>4, <2>6, <2>8, <2>9 DEF Right
    <3> QED
      BY <3>1, <3>2
  <2> QED
    BY <2>10 DEF Right
<1> QED
  BY <1>5, <1>6, <1>7

LEMMA FailureKeeps ==
  ASSUME Shaped, page # "runs", NEW r \in Requests, RequestFails(r)
  PROVE  Shaped' /\ Current'
<1> DEFINE q == [Idle EXCEPT !.handler = req[r].handler, !.calls = req[r].calls, !.stage = "answered"]
<1>1. /\ ServerShaped /\ ViewShaped(view) /\ faults \in Nat
      /\ req = [s \in Requests |-> req[s]]
      /\ \A s \in Requests : RequestShaped(req[s]) /\ Done(req[s])
      /\ \A s, t \in Requests : Assigns(req[s]) /\ Assigns(req[t]) => s = t
  BY DEF Shaped
<1>2. /\ req[r].stage \in {"asked", "answered"} /\ faults' = faults + 1
      /\ UNCHANGED <<page, server, view>> /\ req' = [req EXCEPT ![r] = q]
  BY DEF RequestFails
<1>3. Idle = [field \in RequestFields |-> Idle[field]] /\ IsMap(Idle.rows) /\ IsMap(Idle.tied)
      /\ Idle.ok = FALSE
  BY IdleShaped DEF RequestShaped, Idle
<1>4. /\ q = [field \in RequestFields |-> q[field]] /\ q.calls = req[r].calls /\ q.stage = "answered"
      /\ q.handler = req[r].handler /\ q.rows = Idle.rows /\ q.tied = Idle.tied /\ q.ok = FALSE
  BY <1>3 DEF RequestFields
<1> HIDE DEF q
<1>5. /\ req' = [s \in Requests |-> req'[s]]
      /\ \A s \in Requests : req'[s] = IF s = r THEN q ELSE req[s]
  BY <1>1, <1>2
<1>6. First(q) = First(req[r]) /\ (Assigns(q) <=> Assigns(req[r]))
  BY <1>2, <1>4 DEF First, Assigns
<1>7. faults' # 0 /\ faults' \in Nat
  BY <1>1, <1>2
<1>8. ASSUME NEW s \in Requests PROVE (RequestShaped(req[s]) /\ Done(req[s]))'
  <2>1. PICK p : p = req'[s]
    OBVIOUS
  <2>2. RequestShaped(p)'
    <3>1. CASE s = r
      <4>1. /\ CallsOf(q.calls) /\ q.calls # <<>> /\ q.handler # "none"
            /\ Assigns(q) => q.handler = "assignToSeries"
        BY <1>1, <1>2, <1>4, <1>6 DEF RequestShaped
      <4>2. p = q
        BY <1>5, <2>1, <3>1
      <4>3. CallsOf(p.calls)'
        BY <1>2, <4>1, <4>2, Zenon DEF CallsOf, Single, ReadAfter
      <4>4. /\ p = [field \in RequestFields |-> p[field]] /\ p.stage = "answered"
            /\ p.calls # <<>> /\ p.handler # "none" /\ IsMap(p.rows) /\ IsMap(p.tied)
            /\ Assigns(p) => p.handler = "assignToSeries"
        BY <1>3, <1>4, <4>1, <4>2
      <4> QED
        BY <1>7, <4>3, <4>4 DEF RequestShaped, Assigns, First
    <3>2. CASE s # r
      BY <1>1, <1>2, <1>5, <1>7, <2>1, <3>2, RequestShapedStays
    <3> QED
      BY <3>1, <3>2
  <2>3. Done(p)'
    BY <1>1, <1>2, <1>4, <1>5, <2>1 DEF Done, HasDone, First
  <2> QED
    BY <2>1, <2>2, <2>3 DEF RequestShaped, Done, HasDone, Assigns, First
<1>9. \A s, t \in Requests : Assigns(req'[s]) /\ Assigns(req'[t]) => s = t
  BY <1>1, <1>5, <1>6
<1>10. ServerShaped' /\ ViewShaped(view)'
  BY <1>1, <1>2 DEF ServerShaped, ViewShaped
<1>11. Shaped'
  BY <1>5, <1>7, <1>8, <1>9, <1>10 DEF Shaped, Assigns, First
<1> QED
  BY <1>7, <1>11 DEF Current

LEMMA ServeKeeps ==
  ASSUME Shaped, Current, page # "runs", NEW r \in Requests, Serve(r)
  PROVE  Shaped' /\ Current'
<1>1. PICK q : /\ \A s \in Requests : req'[s] = IF s = r THEN q ELSE req[s]
               /\ q.calls = req[r].calls /\ q.stage = "answered"
               /\ q.rows = IF First(q).op = "list" THEN Listed(First(q).arg) ELSE Nothing
               /\ q.tied = IF First(q).op = "list" THEN server.tied ELSE Untied
  BY Answered
<1>2. ServerShaped /\ RequestShaped(req[r])
  BY DEF Shaped
<1>3. UNCHANGED <<page, view, faults, stale>> /\ req[r].stage = "asked"
  BY DEF Serve
<1>4. \A rows, tied : Right(rows, tied) => Right(rows, tied)'
  BY ServeRight
<1>5. ASSUME HasRead(q) PROVE Right(q.rows, q.tied)'
  <2>1. First(req[r]).op = "list"
    BY <1>1, <1>5 DEF HasRead, First
  <2>2. WillRead(req[r])
    BY <1>3, <2>1 DEF WillRead
  <2>3. Right(q.rows, q.tied)
    BY <2>2 DEF Right, RowDue, TieDue
  <2> QED
    BY <1>4, <2>3
<1>6. ASSUME NEW s \in Requests, HasRead(req'[s]), faults = 0, ~stale, ~req'[s].old
      PROVE  Right(req[s].rows, req[s].tied)'
  <2>1. CASE s = r
    <3>1. req'[s] = q
      BY <1>1, <2>1
    <3>2. Right(q.rows, q.tied)'
      BY <1>5, <1>6, <3>1
    <3> QED
      BY <3>1, <3>2 DEF Right
  <2>2. CASE s # r
    <3>1. PICK p : p = req[s] /\ p = req'[s]
      BY <1>1, <2>2
    <3>2. Right(p.rows, p.tied)
      BY <1>6, <3>1 DEF Current
    <3> QED
      BY <1>4, <3>1, <3>2 DEF Right
  <2> QED
    BY <2>1, <2>2
<1>7. faults = 0 /\ ~stale /\ ~view.loading => Right(view.rows, view.tied)'
  BY <1>3, <1>4 DEF Current
<1>8. Current'
  BY <1>3, <1>6, <1>7 DEF Current, HasRead, First, Right
<1> QED
  BY <1>8, ServeShaped

-----------------------------------------------------------------------------
(* The answers. *)

(* What an answer does to what is listed. *)
LEMMA ToldShows ==
  ASSUME ViewShaped(view), NEW q, IsMap(q.rows), IsMap(q.tied), NEW c
  PROVE  /\ ViewShaped(Told(q, c)) /\ ViewShaped(Failed(c))
         /\ Failed(c).rows = view.rows /\ Failed(c).tied = view.tied
         /\ c.op = "list" => Told(q, c).rows = q.rows /\ Told(q, c).tied = q.tied
         /\ c.op # "list" => Told(q, c).loading = view.loading /\ Failed(c).loading = view.loading
         /\ c.op \notin {"list", "assign"} => Told(q, c).tied = view.tied
         /\ c.op \notin {"list", "remove"} => Told(q, c).rows = view.rows
         /\ c.op = "remove" => \A i \in Items :
              Told(q, c).rows[i] = IF page # "recipients" /\ i = c.id THEN "none" ELSE view.rows[i]
         /\ c.op = "assign" => \A i \in Items :
              Told(q, c).tied[i] = IF i = c.id THEN c.arg ELSE view.tied[i]
<1>1. /\ view = [field \in ViewFields |-> view[field]] /\ view.filter = "all"
      /\ view.rows = [i \in Items |-> view.rows[i]] /\ view.tied = [i \in Items |-> view.tied[i]]
  BY DEF ViewShaped, IsMap
<1>2. ASSUME NEW w, w = [field \in ViewFields |-> w[field]], IsMap(w.rows), IsMap(w.tied),
             w.filter = view.filter
      PROVE  ViewShaped(w)
  BY <1>1, <1>2 DEF ViewShaped
<1>3. Plain(view)
  BY PlainViews
<1>4. PICK rows : rows = [view.rows EXCEPT ![c.id] = "none"]
  OBVIOUS
<1>5. PICK tied : tied = [view.tied EXCEPT ![c.id] = c.arg]
  OBVIOUS
<1>6. /\ IsMap(rows) /\ \A i \in Items : rows[i] = IF i = c.id THEN "none" ELSE view.rows[i]
      /\ IsMap(tied) /\ \A i \in Items : tied[i] = IF i = c.id THEN c.arg ELSE view.tied[i]
  BY <1>1, <1>4, <1>5 DEF IsMap
<1>7. CASE c.op = "list"
  <2>1. PICK w : w = [view EXCEPT !.rows = q.rows, !.tied = q.tied, !.listed = c.arg,
                                  !.loading = FALSE, !.error = FALSE]
    OBVIOUS
  <2>2. /\ w = [field \in ViewFields |-> w[field]] /\ w.rows = q.rows /\ w.tied = q.tied
        /\ w.filter = view.filter
    BY <1>1, <2>1 DEF ViewFields
  <2>3. Told(q, c) = w
    BY <1>7, <2>1 DEF Told
  <2>4. PICK v : v = [view EXCEPT !.error = TRUE, !.loading = FALSE]
    OBVIOUS
  <2>5. /\ v = [field \in ViewFields |-> v[field]] /\ v.rows = view.rows /\ v.tied = view.tied
        /\ v.filter = view.filter
    BY <1>1, <2>4 DEF ViewFields
  <2>6. Failed(c) = v
    BY <1>7, <2>4 DEF Failed
  <2>7. ViewShaped(w) /\ ViewShaped(v)
    BY <1>1, <1>2, <2>2, <2>5 DEF IsMap
  <2> QED
    BY <1>7, <2>2, <2>3, <2>5, <2>6, <2>7
<1>8. CASE c.op # "list"
  <2>1. Plain(Failed(c))
    <3>1. Failed(c) \in {view, [view EXCEPT !.error = TRUE], [view EXCEPT !.result = c.id]}
      BY <1>8 DEF Failed
    <3> QED
      BY <3>1, PlainViews
  <2>2. CASE c.op = "remove" /\ page # "recipients"
    <3>1. PICK w : w = [view EXCEPT !.rows = rows]
      OBVIOUS
    <3>2. Told(q, c) = w
      <4>1. Told(q, c) = [view EXCEPT !.rows[c.id] = "none"]
        BY <2>2 DEF Told
      <4> QED
        BY <1>1, <1>4, <3>1, <4>1 DEF ViewFields
    <3>3. /\ w = [field \in ViewFields |-> w[field]] /\ w.rows = rows /\ w.tied = view.tied
          /\ w.filter = view.filter /\ w.loading = view.loading
      BY <1>1, <3>1 DEF ViewFields
    <3>4. ViewShaped(w)
      BY <1>1, <1>2, <1>6, <3>3 DEF IsMap
    <3> QED
      BY <1>6, <2>1, <2>2, <3>2, <3>3, <3>4 DEF Plain
  <2>3. CASE c.op = "assign"
    <3>1. PICK w : w = [view EXCEPT !.tied = tied]
      OBVIOUS
    <3>2. Told(q, c) = w
      <4>1. Told(q, c) = [view EXCEPT !.tied[c.id] = c.arg]
        BY <2>3 DEF Told
      <4> QED
        BY <1>1, <1>5, <3>1, <4>1 DEF ViewFields
    <3>3. /\ w = [field \in ViewFields |-> w[field]] /\ w.rows = view.rows /\ w.tied = tied
          /\ w.filter = view.filter /\ w.loading = view.loading
      BY <1>1, <3>1 DEF ViewFields
    <3>4. ViewShaped(w)
      BY <1>1, <1>2, <1>6, <3>3 DEF IsMap
    <3> QED
      BY <1>6, <2>1, <2>3, <3>2, <3>3, <3>4 DEF Plain
  <2>4. CASE ~(c.op = "remove" /\ page # "recipients") /\ c.op # "assign"
    <3>1. PICK i : i = NoItem
      OBVIOUS
    <3>2. Told(q, c) \in {view, [view EXCEPT !.result = c.id],
                          [view EXCEPT !.chosen = i, !.key = NoItem]}
      BY <1>8, <2>4, <3>1 DEF Told
    <3>3. Plain(Told(q, c))
      BY <3>2, PlainViews
    <3> QED
      BY <1>8, <2>1, <2>4, <3>3 DEF Plain
  <2> QED
    BY <2>2, <2>3, <2>4
<1> QED
  BY <1>7, <1>8

LEMMA ReleasedShows ==
  ASSUME NEW v, ViewShaped(v), NEW q, NEW rest
  PROVE  LET w == Released(v, q, rest) IN
         ViewShaped(w) /\ w.rows = v.rows /\ w.tied = v.tied /\ w.loading = v.loading
<1> DEFINE w == [v EXCEPT !.busy = NoItem]
<1>1. /\ w = [field \in ViewFields |-> w[field]] /\ w.rows = v.rows /\ w.tied = v.tied
      /\ w.filter = v.filter /\ w.loading = v.loading
  BY DEF ViewShaped, ViewFields
<1>2. Released(v, q, rest) \in {v, w}
  BY DEF Released
<1> HIDE DEF w
<1>3. ViewShaped(w)
  BY <1>1 DEF ViewShaped
<1> QED
  BY <1>1, <1>2, <1>3

(* What an answer does to the handlers: its own goes on to read, or ends,   *)
(* and the others' lists get old when what is listed changes.              *)
Same(p, q) == /\ p.handler = q.handler /\ p.calls = q.calls /\ p.stage = q.stage /\ p.ok = q.ok
              /\ p.rows = q.rows /\ p.tied = q.tied
AnswerIs(r, q, c, rest, new) ==
  /\ q = req[r] /\ c = First(q) /\ rest = IF q.ok THEN Tail(q.calls) ELSE <<>>
  /\ new = IF rest = <<>> THEN Idle ELSE Asking(q.handler, rest)
  /\ q.stage = "answered" /\ RequestShaped(q) /\ Done(q)
  /\ view' = Released(IF q.ok THEN Told(q, c) ELSE Failed(c), q, rest)
  /\ stale' = (stale \/ (c.op = "list" /\ q.old))
  /\ UNCHANGED <<page, server, faults>>
  /\ req' = [s \in Requests |-> req'[s]] /\ req'[r] = new
  /\ \A s \in Requests \ {r} :
       /\ Same(req'[s], req[s]) /\ RequestShaped(req'[s])
       /\ ~req'[s].old => ~req[s].old
       /\ HasRead(req[s]) /\ (c.op = "list" \/ (c.op \in {"remove", "assign"} /\ page # "recipients"))
            => req'[s].old

LEMMA AnswerDoes ==
  ASSUME Shaped, page # "runs", NEW r \in Requests, Answer(r)
  PROVE  \E q, c, rest, new : AnswerIs(r, q, c, rest, new)
<1>1. PICK q, c, rest : q = req[r] /\ c = First(q) /\ rest = IF q.ok THEN Tail(q.calls) ELSE <<>>
  OBVIOUS
<1>2. PICK new : new = IF rest = <<>> THEN Idle ELSE Asking(q.handler, rest)
  OBVIOUS
<1>3. /\ q.stage = "answered"
      /\ view' = Released(IF q.ok THEN Told(q, c) ELSE Failed(c), q, rest)
      /\ stale' = (stale \/ (c.op = "list" /\ q.old))
      /\ UNCHANGED <<page, server, faults>>
      /\ req' = [Aged(r, c) EXCEPT ![r] = new]
  BY <1>1, <1>2 DEF Answer, First, Asking
<1>4. \A s \in Requests : RequestShaped(req[s]) /\ Done(req[s])
  BY DEF Shaped
<1>5. /\ req' = [s \in Requests |-> req'[s]] /\ req'[r] = new
      /\ \A s \in Requests \ {r} : req'[s] = Aged(r, c)[s]
  BY <1>3 DEF Aged
<1>6. ASSUME NEW s \in Requests \ {r}
      PROVE  /\ Same(req'[s], req[s]) /\ RequestShaped(req'[s])
             /\ ~req'[s].old => ~req[s].old
             /\ HasRead(req[s]) /\ (c.op = "list" \/ (c.op \in {"remove", "assign"} /\ page # "recipients"))
                  => req'[s].old
  <2>1. PICK p : p = req[s] /\ RequestShaped(p)
    BY <1>4
  <2>2. PICK old : old = [p EXCEPT !.old = TRUE]
    OBVIOUS
  <2>3. /\ old = [field \in RequestFields |-> old[field]] /\ Same(old, p) /\ old.old
    BY <2>1, <2>2 DEF RequestShaped, RequestFields, Same
  <2>4. RequestShaped(old)
    BY <2>1, <2>3 DEF RequestShaped, Same, Assigns, First
  <2>5. Same(p, p)
    BY DEF Same
  <2>6. req'[s] = IF /\ p.stage = "answered" /\ First(p).op = "list"
                     /\ (c.op = "list" \/ (c.op \in {"remove", "assign"} /\ page # "recipients"))
                  THEN old ELSE p
    BY <1>5, <2>1, <2>2 DEF Aged, First
  <2> QED
    BY <2>1, <2>3, <2>4, <2>5, <2>6 DEF HasRead
<1>7. RequestShaped(q) /\ Done(q)
  BY <1>1, <1>4
<1>8. AnswerIs(r, q, c, rest, new)
  BY <1>1, <1>2, <1>3, <1>5, <1>6, <1>7 DEF AnswerIs
<1> QED
  BY <1>8

LEMMA AnswerShaped ==
  ASSUME Shaped, page # "runs", NEW r \in Requests, Answer(r)
  PROVE  Shaped'
<1>0. PICK q, c, rest, new : AnswerIs(r, q, c, rest, new)
  BY AnswerDoes
<1>1. /\ q = req[r] /\ c = First(q) /\ rest = IF q.ok THEN Tail(q.calls) ELSE <<>>
      /\ new = IF rest = <<>> THEN Idle ELSE Asking(q.handler, rest)
      /\ q.stage = "answered" /\ RequestShaped(q) /\ Done(q)
      /\ view' = Released(IF q.ok THEN Told(q, c) ELSE Failed(c), q, rest)
      /\ UNCHANGED <<page, server, faults>>
      /\ req' = [s \in Requests |-> req'[s]] /\ req'[r] = new
      /\ \A s \in Requests \ {r} : Same(req'[s], req[s]) /\ RequestShaped(req'[s])
  BY <1>0 DEF AnswerIs
<1>2. /\ ServerShaped /\ ViewShaped(view) /\ faults \in Nat
      /\ \A s \in Requests : RequestShaped(req[s]) /\ Done(req[s])
      /\ \A s, t \in Requests : Assigns(req[s]) /\ Assigns(req[t]) => s = t
  BY DEF Shaped
<1>3. RequestShaped(new) /\ new.stage # "answered" /\ ~Assigns(new)
  <2>1. CASE rest = <<>>
    BY <1>1, <2>1, IdleShaped
  <2>2. CASE rest # <<>>
    <3>1. CallsOf(rest) /\ Head(rest).op = "list" /\ q.handler # "none"
      BY <1>1, <2>2, CallsFirst DEF RequestShaped
    <3>2. new = Asking(q.handler, rest)
      BY <1>1, <2>2
    <3>3. RequestShaped(new) /\ new.stage = "asked" /\ (Assigns(new) => Head(rest).op = "assign")
      BY <2>2, <3>1, <3>2, AskingShaped
    <3> QED
      BY <3>1, <3>3
  <2> QED
    BY <2>1, <2>2
<1>4. ViewShaped(view')
  <2>1. IsMap(q.rows) /\ IsMap(q.tied)
    BY <1>1 DEF RequestShaped
  <2>2. ViewShaped(Told(q, c)) /\ ViewShaped(Failed(c))
    BY <1>2, <2>1, ToldShows
  <2> QED
    BY <1>1, <2>2, ReleasedShows
<1>5. ASSUME NEW s \in Requests PROVE (RequestShaped(req[s]) /\ Done(req[s]))'
  <2>1. PICK p : p = req'[s]
    OBVIOUS
  <2>2. RequestShaped(p) /\ Done(p)
    <3>1. CASE s = r
      BY <1>1, <1>3, <2>1, <3>1 DEF Done, HasDone
    <3>2. CASE s # r
      <4>1. Same(p, req[s]) /\ RequestShaped(p) /\ Done(req[s])
        BY <1>1, <1>2, <2>1, <3>2
      <4> QED
        BY <4>1 DEF Done, HasDone, Same, First
    <3> QED
      BY <3>1, <3>2
  <2>3. RequestShaped(p)' /\ Done(p)'
    BY <1>1, <2>2, RequestShapedStays DEF Done, HasDone, First
  <2> QED
    BY <2>1, <2>3 DEF RequestShaped, Done, HasDone, Assigns, First
<1>6. ASSUME NEW s \in Requests, Assigns(req'[s]) PROVE s # r /\ Assigns(req[s])
  BY <1>1, <1>3, <1>6 DEF Assigns, Same, First
<1>7. \A s, t \in Requests : Assigns(req'[s]) /\ Assigns(req'[t]) => s = t
  BY <1>2, <1>6
<1>8. ServerShaped'
  BY <1>1, <1>2 DEF ServerShaped
<1> QED
  BY <1>1, <1>2, <1>4, <1>5, <1>7, <1>8 DEF Shaped, Assigns, First

(* What others owe stays owed. *)
LEMMA OthersOwe ==
  ASSUME UNCHANGED <<page, server>>, NEW s, Same(req'[s], req[s]), NEW i
  PROVE  /\ RowDue(req[s], i) => RowDue(req[s], i)'
         /\ TieDue(req[s], i) => TieDue(req[s], i)'
<1>1. PICK p, q : p = req[s] /\ q = req'[s] /\ Same(q, p)
  OBVIOUS
<1>2. RowDue(p, i) => RowDue(q, i)'
  BY <1>1 DEF Same, RowDue, WillRead, HasRead, HasDone, First, RowRight, Seen
<1>3. TieDue(p, i) => TieDue(q, i)'
  BY <1>1 DEF Same, TieDue, WillRead, HasRead, HasDone, First, TieRight
<1>4. RowDue(q, i)' => RowDue(req[s], i)'
  BY <1>1 DEF RowDue, WillRead, HasRead, HasDone, First, RowRight, Seen
<1>5. TieDue(q, i)' => TieDue(req[s], i)'
  BY <1>1 DEF TieDue, WillRead, HasRead, HasDone, First, TieRight
<1> QED
  BY <1>1, <1>2, <1>3, <1>4, <1>5

LEMMA AnswerCurrent ==
  ASSUME Shaped, Current, page # "runs", NEW r \in Requests, Answer(r)
  PROVE  Current'
<1>0. PICK q, c, rest, new : AnswerIs(r, q, c, rest, new)
  BY AnswerDoes
<1>1. /\ q = req[r] /\ c = First(q) /\ rest = IF q.ok THEN Tail(q.calls) ELSE <<>>
      /\ new = IF rest = <<>> THEN Idle ELSE Asking(q.handler, rest)
      /\ q.stage = "answered" /\ RequestShaped(q) /\ Done(q)
      /\ view' = Released(IF q.ok THEN Told(q, c) ELSE Failed(c), q, rest)
      /\ stale' = (stale \/ (c.op = "list" /\ q.old))
      /\ UNCHANGED <<page, server, faults>>
      /\ req' = [s \in Requests |-> req'[s]] /\ req'[r] = new
      /\ \A s \in Requests \ {r} :
           /\ Same(req'[s], req[s]) /\ RequestShaped(req'[s])
           /\ ~req'[s].old => ~req[s].old
           /\ HasRead(req[s]) /\ (c.op = "list" \/ (c.op \in {"remove", "assign"} /\ page # "recipients"))
                => req'[s].old
  BY <1>0 DEF AnswerIs
<1>2. SUFFICES ASSUME faults = 0, ~stale', page # "runs"
               PROVE  /\ ~view'.loading => Right(view.rows, view.tied)'
                      /\ \A s \in Requests : HasRead(req[s])' /\ ~req'[s].old =>
                           Right(req[s].rows, req[s].tied)'
  BY <1>1 DEF Current
<1>3. ~stale /\ ~(c.op = "list" /\ q.old)
  BY <1>1, <1>2
<1>4. /\ ViewShaped(view) /\ IsMap(q.rows) /\ IsMap(q.tied) /\ (c.op = "list" => q.ok)
      /\ Single(c) \/ ReadAfter(c)
      /\ c.op = "list" => Tail(q.calls) = <<>>
      /\ ReadAfter(c) /\ ~Single(c) => Tail(q.calls) # <<>>
      /\ Tail(q.calls) # <<>> => Head(Tail(q.calls)).op = "list" /\ CallsOf(Tail(q.calls)) /\ c.op # "list"
  BY <1>1, <1>2, CallsFirst DEF RequestShaped, Shaped
<1>5. PICK w : w = IF q.ok THEN Told(q, c) ELSE Failed(c)
  OBVIOUS
<1>6. ViewShaped(w) /\ view'.rows = w.rows /\ view'.tied = w.tied /\ view'.loading = w.loading
  <2>1. ViewShaped(w)
    BY <1>4, <1>5, ToldShows
  <2> QED
    BY <1>1, <1>5, <2>1, ReleasedShows
<1>7. CASE rest # <<>>
  <2>1. new.stage = "asked" /\ new.calls = rest /\ Head(rest).op = "list"
    <3>1. CallsOf(rest) /\ Head(rest).op = "list" /\ q.handler # "none"
      BY <1>1, <1>4, <1>7 DEF RequestShaped
    <3>2. new = Asking(q.handler, rest)
      BY <1>1, <1>7
    <3> QED
      BY <1>7, <3>1, <3>2, AskingShaped
  <2>2. WillRead(req[r])'
    BY <1>1, <2>1 DEF WillRead, First
  <2> QED
    BY <2>2 DEF Right, RowDue, TieDue
<1>8. CASE rest = <<>>
  <2>1. ASSUME NEW s \in Requests, HasRead(req[s])' PROVE s # r /\ HasRead(req[s])
    <3>1. s # r
      BY <1>1, <1>8, <2>1, IdleShaped DEF HasRead
    <3> QED
      BY <1>1, <2>1, <3>1 DEF HasRead, Same, First
  <2>2. \A l, i : /\ RowRight(l, i) => RowRight(l, i)'
                  /\ TieRight(l, i) => TieRight(l, i)'
    BY <1>1 DEF RowRight, TieRight, Seen
  <2>3. ASSUME NEW i \in Items
        PROVE  /\ RowDue(q, i) => \/ HasRead(q) /\ RowRight(q.rows, i)
                                  \/ HasDone(q, "remove", i)
               /\ TieDue(q, i) => \/ HasRead(q) /\ TieRight(q.tied, i)
                                  \/ HasDone(q, "assign", i)
    BY <1>1, <1>8 DEF RowDue, TieDue, WillRead
  <2>4. ASSUME NEW rows, NEW tied, Right(rows, tied), NEW k, NEW t, NEW i \in Items,
               RowRight(rows, i) \/ RowDue(q, i) => RowRight(k, i),
               TieRight(tied, i) \/ TieDue(q, i) => TieRight(t, i)
        PROVE  /\ RowRight(k, i)' \/ \E s \in Requests : RowDue(req[s], i)'
               /\ TieRight(t, i)' \/ \E s \in Requests : TieDue(req[s], i)'
    <3>1. RowRight(k, i)' \/ \E s \in Requests : RowDue(req[s], i)'
      <4>1. CASE RowRight(rows, i) \/ RowDue(q, i)
        BY <2>2, <2>4, <4>1
      <4>2. CASE ~RowRight(rows, i) /\ ~RowDue(q, i)
        <5>1. PICK s \in Requests : RowDue(req[s], i)
          BY <2>4, <4>2 DEF Right
        <5>2. s \in Requests \ {r}
          BY <1>1, <4>2, <5>1
        <5> QED
          BY <1>1, <5>1, <5>2, OthersOwe
      <4> QED
        BY <4>1, <4>2
    <3>2. TieRight(t, i)' \/ \E s \in Requests : TieDue(req[s], i)'
      <4>1. CASE TieRight(tied, i) \/ TieDue(q, i)
        BY <2>2, <2>4, <4>1
      <4>2. CASE ~TieRight(tied, i) /\ ~TieDue(q, i)
        <5>1. PICK s \in Requests : TieDue(req[s], i)
          BY <2>4, <4>2 DEF Right
        <5>2. s \in Requests \ {r}
          BY <1>1, <4>2, <5>1
        <5> QED
          BY <1>1, <5>1, <5>2, OthersOwe
      <4> QED
        BY <4>1, <4>2
    <3> QED
      BY <3>1, <3>2
  <2>5. CASE c.op = "list"
    <3>1. HasRead(q) /\ w.rows = q.rows /\ w.tied = q.tied /\ ~q.old /\ q.ok
      BY <1>1, <1>3, <1>4, <1>5, <2>5, ToldShows DEF HasRead
    <3>2. Right(q.rows, q.tied)
      BY <1>1, <1>2, <1>3, <3>1 DEF Current
    <3>3. ASSUME NEW i \in Items
          PROVE  /\ RowDue(q, i) => RowRight(q.rows, i)
                 /\ TieDue(q, i) => TieRight(q.tied, i)
      BY <1>1, <2>3, <2>5 DEF HasDone
    <3>4. ASSUME NEW i \in Items
          PROVE  /\ RowRight(q.rows, i)' \/ \E s \in Requests : RowDue(req[s], i)'
                 /\ TieRight(q.tied, i)' \/ \E s \in Requests : TieDue(req[s], i)'
      BY <2>4, <3>2, <3>3
    <3>5. PICK k, t : k = q.rows /\ t = q.tied /\ view'.rows = k /\ view'.tied = t
      BY <1>6, <3>1
    <3>6. Right(view.rows, view.tied)'
      BY <3>4, <3>5 DEF Right
    <3>7. \A s \in Requests : HasRead(req[s])' => req'[s].old
      BY <1>1, <2>1, <2>5
    <3> QED
      BY <3>6, <3>7
  <2>6. CASE c.op # "list"
    <3>1. w.loading = view.loading
      BY <1>4, <1>5, <2>6, ToldShows
    <3>2. ASSUME NEW i \in Items
          PROVE  /\ RowDue(q, i) => q.ok /\ c.op = "remove" /\ c.id = i /\ server.rows[i] = Deleted
                 /\ TieDue(q, i) => q.ok /\ c.op = "assign" /\ c.id = i /\ server.tied[i] = c.arg
      BY <1>1, <2>3, <2>6 DEF HasDone, HasRead, Done
    <3>3. q.ok => Single(c)
      BY <1>1, <1>4, <1>8
    <3>4. ASSUME NEW i \in Items
          PROVE  /\ RowRight(view.rows, i) \/ RowDue(q, i) => RowRight(w.rows, i)
                 /\ TieRight(view.tied, i) \/ TieDue(q, i) => TieRight(w.tied, i)
      <4>1. \/ w.rows[i] = view.rows[i] /\ ~RowDue(q, i)
            \/ w.rows[i] = "none" /\ server.rows[i] = Deleted
        <5>1. CASE q.ok /\ c.op = "remove" /\ page # "recipients"
          <6>1. w.rows[i] = IF i = c.id THEN "none" ELSE view.rows[i]
            BY <1>4, <1>5, <5>1, ToldShows
          <6>2. HasDone(q, "remove", c.id)
            BY <1>1, <5>1 DEF HasDone
          <6>3. i = c.id => server.rows[i] = Deleted
            BY <1>1, <6>2 DEF Done
          <6> QED
            BY <3>2, <6>1, <6>3
        <5>2. CASE ~(q.ok /\ c.op = "remove" /\ page # "recipients")
          <6>1. ~(q.ok /\ c.op = "remove")
            BY <3>3, <5>2 DEF Single, ReadsAll
          <6>2. w.rows = view.rows
            BY <1>4, <1>5, <2>6, <6>1, ToldShows
          <6> QED
            BY <3>2, <6>1, <6>2
        <5> QED
          BY <5>1, <5>2
      <4>2. \/ w.tied[i] = view.tied[i] /\ ~TieDue(q, i)
            \/ w.tied[i] = server.tied[i]
        <5>1. CASE q.ok /\ c.op = "assign"
          <6>1. w.tied[i] = IF i = c.id THEN c.arg ELSE view.tied[i]
            BY <1>4, <1>5, <5>1, ToldShows
          <6>2. HasDone(q, "assign", c.id)
            BY <1>1, <5>1 DEF HasDone
          <6>3. i = c.id => server.tied[i] = c.arg
            BY <1>1, <6>2 DEF Done
          <6> QED
            BY <3>2, <6>1, <6>3
        <5>2. CASE ~(q.ok /\ c.op = "assign")
          <6>1. w.tied = view.tied
            BY <1>4, <1>5, <2>6, <5>2, ToldShows
          <6> QED
            BY <3>2, <5>2, <6>1
        <5> QED
          BY <5>1, <5>2
      <4>3. RowRight(view.rows, i) \/ RowDue(q, i) => RowRight(w.rows, i)
        BY <4>1 DEF RowRight, Seen
      <4>4. TieRight(view.tied, i) \/ TieDue(q, i) => TieRight(w.tied, i)
        BY <4>2 DEF TieRight
      <4> QED
        BY <4>3, <4>4
    <3>5. ~view'.loading => Right(view.rows, view.tied)'
      <4>1. SUFFICES ASSUME ~view'.loading PROVE Right(view.rows, view.tied)'
        OBVIOUS
      <4>2. Right(view.rows, view.tied)
        BY <1>2, <1>3, <1>6, <3>1, <4>1 DEF Current
      <4>3. PICK k, t : k = w.rows /\ t = w.tied /\ view'.rows = k /\ view'.tied = t
        BY <1>6
      <4>4. ASSUME NEW i \in Items
            PROVE  /\ RowRight(k, i)' \/ \E s \in Requests : RowDue(req[s], i)'
                   /\ TieRight(t, i)' \/ \E s \in Requests : TieDue(req[s], i)'
        BY <2>4, <3>4, <4>2, <4>3
      <4> QED
        BY <4>3, <4>4 DEF Right
    <3>6. ASSUME NEW s \in Requests, HasRead(req[s])', ~req'[s].old
          PROVE  Right(req[s].rows, req[s].tied)'
      <4>1. s \in Requests \ {r} /\ HasRead(req[s]) /\ ~req[s].old
        BY <1>1, <2>1, <3>6
      <4>2. PICK k, t : k = req[s].rows /\ t = req[s].tied /\ req'[s].rows = k /\ req'[s].tied = t
        BY <1>1, <4>1 DEF Same
      <4>3. Right(k, t)
        BY <1>2, <1>3, <4>1, <4>2 DEF Current
      <4>4. ~(c.op \in {"remove", "assign"} /\ page # "recipients")
        BY <1>1, <3>6, <4>1
      <4>5. ASSUME NEW i \in Items PROVE ~RowDue(q, i) /\ ~TieDue(q, i)
        BY <3>2, <3>3, <4>4 DEF Single, ReadsAll
      <4>6. ASSUME NEW i \in Items
            PROVE  /\ RowRight(k, i)' \/ \E p \in Requests : RowDue(req[p], i)'
                   /\ TieRight(t, i)' \/ \E p \in Requests : TieDue(req[p], i)'
        BY <2>4, <4>3, <4>5
      <4> QED
        BY <4>2, <4>6 DEF Right
    <3> QED
      BY <3>5, <3>6
  <2> QED
    BY <2>5, <2>6
<1> QED
  BY <1>7, <1>8

-----------------------------------------------------------------------------
(* ListIsCurrent. *)

LEMMA CurrentInit == Init => Shaped /\ Current
<1> SUFFICES ASSUME Init, page # "runs" PROVE Shaped /\ Current
  BY DEF Init, Shaped, Current
<1>1. PICK rows \in [Items -> FirstStatuses[page]] : server = [rows |-> rows, tied |-> Untied]
  BY DEF Init
<1>2. /\ page \in {"sources", "recipients", "dashboard", "connectors", "workflows"}
      /\ faults = 0 /\ req = [r \in Requests |-> Idle]
  BY LibraryAssumption DEF Init, AllPages
<1>3. page # "sources" => "busy" \notin FirstStatuses[page]
  BY <1>2 DEF FirstStatuses
<1>4. ServerShaped
  BY <1>1, <1>3 DEF ServerShaped, IsMap, Untied
<1>5. ViewShaped(view) /\ view.loading
  <2>1. PICK i : view \in {Closed, [Closed EXCEPT !.chosen = i]}
    BY DEF Init
  <2>2. Closed = [field \in ViewFields |-> Closed[field]]
    BY DEF Closed, ViewFields
  <2>3. IsMap(Closed.rows) /\ IsMap(Closed.tied) /\ Closed.filter = "all" /\ Closed.loading
    BY DEF Closed, IsMap, Nothing, Untied
  <2>4. PICK w : w = [Closed EXCEPT !.chosen = i]
    OBVIOUS
  <2>5. /\ w = [field \in ViewFields |-> w[field]] /\ w.rows = Closed.rows /\ w.tied = Closed.tied
        /\ w.filter = Closed.filter /\ w.loading = Closed.loading
    BY <2>2, <2>4 DEF ViewFields
  <2> QED
    BY <2>1, <2>2, <2>3, <2>4, <2>5 DEF ViewShaped
<1>6. \A r \in Requests : req[r] = Idle /\ Done(Idle) /\ ~HasRead(Idle)
  BY <1>2, IdleShaped DEF Done, HasDone, HasRead
<1>7. Shaped
  BY <1>2, <1>4, <1>5, <1>6, IdleShaped DEF Shaped
<1> QED
  BY <1>5, <1>6, <1>7 DEF Current

LEMMA CurrentStep == Shaped /\ Current /\ [Next]_vars => Shaped' /\ Current'
<1> SUFFICES ASSUME Shaped, Current, [Next]_vars, page # "runs" PROVE Shaped' /\ Current'
  BY SamePage DEF Shaped, Current
<1>1. CASE UNCHANGED vars
  <2>1. UNCHANGED <<page, server, view, req, faults, stale>>
    BY <1>1 DEF vars
  <2>2. Plain(view')
    BY <2>1, PlainViews DEF Shaped
  <2> QED
    BY <2>1, <2>2, ViewOnlyKeeps
<1>2. ASSUME NEW r \in Requests, Load(r) \/ Serve(r) \/ RequestFails(r) \/ Answer(r)
      PROVE  Shaped' /\ Current'
  BY <1>2, ReadingKeeps, ServeKeeps, FailureKeeps, AnswerShaped, AnswerCurrent, Zenon
<1>3. ASSUME NEW r \in Requests, UserActs(r) PROVE Shaped' /\ Current'
  <2>1. \A f \in Filters : ~PickFilter(r, f)
    BY DEF PickFilter
  <2>2. CASE SeriesMade(r)
    BY <2>2, SeriesMadeKeeps
  <2>3. CASE ~SeriesMade(r)
    BY <1>3, <2>1, <2>3, ButtonKeeps, Zenon DEF UserActs
  <2> QED
    BY <2>2, <2>3
<1>4. CASE Polls
  BY <1>4, ReadingKeeps, Zenon DEF Polls
<1>5. CASE ClosePreview \/ TypeKey \/ Cancel
  BY <1>5, UserAlone
<1>6. ~ToggleAuto
  BY DEF ToggleAuto
<1>7. CASE Others
  <2>1. PICK i \in Items : ItemEnds(i) \/ ReaderVerifies(i) \/ Configure(i) \/ PickWorkflow(i)
    BY <1>7 DEF Others
  <2> QED
    BY <2>1, ItemEndsKeeps, ReaderKeeps, UserAlone, Zenon
<1> QED
  BY <1>1, <1>2, <1>3, <1>4, <1>5, <1>6, <1>7, Zenon DEF Next

(* A list that nothing is about to repair is what the server has, for any   *)
(* number of rows, handlers and clicks: every change the page asks for is   *)
(* read back or put in, unless a call failed, a reader acted or an old list *)
(* came after a newer one.                                                 *)
THEOREM ListsAreCurrent == Spec => []ListIsCurrent
<1>1. Init => Shaped /\ Current
  BY CurrentInit
<1>2. Shaped /\ Current /\ [Next]_vars => Shaped' /\ Current'
  BY CurrentStep
<1> QED
  BY <1>1, <1>2, CurrentShown, PTL DEF Spec
=============================================================================
