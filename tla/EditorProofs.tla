----------------------------- MODULE EditorProofs -----------------------------
(***************************************************************************)
(* What the issue editor promises a user who does not work in two places at *)
(* a time, proved for every number of handlers, drafts, clicks and failures. *)
(***************************************************************************)
EXTENDS IssueEditor, FiniteSetTheorems, TLAPS

(* What the variables hold: contents are those given out so far, and what    *)
(* the server made of them; a request is only at steps its call takes.      *)
Known == (-(nextDraft - 1))..(nextDraft - 1)

Stages == {"none", "read", "number", "insert", "write", "answer"}
Callers == Buttons \union {"none", "open", "auto", "poll", "gone"}

(* The calls a handler makes.                                               *)
CallsOf(h) ==
  CASE h \in {"auto", "save", "leave"} -> {"save"}
    [] h \in {"none", "poll", "open"} -> {"get"}
    [] h \in {"approve", "test", "generate"} -> {"save", h}
    [] h = "restore" -> {"save", "restore", "get"}
    [] h \in {"cancelSend", "cancelGeneration"} -> {h, "get"}
    [] h = "reschedule" -> {h}
    [] OTHER -> Calls

Steps(call) ==
  CASE call \in {"save", "restore", "generate"} -> {"read", "number", "insert", "write", "answer"}
    [] call \in {"get", "test"} -> {"read", "answer"}
    [] OTHER -> {"read", "write", "answer"}

Handling(contents) ==
  [handler : Callers, call : Calls, stage : Stages, shown : contents, body : contents,
   at : Times, seen : contents, was : Statuses, number : Nat, ok : BOOLEAN]

Rows(contents) == [content : contents, at : Times, status : Statuses]
Pages(contents) == [open : BOOLEAN, content : contents, at : Times, status : Statuses,
                    dirty : BOOLEAN, timer : BOOLEAN, generating : BOOLEAN]

Placed(q) ==
  /\ q.stage = "none" <=> q.handler = "none"
  /\ q.call \in CallsOf(q.handler)
  /\ q.handler # "none" => q.stage \in Steps(q.call)
  /\ q.ok => q.stage = "answer"
  /\ q.handler \in {"none", "gone"} => q.shown = 0

Typed ==
  /\ nextDraft \in Nat \ {0} /\ faults \in Nat
  /\ issue \in Rows(Known) /\ page \in Pages(Known)
  /\ versions \in Seq(Known) /\ recent \in BOOLEAN /\ job \in BOOLEAN
  /\ req \in [Requests -> Handling(Known)]
  /\ \A r \in Requests : Placed(req[r])

-----------------------------------------------------------------------------
(* What a page knows that its handlers do not overlap on.                   *)

(* A handler of a page that is still open or opening.                       *)
Live(q) == q.handler \notin {"none", "gone"}

(* A save has the text that is shown, unless it was typed since.            *)
Saving(q) ==
  /\ ~job
  /\ page.dirty \/ page.content = q.body
  /\ q.handler = "leave" => page.dirty
  /\ q.handler \in Flushing => q.shown = q.body /\ page.dirty /\ page.content = q.body
  /\ q.stage = "answer" /\ q.ok => issue.content = Normalized(q.body) /\ q.was # "generating"
  /\ q.stage = "answer" /\ ~q.ok => faults > 0

(* An answer that is shown is still true, or a generation is under way.     *)
Getting(q) ==
  q.stage = "answer" =>
    q.ok /\ (q.was # "generating" => issue.status # "generating" /\ q.seen = issue.content)

(* What is approved or tested is what was shown.                            *)
Using(q) ==
  /\ Same(q.shown, issue.content)
  /\ q.call = "approve" => ~job
  /\ page.status # "generating"
  /\ q.stage = "answer" /\ q.ok => q.seen = issue.content

(* What was shown is the draft, and then a version, while nothing fails.    *)
Replacing(q) ==
  /\ q.call = "restore" => ~job
  /\ q.call = "generate" => page.status # "generating"
  /\ q.call = "generate" /\ q.stage = "answer" /\ ~q.ok => faults > 0
  /\ faults = 0 =>
       /\ q.stage \in {"read", "number", "insert"} => Same(q.shown, issue.content)
       /\ q.stage \in {"number", "insert"} => q.seen = issue.content
       /\ q.stage = "write" \/ (q.stage = "answer" /\ q.ok) =>
            q.shown = 0 \/ \E v \in ToSet(versions) : Same(v, q.shown)

Proper(q) ==
  /\ q.stage = "insert" => q.number = Len(versions) + 1
  /\ q.handler \in {"gone", "open"} => ~page.open
  /\ Live(q) /\ q.handler # "open" => page.open
  /\ Live(q) =>
       /\ q.call = "save" => Saving(q)
       /\ q.call = "get" => Getting(q)
       /\ q.call \in {"approve", "test"} => Using(q)
       /\ q.call \in {"generate", "restore"} => Replacing(q)

(* A handler that has changed the row and has not told the page.            *)
Restored(q) == Live(q) /\ q.handler = "restore"
               /\ (q.call = "get" \/ (q.call = "restore" /\ q.stage = "answer" /\ q.ok))
Started(q) == Live(q) /\ q.call = "generate" /\ q.stage = "answer" /\ q.ok

AtMostOne == \A r, s \in Active : r = s

Attended ==
  /\ AtMostOne
  /\ \A r \in Requests : Proper(req[r])
  /\ issue.status = "generating" => job
  /\ ~page.open => ~page.dirty
  /\ page.open /\ ~page.dirty /\ page.status # "generating"
       => Same(page.content, issue.content) \/ \E r \in Requests : Restored(req[r])
  /\ faults = 0 /\ page.open /\ issue.status = "generating" /\ page.status # "generating"
       => \E r \in Requests : Started(req[r])

(* The send time a request has is that of the page, unless it was changed    *)
(* under a save; what is answered is that of the row.                       *)
Timed(q) ==
  Live(q) =>
    /\ q.call \in {"save", "approve", "reschedule"} => q.at = page.at \/ retimed
    /\ q.call \in {"save", "get"} /\ q.stage = "answer" /\ q.ok => issue.at = q.at
    /\ q.handler = "poll" => ~page.dirty
TimeShown == page.open /\ ~page.dirty => page.at = issue.at \/ retimed
Dated == TimeShown /\ \A r \in Requests : Timed(req[r])

Watched == contended \/ (Attended /\ Dated)

-----------------------------------------------------------------------------
(* Contents that the server does not tell apart.                            *)

(* What is normalized is not changed again.                                 *)
LEMMA NormalizedOnce ==
  ASSUME NEW c \in Int
  PROVE  Normalized(c) \in {c, -c} /\ Normalized(Normalized(c)) = Normalized(c)
<1>1. Untidy \subseteq Nat \ {0}
  BY IssueEditorAssumption
<1>2. c \in Untidy => -c \notin Untidy
  BY <1>1
<1> QED
  BY <1>2 DEF Normalized

LEMMA SameAsSaved ==
  ASSUME NEW c \in Int
  PROVE  Same(c, Normalized(c)) /\ Same(c, c) /\ (Same(c, 0) => c = 0)
<1>1. Untidy \subseteq Nat \ {0}
  BY IssueEditorAssumption
<1>2. Normalized(0) = 0
  BY <1>1 DEF Normalized
<1>3. Normalized(c) = 0 => c = 0
  BY <1>1 DEF Normalized
<1> QED
  BY <1>2, <1>3, NormalizedOnce DEF Same

-----------------------------------------------------------------------------
(* Types.                                                                   *)

LEMMA IdleHandling ==
  ASSUME Typed
  PROVE  0 \in Known /\ 0 \in Times /\ Idle \in Handling(Known) /\ Placed(Idle)
<1>1. 0 \in Known /\ 0 \in Times
  BY IssueEditorAssumption DEF Typed, Known
<1> QED
  BY <1>1 DEF Idle, Handling, Callers, Calls, Stages, Statuses, Placed, CallsOf

LEMMA TypedInit == Init => Typed
<1> SUFFICES ASSUME Init PROVE Typed
  OBVIOUS
<1> 0 \in Times
  BY IssueEditorAssumption
<1>1. nextDraft \in Nat \ {0} /\ 0 \in Known /\ issue \in Rows(Known)
  <2>1. CASE issue = [content |-> 0, at |-> 0, status |-> "pending"]
    BY <2>1 DEF Init, Known, Rows, Statuses
  <2>2. CASE issue = [content |-> 1, at |-> 0, status |-> "ready"]
    BY <2>2 DEF Init, Known, Rows, Statuses
  <2> QED
    BY <2>1, <2>2 DEF Init
<1>2. Idle \in Handling(Known) /\ Placed(Idle)
  BY <1>1 DEF Idle, Handling, Callers, Calls, Stages, Statuses, Placed, CallsOf
<1>3. req \in [Requests -> Handling(Known)] /\ \A r \in Requests : Placed(req[r])
  BY <1>2 DEF Init
<1>4. page \in Pages(Known)
  BY <1>1 DEF Init, Pages, Away, Statuses
<1>5. recent \in BOOLEAN /\ job \in BOOLEAN /\ faults \in Nat
  BY DEF Init
<1>6. versions \in Seq(Known)
  BY DEF Init
<1> QED
  BY <1>1, <1>3, <1>4, <1>5, <1>6 DEF Typed

(* A request that begins.                                                   *)
LEMMA BeginHandling ==
  ASSUME Typed, NEW r \in Requests, NEW h \in Callers \ {"none"}, NEW call \in CallsOf(h), NEW b \in Known,
         Begin(r, h, call, b)
  PROVE  \E q \in Handling(Known) :
           /\ req' = [req EXCEPT ![r] = q] /\ Placed(q)
           /\ q.handler = h /\ q.call = call /\ q.stage = "read" /\ q.body = b /\ ~q.ok
           /\ q.shown = IF req[r].handler = h THEN req[r].shown
                        ELSE IF h \in Flushing THEN page.content ELSE 0
           /\ q.at = IF call = "get" THEN 0 ELSE IF req[r].handler = h THEN req[r].at ELSE page.at
<1> DEFINE shown == IF req[r].handler = h THEN req[r].shown
                    ELSE IF h \in Flushing THEN page.content ELSE 0
           at == IF call = "get" THEN 0 ELSE IF req[r].handler = h THEN req[r].at ELSE page.at
           q == [Idle EXCEPT !.handler = h, !.call = call, !.stage = "read", !.shown = shown, !.body = b,
                             !.at = at]
<1>1. shown \in Known /\ at \in Times
  BY IdleHandling DEF Typed, Handling, Pages
<1>2. CallsOf(h) \subseteq Calls
  BY DEF CallsOf, Calls, Callers, Buttons, Flushing
<1>3. q \in Handling(Known)
  BY <1>1, <1>2, IdleHandling DEF Handling, Stages
<1>4. call \in {"get", "test", "reschedule", "save", "restore", "generate", "approve", "cancelSend", "cancelGeneration"}
  BY <1>2 DEF Calls
<1>5. "read" \in Steps(call)
  BY DEF Steps
<1>6. h = "gone" => shown = 0
  BY DEF Flushing, Typed, Placed
<1>7. /\ q.handler = h /\ q.call = call /\ q.stage = "read" /\ q.body = b /\ q.ok = FALSE /\ q.shown = shown
      /\ q.at = at
  BY DEF Idle
<1>8. Placed(q)
  BY <1>5, <1>6, <1>7 DEF Placed
<1> QED
  BY <1>3, <1>7, <1>8 DEF Begin

LEMMA VersionsKnown == ASSUME Typed PROVE ToSet(versions) \subseteq Known
BY DEF Typed, ToSet

(* A step of one handler leaves the others and their types alone.           *)
LEMMA OneHandling ==
  ASSUME Typed, NEW r \in Requests, NEW q \in Handling(Known), Placed(q), req' = [req EXCEPT ![r] = q]
  PROVE  req' \in [Requests -> Handling(Known)] /\ \A s \in Requests : Placed(req'[s])
BY DEF Typed

LEMMA OrphansTyped ==
  ASSUME Typed
  PROVE  Orphans \in [Requests -> Handling(Known)] /\ \A s \in Requests : Placed(Orphans[s])
<1> SUFFICES ASSUME NEW s \in Requests
             PROVE  Orphans[s] \in Handling(Known) /\ Placed(Orphans[s])
  BY DEF Orphans
<1>1. CASE req[s].handler = "none"
  BY <1>1, IdleHandling DEF Orphans
<1>2. CASE req[s].handler # "none"
  <2> DEFINE q == [req[s] EXCEPT !.handler = "gone", !.shown = 0]
  <2>1. Orphans[s] = q /\ req[s] \in Handling(Known) /\ Placed(req[s])
    BY <1>2 DEF Orphans, Typed
  <2>2. q \in Handling(Known)
    BY <2>1, IdleHandling DEF Handling, Callers
  <2>3. /\ q.handler = "gone" /\ q.shown = 0 /\ q.call = req[s].call /\ q.stage = req[s].stage
        /\ q.ok = req[s].ok /\ q.call \in Calls
    BY <2>1, <2>2 DEF Handling
  <2>4. CallsOf("gone") = Calls
    BY DEF CallsOf
  <2>5. Placed(q)
    BY <1>2, <2>1, <2>3, <2>4 DEF Placed
  <2> QED
    BY <2>1, <2>2, <2>5
<1> QED
  BY <1>1, <1>2

(* What the page makes of an answer.                                        *)
LEMMA ToldPage ==
  ASSUME Typed, NEW q \in Handling(Known)
  PROVE  Told(q) \in Pages(Known)
<1>1. Loaded(q) \in Pages(Known) /\ Polled(q) \in Pages(Known)
  BY IdleHandling DEF Typed, Loaded, Polled, Away, Pages, Handling, Statuses
<1>2. Saved(q) \in Pages(Known)
  BY DEF Typed, Saved, Pages, Handling
<1>3. [page EXCEPT !.status = "generating"] \in Pages(Known) /\ [page EXCEPT !.generating = FALSE] \in Pages(Known)
  BY DEF Typed, Pages, Statuses
<1> QED
  BY <1>1, <1>2, <1>3 DEF Told, Typed

LEMMA RefuseHandling ==
  ASSUME Typed, NEW r \in Requests, req[r].stage # "none", Refuse(r)
  PROVE  \E q \in Handling(Known) :
           /\ req' = [req EXCEPT ![r] = q] /\ Placed(q)
           /\ q.handler = req[r].handler /\ q.call = req[r].call /\ q.stage = "answer" /\ q.body = req[r].body
           /\ ~q.ok /\ q.shown = req[r].shown /\ q.at = req[r].at
<1> DEFINE q == [req[r] EXCEPT !.stage = "answer", !.ok = FALSE, !.seen = 0, !.was = "pending", !.number = 0]
<1>1. req[r] \in Handling(Known) /\ Placed(req[r])
  BY DEF Typed
<1>2. q \in Handling(Known)
  BY <1>1, IdleHandling DEF Handling, Stages, Statuses
<1>3. /\ q.handler = req[r].handler /\ q.call = req[r].call /\ q.stage = "answer" /\ q.body = req[r].body
      /\ q.ok = FALSE /\ q.shown = req[r].shown /\ q.at = req[r].at
  BY <1>1 DEF Handling
<1>4. "answer" \in Steps(req[r].call)
  BY DEF Steps
<1>5. Placed(q)
  BY <1>1, <1>3, <1>4 DEF Placed
<1>6. req' = [req EXCEPT ![r] = q]
  BY DEF Refuse, Typed
<1> QED
  BY <1>2, <1>3, <1>5, <1>6

(* A step of a handler's request. *)
LEMMA ServeTyped ==
  ASSUME Typed, NEW r \in Requests,
         ReadIssue(r) \/ SnapshotNumber(r) \/ SnapshotInsert(r) \/ WriteIssue(r) \/ RequestFails(r)
  PROVE  Typed'
<1> DEFINE q == req[r]
<1>1. q \in Handling(Known) /\ Placed(q) /\ 0 \in Known
  BY IdleHandling DEF Typed
<1>2. Known' = Known
  BY DEF ReadIssue, SnapshotNumber, SnapshotInsert, WriteIssue, RequestFails, Known
<1> SUFFICES ASSUME TRUE
             PROVE  /\ \E new \in Handling(Known) : Placed(new) /\ req' = [req EXCEPT ![r] = new]
                    /\ issue' \in Rows(Known) /\ page' = page /\ nextDraft' = nextDraft /\ faults' \in Nat
                    /\ versions' \in Seq(Known) /\ recent' \in BOOLEAN /\ job' \in BOOLEAN
  BY <1>2, OneHandling DEF Typed
<1>3. CASE ReadIssue(r)
  <2>1. CASE Refused(q.call)
    BY <1>3, <2>1, RefuseHandling DEF ReadIssue, Typed
  <2>2. CASE ~Refused(q.call)
    <3> DEFINE stage == IF AnswersAtOnce(q.call) THEN "answer"
                        ELSE IF q.call \in {"save", "restore", "generate"} THEN "number" ELSE "write"
               ok == AnswersAtOnce(q.call)
               new == [q EXCEPT !.stage = stage, !.seen = issue.content, !.was = issue.status,
                             !.at = IF q.call = "get" THEN issue.at ELSE @,
                             !.ok = IF ok THEN TRUE ELSE @]
    <3>1. q.ok = FALSE /\ q.stage = "read" /\ q.handler # "none"
      BY <1>1, <1>3 DEF ReadIssue, Placed, Handling
    <3>2. ok \in BOOLEAN
      BY DEF AnswersAtOnce
    <3>3. issue.content \in Known /\ issue.at \in Times /\ issue.status \in Statuses
      BY DEF Typed, Rows
    <3>4. new \in Handling(Known)
      BY <1>1, <3>1, <3>2, <3>3 DEF Handling, Stages
    <3>5. /\ new.handler = q.handler /\ new.call = q.call /\ new.stage = stage /\ new.ok = ok
          /\ new.shown = q.shown
      BY <1>1, <3>1, <3>2 DEF Handling
    <3>6. stage \in Steps(q.call)
      BY <1>1 DEF Steps, AnswersAtOnce, Handling, Calls
    <3>7. Placed(new)
      BY <1>1, <3>1, <3>5, <3>6 DEF Placed
    <3>8. req' = [req EXCEPT ![r] = new]
      <4>1. CASE ok
        BY <1>1, <1>3, <2>2, <3>1, <4>1, ZenonT(30) DEF ReadIssue, Go, Handling
      <4>2. CASE ~ok
        BY <1>1, <1>3, <2>2, <3>1, <4>2, ZenonT(30) DEF ReadIssue, Go, Handling
      <4> QED
        BY <4>1, <4>2
    <3> QED
      BY <1>3, <3>4, <3>7, <3>8 DEF ReadIssue, Typed
  <2> QED
    BY <2>1, <2>2
<1>4. CASE SnapshotNumber(r)
  <2> DEFINE kept == ShouldSnapshot(q.seen, IsAutosave(q))
             new == IF kept THEN [q EXCEPT !.stage = "insert", !.number = Len(versions) + 1]
                    ELSE [q EXCEPT !.stage = "write", !.seen = 0, !.was = "pending"]
  <2>1. q.stage = "number" /\ Len(versions) + 1 \in Nat
    BY <1>4 DEF SnapshotNumber, Typed
  <2>2. new \in Handling(Known)
    BY <1>1, <2>1 DEF Handling, Stages, Statuses
  <2>3. new.handler = q.handler /\ new.call = q.call /\ new.stage \in {"insert", "write"} /\ new.ok = q.ok
        /\ new.shown = q.shown
    BY <1>1 DEF Handling
  <2>4. new.stage \in Steps(q.call)
    BY <1>1, <2>1, <2>3 DEF Steps, Placed
  <2>5. Placed(new)
    BY <1>1, <2>1, <2>3, <2>4 DEF Placed
  <2>6. req' = [req EXCEPT ![r] = new]
    BY <1>1, <1>4 DEF SnapshotNumber, Typed
  <2> QED
    BY <1>4, <2>2, <2>5, <2>6 DEF SnapshotNumber, Typed
<1>5. CASE SnapshotInsert(r)
  <2>1. CASE q.number = Len(versions) + 1
    <3> DEFINE new == [q EXCEPT !.stage = "write", !.number = 0, !.seen = 0, !.was = "pending"]
    <3>1. q.stage = "insert"
      BY <1>5 DEF SnapshotInsert
    <3>2. new \in Handling(Known)
      BY <1>1 DEF Handling, Stages, Statuses
    <3>3. new.handler = q.handler /\ new.call = q.call /\ new.stage = "write" /\ new.ok = q.ok
          /\ new.shown = q.shown
      BY <1>1 DEF Handling
    <3>4. "write" \in Steps(q.call)
      BY <1>1, <3>1 DEF Steps, Placed
    <3>5. Placed(new)
      BY <1>1, <3>1, <3>3, <3>4 DEF Placed
    <3>6. req' = [req EXCEPT ![r] = new]
      BY <1>1, <1>5, <2>1 DEF SnapshotInsert, Typed
    <3>7. Append(versions, q.seen) \in Seq(Known)
      BY <1>1 DEF Typed, Handling
    <3> QED
      BY <1>5, <2>1, <3>2, <3>5, <3>6, <3>7 DEF SnapshotInsert, Typed
  <2>2. CASE q.number # Len(versions) + 1
    BY <1>5, <2>2, RefuseHandling DEF SnapshotInsert, Typed
  <2> QED
    BY <2>1, <2>2
<1>6. CASE WriteIssue(r)
  <2>1. q.stage = "write" /\ q.call \in {"save", "restore", "generate", "approve", "reschedule",
                                         "cancelSend", "cancelGeneration"}
    BY <1>1, <1>6 DEF WriteIssue, Placed, Steps, Handling, Calls
  <2>2. Written(q) \in Rows(Known)
    <3>1. Normalized(q.body) \in Known
      <4>1. q.body \in Known /\ Known \subseteq Int /\ -q.body \in Known
        BY <1>1 DEF Handling, Typed, Known
      <4> QED
        BY <4>1, NormalizedOnce
    <3> QED
      BY <1>1, <2>1, <3>1 DEF Written, Typed, Rows, Statuses, Handling
  <2> DEFINE new == [q EXCEPT !.stage = "answer", !.ok = TRUE, !.seen = issue'.content, !.was = issue'.status]
  <2>3. issue' = Written(q) /\ issue'.content \in Known /\ issue'.status \in Statuses
    BY <1>6, <2>2 DEF WriteIssue, Rows
  <2>4. new \in Handling(Known)
    BY <1>1, <2>3 DEF Handling, Stages
  <2>5. new.handler = q.handler /\ new.call = q.call /\ new.stage = "answer" /\ new.shown = q.shown
    BY <1>1 DEF Handling
  <2>6. "answer" \in Steps(q.call)
    BY DEF Steps
  <2>7. Placed(new)
    BY <1>1, <2>1, <2>5, <2>6 DEF Placed
  <2>8. req' = [req EXCEPT ![r] = new]
    BY <1>1, <1>6 DEF WriteIssue, Typed
  <2> QED
    BY <1>6, <2>2, <2>3, <2>4, <2>7, <2>8 DEF WriteIssue, Typed
<1>7. CASE RequestFails(r)
  BY <1>7, RefuseHandling DEF RequestFails, Typed
<1> QED
  BY <1>3, <1>4, <1>5, <1>6, <1>7

(* What a handler does next is a call of its own. *)
LEMMA NextCallOf ==
  ASSUME NEW q \in Handling(Known), Placed(q), q.handler \notin {"none", "gone"}, NEW c \in NextCall(q)
  PROVE  /\ c \in CallsOf(q.handler)
         /\ \/ q.call = "save" /\ q.handler \in Flushing /\ c = q.handler
            \/ q.call \in {"restore", "cancelSend", "cancelGeneration"} /\ c = "get"
<1>1. q.call \in CallsOf(q.handler) /\ q.handler \in Callers
  BY DEF Placed, Handling
<1>2. \/ q.call = "save" /\ q.handler \in Flushing /\ c = q.handler
      \/ q.call \in {"restore", "cancelSend", "cancelGeneration"} /\ c = "get"
  BY DEF NextCall, Flushing
<1> QED
  BY <1>1, <1>2 DEF CallsOf, Flushing, Callers, Buttons

(* A step of the page that begins a request, or ends one.                   *)
LEMMA PageTyped ==
  ASSUME Typed, NEW r \in Requests, User(r) \/ Effects(r) \/ Answer(r)
  PROVE  Typed'
<1> DEFINE q == req[r]
<1>1. q \in Handling(Known) /\ Placed(q) /\ 0 \in Known /\ page \in Pages(Known)
  BY IdleHandling DEF Typed
<1>2. NotServer /\ Known' = Known
  BY DEF User, SaveDraft, Leave, Click, Effects, Open, Autosave, Poll, Answer, NotServer, Known
<1> SUFFICES /\ req' \in [Requests -> Handling(Known)] /\ \A s \in Requests : Placed(req'[s])
             /\ page' \in Pages(Known)
  BY <1>2 DEF Typed, NotServer
<1>3. ASSUME NEW h, NEW call, NEW b \in Known, h \in Callers \ {"none"}, call \in CallsOf(h), Begin(r, h, call, b)
      PROVE  req' \in [Requests -> Handling(Known)] /\ \A s \in Requests : Placed(req'[s])
  BY <1>3, BeginHandling, OneHandling
<1>4. page.content \in Known /\ Away \in Pages(Known)
  BY <1>1, IdleHandling DEF Pages, Away, Statuses
<1>5. ToSet(versions) \subseteq Known
  BY VersionsKnown
<1>6. CASE Open(r)
  <2>1. "get" \in CallsOf("open")
    BY DEF CallsOf
  <2> QED
    BY <1>1, <1>3, <1>6, <2>1 DEF Open, Callers
<1>7. CASE Autosave(r)
  <2>1. "save" \in CallsOf("auto")
    BY DEF CallsOf
  <2>2. page' \in Pages(Known)
    BY <1>1, <1>7 DEF Autosave, Pages
  <2> QED
    BY <1>3, <1>4, <1>7, <2>1, <2>2 DEF Autosave, Callers
<1>8. CASE Poll(r)
  <2>1. "get" \in CallsOf("poll")
    BY DEF CallsOf
  <2> QED
    BY <1>1, <1>3, <1>8, <2>1 DEF Poll, Callers
<1>9. CASE SaveDraft(r)
  <2>1. "save" \in CallsOf("save")
    BY DEF CallsOf
  <2> QED
    BY <1>1, <1>3, <1>4, <1>9, <2>1 DEF SaveDraft, Callers, Buttons
<1>10. CASE Leave(r)
  <2>1. "save" \in CallsOf("leave")
    BY DEF CallsOf
  <2>2. CASE page' = Away /\ req' = Orphans
    BY <1>4, <2>2, OrphansTyped
  <2>3. CASE Begin(r, "leave", "save", page.content) /\ UNCHANGED page
    BY <1>1, <1>3, <1>4, <2>1, <2>3 DEF Callers, Buttons
  <2> QED
    BY <1>10, <2>2, <2>3 DEF Leave
<1>11. ASSUME NEW h \in Handlers, Click(r, h)
       PROVE  /\ req' \in [Requests -> Handling(Known)] /\ \A s \in Requests : Placed(req'[s])
              /\ page' \in Pages(Known)
  <2>1. h \in Callers \ {"none"} /\ h \in Buttons \ {"save", "leave"}
    BY <1>11, IssueEditorAssumption DEF Click, Callers, Buttons, Flushing
  <2>2. h \in CallsOf(h) /\ (h \in Flushing => "save" \in CallsOf(h))
    BY <2>1 DEF CallsOf, Buttons, Flushing
  <2>3. Calling(h) \in Pages(Known)
    BY <1>1 DEF Calling, Pages
  <2>4. \A b \in IF h = "restore" THEN Restorable ELSE {0} : b \in Known
    BY <1>1, <1>5 DEF Restorable
  <2>5. CASE page.dirty /\ h \in Flushing
    BY <1>1, <1>3, <1>4, <1>11, <2>1, <2>2, <2>5 DEF Click
  <2>6. CASE ~(page.dirty /\ h \in Flushing)
    <3>1. PICK b \in IF h = "restore" THEN Restorable ELSE {0} : Begin(r, h, h, b)
      BY <1>11, <2>6 DEF Click
    <3>2. page' = Calling(h)
      BY <1>11, <2>6 DEF Click
    <3> QED
      BY <1>3, <2>1, <2>2, <2>3, <2>4, <3>1, <3>2
  <2> QED
    BY <2>5, <2>6
<1>12. CASE Answer(r)
  <2>1. Told(q) \in Pages(Known)
    BY <1>1, ToldPage
  <2>2. q.stage = "answer" /\ q.handler \in Callers \ {"none"}
    BY <1>1, <1>12 DEF Answer, Placed, Handling
  <2>3. ASSUME NEW c \in NextCall(q), NEW b \in IF c = "restore" THEN ToSet(versions) ELSE {0},
               Begin(r, q.handler, c, b), q.handler # "gone"
        PROVE  req' \in [Requests -> Handling(Known)] /\ \A s \in Requests : Placed(req'[s])
    <3>1. c \in CallsOf(q.handler)
      BY <1>1, <2>2, <2>3, NextCallOf
    <3>2. b \in Known
      BY <1>1, <1>5
    <3> QED
      BY <1>3, <2>2, <2>3, <3>1, <3>2
  <2>4. page' \in {page, Away, Told(q)} \/ \E c \in NextCall(q) : page' = [Told(q) EXCEPT !.generating = @ \/ c = "generate"]
    BY <1>12 DEF Answer
  <2>5. page' \in Pages(Known)
    BY <1>1, <1>4, <2>1, <2>4 DEF Pages
  <2>6. \/ req' \in {[req EXCEPT ![r] = Idle], [Orphans EXCEPT ![r] = Idle]}
        \/ \E c \in NextCall(q) : \E b \in IF c = "restore" THEN ToSet(versions) ELSE {0} :
             Begin(r, q.handler, c, b) /\ q.handler # "gone"
    BY <1>12 DEF Answer
  <2>7. req' \in [Requests -> Handling(Known)] /\ \A s \in Requests : Placed(req'[s])
    BY <2>3, <2>6, IdleHandling, OneHandling, OrphansTyped
  <2> QED
    BY <2>5, <2>7
<1> QED
  BY <1>6, <1>7, <1>8, <1>9, <1>10, <1>11, <1>12 DEF User, Effects

LEMMA LongerInterval ==
  ASSUME NEW m \in Nat, NEW n \in Nat, m <= n PROVE (-(m - 1))..(m - 1) \subseteq (-(n - 1))..(n - 1)
OBVIOUS

(* A larger number of drafts. *)
LEMMA MoreKnown ==
  ASSUME Typed, nextDraft' \in {nextDraft, nextDraft + 1}, req' = req, versions' = versions
  PROVE  /\ Known \subseteq Known' /\ nextDraft' \in Nat \ {0}
         /\ versions' \in Seq(Known') /\ req' \in [Requests -> Handling(Known')]
         /\ \A s \in Requests : Placed(req'[s])
<1>1. Known \subseteq Known' /\ nextDraft' \in Nat \ {0}
  <2>1. nextDraft \in Nat /\ nextDraft' \in Nat /\ nextDraft <= nextDraft' /\ nextDraft' # 0
    BY DEF Typed
  <2> QED
    BY <2>1, LongerInterval DEF Known
<1>2. Handling(Known) \subseteq Handling(Known')
  BY <1>1 DEF Handling
<1>3. versions \in Seq(Known')
  BY <1>1 DEF Typed
<1> QED
  BY <1>1, <1>2, <1>3 DEF Typed

LEMMA OthersTyped ==
  ASSUME Typed, Edit \/ (\E t \in Times : EditTime(t)) \/ Generated \/ Sent \/ TenMinutes
  PROVE  Typed'
<1>1. CASE Edit
  <2>1. nextDraft \in Known'
    BY <1>1 DEF Edit, Known, Typed
  <2>2. page' \in Pages(Known') /\ issue \in Rows(Known')
    BY <1>1, <2>1, MoreKnown DEF Edit, updateContent, Typed, Pages, Rows
  <2> QED
    BY <1>1, <2>2, MoreKnown DEF Edit, Typed
<1>2. CASE Generated
  <2>1. nextDraft' \in {nextDraft, nextDraft + 1}
    BY <1>2 DEF Generated
  <2>2. nextDraft' = nextDraft + 1 => nextDraft \in Known'
    BY DEF Known, Typed
  <2>3. issue' \in Rows(Known') /\ page \in Pages(Known')
    <3>1. issue' \in {issue, [issue EXCEPT !.status = "failed"]}
          \/ (issue' = [issue EXCEPT !.content = nextDraft, !.status = "ready"] /\ nextDraft' = nextDraft + 1)
      BY <1>2 DEF Generated
    <3> QED
      BY <1>2, <2>1, <2>2, <3>1, MoreKnown DEF Generated, Typed, Pages, Rows, Statuses
  <2> QED
    BY <1>2, <2>1, <2>3, MoreKnown DEF Generated, Typed
<1>3. CASE Sent \/ TenMinutes
  <2>1. Known' = Known
    BY <1>3 DEF Sent, TenMinutes, Known
  <2> QED
    BY <1>3, <2>1 DEF Sent, TenMinutes, Typed, Rows, Statuses
<1>4. CASE \E t \in Times : EditTime(t)
  <2>1. Known' = Known
    BY <1>4 DEF EditTime, NotServer, Known
  <2> QED
    BY <1>4, <2>1 DEF EditTime, setScheduledAt, NotServer, Typed, Pages
<1> QED
  BY <1>1, <1>2, <1>3, <1>4

LEMMA TypedNext == Typed /\ [Next]_vars => Typed'
<1>1. Typed /\ UNCHANGED vars => Typed'
  BY DEF vars, Typed, Known
<1>2. ASSUME Typed, Next PROVE Typed'
  <2>1. CASE Edit \/ (\E t \in Times : EditTime(t)) \/ Generated \/ Sent \/ TenMinutes
    BY <1>2, <2>1, OthersTyped
  <2>2. ASSUME NEW r \in Requests, User(r) \/ Effects(r) \/ Serve(r) \/ RequestFails(r) PROVE Typed'
    BY <1>2, <2>2, ServeTyped, PageTyped DEF Serve
  <2> QED
    BY <1>2, <2>1, <2>2 DEF Next
<1> QED
  BY <1>1, <1>2

-----------------------------------------------------------------------------
(* One handler at a time.                                                   *)

Alone(r) == \A s \in Requests \ {r} : req[s].handler = "none"

(* What Attended says when q is the only handler.                           *)
Shows(q) == page.open /\ ~page.dirty /\ page.status # "generating"
              => Same(page.content, issue.content) \/ Restored(q)
Tells(q) == faults = 0 /\ page.open /\ issue.status = "generating" /\ page.status # "generating"
              => Started(q)
Kept(q) == /\ Proper(q) /\ Shows(q) /\ Tells(q)
           /\ issue.status = "generating" => job
           /\ ~page.open => ~page.dirty

LEMMA AttendedAlone == Attended => \E r \in Requests : Alone(r)
BY IssueEditorAssumption DEF Attended, AtMostOne, Active, Alone

LEMMA AloneKept ==
  ASSUME Attended, NEW r \in Requests, Alone(r)
  PROVE  Kept(req[r])
<1>1. \A s \in Requests \ {r} : ~Restored(req[s]) /\ ~Started(req[s])
  BY DEF Alone, Restored, Started, Live
<1> QED
  BY <1>1 DEF Attended, Kept, Shows, Tells

LEMMA KeptAttended ==
  ASSUME Typed', NEW r \in Requests, Alone(r)', Kept(req[r])'
  PROVE  Attended'
<1>1. AtMostOne'
  BY DEF AtMostOne, Active, Alone
<1>2. ASSUME NEW s \in Requests \ {r} PROVE Proper(req[s])'
  <2>1. req'[s].handler = "none" /\ req'[s].stage = "none"
    BY DEF Alone, Typed, Placed
  <2> QED
    BY <2>1 DEF Proper, Live
<1>3. \A s \in Requests : Proper(req[s])'
  BY <1>2 DEF Kept
<1> QED
  BY <1>1, <1>3 DEF Attended, Kept, Shows, Tells

(* Where the handlers do not overlap, a handler that begins is the only one. *)
LEMMA StaysAlone ==
  ASSUME Attended, ~Contending, NEW r \in Requests,
         \A s \in Requests \ {r} : req'[s].handler # "none" <=> req[s].handler # "none",
         req[r].handler # "none" \/ req'[r].handler # "none"
  PROVE  Alone(r) /\ Alone(r)'
<1>1. ASSUME NEW s \in Requests \ {r}, req[s].handler # "none"
      PROVE  FALSE
  <2>1. s \in Active /\ r \notin Active /\ Active \subseteq {s}
    BY <1>1 DEF Attended, AtMostOne, Active
  <2>2. Active' = {r, s}
    BY <1>1, <2>1 DEF Active
  <2>3. Cardinality({r, s}) = 2
    <3>1. Cardinality({s}) = 1 /\ IsFiniteSet({s})
      BY FS_Singleton
    <3>2. Cardinality({s} \union {r}) = IF r \in {s} THEN Cardinality({s}) ELSE Cardinality({s}) + 1
      BY <3>1, FS_AddElement, Zenon
    <3>4. Cardinality({s} \union {r}) = 2
      <4>1. r \notin {s}
        BY <1>1
      <4>2. Cardinality({s} \union {r}) = 1 + 1
        BY <3>1, <3>2, <4>1, Zenon
      <4> QED
        BY <4>2
    <3>3. {s} \union {r} = {r, s}
      OBVIOUS
    <3> QED
      BY <3>3, <3>4
  <2> QED
    BY <2>2, <2>3 DEF Contending
<1> QED
  BY <1>1 DEF Alone

-----------------------------------------------------------------------------
(* The handlers of the api.                                                 *)

(* Whose calls they are. *)
LEMMA CallHandlers ==
  ASSUME NEW q \in Handling(Known), Placed(q), Live(q)
  PROVE  /\ q.call = "save" => q.handler \in {"auto", "save", "leave"} \union Flushing
         /\ q.call = "get" => q.handler \in {"poll", "open", "restore", "cancelSend", "cancelGeneration"}
         /\ q.call \notin {"save", "get"} => q.handler = q.call
         /\ q.stage \in Steps(q.call) /\ q.handler \in Callers \ {"none", "gone"}
BY DEF Handling, Placed, Live, CallsOf, Calls, Callers, Buttons, Flushing

LEMMA ReadKept ==
  ASSUME Typed, NEW r \in Requests, Kept(req[r]), ReadIssue(r)
  PROVE  Kept(req[r])'
<1> DEFINE q == req[r]
<1>1. q \in Handling(Known) /\ Placed(q) /\ q.stage = "read" /\ ~q.ok /\ q.handler # "none"
  BY DEF Typed, ReadIssue, Placed
<1>2. UNCHANGED <<issue, versions, job, page, faults>>
  BY DEF ReadIssue
<1>3. CASE Refused(q.call)
  <2>1. /\ req'[r].handler = q.handler /\ req'[r].call = q.call /\ req'[r].stage = "answer" /\ ~req'[r].ok
        /\ req'[r].shown = q.shown /\ q.call \notin {"save", "get", "generate"}
    <3>1. q.call \notin {"save", "get", "generate"}
      BY <1>3 DEF Refused
    <3> QED
      BY <1>1, <1>3, <3>1, RefuseHandling DEF ReadIssue, Typed
  <2> QED
    BY <1>1, <1>2, <2>1 DEF Kept, Shows, Tells, Proper, Saving, Getting, Using, Replacing, Restored, Started, Live
<1>4. CASE ~Refused(q.call)
  <2>1. /\ req'[r].handler = q.handler /\ req'[r].call = q.call /\ req'[r].shown = q.shown /\ req'[r].body = q.body
        /\ req'[r].seen = issue.content /\ req'[r].was = issue.status
        /\ IF AnswersAtOnce(q.call) THEN req'[r].stage = "answer" /\ req'[r].ok
           ELSE req'[r].stage \in {"number", "write"} /\ ~req'[r].ok
                /\ (req'[r].stage = "write" => q.call \notin {"save", "restore", "generate"})
    <3>1. req'[r] = IF AnswersAtOnce(q.call) THEN [Go(r, "answer") EXCEPT !.ok = TRUE]
                    ELSE Go(r, IF q.call \in {"save", "restore", "generate"} THEN "number" ELSE "write")
      BY <1>4 DEF ReadIssue, Typed
    <3> QED
      BY <1>1, <3>1 DEF Go, Handling
  <2>2. CASE AnswersAtOnce(q.call)
    <3>1. q.call = "generate" /\ Live(q) => faults # 0
      BY <1>1, <2>2, CallHandlers DEF AnswersAtOnce, Kept, Tells, Proper, Started, Replacing
    <3>2. q.call \notin {"save", "restore", "approve"}
      BY <2>2 DEF AnswersAtOnce
    <3> QED
      BY <1>1, <1>2, <2>1, <2>2, <3>1, <3>2
      DEF Kept, Shows, Tells, Proper, Getting, Using, Replacing, Restored, Started, Live
  <2>3. CASE ~AnswersAtOnce(q.call)
    <3>1. q.call # "get"
      BY <2>3 DEF AnswersAtOnce
    <3> QED
      BY <1>1, <1>2, <2>1, <2>3, <3>1
      DEF Kept, Shows, Tells, Proper, Saving, Getting, Using, Replacing, Restored, Started, Live
  <2> QED
    BY <2>2, <2>3
<1> QED
  BY <1>3, <1>4

LEMMA NumberKept ==
  ASSUME Typed, NEW r \in Requests, Kept(req[r]), SnapshotNumber(r)
  PROVE  Kept(req[r])'
<1> DEFINE q == req[r]
           kept == ShouldSnapshot(q.seen, IsAutosave(q))
<1>1. q \in Handling(Known) /\ Placed(q) /\ q.stage = "number" /\ q.ok = FALSE
  BY DEF Typed, SnapshotNumber, Placed, Handling
<1>2. UNCHANGED <<issue, versions, job, page, faults>>
  BY DEF SnapshotNumber
<1>3. /\ req'[r].handler = q.handler /\ req'[r].call = q.call /\ req'[r].shown = q.shown /\ req'[r].body = q.body
      /\ ~req'[r].ok /\ req'[r].stage = (IF kept THEN "insert" ELSE "write")
      /\ kept => req'[r].number = Len(versions) + 1 /\ req'[r].seen = q.seen
  BY <1>1 DEF SnapshotNumber, Typed, Handling
<1>4. q.call \in {"save", "restore", "generate"}
  BY <1>1 DEF Placed, Steps
<1>5. ~kept /\ q.call \in {"restore", "generate"} => q.seen = 0 \/ q.seen \in ToSet(versions)
  <2>1. q.call \in {"restore", "generate"} => ~IsAutosave(q)
    BY DEF IsAutosave
  <2>2. versions # <<>> => Last(versions) \in ToSet(versions)
    BY DEF Last, ToSet, Typed
  <2> QED
    BY <2>1, <2>2 DEF ShouldSnapshot
<1>6. q.shown \in Int /\ (Same(q.shown, 0) => q.shown = 0)
  <2>1. q.shown \in Int
    BY <1>1 DEF Handling, Typed, Known
  <2> QED
    BY <2>1, SameAsSaved
<1>7. Same(q.shown, q.seen) => Same(q.seen, q.shown)
  BY DEF Same
<1> QED
  BY <1>1, <1>2, <1>3, <1>4, <1>5, <1>6, <1>7
  DEF Kept, Shows, Tells, Proper, Saving, Replacing, Restored, Started, Live

LEMMA InsertKept ==
  ASSUME Typed, NEW r \in Requests, Kept(req[r]), SnapshotInsert(r)
  PROVE  Kept(req[r])'
<1> DEFINE q == req[r]
<1>1. q \in Handling(Known) /\ Placed(q) /\ q.stage = "insert" /\ q.ok = FALSE /\ q.number = Len(versions) + 1
  BY DEF Typed, SnapshotInsert, Placed, Handling, Kept, Proper
<1>2. UNCHANGED <<issue, job, page, faults>> /\ versions' = Append(versions, q.seen)
  BY <1>1 DEF SnapshotInsert
<1>3. /\ req'[r].handler = q.handler /\ req'[r].call = q.call /\ req'[r].shown = q.shown /\ req'[r].body = q.body
      /\ ~req'[r].ok /\ req'[r].stage = "write"
  BY <1>1 DEF SnapshotInsert, Typed, Handling
<1>4. q.call \in {"save", "restore", "generate"}
  BY <1>1 DEF Placed, Steps
<1>5. q.seen \in ToSet(versions')
  <2>1. versions \in Seq(Known) /\ q.seen \in Known
    BY <1>1 DEF Typed, Handling
  <2>2. Len(versions) + 1 \in DOMAIN versions' /\ versions'[Len(versions) + 1] = q.seen
    BY <1>2, <2>1
  <2> QED
    BY <2>2 DEF ToSet
<1>6. Same(q.shown, q.seen) => Same(q.seen, q.shown)
  BY DEF Same
<1> QED
  BY <1>1, <1>2, <1>3, <1>4, <1>5, <1>6
  DEF Kept, Shows, Tells, Proper, Saving, Replacing, Restored, Started, Live

LEMMA WriteKept ==
  ASSUME Typed, NEW r \in Requests, Kept(req[r]), WriteIssue(r)
  PROVE  Kept(req[r])'
<1> DEFINE q == req[r]
<1>1. q \in Handling(Known) /\ Placed(q) /\ q.stage = "write" /\ q.handler # "none"
  BY DEF Typed, WriteIssue, Placed
<1>2. UNCHANGED <<versions, page, faults>> /\ issue' = Written(q) /\ job' = (job \/ q.call = "generate")
  BY DEF WriteIssue
<1>3. /\ req'[r].handler = q.handler /\ req'[r].call = q.call /\ req'[r].shown = q.shown /\ req'[r].body = q.body
      /\ req'[r].ok /\ req'[r].stage = "answer" /\ req'[r].seen = issue'.content /\ req'[r].was = issue'.status
  BY <1>1 DEF WriteIssue, Typed, Handling
<1>4. q.call \in {"save", "restore", "generate", "approve", "reschedule", "cancelSend", "cancelGeneration"}
  BY <1>1 DEF Placed, Steps, Handling, Calls
<1>5. issue \in Rows(Known)
  BY DEF Typed
<1>6. CASE q.call = "save"
  <2>1. issue'.content = Normalized(q.body) /\ issue'.status = issue.status
    BY <1>2, <1>5, <1>6 DEF Written, Rows
  <2>2. Same(q.body, Normalized(q.body))
    BY <1>1, SameAsSaved DEF Handling, Typed, Known
  <2> QED
    BY <1>1, <1>2, <1>3, <1>6, <2>1, <2>2 DEF Kept, Shows, Tells, Proper, Saving, Restored, Started, Live
<1>7. CASE q.call = "restore"
  <2>1. issue'.content = q.body /\ issue'.status = issue.status
    BY <1>2, <1>5, <1>7 DEF Written, Rows
  <2> QED
    BY <1>1, <1>2, <1>3, <1>7, <2>1, CallHandlers DEF Kept, Shows, Tells, Proper, Replacing, Restored, Started, Live
<1>8. CASE q.call = "generate"
  <2>1. issue'.content = issue.content /\ issue'.status = "generating"
    BY <1>2, <1>5, <1>8 DEF Written, Rows
  <2> QED
    BY <1>1, <1>2, <1>3, <1>8, <2>1, CallHandlers DEF Kept, Shows, Tells, Proper, Replacing, Restored, Started, Live
<1>9. CASE q.call \in {"approve", "cancelSend", "cancelGeneration"}
  <2>1. issue'.content = issue.content /\ issue'.status # "generating"
    BY <1>2, <1>5, <1>9 DEF Written, Rows
  <2> QED
    BY <1>1, <1>2, <1>3, <1>9, <2>1, CallHandlers DEF Kept, Shows, Tells, Proper, Using, Restored, Started, Live
<1>10. CASE q.call = "reschedule"
  <2>1. issue'.content = issue.content /\ issue'.status = issue.status
    BY <1>2, <1>5, <1>10 DEF Written, Rows
  <2> QED
    BY <1>1, <1>2, <1>3, <1>10, <2>1, CallHandlers DEF Kept, Shows, Tells, Proper, Restored, Started, Live
<1> QED
  BY <1>4, <1>6, <1>7, <1>8, <1>9, <1>10

(* A failure is noticed by the properties, not by the page: of a read or a  *)
(* restore the page would not hear.                                         *)
LEMMA FailsKept ==
  ASSUME Typed, NEW r \in Requests, Kept(req[r]), RequestFails(r), ~Contending
  PROVE  Kept(req[r])'
<1> DEFINE q == req[r]
<1>1. q \in Handling(Known) /\ Placed(q) /\ q.handler # "none" /\ q.stage # "none"
  BY DEF Typed, RequestFails, Placed
<1>2. UNCHANGED <<issue, versions, job, page>> /\ faults' = faults + 1 /\ faults \in Nat
  BY DEF RequestFails, Typed
<1>3. /\ req'[r].handler = q.handler /\ req'[r].call = q.call /\ req'[r].shown = q.shown /\ req'[r].body = q.body
      /\ req'[r].ok = FALSE /\ req'[r].stage = "answer"
  BY <1>1, RefuseHandling DEF RequestFails, Typed
<1>4. req'[r] # q
  BY <1>1, <1>3 DEF RequestFails, Placed
<1>5. q.call \notin {"restore", "get"}
  BY <1>1, <1>2, <1>4 DEF Contending, Active
<1> QED
  BY <1>1, <1>2, <1>3, <1>5
  DEF Kept, Shows, Tells, Proper, Saving, Using, Replacing, Restored, Started, Live

-----------------------------------------------------------------------------
(* The user, the effects and the worker.                                    *)

(* What ~Contending leaves of a step.                                       *)
LEMMA Uncontended ==
  ASSUME ~Contending
  PROVE  /\ Edited => \A r \in Active : req[r].handler \in {"auto", "save"}
         /\ job /\ ~job' => page.status = "generating"
         /\ job' \/ page'.status = "generating" =>
              /\ ~page'.dirty
              /\ \A r \in Requests : req'[r].handler \notin {"auto", "save", "approve", "restore", "cancelSend"}
BY DEF Contending

(* A request that begins, by whatever way.                                  *)
LEMMA BeginStep ==
  ASSUME Typed, Attended, ~Contending, NEW r \in Requests,
         NEW h \in Callers \ {"none"}, NEW call \in CallsOf(h), NEW b \in Known, Begin(r, h, call, b)
  PROVE  /\ Alone(r) /\ Alone(r)' /\ Kept(req[r])
         /\ req'[r].handler = h /\ req'[r].call = call /\ req'[r].stage = "read" /\ req'[r].body = b /\ ~req'[r].ok
         /\ req'[r].shown = IF req[r].handler = h THEN req[r].shown
                            ELSE IF h \in Flushing THEN page.content ELSE 0
<1>1. PICK q \in Handling(Known) :
        /\ req' = [req EXCEPT ![r] = q]
        /\ q.handler = h /\ q.call = call /\ q.stage = "read" /\ q.body = b /\ ~q.ok
        /\ q.shown = IF req[r].handler = h THEN req[r].shown
                     ELSE IF h \in Flushing THEN page.content ELSE 0
  BY BeginHandling
<1>2. req'[r] = q /\ \A s \in Requests \ {r} : req'[s] = req[s]
  BY <1>1 DEF Typed
<1>3. Alone(r) /\ Alone(r)'
  BY <1>1, <1>2, StaysAlone
<1> QED
  BY <1>1, <1>2, <1>3, AloneKept

LEMMA EffectsKept ==
  ASSUME Typed, Attended, ~Contending, NEW r \in Requests, Effects(r)
  PROVE  Alone(r)' /\ Kept(req[r])'
<1> DEFINE q == req[r]
<1>1. page.content \in Known /\ 0 \in Known /\ page \in Pages(Known)
  BY IdleHandling DEF Typed, Pages
<1>2. q.handler = "none" /\ UNCHANGED <<issue, versions, job, faults>>
  BY DEF Effects, Open, Autosave, Poll, NotServer
<1>3. CASE Open(r) \/ Poll(r)
  <2>1. PICK h \in {"open", "poll"} :
          Begin(r, h, "get", 0) /\ page' = page /\ (h = "open" => ~page.open) /\ (h = "poll" => page.open)
    BY <1>3 DEF Open, Poll
  <2>2. h \in Callers \ {"none"} /\ "get" \in CallsOf(h)
    BY DEF Callers, CallsOf
  <2>3. /\ Alone(r)' /\ Kept(req[r])
        /\ req'[r].handler = h /\ req'[r].call = "get" /\ req'[r].stage = "read"
    BY <1>1, <2>1, <2>2, BeginStep
  <2> QED
    BY <1>2, <2>1, <2>3 DEF Kept, Shows, Tells, Proper, Getting, Restored, Started, Live
<1>4. CASE Autosave(r)
  <2>1. "auto" \in Callers \ {"none"} /\ "save" \in CallsOf("auto")
    BY DEF Callers, CallsOf
  <2>2. Begin(r, "auto", "save", page.content) /\ page.dirty
        /\ page'.open = page.open /\ page'.content = page.content /\ page'.status = page.status /\ page'.dirty
    BY <1>1, <1>4 DEF Autosave, Pages
  <2>3. /\ Alone(r)' /\ Kept(req[r])
        /\ req'[r].handler = "auto" /\ req'[r].call = "save" /\ req'[r].stage = "read" /\ req'[r].body = page.content
    BY <1>1, <2>1, <2>2, BeginStep
  <2>4. ~job'
    BY <2>2, Uncontended
  <2> QED
    BY <1>2, <2>2, <2>3, <2>4 DEF Kept, Shows, Tells, Proper, Saving, Restored, Started, Live, Flushing
<1> QED
  BY <1>3, <1>4 DEF Effects

(* What runs for a page that is left goes on without it. *)
LEMMA Orphaned ==
  ASSUME Typed, Typed', Attended, NEW r \in Requests, page' = Away,
         req' \in {Orphans, [Orphans EXCEPT ![r] = Idle]}, UNCHANGED <<issue, versions, job, faults>>
  PROVE  Attended'
<1>1. PICK s \in Requests : Alone(s)
  BY AttendedAlone
<1>2. Kept(req[s])
  BY <1>1, AloneKept
<1>3. \A t \in Requests : \/ req'[t] = Idle
                          \/ req[t].handler # "none" /\ req'[t] = [req[t] EXCEPT !.handler = "gone", !.shown = 0]
  BY DEF Orphans
<1> Idle.handler = "none" /\ Idle.stage = "none"
  BY DEF Idle
<1>4. Alone(s)'
  BY <1>1, <1>3 DEF Alone
<1>5. /\ req'[s].handler \in {"none", "gone"}
      /\ req'[s].stage = "insert" => req[s].stage = "insert" /\ req'[s].number = req[s].number
  <2>1. req[s] \in Handling(Known)
    BY DEF Typed
  <2> QED
    BY <1>3, <2>1 DEF Handling
<1>6. Kept(req[s])'
  BY <1>2, <1>5 DEF Kept, Proper, Shows, Tells, Live, Away
<1> QED
  BY <1>4, <1>6, KeptAttended

LEMMA UserKept ==
  ASSUME Typed, Typed', Attended, ~Contending, NEW r \in Requests, User(r)
  PROVE  Attended'
<1> DEFINE q == req[r]
<1>1. page.content \in Known /\ 0 \in Known /\ page \in Pages(Known)
  BY IdleHandling DEF Typed, Pages
<1>2. q.handler = "none" /\ UNCHANGED <<issue, versions, job, faults>> /\ page.open
  BY DEF User, SaveDraft, Leave, Click, NotServer, Clicked, Acts
<1>3. ASSUME NEW h \in {"save", "leave"}, Begin(r, h, "save", page.content), page' = page, h = "leave" => page.dirty
      PROVE  Alone(r)' /\ Kept(req[r])'
  <2>1. h \in Callers \ {"none"} /\ "save" \in CallsOf(h)
    BY DEF Callers, Buttons, CallsOf
  <2>2. /\ Alone(r)' /\ Kept(req[r])
        /\ req'[r].handler = h /\ req'[r].call = "save" /\ req'[r].stage = "read" /\ req'[r].body = page.content
    BY <1>1, <1>3, <2>1, BeginStep
  <2>3. ~job'
    BY <1>3, <2>2, Uncontended
  <2> QED
    BY <1>2, <1>3, <2>2, <2>3 DEF Kept, Shows, Tells, Proper, Saving, Restored, Started, Live, Flushing
<1>4. CASE page' = Away /\ req' = Orphans
  BY <1>2, <1>4, Orphaned
<1>5. ASSUME NEW h \in Handlers, Click(r, h)
      PROVE  Alone(r)' /\ Kept(req[r])'
  <2>1. h \in Callers \ {"none"} /\ h \in Flushing \union {"reschedule", "cancelSend", "cancelGeneration"}
    BY <1>5, IssueEditorAssumption DEF Click, Callers, Buttons, Flushing
  <2>2. h \in CallsOf(h) /\ (h \in Flushing => "save" \in CallsOf(h))
    BY <2>1 DEF CallsOf, Flushing
  <2>3. CASE page.dirty /\ h \in Flushing
    <3>1. Begin(r, h, "save", page.content) /\ page' = page
      BY <1>5, <2>3 DEF Click
    <3>2. /\ Alone(r)' /\ Kept(req[r])
          /\ req'[r].handler = h /\ req'[r].call = "save" /\ req'[r].stage = "read"
          /\ req'[r].body = page.content /\ req'[r].shown = page.content
      <4>1. req[r].handler # h
        BY <1>2, <2>1
      <4> QED
        BY <1>1, <2>1, <2>2, <2>3, <3>1, <4>1, BeginStep
    <3>3. ~job'
      BY <2>3, <3>1, Uncontended
    <3>4. h \notin {"leave", "open", "gone", "none"}
      BY <2>1 DEF Flushing
    <3> QED
      BY <1>2, <2>3, <3>1, <3>2, <3>3, <3>4 DEF Kept, Shows, Tells, Proper, Saving, Restored, Started, Live
  <2>4. CASE ~(page.dirty /\ h \in Flushing)
    <3>1. PICK b \in IF h = "restore" THEN Restorable ELSE {0} : Begin(r, h, h, b)
      BY <1>5, <2>4 DEF Click
    <3>2. b \in Known
      BY <1>1, VersionsKnown DEF Restorable
    <3>3. page'.open = page.open /\ page'.content = page.content /\ page'.status = page.status /\ page'.dirty = page.dirty
      BY <1>1, <1>5, <2>4 DEF Click, Calling, Pages
    <3>4. /\ Alone(r)' /\ Kept(req[r])
          /\ req'[r].handler = h /\ req'[r].call = h /\ req'[r].stage = "read"
          /\ req'[r].shown = IF h \in Flushing THEN page.content ELSE 0
      <4>1. req[r].handler # h
        BY <1>2, <2>1
      <4> QED
        BY <2>1, <2>2, <3>1, <3>2, <4>1, BeginStep
    <3>5. h \in {"generate", "test"} => page.status # "generating"
      BY <1>5 DEF Click, Enabled, Generating
    <3>6. h \in {"approve", "restore"} => page.status # "generating" /\ ~job'
      BY <3>3, <3>4, Uncontended
    <3>7. h \in Flushing => page.status # "generating" /\ Same(page.content, issue.content)
      BY <1>2, <2>4, <3>4, <3>5, <3>6 DEF Flushing, Kept, Shows, Restored, Live
    <3>8. h \notin {"open", "gone", "none", "save", "get"}
      BY <2>1 DEF Flushing
    <3> QED
      BY <1>2, <3>3, <3>4, <3>6, <3>7, <3>8
      DEF Kept, Shows, Tells, Proper, Using, Replacing, Restored, Started, Live, Flushing
  <2> QED
    BY <2>3, <2>4
<1> QED
  BY <1>1, <1>2, <1>3, <1>4, <1>5, KeptAttended DEF User, SaveDraft, Leave

(* Steps in which no handler takes part. *)
LEMMA OthersKept ==
  ASSUME Typed, Typed', Attended, ~Contending,
         Edit \/ (\E t \in Times : EditTime(t)) \/ Generated \/ Sent \/ TenMinutes
  PROVE  Attended'
<1>1. PICK r \in Requests : Alone(r)
  BY AttendedAlone
<1> DEFINE q == req[r]
<1>2. Kept(q) /\ req' = req /\ q \in Handling(Known) /\ Placed(q) /\ UNCHANGED <<versions, faults>>
  BY <1>1, AloneKept DEF Typed, Edit, EditTime, NotServer, Generated, Sent, TenMinutes
<1> SUFFICES Kept(q)'
  BY <1>1, <1>2, KeptAttended DEF Alone
<1>3. CASE Edit
  <2>1. /\ page'.open = page.open /\ page'.content = nextDraft /\ page'.status = page.status /\ page'.dirty
        /\ page.open /\ nextDraft' # nextDraft /\ page.content # nextDraft
        /\ UNCHANGED <<issue, job>>
    <3>1. nextDraft \in Nat /\ page \in Pages(Known) /\ page.content \in (-(nextDraft - 1))..(nextDraft - 1)
      BY DEF Typed, Pages, Known
    <3>2. nextDraft # nextDraft + 1 /\ page.content # nextDraft
      BY <3>1
    <3> QED
      BY <1>3, <3>1, <3>2 DEF Edit, EditorTabs, Acts, updateContent, Pages
  <2>2. ~job /\ page.status # "generating"
    BY <2>1, Uncontended
  <2>3. q.handler # "none" => q.handler \in {"auto", "save"}
    BY <1>2, <2>1, Uncontended DEF Active, Edited
  <2>4. Live(q) => q.call = "save" /\ q.handler \notin Flushing
    BY <1>2, <2>3 DEF Live, Placed, CallsOf, Flushing
  <2> QED
    BY <1>2, <2>1, <2>2, <2>3, <2>4 DEF Kept, Shows, Tells, Proper, Saving, Restored, Started, Live
<1>4. CASE Generated
  <2>1. job /\ ~job' /\ page' = page /\ page.status = "generating"
    BY <1>4, Uncontended DEF Generated
  <2>2. issue.status # "generating" => issue' = issue
    BY <1>4 DEF Generated
  <2>3. issue'.status # "generating"
    BY <1>4 DEF Generated, Typed, Rows
  <2>4. Live(q) => q.call \notin {"save", "approve", "test", "restore", "generate"}
    BY <1>2, <2>1 DEF Kept, Proper, Saving, Using, Replacing
  <2> QED
    BY <1>2, <2>1, <2>2, <2>3, <2>4 DEF Kept, Shows, Tells, Proper, Getting
<1>5. CASE Sent \/ TenMinutes
  <2>1. /\ page' = page /\ job' = job /\ issue'.content = issue.content
        /\ issue'.status = "generating" <=> issue.status = "generating"
    BY <1>5 DEF Sent, TenMinutes, Typed, Rows
  <2> QED
    BY <1>2, <2>1
    DEF Kept, Shows, Tells, Proper, Saving, Getting, Using, Replacing, Restored, Started, Live
<1>6. CASE \E t \in Times : EditTime(t)
  <2>1. /\ page'.open = page.open /\ page'.content = page.content /\ page'.status = page.status /\ page'.dirty
        /\ page.open /\ page'.at # page.at /\ UNCHANGED <<issue, job>>
    BY <1>6 DEF EditTime, EditorTabs, Acts, setScheduledAt, NotServer, Typed, Pages
  <2>2. ~job /\ page.status # "generating"
    BY <2>1, Uncontended
  <2>3. q.handler # "none" => q.handler \in {"auto", "save"}
    BY <1>2, <2>1, Uncontended DEF Active, Edited
  <2>4. Live(q) => q.call = "save" /\ q.handler \notin Flushing
    BY <1>2, <2>3 DEF Live, Placed, CallsOf, Flushing
  <2> QED
    BY <1>2, <2>1, <2>2, <2>3, <2>4 DEF Kept, Shows, Tells, Proper, Saving, Restored, Started, Live
<1> QED
  BY <1>3, <1>4, <1>5, <1>6

(* What the page makes of an answer, or does after it. *)
LEMMA AnswerKept ==
  ASSUME Typed, Typed', Attended, ~Contending, NEW r \in Requests, Answer(r)
  PROVE  Attended'
<1> DEFINE q == req[r]
<1>1. q \in Handling(Known) /\ Placed(q) /\ q.stage = "answer" /\ q.handler # "none"
  BY DEF Typed, Answer, Placed
<1>2. UNCHANGED <<issue, versions, job, faults>> /\ page \in Pages(Known)
  BY DEF Answer, NotServer, Typed
<1>3. CASE q.handler # "gone" /\ Leaves(q)
  BY <1>2, <1>3, Orphaned DEF Answer
<1>4. ~(q.handler # "gone" /\ Leaves(q)) => \A s \in Requests \ {r} : req'[s] = req[s]
  BY DEF Answer, Begin, Typed
<1>5. CASE ~(q.handler # "gone" /\ Leaves(q))
  <2>1. Alone(r) /\ Alone(r)'
    BY <1>1, <1>4, <1>5, StaysAlone
  <2>2. Kept(q)
    BY <2>1, AloneKept
  <2> SUFFICES Kept(req[r])'
    BY <2>1, KeptAttended
  <2>3. CASE q.handler = "gone"
    <3>1. page' = page /\ req'[r].handler = "none" /\ req'[r].stage = "none"
      BY <2>3 DEF Answer, Idle, Typed
    <3> QED
      BY <1>2, <2>2, <2>3, <3>1 DEF Kept, Shows, Tells, Proper, Restored, Started, Live
  <2>4. CASE q.handler # "gone" /\ NextCall(q) = {}
    <3>1. page' = Told(q) /\ req'[r].handler = "none" /\ req'[r].stage = "none"
      BY <1>5, <2>4 DEF Answer, Idle, Typed
    <3>2. Live(q) /\ Proper(req[r])' /\ (issue.status = "generating" => job)
      BY <1>1, <1>2, <2>2, <2>4, <3>1 DEF Proper, Live, Kept
    <3>3. SUFFICES (Shows(req[r]) /\ Tells(req[r]))' /\ (~page'.open => ~page'.dirty)
      BY <1>2, <3>2 DEF Kept
    <3>4. CASE q.call = "get"
      <4>1. q.ok /\ (q.was # "generating" => issue.status # "generating" /\ q.seen = issue.content)
        BY <1>1, <2>2, <3>2, <3>4 DEF Kept, Proper, Getting
      <4>2. page' = IF q.handler = "poll" THEN Polled(q) ELSE Loaded(q)
        BY <3>1, <3>4, <4>1 DEF Told
      <4>3. q.was = "generating" => page'.status = "generating" /\ (page'.dirty => page'.open)
        BY <1>2, <2>2, <4>2 DEF Polled, Loaded, Away, Pages, Kept
      <4>4. q.was # "generating" => page'.open /\ page'.content = q.seen /\ ~page'.dirty
        BY <4>2 DEF Polled, Loaded, Away
      <4> QED
        BY <1>2, <4>1, <4>3, <4>4 DEF Shows, Tells, Same
    <3>5. CASE q.call = "save" /\ q.ok
      <4>1. q.handler \in {"auto", "save"}
        BY <1>1, <1>5, <2>4, <3>2, <3>5, CallHandlers DEF NextCall, Leaves, Flushing
      <4>2. /\ ~job /\ issue.content = Normalized(q.body) /\ Same(q.body, Normalized(q.body))
            /\ page.open /\ (page.dirty \/ page.content = q.body)
        <5>1. /\ ~job /\ issue.content = Normalized(q.body)
              /\ page.open /\ (page.dirty \/ page.content = q.body)
          BY <1>1, <2>2, <3>2, <3>5, <4>1 DEF Kept, Proper, Saving
        <5>2. q.body \in Int
          BY <1>1 DEF Handling, Typed, Known
        <5> QED
          BY <5>1, <5>2, SameAsSaved
      <4>3. page' = Saved(q)
        BY <3>1, <3>5 DEF Told
      <4> QED
        BY <1>2, <3>2, <4>2, <4>3 DEF Shows, Tells, Saved, Pages
    <3>6. CASE q.call = "save" /\ ~q.ok
      <4>1. page' = page /\ faults # 0
        BY <1>1, <2>2, <3>1, <3>2, <3>6 DEF Told, Kept, Proper, Saving, Typed
      <4> QED
        BY <1>2, <2>2, <3>6, <4>1 DEF Kept, Shows, Tells, Restored
    <3>7. CASE q.call = "generate"
      <4>1. CASE q.ok
        <5>1. page' = [page EXCEPT !.status = "generating"]
          BY <3>1, <3>7, <4>1 DEF Told
        <5> QED
          BY <1>2, <2>2, <5>1 DEF Kept, Shows, Tells, Pages
      <4>2. CASE ~q.ok
        <5>1. page' = [page EXCEPT !.generating = FALSE] /\ faults # 0
          BY <1>1, <2>2, <3>1, <3>2, <3>7, <4>2 DEF Told, Kept, Proper, Replacing, Typed
        <5> QED
          BY <1>2, <2>2, <3>7, <5>1 DEF Kept, Shows, Tells, Restored, Pages
      <4> QED
        BY <4>1, <4>2
    <3>8. CASE q.call \notin {"get", "save", "generate"}
      <4>1. page' = page
        BY <3>1, <3>8 DEF Told
      <4>2. ~Restored(q) /\ ~Started(q)
        BY <2>4, <3>8 DEF NextCall, Restored, Started
      <4> QED
        BY <1>2, <2>2, <4>1, <4>2 DEF Kept, Shows, Tells
    <3> QED
      BY <3>4, <3>5, <3>6, <3>7, <3>8
  <2>5. ASSUME NEW c \in NextCall(q), page' = [Told(q) EXCEPT !.generating = @ \/ c = "generate"],
               NEW b \in IF c = "restore" THEN ToSet(versions) ELSE {0}, Begin(r, q.handler, c, b),
               q.handler # "gone"
        PROVE  Kept(req[r])'
    <3>1. /\ c \in CallsOf(q.handler) /\ q.handler \in Callers \ {"none"} /\ Live(q)
          /\ \/ q.call = "save" /\ q.handler \in Flushing /\ c = q.handler
             \/ q.call \in {"restore", "cancelSend", "cancelGeneration"} /\ c = "get"
      BY <1>1, <2>5, NextCallOf DEF Handling, Live
    <3>2. b \in Known
      BY <2>5, VersionsKnown, IdleHandling
    <3>3. /\ req'[r].handler = q.handler /\ req'[r].call = c /\ req'[r].stage = "read" /\ req'[r].body = b
          /\ ~req'[r].ok /\ req'[r].shown = q.shown
      BY <2>5, <3>1, <3>2, BeginHandling DEF Typed
    <3>4. /\ page'.open = Told(q).open /\ page'.content = Told(q).content
          /\ page'.status = Told(q).status /\ page'.dirty = Told(q).dirty
      BY <1>1, <2>5, ToldPage DEF Pages
    <3>5. CASE q.call = "save" /\ q.handler \in Flushing /\ c = q.handler
      <4>1. /\ ~job /\ q.shown = q.body /\ page.dirty /\ page.content = q.body /\ page.open
            /\ q.ok => issue.content = Normalized(q.body) /\ q.was # "generating"
            /\ Same(q.body, Normalized(q.body))
            /\ ~q.ok => faults # 0
        <5>1. q.body \in Int /\ faults \in Nat
          BY <1>1 DEF Handling, Typed, Known
        <5>2. Same(q.body, Normalized(q.body))
          BY <5>1, SameAsSaved
        <5> QED
          BY <1>1, <2>2, <3>1, <3>5, <5>1, <5>2 DEF Kept, Proper, Saving, Flushing
      <4>2. CASE q.ok
        <5>1. /\ page'.open = page.open /\ page'.content = page.content /\ page'.status = q.was /\ ~page'.dirty
          BY <1>2, <3>4, <3>5, <4>1, <4>2 DEF Told, Saved, Pages
        <5>2. Same(page'.content, issue'.content) /\ Same(req'[r].shown, issue'.content) /\ q.was # "generating"
          BY <1>2, <3>3, <4>1, <4>2, <5>1
        <5>3. /\ (Shows(req[r]) /\ Tells(req[r]))'
              /\ issue'.status = "generating" => job'
              /\ ~page'.open => ~page'.dirty
          BY <1>2, <2>2, <4>1, <5>1, <5>2 DEF Kept, Shows, Tells
        <5>4. (Live(req[r]) => Using(req[r]) /\ Replacing(req[r]))'
          BY <1>2, <3>1, <3>3, <3>5, <4>1, <5>1, <5>2 DEF Using, Replacing, Flushing
        <5>5. Proper(req[r])'
          BY <3>1, <3>3, <3>5, <4>1, <5>1, <5>4 DEF Proper, Live, Flushing
        <5> QED
          BY <5>3, <5>5 DEF Kept
      <4>3. CASE ~q.ok
        <5>1. /\ page'.open = page.open /\ page'.content = page.content /\ page'.status = page.status /\ page'.dirty
          BY <1>2, <3>4, <3>5, <4>1, <4>3 DEF Told
        <5>2. page'.status # "generating" /\ c \in {"generate", "restore"}
          BY <1>1, <2>5, <3>5, <4>3, <5>1, Uncontended DEF NextCall, Flushing
        <5> QED
          BY <1>2, <2>2, <3>1, <3>3, <3>5, <4>1, <4>3, <5>1, <5>2
          DEF Kept, Shows, Tells, Proper, Using, Replacing, Restored, Started, Live, Flushing
      <4> QED
        BY <4>2, <4>3
    <3>6. CASE q.call \in {"restore", "cancelSend", "cancelGeneration"} /\ c = "get"
      <4>1. Told(q) = page /\ (q.call = "restore" => q.ok)
        BY <2>5, <3>6 DEF Told, NextCall
      <4>2. q.handler = q.call
        BY <1>1, <3>1, <3>6, CallHandlers
      <4> QED
        BY <1>1, <1>2, <2>2, <3>1, <3>3, <3>4, <3>6, <4>1, <4>2
        DEF Kept, Shows, Tells, Proper, Getting, Restored, Started, Live
    <3> QED
      BY <3>1, <3>5, <3>6
  <2> QED
    BY <1>5, <2>3, <2>4, <2>5 DEF Answer
<1> QED
  BY <1>3, <1>5

-----------------------------------------------------------------------------
(* The theorems.                                                            *)

LEMMA AttendedInit == Init => Attended
<1> SUFFICES ASSUME Init PROVE Attended
  OBVIOUS
<1>1. \A r \in Requests : req[r] = Idle
  BY DEF Init
<1>2. Idle.handler = "none" /\ Idle.stage = "none"
  BY DEF Idle
<1>3. ~page.open /\ ~page.dirty /\ issue.status # "generating"
  BY DEF Init, Away
<1> QED
  BY <1>1, <1>2, <1>3 DEF Attended, AtMostOne, Active, Proper, Live

LEMMA AttendedNext == Typed /\ Typed' /\ Attended /\ Next /\ ~Contending => Attended'
<1> SUFFICES ASSUME Typed, Typed', Attended, Next, ~Contending PROVE Attended'
  OBVIOUS
<1>1. CASE Edit \/ (\E t \in Times : EditTime(t)) \/ Generated \/ Sent \/ TenMinutes
  BY <1>1, OthersKept
<1>2. ASSUME NEW r \in Requests, User(r) PROVE Attended'
  BY <1>2, UserKept
<1>3. ASSUME NEW r \in Requests, Effects(r) PROVE Attended'
  BY <1>3, EffectsKept, KeptAttended
<1>4. ASSUME NEW r \in Requests, Answer(r) PROVE Attended'
  BY <1>4, AnswerKept
<1>5. ASSUME NEW r \in Requests,
             ReadIssue(r) \/ SnapshotNumber(r) \/ SnapshotInsert(r) \/ WriteIssue(r) \/ RequestFails(r)
      PROVE  Attended'
  <2>1. req[r].handler # "none" /\ \A s \in Requests \ {r} : req'[s] = req[s]
    BY <1>5 DEF ReadIssue, SnapshotNumber, SnapshotInsert, WriteIssue, RequestFails, Refuse, Typed, Placed
  <2>2. Alone(r) /\ Alone(r)'
    BY <2>1, StaysAlone
  <2>3. Kept(req[r])
    BY <2>2, AloneKept
  <2> QED
    BY <1>5, <2>2, <2>3, ReadKept, NumberKept, InsertKept, WriteKept, FailsKept, KeptAttended
<1> QED
  BY <1>1, <1>2, <1>3, <1>4, <1>5 DEF Next, Serve

-----------------------------------------------------------------------------
(* The send time.                                                           *)

LEMMA DatedInit == Init => Dated
<1> SUFFICES ASSUME Init PROVE Dated
  OBVIOUS
<1>1. \A r \in Requests : req[r].handler = "none"
  BY DEF Init, Idle
<1>2. ~page.open
  BY DEF Init, Away
<1> QED
  BY <1>1, <1>2 DEF Dated, TimeShown, Timed, Live

LEMMA AloneDated ==
  ASSUME NEW r \in Requests, Alone(r)', TimeShown', Timed(req[r])'
  PROVE  Dated'
BY DEF Alone, Dated, Timed, Live

(* A request that begins has the time that is shown, or that of the save     *)
(* before it.                                                               *)
LEMMA BeginDated ==
  ASSUME Typed, NEW r \in Requests, NEW h \in Callers \ {"none"}, NEW call \in CallsOf(h), NEW b \in Known,
         Begin(r, h, call, b), page'.at = page.at, retimed => retimed',
         req[r].handler = h /\ call # "get" => req[r].at = page.at \/ retimed,
         h = "poll" => ~page'.dirty
  PROVE  Timed(req[r])'
<1>1. PICK q \in Handling(Known) :
        /\ req' = [req EXCEPT ![r] = q] /\ q.handler = h /\ q.call = call /\ q.stage = "read"
        /\ q.at = IF call = "get" THEN 0 ELSE IF req[r].handler = h THEN req[r].at ELSE page.at
  BY BeginHandling
<1>2. req'[r] = q
  BY <1>1 DEF Typed
<1> QED
  BY <1>1, <1>2 DEF Timed

(* Steps in which no handler takes part. *)
LEMMA OthersDated ==
  ASSUME Typed, Attended, Dated, ~Contending, Note,
         Edit \/ (\E t \in Times : EditTime(t)) \/ Generated \/ Sent \/ TenMinutes
  PROVE  Dated'
<1>1. PICK r \in Requests : Alone(r)
  BY AttendedAlone
<1> DEFINE q == req[r]
<1>2. TimeShown /\ Timed(q) /\ req' = req /\ (retimed => retimed')
  BY DEF Dated, Note, Edit, EditTime, Generated, Sent, TenMinutes
<1>3. Alone(r)'
  BY <1>1, <1>2 DEF Alone
<1> SUFFICES TimeShown' /\ Timed(q)'
  BY <1>3, AloneDated
<1>4. CASE Edit \/ (\E t \in Times : EditTime(t))
  <2>1. page'.dirty /\ UNCHANGED issue /\ page' # page /\ (Edit => page'.at = page.at)
    <3>1. CASE Edit
      <4>1. nextDraft \in Nat /\ page.content \in (-(nextDraft - 1))..(nextDraft - 1) /\ page \in Pages(Known)
        BY DEF Typed, Pages, Known
      <4>2. page'.dirty /\ page'.content = nextDraft /\ page'.at = page.at /\ issue' = issue
        BY <3>1, <4>1 DEF Edit, updateContent, Pages
      <4>3. page.content # nextDraft
        BY <4>1
      <4> QED
        BY <4>2, <4>3
    <3>2. CASE \E t \in Times : EditTime(t)
      <4> PICK t \in Times : EditTime(t)
        BY <3>2
      <4> page \in Pages(Known)
        BY DEF Typed
      <4>1. page'.dirty /\ page'.at # page.at /\ issue' = issue
        BY DEF EditTime, setScheduledAt, NotServer, Pages
      <4>2. ~Edit
        <5>1. Edit => page'.at = page.at
          BY DEF Edit, updateContent, Typed, Pages
        <5> QED
          BY <4>1, <5>1
      <4> QED
        BY <4>1, <4>2
    <3> QED
      BY <1>4, <3>1, <3>2
  <2>2. q.handler # "none" => q.handler \in {"auto", "save"} /\ r \in Active
    BY <1>2, <2>1, Uncontended DEF Active, Edited
  <2>3. page'.at = page.at \/ q.handler = "none" \/ retimed'
    BY <1>2, <2>1, <2>2 DEF Note, Retiming, Edited
  <2> QED
    BY <1>2, <2>1, <2>2, <2>3 DEF TimeShown, Timed, Live
<1>5. CASE Generated \/ Sent \/ TenMinutes
  <2>1. page' = page /\ issue'.at = issue.at
    BY <1>5 DEF Generated, Sent, TenMinutes, Typed, Rows
  <2> QED
    BY <1>2, <2>1 DEF TimeShown, Timed
<1> QED
  BY <1>4, <1>5

(* A step of a handler of the api. *)
LEMMA ServeDated ==
  ASSUME Typed, Attended, Dated, NEW r \in Requests, Alone(r)', retimed => retimed',
         ReadIssue(r) \/ SnapshotNumber(r) \/ SnapshotInsert(r) \/ WriteIssue(r) \/ RequestFails(r)
  PROVE  Dated'
<1> DEFINE q == req[r]
<1>1. /\ q \in Handling(Known) /\ Placed(q) /\ Timed(q) /\ TimeShown /\ page' = page /\ Proper(q)
      /\ q.stage # "none" /\ q.handler # "none"
  BY DEF Typed, Dated, Attended, ReadIssue, SnapshotNumber, SnapshotInsert, WriteIssue, RequestFails, Placed
<1> SUFFICES TimeShown' /\ Timed(q)'
  BY AloneDated
<1>2. CASE Refuse(r) /\ issue' = issue
  <2>1. /\ req'[r].handler = q.handler /\ req'[r].call = q.call /\ req'[r].at = q.at /\ ~req'[r].ok
    BY <1>1, <1>2, RefuseHandling DEF Typed
  <2> QED
    BY <1>1, <1>2, <2>1 DEF TimeShown, Timed, Live
<1>3. CASE ReadIssue(r) /\ ~Refused(q.call)
  <2>1. req'[r] = IF AnswersAtOnce(q.call) THEN [Go(r, "answer") EXCEPT !.ok = TRUE]
                  ELSE Go(r, IF q.call \in {"save", "restore", "generate"} THEN "number" ELSE "write")
    BY <1>3 DEF ReadIssue, Typed
  <2>2. /\ req'[r].handler = q.handler /\ req'[r].call = q.call
        /\ req'[r].at = (IF q.call = "get" THEN issue.at ELSE q.at)
        /\ q.call = "save" => req'[r].stage = "number"
    BY <1>1, <2>1 DEF Go, Handling, AnswersAtOnce
  <2> QED
    BY <1>1, <1>3, <2>2 DEF ReadIssue, TimeShown, Timed, Live
<1>4. CASE SnapshotNumber(r) \/ (SnapshotInsert(r) /\ ~Refuse(r))
  <2>1. req'[r].handler = q.handler /\ req'[r].call = q.call /\ req'[r].at = q.at /\ req'[r].stage # "answer"
    BY <1>1, <1>4 DEF SnapshotNumber, SnapshotInsert, Typed, Handling
  <2> QED
    BY <1>1, <1>4, <2>1 DEF SnapshotNumber, SnapshotInsert, TimeShown, Timed, Live
<1>5. CASE WriteIssue(r)
  <2>1. req'[r].handler = q.handler /\ req'[r].call = q.call /\ req'[r].at = q.at
    BY <1>1, <1>5 DEF WriteIssue, Typed, Handling
  <2>2. q.call \in {"save", "restore", "generate", "approve", "reschedule", "cancelSend", "cancelGeneration"}
    BY <1>1, <1>5 DEF WriteIssue, Placed, Steps, Handling, Calls
  <2>3. issue'.at = IF q.call \in {"save", "approve", "reschedule"} THEN q.at ELSE issue.at
    BY <1>1, <1>5, <2>2 DEF WriteIssue, Written, Typed, Rows
  <2>4. page.open => Live(q)
    BY <1>1 DEF Proper, Live
  <2> QED
    BY <1>1, <2>1, <2>2, <2>3, <2>4 DEF TimeShown, Timed, Live
<1> QED
  BY <1>2, <1>3, <1>4, <1>5 DEF ReadIssue, SnapshotInsert, RequestFails

(* What the page makes of an answer shows the time of the row.              *)
LEMMA ToldDated ==
  ASSUME Typed, Attended, Dated, NEW r \in Requests, Live(req[r]), req[r].stage = "answer"
  PROVE  /\ Told(req[r]).open /\ ~Told(req[r]).dirty => Told(req[r]).at = issue.at \/ retimed
         /\ req[r].call # "get" => Told(req[r]).at = page.at
<1> DEFINE q == req[r]
<1>1. q \in Handling(Known) /\ Placed(q) /\ Timed(q) /\ TimeShown /\ Proper(q) /\ page \in Pages(Known)
  BY DEF Typed, Dated, Attended
<1>2. CASE q.call = "get" /\ q.ok
  <2>1. issue.at = q.at
    BY <1>1, <1>2 DEF Timed
  <2>2. CASE q.handler = "poll"
    <3>1. page.open /\ ~page.dirty
      BY <1>1, <2>2 DEF Timed, Proper
    <3>2. Told(q) = Polled(q)
      BY <1>2, <2>2 DEF Told
    <3>3. Polled(q).at = page.at
      BY <1>1 DEF Polled, Loaded, Away, Pages
    <3> QED
      BY <1>1, <1>2, <3>1, <3>2, <3>3 DEF TimeShown
  <2>3. CASE q.handler # "poll"
    <3>1. Told(q) = Loaded(q)
      BY <1>2, <2>3 DEF Told
    <3> QED
      BY <1>2, <2>1, <3>1 DEF Loaded, Away
  <2> QED
    BY <2>2, <2>3
<1>3. CASE q.call = "save" /\ q.ok
  <2>1. Told(q) = Saved(q)
    BY <1>3 DEF Told
  <2>2. Saved(q).at = page.at
    BY <1>1 DEF Saved, Pages
  <2>3. page.at = issue.at \/ retimed
    BY <1>1, <1>3 DEF Timed
  <2> QED
    BY <1>3, <2>1, <2>2, <2>3
<1>4. CASE ~(q.call \in {"get", "save"} /\ q.ok)
  <2>1. Told(q) \in {page, [page EXCEPT !.status = "generating"], [page EXCEPT !.generating = FALSE]}
    BY <1>4 DEF Told
  <2>2. Told(q).open = page.open /\ Told(q).dirty = page.dirty /\ Told(q).at = page.at
    BY <1>1, <2>1 DEF Pages
  <2> QED
    BY <1>1, <2>2 DEF TimeShown
<1> QED
  BY <1>2, <1>3, <1>4

(* A page that is left has no handlers. *)
LEMMA LeftDated ==
  ASSUME Typed, page' = Away, NEW r \in Requests, req' \in {Orphans, [Orphans EXCEPT ![r] = Idle]}
  PROVE  Dated'
<1>1. Idle.handler = "none" /\ ~page'.open
  BY DEF Idle, Away
<1>2. \A s \in Requests : req'[s] = Idle \/ req'[s] = [req[s] EXCEPT !.handler = "gone", !.shown = 0]
  BY DEF Orphans
<1>3. ASSUME NEW s \in Requests PROVE req'[s].handler \in {"none", "gone"}
  <2>1. req[s] \in Handling(Known)
    BY DEF Typed
  <2> QED
    BY <1>1, <1>2, <2>1 DEF Handling
<1> QED
  BY <1>1, <1>3 DEF Dated, TimeShown, Timed, Live

(* An answer. *)
LEMMA AnswerDated ==
  ASSUME Typed, Attended, Dated, NEW r \in Requests, Alone(r)', retimed => retimed', Answer(r),
         ~(req[r].handler # "gone" /\ Leaves(req[r]))
  PROVE  Dated'
<1> DEFINE q == req[r]
<1>1. /\ q \in Handling(Known) /\ Placed(q) /\ q.stage = "answer" /\ q.handler # "none" /\ TimeShown
      /\ Timed(q) /\ issue' = issue
  BY DEF Typed, Answer, Placed, NotServer, Dated
<1> SUFFICES TimeShown' /\ Timed(q)'
  BY AloneDated
<1>2. CASE q.handler = "gone"
  <2>1. page' = page /\ req'[r].handler = "none"
    BY <1>2 DEF Answer, Idle, Typed
  <2> QED
    BY <1>1, <2>1 DEF TimeShown, Timed, Live
<1>3. CASE q.handler # "gone" /\ NextCall(q) = {}
  <2>1. page' = Told(q) /\ req'[r].handler = "none"
    BY <1>3 DEF Answer, Idle, Typed
  <2> QED
    BY <1>1, <1>3, <2>1, ToldDated DEF TimeShown, Timed, Live
<1>4. ASSUME NEW c \in NextCall(q), page' = [Told(q) EXCEPT !.generating = @ \/ c = "generate"],
             NEW b \in IF c = "restore" THEN ToSet(versions) ELSE {0}, Begin(r, q.handler, c, b),
             q.handler # "gone"
      PROVE  TimeShown' /\ Timed(q)'
  <2>1. /\ c \in CallsOf(q.handler) /\ q.handler \in Callers \ {"none"} /\ Live(q)
        /\ \/ q.call = "save" /\ q.handler \in Flushing /\ c = q.handler
           \/ q.call \in {"restore", "cancelSend", "cancelGeneration"} /\ c = "get"
    BY <1>1, <1>4, NextCallOf DEF Handling, Live
  <2>2. b \in Known
    BY <1>4, VersionsKnown, IdleHandling
  <2>3. Told(q) \in Pages(Known)
    BY <1>1, ToldPage
  <2>4. page'.open = Told(q).open /\ page'.at = Told(q).at /\ page'.dirty = Told(q).dirty
    BY <1>4, <2>3 DEF Pages
  <2>5. page'.at = page.at /\ (c # "get" => q.at = page.at \/ retimed)
    BY <1>1, <2>1, <2>4, ToldDated DEF Timed
  <2>6. q.handler # "poll"
    <3>1. q.handler = "poll" => q.call = "get"
      BY <1>1 DEF Placed, CallsOf
    <3> QED
      BY <2>1, <3>1
  <2>7. Timed(q)'
    BY <1>4, <2>1, <2>2, <2>5, <2>6, BeginDated
  <2> QED
    BY <1>1, <2>1, <2>4, <2>7, ToldDated DEF TimeShown
<1> QED
  BY <1>2, <1>3, <1>4 DEF Answer

(* A request that begins by a click or of itself. *)
LEMMA BegunDated ==
  ASSUME Typed, Attended, Dated, ~Contending, NEW r \in Requests, req[r].handler = "none",
         NEW h \in Callers \ {"none"}, NEW call \in CallsOf(h), NEW b \in Known, Begin(r, h, call, b),
         page'.open = page.open, page'.at = page.at, page'.dirty = page.dirty, issue' = issue,
         retimed => retimed', h = "poll" => ~page'.dirty
  PROVE  Dated'
<1>1. Alone(r)'
  BY BeginStep
<1>2. Timed(req[r])'
  BY BeginDated
<1> QED
  BY <1>1, <1>2, AloneDated DEF Dated, TimeShown

LEMMA EffectsDated ==
  ASSUME Typed, Attended, Dated, ~Contending, NEW r \in Requests, retimed => retimed', Effects(r)
  PROVE  Dated'
<1>1. page.content \in Known /\ 0 \in Known /\ page \in Pages(Known)
  BY IdleHandling DEF Typed, Pages
<1>2. req[r].handler = "none" /\ issue' = issue
  BY DEF Effects, Open, Autosave, Poll, NotServer
<1>3. CASE Open(r)
  <2>1. "open" \in Callers \ {"none"} /\ "get" \in CallsOf("open")
    BY DEF Callers, CallsOf
  <2> QED
    BY <1>1, <1>2, <1>3, <2>1, BegunDated DEF Open
<1>4. CASE Poll(r)
  <2>1. "poll" \in Callers \ {"none"} /\ "get" \in CallsOf("poll")
    BY DEF Callers, CallsOf
  <2>2. Begin(r, "poll", "get", 0) /\ page' = page /\ ~page'.dirty
    BY <1>4, Uncontended DEF Poll
  <2> QED
    BY <1>1, <1>2, <2>1, <2>2, BegunDated
<1>5. CASE Autosave(r)
  <2>1. "auto" \in Callers \ {"none"} /\ "save" \in CallsOf("auto")
    BY DEF Callers, CallsOf
  <2>2. /\ Begin(r, "auto", "save", page.content)
        /\ page'.open = page.open /\ page'.at = page.at /\ page'.dirty = page.dirty
    BY <1>1, <1>5 DEF Autosave, Pages
  <2> QED
    BY <1>1, <1>2, <2>1, <2>2, BegunDated
<1> QED
  BY <1>3, <1>4, <1>5 DEF Effects

LEMMA UserDated ==
  ASSUME Typed, Attended, Dated, ~Contending, NEW r \in Requests, retimed => retimed', User(r)
  PROVE  Dated'
<1>1. page.content \in Known /\ 0 \in Known /\ page \in Pages(Known)
  BY IdleHandling DEF Typed, Pages
<1>2. req[r].handler = "none" /\ issue' = issue
  BY DEF User, SaveDraft, Leave, Click, NotServer
<1>3. ASSUME NEW h \in {"save", "leave"}, Begin(r, h, "save", page.content), page' = page PROVE Dated'
  <2>1. h \in Callers \ {"none", "poll"} /\ "save" \in CallsOf(h)
    BY DEF Callers, Buttons, CallsOf
  <2> QED
    BY <1>1, <1>2, <1>3, <2>1, BegunDated
<1>4. CASE page' = Away /\ req' = Orphans
  BY <1>4, LeftDated
<1>5. ASSUME NEW h \in Handlers, Click(r, h) PROVE Dated'
  <2>1. h \in Callers \ {"none", "poll"} /\ h \in Flushing \union {"reschedule", "cancelSend", "cancelGeneration"}
    BY <1>5, IssueEditorAssumption DEF Click, Callers, Buttons, Flushing
  <2>2. h \in CallsOf(h) /\ (h \in Flushing => "save" \in CallsOf(h))
    BY <2>1 DEF CallsOf, Flushing
  <2>3. CASE page.dirty /\ h \in Flushing
    <3>1. Begin(r, h, "save", page.content) /\ page' = page
      BY <1>5, <2>3 DEF Click
    <3> QED
      BY <1>1, <1>2, <2>1, <2>2, <2>3, <3>1, BegunDated
  <2>4. CASE ~(page.dirty /\ h \in Flushing)
    <3>1. PICK b \in IF h = "restore" THEN Restorable ELSE {0} : Begin(r, h, h, b)
      BY <1>5, <2>4 DEF Click
    <3>2. b \in Known
      BY <1>1, VersionsKnown DEF Restorable
    <3>3. page'.open = page.open /\ page'.at = page.at /\ page'.dirty = page.dirty
      BY <1>1, <1>5, <2>4 DEF Click, Calling, Pages
    <3> QED
      BY <1>2, <2>1, <2>2, <3>1, <3>2, <3>3, BegunDated
  <2> QED
    BY <2>3, <2>4
<1> QED
  BY <1>3, <1>4, <1>5 DEF User, SaveDraft, Leave

LEMMA DatedNext == Typed /\ Attended /\ Dated /\ Next /\ ~Contending => Dated'
<1> SUFFICES ASSUME Typed, Attended, Dated, Next, ~Contending PROVE Dated'
  OBVIOUS
<1>1. Note /\ (retimed => retimed')
  BY DEF Next, Note
<1>2. CASE Edit \/ (\E t \in Times : EditTime(t)) \/ Generated \/ Sent \/ TenMinutes
  BY <1>1, <1>2, OthersDated
<1>3. ASSUME NEW r \in Requests, User(r) PROVE Dated'
  BY <1>1, <1>3, UserDated
<1>4. ASSUME NEW r \in Requests, Effects(r) PROVE Dated'
  BY <1>1, <1>4, EffectsDated
<1>5. ASSUME NEW r \in Requests, Answer(r) PROVE Dated'
  <2>1. CASE req[r].handler # "gone" /\ Leaves(req[r])
    BY <1>5, <2>1, LeftDated DEF Answer
  <2>2. CASE ~(req[r].handler # "gone" /\ Leaves(req[r]))
    <3>1. req[r].handler # "none" /\ \A s \in Requests \ {r} : req'[s] = req[s]
      BY <1>5, <2>2 DEF Answer, Begin, Typed, Placed
    <3>2. Alone(r)'
      BY <3>1, StaysAlone
    <3> QED
      BY <1>1, <1>5, <2>2, <3>2, AnswerDated
  <2> QED
    BY <2>1, <2>2
<1>6. ASSUME NEW r \in Requests,
             ReadIssue(r) \/ SnapshotNumber(r) \/ SnapshotInsert(r) \/ WriteIssue(r) \/ RequestFails(r)
      PROVE  Dated'
  <2>1. req[r].handler # "none" /\ \A s \in Requests \ {r} : req'[s] = req[s]
    BY <1>6 DEF ReadIssue, SnapshotNumber, SnapshotInsert, WriteIssue, RequestFails, Refuse, Typed, Placed
  <2>2. Alone(r)'
    BY <2>1, StaysAlone
  <2> QED
    BY <1>1, <1>6, <2>2, ServeDated
<1> QED
  BY <1>2, <1>3, <1>4, <1>5, <1>6 DEF Next, Serve

-----------------------------------------------------------------------------
LEMMA WatchedNext == Typed /\ Typed' /\ Watched /\ [Next]_vars => Watched'
<1> SUFFICES ASSUME Typed, Typed', Watched, [Next]_vars PROVE Watched'
  OBVIOUS
<1>1. CASE UNCHANGED vars
  BY <1>1, SMTT(30) DEF vars, Watched, Attended, AtMostOne, Active, Proper, Saving, Getting, Using, Replacing,
     Restored, Started, Live, Dated, TimeShown, Timed
<1>2. CASE Next
  <2>1. contended' \/ (~contended /\ ~Contending)
    BY <1>2 DEF Next, Note
  <2>2. CASE ~contended /\ ~Contending
    BY <1>2, <2>2, AttendedNext, DatedNext DEF Watched
  <2> QED
    BY <2>1, <2>2 DEF Watched
<1> QED
  BY <1>1, <1>2

(* The state of the page, the row and the requests is well typed: contents  *)
(* are those given out so far, and a request is at a step of its call.      *)
THEOREM EditorTyped == Spec => []Typed
<1> QED
  BY TypedInit, TypedNext, PTL DEF Spec

(* Until handlers overlap, the page knows what the row holds.               *)
THEOREM EditorAttended == Spec => []Watched
<1>1. Init => Watched
  BY AttendedInit, DatedInit DEF Watched
<1> QED
  BY <1>1, EditorTyped, WatchedNext, PTL DEF Spec

(* A page that calls its text saved shows the text of the row: no save that *)
(* was overtaken by typing, and no answer that came late, clears the mark.  *)
THEOREM CleanIsSaved == Spec => []SavedWhenClean
<1>1. Typed /\ Watched => SavedWhenClean
  BY DEF Watched, Attended, Dated, TimeShown, SavedWhenClean, Restored, Live, Active
<1> QED
  BY <1>1, EditorTyped, EditorAttended, PTL

(* What is approved, or mailed as a test, is what was shown at the click.   *)
THEOREM ShownIsUsed == Spec => []FlushedBeforeUse
<1>1. Typed /\ Watched => FlushedBeforeUse
  <2> SUFFICES ASSUME Typed, Attended, NEW r \in Requests, req[r].call \in {"approve", "test"}, req[r].ok,
                      req[r].handler # "gone"
               PROVE  Same(req[r].seen, req[r].shown)
    BY DEF Watched, FlushedBeforeUse
  <2>1. Placed(req[r]) /\ Proper(req[r])
    BY DEF Typed, Attended
  <2>2. Live(req[r]) /\ req[r].stage = "answer"
    BY <2>1 DEF Placed, CallsOf, Live
  <2> QED
    BY <2>1, <2>2 DEF Proper, Using, Same
<1> QED
  BY <1>1, EditorTyped, EditorAttended, PTL

(* What a regeneration or a restore replaces can be restored.               *)
THEOREM ReplacedIsKept == Spec => []DraftRestorable
<1>1. Typed /\ Watched => DraftRestorable
  <2> SUFFICES ASSUME Typed, Attended, faults = 0, NEW r \in Requests, req[r].call \in {"generate", "restore"},
                      req[r].ok, req[r].shown # 0
               PROVE  \E v \in ToSet(versions) : Same(v, req[r].shown)
    BY DEF Watched, DraftRestorable
  <2>1. Placed(req[r]) /\ Proper(req[r])
    BY DEF Typed, Attended
  <2>2. Live(req[r]) /\ req[r].stage = "answer"
    BY <2>1 DEF Placed, Live
  <2> QED
    BY <2>1, <2>2 DEF Proper, Replacing
<1> QED
  BY <1>1, EditorTyped, EditorAttended, PTL

=============================================================================
