------------------------------ MODULE Assistant ------------------------------
(***************************************************************************)
(* The assistant chat of one browser tab (useAssistantChat, AssistantChat):  *)
(* a conversation that is shown, streamed into and written to the server by  *)
(* a chain of PUT requests, and cards that ask for an approval or for a form *)
(* before the conversation goes on.                                          *)
(*                                                                         *)
(* A message is abstracted to its place in the protocol: who speaks, whether *)
(* anything was said, whether it is still streamed, the card it carries with *)
(* the card's status, and the card a tool result answers.                    *)
(***************************************************************************)
EXTENDS Naturals, FiniteSets, SequencesExt

CONSTANTS
  Threads,      \* threads the server can create
  Local,        \* a conversation kept in the browser only
  NoThread,
  Faults,       \* the kinds of fault that may happen
  MaxFaults,    \* bound: faults in a behaviour
  MaxMessages,  \* bound: messages in a behaviour
  MaxChanges    \* bound: reloads and changes of the thread

ASSUME AssistantAssumption ==
  /\ Threads # {} /\ Local \notin Threads /\ NoThread \notin Threads \union {Local}
  /\ Local # NoThread
  /\ Faults \subseteq {"stream", "action", "sync", "load"}
  /\ MaxFaults \in Nat /\ MaxMessages \in Nat /\ MaxChanges \in Nat

VARIABLES
  rows,      \* assistant_messages of each thread on the server
  exists,    \* the threads that exist
  saved,     \* LOCAL_MESSAGES_KEY in sessionStorage
  active,    \* THREAD_KEY in localStorage
  tab,       \* the state and the refs of the hook
  streams,   \* calls of streamChat that have not returned
  chain,     \* syncChainRef: the PUT requests that wait for each other
  orphan,    \* a PUT request of the page before the reload
  work,      \* handleApprove and handleFormSubmit, while they run
  changing,  \* initThreads, loadThread or newThread, while it runs
  nextId, faults, changes,
  last,      \* history: the last list queued for each thread
  unsure,    \* history: threads whose last PUT failed, or came from an old page
  crossed    \* history: a change of thread met unfinished work, or work met work

vars == <<rows, exists, saved, active, tab, streams, chain, orphan, work, changing,
          nextId, faults, changes, last, unsure, crossed>>
server == <<rows, exists>>
storage == <<saved, active>>
history == <<last, unsure>>     \* crossed is kept by Next

Cards == {"permission", "form"}
Conversations == Threads \union {Local, NoThread}
Statuses == {"none", "pending", "executing", "done", "error", "denied", "submitted"}
Message == [id: 1..MaxMessages, role: {"user", "assistant", "tool"},
            text: BOOLEAN, live: BOOLEAN,
            card: Cards \union {"none"}, status: Statuses,
            answers: 0..MaxMessages]
Said(id, role, m) == [id |-> id, role |-> role, text |-> role # "assistant",
                      live |-> role = "assistant", card |-> "none", status |-> "none",
                      answers |-> m]

IdleWork == [stage |-> "none", msg |-> 0, thread |-> NoThread, persist |-> FALSE]
NoChange == [kind |-> "none", thread |-> NoThread, got |-> <<>>]

IsLog(l) == Len(l) <= MaxMessages /\ \A i \in DOMAIN l : l[i] \in Message
IsPut(p) == p.thread \in Threads /\ IsLog(p.list) /\ p.for \in 0..MaxMessages
(* What the variables can hold. *)
TypeOK ==
  /\ exists \subseteq Threads /\ DOMAIN rows = Threads /\ \A t \in Threads : IsLog(rows[t])
  /\ IsLog(saved) /\ active \in Conversations
  /\ tab.thread \in Conversations /\ IsLog(tab.msgs)
  /\ {tab.persist, tab.loading, tab.streaming, tab.error} \subseteq BOOLEAN
  /\ tab.ctrl \in 0..MaxMessages
  /\ \A s \in streams : s.copy \in Message /\ s.thread \in Conversations
  /\ \A i \in DOMAIN chain : IsPut(chain[i])
  /\ \A i \in DOMAIN orphan : IsPut(orphan[i])
  /\ DOMAIN work = Cards
  /\ changing.kind \in {"none", "init", "load", "new", "got"} /\ IsLog(changing.got)
  /\ nextId \in 1..(MaxMessages + 1) /\ faults \in 0..MaxFaults /\ changes \in 0..MaxChanges
  /\ unsure \subseteq Threads /\ crossed \in BOOLEAN

-----------------------------------------------------------------------------
(* The list of messages. *)

Fault(f) == f \in Faults /\ faults < MaxFaults /\ faults' = faults + 1

(* Bound: a step of the user leaves room for what runs already.             *)
Room(n) ==
  nextId + n + 2 * Cardinality({k \in Cards : work[k].stage = "acting"})
             + Cardinality({k \in Cards : work[k].stage \in {"saving", "telling"}})
    <= MaxMessages + 1

Replaced(l, m) == [i \in DOMAIN l |-> IF l[i].id = m.id THEN m ELSE l[i]]
Holds(l, id) == {i \in DOMAIN l : l[i].id = id}    \* one place at most
Dropped(l, id) ==
  IF Holds(l, id) = {} THEN l ELSE RemoveAt(l, CHOOSE i \in Holds(l, id) : TRUE)
Marked(l, id, s) == [i \in DOMAIN l |-> IF l[i].id = id /\ l[i].card # "none"
                                        THEN [l[i] EXCEPT !.status = s] ELSE l[i]]

(* What the server keeps of a message, and a page reads back. *)
Stored(l) == [i \in DOMAIN l |-> [l[i] EXCEPT !.live = FALSE]]

(* syncToServer, with the thread and the mode its caller was rendered with: *)
(* a local conversation goes to the browser's storage.                      *)
Synced(th, persist) == th \in Threads /\ persist
Queue(puts) ==
  /\ chain' = chain \o puts
  /\ last' = [last EXCEPT ![Last(puts).thread] = Last(puts).list]

Put(th, l, for) == [thread |-> th, list |-> Stored(l), for |-> for]

(* enableLocalMode. *)
LocalMode == [tab EXCEPT !.persist = FALSE, !.loading = FALSE,
                         !.thread = Local, !.msgs = saved, !.error = FALSE]

-----------------------------------------------------------------------------
(* streamChat. *)

Abort(ss) == {IF s.copy.id = tab.ctrl THEN [s EXCEPT !.aborted = TRUE] ELSE s : s \in ss}

(* Mutant: the stream does not replace the controller of the one before it. *)
StreamChatUnstoppable(l, id, th, persist, owner) ==
  /\ tab' = [tab EXCEPT !.msgs = Append(l, Said(id, "assistant", 0)),
                        !.streaming = TRUE, !.error = FALSE]
  /\ streams' = Abort(streams) \union
       {[copy |-> Said(id, "assistant", 0), thread |-> th, owner |-> owner,
         persist |-> persist, aborted |-> FALSE, stage |-> "open"]}

(* It aborts the stream before it and shows an empty answer. *)
StreamChat(l, id, th, persist, owner) ==
  /\ tab' = [tab EXCEPT !.msgs = Append(l, Said(id, "assistant", 0)),
                        !.ctrl = id, !.streaming = TRUE, !.error = FALSE]
  /\ streams' = Abort(streams) \union
       {[copy |-> Said(id, "assistant", 0), thread |-> th, owner |-> owner,
         persist |-> persist, aborted |-> FALSE, stage |-> "open"]}

(* Mutant: the handler that waited for the stream does not go on. *)
ReturnAlone(s, l, failed) ==
  /\ tab' = [tab EXCEPT !.msgs = l, !.streaming = FALSE, !.ctrl = 0, !.error = @ \/ failed]
  /\ streams' = streams \ {s}
  /\ UNCHANGED work

(* Its finally block; the handler that waits for it goes on to its end. *)
Return(s, l, failed) ==
  /\ tab' = [tab EXCEPT !.msgs = l, !.streaming = FALSE, !.ctrl = 0, !.error = @ \/ failed]
  /\ streams' = streams \ {s}
  /\ work' = [k \in Cards |-> IF k = s.owner THEN IdleWork ELSE work[k]]

(* An event of the stream: something said, or a card. *)
StreamEvent(s, c) ==
  LET copy == IF c = "none" THEN [s.copy EXCEPT !.text = TRUE]
              ELSE [s.copy EXCEPT !.card = c, !.status = "pending", !.text = TRUE] IN
  /\ s.stage = "open" /\ ~s.aborted /\ copy # s.copy
  /\ s.copy.card = "none"
  /\ streams' = (streams \ {s}) \union {[s EXCEPT !.copy = copy]}
  /\ tab' = [tab EXCEPT !.msgs = Replaced(@, copy)]
  /\ UNCHANGED <<server, storage, chain, orphan, work, changing, nextId, faults,
                 changes, history>>

StreamEnds(s) ==
  LET copy == [s.copy EXCEPT !.live = FALSE]
      l == Replaced(tab.msgs, copy) IN
  /\ s.stage = "open" /\ ~s.aborted
  /\ IF Synced(s.thread, s.persist)
     THEN /\ Queue(<<Put(s.thread, l, copy.id)>>)
          /\ tab' = [tab EXCEPT !.msgs = l]
          /\ streams' = (streams \ {s}) \union {[s EXCEPT !.copy = copy, !.stage = "saving"]}
          /\ UNCHANGED <<work, saved>>
     ELSE Return(s, l, FALSE) /\ saved' = l /\ UNCHANGED <<chain, last>>
  /\ UNCHANGED <<server, active, orphan, changing, nextId, faults, changes, unsure>>

StreamAborts(s) ==
  /\ s.stage = "open" /\ s.aborted
  /\ Return(s, IF s.copy.text THEN Replaced(tab.msgs, [s.copy EXCEPT !.live = FALSE])
               ELSE Dropped(tab.msgs, s.copy.id), FALSE)
  /\ UNCHANGED <<server, storage, chain, orphan, changing, nextId, faults, changes, history>>

StreamFails(s) ==
  /\ s.stage = "open" /\ ~s.aborted /\ Fault("stream")
  /\ Return(s, Dropped(tab.msgs, s.copy.id), TRUE)
  /\ UNCHANGED <<server, storage, chain, orphan, changing, nextId, changes, history>>

-----------------------------------------------------------------------------
(* The user. *)

(* The composer is disabled while a thread loads or a stream runs. *)
CanSend == ~tab.streaming /\ ~tab.loading /\ tab.thread # NoThread
SendMessage ==
  LET l == Append(tab.msgs, Said(nextId, "user", 0)) IN
  /\ CanSend /\ Room(2)
  /\ StreamChat(l, nextId + 1, tab.thread, tab.persist, "user")
  /\ saved' = l /\ nextId' = nextId + 2
  /\ UNCHANGED <<server, active, chain, orphan, work, changing, faults, changes, history>>

Stop ==
  /\ tab.streaming
  /\ streams' = Abort(streams) /\ streams' # streams
  /\ UNCHANGED <<server, storage, tab, chain, orphan, work, changing, nextId, faults,
                 changes, history>>

Decide(i, s) ==
  LET l == Marked(tab.msgs, tab.msgs[i].id, s) IN
  /\ tab' = [tab EXCEPT !.msgs = l]
  /\ IF Synced(tab.thread, tab.persist)
     THEN Queue(<<Put(tab.thread, l, 0)>>) /\ UNCHANGED saved
     ELSE saved' = l /\ UNCHANGED <<chain, last>>

(* The buttons of the two kinds of card. *)
CanDecide(i) ==
  /\ tab.msgs[i].card = "permission" /\ tab.msgs[i].status = "pending"
  /\ work.permission.stage = "none"
CanSubmit(i) ==
  /\ tab.msgs[i].card = "form" /\ tab.msgs[i].status = "pending"
  /\ work.form.stage = "none"

(* handleApprove up to the action it awaits. *)
HandleApprove(i) ==
  /\ CanDecide(i) /\ Room(2) /\ Decide(i, "executing")
  /\ work' = [work EXCEPT !.permission =
       [stage |-> "acting", msg |-> tab.msgs[i].id, thread |-> tab.thread,
        persist |-> tab.persist]]
  /\ UNCHANGED <<server, active, streams, orphan, changing, nextId, faults, changes, unsure>>

HandleDeny(i) ==
  /\ CanDecide(i) /\ Decide(i, "denied")
  /\ UNCHANGED <<server, active, streams, orphan, work, changing, nextId, faults,
                 changes, unsure>>

(* Mutant: the result is added to the list of the click. *)
ContinueFrom(k, l) ==
  LET w == work[k] IN
  /\ tab' = [tab EXCEPT !.msgs = l]
  /\ nextId' = nextId + 1
  /\ IF Synced(w.thread, w.persist)
     THEN Queue(<<Put(w.thread, l, nextId)>>) /\ UNCHANGED saved
     ELSE saved' = l /\ UNCHANGED <<chain, last>>
  /\ work' = [work EXCEPT ![k].stage = IF Synced(w.thread, w.persist) THEN "saving" ELSE "telling",
                          ![k].msg = nextId]
ContinueOfClick(k, marked) ==
  ContinueFrom(k, Append(Marked(tab.msgs, work[k].msg, "pending"),
                         Said(nextId, "tool", work[k].msg)))

(* updatePermission and then continueWithToolResult up to its sync, from    *)
(* the latest list but with the thread of the click.                        *)
Continue(k, marked) ==
  LET w == work[k]
      l == Append(marked, Said(nextId, "tool", w.msg)) IN
  /\ tab' = [tab EXCEPT !.msgs = l]
  /\ nextId' = nextId + 1
  /\ IF Synced(w.thread, w.persist)
     THEN Queue(<<Put(w.thread, marked, 0), Put(w.thread, l, nextId)>>) /\ UNCHANGED saved
     ELSE saved' = l /\ UNCHANGED <<chain, last>>
  /\ work' = [work EXCEPT ![k].stage = IF Synced(w.thread, w.persist) THEN "saving" ELSE "telling",
                          ![k].msg = nextId]

ExecuteAction ==
  /\ work.permission.stage = "acting"
  /\ \/ Continue("permission", Marked(tab.msgs, work.permission.msg, "done")) /\ UNCHANGED faults
     \/ /\ Fault("action")
        /\ Continue("permission", Marked(tab.msgs, work.permission.msg, "error"))
  /\ UNCHANGED <<server, active, streams, orphan, changing, changes, unsure>>

HandleFormSubmit(i) ==
  LET m == tab.msgs[i]
      w == [stage |-> "saving", msg |-> nextId, thread |-> tab.thread, persist |-> tab.persist]
      marked == Marked(tab.msgs, m.id, "submitted")
      l == Append(marked, Said(nextId, "tool", m.id)) IN
  /\ CanSubmit(i) /\ Room(2)
  /\ tab' = [tab EXCEPT !.msgs = l]
  /\ nextId' = nextId + 1
  /\ IF Synced(tab.thread, tab.persist)
     THEN /\ Queue(<<Put(tab.thread, marked, 0), Put(tab.thread, l, nextId)>>)
          /\ work' = [work EXCEPT !.form = w] /\ UNCHANGED saved
     ELSE /\ saved' = l /\ UNCHANGED <<chain, last>>
          /\ work' = [work EXCEPT !.form = [w EXCEPT !.stage = "telling"]]
  /\ UNCHANGED <<server, active, streams, orphan, changing, faults, changes, unsure>>

(* continueWithToolResult after its sync: the model is told the result. *)
TellModel(k) ==
  /\ work[k].stage = "telling"
  /\ StreamChat(tab.msgs, nextId, work[k].thread, work[k].persist, k)
  /\ nextId' = nextId + 1
  /\ work' = [work EXCEPT ![k].stage = "streaming"]
  /\ UNCHANGED <<server, storage, chain, orphan, changing, faults, changes, history>>

-----------------------------------------------------------------------------
(* The server, and the end of a sync. *)

(* A message id is unique among all threads: a list that repeats a message  *)
(* of another thread is refused as a whole.                                 *)
Accepted(p) ==
  /\ p.thread \in exists
  /\ \A t \in exists \ {p.thread} :
       \A i \in DOMAIN rows[t], j \in DOMAIN p.list : rows[t][i].id # p.list[j].id

(* syncAssistantMessagesHandler replaces all rows of the thread. *)
Write(p) == IF Accepted(p) THEN [rows EXCEPT ![p.thread] = p.list] ELSE rows

(* What waited for the request goes on, whether it succeeded or not. *)
GoOn(p) ==
  LET waiting == {s \in streams : s.stage = "saving" /\ s.copy.id = p.for} IN
  /\ work' = [k \in Cards |->
       IF work[k].stage = "saving" /\ work[k].msg = p.for
         THEN [work[k] EXCEPT !.stage = "telling"]
       ELSE IF \E s \in waiting : s.owner = k THEN IdleWork ELSE work[k]]
  /\ streams' = streams \ waiting
  /\ tab' = IF waiting = {} THEN tab ELSE [tab EXCEPT !.streaming = FALSE, !.ctrl = 0]

(* Mutant: the newest request does not wait for those before it. *)
PutNewest ==
  LET p == Last(chain) IN
  /\ chain # <<>> /\ chain' = Front(chain) /\ GoOn(p)
  /\ Accepted(p) /\ rows' = Write(p) /\ unsure' = unsure \ {p.thread}
  /\ UNCHANGED <<exists, saved, active, orphan, changing, nextId, faults, changes, last>>

PutNext ==
  LET p == Head(chain) IN
  /\ chain # <<>>
  /\ chain' = Tail(chain)
  /\ GoOn(p)
  /\ \/ /\ Accepted(p) /\ rows' = Write(p) /\ UNCHANGED <<saved, faults>>
        /\ unsure' = unsure \ {p.thread}
     \/ /\ ~Accepted(p) \/ ("sync" \in Faults /\ faults < MaxFaults)
        /\ faults' = IF Accepted(p) THEN faults + 1 ELSE faults
        /\ saved' = p.list /\ UNCHANGED rows
        /\ unsure' = unsure \union {p.thread}
  /\ UNCHANGED <<exists, active, orphan, changing, nextId, changes, last>>

(* A request of the page before a reload still arrives, or does not. *)
OrphanArrives ==
  /\ orphan # <<>>
  /\ orphan' = <<>>
  /\ rows' \in {rows, Write(Head(orphan))}
  /\ unsure' = unsure \union {Head(orphan).thread}
  /\ UNCHANGED <<exists, storage, tab, streams, chain, work, changing, nextId, faults,
                 changes, last>>

-----------------------------------------------------------------------------
(* The thread that is shown. *)

Change == changes < MaxChanges /\ changing.kind = "none" /\ changes' = changes + 1

NewThread ==
  /\ Change
  /\ streams' = Abort(streams)
  /\ IF tab.persist
     THEN /\ changing' = [NoChange EXCEPT !.kind = "new"]
          /\ tab' = [tab EXCEPT !.error = FALSE] /\ UNCHANGED storage
     ELSE /\ tab' = [tab EXCEPT !.thread = Local, !.msgs = <<>>, !.error = FALSE]
          /\ saved' = <<>> /\ active' = Local /\ UNCHANGED changing
  /\ UNCHANGED <<server, chain, orphan, work, nextId, faults, history>>

SwitchThread(t) ==
  /\ Change
  /\ tab.persist /\ t # tab.thread /\ ~tab.streaming
  /\ streams' = Abort(streams)
  /\ tab' = [tab EXCEPT !.loading = TRUE, !.error = FALSE]
  /\ changing' = [NoChange EXCEPT !.kind = "load", !.thread = t]
  /\ UNCHANGED <<server, storage, chain, orphan, work, nextId, faults, history>>

(* The page is opened again: what ran in the old one is gone. *)
Reload ==
  /\ Change
  /\ orphan' = IF chain = <<>> THEN orphan ELSE <<Head(chain)>>
  /\ chain' = <<>> /\ streams' = {}
  /\ work' = [k \in Cards |-> IdleWork]
  /\ tab' = [thread |-> NoThread, msgs |-> <<>>, persist |-> TRUE, loading |-> TRUE,
             streaming |-> FALSE, error |-> FALSE, ctrl |-> 0]
  /\ changing' = [NoChange EXCEPT !.kind = "init"]
  /\ unsure' = unsure \union {chain[i].thread : i \in DOMAIN chain}
  /\ UNCHANGED <<server, storage, nextId, faults, last>>

(* The retry button of an error. *)
RetryInit ==
  /\ Change /\ tab.error
  /\ changing' = [NoChange EXCEPT !.kind = "init"]
  /\ UNCHANGED <<server, storage, tab, streams, chain, orphan, work, nextId, faults, history>>

(* initThreads: the list has come, and decides what to show.  A browser that *)
(* was left in local mode stays there.                                      *)
InitThreads ==
  /\ changing.kind = "init"
  /\ CASE active = Local ->
            /\ tab' = LocalMode
            /\ changing' = NoChange
       [] active # Local /\ exists # {} ->
            /\ changing' \in {[NoChange EXCEPT !.kind = "load", !.thread = t] :
                               t \in IF active \in exists THEN {active} ELSE exists}
            /\ tab' = [tab EXCEPT !.persist = TRUE, !.error = FALSE]
       [] OTHER ->
            /\ changing' = [NoChange EXCEPT !.kind = "new"]
            /\ tab' = [tab EXCEPT !.persist = TRUE, !.error = FALSE]
  /\ UNCHANGED <<server, storage, streams, chain, orphan, work, nextId, faults, changes, history>>

(* getThread reads the rows; the page shows them when the answer arrives.   *)
GetThread ==
  /\ changing.kind = "load"
  /\ changing' = [changing EXCEPT !.kind = "got", !.got = rows[changing.thread]]
  /\ UNCHANGED <<server, storage, tab, streams, chain, orphan, work, nextId, faults,
                 changes, history>>

(* Mutant: the messages of a loaded thread are dropped. *)
ShowEmpty(t, l) ==
  /\ tab' = [tab EXCEPT !.thread = t, !.msgs = <<>>, !.persist = TRUE, !.loading = FALSE]
  /\ active' = t /\ changing' = NoChange
  /\ UNCHANGED <<streams, chain, orphan, work, nextId, faults, changes, unsure>>

Show(t, l) ==
  /\ tab' = [tab EXCEPT !.thread = t, !.msgs = l, !.persist = TRUE, !.loading = FALSE]
  /\ active' = t /\ changing' = NoChange
  /\ UNCHANGED <<streams, chain, orphan, work, nextId, faults, changes, unsure>>

ShowThread ==
  /\ changing.kind = "got"
  /\ Show(changing.thread, changing.got)
  /\ saved' = changing.got /\ UNCHANGED <<server, last>>

CreateThread(t) ==
  /\ changing.kind = "new" /\ t \notin exists
  /\ exists' = exists \union {t}
  /\ Show(t, <<>>)
  /\ UNCHANGED <<rows, saved, last>>

(* A refusal of the backend leaves the thread as it was, with a message;    *)
(* an unreachable one, or a thread that is not created, means local mode.   *)
LoadFails ==
  /\ changing.kind \in {"init", "load", "new"} /\ Fault("load")
  /\ changing' = NoChange
  /\ \/ tab' = LocalMode /\ active' = Local
     \/ tab' = [LocalMode EXCEPT !.error = TRUE] /\ active' = Local
     \/ /\ changing.kind = "load" /\ tab.thread # NoThread
        /\ tab' = [tab EXCEPT !.loading = FALSE, !.error = TRUE] /\ UNCHANGED active
  /\ UNCHANGED <<server, saved, streams, chain, orphan, work, nextId, changes, history>>

-----------------------------------------------------------------------------
(* The page is opened, with or without a conversation from before. *)
Init ==
  /\ exists \in SUBSET Threads
  /\ rows = [t \in Threads |-> <<>>] /\ saved = <<>> /\ active = NoThread
  /\ tab = [thread |-> NoThread, msgs |-> <<>>, persist |-> TRUE, loading |-> TRUE,
            streaming |-> FALSE, error |-> FALSE, ctrl |-> 0]
  /\ streams = {} /\ chain = <<>> /\ orphan = <<>>
  /\ work = [k \in Cards |-> IdleWork]
  /\ changing = [NoChange EXCEPT !.kind = "init"]
  /\ nextId = 1 /\ faults = 0 /\ changes = 0
  /\ last = rows /\ unsure = {} /\ crossed = FALSE

(* Unfinished work meets a change of thread, or other unfinished work.      *)
Undecided(s) == \A i \in DOMAIN tab.msgs :
                  tab.msgs[i].id = s.copy.id => tab.msgs[i].status = s.copy.status
Busy == {k \in Cards : work[k].stage # "none"}
Unfinished == chain # <<>> \/ orphan # <<>> \/ streams # {} \/ Busy # {}
Crossing ==
  LET open == {s \in streams : s.stage = "open"} IN
  \/ changing.kind # "none" /\ Unfinished
  \/ (\E s, r \in open : s # r) \/ (\E j, k \in Busy : j # k)
  \/ \E s \in open : Busy \ {s.owner} # {} \/ ~Undecided(s)
  \/ orphan # <<>>
Cross == crossed' = (crossed \/ Crossing' \/ (changes' # changes /\ Unfinished'))

User ==
  \/ SendMessage \/ Stop
  \/ \E i \in DOMAIN tab.msgs : HandleApprove(i) \/ HandleDeny(i) \/ HandleFormSubmit(i)
  \/ NewThread \/ Reload \/ RetryInit \/ \E t \in exists : SwitchThread(t)

(* What runs by itself. *)
Stream(s) == StreamEnds(s) \/ StreamAborts(s)
Run == ExecuteAction \/ (\E k \in Cards : TellModel(k)) \/ PutNext
       \/ InitThreads \/ GetThread \/ ShowThread \/ \E t \in Threads : CreateThread(t)

Next ==
  /\ \/ User \/ Run \/ OrphanArrives \/ LoadFails
     \/ \E s \in streams : Stream(s) \/ StreamFails(s)
                           \/ \E c \in Cards \union {"none"} : StreamEvent(s, c)
  /\ Cross

Spec == Init /\ [][Next]_vars

(* A request is answered, an action returns, and a stream ends. *)
StreamReturns == \E s \in streams : Stream(s)
Fairness == WF_vars(Run /\ Cross) /\ WF_vars(StreamReturns /\ Cross)
FairSpec == Spec /\ Fairness

-----------------------------------------------------------------------------
(* Properties. *)

(* The chain keeps the order of the writes, whatever the user does          *)
(* meanwhile: when it is empty, the server has the last list queued for     *)
(* each thread, unless that write failed.                                   *)
LastSaveWins ==
  chain = <<>> => \A t \in exists \ unsure : rows[t] = last[t]

(* "mark permission approved" and "append the tool result" do not overwrite *)
(* each other: a step of the page makes a decided card pending again in two *)
(* ways only, and only when a write was lost or work had crossed.  Either   *)
(* the stream that asked is still open and commits its own copy of the     *)
(* message, decided or not, or a list is shown that was read without the    *)
(* decision.  Every other write to the list leaves decisions alone,         *)
(* crossed or not.                                                         *)
Asks(id) == \E s \in streams : s.stage = "open" /\ s.copy.id = id
MayForget(id) == (crossed' \/ tab.thread \in unsure) /\ (Asks(id) \/ changing' # changing)
DecidedStays ==
  [][\A i \in DOMAIN tab.msgs, j \in DOMAIN tab'.msgs :
       (/\ tab.msgs[i].id = tab'.msgs[j].id /\ tab.msgs[i].card # "none"
        /\ tab.msgs[i].status # "pending" /\ tab'.thread = tab.thread)
       => tab'.msgs[j].status # "pending" \/ MayForget(tab.msgs[i].id)]_vars

(* What the server keeps of a conversation: what the user and the tools said *)
(* is not lost by a later write, while no work has crossed other work or a  *)
(* change of thread.                                                        *)
Spoken(l) == {l[i].id : i \in {j \in DOMAIN l : l[j].role # "assistant"}}
NothingLost == [][~crossed' => \A t \in Threads : Spoken(rows[t]) \subseteq Spoken(rows'[t])]_vars

(* The stop button reaches the stream that is shown, and there is one,      *)
(* while no work has crossed: two streams that are open at once are left    *)
(* out, and there the end of the aborted one does take the controller and   *)
(* the mark of the next.                                                   *)
StopReachesStream ==
  ~crossed => \A s \in streams :
    s.stage = "open" => tab.streaming /\ (tab.ctrl = s.copy.id \/ s.aborted)

(* A card that was decided is not busy for ever. *)
DecisionEnds == \A k \in Cards : work[k].stage # "none" ~> work[k].stage = "none"
=============================================================================
