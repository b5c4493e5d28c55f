----------------------------- MODULE Recipients -----------------------------
(***************************************************************************)
(* The audience of a workspace: adding an address, confirming it from an    *)
(* emailed link, suppressing it by hand, from the unsubscribe page or by an *)
(* event of the mail provider, and the sends that read all this.  A send is *)
(* reduced to what it reads and writes here; Delivery has the rest of it.  *)
(*                                                                         *)
(* A link is a signed token for an address of a workspace.  A link in links *)
(* has been mailed and has not expired; no other link passes a check.      *)
(***************************************************************************)
EXTENDS Naturals

CONSTANTS
  Ids,          \* primary keys of the recipients table, in UUID order
  Workspaces,
  Emails,
  Requests,     \* requests the control-api serves at a time
  OwnEventId,   \* whether the provider sends an event_id with each event
  Faults,       \* the kinds of fault that may happen
  MaxFaults,    \* bound: faults in a behaviour
  MaxRequests,  \* bound: requests begun in a behaviour
  MaxMails      \* bound: copies of the issue mailed to one row

ASSUME RecipientsAssumption ==
  /\ Ids \subseteq Nat /\ Ids # {}
  /\ Workspaces # {} /\ Emails # {}
  /\ OwnEventId \in BOOLEAN
  /\ Faults \subseteq {"db", "crash"}
  /\ {MaxFaults, MaxRequests} \subseteq Nat /\ MaxMails \in Nat \ {0}

VARIABLES
  rcpt,        \* the recipients table
  links,       \* links in somebody's mailbox that have not expired
  delivery,    \* the deliveries row of each recipient for the current issue
  sender,      \* the send of each workspace's current issue
  copies,      \* mails the provider accepted for each row
  events,      \* external_event_id of every row of provider_events
  req,         \* the requests in progress
  begun,       \* requests begun so far
  faults,      \* faults so far
  agreed,      \* history: <<workspace, email>> whose owner followed a link
  complained,  \* history: rows whose mail had a final event, not restored since
  misdirected, \* history: rows whose last final event was applied to another row
  applied      \* history: external ids of the events that were applied

tables == <<rcpt, links, delivery, events>>
sends == <<sender, copies>>
histories == <<agreed, complained, misdirected, applied>>
vars == <<tables, sends, req, begun, faults, histories>>

States == {"unused", "live", "removed"}
Recipient == [state: States, workspace: Workspaces, email: Emails,
              verified: BOOLEAN, suppressed: BOOLEAN]
Unused == [state |-> "unused", workspace |-> CHOOSE w \in Workspaces : TRUE,
           email |-> CHOOSE e \in Emails : TRUE,
           verified |-> FALSE, suppressed |-> FALSE]

Purposes == {"verify", "unsubscribe"}
Link == [purpose: Purposes, workspace: Workspaces, email: Emails]
DeliveryStatuses == {"none", "submitted", "delivered", "failed"}

Live(i) == rcpt[i].state = "live"
Row(w, e) == {i \in Ids : Live(i) /\ rcpt[i].workspace = w /\ rcpt[i].email = e}

(* WHERE email = e, First: the live row with the least primary key, of     *)
(* whatever workspace.                                                     *)
WithEmail(e) == {i \in Ids : Live(i) /\ rcpt[i].email = e}
First(e) == CHOOSE i \in WithEmail(e) : \A j \in WithEmail(e) : i <= j

Fault(kind) == kind \in Faults /\ faults < MaxFaults /\ faults' = faults + 1
NoFault == faults' = faults

-----------------------------------------------------------------------------
(* delivered stands for opened and click too, hard_bounce for all events    *)
(* that suppress, soft_bounce for all that change nothing.                 *)
EventTypes == {"delivered", "hard_bounce", "soft_bounce"}
suppressEvents == {"hard_bounce"}

(* Requests.  A message is the n-th copy for a row.  Each statement of a    *)
(* handler is a step of its own.                                           *)

RequestStages == {"idle", "insert", "invite", "confirm", "stop", "refused",
                  "record", "lookup", "status", "suppress"}
Message == [id: Ids, n: 1..MaxMails]
Request == [stage: RequestStages, workspace: Workspaces, email: Emails, found: Ids,
            message: Message, type: EventTypes]
NoRequest == [stage |-> "idle", workspace |-> Unused.workspace,
              email |-> Unused.email, found |-> CHOOSE i \in Ids : TRUE,
              message |-> [id |-> CHOOSE i \in Ids : TRUE, n |-> 1],
              type |-> "soft_bounce"]

At(q, stage) == req[q].stage = stage
Done(q) == req' = [req EXCEPT ![q] = NoRequest]
Stage(q, stage) == req' = [req EXCEPT ![q].stage = stage]
Begin(q, r) == /\ At(q, "idle") /\ begun < MaxRequests
               /\ begun' = begun + 1
               /\ req' = [req EXCEPT ![q] = r]
               /\ NoFault

(* CreateRecipient looks for the address first, then inserts; the unique   *)
(* index on workspace and email refuses a second row.                      *)
create(q, w, e) ==
  /\ Begin(q, IF Row(w, e) # {} THEN NoRequest
              ELSE [NoRequest EXCEPT !.stage = "insert", !.workspace = w, !.email = e])
  /\ UNCHANGED <<tables, sends, histories>>

insertRecipient(q, i) ==
  LET w == req[q].workspace
      e == req[q].email
  IN /\ At(q, "insert") /\ rcpt[i].state = "unused"
     /\ \/ /\ Row(w, e) = {} /\ NoFault
           /\ rcpt' = [rcpt EXCEPT ![i] = [state |-> "live", workspace |-> w, email |-> e,
                                           verified |-> FALSE, suppressed |-> FALSE]]
           /\ Stage(q, "invite")
        \/ Row(w, e) # {} /\ NoFault /\ Done(q) /\ UNCHANGED rcpt
        \/ Fault("db") /\ Done(q) /\ UNCHANGED rcpt
     /\ UNCHANGED <<links, delivery, events, sends, begun, histories>>

(* A mail that cannot be sent only makes a warning.                        *)
sendVerification(q) ==
  /\ At(q, "invite")
  /\ \/ links' = links \union {[purpose |-> "verify", workspace |-> req[q].workspace,
                                email |-> req[q].email]}
     \/ UNCHANGED links
  /\ Done(q) /\ NoFault
  /\ UNCHANGED <<rcpt, delivery, events, sends, begun, histories>>

resendVerification(q, i) ==
  /\ Live(i) /\ ~rcpt[i].verified
  /\ Begin(q, [NoRequest EXCEPT !.stage = "invite", !.workspace = rcpt[i].workspace,
                                !.email = rcpt[i].email])
  /\ UNCHANGED <<tables, sends, histories>>

(* The deliveries of a deleted recipient go with it (ON DELETE CASCADE).   *)
remove(q, i) ==
  /\ Live(i)
  /\ Begin(q, NoRequest)
  /\ rcpt' = [rcpt EXCEPT ![i].state = "removed"]
  /\ delivery' = [delivery EXCEPT ![i] = "none"]
  /\ complained' = complained \ {i}
  /\ UNCHANGED <<links, events, sends, agreed, misdirected, applied>>

setSuppressed(q, i, b) ==
  /\ Live(i)
  /\ Begin(q, NoRequest)
  /\ rcpt' = [rcpt EXCEPT ![i].suppressed = b]
  /\ complained' = IF b THEN complained ELSE complained \ {i}
  /\ UNCHANGED <<links, delivery, events, sends, agreed, misdirected, applied>>

(* Mutant: the signature does not cover the workspace.                     *)
verifyAnyWorkspace(l, purpose, i) ==
  l \in links /\ l.purpose = purpose /\ l.email = rcpt[i].email

(* VerifyRecipientToken and VerifyUnsubscribeToken recompute the signature *)
(* from the row that was found and the purpose of the page.                *)
verifyPurposeToken(l, purpose, i) ==
  l \in links /\ l = [purpose |-> purpose, workspace |-> rcpt[i].workspace,
                      email |-> rcpt[i].email]

(* A public page finds the row by its email alone, then checks the link.    *)
openPage(q, l, next) ==
  LET found == WithEmail(l.email) # {}
      opened == [NoRequest EXCEPT !.workspace = l.workspace, !.email = l.email]
  IN /\ l \in links
     /\ IF found /\ verifyPurposeToken(l, l.purpose, First(l.email))
        THEN Begin(q, [opened EXCEPT !.stage = next, !.found = First(l.email)])
        ELSE Begin(q, [opened EXCEPT !.stage = "refused"])
     /\ UNCHANGED <<tables, sends, complained, misdirected, applied>>

publicVerify(q, l) ==
  /\ l.purpose = "verify"
  /\ openPage(q, l, "confirm")
  /\ agreed' = agreed \union {<<l.workspace, l.email>>}

publicUnsubscribeConfirm(q, l) ==
  /\ l.purpose = "unsubscribe"
  /\ openPage(q, l, "stop")
  /\ UNCHANGED agreed

refuse(q) ==
  /\ At(q, "refused")
  /\ Done(q) /\ NoFault
  /\ UNCHANGED <<tables, sends, begun, histories>>

(* UPDATE ... WHERE id: nothing happens to a row that is gone.  The pages   *)
(* do not look at the error of their update.                               *)
update(i, new) == rcpt' = IF Live(i) THEN [rcpt EXCEPT ![i] = new] ELSE rcpt

confirm(q) ==
  LET i == req[q].found
  IN /\ At(q, "confirm")
     /\ \/ NoFault /\ update(i, [rcpt[i] EXCEPT !.verified = TRUE])
        \/ Fault("db") /\ UNCHANGED rcpt
     /\ Done(q)
     /\ UNCHANGED <<links, delivery, events, sends, begun, histories>>

stop(q) ==
  LET i == req[q].found
  IN /\ At(q, "stop")
     /\ \/ NoFault /\ update(i, [rcpt[i] EXCEPT !.suppressed = TRUE])
        \/ Fault("db") /\ UNCHANGED rcpt
     /\ Done(q)
     /\ UNCHANGED <<links, delivery, events, sends, begun, histories>>

-----------------------------------------------------------------------------
(* The provider's webhook.  The provider reports any event of a message it *)
(* accepted, in any order and more than once.                              *)

emailWebhook(q, m, type) ==
  /\ m.n <= copies[m.id]
  /\ Begin(q, [NoRequest EXCEPT !.stage = "record", !.email = rcpt[m.id].email,
                                !.message = m, !.type = type])
  /\ UNCHANGED <<tables, sends, histories>>

(* event_id, else message-id, which all events of a message have in common. *)
externalId(q) == <<req[q].message, IF OwnEventId THEN req[q].type ELSE "any">>
occurrence(q) == <<req[q].message, req[q].type>>
Final(q) == req[q].type \in suppressEvents
Applying(q) == req[q].stage \in {"lookup", "status", "suppress"}
Replay(q) == \/ occurrence(q) \in applied
             \/ \E p \in Requests : Applying(p) /\ occurrence(p) = occurrence(q)

(* A final event that is no replay is a complaint of the recipient the mail *)
(* was for, whatever becomes of the event.                                 *)
Complaint(q) ==
  complained' = IF Final(q) /\ ~Replay(q) /\ req[q].message.id \in WithEmail(req[q].email)
                THEN complained \union {req[q].message.id} ELSE complained

(* Mutant: the table has no unique index.                                  *)
recordAgain(q) ==
  /\ At(q, "record") /\ NoFault
  /\ events' = events \union {externalId(q)}
  /\ Stage(q, "lookup") /\ Complaint(q)
  /\ UNCHANGED <<rcpt, links, delivery, sends, begun, agreed, misdirected, applied>>

(* The unique index on external_event_id drops a replay, which is answered *)
(* like a processed event.                                                 *)
recordEvent(q) ==
  /\ At(q, "record")
  /\ \/ /\ externalId(q) \notin events /\ NoFault
        /\ events' = events \union {externalId(q)}
        /\ Stage(q, "lookup") /\ Complaint(q)
     \/ /\ externalId(q) \in events /\ NoFault
        /\ Done(q) /\ Complaint(q) /\ UNCHANGED events
     \/ Fault("db") /\ Done(q) /\ UNCHANGED <<events, complained>>
  /\ UNCHANGED <<rcpt, links, delivery, sends, begun, agreed, misdirected, applied>>

(* applyProviderEvent.  An error is answered with 422, after the event has  *)
(* been recorded.  The event is applied to the first row with the address, *)
(* which need not be the one the mail was for.                             *)
lookupRecipient(q) ==
  LET e == req[q].email
      mailed == req[q].message.id
      known == req[q].type \in {"delivered", "hard_bounce"} /\ WithEmail(e) # {}
  IN /\ At(q, "lookup")
     /\ \/ /\ known /\ NoFault
           /\ req' = [req EXCEPT ![q].stage = "status", ![q].found = First(e)]
           /\ misdirected' = IF ~Final(q) THEN misdirected
                             ELSE IF First(e) = mailed THEN misdirected \ {mailed}
                             ELSE misdirected \union {mailed}
           /\ UNCHANGED applied
        \/ /\ ~known /\ NoFault
           /\ Done(q) /\ applied' = applied \union {occurrence(q)}
           /\ UNCHANGED misdirected
        \/ Fault("db") /\ Done(q) /\ UNCHANGED <<misdirected, applied>>
     /\ UNCHANGED <<tables, sends, begun, agreed, complained>>

(* Mutant: an event sets the status whatever it was.                       *)
updateAnyDelivery(q) ==
  LET i == req[q].found
  IN /\ At(q, "status") /\ NoFault
     /\ delivery' = IF delivery[i] = "none" THEN delivery
                    ELSE [delivery EXCEPT ![i] = IF Final(q) THEN "failed" ELSE "delivered"]
     /\ IF Final(q) THEN Stage(q, "suppress") ELSE Done(q)
     /\ applied' = IF Final(q) THEN applied ELSE applied \union {occurrence(q)}
     /\ UNCHANGED <<rcpt, links, events, sends, begun, agreed, complained, misdirected>>

(* Mutant: an event that finds no delivery to update is dropped.           *)
updateOrStop(q) ==
  LET i == req[q].found
  IN /\ At(q, "status") /\ NoFault
     /\ delivery' = IF delivery[i] = "submitted" THEN [delivery EXCEPT ![i] = "failed"] ELSE delivery
     /\ IF delivery[i] = "submitted" THEN Stage(q, "suppress") ELSE Done(q)
     /\ UNCHANGED <<rcpt, links, events, sends, begun, histories>>

(* Without the hint of an issue, every delivery of the recipient that is   *)
(* still submitted is updated.                                             *)
updateDeliveries(q) ==
  LET i == req[q].found
      status == IF Final(q) THEN "failed" ELSE "delivered"
  IN /\ At(q, "status")
     /\ \/ /\ NoFault
           /\ delivery' = IF delivery[i] = "submitted"
                          THEN [delivery EXCEPT ![i] = status] ELSE delivery
           /\ IF Final(q)
              THEN Stage(q, "suppress") /\ UNCHANGED applied
              ELSE Done(q) /\ applied' = applied \union {occurrence(q)}
        \/ Fault("db") /\ Done(q) /\ UNCHANGED <<delivery, applied>>
     /\ UNCHANGED <<rcpt, links, events, sends, begun, agreed, complained, misdirected>>

suppressRecipient(q) ==
  LET i == req[q].found
  IN /\ At(q, "suppress")
     /\ \/ /\ NoFault
           /\ update(i, [rcpt[i] EXCEPT !.suppressed = TRUE])
           /\ applied' = applied \union {occurrence(q)}
        \/ Fault("db") /\ UNCHANGED <<rcpt, applied>>
     /\ Done(q)
     /\ UNCHANGED <<links, delivery, events, sends, begun, agreed, complained, misdirected>>

crashRequest(q) ==
  /\ ~At(q, "idle")
  /\ Fault("crash")
  /\ Done(q)
  /\ UNCHANGED <<tables, sends, begun, histories>>

-----------------------------------------------------------------------------
(* A send of the current issue of a workspace, and its later runs.         *)

Sender == [stage: {"idle", "next", "mail", "record"}, todo: SUBSET Ids,
           current: Ids, accepted: BOOLEAN]
Idle == [stage |-> "idle", todo |-> {}, current |-> CHOOSE i \in Ids : TRUE, accepted |-> FALSE]
Deliverable(w) == {i \in Ids : /\ Live(i) /\ rcpt[i].workspace = w
                               /\ rcpt[i].verified /\ ~rcpt[i].suppressed}

listRecipients(w) ==
  /\ sender[w].stage = "idle" /\ Deliverable(w) # {}
  /\ sender' = [sender EXCEPT ![w].stage = "next", ![w].todo = Deliverable(w)]
  /\ UNCHANGED <<tables, copies, req, begun, faults, histories>>

(* A lookup that fails counts as "no row yet".                             *)
nextRecipient(w, i) ==
  /\ sender[w].stage = "next" /\ i \in sender[w].todo
  /\ \/ /\ delivery[i] \in {"submitted", "delivered"} /\ NoFault
        /\ sender' = [sender EXCEPT ![w].todo = @ \ {i}]
     \/ /\ \/ delivery[i] \notin {"submitted", "delivered"} /\ NoFault
           \/ Fault("db")
        /\ sender' = [sender EXCEPT ![w].stage = "mail", ![w].current = i]
  /\ UNCHANGED <<tables, copies, req, begun, histories>>

(* The mail carries an unsubscribe link.  A refusal may hide an accepted    *)
(* mail.                                                                   *)
mailSend(w) ==
  LET i == sender[w].current
  IN /\ sender[w].stage = "mail" /\ copies[i] < MaxMails
     /\ \E accepted, answer \in BOOLEAN :
          /\ answer => accepted
          /\ copies' = IF accepted THEN [copies EXCEPT ![i] = @ + 1] ELSE copies
          /\ links' = IF accepted
                      THEN links \union {[purpose |-> "unsubscribe", workspace |-> w,
                                          email |-> rcpt[i].email]}
                      ELSE links
          /\ sender' = [sender EXCEPT ![w].stage = "record", ![w].accepted = answer]
     /\ UNCHANGED <<rcpt, delivery, events, req, begun, faults, histories>>

(* The foreign key refuses a delivery of a recipient that is gone.         *)
recordDelivery(w) ==
  LET i == sender[w].current
  IN /\ sender[w].stage = "record"
     /\ \/ /\ NoFault
           /\ delivery' = IF Live(i)
                          THEN [delivery EXCEPT ![i] = IF sender[w].accepted THEN "submitted" ELSE "failed"]
                          ELSE delivery
        \/ Fault("db") /\ UNCHANGED delivery
     /\ sender' = [sender EXCEPT ![w].stage = "next", ![w].todo = @ \ {i}, ![w].accepted = FALSE]
     /\ UNCHANGED <<rcpt, links, events, copies, req, begun, histories>>

endRun(w) ==
  /\ sender[w].stage = "next" /\ sender[w].todo = {}
  /\ sender' = [sender EXCEPT ![w] = Idle]
  /\ UNCHANGED <<tables, copies, req, begun, faults, histories>>

(* 72 hours for a verification, a year for an unsubscribe link.            *)
expire(l) ==
  /\ l \in links
  /\ links' = links \ {l}
  /\ UNCHANGED <<rcpt, delivery, events, sends, req, begun, faults, histories>>

-----------------------------------------------------------------------------
Row0(w, e, v) == [state |-> "live", workspace |-> w, email |-> e,
                  verified |-> v, suppressed |-> FALSE]

(* A recipient may be there already, with the link it was sent.            *)
Init ==
  /\ \/ rcpt = [i \in Ids |-> Unused] /\ links = {} /\ agreed = {}
     \/ \E i \in Ids, w \in Workspaces, e \in Emails, v \in BOOLEAN :
          /\ rcpt = [j \in Ids |-> IF j = i THEN Row0(w, e, v) ELSE Unused]
          /\ links = {[purpose |-> "verify", workspace |-> w, email |-> e]}
          /\ agreed = IF v THEN {<<w, e>>} ELSE {}
  /\ events = {}
  /\ delivery = [i \in Ids |-> "none"]
  /\ sender = [w \in Workspaces |-> Idle]
  /\ copies = [i \in Ids |-> 0]
  /\ req = [q \in Requests |-> NoRequest]
  /\ begun = 0 /\ faults = 0
  /\ complained = {} /\ misdirected = {} /\ applied = {}

arrive(q) ==
  \/ \E w \in Workspaces, e \in Emails : create(q, w, e)
  \/ \E i \in Ids : \/ resendVerification(q, i) \/ remove(q, i)
                    \/ \E b \in BOOLEAN : setSuppressed(q, i, b)
  \/ \E l \in links : publicVerify(q, l) \/ publicUnsubscribeConfirm(q, l)
  \/ \E m \in Message, type \in EventTypes : emailWebhook(q, m, type)

proceed(q) ==
  \/ \E i \in Ids : insertRecipient(q, i)
  \/ sendVerification(q) \/ refuse(q) \/ confirm(q) \/ stop(q)
  \/ recordEvent(q) \/ lookupRecipient(q) \/ updateDeliveries(q) \/ suppressRecipient(q)

send(w) ==
  \/ listRecipients(w) \/ mailSend(w) \/ recordDelivery(w) \/ endRun(w)
  \/ \E i \in Ids : nextRecipient(w, i)

Next ==
  \/ \E q \in Requests : arrive(q) \/ proceed(q) \/ crashRequest(q)
  \/ \E w \in Workspaces : send(w)
  \/ \E l \in links : expire(l)

Spec == Init /\ [][Next]_vars

-----------------------------------------------------------------------------
(* What the variables can hold. *)
TypeOK ==
  /\ rcpt \in [Ids -> Recipient]
  /\ links \subseteq Link
  /\ delivery \in [Ids -> DeliveryStatuses]
  /\ sender \in [Workspaces -> Sender]
  /\ copies \in [Ids -> 0..MaxMails]
  /\ events \subseteq Message \X (EventTypes \union {"any"})
  /\ req \in [Requests -> Request]
  /\ {begun, faults} \subseteq Nat
  /\ agreed \subseteq Workspaces \X Emails
  /\ complained \subseteq Ids /\ misdirected \subseteq Ids
  /\ applied \subseteq Message \X EventTypes

(* Double opt-in: a workspace mails a recipient only after the owner of the *)
(* address followed a link mailed for that workspace, however rows were     *)
(* removed, added again or restored (handlers_recipients.go:154-176,       *)
(* delivery.go:389-419).  The owner of the series, who is mailed when there *)
(* is nobody else, is not a recipient and is not modelled here.            *)
MailedAgreed ==
  \A i \in Ids : copies[i] > 0 => <<rcpt[i].workspace, rcpt[i].email>> \in agreed

(* While nothing fails, what the provider confirmed is not taken back by a  *)
(* send that records its own result late, nor by another event.            *)
DeliveredIsFinal ==
  [][\A i \in Ids : faults' = 0 /\ delivery[i] = "delivered" /\ rcpt'[i].state = "live"
                    => delivery'[i] = "delivered"]_vars

(* A replayed event has no second effect: a recipient the workspace has     *)
(* restored is not suppressed again by an old complaint                    *)
(* (handlers_webhooks.go:80).                                              *)
AppliedOnce ==
  \A q \in Requests : Applying(q) =>
    /\ occurrence(q) \notin applied
    /\ \A p \in Requests \ {q} : Applying(p) => occurrence(p) # occurrence(q)

(* The recipient of a mail is suppressed, or the request that brings the    *)
(* final event of the mail is still at work.                               *)
Remembered(i) ==
  \/ rcpt[i].suppressed
  \/ \E q \in Requests : /\ Final(q)
                        /\ \/ At(q, "lookup") /\ req[q].message.id = i
                           \/ req[q].stage \in {"status", "suppress"} /\ req[q].found = i

(* While nothing fails, the recipient of a mail with a final event is       *)
(* suppressed until the workspace restores or removes it                   *)
(* (handlers_webhooks.go:40), also when the event overtakes the record of  *)
(* the send or meets its own replay.  Excepted is a row that another one   *)
(* with its address, of another workspace, came before when the event was  *)
(* applied (handlers_webhooks.go:148): that other row is suppressed        *)
(* instead.  It needs a provider that names its events (OwnEventId).       *)
FinalEventSuppresses == faults = 0 => \A i \in complained \ misdirected : Remembered(i)

(* What handlers_webhooks.go:40 says without exception: terminal events     *)
(* "must stop future sends" to the recipient the mail was for.  The code   *)
(* fails it without an event_id, when the final event bears the message-id *)
(* of one that came before (handlers_webhooks.go:83) and is dropped as a   *)
(* replay of it; and, with or without, for a misdirected one.              *)
TerminalEventsStopSends == faults = 0 => \A i \in complained : Remembered(i)
=============================================================================
