-------------------------- MODULE RecipientsProofs --------------------------
(***************************************************************************)
(* Theorems about Recipients, for every table, any number of workspaces,   *)
(* addresses and requests, and every bound.                                *)
(***************************************************************************)
EXTENDS Recipients, WellFoundedInduction, TLAPS

-----------------------------------------------------------------------------
(* The first row with an address.                                          *)

LEMMA NotBelow ==
  ASSUME NEW x \in Nat, NEW y \in Nat, <<x, y>> \notin OpToRel(<, Nat)
  PROVE  ~(x < y)
BY Zenon DEF OpToRel

LEMMA LeastNatural ==
  ASSUME NEW T \in SUBSET Nat, T # {}
  PROVE  \E x \in T : \A y \in T : ~(y < x)
<1>1. PICK x \in T : \A y \in T : <<y, x>> \notin OpToRel(<, Nat)
  BY WFMin, NatLessThanWellFounded, Zenon
<1> QED
  BY <1>1, NotBelow, Zenon

LEMMA FirstIsLive ==
  ASSUME NEW e, WithEmail(e) # {}
  PROVE  First(e) \in Ids /\ Live(First(e)) /\ rcpt[First(e)].email = e
<1>1. WithEmail(e) \subseteq Nat
  BY RecipientsAssumption DEF WithEmail
<1>2. PICK i \in WithEmail(e) : \A j \in WithEmail(e) : ~(j < i)
  BY <1>1, LeastNatural
<1>3. \A j \in WithEmail(e) : i <= j
  BY <1>1, <1>2
<1>4. First(e) \in WithEmail(e)
  BY <1>3 DEF First
<1> QED
  BY <1>4 DEF WithEmail

-----------------------------------------------------------------------------
(* Records.                                                                *)

LEMMA NoRequestTyped == NoRequest \in Request /\ NoRequest.stage = "idle"
BY RecipientsAssumption
   DEF NoRequest, Request, RequestStages, Unused, Message, EventTypes

LEMMA UnusedTyped == Unused \in Recipient /\ Unused.state = "unused" /\ ~Unused.verified
BY RecipientsAssumption DEF Unused, Recipient, States

LEMMA LiveRowTyped ==
  ASSUME NEW w \in Workspaces, NEW e \in Emails, NEW v \in BOOLEAN
  PROVE  Row0(w, e, v) \in Recipient
BY DEF Row0, Recipient, States

LEMMA IdleTyped == Idle \in Sender
BY RecipientsAssumption DEF Idle, Sender

LEMMA FaultsTyped ==
  ASSUME TypeOK, NoFault \/ \E kind \in {"db", "crash"} : Fault(kind)
  PROVE  faults' \in Nat
BY DEF TypeOK, NoFault, Fault

LEMMA BeginTyped ==
  ASSUME TypeOK, NEW q \in Requests, NEW r \in Request, Begin(q, r)
  PROVE  req' \in [Requests -> Request] /\ begun' \in Nat /\ faults' \in Nat
BY DEF TypeOK, Begin, NoFault

LEMMA DoneTyped ==
  ASSUME TypeOK, NEW q \in Requests, Done(q)
  PROVE  req' \in [Requests -> Request]
BY NoRequestTyped DEF TypeOK, Done

LEMMA StageTyped ==
  ASSUME TypeOK, NEW q \in Requests, NEW stage \in RequestStages, Stage(q, stage)
  PROVE  req' \in [Requests -> Request]
BY DEF TypeOK, Stage, Request

LEMMA UpdateTyped ==
  ASSUME TypeOK, NEW i \in Ids, NEW new \in Recipient, update(i, new)
  PROVE  rcpt' \in [Ids -> Recipient]
BY DEF TypeOK, update

-----------------------------------------------------------------------------
(* Types.                                                                  *)

LEMMA InitTyped == Init => TypeOK
<1> SUFFICES ASSUME Init PROVE TypeOK
  OBVIOUS
<1>1. rcpt \in [Ids -> Recipient] /\ links \subseteq Link /\ agreed \subseteq Workspaces \X Emails
  <2>1. CASE rcpt = [i \in Ids |-> Unused] /\ links = {} /\ agreed = {}
    BY <2>1, UnusedTyped
  <2>2. ASSUME NEW i \in Ids, NEW w \in Workspaces, NEW e \in Emails, NEW v \in BOOLEAN,
               rcpt = [j \in Ids |-> IF j = i THEN Row0(w, e, v) ELSE Unused],
               links = {[purpose |-> "verify", workspace |-> w, email |-> e]},
               agreed = IF v THEN {<<w, e>>} ELSE {}
        PROVE  <1>1
    BY <2>2, UnusedTyped, LiveRowTyped DEF Link, Purposes
  <2> QED
    BY <2>1, <2>2 DEF Init
<1>2. sender \in [Workspaces -> Sender]
  BY IdleTyped DEF Init
<1>3. req \in [Requests -> Request]
  BY NoRequestTyped DEF Init
<1>4. delivery \in [Ids -> DeliveryStatuses] /\ copies \in [Ids -> 0..MaxMails]
  BY RecipientsAssumption DEF Init, DeliveryStatuses
<1> QED
  BY <1>1, <1>2, <1>3, <1>4 DEF Init, TypeOK

LEMMA StepTyped == TypeOK /\ [Next]_vars => TypeOK'
<1> SUFFICES ASSUME TypeOK, [Next]_vars PROVE TypeOK'
  OBVIOUS
<1> USE DEF tables, sends, histories
<1>1. ASSUME NEW q \in Requests, NEW w \in Workspaces, NEW e \in Emails, create(q, w, e)
      PROVE  TypeOK'
  <2> DEFINE r == [NoRequest EXCEPT !.stage = "insert", !.workspace = w, !.email = e]
  <2>1. r \in Request
    BY NoRequestTyped DEF Request, RequestStages
  <2>2. req' \in [Requests -> Request] /\ begun' \in Nat /\ faults' \in Nat
    BY <1>1, <2>1, BeginTyped, NoRequestTyped DEF create
  <2> QED
    BY <1>1, <2>2 DEF TypeOK, create
<1>2. ASSUME NEW q \in Requests, NEW i \in Ids, resendVerification(q, i)
      PROVE  TypeOK'
  <2> DEFINE r == [NoRequest EXCEPT !.stage = "invite", !.workspace = rcpt[i].workspace,
                                    !.email = rcpt[i].email]
  <2>1. r \in Request
    BY NoRequestTyped DEF Request, RequestStages, TypeOK, Recipient
  <2>2. req' \in [Requests -> Request] /\ begun' \in Nat /\ faults' \in Nat
    BY <1>2, <2>1, BeginTyped DEF resendVerification
  <2> QED
    BY <1>2, <2>2 DEF TypeOK, resendVerification
<1>3. ASSUME NEW q \in Requests, NEW i \in Ids, remove(q, i)
      PROVE  TypeOK'
  <2>1. req' \in [Requests -> Request] /\ begun' \in Nat /\ faults' \in Nat
    BY <1>3, NoRequestTyped, BeginTyped DEF remove
  <2>2. rcpt' \in [Ids -> Recipient]
    BY <1>3 DEF remove, TypeOK, Recipient, States
  <2>3. delivery' \in [Ids -> DeliveryStatuses] /\ complained' \subseteq Ids
    BY <1>3 DEF remove, TypeOK, DeliveryStatuses
  <2> QED
    BY <1>3, <2>1, <2>2, <2>3 DEF TypeOK, remove
<1>4. ASSUME NEW q \in Requests, NEW i \in Ids, NEW b \in BOOLEAN, setSuppressed(q, i, b)
      PROVE  TypeOK'
  <2>1. req' \in [Requests -> Request] /\ begun' \in Nat /\ faults' \in Nat
    BY <1>4, NoRequestTyped, BeginTyped DEF setSuppressed
  <2>2. rcpt' \in [Ids -> Recipient]
    BY <1>4 DEF setSuppressed, TypeOK, Recipient
  <2> QED
    BY <1>4, <2>1, <2>2 DEF TypeOK, setSuppressed
<1>5. ASSUME NEW q \in Requests, NEW l \in links, publicVerify(q, l) \/ publicUnsubscribeConfirm(q, l)
      PROVE  TypeOK'
  <2>1. l \in Link
    BY DEF TypeOK
  <2>2. PICK next \in {"confirm", "stop"} : openPage(q, l, next)
    BY <1>5 DEF publicVerify, publicUnsubscribeConfirm
  <2>3. req' \in [Requests -> Request] /\ begun' \in Nat /\ faults' \in Nat
    <3> DEFINE opened == [NoRequest EXCEPT !.workspace = l.workspace, !.email = l.email]
    <3>1. opened \in Request
      BY <2>1, NoRequestTyped DEF Request, Link
    <3>2. CASE WithEmail(l.email) # {} /\ verifyPurposeToken(l, l.purpose, First(l.email))
      <4>1. [opened EXCEPT !.stage = next, !.found = First(l.email)] \in Request
        BY <3>1, <3>2, FirstIsLive DEF Request, RequestStages
      <4> QED
        BY <2>2, <3>2, <4>1, BeginTyped DEF openPage
    <3>3. CASE ~(WithEmail(l.email) # {} /\ verifyPurposeToken(l, l.purpose, First(l.email)))
      <4>1. [opened EXCEPT !.stage = "refused"] \in Request
        BY <3>1 DEF Request, RequestStages
      <4> QED
        BY <2>2, <3>3, <4>1, BeginTyped DEF openPage
    <3> QED
      BY <3>2, <3>3
  <2>4. agreed' \subseteq Workspaces \X Emails
    BY <1>5, <2>1 DEF publicVerify, publicUnsubscribeConfirm, TypeOK, Link
  <2> QED
    BY <2>2, <2>3, <2>4 DEF TypeOK, openPage
<1>6. ASSUME NEW q \in Requests, NEW m \in Message, NEW type \in EventTypes, emailWebhook(q, m, type)
      PROVE  TypeOK'
  <2> DEFINE r == [NoRequest EXCEPT !.stage = "record", !.email = rcpt[m.id].email,
                                    !.message = m, !.type = type]
  <2>1. r \in Request
    BY NoRequestTyped DEF Request, RequestStages, Message, TypeOK, Recipient
  <2>2. req' \in [Requests -> Request] /\ begun' \in Nat /\ faults' \in Nat
    BY <1>6, <2>1, BeginTyped DEF emailWebhook
  <2> QED
    BY <1>6, <2>2 DEF TypeOK, emailWebhook
<1>7. ASSUME NEW q \in Requests, NEW i \in Ids, insertRecipient(q, i)
      PROVE  TypeOK'
  <2>1. req' \in [Requests -> Request]
    BY <1>7, DoneTyped, StageTyped DEF insertRecipient, RequestStages
  <2>2. faults' \in Nat
    BY <1>7, FaultsTyped DEF insertRecipient
  <2> DEFINE new == [state |-> "live", workspace |-> req[q].workspace, email |-> req[q].email,
                     verified |-> FALSE, suppressed |-> FALSE]
  <2>3. rcpt' \in [Ids -> Recipient]
    <3>1. new \in Recipient
      BY DEF TypeOK, Request, Recipient, States
    <3>2. rcpt' = [rcpt EXCEPT ![i] = new] \/ rcpt' = rcpt
      BY <1>7 DEF insertRecipient
    <3> QED
      BY <3>1, <3>2 DEF TypeOK
  <2> QED
    BY <1>7, <2>1, <2>2, <2>3 DEF TypeOK, insertRecipient
<1>8. ASSUME NEW q \in Requests, sendVerification(q)
      PROVE  TypeOK'
  <2>1. req' \in [Requests -> Request] /\ faults' \in Nat
    BY <1>8, DoneTyped, FaultsTyped DEF sendVerification
  <2>2. links' \subseteq Link
    BY <1>8 DEF sendVerification, TypeOK, Link, Purposes, Request
  <2> QED
    BY <1>8, <2>1, <2>2 DEF TypeOK, sendVerification
<1>9. ASSUME NEW q \in Requests, refuse(q) \/ crashRequest(q)
      PROVE  TypeOK'
  <2>1. req' \in [Requests -> Request] /\ faults' \in Nat
    BY <1>9, DoneTyped, FaultsTyped DEF refuse, crashRequest
  <2> QED
    BY <1>9, <2>1 DEF TypeOK, refuse, crashRequest
<1>10. ASSUME NEW q \in Requests, confirm(q) \/ stop(q)
       PROVE  TypeOK'
  <2>1. req' \in [Requests -> Request] /\ faults' \in Nat
    BY <1>10, DoneTyped, FaultsTyped DEF confirm, stop
  <2>2. req[q].found \in Ids
    BY DEF TypeOK, Request
  <2>3. rcpt' \in [Ids -> Recipient]
    <3>1. /\ [rcpt[req[q].found] EXCEPT !.verified = TRUE] \in Recipient
          /\ [rcpt[req[q].found] EXCEPT !.suppressed = TRUE] \in Recipient
      BY <2>2 DEF TypeOK, Recipient
    <3> QED
      BY <1>10, <2>2, <3>1, UpdateTyped DEF confirm, stop, TypeOK
  <2> QED
    BY <1>10, <2>1, <2>3 DEF TypeOK, confirm, stop
<1>11. ASSUME NEW q \in Requests, recordEvent(q)
       PROVE  TypeOK'
  <2>1. req' \in [Requests -> Request]
    BY <1>11, DoneTyped, StageTyped DEF recordEvent, RequestStages
  <2>2. faults' \in Nat
    BY <1>11, FaultsTyped DEF recordEvent
  <2>3. events' \subseteq Message \X (EventTypes \union {"any"})
    BY <1>11 DEF recordEvent, TypeOK, Request, externalId
  <2>4. complained' \subseteq Ids
    BY <1>11 DEF recordEvent, Complaint, WithEmail, TypeOK
  <2> QED
    BY <1>11, <2>1, <2>2, <2>3, <2>4 DEF TypeOK, recordEvent
<1>12. ASSUME NEW q \in Requests, lookupRecipient(q)
       PROVE  TypeOK'
  <2> DEFINE e == req[q].email
  <2>1. WithEmail(e) # {} => First(e) \in Ids
    BY FirstIsLive
  <2>2. req' \in [Requests -> Request]
    <3> DEFINE found == [req EXCEPT ![q].stage = "status", ![q].found = First(e)]
    <3>1. First(e) \in Ids => found \in [Requests -> Request]
      BY ZenonT(30) DEF TypeOK, Request, RequestStages
    <3>2. Done(q) \/ (WithEmail(e) # {} /\ req' = found)
      BY <1>12 DEF lookupRecipient
    <3> QED
      BY <2>1, <3>1, <3>2, DoneTyped
  <2>3. faults' \in Nat
    BY <1>12, FaultsTyped DEF lookupRecipient
  <2>4. misdirected' \subseteq Ids
    <3>1. req[q].message.id \in Ids
      BY DEF TypeOK, Request, Message
    <3> QED
      BY <1>12, <3>1 DEF lookupRecipient, TypeOK
  <2>5. applied' \subseteq Message \X EventTypes
    BY <1>12 DEF lookupRecipient, TypeOK, Request, occurrence
  <2> QED
    BY <1>12, <2>2, <2>3, <2>4, <2>5 DEF TypeOK, lookupRecipient
<1>13. ASSUME NEW q \in Requests, updateDeliveries(q)
       PROVE  TypeOK'
  <2>1. req' \in [Requests -> Request]
    BY <1>13, DoneTyped, StageTyped DEF updateDeliveries, RequestStages
  <2>2. faults' \in Nat
    BY <1>13, FaultsTyped DEF updateDeliveries
  <2>3. delivery' \in [Ids -> DeliveryStatuses]
    BY <1>13 DEF updateDeliveries, TypeOK, DeliveryStatuses
  <2>4. applied' \subseteq Message \X EventTypes
    BY <1>13 DEF updateDeliveries, TypeOK, Request, occurrence
  <2> QED
    BY <1>13, <2>1, <2>2, <2>3, <2>4 DEF TypeOK, updateDeliveries
<1>14. ASSUME NEW q \in Requests, suppressRecipient(q)
       PROVE  TypeOK'
  <2>1. req' \in [Requests -> Request] /\ faults' \in Nat
    BY <1>14, DoneTyped, FaultsTyped DEF suppressRecipient
  <2>2. req[q].found \in Ids /\ occurrence(q) \in Message \X EventTypes
    BY DEF TypeOK, Request, occurrence
  <2>3. rcpt' \in [Ids -> Recipient]
    <3>1. [rcpt[req[q].found] EXCEPT !.suppressed = TRUE] \in Recipient
      BY <2>2, ZenonT(30) DEF TypeOK, Recipient
    <3> QED
      BY <1>14, <2>2, <3>1, UpdateTyped DEF suppressRecipient, TypeOK
  <2> QED
    BY <1>14, <2>1, <2>2, <2>3 DEF TypeOK, suppressRecipient
<1>15. ASSUME NEW w \in Workspaces, listRecipients(w) \/ endRun(w)
       PROVE  TypeOK'
  <2>1. Deliverable(w) \subseteq Ids
    BY DEF Deliverable
  <2>2. sender' = [sender EXCEPT ![w] = Idle]
        \/ sender' = [sender EXCEPT ![w].stage = "next", ![w].todo = Deliverable(w)]
    BY <1>15 DEF listRecipients, endRun
  <2>3. sender' \in [Workspaces -> Sender]
    <3>1. CASE sender' = [sender EXCEPT ![w] = Idle]
      BY <3>1, IdleTyped DEF TypeOK
    <3>2. CASE sender' = [sender EXCEPT ![w].stage = "next", ![w].todo = Deliverable(w)]
      BY <2>1, <3>2, ZenonT(30) DEF TypeOK, Sender
    <3> QED
      BY <2>2, <3>1, <3>2
  <2> QED
    BY <1>15, <2>3 DEF TypeOK, listRecipients, endRun
<1>16. ASSUME NEW w \in Workspaces, NEW i \in Ids, nextRecipient(w, i)
       PROVE  TypeOK'
  <2>1. faults' \in Nat
    BY <1>16, FaultsTyped DEF nextRecipient
  <2>2. sender' = [sender EXCEPT ![w].todo = @ \ {i}]
        \/ sender' = [sender EXCEPT ![w].stage = "mail", ![w].current = i]
    BY <1>16 DEF nextRecipient
  <2>3. sender' \in [Workspaces -> Sender]
    <3>1. /\ [sender[w] EXCEPT !.todo = sender[w].todo \ {i}] \in Sender
          /\ [sender[w] EXCEPT !.stage = "mail", !.current = i] \in Sender
      BY DEF TypeOK, Sender
    <3>2. \/ sender' = [sender EXCEPT ![w] = [sender[w] EXCEPT !.todo = sender[w].todo \ {i}]]
          \/ sender' = [sender EXCEPT ![w] = [sender[w] EXCEPT !.stage = "mail", !.current = i]]
      BY <2>2 DEF TypeOK, Sender
    <3> QED
      BY <3>1, <3>2 DEF TypeOK
  <2> QED
    BY <1>16, <2>1, <2>3 DEF TypeOK, nextRecipient
<1>17. ASSUME NEW w \in Workspaces, mailSend(w)
       PROVE  TypeOK'
  <2>1. sender[w].current \in Ids
    BY DEF TypeOK, Sender
  <2>2. links' \subseteq Link
    BY <1>17, <2>1 DEF mailSend, TypeOK, Link, Purposes, Recipient
  <2>3. copies' \in [Ids -> 0..MaxMails]
    BY <1>17, <2>1, RecipientsAssumption DEF mailSend, TypeOK
  <2>4. sender' \in [Workspaces -> Sender]
    <3>1. PICK answer \in BOOLEAN :
            sender' = [sender EXCEPT ![w].stage = "record", ![w].accepted = answer]
      BY <1>17 DEF mailSend
    <3> QED
      BY <3>1, ZenonT(30) DEF TypeOK, Sender
  <2> QED
    BY <1>17, <2>2, <2>3, <2>4 DEF TypeOK, mailSend
<1>18. ASSUME NEW w \in Workspaces, recordDelivery(w)
       PROVE  TypeOK'
  <2>1. faults' \in Nat
    BY <1>18, FaultsTyped DEF recordDelivery
  <2>2. delivery' \in [Ids -> DeliveryStatuses]
    BY <1>18 DEF recordDelivery, TypeOK, DeliveryStatuses
  <2>3. sender' \in [Workspaces -> Sender]
    <3> DEFINE rest == sender[w].todo \ {sender[w].current}
               next == [sender[w] EXCEPT !.stage = "next", !.todo = rest, !.accepted = FALSE]
    <3>1. next \in Sender
      BY DEF TypeOK, Sender
    <3>2. sender' = [sender EXCEPT ![w] = next]
      BY <1>18 DEF recordDelivery, TypeOK, Sender
    <3> QED
      BY <3>1, <3>2 DEF TypeOK
  <2> QED
    BY <1>18, <2>1, <2>2, <2>3 DEF TypeOK, recordDelivery
<1>19. ASSUME NEW l \in links, expire(l)
       PROVE  TypeOK'
  BY <1>19 DEF TypeOK, expire
<1>20. CASE UNCHANGED vars
  BY <1>20 DEF TypeOK, vars
<1> QED
  BY <1>1, <1>2, <1>3, <1>4, <1>5, <1>6, <1>7, <1>8, <1>9, <1>10, <1>11, <1>12, <1>13,
     <1>14, <1>15, <1>16, <1>17, <1>18, <1>19, <1>20
     DEF Next, arrive, proceed, send

(* The tables, the requests and the sends keep their types.                *)
THEOREM RecipientsTyped == Spec => []TypeOK
BY InitTyped, StepTyped, PTL DEF Spec

-----------------------------------------------------------------------------
(* Double opt-in.  AgreedRows are the rows, live or removed, whose reader   *)
(* agreed.  A row never changes its address, so they only grow, and from   *)
(* the page to the mailbox only their ids are handed on.                   *)
AgreedRows == {i \in Ids : /\ rcpt[i].state # "unused"
                           /\ <<rcpt[i].workspace, rcpt[i].email>> \in agreed}

OptedIn ==
  /\ \A i \in Ids : rcpt[i].verified => i \in AgreedRows
  /\ \A i \in Ids : copies[i] > 0 => i \in AgreedRows
  /\ \A q \in Requests : At(q, "confirm") => req[q].found \in AgreedRows
  /\ \A w \in Workspaces : /\ sender[w].todo \subseteq AgreedRows
                           /\ sender[w].stage \in {"mail", "record"}
                                => sender[w].current \in AgreedRows

(* What an UPDATE ... WHERE id may change of a row.                        *)
SameReader(r, s) == r.state # "unused" => /\ s.state # "unused"
                                          /\ s.workspace = r.workspace /\ s.email = r.email

LEMMA AgreedGrows ==
  ASSUME TypeOK, agreed \subseteq agreed', \A i \in Ids : SameReader(rcpt[i], rcpt'[i])
  PROVE  AgreedRows \subseteq AgreedRows'
BY DEF AgreedRows, SameReader

LEMMA UpdateKeepsReader ==
  ASSUME TypeOK, NEW i \in Ids,
         \/ update(i, [rcpt[i] EXCEPT !.verified = TRUE])
         \/ update(i, [rcpt[i] EXCEPT !.suppressed = TRUE])
  PROVE  \A j \in Ids : SameReader(rcpt[j], rcpt'[j])
BY DEF update, TypeOK, Recipient, SameReader

LEMMA InitOptedIn == Init => OptedIn
<1> SUFFICES ASSUME Init PROVE OptedIn
  OBVIOUS
<1>1. \A i \in Ids : rcpt[i].verified => i \in AgreedRows
  <2>1. CASE rcpt = [i \in Ids |-> Unused]
    BY <2>1, UnusedTyped
  <2>2. ASSUME NEW i \in Ids, NEW w \in Workspaces, NEW e \in Emails, NEW v \in BOOLEAN,
               rcpt = [j \in Ids |-> IF j = i THEN Row0(w, e, v) ELSE Unused],
               agreed = IF v THEN {<<w, e>>} ELSE {}
        PROVE  <1>1
    BY <2>2, UnusedTyped DEF AgreedRows, Row0
  <2> QED
    BY <2>1, <2>2 DEF Init
<1>2. \A q \in Requests : ~At(q, "confirm")
  BY NoRequestTyped DEF Init, At
<1>3. \A w \in Workspaces : sender[w].todo = {} /\ sender[w].stage = "idle"
  BY DEF Init, Idle
<1>4. \A i \in Ids : ~(copies[i] > 0)
  <2> SUFFICES ASSUME NEW i \in Ids PROVE ~(copies[i] > 0)
    OBVIOUS
  <2>1. copies[i] = 0
    BY DEF Init
  <2> QED
    BY <2>1
<1> QED
  BY <1>1, <1>2, <1>3, <1>4 DEF OptedIn

(* Each place an id is handed to held it before, or gets it from another.  *)
LEMMA HandedOn ==
  ASSUME OptedIn, AgreedRows \subseteq AgreedRows',
         \A i \in Ids : rcpt'[i].verified => rcpt[i].verified \/ i \in AgreedRows,
         \A i \in Ids : copies'[i] > 0 => copies[i] > 0 \/ i \in AgreedRows,
         \A q \in Requests : req'[q].stage = "confirm" =>
            \/ req'[q].found \in AgreedRows'
            \/ req[q].stage = "confirm" /\ req'[q].found = req[q].found,
         \A w \in Workspaces :
            /\ sender'[w].todo \subseteq sender[w].todo \union AgreedRows
            /\ sender'[w].stage \in {"mail", "record"} =>
                 \/ sender'[w].current \in sender[w].todo
                 \/ /\ sender[w].stage \in {"mail", "record"}
                    /\ sender'[w].current = sender[w].current
  PROVE  OptedIn'
<1>1. \A i \in Ids : rcpt'[i].verified \/ copies'[i] > 0 => i \in AgreedRows'
  BY DEF OptedIn
<1>2. \A q \in Requests : req'[q].stage = "confirm" => req'[q].found \in AgreedRows'
  BY DEF OptedIn, At
<1>3. \A w \in Workspaces : /\ sender'[w].todo \subseteq AgreedRows'
                            /\ sender'[w].stage \in {"mail", "record"}
                                 => sender'[w].current \in AgreedRows'
  BY DEF OptedIn
<1> QED
  BY <1>1, <1>2, <1>3 DEF OptedIn, At

LEMMA StepOptedIn == TypeOK /\ OptedIn /\ [Next]_vars => OptedIn'
<1> SUFFICES ASSUME TypeOK, OptedIn, [Next]_vars PROVE OptedIn'
  OBVIOUS
<1> USE DEF tables, sends, histories
<1>1. ASSUME NEW q \in Requests, NEW w \in Workspaces, NEW e \in Emails, create(q, w, e)
      PROVE  OptedIn'
  BY <1>1, NoRequestTyped DEF create, Begin, OptedIn, AgreedRows, At, TypeOK, Request
<1>2. ASSUME NEW q \in Requests, NEW i \in Ids, resendVerification(q, i)
      PROVE  OptedIn'
  BY <1>2, NoRequestTyped DEF resendVerification, Begin, OptedIn, AgreedRows, At, TypeOK, Request
<1>3. ASSUME NEW q \in Requests, NEW i \in Ids, remove(q, i)
      PROVE  OptedIn'
  <2>1. \A j \in Ids : SameReader(rcpt[j], rcpt'[j]) /\ rcpt'[j].verified = rcpt[j].verified
    BY <1>3 DEF remove, SameReader, TypeOK, Recipient
  <2>2. AgreedRows \subseteq AgreedRows'
    BY <1>3, <2>1, AgreedGrows DEF remove
  <2> QED
    BY <1>3, <2>1, <2>2, NoRequestTyped, HandedOn DEF remove, Begin, TypeOK
<1>4. ASSUME NEW q \in Requests, NEW i \in Ids, NEW b \in BOOLEAN, setSuppressed(q, i, b)
      PROVE  OptedIn'
  <2>1. \A j \in Ids : SameReader(rcpt[j], rcpt'[j]) /\ rcpt'[j].verified = rcpt[j].verified
    BY <1>4 DEF setSuppressed, SameReader, TypeOK, Recipient
  <2>2. AgreedRows \subseteq AgreedRows'
    BY <1>4, <2>1, AgreedGrows DEF setSuppressed
  <2> QED
    BY <1>4, <2>1, <2>2, NoRequestTyped, HandedOn DEF setSuppressed, Begin, TypeOK
<1>5. ASSUME NEW q \in Requests, NEW l \in links, publicVerify(q, l)
      PROVE  OptedIn'
  <2> DEFINE opened == [NoRequest EXCEPT !.workspace = l.workspace, !.email = l.email]
  <2>1. openPage(q, l, "confirm") /\ agreed' = agreed \union {<<l.workspace, l.email>>}
    BY <1>5 DEF publicVerify
  <2>2. AgreedRows \subseteq AgreedRows'
    BY <2>1, AgreedGrows DEF openPage, SameReader
  <2>3. \A p \in Requests : req'[p].stage = "confirm" => req'[p].found \in AgreedRows'
    <3>1. CASE WithEmail(l.email) # {} /\ verifyPurposeToken(l, l.purpose, First(l.email))
      <4>1. First(l.email) \in Ids /\ rcpt[First(l.email)].state # "unused"
        BY <3>1, FirstIsLive DEF Live
      <4>2. <<rcpt[First(l.email)].workspace, rcpt[First(l.email)].email>>
              = <<l.workspace, l.email>>
        BY <3>1 DEF verifyPurposeToken
      <4>3. First(l.email) \in AgreedRows'
        BY <2>1, <4>1, <4>2 DEF openPage, AgreedRows
      <4>4. req' = [req EXCEPT ![q] = [opened EXCEPT !.stage = "confirm",
                                                     !.found = First(l.email)]]
        BY <2>1, <3>1 DEF openPage, Begin
      <4>5. [opened EXCEPT !.stage = "confirm", !.found = First(l.email)].found = First(l.email)
        BY NoRequestTyped DEF Request
      <4> QED
        BY <2>2, <4>3, <4>4, <4>5 DEF OptedIn, At, TypeOK
    <3>2. CASE ~(WithEmail(l.email) # {} /\ verifyPurposeToken(l, l.purpose, First(l.email)))
      <4>1. req' = [req EXCEPT ![q] = [opened EXCEPT !.stage = "refused"]]
        BY <2>1, <3>2 DEF openPage, Begin
      <4>2. [opened EXCEPT !.stage = "refused"].stage = "refused"
        BY NoRequestTyped DEF Request
      <4> QED
        BY <2>2, <4>1, <4>2 DEF OptedIn, At, TypeOK
    <3> QED
      BY <3>1, <3>2
  <2> QED
    BY <2>1, <2>2, <2>3, HandedOn DEF openPage
<1>6. ASSUME NEW q \in Requests, NEW l \in links, publicUnsubscribeConfirm(q, l)
      PROVE  OptedIn'
  <2>1. openPage(q, l, "stop") /\ agreed' = agreed
    BY <1>6 DEF publicUnsubscribeConfirm
  <2>2. \A p \in Requests : req'[p].stage = "confirm" => req'[p] = req[p]
    BY <2>1, NoRequestTyped DEF openPage, Begin, TypeOK, Request
  <2> QED
    BY <2>1, <2>2 DEF openPage, OptedIn, AgreedRows, At
<1>7. ASSUME NEW q \in Requests, NEW m \in Message, NEW type \in EventTypes, emailWebhook(q, m, type)
      PROVE  OptedIn'
  BY <1>7, NoRequestTyped DEF emailWebhook, Begin, OptedIn, AgreedRows, At, TypeOK, Request
<1>8. ASSUME NEW q \in Requests, NEW i \in Ids, insertRecipient(q, i)
      PROVE  OptedIn'
  <2>1. \A j \in Ids : SameReader(rcpt[j], rcpt'[j]) /\ (rcpt'[j].verified => rcpt[j].verified)
    BY <1>8 DEF insertRecipient, SameReader, TypeOK
  <2>2. AgreedRows \subseteq AgreedRows'
    BY <1>8, <2>1, AgreedGrows DEF insertRecipient
  <2>3. \A p \in Requests : req'[p].stage = "confirm" => req'[p] = req[p]
    BY <1>8, NoRequestTyped DEF insertRecipient, Done, Stage, TypeOK, Request
  <2> QED
    BY <1>8, <2>1, <2>2, <2>3, HandedOn DEF insertRecipient
<1>9. ASSUME NEW q \in Requests,
             sendVerification(q) \/ refuse(q) \/ crashRequest(q) \/ recordEvent(q)
               \/ lookupRecipient(q) \/ updateDeliveries(q)
      PROVE  OptedIn'
  <2>1. rcpt' = rcpt /\ agreed' = agreed /\ copies' = copies /\ sender' = sender
    BY <1>9 DEF sendVerification, refuse, crashRequest, recordEvent, lookupRecipient, updateDeliveries
  <2>2. \A p \in Requests : req'[p].stage = "confirm" => req'[p] = req[p]
    BY <1>9, NoRequestTyped
       DEF sendVerification, refuse, crashRequest, recordEvent, lookupRecipient, updateDeliveries,
           Done, Stage, TypeOK, Request
  <2> QED
    BY <2>1, <2>2 DEF OptedIn, AgreedRows, At
<1>10. ASSUME NEW q \in Requests, confirm(q) \/ stop(q) \/ suppressRecipient(q)
       PROVE  OptedIn'
  <2> DEFINE i == req[q].found
  <2>1. i \in Ids
    BY DEF TypeOK, Request
  <2>2. \A j \in Ids : SameReader(rcpt[j], rcpt'[j])
    <3>1. \A j \in Ids : SameReader(rcpt[j], rcpt[j])
      BY DEF SameReader
    <3> QED
      BY <1>10, <2>1, <3>1, UpdateKeepsReader DEF confirm, stop, suppressRecipient
  <2>3. AgreedRows \subseteq AgreedRows'
    BY <1>10, <2>2, AgreedGrows DEF confirm, stop, suppressRecipient
  <2>4. \A j \in Ids : rcpt'[j].verified => rcpt[j].verified \/ (j = i /\ At(q, "confirm"))
    BY <1>10, <2>1 DEF confirm, stop, suppressRecipient, update, TypeOK, Recipient
  <2>5. \A p \in Requests : req'[p].stage = "confirm" => req'[p] = req[p]
    BY <1>10, NoRequestTyped DEF confirm, stop, suppressRecipient, Done, TypeOK, Request
  <2> QED
    <3>1. \A j \in Ids : rcpt'[j].verified => rcpt[j].verified \/ j \in AgreedRows
      BY <2>4 DEF OptedIn
    <3> QED
      BY <1>10, <2>3, <2>5, <3>1, HandedOn DEF confirm, stop, suppressRecipient
<1>11. ASSUME NEW w \in Workspaces, listRecipients(w) \/ endRun(w)
       PROVE  OptedIn'
  <2>1. Deliverable(w) \subseteq AgreedRows
    BY DEF Deliverable, OptedIn
  <2>2. AgreedRows' = AgreedRows
    BY <1>11 DEF listRecipients, endRun, AgreedRows
  <2>3. \/ sender' = [sender EXCEPT ![w] = Idle]
        \/ sender' = [sender EXCEPT ![w].stage = "next", ![w].todo = Deliverable(w)]
    BY <1>11 DEF listRecipients, endRun
  <2>4. \A v \in Workspaces : /\ sender'[v].todo \subseteq sender[v].todo \union AgreedRows
                              /\ sender'[v].stage \in {"mail", "record"} => sender'[v] = sender[v]
    BY <2>1, <2>3 DEF Idle, TypeOK, Sender
  <2> QED
    BY <1>11, <2>2, <2>4, HandedOn DEF listRecipients, endRun
<1>12. ASSUME NEW w \in Workspaces, NEW i \in Ids, nextRecipient(w, i)
       PROVE  OptedIn'
  <2>1. AgreedRows' = AgreedRows
    BY <1>12 DEF nextRecipient, AgreedRows
  <2>2. /\ i \in sender[w].todo
        /\ \/ sender' = [sender EXCEPT ![w].todo = @ \ {i}]
           \/ sender' = [sender EXCEPT ![w].stage = "mail", ![w].current = i]
    BY <1>12 DEF nextRecipient
  <2>3. \A v \in Workspaces : /\ sender'[v].todo \subseteq sender[v].todo
                              /\ \/ /\ sender'[v].stage = sender[v].stage
                                    /\ sender'[v].current = sender[v].current
                                 \/ sender'[v].current \in sender[v].todo
    <3>1. CASE sender' = [sender EXCEPT ![w].todo = @ \ {i}]
      BY <3>1 DEF TypeOK, Sender
    <3>2. CASE sender' = [sender EXCEPT ![w].stage = "mail", ![w].current = i]
      BY <2>2, <3>2 DEF TypeOK, Sender
    <3> QED
      BY <2>2, <3>1, <3>2
  <2> QED
    BY <1>12, <2>1, <2>3, HandedOn DEF nextRecipient
<1>13. ASSUME NEW w \in Workspaces, mailSend(w)
       PROVE  OptedIn'
  <2>1. AgreedRows' = AgreedRows
    BY <1>13 DEF mailSend, AgreedRows
  <2>2. \A i \in Ids : copies'[i] > 0 => copies[i] > 0 \/ i = sender[w].current
    BY <1>13 DEF mailSend, TypeOK
  <2>3. sender[w].stage = "mail" /\ sender[w].current \in AgreedRows
    <3>1. sender[w].stage = "mail"
      BY <1>13 DEF mailSend
    <3> QED
      BY <3>1 DEF OptedIn
  <2>4. \A v \in Workspaces : /\ sender'[v].todo = sender[v].todo
                              /\ sender'[v].current = sender[v].current
                              /\ v # w => sender'[v].stage = sender[v].stage
    BY <1>13 DEF mailSend, TypeOK, Sender
  <2> QED
    BY <1>13, <2>1, <2>2, <2>3, <2>4, HandedOn DEF mailSend
<1>14. ASSUME NEW w \in Workspaces, recordDelivery(w)
       PROVE  OptedIn'
  <2>1. AgreedRows' = AgreedRows
    BY <1>14 DEF recordDelivery, AgreedRows
  <2>2. \A v \in Workspaces : /\ sender'[v].todo \subseteq sender[v].todo
                              /\ sender'[v].current = sender[v].current
                              /\ sender'[v].stage \in {"mail", "record"}
                                   => sender'[v].stage = sender[v].stage
    BY <1>14 DEF recordDelivery, TypeOK, Sender
  <2> QED
    BY <1>14, <2>1, <2>2, HandedOn DEF recordDelivery
<1>15. ASSUME NEW l \in links, expire(l)
       PROVE  OptedIn'
  BY <1>15 DEF expire, OptedIn, AgreedRows, At
<1>16. CASE UNCHANGED vars
  BY <1>16 DEF vars, OptedIn, AgreedRows, At
<1> QED
  BY <1>1, <1>2, <1>3, <1>4, <1>5, <1>6, <1>7, <1>8, <1>9, <1>10, <1>11, <1>12, <1>13,
     <1>14, <1>15, <1>16 DEF Next, arrive, proceed, send

(* Double opt-in: no row gets a mail before its reader followed a link of   *)
(* its workspace, for any number of workspaces with the same readers.      *)
THEOREM DoubleOptIn == Spec => []MailedAgreed
<1>1. OptedIn => MailedAgreed
  BY DEF OptedIn, AgreedRows, MailedAgreed
<1> QED
  BY <1>1, InitOptedIn, StepOptedIn, RecipientsTyped, PTL DEF Spec

-----------------------------------------------------------------------------
(* Requests that handle an event, and the steps that do not touch them.    *)
Handling(r) == r.stage \in {"lookup", "status", "suppress"}
Told(r) == <<r.message, r.type>>

OtherRequest(q) ==
  \/ arrive(q) \/ sendVerification(q) \/ refuse(q) \/ confirm(q) \/ stop(q)
  \/ \E i \in Ids : insertRecipient(q, i)

LEMMA BeginElsewhere ==
  ASSUME TypeOK, NEW q \in Requests, NEW r \in Request, ~Handling(r), Begin(q, r)
  PROVE  \A p \in Requests : Handling(req[p]) \/ Handling(req'[p]) => req'[p] = req[p]
BY DEF Begin, Handling, At, TypeOK

LEMMA HandlingElsewhere ==
  ASSUME TypeOK, NEW q \in Requests, OtherRequest(q)
  PROVE  /\ \A p \in Requests : Handling(req[p]) \/ Handling(req'[p]) => req'[p] = req[p]
         /\ events' = events /\ applied' = applied /\ misdirected' = misdirected
<1> USE DEF tables, sends, histories
<1>1. ASSUME NEW w \in Workspaces, NEW e \in Emails, create(q, w, e)
      PROVE  \A p \in Requests : Handling(req[p]) \/ Handling(req'[p]) => req'[p] = req[p]
  <2> DEFINE r == [NoRequest EXCEPT !.stage = "insert", !.workspace = w, !.email = e]
  <2>1. r \in Request /\ ~Handling(r) /\ ~Handling(NoRequest)
    BY NoRequestTyped DEF Request, RequestStages, Handling
  <2> QED
    BY <1>1, <2>1, NoRequestTyped, BeginElsewhere DEF create
<1>2. ASSUME NEW i \in Ids, resendVerification(q, i)
      PROVE  \A p \in Requests : Handling(req[p]) \/ Handling(req'[p]) => req'[p] = req[p]
  <2> DEFINE r == [NoRequest EXCEPT !.stage = "invite", !.workspace = rcpt[i].workspace,
                                    !.email = rcpt[i].email]
  <2>1. r \in Request /\ ~Handling(r)
    BY NoRequestTyped DEF Request, RequestStages, Handling, TypeOK, Recipient
  <2> QED
    BY <1>2, <2>1, BeginElsewhere DEF resendVerification
<1>3. ASSUME NEW i \in Ids, remove(q, i) \/ \E b \in BOOLEAN : setSuppressed(q, i, b)
      PROVE  \A p \in Requests : Handling(req[p]) \/ Handling(req'[p]) => req'[p] = req[p]
  <2>1. ~Handling(NoRequest)
    BY NoRequestTyped DEF Handling
  <2> QED
    BY <1>3, <2>1, NoRequestTyped, BeginElsewhere DEF remove, setSuppressed
<1>4. ASSUME NEW l \in links, publicVerify(q, l) \/ publicUnsubscribeConfirm(q, l)
      PROVE  \A p \in Requests : Handling(req[p]) \/ Handling(req'[p]) => req'[p] = req[p]
  <2> DEFINE opened == [NoRequest EXCEPT !.workspace = l.workspace, !.email = l.email]
  <2>1. PICK next \in {"confirm", "stop"} : openPage(q, l, next)
    BY <1>4 DEF publicVerify, publicUnsubscribeConfirm
  <2>2. PICK r : /\ req' = [req EXCEPT ![q] = r] /\ At(q, "idle")
                 /\ \/ r = [opened EXCEPT !.stage = next, !.found = First(l.email)]
                    \/ r = [opened EXCEPT !.stage = "refused"]
    BY <2>1 DEF openPage, Begin
  <2>3. r.stage \in {"confirm", "stop", "refused"}
    BY <2>2, NoRequestTyped DEF Request
  <2> QED
    BY <2>2, <2>3 DEF Handling, At, TypeOK
<1>5. ASSUME NEW m \in Message, NEW type \in EventTypes, emailWebhook(q, m, type)
      PROVE  \A p \in Requests : Handling(req[p]) \/ Handling(req'[p]) => req'[p] = req[p]
  <2> DEFINE r == [NoRequest EXCEPT !.stage = "record", !.email = rcpt[m.id].email,
                                    !.message = m, !.type = type]
  <2>1. r \in Request /\ ~Handling(r)
    BY NoRequestTyped DEF Request, RequestStages, Handling, Message, TypeOK, Recipient
  <2> QED
    BY <1>5, <2>1, BeginElsewhere DEF emailWebhook
<1>6. ASSUME sendVerification(q) \/ refuse(q) \/ confirm(q) \/ stop(q)
      PROVE  \A p \in Requests : Handling(req[p]) \/ Handling(req'[p]) => req'[p] = req[p]
  BY <1>6, NoRequestTyped
     DEF sendVerification, refuse, confirm, stop, Done, At, Handling, TypeOK
<1>7. ASSUME NEW i \in Ids, insertRecipient(q, i)
      PROVE  \A p \in Requests : Handling(req[p]) \/ Handling(req'[p]) => req'[p] = req[p]
  BY <1>7, NoRequestTyped DEF insertRecipient, Done, Stage, At, Handling, TypeOK, Request
<1>8. events' = events /\ applied' = applied /\ misdirected' = misdirected
  BY DEF OtherRequest, arrive, create, resendVerification, remove, setSuppressed, publicVerify,
         publicUnsubscribeConfirm, openPage, emailWebhook, sendVerification, refuse, confirm, stop,
         insertRecipient
<1> QED
  BY <1>1, <1>2, <1>3, <1>4, <1>5, <1>6, <1>7, <1>8 DEF OtherRequest, arrive

LEMMA SendElsewhere ==
  ASSUME (\E w \in Workspaces : send(w)) \/ (\E l \in links : expire(l)) \/ UNCHANGED vars
  PROVE  /\ req' = req /\ events' = events /\ applied' = applied
         /\ rcpt' = rcpt /\ complained' = complained /\ misdirected' = misdirected
BY DEF send, listRecipients, nextRecipient, mailSend, recordDelivery, endRun, expire, vars,
       tables, sends, histories

(* The steps of Next, as the proofs below tell them apart.                 *)
LEMMA StepKinds ==
  ASSUME [Next]_vars
  PROVE  \/ \E q \in Requests : \/ OtherRequest(q) \/ recordEvent(q) \/ lookupRecipient(q)
                                \/ updateDeliveries(q) \/ suppressRecipient(q) \/ crashRequest(q)
         \/ (\E w \in Workspaces : send(w)) \/ (\E l \in links : expire(l)) \/ UNCHANGED vars
BY DEF Next, proceed, OtherRequest

-----------------------------------------------------------------------------
(* Events.  An event in hand is recorded, no two requests have the same    *)
(* one in hand, and no request has one in hand that was applied.           *)
Key(o) == <<o[1], IF OwnEventId THEN o[2] ELSE "any">>

Once ==
  /\ \A q \in Requests : Handling(req[q]) => Key(Told(req[q])) \in events
  /\ \A p, q \in Requests : p # q /\ Handling(req[p]) /\ Handling(req[q])
                              => Key(Told(req[p])) # Key(Told(req[q]))
  /\ \A o \in applied : Key(o) \in events
  /\ \A o \in applied, q \in Requests : Handling(req[q]) => Key(Told(req[q])) # Key(o)

(* A step that records nothing: of the request it concerns the event stays *)
(* in hand, or is put down, applied or not.                                *)
LEMMA OnceKept ==
  ASSUME Once, NEW q \in Requests, \A p \in Requests \ {q} : req'[p] = req[p],
         Handling(req'[q]) => Handling(req[q]) /\ Told(req'[q]) = Told(req[q]),
         events' = events,
         \/ applied' = applied
         \/ /\ applied' = applied \union {Told(req[q])}
            /\ Handling(req[q]) /\ ~Handling(req'[q])
  PROVE  Once'
<1>1. \A p \in Requests : Handling(req'[p]) => Handling(req[p]) /\ Told(req'[p]) = Told(req[p])
  OBVIOUS
<1>2. \A p \in Requests : Handling(req'[p]) => Key(Told(req'[p])) \in events'
  BY <1>1 DEF Once
<1>3. \A p1, p2 \in Requests : p1 # p2 /\ Handling(req'[p1]) /\ Handling(req'[p2])
                                 => Key(Told(req'[p1])) # Key(Told(req'[p2]))
  BY <1>1 DEF Once
<1>4. \A o \in applied' : Key(o) \in events'
  BY DEF Once
<1>5. \A o \in applied', p \in Requests : Handling(req'[p]) => Key(Told(req'[p])) # Key(o)
  BY <1>1 DEF Once
<1> QED
  BY <1>2, <1>3, <1>4, <1>5 DEF Once, Handling, Told, Key

LEMMA StepOnce == TypeOK /\ Once /\ [Next]_vars => Once'
<1> SUFFICES ASSUME TypeOK, Once, [Next]_vars PROVE Once'
  OBVIOUS
<1>1. ASSUME NEW q \in Requests, OtherRequest(q)
      PROVE  Once'
  <2>1. \A p \in Requests : Handling(req'[p]) => Handling(req[p]) /\ Told(req'[p]) = Told(req[p])
    BY <1>1, HandlingElsewhere
  <2>2. events' = events /\ applied' = applied
    BY <1>1, HandlingElsewhere
  <2> QED
    BY <2>1, <2>2 DEF Once, Handling, Told, Key
<1>2. ASSUME NEW q \in Requests, recordEvent(q)
      PROVE  Once'
  <2>1. /\ ~Handling(req[q]) /\ applied' = applied
        /\ externalId(q) = Key(Told(req[q]))
    BY <1>2 DEF recordEvent, At, Handling, histories, externalId, Key, Told
  <2>2. CASE events' = events /\ Done(q)
    <3>1. (\A p \in Requests \ {q} : req'[p] = req[p]) /\ ~Handling(req'[q])
      BY <2>2, NoRequestTyped DEF Done, TypeOK, Handling
    <3> QED
      BY <2>1, <2>2, <3>1, OnceKept
  <2>3. CASE externalId(q) \notin events /\ events' = events \union {externalId(q)} /\ Stage(q, "lookup")
    <3>1. /\ \A p \in Requests \ {q} : req'[p] = req[p]
          /\ Told(req'[q]) = Told(req[q])
      BY <2>3 DEF Stage, TypeOK, Request, Told
    <3>2. \A p \in Requests : Handling(req'[p]) => p = q \/ Handling(req[p])
      BY <3>1
    <3>3. \A p \in Requests : Told(req'[p]) = Told(req[p])
      BY <3>1
    <3>4. \A p \in Requests : Handling(req'[p]) => Key(Told(req'[p])) \in events'
      BY <2>1, <2>3, <3>2, <3>3 DEF Once
    <3>5. \A p1, p2 \in Requests : p1 # p2 /\ Handling(req'[p1]) /\ Handling(req'[p2])
                                     => Key(Told(req'[p1])) # Key(Told(req'[p2]))
      BY <2>1, <2>3, <3>2, <3>3 DEF Once
    <3>6. \A o \in applied', p \in Requests : Handling(req'[p]) => Key(Told(req'[p])) # Key(o)
      BY <2>1, <2>3, <3>2, <3>3 DEF Once
    <3>7. \A o \in applied' : Key(o) \in events'
      BY <2>1, <2>3 DEF Once
    <3> QED
      BY <3>4, <3>5, <3>6, <3>7 DEF Once, Handling, Told, Key
  <2> QED
    BY <1>2, <2>2, <2>3 DEF recordEvent
<1>3. ASSUME NEW q \in Requests,
             lookupRecipient(q) \/ updateDeliveries(q) \/ suppressRecipient(q) \/ crashRequest(q)
      PROVE  Once'
  <2>1. events' = events
    BY <1>3 DEF lookupRecipient, updateDeliveries, suppressRecipient, crashRequest, tables
  <2>2. \A p \in Requests \ {q} : req'[p] = req[p]
    BY <1>3 DEF lookupRecipient, updateDeliveries, suppressRecipient, crashRequest, Done, Stage, TypeOK
  <2>3. CASE crashRequest(q)
    <3>1. applied' = applied /\ ~Handling(req'[q])
      BY <2>3, NoRequestTyped DEF crashRequest, histories, Done, TypeOK, Handling
    <3> QED
      BY <2>1, <2>2, <3>1, OnceKept
  <2>4. CASE ~crashRequest(q)
    <3>1. Handling(req[q]) /\ occurrence(q) = Told(req[q])
      BY <1>3, <2>4 DEF lookupRecipient, updateDeliveries, suppressRecipient, At, Handling,
                        occurrence, Told
    <3>2. \/ applied' = applied
          \/ applied' = applied \union {occurrence(q)} /\ Done(q)
      BY <1>3, <2>4 DEF lookupRecipient, updateDeliveries, suppressRecipient
    <3>3. Told(req'[q]) = Told(req[q]) \/ Done(q)
      BY <1>3, <2>4 DEF lookupRecipient, updateDeliveries, suppressRecipient, Stage, Told,
                        TypeOK, Request
    <3>4. Done(q) => ~Handling(req'[q])
      BY NoRequestTyped DEF Done, TypeOK, Handling
    <3> QED
      BY <2>1, <2>2, <3>1, <3>2, <3>3, <3>4, OnceKept
  <2> QED
    BY <2>3, <2>4
<1>4. CASE (\E w \in Workspaces : send(w)) \/ (\E l \in links : expire(l)) \/ UNCHANGED vars
  BY <1>4, SendElsewhere DEF Once, Handling, Told, Key
<1> QED
  BY <1>1, <1>2, <1>3, <1>4, StepKinds

(* A replayed event never has a second effect, whether the provider sends  *)
(* an event_id or not, and whatever fails.                                 *)
THEOREM ReplaysDropped == Spec => []AppliedOnce
<1>1. Init => Once
  BY NoRequestTyped DEF Init, Once, Handling
<1>2. Once => AppliedOnce
  <2> SUFFICES ASSUME Once, NEW q \in Requests, Applying(q)
               PROVE  /\ occurrence(q) \notin applied
                      /\ \A p \in Requests \ {q} : Applying(p) => occurrence(p) # occurrence(q)
    BY DEF AppliedOnce
  <2>1. \A p \in Requests : /\ Applying(p) => Handling(req[p])
                            /\ occurrence(p) = Told(req[p])
    BY DEF Applying, Handling, occurrence, Told
  <2> QED
    BY <2>1 DEF Once
<1> QED
  BY <1>1, <1>2, StepOnce, RecipientsTyped, PTL DEF Spec

-----------------------------------------------------------------------------
(* Sends.  Two workspaces never work on the same row, and while nothing     *)
(* fails a send only mails a row without a mail on its way.                *)
RowsOf(w) == {i \in Ids : rcpt[i].state # "unused" /\ rcpt[i].workspace = w}
Mailing(r) == r.stage \in {"mail", "record"}
Accepted == {"submitted", "delivered"}

OwnRows == \A w \in Workspaces : /\ sender[w].todo \subseteq RowsOf(w)
                                 /\ Mailing(sender[w]) => sender[w].current \in RowsOf(w)
Fresh == faults = 0 => \A w \in Workspaces : Mailing(sender[w])
                         => delivery[sender[w].current] \notin Accepted

(* What a request may do to what a send relies on.                         *)
LEMMA RequestsSpareSends ==
  ASSUME TypeOK, NEW q \in Requests,
         \/ OtherRequest(q) \/ recordEvent(q) \/ lookupRecipient(q)
         \/ updateDeliveries(q) \/ suppressRecipient(q) \/ crashRequest(q)
  PROVE  /\ sender' = sender
         /\ faults' = 0 => faults = 0
         /\ \A i \in Ids : /\ SameReader(rcpt[i], rcpt'[i])
                           /\ delivery'[i] \in Accepted => delivery[i] \in Accepted
                           /\ delivery[i] = "delivered" /\ rcpt'[i].state = "live"
                                => delivery'[i] = "delivered"
<1> USE DEF tables, sends, histories
<1>1. sender' = sender
  BY DEF OtherRequest, arrive, create, resendVerification, remove, setSuppressed, publicVerify,
         publicUnsubscribeConfirm, openPage, emailWebhook, sendVerification, refuse, confirm, stop,
         insertRecipient, recordEvent, lookupRecipient, updateDeliveries, suppressRecipient,
         crashRequest
<1>2. faults' = 0 => faults = 0
  <2>1. faults' = faults \/ \E kind \in {"db", "crash"} : Fault(kind)
    BY DEF OtherRequest, arrive, create, resendVerification, remove, setSuppressed, publicVerify,
           publicUnsubscribeConfirm, openPage, emailWebhook, sendVerification, refuse, confirm, stop,
           insertRecipient, recordEvent, lookupRecipient, updateDeliveries, suppressRecipient,
           crashRequest, Begin, NoFault
  <2> QED
    BY <2>1 DEF Fault, TypeOK
<1>3. \A i \in Ids : SameReader(rcpt[i], rcpt'[i])
  <2>1. \A i \in Ids : SameReader(rcpt[i], rcpt[i])
    BY DEF SameReader
  <2>2. CASE \E i \in Ids : remove(q, i) \/ \E b \in BOOLEAN : setSuppressed(q, i, b)
    BY <2>2 DEF remove, setSuppressed, SameReader, TypeOK, Recipient
  <2>3. CASE \E i \in Ids : insertRecipient(q, i)
    BY <2>3 DEF insertRecipient, SameReader, TypeOK
  <2>4. CASE confirm(q) \/ stop(q) \/ suppressRecipient(q)
    <3>1. req[q].found \in Ids
      BY DEF TypeOK, Request
    <3> QED
      BY <2>1, <2>4, <3>1, UpdateKeepsReader DEF confirm, stop, suppressRecipient
  <2>5. CASE \/ sendVerification(q) \/ refuse(q) \/ recordEvent(q) \/ lookupRecipient(q)
             \/ updateDeliveries(q) \/ crashRequest(q)
             \/ \E w \in Workspaces, e \in Emails : create(q, w, e)
             \/ \E i \in Ids : resendVerification(q, i)
             \/ \E l \in links : publicVerify(q, l) \/ publicUnsubscribeConfirm(q, l)
             \/ \E m \in Message, type \in EventTypes : emailWebhook(q, m, type)
    <3>1. rcpt' = rcpt
      BY <2>5 DEF sendVerification, refuse, create, resendVerification, publicVerify,
                  publicUnsubscribeConfirm, openPage, emailWebhook, recordEvent, lookupRecipient,
                  updateDeliveries, crashRequest
    <3> QED
      BY <2>1, <3>1
  <2> QED
    BY <2>2, <2>3, <2>4, <2>5 DEF OtherRequest, arrive
<1>4. \A i \in Ids : /\ delivery'[i] \in Accepted => delivery[i] \in Accepted
                     /\ delivery[i] = "delivered" /\ rcpt'[i].state = "live"
                          => delivery'[i] = "delivered"
  <2>1. CASE \E i \in Ids : remove(q, i)
    BY <2>1 DEF remove, TypeOK, Recipient, Accepted
  <2>2. CASE updateDeliveries(q)
    BY <2>2 DEF updateDeliveries, TypeOK, Accepted
  <2>3. CASE /\ ~updateDeliveries(q)
             /\ ~\E i \in Ids : remove(q, i)
    <3>1. delivery' = delivery
      BY <2>3 DEF OtherRequest, arrive, create, resendVerification, setSuppressed, publicVerify,
                  publicUnsubscribeConfirm, openPage, emailWebhook, sendVerification, refuse, confirm,
                  stop, insertRecipient, recordEvent, lookupRecipient, suppressRecipient, crashRequest
    <3> QED
      BY <3>1
  <2> QED
    BY <2>1, <2>2, <2>3
<1> QED
  BY <1>1, <1>2, <1>3, <1>4

LEMMA StepOwnRows == TypeOK /\ OwnRows /\ Fresh /\ [Next]_vars => OwnRows' /\ Fresh'
<1> SUFFICES ASSUME TypeOK, OwnRows, Fresh, [Next]_vars PROVE OwnRows' /\ Fresh'
  OBVIOUS
<1> USE DEF tables, sends, histories
<1>1. ASSUME NEW q \in Requests,
             \/ OtherRequest(q) \/ recordEvent(q) \/ lookupRecipient(q)
             \/ updateDeliveries(q) \/ suppressRecipient(q) \/ crashRequest(q)
      PROVE  OwnRows' /\ Fresh'
  <2>1. sender' = sender /\ (faults' = 0 => faults = 0)
    BY <1>1, RequestsSpareSends
  <2>2. \A i \in Ids : /\ SameReader(rcpt[i], rcpt'[i])
                       /\ delivery'[i] \in Accepted => delivery[i] \in Accepted
    BY <1>1, RequestsSpareSends
  <2>3. \A w \in Workspaces :
          RowsOf(w) \subseteq {i \in Ids : rcpt'[i].state # "unused" /\ rcpt'[i].workspace = w}
    BY <2>2 DEF RowsOf, SameReader
  <2>4. OwnRows'
    BY <2>1, <2>3 DEF OwnRows, RowsOf, Mailing
  <2>5. \A w \in Workspaces : sender[w].current \in Ids
    BY DEF TypeOK, Sender
  <2>6. Fresh'
    BY <2>1, <2>2, <2>5 DEF Fresh, Mailing, Accepted
  <2> QED
    BY <2>4, <2>6
<1>2. ASSUME NEW w \in Workspaces, listRecipients(w) \/ endRun(w)
      PROVE  OwnRows' /\ Fresh'
  <2>1. Deliverable(w) \subseteq RowsOf(w)
    BY DEF Deliverable, RowsOf, Live
  <2>2. rcpt' = rcpt /\ delivery' = delivery /\ faults' = faults
    BY <1>2 DEF listRecipients, endRun
  <2>3. \/ sender' = [sender EXCEPT ![w] = Idle]
        \/ sender' = [sender EXCEPT ![w].stage = "next", ![w].todo = Deliverable(w)]
    BY <1>2 DEF listRecipients, endRun
  <2>4. /\ sender'[w].todo \subseteq RowsOf(w) /\ ~Mailing(sender'[w])
        /\ \A v \in Workspaces \ {w} : sender'[v] = sender[v]
    BY <2>1, <2>3 DEF Idle, Mailing, TypeOK, Sender
  <2> QED
    BY <2>2, <2>4 DEF OwnRows, Fresh, RowsOf, Mailing
<1>3. ASSUME NEW w \in Workspaces, NEW i \in Ids, nextRecipient(w, i)
      PROVE  OwnRows' /\ Fresh'
  <2>1. rcpt' = rcpt /\ delivery' = delivery /\ i \in sender[w].todo /\ sender[w].stage = "next"
    BY <1>3 DEF nextRecipient
  <2>2. \A v \in Workspaces \ {w} : sender'[v] = sender[v]
    BY <1>3 DEF nextRecipient, TypeOK
  <2>3. CASE NoFault /\ sender' = [sender EXCEPT ![w].todo = @ \ {i}]
    <3>1. sender'[w].todo \subseteq sender[w].todo /\ ~Mailing(sender'[w])
      BY <2>1, <2>3 DEF TypeOK, Sender, Mailing
    <3> QED
      BY <2>1, <2>2, <2>3, <3>1 DEF OwnRows, Fresh, RowsOf, Mailing, NoFault
  <2>4. CASE /\ sender' = [sender EXCEPT ![w].stage = "mail", ![w].current = i]
             /\ (delivery[i] \notin Accepted /\ NoFault) \/ Fault("db")
    <3>1. sender'[w].todo = sender[w].todo /\ sender'[w].current = i
      BY <2>4 DEF TypeOK, Sender
    <3>2. OwnRows'
      BY <2>1, <2>2, <3>1 DEF OwnRows, RowsOf, Mailing
    <3>3. faults' = 0 => faults = 0 /\ delivery[i] \notin Accepted
      BY <2>4 DEF NoFault, Fault, TypeOK
    <3>4. Fresh'
      BY <2>1, <2>2, <3>1, <3>3 DEF Fresh, Mailing, Accepted
    <3> QED
      BY <3>2, <3>4
  <2> QED
    BY <1>3, <2>3, <2>4 DEF nextRecipient, Accepted
<1>4. ASSUME NEW w \in Workspaces, mailSend(w)
      PROVE  OwnRows' /\ Fresh'
  <2>1. rcpt' = rcpt /\ delivery' = delivery /\ faults' = faults /\ Mailing(sender[w])
    BY <1>4 DEF mailSend, Mailing
  <2>2. \A v \in Workspaces : /\ sender'[v].todo = sender[v].todo
                              /\ sender'[v].current = sender[v].current
                              /\ v # w => sender'[v] = sender[v]
    BY <1>4 DEF mailSend, TypeOK, Sender
  <2> QED
    BY <2>1, <2>2 DEF OwnRows, Fresh, RowsOf, Mailing
<1>5. ASSUME NEW w \in Workspaces, recordDelivery(w)
      PROVE  OwnRows' /\ Fresh'
  <2> DEFINE i == sender[w].current
  <2>1. rcpt' = rcpt /\ Mailing(sender[w]) /\ (faults' = 0 => faults = 0)
    BY <1>5 DEF recordDelivery, Mailing, NoFault, Fault, TypeOK
  <2>2. /\ sender'[w].todo \subseteq sender[w].todo /\ ~Mailing(sender'[w])
        /\ \A v \in Workspaces \ {w} : sender'[v] = sender[v]
    BY <1>5 DEF recordDelivery, TypeOK, Sender, Mailing
  <2>3. \A j \in Ids : j # i => delivery'[j] = delivery[j]
    BY <1>5 DEF recordDelivery, TypeOK
  <2>4. \A v \in Workspaces \ {w} : Mailing(sender[v]) => sender[v].current # i
    BY <2>1 DEF OwnRows, RowsOf
  <2>5. \A v \in Workspaces : sender[v].current \in Ids
    BY DEF TypeOK, Sender
  <2>6. OwnRows'
    BY <2>1, <2>2 DEF OwnRows, RowsOf, Mailing
  <2>7. Fresh'
    BY <2>1, <2>2, <2>3, <2>4, <2>5 DEF Fresh, Mailing, Accepted
  <2> QED
    BY <2>6, <2>7
<1>6. CASE (\E l \in links : expire(l)) \/ UNCHANGED vars
  BY <1>6 DEF expire, vars, OwnRows, Fresh, RowsOf, Mailing, Accepted
<1> QED
  BY <1>1, <1>2, <1>3, <1>4, <1>5, <1>6, StepKinds DEF send

(* While nothing fails, a delivery the provider confirmed stays confirmed:  *)
(* recordDelivery comes late only for rows with no accepted mail.          *)
THEOREM DeliveredStays == Spec => DeliveredIsFinal
<1> DEFINE Keeps == \A i \in Ids : faults' = 0 /\ delivery[i] = "delivered" /\ rcpt'[i].state = "live"
                                     => delivery'[i] = "delivered"
<1>1. ASSUME Init PROVE OwnRows /\ Fresh
  <2>1. \A w \in Workspaces : sender[w].todo = {} /\ sender[w].stage = "idle"
    BY <1>1 DEF Init, Idle
  <2> QED
    BY <2>1 DEF OwnRows, Fresh, Mailing
<1>2. TypeOK /\ Fresh /\ [Next]_vars => Keeps
  <2> SUFFICES ASSUME TypeOK, Fresh, [Next]_vars PROVE Keeps
    OBVIOUS
  <2>1. ASSUME NEW q \in Requests,
               \/ OtherRequest(q) \/ recordEvent(q) \/ lookupRecipient(q)
               \/ updateDeliveries(q) \/ suppressRecipient(q) \/ crashRequest(q)
        PROVE  Keeps
    BY <2>1, RequestsSpareSends
  <2>2. ASSUME NEW w \in Workspaces, recordDelivery(w)
        PROVE  Keeps
    <3>1. \A i \in Ids : i # sender[w].current => delivery'[i] = delivery[i]
      BY <2>2 DEF recordDelivery, TypeOK
    <3>2. Mailing(sender[w]) /\ (faults' = 0 => faults = 0)
      BY <2>2 DEF recordDelivery, Mailing, NoFault, Fault, TypeOK
    <3>3. faults' = 0 => delivery[sender[w].current] # "delivered"
      BY <3>2 DEF Fresh, Accepted
    <3> QED
      BY <3>1, <3>3
  <2>3. ASSUME NEW w \in Workspaces,
               \/ listRecipients(w) \/ mailSend(w) \/ endRun(w)
               \/ \E i \in Ids : nextRecipient(w, i)
        PROVE  Keeps
    BY <2>3 DEF listRecipients, mailSend, endRun, nextRecipient, tables
  <2>4. CASE (\E l \in links : expire(l)) \/ UNCHANGED vars
    BY <2>4 DEF expire, vars, tables
  <2> QED
    BY <2>1, <2>2, <2>3, <2>4, StepKinds DEF send
<1>3. TypeOK /\ Fresh /\ [Next]_vars => [Keeps]_vars
  BY <1>2
<1> QED
  BY <1>1, <1>3, StepOwnRows, RecipientsTyped, PTL DEF Spec, DeliveredIsFinal
-----------------------------------------------------------------------------
(* Drops.  With an id of its own for each event, and while nothing fails,  *)
(* an event that was recorded has been applied or is in hand.              *)
Traced == OwnEventId /\ faults = 0 =>
            \A e \in events : e \in applied \/ \E q \in Requests : Handling(req[q]) /\ Told(req[q]) = e

LEMMA FaultsGrow ==
  ASSUME TypeOK, NoFault \/ Fault("db") \/ Fault("crash")
  PROVE  faults' = 0 => faults = 0
BY DEF TypeOK, NoFault, Fault

(* A step that puts an event down applies it, and what it records is in     *)
(* hand afterwards.                                                        *)
LEMMA TracedKept ==
  ASSUME Traced, faults' = 0 => faults = 0, applied \subseteq applied',
         faults' = 0 => \A q \in Requests : Handling(req[q]) =>
            Told(req[q]) \in applied' \/ (Handling(req'[q]) /\ Told(req'[q]) = Told(req[q])),
         OwnEventId => \A e \in events' \ events :
            \E q \in Requests : Handling(req'[q]) /\ Told(req'[q]) = e
  PROVE  Traced'
<1> SUFFICES ASSUME OwnEventId, faults' = 0, NEW e \in events'
             PROVE  e \in applied' \/ \E q \in Requests : Handling(req'[q]) /\ Told(req'[q]) = e
  BY DEF Traced, Handling, Told
<1>1. CASE e \notin events
  BY <1>1
<1>2. CASE e \in events
  BY <1>2 DEF Traced
<1> QED
  BY <1>1, <1>2

LEMMA StepTraced == TypeOK /\ Traced /\ [Next]_vars => Traced'
<1> SUFFICES ASSUME TypeOK, Traced, [Next]_vars PROVE Traced'
  OBVIOUS
<1> USE DEF tables, sends, histories
<1>1. ASSUME NEW q \in Requests, OtherRequest(q)
      PROVE  Traced'
  <2>1. \A p \in Requests : Handling(req[p]) => Handling(req'[p]) /\ Told(req'[p]) = Told(req[p])
    BY <1>1, HandlingElsewhere
  <2>2. events' = events /\ applied' = applied
    BY <1>1, HandlingElsewhere
  <2>3. arrive(q) => NoFault
    BY DEF arrive, create, resendVerification, remove, setSuppressed, publicVerify,
           publicUnsubscribeConfirm, openPage, emailWebhook, Begin
  <2>4. ~arrive(q) => NoFault \/ Fault("db")
    BY <1>1 DEF OtherRequest, sendVerification, refuse, confirm, stop, insertRecipient
  <2>5. faults' = 0 => faults = 0
    BY <2>3, <2>4, FaultsGrow
  <2> QED
    BY <2>1, <2>2, <2>5, TracedKept
<1>2. ASSUME NEW q \in Requests, recordEvent(q)
      PROVE  Traced'
  <2>1. /\ ~Handling(req[q]) /\ applied' = applied /\ (faults' = 0 => faults = 0)
        /\ OwnEventId => externalId(q) = Told(req[q])
    BY <1>2 DEF recordEvent, At, Handling, externalId, Told, NoFault, Fault, TypeOK
  <2>2. \A p \in Requests \ {q} : req'[p] = req[p]
    BY <1>2 DEF recordEvent, Done, Stage, TypeOK
  <2>3. ASSUME NEW e \in events' \ events
        PROVE  e = externalId(q) /\ Handling(req'[q]) /\ Told(req'[q]) = Told(req[q])
    BY <1>2, <2>3 DEF recordEvent, Stage, Handling, Told, TypeOK, Request
  <2> QED
    BY <2>1, <2>2, <2>3, TracedKept
<1>3. ASSUME NEW q \in Requests, lookupRecipient(q) \/ updateDeliveries(q) \/ suppressRecipient(q)
      PROVE  Traced'
  <2>1. events' = events /\ applied \subseteq applied'
    BY <1>3 DEF lookupRecipient, updateDeliveries, suppressRecipient
  <2>2. \A p \in Requests \ {q} : req'[p] = req[p]
    BY <1>3 DEF lookupRecipient, updateDeliveries, suppressRecipient, Done, Stage, TypeOK
  <2>3. occurrence(q) = Told(req[q])
    BY DEF occurrence, Told
  <2>4. \/ faults' = faults + 1
        \/ faults' = faults /\ occurrence(q) \in applied'
        \/ faults' = faults /\ Handling(req'[q]) /\ Told(req'[q]) = Told(req[q])
    <3>1. CASE lookupRecipient(q)
      BY <1>3, <3>1 DEF lookupRecipient, NoFault, Fault, Handling, Told, TypeOK, Request
    <3>2. CASE updateDeliveries(q)
      BY <1>3, <3>2 DEF updateDeliveries, NoFault, Fault, Stage, Handling, Told, TypeOK, Request
    <3>3. CASE suppressRecipient(q)
      BY <1>3, <3>3 DEF suppressRecipient, NoFault, Fault
    <3> QED
      BY <1>3, <3>1, <3>2, <3>3
  <2>5. faults' = 0 => faults = 0 /\ faults' # faults + 1
    BY <2>4 DEF TypeOK
  <2> QED
    BY <2>1, <2>2, <2>3, <2>4, <2>5, TracedKept
<1>4. ASSUME NEW q \in Requests, crashRequest(q)
      PROVE  Traced'
  <2>1. faults' # 0 /\ events' = events /\ applied' = applied
    BY <1>4 DEF crashRequest, Fault, TypeOK
  <2> QED
    BY <2>1, TracedKept
<1>5. CASE (\E w \in Workspaces : send(w)) \/ (\E l \in links : expire(l)) \/ UNCHANGED vars
  <2>1. req' = req /\ events' = events /\ applied' = applied
    BY <1>5, SendElsewhere
  <2>2. NoFault \/ Fault("db")
    BY <1>5 DEF send, listRecipients, nextRecipient, mailSend, recordDelivery, endRun, expire,
                vars, NoFault
  <2>3. faults' = 0 => faults = 0
    BY <2>2, FaultsGrow
  <2> QED
    BY <2>1, <2>3, TracedKept
<1> QED
  BY <1>1, <1>2, <1>3, <1>4, <1>5, StepKinds

-----------------------------------------------------------------------------
(* Complaints.  When the provider names its events, and while nothing      *)
(* fails, a recipient whose mail had a final event is live, and the event   *)
(* went elsewhere, or has suppressed the row or is about to.               *)
Heard(r, i, e) ==
  /\ r.type \in suppressEvents
  /\ \/ r.stage = "lookup" /\ r.message.id = i /\ r.email = e
     \/ r.stage \in {"status", "suppress"} /\ r.found = i

Caring ==
  OwnEventId /\ faults = 0 =>
    \A i \in complained :
      /\ Live(i)
      /\ i \notin misdirected =>
            rcpt[i].suppressed \/ \E q \in Requests : Heard(req[q], i, rcpt[i].email)

LEMMA CaringKept ==
  ASSUME TypeOK, Caring, faults' = 0 => faults = 0, complained' \subseteq complained,
         misdirected \subseteq misdirected',
         \A i \in complained' :
            Live(i) => /\ rcpt'[i].state = "live" /\ rcpt'[i].email = rcpt[i].email
                       /\ rcpt[i].suppressed => rcpt'[i].suppressed,
         \A i \in complained', e \in Emails, q \in Requests :
            Heard(req[q], i, e) => rcpt'[i].suppressed \/ Heard(req'[q], i, e)
  PROVE  Caring'
<1> SUFFICES ASSUME OwnEventId, faults' = 0, NEW i \in complained'
             PROVE  /\ rcpt'[i].state = "live"
                    /\ i \notin misdirected' =>
                         \/ rcpt'[i].suppressed
                         \/ \E q \in Requests : Heard(req'[q], i, rcpt'[i].email)
  BY DEF Caring, Heard, Live
<1>1. /\ Live(i)
      /\ i \notin misdirected =>
           rcpt[i].suppressed \/ \E q \in Requests : Heard(req[q], i, rcpt[i].email)
  BY DEF Caring
<1>2. rcpt[i].email \in Emails
  BY DEF TypeOK, Recipient
<1> QED
  BY <1>1, <1>2

LEMMA StepCaring == TypeOK /\ Traced /\ Caring /\ [Next]_vars => Caring'
<1> SUFFICES ASSUME TypeOK, Traced, Caring, [Next]_vars PROVE Caring'
  OBVIOUS
<1> USE DEF tables, sends, histories
<1>1. ASSUME NEW q \in Requests, OtherRequest(q)
      PROVE  Caring'
  <2>1. /\ \A p \in Requests, i \in complained', e \in Emails :
              Heard(req[p], i, e) => Heard(req'[p], i, e)
        /\ misdirected' = misdirected
    BY <1>1, HandlingElsewhere DEF Heard, Handling
  <2>2. CASE \E i \in Ids : remove(q, i)
    <3>1. PICK i \in Ids : remove(q, i)
      BY <2>2
    <3>2. faults' = faults /\ complained' = complained \ {i}
      BY <3>1 DEF remove, Begin, NoFault
    <3>3. \A j \in complained' : rcpt'[j] = rcpt[j]
      BY <3>1, <3>2 DEF remove, TypeOK
    <3> QED
      BY <2>1, <3>2, <3>3, CaringKept DEF Live
  <2>3. CASE \E i \in Ids, b \in BOOLEAN : setSuppressed(q, i, b)
    <3>1. PICK i \in Ids, b \in BOOLEAN : setSuppressed(q, i, b)
      BY <2>3
    <3>2. /\ faults' = faults /\ complained' \subseteq complained
          /\ ~b => i \notin complained'
      BY <3>1 DEF setSuppressed, Begin, NoFault
    <3>3. \A j \in complained' : /\ rcpt'[j].state = rcpt[j].state /\ rcpt'[j].email = rcpt[j].email
                                 /\ rcpt[j].suppressed => rcpt'[j].suppressed
      BY <3>1, <3>2 DEF setSuppressed, TypeOK, Recipient
    <3> QED
      BY <2>1, <3>2, <3>3, CaringKept DEF Live
  <2>4. CASE \E i \in Ids : insertRecipient(q, i)
    <3>1. PICK i \in Ids : insertRecipient(q, i)
      BY <2>4
    <3>2. complained' = complained /\ (faults' = 0 => faults = 0)
      BY <3>1 DEF insertRecipient, NoFault, Fault, TypeOK
    <3>3. \A j \in complained' : Live(j) => rcpt'[j] = rcpt[j]
      BY <3>1, <3>2 DEF insertRecipient, TypeOK, Live
    <3> QED
      BY <2>1, <3>2, <3>3, CaringKept DEF Live
  <2>5. CASE confirm(q) \/ stop(q)
    <3>1. complained' = complained /\ (faults' = 0 => faults = 0)
      BY <2>5 DEF confirm, stop, NoFault, Fault, TypeOK
    <3>2. \A j \in complained' : /\ rcpt'[j].state = rcpt[j].state /\ rcpt'[j].email = rcpt[j].email
                                 /\ rcpt[j].suppressed => rcpt'[j].suppressed
      <4>1. rcpt \in [Ids -> Recipient] /\ complained \subseteq Ids
        BY DEF TypeOK
      <4>2. \/ rcpt' = rcpt
            \/ \E i : \/ rcpt' = [rcpt EXCEPT ![i] = [rcpt[i] EXCEPT !.verified = TRUE]]
                     \/ rcpt' = [rcpt EXCEPT ![i] = [rcpt[i] EXCEPT !.suppressed = TRUE]]
        BY <2>5 DEF confirm, stop, update
      <4>3. CASE \E i : \/ rcpt' = [rcpt EXCEPT ![i] = [rcpt[i] EXCEPT !.verified = TRUE]]
                       \/ rcpt' = [rcpt EXCEPT ![i] = [rcpt[i] EXCEPT !.suppressed = TRUE]]
        BY <3>1, <4>1, <4>3 DEF Recipient
      <4> QED
        BY <3>1, <4>2, <4>3
    <3> QED
      BY <2>1, <3>1, <3>2, CaringKept DEF Live
  <2>6. CASE \/ sendVerification(q) \/ refuse(q)
             \/ \E w \in Workspaces, e \in Emails : create(q, w, e)
             \/ \E i \in Ids : resendVerification(q, i)
             \/ \E l \in links : publicVerify(q, l) \/ publicUnsubscribeConfirm(q, l)
             \/ \E m \in Message, type \in EventTypes : emailWebhook(q, m, type)
    <3>1. rcpt' = rcpt /\ complained' = complained /\ faults' = faults
      BY <2>6 DEF sendVerification, refuse, create, resendVerification, publicVerify,
                  publicUnsubscribeConfirm, openPage, emailWebhook, Begin, NoFault
    <3> QED
      BY <2>1, <3>1, CaringKept DEF Live
  <2> QED
    BY <1>1, <2>2, <2>3, <2>4, <2>5, <2>6 DEF OtherRequest, arrive
(* A complaint that is recorded is in hand; none is dropped, since what is  *)
(* dropped is a replay (Traced).                                           *)
<1>2. ASSUME NEW q \in Requests, recordEvent(q)
      PROVE  Caring'
  <2> DEFINE mailed == req[q].message.id
  <2>1. /\ rcpt' = rcpt /\ misdirected' = misdirected /\ (faults' = 0 => faults = 0)
        /\ req[q].stage = "record"
    BY <1>2 DEF recordEvent, NoFault, Fault, TypeOK, At
  <2>2. \A p \in Requests, i \in Ids, e \in Emails : Heard(req[p], i, e) => Heard(req'[p], i, e)
    BY <1>2 DEF recordEvent, Done, Stage, At, Heard, TypeOK
  <2>3. CASE complained' = complained
    BY <2>1, <2>2, <2>3, CaringKept DEF Live, TypeOK
  <2>4. CASE complained' # complained
    <3>1. /\ Final(q) /\ ~Replay(q) /\ mailed \in WithEmail(req[q].email)
          /\ complained' = complained \union {mailed}
      BY <1>2, <2>4 DEF recordEvent, Complaint
    <3>2. OwnEventId /\ faults = 0 => externalId(q) \notin events
      BY <3>1 DEF Traced, Replay, Applying, Handling, Told, occurrence, externalId
    <3>3. OwnEventId /\ faults' = 0 => Stage(q, "lookup")
      BY <1>2, <2>1, <2>4, <3>2 DEF recordEvent
    <3>4. Stage(q, "lookup") => Heard(req'[q], mailed, rcpt[mailed].email) /\ Live(mailed)
      BY <3>1 DEF Heard, Final, Stage, WithEmail, TypeOK, Request
    <3> SUFFICES ASSUME OwnEventId, faults' = 0, NEW i \in complained'
                 PROVE  /\ Live(i)
                        /\ i \notin misdirected =>
                             rcpt[i].suppressed \/ \E p \in Requests : Heard(req'[p], i, rcpt[i].email)
      BY <2>1 DEF Caring, Heard, Live
    <3>5. CASE i = mailed
      BY <3>3, <3>4, <3>5
    <3>6. CASE i \in complained
      <4>1. i \in Ids /\ rcpt[i].email \in Emails
        BY <3>6 DEF TypeOK, Recipient
      <4> QED
        BY <2>1, <2>2, <3>6, <4>1 DEF Caring
    <3> QED
      BY <3>1, <3>5, <3>6
  <2> QED
    BY <2>3, <2>4
(* The event goes on to the row it was for, or is misdirected.             *)
<1>3. ASSUME NEW q \in Requests, lookupRecipient(q)
      PROVE  Caring'
  <2> DEFINE e == req[q].email
             mailed == req[q].message.id
  <2>1. /\ rcpt' = rcpt /\ complained' = complained /\ req[q].stage = "lookup"
        /\ \A p \in Requests \ {q} : req'[p] = req[p]
    BY <1>3 DEF lookupRecipient, At, Done, TypeOK
  <2>2. faults' = 0 => faults = 0 /\ NoFault
    BY <1>3 DEF lookupRecipient, NoFault, Fault, TypeOK
  <2>3. CASE NoFault /\ Final(q) /\ WithEmail(e) # {}
    <3>1. /\ req' = [req EXCEPT ![q].stage = "status", ![q].found = First(e)]
          /\ misdirected' = IF First(e) = mailed THEN misdirected \ {mailed}
                            ELSE misdirected \union {mailed}
      BY <1>3, <2>3 DEF lookupRecipient, Final, suppressEvents, NoFault, Fault, TypeOK
    <3>2. Heard(req'[q], First(e), rcpt[First(e)].email)
      BY <2>3, <3>1 DEF Heard, Final, TypeOK, Request
    <3> SUFFICES ASSUME OwnEventId, faults' = 0, NEW i \in complained
                 PROVE  /\ Live(i)
                        /\ i \notin misdirected' =>
                             rcpt[i].suppressed \/ \E p \in Requests : Heard(req'[p], i, rcpt[i].email)
      BY <2>1 DEF Caring, Heard, Live
    <3>3. /\ Live(i)
          /\ i \notin misdirected =>
               rcpt[i].suppressed \/ \E p \in Requests : Heard(req[p], i, rcpt[i].email)
      BY <2>2 DEF Caring
    <3>4. CASE i = mailed
      BY <3>1, <3>2, <3>3, <3>4
    <3>5. CASE i # mailed
      <4>1. ~Heard(req[q], i, rcpt[i].email)
        BY <2>1, <3>5 DEF Heard
      <4> QED
        BY <2>1, <3>1, <3>3, <3>5, <4>1
    <3> QED
      BY <3>4, <3>5
  <2>4. CASE ~(Final(q) /\ WithEmail(e) # {})
    <3>1. misdirected' = misdirected
      BY <1>3, <2>4 DEF lookupRecipient
    <3>2. \A i \in complained : Live(i) => ~Heard(req[q], i, rcpt[i].email)
      BY <2>1, <2>4 DEF Heard, Final, WithEmail, Live, TypeOK
    <3> SUFFICES ASSUME OwnEventId, faults' = 0, NEW i \in complained
                 PROVE  /\ Live(i)
                        /\ i \notin misdirected =>
                             rcpt[i].suppressed \/ \E p \in Requests : Heard(req'[p], i, rcpt[i].email)
      BY <2>1, <3>1 DEF Caring, Heard, Live
    <3>3. /\ Live(i)
          /\ i \notin misdirected =>
               rcpt[i].suppressed \/ \E p \in Requests : Heard(req[p], i, rcpt[i].email)
      BY <2>2 DEF Caring
    <3> QED
      BY <2>1, <3>2, <3>3
  <2>5. CASE ~NoFault
    BY <2>2, <2>5 DEF Caring
  <2> QED
    BY <2>3, <2>4, <2>5
<1>4. ASSUME NEW q \in Requests, updateDeliveries(q)
      PROVE  Caring'
  <2>1. rcpt' = rcpt /\ complained' = complained /\ misdirected' = misdirected
    BY <1>4 DEF updateDeliveries
  <2>2. CASE NoFault
    <3>1. \A p \in Requests, i \in Ids, e \in Emails : Heard(req[p], i, e) => Heard(req'[p], i, e)
      BY <1>4, <2>2
         DEF updateDeliveries, Done, Stage, At, Final, Heard, TypeOK, Request, NoFault, Fault
    <3> QED
      BY <2>1, <2>2, <3>1, CaringKept DEF Live, NoFault, TypeOK
  <2>3. CASE ~NoFault
    BY <1>4, <2>3 DEF updateDeliveries, Fault, Caring, TypeOK
  <2> QED
    BY <2>2, <2>3
<1>5. ASSUME NEW q \in Requests, suppressRecipient(q)
      PROVE  Caring'
  <2> DEFINE i == req[q].found
  <2>1. /\ complained' = complained /\ misdirected' = misdirected /\ i \in Ids
        /\ req[q].stage = "suppress"
    BY <1>5 DEF suppressRecipient, TypeOK, Request, At
  <2>2. CASE NoFault /\ update(i, [rcpt[i] EXCEPT !.suppressed = TRUE])
    <3>1. \A j \in complained' : Live(j) => /\ rcpt'[j].state = "live"
                                            /\ rcpt'[j].email = rcpt[j].email
                                            /\ rcpt[j].suppressed => rcpt'[j].suppressed
                                            /\ j = i => rcpt'[j].suppressed
      BY <2>1, <2>2 DEF update, Live, TypeOK, Recipient
    <3>2. \A p \in Requests \ {q} : req'[p] = req[p]
      BY <1>5 DEF suppressRecipient, Done, TypeOK
    <3> SUFFICES ASSUME OwnEventId, faults' = 0, NEW j \in complained
                 PROVE  /\ rcpt'[j].state = "live"
                        /\ j \notin misdirected =>
                             \/ rcpt'[j].suppressed
                             \/ \E p \in Requests : Heard(req'[p], j, rcpt'[j].email)
      BY <2>1 DEF Caring, Heard, Live
    <3>3. /\ Live(j)
          /\ j \notin misdirected =>
               rcpt[j].suppressed \/ \E p \in Requests : Heard(req[p], j, rcpt[j].email)
      BY <2>2 DEF Caring, NoFault
    <3>4. Heard(req[q], j, rcpt[j].email) => j = i
      BY <2>1 DEF Heard
    <3> QED
      BY <2>1, <3>1, <3>2, <3>3, <3>4
  <2>3. CASE Fault("db")
    BY <2>3 DEF Fault, Caring, TypeOK
  <2> QED
    BY <1>5, <2>2, <2>3 DEF suppressRecipient
<1>6. ASSUME NEW q \in Requests, crashRequest(q)
      PROVE  Caring'
  BY <1>6 DEF crashRequest, Fault, Caring, TypeOK
<1>7. CASE (\E w \in Workspaces : send(w)) \/ (\E l \in links : expire(l)) \/ UNCHANGED vars
  <2>1. faults' = faults \/ \E kind \in {"db"} : Fault(kind)
    BY <1>7 DEF send, listRecipients, nextRecipient, mailSend, recordDelivery, endRun, expire, vars,
                NoFault
  <2>2. faults' = 0 => faults = 0
    BY <2>1 DEF Fault, TypeOK
  <2> QED
    BY <1>7, <2>2, SendElsewhere, CaringKept DEF Live
<1> QED
  BY <1>1, <1>2, <1>3, <1>4, <1>5, <1>6, <1>7, StepKinds

(* When the provider names its events, and while nothing fails, the         *)
(* recipient of a mail with a hard bounce, a complaint or an unsubscription *)
(* is suppressed or about to be (suppressEvents), unless another row with  *)
(* the address was found in its place.                                     *)
THEOREM ComplaintsSuppress == OwnEventId => (Spec => []FinalEventSuppresses)
<1> SUFFICES ASSUME OwnEventId PROVE Spec => []FinalEventSuppresses
  OBVIOUS
<1>1. Init => Traced /\ Caring
  BY DEF Init, Traced, Caring
<1>2. Caring => FinalEventSuppresses
  <2> SUFFICES ASSUME Caring, faults = 0, NEW i \in complained \ misdirected PROVE Remembered(i)
    BY DEF FinalEventSuppresses
  <2>1. rcpt[i].suppressed \/ \E q \in Requests : Heard(req[q], i, rcpt[i].email)
    BY DEF Caring
  <2> QED
    BY <2>1 DEF Remembered, Heard, Final, At
<1> QED
  BY <1>1, <1>2, StepTraced, StepCaring, RecipientsTyped, PTL DEF Spec
=============================================================================
