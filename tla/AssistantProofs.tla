--------------------------- MODULE AssistantProofs ---------------------------
(***************************************************************************)
(* What the assistant chat promises for every number of threads, messages,  *)
(* faults and changes of the thread: the order of its writes whatever       *)
(* happens, the two steps that may take a decision back, and, while nothing *)
(* unfinished is crossed, that nothing said is lost and that the stop       *)
(* button works.                                                           *)
(***************************************************************************)
EXTENDS Assistant, TLAPS

(* What the variables hold while the ids below n are given out.            *)
Msgs(n) ==
  {m \in [id : 1..(n - 1), role : {"user", "assistant", "tool"}, text : BOOLEAN, live : BOOLEAN,
          card : Cards \union {"none"}, status : Statuses, answers : Nat] :
     m.card = "none" <=> m.status = "none"}

(* An id occurs once in a list. *)
Once(l) == \A i, j \in DOMAIN l : l[i].id = l[j].id => i = j
Lists(n) == {l \in Seq(Msgs(n)) : Once(l)}

Puts(n) == [thread : Threads, list : Lists(n), for : 0..(n - 1)]
Streams(n) ==
  [copy : Msgs(n), thread : Conversations, owner : Cards \union {"user"}, persist : BOOLEAN,
   aborted : BOOLEAN, stage : {"open", "saving"}]
Works(n) ==
  [stage : {"none", "acting", "saving", "telling", "streaming"}, msg : 0..(n - 1),
   thread : Conversations, persist : BOOLEAN]
Tabs(n) ==
  [thread : Conversations, msgs : Lists(n), persist : BOOLEAN, loading : BOOLEAN,
   streaming : BOOLEAN, error : BOOLEAN, ctrl : 0..(n - 1)]
Changings(n) ==
  {c \in [kind : {"none", "init", "load", "new", "got"}, thread : Threads \union {NoThread},
          got : Lists(n)] :
     c.kind \in {"load", "got"} <=> c.thread \in Threads}

Typed ==
  /\ nextId \in Nat \ {0} /\ faults \in Nat /\ changes \in Nat
  /\ unsure \subseteq Threads /\ crossed \in BOOLEAN
  /\ exists \subseteq Threads /\ active \in Conversations
  /\ rows \in [Threads -> Lists(nextId)] /\ last \in [Threads -> Lists(nextId)]
  /\ saved \in Lists(nextId)
  /\ tab \in Tabs(nextId)
  /\ streams \subseteq Streams(nextId)
  /\ chain \in Seq(Puts(nextId)) /\ orphan \in Seq(Puts(nextId))
  /\ work \in [Cards -> Works(nextId)]
  /\ changing \in Changings(nextId)

-----------------------------------------------------------------------------
(* The lists of messages.                                                  *)

(* What was well formed stays so when more ids are given out.              *)
LEMMA MsgsGrow ==
  ASSUME NEW n \in Nat, NEW k \in Nat, n <= k
  PROVE  Msgs(n) \subseteq Msgs(k)
BY DEF Msgs

LEMMA ListsGrow ==
  ASSUME NEW n \in Nat, NEW k \in Nat, n <= k
  PROVE  Lists(n) \subseteq Lists(k)
<1>1. SUFFICES ASSUME NEW l \in Lists(n) PROVE l \in Seq(Msgs(k))
  BY DEF Lists
<1> QED
  BY MsgsGrow DEF Lists

LEMMA PutsGrow ==
  ASSUME NEW n \in Nat, NEW k \in Nat, n <= k
  PROVE  Puts(n) \subseteq Puts(k) /\ Seq(Puts(n)) \subseteq Seq(Puts(k))
<1>1. Puts(n) \subseteq Puts(k)
  BY ListsGrow DEF Puts
<1>2. ASSUME NEW l \in Seq(Puts(n)) PROVE l \in Seq(Puts(k))
  BY <1>1
<1> QED
  BY <1>1, <1>2

LEMMA OthersGrow ==
  ASSUME NEW n \in Nat, NEW k \in Nat, n <= k
  PROVE  /\ Streams(n) \subseteq Streams(k)
         /\ Works(n) \subseteq Works(k)
         /\ Tabs(n) \subseteq Tabs(k)
         /\ Changings(n) \subseteq Changings(k)
<1>1. Streams(n) \subseteq Streams(k)
  BY MsgsGrow DEF Streams
<1>2. Works(n) \subseteq Works(k)
  BY DEF Works
<1>3. Tabs(n) \subseteq Tabs(k)
  BY ListsGrow DEF Tabs
<1>4. Changings(n) \subseteq Changings(k)
  BY ListsGrow DEF Changings
<1> QED
  BY <1>1, <1>2, <1>3, <1>4

LEMMA EmptyList == ASSUME NEW n \in Nat PROVE <<>> \in Lists(n)
BY DEF Lists, Once

(* A new message is the last of its list.                                  *)
LEMMA Appended ==
  ASSUME NEW n \in Nat \ {0}, NEW l \in Lists(n), NEW role \in {"user", "assistant", "tool"},
         NEW a \in Nat
  PROVE  /\ Said(n, role, a) \in Msgs(n + 1)
         /\ Said(n, role, a).card = "none" /\ Said(n, role, a).id = n
         /\ Said(n, role, a).role = role
         /\ Append(l, Said(n, role, a)) \in Lists(n + 1)
<1> DEFINE m == Said(n, role, a)
<1>1. m \in Msgs(n + 1) /\ m.card = "none" /\ m.id = n /\ m.role = role
  BY DEF Msgs, Said, Statuses
<1>2. l \in Lists(n + 1)
  BY ListsGrow
<1>3. Append(l, m) \in Seq(Msgs(n + 1))
  BY <1>1, <1>2 DEF Lists
<1>4. Once(Append(l, m))
  <2>1. SUFFICES ASSUME NEW i \in 1..(Len(l) + 1), NEW j \in 1..(Len(l) + 1),
                        Append(l, m)[i].id = Append(l, m)[j].id
                 PROVE  i = j
    BY <1>1, <1>2 DEF Lists, Once
  <2>2. \A x \in 1..Len(l) : Append(l, m)[x] = l[x] /\ l[x].id \in 1..(n - 1)
    BY <1>1, SMTT(30) DEF Lists, Msgs
  <2>3. Append(l, m)[Len(l) + 1] = m
    BY <1>1 DEF Lists
  <2>4. CASE i \in 1..Len(l) /\ j \in 1..Len(l)
    BY <2>1, <2>2, <2>4 DEF Lists, Once
  <2>5. CASE i = Len(l) + 1 /\ j \in 1..Len(l)
    BY <2>1, <2>2, <2>3, <2>5, <1>1
  <2>6. CASE j = Len(l) + 1 /\ i \in 1..Len(l)
    BY <2>1, <2>2, <2>3, <2>6, <1>1
  <2> QED
    BY <2>4, <2>5, <2>6 DEF Lists
<1> QED
  BY <1>1, <1>3, <1>4 DEF Lists

(* A change of the messages in their places.                               *)
LEMMA ChangedInPlace ==
  ASSUME NEW n \in Nat, NEW l \in Lists(n), NEW f, DOMAIN f = DOMAIN l,
         f = [i \in DOMAIN l |-> f[i]],
         \A i \in DOMAIN l : f[i] \in Msgs(n) /\ f[i].id = l[i].id
  PROVE  f \in Lists(n)
<1>1. f \in Seq(Msgs(n))
  BY DEF Lists
<1>2. Once(f)
  BY DEF Lists, Once
<1> QED
  BY <1>1, <1>2 DEF Lists

LEMMA ReplacedList ==
  ASSUME NEW n \in Nat, NEW l \in Lists(n), NEW m \in Msgs(n)
  PROVE  Replaced(l, m) \in Lists(n)
<1>1. \A i \in DOMAIN l : l[i] \in Msgs(n)
  BY DEF Lists
<1> QED
  BY <1>1, ChangedInPlace DEF Replaced

LEMMA MarkedList ==
  ASSUME NEW n \in Nat, NEW l \in Lists(n), NEW id, NEW s \in Statuses \ {"none"}
  PROVE  /\ Marked(l, id, s) \in Lists(n)
         /\ DOMAIN Marked(l, id, s) = DOMAIN l
         /\ \A i \in DOMAIN l : /\ Marked(l, id, s)[i].id = l[i].id
                                /\ Marked(l, id, s)[i].role = l[i].role
                                /\ Marked(l, id, s)[i].card = l[i].card
                                /\ Marked(l, id, s)[i].status \in {l[i].status, s}
<1> DEFINE f == Marked(l, id, s)
<1>1. \A i \in DOMAIN l : l[i] \in Msgs(n)
  BY DEF Lists
<1>2. \A i \in DOMAIN l : f[i] = IF l[i].id = id /\ l[i].card # "none"
                                 THEN [l[i] EXCEPT !.status = s] ELSE l[i]
  BY DEF Marked
<1>3. \A i \in DOMAIN l : /\ f[i] \in Msgs(n) /\ f[i].id = l[i].id /\ f[i].role = l[i].role
                          /\ f[i].card = l[i].card /\ f[i].status \in {l[i].status, s}
  <2>1. \A m \in Msgs(n) : m.card # "none" =>
           [m EXCEPT !.status = s] \in Msgs(n)
    BY DEF Msgs
  <2>2. \A m \in Msgs(n) : LET k == [m EXCEPT !.status = s] IN
           k.id = m.id /\ k.role = m.role /\ k.card = m.card /\ k.status = s
    BY DEF Msgs
  <2>3. SUFFICES ASSUME NEW i \in DOMAIN l
                 PROVE  /\ f[i] \in Msgs(n) /\ f[i].id = l[i].id /\ f[i].role = l[i].role
                        /\ f[i].card = l[i].card /\ f[i].status \in {l[i].status, s}
    OBVIOUS
  <2>4. CASE l[i].id = id /\ l[i].card # "none"
    BY <1>1, <1>2, <2>1, <2>2, <2>4, ZenonT(30)
  <2>5. CASE ~(l[i].id = id /\ l[i].card # "none")
    BY <1>1, <1>2, <2>5
  <2> QED
    BY <2>4, <2>5
<1>4. DOMAIN f = DOMAIN l /\ f = [i \in DOMAIN l |-> f[i]]
  BY DEF Marked
<1>5. f \in Lists(n)
  BY <1>3, <1>4, ChangedInPlace
<1> QED
  BY <1>3, <1>4, <1>5

LEMMA StoredList ==
  ASSUME NEW n \in Nat, NEW l \in Lists(n)
  PROVE  /\ Stored(l) \in Lists(n)
         /\ DOMAIN Stored(l) = DOMAIN l
         /\ \A i \in DOMAIN l : /\ Stored(l)[i].id = l[i].id
                                /\ Stored(l)[i].role = l[i].role
                                /\ Stored(l)[i].card = l[i].card
                                /\ Stored(l)[i].status = l[i].status
<1> DEFINE f == Stored(l)
<1>1. \A i \in DOMAIN l : l[i] \in Msgs(n)
  BY DEF Lists
<1>2. \A i \in DOMAIN l : f[i] = [l[i] EXCEPT !.live = FALSE]
  BY DEF Stored
<1>3. \A i \in DOMAIN l : /\ f[i] \in Msgs(n) /\ f[i].id = l[i].id /\ f[i].role = l[i].role
                          /\ f[i].card = l[i].card /\ f[i].status = l[i].status
  <2>1. \A m \in Msgs(n) : LET k == [m EXCEPT !.live = FALSE] IN
           /\ k \in Msgs(n)
           /\ k.id = m.id /\ k.role = m.role /\ k.card = m.card /\ k.status = m.status
    BY DEF Msgs
  <2> QED
    BY <1>1, <1>2, <2>1
<1>4. DOMAIN f = DOMAIN l /\ f = [i \in DOMAIN l |-> f[i]]
  BY DEF Stored
<1>5. f \in Lists(n)
  BY <1>3, <1>4, ChangedInPlace
<1> QED
  BY <1>3, <1>4, <1>5

(* What is dropped is dropped from its place, and the others move up.      *)
LEMMA DroppedList ==
  ASSUME NEW n \in Nat, NEW l \in Lists(n), NEW id
  PROVE  /\ Dropped(l, id) \in Lists(n)
         /\ \A i \in DOMAIN Dropped(l, id) : \E j \in DOMAIN l : Dropped(l, id)[i] = l[j]
         /\ \A j \in DOMAIN l : l[j].id # id =>
              \E i \in DOMAIN Dropped(l, id) : Dropped(l, id)[i] = l[j]
<1>1. CASE Holds(l, id) = {}
  BY <1>1 DEF Dropped
<1>2. CASE Holds(l, id) # {}
  <2> DEFINE p == CHOOSE i \in Holds(l, id) : TRUE
  <2>1. p \in 1..Len(l) /\ l[p].id = id /\ l \in Seq(Msgs(n)) /\ Len(l) \in Nat
    BY <1>2 DEF Holds, Lists
  <2>2. Dropped(l, id) = RemoveAt(l, p)
    BY <1>2 DEF Dropped
  <2> HIDE DEF p
  <2> DEFINE d == RemoveAt(l, p)
  <2>3. /\ SubSeq(l, 1, p - 1) \in Seq(Msgs(n)) /\ Len(SubSeq(l, 1, p - 1)) = p - 1
        /\ SubSeq(l, p + 1, Len(l)) \in Seq(Msgs(n))
        /\ Len(SubSeq(l, p + 1, Len(l))) = Len(l) - p
    BY <2>1
  <2> DEFINE a == SubSeq(l, 1, p - 1)
             b == SubSeq(l, p + 1, Len(l))
  <2>4. \A i \in 1..(p - 1) : a[i] = l[i]
    BY <2>1
  <2>5. \A i \in 1..(Len(l) - p) : b[i] = l[p + i]
    BY <2>1
  <2>6a. d = a \o b
    BY DEF RemoveAt
  <2>6b. a \in Seq(Msgs(n)) /\ Len(a) = p - 1 /\ b \in Seq(Msgs(n)) /\ Len(b) = Len(l) - p
    BY <2>3
  <2> HIDE DEF a, b, d
  <2>6c. \A i \in 1..(Len(a) + Len(b)) : d[i] = IF i <= Len(a) THEN a[i] ELSE b[i - Len(a)]
    BY <2>6a, <2>6b
  <2>6. d \in Seq(Msgs(n)) /\ Len(d) = Len(l) - 1
    BY <2>1, <2>6a, <2>6b
  <2>7. \A i \in 1..(Len(l) - 1) : i < p => d[i] = l[i]
    <3>1. \A i \in 1..(Len(l) - 1) : i < p => i \in 1..(Len(a) + Len(b)) /\ i <= Len(a)
                                          /\ i \in 1..(p - 1)
      BY <2>1, <2>6b
    <3> QED
      BY <3>1, <2>4, <2>6c
  <2>8. ASSUME NEW i \in 1..(Len(l) - 1), i >= p PROVE d[i] = l[i + 1]
    <3>1. d[i] = b[i - (p - 1)]
      BY <2>1, <2>8, <2>6b, <2>6c, SMTT(30)
    <3>2. i - (p - 1) \in 1..(Len(l) - p) /\ p + (i - (p - 1)) = i + 1
      BY <2>1, <2>8
    <3> QED
      BY <3>1, <3>2, <2>5
  <2>9. DOMAIN d = 1..(Len(l) - 1) /\ DOMAIN l = 1..Len(l)
    BY <2>1, <2>6
  <2> DEFINE at(i) == IF i < p THEN i ELSE i + 1
  <2>10. \A i \in 1..(Len(l) - 1) : at(i) \in 1..Len(l) /\ d[i] = l[at(i)] /\ at(i) # p
    BY <2>1, <2>7, <2>8
  <2>11. Once(d)
    <3>1. SUFFICES ASSUME NEW i \in 1..(Len(l) - 1), NEW j \in 1..(Len(l) - 1), d[i].id = d[j].id
                   PROVE  i = j
      BY <2>9 DEF Once
    <3>2. at(i) \in DOMAIN l /\ at(j) \in DOMAIN l /\ l[at(i)].id = l[at(j)].id
      BY <3>1, <2>9, <2>10
    <3>2a. Once(l)
      BY DEF Lists
    <3>2b. at(i) = at(j)
      BY <3>2, <3>2a DEF Once
    <3> QED
      BY <3>2b, <2>1
  <2>12. ASSUME NEW j \in 1..Len(l), l[j].id # id PROVE \E i \in 1..(Len(l) - 1) : d[i] = l[j]
    <3>1. j # p
      BY <2>1, <2>12
    <3>2. CASE j < p
      BY <3>2, <2>1, <2>7
    <3>3. CASE j > p
      <4>1. j - 1 \in 1..(Len(l) - 1) /\ j - 1 >= p /\ (j - 1) + 1 = j
        BY <3>3, <2>1
      <4> QED
        BY <4>1, <2>8
    <3> QED
      BY <3>1, <3>2, <3>3, <2>1
  <2>13. d \in Lists(n)
    BY <2>6, <2>11 DEF Lists
  <2>14. \A i \in DOMAIN d : \E j \in DOMAIN l : d[i] = l[j]
    BY <2>9, <2>10
  <2>15. \A j \in DOMAIN l : l[j].id # id => \E i \in DOMAIN d : d[i] = l[j]
    BY <2>9, <2>12
  <2>16. Dropped(l, id) = d
    BY <2>2 DEF d
  <2> QED
    BY <2>13, <2>14, <2>15, <2>16
<1> QED
  BY <1>1, <1>2

-----------------------------------------------------------------------------
(* Types.                                                                  *)

(* The variables as they are keep their types while ids are given out.     *)
LEMMA Grown ==
  ASSUME Typed, NEW n \in Nat, nextId <= n
  PROVE  /\ rows \in [Threads -> Lists(n)] /\ last \in [Threads -> Lists(n)]
         /\ saved \in Lists(n) /\ tab \in Tabs(n) /\ tab.msgs \in Lists(n)
         /\ streams \subseteq Streams(n)
         /\ chain \in Seq(Puts(n)) /\ orphan \in Seq(Puts(n))
         /\ work \in [Cards -> Works(n)]
         /\ changing \in Changings(n)
<1>1. nextId \in Nat
  BY DEF Typed
<1>2. /\ Lists(nextId) \subseteq Lists(n) /\ Streams(nextId) \subseteq Streams(n)
      /\ Works(nextId) \subseteq Works(n) /\ Tabs(nextId) \subseteq Tabs(n)
      /\ Changings(nextId) \subseteq Changings(n)
      /\ Seq(Puts(nextId)) \subseteq Seq(Puts(n))
  BY <1>1, ListsGrow, PutsGrow, OthersGrow
<1>3. rows \in [Threads -> Lists(n)] /\ last \in [Threads -> Lists(n)]
  BY <1>2 DEF Typed
<1>4. work \in [Cards -> Works(n)]
  BY <1>2 DEF Typed
<1>5. tab \in Tabs(n) /\ tab.msgs \in Lists(n)
  BY <1>2 DEF Typed, Tabs
<1> QED
  BY <1>2, <1>3, <1>4, <1>5 DEF Typed

(* What is queued.                                                         *)
LEMMA PutTyped ==
  ASSUME NEW n \in Nat, NEW th \in Threads, NEW l \in Lists(n), NEW for \in 0..(n - 1)
  PROVE  /\ Put(th, l, for) \in Puts(n)
         /\ Put(th, l, for).thread = th /\ Put(th, l, for).for = for
         /\ Put(th, l, for).list = Stored(l)
BY StoredList DEF Put, Puts

LEMMA Queued ==
  ASSUME NEW S, NEW c \in Seq(S), NEW p \in S, NEW q \in S
  PROVE  /\ c \o <<p>> \in Seq(S) /\ c \o <<p, q>> \in Seq(S)
         /\ Len(c \o <<p>>) = Len(c) + 1 /\ Len(c \o <<p, q>>) = Len(c) + 2
         /\ \A i \in 1..Len(c) : (c \o <<p>>)[i] = c[i] /\ (c \o <<p, q>>)[i] = c[i]
         /\ (c \o <<p>>)[Len(c) + 1] = p
         /\ (c \o <<p, q>>)[Len(c) + 1] = p /\ (c \o <<p, q>>)[Len(c) + 2] = q
         /\ Last(<<p>>) = p /\ Last(<<p, q>>) = q
<1>1. /\ <<p>> \in Seq(S) /\ Len(<<p>>) = 1 /\ <<p>>[1] = p
      /\ <<p, q>> \in Seq(S) /\ Len(<<p, q>>) = 2 /\ <<p, q>>[1] = p /\ <<p, q>>[2] = q
  OBVIOUS
<1>2. Last(<<p>>) = p /\ Last(<<p, q>>) = q
  BY DEF Last
<1>3. c \o <<p>> \in Seq(S) /\ Len(c \o <<p>>) = Len(c) + 1
      /\ \A i \in 1..Len(c) : (c \o <<p>>)[i] = c[i]
      /\ (c \o <<p>>)[Len(c) + 1] = p
  OBVIOUS
<1>4. /\ c \o <<p, q>> \in Seq(S) /\ Len(c \o <<p, q>>) = Len(c) + 2
      /\ \A i \in 1..Len(c) : (c \o <<p, q>>)[i] = c[i]
      /\ (c \o <<p, q>>)[Len(c) + 1] = p /\ (c \o <<p, q>>)[Len(c) + 2] = q
  OBVIOUS
<1> QED
  BY <1>2, <1>3, <1>4

LEMMA QueueTyped ==
  ASSUME NEW n \in Nat, chain \in Seq(Puts(n)), last \in [Threads -> Lists(n)],
         NEW p \in Puts(n), NEW q \in Puts(n), Queue(<<p>>) \/ Queue(<<p, q>>)
  PROVE  chain' \in Seq(Puts(n)) /\ last' \in [Threads -> Lists(n)]
<1>1. /\ chain \o <<p>> \in Seq(Puts(n)) /\ chain \o <<p, q>> \in Seq(Puts(n))
      /\ Last(<<p>>) = p /\ Last(<<p, q>>) = q
  BY Queued
<1>2. p.thread \in Threads /\ p.list \in Lists(n) /\ q.thread \in Threads /\ q.list \in Lists(n)
  BY DEF Puts
<1> QED
  BY <1>1, <1>2 DEF Queue

(* A stream that is aborted. *)
LEMMA AbortTyped ==
  ASSUME NEW n, streams \subseteq Streams(n)
  PROVE  Abort(streams) \subseteq Streams(n)
BY DEF Abort, Streams

LEMMA LocalTyped == ASSUME Typed PROVE LocalMode \in Tabs(nextId)
BY DEF Typed, LocalMode, Tabs, Conversations

LEMMA ConstantsTyped ==
  /\ NoThread \notin Threads /\ Local \notin Threads /\ NoThread # Local
  /\ IdleWork.stage = "none" /\ \A n \in Nat \ {0} : IdleWork \in Works(n)
  /\ NoChange.kind = "none" /\ \A n \in Nat : NoChange \in Changings(n)
<1>1. \A n \in Nat : NoChange \in Changings(n)
  BY EmptyList, AssistantAssumption DEF NoChange, Changings
<1>2. \A n \in Nat \ {0} : IdleWork \in Works(n)
  BY DEF IdleWork, Works, Conversations
<1> QED
  BY <1>1, <1>2, AssistantAssumption DEF NoChange, IdleWork

LEMMA TabSet ==
  ASSUME NEW n, NEW t \in Tabs(n), NEW l \in Lists(n), NEW c \in 0..(n - 1),
         NEW b \in BOOLEAN, NEW e \in BOOLEAN
  PROVE  /\ [t EXCEPT !.msgs = l, !.ctrl = c, !.streaming = b, !.error = e] \in Tabs(n)
         /\ [t EXCEPT !.msgs = l, !.streaming = b, !.ctrl = c, !.error = e] \in Tabs(n)
BY DEF Tabs

LEMMA TabMsgs ==
  ASSUME NEW n, NEW t \in Tabs(n), NEW l \in Lists(n)
  PROVE  [t EXCEPT !.msgs = l] \in Tabs(n)
BY DEF Tabs

(* streamChat with a new id n, that the answer takes.                      *)
LEMMA StreamChatTyped ==
  ASSUME NEW n \in Nat \ {0}, streams \subseteq Streams(n), tab \in Tabs(n),
         NEW l \in Lists(n), NEW th \in Conversations, NEW persist \in BOOLEAN,
         NEW owner \in Cards \union {"user"}, StreamChat(l, n, th, persist, owner)
  PROVE  tab' \in Tabs(n + 1) /\ streams' \subseteq Streams(n + 1)
<1>1. /\ Said(n, "assistant", 0) \in Msgs(n + 1)
      /\ Append(l, Said(n, "assistant", 0)) \in Lists(n + 1)
  BY Appended
<1>2. tab \in Tabs(n + 1) /\ Streams(n) \subseteq Streams(n + 1)
  BY OthersGrow
<1>2a. n \in 0..((n + 1) - 1)
  OBVIOUS
<1>3. tab' \in Tabs(n + 1)
  BY <1>1, <1>2, <1>2a, TabSet DEF StreamChat
<1>4. Abort(streams) \subseteq Streams(n + 1)
  BY <1>2, AbortTyped
<1>5. [copy |-> Said(n, "assistant", 0), thread |-> th, owner |-> owner,
       persist |-> persist, aborted |-> FALSE, stage |-> "open"] \in Streams(n + 1)
  BY <1>1 DEF Streams
<1> QED
  BY <1>3, <1>4, <1>5 DEF StreamChat

LEMMA ReturnTyped ==
  ASSUME Typed, NEW s \in streams, NEW l \in Lists(nextId), NEW failed \in BOOLEAN,
         Return(s, l, failed)
  PROVE  tab' \in Tabs(nextId) /\ streams' \subseteq Streams(nextId)
         /\ work' \in [Cards -> Works(nextId)]
<1> DEFINE e == tab.error \/ failed
<1>a. e \in BOOLEAN
  OBVIOUS
<1>b. tab' = [tab EXCEPT !.msgs = l, !.ctrl = 0, !.streaming = FALSE, !.error = e]
  BY Zenon DEF Return
<1> HIDE DEF e
<1>c. tab \in Tabs(nextId) /\ 0 \in 0..(nextId - 1)
  BY DEF Typed
<1>1. tab' \in Tabs(nextId)
  BY <1>a, <1>b, <1>c, TabSet
<1>2. work' \in [Cards -> Works(nextId)]
  BY ConstantsTyped DEF Typed, Return
<1> QED
  BY <1>1, <1>2 DEF Typed, Return

(* The parts of a typed tab.                                               *)
LEMMA Parts ==
  ASSUME Typed
  PROVE  /\ nextId \in Nat \ {0} /\ tab.msgs \in Lists(nextId) /\ tab.thread \in Conversations
         /\ tab.persist \in BOOLEAN
         /\ \A i \in DOMAIN tab.msgs : tab.msgs[i] \in Msgs(nextId)
         /\ \A k \in Cards : work[k] \in Works(nextId)
         /\ \A s \in streams : s \in Streams(nextId) /\ s.copy \in Msgs(nextId)
         /\ \A i \in DOMAIN chain : chain[i] \in Puts(nextId)
         /\ \A i \in DOMAIN orphan : orphan[i] \in Puts(nextId)
BY DEF Typed, Tabs, Lists, Streams

LEMMA StreamTyped ==
  ASSUME Typed, NEW s \in streams, NEW c \in Cards \union {"none"},
         Stream(s) \/ StreamFails(s) \/ StreamEvent(s, c), crossed' \in BOOLEAN
  PROVE  Typed'
<1> DEFINE n == nextId
<1>1. /\ n \in Nat \ {0} /\ s \in Streams(n) /\ s.copy \in Msgs(n) /\ tab \in Tabs(n)
      /\ tab.msgs \in Lists(n) /\ streams \subseteq Streams(n)
  BY Parts DEF Typed
<1>2. ASSUME StreamEvent(s, c) PROVE Typed'
  <2> DEFINE copy == IF c = "none" THEN [s.copy EXCEPT !.text = TRUE]
                     ELSE [s.copy EXCEPT !.card = c, !.status = "pending", !.text = TRUE]
  <2>1. copy \in Msgs(n)
    BY <1>1, <1>2 DEF StreamEvent, Msgs, Statuses, Cards
  <2> HIDE DEF copy
  <2>2. Replaced(tab.msgs, copy) \in Lists(n)
    BY <1>1, <2>1, ReplacedList
  <2>3. tab' = [tab EXCEPT !.msgs = Replaced(tab.msgs, copy)]
    BY <1>2 DEF StreamEvent, copy
  <2>4. tab' \in Tabs(n)
    BY <1>1, <2>2, <2>3, TabMsgs
  <2>5. [s EXCEPT !.copy = copy] \in Streams(n)
    BY <1>1, <2>1 DEF Streams
  <2>6. streams' = (streams \ {s}) \union {[s EXCEPT !.copy = copy]}
    BY <1>2 DEF StreamEvent, copy
  <2> QED
    BY <1>1, <1>2, <2>4, <2>5, <2>6 DEF StreamEvent, Typed, server, storage, history
<1>3. ASSUME NEW l \in Lists(n), NEW failed \in BOOLEAN, Return(s, l, failed)
      PROVE  tab' \in Tabs(n) /\ streams' \subseteq Streams(n) /\ work' \in [Cards -> Works(n)]
  BY <1>3, ReturnTyped
<1> DEFINE done == [s.copy EXCEPT !.live = FALSE]
           kept == Replaced(tab.msgs, done)
           less == Dropped(tab.msgs, s.copy.id)
<1>4. done \in Msgs(n) /\ done.id = s.copy.id /\ s.copy.id \in 0..(n - 1)
  <2>1. s.copy.id \in 1..(n - 1)
    BY <1>1 DEF Msgs
  <2>2. s.copy.id \in 0..(n - 1)
    BY <1>1, <2>1
  <2> QED
    BY <1>1, <2>2 DEF Msgs
<1>5. kept \in Lists(n) /\ less \in Lists(n)
  BY <1>1, <1>4, ReplacedList, DroppedList
<1>6. ASSUME StreamEnds(s) PROVE Typed'
  <2>1. CASE Synced(s.thread, s.persist)
    <3>1. PICK p \in Puts(n) : p = Put(s.thread, kept, done.id)
      <4>1. s.thread \in Threads /\ n \in Nat
        BY <1>1, <2>1 DEF Synced
      <4>2. done.id \in 0..(n - 1)
        BY <1>4
      <4> HIDE DEF done, kept
      <4> QED
        BY <1>5, <4>1, <4>2, PutTyped
    <3>2. Queue(<<p>>) /\ tab' = [tab EXCEPT !.msgs = kept]
          /\ streams' = (streams \ {s}) \union {[s EXCEPT !.copy = done, !.stage = "saving"]}
      BY <1>6, <2>1, <3>1 DEF StreamEnds
    <3>3. chain' \in Seq(Puts(n)) /\ last' \in [Threads -> Lists(n)]
      BY <3>2, QueueTyped DEF Typed
    <3>4. [s EXCEPT !.copy = done, !.stage = "saving"] \in Streams(n)
      BY <1>1, <1>4 DEF Streams
    <3>5. tab' \in Tabs(n)
      BY <1>1, <1>5, <3>2, TabMsgs
    <3>6. UNCHANGED <<work, saved>>
      BY <1>6, <2>1 DEF StreamEnds
    <3> HIDE DEF done
    <3> QED
      BY <1>1, <1>6, <3>2, <3>3, <3>4, <3>5, <3>6 DEF StreamEnds, Typed, server
  <2>2. CASE ~Synced(s.thread, s.persist)
    <3>1. Return(s, kept, FALSE) /\ saved' = kept /\ UNCHANGED <<chain, last>>
      BY <1>6, <2>2 DEF StreamEnds
    <3>2. tab' \in Tabs(n) /\ streams' \subseteq Streams(n) /\ work' \in [Cards -> Works(n)]
      BY <1>3, <1>5, <3>1
    <3> QED
      BY <1>1, <1>5, <1>6, <3>1, <3>2 DEF StreamEnds, Typed, server
  <2> QED
    BY <2>1, <2>2
<1>7. ASSUME StreamAborts(s) PROVE Typed'
  <2>1. PICK l \in Lists(n) : Return(s, l, FALSE)
    <3>1. CASE s.copy.text
      BY <1>5, <1>7, <3>1 DEF StreamAborts
    <3>2. CASE ~s.copy.text
      BY <1>5, <1>7, <3>2 DEF StreamAborts
    <3> QED
      BY <3>1, <3>2
  <2>2. tab' \in Tabs(n) /\ streams' \subseteq Streams(n) /\ work' \in [Cards -> Works(n)]
    BY <1>3, <2>1
  <2> QED
    BY <1>1, <1>7, <2>2 DEF StreamAborts, Typed, server, storage, history
<1>8. ASSUME StreamFails(s) PROVE Typed'
  <2>1. PICK l \in Lists(n) : Return(s, l, TRUE)
    BY <1>5, <1>8 DEF StreamFails
  <2>2. tab' \in Tabs(n) /\ streams' \subseteq Streams(n) /\ work' \in [Cards -> Works(n)]
    BY <1>3, <2>1
  <2> QED
    BY <1>1, <1>8, <2>2 DEF StreamFails, Fault, Typed, server, storage, history
<1> QED
  BY <1>2, <1>6, <1>7, <1>8 DEF Stream

LEMMA DecideTyped ==
  ASSUME Typed, NEW i \in DOMAIN tab.msgs, NEW s \in Statuses \ {"none"}, Decide(i, s)
  PROVE  /\ tab' \in Tabs(nextId) /\ saved' \in Lists(nextId)
         /\ chain' \in Seq(Puts(nextId)) /\ last' \in [Threads -> Lists(nextId)]
<1> DEFINE n == nextId
           l == Marked(tab.msgs, tab.msgs[i].id, s)
<1>1. l \in Lists(n) /\ n \in Nat \ {0} /\ 0 \in 0..(n - 1)
  BY MarkedList, Parts
<1>2. tab' \in Tabs(n)
  BY <1>1, TabMsgs DEF Decide, Typed
<1>3. CASE Synced(tab.thread, tab.persist)
  <2>1. PICK p \in Puts(n) : p = Put(tab.thread, l, 0)
    BY <1>1, <1>3, PutTyped DEF Synced
  <2>2. Queue(<<p>>) /\ UNCHANGED saved
    BY <1>3, <2>1 DEF Decide
  <2> QED
    BY <1>2, <2>2, QueueTyped DEF Typed
<1>4. CASE ~Synced(tab.thread, tab.persist)
  BY <1>1, <1>2, <1>4 DEF Decide, Typed
<1> QED
  BY <1>3, <1>4

LEMMA ContinueTyped ==
  ASSUME Typed, NEW k \in Cards, NEW marked \in Lists(nextId), Continue(k, marked)
  PROVE  /\ nextId' = nextId + 1 /\ nextId' \in Nat \ {0}
         /\ tab' \in Tabs(nextId') /\ saved' \in Lists(nextId')
         /\ chain' \in Seq(Puts(nextId')) /\ last' \in [Threads -> Lists(nextId')]
         /\ work' \in [Cards -> Works(nextId')]
<1> DEFINE n == nextId
           w == work[k]
           l == Append(marked, Said(n, "tool", w.msg))
<1>1. n \in Nat \ {0} /\ nextId' = n + 1 /\ w \in Works(n) /\ w.msg \in Nat
  BY Parts DEF Continue, Works
<1>2. l \in Lists(n + 1) /\ marked \in Lists(n + 1)
  BY <1>1, Appended, ListsGrow
<1>3. /\ tab \in Tabs(n + 1) /\ saved \in Lists(n + 1) /\ chain \in Seq(Puts(n + 1))
      /\ last \in [Threads -> Lists(n + 1)] /\ work \in [Cards -> Works(n + 1)]
  <2>1. n + 1 \in Nat /\ nextId <= n + 1
    BY <1>1
  <2> QED
    BY <2>1, Grown
<1>4. tab' \in Tabs(n + 1)
  BY <1>2, <1>3, TabMsgs DEF Continue
<1>5. work' \in [Cards -> Works(n + 1)]
  <2>1. ASSUME NEW stage \in {"saving", "telling"},
               work' = [work EXCEPT ![k].stage = stage, ![k].msg = n]
        PROVE  work' \in [Cards -> Works(n + 1)]
    <3>1. n \in 0..((n + 1) - 1)
      BY <1>1
    <3> QED
      BY <1>3, <2>1, <3>1 DEF Works
  <2> QED
    BY <2>1 DEF Continue
<1>6. CASE Synced(w.thread, w.persist)
  <2>1. w.thread \in Threads /\ n + 1 \in Nat /\ 0 \in 0..((n + 1) - 1) /\ n \in 0..((n + 1) - 1)
    BY <1>1, <1>6 DEF Synced
  <2> HIDE DEF l, w
  <2>2. PICK p \in Puts(n + 1) : p = Put(w.thread, marked, 0)
    BY <1>2, <2>1, PutTyped
  <2>3. PICK q \in Puts(n + 1) : q = Put(w.thread, l, n)
    BY <1>2, <2>1, PutTyped
  <2>4. Queue(<<p, q>>) /\ UNCHANGED saved
    BY <1>6, <2>2, <2>3 DEF Continue, l, w
  <2>5. chain' \in Seq(Puts(n + 1)) /\ last' \in [Threads -> Lists(n + 1)]
    BY <1>3, <2>1, <2>4, QueueTyped
  <2> QED
    BY <1>1, <1>3, <1>4, <1>5, <2>4, <2>5
<1>7. CASE ~Synced(w.thread, w.persist)
  <2>1. saved' = l /\ UNCHANGED <<chain, last>>
    BY <1>7 DEF Continue
  <2> QED
    BY <1>1, <1>2, <1>3, <1>4, <1>5, <2>1
<1> QED
  BY <1>6, <1>7

(* The user and the cards. *)
LEMMA CardTyped ==
  ASSUME Typed, crossed' \in BOOLEAN,
         \/ \E i \in DOMAIN tab.msgs : HandleApprove(i) \/ HandleDeny(i) \/ HandleFormSubmit(i)
         \/ ExecuteAction \/ \E k \in Cards : TellModel(k)
  PROVE  Typed'
<1> DEFINE n == nextId
<1>1. /\ n \in Nat \ {0} /\ tab.msgs \in Lists(n) /\ tab.thread \in Conversations
      /\ tab.persist \in BOOLEAN /\ "permission" \in Cards /\ "form" \in Cards
      /\ \A k \in Cards : work[k] \in Works(n)
      /\ \A i \in DOMAIN tab.msgs : tab.msgs[i] \in Msgs(n)
  BY Parts DEF Cards
<1>2. /\ rows \in [Threads -> Lists(n + 1)] /\ last \in [Threads -> Lists(n + 1)]
      /\ saved \in Lists(n + 1) /\ tab \in Tabs(n + 1) /\ streams \subseteq Streams(n + 1)
      /\ chain \in Seq(Puts(n + 1)) /\ orphan \in Seq(Puts(n + 1))
      /\ work \in [Cards -> Works(n + 1)] /\ changing \in Changings(n + 1)
  <2>1. n + 1 \in Nat /\ nextId <= n + 1
    BY <1>1
  <2> QED
    BY <2>1, Grown
<1>3. ASSUME NEW i \in DOMAIN tab.msgs, HandleApprove(i) PROVE Typed'
  <2>1. /\ tab' \in Tabs(n) /\ saved' \in Lists(n)
        /\ chain' \in Seq(Puts(n)) /\ last' \in [Threads -> Lists(n)]
    BY <1>3, DecideTyped DEF HandleApprove, Statuses
  <2>2. tab.msgs[i].id \in 0..(n - 1)
    BY <1>1 DEF Msgs
  <2>3. [stage |-> "acting", msg |-> tab.msgs[i].id, thread |-> tab.thread,
         persist |-> tab.persist] \in Works(n)
    BY <1>1, <2>2 DEF Works
  <2>4. work' \in [Cards -> Works(n)]
    BY <1>3, <2>3 DEF HandleApprove, Typed
  <2> QED
    BY <1>3, <2>1, <2>4 DEF HandleApprove, Typed, server
<1>4. ASSUME NEW i \in DOMAIN tab.msgs, HandleDeny(i) PROVE Typed'
  <2>1. /\ tab' \in Tabs(n) /\ saved' \in Lists(n)
        /\ chain' \in Seq(Puts(n)) /\ last' \in [Threads -> Lists(n)]
    BY <1>4, DecideTyped DEF HandleDeny, Statuses
  <2> QED
    BY <1>4, <2>1 DEF HandleDeny, Typed, server
<1>5. ASSUME NEW i \in DOMAIN tab.msgs, HandleFormSubmit(i) PROVE Typed'
  <2> DEFINE m == tab.msgs[i]
             w == [stage |-> "saving", msg |-> n, thread |-> tab.thread, persist |-> tab.persist]
             marked == Marked(tab.msgs, m.id, "submitted")
             l == Append(marked, Said(n, "tool", m.id))
  <2>1. marked \in Lists(n) /\ m.id \in Nat
    BY <1>1, MarkedList DEF Statuses, Msgs
  <2>2. l \in Lists(n + 1) /\ marked \in Lists(n + 1)
    BY <1>1, <2>1, Appended, ListsGrow
  <2>3. n \in 0..((n + 1) - 1) /\ 0 \in 0..((n + 1) - 1)
    BY <1>1
  <2>4. w \in Works(n + 1) /\ [w EXCEPT !.stage = "telling"] \in Works(n + 1)
    BY <1>1, <2>3 DEF Works
  <2>5. tab' \in Tabs(n + 1)
    BY <1>2, <1>5, <2>2, TabMsgs DEF HandleFormSubmit
  <2>6. work' \in [Cards -> Works(n + 1)] /\ nextId' = n + 1
    <3>1. CASE Synced(tab.thread, tab.persist)
      BY <1>2, <1>5, <2>4, <3>1 DEF HandleFormSubmit
    <3>2. CASE ~Synced(tab.thread, tab.persist)
      BY <1>2, <1>5, <2>4, <3>2 DEF HandleFormSubmit
    <3> QED
      BY <3>1, <3>2
  <2>7. /\ saved' \in Lists(n + 1) /\ chain' \in Seq(Puts(n + 1))
        /\ last' \in [Threads -> Lists(n + 1)]
    <3>1. CASE Synced(tab.thread, tab.persist)
      <4>1. tab.thread \in Threads /\ n + 1 \in Nat
        BY <1>1, <3>1 DEF Synced
      <4> HIDE DEF marked, l
      <4>2. PICK p \in Puts(n + 1) : p = Put(tab.thread, marked, 0)
        BY <2>2, <2>3, <4>1, PutTyped
      <4>3. PICK q \in Puts(n + 1) : q = Put(tab.thread, l, n)
        BY <2>2, <2>3, <4>1, PutTyped
      <4>4. Queue(<<p, q>>) /\ UNCHANGED saved
        BY <1>5, <3>1, <4>2, <4>3 DEF HandleFormSubmit, l, marked
      <4> QED
        BY <1>2, <4>1, <4>4, QueueTyped
    <3>2. CASE ~Synced(tab.thread, tab.persist)
      BY <1>2, <1>5, <2>2, <3>2 DEF HandleFormSubmit
    <3> QED
      BY <3>1, <3>2
  <2>8. UNCHANGED <<rows, exists, active, streams, orphan, changing, faults, changes, unsure>>
    BY <1>5 DEF HandleFormSubmit, server
  <2> HIDE DEF w, marked, l
  <2> QED
    BY <1>1, <1>2, <2>5, <2>6, <2>7, <2>8 DEF Typed
<1>6. ASSUME ExecuteAction PROVE Typed'
  <2>1. ASSUME NEW s \in {"done", "error"},
               Continue("permission", Marked(tab.msgs, work.permission.msg, s)),
               faults' \in Nat
        PROVE  Typed'
    <3>1. PICK marked \in Lists(n) : marked = Marked(tab.msgs, work.permission.msg, s)
      BY <1>1, MarkedList DEF Statuses
    <3>2. Continue("permission", marked)
      BY <2>1, <3>1
    <3>3. /\ nextId' = n + 1 /\ nextId' \in Nat \ {0}
          /\ tab' \in Tabs(nextId') /\ saved' \in Lists(nextId')
          /\ chain' \in Seq(Puts(nextId')) /\ last' \in [Threads -> Lists(nextId')]
          /\ work' \in [Cards -> Works(nextId')]
      BY <1>1, <3>2, ContinueTyped
    <3>4. UNCHANGED <<rows, exists, active, streams, orphan, changing, changes, unsure>>
      BY <1>6 DEF ExecuteAction, server
    <3> QED
      BY <1>2, <2>1, <3>3, <3>4 DEF Typed
  <2>2. faults' \in Nat
    BY <1>6 DEF ExecuteAction, Fault, Typed
  <2> QED
    BY <1>6, <2>1, <2>2 DEF ExecuteAction
<1>7. ASSUME NEW k \in Cards, TellModel(k) PROVE Typed'
  <2>1. PICK l \in Lists(n), th \in Conversations, b \in BOOLEAN :
          l = tab.msgs /\ th = work[k].thread /\ b = work[k].persist
    BY <1>1 DEF Works
  <2>2. StreamChat(l, n, th, b, k)
    BY <1>7, <2>1 DEF TellModel
  <2>3. tab' \in Tabs(n + 1) /\ streams' \subseteq Streams(n + 1)
    BY <1>1, <2>2, StreamChatTyped DEF Typed
  <2>4. work' \in [Cards -> Works(n + 1)]
    <3>1. work' = [work EXCEPT ![k].stage = "streaming"]
      BY <1>7 DEF TellModel
    <3>2. [work[k] EXCEPT !.stage = "streaming"] \in Works(n + 1)
      BY <1>2 DEF Works
    <3> QED
      BY <1>2, <3>1, <3>2
  <2> QED
    BY <1>1, <1>2, <1>7, <2>3, <2>4 DEF TellModel, Typed, server, storage, history
<1> QED
  BY <1>3, <1>4, <1>5, <1>6, <1>7

LEMMA UserTyped ==
  ASSUME Typed, crossed' \in BOOLEAN,
         SendMessage \/ Stop \/ NewThread \/ Reload \/ RetryInit \/ \E t \in exists : SwitchThread(t)
  PROVE  Typed'
<1> DEFINE n == nextId
<1>1. /\ n \in Nat \ {0} /\ tab.msgs \in Lists(n) /\ tab.thread \in Conversations
      /\ tab.persist \in BOOLEAN /\ tab \in Tabs(n) /\ streams \subseteq Streams(n)
  BY Parts DEF Typed
<1>2. Abort(streams) \subseteq Streams(n)
  BY <1>1, AbortTyped
<1>3. ASSUME SendMessage PROVE Typed'
  <2>1. PICK l \in Lists(n + 1) : l = Append(tab.msgs, Said(n, "user", 0))
    BY <1>1, Appended
  <2>2. /\ rows \in [Threads -> Lists(n + 2)] /\ last \in [Threads -> Lists(n + 2)]
        /\ chain \in Seq(Puts(n + 2)) /\ orphan \in Seq(Puts(n + 2))
        /\ work \in [Cards -> Works(n + 2)] /\ changing \in Changings(n + 2)
        /\ tab \in Tabs(n + 1) /\ streams \subseteq Streams(n + 1) /\ l \in Lists(n + 2)
    BY <1>1, <2>1, Grown, ListsGrow
  <2>3. PICK th \in Conversations, b \in BOOLEAN, m \in Nat \ {0} :
          th = tab.thread /\ b = tab.persist /\ m = n + 1
    BY <1>1
  <2>4. StreamChat(l, m, th, b, "user") /\ saved' = l /\ nextId' = n + 2
    BY <1>3, <2>1, <2>3 DEF SendMessage
  <2>5. tab' \in Tabs(m + 1) /\ streams' \subseteq Streams(m + 1)
    BY <2>1, <2>2, <2>3, <2>4, StreamChatTyped
  <2>6. m + 1 = n + 2 /\ n + 2 \in Nat \ {0}
    BY <1>1, <2>3
  <2>7. UNCHANGED <<rows, exists, active, chain, orphan, work, changing, faults, changes, last, unsure>>
    BY <1>3 DEF SendMessage, server, history
  <2> QED
    BY <2>2, <2>4, <2>5, <2>6, <2>7 DEF Typed
<1>4. ASSUME Stop PROVE Typed'
  BY <1>2, <1>4 DEF Stop, Typed, server, storage, history
<1>5. ASSUME NewThread PROVE Typed'
  <2>1. changes' \in Nat
    BY <1>5 DEF NewThread, Change, Typed
  <2>2. CASE tab.persist
    <3>1. [NoChange EXCEPT !.kind = "new"] \in Changings(n)
      BY <1>1, ConstantsTyped, EmptyList DEF Changings, NoChange
    <3>2. [tab EXCEPT !.error = FALSE] \in Tabs(n)
      BY <1>1 DEF Tabs
    <3> QED
      BY <1>2, <1>5, <2>1, <2>2, <3>1, <3>2 DEF NewThread, Typed, server, storage, history
  <2>3. CASE ~tab.persist
    <3>1. <<>> \in Lists(n)
      BY <1>1, EmptyList
    <3>2. [tab EXCEPT !.thread = Local, !.msgs = <<>>, !.error = FALSE] \in Tabs(n)
      BY <1>1, <3>1 DEF Tabs, Conversations
    <3> QED
      BY <1>2, <1>5, <2>1, <2>3, <3>1, <3>2 DEF NewThread, Typed, server, history, Conversations
  <2> QED
    BY <2>2, <2>3
<1>6. ASSUME NEW t \in exists, SwitchThread(t) PROVE Typed'
  <2>1. [NoChange EXCEPT !.kind = "load", !.thread = t] \in Changings(n)
    BY <1>1, EmptyList DEF Typed, Changings, NoChange
  <2>2. [tab EXCEPT !.loading = TRUE, !.error = FALSE] \in Tabs(n)
    BY <1>1 DEF Tabs
  <2>3. changes' \in Nat
    <3>1. Change
      BY <1>6 DEF SwitchThread
    <3> QED
      BY <3>1 DEF Change, Typed
  <2> QED
    BY <1>2, <1>6, <2>1, <2>2, <2>3 DEF SwitchThread, Typed, server, storage, history
<1>7. [NoChange EXCEPT !.kind = "init"] \in Changings(n)
  BY <1>1, ConstantsTyped, EmptyList DEF Changings, NoChange
<1>8. ASSUME Reload PROVE Typed'
  <2>1. orphan' \in Seq(Puts(n))
    <3>1. CASE chain = <<>>
      BY <1>8, <3>1 DEF Reload, Typed
    <3>2. CASE chain # <<>>
      <4>1. Head(chain) \in Puts(n)
        BY <3>2 DEF Typed
      <4>2. orphan' = <<Head(chain)>>
        BY <1>8, <3>2 DEF Reload
      <4> HIDE DEF n
      <4> QED
        BY <4>1, <4>2
    <3> QED
      BY <3>1, <3>2
  <2>2. tab' \in Tabs(n)
    <3>1. <<>> \in Lists(n) /\ NoThread \in Conversations /\ 0 \in 0..(n - 1)
      BY <1>1, EmptyList DEF Conversations
    <3> QED
      BY <1>8, <3>1 DEF Reload, Tabs
  <2>3. work' \in [Cards -> Works(n)]
    BY <1>1, <1>8, ConstantsTyped DEF Reload
  <2>4. unsure' \subseteq Threads
    <3>1. \A i \in DOMAIN chain : chain[i].thread \in Threads
      BY Parts DEF Puts
    <3> QED
      BY <1>8, <3>1 DEF Reload, Typed
  <2>5. changes' \in Nat /\ chain' = <<>> /\ streams' = {}
    BY <1>8 DEF Reload, Change, Typed
  <2>6. UNCHANGED <<rows, exists, saved, active, nextId, faults, last>>
        /\ changing' = [NoChange EXCEPT !.kind = "init"]
    BY <1>8 DEF Reload, server, storage
  <2>7. chain' \in Seq(Puts(n))
    BY <2>5
  <2> QED
    BY <1>1, <1>7, <2>1, <2>2, <2>3, <2>4, <2>5, <2>6, <2>7 DEF Typed
<1>9. ASSUME RetryInit PROVE Typed'
  <2>1. changes' \in Nat
    BY <1>9 DEF RetryInit, Change, Typed
  <2> QED
    BY <1>7, <1>9, <2>1 DEF RetryInit, Typed, server, storage, history
<1> QED
  BY <1>3, <1>4, <1>5, <1>6, <1>8, <1>9

(* The end of a request, and the change of the thread. *)
LEMMA WriteTyped ==
  ASSUME NEW n, rows \in [Threads -> Lists(n)], NEW p \in Puts(n)
  PROVE  Write(p) \in [Threads -> Lists(n)]
BY DEF Write, Puts

LEMMA PutNextTyped ==
  ASSUME Typed, PutNext, crossed' \in BOOLEAN
  PROVE  Typed'
<1> DEFINE n == nextId
<1>1. n \in Nat \ {0} /\ chain # <<>> /\ chain \in Seq(Puts(n))
  BY Parts DEF Typed, PutNext
<1>2. PICK p \in Puts(n) : p = Head(chain)
  BY <1>1
<1>3. chain' \in Seq(Puts(n))
  BY <1>1 DEF PutNext
<1>4. GoOn(p)
  BY <1>2 DEF PutNext
<1>5. tab' \in Tabs(n) /\ streams' \subseteq Streams(n) /\ work' \in [Cards -> Works(n)]
  <2>1. [tab EXCEPT !.streaming = FALSE, !.ctrl = 0] \in Tabs(n)
    <3>1. 0 \in 0..(n - 1)
      BY <1>1
    <3> QED
      BY <3>1 DEF Tabs, Typed
  <2>2. \A k \in Cards : work[k] \in Works(n) /\ [work[k] EXCEPT !.stage = "telling"] \in Works(n)
    BY DEF Typed, Works
  <2>3. IdleWork \in Works(n)
    BY <1>1, ConstantsTyped
  <2>4. work' \in [Cards -> Works(n)]
    BY <1>4, <2>2, <2>3 DEF GoOn
  <2> QED
    BY <1>4, <2>1, <2>4 DEF GoOn, Typed
<1>6. rows' \in [Threads -> Lists(n)] /\ saved' \in Lists(n) /\ unsure' \subseteq Threads
      /\ faults' \in Nat
  <2>1. Write(p) \in [Threads -> Lists(n)] /\ p.thread \in Threads /\ p.list \in Lists(n)
    BY WriteTyped DEF Typed, Puts
  <2>2. CASE Accepted(p) /\ rows' = Write(p) /\ UNCHANGED <<saved, faults>> /\ unsure' = unsure \ {p.thread}
    BY <2>1, <2>2 DEF Typed
  <2>3. CASE /\ faults' = IF Accepted(p) THEN faults + 1 ELSE faults
             /\ saved' = p.list /\ UNCHANGED rows
             /\ unsure' = unsure \union {p.thread}
    BY <2>1, <2>3 DEF Typed
  <2> QED
    BY <1>2, <2>2, <2>3 DEF PutNext
<1>7. UNCHANGED <<exists, active, orphan, changing, nextId, changes, last>>
  BY DEF PutNext
<1> QED
  BY <1>1, <1>3, <1>5, <1>6, <1>7 DEF Typed

LEMMA OrphanTyped ==
  ASSUME Typed, OrphanArrives, crossed' \in BOOLEAN
  PROVE  Typed'
<1> DEFINE n == nextId
<1>1. orphan \in Seq(Puts(n)) /\ orphan # <<>>
  BY DEF Typed, OrphanArrives
<1>2. PICK p \in Puts(n) : p = Head(orphan)
  BY <1>1
<1>3. p.thread \in Threads /\ Write(p) \in [Threads -> Lists(n)]
  BY WriteTyped DEF Typed, Puts
<1>4. rows' \in [Threads -> Lists(n)] /\ orphan' = <<>> /\ unsure' = unsure \union {p.thread}
  BY <1>2, <1>3 DEF OrphanArrives, Typed
<1>5. UNCHANGED <<exists, saved, active, tab, streams, chain, work, changing, nextId, faults, changes, last>>
  BY DEF OrphanArrives, storage
<1>6. orphan' \in Seq(Puts(n))
  BY <1>4
<1> QED
  BY <1>3, <1>4, <1>5, <1>6 DEF Typed

(* What initThreads decides. *)
LEMMA InitChooses ==
  ASSUME InitThreads
  PROVE  \/ active = Local /\ tab' = LocalMode /\ changing' = NoChange
         \/ /\ active # Local /\ tab' = [tab EXCEPT !.persist = TRUE, !.error = FALSE]
            /\ \/ \E t \in exists : changing' = [NoChange EXCEPT !.kind = "load", !.thread = t]
               \/ changing' = [NoChange EXCEPT !.kind = "new"]
<1>1. CASE active = Local
  BY <1>1 DEF InitThreads
<1>2. CASE active # Local /\ exists # {}
  <2>1. /\ changing' \in {[NoChange EXCEPT !.kind = "load", !.thread = t] :
                            t \in IF active \in exists THEN {active} ELSE exists}
        /\ tab' = [tab EXCEPT !.persist = TRUE, !.error = FALSE]
    BY <1>2 DEF InitThreads
  <2> QED
    BY <1>2, <2>1
<1>3. CASE active # Local /\ exists = {}
  BY <1>3 DEF InitThreads
<1> QED
  BY <1>1, <1>2, <1>3

LEMMA ThreadTyped ==
  ASSUME Typed, crossed' \in BOOLEAN,
         InitThreads \/ GetThread \/ ShowThread \/ LoadFails \/ \E t \in Threads : CreateThread(t)
  PROVE  Typed'
<1> DEFINE n == nextId
<1>1. n \in Nat \ {0} /\ tab \in Tabs(n) /\ LocalMode \in Tabs(n) /\ NoChange \in Changings(n)
      /\ changing \in Changings(n) /\ <<>> \in Lists(n) /\ Local \in Conversations
  BY Parts, LocalTyped, ConstantsTyped, EmptyList DEF Typed, Conversations
<1>2. ASSUME InitThreads PROVE Typed'
  <2>1. tab' \in Tabs(n)
    <3>1. [tab EXCEPT !.persist = TRUE, !.error = FALSE] \in Tabs(n)
      BY <1>1 DEF Tabs
    <3> QED
      BY <1>1, <1>2, <3>1 DEF InitThreads
  <2>2. changing' \in Changings(n)
    <3>1. \A t \in Threads : [NoChange EXCEPT !.kind = "load", !.thread = t] \in Changings(n)
      BY <1>1 DEF Changings, NoChange
    <3>2. [NoChange EXCEPT !.kind = "new"] \in Changings(n)
      BY <1>1, ConstantsTyped DEF Changings, NoChange
    <3> QED
      <4>1. exists \subseteq Threads
        BY DEF Typed
      <4>2. \/ changing' = NoChange
            \/ \E t \in exists : changing' = [NoChange EXCEPT !.kind = "load", !.thread = t]
            \/ changing' = [NoChange EXCEPT !.kind = "new"]
        BY <1>2, InitChooses
      <4> HIDE DEF n
      <4> QED
        BY <1>1, <3>1, <3>2, <4>1, <4>2
  <2> QED
    BY <1>2, <2>1, <2>2 DEF InitThreads, Typed, server, storage, history
<1>3. ASSUME GetThread PROVE Typed'
  <2>1. changing.thread \in Threads /\ rows[changing.thread] \in Lists(n)
    BY <1>1, <1>3 DEF GetThread, Changings, Typed
  <2>2. changing' \in Changings(n)
    BY <1>1, <1>3, <2>1 DEF GetThread, Changings
  <2> QED
    BY <1>3, <2>2 DEF GetThread, Typed, server, storage, history
<1>4. ASSUME NEW t \in Threads, NEW l \in Lists(n), Show(t, l)
      PROVE  /\ tab' \in Tabs(n) /\ active' \in Conversations /\ changing' \in Changings(n)
             /\ UNCHANGED <<streams, chain, orphan, work, nextId, faults, changes, unsure>>
  BY <1>1, <1>4 DEF Show, Tabs, Conversations
<1>5. ASSUME ShowThread PROVE Typed'
  <2>1. PICK t \in Threads, l \in Lists(n) : t = changing.thread /\ l = changing.got
    BY <1>1, <1>5 DEF ShowThread, Changings
  <2>2. Show(t, l) /\ saved' = l /\ UNCHANGED <<rows, exists, last>>
    BY <1>5, <2>1 DEF ShowThread, server
  <2> QED
    BY <1>4, <2>1, <2>2 DEF Typed
<1>6. ASSUME NEW t \in Threads, CreateThread(t) PROVE Typed'
  <2>1. Show(t, <<>>) /\ exists' = exists \union {t} /\ UNCHANGED <<rows, saved, last>>
    BY <1>6 DEF CreateThread
  <2> QED
    BY <1>1, <1>4, <2>1 DEF Typed
<1>7. ASSUME LoadFails PROVE Typed'
  <2>1. tab' \in Tabs(n) /\ active' \in Conversations
    <3>1. [LocalMode EXCEPT !.error = TRUE] \in Tabs(n) /\ [tab EXCEPT !.loading = FALSE, !.error = TRUE] \in Tabs(n)
      BY <1>1 DEF Tabs
    <3> QED
      BY <1>1, <1>7, <3>1 DEF LoadFails, Typed
  <2>2. faults' \in Nat
    BY <1>7 DEF LoadFails, Fault, Typed
  <2> QED
    BY <1>1, <1>7, <2>1, <2>2 DEF LoadFails, Typed, server, history
<1> QED
  BY <1>2, <1>3, <1>5, <1>6, <1>7

LEMMA TypedInit == Init => Typed
<1> SUFFICES ASSUME Init PROVE Typed
  OBVIOUS
<1>1. <<>> \in Lists(1) /\ IdleWork \in Works(1) /\ 0 \in 0..(1 - 1) /\ NoThread \in Conversations
  BY EmptyList, ConstantsTyped DEF Conversations
<1>2. tab \in Tabs(1)
  BY <1>1 DEF Init, Tabs
<1>3. changing \in Changings(1)
  BY <1>1, ConstantsTyped DEF Init, Changings, NoChange
<1>4. chain \in Seq(Puts(1)) /\ orphan \in Seq(Puts(1))
  BY DEF Init
<1>5. rows \in [Threads -> Lists(1)] /\ last \in [Threads -> Lists(1)] /\ saved \in Lists(1)
  BY <1>1 DEF Init
<1>6. work \in [Cards -> Works(1)]
  BY <1>1 DEF Init
<1>7. nextId = 1 /\ faults = 0 /\ changes = 0 /\ unsure = {} /\ crossed = FALSE
      /\ exists \subseteq Threads /\ active \in Conversations /\ streams = {}
  BY <1>1 DEF Init
<1>8. nextId \in Nat \ {0} /\ faults \in Nat /\ changes \in Nat
  BY <1>7
<1>9. unsure \subseteq Threads /\ streams \subseteq Streams(nextId)
  BY <1>7
<1>10. crossed \in BOOLEAN
  BY Zenon DEF Init
<1> QED
  BY <1>2, <1>3, <1>4, <1>5, <1>6, <1>7, <1>8, <1>9, <1>10 DEF Typed

(* A step of the chat is one of these.                                     *)
LEMMA TypedNext == Typed /\ [Next]_vars => Typed'
<1> SUFFICES ASSUME Typed, [Next]_vars PROVE Typed'
  OBVIOUS
<1>1. CASE UNCHANGED vars
  BY <1>1 DEF vars, Typed
<1>2. CASE Next
  <2>1. crossed' \in BOOLEAN
    BY <1>2, Zenon DEF Next, Cross
  <2>2. CASE User
    BY <2>1, <2>2, UserTyped, CardTyped DEF User
  <2>3. CASE Run
    BY <2>1, <2>3, CardTyped, PutNextTyped, ThreadTyped DEF Run
  <2>4. CASE OrphanArrives \/ LoadFails
    BY <2>1, <2>4, OrphanTyped, ThreadTyped
  <2>5. ASSUME NEW s \in streams, NEW c \in Cards \union {"none"},
               Stream(s) \/ StreamFails(s) \/ StreamEvent(s, c)
        PROVE  Typed'
    BY <2>1, <2>5, StreamTyped
  <2>6. "none" \in Cards \union {"none"}
    OBVIOUS
  <2> QED
    BY <1>2, <2>2, <2>3, <2>4, <2>5, <2>6 DEF Next
<1> QED
  BY <1>1, <1>2

(* Every variable holds what it should, for any number of messages: ids are *)
(* given out once, and no list repeats one.                                *)
THEOREM ChatTyped == Spec => []Typed
<1> QED
  BY TypedInit, TypedNext, PTL DEF Spec

-----------------------------------------------------------------------------
(* The order of the writes, whatever the user does meanwhile.              *)

(* A conversation that is worked on exists, or is none of the server's; one *)
(* that does not exist has nothing written; one of the server's is shown    *)
(* only with the mode that writes to it.                                   *)
Places == exists \union {Local, NoThread}
Placed ==
  /\ tab.thread \in Places
  /\ tab.thread \in Threads => tab.persist
  /\ \A s \in streams : s.thread \in Places
  /\ \A k \in Cards : work[k].thread \in Places
  /\ changing.thread \in exists \union {NoThread}
  /\ \A i \in DOMAIN chain : chain[i].thread \in exists
  /\ \A i \in DOMAIN orphan : orphan[i].thread \in exists
  /\ \A t \in Threads \ exists : rows[t] = <<>> /\ last[t] = <<>>

(* The newest write of each thread is the last list queued for it, and      *)
(* where none waits the rows are that list.                                *)
Newest(i) == \A j \in DOMAIN chain : j > i => chain[j].thread # chain[i].thread
Ordered ==
  /\ \A i \in DOMAIN chain : Newest(i) => last[chain[i].thread] = chain[i].list
  /\ \A t \in exists \ unsure :
       (\A i \in DOMAIN chain : chain[i].thread # t) => rows[t] = last[t]

(* A step that queues a write, or two for one thread.                      *)
Queues(p, q) ==
  /\ p.thread = q.thread /\ (Queue(<<p, q>>) \/ (p = q /\ Queue(<<q>>)))
  /\ UNCHANGED <<rows, exists, orphan, unsure>>
Idle == UNCHANGED <<chain, last, rows, exists, orphan, unsure>>

LEMMA QueuesEffect ==
  ASSUME Typed, NEW p \in Puts(nextId'), NEW q \in Puts(nextId'), Queues(p, q),
         nextId' \in Nat, nextId <= nextId'
  PROVE  /\ last' = [last EXCEPT ![q.thread] = q.list]
         /\ Len(chain') \in Nat /\ DOMAIN chain' = 1..Len(chain')
         /\ Len(chain') > Len(chain) /\ Len(chain') <= Len(chain) + 2
         /\ DOMAIN chain = 1..Len(chain) /\ Len(chain) \in Nat
         /\ \A i \in 1..Len(chain) : chain'[i] = chain[i]
         /\ \A i \in 1..Len(chain') : i > Len(chain) => chain'[i] \in {p, q}
         /\ chain'[Len(chain')] = q
<1> DEFINE S == Puts(nextId')
<1>1. chain \in Seq(S)
  BY Grown
<1> HIDE DEF S
<1>2. p \in S /\ q \in S
  BY DEF S
<1>3. CASE Queue(<<p, q>>)
  <2>1. chain' = chain \o <<p, q>> /\ last' = [last EXCEPT ![q.thread] = q.list]
    <3>1. Last(<<p, q>>) = q
      BY DEF Last
    <3>2. /\ chain' = chain \o <<p, q>>
          /\ last' = [last EXCEPT ![Last(<<p, q>>).thread] = Last(<<p, q>>).list]
      BY <1>3 DEF Queue
    <3> QED
      BY <3>1, <3>2
  <2> QED
    BY <1>1, <1>2, <2>1, Queued, SMTT(30)
<1>4. CASE p = q /\ Queue(<<q>>)
  <2>1. chain' = chain \o <<q>> /\ last' = [last EXCEPT ![q.thread] = q.list]
    BY <1>1, <1>2, <1>4, Queued DEF Queue
  <2> QED
    BY <1>1, <1>2, <2>1, Queued
<1> QED
  BY <1>3, <1>4 DEF Queues

(* The steps that are about the writes, and the others.                    *)
LEMMA CardWrites ==
  ASSUME Typed, Placed,
         \/ \E i \in DOMAIN tab.msgs : HandleApprove(i) \/ HandleDeny(i) \/ HandleFormSubmit(i)
         \/ ExecuteAction
  PROVE  /\ nextId' \in Nat /\ nextId <= nextId'
         /\ \/ Idle
            \/ \E p \in Puts(nextId'), q \in Puts(nextId') : Queues(p, q) /\ p.thread \in Places
<1> DEFINE n == nextId
<1>1. n \in Nat \ {0} /\ tab.msgs \in Lists(n) /\ tab.thread \in Places
      /\ (\A i \in DOMAIN tab.msgs : tab.msgs[i] \in Msgs(n))
      /\ (\A k \in Cards : work[k] \in Works(n) /\ work[k].thread \in Places)
      /\ "permission" \in Cards
  BY Parts DEF Placed, Cards
<1>2. ASSUME NEW i \in DOMAIN tab.msgs, NEW s \in {"executing", "denied"}, Decide(i, s),
             UNCHANGED <<rows, exists, orphan, unsure, nextId>>
      PROVE  /\ nextId' \in Nat /\ nextId <= nextId'
             /\ \/ Idle
                \/ \E p \in Puts(nextId'), q \in Puts(nextId') : Queues(p, q) /\ p.thread \in Places
  <2> DEFINE l == Marked(tab.msgs, tab.msgs[i].id, s)
  <2>1. l \in Lists(n) /\ 0 \in 0..(n - 1)
    BY <1>1, MarkedList DEF Statuses
  <2>2. CASE Synced(tab.thread, tab.persist)
    <3>1. PICK p \in Puts(n) : p = Put(tab.thread, l, 0) /\ p.thread = tab.thread
      BY <1>1, <2>1, <2>2, PutTyped DEF Synced
    <3>2. Queues(p, p)
      BY <1>2, <2>2, <3>1 DEF Decide, Queues
    <3> QED
      BY <1>1, <1>2, <3>1, <3>2
  <2>3. CASE ~Synced(tab.thread, tab.persist)
    BY <1>1, <1>2, <2>3 DEF Decide, Idle
  <2> QED
    BY <2>2, <2>3
<1>3. ASSUME NEW i \in DOMAIN tab.msgs, HandleApprove(i) \/ HandleDeny(i)
      PROVE  /\ nextId' \in Nat /\ nextId <= nextId'
             /\ \/ Idle
                \/ \E p \in Puts(nextId'), q \in Puts(nextId') : Queues(p, q) /\ p.thread \in Places
  <2>1. PICK s \in {"executing", "denied"} : Decide(i, s)
    BY <1>3 DEF HandleApprove, HandleDeny
  <2>2. UNCHANGED <<rows, exists, orphan, unsure, nextId>>
    BY <1>3 DEF HandleApprove, HandleDeny, server
  <2> QED
    BY <1>2, <2>1, <2>2
<1>4. ASSUME NEW th \in Places, NEW b, NEW marked \in Lists(n), NEW m \in Nat,
             IF Synced(th, b) THEN Queue(<<Put(th, marked, 0), Put(th, Append(marked, Said(n, "tool", m)), n)>>)
                              ELSE UNCHANGED <<chain, last>>,
             UNCHANGED <<rows, exists, orphan, unsure>>, nextId' = n + 1
      PROVE  /\ nextId' \in Nat /\ nextId <= nextId'
             /\ \/ Idle
                \/ \E p \in Puts(nextId'), q \in Puts(nextId') : Queues(p, q) /\ p.thread \in Places
  <2> DEFINE l == Append(marked, Said(n, "tool", m))
  <2>1. l \in Lists(n + 1) /\ marked \in Lists(n + 1)
    BY <1>1, Appended, ListsGrow
  <2>2. n \in 0..((n + 1) - 1) /\ 0 \in 0..((n + 1) - 1) /\ n + 1 \in Nat /\ n <= n + 1
    BY <1>1
  <2>3. CASE Synced(th, b)
    <3> HIDE DEF l
    <3>1. PICK p \in Puts(n + 1) : p = Put(th, marked, 0) /\ p.thread = th
      BY <2>1, <2>2, <2>3, PutTyped DEF Synced
    <3>2. PICK q \in Puts(n + 1) : q = Put(th, l, n) /\ q.thread = th
      BY <2>1, <2>2, <2>3, PutTyped DEF Synced
    <3>3. Queue(<<p, q>>)
      BY <1>4, <2>3, <3>1, <3>2 DEF l
    <3> QED
      BY <1>4, <2>2, <3>1, <3>2, <3>3 DEF Queues
  <2>4. CASE ~Synced(th, b)
    BY <1>4, <2>2, <2>4 DEF Idle
  <2> QED
    BY <2>3, <2>4
<1>5. ASSUME NEW i \in DOMAIN tab.msgs, HandleFormSubmit(i)
      PROVE  /\ nextId' \in Nat /\ nextId <= nextId'
             /\ \/ Idle
                \/ \E p \in Puts(nextId'), q \in Puts(nextId') : Queues(p, q) /\ p.thread \in Places
  <2>1. PICK marked \in Lists(n), m \in Nat, th \in Places :
          /\ marked = Marked(tab.msgs, tab.msgs[i].id, "submitted") /\ m = tab.msgs[i].id
          /\ th = tab.thread
    BY <1>1, MarkedList DEF Statuses, Msgs
  <2>2. /\ IF Synced(th, tab.persist)
           THEN Queue(<<Put(th, marked, 0), Put(th, Append(marked, Said(n, "tool", m)), n)>>)
           ELSE UNCHANGED <<chain, last>>
        /\ UNCHANGED <<rows, exists, orphan, unsure>> /\ nextId' = n + 1
    BY <1>5, <2>1 DEF HandleFormSubmit, server
  <2> QED
    BY <1>4, <2>2
<1>6. ASSUME ExecuteAction
      PROVE  /\ nextId' \in Nat /\ nextId <= nextId'
             /\ \/ Idle
                \/ \E p \in Puts(nextId'), q \in Puts(nextId') : Queues(p, q) /\ p.thread \in Places
  <2>1. PICK s \in {"done", "error"} : Continue("permission", Marked(tab.msgs, work.permission.msg, s))
    BY <1>6 DEF ExecuteAction
  <2>2. PICK marked \in Lists(n), m \in Nat, th \in Places :
          /\ marked = Marked(tab.msgs, work.permission.msg, s) /\ m = work["permission"].msg
          /\ th = work["permission"].thread
    BY <1>1, MarkedList DEF Statuses, Works
  <2>3. /\ IF Synced(th, work["permission"].persist)
           THEN Queue(<<Put(th, marked, 0), Put(th, Append(marked, Said(n, "tool", m)), n)>>)
           ELSE UNCHANGED <<chain, last>>
        /\ UNCHANGED <<rows, exists, orphan, unsure>> /\ nextId' = n + 1
    BY <1>6, <2>1, <2>2 DEF ExecuteAction, Continue, server
  <2> QED
    BY <1>4, <2>3
<1> QED
  BY <1>3, <1>5, <1>6

LEMMA Writes ==
  ASSUME Typed, Placed, Next
  PROVE  /\ nextId' \in Nat /\ nextId <= nextId'
         /\ \/ Idle
            \/ \E p \in Puts(nextId'), q \in Puts(nextId') : Queues(p, q) /\ p.thread \in Places
            \/ PutNext \/ OrphanArrives \/ Reload \/ \E t \in Threads : CreateThread(t)
<1> DEFINE n == nextId
<1>1. n \in Nat \ {0}
  BY Parts
<1>2. ASSUME NEW s \in streams, StreamEnds(s)
      PROVE  nextId' = n /\ (Idle \/ \E p \in Puts(n), q \in Puts(n) : Queues(p, q) /\ p.thread \in Places)
  <2> DEFINE done == [s.copy EXCEPT !.live = FALSE]
             kept == Replaced(tab.msgs, done)
  <2>1. s \in Streams(n) /\ s.copy \in Msgs(n) /\ tab.msgs \in Lists(n) /\ s.thread \in Places
    BY Parts DEF Placed
  <2>2. done \in Msgs(n) /\ done.id \in 0..(n - 1)
    <3>1. s.copy.id \in 1..(n - 1)
      BY <2>1 DEF Msgs
    <3>2. s.copy.id \in 0..(n - 1)
      BY <1>1, <3>1
    <3> QED
      BY <2>1, <3>2 DEF Msgs
  <2>3. kept \in Lists(n)
    BY <1>1, <2>1, <2>2, ReplacedList
  <2>4. CASE Synced(s.thread, s.persist)
    <3>1. s.thread \in Threads /\ n \in Nat
      BY <1>1, <2>4 DEF Synced
    <3>2. Queue(<<Put(s.thread, kept, done.id)>>)
      BY <1>2, <2>4 DEF StreamEnds
    <3> HIDE DEF done, kept
    <3>3. PICK p \in Puts(n) : p = Put(s.thread, kept, done.id) /\ p.thread = s.thread
      BY <2>2, <2>3, <3>1, PutTyped
    <3>4. UNCHANGED <<rows, exists, orphan, unsure, nextId>>
      BY <1>2 DEF StreamEnds, server
    <3>5. Queues(p, p)
      BY <3>2, <3>3, <3>4 DEF Queues
    <3> QED
      BY <2>1, <3>3, <3>4, <3>5
  <2>5. CASE ~Synced(s.thread, s.persist)
    BY <1>2, <2>5 DEF StreamEnds, Idle, server
  <2> QED
    BY <2>4, <2>5
<1>3. ASSUME NEW s \in streams, StreamAborts(s) \/ StreamFails(s) PROVE nextId' = n /\ Idle
  BY <1>3 DEF StreamAborts, StreamFails, Idle, server, history
<1>4. ASSUME NEW s \in streams, NEW c, StreamEvent(s, c) PROVE nextId' = n /\ Idle
  BY <1>4 DEF StreamEvent, Idle, server, history
<1>5. SendMessage => nextId' = n + 2 /\ Idle
  BY DEF SendMessage, Idle, server, history
<1>6. Stop \/ NewThread \/ RetryInit => nextId' = n /\ Idle
  BY DEF Stop, NewThread, RetryInit, Idle, server, history
<1>7. ASSUME NEW t \in exists, SwitchThread(t) PROVE nextId' = n /\ Idle
  BY <1>7 DEF SwitchThread, Idle, server, history
<1>8. ASSUME NEW k \in Cards, TellModel(k) PROVE nextId' = n + 1 /\ Idle
  BY <1>8 DEF TellModel, Idle, server, history
<1>9. InitThreads \/ GetThread => nextId' = n /\ Idle
  BY DEF InitThreads, GetThread, Idle, server, history
<1>10. ShowThread => nextId' = n /\ Idle
  BY DEF ShowThread, Show, Idle, server
<1>11. LoadFails => nextId' = n /\ Idle
  BY DEF LoadFails, Idle, server, history
<1>12. PutNext \/ OrphanArrives \/ Reload => nextId' = n
  BY DEF PutNext, OrphanArrives, Reload
<1>13. ASSUME NEW t \in Threads, CreateThread(t) PROVE nextId' = n
  BY <1>13 DEF CreateThread, Show
<1>14. CASE User
  BY <1>1, <1>5, <1>6, <1>7, <1>12, <1>14, CardWrites DEF User
<1>15. CASE Run
  BY <1>1, <1>8, <1>9, <1>10, <1>12, <1>13, <1>15, CardWrites DEF Run
<1>16. CASE \E s \in streams : Stream(s) \/ StreamFails(s)
                               \/ \E c \in Cards \union {"none"} : StreamEvent(s, c)
  BY <1>1, <1>2, <1>3, <1>4, <1>16 DEF Stream
<1> QED
  BY <1>1, <1>11, <1>12, <1>14, <1>15, <1>16 DEF Next

LEMMA PlacedInit == Init => Placed
BY AssistantAssumption DEF Init, Placed, Places, NoChange, IdleWork

(* Threads only come into being. *)
LEMMA ExistsGrow == Next => exists \subseteq exists'
<1>1. User => exists' = exists
  BY DEF User, SendMessage, Stop, HandleApprove, HandleDeny, HandleFormSubmit, NewThread, Reload,
     RetryInit, SwitchThread, server
<1>2. ASSUME Run PROVE exists \subseteq exists'
  BY <1>2 DEF Run, ExecuteAction, TellModel, PutNext, InitThreads, GetThread, ShowThread, CreateThread, server
<1>3. OrphanArrives \/ LoadFails => exists' = exists
  BY DEF OrphanArrives, LoadFails, server
<1>4. ASSUME NEW s \in streams, NEW c, Stream(s) \/ StreamFails(s) \/ StreamEvent(s, c)
      PROVE  exists' = exists
  BY <1>4 DEF Stream, StreamEnds, StreamAborts, StreamFails, StreamEvent, server
<1> QED
  BY <1>1, <1>2, <1>3, <1>4 DEF Next

(* What a step makes of the threads that are worked on.                    *)
Worked ==
  /\ tab'.thread \in Places'
  /\ tab'.thread \in Threads => tab'.persist
  /\ \A s \in streams' : s.thread \in Places'
  /\ \A k \in Cards : work'[k].thread \in Places'
  /\ changing'.thread \in exists' \union {NoThread}

LEMMA ReturnKeeps ==
  ASSUME Typed, NEW s, NEW l, NEW failed, Return(s, l, failed)
  PROVE  /\ tab'.thread = tab.thread /\ tab'.persist = tab.persist /\ tab'.msgs = l
         /\ tab'.streaming = FALSE /\ tab'.ctrl = 0
         /\ streams' = streams \ {s}
         /\ \A k \in Cards : work'[k] = IF k = s.owner THEN IdleWork ELSE work[k]
BY DEF Typed, Return, Tabs

LEMMA StreamChatKeeps ==
  ASSUME Typed, NEW l, NEW id, NEW th, NEW persist, NEW owner, StreamChat(l, id, th, persist, owner)
  PROVE  /\ tab'.thread = tab.thread /\ tab'.persist = tab.persist
         /\ tab'.msgs = Append(l, Said(id, "assistant", 0))
         /\ tab'.streaming = TRUE /\ tab'.ctrl = id
BY DEF Typed, StreamChat, Tabs

LEMMA AbortKeeps ==
  ASSUME Typed, NEW s \in Abort(streams)
  PROVE  \E r \in streams : /\ s.thread = r.thread /\ s.copy = r.copy /\ s.owner = r.owner
                            /\ s.persist = r.persist /\ s.stage = r.stage
                            /\ r.aborted => s.aborted
                            /\ r.copy.id = tab.ctrl => s.aborted
                            /\ s = r \/ s = [r EXCEPT !.aborted = TRUE]
<1>1. PICK r \in streams : s = IF r.copy.id = tab.ctrl THEN [r EXCEPT !.aborted = TRUE] ELSE r
  BY DEF Abort
<1>2. r \in Streams(nextId)
  BY DEF Typed
<1> QED
  BY <1>1, <1>2 DEF Streams

LEMMA WorkedByStreams ==
  ASSUME Typed, Placed, NEW s \in streams, NEW c \in Cards \union {"none"},
         Stream(s) \/ StreamFails(s) \/ StreamEvent(s, c)
  PROVE  Worked
<1>1. UNCHANGED <<exists, changing>> /\ Places' = Places
  BY DEF Stream, StreamEnds, StreamAborts, StreamFails, StreamEvent, server, Places
<1>2. ASSUME NEW l, NEW failed, Return(s, l, failed) PROVE Worked
  <2>1. tab'.thread = tab.thread /\ tab'.persist = tab.persist /\ streams' = streams \ {s}
        /\ \A k \in Cards : work'[k] = IF k = s.owner THEN IdleWork ELSE work[k]
    BY <1>2, ReturnKeeps
  <2>2. IdleWork.thread \in Places
    BY DEF IdleWork, Places
  <2> QED
    BY <1>1, <2>1, <2>2 DEF Worked, Placed
<1>3. ASSUME NEW r, streams' = (streams \ {s}) \union {r}, r.thread = s.thread,
             NEW l, tab' = [tab EXCEPT !.msgs = l], UNCHANGED work
      PROVE  Worked
  <2>1. tab'.thread = tab.thread /\ tab'.persist = tab.persist
    BY <1>3 DEF Typed, Tabs
  <2> QED
    BY <1>1, <1>3, <2>1 DEF Worked, Placed
<1>4. ASSUME StreamEvent(s, c) PROVE Worked
  <2>1. PICK copy : /\ streams' = (streams \ {s}) \union {[s EXCEPT !.copy = copy]}
                    /\ tab' = [tab EXCEPT !.msgs = Replaced(tab.msgs, copy)] /\ UNCHANGED work
    BY <1>4 DEF StreamEvent
  <2>2. [s EXCEPT !.copy = copy].thread = s.thread
    BY DEF Typed, Streams
  <2> QED
    BY <1>3, <2>1, <2>2
<1>5. ASSUME StreamEnds(s) PROVE Worked
  <2> DEFINE copy == [s.copy EXCEPT !.live = FALSE]
             l == Replaced(tab.msgs, copy)
  <2>1. CASE Synced(s.thread, s.persist)
    <3>1. /\ streams' = (streams \ {s}) \union {[s EXCEPT !.copy = copy, !.stage = "saving"]}
          /\ tab' = [tab EXCEPT !.msgs = l] /\ UNCHANGED work
      BY <1>5, <2>1 DEF StreamEnds
    <3>2. [s EXCEPT !.copy = copy, !.stage = "saving"].thread = s.thread
      BY DEF Typed, Streams
    <3> QED
      BY <1>3, <3>1, <3>2
  <2>2. CASE ~Synced(s.thread, s.persist)
    BY <1>2, <1>5, <2>2 DEF StreamEnds
  <2> QED
    BY <2>1, <2>2
<1> QED
  BY <1>2, <1>4, <1>5 DEF Stream, StreamAborts, StreamFails

LEMMA WorkedByUser ==
  ASSUME Typed, Placed, User
  PROVE  Worked
<1>1. UNCHANGED exists /\ Places' = Places /\ NoThread \in Places /\ Local \in Places
  BY DEF User, SendMessage, Stop, HandleApprove, HandleDeny, HandleFormSubmit, NewThread, Reload,
     RetryInit, SwitchThread, server, Places
<1>2. ASSUME NEW l, NEW persist, tab.thread \in Places,
             StreamChat(l, nextId + 1, tab.thread, persist, "user")
      PROVE  \A s \in streams' : s.thread \in Places
  <2>1. \A s \in Abort(streams) : s.thread \in Places
    BY AbortKeeps DEF Placed
  <2> QED
    BY <1>2, <2>1 DEF StreamChat
<1>3. ASSUME SendMessage PROVE Worked
  <2>1. PICK l : StreamChat(l, nextId + 1, tab.thread, tab.persist, "user")
    BY <1>3 DEF SendMessage
  <2>2. tab'.thread = tab.thread /\ tab'.persist = tab.persist
    BY <2>1, StreamChatKeeps
  <2> QED
    BY <1>1, <1>2, <1>3, <2>1, <2>2 DEF SendMessage, Worked, Placed
<1>4. ASSUME Stop PROVE Worked
  BY <1>1, <1>4, AbortKeeps DEF Stop, Worked, Placed
<1>5. ASSUME NEW i \in DOMAIN tab.msgs, HandleApprove(i) \/ HandleDeny(i) PROVE Worked
  <2>1. tab'.thread = tab.thread /\ tab'.persist = tab.persist
    BY <1>5 DEF HandleApprove, HandleDeny, Decide, Typed, Tabs
  <2>2. \A k \in Cards : work'[k].thread \in Places
    BY <1>1, <1>5 DEF HandleApprove, HandleDeny, Typed, Placed
  <2> QED
    BY <1>1, <1>5, <2>1, <2>2 DEF HandleApprove, HandleDeny, Worked, Placed
<1>6. ASSUME NEW i \in DOMAIN tab.msgs, HandleFormSubmit(i) PROVE Worked
  <2>1. tab'.thread = tab.thread /\ tab'.persist = tab.persist
    BY <1>6 DEF HandleFormSubmit, Typed, Tabs
  <2>2. PICK w : w.thread = tab.thread /\ work' = [work EXCEPT !.form = w]
    <3>1. CASE Synced(tab.thread, tab.persist)
      BY <1>6, <3>1 DEF HandleFormSubmit
    <3>2. CASE ~Synced(tab.thread, tab.persist)
      BY <1>6, <3>2 DEF HandleFormSubmit
    <3> QED
      BY <3>1, <3>2
  <2>3. \A k \in Cards : work'[k].thread \in Places
    BY <1>1, <2>2 DEF Typed, Placed
  <2> QED
    BY <1>1, <1>6, <2>1, <2>3 DEF HandleFormSubmit, Worked, Placed
<1>7. ASSUME NewThread PROVE Worked
  <2>1. \A s \in streams' : s.thread \in Places
    BY <1>7, AbortKeeps DEF NewThread, Placed
  <2>2. CASE tab.persist
    <3>1. tab'.thread = tab.thread /\ tab'.persist = tab.persist
      BY <1>7, <2>2 DEF NewThread, Typed, Tabs
    <3>2. changing'.thread = NoThread /\ UNCHANGED work
      BY <1>7, <2>2 DEF NewThread, NoChange
    <3> QED
      BY <1>1, <2>1, <3>1, <3>2 DEF Worked, Placed
  <2>3. CASE ~tab.persist
    <3>1. tab'.thread = Local /\ Local \notin Threads
      BY <1>7, <2>3, AssistantAssumption DEF NewThread, Typed, Tabs
    <3>2. UNCHANGED <<changing, work>>
      BY <1>7, <2>3 DEF NewThread
    <3> QED
      BY <1>1, <2>1, <3>1, <3>2 DEF Worked, Placed
  <2> QED
    BY <2>2, <2>3
<1>8. ASSUME Reload PROVE Worked
  <2>1. /\ streams' = {} /\ \A k \in Cards : work'[k].thread = NoThread
        /\ changing'.thread = NoThread
    BY <1>8 DEF Reload, IdleWork, NoChange
  <2>2. tab'.thread = NoThread /\ NoThread \notin Threads
    BY <1>8, AssistantAssumption DEF Reload
  <2> QED
    BY <1>1, <2>1, <2>2 DEF Worked
<1>9. ASSUME RetryInit PROVE Worked
  <2>1. changing'.thread = NoThread
    BY <1>9 DEF RetryInit, NoChange
  <2> QED
    BY <1>1, <1>9, <2>1 DEF RetryInit, Worked, Placed
<1>10. ASSUME NEW t \in exists, SwitchThread(t) PROVE Worked
  <2>1. changing'.thread = t
    BY <1>10 DEF SwitchThread, NoChange
  <2>2. tab'.thread = tab.thread /\ tab'.persist = tab.persist /\ streams' = Abort(streams)
        /\ UNCHANGED work
    BY <1>10 DEF SwitchThread, Typed, Tabs
  <2>3. \A s \in streams' : s.thread \in Places
    BY <2>2, AbortKeeps DEF Placed
  <2> QED
    BY <1>1, <2>1, <2>2, <2>3 DEF Worked, Placed
<1> QED
  BY <1>3, <1>4, <1>5, <1>6, <1>7, <1>8, <1>9, <1>10 DEF User

LEMMA WorkedByRun ==
  ASSUME Typed, Placed, Run \/ OrphanArrives \/ LoadFails
  PROVE  Worked
<1> DEFINE n == nextId
<1>1. /\ exists \subseteq exists' /\ Places \subseteq Places'
      /\ NoThread \in Places' /\ Local \in Places'
      /\ Local \notin Threads /\ NoThread \notin Threads
  <2>1. exists \subseteq exists'
    BY DEF Run, ExecuteAction, TellModel, PutNext, InitThreads, GetThread, ShowThread,
       CreateThread, OrphanArrives, LoadFails, server
  <2> QED
    BY <2>1, ConstantsTyped DEF Places
<1>2. ASSUME ExecuteAction PROVE Worked
  <2>1. PICK marked : Continue("permission", marked)
    BY <1>2 DEF ExecuteAction
  <2>2. tab'.thread = tab.thread /\ tab'.persist = tab.persist
    BY <2>1 DEF Continue, Typed, Tabs
  <2>3. \A k \in Cards : work'[k].thread = work[k].thread
    BY <2>1 DEF Continue, Typed, Works
  <2> QED
    BY <1>1, <1>2, <2>2, <2>3 DEF ExecuteAction, Worked, Placed
<1>3. ASSUME NEW k \in Cards, TellModel(k) PROVE Worked
  <2>1. StreamChat(tab.msgs, nextId, work[k].thread, work[k].persist, k)
    BY <1>3 DEF TellModel
  <2>2. tab'.thread = tab.thread /\ tab'.persist = tab.persist
    BY <2>1 DEF StreamChat, Typed, Tabs
  <2>3. \A s \in streams' : s.thread \in Places
    <3>1. \A s \in Abort(streams) : s.thread \in Places
      BY AbortKeeps DEF Placed
    <3> QED
      BY <2>1, <3>1 DEF StreamChat, Placed
  <2>4. \A j \in Cards : work'[j].thread = work[j].thread
    BY <1>3 DEF TellModel, Typed, Works
  <2> QED
    BY <1>1, <1>3, <2>2, <2>3, <2>4 DEF TellModel, Worked, Placed
<1>4. ASSUME PutNext PROVE Worked
  <2>1. PICK p : GoOn(p)
    BY <1>4 DEF PutNext
  <2>2. tab'.thread = tab.thread /\ tab'.persist = tab.persist
    BY <2>1 DEF GoOn, Typed, Tabs
  <2>3. \A k \in Cards : work'[k].thread \in {work[k].thread, NoThread}
    BY <2>1 DEF GoOn, IdleWork, Typed, Works
  <2>4. streams' \subseteq streams
    BY <2>1 DEF GoOn
  <2> QED
    BY <1>1, <1>4, <2>2, <2>3, <2>4 DEF PutNext, Worked, Placed
<1>5. ASSUME OrphanArrives PROVE Worked
  BY <1>1, <1>5 DEF OrphanArrives, Worked, Placed
<1>6. LocalMode.thread = Local /\ LocalMode.persist = FALSE
  BY DEF LocalMode, Typed, Tabs
<1>7. ASSUME InitThreads PROVE Worked
  <2>1. UNCHANGED <<streams, work>>
    BY <1>7 DEF InitThreads
  <2>2. tab' = LocalMode \/ (tab'.thread = tab.thread /\ tab'.persist)
    BY <1>7, InitChooses DEF Typed, Tabs
  <2>3. changing'.thread \in exists \union {NoThread}
    <3>1. \/ changing' = NoChange
          \/ \E t \in exists : changing' = [NoChange EXCEPT !.kind = "load", !.thread = t]
          \/ changing' = [NoChange EXCEPT !.kind = "new"]
      BY <1>7, InitChooses
    <3>2. /\ NoChange.thread = NoThread /\ [NoChange EXCEPT !.kind = "new"].thread = NoThread
          /\ \A t : [NoChange EXCEPT !.kind = "load", !.thread = t].thread = t
      BY DEF NoChange
    <3> QED
      BY <3>1, <3>2
  <2> QED
    BY <1>1, <1>6, <2>1, <2>2, <2>3 DEF Worked, Placed
<1>8. ASSUME GetThread PROVE Worked
  <2>1. changing'.thread = changing.thread
    BY <1>8 DEF GetThread, Typed, Changings
  <2> QED
    BY <1>1, <1>8, <2>1 DEF GetThread, Worked, Placed
<1>9. ASSUME NEW t \in exists', NEW l, Show(t, l) PROVE Worked
  <2>1. tab'.thread = t /\ tab'.persist /\ changing'.thread = NoThread /\ UNCHANGED <<streams, work>>
    BY <1>9 DEF Show, NoChange, Typed, Tabs
  <2>2. t \in Places'
    BY DEF Places
  <2> QED
    BY <1>1, <2>1, <2>2 DEF Worked, Placed
<1>10. ASSUME ShowThread PROVE Worked
  <2>1. changing.thread \in exists
    BY <1>10, ConstantsTyped DEF ShowThread, Typed, Changings, Placed
  <2> QED
    BY <1>1, <1>9, <1>10, <2>1 DEF ShowThread
<1>11. ASSUME NEW t \in Threads, CreateThread(t) PROVE Worked
  <2>1. t \in exists' /\ Show(t, <<>>)
    BY <1>11 DEF CreateThread
  <2> QED
    BY <1>9, <2>1
<1>12. ASSUME LoadFails PROVE Worked
  <2>1. changing'.thread = NoThread /\ UNCHANGED <<streams, work>>
    BY <1>12 DEF LoadFails, NoChange
  <2>2. \/ tab'.thread = Local
        \/ tab'.thread = tab.thread /\ tab'.persist = tab.persist
    BY <1>6, <1>12 DEF LoadFails, LocalMode, Typed, Tabs
  <2> QED
    BY <1>1, <2>1, <2>2 DEF Worked, Placed
<1> QED
  BY <1>2, <1>3, <1>4, <1>5, <1>7, <1>8, <1>10, <1>11, <1>12 DEF Run

(* What waits in the chain after a step.                                   *)
LEMMA ChainPlaced ==
  ASSUME Typed, Placed, Next
  PROVE  /\ \A i \in DOMAIN chain' : chain'[i].thread \in exists'
         /\ \A i \in DOMAIN orphan' : orphan'[i].thread \in exists'
         /\ \A t \in Threads \ exists' : rows'[t] = <<>> /\ last'[t] = <<>>
<1>1. exists \subseteq exists'
  BY ExistsGrow
<1>2. CASE Idle
  BY <1>1, <1>2 DEF Idle, Placed
<1>3. ASSUME NEW p \in Puts(nextId'), NEW q \in Puts(nextId'), Queues(p, q), p.thread \in Places,
             nextId' \in Nat, nextId <= nextId'
      PROVE  /\ \A i \in DOMAIN chain' : chain'[i].thread \in exists'
             /\ \A i \in DOMAIN orphan' : orphan'[i].thread \in exists'
             /\ \A t \in Threads \ exists' : rows'[t] = <<>> /\ last'[t] = <<>>
  <2>1. p.thread \in exists /\ q.thread = p.thread
    BY <1>3, ConstantsTyped DEF Puts, Places, Queues
  <2>2. /\ last' = [last EXCEPT ![q.thread] = q.list]
        /\ DOMAIN chain' = 1..Len(chain') /\ DOMAIN chain = 1..Len(chain) /\ Len(chain) \in Nat
        /\ Len(chain') \in Nat
        /\ \A i \in 1..Len(chain) : chain'[i] = chain[i]
        /\ \A i \in 1..Len(chain') : i > Len(chain) => chain'[i] \in {p, q}
    BY <1>3, QueuesEffect
  <2>3. ASSUME NEW i \in DOMAIN chain' PROVE chain'[i].thread \in exists'
    <3>1. CASE i \in 1..Len(chain)
      BY <1>1, <2>2, <3>1 DEF Placed
    <3>2. CASE i > Len(chain)
      BY <1>1, <2>1, <2>2, <3>2
    <3> QED
      BY <2>2, <3>1, <3>2
  <2>4. \A t \in Threads \ exists : last'[t] = last[t]
    BY <2>1, <2>2 DEF Typed
  <2> QED
    BY <1>1, <1>3, <2>3, <2>4 DEF Queues, Placed
<1>4. ASSUME NEW p \in Puts(nextId), p.thread \in exists
      PROVE  \A t \in Threads \ exists : Write(p)[t] = rows[t]
  BY <1>4 DEF Write, Typed
<1>5. CASE PutNext
  <2>1. chain # <<>> /\ chain \in Seq(Puts(nextId)) /\ chain' = Tail(chain)
    BY <1>5 DEF PutNext, Typed
  <2>2. Head(chain) = chain[1] /\ 1 \in DOMAIN chain /\ DOMAIN chain = 1..Len(chain)
        /\ DOMAIN chain' = 1..(Len(chain) - 1) /\ Len(chain) \in Nat \ {0}
        /\ \A i \in DOMAIN chain' : chain'[i] = chain[i + 1] /\ i + 1 \in DOMAIN chain
    BY <2>1
  <2>3. PICK p \in Puts(nextId) : p = Head(chain) /\ p.thread \in exists
    BY <2>1, <2>2 DEF Placed
  <2>4. rows' = Write(p) \/ UNCHANGED rows
    BY <1>5, <2>3 DEF PutNext
  <2>5. UNCHANGED <<exists, orphan, last>>
    BY <1>5 DEF PutNext
  <2>6. \A t \in Threads \ exists : rows'[t] = rows[t]
    BY <1>4, <2>3, <2>4
  <2> QED
    BY <2>2, <2>5, <2>6 DEF Placed
<1>6. CASE OrphanArrives
  <2>1. orphan # <<>> /\ orphan \in Seq(Puts(nextId)) /\ orphan' = <<>>
    BY <1>6 DEF OrphanArrives, Typed
  <2>2. PICK p \in Puts(nextId) : p = Head(orphan) /\ p.thread \in exists
    BY <2>1 DEF Placed
  <2>3. rows' = Write(p) \/ UNCHANGED rows
    BY <1>6, <2>2 DEF OrphanArrives
  <2>4. UNCHANGED <<exists, chain, last>> /\ DOMAIN orphan' = {}
    BY <1>6, <2>1 DEF OrphanArrives
  <2>5. \A t \in Threads \ exists : rows'[t] = rows[t]
    BY <1>4, <2>2, <2>3
  <2> QED
    BY <2>4, <2>5 DEF Placed
<1>7. CASE Reload
  <2>1. UNCHANGED <<rows, exists, last>> /\ chain' = <<>> /\ DOMAIN chain' = {}
        /\ orphan' = IF chain = <<>> THEN orphan ELSE <<Head(chain)>>
    BY <1>7 DEF Reload, server
  <2>2. CASE chain = <<>>
    BY <2>1, <2>2 DEF Placed
  <2>3. CASE chain # <<>>
    <3>1. Head(chain).thread \in exists
      BY <2>3 DEF Typed, Placed
    <3>2. DOMAIN orphan' = {1} /\ orphan'[1] = Head(chain)
      BY <2>1, <2>3
    <3> QED
      BY <2>1, <3>1, <3>2 DEF Placed
  <2> QED
    BY <2>2, <2>3
<1>8. ASSUME NEW t \in Threads, CreateThread(t)
      PROVE  /\ \A i \in DOMAIN chain' : chain'[i].thread \in exists'
             /\ \A i \in DOMAIN orphan' : orphan'[i].thread \in exists'
             /\ \A u \in Threads \ exists' : rows'[u] = <<>> /\ last'[u] = <<>>
  BY <1>1, <1>8 DEF CreateThread, Show, Placed
<1> QED
  BY <1>2, <1>3, <1>5, <1>6, <1>7, <1>8, Writes

LEMMA PlacedNext == Typed /\ Placed /\ [Next]_vars => Placed'
<1> SUFFICES ASSUME Typed, Placed, [Next]_vars PROVE Placed'
  OBVIOUS
<1>1. CASE UNCHANGED vars
  BY <1>1 DEF vars, Placed, Places
<1>2. CASE Next
  <2>1. Worked
    <3>1. ASSUME NEW s \in streams, NEW c \in Cards \union {"none"},
                 Stream(s) \/ StreamFails(s) \/ StreamEvent(s, c)
          PROVE  Worked
      BY <3>1, WorkedByStreams
    <3>2. "none" \in Cards \union {"none"}
      OBVIOUS
    <3> QED
      BY <1>2, <3>1, <3>2, WorkedByUser, WorkedByRun DEF Next
  <2> QED
    BY <1>2, <2>1, ChainPlaced DEF Worked, Placed
<1> QED
  BY <1>1, <1>2

LEMMA OrderedInit == Init => Ordered
BY DEF Init, Ordered

LEMMA OrderedNext == Typed /\ Placed /\ Ordered /\ [Next]_vars => Ordered'
<1> SUFFICES ASSUME Typed, Placed, Ordered, [Next]_vars PROVE Ordered'
  OBVIOUS
<1>1. CASE UNCHANGED vars
  BY <1>1 DEF vars, Ordered, Newest
<1>2. CASE Idle
  BY <1>2 DEF Idle, Ordered, Newest
<1>3. ASSUME NEW p \in Puts(nextId'), NEW q \in Puts(nextId'), Queues(p, q),
             nextId' \in Nat, nextId <= nextId'
      PROVE  Ordered'
  <2> DEFINE m == Len(chain)
             k == Len(chain')
  <2>1. /\ last' = [last EXCEPT ![q.thread] = q.list] /\ p.thread = q.thread
        /\ UNCHANGED <<rows, exists, unsure>>
        /\ DOMAIN chain' = 1..k /\ DOMAIN chain = 1..m /\ m \in Nat /\ k \in Nat /\ k > m
        /\ \A i \in 1..m : chain'[i] = chain[i]
        /\ \A i \in 1..k : i > m => chain'[i] \in {p, q}
        /\ chain'[k] = q /\ q.thread \in Threads
    BY <1>3, QueuesEffect DEF Queues, Puts
  <2> HIDE DEF m, k
  <2>2. ASSUME NEW i \in 1..k, \A j \in 1..k : j > i => chain'[j].thread # chain'[i].thread
        PROVE  last'[chain'[i].thread] = chain'[i].list
    <3>1. CASE i = k
      BY <2>1, <3>1 DEF Typed
    <3>2. CASE i # k
      <4>1. i < k /\ chain'[i].thread # q.thread
        BY <2>1, <2>2, <3>2
      <4>2. i \in 1..m /\ chain'[i] = chain[i]
        BY <2>1, <4>1
      <4>3. \A j \in 1..m : j > i => chain[j].thread # chain[i].thread
        BY <2>1, <2>2, <4>2
      <4>4. last[chain[i].thread] = chain[i].list
        BY <2>1, <4>2, <4>3 DEF Ordered, Newest
      <4>5. chain[i].thread \in Threads
        BY <2>1, <4>2, Parts DEF Puts
      <4> QED
        BY <2>1, <4>1, <4>2, <4>4, <4>5 DEF Typed
    <3> QED
      BY <3>1, <3>2
  <2>3. ASSUME NEW t \in exists \ unsure, \A i \in 1..k : chain'[i].thread # t
        PROVE  rows[t] = last'[t]
    <3>1. t # q.thread /\ \A i \in 1..m : chain[i].thread # t
      BY <2>1, <2>3
    <3>2. rows[t] = last[t]
      BY <2>1, <3>1 DEF Ordered
    <3> QED
      BY <2>1, <3>1, <3>2 DEF Typed
  <2> QED
    BY <2>1, <2>2, <2>3 DEF Ordered, Newest
<1>4. CASE PutNext
  <2>1. chain # <<>> /\ chain \in Seq(Puts(nextId)) /\ chain' = Tail(chain)
    BY <1>4 DEF PutNext, Typed
  <2> DEFINE m == Len(chain)
  <2>2. Head(chain) = chain[1] /\ 1 \in 1..m /\ DOMAIN chain = 1..m
        /\ DOMAIN chain' = 1..(m - 1) /\ m \in Nat \ {0}
        /\ \A i \in 1..(m - 1) : chain'[i] = chain[i + 1] /\ i + 1 \in 1..m
    BY <2>1
  <2>3. PICK p \in Puts(nextId) : p = chain[1]
    BY <2>1, <2>2
  <2>4. UNCHANGED <<exists, last>>
    BY <1>4 DEF PutNext
  <2>5. \A j \in 2..m : j - 1 \in 1..(m - 1) /\ chain'[j - 1] = chain[j]
    <3>1. \A j \in 2..m : j - 1 \in 1..(m - 1) /\ (j - 1) + 1 = j
      BY <2>2
    <3> QED
      BY <2>2, <3>1
  <2> HIDE DEF m
  <2>6. ASSUME NEW i \in 1..(m - 1), \A j \in 1..(m - 1) : j > i => chain'[j].thread # chain'[i].thread
        PROVE  last'[chain'[i].thread] = chain'[i].list
    <3>1. ASSUME NEW j \in 1..m, j > i + 1 PROVE chain[j].thread # chain[i + 1].thread
      <4>1. j \in 2..m /\ j - 1 > i
        BY <2>2, <3>1
      <4> QED
        BY <2>2, <2>5, <2>6, <4>1
    <3>2. last[chain[i + 1].thread] = chain[i + 1].list
      BY <2>2, <3>1 DEF Ordered, Newest
    <3> QED
      BY <2>2, <2>4, <3>2
  <2>7. ASSUME NEW t \in exists \ unsure', \A i \in 1..(m - 1) : chain'[i].thread # t
        PROVE  rows'[t] = last[t]
    <3>1. \A j \in 2..m : chain[j].thread # t
      BY <2>5, <2>7
    <3>2. CASE p.thread = t
      <4>1. Accepted(p) /\ rows' = Write(p)
        BY <1>4, <2>2, <2>3, <2>7, <3>2 DEF PutNext
      <4>2. rows'[t] = p.list
        BY <4>1, <3>2 DEF Write, Typed, Puts
      <4>3. \A j \in 1..m : j > 1 => chain[j].thread # chain[1].thread
        BY <2>2, <2>3, <3>1, <3>2
      <4>4. last[t] = p.list
        BY <2>2, <2>3, <3>2, <4>3 DEF Ordered, Newest
      <4> QED
        BY <4>2, <4>4
    <3>3. CASE p.thread # t
      <4>1. t \notin unsure
        BY <1>4, <2>2, <2>3, <2>7, <3>3 DEF PutNext
      <4>2. \A j \in 1..m : chain[j].thread # t
        BY <2>2, <2>3, <3>1, <3>3
      <4>3. rows[t] = last[t]
        BY <2>2, <4>1, <4>2 DEF Ordered
      <4>4. rows'[t] = rows[t]
        <5>1. rows' = Write(p) \/ UNCHANGED rows
          BY <1>4, <2>2, <2>3 DEF PutNext
        <5> QED
          BY <3>3, <5>1 DEF Write, Typed
      <4> QED
        BY <4>3, <4>4
    <3> QED
      BY <3>2, <3>3
  <2> QED
    BY <2>2, <2>4, <2>6, <2>7 DEF Ordered, Newest
<1>5. CASE OrphanArrives
  <2>1. orphan # <<>> /\ orphan \in Seq(Puts(nextId))
    BY <1>5 DEF OrphanArrives, Typed
  <2>2. PICK p \in Puts(nextId) : p = Head(orphan)
    BY <2>1
  <2>3. /\ UNCHANGED <<exists, chain, last>> /\ unsure' = unsure \union {p.thread}
        /\ rows' = Write(p) \/ UNCHANGED rows
    BY <1>5, <2>2 DEF OrphanArrives
  <2>4. \A t \in exists \ unsure' : rows'[t] = rows[t]
    BY <2>3 DEF Write, Typed
  <2> QED
    BY <2>3, <2>4 DEF Ordered, Newest
<1>6. CASE Reload
  <2>1. /\ chain' = <<>> /\ unsure' = unsure \union {chain[i].thread : i \in DOMAIN chain}
        /\ UNCHANGED <<rows, exists, last>> /\ DOMAIN chain' = {}
    BY <1>6 DEF Reload, server
  <2> QED
    BY <2>1 DEF Ordered
<1>7. ASSUME NEW t \in Threads, CreateThread(t) PROVE Ordered'
  <2>1. t \notin exists /\ exists' = exists \union {t} /\ UNCHANGED <<rows, last, chain, unsure>>
    BY <1>7 DEF CreateThread, Show
  <2>2. rows[t] = last[t]
    BY <2>1 DEF Placed
  <2> QED
    BY <2>1, <2>2 DEF Ordered, Newest
<1> QED
  BY <1>1, <1>2, <1>3, <1>4, <1>5, <1>6, <1>7, Writes

LEMMA OrderHolds == Spec => [](Typed /\ Placed /\ Ordered)
<1>1. Init => Typed /\ Placed /\ Ordered
  BY TypedInit, PlacedInit, OrderedInit
<1>2. Typed /\ Placed /\ Ordered /\ [Next]_vars => (Typed /\ Placed /\ Ordered)'
  BY TypedNext, PlacedNext, OrderedNext
<1> QED
  BY <1>1, <1>2, PTL DEF Spec

(* When nothing waits in the chain the server has the last list queued for  *)
(* every thread, whatever the user did between, unless the thread's last   *)
(* write failed or was left to a page that is gone.                        *)
THEOREM LastOneWins == Spec => []LastSaveWins
<1>1. Ordered => LastSaveWins
  BY DEF Ordered, LastSaveWins
<1> QED
  BY <1>1, OrderHolds, PTL

-----------------------------------------------------------------------------
(* One conversation at a time: what holds while nothing unfinished meets a  *)
(* change of thread or other unfinished work.                              *)

(* What it means that nothing is crossed.                                  *)
Quiet == chain = <<>> /\ streams = {} /\ \A k \in Cards : work[k].stage = "none"
Calm ==
  /\ orphan = <<>>
  /\ changing.kind # "none" => Quiet
  /\ \A s, r \in streams : s.stage = "open" /\ r.stage = "open" => s = r
  /\ \A j, k \in Cards : work[j].stage # "none" /\ work[k].stage # "none" => j = k
  /\ \A s \in streams : s.stage = "open" =>
       /\ \A k \in Cards : work[k].stage # "none" => k = s.owner
       /\ \A i \in DOMAIN tab.msgs : tab.msgs[i].id = s.copy.id => tab.msgs[i].status = s.copy.status

(* There is one stream, for the thread that is shown, and the stop button   *)
(* has it; while its end is written, what else waits for a write is behind *)
(* it in the chain, so that nothing starts a second stream.                *)
Ahead(s) ==
  /\ \A k \in Cards : work[k].stage # "telling"
  /\ \E i \in DOMAIN chain :
       /\ chain[i].for = s.copy.id
       /\ \A k \in Cards : work[k].stage = "saving" => \A j \in 1..i : chain[j].for # work[k].msg
Streaming(s) ==
  /\ tab.streaming
  /\ s.stage = "open" => tab.ctrl = s.copy.id \/ s.aborted
  /\ s.thread = tab.thread /\ s.persist = tab.persist
  /\ s.owner \in Cards => work[s.owner].stage = "streaming"
  /\ s.stage = "saving" => tab.thread \in Threads /\ Ahead(s)
Reach ==
  /\ \A s, r \in streams : s = r
  /\ \A s \in streams : Streaming(s)
  /\ \A k \in Cards : work[k].stage # "none" =>
       work[k].thread = tab.thread /\ work[k].persist = tab.persist

(* What was said only grows, from the rows along the chain to the list that *)
(* is shown; a stream writes an answer, never over what others said.       *)
Growing(t) ==
  /\ Spoken(rows[t]) \subseteq Spoken(tab.msgs)
  /\ \A i \in DOMAIN chain :
       /\ Spoken(rows[t]) \subseteq Spoken(chain[i].list)
       /\ Spoken(chain[i].list) \subseteq Spoken(tab.msgs)
       /\ \A j \in DOMAIN chain : i <= j => Spoken(chain[i].list) \subseteq Spoken(chain[j].list)
Answers(s, l) ==
  /\ s.copy.role = "assistant"
  /\ \A i \in DOMAIN l : l[i].id = s.copy.id => l[i].role = "assistant"
Grows ==
  /\ \A i \in DOMAIN chain : chain[i].thread = tab.thread
  /\ tab.thread \in Threads => Growing(tab.thread)
  /\ \A s \in streams : Answers(s, tab.msgs)
  /\ changing.kind = "got" => changing.got = rows[changing.thread]

(* A card that is shown as decided is not pending in what would be read     *)
(* back: the last list queued, or the browser's copy of a local one.       *)
Decided(m) == m.card # "none" /\ m.status # "pending"
Keeps(l, k) ==
  \A i \in DOMAIN l, j \in DOMAIN k :
    l[i].id = k[j].id /\ Decided(l[i]) => k[j].status # "pending"
Decisions ==
  /\ tab.thread \in Threads /\ (tab.thread \notin unsure \/ chain # <<>>) =>
       Keeps(tab.msgs, last[tab.thread])
  /\ tab.thread = Local => Keeps(tab.msgs, saved)

Alone == ~crossed => Calm /\ Reach /\ Grows /\ Decisions

LEMMA AloneInit == Init => Alone
<1> SUFFICES ASSUME Init PROVE Calm /\ Reach /\ Grows /\ Decisions
  BY DEF Alone
<1>1. /\ chain = <<>> /\ orphan = <<>> /\ streams = {}
      /\ \A k \in Cards : work[k].stage = "none"
      /\ tab.thread = NoThread /\ changing.kind = "init"
  BY DEF Init, IdleWork, NoChange
<1>2. Calm
  BY <1>1 DEF Calm, Quiet
<1>3. Reach
  BY <1>1 DEF Reach
<1>4. Grows
  BY <1>1, ConstantsTyped DEF Grows
<1>5. Decisions
  BY <1>1, ConstantsTyped DEF Decisions
<1> QED
  BY <1>2, <1>3, <1>4, <1>5

(* A step that crosses nothing comes from a state where nothing is crossed, *)
(* and ends calm.                                                          *)
LEMMA CalmNext ==
  ASSUME Next, ~crossed'
  PROVE  ~crossed /\ Calm' /\ (changes' # changes => Quiet')
<1>1. Cross
  BY DEF Next
<1>2. ~crossed /\ ~Crossing' /\ ~(changes' # changes /\ Unfinished')
  BY <1>1, Zenon DEF Cross
<1>3. changing'.kind # "none" => ~Unfinished'
  BY <1>2 DEF Crossing
<1>4. ~Unfinished' => Quiet'
  BY DEF Unfinished, Busy, Quiet
<1>5. orphan' = <<>>
  BY <1>2 DEF Crossing
<1>6. \A s, r \in streams' : s.stage = "open" /\ r.stage = "open" => s = r
  BY <1>2 DEF Crossing
<1>7. \A j, k \in Cards : work'[j].stage # "none" /\ work'[k].stage # "none" => j = k
  BY <1>2 DEF Crossing, Busy
<1>8. \A s \in streams' : s.stage = "open" =>
        /\ \A k \in Cards : work'[k].stage # "none" => k = s.owner
        /\ \A i \in DOMAIN tab'.msgs : tab'.msgs[i].id = s.copy.id => tab'.msgs[i].status = s.copy.status
  BY <1>2 DEF Crossing, Busy, Undecided
<1> QED
  BY <1>2, <1>3, <1>4, <1>5, <1>6, <1>7, <1>8 DEF Calm

-----------------------------------------------------------------------------
(* What becomes of what was said and decided.                              *)

(* What is decided in k was decided in l. *)
NoNew(l, k) ==
  \A i \in DOMAIN k : Decided(k[i]) => \E j \in DOMAIN l : l[j].id = k[i].id /\ Decided(l[j])

LEMMA SameKeeps ==
  ASSUME NEW n, NEW l \in Lists(n)
  PROVE  Keeps(l, l) /\ NoNew(l, l)
BY DEF Keeps, NoNew, Lists, Once, Decided

LEMMA KeepsVia ==
  ASSUME NEW l, NEW k, NEW x, NoNew(l, k), Keeps(l, x)
  PROVE  Keeps(k, x)
BY DEF Keeps, NoNew

LEMMA AppendSays ==
  ASSUME NEW n \in Nat \ {0}, NEW l \in Lists(n), NEW role \in {"user", "assistant", "tool"},
         NEW a \in Nat
  PROVE  LET k == Append(l, Said(n, role, a)) IN
         /\ Spoken(l) \subseteq Spoken(k)
         /\ NoNew(l, k)
         /\ \A x : Keeps(x, l) => Keeps(x, k)
         /\ \A i \in DOMAIN k : (\E j \in DOMAIN l : k[i] = l[j]) \/ (k[i].id = n /\ k[i].role = role)
<1> DEFINE m == Said(n, role, a)
           k == Append(l, m)
<1>1. m.card = "none" /\ m.status = "none" /\ m.id = n /\ m.role = role
  BY DEF Said
<1>2. /\ DOMAIN l = 1..Len(l) /\ DOMAIN k = 1..(Len(l) + 1) /\ Len(l) \in Nat
      /\ \A i \in 1..Len(l) : k[i] = l[i]
      /\ k[Len(l) + 1] = m
  BY DEF Lists
<1> HIDE DEF m, k
<1>3. \A i \in DOMAIN l : i \in DOMAIN k /\ k[i] = l[i]
  BY <1>2
<1>4. \A i \in DOMAIN k : (\E j \in DOMAIN l : k[i] = l[j]) \/ k[i] = m
  BY <1>2
<1>5. Spoken(l) \subseteq Spoken(k)
  BY <1>3 DEF Spoken
<1>6. NoNew(l, k)
  BY <1>1, <1>4 DEF NoNew, Decided
<1>7. \A x : Keeps(x, l) => Keeps(x, k)
  BY <1>1, <1>4 DEF Keeps
<1> QED
  BY <1>1, <1>4, <1>5, <1>6, <1>7 DEF m, k

LEMMA MarkedSays ==
  ASSUME NEW n \in Nat, NEW l \in Lists(n), NEW id, NEW s \in Statuses \ {"none", "pending"}
  PROVE  LET k == Marked(l, id, s) IN
         /\ Spoken(l) = Spoken(k)
         /\ Keeps(l, k)
         /\ \A i \in DOMAIN k : i \in DOMAIN l /\ k[i].id = l[i].id /\ k[i].role = l[i].role
<1> DEFINE k == Marked(l, id, s)
<1>1. DOMAIN k = DOMAIN l
      /\ \A i \in DOMAIN l : k[i].id = l[i].id /\ k[i].role = l[i].role
                             /\ k[i].status \in {l[i].status, s}
  BY MarkedList
<1> HIDE DEF k
<1>2. Spoken(l) = Spoken(k)
  BY <1>1 DEF Spoken
<1>3. Keeps(l, k)
  BY <1>1, SameKeeps DEF Keeps
<1> QED
  BY <1>1, <1>2, <1>3 DEF k

LEMMA StoredSays ==
  ASSUME NEW n \in Nat, NEW l \in Lists(n)
  PROVE  /\ Spoken(Stored(l)) = Spoken(l)
         /\ \A x : Keeps(x, l) => Keeps(x, Stored(l))
<1> DEFINE k == Stored(l)
<1>1. DOMAIN k = DOMAIN l
      /\ \A i \in DOMAIN l : k[i].id = l[i].id /\ k[i].role = l[i].role /\ k[i].status = l[i].status
  BY StoredList
<1> HIDE DEF k
<1>2. Spoken(k) = Spoken(l)
  BY <1>1 DEF Spoken
<1>3. \A x : Keeps(x, l) => Keeps(x, k)
  BY <1>1 DEF Keeps
<1> QED
  BY <1>2, <1>3 DEF k

(* An answer takes the place of itself.                                    *)
LEMMA ReplacedSays ==
  ASSUME NEW n, NEW l \in Lists(n), NEW m \in Msgs(n), m.role = "assistant",
         \A i \in DOMAIN l : l[i].id = m.id => l[i].role = "assistant",
         \/ \A i \in DOMAIN l : l[i].id = m.id => l[i].status = m.status
         \/ /\ m.status \in {"none", "pending"}
            /\ \A i \in DOMAIN l : l[i].id = m.id => l[i].status = "none"
  PROVE  LET k == Replaced(l, m) IN
         /\ Spoken(l) = Spoken(k)
         /\ Keeps(l, k) /\ NoNew(l, k)
         /\ \A i \in DOMAIN k : i \in DOMAIN l /\ k[i].id = l[i].id /\ k[i].role = l[i].role
<1> DEFINE k == Replaced(l, m)
<1>1. DOMAIN k = DOMAIN l /\ \A i \in DOMAIN l : k[i] = IF l[i].id = m.id THEN m ELSE l[i]
  BY DEF Replaced
<1>2. \A i \in DOMAIN l : l[i] \in Msgs(n)
  BY DEF Lists
<1>3. \A x \in Msgs(n) : x.card = "none" <=> x.status = "none"
  BY DEF Msgs
<1> HIDE DEF k
<1>4. \A i \in DOMAIN l : k[i].id = l[i].id /\ k[i].role = l[i].role
  BY <1>1
<1>5. Spoken(l) = Spoken(k)
  BY <1>1, <1>4 DEF Spoken
<1>6. \A i, j \in DOMAIN l : l[i].id = l[j].id => i = j
  BY DEF Lists, Once
<1>7. \A i \in DOMAIN l : Decided(l[i]) => k[i].status # "pending"
  BY <1>1, <1>2, <1>3 DEF Decided
<1>8. \A i \in DOMAIN l : Decided(k[i]) => Decided(l[i])
  BY <1>1, <1>2, <1>3 DEF Decided
<1>9. Keeps(l, k)
  BY <1>1, <1>4, <1>6, <1>7 DEF Keeps
<1>10. NoNew(l, k)
  BY <1>1, <1>4, <1>8 DEF NoNew
<1> QED
  BY <1>1, <1>4, <1>5, <1>9, <1>10 DEF k

LEMMA DroppedSays ==
  ASSUME NEW n \in Nat, NEW l \in Lists(n), NEW id,
         \A i \in DOMAIN l : l[i].id = id => l[i].role = "assistant"
  PROVE  LET k == Dropped(l, id) IN
         /\ Spoken(l) \subseteq Spoken(k)
         /\ Keeps(l, k) /\ NoNew(l, k)
         /\ \A i \in DOMAIN k : \E j \in DOMAIN l : k[i] = l[j]
<1> DEFINE k == Dropped(l, id)
<1>1. /\ \A i \in DOMAIN k : \E j \in DOMAIN l : k[i] = l[j]
      /\ \A j \in DOMAIN l : l[j].id # id => \E i \in DOMAIN k : k[i] = l[j]
  BY DroppedList
<1> HIDE DEF k
<1>2. Spoken(l) \subseteq Spoken(k)
  BY <1>1 DEF Spoken
<1>3. Keeps(l, k)
  BY <1>1, SameKeeps DEF Keeps
<1>4. NoNew(l, k)
  BY <1>1 DEF NoNew
<1> QED
  BY <1>1, <1>2, <1>3, <1>4 DEF k

LEMMA NoNewVia ==
  ASSUME NEW l, NEW k, NEW m, NoNew(l, k), NoNew(k, m)
  PROVE  NoNew(l, m)
<1> SUFFICES ASSUME NEW i \in DOMAIN m, Decided(m[i])
             PROVE  \E j \in DOMAIN l : l[j].id = m[i].id /\ Decided(l[j])
  BY DEF NoNew
<1>1. PICK h \in DOMAIN k : k[h].id = m[i].id /\ Decided(k[h])
  BY DEF NoNew
<1> QED
  BY <1>1 DEF NoNew

(* A stream answers in a list made from one it answers in.                 *)
LEMMA AnswersFrom ==
  ASSUME NEW s, NEW l, NEW k, Answers(s, l),
         \A i \in DOMAIN k : \E j \in DOMAIN l : k[i].id = l[j].id /\ k[i].role = l[j].role
  PROVE  Answers(s, k)
BY DEF Answers

LEMMA AnswersAppend ==
  ASSUME NEW n \in Nat \ {0}, NEW l \in Lists(n), NEW role \in {"user", "assistant", "tool"},
         NEW a \in Nat, NEW s, Answers(s, l), s.copy.id \in 1..(n - 1)
  PROVE  Answers(s, Append(l, Said(n, role, a)))
<1> DEFINE k == Append(l, Said(n, role, a))
<1>1. \A i \in DOMAIN k : (\E j \in DOMAIN l : k[i] = l[j]) \/ (k[i].id = n /\ k[i].role = role)
  BY AppendSays, SMTT(30)
<1> HIDE DEF k
<1>2. s.copy.id # n
  OBVIOUS
<1>3. Answers(s, k)
  BY <1>1, <1>2 DEF Answers
<1> QED
  BY <1>3 DEF k

LEMMA AnswersNew ==
  ASSUME NEW n \in Nat \ {0}, NEW l \in Lists(n), NEW s, s.copy = Said(n, "assistant", 0)
  PROVE  Answers(s, Append(l, Said(n, "assistant", 0)))
<1> DEFINE k == Append(l, Said(n, "assistant", 0))
<1>1. \A i \in DOMAIN k : (\E j \in DOMAIN l : k[i] = l[j]) \/ (k[i].id = n /\ k[i].role = "assistant")
  BY AppendSays, SMTT(30)
<1>2. s.copy.id = n /\ s.copy.role = "assistant"
  BY DEF Said
<1>3. \A j \in DOMAIN l : l[j].id # n
  <2>1. \A j \in DOMAIN l : l[j].id \in 1..(n - 1)
    BY DEF Lists, Msgs
  <2> QED
    BY <2>1
<1> HIDE DEF k
<1>4. Answers(s, k)
  BY <1>1, <1>2, <1>3 DEF Answers
<1> QED
  BY <1>4 DEF k

(* A step of the conversation that is shown.                               *)
Talks(l) ==
  /\ tab'.msgs = l /\ tab'.thread = tab.thread /\ UNCHANGED changing
  /\ Spoken(tab.msgs) \subseteq Spoken(l) /\ Keeps(tab.msgs, l)
  /\ \A s \in streams' : Answers(s, l)
  /\ \/ \E p \in Puts(nextId'), q \in Puts(nextId') :
          /\ Queues(p, q) /\ p.thread = tab.thread /\ q.list = Stored(l) /\ UNCHANGED saved
          /\ Spoken(tab.msgs) \subseteq Spoken(p.list) /\ Spoken(p.list) \subseteq Spoken(l)
     \/ /\ Idle
        /\ tab.thread \in Threads => NoNew(tab.msgs, l)
        /\ Keeps(l, saved') \/ (NoNew(tab.msgs, l) /\ UNCHANGED saved)

(* How a new list is kept.                                                 *)
LEMMA TalkQueued ==
  ASSUME NEW n \in Nat, nextId' = n, NEW th \in Threads, th = tab.thread,
         NEW l \in Lists(n), NEW for \in 0..(n - 1), Queue(<<Put(th, l, for)>>),
         UNCHANGED <<rows, exists, orphan, unsure, changing, saved>>,
         tab'.msgs = l, tab'.thread = tab.thread,
         Spoken(tab.msgs) \subseteq Spoken(l), Keeps(tab.msgs, l),
         \A s \in streams' : Answers(s, l)
  PROVE  Talks(l)
<1>1. PICK p \in Puts(n) : p = Put(th, l, for) /\ p.thread = th /\ p.list = Stored(l)
  BY PutTyped
<1>2. Queues(p, p)
  BY <1>1 DEF Queues
<1>3. Spoken(p.list) = Spoken(l)
  BY <1>1, StoredSays
<1> QED
  BY <1>1, <1>2, <1>3 DEF Talks

LEMMA TalkQueuedTwo ==
  ASSUME NEW n \in Nat \ {0}, nextId' = n + 1, NEW th \in Threads, th = tab.thread,
         NEW k \in Lists(n), NEW m \in Nat, NEW l, l = Append(k, Said(n, "tool", m)),
         Queue(<<Put(th, k, 0), Put(th, l, n)>>),
         UNCHANGED <<rows, exists, orphan, unsure, changing, saved>>,
         tab'.msgs = l, tab'.thread = tab.thread,
         Spoken(tab.msgs) = Spoken(k), Keeps(tab.msgs, l),
         \A s \in streams' : Answers(s, l)
  PROVE  Talks(l)
<1>1. l \in Lists(n + 1) /\ k \in Lists(n + 1) /\ Spoken(k) \subseteq Spoken(l)
  <2>1. l \in Lists(n + 1)
    BY Appended
  <2>2. k \in Lists(n + 1)
    BY ListsGrow
  <2>3. Spoken(k) \subseteq Spoken(l)
    BY AppendSays
  <2> QED
    BY <2>1, <2>2, <2>3
<1>2. n + 1 \in Nat /\ 0 \in 0..((n + 1) - 1) /\ n \in 0..((n + 1) - 1)
  OBVIOUS
<1>3. PICK p \in Puts(n + 1) : p = Put(th, k, 0) /\ p.thread = th /\ p.list = Stored(k)
  BY <1>1, <1>2, PutTyped
<1>4. PICK q \in Puts(n + 1) : q = Put(th, l, n) /\ q.thread = th /\ q.list = Stored(l)
  BY <1>1, <1>2, PutTyped
<1>5. Queues(p, q)
  BY <1>3, <1>4 DEF Queues
<1>6. Spoken(p.list) = Spoken(k)
  BY <1>1, <1>2, <1>3, StoredSays
<1> QED
  BY <1>1, <1>3, <1>4, <1>5, <1>6 DEF Talks

(* The facts about a state where nothing is crossed that a step starts from. *)
Alones == Typed /\ Placed /\ Calm /\ Reach /\ Grows /\ Decisions

LEMMA AloneParts ==
  ASSUME Alones
  PROVE  /\ nextId \in Nat \ {0} /\ tab.msgs \in Lists(nextId)
         /\ tab.thread \in Threads => Synced(tab.thread, tab.persist)
         /\ \A s \in streams : /\ s \in Streams(nextId) /\ s.copy \in Msgs(nextId)
                               /\ s.copy.id \in 1..(nextId - 1)
                               /\ Answers(s, tab.msgs) /\ s.thread = tab.thread
                               /\ s.persist = tab.persist
         /\ \A k \in Cards : work[k].stage # "none" =>
              work[k].thread = tab.thread /\ work[k].persist = tab.persist
         /\ \A k \in Cards : work[k] \in Works(nextId) /\ work[k].msg \in Nat
         /\ \A i \in DOMAIN tab.msgs : tab.msgs[i] \in Msgs(nextId) /\ tab.msgs[i].id \in Nat
<1>1. \A m \in Msgs(nextId) : m.id \in 1..(nextId - 1) /\ m.id \in Nat
  <2>1. \A m \in Msgs(nextId) : m.id \in 1..(nextId - 1)
    BY DEF Msgs
  <2> QED
    BY <2>1
<1>2. \A k \in Cards : work[k].msg \in Nat
  <2>1. \A k \in Cards : work[k].msg \in 0..(nextId - 1)
    BY Parts DEF Alones, Works
  <2> QED
    BY <2>1
<1> QED
  BY <1>1, <1>2, Parts DEF Alones, Placed, Synced, Reach, Streaming, Grows

LEMMA ReplacedTalk ==
  ASSUME Alones, NEW s \in streams, NEW m \in Msgs(nextId), m.role = "assistant", m.id = s.copy.id,
         s.stage = "open", m.status = s.copy.status \/ (s.copy.card = "none" /\ m.status = "pending")
  PROVE  LET k == Replaced(tab.msgs, m) IN
         /\ k \in Lists(nextId)
         /\ Spoken(tab.msgs) = Spoken(k)
         /\ Keeps(tab.msgs, k) /\ NoNew(tab.msgs, k)
         /\ \A r : Answers(r, tab.msgs) => Answers(r, k)
<1> DEFINE l == tab.msgs
<1>1. l \in Lists(nextId) /\ nextId \in Nat /\ s.copy \in Msgs(nextId)
      /\ \A i \in DOMAIN l : l[i].id = m.id => l[i].role = "assistant"
  BY AloneParts DEF Answers
<1>2. \A i \in DOMAIN l : l[i].id = m.id => l[i].status = s.copy.status
  BY DEF Alones, Calm
<1>3. s.copy.card = "none" => s.copy.status = "none"
  BY <1>1 DEF Msgs
<1>4. \/ \A i \in DOMAIN l : l[i].id = m.id => l[i].status = m.status
      \/ /\ m.status \in {"none", "pending"}
         /\ \A i \in DOMAIN l : l[i].id = m.id => l[i].status = "none"
  BY <1>2, <1>3
<1> DEFINE k == Replaced(l, m)
<1>5. /\ Spoken(l) = Spoken(k) /\ Keeps(l, k) /\ NoNew(l, k)
      /\ \A i \in DOMAIN k : i \in DOMAIN l /\ k[i].id = l[i].id /\ k[i].role = l[i].role
  BY <1>1, <1>4, ReplacedSays
<1>6. k \in Lists(nextId)
  BY <1>1, ReplacedList
<1> HIDE DEF k
<1>7. \A r : Answers(r, l) => Answers(r, k)
  BY <1>5, AnswersFrom
<1> QED
  BY <1>5, <1>6, <1>7 DEF k

LEMMA StreamTalks ==
  ASSUME Alones, NEW s \in streams, NEW c \in Cards \union {"none"},
         Stream(s) \/ StreamFails(s) \/ StreamEvent(s, c)
  PROVE  \E l \in Lists(nextId) : Talks(l)
<1> DEFINE n == nextId
<1>1. /\ n \in Nat \ {0} /\ tab.msgs \in Lists(n)
      /\ tab.thread \in Threads => Synced(tab.thread, tab.persist)
      /\ s \in Streams(n) /\ s.copy \in Msgs(n) /\ s.copy.id \in 1..(n - 1)
      /\ s.copy.role = "assistant" /\ s.thread = tab.thread /\ s.persist = tab.persist
      /\ \A r \in streams : Answers(r, tab.msgs)
      /\ \A r \in streams : r = s
  BY AloneParts DEF Answers, Alones, Reach
<1>2. ASSUME NEW copy \in Msgs(n), copy.id = s.copy.id, copy.role = "assistant",
             NEW l, \A r : Answers(r, tab.msgs) => Answers(r, l), NEW r, r.copy = copy
      PROVE  Answers(r, l)
  <2>1. Answers(r, tab.msgs)
    BY <1>1, <1>2 DEF Answers
  <2> QED
    BY <1>2, <2>1
<1>3. ASSUME NEW l \in Lists(n), NEW failed, Return(s, l, failed), UNCHANGED <<changing, nextId>>, Idle,
             Spoken(tab.msgs) \subseteq Spoken(l), Keeps(tab.msgs, l),
             tab.thread \in Threads => NoNew(tab.msgs, l),
             Keeps(l, saved') \/ (NoNew(tab.msgs, l) /\ UNCHANGED saved),
             \A r : Answers(r, tab.msgs) => Answers(r, l)
      PROVE  Talks(l)
  <2>1. tab'.thread = tab.thread /\ tab'.msgs = l /\ streams' = streams \ {s}
    BY <1>3, ReturnKeeps DEF Alones
  <2> QED
    BY <1>1, <1>3, <2>1 DEF Talks
<1>4. ASSUME StreamEvent(s, c) PROVE \E l \in Lists(n) : Talks(l)
  <2> DEFINE copy == IF c = "none" THEN [s.copy EXCEPT !.text = TRUE]
                     ELSE [s.copy EXCEPT !.card = c, !.status = "pending", !.text = TRUE]
  <2>1. copy \in Msgs(n) /\ copy.id = s.copy.id /\ copy.role = s.copy.role
        /\ (copy.status = s.copy.status \/ copy.status = "pending")
        /\ s.stage = "open" /\ s.copy.card = "none"
    BY <1>1, <1>4 DEF StreamEvent, Msgs, Statuses, Cards
  <2>2. /\ streams' = (streams \ {s}) \union {[s EXCEPT !.copy = copy]}
        /\ tab' = [tab EXCEPT !.msgs = Replaced(tab.msgs, copy)]
        /\ UNCHANGED <<saved, changing, nextId>> /\ Idle
    BY <1>4 DEF StreamEvent, server, storage, history, Idle
  <2> HIDE DEF copy
  <2>3. PICK l : l = Replaced(tab.msgs, copy)
    OBVIOUS
  <2>4. /\ l \in Lists(n) /\ Spoken(tab.msgs) = Spoken(l) /\ Keeps(tab.msgs, l) /\ NoNew(tab.msgs, l)
        /\ \A r : Answers(r, tab.msgs) => Answers(r, l)
    BY <1>1, <2>1, <2>3, ReplacedTalk
  <2>5. tab'.msgs = l /\ tab'.thread = tab.thread /\ [s EXCEPT !.copy = copy].copy = copy
    BY <1>1, <2>2, <2>3 DEF Alones, Typed, Tabs, Streams
  <2>6. \A r \in streams' : Answers(r, l)
    BY <1>1, <1>2, <2>1, <2>2, <2>4, <2>5
  <2> QED
    BY <2>2, <2>4, <2>5, <2>6 DEF Talks
<1> DEFINE done == [s.copy EXCEPT !.live = FALSE]
<1>5. done \in Msgs(n) /\ done.id = s.copy.id /\ done.role = "assistant" /\ done.status = s.copy.status
  BY <1>1 DEF Msgs
<1> HIDE DEF done
<1>6. PICK kept : kept = Replaced(tab.msgs, done)
  OBVIOUS
<1>7. s.stage = "open" =>
        /\ kept \in Lists(n) /\ Spoken(tab.msgs) = Spoken(kept)
        /\ Keeps(tab.msgs, kept) /\ NoNew(tab.msgs, kept)
        /\ \A r : Answers(r, tab.msgs) => Answers(r, kept)
  BY <1>1, <1>5, <1>6, ReplacedTalk
<1>8. PICK less : less = Dropped(tab.msgs, s.copy.id)
  OBVIOUS
<1>9. /\ less \in Lists(n) /\ Spoken(tab.msgs) \subseteq Spoken(less)
      /\ Keeps(tab.msgs, less) /\ NoNew(tab.msgs, less)
      /\ \A r : Answers(r, tab.msgs) => Answers(r, less)
  <2>1. \A i \in DOMAIN tab.msgs : tab.msgs[i].id = s.copy.id => tab.msgs[i].role = "assistant"
    BY <1>1 DEF Answers
  <2>2. /\ Spoken(tab.msgs) \subseteq Spoken(less)
        /\ Keeps(tab.msgs, less) /\ NoNew(tab.msgs, less)
        /\ \A i \in DOMAIN less : \E j \in DOMAIN tab.msgs : less[i] = tab.msgs[j]
    BY <1>1, <1>8, <2>1, DroppedSays
  <2>3. \A i \in DOMAIN less : \E j \in DOMAIN tab.msgs :
          less[i].id = tab.msgs[j].id /\ less[i].role = tab.msgs[j].role
    BY <2>2
  <2>4. \A r : Answers(r, tab.msgs) => Answers(r, less)
    BY <2>3, AnswersFrom
  <2>5. less \in Lists(n)
    BY <1>1, <1>8, DroppedList
  <2> QED
    BY <2>2, <2>4, <2>5
<1>10. ASSUME StreamEnds(s) PROVE \E l \in Lists(n) : Talks(l)
  <2>1. s.stage = "open" /\ UNCHANGED <<rows, exists, orphan, unsure, changing, nextId>>
    BY <1>10 DEF StreamEnds, server
  <2>2. CASE Synced(s.thread, s.persist)
    <3>1. /\ Queue(<<Put(s.thread, kept, done.id)>>) /\ tab' = [tab EXCEPT !.msgs = kept]
          /\ streams' = (streams \ {s}) \union {[s EXCEPT !.copy = done, !.stage = "saving"]}
          /\ UNCHANGED saved
      BY <1>6, <1>10, <2>2 DEF StreamEnds, done
    <3>2. tab'.msgs = kept /\ tab'.thread = tab.thread
          /\ [s EXCEPT !.copy = done, !.stage = "saving"].copy = done
      BY <1>1, <3>1 DEF Alones, Typed, Tabs, Streams
    <3>3. \A r \in streams' : Answers(r, kept)
      BY <1>1, <1>2, <1>5, <1>7, <2>1, <3>1, <3>2
    <3>4. PICK th \in Threads, for \in 0..(n - 1) : th = s.thread /\ for = done.id
      <4>1. done.id \in 0..(n - 1)
        BY <1>1, <1>5
      <4> QED
        BY <2>2, <4>1 DEF Synced
    <3>5. Queue(<<Put(th, kept, for)>>) /\ th = tab.thread /\ nextId' = n
      BY <1>1, <2>1, <3>1, <3>4
    <3> QED
      BY <1>1, <1>7, <2>1, <3>1, <3>2, <3>3, <3>5, TalkQueued
  <2>3. CASE ~Synced(s.thread, s.persist)
    <3>1. Return(s, kept, FALSE) /\ saved' = kept /\ UNCHANGED <<chain, last>>
      BY <1>6, <1>10, <2>3 DEF StreamEnds, done
    <3>2. Idle
      BY <2>1, <3>1 DEF Idle
    <3>3. Keeps(kept, kept)
      BY <1>7, <2>1, SameKeeps
    <3> QED
      BY <1>3, <1>7, <2>1, <3>1, <3>2, <3>3
  <2> QED
    BY <2>2, <2>3
<1>11. ASSUME StreamAborts(s) \/ StreamFails(s) PROVE \E l \in Lists(n) : Talks(l)
  <2>1. s.stage = "open" /\ UNCHANGED <<saved, changing, nextId>> /\ Idle
    BY <1>11 DEF StreamAborts, StreamFails, server, storage, history, Idle
  <2>2. PICK l \in {kept, less}, failed \in BOOLEAN : Return(s, l, failed)
    <3>1. CASE StreamAborts(s)
      <4>1. CASE s.copy.text
        BY <1>6, <3>1, <4>1 DEF StreamAborts, done
      <4>2. CASE ~s.copy.text
        BY <1>8, <3>1, <4>2 DEF StreamAborts
      <4> QED
        BY <4>1, <4>2
    <3>2. CASE StreamFails(s)
      BY <1>8, <3>2 DEF StreamFails
    <3> QED
      BY <1>11, <3>1, <3>2
  <2>3. /\ l \in Lists(n) /\ Spoken(tab.msgs) \subseteq Spoken(l)
        /\ Keeps(tab.msgs, l) /\ NoNew(tab.msgs, l)
        /\ \A r : Answers(r, tab.msgs) => Answers(r, l)
    BY <1>7, <1>9, <2>1, <2>2
  <2> QED
    BY <1>3, <2>1, <2>2, <2>3
<1> QED
  BY <1>4, <1>10, <1>11 DEF Stream

LEMMA StreamChatTalks ==
  ASSUME Alones, NEW n \in Nat \ {0}, nextId <= n, nextId' = n + 1, NEW l \in Lists(n),
         NEW th, NEW persist, NEW owner, StreamChat(l, n, th, persist, owner),
         Spoken(tab.msgs) \subseteq Spoken(l), NoNew(tab.msgs, l), Keeps(tab.msgs, l),
         \A s \in streams : Answers(s, l),
         Idle, UNCHANGED changing, UNCHANGED saved \/ saved' = l
  PROVE  \E k \in Lists(nextId') : Talks(k)
<1>1. PICK k : k = Append(l, Said(n, "assistant", 0))
  OBVIOUS
<1>2. k \in Lists(n + 1)
  BY <1>1, Appended
<1>3. Spoken(l) \subseteq Spoken(k) /\ NoNew(l, k) /\ (\A x : Keeps(x, l) => Keeps(x, k))
  BY <1>1, AppendSays
<1>4. tab'.thread = tab.thread /\ tab'.msgs = k
  BY <1>1, StreamChatKeeps DEF Alones
<1>5. NoNew(tab.msgs, k)
  BY <1>3, NoNewVia
<1>6. saved' = l => Keeps(k, saved')
  BY <1>3, SameKeeps, KeepsVia
<1>7. \A s \in streams' : Answers(s, k)
  <2>1. \A r \in streams : r.copy.id \in 1..(n - 1) /\ Answers(r, l)
    <3>1. \A r \in streams : r.copy.id \in 1..(nextId - 1) /\ nextId \in Nat
      BY AloneParts
    <3> QED
      BY <3>1
  <2>2. \A r \in streams : Answers(r, k)
    BY <1>1, <2>1, AnswersAppend
  <2>3. \A s \in Abort(streams) : Answers(s, k)
    BY <2>2, AbortKeeps DEF Alones, Answers
  <2>4. PICK new : new.copy = Said(n, "assistant", 0) /\ streams' = Abort(streams) \union {new}
    BY DEF StreamChat
  <2>5. Answers(new, k)
    BY <1>1, <2>4, AnswersNew
  <2> QED
    BY <2>3, <2>4, <2>5
<1> QED
  BY <1>2, <1>3, <1>4, <1>5, <1>6, <1>7 DEF Talks

LEMMA MarkedTalk ==
  ASSUME Alones, NEW id, NEW s \in Statuses \ {"none", "pending"}
  PROVE  LET k == Marked(tab.msgs, id, s) IN
         /\ k \in Lists(nextId) /\ Spoken(tab.msgs) = Spoken(k) /\ Keeps(tab.msgs, k)
         /\ \A r \in streams : Answers(r, k)
<1> DEFINE k == Marked(tab.msgs, id, s)
<1>1. /\ Spoken(tab.msgs) = Spoken(k) /\ Keeps(tab.msgs, k)
      /\ \A i \in DOMAIN k : i \in DOMAIN tab.msgs /\ k[i].id = tab.msgs[i].id /\ k[i].role = tab.msgs[i].role
  BY AloneParts, MarkedSays
<1>2. k \in Lists(nextId)
  BY AloneParts, MarkedList
<1> HIDE DEF k
<1>3. \A r \in streams : Answers(r, k)
  BY <1>1, AloneParts, AnswersFrom
<1> QED
  BY <1>1, <1>2, <1>3 DEF k

(* A result that is appended to the marked list.                           *)
LEMMA ResultTalks ==
  ASSUME Alones, NEW id, NEW s \in Statuses \ {"none", "pending"}, NEW m \in Nat,
         NEW marked, marked = Marked(tab.msgs, id, s),
         NEW l, l = Append(marked, Said(nextId, "tool", m)),
         NEW th, th = tab.thread, NEW b, b = tab.persist, nextId' = nextId + 1,
         tab' = [tab EXCEPT !.msgs = l], UNCHANGED <<rows, exists, orphan, unsure, changing, streams>>,
         IF Synced(th, b) THEN Queue(<<Put(th, marked, 0), Put(th, l, nextId)>>) /\ UNCHANGED saved
                          ELSE saved' = l /\ UNCHANGED <<chain, last>>
  PROVE  \E k \in Lists(nextId') : Talks(k)
<1> DEFINE n == nextId
<1>1. n \in Nat \ {0} /\ (tab.thread \in Threads => Synced(th, b))
  BY AloneParts
<1>2. marked \in Lists(n) /\ Spoken(tab.msgs) = Spoken(marked) /\ Keeps(tab.msgs, marked)
      /\ \A r \in streams : Answers(r, marked)
  BY MarkedTalk
<1>3. l \in Lists(n + 1)
  BY <1>1, <1>2, Appended
<1>4. Spoken(marked) \subseteq Spoken(l) /\ Keeps(tab.msgs, l)
  BY <1>1, <1>2, AppendSays
<1>5. tab'.msgs = l /\ tab'.thread = tab.thread
  BY DEF Alones, Typed, Tabs
<1>6. \A r \in streams : Answers(r, l)
  BY <1>1, <1>2, AloneParts, AnswersAppend
<1>7. CASE Synced(th, b)
  <2>1. th \in Threads /\ Queue(<<Put(th, marked, 0), Put(th, l, n)>>) /\ UNCHANGED saved
    BY <1>7 DEF Synced
  <2>2. Talks(l)
    BY <1>1, <1>2, <1>4, <1>5, <1>6, <2>1, TalkQueuedTwo
  <2> QED
    BY <1>3, <2>2
<1>8. CASE ~Synced(th, b)
  <2>1. saved' = l /\ Idle /\ tab.thread \notin Threads
    BY <1>1, <1>8 DEF Idle
  <2>2. Keeps(l, saved')
    BY <1>3, <2>1, SameKeeps
  <2> QED
    BY <1>2, <1>3, <1>4, <1>5, <1>6, <2>1, <2>2 DEF Talks
<1> QED
  BY <1>7, <1>8

LEMMA DecideTalks ==
  ASSUME Alones, NEW i \in DOMAIN tab.msgs, NEW s \in Statuses \ {"none", "pending"}, Decide(i, s),
         UNCHANGED <<rows, exists, orphan, unsure, changing, streams, nextId>>
  PROVE  \E k \in Lists(nextId') : Talks(k)
<1> DEFINE n == nextId
<1>1. n \in Nat \ {0} /\ (tab.thread \in Threads => Synced(tab.thread, tab.persist))
  BY AloneParts
<1>2. PICK l : l = Marked(tab.msgs, tab.msgs[i].id, s)
  OBVIOUS
<1>3. /\ tab' = [tab EXCEPT !.msgs = l]
      /\ IF Synced(tab.thread, tab.persist)
         THEN Queue(<<Put(tab.thread, l, 0)>>) /\ UNCHANGED saved
         ELSE saved' = l /\ UNCHANGED <<chain, last>>
  BY <1>2 DEF Decide
<1>4. l \in Lists(n) /\ Spoken(tab.msgs) = Spoken(l) /\ Keeps(tab.msgs, l)
      /\ \A r \in streams : Answers(r, l)
  BY <1>2, MarkedTalk
<1>5. tab'.msgs = l /\ tab'.thread = tab.thread
  BY <1>3 DEF Alones, Typed, Tabs
<1>6. CASE Synced(tab.thread, tab.persist)
  <2>1. PICK th \in Threads, for \in 0..(n - 1) : th = tab.thread /\ for = 0
    <3>1. 0 \in 0..(n - 1)
      BY <1>1
    <3> QED
      BY <1>6, <3>1 DEF Synced
  <2>2. Queue(<<Put(th, l, for)>>) /\ UNCHANGED saved
    BY <1>3, <1>6, <2>1
  <2>3. Talks(l)
    BY <1>1, <1>4, <1>5, <2>1, <2>2, TalkQueued
  <2> QED
    BY <1>4, <2>3
<1>7. CASE ~Synced(tab.thread, tab.persist)
  <2>1. saved' = l /\ Idle /\ tab.thread \notin Threads
    BY <1>1, <1>3, <1>7 DEF Idle
  <2>2. Keeps(l, saved')
    BY <1>4, <2>1, SameKeeps
  <2> QED
    BY <1>4, <1>5, <2>1, <2>2 DEF Talks
<1> QED
  BY <1>6, <1>7

LEMMA CardTalks ==
  ASSUME Alones,
         \/ SendMessage \/ Stop
         \/ \E i \in DOMAIN tab.msgs : HandleApprove(i) \/ HandleDeny(i) \/ HandleFormSubmit(i)
         \/ ExecuteAction \/ \E k \in Cards : TellModel(k)
  PROVE  \E l \in Lists(nextId') : Talks(l)
<1> DEFINE n == nextId
<1>1. n \in Nat \ {0} /\ tab.msgs \in Lists(n) /\ Keeps(tab.msgs, tab.msgs) /\ NoNew(tab.msgs, tab.msgs)
      /\ \A s \in streams : Answers(s, tab.msgs) /\ s.copy.id \in 1..(n - 1)
  BY AloneParts, SameKeeps
<1>2. ASSUME SendMessage PROVE \E l \in Lists(nextId') : Talks(l)
  <2>1. PICK l : l = Append(tab.msgs, Said(n, "user", 0))
    OBVIOUS
  <2>2. l \in Lists(n + 1)
    BY <1>1, <2>1, Appended
  <2>3. Spoken(tab.msgs) \subseteq Spoken(l) /\ NoNew(tab.msgs, l) /\ Keeps(tab.msgs, l)
    BY <1>1, <2>1, AppendSays
  <2>4. \A s \in streams : Answers(s, l)
    BY <1>1, <2>1, AnswersAppend
  <2>5. PICK m \in Nat \ {0} : m = n + 1 /\ n <= m
    BY <1>1
  <2>6. /\ StreamChat(l, m, tab.thread, tab.persist, "user") /\ saved' = l /\ nextId' = n + 2
        /\ Idle /\ UNCHANGED changing
    BY <1>2, <2>1, <2>5 DEF SendMessage, Idle, server, history
  <2>7. nextId' = m + 1
    BY <1>1, <2>5, <2>6
  <2> QED
    BY <2>2, <2>3, <2>4, <2>5, <2>6, <2>7, StreamChatTalks
<1>3. ASSUME Stop PROVE \E l \in Lists(nextId') : Talks(l)
  <2>1. UNCHANGED <<tab, changing, saved, nextId>> /\ Idle /\ streams' = Abort(streams)
    BY <1>3 DEF Stop, server, storage, history, Idle
  <2>2. \A s \in streams' : Answers(s, tab.msgs)
    BY <1>1, <2>1, AbortKeeps DEF Alones, Answers
  <2> QED
    BY <1>1, <2>1, <2>2 DEF Talks
<1>4. ASSUME NEW i \in DOMAIN tab.msgs, HandleApprove(i) \/ HandleDeny(i)
      PROVE  \E l \in Lists(nextId') : Talks(l)
  <2>1. PICK s \in Statuses \ {"none", "pending"} : Decide(i, s)
    BY <1>4 DEF HandleApprove, HandleDeny, Statuses
  <2>2. UNCHANGED <<rows, exists, orphan, unsure, changing, streams, nextId>>
    BY <1>4 DEF HandleApprove, HandleDeny, server
  <2> QED
    BY <2>1, <2>2, DecideTalks
<1>5. ASSUME NEW i \in DOMAIN tab.msgs, HandleFormSubmit(i) PROVE \E l \in Lists(nextId') : Talks(l)
  <2>1. PICK m \in Nat, s \in Statuses \ {"none", "pending"} : m = tab.msgs[i].id /\ s = "submitted"
    BY AloneParts DEF Statuses
  <2>2. PICK marked : marked = Marked(tab.msgs, m, s)
    OBVIOUS
  <2>3. PICK l : l = Append(marked, Said(n, "tool", m))
    OBVIOUS
  <2>4. /\ tab' = [tab EXCEPT !.msgs = l] /\ nextId' = n + 1
        /\ UNCHANGED <<rows, exists, orphan, unsure, changing, streams>>
        /\ IF Synced(tab.thread, tab.persist)
           THEN Queue(<<Put(tab.thread, marked, 0), Put(tab.thread, l, n)>>) /\ UNCHANGED saved
           ELSE saved' = l /\ UNCHANGED <<chain, last>>
    BY <1>5, <2>1, <2>2, <2>3 DEF HandleFormSubmit, server
  <2>5. PICK th, b : th = tab.thread /\ b = tab.persist
    OBVIOUS
  <2>6. IF Synced(th, b) THEN Queue(<<Put(th, marked, 0), Put(th, l, n)>>) /\ UNCHANGED saved
                         ELSE saved' = l /\ UNCHANGED <<chain, last>>
    BY <2>4, <2>5
  <2> QED
    BY <2>2, <2>3, <2>4, <2>5, <2>6, ResultTalks
<1>6. ASSUME ExecuteAction PROVE \E l \in Lists(nextId') : Talks(l)
  <2>1. PICK s \in Statuses \ {"none", "pending"} :
          Continue("permission", Marked(tab.msgs, work.permission.msg, s))
    BY <1>6 DEF ExecuteAction, Statuses
  <2>2. "permission" \in Cards /\ work["permission"].stage # "none"
    BY <1>6 DEF ExecuteAction, Cards
  <2>3. PICK m, th, b : m \in Nat /\ m = work["permission"].msg /\ th = work["permission"].thread
                                /\ b = work["permission"].persist
    BY <2>2, AloneParts
  <2>4. th = tab.thread /\ b = tab.persist
    BY <2>2, <2>3, AloneParts
  <2>5. PICK marked : marked = Marked(tab.msgs, m, s)
    OBVIOUS
  <2>6. PICK l : l = Append(marked, Said(n, "tool", m))
    OBVIOUS
  <2>7. /\ tab' = [tab EXCEPT !.msgs = l] /\ nextId' = n + 1
        /\ IF Synced(th, b) THEN Queue(<<Put(th, marked, 0), Put(th, l, n)>>) /\ UNCHANGED saved
                            ELSE saved' = l /\ UNCHANGED <<chain, last>>
    BY <2>1, <2>3, <2>5, <2>6 DEF Continue
  <2>8. UNCHANGED <<rows, exists, orphan, unsure, changing, streams>>
    BY <1>6 DEF ExecuteAction, server
  <2> QED
    BY <2>3, <2>4, <2>5, <2>6, <2>7, <2>8, ResultTalks
<1>7. ASSUME NEW k \in Cards, TellModel(k) PROVE \E l \in Lists(nextId') : Talks(l)
  <2>1. PICK l \in Lists(n), m \in Nat \ {0} : l = tab.msgs /\ m = n
    BY <1>1
  <2>2. PICK th, b : StreamChat(l, m, th, b, k)
    BY <1>7, <2>1 DEF TellModel
  <2>3. nextId' = m + 1 /\ Idle /\ UNCHANGED <<changing, saved>> /\ n <= m
    BY <1>1, <1>7, <2>1 DEF TellModel, Idle, server, storage, history
  <2> QED
    BY <1>1, <2>1, <2>2, <2>3, StreamChatTalks
<1> QED
  BY <1>2, <1>3, <1>4, <1>5, <1>6, <1>7

-----------------------------------------------------------------------------
(* What a step keeps of what was said and decided.                         *)

Remembers ==
  /\ tab'.thread = tab.thread /\ tab.thread \notin unsure => Keeps(tab.msgs, tab'.msgs)
  /\ \A t \in Threads : Spoken(rows[t]) \subseteq Spoken(rows'[t])

LEMMA TalkRemembers ==
  ASSUME Alones, Calm', NEW l \in Lists(nextId'), Talks(l), nextId' \in Nat, nextId <= nextId'
  PROVE  Grows' /\ Decisions' /\ Remembers
<1> DEFINE th == tab.thread
<1>1. /\ tab'.msgs = l /\ tab'.thread = th /\ UNCHANGED changing
      /\ Spoken(tab.msgs) \subseteq Spoken(l) /\ Keeps(tab.msgs, l)
      /\ \A s \in streams' : Answers(s, l)
  BY DEF Talks
<1>2. \A i \in DOMAIN chain : chain[i].thread = th
  BY DEF Alones, Grows
<1>3. th \in Threads => Growing(th)
  BY DEF Alones, Grows
<1>4. UNCHANGED rows /\ Remembers
  BY <1>1 DEF Talks, Queues, Idle, Remembers
<1>5. changing'.kind = "got" => changing'.got = rows'[changing'.thread]
  BY <1>1, <1>4 DEF Alones, Grows
<1>6. ASSUME NEW p \in Puts(nextId'), NEW q \in Puts(nextId'), Queues(p, q), p.thread = th,
             q.list = Stored(l),
             Spoken(tab.msgs) \subseteq Spoken(p.list), Spoken(p.list) \subseteq Spoken(l)
      PROVE  Grows' /\ Decisions'
  <2> DEFINE m == Len(chain)
             k == Len(chain')
  <2>1. /\ last' = [last EXCEPT ![q.thread] = q.list] /\ p.thread = q.thread
        /\ DOMAIN chain' = 1..k /\ DOMAIN chain = 1..m /\ m \in Nat /\ k \in Nat /\ k > m /\ k <= m + 2
        /\ \A i \in 1..m : chain'[i] = chain[i]
        /\ \A i \in 1..k : i > m => chain'[i] \in {p, q}
        /\ chain'[k] = q /\ q.thread \in Threads
    BY <1>6, QueuesEffect DEF Queues, Puts, Alones
  <2>2. Spoken(q.list) = Spoken(l) /\ Keeps(l, q.list)
    BY <1>6, SameKeeps, StoredSays
  <2> HIDE DEF m, k
  <2>3. \A i \in 1..k : chain'[i].thread = th
    <3>1. \A i \in 1..k : i \in 1..m \/ i > m
      BY <2>1
    <3> QED
      BY <1>2, <1>6, <2>1, <3>1
  <2>4. Growing(th)
    BY <1>3, <1>6, <2>1
  <2>5. \A i \in 1..k : /\ Spoken(rows[th]) \subseteq Spoken(chain'[i].list)
                        /\ Spoken(chain'[i].list) \subseteq Spoken(l)
    <3>1. ASSUME NEW i \in 1..m
          PROVE  Spoken(rows[th]) \subseteq Spoken(chain'[i].list) /\ Spoken(chain'[i].list) \subseteq Spoken(l)
      BY <1>1, <2>1, <2>4 DEF Growing
    <3>2. ASSUME NEW i \in 1..k, i > m
          PROVE  Spoken(rows[th]) \subseteq Spoken(chain'[i].list) /\ Spoken(chain'[i].list) \subseteq Spoken(l)
      BY <1>6, <2>1, <2>2, <2>4, <3>2 DEF Growing
    <3>3. \A i \in 1..k : i \in 1..m \/ i > m
      BY <2>1
    <3> QED
      BY <3>1, <3>2, <3>3
  <2>6. ASSUME NEW i \in 1..k, NEW j \in 1..k, i <= j
        PROVE  Spoken(chain'[i].list) \subseteq Spoken(chain'[j].list)
    <3>1. CASE j \in 1..m
      <4>1. i \in 1..m
        BY <2>1, <2>6, <3>1
      <4> QED
        BY <2>1, <2>4, <2>6, <3>1, <4>1 DEF Growing
    <3>2. CASE j > m /\ i \in 1..m
      <4>1. Spoken(chain'[i].list) \subseteq Spoken(tab.msgs)
        BY <2>1, <2>4, <3>2 DEF Growing
      <4>2. chain'[j] \in {p, q}
        BY <2>1, <3>2
      <4> QED
        BY <1>1, <1>6, <2>2, <4>1, <4>2
    <3>3. CASE i > m /\ j > m
      <4>1. i = j \/ j = k
        BY <2>1, <2>6, <3>3
      <4> QED
        BY <2>1, <2>2, <2>5, <4>1
    <3> QED
      BY <2>1, <3>1, <3>2, <3>3
  <2>7. Spoken(rows[th]) \subseteq Spoken(l)
    BY <1>1, <2>4 DEF Growing
  <2>8. Grows'
    BY <1>1, <1>4, <1>5, <2>1, <2>3, <2>5, <2>6, <2>7 DEF Grows, Growing
  <2>9. last'[th] = q.list
    BY <1>6, <2>1 DEF Alones, Typed
  <2>10. th # Local
    BY <1>6, <2>1, ConstantsTyped
  <2>11. Decisions'
    BY <1>1, <2>2, <2>9, <2>10 DEF Decisions
  <2> QED
    BY <2>8, <2>11
<1>7. ASSUME Idle, th \in Threads => NoNew(tab.msgs, l),
             Keeps(l, saved') \/ (NoNew(tab.msgs, l) /\ UNCHANGED saved)
      PROVE  Grows' /\ Decisions'
  <2>1. UNCHANGED <<chain, last, unsure>>
    BY <1>7 DEF Idle
  <2>2. Grows'
    BY <1>1, <1>2, <1>3, <1>4, <1>5, <2>1 DEF Grows, Growing
  <2>3. th \in Threads /\ (th \notin unsure \/ chain # <<>>) => Keeps(l, last[th])
    BY <1>7, KeepsVia DEF Alones, Decisions
  <2>4. th = Local => Keeps(l, saved')
    BY <1>7, KeepsVia DEF Alones, Decisions
  <2> QED
    BY <1>1, <2>1, <2>2, <2>3, <2>4 DEF Decisions
<1> QED
  BY <1>4, <1>6, <1>7 DEF Talks

LEMMA PutNextRemembers ==
  ASSUME Alones, PutNext
  PROVE  Grows' /\ Decisions' /\ Remembers
<1> DEFINE th == tab.thread
           m == Len(chain)
<1>1. chain # <<>> /\ chain \in Seq(Puts(nextId)) /\ chain' = Tail(chain)
  BY DEF PutNext, Alones, Typed
<1>2. /\ Head(chain) = chain[1] /\ 1 \in 1..m /\ DOMAIN chain = 1..m
      /\ DOMAIN chain' = 1..(m - 1) /\ m \in Nat \ {0}
      /\ \A i \in 1..(m - 1) : chain'[i] = chain[i + 1] /\ i + 1 \in 1..m
  BY <1>1
<1> HIDE DEF m
<1>3. PICK p \in Puts(nextId) : p = chain[1] /\ p = Head(chain)
  BY <1>1, <1>2
<1>4. p.thread = th /\ th \in Threads /\ Growing(th)
  BY <1>2, <1>3 DEF Alones, Grows, Puts
<1>5. /\ UNCHANGED <<last, changing>> /\ changing.kind = "none"
      /\ rows' = Write(p) \/ UNCHANGED rows
  BY <1>1, <1>3 DEF PutNext, Alones, Calm, Quiet
<1>6. tab'.msgs = tab.msgs /\ tab'.thread = th /\ streams' \subseteq streams
  <2>1. GoOn(p)
    BY <1>3 DEF PutNext
  <2> QED
    BY <2>1 DEF GoOn, Alones, Typed, Tabs
<1>7. /\ Spoken(rows[th]) \subseteq Spoken(p.list)
      /\ \A i \in 1..m : Spoken(p.list) \subseteq Spoken(chain[i].list)
      /\ Spoken(p.list) \subseteq Spoken(tab.msgs)
  <2>1. \A i \in 1..m : 1 <= i
    BY <1>2
  <2> QED
    BY <1>2, <1>3, <1>4, <2>1 DEF Growing
<1>8. /\ rows'[th] = rows[th] \/ rows'[th] = p.list
      /\ \A t \in Threads \ {th} : rows'[t] = rows[t]
  BY <1>4, <1>5 DEF Write, Alones, Typed
<1>9. Remembers
  <2>1. Keeps(tab.msgs, tab.msgs)
    BY AloneParts, SameKeeps
  <2> QED
    BY <1>6, <1>7, <1>8, <2>1 DEF Remembers
<1>10. /\ Spoken(rows'[th]) \subseteq Spoken(tab.msgs)
       /\ \A i \in 1..(m - 1) : /\ Spoken(rows'[th]) \subseteq Spoken(chain'[i].list)
                               /\ Spoken(chain'[i].list) \subseteq Spoken(tab.msgs)
       /\ \A i, j \in 1..(m - 1) : i <= j => Spoken(chain'[i].list) \subseteq Spoken(chain'[j].list)
  <2>1. Spoken(rows'[th]) \subseteq Spoken(tab.msgs)
    BY <1>4, <1>7, <1>8 DEF Growing
  <2>2. \A i \in 1..m : Spoken(rows'[th]) \subseteq Spoken(chain[i].list)
                        /\ Spoken(chain[i].list) \subseteq Spoken(tab.msgs)
    BY <1>2, <1>4, <1>7, <1>8 DEF Growing
  <2>3. \A i, j \in 1..m : i <= j => Spoken(chain[i].list) \subseteq Spoken(chain[j].list)
    BY <1>2, <1>4 DEF Growing
  <2>4. \A i, j \in 1..(m - 1) : i <= j => i + 1 <= j + 1
    BY <1>2
  <2>5. \A i, j \in 1..(m - 1) : i <= j => Spoken(chain'[i].list) \subseteq Spoken(chain'[j].list)
    BY <1>2, <2>3, <2>4
  <2> QED
    BY <1>2, <2>1, <2>2, <2>5
<1>11. Grows'
  <2>1. \A i \in DOMAIN chain' : chain'[i].thread = th
    BY <1>2 DEF Alones, Grows
  <2>2. \A s \in streams' : Answers(s, tab.msgs)
    BY <1>6 DEF Alones, Grows
  <2> QED
    BY <1>2, <1>5, <1>6, <1>10, <2>1, <2>2 DEF Grows, Growing
<1>12. Decisions'
  BY <1>1, <1>4, <1>5, <1>6, ConstantsTyped DEF Decisions, Alones
<1> QED
  BY <1>9, <1>11, <1>12

(* What a change of thread shows. *)
LEMMA ShownRemembers ==
  ASSUME Quiet', UNCHANGED <<rows, last, unsure>>,
         changing'.kind = "got" => changing'.got = rows[changing'.thread],
         tab'.thread \in Threads => Spoken(rows[tab'.thread]) \subseteq Spoken(tab'.msgs),
         tab'.thread \in Threads \ unsure => Keeps(tab'.msgs, last[tab'.thread]),
         tab'.thread = Local => Keeps(tab'.msgs, saved')
  PROVE  Grows' /\ Decisions'
<1>1. chain' = <<>> /\ DOMAIN chain' = {} /\ streams' = {}
  BY DEF Quiet
<1>2. Grows'
  BY <1>1 DEF Grows, Growing
<1>3. Decisions'
  BY <1>1 DEF Decisions
<1> QED
  BY <1>2, <1>3

(* The tab goes on showing what it showed. *)
LEMMA SameShown ==
  ASSUME Alones, Quiet', UNCHANGED <<rows, last, unsure, saved>>,
         changing'.kind = "got" => changing'.got = rows[changing'.thread],
         tab'.thread = tab.thread, tab'.msgs = tab.msgs
  PROVE  Grows' /\ Decisions' /\ Remembers
<1>1. Keeps(tab.msgs, tab.msgs)
  BY AloneParts, SameKeeps
<1>2. Remembers
  BY <1>1 DEF Remembers
<1> QED
  BY <1>2, ShownRemembers DEF Alones, Grows, Growing, Decisions

(* The browser's copy is shown in local mode. *)
LEMMA LocalShown ==
  ASSUME Alones, Quiet', UNCHANGED <<rows, last, unsure, saved>>,
         changing'.kind # "got", tab'.thread = Local, tab'.msgs = saved
  PROVE  Grows' /\ Decisions' /\ Remembers
<1>1. Keeps(saved, saved)
  BY SameKeeps DEF Alones, Typed
<1>2. Remembers
  BY DEF Remembers, Alones, Decisions
<1> QED
  BY <1>1, <1>2, ShownRemembers, ConstantsTyped

(* An empty conversation is shown. *)
LEMMA EmptyShown ==
  ASSUME Alones, Quiet', UNCHANGED <<rows, last, unsure>>, changing'.kind # "got",
         tab'.msgs = <<>>, tab'.thread \in Threads => rows[tab'.thread] = <<>>
  PROVE  Grows' /\ Decisions' /\ Remembers
<1>1. \A l : Keeps(<<>>, l) /\ Keeps(l, <<>>)
  BY DEF Keeps
<1>2. Remembers
  BY <1>1 DEF Remembers
<1> QED
  BY <1>1, <1>2, ShownRemembers

LEMMA ChangeRemembers ==
  ASSUME Alones, Ordered, Calm', changes' # changes => Quiet',
         \/ NewThread \/ Reload \/ RetryInit \/ \E t \in exists : SwitchThread(t)
         \/ InitThreads \/ GetThread \/ ShowThread \/ LoadFails \/ \E t \in Threads : CreateThread(t)
  PROVE  Grows' /\ Decisions' /\ Remembers /\ Quiet'
<1>1. Change => changes' # changes
  BY DEF Change, Alones, Typed
<1>2. changing.kind # "none" /\ UNCHANGED <<streams, chain, work>> => Quiet'
  BY DEF Alones, Calm, Quiet
<1>3. LocalMode.thread = Local /\ LocalMode.msgs = saved
      /\ [LocalMode EXCEPT !.error = TRUE].thread = Local
      /\ [LocalMode EXCEPT !.error = TRUE].msgs = saved
  BY DEF LocalMode, Alones, Typed, Tabs
<1>4. NoChange.kind = "none"
  BY DEF NoChange
<1>5. ASSUME NewThread PROVE Grows' /\ Decisions' /\ Remembers /\ Quiet'
  <2>1. Quiet' /\ UNCHANGED <<rows, last, unsure>>
    BY <1>1, <1>5 DEF NewThread, server, history
  <2>2. CASE tab.persist
    <3>1. UNCHANGED saved /\ tab'.thread = tab.thread /\ tab'.msgs = tab.msgs /\ changing'.kind = "new"
      BY <1>5, <2>2 DEF NewThread, NoChange, storage, Alones, Typed, Tabs
    <3> QED
      BY <2>1, <3>1, SameShown
  <2>3. CASE ~tab.persist
    <3>1. tab'.thread = Local /\ tab'.msgs = <<>> /\ UNCHANGED changing /\ changing.kind = "none"
      BY <1>5, <2>3 DEF NewThread, Change, Alones, Typed, Tabs
    <3> QED
      BY <2>1, <3>1, EmptyShown, ConstantsTyped
  <2> QED
    BY <2>2, <2>3
<1>6. ASSUME Reload PROVE Grows' /\ Decisions' /\ Remembers /\ Quiet'
  <2>1. Quiet' /\ UNCHANGED <<rows, last>> /\ tab'.thread = NoThread /\ tab'.msgs = <<>>
        /\ changing'.kind = "init"
    BY <1>1, <1>6 DEF Reload, server, NoChange
  <2>2. UNCHANGED unsure
    <3>1. chain = <<>>
      <4>1. orphan' = <<>>
        BY DEF Calm
      <4>2. ASSUME chain # <<>> PROVE FALSE
        <5>1. orphan' = <<Head(chain)>>
          BY <1>6, <4>2 DEF Reload
        <5> QED
          BY <4>1, <5>1
      <4> QED
        BY <4>2
    <3>2. {chain[i].thread : i \in DOMAIN chain} = {}
      BY <3>1
    <3>3. unsure' = unsure \union {chain[i].thread : i \in DOMAIN chain}
      BY <1>6 DEF Reload
    <3> QED
      BY <3>2, <3>3
  <2> QED
    BY <2>1, <2>2, EmptyShown, ConstantsTyped
<1>7. ASSUME RetryInit PROVE Grows' /\ Decisions' /\ Remembers /\ Quiet'
  <2>1. Quiet' /\ UNCHANGED <<rows, last, unsure, saved, tab>> /\ changing'.kind = "init"
    BY <1>1, <1>7 DEF RetryInit, server, history, storage, NoChange
  <2> QED
    BY <2>1, SameShown
<1>8. ASSUME NEW t \in exists, SwitchThread(t) PROVE Grows' /\ Decisions' /\ Remembers /\ Quiet'
  <2>1. Change
    BY <1>8 DEF SwitchThread
  <2>2. UNCHANGED <<rows, last, unsure, saved>> /\ changing'.kind = "load"
        /\ tab'.thread = tab.thread /\ tab'.msgs = tab.msgs
    BY <1>8 DEF SwitchThread, server, history, storage, NoChange, Alones, Typed, Tabs
  <2> QED
    BY <1>1, <2>1, <2>2, SameShown
<1>9. ASSUME InitThreads PROVE Grows' /\ Decisions' /\ Remembers /\ Quiet'
  <2>1. Quiet' /\ UNCHANGED <<rows, last, unsure, saved>>
    BY <1>2, <1>9 DEF InitThreads, server, history, storage
  <2>2. changing'.kind # "got"
    <3>1. \/ changing' = NoChange
          \/ \E t \in exists : changing' = [NoChange EXCEPT !.kind = "load", !.thread = t]
          \/ changing' = [NoChange EXCEPT !.kind = "new"]
      BY <1>9, InitChooses
    <3>2. /\ [NoChange EXCEPT !.kind = "new"].kind = "new"
          /\ \A t : [NoChange EXCEPT !.kind = "load", !.thread = t].kind = "load"
      BY DEF NoChange
    <3> QED
      BY <1>4, <3>1, <3>2
  <2>3. tab' = LocalMode \/ (tab'.thread = tab.thread /\ tab'.msgs = tab.msgs)
    BY <1>9, InitChooses DEF Alones, Typed, Tabs
  <2> QED
    BY <1>3, <2>1, <2>2, <2>3, SameShown, LocalShown
<1>10. ASSUME GetThread PROVE Grows' /\ Decisions' /\ Remembers /\ Quiet'
  <2>1. Quiet' /\ UNCHANGED <<rows, last, unsure, saved, tab>>
    BY <1>2, <1>10 DEF GetThread, server, history, storage
  <2>2. changing'.got = rows[changing'.thread]
    BY <1>10 DEF GetThread, Alones, Typed, Changings
  <2> QED
    BY <2>1, <2>2, SameShown
<1>11. ASSUME NEW t, NEW l, Show(t, l) PROVE tab'.thread = t /\ tab'.msgs = l /\ changing'.kind = "none"
  BY <1>4, <1>11 DEF Show, Alones, Typed, Tabs
<1>12. ASSUME ShowThread PROVE Grows' /\ Decisions' /\ Remembers /\ Quiet'
  <2>1. Quiet' /\ UNCHANGED <<rows, last, unsure>>
    BY <1>2, <1>12 DEF ShowThread, Show, server
  <2>2. PICK t \in exists : t = changing.thread /\ rows[t] = changing.got
    BY <1>12, ConstantsTyped DEF ShowThread, Alones, Typed, Changings, Placed, Grows
  <2>3. tab'.thread = t /\ tab'.msgs = rows[t] /\ changing'.kind = "none"
    BY <1>11, <1>12, <2>2 DEF ShowThread
  <2>4. t \in Threads /\ t # Local /\ rows[t] \in Lists(nextId)
    BY ConstantsTyped DEF Alones, Typed
  <2>5. chain = <<>>
    BY <1>12 DEF ShowThread, Alones, Calm, Quiet
  <2>6. t \notin unsure => rows[t] = last[t]
    BY <2>5 DEF Ordered
  <2>7. Keeps(rows[t], rows[t])
    BY <2>4, SameKeeps
  <2>8. tab.thread = t /\ t \notin unsure => Keeps(tab.msgs, rows[t])
    BY <2>4, <2>6 DEF Alones, Decisions
  <2>9. Remembers
    BY <2>1, <2>3, <2>8 DEF Remembers
  <2> QED
    BY <2>1, <2>3, <2>4, <2>6, <2>7, <2>9, ShownRemembers
<1>13. ASSUME NEW t \in Threads, CreateThread(t) PROVE Grows' /\ Decisions' /\ Remembers /\ Quiet'
  <2>1. Show(t, <<>>) /\ t \notin exists /\ UNCHANGED <<rows, last>> /\ changing.kind # "none"
    BY <1>13 DEF CreateThread
  <2>2. Quiet' /\ UNCHANGED unsure
    BY <1>2, <2>1 DEF Show
  <2>3. tab'.thread = t /\ tab'.msgs = <<>> /\ changing'.kind = "none"
    BY <1>11, <2>1
  <2>4. rows[t] = <<>>
    BY <2>1 DEF Alones, Placed
  <2> QED
    BY <2>1, <2>2, <2>3, <2>4, EmptyShown
<1>14. ASSUME LoadFails PROVE Grows' /\ Decisions' /\ Remembers /\ Quiet'
  <2>1. Quiet' /\ UNCHANGED <<rows, last, unsure, saved>> /\ changing'.kind # "got"
    BY <1>2, <1>4, <1>14 DEF LoadFails, server, history
  <2>2. \/ tab'.thread = Local /\ tab'.msgs = saved
        \/ tab'.thread = tab.thread /\ tab'.msgs = tab.msgs
    BY <1>3, <1>14 DEF LoadFails, Alones, Typed, Tabs
  <2> QED
    BY <2>1, <2>2, SameShown, LocalShown
<1> QED
  BY <1>5, <1>6, <1>7, <1>8, <1>9, <1>10, <1>12, <1>13, <1>14

-----------------------------------------------------------------------------
(* The stop button.                                                        *)

LEMMA ReachQuiet == ASSUME Quiet' PROVE Reach'
BY DEF Quiet, Reach

LEMMA ChainExtends ==
  ASSUME Alones,
         \/ \E i \in DOMAIN tab.msgs : HandleApprove(i) \/ HandleDeny(i) \/ HandleFormSubmit(i)
         \/ ExecuteAction
  PROVE  \A i \in DOMAIN chain : i \in DOMAIN chain' /\ chain'[i] = chain[i]
<1>1. /\ nextId' \in Nat /\ nextId <= nextId'
      /\ \/ Idle
         \/ \E p \in Puts(nextId'), q \in Puts(nextId') : Queues(p, q) /\ p.thread \in Places
  BY CardWrites DEF Alones
<1>2. CASE Idle
  BY <1>2 DEF Idle
<1>3. ASSUME NEW p \in Puts(nextId'), NEW q \in Puts(nextId'), Queues(p, q)
      PROVE  \A i \in DOMAIN chain : i \in DOMAIN chain' /\ chain'[i] = chain[i]
  BY <1>1, <1>3, QueuesEffect DEF Alones
<1> QED
  BY <1>1, <1>2, <1>3

(* What waits for the end of a stream stays behind it.                     *)
LEMMA AheadKept ==
  ASSUME Alones, NEW s \in streams, Ahead(s),
         \A i \in DOMAIN chain : i \in DOMAIN chain' /\ chain'[i] = chain[i],
         \A k \in Cards : /\ work'[k].stage # "telling"
                          /\ work'[k].stage = "saving" =>
                               (work[k].stage = "saving" /\ work'[k].msg = work[k].msg)
                               \/ work'[k].msg = nextId
  PROVE  Ahead(s)'
<1>1. PICK i \in DOMAIN chain :
        /\ chain[i].for = s.copy.id
        /\ \A k \in Cards : work[k].stage = "saving" => \A j \in 1..i : chain[j].for # work[k].msg
  BY DEF Ahead
<1>2. \A j \in 1..i : j \in DOMAIN chain /\ chain[j].for # nextId
  <2>1. chain \in Seq(Puts(nextId)) /\ nextId \in Nat
    BY DEF Alones, Typed
  <2>2. \A j \in 1..i : j \in DOMAIN chain
    BY <2>1
  <2>3. \A j \in DOMAIN chain : chain[j].for \in 0..(nextId - 1)
    BY Parts DEF Puts, Alones
  <2> QED
    BY <2>1, <2>2, <2>3
<1>3. ASSUME NEW k \in Cards, work'[k].stage = "saving", NEW j \in 1..i
      PROVE  chain'[j].for # work'[k].msg
  BY <1>1, <1>2, <1>3
<1> QED
  BY <1>1, <1>3 DEF Ahead

LEMMA StreamReach ==
  ASSUME Alones, NEW s \in streams, NEW c \in Cards \union {"none"},
         Stream(s) \/ StreamFails(s) \/ StreamEvent(s, c)
  PROVE  Reach'
<1>1. /\ \A r \in streams : r = s
      /\ s \in Streams(nextId) /\ Streaming(s)
      /\ \A k \in Cards : work[k].stage # "none" =>
           work[k].thread = tab.thread /\ work[k].persist = tab.persist
  BY Parts DEF Alones, Reach
<1>2. ASSUME NEW l, NEW failed, Return(s, l, failed) PROVE Reach'
  <2>1. /\ tab'.thread = tab.thread /\ tab'.persist = tab.persist /\ streams' = {}
        /\ \A k \in Cards : work'[k] = IF k = s.owner THEN IdleWork ELSE work[k]
    BY <1>1, <1>2, ReturnKeeps DEF Alones
  <2> QED
    BY <1>1, <2>1 DEF Reach, IdleWork
<1>3. ASSUME StreamEvent(s, c) PROVE Reach'
  <2>1. PICK copy : /\ copy.id = s.copy.id
                    /\ streams' = (streams \ {s}) \union {[s EXCEPT !.copy = copy]}
                    /\ tab' = [tab EXCEPT !.msgs = Replaced(@, copy)]
    <3> DEFINE copy == IF c = "none" THEN [s.copy EXCEPT !.text = TRUE]
                       ELSE [s.copy EXCEPT !.card = c, !.status = "pending", !.text = TRUE]
    <3>1. copy.id = s.copy.id
      BY Parts DEF Alones, Msgs
    <3>2. /\ streams' = (streams \ {s}) \union {[s EXCEPT !.copy = copy]}
          /\ tab' = [tab EXCEPT !.msgs = Replaced(@, copy)]
      BY <1>3 DEF StreamEvent
    <3> QED
      BY <3>1, <3>2
  <2>2. PICK new : new = [s EXCEPT !.copy = copy]
    OBVIOUS
  <2>3. /\ streams' = {new} /\ new.copy = copy /\ new.stage = s.stage /\ new.aborted = s.aborted
        /\ new.thread = s.thread /\ new.persist = s.persist /\ new.owner = s.owner
    BY <1>1, <2>1, <2>2 DEF Streams
  <2>4. /\ tab'.thread = tab.thread /\ tab'.persist = tab.persist
        /\ tab'.streaming = tab.streaming /\ tab'.ctrl = tab.ctrl
    BY <2>1 DEF Alones, Typed, Tabs
  <2>5. s.stage = "open" /\ UNCHANGED <<work, chain>>
    BY <1>3 DEF StreamEvent
  <2>6. Streaming(new)'
    BY <1>1, <2>1, <2>3, <2>4, <2>5 DEF Streaming
  <2> QED
    BY <1>1, <2>3, <2>4, <2>5, <2>6 DEF Reach
<1>4. ASSUME StreamEnds(s) PROVE Reach'
  <2> DEFINE done == [s.copy EXCEPT !.live = FALSE]
             kept == Replaced(tab.msgs, done)
  <2>1. CASE Synced(s.thread, s.persist)
    <3>1. /\ Queue(<<Put(s.thread, kept, done.id)>>) /\ tab' = [tab EXCEPT !.msgs = kept]
          /\ streams' = (streams \ {s}) \union {[s EXCEPT !.copy = done, !.stage = "saving"]}
          /\ UNCHANGED work /\ s.stage = "open"
      BY <1>4, <2>1 DEF StreamEnds
    <3>2. done.id = s.copy.id /\ s.copy \in Msgs(nextId)
      BY Parts DEF Alones, Msgs
    <3>3. PICK p : p = Put(s.thread, kept, done.id) /\ p.for = s.copy.id
      <4>1. PICK id : id = done.id /\ id = s.copy.id
        BY <3>2
      <4>2. Put(s.thread, kept, id).for = id
        <5> HIDE DEF kept
        <5> QED
          BY DEF Put
      <4> QED
        BY <4>1, <4>2
    <3> HIDE DEF kept
    <3>4. PICK new : new = [s EXCEPT !.copy = done, !.stage = "saving"] /\ streams' = {new}
      BY <1>1, <3>1
    <3>5. /\ new.copy.id = s.copy.id /\ new.stage = "saving"
          /\ new.thread = s.thread /\ new.persist = s.persist /\ new.owner = s.owner
      BY <1>1, <3>2, <3>4 DEF Streams
    <3>6. /\ tab'.thread = tab.thread /\ tab'.persist = tab.persist
          /\ tab'.streaming = tab.streaming
      BY <3>1 DEF Alones, Typed, Tabs
    <3>7. Len(chain) + 1 \in DOMAIN chain' /\ chain'[Len(chain) + 1].for = s.copy.id
      <4>1. chain' = chain \o <<p>> /\ chain \in Seq(Puts(nextId))
        BY <3>1, <3>3 DEF Queue, Alones, Typed
      <4>2. DOMAIN (chain \o <<p>>) = 1..(Len(chain) + 1) /\ (chain \o <<p>>)[Len(chain) + 1] = p
            /\ Len(chain) \in Nat
        BY <4>1
      <4> QED
        BY <3>3, <4>1, <4>2
    <3>8. \A k \in Cards : work[k].stage \in {"none", "streaming"}
      BY <1>1, <3>1 DEF Alones, Calm, Streaming
    <3>9. tab'.thread \in Threads
      BY <1>1, <2>1, <3>6 DEF Streaming, Synced
    <3>10. Ahead(new)'
      BY <3>1, <3>5, <3>7, <3>8 DEF Ahead
    <3>11. Streaming(new)'
      BY <1>1, <3>1, <3>5, <3>6, <3>9, <3>10 DEF Streaming
    <3> QED
      BY <1>1, <3>1, <3>4, <3>6, <3>11 DEF Reach
  <2>2. CASE ~Synced(s.thread, s.persist)
    BY <1>2, <1>4, <2>2 DEF StreamEnds
  <2> QED
    BY <2>1, <2>2
<1> QED
  BY <1>2, <1>3, <1>4 DEF Stream, StreamAborts, StreamFails

(* A stream starts when there is none.                                     *)
LEMMA StreamStarts ==
  ASSUME Alones, streams = {}, NEW l, NEW id, NEW th, th = tab.thread, NEW persist, persist = tab.persist,
         NEW owner, StreamChat(l, id, th, persist, owner),
         owner \in Cards => work'[owner].stage = "streaming",
         \A k \in Cards : work'[k].stage # "none" =>
           work'[k].thread = tab.thread /\ work'[k].persist = tab.persist
  PROVE  Reach'
<1>1. /\ tab'.thread = tab.thread /\ tab'.persist = tab.persist
      /\ tab'.streaming = TRUE /\ tab'.ctrl = id
  BY StreamChatKeeps DEF Alones
<1>2. Abort(streams) = {}
  BY DEF Abort
<1>3. PICK new : /\ new = [copy |-> Said(id, "assistant", 0), thread |-> th, owner |-> owner,
                           persist |-> persist, aborted |-> FALSE, stage |-> "open"]
                 /\ streams' = {new}
  BY <1>2 DEF StreamChat
<1>4. new.copy.id = id /\ new.thread = th /\ new.owner = owner /\ new.persist = persist
      /\ new.stage = "open"
  BY <1>3 DEF Said
<1>5. Streaming(new)'
  BY <1>1, <1>4 DEF Streaming
<1> QED
  BY <1>1, <1>3, <1>5 DEF Reach

(* A card is worked on while a stream, if there is one, goes on.           *)
LEMMA CardReach ==
  ASSUME Alones, Calm', UNCHANGED streams,
         tab'.thread = tab.thread, tab'.persist = tab.persist,
         tab'.streaming = tab.streaming, tab'.ctrl = tab.ctrl,
         \A i \in DOMAIN chain : i \in DOMAIN chain' /\ chain'[i] = chain[i],
         \A k \in Cards :
           /\ work'[k].stage # "none" =>
                work'[k].thread = tab.thread /\ work'[k].persist = tab.persist
           /\ work[k].stage = "streaming" => work'[k].stage = "streaming"
           /\ work'[k].stage = "telling" => work[k].stage = "telling" \/ tab.thread \notin Threads
           /\ work'[k].stage = "saving" =>
                (work[k].stage = "saving" /\ work'[k].msg = work[k].msg) \/ work'[k].msg = nextId
  PROVE  Reach'
<1>1. ASSUME NEW s \in streams PROVE Streaming(s)'
  <2>1. Streaming(s)
    BY DEF Alones, Reach
  <2>2. s.stage = "saving" => Ahead(s)'
    BY <2>1, AheadKept DEF Streaming, Ahead
  <2> QED
    BY <2>1, <2>2 DEF Streaming
<1> QED
  BY <1>1 DEF Reach, Alones

LEMMA UserReach ==
  ASSUME Alones, Calm',
         \/ SendMessage \/ Stop
         \/ \E i \in DOMAIN tab.msgs : HandleApprove(i) \/ HandleDeny(i) \/ HandleFormSubmit(i)
         \/ ExecuteAction \/ \E k \in Cards : TellModel(k)
  PROVE  Reach'
<1>1. /\ \A s \in streams : Streaming(s)
      /\ \A s, r \in streams : s = r
      /\ \A k \in Cards : work[k].stage # "none" =>
           work[k].thread = tab.thread /\ work[k].persist = tab.persist
      /\ tab.thread \in Threads => Synced(tab.thread, tab.persist)
      /\ "permission" \in Cards /\ "form" \in Cards
  BY AloneParts DEF Alones, Reach, Cards
<1>2. ASSUME SendMessage PROVE Reach'
  <2>1. streams = {}
    BY <1>1, <1>2 DEF SendMessage, CanSend, Streaming
  <2>2. PICK l, id, th, b : /\ StreamChat(l, id, th, b, "user") /\ th = tab.thread /\ b = tab.persist
    BY <1>2 DEF SendMessage
  <2>3. UNCHANGED work /\ "user" \notin Cards
    BY <1>2 DEF SendMessage, Cards
  <2> QED
    BY <1>1, <2>1, <2>2, <2>3, StreamStarts
<1>3. ASSUME Stop PROVE Reach'
  <2>1. streams' = Abort(streams) /\ UNCHANGED <<tab, work, chain>>
    BY <1>3 DEF Stop
  <2>2. ASSUME NEW s \in streams' PROVE Streaming(s)'
    <3>1. PICK r \in streams : /\ s.thread = r.thread /\ s.copy = r.copy /\ s.owner = r.owner
                               /\ s.persist = r.persist /\ s.stage = r.stage
                               /\ r.aborted => s.aborted
      BY <2>1, AbortKeeps DEF Alones
    <3>2. Streaming(r)
      BY <1>1
    <3> QED
      BY <2>1, <3>1, <3>2 DEF Streaming, Ahead
  <2>3. \A s, r \in streams' : s = r
    BY <1>1, <2>1 DEF Abort
  <2> QED
    BY <1>1, <2>1, <2>2, <2>3 DEF Reach
<1>4. ASSUME \/ \E i \in DOMAIN tab.msgs : HandleApprove(i) \/ HandleDeny(i) \/ HandleFormSubmit(i)
             \/ ExecuteAction
      PROVE  \A i \in DOMAIN chain : i \in DOMAIN chain' /\ chain'[i] = chain[i]
  BY <1>4, ChainExtends
<1>5. ASSUME NEW l, tab' = [tab EXCEPT !.msgs = l]
      PROVE  tab'.thread = tab.thread /\ tab'.persist = tab.persist
             /\ tab'.streaming = tab.streaming /\ tab'.ctrl = tab.ctrl
  BY <1>5 DEF Alones, Typed, Tabs
<1>6. ASSUME NEW i \in DOMAIN tab.msgs, HandleApprove(i) PROVE Reach'
  <2>1. PICK w : /\ w.stage = "acting" /\ w.thread = tab.thread /\ w.persist = tab.persist
                 /\ work' = [work EXCEPT !.permission = w]
    BY <1>6 DEF HandleApprove
  <2>2. work["permission"].stage = "none"
    BY <1>6 DEF HandleApprove, CanDecide
  <2>3. \A k \in Cards : work'[k] = IF k = "permission" THEN w ELSE work[k]
    BY <2>1 DEF Alones, Typed
  <2>4. UNCHANGED streams /\ \E l : tab' = [tab EXCEPT !.msgs = l]
    BY <1>6 DEF HandleApprove, Decide
  <2> QED
    BY <1>1, <1>4, <1>5, <1>6, <2>1, <2>2, <2>3, <2>4, CardReach
<1>7. ASSUME NEW i \in DOMAIN tab.msgs, HandleDeny(i) PROVE Reach'
  <2>1. UNCHANGED <<work, streams>> /\ \E l : tab' = [tab EXCEPT !.msgs = l]
    BY <1>7 DEF HandleDeny, Decide
  <2> QED
    BY <1>1, <1>4, <1>5, <1>7, <2>1, CardReach
<1>8. ASSUME NEW i \in DOMAIN tab.msgs, HandleFormSubmit(i) PROVE Reach'
  <2>1. PICK w : /\ w.thread = tab.thread /\ w.persist = tab.persist /\ w.msg = nextId
                 /\ w.stage = IF Synced(tab.thread, tab.persist) THEN "saving" ELSE "telling"
                 /\ work' = [work EXCEPT !.form = w]
    <3>1. CASE Synced(tab.thread, tab.persist)
      BY <1>8, <3>1 DEF HandleFormSubmit
    <3>2. CASE ~Synced(tab.thread, tab.persist)
      BY <1>8, <3>2 DEF HandleFormSubmit
    <3> QED
      BY <3>1, <3>2
  <2>2. work["form"].stage = "none"
    BY <1>8 DEF HandleFormSubmit, CanSubmit
  <2>3. \A k \in Cards : work'[k] = IF k = "form" THEN w ELSE work[k]
    BY <2>1 DEF Alones, Typed
  <2>4. UNCHANGED streams /\ \E l : tab' = [tab EXCEPT !.msgs = l]
    BY <1>8 DEF HandleFormSubmit
  <2>5. tab'.thread = tab.thread /\ tab'.persist = tab.persist
        /\ tab'.streaming = tab.streaming /\ tab'.ctrl = tab.ctrl
    BY <1>5, <2>4
  <2>6. \A i2 \in DOMAIN chain : i2 \in DOMAIN chain' /\ chain'[i2] = chain[i2]
    BY <1>4, <1>8
  <2>7. w.stage = "telling" => tab.thread \notin Threads
    BY <1>1, <2>1
  <2>8. \A k \in Cards :
           /\ work'[k].stage # "none" =>
                work'[k].thread = tab.thread /\ work'[k].persist = tab.persist
           /\ work[k].stage = "streaming" => work'[k].stage = "streaming"
           /\ work'[k].stage = "telling" => work[k].stage = "telling" \/ tab.thread \notin Threads
           /\ work'[k].stage = "saving" =>
                (work[k].stage = "saving" /\ work'[k].msg = work[k].msg) \/ work'[k].msg = nextId
    BY <1>1, <2>1, <2>2, <2>3, <2>7
  <2> QED
    BY <2>4, <2>5, <2>6, <2>8, CardReach
<1>9. ASSUME ExecuteAction PROVE Reach'
  <2>1. PICK marked : Continue("permission", marked)
    BY <1>9 DEF ExecuteAction
  <2>2. work["permission"].stage = "acting" /\ UNCHANGED streams
    BY <1>9 DEF ExecuteAction
  <2>3. PICK st : /\ st = IF Synced(work["permission"].thread, work["permission"].persist)
                          THEN "saving" ELSE "telling"
                  /\ work' = [work EXCEPT !["permission"].stage = st, !["permission"].msg = nextId]
    BY <2>1 DEF Continue
  <2>4. /\ work'["permission"].stage = st /\ work'["permission"].msg = nextId
        /\ work'["permission"].thread = work["permission"].thread
        /\ work'["permission"].persist = work["permission"].persist
        /\ \A k \in Cards : k # "permission" => work'[k] = work[k]
    BY <1>1, <2>3 DEF Alones, Typed, Works
  <2>5. work["permission"].thread = tab.thread /\ work["permission"].persist = tab.persist
    BY <1>1, <2>2
  <2>6. st = "telling" => tab.thread \notin Threads
    BY <1>1, <2>3, <2>5
  <2>7. \E l : tab' = [tab EXCEPT !.msgs = l]
    BY <2>1 DEF Continue
  <2>8. \A i2 \in DOMAIN chain : i2 \in DOMAIN chain' /\ chain'[i2] = chain[i2]
    BY <1>4, <1>9
  <2>9. \A k \in Cards :
           /\ work'[k].stage # "none" =>
                work'[k].thread = tab.thread /\ work'[k].persist = tab.persist
           /\ work[k].stage = "streaming" => work'[k].stage = "streaming"
           /\ work'[k].stage = "telling" => work[k].stage = "telling" \/ tab.thread \notin Threads
           /\ work'[k].stage = "saving" =>
                (work[k].stage = "saving" /\ work'[k].msg = work[k].msg) \/ work'[k].msg = nextId
    BY <1>1, <2>2, <2>4, <2>5, <2>6
  <2> QED
    BY <1>5, <2>2, <2>7, <2>8, <2>9, CardReach
<1>10. ASSUME NEW k \in Cards, TellModel(k) PROVE Reach'
  <2>1. work[k].stage = "telling" /\ work' = [work EXCEPT ![k].stage = "streaming"]
    BY <1>10 DEF TellModel
  <2>2. streams = {}
    <3>1. ASSUME NEW s \in streams PROVE FALSE
      <4>1. Streaming(s) /\ s.stage \in {"open", "saving"}
        BY <1>1, Parts DEF Alones, Streams
      <4>2. CASE s.stage = "open"
        BY <2>1, <4>1, <4>2 DEF Alones, Calm, Streaming
      <4>3. CASE s.stage = "saving"
        BY <2>1, <4>1, <4>3 DEF Streaming, Ahead
      <4> QED
        BY <4>1, <4>2, <4>3
    <3> QED
      BY <3>1
  <2>3. PICK l, id, th, b : /\ StreamChat(l, id, th, b, k) /\ th = work[k].thread
                            /\ b = work[k].persist
    BY <1>10 DEF TellModel
  <2>4. th = tab.thread /\ b = tab.persist
    BY <1>1, <2>1, <2>3
  <2>5. /\ work'[k].stage = "streaming" /\ work'[k].thread = work[k].thread
        /\ work'[k].persist = work[k].persist
        /\ \A j \in Cards : j # k => work'[j] = work[j]
    BY <2>1 DEF Alones, Typed, Works
  <2>6. \A j \in Cards : work'[j].stage # "none" =>
          work'[j].thread = tab.thread /\ work'[j].persist = tab.persist
    BY <1>1, <2>1, <2>5
  <2> QED
    BY <2>2, <2>3, <2>4, <2>5, <2>6, StreamStarts
<1> QED
  BY <1>2, <1>3, <1>6, <1>7, <1>8, <1>9, <1>10

LEMMA PutNextReach ==
  ASSUME Alones, PutNext
  PROVE  Reach'
<1>1. chain # <<>> /\ chain \in Seq(Puts(nextId)) /\ chain' = Tail(chain)
  BY DEF PutNext, Alones, Typed
<1> DEFINE m == Len(chain)
<1>2. /\ Head(chain) = chain[1] /\ 1 \in 1..m /\ DOMAIN chain = 1..m
      /\ DOMAIN chain' = 1..(m - 1) /\ m \in Nat \ {0}
      /\ \A i \in 1..(m - 1) : chain'[i] = chain[i + 1] /\ i + 1 \in 1..m
  BY <1>1
<1> HIDE DEF m
<1>3. PICK p : p = chain[1] /\ GoOn(p)
  BY <1>2 DEF PutNext
<1> DEFINE waiting == {s \in streams : s.stage = "saving" /\ s.copy.id = p.for}
<1>4. /\ \A k \in Cards : work'[k] =
           IF work[k].stage = "saving" /\ work[k].msg = p.for
             THEN [work[k] EXCEPT !.stage = "telling"]
           ELSE IF \E s \in waiting : s.owner = k THEN IdleWork ELSE work[k]
      /\ streams' = streams \ waiting
      /\ tab' = IF waiting = {} THEN tab ELSE [tab EXCEPT !.streaming = FALSE, !.ctrl = 0]
  BY <1>3 DEF GoOn
<1>5. tab'.thread = tab.thread /\ tab'.persist = tab.persist
  BY <1>4 DEF Alones, Typed, Tabs
<1>6. ASSUME NEW k \in Cards, work'[k].stage # "none"
      PROVE  work'[k].thread = tab.thread /\ work'[k].persist = tab.persist
  <2>1. work[k] \in Works(nextId)
    BY Parts DEF Alones
  <2>2. CASE work[k].stage = "saving" /\ work[k].msg = p.for
    <3>1. work'[k] = [work[k] EXCEPT !.stage = "telling"]
      BY <1>4, <2>2
    <3> QED
      BY <2>1, <2>2, <3>1 DEF Works, Alones, Reach
  <2>3. CASE ~(work[k].stage = "saving" /\ work[k].msg = p.for)
    <3>1. work'[k] = IF \E s \in waiting : s.owner = k THEN IdleWork ELSE work[k]
      BY <1>4, <2>3
    <3>2. work'[k] = work[k]
      BY <1>6, <3>1 DEF IdleWork
    <3> QED
      BY <1>6, <3>2 DEF Alones, Reach
  <2> QED
    BY <2>2, <2>3
<1>7. ASSUME NEW s \in streams' PROVE Streaming(s)'
  <2>1. s \in streams /\ s \notin waiting /\ Streaming(s) /\ waiting = {} /\ tab' = tab
    BY <1>4, <1>7 DEF Alones, Reach
  <2>2. \A k \in Cards : work'[k] = IF work[k].stage = "saving" /\ work[k].msg = p.for
                                    THEN [work[k] EXCEPT !.stage = "telling"] ELSE work[k]
    BY <1>4, <2>1
  <2>3. s.owner \in Cards => work'[s.owner].stage = "streaming"
    BY <2>1, <2>2 DEF Streaming
  <2>4. ASSUME s.stage = "saving" PROVE Ahead(s)'
    <3>1. PICK i \in DOMAIN chain :
            /\ chain[i].for = s.copy.id
            /\ \A k \in Cards : work[k].stage = "saving" => \A j \in 1..i : chain[j].for # work[k].msg
      BY <2>1, <2>4 DEF Streaming, Ahead
    <3>2. i # 1
      BY <1>3, <2>1, <2>4, <3>1
    <3>3. i \in 1..m /\ i - 1 \in 1..(m - 1) /\ (i - 1) + 1 = i /\ 1 \in 1..i
      BY <1>2, <3>1, <3>2
    <3>4. \A k \in Cards : work'[k] = work[k]
      BY <1>3, <2>2, <3>1, <3>3
    <3>5. chain'[i - 1].for = s.copy.id
      BY <1>2, <3>1, <3>3
    <3>6. ASSUME NEW k \in Cards, work[k].stage = "saving", NEW j \in 1..(i - 1)
          PROVE  chain'[j].for # work[k].msg
      <4>1. j \in 1..(m - 1) /\ j + 1 \in 1..i
        BY <1>2, <3>3
      <4> QED
        BY <1>2, <3>1, <3>6, <4>1
    <3>7. \A k \in Cards : work[k].stage # "telling"
      BY <2>1, <2>4 DEF Streaming, Ahead
    <3>8. i - 1 \in DOMAIN chain'
      BY <1>2, <3>3
    <3> QED
      BY <3>4, <3>5, <3>6, <3>7, <3>8 DEF Ahead
  <2> QED
    BY <2>1, <2>3, <2>4 DEF Streaming
<1>8. \A s, r \in streams' : s = r
  BY <1>4 DEF Alones, Reach
<1> QED
  BY <1>5, <1>6, <1>7, <1>8 DEF Reach

-----------------------------------------------------------------------------
(* The invariant of a conversation where nothing is crossed.               *)

LEMMA AloneStep ==
  ASSUME Typed, Placed, Ordered, Alone, Next, ~crossed'
  PROVE  Alones /\ Calm' /\ Reach' /\ Grows' /\ Decisions' /\ Remembers
<1>1. ~crossed /\ Calm' /\ (changes' # changes => Quiet')
  BY CalmNext
<1>2. Alones
  BY <1>1 DEF Alones, Alone
<1>3. nextId' \in Nat /\ nextId <= nextId'
  BY Writes
<1>4. ASSUME NEW l \in Lists(nextId'), Talks(l) PROVE Grows' /\ Decisions' /\ Remembers
  BY <1>1, <1>2, <1>3, <1>4, TalkRemembers
<1>5. CASE \/ SendMessage \/ Stop
           \/ \E i \in DOMAIN tab.msgs : HandleApprove(i) \/ HandleDeny(i) \/ HandleFormSubmit(i)
           \/ ExecuteAction \/ \E k \in Cards : TellModel(k)
  <2>1. Reach'
    BY <1>1, <1>2, <1>5, UserReach
  <2>2. \E l \in Lists(nextId') : Talks(l)
    BY <1>2, <1>5, CardTalks
  <2> QED
    BY <1>1, <1>2, <1>4, <2>1, <2>2
<1>6. CASE \/ NewThread \/ Reload \/ RetryInit \/ \E t \in exists : SwitchThread(t)
           \/ InitThreads \/ GetThread \/ ShowThread \/ LoadFails
           \/ \E t \in Threads : CreateThread(t)
  BY <1>1, <1>2, <1>6, ChangeRemembers, ReachQuiet
<1>7. CASE PutNext
  BY <1>1, <1>2, <1>7, PutNextRemembers, PutNextReach
<1>8. CASE OrphanArrives
  BY <1>2, <1>8 DEF OrphanArrives, Alones, Calm
<1>9. ASSUME NEW s \in streams, NEW c \in Cards \union {"none"},
             Stream(s) \/ StreamFails(s) \/ StreamEvent(s, c)
      PROVE  Alones /\ Calm' /\ Reach' /\ Grows' /\ Decisions' /\ Remembers
  <2>1. Reach'
    BY <1>2, <1>9, StreamReach
  <2>2. \E l \in Lists(nextId) : Talks(l)
    BY <1>2, <1>9, StreamTalks
  <2>3. Lists(nextId) \subseteq Lists(nextId')
    BY <1>3, ListsGrow DEF Typed
  <2> QED
    BY <1>1, <1>2, <1>4, <2>1, <2>2, <2>3
<1>10. "none" \in Cards \union {"none"}
  OBVIOUS
<1> QED
  BY <1>5, <1>6, <1>7, <1>8, <1>9, <1>10 DEF Next, User, Run

LEMMA AloneNext == Typed /\ Placed /\ Ordered /\ Alone /\ [Next]_vars => Alone'
<1> SUFFICES ASSUME Typed, Placed, Ordered, Alone, [Next]_vars PROVE Alone'
  OBVIOUS
<1>1. CASE UNCHANGED vars
  BY <1>1 DEF vars, Alone, Calm, Quiet, Reach, Streaming, Ahead, Grows, Growing, Decisions
<1>2. CASE Next
  BY <1>2, AloneStep DEF Alone
<1> QED
  BY <1>1, <1>2

ChatInv == Typed /\ Placed /\ Ordered /\ Alone

LEMMA ChatHolds == Spec => []ChatInv
<1>1. Init => ChatInv
  BY TypedInit, PlacedInit, OrderedInit, AloneInit DEF ChatInv
<1>2. ChatInv /\ [Next]_vars => ChatInv'
  BY TypedNext, PlacedNext, OrderedNext, AloneNext DEF ChatInv
<1> QED
  BY <1>1, <1>2, PTL DEF Spec

(* While nothing unfinished is crossed, the stop button reaches the stream  *)
(* that is shown: the page knows that one runs, and holds its controller.  *)
THEOREM StopWorks == Spec => []StopReachesStream
<1>1. ChatInv => StopReachesStream
  BY DEF ChatInv, Alone, Reach, Streaming, StopReachesStream
<1> QED
  BY <1>1, ChatHolds, PTL

(* While nothing unfinished is crossed, no write takes back what the user   *)
(* or a tool said: the rows of every thread only gain.                     *)
THEOREM SaidIsKept == Spec => NothingLost
<1> DEFINE A == ~crossed' => \A t \in Threads : Spoken(rows[t]) \subseteq Spoken(rows'[t])
<1>1. ChatInv /\ [Next]_vars => [A]_vars
  BY AloneStep DEF ChatInv, Remembers
<1> QED
  BY <1>1, ChatHolds, PTL DEF Spec, NothingLost

-----------------------------------------------------------------------------
(* Decisions, also where work is crossed.                                  *)

(* What is put at the end, marked, replaced or dropped.                    *)
LEMMA AppendKeeps ==
  ASSUME NEW n \in Nat \ {0}, NEW l \in Lists(n), NEW x, Keeps(x, l),
         NEW role \in {"user", "assistant", "tool"}, NEW a \in Nat
  PROVE  Keeps(x, Append(l, Said(n, role, a)))
BY AppendSays

LEMMA ReplacedKeeps ==
  ASSUME NEW n, NEW l \in Lists(n), NEW m, NEW i \in DOMAIN l, l[i].id # m.id, Decided(l[i]),
         NEW j \in DOMAIN Replaced(l, m), Replaced(l, m)[j].id = l[i].id
  PROVE  Replaced(l, m)[j].status # "pending"
<1>1. j \in DOMAIN l /\ Replaced(l, m)[j] = IF l[j].id = m.id THEN m ELSE l[j]
  BY DEF Replaced
<1>2. Replaced(l, m)[j] = l[j]
  BY <1>1
<1> QED
  BY <1>1, <1>2, SameKeeps DEF Keeps

LEMMA DroppedKeeps ==
  ASSUME NEW n \in Nat, NEW l \in Lists(n), NEW id
  PROVE  Keeps(l, Dropped(l, id))
<1>1. \A i \in DOMAIN Dropped(l, id) : \E j \in DOMAIN l : Dropped(l, id)[i] = l[j]
  BY DroppedList
<1> QED
  BY <1>1, SameKeeps DEF Keeps

(* The list after a step of the user or of a card.                         *)
LEMMA CardsKeep ==
  ASSUME Typed,
         \/ SendMessage \/ Stop \/ PutNext \/ OrphanArrives
         \/ \E i \in DOMAIN tab.msgs : HandleApprove(i) \/ HandleDeny(i) \/ HandleFormSubmit(i)
         \/ ExecuteAction \/ \E k \in Cards : TellModel(k)
  PROVE  Keeps(tab.msgs, tab'.msgs)
<1> DEFINE n == nextId
           l == tab.msgs
<1>1. n \in Nat \ {0} /\ l \in Lists(n) /\ tab \in Tabs(n)
  BY Parts DEF Typed
<1>2. Keeps(l, l)
  BY <1>1, SameKeeps
<1>3. \A k : [tab EXCEPT !.msgs = k].msgs = k
  BY <1>1 DEF Tabs
<1>4. ASSUME NEW x \in Lists(n), Keeps(l, x), NEW a \in Nat,
             NEW role \in {"user", "assistant", "tool"}
      PROVE  Keeps(l, Append(x, Said(n, role, a)))
  BY <1>1, <1>4, AppendKeeps
<1>5. ASSUME NEW s \in Statuses \ {"none", "pending"}, NEW id
      PROVE  Keeps(l, Marked(l, id, s)) /\ Marked(l, id, s) \in Lists(n)
  BY <1>1, MarkedSays, MarkedList
<1>6. ASSUME SendMessage PROVE Keeps(l, tab'.msgs)
  <2> DEFINE x == Append(l, Said(n, "user", 0))
  <2>1. Keeps(l, x) /\ x \in Lists(n + 1)
    BY <1>1, <1>2, <1>4, Appended
  <2>2. n + 1 \in Nat \ {0}
    BY <1>1
  <2>3. Keeps(l, Append(x, Said(n + 1, "assistant", 0)))
    BY <2>1, <2>2, AppendKeeps
  <2>4. tab'.msgs = Append(x, Said(n + 1, "assistant", 0))
    BY <1>1, <1>6 DEF SendMessage, StreamChat, Tabs
  <2> QED
    BY <2>3, <2>4
<1>7. ASSUME Stop \/ OrphanArrives PROVE Keeps(l, tab'.msgs)
  BY <1>2, <1>7 DEF Stop, OrphanArrives
<1>8. ASSUME PutNext PROVE Keeps(l, tab'.msgs)
  <2>1. PICK p : GoOn(p)
    BY <1>8 DEF PutNext
  <2>2. tab'.msgs = l
    BY <1>1, <2>1 DEF GoOn, Tabs
  <2> QED
    BY <1>2, <2>2
<1>9. ASSUME NEW i \in DOMAIN tab.msgs, HandleApprove(i) \/ HandleDeny(i)
      PROVE  Keeps(l, tab'.msgs)
  <2>1. PICK s \in {"executing", "denied"} : tab' = [tab EXCEPT !.msgs = Marked(l, l[i].id, s)]
    BY <1>9 DEF HandleApprove, HandleDeny, Decide
  <2>2. s \in Statuses \ {"none", "pending"}
    BY DEF Statuses
  <2> QED
    BY <1>3, <1>5, <2>1, <2>2
<1>10. ASSUME NEW i \in DOMAIN tab.msgs, HandleFormSubmit(i) PROVE Keeps(l, tab'.msgs)
  <2> DEFINE x == Marked(l, l[i].id, "submitted")
  <2>1. Keeps(l, x) /\ x \in Lists(n)
    BY <1>5 DEF Statuses
  <2>2. l[i].id \in Nat
    BY <1>1, Parts DEF Msgs
  <2>3. Keeps(l, Append(x, Said(n, "tool", l[i].id)))
    BY <1>4, <2>1, <2>2
  <2>4. tab' = [tab EXCEPT !.msgs = Append(x, Said(n, "tool", l[i].id))]
    BY <1>10 DEF HandleFormSubmit
  <2> QED
    BY <1>3, <2>3, <2>4
<1>11. ASSUME ExecuteAction PROVE Keeps(l, tab'.msgs)
  <2> DEFINE w == work["permission"]
  <2>1. PICK s \in {"done", "error"} : Continue("permission", Marked(l, w.msg, s))
    BY <1>11 DEF ExecuteAction
  <2>2. Keeps(l, Marked(l, w.msg, s)) /\ Marked(l, w.msg, s) \in Lists(n)
    BY <1>5 DEF Statuses
  <2>3. w.msg \in Nat
    BY Parts DEF Works, Cards
  <2> DEFINE x == Marked(l, w.msg, s)
  <2> HIDE DEF x
  <2>4. Continue("permission", x) /\ Keeps(l, x) /\ x \in Lists(n)
    BY <2>1, <2>2 DEF x
  <2>5. tab' = [tab EXCEPT !.msgs = Append(x, Said(n, "tool", w.msg))]
    BY <2>4 DEF Continue
  <2> QED
    BY <1>3, <1>4, <2>3, <2>4, <2>5
<1>12. ASSUME NEW k \in Cards, TellModel(k) PROVE Keeps(l, tab'.msgs)
  <2>1. tab'.msgs = Append(l, Said(n, "assistant", 0))
    BY <1>1, <1>12 DEF TellModel, StreamChat, Tabs
  <2>2. Keeps(l, Append(l, Said(n, "assistant", 0)))
    BY <1>1, <1>2, AppendKeeps
  <2> QED
    BY <2>1, <2>2
<1> QED
  BY <1>6, <1>7, <1>8, <1>9, <1>10, <1>11, <1>12

(* A stream touches its own message only, and that while it is open.       *)
LEMMA StreamsKeep ==
  ASSUME Typed, NEW s \in streams, NEW c \in Cards \union {"none"},
         Stream(s) \/ StreamFails(s) \/ StreamEvent(s, c),
         NEW i \in DOMAIN tab.msgs, NEW j \in DOMAIN tab'.msgs,
         tab.msgs[i].id = tab'.msgs[j].id, Decided(tab.msgs[i]), ~Asks(tab.msgs[i].id)
  PROVE  tab'.msgs[j].status # "pending"
<1> DEFINE n == nextId
           l == tab.msgs
<1>1. n \in Nat \ {0} /\ l \in Lists(n) /\ tab \in Tabs(n) /\ s.copy \in Msgs(n)
  BY Parts DEF Typed
<1>2. s.stage = "open"
  BY DEF Stream, StreamEnds, StreamAborts, StreamFails, StreamEvent
<1>3. l[i].id # s.copy.id
  BY <1>2 DEF Asks
<1>4. \/ \E m : m.id = s.copy.id /\ tab'.msgs = Replaced(l, m)
      \/ tab'.msgs = Dropped(l, s.copy.id)
  <2>1. /\ [s.copy EXCEPT !.live = FALSE].id = s.copy.id
        /\ [s.copy EXCEPT !.text = TRUE].id = s.copy.id
        /\ \A k : [s.copy EXCEPT !.card = k, !.status = "pending", !.text = TRUE].id = s.copy.id
    BY <1>1 DEF Msgs
  <2>2. ASSUME NEW k, NEW f, Return(s, k, f) PROVE tab'.msgs = k
    BY <1>1, <2>2 DEF Return, Tabs
  <2>3. \A k : [tab EXCEPT !.msgs = k].msgs = k
    BY <1>1 DEF Tabs
  <2>4. CASE StreamEvent(s, c)
    <3> DEFINE m == IF c = "none" THEN [s.copy EXCEPT !.text = TRUE]
                    ELSE [s.copy EXCEPT !.card = c, !.status = "pending", !.text = TRUE]
    <3>1. m.id = s.copy.id
      BY <2>1
    <3>2. tab' = [tab EXCEPT !.msgs = Replaced(l, m)]
      BY <2>4 DEF StreamEvent
    <3> HIDE DEF m
    <3>3. tab'.msgs = Replaced(l, m)
      BY <2>3, <3>2
    <3> QED
      BY <3>1, <3>3
  <2>5. CASE StreamEnds(s)
    <3> DEFINE k == Replaced(l, [s.copy EXCEPT !.live = FALSE])
    <3>1. tab' = [tab EXCEPT !.msgs = k] \/ Return(s, k, FALSE)
      BY <2>5, Zenon DEF StreamEnds
    <3>2. tab'.msgs = k
      BY <2>2, <2>3, <3>1
    <3> QED
      BY <2>1, <3>2
  <2>6. CASE StreamAborts(s)
    <3>1. CASE s.copy.text
      BY <2>1, <2>2, <2>6, <3>1 DEF StreamAborts
    <3>2. CASE ~s.copy.text
      BY <2>2, <2>6, <3>2 DEF StreamAborts
    <3> QED
      BY <3>1, <3>2
  <2>7. CASE StreamFails(s)
    BY <2>2, <2>7 DEF StreamFails
  <2> QED
    BY <2>4, <2>5, <2>6, <2>7 DEF Stream
<1>5. CASE tab'.msgs = Dropped(l, s.copy.id)
  <2>1. Keeps(l, Dropped(l, s.copy.id))
    BY <1>1, DroppedKeeps
  <2> QED
    BY <1>5, <2>1 DEF Keeps
<1>6. ASSUME NEW m, m.id = s.copy.id, tab'.msgs = Replaced(l, m)
      PROVE  tab'.msgs[j].status # "pending"
  <2>1. Replaced(l, m)[j].id = l[i].id /\ j \in DOMAIN Replaced(l, m) /\ l[i].id # m.id
    BY <1>3, <1>6
  <2>2. Replaced(l, m)[j].status # "pending"
    BY <1>1, <2>1, ReplacedKeeps
  <2> QED
    BY <1>6, <2>2
<1> QED
  BY <1>4, <1>5, <1>6

(* No list is shown without a step of the change of thread; a thread that   *)
(* is left in the browser's mode, or a new page, starts empty.             *)
LEMMA ShownChanges ==
  ASSUME Typed, UNCHANGED changing,
         \/ NewThread \/ Reload \/ RetryInit \/ \E t \in exists : SwitchThread(t)
         \/ InitThreads \/ GetThread \/ ShowThread \/ LoadFails
         \/ \E t \in Threads : CreateThread(t)
  PROVE  Keeps(tab.msgs, tab'.msgs)
<1>1. tab.msgs \in Lists(nextId) /\ tab \in Tabs(nextId) /\ changing \in Changings(nextId)
  BY Parts DEF Typed
<1>2. ASSUME tab'.msgs = <<>> PROVE Keeps(tab.msgs, tab'.msgs)
  BY <1>2 DEF Keeps
<1>3. CASE UNCHANGED tab
  BY <1>1, <1>3, SameKeeps
<1>4. ASSUME NewThread, ~UNCHANGED tab PROVE tab'.msgs = <<>>
  BY <1>1, <1>4, ConstantsTyped DEF NewThread, Change, NoChange, Tabs, Changings
<1>5. ASSUME Reload PROVE tab'.msgs = <<>>
  BY <1>5 DEF Reload
<1>6. ASSUME RetryInit \/ GetThread PROVE UNCHANGED tab
  BY <1>6 DEF RetryInit, GetThread
<1>7. ASSUME \E t \in exists : SwitchThread(t) PROVE FALSE
  BY <1>1, <1>7 DEF SwitchThread, Change, NoChange, Changings
<1>8. ASSUME InitThreads PROVE FALSE
  <2>1. changing.kind = "init"
    BY <1>8 DEF InitThreads
  <2>2. \/ changing' = NoChange
        \/ \E t : changing' = [NoChange EXCEPT !.kind = "load", !.thread = t]
        \/ changing' = [NoChange EXCEPT !.kind = "new"]
    BY <1>8, InitChooses
  <2>3. /\ NoChange.kind # "init" /\ [NoChange EXCEPT !.kind = "new"].kind # "init"
        /\ \A t : [NoChange EXCEPT !.kind = "load", !.thread = t].kind # "init"
    BY DEF NoChange
  <2> QED
    BY <2>1, <2>2, <2>3, Zenon
<1>9. ASSUME ShowThread \/ LoadFails \/ \E t \in Threads : CreateThread(t) PROVE FALSE
  <2>1. changing' = NoChange /\ changing.kind # "none"
    BY <1>9 DEF ShowThread, LoadFails, CreateThread, Show
  <2> QED
    BY <2>1 DEF NoChange
<1> QED
  BY <1>2, <1>3, <1>4, <1>5, <1>6, <1>7, <1>8, <1>9

(* Only a stream that asked and is open, or a list that is read back, makes *)
(* a decided card pending again.                                           *)
LEMMA DecisionsLast ==
  ASSUME Typed, Next, NEW i \in DOMAIN tab.msgs, NEW j \in DOMAIN tab'.msgs,
         tab.msgs[i].id = tab'.msgs[j].id, Decided(tab.msgs[i]),
         ~Asks(tab.msgs[i].id), UNCHANGED changing
  PROVE  tab'.msgs[j].status # "pending"
<1>1. CASE Keeps(tab.msgs, tab'.msgs)
  BY <1>1 DEF Keeps
<1>2. CASE \E s \in streams : Stream(s) \/ StreamFails(s)
                              \/ \E c \in Cards \union {"none"} : StreamEvent(s, c)
  <2>1. "none" \in Cards \union {"none"}
    OBVIOUS
  <2> QED
    BY <1>2, <2>1, StreamsKeep
<1> QED
  BY <1>1, <1>2, CardsKeep, ShownChanges DEF Next, User, Run

(* Two steps only make a decided card pending again: that of a stream which *)
(* asked and is still open, and the showing of a list read back; and these  *)
(* do it only after work had crossed, or a write was lost.                 *)
THEOREM DecisionIsKept == Spec => DecidedStays
<1> DEFINE A == \A i \in DOMAIN tab.msgs, j \in DOMAIN tab'.msgs :
                  (/\ tab.msgs[i].id = tab'.msgs[j].id /\ tab.msgs[i].card # "none"
                   /\ tab.msgs[i].status # "pending" /\ tab'.thread = tab.thread)
                  => tab'.msgs[j].status # "pending" \/ MayForget(tab.msgs[i].id)
<1>1. ChatInv /\ [Next]_vars => [A]_vars
  <2>1. SUFFICES ASSUME ChatInv, Next,
                        NEW i \in DOMAIN tab.msgs, NEW j \in DOMAIN tab'.msgs,
                        tab.msgs[i].id = tab'.msgs[j].id, tab.msgs[i].card # "none",
                        tab.msgs[i].status # "pending", tab'.thread = tab.thread,
                        ~MayForget(tab.msgs[i].id)
                 PROVE  tab'.msgs[j].status # "pending"
    OBVIOUS
  <2>2. CASE ~crossed' /\ tab.thread \notin unsure
    <3>1. Keeps(tab.msgs, tab'.msgs)
      BY <2>1, <2>2, AloneStep DEF ChatInv, Remembers
    <3> QED
      BY <2>1, <3>1 DEF Keeps, Decided
  <2>3. CASE ~Asks(tab.msgs[i].id) /\ UNCHANGED changing
    BY <2>1, <2>3, DecisionsLast DEF ChatInv, Decided
  <2> QED
    BY <2>1, <2>2, <2>3 DEF MayForget
<1> QED
  BY <1>1, ChatHolds, PTL DEF Spec, DecidedStays
=============================================================================
