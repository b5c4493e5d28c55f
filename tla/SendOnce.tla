------------------------------ MODULE SendOnce ------------------------------
(***************************************************************************)
(* What sending an issue promises when nothing but the mail provider        *)
(* refuses: a scheduled send waits, may be withdrawn while it waits, and    *)
(* once begun gives every address of its audience one copy, over as many    *)
(* tries as it needs.  It counts as sent only when the audience of the last *)
(* try has been reached, and a send that has begun cannot be withdrawn.     *)
(***************************************************************************)
EXTENDS Naturals

CONSTANTS Sends, Addresses

VARIABLES
  state,     \* of each scheduled send
  audience,  \* addresses the current try of a send has to reach
  copies     \* copies each address has received

vars == <<state, audience, copies>>

Init ==
  /\ state \in [Sends -> {"none", "waiting"}]
  /\ audience = [s \in Sends |-> {}]
  /\ copies = [a \in Addresses |-> 0]

(* Waiting sends are withdrawn, all at once or one by one, or given up.    *)
Withdraw(S, end) ==
  /\ S # {} /\ \A s \in S : state[s] = "waiting"
  /\ end \in {"canceled", "failed"}
  /\ state' = [s \in Sends |-> IF s \in S THEN end ELSE state[s]]
  /\ UNCHANGED <<audience, copies>>

Begin(s) ==
  /\ state[s] = "waiting"
  /\ state' = [state EXCEPT ![s] = "sending"]
  /\ UNCHANGED <<audience, copies>>

ChooseAudience(s, A) ==
  /\ state[s] = "sending" /\ audience[s] = {} /\ A # {}
  /\ audience' = [audience EXCEPT ![s] = A]
  /\ UNCHANGED <<state, copies>>

Deliver(s, a) ==
  /\ state[s] = "sending" /\ a \in audience[s]
  /\ copies[a] = 0
  /\ copies' = [copies EXCEPT ![a] = 1]
  /\ UNCHANGED <<state, audience>>

EndTry(s, end) ==
  /\ state[s] = "sending" /\ audience[s] # {}
  /\ end = "sent" => \A a \in audience[s] : copies[a] = 1
  /\ end \in {"sent", "failed", "waiting"}
  /\ state' = [state EXCEPT ![s] = end]
  /\ audience' = [audience EXCEPT ![s] = {}]
  /\ UNCHANGED copies

Next ==
  \/ \E S \in SUBSET Sends, end \in {"canceled", "failed"} : Withdraw(S, end)
  \/ \E s \in Sends :
       \/ Begin(s)
       \/ \E A \in SUBSET Addresses : ChooseAudience(s, A)
       \/ \E a \in Addresses : Deliver(s, a)
       \/ \E end \in {"sent", "failed", "waiting"} : EndTry(s, end)

Spec == Init /\ [][Next]_vars
=============================================================================
