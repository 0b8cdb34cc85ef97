------------------------------ MODULE Delivery ------------------------------
(***************************************************************************)
(* What the alert dispatcher promises for one send, that is for one alert  *)
(* and one of its recipients, whatever goroutines, retries and shutdowns   *)
(* lie behind it:                                                          *)
(*   - a send is accepted once, and its outcome settles at most once;      *)
(*   - at most MaxCopies messages leave for its endpoint, which receives   *)
(*     no more than left;                                                  *)
(*   - an outcome that reached the alert log is the last word: "sent" is   *)
(*     only logged of a message that was received, and after either        *)
(*     logged outcome no message leaves any more;                          *)
(*   - a send may also be lost: its process ended, or the log refused the  *)
(*     entry.  A lost send may have been delivered;                        *)
(*   - a message that left may arrive at any time, or never.  A send       *)
(*     logged as failed may be delivered yet.                              *)
(* Dispatcher implements this module.                                      *)
(***************************************************************************)
EXTENDS Naturals

CONSTANTS Sends,      \* the sends there can be
          MaxCopies   \* attempts made for one send

VARIABLES outcome,    \* what is known of each send
          departed,   \* messages that left for its endpoint
          copies      \* messages its endpoint has received

vars == <<outcome, departed, copies>>

Logged == {"sent", "failed"}

Init == /\ outcome  = [t \in Sends |-> "none"]
        /\ departed = [t \in Sends |-> 0]
        /\ copies   = [t \in Sends |-> 0]

(* The sends of one alert are taken on together. *)
Accept(S) == /\ \A t \in S : outcome[t] = "none"
             /\ outcome' = [t \in Sends |-> IF t \in S THEN "pending" ELSE outcome[t]]
             /\ UNCHANGED <<departed, copies>>

Depart(t) == /\ outcome[t] = "pending"
             /\ departed[t] < MaxCopies
             /\ departed' = [departed EXCEPT ![t] = @ + 1]
             /\ UNCHANGED <<outcome, copies>>

Deliver(t) == /\ copies[t] < departed[t]
              /\ copies' = [copies EXCEPT ![t] = @ + 1]
              /\ UNCHANGED <<outcome, departed>>

Settle(t, o) == /\ outcome[t] = "pending"
                /\ o = "sent" => copies[t] > 0
                /\ outcome' = [outcome EXCEPT ![t] = o]
                /\ UNCHANGED <<departed, copies>>

(* The end of the process takes every pending send with it. *)
LoseAll == /\ outcome' = [t \in Sends |-> IF outcome[t] = "pending" THEN "lost"
                                                                    ELSE outcome[t]]
           /\ UNCHANGED <<departed, copies>>

Next == \/ \E S \in SUBSET Sends : Accept(S)
        \/ \E t \in Sends : Depart(t) \/ Deliver(t)
        \/ \E t \in Sends, o \in Logged \cup {"lost"} : Settle(t, o)
        \/ LoseAll

Spec == Init /\ [][Next]_vars
=============================================================================
