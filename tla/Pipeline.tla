------------------------------ MODULE Pipeline ------------------------------
(***************************************************************************)
(* What the scheduler promises for the results of its jobs, whatever       *)
(* goroutines and channel lie between a check and the end of process:      *)
(*   - a result that was made waits until it is processed, at most once,   *)
(*     and always the oldest of its job first;                             *)
(*   - none is lost before the signal, and any may be lost after it;       *)
(*   - when it is over, which it is only after the signal, nothing is      *)
(*     made and nothing processed any more.                                *)
(* Scheduler implements this module.                                       *)
(***************************************************************************)
EXTENDS Naturals

CONSTANT Jobs   \* the checks to run

VARIABLES made,      \* per job: results made so far
          waiting,   \* per job: the results not yet processed nor lost
          done,      \* per job: the last result processed
          live,      \* no signal yet
          over       \* Run has returned

vars == <<made, waiting, done, live, over>>

Init == /\ made    = [j \in Jobs |-> 0]
        /\ waiting = [j \in Jobs |-> {}]
        /\ done    = [j \in Jobs |-> 0]
        /\ live    = TRUE
        /\ over    = FALSE

Make(j) == /\ ~over
           /\ made'    = [made EXCEPT ![j] = @ + 1]
           /\ waiting' = [waiting EXCEPT ![j] = @ \cup {made[j] + 1}]
           /\ UNCHANGED <<done, live, over>>

Finish(j) == /\ ~over
             /\ \E n \in waiting[j] :
                  /\ \A m \in waiting[j] : n <= m
                  /\ done'    = [done EXCEPT ![j] = n]
                  /\ waiting' = [waiting EXCEPT ![j] = @ \ {n}]
             /\ UNCHANGED <<made, live, over>>

Lose(j) == /\ ~live /\ ~over
           /\ \E n \in waiting[j] : waiting' = [waiting EXCEPT ![j] = @ \ {n}]
           /\ UNCHANGED <<made, done, live, over>>

Signal == live /\ live' = FALSE /\ UNCHANGED <<made, waiting, done, over>>

End == /\ ~live /\ ~over
       /\ over' = TRUE
       /\ UNCHANGED <<made, waiting, done, live>>

Next == \/ \E j \in Jobs : Make(j) \/ Finish(j) \/ Lose(j)
        \/ Signal \/ End

Spec == Init /\ [][Next]_vars
=============================================================================
