-------------------------- MODULE DispatcherProofs --------------------------
(***************************************************************************)
(* Proofs about Dispatcher for any alerts, recipients, notifiers, routes   *)
(* and store behaviour.  The inductive invariant counts, for each send,    *)
(* the messages that left for its endpoint.                                *)
(***************************************************************************)
EXTENDS Dispatcher, TLAPS

(* sendOne makes two attempts, and from each at most one message leaves.   *)
WithinBudget(t) ==
  /\ Departed(t) <= 2
  /\ pc[t] = "idle" => Departed(t) = 0
  /\ pc[t] = "try1" => Departed(t) <= 1
  /\ pc[t] = "try1" /\ message[t] = "kept" => Departed(t) = 0
  /\ pc[t] = "wait" => Departed(t) <= 1
  /\ pc[t] = "try2" /\ message[t] = "kept" => Departed(t) <= 1

(* What the goroutine believes was delivered was delivered. *)
TrueToEndpoint(t) ==
  /\ message[t] = "taken" => copies[t] > 0
  /\ pc[t] = "record" /\ status[t] = "sent" => copies[t] > 0
  /\ alertLog[t] = "sent" => copies[t] > 0

(* A row is written by the goroutine's last step, and a message is at hand *)
(* during an attempt only.                                                 *)
LastWord(t) ==
  /\ alertLog[t] # "none" => pc[t] = "done"
  /\ proc = "stopped" => pc[t] \notin Active
  /\ ~Attempting(t) => message[t] = "kept"

SendInv(t) == WithinBudget(t) /\ TrueToEndpoint(t) /\ LastWord(t)

IInv == TypeOK /\ \A t \in Sends : SendInv(t)

(* The inductive invariant holds initially. *)
LEMMA InitIInv == Init => IInv
<1> SUFFICES ASSUME Init PROVE IInv
  OBVIOUS
<1>1. TypeOK
  BY DEF Init, TypeOK, Active, Logged
<1>2. ASSUME NEW t \in Sends PROVE SendInv(t)
  BY <1>1 DEF Init, SendInv, WithinBudget, Departed, OnTheWay, TrueToEndpoint, LastWord,
              Attempting, Active
<1> QED BY <1>1, <1>2 DEF IInv

(* A step of one send touches the state of no other. *)
LEMMA StepIsLocal ==
  ASSUME TypeOK, NEW t \in Sends, Step(t), NEW u \in Sends, u # t
  PROVE  /\ pc'[u] = pc[u] /\ to'[u] = to[u] /\ message'[u] = message[u]
         /\ late'[u] = late[u] /\ status'[u] = status[u]
         /\ copies'[u] = copies[u] /\ alertLog'[u] = alertLog[u]
         /\ proc' = proc
BY DEF TypeOK, Step, Leave, Reach, Succeed, Fail, Fails, Abandon, ReachLate, RetryTimer,
       AbortRetry, Record, RecordRefused

(* A step of t keeps the types. *)
LEMMA StepTypeOK ==
  ASSUME TypeOK, NEW t \in Sends, Step(t)
  PROVE  TypeOK'
<1> USE DEF TypeOK, Active, Logged
<1>0. CASE Leave(t)
  BY <1>0 DEF Leave
<1>1. CASE Reach(t)
  BY <1>1 DEF Reach
<1>2. CASE Succeed(t)
  BY <1>2 DEF Succeed
<1>3. CASE Fail(t)
  BY <1>3 DEF Fail, Fails, OnTheWay
<1>4. CASE Abandon(t)
  BY <1>4 DEF Abandon, Fails
<1>5. CASE ReachLate(t)
  BY <1>5 DEF ReachLate
<1>6. CASE RetryTimer(t)
  BY <1>6 DEF RetryTimer
<1>7. CASE AbortRetry(t)
  BY <1>7 DEF AbortRetry
<1>8. CASE Record(t)
  BY <1>8 DEF Record
<1>9. CASE RecordRefused(t)
  BY <1>9 DEF RecordRefused
<1> QED BY <1>0, <1>1, <1>2, <1>3, <1>4, <1>5, <1>6, <1>7, <1>8, <1>9 DEF Step

(* A step of t keeps what the invariant says of t. *)
LEMMA StepSendInv ==
  ASSUME TypeOK, NEW t \in Sends, SendInv(t), Step(t)
  PROVE  SendInv(t)'
<1> USE DEF TypeOK, Logged, SendInv, WithinBudget, Departed, OnTheWay, TrueToEndpoint,
            LastWord, Attempting, Active
<1>0. CASE Leave(t)
  BY <1>0 DEF Leave
<1>1. CASE Reach(t)
  BY <1>1 DEF Reach
<1>2. CASE Succeed(t)
  BY <1>2 DEF Succeed
<1>3. CASE Fail(t)
  BY <1>3 DEF Fail, Fails
<1>4. CASE Abandon(t)
  BY <1>4 DEF Abandon, Fails, Ctx
<1>5. CASE ReachLate(t)
  BY <1>5 DEF ReachLate
<1>6. CASE RetryTimer(t)
  BY <1>6 DEF RetryTimer
<1>7. CASE AbortRetry(t)
  BY <1>7 DEF AbortRetry
<1>8. CASE Record(t)
  BY <1>8 DEF Record, StoreAccepts, Ctx
<1>9. CASE RecordRefused(t)
  BY <1>9 DEF RecordRefused
<1> QED BY <1>0, <1>1, <1>2, <1>3, <1>4, <1>5, <1>6, <1>7, <1>8, <1>9 DEF Step

(* What the invariant says of a send depends on that send and on proc only. *)
LEMMA SendInvUnchanged ==
  ASSUME NEW u \in Sends, SendInv(u), proc' = proc,
         pc'[u] = pc[u], message'[u] = message[u], late'[u] = late[u],
         status'[u] = status[u], copies'[u] = copies[u], alertLog'[u] = alertLog[u]
  PROVE  SendInv(u)'
BY DEF SendInv, WithinBudget, Departed, OnTheWay, TrueToEndpoint, LastWord, Attempting

(* Dispatch starts sends that were idle, with no copy anywhere. *)
LEMMA DispatchIInv ==
  ASSUME IInv, NEW a \in Alerts, NEW names \in Routes, Dispatch(a, names)
  PROVE  IInv'
<1>1. TypeOK'
  BY DEF IInv, TypeOK, Dispatch, StartSends, Active
<1>2. ASSUME NEW t \in Sends PROVE SendInv(t)'
  <2>1. SendInv(t) /\ TypeOK
    BY DEF IInv
  <2>2. CASE t \in StartSends(a, names)
    <3>1. t = <<a, t[2]>> /\ t[2] \in Slots
      BY <2>2 DEF StartSends, Sends
    <3>2. pc[t] = "idle" /\ pc'[t] = "try1"
      BY <2>2, <3>1 DEF Dispatch
    <3> QED BY <2>1, <3>2 DEF Dispatch, TypeOK, SendInv, WithinBudget, Departed, OnTheWay,
                              TrueToEndpoint, LastWord, Attempting, Active
  <2>3. CASE t \notin StartSends(a, names)
    BY <2>1, <2>3, SendInvUnchanged DEF Dispatch
  <2> QED BY <2>2, <2>3
<1> QED BY <1>1, <1>2 DEF IInv

(* The three steps of the process. *)
LEMMA ProcessIInv ==
  ASSUME IInv, Cancel \/ Stop \/ Start
  PROVE  IInv'
<1>1. TypeOK'
  BY DEF IInv, TypeOK, Cancel, Stop, Start, goroutine, OnTheWay, Active
<1>2. ASSUME NEW t \in Sends PROVE SendInv(t)'
  <2> SendInv(t) /\ TypeOK
    BY DEF IInv
  <2> USE DEF TypeOK, SendInv, WithinBudget, Departed, OnTheWay, TrueToEndpoint,
              LastWord, Attempting, Active
  <2>1. CASE Cancel
    BY <2>1 DEF Cancel, goroutine
  <2>2. CASE Stop
    BY <2>2 DEF Stop
  <2>3. CASE Start
    BY <2>3 DEF Start, goroutine
  <2> QED BY <2>1, <2>2, <2>3
<1> QED BY <1>1, <1>2 DEF IInv

(* Every step keeps the inductive invariant. *)
LEMMA NextIInv == IInv /\ [Next]_vars => IInv'
<1> SUFFICES ASSUME IInv, [Next]_vars PROVE IInv'
  OBVIOUS
<1>1. CASE \E a \in Alerts, names \in Routes : Dispatch(a, names)
  BY <1>1, DispatchIInv
<1>2. ASSUME NEW t \in Sends, Step(t) PROVE IInv'
  <2>1. TypeOK'
    BY <1>2, StepTypeOK DEF IInv
  <2>2. ASSUME NEW u \in Sends PROVE SendInv(u)'
    <3>1. CASE u = t
      BY <1>2, <3>1, StepSendInv DEF IInv
    <3>2. CASE u # t
      BY <1>2, <3>2, StepIsLocal, SendInvUnchanged DEF IInv
    <3> QED BY <3>1, <3>2
  <2> QED BY <2>1, <2>2 DEF IInv
<1>3. CASE Cancel \/ Stop \/ Start
  BY <1>3, ProcessIInv
<1>4. CASE UNCHANGED vars
  BY <1>4 DEF vars, IInv, TypeOK, SendInv, WithinBudget, Departed, OnTheWay,
              TrueToEndpoint, LastWord, Attempting
<1> QED BY <1>1, <1>2, <1>3, <1>4 DEF Next, Step

LEMMA Invariance == Spec => []IInv
BY InitIInv, NextIInv, PTL DEF Spec

-----------------------------------------------------------------------------
(* Type correctness of the dispatcher (dispatcher.go). *)
THEOREM TypeCorrect == Spec => []TypeOK
<1>1. IInv => TypeOK
  BY DEF IInv
<1> QED BY <1>1, Invariance, PTL

(* sendOne never puts more than two copies of an alert at a recipient,     *)
(* whatever is lost, hangs, is cancelled or restarted.                     *)
THEOREM CopiesBounded == Spec => []AtMostTwoCopies
<1>1. IInv => AtMostTwoCopies
  BY DEF IInv, TypeOK, SendInv, WithinBudget, Departed, OnTheWay, AtMostTwoCopies
<1> QED BY <1>1, Invariance, PTL

(* A "sent" row in alert_log was delivered. *)
THEOREM SentIsTrue == Spec => []SentMeansDelivered
<1>1. IInv => SentMeansDelivered
  BY DEF IInv, SendInv, TrueToEndpoint, SentMeansDelivered
<1> QED BY <1>1, Invariance, PTL

(* Once alert_log has a row for a send, the row stays and no message       *)
(* leaves for its endpoint any more: the goroutine is at its end.  What    *)
(* left before is still counted when it arrives.                           *)
LEMMA LoggedStep ==
  ASSUME IInv, [Next]_vars, NEW t \in Sends, alertLog[t] # "none"
  PROVE  alertLog'[t] = alertLog[t] /\ Departed(t)' = Departed(t)
<1> TypeOK /\ pc[t] = "done" /\ message[t] = "kept"
  BY DEF IInv, SendInv, LastWord, Attempting
<1> USE DEF Departed, OnTheWay
<1>1. CASE \E a \in Alerts, names \in Routes : Dispatch(a, names)
  BY <1>1 DEF Dispatch
<1>2. ASSUME NEW u \in Sends, Step(u)
      PROVE  alertLog'[t] = alertLog[t] /\ Departed(t)' = Departed(t)
  <2>1. CASE u = t
    <3>1. ReachLate(t)
      BY <1>2, <2>1 DEF Step, Leave, Reach, Succeed, Fail, Fails, Abandon, RetryTimer,
                        AbortRetry, Record, RecordRefused, Attempting
    <3> QED BY <3>1 DEF ReachLate, TypeOK
  <2>2. CASE u # t
    BY <1>2, <2>2, StepIsLocal
  <2> QED BY <2>1, <2>2
<1>3. CASE Cancel \/ Stop \/ Start
  BY <1>3 DEF Cancel, Stop, Start, goroutine, TypeOK
<1>4. CASE UNCHANGED vars
  BY <1>4 DEF vars
<1> QED BY <1>1, <1>2, <1>3, <1>4 DEF Next, Step

THEOREM RowsAreFinal == Spec => LoggedIsLast
<1>1. IInv /\ [Next]_vars =>
        [\A t \in Sends : alertLog[t] # "none" =>
            alertLog'[t] = alertLog[t] /\ Departed(t)' = Departed(t)]_vars
  BY LoggedStep
<1> QED BY <1>1, Invariance, PTL DEF Spec, LoggedIsLast

-----------------------------------------------------------------------------
(* The dispatcher implements Delivery.                                     *)
LEMMA InitRefines == Init => Promise!Init
BY DEF Init, Promise!Init, Outcome, Departed, OnTheWay, Active

(* A step of one send changes what Delivery sees of that send alone. *)
LEMMA StepLocalAbove ==
  ASSUME TypeOK, NEW t \in Sends, Step(t), NEW u \in Sends, u # t
  PROVE  /\ Outcome(u)' = Outcome(u) /\ Departed(u)' = Departed(u)
         /\ copies'[u] = copies[u]
BY StepIsLocal DEF Outcome, Departed, OnTheWay

(* A step of a send that leaves its outcome and its messages alone is a    *)
(* stutter of Delivery.                                                    *)
LEMMA QuietStep ==
  ASSUME TypeOK, NEW t \in Sends, Step(t),
         Outcome(t)' = Outcome(t), Departed(t)' = Departed(t), copies' = copies
  PROVE  UNCHANGED Promise!vars
BY StepLocalAbove DEF Promise!vars

(* A step of a send from which a message leaves is a Depart. *)
LEMMA DepartStep ==
  ASSUME TypeOK, NEW t \in Sends, Step(t), Outcome(t) = "pending",
         Outcome(t)' = Outcome(t), copies' = copies,
         Departed(t) < 2, Departed(t)' = Departed(t) + 1
  PROVE  Promise!Depart(t)
<1>1. [u \in Sends |-> Departed(u)']
        = [[u \in Sends |-> Departed(u)] EXCEPT ![t] = Departed(t) + 1]
  BY StepLocalAbove
<1>2. [u \in Sends |-> Outcome(u)'] = [u \in Sends |-> Outcome(u)]
  BY StepLocalAbove
<1> QED BY <1>1, <1>2 DEF Promise!Depart

(* A step of a send whose message the endpoint takes is a Deliver. *)
LEMMA CopyStep ==
  ASSUME TypeOK, NEW t \in Sends, Step(t),
         Outcome(t)' = Outcome(t), copies' = [copies EXCEPT ![t] = @ + 1],
         Departed(t)' = Departed(t), copies[t] < Departed(t)
  PROVE  Promise!Deliver(t)
<1>1. /\ [u \in Sends |-> Departed(u)'] = [u \in Sends |-> Departed(u)]
      /\ [u \in Sends |-> Outcome(u)'] = [u \in Sends |-> Outcome(u)]
  BY StepLocalAbove
<1> QED BY <1>1 DEF Promise!Deliver

(* A step of a send that fixes its outcome is a Settle. *)
LEMMA SettleStep ==
  ASSUME TypeOK, NEW t \in Sends, Step(t), NEW o \in Logged \cup {"lost"},
         Outcome(t) = "pending", Outcome(t)' = o, copies' = copies,
         Departed(t)' = Departed(t), o = "sent" => copies[t] > 0
  PROVE  Promise!Settle(t, o)
<1>1. [u \in Sends |-> Outcome(u)'] = [[u \in Sends |-> Outcome(u)] EXCEPT ![t] = o]
  BY StepLocalAbove
<1>2. [u \in Sends |-> Departed(u)'] = [u \in Sends |-> Departed(u)]
  BY StepLocalAbove
<1> QED BY <1>1, <1>2 DEF Promise!Settle

(* Every step of a send is one of these. *)
LEMMA StepRefines ==
  ASSUME IInv, NEW t \in Sends, Step(t)
  PROVE  [Promise!Next]_Promise!vars
<1> TypeOK /\ SendInv(t) /\ TypeOK'
  BY StepTypeOK DEF IInv
<1> USE DEF TypeOK, SendInv, WithinBudget, LastWord, Attempting, Active, Logged
<1>1. CASE Leave(t)
  <2>1. Outcome(t) = "pending" /\ Outcome(t)' = Outcome(t) /\ copies' = copies
    BY <1>1 DEF Leave, Outcome
  <2>2. Departed(t) < 2 /\ Departed(t)' = Departed(t) + 1
    BY <1>1 DEF Leave, Departed, OnTheWay
  <2>3. Promise!Depart(t)
    BY <2>1, <2>2, DepartStep
  <2> QED BY <2>3 DEF Promise!Next
<1>2. CASE Reach(t) \/ ReachLate(t)
  <2>1. Outcome(t)' = Outcome(t) /\ copies' = [copies EXCEPT ![t] = @ + 1]
    BY <1>2 DEF Reach, ReachLate, Outcome
  <2>2. Departed(t)' = Departed(t) /\ copies[t] < Departed(t)
    BY <1>2 DEF Reach, ReachLate, Departed, OnTheWay
  <2>3. Promise!Deliver(t)
    BY <2>1, <2>2, CopyStep
  <2> QED BY <2>3 DEF Promise!Next
<1>3. CASE Record(t)
  <2>1. Outcome(t) = "pending" /\ Outcome(t)' = status[t] /\ copies' = copies
    BY <1>3 DEF Record, Outcome
  <2>2. status[t] = "sent" => copies[t] > 0
    BY <1>3 DEF Record, TrueToEndpoint
  <2>3. Departed(t)' = Departed(t)
    BY <1>3 DEF Record, Departed, OnTheWay
  <2>4. Promise!Settle(t, status[t])
    BY <2>1, <2>2, <2>3, SettleStep
  <2> QED BY <2>4 DEF Promise!Next, Promise!Logged
<1>4. CASE RecordRefused(t)
  <2>1. Outcome(t) = "pending" /\ Outcome(t)' = "lost" /\ copies' = copies
    BY <1>4 DEF RecordRefused, Outcome
  <2>2. Departed(t)' = Departed(t)
    BY <1>4 DEF RecordRefused, Departed, OnTheWay
  <2>3. Promise!Settle(t, "lost")
    BY <2>1, <2>2, SettleStep
  <2> QED BY <2>3 DEF Promise!Next
<1>5. CASE Abandon(t) /\ message[t] = "kept"
  <2>1. Outcome(t) = "pending" /\ Outcome(t)' = Outcome(t) /\ copies' = copies
    BY <1>5 DEF Abandon, Fails, Outcome
  <2>2. Departed(t) < 2 /\ Departed(t)' = Departed(t) + 1
    BY <1>5 DEF Abandon, Fails, Departed, OnTheWay
  <2>3. Promise!Depart(t)
    BY <2>1, <2>2, DepartStep
  <2> QED BY <2>3 DEF Promise!Next
<1>6. CASE \/ Succeed(t) \/ Fail(t) \/ (Abandon(t) /\ message[t] # "kept")
           \/ RetryTimer(t) \/ AbortRetry(t)
  <2>1. Outcome(t)' = Outcome(t) /\ copies' = copies
    BY <1>6 DEF Succeed, Fail, Fails, Abandon, RetryTimer, AbortRetry, Outcome
  <2>2. Departed(t)' = Departed(t)
    BY <1>6 DEF Succeed, Fail, Fails, Abandon, RetryTimer, AbortRetry, Departed, OnTheWay
  <2> QED BY <2>1, <2>2, QuietStep
<1> QED BY <1>1, <1>2, <1>3, <1>4, <1>5, <1>6 DEF Step

(* Dispatch accepts the sends it starts; the end of the process loses what *)
(* is pending; a signal and a restart are invisible.                       *)
LEMMA OtherStepRefines ==
  ASSUME IInv, \/ \E a \in Alerts, names \in Routes : Dispatch(a, names)
               \/ Cancel \/ Stop \/ Start
  PROVE  [Promise!Next]_Promise!vars
<1> TypeOK /\ \A t \in Sends : LastWord(t)
  BY DEF IInv, SendInv
<1> USE DEF TypeOK, Active
<1>1. ASSUME NEW a \in Alerts, NEW names \in Routes, Dispatch(a, names)
      PROVE  [Promise!Next]_Promise!vars
  <2> DEFINE S == StartSends(a, names)
  <2>1. S \in SUBSET Sends
    BY DEF StartSends
  <2>2. \A t \in S : pc[t] = "idle" /\ alertLog[t] = "none"
    BY <1>1, <2>1 DEF Dispatch, StartSends, Sends, LastWord
  <2>3. \A t \in S : Outcome(t) = "none" /\ Outcome(t)' = "pending"
    BY <1>1, <2>1, <2>2 DEF Dispatch, Outcome
  <2>4. \A t \in Sends \ S : Outcome(t)' = Outcome(t)
    BY <1>1 DEF Dispatch, Outcome
  <2>5. copies' = copies /\ \A t \in Sends : Departed(t)' = Departed(t)
    BY <1>1 DEF Dispatch, Departed, OnTheWay
  <2>6. Promise!Accept(S)
    BY <2>1, <2>3, <2>4, <2>5 DEF Promise!Accept
  <2> QED BY <2>1, <2>6 DEF Promise!Next
<1>2. CASE Stop
  <2>1. \A t \in Sends : Outcome(t)' = IF Outcome(t) = "pending" THEN "lost" ELSE Outcome(t)
    BY <1>2 DEF Stop, Outcome, LastWord, Logged
  <2>2. copies' = copies /\ \A t \in Sends : Departed(t)' = Departed(t)
    BY <1>2 DEF Stop, Departed, OnTheWay
  <2>3. Promise!LoseAll
    BY <2>1, <2>2 DEF Promise!LoseAll
  <2> QED BY <2>3 DEF Promise!Next
<1>3. CASE Cancel \/ Start
  <2>1. \A t \in Sends : Outcome(t)' = Outcome(t)
    BY <1>3 DEF Cancel, Start, goroutine, Outcome
  <2>2. copies' = copies /\ \A t \in Sends : Departed(t)' = Departed(t)
    BY <1>3 DEF Cancel, Start, goroutine, Departed, OnTheWay
  <2> QED BY <2>1, <2>2 DEF Promise!vars
<1> QED BY <1>1, <1>2, <1>3

(* The detailed dispatcher, with its retries, late messages, refused rows,  *)
(* shutdown, crash and restart, is a Delivery.                             *)
THEOREM Refinement == Spec => ImplementsDelivery
<1>1. IInv /\ [Next]_vars => [Promise!Next]_Promise!vars
  <2> SUFFICES ASSUME IInv, [Next]_vars PROVE [Promise!Next]_Promise!vars
    OBVIOUS
  <2>1. ASSUME NEW t \in Sends, Step(t) PROVE [Promise!Next]_Promise!vars
    BY <2>1, StepRefines
  <2>2. CASE \/ \E a \in Alerts, names \in Routes : Dispatch(a, names)
             \/ Cancel \/ Stop \/ Start
    BY <2>2, OtherStepRefines
  <2>3. CASE UNCHANGED vars
    BY <2>3 DEF vars, Promise!vars, Outcome, Departed, OnTheWay
  <2> QED BY <2>1, <2>2, <2>3 DEF Next, Step
<1> QED BY <1>1, InitRefines, Invariance, PTL DEF Spec, ImplementsDelivery, Promise!Spec

=============================================================================
