----------------------------- MODULE Dispatcher -----------------------------
(***************************************************************************)
(* The alert dispatcher (internal/notifier/dispatcher.go) with the two     *)
(* notifiers that talk to a network, Slack and SMTP, and the alert log.    *)
(*                                                                         *)
(* Dispatch starts one goroutine per recipient and returns; nobody waits   *)
(* for these goroutines.  Each runs sendOne: an attempt, on failure a wait *)
(* of RetryDelay that a cancelled context cuts short, a second attempt,    *)
(* and one row in alert_log.  Everything takes the process's context, so   *)
(* the shutdown signal reaches the attempts, the wait and the row.         *)
(*                                                                         *)
(* A send is a pair <<alert, slot>>: the slot is the recipient's position  *)
(* in the list given to Dispatch (a list may name a notifier twice).       *)
(***************************************************************************)
EXTENDS Naturals, Sequences

CONSTANTS Alerts,       \* alerts that may be dispatched
          Slots,        \* positions in a recipient list
          Notifiers,    \* configured notifiers
          Smtp,         \* those that send mail; the others post to Slack
          NoNotifier,   \* recipient of a send that has not started
          Routes,       \* recipient lists, sequences of notifier names
          StoreFaults   \* whether the store may refuse a row of its own accord

ASSUME SmtpAssumption   == Smtp \subseteq Notifiers
ASSUME NoneAssumption   == NoNotifier \notin Notifiers
ASSUME FaultsAssumption == StoreFaults \in BOOLEAN

VARIABLES pc,         \* where the goroutine of each send is in sendOne: "idle"
                      \* before it starts, "done" after it returned, "dead" if
                      \* the process ended first
          to,         \* its notifier
          message,    \* the message of the attempt under way: "kept" until it
                      \* leaves, "sent" on its way, "taken" by the endpoint
          late,       \* messages whose attempt is over or left to itself, which
                      \* may still arrive
          status,     \* the outcome to record
          copies,     \* messages the endpoint of each send has taken
          alertLog,   \* the outcome alert_log holds for each send; on disk
          proc        \* the process: "running", "stopping" (its context is
                      \* cancelled) or "stopped"

goroutine == <<pc, to, message, late, status>>
vars      == <<pc, to, message, late, status, copies, alertLog, proc>>

Sends  == Alerts \X Slots
Logged == {"sent", "failed"}
Active == {"try1", "wait", "try2", "record"}
Ctx    == proc = "running"               \* ctx.Err() == nil

Init == /\ pc        = [t \in Sends |-> "idle"]
        /\ to        = [t \in Sends |-> NoNotifier]
        /\ message   = [t \in Sends |-> "kept"]
        /\ late      = [t \in Sends |-> 0]
        /\ status    = [t \in Sends |-> "failed"]
        /\ copies    = [t \in Sends |-> 0]
        /\ alertLog  = [t \in Sends |-> "none"]
        /\ proc      = "running"

-----------------------------------------------------------------------------
(* Variants of definitions below, each with a mistake one could make in    *)
(* that code.                                                              *)
Attempting_oneByOne(t) ==
  /\ pc[t] \in {"try1", "try2"}
  /\ \A u \in Sends : u[1] = t[1] /\ pc[u] \in Active => u[2] >= t[2]

Fails_forgottenStatus(t, left) ==
  /\ pc[t] \in {"try1", "try2"}
  /\ pc'      = [pc EXCEPT ![t] = IF @ = "try1" THEN "wait" ELSE "record"]
  /\ status'  = [status EXCEPT ![t] = "sent"]
  /\ message' = [message EXCEPT ![t] = "kept"]
  /\ late'    = [late EXCEPT ![t] = @ + left]
  /\ UNCHANGED <<to, copies, alertLog, proc>>

Fails_retriedForever(t, left) ==
  /\ pc[t] \in {"try1", "try2"}
  /\ pc'      = [pc EXCEPT ![t] = "wait"]
  /\ message' = [message EXCEPT ![t] = "kept"]
  /\ late'    = [late EXCEPT ![t] = 0]
  /\ UNCHANGED <<to, status, copies, alertLog, proc>>

Fails_loggedEachTime(t, left) ==
  /\ pc[t] \in {"try1", "try2"}
  /\ pc'       = [pc EXCEPT ![t] = IF @ = "try1" THEN "wait" ELSE "record"]
  /\ status'   = [status EXCEPT ![t] = "failed"]
  /\ message'  = [message EXCEPT ![t] = "kept"]
  /\ late'     = [late EXCEPT ![t] = @ + left]
  /\ alertLog' = [alertLog EXCEPT ![t] = IF Ctx THEN "failed" ELSE @]
  /\ UNCHANGED <<to, copies, proc>>

AbortRetry_ownStatus(t) ==
  /\ pc[t] = "wait"
  /\ proc # "running"
  /\ pc'     = [pc EXCEPT ![t] = "record"]
  /\ status' = [status EXCEPT ![t] = "aborted"]
  /\ UNCHANGED <<to, message, late, copies, alertLog, proc>>

Abandon_ctxIgnored(t) == FALSE /\ UNCHANGED <<to[t], vars>>

StoreAccepts_withoutCtx == TRUE

-----------------------------------------------------------------------------
(* Dispatch: a goroutine for every listed name that is a notifier; a name  *)
(* that is none is logged and skipped (a configuration Validate accepts    *)
(* has no such name).                                                      *)
StartSends(a, names) ==
  {t \in Sends : t[1] = a /\ t[2] \in DOMAIN names /\ names[t[2]] \in Notifiers}

Dispatch(a, names) ==
  /\ proc # "stopped"
  /\ \A i \in Slots : pc[<<a, i>>] = "idle"
  /\ pc' = [t \in Sends |-> IF t \in StartSends(a, names) THEN "try1" ELSE pc[t]]
  /\ to' = [t \in Sends |-> IF t \in StartSends(a, names) THEN names[t[2]] ELSE to[t]]
  /\ UNCHANGED <<message, late, status, copies, alertLog, proc>>

Attempting(t) == pc[t] \in {"try1", "try2"}

(* The message leaves: a Slack request is made with ctx and is not sent    *)
(* once ctx is cancelled; the mail conversation ignores ctx.               *)
Leave(t) ==
  /\ Attempting(t)
  /\ message[t] = "kept"
  /\ to[t] \in Smtp \/ Ctx
  /\ message' = [message EXCEPT ![t] = "sent"]
  /\ UNCHANGED <<pc, to, late, status, copies, alertLog, proc>>

(* The endpoint takes it: the webhook gets the whole request, or the mail  *)
(* server the end of DATA.                                                 *)
Reach(t) ==
  /\ message[t] = "sent"
  /\ message' = [message EXCEPT ![t] = "taken"]
  /\ copies'  = [copies EXCEPT ![t] = @ + 1]
  /\ UNCHANGED <<pc, to, late, status, alertLog, proc>>

(* Notify returns nil, on the endpoint's answer. *)
Succeed(t) ==
  /\ Attempting(t)
  /\ message[t] = "taken"
  /\ pc'      = [pc EXCEPT ![t] = "record"]
  /\ status'  = [status EXCEPT ![t] = "sent"]
  /\ message' = [message EXCEPT ![t] = "kept"]
  /\ UNCHANGED <<to, late, copies, alertLog, proc>>

(* Notify returns an error: a refused or timed-out request, a lost answer, *)
(* a cancelled context.  The endpoint may have taken the message, or may   *)
(* take it yet: giving up does not call back what was sent.                *)
OnTheWay(t) == IF message[t] = "sent" THEN 1 ELSE 0

Fails(t, left) ==
  /\ Attempting(t)
  /\ pc'      = [pc EXCEPT ![t] = IF @ = "try1" THEN "wait" ELSE "record"]
  /\ status'  = [status EXCEPT ![t] = "failed"]
  /\ message' = [message EXCEPT ![t] = "kept"]
  /\ late'    = [late EXCEPT ![t] = @ + left]
  /\ UNCHANGED <<to, copies, alertLog, proc>>

Fail(t) == Fails(t, OnTheWay(t))

(* The mail notifier returns on the cancelled context and leaves its       *)
(* conversation to itself, which may send its message yet.                 *)
Abandon(t) == /\ ~Ctx
              /\ to[t] \in Smtp
              /\ Fails(t, IF message[t] = "taken" THEN 0 ELSE 1)

(* What was sent may arrive after its attempt, its row and its process.    *)
ReachLate(t) ==
  /\ late[t] > 0
  /\ late'   = [late EXCEPT ![t] = @ - 1]
  /\ copies' = [copies EXCEPT ![t] = @ + 1]
  /\ UNCHANGED <<pc, to, message, status, alertLog, proc>>

(* The two cases of sendOne's select.  When both are ready Go takes either. *)
RetryTimer(t) ==
  /\ pc[t] = "wait"
  /\ pc' = [pc EXCEPT ![t] = "try2"]
  /\ UNCHANGED <<to, message, late, status, copies, alertLog, proc>>

AbortRetry(t) ==
  /\ pc[t] = "wait"
  /\ ~Ctx
  /\ pc'     = [pc EXCEPT ![t] = "record"]
  /\ status' = [status EXCEPT ![t] = "failed"]
  /\ UNCHANGED <<to, message, late, copies, alertLog, proc>>

(* RecordAlert runs under the same ctx, and database/sql refuses a call    *)
(* whose context is cancelled.  A refusal is only logged.                  *)
StoreAccepts == Ctx
StoreRefuses == ~Ctx \/ StoreFaults

Record(t) ==
  /\ pc[t] = "record"
  /\ StoreAccepts
  /\ alertLog' = [alertLog EXCEPT ![t] = status[t]]
  /\ pc'       = [pc EXCEPT ![t] = "done"]
  /\ UNCHANGED <<to, message, late, status, copies, proc>>

RecordRefused(t) ==
  /\ pc[t] = "record"
  /\ StoreRefuses
  /\ pc' = [pc EXCEPT ![t] = "done"]
  /\ UNCHANGED <<to, message, late, status, copies, alertLog, proc>>

-----------------------------------------------------------------------------
(* The process.  SIGTERM, or a health server that fails, cancels the       *)
(* context.  The process ends when main returns, which waits for the       *)
(* scheduler and the health server but not for the sends, or by a crash;   *)
(* either way its goroutines end where they are.                           *)
Cancel == /\ proc = "running"
          /\ proc' = "stopping"
          /\ UNCHANGED <<goroutine, copies, alertLog>>

Stop == /\ proc # "stopped"
        /\ proc'      = "stopped"
        /\ pc'      = [t \in Sends |-> IF pc[t] \in Active THEN "dead" ELSE pc[t]]
        /\ message' = [t \in Sends |-> "kept"]
        /\ late'    = [t \in Sends |-> late[t] + OnTheWay(t)]
        /\ UNCHANGED <<to, status, copies, alertLog>>

Start == /\ proc = "stopped"
         /\ proc' = "running"
         /\ UNCHANGED <<goroutine, copies, alertLog>>

(* One step of the goroutine of t, or of a message of its. *)
Step(t) == \/ Leave(t) \/ Reach(t) \/ Succeed(t) \/ Fail(t) \/ Abandon(t) \/ ReachLate(t)
           \/ RetryTimer(t) \/ AbortRetry(t) \/ Record(t) \/ RecordRefused(t)

Next == \/ \E a \in Alerts, names \in Routes : Dispatch(a, names)
        \/ \E t \in Sends : Step(t)
        \/ Cancel \/ Stop \/ Start

(* Slack's client gives up after 10 s, so its Notify returns.  The mail    *)
(* conversation has no deadline: its Notify is only sure to return once    *)
(* the context is cancelled.  Timers fire and the store answers.  Nothing  *)
(* forces a signal, a crash, a restart or an endpoint to take a message.   *)
ReturnSlack(t) == to[t] \notin Smtp /\ (Succeed(t) \/ Fail(t))

Fairness == \A t \in Sends : /\ WF_vars(ReturnSlack(t))
                             /\ WF_vars(Abandon(t))
                             /\ WF_vars(RetryTimer(t) \/ AbortRetry(t))
                             /\ WF_vars(Record(t) \/ RecordRefused(t))

Spec     == Init /\ [][Next]_vars
FairSpec == Spec /\ Fairness

-----------------------------------------------------------------------------
TypeOK == /\ pc        \in [Sends -> Active \cup {"idle", "done", "dead"}]
          /\ to        \in [Sends -> Notifiers \cup {NoNotifier}]
          /\ message   \in [Sends -> {"kept", "sent", "taken"}]
          /\ late      \in [Sends -> Nat]
          /\ status    \in [Sends -> Logged]
          /\ copies    \in [Sends -> Nat]
          /\ alertLog  \in [Sends -> Logged \cup {"none"}]
          /\ proc      \in {"running", "stopping", "stopped"}

(* One retry means at most two copies of an alert at one recipient, even   *)
(* counting attempts whose answer was lost and conversations left behind.  *)
AtMostTwoCopies == \A t \in Sends : copies[t] <= 2

(* A "sent" row is never a lie: the endpoint took the message.             *)
SentMeansDelivered == \A t \in Sends : alertLog[t] = "sent" => copies[t] > 0

(* A row of alert_log is the last word on its send: it is never replaced,  *)
(* and no message leaves after it.  One that left before may still arrive, *)
(* after a "failed" row too.                                               *)
Departed(t) == copies[t] + late[t] + OnTheWay(t)

LoggedIsLast ==
  [][\A t \in Sends : alertLog[t] # "none" =>
        alertLog'[t] = alertLog[t] /\ Departed(t)' = Departed(t)]_vars

(* A Slack send is over, its row handed to the store, while the process    *)
(* stays up, however long a mail notifier of the same alert hangs.         *)
SlackSettles ==
  \A t \in Sends : (pc[t] = "try1" /\ to[t] \notin Smtp)
                      ~> (pc[t] = "done" \/ ~Ctx)

(* Cancelling the context ends every send, retries and hung mail included. *)
CancelEndsSends ==
  \A t \in Sends : (proc = "stopping" /\ pc[t] \in Active)
                      ~> pc[t] \notin Active

(* dispatcher.go:32-33, "Failures are logged and retried once after        *)
(* RetryDelay; the final outcome is recorded in alert_log": every send of  *)
(* a process that stays up gets its row.                                   *)
EverySendSettles ==
  \A t \in Sends : pc[t] = "try1" ~> (alertLog[t] # "none" \/ ~Ctx)

-----------------------------------------------------------------------------
(* The dispatcher implements Delivery. *)
Outcome(t) == IF alertLog[t] # "none"  THEN alertLog[t]
              ELSE IF pc[t] = "idle"     THEN "none"
              ELSE IF pc[t] \in Active   THEN "pending"
              ELSE "lost"

Promise == INSTANCE Delivery WITH Sends     <- Sends,
                                  MaxCopies <- 2,
                                  outcome   <- [t \in Sends |-> Outcome(t)],
                                  departed  <- [t \in Sends |-> Departed(t)],
                                  copies    <- copies

(* Refinement: every behaviour of the dispatcher is one Delivery allows.   *)
ImplementsDelivery == Promise!Spec
=============================================================================
