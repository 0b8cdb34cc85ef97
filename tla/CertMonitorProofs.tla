------------------------- MODULE CertMonitorProofs -------------------------
(***************************************************************************)
(* Proofs about CertMonitor for any certificates, thresholds, windows and  *)
(* recipients.  NeverTwice rests on dates: an alert is raised, and so its  *)
(* row written, no earlier than its band was entered, and its certificate  *)
(* expires less than a day after the band's days, however long the result  *)
(* of its check has waited.                                                *)
(***************************************************************************)
EXTENDS CertMonitor, ExpiryProofs

PCs == {"idle", "try1", "wait", "try2", "record", "done", "dead"}

SendTypes == /\ pc       \in [Sender!Sends -> PCs]
             /\ status   \in [Sender!Sends -> {"sent", "failed"}]
             /\ alertLog \in [Sender!Sends -> {"none", "sent", "failed"}]

(* A send is of an alert that was raised; a logged one is over. *)
SendsOfRaised == \A t \in Sender!Sends :
                    /\ pc[t] # "idle" => t[1] \in DOMAIN raised
                    /\ alertLog[t] # "none" => pc[t] = "done"

(* At t the certificate of alert a is in its band, or past it: so few ticks *)
(* are left to its end.                                                    *)
InReach(a) == (a.band + 1) * DayLength

NoEarlierThan(a, t) ==
  a.kind = "expiring" => a.cert \in Certs /\ NotAfter[a.cert] - t < InReach(a)

(* With n days left at t, as a result has it, fewer than n + 1 remain.     *)
DatedResult(r, t) ==
  (r.dialed /\ ~r.untrusted) =>
    \A n \in Nat : r.days <= n => NotAfter[r.cert] - t < (n + 1) * DayLength

Dated == /\ DatedResult(pending, now)
         /\ DatedResult(result, now)
         /\ NoEarlierThan(due, now)
         /\ \A i \in DOMAIN raised : NoEarlierThan(raised[i], now)
         /\ \A t \in Sender!Sends :
               alertLog[t] # "none" => NoEarlierThan(raised[t[1]], loggedOn[t])

IInv == TypeOK /\ SendTypes /\ SendsOfRaised /\ Dated

-----------------------------------------------------------------------------
LEMMA DaysLeftInt ==
  ASSUME NEW c \in Certs, now \in Int
  PROVE  DaysLeft(c) \in Int
<1>1. NotAfter[c] - now \in Int
  BY CertsAssumption
<1> QED BY <1>1, DayAssumption, WholeDaysInt DEF DaysLeft

LEMMA ReachInt ==
  ASSUME NEW a \in AlertRecords
  PROVE  InReach(a) \in Int
BY DayAssumption DEF InReach, AlertRecords

(* An alert may be raised as well at any time after one at which it may be. *)
LEMMA LaterToo ==
  ASSUME NEW a \in AlertRecords, NEW t \in Int, NEW u \in Int, t <= u,
         NoEarlierThan(a, t)
  PROVE  NoEarlierThan(a, u)
BY ReachInt, CertsAssumption DEF NoEarlierThan

LEMMA LaterResult ==
  ASSUME NEW r \in Results, NEW t \in Int, NEW u \in Int, t <= u, DatedResult(r, t)
  PROVE  DatedResult(r, u)
<1> SUFFICES ASSUME r.dialed /\ ~r.untrusted, NEW n \in Nat, r.days <= n
             PROVE  NotAfter[r.cert] - u < (n + 1) * DayLength
  BY DEF DatedResult
<1>1. NotAfter[r.cert] - t < (n + 1) * DayLength
  BY DEF DatedResult
<1>2. NotAfter[r.cert] \in Int /\ (n + 1) * DayLength \in Int
  BY CertsAssumption, DayAssumption DEF Results
<1> QED BY <1>1, <1>2

LEMMA NoResultFacts == NoResult \in Results /\ \A t : DatedResult(NoResult, t)
BY CertsAssumption DEF NoResult, Results, DatedResult

LEMMA NoAlertFacts == NoAlert \in AlertRecords /\ \A t : NoEarlierThan(NoAlert, t)
BY DEF NoAlert, AlertRecords, NoEarlierThan

(* What a check finds of a certificate still valid is dated. *)
LEMMA FoundFacts ==
  ASSUME NEW c \in Certs, now \in Int, NotAfter[c] - now \in Nat, NEW n \in Nat, DaysLeft(c) <= n
  PROVE  NotAfter[c] - now < (n + 1) * DayLength
BY DayAssumption, WholeDaysBound DEF DaysLeft

(* What the engine returns for the result in hand. *)
LEMMA VerdictFacts ==
  ASSUME TypeOK
  PROVE  /\ Verdict \in AlertRecords
         /\ Verdict.kind = "expiring" =>
              /\ Verdict.cert = result.cert /\ result.cert \in Certs
              /\ result.dialed /\ ~result.untrusted
              /\ Verdict.band \in Thresholds /\ result.days <= Verdict.band
              /\ ~SentLogged(Verdict.band, Verdict.cert)
<1>1. result.cert \in Certs /\ result.days \in Int /\ result.dialed \in BOOLEAN
  BY DEF TypeOK, Results
<1> DEFINE band == Band(result.days, Thresholds)
<1>2. band \in Nat /\ (band # 0 => band \in Thresholds /\ result.days <= band)
  BY <1>1, BandIsNat, BandIsCrossed, ThresholdsAssumption
<1> HIDE DEF band
<1>3. \/ Verdict = NoAlert
      \/ Verdict = [kind |-> "untrusted", band |-> 0, cert |-> result.cert]
      \/ /\ Verdict = [kind |-> "expiring", band |-> band, cert |-> result.cert]
         /\ result.dialed /\ ~result.untrusted
         /\ band # 0 /\ ~SentLogged(band, result.cert)
  <2> DEFINE toldBands == {b \in Thresholds : SentLogged(b, result.cert)}
  <2>1. band # 0 /\ band \notin toldBands => ~SentLogged(band, result.cert)
    BY <1>2
  <2> HIDE DEF toldBands
  <2>2. Verdict = DecideSSL(result, Thresholds, UntrustedLogged, toldBands)
    BY DEF Verdict, toldBands
  <2> QED BY <2>1, <2>2 DEF DecideSSL, band
<1> QED BY <1>1, <1>2, <1>3 DEF NoAlert, AlertRecords

LEMMA InitIInv == Init => IInv
<1> SUFFICES ASSUME Init PROVE IInv
  OBVIOUS
<1> USE DEF Init, Sender!Init
<1>1. TypeOK
  BY CertsAssumption, BoundsAssumption, NoResultFacts, NoAlertFacts DEF TypeOK, Times
<1>2. SendTypes /\ SendsOfRaised
  BY DEF SendTypes, SendsOfRaised, PCs
<1>3. Dated
  BY NoResultFacts, NoAlertFacts DEF Dated
<1> QED BY <1>1, <1>2, <1>3 DEF IInv

(* Steps that leave the sends and what was raised alone. *)
LEMMA QuietIInv ==
  ASSUME IInv, UNCHANGED <<raised, loggedOn, pc, status, alertLog>>, TypeOK',
         now <= now', NoEarlierThan(due', now'),
         DatedResult(pending', now'), DatedResult(result', now')
  PROVE  IInv'
<1>1. SendTypes' /\ SendsOfRaised'
  BY DEF IInv, SendTypes, SendsOfRaised
<1>2. \A i \in DOMAIN raised' : NoEarlierThan(raised'[i], now')
  <2> SUFFICES ASSUME NEW i \in DOMAIN raised
               PROVE  NoEarlierThan(raised[i], now')
    OBVIOUS
  <2>1. NoEarlierThan(raised[i], now) /\ raised[i] \in AlertRecords
    BY DEF IInv, Dated, TypeOK
  <2> QED BY <2>1, LaterToo DEF IInv, TypeOK, Times
<1>3. \A t \in Sender!Sends :
         alertLog'[t] # "none" => NoEarlierThan(raised'[t[1]], loggedOn'[t])
  BY DEF IInv, Dated
<1> QED BY <1>1, <1>2, <1>3 DEF IInv, Dated

(* The worker: a check, and its result given to the consumer or dropped. *)
LEMMA CheckIInv ==
  ASSUME IInv, (\E dialed \in BOOLEAN : CheckSSL(dialed)) \/ Take \/ Drop
  PROVE  IInv'
<1>0. now \in Int /\ served \in Certs /\ NotAfter[served] \in Int
  BY CertsAssumption DEF IInv, TypeOK, Times
<1>1. UNCHANGED <<now, served, due, raised, loggedOn, pc, status, alertLog>>
  BY DEF CheckSSL, Take, Drop, inhand, sender
<1>2. CASE \E dialed \in BOOLEAN : CheckSSL(dialed)
  <2> DEFINE untrusted == served \notin Sound \/ NotAfter[served] < now
             found     == [cert |-> served, dialed |-> TRUE, untrusted |-> untrusted,
                           days |-> DaysLeft(served)]
  <2>1. worker' = "sending" /\ pending' \in {found, NoResult} /\ UNCHANGED <<consumer, result>>
    BY <1>2 DEF CheckSSL, inhand
  <2>2. DaysLeft(served) \in Int /\ untrusted \in BOOLEAN
    BY <1>0, DaysLeftInt
  <2>3. found \in Results
    BY <1>0, <2>2 DEF Results
  <2>4. DatedResult(found, now)
    <3> SUFFICES ASSUME ~untrusted, NEW n \in Nat, DaysLeft(served) <= n
                 PROVE  NotAfter[served] - now < (n + 1) * DayLength
      BY DEF DatedResult
    <3>1. NotAfter[served] - now \in Nat
      BY <1>0
    <3> QED BY <1>0, <3>1, FoundFacts
  <2> HIDE DEF found
  <2>5. pending' \in Results /\ DatedResult(pending', now)
    BY <2>1, <2>3, <2>4, NoResultFacts
  <2>6. TypeOK'
    BY <1>1, <2>1, <2>5 DEF IInv, TypeOK
  <2> QED BY <1>0, <1>1, <2>1, <2>5, <2>6, QuietIInv DEF IInv, Dated
<1>3. CASE Take \/ Drop
  <2>1. /\ worker' = "timer" /\ pending' = NoResult
        /\ consumer' \in {consumer, "decide"} /\ result' \in {result, pending}
    BY <1>3 DEF Take, Drop, NextCheck, inhand
  <2>2. TypeOK'
    BY <1>1, <2>1, NoResultFacts DEF IInv, TypeOK
  <2>3. DatedResult(pending', now) /\ DatedResult(result', now)
    BY <2>1, NoResultFacts DEF IInv, Dated
  <2> QED BY <1>0, <1>1, <2>2, <2>3, QuietIInv DEF IInv, Dated
<1> QED BY <1>2, <1>3

LEMMA HandIInv ==
  ASSUME IInv, Decide \/ Refused
  PROVE  IInv'
<1>0. now \in Int
  BY DEF IInv, TypeOK, Times
<1>1. UNCHANGED <<now, served, worker, pending, raised, loggedOn, pc, status, alertLog>>
  BY DEF Decide, Refused, check, sender
<1>2. CASE Decide /\ Verdict.kind # "none"
  <2>1. due' = Verdict /\ consumer' = "dispatch" /\ result' = result
    BY <1>2 DEF Decide
  <2>2. TypeOK'
    BY <1>1, <2>1, VerdictFacts DEF IInv, TypeOK
  <2>3. NoEarlierThan(due', now)
    <3> SUFFICES ASSUME Verdict.kind = "expiring"
                 PROVE  /\ Verdict.cert \in Certs
                        /\ NotAfter[Verdict.cert] - now < InReach(Verdict)
      BY <2>1 DEF NoEarlierThan
    <3>1. /\ Verdict.cert = result.cert /\ result.cert \in Certs
          /\ result.dialed /\ ~result.untrusted
          /\ Verdict.band \in Nat /\ result.days <= Verdict.band
      BY VerdictFacts, ThresholdsAssumption DEF IInv
    <3> QED BY <3>1 DEF IInv, Dated, DatedResult, InReach
  <2> QED BY <1>0, <1>1, <2>1, <2>2, <2>3, QuietIInv DEF IInv, Dated
<1>3. CASE Refused \/ (Decide /\ Verdict.kind = "none")
  <2>1. consumer' = "select" /\ result' = NoResult /\ due' = NoAlert
    BY <1>3 DEF Refused, Decide, Forget
  <2>2. TypeOK'
    BY <1>1, <2>1, NoResultFacts, NoAlertFacts DEF IInv, TypeOK
  <2> QED BY <1>0, <1>1, <2>1, <2>2, NoResultFacts, NoAlertFacts, QuietIInv DEF IInv, Dated
<1> QED BY <1>2, <1>3

(* An alert is raised under the next free number. *)
LEMMA RaiseIInv ==
  ASSUME IInv, Raise
  PROVE  IInv'
<1> DEFINE n == Len(raised) + 1
<1>1. /\ raised' = Append(raised, due)
      /\ consumer' = "select" /\ result' = NoResult /\ due' = NoAlert
      /\ UNCHANGED <<now, served, worker, pending, loggedOn, status, alertLog>>
      /\ pc' = [t \in Sender!Sends |->
                  IF t \in Sender!StartSends(n, Recipients) THEN "try1" ELSE pc[t]]
      /\ \A i \in Slots : pc[<<n, i>>] = "idle"
  BY DEF Raise, Forget, check, Sender!Dispatch
<1>2. raised \in Seq(AlertRecords) /\ due \in AlertRecords
  BY DEF IInv, TypeOK
<1>3. /\ DOMAIN raised = 1..Len(raised) /\ DOMAIN raised' = 1..n /\ Len(raised) \in Nat
      /\ \A i \in DOMAIN raised : raised'[i] = raised[i]
      /\ raised'[n] = due
  BY <1>1, <1>2
<1>4. TypeOK'
  BY <1>1, <1>2, NoResultFacts, NoAlertFacts DEF IInv, TypeOK
<1>5. SendTypes'
  BY <1>1 DEF IInv, SendTypes, PCs
<1>6. SendsOfRaised'
  <2> SUFFICES ASSUME NEW t \in Sender!Sends
               PROVE  /\ pc'[t] # "idle" => t[1] \in DOMAIN raised'
                      /\ alertLog'[t] # "none" => pc'[t] = "done"
    BY DEF SendsOfRaised
  <2>1. t = <<t[1], t[2]>> /\ t[2] \in Slots
    BY DEF Sender!Sends
  <2>2. CASE t \in Sender!StartSends(n, Recipients)
    <3>1. t[1] = n /\ pc[t] = "idle"
      BY <1>1, <2>1, <2>2 DEF Sender!StartSends
    <3> QED BY <1>1, <1>3, <3>1 DEF IInv, SendsOfRaised
  <2>3. CASE t \notin Sender!StartSends(n, Recipients)
    <3>1. pc'[t] = pc[t]
      BY <1>1, <2>3
    <3> QED BY <1>1, <1>3, <3>1 DEF IInv, SendsOfRaised
  <2> QED BY <2>2, <2>3
<1>7. Dated'
  <2>1. \A i \in DOMAIN raised' : NoEarlierThan(raised'[i], now')
    BY <1>1, <1>3 DEF IInv, Dated
  <2>2. ASSUME NEW t \in Sender!Sends, alertLog'[t] # "none"
        PROVE  NoEarlierThan(raised'[t[1]], loggedOn'[t])
    <3>1. t[1] \in DOMAIN raised
      BY <1>1, <2>2 DEF IInv, SendsOfRaised
    <3>2. raised'[t[1]] = raised[t[1]]
      BY <1>3, <3>1
    <3> QED BY <1>1, <2>2, <3>2 DEF IInv, Dated
  <2> QED BY <1>1, <2>1, <2>2, NoResultFacts, NoAlertFacts DEF IInv, Dated
<1> QED BY <1>4, <1>5, <1>6, <1>7 DEF IInv

(* A step of a send changes that send alone, writes its row at its end and *)
(* never starts it.                                                        *)
LEMMA StepFacts ==
  ASSUME SendTypes, NEW t \in Sender!Sends, Sender!Step(t)
  PROVE  /\ SendTypes'
         /\ \A u \in Sender!Sends :
              /\ pc'[u] # "idle" => pc[u] # "idle"
              /\ \/ alertLog'[u] = alertLog[u] /\ (pc[u] = "done" => pc'[u] = "done")
                 \/ pc[u] = "record" /\ pc'[u] = "done"
<1> USE DEF SendTypes, PCs
<1>1. CASE Sender!Leave(t) \/ Sender!Reach(t) \/ Sender!ReachLate(t)
  BY <1>1 DEF Sender!Leave, Sender!Reach, Sender!ReachLate
<1>2. CASE Sender!Succeed(t)
  BY <1>2 DEF Sender!Succeed, Sender!Attempting
<1>3. CASE Sender!Fail(t) \/ Sender!Abandon(t)
  <2>1. /\ alertLog' = alertLog /\ pc[t] \in {"try1", "try2"}
        /\ pc' = [pc EXCEPT ![t] = IF pc[t] = "try1" THEN "wait" ELSE "record"]
        /\ status' = [status EXCEPT ![t] = "failed"]
    BY <1>3 DEF Sender!Fail, Sender!Abandon, Sender!Fails, Sender!Attempting
  <2> QED BY <2>1
<1>4. CASE Sender!RetryTimer(t) \/ Sender!AbortRetry(t)
  BY <1>4 DEF Sender!RetryTimer, Sender!AbortRetry
<1>5. CASE Sender!Record(t) \/ Sender!RecordRefused(t)
  BY <1>5 DEF Sender!Record, Sender!RecordRefused
<1> QED BY <1>1, <1>2, <1>3, <1>4, <1>5 DEF Sender!Step

(* A row is stamped with a day not before its alert was raised. *)
LEMMA SendIInv ==
  ASSUME IInv, SendStep
  PROVE  IInv'
<1>1. /\ UNCHANGED <<now, served, check, inhand, raised>>
      /\ loggedOn' = [t \in Sender!Sends |->
                        IF alertLog'[t] # alertLog[t] THEN now ELSE loggedOn[t]]
  BY DEF SendStep, SentAt
<1>2. /\ SendTypes'
      /\ \A u \in Sender!Sends :
            /\ pc'[u] # "idle" => pc[u] # "idle"
            /\ \/ alertLog'[u] = alertLog[u] /\ (pc[u] = "done" => pc'[u] = "done")
               \/ pc[u] = "record" /\ pc'[u] = "done"
  BY StepFacts DEF SendStep, IInv
<1>3. TypeOK'
  BY <1>1 DEF IInv, TypeOK, check, inhand
<1>4. SendsOfRaised'
  BY <1>1, <1>2 DEF IInv, SendsOfRaised
<1>5. ASSUME NEW t \in Sender!Sends, alertLog'[t] # "none"
      PROVE  NoEarlierThan(raised'[t[1]], loggedOn'[t])
  <2>1. CASE alertLog'[t] # alertLog[t]
    <3>1. t[1] \in DOMAIN raised /\ loggedOn'[t] = now
      BY <1>1, <1>2, <2>1 DEF IInv, SendsOfRaised
    <3> QED BY <1>1, <3>1 DEF IInv, Dated
  <2>2. CASE alertLog'[t] = alertLog[t]
    BY <1>1, <1>5, <2>2 DEF IInv, Dated
  <2> QED BY <2>1, <2>2
<1> QED BY <1>1, <1>2, <1>3, <1>4, <1>5 DEF IInv, Dated, check, inhand

(* The process, the site and the clock. *)
LEMMA WorldIInv ==
  ASSUME IInv, Cancel \/ Stop \/ Restart \/ (\E c \in Certs : Serve(c)) \/ Tick
  PROVE  IInv'
<1>1. CASE Stop
  <2>1. /\ UNCHANGED <<now, served, raised, loggedOn, status, alertLog>>
        /\ worker' = "timer" /\ pending' = NoResult
        /\ consumer' = "select" /\ result' = NoResult /\ due' = NoAlert
        /\ pc' = [t \in Sender!Sends |-> IF pc[t] \in Sender!Active THEN "dead" ELSE pc[t]]
    BY <1>1 DEF Stop, NextCheck, Forget, Sender!Stop
  <2>2. TypeOK'
    BY <2>1, NoResultFacts, NoAlertFacts DEF IInv, TypeOK
  <2>3. SendTypes' /\ SendsOfRaised'
    BY <2>1 DEF IInv, SendTypes, SendsOfRaised, PCs, Sender!Active
  <2>4. Dated'
    BY <2>1, NoResultFacts, NoAlertFacts DEF IInv, Dated
  <2> QED BY <2>2, <2>3, <2>4 DEF IInv
<1>2. CASE Cancel \/ Restart \/ (\E c \in Certs : Serve(c)) \/ Tick
  <2>1. /\ UNCHANGED <<check, inhand, raised, loggedOn, pc, status, alertLog>>
        /\ served' \in Certs
        /\ \/ now' = now
           \/ now < MaxTime /\ now' = now + 1
    BY <1>2 DEF Cancel, Restart, Serve, Tick, Sender!Cancel, Sender!Start,
                Sender!goroutine, sender, IInv, TypeOK
  <2>2. TypeOK' /\ now <= now' /\ now \in Int /\ now' \in Int
    BY <2>1, BoundsAssumption DEF IInv, TypeOK, check, inhand, Times
  <2>3. NoEarlierThan(due', now') /\ DatedResult(pending', now') /\ DatedResult(result', now')
    <3>1. /\ NoEarlierThan(due, now) /\ due \in AlertRecords
          /\ DatedResult(pending, now) /\ pending \in Results
          /\ DatedResult(result, now) /\ result \in Results
          /\ UNCHANGED <<due, pending, result>>
      BY <2>1 DEF IInv, Dated, TypeOK, check, inhand
    <3> QED BY <2>2, <3>1, LaterToo, LaterResult
  <2> QED BY <2>1, <2>2, <2>3, QuietIInv
<1> QED BY <1>1, <1>2

LEMMA NextIInv == IInv /\ [Next]_vars => IInv'
<1> SUFFICES ASSUME IInv, [Next]_vars PROVE IInv'
  OBVIOUS
<1>1. CASE Next
  BY <1>1, CheckIInv, HandIInv, RaiseIInv, SendIInv, WorldIInv DEF Next, Handle
<1>2. CASE UNCHANGED vars
  BY <1>2 DEF vars, check, inhand, sender, IInv, TypeOK, SendTypes, SendsOfRaised, Dated,
              NoEarlierThan, DatedResult
<1> QED BY <1>1, <1>2

THEOREM Invariance == Spec => []IInv
BY InitIInv, NextIInv, PTL DEF Spec

-----------------------------------------------------------------------------
(* Every variable of the monitor keeps its type. *)
THEOREM TypeCorrect == Spec => []TypeOK
<1>1. IInv => TypeOK
  BY DEF IInv
<1> QED BY <1>1, Invariance, PTL

(* No expiry alert is decided on for a band of a certificate that a sent   *)
(* row already tells of, while that is valid, if every threshold is less   *)
(* than the window: however late the result of a check is judged.          *)
THEOREM ToldOnce == Spec => NeverTwice
<1>1. IInv /\ [Next]_vars => [(ThresholdsWithinWindow /\ StillValid(due')) => ~Repeats]_vars
  <2> SUFFICES ASSUME IInv, Next, ThresholdsWithinWindow, StillValid(due'), Repeats
               PROVE  FALSE
    OBVIOUS
  <2>1. due' # due /\ due'.kind = "expiring"
    BY DEF Repeats
  <2>2. /\ ~(\E dialed \in BOOLEAN : CheckSSL(dialed)) /\ ~Take /\ ~Drop /\ ~SendStep
        /\ ~Cancel /\ ~Restart /\ ~(\E c \in Certs : Serve(c)) /\ ~Tick
    BY <2>1 DEF CheckSSL, Take, Drop, SendStep, Cancel, Restart, Serve, Tick, inhand
  <2>3. ~Refused /\ ~Raise /\ ~Stop
    BY <2>1 DEF Refused, Raise, Stop, Forget, NoAlert
  <2>4. Decide
    BY <2>2, <2>3 DEF Next, Handle
  <2>5. due' = Verdict
    BY <2>1, <2>4 DEF Decide, Forget, NoAlert
  <2>6. /\ Verdict.cert = result.cert /\ Verdict.cert \in Certs
        /\ Verdict.band \in Thresholds /\ ~SentLogged(Verdict.band, Verdict.cert)
    BY <2>1, <2>5, VerdictFacts DEF IInv
  <2>7. now <= NotAfter[Verdict.cert]
    BY <2>1, <2>5 DEF StillValid
  <2>8. PICK t \in Sender!Sends :
           /\ alertLog[t] = "sent"
           /\ raised[t[1]] = [kind |-> "expiring", band |-> Verdict.band, cert |-> Verdict.cert]
    BY <2>5 DEF Repeats, Told
  <2>9. NotAfter[Verdict.cert] - loggedOn[t] < (Verdict.band + 1) * DayLength
    BY <2>8 DEF IInv, Dated, NoEarlierThan, InReach
  <2>10. Recent(t, Window)
    <3>1. NotAfter[Verdict.cert] \in Int /\ loggedOn[t] \in Int /\ now \in Int
      BY <2>6, CertsAssumption DEF IInv, TypeOK, Times
    <3>2. Verdict.band + 1 \in Int /\ Verdict.band + 1 <= Window
      BY <2>6, ThresholdsAssumption, WindowsAssumption DEF ThresholdsWithinWindow
    <3>3. (Verdict.band + 1) * DayLength <= Window * DayLength
      BY <3>2, MultiplyMonotone, WindowsAssumption, DayAssumption
    <3> DEFINE reach == (Verdict.band + 1) * DayLength
               seen  == Window * DayLength
    <3>4. reach \in Int /\ seen \in Int
      BY <3>2, WindowsAssumption, DayAssumption
    <3> HIDE DEF reach, seen
    <3>5. loggedOn[t] >= now - seen
      BY <2>7, <2>9, <3>1, <3>3, <3>4 DEF reach, seen
    <3> QED BY <3>5 DEF Recent, seen
  <2> QED BY <2>6, <2>8, <2>10 DEF SentLogged
<1> QED BY <1>1, Invariance, PTL DEF Spec, NeverTwice

-----------------------------------------------------------------------------
(* The certificate monitor uses the dispatcher as Dispatcher describes it: *)
(* an alert is dispatched once, under a number of its own, and no other    *)
(* step touches a send (scheduler.go:152-157).                             *)
THEOREM UsesDispatcher == Spec => Sender!Spec
<1>1. Init => Sender!Init
  BY DEF Init
<1>2. IInv /\ [Next]_vars => [Sender!Next]_(Sender!vars)
  <2> SUFFICES ASSUME IInv, [Next]_vars
               PROVE  Sender!Next \/ UNCHANGED Sender!vars
    OBVIOUS
  <2>1. CASE Raise
    <3>1. Len(raised) + 1 \in Alerts
      BY <2>1, BoundsAssumption DEF Raise, IInv, TypeOK, Alerts
    <3> QED BY <2>1, <3>1 DEF Raise, Sender!Next
  <2>2. CASE SendStep \/ Cancel \/ Stop \/ Restart
    BY <2>2 DEF SendStep, Cancel, Stop, Restart, Sender!Next
  <2>3. CASE \/ \E dialed \in BOOLEAN : CheckSSL(dialed)
             \/ \E c \in Certs : Serve(c)
             \/ Take \/ Drop \/ Decide \/ Refused \/ Tick \/ UNCHANGED vars
    BY <2>3 DEF CheckSSL, Take, Drop, Serve, Decide, Refused, Tick, vars, sender, Sender!vars
  <2> QED BY <2>1, <2>2, <2>3 DEF Next, Handle
<1> QED BY <1>1, <1>2, Invariance, PTL DEF Spec, Sender!Spec

(* What DispatcherProofs shows of a dispatcher, for the monitor's.         *)
Proved == INSTANCE DispatcherProofs WITH Routes <- {Recipients}

(* Both instances are of the same module, with the same parameters.        *)
LEMMA SameState == /\ Sender!Init <=> Proved!Init
                   /\ Sender!Sends = Proved!Sends
                   /\ \A t : /\ Sender!Outcome(t) = Proved!Outcome(t)
                             /\ Sender!OnTheWay(t) = Proved!OnTheWay(t)
                             /\ Sender!Departed(t) = Proved!Departed(t)
BY DEF Sender!Init, Proved!Init, Sender!Sends, Proved!Sends, Sender!Outcome,
       Proved!Outcome, Sender!Departed, Proved!Departed, Sender!OnTheWay,
       Proved!OnTheWay, Sender!Active, Proved!Active

LEMMA SameNext == Sender!Next <=> Proved!Next
<1>1. ASSUME NEW a, NEW names
      PROVE  Sender!Dispatch(a, names) <=> Proved!Dispatch(a, names)
  BY SameState DEF Sender!Dispatch, Proved!Dispatch, Sender!StartSends, Proved!StartSends
<1>2. ASSUME NEW t PROVE Sender!Step(t) <=> Proved!Step(t)
  BY SameState
     DEF Sender!Step, Sender!Leave, Sender!Reach, Sender!Succeed, Sender!Fail,
         Sender!Fails, Sender!Abandon, Sender!ReachLate, Sender!RetryTimer,
         Sender!AbortRetry, Sender!Record, Sender!RecordRefused, Sender!Ctx,
         Sender!StoreAccepts, Sender!StoreRefuses, Sender!Attempting, Proved!Step,
         Proved!Leave, Proved!Reach, Proved!Succeed, Proved!Fail, Proved!Fails,
         Proved!Abandon, Proved!ReachLate, Proved!RetryTimer, Proved!AbortRetry,
         Proved!Record, Proved!RecordRefused, Proved!Ctx, Proved!StoreAccepts,
         Proved!StoreRefuses, Proved!Attempting
<1>3. /\ Sender!Cancel <=> Proved!Cancel
      /\ Sender!Stop <=> Proved!Stop
      /\ Sender!Start <=> Proved!Start
  BY SameState
     DEF Sender!Cancel, Proved!Cancel, Sender!Stop, Proved!Stop, Sender!Start,
         Proved!Start, Sender!goroutine, Proved!goroutine, Sender!Active, Proved!Active
<1> QED BY <1>1, <1>2, <1>3, SameState DEF Sender!Next, Proved!Next

LEMMA SameDispatcher == Spec => Proved!Spec
<1>1. [Sender!Next]_(Sender!vars) => [Proved!Next]_(Proved!vars)
  BY SameNext DEF Sender!vars, Proved!vars
<1> QED BY <1>1, SameState, UsesDispatcher, PTL
        DEF Sender!Spec, Proved!Spec

(* Each send of a certificate alert is a Delivery: accepted once, settled  *)
(* at most once, and no message of it leaves after its row.                *)
THEOREM AlertsAreDelivered == Spec => Sender!ImplementsDelivery
<1>1. Proved!Spec => Proved!ImplementsDelivery
  BY RecipientsAssumption, Proved!Refinement
<1>2. Proved!Promise!Init => Sender!Promise!Init
  BY SameState DEF Proved!Promise!Init, Sender!Promise!Init
<1>3. [Proved!Promise!Next]_(Proved!Promise!vars) => [Sender!Promise!Next]_(Sender!Promise!vars)
  BY DEF Proved!Promise!vars, Proved!Promise!Next, Proved!Promise!Accept,
         Proved!Promise!Depart, Proved!Promise!Deliver, Proved!Promise!Settle,
         Proved!Promise!LoseAll, Proved!Promise!Logged, Proved!Sends, Proved!Outcome,
         Proved!Active, Proved!Departed, Proved!OnTheWay,
         Sender!Promise!vars, Sender!Promise!Next, Sender!Promise!Accept,
         Sender!Promise!Depart, Sender!Promise!Deliver, Sender!Promise!Settle,
         Sender!Promise!LoseAll, Sender!Promise!Logged, Sender!Sends, Sender!Outcome,
         Sender!Active, Sender!Departed, Sender!OnTheWay
<1> QED BY <1>1, <1>2, <1>3, SameDispatcher, PTL
        DEF Proved!ImplementsDelivery, Sender!ImplementsDelivery, Proved!Promise!Spec,
            Sender!Promise!Spec

(* The dedup falls silent on a band of a certificate only over an alert    *)
(* that a recipient has received: what Told counts was delivered.          *)
SilenceIsEarned ==
  \A band \in Thresholds, c \in Certs :
    Told(band, c) =>
      \E t \in Sender!Sends :
        /\ copies[t] > 0
        /\ raised[t[1]] = [kind |-> "expiring", band |-> band, cert |-> c]

(* No expiry alert is suppressed (alerting.go:195-199) on the strength of  *)
(* a row whose message never arrived.                                      *)
THEOREM OnlyTheToldAreSilenced == Spec => []SilenceIsEarned
<1>1. Proved!SentMeansDelivered => SilenceIsEarned
  BY SameState DEF Proved!SentMeansDelivered, SilenceIsEarned, Told
<1>2. Proved!Spec => []Proved!SentMeansDelivered
  BY RecipientsAssumption, Proved!SentIsTrue
<1> QED BY <1>1, <1>2, SameDispatcher, PTL

(* What was told stays told: no row is replaced, no number is given to     *)
(* another alert, by any check, crash, restart or renewal.  So NeverTwice  *)
(* holds for the rest of a certificate once its alert was told.            *)
ToldForGood ==
  [][\A band \in Thresholds, c \in Certs : Told(band, c) => Told(band, c)']_vars

(* A row that says sent stays what it is (dispatcher.go:71-88), and its    *)
(* alert stays the one it was raised for.                                  *)
THEOREM ToldIsFinal == Spec => ToldForGood
<1>1. IInv /\ [Next]_vars =>
        [\A band \in Thresholds, c \in Certs : Told(band, c) => Told(band, c)']_vars
  <2> SUFFICES ASSUME IInv, Next, NEW a, NEW t \in Sender!Sends,
                      alertLog[t] = "sent", raised[t[1]] = a
               PROVE  alertLog'[t] = "sent" /\ raised'[t[1]] = a
    BY DEF Told
  <2>1. t[1] \in DOMAIN raised /\ pc[t] = "done" /\ raised \in Seq(AlertRecords)
    BY DEF IInv, SendsOfRaised, TypeOK
  <2>2. CASE Raise
    <3>1. raised' = Append(raised, due) /\ alertLog' = alertLog
      BY <2>2 DEF Raise, Sender!Dispatch
    <3> QED BY <2>1, <3>1
  <2>3. CASE SendStep
    <3>1. alertLog'[t] = alertLog[t]
      BY <2>1, <2>3, StepFacts DEF SendStep, IInv
    <3> QED BY <2>3, <3>1 DEF SendStep
  <2>4. CASE \/ \E dialed \in BOOLEAN : CheckSSL(dialed)
             \/ \E c \in Certs : Serve(c)
             \/ Take \/ Drop \/ Decide \/ Refused \/ Tick \/ Cancel \/ Stop \/ Restart
    BY <2>4 DEF CheckSSL, Take, Drop, Serve, Decide, Refused, Tick, Cancel, Stop, Restart, sender,
                Sender!Cancel, Sender!Stop, Sender!Start
  <2> QED BY <2>2, <2>3, <2>4 DEF Next, Handle
<1> QED BY <1>1, Invariance, PTL DEF Spec, ToldForGood
=============================================================================
