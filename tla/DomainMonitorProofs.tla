------------------------ MODULE DomainMonitorProofs ------------------------
(***************************************************************************)
(* Proofs about DomainMonitor for any registrations, sources, thresholds   *)
(* and periods.  The facts about the cache rest on what a check knows of   *)
(* the row it read while its lookup runs; NeverTwice rests on dates, as in *)
(* CertMonitorProofs, but of results that may wait before they are judged. *)
(***************************************************************************)
EXTENDS DomainMonitor, ExpiryProofs

SendTypes == outcome \in [Sends -> {"none", "pending", "sent", "failed", "lost"}]

(* Only sends of alerts that were raised have an outcome. *)
SendsOfRaised == \A t \in Sends : outcome[t] # "none" => t[1] \in DOMAIN raised

(* last_ok_at is the time of the last stored success or has been lost; a   *)
(* lookup works on the row as it still is, or on none, and is not older.   *)
CacheKnown == /\ cache.lastOkAt \in {0, verifiedAt}
              /\ asked # 0 => asked = cache.lastLookupAt /\ worker # "lookup"
              /\ worker = "lookup" => /\ began > 0
                                      /\ cache.lastOkAt <= began
                                      /\ seen \in {NoCache, cache}

(* With n days left at t, as a result has it, fewer than n + 1 remain.     *)
DatedResult(r, t) ==
  r.ok => \A n \in Nat : r.days <= n => r.expiry - t < (n + 1) * DayLength

(* At t the date of alert a is in its band, or past it. *)
DatedAlert(a, t) == a.kind = "expiring" => a.key - t < (a.band + 1) * DayLength

Dated == /\ DatedResult(pending, now)
         /\ DatedResult(result, now)
         /\ DatedAlert(due, now)
         /\ \A i \in DOMAIN raised : DatedAlert(raised[i], now)
         /\ \A t \in Sends : outcome[t] \in Deliv!Logged => DatedAlert(raised[t[1]], loggedOn[t])

IInv == TypeOK /\ SendTypes /\ SendsOfRaised /\ CacheTruthful /\ CacheKnown /\ Dated
-----------------------------------------------------------------------------
LEMMA DatesNat ==
  ASSUME NEW r \in 1..Registrations, NEW s \in Sources
  PROVE  ExpiryBy[r][s] \in Nat /\ ExpiryBy[r][s] # 0
BY SourcesAssumption

LEMMA ReachNat ==
  ASSUME NEW n \in Nat
  PROVE  (n + 1) * DayLength \in Nat
BY PeriodsAssumption

(* Whatever date the cache or a source gives, its result is dated. *)
LEMMA FoundFacts ==
  ASSUME NEW date \in Nat, now \in Nat
  PROVE  Found(date) \in Results /\ DatedResult(Found(date), now)
<1> DEFINE left == date - now
<1>1. left \in Int
  OBVIOUS
<1>2. WholeDays(left, DayLength) \in Int
  BY <1>1, PeriodsAssumption, WholeDaysInt
<1>3. ASSUME NEW n \in Nat, WholeDays(left, DayLength) <= n
      PROVE  left < (n + 1) * DayLength
  <2> HIDE DEF left
  <2>1. CASE left \in Nat
    BY <1>3, <2>1, PeriodsAssumption, WholeDaysBound
  <2>2. CASE left < 0
    <3>1. (n + 1) * DayLength \in Nat
      BY ReachNat
    <3> QED BY <1>1, <2>2, <3>1
  <2> QED BY <1>1, <2>1, <2>2
<1> QED BY <1>2, <1>3 DEF Found, Results, DatedResult

LEMMA FailedFacts == Failed \in Results /\ \A t : DatedResult(Failed, t)
BY DEF Failed, Results, DatedResult

LEMMA NothingFacts == Nothing \in AlertRecords /\ \A t : DatedAlert(Nothing, t)
BY DEF Nothing, AlertRecords, DatedAlert

(* What is dated stays so as time passes. *)
LEMMA LaterResult ==
  ASSUME NEW r \in Results, NEW t \in Nat, NEW u \in Nat, t <= u, DatedResult(r, t)
  PROVE  DatedResult(r, u)
<1> SUFFICES ASSUME r.ok, NEW n \in Nat, r.days <= n
             PROVE  r.expiry - u < (n + 1) * DayLength
  BY DEF DatedResult
<1>1. r.expiry - t < (n + 1) * DayLength
  BY DEF DatedResult
<1> QED BY <1>1, ReachNat DEF Results

LEMMA LaterAlert ==
  ASSUME NEW a \in AlertRecords, NEW t \in Nat, NEW u \in Nat, t <= u, DatedAlert(a, t)
  PROVE  DatedAlert(a, u)
<1>1. (a.band + 1) * DayLength \in Nat /\ a.key \in Nat
  BY ReachNat DEF AlertRecords
<1> QED BY <1>1 DEF DatedAlert

LEMMA InitIInv == Init => IInv
<1> SUFFICES ASSUME Init PROVE IInv
  OBVIOUS
<1> USE DEF Init, Deliv!Init
<1>1. TypeOK
  BY SourcesAssumption, BoundsAssumption, FailedFacts, NothingFacts
     DEF TypeOK, Times, Rows, NoCache
<1>2. SendTypes /\ SendsOfRaised /\ CacheTruthful /\ CacheKnown
  BY DEF SendTypes, SendsOfRaised, CacheTruthful, CacheKnown, NoCache
<1>3. Dated
  BY FailedFacts, NothingFacts DEF Dated, Deliv!Logged
<1> QED BY <1>1, <1>2, <1>3 DEF IInv

(* Steps that leave the sends and what was raised alone. *)
LEMMA QuietIInv ==
  ASSUME IInv, UNCHANGED <<raised, loggedOn, outcome>>, now <= now',
         TypeOK', CacheTruthful', CacheKnown',
         DatedResult(pending', now'), DatedResult(result', now'), DatedAlert(due', now')
  PROVE  IInv'
<1>1. SendTypes' /\ SendsOfRaised'
  BY DEF IInv, SendTypes, SendsOfRaised
<1>2. ASSUME NEW i \in DOMAIN raised' PROVE DatedAlert(raised'[i], now')
  <2>1. DatedAlert(raised[i], now) /\ raised[i] \in AlertRecords
    BY <1>2 DEF IInv, Dated, TypeOK
  <2>2. now \in Nat /\ now' \in Nat
    BY DEF IInv, TypeOK, Times
  <2> QED BY <2>1, <2>2, LaterAlert
<1>3. ASSUME NEW t \in Sends, outcome'[t] \in Deliv!Logged
      PROVE  DatedAlert(raised'[t[1]], loggedOn'[t])
  BY <1>3 DEF IInv, Dated
<1> QED BY <1>1, <1>2, <1>3 DEF IInv, Dated, Deliv!Logged

LEMMA StoreTypes ==
  ASSUME TypeOK, StoreAccepts \/ StoreRefuses
  PROVE  faults' \in 0..MaxFaults
BY BoundsAssumption DEF TypeOK, StoreAccepts, StoreRefuses

(* A check begins, or is answered by the row. *)
LEMMA BeginIInv ==
  ASSUME IInv, AnswerFromCache \/ Lookup
  PROVE  IInv'
<1>0. now \in Nat /\ now > 0 /\ cache \in Rows /\ cache.lastOkAt <= now /\ NoCache \in Rows
  BY DEF IInv, TypeOK, Times, CacheKnown, Rows, NoCache
<1>1. faults' \in 0..MaxFaults
  BY StoreTypes DEF AnswerFromCache, Lookup, IInv
<1>2. CASE AnswerFromCache
  <2>1. /\ UNCHANGED <<world, cache, inhand, raised, proc, history, sends>>
        /\ worker' = "sending" /\ began' = 0 /\ seen' = NoCache
        /\ pending' = Found(cache.expiresAt)
    BY <1>2 DEF AnswerFromCache, AfterHit, EndCheck
  <2>2. pending' \in Results /\ DatedResult(pending', now)
    BY <1>0, <2>1, FoundFacts DEF Rows
  <2>3. TypeOK'
    BY <1>0, <1>1, <2>1, <2>2 DEF IInv, TypeOK, world, inhand, history, sends
  <2>4. CacheTruthful' /\ CacheKnown'
    BY <2>1 DEF IInv, CacheTruthful, CacheKnown, world, history
  <2> QED BY <1>0, <2>1, <2>2, <2>3, <2>4, QuietIInv
          DEF IInv, Dated, world, inhand, sends
<1>3. CASE Lookup
  <2>1. /\ UNCHANGED <<world, cache, pending, inhand, raised, proc, verifiedAt, sends>>
        /\ worker' = "lookup" /\ began' = now /\ asked' = 0 /\ seen' \in {cache, NoCache}
    BY <1>3 DEF Lookup, BeginLookup
  <2>2. TypeOK'
    BY <1>0, <1>1, <2>1 DEF IInv, TypeOK, world, inhand, sends
  <2>3. CacheTruthful' /\ CacheKnown'
    BY <1>0, <2>1 DEF IInv, CacheTruthful, CacheKnown, world
  <2> QED BY <1>0, <2>1, <2>2, <2>3, QuietIInv DEF IInv, Dated, world, inhand, sends
<1> QED BY <1>2, <1>3

(* A lookup ends: its row is stored or refused. *)
LEMMA EndLookupIInv ==
  ASSUME IInv, EndLookup
  PROVE  IInv'
<1>0. /\ now \in Nat /\ cache \in Rows /\ seen \in Rows
      /\ worker = "lookup" /\ asked = 0
      /\ began \in 1..now /\ cache.lastOkAt <= began /\ seen \in {NoCache, cache}
      /\ registration \in 1..Registrations
  BY DEF EndLookup, LookupFailed, LookupAnswered, IInv, TypeOK, Times, CacheKnown
<1>1. faults' \in 0..MaxFaults
  BY StoreTypes DEF EndLookup, LookupFailed, LookupAnswered, Upsert, IInv
<1>2. /\ UNCHANGED <<world, inhand, raised, proc, sends>>
      /\ worker' = "sending" /\ began' = 0 /\ seen' = NoCache
  BY DEF EndLookup, LookupFailed, LookupAnswered, EndCheck
<1>3. ASSUME NEW s \in Sources, LookupAnswered(s) PROVE IInv'
  <2> DEFINE date == ExpiryBy[registration][s]
  <2>1. date \in Nat /\ date # 0
    BY <1>0, DatesNat
  <2>2. pending' = Found(date) /\ verifiedAt' = IF asked' = began THEN began ELSE verifiedAt
    BY <1>3 DEF LookupAnswered, EndCheck
  <2>3. pending' \in Results /\ DatedResult(pending', now)
    BY <1>0, <2>1, <2>2, FoundFacts
  <2>4. \/ /\ cache' = [expiresAt |-> date, lastLookupAt |-> began, lastOkAt |-> began]
           /\ asked' = began
        \/ UNCHANGED <<cache, asked>>
    BY <1>3 DEF LookupAnswered, Upsert, FoundRow
  <2> HIDE DEF date
  <2>5. cache' \in Rows /\ (cache'.expiresAt = 0 <=> cache'.lastOkAt = 0)
        /\ asked' \in 0..now /\ verifiedAt' \in 0..now
    BY <1>0, <2>1, <2>2, <2>4 DEF Rows, IInv, TypeOK
  <2>6. TypeOK'
    BY <1>0, <1>1, <1>2, <2>3, <2>5 DEF IInv, TypeOK, world, inhand, sends, NoCache, Rows
  <2>7. CacheTruthful'
    BY <1>2, <2>4 DEF IInv, CacheTruthful, world, date
  <2>8. CacheKnown'
    BY <1>0, <1>2, <2>2, <2>4 DEF IInv, CacheKnown
  <2> QED BY <1>0, <1>2, <2>3, <2>6, <2>7, <2>8, QuietIInv
          DEF IInv, Dated, world, inhand, sends
<1>4. CASE LookupFailed
  <2>1. /\ pending' = Failed /\ verifiedAt' = verifiedAt
        /\ \/ cache' = [seen EXCEPT !.lastLookupAt = began] /\ asked' = began
           \/ UNCHANGED <<cache, asked>>
    BY <1>4 DEF LookupFailed, EndCheck, Upsert, FailedRow
  <2>2. cache' \in Rows /\ asked' \in 0..now
        /\ cache'.expiresAt \in {0, cache.expiresAt}
        /\ (cache'.expiresAt # 0 => cache'.lastOkAt = cache.lastOkAt)
        /\ cache'.lastOkAt \in {0, cache.lastOkAt}
        /\ (cache'.expiresAt = 0 <=> cache'.lastOkAt = 0)
        /\ (asked' # 0 => cache'.lastLookupAt = asked')
    BY <1>0, <2>1 DEF Rows, NoCache, IInv, TypeOK
  <2>3. TypeOK'
    BY <1>0, <1>1, <1>2, <2>1, <2>2, FailedFacts
       DEF IInv, TypeOK, world, inhand, sends, NoCache, Rows
  <2>4. CacheTruthful'
    BY <1>2, <2>2 DEF IInv, CacheTruthful, world
  <2>5. CacheKnown'
    BY <1>2, <2>1, <2>2 DEF IInv, CacheKnown
  <2> QED BY <1>0, <1>2, <2>1, <2>3, <2>4, <2>5, QuietIInv, FailedFacts
          DEF IInv, Dated, world, inhand, sends
<1> QED BY <1>3, <1>4 DEF EndLookup

(* What the engine returns for the result in hand. *)
LEMMA VerdictFacts ==
  ASSUME TypeOK
  PROVE  /\ Verdict \in AlertRecords
         /\ Verdict.kind = "degraded" => Unverified(cache.lastOkAt)
         /\ Verdict.kind = "expiring" =>
              /\ result.ok /\ Verdict.key = result.expiry
              /\ Verdict.band \in Thresholds /\ result.days <= Verdict.band
              /\ ~ToldLately(Verdict)
<1>1. result.expiry \in Nat /\ result.days \in Int /\ result.ok \in BOOLEAN
  BY DEF TypeOK, Results
<1> DEFINE band == Band(result.days, Thresholds)
<1>2. band \in Nat /\ (band # 0 => band \in Thresholds /\ result.days <= band)
  BY <1>1, ThresholdsAssumption, BandIsNat, BandIsCrossed
<1> HIDE DEF band
<1>3. \/ Verdict = Nothing
      \/ Verdict = Degraded /\ Unverified(cache.lastOkAt)
      \/ /\ Verdict = Expiring(band, result.expiry)
         /\ result.ok /\ band # 0 /\ ~ToldLately(Expiring(band, result.expiry))
  BY DEF Verdict, band
<1>4. CASE Verdict = Nothing
  BY <1>4, NothingFacts DEF Nothing
<1>5. CASE Verdict = Degraded /\ Unverified(cache.lastOkAt)
  BY <1>5 DEF Degraded, AlertRecords
<1>6. CASE /\ Verdict = Expiring(band, result.expiry)
           /\ result.ok /\ band # 0 /\ ~ToldLately(Expiring(band, result.expiry))
  <2>1. Verdict = [kind |-> "expiring", band |-> band, key |-> result.expiry]
    BY <1>6 DEF Expiring
  <2>2. Verdict \in AlertRecords /\ Verdict.kind = "expiring"
        /\ Verdict.band = band /\ Verdict.key = result.expiry
    BY <1>1, <1>2, <2>1 DEF AlertRecords
  <2> QED BY <1>2, <1>6, <2>2
<1> QED BY <1>3, <1>4, <1>5, <1>6

(* The result goes to the consumer, which decides on it or gives it up. *)
LEMMA HandIInv ==
  ASSUME IInv, Take \/ Drop \/ Decide \/ Refused
  PROVE  IInv'
<1>0. now \in Nat /\ 0 \in 0..now /\ faults \in 0..MaxFaults
  BY DEF IInv, TypeOK, Times
<1>1. UNCHANGED <<world, cache, raised, history, sends>>
  BY DEF Take, Drop, Decide, Refused
<1>2. proc' = proc /\ faults' \in 0..MaxFaults
  BY <1>0, StoreTypes DEF Take, Drop, Decide, Refused, IInv
<1>3. NoCache \in Rows
  BY DEF NoCache, Rows
<1>4. CASE Take \/ Drop
  <2>1. /\ worker' = "timer" /\ pending' = Failed /\ began' = 0 /\ seen' = NoCache
        /\ due' = due
        /\ consumer' \in {consumer, "decide"} /\ result' \in {result, pending}
    BY <1>4 DEF Take, Drop, NextCheck, inhand
  <2>2. TypeOK'
    BY <1>0, <1>1, <1>2, <1>3, <2>1, FailedFacts DEF IInv, TypeOK, world, history, sends
  <2>3. CacheTruthful' /\ CacheKnown'
    BY <1>1, <2>1 DEF IInv, CacheTruthful, CacheKnown, world, history
  <2> QED BY <1>0, <1>1, <2>1, <2>2, <2>3, FailedFacts, QuietIInv
          DEF IInv, Dated, world, sends
<1>5. CASE Decide \/ Refused
  <2>1. UNCHANGED check
    BY <1>5 DEF Decide, Refused
  <2>2. CacheTruthful' /\ CacheKnown'
    BY <1>1, <2>1 DEF IInv, CacheTruthful, CacheKnown, world, history, check
  <2>3. CASE Decide /\ Verdict # Nothing
    <3>1. due' = Verdict /\ consumer' = "dispatch" /\ result' = result
      BY <2>3 DEF Decide
    <3>2. TypeOK'
      BY <1>1, <1>2, <2>1, <3>1, VerdictFacts DEF IInv, TypeOK, world, history, sends, check
    <3>3. DatedAlert(due', now)
      <4> SUFFICES ASSUME Verdict.kind = "expiring"
                   PROVE  Verdict.key - now < (Verdict.band + 1) * DayLength
        BY <3>1 DEF DatedAlert
      <4>1. /\ result.ok /\ Verdict.key = result.expiry
            /\ Verdict.band \in Nat /\ result.days <= Verdict.band
        BY VerdictFacts, ThresholdsAssumption DEF IInv
      <4> QED BY <4>1 DEF IInv, Dated, DatedResult
    <3> QED BY <1>0, <1>1, <2>1, <2>2, <3>1, <3>2, <3>3, QuietIInv
            DEF IInv, Dated, world, sends, check
  <2>4. CASE Refused \/ (Decide /\ Verdict = Nothing)
    <3>1. consumer' = "select" /\ result' = Failed /\ due' = Nothing
      BY <2>4 DEF Refused, Decide, Forget
    <3>2. TypeOK'
      BY <1>1, <1>2, <2>1, <3>1, FailedFacts, NothingFacts
         DEF IInv, TypeOK, world, history, sends, check
    <3> QED BY <1>0, <1>1, <2>1, <2>2, <3>1, <3>2, FailedFacts, NothingFacts, QuietIInv
            DEF IInv, Dated, world, sends, check
  <2> QED BY <1>5, <2>3, <2>4
<1> QED BY <1>4, <1>5

(* An alert is raised under the next free number. *)
LEMMA RaiseIInv ==
  ASSUME IInv, Raise
  PROVE  IInv'
<1> DEFINE n == Len(raised) + 1
           S == {t \in Sends : t[1] = n}
<1>1. /\ raised' = Append(raised, due)
      /\ consumer' = "select" /\ result' = Failed /\ due' = Nothing
      /\ UNCHANGED <<faults, world, cache, check, loggedOn, proc, history>>
      /\ outcome' = [t \in Sends |-> IF t \in S THEN "pending" ELSE outcome[t]]
      /\ \A t \in S : outcome[t] = "none"
  BY DEF Raise, Forget, Deliv!Accept
<1>2. raised \in Seq(AlertRecords) /\ due \in AlertRecords
  BY DEF IInv, TypeOK
<1>3. /\ DOMAIN raised = 1..Len(raised) /\ DOMAIN raised' = 1..n /\ Len(raised) \in Nat
      /\ \A i \in DOMAIN raised : raised'[i] = raised[i]
      /\ raised'[n] = due
  BY <1>1, <1>2
<1>4. TypeOK'
  BY <1>1, <1>2, FailedFacts, NothingFacts DEF IInv, TypeOK, world, check, history
<1>5. SendTypes'
  BY <1>1 DEF IInv, SendTypes
<1>6. ASSUME NEW t \in Sends, outcome'[t] # "none"
      PROVE  t[1] \in DOMAIN raised'
  <2>1. CASE t \in S
    BY <1>3, <2>1
  <2>2. CASE t \notin S
    BY <1>1, <1>3, <1>6, <2>2 DEF IInv, SendsOfRaised
  <2> QED BY <2>1, <2>2
<1>7. CacheTruthful' /\ CacheKnown'
  BY <1>1 DEF IInv, CacheTruthful, CacheKnown, world, history, check
<1>8. ASSUME NEW t \in Sends, outcome'[t] \in Deliv!Logged
      PROVE  DatedAlert(raised'[t[1]], loggedOn'[t])
  <2>1. outcome[t] \in Deliv!Logged
    BY <1>1, <1>8 DEF Deliv!Logged
  <2>2. t[1] \in DOMAIN raised
    BY <2>1 DEF IInv, SendsOfRaised, Deliv!Logged
  <2>3. raised'[t[1]] = raised[t[1]]
    BY <1>3, <2>2
  <2> QED BY <1>1, <2>1, <2>3 DEF IInv, Dated
<1>9. \A i \in DOMAIN raised' : DatedAlert(raised'[i], now')
  BY <1>1, <1>3 DEF IInv, Dated, world
<1>10. DatedResult(pending', now') /\ DatedResult(result', now') /\ DatedAlert(due', now')
  BY <1>1, FailedFacts, NothingFacts DEF IInv, Dated, world, check
<1> QED BY <1>4, <1>5, <1>6, <1>7, <1>8, <1>9, <1>10
        DEF IInv, SendsOfRaised, Dated, Deliv!Logged

(* A row is stamped no earlier than its alert was raised. *)
LEMMA SendIInv ==
  ASSUME IInv, SendStep
  PROVE  IInv'
<1>1. UNCHANGED <<faults, world, cache, check, inhand, raised, proc, history>>
  BY DEF SendStep
<1>2. loggedOn' = [t \in Sends |->
                     IF outcome'[t] \in Deliv!Logged /\ outcome[t] = "pending"
                     THEN now ELSE loggedOn[t]]
  BY DEF SendStep
<1>3. /\ SendTypes'
      /\ \A t \in Sends : \/ outcome'[t] = outcome[t]
                          \/ outcome[t] = "pending"
  <2>1. PICK t \in Sends : Deliv!Depart(t) \/ Deliv!Deliver(t)
                           \/ \E o \in Deliv!Logged \cup {"lost"} : Deliv!Settle(t, o)
    BY DEF SendStep
  <2>2. CASE Deliv!Depart(t) \/ Deliv!Deliver(t)
    BY <2>2 DEF Deliv!Depart, Deliv!Deliver, IInv, SendTypes
  <2>3. CASE \E o \in Deliv!Logged \cup {"lost"} : Deliv!Settle(t, o)
    BY <2>3 DEF Deliv!Settle, Deliv!Logged, IInv, SendTypes
  <2> QED BY <2>1, <2>2, <2>3
<1>4. TypeOK'
  BY <1>1, <1>2 DEF IInv, TypeOK, Times, world, check, inhand, history
<1>5. SendsOfRaised'
  BY <1>1, <1>3 DEF IInv, SendsOfRaised
<1>6. ASSUME NEW t \in Sends, outcome'[t] \in Deliv!Logged
      PROVE  DatedAlert(raised'[t[1]], loggedOn'[t])
  <2>1. CASE outcome[t] = "pending"
    <3>1. t[1] \in DOMAIN raised /\ loggedOn'[t] = now
      BY <1>2, <1>6, <2>1 DEF IInv, SendsOfRaised
    <3> QED BY <1>1, <3>1 DEF IInv, Dated
  <2>2. CASE outcome[t] # "pending"
    <3>1. outcome[t] \in Deliv!Logged /\ loggedOn'[t] = loggedOn[t]
      BY <1>2, <1>3, <1>6, <2>2
    <3> QED BY <1>1, <3>1 DEF IInv, Dated
  <2> QED BY <2>1, <2>2
<1>7. CacheTruthful' /\ CacheKnown'
  BY <1>1 DEF IInv, CacheTruthful, CacheKnown, world, history, check
<1>8. /\ DatedResult(pending', now') /\ DatedResult(result', now') /\ DatedAlert(due', now')
      /\ \A i \in DOMAIN raised' : DatedAlert(raised'[i], now')
  BY <1>1 DEF IInv, Dated, world, check, inhand
<1> QED BY <1>3, <1>4, <1>5, <1>6, <1>7, <1>8 DEF IInv, Dated, Deliv!Logged

(* The process. *)
LEMMA ProcessIInv ==
  ASSUME IInv, Cancel \/ Stop \/ Restart
  PROVE  IInv'
<1>0. now \in Nat /\ 0 \in 0..now /\ NoCache \in Rows
  BY DEF IInv, TypeOK, Times, NoCache, Rows
<1>1. CASE Cancel \/ Restart
  <2>1. /\ UNCHANGED <<faults, world, cache, check, inhand, raised, history, sends>>
        /\ proc' \in {"running", "stopping"}
    BY <1>1 DEF Cancel, Restart
  <2>2. TypeOK' /\ CacheTruthful' /\ CacheKnown'
    BY <2>1 DEF IInv, TypeOK, CacheTruthful, CacheKnown, world, check, inhand, history, sends
  <2> QED BY <1>0, <2>1, <2>2, QuietIInv DEF IInv, Dated, world, check, inhand, sends
<1>2. CASE Stop
  <2>1. /\ UNCHANGED <<faults, world, cache, raised, history, loggedOn>>
        /\ proc' = "stopped" /\ worker' = "timer" /\ pending' = Failed
        /\ began' = 0 /\ seen' = NoCache
        /\ consumer' = "select" /\ result' = Failed /\ due' = Nothing
        /\ outcome' = [t \in Sends |-> IF outcome[t] = "pending" THEN "lost" ELSE outcome[t]]
    BY <1>2 DEF Stop, NextCheck, Forget, Deliv!LoseAll
  <2>2. TypeOK'
    BY <1>0, <2>1, FailedFacts, NothingFacts DEF IInv, TypeOK, world, history
  <2>3. SendTypes' /\ SendsOfRaised'
    BY <2>1 DEF IInv, SendTypes, SendsOfRaised
  <2>4. CacheTruthful' /\ CacheKnown'
    BY <2>1 DEF IInv, CacheTruthful, CacheKnown, world, history
  <2>5. \A t \in Sends : outcome'[t] \in Deliv!Logged => outcome[t] \in Deliv!Logged
    BY <2>1 DEF Deliv!Logged
  <2>6. Dated'
    BY <2>1, <2>5, FailedFacts, NothingFacts DEF IInv, Dated, Deliv!Logged, world
  <2> QED BY <2>2, <2>3, <2>4, <2>6 DEF IInv
<1> QED BY <1>1, <1>2

(* A renewal makes every date in the cache an older one's. *)
LEMMA WorldIInv ==
  ASSUME IInv, World
  PROVE  IInv'
<1>0. now \in Nat /\ now \in Times /\ registration \in 1..Registrations
      /\ renewedAt \in 0..now /\ cache \in Rows /\ cache.lastOkAt <= now
  BY DEF IInv, TypeOK, Times, CacheKnown
<1>1. /\ UNCHANGED <<faults, cache, check, inhand, raised, proc, history, sends>>
      /\ now' \in Times /\ now <= now'
      /\ registration' \in 1..Registrations /\ renewedAt' \in 0..now'
      /\ answering' \in BOOLEAN
      /\ \/ UNCHANGED <<registration, renewedAt>>
         \/ renewedAt' = now
  <2>1. CASE Renew
    BY <1>0, <2>1, SourcesAssumption DEF World, Renew, IInv, TypeOK
  <2>2. CASE FallSilent
    <3>1. answering' \in BOOLEAN
      BY Zenon, <2>2 DEF FallSilent
    <3>2. UNCHANGED <<now, registration, renewedAt>>
      BY Zenon, <2>2 DEF FallSilent
    <3> QED BY <1>0, <3>1, <3>2 DEF World
  <2>3. CASE Tick
    BY <1>0, <2>3, BoundsAssumption DEF World, Tick, Times, IInv, TypeOK
  <2> QED BY <2>1, <2>2, <2>3 DEF World
<1>2. /\ now' \in Nat
      /\ began \in 0..now' /\ asked \in 0..now' /\ verifiedAt \in 0..now'
      /\ loggedOn \in [Sends -> 0..now']
  BY <1>0, <1>1 DEF IInv, TypeOK, Times
<1>3. TypeOK'
  BY <1>1, <1>2 DEF IInv, TypeOK, check, inhand, history, sends
<1>4. CacheTruthful'
  BY <1>0, <1>1 DEF IInv, CacheTruthful
<1>5. CacheKnown'
  BY <1>1 DEF IInv, CacheKnown, check, history
<1>6. DatedResult(pending', now') /\ DatedResult(result', now') /\ DatedAlert(due', now')
  <2>1. pending \in Results /\ result \in Results /\ due \in AlertRecords
    BY DEF IInv, TypeOK
  <2> QED BY <1>0, <1>1, <1>2, <2>1, LaterResult, LaterAlert DEF IInv, Dated, check, inhand
<1> QED BY <1>1, <1>3, <1>4, <1>5, <1>6, QuietIInv DEF sends

LEMMA NextIInv == IInv /\ [Next]_vars => IInv'
<1> SUFFICES ASSUME IInv, [Next]_vars PROVE IInv'
  OBVIOUS
<1>1. CASE Next
  BY <1>1, BeginIInv, EndLookupIInv, HandIInv, RaiseIInv, SendIInv, ProcessIInv, WorldIInv
     DEF Next
<1>2. CASE UNCHANGED vars
  <2>1. now \in Nat
    BY DEF IInv, TypeOK, Times
  <2>2. TypeOK' /\ CacheTruthful' /\ CacheKnown'
    BY <1>2 DEF vars, world, check, inhand, history, sends,
                IInv, TypeOK, CacheTruthful, CacheKnown
  <2> QED BY <1>2, <2>1, <2>2, QuietIInv
          DEF vars, world, check, inhand, history, sends, IInv, Dated
<1> QED BY <1>1, <1>2

LEMMA Invariance == Spec => []IInv
BY InitIInv, NextIInv, PTL DEF Spec

-----------------------------------------------------------------------------
(* Every variable keeps its type, and a row knows a date exactly if it     *)
(* knows of a success.                                                     *)
THEOREM TypeCorrect == Spec => []TypeOK
<1>1. IInv => TypeOK
  BY DEF IInv
<1> QED BY <1>1, Invariance, PTL

(* The cache never passes an old date off as a new one. *)
THEOREM CacheIsTruthful == Spec => []CacheTruthful
<1>1. IInv => CacheTruthful
  BY DEF IInv
<1> QED BY <1>1, Invariance, PTL

(* Lookups of a row that knows a date are CacheTTL apart. *)
THEOREM LookupsApart == Spec => LookupsSpaced
<1>1. IInv /\ [Next]_vars =>
        [(worker = "timer" /\ worker' = "lookup" /\ cache.expiresAt # 0
            /\ asked # 0 /\ seen' = cache) => now - asked >= CacheTTL]_vars
  <2> SUFFICES ASSUME IInv, Next, worker = "timer", worker' = "lookup",
                      cache.expiresAt # 0, asked # 0, seen' = cache
               PROVE  now - asked >= CacheTTL
    OBVIOUS
  <2>1. Lookup
    BY DEF Next, AnswerFromCache, EndCheck, EndLookup, LookupFailed, LookupAnswered, Take,
           Drop, NextCheck, Decide, Refused, Raise, SendStep, Cancel, Stop, Restart, World, check
  <2>2. ~Hit(cache)
    BY <2>1 DEF Lookup, BeginLookup, NoCache
  <2>3. asked = cache.lastLookupAt /\ asked \in Nat /\ now \in Nat
    BY DEF IInv, TypeOK, CacheKnown, Times
  <2> QED BY <2>2, <2>3, PeriodsAssumption DEF Hit
<1> QED BY <1>1, Invariance, PTL DEF Spec, LookupsSpaced

(* Only a refused read of its own makes a check forget the last success. *)
THEOREM LastSuccessKept == Spec => LastOkKept
<1>1. IInv /\ [Next]_vars => [cache'.lastOkAt < cache.lastOkAt => seen = NoCache]_vars
  <2> SUFFICES ASSUME IInv, Next, cache'.lastOkAt < cache.lastOkAt, seen # NoCache
               PROVE  FALSE
    OBVIOUS
  <2>1. cache \in Rows /\ cache.lastOkAt \in Nat
    BY DEF IInv, TypeOK, Rows
  <2>2. cache' # cache
    BY <2>1
  <2>3. EndLookup
    BY <2>2 DEF Next, AnswerFromCache, AfterHit, Lookup, BeginLookup, Take, Drop, Decide,
                Refused, Raise, SendStep, Cancel, Stop, Restart, World
  <2>4. seen = cache /\ began \in Nat /\ cache.lastOkAt <= began
    BY <2>3 DEF EndLookup, LookupFailed, LookupAnswered, IInv, TypeOK, Times, CacheKnown
  <2>5. cache'.lastOkAt \in {began, cache.lastOkAt}
    BY <2>1, <2>2, <2>3, <2>4
       DEF EndLookup, LookupFailed, LookupAnswered, Upsert, FoundRow, FailedRow, Rows
  <2> QED BY <2>1, <2>4, <2>5
<1> QED BY <1>1, Invariance, PTL DEF Spec, LastOkKept

(* A degraded alert is decided on only long after the last success. *)
THEOREM DegradedIsHonest == Spec => DegradedHonest
<1>1. IInv /\ [Next]_vars =>
        [(due' # due /\ due'.kind = "degraded") =>
           verifiedAt # 0 /\ now - verifiedAt > DegradedAfter * DayLength]_vars
  <2> SUFFICES ASSUME IInv, Next, due' # due, due'.kind = "degraded"
               PROVE  verifiedAt # 0 /\ now - verifiedAt > DegradedAfter * DayLength
    OBVIOUS
  <2>1. Decide /\ due' = Verdict
    BY DEF Next, AnswerFromCache, Lookup, BeginLookup, EndLookup, LookupFailed,
           LookupAnswered, Take, Drop, Decide, Refused, Raise, Forget, Nothing, SendStep,
           Cancel, Stop, Restart, World, inhand
  <2>2. Unverified(cache.lastOkAt)
    BY <2>1, VerdictFacts DEF IInv
  <2> QED BY <2>2 DEF Unverified, IInv, CacheKnown
<1> QED BY <1>1, Invariance, PTL DEF Spec, DegradedHonest

(* No expiry alert is decided on for a band of a date that a sent row      *)
(* already tells of, if every threshold is less than the window.           *)
THEOREM ToldOnce == Spec => NeverTwice
<1>1. IInv /\ [Next]_vars => [(ThresholdsWithinWindow /\ now <= due'.key) => ~Repeats]_vars
  <2> SUFFICES ASSUME IInv, Next, ThresholdsWithinWindow, now <= due'.key, Repeats
               PROVE  FALSE
    OBVIOUS
  <2>1. due' # due /\ due'.kind = "expiring" /\ Told(due')
    BY DEF Repeats
  <2>2. Decide /\ due' = Verdict
    BY <2>1 DEF Next, AnswerFromCache, Lookup, BeginLookup, EndLookup, LookupFailed,
           LookupAnswered, Take, Drop, Decide, Refused, Raise, Forget, Nothing, SendStep,
           Cancel, Stop, Restart, World, inhand
  <2>3. /\ Verdict \in AlertRecords /\ Verdict.kind = "expiring"
        /\ Verdict.band \in Thresholds /\ ~ToldLately(Verdict) /\ now <= Verdict.key
    BY <2>1, <2>2, VerdictFacts DEF IInv
  <2>4. PICK t \in Sends : outcome[t] = "sent" /\ raised[t[1]] = Verdict
    BY <2>1, <2>2 DEF Told
  <2> DEFINE reach == (Verdict.band + 1) * DayLength
             span  == Window * DayLength
  <2>5. Verdict.key - loggedOn[t] < reach
    BY <2>3, <2>4 DEF IInv, Dated, DatedAlert, Deliv!Logged
  <2>6. reach \in Int /\ span \in Int /\ reach <= span
    <3>1. Verdict.band \in Thresholds /\ Verdict.band < Window
      BY Zenon, <2>3 DEF ThresholdsWithinWindow
    <3>2. Verdict.band \in Nat /\ Window \in Nat
      BY <3>1, ThresholdsAssumption, PeriodsAssumption
    <3>3. Verdict.band + 1 \in Int /\ Verdict.band + 1 <= Window
      BY <3>1, <3>2
    <3> QED BY <3>2, <3>3, MultiplyMonotone, PeriodsAssumption
  <2>7. now \in Int /\ loggedOn[t] \in Int /\ Verdict.key \in Int
    BY <2>3 DEF IInv, TypeOK, Times, AlertRecords
  <2> HIDE DEF reach, span
  <2>8. loggedOn[t] >= now - span
    BY <2>3, <2>5, <2>6, <2>7
  <2>9. Recent(t, Window)
    BY <2>8 DEF Recent, span
  <2> QED BY <2>3, <2>4, <2>9 DEF ToldLately
<1> QED BY <1>1, Invariance, PTL DEF Spec, NeverTwice

(* config.example.yaml:31-32, of a domain whose sources agree on the date  *)
(* of each registration: then each threshold is told of once per           *)
(* registration, by whichever source, as long as the date lies ahead, if   *)
(* every threshold is less than the window.  So it is the difference       *)
(* between the sources that breaks OncePerRegistration.                    *)
SourcesAgree ==
  \A r \in 1..Registrations, s, u \in Sources : ExpiryBy[r][s] = ExpiryBy[r][u]

OnceWhileAhead ==
  [][(due' # due /\ due'.kind = "expiring" /\ now <= due'.key) =>
       ~ \E d \in Dates : /\ SameRegistration(d, due'.key)
                          /\ Told(Expiring(due'.band, d))]_vars

THEOREM AgreeingSourcesTellOnce ==
  ASSUME SourcesAgree, ThresholdsWithinWindow
  PROVE  Spec => OnceWhileAhead
<1>1. IInv' /\ [ThresholdsWithinWindow /\ now <= due'.key => ~Repeats]_vars =>
        [(due' # due /\ due'.kind = "expiring" /\ now <= due'.key) =>
           ~ \E d \in Dates : /\ SameRegistration(d, due'.key)
                              /\ Told(Expiring(due'.band, d))]_vars
  <2> SUFFICES ASSUME IInv', ~Repeats, due' # due, due'.kind = "expiring",
                      NEW d \in Dates, SameRegistration(d, due'.key),
                      Told(Expiring(due'.band, d))
               PROVE  FALSE
    BY DEF vars
  <2>1. d = due'.key
    BY DEF SameRegistration, SourcesAgree
  <2>2. due' = Expiring(due'.band, d)
    BY <2>1 DEF IInv, TypeOK, AlertRecords, Expiring
  <2> QED  BY <2>2 DEF Repeats
<1> QED  BY <1>1, Invariance, ToldOnce, PTL DEF OnceWhileAhead, NeverTwice

-----------------------------------------------------------------------------
(* Every step of the monitor is a step of the sends as Delivery has them,  *)
(* or leaves them alone: an alert's sends are accepted once, under a       *)
(* number of their own, and lost only when the process ends.               *)
THEOREM UsesDelivery == Spec => Deliv!Spec
<1>1. Init => Deliv!Init
  BY DEF Init
<1>2. [Next]_vars => [Deliv!Next]_(Deliv!vars)
  <2> SUFFICES ASSUME [Next]_vars
               PROVE  Deliv!Next \/ UNCHANGED Deliv!vars
    OBVIOUS
  <2>1. CASE Raise
    BY <2>1 DEF Raise, Deliv!Next
  <2>2. CASE SendStep
    BY <2>2 DEF SendStep, Deliv!Next
  <2>3. CASE Stop
    BY <2>3 DEF Stop, Deliv!Next
  <2>4. CASE \/ AnswerFromCache \/ Lookup \/ EndLookup \/ Take \/ Drop \/ Decide \/ Refused
             \/ Cancel \/ Restart \/ World \/ UNCHANGED vars
    <3>1. UNCHANGED sends
      BY <2>4 DEF AnswerFromCache, Lookup, BeginLookup, EndLookup, LookupFailed,
                  LookupAnswered, Take, Drop, Decide, Refused, Cancel, Restart, World, vars
    <3> QED BY <3>1 DEF sends, Deliv!vars
  <2> QED BY <2>1, <2>2, <2>3, <2>4 DEF Next
<1> QED BY <1>1, <1>2, PTL DEF Spec, Deliv!Spec

(* What Delivery promises of the messages: no more than MaxCopies of one,  *)
(* and none that is called sent without one.                               *)
Received == /\ departed \in [Sends -> 0..MaxCopies]
            /\ copies \in [Sends -> Nat]
            /\ \A t \in Sends : copies[t] <= departed[t]
            /\ \A t \in Sends : outcome[t] = "sent" => copies[t] > 0

LEMMA ReceivedInvariance == Spec => []Received
<1>1. Deliv!Init => Received
  BY BoundsAssumption DEF Deliv!Init, Received
<1>2. Received /\ [Deliv!Next]_(Deliv!vars) => Received'
  <2> SUFFICES ASSUME Received, [Deliv!Next]_(Deliv!vars) PROVE Received'
    OBVIOUS
  <2> USE DEF Received
  <2>1. ASSUME NEW S \in SUBSET Sends, Deliv!Accept(S) PROVE Received'
    BY <2>1 DEF Deliv!Accept
  <2>2. ASSUME NEW t \in Sends, Deliv!Depart(t) \/ Deliv!Deliver(t) PROVE Received'
    BY <2>2, BoundsAssumption DEF Deliv!Depart, Deliv!Deliver
  <2>3. ASSUME NEW t \in Sends, NEW o \in Deliv!Logged \cup {"lost"}, Deliv!Settle(t, o)
        PROVE  Received'
    <3>1. \A u \in Sends : outcome'[u] = "sent" => outcome[u] = "sent" \/ (u = t /\ o = "sent")
      BY <2>3 DEF Deliv!Settle
    <3> QED BY <2>3, <3>1 DEF Deliv!Settle
  <2>4. CASE Deliv!LoseAll
    BY <2>4 DEF Deliv!LoseAll
  <2>5. CASE UNCHANGED Deliv!vars
    BY <2>5 DEF Deliv!vars
  <2> QED BY <2>1, <2>2, <2>3, <2>4, <2>5 DEF Deliv!Next
<1> QED BY <1>1, <1>2, UsesDelivery, PTL DEF Deliv!Spec

(* decideDomain falls silent on an expiry alert (alerting.go:264-268) only *)
(* if a recipient has received one for the same band and date.             *)
SilenceIsEarned ==
  \A a \in AlertRecords :
    Told(a) => \E t \in Sends : copies[t] > 0 /\ raised[t[1]] = a

(* No expiry alert is suppressed on the strength of a row whose message    *)
(* never arrived.                                                          *)
THEOREM OnlyTheToldAreSilenced == Spec => []SilenceIsEarned
<1>1. Received => SilenceIsEarned
  BY DEF Received, SilenceIsEarned, Told
<1> QED BY <1>1, ReceivedInvariance, PTL

(* What was told stays told: no row is replaced, no number is given to     *)
(* another alert, by any lookup, refusal, crash or restart.  So NeverTwice *)
(* holds for the rest of a date once its alert was told.                   *)
ToldForGood == [][\A a \in AlertRecords : Told(a) => Told(a)']_vars

(* A row that says sent stays what it is, and its alert stays the one it   *)
(* was raised for.                                                         *)
THEOREM ToldIsFinal == Spec => ToldForGood
<1>1. IInv /\ [Next]_vars => [\A a \in AlertRecords : Told(a) => Told(a)']_vars
  <2> SUFFICES ASSUME IInv, Next, NEW a \in AlertRecords,
                      NEW t \in Sends, outcome[t] = "sent", raised[t[1]] = a
               PROVE  outcome'[t] = "sent" /\ raised'[t[1]] = a
    BY DEF Told
  <2>1. CASE Raise
    <3>1. raised' = Append(raised, due) /\ outcome'[t] = "sent"
      BY <2>1 DEF Raise, Deliv!Accept
    <3>2. t[1] \in 1..Len(raised)
      BY DEF IInv, SendsOfRaised, TypeOK
    <3> QED BY <3>1, <3>2 DEF IInv, TypeOK
  <2>2. CASE SendStep
    <3>1. PICK u \in Sends : Deliv!Depart(u) \/ Deliv!Deliver(u)
                             \/ \E o \in Deliv!Logged \cup {"lost"} : Deliv!Settle(u, o)
      BY <2>2 DEF SendStep
    <3>2. outcome'[t] = "sent"
      BY <3>1 DEF Deliv!Depart, Deliv!Deliver, Deliv!Settle, IInv, SendTypes
    <3> QED BY <2>2, <3>2 DEF SendStep
  <2>3. CASE Stop
    BY <2>3 DEF Stop, Deliv!LoseAll
  <2>4. CASE \/ AnswerFromCache \/ Lookup \/ EndLookup \/ Take \/ Drop \/ Decide \/ Refused
             \/ Cancel \/ Restart \/ World
    BY <2>4 DEF AnswerFromCache, Lookup, BeginLookup, EndLookup, LookupFailed,
                LookupAnswered, Take, Drop, Decide, Refused, Cancel, Restart, World, sends
  <2> QED BY <2>1, <2>2, <2>3, <2>4 DEF Next
<1> QED BY <1>1, Invariance, PTL DEF Spec, ToldForGood
=============================================================================
