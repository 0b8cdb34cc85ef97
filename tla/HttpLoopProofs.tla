--------------------------- MODULE HttpLoopProofs ---------------------------
(***************************************************************************)
(* Proofs about HttpCheck and HttpLoop for any settings: first how long    *)
(* one check takes and what its result means, then, on top of that, how    *)
(* old the latest row may be and what /healthz makes of it.                *)
(***************************************************************************)
EXTENDS HttpLoop, TLAPS

(* What each phase knows of the attempts made and of the time they took:   *)
(* an attempt is begun by the deadline, but for the lateness of a timer.   *)
Attempting == /\ fails = tries - 1
              /\ result = "none"
              /\ began <= Deadline + Late
              /\ now <= began + Timeout

Pausing == /\ fails = tries
           /\ tries < Attempts
           /\ result = "none"
           /\ began + Backoff <= Deadline
           /\ now <= began + Backoff + Late

Done == /\ result # "none"
        /\ now <= Deadline + Late + Timeout
        /\ live /\ result = "down" => Exhausted

IInv == /\ TypeOK
        /\ phase = "attempt" => Attempting
        /\ phase = "pause"   => Pausing
        /\ phase = "done"    => Done

LEMMA Bounds == Deadline \in Nat /\ Attempts \in Nat /\ Attempts >= 1
BY ConfigAssumption DEF Deadline, Attempts

LEMMA InitIInv == Init => IInv
<1> USE ConfigAssumption, Bounds
<1>1. Init => TypeOK
  BY DEF Init, TypeOK
<1>2. Init => phase = "attempt" /\ Attempting
  BY DEF Init, Attempting
<1> QED BY <1>1, <1>2 DEF IInv

(* Each step, phase by phase. *)
LEMMA NextIInv == IInv /\ [Next]_vars => IInv'
<1> SUFFICES ASSUME IInv, [Next]_vars PROVE IInv'
  OBVIOUS
<1> USE ConfigAssumption, Bounds
<1> USE DEF IInv, TypeOK
<1>1. CASE Succeed
  <2>1. phase' = "done" /\ result' = "up" /\ Attempting
    BY <1>1 DEF Succeed, Return
  <2>2. Done'
    BY <1>1, <2>1 DEF Succeed, Return, Done, Exhausted, Attempting
  <2> QED BY <1>1, <2>1, <2>2 DEF Succeed, Return
<1>2. CASE Fail
  <2>1. fails' = tries /\ Attempting /\ UNCHANGED <<now, live, tries>>
    BY <1>2 DEF Fail, Attempting, Return
  <2>2. CASE tries < Attempts /\ InTime
    <3>1. phase' = "pause" /\ began' = now /\ result' = result
      BY <1>2, <2>2 DEF Fail
    <3>2. Pausing'
      BY <2>1, <2>2, <3>1 DEF Pausing, Attempting, InTime
    <3> QED BY <2>1, <3>1, <3>2
  <2>3. CASE ~(tries < Attempts /\ InTime)
    <3>1. phase' = "done" /\ result' = "down" /\ began' = began
      BY <1>2, <2>3 DEF Fail, Return
    <3>2. Done'
      BY <2>1, <2>3, <3>1 DEF Done, Exhausted, Attempting, InTime, Attempts
    <3> QED BY <2>1, <3>1, <3>2
  <2> QED BY <2>2, <2>3
<1>3. CASE Retry
  <2>1. phase' = "attempt" /\ tries' = tries + 1 /\ began' = now /\ Pausing
        /\ UNCHANGED <<fails, now, result, live>>
    BY <1>3 DEF Retry
  <2>2. Attempting'
    BY <2>1 DEF Attempting, Pausing
  <2> QED BY <2>1, <2>2 DEF Pausing, Attempts
<1>4. CASE CutShort
  <2>1. phase' = "done" /\ result' = "down" /\ Pausing /\ ~live
        /\ UNCHANGED <<fails, now, live, tries, began>>
    BY <1>4 DEF CutShort, Return
  <2>2. Done'
    BY <2>1 DEF Done, Exhausted, Pausing
  <2> QED BY <2>1, <2>2
<1>5. CASE Cancel
  BY <1>5 DEF Cancel, Attempting, Pausing, Done, Exhausted
<1>6. CASE Tick
  BY <1>6 DEF Tick, Limit, Attempting, Pausing, Done, Exhausted
<1>7. CASE UNCHANGED vars
  BY <1>7 DEF vars, Attempting, Pausing, Done, Exhausted
<1> QED BY <1>1, <1>2, <1>3, <1>4, <1>5, <1>6, <1>7 DEF Next

THEOREM Invariance == Spec => []IInv
BY InitIInv, NextIInv, PTL DEF Spec

-----------------------------------------------------------------------------
(* A check makes at most Retries + 1 attempts, and its variables keep      *)
(* their types.                                                            *)
THEOREM TypeCorrect == Spec => []TypeOK
<1>1. IInv => TypeOK
  BY DEF IInv
<1> QED BY <1>1, Invariance, PTL

(* A check takes at most one attempt longer than its deadline.             *)
THEOREM TimeBounded == Spec => []ElapsedBounded
<1>1. IInv => ElapsedBounded
  BY ConfigAssumption, Bounds
     DEF IInv, TypeOK, ElapsedBounded, Attempting, Pausing, Done
<1> QED BY <1>1, Invariance, PTL

-----------------------------------------------------------------------------
(* The loop of checks. *)

(* The time a check may have taken by its attempt of number k + 1. *)
Round    == Timeout + Backoff + Late
Spent(k) == k * Round

Quick == /\ phase = "attempt" => began <= Spent(tries - 1) /\ now <= began + Timeout
         /\ phase = "pause"   => /\ tries <= Retries
                                 /\ began <= Spent(tries - 1) + Timeout
                                 /\ now <= began + Backoff + Late
         /\ phase = "done"    => now <= Spent(Retries) + Timeout

(* A result is in the channel only while the worker waits for its timer,   *)
(* since a result is stored before the next check begins.                  *)
InTransit == /\ loop = "ended" => ~live
             /\ queued /\ loop # "ended" =>
                   loop = "timer" /\ phase = "done" /\ left = Interval - waited
             /\ loop = "checking" => ~queued

(* The age of the latest row, and the time since the start when this       *)
(* process has stored none, by where the worker is.                        *)
Recency(t, first) ==
  /\ loop = "timer" /\ ~queued => t <= first - left
  /\ loop = "checking"         => t <= first + Late + now
  /\ loop = "timer" /\ queued  => t <= first + Late + now + waited

Fresh == live /\ ~missed => IF stored THEN age >= 0 /\ Recency(age, Interval)
                                      ELSE Recency(up, Jitter)

LoopIInv == /\ LoopTypeOK
            /\ IInv
            /\ Quick
            /\ InTransit
            /\ Fresh
            /\ HealthTruthful

-----------------------------------------------------------------------------
LEMMA Rounds ==
  /\ Round \in Nat
  /\ \A k \in Nat : Spent(k) \in Nat /\ Spent(k + 1) = Spent(k) + Round
  /\ \A k, m \in Nat : k <= m => Spent(k) <= Spent(m)
<1>1. Round \in Nat
  BY ConfigAssumption DEF Round
<1> HIDE DEF Round
<1>2. ASSUME NEW k \in Nat PROVE Spent(k) \in Nat /\ Spent(k + 1) = Spent(k) + Round
  BY <1>1 DEF Spent
<1>3. ASSUME NEW k \in Nat, NEW m \in Nat, k <= m PROVE Spent(k) <= Spent(m)
  <2>1. PICK d \in Nat : m = k + d
    <3>1. m - k \in Nat /\ m = k + (m - k)
      BY <1>3
    <3> QED  BY <3>1
  <2>2. Spent(m) = Spent(k) + d * Round /\ d * Round \in Nat /\ Spent(k) \in Nat
    BY <1>1, <2>1 DEF Spent
  <2> QED  BY <2>2
<1> QED  BY <1>1, <1>2, <1>3

LEMMA Sizes ==
  /\ LongestCheck \in Nat
  /\ LongestGap \in Nat
  /\ MaxAge \in Nat /\ MaxAge > LongestGap /\ MaxAge > Threshold
  /\ Threshold \in Nat
<1>1. (Retries + 1) * Timeout + Retries * (Backoff + Late) \in Nat
  BY ConfigAssumption
<1>2. Deadline + Late + Timeout \in Nat
  BY ConfigAssumption, Bounds
<1>3. LongestCheck \in Nat
  BY <1>1, <1>2 DEF LongestCheck, Shorter
<1> HIDE DEF LongestCheck
<1> QED  BY <1>3, ConfigAssumption, LoopAssumption
         DEF LongestGap, MaxAge, Longer, Threshold

(* A check that is over took no longer than the longest. *)
LEMMA DoneInTime == IInv /\ Quick /\ phase = "done" => now <= LongestCheck
<1> SUFFICES ASSUME IInv, Quick, phase = "done" PROVE now <= LongestCheck
  OBVIOUS
<1>1. now <= Spent(Retries) + Timeout /\ now <= Deadline + Late + Timeout
  BY DEF IInv, Done, Quick
<1>2. Spent(Retries) + Timeout = (Retries + 1) * Timeout + Retries * (Backoff + Late)
  BY ConfigAssumption DEF Spent, Round
<1> QED  BY <1>1, <1>2 DEF LongestCheck, Shorter

(* Nor does one that is under way. *)
LEMMA UnderWay == IInv /\ Quick /\ phase # "done" => now <= LongestCheck
<1> SUFFICES ASSUME IInv, Quick, phase # "done" PROVE now <= LongestCheck
  OBVIOUS
<1> USE ConfigAssumption, Bounds, Rounds
<1>1. Spent(Retries) + Timeout = (Retries + 1) * Timeout + Retries * (Backoff + Late)
  BY DEF Spent, Round
<1>2. /\ tries - 1 \in Nat /\ tries - 1 <= Retries /\ tries = (tries - 1) + 1
      /\ tries \in Nat /\ now \in Nat /\ began \in Nat
  BY DEF IInv, TypeOK
<1>3. now <= Spent(Retries) + Timeout
  <2>1. CASE phase = "attempt"
    BY <1>2, <2>1 DEF Quick
  <2>2. CASE phase = "pause"
    <3>0. tries <= Retries /\ tries \in Nat
      BY <1>2, <2>2 DEF Quick
    <3>1. Spent(tries - 1) \in Nat /\ Spent(tries - 1) + Round <= Spent(Retries)
      <4>1. Spent((tries - 1) + 1) = Spent(tries - 1) + Round /\ Spent(tries - 1) \in Nat
        BY <1>2
      <4>2. Spent(tries) <= Spent(Retries)
        BY <3>0
      <4> QED  BY <1>2, <4>1, <4>2
    <3>2. now <= Spent(tries - 1) + Timeout + Backoff + Late
      BY <1>2, <2>2 DEF Quick
    <3> HIDE DEF Spent
    <3> QED  BY <1>2, <3>1, <3>2 DEF Round
  <2> QED  BY <2>1, <2>2 DEF IInv, TypeOK
<1>4. now <= Deadline + Late + Timeout
  BY <1>2 DEF IInv, TypeOK, Attempting, Pausing
<1> QED  BY <1>1, <1>3, <1>4 DEF LongestCheck, Shorter

LEMMA CheckStepKeeps ==
  ASSUME IInv, Quick, Succeed \/ Fail \/ Retry \/ CutShort \/ Tick
  PROVE  IInv' /\ Quick'
<1> USE ConfigAssumption, Rounds
<1>1. IInv'
  BY NextIInv DEF Next
<1>2. Quick'
  <2> tries \in 1..(Retries + 1) /\ now \in Nat /\ began \in 0..now
    BY DEF IInv, TypeOK
  <2> DEFINE k == tries - 1
  <2>0. k \in Nat /\ k <= Retries /\ tries = k + 1
    OBVIOUS
  <2>1. /\ Spent(k) \in Nat /\ Spent(k) <= Spent(Retries) /\ Spent(Retries) \in Nat
        /\ Spent(tries) = Spent(k) + Round
    BY <2>0
  <2>2. tries <= Retries => Spent(tries) <= Spent(Retries)
    BY <2>0
  <2> HIDE DEF k
  <2>3. CASE Succeed
    BY <2>0, <2>1, <2>3 DEF Quick, Succeed, Return, k
  <2>4. CASE Fail
    <3>1. phase = "attempt" /\ now' = now /\ now <= Spent(k) + Timeout
      BY <2>0, <2>1, <2>4 DEF Quick, Fail, k
    <3>2. CASE tries < Attempts /\ InTime
      <4>1. phase' = "pause" /\ began' = now /\ tries' = tries /\ tries <= Retries
        BY <2>4, <3>2 DEF Fail, Attempts
      <4>2. began' <= Spent(tries' - 1) + Timeout
        BY <3>1, <4>1 DEF k
      <4>3. now' <= began' + Backoff + Late
        BY <3>1, <4>1
      <4> QED  BY <4>1, <4>2, <4>3 DEF Quick
    <3>3. CASE ~(tries < Attempts /\ InTime)
      <4>1. phase' = "done"
        BY <2>4, <3>3 DEF Fail, Return
      <4> QED  BY <2>1, <3>1, <4>1 DEF Quick
    <3> QED  BY <3>2, <3>3
  <2>5. CASE Retry
    <3>1. /\ phase' = "attempt" /\ tries' = tries + 1 /\ began' = now /\ now' = now
          /\ began <= Spent(k) + Timeout /\ now <= began + Backoff + Late
      BY <2>5 DEF Quick, Retry, k
    <3>2. now <= Spent(tries)
      BY <3>1, <2>1 DEF Round
    <3> QED  BY <3>1, <3>2 DEF Quick
  <2>6. CASE CutShort
    <3>1. /\ phase' = "done" /\ now' = now /\ tries <= Retries
          /\ began <= Spent(k) + Timeout /\ now <= began + Backoff + Late
      BY <2>6 DEF Quick, CutShort, Return, k
    <3> QED  BY <3>1, <2>1, <2>2 DEF Quick, Round
  <2>7. CASE Tick
    <3>1. /\ now' = now + 1 /\ UNCHANGED <<phase, tries, began>>
          /\ phase # "done" /\ now < began + Limit
      BY <2>7 DEF Tick
    <3>2. CASE phase = "attempt"
      BY <3>1, <3>2 DEF Quick, Limit
    <3>3. CASE phase = "pause"
      BY <3>1, <3>3 DEF Quick, Limit
    <3> QED  BY <3>1, <3>2, <3>3 DEF IInv, TypeOK
  <2> QED  BY <2>3, <2>4, <2>5, <2>6, <2>7
<1> QED  BY <1>1, <1>2

(* A new check, before its first attempt takes any time. *)
LEMMA NewCheckKeeps ==
  ASSUME IInv, NewCheck, live' \in BOOLEAN
  PROVE  IInv' /\ Quick'
<1> USE ConfigAssumption, Bounds, Rounds
<1>1. TypeOK'
  BY DEF NewCheck, TypeOK
<1>2. Attempting'
  BY DEF NewCheck, Attempting
<1>3. Quick'
  BY DEF NewCheck, Quick
<1> QED  BY <1>1, <1>2, <1>3 DEF IInv, NewCheck

LEMMA IdleKeeps ==
  ASSUME IInv, Quick, UNCHANGED check, live' \in BOOLEAN, live' => live
  PROVE  IInv' /\ Quick'
BY DEF IInv, TypeOK, Quick, check, Attempting, Pausing, Done, Exhausted

-----------------------------------------------------------------------------
(* Where a timer, a row and a start begin. *)
LEMMA Ranges ==
  /\ -1 \in -1..MaxAge /\ 0 \in -1..MaxAge /\ 0 \in 0..MaxAge /\ 0 \in 0..Delay
  /\ -1 \in -1..(Threshold + 1) /\ 0 \in -1..(Threshold + 1)
  /\ 0 \in (-Late)..Interval /\ Interval \in (-Late)..Interval
  /\ 0..Jitter \subseteq (-Late)..Interval
<1>1. /\ Late \in Nat /\ Interval \in Nat /\ Jitter \in Nat /\ Delay \in Nat
      /\ MaxAge \in Nat /\ Threshold \in Nat /\ Jitter <= Interval
  BY ConfigAssumption, LoopAssumption, Sizes
<1> QED  BY <1>1

(* All but the answer, for the steps that give none. *)
Core == LoopTypeOK /\ IInv /\ Quick /\ InTransit /\ Fresh

LEMMA Silent == answer' = "none" => HealthTruthful'
BY DEF HealthTruthful

LEMMA LoopInitInv == LoopInit => LoopIInv
<1> SUFFICES ASSUME LoopInit PROVE LoopIInv
  OBVIOUS
<1> USE ConfigAssumption, LoopAssumption, Sizes, Ranges, Bounds, Rounds
<1>1. IInv
  BY InitIInv DEF LoopInit
<1>2. LoopTypeOK
  <2>1. TypeOK
    BY <1>1 DEF IInv
  <2> QED  BY <2>1 DEF LoopTypeOK, LoopInit
<1>3. Quick
  BY DEF LoopInit, Init, Quick
<1>4. InTransit /\ Fresh
  BY DEF LoopInit, Init, InTransit, Fresh, Recency
<1>5. HealthTruthful
  BY DEF LoopInit, HealthTruthful
<1> QED  BY <1>1, <1>2, <1>3, <1>4, <1>5 DEF LoopIInv

(* The worker's own steps. *)
LEMMA WorkerKeeps ==
  ASSUME Core, answer' = "none", Fire \/ EndWorker \/ CheckStep \/ Send
  PROVE  Core'
<1> USE ConfigAssumption, LoopAssumption, Sizes, Ranges DEF Core
<1>1. CASE Fire
  <2>1. IInv' /\ Quick'
    BY <1>1, NewCheckKeeps DEF Fire, LoopTypeOK, TypeOK
  <2>2. LoopTypeOK'
    <3>1. TypeOK'
      BY <2>1 DEF IInv
    <3> QED  BY <1>1, <3>1 DEF Fire, LoopTypeOK, channel, rows
  <2>3. InTransit'
    <3>1. loop' = "checking" /\ live' = live /\ queued' = queued
      BY <1>1 DEF Fire, channel
    <3>2. ~queued
      BY <1>1 DEF Fire, InTransit, LoopTypeOK
    <3> QED  BY <3>1, <3>2 DEF InTransit
  <2>4. Fresh'
    BY <1>1 DEF Fire, NewCheck, InTransit, Fresh, Recency, channel, rows, LoopTypeOK
  <2> QED  BY <2>1, <2>2, <2>3, <2>4
<1>2. CASE EndWorker
  <2>1. IInv' /\ Quick'
    BY <1>2, IdleKeeps DEF EndWorker, LoopTypeOK, TypeOK
  <2>2. LoopTypeOK'
    <3>1. TypeOK'
      BY <2>1 DEF IInv
    <3> QED  BY <1>2, <3>1 DEF EndWorker, LoopTypeOK, channel, rows
  <2>3. InTransit' /\ Fresh'
    BY <1>2 DEF EndWorker, InTransit, Fresh
  <2> QED  BY <2>1, <2>2, <2>3
<1>3. CASE CheckStep
  <2>1. IInv' /\ Quick'
    BY <1>3, CheckStepKeeps DEF CheckStep
  <2>2. now' = now /\ live' = live /\ phase # "done"
    BY <1>3 DEF CheckStep, Succeed, Fail, Retry, CutShort, Return
  <2>3. LoopTypeOK'
    BY <1>3, <2>1 DEF CheckStep, LoopTypeOK, IInv, channel, rows, worker
  <2>4. InTransit' /\ Fresh'
    BY <1>3, <2>2 DEF CheckStep, InTransit, Fresh, Recency, channel, rows, worker
  <2> QED  BY <2>1, <2>3, <2>4
<1>4. CASE Send
  <2>1. IInv' /\ Quick'
    BY <1>4, IdleKeeps DEF Send, LoopTypeOK, TypeOK
  <2>2. LoopTypeOK'
    <3>1. TypeOK'
      BY <2>1 DEF IInv
    <3> QED  BY <1>4, <3>1 DEF Send, LoopTypeOK, channel, rows
  <2>3. InTransit'
    BY <1>4 DEF Send, InTransit, channel, check, LoopTypeOK
  <2>4. Fresh'
    BY <1>4 DEF Send, InTransit, Fresh, Recency, channel, check, rows, LoopTypeOK, IInv, TypeOK
  <2> QED  BY <2>1, <2>2, <2>3, <2>4
<1> QED  BY <1>1, <1>2, <1>3, <1>4

(* The consumer's steps: a result stored is not older than the worker's    *)
(* timer says.                                                             *)
LEMMA ConsumerKeeps ==
  ASSUME Core, answer' = "none",
         \/ Apply \/ ApplyRefused \/ OtherResult
         \/ \E s \in Others : OtherSite(s)
  PROVE  Core'
<1> USE ConfigAssumption, LoopAssumption, Sizes, Ranges DEF Core
<1>1. UNCHANGED <<check, live, worker, up>>
  BY DEF Apply, ApplyRefused, OtherResult, OtherSite
<1>2. IInv' /\ Quick'
  BY <1>1, IdleKeeps DEF LoopTypeOK, TypeOK
<1>3. LoopTypeOK'
  <2>1. TypeOK'
    BY <1>2 DEF IInv
  <2>2. age' \in {age, 0} /\ waited' \in {waited, 0} /\ queued' \in {queued, FALSE}
        /\ stored' \in {stored, TRUE} /\ missed' \in BOOLEAN
        /\ others' \in [Others -> -1..(Threshold + 1)]
    BY DEF Apply, ApplyRefused, OtherResult, OtherSite, LoopTypeOK, channel
  <2> QED  BY <1>1, <2>1, <2>2 DEF LoopTypeOK, worker
<1>4. InTransit'
  BY <1>1 DEF Apply, ApplyRefused, OtherResult, OtherSite, InTransit, channel, check, worker
<1>5. Fresh'
  BY <1>1 DEF Apply, ApplyRefused, OtherResult, OtherSite, InTransit, Fresh, Recency, channel,
              check, worker, LoopTypeOK, IInv, TypeOK
<1> QED  BY <1>2, <1>3, <1>4, <1>5

(* A start leaves what remains of the jitter. *)
LEMMA Remains == \A a, b \in Int : a <= b => 0 <= b - a
OBVIOUS

(* The process's steps. *)
LEMMA ProcessKeeps ==
  ASSUME Core, answer' = "none", Signal \/ Exit \/ Restart
  PROVE  Core'
<1> USE ConfigAssumption, LoopAssumption, Sizes, Ranges DEF Core
<1>1. CASE Signal
  <2>1. IInv' /\ Quick'
    BY <1>1, IdleKeeps DEF Signal
  <2>2. LoopTypeOK'
    BY <1>1, <2>1 DEF Signal, LoopTypeOK, IInv, channel, rows, worker
  <2>3. InTransit'
    BY <1>1 DEF Signal, InTransit, channel, worker, check
  <2>4. Fresh'
    BY <1>1 DEF Signal, Fresh
  <2> QED  BY <2>1, <2>2, <2>3, <2>4
<1>2. CASE Exit
  <2>1. IInv' /\ Quick'
    BY <1>2, NewCheckKeeps DEF Exit
  <2>2. LoopTypeOK'
    <3>1. TypeOK'
      BY <2>1 DEF IInv
    <3> QED  BY <1>2, <3>1 DEF Exit, LoopTypeOK, rows
  <2>3. InTransit' /\ Fresh'
    BY <1>2 DEF Exit, InTransit, Fresh
  <2> QED  BY <2>1, <2>2, <2>3
<1>3. CASE Restart
  <2>1. IInv' /\ Quick'
    BY <1>3, NewCheckKeeps DEF Restart
  <2>2. LoopTypeOK'
    <3>1. TypeOK'
      BY <2>1 DEF IInv
    <3> QED  BY <1>3, <3>1 DEF Restart, LoopTypeOK
  <2>3. InTransit'
    BY <1>3 DEF Restart, InTransit
  <2>4. Fresh'
    <3>1. /\ loop' = "timer" /\ ~queued' /\ up' = 0 /\ ~stored'
          /\ left' \in Int /\ left' <= Jitter /\ Jitter \in Int
      BY <1>3 DEF Restart
    <3>2. up' <= Jitter - left'
      BY <3>1, Remains
    <3>3. Recency(up, Jitter)'
      BY <3>1, <3>2 DEF Recency
    <3> QED  BY <3>1, <3>3 DEF Fresh
  <2> QED  BY <2>1, <2>2, <2>3, <2>4
<1> QED  BY <1>1, <1>2, <1>3

(* Time: the worker, the queue and the latest row age together. *)
LEMMA PassKeeps ==
  ASSUME Core, answer' = "none", Pass
  PROVE  Core'
<1> USE ConfigAssumption, LoopAssumption, Sizes, Ranges DEF Core
<1>1. IInv' /\ Quick'
  <2>1. CASE loop = "checking"
    <3>1. Tick
      BY <2>1 DEF Pass, InCheck, Tick
    <3> QED  BY <3>1, CheckStepKeeps
  <2>2. CASE loop # "checking"
    <3>1. UNCHANGED check /\ live' = live
      BY <2>2 DEF Pass, InCheck, check
    <3> QED  BY <3>1, IdleKeeps DEF LoopTypeOK, TypeOK
  <2> QED  BY <2>1, <2>2
<1>2. LoopTypeOK'
  <2>1. left' \in (-Late)..Interval /\ waited' \in 0..Delay
    BY DEF Pass, InTimer, InQueue, LoopTypeOK
  <2>2. /\ age' \in -1..MaxAge /\ up' \in 0..MaxAge
        /\ others' \in [Others -> -1..(Threshold + 1)]
    BY DEF Pass, Aged, LoopTypeOK
  <2> QED  BY <1>1, <2>1, <2>2 DEF Pass, LoopTypeOK, IInv
<1>3. InTransit'
  BY DEF Pass, InTimer, InQueue, InCheck, InTransit, LoopTypeOK
<1>4. Fresh'
  <2>1. /\ up' <= up + 1
        /\ age >= 0 => 0 <= age' /\ age' <= age + 1
    BY DEF Pass, Aged, LoopTypeOK
  <2>2. /\ up' \in Int /\ age' \in Int /\ up \in Int /\ age \in Int /\ now \in Int
        /\ left \in Int /\ waited \in Int
    BY <1>2 DEF LoopTypeOK, TypeOK
  <2>3. ASSUME NEW t \in Int, NEW u \in Int, NEW first \in Nat, u <= t + 1, Recency(t, first)
        PROVE  /\ loop' = "timer" /\ ~queued' => u <= first - left'
               /\ loop' = "checking"          => u <= first + Late + now'
               /\ loop' = "timer" /\ queued'  => u <= first + Late + now' + waited'
    BY <2>2, <2>3 DEF Recency, Pass, InTimer, InQueue, InCheck
  <2>4. CASE live /\ ~missed /\ stored
    BY <2>1, <2>2, <2>3, <2>4 DEF Fresh, Recency, Pass
  <2>5. CASE live /\ ~missed /\ ~stored
    BY <2>1, <2>2, <2>3, <2>5 DEF Fresh, Recency, Pass
  <2>6. CASE ~live \/ missed
    BY <2>6 DEF Fresh, Pass
  <2> QED  BY <2>4, <2>5, <2>6
<1> QED  BY <1>1, <1>2, <1>3, <1>4

(* Only the answer is new, and it is about the rows as they are. *)
LEMMA PollFacts ==
  ASSUME NEW own \in BOOLEAN, NEW readable \in SUBSET Others, Poll(own, readable)
  PROVE  /\ UNCHANGED <<check, live, worker, channel, rows, up>> /\ live
         /\ answer' \in {"ok", "stale", "blind"}
         /\ answer' = "stale" => age > Threshold
<1>1. Seen(own) => age \in Read(own, readable)
  BY DEF Read
<1> QED BY <1>1 DEF Poll, Stale

LEMMA PollKeeps ==
  ASSUME LoopIInv, NEW own \in BOOLEAN, NEW readable \in SUBSET Others, Poll(own, readable)
  PROVE  LoopIInv'
<1> USE ConfigAssumption, LoopAssumption, Sizes, Ranges
<1>1. UNCHANGED <<check, live, worker, channel, rows, up>> /\ live
      /\ answer' \in {"ok", "stale", "blind"}
  BY PollFacts
<1>2. IInv' /\ Quick'
  BY <1>1, IdleKeeps DEF LoopIInv, LoopTypeOK, TypeOK
<1>3. LoopTypeOK' /\ InTransit' /\ Fresh'
  BY <1>1, <1>2 DEF LoopIInv, LoopTypeOK, IInv, InTransit, Fresh, Recency, check, worker, channel, rows
<1>4. HealthTruthful'
  <2>1. ASSUME answer' = "stale", stored, ~missed PROVE Slow
    <3>1. age > 2 * Interval
      BY <2>1, PollFacts DEF Threshold
    <3>2. Recency(age, Interval)
      BY <1>1, <2>1 DEF LoopIInv, Fresh
    <3>3. loop \in {"timer", "checking"} /\ left >= -Late /\ left \in Int
          /\ waited \in 0..Delay /\ now \in Nat /\ age \in Int /\ queued \in BOOLEAN
      BY <1>1 DEF LoopIInv, LoopTypeOK, TypeOK, InTransit
    <3> QED  BY <3>1, <3>2, <3>3 DEF Recency, Slow
  <2> QED  BY <1>1, <2>1 DEF HealthTruthful, Slow, check, rows
<1> QED  BY <1>2, <1>3, <1>4 DEF LoopIInv

LEMMA LoopStepKeeps == LoopIInv /\ [LoopNext]_loopVars => LoopIInv'
<1> SUFFICES ASSUME LoopIInv, [LoopNext]_loopVars PROVE LoopIInv'
  OBVIOUS
<1>1. CASE Run /\ answer' = "none"
  <2>1. Core
    BY DEF LoopIInv, Core
  <2>2. Core'
    BY <1>1, <2>1, WorkerKeeps, ConsumerKeeps, ProcessKeeps, PassKeeps DEF Run
  <2> QED  BY <1>1, <2>2, Silent DEF Core, LoopIInv
<1>2. CASE \E own \in BOOLEAN, readable \in SUBSET Others : Poll(own, readable)
  BY <1>2, PollKeeps
<1>3. CASE UNCHANGED loopVars
  <2>1. IInv' /\ Quick'
    BY <1>3, IdleKeeps DEF loopVars, LoopIInv, LoopTypeOK, TypeOK
  <2> QED  BY <1>3, <2>1 DEF loopVars, check, worker, channel, rows, LoopIInv, LoopTypeOK,
              IInv, InTransit, Fresh, Recency, HealthTruthful, Slow
<1> QED  BY <1>1, <1>2, <1>3 DEF LoopNext

-----------------------------------------------------------------------------
LEMMA LoopInvariance == LoopSpec => []LoopIInv
BY LoopInitInv, LoopStepKeeps, PTL DEF LoopSpec

(* The variables of the worker, the channel, the rows and the endpoint     *)
(* keep their types.                                                       *)
THEOREM LoopTypeCorrect == LoopSpec => []LoopTypeOK
<1>1. LoopIInv => LoopTypeOK
  BY DEF LoopIInv
<1> QED  BY <1>1, LoopInvariance, PTL

(* Two rows of a process whose store takes them are never further apart    *)
(* than an interval, a late timer, the longest check and the queue.        *)
THEOREM RowsCome == LoopSpec => []RowsKeepComing
<1>1. LoopIInv => RowsKeepComing
  <2> SUFFICES ASSUME LoopIInv, live, ~missed
               PROVE  IF stored THEN age \in 0..LongestGap
                                ELSE up <= Jitter + Late + LongestCheck + Delay
    BY DEF RowsKeepComing
  <2> USE ConfigAssumption, LoopAssumption, Sizes
  <2>1. /\ loop \in {"timer", "checking"} /\ left >= -Late /\ left \in Int
        /\ waited \in 0..Delay /\ now \in Nat /\ age \in Int /\ up \in Int
        /\ queued \in BOOLEAN /\ stored \in BOOLEAN
    BY DEF LoopIInv, LoopTypeOK, TypeOK, InTransit
  <2>2. queued \/ loop = "checking" => now <= LongestCheck
    <3>1. ASSUME phase # "done" PROVE now <= LongestCheck
      BY <3>1, UnderWay DEF LoopIInv
    <3> QED  BY <3>1, DoneInTime DEF LoopIInv
  <2>3. ASSUME NEW t \in Int, NEW first \in Nat, Recency(t, first)
        PROVE  t <= first + Late + LongestCheck + Delay
    BY <2>1, <2>2, <2>3 DEF Recency
  <2> QED  BY <2>1, <2>3 DEF LoopIInv, Fresh, LongestGap
<1> QED  BY <1>1, LoopInvariance, PTL

(* What /healthz says of the process: handleHealthz and healthState,       *)
(* health.go:82-144.                                                       *)
THEOREM HealthIsTrue == LoopSpec => []HealthTruthful
<1>1. LoopIInv => HealthTruthful
  BY DEF LoopIInv
<1> QED  BY <1>1, LoopInvariance, PTL

(* The bounds of a check hold in the worker that repeats it.               *)
THEOREM LoopTimeBounded == LoopSpec => []ElapsedBounded
<1>1. LoopIInv => ElapsedBounded
  BY ConfigAssumption, Bounds
     DEF LoopIInv, IInv, TypeOK, ElapsedBounded, Attempting, Pausing, Done
<1> QED  BY <1>1, LoopInvariance, PTL

(* A down result the store takes in comes from a check all of whose        *)
(* attempts failed, none of them cut: alerting.go:45-46.                   *)
THEOREM LoopDownIsLast == LoopSpec => DownIsExhausted
<1>1. LoopIInv /\ [LoopNext]_loopVars => [(Apply /\ result = "down") => Exhausted]_loopVars
  <2> SUFFICES ASSUME LoopIInv, Apply, result = "down" PROVE Exhausted
    OBVIOUS
  <2>1. live /\ queued
    BY DEF Apply, StoreAccepts
  <2>2. phase = "done"
    BY <2>1 DEF LoopIInv, InTransit
  <2> QED  BY <2>1, <2>2 DEF LoopIInv, IInv, Done
<1> QED  BY <1>1, LoopInvariance, PTL DEF LoopSpec, DownIsExhausted

-----------------------------------------------------------------------------
(* What stops the clock of the model: a result the worker holds, a timer   *)
(* as late as timers get, an attempt or a pause at its limit, a result in  *)
(* the channel that has waited its longest.                                *)
MayPass == /\ loop = "checking" => phase # "done" /\ now < began + Limit
           /\ loop = "timer"    => left > -Late
           /\ queued            => waited < Delay

(* The guards of the steps that do not wait for time: Fire, the end of an  *)
(* attempt, Retry, Send, and Apply or ApplyRefused.                        *)
StepDue == \/ loop = "timer" /\ left <= 0
           \/ loop = "checking" /\ phase = "attempt"
           \/ loop = "checking" /\ phase = "pause" /\ now >= began + Backoff
           \/ loop = "checking" /\ phase = "done" /\ (~queued \/ ~live)
           \/ queued

(* Time never stands still for want of a step: wherever it cannot pass,    *)
(* the worker or the consumer has something to do, so that the bounds      *)
(* above are not met by stopping the clock.  The worker that is to send    *)
(* always finds room in the channel.                                       *)
ClockGoesOn == /\ MayPass \/ StepDue
               /\ (loop = "checking" /\ phase = "done") => ~queued

THEOREM TimeGoesOn == LoopSpec => []ClockGoesOn
<1>1. LoopIInv => ClockGoesOn
  <2> SUFFICES ASSUME LoopIInv PROVE ClockGoesOn
    OBVIOUS
  <2> USE ConfigAssumption, LoopAssumption
  <2>1. /\ phase \in {"attempt", "pause", "done"} /\ now \in Nat /\ began \in Nat
        /\ left \in Int
    BY DEF LoopIInv, LoopTypeOK, TypeOK
  <2>2. loop = "checking" => ~queued
    BY DEF LoopIInv, InTransit
  <2>3. CASE queued
    BY <2>2, <2>3 DEF ClockGoesOn, StepDue
  <2>4. CASE ~queued /\ loop = "timer"
    BY <2>1, <2>4 DEF ClockGoesOn, MayPass, StepDue
  <2>5. CASE ~queued /\ loop = "checking"
    BY <2>1, <2>5 DEF ClockGoesOn, MayPass, StepDue, Limit
  <2>6. CASE ~queued /\ loop \notin {"timer", "checking"}
    BY <2>6 DEF ClockGoesOn, MayPass
  <2> QED  BY <2>3, <2>4, <2>5, <2>6
<1> QED  BY <1>1, LoopInvariance, PTL

-----------------------------------------------------------------------------
(* health.go:108-114: a row of this process is no older than it is.  So a  *)
(* process that has stored a row of the site, and can read it, is not      *)
(* called stale in its first two intervals, whatever other rows it reads:  *)
(* where StartupGrace fails, an older row was read and no new one.         *)
OwnGrace == answer = "stale" /\ stored => up > 2 * Interval

(* A row of this process is not older than the process. *)
OwnRow == stored => age <= up

THEOREM GraceWithoutOldRows == LoopSpec => []OwnGrace
<1> USE ConfigAssumption, LoopAssumption
<1>1. LoopInit => OwnRow /\ OwnGrace
  BY DEF LoopInit, OwnRow, OwnGrace
<1>2. LoopIInv /\ OwnRow /\ OwnGrace /\ [LoopNext]_loopVars => (OwnRow /\ OwnGrace)'
  <2> SUFFICES ASSUME LoopIInv, OwnRow, OwnGrace, [LoopNext]_loopVars
               PROVE  OwnRow' /\ OwnGrace'
    OBVIOUS
  <2>1. age \in Int /\ age >= -1 /\ up \in Nat /\ stored \in BOOLEAN
    BY DEF LoopIInv, LoopTypeOK
  <2>2. CASE Run /\ answer' = "none"
    <3>1. OwnGrace'
      BY <2>2 DEF OwnGrace
    <3>2. CASE Pass
      BY <2>1, <3>1, <3>2, Sizes DEF Pass, OwnRow, Aged
    <3>3. CASE Fire \/ EndWorker \/ CheckStep \/ Send \/ Signal \/ Exit
      BY <3>1, <3>3 DEF Fire, EndWorker, CheckStep, Send, Signal, Exit, rows, OwnRow
    <3>4. CASE \/ Apply \/ ApplyRefused \/ OtherResult \/ Restart
               \/ \E s \in Others : OtherSite(s)
      BY <2>1, <3>1, <3>4 DEF Apply, ApplyRefused, OtherResult, OtherSite, Restart, OwnRow
    <3> QED  BY <2>2, <3>1, <3>2, <3>3, <3>4 DEF Run
  <2>3. CASE \E own \in BOOLEAN, readable \in SUBSET Others : Poll(own, readable)
    <3>1. UNCHANGED <<age, stored, up>> /\ (answer' = "stale" => age > Threshold)
      BY <2>3, PollFacts DEF rows
    <3>2. OwnGrace'
      BY <2>1, <3>1, ConfigAssumption DEF Threshold, OwnRow, OwnGrace
    <3> QED  BY <3>1, <3>2 DEF OwnRow
  <2>4. CASE UNCHANGED loopVars
    BY <2>4 DEF loopVars, rows, OwnRow, OwnGrace
  <2> QED  BY <2>2, <2>3, <2>4 DEF LoopNext
<1>3. LoopSpec => [](OwnRow /\ OwnGrace)
  BY <1>1, <1>2, LoopInvariance, PTL DEF LoopSpec
<1> QED  BY <1>3, PTL
=============================================================================
