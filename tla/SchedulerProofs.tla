-------------------------- MODULE SchedulerProofs --------------------------
(***************************************************************************)
(* Proofs about Scheduler for any finite set of jobs, channel capacity and *)
(* number of checks: types; that Run returns only when no goroutine is     *)
(* left; that results are neither lost nor doubled nor overtaken; that the *)
(* goroutines never all wait for each other; and that the scheduler        *)
(* implements Pipeline.  The invariant behind the first two is what a      *)
(* WaitGroup is for: its counter is the number of goroutines that were     *)
(* started and have not ended.                                             *)
(***************************************************************************)
EXTENDS Scheduler, FiniteSetTheorems, TLAPS

Alive == {j \in Jobs : worker[j] \in {"timer", "checking", "sending"}}

ConsumerAlive == IF consumer \in {"select", "process"} THEN 1 ELSE 0

WgCounts == wg = Cardinality(Alive) + ConsumerAlive

(* Goroutines are only started before Run waits, and Run returns at zero.  *)
Phases == /\ run = "starting" <=> consumer = "new"
          /\ run # "starting" => \A j \in Jobs : worker[j] # "new"
          /\ run = "returned" => wg = 0

IInv == TypeOK /\ WgCounts /\ Phases

(* The set of workers alive is finite, so its cardinality is a number that *)
(* is 0 exactly when nobody is alive.                                      *)
LEMMA AliveIsFinite ==
  /\ IsFiniteSet(Alive)
  /\ Cardinality(Alive) \in Nat
  /\ Cardinality(Alive) = 0 <=> Alive = {}
BY JobsAssumption, FS_Subset, FS_CardinalityType, FS_EmptySet DEF Alive

(* A worker that starts adds one to it, a worker that ends takes one away. *)
LEMMA AliveChanges ==
  ASSUME NEW j \in Jobs
  PROVE  /\ j \notin Alive /\ Alive' = Alive \cup {j}
              => Cardinality(Alive)' = Cardinality(Alive) + 1
         /\ j \in Alive /\ Alive' = Alive \ {j}
              => Cardinality(Alive)' = Cardinality(Alive) - 1 /\ Cardinality(Alive) > 0
BY AliveIsFinite, FS_AddElement, FS_RemoveElement

(* The inductive invariant holds initially. *)
LEMMA InitIInv == Init => IInv
<1> SUFFICES ASSUME Init PROVE IInv
  OBVIOUS
<1>1. TypeOK
  BY JobsAssumption DEF Init, TypeOK, Result, NoResult
<1>2. Alive = {}
  BY DEF Init, Alive
<1>3. WgCounts /\ Phases
  BY <1>2, FS_EmptySet DEF Init, WgCounts, ConsumerAlive, Phases
<1> QED BY <1>1, <1>3 DEF IInv

(* A worker starts. *)
LEMMA StartWorkerIInv ==
  ASSUME IInv, NEW j \in Jobs, StartWorker(j)
  PROVE  IInv'
<1> USE DEF IInv, TypeOK, StartWorker, CounterAfterStart
<1>1. TypeOK'
  OBVIOUS
<1>2. j \notin Alive /\ Alive' = Alive \cup {j}
  BY DEF Alive
<1>3. Cardinality(Alive)' = Cardinality(Alive) + 1
  BY <1>2, AliveChanges
<1>4. WgCounts'
  BY <1>3, AliveIsFinite DEF WgCounts, ConsumerAlive
<1>5. Phases'
  BY DEF Phases
<1> QED BY <1>1, <1>4, <1>5

(* A worker ends. *)
LEMMA ExitWorkerIInv ==
  ASSUME IInv, NEW j \in Jobs, ExitWorker(j)
  PROVE  IInv'
<1> USE DEF IInv, TypeOK, ExitWorker
<1>1. j \in Alive /\ Alive' = Alive \ {j}
  BY DEF Alive
<1>2. Cardinality(Alive)' = Cardinality(Alive) - 1 /\ Cardinality(Alive) > 0
  BY <1>1, AliveChanges
<1>3. wg > 0
  BY <1>2, AliveIsFinite DEF WgCounts, ConsumerAlive
<1>4. TypeOK'
  BY <1>3
<1>5. WgCounts'
  BY <1>2, AliveIsFinite DEF WgCounts, ConsumerAlive
<1>6. Phases'
  BY <1>3 DEF Phases
<1> QED BY <1>4, <1>5, <1>6

(* A worker goes on, alive before and after. *)
LEMMA WorkerIInv ==
  ASSUME IInv, NEW j \in Jobs, Fire(j) \/ CheckReturns(j) \/ Enqueue(j) \/ Drop(j)
  PROVE  IInv'
<1> USE DEF IInv, TypeOK
<1>1. TypeOK'
  <2>1. CASE Fire(j)
    BY <2>1 DEF Fire
  <2>2. CASE CheckReturns(j)
    BY <2>2 DEF CheckReturns, Result
  <2>3. CASE Enqueue(j)
    BY <2>3 DEF Enqueue, Enqueued
  <2>4. CASE Drop(j)
    BY <2>4 DEF Drop
  <2> QED BY <2>1, <2>2, <2>3, <2>4
<1>2. Alive' = Alive /\ wg' = wg /\ consumer' = consumer /\ run' = run
  BY DEF Fire, CheckReturns, Enqueue, Drop, Alive
<1>3. WgCounts'
  BY <1>2 DEF WgCounts, ConsumerAlive
<1>4. Phases'
  BY <1>2 DEF Phases, Fire, CheckReturns, Enqueue, Drop
<1> QED BY <1>1, <1>3, <1>4

(* The consumer and Run. *)
LEMMA OthersIInv ==
  ASSUME IInv, \/ StartConsumer \/ SeeCancelled \/ Return \/ Dequeue \/ Process
               \/ ExitConsumer \/ Cancel
  PROVE  IInv'
<1> USE DEF IInv, TypeOK
<1>1. worker' = worker
  BY DEF StartConsumer, SeeCancelled, Return, Dequeue, Process, ExitConsumer, Cancel
<1>2. Alive' = Alive
  BY <1>1 DEF Alive
<1>3. CASE StartConsumer
  BY <1>2, <1>3, AliveIsFinite
     DEF StartConsumer, CounterAfterStart, WgCounts, ConsumerAlive, Phases
<1>4. CASE SeeCancelled \/ Return \/ Cancel
  BY <1>2, <1>4 DEF SeeCancelled, Return, Cancel, WgCounts, ConsumerAlive, Phases
<1>5. CASE Dequeue
  <2>1. TypeOK'
    BY <1>5 DEF Dequeue
  <2> QED BY <1>2, <1>5, <2>1 DEF Dequeue, WgCounts, ConsumerAlive, Phases
<1>6. CASE Process
  <2>1. TypeOK'
    BY <1>6 DEF Process, AfterProcess, Result
  <2> QED BY <1>2, <1>6, <2>1 DEF Process, AfterProcess, WgCounts, ConsumerAlive, Phases
<1>7. CASE ExitConsumer
  <2>1. wg > 0
    BY <1>7, AliveIsFinite DEF ExitConsumer, WgCounts, ConsumerAlive
  <2> QED BY <1>2, <1>7, <2>1, AliveIsFinite
          DEF ExitConsumer, WgCounts, ConsumerAlive, Phases
<1> QED BY <1>3, <1>4, <1>5, <1>6, <1>7

(* Every step keeps the inductive invariant. *)
LEMMA NextIInv == IInv /\ [Next]_vars => IInv'
<1> SUFFICES ASSUME IInv, [Next]_vars PROVE IInv'
  OBVIOUS
<1>1. CASE UNCHANGED vars
  BY <1>1 DEF vars, IInv, TypeOK, WgCounts, ConsumerAlive, Alive, Phases
<1> QED BY <1>1, StartWorkerIInv, ExitWorkerIInv, WorkerIInv, OthersIInv DEF Next

LEMMA Invariance == Spec => []IInv
BY InitIInv, NextIInv, PTL DEF Spec

-----------------------------------------------------------------------------
(* Type correctness of the scheduler; in particular the WaitGroup counter  *)
(* never goes below zero, which would panic.                               *)
THEOREM TypeCorrect == Spec => []TypeOK
<1>1. IInv => TypeOK
  BY DEF IInv
<1> QED BY <1>1, Invariance, PTL

(* When Run has returned every worker and the consumer have ended, however *)
(* the signal fell between their steps (scheduler.go:46).                  *)
THEOREM RunReturnsLast == Spec => []NoneLeft
<1>1. IInv => NoneLeft
  <2> SUFFICES ASSUME IInv, run = "returned"
               PROVE  consumer = "exited" /\ \A j \in Jobs : worker[j] = "exited"
    BY DEF NoneLeft
  <2>1. Alive = {} /\ ConsumerAlive = 0
    BY AliveIsFinite DEF IInv, WgCounts, Phases, ConsumerAlive
  <2> QED BY <2>1 DEF IInv, TypeOK, Phases, Alive, ConsumerAlive
<1> QED BY <1>1, Invariance, PTL

-----------------------------------------------------------------------------
(* The results on their way, on top of the types: a worker sends the last  *)
(* result it made, and nothing on its way was made after it.               *)
Made == /\ \A j \in Jobs : /\ done[j] <= made[j]
                           /\ worker[j] = "sending" => pending[j] = [job |-> j, n |-> made[j]]
        /\ consumer = "process" => held.n <= made[held.job]
        /\ \A i \in DOMAIN queue : queue[i].n <= made[queue[i].job]

NoneMissing == live => \A j \in Jobs : \A n \in (done[j] + 1)..made[j] :
                                            OnItsWay([job |-> j, n |-> n])

LineInv == TypeOK /\ Ordered /\ NoneMissing /\ Made

LEMMA InitLine == Init => LineInv
<1> SUFFICES ASSUME Init PROVE LineInv
  OBVIOUS
<1>1. TypeOK
  BY InitIInv DEF IInv
<1>2. Ordered /\ NoneMissing /\ Made
  BY DEF Init, Ordered, NoneMissing, Made
<1> QED BY <1>1, <1>2 DEF LineInv

(* Steps that only move goroutines which hold no result. *)
LEMMA QuietLine ==
  ASSUME LineInv, TypeOK', UNCHANGED <<pending, made, queue, held, done>>,
         consumer' = "process" <=> consumer = "process",
         \A j \in Jobs : worker'[j] = "sending" <=> worker[j] = "sending",
         live' => live
  PROVE  LineInv'
<1>1. Ordered'
  BY DEF LineInv, Ordered, Earlier
<1>2. Made'
  BY DEF LineInv, Made
<1>3. ASSUME live', NEW j \in Jobs, NEW n \in (done'[j] + 1)..made'[j]
      PROVE  OnItsWay([job |-> j, n |-> n])'
  <2>1. OnItsWay([job |-> j, n |-> n])
    BY <1>3 DEF LineInv, NoneMissing
  <2> QED BY <2>1 DEF OnItsWay
<1> QED BY <1>1, <1>2, <1>3 DEF LineInv, NoneMissing

(* A check returns the newest result of its job. *)
LEMMA CheckReturnsLine ==
  ASSUME LineInv, TypeOK', NEW j \in Jobs, CheckReturns(j)
  PROVE  LineInv'
<1>1. /\ worker[j] = "checking" /\ made[j] \in Nat
      /\ worker' = [worker EXCEPT ![j] = "sending"]
      /\ made' = [made EXCEPT ![j] = made[j] + 1]
      /\ pending' = [pending EXCEPT ![j] = [job |-> j, n |-> made[j] + 1]]
      /\ UNCHANGED <<queue, consumer, held, done, live>>
  BY DEF CheckReturns, LineInv, TypeOK
<1>2. /\ worker'[j] = "sending" /\ made'[j] = made[j] + 1
      /\ pending'[j] = [job |-> j, n |-> made[j] + 1]
      /\ \A k \in Jobs \ {j} : /\ worker'[k] = worker[k] /\ made'[k] = made[k]
                               /\ pending'[k] = pending[k]
  BY <1>1 DEF LineInv, TypeOK
<1>3. /\ \A k \in Jobs : done[k] \in Nat /\ made[k] \in Nat
      /\ held \in Result /\ \A i \in DOMAIN queue : queue[i] \in Result
  BY DEF LineInv, TypeOK
<1>4. Made'
  <2>1. ASSUME NEW k \in Jobs PROVE made[k] <= made'[k] /\ made'[k] \in Nat
    BY <1>2, <1>3
  <2>2. ASSUME NEW k \in Jobs
        PROVE  /\ done'[k] <= made'[k]
               /\ worker'[k] = "sending" => pending'[k] = [job |-> k, n |-> made'[k]]
    <3>0. done[k] <= made[k]
      BY DEF LineInv, Made
    <3>1. done[k] <= made'[k]
      BY <1>3, <2>1, <3>0
    <3>2. CASE k = j
      BY <1>1, <1>2, <3>1, <3>2
    <3>3. CASE k # j
      BY <1>1, <1>2, <3>1, <3>3 DEF LineInv, Made
    <3> QED BY <3>2, <3>3
  <2>3. consumer' = "process" => held'.n <= made'[held'.job]
    BY <1>1, <1>3, <2>1 DEF LineInv, Made, Result
  <2>4. \A i \in DOMAIN queue' : queue'[i].n <= made'[queue'[i].job]
    BY <1>1, <1>3, <2>1 DEF LineInv, Made, Result
  <2> QED BY <2>2, <2>3, <2>4 DEF Made
<1>5. Ordered'
  <2>1. ASSUME NEW k \in Jobs, worker'[k] = "sending"
        PROVE  /\ done'[k] < pending'[k].n
               /\ consumer' = "process" => Earlier(held', pending'[k])
               /\ \A i \in DOMAIN queue' : Earlier(queue'[i], pending'[k])
    <3>1. CASE k = j
      <4>1. pending'[k].job = j /\ pending'[k].n = made[j] + 1
        BY <1>2, <3>1
      <4>2. done'[k] < pending'[k].n
        <5>1. done[j] <= made[j]
          BY DEF LineInv, Made
        <5> QED BY <1>1, <1>3, <3>1, <4>1, <5>1
      <4>3. consumer' = "process" => Earlier(held', pending'[k])
        BY <1>1, <1>3, <4>1 DEF LineInv, Made, Earlier, Result
      <4>4. \A i \in DOMAIN queue' : Earlier(queue'[i], pending'[k])
        BY <1>1, <1>3, <4>1 DEF LineInv, Made, Earlier, Result
      <4> QED BY <4>2, <4>3, <4>4
    <3>2. CASE k # j
      BY <1>1, <1>2, <2>1, <3>2 DEF LineInv, Ordered, Earlier
    <3> QED BY <3>1, <3>2
  <2> QED BY <1>1, <2>1 DEF LineInv, Ordered, Earlier
<1>6. ASSUME live', NEW k \in Jobs, NEW n \in (done'[k] + 1)..made'[k]
      PROVE  OnItsWay([job |-> k, n |-> n])'
  <2>1. CASE k = j /\ n = made[j] + 1
    BY <1>2, <2>1 DEF OnItsWay
  <2>2. CASE ~(k = j /\ n = made[j] + 1)
    <3>1. n \in (done[k] + 1)..made[k]
      BY <1>1, <1>2, <1>3, <1>6, <2>2
    <3>2. OnItsWay([job |-> k, n |-> n])
      BY <1>1, <1>6, <3>1 DEF LineInv, NoneMissing
    <3> QED BY <1>1, <1>2, <3>2 DEF OnItsWay
  <2> QED BY <2>1, <2>2
<1> QED BY <1>4, <1>5, <1>6 DEF LineInv, NoneMissing

(* It goes to the end of the channel. *)
LEMMA EnqueueLine ==
  ASSUME LineInv, TypeOK', NEW j \in Jobs, Enqueue(j)
  PROVE  LineInv'
<1> DEFINE r == pending[j]
           m == Len(queue) + 1
<1>1. /\ worker[j] = "sending"
      /\ worker' = [worker EXCEPT ![j] = "timer"]
      /\ queue' = Append(queue, r)
      /\ UNCHANGED <<pending, made, consumer, held, done, live>>
  BY DEF Enqueue, Enqueued
<1>2. /\ worker'[j] = "timer" /\ \A k \in Jobs \ {j} : worker'[k] = worker[k]
      /\ queue \in Seq(Result) /\ r \in Result /\ r = [job |-> j, n |-> made[j]]
  BY <1>1 DEF LineInv, TypeOK, Made
<1>3. /\ Len(queue) \in Nat /\ DOMAIN queue = 1..Len(queue) /\ DOMAIN queue' = 1..m
      /\ m \in DOMAIN queue' /\ queue'[m] = r
      /\ \A i \in DOMAIN queue : i \in DOMAIN queue' /\ i # m /\ queue'[i] = queue[i]
      /\ \A i \in DOMAIN queue' : i = m \/ i \in DOMAIN queue
  BY <1>1, <1>2
<1> HIDE DEF m, r
<1>4. Made'
  <2>1. \A i \in DOMAIN queue' : queue'[i].n <= made'[queue'[i].job]
    BY <1>1, <1>2, <1>3 DEF LineInv, Made, TypeOK
  <2> QED BY <1>1, <1>2, <2>1 DEF LineInv, Made
<1>5. Ordered'
  <2>1. /\ done[j] < r.n /\ r.job = j
        /\ consumer = "process" => Earlier(held, r)
        /\ \A i \in DOMAIN queue : Earlier(queue[i], r)
    BY <1>1, <1>2 DEF LineInv, Ordered, r
  <2>2. ASSUME NEW i \in DOMAIN queue'
        PROVE  /\ done'[queue'[i].job] < queue'[i].n
               /\ consumer' = "process" => Earlier(held', queue'[i])
               /\ \A k \in 1..(i - 1) : Earlier(queue'[k], queue'[i])
    <3>1. CASE i = m
      <4>1. \A k \in 1..(i - 1) : k \in DOMAIN queue
        BY <1>3, <3>1 DEF m
      <4> QED BY <1>1, <1>3, <2>1, <3>1, <4>1 DEF Earlier
    <3>2. CASE i \in DOMAIN queue
      <4>1. \A k \in 1..(i - 1) : k \in DOMAIN queue
        BY <1>3, <3>2
      <4> QED BY <1>1, <1>3, <3>2, <4>1 DEF LineInv, Ordered, Earlier
    <3> QED BY <1>3, <3>1, <3>2
  <2>3. ASSUME NEW k \in Jobs, worker'[k] = "sending"
        PROVE  /\ done'[k] < pending'[k].n
               /\ consumer' = "process" => Earlier(held', pending'[k])
               /\ \A i \in DOMAIN queue' : Earlier(queue'[i], pending'[k])
    <3>1. k # j /\ worker[k] = "sending"
      BY <1>2, <2>3
    <3>2. pending[k].job = k
      <4>1. pending[k] = [job |-> k, n |-> made[k]]
        BY <3>1 DEF LineInv, Made
      <4> QED BY <4>1
    <3>3. Earlier(r, pending[k])
      BY <2>1, <3>1, <3>2 DEF Earlier
    <3> QED BY <1>1, <1>3, <3>1, <3>3 DEF LineInv, Ordered, Earlier
  <2> QED BY <1>1, <2>2, <2>3 DEF LineInv, Ordered
<1>6. ASSUME live', NEW k \in Jobs, NEW n \in (done'[k] + 1)..made'[k]
      PROVE  OnItsWay([job |-> k, n |-> n])'
  <2>1. OnItsWay([job |-> k, n |-> n])
    BY <1>1, <1>6 DEF LineInv, NoneMissing
  <2>2. CASE k = j /\ r = [job |-> k, n |-> n]
    BY <1>3, <2>2 DEF OnItsWay
  <2>3. CASE ~(k = j /\ r = [job |-> k, n |-> n])
    BY <1>1, <1>2, <1>3, <2>1, <2>3 DEF OnItsWay, r
  <2> QED BY <2>2, <2>3
<1> QED BY <1>4, <1>5, <1>6 DEF LineInv, NoneMissing

(* After the signal it may be dropped. *)
LEMMA DropLine ==
  ASSUME LineInv, TypeOK', NEW j \in Jobs, Drop(j)
  PROVE  LineInv'
<1>1. /\ ~live' /\ UNCHANGED <<pending, made, queue, consumer, held, done>>
      /\ \A k \in Jobs : worker'[k] = "sending" => worker[k] = "sending"
  BY DEF Drop, LineInv, TypeOK
<1>2. Ordered' /\ Made'
  BY <1>1 DEF LineInv, Ordered, Made, Earlier
<1> QED BY <1>1, <1>2 DEF LineInv, NoneMissing

(* The consumer takes the first. *)
LEMMA DequeueLine ==
  ASSUME LineInv, TypeOK', Dequeue
  PROVE  LineInv'
<1>1. /\ consumer = "select" /\ consumer' = "process" /\ queue # << >>
      /\ held' = Head(queue) /\ queue' = Tail(queue)
      /\ UNCHANGED <<worker, pending, made, done, live>>
  BY DEF Dequeue
<1>2. /\ queue \in Seq(Result) /\ Len(queue) \in Nat /\ DOMAIN queue = 1..Len(queue)
      /\ 1 \in DOMAIN queue /\ held' = queue[1]
      /\ DOMAIN queue' = 1..(Len(queue) - 1)
      /\ \A i \in DOMAIN queue' : i + 1 \in DOMAIN queue /\ queue'[i] = queue[i + 1]
  BY <1>1 DEF LineInv, TypeOK
<1>3. Made'
  BY <1>1, <1>2 DEF LineInv, Made
<1>4. Ordered'
  <2>1. done'[held'.job] < held'.n
    BY <1>1, <1>2 DEF LineInv, Ordered
  <2>2. ASSUME NEW i \in DOMAIN queue'
        PROVE  /\ done'[queue'[i].job] < queue'[i].n
               /\ Earlier(held', queue'[i])
               /\ \A k \in 1..(i - 1) : Earlier(queue'[k], queue'[i])
    <3>1. i + 1 \in DOMAIN queue /\ queue'[i] = queue[i + 1] /\ 1 \in 1..(i + 1 - 1)
      BY <1>2
    <3>2. \A k \in 1..(i - 1) : /\ k \in DOMAIN queue' /\ queue'[k] = queue[k + 1]
                                /\ k + 1 \in 1..(i + 1 - 1)
      BY <1>2
    <3> QED BY <1>1, <1>2, <3>1, <3>2 DEF LineInv, Ordered, Earlier
  <2>3. ASSUME NEW k \in Jobs, worker'[k] = "sending"
        PROVE  /\ done'[k] < pending'[k].n
               /\ Earlier(held', pending'[k])
               /\ \A i \in DOMAIN queue' : Earlier(queue'[i], pending'[k])
    BY <1>1, <1>2, <2>3 DEF LineInv, Ordered, Earlier
  <2> QED BY <2>1, <2>2, <2>3 DEF Ordered
<1>5. ASSUME live', NEW k \in Jobs, NEW n \in (done'[k] + 1)..made'[k]
      PROVE  OnItsWay([job |-> k, n |-> n])'
  <2> DEFINE r == [job |-> k, n |-> n]
  <2>1. OnItsWay(r)
    BY <1>1, <1>5 DEF LineInv, NoneMissing
  <2> HIDE DEF r
  <2>2. CASE \E i \in DOMAIN queue : queue[i] = r
    <3>1. PICK i \in DOMAIN queue : queue[i] = r
      BY <2>2
    <3>2. CASE i = 1
      BY <1>1, <1>2, <3>1, <3>2 DEF OnItsWay, r
    <3>3. CASE i # 1
      <4>1. i - 1 \in DOMAIN queue' /\ queue'[i - 1] = r
        BY <1>2, <3>1, <3>3
      <4> QED BY <4>1 DEF OnItsWay, r
    <3> QED BY <3>2, <3>3
  <2>3. CASE worker[r.job] = "sending" /\ pending[r.job] = r
    BY <1>1, <2>3 DEF OnItsWay, r
  <2> QED BY <1>1, <2>1, <2>2, <2>3 DEF OnItsWay
<1> QED BY <1>3, <1>4, <1>5 DEF LineInv, NoneMissing

(* And is done with it. *)
LEMMA ProcessLine ==
  ASSUME LineInv, TypeOK', Process
  PROVE  LineInv'
<1> DEFINE h == held.job
<1>1. /\ consumer = "process" /\ consumer' = "select"
      /\ done' = [done EXCEPT ![h] = held.n]
      /\ UNCHANGED <<worker, pending, made, queue, live>>
  BY DEF Process, AfterProcess
<1>2. /\ h \in Jobs /\ held.n \in Nat /\ held = [job |-> h, n |-> held.n]
      /\ \A k \in Jobs : done[k] \in Nat /\ made[k] \in Nat
      /\ \A i \in DOMAIN queue : queue[i] \in Result
      /\ done'[h] = held.n /\ \A k \in Jobs \ {h} : done'[k] = done[k]
  <2>1. held \in Result /\ done \in [Jobs -> Nat] /\ made \in [Jobs -> Nat]
        /\ queue \in Seq(Result)
    BY DEF LineInv, TypeOK
  <2>2. h \in Jobs /\ held.n \in Nat /\ held = [job |-> h, n |-> held.n]
    BY <2>1 DEF Result
  <2> HIDE DEF h
  <2> QED BY <1>1, <2>1, <2>2
<1> HIDE DEF h
<1>3. Made'
  BY <1>1, <1>2 DEF LineInv, Made, h
<1>4. Ordered'
  <2>1. ASSUME NEW i \in DOMAIN queue
        PROVE  /\ done'[queue[i].job] < queue[i].n
               /\ \A k \in 1..(i - 1) : Earlier(queue[k], queue[i])
    <3>1. queue[i].job \in Jobs
      BY <1>2 DEF Result
    <3> QED BY <1>1, <1>2, <3>1 DEF LineInv, Ordered, Earlier, h
  <2>2. ASSUME NEW k \in Jobs, worker[k] = "sending"
        PROVE  /\ done'[k] < pending[k].n
               /\ \A i \in DOMAIN queue : Earlier(queue[i], pending[k])
    <3>1. pending[k] = [job |-> k, n |-> made[k]] /\ Earlier(held, pending[k])
          /\ done[k] < pending[k].n
      BY <1>1, <2>2 DEF LineInv, Ordered, Made
    <3>2. done'[k] < pending[k].n
      BY <1>2, <3>1 DEF Earlier, h
    <3> QED BY <2>2, <3>2 DEF LineInv, Ordered
  <2> QED BY <1>1, <2>1, <2>2 DEF Ordered
<1>5. ASSUME live', NEW k \in Jobs, NEW n \in (done'[k] + 1)..made'[k]
      PROVE  OnItsWay([job |-> k, n |-> n])'
  <2>1. n \in (done[k] + 1)..made[k] /\ (k = h => n # held.n)
    BY <1>1, <1>2, <1>5 DEF LineInv, Ordered, h
  <2>2. OnItsWay([job |-> k, n |-> n])
    BY <1>1, <1>5, <2>1 DEF LineInv, NoneMissing
  <2>3. held # [job |-> k, n |-> n]
    BY <2>1 DEF h
  <2> QED BY <1>1, <2>2, <2>3 DEF OnItsWay
<1> QED BY <1>3, <1>4, <1>5 DEF LineInv, NoneMissing

LEMMA NextLine == IInv /\ LineInv /\ TypeOK' /\ [Next]_vars => LineInv'
<1> SUFFICES ASSUME IInv, LineInv, TypeOK', [Next]_vars PROVE LineInv'
  OBVIOUS
<1>1. CASE \E j \in Jobs : StartWorker(j) \/ Fire(j) \/ ExitWorker(j)
  BY <1>1, QuietLine DEF StartWorker, Fire, ExitWorker, LineInv, TypeOK
<1>2. CASE StartConsumer \/ SeeCancelled \/ Return \/ ExitConsumer \/ Cancel
  <2>1. UNCHANGED <<worker, pending, made, queue, held, done>>
    BY <1>2 DEF StartConsumer, SeeCancelled, Return, ExitConsumer, Cancel
  <2>2. live' => live
    BY Zenon, <1>2 DEF StartConsumer, SeeCancelled, Return, ExitConsumer, Cancel
  <2>3. consumer' = "process" <=> consumer = "process"
    BY <1>2 DEF StartConsumer, SeeCancelled, Return, ExitConsumer, Cancel, IInv, Phases
  <2> QED BY <2>1, <2>2, <2>3, QuietLine
<1>3. CASE UNCHANGED vars
  BY <1>3, QuietLine DEF vars
<1> QED BY <1>1, <1>2, <1>3, CheckReturnsLine, EnqueueLine, DropLine, DequeueLine, ProcessLine
        DEF Next

LEMMA LineInvariance == Spec => []LineInv
<1>1. IInv => TypeOK
  BY DEF IInv
<1> QED BY <1>1, InitLine, NextLine, Invariance, PTL DEF Spec

(* No result is lost before the signal, and none is ever doubled or        *)
(* overtaken, for any capacity of the channel and any number of workers.   *)
THEOREM ResultsKept == Spec => []NothingLost
<1>1. LineInv => NothingLost
  BY DEF LineInv, NoneMissing, NothingLost
<1> QED BY <1>1, LineInvariance, PTL

(* A job's results are processed in the order they were made in, also      *)
(* after the signal.                                                       *)
THEOREM ProcessedInOrder == Spec => InOrder
<1>1. LineInv /\ [Next]_vars => [\A j \in Jobs : done'[j] # done[j] => done'[j] > done[j]]_vars
  <2> SUFFICES ASSUME LineInv, Next, NEW j \in Jobs, done'[j] # done[j]
               PROVE  done'[j] > done[j]
    OBVIOUS
  <2>1. Process
    BY DEF Next, StartConsumer, SeeCancelled, Return, StartWorker, Fire, CheckReturns,
           Enqueue, Drop, ExitWorker, Dequeue, ExitConsumer, Cancel
  <2>2. held.job \in Jobs /\ done \in [Jobs -> Nat] /\ held.n \in Nat
        /\ done[held.job] < held.n
    BY <2>1 DEF LineInv, TypeOK, Ordered, Process, Result
  <2> QED BY <2>1, <2>2 DEF Process
<1> QED BY <1>1, LineInvariance, PTL DEF Spec, InOrder
-----------------------------------------------------------------------------
(* Where the signal shows: Run waits for the goroutines only after it, and *)
(* the goroutines end only after it.                                       *)
Signalled == /\ run \in {"joining", "returned"} => ~live
             /\ consumer = "exited" => ~live
             /\ live => \A j \in Jobs : worker[j] # "exited"

LEMMA SignalledInvariance == Spec => []Signalled
<1>1. Init => Signalled
  BY DEF Init, Signalled
<1>2. IInv /\ Signalled /\ [Next]_vars => Signalled'
  <2> SUFFICES ASSUME IInv, Signalled, [Next]_vars PROVE Signalled'
    OBVIOUS
  <2>1. CASE StartConsumer
    BY <2>1, Zenon DEF StartConsumer, Signalled
  <2>2. CASE SeeCancelled \/ ExitConsumer \/ Cancel
    BY <2>2 DEF SeeCancelled, ExitConsumer, Cancel, Signalled
  <2>3. CASE Dequeue \/ Process
    BY <2>3 DEF Dequeue, Process, AfterProcess, Signalled
  <2>4. CASE Return
    BY <2>4 DEF Return, Signalled
  <2>5. CASE \/ \E j \in Jobs : \/ StartWorker(j) \/ Fire(j) \/ CheckReturns(j)
                                \/ Enqueue(j) \/ Drop(j) \/ ExitWorker(j)
             \/ UNCHANGED vars
    <3>1. UNCHANGED <<run, consumer, live>>
      BY <2>5 DEF StartWorker, Fire, CheckReturns, Enqueue, Drop, ExitWorker, vars
    <3>2. ASSUME live, NEW j \in Jobs PROVE worker'[j] # "exited"
      BY <2>5, <3>2 DEF StartWorker, Fire, CheckReturns, Enqueue, Drop, ExitWorker, vars,
                        Signalled, IInv, TypeOK
    <3> QED BY <3>1, <3>2, Zenon DEF Signalled
  <2> QED BY <2>1, <2>2, <2>3, <2>4, <2>5 DEF Next
<1> QED BY <1>1, <1>2, Invariance, PTL DEF Spec

(* No state of the scheduler is a deadlock, for any number of jobs and any *)
(* capacity of the channel: the workers, the consumer and Run do not wait  *)
(* for each other in a circle (scheduler.go:83, 121, 129).                 *)
THEOREM NobodyWaitsForAll == Spec => []SomebodyGoesOn
<1>1. IInv /\ Signalled => SomebodyGoesOn
  <2> SUFFICES ASSUME IInv, Signalled, run \in {"waiting", "joining"},
                      consumer # "process",
                      \A j \in Jobs : worker[j] # "checking"
               PROVE  \/ consumer = "select" /\ (queue # << >> \/ ~live)
                      \/ \E j \in Jobs : \/ worker[j] = "sending" /\ (HasRoom \/ ~live)
                                         \/ worker[j] = "timer" /\ ~live
                      \/ ~live /\ (run = "waiting" \/ (run = "joining" /\ wg = 0))
                      \/ live /\ \A j \in Jobs : worker[j] = "timer"
    BY DEF IInv, TypeOK, SomebodyGoesOn
  <2>1. consumer \in {"select", "exited"} /\ \A j \in Jobs : worker[j] \in {"timer", "sending", "exited"}
    BY DEF IInv, TypeOK, Phases
  <2>2. CASE live
    <3>1. consumer = "select"
      BY <2>1, <2>2 DEF Signalled
    <3>2. CASE queue = << >>
      <4>1. HasRoom
        BY <3>2, CapAssumption DEF HasRoom
      <4> QED BY <2>1, <2>2, <4>1 DEF Signalled
    <3> QED BY <3>1, <3>2
  <2>3. CASE ~live
    <3>1. CASE run = "joining" /\ consumer # "select"
      <4>1. ConsumerAlive = 0
        BY <2>1, <3>1 DEF ConsumerAlive
      <4>2. CASE Alive = {}
        BY <2>3, <3>1, <4>1, <4>2, AliveIsFinite DEF IInv, WgCounts
      <4>3. CASE Alive # {}
        BY <2>1, <2>3, <4>3 DEF Alive
      <4> QED BY <4>2, <4>3
    <3> QED BY <2>3, <3>1
  <2> QED BY <2>2, <2>3
<1> QED BY <1>1, Invariance, SignalledInvariance, PTL

-----------------------------------------------------------------------------
(* How a step changes what is on its way.                                  *)
LEMMA OnItsWayIsMade ==
  ASSUME LineInv, NEW j \in Jobs, NEW n \in Nat, OnItsWay([job |-> j, n |-> n])
  PROVE  n <= made[j] /\ done[j] < n
<1> DEFINE r == [job |-> j, n |-> n]
<1>1. r.job = j /\ r.n = n
  OBVIOUS
<1> HIDE DEF r
<1>2. CASE consumer = "process" /\ held = r
  BY <1>1, <1>2 DEF LineInv, Made, Ordered
<1>3. CASE \E i \in DOMAIN queue : queue[i] = r
  BY <1>1, <1>3 DEF LineInv, Made, Ordered
<1>4. CASE worker[j] = "sending" /\ pending[j] = r
  <2>1. pending[j].n = made[j]
    <3>1. pending[j] = [job |-> j, n |-> made[j]]
      BY <1>4 DEF LineInv, Made
    <3> QED BY <3>1
  <2>2. done[j] < pending[j].n
    BY <1>4 DEF LineInv, Ordered
  <2>3. made[j] \in Nat
    BY DEF LineInv, TypeOK
  <2> QED BY <1>1, <1>4, <2>1, <2>2, <2>3
<1> QED BY <1>1, <1>2, <1>3, <1>4 DEF OnItsWay, r

(* A check that returns adds its result.                                   *)
LEMMA CheckReturnsWay ==
  ASSUME LineInv, NEW j \in Jobs, CheckReturns(j), NEW k \in Jobs, NEW n \in Nat
  PROVE  OnItsWay([job |-> k, n |-> n])' <=>
            OnItsWay([job |-> k, n |-> n]) \/ (k = j /\ n = made[j] + 1)
<1>1. /\ worker[j] = "checking" /\ worker'[j] = "sending"
      /\ pending'[j] = [job |-> j, n |-> made[j] + 1]
      /\ \A i \in Jobs \ {j} : worker'[i] = worker[i] /\ pending'[i] = pending[i]
      /\ UNCHANGED <<queue, consumer, held>>
  BY DEF CheckReturns, LineInv, TypeOK
<1>2. [job |-> k, n |-> n].job = k
  OBVIOUS
<1>3. CASE k = j
  BY <1>1, <1>2, <1>3 DEF OnItsWay
<1>4. CASE k # j
  BY <1>1, <1>2, <1>4 DEF OnItsWay
<1> QED BY <1>3, <1>4

(* A worker that gives up loses its own, which is nowhere else.            *)
LEMMA DropWay ==
  ASSUME LineInv, NEW j \in Jobs, Drop(j), NEW k \in Jobs, NEW n \in Nat
  PROVE  OnItsWay([job |-> k, n |-> n])' <=>
            OnItsWay([job |-> k, n |-> n]) /\ ~(k = j /\ n = made[j])
<1> DEFINE r == [job |-> k, n |-> n]
<1>1. /\ worker[j] = "sending" /\ worker'[j] = "timer"
      /\ \A i \in Jobs \ {j} : worker'[i] = worker[i]
      /\ UNCHANGED <<queue, consumer, held, pending>>
  BY DEF Drop, LineInv, TypeOK
<1>2. pending[j] = [job |-> j, n |-> made[j]] /\ made[j] \in Nat
  BY <1>1 DEF LineInv, Made, TypeOK
<1>3. r.job = k /\ r.n = n
  OBVIOUS
<1>4. ASSUME k = j, n = made[j] PROVE r = pending[j]
  BY <1>2, <1>4
<1> HIDE DEF r
<1>5. CASE k = j /\ n = made[j]
  <2>1. ~(consumer = "process" /\ held = r)
    BY <1>1, <1>2, <1>3, <1>4, <1>5 DEF LineInv, Ordered, Earlier
  <2>2. ~\E i \in DOMAIN queue : queue[i] = r
    BY <1>1, <1>2, <1>3, <1>4, <1>5 DEF LineInv, Ordered, Earlier
  <2> QED BY <1>1, <1>3, <1>5, <2>1, <2>2 DEF OnItsWay, r
<1>6. CASE k = j /\ n # made[j]
  <2>1. pending[j] # r
    BY <1>2, <1>3, <1>6
  <2> QED BY <1>1, <1>3, <1>6, <2>1 DEF OnItsWay, r
<1>7. CASE k # j
  BY <1>1, <1>3, <1>7 DEF OnItsWay, r
<1> QED BY <1>5, <1>6, <1>7

(* A result that enters or leaves the channel is on its way before and     *)
(* after.                                                                  *)
LEMMA EnqueueWay ==
  ASSUME LineInv, NEW j \in Jobs, Enqueue(j), NEW k \in Jobs, NEW n \in Nat
  PROVE  OnItsWay([job |-> k, n |-> n])' <=> OnItsWay([job |-> k, n |-> n])
<1> DEFINE r == [job |-> k, n |-> n]
<1>1. /\ worker[j] = "sending" /\ worker'[j] = "timer"
      /\ \A i \in Jobs \ {j} : worker'[i] = worker[i]
      /\ UNCHANGED <<consumer, held, pending>>
      /\ queue' = Append(queue, pending[j])
  BY DEF Enqueue, Enqueued, LineInv, TypeOK
<1>2. pending[j].job = j /\ pending[j] \in Result
  <2>1. pending[j] = [job |-> j, n |-> made[j]]
    BY <1>1 DEF LineInv, Made
  <2> QED BY <2>1 DEF LineInv, TypeOK
<1>3. r.job = k
  OBVIOUS
<1> HIDE DEF r
<1>4. (\E i \in DOMAIN queue' : queue'[i] = r) <=>
         (\E i \in DOMAIN queue : queue[i] = r) \/ pending[j] = r
  <2>1. queue \in Seq(Result) /\ Len(queue) \in Nat
    BY DEF LineInv, TypeOK
  <2>2. /\ DOMAIN queue' = 1..(Len(queue) + 1) /\ DOMAIN queue = 1..Len(queue)
        /\ queue'[Len(queue) + 1] = pending[j]
        /\ \A i \in DOMAIN queue : queue'[i] = queue[i]
    BY <1>1, <1>2, <2>1
  <2>3. DOMAIN queue' = DOMAIN queue \cup {Len(queue) + 1}
    BY <2>1, <2>2
  <2> QED BY <2>2, <2>3
<1>5. CASE k = j
  BY <1>1, <1>3, <1>4, <1>5 DEF OnItsWay, r
<1>6. CASE k # j
  BY <1>1, <1>2, <1>3, <1>4, <1>6 DEF OnItsWay, r
<1> QED BY <1>5, <1>6

LEMMA DequeueWay ==
  ASSUME LineInv, Dequeue, NEW k \in Jobs, NEW n \in Nat
  PROVE  OnItsWay([job |-> k, n |-> n])' <=> OnItsWay([job |-> k, n |-> n])
<1> DEFINE r == [job |-> k, n |-> n]
<1> HIDE DEF r
<1>1. /\ consumer = "select" /\ consumer' = "process"
      /\ held' = Head(queue) /\ queue' = Tail(queue)
      /\ UNCHANGED <<worker, pending>>
      /\ queue \in Seq(Result) /\ queue # << >>
  BY DEF Dequeue, LineInv, TypeOK
<1>2. /\ Len(queue) \in Nat /\ DOMAIN queue = 1..Len(queue) /\ 1 \in DOMAIN queue
      /\ DOMAIN queue' = 1..(Len(queue) - 1)
      /\ held' = queue[1]
      /\ \A i \in DOMAIN queue' : i + 1 \in DOMAIN queue /\ queue'[i] = queue[i + 1]
      /\ \A i \in DOMAIN queue \ {1} : i - 1 \in DOMAIN queue' /\ queue'[i - 1] = queue[i]
  BY <1>1
<1>3. (\E i \in DOMAIN queue : queue[i] = r) <=>
         held' = r \/ \E i \in DOMAIN queue' : queue'[i] = r
  BY <1>2
<1> QED BY <1>1, <1>3 DEF OnItsWay, r

(* The consumer is done with the result it holds, which is nowhere else.   *)
LEMMA ProcessWay ==
  ASSUME LineInv, Process, NEW k \in Jobs, NEW n \in Nat
  PROVE  OnItsWay([job |-> k, n |-> n])' <=>
            OnItsWay([job |-> k, n |-> n]) /\ [job |-> k, n |-> n] # held
<1> DEFINE r == [job |-> k, n |-> n]
<1>1. /\ consumer = "process" /\ consumer' = "select"
      /\ UNCHANGED <<worker, pending, queue>>
      /\ held \in Result
  BY DEF Process, AfterProcess, LineInv, TypeOK
<1>2. r.job = k
  OBVIOUS
<1> HIDE DEF r
<1>3. ASSUME NEW i \in DOMAIN queue PROVE queue[i] # held
  BY <1>1, <1>3 DEF LineInv, Ordered, Earlier, Result
<1>4. ASSUME worker[k] = "sending" PROVE pending[k] # held
  BY <1>1, <1>4 DEF LineInv, Ordered, Earlier, Result
<1> QED BY <1>1, <1>2, <1>3, <1>4 DEF OnItsWay, r

(* Nobody who could make or process a result is left when Run returns.     *)
LEMMA NotOver ==
  ASSUME IInv, consumer = "process" \/ \E j \in Jobs : worker[j] \in {"checking", "sending"}
  PROVE  run # "returned"
<1>1. Alive # {} \/ ConsumerAlive = 1
  BY DEF Alive, ConsumerAlive
<1>2. /\ ConsumerAlive \in {0, 1}
      /\ Cardinality(Alive) \in Nat /\ (Cardinality(Alive) = 0 => Alive = {})
  BY AliveIsFinite DEF ConsumerAlive
<1>3. wg # 0
  BY <1>1, <1>2 DEF IInv, WgCounts
<1> QED BY <1>3 DEF IInv, Phases

-----------------------------------------------------------------------------
(* The refinement, step by step.                                           *)
WaitingNow == [j \in Jobs |-> Waiting(j)]

Unnoticed == UNCHANGED <<made, WaitingNow, done, live, run = "returned">>

LEMMA SameWaiting ==
  ASSUME LineInv, UNCHANGED made,
         \A j \in Jobs, n \in Nat :
            OnItsWay([job |-> j, n |-> n])' <=> OnItsWay([job |-> j, n |-> n])
  PROVE  UNCHANGED WaitingNow
<1>1. ASSUME NEW j \in Jobs PROVE Waiting(j)' = Waiting(j)
  BY <1>1 DEF Waiting, LineInv, TypeOK
<1> QED BY <1>1 DEF WaitingNow

LEMMA QuietRefines ==
  ASSUME LineInv, IInv,
         \/ StartConsumer \/ SeeCancelled \/ ExitConsumer \/ Dequeue
         \/ \E j \in Jobs : StartWorker(j) \/ Fire(j) \/ Enqueue(j) \/ ExitWorker(j)
         \/ UNCHANGED vars
  PROVE  Unnoticed
<1>1. UNCHANGED <<made, done, live>> /\ (run = "returned")' = (run = "returned")
  BY Zenon DEF StartConsumer, SeeCancelled, ExitConsumer, Dequeue, StartWorker, Fire, Enqueue,
         ExitWorker, vars
<1>2. ASSUME NEW k \in Jobs, NEW n \in Nat
      PROVE  OnItsWay([job |-> k, n |-> n])' <=> OnItsWay([job |-> k, n |-> n])
  <2>1. CASE Dequeue
    BY <2>1, DequeueWay
  <2>2. CASE \E j \in Jobs : Enqueue(j)
    BY <2>2, EnqueueWay
  <2>3. CASE StartConsumer \/ SeeCancelled \/ ExitConsumer \/ UNCHANGED vars
    <3>1. UNCHANGED <<worker, pending, held, queue>>
      BY <2>3 DEF StartConsumer, SeeCancelled, ExitConsumer, vars
    <3>2. consumer' = "process" <=> consumer = "process"
      BY <2>3 DEF StartConsumer, SeeCancelled, ExitConsumer, vars, IInv, Phases
    <3> QED BY <3>1, <3>2 DEF OnItsWay
  <2>4. CASE \E j \in Jobs : StartWorker(j) \/ Fire(j) \/ ExitWorker(j)
    <3>1. UNCHANGED <<consumer, pending, held, queue>>
      BY <2>4 DEF StartWorker, Fire, ExitWorker
    <3>2. worker'[k] = "sending" <=> worker[k] = "sending"
      BY <2>4 DEF StartWorker, Fire, ExitWorker, IInv, TypeOK
    <3>3. [job |-> k, n |-> n].job = k
      OBVIOUS
    <3> QED BY <3>1, <3>2, <3>3 DEF OnItsWay
  <2> QED BY <2>1, <2>2, <2>3, <2>4
<1>3. UNCHANGED WaitingNow
  BY <1>1, <1>2, SameWaiting
<1> QED BY <1>1, <1>3 DEF Unnoticed

LEMMA CheckReturnsRefines ==
  ASSUME LineInv, IInv, NEW j \in Jobs, CheckReturns(j)
  PROVE  Flow!Make(j)
<1>1. /\ run # "returned" /\ run' = run /\ UNCHANGED <<done, live>>
      /\ made' = [made EXCEPT ![j] = made[j] + 1]
      /\ made \in [Jobs -> Nat]
  BY NotOver DEF CheckReturns, IInv, TypeOK
<1>2. ASSUME NEW k \in Jobs
      PROVE  Waiting(k)' = IF k = j THEN Waiting(k) \cup {made[j] + 1} ELSE Waiting(k)
  <2>1. \A n \in Nat : OnItsWay([job |-> k, n |-> n])' <=>
                           OnItsWay([job |-> k, n |-> n]) \/ (k = j /\ n = made[j] + 1)
    BY CheckReturnsWay
  <2>2. \A n \in Nat : OnItsWay([job |-> k, n |-> n]) => n <= made[k]
    BY OnItsWayIsMade
  <2>3. CASE k = j
    BY <1>1, <2>1, <2>2, <2>3 DEF Waiting
  <2>4. CASE k # j
    BY <1>1, <2>1, <2>4 DEF Waiting
  <2> QED BY <2>3, <2>4
<1>3. WaitingNow' = [WaitingNow EXCEPT ![j] = WaitingNow[j] \cup {made[j] + 1}]
  BY <1>2 DEF WaitingNow
<1> QED BY <1>1, <1>3 DEF Flow!Make, WaitingNow

LEMMA DropRefines ==
  ASSUME LineInv, IInv, NEW j \in Jobs, Drop(j)
  PROVE  Flow!Lose(j)
<1>1. /\ run # "returned" /\ run' = run /\ UNCHANGED <<done, live, made>> /\ ~live
      /\ made \in [Jobs -> Nat] /\ worker[j] = "sending"
  BY NotOver DEF Drop, IInv, TypeOK
<1>2. made[j] \in Waiting(j)
  <2>1. pending[j] = [job |-> j, n |-> made[j]] /\ done[j] < pending[j].n /\ done[j] \in Nat
    BY <1>1 DEF LineInv, Made, Ordered, TypeOK
  <2>2. OnItsWay([job |-> j, n |-> made[j]])
    BY <1>1, <2>1 DEF OnItsWay
  <2> QED BY <1>1, <2>1, <2>2 DEF Waiting
<1>3. ASSUME NEW k \in Jobs
      PROVE  Waiting(k)' = IF k = j THEN Waiting(k) \ {made[j]} ELSE Waiting(k)
  <2>1. \A n \in Nat : OnItsWay([job |-> k, n |-> n])' <=>
                           OnItsWay([job |-> k, n |-> n]) /\ ~(k = j /\ n = made[j])
    BY DropWay
  <2>2. CASE k = j
    BY <1>1, <2>1, <2>2 DEF Waiting
  <2>3. CASE k # j
    BY <1>1, <2>1, <2>3 DEF Waiting
  <2> QED BY <2>2, <2>3
<1>4. WaitingNow' = [WaitingNow EXCEPT ![j] = WaitingNow[j] \ {made[j]}]
  BY <1>3 DEF WaitingNow
<1>5. made[j] \in WaitingNow[j]
  BY <1>2 DEF WaitingNow
<1> QED BY <1>1, <1>4, <1>5 DEF Flow!Lose, WaitingNow

LEMMA ProcessRefines ==
  ASSUME LineInv, IInv, Process
  PROVE  \E j \in Jobs : Flow!Finish(j)
<1> DEFINE j == held.job
<1>1. /\ run # "returned" /\ run' = run /\ UNCHANGED <<live, made>>
      /\ done' = [done EXCEPT ![j] = held.n]
      /\ made \in [Jobs -> Nat] /\ consumer = "process"
  BY NotOver DEF Process, IInv, TypeOK
<1>2. j \in Jobs /\ held.n \in Nat /\ held = [job |-> j, n |-> held.n]
      /\ done[j] < held.n /\ held.n <= made[j] /\ done[j] \in Nat
  BY <1>1 DEF LineInv, TypeOK, Ordered, Made, Result
<1> HIDE DEF j
<1>3. held.n \in Waiting(j)
  BY <1>1, <1>2 DEF Waiting, OnItsWay
<1>4. ASSUME NEW n \in Waiting(j) PROVE held.n <= n
  <2>1. n \in Nat /\ OnItsWay([job |-> j, n |-> n])
    BY <1>1, <1>2, <1>4 DEF Waiting
  <2> DEFINE r == [job |-> j, n |-> n]
  <2>2. r.job = j /\ r.n = n
    OBVIOUS
  <2> HIDE DEF r
  <2>3. CASE held = r
    BY <1>2, <2>1, <2>2, <2>3
  <2>4. CASE \E i \in DOMAIN queue : queue[i] = r
    BY <1>1, <1>2, <2>1, <2>2, <2>4 DEF LineInv, Ordered, Earlier, j
  <2>5. CASE worker[j] = "sending" /\ pending[j] = r
    BY <1>1, <1>2, <2>1, <2>2, <2>5 DEF LineInv, Ordered, Earlier, j
  <2> QED BY <2>1, <2>2, <2>3, <2>4, <2>5 DEF OnItsWay, r
<1>5. ASSUME NEW k \in Jobs
      PROVE  Waiting(k)' = IF k = j THEN Waiting(k) \ {held.n} ELSE Waiting(k)
  <2>1. \A n \in Nat : OnItsWay([job |-> k, n |-> n])' <=>
                           OnItsWay([job |-> k, n |-> n]) /\ [job |-> k, n |-> n] # held
    BY ProcessWay
  <2>2. \A n \in Nat : [job |-> k, n |-> n] = held <=> k = j /\ n = held.n
    BY <1>2
  <2>3. CASE k = j
    BY <1>1, <2>1, <2>2, <2>3 DEF Waiting
  <2>4. CASE k # j
    BY <1>1, <2>1, <2>2, <2>4 DEF Waiting
  <2> QED BY <2>3, <2>4
<1>6. WaitingNow' = [WaitingNow EXCEPT ![j] = WaitingNow[j] \ {held.n}]
  BY <1>2, <1>5 DEF WaitingNow
<1>7. held.n \in WaitingNow[j] /\ \A m \in WaitingNow[j] : held.n <= m
  BY <1>2, <1>3, <1>4 DEF WaitingNow
<1> QED BY <1>1, <1>2, <1>6, <1>7 DEF Flow!Finish, WaitingNow

(* The scheduler implements Pipeline: whatever the capacity of the channel *)
(* and however its goroutines interleave, the results of each job are a    *)
(* queue that loses nothing before the signal (scheduler.go:109-139), and  *)
(* nothing happens to them once Run has returned (scheduler.go:46).        *)
THEOREM Refinement == Spec => ImplementsPipeline
<1>1. Init => Flow!Init
  <2> SUFFICES ASSUME Init PROVE Flow!Init
    OBVIOUS
  <2>1. \A j \in Jobs : Waiting(j) = {}
    BY DEF Init, Waiting
  <2> QED BY <2>1 DEF Init, Flow!Init
<1>2. IInv /\ LineInv /\ Signalled /\ [Next]_vars => [Flow!Next]_(Flow!vars)
  <2> SUFFICES ASSUME IInv, LineInv, Signalled, [Next]_vars
               PROVE  [Flow!Next]_(Flow!vars)
    OBVIOUS
  <2>1. CASE \/ StartConsumer \/ SeeCancelled \/ ExitConsumer \/ Dequeue
             \/ \E j \in Jobs : StartWorker(j) \/ Fire(j) \/ Enqueue(j) \/ ExitWorker(j)
             \/ UNCHANGED vars
    BY <2>1, QuietRefines DEF Unnoticed, Flow!vars, WaitingNow
  <2>2. CASE \E j \in Jobs : CheckReturns(j)
    BY <2>2, CheckReturnsRefines DEF Flow!Next
  <2>3. CASE \E j \in Jobs : Drop(j)
    BY <2>3, DropRefines DEF Flow!Next
  <2>4. CASE Process
    BY <2>4, ProcessRefines DEF Flow!Next
  <2>5. CASE Return \/ Cancel
    <3>1. UNCHANGED <<made, done, worker, pending, queue, consumer, held>>
      BY <2>5 DEF Return, Cancel
    <3>2. UNCHANGED WaitingNow
      BY <3>1, SameWaiting DEF OnItsWay
    <3>3. Flow!End \/ Flow!Signal
      BY <2>5, <3>1, <3>2 DEF Return, Cancel, Signalled, Flow!End, Flow!Signal, WaitingNow
    <3> QED BY <3>3 DEF Flow!Next
  <2> QED BY <2>1, <2>2, <2>3, <2>4, <2>5 DEF Next
<1> QED BY <1>1, <1>2, Invariance, LineInvariance, SignalledInvariance, PTL
        DEF Spec, ImplementsPipeline, Flow!Spec
=============================================================================
