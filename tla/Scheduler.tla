----------------------------- MODULE Scheduler -----------------------------
(***************************************************************************)
(* The goroutines of internal/scheduler: Run starts one worker per job (a  *)
(* site and a check type) and one consumer, all sharing a bounded channel  *)
(* of results, then waits for the context and for its WaitGroup.           *)
(*                                                                         *)
(* A select with several ready cases takes any of them, so after the       *)
(* signal a worker may still fire, still check and still enqueue, and the  *)
(* consumer may still process: only the end of each goroutine is certain.  *)
(***************************************************************************)
EXTENDS Naturals, Sequences, FiniteSets

CONSTANTS Jobs,        \* the checks to run
          Cap,         \* capacity of the channel
          MaxChecks    \* bound on the checks of one job

(* Validate rejects a configuration without sites, and each has a job.     *)
ASSUME JobsAssumption == IsFiniteSet(Jobs) /\ Jobs # {}
ASSUME CapAssumption  == Cap \in Nat \ {0}

VARIABLES
  worker,     \* per job: "new" before its goroutine is started, then "timer",
              \* "checking", "sending" and at last "exited"
  pending,    \* per job: the result its worker holds while sending
  made,       \* per job: results its checks have returned
  queue,      \* the channel
  consumer,   \* "new", "select", "process" or "exited"
  held,       \* the result the consumer is processing
  done,       \* per job: number of the last result processed
  wg,         \* counter of the WaitGroup
  run,        \* Run itself: "starting", "waiting", "joining" or "returned"
  live        \* the context is not cancelled

vars == <<worker, pending, made, queue, consumer, held, done, wg, run, live>>

(* A result is known by its job and its number among the job's results.    *)
Result == [job : Jobs, n : Nat]

NoResult == [job |-> CHOOSE j \in Jobs : TRUE, n |-> 0]

Init == /\ worker   = [j \in Jobs |-> "new"]
        /\ pending  = [j \in Jobs |-> [job |-> j, n |-> 0]]
        /\ made     = [j \in Jobs |-> 0]
        /\ queue    = << >>
        /\ consumer = "new"
        /\ held     = NoResult
        /\ done     = [j \in Jobs |-> 0]
        /\ wg       = 0
        /\ run      = "starting"
        /\ live     = TRUE

-----------------------------------------------------------------------------
(* Variants of definitions below, each with a mistake one could make:      *)
(* wg.Add left out for a goroutine; a send without ctx; a full channel     *)
(* that drops its oldest result; a consumer that ends after a result.      *)
CounterAfterStart_notCounted == IF wg = 0 THEN wg + 1 ELSE wg

Drop_never(j) == FALSE /\ UNCHANGED <<worker[j], vars>>

Enqueued_dropsOldest(r) == IF Len(queue) + 1 < Cap THEN Append(queue, r)
                                                   ELSE Append(Tail(queue), r)

AfterProcess_ends == consumer' = "exited" /\ wg' = wg - 1

-----------------------------------------------------------------------------
(* Run: one worker per job, then the consumer, each counted before it is   *)
(* started; then ctx.Done and wg.Wait.                                     *)
CounterAfterStart == wg + 1

StartWorker(j) ==
  /\ run = "starting"
  /\ worker[j] = "new"
  /\ worker' = [worker EXCEPT ![j] = "timer"]
  /\ wg'     = CounterAfterStart
  /\ UNCHANGED <<pending, made, queue, consumer, held, done, run, live>>

StartConsumer ==
  /\ run = "starting"
  /\ \A j \in Jobs : worker[j] # "new"
  /\ consumer' = "select"
  /\ wg'       = CounterAfterStart
  /\ run'      = "waiting"
  /\ UNCHANGED <<worker, pending, made, queue, held, done, live>>

SeeCancelled ==
  /\ run = "waiting"
  /\ ~live
  /\ run' = "joining"
  /\ UNCHANGED <<worker, pending, made, queue, consumer, held, done, wg, live>>

Return ==
  /\ run = "joining"
  /\ wg = 0
  /\ run' = "returned"
  /\ UNCHANGED <<worker, pending, made, queue, consumer, held, done, wg, live>>

-----------------------------------------------------------------------------
(* runWorker and runOne.  The timer holds the initial jitter the first     *)
(* time and the interval, counted from the end of a check, afterwards.     *)
Fire(j) ==
  /\ worker[j] = "timer"
  /\ made[j] < MaxChecks
  /\ worker' = [worker EXCEPT ![j] = "checking"]
  /\ UNCHANGED <<pending, made, queue, consumer, held, done, wg, run, live>>

CheckReturns(j) ==
  /\ worker[j] = "checking"
  /\ worker'  = [worker EXCEPT ![j] = "sending"]
  /\ made'    = [made EXCEPT ![j] = @ + 1]
  /\ pending' = [pending EXCEPT ![j] = [job |-> j, n |-> made[j] + 1]]
  /\ UNCHANGED <<queue, consumer, held, done, wg, run, live>>

HasRoom     == Len(queue) < Cap
Enqueued(r) == Append(queue, r)

Enqueue(j) ==
  /\ worker[j] = "sending"
  /\ HasRoom
  /\ queue'  = Enqueued(pending[j])
  /\ worker' = [worker EXCEPT ![j] = "timer"]
  /\ UNCHANGED <<pending, made, consumer, held, done, wg, run, live>>

Drop(j) ==
  /\ worker[j] = "sending"
  /\ ~live
  /\ worker' = [worker EXCEPT ![j] = "timer"]
  /\ UNCHANGED <<pending, made, queue, consumer, held, done, wg, run, live>>

ExitWorker(j) ==
  /\ worker[j] = "timer"
  /\ ~live
  /\ worker' = [worker EXCEPT ![j] = "exited"]
  /\ wg'     = wg - 1
  /\ UNCHANGED <<pending, made, queue, consumer, held, done, run, live>>

-----------------------------------------------------------------------------
(* consume.  What process does with a result is UptimeMonitor's subject.   *)
Dequeue ==
  /\ consumer = "select"
  /\ queue # << >>
  /\ held'     = Head(queue)
  /\ queue'    = Tail(queue)
  /\ consumer' = "process"
  /\ UNCHANGED <<worker, pending, made, done, wg, run, live>>

AfterProcess == consumer' = "select" /\ UNCHANGED wg

Process ==
  /\ consumer = "process"
  /\ done' = [done EXCEPT ![held.job] = held.n]
  /\ AfterProcess
  /\ UNCHANGED <<worker, pending, made, queue, held, run, live>>

ExitConsumer ==
  /\ consumer = "select"
  /\ ~live
  /\ consumer' = "exited"
  /\ wg'       = wg - 1
  /\ UNCHANGED <<worker, pending, made, queue, held, done, run, live>>

(* SIGINT, SIGTERM, or a health server that could not listen. *)
Cancel ==
  /\ live
  /\ live' = FALSE
  /\ UNCHANGED <<worker, pending, made, queue, consumer, held, done, wg, run>>

Next == \/ StartConsumer \/ SeeCancelled \/ Return
        \/ \E j \in Jobs : \/ StartWorker(j) \/ Fire(j) \/ CheckReturns(j)
                           \/ Enqueue(j) \/ Drop(j) \/ ExitWorker(j)
        \/ Dequeue \/ Process \/ ExitConsumer
        \/ Cancel

(* Goroutines run, timers fire and checks return (they have timeouts).     *)
(* Two choices need more than weak fairness.  A blocked sender waits in    *)
(* the channel's FIFO queue, so it is served although room comes and goes. *)
(* A select picks among ready cases at random, so one that is ready again  *)
(* and again, as ctx.Done is, is taken at last.                            *)
Fairness ==
  /\ WF_vars(StartConsumer) /\ WF_vars(SeeCancelled) /\ WF_vars(Return)
  /\ \A j \in Jobs : /\ WF_vars(StartWorker(j)) /\ WF_vars(CheckReturns(j))
                     /\ SF_vars(Enqueue(j))     /\ WF_vars(Enqueue(j) \/ Drop(j))
                     /\ SF_vars(ExitWorker(j))
  /\ WF_vars(Dequeue) /\ WF_vars(Process) /\ SF_vars(ExitConsumer)

Spec     == Init /\ [][Next]_vars
FairSpec == Spec /\ Fairness

-----------------------------------------------------------------------------
TypeOK ==
  /\ worker   \in [Jobs -> {"new", "timer", "checking", "sending", "exited"}]
  /\ pending  \in [Jobs -> Result]
  /\ made     \in [Jobs -> Nat]
  /\ queue    \in Seq(Result)
  /\ consumer \in {"new", "select", "process", "exited"}
  /\ held     \in Result
  /\ done     \in [Jobs -> Nat]
  /\ wg       \in Nat
  /\ run      \in {"starting", "waiting", "joining", "returned"}
  /\ live     \in BOOLEAN

(* The results on their way from a worker to the end of process: a job's   *)
(* are in the order they were made in, and none has been processed.        *)
OnItsWay(r) == \/ consumer = "process" /\ held = r
               \/ \E i \in DOMAIN queue : queue[i] = r
               \/ worker[r.job] = "sending" /\ pending[r.job] = r

Earlier(r, s) == r.job = s.job => r.n < s.n

Ordered ==
  /\ consumer = "process" => done[held.job] < held.n
  /\ \A i \in DOMAIN queue : /\ done[queue[i].job] < queue[i].n
                             /\ consumer = "process" => Earlier(held, queue[i])
                             /\ \A k \in 1..(i - 1) : Earlier(queue[k], queue[i])
  /\ \A j \in Jobs : worker[j] = "sending" =>
        /\ done[j] < pending[j].n
        /\ consumer = "process" => Earlier(held, pending[j])
        /\ \A i \in DOMAIN queue : Earlier(queue[i], pending[j])

(* No result is doubled or overtaken, and until the signal none is lost,   *)
(* however full the channel is: what was made and not yet processed is on  *)
(* its way.                                                                *)
NothingLost ==
  /\ Ordered
  /\ live => \A j \in Jobs : \A n \in (done[j] + 1)..made[j] : OnItsWay([job |-> j, n |-> n])

(* After the signal results may be lost but are still processed in order,  *)
(* each at most once: an older result never overwrites a newer state.      *)
InOrder == [][\A j \in Jobs : done'[j] # done[j] => done'[j] > done[j]]_vars

(* scheduler.go:46, Run returns "when all goroutines have exited": when it *)
(* has returned no worker and no consumer is left to touch the store that  *)
(* main is about to close.                                                 *)
NoneLeft ==
  run = "returned" => consumer = "exited" /\ \A j \in Jobs : worker[j] = "exited"

(* scheduler.go:46: Run returns once the context is cancelled, with the    *)
(* channel full or not.                                                    *)
Terminates == ~live ~> run = "returned"

(* Backpressure delays results and starves no job: every result a worker   *)
(* holds is processed, unless the context is cancelled.                    *)
EveryResultProcessed ==
  \A j \in Jobs, n \in 1..MaxChecks :
     (worker[j] = "sending" /\ pending[j].n = n) ~> (done[j] >= n \/ ~live)

-----------------------------------------------------------------------------
(* The scheduler implements Pipeline, a result waiting while it is on its  *)
(* way.                                                                    *)
Waiting(j) == {n \in 1..made[j] : OnItsWay([job |-> j, n |-> n])}

Flow == INSTANCE Pipeline WITH waiting <- [j \in Jobs |-> Waiting(j)],
                               over    <- run = "returned"

(* Refinement: what the goroutines do with the results is what Pipeline    *)
(* allows; in particular each is processed at most once and in its job's   *)
(* order, none is lost before the signal, and nothing is made or processed *)
(* once Run has returned.                                                  *)
ImplementsPipeline == Flow!Spec

(* Nobody waits for everybody: until Run returns, some goroutine can step, *)
(* or all workers rest between two checks.  A worker that waits for room   *)
(* in the channel is served, one that waits after the signal gives up, and *)
(* Run waits for nobody who has ended.                                     *)
SomebodyGoesOn ==
  run # "returned" =>
     \/ run = "starting"
     \/ consumer = "process"
     \/ consumer = "select" /\ (queue # << >> \/ ~live)
     \/ \E j \in Jobs : \/ worker[j] = "checking"
                        \/ worker[j] = "sending" /\ (HasRoom \/ ~live)
                        \/ worker[j] = "timer" /\ ~live
     \/ ~live /\ (run = "waiting" \/ (run = "joining" /\ wg = 0))
     \/ live /\ \A j \in Jobs : worker[j] = "timer"
=============================================================================
