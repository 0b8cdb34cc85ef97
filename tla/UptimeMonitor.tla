--------------------------- MODULE UptimeMonitor ---------------------------
(***************************************************************************)
(* From a check result to a page: the scheduler's consumer goroutine       *)
(* (scheduler.process), the alerting engine, the rows of site_state and    *)
(* the dispatcher, in a process that may be stopped, killed and started    *)
(* again on the same database.                                             *)
(*                                                                         *)
(* The consumer reads the row of the result's site, decides, writes the    *)
(* new row and hands the page to the dispatcher, in this order and with    *)
(* nothing that ties the four together: a refused write is only logged,    *)
(* and a process that ends after the write has no memory of the page.      *)
(* Results come from the workers in any order; Scheduler models how.       *)
(***************************************************************************)
EXTENDS Alerting, Sequences, FiniteSets

CONSTANTS Sites,
          PerType,        \* routing: recipients of some kinds of page,
          Default,        \* and of the others
          Slots, Notifiers, Smtp, NoNotifier,    \* as in Dispatcher
          StoreFaults,    \* whether the store may refuse a call of its own accord
          Crashes,        \* whether the process may be killed
          MaxPages,       \* bound on the pages ever raised
          MaxSlips,       \* bound on the slips of one site
          MaxFailures,    \* bound on consecutive_failures
          MaxTime         \* bound on the clock

Kinds  == {"down", "recovered"}
Alerts == 1..MaxPages                    \* a page is known by its position
Times  == 0..MaxTime

ASSUME RecipientsAssumption == /\ Smtp \subseteq Notifiers
                               /\ NoNotifier \notin Notifiers
                               /\ StoreFaults \in BOOLEAN
ASSUME RoutingAssumption == DOMAIN PerType \subseteq Kinds
ASSUME SitesAssumption   == Sites # {}
ASSUME BoundsAssumption  == /\ MaxPages \in Nat    /\ MaxSlips \in Nat
                            /\ MaxFailures \in Nat /\ MaxTime \in Nat \ {0}

VARIABLES
  row,        \* site_state; on disk
  consumer,   \* "select", "decide", "save", "dispatch" or "exited"
  result,     \* the result in hand
  out,        \* what the engine returned for it
  pages,      \* every page handed to the dispatcher, over all processes
  told,       \* per site: kind and time of its last page (history)
  repeats,    \* per site: pages of the same kind as the one before (history)
  slips,      \* per site: times the stored row and the pages could part, by a
              \* refused write or a process that ended in between (history)
  now,        \* the clock
  pc, to, message, late, status, copies, alertLog, proc   \* Dispatcher's

Sender == INSTANCE Dispatcher WITH
            Routes <- {Default} \cup {PerType[k] : k \in DOMAIN PerType}

sender  == <<pc, to, message, late, status, copies, alertLog, proc>>
history == <<pages, told, repeats, slips>>
monitor == <<row, consumer, result, out, history>>
vars    == <<row, consumer, result, out, pages, told, repeats, slips, now, sender>>

(* A result.  SSL and domain results ("other") do not tell up from down.   *)
(* One whose check was cut short by the cancelled context says "down" like *)
(* any other: no field of it tells the engine.                             *)
Results == {r \in [site   : Sites,
                   type   : {"http", "other"},
                   status : {"up", "down"},
                   cut    : BOOLEAN] :
              /\ r.cut => r.status = "down"
              /\ r.type = "other" => r.status = "up"}

NoResult  == [site |-> CHOOSE s \in Sites : TRUE, type |-> "other",
              status |-> "up", cut |-> FALSE]
NoOutcome == [row |-> NoRow, page |-> "none", downtime |-> 0, at |-> 0]

Untold == [kind |-> "none", at |-> 0]

Init == /\ row      = [s \in Sites |-> NoRow]
        /\ consumer = "select"
        /\ result   = NoResult
        /\ out      = NoOutcome
        /\ pages    = << >>
        /\ told     = [s \in Sites |-> Untold]
        /\ repeats  = [s \in Sites |-> 0]
        /\ slips    = [s \in Sites |-> 0]
        /\ now      = 1
        /\ Sender!Init

-----------------------------------------------------------------------------
(* Variants of Recipients, each with a mistake one could make: per-type    *)
(* routing without its fallback; added to the default, not instead of it.  *)
Recipients_noFallback(kind) == IF kind \in DOMAIN PerType THEN PerType[kind] ELSE << >>

Recipients_both(kind) == IF kind \in DOMAIN PerType THEN Default \o PerType[kind]
                                                    ELSE Default

-----------------------------------------------------------------------------
(* The consumer's loop variables end with an iteration. *)
Loop == consumer' = "select" /\ result' = NoResult /\ out' = NoOutcome

(* consume: select between the context and the next result. *)
Take(r) ==
  /\ consumer = "select"
  /\ r.cut => ~Sender!Ctx
  /\ Len(pages) < MaxPages
  /\ r.status = "down" => row[r.site].failures < MaxFailures
  /\ result'   = r
  /\ consumer' = "decide"
  /\ UNCHANGED <<row, out, history, now, sender>>

Quit ==
  /\ consumer = "select"
  /\ ~Sender!Ctx
  /\ consumer' = "exited"
  /\ UNCHANGED <<row, result, out, history, now, sender>>

(* Engine.Process: the row is read and the decision taken on it.  If the   *)
(* read is refused the result is dropped.                                  *)
Decide ==
  /\ consumer = "decide"
  /\ Sender!StoreAccepts
  /\ out'      = Process(row[result.site], result.type, result.status, now)
  /\ consumer' = "save"
  /\ UNCHANGED <<row, result, history, now, sender>>

ReadRefused ==
  /\ consumer = "decide"
  /\ Sender!StoreRefuses
  /\ Loop
  /\ UNCHANGED <<row, history, now, sender>>

Slip(s) == slips[s] < MaxSlips /\ slips' = [slips EXCEPT ![s] = @ + 1]

(* UpsertSiteState.  A refused write is logged and the page goes out all   *)
(* the same.                                                               *)
AfterSave == IF out.page = "none" THEN Loop
             ELSE consumer' = "dispatch" /\ UNCHANGED <<result, out>>

Save ==
  /\ consumer = "save"
  /\ Sender!StoreAccepts
  /\ row' = [row EXCEPT ![result.site] = out.row]
  /\ AfterSave
  /\ UNCHANGED <<history, now, sender>>

SaveRefused ==
  /\ consumer = "save"
  /\ Sender!StoreRefuses
  /\ AfterSave
  /\ IF out.page = "none" THEN UNCHANGED slips ELSE Slip(result.site)
  /\ UNCHANGED <<row, pages, told, repeats, now, sender>>

(* NotifiersFor, and Dispatcher.Dispatch to the recipients it gives. *)
Recipients(kind) == IF kind \in DOMAIN PerType THEN PerType[kind] ELSE Default

Page ==
  /\ consumer = "dispatch"
  /\ Sender!Dispatch(Len(pages) + 1, Recipients(out.page))
  /\ pages'   = Append(pages, [site |-> result.site, kind |-> out.page, at |-> out.at])
  /\ told'    = [told EXCEPT ![result.site] = [kind |-> out.page, at |-> out.at]]
  /\ repeats' = [repeats EXCEPT ![result.site] =
                   IF told[result.site].kind = out.page THEN @ + 1 ELSE @]
  /\ Loop
  /\ UNCHANGED <<row, slips, now>>

-----------------------------------------------------------------------------
(* The sends, the signal, the end of the process and its start. *)
SendStep == /\ \E t \in Sender!Sends : Sender!Step(t)
            /\ UNCHANGED <<monitor, now>>

Cancel == Sender!Cancel /\ UNCHANGED <<monitor, now>>

(* main returns once the consumer is gone; it does not wait for the sends. *)
Exit == /\ consumer = "exited"
        /\ Sender!Stop
        /\ UNCHANGED <<monitor, now>>

Crash == /\ Crashes
         /\ Sender!Stop
         /\ consumer' = "exited"
         /\ result'   = NoResult
         /\ out'      = NoOutcome
         /\ IF consumer = "dispatch" THEN Slip(result.site) ELSE UNCHANGED slips
         /\ UNCHANGED <<row, pages, told, repeats, now>>

Restart == /\ Sender!Start
           /\ consumer' = "select"
           /\ UNCHANGED <<row, result, out, history, now>>

Tick == /\ now < MaxTime
        /\ now' = now + 1
        /\ UNCHANGED <<monitor, sender>>

Handle == Decide \/ ReadRefused \/ Save \/ SaveRefused \/ Page

Next == \/ \E r \in Results : Take(r)
        \/ Quit \/ Handle \/ SendStep \/ Cancel \/ Exit \/ Crash \/ Restart \/ Tick

(* The consumer and the sends are goroutines and run; a stopping process   *)
(* ends; a stopped one is started again by its supervisor.  No result, no  *)
(* signal, no crash and no tick is ever owed.                              *)
Fairness == /\ WF_vars(Handle) /\ WF_vars(Quit)
            /\ WF_vars(Exit) /\ WF_vars(Restart)
            /\ \A t \in Sender!Sends :
                 /\ WF_vars(Sender!ReturnSlack(t) /\ UNCHANGED <<monitor, now>>)
                 /\ WF_vars(Sender!Abandon(t) /\ UNCHANGED <<monitor, now>>)
                 /\ WF_vars((Sender!RetryTimer(t) \/ Sender!AbortRetry(t))
                              /\ UNCHANGED <<monitor, now>>)
                 /\ WF_vars((Sender!Record(t) \/ Sender!RecordRefused(t))
                              /\ UNCHANGED <<monitor, now>>)

Spec     == Init /\ [][Next]_vars
FairSpec == Spec /\ Fairness

-----------------------------------------------------------------------------
TypeOK ==
  /\ row      \in [Sites -> Row(Times)]
  /\ consumer \in {"select", "decide", "save", "dispatch", "exited"}
  /\ result   \in Results
  /\ out      \in Outcomes(Times)
  /\ pages    \in Seq([site : Sites, kind : Kinds, at : Times])
  /\ told     \in [Sites -> [kind : Kinds \cup {"none"}, at : Times]]
  /\ repeats  \in [Sites -> Nat]
  /\ slips    \in [Sites -> Nat]
  /\ now      \in Times

(* When the row is written it still is the row the decision was taken on:  *)
(* a DOWN page is for a site stored as up, a RECOVERED page for one stored *)
(* as down, and no page answers a site's first observation (the baseline   *)
(* rule, alerting.go:94-96).                                               *)
PagesFollowTheRow ==
  consumer = "save" =>
    /\ out.page = "down"      => row[result.site].status = "up"
    /\ out.page = "recovered" => row[result.site].status = "down"

(* Two pages of the same kind in a row for one site (DOWN after DOWN) only *)
(* come of a refused write or of a process that ended between the write    *)
(* and the dispatch.  There are never more of them than of those, counting *)
(* the one to come when the row disagrees with the last page.              *)
Disagree(s) == /\ told[s].kind # "none"
               /\ (row[s].status = "down") # (told[s].kind = "down")

Dispatching(s) == consumer = "dispatch" /\ result.site = s

RepeatsAccounted ==
  \A s \in Sites :
    repeats[s] + (IF Disagree(s) /\ ~Dispatching(s) THEN 1 ELSE 0) <= slips[s]

(* The downtime a RECOVERED page tells is the time since the DOWN page of  *)
(* the same outage, across restarts, as long as no write was refused and   *)
(* no page fell between a write and the end of a process.                  *)
DowntimeTruthful ==
  \A s \in Sites :
    (Dispatching(s) /\ out.page = "recovered" /\ told[s].kind = "down" /\ slips[s] = 0)
      => out.downtime = out.at - told[s].at

(* A check the shutdown cut short is no outage: whatever the worker and    *)
(* the consumer still do with its "down" result, no row and no page comes  *)
(* of it, because the store refuses the cancelled context.                 *)
ShutdownIsNotAnOutage == [][result.cut => row' = row /\ pages' = pages]_vars

(* An outage reaches Slack: once the consumer holds a down result of a     *)
(* site stored as up, a DOWN page is made, it has recipients and every     *)
(* Slack send of it gets its row in alert_log, "sent" or "failed", unless  *)
(* the process is stopped first.                                           *)
SlackLogged(a) ==
  /\ \E i \in Slots : alertLog[<<a, i>>] # "none"
  /\ \A i \in Slots : pc[<<a, i>>] # "idle" /\ to[<<a, i>>] \notin Smtp
                      => alertLog[<<a, i>>] # "none"

OutageReachesSlack ==
  \A n \in 0..(MaxPages - 1) :
    (consumer = "decide" /\ result.status = "down" /\ Sender!Ctx
       /\ row[result.site].status = "up" /\ Len(pages) = n)
    ~> \/ Len(pages) > n /\ pages[n + 1].kind = "down" /\ SlackLogged(n + 1)
       \/ ~Sender!Ctx

(* The monitor uses the dispatcher as Dispatcher describes it: a page is   *)
(* dispatched once, to a configured list of recipients, and no other step  *)
(* touches a send.  What holds of Dispatcher holds of the whole monitor.   *)
ImplementsDispatcher == Sender!Spec

(* README.md:97, a `down` alert when a "site fails N+1 consecutive checks"; *)
(* dispatcher.go:32-37, a failed send is "retried once after RetryDelay;   *)
(* the final outcome is recorded", and shutdown aborts retries "cleanly".  *)
(* So while site_state says that a site has been down since its DOWN page, *)
(* the page is at last at a recipient or its outcome in the log, or the    *)
(* site is back up; also if the process is restarted meanwhile.            *)
Ongoing(a) == /\ Len(pages) >= a
              /\ pages[a].kind = "down"
              /\ row[pages[a].site].status = "down"
              /\ row[pages[a].site].changedAt = pages[a].at

OutagePaged ==
  \A a \in Alerts :
    Ongoing(a) ~> (~Ongoing(a) \/ \E i \in Slots : copies[<<a, i>>] > 0
                                                   \/ alertLog[<<a, i>>] # "none")
=============================================================================
