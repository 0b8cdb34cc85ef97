------------------------ MODULE UptimeMonitorProofs ------------------------
(***************************************************************************)
(* Proofs about UptimeMonitor for any sites, routing and bounds, with a    *)
(* store that may refuse calls and a process that may end anywhere.        *)
(***************************************************************************)
EXTENDS UptimeMonitor, TLAPS

ProcOK == proc \in {"running", "stopping", "stopped"}

(* A result of a cancelled check is only ever in hand under a cancelled    *)
(* context, before the read that refuses it.                               *)
CutInv == /\ result.cut => consumer = "decide" /\ proc = "stopping"
          /\ proc = "stopped" => consumer = "exited"

(* What the decision in hand has to do with the row it was taken on.       *)
DecidedOn(prev) ==
  /\ out.at <= now
  /\ out.row.changedAt <= now
  /\ out.row.status # "absent"
  /\ out.page = "down" => /\ prev.status = "up"
                          /\ out.row.status = "down"
                          /\ out.row.changedAt = out.at
  /\ out.page = "recovered" => /\ prev.status = "down"
                               /\ out.row.status = "up"
                               /\ out.downtime = out.at - prev.changedAt
  /\ out.page = "none" /\ prev.status \in {"up", "down"} =>
       /\ out.row.status = prev.status
       /\ prev.status = "down" => out.row.changedAt = prev.changedAt

(* The same after the write: the page that is about to go out agrees with  *)
(* the row unless the write was refused, and is a repeat only if the row   *)
(* had parted from the pages before.                                       *)
PageDue(s) ==
  /\ out.page # "none"
  /\ out.at <= now
  /\ row[s].status \in {"up", "down"}
  /\   repeats[s] + (IF told[s].kind = out.page THEN 1 ELSE 0)
     + (IF (row[s].status = "down") # (out.page = "down") THEN 1 ELSE 0) <= slips[s]
  /\ slips[s] = 0 /\ out.page = "down" => row[s].changedAt = out.at
  /\ slips[s] = 0 /\ out.page = "recovered" /\ told[s].kind = "down"
       => out.downtime = out.at - told[s].at

(* Between results: the pages and the row of s agree up to its slips, and  *)
(* the outage the row dates is the one that was told.                      *)
Settled(s) ==
  /\ repeats[s] + (IF Disagree(s) THEN 1 ELSE 0) <= slips[s]
  /\ slips[s] = 0 /\ told[s].kind = "down" => row[s].changedAt = told[s].at

SiteInv(s) ==
  /\ row[s].changedAt <= now
  /\ told[s].kind # "none" => row[s].status \in {"up", "down"}
  /\ consumer = "save" /\ result.site = s => DecidedOn(row[s])
  /\ IF Dispatching(s) THEN PageDue(s) ELSE Settled(s)

IInv == TypeOK /\ ProcOK /\ CutInv /\ \A s \in Sites : SiteInv(s)

-----------------------------------------------------------------------------
(* The engine's decision is well typed and related to the row it is taken  *)
(* on as DecidedOn says.                                                   *)
LEMMA ProcessDecides ==
  ASSUME NEW prev \in Row(Times), NEW t \in Times, prev.changedAt <= t,
         NEW type \in {"http", "other"}, NEW st \in {"up", "down"},
         NEW o, o = Process(prev, type, st, t)
  PROVE  /\ o \in Outcomes(Times)
         /\ o.at = t
         /\ o.row.changedAt <= t
         /\ o.row.status # "absent"
         /\ o.page = "down" => /\ prev.status = "up"
                               /\ o.row.status = "down"
                               /\ o.row.changedAt = t
         /\ o.page = "recovered" => /\ prev.status = "down"
                                    /\ o.row.status = "up"
                                    /\ o.downtime = t - prev.changedAt
         /\ o.page = "none" /\ prev.status \in {"up", "down"} =>
              /\ o.row.status = prev.status
              /\ prev.status = "down" => o.row.changedAt = prev.changedAt
<1> DEFINE k == Known(prev, t)
<1> USE BoundsAssumption DEF Times
<1>1. /\ k \in Row(Times) /\ k.changedAt <= t /\ k.status # "absent"
      /\ prev.status # "absent" => k = prev
      /\ k.status \in {"up", "down"} => k = prev
  BY DEF Known, Row, Statuses
<1>2. CASE type = "other"
  <2>1. o = Refresh(k, t)
    BY <1>2 DEF Process
  <2> QED BY <1>1, <2>1 DEF Refresh, Row, Outcomes, Statuses
<1>3. CASE type = "http" /\ st = "up"
  <2>1. o = WentUp(k, t)
    BY <1>3 DEF Process, DecideHTTP
  <2> QED BY <1>1, <2>1 DEF WentUp, Row, Outcomes, Statuses
<1>4. CASE type = "http" /\ st = "down"
  <2>1. o = WentDown(k, t)
    BY <1>4 DEF Process, DecideHTTP
  <2> QED BY <1>1, <2>1 DEF WentDown, Row, Outcomes, Statuses
<1> QED BY <1>2, <1>3, <1>4

LEMMA NothingInHand == NoResult \in Results /\ ~NoResult.cut /\ NoOutcome \in Outcomes(Times)
BY SitesAssumption, BoundsAssumption
   DEF NoResult, Results, NoOutcome, Outcomes, NoRow, Row, Statuses, Times

(* The inductive invariant holds initially. *)
LEMMA InitIInv == Init => IInv
<1> SUFFICES ASSUME Init PROVE IInv
  OBVIOUS
<1> USE DEF Init
<1>1. TypeOK
  BY NothingInHand, BoundsAssumption
     DEF TypeOK, NoRow, Row, Statuses, Times, Untold, Kinds
<1>2. proc = "running"
  BY DEF Sender!Init
<1>3. ProcOK /\ CutInv
  BY <1>2, NothingInHand DEF ProcOK, CutInv
<1>4. ASSUME NEW s \in Sites PROVE SiteInv(s)
  BY DEF SiteInv, NoRow, Untold, Dispatching, Settled, Disagree
<1> QED BY <1>1, <1>3, <1>4 DEF IInv

(* A site about whose row and pages nothing changes, while the consumer    *)
(* stays where it is and time may pass.                                    *)
LEMMA SameView ==
  ASSUME TypeOK, NEW s \in Sites, SiteInv(s),
         UNCHANGED <<row, consumer, result, out, history>>, now' \in {now, now + 1}
  PROVE  SiteInv(s)'
BY BoundsAssumption
   DEF TypeOK, Times, history, SiteInv, DecidedOn, PageDue, Settled, Disagree,
       Dispatching, Row, Outcomes

(* A site about whose row and pages nothing changes, while the consumer is *)
(* not dispatching for it and does not come to hold a decision about it.   *)
LEMMA Elsewhere ==
  ASSUME NEW s \in Sites, SiteInv(s), ~Dispatching(s),
         row'[s] = row[s], told'[s] = told[s], repeats'[s] = repeats[s],
         slips'[s] = slips[s], now' = now,
         consumer' \in {"save", "dispatch"} => result'.site # s
  PROVE  SiteInv(s)'
BY DEF SiteInv, Settled, Disagree, Dispatching

(* Steps of the sends never touch the process. *)
LEMMA SendKeepsProc ==
  ASSUME SendStep
  PROVE  proc' = proc /\ UNCHANGED <<monitor, now>>
BY DEF SendStep, Sender!Step, Sender!Leave, Sender!Reach, Sender!Succeed, Sender!Fail,
       Sender!Fails, Sender!Abandon, Sender!ReachLate, Sender!RetryTimer,
       Sender!AbortRetry, Sender!Record, Sender!RecordRefused

(* Taking a result, or leaving the loop. *)
LEMMA SelectIInv ==
  ASSUME IInv, (\E r \in Results : Take(r)) \/ Quit
  PROVE  IInv'
<1> USE DEF IInv
<1>1. /\ consumer = "select" /\ consumer' \in {"decide", "exited"}
      /\ UNCHANGED <<row, out, history, now, sender>>
      /\ result' \in Results
  BY DEF Take, Quit, TypeOK
<1>2. TypeOK'
  BY <1>1 DEF TypeOK, history
<1>3. ProcOK' /\ CutInv'
  BY <1>1 DEF ProcOK, CutInv, sender, Take, Quit, Sender!Ctx
<1>4. ASSUME NEW s \in Sites PROVE SiteInv(s)'
  BY <1>1, Elsewhere DEF history, Dispatching
<1> QED BY <1>2, <1>3, <1>4

(* The engine decides on the row as it is stored. *)
LEMMA DecideIInv ==
  ASSUME IInv, Decide
  PROVE  IInv'
<1> USE DEF IInv, Decide
<1>1. result \in Results /\ result.site \in Sites /\ now \in Times
  BY DEF TypeOK, Results
<1>2. out' \in Outcomes(Times)
  BY <1>1, ProcessDecides DEF TypeOK, Results, SiteInv
<1>3. TypeOK'
  BY <1>2 DEF TypeOK, history
<1>4. ProcOK' /\ CutInv'
  BY DEF ProcOK, CutInv, sender, Sender!StoreAccepts, Sender!Ctx
<1>5. ASSUME NEW s \in Sites PROVE SiteInv(s)'
  <2>1. CASE s # result.site
    BY <2>1, Elsewhere DEF history, Dispatching
  <2>2. CASE s = result.site
    <3>1. DecidedOn(row[s])'
      BY <1>1, <2>2, ProcessDecides DEF TypeOK, Results, SiteInv, DecidedOn, Times
    <3> QED BY <2>2, <3>1 DEF SiteInv, Settled, Disagree, Dispatching, history
  <2> QED BY <2>1, <2>2
<1> QED BY <1>3, <1>4, <1>5

(* A refused read drops the result. *)
LEMMA ReadRefusedIInv ==
  ASSUME IInv, ReadRefused
  PROVE  IInv'
<1> USE DEF IInv, ReadRefused, Loop
<1>1. TypeOK'
  BY NothingInHand DEF TypeOK, history
<1>2. ProcOK' /\ CutInv'
  BY NothingInHand DEF ProcOK, CutInv, sender
<1>3. ASSUME NEW s \in Sites PROVE SiteInv(s)'
  BY Elsewhere DEF history, Dispatching
<1> QED BY <1>1, <1>2, <1>3

(* The write, done or refused: the decision was taken on this very row.    *)
LEMMA SaveIInv ==
  ASSUME IInv, Save \/ SaveRefused
  PROVE  IInv'
<1> USE DEF IInv
<1>0. PICK s \in Sites : s = result.site
  BY DEF TypeOK, Results
<1>1. /\ SiteInv(s) /\ DecidedOn(row[s])
      /\ consumer = "save" /\ ~result.cut
      /\ UNCHANGED <<pages, told, repeats, now, sender>>
  BY <1>0 DEF CutInv, SiteInv, Save, SaveRefused, history
<1>2. \/ out.page = "none" /\ consumer' = "select" /\ result' = NoResult /\ out' = NoOutcome
      \/ out.page # "none" /\ consumer' = "dispatch" /\ result' = result /\ out' = out
  BY DEF Save, SaveRefused, AfterSave, Loop
<1>3. \/ row' = [row EXCEPT ![s] = out.row] /\ slips' = slips
      \/ /\ row' = row
         /\ slips' = IF out.page = "none" THEN slips ELSE [slips EXCEPT ![s] = @ + 1]
  BY <1>0 DEF Save, SaveRefused, Slip, history
<1>4. TypeOK'
  <2>1. out \in Outcomes(Times) /\ out.row \in Row(Times)
    BY DEF TypeOK, Outcomes
  <2>2. row' \in [Sites -> Row(Times)]
    BY <1>3, <2>1 DEF TypeOK
  <2>4. slips' \in [Sites -> Nat]
    <3>1. slips \in [Sites -> Nat]
      BY DEF TypeOK
    <3>2. slips' = slips \/ slips' = [slips EXCEPT ![s] = slips[s] + 1]
      BY <1>3
    <3> QED BY <3>1, <3>2
  <2>3. /\ consumer' \in {"select", "dispatch"}
        /\ result' \in Results /\ out' \in Outcomes(Times)
    BY <1>2, <2>1, NothingInHand DEF TypeOK
  <2> QED BY <1>1, <2>2, <2>3, <2>4 DEF TypeOK
<1>5. ProcOK' /\ CutInv'
  BY <1>1, <1>2, NothingInHand DEF ProcOK, CutInv, sender
<1>6. ASSUME NEW u \in Sites, u # s PROVE SiteInv(u)'
  BY <1>0, <1>1, <1>2, <1>3, <1>6, Elsewhere DEF TypeOK, Dispatching
<1>7. SiteInv(s)'
  <2>1. /\ row[s] \in Row(Times) /\ told[s] \in [kind : Kinds \cup {"none"}, at : Times]
        /\ repeats[s] \in Nat /\ slips[s] \in Nat /\ out \in Outcomes(Times)
        /\ out.row \in Row(Times)
    BY <1>1 DEF TypeOK, Outcomes
  <2>2. Settled(s) /\ row[s].changedAt <= now
    BY <1>0, <1>1 DEF SiteInv, Dispatching
  <2>3. CASE out.page = "none"
    <3>1. /\ row'[s] = out.row \/ row'[s] = row[s]
          /\ slips' = slips /\ consumer' = "select"
      BY <1>1, <1>2, <1>3, <2>3 DEF TypeOK
    <3>2. row'[s].changedAt <= now
      BY <1>1, <2>2, <3>1 DEF DecidedOn
    <3>3. told[s].kind # "none" =>
             /\ row[s].status \in {"up", "down"}
             /\ row'[s].status = row[s].status
             /\ row[s].status = "down" => row'[s].changedAt = row[s].changedAt
      BY <1>1, <2>3, <3>1 DEF DecidedOn, SiteInv
    <3>4. slips[s] = 0 /\ told[s].kind = "down" => row[s].status = "down"
      BY <2>1, <2>2 DEF Settled, Disagree
    <3>5. Settled(s)'
      BY <1>1, <2>2, <3>1, <3>3, <3>4 DEF Settled, Disagree
    <3> QED BY <1>1, <3>1, <3>2, <3>3, <3>5 DEF SiteInv, Dispatching
  <2>4. CASE out.page # "none"
    <3>1. out.page \in {"down", "recovered"}
      BY <2>1, <2>4 DEF Outcomes
    <3>2. row[s].status = IF out.page = "down" THEN "up" ELSE "down"
      BY <1>1, <3>1 DEF DecidedOn
    <3>3. out.row.status = IF out.page = "down" THEN "down" ELSE "up"
      BY <1>1, <3>1 DEF DecidedOn
    <3>4. repeats[s] + (IF told[s].kind = out.page THEN 1 ELSE 0) <= slips[s]
      BY <2>1, <2>2, <3>1, <3>2 DEF Settled, Disagree, Kinds
    <3>5. /\ consumer' = "dispatch" /\ result' = result /\ out' = out
          /\ \/ row'[s] = out.row /\ slips'[s] = slips[s]
             \/ row'[s] = row[s] /\ slips'[s] = slips[s] + 1
      BY <1>1, <1>2, <1>3, <2>4 DEF TypeOK
    <3>6. row'[s].changedAt <= now /\ row'[s].status \in {"up", "down"}
      BY <1>1, <2>2, <3>1, <3>2, <3>3, <3>5 DEF DecidedOn
    <3>7. PageDue(s)'
      <4>1. CASE row'[s] = out.row /\ slips'[s] = slips[s]
        <5>1. slips[s] = 0 /\ told[s].kind = "down" =>
                row[s].status = "down" /\ row[s].changedAt = told[s].at
          BY <2>1, <2>2 DEF Settled, Disagree
        <5> QED BY <1>1, <2>1, <3>1, <3>3, <3>4, <3>5, <3>6, <4>1, <5>1
                DEF PageDue, DecidedOn
      <4>2. CASE row'[s] = row[s] /\ slips'[s] = slips[s] + 1
        BY <1>1, <2>1, <3>1, <3>2, <3>4, <3>5, <3>6, <4>2 DEF PageDue, DecidedOn
      <4> QED BY <3>5, <4>1, <4>2
    <3> QED BY <1>0, <1>1, <3>5, <3>6, <3>7 DEF SiteInv, Dispatching
  <2> QED BY <2>3, <2>4
<1> QED BY <1>4, <1>5, <1>6, <1>7 DEF IInv

(* The page goes out and becomes the last one told. *)
LEMMA PageIInv ==
  ASSUME IInv, Page
  PROVE  IInv'
<1> USE DEF IInv
<1>0. PICK s \in Sites : s = result.site
  BY DEF TypeOK, Results
<1>1. /\ consumer = "dispatch" /\ consumer' = "select"
      /\ result' = NoResult /\ out' = NoOutcome
      /\ UNCHANGED <<row, slips, now, proc>>
  BY DEF Page, Loop, Sender!Dispatch
<1>2. /\ pages' = Append(pages, [site |-> s, kind |-> out.page, at |-> out.at])
      /\ told' = [told EXCEPT ![s] = [kind |-> out.page, at |-> out.at]]
      /\ \/ told[s].kind = out.page /\ repeats' = [repeats EXCEPT ![s] = repeats[s] + 1]
         \/ told[s].kind # out.page /\ repeats' = [repeats EXCEPT ![s] = repeats[s]]
  BY <1>0 DEF Page
<1>3. SiteInv(s) /\ PageDue(s)
  BY <1>0, <1>1 DEF SiteInv, Dispatching
<1>4. out.page \in Kinds /\ out.at \in Times
  BY <1>3 DEF PageDue, TypeOK, Outcomes, Kinds
<1>5. TypeOK'
  <2>1. pages' \in Seq([site : Sites, kind : Kinds, at : Times])
    BY <1>2, <1>4 DEF TypeOK
  <2>2. told' \in [Sites -> [kind : Kinds \cup {"none"}, at : Times]]
    BY <1>2, <1>4 DEF TypeOK
  <2>3. repeats' \in [Sites -> Nat]
    BY <1>2 DEF TypeOK
  <2> QED BY <1>1, <2>1, <2>2, <2>3, NothingInHand DEF TypeOK
<1>6. ProcOK' /\ CutInv'
  BY <1>1, NothingInHand DEF ProcOK, CutInv
<1>7. ASSUME NEW u \in Sites, u # s PROVE SiteInv(u)'
  <2>1. told'[u] = told[u] /\ repeats'[u] = repeats[u]
    BY <1>2, <1>7 DEF TypeOK
  <2> QED BY <1>0, <1>1, <1>7, <2>1, Elsewhere DEF Dispatching
<1>8. SiteInv(s)'
  <2>1. /\ told'[s].kind = out.page /\ told'[s].at = out.at
        /\ repeats'[s] = repeats[s] + (IF told[s].kind = out.page THEN 1 ELSE 0)
    BY <1>2 DEF TypeOK
  <2>2. Settled(s)'
    BY <1>1, <1>3, <2>1 DEF PageDue, Settled, Disagree
  <2> QED BY <1>1, <1>3, <2>2 DEF SiteInv, Dispatching, PageDue
<1> QED BY <1>5, <1>6, <1>7, <1>8

(* The sends, the signal, the end of the process, its start and time. *)
LEMMA ProcessIInv ==
  ASSUME IInv, SendStep \/ Cancel \/ Exit \/ Restart \/ Tick
  PROVE  IInv'
<1> USE DEF IInv
<1>1. /\ UNCHANGED <<row, out, history, result>>
      /\ \/ now' = now
         \/ now < MaxTime /\ now' = now + 1
      /\ \/ consumer' = consumer
         \/ consumer = "exited" /\ consumer' = "select"
  <2>1. CASE Restart
    <3>1. consumer = "exited"
      BY <2>1 DEF Restart, Sender!Start, CutInv
    <3> QED BY <2>1, <3>1 DEF Restart
  <2> QED BY <2>1, SendKeepsProc DEF Cancel, Exit, Tick, monitor
<1>2. TypeOK'
  BY <1>1, BoundsAssumption DEF TypeOK, history, Times
<1>3. ProcOK' /\ CutInv'
  <2>1. CASE SendStep \/ Tick
    BY <2>1, SendKeepsProc DEF Tick, ProcOK, CutInv, monitor, sender
  <2>2. CASE Cancel \/ Exit
    BY <2>2 DEF Cancel, Exit, ProcOK, CutInv, monitor, Sender!Cancel, Sender!Stop
  <2>3. CASE Restart
    BY <2>3 DEF Restart, ProcOK, CutInv, Sender!Start
  <2> QED BY <2>1, <2>2, <2>3
<1>4. ASSUME NEW s \in Sites PROVE SiteInv(s)'
  <2>1. CASE consumer' = consumer
    BY <1>1, <2>1, SameView
  <2>2. CASE consumer = "exited" /\ consumer' = "select" /\ now' = now
    BY <1>1, <2>2, Elsewhere DEF Dispatching, history
  <2>3. now' = now \/ consumer' = consumer
    BY SendKeepsProc DEF Cancel, Exit, Restart, Tick, monitor
  <2> QED BY <1>1, <2>1, <2>2, <2>3
<1> QED BY <1>2, <1>3, <1>4

(* A crash drops what the consumer holds; between the write and the        *)
(* dispatch it parts the row from the pages, which counts as a slip.       *)
LEMMA CrashIInv ==
  ASSUME IInv, Crash
  PROVE  IInv'
<1> USE DEF IInv
<1>1. /\ consumer' = "exited" /\ result' = NoResult /\ out' = NoOutcome
      /\ proc' = "stopped"
      /\ UNCHANGED <<row, pages, told, repeats, now>>
  BY DEF Crash, Sender!Stop
<1>0. PICK s \in Sites : s = result.site
  BY DEF TypeOK, Results
<1>2. \/ consumer = "dispatch" /\ slips' = [slips EXCEPT ![s] = slips[s] + 1]
      \/ consumer # "dispatch" /\ slips' = slips
  BY <1>0 DEF Crash, Slip
<1>3. slips' \in [Sites -> Nat]
  BY <1>2 DEF TypeOK
<1>4. TypeOK'
  BY <1>1, <1>3, NothingInHand DEF TypeOK
<1>5. ProcOK' /\ CutInv'
  BY <1>1, NothingInHand DEF ProcOK, CutInv
<1>6. ASSUME NEW u \in Sites PROVE SiteInv(u)'
  <2>1. CASE Dispatching(u)
    <3>1. consumer = "dispatch" /\ u = s /\ slips'[u] = slips[u] + 1
      BY <1>0, <1>2, <2>1 DEF Dispatching, TypeOK
    <3>2. PageDue(u) /\ SiteInv(u)
      BY <2>1 DEF SiteInv
    <3>3. repeats[u] \in Nat /\ slips[u] \in Nat
      BY DEF TypeOK
    <3>4. Settled(u)'
      BY <1>1, <3>1, <3>2, <3>3 DEF PageDue, Settled, Disagree
    <3> QED BY <1>1, <3>2, <3>4 DEF SiteInv, Dispatching
  <2>2. CASE ~Dispatching(u)
    <3>1. slips'[u] = slips[u]
      BY <1>0, <1>2, <2>2 DEF Dispatching, TypeOK
    <3> QED BY <1>1, <2>2, <3>1, Elsewhere
  <2> QED BY <2>1, <2>2
<1> QED BY <1>4, <1>5, <1>6

LEMMA NextIInv == IInv /\ [Next]_vars => IInv'
<1> SUFFICES ASSUME IInv, [Next]_vars PROVE IInv'
  OBVIOUS
<1>1. CASE UNCHANGED vars
  BY <1>1 DEF IInv, TypeOK, ProcOK, CutInv, SiteInv, DecidedOn, PageDue, Settled,
              Disagree, Dispatching, vars, sender
<1>2. CASE Next
  BY <1>2, SelectIInv, DecideIInv, ReadRefusedIInv, SaveIInv, PageIInv, ProcessIInv,
     CrashIInv DEF Next, Handle
<1> QED BY <1>1, <1>2

THEOREM Invariance == Spec => []IInv
BY InitIInv, NextIInv, PTL DEF Spec

-----------------------------------------------------------------------------
(* Every variable of the monitor keeps its type. *)
THEOREM TypeCorrect == Spec => []TypeOK
<1>1. IInv => TypeOK
  BY DEF IInv
<1> QED BY <1>1, Invariance, PTL

(* The row a decision was taken on is still there when the decision is     *)
(* written: pages follow the stored up/down state, for any sites, routing, *)
(* refusals and crashes.                                                   *)
THEOREM PagesFollow == Spec => []PagesFollowTheRow
<1>1. IInv => PagesFollowTheRow
  BY DEF IInv, PagesFollowTheRow, SiteInv, DecidedOn, TypeOK, Results
<1> QED BY <1>1, Invariance, PTL

(* Repeated pages never outnumber the refused writes and the crashes       *)
(* between a write and its page.                                           *)
THEOREM RepeatsBounded == Spec => []RepeatsAccounted
<1>1. IInv => RepeatsAccounted
  <2> SUFFICES ASSUME IInv, NEW s \in Sites
               PROVE  repeats[s] + (IF Disagree(s) /\ ~Dispatching(s) THEN 1 ELSE 0) <= slips[s]
    BY DEF RepeatsAccounted
  <2>1. repeats[s] \in Nat /\ slips[s] \in Nat /\ SiteInv(s)
    BY DEF IInv, TypeOK
  <2>2. CASE Dispatching(s)
    BY <2>1, <2>2 DEF SiteInv, PageDue
  <2>3. CASE ~Dispatching(s)
    BY <2>1, <2>3 DEF SiteInv, Settled
  <2> QED BY <2>2, <2>3
<1> QED BY <1>1, Invariance, PTL

(* The downtime told is the downtime of the outage that was told.          *)
THEOREM DowntimeIsTrue == Spec => []DowntimeTruthful
<1>1. IInv => DowntimeTruthful
  BY DEF IInv, DowntimeTruthful, SiteInv, PageDue
<1> QED BY <1>1, Invariance, PTL

(* A check the shutdown cut short changes no row and raises no page.       *)
THEOREM ShutdownSilent == Spec => ShutdownIsNotAnOutage
<1>1. IInv /\ [Next]_vars => [result.cut => row' = row /\ pages' = pages]_vars
  <2> SUFFICES ASSUME IInv, Next, result.cut
               PROVE  row' = row /\ pages' = pages
    OBVIOUS
  <2>1. consumer = "decide" /\ ~Sender!Ctx
    BY DEF IInv, CutInv, Sender!Ctx
  <2>2. ~Save /\ ~Page /\ ~Decide
    BY <2>1 DEF Save, Page, Decide, Sender!StoreAccepts
  <2> QED BY <2>2, SendKeepsProc
          DEF Next, Handle, Take, Quit, ReadRefused, SaveRefused, Cancel, Exit, Crash,
              Restart, Tick, monitor, history
<1> QED BY <1>1, Invariance, PTL DEF Spec, ShutdownIsNotAnOutage

-----------------------------------------------------------------------------
(* There is a page left to raise while the consumer has a result in hand.  *)
RoomInv == consumer \in {"decide", "save", "dispatch"} => Len(pages) < MaxPages

LEMMA RoomInvariance == Spec => []RoomInv
<1>1. Init => RoomInv
  BY DEF Init, RoomInv
<1>2. IInv /\ RoomInv /\ [Next]_vars => RoomInv'
  <2> SUFFICES ASSUME IInv, RoomInv, [Next]_vars PROVE RoomInv'
    OBVIOUS
  <2>1. CASE \E r \in Results : Take(r)
    BY <2>1 DEF Take, RoomInv, history
  <2>2. CASE Quit \/ ReadRefused \/ Page \/ Crash \/ Restart
    BY <2>2 DEF Quit, ReadRefused, Page, Crash, Restart, Loop, RoomInv
  <2>3. CASE Decide
    BY <2>3 DEF Decide, RoomInv, history
  <2>4. CASE Save \/ SaveRefused
    BY <2>4 DEF Save, SaveRefused, AfterSave, Loop, RoomInv, history
  <2>5. CASE SendStep \/ Cancel \/ Exit \/ Tick
    BY <2>5, SendKeepsProc DEF Cancel, Exit, Tick, RoomInv, monitor, history
  <2>6. CASE UNCHANGED vars
    BY <2>6 DEF vars, RoomInv
  <2> QED BY <2>1, <2>2, <2>3, <2>4, <2>5, <2>6 DEF Next, Handle
<1> QED BY <1>1, <1>2, Invariance, PTL DEF Spec

(* Every step of the monitor is a step of the dispatcher, or none of its   *)
(* variables changes.                                                      *)
THEOREM UsesDispatcher == Spec => ImplementsDispatcher
<1>1. Init => Sender!Init
  BY DEF Init
<1>2. IInv /\ RoomInv /\ [Next]_vars => [Sender!Next]_(Sender!vars)
  <2> SUFFICES ASSUME IInv, RoomInv, [Next]_vars
               PROVE  Sender!Next \/ UNCHANGED Sender!vars
    OBVIOUS
  <2>1. CASE Page
    <3>1. Len(pages) + 1 \in Alerts
      BY <2>1, BoundsAssumption DEF Page, RoomInv, IInv, TypeOK, Alerts
    <3>2. Recipients(out.page) \in {Default} \cup {PerType[k] : k \in DOMAIN PerType}
      BY DEF Recipients
    <3> QED BY <2>1, <3>1, <3>2 DEF Page, Sender!Next
  <2>2. CASE SendStep
    BY <2>2 DEF SendStep, Sender!Next
  <2>3. CASE Cancel \/ Exit \/ Crash \/ Restart
    BY <2>3 DEF Cancel, Exit, Crash, Restart, Sender!Next
  <2>4. CASE (\E r \in Results : Take(r)) \/ Quit \/ Decide \/ ReadRefused \/ Save
             \/ SaveRefused \/ Tick
    BY <2>4 DEF Take, Quit, Decide, ReadRefused, Save, SaveRefused, Tick, sender,
                Sender!vars
  <2>5. CASE UNCHANGED vars
    BY <2>5 DEF vars, sender, Sender!vars
  <2> QED BY <2>1, <2>2, <2>3, <2>4, <2>5 DEF Next, Handle
<1> QED BY <1>1, <1>2, Invariance, RoomInvariance, PTL DEF Spec, ImplementsDispatcher,
                                                           Sender!Spec

-----------------------------------------------------------------------------
(* What DispatcherProofs shows of a dispatcher, for the monitor's.         *)
Proved == INSTANCE DispatcherProofs WITH
            Routes <- {Default} \cup {PerType[k] : k \in DOMAIN PerType}

(* Both instances are of the same module, with the same parameters.        *)
LEMMA SameState == /\ Sender!Init <=> Proved!Init
                   /\ Sender!Sends = Proved!Sends
                   /\ \A t : /\ Sender!Outcome(t) = Proved!Outcome(t)
                             /\ Sender!OnTheWay(t) = Proved!OnTheWay(t)
                             /\ Sender!Departed(t) = Proved!Departed(t)
BY DEF Sender!Init, Proved!Init, Sender!Sends, Proved!Sends, Sender!Outcome,
       Proved!Outcome, Sender!Departed, Proved!Departed, Sender!OnTheWay,
       Proved!OnTheWay, Sender!Active, Proved!Active

LEMMA SameNext == Sender!Next <=> Proved!Next
<1>1. ASSUME NEW a, NEW names
      PROVE  Sender!Dispatch(a, names) <=> Proved!Dispatch(a, names)
  BY SameState DEF Sender!Dispatch, Proved!Dispatch, Sender!StartSends, Proved!StartSends
<1>2. ASSUME NEW t PROVE Sender!Step(t) <=> Proved!Step(t)
  BY SameState
     DEF Sender!Step, Sender!Leave, Sender!Reach, Sender!Succeed, Sender!Fail,
         Sender!Fails, Sender!Abandon, Sender!ReachLate, Sender!RetryTimer,
         Sender!AbortRetry, Sender!Record, Sender!RecordRefused, Sender!Ctx,
         Sender!StoreAccepts, Sender!StoreRefuses, Sender!Attempting, Proved!Step,
         Proved!Leave, Proved!Reach, Proved!Succeed, Proved!Fail, Proved!Fails,
         Proved!Abandon, Proved!ReachLate, Proved!RetryTimer, Proved!AbortRetry,
         Proved!Record, Proved!RecordRefused, Proved!Ctx, Proved!StoreAccepts,
         Proved!StoreRefuses, Proved!Attempting
<1>3. /\ Sender!Cancel <=> Proved!Cancel
      /\ Sender!Stop <=> Proved!Stop
      /\ Sender!Start <=> Proved!Start
  BY SameState
     DEF Sender!Cancel, Proved!Cancel, Sender!Stop, Proved!Stop, Sender!Start,
         Proved!Start, Sender!goroutine, Proved!goroutine, Sender!Active, Proved!Active
<1> QED BY <1>1, <1>2, <1>3, SameState DEF Sender!Next, Proved!Next

LEMMA SameDispatcher == Spec => Proved!Spec
<1>1. [Sender!Next]_(Sender!vars) => [Proved!Next]_(Proved!vars)
  BY SameNext DEF Sender!vars, Proved!vars
<1> QED BY <1>1, SameState, UsesDispatcher, PTL
        DEF ImplementsDispatcher, Sender!Spec, Proved!Spec

(* No page puts more than two messages at a recipient, over refused rows,  *)
(* shutdowns, crashes and restarts of the whole monitor (dispatcher.go:38-  *)
(* 88): nothing it does dispatches a page twice.                           *)
THEOREM PageCopiesBounded == Spec => []Sender!AtMostTwoCopies
<1>1. Proved!Spec => []Proved!AtMostTwoCopies
  BY RecipientsAssumption, Proved!CopiesBounded
<1>2. Proved!AtMostTwoCopies => Sender!AtMostTwoCopies
  BY SameState DEF Proved!AtMostTwoCopies, Sender!AtMostTwoCopies
<1> QED BY <1>1, <1>2, SameDispatcher, PTL

(* A page that alert_log says was sent was received.                       *)
THEOREM PageSentIsTrue == Spec => []Sender!SentMeansDelivered
<1>1. Proved!Spec => []Proved!SentMeansDelivered
  BY RecipientsAssumption, Proved!SentIsTrue
<1>2. Proved!SentMeansDelivered => Sender!SentMeansDelivered
  BY SameState DEF Proved!SentMeansDelivered, Sender!SentMeansDelivered
<1> QED BY <1>1, <1>2, SameDispatcher, PTL

(* Each send of a page is a Delivery: accepted once, settled at most once, *)
(* no message leaving after its row, whatever the consumer, the engine and *)
(* the process do around it.                                               *)
THEOREM PagesAreDelivered == Spec => Sender!ImplementsDelivery
<1>1. Proved!Spec => Proved!ImplementsDelivery
  BY RecipientsAssumption, Proved!Refinement
<1>2. Proved!Promise!Init => Sender!Promise!Init
  BY SameState DEF Proved!Promise!Init, Sender!Promise!Init
<1>3. [Proved!Promise!Next]_(Proved!Promise!vars) => [Sender!Promise!Next]_(Sender!Promise!vars)
  BY DEF Proved!Promise!vars, Proved!Promise!Next, Proved!Promise!Accept,
         Proved!Promise!Depart, Proved!Promise!Deliver, Proved!Promise!Settle,
         Proved!Promise!LoseAll, Proved!Promise!Logged, Proved!Sends, Proved!Outcome,
         Proved!Active, Proved!Departed, Proved!OnTheWay,
         Sender!Promise!vars, Sender!Promise!Next, Sender!Promise!Accept,
         Sender!Promise!Depart, Sender!Promise!Deliver, Sender!Promise!Settle,
         Sender!Promise!LoseAll, Sender!Promise!Logged, Sender!Sends, Sender!Outcome,
         Sender!Active, Sender!Departed, Sender!OnTheWay
<1> QED BY <1>1, <1>2, <1>3, SameDispatcher, PTL
        DEF Proved!ImplementsDelivery, Sender!ImplementsDelivery, Proved!Promise!Spec,
            Sender!Promise!Spec

-----------------------------------------------------------------------------
(* A send is of a page that was raised, to the recipient that the routing  *)
(* has at its position for a page of that kind.                            *)
Routed(t) == /\ t[1] \in DOMAIN pages
             /\ t[2] \in DOMAIN Recipients(pages[t[1]].kind)
             /\ to[t] = Recipients(pages[t[1]].kind)[t[2]]

StartedAreRouted == \A t \in Sender!Sends : pc[t] # "idle" => Routed(t)

OnlyPagesAreSent ==
  \A t \in Sender!Sends : copies[t] > 0 \/ alertLog[t] # "none" => Routed(t)

(* A page is dispatched under the next free position, to its recipients.   *)
LEMMA PageRouted ==
  ASSUME IInv, StartedAreRouted, Page
  PROVE  StartedAreRouted'
<1> DEFINE n  == Len(pages) + 1
           rs == Recipients(out.page)
<1>1. /\ pages' = Append(pages, [site |-> result.site, kind |-> out.page, at |-> out.at])
      /\ pc' = [t \in Sender!Sends |->
                  IF t \in Sender!StartSends(n, rs) THEN "try1" ELSE pc[t]]
      /\ to' = [t \in Sender!Sends |->
                  IF t \in Sender!StartSends(n, rs) THEN rs[t[2]] ELSE to[t]]
  BY DEF Page, Sender!Dispatch
<1>2. /\ DOMAIN pages' = DOMAIN pages \cup {n}
      /\ \A i \in DOMAIN pages : pages'[i] = pages[i]
      /\ pages'[n].kind = out.page
  BY <1>1 DEF IInv, TypeOK
<1> SUFFICES ASSUME NEW t \in Sender!Sends, pc'[t] # "idle" PROVE Routed(t)'
  BY DEF StartedAreRouted
<1>3. CASE t \in Sender!StartSends(n, rs)
  <2>1. t[1] = n /\ t[2] \in DOMAIN rs /\ to'[t] = rs[t[2]]
    BY <1>1, <1>3 DEF Sender!StartSends
  <2> QED BY <1>2, <2>1 DEF Routed, Recipients
<1>4. CASE t \notin Sender!StartSends(n, rs)
  <2>1. Routed(t) /\ to'[t] = to[t]
    BY <1>1, <1>4 DEF StartedAreRouted
  <2> QED BY <1>2, <2>1 DEF Routed, Recipients
<1> QED BY <1>3, <1>4

(* No step of a send or of the process starts a send or turns one to       *)
(* another recipient.                                                      *)
LEMMA SendRouted ==
  ASSUME Proved!TypeOK, StartedAreRouted, SendStep \/ Cancel \/ Exit \/ Crash \/ Restart
  PROVE  StartedAreRouted'
<1>1. pages' = pages /\ to' = to
  BY DEF SendStep, Cancel, Exit, Crash, Restart, monitor, history, Sender!Step,
         Sender!Leave, Sender!Reach, Sender!Succeed, Sender!Fail, Sender!Fails,
         Sender!Abandon, Sender!ReachLate, Sender!RetryTimer, Sender!AbortRetry,
         Sender!Record, Sender!RecordRefused, Sender!Cancel, Sender!Stop, Sender!Start,
         Sender!goroutine
<1>2. \A t \in Sender!Sends : pc'[t] # "idle" => pc[t] # "idle"
  <2>1. CASE SendStep
    <3>1. PICK u \in Sender!Sends : Sender!Step(u)
      BY <2>1 DEF SendStep
    <3>2. pc \in [Sender!Sends -> Proved!Active \cup {"idle", "done", "dead"}]
      BY SameState DEF Proved!TypeOK
    <3>3. \A t \in Sender!Sends : t # u => pc'[t] = pc[t]
      BY <3>1, <3>2
         DEF Sender!Step, Sender!Leave, Sender!Reach, Sender!Succeed, Sender!Fail,
             Sender!Fails, Sender!Abandon, Sender!ReachLate, Sender!RetryTimer,
             Sender!AbortRetry, Sender!Record, Sender!RecordRefused
    <3>4. pc[u] # "idle" \/ pc' = pc
      BY <3>1
         DEF Sender!Step, Sender!Leave, Sender!Reach, Sender!Succeed, Sender!Fail,
             Sender!Fails, Sender!Abandon, Sender!ReachLate, Sender!RetryTimer,
             Sender!AbortRetry, Sender!Record, Sender!RecordRefused, Sender!Attempting
    <3> QED BY <3>3, <3>4
  <2>2. CASE Cancel \/ Restart
    BY <2>2 DEF Cancel, Restart, Sender!Cancel, Sender!Start, Sender!goroutine
  <2>3. CASE Exit \/ Crash
    BY <2>3 DEF Exit, Crash, Sender!Stop, Sender!Active
  <2> QED BY <2>1, <2>2, <2>3
<1> QED BY <1>1, <1>2 DEF StartedAreRouted, Routed, Recipients

LEMMA RoutedInvariance == Spec => []StartedAreRouted
<1>1. Init => StartedAreRouted
  BY DEF Init, Sender!Init, StartedAreRouted
<1>2. IInv /\ Proved!IInv /\ StartedAreRouted /\ [Next]_vars => StartedAreRouted'
  <2> SUFFICES ASSUME IInv, Proved!TypeOK, StartedAreRouted, [Next]_vars
               PROVE  StartedAreRouted'
    BY DEF Proved!IInv
  <2>1. CASE Page
    BY <2>1, PageRouted
  <2>2. CASE SendStep \/ Cancel \/ Exit \/ Crash \/ Restart
    BY <2>2, SendRouted
  <2>3. CASE (\E r \in Results : Take(r)) \/ Quit \/ Decide \/ ReadRefused \/ Save
             \/ SaveRefused \/ Tick \/ UNCHANGED vars
    <3>1. pages' = pages /\ pc' = pc /\ to' = to
      BY <2>3 DEF Take, Quit, Decide, ReadRefused, Save, SaveRefused, Tick, vars, sender,
                  history, monitor
    <3> QED BY <3>1 DEF StartedAreRouted, Routed, Recipients
  <2> QED BY <2>1, <2>2, <2>3 DEF Next, Handle
<1>3. Proved!Spec => []Proved!IInv
  BY RecipientsAssumption, Proved!Invariance
<1> QED BY <1>1, <1>2, <1>3, SameDispatcher, Invariance, PTL DEF Spec

(* Nothing reaches a recipient, and nothing enters alert_log, but pages    *)
(* the engine decided on, each at the recipients NotifiersFor              *)
(* (config.go:112) gives for its kind; restarts and late messages        *)
(* included.                                                               *)
THEOREM RecipientsAreRouted == Spec => []OnlyPagesAreSent
<1>1. Proved!IInv /\ StartedAreRouted => OnlyPagesAreSent
  BY SameState
     DEF Proved!IInv, Proved!SendInv, Proved!WithinBudget, Proved!LastWord,
         Proved!Departed, Proved!OnTheWay, Proved!TypeOK, StartedAreRouted,
         OnlyPagesAreSent
<1>2. Proved!Spec => []Proved!IInv
  BY RecipientsAssumption, Proved!Invariance
<1> QED BY <1>1, <1>2, SameDispatcher, RoutedInvariance, PTL
=============================================================================
