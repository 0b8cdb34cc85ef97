--------------------------- MODULE DomainMonitor ---------------------------
(***************************************************************************)
(* Domain expiry alerts of one site: the checker with its cache row, the   *)
(* two sources it asks, the engine's two kinds of domain alert, and what   *)
(* the dispatcher promises of the sends (Delivery).                        *)
(*                                                                         *)
(* The row of domain_cache is written by the worker and read by it again   *)
(* at the next check, perhaps in the next process, and by the consumer,    *)
(* which decides on the row it finds and not on the one that was there     *)
(* when the lookup failed.  Every error of the cache's reads and writes is *)
(* dropped by the checker; the engine gives a result up on a refused read. *)
(***************************************************************************)
EXTENDS Expiry, Sequences, FiniteSets

CONSTANTS Registrations,    \* how often the domain may be registered, less one
          Sources,          \* where expiry dates are looked up: RDAP and WHOIS
          ExpiryBy,         \* the date each source gives for each registration
          Thresholds,       \* domain_warn_days
          Window,           \* days the log is searched for expiry alerts (365)
          CacheTTL,         \* ticks a row answers for the sources (6 hours)
          DegradedAfter,    \* days without a lookup that are too many (3)
          DegradedWindow,   \* days the log is searched for degraded alerts (7)
          DayLength,        \* ticks in a day
          Recipients,       \* number of recipients of either kind of alert
          MaxCopies,        \* as in Delivery
          MaxFaults,        \* bound on the calls the store refuses of its own accord
          MaxAlerts,        \* bound on the alerts ever raised
          MaxTime           \* bound on the clock

Times == 1..MaxTime         \* 0 is the zero time.Time
Dates == {ExpiryBy[r][s] : r \in 1..Registrations, s \in Sources}

ASSUME SourcesAssumption    == /\ Registrations \in Nat \ {0}
                               /\ Sources # {}
                               /\ ExpiryBy \in [1..Registrations -> [Sources -> Nat \ {0}]]
ASSUME ThresholdsAssumption == Thresholds \subseteq Nat \ {0}
ASSUME PeriodsAssumption    == /\ Window \in Nat        /\ CacheTTL \in Nat
                               /\ DegradedAfter \in Nat /\ DegradedWindow \in Nat
                               /\ DayLength \in Nat \ {0}
ASSUME BoundsAssumption     == /\ Recipients \in Nat /\ MaxCopies \in Nat
                               /\ MaxAlerts \in Nat  /\ MaxTime \in Nat \ {0}
                               /\ MaxFaults \in Nat

VARIABLES
  now,          \* the clock
  registration, \* the number of the current registration
  renewedAt,    \* when it began
  answering,    \* some source can be reached
  faults,       \* calls the store has refused of its own accord (history)
  cache,        \* the row of domain_cache; on disk; all zero if there is none
  worker,       \* "timer", "lookup" or "sending"
  began, seen,  \* its lookup: when the check began, the row as it read it
  pending,      \* the result it is sending
  consumer,     \* "select", "decide" or "dispatch"
  result,       \* the result in hand
  due,          \* the alert the engine returned for it
  raised,       \* the alerts handed to the dispatcher so far
  loggedOn,     \* sent_at of the row each send has in alert_log
  proc,         \* "running", "stopping" (its context is cancelled) or "stopped"
  asked,        \* beginning of the check of the last lookup, 0 unless that
                \* lookup has ended and its row was stored (history)
  verifiedAt,   \* beginning of the last check that stored a date (history)
  outcome, departed, copies   \* Delivery's

Sends == (1..MaxAlerts) \X (1..Recipients)

Deliv == INSTANCE Delivery

sends   == <<outcome, departed, copies, loggedOn>>
world   == <<now, registration, renewedAt, answering>>
check   == <<worker, began, seen, pending>>
inhand  == <<consumer, result, due>>
history == <<asked, verifiedAt>>
vars    == <<world, faults, cache, check, inhand, raised, proc, history, sends>>

Rows == [expiresAt : Nat, lastLookupAt : Nat, lastOkAt : Nat]

NoCache == [expiresAt |-> 0, lastLookupAt |-> 0, lastOkAt |-> 0]

(* A result: DomainLookupOK, DomainExpiry and DaysUntilDomainExpiry. *)
Results == [ok : BOOLEAN, expiry : Nat, days : Int]

Failed == [ok |-> FALSE, expiry |-> 0, days |-> 0]

Found(date) == [ok |-> TRUE, expiry |-> date, days |-> WholeDays(date - now, DayLength)]

(* What the engine hands to the dispatcher.  The key of an expiry alert is *)
(* the date, in the log's cert_serial.                                     *)
Nothing  == [kind |-> "none", band |-> 0, key |-> 0]
Degraded == [kind |-> "degraded", band |-> 0, key |-> 0]
Expiring(band, date) == [kind |-> "expiring", band |-> band, key |-> date]

Init == /\ now          = 1
        /\ registration = 1
        /\ renewedAt    = 0
        /\ answering    = TRUE
        /\ faults       = 0
        /\ cache        = NoCache
        /\ worker       = "timer"
        /\ began        = 0
        /\ seen         = NoCache
        /\ pending      = Failed
        /\ consumer     = "select"
        /\ result       = Failed
        /\ due          = Nothing
        /\ raised       = << >>
        /\ loggedOn     = [t \in Sends |-> 0]
        /\ proc         = "running"
        /\ asked        = 0
        /\ verifiedAt   = 0
        /\ Deliv!Init

-----------------------------------------------------------------------------
(* Variants with a mistake one could make: the row of a failed lookup      *)
(* counted as a success, left with its old time, or started from nothing;  *)
(* the first success kept for ever; last_ok_at forgotten; a window         *)
(* searched from its wrong end; a cached answer taken for a lookup.        *)
FailedRow_ok(row, at)       == [row EXCEPT !.lastLookupAt = at, !.lastOkAt = at]
FailedRow_oldTime(row, at)  == row
FailedRow_fresh(row, at)    == [NoCache EXCEPT !.lastLookupAt = at]

FoundRow_firstOk(date, at) ==
  [expiresAt    |-> date,
   lastLookupAt |-> at,
   lastOkAt     |-> IF seen.lastOkAt # 0 THEN seen.lastOkAt ELSE at]

FoundRow_noOk(date, at) == [expiresAt |-> date, lastLookupAt |-> at, lastOkAt |-> 0]

Recent_older(t, days) == loggedOn[t] <= now - days * DayLength

AfterHit_touched == [cache EXCEPT !.lastLookupAt = now]

-----------------------------------------------------------------------------
Ctx          == proc = "running"
StoreAccepts == Ctx /\ UNCHANGED faults
StoreRefuses == \/ ~Ctx /\ UNCHANGED faults
                \/ faults < MaxFaults /\ faults' = faults + 1

(* DomainChecker.Check.  The cached row answers while it is younger than   *)
(* CacheTTL and knows a date; a refused read looks like a missing row.     *)
Hit(row) == row.expiresAt # 0 /\ now - row.lastLookupAt < CacheTTL

AfterHit == cache

EndCheck(r) == worker' = "sending" /\ pending' = r /\ began' = 0 /\ seen' = NoCache

AnswerFromCache ==
  /\ worker = "timer"
  /\ proc # "stopped"
  /\ StoreAccepts
  /\ Hit(cache)
  /\ EndCheck(Found(cache.expiresAt))
  /\ cache' = AfterHit
  /\ UNCHANGED <<world, inhand, raised, proc, history, sends>>

BeginLookup(row) ==
  /\ worker = "timer"
  /\ proc # "stopped"
  /\ worker' = "lookup"
  /\ began'  = now
  /\ seen'   = row
  /\ asked'  = 0
  /\ UNCHANGED <<world, cache, pending, inhand, raised, proc, verifiedAt, sends>>

Lookup == \/ StoreAccepts /\ ~Hit(cache) /\ BeginLookup(cache)
          \/ StoreRefuses /\ BeginLookup(NoCache)

(* UpsertDomainCache, whose error is dropped. *)
Upsert(row) == \/ StoreAccepts /\ cache' = row /\ asked' = began
               \/ StoreRefuses /\ UNCHANGED <<cache, asked>>

FoundRow(date, at)  == [expiresAt |-> date, lastLookupAt |-> at, lastOkAt |-> at]
FailedRow(row, at)  == [row EXCEPT !.lastLookupAt = at]

(* RDAP answers, or WHOIS after it did not. *)
LookupAnswered(s) ==
  LET date == ExpiryBy[registration][s]
  IN /\ worker = "lookup"
     /\ answering
     /\ Upsert(FoundRow(date, began))
     /\ verifiedAt' = IF asked' = began THEN began ELSE verifiedAt
     /\ EndCheck(Found(date))
     /\ UNCHANGED <<world, inhand, raised, proc, sends>>

(* Both failed, or ran into their timeouts or the cancelled context. *)
LookupFailed ==
  /\ worker = "lookup"
  /\ Upsert(FailedRow(seen, began))
  /\ EndCheck(Failed)
  /\ UNCHANGED <<world, inhand, raised, proc, verifiedAt, sends>>

(* The channel to the consumer (its buffer is Scheduler's subject).  After *)
(* the signal a result may be dropped.                                     *)
NextCheck == worker' = "timer" /\ pending' = Failed /\ began' = 0 /\ seen' = NoCache

Take ==
  /\ worker = "sending"
  /\ consumer = "select"
  /\ NextCheck
  /\ consumer' = "decide"
  /\ result'   = pending
  /\ UNCHANGED <<faults, world, cache, due, raised, proc, history, sends>>

Drop ==
  /\ worker = "sending"
  /\ ~Ctx
  /\ NextCheck
  /\ UNCHANGED <<faults, world, cache, inhand, raised, proc, history, sends>>

-----------------------------------------------------------------------------
(* decideDomain.  FindRecentAlerts looks back a number of days. *)
Recent(t, days) == loggedOn[t] >= now - days * DayLength

DegradedLogged == \E t \in Sends : /\ outcome[t] \in Deliv!Logged
                                   /\ raised[t[1]].kind = "degraded"
                                   /\ Recent(t, DegradedWindow)

Told(alert) == \E t \in Sends : outcome[t] = "sent" /\ raised[t[1]] = alert

ToldLately(alert) == \E t \in Sends : /\ outcome[t] = "sent"
                                      /\ raised[t[1]] = alert
                                      /\ Recent(t, Window)

(* No lookup has succeeded for more than DegradedAfter, though one has. *)
Unverified(okAt) == okAt # 0 /\ now - okAt > DegradedAfter * DayLength

Verdict ==
  LET band == Band(result.days, Thresholds)
  IN IF ~result.ok
     THEN IF Unverified(cache.lastOkAt) /\ ~DegradedLogged THEN Degraded ELSE Nothing
     ELSE IF band = 0 \/ ToldLately(Expiring(band, result.expiry)) THEN Nothing
     ELSE Expiring(band, result.expiry)

Forget == consumer' = "select" /\ result' = Failed /\ due' = Nothing

(* Engine.Process, and the refresh of last_check_at that follows it. *)
Decide ==
  /\ consumer = "decide"
  /\ StoreAccepts
  /\ IF Verdict = Nothing THEN Forget
     ELSE due' = Verdict /\ consumer' = "dispatch" /\ UNCHANGED result
  /\ UNCHANGED <<world, cache, check, raised, proc, history, sends>>

(* A read the store refuses drops the result. *)
Refused ==
  /\ consumer = "decide"
  /\ StoreRefuses
  /\ Forget
  /\ UNCHANGED <<world, cache, check, raised, proc, history, sends>>

Raise ==
  /\ consumer = "dispatch"
  /\ Len(raised) < MaxAlerts
  /\ Deliv!Accept({t \in Sends : t[1] = Len(raised) + 1})
  /\ raised' = Append(raised, due)
  /\ Forget
  /\ UNCHANGED <<faults, world, cache, check, loggedOn, proc, history>>

(* The sends, as far as Delivery tells: what has left may arrive without   *)
(* the process.  A row is stamped when written.                            *)
SendStep ==
  /\ \E t \in Sends : \/ Deliv!Depart(t)
                      \/ Deliv!Deliver(t)
                      \/ \E o \in Deliv!Logged \cup {"lost"} : Deliv!Settle(t, o)
  /\ loggedOn' = [t \in Sends |-> IF outcome'[t] \in Deliv!Logged /\ outcome[t] = "pending"
                                  THEN now ELSE loggedOn[t]]
  /\ UNCHANGED <<faults, world, cache, check, inhand, raised, proc, history>>

-----------------------------------------------------------------------------
(* The process: the signal, its end at leisure or at any moment, its start. *)
Cancel == /\ proc = "running"
          /\ proc' = "stopping"
          /\ UNCHANGED <<faults, world, cache, check, inhand, raised, history, sends>>

Stop == /\ proc # "stopped"
        /\ proc' = "stopped"
        /\ NextCheck
        /\ Forget
        /\ Deliv!LoseAll
        /\ UNCHANGED <<faults, world, cache, raised, history, loggedOn>>

Restart == /\ proc = "stopped"
           /\ proc' = "running"
           /\ UNCHANGED <<faults, world, cache, check, inhand, raised, history, sends>>

(* The world: a renewal, sources that fall silent for good (a lookup may   *)
(* fail without that), time.                                               *)
Renew == /\ registration < Registrations
         /\ registration' = registration + 1
         /\ renewedAt'    = now
         /\ UNCHANGED <<now, answering>>

FallSilent == /\ answering
              /\ answering' = FALSE
              /\ UNCHANGED <<now, registration, renewedAt>>

Tick == /\ now < MaxTime
        /\ now' = now + 1
        /\ UNCHANGED <<registration, renewedAt, answering>>

World == /\ Renew \/ FallSilent \/ Tick
         /\ UNCHANGED <<faults, cache, check, inhand, raised, proc, history, sends>>

EndLookup == LookupFailed \/ \E s \in Sources : LookupAnswered(s)

Next == \/ AnswerFromCache \/ Lookup \/ EndLookup \/ Take \/ Drop
        \/ Decide \/ Refused \/ Raise \/ SendStep
        \/ Cancel \/ Stop \/ Restart \/ World

(* The worker's timer fires, a lookup has its timeouts, the goroutines run *)
(* and time passes.  No source, store, send or restart is relied on.       *)
Fairness == /\ WF_vars(AnswerFromCache \/ Lookup) /\ WF_vars(EndLookup)
            /\ WF_vars(Take \/ Drop) /\ WF_vars(Decide \/ Refused) /\ WF_vars(Raise)
            /\ WF_vars(World /\ now' # now)

Spec     == Init /\ [][Next]_vars
FairSpec == Spec /\ Fairness

-----------------------------------------------------------------------------
AlertRecords == [kind : {"none", "degraded", "expiring"}, band : Nat, key : Nat]

(* The types; and a row knows a date exactly if a lookup has succeeded.    *)
TypeOK ==
  /\ now          \in Times
  /\ registration \in 1..Registrations
  /\ renewedAt    \in 0..now
  /\ answering    \in BOOLEAN
  /\ faults       \in 0..MaxFaults
  /\ cache        \in Rows
  /\ cache.expiresAt = 0 <=> cache.lastOkAt = 0
  /\ worker       \in {"timer", "lookup", "sending"}
  /\ began        \in 0..now
  /\ seen         \in Rows
  /\ pending      \in Results
  /\ consumer     \in {"select", "decide", "dispatch"}
  /\ result       \in Results
  /\ due          \in AlertRecords
  /\ raised       \in Seq(AlertRecords)
  /\ loggedOn     \in [Sends -> 0..now]
  /\ proc         \in {"running", "stopping", "stopped"}
  /\ asked        \in 0..now
  /\ verifiedAt   \in 0..now

(* The cache never passes an old date off as a new one: a date it holds is *)
(* that of the current registration, unless this one began no earlier than *)
(* the lookup last_ok_at stands for, through failed lookups, refused calls *)
(* and restarts.                                                           *)
CacheTruthful ==
  cache.expiresAt # 0 =>
    \/ \E s \in Sources : cache.expiresAt = ExpiryBy[registration][s]
    \/ renewedAt >= cache.lastOkAt

(* domain.go:22, "cached in storage so we don't re-hammer registrars":     *)
(* once the row knows a date no two lookups begin within CacheTTL, failed  *)
(* ones and those of earlier processes counted, unless the store refuses   *)
(* the read or the earlier lookup's row was never stored.                  *)
LookupsSpaced ==
  [][(worker = "timer" /\ worker' = "lookup" /\ cache.expiresAt # 0
        /\ asked # 0 /\ seen' = cache) => now - asked >= CacheTTL]_vars

(* domain.go:105, "keep last_ok_at if we have it": no step loses the time  *)
(* of the last success, save that of a check whose own read was refused.   *)
LastOkKept ==
  [][cache'.lastOkAt < cache.lastOkAt => seen = NoCache]_vars

(* README.md:102, lookups "failing for >3 days": no degraded alert is      *)
(* decided on within DegradedAfter of a check whose lookup succeeded and   *)
(* was stored, be it a check that began after the one that failed.         *)
DegradedHonest ==
  [][(due' # due /\ due'.kind = "degraded") =>
       verifiedAt # 0 /\ now - verifiedAt > DegradedAfter * DayLength]_vars

(* Once a row says that an expiry alert was sent, no other is decided on   *)
(* for the same band and date while the date lies ahead, as long as every  *)
(* threshold is less than the window: however long a result waits, and     *)
(* whether its date came from the cache or from a source.                  *)
ThresholdsWithinWindow == \A t \in Thresholds : t < Window

Repeats == due' # due /\ due'.kind = "expiring" /\ Told(due')

NeverTwice == [][(ThresholdsWithinWindow /\ now <= due'.key) => ~Repeats]_vars

(* README.md:102: with every lookup failing for longer than DegradedAfter, *)
(* and no row of an alert that says so, one is raised: neither the cache's *)
(* answers nor the times failed lookups store hide it.  A refused read may *)
(* put it off by a CacheTTL, and a clock at its bound leaves the cache     *)
(* answering for ever; no alert is raised after the last.                  *)
MustTell == /\ cache.lastOkAt = verifiedAt
            /\ Unverified(verifiedAt)
            /\ ~answering
            /\ Ctx
            /\ ~DegradedLogged

DegradedFires ==
  \A n \in 0..(MaxAlerts - 1), f \in 0..MaxFaults :
    (MustTell /\ Len(raised) = n /\ faults = f /\ now + CacheTTL <= MaxTime)
      ~> \/ \E i \in (n + 1)..Len(raised) : raised[i].kind = "degraded"
         \/ Len(raised) = MaxAlerts \/ faults > f
         \/ ~MustTell

(* config.example.yaml:31-32, "Each threshold fires once per               *)
(* cert/registration; renewals re-arm them": whichever source gave the     *)
(* dates.                                                                  *)
SameRegistration(d, e) ==
  \E r \in 1..Registrations, s, u \in Sources : d = ExpiryBy[r][s] /\ e = ExpiryBy[r][u]

OncePerRegistration ==
  [][(due' # due /\ due'.kind = "expiring") =>
       ~ \E d \in Dates : /\ SameRegistration(d, due'.key)
                          /\ Told(Expiring(due'.band, d))]_vars
=============================================================================
