# Domainturva in TLA+

TLA+ models, TLC runs and TLAPS proofs for *domainturva*, the Go daemon that
checks web sites over HTTP, their certificates and their domain registrations,
and alerts over Slack and mail. Source paths below are relative to the
repository (`src/` here).

## The system

One process (`cmd/domainturva`, `run`) on one SQLite database:

| part | state it keeps | operations | concurrency and failure |
| --- | --- | --- | --- |
| HTTP, SSL, domain checkers (`internal/checker`) | none; the domain checker caches in `domain_cache` | `Check(ctx, site)` returns a result | HTTP retries against a deadline; every dial and request may time out or be cut by the context |
| scheduler (`internal/scheduler`) | a goroutine per (site, check), a bounded channel of results, one consumer, a `WaitGroup` | `Run`, `runWorker`, `runOne`, `consume`, `process` | selects with several ready cases, full channel, shutdown |
| alerting engine (`internal/alerting`) | none; reads `site_state`, `alert_log`, `domain_cache` | `Process` → new row and alerts | its reads are stale as soon as they return |
| dispatcher (`internal/notifier/dispatcher.go`) | one goroutine per recipient | `Dispatch`, `sendOne`, `record` | nobody waits for the goroutines; one retry after 30 s; shutdown aborts the wait |
| notifiers (`slack.go`, `smtp.go`) | none | `Notify` | lost and late answers; a request arrives after its client gave up, a mail conversation outlives its `Notify` |
| storage (`internal/storage`) | `site_state`, `alert_log`, `domain_cache`; durable | get, upsert, append, find | refuses calls under a cancelled context; errors are logged and dropped by most callers |
| health endpoint (`internal/health`) | start time | `GET /healthz` | reads the rows while the consumer writes them, rows that outlive the process; its failure stops the monitor |
| configuration (`internal/config`) | the parsed file | `Load` (defaults, then `Validate`), `NotifiersFor` | none |
| migrations (`storage/sqlite.go`) | `schema_migrations`, the schema | `OpenSQLite`, `migrate` | killed between two calls; a second process on the same file |
| process (`main.go`) | the context | signal, health failure → cancel; exit | killed at any moment, restarted by a supervisor |

A result travels worker → channel → consumer → (`Process`: read the row, decide)
→ write the row → dispatch → a goroutine per recipient → a row of `alert_log`.
Nothing ties these steps together: that is where the properties are. What makes
each part correct:

- dispatcher: a bounded number of copies, a log that tells the truth, an
  outcome for every send;
- scheduler: no result lost, doubled, reordered or starved before shutdown;
  shutdown ends, and ends last;
- engine: a page for every transition of the stored state and no other; the
  downtime told is that of the outage told;
- expiry alerts: one per threshold band and certificate;
- checkers: as many attempts as promised, in bounded time; a cached date that is
  never an old registration's, lookups no closer than the cache's lifetime;
- degraded monitoring: told when every lookup fails for too long, and only then;
- health: a 503 only of a worker that is behind, or has not begun;
- start: a whole schema, a configuration the rest can rely on, and nothing left
  behind that keeps the next start from coming up.

`PROJECT.json` lists the hazards at their lines, with the properties that watch
each one.

## Modules

| module | models | of |
| --- | --- | --- |
| `Delivery` | what one send promises; abstract specification | `notifier/dispatcher.go` |
| `Dispatcher` | sends, retries, the alert log's rows, the process | `dispatcher.go`, `slack.go`, `smtp.go`, `main.go` |
| `Alerting` | `Process`, `decideHTTP` as functions | `alerting/alerting.go` |
| `UptimeMonitor` | consumer, `site_state`, routing; instantiates `Dispatcher`, extends `Alerting` | `scheduler.go`, `config.go`, `sqlite.go` |
| `Pipeline` | what the scheduler promises for results; abstract specification | `scheduler.go` |
| `Scheduler` | `Run`, workers, channel, consumer | `scheduler.go` |
| `Expiry` | bands and whole days as functions | `alerting.go`, `ssl.go`, `domain.go` |
| `CertMonitor` | SSL checks, the dedup on `alert_log`; instantiates `Dispatcher`, extends `Expiry` | `alerting.go`, `ssl.go`, `sqlite.go` |
| `DomainMonitor` | domain checks, `domain_cache`, both domain alerts; instantiates `Delivery`, extends `Expiry` | `domain.go`, `alerting.go`, `sqlite.go` |
| `HttpCheck` | the retry loop of one check | `checker/http.go` |
| `HttpLoop` | the worker that repeats it, its rows, `/healthz`; extends `HttpCheck` | `scheduler.go`, `health.go` |
| `Startup` | `run` until the scheduler starts: configuration, migrations, notifiers | `main.go`, `config.go`, `sqlite.go` |

`MC<M>` gives names to the constants of `<M>` for TLC, `MC<M>_<run>.cfg` is one
run, `<M>Proofs` holds the theorems about `<M>` (`HttpLoopProofs` those about `HttpCheck` too). Each module defines, in a section of its own, a few
variants of its operators with a mistake one could make there (a dropped guard,
an off-by-one); `PROJECT.json` names for each property the variant that breaks
it. They take part in no specification.

### Dispatcher

A send is a pair ⟨alert, slot⟩, the slot being the recipient's place in the list
`Dispatch` is given; each is one goroutine. `pc` follows `sendOne`: `try1`,
`wait`, `try2`, `record`, `done`. An attempt is split where it matters: with `Leave`
its message is on the way, with `Reach` the endpoint has it, `Succeed` and `Fail` are the
return of `Notify`. So an answer may be lost after the message was taken, and a
request the client gave up after its 10 s, or that was cut by the context, may still be on
its way: it is counted in `late` and `ReachLate` may deliver it at any time, after the retry, after
the `failed` row, after the process. A Slack request
carries the context and does not leave once that is cancelled; the mail conversation does
not carry it, and `Abandon` is `SMTP.Notify` returning on `ctx.Done()` while its goroutine goes on,
whose message is late in the same way. What a row of the log promises is hence that no message *leaves*
after it (`Departed`, `LoggedIsLast`), not that none arrives. `Delivery` says the same with its
two counters, `departed` and `copies`. `RetryTimer` and
`AbortRetry` are the two cases of the select; once the context is cancelled
either may be taken. `Record` needs a context that is alive, because
`database/sql` refuses a cancelled one; `StoreFaults` lets it refuse for reasons
of its own. `Cancel`, `Stop`, `Start` are the signal (or the health server's
failure), the end of the process, orderly or killed, which freezes its goroutines, and
its restart on the same database. A `Notify` whose error comes with a dead
context is a `Fail` like another.

### UptimeMonitor

The consumer's iteration is four steps, because the store and the clock may
change between them: `Take` (the select), `Decide` or `ReadRefused`
(`GetSiteState` and the decision), `Save` or `SaveRefused`, `Page`. The refused
write is logged and the page goes out all the same, as in `process`. A result
that a cancelled check returned is marked `cut`; nothing in the code reads this
mark, it says what the property is about. `told`, `repeats` and `slips` are
history: the last page, pages of the same kind in a row, and the times a refused write or
a process that ended could part the row from the pages. SSL and domain results
(`other`) refresh the row and raise nothing here. Time is a counter that `Tick`
advances whenever it likes.

### Scheduler

One worker per job with its own `pc`, the channel as a bounded sequence, the
consumer, the `WaitGroup`'s counter. Jitter and intervals are a timer that may
fire. `Enqueue`/`Drop` are the select of `runOne`, `Fire`/`ExitWorker` that of
`runWorker`, `Dequeue`/`ExitConsumer` that of `consume`. A result is its job and
its number. The channel is never closed in the code, so the `!ok` branch has no
action. `OnItsWay` names the three places a result may be in between `Check` and
the end of `process`; `NothingLost` says that what a job made and nobody has
processed is in one of them, and in the order it was made in. `Pipeline` forgets the
places: per job a set of results that wait, the oldest processed first, none
lost before the signal, nothing made or processed when it is over. `Scheduler` implements it, a result
waiting while it is `OnItsWay`.

### CertMonitor

One site that serves one of several certificates, now one and now another
(renewal, roll-back, load balancer). `CheckSSL` is `SSLChecker.Check` in the worker, which fixes
the days left and whether the chain verifies; `Take` and `Drop` are the way of the result to the
consumer, `Decide` the engine's reading of
`alert_log` and its decision, `Raise` the dispatch. `loggedOn` is `sent_at`. The
clock has `DayLength` ticks to a day, because `DaysUntilCertExpiry` is a number
of hours divided by 24 and cut off, so that a band reaches almost a day further
than its threshold says. Time passes between any two of these steps, and a send
takes as long as it likes: a result may be judged long after its check. That is why `NeverTwice` is about
a certificate that is still valid when it is judged; a result of its last days that waits until after its end
may find the row gone from the window, and the alert is raised again. Days of validity before `NotBefore` and the
self-signed kind of untrusted are left out: they do not change the decision.

### HttpCheck

Attempts, pauses and the deadline with a clock of 100 ms ticks. An attempt ends
by its time-out at the latest; a timer may be `Late` ticks late. `CutShort`, the context's case of
the select in a pause, returns `down` like any failure, as the code does. What a response must look like to be `up`
is a choice of the environment.

### HttpLoop

One worker in time: `Fire` and `EndWorker` are the select of `runWorker`,
`CheckStep` a step of `HttpCheck`, `Send` the end of `runOne` with the timer's
`Reset`, `Apply` and `ApplyRefused` what `process` makes of the row. The worker is
that of the site with the longest interval, the one `staleThreshold` is
reckoned from; `OtherResult` is a result of that site's SSL or domain check, which refreshes the row's
`last_check_at` just as well, `OtherSite` a result of another site. `age` and `others` are the ages of
the rows, which survive `Exit`, and `up` that of the process, which does not. `Poll` is a request to
`/healthz`: `healthState` skips each row it cannot read on its own, so the arguments say which rows it
could read. Its answer is `ok`, `stale`, or `blind` where it was stale without having seen the site's row.
`DownIsExhausted` is about what `Apply` stores: a check cut short is down like any other, and it
is the store's refusal under the cancelled context, and the end of the channel with its process, that keep it out
of the row. `Pass` is time: an
attempt ends by its time-out, a timer is at most `Late` late and a result waits
at most `Delay` for the consumer; the last two are assumed of the machine.

### DomainMonitor

One site, its row of `domain_cache`, and the sources: RDAP, asked first, and WHOIS.
`AnswerFromCache` and `Lookup` are the first half of `DomainChecker.Check`,
`LookupAnswered` and `LookupFailed` the second, as a lookup takes time and
`EndCheck` is what happens to the row when it is over; a renewal, a signal, a
crash may come between. A date is a member of
a small set, one for each registration and source. A refused read of the cache is
taken for a missing row (`BeginLookup(NoCache)`) and a refused write is dropped, as
in the code. `Decide` reads the row again, as `decideDomain` does, which is not
always the row the failed lookup saw. The sends are `Delivery`'s, the abstract
specification that `Dispatcher` implements, so that a row of `alert_log` may come
late, be `lost`, or say `failed`, and a message may arrive after its row or its process. `Cancel`, `Stop`, `Restart` are the process, `Renew`,
`FallSilent`, `Tick` the world. `asked` and `verifiedAt` are history: the beginning of
the last lookup, and of the last successful one that was stored.

### Startup

Each process follows `pc`: `load`, the calls of `OpenSQLite` (`table`, `query`,
`rows`, `migrate`, `tx`), `running`. `ApplyDefaults`, `Validate`, `Loads`, `NotifiersFor`
and `BuildNotifiers` are functions of a record of what the file says, 0 or empty for
what it leaves out. `Query` may return fewer versions than there are, because nobody asks
`rows.Err`. A transaction takes the database's write lock at its first statement
and gives it back in `Commit`, or in `Exit`, which is a kill as well as an `os.Exit`;
`LockTimeout` is `busy_timeout`, `RowRefused` the primary key of
`schema_migrations`. A statement is only its number. A `CREATE ... IF NOT EXISTS` that
finds its table does not need the lock in SQLite; here it does, which orders two
migrations earlier than SQLite would and leaves the conflict at the row as it is.
`RaceHasWinner` rests on there being one migration, as there is today: with two, TLC
shows a process that times out on the lock of another, which is then refused its row, so
that both end. `StartHeals` and the theorems hold with any number.
SQLite, the YAML library and the parsers of URLs and addresses are external.

## Runs

| run | question | instance |
| --- | --- | --- |
| `dispatcher_sends` | copies, the log's truth and last word, `Delivery`; Slack ends though mail hangs, cancelling ends all | 1 alert × {mail, Slack, Slack} or Slack alone, store faults, crash and restart |
| `scheduler_results` | `Pipeline`: nothing lost, doubled or overtaken, nothing late; none starved; shutdown ends, `Run` is last | 2 jobs, capacity 2, 3 checks each |
| `uptime_pages` | pages against rows | 2 sites, 3 pages, 2 slips and 2 failures each, 2 clock values beyond 0, no recipients |
| `uptime_live` | an outage reaches Slack; the monitor is a user of `Dispatcher` | 1 site, 2 pages, one recipient by default, one kind with its own route |
| `cert_alerts` | no alert twice, none swallowed | 2 certificates, 1 threshold, a window one day longer, 1 alert and the decision on the next, 5 half-days |
| `domain_lookups` | a truthful cache, lookups apart, both domain alerts | 2 registrations, 1 source, 1 alert, 1 recipient, 1 refused call, 4 days; cache lifetime 2, window 2 days, degraded after 0 days |
| `http_loop` | an unfinished check is not stored as down, rows keep coming, a 503 of `/healthz` has its reason | 3 attempts of 2 ticks, interval 5, timers and queue up to 1 tick late, one other site, store faults, restarts |
| `startup` | whole schema, sound configuration, starts that heal | 2 processes, one migration of 4 statements as in the repository, 19 files, 2 faults |
| `dispatcher_settles`, `uptime_paged`, `domain_sources`, `health_grace` | disagreements, below | small instances |

Why these bounds suffice. Sends do not interact except through the process and
the store, and an alert is nothing but the set of its sends, so three sends show every
pair of positions, those of one alert to one channel twice included. Two jobs with
three checks each over two places make a full channel
of one's results with the other waiting behind it. Three pages are down, recovered, down of
one site, two slips one refused write and one crash; the second site shows what
is another row's. `uptime_pages` has no recipients: what becomes of a page
after `Dispatch` is `dispatcher_sends`'s, and `ImplementsDispatcher` (checked
in `uptime_live`, proved in general) carries it over. In `cert_alerts` the first
certificate is in its band from the start and expires just before its row leaves
the window: this is the tight case of a threshold one less than the window. One alert
is raised; `NeverTwice` and `UntoldIsDue` are about what the engine decides on next, which is in `due`
whether or not `MaxAlerts` lets it be raised.

In `domain_lookups` a day is one tick; four of them hold a lookup, its lifetime of
two in the cache, a second lookup that fails or finds the renewal, and the decision
on it. The first date lies on the last of them, so that its band, the alert
sent for it and the check that must not repeat it all fall inside.
One alert is enough because each property speaks of one alert and a decision: `due` is
set whether or not `MaxAlerts` lets it be raised. One refused call suffices for
each that is dropped in the code; a second one adds a second exempted check.
A longer clock or a `DegradedAfter` of 1 takes longer than a run should; the
theorems hold for all of them. In `http_loop` the third attempt is made if the first two
fail early and is given up if they use their time-outs up, and the longest
check (7 ticks) is longer than the interval (5), which is
what makes a row older than two intervals while the worker lives. One other site is enough for a request that
reads its row and not the site's own, or the reverse. Ages are counted up to the first value past all
they are compared with. `startup`'s two
faults let a first process be killed in its transaction and a second one
misread the versions; its files are a full one, one that says
nothing it may leave out, and variations of them, most with one mistake.

Deadlock is left unchecked where the system may stop: the scheduler's `Run`
returns, and the counters that bound `UptimeMonitor` (`MaxPages`, `MaxTime`) run
out. The other modules are checked for it: there the process can always be started again.

### Fairness

Only what the runtime and the libraries give is assumed.

- Goroutines that can go on do (weak fairness): the consumer, the steps of a
  send, a timer.
- Slack's client has a 10 s time-out, so `Notify` returns. The mail
  conversation has none: `Abandon` alone is fair, and only a cancelled context enables it.
- A blocked sender waits in the channel's FIFO queue, and a select picks among
  ready cases at random: `Enqueue`, `ExitWorker` and `ExitConsumer` are strongly fair.
- A stopping process ends and a stopped one is started again (`UptimeMonitor`); the
  SSL timer fires again and again and not every dial fails (`CertMonitor`).
- The domain worker's timer fires, and a lookup ends, as each of its requests has a
  time-out; time passes (`DomainMonitor`, the only module that needs it: the cache's
  lifetime has to end). That a lookup succeeds, a send, a restart or a call on the store
  is not assumed.
- A starting process goes on (`Startup`): no context reaches `OpenSQLite` and a lock
  is waited for at most `busy_timeout`. Who starts, stops or is killed is free;
  `StartHeals` and `RaceHasWinner` are about what happens after the last fault.
- `HttpLoop` has time-outs instead of fairness: its properties are bounds.
- Never assumed: that an endpoint takes a message, a signal, a crash, a result.

### Disagreements with the text of the repository

1. `EverySendSettles`, `smtp.go:114`: a mail server that stops answering holds
   a send in `Notify` for ever, and it is never recorded. It may be the first attempt that hangs, which is then never
   retried, or the retry; TLC's trace may be of either.
2. `OutagePaged`, `dispatcher.go:45`: the row says *down* before the page goes
   out and the process does not wait for it; a stop before its sends are over, in an attempt, in the
   retry's 30 s or already before the dispatch, and nobody is ever told.
3. `OncePerRegistration`, `alerting.go:263`: the dedup key of a domain alert is the
   formatted date. RDAP gives the time of day and most WHOIS servers do not, so
   the other source's answer raises the same threshold of the same registration again.
   (`AgreeingSourcesTellOnce`: it takes sources that differ.)
4. `StartupGrace`, `health.go:108`: the grace after start-up counts only if there is no
   row at all. A process restarted after a pause is stale at once, by the row of
   its predecessor, until its first result is stored. (`GraceWithoutOldRows`: only by rows older
   than the process, its predecessor's or, where its own cannot be read, another site's.)

Seen on the way, and without a run of their own:

- a send given up on the cancelled context is recorded with that context, hence not at all (`dispatcher.go:56`);
- with `ssl_warn_days` of 90 or more, which `Validate` accepts, the row of an alert leaves the
  90-day window before its certificate leaves the band, and the alert is raised
  again (`alerting.go:191`): `NeverTwice` of `CertMonitor` has the condition;
- the attempt after a pause may end after the interval (`http.go:65`): `ElapsedBounded`
  has the bound that holds;
- a check that is cut by the context at a pause returns a plain down result (`http.go:61`), and one that has no time for
  another attempt ends early, although `http.go:45-46` says a failure is reported only after all attempts
  and `alerting.go:45-46` relies on it. `DownIsExhausted` has what holds of the results that are stored;
- a certificate's result that is judged after its end may have its alert raised again, as the row may have left the
  window by then, and an alert under way is raised again by the next check, although `config.example.yaml:31-32` says
  that each threshold fires once. `NeverTwice` claims neither: it counts from the row on, and until the end of validity;
- a cache read that is refused, followed by a failed lookup, erases `last_ok_at` (`domain.go:93`),
  and `degraded_monitoring` needs it: `LastOkKept` has the exception. A
  domain that has never been looked up is never called degraded either;
- as a failed lookup refreshes `last_lookup_at` and keeps the date, days are counted from a date
  of any age (`domain.go:94`); `CacheTruthful` says what may be relied on;
- an expired domain that nobody renews is told again after the window of 365 days, as the band of a
  negative number of days is the smallest threshold: `NeverTwice` of `DomainMonitor` ends at the date;
- the results of SSL and domain checks refresh `last_check_at` (`OtherResult`), so `/healthz` may say
  200 while no HTTP check is made, against `README.md:116`, "at least one HTTP check"; no property says what a 200 means;
- a row that cannot be read is skipped (`health.go:131-133`), and `/healthz` then judges by another site's, which may be old;
- a site that is up and slow may make it say 503, as a check may take longer than its interval (`Slow`);
- negative SSL and domain intervals pass `Validate`;
- a process that loses the race for a first migration exits at the primary key, and comes up when started again.

## Proofs

All for any values of the constants within the modules' `ASSUME`s, which say no
more than: Slack and mail are notifiers, there is a site, a job, a place in the
channel, a certificate; counts and times are natural numbers; thresholds are
positive, as `Validate` demands; a day is not empty; the interval is no shorter than
the margin of the deadline, and neither a timer nor the queue is later than an interval;
a configuration is a record with the fields of the file. The bounds (`MaxPages`, `MaxTime`, ...) are any
natural numbers.

- **DispatcherProofs.** `IInv` adds to the types, for each send, a budget (copies
  plus messages that may still arrive: none before the first attempt, one before the
  second, two at the end), that whoever says "sent" has a copy, and that a logged
  send is over, so that nothing of it can leave any more. `AtMostTwoCopies` and
  `LoggedIsLast` are not inductive without these. Steps of one send leave the
  others alone (`StepIsLocal`). `Refinement`: each action is a step of
  `Delivery`, or none, under the mapping `Outcome`.
- **SchedulerProofs.** `WgCounts` (the counter is the number of goroutines
  alive) and `Phases` (goroutines start before `Run` waits): so at zero, and
  only then, everybody is gone, and the counter never goes below zero. `LineInv`
  follows the line a job's results stand in, held by the consumer, in the channel,
  held by the worker: it is `Ordered`, and before the signal nothing made and unprocessed is
  missing from it. `Dequeue` and `Enqueue` move one result from a place to the
  next, which is why both are invariant. `Refinement`, that the scheduler implements
  `Pipeline`, takes one lemma per action about what it does to the line
  (`CheckReturnsWay`, `EnqueueWay`, ...): a result is in one place only, so that whoever
  gives one up or is done with it takes it off its way, and the one that is held is
  the oldest. `NobodyWaitsForAll` is the absence of deadlock: a worker that finds
  the channel full finds a consumer that takes from it, since the consumer ends only after
  the signal (`Signalled`), and then the worker need not wait.
- **UptimeMonitorProofs.** `SiteInv` relates a site's row, its last page and the
  decision in hand: repeats, plus one if row and page disagree, are no more than
  slips; without a slip the row's change is the time of the page. `DecidedOn`
  carries the row that was read from `Decide` to `Save`. The consumer alone writes
  rows, which is why it stays true. `UsesDispatcher` proves the composition:
  `RoomInv` shows that the next page's sends have never been started. With it the
  dispatcher's theorems are the monitor's: an instance of `DispatcherProofs` over the
  monitor's variables, whose assumptions are `RecipientsAssumption`, gives
  `PageCopiesBounded`, `PageSentIsTrue` and `PagesAreDelivered`. `RecipientsAreRouted` follows a send
  back to a page that was raised and to the recipient `NotifiersFor` has in its place.
- **HttpLoopProofs.** For `HttpCheck`, one formula per phase: what an attempt, a pause and a
  result know of the clock and of the attempts made. `Quick` adds how much time
  the attempts so far can have taken, which gives `LongestCheck` as the shorter of
  two bounds. `InTransit` and `Fresh` then relate the age of the latest row to where the
  worker is: the timer, the check or the queue account for all of it. Hence
  `RowsKeepComing`, and with it what a 503 of `/healthz` can mean: the site's own row, if it was read, is among those
  that were too old. `LoopDownIsLast`: a queued result is the last check's, and while the context lives that check was not cut. `TimeGoesOn`: the bounds
  are not met by a clock that stands still; where time may not pass, the guard of a step
  of the worker or of the consumer holds. `GraceWithoutOldRows` is what is left of the
  start-up grace: a row the process stored itself is no older than the process, so reading it is enough.
- **CertMonitorProofs.** `Dated`: a result, pending or in hand, and an alert due, raised or logged for a band at time t
  speak of a certificate with less than band + 1 days left at t, as `WholeDays`
  rounds down and days left only shrink while a result waits. A row out of sight is older than the window; so a certificate
  whose band is below the window has expired by then, and `NeverTwice` no longer speaks of it. `UsesDispatcher` and `AlertsAreDelivered` are the composition, as for
  the pages. `Told` reads a row of the log; `OnlyTheToldAreSilenced` (by the dispatcher's
  `SentIsTrue`) says that behind it is a message that arrived, and `ToldIsFinal` that
  no later step unsays it.
- **ExpiryProofs.** Facts about bands and whole days that both expiry proofs use:
  a band is a threshold the days have crossed, and days that are rounded down are
  within a day of the time they stand for.
- **DomainMonitorProofs.** `CacheKnown` ties the row to the last lookups
  (`asked`, `verifiedAt`) and to the row a lookup under way has read; `CacheTruthful`
  ties its date to the registrations. `Dated` bounds, for each alert and send, the days that can
  have passed since: an alert's key lies less than band + 1 days after it was logged, so
  a row that has left the window is about a date that is past. `UsesDelivery`: the
  sends are used as `Delivery` allows (a new alert's have never been accepted), which `Dispatcher`
  implements. `OnlyTheToldAreSilenced` and `ToldIsFinal` are as for certificates.
  `AgreeingSourcesTellOnce` follows from `NeverTwice`: what the configuration's comment
  promises holds where the sources give one date, until that date.
- **StartupProofs.** `LoopInv`: what a process read, and what its loop is past, is on disk.
  `TxInv`: a transaction with a statement in it holds the lock, and nobody commits
  its version while its row is inserted. `ConfigInv`: a process past `Load` has a configuration that
  is valid *with* the defaults. The schema's wholeness needs the first two, the rest the third.
  The safety half of `StartHeals` is proved in three parts: `StartsAdvance` (each step ends
  the process or brings it forward: stage, file, statement), `StartsGoOn` (one of its steps is
  always possible, but for another's lock) and `AloneComesUp` (with no fault and no
  rival to come, it stays on a course with no refused row and no lock to wait for). They rest on
  `HoldingInv`, who holds the lock and the connection and since when: `NothingIsHeldOnto`.

Only model-checked: the liveness properties (`SlackSettles`, `CancelEndsSends`,
`Terminates`, `EveryResultProcessed`, `OutageReachesSlack`, `UntoldIsDue`,
`DegradedFires`, `StartHeals`, `RaceHasWinner`), which need fairness and are out of the
prover's reach; and the disagreements, which are counterexamples.
The steps of `StartHeals` and of `Terminates` that are not about fairness are theorems: `StartsAdvance`,
`StartsGoOn`, `AloneComesUp`, `NobodyWaitsForAll`.

Every other property of a run is a theorem. Some theorems state what no run lists,
because a property of a run implies it on the instance or because it is a fact about
the composition; TLC found each of them to hold on the instance of the module's run before it was proved:
`ResultsKept`, `ProcessedInOrder` and `NobodyWaitsForAll` of the scheduler; `PageCopiesBounded`, `PageSentIsTrue`,
`PagesAreDelivered`, `RecipientsAreRouted`, the certificate monitor's
`UsesDispatcher` and `AlertsAreDelivered`, and the domain monitor's `UsesDelivery`;
`OnlyTheToldAreSilenced` and `ToldIsFinal` of both; `NothingIsHeldOnto` and the three parts of a start; and `LoopTimeBounded`,
the bound of a single check, without which `RowsKeepComing` would fail; and `TimeGoesOn`,
`GraceWithoutOldRows` and `AgreeingSourcesTellOnce` (the last on an instance of its own, with two sources that agree).

## Plan

Done, in order of importance: what becomes of an alert (`Dispatcher`), of a
result (`UptimeMonitor`, `Scheduler`), of a certificate (`CertMonitor`), of a
registration (`DomainMonitor`), of a check and of the endpoint that judges it
(`HttpCheck`, `HttpLoop`), of a start (`Startup`). What is left:

1. The whole: workers, consumer and several kinds of results in one module,
   shown to implement `Scheduler` and `UptimeMonitor`. Today they share the steps
   of the consumer by construction only.
2. `AlertLog`: `formatTS`, the order of the texts and of the times,
   `FindRecentAlerts` over them. Against windows of days it can tell nothing apart.

## Not modelled

- Message texts, Slack blocks, MIME, durations in words, logging: no property is about them.
- TLS handshakes, certificate chains, RDAP and WHOIS servers and the parsing of their
  answers, the network: the environment, by the outcomes the code tells apart.
- Expansion of environment variables, YAML, URLs and addresses: a file is `readable` or
  not, a scheme or an address one of a few.
- The order of `sent_at` as a text (`sqlite.go:114`): see the plan.
- `check` and `validate` (`main.go`) have no state of their own: `validate` is `Loads`, `check` calls the
  three checkers once and in turn on `storage/memory.go`. The console notifier and the in-memory store serve them and
  the tests only; the daemon uses neither.
- `buildinfo`: no state.
