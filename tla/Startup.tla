------------------------------ MODULE Startup ------------------------------
(***************************************************************************)
(* How a process comes up: `run` (cmd/domainturva/main.go) loads the       *)
(* configuration (internal/config/config.go), opens and migrates the       *)
(* database (internal/storage/sqlite.go), builds the notifiers and starts  *)
(* the scheduler.  A process may be killed at any step, a call on the      *)
(* database may fail, and a second process may start on the same file.     *)
(*                                                                         *)
(* A configuration is a record of what the YAML says, 0 or empty for what  *)
(* it leaves out; its meaning is what applyDefaults and Validate make of   *)
(* it.  The YAML library, the URL and address parsers and SQLite are not   *)
(* under src/: a parse succeeds or not, and SQLite is a database with      *)
(* atomic transactions, one writer at a time and a primary key.            *)
(*                                                                         *)
(* An operator with a suffix in its name is a variant of the one after it, *)
(* with a mistake one could make in that code.                             *)
(***************************************************************************)
EXTENDS Integers, Sequences

CONSTANTS Procs,        \* processes started on one database
          NoProc,       \* nobody, as the holder of the write lock
          Files,        \* statements in each embedded migration, in name order
          Configs,      \* configuration files
          NoConfig,     \* of a process that does not exist
          Kinds,        \* alert types
          Second,       \* one second, in the unit of the durations
          MaxFaults     \* kills and failed calls in a behaviour

ASSUME FilesAssumption  == Files \in Seq(Nat)
ASSUME ProcsAssumption  == NoProc \notin Procs
ASSUME SecondAssumption == Second \in Nat \ {0}
ASSUME FaultsAssumption == MaxFaults \in Nat

SiteRecord == [name : STRING, scheme : STRING, interval : Int, timeout : Int,
               expect : SUBSET Int, retries : Int, checkSSL : BOOLEAN]

ASSUME ConfigsAssumption ==
  \A c \in Configs :
    /\ DOMAIN c = {"readable", "interval", "sslInterval", "domainInterval",
                   "sites", "notifiers", "default", "perType",
                   "sslWarnDays", "domainWarnDays", "listen"}
    /\ c.sites \in Seq(SiteRecord)

VARIABLES versions,   \* rows of schema_migrations, on disk
          executed,   \* committed statements of each migration, on disk
          writer,     \* the process holding the database's write lock
          pc,         \* of each process: "off", "load", "table", "query",
                      \* "rows", "migrate", "tx" or "running"
          cfg,        \* its configuration, from Load on with the defaults
          applied,    \* the versions it read before it migrates
          rowsOpen,   \* whether that query still holds its only connection
          file,       \* the migration its loop is at
          done,       \* statements run in its transaction, the row's included
          notifiers,  \* the names buildNotifiers gave the dispatcher
          faults

disk  == <<versions, executed>>
local == <<pc, cfg, applied, rowsOpen, file, done, notifiers>>
vars  == <<disk, writer, local, faults>>

Migrations == DOMAIN Files
Opening    == {"table", "query", "rows", "migrate", "tx"}   \* inside OpenSQLite

-----------------------------------------------------------------------------
(* applyDefaults: what is 0 or empty takes its default; a site's interval  *)
(* takes the configured one.                                               *)
OrDefault(x, default) == IF x = 0 THEN default ELSE x

SiteDefaults(s, interval) ==
  [s EXCEPT !.interval = OrDefault(@, interval),
            !.timeout  = OrDefault(@, 10 * Second),
            !.expect   = IF @ = {} THEN {200} ELSE @,
            !.retries  = OrDefault(@, 2)]

ApplyDefaults(c) ==
  LET interval == OrDefault(c.interval, 60 * Second)
  IN  [c EXCEPT !.interval       = interval,
                !.sslInterval    = OrDefault(@, 12 * 3600 * Second),
                !.domainInterval = OrDefault(@, 24 * 3600 * Second),
                !.sites = [i \in DOMAIN @ |-> SiteDefaults(@[i], interval)]]

(* Validate, section by section.                                           *)
Distinct(named) == \A i, j \in DOMAIN named : named[i].name = named[j].name => i = j

SiteValid(s) == /\ s.name # ""
                /\ s.scheme \in {"http", "https"}
                /\ s.interval >= Second
                /\ s.timeout >= Second
                /\ s.retries >= 0
                /\ s.checkSSL => s.scheme = "https"

SitesValid_repeatedNames(c) ==
  c.sites # <<>> /\ \A i \in DOMAIN c.sites : SiteValid(c.sites[i])

SitesValid(c) == /\ c.sites # <<>>
                 /\ \A i \in DOMAIN c.sites : SiteValid(c.sites[i])
                 /\ Distinct(c.sites)

NotifiersValid(c) ==
  /\ \A i \in DOMAIN c.notifiers : /\ c.notifiers[i].name # ""
                                   /\ c.notifiers[i].type \in {"slack", "smtp"}
                                   /\ c.notifiers[i].complete
  /\ Distinct(c.notifiers)

Named(c)    == {c.notifiers[i].name : i \in DOMAIN c.notifiers}
Listed(seq) == {seq[i] : i \in DOMAIN seq}

RoutingValid_defaultOnly(c) == Listed(c.default) \subseteq Named(c)

RoutingValid(c) ==
  /\ Listed(c.default) \subseteq Named(c)
  /\ \A k \in DOMAIN c.perType : Listed(c.perType[k]) \subseteq Named(c)
  /\ c.notifiers # <<>> => c.default # <<>> \/ DOMAIN c.perType # {}

DaysValid(c) == \A d \in c.sslWarnDays \cup c.domainWarnDays : d > 0

Validate(c) == /\ SitesValid(c)
               /\ NotifiersValid(c)
               /\ RoutingValid(c)
               /\ DaysValid(c)
               /\ c.listen # "malformed"

Loads_withoutDefaults(c) == c.readable /\ Validate(c)

(* Load accepts a file whose variables are all defined, that parses and is *)
(* valid with the defaults.                                                *)
Loads(c) == c.readable /\ Validate(ApplyDefaults(c))

(* NotifiersFor: the route of an alert type, or the default.               *)
NotifiersFor(c, kind) == IF kind \in DOMAIN c.perType THEN c.perType[kind] ELSE c.default

(* buildNotifiers: a notifier for every entry of a type it knows.          *)
BuildNotifiers(c) ==
  {c.notifiers[i].name : i \in {j \in DOMAIN c.notifiers :
                                  c.notifiers[j].type \in {"slack", "smtp"}}}

-----------------------------------------------------------------------------
Init == /\ versions  = {}
        /\ executed  = [i \in Migrations |-> 0]
        /\ writer    = NoProc
        /\ pc        = [p \in Procs |-> "off"]
        /\ cfg       = [p \in Procs |-> NoConfig]
        /\ applied   = [p \in Procs |-> {}]
        /\ rowsOpen  = [p \in Procs |-> FALSE]
        /\ file      = [p \in Procs |-> 1]
        /\ done      = [p \in Procs |-> 0]
        /\ notifiers = [p \in Procs |-> {}]
        /\ faults    = 0

Goto(p, label) == pc' = [pc EXCEPT ![p] = label]

(* The process ends: os.Exit, a return of main or a kill.  Its transaction *)
(* is rolled back, by itself or by the next process that opens the file.   *)
Exit(p) == /\ Goto(p, "off")
           /\ cfg'       = [cfg EXCEPT ![p] = NoConfig]
           /\ applied'   = [applied EXCEPT ![p] = {}]
           /\ rowsOpen'  = [rowsOpen EXCEPT ![p] = FALSE]
           /\ file'      = [file EXCEPT ![p] = 1]
           /\ done'      = [done EXCEPT ![p] = 0]
           /\ notifiers' = [notifiers EXCEPT ![p] = {}]
           /\ writer'    = IF writer = p THEN NoProc ELSE writer
           /\ UNCHANGED disk

Start(p, c) ==
  /\ pc[p] = "off"
  /\ Goto(p, "load")
  /\ cfg' = [cfg EXCEPT ![p] = c]
  /\ UNCHANGED <<disk, writer, applied, rowsOpen, file, done, notifiers, faults>>

Load(p) ==
  /\ pc[p] = "load"
  /\ Loads(cfg[p])
  /\ Goto(p, "table")
  /\ cfg' = [cfg EXCEPT ![p] = ApplyDefaults(@)]
  /\ UNCHANGED <<disk, writer, applied, rowsOpen, file, done, notifiers, faults>>

LoadFails(p) ==
  /\ pc[p] = "load"
  /\ ~Loads(cfg[p])
  /\ Exit(p)
  /\ UNCHANGED faults

-----------------------------------------------------------------------------
(* migrate.  The table of versions is made by a statement of its own,      *)
(* which finds it there whenever a process is as far as holding the lock.  *)
CreateTable(p) ==
  /\ pc[p] = "table"
  /\ Goto(p, "query")
  /\ UNCHANGED <<disk, writer, cfg, applied, rowsOpen, file, done, notifiers, faults>>

Query_notMarked(p) ==
  /\ pc[p] = "query"
  /\ rowsOpen' = [rowsOpen EXCEPT ![p] = TRUE]
  /\ Goto(p, "rows")
  /\ UNCHANGED <<disk, writer, cfg, applied, file, done, notifiers, faults>>

(* SELECT version: the rows hold the pool's one connection until they are  *)
(* closed.  The loop over them ends after the last one, or at an error     *)
(* that nobody asks rows for.                                              *)
Query(p) ==
  /\ pc[p] = "query"
  /\ \E seen \in SUBSET versions :
       /\ seen # versions => faults < MaxFaults
       /\ applied' = [applied EXCEPT ![p] = seen]
       /\ faults'  = IF seen = versions THEN faults ELSE faults + 1
  /\ rowsOpen' = [rowsOpen EXCEPT ![p] = TRUE]
  /\ Goto(p, "rows")
  /\ UNCHANGED <<disk, writer, cfg, file, done, notifiers>>

CloseRows(p) ==
  /\ pc[p] = "rows"
  /\ rowsOpen' = [rowsOpen EXCEPT ![p] = FALSE]
  /\ Goto(p, "migrate")
  /\ UNCHANGED <<disk, writer, cfg, applied, file, done, notifiers, faults>>

Skip_pastLast(p) ==
  /\ pc[p] = "migrate"
  /\ file[p] \notin Migrations \ applied[p]
  /\ file' = [file EXCEPT ![p] = @ + 1]
  /\ UNCHANGED <<disk, writer, pc, cfg, applied, rowsOpen, done, notifiers, faults>>

Skip(p) ==
  /\ pc[p] = "migrate"
  /\ file[p] \in applied[p]
  /\ file' = [file EXCEPT ![p] = @ + 1]
  /\ UNCHANGED <<disk, writer, pc, cfg, applied, rowsOpen, done, notifiers, faults>>

Begin(p) ==
  /\ pc[p] = "migrate"
  /\ file[p] \in Migrations \ applied[p]
  /\ ~rowsOpen[p]
  /\ Goto(p, "tx")
  /\ UNCHANGED <<disk, writer, cfg, applied, rowsOpen, file, done, notifiers, faults>>

(* The transaction takes the write lock at its first statement (one that   *)
(* finds its table there could do without, until the row is inserted).     *)
Locked(p) == writer \in {NoProc, p}

ExecStatement(p) ==
  /\ pc[p] = "tx"
  /\ done[p] < Files[file[p]]
  /\ Locked(p)
  /\ writer' = p
  /\ done'   = [done EXCEPT ![p] = @ + 1]
  /\ UNCHANGED <<disk, pc, cfg, applied, rowsOpen, file, notifiers, faults>>

InsertRow_orIgnore(p) ==
  /\ pc[p] = "tx"
  /\ done[p] = Files[file[p]]
  /\ Locked(p)
  /\ writer' = p
  /\ done'   = [done EXCEPT ![p] = @ + 1]
  /\ UNCHANGED <<disk, pc, cfg, applied, rowsOpen, file, notifiers, faults>>

(* The row of the migration, in the same transaction.                      *)
InsertRow(p) ==
  /\ pc[p] = "tx"
  /\ done[p] = Files[file[p]]
  /\ Locked(p)
  /\ file[p] \notin versions
  /\ writer' = p
  /\ done'   = [done EXCEPT ![p] = @ + 1]
  /\ UNCHANGED <<disk, pc, cfg, applied, rowsOpen, file, notifiers, faults>>

(* The primary key refuses a row another process has committed since.      *)
RowRefused(p) ==
  /\ pc[p] = "tx"
  /\ done[p] = Files[file[p]]
  /\ Locked(p)
  /\ file[p] \in versions
  /\ Exit(p)
  /\ UNCHANGED faults

Commit(p) ==
  /\ pc[p] = "tx"
  /\ done[p] = Files[file[p]] + 1
  /\ versions' = versions \cup {file[p]}
  /\ executed' = [executed EXCEPT ![file[p]] = @ + Files[file[p]]]
  /\ writer'   = NoProc
  /\ file'     = [file EXCEPT ![p] = @ + 1]
  /\ done'     = [done EXCEPT ![p] = 0]
  /\ Goto(p, "migrate")
  /\ UNCHANGED <<cfg, applied, rowsOpen, notifiers, faults>>

(* The lock is not had within busy_timeout.                                *)
LockTimeout(p) ==
  /\ pc[p] = "tx"
  /\ writer \notin {NoProc, p}
  /\ Exit(p)
  /\ UNCHANGED faults

OpenFails_nextFile(p) ==
  /\ pc[p] = "tx"
  /\ faults < MaxFaults
  /\ faults' = faults + 1
  /\ Goto(p, "migrate")
  /\ file'   = [file EXCEPT ![p] = @ + 1]
  /\ done'   = [done EXCEPT ![p] = 0]
  /\ writer' = IF writer = p THEN NoProc ELSE writer
  /\ UNCHANGED <<disk, cfg, applied, rowsOpen, notifiers>>

(* A call of OpenSQLite fails: Rollback, Close, exit status 1.             *)
OpenFails(p) ==
  /\ pc[p] \in Opening
  /\ faults < MaxFaults
  /\ faults' = faults + 1
  /\ Exit(p)

Run(p) ==
  /\ pc[p] = "migrate"
  /\ file[p] \notin Migrations
  /\ Goto(p, "running")
  /\ notifiers' = [notifiers EXCEPT ![p] = BuildNotifiers(cfg[p])]
  /\ UNCHANGED <<disk, writer, cfg, applied, rowsOpen, file, done, faults>>

(* A signal ends a monitor that runs; main closes the store and returns.   *)
Stop(p) == pc[p] = "running" /\ Exit(p) /\ UNCHANGED faults

Kill(p) ==
  /\ pc[p] # "off"
  /\ faults < MaxFaults
  /\ faults' = faults + 1
  /\ Exit(p)

(* What the process itself does next. *)
Step(p) == \/ Load(p) \/ LoadFails(p) \/ CreateTable(p) \/ Query(p) \/ CloseRows(p)
           \/ Skip(p) \/ Begin(p) \/ ExecStatement(p) \/ InsertRow(p)
           \/ RowRefused(p) \/ Commit(p) \/ LockTimeout(p) \/ Run(p)

Next == \E p \in Procs : \/ \E c \in Configs : Start(p, c)
                         \/ Step(p) \/ OpenFails(p) \/ Stop(p) \/ Kill(p)

(* A process that is not killed goes on: OpenSQLite takes no context, and  *)
(* its calls return (a lock is waited for at most busy_timeout).  Nothing  *)
(* starts, stops or kills a process for certain.                           *)
Spec     == Init /\ [][Next]_vars
FairSpec == Spec /\ \A p \in Procs : WF_vars(Step(p))

-----------------------------------------------------------------------------
TypeOK == /\ versions  \subseteq Migrations
          /\ executed  \in [Migrations -> Nat]
          /\ writer    \in Procs \cup {NoProc}
          /\ pc        \in [Procs -> Opening \cup {"off", "load", "running"}]
          /\ cfg       \in [Procs -> {NoConfig} \cup Configs
                                       \cup {ApplyDefaults(c) : c \in Configs}]
          /\ applied   \in [Procs -> SUBSET Migrations]
          /\ rowsOpen  \in [Procs -> BOOLEAN]
          /\ file      \in [Procs -> 1..(Len(Files) + 1)]
          /\ done      \in [Procs -> Nat]
          /\ notifiers \in [Procs -> SUBSET UNION {Named(c) : c \in Configs}]
          /\ faults    \in 0..MaxFaults

(* A migration is in the database whole and once, with its row, or not at  *)
(* all: whatever is killed, fails or is misread, and whoever else          *)
(* migrates.                                                               *)
SchemaWhole ==
  \A i \in Migrations : executed[i] = IF i \in versions THEN Files[i] ELSE 0

(* A monitor never runs on a database that lacks a migration.              *)
RunsOnWholeSchema == \A p \in Procs : pc[p] = "running" => versions = Migrations

(* Whatever the alert, every name the engine's alerts are routed to is a   *)
(* notifier the dispatcher has: it drops no recipient as unknown.          *)
RoutedIsBuilt ==
  \A p \in Procs : pc[p] = "running" =>
     \A k \in Kinds : Listed(NotifiersFor(cfg[p], k)) \subseteq notifiers[p]

(* What the workers, the store and the engine take for granted of a        *)
(* configuration they are given: a site has its row to itself, its loop    *)
(* pauses, its check has a deadline, a retry and a status to expect, its   *)
(* certificate is one an https URL has, and every threshold is a future    *)
(* day.                                                                    *)
SitesSound ==
  \A p \in Procs : pc[p] = "running" =>
     LET c == cfg[p]
     IN  /\ c.sites # <<>>
         /\ Distinct(c.sites)
         /\ \A i \in DOMAIN c.sites :
              LET s == c.sites[i]
              IN  /\ s.interval >= Second /\ s.timeout >= Second
                  /\ s.retries > 0 /\ s.expect # {}
                  /\ s.checkSSL => s.scheme = "https"
         /\ \A d \in c.sslWarnDays \cup c.domainWarnDays : d > 0

(* Nothing an earlier start left behind keeps a later one from coming up:  *)
(* with no more faults and nobody else starting, a process given a file    *)
(* that is valid with the defaults gets to run.                            *)
Alone(p) == \A q \in Procs \ {p} : pc[q] \in {"off", "running"}

Acceptable(c) == c.readable /\ Validate(ApplyDefaults(c))

StartHeals ==
  \A p \in Procs :
     (pc[p] = "load" /\ Acceptable(cfg[p]) /\ faults = MaxFaults /\ Alone(p))
        ~> (pc[p] = "running" \/ ~Alone(p))

(* Processes that race to migrate do not all lose: from a process that has *)
(* not read the versions yet when the last fault is over, somebody gets to *)
(* run.  This rests on there being one migration, as there is: with two, a *)
(* process may time out on the lock of one that is then refused its row.   *)
RaceHasWinner ==
  (faults = MaxFaults /\ \E p \in Procs : pc[p] \in {"table", "query"})
     ~> (\E p \in Procs : pc[p] = "running")
=============================================================================
