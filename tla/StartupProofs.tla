--------------------------- MODULE StartupProofs ---------------------------
(***************************************************************************)
(* The safety of Startup, for any migrations, configurations, processes    *)
(* and faults.                                                             *)
(***************************************************************************)
EXTENDS Startup, TLAPS

(* What a process knows of the disk: the versions it read are there, and   *)
(* so are those its loop is past.                                          *)
LoopInv(p) == /\ applied[p] \subseteq versions
              /\ \A i \in Migrations : i < file[p] => i \in versions
              /\ pc[p] = "running" => file[p] \notin Migrations

(* A transaction that ran a statement holds the lock, and once its row is  *)
(* inserted nobody has committed that version.                             *)
TxInv(p) == /\ pc[p] # "tx" => done[p] = 0
            /\ pc[p] = "tx" => file[p] \in Migrations /\ done[p] <= Files[file[p]] + 1
            /\ done[p] > 0 => writer = p
            /\ (pc[p] = "tx" /\ done[p] = Files[file[p]] + 1) => file[p] \notin versions

(* A process past Load has a configuration that is valid with the defaults,*)
(* and one that runs has its notifiers.                                    *)
Accepted == {ApplyDefaults(c) : c \in {d \in Configs : Loads(d)}}

ConfigInv(p) == /\ pc[p] = "load" => cfg[p] \in Configs
                /\ pc[p] \in Opening \cup {"running"} => cfg[p] \in Accepted
                /\ pc[p] = "running" => notifiers[p] = BuildNotifiers(cfg[p])

ProcInv(p) == LoopInv(p) /\ TxInv(p) /\ ConfigInv(p)

IInv == TypeOK /\ SchemaWhole /\ \A p \in Procs : ProcInv(p)

-----------------------------------------------------------------------------
LEMMA FilesFacts == /\ Migrations = 1..Len(Files) /\ Len(Files) \in Nat
                    /\ \A i \in Migrations : Files[i] \in Nat
BY FilesAssumption DEF Migrations

(* The notifiers of a valid configuration are those it names. *)
LEMMA BuiltAreNamed ==
  ASSUME NEW c, NotifiersValid(c)
  PROVE  BuildNotifiers(c) = Named(c)
BY DEF NotifiersValid, BuildNotifiers, Named

(* The defaults leave the notifiers alone. *)
LEMMA DefaultsKeepNotifiers ==
  ASSUME NEW c \in Configs
  PROVE  Named(ApplyDefaults(c)) = Named(c)
<1>1. /\ DOMAIN c = {"readable", "interval", "sslInterval", "domainInterval",
                     "sites", "notifiers", "default", "perType",
                     "sslWarnDays", "domainWarnDays", "listen"}
  BY ConfigsAssumption
<1>2. ApplyDefaults(c).notifiers = c.notifiers
  BY <1>1 DEF ApplyDefaults
<1> QED  BY <1>2 DEF Named

(* The initial states. *)
LEMMA InitInv == Init => IInv
<1> SUFFICES ASSUME Init PROVE IInv
  OBVIOUS
<1> USE FilesFacts DEF Init
<1>1. TypeOK
  BY FaultsAssumption DEF TypeOK, Opening
<1>2. SchemaWhole
  BY DEF SchemaWhole
<1>3. ASSUME NEW p \in Procs PROVE ProcInv(p)
  BY <1>3 DEF ProcInv, LoopInv, TxInv, ConfigInv, Opening
<1> QED  BY <1>1, <1>2, <1>3 DEF IInv

-----------------------------------------------------------------------------
(* A step of p that keeps the disk keeps what the others know, if it takes *)
(* the lock from nobody.                                                   *)
LEMMA OthersKeep ==
  ASSUME IInv, NEW p \in Procs, NEW q \in Procs, q # p,
         pc'[q] = pc[q], cfg'[q] = cfg[q], applied'[q] = applied[q],
         file'[q] = file[q], done'[q] = done[q], notifiers'[q] = notifiers[q],
         writer = q => writer' = q,
         versions \subseteq versions',
         versions' # versions => writer # q
  PROVE  ProcInv(q)'
<1>1. ProcInv(q) /\ pc[q] \in Opening \cup {"off", "load", "running"}
      /\ file[q] \in 1..(Len(Files) + 1) /\ done[q] \in Nat
  BY DEF IInv, TypeOK
<1>2. LoopInv(q)'
  BY <1>1 DEF ProcInv, LoopInv
<1>3. TxInv(q)'
  BY <1>1, FilesFacts DEF ProcInv, TxInv
<1>4. ConfigInv(q)'
  BY <1>1 DEF ProcInv, ConfigInv
<1> QED  BY <1>2, <1>3, <1>4 DEF ProcInv

(* The process ends. *)
LEMMA ExitKeeps ==
  ASSUME IInv, NEW p \in Procs, Exit(p), faults' \in 0..MaxFaults
  PROVE  IInv'
<1>1. TypeOK'
  BY FilesFacts DEF IInv, TypeOK, Exit, Goto, disk, Opening
<1>2. SchemaWhole'
  BY DEF IInv, SchemaWhole, Exit, disk
<1>3. ASSUME NEW q \in Procs PROVE ProcInv(q)'
  <2>1. CASE q = p
    BY <2>1, <1>1, FilesFacts DEF IInv, TypeOK, Exit, Goto, disk, ProcInv, LoopInv, TxInv, ConfigInv, Opening
  <2>2. CASE q # p
    BY <2>2, OthersKeep DEF IInv, TypeOK, Exit, Goto, disk
  <2> QED  BY <2>1, <2>2
<1> QED  BY <1>1, <1>2, <1>3 DEF IInv

-----------------------------------------------------------------------------
(* A step of p that does not end it keeps everything if it keeps the       *)
(* types, the schema and what p itself knows.                              *)
LEMMA OwnStep ==
  ASSUME IInv, NEW p \in Procs, TypeOK', SchemaWhole', ProcInv(p)',
         \A q \in Procs \ {p} :
            /\ pc'[q] = pc[q] /\ cfg'[q] = cfg[q] /\ applied'[q] = applied[q]
            /\ file'[q] = file[q] /\ done'[q] = done[q]
            /\ notifiers'[q] = notifiers[q],
         writer' = writer \/ writer \in {NoProc, p},
         versions \subseteq versions',
         versions' # versions => writer = p
  PROVE  IInv'
<1>1. ASSUME NEW q \in Procs, q # p PROVE ProcInv(q)'
  BY <1>1, OthersKeep, ProcsAssumption
<1> QED  BY <1>1 DEF IInv

LEMMA LoadSteps ==
  ASSUME IInv, NEW p \in Procs, NEW c \in Configs,
         Start(p, c) \/ Load(p) \/ LoadFails(p)
  PROVE  IInv'
<1> USE FilesFacts
<1>1. CASE Start(p, c)
  <2>1. TypeOK'
    BY <1>1 DEF IInv, TypeOK, Start, Goto, disk, Opening
  <2>2. SchemaWhole' /\ ProcInv(p)'
    BY <1>1 DEF IInv, TypeOK, SchemaWhole, ProcInv, LoopInv, TxInv, ConfigInv, Start, Goto, disk, Opening
  <2> QED  BY <1>1, <2>1, <2>2, OwnStep DEF Start, Goto, disk, IInv, TypeOK
<1>2. CASE Load(p)
  <2>1. cfg[p] \in Configs /\ ApplyDefaults(cfg[p]) \in Accepted
    BY <1>2 DEF IInv, ProcInv, ConfigInv, Load, Accepted
  <2>2. TypeOK'
    BY <1>2, <2>1 DEF IInv, TypeOK, Load, Goto, disk, Opening
  <2>3. SchemaWhole' /\ ProcInv(p)'
    BY <1>2, <2>1 DEF IInv, TypeOK, SchemaWhole, ProcInv, LoopInv, TxInv, ConfigInv, Load, Goto, disk, Opening
  <2> QED  BY <1>2, <2>2, <2>3, OwnStep DEF Load, Goto, disk, IInv, TypeOK
<1>3. CASE LoadFails(p)
  BY <1>3, ExitKeeps DEF LoadFails, IInv, TypeOK
<1> QED  BY <1>1, <1>2, <1>3

LEMMA ReadSteps ==
  ASSUME IInv, NEW p \in Procs,
         CreateTable(p) \/ Query(p) \/ CloseRows(p) \/ Skip(p) \/ Begin(p)
  PROVE  IInv'
<1> USE FilesFacts, FaultsAssumption
<1>1. CASE CreateTable(p) \/ CloseRows(p) \/ Begin(p)
  <2>1. TypeOK'
    BY <1>1 DEF IInv, TypeOK, CreateTable, CloseRows, Begin, Goto, disk, Opening
  <2>2. SchemaWhole'
    BY <1>1 DEF IInv, SchemaWhole, CreateTable, CloseRows, Begin, disk
  <2>3. LoopInv(p)'
    BY <1>1 DEF IInv, TypeOK, ProcInv, LoopInv, CreateTable, CloseRows, Begin, Goto, disk
  <2>4. TxInv(p)'
    BY <1>1 DEF IInv, TypeOK, ProcInv, TxInv, CreateTable, CloseRows, Begin, Goto, disk
  <2>5. ConfigInv(p)'
    BY <1>1 DEF IInv, TypeOK, ProcInv, ConfigInv, CreateTable, CloseRows, Begin, Goto, Opening
  <2> QED  BY <1>1, <2>1, <2>2, <2>3, <2>4, <2>5, OwnStep
           DEF ProcInv, CreateTable, CloseRows, Begin, Goto, disk, IInv, TypeOK
<1>2. CASE Query(p)
  <2>1. TypeOK'
    BY <1>2 DEF IInv, TypeOK, Query, Goto, disk, Opening
  <2>2. SchemaWhole'
    BY <1>2 DEF IInv, SchemaWhole, Query, disk
  <2>3. LoopInv(p)'
    BY <1>2 DEF IInv, TypeOK, ProcInv, LoopInv, Query, Goto, disk
  <2>4. TxInv(p)'
    BY <1>2 DEF IInv, TypeOK, ProcInv, TxInv, Query, Goto, disk
  <2>5. ConfigInv(p)'
    BY <1>2 DEF IInv, TypeOK, ProcInv, ConfigInv, Query, Goto, Opening
  <2> QED  BY <1>2, <2>1, <2>2, <2>3, <2>4, <2>5, OwnStep DEF ProcInv, Query, Goto, disk, IInv, TypeOK
<1>3. CASE Skip(p)
  <2>1. TypeOK'
    BY <1>3 DEF IInv, TypeOK, Skip, disk
  <2>2. SchemaWhole' /\ ProcInv(p)'
    BY <1>3 DEF IInv, TypeOK, SchemaWhole, ProcInv, LoopInv, TxInv, ConfigInv, Skip, disk, Opening
  <2> QED  BY <1>3, <2>1, <2>2, OwnStep DEF Skip, disk, IInv, TypeOK
<1> QED  BY <1>1, <1>2, <1>3

LEMMA TxSteps ==
  ASSUME IInv, NEW p \in Procs,
         ExecStatement(p) \/ InsertRow(p) \/ Commit(p)
  PROVE  IInv'
<1> USE FilesFacts, ProcsAssumption
<1>1. CASE ExecStatement(p) \/ InsertRow(p)
  <2>1. TypeOK'
    <3>1. done' \in [Procs -> Nat] /\ writer' = p
      BY <1>1 DEF IInv, TypeOK, ExecStatement, InsertRow
    <3> QED  BY <1>1, <3>1 DEF IInv, TypeOK, ExecStatement, InsertRow, disk
  <2>2. SchemaWhole' /\ ProcInv(p)'
    BY <1>1 DEF IInv, TypeOK, SchemaWhole, ProcInv, LoopInv, TxInv, ConfigInv,
                ExecStatement, InsertRow, disk, Opening
  <2> QED  BY <1>1, <2>1, <2>2, OwnStep DEF ExecStatement, InsertRow, Locked, disk, IInv, TypeOK
<1>2. CASE Commit(p)
  <2>1. /\ file[p] \in Migrations /\ done[p] = Files[file[p]] + 1
        /\ writer = p /\ file[p] \notin versions
    BY <1>2 DEF IInv, TypeOK, ProcInv, TxInv, Commit
  <2>2. TypeOK'
    <3>1. executed' \in [Migrations -> Nat] /\ versions' \subseteq Migrations
      <4>1. executed \in [Migrations -> Nat] /\ versions \subseteq Migrations
        BY DEF IInv, TypeOK
      <4>2. /\ executed' = [executed EXCEPT ![file[p]] = @ + Files[file[p]]]
            /\ versions' = versions \cup {file[p]}
        BY <1>2 DEF Commit
      <4>3. executed[file[p]] + Files[file[p]] \in Nat
        BY <2>1, <4>1
      <4> QED  BY <2>1, <4>1, <4>2, <4>3
    <3>2. file' \in [Procs -> 1..(Len(Files) + 1)]
      <4>1. file \in [Procs -> 1..(Len(Files) + 1)]
        BY DEF IInv, TypeOK
      <4>2. file' = [file EXCEPT ![p] = @ + 1]
        BY <1>2 DEF Commit
      <4>3. file[p] + 1 \in 1..(Len(Files) + 1)
        BY <2>1
      <4> QED  BY <4>1, <4>2, <4>3
    <3>3. pc' \in [Procs -> Opening \cup {"off", "load", "running"}]
      BY <1>2 DEF IInv, TypeOK, Commit, Goto, Opening
    <3> QED  BY <1>2, <3>1, <3>2, <3>3 DEF IInv, TypeOK, Commit
  <2>3. SchemaWhole'
    BY <1>2, <2>1 DEF IInv, TypeOK, SchemaWhole, Commit
  <2>4. ProcInv(p)'
    BY <1>2, <2>1 DEF IInv, TypeOK, ProcInv, LoopInv, TxInv, ConfigInv, Commit, Goto, Opening
  <2> QED  BY <1>2, <2>1, <2>2, <2>3, <2>4, OwnStep DEF Commit, Goto, IInv, TypeOK
<1> QED  BY <1>1, <1>2

LEMMA RunStep ==
  ASSUME IInv, NEW p \in Procs, Run(p)
  PROVE  IInv'
<1> USE FilesFacts
<1>1. cfg[p] \in Accepted
  BY DEF IInv, ProcInv, ConfigInv, Run, Opening
<1>2. BuildNotifiers(cfg[p]) \in SUBSET UNION {Named(c) : c \in Configs}
  <2>1. PICK c \in Configs : Loads(c) /\ cfg[p] = ApplyDefaults(c)
    BY <1>1 DEF Accepted
  <2>2. NotifiersValid(cfg[p])
    BY <2>1 DEF Loads, Validate
  <2> QED  BY <2>1, <2>2, BuiltAreNamed, DefaultsKeepNotifiers
<1>3. TypeOK'
  BY <1>2 DEF IInv, TypeOK, Run, Goto, disk, Opening
<1>4. SchemaWhole' /\ ProcInv(p)'
  BY <1>1 DEF IInv, TypeOK, SchemaWhole, ProcInv, LoopInv, TxInv, ConfigInv, Run, Goto, disk, Opening
<1> QED  BY <1>3, <1>4, OwnStep DEF Run, Goto, disk, IInv, TypeOK

LEMMA Ends ==
  ASSUME IInv, NEW p \in Procs,
         RowRefused(p) \/ LockTimeout(p) \/ OpenFails(p) \/ Stop(p) \/ Kill(p)
  PROVE  IInv'
<1>1. Exit(p) /\ faults' \in 0..MaxFaults
  BY FaultsAssumption DEF IInv, TypeOK, RowRefused, LockTimeout, OpenFails, Stop, Kill
<1> QED  BY <1>1, ExitKeeps

LEMMA StepKeepsInv == IInv /\ [Next]_vars => IInv'
<1> SUFFICES ASSUME IInv, [Next]_vars PROVE IInv'
  OBVIOUS
<1>1. CASE UNCHANGED vars
  BY <1>1 DEF vars, disk, local, IInv, TypeOK, SchemaWhole, ProcInv, LoopInv, TxInv, ConfigInv
<1>2. CASE Next
  <2>1. PICK p \in Procs : \/ \E c \in Configs : Start(p, c)
                           \/ Step(p) \/ OpenFails(p) \/ Stop(p) \/ Kill(p)
    BY <1>2 DEF Next
  <2>2. CASE \E c \in Configs : Start(p, c)
    BY <2>2, LoadSteps
  <2>3. CASE Load(p) \/ LoadFails(p)
    <3>1. cfg[p] \in Configs
      BY <2>3 DEF IInv, ProcInv, ConfigInv, Load, LoadFails
    <3> QED  BY <2>3, <3>1, LoadSteps
  <2>4. CASE CreateTable(p) \/ Query(p) \/ CloseRows(p) \/ Skip(p) \/ Begin(p)
    BY <2>4, ReadSteps
  <2>5. CASE ExecStatement(p) \/ InsertRow(p) \/ Commit(p)
    BY <2>5, TxSteps
  <2>6. CASE Run(p)
    BY <2>6, RunStep
  <2>7. CASE RowRefused(p) \/ LockTimeout(p) \/ OpenFails(p) \/ Stop(p) \/ Kill(p)
    BY <2>7, Ends
  <2> QED  BY <2>1, <2>2, <2>3, <2>4, <2>5, <2>6, <2>7 DEF Step
<1> QED  BY <1>1, <1>2

-----------------------------------------------------------------------------
LEMMA Invariance == Spec => []IInv
BY InitInv, StepKeepsInv, PTL DEF Spec

(* Every variable keeps its type. *)
THEOREM TypeCorrect == Spec => []TypeOK
<1>1. IInv => TypeOK
  BY DEF IInv
<1> QED  BY <1>1, Invariance, PTL

(* A migration is in the database whole and once, with its row, or not at  *)
(* all: sqlite.go:78-95 under kills, failed calls and other processes.     *)
THEOREM SchemaIsWhole == Spec => []SchemaWhole
<1>1. IInv => SchemaWhole
  BY DEF IInv
<1> QED  BY <1>1, Invariance, PTL

(* OpenSQLite lets no process run on a database that lacks a migration.    *)
THEOREM SchemaComplete == Spec => []RunsOnWholeSchema
<1>1. IInv => RunsOnWholeSchema
  <2> SUFFICES ASSUME IInv, NEW p \in Procs, pc[p] = "running"
               PROVE  versions = Migrations
    BY DEF RunsOnWholeSchema
  <2>1. file[p] \in 1..(Len(Files) + 1) /\ file[p] \notin Migrations
    BY DEF IInv, TypeOK, ProcInv, LoopInv
  <2>2. \A i \in Migrations : i < file[p]
    BY <2>1, FilesFacts
  <2> QED  BY <2>2 DEF IInv, TypeOK, ProcInv, LoopInv
<1> QED  BY <1>1, Invariance, PTL

(* What NotifiersFor names, buildNotifiers has built.                      *)
THEOREM RoutesLead == Spec => []RoutedIsBuilt
<1>1. IInv => RoutedIsBuilt
  <2> SUFFICES ASSUME IInv, NEW p \in Procs, pc[p] = "running", NEW k \in Kinds
               PROVE  Listed(NotifiersFor(cfg[p], k)) \subseteq notifiers[p]
    BY DEF RoutedIsBuilt
  <2>1. cfg[p] \in Accepted /\ notifiers[p] = BuildNotifiers(cfg[p])
    BY DEF IInv, ProcInv, ConfigInv
  <2>2. NotifiersValid(cfg[p]) /\ RoutingValid(cfg[p])
    BY <2>1 DEF Accepted, Loads, Validate
  <2>3. notifiers[p] = Named(cfg[p])
    BY <2>1, <2>2, BuiltAreNamed
  <2> QED  BY <2>2, <2>3 DEF RoutingValid, NotifiersFor
<1> QED  BY <1>1, Invariance, PTL

-----------------------------------------------------------------------------
(* What the defaults and Validate make of a site. *)
LEMMA SiteIsSound ==
  ASSUME NEW s \in SiteRecord, NEW interval, SiteValid(SiteDefaults(s, interval))
  PROVE  LET d == SiteDefaults(s, interval)
         IN  /\ d.interval >= Second /\ d.timeout >= Second
             /\ d.retries > 0 /\ d.expect # {}
             /\ d.checkSSL => d.scheme = "https"
<1>1. SiteDefaults(s, interval).retries = OrDefault(s.retries, 2)
  BY DEF SiteDefaults, SiteRecord
<1>2. SiteDefaults(s, interval).expect = IF s.expect = {} THEN {200} ELSE s.expect
  BY DEF SiteDefaults, SiteRecord
<1>3. s.retries \in Int
  BY DEF SiteRecord
<1>4. SiteDefaults(s, interval).retries > 0
  <2>1. SiteDefaults(s, interval).retries >= 0
    BY DEF SiteValid
  <2> QED  BY <1>1, <1>3, <2>1 DEF OrDefault
<1>5. SiteDefaults(s, interval).expect # {}
  BY <1>2
<1> QED  BY <1>4, <1>5 DEF SiteValid

(* The configuration a monitor runs on is what the rest of the program     *)
(* takes for granted: applyDefaults and Validate, config.go:179-309.       *)
THEOREM ConfigIsSound == Spec => []SitesSound
<1>1. IInv => SitesSound
  <2> SUFFICES ASSUME IInv, NEW p \in Procs, pc[p] = "running"
               PROVE  LET c == cfg[p]
                      IN  /\ c.sites # <<>>
                          /\ Distinct(c.sites)
                          /\ \A i \in DOMAIN c.sites :
                               LET s == c.sites[i]
                               IN  /\ s.interval >= Second /\ s.timeout >= Second
                                   /\ s.retries > 0 /\ s.expect # {}
                                   /\ s.checkSSL => s.scheme = "https"
                          /\ \A d \in c.sslWarnDays \cup c.domainWarnDays : d > 0
    BY DEF SitesSound
  <2>1. PICK c \in Configs : Loads(c) /\ cfg[p] = ApplyDefaults(c)
    BY DEF IInv, ProcInv, ConfigInv, Accepted
  <2>2. SitesValid(cfg[p]) /\ DaysValid(cfg[p])
    BY <2>1 DEF Loads, Validate
  <2>3. PICK interval : cfg[p].sites = [i \in DOMAIN c.sites |-> SiteDefaults(c.sites[i], interval)]
    BY <2>1, ConfigsAssumption DEF ApplyDefaults
  <2>4. \A i \in DOMAIN c.sites : c.sites[i] \in SiteRecord
    BY ConfigsAssumption
  <2>5. ASSUME NEW i \in DOMAIN cfg[p].sites
        PROVE  /\ cfg[p].sites[i].interval >= Second /\ cfg[p].sites[i].timeout >= Second
               /\ cfg[p].sites[i].retries > 0 /\ cfg[p].sites[i].expect # {}
               /\ cfg[p].sites[i].checkSSL => cfg[p].sites[i].scheme = "https"
    <3>1. i \in DOMAIN c.sites /\ cfg[p].sites[i] = SiteDefaults(c.sites[i], interval)
      BY <2>3
    <3>2. SiteValid(cfg[p].sites[i])
      BY <2>2 DEF SitesValid
    <3> QED  BY <2>4, <3>1, <3>2, SiteIsSound
  <2> QED  BY <2>2, <2>5 DEF SitesValid, DaysValid
<1> QED  BY <1>1, Invariance, PTL
-----------------------------------------------------------------------------
(* The lock and the connection.  A transaction holds the write lock from   *)
(* its first statement on and nobody else does; the query's rows are       *)
(* closed before anything else asks for the one connection of the pool     *)
(* (SetMaxOpenConns(1), sqlite.go:37), which would wait for itself; and    *)
(* only a version that was not read is migrated.                           *)
HoldsOnly(p) == /\ writer = p <=> done[p] > 0
                /\ rowsOpen[p] => pc[p] = "rows"
                /\ pc[p] = "tx" => file[p] \notin applied[p]

HoldingInv == \A p \in Procs : HoldsOnly(p)

(* A step of p touches no other process, and the lock only if it is free   *)
(* or held by p.                                                           *)
Acts(p) == (\E c \in Configs : Start(p, c)) \/ Step(p) \/ OpenFails(p) \/ Stop(p) \/ Kill(p)

LEMMA OthersUntouched ==
  ASSUME IInv, NEW p \in Procs, Acts(p), NEW q \in Procs, q # p
  PROVE  /\ pc'[q] = pc[q] /\ cfg'[q] = cfg[q] /\ applied'[q] = applied[q]
         /\ rowsOpen'[q] = rowsOpen[q] /\ file'[q] = file[q] /\ done'[q] = done[q]
         /\ writer' = q <=> writer = q
<1> TypeOK
  BY DEF IInv
<1> USE ProcsAssumption DEF TypeOK, Goto, disk
<1>1. CASE Exit(p)
  BY <1>1 DEF Exit
<1>2. CASE (\E c \in Configs : Start(p, c)) \/ Load(p) \/ CreateTable(p) \/ CloseRows(p)
           \/ Skip(p) \/ Begin(p) \/ Run(p)
  BY <1>2 DEF Start, Load, CreateTable, CloseRows, Skip, Begin, Run
<1>3. CASE Query(p)
  BY <1>3 DEF Query
<1>4. CASE ExecStatement(p) \/ InsertRow(p)
  BY <1>4 DEF ExecStatement, InsertRow, Locked
<1>5. CASE Commit(p)
  <2>1. writer = p
    BY <1>5, FilesFacts DEF Commit, IInv, ProcInv, TxInv
  <2> QED BY <1>5, <2>1 DEF Commit
<1> QED BY <1>1, <1>2, <1>3, <1>4, <1>5
        DEF Acts, Step, LoadFails, RowRefused, LockTimeout, OpenFails, Stop, Kill

LEMMA HoldingSteps ==
  ASSUME IInv, HoldingInv, NEW p \in Procs, Acts(p)
  PROVE  HoldsOnly(p)'
<1> TypeOK /\ HoldsOnly(p) /\ TxInv(p)
  BY DEF IInv, HoldingInv, ProcInv
<1> USE ProcsAssumption, FilesFacts DEF TypeOK, HoldsOnly, Goto, disk
<1>1. CASE Exit(p)
  BY <1>1 DEF Exit
<1>2. CASE \E c \in Configs : Start(p, c)
  BY <1>2 DEF Start
<1>3. CASE Load(p) \/ CreateTable(p) \/ CloseRows(p)
  BY <1>3 DEF Load, CreateTable, CloseRows
<1>4. CASE Skip(p) \/ Begin(p) \/ Run(p)
  BY <1>4 DEF Skip, Begin, Run
<1>5. CASE Query(p)
  BY <1>5 DEF Query
<1>6. CASE ExecStatement(p) \/ InsertRow(p)
  <2>1. done'[p] = done[p] + 1 /\ done[p] \in Nat /\ writer' = p
    BY <1>6 DEF ExecStatement, InsertRow
  <2> QED BY <1>6, <2>1 DEF ExecStatement, InsertRow
<1>7. CASE Commit(p)
  BY <1>7 DEF Commit
<1> QED BY <1>1, <1>2, <1>3, <1>4, <1>5, <1>6, <1>7
        DEF Acts, Step, LoadFails, RowRefused, LockTimeout, OpenFails, Stop, Kill

LEMMA HoldingInvariance == Spec => []HoldingInv
<1>1. Init => HoldingInv
  <2> SUFFICES ASSUME Init, NEW p \in Procs PROVE HoldsOnly(p)
    BY DEF HoldingInv
  <2>1. ~rowsOpen[p] /\ pc[p] = "off"
    BY Zenon DEF Init
  <2> QED BY <2>1, ProcsAssumption DEF Init, HoldsOnly
<1>2. IInv /\ HoldingInv /\ [Next]_vars => HoldingInv'
  <2> SUFFICES ASSUME IInv, HoldingInv, [Next]_vars, NEW q \in Procs
               PROVE  HoldsOnly(q)'
    BY DEF HoldingInv
  <2>1. ASSUME NEW p \in Procs, Acts(p) PROVE HoldsOnly(q)'
    <3>1. CASE q = p
      BY <2>1, <3>1, HoldingSteps
    <3>2. CASE q # p
      BY <2>1, <3>2, OthersUntouched DEF HoldingInv, HoldsOnly
    <3> QED BY <3>1, <3>2
  <2>2. CASE UNCHANGED vars
    BY <2>2 DEF vars, local, HoldingInv, HoldsOnly
  <2> QED BY <2>1, <2>2 DEF Next, Acts
<1> QED BY <1>1, <1>2, Invariance, PTL DEF Spec

(* Nothing a process waits for outlives its holder: an ended or failed     *)
(* process holds neither the write lock nor the connection.                *)
HoldersAreAlive ==
  \A p \in Procs : /\ writer = p => pc[p] = "tx"
                   /\ rowsOpen[p] => pc[p] = "rows"

(* A start that failed leaves no lock behind for the next one, and the     *)
(* query of the versions no connection (sqlite.go:37, 65-77).              *)
THEOREM NothingIsHeldOnto == Spec => []HoldersAreAlive
<1>1. IInv /\ HoldingInv => HoldersAreAlive
  <2> SUFFICES ASSUME IInv, HoldingInv, NEW p \in Procs
               PROVE  (writer = p => pc[p] = "tx") /\ (rowsOpen[p] => pc[p] = "rows")
    BY Zenon DEF HoldersAreAlive
  <2>1. HoldsOnly(p) /\ TxInv(p)
    BY Zenon DEF IInv, ProcInv, HoldingInv
  <2> QED BY <2>1 DEF HoldsOnly, TxInv
<1> QED BY <1>1, Invariance, HoldingInvariance, PTL

-----------------------------------------------------------------------------
(* How far a process has come: its stage, the migration its loop is at and *)
(* where in the transaction it is.                                         *)
Stage(label) == CASE label = "off"  -> 0  [] label = "load"  -> 1  [] label = "table" -> 2
                  [] label = "query" -> 3 [] label = "rows"  -> 4
                  [] label \in {"migrate", "tx"} -> 5 [] OTHER -> 6

TxStage(p) == IF pc[p] = "tx" THEN done[p] + 1 ELSE 0

Ahead(p) ==
  \/ Stage(pc[p])' > Stage(pc[p])
  \/ /\ Stage(pc[p])' = Stage(pc[p])
     /\ \/ file'[p] > file[p]
        \/ file'[p] = file[p] /\ TxStage(p)' > TxStage(p)

(* Each step a process takes by itself ends it or brings it forward, in an *)
(* order with finitely many places (the stages, the files, the statements  *)
(* of each): no start goes in circles.                                     *)
StepsAdvance == [][\A p \in Procs : Step(p) => pc'[p] = "off" \/ Ahead(p)]_vars

(* migrate (sqlite.go:79-102) does not repeat what it did, whatever the    *)
(* disk holds and whoever else migrates.                                   *)
THEOREM StartsAdvance == Spec => StepsAdvance
<1>1. IInv /\ [Next]_vars => [\A p \in Procs : Step(p) => pc'[p] = "off" \/ Ahead(p)]_vars
  <2> SUFFICES ASSUME IInv, NEW p \in Procs, Step(p)
               PROVE  pc'[p] = "off" \/ Ahead(p)
    OBVIOUS
  <2> TypeOK
    BY DEF IInv
  <2> USE FilesFacts DEF TypeOK, Goto, Ahead, Stage, TxStage
  <2>1. CASE Load(p) \/ CreateTable(p) \/ CloseRows(p) \/ Run(p)
    BY <2>1 DEF Load, CreateTable, CloseRows, Run
  <2>2. CASE Query(p)
    BY <2>2 DEF Query
  <2>3. CASE Skip(p)
    BY <2>3 DEF Skip
  <2>4. CASE Begin(p)
    BY <2>4 DEF Begin
  <2>5. CASE ExecStatement(p) \/ InsertRow(p)
    BY <2>5 DEF ExecStatement, InsertRow
  <2>6. CASE Commit(p)
    BY <2>6 DEF Commit
  <2>7. CASE LoadFails(p) \/ RowRefused(p) \/ LockTimeout(p)
    BY <2>7 DEF LoadFails, RowRefused, LockTimeout, Exit
  <2> QED BY <2>1, <2>2, <2>3, <2>4, <2>5, <2>6, <2>7 DEF Step
<1> QED BY <1>1, Invariance, PTL DEF Spec, StepsAdvance

(* The guards of Step, one of which holds of a process on its way.         *)
CanGoOn(p) ==
  \/ pc[p] \in {"load", "table", "query", "rows"}
  \/ pc[p] = "migrate" /\ (file[p] \in Migrations \ applied[p] => ~rowsOpen[p])
  \/ pc[p] = "tx" /\ (Locked(p) => done[p] <= Files[file[p]] + 1)

(* A process with no fault and no rival to come. *)
OnCourse(p) ==
  /\ faults = MaxFaults
  /\ Alone(p)
  /\ \/ pc[p] = "load" /\ Loads(cfg[p])
     \/ pc[p] \in {"table", "query"}
     \/ /\ pc[p] \in {"rows", "migrate", "tx"}
        /\ \A i \in versions : i \in applied[p] \/ i < file[p]

(* A process that is on its way always has a step to take, short of the    *)
(* lock's: it never waits for itself.                                      *)
NeverStuck == \A p \in Procs : pc[p] \notin {"off", "running"} => CanGoOn(p)

(* In particular Begin finds the one connection free (sqlite.go:37, 87).   *)
THEOREM StartsGoOn == Spec => []NeverStuck
<1>1. IInv /\ HoldingInv => NeverStuck
  <2> SUFFICES ASSUME IInv, HoldingInv, NEW p \in Procs, pc[p] \notin {"off", "running"}
               PROVE  CanGoOn(p)
    BY DEF NeverStuck
  <2>1. HoldsOnly(p) /\ TxInv(p) /\ pc[p] \in Opening \cup {"load"}
    BY DEF IInv, ProcInv, HoldingInv, TypeOK
  <2>2. CASE pc[p] = "tx"
    BY <2>1, <2>2 DEF TxInv, CanGoOn
  <2>3. CASE pc[p] # "tx"
    BY <2>1, <2>3 DEF HoldsOnly, CanGoOn, Opening
  <2> QED BY <2>2, <2>3
<1> QED BY <1>1, Invariance, HoldingInvariance, PTL

(* Nothing turns a process from its course while it has no rival: no row   *)
(* is refused, no lock is waited for, and it ends only by coming to run.   *)
(* With StartsAdvance and StartsGoOn this is why StartHeals holds of a     *)
(* process whose steps are taken, whatever earlier starts left behind.     *)
StaysOnCourse ==
  [][\A p \in Procs : OnCourse(p) => OnCourse(p)' \/ pc'[p] = "running" \/ ~Alone(p)']_vars

LEMMA OnCourseStep ==
  ASSUME IInv, HoldingInv, NEW p \in Procs, OnCourse(p), Acts(p), faults' \in 0..MaxFaults
  PROVE  OnCourse(p)' \/ pc'[p] = "running" \/ ~Alone(p)'
<1> TypeOK /\ TxInv(p) /\ HoldsOnly(p)
  BY DEF IInv, ProcInv, HoldingInv
<1>1. faults' = MaxFaults /\ Alone(p)'
  <2>1. faults' >= faults
    BY FaultsAssumption DEF Acts, Step, Start, Load, LoadFails, CreateTable, Query, CloseRows,
          Skip, Begin, ExecStatement, InsertRow, RowRefused, Commit, LockTimeout, Run,
          OpenFails, Stop, Kill, TypeOK
  <2>2. Alone(p)'
    <3>1. ASSUME NEW q \in Procs \ {p} PROVE pc'[q] \in {"off", "running"}
      BY <3>1, OthersUntouched DEF OnCourse, Alone
    <3> QED BY <3>1 DEF Alone
  <2> QED BY <2>1, <2>2, FaultsAssumption DEF OnCourse, TypeOK
<1>2. Locked(p)
  <2>1. ASSUME writer \in Procs, writer # p PROVE FALSE
    <3>1. HoldsOnly(writer) /\ TxInv(writer)
      BY <2>1 DEF HoldingInv, IInv, ProcInv
    <3>2. pc[writer] \in {"off", "running"}
      BY <2>1 DEF OnCourse, Alone
    <3> QED BY <3>1, <3>2 DEF HoldsOnly, TxInv
  <2> QED BY <2>1 DEF Locked, TypeOK
<1> USE FilesFacts, FaultsAssumption DEF OnCourse, TypeOK, Goto, disk
<1>3. CASE Load(p) \/ LoadFails(p) \/ CreateTable(p) \/ CloseRows(p)
  BY <1>1, <1>3 DEF Load, LoadFails, CreateTable, CloseRows
<1>4. CASE Query(p)
  BY <1>1, <1>4 DEF Query
<1>5. CASE Skip(p)
  <2>1. file'[p] = file[p] + 1 /\ file[p] \in Nat
    BY <1>5 DEF Skip
  <2>2. \A i \in versions : i \in applied[p] \/ i < file'[p]
    BY <1>5, <2>1 DEF Skip
  <2> QED BY <1>1, <1>5, <2>2 DEF Skip
<1>10. CASE Begin(p) \/ Run(p)
  BY <1>1, <1>10 DEF Begin, Run
<1>6. CASE ExecStatement(p) \/ InsertRow(p)
  BY <1>1, <1>6 DEF ExecStatement, InsertRow
<1>7. CASE Commit(p)
  BY <1>1, <1>7 DEF Commit
<1>8. CASE RowRefused(p) \/ LockTimeout(p)
  BY <1>2, <1>8 DEF RowRefused, LockTimeout, HoldsOnly, Locked
<1>9. CASE (\E c \in Configs : Start(p, c)) \/ OpenFails(p) \/ Stop(p) \/ Kill(p)
  BY <1>9 DEF Start, OpenFails, Stop, Kill
<1> QED BY <1>3, <1>4, <1>5, <1>6, <1>7, <1>8, <1>9, <1>10 DEF Acts, Step

(* A file that is valid with the defaults is all a start needs once nobody *)
(* interferes: no state of the disk is one it cannot come up from.         *)
THEOREM AloneComesUp == Spec => StaysOnCourse
<1>1. IInv /\ HoldingInv /\ IInv' /\ [Next]_vars =>
        [\A p \in Procs :
           OnCourse(p) => OnCourse(p)' \/ pc'[p] = "running" \/ ~Alone(p)']_vars
  <2> SUFFICES ASSUME IInv, HoldingInv, faults' \in 0..MaxFaults, NEW q \in Procs, Acts(q),
                      NEW p \in Procs, OnCourse(p), Alone(p)'
               PROVE  OnCourse(p)' \/ pc'[p] = "running"
    BY DEF Next, Acts, IInv, TypeOK
  <2>1. CASE q = p
    BY <2>1, OnCourseStep
  <2>2. CASE q # p
    <3>1. (\E c \in Configs : Start(q, c)) \/ Stop(q)
      BY <2>2 DEF OnCourse, Alone, Acts, Step, Load, LoadFails, CreateTable, Query, CloseRows,
                  Skip, Begin, ExecStatement, InsertRow, RowRefused, Commit, LockTimeout, Run,
                  OpenFails, Stop, Kill, IInv, TypeOK
    <3>2. UNCHANGED <<versions, faults>>
      BY <3>1 DEF Start, Stop, Exit, disk
    <3> QED BY <2>2, <3>2, OthersUntouched DEF OnCourse
  <2> QED BY <2>1, <2>2
<1> QED BY <1>1, Invariance, HoldingInvariance, PTL DEF Spec, StaysOnCourse
=============================================================================
