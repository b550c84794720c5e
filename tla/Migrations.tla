------------------------------ MODULE Migrations ------------------------------
(***************************************************************************)
(* migrate() of app/migrations.py: every process calls it when it starts,  *)
(* under a file lock, and applies the migrations that schema_version does  *)
(* not name.  The statements of a migration do not run in one transaction: *)
(* a process that dies leaves part of a migration behind, and the next one *)
(* runs that migration again from its first statement.                     *)
(***************************************************************************)
EXTENDS Naturals, Sequences, FiniteSets

CONSTANTS
  Steps,      \* the migrations, each a sequence of statements
  Processes,  \* what starts after an update: web application, timers, worker
  Releases,   \* versions of the schema that an installation may come from
  MaxDeaths

Versions == DOMAIN Steps
None == "none"

ASSUME StepsAssumption ==
  /\ Len(Steps) \in Nat /\ Versions = 1..Len(Steps)
  /\ \A v \in Versions : Len(Steps[v]) \in Nat /\ DOMAIN Steps[v] = 1..Len(Steps[v])
ASSUME ReleasesAssumption == Releases \subseteq Versions \cup {0}
ASSUME ProcessesAssumption == None \notin Processes
ASSUME DeathsAssumption == MaxDeaths \in Nat

VARIABLES
  disk,    \* the database as the last commit left it
  work,    \* the database as the holder of the lock sees it
  open,    \* whether the holder is in a transaction
  holder,  \* the process that has the lock
  step,    \* the holder's next statement of the migration under way
  at,      \* for each process: "off", "waits", "migrates" or "serves"
  deaths

vars == <<disk, work, open, holder, step, at, deaths>>

-----------------------------------------------------------------------------
(* What is in a database: tables, columns, indexes and settings rows, the  *)
(* versions that are recorded, whether an AI request of a release without  *)
(* trigger_source is still waiting, and whether two routers share a port.  *)

TableOf(t) == <<"table", t, {}>>
ColumnOf(t, c) == <<"column", t, {c}>>

HasColumn(db, t, cols) == <<"column", t, cols>> \in db.has

\* what a statement leaves behind
Leaves(s) ==
  CASE s.kind = "table" -> {TableOf(s.of)} \cup {ColumnOf(s.of, c) : c \in s.cols}
    [] s.kind \in {"index", "unique"} -> {<<"index", s.of, s.cols>>}
    [] s.kind = "column" -> {<<"column", s.of, s.cols>>}
    [] s.kind = "seed" -> {<<"row", s.of, {}>>}
    [] OTHER -> {}

\* what is there after it, also when the table was there before
Remains(s) == IF s.kind = "table" THEN {TableOf(s.of)} ELSE Leaves(s)

\* what SQLite wants to find before it
Needs(s) ==
  CASE s.kind = "table" -> {}
    [] s.kind \in {"column", "seed"} -> {TableOf(s.of)}
    [] OTHER -> {TableOf(s.of)} \cup {ColumnOf(s.of, c) : c \in s.cols}

\* an existing table is left as it is, whatever columns it has
Adds(s, db) == IF s.kind = "table" /\ TableOf(s.of) \in db.has THEN {} ELSE Leaves(s)

Works(s, db) ==
  /\ Needs(s) \subseteq db.has
  /\ s.kind = "unique" => ~db.duplicates
  /\ s.kind = "column" => HasColumn(db, s.of, s.cols) \/ Leaves(s) \cap db.has = {}

Apply(s, db) ==
  [db EXCEPT !.has = @ \cup Adds(s, db),
             !.requests = @ /\ s.kind # "retire",
             !.duplicates = @ /\ s.kind # "clear"]

\* statements that open a transaction when they are not part of a script
Writes(s, db) == s.kind = "retire" \/ (s.kind = "clear" /\ db.duplicates)

-----------------------------------------------------------------------------

Pending(db) == {v \in Versions : v \notin db.versions}
\* mutant: the newest migration first
NewestVersion == CHOOSE v \in Pending(work) : \A u \in Pending(work) : v >= u

Version == CHOOSE v \in Pending(work) : \A u \in Pending(work) : v <= u
Current == Steps[Version][step]
Holds(p) == holder = p /\ at[p] = "migrates"

\* the databases of an update: of an earlier release, or of an installation
\* made before there were migrations (the tables that _m3 and _m5 speak of)
Released(v) ==
  [has |-> UNION {UNION {Leaves(Steps[u][i]) : i \in DOMAIN Steps[u]} : u \in 1..v},
   versions |-> 1..v, requests |-> FALSE, duplicates |-> FALSE]

Historical ==
  [Released(0) EXCEPT !.has = {TableOf(t) : t \in {"enrollment_tokens", "routers", "fleet_settings",
                                             "fleet_jobs", "fleet_job_results",
                                             "router_snapshots", "fleet_findings"}}
                        \cup {ColumnOf("routers", "id")}
                        \cup {ColumnOf("fleet_job_results", c) : c \in {"id", "job_id"}}
                        \cup {ColumnOf("fleet_findings", c) : c \in {"router_id", "detected_at"}}]

OnePort == <<"index", "routers", {"public_winbox_port"}>>
Retired(db) == \E v \in db.versions : \E i \in DOMAIN Steps[v] : Steps[v][i].kind = "retire"

\* what the programs of the time may have written
Requests(db) == IF TableOf("router_ai_analyses") \in db.has /\ ~Retired(db) THEN BOOLEAN ELSE {FALSE}
Duplicates(db) == IF HasColumn(db, "routers", {"public_winbox_port"}) /\ OnePort \notin db.has
                    THEN BOOLEAN ELSE {FALSE}

\* What the list of migrations takes care of: a table that is made twice, or
\* that the first migration may find, gets the columns it lacks; the requests
\* without a source are retired; the ports are cleared where they become unique.
Added(t, c) ==
  \E v \in Versions : \E i \in DOMAIN Steps[v] :
    Steps[v][i].kind = "column" /\ Steps[v][i].of = t /\ Steps[v][i].cols = {c}
Always(t, c) ==
  /\ \A v \in Versions : \A i \in DOMAIN Steps[v] :
       Steps[v][i].kind = "table" /\ Steps[v][i].of = t => c \in Steps[v][i].cols
  /\ TableOf(t) \in Historical.has \cup {TableOf("schema_version")} => ColumnOf(t, c) \in Historical.has
Clears(v, i) ==
  /\ Steps[v][i].kind = "clear"
  /\ \E k \in DOMAIN Steps[v] : Steps[v][k].kind = "unique" /\ OnePort \in Leaves(Steps[v][k])

ASSUME HistoryAssumption ==
  /\ \A v \in Versions : \A i \in DOMAIN Steps[v] :
       Steps[v][i].kind = "table" =>
         \A c \in Steps[v][i].cols : Added(Steps[v][i].of, c) \/ Always(Steps[v][i].of, c)
  /\ \E v \in Versions : \E i \in DOMAIN Steps[v] : Steps[v][i].kind = "retire"
  /\ \E v \in Versions : \E i \in DOMAIN Steps[v] : Clears(v, i)

Init ==
  /\ \E db \in {Released(v) : v \in Releases} \cup {Historical} :
       \E r \in Requests(db), d \in Duplicates(db) :
         disk = [db EXCEPT !.requests = r, !.duplicates = d]
  /\ work = disk
  /\ open = FALSE
  /\ holder = None
  /\ step = 1
  /\ at = [p \in Processes |-> "off"]
  /\ deaths = 0

-----------------------------------------------------------------------------

Launch(p) ==
  /\ at[p] = "off"
  /\ at' = [at EXCEPT ![p] = "waits"]
  /\ UNCHANGED <<disk, work, open, holder, step, deaths>>

\* flock, the connection, schema_version itself, the SELECT of what is applied
Lock(p) ==
  /\ at[p] = "waits"
  /\ holder = None
  /\ holder' = p
  /\ at' = [at EXCEPT ![p] = "migrates"]
  /\ disk' = [disk EXCEPT !.has = @ \cup {TableOf("schema_version")}]
  /\ work' = disk'
  /\ step' = 1
  /\ UNCHANGED <<open, deaths>>

\* executescript commits what an earlier migration has left open
CommitFirst(p) ==
  /\ Holds(p)
  /\ Pending(work) # {}
  /\ step \in DOMAIN Steps[Version]
  /\ Current.script
  /\ open
  /\ disk' = work
  /\ open' = FALSE
  /\ UNCHANGED <<work, holder, step, at, deaths>>

Execute(p) ==
  /\ Holds(p)
  /\ Pending(work) # {}
  /\ step \in DOMAIN Steps[Version]
  /\ Works(Current, work)
  /\ ~(Current.script /\ open)
  /\ work' = Apply(Current, work)
  /\ open' = (open \/ (~Current.script /\ Writes(Current, work)))
  /\ disk' = IF open' THEN disk ELSE work'
  /\ step' = step + 1
  /\ UNCHANGED <<holder, at, deaths>>

\* INSERT INTO schema_version, which opens a transaction
Record(p) ==
  /\ Holds(p)
  /\ Pending(work) # {}
  /\ step \notin DOMAIN Steps[Version]
  /\ work' = [work EXCEPT !.versions = @ \cup {Version}]
  /\ open' = TRUE
  /\ step' = 1
  /\ UNCHANGED <<disk, holder, at, deaths>>

\* mutant: no commit before the lock is released
ServeUncommitted(p) ==
  /\ Holds(p)
  /\ Pending(work) = {}
  /\ work' = disk
  /\ open' = FALSE
  /\ holder' = None
  /\ at' = [at EXCEPT ![p] = "serves"]
  /\ UNCHANGED <<disk, step, deaths>>

\* the last commit; the lock is released and the process goes on
Serve(p) ==
  /\ Holds(p)
  /\ Pending(work) = {}
  /\ disk' = work
  /\ open' = FALSE
  /\ holder' = None
  /\ at' = [at EXCEPT ![p] = "serves"]
  /\ UNCHANGED <<work, step, deaths>>

\* mutant: a lock file that outlives its holder
DieLocked(p) ==
  /\ deaths < MaxDeaths
  /\ at[p] # "off"
  /\ deaths' = deaths + 1
  /\ at' = [at EXCEPT ![p] = "off"]
  /\ work' = disk
  /\ open' = FALSE
  /\ step' = 1
  /\ UNCHANGED <<disk, holder>>

\* a process ends: SQLite rolls back, the kernel drops the lock
Die(p) ==
  /\ deaths < MaxDeaths
  /\ at[p] # "off"
  /\ deaths' = deaths + 1
  /\ at' = [at EXCEPT ![p] = "off"]
  /\ IF holder = p
       THEN /\ work' = disk
            /\ open' = FALSE
            /\ holder' = None
            /\ step' = 1
       ELSE UNCHANGED <<work, open, holder, step>>
  /\ UNCHANGED disk

Next ==
  \E p \in Processes :
    \/ Launch(p)
    \/ Lock(p)
    \/ CommitFirst(p)
    \/ Execute(p)
    \/ Record(p)
    \/ Serve(p)
    \/ Die(p)

Spec == Init /\ [][Next]_vars

\* systemd and the timers start each process again; a process that runs goes on
Progress(p) == CommitFirst(p) \/ Execute(p) \/ Record(p) \/ Serve(p)
Fairness ==
  \A p \in Processes : WF_vars(Launch(p)) /\ SF_vars(Lock(p)) /\ WF_vars(Progress(p))
FairSpec == Spec /\ Fairness

-----------------------------------------------------------------------------
Database(db) ==
  /\ DOMAIN db = {"has", "versions", "requests", "duplicates"}
  /\ db.versions \subseteq Versions
  /\ {db.requests, db.duplicates} \subseteq BOOLEAN

TypeOK ==
  /\ Database(disk) /\ Database(work)
  /\ open \in BOOLEAN
  /\ holder \in Processes \cup {None}
  /\ step \in Nat \ {0}
  /\ at \in [Processes -> {"off", "waits", "migrates", "serves"}]
  /\ deaths \in 0..MaxDeaths

\* The version that current_version reports (the greatest one) says what it
\* seems to say: all migrations up to it have left what they make, although
\* none of them is atomic.
RecordedIsApplied ==
  \A v \in disk.versions :
    /\ 1..v \subseteq disk.versions
    /\ \A i \in DOMAIN Steps[v] : Remains(Steps[v][i]) \subseteq disk.has

\* Whatever it was installed from and however often processes have died, a
\* process that serves finds every table of its release, the columns of it that
\* SchemaHistory keeps (those a later statement mentions), no AI request that
\* would block its router's next one for ever (queue_analysis), and no two
\* routers on one public port.
ServesMigrated ==
  (\E p \in Processes : at[p] = "serves") =>
    /\ \A v \in Versions : \A i \in DOMAIN Steps[v] : Leaves(Steps[v][i]) \subseteq disk.has
    /\ ~disk.requests
    /\ ~disk.duplicates

\* Every process comes to serve: one that died never keeps the lock, and what it
\* has left half done can be run again, for no statement meets a column it is to
\* add, lacks one it wants, or finds two routers with a port that must be unique.
AllServe == \A p \in Processes : <>[](at[p] = "serves")

-----------------------------------------------------------------------------
\* The inductive invariant: the versions of a database are the first ones; the
\* statements that are behind it have left what they make, a bad row has its
\* cure ahead; tables have their columns, or will be given them.
Prefix(V) == \E n \in 0..Len(Steps) : V = 1..n
Behind(db, n, v, i) == v \in db.versions \/ (db.versions = 1..(v - 1) /\ i < n)
Ahead(db, n, kind) ==
  \E v \in Versions : \E i \in DOMAIN Steps[v] : Steps[v][i].kind = kind /\ ~Behind(db, n, v, i)
Columned(db) ==
  \A v \in Versions : \A i \in DOMAIN Steps[v] :
    Steps[v][i].kind = "table" /\ TableOf(Steps[v][i].of) \in db.has =>
      \A c \in Steps[v][i].cols : ColumnOf(Steps[v][i].of, c) \in db.has \/ Added(Steps[v][i].of, c)
Sound(db, n) ==
  /\ Prefix(db.versions) /\ Columned(db)
  /\ \A v \in Versions : \A i \in DOMAIN Steps[v] :
       Behind(db, n, v, i) => Remains(Steps[v][i]) \subseteq db.has
  /\ db.requests => Ahead(db, n, "retire")
  /\ db.duplicates => Ahead(db, n, "clear")

MigrationInv ==
  /\ Sound(disk, 1) /\ Sound(work, step)
  /\ ~open => disk = work
  /\ disk.versions \subseteq work.versions
  /\ (\E p \in Processes : at[p] = "serves") => disk.versions = Versions

=============================================================================
