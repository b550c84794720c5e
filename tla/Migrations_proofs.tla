-------------------------- MODULE Migrations_proofs --------------------------
(* Theorems about migrate(), for any list of migrations that takes care of *)
(* what HistoryAssumption names, any releases, processes and deaths.       *)
EXTENDS Migrations, TLAPS

USE StepsAssumption, ReleasesAssumption

-----------------------------------------------------------------------------
(* Databases and what a statement does to one.                             *)

(* A statement adds to the schema and repairs rows, and records nothing.   *)
LEMMA AppliedTo ==
  ASSUME NEW db, Database(db), NEW s
  PROVE  LET new == Apply(s, db)
         IN /\ Database(new) /\ new.versions = db.versions /\ new.has = db.has \cup Adds(s, db)
            /\ new.requests => db.requests /\ s.kind # "retire"
            /\ new.duplicates => db.duplicates /\ s.kind # "clear"
BY DEF Apply, Database

(* The row of schema_version changes nothing else.                         *)
LEMMA RecordedIn ==
  ASSUME NEW db, Database(db), NEW v \in Versions
  PROVE  LET new == [db EXCEPT !.versions = @ \cup {v}]
         IN /\ Database(new) /\ new.versions = db.versions \cup {v} /\ new.has = db.has
            /\ new.requests = db.requests /\ new.duplicates = db.duplicates
BY DEF Database

(* Nor does a table that is made beside the migrations.                    *)
LEMMA GivenTable ==
  ASSUME NEW db, Database(db), NEW t
  PROVE  LET new == [db EXCEPT !.has = @ \cup {t}]
         IN /\ Database(new) /\ new.versions = db.versions /\ new.has = db.has \cup {t}
            /\ new.requests = db.requests /\ new.duplicates = db.duplicates
BY DEF Database

(* What a statement makes is there when it has run.                        *)
LEMMA Lasts ==
  ASSUME NEW db, NEW s PROVE Remains(s) \subseteq db.has \cup Adds(s, db) /\ Remains(s) \subseteq Leaves(s)
BY DEF Remains, Adds, Leaves

(* The version under way is the one after those that are recorded.         *)
LEMMA NextVersion ==
  ASSUME Prefix(work.versions), Pending(work) # {}
  PROVE  Version \in Versions /\ work.versions = 1..(Version - 1)
<1>1. PICK n \in 0..Len(Steps) : work.versions = 1..n
  BY DEF Prefix
<1>2. n + 1 \in Pending(work) /\ \A u \in Pending(work) : n + 1 <= u
  BY <1>1 DEF Pending
<1>3. Version \in Pending(work) /\ \A u \in Pending(work) : Version <= u
  BY <1>2 DEF Version
<1>4. Version = n + 1
  BY <1>2, <1>3 DEF Pending
<1> QED
  BY <1>1, <1>3, <1>4 DEF Pending

-----------------------------------------------------------------------------
(* What makes a database sound.                                            *)

(* Only a statement that makes the table leaves one behind.                *)
LEMMA TableMaker ==
  ASSUME NEW s, NEW t, TableOf(t) \in Leaves(s) PROVE s.kind = "table" /\ s.of = t
BY DEF Leaves, TableOf, ColumnOf

(* A statement that makes a table makes its columns.                       *)
LEMMA ColumnsMade ==
  ASSUME NEW s, s.kind = "table", NEW c \in s.cols PROVE ColumnOf(s.of, c) \in Leaves(s)
BY DEF Leaves

(* What every table statement names, the one that makes the table makes;   *)
(* the rest is in Added.                                                   *)
LEMMA ColumnsKept ==
  ASSUME NEW db, Database(db), Columned(db), NEW v \in Versions, NEW n \in DOMAIN Steps[v]
  PROVE  Columned(Apply(Steps[v][n], db))
<1> DEFINE s == Steps[v][n]
           new == Apply(s, db)
<1>1. new.has = db.has \cup Adds(s, db)
  BY AppliedTo
<1> HIDE DEF new
<1>2. ASSUME NEW u \in Versions, NEW k \in DOMAIN Steps[u], NEW c \in Steps[u][k].cols,
             Steps[u][k].kind = "table", TableOf(Steps[u][k].of) \in new.has
      PROVE  ColumnOf(Steps[u][k].of, c) \in new.has \/ Added(Steps[u][k].of, c)
  <2>1. CASE TableOf(Steps[u][k].of) \in db.has
    BY <1>1, <1>2, <2>1 DEF Columned
  <2>2. CASE TableOf(Steps[u][k].of) \notin db.has
    <3>1. TableOf(Steps[u][k].of) \in Leaves(s)
      BY <1>1, <1>2, <2>2 DEF Adds
    <3>2. s.kind = "table" /\ s.of = Steps[u][k].of
      BY <3>1, TableMaker
    <3>3. Adds(s, db) = Leaves(s)
      BY <2>2, <3>2 DEF Adds
    <3>4. Added(s.of, c) \/ Always(s.of, c)
      BY <1>2, <3>2, HistoryAssumption
    <3>5. CASE Always(s.of, c)
      <4>1. c \in s.cols
        BY <3>2, <3>5 DEF Always
      <4> QED
        BY <1>1, <3>2, <3>3, <4>1, ColumnsMade
    <3> QED
      BY <3>2, <3>4, <3>5
  <2> QED
    BY <2>1, <2>2
<1>3. Columned(new)
  BY <1>2 DEF Columned
<1> QED
  BY <1>3 DEF new

(* A database in which work was interrupted is sound from the first        *)
(* statement of the migration on.                                          *)
LEMMA Interrupted ==
  ASSUME NEW db, NEW n, Sound(db, n) PROVE Sound(db, 1)
<1>1. \A v \in Versions : \A i \in DOMAIN Steps[v] : Behind(db, 1, v, i) => Behind(db, n, v, i)
  BY DEF Behind
<1>2. \A k : Ahead(db, n, k) => Ahead(db, 1, k)
  BY <1>1 DEF Ahead
<1> QED
  BY <1>1, <1>2 DEF Sound

(* A statement of the next migration takes a sound database one further.   *)
LEMMA Executed ==
  ASSUME NEW db, Database(db), NEW v \in Versions, NEW n \in DOMAIN Steps[v],
         Sound(db, n), db.versions = 1..(v - 1)
  PROVE  Sound(Apply(Steps[v][n], db), n + 1)
<1> DEFINE s == Steps[v][n]
           new == Apply(s, db)
<1>1. /\ Database(new) /\ new.versions = db.versions /\ new.has = db.has \cup Adds(s, db)
      /\ new.requests => db.requests /\ s.kind # "retire"
      /\ new.duplicates => db.duplicates /\ s.kind # "clear"
  BY AppliedTo
<1>2. Columned(new)
  BY ColumnsKept DEF Sound
<1>3. ASSUME NEW u \in Versions, NEW i \in DOMAIN Steps[u]
      PROVE  Behind(new, n + 1, u, i) <=> Behind(db, n, u, i) \/ (u = v /\ i = n)
  <2>1. n \in Nat /\ i \in Nat /\ u \in Nat /\ v \in Nat /\ u >= 1 /\ v >= 1
    OBVIOUS
  <2>2. 1..(u - 1) = 1..(v - 1) => u = v
    BY <2>1
  <2> HIDE DEF new
  <2> QED
    BY <1>1, <2>1, <2>2 DEF Behind
<1> HIDE DEF new
<1>4. \A u \in Versions : \A i \in DOMAIN Steps[u] :
        Behind(new, n + 1, u, i) => Remains(Steps[u][i]) \subseteq new.has
  BY <1>1, <1>3, Lasts DEF Sound
<1>5. ASSUME NEW kind, s.kind # kind, Ahead(db, n, kind) PROVE Ahead(new, n + 1, kind)
  BY <1>3, <1>5 DEF Ahead
<1>6. Sound(new, n + 1)
  BY <1>1, <1>2, <1>4, <1>5 DEF Sound
<1> QED
  BY <1>6 DEF new

(* When all its statements have run, the next migration may be recorded.   *)
LEMMA RecordedSound ==
  ASSUME NEW db, Database(db), NEW v \in Versions, NEW n \in Nat \ {0}, n \notin DOMAIN Steps[v],
         Sound(db, n), db.versions = 1..(v - 1)
  PROVE  Sound([db EXCEPT !.versions = @ \cup {v}], 1)
<1> DEFINE new == [db EXCEPT !.versions = @ \cup {v}]
<1>1. /\ Database(new) /\ new.versions = db.versions \cup {v} /\ new.has = db.has
      /\ new.requests = db.requests /\ new.duplicates = db.duplicates
  BY RecordedIn
<1> HIDE DEF new
<1>2. new.versions = 1..v /\ Prefix(new.versions)
  <2>1. (1..(v - 1)) \cup {v} = 1..v
    OBVIOUS
  <2> QED
    BY <1>1, <2>1 DEF Prefix
<1>3. ASSUME NEW u \in Versions, NEW i \in DOMAIN Steps[u]
      PROVE  Behind(new, 1, u, i) => Behind(db, n, u, i)
  <2>1. n \in Nat /\ i \in Nat /\ i >= 1 /\ u \in Nat /\ v \in Nat /\ u >= 1 /\ v >= 1
    OBVIOUS
  <2>2. u = v => i < n
    BY <2>1
  <2> QED
    BY <1>1, <2>1, <2>2 DEF Behind
<1>4. Columned(new)
  BY <1>1 DEF Columned, Sound
<1>5. ASSUME NEW kind, Ahead(db, n, kind) PROVE Ahead(new, 1, kind)
  BY <1>3, <1>5 DEF Ahead
<1>6. Sound(new, 1)
  BY <1>1, <1>2, <1>3, <1>4, <1>5 DEF Sound
<1> QED
  BY <1>6 DEF new

(* The table of versions itself, which every process makes first.          *)
LEMMA VersionsTable ==
  ASSUME NEW db, Database(db), Sound(db, 1)
  PROVE  Sound([db EXCEPT !.has = @ \cup {TableOf("schema_version")}], 1)
<1> DEFINE new == [db EXCEPT !.has = @ \cup {TableOf("schema_version")}]
<1>1. /\ Database(new) /\ new.versions = db.versions /\ new.has = db.has \cup {TableOf("schema_version")}
      /\ new.requests = db.requests /\ new.duplicates = db.duplicates
  BY GivenTable
<1> HIDE DEF new
<1>2. \A c : ~Always("schema_version", c)
  BY DEF Always, Historical, TableOf, ColumnOf, Released
<1>3. \A t : TableOf(t) = TableOf("schema_version") => t = "schema_version"
  BY DEF TableOf
<1>4. Columned(new)
  BY <1>1, <1>2, <1>3, HistoryAssumption DEF Columned, Sound
<1>5. \A v \in Versions : \A i \in DOMAIN Steps[v] : Behind(new, 1, v, i) <=> Behind(db, 1, v, i)
  BY <1>1 DEF Behind
<1>6. \A kind : Ahead(db, 1, kind) => Ahead(new, 1, kind)
  BY <1>5 DEF Ahead
<1>7. Sound(new, 1)
  BY <1>1, <1>4, <1>5, <1>6 DEF Sound
<1> QED
  BY <1>7 DEF new

-----------------------------------------------------------------------------
(* The databases that an update may find.                                  *)

(* A base is sound but for the rows that its programs may have written.    *)
Base(db) ==
  /\ Database(db) /\ Prefix(db.versions) /\ Columned(db)
  /\ \A v \in db.versions : \A i \in DOMAIN Steps[v] : Leaves(Steps[v][i]) \subseteq db.has
  /\ ~db.requests /\ ~db.duplicates

(* The schema of a release has what its migrations make.                   *)
LEMMA ReleasedBase == ASSUME NEW r \in Releases PROVE Base(Released(r))
<1> DEFINE db == Released(r)
<1>1. /\ Database(db) /\ db.versions = 1..r /\ ~db.requests /\ ~db.duplicates
      /\ db.has = UNION {UNION {Leaves(Steps[u][i]) : i \in DOMAIN Steps[u]} : u \in 1..r}
  BY DEF Released, Database
<1>2. Prefix(db.versions) /\ db.versions \subseteq Versions
  BY <1>1 DEF Prefix
<1> HIDE DEF db
<1>3. \A v \in db.versions : \A i \in DOMAIN Steps[v] : Leaves(Steps[v][i]) \subseteq db.has
  BY <1>1
<1>4. ASSUME NEW v \in Versions, NEW i \in DOMAIN Steps[v], NEW c \in Steps[v][i].cols,
             Steps[v][i].kind = "table", TableOf(Steps[v][i].of) \in db.has
      PROVE  ColumnOf(Steps[v][i].of, c) \in db.has \/ Added(Steps[v][i].of, c)
  <2> PICK u \in db.versions : \E k \in DOMAIN Steps[u] : TableOf(Steps[v][i].of) \in Leaves(Steps[u][k])
    BY <1>1, <1>4
  <2>1. PICK k \in DOMAIN Steps[u] : TableOf(Steps[v][i].of) \in Leaves(Steps[u][k])
    OBVIOUS
  <2>2. Steps[u][k].kind = "table" /\ Steps[u][k].of = Steps[v][i].of /\ u \in Versions
    BY <1>2, <2>1, TableMaker
  <2>3. CASE Always(Steps[v][i].of, c)
    <3>1. c \in Steps[u][k].cols
      BY <2>2, <2>3 DEF Always
    <3> QED
      BY <1>3, <2>1, <2>2, <3>1, ColumnsMade
  <2> QED
    BY <1>4, <2>3, HistoryAssumption
<1>5. Columned(db)
  BY <1>4 DEF Columned
<1> QED
  BY <1>1, <1>2, <1>3, <1>5 DEF Base, db

(* The tables from before the migrations have what the first ones rely on. *)
LEMMA HistoricalBase == Base(Historical)
<1>1. /\ Database(Historical) /\ Historical.versions = {}
      /\ ~Historical.requests /\ ~Historical.duplicates
  BY DEF Historical, Released, Database
<1>2. Prefix({})
  BY DEF Prefix
<1>3. Columned(Historical)
  BY HistoryAssumption DEF Columned, Always
<1> QED
  BY <1>1, <1>2, <1>3 DEF Base

(* Rows that a migration cures are there only before it has run.           *)
LEMMA DataSound ==
  ASSUME NEW base, Base(base), NEW r \in Requests(base), NEW d \in Duplicates(base),
         NEW db, db = [base EXCEPT !.requests = r, !.duplicates = d]
  PROVE  Database(db) /\ Sound(db, 1)
<1>1. /\ Database(db) /\ db.versions = base.versions /\ db.has = base.has
      /\ db.requests => ~Retired(base)
      /\ db.duplicates => OnePort \notin base.has
  <2>1. r \in BOOLEAN /\ (r => ~Retired(base)) /\ d \in BOOLEAN /\ (d => OnePort \notin base.has)
    BY DEF Requests, Duplicates
  <2>2. Database(base)
    BY DEF Base
  <2>3. /\ DOMAIN db = DOMAIN base /\ db.versions = base.versions /\ db.has = base.has
        /\ db.requests = r /\ db.duplicates = d
    BY <2>2 DEF Database
  <2>4. Database(db)
    BY <2>1, <2>2, <2>3 DEF Database
  <2> QED
    BY <2>1, <2>3, <2>4
<1>2. \A v \in Versions : \A i \in DOMAIN Steps[v] : Behind(db, 1, v, i) => v \in db.versions
  BY DEF Behind
<1>3. \A v \in Versions : \A i \in DOMAIN Steps[v] :
        Behind(db, 1, v, i) => Remains(Steps[v][i]) \subseteq db.has
  BY <1>1, <1>2, Lasts DEF Base
<1>4. ASSUME db.requests PROVE Ahead(db, 1, "retire")
  <2>1. PICK v \in Versions : \E i \in DOMAIN Steps[v] : Steps[v][i].kind = "retire"
    BY HistoryAssumption
  <2>2. v \notin db.versions
    BY <1>1, <1>4, <2>1 DEF Retired
  <2> QED
    BY <1>2, <2>1, <2>2 DEF Ahead
<1>5. ASSUME db.duplicates PROVE Ahead(db, 1, "clear")
  <2>1. PICK v \in Versions : \E i \in DOMAIN Steps[v] : Clears(v, i)
    BY HistoryAssumption
  <2>2. v \notin db.versions
    BY <1>1, <1>5, <2>1 DEF Base, Clears
  <2> QED
    BY <1>2, <2>1, <2>2 DEF Ahead, Clears
<1>6. Columned(db) /\ Prefix(db.versions)
  BY <1>1 DEF Base, Columned
<1> QED
  BY <1>1, <1>3, <1>4, <1>5, <1>6 DEF Sound

(* Every database that an update may find satisfies the invariant.         *)
LEMMA InitHolds == Init => TypeOK /\ MigrationInv
<1> SUFFICES ASSUME Init PROVE TypeOK /\ MigrationInv
  OBVIOUS
<1>1. Database(disk) /\ Sound(disk, 1)
  BY ReleasedBase, HistoricalBase, DataSound DEF Init
<1>2. TypeOK
  <2>1. deaths \in 0..MaxDeaths /\ step \in Nat \ {0}
    BY DeathsAssumption DEF Init
  <2>2. open \in BOOLEAN
    BY DEF Init
  <2>3. at \in [Processes -> {"off", "waits", "migrates", "serves"}] /\ holder = None /\ work = disk
    BY DEF Init
  <2> QED
    BY <1>1, <2>1, <2>2, <2>3 DEF TypeOK
<1>3. MigrationInv
  BY <1>1 DEF Init, MigrationInv
<1> QED
  BY <1>2, <1>3

-----------------------------------------------------------------------------
(* The steps of a process.                                                 *)

(* A process that gets the lock starts from what is on the disk.           *)
LEMMA LockKeeps ==
  ASSUME TypeOK, MigrationInv, NEW p \in Processes, Lock(p) PROVE TypeOK' /\ MigrationInv'
<1>1. Database(disk') /\ Sound(disk', 1) /\ disk'.versions = disk.versions
  BY GivenTable, VersionsTable DEF Lock, TypeOK, MigrationInv
<1>2. work' = disk' /\ step' = 1 /\ open' = open
  BY DEF Lock
<1>3. TypeOK'
  BY <1>1, <1>2 DEF Lock, TypeOK
<1>4. \A q \in Processes : at'[q] = "serves" => at[q] = "serves"
  BY DEF Lock, TypeOK
<1> QED
  BY <1>1, <1>2, <1>3, <1>4 DEF MigrationInv

(* What is committed in the middle of a migration is sound from its start. *)
LEMMA CommitKeeps ==
  ASSUME TypeOK, MigrationInv, NEW p \in Processes, CommitFirst(p) PROVE TypeOK' /\ MigrationInv'
<1>1. disk' = work /\ open' = FALSE /\ UNCHANGED <<work, step, holder, at, deaths>>
  BY DEF CommitFirst
<1>2. Sound(work, 1)
  BY Interrupted DEF MigrationInv
<1>3. (\E q \in Processes : at[q] = "serves") => work.versions = Versions
  BY DEF MigrationInv, TypeOK, Database
<1>4. TypeOK'
  BY <1>1 DEF TypeOK
<1> QED
  BY <1>1, <1>2, <1>3, <1>4 DEF MigrationInv

(* A statement, committed at once or not.                                  *)
LEMMA ExecuteKeeps ==
  ASSUME TypeOK, MigrationInv, NEW p \in Processes, Execute(p) PROVE TypeOK' /\ MigrationInv'
<1>1. Pending(work) # {} /\ step \in DOMAIN Steps[Version] /\ work' = Apply(Steps[Version][step], work)
  BY DEF Execute, Current
<1>2. Version \in Versions /\ work.versions = 1..(Version - 1)
  BY <1>1, NextVersion DEF MigrationInv, Sound
<1>3. Database(work') /\ work'.versions = work.versions
  BY <1>1, AppliedTo DEF TypeOK
<1>4. Sound(work', step + 1)
  BY <1>1, <1>2, Executed DEF MigrationInv, TypeOK
<1>5. Sound(work', 1)
  BY <1>4, Interrupted
<1>6. disk' = disk \/ disk' = work'
  BY DEF Execute
<1>7. ~open' => disk' = work'
  BY DEF Execute
<1>8. step' = step + 1 /\ UNCHANGED <<holder, at, deaths>>
  BY DEF Execute
<1>9. TypeOK'
  <2>1. open' \in BOOLEAN
    BY DEF Execute, TypeOK
  <2>2. step' \in Nat \ {0}
    BY <1>8 DEF TypeOK
  <2> QED
    BY <1>3, <1>6, <1>8, <2>1, <2>2 DEF TypeOK
<1>10. work.versions \subseteq Versions
  BY DEF TypeOK, Database
<1> QED
  BY <1>3, <1>4, <1>5, <1>6, <1>7, <1>8, <1>9, <1>10 DEF MigrationInv

(* A version that is recorded but not yet committed.                       *)
LEMMA RecordKeeps ==
  ASSUME TypeOK, MigrationInv, NEW p \in Processes, Record(p) PROVE TypeOK' /\ MigrationInv'
<1>1. /\ Pending(work) # {} /\ step \notin DOMAIN Steps[Version]
      /\ work' = [work EXCEPT !.versions = @ \cup {Version}]
      /\ open' = TRUE /\ step' = 1 /\ UNCHANGED <<disk, holder, at, deaths>>
  BY DEF Record
<1>2. Version \in Versions /\ work.versions = 1..(Version - 1)
  BY <1>1, NextVersion DEF MigrationInv, Sound
<1>3. Database(work') /\ work'.versions = work.versions \cup {Version}
  BY <1>1, <1>2, RecordedIn DEF TypeOK
<1>4. Sound(work', 1)
  BY <1>1, <1>2, RecordedSound DEF MigrationInv, TypeOK
<1>5. TypeOK'
  BY <1>1, <1>3 DEF TypeOK
<1> QED
  BY <1>1, <1>3, <1>4, <1>5 DEF MigrationInv

(* The last commit.                                                        *)
LEMMA ServeKeeps ==
  ASSUME TypeOK, MigrationInv, NEW p \in Processes, Serve(p) PROVE TypeOK' /\ MigrationInv'
<1>1. disk' = work /\ work' = work /\ open' = FALSE /\ holder' = None /\ UNCHANGED <<step, deaths>>
  BY DEF Serve
<1>2. Sound(work, 1) /\ Sound(work, step)
  BY Interrupted DEF MigrationInv
<1>3. work.versions = Versions
  BY DEF Serve, Pending, TypeOK, Database
<1>4. TypeOK'
  BY <1>1 DEF Serve, TypeOK
<1> QED
  BY <1>1, <1>2, <1>3, <1>4 DEF MigrationInv

(* A death rolls back to the disk.                                         *)
LEMMA DieKeeps ==
  ASSUME TypeOK, MigrationInv, NEW p \in Processes, Die(p) PROVE TypeOK' /\ MigrationInv'
<1>1. disk' = disk /\ \A q \in Processes : at'[q] = "serves" => at[q] = "serves"
  BY DEF Die, TypeOK
<1>2. \/ work' = disk /\ open' = FALSE /\ holder' = None /\ step' = 1
      \/ UNCHANGED <<work, open, holder, step>>
  BY DEF Die
<1>3. TypeOK'
  <2>1. deaths' \in 0..MaxDeaths
    <3>1. deaths < MaxDeaths /\ deaths' = deaths + 1
      BY DEF Die
    <3>2. deaths \in 0..MaxDeaths
      BY DEF TypeOK
    <3> QED
      BY <3>1, <3>2, DeathsAssumption
  <2>2. open' \in BOOLEAN
    BY <1>2 DEF TypeOK
  <2>3. at' \in [Processes -> {"off", "waits", "migrates", "serves"}]
    BY DEF Die, TypeOK
  <2> QED
    BY <1>1, <1>2, <2>1, <2>2, <2>3 DEF TypeOK
<1> QED
  BY <1>1, <1>2, <1>3 DEF MigrationInv

(* Every step keeps the invariant.                                         *)
LEMMA StepHolds == ASSUME TypeOK, MigrationInv, [Next]_vars PROVE TypeOK' /\ MigrationInv'
<1>1. ASSUME NEW p \in Processes, Launch(p) PROVE TypeOK' /\ MigrationInv'
  <2>1. UNCHANGED <<disk, work, open, holder, step, deaths>>
    BY <1>1 DEF Launch
  <2>2. /\ at' \in [Processes -> {"off", "waits", "migrates", "serves"}]
        /\ \A q \in Processes : at'[q] = "serves" => at[q] = "serves"
    BY <1>1 DEF Launch, TypeOK
  <2> QED
    BY <2>1, <2>2 DEF TypeOK, MigrationInv
<1>2. CASE UNCHANGED vars
  BY <1>2 DEF vars, TypeOK, MigrationInv
<1> QED
  BY <1>1, <1>2, LockKeeps, CommitKeeps, ExecuteKeeps, RecordKeeps, ServeKeeps, DieKeeps DEF Next

-----------------------------------------------------------------------------
(* The types and the invariant of the migrations.                          *)
LEMMA MigrationInvariant == Spec => [](TypeOK /\ MigrationInv)
BY InitHolds, StepHolds, PTL DEF Spec

(* The version that a database names says what it seems to say, although   *)
(* no migration is atomic: that one and all before it have been applied.   *)
THEOREM RecordedApplied == Spec => []RecordedIsApplied
<1>1. MigrationInv => RecordedIsApplied
  <2> SUFFICES ASSUME MigrationInv, NEW v \in disk.versions
               PROVE  /\ 1..v \subseteq disk.versions
                      /\ \A i \in DOMAIN Steps[v] : Remains(Steps[v][i]) \subseteq disk.has
    BY DEF RecordedIsApplied
  <2>1. PICK n \in 0..Len(Steps) : disk.versions = 1..n
    BY DEF MigrationInv, Sound, Prefix
  <2>2. 1..v \subseteq disk.versions /\ v \in Versions
    BY <2>1
  <2> QED
    BY <2>2 DEF MigrationInv, Sound, Behind
<1> QED
  BY <1>1, MigrationInvariant, PTL

(* A process serves only on a database with the whole schema of its        *)
(* release and without the rows that would stop its callers, whatever      *)
(* release it was updated from and wherever processes died on the way.     *)
THEOREM ServesOnlyMigrated == Spec => []ServesMigrated
<1>1. MigrationInv => ServesMigrated
  <2> SUFFICES ASSUME MigrationInv, disk.versions = Versions
               PROVE  /\ \A v \in Versions : \A i \in DOMAIN Steps[v] : Leaves(Steps[v][i]) \subseteq disk.has
                      /\ ~disk.requests /\ ~disk.duplicates
    BY DEF ServesMigrated, MigrationInv
  <2>1. \A v \in Versions : \A i \in DOMAIN Steps[v] : Behind(disk, 1, v, i)
    BY DEF Behind
  <2>2. \A v \in Versions : \A i \in DOMAIN Steps[v] : Remains(Steps[v][i]) \subseteq disk.has
    BY <2>1 DEF MigrationInv, Sound
  <2>3. ~disk.requests /\ ~disk.duplicates
    BY <2>1 DEF MigrationInv, Sound, Ahead
  <2>4. \A t, c : Added(t, c) => ColumnOf(t, c) \in disk.has
    BY <2>2 DEF Added, Remains, Leaves, ColumnOf
  <2>5. ASSUME NEW v \in Versions, NEW i \in DOMAIN Steps[v]
        PROVE  Leaves(Steps[v][i]) \subseteq disk.has
    <3>1. CASE Steps[v][i].kind # "table"
      BY <2>2, <3>1 DEF Remains
    <3>2. CASE Steps[v][i].kind = "table"
      <4>1. TableOf(Steps[v][i].of) \in disk.has
        BY <2>2, <3>2 DEF Remains
      <4>2. \A c \in Steps[v][i].cols : ColumnOf(Steps[v][i].of, c) \in disk.has
        BY <2>4, <3>2, <4>1 DEF MigrationInv, Sound, Columned
      <4> QED
        BY <3>2, <4>1, <4>2 DEF Leaves
    <3> QED
      BY <3>1, <3>2
  <2> QED
    BY <2>3, <2>5
<1> QED
  BY <1>1, MigrationInvariant, PTL

(* No death and no roll-back takes away a version that a database has      *)
(* named: what is lost with a process had not been named on the disk.      *)
THEOREM VersionsStay == Spec => [][disk.versions \subseteq disk'.versions]_vars
<1>1. TypeOK /\ MigrationInv /\ [Next]_vars => [disk.versions \subseteq disk'.versions]_vars
  <2> SUFFICES ASSUME TypeOK, MigrationInv, NEW p \in Processes,
                      Launch(p) \/ Lock(p) \/ CommitFirst(p) \/ Execute(p) \/ Record(p) \/ Serve(p) \/ Die(p)
               PROVE  disk.versions \subseteq disk'.versions
    BY DEF Next
  <2>1. CASE Lock(p)
    BY <2>1, GivenTable DEF Lock, TypeOK
  <2>2. CASE Execute(p)
    <3>1. work'.versions = work.versions
      BY <2>2, AppliedTo DEF Execute, TypeOK
    <3> QED
      BY <2>2, <3>1 DEF Execute, MigrationInv
  <2>3. CASE Launch(p) \/ CommitFirst(p) \/ Record(p) \/ Serve(p) \/ Die(p)
    BY <2>3 DEF Launch, CommitFirst, Record, Serve, Die, MigrationInv
  <2> QED
    BY <2>1, <2>2, <2>3
<1> QED
  BY <1>1, MigrationInvariant, PTL DEF Spec
=============================================================================
