------------------------ MODULE UpgradeCampaign_proofs ------------------------
(* Theorems about a campaign of any size, with any number of synchronising *)
(* actors, jobs and interruptions.                                         *)
EXTENDS UpgradeCampaign, TLAPS

USE SizeAssumption, CanaryAssumption, ActorsAssumption, MaxJobsAssumption,
    MaxAbortsAssumption, MaxOthersAssumption
USE DEF table, rows, held, locals, reads

-------------------------------------------------------------------------------
(* Types, in four parts.                                                   *)

TableType ==
  /\ job \in [Jobs -> JobStates] /\ owner \in [Jobs -> Members \cup {NoMember}]
  /\ status \in [Members -> MemberStates] /\ jobId \in [Members -> Jobs \cup {NoJob}]
  /\ campaign \in {"canary_running", "rollout_running", "completed", "failed"}
LocalType ==
  /\ at \in [Actors -> Steps]
  /\ stage \in [Actors -> {"canary", "rollout"}]
  /\ member \in [Actors -> Members \cup {NoMember}]
  /\ newJob \in [Actors -> Jobs \cup {NoJob}]
  /\ \A a \in Actors : /\ at[a] \in {"mark", "create", "record"} => member[a] # NoMember
                       /\ at[a] = "record" => newJob[a] # NoJob
ReadType ==
  /\ seenJob \in [Actors -> [Members -> Jobs \cup {NoJob}]]
  /\ first \in [Actors -> Members \cup {NoMember}]
  /\ seen \in [Actors -> MemberStates]
FlagType ==
  /\ elsewhere \in BOOLEAN /\ approving \in BOOLEAN /\ approved \in BOOLEAN
  /\ aborts \in 0..MaxAborts /\ others \in 0..MaxOthers

(* The type invariant in the four parts that are proved one by one. *)
LEMMA TypeParts == TypeOK <=> TableType /\ LocalType /\ ReadType /\ FlagType
BY DEF TypeOK, TableType, LocalType, ReadType, FlagType

(* The tables of jobs and members keep their types. *)
LEMMA TableStep ==
  ASSUME TableType, LocalType, ReadType, [Next]_vars
  PROVE  TableType'
<1> USE DEF TableType, Jobs, Members, NoJob, NoMember, JobStates, MemberStates
<1>1. ASSUME NEW a \in Actors, SyncWrite(a) PROVE TableType'
  <2>1. Copied(a) \in [Members -> MemberStates]
    BY DEF Copied, Mapped, ReadType
  <2> QED
    BY <1>1, <2>1 DEF SyncWrite
<1>2. ASSUME NEW a \in Actors, SyncRead(a) \/ Select(a) \/ Abort(a) PROVE TableType'
  BY <1>2 DEF SyncRead, Select, Abort
<1>3. ASSUME NEW a \in Actors, MarkFailed(a) PROVE TableType'
  <2>1. /\ status' = [status EXCEPT ![member[a]] = "failed"]
        /\ UNCHANGED <<job, owner, jobId, campaign>>
    BY <1>3 DEF MarkFailed, table
  <2> QED
    BY <2>1
<1>4. ASSUME NEW a \in Actors, Create(a) PROVE TableType'
  <2>1. /\ UNCHANGED <<status, jobId, campaign>>
        /\ \/ UNCHANGED <<job, owner>>
           \/ \E j \in Jobs : /\ job' = [job EXCEPT ![j] = "queued"]
                              /\ owner' = [owner EXCEPT ![j] = member[a]]
    BY <1>4 DEF Create, table, rows
  <2>2. member[a] \in Members \cup {NoMember}
    BY DEF LocalType
  <2> QED
    BY <2>1, <2>2
<1>5. ASSUME NEW a \in Actors, Record(a) PROVE TableType'
  <2>1. /\ status' = [status EXCEPT ![member[a]] = "queued"]
        /\ jobId' = [jobId EXCEPT ![member[a]] = newJob[a]]
        /\ UNCHANGED <<job, owner, campaign>>
    BY <1>5 DEF Record, table
  <2>2. newJob[a] \in Jobs \cup {NoJob}
    BY DEF LocalType
  <2> QED
    BY <2>1, <2>2
<1>6. CASE CheckCanaries \/ Approve \/ Take \/ Release
  BY <1>6 DEF CheckCanaries, Approve, Take, Release
<1>7. ASSUME NEW j \in Jobs, JobStarts(j) \/ JobCancelled(j) \/ JobEnds(j) PROVE TableType'
  BY <1>7 DEF JobStarts, JobCancelled, JobEnds
<1>8. CASE UNCHANGED vars
  BY <1>8 DEF vars
<1> QED
  BY <1>1, <1>2, <1>3, <1>4, <1>5, <1>6, <1>7, <1>8 DEF Next, Step, Act

(* What an actor is doing keeps its type. *)
LEMMA LocalStep ==
  ASSUME TableType, LocalType, ReadType, [Next]_vars
  PROVE  LocalType'
<1> USE DEF LocalType, Jobs, Members, NoJob, NoMember, Steps, Goto, Return, Forget
<1>1. ASSUME NEW a \in Actors, SyncWrite(a) PROVE LocalType'
  BY <1>1 DEF SyncWrite, Running
<1>2. ASSUME NEW a \in Actors, SyncRead(a) \/ Abort(a) PROVE LocalType'
  BY <1>2 DEF SyncRead, Abort
<1>3. ASSUME NEW a \in Actors, MarkFailed(a) \/ Record(a) PROVE LocalType'
  BY <1>3 DEF MarkFailed, Record
<1>4. ASSUME NEW a \in Actors, Create(a) PROVE LocalType'
  BY <1>4 DEF Create
<1>5. ASSUME NEW a \in Actors, Select(a) PROVE LocalType'
  BY <1>5 DEF Select
<1>6. CASE CheckCanaries \/ Approve
  BY <1>6 DEF CheckCanaries, Approve
<1>7. ASSUME NEW j \in Jobs, JobStarts(j) \/ JobCancelled(j) \/ JobEnds(j) PROVE LocalType'
  BY <1>7 DEF JobStarts, JobCancelled, JobEnds
<1>8. CASE UNCHANGED vars \/ Take \/ Release
  BY <1>8 DEF vars, Take, Release
<1> QED
  BY <1>1, <1>2, <1>3, <1>4, <1>5, <1>6, <1>7, <1>8 DEF Next, Step, Act

(* What an actor has read keeps its type. *)
LEMMA ReadStep ==
  ASSUME TableType, LocalType, ReadType, [Next]_vars
  PROVE  ReadType'
<1> USE DEF ReadType, Jobs, Members, NoJob, NoMember, MemberStates
<1>1. ASSUME NEW a \in Actors, SyncRead(a) PROVE ReadType'
  <2>1. seenJob' \in [Actors -> [Members -> Jobs \cup {NoJob}]]
    BY <1>1 DEF SyncRead, TableType
  <2>2. first' \in [Actors -> Members \cup {NoMember}] /\ seen' \in [Actors -> MemberStates]
    <3>1. ASSUME NEW m \in Members PROVE Mapped(jobId[m]) \in MemberStates
      BY DEF Mapped
    <3>2. \/ UNCHANGED <<first, seen>>
          \/ \E m \in Members : /\ first' = [first EXCEPT ![a] = m]
                                /\ seen' = [seen EXCEPT ![a] = Mapped(jobId[m])]
      BY <1>1 DEF SyncRead
    <3> HIDE DEF Members, MemberStates, NoMember
    <3> QED
      BY <3>1, <3>2
  <2> QED
    BY <2>1, <2>2
<1>2. ASSUME NEW a \in Actors, ForgetReads(a) PROVE ReadType'
  <2>1. Nothing \in [Members -> Jobs \cup {NoJob}]
    BY DEF Nothing
  <2>2. seenJob' \in [Actors -> [Members -> Jobs \cup {NoJob}]]
    BY <1>2, <2>1 DEF ForgetReads
  <2>3. first' \in [Actors -> Members \cup {NoMember}] /\ seen' \in [Actors -> MemberStates]
    BY <1>2 DEF ForgetReads
  <2> QED
    BY <2>2, <2>3
<1>3. ASSUME NEW a \in Actors, Select(a) \/ MarkFailed(a) \/ Create(a) \/ Record(a)
      PROVE  ReadType'
  BY <1>3 DEF Select, MarkFailed, Create, Record
<1>4. CASE CheckCanaries \/ Approve \/ Take \/ Release \/ UNCHANGED vars
  BY <1>4 DEF CheckCanaries, Approve, Take, Release, vars
<1>5. ASSUME NEW j \in Jobs, JobStarts(j) \/ JobCancelled(j) \/ JobEnds(j) PROVE ReadType'
  BY <1>5 DEF JobStarts, JobCancelled, JobEnds
<1> QED
  BY <1>1, <1>2, <1>3, <1>4, <1>5 DEF Next, Step, Act, SyncWrite, Abort

(* The flags and the bounded counters keep their types. *)
LEMMA FlagStep ==
  ASSUME FlagType, [Next]_vars
  PROVE  FlagType'
<1> USE DEF FlagType
<1>1. ASSUME NEW a \in Actors, SyncRead(a) \/ Abort(a) PROVE FlagType'
  <2>1. UNCHANGED <<elsewhere, others, approved>> /\ approving' \in BOOLEAN
    BY <1>1 DEF SyncRead, Abort
  <2>2. aborts' \in 0..MaxAborts
    BY <1>1 DEF SyncRead, Abort
  <2> QED
    BY <2>1, <2>2
<1>2. ASSUME NEW a \in Actors, Act(a) PROVE FlagType'
  BY <1>2 DEF Act, SyncWrite, Select, MarkFailed, Create, Record
<1>3. CASE CheckCanaries \/ Approve
  BY <1>3 DEF CheckCanaries, Approve
<1>4. CASE Take \/ Release
  <2>1. others' \in 0..MaxOthers
    BY <1>4 DEF Take, Release
  <2>2. elsewhere' \in BOOLEAN /\ UNCHANGED <<approving, approved, aborts>>
    BY <1>4 DEF Take, Release
  <2> QED
    BY <2>1, <2>2
<1>5. ASSUME NEW j \in Jobs, JobStarts(j) \/ JobCancelled(j) \/ JobEnds(j) PROVE FlagType'
  BY <1>5 DEF JobStarts, JobCancelled, JobEnds
<1>6. CASE UNCHANGED vars
  BY <1>6 DEF vars
<1> QED
  BY <1>1, <1>2, <1>3, <1>4, <1>5, <1>6 DEF Next, Step

(* Types hold initially and always: see TypeCorrect below.                 *)
LEMMA TypeInit == Init => TypeOK
<1> SUFFICES ASSUME Init PROVE TypeOK
  OBVIOUS
<1> USE DEF Init, Jobs, Members, NoJob, NoMember
<1>1. TableType
  BY DEF TableType, JobStates, MemberStates
<1>2. LocalType
  BY DEF LocalType, Steps
<1>3. ReadType
  BY DEF ReadType, MemberStates
<1>4. FlagType
  <2>1. aborts \in 0..MaxAborts /\ others \in 0..MaxOthers
    OBVIOUS
  <2>2. elsewhere \in BOOLEAN /\ approving \in BOOLEAN /\ approved \in BOOLEAN
    OBVIOUS
  <2> QED
    BY <2>1, <2>2 DEF FlagType
<1> QED
  BY <1>1, <1>2, <1>3, <1>4, TypeParts

(* Every step keeps the types. *)
LEMMA TypeStep == ASSUME TypeOK, [Next]_vars PROVE TypeOK'
<1>1. TableType /\ LocalType /\ ReadType /\ FlagType
  BY TypeParts
<1>2. TableType' /\ LocalType' /\ ReadType' /\ FlagType'
  BY <1>1, TableStep, LocalStep, ReadStep, FlagStep
<1> QED
  BY <1>2 DEF TypeOK, TableType, LocalType, ReadType, FlagType

(* Every variable keeps its type.                                          *)
THEOREM TypeCorrect == Spec => []TypeOK
<1>1. TypeOK /\ [Next]_vars => TypeOK'
  BY TypeStep
<1> QED
  BY TypeInit, <1>1, PTL DEF Spec

-------------------------------------------------------------------------------
(* What jobs keep, and what the rows and the actors know of them.          *)

(* A job keeps its member, and a success is for ever.                      *)
LEMMA JobsKeep ==
  ASSUME TypeOK, RowsTrue, [Next]_vars
  PROVE  /\ \A j \in Jobs : owner[j] # NoMember => owner'[j] = owner[j]
         /\ \A j \in Jobs : job[j] = "succeeded" => job'[j] = "succeeded"
         /\ \A m \in Members : Upgraded(m) => Upgraded(m)'
         /\ approved => approved'
<1> USE DEF TypeOK, NoMember, Members
<1>1. \A j \in Jobs : job[j] # "absent" =>
         owner'[j] = owner[j] /\ (job[j] = "succeeded" => job'[j] = "succeeded")
  <2>1. ASSUME NEW a \in Actors, Create(a) PROVE <1>1!:
    BY <2>1 DEF Create
  <2>2. ASSUME NEW k \in Jobs, JobStarts(k) \/ JobCancelled(k) \/ JobEnds(k) PROVE <1>1!:
    BY <2>2 DEF JobStarts, JobCancelled, JobEnds
  <2>3. CASE UNCHANGED table
    BY <2>3
  <2> QED
    BY <2>1, <2>2, <2>3 DEF Next, Step, Act, SyncRead, SyncWrite, Select, MarkFailed, Record,
       Abort, CheckCanaries, Approve, Take, Release, vars
<1>2. approved => approved'
  BY DEF Next, Step, Act, SyncRead, SyncWrite, Select, MarkFailed, Create, Record,
     Abort, CheckCanaries, Approve, Take, Release, JobStarts, JobCancelled, JobEnds, vars
<1> QED
  BY <1>1, <1>2 DEF RowsTrue, Upgraded

(* What a synchronisation copies into a member is true of its jobs.        *)
LEMMA CopyTrue ==
  ASSUME TypeOK, IInv, NEW a \in Actors, NEW m \in Members, Copied(a)[m] = "succeeded"
  PROVE  Upgraded(m)
<1> USE DEF TypeOK, IInv, RowsTrue, Truthful, Members, NoMember, NoJob
<1>1. CASE seenJob[a][m] = NoJob
  BY <1>1 DEF Copied
<1>2. CASE seenJob[a][m] # NoJob /\ m = first[a]
  BY <1>2 DEF Copied
<1>3. CASE seenJob[a][m] # NoJob /\ m # first[a]
  <2>1. seenJob[a][m] \in Jobs /\ owner[seenJob[a][m]] = m
    BY <1>3
  <2>2. job[seenJob[a][m]] = "succeeded"
    BY <1>3, <2>1 DEF Copied, Mapped
  <2> QED
    BY <2>1, <2>2 DEF Upgraded
<1> QED
  BY <1>1, <1>2, <1>3

(* The rows stay true of the jobs.                                         *)
LEMMA RowsStep ==
  ASSUME TypeOK, IInv, [Next]_vars
  PROVE  RowsTrue'
<1>0. RowsTrue
  BY DEF IInv
<1> USE DEF TypeOK, Members, NoMember, NoJob
<1>1. \A m \in Members : status'[m] = "succeeded" => Upgraded(m)'
  <2>1. ASSUME NEW a \in Actors, SyncWrite(a), NEW m \in Members, status'[m] = "succeeded"
        PROVE  Upgraded(m)
    BY <2>1, CopyTrue DEF SyncWrite
  <2>2. ASSUME NEW a \in Actors, MarkFailed(a) \/ Record(a), NEW m \in Members,
               status'[m] = "succeeded"
        PROVE  Upgraded(m)
    BY <2>2, <1>0 DEF MarkFailed, Record, RowsTrue
  <2>3. ASSUME UNCHANGED status, NEW m \in Members, status'[m] = "succeeded"
        PROVE  Upgraded(m)
    BY <2>3, <1>0 DEF RowsTrue
  <2> QED
    BY <1>0, <2>1, <2>2, <2>3, JobsKeep DEF Next, Step, Act, SyncRead, Select, Create,
       Abort, CheckCanaries, Approve, Take, Release, JobStarts, JobCancelled, JobEnds, vars
<1>2. \A m \in Members : jobId'[m] # NoJob => owner'[jobId'[m]] = m
  <2>1. ASSUME NEW a \in Actors, Record(a) PROVE <1>2!:
    BY <2>1, <1>0, JobsKeep DEF Record, RowsTrue, IInv, Truthful
  <2>2. CASE UNCHANGED jobId
    BY <2>2, <1>0, JobsKeep DEF RowsTrue
  <2> QED
    BY <2>1, <2>2 DEF Next, Step, Act, SyncRead, SyncWrite, Select, MarkFailed, Create,
       Abort, CheckCanaries, Approve, Take, Release, JobStarts, JobCancelled, JobEnds, vars
<1>3. \A j \in Jobs : owner'[j] = NoMember <=> job'[j] = "absent"
  <2> USE <1>0 DEF RowsTrue
  <2>1. ASSUME NEW a \in Actors, Create(a) PROVE <1>3!:
    BY <2>1 DEF Create
  <2>2. ASSUME NEW k \in Jobs, JobStarts(k) \/ JobCancelled(k) \/ JobEnds(k) PROVE <1>3!:
    BY <2>2 DEF JobStarts, JobCancelled, JobEnds
  <2>3. CASE UNCHANGED table
    BY <2>3
  <2> QED
    BY <2>1, <2>2, <2>3 DEF Next, Step, Act, SyncRead, SyncWrite, Select, MarkFailed, Record,
       Abort, CheckCanaries, Approve, Take, Release, vars
<1> QED
  BY <1>1, <1>2, <1>3 DEF RowsTrue

(* What the actors hold stays true: the bystanders' because jobs keep what *)
(* they say, the mover's because it has just read it.                      *)
LEMMA ActorsStep ==
  ASSUME TypeOK, IInv, [Next]_vars
  PROVE  \A a \in Actors : Truthful(a)'
<1>0. RowsTrue /\ GateTrue /\ \A a \in Actors : Truthful(a)
  BY DEF IInv
<1> USE DEF TypeOK, Members, NoMember, NoJob
<1>1. SUFFICES ASSUME NEW b \in Actors PROVE Truthful(b)'
  OBVIOUS
<1> DEFINE Same == /\ at'[b] = at[b] /\ stage'[b] = stage[b] /\ member'[b] = member[b]
                   /\ newJob'[b] = newJob[b] /\ seenJob'[b] = seenJob[b]
                   /\ first'[b] = first[b] /\ seen'[b] = seen[b]
<1>2. ASSUME Same PROVE Truthful(b)'
  <2>0. Truthful(b)
    BY <1>0
  <2> /\ \A j \in Jobs : owner[j] # NoMember => owner'[j] = owner[j]
      /\ \A m \in Members : Upgraded(m) => Upgraded(m)'
      /\ approved => approved'
    BY <1>0, JobsKeep
  <2>1. ASSUME first'[b] # NoMember, seen'[b] = "succeeded"
        PROVE  \E j \in Jobs : owner'[j] = first'[b] /\ job'[j] = "succeeded"
    <3>1. first[b] \in Members /\ first'[b] = first[b] /\ Upgraded(first[b])
      BY <2>0, <2>1, <1>2 DEF Truthful
    <3>2. PICK m \in Members : m = first[b]
      BY <3>1
    <3>3. Upgraded(m)
      BY <3>1, <3>2 DEF Upgraded
    <3>4. \E j \in Jobs : owner'[j] = m /\ job'[j] = "succeeded"
      BY <3>3 DEF Upgraded
    <3> QED
      BY <3>1, <3>2, <3>4
  <2>2. ASSUME NEW m \in Members, seenJob'[b][m] # NoJob
        PROVE  owner'[seenJob'[b][m]] = m
    <3>1. seenJob[b][m] \in Jobs /\ owner[seenJob[b][m]] = m
      BY <2>0, <2>2, <1>2 DEF Truthful
    <3> QED
      BY <3>1, <1>2
  <2>3. at'[b] = "record" => owner'[newJob'[b]] = member'[b]
    <3>1. at'[b] = "record" => /\ newJob[b] \in Jobs /\ member[b] \in Members
                               /\ owner[newJob[b]] = member[b]
      BY <2>0, <1>2 DEF Truthful
    <3> QED
      BY <3>1, <1>2
  <2>4. at'[b] \in {"mark", "create", "record"} => Stage(member'[b]) = stage'[b]
    BY <2>0, <1>2 DEF Truthful, Stage
  <2>5. at'[b] \in {"select", "mark", "create", "record"} /\ stage'[b] = "rollout"
          => approved' /\ \E j \in Jobs : owner'[j] = Canary /\ job'[j] = "succeeded"
    <3>1. Upgraded(Canary) =>
            \E j \in Jobs : owner'[j] = Canary /\ job'[j] = "succeeded"
      BY CanaryAssumption DEF Upgraded
    <3> QED
      BY <2>0, <1>2, <3>1 DEF Truthful
  <2> HIDE DEF Same, TypeOK
  <2> QED
    BY <2>1, <2>2, <2>3, <2>4, <2>5 DEF Truthful, Upgraded, Stage
<1>3. ASSUME NEW a \in Actors, Step(a), a # b PROVE Same
  BY <1>3 DEF Step, Act, SyncRead, SyncWrite, Select, MarkFailed, Create, Record, Abort,
     Goto, Return, Forget, ForgetReads
<1>4. ASSUME CheckCanaries \/ Approve, b # "web" PROVE Same
  BY <1>4 DEF CheckCanaries, Approve, Goto
<1>5. ASSUME UNCHANGED <<at, locals, reads>> PROVE Same
  BY <1>5
<1> HIDE DEF Same
<1>6. ASSUME SyncRead(b) PROVE Truthful(b)'
  BY <1>0, <1>6, JobsKeep DEF SyncRead, Goto, Truthful, RowsTrue, Mapped, Linked, IsFirst, Upgraded
<1>7. ASSUME SyncWrite(b) PROVE Truthful(b)'
  BY <1>0, <1>7, JobsKeep DEF SyncWrite, Goto, Return, ForgetReads, Nothing, Truthful, GateTrue,
     Waits, Running
<1>8. ASSUME Select(b) PROVE Truthful(b)'
  BY <1>0, <1>8, JobsKeep DEF Select, Goto, Return, Forget, Truthful, IsFirst, Pending
<1>9. ASSUME MarkFailed(b) \/ Record(b) PROVE Truthful(b)'
  BY <1>0, <1>9, JobsKeep DEF MarkFailed, Record, Goto, Return, Forget, Truthful
<1>10. ASSUME Create(b) PROVE Truthful(b)'
  BY <1>0, <1>10, JobsKeep DEF Create, Goto, Return, Forget, Truthful
<1>11. ASSUME Abort(b) PROVE Truthful(b)'
  BY <1>0, <1>11, JobsKeep DEF Abort, Goto, Forget, ForgetReads, Nothing, Truthful
<1>12. ASSUME CheckCanaries \/ Approve, b = "web" PROVE Truthful(b)'
  BY <1>0, <1>12, JobsKeep DEF CheckCanaries, Approve, Goto, Truthful, GateTrue
<1> QED
  BY <1>2, <1>3, <1>4, <1>5, <1>6, <1>7, <1>8, <1>9, <1>10, <1>11, <1>12
     DEF Next, Step, Act, JobStarts, JobCancelled, JobEnds, Take, Release, vars

(* The approval and the stage of the campaign stay behind the gate.        *)
LEMMA GateStep ==
  ASSUME TypeOK, IInv, [Next]_vars
  PROVE  GateTrue'
<1>0. RowsTrue /\ GateTrue /\ Canary \in Members
  BY DEF IInv, Members
<1> USE DEF TypeOK
<1>1. ASSUME NEW a \in Actors, Step(a) PROVE GateTrue'
  BY <1>0, <1>1, JobsKeep DEF Step, Act, SyncRead, SyncWrite, Select, MarkFailed, Create, Record,
     Abort, Goto, Return, GateTrue
<1>2. CASE CheckCanaries
  BY <1>0, <1>2, JobsKeep DEF CheckCanaries, Goto, GateTrue, RowsTrue
<1>3. CASE Approve
  BY <1>0, <1>3, JobsKeep DEF Approve, Goto, GateTrue
<1>4. CASE UNCHANGED <<at, campaign>>
  BY <1>0, <1>4, JobsKeep DEF GateTrue
<1> QED
  BY <1>1, <1>2, <1>3, <1>4 DEF Next, JobStarts, JobCancelled, JobEnds, Take, Release, vars

(* What the rows and the gate say is enough for both promises to the operator. *)
LEMMA PromisesStep ==
  ASSUME TypeOK, IInv, [Next]_vars
  PROVE  CanaryFirst' /\ CompletedMeansUpgraded'
<1>0. /\ RowsTrue /\ Canary \in Members /\ CanaryFirst /\ CompletedMeansUpgraded
      /\ \A a \in Actors : Truthful(a)
  BY DEF IInv, Members
<1> USE DEF TypeOK
<1>1. CanaryFirst'
  <2>1. ASSUME NEW a \in Actors, Create(a) PROVE CanaryFirst'
    <3>1. member[a] # Canary /\ at[a] = "create" => approved /\ Upgraded(Canary)
      BY <1>0 DEF Truthful, Stage
    <3> QED
      BY <1>0, <2>1, <3>1, JobsKeep DEF Create, CanaryFirst
  <2>2. CASE UNCHANGED owner
    BY <1>0, <2>2, JobsKeep DEF CanaryFirst
  <2> QED
    BY <2>1, <2>2 DEF Next, Step, Act, SyncRead, SyncWrite, Select, MarkFailed, Record,
       Abort, CheckCanaries, Approve, Take, Release, JobStarts, JobCancelled, JobEnds, vars
<1>2. CompletedMeansUpgraded'
  <2>1. ASSUME NEW a \in Actors, SyncWrite(a) PROVE CompletedMeansUpgraded'
    <3>1. campaign' = "completed" => campaign = "completed" \/ AllDone(Copied(a))
      BY <2>1 DEF SyncWrite
    <3>2. AllDone(Copied(a)) => \A m \in Members : Upgraded(m)
      BY CopyTrue DEF AllDone
    <3> QED
      BY <1>0, <3>1, <3>2, JobsKeep DEF CompletedMeansUpgraded
  <2>2. CASE campaign' # "completed" \/ UNCHANGED campaign
    BY <1>0, <2>2, JobsKeep DEF CompletedMeansUpgraded
  <2> QED
    BY <2>1, <2>2 DEF Next, Step, Act, SyncRead, Select, MarkFailed, Create, Record,
       Abort, CheckCanaries, Approve, Take, Release, JobStarts, JobCancelled, JobEnds, vars
<1> QED
  BY <1>1, <1>2

(* The inductive invariant: the rows and what every actor holds tell the   *)
(* truth about the jobs, and only an approval passes the gate.             *)
THEOREM Invariance == Spec => [](TypeOK /\ IInv)
<1>1. Init => IInv
  BY DEF Init, IInv, CanaryFirst, CompletedMeansUpgraded, RowsTrue, GateTrue, Truthful,
         NoMember, NoJob, Members, Jobs
<1>2. TypeOK /\ IInv /\ [Next]_vars => (TypeOK /\ IInv)'
  BY TypeStep, RowsStep, ActorsStep, GateStep, PromisesStep DEF IInv
<1> QED
  BY TypeInit, <1>1, <1>2, PTL DEF Spec

(* No rollout before the canary's success and the approval.                *)
THEOREM CanaryComesFirst == Spec => []CanaryFirst
<1>1. IInv => CanaryFirst
  BY DEF IInv
<1> QED
  BY Invariance, <1>1, PTL

(* Completion is never reported of a router that was not upgraded.         *)
THEOREM CompletionIsTrue == Spec => []CompletedMeansUpgraded
<1>1. IInv => CompletedMeansUpgraded
  BY DEF IInv
<1> QED
  BY Invariance, <1>1, PTL
===============================================================================
