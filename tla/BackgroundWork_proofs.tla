-------------------------- MODULE BackgroundWork_proofs --------------------------
(***************************************************************************)
(* What is proved of the three kinds of background work, each for itself   *)
(* and of the specification that runs them: for any routers, operators,    *)
(* jobs, passes, fleet and bounds.                                         *)
(***************************************************************************)
EXTENDS BackgroundWork, FiniteSetTheorems, SequenceTheorems, TLAPS

(* A sequence that is rewritten element by element, and one that grows.    *)
LEMMA Rewritten ==
  ASSUME NEW S, NEW s \in Seq(S), NEW t \in [DOMAIN s -> S]
  PROVE  t \in Seq(S) /\ DOMAIN t = DOMAIN s /\ Len(t) = Len(s)
<1>1. DOMAIN s = 1..Len(s) /\ Len(s) \in Nat
  BY LenProperties
<1>2. t \in Seq(S)
  BY <1>1, SeqDef
<1> QED
  BY <1>1, <1>2, LenProperties

(* What Append leaves and adds.                                            *)
LEMMA Grown ==
  ASSUME NEW S, NEW s \in Seq(S), NEW e \in S
  PROVE  LET t == Append(s, e)
         IN /\ t \in Seq(S) /\ DOMAIN t = DOMAIN s \union {Len(s) + 1} /\ Len(t) = Len(s) + 1
            /\ t[Len(s) + 1] = e /\ \A k \in DOMAIN s : t[k] = s[k]
            /\ Len(s) + 1 \notin DOMAIN s /\ Len(s) + 1 # 0
OBVIOUS

---------------------------------------------------------------------------------
(***************************************************************************)
(* The queue of analyses.                                                  *)
(***************************************************************************)
(* Every step but Insert keeps the routers and opens nothing.              *)
Kept ==
  /\ requests' \in [DOMAIN requests -> Rows]
  /\ \A k \in DOMAIN requests :
       /\ requests'[k].router = requests[k].router
       /\ requests'[k].status \in Open => requests[k].status \in Open

Inserted ==
  \E r \in Routers :
    Existing(r) = {} /\ requests' = Append(requests, [router |-> r, status |-> "queued", old |-> FALSE])

(* A step rewrites rows in place without reopening one, or inserts one.    *)
LEMMA QueueSteps ==
  ASSUME QueueTypeOK, [QueueNext]_queueVars PROVE Kept \/ Inserted
<1>1. requests \in Seq(Rows) /\ requests \in [DOMAIN requests -> Rows]
  BY DEF QueueTypeOK
<1>2. ASSUME NEW o \in Operators, Insert(o) PROVE Kept \/ Inserted
  BY <1>1, <1>2 DEF Insert, Kept, Inserted, QueueTypeOK
<1>3. ASSUME NEW i \in DOMAIN requests, Age(i) PROVE Kept
  BY <1>1, <1>3 DEF Age, Kept, Rows
<1>4. CASE RecoverStale
  BY <1>1, <1>4 DEF RecoverStale, Stale, Kept, Rows, Open
<1>5. CASE FailIneligibleQueued
  BY <1>1, <1>5 DEF FailIneligibleQueued, Kept, Rows, Open, Final
<1>6. CASE ClaimOne
  <2>1. CASE UNCHANGED requests
    BY <1>1, <2>1 DEF Kept
  <2>2. ASSUME NEW i \in Claimable, requests' = [requests EXCEPT ![i].status = "running"] PROVE Kept
    BY <1>1, <2>2 DEF Claimable, Kept, Rows, Open
  <2> QED
    BY <1>6, <2>1, <2>2 DEF ClaimOne
<1>7. CASE Answer \/ RecordEvent
  BY <1>1, <1>7 DEF Answer, RecordEvent, Finish, Kept, Rows, Open, Final
<1>8. CASE UNCHANGED requests
  BY <1>1, <1>8 DEF Kept
<1> QED
  BY <1>2, <1>3, <1>4, <1>5, <1>6, <1>7, <1>8
  DEF QueueNext, queueVars, Work, Ask, SetActive, Change, Die

(* Every step of the queue keeps its types.                                *)
LEMMA QueueTypes ==
  ASSUME QueueTypeOK, [QueueNext]_queueVars PROVE QueueTypeOK'
<1>1. requests' \in Seq(Rows)
  <2>1. requests \in Seq(Rows)
    BY DEF QueueTypeOK
  <2>2. CASE Kept
    BY <2>1, <2>2, Rewritten DEF Kept
  <2>3. CASE Inserted
    BY <2>1, <2>3, Grown DEF Inserted, Rows, Open
  <2> QED
    BY <2>2, <2>3, QueueSteps
<1>2. asking' \in [Operators -> Routers \union {NoRouter}] /\ active' \subseteq Routers
      /\ changing' \subseteq Routers
  BY DEF QueueTypeOK, QueueNext, queueVars, Work, Ask, Insert, SetActive, Change, Age, RecoverStale,
     FailIneligibleQueued, ClaimOne, Answer, RecordEvent, Finish, Die
<1>3. deaths' \in 0..MaxDeaths
  <2>1. CASE Die
    BY <2>1, AnalysisBounds DEF Die, QueueTypeOK
  <2>2. CASE UNCHANGED deaths
    BY <2>2 DEF QueueTypeOK
  <2> QED
    BY <2>1, <2>2 DEF QueueNext, queueVars, Work, Ask, Insert, SetActive, Change, Age, RecoverStale,
       FailIneligibleQueued, ClaimOne, Answer, RecordEvent, Finish
<1>4. worker' \in [at : {"off", "ineligible", "claim", "analyse", "record"}, claimed : Nat]
  <2>1. worker \in [at : {"off", "ineligible", "claim", "analyse", "record"}, claimed : Nat]
    BY DEF QueueTypeOK
  <2>2. CASE ClaimOne
    <3>1. \A i \in Claimable : i \in Nat
      BY DEF QueueTypeOK, Claimable
    <3> QED
      BY <2>1, <2>2, <3>1 DEF ClaimOne, Off
  <2>3. CASE RecoverStale \/ FailIneligibleQueued
    <3>1. Off \in [at : {"off", "ineligible", "claim", "analyse", "record"}, claimed : Nat]
      BY DEF Off
    <3> QED
      BY <3>1, <2>3 DEF RecoverStale, FailIneligibleQueued
  <2>4. CASE Answer \/ RecordEvent \/ Die
    BY <2>1, <2>4 DEF Answer, RecordEvent, Finish, Die, Off
  <2>5. CASE UNCHANGED worker
    BY <2>1, <2>5
  <2> QED
    BY <2>2, <2>3, <2>4, <2>5 DEF QueueNext, queueVars, Work, Ask, Insert, SetActive, Change, Age
<1> QED
  BY <1>1, <1>2, <1>3, <1>4 DEF QueueTypeOK

(* Only Insert could open a second analysis, and it looks first.           *)
LEMMA OneOpenStep ==
  ASSUME QueueTypeOK, OneOpenAnalysis, [QueueNext]_queueVars PROVE OneOpenAnalysis'
<1>1. CASE Kept
  BY <1>1 DEF Kept, OneOpenAnalysis
<1>2. CASE Inserted
  <2>1. requests \in Seq(Rows)
    BY DEF QueueTypeOK
  <2>2. PICK r \in Routers :
          /\ Existing(r) = {}
          /\ requests' = Append(requests, [router |-> r, status |-> "queued", old |-> FALSE])
    BY <1>2 DEF Inserted
  <2>3. [router |-> r, status |-> "queued", old |-> FALSE] \in Rows
    BY DEF Rows, Open
  <2>4. /\ DOMAIN requests' = DOMAIN requests \union {Len(requests) + 1}
        /\ requests'[Len(requests) + 1].router = r
        /\ \A k \in DOMAIN requests : requests'[k] = requests[k]
    BY <2>1, <2>2, <2>3, Grown
  <2>5. \A k \in DOMAIN requests : requests[k].router = r => requests[k].status \notin Open
    BY <2>2 DEF Existing
  <2> QED
    BY <2>4, <2>5 DEF OneOpenAnalysis
<1> QED
  BY <1>1, <1>2, QueueSteps

(* The types of the queue, and one open analysis per router.               *)
LEMMA QueueInvariant == QueueSpec => [](QueueTypeOK /\ OneOpenAnalysis)
<1>1. QueueInit => QueueTypeOK /\ OneOpenAnalysis
  BY AnalysisBounds, EmptySeq DEF QueueInit, QueueTypeOK, OneOpenAnalysis, Off
<1>2. QueueTypeOK /\ OneOpenAnalysis /\ [QueueNext]_queueVars => (QueueTypeOK /\ OneOpenAnalysis)'
  BY QueueTypes, OneOpenStep
<1> QED
  BY <1>1, <1>2, PTL DEF QueueSpec

(* A router has at most one analysis that is waiting or running, however   *)
(* many operators ask and whatever worker dies or recovers what died.      *)
THEOREM OneOpen == QueueSpec => []OneOpenAnalysis
BY QueueInvariant, PTL

(* A claim stays with the worker that made it.                             *)
LEMMA HeldStep ==
  ASSUME QueueTypeOK, ClaimHeld, WaitingUnclaimed, [QueueNext]_queueVars
  PROVE  ClaimHeld' /\ WaitingUnclaimed'
<1> USE DEF ClaimHeld, WaitingUnclaimed
<1>1. requests \in Seq(Rows) /\ requests \in [DOMAIN requests -> Rows]
  BY DEF QueueTypeOK
<1>2. ASSUME NEW o \in Operators, Insert(o) PROVE ClaimHeld' /\ WaitingUnclaimed'
  <2>1. UNCHANGED worker
    BY <1>2 DEF Insert
  <2>2. CASE UNCHANGED requests
    BY <2>1, <2>2
  <2>3. CASE requests' # requests
    <3>1. requests' = Append(requests, [router |-> asking[o], status |-> "queued", old |-> FALSE])
      BY <1>2, <2>3 DEF Insert
    <3>2. [router |-> asking[o], status |-> "queued", old |-> FALSE] \in Rows
      BY <1>2 DEF Insert, QueueTypeOK, Rows, Open
    <3> QED
      BY <1>1, <2>1, <3>1, <3>2, Grown
  <2> QED
    BY <2>2, <2>3
<1>3. ASSUME NEW i \in DOMAIN requests, Age(i) PROVE ClaimHeld' /\ WaitingUnclaimed'
  BY <1>1, <1>3 DEF Age, Rows
<1>4. CASE RecoverStale
  BY <1>1, <1>4 DEF RecoverStale, Stale, Rows, Off
<1>5. CASE FailIneligibleQueued
  BY <1>1, <1>5 DEF FailIneligibleQueued, Rows, Off
<1>6. CASE ClaimOne
  <2>1. CASE UNCHANGED requests /\ worker' = Off
    BY <1>1, <2>1 DEF Off
  <2>2. ASSUME NEW i \in Claimable, requests' = [requests EXCEPT ![i].status = "running"],
               worker' = [at |-> "analyse", claimed |-> i]
        PROVE  ClaimHeld' /\ WaitingUnclaimed'
    BY <1>1, <2>2 DEF Claimable, Rows
  <2> QED
    BY <1>6, <2>1, <2>2 DEF ClaimOne
<1>7. CASE Answer \/ RecordEvent
  <2>1. worker' = Off \/ worker' = [worker EXCEPT !.at = "record"]
    BY <1>7 DEF Answer, RecordEvent, Finish
  <2>2. worker'.at # "analyse"
    BY <2>1 DEF Off, QueueTypeOK
  <2>3. \/ requests' = [requests EXCEPT ![worker.claimed].status = "succeeded"]
        \/ requests' = [requests EXCEPT ![worker.claimed].status = "failed"]
    BY <1>7 DEF Answer, RecordEvent, Finish
  <2> QED
    BY <1>1, <2>2, <2>3 DEF Rows
<1>8. CASE Die
  BY <1>8 DEF Die, Off
<1>9. CASE UNCHANGED <<requests, worker>>
  BY <1>9
<1> QED
  BY <1>2, <1>3, <1>4, <1>5, <1>6, <1>7, <1>8, <1>9
  DEF QueueNext, queueVars, Work, Ask, SetActive, Change

(* What a worker answers is a request that is still its own: the recovery  *)
(* of stale claims never takes one from a worker that lives.               *)
THEOREM AnswersItsOwn == QueueSpec => []ClaimHeld
<1>1. QueueInit => QueueTypeOK /\ ClaimHeld /\ WaitingUnclaimed
  BY AnalysisBounds, EmptySeq DEF QueueInit, QueueTypeOK, ClaimHeld, WaitingUnclaimed, Off
<1>2. QueueTypeOK /\ ClaimHeld /\ WaitingUnclaimed /\ [QueueNext]_queueVars
        => (QueueTypeOK /\ ClaimHeld /\ WaitingUnclaimed)'
  BY QueueTypes, HeldStep
<1> QED
  BY <1>1, <1>2, PTL DEF QueueSpec

(* An analysis that was answered or failed is never queued or run again,   *)
(* whatever is recovered: another try is a request of its own.             *)
THEOREM AnswersStand ==
  QueueSpec => [][\A k \in DOMAIN requests :
                    requests[k].status \notin Open => requests'[k].status \notin Open]_queueVars
<1>1. QueueTypeOK /\ [QueueNext]_queueVars
        => [\A k \in DOMAIN requests :
              requests[k].status \notin Open => requests'[k].status \notin Open]_queueVars
  <2> SUFFICES ASSUME QueueTypeOK, [QueueNext]_queueVars, NEW k \in DOMAIN requests,
                      requests[k].status \notin Open
               PROVE  requests'[k].status \notin Open
    OBVIOUS
  <2>1. CASE Kept
    BY <2>1 DEF Kept
  <2>2. CASE Inserted
    BY <2>2 DEF Inserted, QueueTypeOK
  <2> QED
    BY <2>1, <2>2, QueueSteps
<1> QED
  BY <1>1, QueueInvariant, PTL DEF QueueSpec

---------------------------------------------------------------------------------
(***************************************************************************)
(* The checks after a change.                                              *)
(***************************************************************************)
Walks == [todo : SUBSET Jobs, config : Configs, claimed : Jobs \union {0}]

(* Every step keeps the types of the passes.                               *)
LEMMA WalkTypes ==
  ASSUME ChecksTypeOK, [ChecksNext]_checksVars PROVE passes' \in [Passes -> Walks]
<1>1. passes \in [Passes -> Walks] /\ config \in Configs /\ done \subseteq Jobs
  BY DEF ChecksTypeOK, Walks
<1>2. Resting \in Walks
  BY DEF Resting, Walks, Configs
<1>3. ASSUME NEW p \in Passes, Begin(p) PROVE passes' \in [Passes -> Walks]
  <2>1. \A S \in SUBSET Jobs : [todo |-> FirstFew(S), config |-> config, claimed |-> 0] \in Walks
    BY <1>1 DEF Walks, FirstFew
  <2>2. PICK S \in SUBSET Jobs :
          \/ passes' = passes
          \/ passes' = [passes EXCEPT ![p] = Rest([todo |-> FirstFew(S), config |-> config, claimed |-> 0])]
    BY <1>1, <1>3 DEF Begin
  <2> QED
    BY <1>1, <1>2, <2>1, <2>2 DEF Rest
<1>4. ASSUME NEW p \in Passes, NEW j, Done(p, j) PROVE passes' \in [Passes -> Walks]
  <2> DEFINE left == [passes[p] EXCEPT !.todo = @ \ {j}, !.claimed = 0]
  <2>1. left \in Walks
    BY <1>1 DEF Walks
  <2>2. passes' = [passes EXCEPT ![p] = Rest(left)]
    BY <1>4 DEF Done
  <2> HIDE DEF left
  <2> QED
    BY <1>1, <1>2, <2>1, <2>2 DEF Rest
<1>5. ASSUME NEW p \in Passes, Claim(p) PROVE passes' \in [Passes -> Walks]
  <2>1. PICK j \in Jobs : passes' = [passes EXCEPT ![p].claimed = j] \/ Done(p, j)
    BY <1>5 DEF Claim
  <2>2. CASE passes' = [passes EXCEPT ![p].claimed = j]
    BY <1>1, <2>2 DEF Walks
  <2> QED
    BY <1>4, <2>1, <2>2
<1>6. ASSUME NEW p \in Passes, Skip(p) \/ Check(p) PROVE passes' \in [Passes -> Walks]
  BY <1>4, <1>6 DEF Skip, Check
<1>7. ASSUME NEW p \in Passes, Crash(p) PROVE passes' \in [Passes -> Walks]
  BY <1>1, <1>2, <1>7 DEF Crash
<1>8. CASE UNCHANGED passes
  BY <1>1, <1>8
<1> QED
  BY <1>3, <1>5, <1>6, <1>7, <1>8 DEF ChecksNext, PassStep, Succeed, Elapse, Save, checksVars

(* Every step keeps the types of the rows and of the history.              *)
LEMMA RowTypes ==
  ASSUME ChecksTypeOK, [ChecksNext]_checksVars
  PROVE  runs' \in [Jobs -> {"none", "running"} \union Settled] /\ history' \in [Jobs -> Nat]
<1> USE DEF ChecksTypeOK, Settled
<1>1. ASSUME NEW p \in Passes, Begin(p)
      PROVE  runs' \in [Jobs -> {"none", "running"} \union Settled] /\ UNCHANGED history
  BY <1>1 DEF Begin
<1>2. ASSUME NEW p \in Passes, Claim(p)
      PROVE  runs' \in [Jobs -> {"none", "running"} \union Settled] /\ UNCHANGED history
  BY <1>2 DEF Claim
<1>3. ASSUME NEW p \in Passes, Skip(p)
      PROVE  runs' \in [Jobs -> {"none", "running"} \union Settled] /\ UNCHANGED history
  BY <1>3 DEF Skip
<1>4. ASSUME NEW p \in Passes, Check(p)
      PROVE  runs' \in [Jobs -> {"none", "running"} \union Settled] /\ history' \in [Jobs -> Nat]
  BY <1>4 DEF Check
<1>5. CASE UNCHANGED <<runs, history>>
  BY <1>5
<1> QED
  BY <1>1, <1>2, <1>3, <1>4, <1>5 DEF ChecksNext, PassStep, Succeed, Elapse, Save, Crash, checksVars

(* Every step of the automation keeps its types.                           *)
LEMMA ChecksTypes ==
  ASSUME ChecksTypeOK, [ChecksNext]_checksVars PROVE ChecksTypeOK'
<1>1. done' \subseteq Jobs /\ old' \subseteq Jobs /\ config' \in Configs
  BY DEF ChecksTypeOK, ChecksNext, PassStep, Succeed, Elapse, Save, Begin, Claim, Skip, Check, Crash, checksVars
<1>2. crashes' \in 0..MaxCrashes
  <2>1. ASSUME NEW p \in Passes, Crash(p) PROVE crashes' \in 0..MaxCrashes
    BY <2>1, ChecksBounds DEF Crash, ChecksTypeOK
  <2>2. CASE UNCHANGED crashes
    BY <2>2 DEF ChecksTypeOK
  <2> QED
    BY <2>1, <2>2 DEF ChecksNext, PassStep, Succeed, Elapse, Save, Begin, Claim, Skip, Check, checksVars
<1> QED
  BY <1>1, <1>2, WalkTypes, RowTypes DEF ChecksTypeOK, Walks

(* Of a claimed row nobody else settles or drops it, and only its holder   *)
(* adds to the history.                                                    *)
LEMMA ChecksStep ==
  ASSUME ChecksTypeOK, ChecksInv, [ChecksNext]_checksVars PROVE ChecksInv'
<1> USE DEF ChecksInv, ClaimsHeld, VerifiedOnce
<1>1. /\ passes \in [Passes -> Walks] /\ runs \in [Jobs -> {"none", "running"} \union Settled]
      /\ history \in [Jobs -> Nat] /\ old \subseteq Jobs /\ 0 \notin Jobs
  BY ChecksBounds DEF ChecksTypeOK, Walks
<1>2. ASSUME NEW p \in Passes, NEW j, Done(p, j)
      PROVE  \A q \in Passes : passes'[q].claimed = IF q = p THEN 0 ELSE passes[q].claimed
  <2>1. [passes[p] EXCEPT !.todo = @ \ {j}, !.claimed = 0].claimed = 0
    BY <1>1 DEF Walks
  <2> QED
    BY <1>1, <1>2, <2>1 DEF Done, Rest, Resting
<1>3. ASSUME NEW p \in Passes, Begin(p) PROVE ChecksInv'
  <2>1. \A q \in Passes : passes'[q].claimed = passes[q].claimed
    BY <1>1, <1>3 DEF Begin, Rest, Resting
  <2>2. /\ runs' = [j \in Jobs |-> IF j \in old THEN "none" ELSE runs[j]]
        /\ old' = {} /\ UNCHANGED history
    BY <1>3 DEF Begin, Expired
  <2>3. \A j \in Jobs : runs'[j] = IF j \in old THEN "none" ELSE runs[j]
    BY <2>2
  <2>4. VerifiedOnce'
    BY <1>1, <2>2, <2>3
  <2>5. \A q \in Passes : passes[q].claimed \in Jobs \union {0}
    BY <1>1 DEF Walks
  <2>6. ClaimsHeld'
    BY <2>1, <2>2, <2>3, <2>5
  <2> QED
    BY <2>4, <2>6
<1>4. ASSUME NEW p \in Passes, Claim(p) PROVE ChecksInv'
  <2>1. PICK j \in Jobs :
          \/ /\ runs[j] = "none" /\ runs' = [runs EXCEPT ![j] = "running"]
             /\ passes' = [passes EXCEPT ![p].claimed = j]
          \/ Done(p, j) /\ UNCHANGED runs
    BY <1>4 DEF Claim
  <2>2. UNCHANGED <<old, history>> /\ passes[p].claimed = 0
    BY <1>4 DEF Claim
  <2>3. CASE Done(p, j) /\ UNCHANGED runs
    BY <1>1, <1>2, <2>2, <2>3
  <2>4. CASE /\ runs[j] = "none" /\ runs' = [runs EXCEPT ![j] = "running"]
             /\ passes' = [passes EXCEPT ![p].claimed = j]
    <3>1. \A q \in Passes : passes'[q].claimed = IF q = p THEN j ELSE passes[q].claimed
      BY <1>1, <2>4 DEF Walks
    <3> QED
      BY <1>1, <2>2, <2>4, <3>1
  <2> QED
    BY <2>1, <2>3, <2>4
<1>5. ASSUME NEW p \in Passes, Skip(p) PROVE ChecksInv'
  <2>1. \E j \in Jobs :
          /\ j = passes[p].claimed /\ runs[j] = "running" /\ runs' = [runs EXCEPT ![j] = "skipped"]
          /\ Done(p, j) /\ UNCHANGED <<old, history>>
    BY <1>1, <1>5 DEF Skip, Walks
  <2> QED
    BY <1>1, <1>2, <2>1
<1>6. ASSUME NEW p \in Passes, Check(p) PROVE ChecksInv'
  <2>1. \E j \in Jobs, s \in {"completed", "partial"} :
          /\ j = passes[p].claimed /\ runs[j] = "running" /\ runs' = [runs EXCEPT ![j] = s]
          /\ history' = [history EXCEPT ![j] = @ + 1]
          /\ Done(p, j) /\ UNCHANGED old
    BY <1>1, <1>6 DEF Check, Walks
  <2> QED
    BY <1>1, <1>2, <2>1
<1>7. ASSUME NEW p \in Passes, Crash(p) PROVE ChecksInv'
  BY <1>1, <1>7 DEF Crash, Resting
<1>8. ASSUME NEW j \in Jobs, Elapse(j) PROVE ChecksInv'
  BY <1>1, <1>8 DEF Elapse
<1>9. CASE UNCHANGED <<passes, runs, old, history>>
  BY <1>9
<1> QED
  BY <1>3, <1>4, <1>5, <1>6, <1>7, <1>8, <1>9 DEF ChecksNext, PassStep, Succeed, Save, checksVars

(* Overlapping, dying and resumed passes file one line of history for each *)
(* job that was checked, and none for any other.                           *)
THEOREM VerifiedOnceAlways == ChecksSpec => []VerifiedOnce
<1>1. ChecksInit => ChecksTypeOK /\ ChecksInv
  <2> SUFFICES ASSUME ChecksInit PROVE ChecksTypeOK /\ ChecksInv
    OBVIOUS
  <2>1. ChecksTypeOK
    BY ChecksBounds DEF ChecksInit, ChecksTypeOK, Resting, Configs, Settled
  <2>2. ChecksInv
    BY ChecksBounds DEF ChecksInit, ChecksInv, ClaimsHeld, VerifiedOnce, Resting
  <2> QED
    BY <2>1, <2>2
<1>2. ChecksTypeOK /\ ChecksInv /\ [ChecksNext]_checksVars => (ChecksTypeOK /\ ChecksInv)'
  BY ChecksTypes, ChecksStep
<1>3. ChecksInv => VerifiedOnce
  BY DEF ChecksInv
<1> QED
  BY <1>1, <1>2, <1>3, PTL DEF ChecksSpec

---------------------------------------------------------------------------------
(***************************************************************************)
(* The fleet jobs.                                                         *)
(***************************************************************************)
LEMMA Partials ==
  ASSUME NEW S, NEW f PROVE f \in Partial(S) <=> DOMAIN f \subseteq Fleet /\ f \in [DOMAIN f -> S]
BY DEF Partial

(* No stages and no results are a partial function.                        *)
LEMMA Nothing == ASSUME NEW S PROVE NoStages \in Partial(S) /\ DOMAIN NoStages = {}
BY Partials DEF NoStages

(* The routers of a job are finitely many.                                 *)
LEMMA Counted == ASSUME NEW D, D \subseteq Fleet PROVE Cardinality(D) \in Nat
BY FleetBounds, FS_Subset, FS_CardinalityType

(* A process at rest has no job.                                           *)
LEMMA Rests == AtRest \in Processes /\ AtRest.at = "off" /\ AtRest.job = 0
BY Nothing DEF AtRest, Processes

(* Every step keeps the types of the rows; rows are never removed.         *)
LEMMA JobRowTypes ==
  ASSUME FleetTypeOK, [FleetNext]_fleetVars PROVE jobs' \in Seq(JobRows) /\ DOMAIN jobs \subseteq DOMAIN jobs'
<1>1. jobs \in Seq(JobRows) /\ runner \in [Runners -> Processes] /\ jobs \in [DOMAIN jobs -> JobRows]
  BY LenProperties DEF FleetTypeOK
<1>2. CASE Tick
  <2>1. jobs' = Recovered
    BY <1>2 DEF Tick
  <2>2. Recovered \in [DOMAIN jobs -> JobRows]
    BY <1>1 DEF Recovered, JobRows
  <2> QED
    BY <1>1, <2>1, <2>2, Rewritten
<1>3. ASSUME NEW w \in Runners, Create(w)
      PROVE  jobs' \in Seq(JobRows) /\ DOMAIN jobs \subseteq DOMAIN jobs'
  <2> DEFINE row == [kind |-> runner[w].kind, status |-> "queued", for |-> runner[w].today,
                     total |-> 0, results |-> NoStages]
  <2>1. row \in JobRows
    BY <1>1, Nothing DEF JobRows, Processes
  <2>2. jobs' = Append(jobs, row)
    BY <1>3 DEF Create
  <2> HIDE DEF row
  <2> QED
    BY <1>1, <2>1, <2>2, Grown
<1>4. ASSUME NEW w \in Runners, Start(w)
      PROVE  jobs' \in Seq(JobRows) /\ DOMAIN jobs \subseteq DOMAIN jobs'
  <2>1. Cardinality(DOMAIN runner[w].stage) \in Nat
    BY <1>1, Partials, Counted DEF Processes
  <2>2. jobs' \in [DOMAIN jobs -> JobRows]
    BY <1>1, <1>4, <2>1, ZenonT(40) DEF Start, JobRows
  <2> QED
    BY <1>1, <2>2, Rewritten
<1>5. ASSUME NEW w \in Runners, NEW r \in Fleet, NEW s \in {"success", "error"}, File(w, r, s)
      PROVE  jobs' \in Seq(JobRows) /\ DOMAIN jobs \subseteq DOMAIN jobs'
  <2> DEFINE j == runner[w].job
             filed == [q \in DOMAIN jobs[j].results \union {r} |-> IF q = r THEN s ELSE jobs[j].results[q]]
  <2>1. CASE j \in DOMAIN jobs
    <3>1. jobs[j].results \in Partial({"success", "error"})
      BY <1>1, <2>1 DEF JobRows
    <3>2. filed \in Partial({"success", "error"})
      BY <3>1, Partials
    <3>3. jobs' = [jobs EXCEPT ![j].results = filed]
      BY <1>5 DEF File
    <3> HIDE DEF filed, j
    <3>4. jobs' \in [DOMAIN jobs -> JobRows]
      BY <1>1, <2>1, <3>2, <3>3 DEF JobRows
    <3> QED
      BY <1>1, <3>4, Rewritten
  <2>2. CASE j \notin DOMAIN jobs
    BY <1>1, <1>5, <2>2 DEF File
  <2> QED
    BY <2>1, <2>2
<1>6. ASSUME NEW w \in Runners, FinishJob(w)
      PROVE  jobs' \in Seq(JobRows) /\ DOMAIN jobs \subseteq DOMAIN jobs'
  <2> DEFINE j == runner[w].job
  <2>1. PICK s \in Ended :
          jobs' = [jobs EXCEPT ![j].status = s, ![j].total = Cardinality(DOMAIN jobs[j].results)]
    BY <1>6 DEF FinishJob, Ended
  <2>2. j \in DOMAIN jobs => Cardinality(DOMAIN jobs[j].results) \in Nat
    BY <1>1, Partials, Counted DEF JobRows
  <2> HIDE DEF j
  <2>3. jobs' \in [DOMAIN jobs -> JobRows]
    BY <1>1, <2>1, <2>2, ZenonT(40) DEF JobRows
  <2> QED
    BY <1>1, <2>3, Rewritten
<1>7. CASE UNCHANGED jobs
  BY <1>1, <1>7
<1>8. ASSUME NEW w \in Runners, Visit(w)
      PROVE  UNCHANGED jobs \/ \E r \in Fleet, s \in {"success", "error"} : File(w, r, s)
  <2>1. DOMAIN runner[w].stage \subseteq Fleet
    BY <1>1, Partials DEF Processes
  <2> QED
    BY <1>8, <2>1 DEF Visit, Take, Reply
<1> QED
  BY <1>2, <1>3, <1>4, <1>5, <1>6, <1>7, <1>8 DEF FleetNext, RunStep, fleetVars,
     Evening, Midnight, Mark, Abandon, Free, Press, NoRow, Kill

(* What the tick begins has no job yet.                                    *)
LEMMA Begins == ASSUME day \in Nat PROVE Begun \in Processes /\ Begun.at = "create" /\ Begun.job = 0
<1> DEFINE too == (plan = "analysis too")
<1>1. too \in BOOLEAN
  OBVIOUS
<1>2. Begun = [AtRest EXCEPT !.at = "create", !.today = day, !.analyse = too]
  BY DEF Begun
<1> HIDE DEF too
<1> QED
  BY <1>1, <1>2, Rests DEF Processes

(* Every step keeps the types of the processes.                            *)
LEMMA ProcessTypes ==
  ASSUME FleetTypeOK, [FleetNext]_fleetVars PROVE runner' \in [Runners -> Processes]
<1>1. runner \in [Runners -> Processes] /\ day \in Nat
  BY DEF FleetTypeOK
<1>2. \A D \in SUBSET Fleet : [r \in D |-> "waiting"] \in Partial({"waiting", "asking", "filed"})
  BY Partials
<1>3. CASE Tick
  <2>1. Begun \in Processes
    BY <1>1, Begins
  <2> QED
    BY <1>1, <1>3, <2>1 DEF Tick, Runners
<1>4. ASSUME NEW kind \in {"backup", "analysis"}, Press(kind) PROVE runner' \in [Runners -> Processes]
  <2>1. [AtRest EXCEPT !.at = "create", !.kind = kind] \in Processes
    BY Rests DEF Processes
  <2> QED
    BY <1>1, <1>4, <2>1 DEF Press, Runners
<1>5. ASSUME NEW w \in Runners, Create(w) PROVE runner' \in [Runners -> Processes]
  <2> DEFINE asked == [r \in Asked(runner[w].kind) |-> "waiting"]
             next == Len(jobs) + 1
  <2>1. asked \in Partial({"waiting", "asking", "filed"})
    BY <1>2 DEF Asked
  <2>2. runner' = [runner EXCEPT ![w].at = "start", ![w].job = next, ![w].stage = asked]
    BY <1>5 DEF Create
  <2>3. next \in Nat
    <3>1. jobs \in Seq(JobRows)
      BY DEF FleetTypeOK
    <3> QED
      BY <3>1, LenProperties
  <2> HIDE DEF asked, next
  <2>4. runner[w] \in Processes
    BY <1>1
  <2>5. [runner[w] EXCEPT !.at = "start", !.job = next, !.stage = asked] \in Processes
    BY <2>1, <2>3, <2>4 DEF Processes
  <2>6. runner' = [runner EXCEPT ![w] = [runner[w] EXCEPT !.at = "start", !.job = next, !.stage = asked]]
    BY <1>1, <2>2
  <2> QED
    BY <1>1, <2>5, <2>6
<1>6. ASSUME NEW w \in Runners, NoRow(w) \/ Kill(w) PROVE runner' \in [Runners -> Processes]
  BY <1>1, <1>6, Rests DEF NoRow, Kill
<1>7. ASSUME NEW w \in Runners, Start(w) PROVE runner' \in [Runners -> Processes]
  BY <1>1, <1>7 DEF Start, Processes
<1>8. ASSUME NEW w \in Runners, NEW r \in DOMAIN runner[w].stage, NEW s \in {"asking", "filed"},
             runner' = [runner EXCEPT ![w].stage[r] = s]
      PROVE  runner' \in [Runners -> Processes]
  <2>1. [runner[w].stage EXCEPT ![r] = s] \in Partial({"waiting", "asking", "filed"})
    BY <1>1, Partials DEF Processes
  <2> QED
    BY <1>1, <1>8, <2>1 DEF Processes
<1>9. ASSUME NEW w \in Runners, Visit(w) PROVE runner' \in [Runners -> Processes]
  BY <1>8, <1>9 DEF Visit, Take, Reply, File
<1>10. ASSUME NEW w \in Runners, FinishJob(w) PROVE runner' \in [Runners -> Processes]
  <2>1. [runner[w] EXCEPT !.at = "mark"] \in Processes
    BY <1>1 DEF Processes
  <2> QED
    BY <1>1, <1>10, <2>1, Rests DEF FinishJob
<1>11. CASE Mark
  <2>1. [AtRest EXCEPT !.at = "create", !.kind = "analysis"] \in Processes
    BY Rests DEF Processes
  <2> QED
    BY <1>1, <1>11, <2>1, Rests DEF Mark, Runners
<1>12. CASE UNCHANGED runner
  BY <1>1, <1>12
<1> QED
  BY <1>3, <1>4, <1>5, <1>6, <1>7, <1>9, <1>10, <1>11, <1>12 DEF FleetNext, RunStep, fleetVars,
     Evening, Midnight, Abandon, Free

(* Every step of the fleet jobs keeps their types.                         *)
LEMMA FleetTypes ==
  ASSUME FleetTypeOK, [FleetNext]_fleetVars PROVE FleetTypeOK'
<1>1. day' \in Nat /\ marked' \in Nat /\ plan' \in Plans
  <2>1. runner["timer"].today \in Nat /\ day \in Nat /\ marked \in Nat /\ plan \in Plans
    BY DEF FleetTypeOK, Processes, Runners
  <2>2. plan' = plan
    BY DEF FleetNext, RunStep, Visit, Take, Reply, fleetVars, Evening, Midnight, Tick, Mark,
       Abandon, Free, Press, Create, NoRow, Start, FinishJob, Kill
  <2>3. day' = day \/ day' = day + 1
    BY DEF FleetNext, RunStep, Visit, Take, Reply, fleetVars, Evening, Midnight, Tick, Mark,
       Abandon, Free, Press, Create, NoRow, Start, FinishJob, Kill
  <2>4. marked' = marked \/ marked' = runner["timer"].today
    BY DEF FleetNext, RunStep, Visit, Take, Reply, fleetVars, Evening, Midnight, Tick, Mark,
       Abandon, Free, Press, Create, NoRow, Start, FinishJob, Kill
  <2> QED
    BY <2>1, <2>2, <2>3, <2>4
<1>2. evening' \in BOOLEAN
  <2>1. CASE UNCHANGED evening
    BY <2>1 DEF FleetTypeOK
  <2>2. CASE Evening \/ Midnight
    BY <2>2 DEF Evening, Midnight
  <2> QED
    BY <2>1, <2>2 DEF FleetNext, RunStep, Visit, Take, Reply, fleetVars, Tick, Mark,
       Abandon, Free, Press, Create, NoRow, Start, FinishJob, Kill
<1>3. abandoned' \subseteq DOMAIN jobs'
  <2>1. CASE UNCHANGED abandoned
    BY <2>1, JobRowTypes DEF FleetTypeOK
  <2>2. CASE Tick
    BY <2>2 DEF Tick
  <2>3. ASSUME NEW j \in DOMAIN jobs, Abandon(j) PROVE abandoned' \subseteq DOMAIN jobs'
    BY <2>3, JobRowTypes DEF Abandon, FleetTypeOK
  <2> QED
    BY <2>1, <2>2, <2>3 DEF FleetNext, RunStep, Visit, Take, Reply, fleetVars, Evening, Midnight, Mark,
       Free, Press, Create, NoRow, Start, FinishJob, Kill
<1>4. reserved' \in [Fleet -> {"nobody", "the dead"} \union Runners]
  BY ZenonT(40) DEF FleetTypeOK, FleetNext, RunStep, Visit, Take, Reply, fleetVars, Evening, Midnight, Tick, Mark,
     Abandon, Free, Press, Create, NoRow, Start, FinishJob, Kill
<1>5. kills' \in 0..MaxKills
  <2>1. ASSUME NEW w \in Runners, Kill(w) PROVE kills' \in 0..MaxKills
    <3>1. kills < MaxKills /\ kills' = kills + 1
      BY <2>1 DEF Kill
    <3>2. kills \in 0..MaxKills /\ MaxKills \in Nat
      BY FleetBounds DEF FleetTypeOK
    <3> QED
      BY <3>1, <3>2
  <2>2. CASE UNCHANGED kills
    BY <2>2 DEF FleetTypeOK
  <2> QED
    BY <2>1, <2>2 DEF FleetNext, RunStep, Visit, Take, Reply, fleetVars, Evening, Midnight, Tick, Mark,
       Abandon, Free, Press, Create, NoRow, Start, FinishJob
<1> QED
  BY <1>1, <1>2, <1>3, <1>4, <1>5, JobRowTypes, ProcessTypes DEF FleetTypeOK

(* The jobs of two processes are two, and not one that is recovered.       *)
LEMMA Places ==
  ASSUME FleetTypeOK, FleetInv, NEW v \in Runners
  PROVE  /\ runner[v].at \in {"start", "ask", "mark"} => runner[v].job \in DOMAIN jobs \ abandoned
         /\ runner[v].at \notin {"start", "ask", "mark"} => runner[v].job = 0
         /\ 0 \notin DOMAIN jobs
<1>1. jobs \in Seq(JobRows)
  BY DEF FleetTypeOK
<1>2. 0 \notin DOMAIN jobs
  BY <1>1, LenProperties
<1>3. Sound(v)
  BY DEF FleetInv
<1> QED
  BY <1>2, <1>3 DEF Sound, AtWork

(* What a process keeps while nobody touches it or its job.                *)
LEMMA Untouched ==
  ASSUME FleetTypeOK, FleetInv, NEW v \in Runners, runner'[v] = runner[v],
         DOMAIN jobs \subseteq DOMAIN jobs',
         runner[v].job \in DOMAIN jobs \ abandoned =>
           jobs'[runner[v].job] = jobs[runner[v].job] /\ runner[v].job \notin abandoned'
  PROVE  Sound(v)'
<1>1. Sound(v)
  BY DEF FleetInv
<1>2. CASE runner[v].at \in {"start", "ask", "mark"}
  <2>1. AtWork(v) /\ runner[v].job \in DOMAIN jobs \ abandoned
    BY <1>1, <1>2, Places DEF Sound
  <2>2. AtWork(v)'
    BY <2>1 DEF AtWork, Answered
  <2> QED
    BY <1>2, <2>2 DEF Sound
<1>3. CASE runner[v].at \notin {"start", "ask", "mark"}
  BY <1>1, <1>3 DEF Sound
<1> QED
  BY <1>2, <1>3

(* What a process does to itself and to its own job concerns no other.     *)
LEMMA Alone ==
  ASSUME FleetTypeOK, FleetInv, NEW w \in Runners,
         \A v \in Runners \ {w} : runner'[v] = runner[v],
         DOMAIN jobs \subseteq DOMAIN jobs', abandoned' \subseteq abandoned,
         \A k \in DOMAIN jobs \ (abandoned \union {runner[w].job}) : jobs'[k] = jobs[k],
         runner'[w].job = runner[w].job \/ runner'[w].job \notin DOMAIN jobs
  PROVE  Apart' /\ \A v \in Runners \ {w} : Sound(v)'
<1>1. \A v \in Runners : runner[v].job \in DOMAIN jobs \union {0} /\ 0 \notin DOMAIN jobs
  BY Places
<1>2. \A u, v \in Runners : runner[u].job = runner[v].job /\ runner[u].job # 0 => u = v
  BY DEF FleetInv, Apart
<1>3. \A v \in Runners \ {w} : Sound(v)'
  BY <1>1, <1>2, Untouched
<1>4. Apart'
  BY <1>1, <1>2 DEF Apart
<1> QED
  BY <1>3, <1>4

(* A day that was backed up stays so while the ended jobs are left alone.  *)
LEMMA DayKept ==
  ASSUME FleetInv, marked' = marked, DOMAIN jobs \subseteq DOMAIN jobs',
         \A k \in DOMAIN jobs : jobs[k].status \in Ended => jobs'[k] = jobs[k]
  PROVE  DayIsBackedUp'
BY DEF FleetInv, DayIsBackedUp

(* The parts of the invariant, for a process that moved and the others.    *)
LEMMA Together ==
  ASSUME NEW w \in Runners, Sound(w)', \A v \in Runners \ {w} : Sound(v)', Apart', DayIsBackedUp'
  PROVE  FleetInv'
BY DEF FleetInv

(* The tick fails only what nobody works on, and no ended job.             *)
LEMMA TickKeeps == ASSUME FleetTypeOK, FleetInv, Tick PROVE FleetInv'
<1> "timer" \in Runners /\ runner \in [Runners -> Processes]
  BY DEF Runners, FleetTypeOK
<1>1. jobs' = Recovered /\ abandoned' = {} /\ marked' = marked
  BY DEF Tick
<1>2. DOMAIN jobs' = DOMAIN jobs /\ \A k \in DOMAIN jobs \ abandoned : jobs'[k] = jobs[k]
  BY <1>1 DEF Recovered
<1>3. \A k \in DOMAIN jobs : jobs[k].status \in Ended => jobs'[k] = jobs[k]
  BY <1>1 DEF Recovered, OpenJob, Ended
<1>4. \A v \in Runners \ {"timer"} : runner'[v] = runner[v]
  BY DEF Tick
<1>5. runner'["timer"] \in {Begun, AtRest}
  BY DEF Tick
<1>6. runner'["timer"].job = 0 /\ runner'["timer"].at \notin {"start", "ask", "mark"}
  BY <1>5, Begins, Rests DEF FleetTypeOK
<1>7. Apart' /\ \A v \in Runners \ {"timer"} : Sound(v)'
  BY <1>1, <1>2, <1>4, <1>6, Alone, Places
<1> QED
  BY <1>1, <1>2, <1>3, <1>6, <1>7, DayKept, Together DEF Sound

(* A process that goes to rest or begins anew has no job and leaves the    *)
(* rows alone.                                                             *)
LEMMA RestKeeps ==
  ASSUME FleetTypeOK, FleetInv, NEW w \in Runners, NEW p,
         runner' = [runner EXCEPT ![w] = p], p.job = 0, p.at \notin {"start", "ask", "mark"},
         UNCHANGED <<jobs, abandoned>>, DayIsBackedUp'
  PROVE  FleetInv'
<1>1. runner \in [Runners -> Processes]
  BY DEF FleetTypeOK
<1>2. runner'[w] = p /\ \A v \in Runners \ {w} : runner'[v] = runner[v]
  BY <1>1
<1>3. Apart' /\ \A v \in Runners \ {w} : Sound(v)'
  BY <1>2, Alone, Places
<1> QED
  BY <1>2, <1>3, Together DEF Sound

(* A new job is nobody else's, and a backup asks the whole fleet.          *)
LEMMA CreateKeeps == ASSUME FleetTypeOK, FleetInv, NEW w \in Runners, Create(w) PROVE FleetInv'
<1> DEFINE row == [kind |-> runner[w].kind, status |-> "queued", for |-> runner[w].today,
                   total |-> 0, results |-> NoStages]
           asked == [r \in Asked(runner[w].kind) |-> "waiting"]
           j == Len(jobs) + 1
<1>1. runner \in [Runners -> Processes] /\ jobs \in Seq(JobRows) /\ abandoned \subseteq DOMAIN jobs
  BY DEF FleetTypeOK
<1>2. row \in JobRows
  BY <1>1, Nothing DEF JobRows, Processes
<1>3. jobs' = Append(jobs, row) /\ abandoned' = abandoned /\ marked' = marked
  BY DEF Create
<1>4. /\ DOMAIN jobs' = DOMAIN jobs \union {j} /\ jobs'[j] = row /\ j \notin DOMAIN jobs
      /\ \A k \in DOMAIN jobs : jobs'[k] = jobs[k]
  <2> HIDE DEF row
  <2> QED
    BY <1>1, <1>2, <1>3, Grown
<1>5. /\ runner'[w].at = "start" /\ runner'[w].job = j /\ runner'[w].stage = asked
      /\ runner'[w].kind = runner[w].kind /\ runner'[w].today = runner[w].today
      /\ \A v \in Runners \ {w} : runner'[v] = runner[v]
  BY <1>1 DEF Create, Processes
<1>6. row.kind = runner[w].kind /\ row.for = runner[w].today /\ row.status = "queued"
      /\ DOMAIN row.results = {}
  BY Nothing
<1>7. /\ runner[w].kind = "backup" => DOMAIN asked = Fleet
      /\ \A q \in DOMAIN asked : asked[q] = "waiting"
  BY DEF Asked
<1> HIDE DEF row, asked, j
<1>8. AtWork(w)'
  BY <1>1, <1>3, <1>4, <1>5, <1>6, <1>7 DEF AtWork
<1>9. Apart' /\ \A v \in Runners \ {w} : Sound(v)'
  BY <1>3, <1>4, <1>5, Alone
<1> QED
  BY <1>3, <1>4, <1>5, <1>8, <1>9, DayKept, Together DEF Sound

(* A process at work on its job, which is not ended until it says so.      *)
LEMMA WorkKeeps ==
  ASSUME FleetTypeOK, FleetInv, NEW w \in Runners, runner[w].at \in {"start", "ask"},
         \A v \in Runners \ {w} : runner'[v] = runner[v], UNCHANGED <<abandoned, marked>>,
         DOMAIN jobs' = DOMAIN jobs, \A k \in DOMAIN jobs \ {runner[w].job} : jobs'[k] = jobs[k],
         runner'[w].job = runner[w].job \/ runner'[w].job = 0, Sound(w)'
  PROVE  FleetInv'
<1>1. AtWork(w) /\ 0 \notin DOMAIN jobs
  BY Places DEF FleetInv, Sound
<1>2. jobs[runner[w].job].status \notin Ended
  BY <1>1 DEF AtWork, Ended
<1>3. Apart' /\ \A v \in Runners \ {w} : Sound(v)'
  BY <1>1, Alone
<1> QED
  BY <1>2, <1>3, DayKept, Together

(* A job that starts has no result yet.                                    *)
LEMMA StartKeeps == ASSUME FleetTypeOK, FleetInv, NEW w \in Runners, Start(w) PROVE FleetInv'
<1> DEFINE j == runner[w].job
<1>1. /\ runner \in [Runners -> Processes] /\ runner[w] \in Processes
      /\ jobs \in [DOMAIN jobs -> JobRows]
  BY LenProperties DEF FleetTypeOK
<1>2. runner[w].at = "start" /\ AtWork(w) /\ j \in DOMAIN jobs
  BY Places DEF Start, FleetInv, Sound
<1>3. /\ DOMAIN jobs' = DOMAIN jobs /\ \A k \in DOMAIN jobs \ {j} : jobs'[k] = jobs[k]
      /\ jobs'[j].status = "running" /\ jobs'[j].kind = jobs[j].kind
      /\ jobs'[j].for = jobs[j].for /\ jobs'[j].results = jobs[j].results
  BY <1>1, <1>2 DEF Start, JobRows
<1>4. /\ runner'[w].at = "ask" /\ runner'[w].job = j /\ runner'[w].stage = runner[w].stage
      /\ runner'[w].kind = runner[w].kind /\ runner'[w].today = runner[w].today
      /\ \A v \in Runners \ {w} : runner'[v] = runner[v]
  BY <1>1 DEF Start, Processes
<1>5. UNCHANGED <<abandoned, marked>>
  BY DEF Start
<1>6. DOMAIN jobs[j].results = {q \in DOMAIN runner[w].stage : runner[w].stage[q] = "filed"}
  BY <1>2 DEF AtWork
<1> HIDE DEF j
<1>7. AtWork(w)'
  BY <1>2, <1>3, <1>4, <1>5, <1>6 DEF AtWork, j
<1> QED
  BY <1>2, <1>3, <1>4, <1>5, <1>7, WorkKeeps DEF Sound, j

(* A result is filed with the stage that says so.                          *)
LEMMA VisitKeeps == ASSUME FleetTypeOK, FleetInv, NEW w \in Runners, Visit(w) PROVE FleetInv'
<1> DEFINE j == runner[w].job
<1> PICK r \in DOMAIN runner[w].stage : Take(w, r) \/ Reply(w, r)
  BY DEF Visit
<1>1. /\ runner \in [Runners -> Processes] /\ runner[w] \in Processes
      /\ jobs \in [DOMAIN jobs -> JobRows]
  BY LenProperties DEF FleetTypeOK
<1>2. runner[w].at = "ask" /\ AtWork(w) /\ j \in DOMAIN jobs
  BY Places DEF Take, Reply, FleetInv, Sound
<1>3. UNCHANGED <<abandoned, marked>> /\ runner[w].stage[r] # "filed"
  BY DEF Take, Reply
<1>4. ASSUME NEW s \in {"asking", "filed"}, runner' = [runner EXCEPT ![w].stage[r] = s]
      PROVE  /\ runner'[w].at = "ask" /\ runner'[w].job = j
             /\ runner'[w].kind = runner[w].kind /\ runner'[w].today = runner[w].today
             /\ runner'[w].stage = [runner[w].stage EXCEPT ![r] = s]
             /\ \A v \in Runners \ {w} : runner'[v] = runner[v]
  BY <1>1, <1>2, <1>4 DEF Processes
<1>5. ASSUME runner' = [runner EXCEPT ![w].stage[r] = "asking"], jobs' = jobs PROVE FleetInv'
  <2>1. {q \in DOMAIN runner'[w].stage : runner'[w].stage[q] = "filed"}
          = {q \in DOMAIN runner[w].stage : runner[w].stage[q] = "filed"}
    BY <1>3, <1>4, <1>5
  <2>2. AtWork(w)'
    BY <1>2, <1>3, <1>4, <1>5, <2>1 DEF AtWork
  <2> QED
    BY <1>2, <1>3, <1>4, <1>5, <2>2, WorkKeeps DEF Sound
<1>6. ASSUME NEW s \in {"success", "error"}, File(w, r, s) PROVE FleetInv'
  <2> DEFINE new == [q \in DOMAIN jobs[j].results \union {r} |-> IF q = r THEN s ELSE jobs[j].results[q]]
  <2>1. runner' = [runner EXCEPT ![w].stage[r] = "filed"] /\ jobs' = [jobs EXCEPT ![j].results = new]
    BY <1>6 DEF File
  <2>2. DOMAIN new = DOMAIN jobs[j].results \union {r}
    OBVIOUS
  <2> HIDE DEF new
  <2>3. /\ DOMAIN jobs' = DOMAIN jobs /\ \A k \in DOMAIN jobs \ {j} : jobs'[k] = jobs[k]
        /\ jobs'[j].status = jobs[j].status /\ jobs'[j].kind = jobs[j].kind
        /\ jobs'[j].for = jobs[j].for /\ jobs'[j].results = new
    BY <1>1, <1>2, <2>1 DEF JobRows
  <2>4. {q \in DOMAIN runner'[w].stage : runner'[w].stage[q] = "filed"}
          = {q \in DOMAIN runner[w].stage : runner[w].stage[q] = "filed"} \union {r}
    BY <1>4, <2>1
  <2>5. DOMAIN runner'[w].stage = DOMAIN runner[w].stage
    BY <1>4, <2>1
  <2>6. AtWork(w)'
    BY <1>2, <1>3, <1>4, <2>1, <2>2, <2>3, <2>4, <2>5 DEF AtWork
  <2> QED
    BY <1>2, <1>3, <1>4, <2>1, <2>3, <2>6, WorkKeeps DEF Sound
<1> QED
  BY <1>5, <1>6 DEF Take, Reply

(* A backup ends when every router of the fleet has its result.            *)
LEMMA FinishKeeps == ASSUME FleetTypeOK, FleetInv, NEW w \in Runners, FinishJob(w) PROVE FleetInv'
<1> DEFINE j == runner[w].job
<1>1. /\ runner \in [Runners -> Processes] /\ runner[w] \in Processes
      /\ jobs \in [DOMAIN jobs -> JobRows]
  BY LenProperties DEF FleetTypeOK
<1>2. runner[w].at = "ask" /\ AtWork(w) /\ j \in DOMAIN jobs
  BY Places DEF FinishJob, FleetInv, Sound
<1>3. UNCHANGED <<abandoned, marked>>
  BY DEF FinishJob
<1>4. PICK s \in Ended :
        jobs' = [jobs EXCEPT ![j].status = s, ![j].total = Cardinality(DOMAIN jobs[j].results)]
  BY DEF FinishJob, Ended
<1>5. /\ DOMAIN jobs' = DOMAIN jobs /\ \A k \in DOMAIN jobs \ {j} : jobs'[k] = jobs[k]
      /\ jobs'[j].status = s /\ jobs'[j].kind = jobs[j].kind
      /\ jobs'[j].for = jobs[j].for /\ jobs'[j].results = jobs[j].results
  BY <1>1, <1>2, <1>4 DEF JobRows
<1>6. DOMAIN jobs[j].results = DOMAIN runner[w].stage
  <2>1. \A q \in DOMAIN runner[w].stage : runner[w].stage[q] = "filed"
    BY DEF FinishJob, Range
  <2> QED
    BY <1>2, <2>1 DEF AtWork
<1>7. CASE w = "timer" /\ runner[w].kind = "backup"
  <2>1. runner' = [runner EXCEPT ![w] = [runner[w] EXCEPT !.at = "mark"]]
    BY <1>7 DEF FinishJob
  <2>2. /\ runner'[w].at = "mark" /\ runner'[w].job = j /\ runner'[w].stage = runner[w].stage
        /\ runner'[w].kind = runner[w].kind /\ runner'[w].today = runner[w].today
        /\ \A v \in Runners \ {w} : runner'[v] = runner[v]
    BY <1>1, <2>1 DEF Processes
  <2>3. AtWork(w)'
    BY <1>2, <1>3, <1>5, <1>6, <1>7, <2>2 DEF AtWork, Answered
  <2> QED
    BY <1>2, <1>3, <1>5, <2>2, <2>3, WorkKeeps DEF Sound
<1>8. CASE ~(w = "timer" /\ runner[w].kind = "backup")
  <2>1. runner' = [runner EXCEPT ![w] = AtRest]
    BY <1>8 DEF FinishJob
  <2>2. runner'[w] = AtRest /\ \A v \in Runners \ {w} : runner'[v] = runner[v]
    BY <1>1, <2>1
  <2>3. Sound(w)' /\ runner'[w].job = 0
    BY <2>2, Rests DEF Sound
  <2> QED
    BY <1>2, <1>3, <1>5, <2>2, <2>3, WorkKeeps
<1> QED
  BY <1>7, <1>8

(* What is marked is the day of the job that was just answered.            *)
LEMMA MarkKeeps == ASSUME FleetTypeOK, FleetInv, Mark PROVE FleetInv'
<1>1. runner \in [Runners -> Processes] /\ "timer" \in Runners
  BY DEF FleetTypeOK, Runners
<1>2. Answered(runner["timer"].job, runner["timer"].today) /\ runner["timer"].job \in DOMAIN jobs
  BY <1>1 DEF Mark, FleetInv, Sound, AtWork
<1>3. DayIsBackedUp'
  BY <1>2 DEF Mark, DayIsBackedUp, Answered
<1> DEFINE p == IF runner["timer"].analyse THEN [AtRest EXCEPT !.at = "create", !.kind = "analysis"] ELSE AtRest
<1>4. runner' = [runner EXCEPT !["timer"] = p]
  BY <1>1 DEF Mark
<1>5. p.job = 0 /\ p.at \in {"off", "create"}
  BY Rests DEF Processes
<1> HIDE DEF p
<1> QED
  BY <1>1, <1>3, <1>4, <1>5, RestKeeps DEF Mark

(* Every step of the fleet jobs keeps the invariant.                       *)
LEMMA FleetStep == ASSUME FleetTypeOK, FleetInv, [FleetNext]_fleetVars PROVE FleetInv'
<1>1. CASE UNCHANGED <<marked, jobs, abandoned, runner>>
  BY <1>1 DEF FleetInv, Sound, AtWork, Answered, Apart, DayIsBackedUp
<1>2. ASSUME NEW j \in DOMAIN jobs, Abandon(j) PROVE FleetInv'
  <2>1. UNCHANGED <<marked, jobs, runner>> /\ \A w \in Runners : runner[w].job # j
    BY <1>2 DEF Abandon
  <2>2. \A w \in Runners : Sound(w)'
    BY <1>2, <2>1, Untouched DEF Abandon
  <2>3. Apart' /\ DayIsBackedUp'
    BY <2>1 DEF FleetInv, Apart, DayIsBackedUp
  <2> QED
    BY <2>2, <2>3 DEF FleetInv
<1>3. ASSUME NEW kind \in {"backup", "analysis"}, Press(kind) PROVE FleetInv'
  <2> DEFINE p == [AtRest EXCEPT !.at = "create", !.kind = kind]
  <2>1. runner' = [runner EXCEPT !["page"] = p] /\ UNCHANGED <<marked, jobs, abandoned>> /\ "page" \in Runners
    BY <1>3 DEF Press, Runners
  <2>2. p.job = 0 /\ p.at = "create"
    BY Rests DEF Processes
  <2> HIDE DEF p
  <2>3. DayIsBackedUp'
    BY <2>1 DEF FleetInv, DayIsBackedUp
  <2> QED
    BY <2>1, <2>2, <2>3, RestKeeps
<1>4. ASSUME NEW w \in Runners, NoRow(w) \/ Kill(w) PROVE FleetInv'
  <2>1. runner' = [runner EXCEPT ![w] = AtRest] /\ UNCHANGED <<marked, jobs, abandoned>>
    BY <1>4 DEF NoRow, Kill
  <2>2. DayIsBackedUp'
    BY <2>1 DEF FleetInv, DayIsBackedUp
  <2> QED
    BY <2>1, <2>2, Rests, RestKeeps
<1> QED
  BY <1>1, <1>2, <1>3, <1>4, TickKeeps, CreateKeeps, StartKeeps, VisitKeeps, FinishKeeps, MarkKeeps
  DEF FleetNext, RunStep, fleetVars, Evening, Midnight, Free

(* The types and the invariant of the fleet jobs.                          *)
LEMMA FleetInvariant == FleetSpec => [](FleetTypeOK /\ FleetInv)
<1>1. FleetInit => FleetTypeOK /\ FleetInv
  <2> SUFFICES ASSUME FleetInit PROVE FleetTypeOK /\ FleetInv
    OBVIOUS
  <2>1. runner \in [Runners -> Processes] /\ \A w \in Runners : runner[w].at = "off" /\ runner[w].job = 0
    BY Rests DEF FleetInit
  <2>2. kills \in 0..MaxKills
    BY FleetBounds DEF FleetInit
  <2>3. evening \in BOOLEAN
    BY DEF FleetInit
  <2>4. FleetTypeOK
    BY <2>1, <2>2, <2>3 DEF FleetInit, FleetTypeOK
  <2>5. FleetInv
    BY <2>1 DEF FleetInit, FleetInv, Sound, Apart, DayIsBackedUp
  <2> QED
    BY <2>4, <2>5
<1>2. FleetTypeOK /\ FleetInv /\ [FleetNext]_fleetVars => (FleetTypeOK /\ FleetInv)'
  BY FleetTypes, FleetStep
<1> QED
  BY <1>1, <1>2, PTL DEF FleetSpec

(* A day is marked as backed up only when one job of that day has a result *)
(* for every router, whatever ticks, midnights, buttons and deaths do.     *)
THEOREM DayBackedUp == FleetSpec => []DayIsBackedUp
<1>1. FleetInv => DayIsBackedUp
  BY DEF FleetInv
<1> QED
  BY <1>1, FleetInvariant, PTL

(* A fleet job that has ended, or was given up for dead, is never written  *)
(* again: its process is not alive to file a late result, since a run that *)
(* lives is taken to end within the six hours after which it is given up.  *)
THEOREM EndedStand == FleetSpec => [][\A j \in DOMAIN jobs : ~OpenJob(j) => jobs'[j] = jobs[j]]_fleetVars
<1>1. FleetTypeOK /\ FleetInv /\ [FleetNext]_fleetVars
        => [\A j \in DOMAIN jobs : ~OpenJob(j) => jobs'[j] = jobs[j]]_fleetVars
  <2> SUFFICES ASSUME FleetTypeOK, FleetInv, FleetNext, NEW j \in DOMAIN jobs, ~OpenJob(j)
               PROVE  jobs'[j] = jobs[j]
    OBVIOUS
  <2>1. jobs \in Seq(JobRows)
    BY DEF FleetTypeOK
  <2>2. CASE Tick
    BY <2>2 DEF Tick, Recovered
  <2>3. ASSUME NEW w \in Runners, Create(w) PROVE jobs'[j] = jobs[j]
    <3> DEFINE row == [kind |-> runner[w].kind, status |-> "queued", for |-> runner[w].today,
                       total |-> 0, results |-> NoStages]
    <3>1. jobs' = Append(jobs, row) /\ row \in JobRows
      BY <2>3, Nothing DEF Create, FleetTypeOK, JobRows, Processes
    <3> HIDE DEF row
    <3> QED
      BY <2>1, <3>1, Grown
  <2>4. ASSUME NEW w \in Runners, Start(w) \/ Visit(w) \/ FinishJob(w) PROVE jobs'[j] = jobs[j]
    <3>1. runner[w].at \in {"start", "ask"}
      BY <2>4 DEF Start, Visit, Take, Reply, FinishJob
    <3>2. AtWork(w)
      BY <3>1 DEF FleetInv, Sound
    <3>3. runner[w].job # j
      BY <3>1, <3>2 DEF AtWork, OpenJob
    <3> QED
      BY <2>1, <2>4, <3>3 DEF Start, Visit, Take, Reply, File, FinishJob
  <2>5. CASE UNCHANGED jobs
    BY <2>5
  <2> QED
    BY <2>2, <2>3, <2>4, <2>5 DEF FleetNext, RunStep, Evening, Midnight, Mark, Abandon, Free, Press, NoRow, Kill
<1> QED
  BY <1>1, FleetInvariant, PTL DEF FleetSpec

---------------------------------------------------------------------------------
(* Whichever kind of work a behaviour of the whole follows, it is a        *)
(* behaviour of each kind's own specification.                             *)
THEOREM Separate == Spec => QueueSpec /\ ChecksSpec /\ FleetSpec
<1>1. Init => QueueInit /\ ChecksInit /\ FleetInit
  BY DEF Init
<1>2. [Next]_vars => [QueueNext]_queueVars /\ [ChecksNext]_checksVars /\ [FleetNext]_fleetVars
  BY DEF Next, vars, Analysing, Checking, BackingUp
<1> QED
  BY <1>1, <1>2, PTL DEF Spec, QueueSpec, ChecksSpec, FleetSpec

(* The safety properties of the background work, of the specification that *)
(* is model-checked.                                                       *)
THEOREM BackgroundSafe == Spec => [](OneOpenAnalysis /\ VerifiedOnce /\ DayIsBackedUp)
BY Separate, OneOpen, VerifiedOnceAlways, DayBackedUp, PTL
=================================================================================
