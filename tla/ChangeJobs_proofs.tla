-------------------------- MODULE ChangeJobs_proofs --------------------------
(* Theorems about the change engine, for any fleet, any number of requests *)
(* and any number of process deaths.                                       *)
EXTENDS ChangeJobs, TLAPS

USE NoRequestAssumption, MaxCrashesAssumption

-------------------------------------------------------------------------------
(* What a step does to the job table.                                      *)

(* A move of the job table keeps the type of its statuses.                 *)
LEMMA TransitionType ==
  ASSUME TypeOK, NEW q \in Requests, NEW s \in Active \cup Final, Transition(q, s)
  PROVE  job' \in [Requests -> {"absent"} \cup Active \cup Final]
BY DEF TypeOK, Transition

(* The clean-up of a handler always leads to a step of the handler.        *)
LEMMA CleanupType ==
  ASSUME NEW q \in Requests, NEW s
  PROVE  Cleanup(q, s) \in {"failJob", "failTx", "done"}
BY DEF Cleanup

-------------------------------------------------------------------------------
(* Types.                                                                  *)

(* The initial state is well typed.                                        *)
LEMMA TypeInit == Init => TypeOK
BY DEF Init, TypeOK, Flows, Steps, WorkerSteps, Active, Final

(* The steps of a handler keep the types.                                  *)
LEMMA TypeHandler ==
  ASSUME TypeOK, NEW q \in Requests, Start(q) \/ HandlerStep(q) \/ Crash(q) \/ Expire(q)
  PROVE  TypeOK'
<1> USE DEF TypeOK, HandlerOnly, HandlerGoto, HandlerAt, Steps, Active, Final,
            request, transaction, payload, worker, histories
<1>1. CASE Start(q)
  BY <1>1 DEF Start
<1>2. CASE Create(q)
  BY <1>2, CleanupType DEF Create
<1>3. CASE Run(q)
  BY <1>3, TransitionType DEF Run
<1>4. CASE Begin(q)
  BY <1>4 DEF Begin, OpenTrans
<1>5. CASE Attach(q)
  BY <1>5 DEF Attach
<1>6. CASE Apply(q)
  BY <1>6 DEF Apply
<1>7. CASE Verifying(q)
  BY <1>7, TransitionType DEF Verifying
<1>8. CASE Verify(q)
  BY <1>8, CleanupType DEF Verify
<1>9. CASE Commit(q)
  BY <1>9 DEF Commit, Finish
<1>10. CASE Succeed(q)
  BY <1>10, TransitionType DEF Succeed
<1>11. CASE FailJob(q)
  BY <1>11, CleanupType DEF FailJob
<1>12. CASE FailTx(q)
  BY <1>12, CleanupType DEF FailTx, Fail
<1>13. CASE Raise(q)
  BY <1>13, CleanupType DEF Raise
<1>14. CASE Crash(q)
  BY <1>14 DEF Crash
<1>15. CASE Expire(q)
  BY <1>15 DEF Expire
<1> QED
  BY <1>1, <1>2, <1>3, <1>4, <1>5, <1>6, <1>7, <1>8, <1>9, <1>10, <1>11, <1>12,
     <1>13, <1>14, <1>15 DEF HandlerStep

(* The steps of the change lane keep the types.                            *)
LEMMA TypeWorker ==
  ASSUME TypeOK, WorkerStep \/ WorkerCrash
  PROVE  TypeOK'
<1> USE DEF TypeOK, WorkerOnly, WorkerGoto, WorkerTake, WorkerRest, WorkerAt, WorkerSteps,
            Active, Final, request, transaction, payload, worker, histories
<1>1. CASE Recover
  BY <1>1 DEF Recover
<1>2. CASE PickNothing
  BY <1>2 DEF PickNothing
<1>3. CASE \E q \in Requests : PickQueued(q)
  BY <1>3, TransitionType DEF PickQueued
<1>4. CASE \E q \in Requests : PickStarted(q)
  BY <1>4, TransitionType DEF PickStarted
<1>5. CASE Claim
  BY <1>5, TransitionType DEF Claim
<1>6. CASE WorkerBegin
  BY <1>6 DEF WorkerBegin, OpenTrans
<1>7. CASE Save
  BY <1>7 DEF Save
<1>8. CASE Dispatch
  BY <1>8 DEF Dispatch
<1>9. CASE Confirm
  BY <1>9, TransitionType DEF Confirm
<1>10. CASE SampleLost
  BY <1>10, TransitionType DEF SampleLost
<1>11. CASE SampleBack
  BY <1>11 DEF SampleBack
<1>12. CASE Check
  BY <1>12 DEF Check
<1>13. CASE WorkerSucceed
  BY <1>13, TransitionType DEF WorkerSucceed
<1>14. CASE WorkerCommit
  BY <1>14 DEF WorkerCommit, Finish
<1>15. CASE WorkerRaise
  BY <1>15 DEF WorkerRaise
<1>16. CASE WorkerFailTx
  BY <1>16 DEF WorkerFailTx, Fail
<1>17. CASE WorkerFailJob
  BY <1>17 DEF WorkerFailJob
<1>18. CASE WorkerCrash
  BY <1>18 DEF WorkerCrash
<1> QED
  BY <1>1, <1>2, <1>3, <1>4, <1>5, <1>6, <1>7, <1>8, <1>9, <1>10, <1>11, <1>12,
     <1>13, <1>14, <1>15, <1>16, <1>17, <1>18 DEF WorkerStep

(* Every step of the system keeps the types.                               *)
LEMMA TypeStep == TypeOK /\ [Next]_vars => TypeOK'
<1> SUFFICES ASSUME TypeOK, [Next]_vars PROVE TypeOK'
  OBVIOUS
<1>1. CASE UNCHANGED vars
  BY <1>1 DEF vars, TypeOK
<1> QED
  BY <1>1, TypeHandler, TypeWorker DEF Next

(* Every variable of the change engine keeps its type, and the change lane *)
(* holds a job exactly while it works on one.                              *)
THEOREM TypeCorrect == Spec => []TypeOK
BY TypeInit, TypeStep, PTL DEF Spec

-------------------------------------------------------------------------------
(* The inductive invariant.                                                *)

(* The initial state satisfies the invariant.                              *)
LEMMA IndInit == Init => IInv
BY DEF Init, IInv, OneJobPerRouter, OneUpgrade, Upgrading, SuccessIsEarned, WorkerRows,
       HandlerRows, ChangeRows, CommandCounts, TransInHand, Active, Final, Flows

(* The steps of a handler keep the invariant.                              *)
LEMMA IndHandler ==
  ASSUME TypeOK, IInv, NEW q \in Requests, Start(q) \/ HandlerStep(q) \/ Crash(q) \/ Expire(q)
  PROVE  IInv'
<1> USE DEF TypeOK, IInv, OneJobPerRouter, OneUpgrade, Upgrading, SuccessIsEarned, WorkerRows,
       HandlerRows, ChangeRows, CommandCounts, TransInHand, Active, Final, Flows,
       HandlerOnly, HandlerGoto, HandlerAt, Steps, request, transaction, payload, worker, histories
<1>1. CASE Start(q)
  BY <1>1 DEF Start
<1>2. CASE Create(q)
  BY <1>2 DEF Create, MayReserve, RouterBusy, UpgradeActive, Cleanup, Unguarded, AfterScope
<1>3. CASE Run(q)
  BY <1>3 DEF Run, Transition, CanMove, Moves
<1>4. CASE Begin(q)
  <2>1. linked' = [linked EXCEPT ![q] = (flow[q] # "repair")] /\ trans' = [trans EXCEPT ![q] = "running"]
    BY <1>4 DEF Begin, OpenTrans
  <2>2. flow[q] = "change" => linked'[q] = TRUE
    BY <2>1, ZenonT(40)
  <2>3. \A p \in Requests \ {q} : linked'[p] = linked[p] /\ trans'[p] = trans[p]
    BY <2>1
  <2>4. trans'[q] = "running"
    BY <2>1
  <2> QED
    BY <1>4, <2>2, <2>3, <2>4 DEF Begin
<1>5. CASE Attach(q)
  BY <1>5 DEF Attach
<1>6. CASE Apply(q)
  BY <1>6 DEF Apply
<1>7. CASE Verifying(q)
  BY <1>7 DEF Verifying, Transition, CanMove, Moves
<1>8. CASE Verify(q)
  BY <1>8 DEF Verify, Cleanup, Unguarded, AfterScope
<1>9. CASE Commit(q)
  BY <1>9 DEF Commit, Finish
<1>10. CASE Succeed(q)
  BY <1>10 DEF Succeed, Transition, CanMove, Moves
<1>11. CASE FailJob(q)
  BY <1>11 DEF FailJob, CanMove, Moves, Cleanup, Unguarded, AfterScope
<1>12. CASE FailTx(q)
  BY <1>12 DEF FailTx, Fail, Cleanup, Unguarded, AfterScope
<1>13. CASE Raise(q)
  BY <1>13 DEF Raise, Cleanup, Unguarded, AfterScope
<1>14. CASE Crash(q)
  BY <1>14 DEF Crash
<1>15. CASE Expire(q)
  BY <1>15 DEF Expire
<1> QED
  BY <1>1, <1>2, <1>3, <1>4, <1>5, <1>6, <1>7, <1>8, <1>9, <1>10, <1>11, <1>12,
     <1>13, <1>14, <1>15 DEF HandlerStep

(* The steps of the change lane keep the invariant.                        *)
LEMMA IndWorker ==
  ASSUME TypeOK, IInv, WorkerStep \/ WorkerCrash
  PROVE  IInv'
<1> USE DEF TypeOK, IInv, OneJobPerRouter, OneUpgrade, Upgrading, SuccessIsEarned, WorkerRows,
       HandlerRows, ChangeRows, CommandCounts, TransInHand, Active, Final, Flows, WorkerOnly,
       WorkerGoto, WorkerTake, WorkerRest, WorkerAt, WorkerSteps, request, transaction, payload,
       worker, histories
<1>1. CASE Recover
  BY <1>1 DEF Recover, Stale
<1>2. CASE PickNothing
  BY <1>2 DEF PickNothing
<1>3. CASE \E q \in Requests : PickQueued(q)
  BY <1>3 DEF PickQueued, Transition, CanMove, Moves
<1>4. CASE \E q \in Requests : PickStarted(q)
  BY <1>4 DEF PickStarted, Transition, CanMove, Moves
<1>5. CASE Claim
  BY <1>5 DEF Claim, Transition, CanMove, Moves
<1>6. CASE WorkerBegin
  BY <1>6 DEF WorkerBegin, OpenTrans
<1>7. CASE Save
  BY <1>7 DEF Save
<1>8. CASE Dispatch
  BY <1>8 DEF Dispatch
<1>9. CASE Confirm
  BY <1>9 DEF Confirm, Transition, CanMove, Moves
<1>10. CASE SampleLost
  BY <1>10 DEF SampleLost, Transition, CanMove, Moves
<1>11. CASE SampleBack
  BY <1>11 DEF SampleBack
<1>12. CASE Check
  BY <1>12 DEF Check, HealthyNeeded
<1>13. CASE WorkerSucceed
  BY <1>13 DEF WorkerSucceed, Transition, CanMove, Moves
<1>14. CASE WorkerCommit
  BY <1>14 DEF WorkerCommit, Finish
<1>15. CASE WorkerRaise
  BY <1>15 DEF WorkerRaise
<1>16. CASE WorkerFailTx
  BY <1>16 DEF WorkerFailTx, Fail
<1>17. CASE WorkerFailJob
  BY <1>17 DEF WorkerFailJob, CanMove, Moves
<1>18. CASE WorkerCrash
  BY <1>18 DEF WorkerCrash
<1> QED
  BY <1>1, <1>2, <1>3, <1>4, <1>5, <1>6, <1>7, <1>8, <1>9, <1>10, <1>11, <1>12,
     <1>13, <1>14, <1>15, <1>16, <1>17, <1>18 DEF WorkerStep

(* Every step of the system keeps the invariant.                           *)
LEMMA IndStep == TypeOK /\ IInv /\ [Next]_vars => IInv'
<1> SUFFICES ASSUME TypeOK, IInv, [Next]_vars PROVE IInv'
  OBVIOUS
<1> USE DEF IInv, OneJobPerRouter, OneUpgrade, Upgrading, SuccessIsEarned, WorkerRows,
       HandlerRows, ChangeRows, CommandCounts, TransInHand
<1>1. CASE UNCHANGED vars
  BY <1>1 DEF vars
<1> QED
  BY <1>1, IndHandler, IndWorker DEF Next

(* What holds between any two steps of the handlers, of the change lane    *)
(* and of recovery.                                                        *)
THEOREM Invariance == Spec => [](TypeOK /\ IInv)
<1>1. Init => TypeOK /\ IInv
  BY TypeInit, IndInit
<1>2. TypeOK /\ IInv /\ [Next]_vars => (TypeOK /\ IInv)'
  BY TypeStep, IndStep
<1> QED
  BY <1>1, <1>2, PTL DEF Spec

-------------------------------------------------------------------------------
(* Safety.                                                                 *)

(* No two processes ever send commands to one router at a time, whatever   *)
(* they are and wherever a process died (jobs.create, recovery).           *)
THEOREM CommandsExclusive == Spec => []ExclusiveCommands
<1>1. TypeOK /\ IInv => ExclusiveCommands
  <2> SUFFICES ASSUME TypeOK, IInv, NEW p \in Requests, NEW q \in Requests,
                      Commanding(p), Commanding(q), router[p] = router[q]
               PROVE  p = q
    BY DEF ExclusiveCommands
  <2>1. ASSUME NEW r \in Requests, Commanding(r) PROVE job[r] \in Active
    BY <2>1, NoRequestAssumption
       DEF Commanding, HandlerCommands, WorkerCommands, IInv, HandlerRows, WorkerRows, Active
  <2> QED
    BY <2>1 DEF IInv, OneJobPerRouter
<1> QED
  BY <1>1, Invariance, PTL

(* At most one active job per router and one active upgrade per fleet.     *)
THEOREM ReservationsHold == Spec => [](OneJobPerRouter /\ OneUpgrade)
<1>1. IInv => OneJobPerRouter /\ OneUpgrade
  BY DEF IInv
<1> QED
  BY <1>1, Invariance, PTL

(* No change command is sent twice for one job, whatever dies and resumes. *)
THEOREM CommandsOnce == Spec => []AppliedOnce
<1>1. IInv => AppliedOnce
  BY DEF IInv, CommandCounts, AppliedOnce
<1> QED
  BY <1>1, Invariance, PTL

(* A change, a scoped change and a repair report success only after their  *)
(* command and the commit of their transaction; an upgrade only after two  *)
(* healthy samples in all, its transaction being committed afterwards.     *)
THEOREM SuccessEarned == Spec => []SuccessIsEarned
<1>1. IInv => SuccessIsEarned
  BY DEF IInv
<1> QED
  BY <1>1, Invariance, PTL

(* A finished profile or rescue job never leaves its transaction running.  *)
THEOREM ChangeCloses == Spec => []ChangeClosesTogether
<1>1. IInv => ChangeClosesTogether
  BY DEF IInv, ChangeRows, TransInHand, ChangeClosesTogether, Final
<1> QED
  BY <1>1, Invariance, PTL

-------------------------------------------------------------------------------
(* Verdicts.                                                               *)

Stand == \A q \in Requests :
           /\ job[q] \in Final => job'[q] = job[q]
           /\ trans[q] \in Final => trans'[q] = trans[q]

(* A move of the job table leaves every final status alone.                *)
LEMMA TransitionStands ==
  ASSUME TypeOK, NEW q \in Requests, NEW s, Transition(q, s)
  PROVE  \A p \in Requests : job[p] \in Final => job'[p] = job[p]
BY DEF TypeOK, Transition, CanMove, Moves, Final

(* No step of a handler overwrites a verdict.                              *)
LEMMA StandHandler ==
  ASSUME TypeOK, IInv, NEW q \in Requests, Start(q) \/ HandlerStep(q) \/ Crash(q) \/ Expire(q)
  PROVE  Stand
<1> USE DEF Stand, TypeOK, IInv, HandlerRows, TransInHand, Final, HandlerAt, transaction
<1>1. CASE Create(q)
  BY <1>1 DEF Create
<1>2. CASE Run(q) \/ Verifying(q) \/ Succeed(q)
  BY <1>2, TransitionStands DEF Run, Verifying, Succeed
<1>3. CASE Begin(q) \/ Attach(q) \/ Commit(q) \/ FailTx(q)
  BY <1>3 DEF Begin, OpenTrans, Attach, Commit, Finish, FailTx, Fail
<1>4. CASE FailJob(q)
  BY <1>4 DEF FailJob, CanMove, Moves
<1>5. CASE Start(q) \/ Apply(q) \/ Verify(q) \/ Raise(q) \/ Crash(q) \/ Expire(q)
  BY <1>5 DEF Start, Apply, Verify, Raise, Crash, Expire
<1> QED
  BY <1>1, <1>2, <1>3, <1>4, <1>5 DEF HandlerStep

(* No step of the change lane or of recovery overwrites a verdict.         *)
LEMMA StandWorker ==
  ASSUME TypeOK, IInv, WorkerStep \/ WorkerCrash
  PROVE  Stand
<1> USE DEF Stand, TypeOK, IInv, WorkerRows, Final, WorkerAt, transaction
<1>1. CASE Recover
  BY <1>1 DEF Recover, Stale, Active
<1>2. CASE \E q \in Requests : PickQueued(q) \/ PickStarted(q)
  BY <1>2, TransitionStands DEF PickQueued, PickStarted
<1>3. CASE Claim \/ Confirm \/ WorkerSucceed \/ SampleLost
  BY <1>3, TransitionStands DEF Claim, Confirm, WorkerSucceed, SampleLost
<1>4. CASE WorkerBegin \/ WorkerCommit \/ WorkerFailTx
  BY <1>4 DEF WorkerBegin, OpenTrans, WorkerCommit, Finish, WorkerFailTx, Fail
<1>5. CASE WorkerFailJob
  BY <1>5 DEF WorkerFailJob, CanMove, Moves
<1>6. CASE PickNothing \/ Save \/ Dispatch \/ SampleBack \/ Check \/ WorkerRaise \/ WorkerCrash
  BY <1>6 DEF PickNothing, Save, Dispatch, SampleBack, Check, WorkerRaise, WorkerCrash
<1> QED
  BY <1>1, <1>2, <1>3, <1>4, <1>5, <1>6 DEF WorkerStep

(* The verdict of a job and of a transaction is never overwritten, by the  *)
(* clean-up of a handler, the change lane or recovery.                     *)
THEOREM Verdicts == Spec => VerdictsStand
<1>1. ASSUME TypeOK, IInv, [Next]_vars PROVE [Stand]_vars
  BY <1>1, StandHandler, StandWorker DEF Next
<1> QED
  BY <1>1, Invariance, PTL DEF Spec, VerdictsStand, Stand

-------------------------------------------------------------------------------
(* The job table implements the reservation.                               *)

(* A job keeps its status, moves on while active, or ends.                 *)
Settles ==
  /\ UNCHANGED <<flow, router>>
  /\ \A q \in Requests : job'[q] # job[q] =>
       job[q] \in Active /\ job'[q] \in Active \cup Final

(* Such a step gives back the reservations of the jobs that end.           *)
LEMMA SettleGivesBack ==
  ASSUME TypeOK, TypeOK', Settles
  PROVE  Reservation!Next
<1> DEFINE S == {q \in Requests : job[q] \in Active /\ job'[q] \in Final}
<1>1. \A q \in S : Phase[q] = "holding"
  BY DEF Phase, Active
<1>2. Phase' = [q \in Requests |-> IF q \in S THEN "over" ELSE Phase[q]]
  BY DEF Phase, Settles, TypeOK, Active, Final
<1>3. UNCHANGED <<router, {q \in Requests : flow[q] = "upgrade"}>>
  BY DEF Settles
<1>4. Reservation!GiveBack(S)
  BY <1>1, <1>2, <1>3 DEF Reservation!GiveBack
<1> QED
  BY <1>4 DEF Reservation!Next

(* The INSERT of jobs.create takes the reservation.                        *)
LEMMA CreateReserves ==
  ASSUME TypeOK, IInv, NEW q \in Requests, Create(q), MayReserve(q)
  PROVE  Reservation!Next
<1> USE DEF Create, HandlerOnly, request
<1>1. Phase[q] = "waiting"
  BY DEF HandlerAt, IInv, HandlerRows, Phase
<1>2. \A p \in Requests : Phase[p] = "holding" => job[p] \in Active
  BY DEF Phase, TypeOK
<1>3. \A p \in Requests : Phase[p] = "holding" => ~Reservation!Conflict(p, q)
  BY <1>2 DEF MayReserve, RouterBusy, UpgradeActive, Reservation!Conflict
<1>4. Phase' = [Phase EXCEPT ![q] = "holding"]
  BY DEF Phase, TypeOK, Active
<1>5. UNCHANGED <<router, {p \in Requests : flow[p] = "upgrade"}>>
  OBVIOUS
<1>6. Reservation!Reserve(q)
  BY <1>1, <1>3, <1>4, <1>5 DEF Reservation!Reserve
<1> QED
  BY <1>6 DEF Reservation!Next

(* A move of the job table settles it.                                     *)
LEMMA TransitionSettles ==
  ASSUME TypeOK, NEW q \in Requests, NEW s, Transition(q, s), UNCHANGED <<flow, router>>
  PROVE  Settles
BY DEF TypeOK, Transition, CanMove, Moves, Active, Final, Settles

(* Every other step of a handler settles the job table.                    *)
LEMMA HandlerSettles ==
  ASSUME TypeOK, IInv, NEW q \in Requests, Start(q) \/ HandlerStep(q) \/ Crash(q) \/ Expire(q),
         ~(Create(q) /\ MayReserve(q))
  PROVE  Settles
<1> USE DEF HandlerOnly, request
<1>1. CASE Create(q)
  BY <1>1 DEF Create, Settles
<1>2. CASE Run(q) \/ Verifying(q) \/ Succeed(q)
  BY <1>2, TransitionSettles DEF Run, Verifying, Succeed
<1>3. CASE FailJob(q)
  BY <1>3 DEF FailJob, CanMove, Moves, Settles, TypeOK, Active, Final
<1>4. CASE Begin(q) \/ Attach(q) \/ Commit(q) \/ FailTx(q)
  BY <1>4 DEF Begin, Attach, Commit, FailTx, Settles
<1>5. CASE Start(q) \/ Apply(q) \/ Verify(q) \/ Raise(q) \/ Crash(q) \/ Expire(q)
  BY <1>5 DEF Start, Apply, Verify, Raise, Crash, Expire, Settles
<1> QED
  BY <1>1, <1>2, <1>3, <1>4, <1>5 DEF HandlerStep

(* Every step of the change lane and of recovery settles the job table.    *)
LEMMA WorkerSettles ==
  ASSUME TypeOK, IInv, WorkerStep \/ WorkerCrash
  PROVE  Settles
<1> USE DEF WorkerOnly, request
<1>1. CASE Recover
  BY <1>1 DEF Recover, Stale, Active, Final, Settles
<1>2. CASE \E q \in Requests : PickQueued(q) \/ PickStarted(q)
  BY <1>2, TransitionSettles DEF PickQueued, PickStarted, Settles
<1>3. CASE Claim \/ Confirm \/ WorkerSucceed \/ SampleLost
  <2>1. held \in Requests
    BY <1>3 DEF TypeOK, WorkerAt, Claim, Confirm, WorkerSucceed, SampleLost
  <2> QED
    BY <1>3, <2>1, TransitionSettles DEF Claim, Confirm, WorkerSucceed, SampleLost, Settles
<1>4. CASE WorkerFailJob
  BY <1>4 DEF WorkerFailJob, WorkerAt, CanMove, Moves, Settles, TypeOK, Active, Final
<1>5. CASE WorkerBegin \/ WorkerCommit \/ WorkerFailTx
  BY <1>5 DEF WorkerBegin, WorkerCommit, WorkerFailTx, Settles
<1>6. CASE PickNothing \/ Save \/ Dispatch \/ SampleBack \/ Check \/ WorkerRaise \/ WorkerCrash
  BY <1>6 DEF PickNothing, Save, Dispatch, SampleBack, Check, WorkerRaise, WorkerCrash, Settles
<1> QED
  BY <1>1, <1>2, <1>3, <1>4, <1>5, <1>6 DEF WorkerStep

(* The job table implements the reservation its callers rely on: exclusive *)
(* per router, one upgrade at a time, never taken up again once given back.*)
THEOREM Implements == Spec => ReservationSpec
<1>1. Init => Reservation!Init
  BY DEF Init, Phase, Reservation!Init
<1>2. ASSUME TypeOK, TypeOK', IInv, [Next]_vars
      PROVE  [Reservation!Next]_(Reservation!vars)
  <2>1. CASE UNCHANGED vars
    BY <2>1 DEF vars, Phase, Reservation!vars
  <2>2. ASSUME NEW q \in Requests, Start(q) \/ HandlerStep(q) \/ Crash(q) \/ Expire(q)
        PROVE  Reservation!Next
    BY <1>2, <2>2, CreateReserves, HandlerSettles, SettleGivesBack
  <2>3. CASE WorkerStep \/ WorkerCrash
    BY <1>2, <2>3, WorkerSettles, SettleGivesBack
  <2> QED
    BY <1>2, <2>1, <2>2, <2>3 DEF Next
<1> QED
  BY <1>1, <1>2, Invariance, PTL DEF Spec, ReservationSpec, Reservation!Spec

(* Whatever keeps to the promise excludes: a reservation is the only one   *)
(* of its router and, for an upgrade, the only upgrade of the fleet.       *)
THEOREM Exclusion == ReservationSpec => []Reservation!Exclusive
<1>1. Reservation!Init => Reservation!TypeOK /\ Reservation!Exclusive
  BY DEF Reservation!Init, Reservation!TypeOK, Reservation!Exclusive
<1>2. Reservation!TypeOK /\ Reservation!Exclusive /\ [Reservation!Next]_(Reservation!vars)
      => (Reservation!TypeOK /\ Reservation!Exclusive)'
  <2> SUFFICES ASSUME Reservation!TypeOK, Reservation!Exclusive, [Reservation!Next]_(Reservation!vars)
               PROVE  (Reservation!TypeOK /\ Reservation!Exclusive)'
    OBVIOUS
  <2> USE DEF Reservation!TypeOK, Reservation!Exclusive, Reservation!Conflict
  <2>1. ASSUME NEW q \in Requests, Reservation!Reserve(q)
        PROVE  (Reservation!TypeOK /\ Reservation!Exclusive)'
    BY <2>1 DEF Reservation!Reserve
  <2>2. ASSUME NEW S \in SUBSET Requests, Reservation!GiveBack(S)
        PROVE  (Reservation!TypeOK /\ Reservation!Exclusive)'
    BY <2>2 DEF Reservation!GiveBack
  <2>3. CASE UNCHANGED Reservation!vars
    BY <2>3 DEF Reservation!vars
  <2> QED
    BY <2>1, <2>2, <2>3 DEF Reservation!Next
<1> QED
  BY <1>1, <1>2, PTL DEF ReservationSpec, Reservation!Spec
===============================================================================
