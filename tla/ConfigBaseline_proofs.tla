-------------------------- MODULE ConfigBaseline_proofs --------------------------
(***************************************************************************)
(* What is proved of ConfigBaseline, for any configurations, edits and     *)
(* deaths: its types, and that what the hub claims of a router is backed.  *)
(***************************************************************************)
EXTENDS ConfigBaseline, TLAPS

USE BaselineBounds

Records == [baseline : Configs \union {NoConfig}, drifted : BOOLEAN,
            commissioning : {"unknown", "passed", "partial", "failed"}, backup : BOOLEAN]

(* A reading is only ever compared with a baseline, so the flag is Boolean. *)
LEMMA FlagTypes ==
  ASSUME TypeOK, NEW w, WriteFlag(w)
  PROVE  /\ expected' \in Records
         /\ expected'.baseline = expected.baseline /\ expected'.backup = expected.backup
         /\ expected'.commissioning = expected.commissioning
<1>1. Drifted(w) \in BOOLEAN
  BY Zenon DEF Drifted
<1>2. expected \in Records
  BY DEF TypeOK, Records
<1> QED
  BY <1>1, <1>2 DEF WriteFlag, Records

(* Whoever writes the expected state writes what it has read. *)
LEMMA ExpectedTypes ==
  ASSUME TypeOK, [Next]_vars PROVE expected' \in Records
<1> USE DEF TypeOK, Records
<1>1. CASE LaneWrite \/ PageWrite
  BY <1>1, FlagTypes DEF LaneWrite, PageWrite
<1>2. CASE AcceptReplace
  BY <1>2 DEF AcceptReplace, Requests
<1>3. CASE CommissionBackup \/ CommissionDemote
  BY <1>3 DEF CommissionBackup, CommissionDemote
<1>4. ASSUME NEW v \in {"passed", "partial", "failed"}, CommissionVerdict(v)
      PROVE  expected' \in Records
  BY <1>4 DEF CommissionVerdict
<1>5. CASE UNCHANGED expected
  BY <1>5
<1> QED
  BY <1>1, <1>2, <1>3, <1>4, <1>5 DEF Next, LaneStep, PageStep, records, router, vars,
     Edit, Assess, Reserve, Release, LanePick, LaneRead, LaneExport, LaneFails, PagePress,
     CommissionStart, PageRead, PageExport, AcceptExport, PageFails, PageDies,
     ChecklistRead, ChecklistWrite, SetState

(* The lane and the page stay in their steps. *)
LEMMA RequestTypes ==
  ASSUME TypeOK, [Next]_vars PROVE lane' \in Requests /\ page' \in Requests
<1>1. expected.baseline \in Configs \union {NoConfig} /\ running \in Configs
      /\ lane \in Requests /\ page \in Requests
  BY DEF TypeOK
<1> USE DEF Requests, Away
<1>2. CASE LanePick \/ LaneRead \/ LaneExport \/ LaneWrite \/ LaneFails
  BY <1>1, <1>2 DEF LanePick, LaneRead, LaneExport, LaneWrite, LaneFails, Read, Export
<1>3. CASE PageRead \/ PageExport \/ PageWrite \/ AcceptExport \/ AcceptReplace
  BY <1>1, <1>3 DEF PageRead, PageExport, PageWrite, AcceptExport, AcceptReplace, Read, Export
<1>4. CASE CommissionStart \/ CommissionBackup \/ CommissionDemote \/ PageFails \/ PageDies
  <2>1. /\ lane' = lane
        /\ \/ page' = [at |-> "probe", base |-> NoConfig, seen |-> NoConfig, why |-> "commission"]
           \/ page' = [page EXCEPT !.at = "accept"]
           \/ page' = [page EXCEPT !.at = "demote"]
           \/ page' = Away
    BY <1>4, Zenon DEF CommissionStart, CommissionBackup, CommissionDemote, PageFails, PageDies
  <2> QED
    BY <1>1, <2>1
<1>5. ASSUME NEW v \in {"passed", "partial", "failed"}, CommissionVerdict(v)
      PROVE  lane' \in Requests /\ page' \in Requests
  BY <1>1, <1>5 DEF CommissionVerdict
<1>6. ASSUME NEW at \in {"read", "accept"}, PagePress(at)
      PROVE  lane' \in Requests /\ page' \in Requests
  BY <1>1, <1>6 DEF PagePress
<1>7. CASE UNCHANGED <<lane, page>>
  BY <1>1, <1>7
<1> QED
  BY <1>2, <1>3, <1>4, <1>5, <1>6, <1>7 DEF Next, LaneStep, PageStep, vars,
     Edit, Assess, Reserve, Release, ChecklistRead, ChecklistWrite, SetState

(* The router, the bounds and the holder of the reservation keep their types. *)
LEMMA RouterTypes ==
  ASSUME TypeOK, [Next]_vars
  PROVE  /\ running' \in Configs /\ edits' \in 0..MaxEdits /\ losses' \in 0..MaxLosses
         /\ busy' \in {"nobody", "a change", "commission", "the dead"}
<1> USE DEF router
<1>1. ASSUME NEW c \in Configs, Edit(c) PROVE running' \in Configs /\ edits' \in 0..MaxEdits
  <2>1. running' = c /\ edits < MaxEdits /\ edits' = edits + 1
    BY <1>1, Zenon DEF Edit
  <2>2. edits \in 0..MaxEdits
    BY DEF TypeOK
  <2> QED
    BY <2>1, <2>2
<1>2. ASSUME PageDies
      PROVE  losses' \in 0..MaxLosses /\ busy' \in {"nobody", "a change", "commission", "the dead"}
  <2>1. losses' \in 0..MaxLosses
    <3>1. losses < MaxLosses /\ losses' = losses + 1
      BY <1>2, Zenon DEF PageDies
    <3>2. losses \in 0..MaxLosses
      BY DEF TypeOK
    <3> QED
      BY <3>1, <3>2
  <2>2. busy' \in {"nobody", "a change", "commission", "the dead"}
    <3>1. busy' \in {busy, "the dead"}
      BY <1>2, Zenon DEF PageDies
    <3>2. busy \in {"nobody", "a change", "commission", "the dead"}
      BY DEF TypeOK
    <3> QED
      BY <3>1, <3>2
  <2> QED
    BY <2>1, <2>2
<1>3. UNCHANGED <<running, edits>> \/ \E c \in Configs : Edit(c)
  BY DEF Next, LaneStep, PageStep, vars,
     Assess, Reserve, Release, LanePick, LaneRead, LaneExport, LaneWrite, LaneFails,
     PagePress, PageRead, PageExport, PageWrite, AcceptExport, AcceptReplace, PageFails,
     CommissionStart, CommissionVerdict, CommissionBackup, CommissionDemote, PageDies,
     ChecklistRead, ChecklistWrite, SetState
<1>4. \/ UNCHANGED losses /\ busy' \in {busy, "nobody", "a change", "commission"}
      \/ PageDies
  BY DEF Next, LaneStep, PageStep, vars,
     Edit, Assess, Reserve, Release, LanePick, LaneRead, LaneExport, LaneWrite, LaneFails,
     PagePress, PageRead, PageExport, PageWrite, AcceptExport, AcceptReplace, Left, PageFails,
     CommissionStart, CommissionVerdict, CommissionBackup, CommissionDemote,
     ChecklistRead, ChecklistWrite, SetState
<1> QED
  BY <1>1, <1>2, <1>3, <1>4 DEF TypeOK

(* Stages and snapshots keep their types. *)
LEMMA StageTypes ==
  ASSUME TypeOK, [Next]_vars
  PROVE  stage' \in Stages /\ snapshots' \subseteq Configs \union {NoConfig}
<1> USE DEF TypeOK, records, life
<1>1. ASSUME NEW s \in Stages, SetState(s) PROVE stage' \in Stages
  BY <1>1 DEF SetState
<1>2. CASE ChecklistWrite
  BY <1>2 DEF ChecklistWrite, Stages
<1>3. CASE LaneWrite \/ PageWrite \/ AcceptExport
  BY <1>3 DEF LaneWrite, PageWrite, AcceptExport, Requests
<1>4. \/ UNCHANGED stage \/ ChecklistWrite \/ \E s \in Stages : SetState(s)
  BY DEF Next, LaneStep, PageStep, vars,
     Edit, Assess, Reserve, Release, LanePick, LaneRead, LaneExport, LaneWrite, LaneFails,
     PagePress, PageRead, PageExport, PageWrite, AcceptExport, AcceptReplace, PageFails,
     CommissionStart, CommissionVerdict, CommissionBackup, CommissionDemote, PageDies,
     ChecklistRead
<1>5. \/ UNCHANGED snapshots \/ LaneWrite \/ PageWrite \/ AcceptExport
  BY DEF Next, LaneStep, PageStep, vars,
     Edit, Assess, Reserve, Release, LanePick, LaneRead, LaneExport, LaneFails,
     PagePress, PageRead, PageExport, AcceptReplace, PageFails,
     CommissionStart, CommissionVerdict, CommissionBackup, CommissionDemote, PageDies,
     ChecklistRead, ChecklistWrite, SetState
<1> QED
  BY <1>1, <1>2, <1>3, <1>4, <1>5

(* A commissioning verdict is a truth value. *)
LEMMA VerdictTypes == (running \in Good) \in BOOLEAN
OBVIOUS

(* The stored verdict and the history flags are truth values. *)
LEMMA FlagsTypes ==
  ASSUME TypeOK, [Next]_vars
  PROVE  verdict' \in BOOLEAN /\ promoted' \in BOOLEAN /\ checklist' \in BOOLEAN /\ cut' \in BOOLEAN
<1> USE DEF TypeOK
<1>1. CASE Assess
  <2>1. verdict' \in BOOLEAN
    <3>1. verdict' = (running \in Good)
      BY <1>1 DEF Assess
    <3> QED
      BY <3>1, VerdictTypes, Zenon
  <2>2. UNCHANGED <<promoted, checklist, cut>>
    BY <1>1 DEF Assess, life
  <2> QED
    BY <2>1, <2>2
<1>2. CASE PageDies
  <2>1. cut' \in BOOLEAN
    BY <1>2, Zenon DEF PageDies
  <2>2. UNCHANGED <<verdict, promoted, checklist>>
    BY <1>2 DEF PageDies, router, life
  <2> QED
    BY <2>1, <2>2
<1>3. CASE ChecklistRead \/ ChecklistWrite
  BY <1>3 DEF ChecklistRead, ChecklistWrite, router
<1>4. CASE UNCHANGED <<verdict, promoted, checklist, cut>>
  BY <1>4
<1> QED
  BY <1>1, <1>2, <1>3, <1>4 DEF Next, LaneStep, PageStep, router, life, vars,
     Edit, Reserve, Release, LanePick, LaneRead, LaneExport, LaneWrite, LaneFails, PagePress,
     CommissionStart, CommissionVerdict, CommissionBackup, CommissionDemote,
     PageRead, PageExport, PageWrite, AcceptExport, AcceptReplace, PageFails, SetState

(* What the hub records, the requests in progress and the router keep      *)
(* their types.                                                            *)
THEOREM TypeCorrect == Spec => []TypeOK
<1>1. Init => TypeOK
  <2> SUFFICES ASSUME Init PROVE TypeOK
    OBVIOUS
  <2>1. expected \in Records
    BY DEF Init, Records
  <2>2. verdict \in BOOLEAN /\ promoted \in BOOLEAN /\ checklist \in BOOLEAN /\ cut \in BOOLEAN
    BY DEF Init
  <2>3. lane \in Requests /\ page \in Requests
    BY DEF Init, Requests, Away
  <2> QED
    BY <2>1, <2>2, <2>3 DEF Init, TypeOK, Records, Stages
<1>2. TypeOK /\ [Next]_vars => TypeOK'
  <2> SUFFICES ASSUME TypeOK, [Next]_vars PROVE TypeOK'
    OBVIOUS
  <2> QED
    BY ExpectedTypes, RequestTypes, RouterTypes, StageTypes, FlagsTypes DEF TypeOK, Records
<1> QED
  BY <1>1, <1>2, PTL DEF Spec

---------------------------------------------------------------------------------
(* A commissioning that goes on is never mistaken for a page.              *)
LEMMA CommissioningStep ==
  ASSUME TypeOK, Commissioning, [Next]_vars PROVE Commissioning'
<1> USE DEF Commissioning, Away
<1>1. /\ expected \in Records /\ page \in Requests
      /\ running \in Configs
  BY DEF TypeOK, Records
<1>2. ASSUME NEW at \in {"read", "accept"}, PagePress(at) PROVE Commissioning'
  BY <1>1, <1>2 DEF PagePress, Requests
<1>3. CASE PageRead \/ PageExport \/ AcceptExport
  BY <1>1, <1>3 DEF PageRead, PageExport, AcceptExport, Read, Export, Requests, records
<1>4. CASE PageWrite \/ AcceptReplace \/ CommissionDemote \/ PageDies \/ CommissionStart
  <2>1. \/ page' = Away
        \/ page' = [at |-> "probe", base |-> NoConfig, seen |-> NoConfig, why |-> "commission"]
    BY <1>4, Zenon DEF PageWrite, AcceptReplace, CommissionDemote, PageDies, CommissionStart
  <2> QED
    BY <2>1
<1>5. CASE PageFails
  BY <1>1, <1>5 DEF PageFails, Requests
<1>6. CASE CommissionBackup
  BY <1>1, <1>6 DEF CommissionBackup, Requests, Records
<1>7. ASSUME NEW v \in {"passed", "partial", "failed"}, CommissionVerdict(v) PROVE Commissioning'
  BY <1>1, <1>7 DEF CommissionVerdict, Requests, Records
<1>8. CASE LaneWrite
  BY <1>8, FlagTypes DEF LaneWrite
<1>9. CASE UNCHANGED <<page, expected>>
  BY <1>9
<1> QED
  BY <1>2, <1>3, <1>4, <1>5, <1>6, <1>7, <1>8, <1>9 DEF Next, LaneStep, PageStep, records, vars,
     Edit, Assess, Reserve, Release, LanePick, LaneRead, LaneExport, LaneFails,
     ChecklistRead, ChecklistWrite, SetState

(* Neither a backup nor a baseline is ever given up again.                 *)
LEMMA BackedStays ==
  ASSUME TypeOK, Commissioning, Backed, [Next]_vars PROVE Backed'
<1> USE DEF Backed
<1>1. expected \in Records /\ page \in Requests
  BY DEF TypeOK, Records
<1>2. CASE LaneWrite \/ PageWrite
  BY <1>2, FlagTypes DEF LaneWrite, PageWrite
<1>3. CASE AcceptReplace
  BY <1>1, <1>3 DEF AcceptReplace, Commissioning, Records
<1>4. CASE CommissionBackup \/ CommissionDemote
  BY <1>1, <1>4 DEF CommissionBackup, CommissionDemote, Records
<1>5. ASSUME NEW v \in {"passed", "partial", "failed"}, CommissionVerdict(v) PROVE Backed'
  BY <1>1, <1>5 DEF CommissionVerdict, Records
<1>6. CASE UNCHANGED expected
  BY <1>6
<1> QED
  BY <1>2, <1>3, <1>4, <1>5, <1>6 DEF Next, LaneStep, PageStep, records, vars,
     Edit, Assess, Reserve, Release, LanePick, LaneRead, LaneExport, LaneFails, PagePress,
     CommissionStart, PageRead, PageExport, AcceptExport, PageFails, PageDies,
     ChecklistRead, ChecklistWrite, SetState

(* A verdict that stands is backed, or its commissioning still goes on.    *)
LEMMA StandingStep ==
  ASSUME TypeOK, Commissioning, Standing, [Next]_vars PROVE Standing'
<1> USE DEF Standing
<1>1. CASE Backed
  BY <1>1, BackedStays
<1>2. CASE ~Backed
  <2>1. expected \in Records /\ page \in Requests
    BY DEF TypeOK, Records
  <2>2. CASE AcceptReplace
    BY <2>1, <2>2 DEF AcceptReplace, Commissioning, Backed, Records
  <2>3. CASE CommissionDemote
    BY <2>1, <2>3 DEF CommissionDemote, Records
  <2>4. CASE CommissionBackup
    BY <2>1, <2>4, <1>2 DEF CommissionBackup, Commissioning, Requests
  <2>5. ASSUME NEW v \in {"passed", "partial", "failed"}, CommissionVerdict(v) PROVE Standing'
    BY <2>1, <2>5 DEF CommissionVerdict, Commissioning, Records, Requests
  <2>6. CASE PageFails
    BY <2>1, <2>6, <1>2 DEF PageFails, records, Requests
  <2>7. CASE PageDies
    BY <2>1, <2>7, <1>2 DEF PageDies, records, Requests
  <2>8. CASE AcceptExport
    BY <2>1, <2>8, <1>2 DEF AcceptExport, Export, Requests
  <2>9. CASE PageRead \/ PageExport
    BY <2>1, <2>9, <1>2 DEF PageRead, PageExport, Commissioning, records
  <2>10. CASE PageWrite
    BY <2>1, <2>10, <1>2, FlagTypes DEF PageWrite, Commissioning
  <2>11. CASE CommissionStart \/ \E at \in {"read", "accept"} : PagePress(at)
    BY <2>11, <1>2 DEF CommissionStart, PagePress, Away, records
  <2>12. CASE LaneWrite
    BY <2>12, <1>2, FlagTypes DEF LaneWrite
  <2>13. CASE UNCHANGED <<page, expected, cut>>
    BY <2>13, <1>2
  <2> QED
    BY <2>2, <2>3, <2>4, <2>5, <2>6, <2>7, <2>8, <2>9, <2>10, <2>11, <2>12, <2>13
    DEF Next, LaneStep, PageStep, records, vars,
     Edit, Assess, Reserve, Release, LanePick, LaneRead, LaneExport, LaneFails,
     ChecklistRead, ChecklistWrite, SetState
<1> QED
  BY <1>1, <1>2

(* The checklist promises what it has read, and what it read stays.        *)
LEMMA PromisesStep ==
  ASSUME TypeOK, Commissioning, Promises, [Next]_vars PROVE Promises'
<1> USE DEF Promises
<1>1. CASE Backed
  BY <1>1, BackedStays
<1>2. CASE ~Backed
  <2>1. ~promoted /\ ~checklist
    BY <1>2
  <2>2. ~ChecklistRead /\ ~ChecklistWrite
    BY <1>2, <2>1 DEF ChecklistRead, ChecklistWrite, Complete, Backed
  <2>3. promoted' = promoted /\ checklist' = checklist
    BY <2>2 DEF Next, LaneStep, PageStep, life, vars,
     Edit, Assess, Reserve, Release, LanePick, LaneRead, LaneExport, LaneWrite, LaneFails,
     PagePress, PageRead, PageExport, PageWrite, AcceptExport, AcceptReplace, PageFails,
     CommissionStart, CommissionVerdict, CommissionBackup, CommissionDemote, PageDies, SetState
  <2> QED
    BY <2>1, <2>3, Zenon
<1> QED
  BY <1>1, <1>2

(* Whatever fails and whoever decides on an old reading: a router that the *)
(* hub says has passed commissioning or was promoted has a backup and a    *)
(* baseline, unless a process died between a verdict and its baseline.     *)
THEOREM ClaimsBacked == Spec => []ClaimsAreBacked
<1>1. Init => ClaimsInv
  BY DEF Init, Away, ClaimsInv, Commissioning, Standing, Promises
<1>2. TypeOK /\ ClaimsInv /\ [Next]_vars => ClaimsInv'
  BY CommissioningStep, StandingStep, PromisesStep DEF ClaimsInv
<1>3. ClaimsInv => ClaimsAreBacked
  BY DEF ClaimsInv, Standing, Promises, ClaimsAreBacked, Passed
<1> QED
  BY <1>1, <1>2, <1>3, TypeCorrect, PTL DEF Spec
=================================================================================
