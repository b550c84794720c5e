---- MODULE ConfigBaseline ----
(***************************************************************************)
(* The configuration of one router and what the hub believes about it: the *)
(* accepted baseline, the drift flag, the snapshots, the commissioning     *)
(* verdict and the lifecycle state.  The scheduler and the pages read and  *)
(* write the database later, without a lock, while jobs and people change  *)
(* the router.                                                             *)
(***************************************************************************)
EXTENDS Naturals

CONSTANTS
  Configs,      \* configurations, told apart by their hash
  Good,         \* those whose management state Guardian finds healthy
  NoConfig,
  MaxEdits,     \* bound: changes of the router
  MaxLosses     \* bound: deaths of the process of a page

ASSUME BaselineBounds ==
  /\ Good \subseteq Configs /\ NoConfig \notin Configs
  /\ MaxEdits \in Nat /\ MaxLosses \in Nat

VARIABLES
  running,      \* what /export shows
  verdict,      \* router_access_state.management_ok
  expected,     \* router_expected_state and the commissioning backup
  stage,        \* routers.lifecycle_state
  promoted,     \* commissioning_checklist_status.promoted_at is set
  snapshots,    \* router_snapshots, one per hash
  busy,         \* who has reserved the router
  lane, page,   \* the drift lane, and a page's request
  checklist,    \* a checklist that has found everything required
  edits, losses,
  cut           \* a commissioning died between its verdict and its baseline

vars == <<running, verdict, expected, snapshots, stage, promoted, busy, lane, page, checklist, edits, losses, cut>>

router == <<running, verdict, edits>>
records == <<expected, snapshots>>
life == <<stage, promoted, checklist>>

Away == [at |-> "off", base |-> NoConfig, seen |-> NoConfig, why |-> "page"]

(***************************************************************************)
(* The router: people and change jobs change it, Guardian assesses it.     *)
(***************************************************************************)
Edit(c) ==
  /\ edits < MaxEdits /\ c # running
  /\ running' = c /\ edits' = edits + 1
  /\ UNCHANGED <<verdict, records, busy, lane, page, losses, cut, life>>
Assess ==
  /\ stage # "retired" /\ verdict' = (running \in Good)
  /\ UNCHANGED <<running, edits, records, busy, lane, page, losses, cut, life>>
Reserve ==
  /\ busy = "nobody" /\ busy' = "a change"
  /\ UNCHANGED <<router, records, lane, page, losses, cut, life>>
(* A change job that ends, or the recovery of one that died. *)
Release ==
  /\ busy \in {"a change", "the dead"} /\ busy' = "nobody"
  /\ UNCHANGED <<router, records, lane, page, losses, cut, life>>

(***************************************************************************)
(* check_drift, by the lane for routers that were healthy and not reserved *)
(* when the lane began, and by the page's button for any.                  *)
(***************************************************************************)
LanePick ==
  /\ lane = Away /\ verdict /\ busy = "nobody" /\ stage # "retired" /\ expected.baseline # NoConfig
  /\ lane' = [Away EXCEPT !.at = "read"]
  /\ UNCHANGED <<router, records, busy, page, losses, cut, life>>
PagePress(at) ==
  /\ page = Away /\ stage # "retired"
  /\ page' = [Away EXCEPT !.at = at]
  /\ UNCHANGED <<router, records, busy, lane, losses, cut, life>>

Read(w) == [at |-> IF expected.baseline = NoConfig THEN "off" ELSE "export",
            base |-> expected.baseline, seen |-> w.seen, why |-> w.why]
Export(w, next) == [at |-> next, base |-> w.base, seen |-> running, why |-> w.why]
Drifted(w) == w.seen # w.base

(* The flag is only ever raised (a mutant). *)
RaiseFlag(w) == expected' = [expected EXCEPT !.drifted = @ \/ Drifted(w)]
WriteFlag(w) == expected' = [expected EXCEPT !.drifted = Drifted(w)]

LaneRead ==
  /\ lane.at = "read" /\ lane' = Read(lane)
  /\ UNCHANGED <<router, records, busy, page, losses, cut, life>>
LaneExport ==
  /\ lane.at = "export" /\ lane' = Export(lane, "write")
  /\ UNCHANGED <<router, records, busy, page, losses, cut, life>>
LaneWrite ==
  /\ lane.at = "write" /\ WriteFlag(lane)
  /\ snapshots' = IF Drifted(lane) THEN snapshots \union {lane.seen} ELSE snapshots
  /\ lane' = Away
  /\ UNCHANGED <<router, busy, page, losses, cut, life>>
LaneFails ==
  /\ lane.at = "export" /\ lane' = Away
  /\ UNCHANGED <<router, records, busy, page, losses, cut, life>>

PageRead ==
  /\ page.at = "read" /\ page' = Read(page)
  /\ UNCHANGED <<router, records, busy, lane, losses, cut, life>>
PageExport ==
  /\ page.at = "export" /\ page' = Export(page, "write")
  /\ UNCHANGED <<router, records, busy, lane, losses, cut, life>>
PageWrite ==
  /\ page.at = "write" /\ WriteFlag(page)
  /\ snapshots' = IF Drifted(page) THEN snapshots \union {page.seen} ELSE snapshots
  /\ page' = Away
  /\ UNCHANGED <<router, busy, lane, losses, cut, life>>

(***************************************************************************)
(* accept_baseline: the export is kept first, the telemetry read may still *)
(* fail, then the baseline is replaced.  Of a commissioning it is the end. *)
(***************************************************************************)
AcceptExport ==
  /\ page.at = "accept" /\ page' = Export(page, "replace")
  /\ snapshots' = snapshots \union {running}
  /\ UNCHANGED <<router, expected, busy, lane, losses, cut, life>>
Left == IF page.why = "commission" THEN "nobody" ELSE busy
AcceptReplace ==
  /\ page.at = "replace"
  /\ expected' = [expected EXCEPT !.baseline = page.seen, !.drifted = FALSE]
  /\ page' = Away /\ busy' = Left
  /\ UNCHANGED <<router, snapshots, lane, losses, cut, life>>
(* What the router does not answer; a commissioning takes its verdict back. *)
PageFails ==
  /\ page.at \in {"export", "accept", "replace", "probe", "backup"}
  /\ page' = IF page.why = "commission" /\ page.at # "probe" THEN [page EXCEPT !.at = "demote"] ELSE Away
  /\ busy' = IF page.at = "probe" THEN "nobody" ELSE busy
  /\ UNCHANGED <<router, records, lane, losses, cut, life>>

(***************************************************************************)
(* validate_commissioning: a reserved job that probes, writes its verdict, *)
(* and after a pass makes the backup and accepts the baseline.             *)
(***************************************************************************)
CommissionStart ==
  /\ page = Away /\ busy = "nobody" /\ stage # "retired"
  /\ busy' = "commission"
  /\ page' = [at |-> "probe", base |-> NoConfig, seen |-> NoConfig, why |-> "commission"]
  /\ UNCHANGED <<router, records, lane, losses, cut, life>>
CommissionVerdict(v) ==
  /\ page.at = "probe"
  /\ expected' = [expected EXCEPT !.commissioning = v]
  /\ page' = IF v = "passed" THEN [page EXCEPT !.at = "backup"] ELSE Away
  /\ busy' = IF v = "passed" THEN busy ELSE "nobody"
  /\ UNCHANGED <<router, snapshots, lane, losses, cut, life>>
CommissionBackup ==
  /\ page.at = "backup"
  /\ expected' = [expected EXCEPT !.backup = TRUE]
  /\ page' = [page EXCEPT !.at = "accept"]
  /\ UNCHANGED <<router, snapshots, busy, lane, losses, cut, life>>
(* The job ends and the verdict stands (a mutant). *)
CommissionKeep ==
  /\ page.at = "demote"
  /\ page' = Away /\ busy' = "nobody"
  /\ UNCHANGED <<router, records, lane, losses, cut, life>>
CommissionDemote ==
  /\ page.at = "demote"
  /\ expected' = [expected EXCEPT !.commissioning = "partial"]
  /\ page' = Away /\ busy' = "nobody"
  /\ UNCHANGED <<router, snapshots, lane, losses, cut, life>>

PageDies ==
  /\ page # Away /\ losses < MaxLosses
  /\ page' = Away /\ losses' = losses + 1
  /\ busy' = IF busy = "commission" THEN "the dead" ELSE busy
  /\ cut' = (cut \/ (page.why = "commission" /\ page.at # "probe"))
  /\ UNCHANGED <<router, records, lane, life>>

(***************************************************************************)
(* The lifecycle form, and the checklist that promotes what is complete:   *)
(* it reads, and later writes the state whatever it has become.  A stage   *)
(* "new" is like commissioning here, and maintenance like production.      *)
(***************************************************************************)
Stages == {"commissioning", "production", "retired"}
SetState(s) ==
  /\ stage # s /\ stage' = s
  /\ UNCHANGED <<router, records, promoted, checklist, busy, lane, page, losses, cut>>

(* What the checklist requires as it is installed, of what varies here.     *)
Complete == verdict /\ expected.backup /\ expected.baseline # NoConfig

ChecklistRead ==
  /\ ~checklist /\ stage = "commissioning" /\ Complete
  /\ checklist' = TRUE
  /\ UNCHANGED <<router, records, stage, promoted, busy, lane, page, losses, cut>>
ChecklistWrite ==
  /\ checklist /\ checklist' = FALSE
  /\ stage' = "production" /\ promoted' = TRUE
  /\ UNCHANGED <<router, records, busy, lane, page, losses, cut>>

Init ==
  /\ running \in Good /\ verdict = TRUE
  /\ expected = [baseline |-> NoConfig, drifted |-> FALSE, commissioning |-> "unknown", backup |-> FALSE]
  /\ snapshots = {} /\ stage = "commissioning" /\ promoted = FALSE /\ checklist = FALSE
  /\ busy = "nobody" /\ lane = Away /\ page = Away
  /\ edits = 0 /\ losses = 0 /\ cut = FALSE

Requests ==
  [at : {"off", "read", "export", "write", "accept", "replace", "probe", "backup", "demote"},
   base : Configs \union {NoConfig}, seen : Configs \union {NoConfig}, why : {"page", "commission"}]
TypeOK ==
  /\ running \in Configs /\ verdict \in BOOLEAN
  /\ expected \in [baseline : Configs \union {NoConfig}, drifted : BOOLEAN,
                   commissioning : {"unknown", "passed", "partial", "failed"}, backup : BOOLEAN]
  /\ snapshots \subseteq Configs \union {NoConfig}
  /\ stage \in Stages /\ promoted \in BOOLEAN /\ checklist \in BOOLEAN
  /\ busy \in {"nobody", "a change", "commission", "the dead"}
  /\ lane \in Requests /\ page \in Requests
  /\ edits \in 0..MaxEdits /\ losses \in 0..MaxLosses /\ cut \in BOOLEAN

LaneStep == LanePick \/ LaneRead \/ LaneExport \/ LaneWrite
PageStep == PageRead \/ PageExport \/ PageWrite \/ AcceptExport \/ AcceptReplace
            \/ CommissionBackup \/ CommissionDemote
            \/ \E v \in {"passed", "partial", "failed"} : CommissionVerdict(v)
Next ==
  \/ \E c \in Configs : Edit(c)
  \/ Assess \/ Reserve \/ Release
  \/ LaneStep \/ LaneFails
  \/ \E at \in {"read", "accept"} : PagePress(at)
  \/ CommissionStart \/ PageStep \/ PageFails \/ PageDies
  \/ ChecklistRead \/ ChecklistWrite \/ \E s \in Stages : SetState(s)

(* The timer starts the lane and Guardian again and again, handlers go on, *)
(* changes end or are recovered, and a healthy router that is asked again  *)
(* and again answers.  People, edits and deaths need not come.             *)
Fairness ==
  /\ SF_vars(LanePick \/ LaneRead \/ LaneWrite) /\ SF_vars(LaneExport)
  /\ WF_vars(PageStep) /\ WF_vars(Assess) /\ WF_vars(Release)

Spec == Init /\ [][Next]_vars /\ Fairness

(***************************************************************************)
(* Properties.                                                             *)
(***************************************************************************)
(* Readings that were overtaken by an edit, by a new baseline or by        *)
(* another check may write a wrong drift flag, but never the last one:     *)
(* again and again the flag of a healthy router says what is the case.     *)
DriftIsSeen ==
  []<>(\/ expected.baseline = NoConfig \/ running \notin Good \/ stage = "retired"
       \/ expected.drifted = (running # expected.baseline))

(* What the hub says of a router, that it passed commissioning or was      *)
(* promoted to production, is backed by a backup and a baseline, although  *)
(* the verdict is written before either is made, either may fail, and the  *)
(* checklist decides on what it read earlier.  Only a process that died    *)
(* between its verdict and its baseline leaves a verdict unbacked.         *)
Backed == expected.backup /\ expected.baseline # NoConfig
Passed == expected.commissioning = "passed" /\ page.why # "commission" /\ ~cut
ClaimsAreBacked == Passed \/ promoted => Backed

(* Inductive: a commissioning under way has what it has come to, and the   *)
(* verdict of an earlier one stays backed until this one has its own.      *)
Commissioning ==
  /\ page.at \in {"probe", "backup", "demote"} => page.why = "commission"
  /\ page.at \in {"off", "read", "export", "write"} => page.why = "page"
  /\ page.why = "commission" /\ page.at \in {"accept", "replace"} => expected.backup
  /\ page.at = "replace" => page.seen # NoConfig
Standing ==
  expected.commissioning = "passed" /\ ~cut =>
    Backed \/ (page.why = "commission" /\ page.at # "probe")
Promises == promoted \/ checklist => Backed
ClaimsInv == Commissioning /\ Standing /\ Promises
====
