------------------------- MODULE AccessGuardian_proofs -------------------------
(***************************************************************************)
(* What is proved of AccessGuardian, however the ticks of timer, pages and *)
(* repairs overlap and die: its types, that stored levels were announced,  *)
(* and that incidents are resolved on what their tick found and stored.    *)
(***************************************************************************)
EXTENDS AccessGuardian, TLAPS

USE SizeAssumption, DedupAssumption, WarnAssumption, MinutesAssumption, BoundsAssumption

-------------------------------------------------------------------------------
(* Types.                                                                  *)
LEMMA DesiredType ==
  ASSUME NEW count \in Nat, NEW minutes \in Int
  PROVE  Desired(count, minutes) \in 0..3
BY DEF Desired

(* The failure count saturates at the warning threshold. *)
LEMMA CountedType ==
  ASSUME NEW n \in 0..Warn
  PROVE  Counted(n) \in 0..Warn
BY DEF Counted

(* An empty hub is well typed. *)
LEMMA InitTypes ==
  ASSUME Init PROVE TypeOK
BY DEF Init, TypeOK, Routers, Times, Moments, Incidents, NoTime, Unknown, Steps

(* What _update_alert_state makes of the row that ticker t reads.          *)
StartOf(t) == IF since[cur[t]] = NoTime THEN checked[t] ELSE since[cur[t]]
DesiredOf(t) == Desired(Counted(failures[cur[t]]), checked[t] - StartOf(t))

(* The verdict of a probe that failed, and what is announced of it. *)
LEMMA JudgeFacts ==
  ASSUME TypeOK, NEW t \in Tickers, Judge(t)
  PROVE  /\ cur[t] \in Routers /\ StartOf(t) \in Times /\ DesiredOf(t) \in 0..3
         /\ Counted(failures[cur[t]]) \in 0..Warn /\ level[cur[t]] \in 0..3
         /\ newFailures' = [newFailures EXCEPT ![t] = Counted(failures[cur[t]])]
         /\ newSince' = [newSince EXCEPT ![t] = StartOf(t)]
         /\ newLevel' = [newLevel EXCEPT ![t] = DesiredOf(t)]
         /\ \/ DesiredOf(t) > level[cur[t]] /\ Announce(cur[t], DesiredOf(t))
            \/ DesiredOf(t) > level[cur[t]] /\ Withhold(cur[t], DesiredOf(t))
            \/ ~(DesiredOf(t) > level[cur[t]]) /\ UNCHANGED escalation
<1>1. cur[t] \in Routers /\ level[cur[t]] \in 0..3 /\ Counted(failures[cur[t]]) \in 0..Warn
  BY CountedType DEF TypeOK
<1>2. StartOf(t) \in Times
  BY <1>1 DEF TypeOK, StartOf, Moments
<1>3. DesiredOf(t) \in 0..3
  BY <1>1, <1>2, DesiredType DEF TypeOK, DesiredOf, Times
<1> QED
  BY <1>1, <1>2, <1>3 DEF Judge, StartOf, DesiredOf, Rises

(* The rows, and the verdicts that are on their way to them.               *)
LEMMA RowTypes ==
  ASSUME TypeOK, NEW t \in Tickers, Tick(t)
  PROVE  /\ access' \in [Routers -> {"none", "ok", "bad"}]
         /\ failures' \in [Routers -> 0..Warn] /\ level' \in [Routers -> 0..3]
         /\ since' \in [Routers -> Moments]
         /\ newFailures' \in [Tickers -> 0..Warn] /\ newLevel' \in [Tickers -> 0..3]
         /\ newSince' \in [Tickers -> Moments]
<1> USE DEF TypeOK
<1>1. CASE Judge(t)
  <2>1. UNCHANGED <<access, alert>>
    BY <1>1 DEF Judge
  <2>2. /\ newFailures' \in [Tickers -> 0..Warn] /\ newLevel' \in [Tickers -> 0..3]
        /\ newSince' \in [Tickers -> Moments]
    <3>1. /\ newFailures' = [newFailures EXCEPT ![t] = Counted(failures[cur[t]])]
          /\ newSince' = [newSince EXCEPT ![t] = StartOf(t)]
          /\ newLevel' = [newLevel EXCEPT ![t] = DesiredOf(t)]
      BY <1>1, JudgeFacts
    <3>2. /\ StartOf(t) \in Moments /\ DesiredOf(t) \in 0..3
          /\ Counted(failures[cur[t]]) \in 0..Warn
      BY <1>1, JudgeFacts DEF Moments
    <3> QED
      BY <3>1, <3>2
  <2> QED
    BY <2>1, <2>2 DEF alert
<1>2. CASE Write(t)
  BY <1>2 DEF Write, ForgetVerdict, Moments
<1>3. CASE Save(t)
  BY <1>3 DEF Save, alert, verdict
<1>4. CASE Skip(t) \/ WriteHealthy(t)
  <2>1. cur[t] \in Routers /\ EndOutage(cur[t]) /\ UNCHANGED <<access, verdict>>
    BY <1>4 DEF Skip, WriteHealthy
  <2> QED
    BY <2>1 DEF EndOutage, verdict, Moments
<1>5. CASE Begin(t) \/ Probe(t) \/ Correlate(t) \/ Open(t)
  <2>1. UNCHANGED <<access, alert, verdict>>
    BY <1>5 DEF Begin, Probe, Correlate, Open
  <2> QED
    BY <2>1 DEF alert, verdict
<1>6. CASE Resolve(t)
  BY <1>6 DEF Resolve, Forget, ForgetVerdict, alert, Moments
<1> QED
  BY <1>1, <1>2, <1>3, <1>4, <1>5, <1>6 DEF Tick

(* Where a tick is, and what it has read and found.                        *)
LEMMA TickTypes ==
  ASSUME TypeOK, NEW t \in Tickers, Tick(t)
  PROVE  /\ at' \in [Tickers -> Steps] /\ cur' \in [Tickers -> Routers]
         /\ checked' \in [Tickers -> Times]
         /\ before' \in [Tickers -> [Routers -> {"none", "ok", "bad"}]]
         /\ inactive' \in [Tickers -> SUBSET Routers] /\ muted' \in [Tickers -> SUBSET Routers]
         /\ result' \in [Tickers -> [Routers -> {"none", "ok", "bad"}]]
         /\ fell' \in [Tickers -> SUBSET Routers]
<1> USE DEF TypeOK, Steps, Goto
<1>1. CASE Begin(t)
  BY <1>1 DEF Begin, found
<1>2. CASE Probe(t)
  <2>1. [result[t] EXCEPT ![cur[t]] = IF healthy[cur[t]] THEN "ok" ELSE "bad"]
          \in [Routers -> {"none", "ok", "bad"}]
    OBVIOUS
  <2> QED
    BY <1>2, <2>1 DEF Probe, snapshot
<1>3. CASE Save(t)
  BY <1>3 DEF Save, snapshot
<1>4. CASE Judge(t)
  BY <1>4 DEF Judge, snapshot, found
<1>5. CASE Skip(t) \/ Write(t) \/ WriteHealthy(t)
  <2>1. cur[t] < Size => cur[t] + 1 \in Routers
    BY DEF Routers
  <2>2. 1 \in Routers
    BY DEF Routers
  <2>3. NextRouter(t) /\ UNCHANGED <<snapshot, found>>
    BY <1>5 DEF Skip, Write, WriteHealthy
  <2> QED
    BY <2>1, <2>2, <2>3 DEF NextRouter, snapshot, found
<1>6. CASE Correlate(t) \/ Open(t)
  BY <1>6 DEF Correlate, Open, snapshot, found
<1>7. CASE Resolve(t)
  <2>1. 1 \in Routers /\ 0 \in Times /\ Unknown \in [Routers -> {"none", "ok", "bad"}]
    BY DEF Routers, Times, Unknown
  <2> QED
    BY <1>7, <2>1 DEF Resolve, Forget
<1> QED
  BY <1>1, <1>2, <1>3, <1>4, <1>5, <1>6, <1>7 DEF Tick

(* Only a verdict announces anything.                                      *)
LEMMA Quiet ==
  ASSUME NEW t \in Tickers, Tick(t), ~Judge(t)
  PROVE  UNCHANGED escalation
BY DEF Tick, Begin, Skip, Probe, Save, Write, WriteHealthy, Correlate, Open, Resolve

(* The escalations that were recorded and heard of. *)
LEMMA EscalationTypes ==
  ASSUME TypeOK, NEW t \in Tickers, Tick(t)
  PROVE  /\ latest' \in [Routers -> [level : 0..3, when : Moments]]
         /\ heard' \in [Routers -> [1..3 -> Moments]]
<1> USE DEF TypeOK
<1>1. CASE Judge(t)
  <2>1. now \in Moments
    BY DEF Moments
  <2>2. CASE UNCHANGED escalation
    BY <2>2 DEF escalation
  <2>3. ASSUME NEW r \in Routers, NEW n \in 0..3, Announce(r, n) \/ Withhold(r, n),
               ~UNCHANGED escalation
        PROVE  /\ latest' \in [Routers -> [level : 0..3, when : Moments]]
               /\ heard' \in [Routers -> [1..3 -> Moments]]
    <3>1. heard' = [heard EXCEPT ![r][n] = now]
      BY <2>3 DEF Announce, Withhold
    <3>2. latest' \in {latest, [latest EXCEPT ![r] = [level |-> n, when |-> now]]}
      BY <2>3 DEF Announce, Withhold
    <3>3. [heard[r] EXCEPT ![n] = now] \in [1..3 -> Moments]
      BY <2>1
    <3>4. heard' \in [Routers -> [1..3 -> Moments]]
      BY <3>1, <3>3
    <3>5. [level |-> n, when |-> now] \in [level : 0..3, when : Moments]
      BY <2>1
    <3>6. [latest EXCEPT ![r] = [level |-> n, when |-> now]]
            \in [Routers -> [level : 0..3, when : Moments]]
      BY <3>5
    <3> QED
      BY <3>2, <3>4, <3>6
  <2> QED
    BY <1>1, <2>2, <2>3, JudgeFacts
<1>2. CASE ~Judge(t)
  BY <1>2, Quiet DEF escalation
<1> QED
  BY <1>1, <1>2

(* The incidents, and the history of the probes.                           *)
LEMMA OtherTypes ==
  ASSUME TypeOK, NEW t \in Tickers, Tick(t)
  PROVE  /\ incident' \in [Incidents -> {"none", "open", "resolved"}]
         /\ victims' \in [Incidents -> SUBSET Routers] /\ openedAt' \in [Incidents -> Times]
         /\ author' \in [Routers -> Tickers \cup {"none"}]
         /\ UNCHANGED <<world, now, changes, aborts>>
<1> USE DEF TypeOK
<1>1. CASE Save(t)
  BY <1>1, CountedType DEF Save, table
<1>2. CASE Judge(t)
  BY <1>2 DEF Judge, table
<1>3. CASE Begin(t) \/ Skip(t) \/ Probe(t) \/ Write(t) \/ WriteHealthy(t) \/ Correlate(t)
  <2>1. UNCHANGED <<table, author, world, now, changes, aborts>>
    BY <1>3 DEF Begin, Skip, Probe, Write, WriteHealthy, Correlate
  <2> QED
    BY <2>1 DEF table
<1>4. CASE Open(t)
  BY <1>4 DEF Open
<1>5. CASE Resolve(t)
  BY <1>5 DEF Resolve
<1> QED
  BY <1>1, <1>2, <1>3, <1>4, <1>5 DEF Tick

(* Ticks, their deaths and the world keep the types. *)
LEMMA TypeStep ==
  ASSUME TypeOK, [Next]_vars PROVE TypeOK'
<1>1. ASSUME NEW t \in Tickers, Tick(t) PROVE TypeOK'
  BY <1>1, RowTypes, TickTypes, EscalationTypes, OtherTypes DEF TypeOK, world
<1>2. ASSUME NEW t \in Tickers, Abort(t) PROVE TypeOK'
  <2> USE DEF TypeOK
  <2>1. /\ 1 \in Routers /\ 0 \in Times /\ 0 \in 0..Warn /\ 0 \in 0..3
        /\ Unknown \in [Routers -> {"none", "ok", "bad"}]
    BY DEF Routers, Times, Unknown
  <2>2. /\ at' \in [Tickers -> Steps] /\ cur' \in [Tickers -> Routers]
        /\ checked' \in [Tickers -> Times] /\ aborts' \in 0..MaxAborts
        /\ before' \in [Tickers -> [Routers -> {"none", "ok", "bad"}]]
        /\ inactive' \in [Tickers -> SUBSET Routers] /\ muted' \in [Tickers -> SUBSET Routers]
    BY <1>2, <2>1 DEF Abort, Forget, Goto, Steps
  <2>3. /\ result' \in [Tickers -> [Routers -> {"none", "ok", "bad"}]]
        /\ fell' \in [Tickers -> SUBSET Routers]
        /\ newFailures' \in [Tickers -> 0..Warn] /\ newLevel' \in [Tickers -> 0..3]
        /\ newSince' \in [Tickers -> Moments]
    BY <1>2, <2>1 DEF Abort, Forget, ForgetVerdict, Moments
  <2> QED
    BY <1>2, <2>2, <2>3 DEF Abort, world, alert, escalation, table
<1>3. CASE Change
  <2>1. /\ healthy' \in [Routers -> BOOLEAN] /\ active' \in [Routers -> BOOLEAN]
        /\ quiet' \in [Routers -> BOOLEAN] /\ changes' \in 0..MaxChanges
    <3>1. \/ /\ \E S \in SUBSET Routers :
                  healthy' = [r \in Routers |-> IF r \in S THEN ~healthy[r] ELSE healthy[r]]
             /\ UNCHANGED <<active, quiet>>
          \/ (\E r \in Routers : active' = [active EXCEPT ![r] = ~active[r]])
             /\ UNCHANGED <<healthy, quiet>>
          \/ (\E r \in Routers : quiet' = [quiet EXCEPT ![r] = ~quiet[r]])
             /\ UNCHANGED <<healthy, active>>
      BY <1>3 DEF Change
    <3>2. \A b \in BOOLEAN : (~b) \in BOOLEAN
      OBVIOUS
    <3>3. changes' \in 0..MaxChanges
      BY <1>3 DEF Change, TypeOK
    <3> QED
      BY <3>1, <3>2, <3>3 DEF TypeOK
  <2> QED
    BY <1>3, <2>1 DEF Change, TypeOK, alert, escalation, table, snapshot,
       found, verdict
<1>4. CASE Advance
  BY <1>4 DEF Advance, TypeOK, Times, world, alert, escalation, table, snapshot,
     found, verdict
<1>5. CASE UNCHANGED vars
  BY <1>5 DEF TypeOK, vars, world, alert, escalation, table, snapshot, found, verdict
<1> QED
  BY <1>1, <1>2, <1>3, <1>4, <1>5 DEF Next

(* Every table, and what every tick holds, has its type, however the ticks *)
(* of the timer, the pages and the repairs overlap.                        *)
THEOREM TypeCorrect == Spec => []TypeOK
<1> QED
  BY InitTypes, TypeStep, PTL DEF Spec

-------------------------------------------------------------------------------
(* What a step does to the rows and to the verdicts that wait for them.    *)

(* A step is one tick's, or touches neither rows nor escalations.          *)
LEMMA WhoSteps ==
  ASSUME [Next]_vars
  PROVE  \/ \E t \in Tickers : Tick(t)
         \/ (\E t \in Tickers : Abort(t)) /\ UNCHANGED <<alert, escalation, access, author, table>>
         \/ UNCHANGED <<alert, escalation, access, author, table, at, cur, snapshot, found, verdict>>
BY DEF Next, Abort, Change, Advance, vars

(* A row keeps its outage and level, ends it, or takes a verdict.          *)
LEMMA RowMoves ==
  ASSUME TypeOK, [Next]_vars, NEW r \in Routers
  PROVE  \/ level'[r] = level[r] /\ since'[r] = since[r]
         \/ level'[r] = 0 /\ since'[r] = NoTime
         \/ \E t \in Tickers : /\ at[t] = "write" /\ cur[t] = r /\ UNCHANGED escalation
                               /\ level'[r] = newLevel[t] /\ since'[r] = newSince[t]
<1> USE DEF TypeOK
<1>1. ASSUME NEW t \in Tickers, Write(t)
      PROVE  \/ level'[r] = level[r] /\ since'[r] = since[r]
             \/ /\ at[t] = "write" /\ cur[t] = r /\ UNCHANGED escalation
                /\ level'[r] = newLevel[t] /\ since'[r] = newSince[t]
  BY <1>1 DEF Write
<1>2. ASSUME NEW t \in Tickers, Skip(t) \/ WriteHealthy(t)
      PROVE  \/ level'[r] = level[r] /\ since'[r] = since[r]
             \/ level'[r] = 0 /\ since'[r] = NoTime
  BY <1>2 DEF Skip, WriteHealthy, EndOutage
<1>3. ASSUME NEW t \in Tickers,
             Begin(t) \/ Probe(t) \/ Save(t) \/ Judge(t) \/ Correlate(t) \/ Open(t) \/ Resolve(t)
      PROVE  UNCHANGED alert
  BY <1>3 DEF Begin, Probe, Save, Judge, Correlate, Open, Resolve
<1> QED
  BY <1>1, <1>2, <1>3, WhoSteps DEF Tick, alert

(* A verdict that waits to be written was there, or has just been found.   *)
LEMMA VerdictMoves ==
  ASSUME TypeOK, [Next]_vars, NEW t \in Tickers, at'[t] = "write"
  PROVE  \/ Judge(t) /\ cur'[t] = cur[t]
         \/ /\ at[t] = "write" /\ cur'[t] = cur[t]
            /\ newLevel'[t] = newLevel[t] /\ newSince'[t] = newSince[t]
<1> USE DEF TypeOK, Goto
<1>1. ASSUME NEW u \in Tickers, u # t, Tick(u) \/ Abort(u)
      PROVE  /\ at'[t] = at[t] /\ cur'[t] = cur[t]
             /\ newLevel'[t] = newLevel[t] /\ newSince'[t] = newSince[t]
  <2>1. CASE Begin(u) \/ Probe(u) \/ Save(u) \/ Correlate(u) \/ Open(u)
    BY <1>1, <2>1 DEF Begin, Probe, Save, Correlate, Open, verdict
  <2>2. CASE Skip(u) \/ WriteHealthy(u)
    BY <1>1, <2>2 DEF Skip, WriteHealthy, NextRouter, verdict
  <2>3. CASE Judge(u)
    <3>1. /\ newSince' = [newSince EXCEPT ![u] = StartOf(u)]
          /\ newLevel' = [newLevel EXCEPT ![u] = DesiredOf(u)]
      BY <2>3, JudgeFacts
    <3> QED
      BY <1>1, <2>3, <3>1 DEF Judge
  <2>4. CASE Write(u)
    BY <1>1, <2>4 DEF Write, NextRouter, ForgetVerdict
  <2>5. CASE Resolve(u) \/ Abort(u)
    BY <1>1, <2>5 DEF Resolve, Abort, Forget, ForgetVerdict
  <2> QED
    BY <1>1, <2>1, <2>2, <2>3, <2>4, <2>5 DEF Tick
<1>2. CASE Tick(t)
  <2>1. CASE Judge(t)
    BY <2>1 DEF Judge
  <2>2. CASE Begin(t) \/ Probe(t) \/ Save(t) \/ Correlate(t) \/ Open(t) \/ Resolve(t)
    <3>1. at'[t] # "write"
      BY <2>2 DEF Begin, Probe, Save, Correlate, Open, Resolve
    <3> QED
      BY <3>1
  <2>3. CASE Skip(t) \/ Write(t) \/ WriteHealthy(t)
    <3>1. at'[t] # "write"
      BY <2>3 DEF Skip, Write, WriteHealthy, NextRouter
    <3> QED
      BY <3>1
  <2> QED
    BY <1>2, <2>1, <2>2, <2>3 DEF Tick
<1>3. CASE Abort(t)
  BY <1>3 DEF Abort
<1>4. CASE UNCHANGED <<at, cur, verdict>>
  BY <1>4 DEF verdict
<1> QED
  BY <1>1, <1>2, <1>3, <1>4 DEF Next, Change, Advance, vars

(* Time does not run backwards, and checked is a time that was read.       *)
LEMMA ClockMoves ==
  ASSUME TypeOK, [Next]_vars
  PROVE  now' >= now /\ \A t \in Tickers : checked'[t] \in {checked[t], now, 0}
<1> USE DEF TypeOK, Times
<1>1. ASSUME NEW u \in Tickers, Tick(u) PROVE now' = now
  BY <1>1, OtherTypes
<1>2. ASSUME NEW u \in Tickers, Abort(u) PROVE now' = now
  BY <1>2 DEF Abort
<1>3. ASSUME NEW u \in Tickers, Begin(u), NEW t \in Tickers
      PROVE  checked'[t] \in {checked[t], now, 0}
  BY <1>3 DEF Begin
<1>4. ASSUME NEW u \in Tickers, Resolve(u) \/ Abort(u), NEW t \in Tickers
      PROVE  checked'[t] \in {checked[t], now, 0}
  BY <1>4 DEF Resolve, Abort, Forget
<1>5. ASSUME NEW u \in Tickers, Tick(u), ~Begin(u), ~Resolve(u)
      PROVE  checked' = checked
  BY <1>5 DEF Tick, Skip, Probe, Save, Judge, Write, WriteHealthy, Correlate, Open, snapshot
<1>6. CASE Change \/ Advance \/ UNCHANGED vars
  BY <1>6 DEF Change, Advance, vars, snapshot
<1>7. ASSUME NEW u \in Tickers, Tick(u) \/ Abort(u)
      PROVE  now' >= now /\ \A t \in Tickers : checked'[t] \in {checked[t], now, 0}
  <2>1. now' >= now
    BY <1>1, <1>2, <1>7
  <2> QED
    BY <2>1, <1>3, <1>4, <1>5, <1>7
<1> QED
  BY <1>6, <1>7 DEF Next

(* What was heard is only ever heard again.                                *)
LEMMA HeardMoves ==
  ASSUME TypeOK, [Next]_vars, NEW r \in Routers, NEW n \in 1..3
  PROVE  heard'[r][n] = heard[r][n] \/ (heard'[r][n] = now /\ now' = now)
<1> USE DEF TypeOK
<1>1. ASSUME NEW t \in Tickers, Judge(t)
      PROVE  heard'[r][n] \in {heard[r][n], now} /\ now' = now
  <2>1. ASSUME NEW q \in Routers, NEW m \in 0..3, Announce(q, m) \/ Withhold(q, m)
        PROVE  heard'[r][n] \in {heard[r][n], now}
    <3>1. heard' \in {heard, [heard EXCEPT ![q][m] = now]}
      BY <2>1 DEF Announce, Withhold, escalation
    <3>2. [heard EXCEPT ![q][m] = now][r][n] \in {heard[r][n], now}
      OBVIOUS
    <3> QED
      BY <3>1, <3>2
  <2> QED
    BY <1>1, <2>1, JudgeFacts DEF Judge, escalation
<1>2. (\A t \in Tickers : ~Judge(t)) => heard' = heard
  BY WhoSteps, Quiet DEF escalation
<1> QED
  BY <1>1, <1>2

(* A level that was told stays told, and tells of the levels below it.     *)
LEMMA ToldStays ==
  ASSUME TypeOK, TypeOK', Dated, [Next]_vars, NEW r \in Routers, NEW n \in Int, NEW s \in Int,
         Told(r, n, s)
  PROVE  Told(r, n, s)'
<1>1. PICK m \in n..3 : m > 0 /\ heard[r][m] # NoTime /\ heard[r][m] + Dedup > s
  BY DEF Told
<1>2. m \in 1..3 /\ heard[r][m] \in Moments /\ heard[r][m] <= now /\ now \in Times
  BY <1>1 DEF TypeOK, Dated
<1>3. heard'[r][m] = heard[r][m] \/ heard'[r][m] = now
  BY <1>2, HeardMoves
<1>4. heard'[r][m] # NoTime /\ heard'[r][m] + Dedup > s
  BY <1>1, <1>2, <1>3 DEF Moments, Times, NoTime
<1> QED
  BY <1>1, <1>4 DEF Told

(* Clocks read stay clocks past.                                           *)
LEMMA DatedStep ==
  ASSUME TypeOK, TypeOK', Dated, [Next]_vars
  PROVE  Dated'
<1> USE DEF TypeOK, Moments, Times, NoTime
<1>0. now' >= now /\ now \in Times /\ now' \in Times
  BY ClockMoves
<1>1. ASSUME NEW r \in Routers PROVE since'[r] <= now' /\ (level'[r] > 0 => since'[r] # NoTime)
  <2>1. ASSUME NEW t \in Tickers, at[t] = "write", since'[r] = newSince[t]
        PROVE  since'[r] <= now' /\ since'[r] # NoTime
    <3>1. newSince[t] <= now /\ newSince[t] # NoTime /\ newSince[t] \in Moments
      BY <2>1 DEF Dated
    <3> QED
      BY <1>0, <2>1, <3>1
  <2>2. CASE level'[r] = level[r] /\ since'[r] = since[r]
    <3>1. since[r] <= now /\ since[r] \in Moments /\ (level[r] > 0 => since[r] # NoTime)
      BY DEF Dated
    <3> QED
      BY <1>0, <2>2, <3>1
  <2>3. CASE level'[r] = 0 /\ since'[r] = NoTime
    BY <1>0, <2>3
  <2> QED
    BY <2>1, <2>2, <2>3, RowMoves
<1>2. ASSUME NEW r \in Routers, NEW n \in 1..3 PROVE heard'[r][n] <= now'
  <2>1. heard[r][n] <= now /\ heard[r][n] \in Moments
    BY DEF Dated
  <2> QED
    <3>1. heard'[r][n] = heard[r][n] \/ heard'[r][n] = now
      BY HeardMoves
    <3> QED
      BY <1>0, <2>1, <3>1
<1>3. ASSUME NEW t \in Tickers PROVE checked'[t] <= now'
  <2>1. checked[t] <= now /\ checked[t] \in Times /\ checked'[t] \in {checked[t], now, 0}
    BY ClockMoves DEF Dated
  <2> QED
    BY <1>0, <2>1
<1>4. ASSUME NEW t \in Tickers
      PROVE  newSince'[t] <= now' /\ (at'[t] = "write" => newSince'[t] # NoTime)
  <2>1. StartOf(t) <= now /\ (Judge(t) => newSince'[t] = StartOf(t) /\ StartOf(t) # NoTime)
    <3>1. StartOf(t) <= now
      BY DEF StartOf, Dated
    <3>2. Judge(t) => newSince'[t] = StartOf(t) /\ StartOf(t) # NoTime
      BY JudgeFacts
    <3> QED
      BY <3>1, <3>2
  <2>2. CASE at'[t] = "write"
    <3>1. newSince[t] <= now /\ (at[t] = "write" => newSince[t] # NoTime)
      BY DEF Dated
    <3>2. \/ at[t] = "write" /\ newSince'[t] = newSince[t]
          \/ Judge(t)
      BY <2>2, VerdictMoves
    <3>3. StartOf(t) \in Int /\ newSince[t] \in Int
      BY DEF StartOf
    <3> QED
      BY <1>0, <2>1, <3>1, <3>2, <3>3
  <2>3. CASE at'[t] # "write"
    <3>1. newSince'[t] \in {newSince[t], NoTime}
      <4>1. ASSUME NEW u \in Tickers, Judge(u) PROVE newSince'[t] = newSince[t]
        <5>1. at'[u] = "write"
          BY <4>1 DEF Judge, Goto
        <5>2. newSince' = [newSince EXCEPT ![u] = StartOf(u)]
          BY <4>1, JudgeFacts
        <5> QED
          BY <2>3, <5>1, <5>2
      <4>2. ASSUME NEW u \in Tickers, Write(u) \/ Resolve(u) \/ Abort(u)
            PROVE  newSince'[t] \in {newSince[t], NoTime}
        BY <4>2 DEF Write, Resolve, Abort, Forget, ForgetVerdict
      <4>3. ASSUME NEW u \in Tickers, Tick(u), ~Judge(u), ~Write(u), ~Resolve(u)
            PROVE  newSince' = newSince
        BY <4>3 DEF Tick, Begin, Skip, Probe, Save, WriteHealthy, Correlate, Open, verdict
      <4> QED
        BY <4>1, <4>2, <4>3 DEF Next, Change, Advance, vars, verdict
    <3> QED
      BY <2>3, <3>1, ClockMoves DEF Dated
  <2> QED
    BY <2>2, <2>3
<1> QED
  BY <1>1, <1>2, <1>3, <1>4 DEF Dated

-------------------------------------------------------------------------------
(* The verdict of a tick is told before it is written.                     *)
ToldNext(r, n, start) ==
  \E m \in n..3 : m > 0 /\ heard'[r][m] # NoTime /\ heard'[r][m] + Dedup > start

LEMMA AnnouncementIsTold ==
  ASSUME TypeOK, Dated, Announced, NEW r \in Routers, NEW n \in 1..3, NEW s \in Int,
         s <= now, since[r] # NoTime => s = since[r],
         \/ n > level[r] /\ Announce(r, n)
         \/ n > level[r] /\ Withhold(r, n)
         \/ ~(n > level[r]) /\ UNCHANGED escalation
  PROVE  ToldNext(r, n, s)
<1>0. level[r] \in 0..3 /\ now \in Int
  BY DEF TypeOK, Times
<1>1. /\ heard \in [Routers -> [1..3 -> Moments]] /\ NoTime \notin Times /\ now \in Times
      /\ latest[r].when \in Moments
  BY DEF TypeOK, Times, NoTime
<1>2. CASE heard' = [heard EXCEPT ![r][n] = now]
  <2>1. heard'[r][n] = now
    BY <1>1, <1>2
  <2>2. now # NoTime /\ now + Dedup > s /\ n \in n..3 /\ n > 0
    BY <1>0, <1>1
  <2> QED
    BY <2>1, <2>2 DEF ToldNext
<1>3. CASE Repeats(r, n) /\ UNCHANGED escalation
  <2>1. latest[r].level = n /\ now - latest[r].when < Dedup /\ heard' = heard
    BY <1>3 DEF Repeats, escalation
  <2>2. heard[r][n] # NoTime /\ heard[r][n] >= latest[r].when
    BY <2>1 DEF Announced
  <2>3. heard[r][n] \in Int /\ latest[r].when \in Int
    BY <1>1 DEF Moments, Times, NoTime
  <2>4. heard[r][n] + Dedup > s /\ n \in n..3 /\ n > 0
    BY <1>0, <2>1, <2>2, <2>3
  <2> QED
    BY <2>1, <2>2, <2>4 DEF ToldNext
<1>4. CASE ~(n > level[r]) /\ UNCHANGED escalation
  <2>1. level[r] > 0 /\ n <= level[r] /\ since[r] # NoTime /\ heard' = heard
    BY <1>0, <1>4 DEF Dated, escalation
  <2>2. Told(r, level[r], s)
    BY <2>1 DEF Announced, LevelsAreAnnounced
  <2>3. PICK m \in level[r]..3 : m > 0 /\ heard[r][m] # NoTime /\ heard[r][m] + Dedup > s
    BY <2>2 DEF Told
  <2>4. m \in n..3
    BY <1>0, <2>1
  <2> QED
    BY <2>1, <2>3, <2>4 DEF ToldNext
<1> QED
  BY <1>2, <1>3, <1>4 DEF Announce, Withhold

(* So is the verdict that a tick has just found. *)
LEMMA VerdictIsTold ==
  ASSUME TypeOK, Dated, Announced, NEW t \in Tickers, Judge(t), DesiredOf(t) > 0
  PROVE  ToldNext(cur[t], DesiredOf(t), StartOf(t))
<1>1. StartOf(t) <= now /\ (since[cur[t]] # NoTime => StartOf(t) = since[cur[t]])
  BY JudgeFacts DEF StartOf, Dated
<1>2. StartOf(t) \in Int /\ DesiredOf(t) \in 1..3 /\ cur[t] \in Routers
  BY JudgeFacts DEF Times
<1> QED
  BY <1>1, <1>2, JudgeFacts, AnnouncementIsTold

(* A row says no more than was told, however ticks overlap.                *)
LEMMA AnnouncedStep ==
  ASSUME TypeOK, TypeOK', Dated, Announced, [Next]_vars
  PROVE  Announced'
<1>1. ASSUME NEW r \in Routers, level'[r] > 0 PROVE Told(r, level[r], since[r])'
  <2>1. ASSUME NEW n \in 0..3, NEW s \in Moments, n = level'[r], s = since'[r], Told(r, n, s)
        PROVE  Told(r, level[r], since[r])'
    <3>1. s \in Int
      BY DEF Moments, Times, NoTime
    <3>2. Told(r, n, s)'
      BY <2>1, <3>1, ToldStays
    <3> QED
      BY <2>1, <3>2 DEF Told
  <2>2. level'[r] \in 0..3 /\ since'[r] \in Moments
    BY DEF TypeOK
  <2>3. Told(r, level'[r], since'[r])
    BY <1>1, RowMoves DEF Announced, LevelsAreAnnounced
  <2> QED
    BY <2>1, <2>2, <2>3
<1>2. ASSUME NEW r \in Routers, latest'[r].level > 0
      PROVE  /\ heard'[r][latest'[r].level] # NoTime
             /\ heard'[r][latest'[r].level] >= latest'[r].when
  <2> USE DEF TypeOK, Moments, Times, NoTime
  <2>1. latest[r].level \in 0..3 /\ latest[r].when \in Int /\ now \in Nat
    OBVIOUS
  <2>2. CASE latest' = latest
    <3>1. latest[r].level \in 1..3 /\ heard[r][latest[r].level] <= now
      BY <1>2, <2>1, <2>2 DEF Dated
    <3>2. heard[r][latest[r].level] # NoTime /\ heard[r][latest[r].level] >= latest[r].when
      BY <3>1 DEF Announced
    <3>3. \/ heard'[r][latest[r].level] = heard[r][latest[r].level]
          \/ heard'[r][latest[r].level] = now
      BY <3>1, HeardMoves
    <3> QED
      BY <2>1, <2>2, <3>1, <3>2, <3>3
  <2>3. ASSUME NEW q \in Routers, NEW n \in 1..3,
               latest' = [latest EXCEPT ![q] = [level |-> n, when |-> now]],
               heard' = [heard EXCEPT ![q][n] = now]
        PROVE  /\ heard'[r][latest'[r].level] # NoTime
               /\ heard'[r][latest'[r].level] >= latest'[r].when
    <3>1. CASE r = q
      BY <2>1, <2>3, <3>1
    <3>2. CASE r # q
      <4>1. latest'[r] = latest[r] /\ heard'[r] = heard[r]
        BY <2>3, <3>2
      <4> QED
        BY <1>2, <4>1 DEF Announced
    <3> QED
      BY <3>1, <3>2
  <2>4. ASSUME NEW t \in Tickers, Judge(t), latest' # latest
        PROVE  \E q \in Routers, n \in 1..3 :
                 /\ latest' = [latest EXCEPT ![q] = [level |-> n, when |-> now]]
                 /\ heard' = [heard EXCEPT ![q][n] = now]
    <3>1. /\ cur[t] \in Routers /\ DesiredOf(t) \in 0..3 /\ level[cur[t]] \in 0..3
          /\ \/ DesiredOf(t) > level[cur[t]] /\ Announce(cur[t], DesiredOf(t))
             \/ DesiredOf(t) > level[cur[t]] /\ Withhold(cur[t], DesiredOf(t))
             \/ ~(DesiredOf(t) > level[cur[t]]) /\ UNCHANGED escalation
      BY <2>4, JudgeFacts
    <3>2. DesiredOf(t) > level[cur[t]] /\ Announce(cur[t], DesiredOf(t))
      BY <2>4, <3>1 DEF Withhold, escalation
    <3>3. DesiredOf(t) \in 1..3
      BY <3>1, <3>2
    <3> QED
      BY <2>4, <3>1, <3>2, <3>3 DEF Announce, escalation
  <2>5. (\A t \in Tickers : ~Judge(t)) => latest' = latest
    BY WhoSteps, Quiet DEF escalation
  <2> QED
    BY <2>2, <2>3, <2>4, <2>5
<1>3. ASSUME NEW t \in Tickers, at'[t] = "write", newLevel'[t] > 0
      PROVE  Told(cur[t], newLevel[t], newSince[t])'
  <2>1. CASE Judge(t)
    <3>1. newLevel'[t] = DesiredOf(t) /\ newSince'[t] = StartOf(t) /\ cur'[t] = cur[t]
      <4>1. newSince \in [Tickers -> Moments] /\ newLevel \in [Tickers -> 0..3]
        BY DEF TypeOK
      <4>2. /\ newSince' = [newSince EXCEPT ![t] = StartOf(t)]
            /\ newLevel' = [newLevel EXCEPT ![t] = DesiredOf(t)]
        BY <2>1, JudgeFacts
      <4>3. cur' = cur
        BY <2>1 DEF Judge
      <4> QED
        BY <4>1, <4>2, <4>3
    <3>2. ToldNext(cur[t], DesiredOf(t), StartOf(t))
      BY <1>3, <2>1, <3>1, VerdictIsTold
    <3> QED
      BY <3>1, <3>2 DEF Told, ToldNext
  <2>2. CASE /\ at[t] = "write" /\ cur'[t] = cur[t]
             /\ newLevel'[t] = newLevel[t] /\ newSince'[t] = newSince[t]
    <3>1. ASSUME NEW r \in Routers, NEW n \in 0..3, NEW s \in Moments,
                 r = cur[t], n = newLevel[t], s = newSince[t]
          PROVE  Told(cur[t], newLevel[t], newSince[t])'
      <4>1. Told(r, n, s) /\ s \in Int
        BY <1>3, <2>2, <3>1 DEF Announced, Moments, Times, NoTime
      <4>2. Told(r, n, s)'
        BY <4>1, ToldStays
      <4> QED
        BY <2>2, <3>1, <4>2 DEF Told
    <3> QED
      BY <3>1 DEF TypeOK
  <2> QED
    BY <1>3, <2>1, <2>2, VerdictMoves
<1> QED
  BY <1>1, <1>2, <1>3 DEF Announced, LevelsAreAnnounced

(* No escalation is swallowed: for any fleet, thresholds and ticks, the    *)
(* level an alert row stores was announced in the outage, or so shortly    *)
(* before that the repetition was dropped, or a window held it back.       *)
THEOREM LevelsAnnounced == Spec => []LevelsAreAnnounced
<1>1. Init => Dated /\ Announced
  BY DEF Init, Dated, Announced, LevelsAreAnnounced, NoTime
<1>2. TypeOK /\ TypeOK' /\ Dated /\ Announced /\ [Next]_vars => Dated' /\ Announced'
  BY DatedStep, AnnouncedStep
<1>3. Announced => LevelsAreAnnounced
  BY DEF Announced
<1> QED
  BY <1>1, <1>2, <1>3, TypeCorrect, PTL DEF Spec

-------------------------------------------------------------------------------
(* What a tick found of a router is what is stored, until another stores.  *)
Kept(t, r) ==
  \/ result[t][r] = "none" \/ author[r] # t \/ access[r] = result[t][r]
  \/ at[t] = "save" /\ cur[t] = r

(* A tick's own steps keep what it stored. *)
LEMMA OwnStep ==
  ASSUME TypeOK, NEW t \in Tickers, NEW r \in Routers, Kept(t, r), Tick(t)
  PROVE  Kept(t, r)'
<1> USE DEF TypeOK, Goto
<1>0. cur[t] \in Routers
  OBVIOUS
<1>1. CASE Probe(t)
  <2>1. at[t] # "save" /\ at'[t] = "save" /\ cur' = cur /\ UNCHANGED <<access, author>>
    BY <1>1 DEF Probe
  <2>2. r # cur[t] => result'[t][r] = result[t][r]
    BY <1>0, <1>1 DEF Probe
  <2> QED
    BY <2>1, <2>2 DEF Kept
<1>2. CASE Save(t)
  <2>1. /\ UNCHANGED <<result, cur>> /\ access' = [access EXCEPT ![cur[t]] = result[t][cur[t]]]
        /\ author' = [author EXCEPT ![cur[t]] = t]
    BY <1>2 DEF Save
  <2> QED
    BY <1>0, <2>1 DEF Kept
<1>3. CASE Resolve(t)
  BY <1>3 DEF Resolve, Forget, Unknown, Kept
<1>4. ASSUME UNCHANGED <<access, author, result>>, at[t] # "save" PROVE Kept(t, r)'
  BY <1>4 DEF Kept
<1>5. CASE Begin(t) \/ Correlate(t) \/ Open(t)
  BY <1>4, <1>5 DEF Begin, Correlate, Open, found
<1>6. CASE Judge(t) \/ Write(t)
  BY <1>4, <1>6 DEF Judge, Write, found
<1>7. CASE Skip(t) \/ WriteHealthy(t)
  BY <1>4, <1>7 DEF Skip, WriteHealthy, found
<1> QED
  BY <1>1, <1>2, <1>3, <1>5, <1>6, <1>7 DEF Tick

(* Another's steps leave it, or store over it under their own name. *)
LEMMA OthersStep ==
  ASSUME TypeOK, NEW t \in Tickers, NEW r \in Routers, Kept(t, r),
         NEW u \in Tickers, u # t, Tick(u)
  PROVE  Kept(t, r)'
<1> USE DEF TypeOK, Goto
<1>0. cur[u] \in Routers
  OBVIOUS
<1>1. CASE Save(u)
  <2>1. /\ UNCHANGED <<result, cur>> /\ access' = [access EXCEPT ![cur[u]] = result[u][cur[u]]]
        /\ author' = [author EXCEPT ![cur[u]] = u] /\ at'[t] = at[t]
    BY <1>1 DEF Save
  <2> QED
    BY <1>0, <2>1 DEF Kept
<1>2. ASSUME UNCHANGED <<access, author>>, result'[t] = result[t], at'[t] = at[t], cur'[t] = cur[t]
      PROVE  Kept(t, r)'
  BY <1>2 DEF Kept
<1>3. CASE Probe(u)
  BY <1>2, <1>3 DEF Probe
<1>4. CASE Resolve(u)
  BY <1>2, <1>4 DEF Resolve, Forget
<1>5. CASE Begin(u) \/ Correlate(u) \/ Open(u) \/ Judge(u)
  BY <1>2, <1>5 DEF Begin, Correlate, Open, Judge, found
<1>6. CASE Skip(u) \/ Write(u) \/ WriteHealthy(u)
  BY <1>2, <1>6 DEF Skip, Write, WriteHealthy, NextRouter, found
<1> QED
  BY <1>1, <1>3, <1>4, <1>5, <1>6 DEF Tick

(* So the findings of every tick are stored, whatever the ticks and the world do. *)
LEMMA StoredStep ==
  ASSUME TypeOK, Stored, [Next]_vars
  PROVE  Stored'
<1> SUFFICES ASSUME NEW t \in Tickers, NEW r \in Routers PROVE Kept(t, r)'
  BY DEF Stored, Kept
<1>1. Kept(t, r)
  BY DEF Stored, Kept
<1>2. ASSUME NEW u \in Tickers, Tick(u) PROVE Kept(t, r)'
  BY <1>1, <1>2, OwnStep, OthersStep
<1>3. ASSUME NEW u \in Tickers, Abort(u) PROVE Kept(t, r)'
  <2>1. /\ UNCHANGED <<access, author>>
        /\ u # t => result'[t] = result[t] /\ at'[t] = at[t] /\ cur'[t] = cur[t]
        /\ u = t => result'[t][r] = "none"
    BY <1>3 DEF TypeOK, Abort, Goto, Forget, Unknown
  <2> QED
    BY <1>1, <2>1 DEF Kept
<1>4. CASE Change \/ Advance \/ UNCHANGED vars
  BY <1>1, <1>4 DEF Change, Advance, vars, found, Kept
<1> QED
  BY <1>2, <1>3, <1>4 DEF Next

(* An incident is resolved by a tick that answers for its routers. *)
LEMMA ResolvesItsFindings ==
  ASSUME TypeOK, Stored, [Next]_vars,
         NEW i \in Incidents, incident[i] = "open", incident'[i] = "resolved"
  PROVE  \E t \in Tickers :
           /\ at[t] = "resolve"
           /\ \A r \in victims[i] :
                \/ r \in inactive[t]
                \/ result[t][r] # "none" /\ (author[r] = t => access[r] = "ok")
<1>1. PICK t \in Tickers : Resolve(t)
  <2>1. ASSUME NEW t \in Tickers, Open(t) PROVE FALSE
    BY <2>1 DEF Open, TypeOK
  <2>2. ASSUME NEW t \in Tickers, Tick(t), ~Open(t), ~Resolve(t) PROVE FALSE
    BY <2>2 DEF Tick, Begin, Skip, Probe, Save, Judge, Write, WriteHealthy, Correlate, table
  <2>3. CASE UNCHANGED table
    BY <2>3 DEF table
  <2> QED
    BY <2>1, <2>2, <2>3, WhoSteps
<1>2. at[t] = "resolve" /\ \A r \in victims[i] : Recovered(t, r)
  BY <1>1 DEF Resolve
<1>3. ASSUME NEW r \in victims[i], r \notin inactive[t]
      PROVE  result[t][r] # "none" /\ (author[r] = t => access[r] = "ok")
  <2>1. r \in Routers /\ result[t][r] = "ok"
    BY <1>2, <1>3 DEF Recovered, TypeOK
  <2> QED
    BY <1>2, <2>1 DEF Stored
<1> QED
  BY <1>2, <1>3

(* An incident is resolved on the findings of one tick, which are those in *)
(* the table unless another tick has stored its own since.                 *)
THEOREM ResolvedAsFound == Spec => ResolvedOnFindings
<1>1. Init => Stored
  BY DEF Init, Stored, Unknown
<1>2. ASSUME TypeOK, Stored, [Next]_vars
      PROVE  [\A i \in Incidents : incident[i] = "open" /\ incident'[i] = "resolved" =>
                \E t \in Tickers :
                  /\ at[t] = "resolve"
                  /\ \A r \in victims[i] :
                       \/ r \in inactive[t]
                       \/ result[t][r] # "none" /\ (author[r] = t => access[r] = "ok")]_vars
  BY <1>2, ResolvesItsFindings
<1> QED
  BY <1>1, <1>2, TypeCorrect, StoredStep, PTL DEF Spec, ResolvedOnFindings

(* The invariant of the ticks, however many overlap: what is stored was    *)
(* told, found and read in the past.                                       *)
THEOREM Invariance == Spec => []IInv
<1>1. Init => IInv
  BY DEF Init, IInv, Dated, Announced, LevelsAreAnnounced, Stored, Unknown, NoTime
<1>2. TypeOK /\ TypeOK' /\ IInv /\ [Next]_vars => IInv'
  BY DatedStep, AnnouncedStep, StoredStep DEF IInv
<1> QED
  BY <1>1, <1>2, TypeCorrect, PTL DEF Spec
================================================================================
