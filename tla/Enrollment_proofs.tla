-------------------------- MODULE Enrollment_proofs --------------------------
(***************************************************************************)
(* The two ways in.  Routers come in by enrolment: theorems for any        *)
(* routers, tokens, pool of addresses and number of failures.  Technicians *)
(* come in by the relay: theorems about WinboxRelay, which has variables   *)
(* of its own, for any routers, sources, connections and bounds.           *)
(***************************************************************************)
EXTENDS Enrollment, WinboxRelay, TLAPS

USE PoolSizeAssumption, MaxFaultsAssumption

(* Every step keeps the types, and an address exactly for each row.        *)
LEMMA TypeStep ==
  ASSUME TypeOK, IInv, [Next]_vars
  PROVE  TypeOK'
<1> USE DEF TypeOK, database, local, Goto, Fault, Steps, RowStates, Addresses, NoAddress
<1>1. ASSUME NEW t \in Tokens, NEW k \in Keys, Arrive(t, k) PROVE TypeOK'
  <2>1. /\ token' \in [Tokens -> {"free", "pending", "used"}] /\ old' \subseteq Tokens
        /\ at' \in {"reserve", "unpeer"} /\ tok' \in Tokens /\ key' \in Keys /\ fresh' = FALSE
        /\ UNCHANGED <<peer, expired, faults, grants>>
    BY <1>1 DEF Arrive
  <2>2. CASE UNCHANGED <<row, addr, via>>
    BY <2>1, <2>2
  <2>3. CASE Drop(k)
    <3>1. row' = [row EXCEPT ![k] = "none"] /\ addr' = [addr EXCEPT ![k] = NoAddress]
          /\ via' = [via EXCEPT ![k] = {}]
      BY <2>3 DEF Drop
    <3> QED
      BY <2>1, <3>1
  <2> QED
    BY <1>1, <2>2, <2>3 DEF Arrive
<1>2. CASE Unpeer
  BY <1>2 DEF Unpeer, RemovePeer
<1>3. CASE Reserve
  <2>1. UNCHANGED <<peer, old, expired, tok, key, faults, grants>> /\ at' = "add" /\ fresh' \in BOOLEAN
    BY <1>3 DEF Reserve
  <2>2. token' \in [Tokens -> {"free", "pending", "used"}]
    BY <1>3 DEF Reserve
  <2>3. /\ row' \in [Keys -> RowStates] /\ addr' \in [Keys -> Addresses \cup {NoAddress}]
        /\ \A k \in Keys : row'[k] = "none" <=> addr'[k] = NoAddress
    <3>1. CASE UNCHANGED <<row, addr>>
      BY <3>1
    <3>2. ASSUME NEW ip \in Addresses, row' = [row EXCEPT ![key] = "pending"],
                 addr' = [addr EXCEPT ![key] = ip]
          PROVE  <2>3!1
      BY <3>2
    <3> QED
      BY <1>3, <3>1, <3>2 DEF Reserve
  <2>4. via' \in [Keys -> SUBSET Tokens]
    BY <1>3 DEF Reserve
  <2> QED
    BY <2>1, <2>2, <2>3, <2>4
<1>4. CASE Refuse
  BY <1>4 DEF Refuse
<1>5. CASE Add
  BY <1>5 DEF Add, AddPeer, Undo
<1>6. CASE Finalize
  BY <1>6 DEF Finalize, IInv, Consistent
<1>7. CASE FinalizeRaises
  BY <1>7 DEF FinalizeRaises, Undo
<1>8. CASE UndoPeer
  BY <1>8 DEF UndoPeer, RemovePeer
<1>9. CASE UndoRows
  BY <1>9 DEF UndoRows, Drop
<1>10. CASE Crash
  BY <1>10 DEF Crash
<1>11. ASSUME NEW k \in Keys, SetState(k) PROVE TypeOK'
  BY <1>11 DEF SetState
<1>12. ASSUME NEW t \in Tokens, Age(t) \/ Expire(t) PROVE TypeOK'
  BY <1>12 DEF Age, Expire
<1>13. CASE UNCHANGED vars
  BY <1>13 DEF vars
<1> QED
  BY <1>1, <1>2, <1>3, <1>4, <1>5, <1>6, <1>7, <1>8, <1>9, <1>10, <1>11, <1>12, <1>13
     DEF Next, Handler

(* What the handler holds stays true, whoever moves.                       *)
LEMMA ConsistentStep ==
  ASSUME TypeOK, IInv, [Next]_vars
  PROVE  Consistent'
<1> USE DEF TypeOK, IInv, Consistent, EnrolledReachable, Enrolled, database, local, Goto,
            Fault, Steps, RowStates, Addresses, NoAddress
<1>1. ASSUME NEW t \in Tokens, NEW k \in Keys, Arrive(t, k) PROVE Consistent'
  BY <1>1 DEF Arrive, Drop, Recoverable
<1>2. CASE Unpeer
  BY <1>2 DEF Unpeer, RemovePeer
<1>3. CASE Reserve
  BY <1>3 DEF Reserve
<1>4. CASE Refuse
  BY <1>4 DEF Refuse
<1>5. CASE Add
  BY <1>5 DEF Add, AddPeer, Undo, AddressesExclusive
<1>6. CASE Finalize
  BY <1>6 DEF Finalize
<1>7. CASE FinalizeRaises
  BY <1>7 DEF FinalizeRaises, Undo
<1>8. CASE UndoPeer
  BY <1>8 DEF UndoPeer, RemovePeer
<1>9. CASE UndoRows
  BY <1>9 DEF UndoRows, Drop
<1>10. CASE Crash
  BY <1>10 DEF Crash
<1>11. ASSUME NEW k \in Keys, SetState(k) PROVE Consistent'
  BY <1>11 DEF SetState
<1>12. ASSUME NEW t \in Tokens, Age(t) \/ Expire(t) PROVE Consistent'
  BY <1>12 DEF Age, Expire
<1>13. CASE UNCHANGED vars
  BY <1>13 DEF vars
<1> QED
  BY <1>1, <1>2, <1>3, <1>4, <1>5, <1>6, <1>7, <1>8, <1>9, <1>10, <1>11, <1>12, <1>13
     DEF Next, Handler

(* Addresses stay exclusive and enrolled routers reachable.                *)
LEMMA AddressStep ==
  ASSUME TypeOK, IInv, [Next]_vars
  PROVE  EnrolledReachable' /\ AddressesExclusive'
<1> USE DEF TypeOK, IInv, Consistent, EnrolledReachable, Enrolled, AddressesExclusive,
            database, local, Goto, Steps, RowStates, Addresses, NoAddress
<1>1. ASSUME NEW t \in Tokens, NEW k \in Keys, Arrive(t, k)
      PROVE  EnrolledReachable' /\ AddressesExclusive'
  BY <1>1 DEF Arrive, Drop, Recoverable
<1>2. CASE Unpeer
  BY <1>2 DEF Unpeer, RemovePeer
<1>3. CASE Reserve
  <2>1. CASE UNCHANGED <<row, addr>>
    BY <1>3, <2>1 DEF Reserve
  <2>2. ASSUME NEW ip \in Addresses, NextAddress(ip), peer[key] = NoAddress,
               row' = [row EXCEPT ![key] = "pending"], addr' = [addr EXCEPT ![key] = ip]
        PROVE  EnrolledReachable' /\ AddressesExclusive'
    <3>1. \A k \in Keys : addr[k] # ip /\ peer[k] # ip
      BY <2>2 DEF NextAddress, Taken
    <3>2. peer' = peer
      BY <1>3 DEF Reserve
    <3> QED
      BY <2>2, <3>1, <3>2
  <2> QED
    BY <1>3, <2>1, <2>2 DEF Reserve
<1>4. CASE Refuse
  BY <1>4 DEF Refuse
<1>5. CASE Add
  <2>1. CASE UNCHANGED peer
    BY <1>5, <2>1 DEF Add
  <2>2. CASE AddPeer(key, addr[key])
    <3>1. ASSUME NEW k \in Keys \ {key} PROVE peer'[k] = peer[k]
      <4>1. {addr[k], peer[k]} \cap {addr[key], peer[key]} \subseteq {NoAddress}
        BY DEF IInv, AddressesExclusive
      <4> QED
        BY <4>1, <2>2 DEF AddPeer
    <3>2. peer'[key] = addr[key] /\ UNCHANGED <<row, addr>>
      BY <2>2, <1>5 DEF AddPeer, Add
    <3> QED
      BY <3>1, <3>2
  <2> QED
    BY <1>5, <2>1, <2>2 DEF Add
<1>6. CASE Finalize
  BY <1>6 DEF Finalize
<1>7. CASE FinalizeRaises
  BY <1>7 DEF FinalizeRaises
<1>8. CASE UndoPeer
  BY <1>8 DEF UndoPeer, RemovePeer
<1>9. CASE UndoRows
  BY <1>9 DEF UndoRows, Drop
<1>10. CASE Crash
  BY <1>10 DEF Crash
<1>11. ASSUME NEW k \in Keys, SetState(k) PROVE EnrolledReachable' /\ AddressesExclusive'
  BY <1>11 DEF SetState
<1>12. ASSUME NEW t \in Tokens, Age(t) \/ Expire(t)
       PROVE EnrolledReachable' /\ AddressesExclusive'
  BY <1>12 DEF Age, Expire
<1>13. CASE UNCHANGED vars
  BY <1>13 DEF vars
<1> QED
  BY <1>1, <1>2, <1>3, <1>4, <1>5, <1>6, <1>7, <1>8, <1>9, <1>10, <1>11, <1>12, <1>13
     DEF Next, Handler

(* The inductive invariant holds in every behaviour: rows, peers, tokens   *)
(* and the handler agree between any two steps.                            *)
THEOREM Invariance == Spec => [](TypeOK /\ IInv)
<1>1. ASSUME Init PROVE TypeOK /\ IInv
  <2>1. TypeOK
    <3>1. \A k \in Keys : row[k] = "none" /\ addr[k] = NoAddress
      BY <1>1 DEF Init
    <3>2. row \in [Keys -> RowStates] /\ addr \in [Keys -> Addresses \cup {NoAddress}]
      BY <1>1 DEF Init, RowStates
    <3>3. faults \in 0..MaxFaults
      BY <1>1 DEF Init
    <3> QED
      BY <1>1, <3>1, <3>2, <3>3 DEF Init, TypeOK, Steps
  <2>2. EnrolledReachable /\ AddressesExclusive
    BY <1>1 DEF Init, EnrolledReachable, Enrolled, AddressesExclusive
  <2>3. Consistent
    BY <1>1 DEF Init, Consistent
  <2> QED
    BY <2>1, <2>2, <2>3 DEF IInv
<1>2. TypeOK /\ IInv /\ [Next]_vars => (TypeOK /\ IInv)'
  BY TypeStep, ConsistentStep, AddressStep DEF IInv
<1> QED
  BY <1>1, <1>2, PTL DEF Spec

(* Types, and an address for each row and no other.                        *)
THEOREM TypeCorrect == Spec => []TypeOK
BY Invariance, PTL

(* An enrolled router keeps its peer and its address.                      *)
THEOREM Reachable == Spec => []EnrolledReachable
<1>1. IInv => EnrolledReachable
  BY DEF IInv
<1> QED
  BY Invariance, <1>1, PTL

(* No address serves two routers.                                          *)
THEOREM Exclusive == Spec => []AddressesExclusive
<1>1. IInv => AddressesExclusive
  BY DEF IInv
<1> QED
  BY Invariance, <1>1, PTL

(* A token enrols at most once.                                            *)
THEOREM SpentOnce == Spec => []TokenSpentOnce
<1>1. IInv => TokenSpentOnce
  BY DEF IInv, Consistent, TokenSpentOnce
<1> QED
  BY Invariance, <1>1, PTL

(* A step of an enrolment never takes an enrolled router away.             *)
THEOREM Stay == Spec => EnrolledStay
<1>1. TypeOK /\ IInv /\ [Next]_vars =>
        [\A k \in Keys : Enrolled(k) =>
           row'[k] \in {"enabled", "retired"} /\ addr'[k] = addr[k]]_vars
  <2> SUFFICES ASSUME TypeOK, IInv, Next, NEW k \in Keys, Enrolled(k)
               PROVE  row'[k] \in {"enabled", "retired"} /\ addr'[k] = addr[k]
    OBVIOUS
  <2> USE DEF TypeOK, IInv, Consistent, Enrolled, database, local
  <2>1. ASSUME NEW t \in Tokens, NEW j \in Keys, Arrive(t, j)
        PROVE  row'[k] \in {"enabled", "retired"} /\ addr'[k] = addr[k]
    BY <2>1 DEF Arrive, Drop, Recoverable
  <2>2. CASE Handler
    BY <2>2 DEF Handler, Unpeer, Reserve, Refuse, Add, Finalize, FinalizeRaises,
                UndoPeer, UndoRows, Drop, NextAddress
  <2>3. CASE Crash
    BY <2>3 DEF Crash
  <2>4. ASSUME NEW j \in Keys, SetState(j)
        PROVE  row'[k] \in {"enabled", "retired"} /\ addr'[k] = addr[k]
    BY <2>4 DEF SetState
  <2>5. ASSUME NEW t \in Tokens, Age(t) \/ Expire(t)
        PROVE  row'[k] \in {"enabled", "retired"} /\ addr'[k] = addr[k]
    BY <2>5 DEF Age, Expire
  <2> QED
    BY <2>1, <2>2, <2>3, <2>4, <2>5 DEF Next
<1> QED
  BY Invariance, <1>1, PTL DEF Spec, EnrolledStay

-------------------------------------------------------------------------------
(***************************************************************************)
(* The relay.                                                              *)
(***************************************************************************)
USE MaxChangesAssumption, MaxFailuresAssumption

Dashboard ==
  \/ \E s \in Sources : AuthorizeCurrent(s) \/ AddAlways(s) \/ DeleteAccess(s) \/ Lapse(s)
  \/ \E r \in Routers : SetLife(r)

(* The dashboard and the lifecycle form keep the types of the relay.       *)
LEMMA DashboardTypes ==
  ASSUME RelayTypeOK, Dashboard PROVE RelayTypeOK'
<1>1. /\ grant' \in [Sources -> {"none", "temporary", "lapsed", "permanent"}]
      /\ changes' \in 0..MaxChanges
  BY DEF RelayTypeOK, Dashboard, Changing, AuthorizeCurrent, AddAlways, DeleteAccess, Lapse, SetLife
<1>2. active' \in [Routers -> BOOLEAN]
  <2>1. ASSUME NEW r \in Routers, SetLife(r) PROVE active' \in [Routers -> BOOLEAN]
    BY <2>1, Zenon DEF SetLife, RelayTypeOK
  <2>2. CASE UNCHANGED active
    BY <2>2 DEF RelayTypeOK
  <2> QED
    BY <2>1, <2>2 DEF Dashboard, AuthorizeCurrent, AddAlways, DeleteAccess, Lapse
<1>3. UNCHANGED <<port, loop, relays, failures>>
  BY DEF Dashboard, AuthorizeCurrent, AddAlways, DeleteAccess, Lapse, SetLife
<1> QED
  BY <1>1, <1>2, <1>3 DEF RelayTypeOK, loop, relays

(* So does the main loop, ...                                              *)
LEMMA LoopTypes ==
  ASSUME RelayTypeOK, MainLoop \/ Die PROVE RelayTypeOK'
<1> USE DEF RelayTypeOK, tables, loop, relays
<1>1. CASE Scan
  BY <1>1 DEF Scan
<1>2. CASE Close
  BY <1>2 DEF Close, Unwanted
<1>3. CASE Waited
  BY <1>3 DEF Waited
<1>4. CASE Closed
  BY <1>4 DEF Closed
<1>5. CASE Bind
  BY <1>5 DEF Bind
<1>6. CASE Rest
  BY <1>6 DEF Rest
<1>7. CASE Die
  BY <1>7 DEF Die
<1> QED
  BY <1>1, <1>2, <1>3, <1>4, <1>5, <1>6, <1>7 DEF MainLoop

(* ... and so do the connections.                                          *)
LEMMA ConnectionTypes ==
  ASSUME RelayTypeOK, NEW c \in Connections,
         Accept(c) \/ Connect(c) \/ AuthorizationWatch(c) \/ Leave(c) \/ Ended(c)
  PROVE  RelayTypeOK'
BY DEF RelayTypeOK, tables, loop, Accept, Connect, AuthorizationWatch, Leave, Ended

(* Tables, main loop and connections keep their types.                     *)
THEOREM RelayTypeCorrect == RelaySpec => []RelayTypeOK
<1>1. RelayInit => RelayTypeOK
  BY DEF RelayInit, RelayTypeOK
<1>2. RelayTypeOK /\ [RelayNext]_relayVars => RelayTypeOK'
  <2>1. CASE UNCHANGED relayVars
    BY <2>1 DEF relayVars, tables, loop, relays, RelayTypeOK
  <2> QED
    BY <2>1, DashboardTypes, LoopTypes, ConnectionTypes DEF RelayNext, Dashboard
<1> QED
  BY <1>1, <1>2, PTL DEF RelaySpec

-------------------------------------------------------------------------------
(* No step leaves a connection on a closed port.                           *)
LEMMA ClosedStep ==
  ASSUME RelayTypeOK, ClosedServesNobody, [RelayNext]_relayVars PROVE ClosedServesNobody'
<1> USE DEF RelayTypeOK, ClosedServesNobody
<1>1. CASE Close
  BY <1>1 DEF Close, relays
<1>2. CASE Waited
  <2>1. /\ port' = [port EXCEPT ![cur] = "closed"] /\ UNCHANGED <<phase, to>>
        /\ \A c \in Connections : phase[c] # "none" => to[c] # cur
    BY <1>2 DEF Waited, Drained, relays
  <2> QED
    BY <2>1
<1>3. CASE Bind
  BY <1>3 DEF Bind, relays
<1>4. CASE Die
  BY <1>4 DEF Die
<1>5. ASSUME NEW c \in Connections, Accept(c) PROVE ClosedServesNobody'
  BY <1>5 DEF Accept
<1>6. ASSUME NEW c \in Connections, Connect(c) \/ AuthorizationWatch(c) \/ Leave(c) \/ Ended(c)
      PROVE  ClosedServesNobody'
  BY <1>6 DEF Connect, AuthorizationWatch, Leave, Ended
<1>7. CASE UNCHANGED <<port, relays>>
  BY <1>7 DEF relays
<1> QED
  BY <1>1, <1>2, <1>3, <1>4, <1>5, <1>6, <1>7 DEF RelayNext, MainLoop, Scan, Closed, Rest,
     AuthorizeCurrent, AddAlways, DeleteAccess, Lapse, SetLife, relayVars

(* No connection outlives the port it came in by, for any number of        *)
(* connections and however the main loop and the relays interleave.        *)
THEOREM ClosedServes == RelaySpec => []ClosedServesNobody
<1>1. RelayInit => ClosedServesNobody
  BY DEF RelayInit, ClosedServesNobody
<1> QED
  BY <1>1, RelayTypeCorrect, ClosedStep, PTL DEF RelaySpec
===============================================================================
