------------------------------ MODULE Enrollment ------------------------------
(***************************************************************************)
(* Enrolment of a router (main.enroll): a row and a WireGuard peer must    *)
(* appear together, though the database and WireGuard share no             *)
(* transaction.  The handler reserves the row and marks the token pending, *)
(* has a privileged helper add the peer, and finalizes both rows; it may   *)
(* fail or die at each step, and a helper that reports an error may have   *)
(* acted all the same.  The handler never awaits: enrolments, and the      *)
(* lifecycle form, run one after the other on the event loop.              *)
(***************************************************************************)
EXTENDS Naturals

CONSTANTS Keys,       \* the WireGuard public keys of the routers
          Persistent, \* those whose operator runs the script until it works
          Tokens,     \* the enrolment tokens
          PoolSize,   \* how many addresses WG_ROUTER_POOL has
          MaxFaults   \* bound: deaths, failed statements and failed helpers

ASSUME PersistentAssumption == Persistent \subseteq Keys
ASSUME PoolSizeAssumption == PoolSize \in Nat
ASSUME MaxFaultsAssumption == MaxFaults \in Nat

Addresses == 1..PoolSize
NoAddress == 0

RowStates == {"none", "pending", "stuck", "enabled", "retired"}
Steps == {"idle", "unpeer", "reserve", "add", "finalize", "undoPeer", "undoRows"}

VARIABLES row,      \* routers: pending is a row of an enrolment under way, stuck
                    \* a disabled row that somebody else has edited
          addr,     \* routers.vpn_ip
          peer,     \* the address that WireGuard routes to each key
          token,    \* enrollment_tokens.used_at: free, pending or used
          old,      \* pending tokens whose marker is older than the limit
          expired,  \* tokens past expires_at
          at, tok, key, fresh,  \* the handler: its step and reserved_new
          faults,
          grants,   \* history: how often each token was finalized
          via       \* history: the token that each half-made row belongs to

vars == <<row, addr, peer, token, old, expired, at, tok, key, fresh, faults, grants, via>>
database == <<row, addr, token, old, via>>
local == <<tok, key, fresh>>

TypeOK ==
  /\ row \in [Keys -> RowStates]
  /\ addr \in [Keys -> Addresses \cup {NoAddress}]
  /\ \A k \in Keys : row[k] = "none" <=> addr[k] = NoAddress
  /\ peer \in [Keys -> Addresses \cup {NoAddress}]
  /\ token \in [Tokens -> {"free", "pending", "used"}]
  /\ old \subseteq Tokens /\ expired \subseteq Tokens
  /\ at \in Steps /\ tok \in Tokens /\ key \in Keys /\ fresh \in BOOLEAN
  /\ faults \in 0..MaxFaults
  /\ grants \in [Tokens -> Nat]
  /\ via \in [Keys -> SUBSET Tokens]

Init ==
  /\ row = [k \in Keys |-> "none"]
  /\ addr = [k \in Keys |-> NoAddress]
  /\ peer = [k \in Keys |-> NoAddress]
  /\ token = [t \in Tokens |-> "free"]
  /\ old = {} /\ expired = {}
  /\ at = "idle" /\ tok \in Tokens /\ key \in Keys /\ fresh = FALSE
  /\ faults = 0
  /\ grants = [t \in Tokens |-> 0]
  /\ via = [k \in Keys |-> {}]

-------------------------------------------------------------------------------
Goto(s) == at' = s
Fault == faults < MaxFaults /\ faults' = faults + 1
Drop(k) == /\ row' = [row EXCEPT ![k] = "none"]
           /\ addr' = [addr EXCEPT ![k] = NoAddress]
           /\ via' = [via EXCEPT ![k] = {}]

(* WireGuard routes an address to the peer that was given it last.         *)
AddPeer(k, ip) ==
  peer' = [j \in Keys |-> IF j = k THEN ip
                          ELSE IF peer[j] = ip THEN NoAddress ELSE peer[j]]
RemovePeer(k) == peer' = [peer EXCEPT ![k] = NoAddress]

\* Mutant: the recovery takes any row with this key for its reservation.
RecoverableAny(k) == row[k] # "none"
Recoverable(k) == row[k] = "pending"

\* Mutant: a pending token is refused like a used one.
ArriveFreeOnly(t, k) ==
  /\ at = "idle" /\ token[t] = "free"
  /\ tok' = t /\ key' = k /\ fresh' = FALSE
  /\ Goto("reserve")
  /\ UNCHANGED <<database, peer, expired, faults, grants>>

(* The first transaction: recover what an abandoned attempt with this      *)
(* token has left, if its marker is old enough, and read the token.        *)
Arrive(t, k) ==
  /\ at = "idle"
  /\ tok' = t /\ key' = k /\ fresh' = FALSE
  /\ \/ /\ token[t] = "free"
        /\ Goto("reserve")
        /\ UNCHANGED database
     \/ /\ token[t] = "pending" /\ t \in old
        /\ token' = [token EXCEPT ![t] = "free"]
        /\ old' = old \ {t}
        /\ IF Recoverable(k) THEN Drop(k) /\ Goto("unpeer")
                             ELSE Goto("reserve") /\ UNCHANGED <<row, addr, via>>
  /\ UNCHANGED <<peer, expired, faults, grants>>

(* The peer of the abandoned attempt is removed as far as possible.        *)
Unpeer ==
  /\ at = "unpeer"
  /\ \/ RemovePeer(key) /\ UNCHANGED faults
     \/ UNCHANGED peer /\ Fault
  /\ Goto("reserve")
  /\ UNCHANGED <<database, local, expired, grants>>

Taken == {addr[k] : k \in Keys} \cup {peer[k] : k \in Keys}
\* Mutant: addresses of peers without a row count as unused.
NextAddressOfRows(ip) ==
  LET unused == Addresses \ {addr[k] : k \in Keys}
  IN ip \in unused /\ \A i \in unused : ip <= i
NextAddress(ip) ==
  LET unused == Addresses \ Taken
  IN ip \in unused /\ \A i \in unused : ip <= i

(* The dump of the peers and the second transaction.  No await and no      *)
(* other writer comes between the two.                                     *)
Reserve ==
  /\ at = "reserve" /\ tok \notin expired
  /\ \/ /\ row[key] = "enabled"
        /\ fresh' = FALSE
        /\ UNCHANGED <<row, addr, via>>
     \/ /\ row[key] = "none" /\ peer[key] = NoAddress
        /\ fresh' = TRUE
        /\ \E ip \in Addresses : /\ NextAddress(ip)
                                 /\ row' = [row EXCEPT ![key] = "pending"]
                                 /\ addr' = [addr EXCEPT ![key] = ip]
        /\ via' = [via EXCEPT ![key] = {tok}]
  /\ token' = [token EXCEPT ![tok] = "pending"]
  /\ Goto("add")
  /\ UNCHANGED <<peer, old, expired, tok, key, faults, grants>>

(* Expired token; router disabled, retired or of another site; a peer      *)
(* without a row; no address left; or the dump or the transaction fails.   *)
Refuse ==
  /\ at = "reserve"
  /\ \/ /\ \/ tok \in expired
           \/ row[key] # "none"
           \/ row[key] = "none" /\ (peer[key] # NoAddress \/ Addresses \subseteq Taken)
        /\ UNCHANGED faults
     \/ Fault
  /\ Goto("idle")
  /\ UNCHANGED <<database, local, peer, expired, grants>>

\* Mutant: the peer is removed for a router that had been enrolled before.
UndoAll == Goto("undoPeer")
Undo == Goto(IF fresh THEN "undoPeer" ELSE "undoRows")

(* wg_helper("add"): an error or a deadline does not tell whether the peer *)
(* was added.                                                              *)
Add ==
  /\ at = "add"
  /\ \/ AddPeer(key, addr[key]) /\ Goto("finalize") /\ UNCHANGED faults
     \/ AddPeer(key, addr[key]) /\ Undo /\ Fault
     \/ UNCHANGED peer /\ Undo /\ Fault
  /\ UNCHANGED <<database, local, expired, grants>>

\* Mutant: the last transaction without the token's finalization.
FinalizeRowOnly ==
  /\ at = "finalize"
  /\ row' = IF fresh THEN [row EXCEPT ![key] = "enabled"] ELSE row
  /\ grants' = [grants EXCEPT ![tok] = @ + 1]
  /\ Goto("idle")
  /\ via' = [via EXCEPT ![key] = {}]
  /\ UNCHANGED <<local, addr, token, peer, old, expired, faults>>

Finalize ==
  /\ at = "finalize"
  /\ token[tok] = "pending" /\ (fresh => row[key] = "pending")
  /\ row' = IF fresh THEN [row EXCEPT ![key] = "enabled"] ELSE row
  /\ token' = [token EXCEPT ![tok] = "used"]
  /\ grants' = [grants EXCEPT ![tok] = @ + 1]
  /\ Goto("idle")
  /\ via' = [via EXCEPT ![key] = {}]
  /\ UNCHANGED <<local, addr, peer, old, expired, faults>>

(* The last transaction fails: its reservation is lost, or the database    *)
(* stays locked.                                                           *)
FinalizeRaises ==
  /\ at = "finalize"
  /\ Fault
  /\ Undo
  /\ UNCHANGED <<database, local, peer, expired, grants>>

UndoPeer ==
  /\ at = "undoPeer"
  /\ \/ RemovePeer(key) /\ UNCHANGED faults
     \/ UNCHANGED peer /\ Fault
  /\ Goto("undoRows")
  /\ UNCHANGED <<database, local, expired, grants>>

\* Mutant: the token is freed and the reservation left.
UndoTokenOnly ==
  /\ at = "undoRows"
  /\ token' = [token EXCEPT ![tok] = "free"]
  /\ Goto("idle")
  /\ UNCHANGED <<row, addr, via, local, peer, old, expired, faults, grants>>

UndoRows ==
  /\ at = "undoRows"
  /\ \/ /\ IF fresh /\ row[key] = "pending" THEN Drop(key) ELSE UNCHANGED <<row, addr, via>>
        /\ token' = [token EXCEPT ![tok] = "free"]
        /\ UNCHANGED faults
     \/ UNCHANGED <<row, addr, token, via>> /\ Fault
  /\ Goto("idle")
  /\ UNCHANGED <<local, peer, old, expired, grants>>

(* The web application dies, whatever it was doing.                        *)
Crash ==
  /\ at # "idle"
  /\ Fault
  /\ Goto("idle")
  /\ UNCHANGED <<database, local, peer, expired, grants>>

(* lifecycle.set_state, which does not look at enabled: the row of an      *)
(* abandoned attempt is no longer marked as one afterwards.                *)
SetState(k) ==
  /\ at = "idle"
  /\ \/ row[k] \in {"pending", "stuck"} /\ row' = [row EXCEPT ![k] = "stuck"]
     \/ /\ row[k] \in {"enabled", "retired"}
        /\ \E s \in {"enabled", "retired"} : row' = [row EXCEPT ![k] = s]
  /\ via' = [via EXCEPT ![k] = {}]
  /\ UNCHANGED <<addr, peer, token, old, expired, at, local, faults, grants>>

(* Time: the limit is longer than the helpers' deadlines of one attempt,   *)
(* so the marker of a live attempt is never old.                           *)
Age(t) ==
  /\ token[t] = "pending" /\ (at = "idle" \/ tok # t)
  /\ old' = old \cup {t}
  /\ UNCHANGED <<row, addr, via, peer, token, expired, at, local, faults, grants>>
Expire(t) ==
  /\ expired' = expired \cup {t}
  /\ UNCHANGED <<database, peer, at, local, faults, grants>>

-------------------------------------------------------------------------------
Handler == \/ Unpeer \/ Reserve \/ Refuse \/ Add \/ Finalize \/ FinalizeRaises
           \/ UndoPeer \/ UndoRows
Next ==
  \/ \E t \in Tokens, k \in Keys : Arrive(t, k)
  \/ Handler \/ Crash
  \/ \E k \in Keys : SetState(k)
  \/ \E t \in Tokens : Age(t) \/ Expire(t)

(* A live handler runs on (its helpers have deadlines), time passes, and   *)
(* the operators of some routers run the script again until it works.      *)
Fairness ==
  /\ WF_vars(Handler)
  /\ \A t \in Tokens : WF_vars(Age(t))
  /\ \A t \in Tokens, k \in Persistent : SF_vars(Arrive(t, k))

Spec == Init /\ [][Next]_vars /\ Fairness

-------------------------------------------------------------------------------
(* Properties.                                                             *)

Enrolled(k) == row[k] \in {"enabled", "retired"}

(* An enrolled router is reachable at the address of its row for ever: no  *)
(* later attempt, of its own or of another router, whatever fails in it,   *)
(* removes its peer or takes its address.                                  *)
EnrolledReachable == \A k \in Keys : Enrolled(k) => peer[k] = addr[k]

(* An address serves one router, in the table and in WireGuard together,   *)
(* even while rows and peers left over by failed attempts disagree.        *)
AddressesExclusive ==
  \A j, k \in Keys :
    j # k => {addr[j], peer[j]} \cap {addr[k], peer[k]} \subseteq {NoAddress}

(* A token enrols once, however often its attempts are interrupted,        *)
(* recovered and repeated.                                                 *)
TokenSpentOnce == \A t \in Tokens : grants[t] <= 1

(* Neither the recovery nor the undo of an attempt takes an enrolled       *)
(* router away or moves it.                                                *)
EnrolledStay ==
  [][\A k \in Keys : Enrolled(k) =>
       row'[k] \in {"enabled", "retired"} /\ addr'[k] = addr[k]]_vars

(* What main.py:849 says of the pending marker: an attempt that died never *)
(* consumes its token for ever.                                            *)
TokenComesBack == \A t \in Tokens : token[t] = "pending" ~> token[t] # "pending"

(* A peer without a row, which only an operator can remove; not one that   *)
(* the recovery is about to remove.                                        *)
Orphan(k) == row[k] = "none" /\ peer[k] # NoAddress /\ ~(at = "unpeer" /\ key = k)

(* What others can do to the attempts of k: free or spend the token of its *)
(* half-made row, after which recovery, which looks for the token first,   *)
(* never finds the row; spend every token that has not expired; or fill    *)
(* the pool.  That another router has a row is none of these.              *)
Interfered(k) ==
  \/ row[k] = "pending" /\ key # k /\ tok \in via[k] /\ token[tok] # "pending"
  \/ \A t \in Tokens : token[t] = "used" \/ t \in expired
  \/ row[k] = "none" /\ Addresses \subseteq Taken

(* A router whose script is run until it works gets in, whatever was       *)
(* interrupted and however many others enrol meanwhile, unless its peer    *)
(* could not be removed, its half-made row was edited, or another router   *)
(* took its token or the last address.                                     *)
GetsIn ==
  \A k \in Persistent :
    <>(row[k] \notin {"none", "pending"} \/ Orphan(k) \/ Interfered(k))

(* Between two steps: what the handler holds, and why a peer may exist.    *)
Consistent ==
  /\ \A k \in Keys : row[k] # "none" => peer[k] \in {addr[k], NoAddress}
  /\ at \in {"add", "finalize", "undoPeer", "undoRows"} =>
       /\ token[tok] = "pending" /\ tok \notin old
       /\ row[key] = IF fresh THEN "pending" ELSE "enabled"
  /\ \A t \in old : token[t] = "pending"
  /\ at = "unpeer" => row[key] = "none"
  /\ at \in {"unpeer", "reserve"} => token[tok] = "free"
  /\ at = "finalize" => peer[key] = addr[key]
  /\ at = "undoPeer" => fresh
  /\ \A t \in Tokens : grants[t] = IF token[t] = "used" THEN 1 ELSE 0

IInv == EnrolledReachable /\ AddressesExclusive /\ Consistent
===============================================================================
