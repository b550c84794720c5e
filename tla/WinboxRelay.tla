------------------------------ MODULE WinboxRelay ------------------------------
(***************************************************************************)
(* Public WinBox access.  The dashboard keeps the authorized addresses     *)
(* (main.py); the relay process (winbox_proxy.py) opens the public port of *)
(* every active router, forwards what authorized sources send to it, and   *)
(* polls the database for each connection until it is over.  The main loop *)
(* closes and opens ports from what it read; a closed server waits for its *)
(* connections (Server.wait_closed of Python 3.12), and the loop with it.  *)
(***************************************************************************)
EXTENDS Naturals

CONSTANTS Routers,      \* each has a public port of its own
          Sources,      \* public addresses of technicians
          Connections,  \* bound: connections at a time
          MaxChanges,   \* bound: grants, removals and changes of routers
          MaxFailures   \* bound: ports that cannot be bound, deaths of the relay

ASSUME MaxChangesAssumption == MaxChanges \in Nat
ASSUME MaxFailuresAssumption == MaxFailures \in Nat

VARIABLES grant,     \* authorized_ips: none, temporary, lapsed or permanent
          active,    \* the routers that are enabled and not retired
          changes,
          port,      \* the servers of the relay: closed, listening or closing
          step, wanted, cur, todo,  \* its main loop: step, ports it read, the port
                                    \* that is closing, the ports left to open
          phase, from, to,        \* connections: step, source, router
          failures

tables == <<grant, active, changes>>
loop == <<step, wanted, cur, todo>>
relays == <<phase, from, to>>
relayVars == <<tables, port, loop, relays, failures>>

RelayTypeOK ==
  /\ grant \in [Sources -> {"none", "temporary", "lapsed", "permanent"}]
  /\ active \in [Routers -> BOOLEAN] /\ changes \in 0..MaxChanges
  /\ port \in [Routers -> {"closed", "listening", "closing"}]
  /\ step \in {"scan", "close", "wait", "bind"} /\ cur \in Routers
  /\ wanted \in SUBSET Routers
  /\ todo \in SUBSET wanted /\ (step # "bind" => todo = {})
  /\ phase \in [Connections -> {"none", "connecting", "relaying", "closing"}]
  /\ from \in [Connections -> Sources] /\ to \in [Connections -> Routers]
  /\ failures \in 0..MaxFailures

(* The relay starts on a fleet in any condition.                           *)
RelayInit ==
  /\ grant = [s \in Sources |-> "none"] /\ active \in [Routers -> BOOLEAN]
  /\ changes = 0 /\ failures = 0
  /\ port = [r \in Routers |-> "closed"]
  /\ step = "scan" /\ wanted = {} /\ todo = {} /\ cur \in Routers
  /\ phase = [c \in Connections |-> "none"]
  /\ from \in [Connections -> Sources] /\ to \in [Connections -> Routers]

-------------------------------------------------------------------------------
(* The dashboard and the lifecycle form.                                   *)
Changing == changes < MaxChanges /\ changes' = changes + 1

(* A temporary authorization never replaces a permanent one.               *)
AuthorizeCurrent(s) ==
  /\ Changing
  /\ grant[s] # "permanent"
  /\ grant' = [grant EXCEPT ![s] = "temporary"]
  /\ UNCHANGED <<active, port, loop, relays, failures>>
AddAlways(s) ==
  /\ Changing
  /\ grant' = [grant EXCEPT ![s] = "permanent"]
  /\ UNCHANGED <<active, port, loop, relays, failures>>
DeleteAccess(s) ==
  /\ Changing
  /\ grant' = [grant EXCEPT ![s] = "none"]
  /\ UNCHANGED <<active, port, loop, relays, failures>>
Lapse(s) ==
  /\ grant[s] = "temporary"
  /\ grant' = [grant EXCEPT ![s] = "lapsed"]
  /\ UNCHANGED <<active, changes, port, loop, relays, failures>>

SetLife(r) ==
  /\ Changing
  /\ active' = [active EXCEPT ![r] = ~@]
  /\ UNCHANGED <<grant, port, loop, relays, failures>>

-------------------------------------------------------------------------------
(* The main loop: the ports of the active routers are read, ...            *)
Scan ==
  /\ step = "scan"
  /\ wanted' = {r \in Routers : active[r]} /\ step' = "close"
  /\ UNCHANGED <<tables, port, cur, todo, relays, failures>>

Unwanted == {r \in Routers : port[r] = "listening" /\ r \notin wanted}

\* Mutant: the server is forgotten at once.
CloseAtOnce ==
  /\ step = "close"
  /\ \E r \in Unwanted : port' = [port EXCEPT ![r] = "closed"]
  /\ UNCHANGED <<tables, loop, relays, failures>>
(* ... a server that is not wanted stops listening, ...                    *)
Close ==
  /\ step = "close"
  /\ \E r \in Unwanted : port' = [port EXCEPT ![r] = "closing"] /\ cur' = r
  /\ step' = "wait"
  /\ UNCHANGED <<tables, wanted, todo, relays, failures>>

Drained(r) == \A c \in Connections : phase[c] # "none" => to[c] # r

\* Mutant: the closed server is not forgotten.
WaitedKeeping ==
  /\ step = "wait" /\ Drained(cur)
  /\ step' = "close"
  /\ UNCHANGED <<tables, port, wanted, cur, todo, relays, failures>>
(* ... and is forgotten when its last connection has ended, ...            *)
Waited ==
  /\ step = "wait" /\ Drained(cur)
  /\ port' = [port EXCEPT ![cur] = "closed"]
  /\ step' = "close"
  /\ UNCHANGED <<tables, wanted, cur, todo, relays, failures>>

Closed ==
  /\ step = "close" /\ Unwanted = {}
  /\ step' = "bind" /\ todo' = {r \in wanted : port[r] = "closed"}
  /\ UNCHANGED <<tables, port, wanted, cur, relays, failures>>

(* ... then the missing ones are opened: one that cannot be bound is left  *)
(* to the next round.                                                      *)
Bind ==
  /\ step = "bind"
  /\ \E r \in todo :
       /\ todo' = todo \ {r}
       /\ \/ port' = [port EXCEPT ![r] = "listening"] /\ UNCHANGED failures
          \/ UNCHANGED port /\ failures < MaxFailures /\ failures' = failures + 1
  /\ UNCHANGED <<tables, step, wanted, cur, relays>>

Rest ==
  /\ step = "bind" /\ todo = {}
  /\ step' = "scan"
  /\ UNCHANGED <<tables, port, wanted, cur, todo, relays, failures>>

(* The process dies (the database is locked when the ports are read) or is *)
(* restarted: systemd starts it again.                                     *)
Die ==
  /\ failures < MaxFailures /\ failures' = failures + 1
  /\ port' = [r \in Routers |-> "closed"]
  /\ step' = "scan" /\ wanted' = {} /\ todo' = {}
  /\ phase' = [c \in Connections |-> "none"]
  /\ UNCHANGED <<tables, cur, from, to>>

-------------------------------------------------------------------------------
(* A connection.                                                           *)
Authorized(s) == grant[s] \in {"temporary", "permanent"}

\* Mutant: the watch does not look at the router.
AllowedSource(c) == Authorized(from[c])
Allowed(c) == Authorized(from[c]) /\ active[to[c]]

(* relay: the source is checked once before the router is contacted, ...   *)
Accept(c) ==
  /\ phase[c] = "none"
  /\ \E s \in Sources, r \in Routers :
       /\ port[r] = "listening" /\ Authorized(s)
       /\ from' = [from EXCEPT ![c] = s] /\ to' = [to EXCEPT ![c] = r]
  /\ phase' = [phase EXCEPT ![c] = "connecting"]
  /\ UNCHANGED <<tables, port, loop, failures>>

(* ... which answers, or does not before the deadline (nothing has been    *)
(* written to the client yet, so its stream closes at once), ...           *)
Connect(c) ==
  /\ phase[c] = "connecting"
  /\ \E p \in {"relaying", "none"} : phase' = [phase EXCEPT ![c] = p]
  /\ UNCHANGED <<tables, port, loop, from, to, failures>>

(* ... and source and router are polled until either is refused, ...       *)
AuthorizationWatch(c) ==
  /\ phase[c] = "relaying" /\ ~Allowed(c)
  /\ phase' = [phase EXCEPT ![c] = "closing"]
  /\ UNCHANGED <<tables, port, loop, from, to, failures>>

(* ... or an end closes its stream, which it need not: the pipes stop, ... *)
Leave(c) ==
  /\ phase[c] = "relaying"
  /\ phase' = [phase EXCEPT ![c] = "closing"]
  /\ UNCHANGED <<tables, port, loop, from, to, failures>>

(* ... and stream.wait_closed returns when the peers have taken what the   *)
(* relay still holds for them, which a peer that does not read never does. *)
Ended(c) ==
  /\ phase[c] = "closing"
  /\ phase' = [phase EXCEPT ![c] = "none"]
  /\ UNCHANGED <<tables, port, loop, from, to, failures>>

MainLoop == Scan \/ Close \/ Waited \/ Closed \/ Bind \/ Rest

RelayNext ==
  \/ \E s \in Sources : AuthorizeCurrent(s) \/ AddAlways(s) \/ DeleteAccess(s) \/ Lapse(s)
  \/ \E r \in Routers : SetLife(r)
  \/ MainLoop \/ Die
  \/ \E c \in Connections : Accept(c) \/ Connect(c) \/ AuthorizationWatch(c)
                             \/ Leave(c) \/ Ended(c)

(* The event loop runs its coroutines; connecting has a deadline; nothing  *)
(* makes a client leave, or read what was sent to it.                      *)
RelayFairness ==
  /\ WF_relayVars(MainLoop)
  /\ \A c \in Connections : WF_relayVars(Connect(c)) /\ WF_relayVars(AuthorizationWatch(c))

RelaySpec == RelayInit /\ [][RelayNext]_relayVars /\ RelayFairness

-------------------------------------------------------------------------------
(* Properties.                                                             *)

(* A port without a server serves nobody: when the loop has closed a port, *)
(* no connection that came in by it is left, not even one that is being    *)
(* closed, however long ago it was accepted (main: wait_closed, then del   *)
(* servers[port]).                                                         *)
ClosedServesNobody ==
  \A c \in Connections : phase[c] # "none" => port[to[c]] # "closed"

(* The relay forwards only for addresses that are authorized (README.md)   *)
(* and to active routers: for a connection whose source or router no       *)
(* longer is, forwarding ends, whatever main loop and router do.  Its      *)
(* streams may take longer to close.                                       *)
Forwards(c) == phase[c] \in {"connecting", "relaying"}
Entitled(c) == grant[from[c]] \in {"temporary", "permanent"} /\ active[to[c]]
RevokedEnds == \A c \in Connections : Forwards(c) ~> ~Forwards(c) \/ Entitled(c)

(* The ports follow the routers, although binding fails and the relay is   *)
(* restarted: of a router that stays as it is, the port is open, or        *)
(* closed, for good.  There are two exceptions, both connections for which *)
(* the loop waits while it opens and closes nothing: one whose router was  *)
(* retired and soon reactivated, and which stays; and one that was ended   *)
(* but whose peer does not read what it is still owed.                     *)
Stuck(c) ==
  /\ step = "wait" /\ to[c] = cur
  /\ phase[c] = "closing" \/ (phase[c] = "relaying" /\ Entitled(c))
PortsFollow ==
  \A r \in Routers :
    \/ []<>(active[r]) /\ []<>(~active[r])
    \/ <>[](port[r] = IF active[r] THEN "listening" ELSE "closed")
    \/ \E c \in Connections : <>[]Stuck(c)
===============================================================================
