---- MODULE AnalysisQueue ----
(***************************************************************************)
(* The queue of read-only AI analyses.  Operators ask for the analysis of  *)
(* a router; a worker, which the timer starts again and again, one process *)
(* at a time, recovers what a dead one left, fails what can no longer run, *)
(* claims one request and answers it.                                      *)
(***************************************************************************)
EXTENDS Naturals, Sequences, FiniteSets

CONSTANTS
  Routers, Operators, NoRouter,
  MaxRequests,  \* bound: rows of router_ai_analyses
  MaxDeaths     \* bound: deaths of the worker

ASSUME AnalysisBounds == MaxRequests \in Nat /\ MaxDeaths \in Nat /\ NoRouter \notin Routers

VARIABLES
  requests,     \* router_ai_analyses in the order of their ids
  asking,       \* what an operator's request has found eligible and not yet inserted
  active,       \* routers that are enabled and not retired
  changing,     \* routers with a queued, running or verifying job
  worker,       \* where the worker's process is, and the request it has claimed
  deaths

queueVars == <<requests, asking, active, changing, worker, deaths>>

Open == {"queued", "running"}
Final == {"succeeded", "failed"}
Off == [at |-> "off", claimed |-> 0]

(***************************************************************************)
(* queue_analysis: the router is looked up first, the duplicate check and  *)
(* the insert are one transaction.                                         *)
(***************************************************************************)
Ask(o, r) ==
  /\ asking[o] = NoRouter /\ r \in active
  /\ asking' = [asking EXCEPT ![o] = r]
  /\ UNCHANGED <<requests, active, changing, worker, deaths>>

(* Only what has not been claimed counts as a duplicate (a mutant). *)
ExistingQueued(r) == {i \in DOMAIN requests : requests[i].router = r /\ requests[i].status = "queued"}
Existing(r) == {i \in DOMAIN requests : requests[i].router = r /\ requests[i].status \in Open}

Insert(o) ==
  LET r == asking[o]
  IN /\ r # NoRouter
     /\ IF Existing(r) # {} THEN UNCHANGED requests
        ELSE /\ Len(requests) < MaxRequests
             /\ requests' = Append(requests, [router |-> r, status |-> "queued", old |-> FALSE])
     /\ asking' = [asking EXCEPT ![o] = NoRouter]
     /\ UNCHANGED <<active, changing, worker, deaths>>

(***************************************************************************)
(* What the rest of the system does: lifecycle and jobs of routers, time.  *)
(***************************************************************************)
SetActive(r) ==
  /\ active' = IF r \in active THEN active \ {r} ELSE active \union {r}
  /\ UNCHANGED <<requests, asking, changing, worker, deaths>>

Change(r) ==
  /\ changing' = IF r \in changing THEN changing \ {r} ELSE changing \union {r}
  /\ UNCHANGED <<requests, asking, active, worker, deaths>>

(* A claim outlives the time every read and the analysis itself may take. *)
Age(i) ==
  /\ requests[i].status = "running" /\ ~requests[i].old
  /\ worker.claimed # i
  /\ requests' = [requests EXCEPT ![i].old = TRUE]
  /\ UNCHANGED <<asking, active, changing, worker, deaths>>

(***************************************************************************)
(* run_once.                                                               *)
(***************************************************************************)
Stale(q) == q.status = "running" /\ q.old
(* What a dead worker had claimed is left alone (a mutant). *)
RecoverNothing ==
  /\ worker = Off
  /\ worker' = [Off EXCEPT !.at = "ineligible"]
  /\ UNCHANGED <<requests, asking, active, changing, deaths>>
RecoverStale ==
  /\ worker = Off
  /\ requests' = [i \in DOMAIN requests |->
                    IF Stale(requests[i]) THEN [requests[i] EXCEPT !.status = "queued", !.old = FALSE]
                    ELSE requests[i]]
  /\ worker' = [Off EXCEPT !.at = "ineligible"]
  /\ UNCHANGED <<asking, active, changing, deaths>>

FailIneligibleQueued ==
  /\ worker.at = "ineligible"
  /\ requests' = [i \in DOMAIN requests |->
                    IF requests[i].status = "queued" /\ requests[i].router \notin active
                    THEN [requests[i] EXCEPT !.status = "failed"] ELSE requests[i]]
  /\ worker' = [Off EXCEPT !.at = "claim"]
  /\ UNCHANGED <<asking, active, changing, deaths>>

Claimable == {i \in DOMAIN requests : /\ requests[i].status = "queued"
                                      /\ requests[i].router \in active \ changing}
ClaimOne ==
  /\ worker.at = "claim"
  /\ \/ Claimable = {} /\ worker' = Off /\ UNCHANGED requests
     \/ \E i \in Claimable :
          /\ \A k \in Claimable : i <= k
          /\ requests' = [requests EXCEPT ![i].status = "running"]
          /\ worker' = [at |-> "analyse", claimed |-> i]
  /\ UNCHANGED <<asking, active, changing, deaths>>

Finish(status, next) ==
  /\ requests' = [requests EXCEPT ![worker.claimed].status = status]
  /\ worker' = next
  /\ UNCHANGED <<asking, active, changing, deaths>>

(* The snapshot, the helper or its answer may fail. *)
Answer ==
  /\ worker.at = "analyse"
  /\ \/ Finish("succeeded", [worker EXCEPT !.at = "record"])
     \/ Finish("failed", Off)

(* The event is recorded inside the same try: if that fails, so does the analysis. *)
RecordEvent ==
  /\ worker.at = "record"
  /\ \/ Finish("succeeded", Off)
     \/ Finish("failed", Off)

Die ==
  /\ worker # Off /\ deaths < MaxDeaths
  /\ worker' = Off /\ deaths' = deaths + 1
  /\ UNCHANGED <<requests, asking, active, changing>>

Work == RecoverStale \/ FailIneligibleQueued \/ ClaimOne \/ Answer \/ RecordEvent

QueueInit ==
  /\ requests = <<>>
  /\ asking = [o \in Operators |-> NoRouter]
  /\ active = Routers /\ changing = {}
  /\ worker = Off /\ deaths = 0

QueueNext ==
  \/ \E o \in Operators : Insert(o) \/ \E r \in Routers : Ask(o, r)
  \/ \E r \in Routers : SetActive(r) \/ Change(r)
  \/ \E i \in DOMAIN requests : Age(i)
  \/ Work \/ Die

QueueSpec == QueueInit /\ [][QueueNext]_queueVars

(***************************************************************************)
(* Properties.                                                             *)
(***************************************************************************)
(* However requests, claims, deaths and recoveries interleave, a router    *)
(* has at most one analysis that is waiting or running: none is paid twice *)
(* because two operators asked, or because a dead claim came back.         *)
OneOpenAnalysis ==
  \A i, j \in DOMAIN requests :
    {requests[i].status, requests[j].status} \subseteq Open /\ requests[i].router = requests[j].router => i = j

Rows == [router : Routers, status : Open \union Final, old : BOOLEAN]
QueueTypeOK ==
  /\ requests \in Seq(Rows)
  /\ asking \in [Operators -> Routers \union {NoRouter}]
  /\ active \subseteq Routers /\ changing \subseteq Routers
  /\ worker \in [at : {"off", "ineligible", "claim", "analyse", "record"}, claimed : Nat]
  /\ deaths \in 0..MaxDeaths

(* The answer is to the request that the worker still has: nobody takes it *)
(* back, recovers it or answers it in the meantime, since a claim is only  *)
(* old when its worker is dead and a request that waits has no old claim.  *)
ClaimHeld ==
  worker.at = "analyse" =>
    /\ worker.claimed \in DOMAIN requests
    /\ requests[worker.claimed].status = "running" /\ ~requests[worker.claimed].old
WaitingUnclaimed == \A i \in DOMAIN requests : requests[i].status = "queued" => ~requests[i].old

(* Nobody waits for ever for an analysis although workers die: again and   *)
(* again every request has been answered, except of routers that are just  *)
(* then under change or out of service.                                    *)
AnalysesAnswered ==
  []<>(\A i \in DOMAIN requests :
         requests[i].status \in Final \/ requests[i].router \notin active \ changing)
====
