------------------------- MODULE UpstreamSelection --------------------------
(***************************************************************************)
(* What select_upstream promises a request, without locks, probes,         *)
(* breakers or balancing algorithms.  Availability changes freely under a  *)
(* running selection.  The selection ends either with an upstream of the   *)
(* request's pool that was available at some moment since it began, or     *)
(* with a refusal, and a refusal only if no upstream of the pool was       *)
(* available at every moment since it began.  That is all: the selection   *)
(* is not a snapshot.  UpstreamPool is shown to implement this module.     *)
(***************************************************************************)
EXTENDS Integers

CONSTANTS Upstreams, Pools, PoolOf, Requests, NoUpstream, NoPool

VARIABLES
  avail,      \* upstreams that are available now
  phase,      \* of each request: "out", "selecting", "forwarding"
  pool,       \* the pool a selecting request selects from
  choice,     \* the upstream a forwarding request was given
  steady,     \* of the pool, available at every moment of this selection
  glimpsed    \* of the pool, available at some moment of this selection

selVars == <<avail, phase, pool, choice, steady, glimpsed>>

PoolMembers(p) == {u \in Upstreams : PoolOf[u] = p}

SelInit ==
  /\ avail \in SUBSET Upstreams
  /\ phase = [r \in Requests |-> "out"]
  /\ pool = [r \in Requests |-> NoPool]
  /\ choice = [r \in Requests |-> NoUpstream]
  /\ steady = [r \in Requests |-> {}]
  /\ glimpsed = [r \in Requests |-> {}]

AvailabilityChanges ==
  /\ avail' \in SUBSET Upstreams
  /\ steady' = [r \in Requests |-> steady[r] \cap avail']
  /\ glimpsed' = [r \in Requests |->
       IF phase[r] = "selecting"
       THEN glimpsed[r] \cup (PoolMembers(pool[r]) \cap avail') ELSE {}]
  /\ UNCHANGED <<phase, pool, choice>>

Begin(r, p) ==
  /\ phase[r] = "out"
  /\ phase' = [phase EXCEPT ![r] = "selecting"]
  /\ pool' = [pool EXCEPT ![r] = p]
  /\ steady' = [steady EXCEPT ![r] = PoolMembers(p) \cap avail]
  /\ glimpsed' = [glimpsed EXCEPT ![r] = PoolMembers(p) \cap avail]
  /\ UNCHANGED <<avail, choice>>

Leave(r) ==
  /\ pool' = [pool EXCEPT ![r] = NoPool]
  /\ steady' = [steady EXCEPT ![r] = {}]
  /\ glimpsed' = [glimpsed EXCEPT ![r] = {}]
  /\ UNCHANGED avail

Give(r, u) ==
  /\ phase[r] = "selecting"
  /\ u \in glimpsed[r]
  /\ phase' = [phase EXCEPT ![r] = "forwarding"]
  /\ choice' = [choice EXCEPT ![r] = u]
  /\ Leave(r)

Deny(r) ==
  /\ phase[r] = "selecting"
  /\ steady[r] = {}
  /\ phase' = [phase EXCEPT ![r] = "out"]
  /\ Leave(r)
  /\ UNCHANGED choice

Finish(r) ==
  /\ phase[r] = "forwarding"
  /\ phase' = [phase EXCEPT ![r] = "out"]
  /\ choice' = [choice EXCEPT ![r] = NoUpstream]
  /\ UNCHANGED <<avail, pool, steady, glimpsed>>

SelNext ==
  \/ AvailabilityChanges
  \/ \E r \in Requests :
       \/ \E p \in Pools : Begin(r, p)
       \/ \E u \in Upstreams : Give(r, u)
       \/ Deny(r) \/ Finish(r)

SelSpec == SelInit /\ [][SelNext]_selVars

=============================================================================
