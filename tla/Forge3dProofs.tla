--------------------------- MODULE Forge3dProofs ----------------------------
(***************************************************************************)
(* Theorems about Forge3d, for any number of processes and agents and any  *)
(* length of a lease.                                                      *)
(***************************************************************************)
EXTENDS Forge3d, TLAPS

-----------------------------------------------------------------------------
(* Types.                                                                  *)

LEMMA InitTypes == RInit => RTypeOK
BY LeaseAssumption DEF RInit, RTypeOK, Leases, NoAgents, NoLease, Holding

LEMMA DaemonStepTypes ==
    ASSUME RTypeOK, NEW p \in Procs, DaemonStep(p)
    PROVE  RTypeOK'
<1> USE DEF RTypeOK, leases, slot, Holding
<1>1. CASE TryLock(p)           BY <1>1 DEF TryLock, Refused
<1>2. CASE CreatePidfile(p)     BY <1>2 DEF CreatePidfile
<1>3. CASE WritePid(p)          BY <1>3 DEF WritePid
<1>4. CASE RemoveStaleSocket(p) BY <1>4 DEF RemoveStaleSocket
<1>5. CASE Bind(p)              BY <1>5 DEF Bind
<1>6. CASE StopServing(p)       BY <1>6 DEF StopServing
<1>7. CASE Unlock(p)            BY <1>7 DEF Unlock
<1>8. CASE RemovePidfile(p)     BY <1>8 DEF RemovePidfile, LeftBehind
<1>9. CASE Kill(p)              BY <1>9 DEF Kill
<1> QED
    BY <1>1, <1>2, <1>3, <1>4, <1>5, <1>6, <1>7, <1>8, <1>9 DEF DaemonStep

\* A registered agent has a record with dates, an unregistered one has not.
LEMMA RegisteredShape ==
    ASSUME RTypeOK, NEW p \in Procs, NEW a \in Agents
    PROVE  /\ Registered(p, a) => registry[p][a] \in [seen : 0 .. MaxTime + Lease, since : 0 .. MaxTime]
           /\ ~Registered(p, a) => registry[p][a] = NoLease
BY DEF RTypeOK, Registered, Leases

LEMMA LeaseTypes ==
    ASSUME RTypeOK, NEW p \in Procs, NEW a \in Agents
    PROVE  /\ Upserted(p, a) \in Leases
           /\ Registered(p, a) => Renewed(registry[p][a]) \in Leases
<1>1. now \in 0 .. MaxTime /\ now \in 0 .. MaxTime + Lease /\ now + Lease \in 0 .. MaxTime + Lease
  BY LeaseAssumption DEF RTypeOK
<1>2. CASE Registered(p, a)
  <2>1. registry[p][a] \in [seen : 0 .. MaxTime + Lease, since : 0 .. MaxTime]
    BY <1>2, RegisteredShape
  <2>2. [registry[p][a] EXCEPT !.seen = now] \in [seen : 0 .. MaxTime + Lease, since : 0 .. MaxTime]
    BY <1>1, <2>1
  <2> QED BY <1>2, <2>2 DEF Upserted, Renewed, Leases
<1>3. CASE ~Registered(p, a) BY <1>1, <1>3 DEF Upserted, Leases
<1> QED BY <1>2, <1>3

LEMMA RegistryStepTypes ==
    ASSUME RTypeOK, NEW p \in Procs, NEW a \in Agents,
           Register(p, a) \/ Heartbeat(p, a) \/ Deregister(p, a)
    PROVE  RTypeOK'
<1>1. \E l \in Leases, t \in -1 .. MaxTime :
         /\ registry' = [registry EXCEPT ![p][a] = l]
         /\ contact' = [contact EXCEPT ![p][a] = t]
  <2>1. NoLease \in Leases BY DEF Leases
  <2>2. now \in -1 .. MaxTime /\ -1 \in -1 .. MaxTime BY LeaseAssumption DEF RTypeOK
  <2> QED BY LeaseTypes, <2>1, <2>2 DEF Register, Heartbeat, Deregister
<1>2. registry' \in [Procs -> [Agents -> Leases]] /\ contact' \in [Procs -> [Agents -> -1 .. MaxTime]]
  BY <1>1 DEF RTypeOK
<1>3. UNCHANGED <<pc, lock, pidfile, socket, now>>
  BY DEF Register, Heartbeat, Deregister, slot
<1> QED BY <1>2, <1>3 DEF RTypeOK

\* Types: every record of the registry is absent or dated within the clock and
\* one lease ahead of it.
THEOREM TypeCorrect == RSpec => []RTypeOK
<1>1. RTypeOK /\ [RNext]_rvars => RTypeOK'
  <2> SUFFICES ASSUME RTypeOK, [RNext]_rvars PROVE RTypeOK' OBVIOUS
  <2>1. CASE Tick BY <2>1, LeaseAssumption DEF Tick, RTypeOK, slot, leases
  <2>2. CASE UNCHANGED rvars BY <2>2 DEF rvars, RTypeOK, slot, leases
  <2> QED BY DaemonStepTypes, RegistryStepTypes, <2>1, <2>2 DEF RNext
<1> QED BY InitTypes, <1>1, PTL DEF RSpec

-----------------------------------------------------------------------------
(* The slot.                                                               *)

\* The process between the lock and the closed listener is the lock's holder,
\* and a process that serves is where the path leads.
SlotInv ==
    /\ \A p \in Procs : lock = p <=> pc[p] \in Holding
    /\ ServingReachable

LEMMA SlotStep ==
    ASSUME RTypeOK, SlotInv, NEW p \in Procs, DaemonStep(p)
    PROVE  SlotInv'
<1> USE NobodyAssumption DEF RTypeOK, SlotInv, ServingReachable, Holding
<1>1. CASE TryLock(p)           BY <1>1 DEF TryLock, Refused
<1>2. CASE CreatePidfile(p)     BY <1>2 DEF CreatePidfile
<1>3. CASE WritePid(p)          BY <1>3 DEF WritePid
<1>4. CASE RemoveStaleSocket(p) BY <1>4 DEF RemoveStaleSocket
<1>5. CASE Bind(p)              BY <1>5 DEF Bind
<1>6. CASE StopServing(p)       BY <1>6 DEF StopServing, slot
<1>7. CASE Unlock(p)            BY <1>7 DEF Unlock
<1>8. CASE RemovePidfile(p)     BY <1>8 DEF RemovePidfile, LeftBehind
<1>9. CASE Kill(p)              BY <1>9 DEF Kill
<1> QED
    BY <1>1, <1>2, <1>3, <1>4, <1>5, <1>6, <1>7, <1>8, <1>9 DEF DaemonStep

LEMMA SlotInvariant == RSpec => []SlotInv
<1>1. RInit => SlotInv
  BY NobodyAssumption DEF RInit, SlotInv, ServingReachable, Holding
<1>2. RTypeOK /\ SlotInv /\ [RNext]_rvars => SlotInv'
  <2> SUFFICES ASSUME RTypeOK, SlotInv, [RNext]_rvars PROVE SlotInv' OBVIOUS
  <2>1. CASE \E p \in Procs : DaemonStep(p) BY <2>1, SlotStep
  <2>2. CASE UNCHANGED <<pc, slot>> BY <2>2 DEF SlotInv, ServingReachable, slot
  <2> QED BY <2>1, <2>2 DEF RNext, Register, Heartbeat, Deregister, Tick, rvars
<1> QED BY <1>1, <1>2, TypeCorrect, PTL DEF RSpec

\* No two processes own the slot, whatever the pidfile says and whoever is killed.
THEOREM SlotCorrect == RSpec => []SlotExclusive
<1>1. SlotInv => SlotExclusive BY DEF SlotInv, SlotExclusive
<1> QED BY <1>1, SlotInvariant, PTL

\* The socket path leads to the serving process as long as it serves.
THEOREM ReachableCorrect == RSpec => []ServingReachable
<1>1. SlotInv => ServingReachable BY DEF SlotInv
<1> QED BY <1>1, SlotInvariant, PTL

-----------------------------------------------------------------------------
(* Leases.                                                                 *)

\* A registered agent's lease is dated between its last contact and one lease
\* later; an agent that is not registered has no contact.
LeaseInv ==
    \A p \in Procs, a \in Agents :
        /\ Registered(p, a) <=> contact[p][a] >= 0
        /\ Registered(p, a) =>
              /\ contact[p][a] <= registry[p][a].seen
              /\ registry[p][a].seen <= contact[p][a] + Lease

LEMMA LeaseStep ==
    ASSUME RTypeOK, LeaseInv, NEW p \in Procs, NEW a \in Agents,
           Register(p, a) \/ Heartbeat(p, a) \/ Deregister(p, a)
    PROVE  LeaseInv'
<1> DEFINE Sound(l, t) ==
        /\ l # NoLease <=> t >= 0
        /\ l # NoLease => t <= l.seen /\ l.seen <= t + Lease
<1>1. PICK l \in Leases, t \in -1 .. MaxTime :
         /\ registry' = [registry EXCEPT ![p][a] = l]
         /\ contact' = [contact EXCEPT ![p][a] = t]
         /\ Sound(l, t)
  <2>1. now \in 0 .. MaxTime /\ now \in -1 .. MaxTime /\ -1 \in -1 .. MaxTime /\ now \in Int
    BY LeaseAssumption DEF RTypeOK
  <2>2. CASE Register(p, a)
    <3>1. Upserted(p, a).seen \in {now, now + Lease}
      <4>1. CASE Registered(p, a) BY <4>1, RegisteredShape DEF Upserted
      <4>2. CASE ~Registered(p, a) BY <4>2 DEF Upserted
      <4> QED BY <4>1, <4>2
    <3>2. Upserted(p, a) # NoLease BY <2>1, <3>1, LeaseAssumption DEF NoLease
    <3>3. Sound(Upserted(p, a), now) BY <2>1, <3>1, <3>2, LeaseAssumption
    <3> QED BY <2>1, <2>2, <3>3, LeaseTypes DEF Register
  <2>3. CASE Heartbeat(p, a)
    <3> DEFINE l == Renewed(registry[p][a])
    <3>0. Registered(p, a) BY <2>3 DEF Heartbeat
    <3>1. l.seen = now /\ l \in Leases BY <3>0, RegisteredShape, LeaseTypes DEF Renewed
    <3>2. l # NoLease BY <2>1, <3>1 DEF NoLease
    <3>3. Sound(l, now) BY <2>1, <3>1, <3>2, LeaseAssumption
    <3>4. registry' = [registry EXCEPT ![p][a] = l] /\ contact' = [contact EXCEPT ![p][a] = now]
      BY <2>3 DEF Heartbeat
    <3> HIDE DEF l, Sound
    <3> QED BY <2>1, <3>1, <3>3, <3>4
  <2>4. CASE Deregister(p, a)
    <3>1. NoLease \in Leases /\ Sound(NoLease, -1) BY DEF Leases
    <3> QED BY <2>1, <2>4, <3>1 DEF Deregister
  <2> QED BY <2>2, <2>3, <2>4
<1>2. SUFFICES ASSUME NEW q \in Procs, NEW b \in Agents
               PROVE  Sound(registry'[q][b], contact'[q][b])
  BY DEF LeaseInv, Registered
<1>3. Sound(registry[q][b], contact[q][b])
  BY DEF LeaseInv, Registered
<1>4. CASE q = p /\ b = a
  <2>1. registry'[q][b] = l /\ contact'[q][b] = t BY <1>1, <1>4 DEF RTypeOK
  <2> QED BY <1>1, <2>1
<1>5. CASE ~(q = p /\ b = a)
  <2>1. registry'[q][b] = registry[q][b] /\ contact'[q][b] = contact[q][b]
    BY <1>1, <1>5 DEF RTypeOK
  <2> QED BY <1>3, <2>1
<1> QED BY <1>4, <1>5

LEMMA LeaseInvariant == RSpec => []LeaseInv
<1>1. RInit => LeaseInv BY DEF RInit, LeaseInv, NoAgents, Registered
<1>2. RTypeOK /\ LeaseInv /\ [RNext]_rvars => LeaseInv'
  <2> SUFFICES ASSUME RTypeOK, LeaseInv, [RNext]_rvars PROVE LeaseInv' OBVIOUS
  <2>1. CASE UNCHANGED leases BY <2>1 DEF LeaseInv, Registered, leases
  <2>2. CASE \E p \in Procs, a \in Agents : Register(p, a) \/ Heartbeat(p, a) \/ Deregister(p, a)
    BY <2>2, LeaseStep
  <2>3. ASSUME NEW p \in Procs, DaemonStep(p) PROVE UNCHANGED leases
    BY <2>3 DEF DaemonStep, TryLock, CreatePidfile, WritePid, RemoveStaleSocket, Bind,
                StopServing, Unlock, RemovePidfile, Kill
  <2> QED BY <2>1, <2>2, <2>3 DEF RNext, Tick, rvars
<1> QED BY <1>1, <1>2, TypeCorrect, PTL DEF RSpec

\* An agent heard of less than a lease ago is listed; one silent for two leases
\* is not.
THEOREM ListedCorrect == RSpec => []ListedByLease
<1>1. RTypeOK /\ LeaseInv => ListedByLease
  <2> SUFFICES ASSUME RTypeOK, LeaseInv, NEW p \in Procs, NEW a \in Agents
               PROVE  /\ contact[p][a] >= 0 /\ now - contact[p][a] < Lease => a \in ListActive(p)
                      /\ a \in ListActive(p) => now - contact[p][a] < 2 * Lease
    BY DEF ListedByLease
  <2>1. now \in Int /\ contact[p][a] \in Int /\ Lease \in Int
    BY LeaseAssumption DEF RTypeOK
  <2>2. Registered(p, a) => registry[p][a].seen \in Int
    BY RegisteredShape, LeaseAssumption
  <2>3. /\ Registered(p, a) <=> contact[p][a] >= 0
        /\ Registered(p, a) => /\ contact[p][a] <= registry[p][a].seen
                               /\ registry[p][a].seen <= contact[p][a] + Lease
    BY DEF LeaseInv
  <2> QED BY <2>1, <2>2, <2>3 DEF ListActive, Anchor
<1> QED BY <1>1, TypeCorrect, LeaseInvariant, PTL
=============================================================================
