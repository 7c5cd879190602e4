------------------------------ MODULE Forge3d -------------------------------
(***************************************************************************)
(* The agent-registry daemon (crates/forge3d): several processes that      *)
(* start, take the daemon slot (flock, pidfile, socket path), serve, shut  *)
(* down or are killed, and the registry of leases that the serving process *)
(* keeps for its agents.                                                   *)
(*                                                                         *)
(* A process runs once: its name is its pid, and pids are not reused.      *)
(* Each system call on the shared files is a step.                         *)
(***************************************************************************)
EXTENDS Integers, FiniteSets

CONSTANTS
    Procs,      \* forge3d processes
    Agents,     \* agent ids
    Nobody,     \* no process
    Lease,      \* LEASE_MS
    MaxTime     \* bound on the clock

ASSUME LeaseAssumption == Lease \in Nat \ {0} /\ MaxTime \in Nat
ASSUME NobodyAssumption == Nobody \notin Procs

VARIABLES
    pc,         \* where each process is
    lock,       \* holder of the flock on daemon.lock
    pidfile,    \* the pid in daemon.pid; Nobody: no file, or an empty one
    socket,     \* the process whose listener the socket path leads to
    registry,   \* each process's registered agents
    now,        \* the clock, in lease units
    contact     \* history: when the serving process last heard of an agent

slot   == <<lock, pidfile, socket>>
leases == <<registry, contact>>
rvars   == <<pc, slot, leases, now>>

Alive(p) == pc[p] \notin {"new", "gone"}
NoLease  == [seen |-> -1, since |-> -1]
NoAgents == [a \in Agents |-> NoLease]

RInit ==
    /\ pc = [p \in Procs |-> "new"]
    /\ lock = Nobody /\ pidfile = Nobody /\ socket = Nobody
    /\ registry = [p \in Procs |-> NoAgents]
    /\ contact = [p \in Procs |-> [a \in Agents |-> -1]]
    /\ now = 0

-----------------------------------------------------------------------------
(* PidFile::acquire and Server::serve.                                     *)

\* try_lock_exclusive fails: the pidfile only chooses the message; the process
\* exits, even if the recorded pid is dead.
Refused_Faulty(p) ==
    /\ pc' = [pc EXCEPT ![p] = IF pidfile # Nobody /\ Alive(pidfile) THEN "gone" ELSE "locked"]
    /\ UNCHANGED lock
Refused(p) == pc' = [pc EXCEPT ![p] = "gone"] /\ UNCHANGED lock

TryLock(p) ==
    /\ pc[p] = "new"
    /\ \/ lock = Nobody /\ lock' = p /\ pc' = [pc EXCEPT ![p] = "locked"]
       \/ lock # Nobody /\ Refused(p)
    /\ UNCHANGED <<pidfile, socket, leases, now>>

\* File::create empties the file, then the pid is written.
CreatePidfile(p) ==
    /\ pc[p] = "locked"
    /\ pidfile' = Nobody
    /\ pc' = [pc EXCEPT ![p] = "created"]
    /\ UNCHANGED <<lock, socket, leases, now>>

WritePid(p) ==
    /\ pc[p] = "created"
    /\ pidfile' = p
    /\ pc' = [pc EXCEPT ![p] = "unlink"]
    /\ UNCHANGED <<lock, socket, leases, now>>

\* A socket file of an earlier process is removed, then the path is bound.
RemoveStaleSocket(p) ==
    /\ pc[p] = "unlink"
    /\ socket' = Nobody
    /\ pc' = [pc EXCEPT ![p] = "bind"]
    /\ UNCHANGED <<lock, pidfile, leases, now>>

Bind(p) ==
    /\ pc[p] = "bind"
    /\ socket' = p
    /\ pc' = [pc EXCEPT ![p] = "serving"]
    /\ UNCHANGED <<lock, pidfile, leases, now>>

\* A signal: the accept loop ends and the connections are aborted; the listener
\* is closed, its file stays.  Or the serving task is aborted before it ran.
StopServing(p) ==
    /\ pc[p] \in {"unlink", "serving"}
    /\ pc' = [pc EXCEPT ![p] = "unlock"]
    /\ UNCHANGED <<slot, leases, now>>

\* PidFile::drop: the lock first, then the pidfile, whoever wrote it.
Unlock(p) ==
    /\ pc[p] = "unlock"
    /\ lock' = Nobody
    /\ pc' = [pc EXCEPT ![p] = "remove"]
    /\ UNCHANGED <<pidfile, socket, leases, now>>

LeftBehind_Faulty == pidfile' = Nobody /\ socket' = Nobody
LeftBehind        == pidfile' = Nobody /\ UNCHANGED socket

RemovePidfile(p) ==
    /\ pc[p] = "remove"
    /\ LeftBehind
    /\ pc' = [pc EXCEPT ![p] = "gone"]
    /\ UNCHANGED <<lock, leases, now>>

\* kill -9: the kernel releases the lock; the files stay.
Kill(p) ==
    /\ Alive(p)
    /\ lock' = IF lock = p THEN Nobody ELSE lock
    /\ pc' = [pc EXCEPT ![p] = "gone"]
    /\ UNCHANGED <<pidfile, socket, leases, now>>

-----------------------------------------------------------------------------
(* Registry, through the serving process.                                  *)

Registered(p, a) == registry[p][a] # NoLease

\* upsert: a new agent's lease is dated forward, a known one's is not.
Upserted(p, a) ==
    IF Registered(p, a) THEN [registry[p][a] EXCEPT !.seen = now]
                        ELSE [seen |-> now + Lease, since |-> now]

Register(p, a) ==
    /\ pc[p] = "serving"
    /\ registry' = [registry EXCEPT ![p][a] = Upserted(p, a)]
    /\ contact' = [contact EXCEPT ![p][a] = now]
    /\ UNCHANGED <<pc, slot, now>>

\* heartbeat: an unknown agent gets an error.
Renewed(l) == [l EXCEPT !.seen = now]

Heartbeat(p, a) ==
    /\ pc[p] = "serving"
    /\ Registered(p, a)
    /\ registry' = [registry EXCEPT ![p][a] = Renewed(@)]
    /\ contact' = [contact EXCEPT ![p][a] = now]
    /\ UNCHANGED <<pc, slot, now>>

Deregister(p, a) ==
    /\ pc[p] = "serving"
    /\ Registered(p, a)
    /\ registry' = [registry EXCEPT ![p][a] = NoLease]
    /\ contact' = [contact EXCEPT ![p][a] = -1]
    /\ UNCHANGED <<pc, slot, now>>

Tick ==
    /\ now < MaxTime
    /\ now' = now + 1
    /\ UNCHANGED <<pc, slot, leases>>

\* list_active: the agents whose last heartbeat is younger than a lease.
Anchor_Faulty(l) == l.since
Anchor(l)        == l.seen
ListActive(p) == {a \in Agents : Registered(p, a) /\ now - Anchor(registry[p][a]) < Lease}

-----------------------------------------------------------------------------
DaemonStep(p) ==
    \/ TryLock(p) \/ CreatePidfile(p) \/ WritePid(p) \/ RemoveStaleSocket(p) \/ Bind(p)
    \/ StopServing(p) \/ Unlock(p) \/ RemovePidfile(p) \/ Kill(p)

RNext ==
    \/ \E p \in Procs : DaemonStep(p)
    \/ \E p \in Procs, a \in Agents : Register(p, a) \/ Heartbeat(p, a) \/ Deregister(p, a)
    \/ Tick

RSpec == RInit /\ [][RNext]_rvars

-----------------------------------------------------------------------------
(* Properties.                                                             *)

Holding == {"locked", "created", "unlink", "bind", "serving", "unlock"}
Leases  == {NoLease} \cup [seen : 0 .. MaxTime + Lease, since : 0 .. MaxTime]

\* Types; a lease is never dated further ahead than one lease.
RTypeOK ==
    /\ pc \in [Procs -> Holding \cup {"new", "remove", "gone"}]
    /\ lock \in Procs \cup {Nobody} /\ pidfile \in Procs \cup {Nobody}
    /\ socket \in Procs \cup {Nobody}
    /\ registry \in [Procs -> [Agents -> Leases]]
    /\ contact \in [Procs -> [Agents -> -1 .. MaxTime]]
    /\ now \in 0 .. MaxTime

\* The slot is exclusive from the lock to the closed listener, also while the
\* pidfile still names a dead process: agents see one registry.
SlotExclusive == \A p, q \in Procs : pc[p] \in Holding /\ pc[q] \in Holding => p = q

\* A serving daemon is the one the socket path leads to: nobody else unlinks or
\* binds the path while it serves, predecessors that are still going away included.
ServingReachable == \A p \in Procs : pc[p] = "serving" => socket = p

\* In whatever order registrations and heartbeats come: an agent heard of less
\* than a lease ago is listed, and a silent one is not, two leases after it was
\* last heard of.
ListedByLease ==
    \A p \in Procs, a \in Agents :
        /\ contact[p][a] >= 0 /\ now - contact[p][a] < Lease => a \in ListActive(p)
        /\ a \in ListActive(p) => now - contact[p][a] < 2 * Lease
=============================================================================
