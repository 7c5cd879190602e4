----------------------------- MODULE DaemonRepo -----------------------------
(***************************************************************************)
(* DaemonConversationRepository (crates/forge_repo/src/daemon_repo.rs) in  *)
(* several application processes that share one socket path and one        *)
(* database, composed with the daemons they find or spawn.  Each task of a *)
(* process routes one conversation write: through a daemon when one can be *)
(* reached or spawned, directly otherwise, and never through both.         *)
(*                                                                         *)
(* A daemon is what DbServer shows it to be to its clients: it starts,     *)
(* binds, takes requests in order, commits each at most once, drains on    *)
(* exit, or dies.  A process spawns at most one daemon, which therefore    *)
(* bears the name of the process; First is a daemon that was there before. *)
(***************************************************************************)
EXTENDS Integers, Sequences, FiniteSets

CONSTANTS
    Procs,      \* application processes
    Writers,    \* writes: pairs of a process and one of its tasks
    First,      \* a daemon started earlier
    NoOne       \* no daemon, no socket file, no lock holder

ASSUME NamesAssumption   == First \notin Procs /\ NoOne \notin Procs \cup {First}
ASSUME WritersAssumption == \A w \in Writers : w[1] \in Procs /\ w # NoOne

Daemons == Procs \cup {First}
proc(w) == w[1]

VARIABLES
    daemon,      \* life of each daemon process
    sock,        \* the daemon whose listener is bound at the socket path
    queue,       \* requests a daemon accepted and has not executed
    answer,      \* the daemon's response to each write: "none", "ack", "error"
    stage,       \* where each write is in write_or_fallback
    lifecycle,   \* holder of a process's lifecycle_lock
    cached,      \* generation of the cached DbClient, 0 when there is none
    probes,      \* DbClients created so far: the identity of an Arc
    held,        \* the DbClient a write cloned out of the cache
    attempted,   \* SPAWN_ATTEMPTED
    spawned,     \* the lock holder spawned a daemon and polls for it
    conn,        \* daemon at the other end of a write's stream
    result,      \* what the caller of the repository got
    applied      \* writes committed to SQLite: who, and by which path

daemonVars == <<daemon, sock, queue, answer>>
repoVars   == <<lifecycle, cached, probes, held, attempted, spawned>>
routeVars  == <<daemonVars, stage, repoVars, conn, result, applied>>

Alive(d)     == daemon[d] \in {"up", "draining"}
\* A connect succeeds whenever the listener bound at the path still exists.
Reachable    == sock # NoOne /\ Alive(sock)
goto(w, l)   == stage' = [stage EXCEPT ![w] = l]
\* The guard of lifecycle_lock goes out of scope.
Unlock_Faulty(w) == UNCHANGED lifecycle
Unlock(w)        == lifecycle' = [lifecycle EXCEPT ![proc(w)] = NoOne]

\* Either nothing runs, or a daemon serves the path, or a dead one left its
\* socket file behind.
RouteInit ==
    /\ \E s \in {"unused", "up", "gone"} :
         /\ daemon = [d \in Daemons |-> IF d = First THEN s ELSE "unused"]
         /\ sock = IF s = "unused" THEN NoOne ELSE First
    /\ queue = [d \in Daemons |-> <<>>]
    /\ answer = [w \in Writers |-> "none"]
    /\ stage = [w \in Writers |-> "idle"]
    /\ lifecycle = [p \in Procs |-> NoOne]
    /\ cached = [p \in Procs |-> 0]
    /\ probes = [p \in Procs |-> 0]
    /\ held = [w \in Writers |-> 0]
    /\ attempted = [p \in Procs |-> FALSE]
    /\ spawned = [p \in Procs |-> FALSE]
    /\ conn = [w \in Writers |-> NoOne]
    /\ result = [w \in Writers |-> "none"]
    /\ applied = <<>>

-----------------------------------------------------------------------------
(* try_daemon, under the lifecycle lock: ensure_client.                    *)

\* The lock is taken; a cached client is cloned and the lock released.
UseCached(w) ==
    /\ stage[w] = "idle"
    /\ lifecycle[proc(w)] = NoOne
    /\ cached[proc(w)] # 0
    /\ held' = [held EXCEPT ![w] = cached[proc(w)]]
    /\ goto(w, "send")
    /\ UNCHANGED <<daemonVars, lifecycle, cached, probes, attempted, spawned,
                   conn, result, applied>>

\* The lock is taken and no client is cached.
BeginRecovery(w) ==
    /\ stage[w] = "idle"
    /\ lifecycle[proc(w)] = NoOne
    /\ cached[proc(w)] = 0
    /\ lifecycle' = [lifecycle EXCEPT ![proc(w)] = w]
    /\ goto(w, "connect")
    /\ UNCHANGED <<daemonVars, cached, probes, held, attempted, spawned, conn,
                   result, applied>>

\* DbClient::connect got a stream and wrote its Ping.
ProbeStream(w) ==
    /\ stage[w] = "connect"
    /\ Reachable
    /\ conn' = [conn EXCEPT ![w] = sock]
    /\ goto(w, "probe")
    /\ UNCHANGED <<daemonVars, repoVars, result, applied>>

\* The Ping was answered: the client is cached, cloned, the lock released.
ProbeAnswered(w) ==
    /\ stage[w] = "probe"
    /\ daemon[conn[w]] = "up"
    /\ probes' = [probes EXCEPT ![proc(w)] = @ + 1]
    /\ cached' = [cached EXCEPT ![proc(w)] = probes'[proc(w)]]
    /\ held' = [held EXCEPT ![w] = probes'[proc(w)]]
    /\ conn' = [conn EXCEPT ![w] = NoOne]
    /\ Unlock(w)
    /\ spawned' = [spawned EXCEPT ![proc(w)] = FALSE]
    /\ goto(w, "send")
    /\ UNCHANGED <<daemonVars, attempted, result, applied>>

\* DbClient::connect failed: no listener, or it went away before it answered.
ConnectFails(w) ==
    \/ stage[w] = "connect" /\ ~Reachable
    \/ stage[w] = "probe" /\ daemon[conn[w]] = "gone"

\* First failure in this process: spawn a daemon and poll for it.
MaySpawn(p) == ~attempted[p]

SpawnDaemon(w) ==
    /\ ConnectFails(w)
    /\ MaySpawn(proc(w))
    /\ attempted' = [attempted EXCEPT ![proc(w)] = TRUE]
    /\ spawned' = [spawned EXCEPT ![proc(w)] = TRUE]
    /\ daemon' = [daemon EXCEPT ![proc(w)] = "starting"]
    /\ conn' = [conn EXCEPT ![w] = NoOne]
    /\ goto(w, "connect")
    /\ UNCHANGED <<sock, queue, answer, lifecycle, cached, probes, held,
                   result, applied>>

\* Another round of the polling loop.
PollAgain(w) ==
    /\ stage[w] = "probe" /\ ConnectFails(w)
    /\ spawned[proc(w)]
    /\ conn' = [conn EXCEPT ![w] = NoOne]
    /\ goto(w, "connect")
    /\ UNCHANGED <<daemonVars, repoVars, result, applied>>

\* The binary cannot be spawned, a spawn was attempted before, or the ten
\* polls were in vain: no request was sent, the direct write is safe.
GiveUpOnDaemon(w) ==
    /\ ConnectFails(w)
    /\ attempted' = [attempted EXCEPT ![proc(w)] = TRUE]
    /\ spawned' = [spawned EXCEPT ![proc(w)] = FALSE]
    /\ conn' = [conn EXCEPT ![w] = NoOne]
    /\ Unlock(w)
    /\ goto(w, "fallback")
    /\ UNCHANGED <<daemonVars, cached, probes, held, result, applied>>

-----------------------------------------------------------------------------
(* send_classified on a fresh stream, outside both locks.                  *)

SendStream(w) ==
    /\ stage[w] = "send"
    /\ Reachable
    /\ conn' = [conn EXCEPT ![w] = sock]
    /\ goto(w, "sent")
    /\ UNCHANGED <<daemonVars, repoVars, result, applied>>

\* Connection refused: Unavailable.
SendRefused(w) ==
    /\ stage[w] = "send"
    /\ ~Reachable
    /\ goto(w, "evict")
    /\ UNCHANGED <<daemonVars, repoVars, conn, result, applied>>

\* Drop exactly the probe this write used, under the lifecycle lock.
EvictAllowed_Faulty(w) == TRUE
EvictAllowed(w)        == lifecycle[proc(w)] = NoOne

AfterEvict_Faulty(w) == 0
AfterEvict(w) == IF cached[proc(w)] = held[w] THEN 0 ELSE cached[proc(w)]

EvictStale(w) ==
    /\ stage[w] = "evict"
    /\ EvictAllowed(w)
    /\ cached' = [cached EXCEPT ![proc(w)] = AfterEvict(w)]
    /\ goto(w, "fallback")
    /\ UNCHANGED <<daemonVars, lifecycle, probes, held, attempted, spawned,
                   conn, result, applied>>

Settle(w, r) == goto(w, "done") /\ result' = [result EXCEPT ![w] = r]

\* Only an Ack counts as success.
Confirms_Faulty(a) == a # "none"
Confirms(a)        == a = "ack"

SendAcked(w) ==
    /\ stage[w] = "taken"
    /\ Confirms(answer[w])
    /\ Settle(w, "ok")
    /\ UNCHANGED <<daemonVars, repoVars, conn, applied>>

\* An error response, the handler's 30s timeout, or the end of the stream:
\* never replayed.
AfterUncertainSend_Faulty(w) == goto(w, "fallback") /\ UNCHANGED result
AfterUncertainSend(w)        == Settle(w, "indeterminate")

SendUncertain(w) ==
    /\ \/ stage[w] = "taken" /\ answer[w] # "ack"
       \/ stage[w] = "sent" /\ ~Alive(conn[w])
    /\ AfterUncertainSend(w)
    /\ UNCHANGED <<daemonVars, repoVars, conn, applied>>

\* fallback(): the write through the process's own pool, which may fail.
DirectWrite(w) ==
    /\ stage[w] = "fallback"
    /\ \/ Settle(w, "ok") /\ applied' = Append(applied, [who |-> w, by |-> NoOne])
       \/ Settle(w, "failed") /\ UNCHANGED applied
    /\ UNCHANGED <<daemonVars, repoVars, conn>>

-----------------------------------------------------------------------------
(* Daemons (run_unix), as far as their clients can tell.  A connection is  *)
(* accepted and its request enqueued in one step, before any shutdown:     *)
(* what handlers still enqueue while the daemon drains is executed before  *)
(* its exit, so it could as well have been enqueued earlier.               *)

\* socket_path.exists(), then remove_file, then bind: three separate steps.
CheckSocket(d) ==
    /\ daemon[d] = "starting"
    /\ daemon' = [daemon EXCEPT ![d] = IF sock = NoOne THEN "binding"
                                                       ELSE "removing"]
    /\ UNCHANGED <<sock, queue, answer, stage, repoVars, conn, result, applied>>

\* Unlinking fails, and with it the start, when the file is already gone.
RemoveSocket(d) ==
    /\ daemon[d] = "removing"
    /\ daemon' = [daemon EXCEPT ![d] = IF sock = NoOne THEN "gone"
                                                       ELSE "binding"]
    /\ sock' = NoOne
    /\ UNCHANGED <<queue, answer, stage, repoVars, conn, result, applied>>

\* Binding fails when a file is already there.
BindSocket(d) ==
    /\ daemon[d] = "binding"
    /\ daemon' = [daemon EXCEPT ![d] = IF sock = NoOne THEN "up" ELSE "gone"]
    /\ sock' = IF sock = NoOne THEN d ELSE sock
    /\ UNCHANGED <<queue, answer, stage, repoVars, conn, result, applied>>

\* A connection is accepted and its request enters the channel.
TakeRequest(w) ==
    /\ stage[w] = "sent"
    /\ daemon[conn[w]] = "up"
    /\ queue' = [queue EXCEPT ![conn[w]] = Append(@, w)]
    /\ goto(w, "taken")
    /\ UNCHANGED <<daemon, sock, answer, repoVars, conn, result, applied>>

\* The writer commits the oldest request, or its statement fails.
ExecuteRequest(d) ==
    /\ Alive(d)
    /\ queue[d] # <<>>
    /\ \E a \in {"ack", "error"} :
         /\ answer' = [answer EXCEPT ![Head(queue[d])] = a]
         /\ applied' = IF a = "ack"
                       THEN Append(applied, [who |-> Head(queue[d]), by |-> d])
                       ELSE applied
    /\ queue' = [queue EXCEPT ![d] = Tail(@)]
    /\ UNCHANGED <<daemon, sock, stage, repoVars, conn, result>>

\* A signal or the idle timeout.
StopDaemon(d) ==
    /\ daemon[d] = "up"
    /\ daemon' = [daemon EXCEPT ![d] = "draining"]
    /\ UNCHANGED <<sock, queue, answer, stage, repoVars, conn, result, applied>>

\* After the drain the daemon unlinks whatever is at its socket path.
ExitDaemon(d) ==
    /\ daemon[d] = "draining"
    /\ queue[d] = <<>>
    /\ daemon' = [daemon EXCEPT ![d] = "gone"]
    /\ sock' = NoOne
    /\ UNCHANGED <<queue, answer, stage, repoVars, conn, result, applied>>

\* kill -9: the queue is lost, the socket file stays.
CrashDaemon(d) ==
    /\ daemon[d] \in {"starting", "removing", "binding", "up", "draining"}
    /\ daemon' = [daemon EXCEPT ![d] = "gone"]
    /\ queue' = [queue EXCEPT ![d] = <<>>]
    /\ UNCHANGED <<sock, answer, stage, repoVars, conn, result, applied>>

-----------------------------------------------------------------------------
WriteStep(w) ==
    \/ UseCached(w) \/ BeginRecovery(w)
    \/ ProbeStream(w) \/ ProbeAnswered(w)
    \/ SpawnDaemon(w) \/ PollAgain(w) \/ GiveUpOnDaemon(w)
    \/ SendStream(w) \/ SendRefused(w) \/ EvictStale(w)
    \/ SendAcked(w) \/ SendUncertain(w)
    \/ DirectWrite(w)

DaemonStep(d) ==
    \/ CheckSocket(d) \/ RemoveSocket(d) \/ BindSocket(d)
    \/ ExecuteRequest(d)
    \/ ExitDaemon(d)

RouteNext ==
    \/ \E w \in Writers : WriteStep(w) \/ TakeRequest(w)
    \/ \E d \in Daemons : DaemonStep(d) \/ StopDaemon(d) \/ CrashDaemon(d)

RouteSpec == RouteInit /\ [][RouteNext]_routeVars

\* Tasks run, timers fire (polls and the daemon's 30s response timeout end), a
\* live daemon accepts, executes and, once draining, exits.
RouteFairness ==
    /\ \A w \in Writers : WF_routeVars(WriteStep(w)) /\ WF_routeVars(TakeRequest(w))
    /\ \A d \in Daemons : WF_routeVars(DaemonStep(d))

FairRouteSpec == RouteSpec /\ RouteFairness

-----------------------------------------------------------------------------
(* Properties.                                                             *)

\* Types, and who may hold a process's lifecycle lock: one of its own tasks
\* that is looking for a daemon.
RouteTypeOK ==
    /\ daemon \in [Daemons -> {"unused", "starting", "removing", "binding",
                               "up", "draining", "gone"}]
    /\ sock \in Daemons \cup {NoOne}
    /\ queue \in [Daemons -> Seq(Writers)]
    /\ answer \in [Writers -> {"none", "ack", "error"}]
    /\ stage \in [Writers -> {"idle", "connect", "probe", "send", "sent", "taken",
                           "evict", "fallback", "done"}]
    /\ lifecycle \in [Procs -> Writers \cup {NoOne}]
    /\ \A p \in Procs : lifecycle[p] # NoOne =>
         proc(lifecycle[p]) = p /\ stage[lifecycle[p]] \in {"connect", "probe"}
    /\ cached \in [Procs -> Nat]
    /\ probes \in [Procs -> Nat]
    /\ held \in [Writers -> Nat]
    /\ attempted \in [Procs -> BOOLEAN]
    /\ spawned \in [Procs -> BOOLEAN]
    /\ conn \in [Writers -> Daemons \cup {NoOne}]
    /\ result \in [Writers -> {"none", "ok", "failed", "indeterminate"}]
    /\ applied \in Seq([who : Writers, by : Daemons \cup {NoOne}])

\* write_or_fallback never lets a write reach the database twice, by two
\* daemons or by a daemon and the direct pool.
OneDelivery ==
    \A i, j \in 1 .. Len(applied) : applied[i].who = applied[j].who => i = j

\* Ok means the write is in the database, by whichever path.
OkMeansApplied ==
    \A w \in Writers : result[w] = "ok" =>
        \E i \in 1 .. Len(applied) : applied[i].who = w

\* Before it takes the direct path a write waits for a recovery that another
\* task of its process has under way (the comment on lifecycle_lock).
FallbackWaitsForRecovery ==
    [][\A w, v \in Writers :
         /\ stage[w] # "fallback" /\ stage'[w] = "fallback"
         /\ proc(v) = proc(w) /\ v # w
         => stage[v] \notin {"connect", "probe"}]_routeVars

\* A probe is only evicted by a write that used this very probe: a client
\* cached by a newer recovery survives.
EvictsOwnProbe ==
    [][\A p \in Procs : cached[p] # 0 /\ cached'[p] = 0 =>
         \E w \in Writers : proc(w) = p /\ stage[w] = "evict" /\ held[w] = cached[p]]_routeVars

\* ADR 004: exactly one writer owns the database file at any time.
SingleWriter == Cardinality({d \in Daemons : Alive(d)}) <= 1

\* Every write returns to its caller: no wait on the lifecycle lock, on a
\* probe of a draining daemon or on a lost response lasts for ever.
WritesSettle == \A w \in Writers : <>(result[w] # "none")
=============================================================================
