----------------------------- MODULE McpClient ------------------------------
(***************************************************************************)
(* One MCP client shared by concurrent calls: ForgeMcpClient (crates/      *)
(* forge_infra/src/mcp_client.rs) with the circuit breaker and the         *)
(* bulkhead of resilience.rs.  Calls connect lazily, are retried after     *)
(* transport errors, and may be cancelled at any await.                    *)
(*                                                                         *)
(* A connection is the number of its handshake.                            *)
(***************************************************************************)
EXTENDS Integers, FiniteSets

CONSTANTS
    Tasks,         \* tasks that list or call tools
    NoTask,
    Permits,       \* DEFAULT_MCP_MAX_CONCURRENT
    MaxAttempts,   \* retry_config.max_attempts: retries, and failure_threshold
    MaxConns,      \* bound on handshakes
    MaxFailures    \* bound on consecutive failures

ASSUME ClientAssumption ==
    /\ NoTask \notin Tasks
    /\ Permits \in Nat \ {0} /\ MaxAttempts \in Nat \ {0} /\ MaxConns \in Nat
    /\ MaxFailures \in Nat

VARIABLES
    breaker,      \* BreakerState
    elapsed,      \* reset_timeout has elapsed since the breaker opened
    failures,     \* consecutive_failures
    client,       \* the cached connection, 0 for none
    mutex,        \* holder of connect_mutex
    task,         \* the call each task has in flight
    \* History.
    conns,        \* handshakes so far
    probe         \* the call that was let through half-open, until it reports

cvars == <<breaker, elapsed, failures, client, mutex, task, conns, probe>>

NoCall == [pc |-> "idle", attempt |-> 0]

CInit ==
    /\ breaker = "closed" /\ elapsed = FALSE /\ failures = 0
    /\ client = 0 /\ mutex = NoTask
    /\ task = [t \in Tasks |-> NoCall]
    /\ conns = 0 /\ probe = NoTask

InFlight == {t \in Tasks : task[t].pc # "idle"}

-----------------------------------------------------------------------------
(* The circuit breaker.                                                    *)

AllowCall == breaker = "closed" \/ (breaker = "open" /\ elapsed)

\* on_success and on_failure, at the end of a call that was not cancelled.
OnSuccess == breaker' = "closed" /\ elapsed' = FALSE /\ failures' = 0

Opens_Faulty == breaker = "closed" /\ failures + 1 >= MaxAttempts
Opens        == breaker = "halfOpen" \/ (breaker = "closed" /\ failures + 1 >= MaxAttempts)

OnFailure ==
    /\ failures' = failures + 1
    /\ IF Opens THEN breaker' = "open" /\ elapsed' = FALSE
                ELSE UNCHANGED <<breaker, elapsed>>

Ended(t) ==
    /\ task' = [task EXCEPT ![t] = NoCall]
    /\ probe' = IF probe = t THEN NoTask ELSE probe

ResetElapses ==
    /\ breaker = "open" /\ ~elapsed
    /\ elapsed' = TRUE
    /\ UNCHANGED <<breaker, failures, client, mutex, task, conns, probe>>

-----------------------------------------------------------------------------
(* A call: bulkhead, breaker, then connect and the request, retried.       *)

Begin(t) ==
    /\ task[t].pc = "idle"
    /\ Cardinality(InFlight) < Permits
    /\ AllowCall /\ failures < MaxFailures
    /\ breaker' = IF breaker = "open" THEN "halfOpen" ELSE breaker
    /\ probe' = IF breaker = "open" THEN t ELSE probe
    /\ elapsed' = FALSE
    /\ task' = [task EXCEPT ![t].pc = "connect"]
    /\ UNCHANGED <<failures, client, mutex, conns>>

OnConnection(t) == task' = [task EXCEPT ![t].pc = "calling"]

\* connect: the fast path, or the mutex.
Connect(t) ==
    /\ task[t].pc = "connect"
    /\ IF client # 0 THEN OnConnection(t)
                     ELSE task' = [task EXCEPT ![t].pc = "wait"]
    /\ UNCHANGED <<breaker, elapsed, failures, client, mutex, conns, probe>>

\* The check is repeated under the mutex.
NeedsHandshake_Faulty == TRUE
NeedsHandshake        == client = 0

LockConnect(t) ==
    /\ task[t].pc = "wait" /\ mutex = NoTask
    /\ IF NeedsHandshake
       THEN mutex' = t /\ task' = [task EXCEPT ![t].pc = "handshake"]
       ELSE OnConnection(t) /\ UNCHANGED mutex
    /\ UNCHANGED <<breaker, elapsed, failures, client, conns, probe>>

\* create_connection and set_client; a failed handshake is not retried.
Handshake(t) ==
    /\ task[t].pc = "handshake"
    /\ conns < MaxConns
    /\ conns' = conns + 1 /\ client' = conns + 1
    /\ OnConnection(t)
    /\ mutex' = NoTask
    /\ UNCHANGED <<breaker, elapsed, failures, probe>>

HandshakeFails(t) ==
    /\ task[t].pc = "handshake"
    /\ mutex' = NoTask
    /\ OnFailure /\ Ended(t)
    /\ UNCHANGED <<client, conns>>

Answered(t) ==
    /\ task[t].pc = "calling"
    /\ OnSuccess /\ Ended(t)
    /\ UNCHANGED <<client, mutex, conns>>

\* An error of the server is final.
Refused(t) ==
    /\ task[t].pc = "calling"
    /\ OnFailure /\ Ended(t)
    /\ UNCHANGED <<client, mutex, conns>>

\* mcp_should_retry: a transport error clears the cached connection, be it this
\* one or a newer one, after the last attempt too.
TransportFails(t) ==
    /\ task[t].pc = "calling"
    /\ client' = 0
    /\ IF task[t].attempt < MaxAttempts
       THEN /\ task' = [task EXCEPT ![t].pc = "backoff", ![t].attempt = @ + 1]
            /\ UNCHANGED <<breaker, elapsed, failures, probe>>
       ELSE OnFailure /\ Ended(t)
    /\ UNCHANGED <<mutex, conns>>

Retry(t) ==
    /\ task[t].pc = "backoff"
    /\ task' = [task EXCEPT ![t].pc = "connect"]
    /\ UNCHANGED <<breaker, elapsed, failures, client, mutex, conns, probe>>

\* The future is dropped: permit and mutex are released, the breaker is not told.
CancelCall(t) ==
    /\ task[t].pc # "idle"
    /\ mutex' = IF mutex = t THEN NoTask ELSE mutex
    /\ task' = [task EXCEPT ![t] = NoCall]
    /\ UNCHANGED <<breaker, elapsed, failures, client, conns, probe>>

-----------------------------------------------------------------------------
CNext ==
    \/ ResetElapses
    \/ \E t \in Tasks :
         \/ Begin(t) \/ Connect(t) \/ LockConnect(t)
         \/ Handshake(t) \/ HandshakeFails(t)
         \/ Answered(t) \/ Refused(t) \/ TransportFails(t) \/ Retry(t)
         \/ CancelCall(t)

CSpec == CInit /\ [][CNext]_cvars

-----------------------------------------------------------------------------
(* Properties.                                                             *)

\* The comment on connect_mutex: no task replaces a live connection by its own,
\* discarding one that other calls are using.
NoConnectionDiscarded == [][client # 0 /\ client' # 0 => client' = client]_cvars

\* The breaker is closed exactly while fewer than failure_threshold failures
\* came in a row, although calls of an earlier phase report late; and half-open
\* only while the call it let through still has to report (or was cancelled, in
\* which case nothing will).
BreakerSound ==
    /\ breaker = "closed" <=> failures < MaxAttempts
    /\ breaker = "halfOpen" => probe # NoTask
=============================================================================
