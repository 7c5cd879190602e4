------------------------------ MODULE DbServer ------------------------------
(***************************************************************************)
(* The single-writer daemon of crates/forge_dbd (server.rs), seen through  *)
(* the clients of client.rs: connections wait in the listener's backlog,   *)
(* are accepted by the run loop, served by one handler task each, and      *)
(* funnel their requests through one bounded channel into one writer task  *)
(* that batches them and executes them on one SQLite connection.           *)
(*                                                                         *)
(* Time is abstracted: a timer (30s read, 30s response, 15ms batch window, *)
(* idle window) may fire whenever the code could be suspended on it.  The  *)
(* payload of a request is abstracted to its kind; a request is named by   *)
(* its connection and its sequence number on that connection.              *)
(*                                                                         *)
(* A definition D_Faulty is a plausible slip in the code D models; nothing *)
(* uses it: it is there to be put in D's place, and a property must then   *)
(* fail.                                                                   *)
(***************************************************************************)
EXTENDS Integers, Sequences, FiniteSets

CONSTANTS
    Conns,           \* client connections, at most one handler task each
    MaxFrames,       \* bound: frames a client sends on one connection
    QueueCap,        \* capacity of the mpsc channel (1024 in run_unix)
    BatchThreshold   \* batch_threshold (100 in writer_task)

ASSUME ConnsAssumption     == IsFiniteSet(Conns)
ASSUME MaxFramesAssumption == MaxFrames \in Nat \ {0}
ASSUME QueueCapAssumption  == QueueCap \in Nat \ {0}
ASSUME ThresholdAssumption == BatchThreshold \in Nat \ {0}

VARIABLES
    phase,        \* run loop: "accepting", "draining", "exited", "crashed"
    client,       \* client end of each connection: "none", "open", "closed"
    frame,        \* kind of the frame in flight to the daemon, or "none"
    sent,         \* frames the client has written so far
    reply,        \* response in flight to the client, or "none"
    verdict,      \* what the client learned of each request it sent
    handler,      \* program counter of each connection handler
    queue,        \* the mpsc channel
    batch,        \* writer_task's batch (what is left of it during a flush)
    writer,       \* program counter of writer_task
    flushLen,     \* `len`, read before flush_batch drains the batch
    connOpen,     \* conn.is_some()
    oneshot,      \* the response_tx/response_rx channel of each request
    queueDepth,   \* DaemonState.queue_depth
    active,       \* active_connections
    db,           \* mutations committed to SQLite, in commit order
    enqueued,     \* history: requests accepted by the channel, in order
    processed     \* history: requests the writer finished, in order

clientVars  == <<client, frame, sent, reply, verdict>>
writerVars  == <<batch, writer, flushLen, connOpen, processed, db>>
vars == <<phase, clientVars, handler, queue, writerVars, oneshot, queueDepth,
          active, enqueued>>

QueuedKinds == {"mutation", "legacy"}
Kinds       == {"ping"} \cup QueuedKinds
Rids        == Conns \X (1 .. MaxFrames)
Requests    == [conn : Conns, n : 1 .. MaxFrames, kind : QueuedKinds]
Answers     == {"ack", "error"}
rid(r)      == <<r.conn, r.n>>

\* Handlers that still own a clone of the Arc'd sender half of the channel.
HoldsSender(c) == handler[c] \in {"spawned", "read", "send-mutation",
                                  "send-legacy", "await"}
\* The request handler c read last.
InHand(c, k) == [conn |-> c, n |-> sent[c], kind |-> k]
Sending(k)   == IF k = "mutation" THEN "send-mutation" ELSE "send-legacy"
Current(c)   == <<c, sent[c]>>

\* The daemon end of the stream is open: a frame or a reply can cross it.
Running   == phase \in {"accepting", "draining"}
Served(c) == handler[c] \in {"backlog", "spawned", "read", "send-mutation",
                             "send-legacy", "await"}

-----------------------------------------------------------------------------
Init ==
    /\ phase = "accepting"
    /\ client = [c \in Conns |-> "none"]
    /\ frame = [c \in Conns |-> "none"]
    /\ sent = [c \in Conns |-> 0]
    /\ reply = [c \in Conns |-> "none"]
    /\ verdict = [r \in Rids |-> "none"]
    /\ handler = [c \in Conns |-> "none"]
    /\ queue = <<>>
    /\ batch = <<>>
    /\ writer = "recv"
    /\ flushLen = 0
    /\ connOpen = FALSE
    /\ oneshot = [r \in Rids |-> "none"]
    /\ queueDepth = 0
    /\ active = 0
    /\ db = <<>>
    /\ enqueued = <<>>
    /\ processed = <<>>

-----------------------------------------------------------------------------
(* Clients (client.rs).                                                    *)

\* UnixStream::connect succeeds while the listener exists, which includes the
\* whole drain: the connection then only waits in the backlog.
Connect(c) ==
    /\ Running
    /\ client[c] = "none"
    /\ client' = [client EXCEPT ![c] = "open"]
    /\ handler' = [handler EXCEPT ![c] = "backlog"]
    /\ UNCHANGED <<phase, frame, sent, reply, verdict, queue, writerVars,
                   oneshot, queueDepth, active, enqueued>>

\* request_response writes one frame and then only reads.
SendFrame(c, k) ==
    /\ client[c] = "open"
    /\ Running /\ Served(c)
    /\ frame[c] = "none" /\ reply[c] = "none"
    /\ sent[c] < MaxFrames
    /\ sent[c] > 0 => verdict[<<c, sent[c]>>] # "none"
    /\ frame' = [frame EXCEPT ![c] = k]
    /\ sent' = [sent EXCEPT ![c] = @ + 1]
    /\ UNCHANGED <<phase, client, reply, verdict, handler, queue, writerVars,
                   oneshot, queueDepth, active, enqueued>>

\* The response frame arrives.
ReceiveReply(c) ==
    /\ client[c] = "open"
    /\ reply[c] # "none"
    /\ verdict' = [verdict EXCEPT ![Current(c)] = reply[c]]
    /\ reply' = [reply EXCEPT ![c] = "none"]
    /\ UNCHANGED <<phase, client, frame, sent, handler, queue, writerVars,
                   oneshot, queueDepth, active, enqueued>>

\* The stream ends, or the caller drops the future, before a response frame
\* was read: the exchange had begun, so it is classified Indeterminate.
Abandon(c) ==
    /\ client[c] = "open"
    /\ client' = [client EXCEPT ![c] = "closed"]
    /\ verdict' = IF sent[c] > 0 /\ verdict[Current(c)] = "none"
                  THEN [verdict EXCEPT ![Current(c)] = "indeterminate"]
                  ELSE verdict
    /\ reply' = [reply EXCEPT ![c] = "none"]
    /\ UNCHANGED <<phase, frame, sent, handler, queue, writerVars, oneshot,
                   queueDepth, active, enqueued>>

-----------------------------------------------------------------------------
(* Run loop (run_unix).                                                    *)

\* listener.accept(): a handler task is spawned with a clone of queue_tx.
Accept(c) ==
    /\ phase = "accepting"
    /\ handler[c] = "backlog"
    /\ handler' = [handler EXCEPT ![c] = "spawned"]
    /\ UNCHANGED <<phase, clientVars, queue, writerVars, oneshot, queueDepth,
                   active, enqueued>>

\* The spawned task counts itself before it serves the client.
StartHandler(c) ==
    /\ Running
    /\ handler[c] = "spawned"
    /\ handler' = [handler EXCEPT ![c] = "read"]
    /\ active' = active + 1
    /\ UNCHANGED <<phase, clientVars, queue, writerVars, oneshot, queueDepth,
                   enqueued>>

\* SIGTERM or SIGINT: leave the accept loop and drop the loop's sender.
Shutdown ==
    /\ phase = "accepting"
    /\ phase' = "draining"
    /\ UNCHANGED <<clientVars, handler, queue, writerVars, oneshot, queueDepth,
                   active, enqueued>>

NoActiveClients == active = 0

\* The idle window elapsed with no active client: the same drain.
IdleTimeout ==
    /\ phase = "accepting"
    /\ NoActiveClients
    /\ phase' = "draining"
    /\ UNCHANGED <<clientVars, handler, queue, writerVars, oneshot, queueDepth,
                   active, enqueued>>

\* writer_handle.await returned: the process ends, connections still in the
\* backlog are reset.
Exit ==
    /\ phase = "draining"
    /\ writer = "done"
    /\ phase' = "exited"
    /\ UNCHANGED <<clientVars, handler, queue, writerVars, oneshot, queueDepth,
                   active, enqueued>>

\* kill -9: everything in memory is gone; committed rows, and responses the
\* kernel already buffered for a client, survive.
Crash ==
    /\ Running
    /\ phase' = "crashed"
    /\ frame' = [c \in Conns |-> "none"]
    /\ handler' = [c \in Conns |-> "done"]
    /\ oneshot' = [r \in Rids |-> "none"]
    /\ queue' = <<>> /\ batch' = <<>>
    /\ writer' = "done" /\ flushLen' = 0 /\ connOpen' = FALSE
    /\ queueDepth' = 0 /\ active' = 0
    /\ UNCHANGED <<client, sent, reply, verdict, db, enqueued, processed>>

-----------------------------------------------------------------------------
(* Connection handler (handle_client).                                     *)

\* A response frame is written to a stream whose client may be gone.
Respond(c, a) ==
    reply' = IF client[c] = "open" THEN [reply EXCEPT ![c] = a] ELSE reply

\* Ping is answered inline, without the queue.
HandlePing(c) ==
    /\ Running
    /\ handler[c] = "read"
    /\ frame[c] = "ping"
    /\ frame' = [frame EXCEPT ![c] = "none"]
    /\ Respond(c, "health")
    /\ UNCHANGED <<phase, client, sent, verdict, handler, queue, writerVars,
                   oneshot, queueDepth, active, enqueued>>

\* Any other request is counted first and then offered to the channel.
ReadRequest(c) ==
    /\ Running
    /\ handler[c] = "read"
    /\ frame[c] \in QueuedKinds
    /\ frame' = [frame EXCEPT ![c] = "none"]
    /\ handler' = [handler EXCEPT ![c] = Sending(frame[c])]
    /\ queueDepth' = queueDepth + 1
    /\ UNCHANGED <<phase, client, sent, reply, verdict, queue, writerVars,
                   oneshot, active, enqueued>>

\* Nothing to read: the client closed (frame read error) or 30s went by.
ReadFails_Faulty(c) == frame[c] = "none" /\ client[c] = "closed"
ReadFails(c)        == frame[c] = "none"

ReadEnds(c) ==
    /\ Running
    /\ handler[c] = "read"
    /\ ReadFails(c)
    /\ handler' = [handler EXCEPT ![c] = "leaving"]
    /\ UNCHANGED <<phase, clientVars, queue, writerVars, oneshot, queueDepth,
                   active, enqueued>>

HasCapacity_Faulty == Len(queue) <= QueueCap
HasCapacity        == Len(queue) < QueueCap

\* queue_tx.send(queued).await: suspended while the channel is full.
Enqueue(c) ==
    /\ Running
    /\ \E k \in QueuedKinds :
         /\ handler[c] = Sending(k)
         /\ HasCapacity
         /\ queue' = Append(queue, InHand(c, k))
         /\ enqueued' = Append(enqueued, InHand(c, k))
    /\ handler' = [handler EXCEPT ![c] = "await"]
    /\ UNCHANGED <<phase, clientVars, writerVars, oneshot, queueDepth, active>>

\* The writer answered; a failed write_frame (the client is gone) ends the
\* handler, a successful one returns it to the next frame.
ForwardResponse(c) ==
    /\ Running
    /\ handler[c] = "await"
    /\ oneshot[Current(c)] # "none"
    /\ Respond(c, oneshot[Current(c)])
    /\ handler' \in {[handler EXCEPT ![c] = h] :
                     h \in {"read"} \cup
                           (IF client[c] = "open" THEN {} ELSE {"leaving"})}
    /\ UNCHANGED <<phase, client, frame, sent, verdict, queue, writerVars,
                   oneshot, queueDepth, active, enqueued>>

TimeoutResponse_Faulty == "ack"
TimeoutResponse        == "error"

\* 30s without an answer: an error goes to the client, the request stays in
\* the channel or the batch and will still be executed.
ResponseTimeout(c) ==
    /\ Running
    /\ handler[c] = "await"
    /\ oneshot[Current(c)] = "none"
    /\ Respond(c, TimeoutResponse)
    /\ handler' = [handler EXCEPT ![c] = "leaving"]
    /\ UNCHANGED <<phase, client, frame, sent, verdict, queue, writerVars,
                   oneshot, queueDepth, active, enqueued>>

\* handle_client returned (stream and sender are dropped); the wrapper task
\* uncounts the client.
FinishHandler(c) ==
    /\ Running
    /\ handler[c] = "leaving"
    /\ handler' = [handler EXCEPT ![c] = "done"]
    /\ active' = active - 1
    /\ UNCHANGED <<phase, clientVars, queue, writerVars, oneshot, queueDepth,
                   enqueued>>

-----------------------------------------------------------------------------
(* Writer (writer_task, flush_batch, execute_with_conn).                   *)

\* queue_rx.recv() can only return None once every sender is gone.
SendersGone_Faulty == phase # "accepting"
SendersGone == phase # "accepting" /\ \A c \in Conns : ~HoldsSender(c)

StartFlush(b) ==
    /\ flushLen' = Len(b)
    /\ writer' = IF connOpen THEN "execute" ELSE "open"

PushBatch_Faulty(r) == <<r>> \o batch
PushBatch(r)        == Append(batch, r)

ReceiveRequest ==
    /\ Running
    /\ writer = "recv"
    /\ queue # <<>>
    /\ batch' = PushBatch(Head(queue))
    /\ queue' = Tail(queue)
    /\ IF Len(batch') >= BatchThreshold THEN StartFlush(batch')
                                        ELSE UNCHANGED <<flushLen, writer>>
    /\ UNCHANGED <<phase, clientVars, handler, connOpen, processed, db,
                   oneshot, queueDepth, active, enqueued>>

\* The 15ms window elapsed on an empty channel that still has senders.
WindowFlush_Faulty == Len(batch) >= BatchThreshold
WindowFlush        == batch # <<>>

BatchWindowElapsed ==
    /\ Running
    /\ writer = "recv"
    /\ queue = <<>> /\ ~SendersGone
    /\ WindowFlush
    /\ StartFlush(batch)
    /\ UNCHANGED <<phase, clientVars, handler, queue, batch, connOpen,
                   processed, db, oneshot, queueDepth, active, enqueued>>

FinalFlush_Faulty == Len(batch) >= BatchThreshold
FinalFlush        == batch # <<>>

\* recv() returned None: flush what is left and leave.  The final flush and
\* an ordinary one differ only in what follows, which SendersGone decides.
ChannelClosed ==
    /\ Running
    /\ writer = "recv"
    /\ queue = <<>> /\ SendersGone
    /\ IF FinalFlush THEN StartFlush(batch)
                     ELSE writer' = "done" /\ UNCHANGED flushLen
    /\ UNCHANGED <<phase, clientVars, handler, queue, batch, connOpen,
                   processed, db, oneshot, queueDepth, active, enqueued>>

\* The connection is opened on the first flush.
OpenConnection ==
    /\ Running
    /\ writer = "open"
    /\ connOpen' = TRUE
    /\ writer' = "execute"
    /\ UNCHANGED <<phase, clientVars, handler, queue, batch, flushLen,
                   processed, db, oneshot, queueDepth, active, enqueued>>

AfterOpenFailure_Faulty == batch
AfterOpenFailure        == <<>>

\* A failed open answers the whole batch with an error and is retried on the
\* next flush.
OpenFails ==
    /\ Running
    /\ writer = "open"
    /\ oneshot' = [r \in Rids |->
                     IF \E i \in 1 .. Len(batch) : rid(batch[i]) = r
                     THEN "error" ELSE oneshot[r]]
    /\ processed' = processed \o batch
    /\ batch' = AfterOpenFailure
    /\ writer' = "account"
    /\ UNCHANGED <<phase, clientVars, handler, queue, flushLen, connOpen, db,
                   queueDepth, active, enqueued>>

\* What execute_with_conn may return: an SQL statement may fail, a legacy
\* unscoped mutation is always refused.
Outcomes(r) == IF r.kind = "legacy" THEN {"error"} ELSE Answers

\* One request of the batch, in autocommit mode.
ExecuteOne ==
    /\ Running
    /\ writer = "execute"
    /\ \E a \in Outcomes(Head(batch)) :
         /\ oneshot' = [oneshot EXCEPT ![rid(Head(batch))] = a]
         /\ db' = IF a = "ack" THEN Append(db, Head(batch)) ELSE db
    /\ processed' = Append(processed, Head(batch))
    /\ batch' = Tail(batch)
    /\ writer' = IF Tail(batch) = <<>> THEN "account" ELSE "execute"
    /\ UNCHANGED <<phase, clientVars, handler, queue, flushLen, connOpen,
                   queueDepth, active, enqueued>>

Flushed_Faulty == Len(batch)
Flushed        == flushLen

\* queue_depth.fetch_sub(len) after the answers went out.
AccountFlush ==
    /\ Running
    /\ writer = "account"
    /\ queueDepth' = queueDepth - Flushed
    /\ flushLen' = 0
    /\ writer' = "recv"
    /\ UNCHANGED <<phase, clientVars, handler, queue, batch, connOpen,
                   processed, db, oneshot, active, enqueued>>
-----------------------------------------------------------------------------
HandlerStep(c) ==
    \/ StartHandler(c)
    \/ HandlePing(c)
    \/ ReadRequest(c)
    \/ ReadEnds(c)
    \/ Enqueue(c)
    \/ ForwardResponse(c)
    \/ ResponseTimeout(c)
    \/ FinishHandler(c)

WriterStep ==
    \/ ReceiveRequest
    \/ BatchWindowElapsed
    \/ ChannelClosed
    \/ OpenConnection
    \/ OpenFails
    \/ ExecuteOne
    \/ AccountFlush

ClientStep(c) ==
    \/ Connect(c)
    \/ \E k \in Kinds : SendFrame(c, k)
    \/ ReceiveReply(c)
    \/ Abandon(c)

Next ==
    \/ \E c \in Conns : ClientStep(c) \/ Accept(c) \/ HandlerStep(c)
    \/ WriterStep
    \/ Shutdown
    \/ IdleTimeout
    \/ Exit
    \/ Crash

Spec == Init /\ [][Next]_vars

\* The stream ended under a client that waits for a response.
StreamEnded(c) == ~(Running /\ Served(c)) /\ reply[c] = "none"

(***************************************************************************)
(* The tokio runtime runs every ready task, timers fire, the kernel        *)
(* delivers what was written and reports a closed stream.  Nothing obliges *)
(* a client to send or the operator to stop the daemon.                    *)
(***************************************************************************)
Fairness ==
    /\ \A c \in Conns :
         /\ WF_vars(Accept(c))
         /\ WF_vars(HandlerStep(c))
         /\ WF_vars(ReceiveReply(c))
         /\ WF_vars(StreamEnded(c) /\ Abandon(c))
    /\ WF_vars(WriterStep)
    /\ WF_vars(Exit)

FairSpec == Spec /\ Fairness

-----------------------------------------------------------------------------
(* Properties.                                                             *)

TypeOK ==
    /\ phase \in {"accepting", "draining", "exited", "crashed"}
    /\ client \in [Conns -> {"none", "open", "closed"}]
    /\ frame \in [Conns -> Kinds \cup {"none"}]
    /\ sent \in [Conns -> 0 .. MaxFrames]
    /\ reply \in [Conns -> Answers \cup {"none", "health"}]
    /\ verdict \in [Rids -> Answers \cup {"none", "health", "indeterminate"}]
    /\ handler \in [Conns -> {"none", "backlog", "spawned", "read",
                              "send-mutation", "send-legacy", "await",
                              "leaving", "done"}]
    /\ queue \in Seq(Requests) /\ Len(queue) <= QueueCap
    /\ batch \in Seq(Requests) /\ Len(batch) <= BatchThreshold
    /\ writer \in {"recv", "open", "execute", "account", "done"}
    /\ flushLen \in 0 .. BatchThreshold
    /\ connOpen \in BOOLEAN
    /\ oneshot \in [Rids -> Answers \cup {"none"}]
    /\ queueDepth \in Int
    /\ active \in Int
    /\ db \in Seq(Requests)
    /\ enqueued \in Seq(Requests)
    /\ processed \in Seq(Requests)

CommittedRids == {rid(db[i]) : i \in 1 .. Len(db)}

\* An acknowledgement, wherever it is on its way from the writer to the
\* caller, is about a mutation that is in the database.
AckMeansCommitted ==
    \A c \in Conns, n \in 1 .. MaxFrames :
        (\/ verdict[<<c, n>>] = "ack"
         \/ oneshot[<<c, n>>] = "ack"
         \/ reply[c] = "ack" /\ n = sent[c]) => <<c, n>> \in CommittedRids

\* No request is executed twice, whatever was retried, timed out or drained.
AtMostOnce ==
    \A i, j \in 1 .. Len(processed) :
        rid(processed[i]) = rid(processed[j]) => i = j

\* The writer processes requests in the order the channel accepted them, and
\* until a crash each accepted request is in exactly one place.
Fifo == phase # "crashed" => processed \o batch \o queue = enqueued

\* A graceful exit, by signal or by idling out, loses no accepted request.
DrainLosesNothing == phase = "exited" => processed = enqueued

\* The writer leaves only when no handler can still send to it: the "server
\* queue closed" branch of handle_client is never taken.
WriterOutlivesSenders ==
    writer = "done" => /\ queue = <<>> /\ batch = <<>>
                       /\ \A c \in Conns : ~HoldsSender(c)

Senders == {c \in Conns : handler[c] \in {"send-mutation", "send-legacy"}}

\* queue_depth, as reported by a health probe, counts each request from the
\* moment its handler holds it to the accounting step after its flush, so the
\* subtraction never wraps around.
DepthAccounting ==
    queueDepth = Cardinality(Senders) + Len(queue)
                 + (IF writer \in {"open", "execute", "account"}
                    THEN flushLen ELSE Len(batch))

\* A request whose exchange has begun always gets a verdict, although the
\* client itself has no read timeout.
EveryRequestSettles ==
    \A r \in Rids : (r[2] <= sent[r[1]]) ~> (verdict[r] # "none")

\* Once the daemon leaves its accept loop it exits, or is killed.
DrainTerminates == (phase = "draining") ~> (phase \in {"exited", "crashed"})

\* An accepted request is processed even when its handler gave up on it.
EnqueuedGetsProcessed ==
    \A r \in Rids :
        (\E i \in 1 .. Len(enqueued) : rid(enqueued[i]) = r)
          ~> (\/ \E i \in 1 .. Len(processed) : rid(processed[i]) = r
              \/ phase = "crashed")

\* The daemon implements the promise made to the callers of send_classified.
Service == INSTANCE MutationService WITH
    submitted <- {r \in Rids : r[2] <= sent[r[1]]},
    log <- [i \in 1 .. Len(db) |-> rid(db[i])],
    told <- verdict
ServiceRefined == Service!ServiceSpec
=============================================================================
