--------------------------- MODULE DbServerProofs ---------------------------
(***************************************************************************)
(* Theorems about the single-writer daemon, for any number of connections  *)
(* and frames and any channel capacity and batch threshold.                *)
(***************************************************************************)
EXTENDS DbServer, FiniteSetTheorems, TLAPS

-----------------------------------------------------------------------------
(* The type invariant.  A flush always has something to execute, and the   *)
(* batch only grows while the writer receives: both are needed to type     *)
(* Head(batch) and to bound the batch.                                     *)

FlushShape ==
    /\ writer = "recv" => Len(batch) < BatchThreshold
    /\ writer \in {"open", "execute"} => batch # <<>>
    /\ writer \in {"account", "done"} => batch = <<>>
    /\ \A c \in Conns :
         /\ frame[c] # "none" => sent[c] > 0
         /\ reply[c] # "none" => sent[c] > 0
         /\ handler[c] \in {"send-mutation", "send-legacy", "await"} => sent[c] > 0

TypeInv == TypeOK /\ FlushShape

LEMMA SeqFacts ==
    ASSUME NEW S, NEW s \in Seq(S)
    PROVE  /\ Len(s) \in Nat
           /\ s # <<>> => /\ Head(s) \in S
                          /\ Tail(s) \in Seq(S)
                          /\ Len(Tail(s)) = Len(s) - 1
                          /\ Len(s) > 0
           /\ s = <<>> => Len(s) = 0
           /\ \A x \in S : /\ Append(s, x) \in Seq(S)
                           /\ Len(Append(s, x)) = Len(s) + 1
                           /\ Append(s, x) # <<>>
OBVIOUS

LEMMA CurrentType ==
    ASSUME TypeOK, NEW c \in Conns, sent[c] > 0
    PROVE  /\ Current(c) \in Rids
           /\ \A k \in QueuedKinds : InHand(c, k) \in Requests
BY DEF TypeOK, Current, Rids, InHand, Requests

LEMMA TypeInit == Init => TypeInv
<1> SUFFICES ASSUME Init PROVE TypeInv
  OBVIOUS
<1> USE MaxFramesAssumption, QueueCapAssumption, ThresholdAssumption DEF Init
<1>1. <<>> \in Seq(Requests) /\ Len(<<>>) = 0
  OBVIOUS
<1>2. TypeOK
  <2>1. connOpen \in BOOLEAN
    BY Zenon
  <2> HIDE DEF Init
  <2>2. /\ frame \in [Conns -> Kinds \cup {"none"}]
        /\ sent \in [Conns -> 0 .. MaxFrames]
        /\ reply \in [Conns -> Answers \cup {"none", "health"}]
        /\ flushLen \in 0 .. BatchThreshold
    BY DEF Init
  <2>3. /\ verdict \in [Rids -> Answers \cup {"none", "health", "indeterminate"}]
        /\ oneshot \in [Rids -> Answers \cup {"none"}]
    BY DEF Init
  <2> QED BY <1>1, <2>1, <2>2, <2>3 DEF TypeOK, Init
<1>3. FlushShape
  BY <1>1 DEF FlushShape
<1> QED BY <1>2, <1>3 DEF TypeInv

LEMMA TypeClient == ASSUME TypeInv, NEW c \in Conns, ClientStep(c) PROVE TypeInv'
<1> USE MaxFramesAssumption DEF TypeInv, TypeOK, FlushShape, Answers, Kinds, QueuedKinds
<1>1. CASE Connect(c)
  BY <1>1 DEF Connect, writerVars
<1>2. ASSUME NEW k \in Kinds, SendFrame(c, k) PROVE TypeInv'
  BY <1>2 DEF SendFrame, writerVars
<1>3. CASE ReceiveReply(c)
  <2>1. Current(c) \in Rids
    BY <1>3, CurrentType DEF ReceiveReply
  <2> QED BY <1>3, <2>1 DEF ReceiveReply, writerVars
<1>4. CASE Abandon(c)
  <2>1. sent[c] > 0 => Current(c) \in Rids
    BY CurrentType
  <2>2. sent[c] \in Nat
    OBVIOUS
  <2>3. verdict' \in [Rids -> Answers \cup {"none", "health", "indeterminate"}]
    BY <1>4, <2>1, <2>2 DEF Abandon
  <2> QED BY <1>4, <2>3 DEF Abandon, writerVars
<1> QED BY <1>1, <1>2, <1>3, <1>4 DEF ClientStep

LEMMA TypeHandler == ASSUME TypeInv, NEW c \in Conns, HandlerStep(c) PROVE TypeInv'
<1> USE MaxFramesAssumption, QueueCapAssumption
    DEF TypeInv, TypeOK, FlushShape, Answers, Kinds, QueuedKinds
<1>1. CASE StartHandler(c)
  BY <1>1 DEF StartHandler, writerVars, clientVars
<1>2. CASE HandlePing(c)
  BY <1>2 DEF HandlePing, Respond, writerVars
<1>3. CASE ReadRequest(c)
  BY <1>3 DEF ReadRequest, Sending, writerVars
<1>4. CASE ReadEnds(c)
  BY <1>4 DEF ReadEnds, writerVars, clientVars
<1>5. CASE Enqueue(c)
  <2>1. PICK k \in QueuedKinds :
          /\ handler[c] = Sending(k)
          /\ HasCapacity
          /\ queue' = Append(queue, InHand(c, k))
          /\ enqueued' = Append(enqueued, InHand(c, k))
    BY <1>5 DEF Enqueue
  <2>2. sent[c] > 0 /\ InHand(c, k) \in Requests
    BY <2>1, CurrentType DEF Sending
  <2>3. /\ queue' \in Seq(Requests) /\ Len(queue') <= QueueCap
        /\ enqueued' \in Seq(Requests)
    BY <2>1, <2>2, SeqFacts DEF HasCapacity
  <2> QED BY <1>5, <2>2, <2>3 DEF Enqueue, writerVars, clientVars
<1>6. CASE ForwardResponse(c)
  <2>1. sent[c] > 0 /\ oneshot[Current(c)] \in Answers
    BY <1>6, CurrentType DEF ForwardResponse
  <2>2. reply' \in [Conns -> Answers \cup {"none", "health"}]
    BY <1>6, <2>1 DEF ForwardResponse, Respond
  <2>3. PICK h \in {"read", "leaving"} : handler' = [handler EXCEPT ![c] = h]
    BY <1>6 DEF ForwardResponse
  <2>4. \A d \in Conns : reply'[d] # "none" => sent[d] > 0
    BY <1>6, <2>1 DEF ForwardResponse, Respond
  <2> QED BY <1>6, <2>2, <2>3, <2>4 DEF ForwardResponse, writerVars
<1>7. CASE ResponseTimeout(c)
  <2>1. reply' \in [Conns -> Answers \cup {"none", "health"}]
    BY <1>7 DEF ResponseTimeout, Respond, TimeoutResponse
  <2>2. \A d \in Conns : reply'[d] # "none" => sent[d] > 0
    BY <1>7 DEF ResponseTimeout, Respond, TimeoutResponse
  <2> QED BY <1>7, <2>1, <2>2 DEF ResponseTimeout, writerVars
<1>8. CASE FinishHandler(c)
  BY <1>8 DEF FinishHandler, writerVars, clientVars
<1> QED BY <1>1, <1>2, <1>3, <1>4, <1>5, <1>6, <1>7, <1>8 DEF HandlerStep
LEMMA TypeWriter == ASSUME TypeInv, WriterStep PROVE TypeInv'
<1> USE ThresholdAssumption DEF TypeInv, TypeOK, FlushShape, Answers, QueuedKinds
<1>1. CASE ReceiveRequest
  <2>1. /\ Head(queue) \in Requests
        /\ queue' \in Seq(Requests) /\ Len(queue') <= QueueCap
    BY <1>1, SeqFacts, QueueCapAssumption DEF ReceiveRequest
  <2>2. /\ batch' \in Seq(Requests)
        /\ Len(batch') = Len(batch) + 1
        /\ batch' # <<>>
        /\ Len(batch) \in Nat
        /\ Len(batch) < BatchThreshold
    BY <1>1, <2>1, SeqFacts DEF ReceiveRequest, PushBatch
  <2>3. CASE Len(batch') >= BatchThreshold
    <3>1. flushLen' = Len(batch') /\ writer' \in {"execute", "open"}
      BY <1>1, <2>3 DEF ReceiveRequest, StartFlush
    <3> QED BY <1>1, <2>1, <2>2, <3>1 DEF ReceiveRequest, clientVars
  <2>4. CASE ~(Len(batch') >= BatchThreshold)
    <3>1. UNCHANGED <<flushLen, writer>>
      BY <1>1, <2>4 DEF ReceiveRequest
    <3> QED BY <1>1, <2>1, <2>2, <2>4, <3>1 DEF ReceiveRequest, clientVars
  <2> QED BY <2>3, <2>4
<1>2. CASE BatchWindowElapsed
  <2>1. /\ flushLen' = Len(batch) /\ Len(batch) \in Nat /\ batch # <<>>
        /\ writer' \in {"execute", "open"}
    BY <1>2, SeqFacts DEF BatchWindowElapsed, StartFlush, WindowFlush
  <2> QED BY <1>2, <2>1 DEF BatchWindowElapsed, clientVars
<1>3. CASE ChannelClosed
  <2>1. CASE batch # <<>>
    <3>1. /\ flushLen' = Len(batch) /\ Len(batch) \in Nat
          /\ writer' \in {"execute", "open"}
      BY <1>3, <2>1, SeqFacts DEF ChannelClosed, StartFlush, FinalFlush
    <3> QED BY <1>3, <2>1, <3>1 DEF ChannelClosed, clientVars
  <2>2. CASE batch = <<>>
    <3>1. flushLen' = flushLen /\ writer' = "done"
      BY <1>3, <2>2 DEF ChannelClosed, FinalFlush
    <3> QED BY <1>3, <2>2, <3>1 DEF ChannelClosed, clientVars
  <2> QED BY <2>1, <2>2
<1>4. CASE OpenConnection
  BY <1>4 DEF OpenConnection, clientVars
<1>5. CASE OpenFails
  <2>1. processed' \in Seq(Requests) /\ <<>> \in Seq(Requests) /\ Len(<<>>) = 0
    BY <1>5 DEF OpenFails
  <2>2. oneshot' \in [Rids -> Answers \cup {"none"}]
    BY <1>5 DEF OpenFails
  <2> QED BY <1>5, <2>1, <2>2 DEF OpenFails, AfterOpenFailure, clientVars
<1>6. CASE ExecuteOne
  <2>1. Head(batch) \in Requests
    BY <1>6, SeqFacts DEF ExecuteOne
  <2>2. PICK a \in Answers :
          /\ oneshot' = [oneshot EXCEPT ![rid(Head(batch))] = a]
          /\ db' = IF a = "ack" THEN Append(db, Head(batch)) ELSE db
    BY <1>6 DEF ExecuteOne, Outcomes
  <2>3. oneshot' \in [Rids -> Answers \cup {"none"}]
    BY <2>1, <2>2
  <2>4. db' \in Seq(Requests) /\ processed' \in Seq(Requests)
    BY <1>6, <2>1, <2>2, SeqFacts DEF ExecuteOne
  <2>5. /\ batch' \in Seq(Requests) /\ Len(batch') <= BatchThreshold
        /\ writer' \in {"account", "execute"}
        /\ writer' = "execute" => batch' # <<>>
        /\ writer' = "account" => batch' = <<>>
    BY <1>6, SeqFacts DEF ExecuteOne
  <2> QED BY <1>6, <2>3, <2>4, <2>5 DEF ExecuteOne, clientVars
<1>7. CASE AccountFlush
  <2>1. Len(<<>>) = 0
    OBVIOUS
  <2> QED BY <1>7, <2>1 DEF AccountFlush, Flushed, clientVars
<1> QED BY <1>1, <1>2, <1>3, <1>4, <1>5, <1>6, <1>7 DEF WriterStep

LEMMA TypeStep == TypeInv /\ [Next]_vars => TypeInv'
<1> SUFFICES ASSUME TypeInv, [Next]_vars PROVE TypeInv'
  OBVIOUS
<1>1. ASSUME NEW c \in Conns, Accept(c) PROVE TypeInv'
  BY <1>1 DEF TypeInv, TypeOK, FlushShape, Accept, clientVars, writerVars
<1>2. CASE Shutdown \/ IdleTimeout \/ Exit
  BY <1>2 DEF TypeInv, TypeOK, FlushShape, Shutdown, IdleTimeout, Exit,
              clientVars, writerVars
<1>3. CASE Crash
  <2>1. <<>> \in Seq(Requests) /\ Len(<<>>) = 0
    OBVIOUS
  <2>2. connOpen' \in BOOLEAN
    BY <1>3, Zenon DEF Crash
  <2> QED BY <1>3, <2>1, <2>2, QueueCapAssumption, ThresholdAssumption
          DEF TypeInv, TypeOK, FlushShape, Crash
<1>4. CASE UNCHANGED vars
  BY <1>4 DEF TypeInv, TypeOK, FlushShape, vars, clientVars, writerVars
<1> QED BY <1>1, <1>2, <1>3, <1>4, TypeClient, TypeHandler, TypeWriter DEF Next

\* Every state of the daemon is well typed; in particular the channel and the
\* batch never exceed their capacities.
THEOREM TypeCorrect == Spec => []TypeOK
<1>1. Spec => []TypeInv
  BY TypeInit, TypeStep, PTL DEF Spec
<1> QED BY <1>1, PTL DEF TypeInv
-----------------------------------------------------------------------------
(* Acknowledgements.  AckMeansCommitted is inductive once states are well  *)
(* typed: an "ack" is born in the oneshot of a request in the step that    *)
(* commits it, and db only grows.                                          *)

LEMMA CommitGrows ==
    ASSUME TypeInv, [Next]_vars
    PROVE  \A r \in CommittedRids : r \in CommittedRids'
<1>1. CASE db' = db
  BY <1>1 DEF CommittedRids
<1>2. CASE ExecuteOne
  <2>1. Head(batch) \in Requests /\ db \in Seq(Requests)
    BY <1>2, SeqFacts DEF TypeInv, TypeOK, FlushShape, ExecuteOne
  <2>2. CASE db' = Append(db, Head(batch))
    <3>1. /\ Len(db') = Len(db) + 1 /\ Len(db) \in Nat
          /\ \A i \in 1 .. Len(db) : db'[i] = db[i]
      BY <2>1, <2>2
    <3> QED BY <3>1 DEF CommittedRids
  <2> QED BY <1>1, <1>2, <2>2 DEF ExecuteOne
<1>3. ExecuteOne \/ db' = db
  BY DEF Next, vars, ClientStep, HandlerStep, WriterStep, clientVars, writerVars,
         Connect, SendFrame, ReceiveReply, Abandon, Accept, StartHandler,
         HandlePing, ReadRequest, ReadEnds, Enqueue, ForwardResponse,
         ResponseTimeout, FinishHandler, ReceiveRequest, BatchWindowElapsed,
         ChannelClosed, OpenConnection, OpenFails, AccountFlush, Shutdown,
         IdleTimeout, Exit, Crash
<1> QED BY <1>1, <1>2, <1>3

AckInv == TypeInv /\ AckMeansCommitted

LEMMA AckStep == AckInv /\ [Next]_vars => AckMeansCommitted'
<1> SUFFICES ASSUME TypeInv, AckMeansCommitted, [Next]_vars,
                    NEW c \in Conns, NEW n \in 1 .. MaxFrames,
                    \/ verdict'[<<c, n>>] = "ack"
                    \/ oneshot'[<<c, n>>] = "ack"
                    \/ reply'[c] = "ack" /\ n = sent'[c]
             PROVE  <<c, n>> \in CommittedRids'
  BY DEF AckInv, AckMeansCommitted
<1> DEFINE Acked == \/ verdict[<<c, n>>] = "ack"
                    \/ oneshot[<<c, n>>] = "ack"
                    \/ reply[c] = "ack" /\ n = sent[c]
<1>1. Acked => <<c, n>> \in CommittedRids'
  BY CommitGrows DEF AckMeansCommitted
<1>2. <<c, n>> \in Rids
  BY DEF Rids
<1> USE <1>2 DEF TypeInv, TypeOK
<1>3. ASSUME NEW d \in Conns, SendFrame(d, "ping") \/ SendFrame(d, "mutation")
                              \/ SendFrame(d, "legacy")
      PROVE  Acked
  BY <1>3 DEF SendFrame
<1>4. ASSUME NEW d \in Conns, ReceiveReply(d) PROVE Acked
  BY <1>4 DEF ReceiveReply, Current
<1>5. ASSUME NEW d \in Conns, Abandon(d) PROVE Acked
  BY <1>5 DEF Abandon
<1>6. ASSUME NEW d \in Conns, HandlePing(d) PROVE Acked
  BY <1>6 DEF HandlePing, Respond
<1>7. ASSUME NEW d \in Conns, ForwardResponse(d) PROVE Acked
  BY <1>7 DEF ForwardResponse, Respond, Current
<1>8. ASSUME NEW d \in Conns, ResponseTimeout(d) PROVE Acked
  BY <1>8 DEF ResponseTimeout, Respond, TimeoutResponse
<1>9. CASE OpenFails
  <2>1. Acked
    BY <1>9 DEF OpenFails, clientVars
  <2> QED BY <2>1, <1>1
<1>10. CASE ExecuteOne
  <2>1. Head(batch) \in Requests /\ db \in Seq(Requests)
    BY <1>10, SeqFacts DEF FlushShape, ExecuteOne
  <2>2. PICK a \in Answers :
          /\ oneshot' = [oneshot EXCEPT ![rid(Head(batch))] = a]
          /\ db' = IF a = "ack" THEN Append(db, Head(batch)) ELSE db
    BY <1>10 DEF ExecuteOne, Outcomes, Answers
  <2>3. CASE a = "ack" /\ rid(Head(batch)) = <<c, n>>
    <3>1. /\ Len(db') \in 1 .. Len(db')
          /\ db'[Len(db')] = Head(batch)
      BY <2>1, <2>2, <2>3
    <3> QED BY <3>1, <2>3 DEF CommittedRids, rid
  <2>4. CASE ~(a = "ack" /\ rid(Head(batch)) = <<c, n>>)
    <3>1. Acked
      BY <1>10, <2>2, <2>4 DEF ExecuteOne, clientVars
    <3> QED BY <3>1, <1>1
  <2> QED BY <2>3, <2>4
<1>11. CASE Crash
  <2>1. Acked
    BY <1>11 DEF Crash
  <2> QED BY <2>1, <1>1
<1>12. ASSUME UNCHANGED <<verdict, oneshot, reply, sent>> PROVE Acked
  BY <1>12
<1> QED
  BY <1>1, <1>3, <1>4, <1>5, <1>6, <1>7, <1>8, <1>9, <1>10, <1>11, <1>12
  DEF Next, vars, ClientStep, HandlerStep, WriterStep, clientVars, writerVars,
      Kinds, QueuedKinds, Connect, Accept, StartHandler, ReadRequest, ReadEnds,
      Enqueue, FinishHandler, ReceiveRequest, BatchWindowElapsed,
      ChannelClosed, OpenConnection, AccountFlush, Shutdown, IdleTimeout, Exit

\* A client that reads Ack from the daemon (and the handler or the socket that
\* carries the Ack to it) is never told so about a mutation that is not in the
\* database, whatever timed out, failed or crashed.
THEOREM AckCorrect == Spec => []AckMeansCommitted
<1>1. Init => AckInv
  BY TypeInit DEF Init, AckInv, AckMeansCommitted, Rids
<1>2. AckInv /\ [Next]_vars => AckInv'
  BY TypeStep, AckStep DEF AckInv
<1> QED BY <1>1, <1>2, PTL DEF Spec, AckInv

-----------------------------------------------------------------------------
(* Order and drain.  The writer's exit needs the phase: only a run loop    *)
(* that dropped its own sender lets the channel close.                     *)

LEMMA MoveHead ==
    ASSUME NEW S, NEW s \in Seq(S), NEW t \in Seq(S), t # <<>>
    PROVE  Append(s, Head(t)) \o Tail(t) = s \o t
<1> DEFINE l == Append(s, Head(t)) \o Tail(t)
           r == s \o t
<1>1. l \in Seq(S) /\ r \in Seq(S) /\ Len(l) = Len(r)
  OBVIOUS
<1>2. \A i \in 1 .. Len(l) : l[i] = r[i]
  OBVIOUS
<1> HIDE DEF l, r
<1>3. l = r
  BY <1>1, <1>2
<1> QED BY <1>3 DEF l, r

LEMMA AppendRight ==
    ASSUME NEW S, NEW s \in Seq(S), NEW t \in Seq(S), NEW x \in S
    PROVE  s \o Append(t, x) = Append(s \o t, x)
<1> DEFINE l == s \o Append(t, x)
           r == Append(s \o t, x)
<1>1. l \in Seq(S) /\ r \in Seq(S) /\ Len(l) = Len(r)
  OBVIOUS
<1>2. \A i \in 1 .. Len(l) : l[i] = r[i]
  OBVIOUS
<1> HIDE DEF l, r
<1>3. l = r
  BY <1>1, <1>2
<1> QED BY <1>3 DEF l, r

LEMMA ConcatEmpty ==
    ASSUME NEW S, NEW s \in Seq(S) PROVE s \o <<>> = s /\ <<>> \o s = s
OBVIOUS

LEMMA FifoStep == TypeInv /\ Fifo /\ [Next]_vars => Fifo'
<1> SUFFICES ASSUME TypeInv, Fifo, [Next]_vars, phase' # "crashed"
             PROVE  (processed \o batch \o queue = enqueued)'
  BY DEF Fifo
<1>1. phase # "crashed" /\ ~Crash
  BY DEF Next, vars, ClientStep, HandlerStep, WriterStep, Running, Crash, clientVars,
         Connect, SendFrame, ReceiveReply, Abandon, Accept, StartHandler,
         HandlePing, ReadRequest, ReadEnds, Enqueue, ForwardResponse,
         ResponseTimeout, FinishHandler, ReceiveRequest, BatchWindowElapsed,
         ChannelClosed, OpenConnection, OpenFails, ExecuteOne, AccountFlush,
         Shutdown, IdleTimeout, Exit
<1>2. processed \o batch \o queue = enqueued
  BY <1>1 DEF Fifo
<1> DEFINE R == Requests
<1>3. processed \in Seq(R) /\ batch \in Seq(R) /\ queue \in Seq(R)
  BY DEF TypeInv, TypeOK
<1>4. processed \o batch \in Seq(R)
  BY <1>3
<1> HIDE DEF R
<1>5. ASSUME NEW c \in Conns, Enqueue(c)
      PROVE  (processed \o batch \o queue = enqueued)'
  <2>1. PICK k \in QueuedKinds :
          /\ handler[c] = Sending(k)
          /\ queue' = Append(queue, InHand(c, k))
          /\ enqueued' = Append(enqueued, InHand(c, k))
    BY <1>5 DEF Enqueue
  <2>2. InHand(c, k) \in R
    BY <2>1, CurrentType DEF R, TypeInv, FlushShape, Sending, QueuedKinds
  <2>3. processed \o batch \o queue' = Append(processed \o batch \o queue, InHand(c, k))
    BY <1>3, <1>4, <2>1, <2>2, AppendRight
  <2> QED BY <1>2, <1>5, <2>1, <2>3 DEF Enqueue, writerVars
<1>6. CASE ReceiveRequest
  <2>1. queue # <<>> /\ Head(queue) \in R
    BY <1>3, <1>6, SeqFacts DEF ReceiveRequest
  <2>2. processed \o batch' = Append(processed \o batch, Head(queue))
    BY <1>3, <1>6, <2>1, AppendRight DEF ReceiveRequest, PushBatch
  <2>3. processed \o batch' \o queue' = processed \o batch \o queue
    BY <1>3, <1>4, <1>6, <2>1, <2>2, MoveHead DEF ReceiveRequest
  <2> QED BY <1>2, <1>6, <2>3 DEF ReceiveRequest
<1>7. CASE OpenFails
  <2>1. (processed \o batch) \o <<>> = processed \o batch
    BY <1>4, ConcatEmpty
  <2> QED BY <1>2, <1>7, <2>1 DEF OpenFails, AfterOpenFailure
<1>8. CASE ExecuteOne
  <2>1. batch # <<>>
    BY <1>8 DEF ExecuteOne, TypeInv, FlushShape
  <2>2. processed' \o batch' = processed \o batch
    BY <1>3, <1>8, <2>1, MoveHead DEF ExecuteOne
  <2> QED BY <1>2, <1>8, <2>2 DEF ExecuteOne
<1>9. ASSUME UNCHANGED <<processed, batch, queue, enqueued>>
      PROVE  (processed \o batch \o queue = enqueued)'
  BY <1>2, <1>9
<1> QED
  BY <1>1, <1>5, <1>6, <1>7, <1>8, <1>9
  DEF Next, vars, ClientStep, HandlerStep, WriterStep, clientVars, writerVars,
      Connect, SendFrame, ReceiveReply, Abandon, Accept, StartHandler,
      HandlePing, ReadRequest, ReadEnds, ForwardResponse, ResponseTimeout,
      FinishHandler, BatchWindowElapsed, ChannelClosed, OpenConnection,
      AccountFlush, Shutdown, IdleTimeout, Exit
ExitInv ==
    /\ WriterOutlivesSenders
    /\ writer = "done" => phase # "accepting"
    /\ phase = "exited" => writer = "done"

LEMMA ExitStep == TypeInv /\ ExitInv /\ [Next]_vars => ExitInv'
<1> SUFFICES ASSUME TypeInv, ExitInv, [Next]_vars PROVE ExitInv'
  OBVIOUS
<1> USE DEF ExitInv, WriterOutlivesSenders, HoldsSender, TypeInv, TypeOK
<1>1. ASSUME NEW c \in Conns, ClientStep(c) PROVE ExitInv'
  BY <1>1 DEF ClientStep, Connect, SendFrame, ReceiveReply, Abandon, writerVars
<1>2. ASSUME NEW c \in Conns, Accept(c) PROVE ExitInv'
  BY <1>2 DEF Accept, writerVars
<1>3. ASSUME NEW c \in Conns, HandlerStep(c) PROVE ExitInv'
  <2>1. CASE StartHandler(c)
    BY <1>3, <2>1 DEF StartHandler, writerVars
  <2>2. CASE HandlePing(c) \/ ReadRequest(c) \/ ReadEnds(c)
    BY <2>2 DEF HandlePing, ReadRequest, ReadEnds, writerVars
  <2>3. CASE Enqueue(c)
    BY <2>3 DEF Enqueue, Sending, writerVars
  <2>4. CASE ForwardResponse(c) \/ ResponseTimeout(c) \/ FinishHandler(c)
    BY <2>4 DEF ForwardResponse, ResponseTimeout, FinishHandler, writerVars
  <2> QED BY <1>3, <2>1, <2>2, <2>3, <2>4 DEF HandlerStep
<1>4. CASE WriterStep
  <2>1. CASE ChannelClosed
    BY <2>1 DEF ChannelClosed, SendersGone, StartFlush, FinalFlush, Running
  <2>2. CASE ~ChannelClosed
    BY <1>4, <2>2 DEF WriterStep, ReceiveRequest, BatchWindowElapsed,
       OpenConnection, OpenFails, ExecuteOne, AccountFlush, StartFlush, Running
  <2> QED BY <2>1, <2>2
<1>5. CASE Shutdown \/ IdleTimeout \/ Exit \/ Crash
  BY <1>5 DEF Shutdown, IdleTimeout, Exit, Crash, writerVars
<1>6. CASE UNCHANGED vars
  BY <1>6 DEF vars, writerVars
<1> QED BY <1>1, <1>2, <1>3, <1>4, <1>5, <1>6 DEF Next

DrainInv == TypeInv /\ Fifo /\ ExitInv

LEMMA DrainInvariant == Spec => []DrainInv
<1>1. Init => DrainInv
  <2>1. ASSUME Init PROVE Fifo
    BY <2>1 DEF Init, Fifo
  <2>2. ASSUME Init PROVE ExitInv
    BY <2>2 DEF Init, ExitInv, WriterOutlivesSenders
  <2> QED BY <2>1, <2>2, TypeInit DEF DrainInv
<1>2. DrainInv /\ [Next]_vars => DrainInv'
  BY TypeStep, FifoStep, ExitStep DEF DrainInv
<1> QED BY <1>1, <1>2, PTL DEF Spec

\* The writer handles requests in the order the channel took them, and no
\* accepted request is dropped or duplicated on the way.
THEOREM FifoCorrect == Spec => []Fifo
BY DrainInvariant, PTL DEF DrainInv

\* The writer task outlives every handler that could still send to it, so the
\* closed-channel error branch of handle_client is dead code.
THEOREM WriterExitCorrect == Spec => []WriterOutlivesSenders
BY DrainInvariant, PTL DEF DrainInv, ExitInv

\* A graceful shutdown (signal or idle) has processed every accepted request.
THEOREM DrainCorrect == Spec => []DrainLosesNothing
<1>1. DrainInv => DrainLosesNothing
  <2> SUFFICES ASSUME DrainInv, phase = "exited" PROVE processed = enqueued
    BY DEF DrainLosesNothing
  <2>1. queue = <<>> /\ batch = <<>>
    BY DEF DrainInv, ExitInv, WriterOutlivesSenders
  <2>2. processed \in Seq(Requests)
    BY DEF DrainInv, TypeInv, TypeOK
  <2>3. processed \o <<>> \o <<>> = processed
    BY <2>2, ConcatEmpty
  <2> QED BY <2>1, <2>3 DEF DrainInv, Fifo
<1> QED BY <1>1, DrainInvariant, PTL
-----------------------------------------------------------------------------
(* One exchange at a time.  A client writes its next frame only after it   *)
(* has the verdict on the last one, so the request its handler holds is    *)
(* always the newest of the connection and has not been enqueued before.   *)

Busy(c) == handler[c] \in {"send-mutation", "send-legacy", "await"}

ExchangeOf(c) ==
    /\ client[c] = "none" => sent[c] = 0
    /\ frame[c] # "none" => ~Busy(c)
    /\ client[c] = "open" /\ (frame[c] # "none" \/ Busy(c)) => reply[c] = "none"
    /\ client[c] = "open" /\ (frame[c] # "none" \/ Busy(c) \/ reply[c] # "none")
         => verdict[Current(c)] = "none"
    /\ \A n \in 1 .. MaxFrames : n > sent[c] => verdict[<<c, n>>] = "none"

Exchange == \A c \in Conns : ExchangeOf(c)

NewestHeld(c) == frame[c] # "none" \/ handler[c] \in {"send-mutation", "send-legacy"}

Enqueues ==
    /\ \A i, j \in 1 .. Len(enqueued) :
         rid(enqueued[i]) = rid(enqueued[j]) => i = j
    /\ \A i \in 1 .. Len(enqueued), c \in Conns :
         enqueued[i].conn = c => /\ enqueued[i].n <= sent[c]
                                 /\ enqueued[i].n = sent[c] => ~NewestHeld(c)

ProcessedPrefix ==
    /\ Len(processed) <= Len(enqueued)
    /\ \A i \in 1 .. Len(processed) : processed[i] = enqueued[i]

CommitsProcessed ==
    \A i \in 1 .. Len(db) : \E j \in 1 .. Len(processed) : rid(db[i]) = rid(processed[j])

OnceInv == Exchange /\ Enqueues /\ ProcessedPrefix /\ CommitsProcessed
LEMMA ExchangeClient ==
    ASSUME TypeInv, Exchange, NEW c \in Conns, ClientStep(c) PROVE Exchange'
<1> SUFFICES ASSUME NEW d \in Conns PROVE ExchangeOf(d)'
  BY DEF Exchange
<1>1. ExchangeOf(d) /\ ExchangeOf(c)
  BY DEF Exchange
<1> USE MaxFramesAssumption, <1>1 DEF TypeInv, TypeOK, FlushShape, ExchangeOf, Busy, Current
<1>2. CASE Connect(c)
  BY <1>2 DEF Connect
<1>3. ASSUME NEW k \in Kinds, SendFrame(c, k) PROVE ExchangeOf(d)'
  <2>1. CASE d = c
    <3>1. sent[c] > 0 => ~Busy(c)
      BY <1>3 DEF SendFrame
    <3>2. ~Busy(c) /\ sent'[c] = sent[c] + 1 /\ sent'[c] \in 1 .. MaxFrames
      BY <1>3, <3>1 DEF SendFrame
    <3> QED BY <1>3, <2>1, <3>2 DEF SendFrame
  <2>2. CASE d # c
    BY <1>3, <2>2 DEF SendFrame
  <2> QED BY <2>1, <2>2
<1>4. CASE ReceiveReply(c)
  <2>1. \A n \in 1 .. MaxFrames : n > sent[d] => verdict'[<<d, n>>] = verdict[<<d, n>>]
    BY <1>4 DEF ReceiveReply, Rids
  <2> QED BY <1>4, <2>1 DEF ReceiveReply, Rids
<1>5. CASE Abandon(c)
  <2>1. \A n \in 1 .. MaxFrames : n > sent[d] => verdict'[<<d, n>>] = verdict[<<d, n>>]
    BY <1>5 DEF Abandon, Rids
  <2>2. d # c => verdict'[<<d, sent[d]>>] = verdict[<<d, sent[d]>>]
    BY <1>5 DEF Abandon, Rids
  <2> QED BY <1>5, <2>1, <2>2 DEF Abandon
<1> QED BY <1>2, <1>3, <1>4, <1>5, ClientStep(c) DEF ClientStep

LEMMA ExchangeStep == TypeInv /\ Exchange /\ [Next]_vars => Exchange'
<1> SUFFICES ASSUME TypeInv, Exchange, [Next]_vars PROVE Exchange'
  OBVIOUS
<1>1. ASSUME NEW c \in Conns, HandlerStep(c), NEW d \in Conns PROVE ExchangeOf(d)'
  <2>1. ExchangeOf(d) /\ ExchangeOf(c)
    BY DEF Exchange
  <2> USE <2>1 DEF TypeInv, TypeOK, FlushShape, ExchangeOf, Busy, Current
  <2>2. CASE StartHandler(c) \/ ReadEnds(c) \/ FinishHandler(c)
    <3>1. UNCHANGED clientVars /\ (Busy(d)' => Busy(d))
      BY <2>2 DEF StartHandler, ReadEnds, FinishHandler
    <3> QED BY <3>1 DEF clientVars
  <2>3. CASE HandlePing(c)
    BY <2>3 DEF HandlePing, Respond
  <2>4. CASE ReadRequest(c)
    BY <2>4 DEF ReadRequest, Sending, QueuedKinds
  <2>5. CASE Enqueue(c)
    BY <2>5 DEF Enqueue, Sending, clientVars
  <2>6. CASE ForwardResponse(c)
    BY <2>6 DEF ForwardResponse, Respond
  <2>7. CASE ResponseTimeout(c)
    BY <2>7 DEF ResponseTimeout, Respond
  <2> QED BY <1>1, <2>2, <2>3, <2>4, <2>5, <2>6, <2>7 DEF HandlerStep
<1>2. ASSUME NEW c \in Conns, Accept(c) PROVE Exchange'
  BY <1>2 DEF Accept, clientVars, Exchange, ExchangeOf, Busy, Current, TypeInv, TypeOK
<1>3. CASE Crash
  BY <1>3 DEF Crash, Exchange, ExchangeOf, Busy, Current
<1>4. CASE UNCHANGED <<clientVars, handler>>
  BY <1>4 DEF clientVars, Exchange, ExchangeOf, Busy, Current
<1>5. WriterStep \/ Shutdown \/ IdleTimeout \/ Exit \/ UNCHANGED vars
        => UNCHANGED <<clientVars, handler>>
  BY DEF WriterStep, ReceiveRequest, BatchWindowElapsed, ChannelClosed, OpenConnection,
         OpenFails, ExecuteOne, AccountFlush, Shutdown, IdleTimeout, Exit, vars
<1>6. (\E c \in Conns : HandlerStep(c)) => Exchange'
  BY <1>1 DEF Exchange
<1> QED BY <1>2, <1>3, <1>4, <1>5, <1>6, ExchangeClient DEF Next
LEMMA EnqueuesStep ==
    TypeInv /\ Exchange /\ Enqueues /\ [Next]_vars => Enqueues'
<1> SUFFICES ASSUME TypeInv, Exchange, Enqueues, [Next]_vars PROVE Enqueues'
  OBVIOUS
<1> USE DEF TypeInv, TypeOK
<1>1. \A i \in 1 .. Len(enqueued) : enqueued[i] \in Requests
  OBVIOUS
<1>2. ASSUME NEW c \in Conns, Enqueue(c) PROVE Enqueues'
  <2>1. PICK k \in QueuedKinds :
          handler[c] = Sending(k) /\ enqueued' = Append(enqueued, InHand(c, k))
    BY <1>2 DEF Enqueue
  <2> DEFINE r == InHand(c, k)
             m == Len(enqueued)
  <2>2. NewestHeld(c) /\ Busy(c)
    BY <2>1 DEF NewestHeld, Busy, Sending
  <2>3. r \in Requests /\ r.conn = c /\ r.n = sent[c]
    <3>1. r \in Requests
      BY <2>2, CurrentType DEF FlushShape, Busy
    <3> QED BY <3>1 DEF InHand
  <2>4. \A i \in 1 .. m : rid(enqueued[i]) # rid(r)
    BY <2>2, <2>3, <1>1 DEF Enqueues, rid, Requests
  <2>5. frame[c] = "none"
    BY <2>2 DEF Exchange, ExchangeOf
  <2>6. /\ Len(enqueued') = m + 1 /\ m \in Nat
        /\ enqueued'[m + 1] = r
        /\ \A i \in 1 .. m : enqueued'[i] = enqueued[i]
    BY <2>1, <2>3
  <2>7. UNCHANGED <<frame, sent>> /\ handler' = [handler EXCEPT ![c] = "await"]
    BY <1>2 DEF Enqueue, clientVars
  <2> HIDE DEF r, m
  <2>8. ASSUME NEW d \in Conns PROVE NewestHeld(d)' => NewestHeld(d) /\ d # c
    BY <2>5, <2>7 DEF NewestHeld
  <2>9. \A i, j \in 1 .. m + 1 : rid(enqueued'[i]) = rid(enqueued'[j]) => i = j
    <3> SUFFICES ASSUME NEW i \in 1 .. m + 1, NEW j \in 1 .. m + 1,
                        rid(enqueued'[i]) = rid(enqueued'[j])
                 PROVE  i = j
      OBVIOUS
    <3>1. CASE i \in 1 .. m /\ j \in 1 .. m
      BY <2>6, <3>1 DEF Enqueues, m
    <3>2. CASE i = m + 1 /\ j \in 1 .. m
      BY <2>4, <2>6, <3>2
    <3>3. CASE j = m + 1 /\ i \in 1 .. m
      BY <2>4, <2>6, <3>3
    <3> QED BY <2>6, <3>1, <3>2, <3>3
  <2>10. ASSUME NEW i \in 1 .. m + 1, NEW d \in Conns, enqueued'[i].conn = d
         PROVE  enqueued'[i].n <= sent'[d] /\ (enqueued'[i].n = sent'[d] => ~NewestHeld(d)')
    <3>1. CASE i = m + 1
      BY <2>3, <2>6, <2>7, <2>8, <2>10, <3>1
    <3>2. CASE i \in 1 .. m
      <4>1. enqueued'[i] = enqueued[i]
        BY <2>6, <3>2
      <4>2. enqueued[i].n <= sent[d] /\ (enqueued[i].n = sent[d] => ~NewestHeld(d))
        BY <2>10, <3>2, <4>1 DEF Enqueues, m
      <4> QED BY <4>1, <4>2, <2>7, <2>8
    <3> QED BY <2>6, <3>1, <3>2
  <2> QED BY <2>6, <2>9, <2>10 DEF Enqueues
<1>3. ASSUME UNCHANGED enqueued,
             \A c \in Conns : \/ sent'[c] = sent[c] /\ (NewestHeld(c)' => NewestHeld(c))
                              \/ sent'[c] = sent[c] + 1
      PROVE  Enqueues'
  <2>1. ASSUME NEW i \in 1 .. Len(enqueued), NEW c \in Conns, enqueued[i].conn = c
        PROVE  enqueued[i].n <= sent'[c] /\ (enqueued[i].n = sent'[c] => ~NewestHeld(c)')
    <3>1. enqueued[i].n \in Nat /\ sent[c] \in Nat
      BY <1>1 DEF Requests
    <3>2. enqueued[i].n <= sent[c] /\ (enqueued[i].n = sent[c] => ~NewestHeld(c))
      BY <2>1 DEF Enqueues
    <3> QED BY <1>3, <3>1, <3>2
  <2> QED BY <1>3, <2>1 DEF Enqueues
<1>4. ASSUME NEW c \in Conns, ClientStep(c) PROVE Enqueues'
  BY <1>3, <1>4 DEF ClientStep, Connect, SendFrame, ReceiveReply, Abandon, NewestHeld
<1>5. ASSUME NEW c \in Conns, HandlerStep(c), ~Enqueue(c) PROVE Enqueues'
  <2>1. CASE StartHandler(c) \/ ReadEnds(c) \/ FinishHandler(c) \/ HandlePing(c)
    BY <1>3, <2>1 DEF StartHandler, ReadEnds, FinishHandler, HandlePing, clientVars, NewestHeld
  <2>2. CASE ReadRequest(c)
    BY <1>3, <2>2 DEF ReadRequest, QueuedKinds, NewestHeld
  <2>3. CASE ForwardResponse(c) \/ ResponseTimeout(c)
    BY <1>3, <2>3 DEF ForwardResponse, ResponseTimeout, NewestHeld
  <2> QED BY <1>5, <2>1, <2>2, <2>3 DEF HandlerStep
<1>6. ASSUME NEW c \in Conns, Accept(c) PROVE Enqueues'
  BY <1>3, <1>6 DEF Accept, clientVars, NewestHeld
<1>7. CASE Crash
  BY <1>3, <1>7 DEF Crash, NewestHeld
<1>8. CASE WriterStep \/ Shutdown \/ IdleTimeout \/ Exit \/ UNCHANGED vars
  <2>1. UNCHANGED <<clientVars, handler, enqueued>>
    BY <1>8 DEF WriterStep, ReceiveRequest, BatchWindowElapsed, ChannelClosed, OpenConnection,
         OpenFails, ExecuteOne, AccountFlush, Shutdown, IdleTimeout, Exit, vars
  <2> QED BY <1>3, <2>1 DEF clientVars, NewestHeld
<1> QED BY <1>2, <1>4, <1>5, <1>6, <1>7, <1>8 DEF Next
LEMMA PrefixOfFifo ==
    ASSUME TypeInv, processed \o batch \o queue = enqueued
    PROVE  /\ ProcessedPrefix
           /\ batch # <<>> => /\ Len(processed) + 1 \in 1 .. Len(enqueued)
                              /\ enqueued[Len(processed) + 1] = Head(batch)
<1>1. processed \in Seq(Requests) /\ batch \in Seq(Requests) /\ queue \in Seq(Requests)
  BY DEF TypeInv, TypeOK
<1> DEFINE pb == processed \o batch
<1>2. /\ pb \in Seq(Requests)
      /\ Len(pb) = Len(processed) + Len(batch)
      /\ \A i \in 1 .. Len(processed) : pb[i] = processed[i]
      /\ batch # <<>> => Len(batch) > 0 /\ pb[Len(processed) + 1] = Head(batch)
  BY <1>1
<1>3. /\ Len(enqueued) = Len(pb) + Len(queue)
      /\ \A i \in 1 .. Len(pb) : enqueued[i] = pb[i]
  <2> HIDE DEF pb
  <2>1. enqueued = pb \o queue
    BY DEF pb
  <2> QED BY <1>1, <1>2, <2>1
<1>4. Len(processed) \in Nat /\ Len(batch) \in Nat /\ Len(queue) \in Nat
  BY <1>1
<1> HIDE DEF pb
<1>5. ProcessedPrefix
  BY <1>2, <1>3, <1>4 DEF ProcessedPrefix
<1>6. ASSUME batch # <<>>
      PROVE  /\ Len(processed) + 1 \in 1 .. Len(enqueued)
             /\ enqueued[Len(processed) + 1] = Head(batch)
  BY <1>2, <1>3, <1>4, <1>6
<1> QED BY <1>5, <1>6

LEMMA CrashFreezes ==
    ASSUME [Next]_vars, phase' = "crashed" PROVE UNCHANGED <<processed, enqueued>>
BY DEF Next, vars, ClientStep, HandlerStep, WriterStep, Running, clientVars, writerVars,
       Connect, SendFrame, ReceiveReply, Abandon, Accept, StartHandler,
       HandlePing, ReadRequest, ReadEnds, Enqueue, ForwardResponse,
       ResponseTimeout, FinishHandler, ReceiveRequest, BatchWindowElapsed,
       ChannelClosed, OpenConnection, OpenFails, ExecuteOne, AccountFlush,
       Shutdown, IdleTimeout, Exit, Crash

LEMMA PrefixStep ==
    ASSUME TypeInv', Fifo', ProcessedPrefix, [Next]_vars PROVE ProcessedPrefix'
<1>1. CASE phase' = "crashed"
  BY <1>1, CrashFreezes DEF ProcessedPrefix
<1>2. CASE phase' # "crashed"
  <2>1. (processed \o batch \o queue = enqueued)'
    BY <1>2 DEF Fifo
  <2> QED BY <2>1, PrefixOfFifo, PTL
<1> QED BY <1>1, <1>2

LEMMA CommitsStep ==
    TypeInv /\ CommitsProcessed /\ [Next]_vars => CommitsProcessed'
<1> SUFFICES ASSUME TypeInv, CommitsProcessed, [Next]_vars,
                    NEW i \in 1 .. Len(db')
             PROVE  \E j \in 1 .. Len(processed') : rid(db'[i]) = rid(processed'[j])
  BY DEF CommitsProcessed
<1>1. db \in Seq(Requests) /\ processed \in Seq(Requests) /\ batch \in Seq(Requests)
  BY DEF TypeInv, TypeOK
<1>2. CASE UNCHANGED <<db, processed>>
  BY <1>2 DEF CommitsProcessed
<1>3. CASE OpenFails
  <2>1. i \in 1 .. Len(db) /\ db' = db /\ processed' = processed \o batch
    BY <1>3 DEF OpenFails
  <2>2. PICK j \in 1 .. Len(processed) : rid(db[i]) = rid(processed[j])
    BY <2>1 DEF CommitsProcessed
  <2>3. j \in 1 .. Len(processed') /\ processed'[j] = processed[j]
    BY <1>1, <2>1
  <2> QED BY <2>1, <2>2, <2>3
<1>4. CASE ExecuteOne
  <2>1. Head(batch) \in Requests
    BY <1>4, <1>1, SeqFacts DEF ExecuteOne, TypeInv, FlushShape
  <2>2. /\ Len(processed') = Len(processed) + 1 /\ Len(processed) \in Nat
        /\ processed'[Len(processed) + 1] = Head(batch)
        /\ \A j \in 1 .. Len(processed) : processed'[j] = processed[j]
    BY <1>1, <1>4, <2>1 DEF ExecuteOne
  <2>3. db' = db \/ db' = Append(db, Head(batch))
    BY <1>4 DEF ExecuteOne
  <2>4. CASE i \in 1 .. Len(db)
    <3>1. db'[i] = db[i]
      BY <1>1, <2>1, <2>3, <2>4
    <3>2. PICK j \in 1 .. Len(processed) : rid(db[i]) = rid(processed[j])
      BY <2>4 DEF CommitsProcessed
    <3> QED BY <2>2, <3>1, <3>2
  <2>5. CASE i \notin 1 .. Len(db)
    <3>1. db'[i] = Head(batch)
      BY <1>1, <2>1, <2>3, <2>5
    <3> QED BY <2>2, <3>1
  <2> QED BY <2>4, <2>5
<1> QED
  BY <1>2, <1>3, <1>4
  DEF Next, vars, ClientStep, HandlerStep, WriterStep, clientVars, writerVars,
      Connect, SendFrame, ReceiveReply, Abandon, Accept, StartHandler,
      HandlePing, ReadRequest, ReadEnds, Enqueue, ForwardResponse, ResponseTimeout,
      FinishHandler, ReceiveRequest, BatchWindowElapsed, ChannelClosed, OpenConnection,
      AccountFlush, Shutdown, IdleTimeout, Exit, Crash

ServerInv == DrainInv /\ AckMeansCommitted /\ OnceInv

LEMMA ServerInit == Init => ServerInv
<1> SUFFICES ASSUME Init PROVE ServerInv
  OBVIOUS
<1>1. DrainInv /\ AckMeansCommitted
  BY TypeInit DEF Init, DrainInv, Fifo, ExitInv, WriterOutlivesSenders,
                  AckMeansCommitted, Rids
<1>2. Exchange
  BY DEF Init, Exchange, ExchangeOf, Busy, Rids
<1>3. Enqueues /\ ProcessedPrefix /\ CommitsProcessed
  BY DEF Init, Enqueues, ProcessedPrefix, CommitsProcessed
<1> QED BY <1>1, <1>2, <1>3 DEF ServerInv, OnceInv

LEMMA ServerStep == ServerInv /\ [Next]_vars => ServerInv'
<1> SUFFICES ASSUME ServerInv, [Next]_vars PROVE ServerInv'
  OBVIOUS
<1>1. DrainInv'
  BY TypeStep, FifoStep, ExitStep DEF ServerInv, DrainInv
<1>2. AckMeansCommitted'
  BY AckStep DEF ServerInv, DrainInv, AckInv
<1>3. Exchange' /\ Enqueues' /\ CommitsProcessed'
  BY ExchangeStep, EnqueuesStep, CommitsStep DEF ServerInv, DrainInv, OnceInv
<1>4. ProcessedPrefix'
  BY <1>1, PrefixStep DEF ServerInv, DrainInv, OnceInv
<1> QED BY <1>1, <1>2, <1>3, <1>4 DEF ServerInv, OnceInv

LEMMA ServerInvariant == Spec => []ServerInv
BY ServerInit, ServerStep, PTL DEF Spec

\* The writer executes no request twice, whatever timed out, was drained or
\* crashed: requests have distinct names when they enter the channel, and what
\* the writer finished is an initial part of what entered it.
THEOREM OnceCorrect == Spec => []AtMostOnce
<1>1. ServerInv => AtMostOnce
  <2> SUFFICES ASSUME ServerInv,
                      NEW i \in 1 .. Len(processed), NEW j \in 1 .. Len(processed),
                      rid(processed[i]) = rid(processed[j])
               PROVE  i = j
    BY DEF AtMostOnce
  <2>1. processed \in Seq(Requests) /\ enqueued \in Seq(Requests)
    BY DEF ServerInv, DrainInv, TypeInv, TypeOK
  <2>2. i \in 1 .. Len(enqueued) /\ j \in 1 .. Len(enqueued)
    BY <2>1 DEF ServerInv, OnceInv, ProcessedPrefix
  <2>3. processed[i] = enqueued[i] /\ processed[j] = enqueued[j]
    BY DEF ServerInv, OnceInv, ProcessedPrefix
  <2> QED BY <2>2, <2>3 DEF ServerInv, OnceInv, Enqueues
<1> QED BY <1>1, ServerInvariant, PTL
-----------------------------------------------------------------------------
(* The queue depth.  DepthAccounting is inductive: each step that moves a  *)
(* request changes two of its terms, or one and the counter.               *)

InWriter == IF writer \in {"open", "execute", "account"} THEN flushLen ELSE Len(batch)

LEMMA SendersFinite == IsFiniteSet(Senders) /\ Cardinality(Senders) \in Nat
<1>1. Senders \subseteq Conns
  BY DEF Senders
<1> QED BY <1>1, ConnsAssumption, FS_Subset, FS_CardinalityType

LEMMA DepthWriter ==
    ASSUME TypeInv, WriterStep
    PROVE  /\ UNCHANGED handler
           /\ queueDepth' - Len(queue)' - InWriter' = queueDepth - Len(queue) - InWriter
<1> USE DEF TypeInv, TypeOK, FlushShape, InWriter
<1>1. CASE ReceiveRequest
  <2>1. /\ Len(queue') = Len(queue) - 1 /\ Len(queue) \in Nat
        /\ Len(batch') = Len(batch) + 1 /\ Len(batch) \in Nat
    <3>1. Head(queue) \in Requests
      BY <1>1, SeqFacts DEF ReceiveRequest
    <3> QED BY <1>1, <3>1, SeqFacts DEF ReceiveRequest, PushBatch
  <2>2. CASE Len(batch') >= BatchThreshold
    <3>1. flushLen' = Len(batch') /\ writer' \in {"execute", "open"}
      BY <1>1, <2>2 DEF ReceiveRequest, StartFlush
    <3> QED BY <1>1, <2>1, <3>1 DEF ReceiveRequest
  <2>3. CASE ~(Len(batch') >= BatchThreshold)
    <3>1. writer' = "recv" /\ writer = "recv"
      BY <1>1, <2>3 DEF ReceiveRequest
    <3> QED BY <1>1, <2>1, <3>1 DEF ReceiveRequest
  <2> QED BY <2>2, <2>3
<1>2. CASE BatchWindowElapsed
  <2>1. flushLen' = Len(batch) /\ writer' \in {"execute", "open"}
    BY <1>2 DEF BatchWindowElapsed, StartFlush
  <2> QED BY <1>2, <2>1 DEF BatchWindowElapsed
<1>3. CASE ChannelClosed
  <2>1. CASE batch # <<>>
    <3>1. flushLen' = Len(batch) /\ writer' \in {"execute", "open"}
      BY <1>3, <2>1 DEF ChannelClosed, FinalFlush, StartFlush
    <3> QED BY <1>3, <3>1 DEF ChannelClosed
  <2>2. CASE batch = <<>>
    <3>1. writer' = "done"
      BY <1>3, <2>2 DEF ChannelClosed, FinalFlush
    <3> QED BY <1>3, <3>1 DEF ChannelClosed
  <2> QED BY <2>1, <2>2
<1>4. CASE OpenConnection
  BY <1>4 DEF OpenConnection
<1>5. CASE OpenFails
  BY <1>5 DEF OpenFails
<1>6. CASE ExecuteOne
  BY <1>6 DEF ExecuteOne
<1>7. CASE AccountFlush
  <2>1. batch = <<>> /\ Len(<<>>) = 0
    BY <1>7 DEF AccountFlush
  <2> QED BY <1>7, <2>1 DEF AccountFlush, Flushed
<1> QED BY <1>1, <1>2, <1>3, <1>4, <1>5, <1>6, <1>7 DEF WriterStep

LEMMA DepthStep == TypeInv /\ Exchange /\ DepthAccounting /\ [Next]_vars => DepthAccounting'
<1> SUFFICES ASSUME TypeInv, Exchange, DepthAccounting, [Next]_vars PROVE DepthAccounting'
  OBVIOUS
<1>1. /\ queueDepth = Cardinality(Senders) + Len(queue) + InWriter
      /\ Len(queue) \in Nat /\ InWriter \in Nat /\ queueDepth \in Int
  BY DEF DepthAccounting, InWriter, TypeInv, TypeOK
<1>2. SUFFICES queueDepth' = Cardinality(Senders') + Len(queue') + InWriter'
  BY DEF DepthAccounting, InWriter
<1>3. CASE UNCHANGED <<handler, queue, queueDepth, writerVars>>
  BY <1>1, <1>3 DEF Senders, InWriter, writerVars
<1>4. ASSUME NEW c \in Conns, ReadRequest(c)
      PROVE  queueDepth' = Cardinality(Senders') + Len(queue') + InWriter'
  <2>1. c \notin Senders /\ Senders' = Senders \cup {c}
    BY <1>4 DEF ReadRequest, Sending, Senders, TypeInv, TypeOK
  <2>2. Cardinality(Senders') = Cardinality(Senders) + 1
    BY <2>1, SendersFinite, FS_AddElement
  <2>3. UNCHANGED <<queue, InWriter>> /\ queueDepth' = queueDepth + 1
    BY <1>4 DEF ReadRequest, writerVars, InWriter
  <2> QED BY <1>1, <2>2, <2>3, SendersFinite
<1>5. ASSUME NEW c \in Conns, Enqueue(c)
      PROVE  queueDepth' = Cardinality(Senders') + Len(queue') + InWriter'
  <2>1. c \in Senders /\ Senders' = Senders \ {c}
    BY <1>5 DEF Enqueue, Sending, Senders, TypeInv, TypeOK
  <2>2. Cardinality(Senders') = Cardinality(Senders) - 1
    BY <2>1, SendersFinite, FS_RemoveElement
  <2>3. Len(queue') = Len(queue) + 1
    <3>1. PICK k \in QueuedKinds :
            handler[c] = Sending(k) /\ queue' = Append(queue, InHand(c, k))
      BY <1>5 DEF Enqueue
    <3> QED BY <3>1 DEF TypeInv, TypeOK
  <2>4. UNCHANGED <<queueDepth, InWriter>>
    BY <1>5 DEF Enqueue, writerVars, InWriter
  <2> QED BY <1>1, <2>2, <2>3, <2>4, SendersFinite
<1>6. ASSUME NEW c \in Conns,
             Connect(c) \/ Accept(c) \/ StartHandler(c) \/ ReadEnds(c)
               \/ ForwardResponse(c) \/ ResponseTimeout(c) \/ FinishHandler(c)
      PROVE  queueDepth' = Cardinality(Senders') + Len(queue') + InWriter'
  <2>1. UNCHANGED <<queue, queueDepth, writerVars>>
    BY <1>6 DEF Connect, Accept, StartHandler, ReadEnds, ForwardResponse,
                ResponseTimeout, FinishHandler
  <2>2. CASE Connect(c)
    <3>1. ~Busy(c)
      BY <2>2 DEF Connect, Exchange, ExchangeOf, Busy, TypeInv, FlushShape
    <3>2. Senders' = Senders
      BY <2>2, <3>1 DEF Connect, Senders, Busy, TypeInv, TypeOK
    <3> QED BY <1>1, <2>1, <3>2 DEF InWriter, writerVars
  <2>3. CASE ~Connect(c)
    <3>1. Senders' = Senders
      BY <1>6, <2>3 DEF Accept, StartHandler, ReadEnds, ForwardResponse,
                  ResponseTimeout, FinishHandler, Senders, TypeInv, TypeOK
    <3> QED BY <1>1, <2>1, <3>1 DEF InWriter, writerVars
  <2> QED BY <2>2, <2>3
<1>7. CASE WriterStep
  <2>1. /\ Senders' = Senders
        /\ queueDepth' - Len(queue)' - InWriter' = queueDepth - Len(queue) - InWriter
    BY <1>7, DepthWriter DEF Senders
  <2>2. queueDepth' \in Int /\ Len(queue') \in Int /\ InWriter' \in Int
    BY TypeStep DEF TypeInv, TypeOK, InWriter
  <2>3. Cardinality(Senders') = queueDepth - Len(queue) - InWriter
    BY <1>1, <2>1, SendersFinite
  <2> QED BY <2>1, <2>2, <2>3
<1>8. CASE Crash
  <2>1. Senders' = {} /\ Cardinality({}) = 0
    BY <1>8, FS_EmptySet DEF Crash, Senders
  <2>2. Len(queue') = 0 /\ InWriter' = 0 /\ queueDepth' = 0
    BY <1>8 DEF Crash, InWriter
  <2> QED BY <2>1, <2>2
<1>9. CASE UNCHANGED vars \/ Shutdown \/ IdleTimeout \/ Exit
  BY <1>3, <1>9 DEF vars, Shutdown, IdleTimeout, Exit
<1>10. ASSUME NEW c \in Conns,
              \/ HandlePing(c) \/ ReceiveReply(c) \/ Abandon(c)
              \/ \E k \in Kinds : SendFrame(c, k)
       PROVE  queueDepth' = Cardinality(Senders') + Len(queue') + InWriter'
  BY <1>3, <1>10 DEF HandlePing, ReceiveReply, Abandon, SendFrame
<1> QED
  BY <1>4, <1>5, <1>6, <1>7, <1>8, <1>9, <1>10 DEF Next, ClientStep, HandlerStep

LEMMA DepthInvariant == Spec => [](TypeInv /\ DepthAccounting)
<1>1. ASSUME Init PROVE DepthAccounting
  <2>1. Senders = {} /\ Cardinality({}) = 0
    BY <1>1, FS_EmptySet DEF Init, Senders
  <2> QED BY <1>1, <2>1 DEF Init, DepthAccounting
<1>2. ServerInv => TypeInv /\ Exchange
  BY DEF ServerInv, DrainInv, OnceInv
<1> QED BY <1>1, <1>2, ServerInvariant, DepthStep, PTL DEF Spec

\* queue_depth is exactly the number of requests between their handler's
\* fetch_add and the writer's fetch_sub, at every moment in between.
THEOREM DepthCorrect == Spec => []DepthAccounting
BY DepthInvariant, PTL

\* The unsigned counter that the health probe reports never wraps below zero:
\* the writer never subtracts more than handlers have added.
THEOREM DepthNeverWraps == Spec => [](queueDepth \in Nat)
<1>1. TypeInv /\ DepthAccounting => queueDepth \in Nat
  BY SendersFinite DEF DepthAccounting, TypeInv, TypeOK
<1> QED BY <1>1, DepthInvariant, PTL
-----------------------------------------------------------------------------
(* The refinement of MutationService.  A frame submits, ExecuteOne commits, *)
(* a reply or the end of the stream tells; every other step stutters.       *)

Submitted == {r \in Rids : r[2] <= sent[r[1]]}
Log       == [i \in 1 .. Len(db) |-> rid(db[i])]

LEMMA RidType == ASSUME NEW x \in Requests PROVE rid(x) \in Rids
BY DEF rid, Requests, Rids

LEMMA LogFacts ==
    ASSUME TypeInv
    PROVE  /\ Log \in Seq(Rids) /\ Len(Log) = Len(db)
           /\ Service!Committed = CommittedRids
<1>1. db \in Seq(Requests) /\ Len(db) \in Nat
  BY DEF TypeInv, TypeOK
<1>2. \A i \in 1 .. Len(db) : rid(db[i]) \in Rids
  BY <1>1, RidType
<1>3. Log \in Seq(Rids) /\ Len(Log) = Len(db)
  BY <1>1, <1>2 DEF Log
<1>4. Service!Committed = {Log[i] : i \in 1 .. Len(Log)}
  BY DEF Service!Committed, Log
<1> QED BY <1>3, <1>4 DEF Log, CommittedRids

LEMMA RefineSubmit ==
    ASSUME TypeInv, NEW c \in Conns, NEW k \in Kinds, SendFrame(c, k)
    PROVE  Service!ServiceNext
<1>1. sent \in [Conns -> Nat] /\ sent[c] + 1 \in 1 .. MaxFrames
  BY MaxFramesAssumption DEF TypeInv, TypeOK, SendFrame
<1>2. PICK r \in Rids : r = <<c, sent[c] + 1>>
  BY <1>1 DEF Rids
<1>3. r \notin Submitted
  BY <1>1, <1>2 DEF Submitted
<1>4. UNCHANGED <<db, verdict>> /\ sent' = [sent EXCEPT ![c] = sent[c] + 1]
  BY DEF SendFrame, writerVars
<1>5. ASSUME NEW x \in Rids PROVE x \in Submitted' <=> x \in Submitted \/ x = r
  <2>1. PICK d \in Conns, n \in 1 .. MaxFrames : x = <<d, n>>
    BY DEF Rids
  <2> QED BY <1>1, <1>2, <1>4, <2>1 DEF Submitted
<1>6. Submitted' = Submitted \cup {r}
  BY <1>5 DEF Submitted
<1>7. Service!Submit(r)
  BY <1>3, <1>4, <1>6 DEF Service!Submit, Submitted
<1> QED BY <1>7 DEF Service!ServiceNext

LEMMA RefineTell ==
    ASSUME TypeInv, NEW r \in Submitted, NEW v \in Service!Verdicts \ {"none"},
           verdict[r] = "none", v = "ack" => r \in CommittedRids,
           verdict' = [verdict EXCEPT ![r] = v], UNCHANGED <<sent, db>>
    PROVE  Service!ServiceNext
<1>1. Service!Tell(r, v)
  BY LogFacts DEF Service!Tell, Submitted
<1> QED BY <1>1 DEF Service!ServiceNext, Submitted

LEMMA NotYetCommitted ==
    ASSUME ServerInv, ExecuteOne
    PROVE  rid(Head(batch)) \in Submitted \ CommittedRids
<1> USE DEF ServerInv, DrainInv, OnceInv
<1>1. batch # <<>> /\ processed \o batch \o queue = enqueued
  BY DEF ExecuteOne, Running, Fifo, TypeInv, FlushShape
<1>2. /\ Len(processed) + 1 \in 1 .. Len(enqueued)
      /\ enqueued[Len(processed) + 1] = Head(batch)
  BY <1>1, PrefixOfFifo
<1>3. Head(batch) \in Requests /\ processed \in Seq(Requests) /\ enqueued \in Seq(Requests)
  BY <1>1, SeqFacts DEF TypeInv, TypeOK
<1>4. Head(batch).n <= sent[Head(batch).conn]
  BY <1>2, <1>3 DEF Enqueues, Requests
<1>5. rid(Head(batch)) \in Submitted
  BY <1>3, <1>4 DEF Submitted, Rids, rid, Requests
<1>6. ASSUME NEW i \in 1 .. Len(db), rid(db[i]) = rid(Head(batch)) PROVE FALSE
  <2>1. PICK j \in 1 .. Len(processed) : rid(db[i]) = rid(processed[j])
    BY DEF CommitsProcessed
  <2>2. processed[j] = enqueued[j] /\ j \in 1 .. Len(enqueued) /\ Len(processed) \in Nat
    BY <1>3 DEF ProcessedPrefix
  <2>3. j = Len(processed) + 1
    BY <1>2, <1>6, <2>1, <2>2 DEF Enqueues
  <2> QED BY <2>2, <2>3
<1> QED BY <1>5, <1>6 DEF CommittedRids

LEMMA RefineCommit ==
    ASSUME ServerInv, ExecuteOne
    PROVE  Service!ServiceNext \/ UNCHANGED Service!serviceVars
<1>1. TypeInv
  BY DEF ServerInv, DrainInv
<1>2. PICK r \in Rids : r = rid(Head(batch)) /\ r \in Submitted \ CommittedRids
  BY NotYetCommitted DEF Submitted
<1>3. UNCHANGED <<sent, verdict>>
  BY DEF ExecuteOne, clientVars
<1>4. CASE db' = db
  BY <1>3, <1>4 DEF Service!serviceVars
<1>5. CASE db' = Append(db, Head(batch))
  <2>1. verdict[r] # "ack"
    <3>1. PICK c \in Conns, n \in 1 .. MaxFrames : r = <<c, n>>
      BY <1>2 DEF Rids
    <3> QED BY <1>2, <3>1 DEF ServerInv, AckMeansCommitted
  <2>2. Log' = Append(Log, r)
    <3>1. db \in Seq(Requests) /\ Len(db) \in Nat /\ Head(batch) \in Requests
      BY <1>1, SeqFacts DEF TypeInv, TypeOK, FlushShape, ExecuteOne
    <3>2. /\ Len(db') = Len(db) + 1
          /\ db'[Len(db) + 1] = Head(batch)
          /\ \A i \in 1 .. Len(db) : db'[i] = db[i]
      BY <3>1, <1>5
    <3>3. Log \in Seq(Rids) /\ Len(Log) = Len(db)
      BY <1>1, LogFacts
    <3>4. Log' \in Seq(Rids) /\ Len(Log') = Len(db) + 1
      <4>1. TypeInv'
        BY <1>1, TypeStep DEF Next, WriterStep
      <4>2. (Log \in Seq(Rids) /\ Len(Log) = Len(db))'
        BY <4>1, LogFacts, PTL
      <4> QED BY <3>2, <4>2
    <3>5. \A i \in 1 .. Len(db) + 1 : Log'[i] = IF i = Len(db) + 1 THEN r ELSE Log[i]
      BY <1>2, <3>1, <3>2 DEF Log
    <3> DEFINE a == Append(Log, r)
    <3>6. /\ a \in Seq(Rids) /\ Len(a) = Len(db) + 1
          /\ \A i \in 1 .. Len(db) + 1 : a[i] = IF i = Len(db) + 1 THEN r ELSE Log[i]
      BY <1>2, <3>1, <3>3
    <3> HIDE DEF a
    <3>7. Log' = a
      BY <3>4, <3>5, <3>6
    <3> QED BY <3>7 DEF a
  <2>3. Service!Commit(r)
    BY <1>1, <1>2, <1>3, <2>1, <2>2, LogFacts DEF Service!Commit, Submitted, Log
  <2> QED BY <1>2, <2>3 DEF Service!ServiceNext
<1> QED BY <1>4, <1>5 DEF ExecuteOne

LEMMA RefineStep ==
    ServerInv /\ [Next]_vars => [Service!ServiceNext]_Service!serviceVars
<1> SUFFICES ASSUME ServerInv, [Next]_vars
             PROVE  Service!ServiceNext \/ UNCHANGED Service!serviceVars
  OBVIOUS
<1>1. TypeInv /\ AckMeansCommitted /\ Exchange
  BY DEF ServerInv, DrainInv, OnceInv
<1>2. CASE UNCHANGED <<sent, db, verdict>>
  BY <1>2 DEF Service!serviceVars
<1>3. ASSUME NEW c \in Conns, ReceiveReply(c) PROVE Service!ServiceNext
  <2>1. /\ sent[c] \in 1 .. MaxFrames /\ Current(c) \in Submitted
        /\ reply[c] \in {"ack", "error", "health"}
    BY <1>1, <1>3 DEF ReceiveReply, TypeInv, TypeOK, FlushShape, Answers, Current,
                      Submitted, Rids
  <2>2. verdict[Current(c)] = "none"
    BY <1>1, <1>3 DEF ReceiveReply, Exchange, ExchangeOf
  <2>3. reply[c] = "ack" => Current(c) \in CommittedRids
    BY <1>1, <2>1 DEF AckMeansCommitted, Current
  <2>4. UNCHANGED <<sent, db>> /\ verdict' = [verdict EXCEPT ![Current(c)] = reply[c]]
    BY <1>3 DEF ReceiveReply, writerVars
  <2> QED BY <1>1, <2>1, <2>2, <2>3, <2>4, RefineTell DEF Service!Verdicts
<1>4. ASSUME NEW c \in Conns, Abandon(c), verdict' # verdict PROVE Service!ServiceNext
  <2>1. /\ sent[c] > 0 /\ verdict[Current(c)] = "none"
        /\ verdict' = [verdict EXCEPT ![Current(c)] = "indeterminate"]
        /\ UNCHANGED <<sent, db>>
    BY <1>4 DEF Abandon, writerVars
  <2>2. Current(c) \in Submitted
    BY <1>1, <2>1 DEF TypeInv, TypeOK, Current, Submitted, Rids
  <2> QED BY <1>1, <2>1, <2>2, RefineTell DEF Service!Verdicts
<1>5. ASSUME NEW c \in Conns, Abandon(c), verdict' = verdict
      PROVE  UNCHANGED <<sent, db, verdict>>
  BY <1>5 DEF Abandon, writerVars
<1> QED
  BY <1>1, <1>2, <1>3, <1>4, <1>5, RefineSubmit, RefineCommit
  DEF Next, vars, ClientStep, HandlerStep, WriterStep, clientVars, writerVars,
      Connect, Accept, StartHandler, HandlePing, ReadRequest, ReadEnds, Enqueue,
      ForwardResponse, ResponseTimeout, FinishHandler, ReceiveRequest,
      BatchWindowElapsed, ChannelClosed, OpenConnection, OpenFails, AccountFlush,
      Shutdown, IdleTimeout, Exit, Crash

\* The daemon keeps its promise to the callers of send_classified: each
\* mutation is committed at most once, after its submission and before its
\* acknowledgement, and each exchange is told one verdict.
THEOREM RefinementCorrect == Spec => ServiceRefined
<1>1. Init => Service!ServiceInit
  <2> SUFFICES ASSUME Init PROVE Service!ServiceInit
    OBVIOUS
  <2>1. Submitted = {}
    BY DEF Init, Submitted, Rids
  <2>2. Log = <<>>
    BY DEF Init, Log
  <2> QED BY <2>1, <2>2 DEF Init, Service!ServiceInit, Submitted, Log
<1> QED BY <1>1, RefineStep, ServerInvariant, PTL DEF Spec, ServiceRefined, Service!ServiceSpec
=============================================================================
