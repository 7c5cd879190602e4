------------------------- MODULE OrchestratorProofs -------------------------
(***************************************************************************)
(* Theorems about one turn of the agent loop (Orchestrator), for every set *)
(* of tools, every bound on calls and answers and every limit.             *)
(***************************************************************************)
EXTENDS Orchestrator, FiniteSetTheorems, WellFoundedInduction, TLAPS

-----------------------------------------------------------------------------
(* Write-ahead.  SentIsStored speaks of the moment of the request only; what *)
(* makes it hold is that the flush at the top of the loop stores the context *)
(* the request will send, and that the Request hooks change another copy.   *)

Synced ==
    /\ pc = "flushTop" => conversation.context = context
    /\ pc \in {"request", "chat"} => stored = context

LEMMA SyncedInit == Init => Synced
  BY DEF Init, Synced

LEMMA SyncedNext == Synced /\ [Next]_vars => Synced'
<1> SUFFICES ASSUME Synced, [Next]_vars PROVE Synced'
  OBVIOUS
<1>1. CASE Flush
  <2>1. /\ pc \in {"flushTop", "flushAppend", "flushEnd", "flushFinal"}
        /\ FlushNext[pc] \in {"request", "chat"} => pc = "flushTop"
        /\ FlushNext[pc] # "flushTop"
    BY <1>1 DEF Flush, FlushNext
  <2>2. CASE stored' = conversation.context /\ pc' = FlushNext[pc]
    BY <1>1, <2>1, <2>2 DEF Flush, Synced
  <2>3. CASE UpdateFailed
    BY <1>1, <2>3 DEF Flush, Synced, UpdateFailed
  <2> QED
    BY <1>1, <2>2, <2>3 DEF Flush
<1>2. CASE LoopTop
  <2>1. pc' = "flushTop" /\ conversation'.context = context
    <3>1. conversation' = [conversation EXCEPT !.context = context]
      BY <1>2 DEF LoopTop
    <3> QED
      BY <1>2, <3>1 DEF LoopTop, TopNext, MarkDirty
  <2> QED
    BY <1>2, <2>1 DEF LoopTop, Synced
<1>3. CASE RequestHook
  BY <1>3 DEF RequestHook, Synced
<1>4. CASE ChatTurn
  BY <1>4 DEF ChatTurn, Synced
<1>5. CASE Start \/ ChatFails \/ ResponseHook \/ TasksJoined \/ SaveAfterRun \/ Cancel
  BY <1>5 DEF Start, ChatFails, ResponseHook, TasksJoined, SaveAfterRun, Cancel, Synced
<1>6. CASE \E i \in DOMAIN calls : FinishTask(i)
  BY <1>6 DEF FinishTask, Synced
<1>7. CASE BeginCall \/ Notified \/ RunTool
  BY <1>7 DEF BeginCall, Notified, RunTool, Synced
<1>8. CASE AppendExchange \/ CheckLimits
  BY <1>8 DEF AppendExchange, CheckLimits, MarkDirty, Synced
<1>9. CASE EndHook \/ Ended \/ Complete
  BY <1>9 DEF EndHook, Ended, Complete, MarkDirty, Synced
<1>10. CASE ShowHeader \/ UNCHANGED vars
  BY <1>10 DEF ShowHeader, vars, Synced
<1> QED
  BY <1>1, <1>2, <1>3, <1>4, <1>5, <1>6, <1>7, <1>8, <1>9, <1>10 DEF Next, TaskStep

\* Orchestrator::run never sends the provider a context that has not been
\* stored, whatever hooks, tools, failing saves and cancellation do.
THEOREM SentCorrect == Spec => []SentIsStored
<1>1. Synced => SentIsStored
  BY DEF Synced, SentIsStored
<1> QED
  BY SyncedInit, SyncedNext, <1>1, PTL DEF Spec

-----------------------------------------------------------------------------
(* Completion.  TaskComplete is sent after the final flush, and no step that *)
(* changes the conversation follows it.                                     *)

Settled ==
    /\ pc = "complete" => stored = conversation.context
    /\ completed => pc \in {"exit", "saved", "cancelled"} /\ stored = conversation.context

LEMMA SettledInit == Init => Settled
  BY DEF Init, Settled

LEMMA SettledNext == Settled /\ [Next]_vars => Settled'
<1> SUFFICES ASSUME Settled, [Next]_vars PROVE Settled'
  OBVIOUS
<1>1. CASE Flush
  <2>1. pc \in {"flushTop", "flushAppend", "flushEnd", "flushFinal"}
    BY <1>1 DEF Flush, FlushNext
  <2>2. ~completed /\ completed' = completed /\ conversation' = conversation
    BY <1>1, <2>1 DEF Flush, Settled, control
  <2>3. CASE stored' = conversation.context
    BY <2>2, <2>3 DEF Settled
  <2>4. CASE UpdateFailed
    BY <2>2, <2>4 DEF Settled, UpdateFailed
  <2> QED
    BY <1>1, <2>3, <2>4 DEF Flush
<1>2. CASE Complete
  BY <1>2 DEF Complete, Settled
<1>3. CASE SaveAfterRun
  BY <1>3 DEF SaveAfterRun, Settled, control
<1>4. CASE Cancel
  BY <1>4 DEF Cancel, Live, Settled, control
<1>5. CASE Start \/ LoopTop \/ RequestHook
  BY <1>5 DEF Start, LoopTop, TopNext, MarkDirty, RequestHook, Settled, control
<1>6. CASE ChatTurn \/ ChatFails \/ ResponseHook \/ TasksJoined
  BY <1>6 DEF ChatTurn, ChatFails, ResponseHook, TasksJoined, Settled, control
<1>7. CASE \E i \in DOMAIN calls : FinishTask(i)
  BY <1>7 DEF FinishTask, Settled, control
<1>8. CASE BeginCall \/ Notified \/ RunTool
  BY <1>8 DEF BeginCall, Notified, RunTool, Settled, control
<1>9. CASE AppendExchange \/ CheckLimits
  BY <1>9 DEF AppendExchange, CheckLimits, MarkDirty, Settled
<1>10. CASE EndHook \/ Ended
  BY <1>10 DEF EndHook, Ended, MarkDirty, Settled, control
<1>11. CASE ShowHeader \/ UNCHANGED vars
  BY <1>11 DEF ShowHeader, vars, control, Settled
<1> QED
  BY <1>1, <1>2, <1>3, <1>4, <1>5, <1>6, <1>7, <1>8, <1>9, <1>10, <1>11 DEF Next, TaskStep

\* When TaskComplete has been sent, the stored context is the one in memory, so a consumer that drops the stream at once loses nothing.
THEOREM CompletionCorrect == Spec => []CompletionStored
<1>1. Settled => CompletionStored
  BY DEF Settled, CompletionStored
<1> QED
  BY SettledInit, SettledNext, <1>1, PTL DEF Spec

-----------------------------------------------------------------------------
(* The limits.  An interrupted turn is past its request and yields, until the *)
(* pending-todos hook takes both back at once.                              *)

Closed ==
    /\ shouldYield \in BOOLEAN /\ interrupted \in BOOLEAN
    /\ interrupted =>
         /\ shouldYield
         /\ pc \in {"flushAppend", "check", "end", "flushEnd", "ended", "flushFinal",
                    "complete", "exit", "saved", "cancelled"}

LEMMA ClosedInit == Init => Closed
  BY DEF Init, Closed

LEMMA ClosedNext == Closed /\ [Next]_vars => Closed'
<1> SUFFICES ASSUME Closed, [Next]_vars PROVE Closed'
  OBVIOUS
<1>1. CASE Flush
  <2>1. /\ pc \in {"flushTop", "flushAppend", "flushEnd", "flushFinal"}
        /\ pc # "flushTop" => FlushNext[pc] \in {"check", "ended", "complete"}
    BY <1>1 DEF Flush, FlushNext
  <2> QED
    BY <1>1, <2>1 DEF Flush, UpdateFailed, Closed, control
<1>2. CASE ChatTurn
  <2>1. shouldYield' \in BOOLEAN /\ interrupted' = interrupted /\ pc = "chat"
    BY <1>2 DEF ChatTurn
  <2> QED
    BY <2>1 DEF Closed
<1>3. CASE AppendExchange
  <2>1. /\ shouldYield' = (shouldYield \/ LimitReached(errors'))
        /\ interrupted' = (interrupted \/ LimitReached(errors'))
        /\ pc = "tools" /\ pc' = "flushAppend"
    BY <1>3 DEF AppendExchange, Yields, MarkDirty
  <2>2. LimitReached(errors') \in BOOLEAN
    BY DEF LimitReached
  <2> QED
    BY <2>1, <2>2 DEF Closed
<1>4. CASE CheckLimits
  <2> DEFINE stop == ~shouldYield /\ requests' >= MaxRequests
  <2>1. /\ interrupted' = (interrupted \/ stop)
        /\ shouldYield' = (shouldYield \/ stop)
        /\ pc' = IF shouldYield' THEN "end" ELSE "top"
    BY <1>4 DEF CheckLimits, Yields
  <2>2. stop \in BOOLEAN
    OBVIOUS
  <2> HIDE DEF stop
  <2> QED
    BY <2>1, <2>2 DEF Closed
<1>5. CASE EndHook
  <2>1. /\ \/ UNCHANGED <<shouldYield, interrupted>>
           \/ shouldYield' = FALSE /\ interrupted' = FALSE
        /\ pc' \in {"flushEnd", "exit"}
    <3>1. CASE UNCHANGED <<shouldYield, interrupted>> /\ pc' = "exit"
      BY <3>1
    <3>2. CASE UNCHANGED <<shouldYield, interrupted>> /\ MarkDirty("flushEnd")
      BY <3>2 DEF MarkDirty
    <3>3. CASE shouldYield' = FALSE /\ interrupted' = FALSE /\ MarkDirty("flushEnd")
      BY <3>3 DEF MarkDirty
    <3> QED
      BY <1>5, <3>1, <3>2, <3>3 DEF EndHook
  <2>2. CASE UNCHANGED <<shouldYield, interrupted>>
    BY <2>1, <2>2 DEF Closed
  <2>3. CASE shouldYield' = FALSE /\ interrupted' = FALSE
    BY <2>3 DEF Closed
  <2> QED
    BY <2>1, <2>2, <2>3
<1>6. CASE Ended
  BY <1>6 DEF Ended, MarkDirty, Closed, control
<1>7. CASE Complete \/ SaveAfterRun \/ Cancel
  BY <1>7 DEF Complete, SaveAfterRun, Cancel, Closed, control
<1>8. CASE Start \/ LoopTop \/ RequestHook \/ ChatFails \/ ResponseHook
  BY <1>8 DEF Start, LoopTop, TopNext, MarkDirty, RequestHook, ChatFails, ResponseHook,
              Closed, control
<1>9. CASE \E i \in DOMAIN calls : FinishTask(i)
  BY <1>9 DEF FinishTask, Closed, control
<1>10. CASE TasksJoined \/ BeginCall \/ Notified \/ RunTool
  BY <1>10 DEF TasksJoined, BeginCall, Notified, RunTool, Closed, control
<1>11. CASE ShowHeader \/ UNCHANGED vars
  BY <1>11 DEF ShowHeader, vars, control, Closed
<1> QED
  BY <1>1, <1>2, <1>3, <1>4, <1>5, <1>6, <1>7, <1>8, <1>9, <1>10, <1>11 DEF Next, TaskStep

\* No request follows an Interrupt event unless an End hook has reopened the
\* turn: run honours max_requests_per_turn and the tool failure limit, whatever
\* the provider, the tools, failing saves and cancellation do.
THEOREM LimitsCorrect == Spec => NoRequestAfterInterrupt
<1>1. Closed => [interrupted => ~ChatTurn]_vars
  BY DEF Closed, ChatTurn
<1> QED
  BY ClosedInit, ClosedNext, <1>1, PTL DEF Spec, NoRequestAfterInterrupt
-----------------------------------------------------------------------------
(* Contexts.  Good says what holds of every context the turn keeps: the    *)
(* local one, the conversation's, the stored one and the drop guard's.     *)

Good(c) == c \in Seq(Messages) /\ Paired(c) /\ Spaced(c)

Answered(c) ==
    \A i \in Assistants(c) :
        /\ i + c[i].call <= Len(c)
        /\ \A n \in 1 .. c[i].call : c[i + n] = Message("result", c[i].turn, n, {})

Covered(c) ==
    \A i \in 1 .. Len(c) : IsResult(c, i) =>
        \E j \in Assistants(c) : j < i /\ i <= j + c[j].call

LEMMA PairedParts == \A c : Paired(c) <=> Answered(c) /\ Covered(c)
BY DEF Paired, Answered, Covered

LEMMA MessageType ==
    ASSUME NEW k \in Kinds, NEW t \in 0 .. MaxAnswers, NEW n \in 0 .. MaxCalls,
           NEW S \in SUBSET Todos
    PROVE  /\ Message(k, t, n, S) \in Messages
           /\ Message(k, t, n, S).kind = k /\ Message(k, t, n, S).turn = t
           /\ Message(k, t, n, S).call = n /\ Message(k, t, n, S).todos = S
BY DEF Message, Messages

LEMMA CallType ==
    ASSUME NEW c \in Seq(Messages), NEW i \in 1 .. Len(c)
    PROVE  /\ c[i].call \in Nat /\ c[i].call <= MaxCalls
           /\ c[i].turn \in 0 .. MaxAnswers /\ c[i].kind \in Kinds
           /\ c[i].todos \in SUBSET Todos /\ i \in Nat /\ Len(c) \in Nat
<1>1. c[i] \in Messages
  OBVIOUS
<1> QED BY <1>1, LimitsAssumption DEF Messages

\* Every non-empty set of naturals has a least element, and a greatest one when
\* it is bounded: what the CHOOSEs of the model rely on.
LEMMA LeastExists ==
    ASSUME NEW T \in SUBSET Nat, T # {}
    PROVE  \E x \in T : \A y \in T : x <= y
<1> DEFINE R == OpToRel(<, Nat)
<1>1. IsWellFoundedOn(R, Nat)
  BY NatLessThanWellFounded
<1>2. \A x, y \in Nat : y < x => <<y, x>> \in R
  BY DEF OpToRel
<1> HIDE DEF R
<1>3. PICK x \in T : \A y \in T : ~(<<y, x>> \in R)
  BY <1>1, WFMin
<1>4. ASSUME NEW y \in T PROVE x <= y
  <2>1. x \in Nat /\ y \in Nat
    OBVIOUS
  <2>2. ~(y < x)
    BY <1>2, <1>3, <2>1
  <2> QED BY <2>1, <2>2
<1> QED BY <1>4

LEMMA GreatestExists ==
    ASSUME NEW n \in Nat, NEW T \in SUBSET (0 .. n), T # {}
    PROVE  \E x \in T : \A y \in T : y <= x
<1> DEFINE U == {k \in Nat : n - k \in T}
<1>1. U # {}
  <2>1. PICK x \in T : TRUE
    OBVIOUS
  <2>2. n - x \in Nat /\ n - (n - x) = x
    OBVIOUS
  <2> QED BY <2>1, <2>2
<1>2. PICK k \in U : \A l \in U : k <= l
  <2>1. U \in SUBSET Nat
    OBVIOUS
  <2> HIDE DEF U
  <2> QED BY <1>1, <2>1, LeastExists
<1>3. ASSUME NEW y \in T PROVE y <= n - k
  <2>1. n - y \in Nat /\ n - (n - y) = y /\ y \in Int
    OBVIOUS
  <2>2. k <= n - y
    BY <1>2, <2>1
  <2> QED BY <2>1, <2>2
<1> QED BY <1>2, <1>3

LEMMA LastExists ==
    ASSUME NEW c \in Seq(Messages), Reminders(c) # {}
    PROVE  \E x \in Reminders(c) : \A y \in Reminders(c) : y <= x
<1>1. Len(c) \in Nat /\ Reminders(c) \in SUBSET (0 .. Len(c))
  BY DEF Reminders
<1> QED BY <1>1, GreatestExists

LEMMA FirstExists ==
    ASSUME NEW c \in Seq(Messages), Assistants(c) # {}
    PROVE  /\ FirstAssistant(c) \in Assistants(c)
           /\ \A j \in Assistants(c) : FirstAssistant(c) <= j
<1>1. Assistants(c) \in SUBSET Nat
  BY DEF Assistants
<1>2. \E i \in Assistants(c) : \A j \in Assistants(c) : i <= j
  BY <1>1, LeastExists
<1> QED BY <1>2 DEF FirstAssistant

\* A hook adds a message that is neither a call nor a result: as long as it is
\* no repeated reminder, the context stays good.
LEMMA GoodAppend ==
    ASSUME NEW c, Good(c), NEW m \in Messages, m.kind \notin {"assistant", "result"},
           m.kind = "todos" /\ Reminders(c) # {} =>
               c[LastReminder(c)].todos # m.todos \/ m.todos \cap Escaped # {}
    PROVE  Good(Append(c, m))
<1> DEFINE d == Append(c, m)
           l == Len(c)
<1>1. /\ c \in Seq(Messages) /\ d \in Seq(Messages)
      /\ l \in Nat /\ Len(d) = l + 1 /\ d[l + 1] = m
      /\ \A i \in 1 .. l : d[i] = c[i]
  BY DEF Good
<1>2. \A i \in 1 .. l : c[i].call \in Nat
  BY <1>1, CallType
<1> HIDE DEF d, l
<1>3. Assistants(d) = Assistants(c)
  BY <1>1 DEF Assistants, l
<1>4. Answered(d)
  <2> SUFFICES ASSUME NEW i \in Assistants(c)
               PROVE  /\ i + d[i].call <= Len(d)
                      /\ \A n \in 1 .. d[i].call : d[i + n] = Message("result", d[i].turn, n, {})
    BY <1>3 DEF Answered
  <2>1. i \in 1 .. l /\ d[i] = c[i] /\ c[i].call \in Nat
    BY <1>1, <1>2 DEF Assistants, l
  <2>2. /\ i + c[i].call <= l
        /\ \A n \in 1 .. c[i].call : c[i + n] = Message("result", c[i].turn, n, {})
    BY PairedParts DEF Good, Answered, l
  <2>3. i + d[i].call <= Len(d)
    BY <1>1, <2>1, <2>2
  <2>4. ASSUME NEW n \in 1 .. c[i].call PROVE d[i + n] = c[i + n]
    <3>1. i + n \in 1 .. l
      BY <1>1, <2>1, <2>2
    <3> QED BY <1>1, <3>1
  <2> QED BY <2>1, <2>2, <2>3, <2>4
<1>5. Covered(d)
  <2> SUFFICES ASSUME NEW i \in 1 .. Len(d), IsResult(d, i)
               PROVE  \E j \in Assistants(d) : j < i /\ i <= j + d[j].call
    BY DEF Covered
  <2>1. i \in 1 .. l /\ IsResult(c, i)
    BY <1>1 DEF IsResult, l
  <2>2. PICK j \in Assistants(c) : j < i /\ i <= j + c[j].call
    BY <2>1, PairedParts DEF Good, Covered, l
  <2> QED BY <1>1, <1>3, <2>2 DEF Assistants, l
<1>6. Spaced(d)
  <2> SUFFICES ASSUME NEW i \in Reminders(d), NEW j \in Reminders(d),
                      i < j, d[i].todos = d[j].todos, d[i].todos \cap Escaped = {}
               PROVE  \E k \in 1 .. Len(d) :
                        /\ i < k /\ k < j
                        /\ \/ d[k].kind = "summary"
                           \/ k \in Reminders(d) /\ d[k].todos # d[i].todos
    BY DEF Spaced
  <2>1. i \in 1 .. l + 1 /\ j \in 1 .. l + 1 /\ i \in 1 .. l
    BY <1>1 DEF Reminders
  <2>2. \A k \in 1 .. l : k \in Reminders(d) <=> k \in Reminders(c)
    BY <1>1 DEF Reminders, l
  <2>3. CASE j \in 1 .. l
    <3>1. PICK k \in 1 .. l :
            /\ i < k /\ k < j
            /\ \/ c[k].kind = "summary"
               \/ k \in Reminders(c) /\ c[k].todos # c[i].todos
      BY <1>1, <2>1, <2>2, <2>3 DEF Good, Spaced, l
    <3> QED BY <1>1, <2>1, <2>2, <3>1
  <2>4. CASE j = l + 1
    <3>1. m.kind = "todos" /\ d[i].todos = m.todos /\ i \in Reminders(c)
      BY <1>1, <2>1, <2>2, <2>4 DEF Reminders
    <3>2. PICK k \in Reminders(c) : k = LastReminder(c)
      <4>1. \E x \in Reminders(c) : \A y \in Reminders(c) : y <= x
        BY <1>1, <3>1, LastExists DEF l
      <4> QED BY <4>1 DEF LastReminder
    <3>3. i <= k
      <4>1. \E x \in Reminders(c) : \A y \in Reminders(c) : y <= x
        BY <1>1, <3>1, LastExists DEF l
      <4> QED BY <3>1, <3>2, <4>1 DEF LastReminder
    <3>4. c[k].todos # m.todos /\ k \in 1 .. l
      BY <3>1, <3>2 DEF Reminders, l
    <3>5. i # k
      BY <1>1, <2>1, <3>1, <3>4
    <3> QED BY <1>1, <2>1, <2>2, <2>4, <3>1, <3>2, <3>3, <3>4, <3>5
  <2> QED BY <2>1, <2>3, <2>4, <1>1
<1>7. Paired(d)
  BY <1>4, <1>5, PairedParts
<1> QED BY <1>1, <1>6, <1>7 DEF Good, d

\* The calls up to i that are tasks, or that are not.
Ranked(p, i) == {j \in 1 .. i : (calls[j] = "task") = p}

\* Splitting the calls by a predicate and merging the two lists of results by the
\* same predicate puts every result behind its call.
LEMMA OrderIdentity ==
    ASSUME calls \in Seq(Tools)
    PROVE  ResultOrder = [i \in DOMAIN calls |-> i]
<1> SUFFICES ASSUME NEW i \in DOMAIN calls PROVE ResultOrder[i] = i
  BY DEF ResultOrder
<1> DEFINE p == calls[i] = "task"
           Fits(x) == (calls[x] = "task") = p /\ Cardinality(Ranked(p, x)) = Cardinality(Ranked(p, i))
<1>1. Len(calls) \in Nat /\ DOMAIN calls = 1 .. Len(calls)
  OBVIOUS
<1>2. ResultOrder[i] = CHOOSE x \in DOMAIN calls : Fits(x)
  BY DEF ResultOrder, Nth, Split, Merged, Ranked
<1>3. Fits(i)
  OBVIOUS
<1>4. ASSUME NEW x \in DOMAIN calls, NEW y \in DOMAIN calls, x < y, (calls[y] = "task") = p
      PROVE  Cardinality(Ranked(p, x)) # Cardinality(Ranked(p, y))
  <2>1. x \in Nat /\ y \in Nat /\ y \in 1 .. y /\ y \notin 1 .. x /\ 1 .. x \subseteq 1 .. y
    BY <1>1, <1>4
  <2>2. IsFiniteSet(1 .. y)
    BY <2>1, FS_Interval
  <2>3. Ranked(p, y) \subseteq 1 .. y /\ Ranked(p, x) \subseteq Ranked(p, y)
    BY <2>1 DEF Ranked
  <2>4. IsFiniteSet(Ranked(p, y))
    BY <2>2, <2>3, FS_Subset
  <2>5. y \in Ranked(p, y) /\ y \notin Ranked(p, x)
    BY <1>4, <2>1 DEF Ranked
  <2> QED BY <2>3, <2>4, <2>5, FS_Subset
<1>5. ASSUME NEW x \in DOMAIN calls, Fits(x) PROVE x = i
  <2>1. ~(x < i) /\ ~(i < x)
    BY <1>4, <1>5
  <2> QED BY <1>1, <2>1
<1> HIDE DEF Fits, p
<1> QED BY <1>2, <1>3, <1>5

\* append_message: a response and the results of its calls are a whole group.
LEMMA GoodExchange ==
    ASSUME NEW c, Good(c), calls \in Seq(Tools), Len(calls) <= MaxCalls,
           answers \in 0 .. MaxAnswers
    PROVE  Good(Appended(c))
<1> DEFINE l == Len(c)
           n == Len(calls)
           a == Message("assistant", answers, n, {})
           r == [i \in DOMAIN calls |-> Message("result", answers, i, {})]
           d == Append(c, a) \o r
<1>1. l \in Nat /\ n \in Nat /\ n \in 0 .. MaxCalls /\ c \in Seq(Messages)
      /\ DOMAIN calls = 1 .. n
  BY LimitsAssumption DEF Good
<1>2. a \in Messages /\ a.kind = "assistant" /\ a.call = n /\ a.turn = answers
  BY <1>1, MessageType DEF Kinds
<1>3. \A k \in 1 .. n : /\ Message("result", answers, k, {}) \in Messages
                        /\ Message("result", answers, k, {}).kind = "result"
  <2> TAKE k \in 1 .. n
  <2>1. k \in 0 .. MaxCalls
    BY <1>1, LimitsAssumption
  <2> QED BY <2>1, MessageType DEF Kinds
<1>4. r \in Seq(Messages) /\ Len(r) = n
      /\ \A k \in 1 .. n : r[k] = Message("result", answers, k, {})
  BY <1>1, <1>3
<1> HIDE DEF r, a
<1>5. /\ d \in Seq(Messages) /\ Len(d) = l + 1 + n /\ d[l + 1] = a
      /\ \A i \in 1 .. l : d[i] = c[i]
  BY <1>1, <1>2, <1>4
<1>6. \A k \in 1 .. n : d[l + 1 + k] = Message("result", answers, k, {})
  <2> TAKE k \in 1 .. n
  <2>1. d[l + 1 + k] = r[k]
    BY <1>1, <1>2, <1>4
  <2> QED BY <2>1, <1>4
<1>7. \A i \in 1 .. l : c[i].call \in Nat
  BY <1>1, CallType
<1>8. Appended(c) = d
  <2>1. \A i \in DOMAIN calls : ResultOrder[i] = i
    BY OrderIdentity
  <2>2. [i \in DOMAIN calls |-> Message("result", answers, ResultOrder[i], {})] = r
    BY <2>1 DEF r
  <2> QED BY <2>2 DEF Appended, a
<1> HIDE DEF d, l, n
<1>9. \A i \in 1 .. Len(d) : i \in 1 .. l \/ i = l + 1 \/ \E k \in 1 .. n : i = l + 1 + k
  <2> SUFFICES ASSUME NEW i \in 1 .. Len(d), i \notin 1 .. l, i # l + 1
               PROVE  \E k \in 1 .. n : i = l + 1 + k
    OBVIOUS
  <2>1. i - l - 1 \in 1 .. n /\ i = l + 1 + (i - l - 1)
    BY <1>1, <1>5
  <2> QED BY <2>1
<1>10. Assistants(d) = Assistants(c) \cup {l + 1}
  <2>1. ASSUME NEW i \in Assistants(d) PROVE i \in Assistants(c) \cup {l + 1}
    <3>1. i \in 1 .. Len(d) /\ d[i].kind = "assistant"
      BY DEF Assistants
    <3>2. CASE i \in 1 .. l
      BY <3>1, <3>2, <1>5 DEF Assistants, l
    <3>3. ASSUME NEW k \in 1 .. n, i = l + 1 + k PROVE FALSE
      BY <3>1, <3>3, <1>3, <1>6
    <3> QED BY <1>9, <3>1, <3>2, <3>3
  <2>2. ASSUME NEW i \in Assistants(c) PROVE i \in Assistants(d)
    <3>1. i \in 1 .. l /\ c[i].kind = "assistant"
      BY DEF Assistants, l
    <3> QED BY <1>1, <1>5, <3>1 DEF Assistants
  <2>3. l + 1 \in Assistants(d)
    BY <1>1, <1>2, <1>5 DEF Assistants
  <2> QED BY <2>1, <2>2, <2>3
<1>11. Answered(d)
  <2> SUFFICES ASSUME NEW i \in Assistants(d)
               PROVE  /\ i + d[i].call <= Len(d)
                      /\ \A x \in 1 .. d[i].call : d[i + x] = Message("result", d[i].turn, x, {})
    BY DEF Answered
  <2>1. CASE i = l + 1
    BY <1>1, <1>2, <1>5, <1>6, <2>1
  <2>2. CASE i \in Assistants(c)
    <3>1. i \in 1 .. l /\ d[i] = c[i] /\ c[i].call \in Nat
      BY <1>5, <1>7, <2>2 DEF Assistants, l
    <3>2. /\ i + c[i].call <= l
          /\ \A x \in 1 .. c[i].call : c[i + x] = Message("result", c[i].turn, x, {})
      BY <2>2, PairedParts DEF Good, Answered, l
    <3> QED BY <1>1, <1>5, <3>1, <3>2
  <2> QED BY <1>10, <2>1, <2>2
<1>12. Covered(d)
  <2> SUFFICES ASSUME NEW i \in 1 .. Len(d), IsResult(d, i)
               PROVE  \E j \in Assistants(d) : j < i /\ i <= j + d[j].call
    BY DEF Covered
  <2>1. CASE i \in 1 .. l
    <3>1. IsResult(c, i)
      BY <1>5, <2>1 DEF IsResult, l
    <3>2. PICK j \in Assistants(c) : j < i /\ i <= j + c[j].call
      BY <2>1, <3>1, PairedParts DEF Good, Covered, l
    <3> QED BY <1>5, <1>10, <3>2 DEF Assistants, l
  <2>2. CASE i = l + 1
    BY <1>2, <1>5, <2>2 DEF IsResult
  <2>3. ASSUME NEW k \in 1 .. n, i = l + 1 + k
        PROVE  l + 1 < i /\ i <= (l + 1) + d[l + 1].call
    BY <1>1, <1>2, <1>5, <2>3
  <2> QED BY <1>9, <1>10, <2>1, <2>2, <2>3
<1>13. Reminders(d) = Reminders(c)
  <2>1. ASSUME NEW i \in Reminders(d) PROVE i \in Reminders(c)
    <3>1. i \in 1 .. Len(d) /\ d[i].kind = "todos"
      BY DEF Reminders
    <3>2. CASE i \in 1 .. l
      BY <3>1, <3>2, <1>5 DEF Reminders, l
    <3>3. ASSUME NEW k \in 1 .. n, i = l + 1 + k PROVE FALSE
      BY <3>1, <3>3, <1>3, <1>6
    <3>4. CASE i = l + 1
      BY <3>1, <3>4, <1>2, <1>5
    <3> QED BY <1>9, <3>1, <3>2, <3>3, <3>4
  <2>2. ASSUME NEW i \in Reminders(c) PROVE i \in Reminders(d)
    <3>1. i \in 1 .. l /\ c[i].kind = "todos"
      BY DEF Reminders, l
    <3> QED BY <1>1, <1>5, <3>1 DEF Reminders
  <2> QED BY <2>1, <2>2
<1>14. Spaced(d)
  <2> SUFFICES ASSUME NEW i \in Reminders(c), NEW j \in Reminders(c),
                      i < j, d[i].todos = d[j].todos, d[i].todos \cap Escaped = {}
               PROVE  \E k \in 1 .. Len(d) :
                        /\ i < k /\ k < j
                        /\ \/ d[k].kind = "summary"
                           \/ k \in Reminders(d) /\ d[k].todos # d[i].todos
    BY <1>13 DEF Spaced
  <2>1. i \in 1 .. l /\ j \in 1 .. l /\ d[i] = c[i] /\ d[j] = c[j]
    BY <1>5 DEF Reminders, l
  <2>2. PICK k \in 1 .. l : /\ i < k /\ k < j
                           /\ \/ c[k].kind = "summary"
                              \/ k \in Reminders(c) /\ c[k].todos # c[i].todos
    BY <2>1 DEF Good, Spaced, l
  <2> QED BY <1>1, <1>5, <1>13, <2>1, <2>2
<1>15. Paired(d)
  BY <1>11, <1>12, PairedParts
<1> QED BY <1>5, <1>8, <1>14, <1>15 DEF Good

\* No group of calls and results begins at or before e and ends after it.
Uncut(c, e) == \A j \in Assistants(c) : ~(j <= e /\ e < j + c[j].call)

\* Compactor::compact: evicting from the first assistant message to a boundary
\* that cuts no group keeps the context good.
LEMMA GoodCut ==
    ASSUME NEW c, Good(c), Assistants(c) # {},
           NEW e \in FirstAssistant(c) .. Len(c), Uncut(c, e)
    PROVE  Good(SubSeq(c, 1, FirstAssistant(c) - 1)
                  \o <<Message("summary", 0, 0, {})>>
                  \o SubSeq(c, e + 1, Len(c)))
<1> DEFINE l == Len(c)
           a == FirstAssistant(c)
           m == Message("summary", 0, 0, {})
           p == SubSeq(c, 1, a - 1)
           q == SubSeq(c, e + 1, l)
           d == p \o <<m>> \o q
           s == e - a
<1>1. c \in Seq(Messages) /\ l \in Nat
  BY DEF Good
<1>2. a \in Assistants(c) /\ a \in 1 .. l /\ c[a].kind = "assistant"
      /\ \A j \in Assistants(c) : a <= j
  BY <1>1, FirstExists DEF Assistants
<1>3. m \in Messages /\ m.kind = "summary"
  BY LimitsAssumption, MessageType DEF Kinds
<1>4. e \in Nat /\ a <= e /\ e <= l /\ s \in Nat /\ a \in Nat /\ 1 <= a
  BY <1>1, <1>2
<1> HIDE DEF a, m
<1>5. p \in Seq(Messages) /\ Len(p) = a - 1 /\ \A i \in 1 .. a - 1 : p[i] = c[i]
  BY <1>1, <1>2, <1>4
<1>6. q \in Seq(Messages) /\ Len(q) = l - e /\ \A i \in 1 .. l - e : q[i] = c[e + i]
  BY <1>1, <1>2, <1>4
<1> HIDE DEF p, q, l
<1>7. /\ d \in Seq(Messages) /\ Len(d) = a + l - e
      /\ d[a] = m
      /\ \A i \in 1 .. a - 1 : d[i] = c[i]
      /\ \A i \in a + 1 .. a + l - e : d[i] = q[i - a]
  <2> DEFINE u == p \o <<m>>
  <2>1. /\ u \in Seq(Messages) /\ Len(u) = a /\ u[a] = m
        /\ \A i \in 1 .. a - 1 : u[i] = c[i]
    BY <1>3, <1>4, <1>5
  <2> HIDE DEF u
  <2>2. u \o q \in Seq(Messages) /\ Len(u \o q) = a + l - e
    <3>1. u \in Seq(Messages) /\ q \in Seq(Messages)
      BY <1>6, <2>1
    <3>2. u \o q \in Seq(Messages) /\ Len(u \o q) = Len(u) + Len(q)
      BY <3>1
    <3> QED BY <1>1, <1>4, <1>6, <2>1, <3>2
  <2>3. /\ \A i \in 1 .. a : (u \o q)[i] = u[i]
        /\ \A i \in a + 1 .. a + l - e : (u \o q)[i] = q[i - a]
    BY <1>1, <1>4, <1>6, <2>1
  <2>4. d = u \o q
    BY DEF u
  <2>5. a \in 1 .. a /\ \A i \in 1 .. a - 1 : i \in 1 .. a
    BY <1>4
  <2> QED BY <2>1, <2>2, <2>3, <2>4, <2>5
<1>8. s = e - a
  OBVIOUS
<1> HIDE DEF s, d
<1>9. ASSUME NEW i \in a + 1 .. a + l - e
      PROVE  d[i] = c[i + s] /\ i + s \in 1 .. l /\ e < i + s
  <2>1. i - a \in 1 .. l - e /\ e + (i - a) = i + s
    BY <1>1, <1>4, <1>8
  <2>2. d[i] = q[i - a]
    BY <1>7
  <2>3. q[i - a] = c[e + (i - a)]
    BY <1>6, <2>1
  <2>4. i + s \in 1 .. l /\ e < i + s
    BY <1>1, <1>4, <2>1
  <2> QED BY <2>1, <2>2, <2>3, <2>4
<1>10. \A i \in 1 .. l : c[i].call \in Nat
  BY <1>1, CallType DEF l
<1>11. ASSUME NEW i \in 1 .. Len(d)
       PROVE  \/ i \in 1 .. a - 1
              \/ i = a
              \/ i \in a + 1 .. a + l - e
  BY <1>1, <1>4, <1>7
<1>12. ASSUME NEW i \in Assistants(d)
       PROVE  i \in a + 1 .. a + l - e /\ i + s \in Assistants(c) /\ d[i] = c[i + s]
  <2>1. i \in 1 .. Len(d) /\ d[i].kind = "assistant"
    BY DEF Assistants
  <2>2. CASE i \in 1 .. a - 1
    <3>1. i \in Assistants(c) /\ i < a
      BY <1>1, <1>4, <1>2, <1>7, <2>1, <2>2 DEF Assistants, l
    <3> QED BY <1>2, <1>4, <2>2, <3>1
  <2>3. CASE i = a
    BY <1>3, <1>7, <2>1, <2>3
  <2>4. CASE i \in a + 1 .. a + l - e
    <3>1. d[i] = c[i + s] /\ i + s \in 1 .. l
      BY <1>9, <2>4
    <3> QED BY <2>1, <2>4, <3>1 DEF Assistants, l
  <2> QED BY <1>11, <2>1, <2>2, <2>3, <2>4
<1>13. Answered(d)
  <2> SUFFICES ASSUME NEW i \in Assistants(d)
               PROVE  /\ i + d[i].call <= Len(d)
                      /\ \A n \in 1 .. d[i].call : d[i + n] = Message("result", d[i].turn, n, {})
    BY DEF Answered
  <2>1. i \in a + 1 .. a + l - e /\ i + s \in Assistants(c) /\ d[i] = c[i + s]
    BY <1>12
  <2>2. i + s \in 1 .. l /\ e < i + s /\ c[i + s].call \in Nat
    BY <1>9, <1>10, <2>1
  <2>3. /\ i + s + c[i + s].call <= l
        /\ \A n \in 1 .. c[i + s].call : c[i + s + n] = Message("result", c[i + s].turn, n, {})
    BY <2>1, PairedParts DEF Good, Answered, l
  <2>4. i + c[i + s].call <= Len(d)
    BY <1>1, <1>4, <1>7, <1>8, <2>1, <2>2, <2>3
  <2>5. ASSUME NEW n \in 1 .. c[i + s].call
        PROVE  d[i + n] = c[i + s + n]
    <3>1. i + n \in a + 1 .. a + l - e
      <4>1. i \in Int /\ a + 1 <= i /\ n \in Int /\ 1 <= n
        BY <1>1, <1>4, <2>1, <2>2
      <4>2. n <= c[i + s].call /\ i + c[i + s].call <= a + l - e /\ c[i + s].call \in Int
        BY <1>7, <2>2, <2>4
      <4>3. a \in Int /\ l \in Int /\ e \in Int
        BY <1>1, <1>4
      <4> QED BY <4>1, <4>2, <4>3
    <3>2. i + n + s = i + s + n
      BY <1>4, <1>8, <2>1
    <3> QED BY <1>9, <3>1, <3>2
  <2> QED BY <2>1, <2>3, <2>4, <2>5
<1>14. Covered(d)
  <2> SUFFICES ASSUME NEW i \in 1 .. Len(d), IsResult(d, i)
               PROVE  \E j \in Assistants(d) : j < i /\ i <= j + d[j].call
    BY DEF Covered
  <2>1. CASE i \in 1 .. a - 1
    <3>1. IsResult(c, i) /\ i \in 1 .. l /\ i < a
      BY <1>1, <1>2, <1>4, <1>7, <2>1 DEF IsResult, l
    <3>2. PICK j \in Assistants(c) : j < i /\ i <= j + c[j].call
      BY <3>1, PairedParts DEF Good, Covered, l
    <3>3. a <= j /\ j \in Nat
      BY <1>2, <3>2 DEF Assistants
    <3> QED BY <1>4, <2>1, <3>1, <3>2, <3>3
  <2>2. CASE i = a
    BY <1>3, <1>7, <2>2 DEF IsResult
  <2>3. CASE i \in a + 1 .. a + l - e
    <3>1. d[i] = c[i + s] /\ i + s \in 1 .. l /\ e < i + s
      BY <1>9, <2>3
    <3>2. IsResult(c, i + s)
      BY <3>1 DEF IsResult, l
    <3>3. PICK j \in Assistants(c) : j < i + s /\ i + s <= j + c[j].call
      BY <3>1, <3>2, PairedParts DEF Good, Covered, l
    <3>4. j \in 1 .. l /\ c[j].call \in Nat /\ c[j].kind = "assistant"
      BY <1>10 DEF Assistants, l
    <3>5. ~(j <= e /\ e < j + c[j].call)
      BY DEF Uncut
    <3>6. e < j
      BY <1>4, <3>1, <3>3, <3>4, <3>5
    <3>7. j - s \in a + 1 .. a + l - e /\ j - s + s = j
      <4>1. j \in Int /\ e < j /\ j <= l
        BY <3>4, <3>6
      <4>2. a \in Int /\ e \in Int /\ l \in Int /\ s = e - a
        BY <1>1, <1>4, <1>8
      <4> QED BY <4>1, <4>2
    <3>8. d[j - s] = c[j]
      BY <1>9, <3>7
    <3>9. j - s \in Assistants(d)
      <4>1. j - s \in 1 .. Len(d)
        BY <1>1, <1>4, <1>7, <3>7
      <4> QED BY <3>4, <3>8, <4>1 DEF Assistants
    <3>10. j - s < i /\ i <= j - s + d[j - s].call
      <4>1. j - s < i /\ i <= j - s + c[j].call
        BY <1>4, <1>8, <2>3, <3>3, <3>4
      <4> QED BY <3>8, <4>1
    <3> QED BY <3>9, <3>10
  <2> QED BY <1>11, <2>1, <2>2, <2>3
<1>15. ASSUME NEW i \in Reminders(d)
       PROVE  \/ i \in 1 .. a - 1 /\ i \in Reminders(c) /\ d[i] = c[i]
              \/ i \in a + 1 .. a + l - e /\ i + s \in Reminders(c) /\ d[i] = c[i + s]
  <2>1. i \in 1 .. Len(d) /\ d[i].kind = "todos"
    BY DEF Reminders
  <2>2. CASE i \in 1 .. a - 1
    <3>1. i \in 1 .. l /\ d[i] = c[i]
      BY <1>1, <1>2, <1>4, <1>7, <2>2
    <3> QED BY <2>1, <2>2, <3>1 DEF Reminders, l
  <2>3. CASE i = a
    BY <1>3, <1>7, <2>1, <2>3
  <2>4. CASE i \in a + 1 .. a + l - e
    <3>1. d[i] = c[i + s] /\ i + s \in 1 .. l
      BY <1>9, <2>4
    <3> QED BY <2>1, <2>4, <3>1 DEF Reminders, l
  <2> QED BY <1>11, <2>1, <2>2, <2>3, <2>4
<1>16. Spaced(d)
  <2> DEFINE Between(i, j, k) ==
               /\ i < k /\ k < j
               /\ \/ d[k].kind = "summary"
                  \/ k \in Reminders(d) /\ d[k].todos # d[i].todos
  <2> SUFFICES ASSUME NEW i \in Reminders(d), NEW j \in Reminders(d),
                      i < j, d[i].todos = d[j].todos, d[i].todos \cap Escaped = {}
               PROVE  \E k \in 1 .. Len(d) : Between(i, j, k)
    BY DEF Spaced
  <2>1. i \in 1 .. Len(d) /\ j \in 1 .. Len(d)
    BY DEF Reminders
  <2>2. CASE i \in 1 .. a - 1 /\ j \in a + 1 .. a + l - e
    <3>1. a \in 1 .. Len(d) /\ i < a /\ a < j
      BY <1>1, <1>4, <1>7, <2>2
    <3> QED BY <1>3, <1>7, <3>1
  <2>3. CASE j \in 1 .. a - 1
    <3>1. i \in 1 .. a - 1
      BY <1>4, <1>7, <2>1, <2>3
    <3>2. i \in Reminders(c) /\ j \in Reminders(c) /\ d[i] = c[i] /\ d[j] = c[j]
      BY <1>15, <1>4, <2>3, <3>1
    <3>3. PICK k \in 1 .. l : /\ i < k /\ k < j
                             /\ \/ c[k].kind = "summary"
                                \/ k \in Reminders(c) /\ c[k].todos # c[i].todos
      BY <3>2 DEF Good, Spaced, l
    <3>4. k \in 1 .. a - 1 /\ k \in 1 .. Len(d) /\ d[k] = c[k]
      BY <1>1, <1>4, <1>7, <2>3, <3>3
    <3>5. k \in Reminders(c) => k \in Reminders(d)
      BY <3>4 DEF Reminders
    <3> QED BY <3>2, <3>3, <3>4, <3>5
  <2>4. CASE i \in a + 1 .. a + l - e
    <3>1. j \in a + 1 .. a + l - e
      BY <1>1, <1>4, <1>7, <2>1, <2>4
    <3>2. i + s \in Reminders(c) /\ j + s \in Reminders(c) /\ d[i] = c[i + s] /\ d[j] = c[j + s]
      BY <1>15, <1>4, <2>4, <3>1
    <3>3. i + s < j + s
      BY <1>4, <2>1
    <3>4. PICK k \in 1 .. l : /\ i + s < k /\ k < j + s
                             /\ \/ c[k].kind = "summary"
                                \/ k \in Reminders(c) /\ c[k].todos # c[i + s].todos
      BY <3>2, <3>3 DEF Good, Spaced, l
    <3>5. /\ k - s \in a + 1 .. a + l - e /\ k - s + s = k /\ k - s \in 1 .. Len(d)
          /\ i < k - s /\ k - s < j
      <4>1. /\ Len(d) = a + l - e /\ a \in Nat /\ e \in Nat /\ s \in Nat /\ l \in Nat
            /\ a >= 1 /\ k \in Nat /\ i \in Nat /\ j \in Nat /\ i > a /\ j <= a + l - e
        BY <1>1, <1>4, <1>7, <2>4, <3>1
      <4>0. i + s < k /\ k < j + s
        BY <3>4
      <4>2. i < k - s /\ k - s < j /\ k - s \in Int /\ k - s + s = k
        <5>1. i \in Int /\ j \in Int /\ k \in Int /\ s \in Int
          BY <4>1
        <5> QED BY <4>0, <5>1
      <4> DEFINE x == k - s
      <4>3. x \in Int /\ x + s = k /\ i < x /\ x < j
        BY <4>2
      <4> HIDE DEF x
      <4>4. x \in a + 1 .. a + l - e
        BY <4>1, <4>3
      <4>5. x \in 1 .. Len(d)
        BY <4>1, <4>3
      <4> QED BY <4>3, <4>4, <4>5 DEF x
    <3>6. d[k - s] = c[k]
      BY <1>9, <3>5
    <3>7. k \in Reminders(c) => k - s \in Reminders(d)
      BY <3>5, <3>6 DEF Reminders
    <3>8. Between(i, j, k - s)
      BY <3>2, <3>4, <3>5, <3>6, <3>7
    <3> QED BY <3>5, <3>8
  <2> QED
    <3>1. i \in 1 .. a - 1 \/ i \in a + 1 .. a + l - e
      BY <1>15
    <3>2. j \in 1 .. a - 1 \/ j \in a + 1 .. a + l - e
      BY <1>15
    <3> HIDE DEF Between
    <3> QED BY <2>2, <2>3, <2>4, <3>1, <3>2
<1>17. Paired(d)
  BY <1>13, <1>14, PairedParts
<1>18. Good(d)
  BY <1>7, <1>16, <1>17 DEF Good
<1> QED BY <1>18 DEF d, p, q, a, l, m

\* The message after an assistant's, up to the number of its calls, is a result.
LEMMA InGroup ==
    ASSUME NEW c, Good(c), NEW j \in Assistants(c), NEW i \in Nat,
           j < i, i <= j + c[j].call
    PROVE  i \in 1 .. Len(c) /\ c[i].kind = "result" /\ IsResult(c, i)
           /\ i \notin Assistants(c)
<1>1. c \in Seq(Messages) /\ Len(c) \in Nat /\ j \in 1 .. Len(c)
  BY DEF Good, Assistants
<1>2. c[j].call \in Nat /\ c[j].call <= MaxCalls /\ c[j].turn \in 0 .. MaxAnswers
  BY <1>1, CallType
<1>3. /\ j + c[j].call <= Len(c)
      /\ \A n \in 1 .. c[j].call : c[j + n] = Message("result", c[j].turn, n, {})
  BY PairedParts DEF Good, Answered
<1>4. i - j \in 1 .. c[j].call /\ j + (i - j) = i
  BY <1>1, <1>2
<1>5. c[i] = Message("result", c[j].turn, i - j, {})
  BY <1>3, <1>4
<1>6. c[i].kind = "result"
  BY <1>5 DEF Message
<1> QED BY <1>1, <1>2, <1>3, <1>6 DEF IsResult, Assistants

\* find_sequence_preserving_last_n: the boundary is pulled back so that it cuts no group.
LEMMA EvictionUncut ==
    ASSUME NEW c, Good(c), NEW x \in 1 .. Len(c)
    PROVE  EvictionEnd(c, x) \in Int /\ EvictionEnd(c, x) <= Len(c)
           /\ Uncut(c, EvictionEnd(c, x))
<1>1. c \in Seq(Messages) /\ Len(c) \in Nat /\ x \in Nat
  BY DEF Good
<1>2. ASSUME NEW j \in Assistants(c)
      PROVE  j \in 1 .. Len(c) /\ c[j].call \in Nat /\ c[j].kind = "assistant"
  BY <1>1, CallType DEF Assistants
<1>3. CASE x \in CalledTools(c)
  <2>1. EvictionEnd(c, x) = x - 1
    BY <1>3 DEF EvictionEnd
  <2>2. x \in Assistants(c)
    BY <1>3 DEF CalledTools, Assistants
  <2>3. ASSUME NEW j \in Assistants(c), j <= x - 1, x - 1 < j + c[j].call PROVE FALSE
    <3>1. j < x /\ x <= j + c[j].call
      BY <1>1, <1>2, <2>3
    <3> QED BY <1>1, <2>2, <3>1, InGroup
  <2> QED BY <1>1, <2>1, <2>3 DEF Uncut
<1>4. CASE x \notin CalledTools(c) /\ IsResult(c, x) /\ IsResult(c, x + 1)
  <2>1. EvictionEnd(c, x) = LastBefore(c, x) - 1
    BY <1>4 DEF EvictionEnd
  <2>2. PICK j \in Assistants(c) : j < x /\ x <= j + c[j].call
    BY <1>4, PairedParts DEF Good, Covered
  <2>3. j \in 1 .. x /\ ~IsResult(c, j) /\ \A i \in j + 1 .. x : IsResult(c, i)
    <3>1. j \in 1 .. x /\ ~IsResult(c, j)
      BY <1>1, <1>2, <2>2 DEF IsResult
    <3>2. ASSUME NEW i \in j + 1 .. x PROVE IsResult(c, i)
      <4>1. i \in Nat /\ j < i /\ i <= j + c[j].call
        BY <1>1, <1>2, <2>2
      <4> QED BY <4>1, InGroup
    <3> QED BY <3>1, <3>2
  <2>4. PICK b \in 1 .. x : b = LastBefore(c, x) /\ ~IsResult(c, b)
                           /\ \A i \in b + 1 .. x : IsResult(c, i)
    BY <2>3 DEF LastBefore
  <2>5. b = j
    <3>1. ~(b < j)
      BY <1>1, <2>3, <2>4
    <3>2. ~(j < b)
      BY <1>1, <2>3, <2>4
    <3> QED BY <2>3, <2>4, <3>1, <3>2
  <2>6. ASSUME NEW i \in Assistants(c), i <= j - 1, j - 1 < i + c[i].call PROVE FALSE
    <3>1. j \in Nat /\ i < j /\ j <= i + c[i].call
      BY <1>2, <2>6
    <3> QED BY <3>1, InGroup
  <2>7. EvictionEnd(c, x) = j - 1 /\ j \in Nat /\ j <= Len(c)
    BY <1>2, <2>1, <2>4, <2>5
  <2> QED BY <1>1, <2>6, <2>7 DEF Uncut
<1>5. CASE x \notin CalledTools(c) /\ ~(IsResult(c, x) /\ IsResult(c, x + 1))
  <2>1. EvictionEnd(c, x) = x
    BY <1>5 DEF EvictionEnd
  <2>2. ASSUME NEW j \in Assistants(c), j <= x, x < j + c[j].call PROVE FALSE
    <3>1. CASE j = x
      <4>1. c[x].call > 0 /\ c[x].kind = "assistant"
        BY <1>1, <1>2, <2>2, <3>1
      <4> QED BY <1>5, <4>1 DEF CalledTools
    <3>2. CASE j < x
      <4>1. IsResult(c, x)
        <5>1. x <= j + c[j].call
          BY <1>1, <1>2, <2>2
        <5> QED BY <1>1, <3>2, <5>1, InGroup
      <4>2. IsResult(c, x + 1)
        <5>1. x + 1 \in Nat /\ j < x + 1 /\ x + 1 <= j + c[j].call
          BY <1>1, <1>2, <2>2
        <5> QED BY <5>1, InGroup
      <4> QED BY <1>5, <4>1, <4>2
    <3> QED BY <1>1, <1>2, <2>2, <3>1, <3>2
  <2> QED BY <1>1, <2>1, <2>2 DEF Uncut
<1> QED BY <1>3, <1>4, <1>5

\* Whatever the retention window, compaction keeps the context good.
LEMMA GoodCompaction ==
    ASSUME NEW c, Good(c), NEW d \in Compactions(c)
    PROVE  Good(d)
<1>1. Assistants(c) # {}
  BY DEF Compactions
<1>2. c \in Seq(Messages) /\ Len(c) \in Nat
  BY DEF Good
<1>3. FirstAssistant(c) \in 1 .. Len(c)
  BY <1>1, <1>2, FirstExists DEF Assistants
<1>4. PICK retained \in 0 .. Len(c) - FirstAssistant(c) :
        LET e == EvictionEnd(c, Len(c) - retained)
        IN  /\ e >= FirstAssistant(c)
            /\ d = SubSeq(c, 1, FirstAssistant(c) - 1)
                     \o <<Message("summary", 0, 0, {})>>
                     \o SubSeq(c, e + 1, Len(c))
  BY <1>1 DEF Compactions
<1>5. Len(c) - retained \in 1 .. Len(c)
  BY <1>2, <1>3
<1> DEFINE e == EvictionEnd(c, Len(c) - retained)
<1>6. e \in Int /\ e <= Len(c) /\ Uncut(c, e)
  BY <1>5, EvictionUncut
<1>7. e >= FirstAssistant(c)
  BY <1>4
<1>8. d = SubSeq(c, 1, FirstAssistant(c) - 1)
            \o <<Message("summary", 0, 0, {})>>
            \o SubSeq(c, e + 1, Len(c))
  BY <1>4
<1> HIDE DEF e
<1>9. e \in FirstAssistant(c) .. Len(c)
  BY <1>2, <1>3, <1>6, <1>7
<1> QED BY <1>1, <1>6, <1>8, <1>9, GoodCut

-----------------------------------------------------------------------------
(* The turn.  Every copy of the conversation is well formed: the local     *)
(* context, self.conversation, what is stored and what the drop guard      *)
(* holds.                                                                  *)

Kept(v) == v \in Conversations /\ Good(v.context)

Contexts ==
    /\ Good(context) /\ Kept(conversation) /\ Good(stored) /\ Good(guard.context)
    /\ guard \in [dirty : BOOLEAN, context : Seq(Messages)]
    /\ metrics \in SUBSET Todos

Locations ==
    {"start", "top", "request", "chat", "respond", "tasks", "tools", "header", "call",
     "check", "end", "ended", "complete", "exit", "saved", "cancelled", "flushTop",
     "flushAppend", "flushEnd", "flushFinal"}

\* A response is being worked on: it is answered and not counted yet.
Uncounted == {"respond", "tasks", "tools", "header", "call", "flushAppend", "check"}

Bound(p) == IF p \in {"flushAppend", "check"} THEN requests + 1 ELSE requests

Counts ==
    /\ pc \in Locations
    /\ answers \in 0 .. MaxAnswers /\ requests \in 0 .. answers
    /\ errors \in [Tools -> 0 .. answers]
    /\ pc \in Uncounted => requests < answers
    /\ pc \notin {"exit", "saved", "cancelled"} => \A t \in Tools : errors[t] <= Bound(pc)

Calls ==
    /\ calls \in Seq(Tools) /\ Len(calls) <= MaxCalls
    /\ results \in [1 .. Len(calls) -> {"none", "ok", "error"}]

Flags ==
    /\ dirty \in BOOLEAN /\ shouldYield \in BOOLEAN /\ isComplete \in BOOLEAN
    /\ header \in {"none", "sent", "shown"}
    /\ interrupted \in BOOLEAN /\ completed \in BOOLEAN

TurnInv == Contexts /\ Counts /\ Calls /\ Flags

LEMMA KeptUpdate ==
    ASSUME NEW v, Kept(v), NEW c, Good(c), NEW S \in SUBSET Todos
    PROVE  Kept([v EXCEPT !.context = c]) /\ Kept([v EXCEPT !.todos = S])
BY DEF Kept, Conversations, Good

LEMMA GoodInit == Good(<<>>) /\ Good(<<Message("user", 0, 0, {})>>)
<1> DEFINE m == Message("user", 0, 0, {})
<1>1. m \in Messages /\ m.kind = "user"
  BY LimitsAssumption, MessageType DEF Kinds
<1> HIDE DEF m
<1>2. Good(<<>>)
  BY DEF Good, Paired, Spaced, Assistants, Reminders, IsResult
<1>3. /\ <<m>> \in Seq(Messages) /\ Len(<<m>>) = 1 /\ <<m>>[1] = m
  BY <1>1
<1>4. Assistants(<<m>>) = {} /\ Reminders(<<m>>) = {}
  BY <1>1, <1>3 DEF Assistants, Reminders
<1>5. \A i \in 1 .. Len(<<m>>) : ~IsResult(<<m>>, i)
  BY <1>1, <1>3 DEF IsResult
<1> QED BY <1>2, <1>3, <1>4, <1>5 DEF Good, Paired, Spaced, m

LEMMA TurnInit == Init => TurnInv
<1> SUFFICES ASSUME Init PROVE TurnInv
  OBVIOUS
<1>1. Contexts
  <2>1. conversation = [context |-> context, todos |-> {}] /\ metrics = {}
        /\ context = <<Message("user", 0, 0, {})>> /\ stored = <<>>
        /\ guard = [dirty |-> FALSE, context |-> context]
    BY DEF Init
  <2>2. Good(context) /\ Good(stored) /\ context \in Seq(Messages)
    BY <2>1, GoodInit DEF Good
  <2>3. Kept(conversation)
    BY <2>1, <2>2 DEF Kept, Conversations
  <2>4. Good(guard.context) /\ guard \in [dirty : BOOLEAN, context : Seq(Messages)]
    BY <2>1, <2>2
  <2> QED BY <2>1, <2>2, <2>3, <2>4 DEF Contexts
<1>2. Counts
  BY LimitsAssumption DEF Init, Counts, Locations, Uncounted, Bound
<1>3. Calls
  BY LimitsAssumption DEF Init, Calls
<1>4. Flags
  BY DEF Init, Flags
<1> QED BY <1>1, <1>2, <1>3, <1>4 DEF TurnInv

LEMMA ContextsNext == TurnInv /\ [Next]_vars => Contexts'
<1> SUFFICES ASSUME TurnInv, [Next]_vars PROVE Contexts'
  OBVIOUS
<1>c. /\ Good(context) /\ Kept(conversation) /\ Good(stored) /\ Good(guard.context)
      /\ guard \in [dirty : BOOLEAN, context : Seq(Messages)]
      /\ metrics \in SUBSET Todos
  BY DEF TurnInv, Contexts
<1>g. ASSUME NEW c, Good(c), conversation' = [conversation EXCEPT !.context = c]
      PROVE  Kept(conversation')
  BY <1>c, <1>g, KeptUpdate
<1>u. CASE UNCHANGED <<context, conversation, stored, guard, metrics>>
  BY <1>c, <1>u DEF Contexts
<1>1. CASE Flush \/ SaveAfterRun \/ Cancel
  <2>1. stored' \in {stored, conversation.context, guard.context}
        /\ UNCHANGED <<context, conversation, guard, metrics>>
    BY <1>1 DEF Flush, UpdateFailed, SaveAfterRun, Cancel, tooling
  <2>2. Good(stored')
    BY <1>c, <2>1 DEF Kept
  <2> QED BY <1>c, <2>1, <2>2 DEF Contexts
<1>2. CASE Start
  <2>1. guard' = [dirty |-> dirty, context |-> conversation.context]
        /\ UNCHANGED <<context, conversation, stored, metrics>> /\ dirty \in BOOLEAN
    BY <1>2 DEF Start, tooling, TurnInv, Flags
  <2>2. guard'.context = conversation.context
        /\ guard' \in [dirty : BOOLEAN, context : Seq(Messages)]
    BY <1>c, <2>1 DEF Kept, Good
  <2>3. Good(guard'.context)
    BY <1>c, <2>2 DEF Kept
  <2> QED BY <1>c, <2>1, <2>2, <2>3 DEF Contexts
<1>3. CASE LoopTop
  <2>1. conversation' = [conversation EXCEPT !.context = context]
        /\ UNCHANGED <<context, stored, guard, metrics>>
    BY <1>3 DEF LoopTop, tooling
  <2>2. Kept(conversation')
    BY <1>c, <1>g, <2>1
  <2> QED BY <1>c, <2>1, <2>2 DEF Contexts
<1>4. CASE RequestHook
  <2>1. UNCHANGED <<context, stored, guard, metrics>>
    BY <1>4 DEF RequestHook, tooling
  <2> DEFINE m == Message("doom", answers, 0, {})
             d == Append(conversation.context, m)
  <2>2. \/ UNCHANGED conversation
        \/ conversation' = [conversation EXCEPT !.context = d]
    BY <1>4 DEF RequestHook
  <2>3. m \in Messages /\ m.kind = "doom"
    BY LimitsAssumption, MessageType DEF TurnInv, Counts, Kinds
  <2> HIDE DEF m
  <2>4. Good(d)
    BY <1>c, <2>3, GoodAppend DEF Kept
  <2> HIDE DEF d
  <2>5. Kept(conversation')
    BY <1>c, <1>g, <2>2, <2>4
  <2> QED BY <1>c, <2>1, <2>5 DEF Contexts
<1>5. CASE ResponseHook
  <2>1. UNCHANGED <<context, stored, guard, metrics>>
    BY <1>5 DEF ResponseHook, tooling
  <2>2. \/ UNCHANGED conversation
        \/ \E c \in Compactions(conversation.context) :
             conversation' = [conversation EXCEPT !.context = c]
    BY <1>5 DEF ResponseHook
  <2>3. ASSUME NEW c \in Compactions(conversation.context),
               conversation' = [conversation EXCEPT !.context = c]
        PROVE  Kept(conversation')
    <3>1. Good(c)
      BY <1>c, GoodCompaction DEF Kept
    <3> QED BY <1>g, <2>3, <3>1
  <2>4. Kept(conversation')
    BY <1>c, <2>2, <2>3
  <2> QED BY <1>c, <2>1, <2>4 DEF Contexts
<1>6. CASE RunTool
  <2>1. UNCHANGED <<context, stored, guard>>
    BY <1>6 DEF RunTool
  <2>2. metrics' \in SUBSET Todos
    BY <1>6, <1>c DEF RunTool
  <2> DEFINE m == Message("repair", answers, 0, {})
             d == Append(conversation.context, m)
  <2>3. \/ conversation' = conversation
        \/ conversation' = [conversation EXCEPT !.context = d]
    BY <1>6 DEF RunTool, Repaired
  <2>4. m \in Messages /\ m.kind = "repair"
    BY LimitsAssumption, MessageType DEF TurnInv, Counts, Kinds
  <2> HIDE DEF m
  <2>5. Good(d)
    BY <1>c, <2>4, GoodAppend DEF Kept
  <2> HIDE DEF d
  <2>6. Kept(conversation')
    BY <1>c, <1>g, <2>3, <2>5
  <2> QED BY <1>c, <2>1, <2>2, <2>6 DEF Contexts
<1>7. CASE AppendExchange
  <2>1. UNCHANGED <<stored, guard, metrics>>
    BY <1>7 DEF AppendExchange
  <2>2. context' = Appended(conversation.context)
        /\ conversation' = [conversation EXCEPT !.context = context']
    BY <1>7 DEF AppendExchange
  <2>3. Good(context')
    BY <1>c, <2>2, GoodExchange DEF Kept, TurnInv, Calls, Counts
  <2>4. Kept(conversation')
    BY <1>g, <2>2, <2>3
  <2> QED BY <1>c, <2>1, <2>3, <2>4 DEF Contexts
<1>8. CASE CheckLimits
  <2>1. conversation' = [conversation EXCEPT !.todos = metrics]
        /\ UNCHANGED <<context, stored, guard, metrics>>
    BY <1>8 DEF CheckLimits, tooling
  <2>2. Kept(conversation')
    BY <1>c, <2>1, KeptUpdate
  <2> QED BY <1>c, <2>1, <2>2 DEF Contexts
<1>9. CASE EndHook
  <2>1. UNCHANGED <<stored, guard, metrics>>
    BY <1>9 DEF EndHook, tooling
  <2>2. CASE UNCHANGED <<conversation, context>>
    BY <1>u, <2>1, <2>2
  <2>3. CASE ~UNCHANGED <<conversation, context>>
    <3> DEFINE m == Message("todos", answers, 0, conversation.todos)
               d == Append(conversation.context, m)
    <3>1. NeedsReminder(conversation)
          /\ conversation' = [conversation EXCEPT !.context = d]
          /\ context' = conversation'.context
      BY <1>9, <2>3 DEF EndHook
    <3>2. m \in Messages /\ m.kind = "todos" /\ m.todos = conversation.todos
      <4>1. conversation.todos \in SUBSET Todos /\ answers \in 0 .. MaxAnswers
        BY <1>c DEF Kept, Conversations, TurnInv, Counts
      <4> QED BY <4>1, LimitsAssumption, MessageType DEF Kinds
    <3>3. Reminders(conversation.context) # {} =>
            \/ conversation.context[LastReminder(conversation.context)].todos # conversation.todos
            \/ conversation.todos \cap Escaped # {}
      <4>1. Reminders(conversation.context) # {} =>
              ReadBack(conversation.context[LastReminder(conversation.context)].todos)
                # Texts(conversation.todos)
        BY <3>1 DEF NeedsReminder
      <4>2. ASSUME NEW S, S \cap Escaped = {} PROVE ReadBack(S) = Texts(S)
        <5>1. \A t \in S : (t \in Escaped) = FALSE
          BY <4>2
        <5>2. \A t \in S : [todo |-> t, changed |-> t \in Escaped] = [todo |-> t, changed |-> FALSE]
          BY <5>1
        <5> QED BY <5>2 DEF ReadBack, Texts
      <4> QED BY <4>1, <4>2
    <3> HIDE DEF m
    <3>4. Good(d)
      BY <1>c, <3>2, <3>3, GoodAppend DEF Kept
    <3> HIDE DEF d
    <3>5. context' = d
      BY <1>c, <3>1 DEF Kept, Conversations
    <3>6. Kept(conversation') /\ Good(context')
      BY <1>g, <3>1, <3>4, <3>5
    <3> QED BY <1>c, <2>1, <3>6 DEF Contexts
  <2> QED BY <2>2, <2>3
<1>10. CASE \/ ChatTurn \/ ChatFails \/ TasksJoined \/ BeginCall \/ Notified
            \/ Ended \/ Complete \/ ShowHeader \/ UNCHANGED vars
            \/ \E i \in DOMAIN calls : FinishTask(i)
  BY <1>u, <1>10 DEF ChatTurn, ChatFails, TasksJoined, BeginCall, Notified, Ended,
                     Complete, ShowHeader, FinishTask, vars, tooling
<1> QED
  BY <1>1, <1>2, <1>3, <1>4, <1>5, <1>6, <1>7, <1>8, <1>9, <1>10 DEF Next, TaskStep

LEMMA CallsNext == TurnInv /\ [Next]_vars => Calls'
<1> SUFFICES ASSUME TurnInv, [Next]_vars PROVE Calls'
  OBVIOUS
<1>c. /\ calls \in Seq(Tools) /\ Len(calls) <= MaxCalls /\ Len(calls) \in Nat
      /\ results \in [1 .. Len(calls) -> {"none", "ok", "error"}]
  BY DEF TurnInv, Calls
<1>u. CASE UNCHANGED <<calls, results>>
  BY <1>c, <1>u DEF Calls
<1>r. ASSUME NEW i, NEW r \in {"ok", "error"},
             results' = [results EXCEPT ![i] = r], UNCHANGED calls
      PROVE  Calls'
  BY <1>c, <1>r DEF Calls
<1>1. CASE ChatTurn
  <2>1. PICK r \in Responses : calls' = r.calls /\ results' = [i \in DOMAIN r.calls |-> "none"]
    BY <1>1 DEF ChatTurn
  <2>2. PICK n \in 0 .. MaxCalls : r.calls \in [1 .. n -> Tools]
    BY <2>1 DEF Responses
  <2>3. n \in Nat /\ n <= MaxCalls
    BY LimitsAssumption
  <2>4. calls' \in Seq(Tools) /\ Len(calls') = n /\ DOMAIN calls' = 1 .. n
    BY <2>1, <2>2, <2>3
  <2>5. results' \in [1 .. n -> {"none", "ok", "error"}]
    BY <2>1, <2>4
  <2> QED BY <2>3, <2>4, <2>5 DEF Calls
<1>2. CASE \E i \in DOMAIN calls : FinishTask(i)
  <2>1. PICK i \in DOMAIN calls : FinishTask(i)
    BY <1>2
  <2>2. PICK r \in {"ok", "error"} : results' = [results EXCEPT ![i] = r] /\ UNCHANGED calls
    BY <2>1 DEF FinishTask
  <2> QED BY <1>r, <2>2
<1>3. CASE RunTool
  <2>1. PICK r \in {"ok", "error"} :
          results' = [results EXCEPT ![NextCall] = r] /\ UNCHANGED calls
    BY <1>3 DEF RunTool
  <2> QED BY <1>r, <2>1
<1>4. CASE AppendExchange
  <2>1. calls' = <<>> /\ results' = <<>>
    BY <1>4 DEF AppendExchange
  <2> QED BY <2>1, LimitsAssumption DEF Calls
<1>5. CASE Start \/ LoopTop \/ Flush \/ RequestHook \/ ChatFails \/ ResponseHook \/ TasksJoined
  BY <1>u, <1>5 DEF Start, LoopTop, Flush, RequestHook, ChatFails, ResponseHook, TasksJoined,
                    tooling
<1>6. CASE BeginCall \/ Notified \/ CheckLimits \/ EndHook \/ Ended \/ Complete
           \/ SaveAfterRun \/ ShowHeader \/ Cancel \/ UNCHANGED vars
  BY <1>u, <1>6 DEF BeginCall, Notified, CheckLimits, EndHook, Ended, Complete, SaveAfterRun,
                    ShowHeader, Cancel, tooling, vars
<1> QED
  BY <1>1, <1>2, <1>3, <1>4, <1>5, <1>6 DEF Next, TaskStep

LEMMA FlagsNext == TurnInv /\ [Next]_vars => Flags'
<1> SUFFICES ASSUME TurnInv, [Next]_vars PROVE Flags'
  OBVIOUS
<1>c. /\ dirty \in BOOLEAN /\ shouldYield \in BOOLEAN /\ isComplete \in BOOLEAN
      /\ header \in {"none", "sent", "shown"}
      /\ interrupted \in BOOLEAN /\ completed \in BOOLEAN
  BY DEF TurnInv, Flags
<1>1. CASE ChatTurn
  <2>1. UNCHANGED <<dirty, header, interrupted, completed>>
    BY <1>1 DEF ChatTurn
  <2>2. isComplete' \in BOOLEAN /\ shouldYield' \in BOOLEAN
    BY <1>1 DEF ChatTurn
  <2> QED BY <1>c, <2>1, <2>2 DEF Flags
<1>2. CASE AppendExchange
  <2>1. UNCHANGED <<header, isComplete, completed>> /\ dirty' = TRUE
    BY <1>2 DEF AppendExchange, MarkDirty
  <2>2. interrupted' \in BOOLEAN /\ shouldYield' \in BOOLEAN
    BY <1>2 DEF AppendExchange, Yields
  <2> QED BY <1>c, <2>1, <2>2 DEF Flags
<1>3. CASE CheckLimits
  <2>1. UNCHANGED <<dirty, header, isComplete, completed>>
    BY <1>3 DEF CheckLimits, tooling
  <2>2. interrupted' \in BOOLEAN /\ shouldYield' \in BOOLEAN
    BY <1>3 DEF CheckLimits, Yields
  <2> QED BY <1>c, <2>1, <2>2 DEF Flags
<1>4. CASE EndHook
  <2>1. UNCHANGED <<header, isComplete, completed>>
    BY <1>4 DEF EndHook, tooling
  <2>2. dirty' \in {dirty, TRUE} /\ shouldYield' \in {shouldYield, FALSE}
        /\ interrupted' \in {interrupted, FALSE}
    BY <1>4 DEF EndHook, MarkDirty
  <2> QED BY <1>c, <2>1, <2>2 DEF Flags
<1>5. CASE Start \/ LoopTop \/ Flush \/ RequestHook \/ ChatFails \/ ResponseHook \/ TasksJoined
  <2>1. UNCHANGED <<shouldYield, isComplete, header, interrupted, completed>>
    BY <1>5 DEF Start, LoopTop, Flush, RequestHook, ChatFails, ResponseHook, TasksJoined,
                control, tooling
  <2>2. dirty' \in {dirty, TRUE, FALSE}
    BY <1>5 DEF Start, LoopTop, TopNext, MarkDirty, Flush, UpdateFailed, RequestHook,
                ChatFails, ResponseHook, TasksJoined
  <2> QED BY <1>c, <2>1, <2>2 DEF Flags
<1>6. CASE \/ BeginCall \/ Notified \/ RunTool \/ SaveAfterRun \/ ShowHeader \/ Cancel
           \/ UNCHANGED vars \/ \E i \in DOMAIN calls : FinishTask(i)
  <2>1. UNCHANGED <<dirty, shouldYield, isComplete, interrupted, completed>>
    BY <1>6 DEF BeginCall, Notified, RunTool, SaveAfterRun, ShowHeader, Cancel, FinishTask,
                control, vars
  <2>2. header' \in {header, "none", "sent", "shown"}
    BY <1>6 DEF BeginCall, Notified, RunTool, SaveAfterRun, ShowHeader, Cancel, FinishTask,
                tooling, vars
  <2> QED BY <1>c, <2>1, <2>2 DEF Flags
<1>7. CASE Ended
  <2>1. UNCHANGED <<shouldYield, isComplete, header, interrupted, completed>>
        /\ dirty' \in {dirty, TRUE}
    BY <1>7 DEF Ended, MarkDirty, control, tooling
  <2> QED BY <1>c, <2>1 DEF Flags
<1>8. CASE Complete
  <2>1. UNCHANGED <<dirty, shouldYield, isComplete, header, interrupted>>
        /\ completed' = isComplete
    BY <1>8 DEF Complete, tooling
  <2> QED BY <1>c, <2>1 DEF Flags
<1> QED
  BY <1>1, <1>2, <1>3, <1>4, <1>5, <1>6, <1>7, <1>8 DEF Next, TaskStep

LEMMA CountsNext == TurnInv /\ [Next]_vars => Counts'
<1> SUFFICES ASSUME TurnInv, [Next]_vars PROVE Counts'
  OBVIOUS
<1>c. /\ pc \in Locations
      /\ MaxAnswers \in Nat /\ answers \in Nat /\ answers <= MaxAnswers
      /\ requests \in Nat /\ requests <= answers
      /\ errors \in [Tools -> 0 .. answers]
      /\ pc \in Uncounted => requests < answers
      /\ pc \notin {"exit", "saved", "cancelled"} => \A t \in Tools : errors[t] <= Bound(pc)
  BY LimitsAssumption DEF TurnInv, Counts
<1>u. ASSUME UNCHANGED <<requests, answers, errors>>, pc' \in Locations,
             pc' \in Uncounted => pc \in Uncounted,
             pc' \in {"exit", "saved", "cancelled"} \/
               /\ pc \notin {"exit", "saved", "cancelled"}
               /\ pc \in {"flushAppend", "check"} <=> pc' \in {"flushAppend", "check"}
      PROVE  Counts'
  BY <1>c, <1>u DEF Counts, Bound
<1>1. CASE Flush
  <2>1. UNCHANGED <<requests, answers, errors>>
    BY <1>1 DEF Flush, control
  <2>2. \/ pc = "flushTop" /\ pc' = "request"
        \/ pc = "flushAppend" /\ pc' = "check"
        \/ pc = "flushEnd" /\ pc' = "ended"
        \/ pc = "flushFinal" /\ pc' = "complete"
        \/ pc \in {"flushTop", "flushAppend", "flushEnd", "flushFinal"} /\ pc' = "exit"
    BY <1>1 DEF Flush, UpdateFailed, FlushNext
  <2> QED BY <1>u, <2>1, <2>2 DEF Locations, Uncounted
<1>2. CASE ChatTurn
  <2>1. /\ pc = "chat" /\ pc' = "respond" /\ answers < MaxAnswers /\ answers' = answers + 1
        /\ UNCHANGED <<requests, errors>>
    BY <1>2 DEF ChatTurn
  <2>2. \A t \in Tools : errors[t] <= requests
    BY <1>c, <2>1 DEF Bound
  <2>3. errors \in [Tools -> 0 .. answers + 1]
    BY <1>c
  <2> QED BY <1>c, <2>1, <2>2, <2>3 DEF Counts, Locations, Uncounted, Bound
<1>3. CASE AppendExchange
  <2>1. /\ pc = "tools" /\ pc' = "flushAppend" /\ UNCHANGED <<requests, answers>>
        /\ errors' = Adjusted
    BY <1>3 DEF AppendExchange, MarkDirty
  <2>2. requests < answers /\ \A t \in Tools : errors[t] <= requests
    BY <1>c, <2>1 DEF Uncounted, Bound
  <2>3. ASSUME NEW t \in Tools
        PROVE  errors'[t] \in 0 .. requests + 1
    <3>1. errors[t] \in Nat /\ errors[t] <= requests
      BY <1>c, <2>2
    <3>2. errors'[t] \in {errors[t] + 1, 0, errors[t]}
      BY <2>1 DEF Adjusted
    <3> QED BY <1>c, <3>1, <3>2
  <2>4. \A t \in Tools : errors'[t] \in 0 .. answers /\ errors'[t] <= requests + 1
    BY <1>c, <2>2, <2>3
  <2>5. errors' \in [Tools -> 0 .. answers]
    BY <2>1, <2>4 DEF Adjusted
  <2> QED BY <1>c, <2>1, <2>2, <2>4, <2>5 DEF Counts, Locations, Uncounted, Bound
<1>4. CASE CheckLimits
  <2>1. /\ pc = "check" /\ pc' \in {"end", "top"} /\ UNCHANGED <<answers, errors>>
        /\ requests' = requests + 1
    BY <1>4 DEF CheckLimits, RequestCount
  <2>2. requests < answers /\ \A t \in Tools : errors[t] <= requests + 1
    BY <1>c, <2>1 DEF Uncounted, Bound
  <2> QED BY <1>c, <2>1, <2>2 DEF Counts, Locations, Uncounted, Bound
<1>5. CASE Start \/ LoopTop \/ RequestHook \/ ChatFails \/ ResponseHook \/ TasksJoined
  <2>1. UNCHANGED <<requests, answers, errors>>
    BY <1>5 DEF Start, LoopTop, RequestHook, ChatFails, ResponseHook, TasksJoined, control
  <2>2. \/ pc = "start" /\ pc' = "top"
        \/ pc = "top" /\ pc' = "flushTop"
        \/ pc = "request" /\ pc' \in {"chat", "exit"}
        \/ pc = "chat" /\ pc' = "exit"
        \/ pc = "respond" /\ pc' \in {"tasks", "exit"}
        \/ pc = "tasks" /\ pc' = "tools"
    BY <1>5 DEF Start, LoopTop, TopNext, MarkDirty, RequestHook, ChatFails, ResponseHook,
                TasksJoined
  <2> QED BY <1>u, <2>1, <2>2 DEF Locations, Uncounted
<1>6. CASE BeginCall \/ Notified \/ RunTool \/ EndHook \/ Ended \/ Complete
  <2>1. UNCHANGED <<requests, answers, errors>>
    BY <1>6 DEF BeginCall, Notified, RunTool, EndHook, Ended, Complete, control
  <2>2. \/ pc = "tools" /\ pc' \in {"header", "call"}
        \/ pc = "header" /\ pc' = "call"
        \/ pc = "call" /\ pc' = "tools"
        \/ pc = "end" /\ pc' \in {"flushEnd", "exit"}
        \/ pc = "ended" /\ pc' \in {"flushFinal", "top"}
        \/ pc = "complete" /\ pc' = "exit"
    BY <1>6 DEF BeginCall, Notified, RunTool, EndHook, Ended, Complete, MarkDirty
  <2> QED BY <1>u, <2>1, <2>2 DEF Locations, Uncounted
<1>7. CASE SaveAfterRun \/ Cancel
  <2>1. UNCHANGED <<requests, answers, errors>> /\ pc' \in {"saved", "cancelled"}
    BY <1>7 DEF SaveAfterRun, Cancel, control
  <2> QED BY <1>u, <2>1 DEF Locations, Uncounted
<1>8. CASE ShowHeader \/ UNCHANGED vars \/ \E i \in DOMAIN calls : FinishTask(i)
  <2>1. UNCHANGED <<requests, answers, errors, pc>>
    BY <1>8 DEF ShowHeader, vars, FinishTask, control
  <2> QED BY <1>c, <2>1 DEF Counts, Bound
<1> QED
  BY <1>1, <1>2, <1>3, <1>4, <1>5, <1>6, <1>7, <1>8 DEF Next, TaskStep

LEMMA TurnCorrect == Spec => []TurnInv
<1>1. TurnInv /\ [Next]_vars => TurnInv'
  BY ContextsNext, CountsNext, CallsNext, FlagsNext DEF TurnInv
<1> QED BY TurnInit, <1>1, PTL DEF Spec

\* The types of a turn's state; request_count never passes the number of
\* responses, and the error tracker counts a tool's failing responses at most
\* once each, whatever the loop, the hooks and cancellation do.
THEOREM TypeCorrect == Spec => []TypeOK
<1>1. TurnInv => TypeOK
  <2> SUFFICES ASSUME TurnInv PROVE TypeOK
    OBVIOUS
  <2>1. pc \in {"start", "top", "request", "chat", "respond", "tasks", "tools",
                "header", "call", "check", "end", "ended", "complete", "exit",
                "saved", "cancelled"} \cup DOMAIN FlushNext
    BY DEF TurnInv, Counts, Locations, FlushNext
  <2>2. context \in Seq(Messages) /\ conversation \in Conversations /\ stored \in Seq(Messages)
        /\ guard \in [dirty : BOOLEAN, context : Seq(Messages)]
        /\ metrics \in SUBSET Todos
    BY DEF TurnInv, Contexts, Kept, Good
  <2>3. answers \in 0 .. MaxAnswers /\ requests \in 0 .. answers
        /\ errors \in [Tools -> 0 .. answers]
    BY DEF TurnInv, Counts
  <2>4. DOMAIN results = DOMAIN calls
        /\ \A i \in DOMAIN calls : calls[i] \in Tools /\ results[i] \in {"none", "ok", "error"}
    BY DEF TurnInv, Calls
  <2>5. /\ dirty \in BOOLEAN /\ shouldYield \in BOOLEAN /\ isComplete \in BOOLEAN
        /\ header \in {"none", "sent", "shown"}
        /\ interrupted \in BOOLEAN /\ completed \in BOOLEAN
    BY DEF TurnInv, Flags
  <2> QED BY <2>1, <2>2, <2>3, <2>4, <2>5 DEF TypeOK
<1> QED BY TurnCorrect, <1>1, PTL

\* In what is sent and in what is stored, every tool call is followed by its
\* results in order and no result stands alone: append_message, the hooks that
\* inject messages and Compactor::compact, whatever the retention window, keep
\* every group whole.
THEOREM PairedCorrect == Spec => []PairedResults
<1>1. TurnInv => PairedResults
  BY DEF TurnInv, Contexts, Kept, Good, PairedResults
<1> QED BY TurnCorrect, <1>1, PTL

\* PendingTodosHandler does not repeat a reminder that reads back as it was
\* written, unless another list or a compaction came in between: for any such list,
\* the comparison with the last reminder, the hooks that append and the compactions
\* that evict keep the reminders of a context apart.  (A list with an item of
\* Escaped never reads back, and is repeated at every End.)
THEOREM RemindsCorrect == Spec => []RemindsOnce
<1>1. TurnInv => RemindsOnce
  BY DEF TurnInv, Contexts, Kept, Good, RemindsOnce
<1> QED BY TurnCorrect, <1>1, PTL
=============================================================================
