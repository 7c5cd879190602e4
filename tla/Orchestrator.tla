---------------------------- MODULE Orchestrator ----------------------------
(***************************************************************************)
(* One turn of the agent loop: Orchestrator::run (crates/forge_app/src/    *)
(* orch.rs) as the task that ForgeApp::chat spawns (app.rs), with the hooks*)
(* chat installs, the consumer of the response stream, and cancellation at *)
(* any await.                                                              *)
(*                                                                         *)
(* A context is a sequence of messages of which only the kind, the request *)
(* that produced it and the position of a call are kept.  The provider and *)
(* the tools answer arbitrarily; a retried request is one request.         *)
(***************************************************************************)
EXTENDS Integers, Sequences, FiniteSets

CONSTANTS
    Tools,         \* tools the model may call
    MaxCalls,      \* bound on the tool calls of one response
    MaxAnswers,    \* bound on the responses the provider gives in a turn
    MaxRequests,   \* max_requests_per_turn
    ErrorLimit,    \* max_tool_failure_per_turn
    Todos,         \* todo items
    Escaped,       \* those whose text a reminder changes: &, <, > or a line break
    VerifyTodos,   \* verify_todos: the pending-todos hook is installed
    Compacts       \* the compaction hook may shorten the context

ASSUME ToolsAssumption == Tools \subseteq {"task", "write", "todo", "agent", "followup"}
ASSUME LimitsAssumption ==
    MaxRequests \in Nat \ {0} /\ ErrorLimit \in Nat \ {0} /\ MaxCalls \in Nat /\ MaxAnswers \in Nat
ASSUME TodosAssumption == Escaped \subseteq Todos
ASSUME ModeAssumption == VerifyTodos \in BOOLEAN /\ Compacts \in BOOLEAN

\* Tools announced to the consumer before they run (tool_definitions).
SystemTools == {"write", "todo", "followup"}

VARIABLES
    pc,            \* where run is
    context,       \* run's local context
    conversation,  \* self.conversation: its context and its todo list
    stored,        \* the context as last persisted; the todo list is not
    dirty,         \* self.dirty
    guard,         \* the dirty flag and the context the drop guard holds
    requests,      \* request_count
    answers,       \* responses received so far
    calls,         \* tool calls of the current response
    results,       \* their results: "none", "ok" or "error"
    metrics,       \* the todo list shared with the tools
    errors,        \* ToolErrorTracker: consecutive failing responses per tool
    shouldYield, isComplete,
    header,        \* the tool header handshake: "none", "sent", "shown"
    interrupted,   \* an Interrupt was sent and no End hook has reopened the turn
    completed      \* TaskComplete was sent

control == <<requests, answers, errors, shouldYield, isComplete, interrupted, completed>>
tooling == <<calls, results, metrics, header>>
vars == <<pc, context, conversation, stored, dirty, guard, control, tooling>>

Message(k, t, n, S) == [kind |-> k, turn |-> t, call |-> n, todos |-> S]
Kinds == {"user", "assistant", "result", "repair", "doom", "todos", "summary"}

Init ==
    /\ pc = "start"
    /\ context = <<Message("user", 0, 0, {})>>
    /\ conversation = [context |-> context, todos |-> {}] /\ metrics = {}
    /\ stored = <<>>
    /\ dirty = FALSE
    /\ guard = [dirty |-> FALSE, context |-> context]
    /\ requests = 0 /\ answers = 0
    /\ calls = <<>> /\ results = <<>>
    /\ errors = [t \in Tools |-> 0]
    /\ shouldYield = FALSE /\ isComplete = FALSE
    /\ header = "none"
    /\ interrupted = FALSE /\ completed = FALSE

-----------------------------------------------------------------------------
(* Persistence.                                                            *)

Live == pc \notin {"exit", "saved", "cancelled"}

\* mark_dirty, with the step that changed the conversation; a flush follows.
MarkDirty(next) == dirty' = TRUE /\ pc' = next

FlushNext == [flushTop |-> "request", flushAppend |-> "check",
              flushEnd |-> "ended", flushFinal |-> "complete"]

\* flush_if_dirty: services.update succeeds, or its error ends the run.
UpdateFailed_Faulty == pc' = FlushNext[pc] /\ UNCHANGED <<stored, dirty>>
UpdateFailed        == pc' = "exit" /\ UNCHANGED <<stored, dirty>>

Flush ==
    /\ pc \in DOMAIN FlushNext
    /\ \/ stored' = conversation.context /\ dirty' = FALSE /\ pc' = FlushNext[pc]
       \/ UpdateFailed
    /\ UNCHANGED <<context, conversation, guard, control, tooling>>

\* ForgeApp::chat saves the conversation whatever run returned.
SaveAfterRun ==
    /\ pc = "exit"
    /\ \/ stored' = conversation.context
       \/ UNCHANGED stored
    /\ pc' = "saved"
    /\ UNCHANGED <<context, conversation, dirty, guard, control, tooling>>

\* The consumer drops the stream (Ctrl-C, or a parent agent at an Interrupt): the
\* task is aborted at an await and OrchestratorDropGuard::drop runs.
Cancel ==
    /\ pc \notin {"saved", "cancelled"}
    /\ stored' = IF Live /\ pc # "start" /\ guard.dirty THEN guard.context ELSE stored
    /\ pc' = "cancelled"
    /\ UNCHANGED <<context, conversation, dirty, guard, control, tooling>>

-----------------------------------------------------------------------------
(* A request.                                                              *)

\* The Start hooks touch no context; then the drop guard takes its snapshot.
Start ==
    /\ pc = "start"
    /\ guard' = [dirty |-> dirty, context |-> conversation.context]
    /\ pc' = "top"
    /\ UNCHANGED <<context, conversation, stored, dirty, control, tooling>>

\* The local context becomes the conversation's and is persisted.
TopNext_Faulty == pc' = "request" /\ dirty' = TRUE
TopNext        == MarkDirty("flushTop")

LoopTop ==
    /\ pc = "top"
    /\ conversation' = [conversation EXCEPT !.context = context]
    /\ TopNext
    /\ UNCHANGED <<context, stored, guard, control, tooling>>

CalledTools(c) == {i \in 1 .. Len(c) : c[i].kind = "assistant" /\ c[i].call > 0}

\* DoomLoopDetector may add a reminder, to self.conversation and not to the
\* local context of the request, once the history holds tool calls.
RequestHook ==
    /\ pc = "request"
    /\ \/ pc' = "chat" /\ UNCHANGED conversation
       \/ /\ CalledTools(conversation.context) # {}
          /\ conversation' = [conversation EXCEPT
                !.context = Append(@, Message("doom", answers, 0, {}))]
          /\ pc' = "chat"
       \/ pc' = "exit" /\ UNCHANGED conversation
    /\ UNCHANGED <<context, stored, dirty, guard, control, tooling>>

Responses == [calls : UNION {[1 .. n -> Tools] : n \in 0 .. MaxCalls},
              stop  : BOOLEAN]

\* The provider answers; is_complete and should_yield are set from the answer.
ChatTurn ==
    /\ pc = "chat"
    /\ answers < MaxAnswers
    /\ \E r \in Responses :
         /\ calls' = r.calls
         /\ results' = [i \in DOMAIN r.calls |-> "none"]
         /\ isComplete' = (r.stop /\ r.calls = <<>>)
         /\ shouldYield' = (isComplete' \/ \E i \in DOMAIN r.calls : r.calls[i] = "followup")
    /\ answers' = answers + 1
    /\ pc' = "respond"
    /\ UNCHANGED <<context, conversation, stored, dirty, guard, requests, errors,
                   interrupted, completed, metrics, header>>

\* The retries are exhausted or the error is final.
ChatFails ==
    /\ pc = "chat"
    /\ pc' = "exit"
    /\ UNCHANGED <<context, conversation, stored, dirty, guard, control, tooling>>

\* Compactor::compact: what is evicted runs from the first assistant message to
\* the start of the retention window (of arbitrary length here), pulled back so
\* that no call is separated from its results, and becomes one summary.
Assistants(c) == {i \in 1 .. Len(c) : c[i].kind = "assistant"}
FirstAssistant(c) == CHOOSE i \in Assistants(c) : \A j \in Assistants(c) : i <= j
IsResult(c, i) == i \in 1 .. Len(c) /\ c[i].kind = "result"
LastBefore(c, e) ==
    CHOOSE i \in 1 .. e : ~IsResult(c, i) /\ \A j \in i + 1 .. e : IsResult(c, j)

EvictionEnd_Faulty(c, e) == IF e \in CalledTools(c) THEN e - 1 ELSE e
EvictionEnd(c, e) ==
    IF e \in CalledTools(c) THEN e - 1
    ELSE IF IsResult(c, e) /\ IsResult(c, e + 1) THEN LastBefore(c, e) - 1
    ELSE e

Compactions(c) ==
    LET Ends == {EvictionEnd(c, Len(c) - retained) : retained \in 0 .. Len(c) - FirstAssistant(c)}
    IN  IF Assistants(c) = {} THEN {}
        ELSE {SubSeq(c, 1, FirstAssistant(c) - 1)
                \o <<Message("summary", 0, 0, {})>>
                \o SubSeq(c, e + 1, Len(c)) :
                e \in {x \in Ends : x >= FirstAssistant(c)}}

\* CompactionHandler works on self.conversation.
ResponseHook ==
    /\ pc = "respond"
    /\ \/ pc' = "tasks" /\ UNCHANGED conversation
       \/ /\ Compacts
          /\ \E c \in Compactions(conversation.context) :
               conversation' = [conversation EXCEPT !.context = c]
          /\ pc' = "tasks"
       \/ pc' = "exit" /\ UNCHANGED conversation
    /\ UNCHANGED <<context, stored, dirty, guard, control, tooling>>

-----------------------------------------------------------------------------
(* execute_tool_calls: tasks in parallel, then the others one by one.      *)

Pending(K) == {i \in DOMAIN calls : calls[i] \in K /\ results[i] = "none"}
NextCall   == CHOOSE i \in Pending(Tools) : \A j \in Pending(Tools) : i <= j

FinishTask(i) ==
    /\ pc = "tasks"
    /\ i \in Pending({"task"})
    /\ \E r \in {"ok", "error"} : results' = [results EXCEPT ![i] = r]
    /\ UNCHANGED <<pc, context, conversation, stored, dirty, guard, control, calls,
                   metrics, header>>

TasksJoined ==
    /\ pc = "tasks"
    /\ Pending({"task"}) = {}
    /\ pc' = "tools"
    /\ UNCHANGED <<context, conversation, stored, dirty, guard, control, tooling>>

\* ToolCallStart is sent for a system tool and its notifier awaited.
BeginCall ==
    /\ pc = "tools"
    /\ Pending(Tools) # {}
    /\ IF calls[NextCall] \in SystemTools THEN pc' = "header" /\ header' = "sent"
                                          ELSE pc' = "call" /\ UNCHANGED header
    /\ UNCHANGED <<context, conversation, stored, dirty, guard, control, calls,
                   results, metrics>>

\* The UI notifies whatever happens while it renders (NotifyGuard).
ShowHeader_Faulty ==
    /\ header = "sent" /\ calls[NextCall] # "write"
    /\ header' = "shown"
    /\ UNCHANGED <<pc, context, conversation, stored, dirty, guard, control, calls,
                   results, metrics>>

ShowHeader ==
    /\ header = "sent"
    /\ header' = "shown"
    /\ UNCHANGED <<pc, context, conversation, stored, dirty, guard, control, calls,
                   results, metrics>>

Notified ==
    /\ pc = "header"
    /\ header = "shown"
    /\ header' = "none"
    /\ pc' = "call"
    /\ UNCHANGED <<context, conversation, stored, dirty, guard, control, calls,
                   results, metrics>>

\* AutoRepairHook: a reminder after a successful file change.
Repaired(v, t, r) ==
    IF r = "ok" /\ t = "write"
    THEN [v EXCEPT !.context = Append(@, Message("repair", answers, 0, {}))]
    ELSE v

\* The tool runs, then the ToolcallEnd hooks on self.conversation.
RunTool ==
    /\ pc = "call"
    /\ \E r \in {"ok", "error"} :
         /\ results' = [results EXCEPT ![NextCall] = r]
         /\ conversation' = Repaired(conversation, calls[NextCall], r)
         /\ IF r = "ok" /\ calls[NextCall] = "todo" THEN metrics' \in SUBSET Todos
                                                   ELSE UNCHANGED metrics
    /\ pc' = "tools"
    /\ UNCHANGED <<context, stored, dirty, guard, control, calls, header>>

-----------------------------------------------------------------------------
(* The rest of the loop body.                                              *)

\* ToolErrorTracker::adjust_record
Outcome(t, r) == \E i \in DOMAIN calls : calls[i] = t /\ results[i] = r
Adjusted == [t \in Tools |-> IF Outcome(t, "error") THEN errors[t] + 1
                             ELSE IF Outcome(t, "ok") THEN 0 ELSE errors[t]]

\* Two predicates say what a task is: one splits the calls into the list that runs
\* in parallel and the other list, one merges the two lists of results again.  (They
\* ignore case in different ways, which no name in Tools tells apart.)
Split(i)  == calls[i] = "task"
Merged(i) == calls[i] = "task"

\* The n-th call of a list, whose result is the n-th of the list's results.
Nth(task, n) ==
    CHOOSE i \in DOMAIN calls :
        Split(i) = task /\ Cardinality({j \in 1 .. i : Split(j) = task}) = n

\* The merge walks through the calls and takes the next result of the one list or
\* of the other: ResultOrder[i] is the call whose result it puts in place i.
ResultOrder_Faulty ==
    LET tasks == {i \in DOMAIN calls : calls[i] = "task"}
        Place(i) == IF i \in tasks THEN i - Len(calls) ELSE i
    IN  [i \in DOMAIN calls |->
           CHOOSE j \in DOMAIN calls :
              Cardinality({k \in DOMAIN calls : Place(k) <= Place(j)}) = i]
ResultOrder ==
    [i \in DOMAIN calls |->
        Nth(Merged(i), Cardinality({j \in 1 .. i : Merged(j) = Merged(i)}))]

\* append_message: the assistant message with its calls, then their results.
Appended(c) ==
    Append(c, Message("assistant", answers, Len(calls), {}))
    \o [i \in DOMAIN calls |-> Message("result", answers, ResultOrder[i], {})]

\* The hooks' changes are picked up, the exchange is appended, and a tool at
\* its failure limit interrupts the turn.
LimitReached(e) == \E t \in Tools : e[t] >= ErrorLimit
Yields_Faulty(limit) == shouldYield
Yields(limit)        == shouldYield \/ limit

AppendExchange ==
    /\ pc = "tools"
    /\ Pending(Tools) = {}
    /\ errors' = Adjusted
    /\ context' = Appended(conversation.context)
    /\ conversation' = [conversation EXCEPT !.context = context']
    /\ shouldYield' = Yields(LimitReached(errors'))
    /\ interrupted' = (interrupted \/ LimitReached(errors'))
    /\ calls' = <<>> /\ results' = <<>>
    /\ MarkDirty("flushAppend")
    /\ UNCHANGED <<stored, guard, requests, answers, isComplete, completed, metrics,
                   header>>

\* request_count, the request limit, the metrics of the tools.
RequestCount_Faulty == requests + 2
RequestCount        == requests + 1

CheckLimits ==
    /\ pc = "check"
    /\ requests' = RequestCount
    /\ LET stop == ~shouldYield /\ requests' >= MaxRequests
       IN  /\ interrupted' = (interrupted \/ stop)
           /\ shouldYield' = Yields(stop)
    /\ conversation' = [conversation EXCEPT !.todos = metrics]
    /\ pc' = IF shouldYield' THEN "end" ELSE "top"
    /\ UNCHANGED <<context, stored, dirty, guard, answers, errors, isComplete,
                   completed, tooling>>

\* PendingTodosHandler: a reminder unless the last one lists the same todos.  It
\* compares the texts of the todos with those it finds on the lines of the reminder,
\* where they are HTML-escaped and end with their first line.
Reminders(c) == {i \in 1 .. Len(c) : c[i].kind = "todos"}
LastReminder(c) == CHOOSE i \in Reminders(c) : \A j \in Reminders(c) : j <= i
Texts(S)    == {[todo |-> t, changed |-> FALSE] : t \in S}
ReadBack(S) == {[todo |-> t, changed |-> t \in Escaped] : t \in S}
NeedsReminder_Faulty(v) == VerifyTodos /\ v.todos # {}
NeedsReminder(v) ==
    /\ VerifyTodos
    /\ v.todos # {}
    /\ Reminders(v.context) # {} =>
         ReadBack(v.context[LastReminder(v.context)].todos) # Texts(v.todos)

\* The End hooks; what they add is persisted and sends the loop round again.
EndHook ==
    /\ pc = "end"
    /\ \/ /\ IF NeedsReminder(conversation)
             THEN /\ conversation' = [conversation EXCEPT !.context =
                        Append(@, Message("todos", answers, 0, conversation.todos))]
                  /\ context' = conversation'.context
                  /\ shouldYield' = FALSE /\ interrupted' = FALSE
             ELSE UNCHANGED <<conversation, context, shouldYield, interrupted>>
          /\ MarkDirty("flushEnd")
       \/ /\ pc' = "exit"
          /\ UNCHANGED <<conversation, context, shouldYield, interrupted, dirty>>
    /\ UNCHANGED <<stored, guard, requests, answers, errors, isComplete, completed,
                   tooling>>

\* After the End flush: round again, or on to the final flush.
Ended ==
    /\ pc = "ended"
    /\ IF shouldYield THEN MarkDirty("flushFinal") ELSE pc' = "top" /\ UNCHANGED dirty
    /\ UNCHANGED <<context, conversation, stored, guard, control, tooling>>

\* TaskComplete is sent when the last response completed the task.
Complete ==
    /\ pc = "complete"
    /\ completed' = isComplete
    /\ pc' = "exit"
    /\ UNCHANGED <<context, conversation, stored, dirty, guard, requests, answers,
                   errors, shouldYield, isComplete, interrupted, tooling>>

-----------------------------------------------------------------------------
TaskStep ==
    \/ Start \/ LoopTop \/ Flush \/ RequestHook
    \/ ChatTurn \/ ResponseHook
    \/ \E i \in DOMAIN calls : FinishTask(i)
    \/ TasksJoined \/ BeginCall \/ Notified \/ RunTool
    \/ AppendExchange \/ CheckLimits \/ EndHook \/ Ended \/ Complete
    \/ SaveAfterRun

Next == TaskStep \/ ChatFails \/ ShowHeader \/ Cancel

Spec == Init /\ [][Next]_vars

\* The runtime runs the task, providers and tools answer, and the UI takes events
\* off the stream.  Nothing obliges a provider to fail: a turn that has used up
\* MaxAnswers may stay where it is.
FairSpec == Spec /\ WF_vars(TaskStep) /\ WF_vars(ShowHeader)

-----------------------------------------------------------------------------
(* Properties.                                                             *)

Messages == [kind : Kinds, turn : 0 .. MaxAnswers, call : 0 .. MaxCalls,
             todos : SUBSET Todos]
Conversations == [context : Seq(Messages), todos : SUBSET Todos]

\* Types; requests and consecutive failures are counted once per response.
TypeOK ==
    /\ pc \in {"start", "top", "request", "chat", "respond", "tasks", "tools",
               "header", "call", "check", "end", "ended", "complete", "exit",
               "saved", "cancelled"} \cup DOMAIN FlushNext
    /\ context \in Seq(Messages)
    /\ conversation \in Conversations
    /\ stored \in Seq(Messages)
    /\ dirty \in BOOLEAN
    /\ guard \in [dirty : BOOLEAN, context : Seq(Messages)]
    /\ answers \in 0 .. MaxAnswers /\ requests \in 0 .. answers
    /\ DOMAIN results = DOMAIN calls
    /\ \A i \in DOMAIN calls : calls[i] \in Tools /\ results[i] \in {"none", "ok", "error"}
    /\ metrics \in SUBSET Todos
    /\ errors \in [Tools -> 0 .. answers]
    /\ shouldYield \in BOOLEAN /\ isComplete \in BOOLEAN
    /\ header \in {"none", "sent", "shown"}
    /\ interrupted \in BOOLEAN /\ completed \in BOOLEAN

Paired(c) ==
    /\ \A i \in Assistants(c) :
         /\ i + c[i].call <= Len(c)
         /\ \A n \in 1 .. c[i].call : c[i + n] = Message("result", c[i].turn, n, {})
    /\ \A i \in 1 .. Len(c) : IsResult(c, i) =>
         \E j \in Assistants(c) : j < i /\ i <= j + c[j].call

\* Providers reject a tool call without its result and a result without its
\* call: whatever hooks inject and compaction evicts, every call is followed by
\* its results, in order, and no result stands alone, in what is sent to the
\* provider and in what is stored.
PairedResults == Paired(context) /\ Paired(stored)

\* Write-ahead: a request is only made with a context that is already stored.
SentIsStored == pc = "chat" => stored = context

\* The consumer learns of completion only when the whole context is stored, so it
\* may drop the stream at once.
CompletionStored == completed => stored = conversation.context

\* A turn interrupted by the request limit or the failure limit makes no
\* further request, unless an End hook has reopened it.
NoRequestAfterInterrupt == [][interrupted => ~ChatTurn]_vars

\* Between two reminders of the same todos, all of which read back as they were
\* written, there is one of other todos, or the summary that stands for what a
\* compaction evicted.
Spaced(c) ==
    \A i, j \in Reminders(c) :
        i < j /\ c[i].todos = c[j].todos /\ c[i].todos \cap Escaped = {} =>
            \E k \in 1 .. Len(c) :
                /\ i < k /\ k < j
                /\ \/ c[k].kind = "summary"
                   \/ k \in Reminders(c) /\ c[k].todos # c[i].todos

\* The End hook does not repeat itself on such a list: however often the loop goes
\* round, and whatever hooks inject and compaction evicts, the list is reminded of
\* again only after another list or after a compaction.
RemindsOnce == Spaced(conversation.context)

\* The doc of max_requests_per_turn, with the exception that the End hook claims for
\* itself, one reminder for each todo list: a turn makes no more requests than the
\* limit allows and reminders have asked for.
LimitHolds ==
    requests <= MaxRequests + Cardinality({context[i].todos : i \in Reminders(context)})

\* The comment on OrchestratorDropGuard: a run cancelled before flush_if_dirty
\* clears the dirty flag is persisted by the guard.
GuardPersists == [][Cancel /\ Live /\ dirty => stored' = conversation.context]_vars

\* No provider, hook, tool or header handshake holds a turn up, and nothing but an
\* End hook makes it go on past the request limit: from the head of the loop it comes
\* to the End hooks, or is over, within the requests that the limit leaves.  (It need
\* not be over then: see LimitHolds.)
RoundEnds ==
    (pc = "top" /\ answers < MaxAnswers) ~> (pc \in {"end", "exit", "saved", "cancelled"})
=============================================================================
