----------------------------- MODULE McpService -----------------------------
(***************************************************************************)
(* The MCP tool service: ForgeMcpService (crates/forge_services/src/mcp/   *)
(* service.rs) over ForgeMcpManager (manager.rs), shared by callers that   *)
(* call tools, list servers, reload and write the configuration, while the *)
(* local configuration file is edited, cache entries expire and callers    *)
(* are cancelled at any await.                                             *)
(*                                                                         *)
(* A configuration is the set of its enabled servers, its cache key is the *)
(* configuration itself, and the tools of a server come and go together.   *)
(***************************************************************************)
EXTENDS Integers, FiniteSets

CONSTANTS
    Callers,
    UserServers,    \* servers of the user scope, always trusted
    LocalServers,   \* servers a project-local .mcp.json may name
    Nobody,         \* no caller
    Nothing,        \* no hash, no cache entry
    MaxEdits        \* bound on changes of the local file

ASSUME ScopesAssumption == UserServers \cap LocalServers = {}
ASSUME NamesAssumption  == Nobody \notin Callers /\ MaxEdits \in Nat

Servers == UserServers \cup LocalServers
Configs == SUBSET Servers

VARIABLES
    local,      \* the project-local file
    trust,      \* McpTrustStore: the configuration last decided on, and how
    tools,      \* servers whose tools are in the tool map
    failed,     \* failed_servers
    hash,       \* previous_config_hash
    initLock,   \* holder of init_lock
    cache,      \* the infra cache: servers stored under a key
    caller,     \* what each caller is doing
    \* History.
    edits,      \* changes of the local file so far
    accepted,   \* servers of the local configurations the user accepted
    stale       \* the hash a cancelled update left standing over cleared tools

files == <<local, edits>>
gate  == <<trust, accepted>>
state == <<tools, failed, hash, stale>>
vars  == <<files, gate, state, initLock, cache, caller>>

Idle == [pc |-> "idle", op |-> "none", raw |-> {}, seen |-> {}, trusted |-> {},
         key |-> {}, todo |-> {}, bad |-> {}, old |-> Nothing]

EmptyCache == [k \in Configs |-> Nothing]

Init ==
    /\ local \in SUBSET LocalServers
    /\ trust = [config |-> {}, ok |-> FALSE]
    /\ tools = {} /\ failed = {} /\ hash = Nothing
    /\ initLock = Nobody
    /\ cache = EmptyCache
    /\ caller = [c \in Callers |-> Idle]
    /\ edits = 0 /\ accepted = {} /\ stale = Nothing

Goto(c, l) == caller' = [caller EXCEPT ![c].pc = l]
Done(c)    == caller' = [caller EXCEPT ![c] = Idle]
Use(c)     == caller' = [caller EXCEPT ![c] =
                 [Idle EXCEPT !.pc = "use", !.op = caller[c].op, !.key = caller[c].key]]

\* Who holds the read guard of the tool map: a call, from its lookup on.
Readers_Faulty == {c \in Callers : caller[c].op = "call"}
Readers        == {c \in Callers : caller[c].pc = "calling"}

-----------------------------------------------------------------------------
(* Entry points.  read_mcp_config merges the two scopes.                   *)

Raw == UserServers \cup local

\* execute_mcp starts with ensure_mcp_initialized, get_mcp_servers with the gate.
Enter(c) ==
    /\ caller[c].pc = "idle"
    /\ \E e \in {<<"call", "check">>, <<"list", "gate">>} :
         caller' = [caller EXCEPT ![c] = [Idle EXCEPT !.op = e[1], !.pc = e[2], !.raw = Raw]]
    /\ UNCHANGED <<files, gate, state, initLock, cache>>

\* reload_mcp takes init_lock first.
Reload(c) ==
    /\ caller[c].pc = "idle"
    /\ caller' = [caller EXCEPT ![c] = [Idle EXCEPT !.op = "reload", !.pc = "lock"]]
    /\ UNCHANGED <<files, gate, state, initLock, cache>>

\* write_mcp_config: the file, then the cache.
WriteConfig(c) ==
    /\ caller[c].pc = "idle"
    /\ edits < MaxEdits /\ edits' = edits + 1
    /\ local' \in SUBSET LocalServers
    /\ Goto(c, "written")
    /\ UNCHANGED <<gate, state, initLock, cache>>

Written(c) ==
    /\ caller[c].pc = "written"
    /\ cache' = EmptyCache
    /\ Done(c)
    /\ UNCHANGED <<files, gate, state, initLock>>

-----------------------------------------------------------------------------
(* ensure_mcp_initialized.                                                 *)

\* The fast path needs no lock.
Check(c) ==
    /\ caller[c].pc = "check"
    /\ IF hash = caller[c].raw THEN Use(c) ELSE Goto(c, "lock")
    /\ UNCHANGED <<files, gate, state, initLock, cache>>

\* Under init_lock the check is repeated; reload goes its own way.
Lock(c) ==
    /\ caller[c].pc = "lock"
    /\ initLock = Nobody
    /\ \/ /\ caller[c].op = "reload"
          /\ initLock' = c /\ Goto(c, "refresh")
       \/ /\ caller[c].op # "reload" /\ hash = caller[c].raw
          /\ Use(c) /\ UNCHANGED initLock
       \/ /\ caller[c].op # "reload" /\ hash # caller[c].raw
          /\ initLock' = c /\ Goto(c, "gate")
    /\ UNCHANGED <<files, gate, state, cache>>

-----------------------------------------------------------------------------
(* filter_trusted, called by get_mcp_servers for its cache key and under    *)
(* init_lock for the update.                                               *)

\* The servers of raw that the user scope or the admitted local file defines.
Retained_Faulty(raw, admitted) == raw
Retained(raw, admitted)        == raw \cap (UserServers \cup admitted)

Gated(c, admitted) ==
    LET t == Retained(caller[c].raw, admitted)
    IN  caller' = [caller EXCEPT ![c] =
            IF initLock = c
            THEN [@ EXCEPT !.pc = "clear", !.raw = {}, !.seen = {}, !.trusted = t]
            ELSE [Idle EXCEPT !.pc = "lookup", !.op = "list", !.key = t]]

\* apply_trust_gate: the local file is read again; a remembered decision about
\* this very content is applied, otherwise the user is asked.
Gate(c) ==
    /\ caller[c].pc = "gate"
    /\ IF local = {} \/ trust.config = local
       THEN Gated(c, IF trust.ok THEN local ELSE {})
       ELSE caller' = [caller EXCEPT ![c] = [@ EXCEPT !.pc = "prompt", !.seen = local]]
    /\ UNCHANGED <<files, gate, state, initLock, cache>>

\* The answer is about what was read before the prompt.
Prompt(c) ==
    /\ caller[c].pc = "prompt"
    /\ \E ok \in BOOLEAN :
         /\ trust' = [config |-> caller[c].seen, ok |-> ok]
         /\ accepted' = IF ok THEN accepted \cup caller[c].seen ELSE accepted
         /\ Gated(c, IF ok THEN caller[c].seen ELSE {})
    /\ UNCHANGED <<files, state, initLock, cache>>

-----------------------------------------------------------------------------
(* update_mcp, under init_lock.                                            *)

\* clear_tools waits for the calls that hold the tool map.
HashAtClear_Faulty(c) == caller[c].trusted
HashAtClear(c)        == hash

Clear(c) ==
    /\ caller[c].pc = "clear"
    /\ Readers = {}
    /\ tools' = {} /\ failed' = {}
    /\ hash' = HashAtClear(c)
    /\ caller' = [caller EXCEPT ![c] =
          [@ EXCEPT !.pc = "connect", !.old = hash, !.todo = caller[c].trusted]]
    /\ UNCHANGED <<files, gate, stale, initLock, cache>>

\* One of the concurrent connections ends; a server that is up is entered into
\* the tool map at once.
Connected(c, s) ==
    /\ caller[c].pc = "connect"
    /\ s \in caller[c].todo
    /\ \/ /\ Readers = {}
          /\ tools' = tools \cup {s}
          /\ caller' = [caller EXCEPT ![c] = [@ EXCEPT !.todo = caller[c].todo \ {s}]]
       \/ /\ caller' = [caller EXCEPT ![c] =
                [@ EXCEPT !.todo = caller[c].todo \ {s}, !.bad = caller[c].bad \cup {s}]]
          /\ UNCHANGED tools
    /\ UNCHANGED <<files, gate, failed, hash, stale, initLock, cache>>

\* After join_all: the failures, then the hash, of the trusted configuration.
Commit(c) ==
    /\ caller[c].pc = "connect"
    /\ caller[c].todo = {}
    /\ failed' = caller[c].bad
    /\ hash' = caller[c].trusted
    /\ stale' = Nothing
    /\ initLock' = Nobody
    /\ Use(c)
    /\ UNCHANGED <<files, gate, tools, cache>>

-----------------------------------------------------------------------------
(* refresh_cache, under init_lock.                                         *)

Refresh(c) ==
    /\ caller[c].pc = "refresh"
    /\ cache' = EmptyCache
    /\ hash' = Nothing /\ stale' = Nothing
    /\ Goto(c, "drop")
    /\ UNCHANGED <<files, gate, tools, failed, initLock>>

Drop(c) ==
    /\ caller[c].pc = "drop"
    /\ Readers = {}
    /\ tools' = {} /\ failed' = {}
    /\ initLock' = Nobody
    /\ Done(c)
    /\ UNCHANGED <<files, gate, hash, stale, cache>>

-----------------------------------------------------------------------------
(* What the callers came for.                                              *)

\* get_mcp_servers: the entry under the trusted key, or a fresh list.
Lookup(c) ==
    /\ caller[c].pc = "lookup"
    /\ IF cache[caller[c].key] # Nothing
       THEN Done(c)
       ELSE caller' = [caller EXCEPT ![c] = [@ EXCEPT !.pc = "check", !.raw = Raw]]
    /\ UNCHANGED <<files, gate, state, initLock, cache>>

\* list and cache_set: what is connected now is stored under the earlier key.
Listed(c) ==
    /\ caller[c].pc = "use" /\ caller[c].op = "list"
    /\ cache' = [cache EXCEPT ![caller[c].key] = tools]
    /\ Done(c)
    /\ UNCHANGED <<files, gate, state, initLock>>

\* call: "Tool not found", or the tool runs while its caller holds the tool map.
Used(c) ==
    /\ caller[c].pc = "use" /\ caller[c].op = "call"
    /\ \/ tools # Servers /\ Done(c)
       \/ tools # {} /\ Goto(c, "calling")
    /\ UNCHANGED <<files, gate, state, initLock, cache>>

Returned(c) ==
    /\ caller[c].pc = "calling"
    /\ Done(c)
    /\ UNCHANGED <<files, gate, state, initLock, cache>>

\* The caller's future is dropped (tool timeout, Ctrl-C), or a file or cache
\* access fails: guards are released, nothing is undone.
Cancel(c) ==
    /\ caller[c].pc # "idle"
    /\ initLock' = IF initLock = c THEN Nobody ELSE initLock
    /\ stale' = IF caller[c].pc = "connect" THEN caller[c].old ELSE stale
    /\ Done(c)
    /\ UNCHANGED <<files, gate, tools, failed, hash, cache>>

\* The user edits the file; an entry of the cache expires.
Edit ==
    /\ edits < MaxEdits /\ edits' = edits + 1
    /\ local' \in SUBSET LocalServers
    /\ UNCHANGED <<gate, state, initLock, cache, caller>>

Expire(k) ==
    /\ cache[k] # Nothing
    /\ cache' = [cache EXCEPT ![k] = Nothing]
    /\ UNCHANGED <<files, gate, state, initLock, caller>>

-----------------------------------------------------------------------------
Step(c) ==
    \/ Written(c) \/ Check(c) \/ Lock(c) \/ Gate(c) \/ Prompt(c)
    \/ Clear(c) \/ (\E s \in Servers : Connected(c, s)) \/ Commit(c)
    \/ Refresh(c) \/ Drop(c) \/ Lookup(c) \/ Listed(c) \/ Used(c) \/ Returned(c)

Next ==
    \/ \E c \in Callers : Enter(c) \/ Reload(c) \/ WriteConfig(c) \/ Step(c) \/ Cancel(c)
    \/ Edit
    \/ \E k \in Configs : Expire(k)

Spec == Init /\ [][Next]_vars

\* tokio's locks are queues, servers answer or time out, and the user answers.
FairSpec == Spec /\ \A c \in Callers : SF_vars(Step(c))

-----------------------------------------------------------------------------
(* Properties.                                                             *)

\* The trust gate: a server of the local file is connected, reported or cached
\* only if the user accepted a local configuration that names it, whatever is
\* edited, reloaded or cancelled between the gate and the connection.
OnlyTrusted ==
    /\ tools \cup failed \subseteq UserServers \cup accepted
    /\ \A k \in Configs : cache[k] # Nothing => cache[k] \subseteq UserServers \cup accepted

\* The comments in update_mcp and refresh_cache: once init_lock is free, the hash
\* stands for a populated tool map (every server connected or reported as
\* failed, and no other), so whoever finds it unchanged finds the tools; unless
\* a cancelled update left the old hash over a cleared map.
ReadyMeansPopulated ==
    initLock = Nobody /\ hash # Nothing /\ hash # stale =>
        hash \subseteq tools \cup failed /\ tools \subseteq hash

\* init_lock is always released: calls hold the tool map while an update holds
\* init_lock and waits for the map, and neither waits for the other for ever.
UpdatesEnd == (initLock # Nobody) ~> (initLock = Nobody)
=============================================================================
