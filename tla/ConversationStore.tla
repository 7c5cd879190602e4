-------------------------- MODULE ConversationStore --------------------------
(***************************************************************************)
(* The conversations table as ConversationRepositoryImpl (crates/forge_repo,*)
(* conversation_repo.rs) and the write daemon (forge_dbd, server.rs) mutate *)
(* it.  Each SQL statement is one atomic step; an operation made of several *)
(* statements outside a transaction is interleaved with the statements of   *)
(* other connections, in this process or in another.                        *)
(*                                                                         *)
(* A payload stands for a conversation context; it lives in the plain       *)
(* `context` column or, compressed, in `context_zstd`, as `is_compressed`   *)
(* says.  Titles, metrics, parents and timestamps are left out.             *)
(***************************************************************************)
EXTENDS FiniteSets

CONSTANTS
    Ids,          \* conversation ids
    LegacyIds,    \* ids that exist in the attached read-only legacy database
    Workspaces,   \* workspace ids (hashes of working directories)
    Contents,     \* contexts a caller may save
    Marked,       \* those in which some tool argument holds "role":"user"
    Sessions      \* connections that run multi-statement operations

ASSUME LegacyAssumption  == LegacyIds \subseteq Ids
ASSUME PayloadAssumption ==
    Marked \subseteq Contents /\ Contents \cap {"null", "summary", "empty", "broken"} = {}

VARIABLES
    rows,         \* the table: a row or NoRow for each id
    session       \* the operation each session is in the middle of

tvars == <<rows, session>>

\* Besides contents: the summary of a pruned conversation, a context without
\* messages, and text that is not JSON.
Payloads == Contents \cup {"summary", "empty", "broken"}
Column   == Payloads \cup {"null"}
Intents  == {"pending", "extracting", "extracted", "verified", "pruned"}
NoRow    == [ws |-> "none"]
Rows     == [ws : Workspaces, context : Column, zstd : Column,
             compressed : BOOLEAN, intent : Intents]
Present(id)     == rows[id] # NoRow
Owned(id, w)    == Present(id) /\ rows[id].ws = w
\* What Conversation::try_from makes of a row, and whether it is a context: a
\* compressed row needs its blob, and the text must be JSON.
Decoded(r)      == IF r.compressed THEN r.zstd ELSE r.context
Readable(r)     == (r.compressed => r.zstd # "null") /\ Decoded(r) # "broken"

NoOperation == [op |-> "idle"]

\* encode_context: the blob alone, the plain text when zstd fails, or nothing
\* for an empty context.
Encodings(v) ==
    IF v = "null" THEN {<<"null", "null", FALSE>>}
                  ELSE {<<"null", v, TRUE>>, <<v, "null", FALSE>>}
\* A new row starts in intent state 'pending', the column's default.
NewRow_Faulty(w, e) == [ws |-> w, context |-> e[1], zstd |-> e[2],
                        compressed |-> e[3], intent |-> "null"]
NewRow(w, e)   == [ws |-> w, context |-> e[1], zstd |-> e[2],
                   compressed |-> e[3], intent |-> "pending"]
\* The conflict branch of an upsert replaces the context columns together and
\* keeps the intent state.
Replaced(r, e) == [r EXCEPT !.context = e[1], !.zstd = e[2], !.compressed = e[3]]

\* Rows written before contexts were compressed.
PlainRows == [ws : Workspaces, context : Contents, zstd : {"null"},
              compressed : {FALSE}, intent : {"pending"}]

TInit ==
    /\ rows \in [Ids -> PlainRows \cup {NoRow}]
    /\ session = [s \in Sessions |-> NoOperation]

-----------------------------------------------------------------------------
(* Operations scoped to a workspace (validate_local_mutation first).       *)

\* Foreign rows and rows that only exist in the legacy history are refused.
ValidateLocal(w, id) == IF Present(id) THEN rows[id].ws = w
                                       ELSE id \notin LegacyIds

Begin(s, o, w, id, x) ==
    /\ session[s] = NoOperation
    /\ ValidateLocal(w, id)
    /\ session' = [session EXCEPT
                     ![s] = [op |-> o, ws |-> w, id |-> id, arg |-> x]]
    /\ UNCHANGED rows

BeginUpsert(s) == \E w \in Workspaces, id \in Ids, v \in Contents \cup {"null"} :
                     Begin(s, "upsert", w, id, v)
BeginDelete(s) == \E w \in Workspaces, id \in Ids : Begin(s, "delete", w, id, "null")
BeginRewind(s) == \E w \in Workspaces, id \in Ids : Begin(s, "rewind", w, id, "null")
BeginMark(s)   == \E w \in Workspaces, id \in Ids, i \in Intents : Begin(s, "mark", w, id, i)
BeginPrune(s)  == \E w \in Workspaces, id \in Ids : Begin(s, "prune", w, id, "null")

Finish(s) == session' = [session EXCEPT ![s] = NoOperation]

\* INSERT ... ON CONFLICT DO UPDATE ... WHERE workspace_id = ?: a foreign row
\* that appeared since the validation is left alone and an error returned.
ConflictWritable_Faulty(id, w) == TRUE
ConflictWritable(id, w)        == rows[id].ws = w

Upsert(s) ==
    LET o == session[s] IN
    /\ o.op = "upsert"
    /\ \E e \in Encodings(o.arg) :
         rows' = [rows EXCEPT ![o.id] =
                    IF ~Present(o.id) THEN NewRow(o.ws, e)
                    ELSE IF ConflictWritable(o.id, o.ws) THEN Replaced(@, e) ELSE @]
    /\ Finish(s)

\* DELETE ... WHERE workspace_id = ? AND conversation_id = ?
Delete(s) ==
    LET o == session[s] IN
    /\ o.op = "delete"
    /\ rows' = [rows EXCEPT ![o.id] = IF Owned(o.id, o.ws) THEN NoRow ELSE @]
    /\ Finish(s)

\* IntentState::can_transition_to
CanTransition(i, j) ==
    \/ i = j
    \/ i = "pending" /\ j \in {"extracting", "extracted", "verified"}
    \/ i = "extracting" /\ j \in {"extracted", "pending"}
    \/ i = "extracted" /\ j \in {"verified", "pending"}
    \/ i = "verified" /\ j \in {"pruned", "pending"}

PruneAllowed(r)   == r.intent = "verified"
MarkAllowed(r, i) == CanTransition(r.intent, i)

WriteOp == [rewind |-> "rewind-write", mark |-> "mark-write",
            prune |-> "prune-write"]

\* The SELECT of rewind, mark and prune, with the checks made on what it read.
\* A missing or foreign row, or a refused transition, ends the operation.
ReadRow(s) ==
    LET o == session[s] IN
    /\ o.op \in {"rewind", "mark", "prune"}
    /\ LET ok == /\ Owned(o.id, o.ws)
                 /\ o.op = "mark"  => MarkAllowed(rows[o.id], o.arg)
                 /\ o.op = "prune" => PruneAllowed(rows[o.id])
       IN session' = [session EXCEPT
            ![s] = IF ok THEN [op |-> WriteOp[o.op], ws |-> o.ws, id |-> o.id,
                               arg |-> o.arg, read |-> rows[o.id].context]
                         ELSE NoOperation]
    /\ UNCHANGED rows

\* truncate_context at the last "role":"user", which no message has (roles are
\* stored as "User"): the context is emptied, or cut inside a tool argument, and
\* what is left of a cut context may hold the marker again.
Truncations(v) ==
    {c \in {"null", "empty", "broken"} :
        /\ c = "null"   <=> v = "null"
        /\ c = "broken"  => v \in Marked \cup {"broken"}
        /\ c = "empty"   => v \notin Marked}

\* UPDATE ... WHERE workspace_id = ? AND conversation_id = ?
UpdateOwned(o, r) ==
    rows' = [rows EXCEPT ![o.id] = IF Owned(o.id, o.ws) THEN r ELSE @]

\* rewind_conversation writes the plain column only.
RewindWrite(s) ==
    LET o == session[s] IN
    /\ o.op = "rewind-write"
    /\ \E c \in Truncations(o.read) : UpdateOwned(o, [rows[o.id] EXCEPT !.context = c])
    /\ Finish(s)

MarkWrite(s) ==
    LET o == session[s] IN
    /\ o.op = "mark-write"
    /\ UpdateOwned(o, [rows[o.id] EXCEPT !.intent = o.arg])
    /\ Finish(s)

\* prune_conversation writes the summary to the plain column.
PruneWrite(s) ==
    LET o == session[s] IN
    /\ o.op = "prune-write"
    /\ UpdateOwned(o, [rows[o.id] EXCEPT !.context = "summary", !.intent = "pruned"])
    /\ Finish(s)

-----------------------------------------------------------------------------
(* Maintenance: every workspace.                                           *)

\* compress_uncompressed_contexts: one SELECT of all plain rows ...
CompressSelect(s) ==
    /\ session[s] = NoOperation
    /\ LET plain == {id \in Ids : /\ Present(id)
                                  /\ ~rows[id].compressed
                                  /\ rows[id].context # "null"}
       IN /\ plain # {}
          /\ session' = [session EXCEPT ![s] =
                [op |-> "compress", todo |-> plain,
                 read |-> [id \in plain |-> rows[id].context]]]
    /\ UNCHANGED rows

\* ... then one UPDATE ... WHERE conversation_id = ? per row that was read; a
\* row that fails is counted and left as it is.
Compressed_Faulty(r, v) == [r EXCEPT !.context = "null", !.compressed = TRUE]
Compressed(r, v) ==
    [r EXCEPT !.zstd = v, !.context = "null", !.compressed = TRUE]

CompressUpdate(s) ==
    LET o == session[s] IN
    /\ o.op = "compress"
    /\ \E id \in o.todo :
         /\ \/ Present(id) /\ rows' = [rows EXCEPT ![id] = Compressed(@, o.read[id])]
            \/ UNCHANGED rows
         /\ session' = [session EXCEPT ![s] =
                IF o.todo = {id} THEN NoOperation ELSE [o EXCEPT !.todo = @ \ {id}]]

\* forget_conversations: one DELETE of the rows S that match the selectors (id,
\* source, age), whatever their workspace.
Forget(S) ==
    /\ rows' = [id \in Ids |-> IF id \in S THEN NoRow ELSE rows[id]]
    /\ UNCHANGED session

\* import_rows skips ids known locally or in the legacy history.
Imported(S) == {id \in S \ LegacyIds : ~Present(id)}
SourceRows  == UNION {Encodings(v) : v \in Contents \cup {"null"}}

\* import_forge_db: one transaction over the rows S of the source database.
Import(w, S) ==
    /\ \E source \in [S -> SourceRows] :
         rows' = [id \in Ids |-> IF id \in Imported(S) THEN NewRow(w, source[id])
                                                     ELSE rows[id]]
    /\ UNCHANGED session

-----------------------------------------------------------------------------
(* The daemon: one statement per mutation (execute_with_conn).             *)

\* INSERT ... ON CONFLICT(conversation_id) DO UPDATE, with no owner predicate.
DaemonUpsert(w, id, v) ==
    /\ \E e \in Encodings(v) :
         rows' = [rows EXCEPT ![id] = IF Present(id) THEN Replaced(@, e)
                                                     ELSE NewRow(w, e)]
    /\ UNCHANGED session

DaemonDelete(w, id) ==
    /\ Owned(id, w)
    /\ rows' = [rows EXCEPT ![id] = NoRow]
    /\ UNCHANGED session

-----------------------------------------------------------------------------
BeginStep(s) ==
    \/ BeginUpsert(s) \/ BeginDelete(s) \/ BeginRewind(s)
    \/ BeginMark(s) \/ BeginPrune(s)

ScopedStep(s) ==
    \/ Upsert(s) \/ Delete(s)
    \/ RewindWrite(s) \/ MarkWrite(s) \/ PruneWrite(s)

TNext ==
    \/ \E s \in Sessions :
         \/ BeginStep(s) \/ ReadRow(s) \/ ScopedStep(s)
         \/ CompressSelect(s) \/ CompressUpdate(s)
    \/ \E S \in SUBSET Ids : Forget(S)
    \/ \E S \in SUBSET Ids, w \in Workspaces : Import(w, S)
    \/ \E w \in Workspaces, id \in Ids, v \in Contents \cup {"null"} :
         DaemonUpsert(w, id, v)
    \/ \E w \in Workspaces, id \in Ids : DaemonDelete(w, id)

TSpec == TInit /\ [][TNext]_tvars

-----------------------------------------------------------------------------
(* Properties.                                                             *)

Operations ==
    {NoOperation}
    \cup [op : {"upsert"}, ws : Workspaces, id : Ids, arg : Contents \cup {"null"}]
    \cup [op : {"delete", "rewind", "prune"}, ws : Workspaces, id : Ids, arg : {"null"}]
    \cup [op : {"mark"}, ws : Workspaces, id : Ids, arg : Intents]
    \cup [op : {"rewind-write", "prune-write"}, ws : Workspaces, id : Ids,
          arg : {"null"}, read : Column]
    \cup [op : {"mark-write"}, ws : Workspaces, id : Ids, arg : Intents, read : Column]
    \cup UNION {[op : {"compress"}, todo : SUBSET D, read : [D -> Payloads]] :
                D \in SUBSET Ids}

TypeOK ==
    /\ rows \in [Ids -> Rows \cup {NoRow}]
    /\ session \in [Sessions -> Operations]

\* Whatever other connections do between its statements, a scoped operation
\* never changes or deletes a row of another workspace.
DirectIsolation ==
    [][\A s \in Sessions, id \in Ids :
         ScopedStep(s) /\ Present(id) /\ rows[id].ws # session[s].ws
         => rows'[id] = rows[id]]_tvars

\* truncate_context: "Re-emits a valid JSON shape".  So every stored context can
\* be decoded, whatever was rewound.
ContextReadable == \A id \in Ids : Present(id) => Readable(rows[id])

\* Nothing but that cut makes a row unreadable: no interleaving of upserts,
\* rewinds, prunes, imports, compression and daemon writes does, except that a
\* compression writes back a text it read after it was cut.
CutsRow(s, id) ==
    \/ /\ RewindWrite(s)
       /\ session[s].id = id /\ session[s].read \in Marked \cup {"broken"}
    \/ /\ CompressUpdate(s)
       /\ id \in session[s].todo /\ session[s].read[id] = "broken"

OnlyRewindBreaks ==
    [][\A id \in Ids :
         /\ Present(id)' /\ ~Readable(rows'[id])
         /\ Present(id) => Readable(rows[id])
         => Decoded(rows'[id]) = "broken" /\ \E s \in Sessions : CutsRow(s, id)]_tvars

\* repo.rs: compressing existing contexts is safe to run at any time.
CompressLosesNothing ==
    [][\A s \in Sessions, id \in Ids :
         CompressUpdate(s) /\ Present(id) => Decoded(rows'[id]) = Decoded(rows[id])]_tvars
=============================================================================
