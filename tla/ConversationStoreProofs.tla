----------------------- MODULE ConversationStoreProofs -----------------------
(***************************************************************************)
(* Theorems about ConversationStore for any sets of conversations,         *)
(* workspaces, contents and sessions.                                      *)
(***************************************************************************)
EXTENDS ConversationStore, TLAPS

RowOrNone == Rows \cup {NoRow}

\* NoRow lacks the columns of a row.
LEMMA NoRowIsNoRow == NoRow \notin Rows
BY DEF NoRow, Rows

\* A row that is present is a row.
LEMMA PresentRow ==
    ASSUME rows \in [Ids -> RowOrNone], NEW id \in Ids, Present(id)
    PROVE  rows[id] \in Rows
BY DEF Present, RowOrNone

\* An encoding fills the three context columns with proper values.
LEMMA EncodingType ==
    ASSUME NEW v \in Contents \cup {"null"}, NEW e \in Encodings(v)
    PROVE  e[1] \in Column /\ e[2] \in Column /\ e[3] \in BOOLEAN
<1>1. CASE e = <<"null", "null", FALSE>>
  BY <1>1 DEF Column, Payloads
<1>2. CASE e = <<"null", v, TRUE>>
  BY <1>2 DEF Column, Payloads
<1>3. CASE e = <<v, "null", FALSE>>
  BY <1>3 DEF Column, Payloads
<1> QED
  BY <1>1, <1>2, <1>3 DEF Encodings

\* What an upsert writes is a row.
LEMMA WrittenRow ==
    ASSUME NEW v \in Contents \cup {"null"}, NEW e \in Encodings(v)
    PROVE  /\ \A w \in Workspaces : NewRow(w, e) \in Rows
           /\ \A r \in Rows : Replaced(r, e) \in Rows
<1>1. e[1] \in Column /\ e[2] \in Column /\ e[3] \in BOOLEAN
  BY EncodingType
<1>2. "pending" \in Intents
  BY DEF Intents
<1> QED
  BY <1>1, <1>2 DEF NewRow, Replaced, Rows

\* A session that ends or is given another operation stays well typed.
LEMMA SessionStep ==
    ASSUME session \in [Sessions -> Operations], NEW s \in Sessions,
           NEW o \in Operations, session' = [session EXCEPT ![s] = o]
    PROVE  session' \in [Sessions -> Operations]
OBVIOUS

LEMMA IdleType == NoOperation \in Operations
BY DEF Operations

LEMMA InitType == TInit => TypeOK
<1> SUFFICES ASSUME TInit PROVE TypeOK
  OBVIOUS
<1>1. rows \in [Ids -> RowOrNone]
  <2>1. PlainRows \subseteq Rows
    BY DEF PlainRows, Rows, Column, Payloads, Intents
  <2> QED
    BY <2>1 DEF TInit, RowOrNone
<1>2. session \in [Sessions -> Operations]
  BY IdleType DEF TInit
<1> QED
  BY <1>1, <1>2 DEF TypeOK, RowOrNone

\* Which operations each begin action starts.
LEMMA BeginType ==
    ASSUME TypeOK, NEW s \in Sessions, BeginStep(s)
    PROVE  TypeOK'
<1>1. CASE BeginUpsert(s)
  <2>1. PICK w \in Workspaces, id \in Ids, v \in Contents \cup {"null"} :
          Begin(s, "upsert", w, id, v)
    BY <1>1 DEF BeginUpsert
  <2>2. [op |-> "upsert", ws |-> w, id |-> id, arg |-> v] \in Operations
    BY DEF Operations
  <2> QED
    BY <2>1, <2>2, SessionStep DEF Begin, TypeOK
<1>2. CASE BeginDelete(s) \/ BeginRewind(s) \/ BeginPrune(s)
  <2>1. PICK o \in {"delete", "rewind", "prune"}, w \in Workspaces, id \in Ids :
          Begin(s, o, w, id, "null")
    BY <1>2 DEF BeginDelete, BeginRewind, BeginPrune
  <2>2. [op |-> o, ws |-> w, id |-> id, arg |-> "null"] \in Operations
    BY DEF Operations
  <2> QED
    BY <2>1, <2>2, SessionStep DEF Begin, TypeOK
<1>3. CASE BeginMark(s)
  <2>1. PICK w \in Workspaces, id \in Ids, i \in Intents : Begin(s, "mark", w, id, i)
    BY <1>3 DEF BeginMark
  <2>2. [op |-> "mark", ws |-> w, id |-> id, arg |-> i] \in Operations
    BY DEF Operations
  <2> QED
    BY <2>1, <2>2, SessionStep DEF Begin, TypeOK
<1> QED
  BY <1>1, <1>2, <1>3 DEF BeginStep

\* An operation that is under way names a workspace and a conversation.
LEMMA OperationType ==
    ASSUME TypeOK, NEW s \in Sessions
    PROVE  /\ session[s].op \in {"upsert", "delete", "rewind", "mark", "prune",
                                 "rewind-write", "mark-write", "prune-write"}
              => session[s].ws \in Workspaces /\ session[s].id \in Ids
           /\ session[s].op = "upsert" => session[s].arg \in Contents \cup {"null"}
           /\ session[s].op \in {"mark", "mark-write"} => session[s].arg \in Intents
           /\ session[s].op \in {"rewind", "prune"} => session[s].arg = "null"
           /\ session[s].op \in {"rewind-write"} => session[s].read \in Column
<1>1. session[s] \in Operations
  BY DEF TypeOK
<1> QED
  BY <1>1 DEF Operations, NoOperation

\* The state of a compression under way.
LEMMA CompressType ==
    ASSUME TypeOK, NEW s \in Sessions, session[s].op = "compress"
    PROVE  \E D \in SUBSET Ids :
             session[s] \in [op : {"compress"}, todo : SUBSET D, read : [D -> Payloads]]
<1>1. session[s] \in Operations
  BY DEF TypeOK
<1> QED
  BY <1>1 DEF Operations, NoOperation

-----------------------------------------------------------------------------
(* Type correctness, action by action.                                     *)

\* Replacing one row by a row, or by none, keeps the table well typed.
LEMMA RowStep ==
    ASSUME rows \in [Ids -> RowOrNone], NEW id, NEW r \in RowOrNone,
           rows' = [rows EXCEPT ![id] = r]
    PROVE  rows' \in [Ids -> RowOrNone]
OBVIOUS

\* The column updates of rewind, mark and prune keep a row a row.
LEMMA UpdatedRow ==
    ASSUME NEW r \in Rows, NEW c \in Column, NEW i \in Intents
    PROVE  /\ [r EXCEPT !.context = c] \in Rows
           /\ [r EXCEPT !.intent = i] \in Rows
           /\ [r EXCEPT !.context = c, !.intent = i] \in Rows
BY DEF Rows

LEMMA ReadRowType ==
    ASSUME TypeOK, NEW s \in Sessions, ReadRow(s)
    PROVE  TypeOK'
<1> DEFINE o == session[s]
           next == [op |-> WriteOp[o.op], ws |-> o.ws, id |-> o.id,
                    arg |-> o.arg, read |-> rows[o.id].context]
<1>1. o.op \in {"rewind", "mark", "prune"} /\ o.ws \in Workspaces /\ o.id \in Ids
  BY OperationType DEF ReadRow
<1>2. ASSUME Owned(o.id, o.ws) PROVE next \in Operations
  <2>1. rows[o.id].context \in Column
    BY <1>1, <1>2, PresentRow DEF Owned, TypeOK, RowOrNone, Rows
  <2>2. CASE o.op = "mark"
    BY <1>1, <2>1, <2>2, OperationType DEF WriteOp, Operations
  <2>3. CASE o.op \in {"rewind", "prune"}
    BY <1>1, <2>1, <2>3, OperationType DEF WriteOp, Operations
  <2> QED
    BY <1>1, <2>2, <2>3
<1>3. \/ session' = [session EXCEPT ![s] = next] /\ Owned(o.id, o.ws)
      \/ session' = [session EXCEPT ![s] = NoOperation]
  BY DEF ReadRow
<1>4. session' \in [Sessions -> Operations]
  <2> HIDE DEF next
  <2> QED
    BY <1>2, <1>3, SessionStep, IdleType DEF TypeOK
<1> QED
  BY <1>4 DEF TypeOK, ReadRow

LEMMA ScopedStepType ==
    ASSUME TypeOK, NEW s \in Sessions, ScopedStep(s)
    PROVE  TypeOK'
<1> DEFINE o == session[s]
<1>1. session' \in [Sessions -> Operations]
  <2>1. Finish(s)
    BY DEF ScopedStep, Upsert, Delete, RewindWrite, MarkWrite, PruneWrite
  <2> QED
    BY <2>1, SessionStep, IdleType DEF Finish, TypeOK
<1>2. rows \in [Ids -> RowOrNone]
  BY DEF TypeOK, RowOrNone
<1>3. o.op \in {"upsert", "delete", "rewind-write", "mark-write", "prune-write"}
      /\ o.ws \in Workspaces /\ o.id \in Ids
  BY OperationType DEF ScopedStep, Upsert, Delete, RewindWrite, MarkWrite, PruneWrite
<1>4. rows[o.id] \in RowOrNone
  BY <1>2, <1>3
<1>5. CASE Upsert(s)
  <2>1. o.arg \in Contents \cup {"null"}
    BY <1>5, OperationType DEF Upsert
  <2>2. PICK e \in Encodings(o.arg) :
          rows' = [rows EXCEPT ![o.id] =
                    IF ~Present(o.id) THEN NewRow(o.ws, e)
                    ELSE IF ConflictWritable(o.id, o.ws) THEN Replaced(@, e) ELSE @]
    BY <1>5 DEF Upsert
  <2>3. NewRow(o.ws, e) \in RowOrNone
    BY <1>3, <2>1, WrittenRow DEF RowOrNone
  <2>4. Present(o.id) => Replaced(rows[o.id], e) \in RowOrNone
    BY <1>2, <1>3, <2>1, WrittenRow, PresentRow DEF RowOrNone
  <2> HIDE DEF o
  <2>5. PICK r \in RowOrNone : rows' = [rows EXCEPT ![o.id] = r]
    BY <1>4, <2>2, <2>3, <2>4
  <2> QED
    BY <1>1, <1>2, <2>5, RowStep DEF TypeOK, RowOrNone
<1>6. CASE Delete(s)
  <2>1. NoRow \in RowOrNone
    BY DEF RowOrNone
  <2>2. PICK r \in RowOrNone : rows' = [rows EXCEPT ![o.id] = r]
    BY <1>4, <1>6, <2>1 DEF Delete
  <2> QED
    BY <1>1, <1>2, <2>2, RowStep DEF TypeOK, RowOrNone
<1>7. CASE RewindWrite(s) \/ MarkWrite(s) \/ PruneWrite(s)
  <2>1. PICK r : UpdateOwned(o, r) /\ (Owned(o.id, o.ws) => r \in Rows)
    <3>1. Owned(o.id, o.ws) => rows[o.id] \in Rows
      BY <1>2, <1>3, PresentRow DEF Owned
    <3>2. CASE RewindWrite(s)
      <4>1. \A v : \A t \in Truncations(v) : t \in Column
        BY DEF Truncations, Column, Payloads
      <4>2. PICK c \in Column : UpdateOwned(o, [rows[o.id] EXCEPT !.context = c])
        BY <3>2, <4>1 DEF RewindWrite
      <4>3. Owned(o.id, o.ws) => [rows[o.id] EXCEPT !.context = c] \in Rows
        BY <3>1, <4>2 DEF Rows
      <4> QED
        BY <4>2, <4>3
    <3>3. CASE MarkWrite(s)
      <4>1. o.arg \in Intents
        BY <3>3, OperationType DEF MarkWrite
      <4>2. UpdateOwned(o, [rows[o.id] EXCEPT !.intent = o.arg])
        BY <3>3 DEF MarkWrite
      <4>3. Owned(o.id, o.ws) => [rows[o.id] EXCEPT !.intent = o.arg] \in Rows
        BY <3>1, <4>1 DEF Rows
      <4> QED
        BY <4>2, <4>3
    <3>4. CASE PruneWrite(s)
      <4>1. UpdateOwned(o, [rows[o.id] EXCEPT !.context = "summary", !.intent = "pruned"])
        BY <3>4 DEF PruneWrite
      <4>2. "summary" \in Column /\ "pruned" \in Intents
        BY DEF Column, Payloads, Intents
      <4>3. Owned(o.id, o.ws) =>
              [rows[o.id] EXCEPT !.context = "summary", !.intent = "pruned"] \in Rows
        BY <3>1, <4>2, UpdatedRow
      <4> QED
        BY <4>1, <4>3
    <3> QED
      BY <1>7, <3>2, <3>3, <3>4
  <2>2. PICK q \in RowOrNone : rows' = [rows EXCEPT ![o.id] = q]
    BY <1>4, <2>1 DEF UpdateOwned, RowOrNone
  <2> QED
    BY <1>1, <1>2, <2>2, RowStep DEF TypeOK, RowOrNone
<1> QED
  BY <1>5, <1>6, <1>7 DEF ScopedStep

LEMMA CompressSelectType ==
    ASSUME TypeOK, NEW s \in Sessions, CompressSelect(s)
    PROVE  TypeOK'
<1> DEFINE plain == {id \in Ids : /\ Present(id)
                                  /\ ~rows[id].compressed
                                  /\ rows[id].context # "null"}
           o == [op |-> "compress", todo |-> plain,
                 read |-> [id \in plain |-> rows[id].context]]
<1>1. plain \in SUBSET Ids
  OBVIOUS
<1>2. \A id \in plain : rows[id].context \in Payloads
  BY PresentRow DEF TypeOK, RowOrNone, Rows, Column
<1>3. session' = [session EXCEPT ![s] = o]
  BY DEF CompressSelect
<1>4. rows' = rows
  BY DEF CompressSelect
<1>5. o \in Operations
  <2> HIDE DEF plain
  <2>1. o \in [op : {"compress"}, todo : SUBSET plain, read : [plain -> Payloads]]
    BY <1>2
  <2> QED
    BY <1>1, <2>1 DEF Operations
<1> HIDE DEF o, plain
<1> QED
  BY <1>3, <1>4, <1>5, SessionStep DEF TypeOK

\* The row a compression writes back, and what is left for it to do.
LEMMA CompressUpdateType ==
    ASSUME TypeOK, NEW s \in Sessions, CompressUpdate(s)
    PROVE  TypeOK'
<1> DEFINE o == session[s]
<1>1. PICK D \in SUBSET Ids :
        o \in [op : {"compress"}, todo : SUBSET D, read : [D -> Payloads]]
  BY CompressType DEF CompressUpdate
<1>2. PICK id \in o.todo :
        /\ \/ Present(id) /\ rows' = [rows EXCEPT ![id] = Compressed(@, o.read[id])]
           \/ UNCHANGED rows
        /\ session' = [session EXCEPT ![s] =
               IF o.todo = {id} THEN NoOperation ELSE [o EXCEPT !.todo = @ \ {id}]]
  BY DEF CompressUpdate
<1> DEFINE left == [o EXCEPT !.todo = @ \ {id}]
<1> HIDE DEF o
<1>3. left \in Operations
  <2>1. left \in [op : {"compress"}, todo : SUBSET D, read : [D -> Payloads]]
    BY <1>1
  <2> QED
    BY <2>1 DEF Operations
<1>4. id \in Ids /\ o.read[id] \in Payloads
  BY <1>1, <1>2
<1>5. rows' \in [Ids -> RowOrNone]
  <2>1. rows \in [Ids -> RowOrNone]
    BY DEF TypeOK, RowOrNone
  <2>2. CASE UNCHANGED rows
    BY <2>1, <2>2
  <2>3. CASE Present(id) /\ rows' = [rows EXCEPT ![id] = Compressed(@, o.read[id])]
    <3>1. rows[id] \in Rows
      BY <1>4, <2>1, <2>3, PresentRow
    <3>2. \A r \in Rows, v \in Payloads : Compressed(r, v) \in Rows
      BY DEF Compressed, Rows, Column
    <3>3. Compressed(rows[id], o.read[id]) \in RowOrNone
      BY <1>4, <3>1, <3>2 DEF RowOrNone
    <3> QED
      BY <2>1, <2>3, <3>3, RowStep
  <2> QED
    BY <1>2, <2>2, <2>3
<1>6. session' \in [Sessions -> Operations]
  <2>1. session' = [session EXCEPT ![s] = IF o.todo = {id} THEN NoOperation ELSE left]
    BY <1>2
  <2> HIDE DEF left
  <2> QED
    BY <2>1, <1>3, IdleType, SessionStep DEF TypeOK
<1> QED
  BY <1>5, <1>6 DEF TypeOK, RowOrNone

\* Maintenance and the daemon, whose steps leave the sessions alone.
LEMMA OtherStepsType ==
    ASSUME TypeOK,
           \/ \E S \in SUBSET Ids : Forget(S)
           \/ \E S \in SUBSET Ids, w \in Workspaces : Import(w, S)
           \/ \E w \in Workspaces, id \in Ids, v \in Contents \cup {"null"} :
                DaemonUpsert(w, id, v)
           \/ \E w \in Workspaces, id \in Ids : DaemonDelete(w, id)
    PROVE  TypeOK'
<1>1. session' = session
  BY DEF Forget, Import, DaemonUpsert, DaemonDelete
<1>2. rows \in [Ids -> RowOrNone]
  BY DEF TypeOK, RowOrNone
<1>3. NoRow \in RowOrNone
  BY DEF RowOrNone
<1>4. CASE \E S \in SUBSET Ids : Forget(S)
  BY <1>1, <1>2, <1>3, <1>4 DEF Forget, TypeOK, RowOrNone
<1>5. ASSUME NEW S \in SUBSET Ids, NEW w \in Workspaces, Import(w, S)
      PROVE  TypeOK'
  <2>1. PICK source \in [S -> SourceRows] :
          rows' = [id \in Ids |-> IF id \in Imported(S) THEN NewRow(w, source[id])
                                                      ELSE rows[id]]
    BY <1>5 DEF Import
  <2>2. \A id \in Imported(S) : NewRow(w, source[id]) \in RowOrNone
    <3> SUFFICES ASSUME NEW id \in Imported(S) PROVE NewRow(w, source[id]) \in RowOrNone
      OBVIOUS
    <3>1. PICK v \in Contents \cup {"null"} : source[id] \in Encodings(v)
      BY <2>1 DEF SourceRows, Imported
    <3> QED
      BY <3>1, WrittenRow DEF RowOrNone
  <2>3. rows' \in [Ids -> RowOrNone]
    BY <1>2, <2>1, <2>2
  <2> QED
    BY <1>1, <2>3 DEF TypeOK, RowOrNone
<1>6. ASSUME NEW w \in Workspaces, NEW id \in Ids, NEW v \in Contents \cup {"null"},
             DaemonUpsert(w, id, v)
      PROVE  TypeOK'
  <2>1. PICK e \in Encodings(v) :
          rows' = [rows EXCEPT ![id] = IF Present(id) THEN Replaced(@, e)
                                                      ELSE NewRow(w, e)]
    BY <1>6 DEF DaemonUpsert
  <2>2. NewRow(w, e) \in RowOrNone /\ (Present(id) => Replaced(rows[id], e) \in RowOrNone)
    BY <1>2, WrittenRow, PresentRow DEF RowOrNone
  <2>3. PICK r \in RowOrNone : rows' = [rows EXCEPT ![id] = r]
    BY <2>1, <2>2
  <2> QED
    BY <1>1, <1>2, <2>3, RowStep DEF TypeOK, RowOrNone
<1>7. CASE \E w \in Workspaces, id \in Ids : DaemonDelete(w, id)
  BY <1>1, <1>2, <1>3, <1>7, RowStep DEF DaemonDelete, TypeOK, RowOrNone
<1> QED
  BY <1>4, <1>5, <1>6, <1>7

LEMMA NextType == TypeOK /\ [TNext]_tvars => TypeOK'
<1> SUFFICES ASSUME TypeOK, [TNext]_tvars PROVE TypeOK'
  OBVIOUS
<1>1. CASE UNCHANGED tvars
  BY <1>1 DEF tvars, TypeOK
<1>2. CASE TNext
  BY <1>2, BeginType, ReadRowType, ScopedStepType, CompressSelectType,
     CompressUpdateType, OtherStepsType DEF TNext
<1> QED
  BY <1>1, <1>2

\* The table and the sessions are always well typed: every row that any
\* operation of ConversationRepositoryImpl or the daemon writes is a row.
THEOREM TypeCorrect == TSpec => []TypeOK
BY InitType, NextType, PTL DEF TSpec

-----------------------------------------------------------------------------
(* Isolation.                                                              *)

\* A scoped operation of one workspace never changes a row of another.
LEMMA ScopedStepIsolated ==
    ASSUME TypeOK, NEW s \in Sessions, NEW id \in Ids,
           ScopedStep(s), Present(id), rows[id].ws # session[s].ws
    PROVE  rows'[id] = rows[id]
<1> DEFINE o == session[s]
<1>1. rows \in [Ids -> RowOrNone]
  BY DEF TypeOK, RowOrNone
<1>2. CASE Upsert(s)
  BY <1>1, <1>2 DEF Upsert, ConflictWritable
<1>3. CASE Delete(s)
  BY <1>1, <1>3 DEF Delete, Owned
<1>4. CASE RewindWrite(s) \/ MarkWrite(s) \/ PruneWrite(s)
  <2>1. PICK r : UpdateOwned(o, r)
    BY <1>4 DEF RewindWrite, MarkWrite, PruneWrite
  <2> QED
    BY <1>1, <2>1 DEF UpdateOwned, Owned
<1> QED
  BY <1>2, <1>3, <1>4 DEF ScopedStep

\* Direct writes are isolated: validate_local_mutation and the predicates of the
\* statements keep every scoped operation, whatever is interleaved with it, off
\* the rows of other workspaces.
THEOREM IsolationCorrect == TSpec => DirectIsolation
<1> DEFINE Isolated == \A s \in Sessions, id \in Ids :
                         ScopedStep(s) /\ Present(id) /\ rows[id].ws # session[s].ws
                         => rows'[id] = rows[id]
<1>1. TypeOK => Isolated
  BY ScopedStepIsolated
<1>2. TypeOK => [Isolated]_tvars
  BY <1>1
<1> QED
  BY <1>2, TypeCorrect, PTL DEF DirectIsolation

-----------------------------------------------------------------------------
(* Readability: who can make a row unreadable.                             *)

\* A step leaves the row unreadable that was readable, or not there, before.
Breaks(id) == /\ Present(id)' /\ ~Readable(rows'[id])
              /\ Present(id) => Readable(rows[id])

\* The text was cut by a rewind, in this step or before a compression read it.
Cut(id) == Decoded(rows'[id]) = "broken" /\ \E s \in Sessions : CutsRow(s, id)

\* What upserts and imports write can be read.
LEMMA ReadableWrite ==
    ASSUME NEW v \in Contents \cup {"null"}, NEW e \in Encodings(v)
    PROVE  /\ \A w : Readable(NewRow(w, e))
           /\ \A r \in Rows : Readable(Replaced(r, e))
<1>1. v # "broken"
  BY PayloadAssumption
<1>2. CASE e = <<"null", "null", FALSE>>
  BY <1>2 DEF Readable, Decoded, NewRow, Replaced, Rows
<1>3. CASE e = <<"null", v, TRUE>> /\ v # "null"
  BY <1>1, <1>3 DEF Readable, Decoded, NewRow, Replaced, Rows
<1>4. CASE e = <<v, "null", FALSE>>
  BY <1>1, <1>4 DEF Readable, Decoded, NewRow, Replaced, Rows
<1> QED
  BY <1>2, <1>3, <1>4 DEF Encodings

\* Of the other updates of one row, only the writing of a cut text makes it
\* unreadable.
LEMMA ReadableUpdate ==
    ASSUME NEW r \in Rows, Readable(r)
    PROVE  /\ \A i : Readable([r EXCEPT !.intent = i])
           /\ Readable([r EXCEPT !.context = "summary", !.intent = "pruned"])
           /\ \A v \in Payloads : ~Readable(Compressed(r, v))
                                  => v = "broken" /\ Decoded(Compressed(r, v)) = "broken"
<1>1. "null" \notin Payloads
  BY PayloadAssumption DEF Payloads
<1>2. \A i : Readable([r EXCEPT !.intent = i])
  BY DEF Readable, Decoded, Rows
<1>3. Readable([r EXCEPT !.context = "summary", !.intent = "pruned"])
  BY DEF Readable, Decoded, Rows
<1>4. \A v \in Payloads : ~Readable(Compressed(r, v))
                          => v = "broken" /\ Decoded(Compressed(r, v)) = "broken"
  BY <1>1 DEF Readable, Decoded, Compressed, Rows
<1> QED
  BY <1>2, <1>3, <1>4

\* Of the rows of a step that replaces one, only that one can become unreadable.
LEMMA BreaksOne ==
    ASSUME TypeOK, NEW i \in Ids, NEW r, rows' = [rows EXCEPT ![i] = r],
           NEW id \in Ids, Breaks(id)
    PROVE  /\ id = i /\ rows'[id] = r /\ r # NoRow /\ ~Readable(r)
           /\ rows[i] \in Rows => Readable(rows[i])
<1>1. rows'[id] = IF id = i THEN r ELSE rows[id]
  BY DEF TypeOK
<1>2. rows[i] \in Rows => Present(i)
  BY NoRowIsNoRow DEF Present
<1> QED
  BY <1>1, <1>2 DEF Breaks, Present

LEMMA BreaksNone == ASSUME rows' = rows, NEW id, Breaks(id) PROVE FALSE
BY DEF Breaks, Present

LEMMA ScopedStepBreaks ==
    ASSUME TypeOK, NEW s \in Sessions, ScopedStep(s), NEW id \in Ids, Breaks(id)
    PROVE  Cut(id)
<1> DEFINE o == session[s]
<1>1. rows \in [Ids -> RowOrNone]
  BY DEF TypeOK, RowOrNone
<1>2. o.id \in Ids
  BY OperationType DEF ScopedStep, Upsert, Delete, RewindWrite, MarkWrite, PruneWrite
<1>3. Present(o.id) => rows[o.id] \in Rows
  BY <1>1, <1>2, PresentRow
<1>4. CASE Upsert(s)
  <2>1. PICK e \in Encodings(o.arg) :
          rows' = [rows EXCEPT ![o.id] =
                    IF ~Present(o.id) THEN NewRow(o.ws, e)
                    ELSE IF ConflictWritable(o.id, o.ws) THEN Replaced(@, e) ELSE @]
    BY <1>4 DEF Upsert
  <2>2. o.arg \in Contents \cup {"null"}
    BY <1>4, OperationType DEF Upsert
  <2>3. Readable(NewRow(o.ws, e)) /\ \A r \in Rows : Readable(Replaced(r, e))
    BY <2>2, ReadableWrite
  <2> DEFINE q == IF ~Present(o.id) THEN NewRow(o.ws, e)
                  ELSE IF ConflictWritable(o.id, o.ws) THEN Replaced(rows[o.id], e)
                  ELSE rows[o.id]
  <2>4. rows' = [rows EXCEPT ![o.id] = q]
    BY <2>1
  <2> HIDE DEF q
  <2>5. ~Readable(q) /\ (rows[o.id] \in Rows => Readable(rows[o.id]))
    BY <1>2, <2>4, BreaksOne
  <2> QED
    BY <1>3, <2>3, <2>5 DEF q
<1>5. CASE Delete(s)
  <2>1. PICK q : rows' = [rows EXCEPT ![o.id] = q] /\ (q = NoRow \/ q = rows[o.id])
    BY <1>5 DEF Delete
  <2>2. q # NoRow /\ ~Readable(q) /\ (rows[o.id] \in Rows => Readable(rows[o.id]))
    BY <1>2, <2>1, BreaksOne
  <2> QED
    BY <1>3, <2>1, <2>2 DEF Present
<1>6. CASE RewindWrite(s) \/ MarkWrite(s) \/ PruneWrite(s)
  <2>1. ASSUME NEW r, UpdateOwned(o, r)
        PROVE  id = o.id /\ rows'[id] = r /\ ~Readable(r) /\ rows[id] \in Rows /\ Readable(rows[id])
    <3>1. PICK q : rows' = [rows EXCEPT ![o.id] = q] /\ q = IF Owned(o.id, o.ws) THEN r ELSE rows[o.id]
      BY <2>1 DEF UpdateOwned
    <3>2. /\ id = o.id /\ rows'[id] = q /\ q # NoRow /\ ~Readable(q)
          /\ rows[o.id] \in Rows => Readable(rows[o.id])
      BY <1>2, <3>1, BreaksOne
    <3>3. Owned(o.id, o.ws)
      BY <1>3, <3>1, <3>2 DEF Present
    <3> QED
      BY <1>3, <3>1, <3>2, <3>3 DEF Owned
  <2>2. CASE RewindWrite(s)
    <3>1. PICK c \in Truncations(o.read) : UpdateOwned(o, [rows[o.id] EXCEPT !.context = c])
      BY <2>2 DEF RewindWrite
    <3>2. c \in Column
      BY DEF Truncations, Column, Payloads
    <3>3. PICK r : r = [rows[o.id] EXCEPT !.context = c]
      OBVIOUS
    <3>4. id = o.id /\ rows'[id] = r /\ ~Readable(r) /\ rows[id] \in Rows /\ Readable(rows[id])
      BY <2>1, <3>1, <3>3
    <3>5. c = "broken" /\ Decoded(rows'[id]) = "broken"
      BY <3>2, <3>3, <3>4 DEF Readable, Decoded, Rows
    <3>6. o.read \in Marked \cup {"broken"}
      BY <3>5 DEF Truncations
    <3> QED
      BY <2>2, <3>4, <3>5, <3>6 DEF Cut, CutsRow
  <2>3. CASE MarkWrite(s)
    <3>1. UpdateOwned(o, [rows[o.id] EXCEPT !.intent = o.arg])
      BY <2>3 DEF MarkWrite
    <3> QED
      BY <2>1, <3>1, ReadableUpdate
  <2>4. CASE PruneWrite(s)
    <3>1. UpdateOwned(o, [rows[o.id] EXCEPT !.context = "summary", !.intent = "pruned"])
      BY <2>4 DEF PruneWrite
    <3> QED
      BY <2>1, <3>1, ReadableUpdate
  <2> QED
    BY <1>6, <2>2, <2>3, <2>4
<1> QED
  BY <1>4, <1>5, <1>6 DEF ScopedStep

LEMMA CompressUpdateBreaks ==
    ASSUME TypeOK, NEW s \in Sessions, CompressUpdate(s), NEW id \in Ids, Breaks(id)
    PROVE  Cut(id)
<1> DEFINE o == session[s]
<1>1. PICK D \in SUBSET Ids :
        o \in [op : {"compress"}, todo : SUBSET D, read : [D -> Payloads]]
  BY CompressType DEF CompressUpdate
<1>2. PICK i \in o.todo :
        \/ Present(i) /\ rows' = [rows EXCEPT ![i] = Compressed(@, o.read[i])]
        \/ UNCHANGED rows
  BY DEF CompressUpdate
<1>3. i \in Ids /\ o.read[i] \in Payloads
  BY <1>1, <1>2
<1>4. Present(i) /\ rows' = [rows EXCEPT ![i] = Compressed(rows[i], o.read[i])]
  BY <1>2, BreaksNone
<1>5. rows[i] \in Rows
  BY <1>3, <1>4, PresentRow DEF TypeOK, RowOrNone
<1>6. PICK q : q = Compressed(rows[i], o.read[i])
  OBVIOUS
<1>7. id = i /\ rows'[id] = q /\ ~Readable(q) /\ Readable(rows[i])
  BY <1>3, <1>4, <1>5, <1>6, BreaksOne
<1>8. o.read[i] = "broken" /\ Decoded(rows'[id]) = "broken"
  BY <1>3, <1>5, <1>6, <1>7, ReadableUpdate
<1> QED
  BY <1>2, <1>7, <1>8 DEF Cut, CutsRow

LEMMA OtherStepsBreak ==
    ASSUME TypeOK, NEW id \in Ids, Breaks(id),
           \/ \E S \in SUBSET Ids : Forget(S)
           \/ \E S \in SUBSET Ids, w \in Workspaces : Import(w, S)
           \/ \E w \in Workspaces, i \in Ids, v \in Contents \cup {"null"} :
                DaemonUpsert(w, i, v)
           \/ \E w \in Workspaces, i \in Ids : DaemonDelete(w, i)
    PROVE  FALSE
<1>1. CASE \E S \in SUBSET Ids : Forget(S)
  BY <1>1 DEF Forget, Breaks, Present
<1>2. ASSUME NEW S \in SUBSET Ids, NEW w \in Workspaces, Import(w, S)
      PROVE  FALSE
  <2>1. PICK source \in [S -> SourceRows] :
          rows' = [i \in Ids |-> IF i \in Imported(S) THEN NewRow(w, source[i])
                                                    ELSE rows[i]]
    BY <1>2 DEF Import
  <2>2. id \in Imported(S) => Readable(NewRow(w, source[id]))
    <3> SUFFICES ASSUME id \in Imported(S) PROVE Readable(NewRow(w, source[id]))
      OBVIOUS
    <3>1. PICK v \in Contents \cup {"null"} : source[id] \in Encodings(v)
      BY <2>1 DEF SourceRows, Imported
    <3> QED
      BY <3>1, ReadableWrite
  <2> QED
    BY <2>1, <2>2 DEF Breaks, Present
<1>3. ASSUME NEW w \in Workspaces, NEW i \in Ids, NEW v \in Contents \cup {"null"},
             DaemonUpsert(w, i, v)
      PROVE  FALSE
  <2>1. PICK e \in Encodings(v) :
          rows' = [rows EXCEPT ![i] = IF Present(i) THEN Replaced(@, e)
                                                    ELSE NewRow(w, e)]
    BY <1>3 DEF DaemonUpsert
  <2>2. Readable(NewRow(w, e)) /\ (Present(i) => Readable(Replaced(rows[i], e)))
    BY ReadableWrite, PresentRow DEF TypeOK, RowOrNone
  <2>3. PICK r : rows' = [rows EXCEPT ![i] = r] /\ Readable(r)
    BY <2>1, <2>2
  <2> QED
    BY <2>3, BreaksOne
<1>4. ASSUME NEW w \in Workspaces, NEW i \in Ids, DaemonDelete(w, i)
      PROVE  FALSE
  BY <1>4, BreaksOne DEF DaemonDelete
<1> QED
  BY <1>1, <1>2, <1>3, <1>4

LEMMA NextBreaks ==
    ASSUME TypeOK, TNext, NEW id \in Ids, Breaks(id)
    PROVE  Cut(id)
<1>1. ASSUME NEW s \in Sessions, BeginStep(s) \/ ReadRow(s) \/ CompressSelect(s)
      PROVE  FALSE
  <2>1. rows' = rows
    BY <1>1 DEF BeginStep, BeginUpsert, BeginDelete, BeginRewind, BeginMark, BeginPrune,
                Begin, ReadRow, CompressSelect
  <2> QED
    BY <2>1, BreaksNone
<1> QED
  BY <1>1, ScopedStepBreaks, CompressUpdateBreaks, OtherStepsBreak DEF TNext

\* A stored context that can be decoded stays so, unless a rewind cuts inside a
\* tool argument or a compression writes back what such a rewind had left.
THEOREM ReadableCorrect == TSpec => OnlyRewindBreaks
<1> DEFINE Whole == \A id \in Ids : Breaks(id) => Cut(id)
<1>1. TypeOK /\ [TNext]_tvars => [Whole]_tvars
  <2> SUFFICES ASSUME TypeOK, [TNext]_tvars PROVE [Whole]_tvars
    OBVIOUS
  <2> QED
    BY NextBreaks
<1> QED
  BY <1>1, TypeCorrect, PTL DEF TSpec, OnlyRewindBreaks, Breaks, Cut
=============================================================================
