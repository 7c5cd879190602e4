----------------------------- MODULE DiskStore ------------------------------
(***************************************************************************)
(* The journaled event store: DiskStore (crates/forge_tracera/src/         *)
(* disk_store.rs), driven by one consumer that drains a batch and then     *)
(* delivers it or puts it back, across crashes, torn writes and restarts.  *)
(*                                                                         *)
(* A line of the journal is the event it holds, or Garbage when it does    *)
(* not parse.  Operations run under the store's mutex, one step each.      *)
(***************************************************************************)
EXTENDS Integers, Sequences

CONSTANTS
    JournalCapacity,   \* capacity of the buffer
    DrainMax,          \* largest batch the consumer asks for
    MaxWrites          \* bound on the events submitted

ASSUME StoreAssumption ==
    JournalCapacity \in Nat \ {0} /\ DrainMax \in Nat \ {0} /\ MaxWrites \in Nat

Garbage == 0

VARIABLES
    phase,        \* "open", "down" (no process) or "refused" (open failed)
    journal,      \* the lines of the file
    torn,         \* the last line has no end
    buffer,       \* DiskState.queue
    batch,        \* the events drained and not yet settled
    \* History.
    writes,       \* events submitted so far
    kept,         \* events whose submit returned Ok
    settled       \* events delivered, or counted as dropped

dvars == <<phase, journal, torn, buffer, batch, writes, kept, settled>>

DInit ==
    /\ phase = "down"
    /\ journal = <<>> /\ torn = FALSE
    /\ buffer = <<>> /\ batch = <<>>
    /\ writes = 0 /\ kept = {} /\ settled = {}

Items(s) == {s[i] : i \in DOMAIN s}

-----------------------------------------------------------------------------
\* append_line: after a torn line the text of both is one line, and does not
\* parse.
Written(e) == IF torn THEN [journal EXCEPT ![Len(journal)] = Garbage]
                      ELSE Append(journal, e)

\* What an append that did not succeed left in the file: nothing, a part of the
\* line, all of it but its end, or all of it (BufWriter writes the rest when it
\* is dropped).
AppendCutShort(e) ==
    \/ UNCHANGED <<journal, torn>>
    \/ \E text \in {e, Garbage} : journal' = Written(text) /\ torn' = TRUE
    \/ journal' = Written(e) /\ torn' = FALSE

\* submit: the journal first, then the buffer.
SubmitEvent ==
    /\ phase = "open"
    /\ Len(buffer) < JournalCapacity
    /\ writes < MaxWrites
    /\ LET e == writes + 1
       IN  /\ writes' = e
           /\ kept' = kept \cup {e}
           /\ journal' = Written(e)
           /\ buffer' = Append(buffer, e)
    /\ torn' = FALSE
    /\ UNCHANGED <<phase, batch, settled>>

\* The append fails: the event is not accepted, whatever is in the file.
SubmitFails ==
    /\ phase = "open"
    /\ Len(buffer) < JournalCapacity
    /\ writes < MaxWrites
    /\ writes' = writes + 1
    /\ AppendCutShort(writes + 1)
    /\ UNCHANGED <<phase, buffer, batch, kept, settled>>

\* The process dies in submit: nobody was told that the event is accepted.
CrashInSubmit ==
    /\ phase = "open"
    /\ Len(buffer) < JournalCapacity
    /\ writes < MaxWrites
    /\ writes' = writes + 1
    /\ AppendCutShort(writes + 1)
    /\ phase' = "down" /\ buffer' = <<>> /\ batch' = <<>>
    /\ UNCHANGED <<kept, settled>>

\* drain_batch: the buffer only.
DrainBatch ==
    /\ phase = "open"
    /\ batch = <<>> /\ buffer # <<>>
    /\ LET n == IF Len(buffer) < DrainMax THEN Len(buffer) ELSE DrainMax
       IN  batch' = SubSeq(buffer, 1, n) /\ buffer' = SubSeq(buffer, n + 1, Len(buffer))
    /\ UNCHANGED <<phase, journal, torn, writes, kept, settled>>

\* The consumer delivered the batch; the store is not told.
Deliver ==
    /\ phase = "open"
    /\ batch # <<>>
    /\ settled' = settled \cup Items(batch)
    /\ batch' = <<>>
    /\ UNCHANGED <<phase, journal, torn, buffer, writes, kept>>

\* requeue_front: what fits goes back in front, the rest is counted as dropped.
Room == JournalCapacity - Len(buffer)

Front_Faulty(n) == buffer \o SubSeq(batch, 1, n)
Front(n)        == SubSeq(batch, 1, n) \o buffer

Overflow_Faulty(n) == {}
Overflow(n)        == {batch[i] : i \in n + 1 .. Len(batch)}

RequeueFront ==
    /\ phase = "open"
    /\ batch # <<>>
    /\ LET n == IF Len(batch) <= Room THEN Len(batch) ELSE Room
       IN  /\ buffer' = Front(n)
           /\ settled' = settled \cup Overflow(n)
    /\ batch' = <<>>
    /\ UNCHANGED <<phase, journal, torn, writes, kept>>

\* compact, and close before the process ends: a new file with what is buffered
\* is renamed over the journal.  A rewrite that fails changes nothing.
Rewritten == journal' = buffer /\ torn' = FALSE

Compact ==
    /\ phase = "open"
    /\ Rewritten
    /\ UNCHANGED <<phase, buffer, batch, writes, kept, settled>>

Close ==
    /\ phase = "open"
    /\ Rewritten
    /\ phase' = "down" /\ buffer' = <<>> /\ batch' = <<>>
    /\ UNCHANGED <<writes, kept, settled>>

CrashStore ==
    /\ phase = "open"
    /\ phase' = "down" /\ buffer' = <<>> /\ batch' = <<>>
    /\ UNCHANGED <<journal, torn, writes, kept, settled>>

\* open: replays the first lines the buffer has room for and counts the others as
\* dropped; one line that does not parse makes it fail.
Open ==
    /\ phase = "down"
    /\ IF Garbage \in Items(journal)
       THEN phase' = "refused" /\ UNCHANGED <<buffer, settled>>
       ELSE LET n == IF Len(journal) < JournalCapacity THEN Len(journal) ELSE JournalCapacity
            IN  /\ phase' = "open"
                /\ buffer' = SubSeq(journal, 1, n)
                /\ settled' = settled \cup {journal[i] : i \in n + 1 .. Len(journal)}
    /\ UNCHANGED <<journal, torn, batch, writes, kept>>

DNext ==
    \/ SubmitEvent \/ SubmitFails \/ CrashInSubmit
    \/ DrainBatch \/ Deliver \/ RequeueFront
    \/ Compact \/ Close \/ CrashStore \/ Open

DSpec == DInit /\ [][DNext]_dvars

-----------------------------------------------------------------------------
(* Properties.                                                             *)

\* The events an open now would replay.
Replayable == IF Garbage \in Items(journal) THEN {} ELSE Items(journal)

\* The module's durability semantics, "at-least-once delivery, never lost": an
\* event whose submit returned Ok is delivered or counted as dropped, or the
\* running process still holds it, or the next open replays it.
AtLeastOnce ==
    kept \subseteq settled \cup Items(batch) \cup Items(buffer) \cup Replayable

\* What the file itself keeps: no append, failed append, crash, drain, replay or
\* rewrite takes the line of an accepted event out of the journal, unless the
\* event is settled or with the consumer; and an accepted event gets a line of
\* its own unless the line before it was left torn.
JournalKept ==
    [][/\ \A e \in kept \cap Items(journal) :
            e \in Items(journal') \cup settled \cup Items(batch)
       /\ \A e \in kept' \ kept : torn \/ e \in Items(journal')]_dvars

\* Replays and requeues do not reorder: what is with the consumer, then what is
\* buffered, and the events on the lines of the journal are in the order of
\* submission, and the buffer never outgrows its capacity.
ReplayOrder ==
    /\ Len(buffer) <= JournalCapacity
    /\ LET s == batch \o buffer
       IN  \A i, j \in DOMAIN s : i < j => s[i] < s[j]
    /\ \A i, j \in DOMAIN journal :
         i < j /\ Garbage \notin {journal[i], journal[j]} => journal[i] < journal[j]
=============================================================================
