----------------------------- MODULE Telemetry ------------------------------
(***************************************************************************)
(* The telemetry sink: TraceraSink (crates/forge_tracera/src/sink.rs) over *)
(* its MemoryStore (store.rs), with several tasks that submit, flush and   *)
(* shut down, a collector that may answer anything or lose its answer, and *)
(* the rotation of credentials.                                            *)
(*                                                                         *)
(* An event is the number of its acceptance; its content is left out.      *)
(***************************************************************************)
EXTENDS Integers, Sequences, FiniteSets

CONSTANTS
    Submitters,    \* tasks that submit
    Flushers,      \* tasks that call flush or shutdown
    Creds,         \* identities of credentials
    None,          \* no credential
    Capacity, BatchSize, MaxRetries,   \* SinkConfig
    MaxEvents      \* bound on the events submitted

ASSUME ConfigAssumption ==
    Capacity \in Nat \ {0} /\ BatchSize \in Nat \ {0} /\ MaxRetries \in Nat \ {0}
ASSUME BoundAssumption == MaxEvents \in Nat
ASSUME CredsAssumption == None \notin Creds

VARIABLES
    blockOnFull,   \* SinkConfig.block_on_full
    queue,         \* StoreState.queue
    submitted, dropped,   \* total_submitted, total_dropped
    spinning,      \* submitters that wait for room
    down,          \* the shutdown flag
    flusher,       \* the flush of each flusher
    current, previous, expired,   \* AuthState; expired: the window is over
    \* History.
    accepted,      \* events accepted so far
    acked,         \* events of batches that were delivered
    lost,          \* events truncated by a requeue
    overlapped,    \* two batches were out at once
    revoked        \* credentials that set_auth replaced

auth    == <<current, previous, expired, revoked>>
history == <<accepted, acked, lost, overlapped>>
store   == <<queue, submitted, dropped>>
vars    == <<blockOnFull, store, spinning, down, flusher, auth, history>>

Idle == [pc |-> "idle", batch |-> <<>>, attempt |-> 0, signed |-> {}]

Init ==
    /\ blockOnFull \in BOOLEAN
    /\ queue = <<>> /\ submitted = 0 /\ dropped = 0
    /\ spinning = {} /\ down = FALSE
    /\ flusher = [f \in Flushers |-> Idle]
    /\ current \in Creds /\ previous = None /\ expired = FALSE
    /\ accepted = 0 /\ acked = {} /\ lost = {} /\ overlapped = FALSE
    /\ revoked = {}

-----------------------------------------------------------------------------
(* MemoryStore.                                                            *)

Push ==
    /\ queue' = Append(queue, accepted + 1)
    /\ accepted' = accepted + 1
    /\ submitted' = submitted + 1
    /\ UNCHANGED dropped

Full == Len(queue) >= Capacity

\* submit: refused after shutdown; a full store rejects or makes the caller spin.
Submit(s) ==
    /\ ~down /\ s \notin spinning
    /\ submitted < MaxEvents
    /\ \/ ~Full /\ Push /\ UNCHANGED spinning
       \/ /\ Full /\ ~blockOnFull
          /\ submitted' = submitted + 1 /\ dropped' = dropped + 1
          /\ UNCHANGED <<queue, accepted, spinning>>
       \/ /\ Full /\ blockOnFull
          /\ spinning' = spinning \cup {s}
          /\ UNCHANGED <<store, accepted>>
    /\ UNCHANGED <<blockOnFull, down, flusher, auth, acked, lost, overlapped>>

\* A spinning caller finds room; it looked at the shutdown flag long ago.
SpinEnds(s) ==
    /\ s \in spinning
    /\ ~Full
    /\ submitted < MaxEvents
    /\ Push
    /\ spinning' = spinning \ {s}
    /\ UNCHANGED <<blockOnFull, down, flusher, auth, acked, lost, overlapped>>

\* How many events of a batch requeue_front has room for.
Keep_Faulty(b) == IF Len(b) <= Capacity THEN Len(b) ELSE Capacity
Keep(b) ==
    LET room == Capacity - Len(queue)
    IN  IF Len(b) <= room THEN Len(b) ELSE room

\* requeue_front: what fits goes back in front, in order; the rest is counted.
Requeued_Faulty(b) ==
    [i \in 1 .. Keep(b) |-> b[Keep(b) + 1 - i]] \o queue
Requeued(b) == SubSeq(b, 1, Keep(b)) \o queue

DropCount(b) == dropped + Len(b) - Keep(b)

Requeue(f) ==
    LET b == flusher[f].batch
    IN  /\ queue' = Requeued(b)
        /\ dropped' = DropCount(b)
        /\ lost' = lost \cup {b[i] : i \in Keep(b) + 1 .. Len(b)}
        /\ flusher' = [flusher EXCEPT ![f] = Idle]
        /\ UNCHANGED <<submitted, accepted, acked, overlapped>>

-----------------------------------------------------------------------------
(* flush and shutdown.                                                     *)

Flush(f) ==
    /\ flusher[f].pc = "idle"
    /\ flusher' = [flusher EXCEPT ![f].pc = "loop"]
    /\ UNCHANGED <<blockOnFull, store, spinning, down, auth, history>>

\* shutdown sets its flag, then flushes.
Shutdown(f) ==
    /\ flusher[f].pc = "idle"
    /\ down' = TRUE
    /\ flusher' = [flusher EXCEPT ![f].pc = "loop"]
    /\ UNCHANGED <<blockOnFull, store, spinning, auth, history>>

\* The head of the loop: done, refused, or the oldest events are drained.
Loop(f) ==
    /\ flusher[f].pc = "loop"
    /\ \/ /\ queue = <<>> \/ down
          /\ flusher' = [flusher EXCEPT ![f] = Idle]
          /\ UNCHANGED <<queue, overlapped>>
       \/ /\ queue # <<>> /\ ~down
          /\ LET n == IF Len(queue) < BatchSize THEN Len(queue) ELSE BatchSize
             IN  /\ flusher' = [flusher EXCEPT ![f] =
                       [Idle EXCEPT !.pc = "retry", !.batch = SubSeq(queue, 1, n)]]
                 /\ queue' = SubSeq(queue, n + 1, Len(queue))
          /\ overlapped' = (overlapped \/ \E g \in Flushers : flusher[g].batch # <<>>)
    /\ UNCHANGED <<blockOnFull, submitted, dropped, spinning, down, auth, accepted,
                   acked, lost>>

\* send_batch signs with both credentials, whether or not the window is over.
Signatures_Faulty(f) ==
    IF flusher[f].attempt = 0 THEN {current, previous} \ {None} ELSE flusher[f].signed
Signatures(f) == {current, previous} \ {None}

StartAttempt(f) ==
    /\ flusher[f].pc = "retry"
    /\ flusher[f].attempt < MaxRetries /\ ~down
    /\ flusher' = [flusher EXCEPT ![f].pc = "sending", ![f].signed = Signatures(f)]
    /\ UNCHANGED <<blockOnFull, store, spinning, down, auth, history>>

\* The collector took the batch and its answer arrived.
Delivered(f) ==
    /\ flusher[f].pc = "sending"
    /\ acked' = acked \cup {flusher[f].batch[i] : i \in DOMAIN flusher[f].batch}
    /\ flusher' = [flusher EXCEPT ![f] = [Idle EXCEPT !.pc = "loop"]]
    /\ UNCHANGED <<blockOnFull, store, spinning, down, auth, accepted, lost, overlapped>>

\* A transport error, a 429, a server error or a lost answer; then the backoff.
AttemptFails(f) ==
    /\ flusher[f].pc = "sending"
    /\ flusher' = [flusher EXCEPT ![f].pc = "retry", ![f].attempt = @ + 1]
    /\ UNCHANGED <<blockOnFull, store, spinning, down, auth, history>>

\* A refused credential, shutdown or the last failure end the flush.
GiveUp(f) ==
    /\ \/ flusher[f].pc = "sending"
       \/ flusher[f].pc = "retry" /\ (down \/ flusher[f].attempt = MaxRetries)
    /\ Requeue(f)
    /\ UNCHANGED <<blockOnFull, spinning, down, auth>>

-----------------------------------------------------------------------------
(* Credentials.                                                            *)

\* rotate: the same identity only renews the window of an earlier rotation.
RotateAuth(c) ==
    /\ IF c = current
       THEN expired' = FALSE /\ UNCHANGED <<current, previous>>
       ELSE previous' = current /\ current' = c /\ expired' = FALSE
    /\ revoked' = revoked \ {c}
    /\ UNCHANGED <<blockOnFull, store, spinning, down, flusher, history>>

\* set_auth: a hard replacement.
SetAuth(c) ==
    /\ current' = c /\ previous' = None /\ expired' = FALSE
    /\ revoked' = (revoked \cup {current, previous}) \ {c, None}
    /\ UNCHANGED <<blockOnFull, store, spinning, down, flusher, history>>

WindowElapses ==
    /\ previous # None /\ ~expired
    /\ expired' = TRUE
    /\ UNCHANGED <<blockOnFull, store, spinning, down, flusher, current, previous,
                   revoked, history>>

\* Only auth_snapshot drops a previous mode whose window is over.
AuthSnapshot ==
    /\ expired
    /\ previous' = None /\ expired' = FALSE
    /\ UNCHANGED <<blockOnFull, store, spinning, down, flusher, current, revoked, history>>

-----------------------------------------------------------------------------
FlushStep(f) == Loop(f) \/ StartAttempt(f) \/ Delivered(f) \/ AttemptFails(f) \/ GiveUp(f)

Next ==
    \/ \E s \in Submitters : Submit(s) \/ SpinEnds(s)
    \/ \E f \in Flushers : Flush(f) \/ Shutdown(f) \/ FlushStep(f)
    \/ \E c \in Creds : RotateAuth(c) \/ SetAuth(c)
    \/ WindowElapses \/ AuthSnapshot

Spec == Init /\ [][Next]_vars

-----------------------------------------------------------------------------
(* Properties.                                                             *)

Elements(s) == {s[i] : i \in DOMAIN s}
Held == UNION {Elements(flusher[f].batch) : f \in Flushers}

\* Conservation: an accepted event is waiting, out with one flush, delivered, or
\* dropped, and in one of these places only, however submits, failing flushes and
\* shutdown interleave; total_dropped tells what was rejected or dropped; and the
\* store never holds more than its capacity, although batches come back.
EveryEventOnce ==
    /\ 1 .. accepted = Elements(queue) \cup Held \cup acked \cup lost
    /\ \A i, j \in DOMAIN queue : queue[i] = queue[j] => i = j
    /\ Elements(queue) \cap (Held \cup acked \cup lost) = {}
    /\ (acked \cup Held) \cap lost = {} /\ acked \cap Held = {}
    /\ \A f, g \in Flushers :
         f # g => Elements(flusher[f].batch) \cap Elements(flusher[g].batch) = {}
    /\ dropped = (submitted - accepted) + Cardinality(lost)
    /\ Len(queue) <= Capacity

\* The comment in flush: a failed batch goes back in order.  It holds as long as
\* no two batches were out at once.
OrderKept ==
    ~overlapped =>
        \A f \in Flushers :
            LET s == flusher[f].batch \o queue
            IN  \A i, j \in DOMAIN s : i < j => s[i] < s[j]

\* set_auth revokes: an attempt that starts after it, of a batch drained before
\* it too, is not signed with the credential it replaced.
RevokedUnused ==
    [][\A f \in Flushers :
         StartAttempt(f) => flusher'[f].signed \cap revoked = {}]_vars
=============================================================================
