--------------------------- MODULE MutationService ---------------------------
(***************************************************************************)
(* What forge_dbd promises to the callers of DbClient::send_classified: a  *)
(* mutation is committed at most once, only between its submission and an  *)
(* acknowledgement, and an acknowledgement means it is committed.  Any     *)
(* other answer leaves its fate open: it may have been committed, it may   *)
(* still be committed later, it may never be.                              *)
(***************************************************************************)
EXTENDS Naturals, Sequences, FiniteSets

CONSTANT Rids          \* names of the requests

VARIABLES
    submitted,         \* requests whose exchange has begun
    log,               \* committed mutations, in commit order
    told               \* what the caller knows of each request

serviceVars == <<submitted, log, told>>

Verdicts == {"none", "ack", "error", "health", "indeterminate"}

Committed == {log[i] : i \in 1 .. Len(log)}

ServiceInit ==
    /\ submitted = {}
    /\ log = <<>>
    /\ told = [r \in Rids |-> "none"]

Submit(r) ==
    /\ r \notin submitted
    /\ submitted' = submitted \cup {r}
    /\ UNCHANGED <<log, told>>

Commit(r) ==
    /\ r \in submitted \ Committed
    /\ told[r] # "ack"
    /\ log' = Append(log, r)
    /\ UNCHANGED <<submitted, told>>

Tell(r, v) ==
    /\ r \in submitted
    /\ told[r] = "none"
    /\ v = "ack" => r \in Committed
    /\ told' = [told EXCEPT ![r] = v]
    /\ UNCHANGED <<submitted, log>>

ServiceNext ==
    \E r \in Rids :
        \/ Submit(r)
        \/ Commit(r)
        \/ \E v \in Verdicts \ {"none"} : Tell(r, v)

ServiceSpec == ServiceInit /\ [][ServiceNext]_serviceVars
=============================================================================
