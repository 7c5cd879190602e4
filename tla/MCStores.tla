------------------------------ MODULE MCStores ------------------------------
(* TLC instance of the four stores: the telemetry sink over its MemoryStore, *)
(* a DiskStore, the conversations table, and the agent registry with its     *)
(* slot.  They share nothing, and a behaviour belongs to one of them.        *)
EXTENDS Telemetry, DiskStore, ConversationStore, Forge3d, TLC

VARIABLE part
allVars == <<vars, dvars, tvars, rvars, part>>

MCInit ==
    /\ Init /\ DInit /\ TInit /\ RInit
    /\ part \in {"sink", "journal", "table", "registry"}
    /\ part # "table" => rows = [id \in Ids |-> NoRow]
    /\ part # "sink"  => blockOnFull /\ current = CHOOSE k \in Creds : TRUE

MCNext ==
    /\ \/ part = "sink"     /\ Next  /\ UNCHANGED <<dvars, tvars, rvars>>
       \/ part = "journal"  /\ DNext /\ UNCHANGED <<vars, tvars, rvars>>
       \/ part = "table"    /\ TNext /\ UNCHANGED <<vars, dvars, rvars>>
       \/ part = "registry" /\ RNext /\ UNCHANGED <<vars, dvars, tvars>>
    /\ UNCHANGED part

MCSpec == MCInit /\ [][MCNext]_allVars

Symmetry ==
    Permutations(Procs) \cup Permutations(Sessions) \cup Permutations(Flushers)
=============================================================================
