--------------------------- MODULE MCTurnRouting ----------------------------
(* TLC instance of Orchestrator, one turn, and of DaemonRepo, three tasks of *)
(* one process.  They share nothing, and a behaviour belongs to one of them: *)
(* the turn has not begun, or the writes have all returned.                  *)
EXTENDS Orchestrator, DaemonRepo, TLC

CONSTANT p1

OneProcess == {<<p1, 1>>, <<p1, 2>>, <<p1, 3>>}

VARIABLE part
allVars == <<vars, routeVars, part>>

\* No daemon was found, and every write failed.
AllReturned ==
    /\ daemon = [d \in Daemons |-> "unused"] /\ sock = NoOne
    /\ queue = [d \in Daemons |-> <<>>] /\ answer = [w \in Writers |-> "none"]
    /\ stage = [w \in Writers |-> "done"] /\ result = [w \in Writers |-> "failed"]
    /\ lifecycle = [p \in Procs |-> NoOne] /\ conn = [w \in Writers |-> NoOne]
    /\ cached = [p \in Procs |-> 0] /\ probes = cached
    /\ held = [w \in Writers |-> 0]
    /\ attempted = [p \in Procs |-> TRUE] /\ spawned = [p \in Procs |-> FALSE]
    /\ applied = <<>>

MCInit ==
    /\ Init
    /\ \/ part = "turn" /\ AllReturned
       \/ part = "routing" /\ RouteInit

MCNext ==
    /\ \/ part = "turn" /\ Next /\ UNCHANGED routeVars
       \/ part = "routing" /\ RouteNext /\ UNCHANGED vars
    /\ UNCHANGED part

MCSpec ==
    /\ MCInit /\ [][MCNext]_allVars
    /\ WF_vars(part = "turn" /\ TaskStep) /\ WF_vars(part = "turn" /\ ShowHeader)
    /\ RouteFairness
=============================================================================
