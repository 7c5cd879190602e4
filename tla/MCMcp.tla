------------------------------- MODULE MCMcp --------------------------------
(* The MCP service and the client it gives to each server.  A behaviour     *)
(* belongs to one part: the service sees a client only as a server that     *)
(* connects or fails.  With two callers the local file names one server or  *)
(* none; with one caller it may name any servers.                           *)
EXTENDS McpService, McpClient, TLC

CONSTANTS c1, l1

VARIABLE part
allVars == <<vars, cvars, part>>

MCInit ==
    /\ Init /\ CInit /\ part \in {"callers", "edits", "client"}
    /\ part # "edits" => local \subseteq {l1}

MCNext ==
    /\ \/ /\ part = "callers" /\ Next /\ UNCHANGED cvars
          /\ local' \subseteq {l1}
       \/ /\ part = "edits" /\ Next /\ UNCHANGED cvars
          /\ \A c \in Callers \ {c1} : UNCHANGED caller[c]
       \/ part = "client" /\ CNext /\ UNCHANGED vars
    /\ UNCHANGED part

MCSpec == MCInit /\ [][MCNext]_allVars /\ \A c \in Callers : SF_vars(Step(c))
=============================================================================
