-------------------------------- MODULE MCServer --------------------------------
(* Two parts of the MCP server that keep state between requests and share    *)
(* nothing: a behaviour is about one of them.                                *)
EXTENDS PluginProposals, TaskOutcomes

VARIABLE part

Manager == INSTANCE TaskManager

MCInit ==
    /\ part \in {"proposals", "tasks"}
    /\ Init /\ Manager!Init
    /\ part = "tasks" => \A c \in Calls : key[c] = NoKey /\ ~dry[c] /\ ~confirmed[c]

MCNext ==
    \/ part = "proposals" /\ Next /\ UNCHANGED <<part, taskVars>>
    \/ part = "tasks" /\ Manager!Next /\ UNCHANGED <<part, proposalVars>>

MCSpec == MCInit /\ [][MCNext]_<<part, proposalVars, taskVars>>
===============================================================================
