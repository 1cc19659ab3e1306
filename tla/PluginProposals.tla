----------------------------- MODULE PluginProposals -----------------------------
(***************************************************************************)
(* The installation of plugins: the advisor hands out a proposal with a    *)
(* short life, the client's calls of qgis_plugins install validate it      *)
(* (plugin_advisor.py), wait for QGIS (server.py) and then consume it. The *)
(* calls are concurrent coroutines of one server. A call that repeats the  *)
(* idempotency key of another repeats its arguments too.                   *)
(***************************************************************************)
EXTENDS Integers, FiniteSets

CONSTANTS
    Calls,          \* install calls for one proposal
    Keys,           \* idempotency keys
    NoKey           \* of a call without one

ASSUME KeysAssumption == NoKey \notin Keys

VARIABLES
    proposal,       \* "none", "current" or "gone" of _proposals
    consumedBy,     \* its consumed_by, or NoKey
    key,            \* of each call, its idempotency_key or NoKey
    dry,            \* of each call, dry_run
    confirmed,      \* of each call, whether it has the confirmations it needs
    phase,          \* of each call: "idle", "asking", "done", "refused", "unknown"
    overlaps,       \* history: pairs of calls that were validated before either ended
    installed       \* history: the calls whose installation ran in QGIS

proposalVars == <<proposal, consumedBy, key, dry, confirmed, phase, overlaps, installed>>

Phases == {"idle", "asking", "done", "refused", "unknown"}

Init ==
    /\ proposal = "none" /\ consumedBy = NoKey
    /\ key \in [Calls -> Keys \cup {NoKey}]
    /\ dry \in [Calls -> BOOLEAN]
    /\ confirmed \in [Calls -> BOOLEAN]
    /\ \A c, d \in Calls :
            key[c] # NoKey /\ key[c] = key[d] => dry[c] = dry[d] /\ confirmed[c] = confirmed[d]
    /\ phase = [c \in Calls |-> "idle"]
    /\ overlaps = {} /\ installed = {}

\* advise: _create_proposal
Advise ==
    /\ proposal = "none"
    /\ proposal' = "current"
    /\ UNCHANGED <<consumedBy, key, dry, confirmed, phase, overlaps, installed>>

\* _prune_proposals, whoever calls it first after 15 minutes
Expire ==
    /\ proposal = "current"
    /\ proposal' = "gone"
    /\ UNCHANGED <<consumedBy, key, dry, confirmed, phase, overlaps, installed>>

\* A mutant of Valid: a consumed proposal is as good as new.
ValidForEver(c) == proposal = "current" /\ (dry[c] \/ confirmed[c])

\* validate_proposal: a proposal that a keyed call has consumed is still good
\* for its repetition. A dry run needs no confirmation.
Valid(c) ==
    /\ proposal = "current"
    /\ consumedBy # NoKey => consumedBy = key[c]
    /\ dry[c] \/ confirmed[c]

Asking == {c \in Calls : phase[c] = "asking"}

Install(c) ==
    /\ phase[c] = "idle" /\ proposal # "none"
    /\ IF Valid(c)
       THEN /\ phase' = [phase EXCEPT ![c] = "asking"]
            /\ overlaps' = overlaps \cup {{c, d} : d \in Asking}
       ELSE /\ phase' = [phase EXCEPT ![c] = "refused"]
            /\ UNCHANGED overlaps
    /\ UNCHANGED <<proposal, consumedBy, key, dry, confirmed, installed>>

\* QGIS replays a call whose key it knows.
Executes(c) == ~dry[c] /\ ~\E d \in installed : key[d] # NoKey /\ key[d] = key[c]

RunsInQgis(c) ==
    installed' = IF Executes(c) THEN installed \cup {c} ELSE installed

\* complete_proposal
Complete(c) ==
    IF dry[c] \/ proposal # "current"
    THEN UNCHANGED <<proposal, consumedBy>>
    ELSE IF key[c] # NoKey
         THEN consumedBy' = key[c] /\ UNCHANGED proposal
         ELSE proposal' = "gone" /\ UNCHANGED consumedBy

Answered(c) ==
    /\ phase[c] = "asking"
    /\ phase' = [phase EXCEPT ![c] = "done"]
    /\ RunsInQgis(c)
    /\ Complete(c)
    /\ UNCHANGED <<key, dry, confirmed, overlaps>>

\* An error of QGIS, a timeout, a lost connection or the cancellation of the
\* call: the installation may have run, and the proposal stays as it is.
Fails(c) ==
    /\ phase[c] = "asking"
    /\ phase' = [phase EXCEPT ![c] = "unknown"]
    /\ RunsInQgis(c) \/ UNCHANGED installed
    /\ UNCHANGED <<proposal, consumedBy, key, dry, confirmed, overlaps>>

Next ==
    \/ Advise
    \/ Expire
    \/ \E c \in Calls : Install(c) \/ Answered(c) \/ Fails(c)

Spec == Init /\ [][Next]_proposalVars

-----------------------------------------------------------------------------
TypeOK ==
    /\ proposal \in {"none", "current", "gone"}
    /\ consumedBy \in Keys \cup {NoKey}
    /\ key \in [Calls -> Keys \cup {NoKey}]
    /\ dry \in [Calls -> BOOLEAN] /\ confirmed \in [Calls -> BOOLEAN]
    /\ phase \in [Calls -> Phases]
    /\ overlaps \subseteq SUBSET Calls
    /\ installed \subseteq Calls

\* A proposal stands for one installation the user agreed to ("an explicit,
\* short-lived confirmation proposal"): two calls install under it only if both
\* were validated before either was answered, or one of them ended in an error
\* behind which QGIS went on. Without a confirmation nothing is installed.
OneInstallationPerProposal ==
    /\ \A c \in installed : confirmed[c]
    /\ \A c, d \in installed :
            \/ c = d
            \/ {c, d} \in overlaps
            \/ "unknown" \in {phase[c], phase[d]}
===============================================================================
