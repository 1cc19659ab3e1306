--------------------------- MODULE MCLocalBridge ---------------------------
(***************************************************************************)
(* Constants for model-checking LocalBridge: two clients, and of the       *)
(* methods one control call, one read, one plain mutation and the one that *)
(* runs a nested event loop.                                               *)
(***************************************************************************)
EXTENDS LocalBridge, TLC

CONSTANTS s1, s2

MCSockets == {s1, s2}
MCMethods == {"bridge.hello", "bridge.cancel", "session.snapshot", "visual.review"}
MCMutations == {"visual.review"}
MCDetails == [form : Form, target : 0..MaxRequests]

(* What the safety run's clients send: one call of each kind, and a request *)
(* that is valid JSON but no object.                                        *)
MCTraffic ==
    {<<"bridge.hello", "plain">>, <<"bridge.cancel", "plain">>,
     <<"session.snapshot", "plain">>, <<"session.snapshot", "notObject">>,
     <<"visual.review", "plain">>}

(* The liveness run's traffic has the malformed greetings instead. *)
MCGreetings ==
    {<<"bridge.hello", "plain">>, <<"bridge.hello", "wrong">>,
     <<"bridge.hello", "raises">>, <<"session.snapshot", "plain">>,
     <<"visual.review", "plain">>}

Symmetry == Permutations(MCSockets)
=============================================================================
