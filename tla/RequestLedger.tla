--------------------------- MODULE RequestLedger ---------------------------
(***************************************************************************)
(* What the bridge promises about each request line it receives: it is     *)
(* refused at once or accepted, it leaves the queue once, it is answered   *)
(* at most once and only as it is closed, and nothing happens to it after  *)
(* that.  One bridge step may move several requests (a disconnection drops *)
(* a client's whole backlog; a cancellation closes two), each along one of *)
(* the moves below.                                                        *)
(***************************************************************************)
EXTENDS Naturals, Sequences

CONSTANTS Requests, Answers

VARIABLES status, answers

Init ==
    /\ status = [r \in Requests |-> "unsent"]
    /\ answers = [r \in Requests |-> <<>>]

(* The moves of one request: its status and its answers before and after. *)
OneMore(before, after) == \E a \in Answers : after = Append(before, a)

Accepted(from, to) == from = "unsent" /\ to = "waiting"
Refused(from, to)  == from = "unsent" /\ to = "closed"
Started(from, to)  == from = "waiting" /\ to = "running"
Closed(from, to)   == from \in {"waiting", "running"} /\ to = "closed"

Moves(from, to, before, after) ==
    \/ (from = to \/ Accepted(from, to) \/ Started(from, to)) /\ after = before
    \/ Refused(from, to) /\ after = Append(before, "busy")
    \/ Closed(from, to) /\ (after = before \/ OneMore(before, after))

Next == \A r \in Requests : Moves(status[r], status'[r], answers[r], answers'[r])

Spec == Init /\ [][Next]_<<status, answers>>
=============================================================================
