----------------------------- MODULE Submission -----------------------------
(***************************************************************************)
(* What pressing Send promises, whatever the queue looks like inside: a      *)
(* message is queued once, may be taken by the submission server while it is *)
(* queued, and leaves the queue only to be delivered, having been taken at   *)
(* least once, or to be given up; both are final.                            *)
(***************************************************************************)
EXTENDS Naturals

CONSTANT Messages

VARIABLES
    status,  \* of every message: "unsent", "queued", "delivered" or "dead"
    taken    \* how often the server took it

Init ==
    /\ status = [m \in Messages |-> "unsent"]
    /\ taken = [m \in Messages |-> 0]

Queue(m) ==
    /\ status[m] = "unsent"
    /\ status' = [status EXCEPT ![m] = "queued"]
    /\ UNCHANGED taken

Take(m) ==
    /\ status[m] = "queued"
    /\ taken' = [taken EXCEPT ![m] = @ + 1]
    /\ UNCHANGED status

Deliver(m) ==
    /\ status[m] = "queued" /\ taken[m] > 0
    /\ status' = [status EXCEPT ![m] = "delivered"]
    /\ UNCHANGED taken

GiveUp(m) ==
    /\ status[m] = "queued"
    /\ status' = [status EXCEPT ![m] = "dead"]
    /\ UNCHANGED taken

Next == \E m \in Messages : Queue(m) \/ Take(m) \/ Deliver(m) \/ GiveUp(m)

Spec == Init /\ [][Next]_<<status, taken>>
=============================================================================
