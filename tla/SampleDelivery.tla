--------------------------- MODULE SampleDelivery ---------------------------
(***************************************************************************)
(* What a buffering uploader promises of the records it accepts: each is   *)
(* pending until it is delivered, and only the end of the process loses    *)
(* what is pending.  Nothing lost comes back and nothing delivered is      *)
(* withdrawn.                                                              *)
(***************************************************************************)
EXTENDS Integers

CONSTANT Samples

VARIABLES
    status,      \* record -> "new", "pending", "delivered" or "lost"
    process      \* the number of the process

vars == <<status, process>>

Change(S, old, new) ==
    /\ \A s \in S : status[s] = old
    /\ status' = [s \in Samples |-> IF s \in S THEN new ELSE status[s]]

Pending == {s \in Samples : status[s] = "pending"}

Init ==
    /\ status = [s \in Samples |-> "new"]
    /\ process = 1

Accept(s) ==
    /\ Change({s}, "new", "pending")
    /\ UNCHANGED process

(* A batch is delivered as a whole, perhaps with records already there.    *)
Deliver ==
    /\ \E S \in SUBSET Pending : Change(S, "pending", "delivered")
    /\ UNCHANGED process

EndProcess ==
    /\ Change(Pending, "pending", "lost")
    /\ process' = process + 1

Next == (\E s \in Samples : Accept(s)) \/ Deliver \/ EndProcess

Spec == Init /\ [][Next]_vars

=============================================================================
