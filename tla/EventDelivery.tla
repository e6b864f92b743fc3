--------------------------- MODULE EventDelivery ---------------------------
(***************************************************************************)
(* What a notification promises, whoever delivers it: the receiver gets it *)
(* at most Max times, and the verdict, once there is one, is final: only a *)
(* notification that arrived is called accepted or refused.                *)
(***************************************************************************)
EXTENDS Naturals

CONSTANTS
    Notifications,
    Max             \* how often one may arrive

VARIABLES
    copies,  \* how often the receiver got it
    verdict  \* what became of it

Verdicts == {"accepted", "refused", "given up"}

Init == copies = [n \in Notifications |-> 0] /\ verdict = [n \in Notifications |-> "open"]

Arrive(n) ==
    /\ verdict[n] = "open" /\ copies[n] < Max
    /\ copies' = [copies EXCEPT ![n] = @ + 1]
    /\ UNCHANGED verdict

Conclude(n) ==
    /\ verdict[n] = "open"
    /\ \E v \in Verdicts : /\ v # "given up" => copies[n] > 0
                           /\ verdict' = [verdict EXCEPT ![n] = v]
    /\ UNCHANGED copies

Next == \E n \in Notifications : Arrive(n) \/ Conclude(n)

Spec == Init /\ [][Next]_<<copies, verdict>>
=============================================================================
