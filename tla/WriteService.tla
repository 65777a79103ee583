---------------------------- MODULE WriteService ----------------------------
(***************************************************************************)
(* What submitTrafficWrite promises its callers: the write they hand over  *)
(* is applied once and they are told so, or it is refused, is never        *)
(* applied and they are told that.  Nothing is said of the order or of     *)
(* which goroutine applies it.                                             *)
(***************************************************************************)
CONSTANTS Write

VARIABLES fate,    \* what became of each write
          answer   \* what its caller was told

Init == /\ fate = [w \in Write |-> "open"]
        /\ answer = [w \in Write |-> "none"]

Apply(w) == /\ fate[w] = "open"
            /\ fate' = [fate EXCEPT ![w] = "applied"]
            /\ UNCHANGED answer

Refuse(w) == /\ fate[w] = "open"
             /\ fate' = [fate EXCEPT ![w] = "refused"]
             /\ answer' = [answer EXCEPT ![w] = "error"]

Confirm(w) == /\ fate[w] = "applied" /\ answer[w] = "none"
              /\ answer' = [answer EXCEPT ![w] = "ok"]
              /\ UNCHANGED fate

Next == \E w \in Write : Apply(w) \/ Refuse(w) \/ Confirm(w)

Spec == Init /\ [][Next]_<<fate, answer>>
=============================================================================
