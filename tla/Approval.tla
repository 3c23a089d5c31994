------------------------------ MODULE Approval ------------------------------
(***************************************************************************)
(* What the HITL queue promises, whatever its files, locks and processes   *)
(* do: a request is asked for once, a human grants or denies it once, a    *)
(* denial is final, and a grant is spent by at most one run.               *)
(***************************************************************************)
CONSTANT Requests

VARIABLE stage

Stages == {"unasked", "asked", "granted", "denied", "spent"}

\* Grants recorded before the system starts are honoured.
Init == stage \in [Requests -> {"unasked", "granted"}]

Advance(q, from, to) ==
  /\ stage[q] = from
  /\ stage' = [stage EXCEPT ![q] = to]

Ask(q)   == Advance(q, "unasked", "asked")
Grant(q) == Advance(q, "asked", "granted")
Deny(q)  == Advance(q, "asked", "denied")
Spend(q) == Advance(q, "granted", "spent")

Next == \E q \in Requests : Ask(q) \/ Grant(q) \/ Deny(q) \/ Spend(q)

Spec == Init /\ [][Next]_stage
=============================================================================
