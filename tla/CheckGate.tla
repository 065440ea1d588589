------------------------------ MODULE CheckGate ------------------------------
(***************************************************************************)
(* What the callers of CheckMountPoint can count on, with no breaker, no   *)
(* retry loop and no clock in sight: a gate in front of findmnt.           *)
(*                                                                         *)
(* Whoever is inside runs findmnt. The gate comes down when the last one   *)
(* inside leaves it down; from then on everyone is turned away, and only   *)
(* the operator (ResetCircuitBreaker) raises it. No passage of time does.  *)
(***************************************************************************)
CONSTANT Callers

VARIABLES
    gate,   \* "up" or "down"
    phase   \* where each caller is

gateVars == <<gate, phase>>

Phase == {"idle", "asking", "inside", "refused", "served"}

Init ==
    /\ gate = "up"
    /\ phase = [c \in Callers |-> "idle"]

Move(c, from, to) ==
    /\ phase[c] = from
    /\ phase' = [phase EXCEPT ![c] = to]

Ask(c) == Move(c, "idle", "asking") /\ UNCHANGED gate

Enter(c) == gate = "up" /\ Move(c, "asking", "inside") /\ UNCHANGED gate

TurnAway(c) == Move(c, "asking", "refused") /\ UNCHANGED gate

NobodyElseInside(c) == \A d \in Callers \ {c} : phase[d] # "inside"

\* Refused at the second look, or served; the last one out may shut the gate.
Leave(c) ==
    /\ \E to \in {"refused", "served"} : Move(c, "inside", to)
    /\ \/ UNCHANGED gate
       \/ NobodyElseInside(c) /\ gate' = "down"

Answer(c) ==
    /\ \E from \in {"refused", "served"} : Move(c, from, "idle")
    /\ UNCHANGED gate

Raise == gate' = "up" /\ UNCHANGED phase

Next ==
    \/ \E c \in Callers : Ask(c) \/ Enter(c) \/ TurnAway(c) \/ Leave(c) \/ Answer(c)
    \/ Raise

Spec == Init /\ [][Next]_gateVars

(* Nobody runs findmnt behind a gate that is down. *)
TypeOK ==
    /\ gate \in {"up", "down"}
    /\ phase \in [Callers -> Phase]
    /\ gate = "down" => \A c \in Callers : phase[c] # "inside"
=============================================================================
