------------------------------ MODULE PaymentRite ------------------------------
(***************************************************************************)
(* What pay() promises on every rail: quote -> confirm, "signed +          *)
(* broadcast, once".  A payment is quoted, then claimed by at most one     *)
(* confirmation, then either voided with nothing sent or dispatched once,  *)
(* consuming rail slots no other dispatched payment consumes (coins on     *)
(* Bitcoin, an account nonce on an EVM chain).  A dispatched payment can   *)
(* be settled in the local record but never voided.                        *)
(*                                                                         *)
(* This is the specification the two rails, BtcRail and EvmRail, implement.*)
(***************************************************************************)
EXTENDS Naturals, FiniteSets

CONSTANTS Payments,   \* identities of payments rows, used or not yet used
          Slots       \* the exclusive resources a dispatch consumes

VARIABLES phase,      \* [Payments -> phase of the rite]
          used        \* [Payments -> the slots the dispatched payment consumed]

vars == <<phase, used>>

Phases == {"absent", "quoted", "claimed", "void", "sent", "settled"}

Dispatched(p) == phase[p] \in {"sent", "settled"}

Init == /\ phase = [p \in Payments |-> "absent"]
        /\ used = [p \in Payments |-> {}]

Become(p, next) == phase' = [phase EXCEPT ![p] = next]

Quote(p) == /\ phase[p] = "absent"
            /\ Become(p, "quoted")
            /\ UNCHANGED used

Claim(p) == /\ phase[p] = "quoted"
            /\ Become(p, "claimed")
            /\ UNCHANGED used

Void(p) == /\ phase[p] \in {"quoted", "claimed"}
           /\ Become(p, "void")
           /\ UNCHANGED used

Dispatch(p, slots) ==
    /\ phase[p] = "claimed"
    /\ \A q \in Payments : Dispatched(q) => used[q] \cap slots = {}
    /\ Become(p, "sent")
    /\ used' = [used EXCEPT ![p] = slots]

Settle(p) == /\ phase[p] = "sent"
             /\ Become(p, "settled")
             /\ UNCHANGED used

Next == \E p \in Payments :
            \/ Quote(p)
            \/ Claim(p)
            \/ Void(p)
            \/ \E slots \in SUBSET Slots : Dispatch(p, slots)
            \/ Settle(p)

Spec == Init /\ [][Next]_vars
=============================================================================
