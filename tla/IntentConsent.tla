----------------------------- MODULE IntentConsent -----------------------------
(***************************************************************************)
(* What one signed payment intent may turn into.  It is bound to a single  *)
(* review, committed to by a signed record, claimed once, and spent once;  *)
(* or it is closed with nothing sent.  A human who was told that the       *)
(* review lapsed can rely on it: a lapsed intent can only close.           *)
(*                                                                         *)
(* PayLinkExecution is shown to implement this specification.              *)
(***************************************************************************)
CONSTANT Intents

VARIABLE consent      \* [Intents -> how far the intent got]

Phases == {"open", "bound", "committed", "claimed", "spent", "closed", "lapsed"}

Init == consent = [i \in Intents |-> "open"]

Step(i, from, to) ==
    /\ consent[i] \in from
    /\ consent' = [consent EXCEPT ![i] = to]

Bind(i)   == Step(i, {"open"}, "bound")
Commit(i) == Step(i, {"bound"}, "committed")
Claim(i)  == Step(i, {"committed"}, "claimed")
Spend(i)  == Step(i, {"claimed"}, "spent")
Close(i)  == Step(i, {"committed", "claimed", "lapsed"}, "closed")
Lapse(i)  == Step(i, {"bound", "committed"}, "lapsed")

Next == \E i \in Intents :
            Bind(i) \/ Commit(i) \/ Claim(i) \/ Spend(i) \/ Close(i) \/ Lapse(i)

Spec == Init /\ [][Next]_consent
=============================================================================
