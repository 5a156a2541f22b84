----------------------------- MODULE MCCustody -----------------------------
(* Two processes on one file: A is asked to initialize the vault, B to     *)
(* initialize or to unlock it; then keys, node and agents.                 *)
EXTENDS Custody, TLC

CONSTANTS pass1, pass2, initA, openB, workA, workB, moreA

MCHome == (initA :> "A") @@ (openB :> "B") @@ (workA :> "A") @@ (workB :> "B")
          @@ (moreA :> "A")

MCWork == (initA :> {"init", "unlock"}) @@ (openB :> {"init", "unlock"})
          @@ (workA :> {"key", "node"}) @@ (workB :> {"node", "agent"})
          @@ (moreA :> {"sign", "node", "agent"})

Capability(name, grant, epoch) ==
    [wallet |-> "w", descriptor |-> "d", grant |-> grant, capability |-> name,
     epoch |-> epoch, count |-> 2, expires |-> 1, adapter |-> "trusted",
     total |-> [a \in Assets |-> 2], perIntent |-> [a \in Assets |-> 2]]

Request(capability, intent, nonce, spend) ==
    capability @@ [record |-> intent, intent |-> intent, source |-> "s",
                   nonce |-> nonce, spends |-> [a \in Assets |-> spend]]

(* Two of one grant that fit alone and not together, one under a           *)
(* capability that revokes the earlier epoch.                              *)
MCRequests ==
    {Request(Capability("c1", "g1", 0), "i1", "n1", 1),
     Request(Capability("c1", "g1", 0), "i2", "n2", 1),
     Request(Capability("c2", "g2", 1), "i4", "n1", 1)}

(* An authorization from before the usage table. *)
MCLegacy == {[id |-> "old", intent |-> "i0", grant |-> "g1", request |-> Unbound,
              spends |-> [a \in Assets |-> 1], at |-> 0, host |-> "old", order |-> 0]}

Same == Permutations(Passphrases)
=============================================================================
