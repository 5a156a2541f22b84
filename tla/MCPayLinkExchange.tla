------------------------- MODULE MCPayLinkExchange -------------------------
(* One shop that offers while it changes its roles, one buyer who answers twice. *)
EXTENDS PayLinkExchange, TLC

CONSTANTS m1, m2, p1, p2

Null == [schema |-> "null"]

MCLifetimeBound == [s \in Schemas |-> 4]

MCHome == (m1 :> "shop") @@ (m2 :> "shop") @@ (p1 :> "buyer") @@ (p2 :> "buyer")

MCWork == (m1 :> {"create"}) @@ (m2 :> {"activate"})
          @@ (p1 :> {"accept"}) @@ (p2 :> {"accept"})

MCLifetime == [node |-> 2, asset |-> 1, request |-> 2, intent |-> 1]

(* The two answers are asked for alike. *)
Same == Permutations({p1, p2})

MCDestinations == {[type |-> "wpkh", spelling |-> "uppercase"]}

MCSourceAccounts == {[type |-> "tr", spelling |-> "canonical"]}

MCSigned == ("shop" :> 1) @@ ("buyer" :> 2)

MCBudget == ("shop" :> [count |-> 2, bytes |-> 9]) @@ ("buyer" :> [count |-> 5, bytes |-> 9])
=============================================================================
