-------------------------- MODULE XhsDistributionMC --------------------------
(***************************************************************************)
(* Two requests about two accounts: the second publishes to the first      *)
(* account while the first publishes or saves a draft there.               *)
(***************************************************************************)
EXTENDS XhsDistribution, TLC

CONSTANTS r1, r2, k1, k2, a1, a2

Asked(k, m, l) == [key |-> k, mode |-> m, list |-> l, accounts |-> {l[i] : i \in DOMAIN l}]
Second(k) == Asked(k, "publish", <<a1>>)

MCAsks ==
    { r1 :> x @@ r2 :> Second(k2) :
        x \in {Asked(k1, "publish", <<a1>>), Asked(k1, "publish", <<a1, a2>>),
               Asked(k1, "draft", <<a1>>)} }
      \union { r1 :> Second(k1) @@ r2 :> Second(k1) }
=============================================================================
