--------------------------- MODULE MCLandingExits ---------------------------
EXTENDS LandingExits, TLC
CONSTANTS n1, r1, u1, x1, x2, url, e1
MCOwner == (r1 :> u1)
MCTarget == (r1 :> x1)
MCHopNodes == (r1 :> {n1})
MCSources == {[sub |-> "none", manual |-> {x2}], [sub |-> url, manual |-> {}]}
MCKinds == {"source", "serve", "quota", "clear", "expires", "repo"}
Plan(f) == f @@ [k \in MCKinds |-> 0]
MCPlans ==
  {Plan("source" :> 2 @@ "quota" :> 1 @@ "clear" :> 1),
   Plan("serve" :> 1 @@ "expires" :> 1 @@ "clear" :> 1 @@ "quota" :> 1),
   Plan("repo" :> 2 @@ "quota" :> 1)}
=============================================================================
