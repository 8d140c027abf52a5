--------------------------- MODULE MCRulePlacement ---------------------------
EXTENDS RulePlacement, TLC
CONSTANTS n1, n2, n3, c1, u1, u2, x1, x2, q1, q2
MCChildren == (c1 :> <<n1, n2>>)
MCBindings == {<<n1, n2>>}
MCPaths == {<<n1, << >>>>, <<n1, <<n2>>>>, <<c1, << >>>>}
MCChains == {<<n2>>}
MCOwnerOf == [n \in Physical |-> u1]
MCRelays == {[n \in Physical |-> [v4 |-> 1, v6 |-> IF n = n1 THEN 1 ELSE 0]]}
MCNoDirect == {{}}
MCKinds == {"create", "edit", "port", "agent", "delete", "revoke", "node", "relay", "setting"}
Plan(f) == f @@ [k \in MCKinds |-> 0]
MCPlans ==
  {Plan("create" :> 1 @@ "relay" :> 1 @@ "port" :> 1),
   Plan("create" :> 1 @@ "node" :> 1 @@ "edit" :> 1),
   Plan("create" :> 2 @@ "port" :> 1),
   Plan("create" :> 1 @@ "edit" :> 1 @@ "port" :> 1),
   Plan("create" :> 1 @@ "revoke" :> 1 @@ "setting" :> 1),
   Plan("create" :> 1 @@ "delete" :> 1 @@ "port" :> 1),
   Plan("create" :> 1 @@ "agent" :> 1 @@ "setting" :> 1)}
Symm == Permutations({q1, q2})
=============================================================================
