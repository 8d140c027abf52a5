--------------------------- MODULE MCQuotaLedger ---------------------------
EXTENDS QuotaLedger
CONSTANTS n1, n2, r1, r2, u1, c1, h1
MCOwner == (r1 :> u1) @@ (r2 :> u1)
MCHops == (r1 :> <<n1, n2>>) @@ (r2 :> <<n1>>)
MCRuleSets == {{r1}, {r2}}
MCSamples ==
  (r1 :> {[up |-> 1, down |-> 0]})
    @@ (r2 :> {[up |-> 1, down |-> 0], [up |-> 0, down |-> 1]})
MCRate == (u1 :> 0)
=============================================================================
