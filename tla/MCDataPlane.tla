---------------------------- MODULE MCDataPlane ----------------------------
EXTENDS DataPlane, TLC

Row(port, proto, mode, dest, proxy, group, rate, cap) ==
  [port |-> port, proto |-> proto, mode |-> mode, dest |-> dest, proxy |-> proxy,
   group |-> group, rate |-> rate, cap |-> cap]

\* Destination 3 is ::1, destination 4 another IPv6 address.
First == {Row(10, "tcp", "userspace", 1, FALSE, 20, 5, 0),
          Row(11, "tcp+udp", "userspace", 1, FALSE, 20, 5, 0),
          Row(20, "udp", "kernel", 3, FALSE, 0, 0, 3)}
Second == {Row(10, "tcp", "userspace", 2, FALSE, 20, 4, 0),
           Row(11, "udp", "kernel", 4, FALSE, 20, 4, 0)}
Third == {Row(10, "tcp", "userspace", 1, TRUE, 0, 0, 3)}
\* Two rules on one port: refused.
Clash == {Row(10, "tcp", "userspace", 1, FALSE, 0, 0, 0),
          Row(10, "tcp+udp", "kernel", 1, FALSE, 0, 0, 0)}
MCRulesets == {First, Second, Third, Clash, {}}

MCExtras == {{}, {<<90, "tcp">>}, {<<91, "udp">>}}
MCKinds == {"apply", "bind", "nft", "tc", "chain", "deploy", "pool", "restart", "conn"}
Plan(f) == f @@ [k \in MCKinds |-> 0]
MCPlans ==
  {Plan("apply" :> 2 @@ "conn" :> 2),
   Plan("apply" :> 2 @@ "conn" :> 1 @@ "bind" :> 1),
   Plan("apply" :> 2 @@ "conn" :> 1 @@ "pool" :> 1),
   Plan("apply" :> 2 @@ "conn" :> 1 @@ "restart" :> 1),
   Plan("apply" :> 2 @@ "nft" :> 1 @@ "bind" :> 1),
   Plan("apply" :> 2 @@ "nft" :> 1 @@ "tc" :> 1),
   Plan("apply" :> 2 @@ "chain" :> 1),
   Plan("apply" :> 1 @@ "chain" :> 1 @@ "deploy" :> 1),
   Plan("apply" :> 1 @@ "deploy" :> 2)}
\* A rule with no limit, and none.
CloseRulesets == {{Row(10, "tcp", "userspace", 1, FALSE, 0, 0, 0)}, {}}
ClosePlans == {Plan("apply" :> 2 @@ "conn" :> 1)}
=============================================================================
