---------------------------- MODULE MCProxyCores ----------------------------
EXTENDS ProxyCores

CONSTANTS r1, r2

MCInsts == 1 .. 4
MCCore == <<"xray", "sing-box", "mieru", "mieru">>
\* Configs of xray, one moved to another port, one it refuses, one that does not
\* listen; one of sing-box on the first port; of mieru, two with one account.
MCCfgs == {"x1", "moved", "bad", "mute", "s1", "m1", "m2", "n1", "old"}
MCPortOf == [c \in MCCfgs |-> CASE c = "moved" -> 2 [] c \in {"m1", "m2"} -> 3 [] c = "n1" -> 4 [] OTHER -> 1]
MCNameOf == [c \in MCCfgs |-> CASE c = "n1" -> "n" [] c = "old" -> "o" [] OTHER -> "m"]
MCWants == {<<1, "x1">>, <<1, "moved">>, <<1, "bad">>, <<1, "mute">>, <<2, "s1">>,
            <<3, "m1">>, <<3, "n1">>, <<4, "m2">>, <<4, "n1">>}
MCStrangers == {[port |-> 1, cfg |-> "old"]}
MCKinds == {"xray", "sing-box", "mieru", "stop", "crash", "restart", "traffic", "sample", "fault", "meet"}
Plan(f) == f @@ [k \in MCKinds |-> 0]
MCPlans ==
  {Plan("xray" :> 2 @@ "crash" :> 1),
   Plan("xray" :> 2 @@ "restart" :> 1),
   Plan("xray" :> 2 @@ "stop" :> 1),
   Plan("xray" :> 1 @@ "stop" :> 1 @@ "meet" :> 1),
   Plan("xray" :> 1 @@ "sing-box" :> 1 @@ "crash" :> 1),
   Plan("mieru" :> 3 @@ "stop" :> 1 @@ "fault" :> 1),
   Plan("mieru" :> 2 @@ "restart" :> 1 @@ "meet" :> 1),
   Plan("xray" :> 1 @@ "traffic" :> 2 @@ "sample" :> 3 @@ "fault" :> 1),
   Plan("xray" :> 1 @@ "traffic" :> 2 @@ "sample" :> 2 @@ "crash" :> 1),
   Plan("xray" :> 1 @@ "traffic" :> 2 @@ "sample" :> 2 @@ "restart" :> 1)}
=============================================================================
