-------------------------- MODULE MCAgentReconcile --------------------------
(***************************************************************************)
(* AgentReconcile for TLC. p1 and p2 are panel rules, l1 and l2 local ones. *)
(* l1 claims the port of p1; p1 targets a DNS name; p2, l1 and l2 are      *)
(* relayed in userspace. A behaviour of MCSpec follows one scenario:       *)
(*   mixed    every writer, faults but no loss of power; a revision of p1  *)
(*            and an empty one                                             *)
(*   literal  pushes of two revisions, faults, loss of power, imports; no  *)
(*            answer of DNS changes                                        *)
(*   refresh  no writer but the refresh loop, answers change, crashes      *)
(***************************************************************************)
EXTENDS AgentReconcile, TLC

CONSTANTS p1, p2, l1, l2, k1, k2, k3, name, ip, a1, a2, r1, r2, r3

VARIABLE scenario

MCKeyOf == (p1 :> k1) @@ (p2 :> k2) @@ (l1 :> k1) @@ (l2 :> k3)
MCHostOf == (p1 :> name) @@ (p2 :> ip) @@ (l1 :> ip) @@ (l2 :> ip)
MCPayload == (r1 :> {p1}) @@ (r2 :> {p2}) @@ (r3 :> {})
MCImported == {[panel |-> {p1}, tui |-> {l2}], [panel |-> {p2}, tui |-> {l1}]}

MCInit ==
  /\ Init
  /\ \/ scenario = "mixed" /\ disk = EmptyState /\ a2 \notin {answers[h] : h \in Hosts}
     \/ scenario = "literal" /\ answers = [h \in Hosts |-> a1]
     \/ scenario = "refresh"

Pushed == IF scenario = "mixed" THEN {r1, r3} ELSE {r1, r2}

MCNext ==
  /\ UNCHANGED scenario
  /\ \/ \E url \in ConnectModes : BootstrapLoad(url)
     \/ BootstrapApply \/ Crash
     \/ \E t \in Threads : RefreshOnce(t) \/ Resolve(t) \/ Apply(t) \/ Commit(t)
     \/ /\ scenario # "refresh"
        /\ \/ BootstrapApplyFails \/ Connect \/ Disconnect
           \/ \E t \in Threads : \/ \E r \in Pushed : PanelPush(t, r)
                                 \/ ClearTuiSegment(t) \/ ApplyFails(t) \/ SaveFails(t)
     \/ /\ scenario = "mixed"
        /\ \E t \in Threads : Edit(t) \/ \E r \in Pushed : LocalApply(t, r)
     \/ scenario = "literal" /\ (PowerLoss \/ WriteBack)
     \/ \E a \in Answer : /\ scenario # "literal" /\ (scenario = "mixed" => a # a2)
                          /\ DnsChange(name, a)

MCSpec == MCInit /\ [][MCNext]_<<vars, scenario>> /\ Fairness

\* DiskHonest, MemoryHonest and MemoryIsDisk are of literal targets,
\* RefreshConverges is of the refresh loop alone.
LiteralSegments == scenario = "literal" => DiskHonest /\ MemoryHonest /\ MemoryIsDisk
RefreshEnds == scenario = "refresh" => RefreshConverges
=============================================================================
