------------------------- MODULE QuotaLedgerProofs -------------------------
(***************************************************************************)
(* Proofs about QuotaLedger, for any users, nodes, rules, quotas, samples  *)
(* and rates, and any number of re-checks and requests at work together.   *)
(***************************************************************************)
EXTENDS QuotaLedger, SumTheorems

Bytes == [up : Nat, down : Nat]

(***************************************************************************)
(* What a batch adds to the ledgers.                                       *)
(***************************************************************************)
LEMMA RulesFinite ==
  ASSUME UsersTyped
  PROVE  /\ rules \subseteq Rules
         /\ \A T \in SUBSET Rules : IsFiniteSet(T)
         /\ \A u : RulesOf(u) \subseteq Rules
BY QuotaAssumption, FS_Subset DEF UsersTyped, RulesOf

LEMMA AddsNat ==
  ASSUME NEW n, NEW r, NEW s \in Bytes
  PROVE  /\ Billed(n, s) \in Nat /\ UserAdd(n, r, s) \in Nat /\ ExitAdd(n, r, s) \in Nat
         /\ UserAdd(n, r, s) <= ExitAdd(n, r, s)
BY DEF Bytes, Billed, UserAdd, ExitAdd, Total

LEMMA SumsNat ==
  ASSUME NEW n, NEW smp \in [Rules -> Bytes], UsersTyped
  PROVE  /\ \A u : UsedAdd(n, smp, u) \in Nat
         /\ \A u, m : GrantAdd(n, smp, u, m) \in Nat
<1>1. ASSUME NEW u
      PROVE  UsedAdd(n, smp, u) \in Nat
  <2> DEFINE f == [r \in RulesOf(u) |-> UserAdd(n, r, smp[r])]
  <2>1. IsFiniteSet(RulesOf(u)) /\ RulesOf(u) \subseteq Rules
    BY RulesFinite
  <2>2. \A r \in RulesOf(u) : f[r] \in Nat
    BY <2>1, AddsNat
  <2> HIDE DEF f
  <2>3. SumFunctionOnSet(f, RulesOf(u)) \in Nat
    BY <2>1, <2>2, SumNat
  <2> QED BY <2>3 DEF f, UsedAdd
<1>2. ASSUME NEW u, NEW m
      PROVE  GrantAdd(n, smp, u, m) \in Nat
  <2> DEFINE S == {r \in RulesOf(u) : m \in Charged(n, r)}
             f == [r \in S |-> Billed(n, smp[r])]
  <2>1. S \subseteq Rules /\ IsFiniteSet(S)
    BY RulesFinite
  <2>2. \A r \in S : f[r] \in Nat
    BY <2>1, AddsNat
  <2>3. SumFunctionOnSet(f, S) \in Nat
    <3> HIDE DEF f, S
    <3> QED BY <2>1, <2>2, SumNat
  <2> QED BY <2>3 DEF GrantAdd
<1> QED BY <1>1, <1>2

(***************************************************************************)
(* The operations on the ledgers keep their type.                          *)
(***************************************************************************)
LEMMA WipeTyped ==
  ASSUME LedgersTyped, UsersTyped, NEW u \in Users, NEW at \in 0..cycle, Wipe(u, at),
         cycle' = cycle
  PROVE  LedgersTyped'
BY DEF LedgersTyped, UsersTyped, Wipe

LEMMA BillTyped ==
  ASSUME LedgersTyped, UsersTyped, NEW n \in Nodes, NEW smp \in [Rules -> Bytes],
         Bill(n, smp), cycle' = cycle
  PROVE  LedgersTyped'
<1>1. \A u \in Users : UsedAdd(n, smp, u) \in Nat
  BY SumsNat
<1>2. \A k \in Users \X Nodes : GrantAdd(n, smp, k[1], k[2]) \in Nat
  BY SumsNat
<1>3. \A r \in Rules : UserAdd(n, r, smp[r]) \in Nat /\ ExitAdd(n, r, smp[r]) \in Nat
  BY AddsNat
<1>4. used' \in [Users -> Nat]
  BY <1>1 DEF Bill, LedgersTyped
<1>5. ruleBytes' \in [Rules -> Nat] /\ exitBytes' \in [Rules -> Nat]
  BY <1>3 DEF Bill, LedgersTyped
<1>6. grant' \in [Users \X Nodes -> [used : Nat, quota : Quotas]]
  BY <1>2 DEF Bill, LedgersTyped
<1>7. resetAt' \in [Users -> 0..cycle']
  BY DEF Bill, LedgersTyped
<1> QED BY <1>4, <1>5, <1>6, <1>7 DEF LedgersTyped

LEMMA BillProxyTyped ==
  ASSUME LedgersTyped, UsersTyped, NEW r \in Rules, NEW s \in Bytes,
         BillProxy(r, s), cycle' = cycle
  PROVE  LedgersTyped'
<1>1. Owner[r] \in Users /\ Via[r][1] \in Nodes /\ Total(s) \in Nat
  <2>1. Via[r] \in Seq(Nodes) /\ Len(Via[r]) = Len(Hops[r]) /\ Hops[r] \in Seq(Nodes)
        /\ Hops[r] # <<>>
    BY QuotaAssumption
  <2>2. Via[r][1] \in Nodes
    BY <2>1
  <2> QED BY <2>2, QuotaAssumption DEF Total, Bytes
<1>2. PICK b \in Nat : b = Total(s)
  BY <1>1
<1>3. used' \in [Users -> Nat]
  BY <1>1, <1>2 DEF LedgersTyped, BillProxy
<1>4. ruleBytes' \in [Rules -> Nat] /\ exitBytes' \in [Rules -> Nat]
  BY <1>2 DEF LedgersTyped, BillProxy
<1>5. grant' \in [Users \X Nodes -> [used : Nat, quota : Quotas]]
  <2>1. PICK k : k = <<Owner[r], Via[r][1]>>
    OBVIOUS
  <2>2. k \in Users \X Nodes
    BY <1>1, <2>1
  <2>3. PICK row : row = grant[k]
    OBVIOUS
  <2>4. row \in [used : Nat, quota : Quotas]
    BY <2>2, <2>3 DEF LedgersTyped
  <2>5. grant' = [grant EXCEPT ![k] = [row EXCEPT !.used = @ + b]]
    BY <1>2, <2>1, <2>3 DEF BillProxy
  <2>6. [row EXCEPT !.used = @ + b] \in [used : Nat, quota : Quotas]
    BY <1>2, <2>4
  <2>7. grant \in [Users \X Nodes -> [used : Nat, quota : Quotas]]
    BY DEF LedgersTyped
  <2> QED BY <2>5, <2>6, <2>7, Zenon
<1>6. resetAt' \in [Users -> 0..cycle']
  BY DEF LedgersTyped, BillProxy
<1> QED BY <1>3, <1>4, <1>5, <1>6 DEF LedgersTyped

(***************************************************************************)
(* The sets of nodes, rules and users the operators select from.           *)
(***************************************************************************)
LEMMA Selections ==
  ASSUME UsersTyped
  PROVE  /\ \A u : DistinctUserNodes(u) \subseteq Nodes
         /\ \A u, m : RulesAffectedByNode(u, m) \subseteq Nodes
         /\ ExpiredUserNodeIDs \subseteq Nodes
         /\ \A n : ActiveRules(n) \subseteq RulesAt(n) /\ RulesAt(n) \subseteq rules
         /\ \A r \in rules : Owner[r] \in Users
         /\ \A us : StaleOf(us) \subseteq us /\ OffOf(us) \subseteq us
         /\ \A n, smp : Touched(n, smp) \subseteq Users
<1>1. rules \subseteq Rules /\ \A r \in rules : Owner[r] \in Users
  BY RulesFinite, QuotaAssumption
<1>2. \A r \in Rules : \A i \in DOMAIN Hops[r] : Hops[r][i] \in Nodes
  BY QuotaAssumption
<1>3. \A u, m : RulesAffectedByNode(u, m) \subseteq Nodes
  BY <1>1, <1>2 DEF RulesAffectedByNode, RulesOf
<1>4. \A u : DistinctUserNodes(u) \subseteq Nodes
  BY DEF DistinctUserNodes
<1>5. ExpiredUserNodeIDs \subseteq Nodes
  BY <1>4 DEF ExpiredUserNodeIDs
<1> QED
  BY <1>1, <1>3, <1>4, <1>5 DEF ActiveRules, RulesAt, StaleOf, OffOf, Touched

LEMMA NextUserTyped ==
  ASSUME ChecksTyped, NEW t \in Threads, NextUser(t)
  PROVE  ChecksTyped'
BY DEF ChecksTyped, NextUser, NoCheck, At, Threads

LEMMA AtTyped ==
  ASSUME ChecksTyped, NEW t \in Threads,
         NEW pc \in {"read", "lift", "grants"}, NEW u \in Users \cup {NoUser},
         NEW us \in SUBSET Users, NEW after \in SUBSET Nodes,
         pc # "grants" => u \in Users,
         check' = [check EXCEPT ![t] = At(pc, u, us, after)]
  PROVE  ChecksTyped'
BY DEF ChecksTyped, At, Threads

LEMMA RecheckTyped ==
  ASSUME ChecksTyped, NEW n \in Nodes, NEW us \in SUBSET Users, Recheck(n, us)
  PROVE  ChecksTyped'
<1>1. PICK t \in Threads : check' = [check EXCEPT ![t] = At("grants", NoUser, us, {})]
  BY DEF Recheck, Threads
<1> QED BY <1>1 DEF ChecksTyped, At

LEMMA InitTyped ==
  ASSUME Init
  PROVE  TypeOK
<1>1. LedgersTyped
  BY DEF Init, LedgersTyped
<1>2. UsersTyped
  BY QuotaAssumption DEF Init, UsersTyped
<1>3. PushesTyped
  BY <1>2, RulesFinite DEF Init, PushesTyped, RulesAt
<1>4. BatchesTyped
  BY DEF Init, BatchesTyped, NoBatch, NoBytes
<1>5. ChecksTyped
  BY DEF Init, ChecksTyped, NoCheck, At
<1>6. TickTyped
  BY DEF Init, TickTyped, NoTick
<1> QED BY <1>1, <1>2, <1>3, <1>4, <1>5, <1>6 DEF TypeOK

(***************************************************************************)
(* Every step keeps the types. RulesAt is of rules, which never change.    *)
(***************************************************************************)
LEMMA PushesKept ==
  ASSUME PushesTyped, UNCHANGED <<rules, live>>, todo' \subseteq Nodes, owed' \subseteq Users
  PROVE  PushesTyped'
BY DEF PushesTyped, RulesAt

LEMMA LiftTyped ==
  ASSUME TypeOK, NEW u \in Users, NEW lift, Lift(u, lift),
         UNCHANGED <<rules, cycle, edits>>
  PROVE  UsersTyped' /\ PushesTyped'
<1>1. UsersTyped'
  BY DEF TypeOK, UsersTyped, Lift
<1>2. todo' \subseteq Nodes /\ owed' \subseteq Users /\ UNCHANGED live
  BY Selections DEF TypeOK, PushesTyped, Lift
<1> QED BY <1>1, <1>2, PushesKept DEF TypeOK

LEMMA TypeStep ==
  ASSUME TypeOK, [Next]_vars
  PROVE  TypeOK'
<1> USE DEF TypeOK
<1>1. CASE UNCHANGED vars
  <2>1. LedgersTyped' /\ UsersTyped' /\ TickTyped'
    BY <1>1 DEF vars, world, ledgerVars, userVars, LedgersTyped, UsersTyped, TickTyped
  <2>2. PushesTyped' /\ BatchesTyped' /\ ChecksTyped'
    BY <1>1 DEF vars, world, pushVars, PushesTyped, BatchesTyped, ChecksTyped, RulesAt
  <2> QED BY <2>1, <2>2
<1>2. ASSUME NEW n \in Nodes, LoadBatch(n)
      PROVE  TypeOK'
  <2>1. LedgersTyped' /\ UsersTyped' /\ TickTyped'
    BY <1>2 DEF LoadBatch, world, ledgerVars, userVars, LedgersTyped, UsersTyped, TickTyped
  <2>2. PushesTyped' /\ ChecksTyped'
    BY <1>2 DEF LoadBatch, world, pushVars, PushesTyped, ChecksTyped, RulesAt
  <2>3. BatchesTyped'
    <3>1. PICK smp \in [Rules -> [up : 0..MaxUsed, down : 0..MaxUsed]], old \in SUBSET Users :
            batch' = [batch EXCEPT ![n] = [pc |-> "owners", smp |-> smp, stale |-> old,
                                           off |-> OffOf(old), user |-> NoUser]]
      <4> DEFINE old == StaleOf({Owner[q] : q \in RulesAt(n)})
      <4>1. old \in SUBSET Users
        BY Selections
      <4> QED BY <1>2, <4>1 DEF LoadBatch
    <3>2. smp \in [Rules -> [up : Nat, down : Nat]]
      BY QuotaAssumption
    <3>3. OffOf(old) \in SUBSET Users
      BY Selections
    <3> QED BY <3>1, <3>2, <3>3 DEF BatchesTyped
  <2> QED BY <2>1, <2>2, <2>3
<1>3. ASSUME NEW n \in Nodes, RolloverInBatch(n)
      PROVE  TypeOK'
  <2>1. PICK u \in batch[n].stale :
          /\ Wipe(u, cycle)
          /\ batch' = [batch EXCEPT ![n].pc = "lift", ![n].user = u, ![n].stale = @ \ {u}]
    BY <1>3 DEF RolloverInBatch
  <2>2. u \in Users /\ cycle \in 0..cycle
    BY DEF BatchesTyped, UsersTyped
  <2>3. LedgersTyped' /\ UsersTyped' /\ TickTyped'
    BY <1>3, <2>1, <2>2, WipeTyped DEF RolloverInBatch, world, userVars, UsersTyped, TickTyped
  <2>4. PushesTyped' /\ ChecksTyped'
    BY <1>3 DEF RolloverInBatch, world, pushVars, PushesTyped, ChecksTyped, RulesAt
  <2>5. BatchesTyped'
    BY <2>1, <2>2 DEF BatchesTyped
  <2> QED BY <2>3, <2>4, <2>5
<1>4. ASSUME NEW n \in Nodes, LiftInBatch(n)
      PROVE  TypeOK'
  <2>1. batch[n].user \in Users
    BY <1>4 DEF LiftInBatch, BatchesTyped
  <2>2. UsersTyped' /\ PushesTyped'
    BY <1>4, <2>1, LiftTyped DEF LiftInBatch, world
  <2>3. LedgersTyped' /\ TickTyped' /\ ChecksTyped'
    BY <1>4 DEF LiftInBatch, world, ledgerVars, LedgersTyped, TickTyped, ChecksTyped
  <2>4. BatchesTyped'
    <3>1. PICK b : b = batch[n]
      OBVIOUS
    <3>2. b \in [pc : {"idle", "owners", "lift"}, smp : [Rules -> [up : Nat, down : Nat]],
                 stale : SUBSET Users, off : SUBSET Users, user : Users \cup {NoUser}]
      BY <3>1 DEF BatchesTyped
    <3>3. PICK c : c = [b EXCEPT !.pc = "owners", !.user = NoUser]
      OBVIOUS
    <3>4. c.pc = "owners" /\ c \in
            [pc : {"idle", "owners", "lift"}, smp : [Rules -> [up : Nat, down : Nat]],
             stale : SUBSET Users, off : SUBSET Users, user : Users \cup {NoUser}]
      BY <3>2, <3>3
    <3>5. batch' = [batch EXCEPT ![n] = c]
      BY <1>4, <3>1, <3>3 DEF LiftInBatch
    <3> QED BY <3>4, <3>5 DEF BatchesTyped
  <2> QED BY <2>2, <2>3, <2>4
<1>5. ASSUME NEW n \in Nodes, CommitBatch(n)
      PROVE  TypeOK'
  <2>1. batch[n].smp \in [Rules -> Bytes] /\ cycle' = cycle
    BY <1>5 DEF CommitBatch, world, BatchesTyped, Bytes
  <2>2. LedgersTyped'
    <3>1. CASE Bill(n, batch[n].smp)
      BY <2>1, <3>1, BillTyped
    <3>2. CASE UNCHANGED ledgerVars
      BY <2>1, <3>2 DEF ledgerVars, LedgersTyped
    <3> QED BY <1>5, <3>1, <3>2 DEF CommitBatch
  <2>3. UsersTyped' /\ PushesTyped' /\ TickTyped'
    BY <1>5 DEF CommitBatch, world, userVars, pushVars, UsersTyped, PushesTyped, TickTyped,
       RulesAt
  <2>4. ChecksTyped'
    <3>1. Touched(n, batch[n].smp) \in SUBSET Users
      BY Selections
    <3>2. CASE UNCHANGED check
      BY <3>2 DEF ChecksTyped
    <3>3. CASE Recheck(n, Touched(n, batch[n].smp))
      BY <3>1, <3>3, RecheckTyped
    <3> QED BY <1>5, <3>2, <3>3 DEF CommitBatch
  <2>5. BatchesTyped'
    BY <1>5 DEF CommitBatch, BatchesTyped, NoBatch, NoBytes
  <2> QED BY <2>2, <2>3, <2>4, <2>5
<1>6. ASSUME NEW n \in Nodes, ProxyBatch(n)
      PROVE  TypeOK'
  <2>1. PICK r \in rules : \E b \in Samples[r] : BillProxy(r, b) /\ Recheck(n, {Owner[r]})
    BY <1>6 DEF ProxyBatch
  <2> PICK b \in Samples[r] : BillProxy(r, b) /\ Recheck(n, {Owner[r]})
    BY <2>1
  <2>2. r \in Rules /\ b \in Bytes /\ {Owner[r]} \in SUBSET Users
    BY RulesFinite, QuotaAssumption DEF Bytes
  <2>3. LedgersTyped'
    BY <1>6, <2>1, <2>2, BillProxyTyped DEF ProxyBatch, world
  <2>4. ChecksTyped'
    BY <2>1, <2>2, RecheckTyped
  <2>5. UsersTyped' /\ PushesTyped' /\ TickTyped' /\ BatchesTyped'
    BY <1>6 DEF ProxyBatch, world, userVars, pushVars, UsersTyped, PushesTyped, TickTyped,
       BatchesTyped, RulesAt
  <2> QED BY <2>3, <2>4, <2>5
<1>7. ASSUME NEW n \in Nodes, dispatchToNode(n)
      PROVE  TypeOK'
  <2>1. LedgersTyped' /\ UsersTyped' /\ TickTyped' /\ BatchesTyped' /\ ChecksTyped'
    BY <1>7 DEF dispatchToNode, world, userVars, ledgerVars, UsersTyped, LedgersTyped,
       TickTyped, BatchesTyped, ChecksTyped
  <2>2. ActiveRules(n) \subseteq RulesAt(n) /\ ActiveRules(n) \subseteq Rules
    BY Selections, RulesFinite
  <2>3. \A m : RulesAt(m)' = RulesAt(m)
    BY <1>7 DEF dispatchToNode, world, RulesAt
  <2>4. PushesTyped'
    BY <1>7, <2>2, <2>3 DEF dispatchToNode, PushesTyped
  <2> QED BY <2>1, <2>4
<1>8. ASSUME NEW t \in Threads, EnforcePerNode(t)
      PROVE  TypeOK'
  <2>1. LedgersTyped' /\ UsersTyped' /\ TickTyped' /\ BatchesTyped'
    BY <1>8 DEF EnforcePerNode, world, userVars, ledgerVars, UsersTyped, LedgersTyped,
       TickTyped, BatchesTyped
  <2>2. PushesTyped'
    BY <1>8, Selections, PushesKept DEF EnforcePerNode, world, PushesTyped
  <2>3. ChecksTyped'
    <3>1. PICK u \in check[t].users :
            check' = [check EXCEPT ![t] = At("read", u, check[t].users \ {u}, check[t].after)]
      BY <1>8 DEF EnforcePerNode
    <3>2. /\ u \in Users /\ check[t].users \ {u} \in SUBSET Users
          /\ check[t].after \in SUBSET Nodes
      BY DEF ChecksTyped
    <3> QED BY <3>1, <3>2, AtTyped
  <2> QED BY <2>1, <2>2, <2>3
<1>9. ASSUME NEW t \in Threads, EnforceRead(t)
      PROVE  TypeOK'
  <2>1. LedgersTyped' /\ UsersTyped' /\ TickTyped' /\ BatchesTyped'
    BY <1>9 DEF EnforceRead, world, userVars, ledgerVars, UsersTyped, LedgersTyped,
       TickTyped, BatchesTyped
  <2>2. check[t].after \subseteq Nodes
    BY DEF ChecksTyped
  <2>3. PushesTyped'
    BY <1>9, <2>2, PushesKept DEF EnforceRead, world, PushesTyped
  <2>4. ChecksTyped'
    <3>1. CASE check' = [check EXCEPT ![t].pc = "disable"]
      BY <1>9, <3>1 DEF EnforceRead, ChecksTyped
    <3>2. CASE NextUser(t)
      BY <3>2, NextUserTyped
    <3> QED BY <1>9, <3>1, <3>2 DEF EnforceRead
  <2> QED BY <2>1, <2>3, <2>4
<1>10. ASSUME NEW t \in Threads, EnforceDisable(t)
       PROVE  TypeOK'
  <2>1. LedgersTyped' /\ UsersTyped' /\ TickTyped' /\ BatchesTyped'
    BY <1>10 DEF EnforceDisable, world, ledgerVars, UsersTyped, LedgersTyped, TickTyped,
       BatchesTyped
  <2>2. check[t].after \subseteq Nodes /\ DistinctUserNodes(check[t].user) \subseteq Nodes
    BY Selections DEF ChecksTyped
  <2>3. PushesTyped'
    BY <1>10, <2>2, PushesKept DEF EnforceDisable, world, PushesTyped
  <2>4. ChecksTyped'
    BY <1>10, NextUserTyped DEF EnforceDisable
  <2> QED BY <2>1, <2>3, <2>4
<1>11. ASSUME NEW t \in Threads, LiftAfterReset(t)
       PROVE  TypeOK'
  <2>1. check[t].user \in Users
    BY <1>11 DEF LiftAfterReset, ChecksTyped
  <2>2. UsersTyped' /\ PushesTyped'
    BY <1>11, <2>1, LiftTyped DEF LiftAfterReset, world
  <2>3. LedgersTyped' /\ TickTyped' /\ BatchesTyped'
    BY <1>11 DEF LiftAfterReset, world, ledgerVars, LedgersTyped, TickTyped, BatchesTyped
  <2>4. ChecksTyped'
    BY <1>11 DEF LiftAfterReset, ChecksTyped, NoCheck, At
  <2> QED BY <2>2, <2>3, <2>4
<1>12. CASE NewCycle
  <2>1. LedgersTyped' /\ UsersTyped'
    BY <1>12, QuotaAssumption DEF NewCycle, ledgerVars, userVars, LedgersTyped, UsersTyped
  <2>2. PushesTyped' /\ BatchesTyped' /\ ChecksTyped' /\ TickTyped'
    BY <1>12 DEF NewCycle, pushVars, PushesTyped, BatchesTyped, ChecksTyped, TickTyped, RulesAt
  <2> QED BY <2>1, <2>2
<1>13. CASE TickList \/ TickReset
  <2>1. PushesTyped' /\ BatchesTyped' /\ ChecksTyped' /\ UsersTyped'
    BY <1>13 DEF TickList, TickReset, world, userVars, pushVars, PushesTyped, BatchesTyped,
       ChecksTyped, UsersTyped, RulesAt
  <2>2. CASE TickList
    <3>1. StaleOf(Users) \in SUBSET Users /\ OffOf(StaleOf(Users)) \in SUBSET Users
      BY Selections
    <3>2. TickTyped'
      BY <2>2, <3>1 DEF TickList, TickTyped
    <3>3. LedgersTyped'
      BY <2>2 DEF TickList, world, ledgerVars, LedgersTyped
    <3> QED BY <2>1, <3>2, <3>3
  <2>3. CASE TickReset
    <3>1. PICK u \in tick.stale :
            Wipe(u, cycle) /\ tick' = [tick EXCEPT !.pc = "lift", !.user = u, !.stale = @ \ {u}]
      BY <2>3 DEF TickReset
    <3>2. u \in Users /\ cycle \in 0..cycle
      BY DEF TickTyped, UsersTyped
    <3>3. LedgersTyped'
      BY <2>3, <3>1, <3>2, WipeTyped DEF TickReset, world
    <3>4. TickTyped'
      BY <3>1, <3>2 DEF TickTyped
    <3> QED BY <2>1, <3>3, <3>4
  <2> QED BY <1>13, <2>2, <2>3
<1>14. CASE TickLift
  <2>1. tick.user \in Users
    BY <1>14 DEF TickLift, TickTyped
  <2>2. UsersTyped' /\ PushesTyped'
    <3>1. CASE Lift(tick.user, tick.user \in tick.off)
      BY <1>14, <2>1, <3>1, LiftTyped DEF TickLift, world
    <3>2. CASE owed' = owed \cup {tick.user} /\ UNCHANGED <<userVars, live, todo>>
      BY <1>14, <2>1, <3>2 DEF TickLift, world, userVars, UsersTyped, PushesTyped, RulesAt
    <3> QED BY <1>14, <3>1, <3>2 DEF TickLift
  <2>3. LedgersTyped' /\ ChecksTyped' /\ BatchesTyped'
    BY <1>14 DEF TickLift, world, ledgerVars, LedgersTyped, ChecksTyped, BatchesTyped
  <2>4. TickTyped'
    BY <1>14 DEF TickLift, TickTyped, NoTick
  <2> QED BY <2>2, <2>3, <2>4
<1>15. CASE ExpiryTick
  <2>1. PushesTyped'
    BY <1>15, Selections, PushesKept DEF ExpiryTick, world, PushesTyped
  <2>2. UsersTyped' /\ LedgersTyped' /\ ChecksTyped' /\ BatchesTyped' /\ TickTyped'
    BY <1>15 DEF ExpiryTick, world, userVars, ledgerVars, UsersTyped, LedgersTyped, ChecksTyped,
       BatchesTyped, TickTyped
  <2> QED BY <2>1, <2>2
<1>16. ASSUME NEW u \in Users, Expire(u)
       PROVE  TypeOK'
  <2>1. UsersTyped' /\ LedgersTyped'
    BY <1>16, QuotaAssumption DEF Expire, world, ledgerVars, UsersTyped, LedgersTyped
  <2>2. PushesTyped' /\ ChecksTyped' /\ BatchesTyped' /\ TickTyped'
    BY <1>16 DEF Expire, world, pushVars, PushesTyped, ChecksTyped, BatchesTyped, TickTyped,
       RulesAt
  <2> QED BY <2>1, <2>2
<1>17. ASSUME NEW h \in Handlers, NEW u \in Users,
              \/ apiSetUserQuota(h, u) \/ apiUpdateUserProfile(h, u)
              \/ apiResetUserTraffic(h, u)
       PROVE  TypeOK'
  <2>1. BatchesTyped' /\ TickTyped' /\ UNCHANGED rules /\ cycle' = cycle /\ edits' \in 0..MaxEdits
    BY <1>17, QuotaAssumption
       DEF apiSetUserQuota, apiUpdateUserProfile, apiResetUserTraffic, Request, world,
           BatchesTyped, TickTyped, UsersTyped
  <2>2. /\ h \in Threads /\ u \in Users \cup {NoUser} /\ {} \in SUBSET Users
        /\ {} \in SUBSET Nodes /\ DistinctUserNodes(u) \in SUBSET Nodes
        /\ "read" \in {"read", "lift", "grants"} /\ "lift" \in {"read", "lift", "grants"}
    BY Selections DEF Threads
  <2>3. UsersTyped'
    BY <1>17, <2>1
       DEF apiSetUserQuota, apiUpdateUserProfile, apiResetUserTraffic, userVars, UsersTyped
  <2>4. PushesTyped'
    BY <1>17, <2>1
       DEF apiSetUserQuota, apiUpdateUserProfile, apiResetUserTraffic, pushVars, PushesTyped,
           RulesAt
  <2>5. ChecksTyped'
    <3>1. PICK pc \in {"read", "lift"}, after \in SUBSET Nodes :
            check' = [check EXCEPT ![h] = At(pc, u, {}, after)]
      BY <1>17, <2>2 DEF apiSetUserQuota, apiUpdateUserProfile, apiResetUserTraffic
    <3> QED BY <2>2, <3>1, AtTyped
  <2>6. LedgersTyped'
    <3>1. CASE UNCHANGED ledgerVars
      BY <2>1, <3>1 DEF ledgerVars, LedgersTyped
    <3>2. CASE Wipe(u, resetAt[u])
      <4>1. resetAt[u] \in 0..cycle
        BY DEF LedgersTyped
      <4> QED BY <2>1, <3>2, <4>1, WipeTyped
    <3> QED BY <1>17, <3>1, <3>2
            DEF apiSetUserQuota, apiUpdateUserProfile, apiResetUserTraffic
  <2> QED BY <2>1, <2>3, <2>4, <2>5, <2>6
<1>18. ASSUME NEW h \in Handlers, NEW u \in Users, NEW n \in Nodes,
              apiSetPerNodeQuota(h, u, n) \/ apiResetPerNodeTraffic(h, u, n)
       PROVE  TypeOK'
  <2>1. /\ UNCHANGED <<rules, cycle, batch, tick, check, userVars>>
        /\ edits < MaxEdits /\ edits' = edits + 1
    BY <1>18 DEF apiSetPerNodeQuota, apiResetPerNodeTraffic, Request, world
  <2>2. UsersTyped' /\ BatchesTyped' /\ TickTyped' /\ ChecksTyped'
    BY <2>1, QuotaAssumption DEF userVars, UsersTyped, BatchesTyped, TickTyped, ChecksTyped
  <2>3. PushesTyped'
    BY <1>18, <2>1, Selections, PushesKept
       DEF apiSetPerNodeQuota, apiResetPerNodeTraffic, PushesTyped
  <2>4. UNCHANGED <<used, ruleBytes, exitBytes, resetAt>>
    BY <1>18 DEF apiSetPerNodeQuota, apiResetPerNodeTraffic
  <2>5. grant' \in [Users \X Nodes -> [used : Nat, quota : Quotas]]
    <3>1. CASE apiSetPerNodeQuota(h, u, n)
      BY <3>1 DEF apiSetPerNodeQuota, LedgersTyped
    <3>2. CASE apiResetPerNodeTraffic(h, u, n)
      BY <3>2 DEF apiResetPerNodeTraffic, LedgersTyped
    <3> QED BY <1>18, <3>1, <3>2
  <2>6. LedgersTyped'
    BY <2>1, <2>4, <2>5 DEF LedgersTyped
  <2> QED BY <2>2, <2>3, <2>6
<1>19. ASSUME NEW h \in Handlers, NEW u \in Users,
              apiToggleUser(h, u) \/ apiSetUserExpiry(h, u)
       PROVE  TypeOK'
  <2>1. /\ BatchesTyped' /\ TickTyped' /\ ChecksTyped' /\ UNCHANGED rules
        /\ cycle' = cycle /\ edits' \in 0..MaxEdits
    BY <1>19, QuotaAssumption
       DEF apiToggleUser, apiSetUserExpiry, Request, world, BatchesTyped, TickTyped,
           ChecksTyped, UsersTyped
  <2>2. UsersTyped'
    BY <1>19, <2>1 DEF apiToggleUser, apiSetUserExpiry, UsersTyped
  <2>3. PushesTyped'
    BY <1>19, <2>1, Selections, PushesKept DEF apiToggleUser, apiSetUserExpiry, PushesTyped
  <2>4. LedgersTyped'
    BY <1>19, <2>1 DEF apiToggleUser, apiSetUserExpiry, ledgerVars, LedgersTyped
  <2> QED BY <2>1, <2>2, <2>3, <2>4
<1> HIDE DEF TypeOK
<1> QED
  BY <1>1, <1>2, <1>3, <1>4, <1>5, <1>6, <1>7, <1>8, <1>9, <1>10, <1>11, <1>12, <1>13, <1>14,
     <1>15, <1>16, <1>17, <1>18, <1>19 DEF Next, Working, Enforce, Tick

(***************************************************************************)
(* Every variable keeps its kind, for any instance; in particular no       *)
(* ledger, whatever batches, rollovers and resets do to it, leaves the     *)
(* naturals, and no cycle is stamped that has not begun.                   *)
(***************************************************************************)
THEOREM TypeCorrect == Spec => []TypeOK
BY InitTyped, TypeStep, PTL DEF Spec

(***************************************************************************)
(* LedgersAgree is inductive given the types: each operation on the        *)
(* ledgers changes the user's bytes by the sum of what it changes in its   *)
(* rules.                                                                  *)
(***************************************************************************)
LEMMA RulesKept ==
  ASSUME UNCHANGED rules
  PROVE  \A u : RulesOf(u)' = RulesOf(u)
BY DEF RulesOf

LEMMA WipeAgrees ==
  ASSUME TypeOK, LedgersAgree, UNCHANGED rules, NEW u \in Users, NEW at, Wipe(u, at)
  PROVE  LedgersAgree'
<1>1. /\ rules \subseteq Rules
      /\ \A v : IsFiniteSet(RulesOf(v)) /\ RulesOf(v) \subseteq Rules
  BY RulesFinite DEF TypeOK
<1>2. \A r \in Rules : /\ ruleBytes'[r] = IF Owner[r] = u THEN 0 ELSE ruleBytes[r]
                       /\ exitBytes'[r] = IF Owner[r] = u THEN 0 ELSE exitBytes[r]
  BY DEF Wipe
<1>3. \A r \in Rules : ruleBytes[r] \in Nat
  BY DEF TypeOK, LedgersTyped
<1>4. ASSUME NEW v \in Users
      PROVE  used'[v] = SumFunctionOnSet(ruleBytes', RulesOf(v))
  <2>1. CASE v = u
    <3>1. \A r \in RulesOf(u) : ruleBytes'[r] = 0
      BY <1>1, <1>2 DEF RulesOf
    <3>2. SumFunctionOnSet(ruleBytes', RulesOf(u)) = 0
      BY <1>1, <3>1, SumZero
    <3> QED BY <2>1, <3>2 DEF Wipe, TypeOK, LedgersTyped
  <2>2. CASE v # u
    <3>1. \A r \in RulesOf(v) : ruleBytes[r] \in Int /\ ruleBytes'[r] = ruleBytes[r]
      BY <1>1, <1>2, <1>3, <2>2 DEF RulesOf
    <3>2. SumFunctionOnSet(ruleBytes, RulesOf(v)) = SumFunctionOnSet(ruleBytes', RulesOf(v))
      BY <1>1, <3>1, SumSame
    <3>3. used'[v] = used[v]
      BY <2>2 DEF Wipe, TypeOK, LedgersTyped
    <3> QED BY <3>2, <3>3 DEF LedgersAgree
  <2> QED BY <2>1, <2>2
<1>5. \A r \in rules : ruleBytes'[r] <= exitBytes'[r]
  BY <1>1, <1>2 DEF LedgersAgree
<1> QED BY <1>4, <1>5, RulesKept DEF LedgersAgree

LEMMA BillAgrees ==
  ASSUME TypeOK, LedgersAgree, UNCHANGED rules,
         NEW n, NEW smp \in [Rules -> Bytes], Bill(n, smp)
  PROVE  LedgersAgree'
<1>1. /\ rules \subseteq Rules
      /\ \A v : IsFiniteSet(RulesOf(v)) /\ RulesOf(v) \subseteq Rules
  BY RulesFinite DEF TypeOK
<1>2. \A r \in Rules : /\ ruleBytes'[r] = ruleBytes[r] + UserAdd(n, r, smp[r])
                       /\ exitBytes'[r] = exitBytes[r] + ExitAdd(n, r, smp[r])
  BY DEF Bill
<1>3. \A r \in Rules : /\ ruleBytes[r] \in Nat /\ exitBytes[r] \in Nat
                       /\ UserAdd(n, r, smp[r]) \in Nat /\ ExitAdd(n, r, smp[r]) \in Nat
                       /\ UserAdd(n, r, smp[r]) <= ExitAdd(n, r, smp[r])
  BY AddsNat DEF TypeOK, LedgersTyped
<1>4. ASSUME NEW u \in Users
      PROVE  used'[u] = SumFunctionOnSet(ruleBytes', RulesOf(u))
  <2> DEFINE g == [r \in RulesOf(u) |-> UserAdd(n, r, smp[r])]
  <2>1. \A r \in RulesOf(u) : /\ ruleBytes[r] \in Int /\ g[r] \in Int
                              /\ ruleBytes'[r] = ruleBytes[r] + g[r]
    BY <1>1, <1>2, <1>3
  <2>2. used'[u] = used[u] + SumFunctionOnSet(g, RulesOf(u))
    BY DEF Bill, UsedAdd
  <2> HIDE DEF g
  <2>3. SumFunctionOnSet(ruleBytes', RulesOf(u))
          = SumFunctionOnSet(ruleBytes, RulesOf(u)) + SumFunctionOnSet(g, RulesOf(u))
    BY <1>1, <2>1, SumPlus
  <2> QED BY <2>2, <2>3 DEF LedgersAgree
<1>5. \A r \in rules : ruleBytes'[r] <= exitBytes'[r]
  BY <1>1, <1>2, <1>3 DEF LedgersAgree
<1> QED BY <1>4, <1>5, RulesKept DEF LedgersAgree

LEMMA BillProxyAgrees ==
  ASSUME TypeOK, LedgersAgree, UNCHANGED rules,
         NEW r \in rules, NEW b \in Bytes, BillProxy(r, b)
  PROVE  LedgersAgree'
<1>1. /\ rules \subseteq Rules /\ Owner[r] \in Users /\ Total(b) \in Nat
      /\ \A v : IsFiniteSet(RulesOf(v)) /\ RulesOf(v) \subseteq Rules
  BY RulesFinite, QuotaAssumption DEF TypeOK, Total, Bytes
<1>2. \A q \in Rules :
        /\ ruleBytes[q] \in Nat /\ exitBytes[q] \in Nat
        /\ ruleBytes'[q] = IF q = r THEN ruleBytes[q] + Total(b) ELSE ruleBytes[q]
        /\ exitBytes'[q] = IF q = r THEN exitBytes[q] + Total(b) ELSE exitBytes[q]
  BY DEF BillProxy, TypeOK, LedgersTyped
<1>3. \A v \in Users : used'[v] = IF v = Owner[r] THEN used[v] + Total(b) ELSE used[v]
  BY <1>1 DEF BillProxy, TypeOK, LedgersTyped
<1>4. ASSUME NEW v \in Users
      PROVE  used'[v] = SumFunctionOnSet(ruleBytes', RulesOf(v))
  <2>1. \A q \in RulesOf(v) : ruleBytes[q] \in Int /\ ruleBytes'[q] \in Int
    BY <1>1, <1>2
  <2>2. CASE v = Owner[r]
    <3>1. r \in RulesOf(v) /\ \A q \in RulesOf(v) \ {r} : ruleBytes'[q] = ruleBytes[q]
      BY <1>1, <1>2, <2>2 DEF RulesOf
    <3>2. SumFunctionOnSet(ruleBytes', RulesOf(v))
            = SumFunctionOnSet(ruleBytes, RulesOf(v)) + ruleBytes'[r] - ruleBytes[r]
      BY <1>1, <2>1, <3>1, SumChange
    <3>3. used[v] = SumFunctionOnSet(ruleBytes, RulesOf(v)) /\ used[v] \in Nat
      BY DEF LedgersAgree, TypeOK, LedgersTyped
    <3> QED BY <1>1, <1>2, <1>3, <2>2, <3>2, <3>3
  <2>3. CASE v # Owner[r]
    <3>1. \A q \in RulesOf(v) : ruleBytes'[q] = ruleBytes[q]
      BY <1>1, <1>2, <2>3 DEF RulesOf
    <3>2. SumFunctionOnSet(ruleBytes, RulesOf(v)) = SumFunctionOnSet(ruleBytes', RulesOf(v))
      BY <1>1, <2>1, <3>1, SumSame
    <3> QED BY <1>3, <2>3, <3>2 DEF LedgersAgree
  <2> QED BY <2>2, <2>3
<1>5. \A q \in rules : ruleBytes'[q] <= exitBytes'[q]
  BY <1>1, <1>2 DEF LedgersAgree
<1> QED BY <1>4, <1>5, RulesKept DEF LedgersAgree

LEMMA AgreeKept ==
  ASSUME LedgersAgree, UNCHANGED <<rules, used, ruleBytes, exitBytes>>
  PROVE  LedgersAgree'
BY DEF LedgersAgree, RulesOf

LEMMA InitAgrees ==
  ASSUME Init
  PROVE  LedgersAgree
<1>1. \A u : IsFiniteSet(RulesOf(u)) /\ RulesOf(u) \subseteq Rules /\ rules \subseteq Rules
  BY InitTyped, RulesFinite DEF TypeOK
<1>2. \A u : \A r \in RulesOf(u) : ruleBytes[r] = 0
  BY <1>1 DEF Init
<1>3. \A u : SumFunctionOnSet(ruleBytes, RulesOf(u)) = 0
  BY <1>1, <1>2, SumZero
<1>4. /\ used = [u \in Users |-> 0] /\ ruleBytes = [r \in Rules |-> 0]
      /\ exitBytes = [r \in Rules |-> 0]
  BY DEF Init
<1> QED BY <1>1, <1>3, <1>4 DEF LedgersAgree

LEMMA AgreeStep ==
  ASSUME TypeOK, LedgersAgree, [Next]_vars
  PROVE  LedgersAgree'
<1>1. CASE UNCHANGED vars
  BY <1>1, AgreeKept DEF vars, world, ledgerVars
<1>2. ASSUME NEW n \in Nodes, RolloverInBatch(n)
      PROVE  LedgersAgree'
  <2>1. PICK u \in batch[n].stale : Wipe(u, cycle)
    BY <1>2 DEF RolloverInBatch
  <2>2. u \in Users
    BY DEF TypeOK, BatchesTyped
  <2> QED BY <1>2, <2>1, <2>2, WipeAgrees DEF RolloverInBatch, world
<1>3. ASSUME NEW n \in Nodes, CommitBatch(n)
      PROVE  LedgersAgree'
  <2>1. batch[n].smp \in [Rules -> Bytes]
    BY DEF TypeOK, BatchesTyped, Bytes
  <2>2. CASE Bill(n, batch[n].smp)
    BY <1>3, <2>1, <2>2, BillAgrees DEF CommitBatch, world
  <2>3. CASE UNCHANGED ledgerVars
    BY <1>3, <2>3, AgreeKept DEF CommitBatch, world, ledgerVars
  <2> QED BY <1>3, <2>2, <2>3 DEF CommitBatch
<1>4. ASSUME NEW n \in Nodes, ProxyBatch(n)
      PROVE  LedgersAgree'
  <2>1. PICK r \in rules : \E b \in Samples[r] : BillProxy(r, b)
    BY <1>4 DEF ProxyBatch
  <2> PICK b \in Samples[r] : BillProxy(r, b)
    BY <2>1
  <2>2. b \in Bytes
    BY RulesFinite, QuotaAssumption DEF TypeOK, Bytes
  <2> QED BY <1>4, <2>2, BillProxyAgrees DEF ProxyBatch, world
<1>5. CASE TickReset
  <2>1. PICK u \in tick.stale : Wipe(u, cycle)
    BY <1>5 DEF TickReset
  <2>2. u \in Users
    BY DEF TypeOK, TickTyped
  <2> QED BY <1>5, <2>1, <2>2, WipeAgrees DEF TickReset, world
<1>6. ASSUME NEW h \in Handlers, NEW u \in Users, apiResetUserTraffic(h, u)
      PROVE  LedgersAgree'
  BY <1>6, WipeAgrees DEF apiResetUserTraffic, Request, world
<1>7. ASSUME NEW n \in Nodes, LoadBatch(n) \/ LiftInBatch(n) \/ dispatchToNode(n)
      PROVE  LedgersAgree'
  BY <1>7, AgreeKept DEF LoadBatch, LiftInBatch, dispatchToNode, world, ledgerVars
<1>8. ASSUME NEW t \in Threads, Enforce(t)
      PROVE  LedgersAgree'
  BY <1>8, AgreeKept DEF Enforce, EnforcePerNode, EnforceRead, EnforceDisable, LiftAfterReset,
     world, ledgerVars
<1>9. CASE NewCycle \/ TickList \/ TickLift \/ ExpiryTick
  BY <1>9, AgreeKept DEF NewCycle, TickList, TickLift, ExpiryTick, world, ledgerVars
<1>10. ASSUME NEW u \in Users, Expire(u)
       PROVE  LedgersAgree'
  BY <1>10, AgreeKept DEF Expire, world, ledgerVars
<1>11. ASSUME NEW h \in Handlers, NEW u \in Users,
              \/ apiSetUserQuota(h, u) \/ apiUpdateUserProfile(h, u) \/ apiToggleUser(h, u)
              \/ apiSetUserExpiry(h, u)
              \/ \E n \in Nodes : apiSetPerNodeQuota(h, u, n) \/ apiResetPerNodeTraffic(h, u, n)
       PROVE  LedgersAgree'
  BY <1>11, AgreeKept DEF apiSetUserQuota, apiUpdateUserProfile, apiToggleUser,
     apiSetUserExpiry, apiSetPerNodeQuota, apiResetPerNodeTraffic, Request, world, ledgerVars
<1> QED
  BY <1>1, <1>2, <1>3, <1>4, <1>5, <1>6, <1>7, <1>8, <1>9, <1>10, <1>11
     DEF Next, Working, Tick

(***************************************************************************)
(* What a user is billed is always the sum of what its rules passed, and   *)
(* no exit shows less than its rule, whatever batches fail or interleave   *)
(* with rollovers and resets.                                              *)
(***************************************************************************)
THEOREM LedgersAlwaysAgree == Spec => []LedgersAgree
<1>1. TypeOK /\ LedgersAgree /\ [Next]_vars => LedgersAgree'
  BY AgreeStep
<1> QED BY InitAgrees, TypeCorrect, <1>1, PTL DEF Spec

-----------------------------------------------------------------------------
(***************************************************************************)
(* ForwardedIffAllowed speaks of quiet states only. In the others it holds *)
(* of a node and a rule unless something that is under way will see to it: *)
(* a push, a re-check of the owner's quota, a lift, or the pushes a handler *)
(* sends when its re-check returns.                                        *)
(***************************************************************************)
Rechecking(u) ==
  \E t \in Threads : \/ /\ check[t].pc \in {"grants", "read", "disable"}
                        /\ u \in check[t].users
                     \/ /\ check[t].pc \in {"read", "disable"}
                        /\ u = check[t].user
Lifting(u) ==
  \/ \E n \in Nodes : batch[n].pc = "lift" /\ batch[n].user = u
  \/ \E t \in Threads : check[t].pc = "lift" /\ check[t].user = u
  \/ tick.pc = "lift" /\ tick.user = u
PushedAfter(n) ==
  \E t \in Threads : check[t].pc \in {"grants", "read", "disable"} /\ n \in check[t].after
Served(n, u) == n \in todo \/ u \in owed \/ Lifting(u) \/ PushedAfter(n)

DisabledCut ==
  \A n \in Nodes : \A r \in live[n] : disabled[Owner[r]] = "no" \/ n \in todo
OverCut ==
  \A n \in Nodes : \A r \in live[n] :
    Over(Owner[r]) => disabled[Owner[r]] # "no" \/ n \in todo \/ Rechecking(Owner[r])
AllowedServed ==
  \A n \in Nodes : \A r \in ActiveRules(n) \ live[n] : Served(n, Owner[r])

ForwardInv == DisabledCut /\ OverCut /\ AllowedServed

(***************************************************************************)
(* What keeps each part when no node is pushed.                            *)
(***************************************************************************)
LEMMA LiveOwned ==
  ASSUME TypeOK
  PROVE  \A n \in Nodes : \A r \in live[n] :
           Owner[r] \in Users /\ n \in DistinctUserNodes(Owner[r])
BY Selections DEF TypeOK, PushesTyped, DistinctUserNodes, RulesOf, RulesAt

LEMMA DisabledKept ==
  ASSUME TypeOK, DisabledCut, UNCHANGED live, todo \subseteq todo',
         \A u \in Users : disabled'[u] # disabled[u] => DistinctUserNodes(u) \subseteq todo'
  PROVE  DisabledCut'
BY LiveOwned DEF DisabledCut

LEMMA OverKept ==
  ASSUME TypeOK, OverCut, UNCHANGED live, todo \subseteq todo',
         \A u \in Users : Over(u)' => Over(u) \/ Rechecking(u)',
         \A u \in Users : /\ Over(u)' /\ Over(u)
                          /\ Rechecking(u) \/ disabled[u] # "no"
                          => \/ Rechecking(u)' \/ disabled'[u] # "no"
                             \/ DistinctUserNodes(u) \subseteq todo'
  PROVE  OverCut'
<1> SUFFICES ASSUME NEW n \in Nodes, NEW r \in live[n], Over(Owner[r])'
             PROVE  disabled'[Owner[r]] # "no" \/ n \in todo' \/ Rechecking(Owner[r])'
  BY DEF OverCut
<1>1. Owner[r] \in Users /\ n \in DistinctUserNodes(Owner[r])
  BY LiveOwned
<1>2. CASE ~ Over(Owner[r])
  BY <1>1, <1>2
<1>3. CASE Over(Owner[r])
  <2>1. disabled[Owner[r]] # "no" \/ n \in todo \/ Rechecking(Owner[r])
    BY <1>3 DEF OverCut
  <2> QED BY <1>1, <1>3, <2>1
<1> QED BY <1>2, <1>3

LEMMA ActiveOwned ==
  ASSUME TypeOK, UNCHANGED rules
  PROVE  \A n \in Nodes : \A r \in ActiveRules(n)' :
           r \in Rules /\ Owner[r] \in Users /\ n \in DistinctUserNodes(Owner[r])
<1>1. rules \subseteq Rules /\ \A r \in rules : Owner[r] \in Users
  BY Selections, RulesFinite DEF TypeOK
<1>2. \A n \in Nodes : \A r \in ActiveRules(n)' : r \in rules /\ HopsAt(r, n) # {}
  BY DEF ActiveRules, RulesAt
<1> QED BY <1>1, <1>2 DEF DistinctUserNodes, RulesOf

LEMMA ServedKept ==
  ASSUME TypeOK, AllowedServed, UNCHANGED <<rules, live>>,
         \A n \in Nodes : \A r \in ActiveRules(n)' :
           r \notin ActiveRules(n) => Served(n, Owner[r])',
         \A u \in Users : \A n \in DistinctUserNodes(u) : Served(n, u) => Served(n, u)'
  PROVE  AllowedServed'
<1> SUFFICES ASSUME NEW n \in Nodes, NEW r \in ActiveRules(n)', r \notin live[n]
             PROVE  Served(n, Owner[r])'
  BY DEF AllowedServed
<1>1. Owner[r] \in Users /\ n \in DistinctUserNodes(Owner[r])
  BY ActiveOwned
<1>2. CASE r \in ActiveRules(n)
  BY <1>1, <1>2 DEF AllowedServed
<1> QED BY <1>2

(***************************************************************************)
(* What a step changes in the rules that may be forwarded: nothing, only   *)
(* those of one user, or it takes some away.                               *)
(***************************************************************************)
LEMMA ActiveSame ==
  ASSUME UNCHANGED <<rules, used, quota, disabled, expired, grant>>
  PROVE  /\ \A n : ActiveRules(n)' = ActiveRules(n)
         /\ \A u : Over(u)' = Over(u)
BY DEF ActiveRules, RulesAt, Over, GrantOver

LEMMA HopTypes ==
  \A r \in Rules : \A i \in DOMAIN Via[r] : Via[r][i] \in Nodes
BY QuotaAssumption

LEMMA ActiveOfOne ==
  ASSUME TypeOK, UNCHANGED rules, NEW u,
         \A v \in Users \ {u} :
           /\ disabled'[v] = disabled[v] /\ expired'[v] = expired[v]
           /\ quota'[v] = quota[v] /\ used'[v] = used[v]
           /\ \A m \in Nodes : grant'[<<v, m>>] = grant[<<v, m>>]
  PROVE  /\ \A n \in Nodes : \A r \in ActiveRules(n)' :
              r \notin ActiveRules(n) => Owner[r] = u
         /\ \A v \in Users \ {u} : Over(v)' = Over(v)
<1>1. \A v \in Users \ {u} : Over(v)' = Over(v)
  BY DEF Over
<1>2. \A v \in Users \ {u} : \A m \in Nodes : GrantOver(v, m)' = GrantOver(v, m)
  BY DEF GrantOver
<1>3. ASSUME NEW n \in Nodes, NEW r \in ActiveRules(n)', Owner[r] # u
      PROVE  r \in ActiveRules(n)
  <2>1. r \in Rules /\ Owner[r] \in Users \ {u}
    BY <1>3, ActiveOwned
  <2>2. /\ r \in RulesAt(n) /\ disabled'[Owner[r]] = "no" /\ ~expired'[Owner[r]]
        /\ ~Over(Owner[r])' /\ \A i \in DOMAIN Via[r] : ~GrantOver(Owner[r], Via[r][i])'
    BY <1>3 DEF ActiveRules, RulesAt
  <2>3. \A i \in DOMAIN Via[r] : ~GrantOver(Owner[r], Via[r][i])
    BY <1>2, <2>1, <2>2, HopTypes
  <2> QED BY <1>1, <2>1, <2>2, <2>3 DEF ActiveRules
<1> QED BY <1>1, <1>3

LEMMA TimesMono ==
  \A a, b, k \in Nat : a <= b => a * k <= b * k
OBVIOUS

LEMMA ActiveShrinks ==
  ASSUME TypeOK, TypeOK', UNCHANGED <<rules, quota, disabled, expired>>,
         \A u \in Users : used[u] <= used'[u],
         \A u \in Users, m \in Nodes : /\ grant'[<<u, m>>].quota = grant[<<u, m>>].quota
                                       /\ grant[<<u, m>>].used <= grant'[<<u, m>>].used
  PROVE  \A n \in Nodes : ActiveRules(n)' \subseteq ActiveRules(n)
<1>1. ASSUME NEW u \in Users, Over(u)  PROVE Over(u)'
  <2>1. used[u] \in Nat /\ used'[u] \in Nat /\ quota[u] \in Nat /\ RateOf(u) \in Nat
    <3>1. used[u] \in Nat /\ used'[u] \in Nat
      BY DEF TypeOK, LedgersTyped
    <3>2. quota[u] \in Nat
      BY QuotaAssumption DEF TypeOK, UsersTyped
    <3>3. RateOf(u) \in Nat
      BY QuotaAssumption DEF RateOf
    <3> QED BY <3>1, <3>2, <3>3
  <2>2. used[u] * RateOf(u) <= used'[u] * RateOf(u)
    BY <2>1, TimesMono
  <2>3. used[u] * RateOf(u) \in Nat /\ used'[u] * RateOf(u) \in Nat
    BY <2>1
  <2>4. quota[u] > 0 /\ used[u] * RateOf(u) >= quota[u] /\ quota'[u] = quota[u]
    BY <1>1 DEF Over
  <2>5. used'[u] * RateOf(u) >= quota[u]
    BY <2>1, <2>2, <2>3, <2>4
  <2> QED BY <2>4, <2>5 DEF Over, RateOf
<1>2. ASSUME NEW u \in Users, NEW m \in Nodes, GrantOver(u, m)  PROVE GrantOver(u, m)'
  <2>1. /\ grant[<<u, m>>].used \in Nat /\ grant'[<<u, m>>].used \in Nat
        /\ grant[<<u, m>>].quota \in Nat
    BY QuotaAssumption DEF TypeOK, LedgersTyped
  <2> QED BY <1>2, <2>1 DEF GrantOver
<1>3. ASSUME NEW n \in Nodes, NEW r \in ActiveRules(n)'
      PROVE  r \in ActiveRules(n)
  <2>1. r \in Rules /\ Owner[r] \in Users
    BY <1>3, ActiveOwned
  <2>2. /\ r \in RulesAt(n) /\ disabled[Owner[r]] = "no" /\ ~expired[Owner[r]]
        /\ ~Over(Owner[r])' /\ \A i \in DOMAIN Via[r] : ~GrantOver(Owner[r], Via[r][i])'
    BY <1>3 DEF ActiveRules, RulesAt
  <2>3. \A i \in DOMAIN Via[r] : ~GrantOver(Owner[r], Via[r][i])
    BY <1>2, <2>1, <2>2, HopTypes
  <2> QED BY <1>1, <2>1, <2>2, <2>3 DEF ActiveRules
<1> QED BY <1>3

(***************************************************************************)
(* What is under way stays so, unless the step is its own.                 *)
(***************************************************************************)
LEMMA CheckStarts ==
  ASSUME TypeOK, NEW t \in Threads, check[t].pc = "idle", NEW pc, NEW u, NEW us, NEW after,
         check' = [check EXCEPT ![t] = At(pc, u, us, after)]
  PROVE  /\ \A v : Rechecking(v) => Rechecking(v)'
         /\ pc = "grants" => \A v \in us : Rechecking(v)'
         /\ pc = "read" => Rechecking(u)' /\ \A n \in after : PushedAfter(n)'
         /\ pc = "lift" => Lifting(u)'
         /\ \A n : PushedAfter(n) => PushedAfter(n)'
         /\ UNCHANGED <<batch, tick>> => \A v : Lifting(v) => Lifting(v)'
<1>1. /\ check'[t] = At(pc, u, us, after)
      /\ \A s \in Threads \ {t} : check'[s] = check[s]
  BY DEF TypeOK, ChecksTyped
<1>2. \A v : Rechecking(v) => Rechecking(v)'
  BY <1>1 DEF Rechecking
<1>3. \A n : PushedAfter(n) => PushedAfter(n)'
  BY <1>1 DEF PushedAfter
<1>4. UNCHANGED <<batch, tick>> => \A v : Lifting(v) => Lifting(v)'
  BY <1>1 DEF Lifting
<1>5. pc = "grants" => \A v \in us : Rechecking(v)'
  BY <1>1 DEF Rechecking, At
<1>6. pc = "read" => Rechecking(u)' /\ \A n \in after : PushedAfter(n)'
  BY <1>1 DEF Rechecking, PushedAfter, At
<1>7. pc = "lift" => Lifting(u)'
  BY <1>1 DEF Lifting, At
<1> QED BY <1>2, <1>3, <1>4, <1>5, <1>6, <1>7

LEMMA CheckSame ==
  ASSUME UNCHANGED check
  PROVE  /\ \A v : Rechecking(v)' = Rechecking(v)
         /\ \A n : PushedAfter(n)' = PushedAfter(n)
         /\ UNCHANGED <<batch, tick>> => \A v : Lifting(v)' = Lifting(v)
BY DEF Rechecking, PushedAfter, Lifting

LEMMA ServedGrows ==
  ASSUME todo \subseteq todo', owed \subseteq owed',
         \A n : PushedAfter(n) => PushedAfter(n)', \A v : Lifting(v) => Lifting(v)'
  PROVE  \A n, v : Served(n, v) => Served(n, v)'
BY DEF Served

(***************************************************************************)
(* A step about one user whose ledgers, flags or quotas it changes.        *)
(***************************************************************************)
LEMMA OneUserForward ==
  ASSUME TypeOK, ForwardInv, NEW u \in Users, UNCHANGED <<rules, live>>,
         todo \subseteq todo',
         \A v \in Users \ {u} :
           /\ disabled'[v] = disabled[v] /\ expired'[v] = expired[v]
           /\ quota'[v] = quota[v] /\ used'[v] = used[v]
           /\ \A m \in Nodes : grant'[<<v, m>>] = grant[<<v, m>>],
         \A v \in Users \ {u} : Rechecking(v) => Rechecking(v)',
         Rechecking(u) => Rechecking(u)' \/ DistinctUserNodes(u) \subseteq todo',
         \A v \in Users \ {u} : \A n \in Nodes : Served(n, v) => Served(n, v)',
         disabled'[u] # disabled[u] => DistinctUserNodes(u) \subseteq todo',
         Over(u)' => Over(u) \/ Rechecking(u)',
         \A n \in DistinctUserNodes(u) : Served(n, u) => Served(n, u)',
         \A n \in DistinctUserNodes(u) : \A r \in ActiveRules(n)' :
           r \notin ActiveRules(n) /\ Owner[r] = u => Served(n, u)'
  PROVE  ForwardInv'
<1>1. /\ \A n \in Nodes : \A r \in ActiveRules(n)' : r \notin ActiveRules(n) => Owner[r] = u
      /\ \A v \in Users \ {u} : Over(v)' = Over(v)
  BY ActiveOfOne
<1>2. DisabledCut'
  BY DisabledKept DEF ForwardInv
<1>3. OverCut'
  <2>1. \A v \in Users : Over(v)' => Over(v) \/ Rechecking(v)'
    BY <1>1
  <2>2. \A v \in Users : /\ Over(v)' /\ Over(v)
                         /\ Rechecking(v) \/ disabled[v] # "no"
                         => \/ Rechecking(v)' \/ disabled'[v] # "no"
                            \/ DistinctUserNodes(v) \subseteq todo'
    OBVIOUS
  <2> QED BY <2>1, <2>2, OverKept DEF ForwardInv
<1>4. AllowedServed'
  <2>1. \A n \in Nodes : \A r \in ActiveRules(n)' :
          r \notin ActiveRules(n) => Served(n, Owner[r])'
    BY <1>1, ActiveOwned
  <2>2. \A v \in Users : \A n \in DistinctUserNodes(v) : Served(n, v) => Served(n, v)'
    BY DEF DistinctUserNodes
  <2> QED BY <2>1, <2>2, ServedKept DEF ForwardInv
<1> QED BY <1>2, <1>3, <1>4 DEF ForwardInv

\* The nodes of u are pushed, or u is owed one.
LEMMA CalledForward ==
  ASSUME TypeOK, ForwardInv, NEW u \in Users, UNCHANGED <<rules, live>>,
         todo \subseteq todo',
         \A v \in Users \ {u} :
           /\ disabled'[v] = disabled[v] /\ expired'[v] = expired[v]
           /\ quota'[v] = quota[v] /\ used'[v] = used[v]
           /\ \A m \in Nodes : grant'[<<v, m>>] = grant[<<v, m>>],
         \A v \in Users \ {u} : Rechecking(v) => Rechecking(v)',
         Rechecking(u) => Rechecking(u)' \/ DistinctUserNodes(u) \subseteq todo',
         \A v \in Users \ {u} : Lifting(v) => Lifting(v)',
         \A n \in Nodes : PushedAfter(n) => PushedAfter(n)' \/ n \in todo',
         owed \ {u} \subseteq owed',
         disabled'[u] # disabled[u] => DistinctUserNodes(u) \subseteq todo',
         Over(u)' => Over(u) \/ Rechecking(u)',
         \A n \in DistinctUserNodes(u) :
           n \in todo' \/ u \in owed' \/ Lifting(u)' \/ PushedAfter(n)'
  PROVE  ForwardInv'
<1>1. \A n \in DistinctUserNodes(u) : Served(n, u)'
  BY DEF Served
<1>2. \A v \in Users \ {u} : \A n \in Nodes : Served(n, v) => Served(n, v)'
  BY DEF Served
<1> HIDE DEF Served
<1> QED BY <1>1, <1>2, OneUserForward

LEMMA LiftForward ==
  ASSUME TypeOK, ForwardInv, NEW u \in Users, NEW lift, Lift(u, lift),
         UNCHANGED <<rules, used, grant>>,
         \A v : Rechecking(v) => Rechecking(v)',
         \A v \in Users \ {u} : Lifting(v) => Lifting(v)',
         \A n \in Nodes : PushedAfter(n) => PushedAfter(n)'
  PROVE  ForwardInv'
<1>1. /\ UNCHANGED <<quota, expired, live>> /\ todo' = todo \cup DistinctUserNodes(u)
      /\ owed' = owed \ {u} /\ \A v \in Users \ {u} : disabled'[v] = disabled[v]
  BY DEF Lift, TypeOK, UsersTyped
<1>2. Over(u)' = Over(u)
  BY <1>1 DEF Over
<1> QED BY <1>1, <1>2, CalledForward

LEMMA WipeForward ==
  ASSUME TypeOK, ForwardInv, NEW u \in Users, NEW at, Wipe(u, at), Lifting(u)',
         UNCHANGED <<rules, quota, disabled, expired, live, todo, owed>>,
         \A v : Rechecking(v) => Rechecking(v)',
         \A v \in Users \ {u} : Lifting(v) => Lifting(v)',
         \A n \in Nodes : PushedAfter(n) => PushedAfter(n)'
  PROVE  ForwardInv'
<1>1. \A v \in Users \ {u} : /\ used'[v] = used[v]
                             /\ \A m \in Nodes : grant'[<<v, m>>] = grant[<<v, m>>]
  BY DEF Wipe, TypeOK, LedgersTyped
<1>2. ~ Over(u)'
  <2>1. used'[u] = 0 /\ quota'[u] = quota[u] /\ quota[u] \in Nat /\ RateOf(u) \in Nat
    <3>1. quota[u] \in Nat
      BY QuotaAssumption DEF TypeOK, UsersTyped
    <3>2. RateOf(u) \in Nat
      BY QuotaAssumption DEF RateOf
    <3> QED BY <3>1, <3>2 DEF Wipe, TypeOK, LedgersTyped
  <2>2. used'[u] * RateOf(u) = 0
    BY <2>1
  <2> QED BY <2>1, <2>2 DEF Over, RateOf
<1> QED BY <1>1, <1>2, CalledForward

LEMMA BilledForward ==
  ASSUME TypeOK, TypeOK', ForwardInv,
         UNCHANGED <<rules, quota, disabled, expired, live, todo, owed>>,
         \A u \in Users : used[u] <= used'[u],
         \A u \in Users, m \in Nodes : /\ grant'[<<u, m>>].quota = grant[<<u, m>>].quota
                                       /\ grant[<<u, m>>].used <= grant'[<<u, m>>].used,
         \A u \in Users : used'[u] # used[u] => Rechecking(u)',
         \A v : Rechecking(v) => Rechecking(v)',
         \A v : Lifting(v) => Lifting(v)',
         \A n : PushedAfter(n) => PushedAfter(n)'
  PROVE  ForwardInv'
<1>1. DisabledCut'
  BY DisabledKept DEF ForwardInv
<1>2. OverCut'
  <2>1. \A u \in Users : Over(u)' => Over(u) \/ Rechecking(u)'
    BY DEF Over
  <2> QED BY <2>1, OverKept DEF ForwardInv
<1>3. AllowedServed'
  <2>1. \A n \in Nodes : \A r \in ActiveRules(n)' : r \in ActiveRules(n)
    BY ActiveShrinks
  <2>2. \A n, v : Served(n, v) => Served(n, v)'
    BY ServedGrows
  <2> QED BY <2>1, <2>2, ServedKept DEF ForwardInv
<1> QED BY <1>1, <1>2, <1>3 DEF ForwardInv

\* A step that leaves the ledgers, the flags and what is forwarded alone.
LEMMA CalmForward ==
  ASSUME TypeOK, ForwardInv,
         UNCHANGED <<rules, used, grant, quota, disabled, expired, live>>,
         todo \subseteq todo', owed \subseteq owed',
         \A v \in Users : Rechecking(v) => \/ Rechecking(v)' \/ ~Over(v) \/ disabled[v] # "no",
         \A v : Lifting(v) => Lifting(v)',
         \A n : PushedAfter(n) => PushedAfter(n)' \/ n \in todo'
  PROVE  ForwardInv'
<1>1. /\ \A n : ActiveRules(n)' = ActiveRules(n)
      /\ \A u : Over(u)' = Over(u)
  BY ActiveSame
<1>2. DisabledCut'
  BY DisabledKept DEF ForwardInv
<1>3. OverCut'
  BY <1>1, OverKept DEF ForwardInv
<1>4. AllowedServed'
  <2>1. \A n, v : Served(n, v) => Served(n, v)'
    BY DEF Served
  <2> QED BY <1>1, <2>1, ServedKept DEF ForwardInv
<1> QED BY <1>2, <1>3, <1>4 DEF ForwardInv

LEMMA DispatchForward ==
  ASSUME TypeOK, ForwardInv, NEW n \in Nodes, dispatchToNode(n)
  PROVE  ForwardInv'
<1>1. /\ UNCHANGED <<rules, used, grant, quota, disabled, expired, owed, batch, check, tick>>
      /\ live' = [live EXCEPT ![n] = ActiveRules(n)] /\ todo' = todo \ {n}
  BY DEF dispatchToNode, ledgerVars, userVars, world
<1>2. /\ \A m : ActiveRules(m)' = ActiveRules(m)
      /\ \A u : Over(u)' = Over(u)
  BY <1>1, ActiveSame
<1>3. /\ \A v : Rechecking(v)' = Rechecking(v) /\ Lifting(v)' = Lifting(v)
      /\ \A m : PushedAfter(m)' = PushedAfter(m)
  BY <1>1, CheckSame
<1>4. \A m \in Nodes \ {n} : live'[m] = live[m] /\ (m \in todo' <=> m \in todo)
  BY <1>1 DEF TypeOK, PushesTyped
<1>5. live'[n] = ActiveRules(n)
  BY <1>1 DEF TypeOK, PushesTyped
<1>6. DisabledCut'
  BY <1>1, <1>4, <1>5 DEF DisabledCut, ForwardInv, ActiveRules
<1>7. OverCut'
  <2>1. \A r \in live'[n] : ~Over(Owner[r])'
    BY <1>2, <1>5 DEF ActiveRules
  <2> QED BY <1>1, <1>2, <1>3, <1>4, <2>1 DEF OverCut, ForwardInv
<1>8. AllowedServed'
  BY <1>1, <1>2, <1>3, <1>4, <1>5 DEF AllowedServed, ForwardInv, Served
<1> QED BY <1>6, <1>7, <1>8 DEF ForwardInv

(***************************************************************************)
(* The two operations that add to the ledgers also start a re-check of the *)
(* users they add to.                                                      *)
(***************************************************************************)
LEMMA UntouchedUnbilled ==
  ASSUME TypeOK, NEW n, NEW smp \in [Rules -> Bytes], NEW u \in Users \ Touched(n, smp)
  PROVE  UsedAdd(n, smp, u) = 0
<1> DEFINE f == [r \in RulesOf(u) |-> UserAdd(n, r, smp[r])]
<1>1. IsFiniteSet(RulesOf(u)) /\ RulesOf(u) \subseteq Rules
  BY RulesFinite DEF TypeOK
<1>2. ASSUME NEW r \in RulesOf(u)  PROVE f[r] = 0
  <2>1. r \in rules /\ Owner[r] = u /\ smp[r] \in Bytes
    BY <1>1 DEF RulesOf
  <2>2. ~ (ExitAdd(n, r, smp[r]) > 0)
    BY <2>1 DEF Touched
  <2>3. ExitAdd(n, r, smp[r]) \in Nat
    BY <2>1, AddsNat
  <2>4. ExitAdd(n, r, smp[r]) = 0
    BY <2>2, <2>3
  <2> QED BY <2>4 DEF UserAdd
<1> HIDE DEF f
<1>3. SumFunctionOnSet(f, RulesOf(u)) = 0
  BY <1>1, <1>2, SumZero
<1> QED BY <1>3 DEF f, UsedAdd

LEMMA RecheckStarts ==
  ASSUME TypeOK, NEW n \in Nodes, NEW us, Recheck(n, us), UNCHANGED <<batch, tick>>
  PROVE  /\ \A v : Rechecking(v) => Rechecking(v)'
         /\ \A v \in us : Rechecking(v)'
         /\ \A v : Lifting(v) => Lifting(v)'
         /\ \A m : PushedAfter(m) => PushedAfter(m)'
<1>1. PICK t \in Threads : /\ check[t].pc = "idle"
                           /\ check' = [check EXCEPT ![t] = At("grants", NoUser, us, {})]
  BY DEF Recheck, Threads
<1> QED BY <1>1, CheckStarts

LEMMA CommitForward ==
  ASSUME TypeOK, TypeOK', ForwardInv, NEW n \in Nodes, CommitBatch(n)
  PROVE  ForwardInv'
<1> DEFINE smp == batch[n].smp
           us == Touched(n, smp)
<1>1. smp \in [Rules -> Bytes]
  BY DEF TypeOK, BatchesTyped, Bytes
<1>2. /\ UNCHANGED <<rules, quota, disabled, expired, live, todo, owed, tick>>
      /\ batch[n].pc = "owners" /\ batch' = [batch EXCEPT ![n] = NoBatch]
      /\ (us = {} /\ UNCHANGED check) \/ Recheck(n, us)
      /\ Bill(n, smp) \/ UNCHANGED ledgerVars
  BY DEF CommitBatch, world, userVars, pushVars
<1> HIDE DEF smp, us
<1>3. /\ \A v : Rechecking(v) => Rechecking(v)'
      /\ \A v \in us : Rechecking(v)'
      /\ \A m : PushedAfter(m) => PushedAfter(m)'
      /\ \A t \in Threads : check[t].pc = "lift" => check'[t] = check[t]
  <2>1. CASE us = {} /\ UNCHANGED check
    BY <2>1, CheckSame
  <2>2. CASE Recheck(n, us)
    <3>1. PICK t \in Threads : /\ check[t].pc = "idle"
                               /\ check' = [check EXCEPT ![t] = At("grants", NoUser, us, {})]
      BY <2>2 DEF Recheck, Threads
    <3> QED BY <3>1, CheckStarts DEF TypeOK, ChecksTyped
  <2> QED BY <1>2, <2>1, <2>2
<1>4. \A v : Lifting(v) => Lifting(v)'
  <2>1. \A m \in Nodes : batch[m].pc = "lift" => batch'[m] = batch[m]
    BY <1>2 DEF TypeOK, BatchesTyped
  <2> QED BY <1>2, <1>3, <2>1 DEF Lifting
<1>5. CASE UNCHANGED ledgerVars
  BY <1>2, <1>3, <1>4, <1>5, CalmForward DEF ledgerVars
<1>6. CASE Bill(n, smp)
  <2>1. \A u \in Users : used'[u] = used[u] + UsedAdd(n, smp, u)
    BY <1>6 DEF Bill
  <2>2. \A u \in Users : used[u] \in Nat /\ UsedAdd(n, smp, u) \in Nat
    BY <1>1, SumsNat DEF TypeOK, LedgersTyped
  <2>3. ASSUME NEW u \in Users, used'[u] # used[u]  PROVE Rechecking(u)'
    <3>1. u \in us
      BY <1>1, <2>1, <2>2, <2>3, UntouchedUnbilled DEF us
    <3> QED BY <1>3, <3>1
  <2>4. ASSUME NEW u \in Users, NEW m \in Nodes
        PROVE  /\ grant'[<<u, m>>].quota = grant[<<u, m>>].quota
               /\ grant[<<u, m>>].used <= grant'[<<u, m>>].used
    <3>1. <<u, m>> \in Users \X Nodes /\ <<u, m>>[1] = u /\ <<u, m>>[2] = m
      OBVIOUS
    <3>2. GrantAdd(n, smp, u, m) \in Nat
      BY <1>1, SumsNat DEF TypeOK
    <3>3. /\ grant[<<u, m>>] \in [used : Nat, quota : Quotas]
          /\ grant'[<<u, m>>] = [grant[<<u, m>>] EXCEPT !.used = @ + GrantAdd(n, smp, u, m)]
      BY <1>6, <3>1 DEF Bill, TypeOK, LedgersTyped
    <3> QED BY <3>2, <3>3
  <2> QED BY <1>2, <1>3, <1>4, <2>1, <2>2, <2>3, <2>4, BilledForward
<1> QED BY <1>2, <1>5, <1>6

LEMMA ProxyForward ==
  ASSUME TypeOK, TypeOK', ForwardInv, NEW n \in Nodes, ProxyBatch(n)
  PROVE  ForwardInv'
<1>1. PICK r \in rules : \E b \in Samples[r] : BillProxy(r, b) /\ Recheck(n, {Owner[r]})
  BY DEF ProxyBatch
<1> PICK b \in Samples[r] : BillProxy(r, b) /\ Recheck(n, {Owner[r]})
  BY <1>1
<1>2. /\ UNCHANGED <<rules, quota, disabled, expired, live, todo, owed, batch, tick>>
  BY DEF ProxyBatch, world, userVars, pushVars
<1>3. r \in Rules /\ Owner[r] \in Users /\ Total(b) \in Nat
  BY RulesFinite, QuotaAssumption DEF TypeOK, Total, Bytes
<1>4. \A u \in Users : /\ used[u] \in Nat
                       /\ used'[u] = IF u = Owner[r] THEN used[u] + Total(b) ELSE used[u]
  BY <1>3 DEF BillProxy, TypeOK, LedgersTyped
<1>5. \A u \in Users, m \in Nodes : /\ grant'[<<u, m>>].quota = grant[<<u, m>>].quota
                                    /\ grant[<<u, m>>].used <= grant'[<<u, m>>].used
  BY <1>3 DEF BillProxy, TypeOK, LedgersTyped
<1>6. /\ \A v : Rechecking(v) => Rechecking(v)'
      /\ Rechecking(Owner[r])'
      /\ \A v : Lifting(v) => Lifting(v)'
      /\ \A m : PushedAfter(m) => PushedAfter(m)'
  BY <1>2, RecheckStarts
<1> QED BY <1>2, <1>3, <1>4, <1>5, <1>6, BilledForward

(***************************************************************************)
(* The initial states, and every step.                                     *)
(***************************************************************************)
LEMMA InitForward ==
  ASSUME Init
  PROVE  ForwardInv
<1>1. TypeOK
  BY InitTyped
<1>2. /\ used = [u \in Users |-> 0] /\ disabled = [u \in Users |-> "no"]
      /\ live = [n \in Nodes |-> RulesAt(n)]
  BY DEF Init
<1>3. \A u \in Users : ~Over(u)
  <2> SUFFICES ASSUME NEW u \in Users  PROVE ~ Over(u)
    OBVIOUS
  <2>1. quota[u] \in Nat
    BY <1>1, QuotaAssumption DEF TypeOK, UsersTyped
  <2>2. RateOf(u) \in Nat
    BY QuotaAssumption DEF RateOf
  <2>3. used[u] * RateOf(u) = 0
    BY <1>2, <2>2
  <2> QED BY <2>1, <2>3 DEF Over
<1>4. DisabledCut /\ OverCut
  BY <1>1, <1>2, <1>3, LiveOwned DEF DisabledCut, OverCut
<1>5. AllowedServed
  BY <1>1, <1>2, Selections DEF AllowedServed, TypeOK
<1> QED BY <1>4, <1>5 DEF ForwardInv

LEMMA EnforceForward ==
  ASSUME TypeOK, ForwardInv, NEW t \in Threads,
         EnforcePerNode(t) \/ EnforceRead(t) \/ EnforceDisable(t)
  PROVE  ForwardInv'
<1> PICK u : u = check[t].user
  OBVIOUS
<1>1. /\ UNCHANGED <<rules, used, grant, quota, expired, live, owed, batch, tick>>
      /\ todo \subseteq todo'
      /\ \A s \in Threads \ {t} : check'[s] = check[s]
      /\ check[t].pc \in {"grants", "read", "disable"} /\ t \in DOMAIN check
  BY DEF EnforcePerNode, EnforceRead, EnforceDisable, world, ledgerVars, userVars, NextUser,
         TypeOK, ChecksTyped
<1>2. \A v : Lifting(v) => Lifting(v)'
  BY <1>1 DEF Lifting
<1>3. CASE EnforcePerNode(t)
  <2>1. PICK v \in check[t].users :
          check' = [check EXCEPT ![t] = At("read", v, check[t].users \ {v}, check[t].after)]
    BY <1>3 DEF EnforcePerNode
  <2>2. check'[t] = At("read", v, check[t].users \ {v}, check[t].after) /\ check[t].pc = "grants"
    BY <1>1, <1>3, <2>1 DEF EnforcePerNode
  <2>3. \A w : Rechecking(w) => Rechecking(w)'
    BY <1>1, <2>2 DEF Rechecking, At
  <2>4. \A n : PushedAfter(n) => PushedAfter(n)'
    BY <1>1, <2>2 DEF PushedAfter, At
  <2>5. UNCHANGED disabled
    BY <1>3 DEF EnforcePerNode, userVars
  <2> QED BY <1>1, <1>2, <2>3, <2>4, <2>5, CalmForward
<1>4. ASSUME NextUser(t), check[t].pc \in {"read", "disable"}, check[t].after \subseteq todo'
      PROVE  /\ \A v : v # u /\ Rechecking(v) => Rechecking(v)'
             /\ \A n : PushedAfter(n) => PushedAfter(n)' \/ n \in todo'
  <2>1. check'[t] = IF check[t].users = {} THEN NoCheck
                    ELSE At("grants", NoUser, check[t].users, {})
    BY <1>1, <1>4 DEF NextUser
  <2>2. \A v : v # u /\ Rechecking(v) => Rechecking(v)'
    BY <1>1, <1>4, <2>1 DEF Rechecking, At
  <2>3. \A n : PushedAfter(n) => PushedAfter(n)' \/ n \in todo'
    BY <1>1, <1>4 DEF PushedAfter
  <2> QED BY <2>2, <2>3
<1>5. CASE EnforceRead(t)
  <2>1. UNCHANGED disabled /\ check[t].pc = "read"
    BY <1>5 DEF EnforceRead, userVars
  <2>2. CASE disabled[u] = "no" /\ Over(u)
    <3>1. check' = [check EXCEPT ![t].pc = "disable"]
      BY <1>5, <2>2 DEF EnforceRead
    <3>2. /\ check'[t].pc = "disable" /\ check'[t].user = check[t].user
          /\ check'[t].users = check[t].users /\ check'[t].after = check[t].after
      BY <1>1, <3>1 DEF TypeOK, ChecksTyped
    <3>3. \A w : Rechecking(w) => Rechecking(w)'
      BY <1>1, <3>2 DEF Rechecking
    <3>4. \A n : PushedAfter(n) => PushedAfter(n)'
      BY <1>1, <3>2 DEF PushedAfter
    <3> QED BY <1>1, <1>2, <2>1, <3>3, <3>4, CalmForward
  <2>3. CASE ~ (disabled[u] = "no" /\ Over(u))
    <3>1. NextUser(t) /\ check[t].after \subseteq todo'
      BY <1>5, <2>3 DEF EnforceRead
    <3>2. /\ \A v : v # u /\ Rechecking(v) => Rechecking(v)'
          /\ \A n : PushedAfter(n) => PushedAfter(n)' \/ n \in todo'
      BY <1>4, <2>1, <3>1
    <3> QED BY <1>1, <1>2, <2>1, <2>3, <3>2, CalmForward
  <2> QED BY <2>2, <2>3
<1>6. CASE EnforceDisable(t)
  <2>1. /\ NextUser(t) /\ check[t].pc = "disable" /\ check[t].after \subseteq todo'
        /\ DistinctUserNodes(u) \subseteq todo'
        /\ disabled' = [disabled EXCEPT ![u] = "quota"]
    BY <1>6 DEF EnforceDisable
  <2>2. /\ \A v : v # u /\ Rechecking(v) => Rechecking(v)'
        /\ \A n : PushedAfter(n) => PushedAfter(n)' \/ n \in todo'
    BY <1>4, <2>1
  <2>3. u \in Users /\ \A v \in Users \ {u} : disabled'[v] = disabled[v]
    BY <2>1 DEF TypeOK, ChecksTyped, UsersTyped
  <2>4. Over(u)' = Over(u)
    BY <1>1 DEF Over
  <2> QED BY <1>1, <1>2, <2>1, <2>2, <2>3, <2>4, CalledForward
<1> QED BY <1>3, <1>5, <1>6

LEMMA RequestForward ==
  ASSUME TypeOK, ForwardInv, NEW h \in Handlers, NEW u \in Users,
         \/ apiSetUserQuota(h, u) \/ apiUpdateUserProfile(h, u) \/ apiToggleUser(h, u)
         \/ apiResetUserTraffic(h, u) \/ apiSetUserExpiry(h, u)
         \/ \E n \in Nodes : apiSetPerNodeQuota(h, u, n) \/ apiResetPerNodeTraffic(h, u, n)
  PROVE  ForwardInv'
<1> h \in Threads
  BY DEF Threads
<1>1. UNCHANGED <<rules, batch, tick, live>> /\ check[h].pc = "idle"
  BY DEF apiSetUserQuota, apiUpdateUserProfile, apiToggleUser, apiResetUserTraffic,
     apiSetUserExpiry, apiSetPerNodeQuota, apiResetPerNodeTraffic, Request, world, pushVars
<1>2. CASE apiSetUserQuota(h, u)
  <2>1. /\ UNCHANGED <<used, grant, disabled, expired, todo>> /\ owed' = owed \cup {u}
        /\ \A v \in Users \ {u} : quota'[v] = quota[v]
        /\ check' = [check EXCEPT ![h] = At("read", u, {}, {})]
    BY <1>2 DEF apiSetUserQuota, ledgerVars, TypeOK, UsersTyped
  <2>2. /\ \A v : Rechecking(v) => Rechecking(v)'
        /\ Rechecking(u)'
        /\ \A n : PushedAfter(n) => PushedAfter(n)'
        /\ \A v : Lifting(v) => Lifting(v)'
    BY <1>1, <2>1, CheckStarts
  <2> QED BY <1>1, <2>1, <2>2, CalledForward
<1>3. CASE apiUpdateUserProfile(h, u)
  <2>1. /\ UNCHANGED <<used, grant, disabled, todo, owed>>
        /\ \A v \in Users \ {u} : quota'[v] = quota[v] /\ expired'[v] = expired[v]
        /\ check' = [check EXCEPT ![h] = At("read", u, {}, DistinctUserNodes(u))]
    BY <1>3 DEF apiUpdateUserProfile, ledgerVars, pushVars, TypeOK, UsersTyped
  <2>2. /\ \A v : Rechecking(v) => Rechecking(v)'
        /\ Rechecking(u)' /\ \A n \in DistinctUserNodes(u) : PushedAfter(n)'
        /\ \A n : PushedAfter(n) => PushedAfter(n)'
        /\ \A v : Lifting(v) => Lifting(v)'
    BY <1>1, <2>1, CheckStarts
  <2> QED BY <1>1, <2>1, <2>2, CalledForward
<1>4. CASE apiResetUserTraffic(h, u)
  <2>1. /\ UNCHANGED <<quota, disabled, expired, todo, owed>> /\ Wipe(u, resetAt[u])
        /\ check' = [check EXCEPT ![h] = At("lift", u, {}, {})]
    BY <1>4 DEF apiResetUserTraffic, userVars, pushVars
  <2>2. /\ \A v : Rechecking(v) => Rechecking(v)'
        /\ Lifting(u)'
        /\ \A n : PushedAfter(n) => PushedAfter(n)'
        /\ \A v : Lifting(v) => Lifting(v)'
    BY <1>1, <2>1, CheckStarts
  <2> QED BY <1>1, <2>1, <2>2, WipeForward
<1>5. CASE apiToggleUser(h, u) \/ apiSetUserExpiry(h, u)
  <2>1. /\ UNCHANGED <<used, grant, quota, check>> /\ owed' = owed \ {u}
        /\ todo' = todo \cup DistinctUserNodes(u)
        /\ \A v \in Users \ {u} : disabled'[v] = disabled[v] /\ expired'[v] = expired[v]
    BY <1>5 DEF apiToggleUser, apiSetUserExpiry, ledgerVars, TypeOK, UsersTyped
  <2>2. /\ \A v : Rechecking(v)' = Rechecking(v) /\ Lifting(v)' = Lifting(v)
        /\ \A n : PushedAfter(n)' = PushedAfter(n)
    BY <1>1, <2>1, CheckSame
  <2>3. Over(u)' = Over(u)
    BY <2>1 DEF Over
  <2> QED BY <1>1, <2>1, <2>2, <2>3, CalledForward
<1>6. ASSUME NEW n \in Nodes, apiSetPerNodeQuota(h, u, n) \/ apiResetPerNodeTraffic(h, u, n)
      PROVE  ForwardInv'
  <2>1. /\ UNCHANGED <<used, quota, disabled, expired, check>> /\ owed' = owed \cup {u}
        /\ todo \subseteq todo'
    BY <1>6 DEF apiSetPerNodeQuota, apiResetPerNodeTraffic, userVars
  <2>2. \A v \in Users \ {u} : \A m \in Nodes : grant'[<<v, m>>] = grant[<<v, m>>]
    <3>1. CASE apiSetPerNodeQuota(h, u, n)
      BY <3>1 DEF apiSetPerNodeQuota, TypeOK, LedgersTyped
    <3>2. CASE apiResetPerNodeTraffic(h, u, n)
      BY <3>2 DEF apiResetPerNodeTraffic, TypeOK, LedgersTyped
    <3> QED BY <1>6, <3>1, <3>2
  <2>3. /\ \A v : Rechecking(v)' = Rechecking(v) /\ Lifting(v)' = Lifting(v)
        /\ \A m : PushedAfter(m)' = PushedAfter(m)
    BY <1>1, <2>1, CheckSame
  <2>4. Over(u)' = Over(u)
    BY <2>1 DEF Over
  <2> QED BY <1>1, <2>1, <2>2, <2>3, <2>4, CalledForward
<1> QED BY <1>2, <1>3, <1>4, <1>5, <1>6

LEMMA ForwardStep ==
  ASSUME TypeOK, TypeOK', ForwardInv, [Next]_vars
  PROVE  ForwardInv'
<1>1. CASE UNCHANGED vars
  <2>1. /\ UNCHANGED <<rules, used, grant, quota, disabled, expired, live, todo, owed>>
        /\ UNCHANGED <<batch, check, tick>>
    BY <1>1 DEF vars, world, ledgerVars, userVars, pushVars
  <2> QED BY <2>1, CheckSame, CalmForward
<1>2. ASSUME NEW n \in Nodes, LoadBatch(n)
      PROVE  ForwardInv'
  <2>1. /\ UNCHANGED <<rules, used, grant, quota, disabled, expired, live, todo, owed>>
        /\ UNCHANGED <<check, tick>> /\ batch[n].pc = "idle"
        /\ \A m \in Nodes \ {n} : batch'[m] = batch[m]
    BY <1>2 DEF LoadBatch, world, ledgerVars, userVars, pushVars, TypeOK, BatchesTyped
  <2>2. \A v : Lifting(v) => Lifting(v)'
    BY <2>1 DEF Lifting
  <2> QED BY <2>1, <2>2, CheckSame, CalmForward
<1>3. ASSUME NEW n \in Nodes, RolloverInBatch(n)
      PROVE  ForwardInv'
  <2>1. PICK u \in batch[n].stale :
          /\ Wipe(u, cycle)
          /\ batch' = [batch EXCEPT ![n].pc = "lift", ![n].user = u, ![n].stale = @ \ {u}]
    BY <1>3 DEF RolloverInBatch
  <2>2. /\ UNCHANGED <<rules, quota, disabled, expired, live, todo, owed, check, tick>>
        /\ batch[n].pc = "owners"
    BY <1>3 DEF RolloverInBatch, world, userVars, pushVars
  <2>3. /\ batch'[n].pc = "lift" /\ batch'[n].user = u /\ u \in Users
        /\ \A m \in Nodes \ {n} : batch'[m] = batch[m]
    BY <2>1 DEF TypeOK, BatchesTyped
  <2>4. Lifting(u)' /\ \A v : Lifting(v) => Lifting(v)'
    BY <2>2, <2>3 DEF Lifting
  <2> QED BY <2>1, <2>2, <2>3, <2>4, CheckSame, WipeForward
<1>4. ASSUME NEW n \in Nodes, LiftInBatch(n)
      PROVE  ForwardInv'
  <2> PICK u : u = batch[n].user
    OBVIOUS
  <2> PICK lift : lift = (u \in batch[n].off)
    OBVIOUS
  <2>1. /\ UNCHANGED <<rules, used, grant, check, tick>> /\ Lift(u, lift) /\ u \in Users
        /\ \A m \in Nodes \ {n} : batch'[m] = batch[m]
    BY <1>4 DEF LiftInBatch, world, ledgerVars, TypeOK, BatchesTyped
  <2>2. \A v \in Users \ {u} : Lifting(v) => Lifting(v)'
    BY <2>1 DEF Lifting
  <2> QED BY <2>1, <2>2, CheckSame, LiftForward
<1>5. CASE NewCycle \/ ExpiryTick
  <2>1. /\ UNCHANGED <<rules, used, grant, quota, disabled, expired, live, owed>>
        /\ UNCHANGED <<batch, check, tick>> /\ todo \subseteq todo'
    BY <1>5 DEF NewCycle, ExpiryTick, world, ledgerVars, userVars, pushVars
  <2> QED BY <2>1, CheckSame, CalmForward
<1>6. CASE TickList
  <2>1. /\ UNCHANGED <<rules, used, grant, quota, disabled, expired, live, todo, owed>>
        /\ UNCHANGED <<batch, check>> /\ tick.pc = "idle"
    BY <1>6 DEF TickList, world, ledgerVars, userVars, pushVars
  <2>2. \A v : Lifting(v) => Lifting(v)'
    BY <2>1 DEF Lifting
  <2> QED BY <2>1, <2>2, CheckSame, CalmForward
<1>7. CASE TickReset
  <2>1. PICK u \in tick.stale :
          Wipe(u, cycle) /\ tick' = [tick EXCEPT !.pc = "lift", !.user = u, !.stale = @ \ {u}]
    BY <1>7 DEF TickReset
  <2>2. /\ UNCHANGED <<rules, quota, disabled, expired, live, todo, owed, batch, check>>
        /\ tick.pc = "users"
    BY <1>7 DEF TickReset, world, userVars, pushVars
  <2>3. tick'.pc = "lift" /\ tick'.user = u /\ u \in Users
    BY <2>1 DEF TypeOK, TickTyped
  <2>4. Lifting(u)' /\ \A v : Lifting(v) => Lifting(v)'
    BY <2>2, <2>3 DEF Lifting
  <2> QED BY <2>1, <2>2, <2>3, <2>4, CheckSame, WipeForward
<1>8. CASE TickLift
  <2> PICK u : u = tick.user
    OBVIOUS
  <2> PICK lift : lift = (u \in tick.off)
    OBVIOUS
  <2>1. UNCHANGED <<rules, used, grant, batch, check>> /\ u \in Users
    BY <1>8 DEF TickLift, world, ledgerVars, TypeOK, TickTyped
  <2>2. \A v \in Users \ {u} : Lifting(v) => Lifting(v)'
    BY <2>1 DEF Lifting
  <2>3. CASE Lift(u, lift)
    BY <2>1, <2>2, <2>3, CheckSame, LiftForward
  <2>4. CASE owed' = owed \cup {u} /\ UNCHANGED <<userVars, live, todo>>
    <3>1. Over(u)' = Over(u)
      BY <2>1, <2>4 DEF Over, userVars
    <3> QED BY <2>1, <2>2, <2>4, <3>1, CheckSame, CalledForward DEF userVars
  <2> QED BY <1>8, <2>3, <2>4 DEF TickLift
<1>9. ASSUME NEW t \in Threads, LiftAfterReset(t)
      PROVE  ForwardInv'
  <2> PICK u : u = check[t].user
    OBVIOUS
  <2> PICK lift : lift = (disabled[u] = "quota")
    OBVIOUS
  <2>1. /\ UNCHANGED <<rules, used, grant, batch, tick>> /\ Lift(u, lift) /\ u \in Users
        /\ check[t].pc = "lift" /\ \A s \in Threads \ {t} : check'[s] = check[s]
    BY <1>9 DEF LiftAfterReset, world, ledgerVars, TypeOK, ChecksTyped
  <2>2. \A v \in Users \ {u} : Lifting(v) => Lifting(v)'
    BY <2>1 DEF Lifting
  <2>3. /\ \A v : Rechecking(v) => Rechecking(v)'
        /\ \A n : PushedAfter(n) => PushedAfter(n)'
    BY <2>1 DEF Rechecking, PushedAfter
  <2> QED BY <2>1, <2>2, <2>3, LiftForward
<1>10. ASSUME NEW u \in Users, Expire(u)
       PROVE  ForwardInv'
  <2>1. /\ UNCHANGED <<rules, used, grant, quota, disabled, live, todo, owed>>
        /\ UNCHANGED <<batch, check, tick>>
        /\ \A v \in Users \ {u} : expired'[v] = expired[v]
        /\ expired'[u] /\ Over(u)' = Over(u)
    BY <1>10 DEF Expire, world, ledgerVars, pushVars, TypeOK, UsersTyped, Over
  <2>2. /\ \A v : Rechecking(v)' = Rechecking(v) /\ Lifting(v)' = Lifting(v)
        /\ \A m : PushedAfter(m)' = PushedAfter(m)
    BY <2>1, CheckSame
  <2>3. \A n, v : Served(n, v) => Served(n, v)'
    BY <2>1, <2>2 DEF Served
  <2>4. \A n \in Nodes : \A r \in ActiveRules(n)' : Owner[r] # u
    BY <2>1 DEF ActiveRules
  <2>5. \A n \in DistinctUserNodes(u) : n \in Nodes
    BY DEF DistinctUserNodes
  <2> QED BY <2>1, <2>2, <2>3, <2>4, <2>5, OneUserForward
<1> QED
  BY <1>1, <1>2, <1>3, <1>4, <1>5, <1>6, <1>7, <1>8, <1>9, <1>10, CommitForward, ProxyForward,
     DispatchForward, EnforceForward, RequestForward
     DEF Next, Working, Tick, Enforce

(***************************************************************************)
(* When nothing is under way, no node forwards for a user that is disabled *)
(* or over its quota, and every rule that may be forwarded is, unless its  *)
(* owner's quotas were edited, or a lift failed, since the last push: for  *)
(* any number of re-checks and requests at work, in any order.             *)
(***************************************************************************)
THEOREM AlwaysForwardedIffAllowed == Spec => []ForwardedIffAllowed
<1>1. TypeOK /\ TypeOK' /\ ForwardInv /\ [Next]_vars => ForwardInv'
  BY ForwardStep
<1>2. Spec => []ForwardInv
  BY InitForward, TypeCorrect, <1>1, PTL DEF Spec
<1>3. TypeOK /\ ForwardInv => ForwardedIffAllowed
  <2> SUFFICES ASSUME TypeOK, ForwardInv, Quiet, NEW n \in Nodes
               PROVE  /\ \A r \in live[n] : disabled[Owner[r]] = "no" /\ ~Over(Owner[r])
                      /\ \A r \in ActiveRules(n) \ live[n] : Owner[r] \in owed
    BY DEF ForwardedIffAllowed
  <2>1. /\ n \notin todo /\ \A u : ~Rechecking(u) /\ ~Lifting(u)
        /\ \A m : ~PushedAfter(m)
    BY DEF Quiet, Rechecking, Lifting, PushedAfter
  <2>2. \A r \in live[n] : disabled[Owner[r]] = "no" /\ ~Over(Owner[r])
    BY <2>1 DEF ForwardInv, DisabledCut, OverCut
  <2>3. \A r \in ActiveRules(n) \ live[n] : Owner[r] \in owed
    BY <2>1 DEF ForwardInv, AllowedServed, Served
  <2> QED BY <2>2, <2>3
<1> QED BY TypeCorrect, <1>2, <1>3, PTL
=============================================================================
