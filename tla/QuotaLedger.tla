---------------------------- MODULE QuotaLedger ----------------------------
(***************************************************************************)
(* Traffic accounting and quota enforcement on the panel. A counters batch *)
(* of a node bills the users whose rules it forwards; a ledger that has    *)
(* reached its quota takes rules off the nodes, and a cycle rollover or an *)
(* administrator brings them back. Every step below is one database        *)
(* statement or transaction (the pool has one connection): between two of  *)
(* them any other goroutine may run.                                       *)
(*                                                                         *)
(* A push (dispatchToNode) is one atomic step here, which installs what    *)
(* ActiveRuleHopsForPush selects at that moment; NodeSync models how it    *)
(* travels. A handler's pushes wait in todo, in any order.                 *)
(***************************************************************************)
EXTENDS Integers, Sequences, FiniteSets, Functions, TLC

CONSTANTS
  Users, Nodes, Rules,
  Owner,          \* [Rules -> Users]
  Hops,           \* [Rules -> Seq(Nodes)], the physical path of a rule
  RuleSets,       \* the sets of rules an instance may have
  Via,            \* [Rules -> Seq(Nodes)], the logical node of each hop
  OneWay,         \* the nodes that bill the uplink only
  Rate,           \* [Users -> Int], billing_rate
  Samples,        \* [Rules -> SUBSET [up, down]], the bytes a batch may report of a rule
  Checkers,       \* bound: the re-checks of quotas that the batches of a node have
                  \* running; a reader takes a batch while it has one to spare
  Handlers,       \* bound: the administrator requests that may be handled at a time
  Quotas,         \* the quotas an administrator may set; 0 is unlimited
  MaxLimited,     \* bound: quotas that are set at the start
  MaxUsed,        \* bound: a batch is loaded while its ledgers stay within
  MaxCycle,       \* bound: traffic cycles that begin
  MaxEdits,       \* bound: administrator requests and expiries
  Events          \* what may happen, see below

ASSUME QuotaAssumption ==
  /\ IsFiniteSet(Rules) /\ Owner \in [Rules -> Users]
  /\ \A r \in Rules : Hops[r] \in Seq(Nodes) /\ Hops[r] # <<>>
                      /\ Via[r] \in Seq(Nodes) /\ Len(Via[r]) = Len(Hops[r])
  /\ RuleSets \subseteq SUBSET Rules
  /\ OneWay \subseteq Nodes /\ Rate \in [Users -> Int]
  /\ Samples \in [Rules -> SUBSET [up : Nat, down : Nat]]
  /\ 0 \in Quotas /\ Quotas \subseteq Nat
  /\ {MaxLimited, MaxUsed, MaxCycle, MaxEdits} \subseteq Nat
  /\ Events \subseteq {"dbfail", "proxy", "quota", "grant", "resetgrant",
                       "toggle", "reset", "expire"}

VARIABLES
  rules,     \* the rules there are
  used,      \* users.traffic_used_bytes
  quota,     \* users.traffic_quota_bytes
  disabled,  \* users.disabled and disable_reason: "no", "quota" or "admin"
  expired,   \* users.expires_at is in the past
  resetAt,   \* the cycle of users.last_traffic_reset_at
  cycle,     \* the cycle the clock is in
  ruleBytes, \* rules.exit_bytes
  exitBytes, \* user_landing_exits.used_bytes of the exit a rule dials
  grant,     \* user_nodes: traffic used and quota of a user on a node
  live,      \* the rules each node forwards
  todo,      \* nodes with a push on its way
  owed,    \* users whose quotas were edited, or whose lift failed, since their
             \* nodes were last pushed
  batch,     \* the counters batch each node's reader works on
  check,     \* the goroutines that re-check quotas: of batches and of handlers
  tick,      \* cycleResetEnforcer
  edits      \* administrator requests and expiries so far

world == <<rules, cycle>>
ledgerVars == <<used, ruleBytes, exitBytes, grant, resetAt>>
userVars == <<quota, disabled, expired>>
pushVars == <<live, todo, owed>>
vars == <<world, ledgerVars, userVars, pushVars, batch, check, tick, edits>>

Threads == (Nodes \X Checkers) \cup Handlers
NoUser == "none"
NoBytes == [up |-> 0, down |-> 0]
NoBatch == [pc |-> "idle", smp |-> [r \in Rules |-> NoBytes], stale |-> {}, off |-> {},
            user |-> NoUser]
NoTick == [pc |-> "idle", stale |-> {}, off |-> {}, user |-> NoUser]

\* A re-check is at step pc for user u; us are the users to come, and after the
\* nodes its handler pushes when it returns.
At(pc, u, us, after) == [pc |-> pc, user |-> u, users |-> us, after |-> after]
NoCheck == At("idle", NoUser, {}, {})
RulesOf(u) == {r \in rules : Owner[r] = u}
HopsAt(r, n) == {i \in DOMAIN Hops[r] : Hops[r][i] = n}
RulesAt(n) == {r \in rules : HopsAt(r, n) # {}}

-----------------------------------------------------------------------------
(* What a node should forward                                              *)

RateOf(u) == IF Rate[u] > 0 THEN Rate[u] ELSE 1
Over(u) == quota[u] > 0 /\ used[u] * RateOf(u) >= quota[u]
GrantOver(u, n) == grant[<<u, n>>].quota > 0 /\ grant[<<u, n>>].used >= grant[<<u, n>>].quota

\* Mutant: only the disable flag takes an over-quota owner's rules away.
ActiveIgnoresOver(n) ==
  {r \in RulesAt(n) :
     /\ disabled[Owner[r]] = "no" /\ ~expired[Owner[r]]
     /\ \A i \in DOMAIN Via[r] : ~GrantOver(Owner[r], Via[r][i])}

\* The rules of node n that ActiveRuleHopsForPush selects.
ActiveRules(n) ==
  {r \in RulesAt(n) :
     /\ disabled[Owner[r]] = "no" /\ ~expired[Owner[r]]
     /\ ~Over(Owner[r])
     /\ \A i \in DOMAIN Via[r] : ~GrantOver(Owner[r], Via[r][i])}

DistinctUserNodes(u) == {n \in Nodes : \E r \in RulesOf(u) : HopsAt(r, n) # {}}
NodesExceedingQuota(u) == {n \in Nodes : GrantOver(u, n)}

\* The hop nodes of a user's rules that run the granted node m, belong to its
\* segment, or belong to a rule that enters at it.
RulesAffectedByNode(u, m) ==
  UNION {{Hops[r][i] : i \in {j \in DOMAIN Hops[r] : m \in {Hops[r][j], Via[r][j], Via[r][1]}}}
         : r \in RulesOf(u)}

ExpiredUserNodeIDs ==
  UNION {DistinctUserNodes(u) : u \in {v \in Users : disabled[v] = "no" /\ expired[v]}}

\* SegmentFirstHops: the first hop of each logical segment carries its grant.
SegmentFirst(r, i) == \A j \in 1..(i - 1) : Via[r][j] # Via[r][i]
FinalHop(r, i) == i = Len(Hops[r])

-----------------------------------------------------------------------------
(* Ledgers                                                                 *)

\* Mutant: the display counter of the rules survives a reset.
WipeKeepsRules(u, at) ==
  /\ used' = [used EXCEPT ![u] = 0]
  /\ exitBytes' = [r \in Rules |-> IF Owner[r] = u THEN 0 ELSE exitBytes[r]]
  /\ grant' = [k \in Users \X Nodes |->
                 IF k[1] = u THEN [grant[k] EXCEPT !.used = 0] ELSE grant[k]]
  /\ resetAt' = [resetAt EXCEPT ![u] = at]
  /\ UNCHANGED ruleBytes

\* Mutant: the reset is stamped with the start of the next cycle.
WipeStampsNext(u, at) ==
  /\ used' = [used EXCEPT ![u] = 0]
  /\ ruleBytes' = [r \in Rules |-> IF Owner[r] = u THEN 0 ELSE ruleBytes[r]]
  /\ exitBytes' = [r \in Rules |-> IF Owner[r] = u THEN 0 ELSE exitBytes[r]]
  /\ resetAt' = [resetAt EXCEPT ![u] = at + 1]
  /\ UNCHANGED grant

\* zeroUserTrafficLedgers in one transaction; at stamps last_traffic_reset_at.
Wipe(u, at) ==
  /\ used' = [used EXCEPT ![u] = 0]
  /\ ruleBytes' = [r \in Rules |-> IF Owner[r] = u THEN 0 ELSE ruleBytes[r]]
  /\ exitBytes' = [r \in Rules |-> IF Owner[r] = u THEN 0 ELSE exitBytes[r]]
  /\ grant' = [k \in Users \X Nodes |->
                 IF k[1] = u THEN [grant[k] EXCEPT !.used = 0] ELSE grant[k]]
  /\ resetAt' = [resetAt EXCEPT ![u] = at]

Total(s) == s.up + s.down
Billed(n, s) == IF n \in OneWay THEN s.up ELSE Total(s)

\* What the samples of node n add to the ledgers of rule r: its exit (final hop,
\* both directions), its user and itself (final hop, if the sample is billed at
\* all), and the grants of the segments that begin here.
ExitAdd(n, r, s) == IF \E i \in HopsAt(r, n) : FinalHop(r, i) THEN Total(s) ELSE 0
UserAdd(n, r, s) == IF Billed(n, s) > 0 THEN ExitAdd(n, r, s) ELSE 0
Charged(n, r) == {Via[r][i] : i \in {j \in HopsAt(r, n) : SegmentFirst(r, j)}}

UsedAdd(n, smp, u) ==
  SumFunctionOnSet([r \in RulesOf(u) |-> UserAdd(n, r, smp[r])], RulesOf(u))
GrantAdd(n, smp, u, m) ==
  LET S == {r \in RulesOf(u) : m \in Charged(n, r)}
  IN SumFunctionOnSet([r \in S |-> Billed(n, smp[r])], S)

\* smp has the bytes of every rule in the batch, none for a rule that is not.
Bill(n, smp) ==
  /\ used' = [u \in Users |-> used[u] + UsedAdd(n, smp, u)]
  /\ ruleBytes' = [r \in Rules |-> ruleBytes[r] + UserAdd(n, r, smp[r])]
  /\ exitBytes' = [r \in Rules |-> exitBytes[r] + ExitAdd(n, r, smp[r])]
  /\ grant' = [k \in Users \X Nodes |->
        [grant[k] EXCEPT !.used = @ + GrantAdd(n, smp, k[1], k[2])]]
  /\ UNCHANGED resetAt

\* The owners whose quotas a batch makes the hub re-check.
Touched(n, smp) ==
  {Owner[r] : r \in {q \in rules : \/ Billed(n, smp[q]) > 0 /\ Charged(n, q) # {}
                                  \/ ExitAdd(n, q, smp[q]) > 0}}

\* applyProxyCounters: a protocol entry reports rule r as a whole on its node.
BillProxy(r, s) ==
  /\ used' = [used EXCEPT ![Owner[r]] = @ + Total(s)]
  /\ ruleBytes' = [ruleBytes EXCEPT ![r] = @ + Total(s)]
  /\ exitBytes' = [exitBytes EXCEPT ![r] = @ + Total(s)]
  /\ grant' = [grant EXCEPT ![<<Owner[r], Via[r][1]>>].used = @ + Total(s)]
  /\ UNCHANGED resetAt

-----------------------------------------------------------------------------
Init ==
  /\ used = [u \in Users |-> 0] /\ ruleBytes = [r \in Rules |-> 0]
  /\ exitBytes = [r \in Rules |-> 0]
  /\ rules \in RuleSets
  /\ grant \in [Users \X Nodes -> [used : {0}, quota : Quotas]]
  /\ quota \in [Users -> Quotas]
  /\ Cardinality({u \in Users : quota[u] > 0})
       + Cardinality({k \in Users \X Nodes : grant[k].quota > 0}) <= MaxLimited
  /\ disabled = [u \in Users |-> "no"] /\ expired = [u \in Users |-> FALSE]
  /\ resetAt = [u \in Users |-> 0] /\ cycle = 0
  /\ live = [n \in Nodes |-> RulesAt(n)] /\ todo = {} /\ owed = {}
  /\ batch = [n \in Nodes |-> NoBatch] /\ check = [t \in Threads |-> NoCheck]
  /\ tick = NoTick /\ edits = 0

(* applyCounters                                                           *)

\* The users of us whose rows, as just read, are of an earlier cycle, and those of
\* them that a rollover is to enable.
StaleOf(us) == {u \in us : resetAt[u] < cycle}
OffOf(us) == {u \in us : disabled[u] = "quota"}

\* Bound: the ledgers a sample would be charged to stay within MaxUsed.
Room(r, s) ==
  LET within(x) == x + Total(s) <= MaxUsed IN
  /\ Total(s) > 0 /\ within(used[Owner[r]]) /\ within(exitBytes[r])
  /\ \A m \in Nodes : within(grant[<<Owner[r], m>>].used)

\* The reader of node n decodes a batch and loads its hops and their owners.
\* Bytes of a rule may be reported after the node has stopped forwarding it.
LoadBatch(n) ==
  /\ batch[n].pc = "idle" /\ \E c \in Checkers : check[<<n, c>>].pc = "idle"
  /\ \E smp \in [Rules -> [up : 0..MaxUsed, down : 0..MaxUsed]] :
       /\ \E r \in Rules : smp[r] # NoBytes
       /\ \A r \in Rules : smp[r] # NoBytes =>
            r \in RulesAt(n) /\ smp[r] \in Samples[r] /\ Room(r, smp[r])
       /\ LET old == StaleOf({Owner[q] : q \in RulesAt(n)}) IN
          batch' = [batch EXCEPT ![n] = [pc |-> "owners", smp |-> smp, stale |-> old,
                                         off |-> OffOf(old), user |-> NoUser]]
  /\ UNCHANGED <<ledgerVars, userVars, world, pushVars, check, tick, edits>>

\* CheckAndResetTrafficCycle, which trusts the owner row the batch has loaded.
RolloverInBatch(n) ==
  /\ batch[n].pc = "owners"
  /\ \E u \in batch[n].stale :
       /\ Wipe(u, cycle)
       /\ batch' = [batch EXCEPT ![n].pc = "lift", ![n].user = u,
                                 ![n].stale = @ \ {u}]
  /\ UNCHANGED <<userVars, world, pushVars, check, tick, edits>>

\* A user disabled for its quota comes back, and all its nodes are pushed.
Lift(u, lift) ==
  /\ disabled' = [disabled EXCEPT ![u] = IF lift THEN "no" ELSE @]
  /\ todo' = todo \cup DistinctUserNodes(u)
  /\ owed' = owed \ {u}
  /\ UNCHANGED <<quota, expired, live>>

LiftInBatch(n) ==
  /\ batch[n].pc = "lift"
  /\ Lift(batch[n].user, batch[n].user \in batch[n].off)
  /\ batch' = [batch EXCEPT ![n].pc = "owners", ![n].user = NoUser]
  /\ UNCHANGED <<ledgerVars, world, check, tick, edits>>

\* A goroutine of its own re-checks the quotas of the users in us.
Recheck(n, us) ==
  \E c \in Checkers :
    /\ check[<<n, c>>].pc = "idle"
    /\ check' = [check EXCEPT ![<<n, c>>] = At("grants", NoUser, us, {})]

\* Every ledger in one transaction; the quotas are re-checked even if it fails.
CommitBatch(n) ==
  /\ batch[n].pc = "owners" /\ batch[n].stale = {}
  /\ \/ Bill(n, batch[n].smp)
     \/ "dbfail" \in Events /\ UNCHANGED ledgerVars
  /\ LET us == Touched(n, batch[n].smp) IN
     IF us = {} THEN UNCHANGED check ELSE Recheck(n, us)
  /\ batch' = [batch EXCEPT ![n] = NoBatch]
  /\ UNCHANGED <<userVars, world, pushVars, tick, edits>>

\* A batch of the proxy cores: the reader is not in the middle of another one.
ProxyBatch(n) ==
  /\ "proxy" \in Events /\ batch[n].pc = "idle"
  /\ \E r \in rules : \E s \in Samples[r] :
       /\ Hops[r] = <<n>> /\ Room(r, s)
       /\ BillProxy(r, s)
       /\ Recheck(n, {Owner[r]})
  /\ UNCHANGED <<userVars, world, pushVars, batch, tick, edits>>

-----------------------------------------------------------------------------
(* OnTrafficUpdate: enforcePerNodeQuota, then enforceUserQuota, which reads *)
(* the user, decides, disables it and lists its nodes in four statements.  *)

EnforcePerNode(t) ==
  /\ check[t].pc = "grants"
  /\ \E u \in check[t].users :
       /\ todo' = todo \cup UNION {RulesAffectedByNode(u, m) : m \in NodesExceedingQuota(u)}
       /\ check' = [check EXCEPT ![t] =
                      At("read", u, check[t].users \ {u}, check[t].after)]
  /\ UNCHANGED <<ledgerVars, userVars, world, live, owed, batch, tick, edits>>

NextUser(t) ==
  check' = [check EXCEPT ![t] =
    IF check[t].users = {} THEN NoCheck ELSE At("grants", NoUser, check[t].users, {})]

EnforceRead(t) ==
  /\ check[t].pc = "read"
  /\ IF disabled[check[t].user] = "no" /\ Over(check[t].user)
     THEN check' = [check EXCEPT ![t].pc = "disable"] /\ UNCHANGED todo
     ELSE NextUser(t) /\ todo' = todo \cup check[t].after
  /\ UNCHANGED <<ledgerVars, userVars, world, live, owed, batch, tick, edits>>

\* Mutant: the user is disabled, its nodes are left as they are.
EnforceDisableNoPush(t) ==
  /\ check[t].pc = "disable"
  /\ disabled' = [disabled EXCEPT ![check[t].user] = "quota"]
  /\ NextUser(t)
  /\ UNCHANGED <<ledgerVars, quota, expired, world, pushVars, batch, tick, edits>>

EnforceDisable(t) ==
  /\ check[t].pc = "disable"
  /\ disabled' = [disabled EXCEPT ![check[t].user] = "quota"]
  /\ todo' = todo \cup DistinctUserNodes(check[t].user) \cup check[t].after
  /\ NextUser(t)
  /\ UNCHANGED <<ledgerVars, quota, expired, world, live, owed, batch, tick, edits>>

-----------------------------------------------------------------------------
(* cycleResetEnforcer                                                      *)

NewCycle ==
  /\ cycle < MaxCycle /\ cycle' = cycle + 1
  /\ UNCHANGED <<rules, ledgerVars, userVars, pushVars, batch, check, tick, edits>>

TickList ==
  /\ tick.pc = "idle" /\ StaleOf(Users) # {}
  /\ tick' = [pc |-> "users", stale |-> StaleOf(Users), off |-> OffOf(StaleOf(Users)),
              user |-> NoUser]
  /\ UNCHANGED <<ledgerVars, userVars, world, pushVars, batch, check, edits>>

TickReset ==
  /\ tick.pc = "users"
  /\ \E u \in tick.stale :
       /\ Wipe(u, cycle)
       /\ tick' = [tick EXCEPT !.pc = "lift", !.user = u, !.stale = @ \ {u}]
  /\ UNCHANGED <<userVars, world, pushVars, batch, check, edits>>

\* Without its statement the enforcer goes on with the next user.
TickLift ==
  /\ tick.pc = "lift"
  /\ \/ Lift(tick.user, tick.user \in tick.off)
     \/ /\ "dbfail" \in Events /\ tick.user \in tick.off
        /\ owed' = owed \cup {tick.user}
        /\ UNCHANGED <<userVars, live, todo>>
  /\ tick' = IF tick.stale = {} THEN NoTick
             ELSE [tick EXCEPT !.pc = "users", !.user = NoUser]
  /\ UNCHANGED <<ledgerVars, world, batch, check, edits>>

-----------------------------------------------------------------------------
(* Administrator requests and the clock                                    *)

\* A request of this kind reaches handler h; the bound is on their number.
Request(h, kind) ==
  /\ kind \in Events /\ edits < MaxEdits /\ edits' = edits + 1
  /\ check[h].pc = "idle"
  /\ UNCHANGED <<world, batch, tick>>

apiSetUserQuota(h, u) ==
  /\ Request(h, "quota")
  /\ \E q \in Quotas \ {quota[u]} : quota' = [quota EXCEPT ![u] = q]
  /\ check' = [check EXCEPT ![h] = At("read", u, {}, {})]
  /\ owed' = owed \cup {u}
  /\ UNCHANGED <<ledgerVars, disabled, expired, live, todo>>

apiUpdateUserProfile(h, u) ==
  /\ Request(h, "quota")
  /\ \E q \in Quotas, e \in BOOLEAN :
       /\ quota' = [quota EXCEPT ![u] = q] /\ expired' = [expired EXCEPT ![u] = e]
       /\ <<q, e>> # <<quota[u], expired[u]>>
  /\ check' = [check EXCEPT ![h] = At("read", u, {}, DistinctUserNodes(u))]
  /\ UNCHANGED <<ledgerVars, disabled, pushVars>>

\* A per-node quota is stored and nothing else happens.
apiSetPerNodeQuota(h, u, n) ==
  /\ Request(h, "grant")
  /\ \E q \in Quotas \ {grant[<<u, n>>].quota} : grant' = [grant EXCEPT ![<<u, n>>].quota = q]
  /\ owed' = owed \cup {u}
  /\ UNCHANGED <<used, ruleBytes, exitBytes, resetAt, userVars, live, todo, check>>

apiResetPerNodeTraffic(h, u, n) ==
  /\ Request(h, "resetgrant") /\ grant[<<u, n>>].used > 0
  /\ grant' = [grant EXCEPT ![<<u, n>>].used = 0]
  /\ todo' = todo \cup RulesAffectedByNode(u, n)
  /\ owed' = owed \cup {u}
  /\ UNCHANGED <<used, ruleBytes, exitBytes, resetAt, userVars, live, check>>

apiToggleUser(h, u) ==
  /\ Request(h, "toggle")
  /\ disabled' = [disabled EXCEPT ![u] = IF @ = "no" THEN "admin" ELSE "no"]
  /\ todo' = todo \cup DistinctUserNodes(u)
  /\ owed' = owed \ {u}
  /\ UNCHANGED <<ledgerVars, quota, expired, live, check>>

apiResetUserTraffic(h, u) ==
  /\ Request(h, "reset")
  /\ Wipe(u, resetAt[u])
  /\ check' = [check EXCEPT ![h] = At("lift", u, {}, {})]
  /\ UNCHANGED <<userVars, pushVars>>

LiftAfterReset(h) ==
  /\ check[h].pc = "lift"
  /\ Lift(check[h].user, disabled[check[h].user] = "quota")
  /\ check' = [check EXCEPT ![h] = NoCheck]
  /\ UNCHANGED <<ledgerVars, world, batch, tick, edits>>

apiSetUserExpiry(h, u) ==
  /\ Request(h, "expire")
  /\ expired' = [expired EXCEPT ![u] = ~@]
  /\ todo' = todo \cup DistinctUserNodes(u)
  /\ owed' = owed \ {u}
  /\ UNCHANGED <<ledgerVars, quota, disabled, live, check>>

Expire(u) ==
  /\ "expire" \in Events /\ edits < MaxEdits /\ ~expired[u]
  /\ expired' = [expired EXCEPT ![u] = TRUE] /\ edits' = edits + 1
  /\ UNCHANGED <<ledgerVars, quota, disabled, world, pushVars, batch, check, tick>>

\* expiryEnforcer finds something to push (it pushes the same nodes every 30 s).
ExpiryTick ==
  /\ ExpiredUserNodeIDs \ todo # {}
  /\ \E n \in ExpiredUserNodeIDs : live[n] # ActiveRules(n)
  /\ todo' = todo \cup ExpiredUserNodeIDs
  /\ UNCHANGED <<ledgerVars, userVars, world, live, owed, batch, check, tick, edits>>

dispatchToNode(n) ==
  /\ n \in todo
  /\ live' = [live EXCEPT ![n] = ActiveRules(n)]
  /\ todo' = todo \ {n}
  /\ UNCHANGED <<ledgerVars, userVars, world, owed, batch, check, tick, edits>>

-----------------------------------------------------------------------------
Enforce(t) ==
  \/ EnforcePerNode(t) \/ EnforceRead(t) \/ EnforceDisable(t)
  \/ t \in Handlers /\ LiftAfterReset(t)
Tick == TickList \/ TickReset \/ TickLift
Working(n) == RolloverInBatch(n) \/ LiftInBatch(n) \/ CommitBatch(n)

Next ==
  \/ \E n \in Nodes : LoadBatch(n) \/ Working(n) \/ ProxyBatch(n) \/ dispatchToNode(n)
  \/ \E t \in Threads : Enforce(t)
  \/ NewCycle \/ Tick \/ ExpiryTick
  \/ \E u \in Users : Expire(u)
  \/ \E h \in Handlers, u \in Users :
       \/ apiSetUserQuota(h, u) \/ apiUpdateUserProfile(h, u) \/ apiToggleUser(h, u)
       \/ apiResetUserTraffic(h, u) \/ apiSetUserExpiry(h, u)
       \/ \E n \in Nodes : apiSetPerNodeQuota(h, u, n) \/ apiResetPerNodeTraffic(h, u, n)

Spec == Init /\ [][Next]_vars

\* A goroutine runs on; the tickers of the enforcers fire; a push is delivered.
Fairness ==
  /\ \A n \in Nodes : WF_vars(Working(n)) /\ WF_vars(dispatchToNode(n))
  /\ \A t \in Threads : WF_vars(Enforce(t))
  /\ WF_vars(Tick) /\ WF_vars(ExpiryTick)

FairSpec == Spec /\ Fairness

-----------------------------------------------------------------------------
\* Every variable has its kind, a node forwards only rules it carries, and a step
\* that is about a user has one.
LedgersTyped ==
  /\ used \in [Users -> Nat] /\ ruleBytes \in [Rules -> Nat] /\ exitBytes \in [Rules -> Nat]
  /\ grant \in [Users \X Nodes -> [used : Nat, quota : Quotas]]
  /\ resetAt \in [Users -> 0..cycle]

UsersTyped ==
  /\ rules \in RuleSets /\ cycle \in 0..MaxCycle /\ edits \in 0..MaxEdits
  /\ quota \in [Users -> Quotas] /\ expired \in [Users -> BOOLEAN]
  /\ disabled \in [Users -> {"no", "quota", "admin"}]

PushesTyped ==
  /\ live \in [Nodes -> SUBSET Rules] /\ \A n \in Nodes : live[n] \subseteq RulesAt(n)
  /\ todo \subseteq Nodes /\ owed \subseteq Users

BatchesTyped ==
  /\ batch \in [Nodes -> [pc : {"idle", "owners", "lift"},
                          smp : [Rules -> [up : Nat, down : Nat]],
                          stale : SUBSET Users, off : SUBSET Users,
                          user : Users \cup {NoUser}]]
  /\ \A n \in Nodes : batch[n].pc = "lift" => batch[n].user \in Users

ChecksTyped ==
  /\ check \in [Threads -> [pc : {"idle", "grants", "read", "disable", "lift"},
                            user : Users \cup {NoUser}, users : SUBSET Users,
                            after : SUBSET Nodes]]
  /\ \A t \in Threads : check[t].pc \in {"read", "disable", "lift"} => check[t].user \in Users

TickTyped ==
  /\ tick \in [pc : {"idle", "users", "lift"}, stale : SUBSET Users, off : SUBSET Users,
               user : Users \cup {NoUser}]
  /\ tick.pc = "lift" => tick.user \in Users

TypeOK == /\ LedgersTyped /\ UsersTyped /\ PushesTyped
          /\ BatchesTyped /\ ChecksTyped /\ TickTyped

\* The numbers a user is shown tell one story: what it is billed is the sum of
\* what its rules passed at their exits, and no exit ledger shows less
\* (applyCounters, applyProxyCounters, zeroUserTrafficLedgers).
LedgersAgree ==
  /\ \A u \in Users : used[u] = SumFunctionOnSet(ruleBytes, RulesOf(u))
  /\ \A r \in rules : ruleBytes[r] <= exitBytes[r]

Quiet ==
  /\ todo = {} /\ tick.pc = "idle"
  /\ \A n \in Nodes : batch[n].pc = "idle"
  /\ \A t \in Threads : check[t].pc = "idle"

\* When nothing is under way, no node forwards for a user that is disabled or over
\* its quota, and every rule that may be forwarded is, unless its owner's quotas
\* were owed meanwhile: in whatever order batches, enforcement, rollovers and
\* requests came in (enforceUserQuota, OnTrafficUpdate, cycleResetEnforcer,
\* apiResetUserTraffic).
ForwardedIffAllowed ==
  Quiet => \A n \in Nodes :
    /\ \A r \in live[n] : disabled[Owner[r]] = "no" /\ ~Over(Owner[r])
    /\ \A r \in ActiveRules(n) \ live[n] : Owner[r] \in owed

\* A user that expires or is over its quota is cut off on every node, unless
\* that ceases to be so.
Stopped(u) == \A n \in Nodes : live[n] \cap RulesOf(u) = {}
EventuallyCutOff ==
  \A u \in Users :
    (Over(u) \/ expired[u]) ~> (Stopped(u) \/ ~(Over(u) \/ expired[u]))

=============================================================================
