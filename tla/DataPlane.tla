----------------------------- MODULE DataPlane -----------------------------
(***************************************************************************)
(* How an agent forwards: the nft table and the tc classes of the rules in *)
(* kernel mode, a listener per port for those in userspace mode, and the   *)
(* accepts put into other programs' firewall chains. Reconcile is taken    *)
(* step by step, each of which may fail, and the connections of the        *)
(* listeners go on meanwhile.                                              *)
(*                                                                         *)
(* A pool is the address it dials: whether one of its connections is taken *)
(* or a new one dialled makes no difference to where a client ends up. The *)
(* SOCKS5 handshake is part of a dial, which succeeds or fails.            *)
(***************************************************************************)
EXTENDS Integers, Sequences, FiniteSets, Functions

CONSTANTS
  Rulesets,        \* sets of rules Reconcile may be called with
  Clients,         \* connections that may arrive
  maxConnsPerPort,
  PoolSizes,
  Present,         \* the chains this host has
  Extras,          \* sets of ports the proxy cores may listen on
  Callers,         \* goroutines that publish those ports
  IPv6, Loopback,  \* of the destinations
  Kinds, Plans     \* bound: how often each kind of event happens

Shims == {<<"docker4", "docker6">>, <<"ufw4", "ufw6", "in4", "in6">>}
Chains == UNION {Range(s) : s \in Shims}

\* A rule's destination is 0 while its name is not resolved; group, rate and
\* cap are 0 when it is not shaped.
Protos == {"tcp", "udp", "tcp+udp"}
Rule == [port : Nat, proto : Protos, mode : {"kernel", "userspace"}, dest : Nat, proxy : BOOLEAN,
         group : Nat, rate : Nat, cap : Nat]

\* The panel gives all rules of a shape group the rate of its grant, or of its
\* user.
ASSUME DataPlaneAssumption ==
  /\ Rulesets \subseteq SUBSET Rule
  /\ \A R \in Rulesets : \A r, s \in R :
       r.group > 0 /\ r.group = s.group /\ r.rate > 0 /\ s.rate > 0 => r.rate = s.rate
  /\ maxConnsPerPort \in Nat \ {0} /\ IsFiniteSet(Clients) /\ PoolSizes \subseteq Nat
  /\ Present \subseteq Chains /\ Extras \subseteq SUBSET (Nat \X Protos)
  /\ Plans \subseteq [Kinds -> Nat]

VARIABLES
  listeners,  \* userspaceBackend.listeners: port -> listener
  groups,     \* userspaceBackend.groups: shape group -> its limiter [id, rate]
  poolSize,
  table,      \* the nft table
  classes,    \* tc classes below the default one
  last,       \* Dataplane.lastUserspace and lastKernel
  extra,      \* Dataplane.extraListen
  chains,     \* owned accepts in each chain
  files,      \* ports the cores' instance files name
  collected,  \* what a caller of SetExtraListenPorts has read of them
  cur,        \* the Reconcile under way
  conns,      \* Clients -> connection
  born,       \* listeners and limiters made so far
  broken,     \* what went wrong since the last Reconcile that succeeded
  partial,    \* chains that are not as the last sync wanted them
  left        \* what remains of the plan

planes == <<listeners, groups, poolSize, table, classes>>
walls == <<extra, chains, files, collected, partial>>
vars == <<planes, walls, last, cur, conns, born, broken, left>>

Has(kind) == left[kind] > 0
Spend(kind) == left' = [left EXCEPT ![kind] = @ - 1]
Idle == [pc |-> "idle"]
None == [dest |-> 0, proxy |-> FALSE, ver |-> 0]
Fresh == [st |-> "new", of |-> 0, shut |-> FALSE, min |-> 0, tgt |-> None, up |-> None]
Gone == [Fresh EXCEPT !.st = "gone"]

-----------------------------------------------------------------------------
(* Partition                                                               *)

Namespaces(r) == IF r.proto = "tcp+udp" THEN {"tcp", "udp"} ELSE {r.proto}

Partitionable(R) ==
  /\ \A r, s \in R : r # s => r.port # s.port \/ Namespaces(r) \cap Namespaces(s) = {}
  /\ \A r \in R : r.mode = "userspace" => r.proto # "udp"

KernelPart(R) ==
  {r \in R : r.mode = "kernel"}
  \cup {[r EXCEPT !.proto = "udp", !.mode = "kernel"] :
          r \in {s \in R : s.mode = "userspace" /\ s.proto = "tcp+udp"}}
UserPart(R) ==
  {[r EXCEPT !.proto = "tcp"] : r \in {s \in R : s.mode = "userspace"}}

-----------------------------------------------------------------------------
(* The kernel's tables                                                     *)

GroupShapeMark(r) ==
  IF r.group > 0 /\ r.rate > 0 /\ r.group <= 65535 THEN 65536 + r.group ELSE 0
MarkOf(r) ==
  IF GroupShapeMark(r) # 0 THEN GroupShapeMark(r) ELSE IF r.cap > 0 THEN r.port ELSE 0

RenderRuleset(K) ==
  {[proto |-> r.proto, port |-> r.port, mark |-> MarkOf(r),
    to |-> IF r.dest \in Loopback \cap IPv6 THEN "redirect" ELSE r.dest,
    masquerade |-> r.dest \notin Loopback,
    account |-> IF r.dest \in Loopback THEN "local" ELSE "forward"] :
     r \in {s \in K : s.dest # 0}}

\* The keys of what Dataplane.Counters returns: those of the rules in the
\* account chains, both directions as one, and those of the listeners.
kernelCounters == {<<e.proto, e.port>> : e \in {d \in table : d.account \in {"forward", "local"}}}
Counters == kernelCounters \cup {<<"tcp", p>> : p \in DOMAIN listeners}

planClasses(K) ==
  LET grouped == {[minor |-> r.group, rate |-> r.rate, handle |-> GroupShapeMark(r)] :
                    r \in {s \in K : GroupShapeMark(s) # 0}}
  IN grouped \cup {[minor |-> r.port, rate |-> r.cap, handle |-> r.port] :
       r \in {s \in K : GroupShapeMark(s) = 0 /\ s.cap > 0
                        /\ \A c \in grouped : c.minor # s.port}}

\* Class 1:1 is the default one. A class of that number cannot be added, and
\* being the first in order it is the last that is tried.
TcAdded(plan) == IF \E c \in plan : c.minor = 1 THEN {} ELSE plan

-----------------------------------------------------------------------------
(* The chains of ufw and Docker                                            *)

mergeListenPorts(U, E) == {<<r.port, "tcp">> : r \in U} \cup E

ForwardAccepts(K, v6) ==
  {<<r.dest, r.proto>> : r \in {s \in K : s.dest # 0 /\ (s.dest \in IPv6) = v6}}

Accepts(ch, U, K, E) ==
  IF ch \in {"in4", "in6"} THEN mergeListenPorts(U, E)
  ELSE ForwardAccepts(K, ch \in {"docker6", "ufw6"})

\* A failing chain takes the rest of its shim with it, not the other shim.
SyncAll(bad) ==
  {ch \in Present : \E s \in Shims : \E i, j \in DOMAIN s : i <= j /\ s[i] \in bad /\ s[j] = ch}

\* Docker's script is one transaction; ufw's accepts are deleted and added one
\* by one, so that a failure may leave none.
firewallSync(U, K, E) ==
  \E bad \in SUBSET Present :
    /\ bad # {} => Has("chain")
    /\ \A s \in Shims : Cardinality(bad \cap Range(s)) <= 1
    /\ \E torn \in SUBSET (bad \ {"docker4", "docker6"}) :
         chains' = [ch \in Chains |->
           IF ch \in torn THEN {}
           ELSE IF ch \in Present \ SyncAll(bad) THEN Accepts(ch, U, K, E) ELSE chains[ch]]
    /\ partial' = SyncAll(bad)
    /\ IF bad = {} THEN UNCHANGED left ELSE Spend("chain")

Cleanup == chains' = [ch \in Chains |-> IF ch \in Present THEN {} ELSE chains[ch]]

-----------------------------------------------------------------------------
Init ==
  /\ listeners = << >> /\ groups = << >> /\ poolSize \in PoolSizes
  /\ table = {} /\ classes = {}
  /\ last = [user |-> {}, kernel |-> {}] /\ extra = {}
  /\ chains = [ch \in Chains |-> {}] /\ files = {}
  /\ collected = [c \in Callers |-> Idle]
  /\ cur = Idle
  /\ conns = [c \in Clients |-> Fresh]
  /\ born = 0 /\ broken = {} /\ partial = {}
  /\ left \in Plans

(* userspaceBackend.Reconcile                                              *)

RuleAt(U, port) == CHOOSE r \in U : r.port = port
Shaped(U) == {r.group : r \in {s \in U : s.group > 0 /\ s.rate > 0}}
RateOf(U, g) == (CHOOSE r \in U : r.group = g /\ r.rate > 0).rate
PoolFor(tgt) == IF poolSize > 0 /\ ~tgt.proxy THEN tgt ELSE None

\* The target of a rule; the version tells an address taken again from one kept.
targetOf(r, old) ==
  [dest |-> r.dest, proxy |-> r.proxy,
   ver |-> IF old.dest = r.dest /\ old.proxy = r.proxy THEN old.ver ELSE old.ver + 1]

\* A group that stays keeps its limiter, and with it the debt in the bucket.
desiredGroups(U) ==
  [g \in Shaped(U) |->
     [id |-> IF g \in DOMAIN groups THEN groups[g].id ELSE born + 1, rate |-> RateOf(U, g)]]

userspaceReconcile(U, K, back) ==
  /\ groups' = desiredGroups(U) /\ born' = born + 1
  /\ cur' = [pc |-> "open", user |-> U, kernel |-> K, back |-> back, failed |-> FALSE,
             todo |-> {r.port : r \in U} \ DOMAIN listeners, port |-> 0]

Reconcile(R) ==
  /\ cur = Idle /\ Has("apply") /\ Partitionable(R) /\ Spend("apply")
  /\ userspaceReconcile(UserPart(R), KernelPart(R), FALSE)
  /\ UNCHANGED <<listeners, poolSize, table, classes, walls, last, conns, broken>>

\* A new listener accepts at once, unlimited until the limits are set. A port
\* that cannot be bound in three attempts is skipped.
openListener(port) ==
  /\ cur.pc = "open" /\ port \in cur.todo
  /\ LET tgt == targetOf(RuleAt(cur.user, port), None) IN
     \/ /\ listeners' = [p \in {port} \cup DOMAIN listeners |->
            IF p = port THEN [id |-> born + 1, tgt |-> tgt, pool |-> PoolFor(tgt),
                              lim |-> 0, down |-> 0]
            ELSE listeners[p]]
        /\ born' = born + 1
        /\ cur' = [cur EXCEPT !.todo = @ \ {port}]
        /\ UNCHANGED left
     \/ /\ Has("bind") /\ Spend("bind")
        /\ cur' = [cur EXCEPT !.todo = @ \ {port}, !.failed = TRUE]
        /\ UNCHANGED <<listeners, born>>
  /\ UNCHANGED <<groups, poolSize, table, classes, walls, last, conns, broken>>

\* With a bind error the call ends here: nothing is updated, closed or undone.
bindErrors ==
  /\ cur.pc = "open" /\ cur.todo = {}
  /\ IF cur.failed THEN cur' = Idle /\ broken' = broken \cup {"bind"}
     ELSE /\ cur' = [cur EXCEPT !.pc = "update", !.todo = {r.port : r \in cur.user}]
          /\ UNCHANGED broken
  /\ UNCHANGED <<planes, walls, last, conns, born, left>>

\* A limiter of its own, for uploads only, is the negative of its rate.
setLimits(l, r) ==
  IF r.group > 0 /\ r.rate > 0
  THEN [lim |-> groups[r.group].id, down |-> groups[r.group].id]
  ELSE [lim |-> IF r.cap > 0 THEN -r.cap ELSE 0, down |-> 0]

hotUpdate(port) ==
  /\ cur.pc = "update" /\ port \in cur.todo
  /\ LET r == RuleAt(cur.user, port)
         l == listeners[port]
         tgt == targetOf(r, l.tgt)
         limits == setLimits(l, r) IN
     /\ listeners' = [listeners EXCEPT ![port] =
                        [@ EXCEPT !.tgt = tgt, !.lim = limits.lim, !.down = limits.down]]
     /\ cur' = IF l.tgt = tgt THEN [cur EXCEPT !.todo = @ \ {port}]
               ELSE [cur EXCEPT !.pc = "pool", !.port = port]
  /\ UNCHANGED <<groups, poolSize, table, classes, walls, last, conns, born, broken, left>>

\* Mutant: the pool of the old address stays in use.
KeepPool ==
  /\ cur.pc = "pool"
  /\ cur' = [cur EXCEPT !.pc = "update", !.todo = @ \ {cur.port}, !.port = 0]
  /\ UNCHANGED <<planes, walls, last, conns, born, broken, left>>

\* The pool of the old address is closed and replaced.
swapPool ==
  /\ cur.pc = "pool"
  /\ listeners' = [listeners EXCEPT ![cur.port].pool = PoolFor(listeners[cur.port].tgt)]
  /\ cur' = [cur EXCEPT !.pc = "update", !.todo = @ \ {cur.port}, !.port = 0]
  /\ UNCHANGED <<groups, poolSize, table, classes, walls, last, conns, born, broken, left>>

\* listener.close: no more accepts, and each connection it knows of is closed.
close(port) ==
  /\ cur.pc = "update" /\ cur.todo = {}
  /\ port \in DOMAIN listeners \ {r.port : r \in cur.user}
  /\ conns' = [c \in Clients |->
       IF conns[c].st \in {"load", "dial", "relay", "half"} /\ conns[c].of = listeners[port].id
       THEN [conns[c] EXCEPT !.shut = TRUE] ELSE conns[c]]
  /\ cur' = [cur EXCEPT !.pc = "wait", !.port = port]
  /\ UNCHANGED <<planes, walls, last, born, broken, left>>

\* It returns when every handler of the listener has.
closed ==
  /\ cur.pc = "wait"
  /\ \A c \in Clients : conns[c].of # listeners[cur.port].id
  /\ listeners' = Restrict(listeners, DOMAIN listeners \ {cur.port})
  /\ cur' = [cur EXCEPT !.pc = "update", !.port = 0]
  /\ UNCHANGED <<groups, poolSize, table, classes, walls, last, conns, born, broken, left>>

Updated ==
  /\ cur.pc = "update" /\ cur.todo = {} /\ DOMAIN listeners = {r.port : r \in cur.user}
  /\ cur' = IF cur.back THEN Idle ELSE [cur EXCEPT !.pc = "kernel"]
  /\ UNCHANGED <<planes, walls, last, conns, born, broken, left>>

(* The kernel and the firewall                                             *)

\* nft replaces the table in one transaction; a failing tc is only logged.
kernelReconcile ==
  /\ cur.pc = "kernel"
  /\ table' = RenderRuleset(cur.kernel)
  /\ \/ /\ classes' = TcAdded(planClasses(cur.kernel)) /\ broken' = broken \ {"tc"}
        /\ UNCHANGED left
     \/ /\ Has("tc") /\ Spend("tc") /\ broken' = broken \cup {"tc"}
        /\ classes' \in SUBSET planClasses(cur.kernel)
  /\ cur' = [cur EXCEPT !.pc = "sync"]
  /\ UNCHANGED <<listeners, groups, poolSize, walls, last, conns, born>>

\* Mutant: what userspace has done stays.
NoRollback ==
  /\ cur.pc = "kernel" /\ Has("nft") /\ Spend("nft")
  /\ cur' = Idle
  /\ UNCHANGED <<planes, walls, last, conns, born, broken>>

\* The old table stays, and userspace is taken back to the last good rules.
kernelFails ==
  /\ cur.pc = "kernel" /\ Has("nft") /\ Spend("nft")
  /\ userspaceReconcile(last.user, {}, TRUE)
  /\ UNCHANGED <<listeners, poolSize, table, classes, walls, last, conns, broken>>

Reconciled ==
  /\ cur.pc = "sync"
  /\ last' = [user |-> cur.user, kernel |-> cur.kernel]
  /\ firewallSync(cur.user, cur.kernel, extra)
  /\ cur' = Idle /\ broken' = broken \cap {"tc"}
  /\ UNCHANGED <<planes, extra, files, collected, conns, born>>

\* A deploy changes the instance files, then some goroutine reads them and
\* publishes what it read.
Deploy ==
  /\ Has("deploy") /\ Spend("deploy")
  /\ files' \in Extras \ {files}
  /\ UNCHANGED <<planes, extra, chains, collected, partial, last, cur, conns, born, broken>>

collectProxyListenPorts(c) ==
  /\ collected[c] = Idle /\ files # extra
  /\ collected' = [collected EXCEPT ![c] = [pc |-> "set", ports |-> files]]
  /\ UNCHANGED <<planes, extra, chains, files, partial, last, cur, conns, born, broken, left>>

SetExtraListenPorts(c) ==
  /\ collected[c] # Idle /\ cur = Idle
  /\ extra' = collected[c].ports
  /\ firewallSync(last.user, last.kernel, collected[c].ports)
  /\ collected' = [collected EXCEPT ![c] = Idle]
  /\ UNCHANGED <<planes, files, last, cur, conns, born, broken>>

SetPoolSize ==
  /\ cur = Idle /\ Has("pool") /\ Spend("pool")
  /\ poolSize' \in PoolSizes \ {poolSize}
  /\ UNCHANGED <<listeners, groups, table, classes, walls, last, cur, conns, born, broken>>

\* The process ends: the listeners go with it, the table stays. Close takes the
\* owned accepts out of the chains, a crash does not.
Restart ==
  /\ Has("restart") /\ Spend("restart")
  /\ \/ cur = Idle /\ Cleanup
     \/ UNCHANGED chains
  /\ listeners' = << >> /\ groups' = << >> /\ cur' = Idle
  /\ last' = [user |-> {}, kernel |-> {}] /\ extra' = {}
  /\ collected' = [c \in Callers |-> Idle]
  /\ conns' = [c \in Clients |-> IF conns[c].st = "new" THEN Fresh ELSE Gone]
  /\ broken' = broken \cup {"restart"} /\ partial' = Present
  /\ UNCHANGED <<poolSize, table, classes, files, born>>

-----------------------------------------------------------------------------
(* Connections                                                             *)

PortOf(c) == CHOOSE p \in DOMAIN listeners : listeners[p].id = conns[c].of
Closing(p) == cur.pc = "wait" /\ cur.port = p
Move(c, new) ==
  /\ conns' = [conns EXCEPT ![c] = new]
  /\ UNCHANGED <<planes, walls, last, cur, born, broken, left>>

InSlot(id) ==
  {d \in Clients : conns[d].of = id
                   /\ conns[d].st \in {"started", "load", "dial", "relay", "half"}}

\* acceptLoop takes the next connection when it has found a slot for the last.
Accept(c) ==
  /\ conns[c].st = "new" /\ Has("conn")
  /\ \E p \in DOMAIN listeners :
       /\ ~Closing(p) /\ \A d \in Clients : conns[d].st = "wait" => conns[d].of # listeners[p].id
       /\ conns' = [conns EXCEPT ![c] = [Fresh EXCEPT !.st = "wait", !.of = listeners[p].id]]
  /\ Spend("conn") /\ UNCHANGED <<planes, walls, last, cur, born, broken>>

\* Mutant: the handler starts whether a slot is free or not.
TakeSlot(c) == conns[c].st = "wait" /\ Move(c, [conns[c] EXCEPT !.st = "started"])

\* With a slot free and the listener closing, select takes either.
GetSlot(c) ==
  /\ conns[c].st = "wait" /\ Cardinality(InSlot(conns[c].of)) < maxConnsPerPort
  /\ Move(c, [conns[c] EXCEPT !.st = "started"])

LoopEnds(c) == conns[c].st = "wait" /\ Closing(PortOf(c)) /\ Move(c, Gone)

\* The handler makes its client known to close, then loads the target.
Known(c) ==
  /\ conns[c].st = "started"
  /\ LET p == PortOf(c) IN
     Move(c, [conns[c] EXCEPT !.st = "load",
                !.min = listeners[p].tgt.ver - IF cur.pc = "pool" /\ cur.port = p THEN 1 ELSE 0])

LoadTarget(c) ==
  /\ conns[c].st = "load"
  /\ Move(c, [conns[c] EXCEPT !.st = "dial", !.tgt = listeners[PortOf(c)].tgt])

\* Through the proxy, from the pool as it is now, or directly.
Upstream(c) ==
  LET pool == listeners[PortOf(c)].pool
  IN IF conns[c].tgt.proxy \/ pool = None THEN conns[c].tgt ELSE pool

Dial(c) ==
  /\ conns[c].st = "dial"
  /\ Move(c, Gone) \/ Move(c, [conns[c] EXCEPT !.st = "relay", !.up = Upstream(c)])

\* One direction ends: a peer closes, is silent for relayIdleTimeout, or the
\* socket was closed here.
DirectionEnds(c) == conns[c].st = "relay" /\ Move(c, [conns[c] EXCEPT !.st = "half"])

\* Mutant: the other direction may last as long as its peers like.
NoLinger(c) == conns[c].st = "half" /\ conns[c].shut /\ Move(c, Gone)

\* The other one ends too, relayLinger after the first at the latest.
Linger(c) == conns[c].st = "half" /\ Move(c, Gone)

handle(c) == GetSlot(c) \/ LoopEnds(c) \/ Known(c) \/ LoadTarget(c) \/ Dial(c) \/ Linger(c)

-----------------------------------------------------------------------------
Reconciling ==
  \/ \E p \in cur.todo : openListener(p) \/ hotUpdate(p)
  \/ \E p \in DOMAIN listeners : close(p)
  \/ bindErrors \/ swapPool \/ closed \/ Updated \/ kernelReconcile \/ Reconciled

Next ==
  \/ \E R \in Rulesets : Reconcile(R)
  \/ cur # Idle /\ (Reconciling \/ kernelFails)
  \/ Deploy \/ SetPoolSize \/ Restart
  \/ \E c \in Callers : collectProxyListenPorts(c) \/ SetExtraListenPorts(c)
  \/ \E c \in Clients : Accept(c) \/ handle(c) \/ DirectionEnds(c)

Spec == Init /\ [][Next]_vars

\* A connection ends that was cut, or that waits for a limiter of a listener
\* whose context was cancelled.
Ending(c) ==
  /\ conns[c].st = "relay"
  /\ conns[c].shut \/ (Closing(PortOf(c)) /\ listeners[PortOf(c)].lim # 0)
  /\ DirectionEnds(c)

\* The goroutines run; a peer need not ever end a connection.
FairSpec ==
  /\ Spec /\ WF_vars(cur # Idle /\ Reconciling)
  /\ \A c \in Clients : WF_vars(handle(c)) /\ WF_vars(Ending(c))

-----------------------------------------------------------------------------
TargetType == [dest : Nat, proxy : BOOLEAN, ver : Nat]
Listener == [id : Nat, tgt : TargetType, pool : TargetType, lim : Int, down : Nat]
Connection == [st : {"new", "wait", "started", "load", "dial", "relay", "half", "gone"},
               of : Nat, shut : BOOLEAN, min : Nat, tgt : TargetType, up : TargetType]
Call == [pc : {"open", "update", "pool", "wait", "kernel", "sync"}, user : SUBSET Rule,
         kernel : SUBSET Rule, back : BOOLEAN, failed : BOOLEAN, todo : SUBSET Nat, port : Nat]

ListenersTyped ==
  /\ DOMAIN listeners \subseteq Nat /\ \A p \in DOMAIN listeners : listeners[p] \in Listener
  /\ \A g \in DOMAIN groups : groups[g].id \in Nat \ {0} /\ groups[g].rate \in Nat \ {0}
  /\ poolSize \in Nat /\ born \in Nat

WallsTyped ==
  /\ extra \subseteq Nat \X Protos /\ files \subseteq Nat \X Protos
  /\ DOMAIN chains = Chains /\ \A ch \in Chains : chains[ch] \subseteq Nat \X Protos
  /\ collected \in [Callers -> {Idle} \cup [pc : {"set"}, ports : SUBSET (Nat \X Protos)]]
  /\ partial \subseteq Present

\* Every variable keeps its shape, and no listener relays more connections than
\* it has slots.
TypeOK ==
  /\ ListenersTyped /\ WallsTyped
  /\ last \in [user : SUBSET Rule, kernel : SUBSET Rule]
  /\ cur \in {Idle} \cup Call
  /\ conns \in [Clients -> Connection]
  /\ \A p \in DOMAIN listeners : Cardinality(InSlot(listeners[p].id)) <= maxConnsPerPort
  /\ broken \subseteq {"bind", "tc", "restart"} /\ left \in [Kinds -> Nat]

\* Between two calls the listeners are those of the last rules that were applied,
\* with the target and the limiters of each, however calls failed and were taken
\* back since; only a bind error and a restart leave them otherwise
\* (Dataplane.Reconcile, userspaceBackend.Reconcile).
Applied ==
  cur = Idle /\ broken \cap {"bind", "restart"} = {} =>
    /\ DOMAIN listeners = {r.port : r \in last.user}
    /\ table = RenderRuleset(last.kernel)
    /\ \A r \in last.user :
         LET l == listeners[r.port] IN
         /\ l.tgt.dest = r.dest /\ l.tgt.proxy = r.proxy
         /\ IF r.group > 0 /\ r.rate > 0
            THEN l.lim = groups[r.group].id /\ l.down = l.lim /\ groups[r.group].rate = r.rate
            ELSE l.lim = -r.cap /\ l.down = 0

\* Every rule that forwards is counted, and no packet under two keys: the UDP
\* half of a userspace rule by nft, its TCP half by the listener
\* (Partition, Dataplane.Counters).
CountedOnce ==
  cur = Idle /\ broken \cap {"bind", "restart"} = {} =>
    /\ Counters = {<<r.proto, r.port>> : r \in last.user \cup {k \in last.kernel : k.dest # 0}}
    /\ \A x, y \in Counters : x # y /\ x[2] = y[2] => "tcp+udp" \notin {x[1], y[1]}

\* The accepts in the host's chains are those of the rules and ports last
\* applied, except where a command failed (firewall.Sync, SetExtraListenPorts).
WallsMatch ==
  cur = Idle => \A ch \in Present \ partial :
    IF ch \in {"in4", "in6"} THEN chains[ch] = {<<r.port, "tcp">> : r \in last.user} \cup extra
    ELSE \A r \in last.kernel : <<r.dest, r.proto>> \in chains[ch]
           <=> r.dest # 0 /\ (r.dest \in IPv6 <=> ch \in {"docker6", "ufw6"})

\* A kernel rule shaped by its group has the class its mark leads to, at its
\* rate, unless a tc command failed (planClasses, GroupShapeMark).
ShapedHeld ==
  "tc" \notin broken /\ cur = Idle /\ "restart" \notin broken =>
    \A r \in last.kernel : GroupShapeMark(r) # 0 /\ r.dest # 0 =>
      \E c \in classes : c.handle = GroupShapeMark(r) /\ c.rate = r.rate

\* No call gives a shape group that stays a new limiter, which would forgive its
\* debt (userspaceBackend.Reconcile).
LimiterKept ==
  [][\A g \in DOMAIN groups \cap DOMAIN groups' : groups'[g].id = groups[g].id]_vars

\* What the last rules ask for is in force between two calls, whatever failed, was
\* taken back or went before, and no call forgives a group what it owes
\* (Dataplane.Reconcile, userspaceBackend.Reconcile, firewall.Sync,
\* SetExtraListenPorts, tc.Manager).
InForce == [](Applied /\ CountedOnce /\ WallsMatch /\ ShapedHeld) /\ LimiterKept

\* A connection that a listener takes after its target was changed never ends up
\* at an older target, be it through the pool (userspaceBackend.Reconcile,
\* listener.handle, connPool.Get).
FreshTarget ==
  \A c \in Clients : conns[c].st \in {"relay", "half"} => conns[c].up.ver >= conns[c].min

\* A connection that was cut, or of which one direction has ended, lets go of
\* its slot (listener.handle, listener.close).
CutFreed == \A c \in Clients : (conns[c].shut \/ conns[c].st = "half") ~> conns[c].st = "gone"

\* listener.close "stops accepting, force-closes in-flight connections, and
\* waits for all goroutines": a Reconcile ends.
ReconcileEnds == cur # Idle ~> cur = Idle
=============================================================================
