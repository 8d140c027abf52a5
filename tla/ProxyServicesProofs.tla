------------------------- MODULE ProxyServicesProofs -------------------------
(***************************************************************************)
(* Proofs about ProxyServices, for any services, nodes, rules, users and   *)
(* configurations, any number of handlers at work together, and any plan   *)
(* of requests and faults: its type; that once a service is settled its    *)
(* ready instances admit nobody whose right to it was taken away; and that *)
(* the status an administrator sees agrees with the instances.             *)
(***************************************************************************)
EXTENDS ProxyServices, SumTheorems, SequenceTheorems

-----------------------------------------------------------------------------
(* Configurations and inbounds *)

Protocols == {"vless", "ss", "mieru", "socks5", "anytls", "naive"}
LEMMA KeepKeys ==
  /\ DOMAIN keepKeys = Protocols
  /\ \A p \in DOMAIN keepKeys : {"proto", "port", "live", "users"} \intersect keepKeys[p] = {}
BY DEF keepKeys, Protocols

\* What keeps a configuration one.
LEMMA Shape ==
  ASSUME NEW c, IsConfig(c), NEW d, DOMAIN d = DOMAIN c, d.proto = c.proto,
         d.port \in Nat, d.pass = c.pass \/ \E x : d.pass = <<x>>
  PROVE  IsConfig(d)
BY DEF IsConfig

LEMMA EnsureVLESSConfig ==
  ASSUME NEW c, IsConfig(c)
  PROVE  IsConfig(EnsureVLESS(c)) /\ EnsureVLESS(c).port # 0
<1> DEFINE d == EnsureVLESS(c)
<1>1. DOMAIN d = DOMAIN c
  BY DEF EnsureVLESS
<1>2. d.proto = c.proto
  BY DEF EnsureVLESS, IsConfig
<1>3. d.port = Filled(c.port, 0, 443)
  BY DEF EnsureVLESS, IsConfig
<1>4. d.pass = Filled(c.pass, <<>>, Fresh(0))
  BY DEF EnsureVLESS, IsConfig
<1>5. d.port \in Nat \ {0}
  BY <1>3 DEF Filled, IsConfig
<1>6. d.pass = c.pass \/ d.pass = <<Secret("fresh", 0)>>
  BY <1>4 DEF Filled, Fresh
<1> HIDE DEF d
<1>7. IsConfig(d)
  BY <1>1, <1>2, <1>5, <1>6, Shape
<1> QED BY <1>5, <1>7 DEF d

LEMMA EnsureSSConfig ==
  ASSUME NEW c, IsConfig(c)
  PROVE  IsConfig(EnsureSS(c)) /\ EnsureSS(c).port # 0
BY DEF IsConfig, EnsureSS, Filled, Fresh

LEMMA EnsureMieruConfig ==
  ASSUME NEW c, IsConfig(c)
  PROVE  IsConfig(EnsureMieru(c)) /\ EnsureMieru(c).port # 0
BY DEF IsConfig, EnsureMieru, Filled, Fresh

LEMMA EnsureAnyTLSConfig ==
  ASSUME NEW c, IsConfig(c)
  PROVE  IsConfig(EnsureAnyTLS(c)) /\ EnsureAnyTLS(c).port # 0
BY DEF IsConfig, EnsureAnyTLS, Filled, Fresh

LEMMA EnsureNaiveConfig ==
  ASSUME NEW c, IsConfig(c)
  PROVE  IsConfig(EnsureNaive(c)) /\ EnsureNaive(c).port # 0
BY DEF IsConfig, EnsureNaive, Filled, Fresh

LEMMA EnsureSocks5Config ==
  ASSUME NEW c, IsConfig(c)
  PROVE  IsConfig(EnsureSocks5(c)) /\ EnsureSocks5(c).port # 0
<1> DEFINE d == EnsureSocks5(c)
<1>1. DOMAIN d = DOMAIN c
  BY DEF EnsureSocks5
<1>2. d.proto = c.proto
  BY DEF EnsureSocks5, IsConfig
<1>3. d.port = Filled(c.port, 0, 1080)
  BY DEF EnsureSocks5, IsConfig
<1>4. d.pass = c.pass \/ d.pass = Filled(c.pass, <<>>, Fresh(0))
  BY DEF EnsureSocks5, IsConfig
<1>5. d.port \in Nat \ {0}
  BY <1>3 DEF Filled, IsConfig
<1>6. d.pass = c.pass \/ d.pass = <<Secret("fresh", 0)>>
  BY <1>4 DEF Filled, Fresh
<1> HIDE DEF d
<1>7. IsConfig(d)
  BY <1>1, <1>2, <1>5, <1>6, Shape
<1> QED BY <1>5, <1>7 DEF d

\* EnsureSecrets leaves a configuration, with a port.
LEMMA EnsuredConfig ==
  ASSUME NEW c, IsConfig(c)
  PROVE  IsConfig(EnsureSecrets(c)) /\ EnsureSecrets(c).port \in Nat \ {0}
<1>1. c.proto \in Protocols
  BY KeepKeys DEF IsConfig
<1>2. IsConfig(EnsureSecrets(c)) /\ EnsureSecrets(c).port # 0
  BY <1>1, EnsureVLESSConfig, EnsureSSConfig, EnsureMieruConfig, EnsureSocks5Config, EnsureAnyTLSConfig,
     EnsureNaiveConfig DEF Protocols, EnsureSecrets
<1> QED BY <1>2 DEF IsConfig

\* So do an edit and a certificate.
LEMMA MergedConfig ==
  ASSUME NEW c, IsConfig(c), NEW d, IsConfig(d)
  PROVE  IsConfig(mergePreservedProxySecrets(c, d))
BY KeepKeys DEF IsConfig, mergePreservedProxySecrets

LEMMA IssuedConfig ==
  ASSUME NEW c, IsConfig(c), NEW cert
  PROVE  IsConfig(mergeACMEIntoConfigJSON(c, cert))
BY DEF IsConfig, mergeACMEIntoConfigJSON

LEMMA Overlaid ==
  ASSUME NEW c, IsConfig(c), NEW us
  PROVE  LET d == overlayProxyConfigForPublish(c, us) IN
         /\ d.proto = c.proto /\ c.proto \in Protocols
         /\ c.proto # "mieru" => d.live = TRUE /\ d.users = us
<1>1. c.proto \in Protocols /\ {"proto", "live", "users", "pass"} \subseteq DOMAIN c
  BY KeepKeys DEF IsConfig
<1>2. ASSUME NEW vs PROVE OverlayInboundClients(c, vs).proto = c.proto
  BY <1>1 DEF OverlayInboundClients
<1>3. c.proto # "mieru" => OverlayInboundClients(c, us).live = TRUE /\ OverlayInboundClients(c, us).users = us
  BY <1>1 DEF OverlayInboundClients
<1> QED BY <1>1, <1>2, <1>3 DEF overlayProxyConfigForPublish

LEMMA OneInbound ==
  ASSUME NEW c, c.proto \in Protocols, NEW port
  PROVE  AtMostOne(Inbound(c, port))
<1>1. CASE c.proto = "vless"
  <2>1. Inbound(c, port) = VLESSInbound(c, port)
    BY <1>1 DEF Inbound
  <2> QED BY <2>1 DEF VLESSInbound, AtMostOne
<1>2. CASE c.proto = "ss"
  <2>1. Inbound(c, port) = SSInbound(c, port)
    BY <1>2 DEF Inbound
  <2> QED BY <2>1 DEF SSInbound, AtMostOne
<1>3. CASE c.proto = "mieru"
  <2>1. Inbound(c, port) = MieruInbound(c, port)
    BY <1>3 DEF Inbound
  <2> QED BY <2>1 DEF MieruInbound, AtMostOne
<1>4. CASE c.proto = "socks5"
  <2>1. Inbound(c, port) = SocksInbound(c, port)
    BY <1>4 DEF Inbound
  <2> QED BY <2>1 DEF SocksInbound, AtMostOne
<1>5. CASE c.proto = "anytls"
  <2>1. Inbound(c, port) = AnyTLSInbound(c, port)
    BY <1>5 DEF Inbound
  <2> QED BY <2>1 DEF AnyTLSInbound, AtMostOne
<1>6. CASE c.proto = "naive"
  <2>1. Inbound(c, port) = NaiveInbound(c, port)
    BY <1>6 DEF Inbound
  <2> QED BY <2>1 DEF NaiveInbound, AtMostOne
<1> QED BY <1>1, <1>2, <1>3, <1>4, <1>5, <1>6 DEF Protocols

LEMMA AdmitsListed ==
  ASSUME NEW d, d.proto \in Protocols \ {"mieru"}, d.live = TRUE, d.users \in Seq(ToSet(d.users)), NEW port, NEW inb \in Inbound(d, port)
  PROVE  Admitted(inb) \subseteq ToSet(d.users)
<1>1. CASE d.proto = "vless"
  <2>1. inb \in VLESSInbound(d, port)
    BY <1>1 DEF Inbound
  <2>2. inb.proto = "vless" /\ inb.ids = ToSet(d.users)
    BY <2>1 DEF VLESSInbound, vlessClientsFromConfig
  <2> QED BY <2>2 DEF Admitted
<1>2. CASE d.proto = "ss"
  <2>1. inb \in SSInbound(d, port)
    BY <1>2 DEF Inbound
  <2>2. inb.proto = "ss" /\ inb.psk = ssKey(d) /\ inb.users = ssUsers(d)
    BY <2>1 DEF SSInbound
  <2>3. CASE d.users = d.pass /\ d.users # <<>>
    BY <2>2, <2>3 DEF Admitted, ssKey, ssUsers
  <2>4. CASE d.users # d.pass /\ d.users # <<>>
    <3>1. d.users[1] \in ToSet(d.users)
      BY <2>4 DEF ToSet
    <3> QED BY <2>2, <2>4, <3>1 DEF Admitted, ssUsers
  <2>5. CASE d.users = <<>>
    BY <2>2, <2>5 DEF Admitted, ssKey, ssUsers, ToSet
  <2> QED BY <2>3, <2>4, <2>5
<1>3. CASE d.proto = "socks5"
  <2>1. inb \in SocksInbound(d, port)
    BY <1>3 DEF Inbound
  <2> QED BY <2>1 DEF SocksInbound, Admitted
<1>4. CASE d.proto = "anytls"
  <2>1. inb \in AnyTLSInbound(d, port)
    BY <1>4 DEF Inbound
  <2> QED BY <2>1 DEF AnyTLSInbound, Admitted
<1>5. CASE d.proto = "naive"
  <2>1. inb \in NaiveInbound(d, port)
    BY <1>5 DEF Inbound
  <2> QED BY <2>1 DEF NaiveInbound, Admitted
<1> QED BY <1>1, <1>2, <1>3, <1>4, <1>5 DEF Protocols
LEMMA Listed ==
  ASSUME NEW S, IsFiniteSet(S)
  PROVE  /\ SetToSeq(S) \in Seq(S) /\ DOMAIN SetToSeq(S) = 1 .. Len(SetToSeq(S))
         /\ \A x \in S : \E i \in DOMAIN SetToSeq(S) : SetToSeq(S)[i] = x
<1> DEFINE n == Cardinality(S)
<1>1. n \in Nat
  BY FS_CardinalityType
<1>2. \E f \in [1 .. n -> S] : IsInjective(f)
  <2>1. PICK f \in Bijection(1 .. n, S) : TRUE
    BY FS_CardinalityType DEF ExistsBijection
  <2> QED BY <2>1, <1>1 DEF IsInjective, Bijection, Injection, Surjection
<1>3. SetToSeq(S) \in [1 .. n -> S] /\ IsInjective(SetToSeq(S))
  BY <1>2 DEF SetToSeq
<1>4. IsFiniteSet(1 .. n) /\ Cardinality(1 .. n) = n
  BY <1>1, FS_Interval
<1>5. SetToSeq(S) \in Injection(1 .. n, S)
  BY <1>3 DEF Injection, IsInjective
<1> DEFINE T == {SetToSeq(S)[i] : i \in 1 .. n}
<1>6. T \subseteq S
  BY <1>3
<1>7. IsFiniteSet(T) /\ Cardinality(T) = n
  <2>1. SetToSeq(S) \in Bijection(1 .. n, T)
    BY <1>3 DEF Bijection, Injection, Surjection, IsInjective
  <2> QED BY <2>1, <1>4, FS_Bijection DEF ExistsBijection
<1>8. T = S
  BY <1>6, <1>7, FS_Subset
<1> QED BY <1>1, <1>3, <1>8

LEMMA Joined ==
  ASSUME NEW S, NEW p \in Seq(S), NEW q \in Seq(S)
  PROVE  /\ p \o q \in Seq(S) /\ Len(p \o q) = Len(p) + Len(q)
         /\ \A i \in DOMAIN p : i \in DOMAIN (p \o q) /\ (p \o q)[i] = p[i]
         /\ \A i \in DOMAIN q : Len(p) + i \in DOMAIN (p \o q) /\ (p \o q)[Len(p) + i] = q[i]
OBVIOUS

LEMMA Elements ==
  ASSUME NEW S, NEW q \in Seq(S)
  PROVE  Len(q) \in Nat /\ DOMAIN q = 1 .. Len(q) /\ \A i \in DOMAIN q : q[i] \in S
OBVIOUS

LEMMA Few ==
  ASSUME NEW S, NEW a \in S, NEW b \in S, NEW c \in S
  PROVE  <<a>> \in Seq(S) /\ <<a, b>> \in Seq(S) /\ <<a, b, c>> \in Seq(S)
OBVIOUS

LEMMA TailOf ==
  ASSUME NEW S, NEW q \in Seq(S), q # <<>>
  PROVE  /\ Tail(q) \in Seq(S) /\ Head(q) = q[1] /\ 1 \in DOMAIN q
         /\ \A i \in DOMAIN Tail(q) : i + 1 \in DOMAIN q /\ Tail(q)[i] = q[i + 1]
         /\ \A i \in DOMAIN q : i # 1 => i - 1 \in DOMAIN Tail(q) /\ Tail(q)[i - 1] = q[i]
         /\ Head(q) \in S
OBVIOUS

LEMMA Listing ==
  ASSUME NEW n \in Nat, NEW S, NEW f \in [1 .. n -> S]
  PROVE  f \in Seq(S) /\ Len(f) = n
OBVIOUS

(***************************************************************************)
(* Lists of tasks. Notes says that a list has a sync of the service.       *)
(***************************************************************************)
Notes(tasks, s) == \E i \in DOMAIN tasks : tasks[i].op = "sync" /\ tasks[i].svc = s

LEMMA ServiceTasks ==
  ASSUME NEW s \in Services
  PROVE  Task("sync", "", s) \in Tasks /\ Task("issue", "", s) \in Tasks
<1>1. <<>> \in Seq(Nodes)
  OBVIOUS
<1> QED BY <1>1 DEF Task, Tasks

LEMMA NodeTasks ==
  ASSUME NEW n \in Nodes
  PROVE  Task("dispatch", n, "") \in Tasks /\ Task("republish", n, "") \in Tasks
<1>1. <<>> \in Seq(Nodes)
  OBVIOUS
<1> QED BY <1>1 DEF Task, Tasks

LEMMA RuleTasks ==
  ASSUME NEW r \in Rules, NEW op \in {"plane", "stop", "drop"}
  PROVE  Task(op, r, "") \in Tasks
<1>1. <<>> \in Seq(Nodes)
  OBVIOUS
<1> QED BY <1>1 DEF Task, Tasks

LEMMA UserTasks ==
  ASSUME NEW u \in Users
  PROVE  Task("user", u, "") \in Tasks
<1>1. <<>> \in Seq(Nodes)
  OBVIOUS
<1> QED BY <1>1 DEF Task, Tasks

LEMMA PublishTasks ==
  ASSUME NEW s \in Services, NEW n \in Nodes, NEW port \in Nat
  PROVE  [Task("publish", "", s) EXCEPT !.nodes = <<n>>, !.port = port] \in Tasks
<1>1. <<n>> \in Seq(Nodes)
  OBVIOUS
<1> QED BY <1>1 DEF Task, Tasks

LEMMA KeptTasks ==
  ASSUME NEW s \in Services, NEW n \in Nodes
  PROVE  [Task("publish", "kept", s) EXCEPT !.nodes = <<n>>] \in Tasks
<1>1. <<n>> \in Seq(Nodes)
  OBVIOUS
<1> QED BY <1>1 DEF Task, Tasks

LEMMA ListedTasks ==
  ASSUME NEW r \in Rules, NEW s \in Services, NEW u \in Users
  PROVE  [Task("listed", r, s) EXCEPT !.owner = u] \in Tasks
<1>1. <<>> \in Seq(Nodes)
  OBVIOUS
<1> QED BY <1>1 DEF Task, Tasks

LEMMA SyncTasks ==
  ASSUME NEW set \in SUBSET Services
  PROVE  Syncs(set) \in Seq(Tasks) /\ \A s \in set : Notes(Syncs(set), s)
<1> DEFINE list == SetToSeq(set)
<1>1. IsFiniteSet(set)
  BY FS_Subset, SitesAssumption
<1>2. list \in Seq(set) /\ DOMAIN list = 1 .. Len(list) /\ \A s \in set : \E i \in DOMAIN list : list[i] = s
  BY <1>1, Listed
<1>3. Syncs(set) = [i \in 1 .. Len(list) |-> Task("sync", "", list[i])] /\ Len(list) \in Nat
  BY <1>2 DEF Syncs, Each
<1> HIDE DEF list
<1>4. \A i \in DOMAIN list : list[i] \in Services
  BY <1>2
<1>5. \A i \in 1 .. Len(list) : Task("sync", "", list[i]) \in Tasks
  BY <1>2, <1>4, ServiceTasks
<1>6. Syncs(set) \in [1 .. Len(list) -> Tasks]
  BY <1>3, <1>5
<1>7. DOMAIN Syncs(set) = DOMAIN list /\ \A i \in DOMAIN list : Syncs(set)[i] = Task("sync", "", list[i])
  BY <1>2, <1>3
<1>8. \A x : Task("sync", "", x).op = "sync" /\ Task("sync", "", x).svc = x
  BY DEF Task
<1>9. ASSUME NEW i \in DOMAIN list PROVE Syncs(set)[i].op = "sync" /\ Syncs(set)[i].svc = list[i]
  <2>1. Syncs(set)[i] = Task("sync", "", list[i])
    BY <1>7
  <2> QED BY <1>8, <2>1
<1>10. ASSUME NEW s \in set PROVE Notes(Syncs(set), s)
  <2>1. PICK i \in DOMAIN list : list[i] = s
    BY <1>2
  <2> QED BY <2>1, <1>7, <1>9 DEF Notes
<1> QED BY <1>3, <1>6, <1>10, Listing

LEMMA DispatchTasks ==
  ASSUME NEW set \in SUBSET Nodes
  PROVE  Dispatches(set) \in Seq(Tasks)
<1> DEFINE list == SetToSeq(set)
<1>1. IsFiniteSet(set)
  BY FS_Subset, SitesAssumption
<1>2. list \in Seq(set) /\ DOMAIN list = 1 .. Len(list)
  BY <1>1, Listed
<1>3. Dispatches(set) = [i \in 1 .. Len(list) |-> Task("dispatch", list[i], "")] /\ Len(list) \in Nat
  BY <1>2 DEF Dispatches
<1> HIDE DEF list
<1>4. \A i \in DOMAIN list : list[i] \in Nodes
  BY <1>2
<1>5. \A i \in 1 .. Len(list) : Task("dispatch", list[i], "") \in Tasks
  BY <1>2, <1>4, NodeTasks
<1>6. Dispatches(set) \in [1 .. Len(list) -> Tasks]
  BY <1>3, <1>5
<1> QED BY <1>3, <1>6, Listing

LEMMA NotedLater ==
  ASSUME NEW p \in Seq(Tasks), NEW q \in Seq(Tasks), NEW s
  PROVE  /\ p \o q \in Seq(Tasks)
         /\ Notes(p, s) => Notes(p \o q, s)
         /\ Notes(q, s) => Notes(p \o q, s)
<1>1. p \o q \in Seq(Tasks)
  BY Joined
<1>2. ASSUME Notes(p, s) PROVE Notes(p \o q, s)
  <2>1. PICK i \in DOMAIN p : p[i].op = "sync" /\ p[i].svc = s
    BY <1>2 DEF Notes
  <2>2. i \in DOMAIN (p \o q) /\ (p \o q)[i] = p[i]
    BY Joined
  <2> QED BY <2>1, <2>2 DEF Notes
<1>3. ASSUME Notes(q, s) PROVE Notes(p \o q, s)
  <2>1. PICK i \in DOMAIN q : q[i].op = "sync" /\ q[i].svc = s
    BY <1>3 DEF Notes
  <2>2. Len(p) + i \in DOMAIN (p \o q) /\ (p \o q)[Len(p) + i] = q[i]
    BY Joined
  <2> QED BY <2>1, <2>2 DEF Notes
<1> QED BY <1>1, <1>2, <1>3

(***************************************************************************)
(* Type correctness, part by part                                          *)
(***************************************************************************)

RulesTyped(f) == f \in [Rules -> {NoRule} \union [owner : Users, svc : Services \union {""}]]
UsersTyped(f) == f \in [Users -> {"ok", "expired", "disabled", "gone"}]
CredTyped(f) == DOMAIN f = Services \X Users /\ \A x \in DOMAIN f : AtMostOne(f[x])
RunsTyped(f) == DOMAIN f = Slots /\ \A x \in Slots : AtMostOne(f[x])
ServicesTyped(state, c, list) ==
  /\ state \in [Services -> {"none", "draft", "ready", "partial", "error", "gone"}]
  /\ DOMAIN c = Services /\ DOMAIN list = Services
  /\ \A s \in Services : ServiceTyped(state[s], c[s], list[s])
ThreadsTyped(f) == DOMAIN f = Threads /\ \A t \in Threads : ThreadTyped(f[t])
Parts ==
  /\ RulesTyped(rule) /\ UsersTyped(user) /\ CredTyped(cred) /\ RunsTyped(runs)
  /\ ServicesTyped(status, config, rows)
  /\ online \subseteq Nodes /\ cored \subseteq Nodes
  /\ owed \subseteq Services /\ crossed \subseteq Services
  /\ ThreadsTyped(work)

LEMMA PartsOfType == (TypeOK <=> Parts) /\ (TypeOK' <=> Parts')
<1>1. /\ Found.config = config /\ Found.status = status /\ Found.rows = rows /\ Found.rule = rule
      /\ Found.user = user /\ Found.cred = cred /\ Found.runs = runs /\ Found.online = online /\ Found.cored = cored
  BY DEF Found
<1>2. (/\ Found.config = config /\ Found.status = status /\ Found.rows = rows /\ Found.rule = rule
       /\ Found.user = user /\ Found.cred = cred /\ Found.runs = runs /\ Found.online = online /\ Found.cored = cored)'
  BY DEF Found
<1>3. TypeOK <=> Parts
  BY <1>1 DEF TypeOK, Parts, PanelTyped, RulesTyped, UsersTyped, CredTyped, RunsTyped, ServicesTyped, ThreadsTyped
<1>4. TypeOK' <=> Parts'
  BY <1>2 DEF TypeOK, Parts, PanelTyped, RulesTyped, UsersTyped, CredTyped, RunsTyped, ServicesTyped, ThreadsTyped
<1> QED BY <1>3, <1>4

\* What a thread may become.
LEMMA RestingTyped ==
  ASSUME NEW tasks \in Seq(Tasks)
  PROVE  ThreadTyped([Resting EXCEPT !.todo = tasks])
<1> DEFINE w == [Resting EXCEPT !.todo = tasks]
<1>1. /\ DOMAIN w = {"todo", "at", "cfg", "nodes", "inb", "ok"} /\ w.todo = tasks /\ w.at = "next"
      /\ w.nodes = <<>> /\ w.inb = {} /\ w.ok = FALSE
  BY DEF Resting
<1>2. <<>> \in Seq([node : Nodes, port : Nat])
  OBVIOUS
<1> HIDE DEF w
<1>3. AtMostOne(w.inb)
  BY <1>1 DEF AtMostOne
<1>4. ThreadTyped(w)
  BY <1>1, <1>2, <1>3 DEF ThreadTyped
<1> QED BY <1>4 DEF w

LEMMA OneThread ==
  ASSUME ThreadsTyped(work), NEW t \in Threads, NEW w, ThreadTyped(w), work' = [work EXCEPT ![t] = w]
  PROVE  ThreadsTyped(work')
BY DEF ThreadsTyped

LEMMA Becomes ==
  ASSUME ThreadsTyped(work), NEW t \in Threads, NEW tasks \in Seq(Tasks), Become(t, tasks)
  PROVE  ThreadsTyped(work') /\ work'[t] = [Resting EXCEPT !.todo = tasks]
<1>1. ThreadTyped([Resting EXCEPT !.todo = tasks])
  BY RestingTyped
<1>2. work' = [work EXCEPT ![t] = [Resting EXCEPT !.todo = tasks]]
  BY DEF Become
<1> QED BY <1>1, <1>2, OneThread DEF ThreadsTyped

LEMMA TodoTyped ==
  ASSUME ThreadsTyped(work), NEW t \in Threads
  PROVE  work[t].todo \in Seq(Tasks) /\ ThreadTyped(work[t])
BY DEF ThreadsTyped, ThreadTyped

LEMMA TailTyped ==
  ASSUME ThreadsTyped(work), NEW t \in Threads, work[t].todo # <<>>
  PROVE  Tail(work[t].todo) \in Seq(Tasks) /\ Task1(t) \in Tasks /\ Task1(t) = work[t].todo[1]
<1>1. work[t].todo \in Seq(Tasks)
  BY TodoTyped
<1> QED BY <1>1, TailOf DEF Task1

LEMMA Finishes ==
  ASSUME ThreadsTyped(work), NEW t \in Threads, work[t].todo # <<>>, Done(t)
  PROVE  ThreadsTyped(work')
BY TailTyped, Becomes DEF Done

LEMMA Asked ==
  ASSUME ThreadsTyped(work), NEW t \in Threads, NEW what, NEW tasks \in Seq(Tasks), Request(t, what, tasks)
  PROVE  ThreadsTyped(work')
BY Becomes DEF Request

LEMMA FirstTask ==
  ASSUME NEW x \in Tasks
  PROVE  /\ x.op \in {"sync", "publish", "issue"} => x.svc \in Services
         /\ x.op \in {"dispatch", "republish"} => x.on \in Nodes
         /\ x.op \in {"plane", "listed", "stop", "drop"} => x.on \in Rules
         /\ x.op = "user" => x.on \in Users
         /\ x.nodes \in Seq(Nodes) /\ x.port \in Nat /\ x.svc \in Services \union {""}
         /\ x.owner \in Users \union {""}
BY DEF Tasks

\* A thread with a publish or a certificate in hand.
LEMMA InProgress ==
  ASSUME NEW w, ThreadTyped(w), w.at # "next", w.todo # <<>>
  PROVE  LET op == Head(w.todo).op IN
         /\ w.at = "apply" => op \in {"sync", "publish", "plane", "listed"}
         /\ w.at \in {"save", "node", "overlay", "mark"} => op \in {"sync", "publish"}
         /\ w.at = "issue" => op = "issue" /\ Len(w.todo) = 1
         /\ op \in {"sync", "publish", "issue"} => w.cfg = <<w.cfg[1]>> /\ IsConfig(w.cfg[1])
         /\ op \in {"sync", "publish"} => w.cfg[1].port # 0
         /\ op \in {"sync", "publish"} /\ w.at \in {"overlay", "apply", "mark"} => w.nodes # <<>>
         /\ op \in {"sync", "publish"} /\ w.at # "save" => \A i \in DOMAIN w.nodes : w.nodes[i].port # 0
BY DEF ThreadTyped

\* Such a thread keeps its tasks while it moves on.
LEMMA MovesOn ==
  ASSUME ThreadsTyped(work), NEW t \in Threads, work[t].todo # <<>>, Task1(t).op \in {"sync", "publish"}, NEW w,
         DOMAIN w = {"todo", "at", "cfg", "nodes", "inb", "ok"}, w.todo = work[t].todo,
         w.at \in {"save", "node", "overlay", "apply", "mark"},
         w.cfg = <<w.cfg[1]>>, IsConfig(w.cfg[1]), w.cfg[1].port # 0,
         w.nodes \in Seq([node : Nodes, port : Nat]), w.at \in {"overlay", "apply", "mark"} => w.nodes # <<>>,
         w.at # "save" => \A i \in DOMAIN w.nodes : w.nodes[i].port # 0,
         w.ok \in BOOLEAN, AtMostOne(w.inb), work' = [work EXCEPT ![t] = w]
  PROVE  ThreadsTyped(work')
<1>1. w.todo \in Seq(Tasks) /\ w.todo # <<>> /\ Head(w.todo).op \in {"sync", "publish"}
  BY TodoTyped DEF Task1
<1>2. ThreadTyped(w)
  BY <1>1 DEF ThreadTyped
<1> QED BY <1>2, OneThread

\* Secrets: nobody loses his, and whoever has none gets one.
LEMMA EnsuredCred ==
  ASSUME NEW f, CredTyped(f), NEW u, NEW s, NEW c, IsConfig(c)
  PROVE  LET g == ensureUserProxyCred(f, u, s, c) IN
         /\ CredTyped(g)
         /\ \A x \in Services \X Users : f[x] \subseteq g[x] /\ (x # <<s, u>> => g[x] = f[x])
         /\ <<s, u>> \in Services \X Users => \E y : g[<<s, u>>] = {y}
<1> DEFINE g == ensureUserProxyCred(f, u, s, c)
<1>1. CASE f[<<s, u>>] # {}
  <2>1. g = f
    BY <1>1 DEF ensureUserProxyCred
  <2>2. <<s, u>> \in Services \X Users => \E y : f[<<s, u>>] = {y}
    BY <1>1 DEF CredTyped, AtMostOne
  <2> QED BY <2>1, <2>2
<1>2. CASE f[<<s, u>>] = {}
  <2>1. PICK y : g = [f EXCEPT ![<<s, u>>] = {y}]
    <3>1. TemplateSecret(c) # {} => \E y : TemplateSecret(c) = {y}
      <4>1. c.pass = <<>> \/ c.pass = <<c.pass[1]>>
        BY DEF IsConfig
      <4>2. CASE c.pass = <<>>
        BY <4>2 DEF TemplateSecret, ToSet
      <4>3. CASE c.pass = <<c.pass[1]>>
        <5>1. DOMAIN c.pass = {1}
          BY <4>3
        <5>2. TemplateSecret(c) = {c.pass[i] : i \in DOMAIN c.pass}
          BY DEF TemplateSecret, ToSet
        <5>3. TemplateSecret(c) = {c.pass[1]}
          BY <5>1, <5>2
        <5> QED BY <5>3
      <4> QED BY <4>1, <4>2, <4>3
    <3> QED BY <1>2, <3>1 DEF ensureUserProxyCred
  <2>2. CredTyped(g)
    BY <2>1 DEF CredTyped, AtMostOne
  <2> QED BY <1>2, <2>1, <2>2 DEF CredTyped
<1> QED BY <1>1, <1>2

-----------------------------------------------------------------------------
(* Type correctness: publishing                                            *)

LEMMA OneService ==
  ASSUME ServicesTyped(status, config, rows), NEW s \in Services
  PROVE  /\ status[s] \in {"none", "gone"} => config[s] = <<>> /\ rows[s] = <<>>
         /\ status[s] \notin {"none", "gone"} => config[s] = <<config[s][1]>> /\ IsConfig(config[s][1])
         /\ config[s] # <<>> => config[s] = <<config[s][1]>> /\ IsConfig(config[s][1])
         /\ Len(rows[s]) \in Nat /\ DOMAIN rows[s] = 1 .. Len(rows[s])
         /\ \A i \in DOMAIN rows[s] : RowTyped(rows[s][i])
         /\ \A i, j \in DOMAIN rows[s] : rows[s][i].node = rows[s][j].node => i = j
         /\ ServiceTyped(status[s], config[s], rows[s])
<1>1. ServiceTyped(status[s], config[s], rows[s])
  BY DEF ServicesTyped
<1>2. rows[s] \in Seq(ToSet(rows[s]))
  BY <1>1 DEF ServiceTyped
<1>3. Len(rows[s]) \in Nat /\ DOMAIN rows[s] = 1 .. Len(rows[s])
  BY <1>2
<1> QED BY <1>1, <1>3 DEF ServiceTyped

LEMMA Instances ==
  ASSUME ServicesTyped(status, config, rows), NEW s \in Services
  PROVE  /\ NodesOf(s) \in Seq(Nodes) /\ DOMAIN NodesOf(s) = DOMAIN rows[s]
         /\ NodesOf(s) = <<>> => DOMAIN rows[s] = {}
<1>1. Len(rows[s]) \in Nat /\ DOMAIN rows[s] = 1 .. Len(rows[s])
  BY OneService
<1>2. \A i \in DOMAIN rows[s] : rows[s][i].node \in Nodes
  BY OneService DEF RowTyped
<1>3. NodesOf(s) \in [1 .. Len(rows[s]) -> Nodes]
  BY <1>1, <1>2 DEF NodesOf
<1>4. NodesOf(s) \in Seq(Nodes) /\ Len(NodesOf(s)) = Len(rows[s])
  BY <1>1, <1>3, Listing
<1>5. NodesOf(s) = <<>> => DOMAIN rows[s] = {}
  BY <1>1, <1>4
<1> QED BY <1>1, <1>3, <1>4, <1>5

\* What a publish sets out with.
LEMMA ReadTyped ==
  ASSUME Parts, NEW t \in Threads, PublishRead(t)
  PROVE  Parts'
<1> DEFINE task == Task1(t)
           s == task.svc
           nodes == IF task.op = "sync" THEN NodesOf(s) ELSE task.nodes
           fit == \E i \in DOMAIN config[s] : Publishable(config[s][i])
           w == [work[t] EXCEPT !.at = "save", !.nodes = [i \in DOMAIN nodes |-> [node |-> nodes[i], port |-> 0]],
                                !.cfg = <<EnsureSecrets(config[s][1])>>]
<1>1. ThreadsTyped(work) /\ work[t].todo # <<>> /\ task.op \in {"sync", "publish"} /\ work[t].at = "next"
  BY DEF Parts, PublishRead, At
<1>2. task \in Tasks /\ s \in Services /\ task.nodes \in Seq(Nodes)
  BY <1>1, TailTyped, FirstTask
<1>3. nodes \in Seq(Nodes)
  BY <1>2, Instances DEF Parts
<1>4. CASE nodes # <<>> /\ fit
  <2>1. config[s] = <<config[s][1]>> /\ IsConfig(config[s][1])
    <3>1. config[s] # <<>>
      BY <1>4
    <3> QED BY <3>1, <1>2, OneService DEF Parts
  <2>2. IsConfig(EnsureSecrets(config[s][1])) /\ EnsureSecrets(config[s][1]).port # 0
    BY <2>1, EnsuredConfig
  <2>3. ThreadTyped(work[t])
    BY <1>1, TodoTyped
  <2>4. DOMAIN work[t] = {"todo", "at", "cfg", "nodes", "inb", "ok"} /\ work[t].ok \in BOOLEAN /\ AtMostOne(work[t].inb)
    BY <2>3 DEF ThreadTyped
  <2>5. /\ DOMAIN w = {"todo", "at", "cfg", "nodes", "inb", "ok"} /\ w.todo = work[t].todo /\ w.at = "save"
        /\ w.cfg = <<EnsureSecrets(config[s][1])>> /\ w.ok \in BOOLEAN /\ AtMostOne(w.inb)
        /\ w.nodes = [i \in DOMAIN nodes |-> [node |-> nodes[i], port |-> 0]]
    BY <2>4
  <2>6. w.nodes \in Seq([node : Nodes, port : Nat])
    <3>1. Len(nodes) \in Nat /\ DOMAIN nodes = 1 .. Len(nodes) /\ \A i \in DOMAIN nodes : nodes[i] \in Nodes
      BY <1>3
    <3>2. w.nodes \in [1 .. Len(nodes) -> [node : Nodes, port : Nat]]
      BY <2>5, <3>1
    <3> QED BY <3>1, <3>2, Listing
  <2>7. work' = [work EXCEPT ![t] = w]
    BY <1>4 DEF PublishRead
  <2> HIDE DEF w
  <2>10. w.cfg = <<w.cfg[1]>> /\ IsConfig(w.cfg[1]) /\ w.cfg[1].port # 0
    BY <2>2, <2>5
  <2>8. ThreadsTyped(work')
    BY <1>1, <2>5, <2>6, <2>7, <2>10, MovesOn
  <2>9. owed' \subseteq Services /\ crossed' \subseteq Services
    BY <1>2, <1>4 DEF PublishRead, Parts
  <2> QED BY <2>8, <2>9 DEF Parts, PublishRead, panel
<1>5. CASE ~(nodes # <<>> /\ fit)
  <2>1. Done(t) /\ owed' = (IF nodes # <<>> THEN owed \union {s} ELSE owed) /\ crossed' = crossed
    BY <1>5 DEF PublishRead
  <2>2. ThreadsTyped(work')
    BY <1>1, <2>1, Finishes
  <2> QED BY <1>2, <2>1, <2>2 DEF Parts, PublishRead, panel
<1> QED BY <1>4, <1>5

\* A thread in the middle of a publish.
LEMMA Publisher ==
  ASSUME ThreadsTyped(work), NEW t \in Threads, work[t].todo # <<>>, Task1(t).op \in {"sync", "publish"}, work[t].at # "next"
  PROVE  /\ DOMAIN work[t] = {"todo", "at", "cfg", "nodes", "inb", "ok"}
         /\ Task1(t) \in Tasks /\ Task1(t).svc \in Services
         /\ work[t].at \in {"save", "node", "overlay", "apply", "mark"}
         /\ work[t].cfg = <<work[t].cfg[1]>> /\ IsConfig(work[t].cfg[1]) /\ work[t].cfg[1].port \in Nat \ {0}
         /\ work[t].nodes \in Seq([node : Nodes, port : Nat])
         /\ work[t].at \in {"overlay", "apply", "mark"} => work[t].nodes # <<>>
         /\ work[t].at # "save" => \A i \in DOMAIN work[t].nodes : work[t].nodes[i].port \in Nat \ {0}
         /\ work[t].nodes # <<>> => /\ Head(work[t].nodes) = work[t].nodes[1] /\ work[t].nodes[1].node \in Nodes
                                    /\ work[t].at # "save" => work[t].nodes[1].port \in Nat \ {0}
         /\ work[t].ok \in BOOLEAN /\ AtMostOne(work[t].inb)
<1>1. ThreadTyped(work[t]) /\ Task1(t) \in Tasks
  BY TodoTyped, TailTyped
<1>2. Task1(t).svc \in Services
  BY <1>1, FirstTask
<1>3. /\ DOMAIN work[t] = {"todo", "at", "cfg", "nodes", "inb", "ok"} /\ work[t].ok \in BOOLEAN /\ AtMostOne(work[t].inb)
      /\ work[t].nodes \in Seq([node : Nodes, port : Nat])
      /\ work[t].at \in {"next", "save", "node", "overlay", "apply", "mark", "issue"}
  BY <1>1 DEF ThreadTyped
<1>4. /\ work[t].at # "issue"
      /\ work[t].cfg = <<work[t].cfg[1]>> /\ IsConfig(work[t].cfg[1]) /\ work[t].cfg[1].port # 0
      /\ work[t].at \in {"overlay", "apply", "mark"} => work[t].nodes # <<>>
      /\ work[t].at # "save" => \A i \in DOMAIN work[t].nodes : work[t].nodes[i].port # 0
  BY <1>1, InProgress DEF Task1
<1>5. work[t].cfg[1].port \in Nat
  BY <1>4 DEF IsConfig
<1>6. \A i \in DOMAIN work[t].nodes : work[t].nodes[i].port \in Nat /\ work[t].nodes[i].node \in Nodes
  <2>1. ASSUME NEW i \in DOMAIN work[t].nodes PROVE work[t].nodes[i] \in [node : Nodes, port : Nat]
    BY <1>3, Elements
  <2> QED BY <2>1
<1>7. work[t].nodes # <<>> => 1 \in DOMAIN work[t].nodes /\ Head(work[t].nodes) = work[t].nodes[1]
  BY <1>3, TailOf
<1> QED BY <1>1, <1>2, <1>3, <1>4, <1>5, <1>6, <1>7

LEMMA PortOf ==
  ASSUME ServicesTyped(status, config, rows), NEW task \in Tasks, task.svc \in Services, NEW c, c.port \in Nat \ {0}, NEW n
  PROVE  PortFor(task, c, n) \in Nat \ {0}
<1>1. ASSUME NEW i \in RowOf(task.svc, n) PROVE rows[task.svc][i].port \in Nat \ {0}
  BY <1>1, OneService DEF RowOf, RowTyped
<1>2. task.port \in Nat
  BY FirstTask
<1> QED BY <1>1, <1>2 DEF PortFor, Filled

LEMMA SaveTyped ==
  ASSUME Parts, NEW t \in Threads, PublishSave(t)
  PROVE  Parts'
<1> DEFINE s == Task1(t).svc
           w == [work[t] EXCEPT !.at = "node",
                   !.nodes = [i \in DOMAIN @ |-> [@[i] EXCEPT !.port = PortFor(Task1(t), work[t].cfg[1], work[t].nodes[i].node)]]]
<1>1. ThreadsTyped(work) /\ work[t].todo # <<>> /\ work[t].at = "save" /\ ServicesTyped(status, config, rows)
  BY DEF Parts, PublishSave, At
<1>2. Task1(t).op \in {"sync", "publish"}
  <2>1. ThreadTyped(work[t])
    BY <1>1, TodoTyped
  <2> QED BY <1>1, <2>1, InProgress DEF Task1
<1>3. Task1(t) \in Tasks /\ s \in Services /\ IsConfig(work[t].cfg[1]) /\ work[t].cfg[1].port \in Nat \ {0}
      /\ work[t].nodes \in Seq([node : Nodes, port : Nat]) /\ work[t].cfg = <<work[t].cfg[1]>>
      /\ DOMAIN work[t] = {"todo", "at", "cfg", "nodes", "inb", "ok"}
      /\ work[t].ok \in BOOLEAN /\ AtMostOne(work[t].inb)
  BY <1>1, <1>2, Publisher
<1>4. Len(work[t].nodes) \in Nat /\ DOMAIN work[t].nodes = 1 .. Len(work[t].nodes)
      /\ \A i \in DOMAIN work[t].nodes : work[t].nodes[i] \in [node : Nodes, port : Nat]
  BY <1>3, Elements
<1>5. \A n : PortFor(Task1(t), work[t].cfg[1], n) \in Nat \ {0}
  BY <1>1, <1>3, PortOf
<1>6. /\ DOMAIN w = {"todo", "at", "cfg", "nodes", "inb", "ok"} /\ w.todo = work[t].todo /\ w.at = "node"
      /\ w.cfg = work[t].cfg /\ w.ok = work[t].ok /\ w.inb = work[t].inb
      /\ w.nodes = [i \in DOMAIN work[t].nodes |->
                      [work[t].nodes[i] EXCEPT !.port = PortFor(Task1(t), work[t].cfg[1], work[t].nodes[i].node)]]
  BY <1>3
<1>7. ASSUME NEW i \in 1 .. Len(work[t].nodes)
      PROVE  w.nodes[i] \in [node : Nodes, port : Nat] /\ w.nodes[i].port # 0
  BY <1>4, <1>5, <1>6
<1>8. w.nodes \in Seq([node : Nodes, port : Nat]) /\ \A i \in DOMAIN w.nodes : w.nodes[i].port # 0
  <2>1. w.nodes \in [1 .. Len(work[t].nodes) -> [node : Nodes, port : Nat]]
    BY <1>4, <1>6, <1>7
  <2>2. w.nodes \in Seq([node : Nodes, port : Nat])
    BY <1>4, <2>1, Listing
  <2> QED BY <1>7, <2>1, <2>2
<1>9. work' = [work EXCEPT ![t] = w]
  BY DEF PublishSave
<1> HIDE DEF w
<1>10. ThreadsTyped(work')
  BY <1>1, <1>2, <1>3, <1>6, <1>8, <1>9, MovesOn
<1>11. ServicesTyped(status', config', rows')
  <2>1. /\ status' = status /\ rows' = rows /\ config' = [config EXCEPT ![s] = IF @ = <<>> THEN @ ELSE work[t].cfg]
    BY DEF PublishSave
  <2>2. ASSUME NEW x \in Services PROVE ServiceTyped(status[x], config'[x], rows[x])
    BY <1>1, <1>3, <2>1, OneService DEF ServicesTyped, ServiceTyped
  <2> QED BY <1>1, <2>1, <2>2 DEF ServicesTyped
<1> QED BY <1>10, <1>11 DEF Parts, PublishSave

\* The row of a node: one, whatever there was.
ListTyped(list) ==
  /\ list \in Seq(ToSet(list)) /\ \A i \in DOMAIN list : RowTyped(list[i])
  /\ \A i, j \in DOMAIN list : list[i].node = list[j].node => i = j
HasRow(s, n, list) ==
  /\ \E i \in DOMAIN list : list[i].node = n
  /\ \A i \in DOMAIN list : list[i].node = n => list[i].status = "pending"
  /\ \A i \in DOMAIN list : list[i].node # n => i \in DOMAIN rows[s] /\ list[i] = rows[s][i]
  /\ \A i \in DOMAIN rows[s] : i \in DOMAIN list /\ list[i].node = rows[s][i].node
LEMMA Upserted ==
  ASSUME ServicesTyped(status, config, rows), NEW s \in Services, NEW n \in Nodes, NEW port \in Nat \ {0}
  PROVE  ListTyped(UpsertProxyInstance(s, n, port)) /\ HasRow(s, n, UpsertProxyInstance(s, n, port))
<1> DEFINE list == UpsertProxyInstance(s, n, port)
<1> SUFFICES /\ list \in Seq(ToSet(list)) /\ \A i \in DOMAIN list : RowTyped(list[i])
             /\ \A i, j \in DOMAIN list : list[i].node = list[j].node => i = j
             /\ \E i \in DOMAIN list : list[i].node = n
             /\ \A i \in DOMAIN list : list[i].node = n => list[i].status = "pending"
             /\ \A i \in DOMAIN list : list[i].node # n => i \in DOMAIN rows[s] /\ list[i] = rows[s][i]
             /\ \A i \in DOMAIN rows[s] : i \in DOMAIN list /\ list[i].node = rows[s][i].node
  <2> HIDE DEF list
  <2> QED BY DEF ListTyped, HasRow, list
<1> DEFINE new == [node |-> n, port |-> port, status |-> "pending", uri |-> {}]
<1>1. /\ Len(rows[s]) \in Nat /\ DOMAIN rows[s] = 1 .. Len(rows[s])
      /\ \A i \in DOMAIN rows[s] : RowTyped(rows[s][i])
      /\ \A i, j \in DOMAIN rows[s] : rows[s][i].node = rows[s][j].node => i = j
  BY OneService
<1>2. CASE RowOf(s, n) = {}
  <2>1. list = Append(rows[s], new)
    BY <1>2 DEF UpsertProxyInstance
  <2>2. \A i \in DOMAIN rows[s] : rows[s][i].node # n
    BY <1>2 DEF RowOf
  <2>3. rows[s] \in Seq(ToSet(rows[s]))
    BY OneService DEF ServiceTyped
  <2>4. /\ DOMAIN list = 1 .. Len(rows[s]) + 1 /\ \A i \in DOMAIN rows[s] : list[i] = rows[s][i]
        /\ list[Len(rows[s]) + 1] = new
    BY <1>1, <2>1, <2>3
  <2>5. RowTyped(new) /\ new.node = n /\ new.status = "pending"
    BY DEF RowTyped
  <2> HIDE DEF new
  <2>6. list \in Seq(ToSet(list))
    <3>1. list \in Seq(ToSet(rows[s]) \union {new})
      BY <2>1, <2>3
    <3>2. \A i \in 1 .. Len(rows[s]) + 1 : list[i] \in ToSet(list)
      BY <2>4 DEF ToSet
    <3>3. list = [i \in 1 .. Len(rows[s]) + 1 |-> list[i]]
      BY <2>4, <3>1
    <3>4. list \in [1 .. Len(rows[s]) + 1 -> ToSet(list)]
      BY <3>2, <3>3
    <3> QED BY <1>1, <3>4, Listing
  <2> HIDE DEF list
  <2>7. \A i \in DOMAIN list : i \in DOMAIN rows[s] \/ i = Len(rows[s]) + 1
    BY <1>1, <2>4
  <2>8. \A i \in DOMAIN rows[s] : i \in DOMAIN list /\ list[i] = rows[s][i]
    BY <1>1, <2>4
  <2>9. Len(rows[s]) + 1 \in DOMAIN list
    BY <1>1, <2>4
  <2>10. \A i \in DOMAIN list : list[i].node = n => i = Len(rows[s]) + 1
    BY <2>2, <2>7, <2>8
  <2> QED BY <1>1, <2>2, <2>4, <2>5, <2>6, <2>7, <2>8, <2>9, <2>10 DEF list
<1>3. CASE RowOf(s, n) # {}
  <2>1. list = [i \in DOMAIN rows[s] |->
                  IF i \in RowOf(s, n) THEN [rows[s][i] EXCEPT !.port = port, !.status = "pending"] ELSE rows[s][i]]
    BY <1>3 DEF UpsertProxyInstance
  <2>2. PICK k \in DOMAIN rows[s] : rows[s][k].node = n
    BY <1>3 DEF RowOf
  <2>3. DOMAIN list = DOMAIN rows[s]
    BY <2>1
  <2>4. ASSUME NEW i \in DOMAIN rows[s]
        PROVE  /\ RowTyped(list[i]) /\ list[i].node = rows[s][i].node
               /\ list[i].node = n => list[i].status = "pending"
               /\ list[i].node # n => list[i] = rows[s][i]
    <3>1. RowTyped(rows[s][i])
      BY <1>1
    <3>2. CASE rows[s][i].node = n
      <4>1. list[i] = [rows[s][i] EXCEPT !.port = port, !.status = "pending"]
        BY <2>1, <3>2 DEF RowOf
      <4> QED BY <3>1, <3>2, <4>1 DEF RowTyped
    <3>3. CASE rows[s][i].node # n
      <4>1. list[i] = rows[s][i]
        BY <2>1, <3>3 DEF RowOf
      <4> QED BY <3>1, <3>3, <4>1
    <3> QED BY <3>2, <3>3
  <2>5. list \in Seq(ToSet(list))
    <3>1. \A i \in 1 .. Len(rows[s]) : list[i] \in ToSet(list)
      BY <1>1, <2>3 DEF ToSet
    <3>2. list = [i \in 1 .. Len(rows[s]) |-> list[i]]
      BY <1>1, <2>1
    <3>3. list \in [1 .. Len(rows[s]) -> ToSet(list)]
      BY <3>1, <3>2
    <3> QED BY <1>1, <3>3, Listing
  <2> HIDE DEF list
  <2> QED BY <1>1, <2>2, <2>3, <2>4, <2>5 DEF list
<1> QED BY <1>2, <1>3

LEMMA UsersFinite == IsFiniteSet(Users)
<1>1. UserOrder \in Seq(Users)
  BY SitesAssumption
<1>2. Len(UserOrder) \in Nat /\ DOMAIN UserOrder = 1 .. Len(UserOrder) /\ UserOrder \in [1 .. Len(UserOrder) -> Users]
  BY <1>1
<1>3. \A u \in Users : \E i \in 1 .. Len(UserOrder) : UserOrder[i] = u
  BY <1>2 DEF Users, ToSet
<1>4. UserOrder \in Surjection(1 .. Len(UserOrder), Users)
  BY <1>2, <1>3 DEF Surjection
<1>5. IsFiniteSet(1 .. Len(UserOrder))
  BY <1>2, FS_Interval
<1> QED BY <1>4, <1>5, FS_Surjection DEF ExistsSurjection

LEMMA Ids ==
  ASSUME NEW u \in Users
  PROVE  Id(u) \in Nat /\ UserOrder[Id(u)] = u
<1>1. DOMAIN UserOrder \subseteq Nat
  <2>1. UserOrder \in Seq(Users)
    BY SitesAssumption
  <2> QED BY <2>1, Elements
<1>2. \E k \in DOMAIN UserOrder : UserOrder[k] = u
  BY DEF Users, ToSet
<1> QED BY <1>1, <1>2 DEF Id

\* The list has the members of the set and no one else.
LEMMA ListedById ==
  ASSUME NEW set \in SUBSET Users
  PROVE  ById(set) \in Seq(set) /\ \A u \in set : \E i \in DOMAIN ById(set) : ById(set)[i] = u
<1> DEFINE n == Cardinality(set)
           Below(u) == {v \in set : Id(v) < Id(u)}
           rank == [u \in set |-> Cardinality(Below(u))]
           T == {rank[u] : u \in set}
<1>1. IsFiniteSet(set) /\ n \in Nat
  BY UsersFinite, FS_Subset, FS_CardinalityType
<1>2. ASSUME NEW u \in set
      PROVE  IsFiniteSet(Below(u)) /\ rank[u] \in Nat /\ rank[u] < n
  <2>1. Below(u) \subseteq set /\ u \notin Below(u)
    BY Ids
  <2> HIDE DEF Below
  <2>2. IsFiniteSet(Below(u)) /\ Cardinality(Below(u)) <= n /\ (Cardinality(Below(u)) = n => Below(u) = set)
    BY <1>1, <2>1, FS_Subset
  <2>3. Cardinality(Below(u)) \in Nat /\ Cardinality(Below(u)) # n
    BY <2>1, <2>2, FS_CardinalityType
  <2> QED BY <1>1, <2>2, <2>3
<1>3. ASSUME NEW u \in set, NEW v \in set, Id(u) < Id(v)
      PROVE  rank[u] < rank[v]
  <2>1. Below(u) \subseteq Below(v) /\ u \in Below(v) /\ u \notin Below(u)
    BY <1>3, Ids
  <2>2. IsFiniteSet(Below(v)) /\ IsFiniteSet(Below(u))
    BY <1>2
  <2> HIDE DEF Below
  <2>3. Cardinality(Below(u)) <= Cardinality(Below(v)) /\ Cardinality(Below(u)) # Cardinality(Below(v))
    BY <2>1, <2>2, FS_Subset
  <2>4. Cardinality(Below(u)) \in Nat /\ Cardinality(Below(v)) \in Nat
    BY <2>2, FS_CardinalityType
  <2> QED BY <2>3, <2>4
<1> HIDE DEF Below, rank
<1>4. rank \in [set -> T] /\ \A x \in T : \E u \in set : rank[u] = x
  BY DEF rank
<1>5. ASSUME NEW u \in set, NEW v \in set, rank[u] = rank[v]
      PROVE  u = v
  <2>1. Id(u) \in Nat /\ Id(v) \in Nat /\ UserOrder[Id(u)] = u /\ UserOrder[Id(v)] = v
    BY Ids
  <2>2. ~(Id(u) < Id(v)) /\ ~(Id(v) < Id(u))
    BY <1>2, <1>3, <1>5
  <2>3. Id(u) = Id(v)
    BY <2>1, <2>2
  <2> QED BY <2>1, <2>3
<1>6. IsFiniteSet(T) /\ Cardinality(T) = n
  <2>1. rank \in Bijection(set, T)
    BY <1>4, <1>5 DEF Bijection, Injection, Surjection, IsInjective
  <2> QED BY <2>1, <1>1, FS_Bijection DEF ExistsBijection
<1>7. T = 0 .. n - 1
  <2>1. T \subseteq 0 .. n - 1
    BY <1>1, <1>2
  <2>2. IsFiniteSet(0 .. n - 1) /\ Cardinality(0 .. n - 1) = n
    BY <1>1, FS_Interval
  <2> HIDE DEF T
  <2> QED BY <1>6, <2>1, <2>2, FS_Subset
<1>8. /\ ById(set) = [i \in 1 .. n |-> CHOOSE u \in set : Cardinality({v \in set : Id(v) < Id(u)}) = i - 1]
      /\ \A u \in set : rank[u] = Cardinality({v \in set : Id(v) < Id(u)})
  BY DEF ById, rank, Below
<1>9. ASSUME NEW i \in 1 .. n PROVE ById(set)[i] \in set /\ rank[ById(set)[i]] = i - 1
  <2>1. i - 1 \in 0 .. n - 1
    BY <1>1
  <2>2. \E u \in set : rank[u] = i - 1
    BY <1>4, <1>7, <2>1
  <2> QED BY <1>8, <2>2
<1>10. ById(set) \in Seq(set)
  <2>1. ById(set) \in [1 .. n -> set]
    BY <1>8, <1>9
  <2> QED BY <1>1, <2>1, Listing
<1>11. ASSUME NEW u \in set PROVE \E i \in DOMAIN ById(set) : ById(set)[i] = u
  <2>1. PICK i \in 1 .. n : i - 1 = rank[u]
    <3>1. rank[u] + 1 \in 1 .. n /\ rank[u] + 1 - 1 = rank[u]
      BY <1>1, <1>2
    <3>2. rank[u] \in Int
      BY <1>2
    <3> DEFINE k == rank[u] + 1
    <3>3. k \in 1 .. n /\ k - 1 = rank[u]
      BY <3>1, <3>2
    <3> HIDE DEF k, n
    <3> QED BY <3>3
  <2>2. ById(set)[i] \in set /\ rank[ById(set)[i]] = rank[u]
    BY <1>9, <2>1
  <2>3. ById(set)[i] = u
    BY <1>5, <2>2
  <2> QED BY <1>8, <2>1, <2>3
<1> QED BY <1>10, <1>11

\* The clients are the users in good standing who have a rule.
LEMMA ClientsListed ==
  ASSUME NEW s
  PROVE  /\ ListActiveProxyClients(s) \in Seq(Users)
         /\ \A i \in DOMAIN ListActiveProxyClients(s) :
              LET u == ListActiveProxyClients(s)[i] IN u \in Users /\ user[u] = "ok" /\ Holds(u, s)
<1> DEFINE set == {u \in Users : user[u] = "ok" /\ Holds(u, s)}
           list == ListActiveProxyClients(s)
<1>1. list = ById(set)
  BY DEF ListActiveProxyClients
<1>2. set \in SUBSET Users
  OBVIOUS
<1>3. list \in Seq(set)
  <2> HIDE DEF set, list
  <2> QED BY <1>1, <1>2, ListedById
<1>4. \A i \in DOMAIN list : list[i] \in set
  <2> HIDE DEF set, list
  <2> QED BY <1>3, Elements
<1>5. list \in Seq(Users)
  <2> HIDE DEF list
  <2>1. Len(list) \in Nat /\ list \in [1 .. Len(list) -> Users]
    <3>1. list \in [1 .. Len(list) -> set] /\ Len(list) \in Nat
      <4> HIDE DEF set
      <4> QED BY <1>3
    <3> QED BY <3>1
  <2> QED BY <2>1, Listing
<1> QED BY <1>4, <1>5

LEMMA RowsWritten ==
  ASSUME ServicesTyped(status, config, rows), NEW s \in Services, config[s] # <<>>, NEW list,
         list \in Seq(ToSet(list)), \A i \in DOMAIN list : RowTyped(list[i]),
         \A i, j \in DOMAIN list : list[i].node = list[j].node => i = j
  PROVE  ServicesTyped(status, config, [rows EXCEPT ![s] = list])
<1>1. status[s] \notin {"none", "gone"} /\ config[s] = <<config[s][1]>> /\ IsConfig(config[s][1])
  BY OneService
<1>2. ServiceTyped(status[s], config[s], list)
  BY <1>1 DEF ServiceTyped
<1> QED BY <1>2 DEF ServicesTyped

LEMMA NodeTyped ==
  ASSUME Parts, NEW t \in Threads, Task1(t).op \in {"sync", "publish"}, PublishNode(t)
  PROVE  Parts'
<1> DEFINE s == Task1(t).svc
           to == Head(work[t].nodes)
           force == NeedsCore(work[t].cfg[1])
<1>1. ThreadsTyped(work) /\ work[t].todo # <<>> /\ work[t].at = "node" /\ work[t].nodes # <<>>
      /\ ServicesTyped(status, config, rows)
  BY DEF Parts, PublishNode, At
<1>2. /\ DOMAIN work[t] = {"todo", "at", "cfg", "nodes", "inb", "ok"} /\ Task1(t) \in Tasks /\ s \in Services
      /\ work[t].cfg = <<work[t].cfg[1]>> /\ IsConfig(work[t].cfg[1]) /\ work[t].cfg[1].port # 0
      /\ work[t].nodes \in Seq([node : Nodes, port : Nat]) /\ work[t].ok \in BOOLEAN /\ AtMostOne(work[t].inb)
      /\ \A i \in DOMAIN work[t].nodes : work[t].nodes[i].port # 0
      /\ to.node \in Nodes /\ to.port \in Nat \ {0}
  BY <1>1, Publisher
<1>3. CASE config[s] = <<>>
  <2> DEFINE w == [work[t] EXCEPT !.nodes = Tail(@)]
  <2>1. /\ DOMAIN w = {"todo", "at", "cfg", "nodes", "inb", "ok"} /\ w.todo = work[t].todo /\ w.at = "node"
        /\ w.cfg = work[t].cfg /\ w.ok = work[t].ok /\ w.inb = work[t].inb /\ w.nodes = Tail(work[t].nodes)
    BY <1>1, <1>2
  <2>2. w.nodes \in Seq([node : Nodes, port : Nat]) /\ \A i \in DOMAIN w.nodes : w.nodes[i].port # 0
    BY <1>1, <1>2, <2>1, TailOf
  <2>3. work' = [work EXCEPT ![t] = w] /\ rows' = rows /\ cored' = cored
    BY <1>3 DEF PublishNode
  <2> HIDE DEF w
  <2>4. ThreadsTyped(work')
    BY <1>1, <1>2, <2>1, <2>2, <2>3, MovesOn
  <2> QED BY <2>3, <2>4 DEF Parts, PublishNode
<1>4. CASE config[s] # <<>>
  <2>1. rows' = [rows EXCEPT ![s] = UpsertProxyInstance(s, to.node, to.port)]
    BY <1>4 DEF PublishNode
  <2>2. ServicesTyped(status, config, rows')
    <3> DEFINE list == UpsertProxyInstance(s, to.node, to.port)
    <3>3. s \in Services /\ to.node \in Nodes /\ to.port \in Nat \ {0}
      BY <1>2
    <3> HIDE DEF to, s
    <3>1. ListTyped(list)
      BY <1>1, <3>3, Upserted
    <3> HIDE DEF list
    <3>4. /\ list \in Seq(ToSet(list)) /\ \A i \in DOMAIN list : RowTyped(list[i])
          /\ \A i, j \in DOMAIN list : list[i].node = list[j].node => i = j
      BY <3>1 DEF ListTyped
    <3>2. ServicesTyped(status, config, [rows EXCEPT ![s] = list])
      BY <1>1, <1>4, <3>3, <3>4, RowsWritten
    <3> QED BY <2>1, <3>2 DEF list, to, s
  <2>3. cored' \subseteq Nodes
    BY <1>2, <1>4 DEF PublishNode, ensureCoreOnNodeForce, CoreMissing, Parts
  <2>4. PICK w : /\ work' = [work EXCEPT ![t] = w]
                 /\ w = [work[t] EXCEPT !.at = "overlay"] \/ w = [work[t] EXCEPT !.at = "mark", !.ok = FALSE]
    <3>1. work' = [work EXCEPT ![t].at = "overlay"] \/ work' = [work EXCEPT ![t].at = "mark", ![t].ok = FALSE]
      BY <1>4 DEF PublishNode
    <3> QED BY <3>1
  <2>5. /\ DOMAIN w = {"todo", "at", "cfg", "nodes", "inb", "ok"} /\ w.todo = work[t].todo /\ w.at \in {"overlay", "mark"}
        /\ w.cfg = work[t].cfg /\ w.ok \in BOOLEAN /\ w.inb = work[t].inb /\ w.nodes = work[t].nodes
    BY <1>2, <2>4
  <2>7. /\ w.cfg = <<w.cfg[1]>> /\ IsConfig(w.cfg[1]) /\ w.cfg[1].port # 0 /\ AtMostOne(w.inb)
        /\ w.nodes \in Seq([node : Nodes, port : Nat]) /\ w.nodes # <<>> /\ \A i \in DOMAIN w.nodes : w.nodes[i].port # 0
    BY <1>1, <1>2, <2>5
  <2>8. work' = [work EXCEPT ![t] = w] /\ w.at \in {"save", "node", "overlay", "apply", "mark"}
    BY <2>4, <2>5
  <2>6. ThreadsTyped(work')
    BY <1>1, <2>5, <2>7, <2>8, MovesOn
  <2> QED BY <2>2, <2>3, <2>6 DEF Parts, PublishNode
<1> QED BY <1>3, <1>4

\* The inbound is the one of the protocol's builder.
LEMMA BuiltTyped ==
  ASSUME NEW c, IsConfig(c), NEW us, NEW port
  PROVE  AtMostOne(Inbound(overlayProxyConfigForPublish(c, us), port))
<1>1. overlayProxyConfigForPublish(c, us).proto \in Protocols
  BY Overlaid
<1> QED BY <1>1, OneInbound

LEMMA PlaneBuiltTyped ==
  ASSUME NEW c, IsConfig(c), NEW x, NEW port
  PROVE  AtMostOne(Inbound(overlayProxyConfigForUser(c, x), port))
<1>1. c.proto \in Protocols /\ {"proto", "live", "users", "pass"} \subseteq DOMAIN c
  BY KeepKeys DEF IsConfig
<1>2. OverlayInboundClients(c, <<x>>).proto = c.proto
  BY <1>1 DEF OverlayInboundClients
<1>3. DOMAIN OverlayInboundClients(c, <<x>>) = DOMAIN c
  BY <1>1 DEF OverlayInboundClients
<1>4. overlayProxyConfigForUser(c, x).proto = c.proto
  BY <1>1, <1>2, <1>3 DEF overlayProxyConfigForUser, ConfigWithUserSecret
<1> QED BY <1>1, <1>4, OneInbound

\* Whoever is listed has a secret then, and nobody loses his.
Provided(creds, us, s) == \A i \in DOMAIN us : \E y : creds[<<s, us[i]>>] = {y}
LEMMA EnsuredCreds ==
  ASSUME CredTyped(cred), NEW us \in Seq(Users), NEW s \in Services, NEW c, IsConfig(c)
  PROVE  LET creds == EnsureCreds(us, s, c) IN
         /\ CredTyped(creds)
         /\ \A x \in Services \X Users : cred[x] \subseteq creds[x] /\ (x[1] # s => creds[x] = cred[x])
         /\ Provided(creds, us, s)
<1> DEFINE first == IF us = <<>> THEN cred ELSE ensureUserProxyCred(cred, us[1], s, c)
           creds == EnsureCreds(us, s, c)
<1>1. CredTyped(first) /\ \A x \in Services \X Users : cred[x] \subseteq first[x] /\ (x[1] # s => first[x] = cred[x])
  <2>1. CASE us = <<>>
    BY <2>1
  <2>2. CASE us # <<>>
    <3>1. us[1] \in Users /\ first = ensureUserProxyCred(cred, us[1], s, c)
      BY <2>2
    <3> DEFINE u == us[1]
    <3> HIDE DEF u
    <3>2. LET g == ensureUserProxyCred(cred, u, s, c) IN
          CredTyped(g) /\ \A x \in Services \X Users : cred[x] \subseteq g[x] /\ (x # <<s, u>> => g[x] = cred[x])
      BY EnsuredCred
    <3> QED BY <3>1, <3>2 DEF u
  <2> QED BY <2>1, <2>2
<1>2. creds = [x \in Services \X Users |->
                 IF x[1] = s /\ x[2] \in ToSet(us) THEN ensureUserProxyCred(first, x[2], s, c)[x] ELSE first[x]]
  BY DEF EnsureCreds, CredTyped
<1> HIDE DEF first, creds
<1>3. ASSUME NEW x \in Services \X Users
      PROVE  /\ AtMostOne(creds[x]) /\ first[x] \subseteq creds[x] /\ (x[1] # s => creds[x] = first[x])
             /\ x[1] = s /\ x[2] \in ToSet(us) => \E y : creds[x] = {y}
  <2>1. CASE x[1] = s /\ x[2] \in ToSet(us)
    <3>1. x = <<s, x[2]>> /\ creds[x] = ensureUserProxyCred(first, x[2], s, c)[x]
      BY <1>2, <2>1
    <3> DEFINE u == x[2]
    <3>3. x = <<s, u>> /\ creds[x] = ensureUserProxyCred(first, u, s, c)[x]
      BY <3>1
    <3> HIDE DEF u
    <3> DEFINE g == ensureUserProxyCred(first, u, s, c)
    <3>2. <<s, u>> \in Services \X Users /\ CredTyped(first)
      BY <1>1, <3>3
    <3>4. /\ \A z \in Services \X Users : first[z] \subseteq g[z] /\ (z # <<s, u>> => g[z] = first[z])
          /\ <<s, u>> \in Services \X Users => \E y : g[<<s, u>>] = {y}
      BY <3>2, EnsuredCred
    <3> HIDE DEF g
    <3>5. first[x] \subseteq g[x] /\ \E y : g[x] = {y}
      BY <3>2, <3>3, <3>4
    <3> QED BY <2>1, <3>3, <3>5 DEF AtMostOne, g
  <2>2. CASE ~(x[1] = s /\ x[2] \in ToSet(us))
    BY <1>1, <1>2, <2>2 DEF CredTyped
  <2> QED BY <2>1, <2>2
<1>4. CredTyped(creds)
  BY <1>2, <1>3 DEF CredTyped
<1>5. ASSUME NEW i \in DOMAIN us PROVE \E y : creds[<<s, us[i]>>] = {y}
  <2>1. us[i] \in ToSet(us) /\ us[i] \in Users
    BY Elements DEF ToSet
  <2> QED BY <1>3, <2>1
<1>6. \A x \in Services \X Users : cred[x] \subseteq creds[x] /\ (x[1] # s => creds[x] = cred[x])
  BY <1>1, <1>3
<1>7. Provided(creds, us, s)
  BY <1>5 DEF Provided
<1> QED BY <1>4, <1>6, <1>7 DEF creds

LEMMA OverlayTyped ==
  ASSUME Parts, NEW t \in Threads, Task1(t).op \in {"sync", "publish"}, PublishOverlay(t)
  PROVE  Parts'
<1> DEFINE s == Task1(t).svc
           c == work[t].cfg[1]
           us == IF config[s] = <<>> THEN <<>> ELSE ListActiveProxyClients(s)
           creds == EnsureCreds(us, s, c)
           inb == Inbound(overlayProxyConfigForPublish(c, SecretsOf(creds, us, s)), Head(work[t].nodes).port)
           w == [work[t] EXCEPT !.at = "apply", !.inb = inb]
<1>1. ThreadsTyped(work) /\ work[t].todo # <<>> /\ work[t].at = "overlay" /\ CredTyped(cred)
  BY DEF Parts, PublishOverlay, At
<1>2. /\ DOMAIN work[t] = {"todo", "at", "cfg", "nodes", "inb", "ok"} /\ s \in Services
      /\ work[t].cfg = <<c>> /\ IsConfig(c) /\ c.port # 0
      /\ work[t].nodes \in Seq([node : Nodes, port : Nat]) /\ work[t].ok \in BOOLEAN
      /\ \A i \in DOMAIN work[t].nodes : work[t].nodes[i].port # 0
      /\ work[t].nodes # <<>>
  BY <1>1, Publisher
<1>3. us \in Seq(Users)
  BY ClientsListed
<1>4. cred' = creds /\ work' = [work EXCEPT ![t] = w]
  BY DEF PublishOverlay
<1>5. AtMostOne(inb)
  BY <1>2, BuiltTyped
<1> HIDE DEF us, inb, c, s
<1>6. CredTyped(cred')
  BY <1>1, <1>2, <1>3, <1>4, EnsuredCreds
<1>7. /\ DOMAIN w = {"todo", "at", "cfg", "nodes", "inb", "ok"} /\ w.todo = work[t].todo /\ w.at = "apply"
      /\ w.cfg = <<c>> /\ w.ok \in BOOLEAN /\ w.inb = inb /\ w.nodes = work[t].nodes
  BY <1>2
<1> HIDE DEF w
<1>8. /\ w.cfg = <<w.cfg[1]>> /\ IsConfig(w.cfg[1]) /\ w.cfg[1].port # 0 /\ AtMostOne(w.inb)
      /\ w.nodes \in Seq([node : Nodes, port : Nat]) /\ w.nodes # <<>> /\ \A i \in DOMAIN w.nodes : w.nodes[i].port # 0
  BY <1>2, <1>5, <1>7
<1>9. ThreadsTyped(work')
  BY <1>1, <1>4, <1>7, <1>8, MovesOn
<1> QED BY <1>6, <1>9 DEF Parts, PublishOverlay

\* What an apply leaves in a slot.
LEMMA AnswerTyped ==
  ASSUME RunsTyped(runs), NEW inb, AtMostOne(inb), NEW n, NEW answer \in SendProxyServiceApply(inb, n), NEW slot,
         Answered(slot, answer)
  PROVE  /\ RunsTyped(runs') /\ answer.ok \in BOOLEAN /\ answer.core \subseteq inb
         /\ answer.ok => answer.core # {}
         /\ runs' = IF answer.core = {} THEN runs ELSE [runs EXCEPT ![slot] = answer.core]
<1> DEFINE takes == {i \in inb : n \in online /\ CoreTakes(i)}
<1>1. answer.ok \in BOOLEAN /\ answer.core \subseteq inb /\ (answer.ok => answer.core # {})
  <2>1. CASE answer = [ok |-> FALSE, core |-> {}, fault |-> takes # {}]
    BY <2>1
  <2>2. CASE \E ok \in BOOLEAN : answer = [ok |-> ok, core |-> takes, fault |-> ~ok] /\ takes # {}
    BY <2>2
  <2> QED BY <2>1, <2>2 DEF SendProxyServiceApply
<1>2. runs' = IF answer.core = {} THEN runs ELSE [runs EXCEPT ![slot] = answer.core]
  BY DEF Answered
<1>3. AtMostOne(answer.core)
  BY <1>1 DEF AtMostOne
<1> QED BY <1>1, <1>2, <1>3 DEF RunsTyped

LEMMA ApplyTyped ==
  ASSUME Parts, NEW t \in Threads, applyProxyInstance(t)
  PROVE  Parts'
<1> DEFINE n == Head(work[t].nodes).node
<1>1. ThreadsTyped(work) /\ work[t].todo # <<>> /\ work[t].at = "apply" /\ RunsTyped(runs) /\ Task1(t).op \in {"sync", "publish"}
  BY DEF Parts, applyProxyInstance, At
<1>2. /\ DOMAIN work[t] = {"todo", "at", "cfg", "nodes", "inb", "ok"}
      /\ work[t].cfg = <<work[t].cfg[1]>> /\ IsConfig(work[t].cfg[1]) /\ work[t].cfg[1].port # 0
      /\ work[t].nodes \in Seq([node : Nodes, port : Nat]) /\ work[t].nodes # <<>>
      /\ \A i \in DOMAIN work[t].nodes : work[t].nodes[i].port # 0
      /\ AtMostOne(work[t].inb)
  BY <1>1, Publisher
<1>3. PICK answer \in SendProxyServiceApply(work[t].inb, n) :
        /\ Answered(Inst(Task1(t).svc, n), answer)
        /\ work' = [work EXCEPT ![t].at = "mark", ![t].ok = answer.ok]
  BY DEF applyProxyInstance
<1>4. RunsTyped(runs') /\ answer.ok \in BOOLEAN
  BY <1>1, <1>2, <1>3, AnswerTyped
<1> DEFINE w == [work[t] EXCEPT !.at = "mark", !.ok = answer.ok]
<1>5. work' = [work EXCEPT ![t] = w]
  BY <1>3
<1>6. /\ DOMAIN w = {"todo", "at", "cfg", "nodes", "inb", "ok"} /\ w.todo = work[t].todo /\ w.at = "mark"
      /\ w.cfg = work[t].cfg /\ w.ok \in BOOLEAN /\ w.inb = work[t].inb /\ w.nodes = work[t].nodes
  BY <1>2, <1>4
<1> HIDE DEF w
<1>7. /\ w.cfg = <<w.cfg[1]>> /\ IsConfig(w.cfg[1]) /\ w.cfg[1].port # 0 /\ AtMostOne(w.inb)
      /\ w.nodes \in Seq([node : Nodes, port : Nat]) /\ w.nodes # <<>> /\ \A i \in DOMAIN w.nodes : w.nodes[i].port # 0
  BY <1>2, <1>6
<1>8. ThreadsTyped(work')
  BY <1>1, <1>5, <1>6, <1>7, MovesOn
<1> QED BY <1>4, <1>8 DEF Parts, applyProxyInstance, panel

\* Rows that keep their nodes and ports are rows still.
LEMMA RowsKept ==
  ASSUME ServicesTyped(status, config, rows), NEW s \in Services, NEW list, DOMAIN list = DOMAIN rows[s],
         \A i \in DOMAIN rows[s] : RowTyped(list[i]) /\ list[i].node = rows[s][i].node,
         list = [i \in DOMAIN rows[s] |-> list[i]]
  PROVE  ServicesTyped(status, config, [rows EXCEPT ![s] = list])
<1>1. /\ Len(rows[s]) \in Nat /\ DOMAIN rows[s] = 1 .. Len(rows[s])
      /\ \A i, j \in DOMAIN rows[s] : rows[s][i].node = rows[s][j].node => i = j
  BY OneService
<1>2. list \in Seq(ToSet(list))
  <2>1. \A i \in 1 .. Len(rows[s]) : list[i] \in ToSet(list)
    BY <1>1 DEF ToSet
  <2>2. list \in [1 .. Len(rows[s]) -> ToSet(list)]
    BY <1>1, <2>1
  <2> QED BY <1>1, <2>2, Listing
<1>3. ServiceTyped(status[s], config[s], list)
  <2>1. CASE status[s] \in {"none", "gone"}
    <3>1. rows[s] = <<>> /\ config[s] = <<>>
      BY <2>1, OneService
    <3>2. list = <<>>
      BY <3>1, <1>2
    <3> QED BY <1>2, <2>1, <3>1, <3>2 DEF ServiceTyped
  <2>2. CASE status[s] \notin {"none", "gone"}
    <3>1. config[s] = <<config[s][1]>> /\ IsConfig(config[s][1])
      BY <2>2, OneService
    <3>2. \A i, j \in DOMAIN list : list[i].node = list[j].node => i = j
      BY <1>1
    <3> QED BY <1>2, <2>2, <3>1, <3>2 DEF ServiceTyped
  <2> QED BY <2>1, <2>2
<1> QED BY <1>3 DEF ServicesTyped

LEMMA DeployTyped ==
  ASSUME Parts, NEW t \in Threads, UpdateProxyInstanceDeploy(t)
  PROVE  Parts'
<1> DEFINE s == Task1(t).svc
           n == Head(work[t].nodes).node
           marked(row) == [row EXCEPT !.status = IF work[t].ok THEN "ready" ELSE "error",
                                      !.uri = BuildShareURI(work[t].cfg[1], row.port)]
           list == [i \in DOMAIN rows[s] |-> IF rows[s][i].node = n THEN marked(rows[s][i]) ELSE rows[s][i]]
<1>1. ThreadsTyped(work) /\ work[t].todo # <<>> /\ work[t].at = "mark" /\ Task1(t).op \in {"sync", "publish"}
      /\ ServicesTyped(status, config, rows)
  BY DEF Parts, UpdateProxyInstanceDeploy, At
<1>2. /\ DOMAIN work[t] = {"todo", "at", "cfg", "nodes", "inb", "ok"} /\ s \in Services
      /\ work[t].cfg = <<work[t].cfg[1]>> /\ IsConfig(work[t].cfg[1]) /\ work[t].cfg[1].port # 0
      /\ work[t].nodes \in Seq([node : Nodes, port : Nat]) /\ work[t].nodes # <<>> /\ work[t].ok \in BOOLEAN
      /\ \A i \in DOMAIN work[t].nodes : work[t].nodes[i].port # 0
  BY <1>1, Publisher
<1>3. rows' = [rows EXCEPT ![s] = list]
  BY DEF UpdateProxyInstanceDeploy
<1>4. ASSUME NEW i \in DOMAIN rows[s] PROVE RowTyped(list[i]) /\ list[i].node = rows[s][i].node
  <2>1. RowTyped(rows[s][i])
    BY <1>1, <1>2, OneService
  <2> DEFINE x == BuildShareURI(work[t].cfg[1], rows[s][i].port)
  <2>2. list[i] = IF rows[s][i].node = n THEN [rows[s][i] EXCEPT !.status = IF work[t].ok THEN "ready" ELSE "error", !.uri = x]
                  ELSE rows[s][i]
    OBVIOUS
  <2> HIDE DEF list, x
  <2> QED BY <2>1, <2>2 DEF RowTyped
<1>5. ServicesTyped(status, config, rows')
  <2>1. DOMAIN list = DOMAIN rows[s] /\ list = [i \in DOMAIN rows[s] |-> list[i]]
    OBVIOUS
  <2> HIDE DEF list
  <2> QED BY <1>1, <1>2, <1>3, <1>4, <2>1, RowsKept
<1> DEFINE w == [work[t] EXCEPT !.at = "node", !.nodes = Tail(@), !.inb = {}]
<1>6. work' = [work EXCEPT ![t] = w]
  BY DEF UpdateProxyInstanceDeploy
<1>7. /\ DOMAIN w = {"todo", "at", "cfg", "nodes", "inb", "ok"} /\ w.todo = work[t].todo /\ w.at = "node"
      /\ w.cfg = work[t].cfg /\ w.ok = work[t].ok /\ w.inb = {} /\ w.nodes = Tail(work[t].nodes)
  BY <1>2
<1> HIDE DEF w
<1>8. /\ w.cfg = <<w.cfg[1]>> /\ IsConfig(w.cfg[1]) /\ w.cfg[1].port # 0 /\ AtMostOne(w.inb) /\ w.ok \in BOOLEAN
      /\ w.nodes \in Seq([node : Nodes, port : Nat]) /\ \A i \in DOMAIN w.nodes : w.nodes[i].port # 0
  BY <1>2, <1>7, TailOf DEF AtMostOne
<1>9. ThreadsTyped(work')
  BY <1>1, <1>6, <1>7, <1>8, MovesOn
<1> QED BY <1>5, <1>9 DEF Parts, UpdateProxyInstanceDeploy

LEMMA RecomputeTyped ==
  ASSUME Parts, NEW t \in Threads, Task1(t).op \in {"sync", "publish"}, RecomputeProxyServiceStatus(t)
  PROVE  Parts'
<1> DEFINE s == Task1(t).svc
<1>1. ThreadsTyped(work) /\ work[t].todo # <<>> /\ work[t].at = "node" /\ ServicesTyped(status, config, rows)
  BY DEF Parts, RecomputeProxyServiceStatus, At
<1>2. s \in Services
  BY <1>1, Publisher
<1>3. ThreadsTyped(work')
  BY <1>1, Finishes DEF RecomputeProxyServiceStatus
<1>4. ServicesTyped(status', config, rows)
  <2>1. status' = [status EXCEPT ![s] = IF config[s] = <<>> THEN @ ELSE Recomputed(s)]
    BY DEF RecomputeProxyServiceStatus
  <2>2. Recomputed(s) \in {"draft", "ready", "partial", "error"}
    BY DEF Recomputed, RecomputedOf
  <2>3. ASSUME NEW x \in Services PROVE ServiceTyped(status'[x], config[x], rows[x]) /\ status'[x] \in
             {"none", "draft", "ready", "partial", "error", "gone"}
    <3>1. ServiceTyped(status[x], config[x], rows[x]) /\ status[x] \in {"none", "draft", "ready", "partial", "error", "gone"}
      BY <1>1 DEF ServicesTyped
    <3>2. CASE x = s /\ config[s] # <<>>
      <4>1. status[s] \notin {"none", "gone"} /\ status'[s] \notin {"none", "gone"}
        BY <1>1, <2>1, <2>2, <3>2, <3>1 DEF ServicesTyped, ServiceTyped
      <4>2. status'[s] = Recomputed(s)
        BY <1>1, <2>1, <3>2, <1>2 DEF ServicesTyped
      <4> QED BY <2>2, <3>1, <3>2, <4>1, <4>2 DEF ServiceTyped
    <3>3. CASE ~(x = s /\ config[s] # <<>>)
      <4>1. status'[x] = status[x]
        BY <1>1, <2>1, <3>3 DEF ServicesTyped
      <4> QED BY <3>1, <4>1
    <3> QED BY <3>2, <3>3
  <2>4. DOMAIN status' = Services /\ status' = [x \in Services |-> status'[x]]
    BY <1>1, <2>1 DEF ServicesTyped
  <2> QED BY <1>1, <2>3, <2>4 DEF ServicesTyped
<1> QED BY <1>3, <1>4 DEF Parts, RecomputeProxyServiceStatus

-----------------------------------------------------------------------------
(* Type correctness: the planes of rules                                   *)

LEMMA OneRule ==
  ASSUME RulesTyped(rule), NEW r \in Rules
  PROVE  /\ rule[r] = NoRule \/ rule[r] \in [owner : Users, svc : Services \union {""}]
         /\ rule[r].svc \in Services \union {""} /\ rule[r].owner \in Users \union {""}
         /\ rule[r].svc # "" => rule[r].owner \in Users
<1>1. rule[r] = NoRule \/ rule[r] \in [owner : Users, svc : Services \union {""}]
  BY DEF RulesTyped
<1>2. CASE rule[r] = NoRule
  <2>1. NoRule.svc = "" /\ NoRule.owner = ""
    BY DEF NoRule
  <2> QED BY <1>2, <2>1
<1>3. CASE rule[r] \in [owner : Users, svc : Services \union {""}]
  BY <1>3
<1> QED BY <1>1, <1>2, <1>3

LEMMA DeployPlaneTyped ==
  ASSUME Parts, NEW t \in Threads, deployRuleProtocolPlane(t)
  PROVE  Parts'
<1> DEFINE task == Task1(t)
           r == task.on
           is == IF task.op = "plane" THEN rule[r] ELSE [owner |-> task.owner, svc |-> task.svc]
           s == is.svc
           c == EnsureSecrets(config[s][1])
           creds == ensureUserProxyCred(cred, is.owner, s, c)
           live == overlayProxyConfigForUser(c, CHOOSE x \in creds[<<s, is.owner>>] : TRUE)
           fit == s # "" /\ config[s] # <<>> /\ Publishable(config[s][1]) /\ user[is.owner] # "gone"
<1>1. ThreadsTyped(work) /\ work[t].todo # <<>> /\ work[t].at = "next" /\ task.op \in {"plane", "listed"}
      /\ CredTyped(cred) /\ ServicesTyped(status, config, rows) /\ RulesTyped(rule) /\ cored \subseteq Nodes
  BY DEF Parts, deployRuleProtocolPlane, At
<1>2. task \in Tasks /\ r \in Rules /\ task.svc \in Services \union {""} /\ task.owner \in Users \union {""}
  BY <1>1, TailTyped, FirstTask
<1>3. s \in Services \union {""}
  BY <1>1, <1>2, OneRule
<1>4. CASE ~fit
  <2>1. Done(t) /\ UNCHANGED <<cred, cored>>
    BY <1>4 DEF deployRuleProtocolPlane
  <2>2. ThreadsTyped(work')
    BY <1>1, <2>1, Finishes
  <2> QED BY <2>1, <2>2 DEF Parts, deployRuleProtocolPlane
<1>5. CASE fit
  <2>1. s \in Services /\ config[s] # <<>>
    BY <1>3, <1>5
  <2>2. IsConfig(c)
    <3>1. IsConfig(config[s][1])
      BY <1>1, <2>1, OneService
    <3> QED BY <3>1, EnsuredConfig
  <2>3. CredTyped(creds)
    <3> HIDE DEF c, s, is
    <3> QED BY <1>1, <2>2, EnsuredCred
  <2>4. cred' = creds
    BY <1>5 DEF deployRuleProtocolPlane
  <2>5. Entry[r] \in Nodes
    BY <1>2, SitesAssumption
  <2>6. cored' \subseteq Nodes
    <3>1. ensureCoreOnNodeForce(Entry[r], NeedsCore(c)) \/ CoreMissing(Entry[r], NeedsCore(c))
      BY <1>5 DEF deployRuleProtocolPlane
    <3> QED BY <1>1, <2>5, <3>1 DEF ensureCoreOnNodeForce, CoreMissing
  <2>7. ThreadsTyped(work')
    <3>1. CASE Done(t)
      BY <1>1, <3>1, Finishes
    <3>2. CASE work' = [work EXCEPT ![t].at = "apply", ![t].inb = Inbound(live, Listen[r])]
      <4> DEFINE inb == Inbound(live, Listen[r])
                 w == [work[t] EXCEPT !.at = "apply", !.inb = inb]
      <4>1. AtMostOne(inb)
        <5> HIDE DEF c
        <5> QED BY <2>2, PlaneBuiltTyped
      <4>8. work' = [work EXCEPT ![t].at = "apply", ![t].inb = inb]
        BY <3>2
      <4> HIDE DEF inb
      <4>2. work' = [work EXCEPT ![t] = w]
        BY <4>8
      <4>3. ThreadTyped(work[t]) /\ work[t].todo \in Seq(Tasks)
        BY <1>1, TodoTyped
      <4>4. /\ DOMAIN work[t] = {"todo", "at", "cfg", "nodes", "inb", "ok"} /\ work[t].ok \in BOOLEAN
            /\ work[t].nodes \in Seq([node : Nodes, port : Nat])
        BY <4>3 DEF ThreadTyped
      <4>5. /\ DOMAIN w = {"todo", "at", "cfg", "nodes", "inb", "ok"} /\ w.todo = work[t].todo /\ w.at = "apply"
            /\ w.cfg = work[t].cfg /\ w.ok = work[t].ok /\ w.inb = inb /\ w.nodes = work[t].nodes
        BY <4>4
      <4> HIDE DEF w
      <4>6. Head(w.todo).op \in {"plane", "listed"} /\ w.todo # <<>>
        BY <1>1, <4>5 DEF Task1
      <4>7. ThreadTyped(w)
        BY <4>1, <4>3, <4>4, <4>5, <4>6 DEF ThreadTyped
      <4> QED BY <1>1, <4>2, <4>7, OneThread
    <3> QED BY <1>5, <3>1, <3>2 DEF deployRuleProtocolPlane
  <2> HIDE DEF creds
  <2> QED BY <2>3, <2>4, <2>6, <2>7 DEF Parts, deployRuleProtocolPlane
<1> QED BY <1>4, <1>5

LEMMA DeployApplyTyped ==
  ASSUME Parts, NEW t \in Threads, deployApply(t)
  PROVE  Parts'
<1>1. ThreadsTyped(work) /\ work[t].todo # <<>> /\ RunsTyped(runs) /\ Done(t)
  BY DEF Parts, deployApply, At
<1>2. AtMostOne(work[t].inb)
  BY <1>1, TodoTyped DEF ThreadTyped
<1>3. PICK answer \in SendProxyServiceApply(work[t].inb, Entry[Task1(t).on]) : Answered(Plane(Task1(t).on), answer)
  BY DEF deployApply
<1>4. RunsTyped(runs')
  BY <1>1, <1>2, <1>3, AnswerTyped
<1>5. ThreadsTyped(work')
  BY <1>1, Finishes
<1> QED BY <1>4, <1>5 DEF Parts, deployApply, panel

LEMMA StopTyped ==
  ASSUME Parts, NEW t \in Threads, stopRuleProtocolPlane(t)
  PROVE  Parts'
<1> DEFINE r == Task1(t).on
<1>1. ThreadsTyped(work) /\ work[t].todo # <<>> /\ RunsTyped(runs) /\ Done(t)
  BY DEF Parts, stopRuleProtocolPlane, At
<1>2. runs' = IF Entry[r] \in online /\ rule[r].svc # "" THEN [runs EXCEPT ![Plane(r)] = {}] ELSE runs
  BY DEF stopRuleProtocolPlane
<1>3. RunsTyped(runs')
  BY <1>1, <1>2 DEF RunsTyped, AtMostOne
<1>4. ThreadsTyped(work')
  BY <1>1, Finishes
<1> QED BY <1>3, <1>4 DEF Parts, stopRuleProtocolPlane, panel

LEMMA PlanesListed ==
  ASSUME RulesTyped(rule), NEW n
  PROVE  resyncProtocolPlanesOnNode(n) \in Seq(Tasks)
<1> DEFINE on == {r \in Rules : Entry[r] = n /\ rule[r].svc # "" /\ config[rule[r].svc] # <<>>}
           list == SetToSeq(on)
           tasks == resyncProtocolPlanesOnNode(n)
<1>1. IsFiniteSet(on) /\ on \subseteq Rules
  BY SitesAssumption, FS_Subset
<1>2. \A r \in on : rule[r].svc \in Services /\ rule[r].owner \in Users
  BY OneRule
<1>3. tasks = [i \in DOMAIN list |-> [Task("listed", list[i], rule[list[i]].svc) EXCEPT !.owner = rule[list[i]].owner]]
  BY DEF resyncProtocolPlanesOnNode
<1> HIDE DEF on
<1>4. list \in Seq(on) /\ DOMAIN list = 1 .. Len(list)
  BY <1>1, Listed
<1> HIDE DEF list, tasks
<1>5. Len(list) \in Nat /\ \A i \in DOMAIN list : list[i] \in on
  BY <1>4, Elements
<1>6. ASSUME NEW i \in 1 .. Len(list)
      PROVE  [Task("listed", list[i], rule[list[i]].svc) EXCEPT !.owner = rule[list[i]].owner] \in Tasks
  <2>1. list[i] \in Rules /\ rule[list[i]].svc \in Services /\ rule[list[i]].owner \in Users
    BY <1>1, <1>2, <1>4, <1>5
  <2> QED BY <2>1, ListedTasks
<1>7. tasks \in [1 .. Len(list) -> Tasks]
  BY <1>3, <1>4, <1>6
<1>8. tasks \in Seq(Tasks)
  BY <1>5, <1>7, Listing
<1> QED BY <1>8 DEF tasks

LEMMA DispatchTyped ==
  ASSUME Parts, NEW t \in Threads, dispatchToNode(t)
  PROVE  Parts'
<1> DEFINE n == Task1(t).on
<1>1. ThreadsTyped(work) /\ work[t].todo # <<>> /\ RulesTyped(rule)
  BY DEF Parts, dispatchToNode, At
<1>2. Done(t) \/ Become(t, resyncProtocolPlanesOnNode(n) \o Tail(work[t].todo))
  BY DEF dispatchToNode
<1>3. resyncProtocolPlanesOnNode(n) \o Tail(work[t].todo) \in Seq(Tasks)
  BY <1>1, PlanesListed, TailTyped, Joined
<1>4. ThreadsTyped(work')
  BY <1>1, <1>2, <1>3, Finishes, Becomes
<1> QED BY <1>4 DEF Parts, dispatchToNode, panel

-----------------------------------------------------------------------------
(* Type correctness: requests about services                               *)

LEMMA NoTasks == <<>> \in Seq(Tasks)
OBVIOUS

LEMMA CreateTyped ==
  ASSUME Parts, NEW t \in Threads, NEW s \in Services, NEW c \in Forms[s], apiCreateProxyService(t, s, c)
  PROVE  Parts'
<1>1. ThreadsTyped(work')
  <2>1. ThreadsTyped(work) /\ Request(t, "create", <<>>)
    BY DEF Parts, apiCreateProxyService
  <2> QED BY <2>1, NoTasks, Asked
<1>2. ServicesTyped(status, config, rows) /\ status[s] = "none"
  BY DEF Parts, apiCreateProxyService
<1>3. ServicesTyped(status', config', rows)
  <2>1. CASE UNCHANGED <<config, status>>
    BY <1>2, <2>1
  <2>2. CASE config' = [config EXCEPT ![s] = <<EnsureSecrets(c)>>] /\ status' = [status EXCEPT ![s] = "draft"]
    <3> DEFINE d == EnsureSecrets(c)
    <3>1. IsConfig(d)
      BY SitesAssumption, EnsuredConfig
    <3>2. ServiceTyped("none", config[s], rows[s])
      BY <1>2, OneService
    <3> HIDE DEF d
    <3>3. ServiceTyped("draft", <<d>>, rows[s])
      BY <3>1, <3>2 DEF ServiceTyped
    <3>4. config' = [config EXCEPT ![s] = <<d>>]
      BY <2>2 DEF d
    <3> QED BY <1>2, <2>2, <3>3, <3>4 DEF ServicesTyped
  <2> QED BY <2>1, <2>2 DEF apiCreateProxyService
<1> QED BY <1>1, <1>3 DEF Parts, apiCreateProxyService, Quiet

LEMMA UpdateTyped ==
  ASSUME Parts, NEW t \in Threads, NEW s \in Services, NEW c \in Forms[s], apiUpdateProxyService(t, s, c)
  PROVE  Parts'
<1> DEFINE merged == EnsureSecrets(mergePreservedProxySecrets(config[s][1], c))
<1>1. ThreadsTyped(work')
  <2>1. ThreadsTyped(work) /\ Request(t, "save", <<>>)
    BY DEF Parts, apiUpdateProxyService
  <2> QED BY <2>1, NoTasks, Asked
<1>2. ServicesTyped(status, config, rows) /\ config[s] # <<>>
  BY DEF Parts, apiUpdateProxyService
<1>3. IsConfig(merged)
  <2>1. IsConfig(config[s][1]) /\ IsConfig(c)
    BY <1>2, OneService, SitesAssumption
  <2> QED BY <2>1, MergedConfig, EnsuredConfig
<1>4. config' = [config EXCEPT ![s] = IF validateProxyConfigForSave(merged) THEN <<merged>> ELSE @]
  BY DEF apiUpdateProxyService
<1> HIDE DEF merged
<1>5. ServicesTyped(status, config', rows)
  <2>1. ASSUME NEW x \in Services PROVE ServiceTyped(status[x], config'[x], rows[x])
    BY <1>2, <1>3, <1>4, OneService DEF ServicesTyped, ServiceTyped
  <2> QED BY <1>2, <1>4, <2>1 DEF ServicesTyped
<1> QED BY <1>1, <1>5 DEF Parts, apiUpdateProxyService, Quiet

LEMMA DeleteTyped ==
  ASSUME Parts, NEW t \in Threads, NEW s \in Services, apiDeleteProxyService(t, s)
  PROVE  Parts'
<1>1. ThreadsTyped(work')
  <2>1. ThreadsTyped(work) /\ Request(t, "remove", <<>>)
    BY DEF Parts, apiDeleteProxyService
  <2> QED BY <2>1, NoTasks, Asked
<1>2. ServicesTyped(status', config', rows')
  <2>1. ServicesTyped(status, config, rows)
    BY DEF Parts
  <2>2. config' = [config EXCEPT ![s] = <<>>] /\ status' = [status EXCEPT ![s] = "gone"] /\ rows' = [rows EXCEPT ![s] = <<>>]
    BY DEF apiDeleteProxyService
  <2>3. ServiceTyped("gone", <<>>, <<>>)
    BY DEF ServiceTyped
  <2> QED BY <2>1, <2>2, <2>3 DEF ServicesTyped
<1>3. CredTyped(cred')
  BY DEF Parts, CredTyped, AtMostOne, apiDeleteProxyService
<1> QED BY <1>1, <1>2, <1>3 DEF Parts, apiDeleteProxyService, Quiet

LEMMA AskPublishTyped ==
  ASSUME Parts, NEW t \in Threads, NEW s \in Services, NEW n \in Nodes, NEW port \in Ports,
         apiPublishProxyService(t, s, n, port)
  PROVE  Parts'
<1> DEFINE task == [Task("publish", "", s) EXCEPT !.nodes = <<n>>, !.port = port]
<1>1. ThreadsTyped(work) /\ Request(t, "publish", <<task>>)
  BY DEF Parts, apiPublishProxyService
<1>2. task \in Tasks
  BY PublishTasks, SitesAssumption
<1> HIDE DEF task
<1>3. <<task>> \in Seq(Tasks)
  BY <1>2
<1>4. ThreadsTyped(work')
  BY <1>1, <1>3, Asked
<1> QED BY <1>4 DEF Parts, apiPublishProxyService, panel, Quiet

LEMMA AskCertTyped ==
  ASSUME Parts, NEW t \in Threads, NEW s \in Services, apiIssueProxyServiceACME(t, s)
  PROVE  Parts'
<1> DEFINE task == Task("issue", "", s)
           w == [work[t] EXCEPT !.todo = <<task>>, !.at = "issue", !.cfg = config[s]]
<1>1. ThreadsTyped(work) /\ ServicesTyped(status, config, rows) /\ config[s] # <<>>
  BY DEF Parts, apiIssueProxyServiceACME
<1>2. task \in Tasks /\ task.op = "issue"
  BY ServiceTasks DEF Task
<1>3. config[s] = <<config[s][1]>> /\ IsConfig(config[s][1])
  BY <1>1, OneService
<1>4. work' = [work EXCEPT ![t] = w]
  BY DEF apiIssueProxyServiceACME
<1>5. /\ DOMAIN work[t] = {"todo", "at", "cfg", "nodes", "inb", "ok"} /\ work[t].ok \in BOOLEAN
      /\ work[t].nodes \in Seq([node : Nodes, port : Nat]) /\ AtMostOne(work[t].inb)
  BY <1>1, TodoTyped DEF ThreadTyped
<1> HIDE DEF task
<1>6. /\ DOMAIN w = {"todo", "at", "cfg", "nodes", "inb", "ok"} /\ w.todo = <<task>> /\ w.at = "issue"
      /\ w.cfg = config[s] /\ w.ok = work[t].ok /\ w.inb = work[t].inb /\ w.nodes = work[t].nodes
  BY <1>5
<1> HIDE DEF w
<1>7. w.todo \in Seq(Tasks) /\ Len(w.todo) = 1 /\ Head(w.todo) = task /\ w.todo # <<>>
  BY <1>2, <1>6
<1>8. ThreadTyped(w)
  BY <1>2, <1>3, <1>5, <1>6, <1>7 DEF ThreadTyped
<1>9. ThreadsTyped(work')
  BY <1>1, <1>4, <1>8, OneThread
<1> QED BY <1>9 DEF Parts, apiIssueProxyServiceACME, panel, Quiet

LEMMA Issuing ==
  ASSUME ThreadsTyped(work), NEW t \in Threads, At(t, "issue")
  PROVE  /\ Task1(t).op = "issue" /\ Task1(t).svc \in Services /\ Len(work[t].todo) = 1
         /\ work[t].cfg = <<work[t].cfg[1]>> /\ IsConfig(work[t].cfg[1])
<1>1. work[t].todo # <<>> /\ work[t].at = "issue" /\ ThreadTyped(work[t])
  BY TodoTyped DEF At
<1>2. /\ Task1(t).op = "issue" /\ Len(work[t].todo) = 1
      /\ work[t].cfg = <<work[t].cfg[1]>> /\ IsConfig(work[t].cfg[1])
  BY <1>1, InProgress DEF Task1
<1> QED BY <1>1, <1>2, TailTyped, FirstTask

LEMMA CertTyped ==
  ASSUME Parts, NEW t \in Threads, NEW cert, ACMEIssued(t, cert)
  PROVE  Parts'
<1> DEFINE s == Task1(t).svc
           merged == mergeACMEIntoConfigJSON(work[t].cfg[1], cert)
           list == [i \in DOMAIN rows[s] |-> [rows[s][i] EXCEPT !.uri = BuildShareURI(merged, rows[s][i].port)]]
<1>1. ThreadsTyped(work) /\ ServicesTyped(status, config, rows) /\ At(t, "issue") /\ work[t].todo # <<>>
  BY DEF Parts, ACMEIssued, At
<1>2. s \in Services /\ IsConfig(work[t].cfg[1])
  BY <1>1, Issuing
<1>3. IsConfig(merged)
  BY <1>2, IssuedConfig
<1>4. ThreadsTyped(work')
  <2>1. CASE Done(t)
    BY <1>1, <2>1, Finishes
  <2>2. CASE Become(t, <<Task("sync", "", s)>>)
    <3>2. Task("sync", "", s) \in Tasks
      BY <1>2, ServiceTasks
    <3>1. <<Task("sync", "", s)>> \in Seq(Tasks)
      BY <3>2, Few
    <3> QED BY <1>1, <2>2, <3>1, Becomes
  <2> QED BY <2>1, <2>2 DEF ACMEIssued
<1>5. owed' \subseteq Services
  BY <1>2 DEF Parts, ACMEIssued
<1>6. ServicesTyped(status, config, rows')
  <2>1. rows' = [rows EXCEPT ![s] = list]
    BY DEF ACMEIssued
  <2>2. ASSUME NEW i \in DOMAIN rows[s] PROVE RowTyped(list[i]) /\ list[i].node = rows[s][i].node
    <3>1. RowTyped(rows[s][i])
      BY <1>1, <1>2, OneService
    <3> DEFINE x == BuildShareURI(merged, rows[s][i].port)
    <3>2. list[i] = [rows[s][i] EXCEPT !.uri = x]
      OBVIOUS
    <3> HIDE DEF list, x
    <3> QED BY <3>1, <3>2 DEF RowTyped
  <2>3. DOMAIN list = DOMAIN rows[s] /\ list = [i \in DOMAIN rows[s] |-> list[i]]
    OBVIOUS
  <2> HIDE DEF list
  <2> QED BY <1>1, <1>2, <2>1, <2>2, <2>3, RowsKept
<1>7. ServicesTyped(status, config', rows')
  <2>1. config' = [config EXCEPT ![s] = IF @ = <<>> THEN @ ELSE <<merged>>]
    BY DEF ACMEIssued
  <2> HIDE DEF merged
  <2>2. ASSUME NEW x \in Services PROVE ServiceTyped(status[x], config'[x], rows'[x])
    BY <1>1, <1>2, <1>3, <1>6, <2>1 DEF ServicesTyped, ServiceTyped
  <2> QED BY <1>6, <2>1, <2>2 DEF ServicesTyped
<1> QED BY <1>4, <1>5, <1>7 DEF Parts, ACMEIssued

LEMMA RefusedTyped ==
  ASSUME Parts, NEW t \in Threads, ACMERefused(t)
  PROVE  Parts'
<1> DEFINE s == Task1(t).svc
<1>1. ThreadsTyped(work) /\ ServicesTyped(status, config, rows) /\ At(t, "issue") /\ work[t].todo # <<>> /\ Done(t)
  BY DEF Parts, ACMERefused, At
<1>2. s \in Services /\ work[t].cfg = <<work[t].cfg[1]>> /\ IsConfig(work[t].cfg[1])
  BY <1>1, Issuing
<1>3. ThreadsTyped(work')
  BY <1>1, Finishes
<1>4. ServicesTyped(status, config', rows)
  <2>1. config' = [config EXCEPT ![s] = IF @ = <<>> THEN @ ELSE work[t].cfg]
    BY DEF ACMERefused
  <2>2. ASSUME NEW x \in Services PROVE ServiceTyped(status[x], config'[x], rows[x])
    BY <1>1, <1>2, <2>1 DEF ServicesTyped, ServiceTyped
  <2> QED BY <1>1, <2>1, <2>2 DEF ServicesTyped
<1> QED BY <1>3, <1>4 DEF Parts, ACMERefused, Quiet

LEMMA RepublishTyped ==
  ASSUME Parts, NEW t \in Threads, republishProxyInstancesOnNode(t)
  PROVE  Parts'
<1> DEFINE n == Task1(t).on
           on == {s \in Services : RowOf(s, n) # {}}
           list == SetToSeq(on)
           tasks == [i \in DOMAIN list |-> [Task("publish", "kept", list[i]) EXCEPT !.nodes = <<n>>]]
<1>1. ThreadsTyped(work) /\ work[t].todo # <<>> /\ Task1(t).op = "republish"
  BY DEF Parts, republishProxyInstancesOnNode, At
<1>2. n \in Nodes /\ Tail(work[t].todo) \in Seq(Tasks)
  BY <1>1, TailTyped, FirstTask
<1>3. Become(t, tasks \o Tail(work[t].todo))
  BY DEF republishProxyInstancesOnNode
<1>4. IsFiniteSet(on) /\ on \subseteq Services
  BY SitesAssumption, FS_Subset
<1> HIDE DEF on, n
<1>5. list \in Seq(on) /\ DOMAIN list = 1 .. Len(list)
  BY <1>4, Listed
<1> HIDE DEF list
<1>6. Len(list) \in Nat /\ \A i \in DOMAIN list : list[i] \in Services
  BY <1>4, <1>5, Elements
<1>7. ASSUME NEW i \in 1 .. Len(list)
      PROVE  [Task("publish", "kept", list[i]) EXCEPT !.nodes = <<n>>] \in Tasks
  BY <1>2, <1>5, <1>6, KeptTasks
<1>8. tasks \in [1 .. Len(list) -> Tasks]
  BY <1>5, <1>7
<1>9. tasks \in Seq(Tasks)
  BY <1>6, <1>8, Listing
<1> HIDE DEF tasks
<1>10. ThreadsTyped(work')
  BY <1>1, <1>2, <1>3, <1>9, Joined, Becomes
<1> QED BY <1>10 DEF Parts, republishProxyInstancesOnNode, panel, Quiet

LEMMA ResyncTyped ==
  ASSUME Parts, NEW t \in Threads, NEW n \in Nodes, apiResyncNode(t, n)
  PROVE  Parts'
<1>1. ThreadsTyped(work) /\ Request(t, "resync", <<Task("dispatch", n, ""), Task("republish", n, "")>>)
  BY DEF Parts, apiResyncNode
<1>4. Task("dispatch", n, "") \in Tasks /\ Task("republish", n, "") \in Tasks
  BY NodeTasks
<1>2. <<Task("dispatch", n, ""), Task("republish", n, "")>> \in Seq(Tasks)
  BY <1>4, Few
<1>3. ThreadsTyped(work')
  BY <1>1, <1>2, Asked
<1> QED BY <1>3 DEF Parts, apiResyncNode, panel, Quiet

LEMMA FeedTyped ==
  ASSUME Parts, NEW u \in Users, loadSubExportNodes(u)
  PROVE  Parts' /\ \A x \in Services \X Users : cred[x] \subseteq cred'[x]
<1> DEFINE seen == {s \in Services : user[u] = "ok" /\ Holds(u, s) /\ \E i \in DOMAIN rows[s] : rows[s][i].status = "ready"}
<1>1. CredTyped(cred) /\ ServicesTyped(status, config, rows)
  BY DEF Parts
<1>2. cred' = [x \in Services \X Users |->
                 IF x[1] \in seen /\ x[2] = u THEN ensureUserProxyCred(cred, u, x[1], config[x[1]][1])[x] ELSE cred[x]]
  BY <1>1 DEF loadSubExportNodes, CredTyped
<1>3. ASSUME NEW s \in seen PROVE IsConfig(config[s][1])
  <2>1. DOMAIN rows[s] # {} /\ s \in Services
    OBVIOUS
  <2>2. rows[s] # <<>>
    BY <2>1
  <2> QED BY <1>1, <2>1, <2>2, OneService
<1> HIDE DEF seen
<1>4. ASSUME NEW x \in Services \X Users PROVE AtMostOne(cred'[x]) /\ cred[x] \subseteq cred'[x]
  <2>1. CASE x[1] \in seen /\ x[2] = u
    <3>1. cred'[x] = ensureUserProxyCred(cred, u, x[1], config[x[1]][1])[x]
      BY <1>2, <2>1
    <3> DEFINE c == config[x[1]][1]
               g == ensureUserProxyCred(cred, u, x[1], c)
    <3>2. IsConfig(c)
      BY <1>3, <2>1
    <3> HIDE DEF c
    <3>3. CredTyped(g) /\ \A y \in Services \X Users : cred[y] \subseteq g[y]
      BY <1>1, <3>2, EnsuredCred
    <3> HIDE DEF g
    <3> QED BY <3>1, <3>3 DEF CredTyped, c, g
  <2>2. CASE ~(x[1] \in seen /\ x[2] = u)
    BY <1>1, <1>2, <2>2 DEF CredTyped
  <2> QED BY <2>1, <2>2
<1>5. CredTyped(cred')
  BY <1>2, <1>4 DEF CredTyped
<1> QED BY <1>4, <1>5 DEF Parts, loadSubExportNodes, Quiet

-----------------------------------------------------------------------------
(* Type correctness: requests about rules and users                        *)

LEMMA RuleSaved ==
  ASSUME RulesTyped(rule), NEW r \in Rules, NEW u \in Users, NEW s \in Services \union {""}
  PROVE  RulesTyped([rule EXCEPT ![r] = [owner |-> u, svc |-> s]])
BY DEF RulesTyped

LEMMA RulesGone ==
  ASSUME RulesTyped(rule), NEW gone, RulesDropped(gone)
  PROVE  RulesTyped(rule')
BY DEF RulesTyped, RulesDropped

LEMMA UserSaved ==
  ASSUME UsersTyped(user), NEW u \in Users, NEW x \in {"ok", "expired", "disabled", "gone"}
  PROVE  UsersTyped([user EXCEPT ![u] = x])
BY DEF UsersTyped

LEMMA CreateRuleTyped ==
  ASSUME Parts, NEW t \in Threads, NEW r \in Rules, NEW u \in Users, NEW s \in Services, apiCreateRule(t, r, u, s)
  PROVE  Parts'
<1> DEFINE a == Task("dispatch", Entry[r], "")
           b == Task("sync", "", s)
           c == Task("plane", r, "")
<1>1. ThreadsTyped(work) /\ Request(t, "rule", <<a, b, c>>)
  BY DEF Parts, apiCreateRule
<1>2. a \in Tasks /\ b \in Tasks /\ c \in Tasks
  BY SitesAssumption, NodeTasks, ServiceTasks, RuleTasks
<1> HIDE DEF a, b, c
<1>3. ThreadsTyped(work')
  BY <1>1, <1>2, Few, Asked
<1>4. RulesTyped(rule')
  BY RuleSaved DEF Parts, apiCreateRule
<1> QED BY <1>3, <1>4 DEF Parts, apiCreateRule, Unsaved

LEMMA MoveTasks ==
  ASSUME RulesTyped(rule), NEW r \in Rules, NEW s \in Services \union {""}
  PROVE  LET tasks == <<Task("dispatch", Entry[r], "")>> \o Syncs({rule[r].svc, s} \ {""}) \o <<Task("plane", r, "")>> IN
         tasks \in Seq(Tasks) /\ \A x \in {rule[r].svc, s} \ {""} : Notes(tasks, x)
<1> DEFINE a == Task("dispatch", Entry[r], "")
           c == Task("plane", r, "")
           set == {rule[r].svc, s} \ {""}
           tasks == <<a>> \o Syncs(set) \o <<c>>
<1>1. a \in Tasks /\ c \in Tasks
  BY SitesAssumption, NodeTasks, RuleTasks
<1>2. set \in SUBSET Services
  BY OneRule
<1> HIDE DEF a, c, set
<1>3. <<a>> \in Seq(Tasks) /\ <<c>> \in Seq(Tasks)
  BY <1>1, Few
<1>4. Syncs(set) \in Seq(Tasks) /\ \A x \in set : Notes(Syncs(set), x)
  BY <1>2, SyncTasks
<1>5. <<a>> \o Syncs(set) \in Seq(Tasks) /\ \A x \in set : Notes(<<a>> \o Syncs(set), x)
  BY <1>3, <1>4, NotedLater
<1>6. tasks \in Seq(Tasks) /\ \A x \in set : Notes(tasks, x)
  BY <1>3, <1>5, NotedLater
<1> QED BY <1>6 DEF a, c, set

LEMMA UpdateRuleTyped ==
  ASSUME Parts, NEW t \in Threads, NEW r \in Rules, NEW u \in Users, NEW s \in Services \union {""}, apiUpdateRule(t, r, u, s)
  PROVE  Parts'
<1> DEFINE tasks == <<Task("dispatch", Entry[r], "")>> \o Syncs({rule[r].svc, s} \ {""}) \o <<Task("plane", r, "")>>
<1>1. ThreadsTyped(work) /\ RulesTyped(rule) /\ Request(t, "move", tasks)
  BY DEF Parts, apiUpdateRule
<1>2. tasks \in Seq(Tasks)
  BY <1>1, MoveTasks
<1> HIDE DEF tasks
<1>3. ThreadsTyped(work')
  BY <1>1, <1>2, Asked
<1>4. RulesTyped(rule')
  BY <1>1, RuleSaved DEF apiUpdateRule
<1> QED BY <1>3, <1>4 DEF Parts, apiUpdateRule, Unsaved

LEMMA AskDeleteTyped ==
  ASSUME Parts, NEW t \in Threads, NEW r \in Rules, apiDeleteRule(t, r)
  PROVE  Parts'
<1> DEFINE a == Task("stop", r, "")
           b == Task("drop", r, "")
           c == Task("dispatch", Entry[r], "")
           set == {rule[r].svc} \ {""}
<1>1. ThreadsTyped(work) /\ RulesTyped(rule) /\ Request(t, "delete", <<a, b, c>> \o Syncs(set))
  BY DEF Parts, apiDeleteRule
<1>2. a \in Tasks /\ b \in Tasks /\ c \in Tasks
  BY SitesAssumption, NodeTasks, RuleTasks
<1>3. set \in SUBSET Services
  BY <1>1, OneRule
<1> HIDE DEF a, b, c, set
<1>4. <<a, b, c>> \in Seq(Tasks)
  BY <1>2, Few
<1>5. Syncs(set) \in Seq(Tasks)
  BY <1>3, SyncTasks
<1>6. <<a, b, c>> \o Syncs(set) \in Seq(Tasks)
  BY <1>4, <1>5, Joined
<1>7. ThreadsTyped(work')
  BY <1>1, <1>6, Asked
<1> QED BY <1>7 DEF Parts, apiDeleteRule, Unsaved

LEMMA DropTyped ==
  ASSUME Parts, NEW t \in Threads, DeleteRule(t)
  PROVE  Parts'
<1>1. ThreadsTyped(work) /\ work[t].todo # <<>> /\ Task1(t).op = "drop" /\ RulesTyped(rule) /\ Done(t)
  BY DEF Parts, DeleteRule, At
<1>2. Task1(t).on \in Rules
  BY <1>1, TailTyped, FirstTask
<1>3. rule[Task1(t).on].svc \in Services \union {""}
  BY <1>1, <1>2, OneRule
<1>4. owed' \subseteq Services
  BY <1>3 DEF Parts, DeleteRule
<1>5. ThreadsTyped(work')
  BY <1>1, Finishes
<1>6. RulesTyped(rule')
  BY <1>1, RulesGone DEF DeleteRule
<1> QED BY <1>4, <1>5, <1>6 DEF Parts, DeleteRule, Unsaved

LEMMA EntryNodes ==
  ASSUME NEW set \in SUBSET Rules
  PROVE  {Entry[r] : r \in set} \in SUBSET Nodes
BY SitesAssumption

LEMMA RevokeTasks ==
  ASSUME NEW set \in SUBSET Nodes, NEW services \in SUBSET Services
  PROVE  /\ Dispatches(set) \o Syncs(services) \in Seq(Tasks)
         /\ Syncs(services) \o Dispatches(set) \in Seq(Tasks)
         /\ \A s \in services : Notes(Dispatches(set) \o Syncs(services), s) /\ Notes(Syncs(services) \o Dispatches(set), s)
<1>1. Dispatches(set) \in Seq(Tasks)
  BY DispatchTasks
<1>2. Syncs(services) \in Seq(Tasks) /\ \A s \in services : Notes(Syncs(services), s)
  BY SyncTasks
<1> QED BY <1>1, <1>2, NotedLater

LEMMA RevokeTyped ==
  ASSUME Parts, NEW t \in Threads, NEW u \in Users, NEW s \in Services, apiRevokeProxyService(t, u, s)
  PROVE  Parts'
<1> DEFINE gone == {r \in Rules : rule[r] = [owner |-> u, svc |-> s]}
           set == {Entry[r] : r \in gone}
<1>1. ThreadsTyped(work) /\ RulesTyped(rule) /\ Request(t, "revoke", Dispatches(set) \o Syncs({s})) /\ RulesDropped(gone)
  BY DEF Parts, apiRevokeProxyService
<1>2. set \in SUBSET Nodes /\ {s} \in SUBSET Services
  BY EntryNodes
<1> HIDE DEF set, gone
<1>3. ThreadsTyped(work')
  BY <1>1, <1>2, RevokeTasks, Asked
<1>4. RulesTyped(rule')
  BY <1>1, RulesGone
<1> QED BY <1>3, <1>4 DEF Parts, apiRevokeProxyService, Unsaved

LEMMA RevokeNodeTyped ==
  ASSUME Parts, NEW t \in Threads, NEW u \in Users, NEW n \in Nodes, apiRevokeNode(t, u, n)
  PROVE  Parts'
<1> DEFINE gone == {r \in Rules : rule[r].owner = u /\ Entry[r] = n}
<1>1. ThreadsTyped(work) /\ RulesTyped(rule) /\ Request(t, "revokeNode", <<Task("dispatch", n, "")>>) /\ RulesDropped(gone)
  BY DEF Parts, apiRevokeNode
<1>2. <<Task("dispatch", n, "")>> \in Seq(Tasks)
  BY NodeTasks, Few
<1>3. ThreadsTyped(work')
  BY <1>1, <1>2, Asked
<1>4. RulesTyped(rule')
  BY <1>1, RulesGone
<1>5. {rule[r].svc : r \in {x \in gone : rule[x].svc # ""}} \subseteq Services
  BY <1>1, OneRule
<1>6. owed' \subseteq Services
  BY <1>5 DEF Parts, apiRevokeNode
<1> QED BY <1>3, <1>4, <1>6 DEF Parts, apiRevokeNode, Unsaved

LEMMA StandingTasks ==
  ASSUME NEW users, NEW u
  PROVE  /\ DistinctUserNodes(users) \in SUBSET Nodes /\ ListProxyServiceIDsForUserRules(u) \in SUBSET Services
         /\ ListExpiredUserProxyServiceIDs \in SUBSET Services
BY SitesAssumption DEF DistinctUserNodes, ListProxyServiceIDsForUserRules, ListExpiredUserProxyServiceIDs

LEMMA ToggleTyped ==
  ASSUME Parts, NEW t \in Threads, NEW u \in Users, apiToggleUser(t, u)
  PROVE  Parts'
<1>1. ThreadsTyped(work) /\ UsersTyped(user)
      /\ Request(t, "toggle", Dispatches(DistinctUserNodes({u})) \o Syncs(ListProxyServiceIDsForUserRules(u)))
  BY DEF Parts, apiToggleUser
<1>2. ThreadsTyped(work')
  BY <1>1, StandingTasks, RevokeTasks, Asked
<1>3. UsersTyped(user')
  BY <1>1, UserSaved DEF apiToggleUser
<1> QED BY <1>2, <1>3 DEF Parts, apiToggleUser, Unsaved

LEMMA EraseTyped ==
  ASSUME Parts, NEW t \in Threads, NEW u \in Users, apiDeleteUser(t, u)
  PROVE  Parts'
<1>1. ThreadsTyped(work) /\ UsersTyped(user) /\ RulesTyped(rule) /\ CredTyped(cred)
      /\ Request(t, "erase", Dispatches(DistinctUserNodes({u})) \o Syncs(ListProxyServiceIDsForUserRules(u)))
  BY DEF Parts, apiDeleteUser
<1>2. ThreadsTyped(work')
  BY <1>1, StandingTasks, RevokeTasks, Asked
<1>3. UsersTyped(user')
  BY <1>1, UserSaved DEF apiDeleteUser
<1>4. RulesTyped(rule')
  BY <1>1, RulesGone DEF apiDeleteUser
<1>5. CredTyped(cred')
  BY <1>1 DEF CredTyped, AtMostOne, apiDeleteUser
<1> QED BY <1>2, <1>3, <1>4, <1>5 DEF Parts, apiDeleteUser, Unsaved

LEMMA QuotaTyped ==
  ASSUME Parts, NEW t \in Threads, NEW u \in Users, enforceUserQuota(t, u)
  PROVE  Parts'
<1>1. ThreadsTyped(work) /\ UsersTyped(user)
      /\ Request(t, "quota", Syncs(ListProxyServiceIDsForUserRules(u)) \o Dispatches(DistinctUserNodes({u})))
  BY DEF Parts, enforceUserQuota
<1>2. ThreadsTyped(work')
  BY <1>1, StandingTasks, RevokeTasks, Asked
<1>3. UsersTyped(user')
  BY <1>1, UserSaved DEF enforceUserQuota
<1> QED BY <1>2, <1>3 DEF Parts, enforceUserQuota, Unsaved

LEMMA CycleTyped ==
  ASSUME Parts, NEW t \in Threads, NEW u \in Users, trafficCycleEnforcer(t, u)
  PROVE  Parts'
<1>1. ThreadsTyped(work) /\ UsersTyped(user)
      /\ Request(t, "cycle", Dispatches(DistinctUserNodes({u})) \o <<Task("user", u, "")>>)
  BY DEF Parts, trafficCycleEnforcer
<1>2. Dispatches(DistinctUserNodes({u})) \in Seq(Tasks) /\ <<Task("user", u, "")>> \in Seq(Tasks)
  BY StandingTasks, DispatchTasks, UserTasks, Few
<1>3. ThreadsTyped(work')
  BY <1>1, <1>2, Joined, Asked
<1>4. UsersTyped(user')
  BY <1>1, UserSaved DEF trafficCycleEnforcer
<1> QED BY <1>3, <1>4 DEF Parts, trafficCycleEnforcer, Unsaved

LEMMA SyncUserTyped ==
  ASSUME Parts, NEW t \in Threads, syncProxyInboundForUser(t)
  PROVE  Parts'
<1> DEFINE set == ListProxyServiceIDsForUserRules(Task1(t).on)
<1>1. ThreadsTyped(work) /\ work[t].todo # <<>> /\ Become(t, Syncs(set) \o Tail(work[t].todo))
  BY DEF Parts, syncProxyInboundForUser, At
<1>2. Syncs(set) \in Seq(Tasks) /\ Tail(work[t].todo) \in Seq(Tasks)
  BY <1>1, StandingTasks, SyncTasks, TailTyped
<1> HIDE DEF set
<1>3. ThreadsTyped(work')
  BY <1>1, <1>2, Joined, Becomes
<1> QED BY <1>3 DEF Parts, syncProxyInboundForUser, Unsaved

LEMMA ExtendTyped ==
  ASSUME Parts, NEW t \in Threads, NEW u \in Users, apiSetUserExpiry(t, u)
  PROVE  Parts'
<1>1. ThreadsTyped(work) /\ UsersTyped(user) /\ Request(t, "extend", Dispatches(DistinctUserNodes({u})))
  BY DEF Parts, apiSetUserExpiry
<1>2. ThreadsTyped(work')
  BY <1>1, StandingTasks, DispatchTasks, Asked
<1>3. UsersTyped(user')
  BY <1>1, UserSaved DEF apiSetUserExpiry
<1>4. owed' \subseteq Services
  BY StandingTasks DEF Parts, apiSetUserExpiry
<1> QED BY <1>2, <1>3, <1>4 DEF Parts, apiSetUserExpiry, Unsaved

LEMMA ExpireTyped ==
  ASSUME Parts, NEW u \in Users, Expire(u)
  PROVE  Parts'
<1>1. UsersTyped(user')
  BY UserSaved DEF Parts, Expire
<1> QED BY <1>1 DEF Parts, Expire, Unsaved

LEMMA EnforceTyped ==
  ASSUME Parts, expiryEnforcer
  PROVE  Parts'
<1> DEFINE late == {u \in Users : user[u] = "expired"}
<1>1. ThreadsTyped(work) /\ Enforcer \in Threads
      /\ Become(Enforcer, Syncs(ListExpiredUserProxyServiceIDs) \o Dispatches(DistinctUserNodes(late)))
  BY DEF Parts, expiryEnforcer, Threads
<1> HIDE DEF late
<1>2. ThreadsTyped(work')
  BY <1>1, StandingTasks, RevokeTasks, Becomes
<1> QED BY <1>2 DEF Parts, expiryEnforcer, Unsaved

LEMMA AgentTyped ==
  ASSUME Parts, NEW n \in Nodes, Agent(n)
  PROVE  Parts'
BY DEF Parts, Agent, panel

-----------------------------------------------------------------------------
(* Type correctness: every step                                            *)

LEMMA MidPublish ==
  ASSUME ThreadsTyped(work), NEW t \in Threads, NEW at \in {"save", "node", "overlay", "mark"}, At(t, at)
  PROVE  Task1(t).op \in {"sync", "publish"}
BY TodoTyped, InProgress DEF At, Task1

LEMMA PublishTyped ==
  ASSUME Parts, NEW t \in Threads, Publish(t)
  PROVE  Parts'
<1>1. CASE PublishRead(t)
  BY <1>1, ReadTyped
<1>2. CASE PublishSave(t)
  BY <1>2, SaveTyped
<1>3. CASE PublishNode(t)
  BY <1>3, MidPublish, NodeTyped DEF PublishNode, Parts
<1>4. CASE PublishOverlay(t)
  BY <1>4, MidPublish, OverlayTyped DEF PublishOverlay, Parts
<1>5. CASE applyProxyInstance(t)
  BY <1>5, ApplyTyped
<1>6. CASE UpdateProxyInstanceDeploy(t)
  BY <1>6, DeployTyped
<1>7. CASE RecomputeProxyServiceStatus(t)
  BY <1>7, MidPublish, RecomputeTyped DEF RecomputeProxyServiceStatus, Parts
<1> QED BY <1>1, <1>2, <1>3, <1>4, <1>5, <1>6, <1>7 DEF Publish

LEMMA StepTyped ==
  ASSUME Parts, NEW t \in Threads, Step(t)
  PROVE  Parts'
<1>1. CASE Publish(t)
  BY <1>1, PublishTyped
<1>2. CASE deployRuleProtocolPlane(t) \/ deployApply(t) \/ stopRuleProtocolPlane(t)
  BY <1>2, DeployPlaneTyped, DeployApplyTyped, StopTyped
<1>3. CASE dispatchToNode(t) \/ republishProxyInstancesOnNode(t) \/ syncProxyInboundForUser(t)
  BY <1>3, DispatchTyped, RepublishTyped, SyncUserTyped
<1>4. CASE DeleteRule(t) \/ ACMERefused(t)
  BY <1>4, DropTyped, RefusedTyped
<1>5. CASE \E cert \in Issued : ACMEIssued(t, cert)
  BY <1>5, CertTyped
<1> QED BY <1>1, <1>2, <1>3, <1>4, <1>5 DEF Step

LEMMA AskTyped ==
  ASSUME Parts, NEW t \in Admins, Ask(t)
  PROVE  Parts'
<1>0. t \in Threads
  BY DEF Threads
<1>1. CASE \E s \in Services :
             \/ \E c \in Forms[s] : apiCreateProxyService(t, s, c) \/ apiUpdateProxyService(t, s, c)
             \/ apiDeleteProxyService(t, s) \/ apiIssueProxyServiceACME(t, s)
             \/ \E n \in Nodes, port \in Ports : apiPublishProxyService(t, s, n, port)
  BY <1>0, <1>1, CreateTyped, UpdateTyped, DeleteTyped, AskCertTyped, AskPublishTyped
<1>2. CASE \E n \in Nodes : apiResyncNode(t, n)
  BY <1>0, <1>2, ResyncTyped
<1>3. CASE \E r \in Rules :
             \/ apiDeleteRule(t, r)
             \/ \E u \in Users : (\E s \in Services : apiCreateRule(t, r, u, s))
                                   \/ \E s \in Services \union {""} : apiUpdateRule(t, r, u, s)
  BY <1>0, <1>3, AskDeleteTyped, CreateRuleTyped, UpdateRuleTyped
<1>4. CASE \E u \in Users : \/ \E s \in Services : apiRevokeProxyService(t, u, s)
                            \/ \E n \in Nodes : apiRevokeNode(t, u, n)
  BY <1>0, <1>4, RevokeTyped, RevokeNodeTyped
<1>5. CASE \E u \in Users :
             \/ apiToggleUser(t, u) \/ apiDeleteUser(t, u) \/ enforceUserQuota(t, u) \/ trafficCycleEnforcer(t, u)
             \/ apiSetUserExpiry(t, u)
  BY <1>0, <1>5, ToggleTyped, EraseTyped, QuotaTyped, CycleTyped, ExtendTyped
<1> QED BY <1>1, <1>2, <1>3, <1>4, <1>5 DEF Ask

LEMMA NextTyped ==
  ASSUME Parts, Next
  PROVE  Parts'
<1>1. CASE \E t \in Threads : Step(t)
  BY <1>1, StepTyped
<1>2. CASE \E t \in Admins : Ask(t)
  BY <1>2, AskTyped
<1>3. CASE expiryEnforcer
  BY <1>3, EnforceTyped
<1>4. CASE \E u \in Users : Expire(u) \/ loadSubExportNodes(u)
  BY <1>4, ExpireTyped, FeedTyped
<1>5. CASE \E n \in Nodes : Agent(n)
  BY <1>5, AgentTyped
<1> QED BY <1>1, <1>2, <1>3, <1>4, <1>5 DEF Next

LEMMA InitTyped ==
  ASSUME Init
  PROVE  Parts
<1>1. PICK p \in Panel :
        /\ config = p.config /\ status = p.status /\ rows = p.rows /\ rule = p.rule /\ user = p.user
        /\ cred = p.cred /\ runs = p.runs /\ online = p.online /\ cored = p.cored
  BY DEF Init
<1>2. PanelTyped(p)
  BY PanelAssumption
<1>3. /\ RulesTyped(rule) /\ UsersTyped(user) /\ CredTyped(cred) /\ RunsTyped(runs)
      /\ ServicesTyped(status, config, rows) /\ online \subseteq Nodes /\ cored \subseteq Nodes
  BY <1>1, <1>2 DEF PanelTyped, RulesTyped, UsersTyped, CredTyped, RunsTyped, ServicesTyped
<1>4. ThreadsTyped(work)
  <2>1. work = [t \in Threads |-> Resting]
    BY DEF Init
  <2>2. [Resting EXCEPT !.todo = <<>>] = Resting
    BY DEF Resting
  <2>3. ThreadTyped(Resting)
    BY <2>2, NoTasks, RestingTyped
  <2> QED BY <2>1, <2>3 DEF ThreadsTyped
<1> QED BY <1>3, <1>4 DEF Parts, Init

\* The type invariant: what the panel keeps and what its threads have in hand fit
\* each other whatever requests, publishes and agents do.
THEOREM ServicesTypeCorrect == Spec => []TypeOK
<1>1. Init => TypeOK
  BY InitTyped, PartsOfType
<1>2. TypeOK /\ [Next]_vars => TypeOK'
  <2>1. ASSUME TypeOK, Next PROVE TypeOK'
    BY <2>1, NextTyped, PartsOfType
  <2>2. ASSUME TypeOK, UNCHANGED vars PROVE TypeOK'
    <3>1. Parts
      BY <2>2, PartsOfType
    <3>2. Parts'
      BY <2>2, <3>1 DEF Parts, vars
    <3> QED BY <3>2, PartsOfType
  <2> QED BY <2>1, <2>2
<1> QED BY <1>1, <1>2, PTL DEF Spec

(***************************************************************************)
(* Who may open a published instance. The invariant is about each service  *)
(* in turn: what its publishers have in hand, and what is still to come.   *)
(***************************************************************************)

\* A thread publishes a service; it has a sync of it before it.
Publishes(w, s) == w.todo # <<>> /\ w.at # "next" /\ Head(w.todo).svc = s /\ Head(w.todo).op \in {"sync", "publish"}
Awaits(w, s) ==
  \E i \in DOMAIN w.todo : w.todo[i].op = "sync" /\ w.todo[i].svc = s /\ (i = 1 => w.at = "next")
InHand(w) == w.at \in {"overlay", "apply", "mark"}
\* The nodes a publisher will still write.
Ahead(w) == {w.nodes[i].node : i \in {j \in DOMAIN w.nodes : ~InHand(w) \/ j > 1}}

Due(s) == \E t \in Threads : Awaits(work[t], s)
Settling(s) == s \notin owed /\ s \notin crossed /\ ~Due(s)

\* The node in hand has its row.
Rowed(s) ==
  \A t \in Threads : Publishes(work[t], s) /\ InHand(work[t]) =>
    \E i \in DOMAIN rows[s] : rows[s][i].node = work[t].nodes[1].node
\* Unless two have crossed a publisher is alone, and the row it has in hand is pending.
Lone(s) ==
  /\ \A t, u \in Threads : Publishes(work[t], s) /\ Publishes(work[u], s) => t = u
  /\ \A t \in Threads : Publishes(work[t], s) /\ InHand(work[t]) =>
       \A i \in DOMAIN rows[s] : rows[s][i].node = work[t].nodes[1].node => rows[s][i].status = "pending"
\* With nothing left to another publish, what is on its way or was just taken lets
\* nobody else in, and a ready instance is locked or will be written again.
Bound(s) ==
  \A t \in Threads : Publishes(work[t], s) =>
    /\ work[t].at = "apply" => Harmless(Found, s, work[t].inb)
    /\ work[t].at = "mark" /\ work[t].ok => Harmless(Found, s, runs[Inst(s, work[t].nodes[1].node)])
Covered(s) ==
  \A i \in DOMAIN rows[s] : rows[s][i].status = "ready" =>
    \/ Harmless(Found, s, runs[Inst(s, rows[s][i].node)])
    \/ \E t \in Threads : Publishes(work[t], s) /\ Task1(t).op = "sync" /\ rows[s][i].node \in Ahead(work[t])
Unpublished(s) == status[s] = "none" => \A t \in Threads : ~Publishes(work[t], s)
Agreed(s) == status[s] = Recomputed(s) \/ \E t \in Threads : Publishes(work[t], s)
LockInv(s) ==
  /\ Unpublished(s)
  /\ config[s] # <<>> =>
       /\ Rowed(s) /\ Agreed(s)
       /\ s \notin crossed => Lone(s)
       /\ Settling(s) => Bound(s) /\ Covered(s)
IInv == TypeOK /\ \A s \in Services : LockInv(s)

-----------------------------------------------------------------------------
(* Steps that leave the lock alone                                         *)

\* What leaves the lock of a service alone.
RowsSame(s) ==
  DOMAIN rows'[s] = DOMAIN rows[s]
  /\ \A i \in DOMAIN rows[s] : rows'[s][i].node = rows[s][i].node /\ rows'[s][i].status = rows[s][i].status
PublishersSame(s) == \A t \in Threads : Publishes(work[t], s) \/ Publishes(work'[t], s) => work'[t] = work[t]
SlotsSame(s) == \A n \in Nodes : runs'[Inst(s, n)] = runs[Inst(s, n)]
Grows(s) ==
  \A u \in Entitled(Found, s) : u \in Entitled(Found', s) /\ cred[<<s, u>>] \subseteq cred'[<<s, u>>]
Lasting(s) ==
  /\ status'[s] = "none" => status[s] = "none"
  /\ config'[s] # <<>> => config[s] # <<>> /\ status'[s] = status[s] /\ RowsSame(s)

LEMMA HarmlessStays ==
  ASSUME NEW s, Grows(s), NEW inbs, Harmless(Found, s, inbs)
  PROVE  Harmless(Found', s, inbs)
<1>1. /\ Found.cred = cred /\ Found'.cred = cred'
  BY DEF Found
<1>2. UNION {Found.cred[<<s, u>>] : u \in Entitled(Found, s)} \subseteq UNION {Found'.cred[<<s, u>>] : u \in Entitled(Found', s)}
  BY <1>1 DEF Grows
<1> QED BY <1>2 DEF Harmless

LEMMA RecomputedSame ==
  ASSUME NEW s, RowsSame(s)
  PROVE  Recomputed(s)' = Recomputed(s)
<1>1. {rows'[s][i].status : i \in DOMAIN rows'[s]} = {rows[s][i].status : i \in DOMAIN rows[s]}
  BY DEF RowsSame
<1> QED BY <1>1 DEF Recomputed, RecomputedOf

LEMMA InHandNode ==
  ASSUME ThreadsTyped(work), NEW s, NEW t \in Threads, Publishes(work[t], s), InHand(work[t])
  PROVE  work[t].nodes # <<>> /\ work[t].nodes[1].node \in Nodes
<1>1. work[t].todo # <<>> /\ work[t].at # "next" /\ Task1(t).op \in {"sync", "publish"}
  BY DEF Publishes, Task1
<1>2. work[t].nodes # <<>>
  BY <1>1, Publisher DEF InHand
<1> QED BY <1>1, <1>2, Publisher

LEMMA Undisturbed ==
  ASSUME Parts, NEW s \in Services, LockInv(s), Lasting(s), PublishersSame(s), SlotsSame(s),
         s \notin crossed' => s \notin crossed, Settling(s)' => Settling(s) /\ Grows(s)
  PROVE  LockInv(s)'
<1>1. Unpublished(s)'
  BY DEF LockInv, Unpublished, Lasting, PublishersSame
<1>2. ASSUME config'[s] # <<>>
      PROVE  (/\ Rowed(s) /\ Agreed(s)
              /\ s \notin crossed => Lone(s)
              /\ Settling(s) => Bound(s) /\ Covered(s))'
  <2>1. config[s] # <<>> /\ status'[s] = status[s] /\ RowsSame(s)
    BY <1>2 DEF Lasting
  <2>2. Rowed(s) /\ Agreed(s) /\ (s \notin crossed => Lone(s)) /\ (Settling(s) => Bound(s) /\ Covered(s))
    BY <2>1 DEF LockInv
  <2>3. \A t \in Threads : (Publishes(work[t], s) <=> Publishes(work'[t], s)) /\ (Publishes(work'[t], s) => work'[t] = work[t])
    BY DEF PublishersSame
  <2>4. Rowed(s)'
    BY <2>1, <2>2, <2>3 DEF Rowed, RowsSame
  <2>5. Agreed(s)'
    BY <2>1, <2>2, <2>3, RecomputedSame DEF Agreed
  <2>6. ASSUME s \notin crossed' PROVE Lone(s)'
    <3>1. Lone(s)
      BY <2>2, <2>6
    <3> QED BY <2>1, <2>3, <3>1 DEF Lone, RowsSame
  <2>7. ASSUME Settling(s)' PROVE Bound(s)' /\ Covered(s)'
    <3>1. Bound(s) /\ Covered(s) /\ Grows(s)
      BY <2>2, <2>7
    <3>2. \A n \in Nodes : Harmless(Found, s, runs[Inst(s, n)]) => Harmless(Found', s, runs'[Inst(s, n)])
      BY <3>1, HarmlessStays DEF SlotsSame
    <3>3. Bound(s)'
      <4> SUFFICES ASSUME NEW t \in Threads, Publishes(work'[t], s)
                   PROVE  /\ work'[t].at = "apply" => Harmless(Found', s, work'[t].inb)
                          /\ work'[t].at = "mark" /\ work'[t].ok => Harmless(Found', s, runs'[Inst(s, work'[t].nodes[1].node)])
        BY DEF Bound
      <4>1. work'[t] = work[t] /\ Publishes(work[t], s)
        BY <2>3
      <4>2. /\ work[t].at = "apply" => Harmless(Found, s, work[t].inb)
            /\ work[t].at = "mark" /\ work[t].ok => Harmless(Found, s, runs[Inst(s, work[t].nodes[1].node)])
        BY <3>1, <4>1 DEF Bound
      <4>3. work[t].at = "mark" => work[t].nodes[1].node \in Nodes
        BY <4>1, InHandNode DEF InHand, Parts
      <4> QED BY <3>1, <3>2, <4>1, <4>2, <4>3, HarmlessStays
    <3>4. Covered(s)'
      <4> SUFFICES ASSUME NEW i \in DOMAIN rows'[s], rows'[s][i].status = "ready"
                   PROVE  \/ Harmless(Found', s, runs'[Inst(s, rows'[s][i].node)])
                          \/ \E t \in Threads : Publishes(work'[t], s) /\ Task1(t)'.op = "sync"
                                                 /\ rows'[s][i].node \in Ahead(work'[t])
        BY DEF Covered
      <4>1. i \in DOMAIN rows[s] /\ rows[s][i].status = "ready" /\ rows'[s][i].node = rows[s][i].node
        BY <2>1 DEF RowsSame
      <4>2. rows[s][i].node \in Nodes
        BY <4>1, OneService DEF RowTyped, Parts
      <4>3. CASE Harmless(Found, s, runs[Inst(s, rows[s][i].node)])
        BY <3>2, <4>1, <4>2, <4>3
      <4>4. CASE \E t \in Threads : Publishes(work[t], s) /\ Task1(t).op = "sync" /\ rows[s][i].node \in Ahead(work[t])
        BY <2>3, <4>1, <4>4 DEF Task1
      <4> QED BY <3>1, <4>1, <4>3, <4>4 DEF Covered
    <3> QED BY <3>3, <3>4
  <2> QED BY <2>4, <2>5, <2>6, <2>7
<1> QED BY <1>1, <1>2 DEF LockInv

\* Threads that publish nothing of the service, before and after.
LEMMA OthersSame ==
  ASSUME ThreadsTyped(work), NEW t \in Threads, NEW s, NEW w, work' = [work EXCEPT ![t] = w],
         ~Publishes(work[t], s), ~Publishes(w, s)
  PROVE  PublishersSame(s) /\ ((Awaits(work[t], s) => Awaits(w, s)) => (Due(s) => Due(s)'))
<1>1. DOMAIN work = Threads
  BY DEF ThreadsTyped
<1>2. \A u \in Threads : work'[u] = IF u = t THEN w ELSE work[u]
  BY <1>1
<1> QED BY <1>2 DEF PublishersSame, Due

LEMMA NotedDue ==
  ASSUME NEW tasks, NEW s, Notes(tasks, s)
  PROVE  Awaits([Resting EXCEPT !.todo = tasks], s)
BY DEF Notes, Awaits, Resting

LEMMA QuietThread ==
  ASSUME NEW tasks, NEW s
  PROVE  ~Publishes([Resting EXCEPT !.todo = tasks], s)
BY DEF Publishes, Resting

LEMMA AtRest ==
  ASSUME NEW s
  PROVE  ~Publishes(Resting, s) /\ ~Awaits(Resting, s)
BY DEF Publishes, Awaits, Resting

\* A request begins.
LEMMA FromRest ==
  ASSUME ThreadsTyped(work), NEW t \in Threads, work[t] = Resting, NEW tasks, Become(t, tasks), NEW s
  PROVE  PublishersSame(s) /\ (Due(s) => Due(s)') /\ (Notes(tasks, s) => Due(s)')
<1> DEFINE w == [Resting EXCEPT !.todo = tasks]
<1>1. work' = [work EXCEPT ![t] = w]
  BY DEF Become
<1>2. ~Publishes(work[t], s) /\ ~Awaits(work[t], s) /\ ~Publishes(w, s)
  BY AtRest, QuietThread
<1>3. Notes(tasks, s) => Awaits(w, s)
  BY NotedDue
<1> HIDE DEF w
<1>4. PublishersSame(s) /\ (Due(s) => Due(s)')
  BY <1>1, <1>2, OthersSame
<1>5. work'[t] = w
  BY <1>1 DEF ThreadsTyped
<1> QED BY <1>3, <1>4, <1>5 DEF Due

\* A thread turns to its next task, or puts others before it.
LEMMA FromNext ==
  ASSUME ThreadsTyped(work), NEW t \in Threads, work[t].todo # <<>>, NEW s,
         ~(Task1(t).op \in {"sync", "publish"} /\ Task1(t).svc = s), NEW first \in Seq(Tasks),
         Become(t, first \o Tail(work[t].todo))
  PROVE  PublishersSame(s) /\ (Due(s) => Due(s)') /\ (Notes(first, s) => Due(s)')
<1> DEFINE tasks == first \o Tail(work[t].todo)
           w == [Resting EXCEPT !.todo = tasks]
<1>1. work' = [work EXCEPT ![t] = w]
  BY DEF Become
<1>2. ~Publishes(work[t], s)
  BY DEF Publishes, Task1
<1>3. ~Publishes(w, s)
  BY QuietThread
<1>4. work[t].todo \in Seq(Tasks) /\ Tail(work[t].todo) \in Seq(Tasks)
  BY TodoTyped, TailTyped
<1>5. ASSUME Awaits(work[t], s) PROVE Notes(Tail(work[t].todo), s)
  <2>1. PICK i \in DOMAIN work[t].todo : work[t].todo[i].op = "sync" /\ work[t].todo[i].svc = s
    BY <1>5 DEF Awaits
  <2>2. i # 1
    BY <2>1, TailTyped
  <2>3. i - 1 \in DOMAIN Tail(work[t].todo) /\ Tail(work[t].todo)[i - 1] = work[t].todo[i]
    BY <1>4, <2>1, <2>2, TailOf
  <2> QED BY <2>1, <2>3 DEF Notes
<1>6. Notes(Tail(work[t].todo), s) \/ Notes(first, s) => Notes(tasks, s)
  BY <1>4, NotedLater
<1>7. Notes(tasks, s) => Awaits(w, s)
  BY NotedDue
<1> HIDE DEF tasks, w
<1>8. PublishersSame(s) /\ (Due(s) => Due(s)')
  BY <1>1, <1>2, <1>3, <1>5, <1>6, <1>7, OthersSame
<1>9. work'[t] = w
  BY <1>1 DEF ThreadsTyped
<1> QED BY <1>6, <1>7, <1>8, <1>9 DEF Due

LEMMA FromDone ==
  ASSUME ThreadsTyped(work), NEW t \in Threads, work[t].todo # <<>>, NEW s,
         ~(Task1(t).op \in {"sync", "publish"} /\ Task1(t).svc = s), Done(t)
  PROVE  PublishersSame(s) /\ (Due(s) => Due(s)') /\ (Notes(Tail(work[t].todo), s) => Due(s)')
<1>1. Tail(work[t].todo) \in Seq(Tasks)
  BY TailTyped
<1>2. <<>> \o Tail(work[t].todo) = Tail(work[t].todo)
  BY <1>1
<1>3. Become(t, <<>> \o Tail(work[t].todo))
  BY <1>2 DEF Done
<1>4. PublishersSame(s) /\ (Due(s) => Due(s)')
  BY <1>3, NoTasks, FromNext
<1>5. work'[t] = [Resting EXCEPT !.todo = Tail(work[t].todo)]
  BY <1>1, Becomes DEF Done
<1> QED BY <1>4, <1>5, NotedDue DEF Due

LEMMA EntitledMeans ==
  ASSUME NEW s
  PROVE  /\ \A u : u \in Entitled(Found, s) <=> u \in Users /\ user[u] \in {"ok", "expired"} /\ Holds(u, s)
         /\ \A u : u \in Entitled(Found', s) <=> u \in Users /\ user'[u] \in {"ok", "expired"} /\ Holds(u, s)'
<1>1. Found.rule = rule /\ Found.user = user /\ Found'.rule = rule' /\ Found'.user = user'
  BY DEF Found
<1> QED BY <1>1 DEF Entitled, Holds

LEMMA GrowsByCred ==
  ASSUME NEW s \in Services, UNCHANGED <<rule, user>>, \A x \in Services \X Users : cred[x] \subseteq cred'[x]
  PROVE  Grows(s)
<1>1. \A u \in Users : Holds(u, s)' <=> Holds(u, s)
  BY DEF Holds
<1> QED BY <1>1, EntitledMeans DEF Grows

LEMMA GrowsSame ==
  ASSUME NEW s \in Services, UNCHANGED <<rule, user, cred>>
  PROVE  Grows(s)
BY GrowsByCred

\* Steps that publish nothing of the service and write none of its rows.
LEMMA Elsewhere ==
  ASSUME Parts, NEW s \in Services, LockInv(s), UNCHANGED <<config, status, rows, crossed>>, SlotsSame(s), PublishersSame(s),
         Due(s) => Due(s)', owed \subseteq owed', Grows(s) \/ s \in owed' \/ Due(s)'
  PROVE  LockInv(s)'
<1>1. Lasting(s)
  BY DEF Lasting, RowsSame
<1>2. Settling(s)' => Settling(s) /\ Grows(s)
  BY DEF Settling
<1> QED BY <1>1, <1>2, Undisturbed

LEMMA SlotsUnchanged ==
  ASSUME NEW s, UNCHANGED runs
  PROVE  SlotsSame(s)
BY DEF SlotsSame

LEMMA PlaneApart ==
  ASSUME RunsTyped(runs), NEW s \in Services, NEW r, NEW x, runs' = [runs EXCEPT ![Plane(r)] = x]
  PROVE  SlotsSame(s)
<1>1. ASSUME NEW n \in Nodes PROVE Inst(s, n) # Plane(r) /\ Inst(s, n) \in DOMAIN runs
  BY DEF Inst, Plane, RunsTyped, Slots
<1> QED BY <1>1 DEF SlotsSame

LEMMA DeployPlaneLocked ==
  ASSUME Parts, NEW t \in Threads, deployRuleProtocolPlane(t), NEW s \in Services, LockInv(s)
  PROVE  LockInv(s)'
<1> DEFINE task == Task1(t)
           r == task.on
           is == IF task.op = "plane" THEN rule[r] ELSE [owner |-> task.owner, svc |-> task.svc]
           x == is.svc
           c == EnsureSecrets(config[x][1])
           creds == ensureUserProxyCred(cred, is.owner, x, c)
           live == overlayProxyConfigForUser(c, CHOOSE y \in creds[<<x, is.owner>>] : TRUE)
           fit == x # "" /\ config[x] # <<>> /\ Publishable(config[x][1]) /\ user[is.owner] # "gone"
<1>1. ThreadsTyped(work) /\ work[t].todo # <<>> /\ work[t].at = "next" /\ task.op \in {"plane", "listed"}
      /\ CredTyped(cred) /\ ServicesTyped(status, config, rows) /\ RulesTyped(rule)
  BY DEF Parts, deployRuleProtocolPlane, At
<1>2. task \in Tasks /\ r \in Rules /\ task.svc \in Services \union {""}
  BY <1>1, TailTyped, FirstTask
<1>3. x \in Services \union {""}
  BY <1>1, <1>2, OneRule
<1>4. UNCHANGED <<config, status, rows, crossed, rule, user, owed, runs>>
  BY DEF deployRuleProtocolPlane
<1>5. Grows(s)
  <2>1. CASE ~fit
    BY <1>4, <2>1, GrowsSame DEF deployRuleProtocolPlane
  <2>2. CASE fit
    <3>1. cred' = creds
      BY <2>2 DEF deployRuleProtocolPlane
    <3>2. x \in Services /\ config[x] # <<>>
      BY <1>3, <2>2
    <3>3. IsConfig(c)
      <4>1. IsConfig(config[x][1])
        BY <1>1, <3>2, OneService
      <4> QED BY <4>1, EnsuredConfig
    <3>4. \A y \in Services \X Users : cred[y] \subseteq creds[y]
      <4> HIDE DEF c, x, is
      <4> QED BY <1>1, <3>3, EnsuredCred
    <3> HIDE DEF creds
    <3> QED BY <1>4, <3>1, <3>4, GrowsByCred
  <2> QED BY <2>1, <2>2
<1>6. PublishersSame(s) /\ (Due(s) => Due(s)')
  <2>1. CASE Done(t)
    BY <1>1, <2>1, FromDone
  <2>2. CASE work' = [work EXCEPT ![t].at = "apply", ![t].inb = Inbound(live, Listen[r])]
    <3> DEFINE inb == Inbound(live, Listen[r])
               w == [work[t] EXCEPT !.at = "apply", !.inb = inb]
    <3>1. work' = [work EXCEPT ![t].at = "apply", ![t].inb = inb]
      BY <2>2
    <3> HIDE DEF inb
    <3>2. work' = [work EXCEPT ![t] = w]
      BY <3>1
    <3>3. DOMAIN work[t] = {"todo", "at", "cfg", "nodes", "inb", "ok"} /\ work[t].todo \in Seq(Tasks)
      BY <1>1, TodoTyped DEF ThreadTyped
    <3>4. w.todo = work[t].todo /\ work[t].todo[1] = task /\ Head(w.todo) = task
      BY <1>1, <3>3, TailTyped DEF Task1
    <3> HIDE DEF w, task
    <3>5. ~Publishes(work[t], s) /\ ~Publishes(w, s)
      BY <1>1, <3>4 DEF Publishes
    <3>6. Awaits(work[t], s) => Awaits(w, s)
      BY <1>1, <3>4 DEF Awaits
    <3> QED BY <1>1, <3>2, <3>5, <3>6, OthersSame
  <2> QED BY <2>1, <2>2 DEF deployRuleProtocolPlane
<1> QED BY <1>4, <1>5, <1>6, SlotsUnchanged, Elsewhere

LEMMA DeployApplyLocked ==
  ASSUME Parts, NEW t \in Threads, deployApply(t), NEW s \in Services, LockInv(s)
  PROVE  LockInv(s)'
<1>1. ThreadsTyped(work) /\ work[t].todo # <<>> /\ RunsTyped(runs) /\ Done(t) /\ Task1(t).op \in {"plane", "listed"}
      /\ UNCHANGED <<config, status, rows, cred, rule, user, owed, crossed>>
  BY DEF Parts, deployApply, At, panel
<1>2. SlotsSame(s)
  <2>1. PICK answer \in SendProxyServiceApply(work[t].inb, Entry[Task1(t).on]) : Answered(Plane(Task1(t).on), answer)
    BY DEF deployApply
  <2>2. runs' = runs \/ runs' = [runs EXCEPT ![Plane(Task1(t).on)] = answer.core]
    BY <2>1 DEF Answered
  <2> QED BY <1>1, <2>2, SlotsUnchanged, PlaneApart
<1>3. PublishersSame(s) /\ (Due(s) => Due(s)')
  BY <1>1, FromDone
<1> QED BY <1>1, <1>2, <1>3, GrowsSame, Elsewhere

LEMMA StopLocked ==
  ASSUME Parts, NEW t \in Threads, stopRuleProtocolPlane(t), NEW s \in Services, LockInv(s)
  PROVE  LockInv(s)'
<1>1. ThreadsTyped(work) /\ work[t].todo # <<>> /\ RunsTyped(runs) /\ Done(t) /\ Task1(t).op = "stop"
      /\ UNCHANGED <<config, status, rows, cred, rule, user, owed, crossed>>
  BY DEF Parts, stopRuleProtocolPlane, At, panel
<1>2. SlotsSame(s)
  BY <1>1, SlotsUnchanged, PlaneApart DEF stopRuleProtocolPlane
<1>3. PublishersSame(s) /\ (Due(s) => Due(s)')
  BY <1>1, FromDone
<1> QED BY <1>1, <1>2, <1>3, GrowsSame, Elsewhere

LEMMA DispatchLocked ==
  ASSUME Parts, NEW t \in Threads, dispatchToNode(t), NEW s \in Services, LockInv(s)
  PROVE  LockInv(s)'
<1> DEFINE first == resyncProtocolPlanesOnNode(Task1(t).on)
<1>1. ThreadsTyped(work) /\ work[t].todo # <<>> /\ RulesTyped(rule) /\ Task1(t).op = "dispatch"
      /\ (Done(t) \/ Become(t, first \o Tail(work[t].todo)))
      /\ UNCHANGED <<config, status, rows, cred, rule, user, runs, owed, crossed>>
  BY DEF Parts, dispatchToNode, At, panel
<1>2. first \in Seq(Tasks)
  BY <1>1, PlanesListed
<1> HIDE DEF first
<1>3. PublishersSame(s) /\ (Due(s) => Due(s)')
  BY <1>1, <1>2, FromDone, FromNext
<1> QED BY <1>1, <1>3, GrowsSame, SlotsUnchanged, Elsewhere

LEMMA SyncUserLocked ==
  ASSUME Parts, NEW t \in Threads, syncProxyInboundForUser(t), NEW s \in Services, LockInv(s)
  PROVE  LockInv(s)'
<1> DEFINE first == Syncs(ListProxyServiceIDsForUserRules(Task1(t).on))
<1>1. ThreadsTyped(work) /\ work[t].todo # <<>> /\ Task1(t).op = "user" /\ Become(t, first \o Tail(work[t].todo))
      /\ UNCHANGED <<config, status, rows, cred, rule, user, runs, owed, crossed>>
  BY DEF Parts, syncProxyInboundForUser, At, Unsaved
<1>2. first \in Seq(Tasks)
  BY StandingTasks, SyncTasks
<1> HIDE DEF first
<1>3. PublishersSame(s) /\ (Due(s) => Due(s)')
  BY <1>1, <1>2, FromNext
<1> QED BY <1>1, <1>3, GrowsSame, SlotsUnchanged, Elsewhere

-----------------------------------------------------------------------------
(* The lock under requests about rules and users                           *)

LEMMA GrowsByStanding ==
  ASSUME NEW s \in Services,
         \A u \in Users : user[u] \in {"ok", "expired"} /\ Holds(u, s) =>
           user'[u] \in {"ok", "expired"} /\ Holds(u, s)' /\ cred[<<s, u>>] \subseteq cred'[<<s, u>>]
  PROVE  Grows(s)
BY EntitledMeans DEF Grows

\* Who holds a rule of the service keeps it.
LEMMA HoldsKept ==
  ASSUME NEW s, \A r \in Rules : rule[r].svc = s => rule'[r] = rule[r], NEW u
  PROVE  Holds(u, s) => Holds(u, s)'
BY DEF Holds

\* A request that publishes nothing itself.
LEMMA AskedLocked ==
  ASSUME Parts, NEW t \in Threads, NEW what, NEW tasks, Request(t, what, tasks), NEW s \in Services, LockInv(s),
         UNCHANGED <<config, status, rows, runs, crossed>>, owed \subseteq owed', Grows(s) \/ s \in owed' \/ Notes(tasks, s)
  PROVE  LockInv(s)'
<1>1. ThreadsTyped(work) /\ work[t] = Resting /\ Become(t, tasks)
  BY DEF Parts, Request
<1>2. PublishersSame(s) /\ (Due(s) => Due(s)') /\ (Notes(tasks, s) => Due(s)')
  BY <1>1, FromRest
<1> QED BY <1>2, SlotsUnchanged, Elsewhere

\* A step that leaves every thread as it is.
LEMMA IdleLocked ==
  ASSUME Parts, NEW s \in Services, LockInv(s), UNCHANGED <<config, status, rows, runs, crossed, work, owed>>, Grows(s)
  PROVE  LockInv(s)'
<1>1. PublishersSame(s) /\ (Due(s) => Due(s)')
  BY DEF PublishersSame, Due
<1> QED BY <1>1, SlotsUnchanged, Elsewhere

LEMMA DropLocked ==
  ASSUME Parts, NEW t \in Threads, DeleteRule(t), NEW s \in Services, LockInv(s)
  PROVE  LockInv(s)'
<1> DEFINE r == Task1(t).on
           noted == \E i \in DOMAIN work[t].todo : work[t].todo[i].op = "sync" /\ work[t].todo[i].svc = rule[r].svc
<1>1. ThreadsTyped(work) /\ work[t].todo # <<>> /\ work[t].at = "next" /\ Task1(t).op = "drop" /\ Done(t)
      /\ RulesDropped({r}) /\ UNCHANGED <<config, status, rows, runs, crossed, user, cred>>
      /\ owed' = (IF rule[r].svc = "" \/ noted THEN owed ELSE owed \union {rule[r].svc})
  BY DEF Parts, DeleteRule, At, Unsaved
<1>2. PublishersSame(s) /\ (Due(s) => Due(s)')
  BY <1>1, FromDone
<1>3. CASE rule[r].svc = s
  <2>1. noted => Due(s)
    BY <1>1, <1>3 DEF Due, Awaits
  <2>2. s # ""
    BY SitesAssumption
  <2> QED BY <1>1, <1>2, <1>3, <2>1, <2>2, SlotsUnchanged, Elsewhere
<1>4. CASE rule[r].svc # s
  <2>1. \A x \in Rules : rule[x].svc = s => rule'[x] = rule[x]
    BY <1>1, <1>4 DEF RulesDropped
  <2>2. Grows(s)
    BY <1>1, <2>1, HoldsKept, GrowsByStanding
  <2>3. owed \subseteq owed'
    BY <1>1
  <2> QED BY <1>1, <1>2, <2>2, <2>3, SlotsUnchanged, Elsewhere
<1> QED BY <1>3, <1>4

LEMMA CreateRuleLocked ==
  ASSUME Parts, NEW t \in Threads, NEW r \in Rules, NEW u, NEW x, apiCreateRule(t, r, u, x), NEW s \in Services, LockInv(s)
  PROVE  LockInv(s)'
<1> DEFINE tasks == <<Task("dispatch", Entry[r], ""), Task("sync", "", x), Task("plane", r, "")>>
<1>1. Request(t, "rule", tasks) /\ UNCHANGED <<config, status, rows, runs, crossed, user, cred, owed>>
      /\ rule' = [rule EXCEPT ![r] = [owner |-> u, svc |-> x]] /\ rule[r] = NoRule
  BY DEF apiCreateRule, Unsaved
<1> HIDE DEF tasks
<1>2. rule[r].svc # s
  <2>1. NoRule.svc = "" /\ s # ""
    BY SitesAssumption DEF NoRule
  <2> QED BY <1>1, <2>1
<1>3. \A y \in Rules : rule[y].svc = s => rule'[y] = rule[y]
  BY <1>1, <1>2 DEF Parts, RulesTyped
<1>4. Grows(s)
  BY <1>1, <1>3, HoldsKept, GrowsByStanding
<1> QED BY <1>1, <1>4, AskedLocked

LEMMA UpdateRuleLocked ==
  ASSUME Parts, NEW t \in Threads, NEW r \in Rules, NEW u, NEW x \in Services \union {""}, apiUpdateRule(t, r, u, x),
         NEW s \in Services, LockInv(s)
  PROVE  LockInv(s)'
<1> DEFINE set == {rule[r].svc, x} \ {""}
           tasks == <<Task("dispatch", Entry[r], "")>> \o Syncs(set) \o <<Task("plane", r, "")>>
<1>1. Request(t, "move", tasks) /\ UNCHANGED <<config, status, rows, runs, crossed, user, cred, owed>>
      /\ rule' = [rule EXCEPT ![r] = [owner |-> u, svc |-> x]] /\ RulesTyped(rule)
  BY DEF apiUpdateRule, Unsaved, Parts
<1>2. CASE s \in set
  <2>1. Notes(tasks, s)
    BY <1>1, <1>2, MoveTasks
  <2> HIDE DEF tasks, set
  <2> QED BY <1>1, <2>1, AskedLocked
<1>3. CASE s \notin set
  <2>1. rule[r].svc # s
    BY <1>3, SitesAssumption
  <2>2. \A y \in Rules : rule[y].svc = s => rule'[y] = rule[y]
    BY <1>1, <2>1 DEF RulesTyped
  <2>3. Grows(s)
    BY <1>1, <2>2, HoldsKept, GrowsByStanding
  <2> HIDE DEF tasks, set
  <2> QED BY <1>1, <2>3, AskedLocked
<1> QED BY <1>2, <1>3

LEMMA AskDeleteLocked ==
  ASSUME Parts, NEW t \in Threads, NEW r \in Rules, apiDeleteRule(t, r), NEW s \in Services, LockInv(s)
  PROVE  LockInv(s)'
<1> DEFINE tasks == <<Task("stop", r, ""), Task("drop", r, ""), Task("dispatch", Entry[r], "")>> \o Syncs({rule[r].svc} \ {""})
<1>1. Request(t, "delete", tasks) /\ UNCHANGED <<config, status, rows, runs, crossed, rule, user, cred, owed>>
  BY DEF apiDeleteRule, Unsaved
<1> HIDE DEF tasks
<1> QED BY <1>1, GrowsSame, AskedLocked

LEMMA RevokeLocked ==
  ASSUME Parts, NEW t \in Threads, NEW u \in Users, NEW x \in Services, apiRevokeProxyService(t, u, x), NEW s \in Services, LockInv(s)
  PROVE  LockInv(s)'
<1> DEFINE gone == {r \in Rules : rule[r] = [owner |-> u, svc |-> x]}
           set == {Entry[r] : r \in gone}
           tasks == Dispatches(set) \o Syncs({x})
<1>1. Request(t, "revoke", tasks) /\ UNCHANGED <<config, status, rows, runs, crossed, user, cred, owed>>
      /\ RulesDropped(gone)
  BY DEF apiRevokeProxyService, Unsaved
<1>2. CASE s = x
  <2>1. set \in SUBSET Nodes /\ {x} \in SUBSET Services
    BY EntryNodes
  <2>2. Notes(tasks, s)
    <3> HIDE DEF set
    <3> QED BY <1>2, <2>1, RevokeTasks
  <2> HIDE DEF tasks
  <2> QED BY <1>1, <2>2, AskedLocked
<1>3. CASE s # x
  <2>1. \A y \in Rules : rule[y].svc = s => rule'[y] = rule[y]
    BY <1>1, <1>3 DEF RulesDropped
  <2>2. Grows(s)
    BY <1>1, <2>1, HoldsKept, GrowsByStanding
  <2> HIDE DEF tasks
  <2> QED BY <1>1, <2>2, AskedLocked
<1> QED BY <1>2, <1>3

LEMMA RevokeNodeLocked ==
  ASSUME Parts, NEW t \in Threads, NEW u \in Users, NEW n \in Nodes, apiRevokeNode(t, u, n), NEW s \in Services, LockInv(s)
  PROVE  LockInv(s)'
<1> DEFINE gone == {r \in Rules : rule[r].owner = u /\ Entry[r] = n}
           tasks == <<Task("dispatch", n, "")>>
<1>1. Request(t, "revokeNode", tasks) /\ UNCHANGED <<config, status, rows, runs, crossed, user, cred>>
      /\ RulesDropped(gone) /\ owed' = owed \union {rule[r].svc : r \in {x \in gone : rule[x].svc # ""}}
  BY DEF apiRevokeNode, Unsaved
<1>2. s # ""
  BY SitesAssumption
<1>3. CASE \E r \in gone : rule[r].svc = s
  <2>1. s \in owed'
    BY <1>1, <1>2, <1>3
  <2> HIDE DEF tasks, gone
  <2> QED BY <1>1, <2>1, AskedLocked
<1>4. CASE ~\E r \in gone : rule[r].svc = s
  <2>1. \A y \in Rules : rule[y].svc = s => rule'[y] = rule[y]
    BY <1>1, <1>4 DEF RulesDropped
  <2>2. Grows(s)
    BY <1>1, <2>1, HoldsKept, GrowsByStanding
  <2> HIDE DEF tasks, gone
  <2> QED BY <1>1, <2>2, AskedLocked
<1> QED BY <1>3, <1>4

\* The services of a user are noted when his standing changes.
LEMMA StandingNoted ==
  ASSUME NEW u, NEW s \in Services, Holds(u, s)
  PROVE  /\ Notes(Dispatches(DistinctUserNodes({u})) \o Syncs(ListProxyServiceIDsForUserRules(u)), s)
         /\ Notes(Syncs(ListProxyServiceIDsForUserRules(u)) \o Dispatches(DistinctUserNodes({u})), s)
<1>1. s \in ListProxyServiceIDsForUserRules(u)
  BY DEF ListProxyServiceIDsForUserRules
<1> QED BY <1>1, StandingTasks, RevokeTasks

\* Nobody else is touched, and no rule.
LEMMA OneUser ==
  ASSUME UsersTyped(user), UNCHANGED <<rule, cred>>, NEW u \in Users, NEW x, user' = [user EXCEPT ![u] = x],
         NEW s \in Services, ~Holds(u, s) \/ x \in {"ok", "expired"}
  PROVE  Grows(s)
<1>1. \A v \in Users : Holds(v, s) => Holds(v, s)'
  BY HoldsKept
<1>2. \A v \in Users : user'[v] = IF v = u THEN x ELSE user[v]
  BY DEF UsersTyped
<1> QED BY <1>1, <1>2, GrowsByStanding

LEMMA ToggleLocked ==
  ASSUME Parts, NEW t \in Threads, NEW u \in Users, apiToggleUser(t, u), NEW s \in Services, LockInv(s)
  PROVE  LockInv(s)'
<1> DEFINE tasks == Dispatches(DistinctUserNodes({u})) \o Syncs(ListProxyServiceIDsForUserRules(u))
           x == IF user[u] = "ok" THEN "disabled" ELSE "ok"
<1>1. Request(t, "toggle", tasks) /\ UNCHANGED <<config, status, rows, runs, crossed, rule, cred, owed>>
      /\ user' = [user EXCEPT ![u] = x] /\ UsersTyped(user)
  BY DEF apiToggleUser, Unsaved, Parts
<1>2. Holds(u, s) => Notes(tasks, s)
  BY StandingNoted
<1> HIDE DEF tasks, x
<1>3. ~Holds(u, s) => Grows(s)
  BY <1>1, OneUser
<1> QED BY <1>1, <1>2, <1>3, AskedLocked

LEMMA QuotaLocked ==
  ASSUME Parts, NEW t \in Threads, NEW u \in Users, enforceUserQuota(t, u), NEW s \in Services, LockInv(s)
  PROVE  LockInv(s)'
<1> DEFINE tasks == Syncs(ListProxyServiceIDsForUserRules(u)) \o Dispatches(DistinctUserNodes({u}))
<1>1. Request(t, "quota", tasks) /\ UNCHANGED <<config, status, rows, runs, crossed, rule, cred, owed>>
      /\ user' = [user EXCEPT ![u] = "disabled"] /\ UsersTyped(user)
  BY DEF enforceUserQuota, Unsaved, Parts
<1>2. Holds(u, s) => Notes(tasks, s)
  BY StandingNoted
<1> HIDE DEF tasks
<1>3. ~Holds(u, s) => Grows(s)
  BY <1>1, OneUser
<1> QED BY <1>1, <1>2, <1>3, AskedLocked

LEMMA CycleLocked ==
  ASSUME Parts, NEW t \in Threads, NEW u \in Users, trafficCycleEnforcer(t, u), NEW s \in Services, LockInv(s)
  PROVE  LockInv(s)'
<1> DEFINE tasks == Dispatches(DistinctUserNodes({u})) \o <<Task("user", u, "")>>
<1>1. Request(t, "cycle", tasks) /\ UNCHANGED <<config, status, rows, runs, crossed, rule, cred, owed>>
      /\ user' = [user EXCEPT ![u] = "ok"] /\ UsersTyped(user)
  BY DEF trafficCycleEnforcer, Unsaved, Parts
<1> HIDE DEF tasks
<1>2. Grows(s)
  BY <1>1, OneUser
<1> QED BY <1>1, <1>2, AskedLocked

LEMMA ExtendLocked ==
  ASSUME Parts, NEW t \in Threads, NEW u \in Users, apiSetUserExpiry(t, u), NEW s \in Services, LockInv(s)
  PROVE  LockInv(s)'
<1> DEFINE tasks == Dispatches(DistinctUserNodes({u}))
<1>1. Request(t, "extend", tasks) /\ UNCHANGED <<config, status, rows, runs, crossed, rule, cred>>
      /\ user' = [user EXCEPT ![u] = "ok"] /\ UsersTyped(user) /\ owed \subseteq owed'
  BY DEF apiSetUserExpiry, Unsaved, Parts
<1> HIDE DEF tasks
<1>2. Grows(s)
  BY <1>1, OneUser
<1> QED BY <1>1, <1>2, AskedLocked

LEMMA ExpireLocked ==
  ASSUME Parts, NEW u \in Users, Expire(u), NEW s \in Services, LockInv(s)
  PROVE  LockInv(s)'
<1>1. UNCHANGED <<config, status, rows, runs, crossed, rule, cred, work, owed>> /\ user' = [user EXCEPT ![u] = "expired"]
      /\ UsersTyped(user)
  BY DEF Expire, Unsaved, Parts
<1>2. Grows(s)
  BY <1>1, OneUser
<1> QED BY <1>1, <1>2, IdleLocked

LEMMA EraseLocked ==
  ASSUME Parts, NEW t \in Threads, NEW u \in Users, apiDeleteUser(t, u), NEW s \in Services, LockInv(s)
  PROVE  LockInv(s)'
<1> DEFINE tasks == Dispatches(DistinctUserNodes({u})) \o Syncs(ListProxyServiceIDsForUserRules(u))
<1>1. Request(t, "erase", tasks) /\ UNCHANGED <<config, status, rows, runs, crossed, owed>>
      /\ user' = [user EXCEPT ![u] = "gone"] /\ UsersTyped(user) /\ CredTyped(cred)
      /\ RulesDropped({r \in Rules : rule[r].owner = u})
      /\ cred' = [x \in DOMAIN cred |-> IF x[2] = u THEN {} ELSE cred[x]]
  BY DEF apiDeleteUser, Unsaved, Parts
<1>2. Holds(u, s) => Notes(tasks, s)
  BY StandingNoted
<1> HIDE DEF tasks
<1>3. ASSUME ~Holds(u, s) PROVE Grows(s)
  <2>1. ASSUME NEW v \in Users, Holds(v, s) PROVE v # u /\ Holds(v, s)'
    <3>1. v # u
      BY <1>3, <2>1
    <3>2. PICK r \in Rules : rule[r] = [owner |-> v, svc |-> s]
      BY <2>1 DEF Holds
    <3>3. rule'[r] = rule[r]
      BY <1>1, <3>1, <3>2 DEF RulesDropped
    <3> QED BY <3>1, <3>2, <3>3 DEF Holds
  <2>2. ASSUME NEW v \in Users, v # u PROVE user'[v] = user[v] /\ cred'[<<s, v>>] = cred[<<s, v>>]
    <3>1. <<s, v>> \in DOMAIN cred
      BY <1>1 DEF CredTyped
    <3> QED BY <1>1, <2>2, <3>1 DEF UsersTyped
  <2> QED BY <2>1, <2>2, GrowsByStanding
<1> QED BY <1>1, <1>2, <1>3, AskedLocked

LEMMA EnforceLocked ==
  ASSUME Parts, expiryEnforcer, NEW s \in Services, LockInv(s)
  PROVE  LockInv(s)'
<1> DEFINE tasks == Syncs(ListExpiredUserProxyServiceIDs) \o Dispatches(DistinctUserNodes({u \in Users : user[u] = "expired"}))
<1>1. ThreadsTyped(work) /\ Enforcer \in Threads /\ work[Enforcer] = Resting /\ Become(Enforcer, tasks)
      /\ UNCHANGED <<config, status, rows, runs, crossed, rule, user, cred, owed>>
  BY DEF Parts, expiryEnforcer, Threads, Unsaved
<1> HIDE DEF tasks
<1>2. PublishersSame(s) /\ (Due(s) => Due(s)')
  BY <1>1, FromRest
<1> QED BY <1>1, <1>2, GrowsSame, SlotsUnchanged, Elsewhere

LEMMA FeedLocked ==
  ASSUME Parts, NEW u \in Users, loadSubExportNodes(u), NEW s \in Services, LockInv(s)
  PROVE  LockInv(s)'
<1>1. UNCHANGED <<config, status, rows, runs, crossed, rule, user, work, owed>>
  BY DEF loadSubExportNodes, Quiet
<1>2. \A x \in Services \X Users : cred[x] \subseteq cred'[x]
  BY FeedTyped
<1>3. Grows(s)
  BY <1>1, <1>2, GrowsByCred
<1> QED BY <1>1, <1>3, IdleLocked

LEMMA AgentLocked ==
  ASSUME Parts, NEW n \in Nodes, Agent(n), NEW s \in Services, LockInv(s)
  PROVE  LockInv(s)'
<1>1. UNCHANGED <<config, status, rows, runs, crossed, rule, user, cred, work, owed>>
  BY DEF Agent, panel
<1> QED BY <1>1, GrowsSame, IdleLocked

-----------------------------------------------------------------------------
(* The lock under requests about services                                  *)

LEMMA CreateLocked ==
  ASSUME Parts, NEW t \in Threads, NEW x \in Services, NEW c, apiCreateProxyService(t, x, c), NEW s \in Services, LockInv(s)
  PROVE  LockInv(s)'
<1>1. ThreadsTyped(work) /\ work[t] = Resting /\ Become(t, <<>>) /\ status[x] = "none"
      /\ UNCHANGED <<rows, cred, rule, user, runs, owed, crossed>> /\ ServicesTyped(status, config, rows)
  BY DEF Parts, apiCreateProxyService, Request, Quiet
<1>2. PublishersSame(s) /\ (Due(s) => Due(s)')
  BY <1>1, FromRest
<1>3. CASE UNCHANGED <<config, status>>
  BY <1>1, <1>2, <1>3, GrowsSame, SlotsUnchanged, Elsewhere
<1>4. CASE config' = [config EXCEPT ![x] = <<EnsureSecrets(c)>>] /\ status' = [status EXCEPT ![x] = "draft"]
  <2>1. CASE s # x
    <3>1. config'[s] = config[s] /\ status'[s] = status[s] /\ rows'[s] = rows[s]
      BY <1>1, <1>4, <2>1
    <3>2. Lasting(s)
      BY <3>1 DEF Lasting, RowsSame
    <3>3. Settling(s)' => Settling(s) /\ Grows(s)
      BY <1>1, <1>2, GrowsSame DEF Settling
    <3> QED BY <1>1, <1>2, <3>2, <3>3, SlotsUnchanged, Undisturbed
  <2>2. CASE s = x
    <3>1. rows[s] = <<>> /\ status'[s] = "draft"
      BY <1>1, <1>4, <2>2, OneService DEF ServicesTyped
    <3>2. \A w \in Threads : ~Publishes(work'[w], s)
      <4>1. \A w \in Threads : ~Publishes(work[w], s)
        BY <1>1, <2>2 DEF LockInv, Unpublished
      <4> QED BY <1>2, <4>1 DEF PublishersSame
    <3>3. DOMAIN rows'[s] = {} /\ rows'[s] = <<>>
      BY <1>1, <3>1
    <3>4. Recomputed(s)' = "draft"
      BY <3>3 DEF Recomputed, RecomputedOf
    <3>5. Unpublished(s)' /\ Rowed(s)' /\ Agreed(s)' /\ Lone(s)' /\ Bound(s)'
      BY <3>1, <3>2, <3>4 DEF Unpublished, Rowed, Agreed, Lone, Bound
    <3>6. Covered(s)'
      BY <3>3 DEF Covered
    <3> QED BY <3>5, <3>6 DEF LockInv
  <2> QED BY <2>1, <2>2
<1> QED BY <1>3, <1>4 DEF apiCreateProxyService

LEMMA UpdateLocked ==
  ASSUME Parts, NEW t \in Threads, NEW x \in Services, NEW c, apiUpdateProxyService(t, x, c), NEW s \in Services, LockInv(s)
  PROVE  LockInv(s)'
<1> DEFINE merged == EnsureSecrets(mergePreservedProxySecrets(config[x][1], c))
<1>1. ThreadsTyped(work) /\ work[t] = Resting /\ Become(t, <<>>) /\ config[x] # <<>>
      /\ UNCHANGED <<status, rows, cred, rule, user, runs, owed, crossed>> /\ ServicesTyped(status, config, rows)
      /\ config' = [config EXCEPT ![x] = IF validateProxyConfigForSave(merged) THEN <<merged>> ELSE @]
  BY DEF Parts, apiUpdateProxyService, Request, Quiet
<1> HIDE DEF merged
<1>2. PublishersSame(s) /\ (Due(s) => Due(s)')
  BY <1>1, FromRest
<1>3. config'[s] # <<>> => config[s] # <<>>
  BY <1>1 DEF ServicesTyped
<1>4. Lasting(s)
  BY <1>1, <1>3 DEF Lasting, RowsSame
<1>5. Settling(s)' => Settling(s) /\ Grows(s)
  BY <1>1, <1>2, GrowsSame DEF Settling
<1> QED BY <1>1, <1>2, <1>4, <1>5, SlotsUnchanged, Undisturbed

LEMMA DeleteLocked ==
  ASSUME Parts, NEW t \in Threads, NEW x \in Services, apiDeleteProxyService(t, x), NEW s \in Services, LockInv(s)
  PROVE  LockInv(s)'
<1>1. ThreadsTyped(work) /\ work[t] = Resting /\ Become(t, <<>>) /\ CredTyped(cred)
      /\ UNCHANGED <<rule, user, runs, owed, crossed>> /\ ServicesTyped(status, config, rows)
      /\ config' = [config EXCEPT ![x] = <<>>] /\ status' = [status EXCEPT ![x] = "gone"] /\ rows' = [rows EXCEPT ![x] = <<>>]
      /\ cred' = [y \in DOMAIN cred |-> IF y[1] = x THEN {} ELSE cred[y]]
  BY DEF Parts, apiDeleteProxyService, Request, Quiet
<1>2. PublishersSame(s) /\ (Due(s) => Due(s)')
  BY <1>1, FromRest
<1>3. CASE s = x
  <2>1. config'[s] = <<>> /\ status'[s] = "gone"
    BY <1>1, <1>3 DEF ServicesTyped
  <2> QED BY <2>1 DEF LockInv, Unpublished
<1>4. CASE s # x
  <2>1. config'[s] = config[s] /\ status'[s] = status[s] /\ rows'[s] = rows[s]
    BY <1>1, <1>4
  <2>2. Lasting(s)
    BY <2>1 DEF Lasting, RowsSame
  <2>3. ASSUME NEW u \in Users PROVE cred'[<<s, u>>] = cred[<<s, u>>]
    <3>1. <<s, u>> \in DOMAIN cred
      BY <1>1 DEF CredTyped
    <3> QED BY <1>1, <1>4, <3>1
  <2>4. Grows(s)
    BY <1>1, <2>3, HoldsKept, GrowsByStanding
  <2>5. Settling(s)' => Settling(s) /\ Grows(s)
    BY <1>1, <1>2, <2>4 DEF Settling
  <2> QED BY <1>1, <1>2, <2>2, <2>5, SlotsUnchanged, Undisturbed
<1> QED BY <1>3, <1>4

LEMMA AskPublishLocked ==
  ASSUME Parts, NEW t \in Threads, NEW x, NEW n, NEW port, apiPublishProxyService(t, x, n, port), NEW s \in Services, LockInv(s)
  PROVE  LockInv(s)'
<1> DEFINE tasks == <<[Task("publish", "", x) EXCEPT !.nodes = <<n>>, !.port = port]>>
<1>1. Request(t, "publish", tasks) /\ UNCHANGED <<config, status, rows, runs, crossed, rule, user, cred, owed>>
  BY DEF apiPublishProxyService, panel, Quiet
<1> HIDE DEF tasks
<1> QED BY <1>1, GrowsSame, AskedLocked

LEMMA ResyncLocked ==
  ASSUME Parts, NEW t \in Threads, NEW n, apiResyncNode(t, n), NEW s \in Services, LockInv(s)
  PROVE  LockInv(s)'
<1> DEFINE tasks == <<Task("dispatch", n, ""), Task("republish", n, "")>>
<1>1. Request(t, "resync", tasks) /\ UNCHANGED <<config, status, rows, runs, crossed, rule, user, cred, owed>>
  BY DEF apiResyncNode, panel, Quiet
<1> HIDE DEF tasks
<1> QED BY <1>1, GrowsSame, AskedLocked

LEMMA AskCertLocked ==
  ASSUME Parts, NEW t \in Threads, NEW x \in Services, apiIssueProxyServiceACME(t, x), NEW s \in Services, LockInv(s)
  PROVE  LockInv(s)'
<1> DEFINE w == [work[t] EXCEPT !.todo = <<Task("issue", "", x)>>, !.at = "issue", !.cfg = config[x]]
<1>1. ThreadsTyped(work) /\ work[t] = Resting /\ work' = [work EXCEPT ![t] = w]
      /\ UNCHANGED <<config, status, rows, runs, crossed, rule, user, cred, owed>>
  BY DEF Parts, apiIssueProxyServiceACME, panel, Quiet
<1>2. w.todo = <<Task("issue", "", x)>> /\ Task("issue", "", x).op = "issue"
  BY <1>1 DEF Resting, Task
<1> HIDE DEF w
<1>3. ~Publishes(work[t], s) /\ ~Awaits(work[t], s)
  BY <1>1, AtRest
<1>4. ~Publishes(w, s)
  <2> DEFINE task == Task("issue", "", x)
  <2>1. w.todo = <<task>> /\ task.op = "issue"
    BY <1>2
  <2> HIDE DEF task
  <2>2. Head(w.todo) = task
    BY <2>1
  <2> QED BY <2>1, <2>2 DEF Publishes
<1>5. PublishersSame(s) /\ (Due(s) => Due(s)')
  BY <1>1, <1>3, <1>4, OthersSame
<1> QED BY <1>1, <1>5, GrowsSame, SlotsUnchanged, Elsewhere

\* A thread with a certificate notes nothing, and publishes nothing yet.
LEMMA IssueQuiet ==
  ASSUME ThreadsTyped(work), NEW t \in Threads, At(t, "issue"), NEW s, NEW tasks \in Seq(Tasks), Become(t, tasks)
  PROVE  PublishersSame(s) /\ (Due(s) => Due(s)')
<1> DEFINE w == [Resting EXCEPT !.todo = tasks]
<1>1. Task1(t).op = "issue" /\ Len(work[t].todo) = 1 /\ work[t].todo # <<>>
  BY Issuing DEF At
<1>2. Task1(t) = work[t].todo[1] /\ DOMAIN work[t].todo = {1}
  <2>1. work[t].todo \in Seq(Tasks)
    BY TodoTyped
  <2>2. DOMAIN work[t].todo = {1}
    BY <1>1, <2>1
  <2> QED BY <1>1, <2>2, TailTyped
<1>3. ~Publishes(work[t], s) /\ ~Awaits(work[t], s)
  BY <1>1, <1>2 DEF Publishes, Awaits, Task1
<1>4. work' = [work EXCEPT ![t] = w] /\ ~Publishes(w, s)
  BY QuietThread DEF Become
<1> HIDE DEF w
<1> QED BY <1>3, <1>4, OthersSame

LEMMA CertLocked ==
  ASSUME Parts, NEW t \in Threads, NEW cert, ACMEIssued(t, cert), NEW s \in Services, LockInv(s)
  PROVE  LockInv(s)'
<1> DEFINE x == Task1(t).svc
           merged == mergeACMEIntoConfigJSON(work[t].cfg[1], cert)
           uris == [i \in DOMAIN rows[x] |-> [rows[x][i] EXCEPT !.uri = BuildShareURI(merged, rows[x][i].port)]]
<1>1. ThreadsTyped(work) /\ At(t, "issue") /\ ServicesTyped(status, config, rows)
      /\ config' = [config EXCEPT ![x] = IF @ = <<>> THEN @ ELSE <<merged>>]
      /\ rows' = [rows EXCEPT ![x] = uris] /\ owed \subseteq owed'
      /\ UNCHANGED <<status, cred, rule, user, runs, crossed>>
  BY DEF Parts, ACMEIssued
<1>2. x \in Services /\ work[t].todo # <<>>
  BY <1>1, Issuing DEF At
<1>3. PublishersSame(s) /\ (Due(s) => Due(s)')
  <2>1. CASE Done(t)
    <3>1. Tail(work[t].todo) \in Seq(Tasks)
      BY <1>1, <1>2, TailTyped
    <3> QED BY <1>1, <2>1, <3>1, IssueQuiet DEF Done
  <2>2. CASE Become(t, <<Task("sync", "", x)>>)
    <3>1. Task("sync", "", x) \in Tasks
      BY <1>2, ServiceTasks
    <3>2. <<Task("sync", "", x)>> \in Seq(Tasks)
      BY <3>1, Few
    <3> QED BY <1>1, <2>2, <3>2, IssueQuiet
  <2> QED BY <2>1, <2>2 DEF ACMEIssued
<1>4. DOMAIN uris = DOMAIN rows[x] /\ \A i \in DOMAIN rows[x] : uris[i].node = rows[x][i].node /\ uris[i].status = rows[x][i].status
  <2>1. ASSUME NEW i \in DOMAIN rows[x] PROVE uris[i].node = rows[x][i].node /\ uris[i].status = rows[x][i].status
    <3> DEFINE y == BuildShareURI(merged, rows[x][i].port)
    <3>1. uris[i] = [rows[x][i] EXCEPT !.uri = y]
      OBVIOUS
    <3>2. RowTyped(rows[x][i])
      BY <1>1, <1>2, OneService
    <3> HIDE DEF y, uris
    <3> QED BY <3>1, <3>2 DEF RowTyped
  <2> QED BY <2>1
<1> HIDE DEF uris, merged, x
<1>5. RowsSame(s)
  BY <1>1, <1>2, <1>4 DEF RowsSame, ServicesTyped
<1>6. config'[s] # <<>> => config[s] # <<>>
  BY <1>1, <1>2 DEF ServicesTyped
<1>7. Lasting(s)
  BY <1>1, <1>5, <1>6 DEF Lasting
<1>8. Settling(s)' => Settling(s) /\ Grows(s)
  BY <1>1, <1>3, GrowsSame DEF Settling
<1> QED BY <1>1, <1>3, <1>7, <1>8, SlotsUnchanged, Undisturbed

LEMMA RefusedLocked ==
  ASSUME Parts, NEW t \in Threads, ACMERefused(t), NEW s \in Services, LockInv(s)
  PROVE  LockInv(s)'
<1> DEFINE x == Task1(t).svc
<1>1. ThreadsTyped(work) /\ At(t, "issue") /\ ServicesTyped(status, config, rows) /\ work[t].todo # <<>>
      /\ config' = [config EXCEPT ![x] = IF @ = <<>> THEN @ ELSE work[t].cfg] /\ Done(t)
      /\ UNCHANGED <<status, rows, cred, rule, user, runs, owed, crossed>>
  BY DEF Parts, ACMERefused, At, Quiet
<1>2. Tail(work[t].todo) \in Seq(Tasks)
  BY <1>1, TailTyped
<1>3. PublishersSame(s) /\ (Due(s) => Due(s)')
  BY <1>1, <1>2, IssueQuiet DEF Done
<1>4. config'[s] # <<>> => config[s] # <<>>
  BY <1>1 DEF ServicesTyped
<1>5. Lasting(s)
  BY <1>1, <1>4 DEF Lasting, RowsSame
<1>6. Settling(s)' => Settling(s) /\ Grows(s)
  BY <1>1, <1>3, GrowsSame DEF Settling
<1> QED BY <1>1, <1>3, <1>5, <1>6, SlotsUnchanged, Undisturbed

LEMMA RepublishLocked ==
  ASSUME Parts, NEW t \in Threads, republishProxyInstancesOnNode(t), NEW s \in Services, LockInv(s)
  PROVE  LockInv(s)'
<1> DEFINE n == Task1(t).on
           on == {x \in Services : RowOf(x, n) # {}}
           list == SetToSeq(on)
           first == [i \in DOMAIN list |-> [Task("publish", "kept", list[i]) EXCEPT !.nodes = <<n>>]]
<1>1. ThreadsTyped(work) /\ work[t].todo # <<>> /\ Task1(t).op = "republish" /\ Become(t, first \o Tail(work[t].todo))
      /\ UNCHANGED <<config, status, rows, cred, rule, user, runs, owed, crossed>>
  BY DEF Parts, republishProxyInstancesOnNode, At, panel, Quiet
<1>2. n \in Nodes
  BY <1>1, TailTyped, FirstTask
<1>3. first \in Seq(Tasks)
  <2>1. IsFiniteSet(on) /\ on \subseteq Services
    BY SitesAssumption, FS_Subset
  <2> HIDE DEF on, n
  <2>2. list \in Seq(on) /\ DOMAIN list = 1 .. Len(list)
    BY <2>1, Listed
  <2> HIDE DEF list
  <2>3. Len(list) \in Nat /\ \A i \in DOMAIN list : list[i] \in Services
    BY <2>1, <2>2, Elements
  <2>4. ASSUME NEW i \in 1 .. Len(list) PROVE [Task("publish", "kept", list[i]) EXCEPT !.nodes = <<n>>] \in Tasks
    BY <1>2, <2>2, <2>3, KeptTasks
  <2>5. first \in [1 .. Len(list) -> Tasks]
    BY <2>2, <2>4
  <2> HIDE DEF first
  <2> QED BY <2>3, <2>5, Listing
<1> HIDE DEF first
<1>4. PublishersSame(s) /\ (Due(s) => Due(s)')
  BY <1>1, <1>3, FromNext
<1> QED BY <1>1, <1>4, GrowsSame, SlotsUnchanged, Elsewhere

-----------------------------------------------------------------------------
(* The lock under a publish of another service                             *)

\* A thread that moves on in its publish.
LEMMA Moved ==
  ASSUME ThreadsTyped(work), NEW t \in Threads, NEW w, work' = [work EXCEPT ![t] = w], w.todo = work[t].todo, w.at # "next",
         work[t].at # "next" \/ Task1(t).op # "sync", NEW s
  PROVE  /\ work'[t] = w /\ \A u \in Threads : u # t => work'[u] = work[u]
         /\ \A u \in Threads : Task1(u)' = Task1(u) /\ (u # t => (Publishes(work'[u], s) <=> Publishes(work[u], s)))
         /\ Due(s) => Due(s)'
         /\ work[t].at # "next" => (Publishes(work'[t], s) <=> Publishes(work[t], s))
<1>1. work'[t] = w /\ \A u \in Threads : u # t => work'[u] = work[u]
  BY DEF ThreadsTyped
<1>2. \A u \in Threads : Task1(u)' = Task1(u)
  BY <1>1 DEF Task1
<1>3. Awaits(work[t], s) => Awaits(w, s)
  <2> SUFFICES ASSUME NEW i \in DOMAIN work[t].todo, work[t].todo[i].op = "sync", work[t].todo[i].svc = s,
                      i = 1 => work[t].at = "next"
               PROVE  i # 1
    BY DEF Awaits
  <2>1. work[t].todo \in Seq(Tasks) /\ work[t].todo # <<>>
    BY TodoTyped
  <2> QED BY <2>1, TailTyped
<1>4. work[t].at # "next" => (Publishes(w, s) <=> Publishes(work[t], s))
  BY DEF Publishes
<1> QED BY <1>1, <1>2, <1>3, <1>4 DEF Due

\* In the midst of a publish it publishes the same service still.
LEMMA MovedIn ==
  ASSUME ThreadsTyped(work), NEW t \in Threads, NEW w, work' = [work EXCEPT ![t] = w], w.todo = work[t].todo, w.at # "next",
         work[t].at # "next", NEW s
  PROVE  /\ work'[t] = w /\ \A u \in Threads : u # t => work'[u] = work[u]
         /\ \A u \in Threads : Task1(u)' = Task1(u)
         /\ \A u \in Threads : Publishes(work'[u], s) <=> Publishes(work[u], s)
         /\ Due(s) => Due(s)'
<1>1. /\ work'[t] = w /\ \A u \in Threads : u # t => work'[u] = work[u]
      /\ \A u \in Threads : Task1(u)' = Task1(u)
      /\ Due(s) => Due(s)'
      /\ Publishes(work'[t], s) <=> Publishes(work[t], s)
  BY Moved
<1> QED BY <1>1

\* A thread that turns from its publish to its next task.
LEMMA MovedOff ==
  ASSUME ThreadsTyped(work), NEW t \in Threads, work[t].todo # <<>>, Done(t),
         work[t].at # "next" \/ Task1(t).op # "sync", NEW s
  PROVE  /\ ~Publishes(work'[t], s) /\ \A u \in Threads : u # t => work'[u] = work[u]
         /\ Due(s) => Due(s)'
<1> DEFINE tasks == Tail(work[t].todo)
           w == [Resting EXCEPT !.todo = tasks]
<1>1. work' = [work EXCEPT ![t] = w]
  BY DEF Done, Become
<1>2. work[t].todo \in Seq(Tasks) /\ Task1(t) = work[t].todo[1]
  BY TodoTyped, TailTyped
<1>3. Awaits(work[t], s) => Awaits(w, s)
  <2>1. ASSUME Awaits(work[t], s) PROVE Notes(tasks, s)
    <3>1. PICK i \in DOMAIN work[t].todo : work[t].todo[i].op = "sync" /\ work[t].todo[i].svc = s /\ (i = 1 => work[t].at = "next")
      BY <2>1 DEF Awaits
    <3>2. i # 1
      BY <1>2, <3>1
    <3>3. i - 1 \in DOMAIN tasks /\ tasks[i - 1] = work[t].todo[i]
      BY <1>2, <3>1, <3>2, TailOf
    <3> HIDE DEF tasks
    <3> QED BY <3>1, <3>3 DEF Notes
  <2> QED BY <2>1, NotedDue
<1>4. ~Publishes(w, s)
  BY QuietThread
<1> HIDE DEF w
<1>5. work'[t] = w /\ \A u \in Threads : u # t => work'[u] = work[u]
  BY <1>1 DEF ThreadsTyped
<1> QED BY <1>3, <1>4, <1>5 DEF Due

\* The steps of a publish, as others see them.
LEMMA PublishSteps ==
  ASSUME Parts, NEW t \in Threads, Publish(t)
  PROVE  /\ work[t].todo # <<>> /\ Task1(t).op \in {"sync", "publish"} /\ Task1(t).svc \in Services
         /\ \/ Done(t)
            \/ \E w : work' = [work EXCEPT ![t] = w] /\ w.todo = work[t].todo /\ w.at # "next"
<1>1. ThreadsTyped(work) /\ work[t].todo # <<>>
  BY DEF Parts, Publish, PublishRead, PublishSave, PublishNode, PublishOverlay, applyProxyInstance,
         UpdateProxyInstanceDeploy, RecomputeProxyServiceStatus, At
<1>2. Task1(t).op \in {"sync", "publish"}
  <2>1. \/ At(t, "save") \/ At(t, "node") \/ At(t, "overlay") \/ At(t, "mark") \/ Task1(t).op \in {"sync", "publish"}
    BY DEF Publish, PublishRead, PublishSave, PublishNode, PublishOverlay, applyProxyInstance,
           UpdateProxyInstanceDeploy, RecomputeProxyServiceStatus
  <2> QED BY <1>1, <2>1, MidPublish
<1>3. Task1(t).svc \in Services
  BY <1>1, <1>2, TailTyped, FirstTask
<1>4. DOMAIN work[t] = {"todo", "at", "cfg", "nodes", "inb", "ok"}
  BY <1>1, TodoTyped DEF ThreadTyped
<1> DEFINE Later == \E w : work' = [work EXCEPT ![t] = w] /\ w.todo = work[t].todo /\ w.at # "next"
<1>5. CASE PublishRead(t)
  <2>1. Done(t) \/ \E nodes, cfg : work' = [work EXCEPT ![t].at = "save", ![t].nodes = nodes, ![t].cfg = cfg]
    BY <1>5 DEF PublishRead
  <2>2. ASSUME NEW nodes, NEW cfg, work' = [work EXCEPT ![t].at = "save", ![t].nodes = nodes, ![t].cfg = cfg] PROVE Later
    <3> DEFINE w == [work[t] EXCEPT !.at = "save", !.nodes = nodes, !.cfg = cfg]
    <3>1. work' = [work EXCEPT ![t] = w] /\ w.todo = work[t].todo /\ w.at = "save"
      BY <1>4, <2>2
    <3> HIDE DEF w
    <3> QED BY <3>1
  <2> QED BY <1>1, <1>2, <1>3, <2>1, <2>2
<1>6. CASE PublishSave(t)
  <2>1. \E nodes : work' = [work EXCEPT ![t].at = "node", ![t].nodes = nodes]
    BY <1>6 DEF PublishSave
  <2>2. ASSUME NEW nodes, work' = [work EXCEPT ![t].at = "node", ![t].nodes = nodes] PROVE Later
    <3> DEFINE w == [work[t] EXCEPT !.at = "node", !.nodes = nodes]
    <3>1. work' = [work EXCEPT ![t] = w] /\ w.todo = work[t].todo /\ w.at = "node"
      BY <1>4, <2>2
    <3> HIDE DEF w
    <3> QED BY <3>1
  <2> QED BY <1>1, <1>2, <1>3, <2>1, <2>2
<1>7. CASE PublishNode(t)
  <2>1. work[t].at = "node"
    BY <1>7 DEF PublishNode, At
  <2>2. \/ work' = [work EXCEPT ![t] = [work[t] EXCEPT !.nodes = Tail(@)]]
        \/ work' = [work EXCEPT ![t] = [work[t] EXCEPT !.at = "overlay"]]
        \/ work' = [work EXCEPT ![t] = [work[t] EXCEPT !.at = "mark", !.ok = FALSE]]
    BY <1>7 DEF PublishNode
  <2>3. ASSUME NEW w, work' = [work EXCEPT ![t] = w],
               \/ w = [work[t] EXCEPT !.nodes = Tail(@)]
               \/ w = [work[t] EXCEPT !.at = "overlay"]
               \/ w = [work[t] EXCEPT !.at = "mark", !.ok = FALSE]
        PROVE  Later
    <3>1. w.todo = work[t].todo /\ w.at # "next"
      BY <1>4, <2>1, <2>3
    <3> QED BY <2>3, <3>1
  <2>4. Later
    <3> HIDE DEF Later
    <3> QED BY <2>2, <2>3
  <2> QED BY <1>1, <1>2, <1>3, <2>4
<1>8. CASE PublishOverlay(t)
  <2>1. \E inb : work' = [work EXCEPT ![t].at = "apply", ![t].inb = inb]
    BY <1>8 DEF PublishOverlay
  <2>2. ASSUME NEW inb, work' = [work EXCEPT ![t].at = "apply", ![t].inb = inb] PROVE Later
    <3> DEFINE w == [work[t] EXCEPT !.at = "apply", !.inb = inb]
    <3>1. work' = [work EXCEPT ![t] = w] /\ w.todo = work[t].todo /\ w.at = "apply"
      BY <1>4, <2>2
    <3> HIDE DEF w
    <3> QED BY <3>1
  <2> QED BY <1>1, <1>2, <1>3, <2>1, <2>2
<1>9. CASE applyProxyInstance(t)
  <2>1. \E ok : work' = [work EXCEPT ![t].at = "mark", ![t].ok = ok]
    BY <1>9 DEF applyProxyInstance
  <2>2. ASSUME NEW ok, work' = [work EXCEPT ![t].at = "mark", ![t].ok = ok] PROVE Later
    <3> DEFINE w == [work[t] EXCEPT !.at = "mark", !.ok = ok]
    <3>1. work' = [work EXCEPT ![t] = w] /\ w.todo = work[t].todo /\ w.at = "mark"
      BY <1>4, <2>2
    <3> HIDE DEF w
    <3> QED BY <3>1
  <2> QED BY <1>1, <1>2, <1>3, <2>1, <2>2
<1>10. CASE UpdateProxyInstanceDeploy(t)
  <2> DEFINE w == [work[t] EXCEPT !.at = "node", !.nodes = Tail(@), !.inb = {}]
  <2>1. work' = [work EXCEPT ![t] = w] /\ w.todo = work[t].todo /\ w.at = "node"
    BY <1>4, <1>10 DEF UpdateProxyInstanceDeploy
  <2> HIDE DEF w
  <2> QED BY <1>1, <1>2, <1>3, <2>1
<1>11. CASE RecomputeProxyServiceStatus(t)
  BY <1>1, <1>2, <1>3, <1>11 DEF RecomputeProxyServiceStatus
<1> QED BY <1>5, <1>6, <1>7, <1>8, <1>9, <1>10, <1>11 DEF Publish

\* What an apply answers for, and nothing else.
LEMMA InstApart ==
  ASSUME RunsTyped(runs), NEW x \in Services, NEW n \in Nodes, NEW answer, Answered(Inst(x, n), answer), NEW s \in Services, NEW m \in Nodes,
         s # x \/ m # n
  PROVE  runs'[Inst(s, m)] = runs[Inst(s, m)]
<1>1. Inst(s, m) # Inst(x, n)
  BY DEF Inst
<1> QED BY <1>1 DEF Answered

LEMMA OverlayGrows ==
  ASSUME Parts, NEW t \in Threads, PublishOverlay(t), Task1(t).op \in {"sync", "publish"}, NEW s \in Services
  PROVE  Grows(s)
<1> DEFINE x == Task1(t).svc
           c == work[t].cfg[1]
           us == IF config[x] = <<>> THEN <<>> ELSE ListActiveProxyClients(x)
           creds == EnsureCreds(us, x, c)
<1>1. x \in Services /\ IsConfig(c)
  BY Publisher DEF PublishOverlay, At, Parts
<1>2. us \in Seq(Users)
  BY ClientsListed
<1>3. cred' = creds /\ UNCHANGED <<rule, user>> /\ CredTyped(cred)
  BY DEF PublishOverlay, Parts
<1> HIDE DEF x, c, us
<1>4. \A y \in Services \X Users : cred[y] \subseteq creds[y]
  BY <1>1, <1>2, <1>3, EnsuredCreds
<1> HIDE DEF creds
<1> QED BY <1>3, <1>4, GrowsByCred

LEMMA PublishElsewhere ==
  ASSUME Parts, NEW t \in Threads, Publish(t), NEW s \in Services, s # Task1(t).svc, LockInv(s)
  PROVE  LockInv(s)'
<1> DEFINE x == Task1(t).svc
<1>1. /\ work[t].todo # <<>> /\ Task1(t).op \in {"sync", "publish"} /\ x \in Services
      /\ \/ Done(t)
         \/ \E w : work' = [work EXCEPT ![t] = w] /\ w.todo = work[t].todo /\ w.at # "next"
      /\ ThreadsTyped(work) /\ ServicesTyped(status, config, rows) /\ RunsTyped(runs)
  BY PublishSteps DEF Parts
<1>2. PublishersSame(s) /\ (Due(s) => Due(s)')
  <2>1. CASE Done(t)
    BY <1>1, <2>1, FromDone
  <2>2. ASSUME NEW w, work' = [work EXCEPT ![t] = w], w.todo = work[t].todo, w.at # "next"
        PROVE  PublishersSame(s) /\ (Due(s) => Due(s)')
    <3>1. ~Publishes(work[t], s) /\ ~Publishes(w, s)
      BY <2>2 DEF Publishes, Task1
    <3>2. Awaits(work[t], s) => Awaits(w, s)
      <4> SUFFICES ASSUME NEW i \in DOMAIN work[t].todo, work[t].todo[i].op = "sync", work[t].todo[i].svc = s
                   PROVE  i # 1
        BY <2>2 DEF Awaits
      <4> QED BY <1>1, TailTyped
    <3> QED BY <1>1, <2>2, <3>1, <3>2, OthersSame
  <2> QED BY <1>1, <2>1, <2>2
<1>3. \/ Grows(s) /\ UNCHANGED <<rows, runs, config, status>>
      \/ UNCHANGED <<rule, user, cred>>
  BY <1>1, OverlayGrows DEF Publish, PublishRead, PublishSave, PublishNode, PublishOverlay, applyProxyInstance,
     UpdateProxyInstanceDeploy, RecomputeProxyServiceStatus, panel
<1>4. Grows(s)
  BY <1>3, GrowsSame
<1>5. config'[s] = config[s] /\ status'[s] = status[s] /\ rows'[s] = rows[s]
  <2> HIDE DEF x
  <2>1. /\ config' = config \/ \E y : config' = [config EXCEPT ![x] = y]
        /\ status' = status \/ \E y : status' = [status EXCEPT ![x] = y]
        /\ rows' = rows \/ \E y : rows' = [rows EXCEPT ![x] = y]
    BY DEF x, Publish, PublishRead, PublishSave, PublishNode, PublishOverlay, applyProxyInstance,
       UpdateProxyInstanceDeploy, RecomputeProxyServiceStatus, panel
  <2>2. s # x
    BY DEF x
  <2> QED BY <1>1, <2>1, <2>2 DEF ServicesTyped
<1>6. SlotsSame(s)
  <2>1. CASE UNCHANGED runs
    BY <2>1, SlotsUnchanged
  <2>2. CASE applyProxyInstance(t)
    <3>1. Head(work[t].nodes).node \in Nodes
      BY <1>1, <2>2, Publisher DEF applyProxyInstance, At
    <3>2. \E answer : Answered(Inst(x, Head(work[t].nodes).node), answer)
      BY <2>2 DEF applyProxyInstance
    <3> QED BY <1>1, <3>1, <3>2, InstApart DEF SlotsSame
  <2> QED BY <2>1, <2>2 DEF Publish, PublishRead, PublishSave, PublishNode, PublishOverlay,
       UpdateProxyInstanceDeploy, RecomputeProxyServiceStatus
<1>7. (s \notin crossed' => s \notin crossed) /\ (s \notin owed' => s \notin owed)
  <2>1. CASE PublishRead(t)
    <3>1. crossed \ {x} \subseteq crossed' /\ owed \ {x} \subseteq owed'
      BY <2>1 DEF PublishRead
    <3> QED BY <3>1
  <2>2. CASE UNCHANGED <<owed, crossed>>
    BY <2>2
  <2> QED BY <2>1, <2>2 DEF Publish, PublishSave, PublishNode, PublishOverlay, applyProxyInstance,
       UpdateProxyInstanceDeploy, RecomputeProxyServiceStatus
<1>8. Lasting(s)
  BY <1>5 DEF Lasting, RowsSame
<1>9. Settling(s)' => Settling(s) /\ Grows(s)
  BY <1>2, <1>4, <1>7 DEF Settling
<1> QED BY <1>2, <1>6, <1>7, <1>8, <1>9, Undisturbed

-----------------------------------------------------------------------------
(* The lock under a publish of the service itself                          *)

Of(t, s) == Task1(t).svc = s

LEMMA InPublish ==
  ASSUME Parts, NEW t \in Threads, work[t].todo # <<>>, work[t].at # "next", Task1(t).op \in {"sync", "publish"},
         NEW s \in Services, Of(t, s), LockInv(s)
  PROVE  Publishes(work[t], s) /\ status[s] # "none"
<1>1. Publishes(work[t], s)
  BY DEF Publishes, Task1, Of
<1> QED BY <1>1 DEF LockInv, Unpublished

LEMMA SaveLocked ==
  ASSUME Parts, NEW t \in Threads, PublishSave(t), NEW s \in Services, Of(t, s), LockInv(s)
  PROVE  LockInv(s)'
<1> DEFINE w == [work[t] EXCEPT !.at = "node",
                   !.nodes = [i \in DOMAIN @ |-> [@[i] EXCEPT !.port = PortFor(Task1(t), work[t].cfg[1], work[t].nodes[i].node)]]]
<1>1. ThreadsTyped(work) /\ work[t].todo # <<>> /\ work[t].at = "save" /\ ServicesTyped(status, config, rows) /\ At(t, "save")
      /\ work' = [work EXCEPT ![t] = w] /\ UNCHANGED <<status, rows, cred, rule, user, runs, owed, crossed>>
      /\ config' = [config EXCEPT ![s] = IF @ = <<>> THEN @ ELSE work[t].cfg]
  BY DEF Parts, PublishSave, At, Of
<1>2. Task1(t).op \in {"sync", "publish"}
  BY <1>1, MidPublish
<1>3. DOMAIN work[t] = {"todo", "at", "cfg", "nodes", "inb", "ok"} /\ work[t].nodes \in Seq([node : Nodes, port : Nat])
  BY <1>1, <1>2, Publisher
<1>4. Publishes(work[t], s) /\ status[s] # "none"
  BY <1>1, <1>2, InPublish
<1>5. w.todo = work[t].todo /\ w.at = "node" /\ DOMAIN w.nodes = DOMAIN work[t].nodes
      /\ \A i \in DOMAIN work[t].nodes : w.nodes[i].node = work[t].nodes[i].node
  <2>1. w.todo = work[t].todo /\ w.at = "node"
        /\ w.nodes = [i \in DOMAIN work[t].nodes |->
                        [work[t].nodes[i] EXCEPT !.port = PortFor(Task1(t), work[t].cfg[1], work[t].nodes[i].node)]]
    BY <1>3
  <2> HIDE DEF w
  <2>2. ASSUME NEW i \in DOMAIN work[t].nodes PROVE w.nodes[i].node = work[t].nodes[i].node
    <3> DEFINE p == PortFor(Task1(t), work[t].cfg[1], work[t].nodes[i].node)
    <3>1. w.nodes[i] = [work[t].nodes[i] EXCEPT !.port = p]
      BY <2>1
    <3> HIDE DEF p
    <3>2. work[t].nodes[i] \in [node : Nodes, port : Nat]
      BY <1>3, Elements
    <3> QED BY <3>1, <3>2
  <2> QED BY <2>1, <2>2
<1> HIDE DEF w
<1>51. ThreadsTyped(work) /\ work' = [work EXCEPT ![t] = w] /\ w.todo = work[t].todo /\ w.at # "next" /\ work[t].at # "next"
  BY <1>1, <1>5
<1>6. /\ work'[t] = w /\ \A u \in Threads : u # t => work'[u] = work[u]
      /\ \A u \in Threads : Task1(u)' = Task1(u)
      /\ \A u \in Threads : Publishes(work'[u], s) <=> Publishes(work[u], s)
      /\ Due(s) => Due(s)'
  BY <1>51, MovedIn
<1>7. Ahead(w) = Ahead(work[t])
  BY <1>1, <1>5 DEF Ahead, InHand
<1>8. ASSUME config'[s] # <<>>
      PROVE  (/\ Rowed(s) /\ Agreed(s)
              /\ s \notin crossed => Lone(s)
              /\ Settling(s) => Bound(s) /\ Covered(s))'
  <2>1. config[s] # <<>>
    BY <1>1, <1>8 DEF ServicesTyped
  <2>2. Rowed(s) /\ (s \notin crossed => Lone(s)) /\ (Settling(s) => Bound(s) /\ Covered(s))
    BY <2>1 DEF LockInv
  <2>3. ~InHand(w)
    BY <1>5 DEF InHand
  <2>4. Rowed(s)'
    BY <1>1, <1>6, <2>2, <2>3 DEF Rowed
  <2>5. Agreed(s)'
    BY <1>4, <1>6 DEF Agreed
  <2>6. s \notin crossed' => Lone(s)'
    BY <1>1, <1>6, <2>2, <2>3 DEF Lone
  <2>7. ASSUME Settling(s)' PROVE Bound(s)' /\ Covered(s)'
    <3>1. Bound(s) /\ Covered(s)
      BY <1>1, <1>6, <2>2, <2>7 DEF Settling
    <3>2. Found'.rule = Found.rule /\ Found'.user = Found.user /\ Found'.cred = Found.cred
      BY <1>1 DEF Found
    <3>3. \A inbs : Harmless(Found', s, inbs) <=> Harmless(Found, s, inbs)
      BY <3>2 DEF Harmless, Entitled
    <3>4. Bound(s)'
      BY <1>1, <1>5, <1>6, <3>1, <3>3 DEF Bound
    <3>5. Covered(s)'
      BY <1>1, <1>6, <1>7, <3>1, <3>3 DEF Covered
    <3> QED BY <3>4, <3>5
  <2> QED BY <2>4, <2>5, <2>6, <2>7
<1>9. Unpublished(s)'
  BY <1>1, <1>4 DEF Unpublished
<1> QED BY <1>8, <1>9 DEF LockInv

\* A service that was deleted in between.
LEMMA Removed ==
  ASSUME NEW s, config'[s] = <<>>, status'[s] # "none"
  PROVE  LockInv(s)'
BY DEF LockInv, Unpublished

LEMMA NodeLocked ==
  ASSUME Parts, NEW t \in Threads, PublishNode(t), NEW s \in Services, Of(t, s), LockInv(s)
  PROVE  LockInv(s)'
<1> DEFINE to == Head(work[t].nodes)
           n == to.node
           list == UpsertProxyInstance(s, to.node, to.port)
<1>1. ThreadsTyped(work) /\ work[t].todo # <<>> /\ work[t].at = "node" /\ work[t].nodes # <<>> /\ At(t, "node")
      /\ ServicesTyped(status, config, rows) /\ UNCHANGED <<config, status, cred, rule, user, runs, owed, crossed>>
  BY DEF Parts, PublishNode, At
<1>2. Task1(t).op \in {"sync", "publish"}
  BY <1>1, MidPublish
<1>3. /\ DOMAIN work[t] = {"todo", "at", "cfg", "nodes", "inb", "ok"} /\ work[t].nodes \in Seq([node : Nodes, port : Nat])
      /\ to.node \in Nodes /\ to.port \in Nat \ {0} /\ to = work[t].nodes[1]
  BY <1>1, <1>2, Publisher
<1>4. Publishes(work[t], s) /\ status[s] # "none"
  BY <1>1, <1>2, InPublish
<1>5. CASE config[s] = <<>>
  BY <1>1, <1>4, <1>5, Removed
<1>6. CASE config[s] # <<>>
  <2>1. rows' = [rows EXCEPT ![s] = list]
    BY <1>6 DEF PublishNode, Of
  <2>2. rows'[s] = list
    BY <1>1, <2>1 DEF ServicesTyped
  <2>3. /\ \E i \in DOMAIN list : list[i].node = n
        /\ \A i \in DOMAIN list : list[i].node = n => list[i].status = "pending"
        /\ \A i \in DOMAIN list : list[i].node # n => i \in DOMAIN rows[s] /\ list[i] = rows[s][i]
        /\ \A i \in DOMAIN rows[s] : i \in DOMAIN list /\ list[i].node = rows[s][i].node
    <3> DEFINE a == to.node
               b == to.port
    <3>1. a \in Nodes /\ b \in Nat \ {0}
      BY <1>3
    <3> HIDE DEF a, b
    <3>2. ServicesTyped(status, config, rows)
      BY <1>1
    <3>3. HasRow(s, a, UpsertProxyInstance(s, a, b))
      BY <3>1, <3>2, Upserted
    <3> HIDE DEF list
    <3>4. HasRow(s, a, list)
      BY <3>3 DEF list, a, b
    <3> QED BY <3>4 DEF a, b, HasRow
  <2>4. PICK w : /\ work' = [work EXCEPT ![t] = w]
                 /\ w = [work[t] EXCEPT !.at = "overlay"] \/ w = [work[t] EXCEPT !.at = "mark", !.ok = FALSE]
    <3>1. work' = [work EXCEPT ![t].at = "overlay"] \/ work' = [work EXCEPT ![t].at = "mark", ![t].ok = FALSE]
      BY <1>6 DEF PublishNode, Of
    <3> QED BY <3>1
  <2>5. w.todo = work[t].todo /\ w.nodes = work[t].nodes /\ w.at \in {"overlay", "mark"} /\ (w.at = "mark" => w.ok = FALSE)
    BY <1>3, <2>4
  <2>6. n = work[t].nodes[1].node
    BY <1>3
  <2> HIDE DEF list, to, n
  <2>71. ThreadsTyped(work) /\ work' = [work EXCEPT ![t] = w] /\ w.todo = work[t].todo /\ w.at # "next" /\ work[t].at # "next"
    BY <1>1, <2>4, <2>5
  <2>7. /\ work'[t] = w /\ \A u \in Threads : u # t => work'[u] = work[u]
        /\ \A u \in Threads : Task1(u)' = Task1(u)
        /\ \A u \in Threads : Publishes(work'[u], s) <=> Publishes(work[u], s)
        /\ Due(s) => Due(s)'
    BY <2>71, MovedIn
  <2>8. Rowed(s) /\ (s \notin crossed => Lone(s)) /\ (Settling(s) => Bound(s) /\ Covered(s))
    BY <1>6 DEF LockInv
  <2>9. Rowed(s)'
    <3> SUFFICES ASSUME NEW u \in Threads, Publishes(work'[u], s), InHand(work'[u])
                 PROVE  \E i \in DOMAIN list : list[i].node = work'[u].nodes[1].node
      BY <2>2 DEF Rowed
    <3>1. CASE u = t
      BY <2>3, <2>5, <2>6, <2>7, <3>1
    <3>2. CASE u # t
      <4>1. PICK i \in DOMAIN rows[s] : rows[s][i].node = work[u].nodes[1].node
        BY <2>7, <2>8, <3>2 DEF Rowed
      <4> QED BY <2>3, <2>7, <3>2, <4>1
    <3> QED BY <3>1, <3>2
  <2>10. Agreed(s)'
    BY <1>4, <2>7 DEF Agreed
  <2>11. ASSUME s \notin crossed' PROVE Lone(s)'
    <3>1. Lone(s)
      BY <1>1, <2>8, <2>11
    <3>2. \A u \in Threads : Publishes(work'[u], s) => u = t
      BY <1>4, <2>7, <3>1 DEF Lone
    <3> QED BY <2>2, <2>3, <2>5, <2>6, <2>7, <3>2 DEF Lone
  <2>12. ASSUME Settling(s)' PROVE Bound(s)' /\ Covered(s)'
    <3>1. Bound(s) /\ Covered(s) /\ Lone(s)
      BY <1>1, <2>7, <2>8, <2>12 DEF Settling
    <3>2. \A u \in Threads : Publishes(work[u], s) => u = t
      BY <1>4, <3>1 DEF Lone
    <3>3. Bound(s)'
      <4>1. \A u \in Threads : Publishes(work'[u], s) => u = t
        BY <2>7, <3>2
      <4> QED BY <2>5, <2>7, <4>1 DEF Bound
    <3>4. Found'.rule = Found.rule /\ Found'.user = Found.user /\ Found'.cred = Found.cred
      BY <1>1 DEF Found
    <3>5. \A inbs : Harmless(Found', s, inbs) <=> Harmless(Found, s, inbs)
      BY <3>4 DEF Harmless, Entitled
    <3>6. Covered(s)'
      <4> SUFFICES ASSUME NEW i \in DOMAIN list, list[i].status = "ready"
                   PROVE  \/ Harmless(Found', s, runs'[Inst(s, list[i].node)])
                          \/ \E u \in Threads : Publishes(work'[u], s) /\ Task1(u)'.op = "sync" /\ list[i].node \in Ahead(work'[u])
        BY <2>2 DEF Covered
      <4>1. list[i].node # n /\ i \in DOMAIN rows[s] /\ list[i] = rows[s][i]
        BY <2>3
      <4>2. CASE Harmless(Found, s, runs[Inst(s, rows[s][i].node)])
        BY <1>1, <3>5, <4>1, <4>2
      <4>3. CASE Task1(t).op = "sync" /\ rows[s][i].node \in Ahead(work[t])
        <5>1. PICK j \in DOMAIN work[t].nodes : work[t].nodes[j].node = rows[s][i].node
          BY <4>3 DEF Ahead
        <5>2. j # 1 /\ j \in Nat /\ j > 1
          <6>1. j # 1
            BY <2>6, <4>1, <5>1
          <6>2. j \in Nat /\ j >= 1
            BY <1>3
          <6> QED BY <6>1, <6>2
        <5>3. rows[s][i].node \in Ahead(w)
          BY <2>5, <5>1, <5>2 DEF Ahead
        <5> QED BY <1>4, <2>7, <4>1, <4>3, <5>3
      <4> QED BY <3>1, <3>2, <4>1, <4>2, <4>3 DEF Covered
    <3> QED BY <3>3, <3>6
  <2>13. Unpublished(s)'
    BY <1>1, <1>4 DEF Unpublished
  <2> QED BY <2>9, <2>10, <2>11, <2>12, <2>13 DEF LockInv
<1> QED BY <1>5, <1>6

\* What a publish lets in: the clients listed, each under a secret he has.
LEMMA OverlayHarmless ==
  ASSUME Parts, NEW t \in Threads, PublishOverlay(t), Task1(t).op \in {"sync", "publish"}, NEW s \in Services, Of(t, s),
         config[s] # <<>>, NEW inbs,
         inbs = Inbound(overlayProxyConfigForPublish(work[t].cfg[1],
                          SecretsOf(EnsureCreds(ListActiveProxyClients(s), s, work[t].cfg[1]), ListActiveProxyClients(s), s)),
                        Head(work[t].nodes).port)
  PROVE  Harmless(Found', s, inbs)
<1> DEFINE c == work[t].cfg[1]
           us == ListActiveProxyClients(s)
           creds == EnsureCreds(us, s, c)
           secrets == SecretsOf(creds, us, s)
           d == overlayProxyConfigForPublish(c, secrets)
<1>1. IsConfig(c) /\ CredTyped(cred)
  BY Publisher DEF PublishOverlay, At, Parts
<1>2. us \in Seq(Users) /\ \A i \in DOMAIN us : us[i] \in Users /\ user[us[i]] = "ok" /\ Holds(us[i], s)
  BY ClientsListed
<1>3. cred' = creds /\ UNCHANGED <<rule, user>>
  <2>1. config[Task1(t).svc] # <<>> /\ Task1(t).svc = s
    BY DEF Of
  <2> QED BY <2>1 DEF PublishOverlay
<1> HIDE DEF c, us
<1>4. \A i \in DOMAIN us : \E y : creds[<<s, us[i]>>] = {y}
  <2>1. Provided(creds, us, s)
    BY <1>1, <1>2, EnsuredCreds
  <2> HIDE DEF creds
  <2> QED BY <2>1 DEF Provided
<1>5. secrets = [i \in DOMAIN us |-> CHOOSE x \in creds[<<s, us[i]>>] : TRUE]
  BY DEF SecretsOf
<1> HIDE DEF creds, secrets
<1>6. \A i \in DOMAIN us : secrets[i] \in creds[<<s, us[i]>>]
  BY <1>4, <1>5
<1>7. DOMAIN secrets = 1 .. Len(us) /\ Len(us) \in Nat
  BY <1>2, <1>5
<1>8. secrets \in Seq(ToSet(secrets))
  <2>1. \A i \in 1 .. Len(us) : secrets[i] \in ToSet(secrets)
    BY <1>7 DEF ToSet
  <2>2. secrets = [i \in 1 .. Len(us) |-> secrets[i]]
    BY <1>5, <1>7
  <2>3. secrets \in [1 .. Len(us) -> ToSet(secrets)]
    BY <2>1, <2>2
  <2> QED BY <1>7, <2>3, Listing
<1>9. d.proto = c.proto /\ c.proto \in Protocols /\ (c.proto # "mieru" => d.live = TRUE /\ d.users = secrets)
  BY <1>1, Overlaid
<1> DEFINE allowed == UNION {cred'[<<s, u>>] : u \in Entitled(Found', s)}
<1>10. ToSet(secrets) \subseteq allowed
  <2> SUFFICES ASSUME NEW i \in DOMAIN secrets PROVE secrets[i] \in allowed
    BY DEF ToSet
  <2>1. i \in DOMAIN us
    BY <1>5
  <2>2. us[i] \in Entitled(Found', s)
    <3>1. us[i] \in Users /\ user'[us[i]] = "ok"
      BY <1>2, <1>3, <2>1
    <3>2. Holds(us[i], s) /\ \A u : Holds(u, s) => Holds(u, s)'
      BY <1>2, <1>3, <2>1, HoldsKept
    <3> QED BY <3>1, <3>2, EntitledMeans
  <2> QED BY <1>3, <1>6, <2>1, <2>2
<1>11. Found'.cred = cred'
  BY DEF Found
<1>12. \A inb \in inbs : inb.proto # "mieru" => Admitted(inb) \subseteq allowed
  <2> SUFFICES ASSUME NEW inb \in inbs, inb.proto # "mieru" PROVE Admitted(inb) \subseteq allowed
    OBVIOUS
  <2>1. inb \in Inbound(d, Head(work[t].nodes).port)
    BY DEF c, us, creds, secrets
  <2> DEFINE port == Head(work[t].nodes).port
  <2> HIDE DEF d, port
  <2>2. CASE c.proto = "mieru"
    <3>1. inb \in MieruInbound(d, port)
      BY <1>9, <2>1, <2>2 DEF Inbound, port
    <3>2. inb.proto = "mieru"
      BY <3>1 DEF MieruInbound
    <3> QED BY <3>2
  <2>3. CASE c.proto # "mieru"
    <3>1. d.proto \in Protocols \ {"mieru"} /\ d.live = TRUE /\ d.users = secrets /\ d.users \in Seq(ToSet(d.users))
      BY <1>8, <1>9, <2>3
    <3>2. inb \in Inbound(d, port)
      BY <2>1 DEF port
    <3>3. Admitted(inb) \subseteq ToSet(d.users)
      BY <3>1, <3>2, AdmitsListed
    <3> QED BY <1>10, <3>1, <3>3
  <2> QED BY <2>2, <2>3
<1> QED BY <1>11, <1>12 DEF Harmless

LEMMA OverlayLocked ==
  ASSUME Parts, NEW t \in Threads, PublishOverlay(t), NEW s \in Services, Of(t, s), LockInv(s)
  PROVE  LockInv(s)'
<1>1. ThreadsTyped(work) /\ work[t].todo # <<>> /\ work[t].at = "overlay" /\ At(t, "overlay")
      /\ UNCHANGED <<config, status, rows, runs, owed, crossed>>
  BY DEF Parts, PublishOverlay, At
<1>2. Task1(t).op \in {"sync", "publish"}
  BY <1>1, MidPublish
<1>3. DOMAIN work[t] = {"todo", "at", "cfg", "nodes", "inb", "ok"}
  BY <1>1, <1>2, Publisher
<1>4. Publishes(work[t], s) /\ status[s] # "none"
  BY <1>1, <1>2, InPublish
<1>5. CASE config[s] = <<>>
  BY <1>1, <1>4, <1>5, Removed
<1>6. CASE config[s] # <<>>
  <2> DEFINE us == ListActiveProxyClients(s)
             inb == Inbound(overlayProxyConfigForPublish(work[t].cfg[1], SecretsOf(EnsureCreds(us, s, work[t].cfg[1]), us, s)),
                            Head(work[t].nodes).port)
             w == [work[t] EXCEPT !.at = "apply", !.inb = inb]
  <2>1. Harmless(Found', s, inb)
    BY <1>2, <1>6, OverlayHarmless
  <2>2. work' = [work EXCEPT ![t] = w]
    <3>1. config[Task1(t).svc] # <<>> /\ Task1(t).svc = s
      BY <1>6 DEF Of
    <3> QED BY <3>1 DEF PublishOverlay
  <2> HIDE DEF inb
  <2>3. w.todo = work[t].todo /\ w.at = "apply" /\ w.inb = inb /\ w.nodes = work[t].nodes
    BY <1>3
  <2> HIDE DEF w
  <2>4. ThreadsTyped(work) /\ w.at # "next" /\ work[t].at # "next"
    BY <1>1, <2>3
  <2>5. /\ work'[t] = w /\ \A u \in Threads : u # t => work'[u] = work[u]
        /\ \A u \in Threads : Task1(u)' = Task1(u)
        /\ \A u \in Threads : Publishes(work'[u], s) <=> Publishes(work[u], s)
        /\ Due(s) => Due(s)'
    BY <2>2, <2>3, <2>4, MovedIn
  <2>6. Rowed(s) /\ (s \notin crossed => Lone(s)) /\ (Settling(s) => Bound(s) /\ Covered(s))
    BY <1>6 DEF LockInv
  <2>7. InHand(w) /\ InHand(work[t]) /\ Ahead(w) = Ahead(work[t])
    BY <1>1, <2>3 DEF InHand, Ahead
  <2>8. Rowed(s)'
    BY <1>1, <2>3, <2>5, <2>6, <2>7 DEF Rowed
  <2>9. Agreed(s)'
    BY <1>4, <2>5 DEF Agreed
  <2>10. s \notin crossed' => Lone(s)'
    BY <1>1, <2>3, <2>5, <2>6, <2>7 DEF Lone
  <2>11. ASSUME Settling(s)' PROVE Bound(s)' /\ Covered(s)'
    <3>1. Bound(s) /\ Covered(s) /\ Lone(s)
      BY <1>1, <2>5, <2>6, <2>11 DEF Settling
    <3>2. \A inbs : Harmless(Found, s, inbs) => Harmless(Found', s, inbs)
      BY <1>2, OverlayGrows, HarmlessStays
    <3>3. \A u \in Threads : Publishes(work'[u], s) => u = t
      BY <1>4, <2>5, <3>1 DEF Lone
    <3>4. Bound(s)'
      BY <2>1, <2>3, <2>5, <3>3 DEF Bound
    <3>5. Covered(s)'
      <4> SUFFICES ASSUME NEW i \in DOMAIN rows'[s], rows'[s][i].status = "ready"
                   PROVE  \/ Harmless(Found', s, runs'[Inst(s, rows'[s][i].node)])
                          \/ \E u \in Threads : Publishes(work'[u], s) /\ Task1(u)'.op = "sync" /\ rows'[s][i].node \in Ahead(work'[u])
        BY DEF Covered
      <4>1. CASE Harmless(Found, s, runs[Inst(s, rows[s][i].node)])
        BY <1>1, <3>2, <4>1
      <4>2. CASE \E u \in Threads : Publishes(work[u], s) /\ Task1(u).op = "sync" /\ rows[s][i].node \in Ahead(work[u])
        BY <1>1, <2>5, <2>7, <4>2
      <4> QED BY <1>1, <3>1, <4>1, <4>2 DEF Covered
    <3> QED BY <3>4, <3>5
  <2>12. Unpublished(s)'
    BY <1>1, <1>4 DEF Unpublished
  <2> QED BY <2>8, <2>9, <2>10, <2>11, <2>12 DEF LockInv
<1> QED BY <1>5, <1>6

LEMMA ApplyLocked ==
  ASSUME Parts, NEW t \in Threads, applyProxyInstance(t), NEW s \in Services, Of(t, s), LockInv(s)
  PROVE  LockInv(s)'
<1> DEFINE n == Head(work[t].nodes).node
<1>1. ThreadsTyped(work) /\ work[t].todo # <<>> /\ work[t].at = "apply" /\ RunsTyped(runs) /\ ServicesTyped(status, config, rows)
      /\ Task1(t).op \in {"sync", "publish"}
      /\ UNCHANGED <<config, status, rows, rule, user, cred, owed, crossed>>
  BY DEF Parts, applyProxyInstance, At, panel
<1>2. /\ DOMAIN work[t] = {"todo", "at", "cfg", "nodes", "inb", "ok"} /\ AtMostOne(work[t].inb)
      /\ work[t].nodes # <<>> /\ Head(work[t].nodes) = work[t].nodes[1] /\ n \in Nodes
  BY <1>1, Publisher
<1>3. Publishes(work[t], s) /\ status[s] # "none"
  BY <1>1, InPublish
<1>4. PICK answer \in SendProxyServiceApply(work[t].inb, n) :
        /\ Answered(Inst(s, n), answer)
        /\ work' = [work EXCEPT ![t].at = "mark", ![t].ok = answer.ok]
  BY DEF applyProxyInstance, Of
<1>5. /\ answer.core \subseteq work[t].inb /\ (answer.ok => answer.core # {})
      /\ runs' = IF answer.core = {} THEN runs ELSE [runs EXCEPT ![Inst(s, n)] = answer.core]
  BY <1>1, <1>2, <1>4, AnswerTyped
<1> DEFINE w == [work[t] EXCEPT !.at = "mark", !.ok = answer.ok]
<1>6. work' = [work EXCEPT ![t] = w]
  BY <1>4
<1>7. w.todo = work[t].todo /\ w.at = "mark" /\ w.ok = answer.ok /\ w.nodes = work[t].nodes /\ w.nodes[1].node = n
  BY <1>2
<1> HIDE DEF w
<1>8. ThreadsTyped(work) /\ w.at # "next" /\ work[t].at # "next"
  BY <1>1, <1>7
<1>9. /\ work'[t] = w /\ \A u \in Threads : u # t => work'[u] = work[u]
      /\ \A u \in Threads : Task1(u)' = Task1(u)
      /\ \A u \in Threads : Publishes(work'[u], s) <=> Publishes(work[u], s)
      /\ Due(s) => Due(s)'
  BY <1>6, <1>7, <1>8, MovedIn
<1>10. InHand(w) /\ InHand(work[t]) /\ Ahead(w) = Ahead(work[t])
  BY <1>1, <1>7 DEF InHand, Ahead
<1>11. Inst(s, n) \in DOMAIN runs
  BY <1>1, <1>2 DEF RunsTyped, Slots
<1>12. \A m \in Nodes : m # n => runs'[Inst(s, m)] = runs[Inst(s, m)]
  BY <1>1, <1>2, <1>4, InstApart
<1> HIDE DEF n
<1>13. ASSUME config'[s] # <<>>
       PROVE  (/\ Rowed(s) /\ Agreed(s)
               /\ s \notin crossed => Lone(s)
               /\ Settling(s) => Bound(s) /\ Covered(s))'
  <2>1. Rowed(s) /\ (s \notin crossed => Lone(s)) /\ (Settling(s) => Bound(s) /\ Covered(s))
    BY <1>1, <1>13 DEF LockInv
  <2>2. Rowed(s)'
    BY <1>1, <1>7, <1>9, <1>10, <2>1 DEF Rowed
  <2>3. Agreed(s)'
    BY <1>3, <1>9 DEF Agreed
  <2>4. s \notin crossed' => Lone(s)'
    BY <1>1, <1>7, <1>9, <1>10, <2>1 DEF Lone
  <2>5. ASSUME Settling(s)' PROVE Bound(s)' /\ Covered(s)'
    <3>1. Bound(s) /\ Covered(s) /\ Lone(s)
      BY <1>1, <1>9, <2>1, <2>5 DEF Settling
    <3>2. \A inbs : Harmless(Found, s, inbs) => Harmless(Found', s, inbs)
      BY <1>1, GrowsSame, HarmlessStays
    <3>3. \A u \in Threads : Publishes(work'[u], s) => u = t
      BY <1>3, <1>9, <3>1 DEF Lone
    <3>4. w.ok => Harmless(Found', s, runs'[Inst(s, n)])
      <4>1. Harmless(Found, s, work[t].inb)
        BY <1>1, <1>3, <3>1 DEF Bound
      <4>2. Harmless(Found', s, work[t].inb)
        BY <3>2, <4>1
      <4>3. Harmless(Found', s, answer.core)
        BY <1>5, <4>2 DEF Harmless
      <4>4. w.ok => runs'[Inst(s, n)] = answer.core
        BY <1>5, <1>7, <1>11
      <4> QED BY <4>3, <4>4
    <3>5. Bound(s)'
      BY <1>7, <1>9, <3>3, <3>4 DEF Bound
    <3>6. Covered(s)'
      <4> SUFFICES ASSUME NEW i \in DOMAIN rows'[s], rows'[s][i].status = "ready"
                   PROVE  \/ Harmless(Found', s, runs'[Inst(s, rows'[s][i].node)])
                          \/ \E u \in Threads : Publishes(work'[u], s) /\ Task1(u)'.op = "sync" /\ rows'[s][i].node \in Ahead(work'[u])
        BY DEF Covered
      <4>1. i \in DOMAIN rows[s] /\ rows'[s][i] = rows[s][i]
        BY <1>1
      <4>2. rows[s][i].node \in Nodes
        BY <1>1, <4>1, OneService DEF RowTyped
      <4>3. rows[s][i].node # n
        BY <1>3, <1>7, <1>10, <3>1, <4>1 DEF Lone
      <4>4. CASE Harmless(Found, s, runs[Inst(s, rows[s][i].node)])
        BY <1>12, <3>2, <4>1, <4>2, <4>3, <4>4
      <4>5. CASE \E u \in Threads : Publishes(work[u], s) /\ Task1(u).op = "sync" /\ rows[s][i].node \in Ahead(work[u])
        BY <1>9, <1>10, <4>1, <4>5
      <4> QED BY <3>1, <4>1, <4>4, <4>5 DEF Covered
    <3> QED BY <3>5, <3>6
  <2> QED BY <2>2, <2>3, <2>4, <2>5
<1>14. Unpublished(s)'
  BY <1>1, <1>3 DEF Unpublished
<1> QED BY <1>13, <1>14 DEF LockInv

LEMMA DeployLocked ==
  ASSUME Parts, NEW t \in Threads, UpdateProxyInstanceDeploy(t), NEW s \in Services, Of(t, s), LockInv(s)
  PROVE  LockInv(s)'
<1> DEFINE n == Head(work[t].nodes).node
           c == work[t].cfg[1]
           ok == work[t].ok
           marked(row) == [row EXCEPT !.status = IF ok THEN "ready" ELSE "error", !.uri = BuildShareURI(c, row.port)]
           list == [i \in DOMAIN rows[s] |-> IF rows[s][i].node = n THEN marked(rows[s][i]) ELSE rows[s][i]]
           w == [work[t] EXCEPT !.at = "node", !.nodes = Tail(@), !.inb = {}]
<1>1. ThreadsTyped(work) /\ work[t].todo # <<>> /\ work[t].at = "mark" /\ ServicesTyped(status, config, rows)
      /\ Task1(t).op \in {"sync", "publish"} /\ UNCHANGED <<config, status, cred, rule, user, runs, owed, crossed>>
      /\ work' = [work EXCEPT ![t] = w] /\ rows' = [rows EXCEPT ![s] = list]
  BY DEF Parts, UpdateProxyInstanceDeploy, At, Of
<1>2. /\ DOMAIN work[t] = {"todo", "at", "cfg", "nodes", "inb", "ok"} /\ work[t].nodes \in Seq([node : Nodes, port : Nat])
      /\ work[t].nodes # <<>> /\ n = work[t].nodes[1].node /\ work[t].ok \in BOOLEAN
  BY <1>1, Publisher
<1>3. Publishes(work[t], s) /\ status[s] # "none"
  BY <1>1, InPublish
<1>4. rows'[s] = list /\ DOMAIN list = DOMAIN rows[s]
  BY <1>1 DEF ServicesTyped
<1>5. ASSUME NEW i \in DOMAIN rows[s]
      PROVE  /\ list[i].node = rows[s][i].node
             /\ IF rows[s][i].node = n THEN list[i].status = IF ok THEN "ready" ELSE "error"
                ELSE list[i].status = rows[s][i].status
  <2>1. RowTyped(rows[s][i])
    BY <1>1, OneService
  <2> DEFINE x == BuildShareURI(c, rows[s][i].port)
             y == IF ok THEN "ready" ELSE "error"
  <2>2. list[i] = IF rows[s][i].node = n THEN [rows[s][i] EXCEPT !.status = y, !.uri = x] ELSE rows[s][i]
    OBVIOUS
  <2> HIDE DEF list, x, n
  <2>3. CASE rows[s][i].node = n
    <3> HIDE DEF y
    <3>1. list[i].node = rows[s][i].node /\ list[i].status = y
      BY <2>1, <2>2, <2>3 DEF RowTyped
    <3> QED BY <2>3, <3>1 DEF y
  <2>4. CASE rows[s][i].node # n
    BY <2>2, <2>4
  <2> QED BY <2>3, <2>4
<1> HIDE DEF list
<1>6. w.todo = work[t].todo /\ w.at = "node" /\ w.nodes = Tail(work[t].nodes)
  BY <1>2
<1> HIDE DEF w
<1>7. ThreadsTyped(work) /\ work' = [work EXCEPT ![t] = w] /\ w.todo = work[t].todo /\ w.at # "next" /\ work[t].at # "next"
  BY <1>1, <1>6
<1>8. /\ work'[t] = w /\ \A u \in Threads : u # t => work'[u] = work[u]
      /\ \A u \in Threads : Task1(u)' = Task1(u)
      /\ \A u \in Threads : Publishes(work'[u], s) <=> Publishes(work[u], s)
      /\ Due(s) => Due(s)'
  BY <1>7, MovedIn
<1>9. Ahead(work[t]) \subseteq Ahead(w)
  <2> SUFFICES ASSUME NEW j \in DOMAIN work[t].nodes, j > 1 PROVE work[t].nodes[j].node \in Ahead(w)
    BY <1>1 DEF Ahead, InHand
  <2>1. j # 1 /\ j - 1 \in DOMAIN Tail(work[t].nodes) /\ Tail(work[t].nodes)[j - 1] = work[t].nodes[j]
    <3>1. j # 1
      BY <1>2
    <3> QED BY <1>2, <3>1, TailOf
  <2> QED BY <1>6, <2>1 DEF Ahead, InHand
<1>10. ~InHand(w) /\ InHand(work[t])
  BY <1>1, <1>6 DEF InHand
<1> HIDE DEF n, ok
<1>11. ASSUME config'[s] # <<>>
       PROVE  (/\ Rowed(s) /\ Agreed(s)
               /\ s \notin crossed => Lone(s)
               /\ Settling(s) => Bound(s) /\ Covered(s))'
  <2>1. Rowed(s) /\ (s \notin crossed => Lone(s)) /\ (Settling(s) => Bound(s) /\ Covered(s))
    BY <1>1, <1>11 DEF LockInv
  <2>2. Rowed(s)'
    <3> SUFFICES ASSUME NEW u \in Threads, Publishes(work'[u], s), InHand(work'[u])
                 PROVE  \E i \in DOMAIN list : list[i].node = work'[u].nodes[1].node
      BY <1>4 DEF Rowed
    <3>1. u # t
      BY <1>8, <1>10
    <3>2. PICK i \in DOMAIN rows[s] : rows[s][i].node = work[u].nodes[1].node
      BY <1>8, <2>1, <3>1 DEF Rowed
    <3> QED BY <1>4, <1>5, <1>8, <3>1, <3>2
  <2>3. Agreed(s)'
    BY <1>3, <1>8 DEF Agreed
  <2>4. ASSUME s \notin crossed PROVE \A u \in Threads : Publishes(work'[u], s) => u = t
    BY <1>3, <1>8, <2>1, <2>4 DEF Lone
  <2>5. s \notin crossed' => Lone(s)'
    BY <1>1, <1>8, <1>10, <2>4 DEF Lone
  <2>6. ASSUME Settling(s)' PROVE Bound(s)' /\ Covered(s)'
    <3>1. Bound(s) /\ Covered(s) /\ s \notin crossed
      BY <1>1, <1>8, <2>1, <2>6 DEF Settling
    <3>2. \A inbs : Harmless(Found, s, inbs) => Harmless(Found', s, inbs)
      BY <1>1, GrowsSame, HarmlessStays
    <3>3. Bound(s)'
      BY <1>6, <1>8, <2>4, <3>1 DEF Bound
    <3>4. Covered(s)'
      <4> SUFFICES ASSUME NEW i \in DOMAIN list, list[i].status = "ready"
                   PROVE  \/ Harmless(Found', s, runs'[Inst(s, list[i].node)])
                          \/ \E u \in Threads : Publishes(work'[u], s) /\ Task1(u)'.op = "sync" /\ list[i].node \in Ahead(work'[u])
        BY <1>4 DEF Covered
      <4>1. i \in DOMAIN rows[s] /\ list[i].node = rows[s][i].node
        BY <1>4, <1>5
      <4>2. CASE rows[s][i].node = n
        <5>1. work[t].ok
          BY <1>5, <4>1, <4>2 DEF ok
        <5>2. Harmless(Found, s, runs[Inst(s, n)])
          BY <1>1, <1>2, <1>3, <3>1, <5>1 DEF Bound
        <5> QED BY <1>1, <3>2, <4>1, <4>2, <5>2
      <4>3. CASE rows[s][i].node # n
        <5>1. rows[s][i].status = "ready"
          BY <1>5, <4>1, <4>3
        <5>2. CASE Harmless(Found, s, runs[Inst(s, rows[s][i].node)])
          BY <1>1, <3>2, <4>1, <5>2
        <5>3. ASSUME NEW u \in Threads, Publishes(work[u], s), Task1(u).op = "sync", rows[s][i].node \in Ahead(work[u])
              PROVE  Publishes(work'[u], s) /\ Task1(u)'.op = "sync" /\ list[i].node \in Ahead(work'[u])
          BY <1>8, <1>9, <4>1, <5>3
        <5> QED BY <3>1, <4>1, <5>1, <5>2, <5>3 DEF Covered
      <4> QED BY <4>2, <4>3
    <3> QED BY <3>3, <3>4
  <2> QED BY <2>2, <2>3, <2>5, <2>6
<1>12. Unpublished(s)'
  BY <1>1, <1>3 DEF Unpublished
<1> QED BY <1>11, <1>12 DEF LockInv

\* The last step of a publish.
LEMMA RecomputeLocked ==
  ASSUME Parts, NEW t \in Threads, RecomputeProxyServiceStatus(t), NEW s \in Services, Of(t, s), LockInv(s)
  PROVE  LockInv(s)'
<1>1. ThreadsTyped(work) /\ work[t].todo # <<>> /\ work[t].at = "node" /\ At(t, "node") /\ work[t].nodes = <<>>
      /\ ServicesTyped(status, config, rows) /\ Done(t)
      /\ UNCHANGED <<config, rows, cred, rule, user, runs, owed, crossed>>
      /\ status' = [status EXCEPT ![s] = IF config[s] = <<>> THEN @ ELSE Recomputed(s)]
  BY DEF Parts, RecomputeProxyServiceStatus, At, Of
<1>2. Task1(t).op \in {"sync", "publish"}
  BY <1>1, MidPublish
<1>3. Publishes(work[t], s) /\ status[s] # "none"
  BY <1>1, <1>2, InPublish
<1>4. work[t].at # "next"
  BY <1>1
<1>5. ~Publishes(work'[t], s) /\ (\A u \in Threads : u # t => work'[u] = work[u]) /\ (Due(s) => Due(s)')
  BY <1>1, <1>4, MovedOff
<1>6. \A u \in Threads : Publishes(work'[u], s) => work'[u] = work[u] /\ Publishes(work[u], s) /\ u # t
  BY <1>5
<1>7. ASSUME config[s] # <<>>
      PROVE  (/\ Rowed(s) /\ Agreed(s)
              /\ s \notin crossed => Lone(s)
              /\ Settling(s) => Bound(s) /\ Covered(s))'
  <2>1. Rowed(s) /\ (s \notin crossed => Lone(s)) /\ (Settling(s) => Bound(s) /\ Covered(s))
    BY <1>7 DEF LockInv
  <2>2. Rowed(s)'
    BY <1>1, <1>6, <2>1 DEF Rowed
  <2>3. Agreed(s)'
    <3>1. status'[s] = Recomputed(s)
      BY <1>1, <1>7 DEF ServicesTyped
    <3>2. Recomputed(s)' = Recomputed(s)
      BY <1>1 DEF Recomputed
    <3> QED BY <3>1, <3>2 DEF Agreed
  <2>4. s \notin crossed' => Lone(s)'
    BY <1>1, <1>6, <2>1 DEF Lone
  <2>5. ASSUME Settling(s)' PROVE Bound(s)' /\ Covered(s)'
    <3>1. Bound(s) /\ Covered(s) /\ Lone(s)
      BY <1>1, <1>5, <2>1, <2>5 DEF Settling
    <3>2. \A inbs : Harmless(Found, s, inbs) => Harmless(Found', s, inbs)
      BY <1>1, GrowsSame, HarmlessStays
    <3>3. \A u \in Threads : Publishes(work[u], s) => u = t
      BY <1>3, <3>1 DEF Lone
    <3>4. Bound(s)'
      BY <1>6, <3>3 DEF Bound
    <3>5. Ahead(work[t]) = {}
      <4>1. DOMAIN work[t].nodes = {}
        BY <1>1
      <4> QED BY <4>1 DEF Ahead
    <3>6. Covered(s)'
      BY <1>1, <3>1, <3>2, <3>3, <3>5 DEF Covered
    <3> QED BY <3>4, <3>6
  <2> QED BY <2>2, <2>3, <2>4, <2>5
<1>8. status'[s] # "none"
  <2>1. status'[s] = IF config[s] = <<>> THEN status[s] ELSE Recomputed(s)
    BY <1>1 DEF ServicesTyped
  <2>2. Recomputed(s) # "none"
    BY DEF Recomputed, RecomputedOf
  <2> QED BY <1>3, <2>1, <2>2
<1> QED BY <1>1, <1>7, <1>8 DEF LockInv, Unpublished

\* A publish that sets out: it has the service to itself, or it has crossed another.
LEMMA SetsOut ==
  ASSUME Parts, NEW t \in Threads, NEW s \in Services, Of(t, s), LockInv(s), At(t, "next"), Task1(t).op \in {"sync", "publish"},
         config[s] # <<>>, NEW w, work' = [work EXCEPT ![t] = w], w.todo = work[t].todo, w.at = "save",
         Task1(t).op = "sync" => \A i \in DOMAIN rows[s] : rows[s][i].node \in Ahead(w),
         s \notin crossed' => (\A u \in Threads : ~Publishes(work[u], s)) /\ (Task1(t).op # "sync" => s \notin crossed),
         s \notin owed' /\ Task1(t).op # "sync" => s \notin owed,
         UNCHANGED <<config, status, rows, cred, rule, user, runs>>
  PROVE  LockInv(s)'
<1>1. ThreadsTyped(work) /\ ServicesTyped(status, config, rows) /\ work[t].todo # <<>> /\ work[t].at = "next"
  BY DEF Parts, At
<1>2. work'[t] = w /\ \A u \in Threads : u # t => work'[u] = work[u]
  BY <1>1 DEF ThreadsTyped
<1>3. \A u \in Threads : Task1(u)' = Task1(u)
  BY <1>2 DEF Task1
<1>4. Publishes(w, s) /\ ~InHand(w)
  <2>1. Head(w.todo) = Task1(t) /\ Task1(t).svc = s
    BY DEF Task1, Of
  <2> QED BY <1>1, <2>1 DEF Publishes, InHand
<1>5. Rowed(s) /\ (s \notin crossed => Lone(s)) /\ (Settling(s) => Bound(s) /\ Covered(s))
  BY DEF LockInv
<1>6. Rowed(s)'
  BY <1>2, <1>4, <1>5 DEF Rowed
<1>7. Agreed(s)'
  BY <1>2, <1>4 DEF Agreed
<1>8. ASSUME s \notin crossed' PROVE \A u \in Threads : Publishes(work'[u], s) => u = t
  BY <1>2, <1>8
<1>9. s \notin crossed' => Lone(s)'
  BY <1>2, <1>4, <1>8 DEF Lone
<1>10. ASSUME Settling(s)' PROVE Bound(s)' /\ Covered(s)'
  <2>1. s \notin crossed' /\ s \notin owed' /\ ~Due(s)'
    BY <1>10 DEF Settling
  <2>2. Bound(s)'
    BY <1>2, <1>8, <2>1 DEF Bound
  <2>3. CASE Task1(t).op = "sync"
    <3>1. \A i \in DOMAIN rows[s] : Publishes(work'[t], s) /\ Task1(t)'.op = "sync" /\ rows[s][i].node \in Ahead(work'[t])
      BY <1>2, <1>3, <1>4, <2>3
    <3>2. Covered(s)'
      BY <3>1 DEF Covered
    <3> QED BY <2>2, <3>2
  <2>4. CASE Task1(t).op # "sync"
    <3>1. w.at # "next" /\ (work[t].at # "next" \/ Task1(t).op # "sync")
      BY <2>4
    <3>2. Due(s) => Due(s)'
      BY <1>1, <3>1, Moved
    <3>3. Covered(s)
      BY <1>5, <2>1, <2>4, <3>2 DEF Settling
    <3>4. \A i \in DOMAIN rows[s] : rows[s][i].status = "ready" => Harmless(Found, s, runs[Inst(s, rows[s][i].node)])
      BY <2>1, <3>3 DEF Covered
    <3>5. \A inbs : Harmless(Found, s, inbs) => Harmless(Found', s, inbs)
      BY GrowsSame, HarmlessStays
    <3>6. Covered(s)'
      BY <3>4, <3>5 DEF Covered
    <3> QED BY <2>2, <3>6
  <2> QED BY <2>3, <2>4
<1>11. Unpublished(s)'
  <2>1. status[s] # "none"
    BY <1>1, OneService
  <2> QED BY <2>1 DEF Unpublished
<1> QED BY <1>6, <1>7, <1>9, <1>10, <1>11 DEF LockInv

\* A sync of a service without instances: nothing is in hand, and none is ready.
LEMMA NothingToSync ==
  ASSUME Parts, NEW s \in Services, LockInv(s), DOMAIN rows[s] = {}, PublishersSame(s),
         UNCHANGED <<config, status, rows, crossed>>
  PROVE  LockInv(s)'
<1>1. \A t \in Threads : (Publishes(work[t], s) <=> Publishes(work'[t], s)) /\ (Publishes(work'[t], s) => work'[t] = work[t])
  BY DEF PublishersSame
<1>2. Unpublished(s)'
  BY <1>1 DEF LockInv, Unpublished
<1>3. ASSUME config[s] # <<>>
      PROVE  (Rowed(s) /\ Agreed(s) /\ Lone(s) /\ Bound(s) /\ Covered(s))' \/ s \in crossed'
  <2>1. Rowed(s) /\ Agreed(s) /\ (s \notin crossed => Lone(s))
    BY <1>3 DEF LockInv
  <2>2. \A t \in Threads : Publishes(work'[t], s) => ~InHand(work'[t])
    BY <1>1, <2>1 DEF Rowed
  <2>3. Agreed(s)'
    <3>1. Recomputed(s)' = Recomputed(s)
      BY DEF Recomputed
    <3> QED BY <1>1, <2>1, <3>1 DEF Agreed
  <2>4. Rowed(s)' /\ (s \notin crossed' => Lone(s)')
    BY <1>1, <2>1, <2>2 DEF Rowed, Lone
  <2>5. Bound(s)' /\ Covered(s)'
    BY <2>2 DEF Bound, InHand, Covered
  <2> QED BY <2>3, <2>4, <2>5
<1>4. ASSUME config[s] # <<>> PROVE Rowed(s)' /\ Agreed(s)'
  <2>1. Rowed(s) /\ Agreed(s)
    BY <1>4 DEF LockInv
  <2>2. Recomputed(s)' = Recomputed(s)
    BY DEF Recomputed
  <2> QED BY <1>1, <2>1, <2>2 DEF Rowed, Agreed
<1> QED BY <1>2, <1>3, <1>4 DEF LockInv, Settling

LEMMA ReadLocked ==
  ASSUME Parts, NEW t \in Threads, PublishRead(t), NEW s \in Services, Of(t, s), LockInv(s)
  PROVE  LockInv(s)'
<1> DEFINE nodes == IF Task1(t).op = "sync" THEN NodesOf(s) ELSE Task1(t).nodes
           fit == \E i \in DOMAIN config[s] : Publishable(config[s][i])
           list == [i \in DOMAIN nodes |-> [node |-> nodes[i], port |-> 0]]
           cfg == <<EnsureSecrets(config[s][1])>>
           w == [work[t] EXCEPT !.at = "save", !.nodes = list, !.cfg = cfg]
<1>1. ThreadsTyped(work) /\ ServicesTyped(status, config, rows) /\ work[t].todo # <<>> /\ work[t].at = "next" /\ At(t, "next")
      /\ Task1(t).op \in {"sync", "publish"} /\ UNCHANGED <<config, status, rows, cred, rule, user, runs>>
  BY DEF Parts, PublishRead, At, panel
<1>2. IF nodes # <<>> /\ fit
      THEN /\ work' = [work EXCEPT ![t].at = "save", ![t].nodes = list, ![t].cfg = cfg]
           /\ owed' = IF Task1(t).op = "sync" THEN owed \ {s} ELSE owed
           /\ crossed' = IF Publishing(s) # {} THEN crossed \union {s} ELSE IF Task1(t).op = "sync" THEN crossed \ {s} ELSE crossed
      ELSE Done(t) /\ owed' = (IF nodes # <<>> THEN owed \union {s} ELSE owed) /\ UNCHANGED crossed
  BY DEF PublishRead, Of
<1>3. Publishing(s) = {u \in Threads : Publishes(work[u], s)}
  BY DEF Publishing, Publishes, Task1
<1>4. DOMAIN work[t] = {"todo", "at", "cfg", "nodes", "inb", "ok"}
  BY <1>1, TodoTyped DEF ThreadTyped
<1>5. CASE nodes # <<>> /\ fit
  <2>1. config[s] # <<>>
    BY <1>5
  <2>2. work' = [work EXCEPT ![t] = w]
    BY <1>2, <1>5
  <2>3. Task1(t).op = "sync" => list = [i \in DOMAIN rows[s] |-> [node |-> rows[s][i].node, port |-> 0]]
    BY DEF NodesOf
  <2> HIDE DEF list, cfg
  <2>4. w.todo = work[t].todo /\ w.at = "save" /\ w.nodes = list
    BY <1>4
  <2> HIDE DEF w, nodes, fit
  <2>5. Task1(t).op = "sync" => \A i \in DOMAIN rows[s] : rows[s][i].node \in Ahead(w)
    <3> SUFFICES ASSUME Task1(t).op = "sync", NEW i \in DOMAIN rows[s] PROVE rows[s][i].node \in Ahead(w)
      OBVIOUS
    <3>1. i \in DOMAIN w.nodes /\ w.nodes[i].node = rows[s][i].node
      BY <2>3, <2>4
    <3> QED BY <2>4, <3>1 DEF Ahead, InHand
  <2>6. /\ s \notin crossed' => (\A u \in Threads : ~Publishes(work[u], s)) /\ (Task1(t).op # "sync" => s \notin crossed)
        /\ s \notin owed' /\ Task1(t).op # "sync" => s \notin owed
    BY <1>2, <1>3, <1>5
  <2> QED BY <1>1, <2>1, <2>2, <2>4, <2>5, <2>6, SetsOut
<1>6. CASE ~(nodes # <<>> /\ fit)
  <2>1. Done(t) /\ owed' = (IF nodes # <<>> THEN owed \union {s} ELSE owed) /\ UNCHANGED crossed
    BY <1>2, <1>6
  <2> HIDE DEF list, w, cfg, fit
  <2>2. PublishersSame(s)
    <3> DEFINE v == [Resting EXCEPT !.todo = Tail(work[t].todo)]
    <3>1. work' = [work EXCEPT ![t] = v] /\ ~Publishes(work[t], s)
      BY <1>1, <2>1 DEF Done, Become, Publishes
    <3>2. ~Publishes(v, s)
      BY QuietThread
    <3> HIDE DEF v
    <3> QED BY <1>1, <3>1, <3>2, OthersSame
  <2>3. Lasting(s) /\ SlotsSame(s) /\ Grows(s)
    BY <1>1, SlotsUnchanged, GrowsSame DEF Lasting, RowsSame
  <2>4. CASE nodes # <<>>
    <3>1. ~Settling(s)'
      BY <2>1, <2>4 DEF Settling
    <3> QED BY <2>1, <2>2, <2>3, <3>1, Undisturbed
  <2>5. CASE nodes = <<>> /\ Task1(t).op = "sync"
    <3>1. DOMAIN rows[s] = {}
      BY <1>1, <2>5, Instances
    <3> QED BY <1>1, <2>1, <2>2, <3>1, NothingToSync
  <2>6. CASE nodes = <<>> /\ Task1(t).op # "sync"
    <3>1. Due(s) => Due(s)'
      BY <1>1, <2>1, <2>6, MovedOff
    <3>2. Settling(s)' => Settling(s)
      BY <2>1, <2>6, <3>1 DEF Settling
    <3> QED BY <2>1, <2>2, <2>3, <3>2, Undisturbed
  <2> QED BY <2>4, <2>5, <2>6
<1> QED BY <1>5, <1>6

-----------------------------------------------------------------------------
(* The inductive invariant                                                 *)

LEMMA PublishLocked ==
  ASSUME Parts, NEW t \in Threads, Publish(t), NEW s \in Services, LockInv(s)
  PROVE  LockInv(s)'
<1>1. CASE ~Of(t, s)
  <2>1. s # Task1(t).svc
    BY <1>1 DEF Of
  <2> QED BY <2>1, PublishElsewhere
<1>2. CASE Of(t, s)
  <2>1. CASE PublishRead(t) \/ PublishSave(t) \/ PublishNode(t)
    BY <1>2, <2>1, ReadLocked, SaveLocked, NodeLocked
  <2>2. CASE PublishOverlay(t) \/ applyProxyInstance(t)
    BY <1>2, <2>2, OverlayLocked, ApplyLocked
  <2>3. CASE UpdateProxyInstanceDeploy(t) \/ RecomputeProxyServiceStatus(t)
    BY <1>2, <2>3, DeployLocked, RecomputeLocked
  <2> QED BY <2>1, <2>2, <2>3 DEF Publish
<1> QED BY <1>1, <1>2

LEMMA StepLocked ==
  ASSUME Parts, NEW t \in Threads, Step(t), NEW s \in Services, LockInv(s)
  PROVE  LockInv(s)'
<1>1. CASE Publish(t)
  BY <1>1, PublishLocked
<1>2. CASE deployRuleProtocolPlane(t) \/ deployApply(t) \/ stopRuleProtocolPlane(t)
  BY <1>2, DeployPlaneLocked, DeployApplyLocked, StopLocked
<1>3. CASE dispatchToNode(t) \/ republishProxyInstancesOnNode(t) \/ syncProxyInboundForUser(t)
  BY <1>3, DispatchLocked, RepublishLocked, SyncUserLocked
<1>4. CASE DeleteRule(t) \/ ACMERefused(t)
  BY <1>4, DropLocked, RefusedLocked
<1>5. CASE \E cert \in Issued : ACMEIssued(t, cert)
  BY <1>5, CertLocked
<1> QED BY <1>1, <1>2, <1>3, <1>4, <1>5 DEF Step

LEMMA AskLocked ==
  ASSUME Parts, NEW t \in Admins, Ask(t), NEW s \in Services, LockInv(s)
  PROVE  LockInv(s)'
<1>0. t \in Threads
  BY DEF Threads
<1>1. CASE \E x \in Services :
             \/ \E c \in Forms[x] : apiCreateProxyService(t, x, c) \/ apiUpdateProxyService(t, x, c)
             \/ apiDeleteProxyService(t, x) \/ apiIssueProxyServiceACME(t, x)
             \/ \E n \in Nodes, port \in Ports : apiPublishProxyService(t, x, n, port)
  BY <1>0, <1>1, CreateLocked, UpdateLocked, DeleteLocked, AskCertLocked, AskPublishLocked
<1>2. CASE \E n \in Nodes : apiResyncNode(t, n)
  BY <1>0, <1>2, ResyncLocked
<1>3. CASE \E r \in Rules :
             \/ apiDeleteRule(t, r)
             \/ \E u \in Users : (\E x \in Services : apiCreateRule(t, r, u, x))
                                   \/ \E x \in Services \union {""} : apiUpdateRule(t, r, u, x)
  BY <1>0, <1>3, AskDeleteLocked, CreateRuleLocked, UpdateRuleLocked
<1>4. CASE \E u \in Users : \/ \E x \in Services : apiRevokeProxyService(t, u, x)
                            \/ \E n \in Nodes : apiRevokeNode(t, u, n)
  BY <1>0, <1>4, RevokeLocked, RevokeNodeLocked
<1>5. CASE \E u \in Users :
             \/ apiToggleUser(t, u) \/ apiDeleteUser(t, u) \/ enforceUserQuota(t, u) \/ trafficCycleEnforcer(t, u)
             \/ apiSetUserExpiry(t, u)
  BY <1>0, <1>5, ToggleLocked, EraseLocked, QuotaLocked, CycleLocked, ExtendLocked
<1> QED BY <1>1, <1>2, <1>3, <1>4, <1>5 DEF Ask

LEMMA NextLocked ==
  ASSUME Parts, Next, NEW s \in Services, LockInv(s)
  PROVE  LockInv(s)'
<1>1. CASE \E t \in Threads : Step(t)
  BY <1>1, StepLocked
<1>2. CASE \E t \in Admins : Ask(t)
  BY <1>2, AskLocked
<1>3. CASE expiryEnforcer
  BY <1>3, EnforceLocked
<1>4. CASE \E u \in Users : Expire(u) \/ loadSubExportNodes(u)
  BY <1>4, ExpireLocked, FeedLocked
<1>5. CASE \E n \in Nodes : Agent(n)
  BY <1>5, AgentLocked
<1> QED BY <1>1, <1>2, <1>3, <1>4, <1>5 DEF Next

LEMMA InitLocked ==
  ASSUME Init, NEW s \in Services
  PROVE  LockInv(s)
<1>1. PICK p \in Panel :
        /\ config = p.config /\ status = p.status /\ rows = p.rows /\ rule = p.rule /\ user = p.user
        /\ cred = p.cred /\ runs = p.runs /\ online = p.online /\ cored = p.cored
  BY DEF Init
<1>2. Locked(p, s) /\ (p.config[s] # <<>> => p.status[s] = RecomputedOf(p.rows[s]))
  BY PanelAssumption
<1>3. \A t \in Threads : ~Publishes(work[t], s)
  BY AtRest DEF Init
<1>4. \A inbs : Harmless(p, s, inbs) => Harmless(Found, s, inbs)
  <2>1. Found.cred = p.cred /\ Found.rule = p.rule /\ Found.user = p.user
    BY <1>1 DEF Found
  <2> QED BY <2>1 DEF Harmless, Entitled
<1>5. Covered(s)
  BY <1>1, <1>2, <1>4 DEF Locked, Covered
<1>6. config[s] # <<>> => Agreed(s)
  BY <1>1, <1>2 DEF Agreed, Recomputed
<1> QED BY <1>3, <1>5, <1>6 DEF LockInv, Unpublished, Rowed, Lone, Bound

LEMMA SameLocked ==
  ASSUME Parts, UNCHANGED vars, NEW s \in Services, LockInv(s)
  PROVE  LockInv(s)'
<1>1. UNCHANGED <<config, status, rows, rule, user, cred, runs, work, owed, crossed>>
  BY DEF vars
<1> QED BY <1>1, GrowsSame, IdleLocked

LEMMA LockInductive == Spec => []IInv
<1>1. Init => IInv
  BY InitTyped, PartsOfType, InitLocked DEF IInv
<1>2. IInv /\ [Next]_vars => IInv'
  <2>1. ASSUME IInv, Next PROVE IInv'
    <3>1. Parts
      BY <2>1, PartsOfType DEF IInv
    <3>2. TypeOK'
      BY <2>1, <3>1, NextTyped, PartsOfType
    <3>3. ASSUME NEW s \in Services PROVE LockInv(s)'
      BY <2>1, <3>1, NextLocked DEF IInv
    <3> QED BY <3>2, <3>3 DEF IInv
  <2>2. ASSUME IInv, UNCHANGED vars PROVE IInv'
    <3>1. Parts
      BY <2>2, PartsOfType DEF IInv
    <3>2. Parts'
      BY <2>2, <3>1 DEF Parts, vars
    <3>3. ASSUME NEW s \in Services PROVE LockInv(s)'
      BY <2>2, <3>1, SameLocked DEF IInv
    <3> QED BY <3>2, <3>3, PartsOfType DEF IInv
  <2> QED BY <2>1, <2>2
<1> QED BY <1>1, <1>2, PTL DEF Spec

\* Who publishes has the publish among his tasks, and so has who is to.
LEMMA NotPending ==
  ASSUME Parts, NEW s \in Services, ~Pending(s)
  PROVE  ~Due(s) /\ \A t \in Threads : ~Publishes(work[t], s)
<1>1. ThreadsTyped(work)
  BY DEF Parts
<1>2. ~Due(s)
  BY DEF Due, Awaits, Pending
<1>3. ASSUME NEW t \in Threads, Publishes(work[t], s) PROVE FALSE
  <2>1. work[t].todo \in Seq(Tasks) /\ work[t].todo # <<>>
    BY <1>1, <1>3, TodoTyped DEF Publishes
  <2>2. 1 \in DOMAIN work[t].todo /\ Head(work[t].todo) = work[t].todo[1]
    BY <2>1, TailOf
  <2> QED BY <1>3, <2>2 DEF Publishes, Pending
<1> QED BY <1>2, <1>3

\* Whatever removed a rule, a user or his standing, the core behind a ready instance
\* of a settled service admits nobody who is not entitled.
THEOREM RevokedAlwaysLocked == Spec => []RevokedLocked
<1>1. IInv => RevokedLocked
  <2> SUFFICES ASSUME IInv, NEW s \in Services, Settled(s) PROVE Locked(Found, s)
    BY DEF RevokedLocked
  <2>1. Parts /\ LockInv(s)
    BY PartsOfType DEF IInv
  <2>2. ~Due(s) /\ \A t \in Threads : ~Publishes(work[t], s)
    BY <2>1, NotPending DEF Settled
  <2>3. Found.rows = rows /\ Found.runs = runs
    BY DEF Found
  <2>4. CASE config[s] = <<>>
    <3>1. status[s] \in {"none", "gone"}
      BY <2>1, <2>4, OneService DEF Parts
    <3>2. rows[s] = <<>>
      BY <2>1, <3>1, OneService DEF Parts
    <3>3. DOMAIN rows[s] = {}
      BY <3>2
    <3> QED BY <2>3, <3>3 DEF Locked
  <2>5. CASE config[s] # <<>>
    <3>1. Covered(s)
      BY <2>1, <2>2, <2>5 DEF LockInv, Settling, Settled
    <3> QED BY <2>2, <2>3, <3>1 DEF Locked, Covered
  <2> QED BY <2>4, <2>5
<1> QED BY <1>1, LockInductive, PTL

\* The status an administrator sees sums up the instances whenever no publish of the
\* service is under way.
THEOREM StatusAlwaysAgrees == Spec => []StatusAgrees
<1>1. IInv => StatusAgrees
  <2> SUFFICES ASSUME IInv, NEW s \in Services, config[s] # <<>>, ~Pending(s) PROVE status[s] = Recomputed(s)
    BY DEF StatusAgrees
  <2>1. Parts /\ LockInv(s)
    BY PartsOfType DEF IInv
  <2>2. \A t \in Threads : ~Publishes(work[t], s)
    BY <2>1, NotPending
  <2> QED BY <2>1, <2>2 DEF LockInv, Agreed
<1> QED BY <1>1, LockInductive, PTL
=============================================================================
