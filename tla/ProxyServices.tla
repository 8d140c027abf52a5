---------------------------- MODULE ProxyServices ----------------------------
(***************************************************************************)
(* Proxy services on the panel: an admin saves a configuration, publishes  *)
(* it on nodes, and gives users rules on it. Whoever has a live rule is a  *)
(* client of every instance, under a secret of his own; each change of     *)
(* rules or users publishes the service again. A rule also has a plane, a  *)
(* core of its own on its entry node. Handlers, the quota and the expiry   *)
(* enforcers run side by side, and a publish waits for the agents between  *)
(* what it reads and what it writes.                                       *)
(*                                                                         *)
(* A thread works through tasks. What a core runs is the inbound that      *)
(* ProxyLinks builds; a port, a host and the core's own supervision are    *)
(* left to the node. Every user with a rule on a service holds its grant.  *)
(***************************************************************************)
EXTENDS ProxyLinks

CONSTANTS
  Services, Nodes, Rules,
  UserOrder,   \* the users, in the order of their ids
  Entry,       \* rule -> its entry node
  Listen,      \* rule -> the port of its plane
  Forms,       \* service -> what admins send to save it
  Ports,       \* ports an admin may publish on, 0 for the configuration's
  Issued,      \* the certificates the CA issues
  Enforcer,    \* the thread that checks for expired users
  Admins,      \* handlers of requests: one request each at a time
  Plans,       \* which requests and faults a behaviour has, and how many
  Panel        \* what the panel may hold at the start

Users == ToSet(UserOrder)
Threads == Admins \union {Enforcer}
Inst(s, n) == <<"instance", s, n>>
Plane(r) == <<"rule", r, Entry[r]>>
Slots == {Inst(s, n) : s \in Services, n \in Nodes} \union {Plane(r) : r \in Rules}

ASSUME SitesAssumption ==
  /\ IsFiniteSet(Services) /\ IsFiniteSet(Nodes) /\ IsFiniteSet(Rules)
  /\ UserOrder \in Seq(Users) /\ IsInjective(UserOrder) /\ Enforcer \notin Admins
  /\ Entry \in [Rules -> Nodes] /\ Services \intersect Nodes = {} /\ "" \notin Services \union Users
  /\ Ports \subseteq Nat /\ \A s \in Services : \A c \in Forms[s] : IsConfig(c)

NoRule == [owner |-> "", svc |-> ""]

\* What the panel keeps, and what runs on the nodes.
AtMostOne(set) == \A x, y \in set : x = y
RowTyped(row) ==
  /\ DOMAIN row = {"node", "port", "status", "uri"}
  /\ row.node \in Nodes /\ row.port \in Nat \ {0} /\ row.status \in {"pending", "ready", "error"}
ServiceTyped(state, c, list) ==
  /\ IF state \in {"none", "gone"} THEN c = <<>> /\ list = <<>> ELSE c = <<c[1]>> /\ IsConfig(c[1])
  /\ list \in Seq(ToSet(list)) /\ \A i \in DOMAIN list : RowTyped(list[i])
  /\ \A i, j \in DOMAIN list : list[i].node = list[j].node => i = j
PanelTyped(p) ==
  /\ p.online \subseteq Nodes /\ p.cored \subseteq Nodes
  /\ p.rule \in [Rules -> {NoRule} \union [owner : Users, svc : Services \union {""}]]
  /\ p.user \in [Users -> {"ok", "expired", "disabled", "gone"}]
  /\ p.status \in [Services -> {"none", "draft", "ready", "partial", "error", "gone"}]
  /\ DOMAIN p.config = Services /\ DOMAIN p.rows = Services
  /\ DOMAIN p.cred = Services \X Users /\ \A x \in DOMAIN p.cred : AtMostOne(p.cred[x])
  /\ DOMAIN p.runs = Slots /\ \A x \in Slots : AtMostOne(p.runs[x])
  /\ \A s \in Services : ServiceTyped(p.status[s], p.config[s], p.rows[s])

\* Whom an inbound lets in, and who may be: the holders of the service's rules,
\* the expired ones until the enforcer's next pass. mieru has its template's
\* account besides.
Admitted(inb) ==
  CASE inb.proto = "vless" -> inb.ids
    [] inb.proto = "ss" /\ inb.users = {} -> ToSet(inb.psk)
    [] OTHER -> inb.users
Entitled(p, s) == {u \in Users : p.user[u] \in {"ok", "expired"} /\ \E r \in Rules : p.rule[r] = [owner |-> u, svc |-> s]}
Harmless(p, s, inbs) ==
  \A inb \in inbs : inb.proto # "mieru" => Admitted(inb) \subseteq UNION {p.cred[<<s, u>>] : u \in Entitled(p, s)}
Locked(p, s) ==
  \A i \in DOMAIN p.rows[s] : p.rows[s][i].status = "ready" => Harmless(p, s, p.runs[Inst(s, p.rows[s][i].node)])

\* The status an administrator sees sums up the instances.
RecomputedOf(list) ==
  LET all == {list[i].status : i \in DOMAIN list} IN
  CASE all = {} -> "draft" [] all = {"ready"} -> "ready" [] "ready" \in all -> "partial"
    [] "error" \in all -> "error" [] OTHER -> "partial"

\* The panel is found with nothing under way, and in order.
ASSUME PanelAssumption ==
  \A p \in Panel :
    PanelTyped(p) /\ \A s \in Services : Locked(p, s) /\ (p.config[s] # <<>> => p.status[s] = RecomputedOf(p.rows[s]))

VARIABLES
  config,   \* service -> its configuration, a sequence of at most one
  status,   \* service -> none, draft, ready, partial, error or gone
  rows,     \* service -> its instances, in the order of their ids
  rule,     \* rule -> its owner and service, both "" for no such rule
  user,     \* user -> ok, expired, disabled or gone
  cred,     \* service and user -> the secret minted for him, if any
  runs,     \* slot -> the inbound of the core that runs there, if any
  online,   \* nodes whose agent is connected
  cored,    \* nodes that reported the service's core
  work,     \* thread -> its tasks and the locals of the first of them
  plan,     \* what is left of the plan
  owed,     \* ghost: services left to the next publish, which nothing starts
  crossed   \* ghost: services two publishes of which overlapped

vars == <<config, status, rows, rule, user, cred, runs, online, cored, work, plan, owed, crossed>>
panel == <<config, status, rows, cred>>

Found ==
  [config |-> config, status |-> status, rows |-> rows, rule |-> rule, user |-> user, cred |-> cred, runs |-> runs,
   online |-> online, cored |-> cored]
Task(op, on, svc) == [op |-> op, on |-> on, svc |-> svc, owner |-> "", nodes |-> <<>>, port |-> 0]
Resting == [todo |-> <<>>, at |-> "next", cfg |-> <<>>, nodes |-> <<>>, inb |-> {}, ok |-> FALSE]

\* Clients of a service: users in good standing with a rule on it, by id.
Holds(u, s) == \E r \in Rules : rule[r] = [owner |-> u, svc |-> s]
\* A set of users, listed by id.
Id(u) == CHOOSE k \in DOMAIN UserOrder : UserOrder[k] = u
ById(set) == [i \in 1 .. Cardinality(set) |-> CHOOSE u \in set : Cardinality({v \in set : Id(v) < Id(u)}) = i - 1]
\* Mutant: whatever the user's standing.
ListProxyHolders(s) == ById({u \in Users : Holds(u, s)})
ListActiveProxyClients(s) == ById({u \in Users : user[u] = "ok" /\ Holds(u, s)})
ListProxyServiceIDsForUserRules(u) == {s \in Services : Holds(u, s)}
ListExpiredUserProxyServiceIDs == {s \in Services : \E u \in Users : user[u] = "expired" /\ Holds(u, s)}
DistinctUserNodes(us) == {Entry[r] : r \in {x \in Rules : rule[x].owner \in us}}

\* The first secret of a service is the template's.
ensureUserProxyCred(creds, u, s, c) ==
  IF creds[<<s, u>>] # {} THEN creds
  ELSE LET first == \A v \in Users : creds[<<s, v>>] = {}
       IN [creds EXCEPT ![<<s, u>>] =
             IF first /\ TemplateSecret(c) # {} THEN TemplateSecret(c) ELSE {MintUserSecret(c, u)}]
\* One user after the other; after the first, some user has a secret.
EnsureCreds(us, s, c) ==
  LET creds == IF us = <<>> THEN cred ELSE ensureUserProxyCred(cred, us[1], s, c) IN
  [x \in DOMAIN cred |-> IF x[1] = s /\ x[2] \in ToSet(us) THEN ensureUserProxyCred(creds, x[2], s, c)[x] ELSE creds[x]]
SecretsOf(creds, us, s) == [i \in DOMAIN us |-> CHOOSE x \in creds[<<s, us[i]>>] : TRUE]

\* Tasks for many services or nodes, in some order.
Each(op, set) == [i \in DOMAIN SetToSeq(set) |-> Task(op, "", SetToSeq(set)[i])]
Syncs(set) == Each("sync", set)
Dispatches(set) == [i \in DOMAIN SetToSeq(set) |-> Task("dispatch", SetToSeq(set)[i], "")]

-----------------------------------------------------------------------------
(* Threads *)

Task1(t) == Head(work[t].todo)
At(t, at) == work[t].at = at /\ work[t].todo # <<>>
Become(t, tasks) == work' = [work EXCEPT ![t] = [Resting EXCEPT !.todo = tasks]]
Done(t) == Become(t, Tail(work[t].todo))
Spend(what) == plan[what] > 0 /\ plan' = [plan EXCEPT ![what] = @ - 1]
Request(t, what, tasks) == work[t] = Resting /\ t \in Admins /\ Spend(what) /\ Become(t, tasks)
Publishing(s) == {t \in Threads : work[t].todo # <<>> /\ work[t].at # "next" /\ Task1(t).svc = s
                                    /\ Task1(t).op \in {"sync", "publish"}}

-----------------------------------------------------------------------------
(* Publishing a service *)

NodesOf(s) == [i \in DOMAIN rows[s] |-> rows[s][i].node]
RowOf(s, n) == {i \in DOMAIN rows[s] : rows[s][i].node = n}
Publishable(c) == validateProxyConfigForPublish(EnsureSecrets(c))

\* A sync publishes on the nodes that have an instance. A configuration that
\* cannot be deployed is left alone, with its rows as they are.
PublishRead(t) ==
  LET task == Task1(t)
      nodes == IF task.op = "sync" THEN NodesOf(task.svc) ELSE task.nodes
      fit == \E i \in DOMAIN config[task.svc] : Publishable(config[task.svc][i])
      alone == Publishing(task.svc) = {}
  IN /\ At(t, "next") /\ task.op \in {"sync", "publish"}
     /\ IF nodes # <<>> /\ fit
        THEN /\ work' = [work EXCEPT ![t].at = "save", ![t].nodes = [i \in DOMAIN nodes |-> [node |-> nodes[i], port |-> 0]],
                                     ![t].cfg = <<EnsureSecrets(config[task.svc][1])>>]
             /\ owed' = IF task.op = "sync" THEN owed \ {task.svc} ELSE owed
             /\ crossed' = IF ~alone THEN crossed \union {task.svc}
                           ELSE IF task.op = "sync" THEN crossed \ {task.svc} ELSE crossed
        ELSE /\ Done(t)
             /\ owed' = IF nodes # <<>> THEN owed \union {task.svc} ELSE owed
             /\ UNCHANGED crossed
     /\ UNCHANGED <<panel, rule, user, runs, online, cored, plan>>

\* Only an admin's publish moves an instance to another port.
PortFor(task, c, n) ==
  LET own == IF task.op = "sync" \/ task.on = "kept" THEN RowOf(task.svc, n) ELSE {} IN
  IF own = {} THEN Filled(task.port, 0, c.port) ELSE rows[task.svc][CHOOSE i \in own : TRUE].port

\* It writes back the row it read, with what EnsureSecrets filled in, and notes
\* the ports of the instances there are.
PublishSave(t) ==
  LET task == Task1(t) IN
  /\ At(t, "save")
  /\ config' = [config EXCEPT ![task.svc] = IF @ = <<>> THEN @ ELSE work[t].cfg]
  /\ work' = [work EXCEPT ![t].at = "node",
                          ![t].nodes = [i \in DOMAIN @ |-> [@[i] EXCEPT !.port = PortFor(task, work[t].cfg[1], work[t].nodes[i].node)]]]
  /\ UNCHANGED <<status, rows, cred, rule, user, runs, online, cored, plan, owed, crossed>>

\* Mutant: a row for every publish.
InsertProxyInstance(s, n, port) == Append(rows[s], [node |-> n, port |-> port, status |-> "pending", uri |-> {}])
UpsertProxyInstance(s, n, port) ==
  IF RowOf(s, n) = {} THEN Append(rows[s], [node |-> n, port |-> port, status |-> "pending", uri |-> {}])
  ELSE [i \in DOMAIN rows[s] |->
          IF i \in RowOf(s, n) THEN [rows[s][i] EXCEPT !.port = port, !.status = "pending"] ELSE rows[s][i]]

\* A core that is missing, or wanted anew, is sent from the panel's cache.
ensureCoreOnNodeForce(n, force) ==
  \/ n \in cored /\ ~force /\ UNCHANGED <<cored, plan>>
  \/ (n \notin cored \/ force) /\ n \in online /\ cored' = cored \union {n} /\ UNCHANGED plan
CoreMissing(n, force) ==
  /\ n \notin cored \/ force
  /\ IF n \in online THEN Spend("fault") ELSE UNCHANGED plan
  /\ UNCHANGED cored
NeedsCore(c) == c.proto = "vless" /\ NeedsVLESSEnc(c)

\* The node's row is pending until its agent has answered. The service may
\* have been deleted in between: then no row can be written.
PublishNode(t) ==
  LET s == Task1(t).svc
      c == work[t].cfg[1]
      to == Head(work[t].nodes)
  IN /\ At(t, "node") /\ work[t].nodes # <<>>
     /\ IF config[s] = <<>> THEN work' = [work EXCEPT ![t].nodes = Tail(@)] /\ UNCHANGED <<rows, cored, plan>>
        ELSE /\ rows' = [rows EXCEPT ![s] = UpsertProxyInstance(s, to.node, to.port)]
             /\ \/ ensureCoreOnNodeForce(to.node, NeedsCore(c)) /\ work' = [work EXCEPT ![t].at = "overlay"]
                \/ CoreMissing(to.node, NeedsCore(c)) /\ work' = [work EXCEPT ![t].at = "mark", ![t].ok = FALSE]
     /\ UNCHANGED <<config, status, cred, rule, user, runs, online, owed, crossed>>

\* The clients are read here, and whoever has no secret yet is given one; a
\* service deleted in between has none left.
PublishOverlay(t) ==
  LET s == Task1(t).svc
      c == work[t].cfg[1]
      us == IF config[s] = <<>> THEN <<>> ELSE ListActiveProxyClients(s)
      creds == EnsureCreds(us, s, c)
  IN /\ At(t, "overlay")
     /\ cred' = creds
     /\ work' = [work EXCEPT ![t].at = "apply",
                   ![t].inb = Inbound(overlayProxyConfigForPublish(c, SecretsOf(creds, us, s)), Head(work[t].nodes).port)]
     /\ UNCHANGED <<config, status, rows, rule, user, runs, online, cored, plan, owed, crossed>>

\* An agent that is away, a core that refuses, a request or an ack that is lost
\* are errors; after a lost ack the core runs what it was sent.
SendProxyServiceApply(inb, n) ==
  LET takes == {i \in inb : n \in online /\ CoreTakes(i)} IN
  {[ok |-> FALSE, core |-> {}, fault |-> takes # {}]}
    \union {[ok |-> ok, core |-> takes, fault |-> ~ok] : ok \in {o \in BOOLEAN : takes # {}}}
Answered(slot, answer) ==
  /\ runs' = IF answer.core = {} THEN runs ELSE [runs EXCEPT ![slot] = answer.core]
  /\ IF answer.fault THEN Spend("fault") ELSE UNCHANGED plan
applyProxyInstance(t) ==
  LET n == Head(work[t].nodes).node IN
  /\ At(t, "apply") /\ Task1(t).op \in {"sync", "publish"}
  /\ \E answer \in SendProxyServiceApply(work[t].inb, n) :
       /\ Answered(Inst(Task1(t).svc, n), answer)
       /\ work' = [work EXCEPT ![t].at = "mark", ![t].ok = answer.ok]
  /\ UNCHANGED <<panel, rule, user, online, cored, owed, crossed>>

\* Mutant: ready whatever the agent said.
UpdateProxyInstanceReady(t) ==
  LET s == Task1(t).svc
      n == Head(work[t].nodes).node
      marked(row) == [row EXCEPT !.status = "ready", !.uri = BuildShareURI(work[t].cfg[1], row.port)]
  IN /\ At(t, "mark") /\ Task1(t).op \in {"sync", "publish"}
     /\ rows' = [rows EXCEPT ![s] = [i \in DOMAIN @ |-> IF @[i].node = n THEN marked(@[i]) ELSE @[i]]]
     /\ work' = [work EXCEPT ![t].at = "node", ![t].nodes = Tail(@), ![t].inb = {}]
     /\ UNCHANGED <<config, status, cred, rule, user, runs, online, cored, plan, owed, crossed>>
UpdateProxyInstanceDeploy(t) ==
  LET s == Task1(t).svc
      n == Head(work[t].nodes).node
      marked(row) == [row EXCEPT !.status = IF work[t].ok THEN "ready" ELSE "error",
                                 !.uri = BuildShareURI(work[t].cfg[1], row.port)]
  IN /\ At(t, "mark") /\ Task1(t).op \in {"sync", "publish"}
     /\ rows' = [rows EXCEPT ![s] = [i \in DOMAIN @ |-> IF @[i].node = n THEN marked(@[i]) ELSE @[i]]]
     /\ work' = [work EXCEPT ![t].at = "node", ![t].nodes = Tail(@), ![t].inb = {}]
     /\ UNCHANGED <<config, status, cred, rule, user, runs, online, cored, plan, owed, crossed>>

Recomputed(s) == RecomputedOf(rows[s])
RecomputeProxyServiceStatus(t) ==
  LET s == Task1(t).svc IN
  /\ At(t, "node") /\ work[t].nodes = <<>>
  /\ status' = [status EXCEPT ![s] = IF config[s] = <<>> THEN @ ELSE Recomputed(s)]
  /\ Done(t)
  /\ UNCHANGED <<config, rows, cred, rule, user, runs, online, cored, plan, owed, crossed>>

-----------------------------------------------------------------------------
(* The plane of a rule *)

\* A handler loads its rule anew; after a dispatch the rules of the node were
\* listed, and what the list said is deployed. Neither asks whether the owner is
\* in good standing.
deployRuleProtocolPlane(t) ==
  LET task == Task1(t)
      r == task.on
      is == IF task.op = "plane" THEN rule[r] ELSE [owner |-> task.owner, svc |-> task.svc]
      s == is.svc
      c == EnsureSecrets(config[s][1])
      creds == ensureUserProxyCred(cred, is.owner, s, c)
      live == overlayProxyConfigForUser(c, CHOOSE x \in creds[<<s, is.owner>>] : TRUE)
      fit == s # "" /\ config[s] # <<>> /\ Publishable(config[s][1]) /\ user[is.owner] # "gone"
  IN /\ At(t, "next") /\ task.op \in {"plane", "listed"}
     /\ IF fit
        THEN /\ cred' = creds
             /\ \/ /\ ensureCoreOnNodeForce(Entry[r], NeedsCore(c))
                   /\ work' = [work EXCEPT ![t].at = "apply", ![t].inb = Inbound(live, Listen[r])]
                \/ CoreMissing(Entry[r], NeedsCore(c)) /\ Done(t)
        ELSE Done(t) /\ UNCHANGED <<cred, cored, plan>>
     /\ UNCHANGED <<config, status, rows, rule, user, runs, online, owed, crossed>>
deployApply(t) ==
  /\ At(t, "apply") /\ Task1(t).op \in {"plane", "listed"} /\ Done(t)
  /\ \E answer \in SendProxyServiceApply(work[t].inb, Entry[Task1(t).on]) : Answered(Plane(Task1(t).on), answer)
  /\ UNCHANGED <<panel, rule, user, online, cored, owed, crossed>>

\* Not without an agent, nor for a rule that has no service any more.
stopRuleProtocolPlane(t) ==
  LET r == Task1(t).on IN
  /\ At(t, "next") /\ Task1(t).op = "stop"
  /\ runs' = IF Entry[r] \in online /\ rule[r].svc # "" THEN [runs EXCEPT ![Plane(r)] = {}] ELSE runs
  /\ Done(t)
  /\ UNCHANGED <<panel, rule, user, online, cored, plan, owed, crossed>>

\* A ruleset reaches a connected node; its planes are deployed again then.
resyncProtocolPlanesOnNode(n) ==
  LET on == {r \in Rules : Entry[r] = n /\ rule[r].svc # "" /\ config[rule[r].svc] # <<>>} IN
  [i \in DOMAIN SetToSeq(on) |->
     LET r == SetToSeq(on)[i] IN [Task("listed", r, rule[r].svc) EXCEPT !.owner = rule[r].owner]]
dispatchToNode(t) ==
  LET n == Task1(t).on IN
  /\ At(t, "next") /\ Task1(t).op = "dispatch"
  /\ IF n \in online THEN Become(t, resyncProtocolPlanesOnNode(n) \o Tail(work[t].todo)) ELSE Done(t)
  /\ UNCHANGED <<panel, rule, user, runs, online, cored, plan, owed, crossed>>

-----------------------------------------------------------------------------
(* Requests about services *)

Quiet == <<rule, user, runs, online, cored, owed, crossed>>

apiCreateProxyService(t, s, c) ==
  /\ status[s] = "none" /\ c \in Forms[s] /\ Request(t, "create", <<>>)
  /\ IF validateProxyConfigForSave(EnsureSecrets(c))
     THEN config' = [config EXCEPT ![s] = <<EnsureSecrets(c)>>] /\ status' = [status EXCEPT ![s] = "draft"]
     ELSE UNCHANGED <<config, status>>
  /\ UNCHANGED <<rows, cred, Quiet>>

\* The instances keep what they run, and their links, until the next publish.
apiUpdateProxyService(t, s, c) ==
  /\ config[s] # <<>> /\ c \in Forms[s] /\ Request(t, "save", <<>>)
  /\ LET merged == EnsureSecrets(mergePreservedProxySecrets(config[s][1], c)) IN
     config' = [config EXCEPT ![s] = IF validateProxyConfigForSave(merged) THEN <<merged>> ELSE @]
  /\ UNCHANGED <<status, rows, cred, Quiet>>

\* Instances and secrets go with it; the cores run on.
apiDeleteProxyService(t, s) ==
  /\ config[s] # <<>> /\ Request(t, "remove", <<>>)
  /\ config' = [config EXCEPT ![s] = <<>>] /\ status' = [status EXCEPT ![s] = "gone"]
  /\ rows' = [rows EXCEPT ![s] = <<>>]
  /\ cred' = [x \in DOMAIN cred |-> IF x[1] = s THEN {} ELSE cred[x]]
  /\ UNCHANGED Quiet

apiPublishProxyService(t, s, n, port) ==
  /\ config[s] # <<>>
  /\ Request(t, "publish", <<[Task("publish", "", s) EXCEPT !.nodes = <<n>>, !.port = port]>>)
  /\ UNCHANGED <<panel, Quiet>>

\* The CA takes minutes. What was read before is then written back with the new
\* certificate, and published unless the admin said not to, or with a note of what
\* went wrong.
mergeACMEIntoConfigJSON(c, cert) ==
  IF c.proto = "vless" THEN [c EXCEPT !.sec = "tls", !.cert = cert] ELSE [c EXCEPT !.cert = cert]
apiIssueProxyServiceACME(t, s) ==
  /\ config[s] # <<>> /\ config[s][1].proto \in {"vless", "anytls", "naive"} /\ config[s][1].name # ""
  /\ work[t] = Resting /\ t \in Admins /\ Spend("issue")
  /\ work' = [work EXCEPT ![t].todo = <<Task("issue", "", s)>>, ![t].at = "issue", ![t].cfg = config[s]]
  /\ UNCHANGED <<panel, Quiet>>
ACMEIssued(t, cert) ==
  LET s == Task1(t).svc
      merged == mergeACMEIntoConfigJSON(work[t].cfg[1], cert)
  IN /\ At(t, "issue") /\ cert \in Issued
     /\ config' = [config EXCEPT ![s] = IF @ = <<>> THEN @ ELSE <<merged>>]
     /\ rows' = [rows EXCEPT ![s] = [i \in DOMAIN @ |-> [@[i] EXCEPT !.uri = BuildShareURI(merged, rows[s][i].port)]]]
     /\ \/ Become(t, <<Task("sync", "", s)>>) /\ UNCHANGED owed
        \/ Done(t) /\ owed' = owed \union {s}
     /\ UNCHANGED <<status, cred, plan, rule, user, runs, online, cored, crossed>>
ACMERefused(t) ==
  LET s == Task1(t).svc IN
  /\ At(t, "issue")
  /\ config' = [config EXCEPT ![s] = IF @ = <<>> THEN @ ELSE work[t].cfg]
  /\ Done(t)
  /\ UNCHANGED <<status, rows, cred, plan, Quiet>>

\* Every service with an instance on the node, at the port it has.
republishProxyInstancesOnNode(t) ==
  LET n == Task1(t).on
      on == SetToSeq({s \in Services : RowOf(s, n) # {}})
  IN /\ At(t, "next") /\ Task1(t).op = "republish"
     /\ Become(t, [i \in DOMAIN on |-> [Task("publish", "kept", on[i]) EXCEPT !.nodes = <<n>>]] \o Tail(work[t].todo))
     /\ UNCHANGED <<panel, plan, Quiet>>
apiResyncNode(t, n) ==
  /\ Request(t, "resync", <<Task("dispatch", n, ""), Task("republish", n, "")>>)
  /\ UNCHANGED <<panel, Quiet>>

\* A user's feed lists the instances that are ready, with his own secret, minted
\* now if he has none.
loadSubExportNodes(u) ==
  LET seen == {s \in Services : user[u] = "ok" /\ Holds(u, s) /\ \E i \in DOMAIN rows[s] : rows[s][i].status = "ready"}
  IN /\ \E s \in seen : cred[<<s, u>>] = {}
     /\ Spend("feed")
     /\ cred' = [x \in DOMAIN cred |->
                   IF x[1] \in seen /\ x[2] = u THEN ensureUserProxyCred(cred, u, x[1], config[x[1]][1])[x] ELSE cred[x]]
     /\ UNCHANGED <<config, status, rows, work, Quiet>>

-----------------------------------------------------------------------------
(* Requests about rules and users *)

Unsaved == <<config, status, rows, runs, online, cored, crossed>>
RulesDropped(gone) == rule' = [r \in Rules |-> IF r \in gone THEN NoRule ELSE rule[r]]

apiCreateRule(t, r, u, s) ==
  /\ rule[r] = NoRule /\ user[u] # "gone" /\ config[s] # <<>>
  /\ Request(t, "rule", <<Task("dispatch", Entry[r], ""), Task("sync", "", s), Task("plane", r, "")>>)
  /\ rule' = [rule EXCEPT ![r] = [owner |-> u, svc |-> s]]
  /\ UNCHANGED <<Unsaved, user, cred, owed>>

\* Another service, none, or another owner.
apiUpdateRule(t, r, u, s) ==
  /\ rule[r] # NoRule /\ user[u] # "gone" /\ (s # "" => config[s] # <<>>)
  /\ Request(t, "move", <<Task("dispatch", Entry[r], "")>> \o Syncs({rule[r].svc, s} \ {""}) \o <<Task("plane", r, "")>>)
  /\ rule' = [rule EXCEPT ![r] = [owner |-> u, svc |-> s]]
  /\ UNCHANGED <<Unsaved, user, cred, owed>>

apiDeleteRule(t, r) ==
  /\ rule[r] # NoRule
  /\ Request(t, "delete", <<Task("stop", r, ""), Task("drop", r, ""), Task("dispatch", Entry[r], "")>>
                            \o Syncs({rule[r].svc} \ {""}))
  /\ UNCHANGED <<Unsaved, rule, user, cred, owed>>
\* The service that was noted before is published again, which is not that of the
\* rule any more if another request moved it.
DeleteRule(t) ==
  LET s == rule[Task1(t).on].svc
      noted == \E i \in DOMAIN work[t].todo : work[t].todo[i].op = "sync" /\ work[t].todo[i].svc = s
  IN /\ At(t, "next") /\ Task1(t).op = "drop" /\ RulesDropped({Task1(t).on}) /\ Done(t)
     /\ owed' = IF s = "" \/ noted THEN owed ELSE owed \union {s}
     /\ UNCHANGED <<Unsaved, user, cred, plan>>

apiRevokeProxyService(t, u, s) ==
  LET gone == {r \in Rules : rule[r] = [owner |-> u, svc |-> s]} IN
  /\ Request(t, "revoke", Dispatches({Entry[r] : r \in gone}) \o Syncs({s}))
  /\ RulesDropped(gone)
  /\ UNCHANGED <<Unsaved, user, cred, owed>>

\* Revoking a node deletes the rules that enter there; their services are not
\* published again.
apiRevokeNode(t, u, n) ==
  LET gone == {r \in Rules : rule[r].owner = u /\ Entry[r] = n} IN
  /\ gone # {}
  /\ Request(t, "revokeNode", <<Task("dispatch", n, "")>>)
  /\ RulesDropped(gone)
  /\ owed' = owed \union {rule[r].svc : r \in {x \in gone : rule[x].svc # ""}}
  /\ UNCHANGED <<Unsaved, user, cred>>

apiToggleUser(t, u) ==
  /\ user[u] \in {"ok", "disabled"}
  /\ Request(t, "toggle", Dispatches(DistinctUserNodes({u})) \o Syncs(ListProxyServiceIDsForUserRules(u)))
  /\ user' = [user EXCEPT ![u] = IF @ = "ok" THEN "disabled" ELSE "ok"]
  /\ UNCHANGED <<Unsaved, rule, cred, owed>>

apiDeleteUser(t, u) ==
  /\ user[u] # "gone"
  /\ Request(t, "erase", Dispatches(DistinctUserNodes({u})) \o Syncs(ListProxyServiceIDsForUserRules(u)))
  /\ user' = [user EXCEPT ![u] = "gone"]
  /\ RulesDropped({r \in Rules : rule[r].owner = u})
  /\ cred' = [x \in DOMAIN cred |-> IF x[2] = u THEN {} ELSE cred[x]]
  /\ UNCHANGED <<Unsaved, owed>>

\* Over his quota; and the cycle that gives it back.
enforceUserQuota(t, u) ==
  /\ user[u] = "ok"
  /\ Request(t, "quota", Syncs(ListProxyServiceIDsForUserRules(u)) \o Dispatches(DistinctUserNodes({u})))
  /\ user' = [user EXCEPT ![u] = "disabled"]
  /\ UNCHANGED <<Unsaved, rule, cred, owed>>
trafficCycleEnforcer(t, u) ==
  /\ user[u] = "disabled"
  /\ Request(t, "cycle", Dispatches(DistinctUserNodes({u})) \o <<Task("user", u, "")>>)
  /\ user' = [user EXCEPT ![u] = "ok"]
  /\ UNCHANGED <<Unsaved, rule, cred, owed>>
syncProxyInboundForUser(t) ==
  /\ At(t, "next") /\ Task1(t).op = "user"
  /\ Become(t, Syncs(ListProxyServiceIDsForUserRules(Task1(t).on)) \o Tail(work[t].todo))
  /\ UNCHANGED <<Unsaved, rule, user, cred, plan, owed>>

\* More time for a user: his services wait for the next publish.
apiSetUserExpiry(t, u) ==
  /\ user[u] = "expired"
  /\ Request(t, "extend", Dispatches(DistinctUserNodes({u})))
  /\ user' = [user EXCEPT ![u] = "ok"]
  /\ owed' = owed \union ListProxyServiceIDsForUserRules(u)
  /\ UNCHANGED <<Unsaved, rule, cred>>
Expire(u) ==
  /\ user[u] = "ok" /\ Spend("expire")
  /\ user' = [user EXCEPT ![u] = "expired"]
  /\ UNCHANGED <<Unsaved, rule, cred, work, owed>>
\* Mutant: the rules only.
expiryDispatches ==
  LET late == {u \in Users : user[u] = "expired"} IN
  /\ work[Enforcer] = Resting /\ DistinctUserNodes(late) # {}
  /\ Become(Enforcer, Dispatches(DistinctUserNodes(late)))
  /\ UNCHANGED <<Unsaved, rule, user, cred, plan, owed>>
\* Every 30 seconds, as long as somebody expired has rules.
expiryEnforcer ==
  LET late == {u \in Users : user[u] = "expired"} IN
  /\ work[Enforcer] = Resting /\ DistinctUserNodes(late) # {}
  /\ Become(Enforcer, Syncs(ListExpiredUserProxyServiceIDs) \o Dispatches(DistinctUserNodes(late)))
  /\ UNCHANGED <<Unsaved, rule, user, cred, plan, owed>>

Agent(n) ==
  /\ \/ n \in online /\ Spend("down") /\ online' = online \ {n}
     \/ n \notin online /\ online' = online \union {n} /\ UNCHANGED plan
  /\ UNCHANGED <<panel, rule, user, runs, cored, work, owed, crossed>>

-----------------------------------------------------------------------------

Init ==
  /\ \E p \in Panel :
       /\ config = p.config /\ status = p.status /\ rows = p.rows /\ rule = p.rule /\ user = p.user
       /\ cred = p.cred /\ runs = p.runs /\ online = p.online /\ cored = p.cored
  /\ work = [t \in Threads |-> Resting]
  /\ plan \in Plans
  /\ owed = {} /\ crossed = {}

Publish(t) ==
  \/ PublishRead(t) \/ PublishSave(t) \/ PublishNode(t) \/ PublishOverlay(t)
  \/ applyProxyInstance(t) \/ UpdateProxyInstanceDeploy(t) \/ RecomputeProxyServiceStatus(t)
Step(t) ==
  \/ Publish(t)
  \/ deployRuleProtocolPlane(t) \/ deployApply(t) \/ stopRuleProtocolPlane(t) \/ dispatchToNode(t)
  \/ republishProxyInstancesOnNode(t) \/ syncProxyInboundForUser(t) \/ DeleteRule(t)
  \/ ACMERefused(t) \/ \E cert \in Issued : ACMEIssued(t, cert)
Ask(t) ==
  \/ \E s \in Services :
       \/ \E c \in Forms[s] : apiCreateProxyService(t, s, c) \/ apiUpdateProxyService(t, s, c)
       \/ apiDeleteProxyService(t, s) \/ apiIssueProxyServiceACME(t, s)
       \/ \E n \in Nodes, port \in Ports : apiPublishProxyService(t, s, n, port)
  \/ \E n \in Nodes : apiResyncNode(t, n)
  \/ \E r \in Rules :
       \/ apiDeleteRule(t, r)
       \/ \E u \in Users : (\E s \in Services : apiCreateRule(t, r, u, s))
                             \/ \E s \in Services \union {""} : apiUpdateRule(t, r, u, s)
  \/ \E u \in Users :
       \/ \E s \in Services : apiRevokeProxyService(t, u, s)
       \/ \E n \in Nodes : apiRevokeNode(t, u, n)
       \/ apiToggleUser(t, u) \/ apiDeleteUser(t, u) \/ enforceUserQuota(t, u) \/ trafficCycleEnforcer(t, u)
       \/ apiSetUserExpiry(t, u)
Next ==
  \/ \E t \in Threads : Step(t)
  \/ \E t \in Admins : Ask(t)
  \/ expiryEnforcer
  \/ \E u \in Users : Expire(u) \/ loadSubExportNodes(u)
  \/ \E n \in Nodes : Agent(n)

Spec == Init /\ [][Next]_vars
\* Some thread runs on, or the enforcer's ticker ticks, as long as either can; and
\* an agent redials for ever. This is weak fairness of every step of a thread, written
\* out: such a step changes work, and one is enabled unless all are idle; requests,
\* which change it too, come to an end. Less than each thread's own fairness is enough.
Idle == (\A t \in Threads : work[t] = Resting) /\ ~ENABLED expiryEnforcer
Redial == \E n \in Nodes \ online : Agent(n)
Fairness == ([]<>Idle \/ []<><<TRUE>>_work) /\ WF_vars(Redial)
FairSpec == Spec /\ Fairness

-----------------------------------------------------------------------------
(* Properties *)

\* What the panel keeps, and locals that fit the task and the stage a thread is at.
Tasks ==
  {x \in [op : {"sync", "publish", "issue", "dispatch", "republish", "plane", "listed", "stop", "drop", "user"},
          on : UNION {Nodes, Rules, Users, {"", "kept"}}, svc : Services \union {""}, owner : Users \union {""},
          nodes : Seq(Nodes), port : Nat] :
     /\ x.op \in {"sync", "publish", "issue"} => x.svc \in Services
     /\ x.op \in {"dispatch", "republish"} => x.on \in Nodes
     /\ x.op \in {"plane", "listed", "stop", "drop"} => x.on \in Rules
     /\ x.op = "user" => x.on \in Users}
ThreadTyped(w) ==
  /\ DOMAIN w = {"todo", "at", "cfg", "nodes", "inb", "ok"}
  /\ w.todo \in Seq(Tasks) /\ w.nodes \in Seq([node : Nodes, port : Nat])
  /\ w.ok \in BOOLEAN /\ AtMostOne(w.inb)
  /\ w.at \in {"next", "save", "node", "overlay", "apply", "mark", "issue"}
  /\ w.at # "next" =>
       LET op == IF w.todo = <<>> THEN "none" ELSE Head(w.todo).op IN
       /\ w.at = "apply" => op \in {"sync", "publish", "plane", "listed"}
       /\ w.at \in {"save", "node", "overlay", "mark"} => op \in {"sync", "publish"}
       /\ w.at = "issue" => op = "issue" /\ Len(w.todo) = 1
       /\ op \in {"sync", "publish", "issue"} => w.cfg = <<w.cfg[1]>> /\ IsConfig(w.cfg[1])
       /\ op \in {"sync", "publish"} => w.cfg[1].port # 0
       /\ op \in {"sync", "publish"} /\ w.at \in {"overlay", "apply", "mark"} => w.nodes # <<>>
       /\ op \in {"sync", "publish"} /\ w.at # "save" => \A i \in DOMAIN w.nodes : w.nodes[i].port # 0
TypeOK ==
  /\ PanelTyped(Found) /\ owed \subseteq Services /\ crossed \subseteq Services
  /\ DOMAIN work = Threads /\ \A t \in Threads : ThreadTyped(work[t])

\* A service is settled when no publish of it is running or due, none was left
\* out (owed), and no two have overlapped since one that had it to itself.
Pending(s) ==
  \E t \in Threads : \E i \in DOMAIN work[t].todo :
    work[t].todo[i].op = "user" \/ (work[t].todo[i].op \in {"sync", "publish", "issue"} /\ work[t].todo[i].svc = s)
Settled(s) == ~Pending(s) /\ s \notin owed \union crossed
Ready(s) == {row \in ToSet(rows[s]) : row.status = "ready"}
\* Whatever removed a rule, a user or his standing: once the service is settled,
\* the core behind a ready instance admits nobody who is not entitled
\* (overlayProxyConfigForPublish and the syncProxyInbound calls of every handler).
RevokedLocked == \A s \in Services : Settled(s) => Locked(Found, s)

\* A ready instance of a settled service whose configuration is the published one
\* is served: its core runs, and the link in the feed of every user with a live rule
\* opens it; and the status of a service that is not being published agrees with its
\* instances (UpdateProxyInstanceDeploy, loadSubExportNodes, RecomputeProxyServiceStatus).
FeedLink(s, u, port) == UNION {BuildShareURI(ConfigWithUserSecret(config[s][1], x), port) : x \in cred[<<s, u>>]}
StatusAgrees == \A s \in Services : config[s] # <<>> /\ ~Pending(s) => status[s] = Recomputed(s)
ReadyMeansServed ==
  StatusAgrees /\
  \A s \in Services : config[s] # <<>> /\ ~Pending(s) =>
    LET us == ListActiveProxyClients(s) IN
       \A row \in Ready(s) : Settled(s) /\ row.uri = BuildShareURI(config[s][1], row.port) =>
         /\ runs[Inst(s, row.node)] # {}
         /\ \A u \in ToSet(us) :
              /\ FeedLink(s, u, row.port) # {}
              /\ \A inb \in runs[Inst(s, row.node)] :
                   \A dial \in UNION {Dials(link) : link \in FeedLink(s, u, row.port)} :
                     Accepts(inb, dial) \/ \E x \in cred[<<s, u>>] : Inherited(config[s][1], us, x)

\* An expired user with a rule is shut out of every instance of its service in the
\* end, though agents go away, acks are lost and other publishes overlap; unless his
\* standing or his rule changes, or the configuration cannot be deployed
\* (expiryEnforcer, which publishes again at every pass).
Shut(u, s) ==
  \A row \in ToSet(rows[s]) : \A inb \in runs[Inst(s, row.node)] : Admitted(inb) \intersect cred[<<s, u>>] = {}
EventuallyLocked ==
  \A u \in Users, s \in Services :
    (user[u] = "expired" /\ Holds(u, s)) ~>
      (Shut(u, s) \/ user[u] # "expired" \/ ~Holds(u, s) \/ \A i \in DOMAIN config[s] : ~Publishable(config[s][i]))

\* Of every configuration a draft or an edit can leave the panel with, and of the
\* one each service has come to hold: with any roster the link of each user on it,
\* however it is read, opens the inbound the core is given, and nobody else's does;
\* so does the link to the plane of a user's rule. And an edit by a browser that was
\* not shown the secrets changes none (BuildShareURI, the core builders,
\* OverlayInboundClients, mergePreservedProxySecrets, the readers of links).
LinksReach ==
  /\ Unreached = {} /\ Overwritten = {}
  /\ \A s \in Services : \A c \in ToSet(config[s]) : validateProxyConfigForPublish(c) => Reached(c)
=============================================================================
