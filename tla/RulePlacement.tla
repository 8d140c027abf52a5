--------------------------- MODULE RulePlacement ---------------------------
(***************************************************************************)
(* Rules and the chain of hops each one is placed on: which nodes, on      *)
(* which port of each, dialling what. The panel's handlers read and check  *)
(* first and write in one transaction afterwards; the agents' requests do  *)
(* the same. Several requests are under way at a time.                     *)
(*                                                                         *)
(* A push is atomic here and installs what the database holds (NodeSync    *)
(* has the protocol); forwarding modes, names and comments are left out,   *)
(* and exits are IPv4 addresses or names.                                  *)
(***************************************************************************)
EXTENDS Integers, Sequences, FiniteSets, SequencesExt

CONSTANTS
  Physical,       \* nodes with an agent
  Children,       \* [composite nodes -> sequences of physical ones]
  EntryRole, ViaRole, Bindings,   \* roles of the nodes, edges of the middle layers
  Users, Exits, Protos, Ports,
  Asked,          \* ports a request may name, 0 for none
  Addresses,      \* relay hosts, 0 for none
  Ranges,         \* port ranges an administrator may set
  Paths,          \* <<entry, middle layers>> to ask for
  Chains,         \* sequences of physical nodes given as explicit hops
  OwnerOf,        \* [Physical -> Users], nodes.owner_id
  MaxForwards,    \* rules a user may have
  Requests,       \* HTTP and agent requests that may overlap
  MaxRules,       \* bound: rules ever created
  Kinds, Plans,   \* bound: how often each kind of request happens
  FirstNoDirect, FirstRelays  \* what Init chooses from

Composite == DOMAIN Children
AllNodes == Physical \cup Composite
RuleIds == 1..MaxRules

ASSUME PlacementAssumption ==
  /\ \A c \in Composite : Children[c] \in Seq(Physical)
  /\ Composite \cap Physical = {}
  /\ Bindings \subseteq AllNodes \X AllNodes /\ EntryRole \cup ViaRole \subseteq AllNodes
  /\ Protos \subseteq {"tcp", "udp", "tcp+udp"} /\ Ports \subseteq Nat \ {0}
  /\ Asked \subseteq Ports \cup {0} /\ Addresses \subseteq Nat
  /\ \A R \in Ranges : R \subseteq Ports
  /\ Paths \subseteq AllNodes \X Seq(AllNodes) /\ Chains \subseteq Seq(Physical)
  /\ FirstNoDirect \subseteq SUBSET Physical
  /\ FirstRelays \subseteq [Physical -> [v4 : Addresses, v6 : Addresses]]
  /\ OwnerOf \in [Physical -> Users] /\ MaxForwards \in Nat /\ MaxRules \in Nat
  /\ Plans \subseteq [Kinds -> Nat]

VARIABLES
  nodes,      \* the nodes that exist
  relay,      \* nodes.relay_host and relay_host_v6, 0 when empty
  off,        \* families switched off on a node
  range,      \* nodes.port_range
  noDirect,   \* nodes that must not dial an exit
  grants,     \* user_nodes
  rules,      \* rules and rule_hops: a partial function of RuleIds
  made,       \* rules created so far
  live,       \* what each agent forwards: <<rule, hop>>
  todo,       \* nodes with a push on its way
  req,        \* requests under way
  behind,     \* nodes that lost a hop in the database and are not pushed for it
  stale,      \* rules written from rows that had changed since they were read
  unwired,    \* rules a change of an address did not reach
  exempt,     \* rules a request wrote without the grants of its header, or with
              \* a chain of another header
  left        \* what remains of the plan

nodeVars == <<nodes, relay, off, range, noDirect>>
ghostVars == <<behind, stale, unwired, exempt>>
vars == <<nodeVars, grants, rules, made, live, todo, req, ghostVars, left>>

\* The members of s at the indices I, in their order.
AtIndices(s, I) ==
  [k \in 1..Cardinality(I) |-> s[CHOOSE i \in I : Cardinality({j \in I : j <= i}) = k]]

Idle == [pc |-> "idle"]
Families == {"v4", "v6", "both"}
Has(kind) == left[kind] > 0
Spend(kind) == left' = [left EXCEPT ![kind] = @ - 1]

-----------------------------------------------------------------------------
(* RegenerateRule                                                          *)

EffectiveRelayHosts(n) ==
  [v4 |-> IF "v4" \in off[n] THEN 0 ELSE relay[n].v4,
   v6 |-> IF "v6" \in off[n] THEN 0 ELSE relay[n].v6]
Reachable(n) == EffectiveRelayHosts(n).v4 # 0 \/ EffectiveRelayHosts(n).v6 # 0

protoNamespaces(p) == IF p = "tcp+udp" THEN {"tcp", "udp"} ELSE {p}

\* Mutant: only the same protocol competes for a port.
SameProto(p, q) == p = q

Overlap(p, q) == protoNamespaces(p) \cap protoNamespaces(q) # {}

OccupiedPortsOnNode(n, proto, r) ==
  {p \in Ports : \E s \in DOMAIN rules \ {r} : \E i \in DOMAIN rules[s].hops :
     LET h == rules[s].hops[i] IN h.node = n /\ h.port = p /\ Overlap(h.proto, proto)}

\* The port rule r has on node n, if any, as a set.
PrevPort(r, n) ==
  IF r \in DOMAIN rules
  THEN {rules[r].hops[i].port : i \in {j \in DOMAIN rules[r].hops : rules[r].hops[j].node = n}}
  ELSE {}

\* The ports a hop may get: the one asked for, else the one it has, else any.
PortChoices(r, hop, proto, avoid) ==
  LET free == range[hop.node] \ (OccupiedPortsOnNode(hop.node, proto, r) \cup avoid) IN
  IF hop.port # 0 THEN {hop.port} \cap free
  ELSE IF PrevPort(r, hop.node) \cap free # {} THEN PrevPort(r, hop.node) \cap free
  ELSE free

DialAddress(n) ==
  LET e == EffectiveRelayHosts(n) IN
  IF e.v4 # 0 THEN [node |-> n, family |-> "v4", addr |-> e.v4]
  ELSE [node |-> n, family |-> "v6", addr |-> e.v6]
HopTo(n, port) == [at |-> DialAddress(n), port |-> port]
ExitTo(x) == [at |-> x, port |-> 0]

\* entry_family follows what the entry node can serve; v6 is for TCP only.
Family(n, proto) ==
  LET e == EffectiveRelayHosts(n) IN
  IF e.v4 = 0 THEN "v6" ELSE IF e.v6 # 0 /\ proto = "tcp" THEN "both" ELSE "v4"

\* Mutant: a node may have been deleted since the chain was derived.
OnDeleted(ins, proto) ==
  /\ ins # << >>
  /\ \A i \in DOMAIN ins : Reachable(ins[i].node)
  /\ Family(ins[1].node, proto) = "v6" => proto = "tcp"

Placeable(ins, proto) ==
  /\ ins # << >>
  /\ \A i, j \in DOMAIN ins : i # j => ins[i].node # ins[j].node
  /\ \A i \in DOMAIN ins : ins[i].node \in nodes \cap Physical /\ Reachable(ins[i].node)
  /\ Family(ins[1].node, proto) = "v6" => proto = "tcp"

\* Mutant: a hop dials the port the next node had before.
HopsKeepingPort(r, head, ins, port) ==
  [i \in DOMAIN ins |->
     [node |-> ins[i].node, via |-> ins[i].via, proto |-> head.proto, port |-> port[i],
      to |-> IF i = Len(ins) THEN ExitTo(head.exit)
             ELSE HopTo(ins[i + 1].node,
                        IF PrevPort(r, ins[i + 1].node) = {} THEN port[i + 1]
                        ELSE CHOOSE p \in PrevPort(r, ins[i + 1].node) : TRUE)]]

Hops(r, head, ins, port) ==
  [i \in DOMAIN ins |->
     [node |-> ins[i].node, via |-> ins[i].via, proto |-> head.proto, port |-> port[i],
      to |-> IF i = Len(ins) THEN ExitTo(head.exit) ELSE HopTo(ins[i + 1].node, port[i + 1])]]

\* The chains the hops asked for may become; none when the request is refused.
Regenerations(r, head, ins, avoid) ==
  IF ~Placeable(ins, head.proto) THEN {}
  ELSE {Hops(r, head, ins, port) :
          port \in {f \in [DOMAIN ins -> Ports] :
                      \A i \in DOMAIN ins :
                        f[i] \in PortChoices(r, ins[i], head.proto,
                                         IF ins[i].node \in DOMAIN avoid
                                         THEN {avoid[ins[i].node]} ELSE {})}}

HopNodes(r) ==
  IF r \in DOMAIN rules THEN {rules[r].hops[i].node : i \in DOMAIN rules[r].hops} ELSE {}
NodesOf(R) == UNION {HopNodes(r) : r \in R}
RulesReferencingNode(n) == {r \in DOMAIN rules : n \in HopNodes(r)}

-----------------------------------------------------------------------------
(* Pushes                                                                  *)

Wanted(n) ==
  UNION {{<<r, rules[r].hops[i]>> : i \in {j \in DOMAIN rules[r].hops : rules[r].hops[j].node = n}} :
         r \in DOMAIN rules}

dispatchToNode(n) ==
  /\ n \in todo /\ todo' = todo \ {n}
  /\ live' = IF n \in nodes THEN [live EXCEPT ![n] = Wanted(n)] ELSE live
  /\ behind' = behind \ {n}
  /\ UNCHANGED <<nodeVars, grants, rules, made, req, stale, unwired, exempt, left>>

-----------------------------------------------------------------------------
Init ==
  /\ nodes = AllNodes
  /\ relay \in FirstRelays /\ off = [n \in Physical |-> {}]
  /\ range = [n \in Physical |-> Ports]
  /\ noDirect \in FirstNoDirect
  /\ grants = [u \in Users |-> AllNodes]
  /\ rules = << >> /\ made = 0
  /\ live = [n \in Physical |-> {}] /\ todo = {}
  /\ req = [q \in Requests |-> Idle]
  /\ behind = {} /\ stale = {} /\ unwired = {} /\ exempt = {}
  /\ left \in Plans

(* Chains a request may ask for                                            *)

In(n, via) == [node |-> n, via |-> via, port |-> 0]

expandSegment(n) ==
  IF n \in Composite
  THEN LET alive == AtIndices(Children[n], {i \in DOMAIN Children[n] : Children[n][i] \in nodes})
       IN [i \in DOMAIN alive |-> In(alive[i], n)]
  ELSE <<In(n, n)>>

Path(p) == <<p[1]>> \o p[2]
Derived(p) == FlattenSeq([i \in DOMAIN Path(p) |-> expandSegment(Path(p)[i])])

exitHopForbidsDirect(ins) == ins[Len(ins)].node \in noDirect

hopsForChain(p) ==
  /\ p[1] \in nodes \cap EntryRole
  /\ \A i \in DOMAIN p[2] : p[2][i] \in nodes \cap ViaRole
  /\ \A i \in 1..(Len(Path(p)) - 1) : <<Path(p)[i], Path(p)[i + 1]>> \in Bindings
  /\ \A i \in DOMAIN Path(p) : expandSegment(Path(p)[i]) # << >>
  /\ ~exitHopForbidsDirect(Derived(p))

Explicit(chain) == [i \in DOMAIN chain |-> In(chain[i], chain[i])]
Existing(r) == [i \in DOMAIN rules[r].hops |-> In(rules[r].hops[i].node, rules[r].hops[i].via)]
AtEntry(ins, port) == IF port = 0 THEN ins ELSE [ins EXCEPT ![1].port = port]

MayUse(u, node, vias) == {node} \cup ToSet(vias) \subseteq grants[u]
OwnedBy(u) == {r \in DOMAIN rules : rules[r].owner = u}
checkUserRuleQuota(u, hops, had) == Cardinality(OwnedBy(u)) - had + hops <= MaxForwards

Header(u, node, vias, proto, x) ==
  [owner |-> u, node |-> node, vias |-> vias, proto |-> proto, exit |-> x]
HeaderOf(r) == Header(rules[r].owner, rules[r].node, rules[r].vias, rules[r].proto, rules[r].exit)
Row(head, hops, family) ==
  [owner |-> head.owner, node |-> head.node, vias |-> head.vias, proto |-> head.proto,
   exit |-> head.exit, hops |-> hops, family |-> family]

\* What a request carries into its transaction: the rule (0: a new one), the
\* header it read or made, whether it writes it, and the hops.
Writing(r, head, write, ins, avoid, free) ==
  [pc |-> "write", rule |-> r, head |-> head, write |-> write, ins |-> ins, avoid |-> avoid,
   free |-> free]

\* A request that has rules to rewire: of a node it is about to delete, of one it
\* has to look them up for, of none any more. push: the nodes to push at the end.
Removing(n, list, push) == [pc |-> "remove", node |-> n, list |-> list, push |-> push]
Listing(n, push) == [pc |-> "list", node |-> n, push |-> push]
Rewiring(list, push) == [pc |-> "rewire", list |-> list, push |-> push]
Rewriting(r, list, push) ==
  [pc |-> "rewrite", rule |-> r, head |-> HeaderOf(r), write |-> FALSE, ins |-> Existing(r),
   avoid |-> << >>, free |-> TRUE, list |-> list, push |-> push]

Start(q, kind, record) ==
  /\ req[q].pc = "idle" /\ Has(kind) /\ Spend(kind)
  /\ req' = [req EXCEPT ![q] = record]
  /\ UNCHANGED <<nodeVars, grants, rules, made, live, todo, ghostVars>>

-----------------------------------------------------------------------------
(* Requests that create or edit a rule: reading and checking               *)

apiMyCreateRule(q) ==
  \E u \in Users, p \in Paths, proto \in Protos, x \in Exits, port \in Asked :
    /\ MayUse(u, p[1], p[2]) /\ hopsForChain(p)
    /\ checkUserRuleQuota(u, Len(Derived(p)), 0)
    /\ Start(q, "create", Writing(0, Header(u, p[1], p[2], proto, x), TRUE,
                                  AtEntry(Derived(p), port), << >>, FALSE))

\* An administrator's, with a chain to derive or with explicit hops; the grants
\* are those of the owner it names, for the header's node only.
apiCreateRule(q) ==
  \E u \in Users, proto \in Protos, x \in Exits :
    \/ \E p \in Paths :
         /\ hopsForChain(p) /\ MayUse(u, p[1], p[2])
         /\ Start(q, "create", Writing(0, Header(u, p[1], p[2], proto, x), TRUE,
                                       Derived(p), << >>, FALSE))
    \/ \E c \in Chains :
         /\ ~exitHopForbidsDirect(Explicit(c)) /\ MayUse(u, c[1], << >>)
         /\ Start(q, "create", Writing(0, Header(u, c[1], << >>, proto, x), TRUE,
                                       Explicit(c), << >>, TRUE))

\* An agent's, for the owner of its node.
handleRuleCreate(q) ==
  \E n \in Physical \cap nodes, proto \in Protos, x \in Exits, port \in Asked :
    /\ Cardinality(OwnedBy(OwnerOf[n])) < MaxForwards
    /\ Start(q, "agent", Writing(0, Header(OwnerOf[n], n, << >>, proto, x), TRUE,
                                 AtEntry(<<In(n, n)>>, port), << >>, TRUE))

\* The path asked for, or the one stored with the rule.
apiMyUpdateRule(q) ==
  \E r \in DOMAIN rules, proto \in Protos, x \in Exits, port \in Asked :
    \E p \in Paths \cup {<<rules[r].node, rules[r].vias>>} :
      LET u == rules[r].owner IN
      /\ MayUse(u, p[1], p[2]) /\ hopsForChain(p)
      /\ checkUserRuleQuota(u, Len(Derived(p)), Len(rules[r].hops))
      /\ Start(q, "edit", Writing(r, Header(u, p[1], p[2], proto, x), TRUE,
                                  AtEntry(Derived(p), port), << >>, FALSE))

\* An administrator's: a path to derive, no chain (the existing one stays), or
\* explicit hops.
apiUpdateRule(q) ==
  \E r \in DOMAIN rules, proto \in Protos, x \in Exits :
    LET u == rules[r].owner
        head(node, vias) == Header(u, node, vias, proto, x) IN
    \/ \E p \in Paths :
         /\ hopsForChain(p) /\ MayUse(u, p[1], p[2])
         /\ Start(q, "edit", Writing(r, head(p[1], p[2]), TRUE, Derived(p), << >>, FALSE))
    \/ /\ rules[r].hops # << >> /\ MayUse(u, rules[r].node, rules[r].vias)
       /\ Start(q, "edit", Writing(r, head(rules[r].node, rules[r].vias), TRUE,
                                   Existing(r), << >>, FALSE))
    \/ \E c \in Chains :
         /\ MayUse(u, rules[r].node, rules[r].vias)
         /\ Start(q, "edit", Writing(r, head(rules[r].node, rules[r].vias), TRUE,
                                     Explicit(c), << >>, TRUE))

\* An agent's edit of a single-hop rule of its node's owner, whatever node the
\* rule was on.
handleRuleUpdate(q) ==
  \E n \in Physical \cap nodes, r \in DOMAIN rules, proto \in Protos, x \in Exits :
    /\ rules[r].owner = OwnerOf[n] /\ Len(rules[r].hops) = 1
    /\ Start(q, "agent", Writing(r, Header(OwnerOf[n], rules[r].node, rules[r].vias, proto, x),
                                 TRUE, <<In(n, n)>>, << >>, TRUE))

\* A hop gets another port: the one asked for, or any but the one it has.
apiReallocateRuleHop(q) ==
  \E r \in DOMAIN rules : \E i \in DOMAIN rules[r].hops :
    \/ \E port \in Asked \ {0} :
         Start(q, "port", Writing(r, HeaderOf(r), FALSE, [Existing(r) EXCEPT ![i].port = port],
                                  << >>, TRUE))
    \/ Start(q, "port", Writing(r, HeaderOf(r), FALSE, Existing(r),
                                [n \in {rules[r].hops[i].node} |-> rules[r].hops[i].port], TRUE))

\* The same from the agent of the hop.
applyRuleHopEdit(q) ==
  \E r \in DOMAIN rules : \E i \in DOMAIN rules[r].hops, port \in Asked \ {0} :
    Start(q, "agent", Writing(r, HeaderOf(r), FALSE, [Existing(r) EXCEPT ![i].port = port],
                              << >>, TRUE))

-----------------------------------------------------------------------------
(* The transaction                                                         *)

\* What follows: a rewire goes on with its list, any other request has pushed.
After(c, push) ==
  IF c.pc = "rewrite" THEN Rewiring(c.list, c.push \cup push) ELSE Idle

Refused(q) ==
  /\ req' = [req EXCEPT ![q] = After(@, {})]
  /\ unwired' = unwired \cup (IF req[q].pc = "rewrite" THEN {req[q].rule} ELSE {})
  /\ UNCHANGED <<rules, made, todo, stale, exempt>>

\* Mutant: nodes the rule leaves are not pushed.
NewNodes(old, hops) == {hops[i].node : i \in DOMAIN hops}

Touched(old, hops) == old \cup {hops[i].node : i \in DOMAIN hops}

\* The row and its hops are written, and the nodes the rule leaves or gets pushed.
Place(q, r, hops) ==
  LET c == req[q]
      head == IF c.write THEN c.head ELSE HeaderOf(r)
      push == Touched(HopNodes(r), hops)
      family == Family(hops[1].node, c.head.proto)
  IN
  /\ rules' = [s \in DOMAIN rules \cup {r} |-> IF s = r THEN Row(head, hops, family) ELSE rules[s]]
  /\ made' = IF c.rule = 0 THEN made + 1 ELSE made
  /\ todo' = IF c.pc = "rewrite" THEN todo ELSE todo \cup push
  /\ req' = [req EXCEPT ![q] = After(c, push)]
  /\ stale' = IF ~c.write /\ HeaderOf(r) # c.head THEN stale \cup {r} ELSE stale \ {r}
  /\ unwired' = unwired \ {r}
  /\ exempt' = IF \/ c.write /\ (c.free \/ ~MayUse(head.owner, head.node, head.vias))
                  \/ ~c.write /\ HeaderOf(r) # c.head
               THEN exempt \cup {r} ELSE exempt

Write(q) ==
  /\ req[q].pc \in {"write", "rewrite"}
  /\ LET c == req[q]
         r == IF c.rule = 0 THEN made + 1 ELSE c.rule
         chains == Regenerations(r, c.head, c.ins, c.avoid)
     IN
     /\ c.rule = 0 => made < MaxRules
     /\ IF chains = {} \/ (c.rule # 0 /\ r \notin DOMAIN rules) \/ c.head.node \notin nodes
        THEN Refused(q)
        ELSE \E hops \in chains : Place(q, r, hops)
  /\ UNCHANGED <<nodeVars, grants, live, behind, left>>

-----------------------------------------------------------------------------
(* Requests that remove rules                                              *)

Dropping(R, N, also) == [pc |-> "drop", rules |-> R, nodes |-> N, also |-> also]

\* DeleteRule collects the nodes of the hops, then deletes the rule.
apiDeleteRule(q) ==
  \E r \in DOMAIN rules : Start(q, "delete", Dropping({r}, HopNodes(r), {}))

\* apiRevokeNode: the grant goes first.
apiRevokeNode(q) ==
  /\ req[q].pc = "idle" /\ Has("revoke") /\ Spend("revoke")
  /\ \E u \in Users : \E n \in grants[u] :
       /\ grants' = [grants EXCEPT ![u] = @ \ {n}]
       /\ req' = [req EXCEPT ![q] = [pc |-> "collect", user |-> u, node |-> n]]
  /\ UNCHANGED <<nodeVars, rules, made, live, todo, ghostVars>>

Via(r, n) == \E i \in DOMAIN rules[r].hops : rules[r].hops[i].via = n

\* Mutant: rules that only pass the node as a middle layer are left.
EntryOnly(u, n) == {r \in OwnedBy(u) : rules[r].node = n}

UsedBy(u, n) == {r \in OwnedBy(u) : Via(r, n)}

DeleteRulesForUserNode(q) ==
  /\ req[q].pc = "collect"
  /\ LET R == UsedBy(req[q].user, req[q].node)
     IN req' = [req EXCEPT ![q] = Dropping(R, NodesOf(R), {})]
  /\ UNCHANGED <<nodeVars, grants, rules, made, live, todo, ghostVars, left>>

Drop(q) ==
  /\ req[q].pc = "drop"
  /\ LET c == req[q] IN
     /\ rules' = [r \in DOMAIN rules \ c.rules |-> rules[r]]
     /\ behind' = behind \cup (NodesOf(c.rules) \ c.nodes)
     /\ IF c.also = {}
        THEN todo' = todo \cup c.nodes /\ req' = [req EXCEPT ![q] = Idle]
        ELSE /\ req' = [req EXCEPT ![q] = Removing(CHOOSE n \in c.also : TRUE, {}, c.nodes)]
             /\ UNCHANGED todo
  /\ UNCHANGED <<nodeVars, grants, made, live, stale, unwired, exempt, left>>

-----------------------------------------------------------------------------
(* Requests on nodes                                                       *)

\* apiDeleteNode takes the rules through a composite node first; those through a
\* physical one are rewired when it is gone.
apiDeleteNode(q) ==
  \/ \E n \in Composite \cap nodes :
       LET R == {r \in DOMAIN rules : Via(r, n)}
       IN Start(q, "node", Dropping(R, NodesOf(R), {n}))
  \/ \E n \in Physical \cap nodes :
       Start(q, "node", Removing(n, RulesReferencingNode(n), {}))

\* The foreign keys take the node's grants, its hops, and the rules that enter
\* there with all their hops.
Without(hops, n) == AtIndices(hops, {i \in DOMAIN hops : hops[i].node # n})

DeleteNode(q) ==
  /\ req[q].pc = "remove"
  /\ LET n == req[q].node
         R == {r \in DOMAIN rules : rules[r].node = n}
     IN
     /\ nodes' = nodes \ {n}
     /\ grants' = [u \in Users |-> grants[u] \ {n}]
     /\ rules' = [r \in DOMAIN rules \ R |->
                    [rules[r] EXCEPT !.hops = Without(@, n)]]
     /\ behind' = behind \cup (NodesOf(R) \ {n})
     /\ unwired' = unwired \cup (RulesReferencingNode(n) \ (R \cup req[q].list))
  /\ req' = [req EXCEPT ![q] = Rewiring(req[q].list, req[q].push)]
  /\ UNCHANGED <<relay, off, range, noDirect, made, live, todo, stale, exempt, left>>

\* The IPv4 address of a node, which also switches the family on again.
apiSetNodeRelayHost(q) ==
  /\ req[q].pc = "idle" /\ Has("relay") /\ Spend("relay")
  /\ \E n \in Physical \cap nodes, v \in Addresses :
       /\ relay' = [relay EXCEPT ![n].v4 = v]
       /\ off' = IF v = 0 THEN off ELSE [off EXCEPT ![n] = @ \ {"v4"}]
       /\ req' = [req EXCEPT ![q] = Listing(n, {})]
  /\ UNCHANGED <<nodes, range, noDirect, grants, rules, made, live, todo, ghostVars>>

EntersBy(n, fams) ==
  {r \in DOMAIN rules : /\ rules[r].hops # << >> /\ rules[r].hops[1].node = n
                        /\ rules[r].family \in fams}

\* The IPv6 address: refused to be cleared under rules that enter by it. Nothing
\* is rewired. The check and the write are two statements.
apiSetNodeRelayHostV6(q) ==
  \E n \in Physical \cap nodes, v \in Addresses :
    /\ v = 0 => EntersBy(n, {"v6", "both"}) = {}
    /\ Start(q, "relay", [pc |-> "v6", node |-> n, addr |-> v])

DialledByV6(n) ==
  {r \in DOMAIN rules : \E i \in DOMAIN rules[r].hops :
     LET to == rules[r].hops[i].to IN to.port # 0 /\ to.at.node = n /\ to.at.family = "v6"}

UpdateNodeRelayHostV6(q) ==
  /\ req[q].pc = "v6"
  /\ LET n == req[q].node
         v == req[q].addr IN
     /\ relay' = [relay EXCEPT ![n].v6 = v]
     /\ off' = IF v = 0 THEN off ELSE [off EXCEPT ![n] = @ \ {"v6"}]
     /\ unwired' = unwired \cup DialledByV6(n)
                     \cup (IF v = 0 THEN EntersBy(n, {"v6", "both"}) ELSE {})
  /\ req' = [req EXCEPT ![q] = Idle]
  /\ UNCHANGED <<nodes, range, noDirect, grants, rules, made, live, todo, behind, stale, exempt, left>>

Other(family) == IF family = "v4" THEN "v6" ELSE "v4"
Alive(n, family) == EffectiveRelayHosts(n)[family] # 0

\* A family is switched off, unless rules enter by the last one, or on again.
apiSetNodeRelayFamilyDisabled(q) ==
  \E n \in Physical \cap nodes, family \in {"v4", "v6"} :
    \/ /\ family \notin off[n]
       /\ Alive(n, Other(family)) \/ EntersBy(n, Families) = {}
       /\ Start(q, "relay", [pc |-> "flip", node |-> n, off |-> off[n] \cup {family}])
    \/ /\ family \in off[n]
       /\ Start(q, "relay", [pc |-> "flip", node |-> n, off |-> off[n] \ {family}])

SetFamily(q) ==
  /\ req[q].pc = "flip"
  /\ off' = [off EXCEPT ![req[q].node] = req[q].off]
  /\ req' = [req EXCEPT ![q] = Listing(req[q].node, {req[q].node})]
  /\ UNCHANGED <<nodes, relay, range, noDirect, grants, rules, made, live, todo, ghostVars, left>>

\* The rules to rewire are looked up once the node row is written.
ListRules(q) ==
  /\ req[q].pc = "list"
  /\ req' = [req EXCEPT ![q] = Rewiring(RulesReferencingNode(req[q].node), req[q].push)]
  /\ UNCHANGED <<nodeVars, grants, rules, made, live, todo, ghostVars, left>>

\* apiRewireRules with regenerateRuleByID: rule by rule, what cannot be placed
\* is logged and left; the pushes come last.
apiRewireRules(q) ==
  /\ req[q].pc = "rewire"
  /\ IF req[q].list = {}
     THEN todo' = todo \cup req[q].push /\ req' = [req EXCEPT ![q] = Idle]
     ELSE /\ UNCHANGED todo
          /\ LET r == Min(req[q].list)
                 rest == req[q].list \ {r} IN
             req' = [req EXCEPT ![q] =
               IF r \notin DOMAIN rules \/ HopNodes(r) = {} THEN Rewiring(rest, req[q].push)
               ELSE Rewriting(r, rest, req[q].push)]
  /\ UNCHANGED <<nodeVars, grants, rules, made, live, ghostVars, left>>

\* Requests of one statement.
Setting ==
  /\ Has("setting") /\ Spend("setting")
  /\ UNCHANGED <<nodes, relay, off, rules, made, live, todo, req, ghostVars>>

apiUpdateNodePortRange ==
  /\ Setting /\ UNCHANGED <<noDirect, grants>>
  /\ \E n \in Physical \cap nodes : \E R \in Ranges \ {range[n]} :
       range' = [range EXCEPT ![n] = R]

apiSetNodeNoDirectExit ==
  /\ Setting /\ UNCHANGED <<range, grants>>
  /\ \E n \in Physical \cap nodes :
       noDirect' = IF n \in noDirect THEN noDirect \ {n} ELSE noDirect \cup {n}

apiGrantNode ==
  /\ Setting /\ UNCHANGED <<range, noDirect>>
  /\ \E u \in Users : \E n \in nodes \ grants[u] : grants' = [grants EXCEPT ![u] = @ \cup {n}]
-----------------------------------------------------------------------------
Reading(q) ==
  \/ apiMyCreateRule(q) \/ apiCreateRule(q) \/ handleRuleCreate(q)
  \/ apiMyUpdateRule(q) \/ apiUpdateRule(q) \/ handleRuleUpdate(q)
  \/ apiReallocateRuleHop(q) \/ applyRuleHopEdit(q)
  \/ apiDeleteRule(q) \/ apiRevokeNode(q) \/ apiDeleteNode(q)
  \/ apiSetNodeRelayHost(q) \/ apiSetNodeRelayHostV6(q) \/ apiSetNodeRelayFamilyDisabled(q)

Going(q) ==
  \/ Write(q) \/ DeleteRulesForUserNode(q) \/ Drop(q) \/ DeleteNode(q)
  \/ UpdateNodeRelayHostV6(q) \/ SetFamily(q) \/ ListRules(q) \/ apiRewireRules(q)

Next ==
  \/ \E q \in Requests : Reading(q) \/ Going(q)
  \/ apiUpdateNodePortRange \/ apiSetNodeNoDirectExit \/ apiGrantNode
  \/ \E n \in Physical : dispatchToNode(n)

Spec == Init /\ [][Next]_vars

-----------------------------------------------------------------------------
HopRows ==
  [node : Physical, via : AllNodes, proto : Protos, port : Ports,
   to : [at : Exits, port : {0}]
        \cup [at : [node : Physical, family : {"v4", "v6"}, addr : Addresses \ {0}], port : Ports]]
Headers ==
  [owner : Users, node : AllNodes, vias : Seq(AllNodes), proto : Protos, exit : Exits]
RuleRows ==
  [owner : Users, node : AllNodes, vias : Seq(AllNodes), proto : Protos, exit : Exits,
   hops : Seq(HopRows), family : Families]
Wishes == [node : Physical, via : AllNodes, port : Ports \cup {0}]

NodesTyped ==
  /\ nodes \subseteq AllNodes /\ noDirect \subseteq Physical
  /\ relay \in [Physical -> [v4 : Addresses, v6 : Addresses]]
  /\ off \in [Physical -> SUBSET {"v4", "v6"}]
  /\ range \in [Physical -> SUBSET Ports]
  /\ grants \in [Users -> SUBSET nodes]

\* A rule enters at a node that exists, and so do all its hops.
RulesTyped ==
  /\ made \in 0..MaxRules /\ DOMAIN rules \subseteq 1..made
  /\ \A r \in DOMAIN rules :
       rules[r] \in RuleRows /\ rules[r].node \in nodes /\ HopNodes(r) \subseteq nodes

RequestTyped(c) ==
  /\ c.pc \in {"idle", "write", "rewrite", "collect", "drop", "remove", "v6", "flip", "list",
               "rewire"}
  /\ c.pc \in {"write", "rewrite"} =>
       /\ c.rule \in 0..made /\ c.head \in Headers /\ c.ins \in Seq(Wishes)
       /\ c.write \in BOOLEAN /\ c.free \in BOOLEAN /\ (c.rule = 0 => c.write /\ c.pc = "write")
  /\ c.pc \in {"remove", "rewire", "rewrite"} => c.list \subseteq 1..made
  /\ c.pc \in {"remove", "rewire", "rewrite", "list"} => c.push \subseteq Physical
  /\ c.pc \in {"collect", "remove"} => c.node \in AllNodes
  /\ c.pc \in {"v6", "flip", "list"} => c.node \in Physical
  /\ c.pc = "collect" => c.user \in Users
  /\ c.pc = "drop" => c.rules \subseteq 1..made /\ c.nodes \subseteq Physical /\ c.also \subseteq AllNodes
  /\ c.pc = "v6" => c.addr \in Addresses
  /\ c.pc = "flip" => c.off \subseteq {"v4", "v6"}

RequestsTyped == DOMAIN req = Requests /\ \A q \in Requests : RequestTyped(req[q])

TypeOK ==
  /\ NodesTyped /\ RulesTyped /\ RequestsTyped
  /\ DOMAIN live = Physical /\ todo \cup behind \subseteq Physical
  /\ stale \cup unwired \cup exempt \subseteq 1..made
  /\ left \in [Kinds -> Nat]

\* Rules of different users never listen on the same port of a node: a new
\* chain, an edited one and a rewired one avoid every other rule's namespaces,
\* also those a tcp+udp rule takes two of, whatever is under way meanwhile.
PortsExclusive ==
  \A r, s \in DOMAIN rules : r # s =>
    \A i \in DOMAIN rules[r].hops, j \in DOMAIN rules[s].hops :
      LET g == rules[r].hops[i]
          h == rules[s].hops[j] IN
      g.node = h.node /\ g.port = h.port =>
        protoNamespaces(g.proto) \cap protoNamespaces(h.proto) = {}

\* A rewire under way will come to the rule.
Pending(r) ==
  \E q \in Requests :
    \/ req[q].pc \in {"rewire", "rewrite"} /\ r \in req[q].list
    \/ req[q].pc = "rewrite" /\ r = req[q].rule
    \/ req[q].pc = "list" /\ req[q].node \in HopNodes(r)

\* Every hop dials the port the next one listens on, at an address its node
\* has now, and the last one the exit.
ChainLinked ==
  \A r \in DOMAIN rules \ unwired : ~Pending(r) =>
    LET hops == rules[r].hops IN
    \A i \in DOMAIN hops :
      IF i = Len(hops) THEN hops[i].to.port = 0
      ELSE hops[i].to = HopTo(hops[i + 1].node, hops[i + 1].port)

\* The exit and the protocol an owner sees are those the chain forwards,
\* unless an edit of the hops alone overtook an edit of the rule.
ExitAgrees ==
  \A r \in DOMAIN rules \ (stale \cup unwired) : ~Pending(r) =>
    \A i \in DOMAIN rules[r].hops :
      /\ rules[r].hops[i].proto = rules[r].proto
      /\ i = Len(rules[r].hops) => rules[r].hops[i].to = ExitTo(rules[r].exit)

\* A rule that is to be entered by IPv6 has an entry node that can be.
FamilyHeld ==
  \A r \in DOMAIN rules \ unwired :
    rules[r].hops # << >> /\ ~Pending(r) /\ rules[r].family \in {"v6", "both"} =>
      EffectiveRelayHosts(rules[r].hops[1].node).v6 # 0

\* The chain of a rule hangs together, ends at its exit and can be entered: through
\* edits of the chain, of a port, of a node's addresses and families, and the loss
\* of a node in the middle (RegenerateRule, apiRewireRules, applyRuleHopEdit).
ChainAgrees == ChainLinked /\ ExitAgrees /\ FamilyHeld

\* When nothing is under way every node forwards exactly its hops: no request
\* forgets a node it took a hop from or gave one to.
LiveMatches ==
  (todo = {} /\ \A q \in Requests : req[q] = Idle) =>
    \A n \in (nodes \cap Physical) \ behind : live[n] = Wanted(n)

\* No chain of a user passes through a node, at its entry or as a layer in the
\* middle, once the grant of the node is revoked.
RevokedGone ==
  (\A q \in Requests : req[q].pc \notin {"collect", "drop"}) =>
    \A r \in DOMAIN rules \ exempt : \A i \in DOMAIN rules[r].hops :
      rules[r].hops[i].via \in nodes => rules[r].hops[i].via \in grants[rules[r].owner]
=============================================================================
