-------------------------- MODULE DataPlaneProofs --------------------------
(***************************************************************************)
(* DataPlane keeps its types; no connection ends up at an address its      *)
(* listener has left; and between two calls what the last rules ask for is *)
(* in force: for any rulesets, connections, slots, chains and plans.       *)
(***************************************************************************)
EXTENDS DataPlane, FiniteSetTheorems, TLAPS

(***************************************************************************)
(* What a partition of a ruleset has: one userspace rule per port, one     *)
(* counter key per packet.                                                 *)
(***************************************************************************)
Ports(U) == {r.port : r \in U}
Fit(U, K) == \E R \in Rulesets \cup {{}} : Partitionable(R) /\ U = UserPart(R) /\ K = KernelPart(R)

LEMMA Parts ==
  ASSUME NEW R \in SUBSET Rule
  PROVE  /\ UserPart(R) \in SUBSET Rule /\ KernelPart(R) \in SUBSET Rule
         /\ \A r \in UserPart(R) : r.proto = "tcp" /\ \E s \in R : /\ s.mode = "userspace"
                                                               /\ r = [s EXCEPT !.proto = "tcp"]
         /\ \A r \in KernelPart(R) :
              \/ r \in R /\ r.mode = "kernel"
              \/ \E s \in R : /\ s.mode = "userspace" /\ s.proto = "tcp+udp"
                              /\ r = [s EXCEPT !.proto = "udp", !.mode = "kernel"]
<1>1. ASSUME NEW s \in Rule
      PROVE  /\ [s EXCEPT !.proto = "tcp"] \in Rule
             /\ [s EXCEPT !.proto = "udp", !.mode = "kernel"] \in Rule
             /\ [s EXCEPT !.proto = "tcp"].proto = "tcp"
  BY DEF Rule, Protos
<1>2. ASSUME NEW r \in UserPart(R)
      PROVE  /\ r \in Rule /\ r.proto = "tcp"
             /\ \E s \in R : s.mode = "userspace" /\ r = [s EXCEPT !.proto = "tcp"]
  <2>1. PICK s \in R : s.mode = "userspace" /\ r = [s EXCEPT !.proto = "tcp"]
    BY DEF UserPart
  <2> QED BY <1>1, <2>1
<1>3. ASSUME NEW r \in KernelPart(R)
      PROVE  /\ r \in Rule
             /\ \/ r \in R /\ r.mode = "kernel"
                \/ \E s \in R : /\ s.mode = "userspace" /\ s.proto = "tcp+udp"
                                /\ r = [s EXCEPT !.proto = "udp", !.mode = "kernel"]
  <2>1. CASE r \in R /\ r.mode = "kernel"
    BY <2>1
  <2>2. CASE \E s \in R : /\ s.mode = "userspace" /\ s.proto = "tcp+udp"
                          /\ r = [s EXCEPT !.proto = "udp", !.mode = "kernel"]
    BY <1>1, <2>2
  <2> QED BY <2>1, <2>2 DEF KernelPart
<1> QED BY <1>2, <1>3

LEMMA Fitting ==
  ASSUME NEW U, NEW K, Fit(U, K)
  PROVE  /\ U \in SUBSET Rule /\ K \in SUBSET Rule
         /\ \A r, s \in U : r.port = s.port => r = s
         /\ \A r, s \in U :
              r.group > 0 /\ r.group = s.group /\ r.rate > 0 /\ s.rate > 0 => r.rate = s.rate
<1>1. PICK R \in Rulesets \cup {{}} : Partitionable(R) /\ U = UserPart(R) /\ K = KernelPart(R)
  BY DEF Fit
<1>2. R \in SUBSET Rule
  BY DataPlaneAssumption
<1>3. ASSUME NEW r \in U
      PROVE  \E s \in R : /\ s.mode = "userspace" /\ r = [s EXCEPT !.proto = "tcp"]
                          /\ s.port = r.port /\ s.group = r.group /\ s.rate = r.rate
                          /\ "tcp" \in Namespaces(s)
  <2>1. PICK s \in R : s.mode = "userspace" /\ r = [s EXCEPT !.proto = "tcp"]
    BY <1>1, <1>2, Parts
  <2>2. s \in Rule /\ s.proto # "udp"
    BY <1>1, <1>2, <2>1 DEF Partitionable
  <2>3. r.port = s.port /\ r.group = s.group /\ r.rate = s.rate
    BY <2>1, <2>2 DEF Rule
  <2>4. "tcp" \in Namespaces(s)
    BY <2>2 DEF Namespaces, Rule, Protos
  <2> QED BY <2>1, <2>3, <2>4
<1>4. ASSUME NEW r \in U, NEW s \in U, r.port = s.port  PROVE r = s
  BY <1>1, <1>3, <1>4 DEF Partitionable
<1>5. ASSUME NEW r \in U, NEW s \in U, r.group > 0, r.group = s.group, r.rate > 0, s.rate > 0
      PROVE  r.rate = s.rate
  BY <1>3, <1>5, DataPlaneAssumption
<1>6. U \in SUBSET Rule /\ K \in SUBSET Rule
  BY <1>1, <1>2, Parts
<1> QED BY <1>4, <1>5, <1>6

LEMMA NothingFits == Fit({}, {})
<1>1. Partitionable({}) /\ UserPart({}) = {} /\ KernelPart({}) = {}
  BY DEF Partitionable, UserPart, KernelPart
<1> QED BY <1>1 DEF Fit

LEMMA RuleAtPort ==
  ASSUME NEW U, NEW K, Fit(U, K), NEW p \in Ports(U)
  PROVE  RuleAt(U, p) \in U /\ RuleAt(U, p).port = p /\ \A r \in U : r.port = p => RuleAt(U, p) = r
<1>1. \E r \in U : r.port = p
  BY DEF Ports
<1>2. RuleAt(U, p) \in U /\ RuleAt(U, p).port = p
  BY <1>1 DEF RuleAt
<1> QED BY <1>2, Fitting

(***************************************************************************)
(* Targets and limits.                                                     *)
(***************************************************************************)
LEMMA Targets ==
  ASSUME NEW r \in Rule, NEW old \in TargetType
  PROVE  /\ targetOf(r, old) \in TargetType
         /\ targetOf(r, old).dest = r.dest /\ targetOf(r, old).proxy = r.proxy
         /\ \/ targetOf(r, old) = old
            \/ targetOf(r, old) # old /\ targetOf(r, old).ver = old.ver + 1
BY DEF targetOf, Rule, TargetType

LEMMA Nothing == None \in TargetType /\ Fresh \in Connection /\ Gone \in Connection
                 /\ Fresh.st = "new" /\ Fresh.of = 0 /\ Gone.st = "gone" /\ Gone.of = 0
<1>1. None \in TargetType
  BY DEF None, TargetType
<1> HIDE DEF None
<1>2. Fresh \in Connection /\ Fresh.st = "new" /\ Fresh.of = 0
  BY <1>1 DEF Fresh, Connection
<1>3. Gone \in Connection /\ Gone.st = "gone" /\ Gone.of = 0
  <2> HIDE DEF Fresh
  <2> QED BY <1>2 DEF Gone, Connection
<1> QED BY <1>1, <1>2, <1>3

LEMMA Pools ==
  ASSUME NEW t \in TargetType
  PROVE  PoolFor(t) \in TargetType /\ PoolFor(t) \in {t, None}
BY Nothing DEF PoolFor

LEMMA Groups ==
  ASSUME NEW U \in SUBSET Rule
  PROVE  /\ \A g \in Shaped(U) : RateOf(U, g) \in Nat \ {0}
         /\ \A r \in U : r.group > 0 /\ r.rate > 0 => r.group \in Shaped(U)
<1>1. ASSUME NEW g \in Shaped(U)  PROVE RateOf(U, g) \in Nat \ {0}
  <2>1. \E r \in U : r.group = g /\ r.rate > 0
    BY DEF Shaped
  <2>2. PICK r : r \in U /\ r.group = g /\ r.rate > 0 /\ RateOf(U, g) = r.rate
    BY <2>1 DEF RateOf
  <2> QED BY <2>2 DEF Rule
<1>2. \A r \in U : r.group > 0 /\ r.rate > 0 => r.group \in Shaped(U)
  BY DEF Shaped
<1> QED BY <1>1, <1>2

(***************************************************************************)
(* Listeners are told apart by their ids, a connection belongs to one that *)
(* is there, and the call under way knows its rules: those it has still to *)
(* open a listener for, to update, to close.                               *)
(***************************************************************************)
Distinct ==
  /\ \A p \in DOMAIN listeners : listeners[p].id \in 1..born
  /\ \A p, q \in DOMAIN listeners : listeners[p].id = listeners[q].id => p = q
HomeOf(k) ==
  IF k.st \in {"new", "gone"} THEN k.of = 0
  ELSE \E p \in DOMAIN listeners : listeners[p].id = k.of
Homed == \A c \in Clients : HomeOf(conns[c])

Asked(j) == IF j.back THEN j.user = last.user ELSE Fit(j.user, j.kernel)
Progress(j) ==
  /\ j.todo \subseteq Ports(j.user) /\ DOMAIN groups = Shaped(j.user)
  /\ j.pc = "open" => /\ j.todo \cap DOMAIN listeners = {}
                      /\ j.failed \/ Ports(j.user) \subseteq DOMAIN listeners \cup j.todo
  /\ j.pc # "open" => Ports(j.user) \subseteq DOMAIN listeners
  /\ j.pc = "pool" => j.port \in j.todo /\ listeners[j.port].tgt.ver > 0
  /\ j.pc = "wait" => j.port \in DOMAIN listeners \ Ports(j.user) /\ j.todo = {}
  /\ j.pc \in {"kernel", "sync"} =>
       DOMAIN listeners = Ports(j.user) /\ j.todo = {} /\ ~j.back
Planned == cur # Idle => Asked(cur) /\ Progress(cur)

Sound == Distinct /\ Homed /\ Fit(last.user, last.kernel) /\ Planned

LEMMA Calls ==
  /\ Idle \notin Call /\ Idle.pc = "idle"
  /\ \A j \in Call : /\ j.pc \in {"open", "update", "pool", "wait", "kernel", "sync"}
                     /\ j.user \in SUBSET Rule /\ j.kernel \in SUBSET Rule
                     /\ j.back \in BOOLEAN /\ j.failed \in BOOLEAN
                     /\ j.todo \in SUBSET Nat /\ j.port \in Nat
<1>1. Idle.pc = "idle"
  BY DEF Idle
<1>2. \A j \in Call : /\ j.pc \in {"open", "update", "pool", "wait", "kernel", "sync"}
                     /\ j.user \in SUBSET Rule /\ j.kernel \in SUBSET Rule
                     /\ j.back \in BOOLEAN /\ j.failed \in BOOLEAN
                     /\ j.todo \in SUBSET Nat /\ j.port \in Nat
  BY DEF Call
<1> QED BY <1>1, <1>2

LEMMA CallUser ==
  ASSUME TypeOK, Sound, cur # Idle
  PROVE  cur \in Call /\ \E K : Fit(cur.user, K)
BY Calls DEF TypeOK, Sound, Planned, Asked

(***************************************************************************)
(* A step of one connection.                                               *)
(***************************************************************************)
LEMMA Slots ==
  ASSUME TypeOK, NEW id
  PROVE  InSlot(id) \subseteq Clients /\ IsFiniteSet(InSlot(id))
BY DataPlaneAssumption, FS_Subset DEF InSlot

LEMMA FewerSlots ==
  ASSUME TypeOK, NEW p \in DOMAIN listeners, NEW S, S \subseteq InSlot(listeners[p].id)
  PROVE  Cardinality(S) <= maxConnsPerPort
<1> DEFINE T == InSlot(listeners[p].id)
<1>1. IsFiniteSet(T) /\ Cardinality(T) <= maxConnsPerPort
  BY Slots DEF TypeOK
<1> HIDE DEF T
<1>2. Cardinality(S) <= Cardinality(T) /\ Cardinality(S) \in Nat /\ Cardinality(T) \in Nat
  <2>1. S \subseteq T
    BY DEF T
  <2> QED BY <1>1, <2>1, FS_Subset, FS_CardinalityType
<1> QED BY <1>1, <1>2, DataPlaneAssumption

LEMMA MoveKept ==
  ASSUME TypeOK, Sound, NEW c \in Clients, NEW new \in Connection, Move(c, new),
         HomeOf(new),
         new.st \in {"started", "load", "dial", "relay", "half"} =>
           /\ new.of = conns[c].of
           /\ conns[c].st \in {"started", "load", "dial", "relay", "half"}
              \/ Cardinality(InSlot(new.of)) < maxConnsPerPort
  PROVE  TypeOK' /\ Sound'
<1>1. /\ UNCHANGED <<listeners, groups, poolSize, table, classes, extra, chains, files, collected,
                     partial, last, cur, born, broken, left>>
      /\ conns' = [conns EXCEPT ![c] = new] /\ conns \in [Clients -> Connection]
  BY DEF Move, planes, walls, TypeOK
<1>2. conns' \in [Clients -> Connection]
  BY <1>1
<1>3. ASSUME NEW p \in DOMAIN listeners
      PROVE  Cardinality(InSlot(listeners[p].id)') <= maxConnsPerPort
  <2> DEFINE id == listeners[p].id
             S == InSlot(id)
             T == InSlot(id)'
  <2>1. listeners' = listeners
    BY <1>1
  <2>2. T \subseteq S \cup {c}
    BY <1>1, <2>1 DEF InSlot
  <2>3. CASE T \subseteq S
    BY <2>3, FewerSlots
  <2>4. CASE ~ (T \subseteq S)
    <3>1. c \in T /\ c \notin S
      BY <2>2, <2>4
    <3>2. new.of = id /\ new.st \in {"started", "load", "dial", "relay", "half"}
      BY <1>1, <2>1, <3>1 DEF InSlot
    <3>3. Cardinality(S) < maxConnsPerPort
      BY <3>1, <3>2 DEF InSlot
    <3>4. IsFiniteSet(S)
      BY Slots
    <3> HIDE DEF S, T
    <3>5. /\ Cardinality(S \cup {c}) = Cardinality(S) + 1 /\ IsFiniteSet(S \cup {c})
          /\ Cardinality(S) \in Nat
      BY <3>1, <3>4, FS_AddElement, FS_CardinalityType
    <3>6. Cardinality(T) <= Cardinality(S \cup {c}) /\ Cardinality(T) \in Nat
      BY <2>2, <3>5, FS_Subset, FS_CardinalityType
    <3> QED BY <3>3, <3>5, <3>6, DataPlaneAssumption DEF T
  <2> QED BY <2>3, <2>4
<1>4. TypeOK'
  BY <1>1, <1>2, <1>3 DEF TypeOK, ListenersTyped, WallsTyped
<1>5. Homed'
  BY <1>1, <1>2 DEF Sound, Homed, HomeOf
<1>6. Planned'
  BY <1>1 DEF Sound, Planned, Asked, Progress
<1>7. Distinct' /\ Fit(last.user, last.kernel)'
  BY <1>1 DEF Sound, Distinct
<1> QED BY <1>4, <1>5, <1>6, <1>7 DEF Sound

LEMMA PortFound ==
  ASSUME Sound, NEW c \in Clients, conns[c].st \notin {"new", "gone"}
  PROVE  PortOf(c) \in DOMAIN listeners /\ listeners[PortOf(c)].id = conns[c].of
<1>1. \E p \in DOMAIN listeners : listeners[p].id = conns[c].of
  BY DEF Sound, Homed, HomeOf
<1> QED BY <1>1 DEF PortOf

LEMMA SteadyMove ==
  ASSUME Sound, NEW c \in Clients, NEW k, HomeOf(conns[c]),
         conns[c].st \notin {"new", "gone"}, k.of = conns[c].of, k.st \notin {"new", "gone"}
  PROVE  HomeOf(k)
BY DEF HomeOf

LEMMA ConnSteps ==
  ASSUME TypeOK, Sound, NEW c \in Clients, handle(c) \/ DirectionEnds(c)
  PROVE  TypeOK' /\ Sound'
<1>1. conns[c] \in Connection /\ HomeOf(conns[c])
  BY DEF TypeOK, Sound, Homed
<1>2. PICK k : k = conns[c]
  OBVIOUS
<1>3. HomeOf(Gone) /\ Gone \in Connection
  BY Nothing DEF HomeOf
<1>4. CASE GetSlot(c)
  <2>1. PICK new : new = [k EXCEPT !.st = "started"]
    OBVIOUS
  <2>2. new \in Connection /\ new.of = k.of /\ new.st = "started"
    BY <1>1, <1>2, <2>1 DEF Connection
  <2>3. k.st = "wait" /\ Cardinality(InSlot(k.of)) < maxConnsPerPort /\ Move(c, new)
    BY <1>2, <1>4, <2>1 DEF GetSlot
  <2>4. HomeOf(new)
    BY <1>1, <1>2, <2>2, <2>3, SteadyMove
  <2> QED BY <1>2, <2>2, <2>3, <2>4, MoveKept
<1>5. CASE LoopEnds(c) \/ Linger(c) \/ Move(c, Gone)
  BY <1>3, <1>5, MoveKept, Nothing DEF LoopEnds, Linger
<1>6. CASE Known(c)
  <2> DEFINE p == PortOf(c)
  <2>1. k.st = "started" /\ p \in DOMAIN listeners
    BY <1>2, <1>6, PortFound DEF Known
  <2>2. PICK n : n = listeners[p].tgt.ver - IF cur.pc = "pool" /\ cur.port = p THEN 1 ELSE 0
    OBVIOUS
  <2>3. n \in Nat
    <3>1. listeners[p].tgt.ver \in Nat
      BY <2>1 DEF TypeOK, ListenersTyped, Listener, TargetType
    <3>2. cur.pc = "pool" /\ cur.port = p => listeners[p].tgt.ver > 0
      BY Calls DEF Sound, Planned, Progress, TypeOK
    <3> QED BY <2>2, <3>1, <3>2
  <2>4. PICK new : new = [k EXCEPT !.st = "load", !.min = n]
    OBVIOUS
  <2>5. new \in Connection /\ new.of = k.of /\ new.st = "load"
    BY <1>1, <1>2, <2>3, <2>4 DEF Connection
  <2>6. Move(c, new)
    BY <1>2, <1>6, <2>2, <2>4 DEF Known
  <2>7. HomeOf(new)
    BY <1>1, <1>2, <2>1, <2>5, SteadyMove
  <2> QED BY <1>2, <2>1, <2>5, <2>6, <2>7, MoveKept
<1>7. CASE LoadTarget(c)
  <2>1. k.st = "load" /\ PortOf(c) \in DOMAIN listeners
    BY <1>2, <1>7, PortFound DEF LoadTarget
  <2>2. PICK t : t = listeners[PortOf(c)].tgt
    OBVIOUS
  <2>3. t \in TargetType
    BY <2>1, <2>2 DEF TypeOK, ListenersTyped, Listener
  <2>4. PICK new : new = [k EXCEPT !.st = "dial", !.tgt = t]
    OBVIOUS
  <2>5. new \in Connection /\ new.of = k.of /\ new.st = "dial" /\ Move(c, new)
    BY <1>1, <1>2, <1>7, <2>2, <2>3, <2>4 DEF Connection, LoadTarget
  <2>7. HomeOf(new)
    BY <1>1, <1>2, <2>1, <2>5, SteadyMove
  <2> QED BY <1>2, <2>1, <2>5, <2>7, MoveKept
<1>8. CASE conns[c].st = "dial" /\ Move(c, [conns[c] EXCEPT !.st = "relay", !.up = Upstream(c)])
  <2>1. k.st = "dial" /\ PortOf(c) \in DOMAIN listeners
    BY <1>2, <1>8, PortFound
  <2>2. PICK t : t = Upstream(c)
    OBVIOUS
  <2>3. t \in TargetType
    BY <1>1, <2>1, <2>2 DEF TypeOK, ListenersTyped, Listener, Connection, Upstream
  <2>4. PICK new : new = [k EXCEPT !.st = "relay", !.up = t]
    OBVIOUS
  <2>5. new \in Connection /\ new.of = k.of /\ new.st = "relay" /\ Move(c, new)
    BY <1>1, <1>2, <1>8, <2>2, <2>3, <2>4 DEF Connection
  <2>7. HomeOf(new)
    BY <1>1, <1>2, <2>1, <2>5, SteadyMove
  <2> QED BY <1>2, <2>1, <2>5, <2>7, MoveKept
<1>9. CASE DirectionEnds(c)
  <2>1. PICK new : new = [k EXCEPT !.st = "half"]
    OBVIOUS
  <2>2. k.st = "relay" /\ new \in Connection /\ new.of = k.of /\ new.st = "half" /\ Move(c, new)
    BY <1>1, <1>2, <1>9, <2>1 DEF Connection, DirectionEnds
  <2>3. HomeOf(new)
    BY <1>1, <1>2, <2>2, SteadyMove
  <2> QED BY <1>2, <2>2, <2>3, MoveKept
<1> QED BY <1>4, <1>5, <1>6, <1>7, <1>8, <1>9 DEF handle, Dial

(***************************************************************************)
(* What a step leaves as it is.                                            *)
(***************************************************************************)
Populated ==
  /\ conns \in [Clients -> Connection]
  /\ \A p \in DOMAIN listeners : Cardinality(InSlot(listeners[p].id)) <= maxConnsPerPort

LEMMA IdsKept ==
  ASSUME TypeOK, Sound, UNCHANGED conns, born' \in Nat, born <= born',
         DOMAIN listeners' = DOMAIN listeners,
         \A p \in DOMAIN listeners : listeners'[p].id = listeners[p].id
  PROVE  Distinct' /\ Homed' /\ Populated'
<1>1. Distinct'
  BY DEF Sound, Distinct, TypeOK, ListenersTyped
<1>2. Homed'
  BY DEF Sound, Homed, HomeOf
<1>3. Populated'
  <2>1. ASSUME NEW p \in DOMAIN listeners'
        PROVE  Cardinality(InSlot(listeners[p].id)) <= maxConnsPerPort
               /\ InSlot(listeners[p].id) = InSlot(listeners[p].id)'
    <3>1. p \in DOMAIN listeners /\ listeners'[p].id = listeners[p].id
      OBVIOUS
    <3> QED BY <3>1 DEF TypeOK, InSlot
  <2> QED BY <2>1 DEF TypeOK, Populated
<1> QED BY <1>1, <1>2, <1>3

LEMMA SameListeners ==
  ASSUME TypeOK, Sound, UNCHANGED <<listeners, groups, poolSize, born, conns>>
  PROVE  Distinct' /\ Homed' /\ Populated' /\ ListenersTyped'
<1>1. ListenersTyped'
  BY DEF TypeOK, ListenersTyped
<1>2. born' \in Nat /\ born <= born'
  BY DEF TypeOK, ListenersTyped
<1> QED BY <1>1, <1>2, IdsKept

LEMMA SpendTyped ==
  ASSUME TypeOK, NEW kind, Has(kind), Spend(kind)
  PROVE  left' \in [Kinds -> Nat]
<1>1. CASE kind \in Kinds
  BY <1>1 DEF TypeOK, Has, Spend
<1>2. CASE kind \notin Kinds
  BY <1>2 DEF TypeOK, Has, Spend
<1> QED BY <1>1, <1>2

LEMMA Assembled ==
  ASSUME Distinct', Homed', Populated', ListenersTyped', WallsTyped',
         last' \in [user : SUBSET Rule, kernel : SUBSET Rule], Fit(last.user, last.kernel)',
         cur' \in {Idle} \cup Call, Planned',
         broken' \subseteq {"bind", "tc", "restart"}, left' \in [Kinds -> Nat]
  PROVE  TypeOK' /\ Sound'
BY DEF TypeOK, Sound, Populated

\* A step of a call that changes neither the rules in force nor the walls.
CallFrame == UNCHANGED <<walls, last>>
LEMMA InCall ==
  ASSUME TypeOK, Sound, CallFrame, Distinct', Homed', Populated', ListenersTyped',
         cur' \in {Idle} \cup Call, Planned',
         broken' \subseteq {"bind", "tc", "restart"}, left' \in [Kinds -> Nat]
  PROVE  TypeOK' /\ Sound'
<1>1. UNCHANGED <<extra, chains, files, collected, partial, last>>
  BY DEF CallFrame, walls
<1>2. WallsTyped'
  BY <1>1 DEF TypeOK, WallsTyped
<1>3. last' \in [user : SUBSET Rule, kernel : SUBSET Rule] /\ Fit(last.user, last.kernel)'
  BY <1>1 DEF TypeOK, Sound
<1> QED BY <1>2, <1>3, Assembled

(***************************************************************************)
(* A call of userspaceBackend.Reconcile begins.                            *)
(***************************************************************************)
LEMMA NewGroups ==
  ASSUME TypeOK, NEW U \in SUBSET Rule, groups' = desiredGroups(U)
  PROVE  /\ DOMAIN groups' = Shaped(U)
         /\ \A g \in Shaped(U) : /\ groups'[g].id \in Nat \ {0} /\ groups'[g].rate \in Nat \ {0}
                                 /\ groups'[g].rate = RateOf(U, g)
                                 /\ g \in DOMAIN groups => groups'[g].id = groups[g].id
<1>1. DOMAIN groups' = Shaped(U)
  BY DEF desiredGroups
<1>2. ASSUME NEW g \in Shaped(U)
      PROVE  /\ groups'[g].rate = RateOf(U, g)
             /\ groups'[g].id = IF g \in DOMAIN groups THEN groups[g].id ELSE born + 1
  BY DEF desiredGroups
<1> QED BY <1>1, <1>2, Groups DEF TypeOK, ListenersTyped

LEMMA Begins ==
  ASSUME TypeOK, Sound, NEW U, NEW K \in SUBSET Rule, NEW back \in BOOLEAN,
         U \in SUBSET Rule, IF back THEN U = last.user ELSE Fit(U, K),
         userspaceReconcile(U, K, back), CallFrame, UNCHANGED <<listeners, poolSize, conns, broken>>,
         left' \in [Kinds -> Nat]
  PROVE  TypeOK' /\ Sound'
<1> DEFINE todo == {r.port : r \in U} \ DOMAIN listeners
<1>1. /\ cur' = [pc |-> "open", user |-> U, kernel |-> K, back |-> back, failed |-> FALSE,
                 todo |-> todo, port |-> 0]
      /\ groups' = desiredGroups(U) /\ born' = born + 1
  BY DEF userspaceReconcile
<1>2. todo \in SUBSET Nat /\ todo \subseteq Ports(U) /\ todo \cap DOMAIN listeners = {}
      /\ Ports(U) \subseteq DOMAIN listeners \cup todo
  BY DEF Rule, Ports
<1> HIDE DEF todo
<1>3. cur' \in Call
  BY <1>1, <1>2 DEF Call
<1>4. Planned'
  <2>1. /\ cur'.pc = "open" /\ cur'.user = U /\ cur'.kernel = K /\ cur'.back = back
        /\ cur'.todo = todo /\ cur'.failed = FALSE
    BY <1>1
  <2>2. UNCHANGED <<listeners, last>>
    BY DEF CallFrame
  <2>3. Asked(cur)'
    BY <2>1, <2>2 DEF Asked
  <2>4. Progress(cur)'
    BY <1>1, <1>2, <2>1, <2>2, NewGroups DEF Progress
  <2> QED BY <2>3, <2>4 DEF Planned
<1>5. ListenersTyped'
  <2>1. \A g \in DOMAIN groups' : groups'[g].id \in Nat \ {0} /\ groups'[g].rate \in Nat \ {0}
    BY <1>1, NewGroups
  <2> QED BY <1>1, <2>1 DEF TypeOK, ListenersTyped
<1>6. Distinct' /\ Homed' /\ Populated'
  <2>1. born' \in Nat /\ born <= born'
    BY <1>1 DEF TypeOK, ListenersTyped
  <2> QED BY <2>1, IdsKept
<1>7. broken' \subseteq {"bind", "tc", "restart"}
  BY DEF TypeOK
<1> QED BY <1>3, <1>4, <1>5, <1>6, <1>7, InCall

LEMMA ReconcileKept ==
  ASSUME TypeOK, Sound, NEW R \in Rulesets, Reconcile(R)
  PROVE  TypeOK' /\ Sound'
<1>1. UserPart(R) \in SUBSET Rule /\ KernelPart(R) \in SUBSET Rule
  BY Parts, DataPlaneAssumption
<1>2. Fit(UserPart(R), KernelPart(R))
  BY DEF Fit, Reconcile
<1>3. left' \in [Kinds -> Nat]
  BY SpendTyped DEF Reconcile
<1>4. userspaceReconcile(UserPart(R), KernelPart(R), FALSE) /\ CallFrame
      /\ UNCHANGED <<listeners, poolSize, conns, broken>>
  BY DEF Reconcile, CallFrame
<1> QED BY <1>1, <1>2, <1>3, <1>4, Begins

LEMMA FailsKept ==
  ASSUME TypeOK, Sound, kernelFails
  PROVE  TypeOK' /\ Sound'
<1>1. last.user \in SUBSET Rule /\ {} \in SUBSET Rule
  BY DEF TypeOK
<1>3. left' \in [Kinds -> Nat]
  BY SpendTyped DEF kernelFails
<1>4. userspaceReconcile(last.user, {}, TRUE) /\ CallFrame
      /\ UNCHANGED <<listeners, poolSize, conns, broken>>
  BY DEF kernelFails, CallFrame
<1> QED BY <1>1, <1>3, <1>4, Begins

(***************************************************************************)
(* The steps of a call.                                                    *)
(***************************************************************************)
LEMMA OpenKept ==
  ASSUME TypeOK, Sound, NEW port, openListener(port)
  PROVE  TypeOK' /\ Sound'
<1>1. /\ cur.pc = "open" /\ port \in cur.todo
      /\ UNCHANGED <<groups, poolSize, table, classes, walls, last, conns, broken>>
      /\ cur \in Call /\ CallFrame
  BY Calls DEF openListener, TypeOK, CallFrame
<1>2. PICK K : Fit(cur.user, K)
  BY <1>1, Calls, CallUser
<1>3. Asked(cur) /\ Progress(cur) /\ cur # Idle
  BY <1>1, Calls DEF Sound, Planned
<1>4. port \in Ports(cur.user) \ DOMAIN listeners /\ port \in Nat
  BY <1>1, <1>3, Calls DEF Progress
<1>5. PICK j : j = cur
  OBVIOUS
<1>6. ASSUME NEW failed \in BOOLEAN, j.failed => failed,
             cur' = [j EXCEPT !.todo = j.todo \ {port}, !.failed = failed],
             DOMAIN listeners' = DOMAIN listeners \cup {port}
             \/ (DOMAIN listeners' = DOMAIN listeners /\ failed)
      PROVE  cur' \in Call /\ Planned'
  <2>1. /\ cur' \in Call
        /\ cur'.todo = j.todo \ {port} /\ cur'.user = j.user /\ cur'.kernel = j.kernel
        /\ cur'.back = j.back /\ cur'.pc = "open" /\ cur'.failed = failed
    BY <1>1, <1>5, <1>6 DEF Call
  <2>2. Asked(cur)'
    BY <1>1, <1>3, <1>5, <2>1 DEF Asked
  <2>3. Progress(cur)'
    BY <1>1, <1>3, <1>5, <1>6, <2>1 DEF Progress
  <2> QED BY <2>1, <2>2, <2>3 DEF Planned
<1>7. CASE /\ Has("bind") /\ Spend("bind")
           /\ cur' = [cur EXCEPT !.todo = @ \ {port}, !.failed = TRUE]
           /\ UNCHANGED <<listeners, born>>
  <2>1. cur' = [j EXCEPT !.todo = j.todo \ {port}, !.failed = TRUE]
    BY <1>5, <1>7
  <2>2. cur' \in Call /\ Planned'
    BY <1>6, <1>7, <2>1
  <2>3. left' \in [Kinds -> Nat]
    BY <1>7, SpendTyped
  <2>4. broken' \subseteq {"bind", "tc", "restart"}
    BY <1>1 DEF TypeOK
  <2>5. Distinct' /\ Homed' /\ Populated' /\ ListenersTyped'
    BY <1>1, <1>7, SameListeners
  <2> QED BY <1>1, <2>2, <2>3, <2>4, <2>5, InCall
<1>8. ASSUME NEW tgt, tgt = targetOf(RuleAt(cur.user, port), None),
             listeners' = [p \in {port} \cup DOMAIN listeners |->
                IF p = port THEN [id |-> born + 1, tgt |-> tgt, pool |-> PoolFor(tgt),
                                  lim |-> 0, down |-> 0]
                ELSE listeners[p]],
             born' = born + 1, cur' = [cur EXCEPT !.todo = @ \ {port}], UNCHANGED left
      PROVE  TypeOK' /\ Sound'
  <2>1. tgt \in TargetType
    <3>1. RuleAt(cur.user, port) \in Rule
      BY <1>2, <1>4, RuleAtPort, Fitting
    <3> QED BY <1>8, <3>1, Targets, Nothing
  <2>2. PICK new : new = [id |-> born + 1, tgt |-> tgt, pool |-> PoolFor(tgt), lim |-> 0, down |-> 0]
    OBVIOUS
  <2>3. new \in Listener /\ new.id = born + 1 /\ born \in Nat
    BY <2>1, <2>2, Pools DEF TypeOK, ListenersTyped, Listener
  <2>4. /\ DOMAIN listeners' = DOMAIN listeners \cup {port} /\ listeners'[port] = new
        /\ \A p \in DOMAIN listeners : listeners'[p] = listeners[p]
    BY <1>4, <1>8, <2>2
  <2>5. ListenersTyped'
    BY <1>1, <1>4, <1>8, <2>3, <2>4 DEF TypeOK, ListenersTyped
  <2>6. Distinct'
    <3>1. \A p \in DOMAIN listeners : listeners[p].id \in 1..born
      BY DEF Sound, Distinct
    <3>2. \A p \in DOMAIN listeners' : listeners'[p].id \in 1..(born + 1)
      BY <2>3, <2>4, <3>1
    <3>3. \A p \in DOMAIN listeners : listeners'[p].id # born + 1
      BY <2>3, <2>4, <3>1
    <3> QED BY <1>8, <2>3, <2>4, <3>2, <3>3 DEF Sound, Distinct
  <2>7. Homed'
    <3>1. ASSUME NEW c \in Clients  PROVE HomeOf(conns[c])'
      <4>1. HomeOf(conns[c]) /\ conns' = conns
        BY <1>1 DEF Sound, Homed
      <4> QED BY <2>4, <4>1 DEF HomeOf
    <3> QED BY <3>1 DEF Homed
  <2>8. Populated'
    <3>1. ASSUME NEW p \in DOMAIN listeners'
          PROVE  Cardinality(InSlot(listeners[p].id)') <= maxConnsPerPort
      <4>1. CASE p \in DOMAIN listeners
        <5>1. InSlot(listeners[p].id)' = InSlot(listeners[p].id)
          BY <1>1, <2>4, <4>1 DEF InSlot
        <5> QED BY <4>1, <5>1 DEF TypeOK
      <4>2. CASE p = port
        <5>1. \A c \in Clients : conns[c].of # born + 1
          <6>1. ASSUME NEW c \in Clients  PROVE conns[c].of # born + 1
            <7>1. conns[c].of = 0 \/ \E q \in DOMAIN listeners : conns[c].of = listeners[q].id
              BY DEF Sound, Homed, HomeOf
            <7> QED BY <2>3, <7>1 DEF Sound, Distinct
          <6> QED BY <6>1
        <5>2. InSlot(listeners[p].id)' = {}
          BY <1>1, <2>3, <2>4, <4>2, <5>1 DEF InSlot
        <5> QED BY <5>2, FS_EmptySet, DataPlaneAssumption
      <4> QED BY <2>4, <4>1, <4>2
    <3>2. conns' \in [Clients -> Connection]
      BY <1>1 DEF TypeOK
    <3> QED BY <3>1, <3>2 DEF Populated
  <2>9. cur' \in Call /\ Planned'
    <3> DEFINE f == j.failed
    <3>1. cur' = [j EXCEPT !.todo = j.todo \ {port}, !.failed = f]
      BY <1>1, <1>5, <1>8 DEF Call
    <3>2. f \in BOOLEAN /\ (j.failed => f)
      BY <1>1, <1>5, Calls
    <3> HIDE DEF f
    <3>3. DOMAIN listeners' = DOMAIN listeners \cup {port}
      BY <2>4
    <3> QED BY ONLY <1>6, <3>1, <3>2, <3>3
  <2>10. left' \in [Kinds -> Nat] /\ broken' \subseteq {"bind", "tc", "restart"}
    BY <1>1, <1>8 DEF TypeOK
  <2> QED BY <1>1, <2>5, <2>6, <2>7, <2>8, <2>9, <2>10, InCall
<1> QED BY <1>7, <1>8 DEF openListener

\* The call goes on at another step, with what it has opened, its rules as they are.
LEMMA CallGoesOn ==
  ASSUME TypeOK, Sound, cur # Idle, UNCHANGED <<last, listeners, groups>>,
         NEW pc \in {"update", "wait", "kernel", "sync"}, NEW todo \in SUBSET Nat, NEW port \in Nat,
         cur' = [cur EXCEPT !.pc = pc, !.todo = todo, !.port = port],
         todo \subseteq Ports(cur.user), Ports(cur.user) \subseteq DOMAIN listeners,
         pc = "wait" => port \in DOMAIN listeners \ Ports(cur.user) /\ todo = {},
         pc \in {"kernel", "sync"} => DOMAIN listeners = Ports(cur.user) /\ todo = {} /\ ~cur.back
  PROVE  cur' \in Call /\ Planned'
<1>1. cur \in Call /\ Asked(cur)
  BY CallUser DEF Sound, Planned
<1>2. /\ cur' \in Call /\ cur'.pc = pc /\ cur'.todo = todo /\ cur'.port = port
      /\ cur'.user = cur.user /\ cur'.kernel = cur.kernel /\ cur'.back = cur.back
  BY <1>1 DEF Call
<1>3. Asked(cur)'
  BY <1>1, <1>2 DEF Asked
<1>4. Progress(cur)'
  BY <1>2 DEF Sound, Planned, Progress
<1> QED BY <1>2, <1>3, <1>4 DEF Planned

LEMMA BindErrorsKept ==
  ASSUME TypeOK, Sound, bindErrors
  PROVE  TypeOK' /\ Sound'
<1>1. /\ cur.pc = "open" /\ cur.todo = {} /\ cur # Idle /\ CallFrame
      /\ UNCHANGED <<listeners, groups, poolSize, born, conns, last, left>>
  BY Calls DEF bindErrors, CallFrame, planes
<1>2. cur \in Call /\ Progress(cur)
  BY <1>1, CallUser DEF Sound, Planned
<1>3. Distinct' /\ Homed' /\ Populated' /\ ListenersTyped'
  BY <1>1, SameListeners
<1>4. left' \in [Kinds -> Nat]
  BY <1>1 DEF TypeOK
<1>5. CASE cur.failed /\ cur' = Idle /\ broken' = broken \cup {"bind"}
  BY <1>1, <1>3, <1>4, <1>5, InCall DEF Planned, TypeOK
<1>6. CASE ~cur.failed /\ cur' = [cur EXCEPT !.pc = "update", !.todo = {r.port : r \in cur.user}]
           /\ UNCHANGED broken
  <2> DEFINE ps == {r.port : r \in cur.user}
  <2>1. ps = Ports(cur.user) /\ ps \in SUBSET Nat /\ ps \subseteq DOMAIN listeners
    BY <1>1, <1>2, <1>6, Calls DEF Ports, Progress, Rule
  <2> HIDE DEF ps
  <2>2. PICK pc, todo, port : pc = "update" /\ todo = ps /\ port = cur.port
    OBVIOUS
  <2>3. cur' = [cur EXCEPT !.pc = pc, !.todo = todo, !.port = port]
    BY <1>2, <1>6, <2>2 DEF ps, Call
  <2>4. port \in Nat /\ pc \in {"update", "wait", "kernel", "sync"} /\ todo \in SUBSET Nat
        /\ todo \subseteq Ports(cur.user) /\ Ports(cur.user) \subseteq DOMAIN listeners
        /\ pc # "wait" /\ pc \notin {"kernel", "sync"}
    BY <1>2, <2>1, <2>2, Calls
  <2>5. cur' \in Call /\ Planned'
    <3>1. cur # Idle /\ UNCHANGED <<last, listeners, groups>>
      BY <1>1
    <3> QED BY ONLY TypeOK, Sound, <3>1, <2>3, <2>4, CallGoesOn
  <2> QED BY <1>1, <1>3, <1>4, <1>6, <2>5, InCall DEF TypeOK
<1> QED BY <1>5, <1>6 DEF bindErrors

LEMMA Limits ==
  ASSUME TypeOK, Sound, NEW l, NEW r \in Rule,
         r.group > 0 /\ r.rate > 0 => r.group \in DOMAIN groups
  PROVE  setLimits(l, r).lim \in Int /\ setLimits(l, r).down \in Nat
<1>1. CASE r.group > 0 /\ r.rate > 0
  BY <1>1 DEF TypeOK, ListenersTyped, setLimits
<1>2. CASE ~ (r.group > 0 /\ r.rate > 0)
  BY <1>2 DEF setLimits, Rule
<1> QED BY <1>1, <1>2

LEMMA UpdateKept ==
  ASSUME TypeOK, Sound, NEW port, hotUpdate(port)
  PROVE  TypeOK' /\ Sound'
<1>1. /\ cur.pc = "update" /\ port \in cur.todo /\ cur # Idle /\ cur \in Call /\ CallFrame
      /\ UNCHANGED <<groups, poolSize, born, conns, last, broken, left>>
  BY Calls DEF hotUpdate, CallFrame, TypeOK
<1>2. Asked(cur) /\ Progress(cur) /\ \E K : Fit(cur.user, K)
  BY <1>1, CallUser DEF Sound, Planned
<1>3. port \in DOMAIN listeners /\ port \in Ports(cur.user) /\ port \in Nat
  BY <1>1, <1>2, Calls DEF Progress
<1>4. PICK l, r : l = listeners[port] /\ r = RuleAt(cur.user, port)
  OBVIOUS
<1>5. l \in Listener /\ r \in Rule /\ r \in cur.user
  BY <1>2, <1>3, <1>4, RuleAtPort, Fitting DEF TypeOK, ListenersTyped
<1>6. PICK tgt, limits : tgt = targetOf(r, l.tgt) /\ limits = setLimits(l, r)
  OBVIOUS
<1>7. /\ tgt \in TargetType /\ limits.lim \in Int /\ limits.down \in Nat
      /\ tgt # l.tgt => tgt.ver > 0
  <2>1. l.tgt \in TargetType
    BY <1>5 DEF Listener
  <2>2. r.group > 0 /\ r.rate > 0 => r.group \in DOMAIN groups
    BY <1>1, <1>2, <1>5, Groups, Calls DEF Progress
  <2>3. limits.lim \in Int /\ limits.down \in Nat
    BY <1>5, <1>6, <2>2, Limits
  <2> QED BY <1>5, <1>6, <2>1, <2>3, Targets DEF TargetType
<1>8. PICK new : new = [l EXCEPT !.tgt = tgt, !.lim = limits.lim, !.down = limits.down]
  OBVIOUS
<1>9. new \in Listener /\ new.id = l.id /\ new.tgt = tgt
  BY <1>5, <1>7, <1>8 DEF Listener
<1>10. /\ listeners' = [listeners EXCEPT ![port] = new]
       /\ cur' = IF l.tgt = tgt THEN [cur EXCEPT !.todo = @ \ {port}]
                 ELSE [cur EXCEPT !.pc = "pool", !.port = port]
  BY <1>4, <1>6, <1>8 DEF hotUpdate
<1>11. /\ DOMAIN listeners' = DOMAIN listeners /\ listeners'[port] = new
       /\ \A p \in DOMAIN listeners : p # port => listeners'[p] = listeners[p]
  BY <1>3, <1>10
<1>12. ListenersTyped'
  BY <1>1, <1>9, <1>11 DEF TypeOK, ListenersTyped
<1>13. Distinct' /\ Homed' /\ Populated'
  <2>1. born' \in Nat /\ born <= born'
    BY <1>1 DEF TypeOK, ListenersTyped
  <2> QED BY <1>1, <1>4, <1>9, <1>11, <2>1, IdsKept
<1>14. cur' \in Call /\ Planned'
  <2>1. CASE l.tgt = tgt
    <3>1. /\ cur' \in Call /\ cur'.pc = "update" /\ cur'.todo = cur.todo \ {port}
          /\ cur'.user = cur.user /\ cur'.kernel = cur.kernel /\ cur'.back = cur.back
      BY <1>1, <1>10, <2>1 DEF Call
    <3> QED BY <1>1, <1>2, <1>11, <3>1 DEF Planned, Asked, Progress
  <2>2. CASE l.tgt # tgt
    <3>1. /\ cur' \in Call /\ cur'.pc = "pool" /\ cur'.todo = cur.todo /\ cur'.port = port
          /\ cur'.user = cur.user /\ cur'.kernel = cur.kernel /\ cur'.back = cur.back
      BY <1>1, <1>3, <1>10, <2>2 DEF Call
    <3>2. listeners'[port].tgt.ver > 0
      BY <1>7, <1>9, <1>11, <2>2
    <3> QED BY <1>1, <1>2, <1>11, <3>1, <3>2 DEF Planned, Asked, Progress
  <2> QED BY <2>1, <2>2
<1>15. left' \in [Kinds -> Nat] /\ broken' \subseteq {"bind", "tc", "restart"}
  BY <1>1 DEF TypeOK
<1> QED BY <1>1, <1>12, <1>13, <1>14, <1>15, InCall

LEMMA SwapKept ==
  ASSUME TypeOK, Sound, swapPool
  PROVE  TypeOK' /\ Sound'
<1>1. /\ cur.pc = "pool" /\ cur # Idle /\ cur \in Call /\ CallFrame
      /\ UNCHANGED <<groups, poolSize, born, conns, last, broken, left>>
  BY Calls DEF swapPool, CallFrame, TypeOK
<1>2. Asked(cur) /\ Progress(cur)
  BY <1>1 DEF Sound, Planned
<1>3. PICK port : port = cur.port
  OBVIOUS
<1>4. port \in DOMAIN listeners /\ port \in cur.todo
  BY <1>1, <1>2, <1>3 DEF Progress
<1>5. PICK l, pool : l = listeners[port] /\ pool = PoolFor(l.tgt)
  OBVIOUS
<1>6. l \in Listener /\ pool \in TargetType
  <2>1. l \in Listener /\ l.tgt \in TargetType
    BY <1>4, <1>5 DEF TypeOK, ListenersTyped, Listener
  <2> QED BY <1>5, <2>1, Pools
<1>7. PICK new : new = [l EXCEPT !.pool = pool]
  OBVIOUS
<1>8. new \in Listener /\ new.id = l.id
  BY <1>6, <1>7 DEF Listener
<1>9. /\ listeners' = [listeners EXCEPT ![port] = new]
      /\ cur' = [cur EXCEPT !.pc = "update", !.todo = cur.todo \ {port}, !.port = 0]
  BY <1>3, <1>4, <1>5, <1>7 DEF swapPool
<1>10. /\ DOMAIN listeners' = DOMAIN listeners /\ listeners'[port] = new
       /\ \A p \in DOMAIN listeners : p # port => listeners'[p] = listeners[p]
  BY <1>4, <1>9
<1>11. ListenersTyped'
  BY <1>1, <1>8, <1>10 DEF TypeOK, ListenersTyped
<1>12. Distinct' /\ Homed' /\ Populated'
  <2>1. born' \in Nat /\ born <= born'
    BY <1>1 DEF TypeOK, ListenersTyped
  <2> QED BY <1>1, <1>5, <1>8, <1>10, <2>1, IdsKept
<1>13. cur' \in Call /\ Planned'
  <2>1. /\ cur' \in Call /\ cur'.pc = "update" /\ cur'.todo = cur.todo \ {port}
        /\ cur'.user = cur.user /\ cur'.kernel = cur.kernel /\ cur'.back = cur.back
    BY <1>1, <1>9 DEF Call
  <2> QED BY <1>1, <1>2, <1>10, <2>1 DEF Planned, Asked, Progress
<1>14. left' \in [Kinds -> Nat] /\ broken' \subseteq {"bind", "tc", "restart"}
  BY <1>1 DEF TypeOK
<1> QED BY <1>1, <1>11, <1>12, <1>13, <1>14, InCall

LEMMA CloseKept ==
  ASSUME TypeOK, Sound, NEW port \in DOMAIN listeners, close(port)
  PROVE  TypeOK' /\ Sound'
<1>1. /\ cur.pc = "update" /\ cur.todo = {} /\ cur # Idle /\ cur \in Call /\ CallFrame
      /\ port \notin Ports(cur.user)
      /\ UNCHANGED <<listeners, groups, poolSize, born, last, broken, left>>
  BY Calls DEF close, CallFrame, TypeOK, planes, Ports
<1>2. Progress(cur)
  BY <1>1 DEF Sound, Planned
<1>3. ASSUME NEW c \in Clients
      PROVE  /\ conns'[c] \in Connection
             /\ conns'[c].st = conns[c].st /\ conns'[c].of = conns[c].of
  <2>1. conns[c] \in Connection
    BY DEF TypeOK
  <2>2. PICK k : k = [conns[c] EXCEPT !.shut = TRUE]
    OBVIOUS
  <2>3. k \in Connection /\ k.st = conns[c].st /\ k.of = conns[c].of
    BY <2>1, <2>2 DEF Connection
  <2>4. conns'[c] \in {k, conns[c]}
    BY <2>2 DEF close
  <2> QED BY <2>1, <2>3, <2>4
<1>4. conns' \in [Clients -> Connection]
  <2>1. DOMAIN conns' = Clients /\ conns' = [c \in Clients |-> conns'[c]]
    BY DEF close
  <2> QED BY <1>3, <2>1
<1>5. ListenersTyped' /\ Distinct'
  BY <1>1 DEF TypeOK, ListenersTyped, Sound, Distinct
<1>6. Homed'
  <2>1. \A c \in Clients : HomeOf(conns[c])
    BY DEF Sound, Homed
  <2> QED BY <1>1, <1>3, <2>1 DEF Homed, HomeOf
<1>7. Populated'
  <2>1. ASSUME NEW p \in DOMAIN listeners'
        PROVE  /\ Cardinality(InSlot(listeners[p].id)) <= maxConnsPerPort
               /\ InSlot(listeners[p].id)' = InSlot(listeners[p].id)
    BY <1>1, <1>3 DEF TypeOK, InSlot
  <2> QED BY <1>4, <2>1 DEF Populated
<1>8. cur' \in Call /\ Planned'
  <2>1. PICK pc, todo : pc = "wait" /\ todo = {}
    OBVIOUS
  <2>2. cur' = [cur EXCEPT !.pc = pc, !.todo = todo, !.port = port]
    BY <1>1, <2>1 DEF close, Call
  <2>3. /\ pc \in {"update", "wait", "kernel", "sync"} /\ todo \in SUBSET Nat /\ port \in Nat
        /\ todo \subseteq Ports(cur.user) /\ Ports(cur.user) \subseteq DOMAIN listeners
        /\ pc = "wait" => port \in DOMAIN listeners \ Ports(cur.user) /\ todo = {}
        /\ pc \notin {"kernel", "sync"}
    BY <1>1, <1>2, <2>1 DEF Progress, TypeOK, ListenersTyped
  <2>4. cur # Idle /\ UNCHANGED <<last, listeners, groups>>
    BY <1>1
  <2> QED BY ONLY TypeOK, Sound, <2>2, <2>3, <2>4, CallGoesOn
<1>9. left' \in [Kinds -> Nat] /\ broken' \subseteq {"bind", "tc", "restart"}
  BY <1>1 DEF TypeOK
<1> QED BY <1>1, <1>5, <1>6, <1>7, <1>8, <1>9, InCall

LEMMA ClosedKept ==
  ASSUME TypeOK, Sound, closed
  PROVE  TypeOK' /\ Sound'
<1>1. /\ cur.pc = "wait" /\ cur # Idle /\ cur \in Call /\ CallFrame
      /\ UNCHANGED <<groups, poolSize, born, conns, last, broken, left>>
  BY Calls DEF closed, CallFrame, TypeOK
<1>2. Asked(cur) /\ Progress(cur)
  BY <1>1 DEF Sound, Planned
<1>3. PICK port : port = cur.port
  OBVIOUS
<1>4. port \in DOMAIN listeners \ Ports(cur.user) /\ cur.todo = {}
  BY <1>1, <1>2, <1>3 DEF Progress
<1>5. /\ DOMAIN listeners' = DOMAIN listeners \ {port}
      /\ \A p \in DOMAIN listeners' : listeners'[p] = listeners[p]
  BY <1>3 DEF closed, Restrict
<1>6. ListenersTyped' /\ Distinct'
  BY <1>1, <1>5 DEF TypeOK, ListenersTyped, Sound, Distinct
<1>7. Homed'
  <2>1. ASSUME NEW c \in Clients  PROVE HomeOf(conns[c])'
    <3>1. HomeOf(conns[c]) /\ conns[c].of # listeners[port].id
      BY <1>3 DEF Sound, Homed, closed
    <3>2. CASE conns[c].st \in {"new", "gone"}
      BY <1>1, <3>1, <3>2 DEF HomeOf
    <3>3. CASE conns[c].st \notin {"new", "gone"}
      <4>1. PICK p \in DOMAIN listeners : listeners[p].id = conns[c].of
        BY <3>1, <3>3 DEF HomeOf
      <4>2. p \in DOMAIN listeners' /\ listeners'[p].id = conns[c].of
        BY <1>5, <3>1, <4>1
      <4> QED BY <1>1, <3>3, <4>2 DEF HomeOf
    <3> QED BY <3>2, <3>3
  <2> QED BY <2>1 DEF Homed
<1>8. Populated'
  <2>1. ASSUME NEW p \in DOMAIN listeners'
        PROVE  Cardinality(InSlot(listeners[p].id)') <= maxConnsPerPort
    <3>1. InSlot(listeners[p].id)' = InSlot(listeners[p].id)
      BY <1>1, <1>5 DEF InSlot
    <3> QED BY <1>5, <3>1 DEF TypeOK
  <2>2. conns' \in [Clients -> Connection]
    BY <1>1 DEF TypeOK
  <2> QED BY <2>1, <2>2 DEF Populated
<1>9. cur' \in Call /\ Planned'
  <2>1. /\ cur' \in Call /\ cur'.pc = "update" /\ cur'.todo = {}
        /\ cur'.user = cur.user /\ cur'.kernel = cur.kernel /\ cur'.back = cur.back
    BY <1>1, <1>4 DEF Call, closed
  <2>2. Asked(cur)'
    BY <1>1, <1>2, <2>1 DEF Asked
  <2>3. Ports(cur.user) \subseteq DOMAIN listeners'
    BY <1>1, <1>2, <1>4, <1>5 DEF Progress
  <2>4. Progress(cur)'
    BY <1>1, <1>2, <2>1, <2>3 DEF Progress
  <2> QED BY <2>1, <2>2, <2>4 DEF Planned
<1>10. left' \in [Kinds -> Nat] /\ broken' \subseteq {"bind", "tc", "restart"}
  BY <1>1 DEF TypeOK
<1> QED BY <1>1, <1>6, <1>7, <1>8, <1>9, <1>10, InCall

LEMMA UpdatedKept ==
  ASSUME TypeOK, Sound, Updated
  PROVE  TypeOK' /\ Sound'
<1>1. /\ cur.pc = "update" /\ cur.todo = {} /\ DOMAIN listeners = Ports(cur.user)
      /\ cur # Idle /\ cur \in Call /\ CallFrame
      /\ UNCHANGED <<listeners, groups, poolSize, born, conns, last, broken, left>>
      /\ cur' = IF cur.back THEN Idle ELSE [cur EXCEPT !.pc = "kernel"]
  BY Calls DEF Updated, CallFrame, TypeOK, planes, Ports
<1>2. Distinct' /\ Homed' /\ Populated' /\ ListenersTyped'
  BY <1>1, SameListeners
<1>3. cur' \in {Idle} \cup Call /\ Planned'
  <2>1. CASE cur.back
    BY <1>1, <2>1 DEF Planned
  <2>2. CASE ~cur.back
    <3>1. PICK pc, todo, port : pc = "kernel" /\ todo = cur.todo /\ port = cur.port
      OBVIOUS
    <3>2. cur' = [cur EXCEPT !.pc = pc, !.todo = todo, !.port = port]
      BY <1>1, <2>2, <3>1 DEF Call
    <3>3. /\ pc \in {"update", "wait", "kernel", "sync"} /\ todo \in SUBSET Nat /\ port \in Nat
          /\ todo \subseteq Ports(cur.user) /\ Ports(cur.user) \subseteq DOMAIN listeners
          /\ pc # "wait"
          /\ pc \in {"kernel", "sync"} =>
               DOMAIN listeners = Ports(cur.user) /\ todo = {} /\ ~cur.back
      BY <1>1, <2>2, <3>1, Calls
    <3>4. cur # Idle /\ UNCHANGED <<last, listeners, groups>>
      BY <1>1
    <3>5. cur' \in Call /\ Planned'
      BY ONLY TypeOK, Sound, <3>2, <3>3, <3>4, CallGoesOn
    <3> QED BY <3>5
  <2> QED BY <1>1, <2>1, <2>2, Calls
<1>4. left' \in [Kinds -> Nat] /\ broken' \subseteq {"bind", "tc", "restart"}
  BY <1>1 DEF TypeOK
<1> QED BY <1>1, <1>2, <1>3, <1>4, InCall

LEMMA KernelKept ==
  ASSUME TypeOK, Sound, kernelReconcile
  PROVE  TypeOK' /\ Sound'
<1>1. /\ cur.pc = "kernel" /\ cur # Idle /\ cur \in Call /\ CallFrame
      /\ UNCHANGED <<listeners, groups, poolSize, born, conns, last>>
      /\ cur' = [cur EXCEPT !.pc = "sync"]
  BY Calls DEF kernelReconcile, CallFrame, TypeOK
<1>2. Progress(cur)
  BY <1>1 DEF Sound, Planned
<1>3. Distinct' /\ Homed' /\ Populated' /\ ListenersTyped'
  BY <1>1, SameListeners
<1>4. cur' \in Call /\ Planned'
  <2>1. PICK pc, todo, port : pc = "sync" /\ todo = cur.todo /\ port = cur.port
    OBVIOUS
  <2>2. cur' = [cur EXCEPT !.pc = pc, !.todo = todo, !.port = port]
    BY <1>1, <2>1 DEF Call
  <2>3. /\ pc \in {"update", "wait", "kernel", "sync"} /\ todo \in SUBSET Nat /\ port \in Nat
        /\ todo \subseteq Ports(cur.user) /\ Ports(cur.user) \subseteq DOMAIN listeners
        /\ pc # "wait"
        /\ pc \in {"kernel", "sync"} =>
             DOMAIN listeners = Ports(cur.user) /\ todo = {} /\ ~cur.back
    BY <1>1, <1>2, <2>1, Calls DEF Progress
  <2>4. cur # Idle /\ UNCHANGED <<last, listeners, groups>>
    BY <1>1
  <2> QED BY ONLY TypeOK, Sound, <2>2, <2>3, <2>4, CallGoesOn
<1>5. left' \in [Kinds -> Nat] /\ broken' \subseteq {"bind", "tc", "restart"}
  <2>1. CASE broken' = broken \ {"tc"} /\ UNCHANGED left
    BY <2>1 DEF TypeOK
  <2>2. CASE Has("tc") /\ Spend("tc") /\ broken' = broken \cup {"tc"}
    BY <2>2, SpendTyped DEF TypeOK
  <2> QED BY <2>1, <2>2 DEF kernelReconcile
<1> QED BY <1>1, <1>3, <1>4, <1>5, InCall

(***************************************************************************)
(* The firewall.                                                           *)
(***************************************************************************)
LEMMA AcceptTypes ==
  ASSUME NEW U \in SUBSET Rule, NEW K \in SUBSET Rule, NEW E \in SUBSET (Nat \X Protos), NEW ch
  PROVE  Accepts(ch, U, K, E) \in SUBSET (Nat \X Protos)
BY DEF Accepts, mergeListenPorts, ForwardAccepts, Rule, Protos

LEMMA SyncTypes ==
  ASSUME TypeOK, NEW U \in SUBSET Rule, NEW K \in SUBSET Rule, NEW E \in SUBSET (Nat \X Protos),
         firewallSync(U, K, E)
  PROVE  /\ DOMAIN chains' = Chains /\ \A ch \in Chains : chains'[ch] \subseteq Nat \X Protos
         /\ partial' \subseteq Present /\ left' \in [Kinds -> Nat]
<1>1. PICK bad \in SUBSET Present :
        /\ bad # {} => Has("chain")
        /\ \E torn \in SUBSET (bad \ {"docker4", "docker6"}) :
             chains' = [ch \in Chains |->
               IF ch \in torn THEN {}
               ELSE IF ch \in Present \ SyncAll(bad) THEN Accepts(ch, U, K, E) ELSE chains[ch]]
        /\ partial' = SyncAll(bad)
        /\ IF bad = {} THEN UNCHANGED left ELSE Spend("chain")
  BY DEF firewallSync
<1>2. left' \in [Kinds -> Nat]
  BY <1>1, SpendTyped DEF TypeOK
<1>3. partial' \subseteq Present
  BY <1>1 DEF SyncAll
<1>4. PICK torn : chains' = [ch \in Chains |->
               IF ch \in torn THEN {}
               ELSE IF ch \in Present \ SyncAll(bad) THEN Accepts(ch, U, K, E) ELSE chains[ch]]
  BY <1>1
<1>5. ASSUME NEW ch \in Chains  PROVE chains'[ch] \subseteq Nat \X Protos
  <2>1. Accepts(ch, U, K, E) \subseteq Nat \X Protos /\ chains[ch] \subseteq Nat \X Protos
    BY AcceptTypes DEF TypeOK, WallsTyped
  <2>2. chains'[ch] \in {{}, Accepts(ch, U, K, E), chains[ch]}
    BY <1>4
  <2> QED BY <2>1, <2>2
<1> QED BY <1>2, <1>3, <1>4, <1>5

LEMMA ReconciledKept ==
  ASSUME TypeOK, Sound, Reconciled
  PROVE  TypeOK' /\ Sound'
<1>1. /\ cur.pc = "sync" /\ cur # Idle /\ cur \in Call
      /\ last' = [user |-> cur.user, kernel |-> cur.kernel] /\ cur' = Idle
      /\ broken' = broken \cap {"tc"}
      /\ firewallSync(cur.user, cur.kernel, extra)
      /\ UNCHANGED <<listeners, groups, poolSize, extra, files, collected, conns, born>>
  BY Calls DEF Reconciled, TypeOK, planes
<1>2. /\ cur.user \in SUBSET Rule /\ cur.kernel \in SUBSET Rule /\ Fit(cur.user, cur.kernel)
  BY <1>1, Calls DEF Sound, Planned, Asked, Progress
<1>3. Distinct' /\ Homed' /\ Populated' /\ ListenersTyped'
  BY <1>1, SameListeners
<1>4. WallsTyped' /\ left' \in [Kinds -> Nat]
  <2>1. extra \in SUBSET (Nat \X Protos)
    BY DEF TypeOK, WallsTyped
  <2>2. /\ DOMAIN chains' = Chains /\ \A ch \in Chains : chains'[ch] \subseteq Nat \X Protos
        /\ partial' \subseteq Present /\ left' \in [Kinds -> Nat]
    BY <1>1, <1>2, <2>1, SyncTypes
  <2> QED BY <1>1, <2>2 DEF TypeOK, WallsTyped
<1>5. last' \in [user : SUBSET Rule, kernel : SUBSET Rule] /\ Fit(last.user, last.kernel)'
  BY <1>1, <1>2
<1>6. Planned' /\ cur' \in {Idle} \cup Call /\ broken' \subseteq {"bind", "tc", "restart"}
  BY <1>1 DEF Planned, TypeOK
<1> QED BY <1>3, <1>4, <1>5, <1>6, Assembled

\* A step that touches neither the call nor the listeners.
LEMMA CallSame ==
  ASSUME TypeOK, Sound, UNCHANGED <<listeners, groups, poolSize, born, conns, cur, last, broken>>,
         WallsTyped', left' \in [Kinds -> Nat]
  PROVE  TypeOK' /\ Sound'
<1>1. Distinct' /\ Homed' /\ Populated' /\ ListenersTyped'
  BY SameListeners
<1>2. Planned'
  BY DEF Sound, Planned, Asked, Progress
<1>3. Fit(last.user, last.kernel)'
  BY DEF Sound
<1> QED BY <1>1, <1>2, <1>3, Assembled DEF TypeOK

LEMMA WallSteps ==
  ASSUME TypeOK, Sound,
         Deploy \/ \E c \in Callers : collectProxyListenPorts(c) \/ SetExtraListenPorts(c)
  PROVE  TypeOK' /\ Sound'
<1>1. CASE Deploy
  <2>1. UNCHANGED <<listeners, groups, poolSize, born, conns, cur, last, broken>>
    BY <1>1 DEF Deploy, planes
  <2>2. left' \in [Kinds -> Nat]
    BY <1>1, SpendTyped DEF Deploy
  <2>3. WallsTyped'
    BY <1>1, DataPlaneAssumption DEF Deploy, TypeOK, WallsTyped
  <2> QED BY <2>1, <2>2, <2>3, CallSame
<1>2. ASSUME NEW c \in Callers, collectProxyListenPorts(c)  PROVE TypeOK' /\ Sound'
  <2>1. UNCHANGED <<listeners, groups, poolSize, born, conns, cur, last, broken, left>>
    BY <1>2 DEF collectProxyListenPorts, planes
  <2>2. WallsTyped'
    <3>1. [pc |-> "set", ports |-> files] \in [pc : {"set"}, ports : SUBSET (Nat \X Protos)]
      BY DEF TypeOK, WallsTyped
    <3> QED BY <1>2, <3>1 DEF collectProxyListenPorts, TypeOK, WallsTyped
  <2>3. left' \in [Kinds -> Nat]
    BY <2>1 DEF TypeOK
  <2> QED BY <2>1, <2>2, <2>3, CallSame
<1>3. ASSUME NEW c \in Callers, SetExtraListenPorts(c)  PROVE TypeOK' /\ Sound'
  <2>1. UNCHANGED <<listeners, groups, poolSize, born, conns, cur, last, broken, files>>
    BY <1>3 DEF SetExtraListenPorts, planes
  <2>2. collected[c].ports \in SUBSET (Nat \X Protos) /\ last.user \in SUBSET Rule
        /\ last.kernel \in SUBSET Rule
    BY <1>3 DEF SetExtraListenPorts, TypeOK, WallsTyped
  <2>3. /\ DOMAIN chains' = Chains /\ \A ch \in Chains : chains'[ch] \subseteq Nat \X Protos
        /\ partial' \subseteq Present /\ left' \in [Kinds -> Nat]
    <3>1. firewallSync(last.user, last.kernel, collected[c].ports)
      BY <1>3 DEF SetExtraListenPorts
    <3> QED BY <2>2, <3>1, SyncTypes
  <2>4. WallsTyped'
    BY <1>3, <2>1, <2>2, <2>3 DEF SetExtraListenPorts, TypeOK, WallsTyped
  <2> QED BY <2>1, <2>3, <2>4, CallSame
<1> QED BY <1>1, <1>2, <1>3

(***************************************************************************)
(* The pool size, a new process, a new connection.                         *)
(***************************************************************************)
LEMMA PoolSizeKept ==
  ASSUME TypeOK, Sound, SetPoolSize
  PROVE  TypeOK' /\ Sound'
<1>1. /\ cur = Idle /\ cur' = Idle /\ CallFrame /\ poolSize' \in Nat
      /\ UNCHANGED <<listeners, groups, born, conns, broken>>
  BY DataPlaneAssumption DEF SetPoolSize, CallFrame
<1>2. ListenersTyped'
  BY <1>1 DEF TypeOK, ListenersTyped
<1>3. Distinct' /\ Homed' /\ Populated'
  <2>1. born' \in Nat /\ born <= born'
    BY <1>1 DEF TypeOK, ListenersTyped
  <2> QED BY <1>1, <2>1, IdsKept
<1>4. left' \in [Kinds -> Nat] /\ broken' \subseteq {"bind", "tc", "restart"}
  BY <1>1, SpendTyped DEF SetPoolSize, TypeOK
<1>5. Planned'
  BY <1>1 DEF Planned
<1> QED BY <1>1, <1>2, <1>3, <1>4, <1>5, InCall

LEMMA RestartKept ==
  ASSUME TypeOK, Sound, Restart
  PROVE  TypeOK' /\ Sound'
<1>1. /\ DOMAIN listeners' = {} /\ DOMAIN groups' = {} /\ cur' = Idle /\ last' = [user |-> {}, kernel |-> {}]
      /\ extra' = {} /\ collected' = [c \in Callers |-> Idle]
      /\ broken' = broken \cup {"restart"} /\ partial' = Present
      /\ UNCHANGED <<poolSize, files, born>>
      /\ conns' = [c \in Clients |-> IF conns[c].st = "new" THEN Fresh ELSE Gone]
  BY DEF Restart
<1>2. ListenersTyped' /\ Distinct'
  BY <1>1 DEF TypeOK, ListenersTyped, Distinct
<1>3. \A c \in Clients : conns'[c] \in {Fresh, Gone}
  BY <1>1
<1>4. conns' \in [Clients -> Connection]
  BY <1>1, <1>3, Nothing
<1>5. Homed' /\ Populated'
  BY <1>1, <1>3, <1>4, Nothing DEF Homed, HomeOf, Populated
<1>6. WallsTyped'
  <2>1. DOMAIN chains' = Chains /\ \A ch \in Chains : chains'[ch] \subseteq Nat \X Protos
    <3>1. CASE Cleanup
      BY <3>1 DEF Cleanup, TypeOK, WallsTyped
    <3>2. CASE UNCHANGED chains
      BY <3>2 DEF TypeOK, WallsTyped
    <3> QED BY <3>1, <3>2 DEF Restart
  <2> QED BY <1>1, <2>1 DEF TypeOK, WallsTyped
<1>7. last' \in [user : SUBSET Rule, kernel : SUBSET Rule] /\ Fit(last.user, last.kernel)'
  BY <1>1, NothingFits
<1>8. Planned' /\ cur' \in {Idle} \cup Call /\ broken' \subseteq {"bind", "tc", "restart"}
  BY <1>1 DEF Planned, TypeOK
<1>9. left' \in [Kinds -> Nat]
  BY SpendTyped DEF Restart
<1> QED BY <1>2, <1>5, <1>6, <1>7, <1>8, <1>9, Assembled

LEMMA AcceptKept ==
  ASSUME TypeOK, Sound, NEW c \in Clients, Accept(c)
  PROVE  TypeOK' /\ Sound'
<1>1. PICK p \in DOMAIN listeners :
        conns' = [conns EXCEPT ![c] = [Fresh EXCEPT !.st = "wait", !.of = listeners[p].id]]
  BY DEF Accept
<1>2. PICK id, new : id = listeners[p].id /\ new = [Fresh EXCEPT !.st = "wait", !.of = id]
  OBVIOUS
<1>3. id \in Nat
  BY <1>2 DEF TypeOK, ListenersTyped, Listener
<1>4. new \in Connection /\ new.st = "wait" /\ new.of = id
  <2> HIDE DEF Fresh
  <2> QED BY <1>2, <1>3, Nothing DEF Connection
<1>5. /\ conns' = [conns EXCEPT ![c] = new] /\ CallFrame
      /\ UNCHANGED <<listeners, groups, poolSize, cur, born, broken>>
  BY <1>1, <1>2 DEF Accept, CallFrame, planes
<1>6. conns' \in [Clients -> Connection]
  BY <1>4, <1>5 DEF TypeOK
<1>7. ListenersTyped' /\ Distinct'
  BY <1>5 DEF TypeOK, ListenersTyped, Sound, Distinct
<1>8. Homed'
  <2>1. ASSUME NEW d \in Clients  PROVE HomeOf(conns[d])'
    <3>1. CASE d = c
      <4>1. conns'[d].st = "wait" /\ conns'[d].of = listeners'[p].id
        BY <1>2, <1>4, <1>5, <3>1 DEF TypeOK
      <4> QED BY <1>5, <4>1 DEF HomeOf
    <3>2. CASE d # c
      <4>1. conns'[d] = conns[d] /\ HomeOf(conns[d])
        BY <1>5, <3>2 DEF TypeOK, Sound, Homed
      <4> QED BY <1>5, <4>1 DEF HomeOf
    <3> QED BY <3>1, <3>2
  <2> QED BY <2>1 DEF Homed
<1>9. Populated'
  <2>1. ASSUME NEW q \in DOMAIN listeners'
        PROVE  Cardinality(InSlot(listeners[q].id)') <= maxConnsPerPort
    <3>1. InSlot(listeners[q].id)' \subseteq InSlot(listeners[q].id)
      BY <1>4, <1>5 DEF InSlot, TypeOK
    <3> QED BY <1>5, <3>1, FewerSlots
  <2> QED BY <1>6, <2>1 DEF Populated
<1>10. left' \in [Kinds -> Nat] /\ broken' \subseteq {"bind", "tc", "restart"}
  BY <1>5, SpendTyped DEF Accept, TypeOK
<1>11. cur' \in {Idle} \cup Call /\ Planned'
  BY <1>5 DEF TypeOK, Sound, Planned, Asked, Progress, CallFrame
<1> QED BY <1>5, <1>7, <1>8, <1>9, <1>10, <1>11, InCall

LEMMA InitSound == Init => TypeOK /\ Sound
<1> SUFFICES ASSUME Init PROVE TypeOK /\ Sound
  OBVIOUS
<1>1. conns \in [Clients -> Connection]
  BY Nothing DEF Init
<1>2. Homed
  BY Nothing DEF Init, Homed, HomeOf
<1>3. DOMAIN listeners = {} /\ DOMAIN groups = {}
  BY DEF Init
<1>4. Fit(last.user, last.kernel)
  BY NothingFits DEF Init
<1>5. ListenersTyped /\ WallsTyped
  BY <1>3, DataPlaneAssumption DEF Init, ListenersTyped, WallsTyped
<1>6. Distinct /\ Planned
  BY <1>3 DEF Init, Distinct, Planned
<1>7. left \in [Kinds -> Nat]
  BY DataPlaneAssumption DEF Init
<1> QED BY <1>1, <1>2, <1>3, <1>4, <1>5, <1>6, <1>7 DEF Init, TypeOK, Sound

LEMMA SoundStep == TypeOK /\ Sound /\ [Next]_vars => TypeOK' /\ Sound'
<1> SUFFICES ASSUME TypeOK, Sound, [Next]_vars  PROVE TypeOK' /\ Sound'
  OBVIOUS
<1>1. CASE UNCHANGED vars
  <2>1. UNCHANGED <<listeners, groups, poolSize, born, conns, cur, last, broken, left>> /\ UNCHANGED walls
    BY <1>1 DEF vars, planes
  <2>2. WallsTyped' /\ left' \in [Kinds -> Nat]
    BY <2>1 DEF TypeOK, WallsTyped, walls
  <2> QED BY <2>1, <2>2, CallSame
<1>2. CASE Next
  BY <1>2, ReconcileKept, FailsKept, OpenKept, UpdateKept, CloseKept, BindErrorsKept, SwapKept,
     ClosedKept, UpdatedKept, KernelKept, ReconciledKept, WallSteps, PoolSizeKept, RestartKept,
     AcceptKept, ConnSteps DEF Next, Reconciling
<1> QED BY <1>1, <1>2

THEOREM TypeCorrect == Spec => []TypeOK
<1>1. TypeOK /\ Sound /\ [Next]_vars => (TypeOK /\ Sound)'
  BY SoundStep
<1> QED BY <1>1, InitSound, PTL DEF Spec

(***************************************************************************)
(* Where a connection ends up. The floor of a listener is the version a    *)
(* connection it takes may ask for: that of the pool while one is swapped. *)
(***************************************************************************)
Swapping(p) == cur.pc = "pool" /\ cur.port = p
Floor(p) == listeners[p].tgt.ver - IF Swapping(p) THEN 1 ELSE 0

PoolsFresh ==
  \A p \in DOMAIN listeners : listeners[p].pool = None \/ listeners[p].pool.ver >= Floor(p)
FreshOf(k) ==
  /\ k.st \in {"load", "dial"} =>
       \A p \in DOMAIN listeners : listeners[p].id = k.of => k.min <= Floor(p)
  /\ k.st = "dial" => k.tgt.ver >= k.min
  /\ k.st \in {"relay", "half"} => k.up.ver >= k.min
FreshInv == PoolsFresh /\ \A c \in Clients : FreshOf(conns[c])

LEMMA Floors ==
  ASSUME TypeOK, NEW p \in DOMAIN listeners
  PROVE  /\ Floor(p) \in Int /\ listeners[p].tgt.ver \in Nat /\ listeners[p].pool.ver \in Nat
         /\ Floor(p) <= listeners[p].tgt.ver
BY DEF Floor, TypeOK, ListenersTyped, Listener, TargetType

\* The listeners keep their floors, or lift them.
Lifted(p) ==
  /\ p \in DOMAIN listeners /\ listeners'[p].id = listeners[p].id
  /\ Floor(p) <= Floor(p)'
  /\ listeners'[p].pool = None \/ listeners'[p].pool.ver >= Floor(p)'
Opened(p) ==
  /\ listeners'[p].id \notin 0..born
  /\ listeners'[p].pool = None \/ listeners'[p].pool.ver >= Floor(p)'

LEMMA FloorsLifted ==
  ASSUME TypeOK, TypeOK', Sound, FreshInv,
         \A p \in DOMAIN listeners' : Lifted(p) \/ Opened(p),
         \A c \in Clients : /\ conns'[c].st = conns[c].st /\ conns'[c].of = conns[c].of
                            /\ conns'[c].min = conns[c].min /\ conns'[c].tgt = conns[c].tgt
                            /\ conns'[c].up = conns[c].up
  PROVE  FreshInv'
<1>1. PoolsFresh'
  BY DEF PoolsFresh, Lifted, Opened
<1>2. ASSUME NEW c \in Clients  PROVE FreshOf(conns[c])'
  <2>1. FreshOf(conns[c]) /\ conns[c].of \in 0..born /\ conns[c].min \in Nat
    <3>1. HomeOf(conns[c]) /\ conns[c] \in Connection /\ born \in Nat
      BY DEF Sound, Homed, TypeOK, ListenersTyped
    <3>2. conns[c].of \in 0..born
      BY <3>1 DEF HomeOf, Sound, Distinct
    <3> QED BY <3>1, <3>2 DEF FreshInv, Connection
  <2>2. ASSUME conns'[c].st \in {"load", "dial"}, NEW p \in DOMAIN listeners',
               listeners'[p].id = conns'[c].of
        PROVE  conns'[c].min <= Floor(p)'
    <3>1. Lifted(p)
      BY <2>1, <2>2 DEF Opened
    <3>2. p \in DOMAIN listeners /\ listeners[p].id = conns[c].of /\ Floor(p) <= Floor(p)'
      BY <2>2, <3>1 DEF Lifted
    <3>3. conns[c].min <= Floor(p)
      BY <2>1, <2>2, <3>2 DEF FreshOf
    <3>4. Floor(p) \in Int
      BY <3>2, Floors
    <3>5. Floor(p)' \in Int
      BY <2>2 DEF Floor, TypeOK, ListenersTyped, Listener, TargetType
    <3> QED BY <2>1, <3>2, <3>3, <3>4, <3>5
  <2> QED BY <2>1, <2>2 DEF FreshOf
<1> QED BY <1>1, <1>2 DEF FreshInv

LEMMA CalmFresh ==
  ASSUME TypeOK, TypeOK', Sound, FreshInv, UNCHANGED listeners,
         \A p \in DOMAIN listeners : Swapping(p)' <=> Swapping(p),
         \A c \in Clients : /\ conns'[c].st = conns[c].st /\ conns'[c].of = conns[c].of
                            /\ conns'[c].min = conns[c].min /\ conns'[c].tgt = conns[c].tgt
                            /\ conns'[c].up = conns[c].up
  PROVE  FreshInv'
<1>1. ASSUME NEW p \in DOMAIN listeners'  PROVE Lifted(p)
  <2>1. p \in DOMAIN listeners /\ listeners'[p] = listeners[p]
    OBVIOUS
  <2>2. Floor(p)' = Floor(p) /\ Floor(p) \in Int
    BY <2>1, Floors DEF Floor
  <2> QED BY <2>1, <2>2 DEF Lifted, FreshInv, PoolsFresh
<1> QED BY <1>1, FloorsLifted

LEMMA MoveFresh ==
  ASSUME TypeOK, TypeOK', Sound, FreshInv, UNCHANGED <<listeners, cur>>, NEW c \in Clients, NEW new,
         conns' = [conns EXCEPT ![c] = new], FreshOf(new)
  PROVE  FreshInv'
<1>1. \A p : Floor(p)' = Floor(p)
  BY DEF Floor, Swapping
<1>2. PoolsFresh'
  BY <1>1 DEF FreshInv, PoolsFresh
<1>3. ASSUME NEW d \in Clients  PROVE FreshOf(conns[d])'
  <2>1. FreshOf(conns'[d])
    BY DEF FreshInv, TypeOK
  <2> QED BY <1>1, <2>1 DEF FreshOf
<1> QED BY <1>2, <1>3 DEF FreshInv

LEMMA ConnFresh ==
  ASSUME TypeOK, TypeOK', Sound, FreshInv, NEW c \in Clients, handle(c) \/ DirectionEnds(c)
  PROVE  FreshInv'
<1>1. PICK k : k = conns[c]
  OBVIOUS
<1>2. k \in Connection /\ FreshOf(k)
  BY <1>1 DEF TypeOK, FreshInv
<1>3. FreshOf(Gone)
  BY Nothing DEF FreshOf
<1>4. ASSUME NEW new, Move(c, new), FreshOf(new)  PROVE FreshInv'
  BY <1>4, MoveFresh DEF Move, planes
<1>5. CASE GetSlot(c)
  <2>1. PICK new : new = [k EXCEPT !.st = "started"]
    OBVIOUS
  <2>2. new.st = "started"
    BY <1>2, <2>1 DEF Connection
  <2>3. FreshOf(new) /\ Move(c, new)
    BY <1>1, <1>5, <2>1, <2>2 DEF FreshOf, GetSlot
  <2> QED BY <1>4, <2>3
<1>6. CASE LoopEnds(c) \/ Linger(c) \/ Move(c, Gone)
  BY <1>3, <1>4, <1>6 DEF LoopEnds, Linger
<1>7. CASE Known(c)
  <2>1. PICK p : p = PortOf(c)
    OBVIOUS
  <2>2. p \in DOMAIN listeners /\ listeners[p].id = k.of
    BY <1>1, <1>7, <2>1, PortFound DEF Known
  <2>3. PICK n : n = Floor(p)
    OBVIOUS
  <2>4. PICK new : new = [k EXCEPT !.st = "load", !.min = n]
    OBVIOUS
  <2>5. new.st = "load" /\ new.of = k.of /\ new.min = n
    BY <1>2, <2>4 DEF Connection
  <2>6. \A q \in DOMAIN listeners : listeners[q].id = k.of => q = p
    BY <2>2 DEF Sound, Distinct
  <2>7. n \in Int
    BY <2>2, <2>3, Floors
  <2>8. FreshOf(new)
    BY <2>3, <2>5, <2>6, <2>7 DEF FreshOf
  <2>9. Move(c, new)
    BY <1>1, <1>7, <2>1, <2>3, <2>4 DEF Known, Floor, Swapping
  <2> QED BY <1>4, <2>8, <2>9
<1>8. CASE LoadTarget(c)
  <2>1. PICK p, t : p = PortOf(c) /\ t = listeners[p].tgt
    OBVIOUS
  <2>2. k.st = "load" /\ p \in DOMAIN listeners /\ listeners[p].id = k.of
    BY <1>1, <1>8, <2>1, PortFound DEF LoadTarget
  <2>3. k.min <= Floor(p) /\ Floor(p) <= t.ver /\ Floor(p) \in Int /\ t.ver \in Nat /\ k.min \in Nat
    BY <1>2, <2>1, <2>2, Floors DEF FreshOf, Connection
  <2>4. PICK new : new = [k EXCEPT !.st = "dial", !.tgt = t]
    OBVIOUS
  <2>5. new.st = "dial" /\ new.of = k.of /\ new.min = k.min /\ new.tgt = t
    BY <1>2, <2>4 DEF Connection
  <2>6. FreshOf(new)
    BY <1>2, <2>2, <2>3, <2>5 DEF FreshOf
  <2>7. Move(c, new)
    BY <1>1, <1>8, <2>1, <2>4 DEF LoadTarget
  <2> QED BY <1>4, <2>6, <2>7
<1>9. CASE conns[c].st = "dial" /\ Move(c, [conns[c] EXCEPT !.st = "relay", !.up = Upstream(c)])
  <2>1. PICK p, t : p = PortOf(c) /\ t = Upstream(c)
    OBVIOUS
  <2>2. k.st = "dial" /\ p \in DOMAIN listeners /\ listeners[p].id = k.of
    BY <1>1, <1>9, <2>1, PortFound
  <2>3. k.min <= Floor(p) /\ k.tgt.ver >= k.min /\ Floor(p) \in Int /\ k.min \in Nat
        /\ listeners[p].pool.ver \in Nat
    BY <1>2, <2>2, Floors DEF FreshOf, Connection
  <2>4. t = k.tgt \/ (t = listeners[p].pool /\ listeners[p].pool # None)
    BY <1>1, <2>1 DEF Upstream
  <2>5. t.ver >= k.min
    BY <2>2, <2>3, <2>4 DEF FreshInv, PoolsFresh
  <2>6. PICK new : new = [k EXCEPT !.st = "relay", !.up = t]
    OBVIOUS
  <2>7. new.st = "relay" /\ new.min = k.min /\ new.up = t
    BY <1>2, <2>6 DEF Connection
  <2>8. FreshOf(new)
    BY <2>5, <2>7 DEF FreshOf
  <2>9. Move(c, new)
    BY <1>1, <1>9, <2>1, <2>6
  <2> QED BY <1>4, <2>8, <2>9
<1>10. CASE DirectionEnds(c)
  <2>1. PICK new : new = [k EXCEPT !.st = "half"]
    OBVIOUS
  <2>2. k.st = "relay" /\ new.st = "half" /\ new.up = k.up /\ new.min = k.min
    BY <1>1, <1>2, <1>10, <2>1 DEF Connection, DirectionEnds
  <2>3. FreshOf(new) /\ Move(c, new)
    BY <1>1, <1>2, <1>10, <2>1, <2>2 DEF FreshOf, DirectionEnds
  <2> QED BY <1>4, <2>3
<1> QED BY <1>5, <1>6, <1>7, <1>8, <1>9, <1>10 DEF handle, Dial

LEMMA OpenFresh ==
  ASSUME TypeOK, TypeOK', Sound, FreshInv, NEW port, openListener(port)
  PROVE  FreshInv'
<1>1. /\ cur.pc = "open" /\ cur'.pc = "open" /\ UNCHANGED conns
      /\ \A p : ~Swapping(p) /\ ~Swapping(p)'
  <2>1. cur \in Call /\ cur.pc = "open"
    BY Calls DEF openListener, TypeOK
  <2>2. cur'.pc = "open"
    BY <2>1 DEF openListener, Call
  <2> QED BY <2>1, <2>2 DEF Swapping, openListener
<1>2. CASE UNCHANGED listeners
  BY <1>1, <1>2, CalmFresh
<1>3. ASSUME NEW tgt, NEW pool \in {tgt, None},
             listeners' = [p \in {port} \cup DOMAIN listeners |->
                IF p = port THEN [id |-> born + 1, tgt |-> tgt, pool |-> pool, lim |-> 0, down |-> 0]
                ELSE listeners[p]]
      PROVE  FreshInv'
  <2>1. /\ listeners'[port].id = born + 1 /\ listeners'[port].tgt = tgt
        /\ listeners'[port].pool = pool /\ port \in DOMAIN listeners'
        /\ \A p \in DOMAIN listeners' \ {port} : p \in DOMAIN listeners /\ listeners'[p] = listeners[p]
    BY <1>3
  <2>2. Opened(port)
    <3>1. born \in Nat /\ Floor(port)' = listeners'[port].tgt.ver /\ tgt.ver \in Nat
      BY <1>1, <2>1 DEF TypeOK, ListenersTyped, Listener, TargetType, Floor
    <3> QED BY <2>1, <3>1 DEF Opened
  <2>3. ASSUME NEW p \in DOMAIN listeners' \ {port}  PROVE Lifted(p)
    <3>1. Floor(p)' = Floor(p) /\ Floor(p) \in Int
      BY <1>1, <2>1, Floors DEF Floor
    <3> QED BY <2>1, <3>1 DEF Lifted, FreshInv, PoolsFresh
  <2> QED BY <1>1, <2>2, <2>3, FloorsLifted
<1>4. ASSUME NEW tgt  PROVE PoolFor(tgt) \in {tgt, None}
  BY DEF PoolFor
<1> QED BY <1>2, <1>3, <1>4 DEF openListener

LEMMA UpdateFresh ==
  ASSUME TypeOK, TypeOK', Sound, FreshInv, NEW port, hotUpdate(port)
  PROVE  FreshInv'
<1>1. /\ cur.pc = "update" /\ port \in cur.todo /\ cur # Idle /\ cur \in Call /\ UNCHANGED conns
  BY Calls DEF hotUpdate, TypeOK
<1>2. Progress(cur) /\ \E K : Fit(cur.user, K)
  BY <1>1, CallUser DEF Sound, Planned
<1>3. port \in DOMAIN listeners /\ port \in Ports(cur.user)
  BY <1>1, <1>2 DEF Progress
<1>4. PICK l, r : l = listeners[port] /\ r = RuleAt(cur.user, port)
  OBVIOUS
<1>5. l \in Listener /\ r \in Rule /\ l.tgt \in TargetType
  BY <1>2, <1>3, <1>4, RuleAtPort, Fitting DEF TypeOK, ListenersTyped, Listener
<1>6. PICK tgt, limits : tgt = targetOf(r, l.tgt) /\ limits = setLimits(l, r)
  OBVIOUS
<1>7. tgt \in TargetType /\ (tgt = l.tgt \/ (tgt # l.tgt /\ tgt.ver = l.tgt.ver + 1))
  BY <1>5, <1>6, Targets
<1>8. PICK new : new = [l EXCEPT !.tgt = tgt, !.lim = limits.lim, !.down = limits.down]
  OBVIOUS
<1>9. new.id = l.id /\ new.tgt = tgt /\ new.pool = l.pool
  BY <1>5, <1>8 DEF Listener
<1>10. /\ listeners' = [listeners EXCEPT ![port] = new]
       /\ cur' = IF l.tgt = tgt THEN [cur EXCEPT !.todo = @ \ {port}]
                 ELSE [cur EXCEPT !.pc = "pool", !.port = port]
  BY <1>4, <1>6, <1>8 DEF hotUpdate
<1>11. /\ DOMAIN listeners' = DOMAIN listeners /\ listeners'[port] = new
       /\ \A p \in DOMAIN listeners : p # port => listeners'[p] = listeners[p]
  BY <1>3, <1>10
<1>12. \A p : ~Swapping(p) /\ (Swapping(p)' <=> l.tgt # tgt /\ p = port)
  BY <1>1, <1>10 DEF Swapping, Call
<1>13. ASSUME NEW p \in DOMAIN listeners'  PROVE Lifted(p)
  <2>1. Floor(p)' = Floor(p) /\ Floor(p) \in Int
    <3>1. CASE p # port
      BY <1>11, <1>12, <3>1, Floors DEF Floor
    <3>2. CASE p = port
      <4>1. Floor(p) = l.tgt.ver /\ l.tgt.ver \in Nat
        BY <1>4, <1>5, <1>12, <3>2 DEF Floor, TargetType
      <4>2. Floor(p)' = tgt.ver - IF l.tgt # tgt THEN 1 ELSE 0
        BY <1>9, <1>11, <1>12, <3>2 DEF Floor
      <4> QED BY <1>7, <4>1, <4>2
    <3> QED BY <3>1, <3>2
  <2>2. p \in DOMAIN listeners /\ listeners'[p].id = listeners[p].id
        /\ listeners'[p].pool = listeners[p].pool
    BY <1>4, <1>9, <1>11
  <2> QED BY <2>1, <2>2 DEF Lifted, FreshInv, PoolsFresh
<1> QED BY <1>1, <1>13, FloorsLifted

LEMMA SwapFresh ==
  ASSUME TypeOK, TypeOK', Sound, FreshInv, swapPool
  PROVE  FreshInv'
<1>1. /\ cur.pc = "pool" /\ cur # Idle /\ cur \in Call /\ UNCHANGED conns
  BY Calls DEF swapPool, TypeOK
<1>2. PICK port : port = cur.port
  OBVIOUS
<1>3. port \in DOMAIN listeners
  BY <1>1, <1>2 DEF Sound, Planned, Progress
<1>4. PICK l, pool : l = listeners[port] /\ pool = PoolFor(l.tgt)
  OBVIOUS
<1>5. l \in Listener /\ pool \in {l.tgt, None}
  BY <1>3, <1>4 DEF TypeOK, ListenersTyped, PoolFor
<1>6. PICK new : new = [l EXCEPT !.pool = pool]
  OBVIOUS
<1>7. new.id = l.id /\ new.tgt = l.tgt /\ new.pool = pool
  BY <1>5, <1>6 DEF Listener
<1>8. listeners' = [listeners EXCEPT ![port] = new] /\ cur'.pc = "update"
  BY <1>1, <1>2, <1>3, <1>4, <1>6 DEF swapPool, Call
<1>9. /\ DOMAIN listeners' = DOMAIN listeners /\ listeners'[port] = new
      /\ \A p \in DOMAIN listeners : p # port => listeners'[p] = listeners[p]
  BY <1>3, <1>8
<1>10. \A p : ~Swapping(p)' /\ (Swapping(p) <=> p = port)
  BY <1>1, <1>2, <1>8 DEF Swapping
<1>11. ASSUME NEW p \in DOMAIN listeners'  PROVE Lifted(p)
  <2>1. CASE p # port
    <3>1. Floor(p)' = Floor(p) /\ Floor(p) \in Int
      BY <1>9, <1>10, <2>1, Floors DEF Floor
    <3> QED BY <1>9, <2>1, <3>1 DEF Lifted, FreshInv, PoolsFresh
  <2>2. CASE p = port
    <3>1. Floor(p)' = l.tgt.ver /\ Floor(p) = l.tgt.ver - 1 /\ l.tgt.ver \in Nat
      BY <1>4, <1>5, <1>7, <1>9, <1>10, <2>2 DEF Floor, Listener, TargetType
    <3> QED BY <1>3, <1>4, <1>5, <1>7, <1>9, <2>2, <3>1 DEF Lifted
  <2> QED BY <2>1, <2>2
<1> QED BY <1>1, <1>11, FloorsLifted

LEMMA FreshStep == TypeOK /\ TypeOK' /\ Sound /\ FreshInv /\ [Next]_vars => FreshInv'
<1> SUFFICES ASSUME TypeOK, TypeOK', Sound, FreshInv, [Next]_vars  PROVE FreshInv'
  OBVIOUS
<1>1. ASSUME UNCHANGED <<listeners, conns>>,
             cur' = cur \/ (cur.pc # "pool" /\ cur'.pc # "pool")
      PROVE  FreshInv'
  <2>1. \A p \in DOMAIN listeners : Swapping(p)' <=> Swapping(p)
    BY <1>1 DEF Swapping
  <2> QED BY <1>1, <2>1, CalmFresh
<1>2. CASE UNCHANGED vars
  BY <1>1, <1>2 DEF vars, planes
<1>3. CASE \E R \in Rulesets : Reconcile(R)
  <2>1. UNCHANGED <<listeners, conns>> /\ cur.pc = "idle" /\ cur'.pc = "open"
    BY <1>3, Calls DEF Reconcile, userspaceReconcile
  <2> QED BY <1>1, <2>1
<1>4. CASE kernelFails
  <2>1. UNCHANGED <<listeners, conns>> /\ cur.pc = "kernel" /\ cur'.pc = "open"
    BY <1>4 DEF kernelFails, userspaceReconcile
  <2> QED BY <1>1, <2>1
<1>5. CASE bindErrors
  <2>1. UNCHANGED <<listeners, conns>> /\ cur.pc = "open" /\ cur'.pc # "pool"
    <3>1. UNCHANGED <<listeners, conns>> /\ cur.pc = "open"
      BY <1>5 DEF bindErrors, planes
    <3>2. cur \in Call
      BY <3>1, Calls DEF TypeOK
    <3>3. \/ cur' = Idle
          \/ cur' = [cur EXCEPT !.pc = "update", !.todo = {r.port : r \in cur.user}]
      BY <1>5 DEF bindErrors
    <3>4. [cur EXCEPT !.pc = "update", !.todo = {r.port : r \in cur.user}].pc = "update"
      BY <3>2 DEF Call
    <3> QED BY <3>1, <3>3, <3>4, Calls
  <2> QED BY <1>1, <2>1
<1>6. CASE Updated
  <2>1. UNCHANGED <<listeners, conns>> /\ cur.pc = "update" /\ cur'.pc # "pool"
    BY <1>6, Calls DEF Updated, planes, Call, TypeOK
  <2> QED BY <1>1, <2>1
<1>7. CASE kernelReconcile
  <2>1. UNCHANGED <<listeners, conns>> /\ cur.pc = "kernel" /\ cur'.pc # "pool"
    BY <1>7, Calls DEF kernelReconcile, Call, TypeOK
  <2> QED BY <1>1, <2>1
<1>8. CASE Reconciled
  <2>1. UNCHANGED <<listeners, conns>> /\ cur.pc = "sync" /\ cur'.pc # "pool"
    BY <1>8, Calls DEF Reconciled, planes
  <2> QED BY <1>1, <2>1
<1>9. CASE Deploy \/ SetPoolSize \/ \E c \in Callers : collectProxyListenPorts(c) \/ SetExtraListenPorts(c)
  <2>1. UNCHANGED <<listeners, conns, cur>>
    BY <1>9 DEF Deploy, SetPoolSize, collectProxyListenPorts, SetExtraListenPorts, planes
  <2> QED BY <1>1, <2>1
<1>10. CASE Restart
  <2>1. DOMAIN listeners' = {} /\ \A c \in Clients : conns'[c] \in {Fresh, Gone}
    BY <1>10 DEF Restart
  <2> QED BY <2>1, Nothing DEF FreshInv, PoolsFresh, FreshOf
<1>11. ASSUME NEW c \in Clients, Accept(c)  PROVE FreshInv'
  <2>1. PICK p \in DOMAIN listeners :
          conns' = [conns EXCEPT ![c] = [Fresh EXCEPT !.st = "wait", !.of = listeners[p].id]]
    BY <1>11 DEF Accept
  <2>2. PICK new : new = [Fresh EXCEPT !.st = "wait", !.of = listeners[p].id]
    OBVIOUS
  <2>3. new.st = "wait"
    <3> HIDE DEF Fresh
    <3> QED BY <2>2, Nothing DEF Connection
  <2>4. FreshOf(new)
    BY <2>3 DEF FreshOf
  <2>5. UNCHANGED <<listeners, cur>> /\ conns' = [conns EXCEPT ![c] = new]
    BY <1>11, <2>1, <2>2 DEF Accept, planes
  <2> QED BY <2>4, <2>5, MoveFresh
<1>12. ASSUME NEW port \in DOMAIN listeners, close(port)  PROVE FreshInv'
  <2>1. UNCHANGED listeners /\ cur.pc = "update" /\ cur'.pc = "wait"
    BY <1>12, Calls DEF close, planes, Call, TypeOK
  <2>2. \A p \in DOMAIN listeners : Swapping(p)' <=> Swapping(p)
    BY <2>1 DEF Swapping
  <2>3. ASSUME NEW c \in Clients
        PROVE  /\ conns'[c].st = conns[c].st /\ conns'[c].of = conns[c].of
               /\ conns'[c].min = conns[c].min /\ conns'[c].tgt = conns[c].tgt
               /\ conns'[c].up = conns[c].up
    <3>1. PICK k : k = [conns[c] EXCEPT !.shut = TRUE]
      OBVIOUS
    <3>2. conns'[c] \in {k, conns[c]}
      BY <1>12, <3>1 DEF close
    <3>3. conns[c] \in Connection
      BY DEF TypeOK
    <3>4. /\ k.st = conns[c].st /\ k.of = conns[c].of
          /\ k.min = conns[c].min /\ k.tgt = conns[c].tgt /\ k.up = conns[c].up
      BY <3>1, <3>3 DEF Connection
    <3> QED BY <3>2, <3>4
  <2> QED BY <2>1, <2>2, <2>3, CalmFresh
<1>13. CASE closed
  <2>1. cur.pc = "wait" /\ cur'.pc = "update" /\ UNCHANGED conns
    BY <1>13, Calls DEF closed, Call, TypeOK
  <2>2. ASSUME NEW p \in DOMAIN listeners'  PROVE Lifted(p)
    <3>1. p \in DOMAIN listeners /\ listeners'[p] = listeners[p]
      BY <1>13 DEF closed, Restrict
    <3>2. Floor(p)' = Floor(p) /\ Floor(p) \in Int
      BY <2>1, <3>1, Floors DEF Floor, Swapping
    <3> QED BY <3>1, <3>2 DEF Lifted, FreshInv, PoolsFresh
  <2> QED BY <2>1, <2>2, FloorsLifted
<1> QED BY <1>2, <1>3, <1>4, <1>5, <1>6, <1>7, <1>8, <1>9, <1>10, <1>11, <1>12, <1>13, ConnFresh,
           OpenFresh, UpdateFresh, SwapFresh DEF Next, Reconciling

\* A connection taken after a target changed never ends up at an older one,
\* not through the pool either (userspaceBackend.Reconcile, connPool.Get).
THEOREM TargetsAlwaysFresh == Spec => []FreshTarget
<1>1. Init => FreshInv
  <2> SUFFICES ASSUME Init PROVE FreshInv
    OBVIOUS
  <2>1. DOMAIN listeners = {} /\ \A c \in Clients : conns[c] = Fresh
    BY DEF Init
  <2> QED BY <2>1, Nothing DEF FreshInv, PoolsFresh, FreshOf
<1>2. TypeOK /\ TypeOK' /\ Sound /\ FreshInv /\ [Next]_vars => FreshInv'
  BY FreshStep
<1>3. FreshInv => FreshTarget
  BY DEF FreshInv, FreshOf, FreshTarget
<1>4. Spec => [](TypeOK /\ Sound)
  <2>1. TypeOK /\ Sound /\ [Next]_vars => (TypeOK /\ Sound)'
    BY SoundStep
  <2> QED BY <2>1, InitSound, PTL DEF Spec
<1> QED BY <1>1, <1>2, <1>3, <1>4, PTL DEF Spec

(***************************************************************************)
(* What is in force. The table and the classes are those of the last rules *)
(* that were applied, or of the call under way once it has loaded them;    *)
(* the chains are those of the last rules; a call puts one listener after  *)
(* the other in the place its rule asks for.                               *)
(***************************************************************************)
Unbroken == broken \cap {"bind", "restart"} = {}

Tabled ==
  IF cur.pc = "sync" THEN table = RenderRuleset(cur.kernel)
  ELSE Unbroken => table = RenderRuleset(last.kernel)
Classed ==
  "tc" \notin broken =>
    IF cur.pc = "sync" THEN classes = TcAdded(planClasses(cur.kernel))
    ELSE "restart" \notin broken => classes = TcAdded(planClasses(last.kernel))
Walled ==
  \A ch \in Present \ partial : chains[ch] = Accepts(ch, last.user, last.kernel, extra)

LimitedBy(r, l) ==
  IF r.group > 0 /\ r.rate > 0
  THEN l.lim = groups[r.group].id /\ l.down = l.lim /\ groups[r.group].rate = r.rate
  ELSE l.lim = -r.cap /\ l.down = 0
InPlace(r) ==
  /\ listeners[r.port].tgt.dest = r.dest /\ listeners[r.port].tgt.proxy = r.proxy
  /\ LimitedBy(r, listeners[r.port])
RatesOf(U) == \A g \in Shaped(U) : groups[g].rate = RateOf(U, g)
Settled(p) == p \notin cur.todo \/ (cur.pc = "pool" /\ p = cur.port)
Placed ==
  IF cur = Idle
  THEN Unbroken => DOMAIN listeners = Ports(last.user) /\ \A r \in last.user : InPlace(r)
  ELSE /\ RatesOf(cur.user)
       /\ cur.pc # "open" => \A r \in cur.user : Settled(r.port) => InPlace(r)

Held == Tabled /\ Classed /\ Walled /\ Placed

\* What most steps of a call leave as it is.
Outside == <<table, classes, last, extra, chains, partial>>

LEMMA OutsideHeld ==
  ASSUME Held, UNCHANGED Outside, broken \subseteq broken', cur.pc # "sync", cur'.pc # "sync"
  PROVE  Tabled' /\ Classed' /\ Walled'
<1>1. UNCHANGED <<table, classes, last, extra, chains, partial>>
  BY DEF Outside
<1>2. Tabled'
  BY <1>1 DEF Held, Tabled, Unbroken
<1>3. Classed'
  BY <1>1 DEF Held, Classed
<1>4. Walled'
  BY <1>1 DEF Held, Walled
<1> QED BY <1>2, <1>3, <1>4

LEMMA BeginsHeld ==
  ASSUME TypeOK, Held, NEW U \in SUBSET Rule, NEW K, NEW back, userspaceReconcile(U, K, back),
         UNCHANGED <<Outside, broken>>, cur.pc # "sync"
  PROVE  Held'
<1>1. cur'.pc = "open" /\ cur'.user = U /\ groups' = desiredGroups(U) /\ cur' # Idle
  BY Calls DEF userspaceReconcile
<1>2. RatesOf(cur.user)'
  BY <1>1, NewGroups DEF RatesOf
<1>3. Placed'
  BY <1>1, <1>2 DEF Placed
<1> QED BY <1>1, <1>3, OutsideHeld DEF Held

LEMMA OpenHeld ==
  ASSUME TypeOK, Held, NEW port, openListener(port)
  PROVE  Held'
<1>1. /\ cur.pc = "open" /\ cur # Idle /\ cur \in Call
      /\ UNCHANGED <<Outside, broken, groups>>
  BY Calls DEF openListener, TypeOK, planes, walls, Outside
<1>2. cur'.pc = "open" /\ cur'.user = cur.user /\ cur' # Idle
  <2>1. PICK todo, failed : cur' = [cur EXCEPT !.todo = todo, !.failed = failed]
    <3>1. CASE cur' = [cur EXCEPT !.todo = @ \ {port}]
      <4>1. cur' = [cur EXCEPT !.todo = cur.todo \ {port}, !.failed = cur.failed]
        BY <1>1, <3>1 DEF Call
      <4> QED BY <4>1
    <3>2. CASE cur' = [cur EXCEPT !.todo = @ \ {port}, !.failed = TRUE]
      BY <3>2
    <3> QED BY <3>1, <3>2 DEF openListener
  <2>2. cur'.pc = cur.pc /\ cur'.user = cur.user
    BY <1>1, <2>1 DEF Call
  <2> QED BY <1>1, <2>2, Calls
<1>3. Placed'
  BY <1>1, <1>2 DEF Held, Placed, RatesOf
<1> QED BY <1>1, <1>2, <1>3, OutsideHeld DEF Held

LEMMA BindErrorsHeld ==
  ASSUME TypeOK, Held, bindErrors
  PROVE  Held'
<1>1. /\ cur.pc = "open" /\ cur # Idle /\ cur \in Call
      /\ UNCHANGED <<Outside, groups>> /\ broken \subseteq broken'
  BY Calls DEF bindErrors, TypeOK, planes, walls, Outside
<1>2. CASE cur.failed
  <2>1. cur' = Idle /\ ~Unbroken'
    BY <1>2 DEF bindErrors, Unbroken
  <2> QED BY <1>1, <2>1, Calls, OutsideHeld DEF Held, Placed
<1>3. CASE ~cur.failed
  <2>1. /\ cur'.pc = "update" /\ cur'.user = cur.user /\ cur'.todo = {r.port : r \in cur.user}
        /\ cur' # Idle
    BY <1>1, <1>3, Calls DEF bindErrors, Call
  <2>2. RatesOf(cur.user)'
    BY <1>1, <2>1 DEF Held, Placed, RatesOf
  <2>3. Placed'
    BY <2>1, <2>2 DEF Placed, Settled
  <2> QED BY <1>1, <2>1, <2>3, OutsideHeld DEF Held
<1> QED BY <1>2, <1>3

\* The rate of a group is that of each rule in it.
LEMMA Rated ==
  ASSUME NEW U, NEW K, Fit(U, K), NEW r \in U, r.group > 0, r.rate > 0
  PROVE  r.group \in Shaped(U) /\ RateOf(U, r.group) = r.rate
<1>1. \E s \in U : s.group = r.group /\ s.rate > 0
  OBVIOUS
<1>2. PICK s : s \in U /\ s.group = r.group /\ s.rate > 0 /\ RateOf(U, r.group) = s.rate
  BY <1>1 DEF RateOf
<1> QED BY <1>2, Fitting DEF Shaped

LEMMA UpdateHeld ==
  ASSUME TypeOK, Sound, Held, NEW port, hotUpdate(port)
  PROVE  Held'
<1>1. /\ cur.pc = "update" /\ port \in cur.todo /\ cur # Idle /\ cur \in Call
      /\ UNCHANGED <<Outside, broken, groups>>
  BY Calls DEF hotUpdate, TypeOK, planes, walls, Outside
<1>2. Progress(cur) /\ \E K : Fit(cur.user, K)
  BY <1>1, CallUser DEF Sound, Planned
<1>3. port \in DOMAIN listeners /\ port \in Ports(cur.user)
  BY <1>1, <1>2 DEF Progress
<1>4. PICK l, r : l = listeners[port] /\ r = RuleAt(cur.user, port)
  OBVIOUS
<1>5. /\ l \in Listener /\ r \in Rule /\ r \in cur.user /\ r.port = port
      /\ \A s \in cur.user : s.port = port => s = r
  BY <1>2, <1>3, <1>4, RuleAtPort, Fitting DEF TypeOK, ListenersTyped
<1>6. PICK tgt, limits : tgt = targetOf(r, l.tgt) /\ limits = setLimits(l, r)
  OBVIOUS
<1>7. PICK new : new = [l EXCEPT !.tgt = tgt, !.lim = limits.lim, !.down = limits.down]
  OBVIOUS
<1>8. new.tgt = tgt /\ new.lim = limits.lim /\ new.down = limits.down
  BY <1>5, <1>7 DEF Listener
<1>9. /\ listeners' = [listeners EXCEPT ![port] = new]
      /\ cur' = IF l.tgt = tgt THEN [cur EXCEPT !.todo = @ \ {port}]
                ELSE [cur EXCEPT !.pc = "pool", !.port = port]
  BY <1>4, <1>6, <1>7 DEF hotUpdate
<1>10. tgt.dest = r.dest /\ tgt.proxy = r.proxy
  BY <1>5, <1>6, Targets DEF Listener
<1>11. LimitedBy(r, new)
  <2>1. CASE r.group > 0 /\ r.rate > 0
    <3>1. r.group \in Shaped(cur.user) /\ RateOf(cur.user, r.group) = r.rate
      BY <1>2, <1>5, <2>1, Rated
    <3>2. groups[r.group].rate = r.rate
      BY <1>1, <3>1 DEF Held, Placed, RatesOf
    <3>3. limits.lim = groups[r.group].id /\ limits.down = groups[r.group].id
      BY <1>6, <2>1 DEF setLimits
    <3> QED BY <1>8, <2>1, <3>2, <3>3 DEF LimitedBy
  <2>2. CASE ~ (r.group > 0 /\ r.rate > 0)
    <3>1. limits.lim = -r.cap /\ limits.down = 0
      BY <1>5, <1>6, <2>2 DEF setLimits, Rule
    <3> QED BY <1>8, <2>2, <3>1 DEF LimitedBy
  <2> QED BY <2>1, <2>2
<1>12. /\ cur' # Idle /\ cur'.pc \in {"update", "pool"} /\ cur'.user = cur.user
       /\ \A p : Settled(p)' <=> Settled(p) \/ p = port
  <2>1. CASE l.tgt = tgt
    <3>1. cur' \in Call /\ cur'.pc = "update" /\ cur'.user = cur.user /\ cur'.todo = cur.todo \ {port}
      BY <1>1, <1>9, <2>1 DEF Call
    <3> QED BY <1>1, <3>1, Calls DEF Settled
  <2>2. CASE l.tgt # tgt
    <3>1. /\ cur'.pc = "pool" /\ cur'.user = cur.user /\ cur'.todo = cur.todo /\ cur'.port = port
      BY <1>1, <1>9, <2>2 DEF Call
    <3> QED BY <1>1, <3>1, Calls DEF Settled
  <2> QED BY <2>1, <2>2
<1>13. ASSUME NEW s \in cur.user, Settled(s.port)'
       PROVE  InPlace(s)'
  <2>1. CASE s.port = port
    <3>1. s = r /\ listeners'[port] = new
      BY <1>3, <1>5, <1>9, <2>1
    <3> QED BY <1>1, <1>5, <1>8, <1>10, <1>11, <3>1 DEF InPlace, LimitedBy
  <2>2. CASE s.port # port
    <3>1. listeners'[s.port] = listeners[s.port]
      BY <1>9, <2>2
    <3>2. InPlace(s)
      BY <1>1, <1>12, <1>13, <2>2 DEF Held, Placed
    <3> QED BY <1>1, <3>1, <3>2 DEF InPlace, LimitedBy
  <2> QED BY <2>1, <2>2
<1>14. Placed'
  <2>1. RatesOf(cur.user)'
    BY <1>1, <1>12 DEF Held, Placed, RatesOf
  <2> QED BY <1>12, <1>13, <2>1 DEF Placed
<1> QED BY <1>1, <1>12, <1>14, OutsideHeld DEF Held

\* A step after which the call has the same rules, and every listener in place
\* is still there.
LEMMA CallHeld ==
  ASSUME Held, UNCHANGED <<Outside, broken, groups>>, cur # Idle, cur' # Idle,
         cur.pc \in {"update", "pool", "wait"}, cur'.pc \in {"update", "pool", "wait", "kernel"},
         cur'.user = cur.user,
         \A r \in cur.user : Settled(r.port)' =>
           /\ Settled(r.port)
           /\ listeners'[r.port].tgt = listeners[r.port].tgt
           /\ listeners'[r.port].lim = listeners[r.port].lim
           /\ listeners'[r.port].down = listeners[r.port].down
  PROVE  Held'
<1>1. RatesOf(cur.user)'
  BY DEF Held, Placed, RatesOf
<1>2. ASSUME NEW r \in cur.user, Settled(r.port)'  PROVE InPlace(r)'
  <2>1. InPlace(r)
    BY <1>2 DEF Held, Placed
  <2> QED BY <1>2, <2>1 DEF InPlace, LimitedBy
<1>3. Placed'
  BY <1>1, <1>2 DEF Placed
<1> QED BY <1>3, OutsideHeld DEF Held

LEMMA SwapHeld ==
  ASSUME TypeOK, Sound, Held, swapPool
  PROVE  Held'
<1>1. /\ cur.pc = "pool" /\ cur # Idle /\ cur \in Call
      /\ UNCHANGED <<Outside, broken, groups>>
  BY Calls DEF swapPool, TypeOK, planes, walls, Outside
<1>2. PICK port : port = cur.port
  OBVIOUS
<1>3. port \in DOMAIN listeners /\ listeners[port] \in Listener
  BY <1>1, <1>2 DEF Sound, Planned, Progress, TypeOK, ListenersTyped
<1>4. PICK l, pool : l = listeners[port] /\ pool = PoolFor(l.tgt)
  OBVIOUS
<1>5. PICK new : new = [l EXCEPT !.pool = pool]
  OBVIOUS
<1>6. new.tgt = l.tgt /\ new.lim = l.lim /\ new.down = l.down
  BY <1>3, <1>4, <1>5 DEF Listener
<1>7. /\ listeners' = [listeners EXCEPT ![port] = new]
      /\ cur' = [cur EXCEPT !.pc = "update", !.todo = cur.todo \ {port}, !.port = 0]
  BY <1>2, <1>3, <1>4, <1>5 DEF swapPool
<1>8. cur' \in Call /\ cur'.pc = "update" /\ cur'.todo = cur.todo \ {port} /\ cur'.user = cur.user
  BY <1>1, <1>7 DEF Call
<1>9. cur' # Idle /\ \A p : Settled(p)' <=> Settled(p)
  BY <1>1, <1>2, <1>8, Calls DEF Settled
<1>10. \A p : /\ listeners'[p].tgt = listeners[p].tgt /\ listeners'[p].lim = listeners[p].lim
              /\ listeners'[p].down = listeners[p].down
  BY <1>3, <1>4, <1>6, <1>7
<1> QED BY <1>1, <1>8, <1>9, <1>10, CallHeld

LEMMA CloseHeld ==
  ASSUME TypeOK, Sound, Held, closed \/ \E port \in DOMAIN listeners : close(port)
  PROVE  Held'
<1>1. /\ cur.pc \in {"update", "wait"} /\ cur # Idle /\ cur \in Call
      /\ UNCHANGED <<Outside, broken, groups>>
  BY Calls DEF close, closed, TypeOK, planes, walls, Outside
<1>2. /\ cur' \in Call /\ cur'.pc \in {"update", "wait"} /\ cur'.todo = cur.todo
      /\ cur'.user = cur.user
  <2>1. ASSUME NEW port \in DOMAIN listeners, close(port)
        PROVE  cur' = [cur EXCEPT !.pc = "wait", !.port = port] /\ port \in Nat
    BY <2>1 DEF close, TypeOK, ListenersTyped
  <2>2. CASE closed
    BY <1>1, <2>2 DEF closed, Call
  <2> QED BY <1>1, <2>1, <2>2 DEF Call
<1>3. cur' # Idle /\ \A p : Settled(p)' <=> Settled(p)
  BY <1>1, <1>2, Calls DEF Settled
<1>4. ASSUME NEW r \in cur.user  PROVE listeners'[r.port] = listeners[r.port]
  <2>1. CASE \E port \in DOMAIN listeners : close(port)
    BY <2>1 DEF close, planes
  <2>2. CASE closed
    <3>1. r.port \in Ports(cur.user) /\ Ports(cur.user) \subseteq DOMAIN listeners
          /\ cur.port \notin Ports(cur.user)
      BY <1>1, <2>2 DEF Sound, Planned, Progress, closed, Ports
    <3>2. /\ DOMAIN listeners' = DOMAIN listeners \ {cur.port}
          /\ \A p \in DOMAIN listeners' : listeners'[p] = listeners[p]
      BY <2>2 DEF closed, Restrict
    <3> QED BY <3>1, <3>2
  <2> QED BY <2>1, <2>2
<1> QED BY <1>1, <1>2, <1>3, <1>4, CallHeld

LEMMA UpdatedHeld ==
  ASSUME TypeOK, Sound, Held, Updated
  PROVE  Held'
<1>1. /\ cur.pc = "update" /\ cur # Idle /\ cur \in Call
      /\ cur.todo = {} /\ DOMAIN listeners = Ports(cur.user)
      /\ UNCHANGED <<Outside, broken, groups, listeners>>
      /\ cur' = IF cur.back THEN Idle ELSE [cur EXCEPT !.pc = "kernel"]
  BY Calls DEF Updated, TypeOK, planes, walls, Outside, Ports
<1>2. \A r \in cur.user : InPlace(r)
  BY <1>1 DEF Held, Placed, Settled
<1>3. CASE cur.back
  <2>1. cur.user = last.user
    BY <1>1, <1>3 DEF Sound, Planned, Asked
  <2>2. UNCHANGED <<last, listeners, groups>>
    BY <1>1 DEF Outside
  <2>3. ASSUME NEW r \in last.user  PROVE InPlace(r)'
    BY <1>2, <2>1, <2>2, <2>3 DEF InPlace, LimitedBy
  <2>4. Placed'
    BY <1>1, <1>3, <2>1, <2>2, <2>3 DEF Placed
  <2> QED BY <1>1, <1>3, <2>4, Calls, OutsideHeld DEF Held
<1>4. CASE ~cur.back
  <2>1. cur' \in Call /\ cur'.pc = "kernel" /\ cur'.todo = cur.todo /\ cur'.user = cur.user
    BY <1>1, <1>4 DEF Call
  <2>2. cur' # Idle /\ \A p : Settled(p)' <=> Settled(p)
    BY <1>1, <2>1, Calls DEF Settled
  <2> QED BY <1>1, <2>1, <2>2, CallHeld
<1> QED BY <1>3, <1>4

LEMMA KernelHeld ==
  ASSUME TypeOK, Sound, Held, kernelReconcile
  PROVE  Held'
<1>1. /\ cur.pc = "kernel" /\ cur # Idle /\ cur \in Call
      /\ UNCHANGED <<listeners, groups, last, extra, chains, partial>>
      /\ table' = RenderRuleset(cur.kernel)
      /\ "tc" \notin broken' => classes' = TcAdded(planClasses(cur.kernel))
  BY Calls DEF kernelReconcile, TypeOK, walls
<1>2. /\ cur' \in Call /\ cur'.pc = "sync" /\ cur'.todo = cur.todo /\ cur'.user = cur.user
      /\ cur'.kernel = cur.kernel
  BY <1>1 DEF kernelReconcile, Call
<1>3. Tabled' /\ Classed'
  BY <1>1, <1>2 DEF Tabled, Classed
<1>4. Walled'
  BY <1>1 DEF Held, Walled
<1>5. Placed'
  <2>1. cur' # Idle
    BY <1>2, Calls
  <2>2. RatesOf(cur.user)'
    BY <1>1, <1>2 DEF Held, Placed, RatesOf
  <2>3. ASSUME NEW r \in cur.user, Settled(r.port)'  PROVE InPlace(r)'
    <3>1. InPlace(r)
      BY <1>1, <1>2, <2>3 DEF Held, Placed, Settled
    <3> QED BY <1>1, <3>1 DEF InPlace, LimitedBy
  <2> QED BY <1>2, <2>1, <2>2, <2>3 DEF Placed
<1> QED BY <1>3, <1>4, <1>5 DEF Held

(***************************************************************************)
(* The chains after a sync: a chain that is not in "partial" has what the  *)
(* sync wanted in it.                                                      *)
(***************************************************************************)
LEMMA Synced ==
  ASSUME NEW U, NEW K, NEW E, firewallSync(U, K, E), NEW ch \in Present \ partial'
  PROVE  chains'[ch] = Accepts(ch, U, K, E)
<1>1. PICK bad, torn :
        /\ bad \in SUBSET Present /\ torn \in SUBSET (bad \ {"docker4", "docker6"})
        /\ chains' = [c \in Chains |->
             IF c \in torn THEN {}
             ELSE IF c \in Present \ SyncAll(bad) THEN Accepts(c, U, K, E) ELSE chains[c]]
        /\ partial' = SyncAll(bad)
  BY DEF firewallSync
<1>2. ch \in Chains
  BY DataPlaneAssumption
<1>3. ch \notin bad
  <2>1. ASSUME ch \in bad  PROVE FALSE
    <3>1. PICK s \in Shims : ch \in Range(s)
      BY <1>2 DEF Chains
    <3>2. PICK i \in DOMAIN s : s[i] = ch
      BY <3>1 DEF Range
    <3>3. i <= i
      BY <3>1, <3>2 DEF Shims
    <3>4. ch \in SyncAll(bad)
      BY <2>1, <3>1, <3>2, <3>3 DEF SyncAll
    <3> QED BY <1>1, <3>4
  <2> QED BY <2>1
<1>4. ch \notin torn
  BY <1>1, <1>3
<1> QED BY <1>1, <1>2, <1>4

LEMMA ReconciledHeld ==
  ASSUME TypeOK, Sound, Held, Reconciled
  PROVE  Held'
<1>1. /\ cur.pc = "sync" /\ cur # Idle /\ cur \in Call
      /\ last' = [user |-> cur.user, kernel |-> cur.kernel] /\ cur' = Idle
      /\ firewallSync(cur.user, cur.kernel, extra)
      /\ broken' = broken \cap {"tc"}
      /\ UNCHANGED <<listeners, groups, table, classes, extra>>
  BY Calls DEF Reconciled, TypeOK, planes
<1>2. last'.user = cur.user /\ last'.kernel = cur.kernel
  BY <1>1
<1>3. DOMAIN listeners = Ports(cur.user) /\ \A r \in cur.user : InPlace(r)
  <2>1. DOMAIN listeners = Ports(cur.user) /\ cur.todo = {}
    BY <1>1 DEF Sound, Planned, Progress
  <2> QED BY <1>1, <2>1 DEF Held, Placed, Settled
<1>4. ASSUME NEW r \in cur.user  PROVE InPlace(r)'
  BY <1>1, <1>3, <1>4 DEF InPlace, LimitedBy
<1>5. Placed'
  BY <1>1, <1>2, <1>3, <1>4 DEF Placed
<1>6. Tabled'
  BY <1>1, <1>2, Calls DEF Held, Tabled
<1>7. Classed'
  BY <1>1, <1>2, Calls DEF Held, Classed
<1>8. Walled'
  BY <1>1, <1>2, Synced DEF Walled
<1> QED BY <1>5, <1>6, <1>7, <1>8 DEF Held

\* Steps that leave the call and what is in force alone.
LEMMA CalmHeld ==
  ASSUME Held, UNCHANGED <<Outside, broken, groups, listeners, cur>>
  PROVE  Held'
<1>1. UNCHANGED <<table, classes, last, extra, chains, partial, broken, groups, listeners, cur>>
  BY DEF Outside
<1>2. Tabled' /\ Classed' /\ Walled'
  BY <1>1 DEF Held, Tabled, Unbroken, Classed, Walled
<1>3. Placed'
  BY <1>1 DEF Held, Placed, Unbroken, RatesOf, Settled, InPlace, LimitedBy
<1> QED BY <1>2, <1>3 DEF Held

LEMMA SetPortsHeld ==
  ASSUME TypeOK, Held, NEW c \in Callers, SetExtraListenPorts(c)
  PROVE  Held'
<1>1. /\ UNCHANGED <<table, classes, last, broken, groups, listeners, cur>>
      /\ firewallSync(last.user, last.kernel, extra')
  BY DEF SetExtraListenPorts, planes
<1>2. Walled'
  BY <1>1, Synced DEF Walled
<1>3. Tabled' /\ Classed'
  BY <1>1 DEF Held, Tabled, Unbroken, Classed
<1>4. Placed'
  BY <1>1 DEF Held, Placed, Unbroken, RatesOf, Settled, InPlace, LimitedBy
<1> QED BY <1>2, <1>3, <1>4 DEF Held

LEMMA RestartHeld ==
  ASSUME Held, Restart
  PROVE  Held'
<1>1. cur' = Idle /\ ~Unbroken' /\ "restart" \in broken' /\ Present \ partial' = {}
  BY DEF Restart, Unbroken
<1> QED BY <1>1, Calls DEF Held, Tabled, Classed, Walled, Placed

LEMMA InitHeld == Init => Held
<1> SUFFICES ASSUME Init  PROVE Held
  OBVIOUS
<1>1. /\ cur = Idle /\ last.user = {} /\ last.kernel = {} /\ extra = {} /\ table = {} /\ classes = {}
      /\ DOMAIN listeners = {}
  BY DEF Init
<1>2. RenderRuleset({}) = {} /\ TcAdded(planClasses({})) = {}
  BY DEF RenderRuleset, planClasses, TcAdded
<1>3. ASSUME NEW ch \in Present  PROVE chains[ch] = Accepts(ch, {}, {}, {})
  <2>1. chains[ch] = {}
    BY DataPlaneAssumption DEF Init
  <2>2. Accepts(ch, {}, {}, {}) = {}
    BY DEF Accepts, mergeListenPorts, ForwardAccepts
  <2> QED BY <2>1, <2>2
<1>4. Tabled /\ Classed
  BY <1>1, <1>2, Calls DEF Tabled, Classed
<1>5. Walled
  BY <1>1, <1>3 DEF Walled
<1>6. Placed
  BY <1>1 DEF Placed, Ports
<1> QED BY <1>4, <1>5, <1>6 DEF Held

LEMMA HeldStep == TypeOK /\ Sound /\ Held /\ [Next]_vars => Held'
<1> SUFFICES ASSUME TypeOK, Sound, Held, [Next]_vars  PROVE Held'
  OBVIOUS
<1>1. CASE \/ UNCHANGED vars \/ Deploy \/ SetPoolSize
           \/ \E c \in Callers : collectProxyListenPorts(c)
  <2>1. UNCHANGED <<Outside, broken, groups, listeners, cur>>
    BY <1>1 DEF vars, planes, walls, Outside, Deploy, SetPoolSize, collectProxyListenPorts
  <2> QED BY <2>1, CalmHeld
<1>2. ASSUME NEW c \in Clients, Accept(c) \/ handle(c) \/ DirectionEnds(c)
      PROVE  Held'
  <2>1. UNCHANGED <<planes, walls, last, cur, broken>>
    BY <1>2 DEF Accept, handle, GetSlot, LoopEnds, Known, LoadTarget, Dial, Linger, DirectionEnds, Move
  <2>2. UNCHANGED <<Outside, broken, groups, listeners, cur>>
    BY <2>1 DEF planes, walls, Outside
  <2> QED BY <2>2, CalmHeld
<1>3. ASSUME NEW R \in Rulesets, Reconcile(R)  PROVE Held'
  <2>1. /\ userspaceReconcile(UserPart(R), KernelPart(R), FALSE) /\ cur.pc # "sync"
        /\ UNCHANGED <<Outside, broken>>
    BY <1>3, Calls DEF Reconcile, walls, Outside
  <2>2. UserPart(R) \in SUBSET Rule
    BY Parts, DataPlaneAssumption
  <2> QED BY <2>1, <2>2, BeginsHeld
<1>4. CASE kernelFails
  <2>1. /\ userspaceReconcile(last.user, {}, TRUE) /\ cur.pc # "sync"
        /\ UNCHANGED <<Outside, broken>>
    BY <1>4 DEF kernelFails, walls, Outside
  <2>2. last.user \in SUBSET Rule
    BY DEF TypeOK
  <2> QED BY <2>1, <2>2, BeginsHeld
<1>5. CASE Reconciling
  BY <1>5, OpenHeld, UpdateHeld, CloseHeld, BindErrorsHeld, SwapHeld, UpdatedHeld, KernelHeld,
     ReconciledHeld DEF Reconciling
<1> QED BY <1>1, <1>2, <1>3, <1>4, <1>5, SetPortsHeld, RestartHeld DEF Next

(***************************************************************************)
(* What that says of the listeners, the walls, the counters, the classes.  *)
(***************************************************************************)
LEMMA HeldApplied == Held => Applied
<1> SUFFICES ASSUME Held, cur = Idle, broken \cap {"bind", "restart"} = {}
             PROVE  /\ DOMAIN listeners = {r.port : r \in last.user}
                    /\ table = RenderRuleset(last.kernel)
                    /\ \A r \in last.user : InPlace(r)
  BY DEF Applied, InPlace, LimitedBy
<1> QED BY Calls DEF Held, Placed, Tabled, Unbroken, Ports

LEMMA HeldWalls == Held => WallsMatch
<1> SUFFICES ASSUME Held, NEW ch \in Present \ partial
             PROVE  IF ch \in {"in4", "in6"} THEN chains[ch] = {<<r.port, "tcp">> : r \in last.user} \cup extra
                    ELSE \A r \in last.kernel : <<r.dest, r.proto>> \in chains[ch]
                           <=> r.dest # 0 /\ (r.dest \in IPv6 <=> ch \in {"docker6", "ufw6"})
  BY DEF WallsMatch
<1>1. chains[ch] = Accepts(ch, last.user, last.kernel, extra)
  BY DEF Held, Walled
<1>2. CASE ch \in {"in4", "in6"}
  BY <1>1, <1>2 DEF Accepts, mergeListenPorts
<1>3. CASE ch \notin {"in4", "in6"}
  <2>1. chains[ch] = {<<s.dest, s.proto>> : s \in
                        {s \in last.kernel : s.dest # 0 /\ (s.dest \in IPv6) = (ch \in {"docker6", "ufw6"})}}
    BY <1>1, <1>3 DEF Accepts, ForwardAccepts
  <2>2. ASSUME NEW r \in last.kernel
        PROVE  <<r.dest, r.proto>> \in chains[ch]
                 <=> r.dest # 0 /\ (r.dest \in IPv6 <=> ch \in {"docker6", "ufw6"})
    BY <2>1
  <2> QED BY <1>3, <2>2
<1> QED BY <1>2, <1>3

LEMMA TableKeys ==
  ASSUME NEW K, table = RenderRuleset(K)
  PROVE  kernelCounters = {<<r.proto, r.port>> : r \in {k \in K : k.dest # 0}}
<1>1. ASSUME NEW r \in K, r.dest # 0  PROVE <<r.proto, r.port>> \in kernelCounters
  <2>1. PICK e : e = [proto |-> r.proto, port |-> r.port, mark |-> MarkOf(r),
                      to |-> IF r.dest \in Loopback \cap IPv6 THEN "redirect" ELSE r.dest,
                      masquerade |-> r.dest \notin Loopback,
                      account |-> IF r.dest \in Loopback THEN "local" ELSE "forward"]
    OBVIOUS
  <2>2. e \in table
    BY <1>1, <2>1 DEF RenderRuleset
  <2>3. e.proto = r.proto /\ e.port = r.port /\ e.account \in {"forward", "local"}
    BY <2>1
  <2> QED BY <2>2, <2>3 DEF kernelCounters
<1>2. ASSUME NEW x \in kernelCounters
      PROVE  \E r \in K : r.dest # 0 /\ x = <<r.proto, r.port>>
  <2>1. PICK e \in table : x = <<e.proto, e.port>>
    BY DEF kernelCounters
  <2>2. PICK r \in K : r.dest # 0 /\ e.proto = r.proto /\ e.port = r.port
    BY <2>1 DEF RenderRuleset
  <2> QED BY <2>1, <2>2
<1> QED BY <1>1, <1>2

\* Of a rule that is split, the kernel has the UDP half and the listener the
\* other; the key of a whole one names all it takes.
LEMMA OneKey ==
  ASSUME NEW U, NEW K, Fit(U, K), NEW r \in U \cup K, NEW s \in U \cup K,
         r.port = s.port, r.proto = "tcp+udp"
  PROVE  s.proto = "tcp+udp"
<1>1. PICK R \in Rulesets \cup {{}} : Partitionable(R) /\ U = UserPart(R) /\ K = KernelPart(R)
  BY DEF Fit
<1>2. R \in SUBSET Rule
  BY DataPlaneAssumption
<1>3. ASSUME NEW q \in R
      PROVE  Namespaces(q) # {} /\ Namespaces(q) \subseteq {"tcp", "udp"}
  BY <1>2 DEF Rule, Protos, Namespaces
<1>4. ASSUME NEW t \in U
      PROVE  t.proto = "tcp" /\ \E q \in R : q.port = t.port /\ q.mode = "userspace"
  <2>1. t \in UserPart(R)
    BY <1>1
  <2>2. PICK q \in R : q.mode = "userspace" /\ t = [q EXCEPT !.proto = "tcp"]
    BY <2>1 DEF UserPart
  <2> QED BY <1>2, <2>2 DEF Rule
<1>5. ASSUME NEW t \in K
      PROVE  \/ t \in R /\ t.mode = "kernel"
             \/ t.proto = "udp" /\ \E q \in R : q.port = t.port /\ q.mode = "userspace"
  <2>1. \/ t \in R /\ t.mode = "kernel"
        \/ \E q \in R : /\ q.mode = "userspace" /\ q.proto = "tcp+udp"
                        /\ t = [q EXCEPT !.proto = "udp", !.mode = "kernel"]
    BY <1>1 DEF KernelPart
  <2> QED BY <1>2, <2>1 DEF Rule
<1>6. r \in R /\ r.mode = "kernel"
  BY <1>4, <1>5
<1>7. \E q \in R : q.port = s.port /\ (s = q \/ q.mode = "userspace")
  BY <1>4, <1>5
<1>8. PICK q \in R : q.port = s.port /\ (s = q \/ q.mode = "userspace")
  BY <1>7
<1>9. CASE q = r
  BY <1>6, <1>8, <1>9
<1>10. CASE q # r
  <2>1. Namespaces(r) = {"tcp", "udp"}
    BY DEF Namespaces
  <2>2. Namespaces(q) \cap Namespaces(r) = {}
    BY <1>1, <1>6, <1>8, <1>10 DEF Partitionable
  <2> QED BY <1>3, <2>1, <2>2
<1> QED BY <1>9, <1>10

LEMMA HeldCounted == TypeOK /\ Sound /\ Held => CountedOnce
<1> SUFFICES ASSUME TypeOK, Sound, Held, cur = Idle, broken \cap {"bind", "restart"} = {}
             PROVE  /\ Counters = {<<r.proto, r.port>> :
                         r \in last.user \cup {k \in last.kernel : k.dest # 0}}
                    /\ \A x, y \in Counters : x # y /\ x[2] = y[2] => "tcp+udp" \notin {x[1], y[1]}
  BY DEF CountedOnce
<1> DEFINE counted == last.user \cup {k \in last.kernel : k.dest # 0}
<1>1. table = RenderRuleset(last.kernel) /\ DOMAIN listeners = {r.port : r \in last.user}
  BY HeldApplied DEF Applied
<1>2. kernelCounters = {<<r.proto, r.port>> : r \in {k \in last.kernel : k.dest # 0}}
  BY <1>1, TableKeys
<1>3. Fit(last.user, last.kernel)
  BY DEF Sound
<1>4. \A r \in last.user : r.proto = "tcp"
  <2>1. PICK R \in Rulesets \cup {{}} : last.user = UserPart(R)
    BY <1>3 DEF Fit
  <2>2. R \in SUBSET Rule
    BY DataPlaneAssumption
  <2>3. ASSUME NEW r \in UserPart(R)  PROVE r.proto = "tcp"
    <3>1. PICK q \in R : r = [q EXCEPT !.proto = "tcp"]
      BY DEF UserPart
    <3> QED BY <2>2, <3>1 DEF Rule
  <2> QED BY <2>1, <2>3
<1>5. Counters = {<<r.proto, r.port>> : r \in counted}
  <2>1. {<<"tcp", p>> : p \in DOMAIN listeners} = {<<r.proto, r.port>> : r \in last.user}
    BY <1>1, <1>4
  <2> QED BY <1>2, <2>1 DEF Counters
<1>6. ASSUME NEW x \in Counters, NEW y \in Counters, x # y, x[2] = y[2]
      PROVE  "tcp+udp" \notin {x[1], y[1]}
  <2>1. PICK r, s : r \in counted /\ s \in counted /\ x = <<r.proto, r.port>> /\ y = <<s.proto, s.port>>
    BY <1>5
  <2>2. r \in last.user \cup last.kernel /\ s \in last.user \cup last.kernel /\ r.port = s.port
    BY <1>6, <2>1
  <2>3. r.proto = "tcp+udp" <=> s.proto = "tcp+udp"
    BY <1>3, <2>2, OneKey
  <2> QED BY <1>6, <2>1, <2>2, <2>3
<1> QED BY <1>5, <1>6

(***************************************************************************)
(* The class of a group. Class 1 is the default one: with a group or a     *)
(* capped port of that number tc adds no class at all.                     *)
(***************************************************************************)
NoClassOne == \A R \in Rulesets : \A c \in planClasses(KernelPart(R)) : c.minor # 1

LEMMA HeldShaped == NoClassOne /\ TypeOK /\ Sound /\ Held => ShapedHeld
<1> SUFFICES ASSUME NoClassOne, TypeOK, Sound, Held,
                    "tc" \notin broken, cur = Idle, "restart" \notin broken,
                    NEW r \in last.kernel, GroupShapeMark(r) # 0
             PROVE  \E c \in classes : c.handle = GroupShapeMark(r) /\ c.rate = r.rate
  BY DEF ShapedHeld
<1>1. classes = TcAdded(planClasses(last.kernel))
  BY Calls DEF Held, Classed
<1>2. PICK R \in Rulesets \cup {{}} : last.kernel = KernelPart(R)
  BY DEF Sound, Fit
<1>3. R \in Rulesets
  <2>1. KernelPart({}) = {}
    BY DEF KernelPart
  <2> QED BY <1>2, <2>1
<1>4. TcAdded(planClasses(last.kernel)) = planClasses(last.kernel)
  BY <1>2, <1>3 DEF NoClassOne, TcAdded
<1>5. PICK c : c = [minor |-> r.group, rate |-> r.rate, handle |-> GroupShapeMark(r)]
  OBVIOUS
<1>6. c \in planClasses(last.kernel)
  BY <1>5 DEF planClasses
<1> QED BY <1>1, <1>4, <1>5, <1>6

SameLimiters == \A g \in DOMAIN groups \cap DOMAIN groups' : groups'[g].id = groups[g].id

LEMMA LimiterStep == TypeOK /\ [Next]_vars => SameLimiters
<1> SUFFICES ASSUME TypeOK, [Next]_vars  PROVE SameLimiters
  OBVIOUS
<1>1. ASSUME NEW U \in SUBSET Rule, groups' = desiredGroups(U)  PROVE SameLimiters
  BY <1>1, NewGroups DEF SameLimiters
<1>2. ASSUME NEW R \in Rulesets, Reconcile(R)  PROVE SameLimiters
  <2>1. UserPart(R) \in SUBSET Rule /\ groups' = desiredGroups(UserPart(R))
    BY <1>2, Parts, DataPlaneAssumption DEF Reconcile, userspaceReconcile
  <2> QED BY <1>1, <2>1
<1>3. CASE kernelFails
  <2>1. last.user \in SUBSET Rule /\ groups' = desiredGroups(last.user)
    BY <1>3 DEF kernelFails, userspaceReconcile, TypeOK
  <2> QED BY <1>1, <2>1
<1>4. CASE Restart
  <2>1. DOMAIN groups' = {}
    BY <1>4 DEF Restart
  <2> QED BY <2>1 DEF SameLimiters
<1>5. ASSUME UNCHANGED groups  PROVE SameLimiters
  BY <1>5 DEF SameLimiters
<1>6. CASE Reconciling
  <2>1. UNCHANGED groups
    BY <1>6 DEF Reconciling, openListener, hotUpdate, close, bindErrors, swapPool, closed, Updated,
                kernelReconcile, Reconciled, planes
  <2> QED BY <1>5, <2>1
<1>7. CASE \/ UNCHANGED vars \/ Deploy \/ SetPoolSize
           \/ \E c \in Callers : collectProxyListenPorts(c) \/ SetExtraListenPorts(c)
  <2>1. UNCHANGED groups
    BY <1>7 DEF vars, planes, Deploy, SetPoolSize, collectProxyListenPorts, SetExtraListenPorts
  <2> QED BY <1>5, <2>1
<1>8. ASSUME NEW c \in Clients, Accept(c) \/ handle(c) \/ DirectionEnds(c)  PROVE SameLimiters
  <2>1. UNCHANGED groups
    BY <1>8 DEF Accept, handle, GetSlot, LoopEnds, Known, LoadTarget, Dial, Linger, DirectionEnds,
                Move, planes
  <2> QED BY <1>5, <2>1
<1> QED BY <1>2, <1>3, <1>4, <1>6, <1>7, <1>8 DEF Next

\* A call gives no shape group that stays a new limiter, whatever its rules are
\* (userspaceBackend.Reconcile).
THEOREM LimitersAlwaysKept == Spec => LimiterKept
<1>1. TypeOK /\ [Next]_vars => SameLimiters
  BY LimiterStep
<1>2. Spec => [][SameLimiters]_vars
  BY <1>1, TypeCorrect, PTL DEF Spec
<1> QED BY <1>2 DEF LimiterKept, SameLimiters

\* Between two calls the listeners, the nft table, its counters and the chains of
\* the host are those of the last rules that were applied, whatever has failed or
\* was taken back since (Dataplane.Reconcile, firewall.Sync, SetExtraListenPorts).
THEOREM LastRulesInForce == Spec => [](Applied /\ CountedOnce /\ WallsMatch)
<1>1. TypeOK /\ Sound /\ Held /\ [Next]_vars => (TypeOK /\ Sound /\ Held)'
  BY SoundStep, HeldStep
<1>2. Init => TypeOK /\ Sound /\ Held
  BY InitSound, InitHeld
<1>3. TypeOK /\ Sound /\ Held => Applied /\ CountedOnce /\ WallsMatch
  BY HeldApplied, HeldCounted, HeldWalls
<1> QED BY <1>1, <1>2, <1>3, PTL DEF Spec

\* With no shape group and no capped kernel rule at number 1, where tc adds no
\* class, each rule shaped by its group has its class too: all that the last
\* rules ask for is in force (planClasses, GroupShapeMark, tc.Manager).
THEOREM AlwaysInForce == ASSUME NoClassOne PROVE Spec => InForce
<1>1. TypeOK /\ Sound /\ Held /\ [Next]_vars => (TypeOK /\ Sound /\ Held)'
  BY SoundStep, HeldStep
<1>2. Init => TypeOK /\ Sound /\ Held
  BY InitSound, InitHeld
<1>3. TypeOK /\ Sound /\ Held => Applied /\ CountedOnce /\ WallsMatch /\ ShapedHeld
  BY HeldApplied, HeldCounted, HeldWalls, HeldShaped
<1>4. Spec => [](Applied /\ CountedOnce /\ WallsMatch /\ ShapedHeld)
  BY <1>1, <1>2, <1>3, PTL DEF Spec
<1> QED BY <1>4, LimitersAlwaysKept DEF InForce
=============================================================================
