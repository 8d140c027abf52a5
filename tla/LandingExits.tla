---------------------------- MODULE LandingExits ----------------------------
(***************************************************************************)
(* The landing exits of a user: the destinations its rules may dial, with  *)
(* a traffic ledger, a quota and an expiry each. The set is materialized   *)
(* from a subscription URL and manual URIs (source "auto"), whose content  *)
(* changes under the panel, or imported from the node repository (source   *)
(* "repo"), whose entries an administrator edits. Rules refer to an exit   *)
(* by its address only.                                                    *)
(*                                                                         *)
(* As in QuotaLedger, a step is one statement or transaction, a push is    *)
(* atomic and installs what the database selects at that moment, and the   *)
(* pushes a handler starts wait in todo.                                   *)
(***************************************************************************)
EXTENDS Integers, FiniteSets, Functions

CONSTANTS
  Users, Exits, Rules, Nodes,
  Owner,          \* [Rules -> Users]
  Target,         \* [Rules -> Exits], what a rule dials at first
  HopNodes,       \* [Rules -> SUBSET Nodes]
  Urls,           \* subscription addresses
  Sources,        \* the landing sources an administrator may configure
  Entries,        \* entries of the node repository
  Admins,         \* requests of the administrators that may overlap
  Loaders,        \* page loads and sync passes that may overlap
  Quotas, MaxUsed,  \* bounds: quotas to set, bytes of an exit
  Kinds,          \* of requests and of changes outside the panel
  Plans           \* bound: how often each kind happens in a behaviour

ASSUME ExitsAssumption ==
  /\ IsFiniteSet(Exits)
  /\ Owner \in [Rules -> Users] /\ Target \in [Rules -> Exits]
  /\ HopNodes \in [Rules -> SUBSET Nodes]
  /\ Sources \subseteq [sub : Urls \cup {"none"}, manual : SUBSET Exits]
  /\ 0 \in Quotas /\ Quotas \subseteq Nat /\ MaxUsed \in Nat
  /\ Plans \subseteq [Kinds -> Nat]

VARIABLES
  rows,     \* user_landing_exits: [<<user, exit>> -> row], a partial function
  target,   \* rules.exit_host and exit_port, and the last hop's target
  source,   \* users.landing_sub_url and landing_uris
  served,   \* what each subscription serves
  cache,    \* Fetcher.cache: [URLs -> what each answered last], a partial function
  loader,   \* resolutions under way, of page loads, passes and administrators
  live,     \* what each node forwards: pairs of a rule and the exit it dials
  todo,     \* nodes with a push on its way
  owed,     \* <<node, key>>: an expiry, begun, past or assigned, has changed
            \* what rules of the exit there stop, and the node was not pushed since
  touched,  \* users whose exit quotas are to be enforced
  listed,   \* the keys landingExpiryEnforcer works through
  repo,     \* node_repo: [entries -> [at, due]], a partial function
  gone,     \* endpoints of entries that were deleted
  imported, \* exits imported from the repository and not deleted since
  admin,    \* requests under way on the repository
  left      \* what remains of the plan

exitVars == <<rows, target>>
sourceVars == <<source, served, cache, loader>>
pushVars == <<live, todo, owed>>
repoVars == <<repo, gone, imported, admin>>
vars == <<exitVars, sourceVars, pushVars, touched, listed, repoVars, left>>

Dues == {"never", "later", "past"}      \* expires_at against the clock
Row == [present : BOOLEAN, quota : Quotas, used : Nat, due : Dues,
        source : {"auto", "repo"}]
Idle == [pc |-> "idle"]
Entry == [at : Exits, due : Dues]
Resolution ==
  {Idle} \cup [pc : {"fetch"}, user : Users, src : {s \in Sources : s.sub # "none"}]
  \cup [pc : {"sync"}, user : Users, src : Sources, exits : SUBSET Exits]
Edition ==
  {Idle} \cup [pc : {"update", "propagate"}, entry : Entries, from : Exits, to : Entry]
  \cup [pc : {"append", "expiries"}, user : Users, picked : SUBSET Entry]
Keys == Users \X Exits
Actors == Loaders \cup Admins

Over(row) == row.quota > 0 /\ row.used >= row.quota
EmptyLedger(row) == row.quota = 0 /\ row.used = 0
KeyOf(r) == <<Owner[r], target[r]>>
With(f, x, y) == [z \in DOMAIN f \cup {x} |-> IF z = x THEN y ELSE f[z]]
Request(kind) == left[kind] > 0 /\ left' = [left EXCEPT ![kind] = @ - 1]

-----------------------------------------------------------------------------
(* Pushes                                                                  *)

\* The last two conditions of ActiveRuleHopsForPush.
UsedUp(k) == k \in DOMAIN rows /\ rows[k].present /\ Over(rows[k])
PastDue == {k \in DOMAIN rows : rows[k].due = "past"}
Excluded(r) == UsedUp(KeyOf(r)) \/ KeyOf(r) \in PastDue

Pushed(n) == {<<r, target[r]>> : r \in {q \in Rules : n \in HopNodes[q] /\ ~Excluded(q)}}
NodesForUserExit(k) == UNION {HopNodes[r] : r \in {q \in Rules : KeyOf(q) = k}}
Redispatch(ks) == todo' = todo \cup UNION {NodesForUserExit(k) : k \in ks}

Behind(ks) == owed' = owed \cup UNION {NodesForUserExit(k) \X {k} : k \in ks}

\* Expiries that now stop rules, or do not any more, without a push.
Lapsed == (PastDue \ PastDue') \cup (PastDue' \ PastDue)
Unpushed == Behind(Lapsed)

dispatchToNode(n) ==
  /\ n \in todo
  /\ live' = [live EXCEPT ![n] = Pushed(n)]
  /\ todo' = todo \ {n}
  /\ owed' = {o \in owed : o[1] # n}
  /\ UNCHANGED <<exitVars, sourceVars, touched, listed, repoVars, left>>

-----------------------------------------------------------------------------
Init ==
  /\ rows = << >> /\ target = Target
  /\ source \in [Users -> Sources]
  /\ served \in [Urls -> SUBSET Exits] /\ cache = << >>
  /\ loader = [t \in Actors |-> Idle]
  /\ live = [n \in Nodes |-> {<<r, Target[r]>> : r \in {q \in Rules : n \in HopNodes[q]}}]
  /\ todo = {} /\ owed = {} /\ touched = {} /\ listed = {}
  /\ repo \in UNION {[E -> [at : Exits, due : {"later"}]] : E \in SUBSET Entries}
  /\ gone = {} /\ imported = {} /\ admin = [a \in Admins |-> Idle]
  /\ left \in Plans

(* Resolving a source: landingNodesFor, resolveLandingExits, Subscription  *)

Answered(X) == [ok |-> TRUE, exits |-> X]
Failed == [ok |-> FALSE, exits |-> {}]

\* What a resolution does next once it knows what the subscription serves: an
\* error or an empty result ends it.
Resolved(u, src, res) ==
  IF ~res.ok \/ src.manual \cup res.exits = {} THEN Idle
  ELSE [pc |-> "sync", user |-> u, src |-> src, exits |-> src.manual \cup res.exits]

\* It starts from the user row it has read; without force a cached answer will do.
Resolving(u, src, force) ==
  IF src.sub = "none" THEN Resolved(u, src, Answered({}))
  ELSE IF ~force /\ src.sub \in DOMAIN cache THEN Resolved(u, src, cache[src.sub])
  ELSE [pc |-> "fetch", user |-> u, src |-> src]

\* A page load (force with ?refresh=1) or a step of landingSyncPass.
Load(t, u) ==
  /\ loader[t].pc = "idle"
  /\ \E force \in BOOLEAN : loader' = [loader EXCEPT ![t] = Resolving(u, source[u], force)]
  /\ loader' # loader
  /\ UNCHANGED <<exitVars, source, served, cache, pushVars, touched, listed, repoVars, left>>

\* The subscription answers or fails, and the answer is cached.
Answer(t) ==
  /\ loader[t].pc = "fetch"
  /\ \E res \in {Answered(served[loader[t].src.sub]), Failed} :
       /\ cache' = With(cache, loader[t].src.sub, res)
       /\ loader' = [loader EXCEPT ![t] = Resolved(@.user, @.src, res)]
  /\ UNCHANGED <<exitVars, source, served, pushVars, touched, listed, repoVars, left>>

CacheExpires(x) ==
  /\ x \in DOMAIN cache /\ cache' = Restrict(cache, DOMAIN cache \ {x})
  /\ UNCHANGED <<exitVars, source, served, loader, pushVars, touched, listed, repoVars, left>>

\* The subscription's operator serves something else.
Serve(x) ==
  /\ Request("serve")
  /\ \E X \in (SUBSET Exits) \ {served[x]} : served' = [served EXCEPT ![x] = X]
  /\ UNCHANGED <<exitVars, source, cache, loader, pushVars, touched, listed, repoVars>>

-----------------------------------------------------------------------------
(* SyncUserLandingExits and syncLandingExits                               *)

\* Mutant: minus one stands for no quota.
NewRowUnlimited(src) ==
  [present |-> TRUE, quota |-> -1, used |-> 0, due |-> "never", source |-> src]

NewRow(src) == [present |-> TRUE, quota |-> 0, used |-> 0, due |-> "never", source |-> src]
Upsert(k, src) ==
  IF k \in DOMAIN rows THEN [rows[k] EXCEPT !.present = TRUE, !.source = src] ELSE NewRow(src)

\* The rows of user u that the source no longer names: swept if they hold
\* nothing, kept aside otherwise. Imports from the repository are left alone.
Dropped(u, X) == {k \in DOMAIN rows : k[1] = u /\ k[2] \notin X /\ rows[k].source # "repo"}
\* Mutant: every row the source no longer names is swept.
SweptAll(u, X) == Dropped(u, X)

Swept(u, X) == {k \in Dropped(u, X) : EmptyLedger(rows[k])}

\* Mutant: only an exit that comes back counts as flipped.
FlippedBack(u, X) ==
  {k \in DOMAIN rows : k[1] = u /\ k[2] \in X /\ Over(rows[k]) /\ ~rows[k].present}

\* The exits whose rules are excluded by now, or are not any more.
Flipped(u, X) ==
  {k \in DOMAIN rows : /\ k[1] = u /\ Over(rows[k])
                       /\ \/ k[2] \in X /\ ~rows[k].present
                          \/ k \in Dropped(u, X) \ Swept(u, X) /\ rows[k].present}

Synced(u, X) ==
  [k \in (DOMAIN rows \cup {<<u, x>> : x \in X}) \ Swept(u, X) |->
     IF k[1] = u /\ k[2] \in X THEN Upsert(k, "auto")
     ELSE IF k \in Dropped(u, X) THEN [rows[k] EXCEPT !.present = FALSE]
     ELSE rows[k]]

\* A result of a source the administrator has replaced meanwhile is discarded.
Sync(t) ==
  /\ loader[t].pc = "sync"
  /\ LET u == loader[t].user
         X == loader[t].exits IN
     IF loader[t].src = source[u]
     THEN rows' = Synced(u, X) /\ Redispatch(Flipped(u, X))
     ELSE UNCHANGED <<rows, todo>>
  /\ Unpushed /\ loader' = [loader EXCEPT ![t] = Idle]
  /\ UNCHANGED <<target, source, served, cache, live, touched, listed, repoVars, left>>

-----------------------------------------------------------------------------
(* Metering and expiry                                                     *)

\* applyCounters bills a final hop to a present exit (see QuotaLedger).
Bill(r) ==
  /\ \E n \in Nodes : <<r, target[r]>> \in live[n]
  /\ KeyOf(r) \in DOMAIN rows
  /\ rows[KeyOf(r)].present /\ rows[KeyOf(r)].used < MaxUsed
  /\ rows' = [rows EXCEPT ![KeyOf(r)].used = @ + 1]
  /\ touched' = touched \cup {Owner[r]}
  /\ UNCHANGED <<target, sourceVars, pushVars, listed, repoVars, left>>

ExitsExceedingQuota(u) ==
  {k \in DOMAIN rows : k[1] = u /\ rows[k].present /\ Over(rows[k])}

\* Mutant: nobody pushes when an exit is used up.
EnforceNothing(u) ==
  /\ u \in touched /\ touched' = touched \ {u}
  /\ UNCHANGED <<exitVars, sourceVars, pushVars, listed, repoVars, left>>

enforceExitQuota(u) ==
  /\ u \in touched /\ touched' = touched \ {u}
  /\ Redispatch(ExitsExceedingQuota(u))
  /\ UNCHANGED <<exitVars, sourceVars, live, owed, listed, repoVars, left>>

\* The clock passes an expiry.
FallDue(k) ==
  /\ k \in DOMAIN rows /\ rows[k].due = "later"
  /\ rows' = [rows EXCEPT ![k].due = "past"] /\ Unpushed
  /\ UNCHANGED <<target, sourceVars, live, todo, touched, listed, repoVars, left>>

ExpiredLandingExits == {k \in DOMAIN rows : rows[k].present /\ rows[k].due = "past"}

\* landingExpiryEnforcer reads the list, then disables and pushes one by one,
\* whether or not the row has changed since.
ListExpired ==
  /\ listed = {} /\ ExpiredLandingExits # {}
  /\ listed' = ExpiredLandingExits
  /\ UNCHANGED <<exitVars, sourceVars, pushVars, touched, repoVars, left>>

DisableExpired ==
  /\ \E k \in listed :
       /\ listed' = listed \ {k}
       /\ rows' = IF k \in DOMAIN rows THEN [rows EXCEPT ![k].present = FALSE] ELSE rows
       /\ Redispatch({k})
  /\ UNCHANGED <<target, sourceVars, live, owed, touched, repoVars, left>>

-----------------------------------------------------------------------------
(* Requests on a user's exits                                              *)

Free(a) == loader[a].pc = "idle" /\ admin[a].pc = "idle"

apiSetUserLanding(a, u) ==
  /\ Request("source") /\ Free(a)
  /\ \E src \in Sources \ {source[u]} :
       /\ source' = [source EXCEPT ![u] = src]
       /\ loader' = [loader EXCEPT ![a] = Resolving(u, src, TRUE)]
  /\ UNCHANGED <<exitVars, served, cache, pushVars, touched, listed, repoVars>>

apiSetLandingExitQuota(k) ==
  /\ Request("quota") /\ k \in DOMAIN rows
  /\ \E q \in Quotas \ {rows[k].quota} : rows' = [rows EXCEPT ![k].quota = q]
  /\ Redispatch(IF rows[k].present THEN {k} ELSE {})
  /\ UNCHANGED <<target, sourceVars, live, owed, touched, listed, repoVars>>

apiResetLandingExitTraffic(k) ==
  /\ Request("clear") /\ k \in DOMAIN rows
  /\ rows' = [rows EXCEPT ![k].used = 0]
  /\ Redispatch(IF rows[k].present THEN {k} ELSE {})
  /\ UNCHANGED <<target, sourceVars, live, owed, touched, listed, repoVars>>

\* A row put aside is deleted without a push.
apiDeleteLandingExit(k) ==
  /\ Request("clear") /\ k \in DOMAIN rows
  /\ rows' = Restrict(rows, DOMAIN rows \ {k})
  /\ Redispatch(IF rows[k].present THEN {k} ELSE {})
  /\ Unpushed /\ imported' = imported \ {k}
  /\ UNCHANGED <<target, sourceVars, live, touched, listed, repo, gone, admin>>

\* SetUserLandingExitExpires: an expiry to come makes the exit present again.
SetExpires(k, due) ==
  rows' = [rows EXCEPT ![k] = [@ EXCEPT !.due = due, !.present = due # "past"]]

apiSetLandingExitExpires(k) ==
  /\ Request("expires") /\ k \in DOMAIN rows
  /\ \E due \in Dues : SetExpires(k, due)
  /\ Redispatch({k}) /\ Unpushed
  /\ UNCHANGED <<target, sourceVars, live, touched, listed, repoVars>>

-----------------------------------------------------------------------------
(* The node repository                                                     *)

apiCreateNodeRepoEntry(a, e) ==
  /\ Request("repo") /\ Free(a) /\ e \notin DOMAIN repo
  /\ \E x \in Exits, due \in {"never", "later"} :
       repo' = With(repo, e, [at |-> x, due |-> due])
  /\ UNCHANGED <<exitVars, sourceVars, pushVars, touched, listed, gone, imported, admin>>

apiDeleteNodeRepoEntry(a, e) ==
  /\ Request("repo") /\ Free(a) /\ e \in DOMAIN repo
  /\ repo' = Restrict(repo, DOMAIN repo \ {e}) /\ gone' = gone \cup {repo[e].at}
  /\ UNCHANGED <<exitVars, sourceVars, pushVars, touched, listed, imported, admin>>

\* apiUpdateNodeRepoEntry reads the entry, stores the new one and propagates the
\* difference, in three statements.
ReadEntry(a) ==
  /\ Request("repo") /\ Free(a)
  /\ \E e \in DOMAIN repo : \E x \in Exits, due \in Dues :
       admin' = [admin EXCEPT ![a] =
         [pc |-> "update", entry |-> e, from |-> repo[e].at, to |-> [at |-> x, due |-> due]]]
  /\ UNCHANGED <<exitVars, sourceVars, pushVars, touched, listed, repo, gone, imported>>

UpdateEntry(a) ==
  /\ admin[a].pc = "update"
  /\ repo' = [e \in DOMAIN repo |-> IF e = admin[a].entry THEN admin[a].to ELSE repo[e]]
  /\ admin' = [admin EXCEPT ![a].pc = "propagate"]
  /\ UNCHANGED <<exitVars, sourceVars, pushVars, touched, listed, gone, imported, left>>

\* The row of user u at the new endpoint: its own there, if it has one, merged.
Merged(u, old, new, due) ==
  LET row == rows[<<u, old>>] IN
  IF <<u, new>> \notin DOMAIN rows THEN [row EXCEPT !.due = due]
  ELSE [present |-> row.present \/ rows[<<u, new>>].present,
        quota |-> IF row.quota > rows[<<u, new>>].quota THEN row.quota ELSE rows[<<u, new>>].quota,
        used |-> row.used + rows[<<u, new>>].used, due |-> due, source |-> "repo"]

\* PropagateRepoExitChange: imported exits move, rules of every user follow; an
\* edit that does not move the endpoint changes the expiry and pushes nothing.
Propagate(a) ==
  /\ admin[a].pc = "propagate"
  /\ LET old == admin[a].from
         new == admin[a].to.at
         due == admin[a].to.due
         us == {u \in Users : <<u, old>> \in DOMAIN rows /\ rows[<<u, old>>].source = "repo"}
     IN
     IF old = new
     THEN /\ rows' = [k \in DOMAIN rows |->
                        IF k[1] \in us /\ k[2] = old THEN [rows[k] EXCEPT !.due = due] ELSE rows[k]]
          /\ UNCHANGED <<target, todo, imported>>
     ELSE /\ rows' = [k \in (DOMAIN rows \cup us \X {new}) \ (us \X {old}) |->
                        IF k[1] \in us /\ k[2] = new THEN Merged(k[1], old, new, due) ELSE rows[k]]
          /\ target' = [r \in Rules |-> IF target[r] = old THEN new ELSE target[r]]
          /\ todo' = todo \cup UNION {HopNodes[r] : r \in {q \in Rules : target'[q] = new}}
          /\ imported' = (imported \ (us \X {old})) \cup us \X {new}
  /\ Unpushed /\ admin' = [admin EXCEPT ![a] = Idle]
  /\ UNCHANGED <<sourceVars, live, touched, listed, repo, gone, left>>

\* apiAssignRepoToUser reads the entries, appends them as exits and sets their
\* expiries one by one, without the push that SetUserLandingExitExpires asks for.
ReadAssigned(a) ==
  /\ Request("repo") /\ Free(a)
  /\ \E E \in (SUBSET DOMAIN repo) \ {{}}, u \in Users :
       admin' = [admin EXCEPT ![a] = [pc |-> "append", user |-> u, picked |-> {repo[e] : e \in E}]]
  /\ UNCHANGED <<exitVars, sourceVars, pushVars, touched, listed, repo, gone, imported>>

AppendExits(a) ==
  /\ admin[a].pc = "append"
  /\ LET ks == {<<admin[a].user, p.at>> : p \in admin[a].picked} IN
     /\ rows' = [k \in DOMAIN rows \cup ks |-> IF k \in ks THEN Upsert(k, "repo") ELSE rows[k]]
     /\ Redispatch({k \in ks \cap DOMAIN rows : ~rows[k].present /\ Over(rows[k])})
     /\ imported' = imported \cup ks
  /\ admin' = [admin EXCEPT ![a].pc = "expiries"]
  /\ UNCHANGED <<target, sourceVars, live, owed, touched, listed, repo, gone, left>>

AssignExpiry(a) ==
  /\ admin[a].pc = "expiries"
  /\ LET dated == {p \in admin[a].picked : p.due # "never"} IN
     IF dated = {}
     THEN admin' = [admin EXCEPT ![a] = Idle] /\ UNCHANGED rows
     ELSE \E p \in dated :
       LET k == <<admin[a].user, p.at>> IN
       /\ IF k \in DOMAIN rows THEN SetExpires(k, p.due) ELSE UNCHANGED rows
       /\ admin' = [admin EXCEPT ![a].picked = @ \ {p}]
  /\ Behind(Lapsed \cup {k \in Keys : UsedUp(k) # UsedUp(k)'})
  /\ UNCHANGED <<target, sourceVars, live, todo, touched, listed, repo, gone, imported, left>>

-----------------------------------------------------------------------------
Resolve(t) == Answer(t) \/ Sync(t)
Editing(a) == UpdateEntry(a) \/ Propagate(a) \/ AppendExits(a) \/ AssignExpiry(a)

Next ==
  \/ \E t \in Loaders : \E u \in Users : Load(t, u)
  \/ \E t \in Actors : Resolve(t)
  \/ \E x \in Urls : CacheExpires(x) \/ Serve(x)
  \/ \E r \in Rules : Bill(r)
  \/ \E u \in Users : enforceExitQuota(u) \/ \E a \in Admins : apiSetUserLanding(a, u)
  \/ \E k \in Keys :
       \/ FallDue(k) \/ apiSetLandingExitQuota(k) \/ apiResetLandingExitTraffic(k)
       \/ apiDeleteLandingExit(k) \/ apiSetLandingExitExpires(k)
  \/ ListExpired \/ DisableExpired
  \/ \E a \in Admins :
       \/ \E e \in Entries : apiCreateNodeRepoEntry(a, e) \/ apiDeleteNodeRepoEntry(a, e)
       \/ ReadEntry(a) \/ ReadAssigned(a) \/ Editing(a)
  \/ \E n \in Nodes : dispatchToNode(n)

Spec == Init /\ [][Next]_vars

\* Goroutines run on, the enforcers' tickers fire, pushes are delivered.
Fairness ==
  /\ \A n \in Nodes : WF_vars(dispatchToNode(n))
  /\ \A u \in Users : WF_vars(enforceExitQuota(u))
  /\ WF_vars(ListExpired) /\ WF_vars(DisableExpired)

FairSpec == Spec /\ Fairness

-----------------------------------------------------------------------------
TypeOK ==
  /\ DOMAIN rows \subseteq Keys /\ \A k \in DOMAIN rows : rows[k] \in Row
  /\ target \in [Rules -> Exits] /\ source \in [Users -> Sources]
  /\ served \in [Urls -> SUBSET Exits] /\ DOMAIN cache \subseteq Urls
  /\ \A x \in DOMAIN cache : cache[x] \in [ok : BOOLEAN, exits : SUBSET Exits]
  /\ loader \in [Actors -> Resolution] /\ admin \in [Admins -> Edition]
  /\ live \in [Nodes -> SUBSET (Rules \X Exits)]
  /\ todo \subseteq Nodes /\ owed \subseteq Nodes \X Keys /\ listed \subseteq Keys
  /\ touched \subseteq Users /\ imported \subseteq Keys /\ gone \subseteq Exits
  /\ DOMAIN repo \subseteq Entries /\ \A e \in DOMAIN repo : repo[e] \in Entry
  /\ left \in [Kinds -> Nat]

UsedBy(u) == SumFunctionOnSet([k \in {u} \X Exits |->
                                 IF k \in DOMAIN rows THEN rows[k].used ELSE 0], {u} \X Exits)

Quiet ==
  /\ todo = {} /\ touched = {} /\ listed = {} /\ ExpiredLandingExits = {}
  /\ \A a \in Admins : admin[a].pc = "idle"

\* When nothing is under way, a rule is forwarded unless its exit is used up or
\* has expired, whatever came and went in the source and in whatever order; only
\* an expiry that changed, or was assigned, without a push may be behind
\* (syncLandingExits, enforceExitQuota, landingExpiryEnforcer, the requests on exits).
ExitsPushed ==
  Quiet => \A r \in Rules : \A n \in HopNodes[r] :
    <<n, KeyOf(r)>> \in owed \/ (Excluded(r) <=> <<r, target[r]>> \notin live[n])

\* What a user has used is forgotten when an administrator resets or deletes an
\* exit and at no other time.
UsageKept ==
  \/ \A u \in Users : UsedBy(u)' >= UsedBy(u)
  \/ \E k \in Keys : apiResetLandingExitTraffic(k) \/ apiDeleteLandingExit(k)

\* An exit appears among a user's present ones only if its source, as it is
\* configured at that moment, may name it, or an administrator put it there.
Materialized(rs) == {k \in DOMAIN rs : rs[k].present /\ rs[k].source = "auto"}
OnlyFromSource ==
  \A k \in Materialized(rows') \ DOMAIN rows :
    source[k[1]].sub # "none" \/ k[2] \in source[k[1]].manual

\* An imported exit is found at the endpoint of an entry of the repository, as
\* long as its entry was not deleted.
RepoFollowed ==
  (\A a \in Admins : admin[a].pc = "idle") =>
    \A k \in DOMAIN rows : rows[k].source = "repo" =>
      k[2] \in gone \/ \E e \in DOMAIN repo : repo[e].at = k[2]

\* However sources, the repository and requests change it, a user's list of exits
\* names what its source and the repository have, and keeps what was used
\* (SyncUserLandingExits against a slow resolution, PropagateRepoExitChange,
\* apiUpdateNodeRepoEntry).
RowsFollow == []RepoFollowed /\ [][UsageKept /\ OnlyFromSource]_vars

\* A rule whose exit is used up stops, unless the exit gets room again, is put
\* aside, or the rule is sent elsewhere.
EventuallyStopped ==
  \A r \in Rules : \A n \in HopNodes[r] : \A x \in Exits :
    (target[r] = x /\ UsedUp(<<Owner[r], x>>))
      ~> (~(target[r] = x /\ UsedUp(<<Owner[r], x>>)) \/ <<r, x>> \notin live[n])

=============================================================================
