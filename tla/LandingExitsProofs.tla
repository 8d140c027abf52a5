-------------------------- MODULE LandingExitsProofs --------------------------
(***************************************************************************)
(* LandingExits keeps its types; what the nodes forward follows what the   *)
(* rows of the exits allow; and the rows follow their sources and the      *)
(* repository and keep what was used: for any users, exits, rules, nodes,  *)
(* sources and plans.                                                      *)
(***************************************************************************)
EXTENDS LandingExits, SumTheorems

-----------------------------------------------------------------------------
(* The type invariant                                                      *)

\* What the actions read of the records of resolutions and editions.
LEMMA ResolutionForms ==
  ASSUME NEW x \in Resolution
  PROVE  /\ x.pc = "fetch" => x.user \in Users /\ x.src \in Sources /\ x.src.sub # "none"
         /\ x.pc = "sync" => x.user \in Users /\ x.src \in Sources /\ x.exits \in SUBSET Exits
BY DEF Resolution, Idle

LEMMA EditionForms ==
  ASSUME NEW x \in Edition
  PROVE  /\ x.pc \in {"update", "propagate"} =>
              x.entry \in Entries /\ x.from \in Exits /\ x.to \in Entry
         /\ x.pc \in {"append", "expiries"} => x.user \in Users /\ x.picked \in SUBSET Entry
         /\ x.pc = "update" => [x EXCEPT !.pc = "propagate"] \in Edition
         /\ x.pc = "append" => [x EXCEPT !.pc = "expiries"] \in Edition
         /\ \A p : x.pc = "expiries" => [x EXCEPT !.picked = @ \ {p}] \in Edition
<1>1. CASE x = Idle
  BY <1>1 DEF Idle
<1>2. CASE x \in [pc : {"update", "propagate"}, entry : Entries, from : Exits, to : Entry]
  BY <1>2 DEF Edition
<1>3. CASE x \in [pc : {"append", "expiries"}, user : Users, picked : SUBSET Entry]
  BY <1>3 DEF Edition
<1> QED BY <1>1, <1>2, <1>3 DEF Edition

\* What resolving makes of a source is a resolution again.
LEMMA MakeResolution ==
  ASSUME NEW u \in Users, NEW src \in Sources, src.manual \in SUBSET Exits
  PROVE  /\ Idle \in Resolution
         /\ src.sub # "none" => [pc |-> "fetch", user |-> u, src |-> src] \in Resolution
         /\ \A res \in [ok : BOOLEAN, exits : SUBSET Exits] : Resolved(u, src, res) \in Resolution
<1>1. ASSUME NEW res \in [ok : BOOLEAN, exits : SUBSET Exits]
      PROVE  Resolved(u, src, res) \in Resolution
  <2>1. src.manual \cup res.exits \in SUBSET Exits
    OBVIOUS
  <2>2. [pc |-> "sync", user |-> u, src |-> src, exits |-> src.manual \cup res.exits] \in Resolution
    BY <2>1 DEF Resolution
  <2> QED BY <2>2 DEF Resolved, Resolution
<1> QED BY <1>1 DEF Resolution

LEMMA SourceForms ==
  ASSUME NEW src \in Sources
  PROVE  src.manual \in SUBSET Exits /\ (src.sub # "none" => src.sub \in Urls)
BY ExitsAssumption

LEMMA MakeResolving ==
  ASSUME TypeOK, NEW u \in Users, NEW src \in Sources, NEW force \in BOOLEAN
  PROVE  Resolving(u, src, force) \in Resolution
<1>1. Answered({}) \in [ok : BOOLEAN, exits : SUBSET Exits]
  BY DEF Answered
<1>2. src.sub \in DOMAIN cache => cache[src.sub] \in [ok : BOOLEAN, exits : SUBSET Exits]
  BY DEF TypeOK
<1> QED BY <1>1, <1>2, MakeResolution, SourceForms DEF Resolving

\* The rows that requests and synchronizations make.
LEMMA RowForms ==
  ASSUME NEW row \in Row
  PROVE  /\ row.present \in BOOLEAN /\ row.quota \in Quotas /\ row.used \in Nat
         /\ row.due \in Dues /\ row.source \in {"auto", "repo"}
         /\ row.quota \in Nat
BY ExitsAssumption DEF Row

LEMMA MakeRow ==
  ASSUME NEW present \in BOOLEAN, NEW quota \in Quotas, NEW used \in Nat, NEW due \in Dues,
         NEW src \in {"auto", "repo"}
  PROVE  [present |-> present, quota |-> quota, used |-> used, due |-> due, source |-> src] \in Row
BY DEF Row

LEMMA EditRow ==
  ASSUME NEW row \in Row, NEW b \in BOOLEAN, NEW q \in Quotas, NEW n \in Nat, NEW due \in Dues,
         NEW src \in {"auto", "repo"}
  PROVE  /\ [row EXCEPT !.present = b] \in Row
         /\ [row EXCEPT !.quota = q] \in Row
         /\ [row EXCEPT !.used = n] \in Row
         /\ [row EXCEPT !.due = due] \in Row
         /\ [row EXCEPT !.due = due, !.present = b] \in Row
         /\ [row EXCEPT !.present = b, !.source = src] \in Row
BY DEF Row

\* The part of the type invariant that is about the rows.
RowsOK == DOMAIN rows \subseteq Keys /\ \A k \in DOMAIN rows : rows[k] \in Row

\* Pushes go to nodes, and only nodes and keys are marked.
LEMMA PushNodes ==
  ASSUME TypeOK
  PROVE  /\ \A k : NodesForUserExit(k) \subseteq Nodes
         /\ \A r \in Rules : HopNodes[r] \subseteq Nodes
<1>1. \A r \in Rules : HopNodes[r] \subseteq Nodes
  BY ExitsAssumption
<1> QED BY <1>1 DEF NodesForUserExit

LEMMA PushTypes ==
  ASSUME TypeOK, NEW ks
  PROVE  /\ Redispatch(ks) => todo' \subseteq Nodes
         /\ ks \subseteq Keys /\ Behind(ks) => owed' \subseteq Nodes \X Keys
         /\ RowsOK' /\ Unpushed => owed' \subseteq Nodes \X Keys
<1>0. todo \subseteq Nodes /\ owed \subseteq Nodes \X Keys
  BY DEF TypeOK
<1>1. Redispatch(ks) => todo' \subseteq Nodes
  BY <1>0, PushNodes DEF Redispatch
<1>2. \A K : K \subseteq Keys /\ Behind(K) => owed' \subseteq Nodes \X Keys
  BY <1>0, PushNodes DEF Behind
<1>3. RowsOK' => Lapsed \subseteq Keys
  BY DEF Lapsed, PastDue, RowsOK, TypeOK
<1> QED BY <1>1, <1>2, <1>3 DEF Unpushed

\* A request that replaces one row.
LEMMA OneRow ==
  ASSUME TypeOK, NEW k \in DOMAIN rows, NEW row \in Row, rows' = [rows EXCEPT ![k] = row]
  PROVE  RowsOK'
BY DEF TypeOK, RowsOK

\* A request takes one from its plan.
LEMMA RequestTypes ==
  ASSUME TypeOK, NEW kind, Request(kind)
  PROVE  left' \in [Kinds -> Nat]
<1>1. left \in [Kinds -> Nat] /\ left' = [left EXCEPT ![kind] = left[kind] - 1] /\ left[kind] > 0
  BY DEF TypeOK, Request
<1>2. kind \in Kinds => left[kind] - 1 \in Nat
  BY <1>1
<1> QED BY <1>1, <1>2

\* The steps of a resolution.
LEMMA SyncTypes ==
  ASSUME TypeOK, NEW t \in Actors, Resolve(t)
  PROVE  TypeOK'
<1>0. loader[t] \in Resolution
  BY DEF TypeOK
<1>1. CASE Answer(t)
  <2>1. PICK res \in {Answered(served[loader[t].src.sub]), Failed} :
          /\ cache' = With(cache, loader[t].src.sub, res)
          /\ loader' = [loader EXCEPT ![t] = Resolved(@.user, @.src, res)]
    BY <1>1 DEF Answer
  <2>2. loader[t].user \in Users /\ loader[t].src \in Sources
    BY <1>0, <1>1, ResolutionForms DEF Answer
  <2>3. loader[t].src.sub \in Urls
    BY <1>0, <1>1, ResolutionForms, SourceForms DEF Answer
  <2>4. res \in [ok : BOOLEAN, exits : SUBSET Exits]
    <3>1. served[loader[t].src.sub] \in SUBSET Exits
      BY <2>3 DEF TypeOK
    <3>2. \A X \in SUBSET Exits : Answered(X) \in [ok : BOOLEAN, exits : SUBSET Exits]
      BY DEF Answered
    <3>3. Failed \in [ok : BOOLEAN, exits : SUBSET Exits]
      BY DEF Failed
    <3> QED BY <2>1, <3>1, <3>2, <3>3
  <2>5. loader' \in [Actors -> Resolution]
    <3>1. Resolved(loader[t].user, loader[t].src, res) \in Resolution
      BY <2>2, <2>4, MakeResolution, SourceForms
    <3> QED BY <2>1, <3>1 DEF TypeOK
  <2>6. DOMAIN cache' \subseteq Urls
        /\ \A x \in DOMAIN cache' : cache'[x] \in [ok : BOOLEAN, exits : SUBSET Exits]
    BY <2>1, <2>3, <2>4 DEF With, TypeOK
  <2> QED BY <1>1, <2>5, <2>6 DEF Answer, TypeOK, exitVars, pushVars, repoVars
<1>2. CASE Sync(t)
  <2>1. PICK u : u = loader[t].user
    OBVIOUS
  <2>2. PICK X : X = loader[t].exits
    OBVIOUS
  <2>3. u \in Users /\ X \subseteq Exits
    BY <1>0, <1>2, <2>1, <2>2, ResolutionForms DEF Sync
  <2>4. RowsOK'
    <3>1. CASE rows' = Synced(u, X)
      <4>1. DOMAIN rows' = (DOMAIN rows \cup {<<u, x>> : x \in X}) \ Swept(u, X)
        BY <3>1 DEF Synced
      <4>2. DOMAIN rows' \subseteq Keys
        BY <2>3, <4>1 DEF Keys, TypeOK
      <4>3. ASSUME NEW k \in DOMAIN rows' PROVE rows'[k] \in Row
        <5>1. rows'[k] = IF k[1] = u /\ k[2] \in X THEN Upsert(k, "auto")
                         ELSE IF k \in Dropped(u, X) THEN [rows[k] EXCEPT !.present = FALSE]
                         ELSE rows[k]
          BY <3>1, <4>1, <4>3 DEF Synced
        <5>2. Upsert(k, "auto") \in Row
          <6>1. 0 \in Quotas
            BY ExitsAssumption
          <6>2. NewRow("auto") \in Row
            BY <6>1, MakeRow DEF NewRow, Dues
          <6> QED BY <6>2, EditRow, <6>1 DEF Upsert, TypeOK, Dues
        <5>3. k \in DOMAIN rows \/ (k[1] = u /\ k[2] \in X)
          BY <4>1, <4>3
        <5>4. k \in DOMAIN rows => rows[k] \in Row /\ [rows[k] EXCEPT !.present = FALSE] \in Row
          BY EditRow, ExitsAssumption DEF TypeOK, Dues
        <5> QED BY <5>1, <5>2, <5>3, <5>4 DEF Dropped
      <4> QED BY <4>2, <4>3 DEF RowsOK
    <3>2. CASE UNCHANGED rows
      BY <3>2 DEF RowsOK, TypeOK
    <3> QED BY <1>2, <2>1, <2>2, <3>1, <3>2 DEF Sync
  <2>5. todo' \subseteq Nodes /\ owed' \subseteq Nodes \X Keys
    <3>1. todo' = todo \/ Redispatch(Flipped(u, X))
      BY <1>2, <2>1, <2>2 DEF Sync
    <3>2. todo' \subseteq Nodes
      BY <3>1, PushTypes DEF TypeOK
    <3> QED BY <1>2, <2>4, <3>2, PushTypes DEF Sync
  <2>6. loader' \in [Actors -> Resolution]
    BY <1>2 DEF Sync, TypeOK, Resolution
  <2> QED BY <1>2, <2>4, <2>5, <2>6 DEF Sync, RowsOK, TypeOK, repoVars
<1> QED BY <1>1, <1>2 DEF Resolve

\* Sources, the cache and the starts of resolutions.
LEMMA SourceTypes ==
  ASSUME TypeOK,
         \/ \E t \in Loaders, u \in Users : Load(t, u)
         \/ \E x \in Urls : CacheExpires(x) \/ Serve(x)
         \/ \E a \in Admins, u \in Users : apiSetUserLanding(a, u)
  PROVE  TypeOK'
<1>1. ASSUME NEW t \in Loaders, NEW u \in Users, Load(t, u) PROVE TypeOK'
  <2>1. PICK force \in BOOLEAN :
          loader' = [loader EXCEPT ![t] = Resolving(u, source[u], force)]
    BY <1>1 DEF Load
  <2>2. Resolving(u, source[u], force) \in Resolution
    BY MakeResolving DEF TypeOK
  <2>3. loader' \in [Actors -> Resolution]
    BY <2>1, <2>2 DEF TypeOK
  <2> QED BY <1>1, <2>3 DEF Load, TypeOK, exitVars, pushVars, repoVars
<1>2. ASSUME NEW x \in Urls, CacheExpires(x) PROVE TypeOK'
  BY <1>2 DEF CacheExpires, Restrict, TypeOK, exitVars, pushVars, repoVars
<1>3. ASSUME NEW x \in Urls, Serve(x) PROVE TypeOK'
  <2>1. left' \in [Kinds -> Nat]
    BY <1>3, RequestTypes DEF Serve
  <2>2. served' \in [Urls -> SUBSET Exits]
    BY <1>3 DEF Serve, TypeOK
  <2> QED BY <1>3, <2>1, <2>2 DEF Serve, TypeOK, exitVars, pushVars, repoVars
<1>4. ASSUME NEW a \in Admins, NEW u \in Users, apiSetUserLanding(a, u) PROVE TypeOK'
  <2>1. PICK src \in Sources : /\ source' = [source EXCEPT ![u] = src]
                               /\ loader' = [loader EXCEPT ![a] = Resolving(u, src, TRUE)]
    BY <1>4 DEF apiSetUserLanding
  <2>2. Resolving(u, src, TRUE) \in Resolution
    BY MakeResolving
  <2>3. loader' \in [Actors -> Resolution] /\ source' \in [Users -> Sources]
    BY <2>1, <2>2 DEF TypeOK
  <2>4. left' \in [Kinds -> Nat]
    BY <1>4, RequestTypes DEF apiSetUserLanding
  <2> QED BY <1>4, <2>3, <2>4 DEF apiSetUserLanding, TypeOK, exitVars, pushVars, repoVars
<1> QED BY <1>1, <1>2, <1>3, <1>4

\* Steps that change rows, and push or mark what they change.
LEMMA RowStep ==
  ASSUME TypeOK, RowsOK', NEW ks,
         todo' = todo \/ Redispatch(ks), owed' = owed \/ Unpushed,
         touched' \subseteq Users, listed' \subseteq Keys, imported' \subseteq Keys,
         left' \in [Kinds -> Nat],
         UNCHANGED <<target, sourceVars, live, repo, gone, admin>>
  PROVE  TypeOK'
<1>1. todo' \subseteq Nodes /\ owed' \subseteq Nodes \X Keys
  BY PushTypes DEF TypeOK
<1> QED BY <1>1 DEF TypeOK, RowsOK, sourceVars

\* Metering, enforcement, expiries, requests on exits, and pushes.
LEMMA ExitTypes ==
  ASSUME TypeOK,
         \/ \E r \in Rules : Bill(r)
         \/ \E u \in Users : enforceExitQuota(u)
         \/ \E k \in Keys :
              \/ FallDue(k) \/ apiSetLandingExitQuota(k) \/ apiResetLandingExitTraffic(k)
              \/ apiDeleteLandingExit(k) \/ apiSetLandingExitExpires(k)
         \/ ListExpired \/ DisableExpired
         \/ \E n \in Nodes : dispatchToNode(n)
  PROVE  TypeOK'
<1>0. /\ touched \subseteq Users /\ listed \subseteq Keys /\ imported \subseteq Keys
      /\ left \in [Kinds -> Nat] /\ RowsOK
      /\ \A r \in Rules : Owner[r] \in Users
  BY ExitsAssumption DEF TypeOK, RowsOK
<1>d. \A b \in BOOLEAN, q \in Quotas, n \in Nat, due \in Dues : \A row \in Row :
        /\ [row EXCEPT !.present = b] \in Row /\ [row EXCEPT !.quota = q] \in Row
        /\ [row EXCEPT !.used = n] \in Row /\ [row EXCEPT !.due = due] \in Row
        /\ [row EXCEPT !.due = due, !.present = b] \in Row
  BY EditRow
<1>1. ASSUME NEW r \in Rules, Bill(r) PROVE TypeOK'
  <2>1. KeyOf(r) \in DOMAIN rows /\ rows[KeyOf(r)] \in Row
    BY <1>1 DEF Bill, TypeOK
  <2>2. [rows[KeyOf(r)] EXCEPT !.used = @ + 1] \in Row
    BY <2>1 DEF Row
  <2>3. rows' = [rows EXCEPT ![KeyOf(r)] = [rows[KeyOf(r)] EXCEPT !.used = @ + 1]]
    BY <1>1 DEF Bill
  <2>4. RowsOK'
    BY <2>1, <2>2, <2>3, OneRow
  <2>5. touched' \subseteq Users
    BY <1>0, <1>1 DEF Bill
  <2> QED BY <1>0, <1>1, <2>4, <2>5, RowStep DEF Bill, pushVars, repoVars
<1>2. ASSUME NEW u \in Users, enforceExitQuota(u) PROVE TypeOK'
  <2>1. RowsOK' /\ UNCHANGED rows
    BY <1>0, <1>2 DEF enforceExitQuota, exitVars, RowsOK
  <2> QED BY <1>0, <1>2, <2>1, RowStep DEF enforceExitQuota, exitVars, repoVars
<1>3. ASSUME NEW k \in Keys, FallDue(k) PROVE TypeOK'
  <2>1. [rows[k] EXCEPT !.due = "past"] \in Row
    BY <1>3, EditRow, RowForms DEF FallDue, TypeOK, Dues
  <2>2. RowsOK'
    BY <1>3, <2>1, OneRow DEF FallDue
  <2> QED BY <1>0, <1>3, <2>2, RowStep DEF FallDue, repoVars
<1>4. ASSUME NEW k \in Keys, apiSetLandingExitQuota(k) PROVE TypeOK'
  <2>1. PICK q \in Quotas : rows' = [rows EXCEPT ![k].quota = q]
    BY <1>4 DEF apiSetLandingExitQuota
  <2>2. k \in DOMAIN rows /\ [rows[k] EXCEPT !.quota = q] \in Row
    BY <1>4 DEF apiSetLandingExitQuota, Row, TypeOK
  <2>3. RowsOK'
    BY <2>1, <2>2, OneRow
  <2>4. left' \in [Kinds -> Nat]
    BY <1>4, RequestTypes DEF apiSetLandingExitQuota
  <2> QED BY <1>0, <1>4, <2>3, <2>4, RowStep DEF apiSetLandingExitQuota, repoVars
<1>5. ASSUME NEW k \in Keys, apiResetLandingExitTraffic(k) PROVE TypeOK'
  <2>1. k \in DOMAIN rows /\ [rows[k] EXCEPT !.used = 0] \in Row
    BY <1>5 DEF apiResetLandingExitTraffic, Row, TypeOK
  <2>2. RowsOK'
    BY <1>5, <2>1, OneRow DEF apiResetLandingExitTraffic
  <2>3. left' \in [Kinds -> Nat]
    BY <1>5, RequestTypes DEF apiResetLandingExitTraffic
  <2> QED BY <1>0, <1>5, <2>2, <2>3, RowStep DEF apiResetLandingExitTraffic, repoVars
<1>6. ASSUME NEW k \in Keys, apiDeleteLandingExit(k) PROVE TypeOK'
  <2>1. RowsOK'
    BY <1>0, <1>6 DEF apiDeleteLandingExit, Restrict, RowsOK
  <2>2. left' \in [Kinds -> Nat]
    BY <1>6, RequestTypes DEF apiDeleteLandingExit
  <2> QED BY <1>0, <1>6, <2>1, <2>2, RowStep DEF apiDeleteLandingExit
<1>7. ASSUME NEW k \in Keys, apiSetLandingExitExpires(k) PROVE TypeOK'
  <2>1. PICK due \in Dues : SetExpires(k, due)
    BY <1>7 DEF apiSetLandingExitExpires
  <2>2. k \in DOMAIN rows /\ [rows[k] EXCEPT !.due = due, !.present = due # "past"] \in Row
    BY <1>7 DEF apiSetLandingExitExpires, Row, TypeOK
  <2>3. RowsOK'
    BY <2>1, <2>2, OneRow DEF SetExpires
  <2>4. left' \in [Kinds -> Nat]
    BY <1>7, RequestTypes DEF apiSetLandingExitExpires
  <2> QED BY <1>0, <1>7, <2>3, <2>4, RowStep DEF apiSetLandingExitExpires, repoVars
<1>8. CASE ListExpired
  <2>1. listed' \subseteq Keys
    BY <1>8 DEF ListExpired, ExpiredLandingExits, TypeOK
  <2> QED BY <1>8, <2>1 DEF ListExpired, TypeOK, exitVars, sourceVars, pushVars, repoVars
<1>9. CASE DisableExpired
  <2>1. PICK k \in listed :
          /\ listed' = listed \ {k}
          /\ rows' = IF k \in DOMAIN rows THEN [rows EXCEPT ![k].present = FALSE] ELSE rows
          /\ Redispatch({k})
    BY <1>9 DEF DisableExpired
  <2>2. RowsOK'
    <3>1. CASE k \in DOMAIN rows
      <4>1. [rows[k] EXCEPT !.present = FALSE] \in Row
        BY <3>1 DEF Row, TypeOK
      <4> QED BY <2>1, <3>1, <4>1, OneRow
    <3>2. CASE k \notin DOMAIN rows
      BY <1>0, <2>1, <3>2 DEF RowsOK
    <3> QED BY <3>1, <3>2
  <2> QED BY <1>0, <1>9, <2>1, <2>2, RowStep DEF DisableExpired, repoVars
<1>10. ASSUME NEW n \in Nodes, dispatchToNode(n) PROVE TypeOK'
  <2>1. Pushed(n) \in SUBSET (Rules \X Exits)
    BY DEF Pushed, TypeOK
  <2>2. live' \in [Nodes -> SUBSET (Rules \X Exits)]
    BY <1>10, <2>1 DEF dispatchToNode, TypeOK
  <2> QED BY <1>10, <2>2 DEF dispatchToNode, TypeOK, exitVars, sourceVars, repoVars
<1> QED BY <1>1, <1>2, <1>3, <1>4, <1>5, <1>6, <1>7, <1>8, <1>9, <1>10

\* Requests on the repository.
LEMMA RepoTypes ==
  ASSUME TypeOK, NEW a \in Admins,
         \/ \E e \in Entries : apiCreateNodeRepoEntry(a, e) \/ apiDeleteNodeRepoEntry(a, e)
         \/ ReadEntry(a) \/ ReadAssigned(a) \/ Editing(a)
  PROVE  TypeOK'
<1>0. /\ admin[a] \in Edition /\ admin \in [Admins -> Edition]
      /\ DOMAIN repo \subseteq Entries /\ \A e \in DOMAIN repo : repo[e] \in Entry
      /\ imported \subseteq Keys /\ gone \subseteq Exits /\ RowsOK
      /\ 0 \in Quotas
  BY ExitsAssumption DEF TypeOK, RowsOK
<1>1. ASSUME NEW e \in Entries, apiCreateNodeRepoEntry(a, e) PROVE TypeOK'
  <2>1. PICK x \in Exits, due \in {"never", "later"} :
          repo' = With(repo, e, [at |-> x, due |-> due])
    BY <1>1 DEF apiCreateNodeRepoEntry
  <2>2. [at |-> x, due |-> due] \in Entry
    BY DEF Entry, Dues
  <2>3. DOMAIN repo' \subseteq Entries /\ \A d \in DOMAIN repo' : repo'[d] \in Entry
    BY <1>0, <2>1, <2>2 DEF With
  <2>4. left' \in [Kinds -> Nat]
    BY <1>1, RequestTypes DEF apiCreateNodeRepoEntry
  <2> QED BY <1>1, <2>3, <2>4
          DEF apiCreateNodeRepoEntry, TypeOK, exitVars, sourceVars, pushVars
<1>2. ASSUME NEW e \in Entries, apiDeleteNodeRepoEntry(a, e) PROVE TypeOK'
  <2>1. DOMAIN repo' \subseteq Entries /\ \A d \in DOMAIN repo' : repo'[d] \in Entry
    BY <1>0, <1>2 DEF apiDeleteNodeRepoEntry, Restrict
  <2>2. gone' \subseteq Exits
    BY <1>0, <1>2 DEF apiDeleteNodeRepoEntry, Entry
  <2>3. left' \in [Kinds -> Nat]
    BY <1>2, RequestTypes DEF apiDeleteNodeRepoEntry
  <2> QED BY <1>2, <2>1, <2>2, <2>3
          DEF apiDeleteNodeRepoEntry, TypeOK, exitVars, sourceVars, pushVars
<1>3. CASE ReadEntry(a)
  <2>1. PICK e \in DOMAIN repo, x \in Exits, due \in Dues :
          admin' = [admin EXCEPT ![a] =
            [pc |-> "update", entry |-> e, from |-> repo[e].at, to |-> [at |-> x, due |-> due]]]
    BY <1>3 DEF ReadEntry
  <2>2. repo[e].at \in Exits /\ [at |-> x, due |-> due] \in Entry
    BY <1>0 DEF Entry
  <2>3. [pc |-> "update", entry |-> e, from |-> repo[e].at, to |-> [at |-> x, due |-> due]] \in Edition
    BY <1>0, <2>2 DEF Edition
  <2>4. admin' \in [Admins -> Edition]
    BY <1>0, <2>1, <2>3
  <2>5. left' \in [Kinds -> Nat]
    BY <1>3, RequestTypes DEF ReadEntry
  <2> QED BY <1>3, <2>4, <2>5 DEF ReadEntry, TypeOK, exitVars, sourceVars, pushVars
<1>4. CASE ReadAssigned(a)
  <2>1. PICK E \in (SUBSET DOMAIN repo) \ {{}}, u \in Users :
          admin' = [admin EXCEPT ![a] =
            [pc |-> "append", user |-> u, picked |-> {repo[e] : e \in E}]]
    BY <1>4 DEF ReadAssigned
  <2>2. {repo[e] : e \in E} \in SUBSET Entry
    BY <1>0
  <2>3. [pc |-> "append", user |-> u, picked |-> {repo[e] : e \in E}] \in Edition
    BY <2>2 DEF Edition
  <2>4. admin' \in [Admins -> Edition]
    BY <1>0, <2>1, <2>3
  <2>5. left' \in [Kinds -> Nat]
    BY <1>4, RequestTypes DEF ReadAssigned
  <2> QED BY <1>4, <2>4, <2>5 DEF ReadAssigned, TypeOK, exitVars, sourceVars, pushVars
<1>5. CASE UpdateEntry(a)
  <2>1. admin[a].entry \in Entries /\ admin[a].to \in Entry
        /\ [admin[a] EXCEPT !.pc = "propagate"] \in Edition
    BY <1>0, <1>5, EditionForms DEF UpdateEntry
  <2>2. admin' \in [Admins -> Edition]
    BY <1>0, <1>5, <2>1 DEF UpdateEntry
  <2>3. DOMAIN repo' \subseteq Entries /\ \A d \in DOMAIN repo' : repo'[d] \in Entry
    BY <1>0, <1>5, <2>1 DEF UpdateEntry
  <2> QED BY <1>5, <2>2, <2>3 DEF UpdateEntry, TypeOK, exitVars, sourceVars, pushVars
<1>6. CASE Propagate(a)
  <2>1. PICK old : old = admin[a].from
    OBVIOUS
  <2>2. PICK new, due : new = admin[a].to.at /\ due = admin[a].to.due
    OBVIOUS
  <2>3. PICK us : us = {u \in Users : <<u, old>> \in DOMAIN rows /\ rows[<<u, old>>].source = "repo"}
    OBVIOUS
  <2>4. old \in Exits /\ new \in Exits /\ due \in Dues
    BY <1>0, <1>6, <2>1, <2>2, EditionForms DEF Propagate, Entry
  <2>5. admin' \in [Admins -> Edition]
    BY <1>0, <1>6 DEF Propagate, Edition
  <2>6. RowsOK' /\ imported' \subseteq Keys /\ todo' \subseteq Nodes /\ target' \in [Rules -> Exits]
    <3>1. CASE old = new
      <4>1. /\ rows' = [k \in DOMAIN rows |->
                          IF k[1] \in us /\ k[2] = old THEN [rows[k] EXCEPT !.due = due] ELSE rows[k]]
            /\ UNCHANGED <<target, todo, imported>>
        BY <1>6, <2>1, <2>2, <2>3, <3>1 DEF Propagate
      <4>2. RowsOK'
        <5>1. ASSUME NEW k \in DOMAIN rows PROVE rows'[k] \in Row
          <6>1. rows[k] \in Row /\ [rows[k] EXCEPT !.due = due] \in Row
            BY <1>0, <2>4, EditRow DEF RowsOK
          <6> QED BY <4>1, <6>1
        <5> QED BY <1>0, <4>1, <5>1 DEF RowsOK
      <4> QED BY <4>1, <4>2 DEF TypeOK
    <3>2. CASE old # new
      <4>1. /\ rows' = [k \in (DOMAIN rows \cup us \X {new}) \ (us \X {old}) |->
                          IF k[1] \in us /\ k[2] = new THEN Merged(k[1], old, new, due) ELSE rows[k]]
            /\ target' = [r \in Rules |-> IF target[r] = old THEN new ELSE target[r]]
            /\ todo' = todo \cup UNION {HopNodes[r] : r \in {q \in Rules : target'[q] = new}}
            /\ imported' = (imported \ (us \X {old})) \cup us \X {new}
        BY <1>6, <2>1, <2>2, <2>3, <3>2 DEF Propagate
      <4>2. us \X {new} \subseteq Keys
        BY <2>3, <2>4 DEF Keys
      <4>3. ASSUME NEW u \in us PROVE Merged(u, old, new, due) \in Row
        <5>1. <<u, old>> \in DOMAIN rows /\ rows[<<u, old>>] \in Row
          BY <1>0, <2>3 DEF RowsOK
        <5>2. CASE <<u, new>> \notin DOMAIN rows
          BY <2>4, <5>1, <5>2 DEF Merged, Row
        <5>3. CASE <<u, new>> \in DOMAIN rows
          <6>1. rows[<<u, new>>] \in Row
            BY <1>0, <5>3 DEF RowsOK
          <6>2. /\ (rows[<<u, old>>].present \/ rows[<<u, new>>].present) \in BOOLEAN
                /\ rows[<<u, old>>].used + rows[<<u, new>>].used \in Nat
                /\ rows[<<u, old>>].quota \in Quotas /\ rows[<<u, new>>].quota \in Quotas
            BY <5>1, <6>1, RowForms
          <6> QED BY <2>4, <5>3, <6>2, MakeRow DEF Merged
        <5> QED BY <5>2, <5>3
      <4>4. RowsOK'
        <5>1. DOMAIN rows' \subseteq Keys
          BY <1>0, <4>1, <4>2 DEF RowsOK
        <5>2. ASSUME NEW k \in DOMAIN rows' PROVE rows'[k] \in Row
          <6>1. rows'[k] = IF k[1] \in us /\ k[2] = new THEN Merged(k[1], old, new, due) ELSE rows[k]
            BY <4>1, <5>2
          <6>2. k \in DOMAIN rows \/ (k[1] \in us /\ k[2] = new)
            BY <4>1, <5>2
          <6> QED BY <1>0, <4>3, <6>1, <6>2 DEF RowsOK
        <5> QED BY <5>1, <5>2 DEF RowsOK
      <4>5. todo' \subseteq Nodes
        BY <4>1, PushNodes DEF TypeOK
      <4>6. target' \in [Rules -> Exits]
        BY <2>4, <4>1 DEF TypeOK
      <4> QED BY <1>0, <4>1, <4>2, <4>4, <4>5, <4>6
    <3> QED BY <3>1, <3>2
  <2>7. owed' \subseteq Nodes \X Keys
    BY <1>6, <2>6, PushTypes DEF Propagate
  <2> QED BY <1>6, <2>5, <2>6, <2>7 DEF Propagate, TypeOK, RowsOK, sourceVars
<1>7. CASE AppendExits(a)
  <2>1. PICK ks : ks = {<<admin[a].user, p.at>> : p \in admin[a].picked}
    OBVIOUS
  <2>2. admin[a].user \in Users /\ admin[a].picked \in SUBSET Entry
        /\ [admin[a] EXCEPT !.pc = "expiries"] \in Edition
    BY <1>0, <1>7, EditionForms DEF AppendExits
  <2>3. ks \subseteq Keys
    BY <2>1, <2>2 DEF Keys, Entry
  <2>4. /\ rows' = [k \in DOMAIN rows \cup ks |-> IF k \in ks THEN Upsert(k, "repo") ELSE rows[k]]
        /\ Redispatch({k \in ks \cap DOMAIN rows : ~rows[k].present /\ Over(rows[k])})
        /\ imported' = imported \cup ks
        /\ admin' = [admin EXCEPT ![a].pc = "expiries"]
    BY <1>7, <2>1 DEF AppendExits
  <2>5. ASSUME NEW k PROVE Upsert(k, "repo") \in Row
    <3>1. NewRow("repo") \in Row
      BY <1>0, MakeRow DEF NewRow, Dues
    <3> QED BY <1>0, <3>1, EditRow DEF Upsert, RowsOK, Dues
  <2>6. RowsOK'
    BY <1>0, <2>3, <2>4, <2>5 DEF RowsOK
  <2>7. admin' \in [Admins -> Edition]
    BY <1>0, <2>2, <2>4
  <2>8. todo' \subseteq Nodes /\ imported' \subseteq Keys
    BY <1>0, <2>3, <2>4, PushTypes
  <2> QED BY <1>7, <2>6, <2>7, <2>8 DEF AppendExits, TypeOK, RowsOK, sourceVars
<1>8. CASE AssignExpiry(a)
  <2>1. admin[a].user \in Users /\ admin[a].picked \in SUBSET Entry
        /\ \A p : [admin[a] EXCEPT !.picked = @ \ {p}] \in Edition
    BY <1>0, <1>8, EditionForms DEF AssignExpiry
  <2>2. \/ admin' = [admin EXCEPT ![a] = Idle] /\ rows' = rows
        \/ \E p \in admin[a].picked :
             /\ admin' = [admin EXCEPT ![a].picked = @ \ {p}]
             /\ \/ rows' = rows
                \/ <<admin[a].user, p.at>> \in DOMAIN rows /\ SetExpires(<<admin[a].user, p.at>>, p.due)
    BY <1>8 DEF AssignExpiry
  <2>3. admin' \in [Admins -> Edition]
    <3>1. Idle \in Edition
      BY DEF Edition
    <3> QED BY <1>0, <2>1, <2>2, <3>1
  <2>4. RowsOK'
    <3>1. CASE rows' = rows
      BY <1>0, <3>1 DEF RowsOK
    <3>2. ASSUME NEW k \in DOMAIN rows, NEW p \in Entry, SetExpires(k, p.due) PROVE RowsOK'
      <4>1. [rows[k] EXCEPT !.due = p.due, !.present = p.due # "past"] \in Row
        BY <1>0 DEF RowsOK, Row, Entry
      <4> QED BY <3>2, <4>1, OneRow DEF SetExpires
    <3> QED BY <2>1, <2>2, <3>1, <3>2
  <2>5. owed' \subseteq Nodes \X Keys
    <3>1. Lapsed \cup {k \in Keys : UsedUp(k) # UsedUp(k)'} \subseteq Keys
      BY <1>0, <2>4 DEF Lapsed, PastDue, RowsOK
    <3> QED BY <1>8, <3>1, PushTypes DEF AssignExpiry
  <2> QED BY <1>8, <2>3, <2>4, <2>5 DEF AssignExpiry, TypeOK, RowsOK, sourceVars
<1> QED BY <1>1, <1>2, <1>3, <1>4, <1>5, <1>6, <1>7, <1>8 DEF Editing

\* Every variable keeps its type, the rows, what resolutions and requests under
\* way have read, and the entries of the repository included.
THEOREM TypeCorrect == Spec => []TypeOK
<1>1. Init => TypeOK
  <2> SUFFICES ASSUME Init PROVE TypeOK
    OBVIOUS
  <2>1. live \in [Nodes -> SUBSET (Rules \X Exits)]
    BY ExitsAssumption DEF Init
  <2>2. PICK E \in SUBSET Entries : repo \in [E -> [at : Exits, due : {"later"}]]
    BY DEF Init
  <2>3. DOMAIN repo \subseteq Entries /\ \A e \in DOMAIN repo : repo[e] \in Entry
    BY <2>2 DEF Entry, Dues
  <2>4. loader \in [Actors -> Resolution] /\ admin \in [Admins -> Edition]
    BY DEF Init, Resolution, Edition
  <2>5. DOMAIN rows = {} /\ DOMAIN cache = {}
    BY DEF Init
  <2> QED BY <2>1, <2>3, <2>4, <2>5, ExitsAssumption DEF Init, TypeOK
<1>2. TypeOK /\ [Next]_vars => TypeOK'
  <2>1. TypeOK /\ UNCHANGED vars => TypeOK'
    BY DEF TypeOK, vars, exitVars, sourceVars, pushVars, repoVars
  <2>2. TypeOK /\ Next => TypeOK'
    BY SourceTypes, SyncTypes, ExitTypes, RepoTypes DEF Next
  <2> QED BY <2>1, <2>2
<1> QED BY <1>1, <1>2, PTL DEF Spec

-----------------------------------------------------------------------------
(* What the nodes forward follows the rows                                 *)

\* A rule that a node forwards although its exit is used up, or the other way
\* round, has that node on a push's way, or the expiry is owed there, or the exit
\* filled up and its owner's quotas are to be enforced.
Filling(r) == Owner[r] \in touched /\ UsedUp(KeyOf(r))
Follows(n, r) ==
  \/ n \in todo \/ <<n, KeyOf(r)>> \in owed \/ Filling(r)
  \/ Excluded(r) <=> <<r, target[r]>> \notin live[n]
ExitsInv == \A r \in Rules : \A n \in HopNodes[r] : Follows(n, r)

\* A step that neither begins nor ceases to stop the rules of an exit.
Steady(k) == (UsedUp(k)' <=> UsedUp(k)) /\ (k \in PastDue' <=> k \in PastDue)

\* A step is harmless where it is steady, or pushes, or leaves a mark.
LEMMA StepKept ==
  ASSUME TypeOK, ExitsInv, UNCHANGED <<target, live>>,
         todo \subseteq todo', owed \subseteq owed', touched \subseteq touched',
         \A k \in Keys : \/ Steady(k) \/ NodesForUserExit(k) \subseteq todo'
                         \/ NodesForUserExit(k) \X {k} \subseteq owed'
  PROVE  ExitsInv'
<1> SUFFICES ASSUME NEW r \in Rules, NEW n \in HopNodes[r] PROVE Follows(n, r)'
  BY DEF ExitsInv
<1>1. PICK k : k = KeyOf(r)
  OBVIOUS
<1>2. KeyOf(r)' = k
  BY <1>1 DEF KeyOf
<1>3. k \in Keys
  BY <1>1, ExitsAssumption DEF KeyOf, Keys, TypeOK
<1>4. n \in NodesForUserExit(k)
  BY <1>1 DEF NodesForUserExit
<1>5. CASE Steady(k)
  <2>1. UsedUp(KeyOf(r))' <=> UsedUp(k)
    BY <1>2, <1>5 DEF Steady, UsedUp
  <2>2. Excluded(r)' <=> Excluded(r)
    BY <1>1, <1>2, <1>5, <2>1 DEF Steady, Excluded
  <2>3. Follows(n, r)
    BY DEF ExitsInv
  <2> QED BY <1>1, <1>2, <2>1, <2>2, <2>3 DEF Follows, Filling
<1> QED BY <1>2, <1>3, <1>4, <1>5 DEF Follows

\* The same, for the steps that mark what expired and nothing else.
LEMMA RowsKept ==
  ASSUME TypeOK, ExitsInv, UNCHANGED <<target, live>>,
         todo \subseteq todo', touched \subseteq touched',
         Unpushed \/ (owed' = owed /\ PastDue' = PastDue),
         \A k \in Keys : (UsedUp(k)' <=> UsedUp(k)) \/ NodesForUserExit(k) \subseteq todo'
  PROVE  ExitsInv'
<1>1. owed \subseteq owed'
  BY DEF Unpushed, Behind
<1>2. ASSUME NEW k \in Keys
      PROVE  (k \in PastDue' <=> k \in PastDue) \/ NodesForUserExit(k) \X {k} \subseteq owed'
  BY DEF Unpushed, Behind, Lapsed
<1> QED BY <1>1, <1>2, StepKept DEF Steady

\* Of the keys of the exits, a request on one of them disturbs no other.
LEMMA OneRowKept ==
  ASSUME TypeOK, NEW k, NEW j, j # k,
         DOMAIN rows' \subseteq DOMAIN rows, DOMAIN rows \subseteq DOMAIN rows' \cup {k},
         \A i \in DOMAIN rows' : i # k => rows'[i] = rows[i]
  PROVE  (UsedUp(j)' <=> UsedUp(j)) /\ (j \in PastDue' <=> j \in PastDue)
BY DEF UsedUp, PastDue

\* What Redispatch pushes.
LEMMA Pushing ==
  ASSUME NEW ks, Redispatch(ks)
  PROVE  todo \subseteq todo' /\ \A k \in ks : NodesForUserExit(k) \subseteq todo'
BY DEF Redispatch

\* A step away from rows and pushes.
LEMMA IdleKept ==
  ASSUME ExitsInv, UNCHANGED <<exitVars, pushVars, touched>>
  PROVE  ExitsInv'
BY DEF ExitsInv, Follows, Filling, Excluded, UsedUp, PastDue, KeyOf, exitVars, pushVars

\* The steps one by one. A synchronization pushes what it flips.
LEMMA SyncKept ==
  ASSUME TypeOK, ExitsInv, NEW t \in Actors, Sync(t)
  PROVE  ExitsInv'
<1>1. PICK u : u = loader[t].user
  OBVIOUS
<1>2. PICK X : X = loader[t].exits
  OBVIOUS
<1>3. CASE rows' = Synced(u, X) /\ Redispatch(Flipped(u, X))
  <2>1. ASSUME NEW k \in Keys
        PROVE  (UsedUp(k)' <=> UsedUp(k)) \/ NodesForUserExit(k) \subseteq todo'
    <3>1. k \in Flipped(u, X) => NodesForUserExit(k) \subseteq todo'
      BY <1>3, Pushing
    <3>2. k \in DOMAIN rows' <=>
            k \in (DOMAIN rows \cup {<<u, x>> : x \in X}) \ Swept(u, X)
      BY <1>3 DEF Synced
    <3>3. k \in DOMAIN rows' => rows'[k] =
            IF k[1] = u /\ k[2] \in X THEN Upsert(k, "auto")
            ELSE IF k \in Dropped(u, X) THEN [rows[k] EXCEPT !.present = FALSE]
            ELSE rows[k]
      BY <1>3 DEF Synced
    <3>4. k \in DOMAIN rows => rows[k] \in Row
      BY DEF TypeOK
    <3>5. CASE k[1] = u /\ k[2] \in X
      <4>1. k \in DOMAIN rows' /\ rows'[k] = Upsert(k, "auto")
        BY <3>2, <3>3, <3>5 DEF Swept, Dropped, Keys
      <4>2. CASE k \in DOMAIN rows
        <5>1. /\ rows'[k].present = TRUE
              /\ rows'[k].quota = rows[k].quota /\ rows'[k].used = rows[k].used
          BY <3>4, <4>1, <4>2 DEF Upsert, Row
        <5> QED BY <3>1, <3>5, <4>1, <4>2, <5>1 DEF UsedUp, Over, Flipped
      <4>3. CASE k \notin DOMAIN rows
        <5>1. rows'[k].quota = 0
          BY <4>1, <4>3 DEF Upsert, NewRow
        <5> QED BY <4>1, <4>3, <5>1 DEF UsedUp, Over
      <4> QED BY <4>2, <4>3
    <3>6. CASE k \in Dropped(u, X)
      <4>1. k \in DOMAIN rows /\ ~(k[1] = u /\ k[2] \in X)
        BY <3>6 DEF Dropped
      <4>2. ~UsedUp(k)'
        BY <3>3, <3>4, <3>6, <4>1 DEF UsedUp, Row
      <4>3. UsedUp(k) => k \in Flipped(u, X)
        <5>1. UsedUp(k) => k \notin Swept(u, X)
          BY <4>1, <3>4, RowForms DEF UsedUp, Over, Swept, EmptyLedger
        <5> QED BY <3>6, <4>1, <5>1 DEF UsedUp, Flipped, Dropped
      <4> QED BY <3>1, <4>2, <4>3
    <3>7. CASE ~(k[1] = u /\ k[2] \in X) /\ k \notin Dropped(u, X)
      <4>1. k \in DOMAIN rows' <=> k \in DOMAIN rows
        BY <3>2, <3>7 DEF Swept
      <4> QED BY <3>3, <3>7, <4>1 DEF UsedUp
    <3> QED BY <3>5, <3>6, <3>7
  <2>2. todo \subseteq todo'
    BY <1>3, Pushing
  <2> QED BY <2>1, <2>2, RowsKept DEF Sync
<1>4. CASE UNCHANGED <<rows, todo>>
  <2>1. \A k \in Keys : UsedUp(k)' <=> UsedUp(k)
    BY <1>4 DEF UsedUp
  <2> QED BY <1>4, <2>1, RowsKept DEF Sync
<1> QED BY <1>1, <1>2, <1>3, <1>4 DEF Sync

\* A byte that fills an exit has its owner enforced.
LEMMA BillKept ==
  ASSUME TypeOK, ExitsInv, NEW r \in Rules, Bill(r)
  PROVE  ExitsInv'
<1>1. PICK k : k = KeyOf(r)
  OBVIOUS
<1>2. k \in DOMAIN rows /\ rows[k].present /\ rows[k] \in Row
  BY <1>1 DEF Bill, TypeOK
<1>3. /\ rows' = [rows EXCEPT ![k] = [rows[k] EXCEPT !.used = rows[k].used + 1]]
      /\ touched' = touched \cup {Owner[r]}
      /\ UNCHANGED <<target, live, todo, owed>>
  BY <1>1 DEF Bill, pushVars
<1>4. /\ DOMAIN rows' = DOMAIN rows /\ rows'[k].present = rows[k].present
      /\ rows'[k].quota = rows[k].quota /\ rows'[k].used = rows[k].used + 1
      /\ rows'[k].due = rows[k].due
  BY <1>2, <1>3 DEF Row
<1>5. PastDue' = PastDue
  <2>1. \A j \in DOMAIN rows : rows'[j].due = rows[j].due
    BY <1>2, <1>3, <1>4
  <2> QED BY <1>4, <2>1 DEF PastDue
<1>6. UsedUp(k) => UsedUp(k)'
  <2>1. rows[k].quota \in Nat /\ rows[k].used \in Nat
    BY <1>2, RowForms
  <2> QED BY <1>2, <1>4, <2>1 DEF UsedUp, Over
<1>7. \A j : j # k => (UsedUp(j)' <=> UsedUp(j))
  BY <1>2, <1>3, OneRowKept
<1> SUFFICES ASSUME NEW q \in Rules, NEW n \in HopNodes[q] PROVE Follows(n, q)'
  BY DEF ExitsInv
<1>8. Follows(n, q)
  BY DEF ExitsInv
<1>9. PICK j : j = KeyOf(q)
  OBVIOUS
<1>10. KeyOf(q)' = j
  BY <1>3, <1>9 DEF KeyOf
<1>11. UsedUp(KeyOf(q))' <=> UsedUp(j)'
  BY <1>10 DEF UsedUp
<1>12. CASE UsedUp(j)' <=> UsedUp(j)
  <2>1. Excluded(q)' <=> Excluded(q)
    BY <1>5, <1>9, <1>10, <1>11, <1>12 DEF Excluded
  <2> QED BY <1>3, <1>8, <1>9, <1>10, <1>11, <1>12, <2>1 DEF Follows, Filling
<1>13. CASE UsedUp(j)' /\ ~UsedUp(j)
  <2>1. j = k
    BY <1>7, <1>13
  <2>2. Owner[q] = Owner[r]
    BY <1>1, <1>9, <2>1 DEF KeyOf
  <2> QED BY <1>3, <1>11, <1>13, <2>2 DEF Follows, Filling
<1> QED BY <1>6, <1>7, <1>12, <1>13

\* Enforcing pushes every exit of the user that is used up.
LEMMA EnforceKept ==
  ASSUME TypeOK, ExitsInv, NEW u \in Users, enforceExitQuota(u)
  PROVE  ExitsInv'
<1>1. /\ touched' = touched \ {u} /\ UNCHANGED <<rows, target, live, owed>>
      /\ Redispatch(ExitsExceedingQuota(u))
  BY DEF enforceExitQuota, exitVars
<1> SUFFICES ASSUME NEW r \in Rules, NEW n \in HopNodes[r] PROVE Follows(n, r)'
  BY DEF ExitsInv
<1>2. Follows(n, r)
  BY DEF ExitsInv
<1>3. todo \subseteq todo'
  BY <1>1, Pushing
<1>4. (UsedUp(KeyOf(r))' <=> UsedUp(KeyOf(r))) /\ KeyOf(r)' = KeyOf(r)
      /\ (Excluded(r)' <=> Excluded(r))
  BY <1>1 DEF UsedUp, Excluded, PastDue, KeyOf
<1>5. CASE Filling(r) /\ Owner[r] = u
  <2>1. KeyOf(r) \in ExitsExceedingQuota(u)
    BY <1>5 DEF Filling, UsedUp, ExitsExceedingQuota, KeyOf
  <2>2. n \in NodesForUserExit(KeyOf(r))
    BY DEF NodesForUserExit
  <2>3. n \in todo'
    BY <1>1, <2>1, <2>2, Pushing
  <2> QED BY <2>3 DEF Follows
<1>6. CASE Filling(r) /\ Owner[r] # u
  BY <1>1, <1>4, <1>6 DEF Filling, Follows
<1>7. CASE ~Filling(r)
  BY <1>1, <1>2, <1>3, <1>4, <1>7 DEF Follows
<1> QED BY <1>5, <1>6, <1>7

\* After a push the node has exactly the rules that are not excluded.
LEMMA DispatchKept ==
  ASSUME TypeOK, ExitsInv, NEW m \in Nodes, dispatchToNode(m)
  PROVE  ExitsInv'
<1>1. /\ live' = [live EXCEPT ![m] = Pushed(m)] /\ todo' = todo \ {m}
      /\ owed' = {o \in owed : o[1] # m} /\ UNCHANGED <<rows, target, touched>>
  BY DEF dispatchToNode, exitVars
<1> SUFFICES ASSUME NEW r \in Rules, NEW n \in HopNodes[r] PROVE Follows(n, r)'
  BY DEF ExitsInv
<1>2. Follows(n, r)
  BY DEF ExitsInv
<1>3. /\ KeyOf(r)' = KeyOf(r) /\ (Excluded(r)' <=> Excluded(r))
      /\ (Filling(r)' <=> Filling(r))
  BY <1>1 DEF UsedUp, Excluded, PastDue, KeyOf, Filling
<1>4. n \in Nodes
  BY PushNodes
<1>5. CASE n = m
  <2>1. live'[n] = Pushed(n)
    BY <1>1, <1>4, <1>5 DEF TypeOK
  <2>2. <<r, target[r]>> \in Pushed(n) <=> ~Excluded(r)
    BY DEF Pushed
  <2> QED BY <1>1, <1>3, <2>1, <2>2 DEF Follows
<1>6. CASE n # m
  <2>1. live'[n] = live[n] /\ (n \in todo' <=> n \in todo)
        /\ (<<n, KeyOf(r)>> \in owed' <=> <<n, KeyOf(r)>> \in owed)
    BY <1>1, <1>4, <1>6 DEF TypeOK
  <2> QED BY <1>1, <1>2, <1>3, <2>1 DEF Follows
<1> QED BY <1>5, <1>6

\* A request pushes an exit that is present; one put aside stops no rule.
LEMMA RequestKept ==
  ASSUME TypeOK, ExitsInv, NEW k \in Keys,
         \/ FallDue(k) \/ apiSetLandingExitQuota(k) \/ apiResetLandingExitTraffic(k)
         \/ apiDeleteLandingExit(k) \/ apiSetLandingExitExpires(k)
  PROVE  ExitsInv'
<1>0. k \in DOMAIN rows /\ rows[k] \in Row
  BY DEF FallDue, apiSetLandingExitQuota, apiResetLandingExitTraffic, apiDeleteLandingExit,
         apiSetLandingExitExpires, TypeOK
<1>1. CASE FallDue(k)
  <2>1. rows' = [rows EXCEPT ![k] = [rows[k] EXCEPT !.due = "past"]]
    BY <1>1 DEF FallDue
  <2>2. rows'[k].present = rows[k].present /\ Over(rows'[k]) = Over(rows[k])
    BY <1>0, <2>1 DEF Row, Over
  <2>3. \A j \in Keys : UsedUp(j)' <=> UsedUp(j)
    BY <1>0, <2>1, <2>2 DEF UsedUp
  <2> QED BY <1>1, <2>3, RowsKept DEF FallDue
<1>2. CASE apiSetLandingExitQuota(k)
  <2>1. PICK q \in Quotas : rows' = [rows EXCEPT ![k] = [rows[k] EXCEPT !.quota = q]]
    BY <1>2 DEF apiSetLandingExitQuota
  <2>2. rows'[k].present = rows[k].present /\ rows'[k].due = rows[k].due
    BY <1>0, <2>1 DEF Row
  <2>3. PastDue' = PastDue
    <3>1. \A j \in DOMAIN rows : rows'[j].due = rows[j].due
      BY <1>0, <2>1, <2>2
    <3> QED BY <2>1, <3>1 DEF PastDue
  <2>4. Redispatch(IF rows[k].present THEN {k} ELSE {})
    BY <1>2 DEF apiSetLandingExitQuota
  <2>5. ASSUME NEW j \in Keys
        PROVE  (UsedUp(j)' <=> UsedUp(j)) \/ NodesForUserExit(j) \subseteq todo'
    <3>1. CASE j # k
      BY <1>0, <2>1, <3>1 DEF UsedUp
    <3>2. CASE j = k /\ rows[k].present
      BY <2>4, <3>2, Pushing
    <3>3. CASE j = k /\ ~rows[k].present
      BY <2>2, <3>3 DEF UsedUp
    <3> QED BY <3>1, <3>2, <3>3
  <2> QED BY <1>2, <2>3, <2>4, <2>5, RowsKept, Pushing DEF apiSetLandingExitQuota
<1>3. CASE apiResetLandingExitTraffic(k)
  <2>1. rows' = [rows EXCEPT ![k] = [rows[k] EXCEPT !.used = 0]]
    BY <1>3 DEF apiResetLandingExitTraffic
  <2>2. rows'[k].present = rows[k].present /\ rows'[k].due = rows[k].due
    BY <1>0, <2>1 DEF Row
  <2>3. PastDue' = PastDue
    <3>1. \A j \in DOMAIN rows : rows'[j].due = rows[j].due
      BY <1>0, <2>1, <2>2
    <3> QED BY <2>1, <3>1 DEF PastDue
  <2>4. Redispatch(IF rows[k].present THEN {k} ELSE {})
    BY <1>3 DEF apiResetLandingExitTraffic
  <2>5. ASSUME NEW j \in Keys
        PROVE  (UsedUp(j)' <=> UsedUp(j)) \/ NodesForUserExit(j) \subseteq todo'
    <3>1. CASE j # k
      BY <1>0, <2>1, <3>1 DEF UsedUp
    <3>2. CASE j = k /\ rows[k].present
      BY <2>4, <3>2, Pushing
    <3>3. CASE j = k /\ ~rows[k].present
      BY <2>2, <3>3 DEF UsedUp
    <3> QED BY <3>1, <3>2, <3>3
  <2> QED BY <1>3, <2>3, <2>4, <2>5, RowsKept, Pushing DEF apiResetLandingExitTraffic
<1>4. CASE apiDeleteLandingExit(k)
  <2>1. DOMAIN rows' = DOMAIN rows \ {k} /\ \A j \in DOMAIN rows' : rows'[j] = rows[j]
    BY <1>4 DEF apiDeleteLandingExit, Restrict
  <2>2. Redispatch(IF rows[k].present THEN {k} ELSE {})
    BY <1>4 DEF apiDeleteLandingExit
  <2>3. ASSUME NEW j \in Keys
        PROVE  (UsedUp(j)' <=> UsedUp(j)) \/ NodesForUserExit(j) \subseteq todo'
    <3>1. CASE j # k
      BY <2>1, <3>1 DEF UsedUp
    <3>2. CASE j = k /\ rows[k].present
      BY <2>2, <3>2, Pushing
    <3>3. CASE j = k /\ ~rows[k].present
      BY <2>1, <3>3 DEF UsedUp
    <3> QED BY <3>1, <3>2, <3>3
  <2> QED BY <1>4, <2>2, <2>3, RowsKept, Pushing DEF apiDeleteLandingExit
<1>5. CASE apiSetLandingExitExpires(k)
  <2>1. \A j : j # k => (UsedUp(j)' <=> UsedUp(j))
    BY <1>0, <1>5 DEF apiSetLandingExitExpires, SetExpires, UsedUp
  <2>2. todo \subseteq todo' /\ NodesForUserExit(k) \subseteq todo'
    BY <1>5, Pushing DEF apiSetLandingExitExpires
  <2> QED BY <1>5, <2>1, <2>2, RowsKept DEF apiSetLandingExitExpires
<1> QED BY <1>1, <1>2, <1>3, <1>4, <1>5

\* The expiry enforcer pushes what it puts aside.
LEMMA DisableKept ==
  ASSUME TypeOK, ExitsInv, DisableExpired
  PROVE  ExitsInv'
<1>1. PICK k \in listed :
        /\ rows' = IF k \in DOMAIN rows THEN [rows EXCEPT ![k].present = FALSE] ELSE rows
        /\ Redispatch({k})
  BY DEF DisableExpired
<1>2. todo \subseteq todo' /\ NodesForUserExit(k) \subseteq todo'
  BY <1>1, Pushing
<1>3. CASE k \in DOMAIN rows
  <2>1. rows[k] \in Row /\ rows' = [rows EXCEPT ![k] = [rows[k] EXCEPT !.present = FALSE]]
    BY <1>1, <1>3 DEF TypeOK
  <2>2. \A j : j # k => (UsedUp(j)' <=> UsedUp(j))
    BY <1>3, <2>1 DEF UsedUp
  <2>3. PastDue' = PastDue
    <3>1. rows'[k].due = rows[k].due
      BY <1>3, <2>1 DEF Row
    <3>2. \A j \in DOMAIN rows : rows'[j].due = rows[j].due
      BY <2>1, <3>1
    <3> QED BY <2>1, <3>2 DEF PastDue
  <2> QED BY <1>2, <2>2, <2>3, RowsKept DEF DisableExpired
<1>4. CASE k \notin DOMAIN rows
  <2>1. rows' = rows
    BY <1>1, <1>4
  <2>2. PastDue' = PastDue /\ \A j : UsedUp(j)' <=> UsedUp(j)
    BY <2>1 DEF PastDue, UsedUp
  <2> QED BY <1>2, <2>2, RowsKept DEF DisableExpired
<1> QED BY <1>3, <1>4

\* An entry that moves pushes every rule that ends at its new endpoint.
LEMMA PropagateKept ==
  ASSUME TypeOK, ExitsInv, NEW a \in Admins, Propagate(a)
  PROVE  ExitsInv'
<1>1. PICK old : old = admin[a].from
  OBVIOUS
<1>2. PICK new, due : new = admin[a].to.at /\ due = admin[a].to.due
  OBVIOUS
<1>3. PICK us : us = {u \in Users : <<u, old>> \in DOMAIN rows /\ rows[<<u, old>>].source = "repo"}
  OBVIOUS
<1>4. Unpushed /\ UNCHANGED <<live, touched>>
  BY DEF Propagate
<1>5. CASE old = new
  <2>1. /\ rows' = [k \in DOMAIN rows |->
                      IF k[1] \in us /\ k[2] = old THEN [rows[k] EXCEPT !.due = due] ELSE rows[k]]
        /\ UNCHANGED <<target, todo>>
    BY <1>1, <1>2, <1>3, <1>5 DEF Propagate
  <2>2. ASSUME NEW k \in Keys PROVE UsedUp(k)' <=> UsedUp(k)
    <3>1. CASE k \in DOMAIN rows
      <4>1. rows[k] \in Row
        BY <3>1 DEF TypeOK
      <4>2. rows'[k].present = rows[k].present /\ Over(rows'[k]) = Over(rows[k])
        BY <2>1, <3>1, <4>1 DEF Row, Over
      <4> QED BY <2>1, <3>1, <4>2 DEF UsedUp
    <3>2. CASE k \notin DOMAIN rows
      BY <2>1, <3>2 DEF UsedUp
    <3> QED BY <3>1, <3>2
  <2> QED BY <1>4, <2>1, <2>2, RowsKept
<1>6. CASE old # new
  <2>1. /\ rows' = [k \in (DOMAIN rows \cup us \X {new}) \ (us \X {old}) |->
                      IF k[1] \in us /\ k[2] = new THEN Merged(k[1], old, new, due) ELSE rows[k]]
        /\ target' = [r \in Rules |-> IF target[r] = old THEN new ELSE target[r]]
        /\ todo' = todo \cup UNION {HopNodes[r] : r \in {q \in Rules : target'[q] = new}}
    BY <1>1, <1>2, <1>3, <1>6 DEF Propagate
  <2> SUFFICES ASSUME NEW r \in Rules, NEW n \in HopNodes[r] PROVE Follows(n, r)'
    BY DEF ExitsInv
  <2>2. CASE target'[r] = new
    BY <2>1, <2>2 DEF Follows
  <2>3. CASE target'[r] # new
    <3>1. target'[r] = target[r] /\ target[r] # old /\ target[r] # new
      BY <1>6, <2>1, <2>3 DEF TypeOK
    <3>2. PICK k : k = KeyOf(r)
      OBVIOUS
    <3>3. KeyOf(r)' = k
      BY <3>1, <3>2 DEF KeyOf
    <3>4. k \in DOMAIN rows' <=> k \in DOMAIN rows
      BY <2>1, <3>1, <3>2 DEF KeyOf
    <3>5. k \in DOMAIN rows => rows'[k] = rows[k]
      BY <2>1, <3>1, <3>2, <3>4 DEF KeyOf
    <3>6. (UsedUp(k)' <=> UsedUp(k)) /\ (k \in PastDue' <=> k \in PastDue)
      BY <3>4, <3>5 DEF UsedUp, PastDue
    <3>7. UsedUp(KeyOf(r))' <=> UsedUp(k)
      BY <3>3, <3>6 DEF UsedUp
    <3>8. (Excluded(r)' <=> Excluded(r)) /\ (Filling(r)' <=> Filling(r))
      BY <1>4, <3>2, <3>3, <3>6, <3>7 DEF Excluded, Filling
    <3>9. Follows(n, r)
      BY DEF ExitsInv
    <3>10. todo \subseteq todo' /\ owed \subseteq owed'
      BY <1>4, <2>1 DEF Unpushed, Behind
    <3> QED BY <1>4, <3>1, <3>2, <3>3, <3>8, <3>9, <3>10 DEF Follows
  <2> QED BY <2>2, <2>3
<1> QED BY <1>5, <1>6

\* An assignment pushes the exits it brings back used up.
LEMMA AppendKept ==
  ASSUME TypeOK, ExitsInv, NEW a \in Admins, AppendExits(a)
  PROVE  ExitsInv'
<1>1. PICK ks : ks = {<<admin[a].user, p.at>> : p \in admin[a].picked}
  OBVIOUS
<1>2. /\ rows' = [k \in DOMAIN rows \cup ks |-> IF k \in ks THEN Upsert(k, "repo") ELSE rows[k]]
      /\ Redispatch({k \in ks \cap DOMAIN rows : ~rows[k].present /\ Over(rows[k])})
      /\ UNCHANGED <<target, live, owed, touched>>
  BY <1>1 DEF AppendExits
<1>3. \A k \in DOMAIN rows : /\ rows[k] \in Row /\ rows'[k].due = rows[k].due
                             /\ Over(rows'[k]) = Over(rows[k])
                             /\ rows'[k].present = (k \in ks \/ rows[k].present)
  BY <1>2 DEF TypeOK, Row, Upsert, Over
<1>4. \A k \in ks \ DOMAIN rows : rows'[k].due = "never" /\ ~Over(rows'[k])
  <2>1. NewRow("repo").quota = 0 /\ NewRow("repo").due = "never"
    BY DEF NewRow
  <2>2. \A k \in ks \ DOMAIN rows : rows'[k] = NewRow("repo")
    BY <1>2 DEF Upsert
  <2>3. \A row : row = NewRow("repo") => ~Over(row)
    BY <2>1 DEF Over
  <2> QED BY <2>1, <2>2, <2>3
<1>5. DOMAIN rows' = DOMAIN rows \cup ks
  BY <1>2
<1>6. PastDue' = PastDue
  BY <1>3, <1>4, <1>5 DEF PastDue
<1>7. ASSUME NEW k \in Keys
      PROVE  (UsedUp(k)' <=> UsedUp(k)) \/ NodesForUserExit(k) \subseteq todo'
  <2>1. CASE k \in DOMAIN rows /\ k \in ks /\ ~rows[k].present /\ Over(rows[k])
    BY <1>2, <2>1, Pushing
  <2>2. CASE k \in DOMAIN rows /\ ~(k \in ks /\ ~rows[k].present /\ Over(rows[k]))
    BY <1>3, <1>5, <2>2 DEF UsedUp
  <2>3. CASE k \notin DOMAIN rows
    BY <1>4, <1>5, <2>3 DEF UsedUp
  <2> QED BY <2>1, <2>2, <2>3
<1>8. todo \subseteq todo'
  BY <1>2, Pushing
<1> QED BY <1>2, <1>6, <1>7, <1>8, RowsKept

\* The expiries of an assignment leave marks and push nothing.
LEMMA AssignKept ==
  ASSUME TypeOK, ExitsInv, NEW a \in Admins, AssignExpiry(a)
  PROVE  ExitsInv'
<1>1. /\ Behind(Lapsed \cup {k \in Keys : UsedUp(k) # UsedUp(k)'})
      /\ UNCHANGED <<target, live, todo, touched>>
  BY DEF AssignExpiry
<1>2. owed \subseteq owed'
  BY <1>1 DEF Behind
<1>3. ASSUME NEW k \in Keys
      PROVE  Steady(k) \/ NodesForUserExit(k) \X {k} \subseteq owed'
  BY <1>1 DEF Behind, Lapsed, Steady
<1> QED BY <1>1, <1>2, <1>3, StepKept

\* The invariant holds at first, and every step keeps it.
LEMMA ExitsInvInductive ==
  /\ Init => ExitsInv
  /\ TypeOK /\ ExitsInv /\ [Next]_vars => ExitsInv'
<1>1. Init => ExitsInv
  <2> SUFFICES ASSUME Init, NEW r \in Rules, NEW n \in HopNodes[r] PROVE Follows(n, r)
    BY DEF ExitsInv
  <2>1. ~Excluded(r)
    BY DEF Init, Excluded, UsedUp, PastDue
  <2>2. n \in Nodes
    BY ExitsAssumption
  <2>3. <<r, target[r]>> \in live[n]
    BY <2>2 DEF Init
  <2> QED BY <2>1, <2>3 DEF Follows
<1>2. ASSUME TypeOK, ExitsInv, Next PROVE ExitsInv'
  <2>1. ASSUME NEW t \in Loaders, NEW u \in Users, Load(t, u) PROVE ExitsInv'
    BY <1>2, <2>1, IdleKept DEF Load
  <2>2. ASSUME NEW t \in Actors, Resolve(t) PROVE ExitsInv'
    <3>1. CASE Answer(t)
      BY <1>2, <3>1, IdleKept DEF Answer
    <3> QED BY <1>2, <2>2, <3>1, SyncKept DEF Resolve
  <2>3. ASSUME NEW x \in Urls, CacheExpires(x) \/ Serve(x) PROVE ExitsInv'
    <3>1. UNCHANGED <<exitVars, pushVars, touched>>
      BY <2>3 DEF CacheExpires, Serve
    <3> QED BY <1>2, <3>1, IdleKept
  <2>4. ASSUME NEW u \in Users, NEW a \in Admins, apiSetUserLanding(a, u) PROVE ExitsInv'
    BY <1>2, <2>4, IdleKept DEF apiSetUserLanding
  <2>5. CASE ListExpired
    BY <1>2, <2>5, IdleKept DEF ListExpired
  <2>6. ASSUME NEW a \in Admins,
               \/ \E e \in Entries : apiCreateNodeRepoEntry(a, e) \/ apiDeleteNodeRepoEntry(a, e)
               \/ ReadEntry(a) \/ ReadAssigned(a) \/ UpdateEntry(a)
        PROVE  ExitsInv'
    <3>1. UNCHANGED <<exitVars, pushVars, touched>>
      BY <2>6 DEF apiCreateNodeRepoEntry, apiDeleteNodeRepoEntry, ReadEntry, ReadAssigned, UpdateEntry
    <3> QED BY <1>2, <3>1, IdleKept
  <2>7. ASSUME NEW a \in Admins, Editing(a) PROVE ExitsInv'
    BY <1>2, <2>6, <2>7, PropagateKept, AppendKept, AssignKept DEF Editing
  <2>8. ASSUME NEW k \in Keys,
               \/ FallDue(k) \/ apiSetLandingExitQuota(k) \/ apiResetLandingExitTraffic(k)
               \/ apiDeleteLandingExit(k) \/ apiSetLandingExitExpires(k)
        PROVE  ExitsInv'
    BY <1>2, <2>8, RequestKept
  <2>9. ASSUME NEW r \in Rules, Bill(r) PROVE ExitsInv'
    BY <1>2, <2>9, BillKept
  <2>10. ASSUME NEW u \in Users, enforceExitQuota(u) PROVE ExitsInv'
    BY <1>2, <2>10, EnforceKept
  <2>11. CASE DisableExpired
    BY <1>2, <2>11, DisableKept
  <2>12. ASSUME NEW n \in Nodes, dispatchToNode(n) PROVE ExitsInv'
    BY <1>2, <2>12, DispatchKept
  <2> QED BY <1>2, <2>1, <2>2, <2>3, <2>4, <2>5, <2>6, <2>7, <2>8, <2>9, <2>10, <2>11, <2>12 DEF Next
<1>3. ASSUME ExitsInv, UNCHANGED vars PROVE ExitsInv'
  BY <1>3, IdleKept DEF vars
<1> QED BY <1>1, <1>2, <1>3

\* With nothing under way only the marks remain.
LEMMA InvPushed == ExitsInv => ExitsPushed
BY DEF ExitsInv, Follows, Filling, ExitsPushed, Quiet

\* Once every push, enforcement and request has run, a node forwards a rule
\* exactly when the rule's exit is neither used up nor past its expiry, or an
\* expiry of the exit that changed without a push is owed there.
THEOREM ExitsAlwaysPushed == Spec => []ExitsPushed
<1>1. Spec => []TypeOK
  BY TypeCorrect
<1>2. Spec => []ExitsInv
  BY <1>1, ExitsInvInductive, PTL DEF Spec
<1> QED BY <1>2, InvPushed, PTL

-----------------------------------------------------------------------------
(* Rows follow their sources and keep what was used                        *)

\* What the row of a key has used, and a step that lowers it for no key.
Used(rs, k) == IF k \in DOMAIN rs THEN rs[k].used ELSE 0
UsageGrows == \A k \in Keys : Used(rows, k) <= Used(rows', k)

\* Ledgers hold natural numbers.
LEMMA UsedNat ==
  ASSUME RowsOK, NEW k
  PROVE  Used(rows, k) \in Nat
BY RowForms DEF RowsOK, Used

\* The sum over the ledgers of a user, before and after a step.
LEMMA Ledgers ==
  ASSUME NEW u \in Users
  PROVE  /\ IsFiniteSet({u} \X Exits) /\ {u} \X Exits \subseteq Keys
         /\ UsedBy(u) = SumFunctionOnSet([k \in {u} \X Exits |-> Used(rows, k)], {u} \X Exits)
         /\ UsedBy(u)' = SumFunctionOnSet([k \in {u} \X Exits |-> Used(rows', k)], {u} \X Exits)
<1>1. IsFiniteSet({u} \X Exits)
  BY FS_Singleton, FS_Product, ExitsAssumption
<1> QED BY <1>1 DEF UsedBy, Used, Keys

\* Where no ledger shrinks, no sum does.
LEMMA GrowthKept ==
  ASSUME RowsOK, RowsOK', UsageGrows
  PROVE  UsageKept
<1> SUFFICES ASSUME NEW u \in Users PROVE UsedBy(u)' >= UsedBy(u)
  BY DEF UsageKept
<1>1. PICK S : S = {u} \X Exits
  OBVIOUS
<1>2. PICK f : f = [k \in S |-> Used(rows, k)]
  OBVIOUS
<1>3. PICK g : g = [k \in S |-> Used(rows', k)]
  OBVIOUS
<1>4. IsFiniteSet(S) /\ S \subseteq Keys /\ UsedBy(u) = SumFunctionOnSet(f, S)
      /\ UsedBy(u)' = SumFunctionOnSet(g, S)
  BY <1>1, <1>2, <1>3, Ledgers
<1>5. ASSUME NEW k \in S PROVE f[k] \in Nat /\ g[k] \in Nat /\ f[k] <= g[k]
  <2>1. Used(rows, k) \in Nat /\ Used(rows', k) \in Nat
    BY UsedNat, RowForms DEF RowsOK, Used
  <2> QED BY <1>2, <1>3, <1>4, <2>1 DEF UsageGrows
<1>6. SumFunctionOnSet(f, S) <= SumFunctionOnSet(g, S)
  BY <1>4, <1>5, SumGrows
<1>7. SumFunctionOnSet(f, S) \in Nat /\ SumFunctionOnSet(g, S) \in Nat
  BY <1>4, <1>5, SumNat
<1> QED BY <1>4, <1>6, <1>7

\* Steps that touch no row, and one only.
LEMMA SameRows ==
  ASSUME RowsOK, UNCHANGED rows
  PROVE  UsageKept
<1>1. RowsOK'
  BY DEF RowsOK
<1>2. UsageGrows
  BY UsedNat DEF UsageGrows, Used
<1> QED BY <1>1, <1>2, GrowthKept

LEMMA OneRowUsage ==
  ASSUME RowsOK, RowsOK', NEW k \in DOMAIN rows, DOMAIN rows' = DOMAIN rows,
         \A j \in DOMAIN rows : j # k => rows'[j] = rows[j],
         rows'[k].used >= rows[k].used
  PROVE  UsageKept
<1>1. UsageGrows
  <2> SUFFICES ASSUME NEW j \in Keys PROVE Used(rows, j) <= Used(rows', j)
    BY DEF UsageGrows
  <2>1. Used(rows, j) \in Nat /\ rows[k].used \in Nat
    BY UsedNat, RowForms DEF RowsOK
  <2>2. j # k => Used(rows', j) = Used(rows, j)
    BY DEF Used
  <2>3. Used(rows', k) = rows'[k].used /\ Used(rows, k) = rows[k].used
    BY DEF Used
  <2>4. rows'[k].used \in Nat
    BY RowForms DEF RowsOK
  <2> QED BY <2>1, <2>2, <2>3, <2>4
<1> QED BY <1>1, GrowthKept

\* A sweep takes empty ledgers.
LEMMA SyncUsage ==
  ASSUME TypeOK, TypeOK', NEW t \in Actors, Sync(t)
  PROVE  UsageKept
<1>0. RowsOK /\ RowsOK'
  BY DEF TypeOK, RowsOK
<1>1. PICK u : u = loader[t].user
  OBVIOUS
<1>2. PICK X : X = loader[t].exits
  OBVIOUS
<1>3. CASE rows' = Synced(u, X)
  <2> SUFFICES ASSUME NEW k \in Keys PROVE Used(rows, k) <= Used(rows', k)
    BY <1>0, GrowthKept DEF UsageGrows
  <2>1. Used(rows, k) \in Nat /\ Used(rows', k) \in Nat
    BY <1>0, RowForms DEF RowsOK, Used
  <2>2. k \in DOMAIN rows' <=> k \in (DOMAIN rows \cup {<<u, x>> : x \in X}) \ Swept(u, X)
    BY <1>3 DEF Synced
  <2>3. k \in DOMAIN rows' => rows'[k] =
          IF k[1] = u /\ k[2] \in X THEN Upsert(k, "auto")
          ELSE IF k \in Dropped(u, X) THEN [rows[k] EXCEPT !.present = FALSE]
          ELSE rows[k]
    BY <1>3 DEF Synced
  <2>4. CASE k \notin DOMAIN rows
    BY <2>1, <2>4 DEF Used
  <2>5. CASE k \in Swept(u, X)
    BY <2>1, <2>5 DEF Used, Swept, EmptyLedger
  <2>6. CASE k \in DOMAIN rows /\ k \notin Swept(u, X)
    <3>1. rows[k] \in Row
      BY <1>0, <2>6 DEF RowsOK
    <3>2. rows'[k].used = rows[k].used
      BY <2>2, <2>3, <2>6, <3>1 DEF Upsert, Row
    <3> QED BY <2>1, <2>2, <2>6, <3>2 DEF Used
  <2> QED BY <2>4, <2>5, <2>6
<1>4. CASE UNCHANGED rows
  BY <1>0, <1>4, SameRows
<1> QED BY <1>1, <1>2, <1>3, <1>4 DEF Sync

\* A row that moves takes its ledger along, into the row it meets there, if any.
LEMMA PropagateUsage ==
  ASSUME TypeOK, TypeOK', NEW a \in Admins, Propagate(a)
  PROVE  UsageKept
<1>0. RowsOK /\ RowsOK'
  BY DEF TypeOK, RowsOK
<1>1. PICK old : old = admin[a].from
  OBVIOUS
<1>2. PICK new, due : new = admin[a].to.at /\ due = admin[a].to.due
  OBVIOUS
<1>3. PICK us : us = {u \in Users : <<u, old>> \in DOMAIN rows /\ rows[<<u, old>>].source = "repo"}
  OBVIOUS
<1>4. old \in Exits /\ new \in Exits
  <2>1. admin[a] \in Edition
    BY DEF TypeOK
  <2> QED BY <1>1, <1>2, <2>1, EditionForms DEF Propagate, Entry
<1>5. CASE old = new
  <2>1. rows' = [k \in DOMAIN rows |->
                   IF k[1] \in us /\ k[2] = old THEN [rows[k] EXCEPT !.due = due] ELSE rows[k]]
    BY <1>1, <1>2, <1>3, <1>5 DEF Propagate
  <2> SUFFICES ASSUME NEW k \in Keys PROVE Used(rows, k) <= Used(rows', k)
    BY <1>0, GrowthKept DEF UsageGrows
  <2>2. Used(rows, k) \in Nat
    BY <1>0, UsedNat
  <2>3. k \in DOMAIN rows => rows[k] \in Row
    BY <1>0 DEF RowsOK
  <2>4. k \in DOMAIN rows => rows'[k].used = rows[k].used
    BY <2>1, <2>3 DEF Row
  <2> QED BY <2>1, <2>2, <2>4 DEF Used
<1>6. CASE old # new
  <2>1. rows' = [k \in (DOMAIN rows \cup us \X {new}) \ (us \X {old}) |->
                   IF k[1] \in us /\ k[2] = new THEN Merged(k[1], old, new, due) ELSE rows[k]]
    BY <1>1, <1>2, <1>3, <1>6 DEF Propagate
  <2> SUFFICES ASSUME NEW u \in Users PROVE UsedBy(u)' >= UsedBy(u)
    BY DEF UsageKept
  <2>2. PICK S : S = {u} \X Exits
    OBVIOUS
  <2>3. PICK f : f = [k \in S |-> Used(rows, k)]
    OBVIOUS
  <2>4. PICK g : g = [k \in S |-> Used(rows', k)]
    OBVIOUS
  <2>5. IsFiniteSet(S) /\ UsedBy(u) = SumFunctionOnSet(f, S)
        /\ UsedBy(u)' = SumFunctionOnSet(g, S)
    BY <2>2, <2>3, <2>4, Ledgers
  <2>6. ASSUME NEW k \in S PROVE f[k] \in Nat /\ g[k] \in Nat
    <3>1. Used(rows, k) \in Nat /\ Used(rows', k) \in Nat
      BY <1>0, RowForms DEF RowsOK, Used
    <3> QED BY <2>3, <2>4, <3>1
  <2>7. ASSUME NEW x \in Exits, x # new, x # old PROVE Used(rows', <<u, x>>) = Used(rows, <<u, x>>)
    BY <2>1, <2>7 DEF Used
  <2>8. CASE u \notin us
    <3>1. ASSUME NEW x \in Exits PROVE Used(rows', <<u, x>>) = Used(rows, <<u, x>>)
      BY <2>1, <2>8 DEF Used
    <3>2. \A k \in S : f[k] = g[k]
      BY <2>2, <2>3, <2>4, <3>1
    <3>3. \A k \in S : f[k] \in Int /\ g[k] = f[k]
      BY <2>6, <3>2
    <3>4. SumFunctionOnSet(f, S) = SumFunctionOnSet(g, S)
      BY <2>5, <3>3, SumSame
    <3> QED BY <2>5, <2>6, <3>4, SumNat
  <2>9. CASE u \in us
    <3>1. PICK y : y = <<u, old>>
      OBVIOUS
    <3>2. PICK z : z = <<u, new>>
      OBVIOUS
    <3>3. y \in S /\ z \in S /\ y # z /\ y \in DOMAIN rows
      BY <1>3, <1>4, <1>6, <2>2, <2>9, <3>1, <3>2
    <3>4. rows[y] \in Row /\ (z \in DOMAIN rows => rows[z] \in Row)
      BY <1>0, <3>3 DEF RowsOK
    <3>5. y \notin DOMAIN rows' /\ z \in DOMAIN rows' /\ rows'[z] = Merged(u, old, new, due)
      BY <1>6, <2>1, <2>9, <3>1, <3>2
    <3>6. rows'[z].used = rows[y].used + Used(rows, z)
      <4>1. CASE z \in DOMAIN rows
        BY <3>1, <3>2, <3>5, <4>1 DEF Merged, Used
      <4>2. CASE z \notin DOMAIN rows
        <5>1. rows'[z].used = rows[y].used
          BY <3>1, <3>2, <3>4, <3>5, <4>2 DEF Merged, Row
        <5> QED BY <3>4, <4>2, <5>1, RowForms DEF Used
      <4> QED BY <4>1, <4>2
    <3>7. g[y] = 0 /\ g[z] = f[y] + f[z]
      BY <2>3, <2>4, <3>3, <3>5, <3>6 DEF Used
    <3>8. g[y] + g[z] = f[y] + f[z]
      BY <2>6, <3>3, <3>7
    <3>9. \A k \in S \ {y, z} : g[k] = f[k]
      BY <2>2, <2>3, <2>4, <2>7, <3>1, <3>2
    <3>10. \A k \in S : f[k] \in Int /\ g[k] \in Int
      BY <2>6
    <3>11. SumFunctionOnSet(g, S) = SumFunctionOnSet(f, S)
      <4>1. IsFiniteSet(S) /\ y \in S /\ z \in S /\ y # z
        BY <2>5, <3>3
      <4> QED BY ONLY <3>8, <3>9, <3>10, <4>1, SumMove
    <3> QED BY <2>5, <2>6, <3>11, SumNat
  <2> QED BY <2>8, <2>9
<1> QED BY <1>5, <1>6

\* Every step keeps what was used, or is a request that resets or deletes.
LEMMA UsageStep ==
  ASSUME TypeOK, TypeOK', [Next]_vars
  PROVE  UsageKept
<1>0. RowsOK /\ RowsOK'
  BY DEF TypeOK, RowsOK
<1>1. CASE UNCHANGED rows
  BY <1>0, <1>1, SameRows
<1>2. ASSUME NEW r \in Rules, Bill(r) PROVE UsageKept
  <2>1. PICK k : k = KeyOf(r)
    OBVIOUS
  <2>2. k \in DOMAIN rows /\ rows' = [rows EXCEPT ![k] = [rows[k] EXCEPT !.used = rows[k].used + 1]]
    BY <1>2, <2>1 DEF Bill
  <2>3. rows[k] \in Row /\ rows[k].used \in Nat
    BY <1>0, <2>2, RowForms DEF RowsOK
  <2>4. rows'[k].used >= rows[k].used
    BY <2>2, <2>3 DEF Row
  <2> QED BY <1>0, <2>2, <2>3, <2>4, OneRowUsage
<1>3. ASSUME NEW k \in Keys, FallDue(k) \/ apiSetLandingExitQuota(k) \/ apiSetLandingExitExpires(k)
      PROVE  UsageKept
  <2>1. k \in DOMAIN rows
    BY <1>3 DEF FallDue, apiSetLandingExitQuota, apiSetLandingExitExpires
  <2>2. rows[k] \in Row /\ rows[k].used \in Nat
    BY <1>0, <2>1, RowForms DEF RowsOK
  <2>3. CASE FallDue(k)
    <3>1. rows' = [rows EXCEPT ![k] = [rows[k] EXCEPT !.due = "past"]]
      BY <2>3 DEF FallDue
    <3>2. rows'[k].used >= rows[k].used
      BY <2>1, <2>2, <3>1 DEF Row
    <3> QED BY <1>0, <2>1, <3>1, <3>2, OneRowUsage
  <2>4. CASE apiSetLandingExitQuota(k)
    <3>1. PICK q : rows' = [rows EXCEPT ![k] = [rows[k] EXCEPT !.quota = q]]
      BY <2>4 DEF apiSetLandingExitQuota
    <3>2. rows'[k].used >= rows[k].used
      BY <2>1, <2>2, <3>1 DEF Row
    <3> QED BY <1>0, <2>1, <3>1, <3>2, OneRowUsage
  <2>5. CASE apiSetLandingExitExpires(k)
    <3>1. PICK due : SetExpires(k, due)
      BY <2>5 DEF apiSetLandingExitExpires
    <3>2. PICK row : row = [rows[k] EXCEPT !.due = due, !.present = due # "past"]
      OBVIOUS
    <3>3. rows' = [rows EXCEPT ![k] = row] /\ row.used = rows[k].used
      BY <2>2, <3>1, <3>2 DEF SetExpires, Row
    <3>4. rows'[k].used >= rows[k].used
      BY <2>1, <2>2, <3>3
    <3> QED BY <1>0, <2>1, <3>3, <3>4, OneRowUsage
  <2> QED BY <1>3, <2>3, <2>4, <2>5
<1>4. CASE DisableExpired
  <2>1. PICK k \in listed : rows' = IF k \in DOMAIN rows THEN [rows EXCEPT ![k].present = FALSE] ELSE rows
    BY <1>4 DEF DisableExpired
  <2>2. CASE k \in DOMAIN rows
    <3>1. rows[k] \in Row /\ rows[k].used \in Nat
      BY <1>0, <2>2, RowForms DEF RowsOK
    <3>2. rows' = [rows EXCEPT ![k] = [rows[k] EXCEPT !.present = FALSE]]
      BY <2>1, <2>2
    <3>3. rows'[k].used >= rows[k].used
      BY <2>2, <3>1, <3>2 DEF Row
    <3> QED BY <1>0, <2>2, <3>2, <3>3, OneRowUsage
  <2> QED BY <1>1, <2>1, <2>2
<1>5. ASSUME NEW a \in Admins, AppendExits(a) PROVE UsageKept
  <2>1. PICK ks : rows' = [k \in DOMAIN rows \cup ks |-> IF k \in ks THEN Upsert(k, "repo") ELSE rows[k]]
    BY <1>5 DEF AppendExits
  <2> SUFFICES ASSUME NEW k \in Keys PROVE Used(rows, k) <= Used(rows', k)
    BY <1>0, GrowthKept DEF UsageGrows
  <2>2. Used(rows, k) \in Nat /\ Used(rows', k) \in Nat
    BY <1>0, RowForms DEF RowsOK, Used
  <2>3. CASE k \in DOMAIN rows
    <3>1. rows[k] \in Row
      BY <1>0, <2>3 DEF RowsOK
    <3>2. rows'[k].used = rows[k].used
      BY <2>1, <2>3, <3>1 DEF Upsert, Row
    <3> QED BY <2>1, <2>2, <2>3, <3>2 DEF Used
  <2>4. CASE k \notin DOMAIN rows
    BY <2>2, <2>4 DEF Used
  <2> QED BY <2>3, <2>4
<1>6. ASSUME NEW a \in Admins, AssignExpiry(a) PROVE UsageKept
  <2>1. \/ rows' = rows
        \/ \E p : /\ <<admin[a].user, p.at>> \in DOMAIN rows
                  /\ SetExpires(<<admin[a].user, p.at>>, p.due)
    BY <1>6 DEF AssignExpiry
  <2>2. ASSUME NEW k \in DOMAIN rows, NEW due, SetExpires(k, due) PROVE UsageKept
    <3>1. rows[k] \in Row /\ rows[k].used \in Nat
      BY <1>0, RowForms DEF RowsOK
    <3>2. PICK row : row = [rows[k] EXCEPT !.due = due, !.present = due # "past"]
      OBVIOUS
    <3>3. rows' = [rows EXCEPT ![k] = row] /\ row.used = rows[k].used
      BY <2>2, <3>1, <3>2 DEF SetExpires, Row
    <3>4. rows'[k].used >= rows[k].used
      BY <3>1, <3>3
    <3> QED BY <1>0, <3>3, <3>4, OneRowUsage
  <2> QED BY <1>1, <2>1, <2>2
<1>7. ASSUME NEW t \in Actors, Resolve(t) PROVE UsageKept
  BY <1>1, <1>7, SyncUsage DEF Resolve, Answer, exitVars
<1>8. ASSUME NEW k \in Keys,
             \/ FallDue(k) \/ apiSetLandingExitQuota(k) \/ apiResetLandingExitTraffic(k)
             \/ apiDeleteLandingExit(k) \/ apiSetLandingExitExpires(k)
      PROVE  UsageKept
  <2>1. apiResetLandingExitTraffic(k) \/ apiDeleteLandingExit(k) => UsageKept
    BY DEF UsageKept
  <2> QED BY <1>3, <1>8, <2>1
<1>9. ASSUME NEW a \in Admins,
             \/ \E e \in Entries : apiCreateNodeRepoEntry(a, e) \/ apiDeleteNodeRepoEntry(a, e)
             \/ ReadEntry(a) \/ ReadAssigned(a) \/ UpdateEntry(a)
      PROVE  UNCHANGED rows
  BY <1>9 DEF apiCreateNodeRepoEntry, apiDeleteNodeRepoEntry, ReadEntry, ReadAssigned, UpdateEntry,
              exitVars
<1>10. ASSUME NEW a \in Admins, Editing(a) PROVE UsageKept
  BY <1>1, <1>5, <1>6, <1>9, <1>10, PropagateUsage DEF Editing
<1>11. CASE \/ \E t \in Loaders : \E u \in Users : Load(t, u)
            \/ \E x \in Urls : CacheExpires(x) \/ Serve(x)
            \/ \E u \in Users : enforceExitQuota(u) \/ \E a \in Admins : apiSetUserLanding(a, u)
            \/ ListExpired \/ \E n \in Nodes : dispatchToNode(n)
  BY <1>1, <1>11 DEF Load, CacheExpires, Serve, enforceExitQuota, apiSetUserLanding, ListExpired,
                     dispatchToNode, exitVars
<1>12. CASE UNCHANGED vars
  BY <1>1, <1>12 DEF vars, exitVars
<1> QED BY <1>1, <1>2, <1>4, <1>7, <1>8, <1>9, <1>10, <1>11, <1>12 DEF Next

\* A result that a source without a subscription waits to synchronize names
\* nothing but what the source lists by hand.
SyncNames ==
  \A t \in Actors : loader[t].pc = "sync" =>
    loader[t].src.sub # "none" \/ loader[t].exits \subseteq loader[t].src.manual

\* What resolving a source leaves to synchronize.
LEMMA ResolvedNames ==
  ASSUME NEW u, NEW src, NEW res, NEW x, x = Resolved(u, src, res), x.pc = "sync"
  PROVE  x.src = src /\ x.exits = src.manual \cup res.exits
<1>1. CASE ~res.ok \/ src.manual \cup res.exits = {}
  BY <1>1 DEF Resolved, Idle
<1>2. CASE ~(~res.ok \/ src.manual \cup res.exits = {})
  BY <1>2 DEF Resolved
<1> QED BY <1>1, <1>2

LEMMA ResolvingNames ==
  ASSUME NEW u, NEW src, NEW force, NEW x, x = Resolving(u, src, force), x.pc = "sync"
  PROVE  x.src.sub # "none" \/ x.exits \subseteq x.src.manual
<1>1. CASE src.sub = "none"
  <2>1. x = Resolved(u, src, Answered({})) /\ Answered({}).exits = {}
    BY <1>1 DEF Resolving, Answered
  <2>2. x.src = src /\ x.exits = src.manual \cup Answered({}).exits
    BY <2>1, ResolvedNames
  <2> QED BY <2>1, <2>2
<1>2. CASE src.sub # "none" /\ ~force /\ src.sub \in DOMAIN cache
  <2>1. x = Resolved(u, src, cache[src.sub])
    BY <1>2 DEF Resolving
  <2>2. x.src = src
    BY <2>1, ResolvedNames
  <2> QED BY <1>2, <2>2
<1>3. CASE src.sub # "none" /\ ~(~force /\ src.sub \in DOMAIN cache)
  <2>1. x = [pc |-> "fetch", user |-> u, src |-> src]
    BY <1>3 DEF Resolving
  <2> QED BY <2>1
<1> QED BY <1>1, <1>2, <1>3

\* That holds throughout.
LEMMA NamesInductive ==
  /\ Init => SyncNames
  /\ TypeOK /\ SyncNames /\ [Next]_vars => SyncNames'
<1>1. Init => SyncNames
  BY DEF Init, SyncNames, Idle
<1>2. ASSUME SyncNames, UNCHANGED loader PROVE SyncNames'
  BY <1>2 DEF SyncNames
<1>3. ASSUME TypeOK, SyncNames, NEW t \in Actors, NEW x, loader' = [loader EXCEPT ![t] = x],
             x.pc = "sync" => x.src.sub # "none" \/ x.exits \subseteq x.src.manual
      PROVE  SyncNames'
  BY <1>3 DEF SyncNames, TypeOK
<1>4. ASSUME TypeOK, SyncNames, NEW t \in Actors, Resolve(t) PROVE SyncNames'
  <2>0. loader[t] \in Resolution
    BY <1>4 DEF TypeOK
  <2>1. CASE Answer(t)
    <3>1. PICK res : loader' = [loader EXCEPT ![t] = Resolved(@.user, @.src, res)]
      BY <2>1 DEF Answer
    <3>2. PICK x : x = Resolved(loader[t].user, loader[t].src, res)
      OBVIOUS
    <3>3. loader[t].src.sub # "none"
      BY <2>0, <2>1, ResolutionForms DEF Answer
    <3>4. x.pc = "sync" => x.src = loader[t].src
      BY <3>2, ResolvedNames
    <3>5. loader' = [loader EXCEPT ![t] = x]
      BY <3>1, <3>2
    <3> QED BY <1>3, <1>4, <3>3, <3>4, <3>5
  <2>2. CASE Sync(t)
    <3>1. loader' = [loader EXCEPT ![t] = Idle] /\ Idle.pc # "sync"
      BY <2>2 DEF Sync, Idle
    <3> QED BY <1>3, <1>4, <3>1
  <2> QED BY <1>4, <2>1, <2>2 DEF Resolve
<1>5. ASSUME TypeOK, SyncNames, NEW t \in Loaders, NEW u \in Users, Load(t, u) PROVE SyncNames'
  <2>1. PICK force : loader' = [loader EXCEPT ![t] = Resolving(u, source[u], force)]
    BY <1>5 DEF Load
  <2>2. PICK x : x = Resolving(u, source[u], force)
    OBVIOUS
  <2>3. loader' = [loader EXCEPT ![t] = x] /\ t \in Actors
    BY <2>1, <2>2 DEF Actors
  <2> QED BY <1>3, <1>5, <2>2, <2>3, ResolvingNames
<1>6. ASSUME TypeOK, SyncNames, NEW a \in Admins, NEW u \in Users, apiSetUserLanding(a, u)
      PROVE  SyncNames'
  <2>1. PICK src : loader' = [loader EXCEPT ![a] = Resolving(u, src, TRUE)]
    BY <1>6 DEF apiSetUserLanding
  <2>2. PICK x : x = Resolving(u, src, TRUE)
    OBVIOUS
  <2>3. loader' = [loader EXCEPT ![a] = x] /\ a \in Actors
    BY <2>1, <2>2 DEF Actors
  <2> QED BY <1>3, <1>6, <2>2, <2>3, ResolvingNames
<1>7. ASSUME \/ \E x \in Urls : CacheExpires(x) \/ Serve(x)
             \/ \E r \in Rules : Bill(r)
             \/ \E u \in Users : enforceExitQuota(u)
             \/ \E k \in Keys :
                  \/ FallDue(k) \/ apiSetLandingExitQuota(k) \/ apiResetLandingExitTraffic(k)
                  \/ apiDeleteLandingExit(k) \/ apiSetLandingExitExpires(k)
             \/ ListExpired \/ DisableExpired
             \/ \E n \in Nodes : dispatchToNode(n)
      PROVE  UNCHANGED loader
  BY <1>7 DEF CacheExpires, Serve, Bill, enforceExitQuota, FallDue, apiSetLandingExitQuota,
              apiResetLandingExitTraffic, apiDeleteLandingExit, apiSetLandingExitExpires,
              ListExpired, DisableExpired, dispatchToNode, sourceVars
<1>8. ASSUME NEW a \in Admins,
             \/ \E e \in Entries : apiCreateNodeRepoEntry(a, e) \/ apiDeleteNodeRepoEntry(a, e)
             \/ ReadEntry(a) \/ ReadAssigned(a) \/ Editing(a)
      PROVE  UNCHANGED loader
  BY <1>8 DEF apiCreateNodeRepoEntry, apiDeleteNodeRepoEntry, ReadEntry, ReadAssigned, Editing,
              UpdateEntry, Propagate, AppendExits, AssignExpiry, sourceVars
<1>9. ASSUME TypeOK, SyncNames, Next PROVE SyncNames'
  BY <1>2, <1>4, <1>5, <1>6, <1>7, <1>8, <1>9 DEF Next
<1>10. UNCHANGED vars => UNCHANGED loader
  BY DEF vars, sourceVars
<1> QED BY <1>1, <1>2, <1>9, <1>10

\* A step that adds no materialized row.
LEMMA NoneAdded ==
  ASSUME \A k \in DOMAIN rows' \ DOMAIN rows : rows'[k].source # "auto"
  PROVE  OnlyFromSource
BY DEF OnlyFromSource, Materialized

\* So only a source that may name an exit materializes it.
LEMMA SourceStep ==
  ASSUME TypeOK, SyncNames, [Next]_vars
  PROVE  OnlyFromSource
<1>1. ASSUME DOMAIN rows' \subseteq DOMAIN rows PROVE OnlyFromSource
  BY <1>1, NoneAdded
<1>2. ASSUME NEW t \in Actors, Sync(t) PROVE OnlyFromSource
  <2>1. CASE rows' = rows
    BY <1>1, <2>1
  <2>2. CASE rows' # rows
    <3>1. loader[t].src = source[loader[t].user]
          /\ rows' = Synced(loader[t].user, loader[t].exits) /\ loader[t].pc = "sync"
      BY <1>2, <2>2 DEF Sync
    <3>2. PICK u : u = loader[t].user
      OBVIOUS
    <3>3. PICK X : X = loader[t].exits
      OBVIOUS
    <3>4. ASSUME NEW k \in DOMAIN rows' \ DOMAIN rows PROVE k[1] = u /\ k[2] \in X
      BY <3>1, <3>2, <3>3 DEF Synced
    <3>5. source[u].sub # "none" \/ X \subseteq source[u].manual
      BY <3>1, <3>2, <3>3 DEF SyncNames
    <3> QED BY <3>4, <3>5 DEF OnlyFromSource, Materialized
  <2> QED BY <2>1, <2>2
<1>3. ASSUME NEW a \in Admins, Propagate(a) PROVE OnlyFromSource
  <2>1. PICK old : old = admin[a].from
    OBVIOUS
  <2>2. PICK new, due : new = admin[a].to.at /\ due = admin[a].to.due
    OBVIOUS
  <2>3. PICK us : us = {u \in Users : <<u, old>> \in DOMAIN rows /\ rows[<<u, old>>].source = "repo"}
    OBVIOUS
  <2>4. CASE old = new
    <3>1. DOMAIN rows' = DOMAIN rows
      BY <1>3, <2>1, <2>2, <2>3, <2>4 DEF Propagate
    <3> QED BY <1>1, <3>1
  <2>5. CASE old # new
    <3>1. rows' = [k \in (DOMAIN rows \cup us \X {new}) \ (us \X {old}) |->
                     IF k[1] \in us /\ k[2] = new THEN Merged(k[1], old, new, due) ELSE rows[k]]
      BY <1>3, <2>1, <2>2, <2>3, <2>5 DEF Propagate
    <3>2. ASSUME NEW k \in DOMAIN rows' \ DOMAIN rows PROVE rows'[k].source # "auto"
      <4>1. k[1] \in us /\ k[2] = new /\ k = <<k[1], new>>
        BY <3>1
      <4>2. <<k[1], old>> \in DOMAIN rows /\ rows[<<k[1], old>>].source = "repo"
        BY <2>3, <4>1
      <4>3. rows[<<k[1], old>>] \in Row
        BY <4>2 DEF TypeOK
      <4>4. rows'[k] = [rows[<<k[1], old>>] EXCEPT !.due = due]
        BY <3>1, <4>1 DEF Merged
      <4> QED BY <4>2, <4>3, <4>4 DEF Row
    <3> QED BY <3>2, NoneAdded
  <2> QED BY <2>4, <2>5
<1>4. ASSUME NEW a \in Admins, AppendExits(a) PROVE OnlyFromSource
  <2>1. PICK ks : rows' = [k \in DOMAIN rows \cup ks |-> IF k \in ks THEN Upsert(k, "repo") ELSE rows[k]]
    BY <1>4 DEF AppendExits
  <2>2. ASSUME NEW k \in DOMAIN rows' \ DOMAIN rows PROVE rows'[k].source # "auto"
    BY <2>1 DEF Upsert, NewRow
  <2> QED BY <2>2, NoneAdded
<1>5. ASSUME NEW k \in Keys,
             \/ FallDue(k) \/ apiSetLandingExitQuota(k) \/ apiResetLandingExitTraffic(k)
             \/ apiDeleteLandingExit(k) \/ apiSetLandingExitExpires(k)
      PROVE  DOMAIN rows' \subseteq DOMAIN rows
  BY <1>5 DEF FallDue, apiSetLandingExitQuota, apiResetLandingExitTraffic, apiDeleteLandingExit,
              Restrict, apiSetLandingExitExpires, SetExpires
<1>6. ASSUME \/ \E t \in Loaders : \E u \in Users : Load(t, u)
             \/ \E t \in Actors : Answer(t)
             \/ \E x \in Urls : CacheExpires(x) \/ Serve(x)
             \/ \E r \in Rules : Bill(r)
             \/ \E u \in Users : enforceExitQuota(u) \/ \E a \in Admins : apiSetUserLanding(a, u)
             \/ ListExpired \/ DisableExpired
             \/ \E n \in Nodes : dispatchToNode(n)
      PROVE  DOMAIN rows' \subseteq DOMAIN rows
  BY <1>6 DEF Load, Answer, CacheExpires, Serve, Bill, enforceExitQuota, apiSetUserLanding,
              ListExpired, DisableExpired, dispatchToNode, exitVars
<1>7. ASSUME NEW a \in Admins,
             \/ \E e \in Entries : apiCreateNodeRepoEntry(a, e) \/ apiDeleteNodeRepoEntry(a, e)
             \/ ReadEntry(a) \/ ReadAssigned(a) \/ UpdateEntry(a) \/ AssignExpiry(a)
      PROVE  DOMAIN rows' \subseteq DOMAIN rows
  BY <1>7 DEF apiCreateNodeRepoEntry, apiDeleteNodeRepoEntry, ReadEntry, ReadAssigned, UpdateEntry,
              AssignExpiry, SetExpires, exitVars
<1>8. ASSUME NEW a \in Admins, Editing(a) PROVE OnlyFromSource
  BY <1>1, <1>3, <1>4, <1>7, <1>8 DEF Editing
<1>9. UNCHANGED vars => DOMAIN rows' \subseteq DOMAIN rows
  BY DEF vars, exitVars
<1> QED BY <1>1, <1>2, <1>5, <1>6, <1>7, <1>8, <1>9 DEF Next, Resolve

\* An imported row is at the endpoint of an entry, or of a deleted one, or at the
\* one that a request, which has stored the new endpoint, is about to move it from;
\* and the requests under way on the repository know entries that are still there.
At(x) == \E e \in DOMAIN repo : repo[e].at = x
Leaving(x) == \E a \in Admins : admin[a].pc = "propagate" /\ admin[a].from = x
Tracked ==
  \A k \in DOMAIN rows : rows[k].source = "repo" => k[2] \in gone \/ At(k[2]) \/ Leaving(k[2])
Drafts ==
  \A a \in Admins :
    /\ admin[a].pc = "update" =>
         admin[a].entry \in DOMAIN repo /\ repo[admin[a].entry].at = admin[a].from
    /\ admin[a].pc = "propagate" => At(admin[a].to.at)
    /\ admin[a].pc = "append" => \A p \in admin[a].picked : At(p.at)
RepoInv == Tracked /\ Drafts

\* No two requests on the repository overlap.
OneAdmin == \A a, b \in Admins : a = b

\* A step that leaves the repository alone and imports nothing.
LEMMA NothingImported ==
  ASSUME RepoInv, UNCHANGED <<repo, gone, admin>>,
         \A k \in DOMAIN rows' : rows'[k].source = "repo" =>
           k \in DOMAIN rows /\ rows[k].source = "repo"
  PROVE  RepoInv'
<1>1. \A x : (At(x)' <=> At(x)) /\ (Leaving(x)' <=> Leaving(x)) /\ (x \in gone' <=> x \in gone)
  BY DEF At, Leaving
<1>2. Tracked'
  BY <1>1 DEF RepoInv, Tracked
<1>3. Drafts'
  BY DEF RepoInv, Drafts, At
<1> QED BY <1>2, <1>3 DEF RepoInv

\* Requests on exits, metering and synchronization import nothing.
LEMMA RequestsTrack ==
  ASSUME TypeOK, RepoInv, NEW k \in Keys,
         \/ FallDue(k) \/ apiSetLandingExitQuota(k) \/ apiResetLandingExitTraffic(k)
         \/ apiDeleteLandingExit(k) \/ apiSetLandingExitExpires(k)
  PROVE  \A j \in DOMAIN rows' : rows'[j].source = "repo" =>
           j \in DOMAIN rows /\ rows[j].source = "repo"
<1>1. k \in DOMAIN rows /\ rows[k] \in Row
  BY DEF FallDue, apiSetLandingExitQuota, apiResetLandingExitTraffic, apiDeleteLandingExit,
         apiSetLandingExitExpires, TypeOK
<1>2. CASE FallDue(k)
  <2>1. [rows[k] EXCEPT !.due = "past"].source = rows[k].source
    BY <1>1 DEF Row
  <2> QED BY <1>1, <1>2, <2>1 DEF FallDue
<1>3. CASE apiSetLandingExitQuota(k)
  <2>1. PICK q : rows' = [rows EXCEPT ![k] = [rows[k] EXCEPT !.quota = q]]
    BY <1>3 DEF apiSetLandingExitQuota
  <2>2. [rows[k] EXCEPT !.quota = q].source = rows[k].source
    BY <1>1 DEF Row
  <2> QED BY <1>1, <2>1, <2>2
<1>4. CASE apiResetLandingExitTraffic(k)
  <2>1. [rows[k] EXCEPT !.used = 0].source = rows[k].source
    BY <1>1 DEF Row
  <2> QED BY <1>1, <1>4, <2>1 DEF apiResetLandingExitTraffic
<1>5. CASE apiDeleteLandingExit(k)
  BY <1>5 DEF apiDeleteLandingExit, Restrict
<1>6. CASE apiSetLandingExitExpires(k)
  <2>1. PICK due : SetExpires(k, due)
    BY <1>6 DEF apiSetLandingExitExpires
  <2>2. PICK row : row = [rows[k] EXCEPT !.due = due, !.present = due # "past"]
    OBVIOUS
  <2>3. rows' = [rows EXCEPT ![k] = row] /\ row.source = rows[k].source
    BY <1>1, <2>1, <2>2 DEF SetExpires, Row
  <2> QED BY <1>1, <2>3
<1> QED BY <1>2, <1>3, <1>4, <1>5, <1>6

LEMMA OthersTrack ==
  ASSUME TypeOK, RepoInv,
         \/ \E t \in Actors : Sync(t)
         \/ \E r \in Rules : Bill(r)
         \/ DisableExpired
  PROVE  \A j \in DOMAIN rows' : rows'[j].source = "repo" =>
           j \in DOMAIN rows /\ rows[j].source = "repo"
<1>1. ASSUME NEW t \in Actors, Sync(t), NEW j \in DOMAIN rows', rows'[j].source = "repo"
      PROVE  j \in DOMAIN rows /\ rows[j].source = "repo"
  <2>1. PICK u : u = loader[t].user
    OBVIOUS
  <2>2. PICK X : X = loader[t].exits
    OBVIOUS
  <2>3. CASE rows' = Synced(u, X)
    <3>1. rows'[j] = IF j[1] = u /\ j[2] \in X THEN Upsert(j, "auto")
                     ELSE IF j \in Dropped(u, X) THEN [rows[j] EXCEPT !.present = FALSE]
                     ELSE rows[j]
      BY <1>1, <2>3 DEF Synced
    <3>2. j \in DOMAIN rows \/ (j[1] = u /\ j[2] \in X)
      BY <1>1, <2>3 DEF Synced
    <3>3. Upsert(j, "auto").source # "repo"
      <4>1. CASE j \in DOMAIN rows
        <5>1. rows[j] \in Row
          BY <4>1 DEF TypeOK
        <5> QED BY <4>1, <5>1 DEF Upsert, Row
      <4> QED BY <4>1 DEF Upsert, NewRow
    <3>4. j \in Dropped(u, X) => [rows[j] EXCEPT !.present = FALSE].source = rows[j].source
      BY DEF Dropped, TypeOK, Row
    <3> QED BY <1>1, <3>1, <3>2, <3>3, <3>4
  <2>4. CASE rows' = rows
    BY <1>1, <2>4
  <2> QED BY <1>1, <2>1, <2>2, <2>3, <2>4 DEF Sync
<1>2. ASSUME NEW r \in Rules, Bill(r), NEW j \in DOMAIN rows', rows'[j].source = "repo"
      PROVE  j \in DOMAIN rows /\ rows[j].source = "repo"
  <2>1. PICK k : k = KeyOf(r)
    OBVIOUS
  <2>2. k \in DOMAIN rows /\ rows' = [rows EXCEPT ![k] = [rows[k] EXCEPT !.used = rows[k].used + 1]]
    BY <1>2, <2>1 DEF Bill
  <2>3. [rows[k] EXCEPT !.used = rows[k].used + 1].source = rows[k].source
    BY <2>2 DEF Row, TypeOK
  <2> QED BY <1>2, <2>2, <2>3
<1>3. ASSUME DisableExpired, NEW j \in DOMAIN rows', rows'[j].source = "repo"
      PROVE  j \in DOMAIN rows /\ rows[j].source = "repo"
  <2>1. PICK k \in listed : rows' = IF k \in DOMAIN rows THEN [rows EXCEPT ![k].present = FALSE] ELSE rows
    BY <1>3 DEF DisableExpired
  <2>2. k \in DOMAIN rows => [rows[k] EXCEPT !.present = FALSE].source = rows[k].source
    BY DEF Row, TypeOK
  <2> QED BY <1>3, <2>1, <2>2
<1> QED BY <1>1, <1>2, <1>3

\* Requests on the repository, up to the propagation.
LEMMA RepoSteps ==
  ASSUME TypeOK, RepoInv, OneAdmin, NEW a \in Admins,
         \/ \E e \in Entries : apiCreateNodeRepoEntry(a, e) \/ apiDeleteNodeRepoEntry(a, e)
         \/ ReadEntry(a) \/ ReadAssigned(a) \/ UpdateEntry(a) \/ AssignExpiry(a)
  PROVE  RepoInv'
<1>0. /\ \A b \in Admins : b = a
      /\ admin[a] \in Edition /\ admin \in [Admins -> Edition]
  BY DEF OneAdmin, TypeOK
<1>1. ASSUME NEW e \in Entries, apiCreateNodeRepoEntry(a, e) PROVE RepoInv'
  <2>1. PICK x, due : repo' = With(repo, e, [at |-> x, due |-> due])
    BY <1>1 DEF apiCreateNodeRepoEntry
  <2>2. \A y : At(y) => At(y)'
    BY <1>1, <2>1 DEF At, With, apiCreateNodeRepoEntry
  <2>3. admin[a].pc = "idle" /\ UNCHANGED <<rows, gone, admin>>
    BY <1>1 DEF apiCreateNodeRepoEntry, Free, exitVars
  <2>4. Tracked'
    BY <2>2, <2>3 DEF RepoInv, Tracked, Leaving
  <2>5. Drafts'
    BY <1>0, <2>3 DEF Drafts
  <2> QED BY <2>4, <2>5 DEF RepoInv
<1>2. ASSUME NEW e \in Entries, apiDeleteNodeRepoEntry(a, e) PROVE RepoInv'
  <2>1. e \in DOMAIN repo /\ repo' = Restrict(repo, DOMAIN repo \ {e})
        /\ gone' = gone \cup {repo[e].at}
    BY <1>2 DEF apiDeleteNodeRepoEntry
  <2>2. \A y : At(y) => At(y)' \/ y \in gone'
    BY <2>1 DEF At, Restrict
  <2>3. admin[a].pc = "idle" /\ UNCHANGED <<rows, admin>>
    BY <1>2 DEF apiDeleteNodeRepoEntry, Free, exitVars
  <2>4. Tracked'
    BY <2>1, <2>2, <2>3 DEF RepoInv, Tracked, Leaving
  <2>5. Drafts'
    BY <1>0, <2>3 DEF Drafts
  <2> QED BY <2>4, <2>5 DEF RepoInv
<1>3. CASE ReadEntry(a)
  <2>1. PICK e \in DOMAIN repo, x \in Exits, due \in Dues :
          admin' = [admin EXCEPT ![a] =
            [pc |-> "update", entry |-> e, from |-> repo[e].at,
             to |-> [at |-> x, due |-> due]]]
    BY <1>3 DEF ReadEntry
  <2>2. admin[a].pc = "idle" /\ UNCHANGED <<rows, repo, gone>>
    BY <1>3 DEF ReadEntry, Free, exitVars
  <2>3. admin'[a] = [pc |-> "update", entry |-> e, from |-> repo[e].at,
             to |-> [at |-> x, due |-> due]]
    BY <1>0, <2>1
  <2>4. Tracked'
    BY <1>0, <2>2 DEF RepoInv, Tracked, Leaving, At
  <2>5. Drafts'
    BY <1>0, <2>2, <2>3 DEF Drafts
  <2> QED BY <2>4, <2>5 DEF RepoInv
<1>4. CASE ReadAssigned(a)
  <2>1. PICK E \in SUBSET DOMAIN repo, u \in Users :
          admin' = [admin EXCEPT ![a] =
            [pc |-> "append", user |-> u, picked |-> {repo[e] : e \in E}]]
    BY <1>4 DEF ReadAssigned
  <2>2. admin[a].pc = "idle" /\ UNCHANGED <<rows, repo, gone>>
    BY <1>4 DEF ReadAssigned, Free, exitVars
  <2>3. admin'[a] = [pc |-> "append", user |-> u, picked |-> {repo[e] : e \in E}]
    BY <1>0, <2>1
  <2>4. Tracked'
    BY <1>0, <2>2 DEF RepoInv, Tracked, Leaving, At
  <2>5. Drafts'
    BY <1>0, <2>2, <2>3 DEF Drafts, At
  <2> QED BY <2>4, <2>5 DEF RepoInv
<1>5. CASE UpdateEntry(a)
  <2>1. /\ admin[a].pc = "update"
        /\ repo' = [e \in DOMAIN repo |-> IF e = admin[a].entry THEN admin[a].to ELSE repo[e]]
        /\ admin' = [admin EXCEPT ![a] = [admin[a] EXCEPT !.pc = "propagate"]]
        /\ UNCHANGED <<rows, gone>>
    BY <1>5 DEF UpdateEntry, exitVars
  <2>2. admin[a].entry \in DOMAIN repo /\ repo[admin[a].entry].at = admin[a].from
    BY <2>1 DEF RepoInv, Drafts
  <2>3. /\ admin'[a].pc = "propagate" /\ admin'[a].from = admin[a].from
        /\ admin'[a].to = admin[a].to
    <3>1. admin'[a] = [admin[a] EXCEPT !.pc = "propagate"]
      BY <1>0, <2>1
    <3>2. admin[a] \in [pc : {"update", "propagate"}, entry : Entries, from : Exits, to : Entry]
      BY <1>0, <2>1 DEF Edition, Idle
    <3> QED BY <3>1, <3>2
  <2>4. \A x : At(x) => At(x)' \/ x = admin[a].from
    BY <2>1, <2>2 DEF At
  <2>5. Leaving(admin[a].from)'
    BY <2>3 DEF Leaving
  <2>6. \A x : ~Leaving(x)
    BY <1>0, <2>1 DEF Leaving
  <2>7. Tracked'
    <3> SUFFICES ASSUME NEW k \in DOMAIN rows', rows'[k].source = "repo"
                 PROVE  k[2] \in gone' \/ At(k[2])' \/ Leaving(k[2])'
      BY DEF Tracked, At, Leaving
    <3>1. k[2] \in gone \/ At(k[2])
      BY <2>1, <2>6 DEF RepoInv, Tracked
    <3>2. CASE k[2] = admin[a].from
      BY <2>3, <3>2 DEF Leaving
    <3> QED BY <2>1, <2>4, <3>1, <3>2
  <2>8. Drafts'
    <3>1. repo'[admin[a].entry] = admin[a].to /\ admin[a].entry \in DOMAIN repo'
      BY <2>1, <2>2
    <3> QED BY <1>0, <2>3, <3>1 DEF Drafts, At
  <2> QED BY <2>7, <2>8 DEF RepoInv
<1>6. CASE AssignExpiry(a)
  <2>1. admin[a].pc = "expiries" /\ UNCHANGED <<repo, gone>>
    BY <1>6 DEF AssignExpiry
  <2>2. \A x : ~Leaving(x)
    BY <1>0, <2>1 DEF Leaving
  <2>3. admin'[a].pc \in {"idle", "expiries"}
    <3>1. \/ admin' = [admin EXCEPT ![a] = Idle]
          \/ \E p : admin' = [admin EXCEPT ![a] = [admin[a] EXCEPT !.picked = admin[a].picked \ {p}]]
      BY <1>6 DEF AssignExpiry
    <3>2. admin[a] \in [pc : {"append", "expiries"}, user : Users, picked : SUBSET Entry]
      BY <1>0, <2>1 DEF Edition, Idle
    <3>3. CASE admin' = [admin EXCEPT ![a] = Idle]
      BY <1>0, <3>3 DEF Idle
    <3>4. ASSUME NEW p, admin' = [admin EXCEPT ![a] = [admin[a] EXCEPT !.picked = admin[a].picked \ {p}]]
          PROVE  admin'[a].pc \in {"idle", "expiries"}
      <4>1. admin'[a] = [admin[a] EXCEPT !.picked = admin[a].picked \ {p}]
        BY <1>0, <3>4
      <4> QED BY <2>1, <3>2, <4>1
    <3> QED BY <3>1, <3>3, <3>4
  <2>4. ASSUME NEW k \in DOMAIN rows', rows'[k].source = "repo"
        PROVE  k \in DOMAIN rows /\ rows[k].source = "repo"
    <3>1. \/ rows' = rows
          \/ \E p : /\ <<admin[a].user, p.at>> \in DOMAIN rows
                    /\ SetExpires(<<admin[a].user, p.at>>, p.due)
      BY <1>6 DEF AssignExpiry
    <3>2. ASSUME NEW j \in DOMAIN rows, NEW due, SetExpires(j, due)
          PROVE  k \in DOMAIN rows /\ rows[k].source = "repo"
      <4>1. PICK row : row = [rows[j] EXCEPT !.due = due, !.present = due # "past"]
        OBVIOUS
      <4>2. rows[j] \in Row
        BY DEF TypeOK
      <4>3. rows' = [rows EXCEPT ![j] = row] /\ row.source = rows[j].source
        BY <3>2, <4>1, <4>2 DEF SetExpires, Row
      <4> QED BY <2>4, <4>3
    <3> QED BY <2>4, <3>1, <3>2
  <2>5. Tracked'
    BY <2>1, <2>2, <2>4 DEF RepoInv, Tracked, At
  <2>6. Drafts'
    BY <1>0, <2>3 DEF Drafts
  <2> QED BY <2>5, <2>6 DEF RepoInv
<1> QED BY <1>1, <1>2, <1>3, <1>4, <1>5, <1>6

\* The propagation moves every imported row of the old endpoint.
LEMMA PropagateTracks ==
  ASSUME TypeOK, RepoInv, OneAdmin, NEW a \in Admins, Propagate(a)
  PROVE  RepoInv'
<1>1. PICK old : old = admin[a].from
  OBVIOUS
<1>2. PICK new, due : new = admin[a].to.at /\ due = admin[a].to.due
  OBVIOUS
<1>3. PICK us : us = {u \in Users : <<u, old>> \in DOMAIN rows /\ rows[<<u, old>>].source = "repo"}
  OBVIOUS
<1>4. /\ \A b \in Admins : b = a
      /\ admin[a].pc = "propagate" /\ admin'[a].pc = "idle"
      /\ UNCHANGED <<repo, gone>>
  BY DEF OneAdmin, Propagate, Idle, TypeOK
<1>5. At(new) /\ \A x : (At(x)' <=> At(x)) /\ (Leaving(x) => x = old)
  BY <1>1, <1>2, <1>4 DEF RepoInv, Drafts, At, Leaving
<1>6. Drafts'
  BY <1>4 DEF Drafts
<1>7. Tracked'
  <2> SUFFICES ASSUME NEW k \in DOMAIN rows', rows'[k].source = "repo"
               PROVE  k[2] \in gone \/ At(k[2])
    BY <1>4, <1>5 DEF Tracked
  <2>1. CASE old = new
    <3>1. rows' = [j \in DOMAIN rows |->
                     IF j[1] \in us /\ j[2] = old THEN [rows[j] EXCEPT !.due = due] ELSE rows[j]]
      BY <1>1, <1>2, <1>3, <2>1 DEF Propagate
    <3>2. k \in DOMAIN rows /\ rows[k].source = "repo"
      <4>1. k \in DOMAIN rows /\ rows[k] \in Row
        BY <3>1 DEF TypeOK
      <4>2. [rows[k] EXCEPT !.due = due].source = rows[k].source
        BY <4>1 DEF Row
      <4> QED BY <3>1, <4>1, <4>2
    <3> QED BY <1>5, <2>1, <3>2 DEF RepoInv, Tracked
  <2>2. CASE old # new
    <3>1. rows' = [j \in (DOMAIN rows \cup us \X {new}) \ (us \X {old}) |->
                     IF j[1] \in us /\ j[2] = new THEN Merged(j[1], old, new, due) ELSE rows[j]]
      BY <1>1, <1>2, <1>3, <2>2 DEF Propagate
    <3>2. CASE k[2] = new
      BY <1>5, <3>2
    <3>3. CASE k[2] # new
      <4>1. k \in DOMAIN rows /\ k \notin us \X {old} /\ rows'[k] = rows[k]
        BY <3>1, <3>3
      <4>2. k \in Keys
        BY <4>1 DEF TypeOK
      <4>3. k[2] # old
        BY <1>3, <4>1, <4>2 DEF Keys
      <4> QED BY <1>5, <4>1, <4>3 DEF RepoInv, Tracked
    <3> QED BY <3>2, <3>3
  <2> QED BY <2>1, <2>2
<1> QED BY <1>6, <1>7 DEF RepoInv

\* An assignment imports exits at endpoints that it has read, and that are there.
LEMMA AppendTracks ==
  ASSUME TypeOK, RepoInv, OneAdmin, NEW a \in Admins, AppendExits(a)
  PROVE  RepoInv'
<1>1. PICK ks : ks = {<<admin[a].user, p.at>> : p \in admin[a].picked}
  OBVIOUS
<1>2. /\ \A b \in Admins : b = a
      /\ admin[a] \in Edition /\ admin \in [Admins -> Edition]
  BY DEF OneAdmin, TypeOK
<1>3. /\ rows' = [k \in DOMAIN rows \cup ks |-> IF k \in ks THEN Upsert(k, "repo") ELSE rows[k]]
      /\ admin' = [admin EXCEPT ![a] = [admin[a] EXCEPT !.pc = "expiries"]]
      /\ admin[a].pc = "append" /\ UNCHANGED <<repo, gone>>
  BY <1>1 DEF AppendExits
<1>4. admin'[a].pc = "expiries"
  <2>1. admin'[a] = [admin[a] EXCEPT !.pc = "expiries"]
    BY <1>2, <1>3
  <2>2. admin[a] \in [pc : {"append", "expiries"}, user : Users, picked : SUBSET Entry]
    BY <1>2, <1>3 DEF Edition, Idle
  <2> QED BY <2>1, <2>2
<1>5. \A k \in ks : At(k[2])
  BY <1>1, <1>3 DEF RepoInv, Drafts
<1>6. \A x : (At(x)' <=> At(x)) /\ ~Leaving(x)
  BY <1>2, <1>3 DEF At, Leaving
<1>7. Tracked'
  BY <1>3, <1>5, <1>6 DEF RepoInv, Tracked
<1>8. Drafts'
  BY <1>2, <1>4 DEF Drafts
<1> QED BY <1>7, <1>8 DEF RepoInv

\* With one administrator at a time that is inductive.
LEMMA RepoInvInductive ==
  ASSUME OneAdmin
  PROVE  /\ Init => RepoInv
         /\ TypeOK /\ RepoInv /\ [Next]_vars => RepoInv'
<1>1. Init => RepoInv
  BY DEF Init, RepoInv, Tracked, Drafts, Idle
<1>2. ASSUME TypeOK, RepoInv, UNCHANGED <<rows, repoVars>> PROVE RepoInv'
  BY <1>2, NothingImported DEF repoVars
<1>3. ASSUME TypeOK, RepoInv,
             \/ \E t \in Loaders : \E u \in Users : Load(t, u)
             \/ \E t \in Actors : Answer(t)
             \/ \E x \in Urls : CacheExpires(x) \/ Serve(x)
             \/ \E u \in Users : enforceExitQuota(u) \/ \E a \in Admins : apiSetUserLanding(a, u)
             \/ ListExpired \/ \E n \in Nodes : dispatchToNode(n)
             \/ UNCHANGED vars
      PROVE  RepoInv'
  <2>1. UNCHANGED <<rows, repoVars>>
    BY <1>3 DEF Load, Answer, CacheExpires, Serve, enforceExitQuota, apiSetUserLanding,
                ListExpired, dispatchToNode, exitVars, vars
  <2> QED BY <1>2, <1>3, <2>1
<1>4. ASSUME TypeOK, RepoInv,
             \/ \E t \in Actors : Sync(t)
             \/ \E r \in Rules : Bill(r)
             \/ DisableExpired
      PROVE  RepoInv'
  <2>1. UNCHANGED <<repo, gone, admin>>
    BY <1>4 DEF Sync, Bill, DisableExpired, repoVars
  <2> QED BY <1>4, <2>1, OthersTrack, NothingImported
<1>5. ASSUME TypeOK, RepoInv, NEW k \in Keys,
             \/ FallDue(k) \/ apiSetLandingExitQuota(k) \/ apiResetLandingExitTraffic(k)
             \/ apiDeleteLandingExit(k) \/ apiSetLandingExitExpires(k)
      PROVE  RepoInv'
  <2>1. UNCHANGED <<repo, gone, admin>>
    BY <1>5 DEF FallDue, apiSetLandingExitQuota, apiResetLandingExitTraffic,
                apiDeleteLandingExit, apiSetLandingExitExpires, repoVars
  <2> QED BY <1>5, <2>1, RequestsTrack, NothingImported
<1>6. ASSUME TypeOK, RepoInv, NEW a \in Admins, Editing(a) PROVE RepoInv'
  BY <1>6, RepoSteps, PropagateTracks, AppendTracks DEF Editing
<1>7. ASSUME TypeOK, RepoInv, NEW a \in Admins,
             \/ \E e \in Entries : apiCreateNodeRepoEntry(a, e) \/ apiDeleteNodeRepoEntry(a, e)
             \/ ReadEntry(a) \/ ReadAssigned(a)
      PROVE  RepoInv'
  BY <1>7, RepoSteps
<1> QED BY <1>1, <1>3, <1>4, <1>5, <1>6, <1>7 DEF Next, Resolve

\* With no request under way nothing is leaving.
LEMMA TrackedFollowed == RepoInv => RepoFollowed
BY DEF RepoInv, Tracked, At, Leaving, RepoFollowed

\* The rows of a user name what its source, as it is then, may have, and what was
\* used is forgotten on an administrator's word only, for any number of users,
\* exits, page loads and requests at a time.
THEOREM UsageAlwaysKept == Spec => [][UsageKept /\ OnlyFromSource]_vars
<1>1. TypeOK /\ TypeOK' /\ SyncNames /\ [Next]_vars => [UsageKept /\ OnlyFromSource]_vars
  BY UsageStep, SourceStep
<1>2. Spec => []TypeOK
  BY TypeCorrect
<1>3. Spec => []SyncNames
  BY <1>2, NamesInductive, PTL DEF Spec
<1> QED BY <1>1, <1>2, <1>3, PTL DEF Spec

\* Unless two administrators edit the repository at a time, imported exits are
\* where their entries are.
THEOREM RowsAlwaysFollow ==
  ASSUME OneAdmin
  PROVE  Spec => RowsFollow
<1>1. Spec => []RepoInv
  BY TypeCorrect, RepoInvInductive, PTL DEF Spec
<1>2. Spec => []RepoFollowed
  BY <1>1, TrackedFollowed, PTL
<1> QED BY <1>2, UsageAlwaysKept, PTL DEF RowsFollow

=============================================================================
