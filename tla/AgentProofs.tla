------------------------------ MODULE AgentProofs ------------------------------
(***************************************************************************)
(* Proofs about the two parts of the agent that survive it on the host it  *)
(* runs on: the ruleset it reconciles (AgentReconcile), for every choice   *)
(* of rules, revisions, threads and faults, and the proxy cores it runs    *)
(* (ProxyCores), for any instances, configurations, requests in progress   *)
(* and plans of what happens. The two share no state: the names of         *)
(* ProxyCores that would meet those of AgentReconcile are its own.         *)
(***************************************************************************)
EXTENDS AgentReconcile, ProxyCores, SumTheorems, SequenceTheorems

-----------------------------------------------------------------------------
(* The ruleset *)

USE DEF memory, storage, process

\* A call in progress is a record of the right fields.
LEMMA CallFields ==
  ASSUME NEW c \in Call \cup {Idle}, c.pc # "idle"
  PROVE  /\ c \in Call
         /\ c.candidate \in Segments /\ c.snapshot \in Segments
         /\ c.prev \in Resolved /\ c.applyable \in Resolved
         /\ c.newRev \in Revs \cup {NoRev} /\ c.saveToDisk \in BOOLEAN
BY DEF Call, Idle

\* What resolves is a set of rule-address pairs.
LEMMA ApplyableType ==
  ASSUME NEW rs \in SUBSET Rules, NEW ans
  PROVE  Applyable(rs, ans) \in Resolved
BY DEF Applyable, Resolved

\* The segments together are a set of rules.
LEMMA AllRulesType ==
  ASSUME NEW o \in Segments
  PROVE  AllRules(o) \in SUBSET Rules
BY DEF AllRules, Segments

\* The state of an agent that never saved anything is well typed.
LEMMA NoSegmentsType == NoSegments \in Segments /\ EmptyState \in StateFile
BY DEF NoSegments, Segments, EmptyState, StateFile

\* Starting a call from well-typed segments keeps the types.
LEMMA BeginType ==
  ASSUME TypeOK, NEW t \in Threads, NEW o \in Segments,
         NEW r \in Revs \cup {NoRev}, NEW s \in BOOLEAN, Begin(t, o, r, s)
  PROVE  TypeOK'
<1> DEFINE c == [pc |-> "resolve", snapshot |-> owners, prev |-> lastResolved,
                 candidate |-> o, applyable |-> {}, newRev |-> r,
                 saveToDisk |-> s]
<1>1. c \in Call
  BY DEF Call, TypeOK, Resolved
<1>2. work' = [work EXCEPT ![t] = c]
  BY DEF Begin
<1>3. work' \in [Threads -> Call \cup {Idle}]
  BY <1>1, <1>2 DEF TypeOK
<1> QED
  BY <1>3 DEF Begin, TypeOK

\* Every operation that starts a call does it with well-typed segments.
LEMMA StartCallBegins ==
  ASSUME TypeOK, NEW t \in Threads, StartCall(t)
  PROVE  \E o \in Segments, r \in Revs \cup {NoRev}, s \in BOOLEAN :
           Begin(t, o, r, s)
<1> USE RulesAssumption
<1>0. owners \in Segments
  BY DEF TypeOK
<1>1. ASSUME NEW r \in Revs, PanelPush(t, r) PROVE
        \E o \in Segments, q \in Revs \cup {NoRev}, s \in BOOLEAN :
          Begin(t, o, q, s)
  <2>1. [owners EXCEPT !.panel = Payload[r]] \in Segments
    BY <1>0 DEF Segments
  <2> QED
    BY <1>1, <2>1 DEF PanelPush
<1>2. ASSUME NEW r \in Revs, LocalApply(t, r) PROVE
        \E o \in Segments, q \in Revs \cup {NoRev}, s \in BOOLEAN :
          Begin(t, o, q, s)
  <2>1. [owners EXCEPT !.panel = Payload[r]] \in Segments
    BY <1>0 DEF Segments
  <2> QED
    BY <1>2, <2>1 DEF LocalApply
<1>3. ASSUME NEW x \in SUBSET Rules, NEW s \in BOOLEAN,
             Begin(t, [owners EXCEPT !.tui = x], NoRev, s) PROVE
        \E o \in Segments, q \in Revs \cup {NoRev}, b \in BOOLEAN :
          Begin(t, o, q, b)
  <2>1. [owners EXCEPT !.tui = x] \in Segments
    BY <1>0 DEF Segments
  <2> QED
    BY <1>3, <2>1
<1>4. owners.tui \in SUBSET Rules
  BY <1>0 DEF Segments
<1>5. CASE ClearTuiSegment(t)
  BY <1>3, <1>5 DEF ClearTuiSegment
<1>6. ASSUME NEW r \in Rules, CreateRule(t, r) \/ DeleteRule(t, r) PROVE
        \E o \in Segments, q \in Revs \cup {NoRev}, b \in BOOLEAN :
          Begin(t, o, q, b)
  <2>1. CASE CreateRule(t, r)
    <3>1. owners.tui \cup {r} \in SUBSET Rules
      BY <1>4
    <3>2. Begin(t, [owners EXCEPT !.tui = owners.tui \cup {r}], NoRev, TRUE)
      BY <2>1 DEF CreateRule
    <3> QED
      BY <1>3, <3>1, <3>2
  <2>2. CASE DeleteRule(t, r)
    <3>1. owners.tui \ {r} \in SUBSET Rules
      BY <1>4
    <3>2. Begin(t, [owners EXCEPT !.tui = owners.tui \ {r}], NoRev, TRUE)
      BY <2>2 DEF DeleteRule
    <3> QED
      BY <1>3, <3>1, <3>2
  <2> QED
    BY <1>6, <2>1, <2>2
<1>7. ASSUME NEW old \in Rules, NEW new \in Rules, UpdateRule(t, old, new)
      PROVE  \E o \in Segments, q \in Revs \cup {NoRev}, b \in BOOLEAN :
               Begin(t, o, q, b)
  <2>1. (owners.tui \ {old}) \cup {new} \in SUBSET Rules
    BY <1>4
  <2>2. Begin(t, [owners EXCEPT !.tui = (owners.tui \ {old}) \cup {new}],
              NoRev, TRUE)
    BY <1>7 DEF UpdateRule
  <2> QED
    BY <1>3, <2>1, <2>2
<1>8. CASE RefreshOnce(t)
  BY <1>0, <1>8 DEF RefreshOnce
<1> QED
  BY <1>1, <1>2, <1>5, <1>6, <1>7, <1>8 DEF StartCall, Edit

\* A failed apply invents no rule, and no second target for a key.
LEMMA HalfAppliedOneTarget ==
  ASSUME NEW old \in Resolved, NEW new \in Resolved,
         NEW plane \in HalfApplied(old, new)
  PROVE  plane \in Resolved /\ OneTarget(plane)
<1> DEFINE relays == {x \in old \cup new : x[1] \in Userspace}
<1>1. OneTarget(plane) /\ \E open \in SUBSET relays : plane = (old \ relays) \cup open
  BY DEF HalfApplied
<1>2. plane \subseteq old \cup new
  BY <1>1
<1> QED
  BY <1>1, <1>2 DEF Resolved

\* Continuing a call keeps the types.
LEMMA ContinueType ==
  ASSUME TypeOK, NEW t \in Threads, Continue(t)
  PROVE  TypeOK'
<1>0. work[t] \in Call \cup {Idle}
  BY DEF TypeOK
<1>1. CASE Resolve(t)
  <2> DEFINE ok == Applyable(AllRules(work[t].candidate), answers)
  <2>1. work[t] \in Call /\ work[t].candidate \in Segments
    BY <1>0, <1>1, CallFields DEF Resolve
  <2>2. ok \in Resolved
    BY <2>1, AllRulesType, ApplyableType
  <2>3. /\ [work[t] EXCEPT !.pc = "apply", !.applyable = ok] \in Call
        /\ [work[t] EXCEPT !.pc = "commit", !.applyable = ok] \in Call
    BY <2>1, <2>2 DEF Call
  <2>4. work' \in [Threads -> Call \cup {Idle}]
    <3> HIDE DEF ok
    <3>1. work' = [work EXCEPT ![t] =
            IF RulesDiffer(work[t].prev, ok)
            THEN [work[t] EXCEPT !.pc = "apply", !.applyable = ok]
            ELSE IF work[t].saveToDisk
                 THEN [work[t] EXCEPT !.pc = "commit", !.applyable = ok]
                 ELSE Idle]
      BY <1>1 DEF Resolve, ok
    <3> QED
      BY <2>3, <3>1 DEF TypeOK
  <2> QED
    BY <1>1, <2>4 DEF Resolve, TypeOK
<1>2. CASE Apply(t)
  <2>1. work[t] \in Call /\ work[t].applyable \in Resolved
    BY <1>0, <1>2, CallFields DEF Apply
  <2>2. [work[t] EXCEPT !.pc = "commit"] \in Call
    BY <2>1 DEF Call
  <2>3. work' \in [Threads -> Call \cup {Idle}]
    BY <1>2, <2>2 DEF Apply, TypeOK
  <2> QED
    BY <1>2, <2>1, <2>3 DEF Apply, TypeOK
<1>3. CASE ApplyFails(t)
  <2>1. work[t] \in Call /\ work[t].applyable \in Resolved
    BY <1>0, <1>3, CallFields DEF ApplyFails
  <2>2. kernel' \in Resolved
    BY <1>3, <2>1, HalfAppliedOneTarget DEF ApplyFails, TypeOK
  <2> QED
    BY <1>3, <2>2 DEF ApplyFails, TypeOK
<1>4. CASE Commit(t)
  <2>1. /\ work[t].candidate \in Segments /\ work[t].applyable \in Resolved
        /\ work[t].newRev \in Revs \cup {NoRev}
    BY <1>0, <1>4, CallFields DEF Commit
  <2>2. CommitRev(work[t]) \in Revs \cup {NoRev}
    BY <2>1 DEF CommitRev, TypeOK
  <2>3. disk' \in StateFile
    BY <1>4, <2>1, <2>2 DEF Commit, StateFile, TypeOK
  <2> QED
    BY <1>4, <2>1, <2>2, <2>3 DEF Commit, TypeOK
<1>5. CASE SaveFails(t)
  BY <1>5 DEF SaveFails, TypeOK
<1> QED
  BY <1>1, <1>2, <1>3, <1>4, <1>5 DEF Continue

\* Bootstrap keeps the types, the downgrade included.
LEMMA BootType ==
  ASSUME TypeOK,
         (\E url \in ConnectModes : BootstrapLoad(url)) \/ BootstrapApply
           \/ BootstrapApplyFails
  PROVE  TypeOK'
<1> USE RulesAssumption
<1>1. ASSUME NEW url \in ConnectModes, BootstrapLoad(url) PROVE TypeOK'
  <2>1. Downgrade(disk) \in StateFile
    BY DEF Downgrade, StateFile, Segments, TypeOK
  <2>2. disk' \in StateFile
    BY <1>1, <2>1 DEF BootstrapLoad, TypeOK
  <2> QED
    BY <1>1, <2>2 DEF BootstrapLoad, TypeOK
<1>2. CASE BootstrapApply
  <2>1. disk.owners \in Segments /\ disk.rev \in Revs \cup {NoRev}
    BY DEF TypeOK, StateFile
  <2>2. Applyable(AllRules(disk.owners), answers) \in Resolved
    BY <2>1, AllRulesType, ApplyableType
  <2> QED
    BY <1>2, <2>1, <2>2 DEF BootstrapApply, TypeOK
<1>3. CASE BootstrapApplyFails
  BY <1>3 DEF BootstrapApplyFails, TypeOK
<1> QED
  BY <1>1, <1>2, <1>3

\* So do the panel session, DNS answers, crashes and write-backs.
LEMMA EnvironmentType ==
  ASSUME TypeOK, Environment
  PROVE  TypeOK'
<1>1. CASE Connect
  BY <1>1 DEF Connect, TypeOK
<1>2. CASE Disconnect
  BY <1>2 DEF Disconnect, TypeOK
<1>3. ASSUME NEW h \in Names, NEW a \in Answer, DnsChange(h, a) PROVE TypeOK'
  BY <1>3 DEF DnsChange, TypeOK
<1>4. ASSUME Stopped, kernel' \in Resolved, disk' \in StateFile,
             flushed' \in StateFile
      PROVE  TypeOK'
  BY <1>4, NoSegmentsType DEF Stopped, TypeOK, Resolved
<1>5. CASE Crash
  <2>1. kernel' \in Resolved
    BY <1>5 DEF Crash, TypeOK, Resolved
  <2> QED
    BY <1>4, <1>5, <2>1 DEF Crash, TypeOK
<1>6. CASE PowerLoss
  BY <1>4, <1>6 DEF PowerLoss, TypeOK, Resolved
<1>7. CASE WriteBack
  BY <1>7 DEF WriteBack, TypeOK
<1> QED
  BY <1>1, <1>2, <1>3, <1>5, <1>6, <1>7 DEF Environment

\* The initial states, an imported one included, are well typed.
LEMMA InitType == Init => TypeOK
<1> SUFFICES ASSUME Init PROVE TypeOK
  OBVIOUS
<1>1. disk \in StateFile
  BY NoSegmentsType, ImportedAssumption DEF Init, StateFile, Segments
<1> QED
  BY <1>1, RulesAssumption, NoSegmentsType DEF Init, TypeOK, Resolved

\* Type correctness of every variable, in every reachable state.
THEOREM TypeCorrect == Spec => []TypeOK
<1>1. Init => TypeOK
  BY InitType
<1>2. TypeOK /\ [Next]_vars => TypeOK'
  <2> SUFFICES ASSUME TypeOK, [Next]_vars PROVE TypeOK'
    OBVIOUS
  <2>1. ASSUME NEW t \in Threads, StartCall(t) PROVE TypeOK'
    BY <2>1, StartCallBegins, BeginType
  <2>2. CASE UNCHANGED vars
    BY <2>2 DEF vars, TypeOK
  <2> QED
    BY <2>1, <2>2, ContinueType, BootType, EnvironmentType DEF Next
<1> QED
  BY <1>1, <1>2, PTL DEF Spec

-----------------------------------------------------------------------------
(***************************************************************************)
(* The persisted state always boots, no port has two targets, and the      *)
(* reported revision is the persisted one. None of the three is inductive: *)
(* a call in progress carries the segments and the resolved rules it will  *)
(* install, and the invariant must speak of those as well.                 *)
(***************************************************************************)
\* A call in progress will install segments without a conflict, applies one
\* target per key, records no revision unless it saves, and is in progress
\* only while the process is up.
CallInv(c) ==
  c.pc # "idle" =>
    /\ phase = "up"
    /\ ConflictFree(c.candidate)
    /\ OneTarget(c.applyable)
    /\ ~c.saveToDisk => c.newRev = NoRev

IInv ==
  /\ TypeOK
  /\ Bootable
  /\ OneTargetPerKey
  /\ RevPersisted
  /\ phase = "up" => ConflictFree(owners)
  /\ \A t \in Threads : CallInv(work[t])

\* Conflict-free segments resolve to one target per key, whatever DNS says.
LEMMA ResolvedOneTarget ==
  ASSUME NEW o \in Segments, ConflictFree(o), NEW ans
  PROVE  OneTarget(Applyable(AllRules(o), ans))
<1> SUFFICES ASSUME NEW x \in Applyable(AllRules(o), ans),
                    NEW y \in Applyable(AllRules(o), ans),
                    KeyOf[x[1]] = KeyOf[y[1]]
             PROVE  x = y
  BY DEF OneTarget
<1>1. /\ x \in AllRules(o) \X Addrs /\ x[2] = ans[HostOf[x[1]]]
      /\ y \in AllRules(o) \X Addrs /\ y[2] = ans[HostOf[y[1]]]
  BY DEF Applyable
<1>2. x[1] = y[1]
  BY <1>1 DEF ConflictFree
<1> QED
  BY <1>1, <1>2

\* Empty segments conflict with nothing.
LEMMA NoSegmentsConflictFree ==
  ConflictFree(NoSegments) /\ ConflictFree(EmptyState.owners)
BY DEF ConflictFree, NoSegments, EmptyState, AllRules

\* Moving the panel segment to "tui" adds no conflict: the union is the same.
LEMMA DowngradeConflictFree ==
  ASSUME NEW s \in StateFile, ConflictFree(s.owners)
  PROVE  ConflictFree(Downgrade(s).owners)
BY DEF ConflictFree, Downgrade, AllRules, StateFile, Segments

\* A call that passes the merge check brings a conflict-free candidate.
LEMMA BeginInv ==
  ASSUME IInv, NEW t \in Threads, NEW o, NEW r, NEW s \in BOOLEAN,
         Begin(t, o, r, s), ~s => r = NoRev, TypeOK'
  PROVE  IInv'
<1> DEFINE c == [pc |-> "resolve", snapshot |-> owners, prev |-> lastResolved,
                 candidate |-> o, applyable |-> {}, newRev |-> r,
                 saveToDisk |-> s]
<1>1. /\ phase = "up" /\ ConflictFree(o)
      /\ work' = [work EXCEPT ![t] = c]
      /\ UNCHANGED <<process, memory, storage, kernel, answers>>
  BY DEF Begin, MergedRuleset
<1>2. CallInv(c)'
  BY <1>1 DEF CallInv, OneTarget, ConflictFree, AllRules
<1>3. ASSUME NEW u \in Threads PROVE CallInv(work[u])'
  <2>1. CASE u = t
    BY <1>1, <1>2, <2>1 DEF IInv, TypeOK
  <2>2. CASE u # t
    BY <1>1, <2>2 DEF IInv, TypeOK, CallInv, ConflictFree, AllRules, OneTarget
  <2> QED
    BY <2>1, <2>2
<1> QED
  BY <1>1, <1>3 DEF IInv, Bootable, OneTargetPerKey, RevPersisted, ConflictFree,
     AllRules

\* No operation records a revision without saving it.
LEMMA StartCallRev ==
  ASSUME NEW t \in Threads, StartCall(t)
  PROVE  \E o, r : \E s \in BOOLEAN : Begin(t, o, r, s) /\ (~s => r = NoRev)
<1>1. ASSUME NEW o, NEW r, Begin(t, o, r, TRUE)
      PROVE  \E q, p : \E s \in BOOLEAN : Begin(t, q, p, s) /\ (~s => p = NoRev)
  BY <1>1
<1>2. CASE \E r \in Revs : PanelPush(t, r) \/ LocalApply(t, r)
  BY <1>1, <1>2 DEF PanelPush, LocalApply
<1>3. CASE ClearTuiSegment(t)
  BY <1>1, <1>3 DEF ClearTuiSegment
<1>4. CASE Edit(t)
  BY <1>1, <1>4 DEF Edit, CreateRule, DeleteRule, UpdateRule
<1>5. CASE RefreshOnce(t)
  BY <1>5 DEF RefreshOnce
<1> QED
  BY <1>2, <1>3, <1>4, <1>5 DEF StartCall

\* Resolving, applying and committing carry the candidate from the merge check
\* to data plane, disk and memory, and a failure at any step leaves them alone
\* or half applies.
LEMMA ContinueInv ==
  ASSUME IInv, NEW t \in Threads, Continue(t), TypeOK'
  PROVE  IInv'
<1>0. /\ work[t] \in Call \cup {Idle} /\ CallInv(work[t])
      /\ work \in [Threads -> Call \cup {Idle}]
  BY DEF IInv, TypeOK
<1> DEFINE rest == \A u \in Threads \ {t} : work'[u] = work[u]
<1>1. ASSUME phase' = phase, rest, CallInv(work[t])'
      PROVE  \A u \in Threads : CallInv(work[u])'
  BY <1>1 DEF IInv, CallInv, ConflictFree, AllRules, OneTarget
<1>2. CASE Resolve(t)
  <2> DEFINE ok == Applyable(AllRules(work[t].candidate), answers)
  <2>1. /\ work[t] \in Call /\ work[t].candidate \in Segments
        /\ ConflictFree(work[t].candidate) /\ phase = "up"
        /\ ~work[t].saveToDisk => work[t].newRev = NoRev
    BY <1>0, <1>2, CallFields DEF Resolve, CallInv
  <2>2. OneTarget(ok)
    BY <2>1, ResolvedOneTarget
  <2> HIDE DEF ok
  <2>3. \/ work'[t] = [work[t] EXCEPT !.pc = "apply", !.applyable = ok]
        \/ work'[t] = [work[t] EXCEPT !.pc = "commit", !.applyable = ok]
        \/ work'[t] = Idle
    BY <1>0, <1>2 DEF Resolve, ok
  <2>4. CallInv(work[t])'
    <3>1. phase' = phase
      BY <1>2 DEF Resolve
    <3>2. CASE work'[t] = Idle
      BY <3>2 DEF CallInv, Idle
    <3>3. CASE work'[t] # Idle
      <4>1. /\ work'[t].candidate = work[t].candidate
            /\ work'[t].applyable = ok
            /\ work'[t].saveToDisk = work[t].saveToDisk
            /\ work'[t].newRev = work[t].newRev
        BY <2>1, <2>3, <3>3 DEF Call
      <4> QED
        BY <2>1, <2>2, <3>1, <4>1 DEF CallInv, ConflictFree, AllRules, OneTarget
    <3> QED
      BY <3>2, <3>3
  <2> QED
    BY <1>0, <1>1, <1>2, <2>4 DEF Resolve, IInv, Bootable, OneTargetPerKey,
       RevPersisted, ConflictFree, AllRules
<1>3. CASE Apply(t)
  <2>1. work[t] \in Call /\ OneTarget(work[t].applyable)
    BY <1>0, <1>3, CallFields DEF Apply, CallInv
  <2>2. CallInv(work[t])'
    <3>1. work'[t] = [work[t] EXCEPT !.pc = "commit"] /\ phase' = phase
      BY <1>0, <1>3 DEF Apply
    <3>2. /\ work'[t].candidate = work[t].candidate
          /\ work'[t].applyable = work[t].applyable
          /\ work'[t].saveToDisk = work[t].saveToDisk
          /\ work'[t].newRev = work[t].newRev
      BY <2>1, <3>1 DEF Call
    <3> QED
      BY <1>0, <1>3, <3>1, <3>2 DEF Apply, CallInv, ConflictFree, AllRules,
         OneTarget
  <2> QED
    BY <1>0, <1>1, <1>3, <2>1, <2>2 DEF Apply, IInv, Bootable, OneTargetPerKey,
       OneTarget, RevPersisted, ConflictFree, AllRules
<1>4. ASSUME work' = [work EXCEPT ![t] = Idle],
             UNCHANGED <<process, memory, storage, kernel, answers>>
      PROVE  IInv'
  <2>1. CallInv(work[t])'
    BY <1>0, <1>4 DEF CallInv, Idle
  <2> QED
    BY <1>0, <1>1, <1>4, <2>1 DEF IInv, Bootable, OneTargetPerKey, RevPersisted,
       ConflictFree, AllRules
<1>5. CASE Commit(t)
  <2>1. /\ ConflictFree(work[t].candidate) /\ phase = "up"
        /\ ~work[t].saveToDisk => work[t].newRev = NoRev
    BY <1>0, <1>5 DEF Commit, CallInv
  <2>2. ConflictFree(owners)' /\ ConflictFree(disk.owners)'
    BY <1>5, <2>1 DEF Commit, IInv, Bootable, ConflictFree, AllRules
  <2>3. rev' = disk'.rev
    BY <1>5, <2>1 DEF Commit, CommitRev, IInv, RevPersisted
  <2>4. CallInv(work[t])'
    BY <1>0, <1>5 DEF Commit, CallInv, Idle
  <2> QED
    BY <1>0, <1>1, <1>5, <2>2, <2>3, <2>4 DEF Commit, IInv, Bootable,
       OneTargetPerKey, RevPersisted, ConflictFree, AllRules
<1>6. CASE ApplyFails(t)
  <2>1. work[t].applyable \in Resolved
    BY <1>0, <1>6, CallFields DEF ApplyFails
  <2>2. OneTarget(kernel')
    BY <1>6, <2>1, HalfAppliedOneTarget DEF ApplyFails, IInv, TypeOK
  <2>3. CallInv(work[t])'
    BY <1>0, <1>6 DEF ApplyFails, CallInv, Idle
  <2> QED
    BY <1>0, <1>1, <1>6, <2>2, <2>3 DEF ApplyFails, IInv, Bootable,
       OneTargetPerKey, OneTarget, RevPersisted, ConflictFree, AllRules
<1>7. CASE SaveFails(t)
  BY <1>4, <1>7 DEF SaveFails
<1> QED
  BY <1>2, <1>3, <1>5, <1>6, <1>7 DEF Continue

\* Bootstrap fills memory from the file it read, or ends the process.
LEMMA BootInv ==
  ASSUME IInv, TypeOK',
         (\E url \in ConnectModes : BootstrapLoad(url)) \/ BootstrapApply
           \/ BootstrapApplyFails
  PROVE  IInv'
<1>0. /\ disk \in StateFile /\ disk.owners \in Segments
      /\ ConflictFree(disk.owners)
  BY DEF IInv, TypeOK, StateFile, Bootable
<1>1. ASSUME work' = work, phase # "up" PROVE \A t \in Threads : CallInv(work[t])'
  BY <1>1 DEF IInv, CallInv
<1>2. ASSUME NEW url \in ConnectModes, BootstrapLoad(url) PROVE IInv'
  <2>1. ConflictFree(disk.owners)'
    BY <1>0, <1>2, DowngradeConflictFree DEF BootstrapLoad, ConflictFree, AllRules
  <2>2. ConflictFree(flushed.owners)' /\ phase # "up" /\ phase' # "up"
    BY <1>2 DEF BootstrapLoad, IInv, Bootable, ConflictFree, AllRules
  <2> QED
    BY <1>1, <1>2, <2>1, <2>2 DEF BootstrapLoad, IInv, Bootable, OneTargetPerKey,
       RevPersisted
<1>3. CASE BootstrapApply
  <2>1. OneTarget(Applyable(AllRules(disk.owners), answers))
    BY <1>0, ResolvedOneTarget
  <2>2. OneTargetPerKey'
    BY <1>3, <2>1 DEF BootstrapApply, IInv, OneTargetPerKey, OneTarget
  <2>3. ConflictFree(owners)'
    BY <1>0, <1>3 DEF BootstrapApply, ConflictFree, AllRules
  <2> QED
    BY <1>1, <1>3, <2>2, <2>3 DEF BootstrapApply, IInv, Bootable, RevPersisted,
       ConflictFree, AllRules
<1>4. CASE BootstrapApplyFails
  BY <1>1, <1>4 DEF BootstrapApplyFails, IInv, Bootable, OneTargetPerKey,
     RevPersisted, ConflictFree, AllRules
<1> QED
  BY <1>2, <1>3, <1>4

\* A crash forgets the calls in progress, never a part of state.json.
LEMMA EnvironmentInv ==
  ASSUME IInv, TypeOK', Environment
  PROVE  IInv'
<1>1. ASSUME UNCHANGED <<phase, memory, storage, kernel, work>> PROVE IInv'
  BY <1>1 DEF IInv, Bootable, OneTargetPerKey, RevPersisted, CallInv, OneTarget,
     ConflictFree, AllRules
<1>2. CASE Connect \/ Disconnect
  BY <1>1, <1>2 DEF Connect, Disconnect
<1>3. ASSUME NEW h \in Names, NEW a \in Answer, DnsChange(h, a) PROVE IInv'
  BY <1>1, <1>3 DEF DnsChange
<1>4. ASSUME Stopped, kernel' \subseteq kernel,
             disk' \in {disk, flushed}, flushed' \in {disk, flushed}
      PROVE  IInv'
  <2>1. \A t \in Threads : CallInv(work[t])'
    BY <1>4 DEF Stopped, CallInv, Idle
  <2>2. phase' = "down" /\ OneTargetPerKey' /\ Bootable'
    BY <1>4 DEF Stopped, IInv, OneTargetPerKey, OneTarget, Bootable, ConflictFree,
       AllRules
  <2> QED
    BY <2>1, <2>2 DEF IInv, RevPersisted
<1>5. CASE Crash
  BY <1>4, <1>5 DEF Crash
<1>6. CASE PowerLoss
  BY <1>4, <1>6 DEF PowerLoss
<1>7. CASE WriteBack
  BY <1>7 DEF WriteBack, IInv, Bootable, OneTargetPerKey, RevPersisted, CallInv,
     OneTarget, ConflictFree, AllRules
<1> QED
  BY <1>2, <1>3, <1>5, <1>6, <1>7 DEF Environment

\* The inductive invariant: the merge check of a call reaches its commit.
LEMMA IInvariant == Spec => []IInv
<1>1. Init => IInv
  <2> SUFFICES ASSUME Init PROVE IInv
    OBVIOUS
  <2>1. TypeOK
    BY InitType
  <2>2. \A t \in Threads : CallInv(work[t])
    BY DEF Init, CallInv, Idle
  <2>3. ConflictFree(disk.owners)
    BY NoSegmentsConflictFree, ImportedAssumption DEF Init, ConflictFree, AllRules
  <2> QED
    BY <2>1, <2>2, <2>3 DEF Init, IInv, Bootable, OneTargetPerKey, OneTarget,
       RevPersisted, ConflictFree, AllRules
<1>2. IInv /\ [Next]_vars /\ TypeOK' => IInv'
  <2> SUFFICES ASSUME IInv, [Next]_vars, TypeOK' PROVE IInv'
    OBVIOUS
  <2>1. ASSUME NEW t \in Threads, StartCall(t) PROVE IInv'
    BY <2>1, StartCallRev, BeginInv
  <2>2. CASE UNCHANGED vars
    BY <2>2 DEF vars, IInv, Bootable, OneTargetPerKey, RevPersisted, CallInv,
       OneTarget, ConflictFree, AllRules
  <2> QED
    BY <2>1, <2>2, ContinueInv, BootInv, EnvironmentInv DEF Next
<1> QED
  BY <1>1, <1>2, TypeCorrect, PTL DEF Spec

\* No sequence of calls, overlaps, failures, crashes and downgrades leaves a
\* state file that Bootstrap refuses with "persisted state has conflict".
THEOREM AlwaysBootable == Spec => []Bootable
BY IInvariant, PTL DEF IInv

\* The data plane never holds two targets for one (proto, listen port).
THEOREM AlwaysOneTargetPerKey == Spec => []OneTargetPerKey
BY IInvariant, PTL DEF IInv

\* The revision the agent reports is always the one state.json holds.
THEOREM AlwaysRevPersisted == Spec => []RevPersisted
BY IInvariant, PTL DEF IInv

-----------------------------------------------------------------------------
(***************************************************************************)
(* Where every target is an address literal (Names is empty) and the panel *)
(* is the only writer (no local handlers), the recorded revision is honest *)
(* and memory is as on disk in spite of the refresh loop: a refresh then   *)
(* always recomputes what its snapshot says is applied, so never commits.  *)
(***************************************************************************)
Honest(s) == s.rev # NoRev => s.owners.panel = Payload[s.rev]

Want(o) == Applyable(AllRules(o), answers)

RefreshInv(c) ==
  /\ c.pc \in {"idle", "resolve"}
  /\ c.pc = "resolve" => ~c.saveToDisk /\ c.prev = Want(c.candidate)

\* The dialer's call replaces the panel segment by that of its revision, or
\* keeps the segment together with the revision.
DialerInv(c) ==
  c.pc # "idle" =>
    /\ c.saveToDisk
    /\ c.newRev # NoRev => c.candidate.panel = Payload[c.newRev]
    /\ c.newRev = NoRev => c.candidate.panel = owners.panel
    /\ c.pc # "resolve" => c.applyable = Want(c.candidate)

HInv(d) ==
  /\ TypeOK
  /\ MemoryHonest /\ MemoryIsDisk
  /\ Honest(disk) /\ Honest(flushed)
  /\ phase = "up" => lastResolved = Want(owners)
  /\ \A t \in Threads : work[t].pc # "idle" => phase = "up"
  /\ \A t \in RefreshThreads : RefreshInv(work[t])
  /\ DialerInv(work[d])

PanelOnly(d) ==
  /\ Names = {} /\ ApplyThreads = {} /\ EditThreads = {}
  /\ DialerThreads = {d}

\* Initially no revision is recorded anywhere.
LEMMA HonestInit ==
  ASSUME NEW d, PanelOnly(d), Init, TypeOK
  PROVE  HInv(d)
BY DEF PanelOnly, Init, HInv, MemoryHonest, MemoryIsDisk, Honest, EmptyState, NoSegments,
   Threads, RefreshInv, DialerInv, Idle

\* A push starts with the rules of its revision, a refresh with the segments it
\* will find already resolved.
LEMMA HonestStart ==
  ASSUME NEW d, PanelOnly(d), HInv(d), NEW t \in Threads, StartCall(t), TypeOK'
  PROVE  HInv(d)'
<1> USE ThreadsAssumption, RulesAssumption
<1> DEFINE call(o, r, s) ==
      [pc |-> "resolve", snapshot |-> owners, prev |-> lastResolved,
       candidate |-> o, applyable |-> {}, newRev |-> r, saveToDisk |-> s]
<1>0. /\ d \notin RefreshThreads /\ d \in Threads
      /\ t = d \/ t \in RefreshThreads
      /\ work \in [Threads -> Call \cup {Idle}] /\ owners \in Segments
  BY DEF PanelOnly, Threads, HInv, TypeOK
<1>1. ASSUME NEW o, NEW r, NEW s, Begin(t, o, r, s),
             t \in RefreshThreads => ~s /\ o = owners,
             t = d => /\ s
                      /\ r # NoRev => o.panel = Payload[r]
                      /\ r = NoRev => o.panel = owners.panel
      PROVE  HInv(d)'
  <2>1. /\ phase = "up" /\ work[t].pc = "idle"
        /\ work' = [work EXCEPT ![t] = call(o, r, s)]
        /\ UNCHANGED <<process, memory, storage, kernel, answers>>
    BY <1>1 DEF Begin
  <2>2. work'[t] = call(o, r, s) /\ \A u \in Threads \ {t} : work'[u] = work[u]
    BY <1>0, <2>1
  <2>3. \A u \in RefreshThreads : RefreshInv(work[u])'
    <3> SUFFICES ASSUME NEW u \in RefreshThreads PROVE RefreshInv(work[u])'
      OBVIOUS
    <3>1. CASE u = t
      BY <1>1, <2>1, <2>2, <3>1 DEF RefreshInv, HInv, Want, Applyable, AllRules
    <3>2. CASE u # t
      BY <2>1, <2>2, <3>2 DEF Threads, RefreshInv, HInv, Want, Applyable, AllRules
    <3> QED
      BY <3>1, <3>2
  <2>4. DialerInv(work[d])'
    <3>1. CASE t = d
      BY <1>1, <2>1, <2>2, <3>1 DEF DialerInv
    <3>2. CASE t # d
      BY <1>0, <2>1, <2>2, <3>2 DEF DialerInv, HInv, Want, Applyable, AllRules
    <3> QED
      BY <3>1, <3>2
  <2>5. \A u \in Threads : work'[u].pc # "idle" => phase' = "up"
    BY <2>1, <2>2 DEF HInv
  <2> QED
    BY <2>1, <2>3, <2>4, <2>5 DEF HInv, MemoryHonest, MemoryIsDisk, Honest, Want, Applyable,
       AllRules
<1>2. ASSUME NEW r \in Revs, PanelPush(t, r) PROVE HInv(d)'
  <2>1. t = d /\ r # NoRev
    BY <1>0, <1>2 DEF PanelPush, PanelOnly
  <2>2. [owners EXCEPT !.panel = Payload[r]].panel = Payload[r]
    BY <1>0 DEF Segments
  <2> QED
    BY <1>0, <1>1, <1>2, <2>1, <2>2 DEF PanelPush
<1>3. CASE ClearTuiSegment(t)
  <2>1. t = d
    BY <1>3 DEF ClearTuiSegment, PanelOnly
  <2>2. [owners EXCEPT !.tui = {}].panel = owners.panel
    BY <1>0 DEF Segments
  <2> QED
    BY <1>0, <1>1, <1>3, <2>1, <2>2 DEF ClearTuiSegment
<1>4. CASE RefreshOnce(t)
  <2>1. t \in RefreshThreads
    BY <1>4 DEF RefreshOnce
  <2> QED
    BY <1>0, <1>1, <1>4, <2>1 DEF RefreshOnce
<1> QED
  BY <1>2, <1>3, <1>4 DEF StartCall, LocalApply, Edit, CreateRule, UpdateRule,
     DeleteRule, PanelOnly

\* A refresh never goes past its comparison, and only the dialer commits.
LEMMA HonestContinue ==
  ASSUME NEW d, PanelOnly(d), HInv(d), NEW t \in Threads, Continue(t), TypeOK'
  PROVE  HInv(d)'
<1> USE ThreadsAssumption, RulesAssumption
<1>0. /\ d \notin RefreshThreads /\ d \in Threads
      /\ t = d \/ t \in RefreshThreads
      /\ work \in [Threads -> Call \cup {Idle}] /\ owners \in Segments
      /\ RefreshThreads \subseteq Threads
      /\ work[t].pc # "idle" /\ work[t] \in Call /\ phase = "up"
  BY CallFields DEF PanelOnly, Threads, HInv, TypeOK, Continue, Resolve, Apply,
     ApplyFails, Commit, SaveFails
<1>1. CASE Resolve(t) /\ t \in RefreshThreads
  <2>1. /\ ~work[t].saveToDisk
        /\ work[t].prev = Applyable(AllRules(work[t].candidate), answers)
    BY <1>1 DEF Resolve, HInv, RefreshInv, Want
  <2>2. work' = [work EXCEPT ![t] = Idle]
    BY <1>1, <2>1 DEF Resolve, RulesDiffer
  <2>3. UNCHANGED <<process, memory, storage, kernel, answers>>
    BY <1>1 DEF Resolve
  <2>4. \A u \in RefreshThreads : RefreshInv(work[u])'
    BY <1>0, <2>2, <2>3 DEF HInv, RefreshInv, Want, Applyable, AllRules, Idle
  <2>5. DialerInv(work[d])' /\ (lastResolved = Want(owners) <=> (lastResolved = Want(owners))')
    BY <1>0, <1>1, <2>2, <2>3 DEF HInv, DialerInv, Want, Applyable, AllRules
  <2>6. \A u \in Threads : work'[u].pc # "idle" => phase' = "up"
    BY <1>0, <2>2, <2>3 DEF Idle
  <2> QED
    BY <2>3, <2>4, <2>5, <2>6 DEF HInv, MemoryHonest, MemoryIsDisk, Honest
<1>2. t \in RefreshThreads => Resolve(t)
  BY <1>0 DEF Continue, Apply, ApplyFails, Commit, SaveFails, HInv, RefreshInv
<1>3. CASE Resolve(t) /\ t = d
  <2> DEFINE ok == Applyable(AllRules(work[d].candidate), answers)
  <2>1. work[d].saveToDisk
    BY <1>0, <1>3 DEF HInv, DialerInv
  <2>2. \/ work'[d] = [work[d] EXCEPT !.pc = "apply", !.applyable = ok]
        \/ work'[d] = [work[d] EXCEPT !.pc = "commit", !.applyable = ok]
    BY <1>0, <1>3, <2>1 DEF Resolve
  <2> HIDE DEF ok
  <2>3. /\ work'[d].candidate = work[d].candidate
        /\ work'[d].newRev = work[d].newRev
        /\ work'[d].saveToDisk = work[d].saveToDisk
        /\ work'[d].applyable = ok
    BY <1>0, <1>3, <2>2 DEF Call
  <2>4. DialerInv(work[d])'
    BY <1>0, <1>3, <2>3 DEF DialerInv, HInv, Resolve, Want, Applyable, AllRules,
       ok
  <2>5. \A u \in RefreshThreads : work'[u] = work[u]
    BY <1>0, <1>3 DEF Resolve
  <2> QED
    BY <1>0, <1>3, <2>4, <2>5 DEF Resolve, HInv, MemoryHonest, MemoryIsDisk, Honest, Want,
       Applyable, AllRules, RefreshInv
<1>4. CASE Apply(t) /\ t = d
  <2>1. work'[d] = [work[d] EXCEPT !.pc = "commit"]
    BY <1>0, <1>4 DEF Apply
  <2>2. /\ work'[d].candidate = work[d].candidate
        /\ work'[d].newRev = work[d].newRev
        /\ work'[d].saveToDisk = work[d].saveToDisk
        /\ work'[d].applyable = work[d].applyable
    BY <1>0, <1>4, <2>1 DEF Call
  <2>3. DialerInv(work[d])'
    BY <1>0, <1>4, <2>2 DEF DialerInv, HInv, Apply, Want, Applyable, AllRules
  <2>4. \A u \in RefreshThreads : work'[u] = work[u]
    BY <1>0, <1>4 DEF Apply
  <2> QED
    BY <1>0, <1>4, <2>3, <2>4 DEF Apply, HInv, MemoryHonest, MemoryIsDisk, Honest, Want,
       Applyable, AllRules, RefreshInv
<1>5. CASE (ApplyFails(t) \/ SaveFails(t)) /\ t = d
  BY <1>0, <1>5 DEF ApplyFails, SaveFails, HInv, MemoryHonest, MemoryIsDisk, Honest, Want,
     Applyable, AllRules, RefreshInv, DialerInv, Idle
<1>6. CASE Commit(t) /\ t = d
  <2>1. /\ work[d].saveToDisk
        /\ work[d].newRev # NoRev => work[d].candidate.panel = Payload[work[d].newRev]
        /\ work[d].newRev = NoRev => work[d].candidate.panel = owners.panel
        /\ work[d].applyable = Want(work[d].candidate)
    BY <1>0, <1>6 DEF HInv, DialerInv, Commit
  <2>2. /\ owners' = work[d].candidate /\ rev' = CommitRev(work[d])
        /\ disk' = [owners |-> owners', rev |-> rev']
        /\ lastResolved' = Want(owners')
        /\ UNCHANGED <<process, flushed, kernel, answers>>
    BY <1>6, <2>1 DEF Commit, Want
  <2>3. rev' # NoRev => owners'.panel = Payload[rev']
    BY <1>0, <2>1, <2>2 DEF CommitRev, HInv, MemoryHonest
  <2>4. MemoryHonest' /\ MemoryIsDisk' /\ Honest(disk)' /\ Honest(flushed)'
    BY <2>2, <2>3 DEF MemoryHonest, MemoryIsDisk, Honest, HInv
  <2>5. DialerInv(work[d])' /\ \A u \in RefreshThreads : work'[u] = work[u]
    BY <1>0, <1>6 DEF Commit, DialerInv, Idle
  <2>6. \A u \in RefreshThreads : RefreshInv(work[u])'
    BY <2>2, <2>5 DEF RefreshInv, HInv, Want, Applyable, AllRules
  <2>7. (lastResolved = Want(owners))'
    BY <2>2 DEF Want, Applyable, AllRules
  <2> QED
    BY <1>0, <2>2, <2>4, <2>5, <2>6, <2>7 DEF HInv
<1> QED
  BY <1>0, <1>1, <1>2, <1>3, <1>4, <1>5, <1>6 DEF Continue

\* Starting, stopping and DNS keep segments and revision together.
LEMMA HonestOther ==
  ASSUME NEW d, PanelOnly(d), HInv(d), TypeOK',
         \/ \E url \in ConnectModes : BootstrapLoad(url)
         \/ BootstrapApply \/ BootstrapApplyFails
         \/ Environment \/ UNCHANGED vars
  PROVE  HInv(d)'
<1> USE ThreadsAssumption
<1>0. d \in Threads /\ RefreshThreads \subseteq Threads
  BY DEF PanelOnly, Threads
<1>1. ASSUME NEW url \in ConnectModes, BootstrapLoad(url) PROVE HInv(d)'
  BY <1>0, <1>1 DEF BootstrapLoad, HInv, MemoryHonest, MemoryIsDisk, Honest, Downgrade, Want,
     Applyable, AllRules, RefreshInv, DialerInv
<1>2. CASE BootstrapApply
  BY <1>0, <1>2 DEF BootstrapApply, HInv, MemoryHonest, MemoryIsDisk, Honest, Want,
     Applyable, AllRules, RefreshInv, DialerInv
<1>3. CASE BootstrapApplyFails
  BY <1>0, <1>3 DEF BootstrapApplyFails, HInv, MemoryHonest, MemoryIsDisk, Honest, Want,
     Applyable, AllRules, RefreshInv, DialerInv
<1>4. ASSUME UNCHANGED <<phase, memory, answers, work>>,
             disk' = disk, flushed' \in {disk, flushed}
      PROVE  HInv(d)'
  BY <1>4 DEF HInv, MemoryHonest, MemoryIsDisk, Honest, Want, Applyable, AllRules,
     RefreshInv, DialerInv
<1>5. ASSUME Stopped, disk' \in {disk, flushed}, flushed' \in {disk, flushed}
      PROVE  HInv(d)'
  BY <1>0, <1>5 DEF Stopped, HInv, MemoryHonest, MemoryIsDisk, Honest, RefreshInv, DialerInv,
     Idle
<1>6. CASE Environment
  BY <1>4, <1>5, <1>6 DEF Environment, Connect, Disconnect, Crash, PowerLoss,
     WriteBack, PanelOnly
<1>7. CASE UNCHANGED vars
  BY <1>4, <1>7 DEF vars
<1> QED
  BY <1>1, <1>2, <1>3, <1>6, <1>7

\* On a node whose rules all name address literals and whose only writer is
\* the panel's dialer, the revision the agent reports is always that of the
\* panel rules it holds, in memory and on disk, and both hold the same segments,
\* whatever fails.
THEOREM LiteralHonest ==
  ASSUME NEW d, PanelOnly(d)
  PROVE  Spec => [](MemoryHonest /\ DiskHonest /\ MemoryIsDisk)
<1>1. Init /\ TypeOK => HInv(d)
  BY HonestInit
<1>2. HInv(d) /\ [Next]_vars /\ TypeOK' => HInv(d)'
  BY HonestStart, HonestContinue, HonestOther DEF Next
<1>3. HInv(d) => MemoryHonest /\ DiskHonest /\ MemoryIsDisk
  BY DEF HInv, Honest, DiskHonest
<1> QED
  BY <1>1, <1>2, <1>3, TypeCorrect, PTL DEF Spec

-----------------------------------------------------------------------------
(* The proxy cores *)

(***************************************************************************)
(* The types that are an invariant by themselves: what a thread is at, and *)
(* of which kind the instance it is about is, added to CoresTypeOK.             *)
(***************************************************************************)
OwnPcs == {"kill", "unpid", "start", "settle", "record"}
SinglePcs == OwnPcs \union {"compare", "test", "listen", "stop", "stopkill", "stopped"}
SharedPcs == {"fragment", "merge", "unite", "live", "reunite", "rewrite", "push", "listening"}
Job == [pc : SinglePcs \union SharedPcs \union {"idle", "unfile"}, i : Insts \union {0},
        c : Cfgs \union {None}, pid : Pids \union {0}, form : {1, 2}, u : SUBSET Cfgs,
        same : BOOLEAN, clean : BOOLEAN]
Fits(t, j) ==
  /\ j \in Job
  /\ t = Watch => j.pc \in OwnPcs \union {"idle"} /\ j.c = None
  /\ j.pc \in SinglePcs => j.i \in Single
  /\ j.pc \in SharedPcs => j.i \in Shared
  /\ j.pc = "unfile" => j.i \in Insts
  /\ j.pc \in {"compare", "test", "listen", "fragment"} \/ (j.pc \in OwnPcs /\ t # Watch) => j.c \in Cfgs
  /\ (j.pc = "settle") = (j.pid # 0)

ThreadsTyped == DOMAIN thr = Goroutines /\ \A t \in Goroutines : Fits(t, thr[t])
FilesTyped ==
  /\ file \in [Insts -> Cfgs \union {None}] /\ (desired = Missing \/ desired \subseteq Cfgs)
  /\ runspec \subseteq spec /\ spec \subseteq Single /\ todo \union recent \subseteq Single
ProcsTyped ==
  /\ pidfile \in [Insts -> Pids \union {0}]
  /\ procs \in [Pids -> [i : Insts, c : Cfgs] \union {NoCore}]
  /\ \A i \in Insts : Alive(pidfile[i]) => procs[pidfile[i]].i = i
MeterTyped ==
  /\ cum \in Amount /\ last \in Amount /\ pending \in Amount
  /\ flying \in Seq(Amount) /\ based \subseteq Single
  /\ ledger \in [Insts -> [all : Nat, booked : Nat]]
ToldTyped == DOMAIN acked = Insts
Typed == ThreadsTyped /\ FilesTyped /\ ProcsTyped /\ MeterTyped /\ ToldTyped

LEMMA TypedOK == Typed => CoresTypeOK
<1> SUFFICES ASSUME Typed PROVE CoresTypeOK
  OBVIOUS
<1>1. Range(flying) \subseteq Amount
  BY DEF Typed, MeterTyped, Range
<1>2. {cum, last, pending} \subseteq Amount /\ based \subseteq Single
  BY DEF Typed, MeterTyped
<1> QED BY <1>1, <1>2 DEF Typed, FilesTyped, ProcsTyped, CoresTypeOK

\* Facts about the constants.
LEMMA Constants ==
  /\ 0 \notin Pids /\ 0 \notin Insts /\ Watch \in Goroutines /\ None \notin Cfgs
  /\ Reqs \subseteq Goroutines /\ Watch \notin Reqs /\ Single \subseteq Insts /\ Shared \subseteq Insts
  /\ Single \intersect Shared = {} /\ Insts = Single \union Shared
BY ProxyCoresAssumption DEF Pids, Goroutines, Single, Shared

LEMMA IdleFits == \A t : Fits(t, NoJob)
BY Constants DEF Fits, NoJob, Job, SinglePcs, SharedPcs, OwnPcs

(***************************************************************************)
(* What the steps do to the threads.                                       *)
(***************************************************************************)
LEMMA ThreadTyped ==
  ASSUME ThreadsTyped, NEW t \in Goroutines, NEW j, Fits(t, j), thr' = [thr EXCEPT ![t] = j]
  PROVE  ThreadsTyped'
<1>1. DOMAIN thr' = Goroutines /\ thr'[t] = j /\ \A x \in Goroutines \ {t} : thr'[x] = thr[x]
  BY DEF ThreadsTyped
<1>2. ASSUME NEW x \in Goroutines PROVE Fits(x, thr'[x])
  <2>1. CASE x = t
    BY <1>1, <2>1
  <2>2. CASE x # t
    BY <1>1, <2>2 DEF ThreadsTyped
  <2> QED BY <2>1, <2>2
<1>3. ASSUME NEW x \in Goroutines PROVE Fits(x, thr[x])'
  BY <1>2 DEF Fits, Job, Goroutines
<1> QED BY <1>1, <1>3 DEF ThreadsTyped

LEMMA EndsTyped ==
  ASSUME ThreadsTyped, NEW t \in Goroutines, Ends(t)
  PROVE  ThreadsTyped'
<1>1. thr' = [thr EXCEPT ![t] = NoJob]
  BY DEF Ends
<1> QED BY <1>1, IdleFits, ThreadTyped

\* A request moves on within its kind.
LEMMA GotoTyped ==
  ASSUME ThreadsTyped, NEW t \in Goroutines, NEW pc, Goto(t, pc),
         thr[t].pc # "idle", thr[t].pc # "settle",
         \/ /\ pc \in SinglePcs \ {"settle", "compare"} /\ thr[t].i \in Single
            /\ pc \in {"test", "listen"} \/ (pc \in OwnPcs /\ t # Watch) => thr[t].c \in Cfgs
            /\ t = Watch => pc \in OwnPcs
         \/ pc \in SharedPcs \ {"fragment"} /\ thr[t].i \in Shared /\ t # Watch
         \/ pc = "unfile" /\ thr[t].i \in Insts /\ t # Watch
  PROVE  ThreadsTyped'
<1>1. PICK j : j = thr[t]
  OBVIOUS
<1>2. PICK k : k = [j EXCEPT !.pc = pc]
  OBVIOUS
<1>3. Fits(t, j)
  BY <1>1 DEF ThreadsTyped
<1>4. thr' = [thr EXCEPT ![t] = k]
  BY <1>1, <1>2 DEF Goto
<1>5. k \in Job /\ k.pc = pc /\ k.i = j.i /\ k.c = j.c /\ k.pid = j.pid
  BY <1>2, <1>3 DEF Fits, Job, SinglePcs, SharedPcs, OwnPcs
<1>6. Fits(t, k)
  BY <1>1, <1>3, <1>5 DEF Fits, SinglePcs, SharedPcs, OwnPcs
<1> QED BY <1>4, <1>6, ThreadTyped

\* A request, or a restart by the watchdog, begins.
LEMMA BeginTyped ==
  ASSUME ThreadsTyped, NEW t \in Goroutines, NEW job, Fits(t, job), BeginJob(t, job)
  PROVE  ThreadsTyped'
<1>1. PICK b : b = Busy(job.i)
  OBVIOUS
<1>2. thr' = [x \in Goroutines |-> IF x = t THEN [job EXCEPT !.clean = (b = {})]
                                ELSE [thr[x] EXCEPT !.clean = @ /\ x \notin b]]
  BY <1>1 DEF BeginJob
<1>3. ASSUME NEW x \in Goroutines PROVE Fits(x, thr'[x])
  <2>1. PICK j : j = IF x = t THEN job ELSE thr[x]
    OBVIOUS
  <2>2. PICK v : v = IF x = t THEN b = {} ELSE thr[x].clean /\ x \notin b
    OBVIOUS
  <2>3. Fits(x, j) /\ v \in BOOLEAN
    BY <2>1, <2>2 DEF ThreadsTyped, Fits, Job
  <2>4. thr'[x] = [j EXCEPT !.clean = v]
    BY <1>2, <2>1, <2>2
  <2>5. PICK k : k = [j EXCEPT !.clean = v]
    OBVIOUS
  <2>6. k \in Job /\ k.pc = j.pc /\ k.i = j.i /\ k.c = j.c /\ k.pid = j.pid
    BY <2>3, <2>5 DEF Fits, Job
  <2>7. Fits(x, k)
    BY <2>3, <2>6 DEF Fits
  <2> QED BY <2>4, <2>5, <2>7
<1>4. ASSUME NEW x \in Goroutines PROVE Fits(x, thr[x])'
  BY <1>3 DEF Fits, Job, Goroutines
<1> QED BY <1>2, <1>4 DEF ThreadsTyped

(***************************************************************************)
(* What the steps do to the other parts.                                   *)
(***************************************************************************)
LEMMA Kept ==
  /\ ThreadsTyped /\ UNCHANGED thr => ThreadsTyped'
  /\ FilesTyped /\ UNCHANGED <<file, desired, runspec, spec, todo, recent>> => FilesTyped'
  /\ ProcsTyped /\ UNCHANGED <<pidfile, procs>> => ProcsTyped'
  /\ MeterTyped /\ UNCHANGED <<meter, cum, ledger>> => MeterTyped'
  /\ ToldTyped /\ UNCHANGED acked => ToldTyped'
<1>1. ThreadsTyped /\ UNCHANGED thr => ThreadsTyped'
  BY DEF ThreadsTyped, Fits, Job, Goroutines
<1>2. FilesTyped /\ UNCHANGED <<file, desired, runspec, spec, todo, recent>> => FilesTyped'
  BY DEF FilesTyped
<1>3. ProcsTyped /\ UNCHANGED <<pidfile, procs>> => ProcsTyped'
  BY DEF ProcsTyped, Alive
<1>4. MeterTyped /\ UNCHANGED <<meter, cum, ledger>> => MeterTyped'
  BY DEF MeterTyped, meter
<1>5. ToldTyped /\ UNCHANGED acked => ToldTyped'
  BY DEF ToldTyped
<1> QED BY <1>1, <1>2, <1>3, <1>4, <1>5

LEMMA FileTyped ==
  ASSUME FilesTyped, NEW i \in Insts, NEW c \in Cfgs \union {None}, file' = [file EXCEPT ![i] = c],
         UNCHANGED <<desired, runspec, spec, todo, recent>>
  PROVE  FilesTyped'
BY DEF FilesTyped

LEMMA RunSpecTyped ==
  ASSUME FilesTyped, NEW i \in Single, writeRunSpec(i), UNCHANGED <<file, desired, todo, recent>>
  PROVE  FilesTyped'
BY DEF FilesTyped, writeRunSpec

LEMMA NoRunSpecTyped ==
  ASSUME FilesTyped, NEW i \in Single, removeRunSpec(i), UNCHANGED <<file, desired, todo>>
  PROVE  FilesTyped'
BY DEF FilesTyped, removeRunSpec

LEMMA AckTyped ==
  ASSUME ToldTyped, NEW i, NEW c, Acked(i, c)
  PROVE  ToldTyped'
BY DEF ToldTyped, Acked

\* Nothing is left alive by a kill that was not before.
LEMMA Killed ==
  ASSUME ProcsTyped, NEW S, Kill(S)
  PROVE  /\ \A p \in Pids : procs'[p] = IF p \in S THEN NoCore ELSE procs[p]
         /\ \A p \in Pids \union {0} : Alive(p)' <=> Alive(p) /\ p \notin S
         /\ \A p \in Pids : Alive(p)' => procs'[p] = procs[p]
BY Constants DEF Kill, ProcsTyped, Alive

LEMMA KillTyped ==
  ASSUME ProcsTyped, NEW S, Kill(S), UNCHANGED pidfile
  PROVE  ProcsTyped'
<1>1. procs' \in [Pids -> [i : Insts, c : Cfgs] \union {NoCore}]
  BY DEF Kill, ProcsTyped
<1>2. ASSUME NEW i \in Insts, Alive(pidfile[i])' PROVE procs'[pidfile'[i]].i = i
  <2>1. pidfile[i] \in Pids
    BY <1>2 DEF ProcsTyped, Alive
  <2>2. Alive(pidfile[i]) /\ procs'[pidfile[i]] = procs[pidfile[i]]
    BY <1>2, <2>1, Killed
  <2> QED BY <2>2 DEF ProcsTyped
<1> QED BY <1>1, <1>2 DEF ProcsTyped

LEMMA RenewedTyped ==
  ASSUME MeterTyped, NEW S, Renewed(S), UNCHANGED <<meter, ledger>>
  PROVE  MeterTyped'
BY DEF MeterTyped, Renewed, meter, Amount

\* A process starts under a pid that nothing names.
LEMMA Started ==
  ASSUME FreePids # {}
  PROVE  FreePid \in Pids /\ ~Alive(FreePid) /\ FreePid \notin Range(pidfile)
BY DEF FreePid, FreePids

LEMMA NewPidTyped ==
  ASSUME FilesTyped, ProcsTyped, NEW i \in Insts, NEW p \in Pids, p \notin Range(pidfile), ~Alive(p),
         pidfile' = [pidfile EXCEPT ![i] = p],
         \/ procs' = procs
         \/ Startable(i) /\ procs' = [procs EXCEPT ![p] = [i |-> i, c |-> file[i]]]
  PROVE  ProcsTyped'
<1>1. pidfile' \in [Insts -> Pids \union {0}]
  BY DEF ProcsTyped
<1>2. Startable(i) => file[i] \in Cfgs
  BY DEF FilesTyped, Startable
<1>3. procs' \in [Pids -> [i : Insts, c : Cfgs] \union {NoCore}]
  BY <1>2 DEF ProcsTyped
<1>4. ASSUME NEW k \in Insts, Alive(pidfile[k])' PROVE procs'[pidfile'[k]].i = k
  <2>1. CASE k = i
    <3>1. pidfile'[k] = p
      BY <2>1 DEF ProcsTyped
    <3>2. procs'[p] # procs[p]
      BY <1>4, <3>1 DEF Alive
    <3>3. procs'[p] = [i |-> i, c |-> file[i]]
      BY <3>2 DEF ProcsTyped
    <3> QED BY <2>1, <3>1, <3>3
  <2>2. CASE k # i
    <3>1. pidfile'[k] = pidfile[k] /\ pidfile[k] # p
      BY <2>2 DEF ProcsTyped, Range
    <3>2. pidfile[k] \in Pids
      BY <1>4, <3>1 DEF ProcsTyped, Alive
    <3>3. procs'[pidfile[k]] = procs[pidfile[k]]
      BY <3>1, <3>2 DEF ProcsTyped
    <3>4. Alive(pidfile[k])
      BY <1>4, <3>1, <3>3 DEF Alive
    <3> QED BY <3>1, <3>3, <3>4 DEF ProcsTyped
  <2> QED BY <2>1, <2>2
<1> QED BY <1>1, <1>3, <1>4 DEF ProcsTyped

(***************************************************************************)
(* The batches in flight.                                                  *)
(***************************************************************************)
Column(s, i) == [n \in DOMAIN s |-> s[n][i]]
Carried(s, i) == SumFunctionOnSet(Column(s, i), DOMAIN s)

LEMMA ColumnInt ==
  ASSUME NEW s \in Seq(Amount), NEW i \in Insts
  PROVE  /\ DOMAIN s = 1 .. Len(s) /\ Len(s) \in Nat /\ IsFiniteSet(1 .. Len(s))
         /\ \A n \in 1 .. Len(s) : Column(s, i)[n] = s[n][i] /\ s[n][i] \in Nat
<1>1. DOMAIN s = 1 .. Len(s) /\ Len(s) \in Nat
  OBVIOUS
<1>2. IsFiniteSet(1 .. Len(s))
  BY <1>1, FS_Interval
<1>3. ASSUME NEW n \in 1 .. Len(s) PROVE Column(s, i)[n] = s[n][i] /\ s[n][i] \in Nat
  <2>1. s[n] \in Amount
    BY <1>1
  <2> QED BY <1>1, <2>1 DEF Column, Amount
<1> QED BY <1>1, <1>2, <1>3

LEMMA CarriedNat ==
  ASSUME NEW s \in Seq(Amount), NEW i \in Insts
  PROVE  Carried(s, i) \in Nat /\ \A n \in DOMAIN s : s[n][i] <= Carried(s, i)
<1>1. \A n \in DOMAIN s : Column(s, i)[n] \in Nat
  BY ColumnInt
<1>2. IsFiniteSet(DOMAIN s)
  BY ColumnInt
<1>3. ASSUME NEW n \in DOMAIN s PROVE s[n][i] <= Carried(s, i)
  <2>1. Column(s, i)[n] = s[n][i]
    BY ColumnInt
  <2> QED BY <1>1, <1>2, <2>1, SumBound DEF Carried
<1> QED BY <1>1, <1>2, <1>3, SumNat DEF Carried

\* A sampled batch is in flight from then on.
LEMMA CarriedAppend ==
  ASSUME NEW s \in Seq(Amount), NEW b \in Amount, NEW i \in Insts
  PROVE  /\ Append(s, b) \in Seq(Amount)
         /\ Carried(Append(s, b), i) = Carried(s, i) + b[i]
<1>1. PICK m : m = Len(s)
  OBVIOUS
<1>2. PICK f : f = Column(Append(s, b), i)
  OBVIOUS
<1>3. m \in Nat /\ IsFiniteSet(1 .. m) /\ m + 1 \notin 1 .. m
  BY <1>1, FS_Interval
<1>4. /\ Append(s, b) \in Seq(Amount) /\ DOMAIN Append(s, b) = 1 .. (m + 1)
      /\ \A n \in 1 .. m : Append(s, b)[n] = s[n]
      /\ Append(s, b)[m + 1] = b
  BY <1>1
<1>5. /\ \A n \in 1 .. m : f[n] = s[n][i] /\ f[n] \in Int
      /\ f[m + 1] = b[i] /\ b[i] \in Nat
  BY <1>1, <1>2, <1>3, <1>4 DEF Column, Amount
<1>6. 1 .. (m + 1) = (1 .. m) \cup {m + 1}
  BY <1>3
<1>7. SumFunctionOnSet(f, (1 .. m) \cup {m + 1}) = f[m + 1] + SumFunctionOnSet(f, 1 .. m)
  <2>1. \A n \in (1 .. m) \cup {m + 1} : f[n] \in Int
    BY <1>5
  <2> QED BY <1>3, <2>1, SumAddOne
<1>8. SumFunctionOnSet(f, 1 .. m) = Carried(s, i)
  <2>1. \A n \in 1 .. m : Column(s, i)[n] \in Int /\ f[n] = Column(s, i)[n]
    BY <1>1, <1>5, ColumnInt
  <2>2. SumFunctionOnSet(Column(s, i), 1 .. m) = SumFunctionOnSet(f, 1 .. m)
    BY <1>3, <2>1, SumSame
  <2> QED BY <1>1, <2>2 DEF Carried
<1>9. Carried(s, i) \in Nat
  BY CarriedNat
<1>10. Carried(Append(s, b), i) = SumFunctionOnSet(f, (1 .. m) \cup {m + 1})
  BY <1>2, <1>4, <1>6 DEF Carried
<1> QED BY <1>4, <1>5, <1>7, <1>8, <1>9, <1>10

\* A batch that is answered or forgotten is no longer in flight.
LEMMA CarriedRemove ==
  ASSUME NEW s \in Seq(Amount), NEW n \in DOMAIN s, NEW i \in Insts
  PROVE  /\ RemoveAt(s, n) \in Seq(Amount) /\ s[n] \in Amount
         /\ Carried(s, i) = Carried(RemoveAt(s, n), i) + s[n][i]
<1>1. PICK m : m = Len(s)
  OBVIOUS
<1>2. PICK r : r = RemoveAt(s, n)
  OBVIOUS
<1>3. m \in Nat /\ n \in 1 .. m /\ DOMAIN s = 1 .. m /\ m - 1 \in Nat
  BY <1>1
<1>4. /\ r \in Seq(Amount) /\ Len(r) = m - 1
      /\ \A k \in 1 .. (m - 1) : r[k] = IF k < n THEN s[k] ELSE s[k + 1]
  <2>1. PICK u : u = SubSeq(s, 1, n - 1)
    OBVIOUS
  <2>2. PICK v : v = SubSeq(s, n + 1, Len(s))
    OBVIOUS
  <2>3. u \in Seq(Amount) /\ Len(u) = n - 1 /\ \A k \in 1 .. (n - 1) : u[k] = s[k]
    BY <1>1, <1>3, <2>1
  <2>4. v \in Seq(Amount) /\ Len(v) = m - n /\ \A k \in 1 .. (m - n) : v[k] = s[n + k]
    BY <1>1, <1>3, <2>2
  <2>5. r = u \o v
    BY <1>2, <2>1, <2>2 DEF RemoveAt
  <2>6. r \in Seq(Amount) /\ Len(r) = m - 1
    <3>1. r \in Seq(Amount) /\ Len(r) = Len(u) + Len(v)
      BY <2>3, <2>4, <2>5, ConcatProperties
    <3> QED BY <1>3, <2>3, <2>4, <3>1
  <2>7. ASSUME NEW k \in 1 .. (m - 1) PROVE r[k] = IF k < n THEN s[k] ELSE s[k + 1]
    <3>0. r[k] = IF k <= n - 1 THEN u[k] ELSE v[k - (n - 1)]
      <4>1. \A x \in 1 .. Len(u) + Len(v) : r[x] = IF x <= Len(u) THEN u[x] ELSE v[x - Len(u)]
        BY <2>3, <2>4, <2>5, ConcatProperties
      <4>2. Len(u) = n - 1 /\ k \in 1 .. Len(u) + Len(v)
        BY <1>3, <2>3, <2>4
      <4> QED BY <4>1, <4>2
    <3>1. CASE k < n
      <4>1. k \in 1 .. (n - 1)
        BY <1>3, <3>1
      <4>2. r[k] = u[k]
        BY <1>3, <3>0, <4>1
      <4> QED BY <2>3, <3>1, <4>1, <4>2
    <3>2. CASE ~(k < n)
      <4>1. PICK l : l = k - (n - 1)
        OBVIOUS
      <4>2. l \in 1 .. (m - n) /\ n + l = k + 1
        BY <1>3, <3>2, <4>1
      <4>3. r[k] = v[l]
        BY <1>3, <3>0, <3>2, <4>1
      <4> QED BY <2>4, <3>2, <4>2, <4>3
    <3> QED BY <3>1, <3>2
  <2> QED BY <2>6, <2>7
<1>5. PICK b : b = [k \in 1 .. (m - 1) |-> IF k < n THEN k ELSE k + 1]
  OBVIOUS
<1>6. PICK T : T = 1 .. (m - 1)
  OBVIOUS
<1>7. {b[k] : k \in T} = (1 .. m) \ {n}
  <2>1. \A k \in T : b[k] \in (1 .. m) \ {n}
    BY <1>3, <1>5, <1>6
  <2>2. ASSUME NEW k \in (1 .. m) \ {n} PROVE \E l \in T : b[l] = k
    <3>1. CASE k < n
      <4>1. k \in T /\ b[k] = k
        BY <1>3, <1>5, <1>6, <3>1
      <4> QED BY <4>1
    <3>2. CASE ~(k < n)
      <4>1. k - 1 \in T /\ b[k - 1] = k
        BY <1>3, <1>5, <1>6, <3>2
      <4> QED BY <4>1
    <3> QED BY <3>1, <3>2
  <2> QED BY <2>1, <2>2
<1>8. \A x, y \in T : x # y => b[x] # b[y]
  BY <1>3, <1>5, <1>6
<1>9. \A k \in T : Column(s, i)[b[k]] \in Int /\ Column(r, i)[k] = Column(s, i)[b[k]]
  <2> SUFFICES ASSUME NEW k \in T
               PROVE  Column(s, i)[b[k]] \in Int /\ Column(r, i)[k] = Column(s, i)[b[k]]
    OBVIOUS
  <2>1. b[k] \in 1 .. m /\ r[k] = s[b[k]]
    BY <1>3, <1>4, <1>5, <1>6
  <2>2. Column(s, i)[b[k]] = s[b[k]][i] /\ s[b[k]][i] \in Nat
    BY <1>1, <2>1, ColumnInt
  <2>3. Column(r, i)[k] = r[k][i]
    BY <1>4, <1>6, ColumnInt
  <2> QED BY <2>1, <2>2, <2>3
<1>10. IsFiniteSet(T)
  BY <1>3, <1>6, FS_Interval
<1>11. SumFunctionOnSet(Column(r, i), T) = SumFunctionOnSet(Column(s, i), (1 .. m) \ {n})
  BY <1>7, <1>8, <1>9, <1>10, SumRenamed
<1>12. SumFunctionOnSet(Column(s, i), 1 .. m)
         = Column(s, i)[n] + SumFunctionOnSet(Column(s, i), (1 .. m) \ {n})
  <2>1. IsFiniteSet(1 .. m) /\ \A k \in 1 .. m : Column(s, i)[k] \in Int
    BY <1>1, <1>3, ColumnInt
  <2> QED BY <1>3, <2>1, SumTake
<1>13. Column(s, i)[n] = s[n][i] /\ s[n] \in Amount /\ DOMAIN r = T
  BY <1>3, <1>4, <1>6, ColumnInt
<1>14. Carried(r, i) \in Nat
  BY <1>4, CarriedNat
<1>15. s[n][i] \in Nat
  BY <1>13 DEF Amount
<1>16. Carried(s, i) = s[n][i] + Carried(r, i)
  BY <1>3, <1>11, <1>12, <1>13 DEF Carried
<1> QED BY <1>2, <1>4, <1>13, <1>14, <1>15, <1>16

LEMMA FlyingCarried ==
  /\ \A i \in Insts : Flying(i) = Carried(flying, i)
  /\ \A i \in Insts : Flying(i)' = Carried(flying', i)
BY DEF Flying, Carried, Column

(***************************************************************************)
(* Every step keeps the types.                                             *)
(***************************************************************************)
USE DEF onDisk, host, watch, meter, told

\* What a thread is at, as far as a step that moves it on must know.
LEMMA AtFits ==
  ASSUME ThreadsTyped, NEW t \in Goroutines, NEW pc, At(t, pc)
  PROVE  /\ thr[t].pc = pc /\ thr[t] \in Job /\ Fits(t, thr[t])
         /\ pc \in SinglePcs => thr[t].i \in Single
         /\ pc \in SharedPcs => thr[t].i \in Shared /\ t # Watch
         /\ pc = "unfile" => thr[t].i \in Insts /\ t # Watch
         /\ pc \in SinglePcs \ OwnPcs => t # Watch
         /\ thr[t].pid \in Pids \union {0} /\ (pc = "settle" <=> thr[t].pid # 0)
         /\ pc \in {"compare", "test", "listen", "fragment"} \/ (pc \in OwnPcs /\ t # Watch) => thr[t].c \in Cfgs
BY DEF At, ThreadsTyped, Fits, Job, SinglePcs, SharedPcs, OwnPcs

LEMMA KillOldTyped ==
  ASSUME Typed, NEW t \in Goroutines, KillOld(t)
  PROVE  Typed'
<1> USE DEF Typed
<1>1. thr[t].pc = "kill" /\ thr[t].i \in Single /\ (t # Watch => thr[t].c \in Cfgs)
  BY AtFits DEF KillOld, SinglePcs, OwnPcs
<1>2. ThreadsTyped'
  <2>1. Goto(t, "start") \/ Goto(t, "unpid")
    BY DEF KillOld
  <2> QED BY <1>1, <2>1, GotoTyped DEF SinglePcs, SharedPcs, OwnPcs
<1>3. ProcsTyped'
  BY KillTyped DEF KillOld
<1>4. MeterTyped'
  BY RenewedTyped DEF KillOld, Kill
<1> QED BY <1>2, <1>3, <1>4, Kept DEF KillOld

LEMMA UnpidTyped ==
  ASSUME ProcsTyped, NEW i \in Insts, pidfile' = [pidfile EXCEPT ![i] = 0], UNCHANGED procs
  PROVE  ProcsTyped'
<1>1. ASSUME NEW k \in Insts, Alive(pidfile[k])' PROVE procs'[pidfile'[k]].i = k
  BY <1>1 DEF ProcsTyped, Alive
<1> QED BY <1>1 DEF ProcsTyped

LEMMA RemovePidTyped ==
  ASSUME Typed, NEW t \in Goroutines, RemovePid(t)
  PROVE  Typed'
<1> USE DEF Typed
<1>1. thr[t].pc = "unpid" /\ thr[t].i \in Single /\ (t # Watch => thr[t].c \in Cfgs)
  BY AtFits DEF RemovePid, SinglePcs, OwnPcs
<1>2. ThreadsTyped'
  <2>1. Goto(t, "start")
    BY DEF RemovePid
  <2> QED BY <1>1, <2>1, GotoTyped DEF SinglePcs, SharedPcs, OwnPcs
<1>3. ProcsTyped'
  BY <1>1, UnpidTyped, Constants DEF RemovePid
<1> QED BY <1>2, <1>3, Kept DEF RemovePid

\* A thread whose record changes in more than what it is at.
LEMMA MovedTyped ==
  ASSUME ThreadsTyped, NEW t \in Goroutines, NEW j, thr' = [thr EXCEPT ![t] = j],
         j \in Job, j.i = thr[t].i, j.c = thr[t].c,
         thr[t].pc # "idle", (j.pc = "settle") <=> (j.pid # 0),
         \/ /\ j.pc \in SinglePcs \ {"compare"} /\ thr[t].i \in Single
            /\ j.pc \in {"test", "listen"} \/ (j.pc \in OwnPcs /\ t # Watch) => thr[t].c \in Cfgs
            /\ t = Watch => j.pc \in OwnPcs
         \/ j.pc \in SharedPcs \ {"fragment"} /\ thr[t].i \in Shared /\ t # Watch
  PROVE  ThreadsTyped'
<1>1. Fits(t, thr[t])
  BY DEF ThreadsTyped
<1>2. Fits(t, j)
  BY <1>1 DEF Fits, SinglePcs, SharedPcs, OwnPcs
<1> QED BY <1>2, ThreadTyped

LEMMA restartDetachedTrackedTyped ==
  ASSUME Typed, NEW t \in Goroutines, restartDetachedTracked(t)
  PROVE  Typed'
<1> USE DEF Typed
<1>1. thr[t].pc = "start" /\ thr[t].i \in Single /\ thr[t] \in Job /\ (t # Watch => thr[t].c \in Cfgs)
  BY AtFits DEF restartDetachedTracked, SinglePcs, OwnPcs
<1>2. PICK p : p = FreePid
  OBVIOUS
<1>3. p \in Pids /\ ~Alive(p) /\ p \notin Range(pidfile)
  BY <1>2, Started DEF restartDetachedTracked
<1>4. ThreadsTyped'
  <2>1. PICK j : j = [thr[t] EXCEPT !.pc = "settle", !.pid = p]
    OBVIOUS
  <2>2. thr' = [thr EXCEPT ![t] = j]
    BY <1>2, <2>1 DEF restartDetachedTracked
  <2>3. j \in Job /\ j.i = thr[t].i /\ j.c = thr[t].c /\ j.pc = "settle" /\ j.pid = p
    BY <1>1, <1>3, <2>1 DEF Job, SinglePcs, OwnPcs
  <2>4. p # 0
    BY <1>3, Constants
  <2> QED BY <1>1, <2>2, <2>3, <2>4, MovedTyped DEF SinglePcs, OwnPcs
<1>5. ProcsTyped'
  <2>1. PICK i : i = thr[t].i
    OBVIOUS
  <2>2. /\ pidfile' = [pidfile EXCEPT ![i] = p]
        /\ \/ procs' = procs
           \/ Startable(i) /\ procs' = [procs EXCEPT ![p] = [i |-> i, c |-> file[i]]]
    BY <1>2, <2>1 DEF restartDetachedTracked
  <2> QED BY <1>1, <1>3, <2>1, <2>2, NewPidTyped, Constants
<1>6. MeterTyped'
  BY RenewedTyped DEF restartDetachedTracked
<1> QED BY <1>4, <1>5, <1>6, Kept DEF restartDetachedTracked

LEMMA SettledTyped ==
  ASSUME Typed, NEW t \in Goroutines, Settled(t)
  PROVE  Typed'
<1> USE DEF Typed
<1>1. thr[t].pc = "settle" /\ thr[t].i \in Single /\ thr[t] \in Job /\ (t # Watch => thr[t].c \in Cfgs)
  BY AtFits DEF Settled, SinglePcs, OwnPcs
<1>2. ThreadsTyped'
  <2>1. PICK j : j = [thr[t] EXCEPT !.pc = "record", !.pid = 0]
    OBVIOUS
  <2>2. thr' = [thr EXCEPT ![t] = j]
    BY <2>1 DEF Settled
  <2>3. j \in Job /\ j.i = thr[t].i /\ j.c = thr[t].c /\ j.pc = "record" /\ j.pid = 0
    BY <1>1, <2>1 DEF Job, SinglePcs, OwnPcs
  <2> QED BY <1>1, <2>2, <2>3, MovedTyped DEF SinglePcs, OwnPcs
<1> QED BY <1>2, Kept DEF Settled

LEMMA ensureTyped ==
  ASSUME Typed, NEW i \in Insts, ensure(i)
  PROVE  Typed'
<1> USE DEF Typed
<1>1. i \in Single /\ i \in todo
  BY DEF ensure, FilesTyped
<1>2. ThreadsTyped'
  <2>1. CASE UNCHANGED thr
    BY <2>1, Kept
  <2>2. CASE BeginJob(Watch, [NoJob EXCEPT !.pc = "kill", !.i = i])
    <3>1. PICK job : job = [NoJob EXCEPT !.pc = "kill", !.i = i]
      OBVIOUS
    <3>2. Fits(Watch, job)
      BY <1>1, <3>1, Constants DEF Fits, NoJob, Job, SinglePcs, SharedPcs, OwnPcs
    <3> QED BY <2>2, <3>1, <3>2, BeginTyped, Constants
  <2> QED BY <2>1, <2>2 DEF ensure
<1>3. FilesTyped'
  BY <1>1 DEF ensure, FilesTyped
<1> QED BY <1>2, <1>3, Kept DEF ensure

LEMMA WatchingTyped ==
  ASSUME Typed, Watching
  PROVE  Typed'
<1> USE DEF Typed
<1>1. CASE tick
  <2>1. FilesTyped'
    BY <1>1 DEF tick, FilesTyped, snapshot
  <2> QED BY <1>1, <2>1, Kept DEF tick
<1>2. CASE Revive
  <2>1. thr[Watch].i \in Single
    BY <1>2, AtFits, Constants DEF Revive, SinglePcs, OwnPcs
  <2>2. FilesTyped'
    BY <1>2, <2>1, RunSpecTyped DEF Revive
  <2>3. ThreadsTyped'
    BY <1>2, EndsTyped, Constants DEF Revive, Ends
  <2> QED BY <1>2, <2>2, <2>3, Kept DEF Revive
<1>3. CASE ReviveFails
  <2>1. ThreadsTyped'
    BY <1>3, EndsTyped, Constants DEF ReviveFails, Ends
  <2> QED BY <1>3, <2>1, Kept DEF ReviveFails
<1>4. ASSUME NEW i \in Insts, Later(i) PROVE Typed'
  <2>1. FilesTyped'
    BY <1>4 DEF Later, FilesTyped
  <2> QED BY <1>4, <2>1, Kept DEF Later
<1> QED BY <1>1, <1>2, <1>3, <1>4, ensureTyped DEF Watching

LEMMA EvictTyped ==
  ASSUME ProcsTyped, MeterTyped, NEW port, evictForeignListeners(port),
         UNCHANGED <<pidfile, meter, ledger>>
  PROVE  ProcsTyped' /\ MeterTyped'
<1>1. PICK S : S = pidsListeningOnPort(port) \ panelManagedListenPIDs
  OBVIOUS
<1>2. Kill(S)
  BY <1>1 DEF evictForeignListeners
<1>3. Renewed({i \in Insts : pidfile[i] \in S})
  BY <1>2 DEF Kill
<1> QED BY <1>2, <1>3, KillTyped, RenewedTyped

LEMMA handleProxyServiceApplyTyped ==
  ASSUME Typed, NEW t \in Goroutines, NEW i \in Insts, NEW c \in Cfgs, handleProxyServiceApply(t, i, c)
  PROVE  Typed'
<1> USE DEF Typed
<1>1. t # Watch
  BY DEF handleProxyServiceApply
<1>2. ThreadsTyped'
  <2>1. PICK job : job = [NoJob EXCEPT !.pc = IF i \in Shared THEN "fragment" ELSE "compare", !.i = i, !.c = c]
    OBVIOUS
  <2>2. BeginJob(t, job)
    BY <2>1 DEF handleProxyServiceApply
  <2>3. /\ job \in Job /\ job.i = i /\ job.c = c /\ job.pid = 0
        /\ job.pc = IF i \in Shared THEN "fragment" ELSE "compare"
    BY <2>1 DEF NoJob, Job, SinglePcs, SharedPcs, OwnPcs
  <2>4. Fits(t, job)
    BY <1>1, <2>3, Constants DEF Fits, SinglePcs, SharedPcs, OwnPcs
  <2> QED BY <2>2, <2>4, BeginTyped
<1>3. ProcsTyped' /\ MeterTyped'
  BY EvictTyped DEF handleProxyServiceApply
<1> QED BY <1>2, <1>3, Kept DEF handleProxyServiceApply

LEMMA handleProxyServiceStopTyped ==
  ASSUME Typed, NEW t \in Goroutines, NEW i \in Insts, handleProxyServiceStop(t, i)
  PROVE  Typed'
<1> USE DEF Typed
<1>1. t # Watch
  BY DEF handleProxyServiceStop
<1>2. ThreadsTyped'
  <2>1. PICK job : job = [NoJob EXCEPT !.pc = IF i \in Shared THEN "unfile" ELSE "stop", !.i = i, !.form = 2]
    OBVIOUS
  <2>2. BeginJob(t, job)
    BY <2>1 DEF handleProxyServiceStop
  <2>3. /\ job \in Job /\ job.i = i /\ job.pid = 0
        /\ job.pc = IF i \in Shared THEN "unfile" ELSE "stop"
    BY <2>1 DEF NoJob, Job, SinglePcs, SharedPcs, OwnPcs
  <2>4. Fits(t, job)
    BY <1>1, <2>3, Constants DEF Fits, SinglePcs, SharedPcs, OwnPcs
  <2> QED BY <2>2, <2>4, BeginTyped
<1>3. ToldTyped'
  BY AckTyped DEF handleProxyServiceStop
<1> QED BY <1>2, <1>3, Kept DEF handleProxyServiceStop

LEMMA DeployTyped ==
  ASSUME Typed, NEW t \in Goroutines,
         \/ DeployUnchanged(t) \/ DeployWrite(t) \/ DeployTest(t) \/ restartDetached(t)
         \/ StartFails(t) \/ waitListenHint(t)
  PROVE  Typed'
<1> USE DEF Typed
<1>1. CASE DeployUnchanged(t)
  <2>1. ThreadsTyped' /\ ToldTyped'
    BY <1>1, EndsTyped, AckTyped DEF DeployUnchanged
  <2> QED BY <1>1, <2>1, Kept DEF DeployUnchanged
<1>2. CASE DeployWrite(t)
  <2>1. thr[t].pc = "compare" /\ thr[t].i \in Single /\ thr[t].c \in Cfgs /\ t # Watch
    BY <1>2, AtFits DEF DeployWrite, SinglePcs, OwnPcs
  <2>2. ThreadsTyped'
    <3>1. Goto(t, "test")
      BY <1>2 DEF DeployWrite
    <3> QED BY <2>1, <3>1, GotoTyped DEF SinglePcs, SharedPcs, OwnPcs
  <2>3. FilesTyped'
    <3>1. PICK i : i = thr[t].i
      OBVIOUS
    <3>2. PICK c : c = thr[t].c
      OBVIOUS
    <3>3. file' = [file EXCEPT ![i] = c]
      BY <1>2, <3>1, <3>2 DEF DeployWrite
    <3> QED BY <1>2, <2>1, <3>1, <3>2, <3>3, FileTyped, Constants DEF DeployWrite
  <2> QED BY <1>2, <2>2, <2>3, Kept DEF DeployWrite
<1>3. CASE DeployTest(t)
  <2>1. thr[t].pc = "test" /\ thr[t].i \in Single /\ t # Watch /\ thr[t].c \in Cfgs
    BY <1>3, AtFits DEF DeployTest, SinglePcs, OwnPcs
  <2>2. CASE thr[t].c \in Bad
    <3>1. ThreadsTyped' /\ ToldTyped'
      BY <1>3, <2>2, EndsTyped, AckTyped DEF DeployTest
    <3> QED BY <1>3, <2>2, <3>1, Kept DEF DeployTest
  <2>3. CASE thr[t].c \notin Bad
    <3>1. ThreadsTyped'
      <4>1. Goto(t, "kill")
        BY <1>3, <2>3 DEF DeployTest
      <4> QED BY <2>1, <4>1, GotoTyped DEF SinglePcs, SharedPcs, OwnPcs
    <3>2. ProcsTyped' /\ MeterTyped'
      BY <1>3, <2>3, EvictTyped DEF DeployTest
    <3> QED BY <1>3, <2>3, <3>1, <3>2, Kept DEF DeployTest
  <2> QED BY <2>2, <2>3
<1>4. CASE restartDetached(t)
  <2>1. thr[t].pc = "record" /\ thr[t].i \in Single /\ t # Watch /\ thr[t].c \in Cfgs
    BY <1>4, AtFits DEF restartDetached, SinglePcs, OwnPcs
  <2>2. FilesTyped'
    BY <1>4, <2>1, RunSpecTyped DEF restartDetached
  <2>3. ThreadsTyped'
    <3>1. Goto(t, "listen")
      BY <1>4 DEF restartDetached
    <3> QED BY <2>1, <3>1, GotoTyped DEF SinglePcs, SharedPcs, OwnPcs
  <2> QED BY <1>4, <2>2, <2>3, Kept DEF restartDetached
<1>5. CASE StartFails(t)
  <2>1. thr[t].pc = "settle" /\ thr[t].i \in Single /\ thr[t] \in Job /\ t # Watch /\ thr[t].c \in Cfgs
    BY <1>5, AtFits DEF StartFails, SinglePcs, OwnPcs
  <2>2. CASE Core[thr[t].i] = "xray" /\ thr[t].form = 1
    <3>1. ThreadsTyped'
      <4>1. PICK j : j = [thr[t] EXCEPT !.pc = "kill", !.pid = 0, !.form = 2]
        OBVIOUS
      <4>2. thr' = [thr EXCEPT ![t] = j]
        BY <1>5, <2>2, <4>1 DEF StartFails
      <4>3. j \in Job /\ j.i = thr[t].i /\ j.c = thr[t].c /\ j.pc = "kill" /\ j.pid = 0
        BY <2>1, <4>1 DEF Job, SinglePcs, OwnPcs
      <4> QED BY <2>1, <4>2, <4>3, MovedTyped DEF SinglePcs, OwnPcs
    <3> QED BY <1>5, <2>2, <3>1, Kept DEF StartFails
  <2>3. CASE ~(Core[thr[t].i] = "xray" /\ thr[t].form = 1)
    <3>1. ThreadsTyped' /\ ToldTyped'
      BY <1>5, <2>3, EndsTyped, AckTyped DEF StartFails
    <3> QED BY <1>5, <3>1, Kept DEF StartFails
  <2> QED BY <2>2, <2>3
<1>6. CASE waitListenHint(t)
  <2>1. thr[t].pc = "listen" /\ thr[t].i \in Single /\ thr[t] \in Job /\ t # Watch /\ thr[t].pid = 0
    BY <1>6, AtFits DEF waitListenHint, SinglePcs, OwnPcs
  <2>2. ToldTyped'
    BY <1>6, AckTyped DEF waitListenHint
  <2>3. ThreadsTyped'
    <3>1. CASE Ends(t)
      BY <3>1, EndsTyped
    <3>2. CASE thr' = [thr EXCEPT ![t].pc = "stop", ![t].c = None]
      <4>1. PICK j : j = [thr[t] EXCEPT !.pc = "stop", !.c = None]
        OBVIOUS
      <4>2. thr' = [thr EXCEPT ![t] = j]
        BY <3>2, <4>1
      <4>3. j \in Job /\ j.i = thr[t].i /\ j.pc = "stop" /\ j.pid = 0
        BY <2>1, <4>1 DEF Job, SinglePcs, OwnPcs
      <4>4. Fits(t, j)
        BY <2>1, <4>3 DEF Fits, SinglePcs, SharedPcs, OwnPcs
      <4> QED BY <4>2, <4>4, ThreadTyped
    <3> QED BY <1>6, <3>1, <3>2 DEF waitListenHint
  <2> QED BY <1>6, <2>2, <2>3, Kept DEF waitListenHint
<1> QED BY <1>1, <1>2, <1>3, <1>4, <1>5, <1>6

LEMMA StoppingTyped ==
  ASSUME Typed, NEW t \in Goroutines,
         StopUnregister(t) \/ StopKill(t) \/ stopPIDFile(t) \/ StopFiles(t)
  PROVE  Typed'
<1> USE DEF Typed
<1>1. CASE StopUnregister(t)
  <2>1. thr[t].pc = "stop" /\ thr[t].i \in Single /\ t # Watch
    BY <1>1, AtFits DEF StopUnregister, SinglePcs, OwnPcs
  <2>2. FilesTyped'
    BY <1>1, <2>1, NoRunSpecTyped DEF StopUnregister
  <2>3. ThreadsTyped'
    <3>1. Goto(t, "stopkill")
      BY <1>1 DEF StopUnregister
    <3> QED BY <2>1, <3>1, GotoTyped DEF SinglePcs, SharedPcs, OwnPcs
  <2> QED BY <1>1, <2>2, <2>3, Kept DEF StopUnregister
<1>2. CASE StopKill(t)
  <2>1. thr[t].pc = "stopkill" /\ thr[t].i \in Single /\ t # Watch
    BY <1>2, AtFits DEF StopKill, SinglePcs, OwnPcs
  <2>2. ThreadsTyped'
    <3>1. Goto(t, "stopped")
      BY <1>2 DEF StopKill
    <3> QED BY <2>1, <3>1, GotoTyped DEF SinglePcs, SharedPcs, OwnPcs
  <2>3. ProcsTyped'
    BY <1>2, KillTyped DEF StopKill
  <2>4. MeterTyped'
    BY <1>2, RenewedTyped DEF StopKill, Kill
  <2> QED BY <1>2, <2>2, <2>3, <2>4, Kept DEF StopKill
<1>3. CASE stopPIDFile(t)
  <2>1. thr[t].pc = "stopped" /\ thr[t].i \in Single /\ t # Watch
    BY <1>3, AtFits DEF stopPIDFile, SinglePcs, OwnPcs
  <2>2. ProcsTyped'
    BY <1>3, <2>1, UnpidTyped, Constants DEF stopPIDFile
  <2>3. ThreadsTyped' /\ ToldTyped'
    <3>1. CASE thr[t].form = 2
      <4>1. Goto(t, "unfile") /\ UNCHANGED acked
        BY <1>3, <3>1 DEF stopPIDFile
      <4>2. ThreadsTyped'
        BY <2>1, <4>1, GotoTyped, Constants DEF SinglePcs, SharedPcs, OwnPcs
      <4> QED BY <4>1, <4>2, Kept
    <3>2. CASE thr[t].form # 2
      BY <1>3, <3>2, EndsTyped, AckTyped DEF stopPIDFile
    <3> QED BY <3>1, <3>2
  <2> QED BY <1>3, <2>2, <2>3, Kept DEF stopPIDFile
<1>4. CASE StopFiles(t)
  <2>1. thr[t].pc = "unfile" /\ thr[t].i \in Insts /\ t # Watch
    BY <1>4, AtFits DEF StopFiles, SinglePcs, OwnPcs
  <2>2. FilesTyped'
    BY <1>4, <2>1, FileTyped DEF StopFiles
  <2>3. ThreadsTyped' /\ ToldTyped'
    <3>1. CASE thr[t].i \in Shared
      <4>1. Goto(t, "reunite") /\ UNCHANGED acked
        BY <1>4, <3>1 DEF StopFiles
      <4>2. ThreadsTyped'
        BY <2>1, <3>1, <4>1, GotoTyped DEF SinglePcs, SharedPcs, OwnPcs
      <4> QED BY <4>1, <4>2, Kept
    <3>2. CASE thr[t].i \notin Shared
      BY <1>4, <3>2, EndsTyped, AckTyped DEF StopFiles
    <3> QED BY <3>1, <3>2
  <2> QED BY <1>4, <2>2, <2>3, Kept DEF StopFiles
<1> QED BY <1>1, <1>2, <1>3, <1>4

\* The union of the fragments is made of configurations.
LEMMA UnionTyped ==
  ASSUME FilesTyped
  PROVE  mergeMitaInstanceConfigs \subseteq Cfgs
BY Constants DEF FilesTyped, mergeMitaInstanceConfigs

LEMMA WriteFragmentTyped ==
  ASSUME Typed, NEW t \in Goroutines, WriteFragment(t)
  PROVE  Typed'
<1> USE DEF Typed
<1>1. thr[t].pc = "fragment" /\ thr[t].i \in Shared /\ thr[t] \in Job /\ t # Watch /\ thr[t].c \in Cfgs /\ thr[t].pid = 0
  BY AtFits DEF WriteFragment, SharedPcs
<1>2. ThreadsTyped'
  <2>1. PICK b : b = sameCoreConfigFile(thr[t].i, thr[t].c)
    OBVIOUS
  <2>2. PICK j : j = [thr[t] EXCEPT !.pc = "merge", !.same = b]
    OBVIOUS
  <2>3. thr' = [thr EXCEPT ![t] = j]
    BY <2>1, <2>2 DEF WriteFragment
  <2>4. b \in BOOLEAN
    BY <2>1 DEF sameCoreConfigFile
  <2>5. j \in Job /\ j.i = thr[t].i /\ j.c = thr[t].c /\ j.pc = "merge" /\ j.pid = 0
    BY <1>1, <2>2, <2>4 DEF Job, SharedPcs
  <2> QED BY <1>1, <2>3, <2>5, MovedTyped DEF SharedPcs
<1>3. FilesTyped'
  <2>1. PICK i : i = thr[t].i
    OBVIOUS
  <2>2. PICK c : c = thr[t].c
    OBVIOUS
  <2>3. file' = [file EXCEPT ![i] = c]
    BY <2>1, <2>2 DEF WriteFragment
  <2> QED BY <1>1, <2>1, <2>2, <2>3, FileTyped, Constants DEF WriteFragment
<1> QED BY <1>2, <1>3, Kept DEF WriteFragment

LEMMA MergeTyped ==
  ASSUME Typed, NEW t \in Goroutines, Merge(t)
  PROVE  Typed'
<1> USE DEF Typed
<1>1. thr[t].pc \in {"merge", "reunite"} /\ thr[t].i \in Shared /\ thr[t] \in Job /\ t # Watch /\ thr[t].pid = 0
  <2>1. CASE At(t, "merge")
    BY <2>1, AtFits DEF Merge, SharedPcs
  <2>2. CASE At(t, "reunite")
    BY <2>2, AtFits DEF Merge, SharedPcs
  <2> QED BY <2>1, <2>2 DEF Merge
<1>2. ThreadsTyped'
  <2>1. PICK u : u = mergeMitaInstanceConfigs
    OBVIOUS
  <2>2. PICK j : j = [thr[t] EXCEPT !.pc = IF @ = "merge" THEN "unite" ELSE "rewrite", !.u = u]
    OBVIOUS
  <2>3. thr' = [thr EXCEPT ![t] = j]
    BY <2>1, <2>2 DEF Merge
  <2>4. u \in SUBSET Cfgs
    BY <2>1, UnionTyped
  <2>5. /\ j \in Job /\ j.i = thr[t].i /\ j.c = thr[t].c /\ j.pid = 0
        /\ j.pc \in {"unite", "rewrite"}
    BY <1>1, <2>2, <2>4 DEF Job, SharedPcs
  <2> QED BY <1>1, <2>3, <2>5, MovedTyped DEF SharedPcs
<1> QED BY <1>2, Kept DEF Merge

LEMMA WriteUnionTyped ==
  ASSUME Typed, NEW t \in Goroutines, WriteUnion(t)
  PROVE  Typed'
<1> USE DEF Typed
<1>1. thr[t].pc = "unite" /\ thr[t].i \in Shared /\ thr[t] \in Job /\ t # Watch /\ thr[t].pid = 0
  BY AtFits DEF WriteUnion, SharedPcs
<1>2. ThreadsTyped'
  <2>1. PICK b : b = (thr[t].same /\ desired = thr[t].u)
    OBVIOUS
  <2>2. PICK j : j = [thr[t] EXCEPT !.pc = "live", !.same = b]
    OBVIOUS
  <2>3. thr' = [thr EXCEPT ![t] = j]
    BY <1>1, <2>1, <2>2 DEF WriteUnion, Job
  <2>4. b \in BOOLEAN
    BY <2>1
  <2>5. j \in Job /\ j.i = thr[t].i /\ j.c = thr[t].c /\ j.pc = "live" /\ j.pid = 0
    BY <1>1, <2>2, <2>4 DEF Job, SharedPcs
  <2> QED BY <1>1, <2>3, <2>5, MovedTyped DEF SharedPcs
<1>3. FilesTyped'
  BY <1>1 DEF FilesTyped, WriteUnion, Job
<1> QED BY <1>2, <1>3, Kept DEF WriteUnion

LEMMA DaemonTyped ==
  ASSUME Typed, NEW t \in Goroutines,
         \/ KeepDaemon(t) \/ ResetDaemon(t) \/ ApplyUnion(t) \/ StartListening(t)
         \/ MitaFails(t)
  PROVE  Typed'
<1> USE DEF Typed
<1>1. CASE KeepDaemon(t)
  <2>1. ThreadsTyped' /\ ToldTyped'
    BY <1>1, EndsTyped, AckTyped DEF KeepDaemon
  <2> QED BY <1>1, <2>1, Kept DEF KeepDaemon
<1>2. CASE ResetDaemon(t)
  <2>1. /\ thr[t].pc \in {"live", "rewrite"} /\ thr[t].i \in Shared
        /\ thr[t] \in Job /\ t # Watch
    <3>1. CASE At(t, "live")
      BY <3>1, AtFits DEF SharedPcs
    <3>2. CASE At(t, "rewrite")
      BY <3>2, AtFits DEF SharedPcs
    <3> QED BY <1>2, <3>1, <3>2 DEF ResetDaemon
  <2>2. ThreadsTyped'
    <3>1. CASE Ends(t)
      BY <3>1, EndsTyped
    <3>2. CASE Goto(t, "push")
      BY <2>1, <3>2, GotoTyped DEF SharedPcs
    <3> QED BY <1>2, <3>1, <3>2 DEF ResetDaemon
  <2>3. FilesTyped'
    BY <1>2, <2>1 DEF FilesTyped, ResetDaemon, Job
  <2> QED BY <1>2, <2>2, <2>3, Kept DEF ResetDaemon
<1>3. CASE ApplyUnion(t)
  <2>1. thr[t].pc = "push" /\ thr[t].i \in Shared /\ t # Watch
    BY <1>3, AtFits DEF ApplyUnion, SharedPcs
  <2>2. ThreadsTyped'
    <3>1. Goto(t, "listening")
      BY <1>3 DEF ApplyUnion
    <3> QED BY <2>1, <3>1, GotoTyped DEF SharedPcs
  <2> QED BY <1>3, <2>2, Kept DEF ApplyUnion
<1>4. CASE StartListening(t)
  <2>1. ThreadsTyped'
    BY <1>4, EndsTyped DEF StartListening
  <2>2. ToldTyped'
    BY <1>4, AckTyped, Kept DEF StartListening
  <2> QED BY <1>4, <2>1, <2>2, Kept DEF StartListening
<1>5. CASE MitaFails(t)
  <2>1. ThreadsTyped'
    BY <1>5, EndsTyped DEF MitaFails
  <2>2. ToldTyped'
    BY <1>5, AckTyped, Kept DEF MitaFails
  <2> QED BY <1>5, <2>1, <2>2, Kept DEF MitaFails
<1> QED BY <1>1, <1>2, <1>3, <1>4, <1>5

LEMMA StepTyped ==
  ASSUME Typed, NEW t \in Goroutines, Step(t) \/ MitaFails(t)
  PROVE  Typed'
BY KillOldTyped, RemovePidTyped, restartDetachedTrackedTyped, SettledTyped, DeployTyped, StoppingTyped,
   WriteFragmentTyped, MergeTyped, WriteUnionTyped, DaemonTyped DEF Step

(***************************************************************************)
(* The meter.                                                              *)
(***************************************************************************)
LEMMA DeltaNat ==
  ASSUME MeterTyped, NEW i \in Insts
  PROVE  /\ cum[i] \in Nat /\ last[i] \in Nat /\ pending[i] \in Nat /\ Delta(i) \in Nat
         /\ Delta(i) <= cum[i]
BY DEF MeterTyped, Amount, Delta

LEMMA TrafficTyped ==
  ASSUME Typed, NEW i \in Insts, Traffic(i)
  PROVE  Typed'
<1> USE DEF Typed
<1>1. MeterTyped'
  <2>1. cum' \in Amount
    BY DEF MeterTyped, Traffic, Amount
  <2>2. ledger' \in [Insts -> [all : Nat, booked : Nat]]
    <3>1. PICK r : r = [ledger[i] EXCEPT !.all = @ + 1]
      OBVIOUS
    <3>2. ledger' = [ledger EXCEPT ![i] = r]
      BY <3>1 DEF Traffic
    <3>3. ledger \in [Insts -> [all : Nat, booked : Nat]]
      BY DEF MeterTyped
    <3>4. r \in [all : Nat, booked : Nat]
      BY <3>1, <3>3
    <3> QED BY <3>2, <3>3, <3>4
  <2> QED BY <2>1, <2>2 DEF MeterTyped, Traffic
<1> QED BY <1>1, Kept DEF Traffic

\* What a sample reports of each instance.
Sampled(live) == [i \in Insts |-> pending[i] + (IF i \in live \intersect based THEN Delta(i) ELSE 0)]

LEMMA SampledTyped ==
  ASSUME MeterTyped, NEW live
  PROVE  Sampled(live) \in Amount
<1>1. ASSUME NEW i \in Insts PROVE Sampled(live)[i] \in Nat
  BY DeltaNat DEF Sampled
<1> QED BY <1>1 DEF Sampled, Amount

LEMMA sampleTyped ==
  ASSUME Typed, sample
  PROVE  Typed'
<1> USE DEF Typed
<1>1. PICK live : live \subseteq Single /\ applyLiveDeltas(live)
  BY DEF sample, listInstanceIDs
<1>2. MeterTyped'
  <2>1. flying' = flying \/ flying' = Append(flying, Sampled(live))
    BY <1>1 DEF applyLiveDeltas, Sampled
  <2>2. flying' \in Seq(Amount)
    BY <2>1, SampledTyped DEF MeterTyped
  <2>3. last' \in Amount /\ pending' \in Amount /\ based' \subseteq Single
    BY <1>1 DEF applyLiveDeltas, MeterTyped, Amount
  <2> QED BY <2>2, <2>3 DEF MeterTyped, sample
<1> QED BY <1>2, Kept DEF sample

LEMMA BookTyped ==
  ASSUME MeterTyped, NEW b \in Amount, Book(b)
  PROVE  ledger' \in [Insts -> [all : Nat, booked : Nat]]
<1>1. ASSUME NEW i \in Insts
      PROVE  [ledger[i] EXCEPT !.booked = @ + b[i]] \in [all : Nat, booked : Nat]
  <2>1. b[i] \in Nat /\ ledger[i] \in [all : Nat, booked : Nat]
    BY DEF Amount, MeterTyped
  <2> QED BY <2>1
<1> QED BY <1>1 DEF Book

LEMMA AnsweredTyped ==
  ASSUME Typed, NEW n \in DOMAIN flying, Answered(n) \/ Unanswered(n)
  PROVE  Typed'
<1> USE DEF Typed
<1>1. flying[n] \in Amount /\ flying \in Seq(Amount) /\ ledger \in [Insts -> [all : Nat, booked : Nat]]
  BY DEF MeterTyped
<1>2. flying' \in Seq(Amount)
  <2>1. flying' = RemoveAt(flying, n)
    BY DEF Answered, Unanswered, takePendingProxyCounters
  <2>2. CASE Insts = {}
    <3>1. SubSeq(flying, 1, n - 1) \in Seq(Amount) /\ SubSeq(flying, n + 1, Len(flying)) \in Seq(Amount)
      BY <1>1
    <3> QED BY <2>1, <3>1 DEF RemoveAt
  <2>3. CASE Insts # {}
    BY <1>1, <2>1, <2>3, CarriedRemove
  <2> QED BY <2>2, <2>3
<1>3. CASE Book(flying[n]) /\ UNCHANGED <<last, pending, based, cum>>
  <2>1. MeterTyped'
    BY <1>1, <1>2, <1>3, BookTyped DEF MeterTyped
  <2> QED BY <2>1, Kept DEF Answered, Unanswered
<1>4. CASE reAdd(flying[n]) /\ UNCHANGED <<ledger, based, cum>>
  <2>1. last' \in Amount /\ pending' \in Amount
    <3>1. PICK b : b = flying[n]
      OBVIOUS
    <3>2. reAdd(b) /\ b \in Amount
      BY <1>1, <1>4, <3>1
    <3>3. last \in Amount /\ pending \in Amount
      BY DEF MeterTyped
    <3> QED BY <3>2, <3>3 DEF reAdd, Amount
  <2>2. MeterTyped'
    BY <1>2, <1>4, <2>1 DEF MeterTyped
  <2> QED BY <1>4, <2>2, Kept DEF Answered, Unanswered
<1>5. CASE UNCHANGED <<ledger, last, pending, based, cum>>
  <2>1. MeterTyped'
    BY <1>2, <1>5 DEF MeterTyped
  <2> QED BY <2>1, Kept DEF Answered, Unanswered
<1> QED BY <1>3, <1>4, <1>5 DEF Answered, Unanswered

LEMMA CrashTyped ==
  ASSUME Typed, NEW p \in Pids, CoreDies(p)
  PROVE  Typed'
<1> USE DEF Typed
<1>1. ProcsTyped'
  BY KillTyped DEF CoreDies
<1>2. MeterTyped'
  BY RenewedTyped DEF CoreDies, Kill
<1> QED BY <1>1, <1>2, Kept DEF CoreDies

LEMMA RestartTyped ==
  ASSUME Typed, Restart
  PROVE  Typed'
<1> USE DEF Typed
<1>1. ThreadsTyped'
  <2>1. DOMAIN thr' = Goroutines /\ \A t \in Goroutines : thr'[t] = NoJob
    BY DEF Restart
  <2>2. ASSUME NEW t \in Goroutines PROVE Fits(t, thr[t])'
    <3>1. Fits(t, thr'[t])
      BY <2>1, IdleFits
    <3> QED BY <3>1 DEF Fits, Job, Goroutines
  <2> QED BY <2>1, <2>2 DEF ThreadsTyped
<1>2. FilesTyped'
  BY DEF FilesTyped, Restart, loadRunSpecsFromDisk
<1>3. MeterTyped'
  BY DEF MeterTyped, Restart, Amount
<1> QED BY <1>1, <1>2, <1>3, Kept DEF Restart

LEMMA InitTyped == CoresInit => Typed
<1> SUFFICES ASSUME CoresInit PROVE Typed
  OBVIOUS
<1>1. ThreadsTyped
  BY IdleFits DEF CoresInit, ThreadsTyped
<1>2. FilesTyped
  BY DEF CoresInit, FilesTyped
<1>3. ProcsTyped
  BY DEF CoresInit, ProcsTyped, Alive
<1>4. MeterTyped
  BY DEF CoresInit, MeterTyped, Amount
<1> QED BY <1>1, <1>2, <1>3, <1>4 DEF Typed, ToldTyped, CoresInit

LEMMA NextTyped ==
  ASSUME Typed, [CoresNext]_coreVars
  PROVE  Typed'
<1>1. CASE UNCHANGED coreVars
  BY <1>1, Kept DEF coreVars, Typed
<1>2. CASE CoresNext
  <2>1. ASSUME NEW t \in Reqs, NEW i \in Insts, handleProxyServiceStop(t, i) PROVE Typed'
    BY <2>1, handleProxyServiceStopTyped, Constants
  <2>2. ASSUME NEW t \in Reqs, NEW i \in Insts, NEW c \in Cfgs, handleProxyServiceApply(t, i, c) PROVE Typed'
    BY <2>2, handleProxyServiceApplyTyped, Constants
  <2> QED BY <1>2, <2>1, <2>2, StepTyped, WatchingTyped, sampleTyped, RestartTyped, TrafficTyped,
             AnsweredTyped, CrashTyped DEF CoresNext
<1> QED BY <1>1, <1>2

LEMMA AlwaysTyped == CoresSpec => []Typed
BY InitTyped, NextTyped, PTL DEF CoresSpec

(***************************************************************************)
(* The agent's cores keep their types, the watchdog's registry holds every *)
(* runspec on disk, and no pid file names a core of another instance, not  *)
(* after any interleaving of requests, restarts and crashes.               *)
(***************************************************************************)
THEOREM CoresTypeCorrect == CoresSpec => []CoresTypeOK
BY AlwaysTyped, TypedOK, PTL

(***************************************************************************)
(* The meter books no byte twice, and loses none it could know of. Beyond  *)
(* the balance itself, an instance that is not sampled has no cursor, what *)
(* is parked is parked below a cursor of 0, and while a counter stands     *)
(* below its cursor nothing of the instance is in flight, unless traffic   *)
(* was lost with its core.                                                 *)
(***************************************************************************)
Unread(c, l) == IF c >= l THEN c - l ELSE IF c * 2 < l THEN c ELSE 0
Cursor(i) ==
  /\ i \notin based => last[i] = 0
  /\ pending[i] > 0 => last[i] = 0
  /\ i \in based \ lossy /\ cum[i] < last[i] => Carried(flying, i) = 0
Account(i) ==
  LET sum == ledger[i].booked + Carried(flying, i) + pending[i]
             + (IF i \in based THEN Unread(cum[i], last[i]) ELSE 0)
  IN sum <= ledger[i].all /\ (i \notin lossy => sum = ledger[i].all)
Balanced == \A i \in Single : Cursor(i) /\ Account(i)

LEMMA BalancedConserves == Balanced => MeterConserved
<1> SUFFICES ASSUME Balanced, NEW i \in Single
             PROVE  LET held == ledger[i].booked + Flying(i) + pending[i]
                        open == IF i \in based THEN Delta(i) ELSE 0
                    IN held + open <= ledger[i].all /\ (i \notin lossy => held + open = ledger[i].all)
  BY DEF MeterConserved
<1>1. Flying(i) = Carried(flying, i)
  BY FlyingCarried, Constants
<1>2. Account(i)
  BY DEF Balanced
<1> QED BY <1>1, <1>2 DEF Account, Unread, Delta

\* The quantities of one instance.
LEMMA Quantities ==
  ASSUME MeterTyped, NEW i \in Single
  PROVE  /\ cum[i] \in Nat /\ last[i] \in Nat /\ pending[i] \in Nat /\ Carried(flying, i) \in Nat
         /\ ledger[i].booked \in Nat /\ ledger[i].all \in Nat
<1>1. i \in Insts
  BY Constants
<1>2. Carried(flying, i) \in Nat
  BY <1>1, CarriedNat DEF MeterTyped
<1> QED BY <1>1, <1>2 DEF MeterTyped, Amount

\* The account of one instance survives if nothing of it changes but lossy grows.
LEMMA AccountKept ==
  ASSUME MeterTyped, NEW i \in Single, Cursor(i), Account(i),
         cum'[i] = cum[i], last'[i] = last[i], pending'[i] = pending[i],
         Carried(flying', i) = Carried(flying, i), ledger'[i] = ledger[i],
         i \in based' <=> i \in based, i \in lossy => i \in lossy'
  PROVE  Cursor(i)' /\ Account(i)'
<1>1. Cursor(i)'
  BY DEF Cursor
<1>2. Account(i)'
  BY Quantities DEF Account
<1> QED BY <1>1, <1>2

LEMMA BalancedKept ==
  ASSUME MeterTyped, Balanced, UNCHANGED <<meter, cum, ledger, lossy>>
  PROVE  Balanced'
BY DEF Balanced, Cursor, Account

\* Counters that start from zero: what they had counted was sampled, or is lost.
LEMMA RenewedBalanced ==
  ASSUME MeterTyped, Balanced, NEW S, Renewed(S), UNCHANGED <<meter, ledger>>
  PROVE  Balanced'
<1> SUFFICES ASSUME NEW i \in Single PROVE Cursor(i)' /\ Account(i)'
  BY DEF Balanced
<1>1. Cursor(i) /\ Account(i) /\ i \in Insts
  BY Constants DEF Balanced
<1>2. CASE i \notin S
  <2>1. cum'[i] = cum[i] /\ (i \in lossy => i \in lossy')
    BY <1>1, <1>2 DEF Renewed
  <2> QED BY <1>1, <2>1, AccountKept
<1>3. CASE i \in S
  <2>1. PICK c, l, p, f, k, a : /\ c = cum[i] /\ l = last[i] /\ p = pending[i]
                               /\ f = Carried(flying, i)
                               /\ k = ledger[i].booked /\ a = ledger[i].all
    OBVIOUS
  <2>2. c \in Nat /\ l \in Nat /\ p \in Nat /\ f \in Nat /\ k \in Nat /\ a \in Nat
    BY <2>1, Quantities
  <2>3. cum'[i] = 0 /\ (i \in lossy => i \in lossy') /\ (i \in based /\ (c # l \/ f > 0) => i \in lossy')
    BY <1>1, <1>3, <2>1, FlyingCarried DEF Renewed
  <2>4. Cursor(i)'
    BY <1>1, <2>1, <2>2, <2>3 DEF Cursor
  <2>5. Account(i)'
    BY <1>1, <2>1, <2>2, <2>3 DEF Account, Unread
  <2> QED BY <2>4, <2>5
<1> QED BY <1>2, <1>3

LEMMA TrafficBalanced ==
  ASSUME Typed, Balanced, NEW k \in Insts, Traffic(k)
  PROVE  Balanced'
<1> USE DEF Typed
<1> SUFFICES ASSUME NEW i \in Single PROVE Cursor(i)' /\ Account(i)'
  BY DEF Balanced
<1>1. Cursor(i) /\ Account(i) /\ i \in Insts
  BY Constants DEF Balanced
<1>2. CASE i # k
  <2>1. cum'[i] = cum[i] /\ ledger'[i] = ledger[i] /\ (i \in lossy => i \in lossy')
    BY <1>1, <1>2 DEF Traffic, MeterTyped, Amount
  <2> QED BY <1>1, <2>1, AccountKept DEF Traffic
<1>3. CASE i = k
  <2>1. PICK c, l, p, f, b, a : /\ c = cum[i] /\ l = last[i] /\ p = pending[i]
                               /\ f = Carried(flying, i)
                               /\ b = ledger[i].booked /\ a = ledger[i].all
    OBVIOUS
  <2>2. c \in Nat /\ l \in Nat /\ p \in Nat /\ f \in Nat /\ b \in Nat /\ a \in Nat
    BY <2>1, Quantities
  <2>3. cum'[i] = c + 1
    BY <1>1, <1>3, <2>1 DEF Traffic, MeterTyped, Amount
  <2>4. ledger'[i].booked = b /\ ledger'[i].all = a + 1
    BY <1>1, <1>3, <2>1 DEF Traffic, MeterTyped
  <2>5. /\ i \in lossy => i \in lossy'
        /\ i \notin based \/ (c < l /\ (c + 1) * 2 >= l) => i \in lossy'
    BY <1>3, <2>1, <2>3 DEF Traffic
  <2>6. UNCHANGED <<last, pending, flying, based>>
    BY DEF Traffic
  <2>7. Cursor(i)'
    BY <1>1, <2>1, <2>2, <2>3, <2>5, <2>6 DEF Cursor
  <2>8. Account(i)'
    BY <1>1, <2>1, <2>2, <2>3, <2>4, <2>5, <2>6 DEF Account, Unread
  <2> QED BY <2>7, <2>8
<1> QED BY <1>2, <1>3

\* A sample moves what is unread, and what was parked, into flight.
LEMMA sampleBalanced ==
  ASSUME Typed, Balanced, sample
  PROVE  Balanced'
<1> USE DEF Typed
<1>0. PICK live : live \subseteq Single /\ applyLiveDeltas(live)
  BY DEF sample, listInstanceIDs
<1> SUFFICES ASSUME NEW i \in Single PROVE Cursor(i)' /\ Account(i)'
  BY DEF Balanced
<1>1. Cursor(i) /\ Account(i) /\ i \in Insts
  BY Constants DEF Balanced
<1>2. PICK c, l, p, f, b, a : /\ c = cum[i] /\ l = last[i] /\ p = pending[i]
                             /\ f = Carried(flying, i)
                             /\ b = ledger[i].booked /\ a = ledger[i].all
  OBVIOUS
<1>3. c \in Nat /\ l \in Nat /\ p \in Nat /\ f \in Nat /\ b \in Nat /\ a \in Nat
  BY <1>2, Quantities
<1>4. PICK d : d = Sampled(live)[i]
  OBVIOUS
<1>5. d = p + (IF i \in live \intersect based THEN Unread(c, l) ELSE 0)
  BY <1>1, <1>2, <1>4 DEF Sampled, Delta, Unread
<1>6. Carried(flying', i) = f + d
  <2>1. Sampled(live) \in Amount /\ flying \in Seq(Amount)
    BY SampledTyped DEF MeterTyped
  <2>2. CASE \A x \in Insts : Sampled(live)[x] = 0
    <3>1. flying' = flying /\ d = 0
      BY <1>0, <1>1, <1>4, <2>2 DEF applyLiveDeltas, Sampled
    <3> QED BY <1>2, <1>3, <3>1
  <2>3. CASE ~ \A x \in Insts : Sampled(live)[x] = 0
    <3>1. flying' = Append(flying, Sampled(live))
      BY <1>0, <2>3 DEF applyLiveDeltas, Sampled
    <3> QED BY <1>1, <1>2, <1>4, <2>1, <3>1, CarriedAppend
  <2> QED BY <2>2, <2>3
<1>7. /\ cum'[i] = c /\ ledger'[i].booked = b /\ ledger'[i].all = a /\ pending'[i] = 0
      /\ i \in lossy => i \in lossy'
  BY <1>0, <1>1, <1>2 DEF sample, applyLiveDeltas
<1>8. CASE i \in live
  <2>1. last'[i] = c /\ i \in based'
    BY <1>0, <1>1, <1>2, <1>8 DEF applyLiveDeltas
  <2>2. Cursor(i)'
    BY <1>3, <1>7, <2>1 DEF Cursor
  <2>3. Account(i)'
    <3>1. PICK o : o = IF i \in based THEN Unread(c, l) ELSE 0
      OBVIOUS
    <3>2. o \in Nat /\ Unread(c, c) = 0
      BY <1>3, <3>1 DEF Unread
    <3>3. b + f + p + o <= a /\ (i \notin lossy => b + f + p + o = a)
      BY <1>1, <1>2, <3>1 DEF Account
    <3>4. d = p + o
      BY <1>3, <1>5, <1>8, <3>1
    <3>5. /\ b + (f + d) + 0 + 0 <= a
          /\ i \notin lossy' => b + (f + d) + 0 + 0 = a
      BY <1>3, <1>7, <3>2, <3>3, <3>4
    <3> QED BY <1>6, <1>7, <2>1, <3>2, <3>5 DEF Account
  <2> QED BY <2>2, <2>3
<1>9. CASE i \notin live /\ i \in based /\ p = 0
  <2>1. last'[i] = 0 /\ i \notin based' /\ (Unread(c, l) > 0 => i \in lossy')
    BY <1>0, <1>1, <1>2, <1>9 DEF applyLiveDeltas, Delta, Unread
  <2>2. Cursor(i)'
    BY <1>3, <1>7, <2>1 DEF Cursor
  <2>3. Account(i)'
    BY <1>1, <1>2, <1>3, <1>5, <1>6, <1>7, <1>9, <2>1 DEF Account, Unread
  <2> QED BY <2>2, <2>3
<1>10. CASE i \notin live /\ ~(i \in based /\ p = 0)
  <2>1. last'[i] = l /\ (i \in based' <=> i \in based)
    BY <1>0, <1>1, <1>2, <1>10 DEF applyLiveDeltas
  <2>2. l = 0
    BY <1>1, <1>2, <1>3, <1>10 DEF Cursor
  <2>3. Cursor(i)'
    BY <1>3, <1>7, <2>1, <2>2 DEF Cursor
  <2>4. Account(i)'
    BY <1>1, <1>2, <1>3, <1>5, <1>6, <1>7, <1>10, <2>1, <2>2 DEF Account, Unread
  <2> QED BY <2>3, <2>4
<1> QED BY <1>8, <1>9, <1>10

\* A batch that is booked, refused, or lost with its answer.
LEMMA AnsweredBalanced ==
  ASSUME Typed, Balanced, NEW n \in DOMAIN flying, Answered(n) \/ Unanswered(n)
  PROVE  Balanced'
<1> USE DEF Typed
<1> SUFFICES ASSUME NEW i \in Single PROVE Cursor(i)' /\ Account(i)'
  BY DEF Balanced
<1>1. Cursor(i) /\ Account(i) /\ i \in Insts
  BY Constants DEF Balanced
<1>2. PICK c, l, p, f, b, a, d :
        /\ c = cum[i] /\ l = last[i] /\ p = pending[i] /\ f = Carried(flying, i)
        /\ b = ledger[i].booked /\ a = ledger[i].all /\ d = flying[n][i]
  OBVIOUS
<1>3. c \in Nat /\ l \in Nat /\ p \in Nat /\ f \in Nat /\ b \in Nat /\ a \in Nat
  BY <1>2, Quantities
<1>4. PICK g : g = Carried(flying', i)
  OBVIOUS
<1>5. g \in Nat /\ d \in Nat /\ f = g + d
  <2>1. flying' = RemoveAt(flying, n) /\ flying \in Seq(Amount)
    BY DEF Answered, Unanswered, takePendingProxyCounters, MeterTyped
  <2>2. RemoveAt(flying, n) \in Seq(Amount) /\ flying[n] \in Amount /\ f = g + d
    BY <1>1, <1>2, <1>4, <2>1, CarriedRemove
  <2> QED BY <1>1, <1>2, <1>4, <2>1, <2>2, CarriedNat DEF Amount
<1>6. /\ cum'[i] = c /\ (i \in based' <=> i \in based)
      /\ i \in lossy => i \in lossy'
  BY <1>2 DEF Answered, Unanswered
<1>7. CASE Book(flying[n]) /\ UNCHANGED <<last, pending>>
  <2>1. ledger'[i].booked = b + d /\ ledger'[i].all = a
    <3>1. ledger[i] \in [all : Nat, booked : Nat]
      BY <1>1 DEF MeterTyped
    <3>2. ledger'[i] = [ledger[i] EXCEPT !.booked = @ + d]
      BY <1>1, <1>2, <1>7 DEF Book
    <3> QED BY <1>2, <3>1, <3>2
  <2>2. Cursor(i)'
    BY <1>1, <1>2, <1>3, <1>4, <1>5, <1>6, <1>7 DEF Cursor
  <2>3. Account(i)'
    BY <1>1, <1>2, <1>3, <1>4, <1>5, <1>6, <1>7, <2>1 DEF Account, Unread
  <2> QED BY <2>2, <2>3
<1>8. CASE reAdd(flying[n]) /\ UNCHANGED ledger
  <2>1. /\ last'[i] = IF i \in based /\ l > d THEN l - d ELSE 0
        /\ pending'[i] = p + IF d > l THEN d - l ELSE 0
    BY <1>1, <1>2, <1>8 DEF reAdd
  <2>2. Cursor(i)'
    BY <1>1, <1>2, <1>3, <1>4, <1>5, <1>6, <2>1 DEF Cursor
  <2>3. Account(i)'
    <3>1. CASE i \notin based
      BY <1>1, <1>2, <1>3, <1>4, <1>5, <1>6, <1>8, <2>1, <3>1 DEF Cursor, Account, Unread
    <3>2. CASE i \in based /\ c >= l
      BY <1>1, <1>2, <1>3, <1>4, <1>5, <1>6, <1>8, <2>1, <3>2 DEF Cursor, Account, Unread
    <3>3. CASE i \in based /\ c < l
      <4>1. PICK u, v : u = Unread(c, l) /\ v = Unread(c, last'[i])
        OBVIOUS
      <4>2. b + f + p + u <= a /\ (i \notin lossy => b + f + p + u = a)
        BY <1>1, <1>2, <3>3, <4>1 DEF Account
      <4>3. p = 0 /\ (i \notin lossy => d = 0)
        BY <1>1, <1>2, <1>3, <1>5, <3>3 DEF Cursor
      <4>4. /\ b + g + pending'[i] + v <= b + f + p + u
            /\ d = 0 => b + g + pending'[i] + v = b + f + p + u
        BY <1>3, <1>5, <2>1, <3>3, <4>1, <4>3 DEF Unread
      <4>5. pending'[i] \in Nat /\ u \in Nat /\ v \in Nat
        BY <1>3, <1>5, <2>1, <4>1 DEF Unread
      <4>6. b + g + pending'[i] + v <= a /\ (i \notin lossy' => b + g + pending'[i] + v = a)
        BY <1>3, <1>5, <1>6, <4>2, <4>3, <4>4, <4>5
      <4> QED BY <1>2, <1>4, <1>6, <1>8, <3>3, <4>1, <4>6 DEF Account
    <3> QED BY <1>3, <3>1, <3>2, <3>3
  <2> QED BY <2>2, <2>3
<1>9. CASE UNCHANGED <<ledger, last, pending>> /\ lossy' = lossy \union {x \in Insts : flying[n][x] > 0}
  <2>1. d > 0 => i \in lossy'
    BY <1>1, <1>2, <1>9
  <2>2. Cursor(i)'
    BY <1>1, <1>2, <1>3, <1>4, <1>5, <1>6, <1>9 DEF Cursor
  <2>3. Account(i)'
    BY <1>1, <1>2, <1>3, <1>4, <1>5, <1>6, <1>9, <2>1 DEF Account, Unread
  <2> QED BY <2>2, <2>3
<1> QED BY <1>7, <1>8, <1>9 DEF Answered, Unanswered

LEMMA RestartBalanced ==
  ASSUME Typed, Balanced, Restart
  PROVE  Balanced'
<1> USE DEF Typed
<1> SUFFICES ASSUME NEW i \in Single PROVE Cursor(i)' /\ Account(i)'
  BY DEF Balanced
<1>1. Cursor(i) /\ Account(i) /\ i \in Insts
  BY Constants DEF Balanced
<1>2. PICK c, l, p, f, b, a : /\ c = cum[i] /\ l = last[i] /\ p = pending[i]
                             /\ f = Carried(flying, i)
                             /\ b = ledger[i].booked /\ a = ledger[i].all
  OBVIOUS
<1>3. c \in Nat /\ l \in Nat /\ p \in Nat /\ f \in Nat /\ b \in Nat /\ a \in Nat
  BY <1>2, Quantities
<1>4. /\ last'[i] = 0 /\ pending'[i] = 0 /\ i \notin based'
      /\ UNCHANGED <<cum, flying, ledger>>
      /\ i \in lossy => i \in lossy'
      /\ p > 0 \/ (i \in based /\ Unread(c, l) > 0) => i \in lossy'
  BY <1>1, <1>2 DEF Restart, Delta, Unread
<1>5. Cursor(i)'
  BY <1>4 DEF Cursor
<1>6. Account(i)'
  <2>1. Carried(flying', i) = f /\ ledger'[i].booked = b /\ ledger'[i].all = a
    BY <1>2, <1>4
  <2>2. PICK u : u = IF i \in based THEN Unread(c, l) ELSE 0
    OBVIOUS
  <2>3. u \in Nat
    BY <1>3, <2>2 DEF Unread
  <2>4. b + f + p + u <= a /\ (i \notin lossy => b + f + p + u = a)
    BY <1>1, <1>2, <2>2 DEF Account
  <2>5. p > 0 \/ u > 0 => i \in lossy'
    BY <1>4, <2>2
  <2>6. b + f <= a /\ (i \notin lossy' => b + f = a)
    BY <1>3, <1>4, <2>3, <2>4, <2>5
  <2> QED BY <1>3, <1>4, <2>1, <2>6 DEF Account
<1> QED BY <1>5, <1>6

LEMMA NextBalanced ==
  ASSUME Typed, Balanced, [CoresNext]_coreVars
  PROVE  Balanced'
<1> USE DEF Typed
<1>1. CASE UNCHANGED <<meter, cum, ledger, lossy>>
  BY <1>1, BalancedKept
<1>2. CASE \E S : Renewed(S) /\ UNCHANGED <<meter, ledger>>
  BY <1>2, RenewedBalanced
<1>3. ASSUME NEW t \in Goroutines, Step(t) \/ MitaFails(t)
      PROVE  \/ UNCHANGED <<meter, cum, ledger, lossy>>
             \/ \E S : Renewed(S) /\ UNCHANGED <<meter, ledger>>
  <2>1. CASE KillOld(t) \/ StopKill(t)
    BY <2>1 DEF KillOld, StopKill, Kill
  <2>2. CASE restartDetachedTracked(t)
    BY <2>2 DEF restartDetachedTracked
  <2>3. CASE DeployTest(t)
    BY <2>3 DEF DeployTest, evictForeignListeners, Kill
  <2>4. CASE ~(KillOld(t) \/ StopKill(t) \/ restartDetachedTracked(t) \/ DeployTest(t))
    BY <1>3, <2>4
    DEF Step, RemovePid, Settled, DeployUnchanged, DeployWrite, restartDetached, StartFails,
        waitListenHint, StopUnregister, stopPIDFile, StopFiles, WriteFragment, Merge, WriteUnion,
        KeepDaemon, ResetDaemon, ApplyUnion, StartListening, MitaFails
  <2> QED BY <2>1, <2>2, <2>3, <2>4
<1>4. ASSUME NEW t \in Reqs, NEW i \in Insts, handleProxyServiceStop(t, i) PROVE Balanced'
  BY <1>1, <1>4 DEF handleProxyServiceStop
<1>5. ASSUME NEW t \in Reqs, NEW i \in Insts, NEW c \in Cfgs, handleProxyServiceApply(t, i, c) PROVE Balanced'
  BY <1>2, <1>5 DEF handleProxyServiceApply, evictForeignListeners, Kill
<1>6. CASE Watching
  BY <1>1, <1>6 DEF Watching, tick, Revive, ReviveFails, ensure, Later
<1>7. ASSUME NEW p \in Pids, CoreDies(p) PROVE Balanced'
  BY <1>2, <1>7 DEF CoreDies, Kill
<1>8. CASE UNCHANGED coreVars
  BY <1>1, <1>8 DEF coreVars
<1> QED BY <1>1, <1>2, <1>3, <1>4, <1>5, <1>6, <1>7, <1>8, sampleBalanced, RestartBalanced,
           TrafficBalanced, AnsweredBalanced DEF CoresNext

LEMMA InitBalanced == CoresInit => Balanced
<1> SUFFICES ASSUME CoresInit, NEW i \in Single PROVE Cursor(i) /\ Account(i)
  BY DEF Balanced
<1>1. i \in Insts
  BY Constants
<1>2. Carried(flying, i) = 0
  <2>1. DOMAIN flying = {}
    BY DEF CoresInit
  <2> QED BY <2>1, SumEmpty DEF Carried
<1>3. /\ cum[i] = 0 /\ last[i] = 0 /\ pending[i] = 0 /\ i \notin based
      /\ ledger[i].booked = 0 /\ ledger[i].all = 0
  BY <1>1 DEF CoresInit
<1> QED BY <1>2, <1>3 DEF Cursor, Account, Unread

(***************************************************************************)
(* No byte a proxy core carried is booked twice, and all are booked in the *)
(* end but for those that no sample could hold, through any order of       *)
(* samples, resets, refused and lost batches and restarts                  *)
(* (proxyStatsState).                                                      *)
(***************************************************************************)
THEOREM MeterAlwaysConserved == CoresSpec => []MeterConserved
<1>1. CoresInit => Typed /\ Balanced
  BY InitTyped, InitBalanced
<1>2. Typed /\ Balanced /\ [CoresNext]_coreVars => (Typed /\ Balanced)'
  BY NextTyped, NextBalanced
<1>3. Typed /\ Balanced => MeterConserved
  BY BalancedConserves
<1> QED BY <1>1, <1>2, <1>3, PTL DEF CoresSpec

(***************************************************************************)
(* What the panel was told runs is what runs. A request that meets no      *)
(* other one is alone with its instance (or with all mieru instances), so  *)
(* that what it finds on disk and among the processes is what it or a      *)
(* finished request has left there.                                        *)
(***************************************************************************)
Up(i) == Alive(pidfile[i])
AsFiled(i) == Up(i) => procs[pidfile[i]].c = file[i]
Tracked(i) == Up(i) => i \in runspec
Acks(i) == acked[i] \notin {None, Halted} => i \in runspec /\ file[i] = acked[i]
Served == mita = [users |-> mergeMitaInstanceConfigs, listening |-> mergeMitaInstanceConfigs # {}]

Alone(t) ==
  ~At(t, "idle") => /\ thr[t].clean => Busy(thr[t].i) = {t}
                    /\ ~thr[t].clean => With(thr[t].i) \subseteq torn

\* Where a request that is alone with an instance of its own stands.
OwnPhase(t) ==
  LET i == thr[t].i  pc == thr[t].pc IN
  /\ pc \in OwnPcs \union {"test", "listen"} /\ t # Watch => file[i] = thr[t].c
  /\ pc \in {"unpid", "start", "stopped", "unfile"} \/ (pc = "kill" /\ t = Watch) => ~Up(i)
  /\ pc = "settle" => pidfile[i] = thr[t].pid
  /\ pc \in {"settle", "record", "listen"} => AsFiled(i)
  /\ pc = "listen" => i \in runspec

\* Where one that is alone with the mieru daemon does.
DaemonPhase(t) ==
  LET pc == thr[t].pc IN
  /\ pc \in {"unite", "live", "rewrite", "push", "listening"} => thr[t].u = mergeMitaInstanceConfigs
  /\ pc = "live" => desired = thr[t].u
  /\ pc = "push" => desired \ Missing = thr[t].u /\ mita = [users |-> {}, listening |-> FALSE]
  /\ pc = "listening" => mita = [users |-> thr[t].u, listening |-> FALSE]

Phase(t) ==
  ~At(t, "idle") /\ thr[t].clean =>
    (thr[t].i \in Single => OwnPhase(t)) /\ (thr[t].i \in Shared => DaemonPhase(t))

\* What holds of an instance of its own that nothing has torn.
Sound(i) ==
  /\ Orphans(i) = {}
  /\ \A t \in Busy(i) : /\ thr[t].pc = "compare" => AsFiled(i) /\ Tracked(i)
                        /\ thr[t].pc \in {"stop", "stopkill"} => AsFiled(i)
  /\ Busy(i) = {} => AsFiled(i) /\ Tracked(i)
  /\ Busy(i) \subseteq {Watch} => Acks(i)

\* What holds of the daemon then.
SoundDaemon(i) ==
  /\ Busy(i) = {} => Served
  /\ \A t \in Busy(i) :
       thr[t].pc = "fragment" \/ (thr[t].pc \in {"merge", "unite", "live"} /\ thr[t].same) => Served

Sure ==
  /\ \A t \in Goroutines : Alone(t) /\ Phase(t)
  /\ \A i \in Single \ torn : Sound(i)
  /\ \A i \in Shared \ torn : SoundDaemon(i)

\* Who is busy with an instance.
LEMMA BusyWith ==
  /\ \A i \in Single : \A t : t \in Busy(i) <=> t \in Goroutines /\ thr[t].pc # "idle" /\ thr[t].i = i
  /\ \A i \in Shared : \A t : t \in Busy(i) <=> t \in Goroutines /\ thr[t].pc # "idle" /\ thr[t].i \in Shared
  /\ \A t \in Goroutines : thr[t].pc # "idle" /\ thr[t].i \in Insts => t \in Busy(thr[t].i)
  /\ \A i \in Single : With(i) = {i}
  /\ \A i \in Shared : With(i) = Shared
BY Constants DEF Busy, With, At

\* A thread that is at something is at an instance.
LEMMA AtInstance ==
  ASSUME ThreadsTyped, NEW t \in Goroutines, thr[t].pc # "idle"
  PROVE  thr[t].i \in Insts /\ (thr[t].i \in Single \/ thr[t].i \in Shared)
BY Constants DEF ThreadsTyped, Fits, Job, SinglePcs, SharedPcs, OwnPcs

LEMMA SureAcked ==
  ASSUME Typed, Sure
  PROVE  AckedRuns
<1> USE DEF Typed
<1>1. ASSUME NEW i \in Single \ torn, Busy(i) \subseteq {Watch}
      PROVE  LET running == {procs[p].c : p \in {p \in Pids : procs[p].i = i}}
             IN /\ acked[i] \notin {None, Halted} =>
                     i \in runspec /\ file[i] = acked[i] /\ running \subseteq {acked[i]}
                /\ acked[i] = Halted /\ file[i] = None => running = {}
  <2>1. Sound(i) /\ i \in Insts
    BY Constants DEF Sure
  <2>2. Acks(i)
    BY <1>1, <2>1 DEF Sound
  <2>3. AsFiled(i)
    <3>1. CASE Busy(i) = {}
      BY <2>1, <3>1 DEF Sound
    <3>2. CASE Watch \in Busy(i)
      <4>1. thr[Watch].pc # "idle" /\ thr[Watch].i = i /\ Watch \in Goroutines
        BY <3>2, BusyWith
      <4>2. thr[Watch].clean
        BY <4>1, BusyWith DEF Sure, Alone, At
      <4>3. OwnPhase(Watch)
        BY <4>1, <4>2 DEF Sure, Phase, At
      <4>4. thr[Watch].pc \in OwnPcs
        BY <4>1 DEF ThreadsTyped, Fits
      <4> QED BY <4>1, <4>3, <4>4 DEF OwnPhase, AsFiled, OwnPcs
    <3> QED BY <1>1, <3>1, <3>2
  <2>4. ASSUME NEW p \in Pids, procs[p].i = i
        PROVE  procs[p].c = file[i] /\ file[i] # None
    <3>1. Alive(p) /\ procs[p].c \in Cfgs
      BY <2>1, <2>4, Constants DEF ProcsTyped, Alive, NoCore
    <3>2. pidfile[i] = p
      BY <2>1, <2>4, <3>1 DEF Sound, Orphans
    <3> QED BY <2>3, <3>1, <3>2, Constants DEF AsFiled, Up
  <2> QED BY <2>2, <2>4 DEF Acks
<1>2. OwnCore
  BY <1>1 DEF OwnCore
<1>3. MitaUnion
  BY DEF Sure, SoundDaemon, Served, MitaUnion
<1> QED BY <1>2, <1>3 DEF AckedRuns

(***************************************************************************)
(* One thread moves on at its instance, or ends there.                     *)
(***************************************************************************)
Moves(u, j) ==
  /\ thr' = [thr EXCEPT ![u] = j] /\ thr[u].pc # "idle"
  /\ j.pc # "idle" => j.i = thr[u].i /\ j.clean = thr[u].clean

LEMMA MovesBusy ==
  ASSUME ThreadsTyped, NEW u \in Goroutines, NEW j, Moves(u, j)
  PROVE  /\ thr'[u] = j /\ \A t \in Goroutines \ {u} : thr'[t] = thr[t]
         /\ \A i \in Insts : Busy(i)' = IF j.pc = "idle" THEN Busy(i) \ {u} ELSE Busy(i)
<1>1. thr'[u] = j /\ \A t \in Goroutines \ {u} : thr'[t] = thr[t]
  BY DEF Moves, ThreadsTyped
<1>2. ASSUME NEW i \in Insts PROVE Busy(i)' = IF j.pc = "idle" THEN Busy(i) \ {u} ELSE Busy(i)
  <2>1. PICK S : S = With(i)
    OBVIOUS
  <2>2. Busy(i) = {t \in Goroutines : thr[t].pc # "idle" /\ thr[t].i \in S}
    BY <2>1 DEF Busy, At
  <2>3. Busy(i)' = {t \in Goroutines : thr'[t].pc # "idle" /\ thr'[t].i \in S}
    BY <2>1 DEF Busy, At, With
  <2> QED BY <1>1, <2>2, <2>3 DEF Moves
<1> QED BY <1>1, <1>2

LEMMA OthersBusy ==
  ASSUME ThreadsTyped, NEW u \in Goroutines, NEW j, Moves(u, j), NEW i \in Insts, u \notin Busy(i)
  PROVE  Busy(i)' = Busy(i)
<1>1. Busy(i)' = IF j.pc = "idle" THEN Busy(i) \ {u} ELSE Busy(i)
  BY MovesBusy
<1>2. PICK B : B = Busy(i)
  OBVIOUS
<1>3. u \notin B
  BY <1>2
<1>4. B \ {u} = B
  BY ONLY <1>3
<1> QED BY <1>1, <1>2, <1>4

LEMMA MovesAlone ==
  ASSUME ThreadsTyped, Sure, NEW u \in Goroutines, NEW j, Moves(u, j),
         \A i \in torn \ torn' : i \in With(thr[u].i) /\ thr[u].clean /\ j.pc = "idle"
  PROVE  \A t \in Goroutines : Alone(t)'
<1> SUFFICES ASSUME NEW t \in Goroutines, thr'[t].pc # "idle"
             PROVE  /\ thr'[t].clean => Busy(thr[t].i)' = {t}
                    /\ ~thr'[t].clean => With(thr'[t].i) \subseteq torn'
  BY DEF Alone, At, With
<1>1. thr'[t].i = thr[t].i /\ thr'[t].clean = thr[t].clean /\ thr[t].pc # "idle" /\ (t = u => j.pc # "idle")
  <2>1. thr'[u] = j /\ \A x \in Goroutines \ {u} : thr'[x] = thr[x]
    BY MovesBusy
  <2>2. CASE t = u
    BY <2>1, <2>2 DEF Moves
  <2>3. CASE t # u
    BY <2>1, <2>3
  <2> QED BY <2>2, <2>3
<1>2. PICK i \in Insts : i = thr[t].i
  BY <1>1, AtInstance
<1>3. t \in Busy(i)
  BY <1>1, <1>2, BusyWith
<1>4. Alone(t) /\ ~At(t, "idle")
  BY <1>1 DEF Sure, At
<1>5. ASSUME thr[t].clean PROVE Busy(thr[t].i)' = {t}
  <2>1. Busy(i) = {t}
    BY <1>2, <1>4, <1>5 DEF Alone
  <2>2. PICK k : k = thr'[t].i
    OBVIOUS
  <2>3. k = i
    BY <1>1, <1>2, <2>2
  <2>4. Busy(i)' = {t}
    BY <1>1, <2>1, MovesBusy
  <2> QED BY <2>2, <2>3, <2>4 DEF Busy, With, At
<1>6. ASSUME NEW x \in With(i), x \notin torn', ~thr[t].clean PROVE FALSE
  <2>1. x \in torn
    BY <1>2, <1>4, <1>6 DEF Alone
  <2>2. i \in With(thr[u].i) /\ thr[u].clean /\ j.pc = "idle"
    BY <1>6, <2>1 DEF With
  <2>3. Alone(u) /\ thr[u].pc # "idle"
    BY DEF Sure, Moves
  <2>4. Busy(thr[u].i) = {u}
    BY <2>2, <2>3 DEF Alone, At
  <2>5. t \in Busy(thr[u].i)
    BY <1>1, <1>2, <2>2 DEF Busy, At
  <2> QED BY <1>1, <2>2, <2>4, <2>5
<1> QED BY <1>1, <1>2, <1>5, <1>6

(***************************************************************************)
(* What a step leaves of an instance it is not about: its file and pid     *)
(* file, its process unless that dies, and no other process of it.         *)
(***************************************************************************)
Still(i) ==
  /\ file'[i] = file[i] /\ pidfile'[i] = pidfile[i] /\ (i \in runspec => i \in runspec')
  /\ Up(i)' => Up(i) /\ procs'[pidfile[i]] = procs[pidfile[i]]
  /\ Orphans(i)' \subseteq Orphans(i)

LEMMA StillFacts ==
  ASSUME NEW i, Still(i)
  PROVE  /\ AsFiled(i) => AsFiled(i)'
         /\ ~Up(i) => ~Up(i)'
         /\ Tracked(i) => Tracked(i)'
         /\ Orphans(i) = {} => Orphans(i)' = {}
         /\ Acks(i) /\ acked'[i] = acked[i] => Acks(i)'
<1>1. AsFiled(i) => AsFiled(i)'
  BY DEF Still, AsFiled
<1>2. ~Up(i) => ~Up(i)'
  BY DEF Still
<1>3. Tracked(i) => Tracked(i)'
  BY DEF Still, Tracked
<1>4. Acks(i) /\ acked'[i] = acked[i] => Acks(i)'
  BY DEF Still, Acks
<1> QED BY <1>1, <1>2, <1>3, <1>4 DEF Still

LEMMA StillPhase ==
  ASSUME NEW t, NEW i, thr[t].i = i, Still(i), OwnPhase(t),
         thr'[t].i = i, thr'[t].pc = thr[t].pc, thr'[t].c = thr[t].c, thr'[t].pid = thr[t].pid
  PROVE  OwnPhase(t)'
<1>1. PICK pc : pc = thr[t].pc
  OBVIOUS
<1>2. /\ pc \in OwnPcs \union {"test", "listen"} /\ t # Watch => file'[i] = thr[t].c
      /\ pc = "settle" => pidfile'[i] = thr[t].pid
      /\ pc = "listen" => i \in runspec'
  BY <1>1 DEF OwnPhase, Still
<1>3. pc \in {"unpid", "start", "stopped", "unfile"} \/ (pc = "kill" /\ t = Watch) => ~Up(i)'
  BY <1>1, StillFacts DEF OwnPhase
<1>4. pc \in {"settle", "record", "listen"} => AsFiled(i)'
  BY <1>1, StillFacts DEF OwnPhase
<1>5. Up(thr[t].i)' = Up(i)' /\ AsFiled(thr[t].i)' = AsFiled(i)'
  BY DEF Up, Alive, AsFiled
<1> QED BY <1>1, <1>2, <1>3, <1>4, <1>5 DEF OwnPhase, OwnPcs

LEMMA StillSound ==
  ASSUME NEW i \in Single, Still(i), Sound(i), acked'[i] = acked[i], Busy(i)' = Busy(i),
         \A t \in Busy(i) : thr'[t].pc = thr[t].pc
  PROVE  Sound(i)'
<1>1. PICK B : B = Busy(i)
  OBVIOUS
<1>2. B = Busy(i)'
  BY <1>1
<1>3. Orphans(i)' = {}
  BY StillFacts DEF Sound
<1>4. ASSUME NEW t \in B
      PROVE  /\ thr'[t].pc = "compare" => AsFiled(i)' /\ Tracked(i)'
             /\ thr'[t].pc \in {"stop", "stopkill"} => AsFiled(i)'
  BY <1>1, <1>4, StillFacts DEF Sound
<1>5. B = {} => AsFiled(i)' /\ Tracked(i)'
  BY <1>1, StillFacts DEF Sound
<1>6. B \subseteq {Watch} => Acks(i)'
  BY <1>1, StillFacts DEF Sound
<1> QED BY <1>2, <1>3, <1>4, <1>5, <1>6 DEF Sound

\* The union is that of the fragments.
LEMMA UnionStill ==
  ASSUME FilesTyped, \A i \in Shared : file'[i] = file[i]
  PROVE  mergeMitaInstanceConfigs' = mergeMitaInstanceConfigs
BY DEF mergeMitaInstanceConfigs, Shared, Single

LEMMA StillDaemon ==
  ASSUME FilesTyped, \A i \in Shared : file'[i] = file[i], UNCHANGED <<mita, desired>>
  PROVE  /\ Served => Served'
         /\ \A t : DaemonPhase(t) /\ thr'[t].pc = thr[t].pc /\ thr'[t].u = thr[t].u => DaemonPhase(t)'
<1>1. mergeMitaInstanceConfigs' = mergeMitaInstanceConfigs
  BY UnionStill
<1>2. Served => Served'
  BY <1>1 DEF Served
<1>3. ASSUME NEW t, DaemonPhase(t), thr'[t].pc = thr[t].pc, thr'[t].u = thr[t].u PROVE DaemonPhase(t)'
  BY <1>1, <1>3 DEF DaemonPhase
<1> QED BY <1>2, <1>3

LEMMA StillSoundDaemon ==
  ASSUME FilesTyped, \A i \in Shared : file'[i] = file[i], UNCHANGED <<mita, desired>>,
         NEW i \in Shared, SoundDaemon(i), Busy(i)' = Busy(i),
         \A t \in Busy(i) : thr'[t].pc = thr[t].pc /\ thr'[t].same = thr[t].same
  PROVE  SoundDaemon(i)'
<1>1. PICK B : B = Busy(i)
  OBVIOUS
<1>2. B = Busy(i)'
  BY <1>1
<1>3. B = {} => Served'
  BY <1>1, StillDaemon DEF SoundDaemon
<1>4. ASSUME NEW t \in B, thr'[t].pc = "fragment" \/ (thr'[t].pc \in {"merge", "unite", "live"} /\ thr'[t].same)
      PROVE  Served'
  BY <1>1, <1>4, StillDaemon DEF SoundDaemon
<1> QED BY <1>2, <1>3, <1>4 DEF SoundDaemon

\* A thread that is alone shares its instance with none that moves.
LEMMA OthersApart ==
  ASSUME ThreadsTyped, Sure, NEW u \in Goroutines, thr[u].pc # "idle",
         NEW t \in Goroutines, t # u, thr[t].pc # "idle", thr[t].clean
  PROVE  /\ thr[t].i \in Single => thr[t].i # thr[u].i
         /\ thr[t].i \in Shared => thr[u].i \notin Shared
<1>1. Busy(thr[t].i) = {t}
  BY DEF Sure, Alone, At
<1>2. u \notin Busy(thr[t].i)
  BY <1>1
<1> QED BY <1>2, BusyWith

\* A step of a thread at an instance of its own.
LEMMA OwnMoves ==
  ASSUME Typed, Sure, NEW u \in Goroutines, NEW j, NEW k \in Single, Moves(u, j), thr[u].i = k,
         \A i \in Single \ {k} : Still(i) /\ acked'[i] = acked[i],
         \A i \in Shared : file'[i] = file[i], UNCHANGED <<mita, desired>>,
         \A i \in torn \ torn' : i = k /\ thr[u].clean /\ j.pc = "idle",
         j.pc # "idle" /\ j.clean => OwnPhase(u)',
         k \notin torn' => Sound(k)'
  PROVE  Sure'
<1> USE DEF Typed
<1>0. thr'[u] = j /\ \A t \in Goroutines \ {u} : thr'[t] = thr[t]
  BY MovesBusy
<1>1. ASSUME NEW t \in Goroutines PROVE Alone(t)'
  <2>1. \A i \in torn \ torn' : i \in With(thr[u].i) /\ thr[u].clean /\ j.pc = "idle"
    BY BusyWith
  <2> QED BY <2>1, MovesAlone
<1>2. ASSUME NEW t \in Goroutines PROVE Phase(t)'
  <2> SUFFICES ASSUME thr'[t].pc # "idle", thr'[t].clean
               PROVE  /\ thr'[t].i \in Single => OwnPhase(t)'
                      /\ thr'[t].i \in Shared => DaemonPhase(t)'
    BY DEF Phase, At, Single, Shared
  <2>1. CASE t = u
    <3>1. j.pc # "idle" /\ j.clean /\ thr'[t].i = k
      BY <1>0, <2>1 DEF Moves
    <3> QED BY <2>1, <3>1, Constants
  <2>2. CASE t # u
    <3>1. thr'[t] = thr[t] /\ thr[t].pc # "idle" /\ thr[t].clean /\ thr[u].pc # "idle"
      BY <1>0, <2>2 DEF Moves
    <3>2. Phase(t)
      BY DEF Sure
    <3>3. ASSUME thr[t].i \in Single PROVE OwnPhase(t)'
      <4>1. thr[t].i # k
        BY <2>2, <3>1, <3>3, OthersApart
      <4>2. Still(thr[t].i) /\ OwnPhase(t)
        BY <3>1, <3>2, <3>3, <4>1 DEF Phase, At
      <4> QED BY <3>1, <4>2, StillPhase
    <3>4. ASSUME thr[t].i \in Shared PROVE DaemonPhase(t)'
      <4>1. DaemonPhase(t)
        BY <3>1, <3>2, <3>4 DEF Phase, At
      <4> QED BY <3>1, <4>1, StillDaemon
    <3> QED BY <3>1, <3>3, <3>4
  <2> QED BY <2>1, <2>2
<1>3. ASSUME NEW i \in Insts, u \notin Busy(i) PROVE Busy(i)' = Busy(i)
  BY <1>3, OthersBusy
<1>4. ASSUME NEW i \in Single, i \notin torn' PROVE Sound(i)'
  <2>1. CASE i = k
    BY <1>4, <2>1
  <2>2. CASE i # k
    <3>1. Still(i) /\ acked'[i] = acked[i] /\ Sound(i)
      BY <1>4, <2>2, Constants DEF Sure
    <3>2. u \notin Busy(i)
      BY <2>2, BusyWith
    <3>3. Busy(i)' = Busy(i)
      BY <1>3, <3>2, Constants
    <3>4. \A t \in Busy(i) : thr'[t].pc = thr[t].pc
      BY <1>0, <3>2, BusyWith
    <3> QED BY <3>1, <3>3, <3>4, StillSound
  <2> QED BY <2>1, <2>2
<1>5. ASSUME NEW i \in Shared, i \notin torn' PROVE SoundDaemon(i)'
  <2>1. i # k /\ SoundDaemon(i) /\ k \notin Shared
    BY <1>5, Constants DEF Sure
  <2>2. u \notin Busy(i)
    BY <2>1, BusyWith
  <2>3. Busy(i)' = Busy(i)
    BY <1>3, <2>2, Constants
  <2>4. \A t \in Busy(i) : thr'[t].pc = thr[t].pc /\ thr'[t].same = thr[t].same
    BY <1>0, <2>2, BusyWith
  <2> QED BY <2>1, <2>3, <2>4, StillSoundDaemon
<1> QED BY <1>1, <1>2, <1>4, <1>5 DEF Sure, Single, Shared

\* A step of a thread at the mieru daemon.
LEMMA DaemonMoves ==
  ASSUME Typed, Sure, NEW u \in Goroutines, NEW j, Moves(u, j), thr[u].i \in Shared,
         \A i \in Single : Still(i) /\ acked'[i] = acked[i],
         \A i \in torn \ torn' : i \in Shared /\ thr[u].clean /\ j.pc = "idle",
         j.pc # "idle" /\ j.clean => DaemonPhase(u)',
         \A i \in Shared : i \notin torn' => SoundDaemon(i)'
  PROVE  Sure'
<1> USE DEF Typed
<1>0. thr'[u] = j /\ \A t \in Goroutines \ {u} : thr'[t] = thr[t]
  BY MovesBusy
<1>1. ASSUME NEW t \in Goroutines PROVE Alone(t)'
  <2>1. \A i \in torn \ torn' : i \in With(thr[u].i) /\ thr[u].clean /\ j.pc = "idle"
    BY BusyWith
  <2> QED BY <2>1, MovesAlone
<1>2. ASSUME NEW t \in Goroutines PROVE Phase(t)'
  <2> SUFFICES ASSUME thr'[t].pc # "idle", thr'[t].clean
               PROVE  /\ thr'[t].i \in Single => OwnPhase(t)'
                      /\ thr'[t].i \in Shared => DaemonPhase(t)'
    BY DEF Phase, At, Single, Shared
  <2>1. CASE t = u
    <3>1. j.pc # "idle" /\ j.clean /\ thr'[t].i \in Shared
      BY <1>0, <2>1 DEF Moves
    <3> QED BY <2>1, <3>1, Constants
  <2>2. CASE t # u
    <3>1. thr'[t] = thr[t] /\ thr[t].pc # "idle" /\ thr[t].clean /\ thr[u].pc # "idle"
      BY <1>0, <2>2 DEF Moves
    <3>2. Phase(t)
      BY DEF Sure
    <3>3. ASSUME thr[t].i \in Single PROVE OwnPhase(t)'
      <4>2. Still(thr[t].i) /\ OwnPhase(t)
        BY <3>1, <3>2, <3>3 DEF Phase, At
      <4> QED BY <3>1, <4>2, StillPhase
    <3>4. thr[t].i \notin Shared
      BY <2>2, <3>1, OthersApart
    <3> QED BY <3>1, <3>3, <3>4
  <2> QED BY <2>1, <2>2
<1>4. ASSUME NEW i \in Single, i \notin torn' PROVE Sound(i)'
  <2>1. Still(i) /\ acked'[i] = acked[i] /\ Sound(i)
    BY <1>4, Constants DEF Sure
  <2>2. u \notin Busy(i) /\ i \in Insts
    BY BusyWith, Constants
  <2>3. Busy(i)' = Busy(i)
    BY <2>2, OthersBusy
  <2>4. \A t \in Busy(i) : thr'[t].pc = thr[t].pc
    BY <1>0, <2>2, BusyWith
  <2> QED BY <2>1, <2>3, <2>4, StillSound
<1> QED BY <1>1, <1>2, <1>4 DEF Sure, Single, Shared

\* A request, or a restart by the watchdog, begins: alone or tearing.
Begun(t, job, k) ==
  /\ thr'[t] = [job EXCEPT !.clean = (Busy(k) = {})]
  /\ \A x \in Goroutines \ {t} :
       /\ thr'[x].pc = thr[x].pc /\ thr'[x].i = thr[x].i /\ thr'[x].c = thr[x].c /\ thr'[x].pid = thr[x].pid
       /\ thr'[x].u = thr[x].u /\ thr'[x].same = thr[x].same
       /\ thr'[x].clean <=> thr[x].clean /\ x \notin Busy(k)
  /\ torn' = IF Busy(k) = {} THEN torn ELSE torn \union With(k)
  /\ \A i \in Insts : Busy(i)' = IF k \in With(i) THEN Busy(i) \union {t} ELSE Busy(i)

LEMMA BeginFacts ==
  ASSUME ThreadsTyped, NEW t \in Goroutines, NEW job, NEW k \in Insts, BeginJob(t, job), thr[t].pc = "idle",
         job \in Job, job.i = k, job.pc # "idle"
  PROVE  Begun(t, job, k)
<1>1. PICK B : B = Busy(k)
  OBVIOUS
<1>2. thr' = [x \in Goroutines |-> IF x = t THEN [job EXCEPT !.clean = (B = {})]
                                ELSE [thr[x] EXCEPT !.clean = @ /\ x \notin B]]
  BY <1>1 DEF BeginJob
<1>3. torn' = IF Busy(k) = {} THEN torn ELSE torn \union With(k)
  BY DEF BeginJob
<1>4. ASSUME NEW x \in Goroutines \ {t}
      PROVE  /\ thr'[x].pc = thr[x].pc /\ thr'[x].i = thr[x].i /\ thr'[x].c = thr[x].c /\ thr'[x].pid = thr[x].pid
             /\ thr'[x].u = thr[x].u /\ thr'[x].same = thr[x].same
             /\ thr'[x].clean <=> thr[x].clean /\ x \notin B
  <2>1. thr[x] \in Job
    BY DEF ThreadsTyped, Fits
  <2>2. thr'[x] = [thr[x] EXCEPT !.clean = @ /\ x \notin B]
    BY <1>2
  <2> QED BY <2>1, <2>2 DEF Job
<1>5. thr'[t] = [job EXCEPT !.clean = (B = {})]
  BY <1>2
<1>6. thr'[t].pc # "idle" /\ thr'[t].i = k
  BY <1>5 DEF Job
<1>7. ASSUME NEW i \in Insts PROVE Busy(i)' = IF k \in With(i) THEN Busy(i) \union {t} ELSE Busy(i)
  <2>1. PICK S : S = With(i)
    OBVIOUS
  <2>2. Busy(i) = {x \in Goroutines : thr[x].pc # "idle" /\ thr[x].i \in S}
    BY <2>1 DEF Busy, At
  <2>3. Busy(i)' = {x \in Goroutines : thr'[x].pc # "idle" /\ thr'[x].i \in S}
    BY <2>1 DEF Busy, At, With
  <2> QED BY <1>4, <1>6, <2>1, <2>2, <2>3
<1> QED BY <1>1, <1>3, <1>4, <1>5, <1>7 DEF Begun

LEMMA BeginSure ==
  ASSUME Typed, Sure, NEW t \in Goroutines, NEW job, NEW k \in Insts, BeginJob(t, job), thr[t].pc = "idle",
         job \in Job, job.i = k, job.pc # "idle",
         \A i \in Single : Still(i) /\ (i # k => acked'[i] = acked[i]),
         \A i \in Shared : file'[i] = file[i], UNCHANGED <<mita, desired>>,
         k \in Single /\ Busy(k) = {} => OwnPhase(t)',
         k \in Single \ torn /\ Busy(k) = {} => Sound(k)',
         k \in Shared => job.pc \in {"fragment", "unfile"}
  PROVE  Sure'
<1> USE DEF Typed
<1>0. Begun(t, job, k)
  BY BeginFacts
<1>1. PICK j : j = [job EXCEPT !.clean = (Busy(k) = {})]
  OBVIOUS
<1>2. thr'[t] = j /\ j.pc = job.pc /\ j.i = k /\ (j.clean <=> Busy(k) = {})
  BY <1>0, <1>1 DEF Job, Begun
<1>3. torn \subseteq torn' /\ (Busy(k) # {} => With(k) \subseteq torn') /\ k \in With(k)
  BY <1>0 DEF With, Begun
<1>4. ASSUME NEW x \in Goroutines, x # t, thr'[x].pc # "idle"
      PROVE  /\ thr[x].pc # "idle" /\ thr'[x].i = thr[x].i /\ thr[x].i \in Insts
             /\ thr'[x].clean => thr[x].clean /\ k \notin With(thr[x].i) /\ Busy(thr[x].i)' = Busy(thr[x].i)
             /\ thr[x].clean => thr'[x].clean \/ With(thr[x].i) \subseteq torn'
  <2>1. thr[x].pc # "idle" /\ thr'[x].i = thr[x].i /\ (thr'[x].clean <=> thr[x].clean /\ x \notin Busy(k))
    BY <1>0, <1>4 DEF Begun
  <2>2. thr[x].i \in Insts
    BY <2>1, AtInstance
  <2>3. k \in With(thr[x].i) => x \in Busy(k)
    BY <2>1, <2>2, Constants DEF With, Busy, At
  <2>4. x \in Busy(k) => With(thr[x].i) \subseteq torn'
    BY <1>3 DEF Busy, With
  <2>5. PICK i \in Insts : i = thr[x].i
    BY <2>2
  <2>6. k \notin With(i) => Busy(i)' = Busy(i)
    BY <1>0 DEF Begun
  <2>7. Busy(thr[x].i)' = Busy(i)'
    BY <2>1, <2>5 DEF Busy, With, At
  <2> QED BY <2>1, <2>2, <2>3, <2>4, <2>5, <2>6, <2>7
<1>5. ASSUME NEW x \in Goroutines PROVE Alone(x)'
  <2> SUFFICES ASSUME thr'[x].pc # "idle"
               PROVE  /\ thr'[x].clean => Busy(thr[x].i)' = {x}
                      /\ ~thr'[x].clean => With(thr'[x].i) \subseteq torn'
    BY DEF Alone, At, With
  <2>1. CASE x = t
    <3>1. Busy(k) = {} => Busy(k)' = {t}
      BY <1>0, <1>3 DEF Begun
    <3>2. Busy(thr[x].i)' = Busy(k)'
      BY <1>2, <2>1 DEF Busy, With, At
    <3> QED BY <1>2, <1>3, <2>1, <3>1, <3>2
  <2>2. CASE x # t
    <3>1. Alone(x) /\ ~At(x, "idle")
      BY <1>4, <2>2 DEF Sure, At
    <3> QED BY <1>3, <1>4, <2>2, <3>1 DEF Alone
  <2> QED BY <2>1, <2>2
<1>6. ASSUME NEW x \in Goroutines PROVE Phase(x)'
  <2> SUFFICES ASSUME thr'[x].pc # "idle", thr'[x].clean
               PROVE  /\ thr'[x].i \in Single => OwnPhase(x)'
                      /\ thr'[x].i \in Shared => DaemonPhase(x)'
    BY DEF Phase, At, Single, Shared
  <2>1. CASE x = t
    <3>1. k \in Shared => DaemonPhase(t)'
      BY <1>2 DEF DaemonPhase
    <3> QED BY <1>2, <2>1, <3>1
  <2>2. CASE x # t
    <3>1. /\ thr'[x].pc = thr[x].pc /\ thr'[x].i = thr[x].i /\ thr'[x].c = thr[x].c
          /\ thr'[x].pid = thr[x].pid /\ thr'[x].u = thr[x].u
      BY <1>0, <2>2 DEF Begun
    <3>2. thr[x].pc # "idle" /\ thr[x].clean
      BY <1>4, <2>2
    <3>3. Phase(x)
      BY DEF Sure
    <3>4. ASSUME thr[x].i \in Single PROVE OwnPhase(x)'
      <4>1. OwnPhase(x) /\ Still(thr[x].i)
        BY <3>2, <3>3, <3>4 DEF Phase, At
      <4> QED BY <3>1, <4>1, StillPhase
    <3>5. ASSUME thr[x].i \in Shared PROVE DaemonPhase(x)'
      <4>1. DaemonPhase(x)
        BY <3>2, <3>3, <3>5 DEF Phase, At
      <4> QED BY <3>1, <4>1, StillDaemon
    <3> QED BY <3>1, <3>4, <3>5
  <2> QED BY <2>1, <2>2
<1>7. ASSUME NEW i \in Single, i \notin torn' PROVE Sound(i)'
  <2>1. CASE i = k
    BY <1>3, <1>7, <2>1
  <2>2. CASE i # k
    <3>1. Still(i) /\ acked'[i] = acked[i] /\ Sound(i) /\ i \in Insts
      BY <1>3, <1>7, <2>2, Constants DEF Sure
    <3>2. Busy(i)' = Busy(i)
      BY <1>0, <2>2, <3>1, BusyWith DEF Begun
    <3>3. \A x \in Busy(i) : thr'[x].pc = thr[x].pc
      BY <1>0, BusyWith DEF Begun
    <3> QED BY <3>1, <3>2, <3>3, StillSound
  <2> QED BY <2>1, <2>2
<1>8. ASSUME NEW i \in Shared, i \notin torn' PROVE SoundDaemon(i)'
  <2>1. SoundDaemon(i) /\ i \in Insts
    BY <1>3, <1>8, Constants DEF Sure
  <2>2. CASE k \in Single
    <3>1. Busy(i)' = Busy(i)
      BY <1>0, <2>1, <2>2, BusyWith, Constants DEF Begun
    <3>2. \A x \in Busy(i) : thr'[x].pc = thr[x].pc /\ thr'[x].same = thr[x].same
      BY <1>0, BusyWith DEF Begun
    <3> QED BY <2>1, <3>1, <3>2, StillSoundDaemon
  <2>3. CASE k \in Shared
    <3>1. Busy(k) = {} /\ Busy(i) = Busy(k)
      <4>1. With(k) = Shared /\ With(i) = Shared
        BY <2>3, BusyWith
      <4>2. Busy(i) = Busy(k)
        BY <4>1 DEF Busy
      <4> QED BY <1>3, <1>8, <4>1, <4>2
    <3>2. Busy(i)' = {t}
      BY <1>0, <2>1, <2>3, <3>1, BusyWith DEF Begun
    <3>3. Served'
      BY <2>1, <3>1, StillDaemon DEF SoundDaemon
    <3> QED BY <3>2, <3>3 DEF SoundDaemon
  <2> QED BY <2>1, <2>2, <2>3, Constants
<1> QED BY <1>5, <1>6, <1>7, <1>8 DEF Sure, Single, Shared

\* A step of no thread: at most processes end.
LEMMA QuietSure ==
  ASSUME Typed, Sure, UNCHANGED <<thr, torn, acked, mita, desired, file>>,
         \A i \in Single : Still(i)
  PROVE  Sure'
<1> USE DEF Typed
<1>1. ASSUME NEW t \in Goroutines PROVE Alone(t)'
  BY DEF Sure, Alone, At, Busy, With
<1>2. ASSUME NEW t \in Goroutines PROVE Phase(t)'
  <2> SUFFICES ASSUME thr'[t].pc # "idle", thr'[t].clean
               PROVE  /\ thr'[t].i \in Single => OwnPhase(t)'
                      /\ thr'[t].i \in Shared => DaemonPhase(t)'
    BY DEF Phase, At, Single, Shared
  <2>1. thr' = thr /\ Phase(t)
    BY DEF Sure
  <2>2. ASSUME thr[t].i \in Single PROVE OwnPhase(t)'
    <3>1. OwnPhase(t) /\ Still(thr[t].i)
      BY <2>1, <2>2 DEF Phase, At
    <3> QED BY <2>1, <3>1, StillPhase
  <2>3. ASSUME thr[t].i \in Shared PROVE DaemonPhase(t)'
    <3>1. DaemonPhase(t)
      BY <2>1, <2>3 DEF Phase, At
    <3> QED BY <2>1, <3>1, StillDaemon
  <2> QED BY <2>1, <2>2, <2>3
<1>3. ASSUME NEW i PROVE Busy(i)' = Busy(i)
  BY DEF Busy, With, At
<1>4. ASSUME NEW i \in Single, i \notin torn' PROVE Sound(i)'
  <2>1. Sound(i) /\ Still(i)
    BY <1>4 DEF Sure
  <2> QED BY <1>3, <2>1, StillSound
<1>5. ASSUME NEW i \in Shared, i \notin torn' PROVE SoundDaemon(i)'
  <2>1. SoundDaemon(i)
    BY <1>5 DEF Sure
  <2> QED BY <1>3, <2>1, StillSoundDaemon
<1> QED BY <1>1, <1>2, <1>4, <1>5 DEF Sure, Single, Shared

(***************************************************************************)
(* The steps at an instance of its own.                                    *)
(***************************************************************************)
SoundAt(t, i) ==
  /\ Orphans(i) = {}
  /\ thr[t].pc = "compare" => AsFiled(i) /\ Tracked(i)
  /\ thr[t].pc \in {"stop", "stopkill"} => AsFiled(i)
  /\ t = Watch => Acks(i)
Rests(i) == Orphans(i) = {} /\ AsFiled(i) /\ Tracked(i) /\ Acks(i)

\* The request at an instance: what it knows if it is alone there.
Knows(t, k) == thr[t].clean /\ OwnPhase(t) /\ (k \notin torn => SoundAt(t, k))

LEMMA OwnStep ==
  ASSUME Typed, Sure, NEW t \in Goroutines, NEW j, NEW k \in Single, Moves(t, j), thr[t].i = k,
         \A i \in Single \ {k} : Still(i) /\ acked'[i] = acked[i],
         \A i \in Shared : file'[i] = file[i], UNCHANGED <<mita, desired>>,
         \A i \in torn \ torn' : i = k /\ thr[t].clean /\ j.pc = "idle",
         Knows(t, k) /\ j.pc # "idle" => OwnPhase(t)',
         Knows(t, k) /\ j.pc # "idle" /\ k \notin torn' => SoundAt(t, k)',
         Knows(t, k) /\ j.pc = "idle" /\ k \notin torn' => Rests(k)'
  PROVE  Sure'
<1> USE DEF Typed
<1>1. thr[t].pc # "idle" /\ k \in Insts
  BY Constants DEF Moves
<1>2. Alone(t) /\ Phase(t) /\ ~At(t, "idle")
  BY <1>1 DEF Sure, At
<1>3. thr[t].clean => OwnPhase(t) /\ Busy(k) = {t}
  BY <1>2 DEF Phase, Alone
<1>4. k \notin torn => thr[t].clean
  BY <1>2, BusyWith DEF Alone
<1>5. k \notin torn => SoundAt(t, k)
  <2>1. ASSUME k \notin torn PROVE SoundAt(t, k)
    <3>1. Sound(k) /\ Busy(k) = {t}
      BY <1>3, <1>4, <2>1 DEF Sure
    <3> QED BY <3>1 DEF Sound, SoundAt
  <2> QED BY <2>1
<1>6. thr[t].clean => Knows(t, k)
  BY <1>3, <1>5 DEF Knows
<1>7. j.pc # "idle" /\ j.clean => OwnPhase(t)'
  BY <1>6 DEF Moves
<1>8. k \notin torn' => Sound(k)'
  <2> SUFFICES ASSUME k \notin torn' PROVE Sound(k)'
    OBVIOUS
  <2>1. thr[t].clean
    BY <1>4
  <2>2. Busy(k) = {t} /\ Knows(t, k) /\ thr'[t] = j
    BY <1>3, <1>6, <2>1, MovesBusy
  <2>3. CASE j.pc = "idle"
    <3>1. Busy(k)' = {}
      BY <1>1, <2>2, <2>3, MovesBusy
    <3>2. Rests(k)'
      BY <2>2, <2>3
    <3> QED BY <3>1, <3>2 DEF Rests, Sound
  <2>4. CASE j.pc # "idle"
    <3>1. Busy(k)' = {t}
      BY <1>1, <2>2, <2>4, MovesBusy
    <3>2. SoundAt(t, k)'
      BY <2>2, <2>4
    <3> QED BY <3>1, <3>2 DEF SoundAt, Sound
  <2> QED BY <2>3, <2>4
<1> QED BY <1>7, <1>8, OwnMoves

\* What ends a process disturbs nothing that is known of an instance.
LEMMA KillStill ==
  ASSUME Typed, NEW S, Kill(S), UNCHANGED <<pidfile, file, runspec>>
  PROVE  \A i \in Single : Still(i)
<1> USE DEF Typed
<1> SUFFICES ASSUME NEW i \in Single PROVE Still(i)
  OBVIOUS
<1>1. pidfile[i] \in Pids \union {0} /\ i \in Insts
  BY Constants DEF ProcsTyped
<1>2. Up(i)' => Up(i) /\ procs'[pidfile[i]] = procs[pidfile[i]]
  <2>1. ASSUME Alive(pidfile[i])' PROVE Alive(pidfile[i]) /\ procs'[pidfile[i]] = procs[pidfile[i]]
    <3>1. pidfile[i] \in Pids
      BY <1>1, <2>1 DEF Alive
    <3> QED BY <2>1, <3>1, Killed
  <2> QED BY <2>1 DEF Up
<1>3. Orphans(i)' \subseteq Orphans(i)
  BY Killed DEF Orphans
<1> QED BY <1>2, <1>3 DEF Still

LEMMA SameStill ==
  ASSUME UNCHANGED procs, NEW i, file'[i] = file[i], pidfile'[i] = pidfile[i], i \in runspec => i \in runspec'
  PROVE  Still(i)
<1>1. Up(i)' => Up(i) /\ procs'[pidfile[i]] = procs[pidfile[i]]
  BY DEF Up, Alive
<1>2. Orphans(i)' \subseteq Orphans(i)
  BY DEF Orphans, Alive
<1> QED BY <1>1, <1>2 DEF Still

LEMMA KilledDown ==
  ASSUME Typed, NEW k \in Single, UNCHANGED pidfile, Kill({pidfile[k]} \ {0})
  PROVE  ~Up(k)'
<1>1. pidfile[k] \in Pids \union {0}
  BY Constants DEF Typed, ProcsTyped
<1>2. ~Alive(pidfile[k])'
  <2>1. CASE pidfile[k] = 0
    BY <2>1 DEF Alive
  <2>2. CASE pidfile[k] # 0
    BY <1>1, <2>2, Killed DEF Typed
  <2> QED BY <2>1, <2>2
<1> QED BY <1>2 DEF Up

LEMMA KillOldSure ==
  ASSUME Typed, Sure, NEW t \in Goroutines, KillOld(t)
  PROVE  Sure'
<1> USE DEF Typed
<1>1. PICK k \in Single : k = thr[t].i
  BY AtFits DEF KillOld, SinglePcs, OwnPcs
<1>2. PICK j : j = [thr[t] EXCEPT !.pc = IF pidfile[k] = 0 THEN "start" ELSE "unpid"]
  OBVIOUS
<1>3. thr[t].pc = "kill" /\ thr[t] \in Job
  BY AtFits DEF KillOld
<1>4. /\ thr' = [thr EXCEPT ![t] = j] /\ j.pc \in {"start", "unpid"} /\ j.i = k /\ j.c = thr[t].c
      /\ j.clean = thr[t].clean
  BY <1>1, <1>2, <1>3 DEF KillOld, Goto, Job
<1>5. Moves(t, j) /\ thr'[t] = j
  BY <1>1, <1>3, <1>4 DEF Moves, ThreadsTyped
<1>6. \A i \in Single : Still(i)
  BY KillStill DEF KillOld
<1>7. ~Up(k)'
  BY <1>1, KilledDown DEF KillOld
<1>8. Knows(t, k) => OwnPhase(t)'
  <2> SUFFICES ASSUME Knows(t, k) PROVE OwnPhase(t)'
    OBVIOUS
  <2>1. t # Watch => file'[k] = thr'[t].c
    BY <1>1, <1>3, <1>4, <1>5 DEF Knows, OwnPhase, OwnPcs, KillOld
  <2>2. Up(thr[t].i)' = Up(k)'
    BY <1>4, <1>5 DEF Up, Alive
  <2> QED BY <1>4, <1>5, <1>7, <2>1, <2>2 DEF OwnPhase
<1>9. Knows(t, k) /\ k \notin torn' => SoundAt(t, k)'
  <2> SUFFICES ASSUME Knows(t, k), k \notin torn' PROVE SoundAt(t, k)'
    OBVIOUS
  <2>1. SoundAt(t, k)
    BY DEF Knows, KillOld
  <2>2. Orphans(k)' = {} /\ (t = Watch => Acks(k)')
    BY <1>6, <2>1, StillFacts DEF SoundAt, KillOld
  <2> QED BY <1>4, <1>5, <2>2 DEF SoundAt
<1> QED BY <1>1, <1>4, <1>5, <1>6, <1>8, <1>9, OwnStep DEF KillOld

\* The phase a step leads to, in terms of what it writes.
LEMMA PhaseThen ==
  ASSUME NEW t, NEW k, NEW j, thr'[t] = j, j.i = k,
         j.pc \in OwnPcs \union {"test", "listen"} /\ t # Watch => file'[k] = j.c,
         j.pc \in {"unpid", "start", "stopped", "unfile"} \/ (j.pc = "kill" /\ t = Watch) => ~Up(k)',
         j.pc = "settle" => pidfile'[k] = j.pid,
         j.pc \in {"settle", "record", "listen"} => AsFiled(k)',
         j.pc = "listen" => k \in runspec'
  PROVE  OwnPhase(t)'
<1>1. Up(thr[t].i)' = Up(k)' /\ AsFiled(thr[t].i)' = AsFiled(k)'
  BY DEF Up, Alive, AsFiled
<1> QED BY <1>1 DEF OwnPhase

LEMMA RemovePidSure ==
  ASSUME Typed, Sure, NEW t \in Goroutines, RemovePid(t)
  PROVE  Sure'
<1> USE DEF Typed
<1>1. PICK k \in Single : k = thr[t].i
  BY AtFits DEF RemovePid, SinglePcs, OwnPcs
<1>2. PICK j : j = [thr[t] EXCEPT !.pc = "start"]
  OBVIOUS
<1>3. thr[t].pc = "unpid" /\ thr[t] \in Job /\ k \in Insts
  BY AtFits, Constants DEF RemovePid
<1>4. thr' = [thr EXCEPT ![t] = j] /\ j.pc = "start" /\ j.i = k /\ j.c = thr[t].c /\ j.clean = thr[t].clean
  BY <1>1, <1>2, <1>3 DEF RemovePid, Goto, Job
<1>5. Moves(t, j) /\ thr'[t] = j
  BY <1>1, <1>3, <1>4 DEF Moves, ThreadsTyped
<1>6. pidfile' = [pidfile EXCEPT ![k] = 0] /\ UNCHANGED <<file, runspec, procs, acked, torn, mita, desired>>
  BY <1>1 DEF RemovePid
<1>7. \A i \in Single \ {k} : Still(i)
  <2>1. \A i \in Single \ {k} : pidfile'[i] = pidfile[i]
    BY <1>3, <1>6, Constants DEF ProcsTyped
  <2> QED BY <1>6, <2>1, SameStill
<1>8. pidfile'[k] = 0 /\ ~Up(k)'
  BY <1>3, <1>6 DEF ProcsTyped, Up, Alive
<1>9. Knows(t, k) => OwnPhase(t)'
  <2>1. Knows(t, k) /\ t # Watch => file'[k] = j.c
    BY <1>1, <1>3, <1>4, <1>6 DEF Knows, OwnPhase, OwnPcs
  <2> QED BY <1>4, <1>5, <1>8, <2>1, PhaseThen
<1>10. Knows(t, k) /\ k \notin torn' => SoundAt(t, k)'
  <2> SUFFICES ASSUME Knows(t, k), k \notin torn' PROVE SoundAt(t, k)'
    OBVIOUS
  <2>1. SoundAt(t, k) /\ ~Up(k)
    BY <1>1, <1>3, <1>6 DEF Knows, OwnPhase
  <2>2. Orphans(k)' = {}
    <3>1. \A p \in Pids : Alive(p) /\ procs[p].i = k => p = pidfile[k]
      BY <2>1 DEF SoundAt, Orphans
    <3>2. \A p \in Pids : ~(Alive(p) /\ procs[p].i = k)
      BY <2>1, <3>1 DEF Up
    <3> QED BY <1>6, <3>2 DEF Orphans, Alive
  <2>3. t = Watch => Acks(k)'
    BY <1>6, <2>1 DEF SoundAt, Acks
  <2> QED BY <1>4, <1>5, <2>2, <2>3 DEF SoundAt
<1> QED BY <1>1, <1>4, <1>5, <1>6, <1>7, <1>9, <1>10, OwnStep

LEMMA restartDetachedTrackedSure ==
  ASSUME Typed, Sure, NEW t \in Goroutines, restartDetachedTracked(t)
  PROVE  Sure'
<1> USE DEF Typed
<1>1. PICK k \in Single : k = thr[t].i
  BY AtFits DEF restartDetachedTracked, SinglePcs, OwnPcs
<1>2. PICK p : p = FreePid
  OBVIOUS
<1>3. PICK j : j = [thr[t] EXCEPT !.pc = "settle", !.pid = p]
  OBVIOUS
<1>4. thr[t].pc = "start" /\ thr[t] \in Job /\ k \in Insts
  BY AtFits, Constants DEF restartDetachedTracked
<1>5. p \in Pids /\ ~Alive(p) /\ p \notin Range(pidfile) /\ p # 0
  BY <1>2, Started, Constants DEF restartDetachedTracked
<1>6. /\ thr' = [thr EXCEPT ![t] = j] /\ j.pc = "settle" /\ j.i = k /\ j.c = thr[t].c /\ j.pid = p
      /\ j.clean = thr[t].clean
  BY <1>1, <1>2, <1>3, <1>4 DEF restartDetachedTracked, Job
<1>7. Moves(t, j) /\ thr'[t] = j
  BY <1>1, <1>4, <1>6 DEF Moves, ThreadsTyped
<1>8. /\ pidfile' = [pidfile EXCEPT ![k] = p]
      /\ UNCHANGED <<file, runspec, acked, torn, mita, desired>>
      /\ \/ procs' = procs
         \/ procs' = [procs EXCEPT ![p] = [i |-> k, c |-> file[k]]]
  BY <1>1, <1>2 DEF restartDetachedTracked
<1>9. /\ \A q \in Pids \ {p} : procs'[q] = procs[q]
      /\ Alive(p)' => procs'[p].i = k /\ procs'[p].c = file[k]
  BY <1>5, <1>8 DEF ProcsTyped, Alive
<1>10. \A q \in Pids \ {p} : Alive(q)' <=> Alive(q)
  BY <1>9 DEF Alive
<1>11. pidfile'[k] = p
  BY <1>4, <1>8 DEF ProcsTyped
<1>12. ASSUME NEW i \in Single \ {k} PROVE Still(i)
  <2>1. pidfile'[i] = pidfile[i] /\ pidfile[i] # p /\ pidfile[i] \in Pids \union {0}
    BY <1>4, <1>8, <1>5, Constants DEF ProcsTyped, Range
  <2>2. Up(i)' => Up(i) /\ procs'[pidfile[i]] = procs[pidfile[i]]
    <3>1. ASSUME Alive(pidfile[i])' PROVE Alive(pidfile[i]) /\ procs'[pidfile[i]] = procs[pidfile[i]]
      <4>1. pidfile[i] \in Pids \ {p}
        BY <2>1, <3>1 DEF Alive
      <4>2. procs'[pidfile[i]] = procs[pidfile[i]]
        BY <1>9, <4>1
      <4> QED BY <2>1, <3>1, <4>2 DEF Alive
    <3> QED BY <3>1 DEF Up
  <2>3. ASSUME NEW q \in Pids, Alive(q)', procs'[q].i = i PROVE Alive(q) /\ procs[q].i = i
    <3>1. q # p
      BY <1>9, <2>3
    <3> QED BY <1>9, <1>10, <2>3, <3>1
  <2>4. Orphans(i)' \subseteq Orphans(i)
    BY <2>1, <2>3 DEF Orphans
  <2> QED BY <1>8, <2>1, <2>2, <2>4 DEF Still
<1>13. AsFiled(k)'
  BY <1>8, <1>9, <1>11 DEF AsFiled, Up
<1>14. Knows(t, k) => OwnPhase(t)'
  <2>1. Knows(t, k) /\ t # Watch => file'[k] = j.c
    BY <1>1, <1>4, <1>6, <1>8 DEF Knows, OwnPhase, OwnPcs
  <2> QED BY <1>6, <1>7, <1>11, <1>13, <2>1, PhaseThen
<1>15. Knows(t, k) /\ k \notin torn' => SoundAt(t, k)'
  <2> SUFFICES ASSUME Knows(t, k), k \notin torn' PROVE SoundAt(t, k)'
    OBVIOUS
  <2>1. SoundAt(t, k) /\ ~Up(k)
    BY <1>1, <1>4, <1>8 DEF Knows, OwnPhase
  <2>2. Orphans(k)' = {}
    <3>1. \A q \in Pids : Alive(q) /\ procs[q].i = k => q = pidfile[k]
      BY <2>1 DEF SoundAt, Orphans
    <3>2. \A q \in Pids : ~(Alive(q) /\ procs[q].i = k)
      BY <2>1, <3>1 DEF Up
    <3>3. \A q \in Pids \ {p} : ~(Alive(q)' /\ procs'[q].i = k)
      BY <1>9, <1>10, <3>2
    <3> QED BY <1>11, <3>3 DEF Orphans
  <2>3. t = Watch => Acks(k)'
    BY <1>8, <2>1 DEF SoundAt, Acks
  <2> QED BY <1>6, <1>7, <2>2, <2>3 DEF SoundAt
<1> QED BY <1>1, <1>6, <1>7, <1>8, <1>12, <1>14, <1>15, OwnStep

\* The steps that leave every process and pid file as they are.
LEMMA SettledSure ==
  ASSUME Typed, Sure, NEW t \in Goroutines, Settled(t)
  PROVE  Sure'
<1> USE DEF Typed
<1>1. PICK k \in Single : k = thr[t].i
  BY AtFits DEF Settled, SinglePcs, OwnPcs
<1>2. PICK j : j = [thr[t] EXCEPT !.pc = "record", !.pid = 0]
  OBVIOUS
<1>3. thr[t].pc = "settle" /\ thr[t] \in Job
  BY AtFits DEF Settled
<1>4. thr' = [thr EXCEPT ![t] = j] /\ j.pc = "record" /\ j.i = k /\ j.c = thr[t].c /\ j.clean = thr[t].clean
  BY <1>1, <1>2, <1>3 DEF Settled, Job
<1>5. Moves(t, j) /\ thr'[t] = j
  BY <1>1, <1>3, <1>4 DEF Moves, ThreadsTyped
<1>6. UNCHANGED <<file, pidfile, runspec, procs, acked, torn, mita, desired>>
  BY DEF Settled
<1>7. \A i \in Single : Still(i)
  BY <1>6, SameStill
<1>8. Knows(t, k) => OwnPhase(t)'
  <2> SUFFICES ASSUME Knows(t, k) PROVE OwnPhase(t)'
    OBVIOUS
  <2>1. t # Watch => file'[k] = j.c
    BY <1>1, <1>3, <1>4, <1>6 DEF Knows, OwnPhase, OwnPcs
  <2>2. AsFiled(k)
    BY <1>1, <1>3 DEF Knows, OwnPhase
  <2>3. AsFiled(k)'
    BY <1>7, <2>2, StillFacts
  <2> QED BY <1>4, <1>5, <2>1, <2>3, PhaseThen
<1>9. Knows(t, k) /\ k \notin torn' => SoundAt(t, k)'
  <2> SUFFICES ASSUME Knows(t, k), k \notin torn' PROVE SoundAt(t, k)'
    OBVIOUS
  <2>1. SoundAt(t, k)
    BY <1>6 DEF Knows
  <2>2. Orphans(k)' = {} /\ (t = Watch => Acks(k)')
    BY <1>6, <1>7, <2>1, StillFacts DEF SoundAt
  <2> QED BY <1>4, <1>5, <2>2 DEF SoundAt
<1> QED BY <1>1, <1>4, <1>5, <1>6, <1>7, <1>8, <1>9, OwnStep

\* A thread that ends, and what an answer changes.
LEMMA EndMoves ==
  ASSUME NEW t \in Goroutines, thr[t].pc # "idle", Ends(t)
  PROVE  Moves(t, NoJob) /\ NoJob.pc = "idle"
BY DEF Moves, Ends, NoJob

LEMMA AckedOthers ==
  ASSUME ToldTyped, NEW k \in Insts, NEW c, Acked(k, c)
  PROVE  acked'[k] = c /\ \A i \in Insts \ {k} : acked'[i] = acked[i]
BY DEF ToldTyped, Acked

LEMMA DeployUnchangedSure ==
  ASSUME Typed, Sure, NEW t \in Goroutines, DeployUnchanged(t)
  PROVE  Sure'
<1> USE DEF Typed
<1>1. PICK k \in Single : k = thr[t].i
  BY AtFits DEF DeployUnchanged, SinglePcs, OwnPcs
<1>2. thr[t].pc = "compare" /\ k \in Insts
  BY AtFits, Constants DEF DeployUnchanged
<1>3. Moves(t, NoJob) /\ NoJob.pc = "idle"
  BY <1>2, EndMoves DEF DeployUnchanged
<1>4. /\ UNCHANGED <<file, pidfile, runspec, procs, torn, mita, desired>>
      /\ file[k] = thr[t].c /\ Up(k) /\ Acked(k, thr[t].c)
  BY <1>1 DEF DeployUnchanged, sameCoreConfigFile, Up
<1>5. acked'[k] = thr[t].c /\ \A i \in Single \ {k} : acked'[i] = acked[i]
  BY <1>2, <1>4, AckedOthers, Constants
<1>6. \A i \in Single : Still(i)
  BY <1>4, SameStill
<1>7. Knows(t, k) /\ k \notin torn' => Rests(k)'
  <2> SUFFICES ASSUME Knows(t, k), k \notin torn' PROVE Rests(k)'
    OBVIOUS
  <2>1. SoundAt(t, k)
    BY <1>4 DEF Knows
  <2>2. Orphans(k) = {} /\ AsFiled(k) /\ Tracked(k)
    BY <1>2, <2>1 DEF SoundAt
  <2>3. Orphans(k)' = {} /\ AsFiled(k)' /\ Tracked(k)'
    BY <1>6, <2>2, StillFacts
  <2>4. Acks(k)'
    BY <1>4, <1>5, <2>2 DEF Acks, Tracked
  <2> QED BY <2>3, <2>4 DEF Rests
<1> QED BY <1>1, <1>3, <1>4, <1>5, <1>6, <1>7, OwnStep

LEMMA DeployWriteSure ==
  ASSUME Typed, Sure, NEW t \in Goroutines, DeployWrite(t)
  PROVE  Sure'
<1> USE DEF Typed
<1>1. PICK k \in Single : k = thr[t].i
  BY AtFits DEF DeployWrite, SinglePcs, OwnPcs
<1>2. PICK j : j = [thr[t] EXCEPT !.pc = "test"]
  OBVIOUS
<1>3. thr[t].pc = "compare" /\ thr[t] \in Job /\ k \in Insts /\ t # Watch
  BY AtFits, Constants DEF DeployWrite, SinglePcs, OwnPcs
<1>4. thr' = [thr EXCEPT ![t] = j] /\ j.pc = "test" /\ j.i = k /\ j.c = thr[t].c /\ j.clean = thr[t].clean
  BY <1>1, <1>2, <1>3 DEF DeployWrite, Goto, Job
<1>5. Moves(t, j) /\ thr'[t] = j
  BY <1>1, <1>3, <1>4 DEF Moves, ThreadsTyped
<1>6. file' = [file EXCEPT ![k] = j.c] /\ UNCHANGED <<pidfile, runspec, procs, acked, torn, mita, desired>>
  BY <1>1, <1>4 DEF DeployWrite
<1>7. file'[k] = j.c /\ \A i \in Insts \ {k} : file'[i] = file[i]
  BY <1>3, <1>6 DEF FilesTyped
<1>8. \A i \in Single \ {k} : Still(i)
  BY <1>6, <1>7, SameStill, Constants
<1>9. OwnPhase(t)'
  BY <1>4, <1>5, <1>7, PhaseThen
<1>10. Knows(t, k) /\ k \notin torn' => SoundAt(t, k)'
  <2> SUFFICES ASSUME Knows(t, k), k \notin torn' PROVE SoundAt(t, k)'
    OBVIOUS
  <2>1. Orphans(k) = {}
    BY <1>6 DEF Knows, SoundAt
  <2>2. Orphans(k)' = {}
    BY <1>6, <2>1 DEF Orphans, Alive
  <2> QED BY <1>3, <1>4, <1>5, <2>2 DEF SoundAt
<1>11. \A i \in Shared : file'[i] = file[i]
  BY <1>7, Constants
<1> QED BY <1>1, <1>4, <1>5, <1>6, <1>8, <1>9, <1>10, <1>11, OwnStep

LEMMA DeployTestSure ==
  ASSUME Typed, Sure, NEW t \in Goroutines, DeployTest(t)
  PROVE  Sure'
<1> USE DEF Typed
<1>1. PICK k \in Single : k = thr[t].i
  BY AtFits DEF DeployTest, SinglePcs, OwnPcs
<1>2. thr[t].pc = "test" /\ thr[t] \in Job /\ k \in Insts /\ t # Watch
  BY AtFits, Constants DEF DeployTest, SinglePcs, OwnPcs
<1>3. UNCHANGED <<file, pidfile, runspec, mita, desired>>
  BY DEF DeployTest
<1>4. CASE thr[t].c \in Bad
  <2>1. Ends(t) /\ torn' = torn \union {k} /\ UNCHANGED procs /\ Acked(k, None)
    BY <1>1, <1>4 DEF DeployTest
  <2>2. Moves(t, NoJob) /\ NoJob.pc = "idle"
    BY <1>2, <2>1, EndMoves
  <2>3. \A i \in Single \ {k} : Still(i) /\ acked'[i] = acked[i]
    BY <1>2, <1>3, <2>1, SameStill, AckedOthers, Constants
  <2> QED BY <1>1, <1>3, <2>1, <2>2, <2>3, OwnStep
<1>5. CASE thr[t].c \notin Bad
  <2>1. /\ evictForeignListeners(PortOf[thr[t].c]) /\ Goto(t, "kill") /\ UNCHANGED <<acked, torn>>
    BY <1>5 DEF DeployTest
  <2>2. PICK j : j = [thr[t] EXCEPT !.pc = "kill"]
    OBVIOUS
  <2>3. thr' = [thr EXCEPT ![t] = j] /\ j.pc = "kill" /\ j.i = k /\ j.c = thr[t].c /\ j.clean = thr[t].clean
    BY <1>1, <1>2, <2>1, <2>2 DEF Goto, Job
  <2>4. Moves(t, j) /\ thr'[t] = j
    BY <1>1, <1>2, <2>3 DEF Moves, ThreadsTyped
  <2>5. \A i \in Single : Still(i)
    BY <1>3, <2>1, KillStill DEF evictForeignListeners
  <2>6. Knows(t, k) => OwnPhase(t)'
    <3>1. Knows(t, k) => file'[k] = j.c
      BY <1>1, <1>2, <1>3, <2>3 DEF Knows, OwnPhase
    <3> QED BY <1>2, <2>3, <2>4, <3>1, PhaseThen
  <2>7. Knows(t, k) /\ k \notin torn' => SoundAt(t, k)'
    <3> SUFFICES ASSUME Knows(t, k), k \notin torn' PROVE SoundAt(t, k)'
      OBVIOUS
    <3>1. Orphans(k) = {}
      BY <2>1 DEF Knows, SoundAt
    <3>2. Orphans(k)' = {}
      BY <2>5, <3>1, StillFacts
    <3> QED BY <1>2, <2>3, <2>4, <3>2 DEF SoundAt
  <2> QED BY <1>1, <1>3, <2>1, <2>3, <2>4, <2>5, <2>6, <2>7, OwnStep
<1> QED BY <1>4, <1>5

LEMMA restartDetachedSure ==
  ASSUME Typed, Sure, NEW t \in Goroutines, restartDetached(t)
  PROVE  Sure'
<1> USE DEF Typed
<1>1. PICK k \in Single : k = thr[t].i
  BY AtFits DEF restartDetached, SinglePcs, OwnPcs
<1>2. PICK j : j = [thr[t] EXCEPT !.pc = "listen"]
  OBVIOUS
<1>3. thr[t].pc = "record" /\ thr[t] \in Job /\ t # Watch
  BY AtFits DEF restartDetached
<1>4. thr' = [thr EXCEPT ![t] = j] /\ j.pc = "listen" /\ j.i = k /\ j.c = thr[t].c /\ j.clean = thr[t].clean
  BY <1>1, <1>2, <1>3 DEF restartDetached, Goto, Job
<1>5. Moves(t, j) /\ thr'[t] = j
  BY <1>1, <1>3, <1>4 DEF Moves, ThreadsTyped
<1>6. UNCHANGED <<file, pidfile, procs, acked, torn, mita, desired>> /\ runspec' = runspec \union {k}
  BY <1>1 DEF restartDetached, writeRunSpec
<1>7. \A i \in Single : Still(i)
  BY <1>6, SameStill
<1>8. Knows(t, k) => OwnPhase(t)'
  <2> SUFFICES ASSUME Knows(t, k) PROVE OwnPhase(t)'
    OBVIOUS
  <2>1. file'[k] = j.c /\ k \in runspec'
    BY <1>1, <1>3, <1>4, <1>6 DEF Knows, OwnPhase, OwnPcs
  <2>2. AsFiled(k)
    BY <1>1, <1>3 DEF Knows, OwnPhase
  <2>3. AsFiled(k)'
    BY <1>7, <2>2, StillFacts
  <2> QED BY <1>4, <1>5, <2>1, <2>3, PhaseThen
<1>9. Knows(t, k) /\ k \notin torn' => SoundAt(t, k)'
  <2> SUFFICES ASSUME Knows(t, k), k \notin torn' PROVE SoundAt(t, k)'
    OBVIOUS
  <2>1. SoundAt(t, k)
    BY <1>6 DEF Knows
  <2>2. Orphans(k)' = {}
    BY <1>7, <2>1, StillFacts DEF SoundAt
  <2> QED BY <1>3, <1>4, <1>5, <2>2 DEF SoundAt
<1> QED BY <1>1, <1>4, <1>5, <1>6, <1>7, <1>8, <1>9, OwnStep

LEMMA StartFailsSure ==
  ASSUME Typed, Sure, NEW t \in Goroutines, StartFails(t)
  PROVE  Sure'
<1> USE DEF Typed
<1>1. PICK k \in Single : k = thr[t].i
  BY AtFits DEF StartFails, SinglePcs, OwnPcs
<1>2. thr[t].pc = "settle" /\ thr[t] \in Job /\ k \in Insts /\ t # Watch
  BY AtFits, Constants DEF StartFails
<1>3. UNCHANGED <<file, pidfile, runspec, procs, mita, desired>>
  BY DEF StartFails
<1>4. CASE Core[k] = "xray" /\ thr[t].form = 1
  <2>1. PICK j : j = [thr[t] EXCEPT !.pc = "kill", !.pid = 0, !.form = 2]
    OBVIOUS
  <2>2. thr' = [thr EXCEPT ![t] = j] /\ UNCHANGED <<acked, torn>>
    BY <1>1, <1>4, <2>1 DEF StartFails
  <2>3. j.pc = "kill" /\ j.i = k /\ j.c = thr[t].c /\ j.clean = thr[t].clean
    BY <1>1, <1>2, <2>1 DEF Job
  <2>4. Moves(t, j) /\ thr'[t] = j
    BY <1>1, <1>2, <2>2, <2>3 DEF Moves, ThreadsTyped
  <2>5. \A i \in Single : Still(i)
    BY <1>3, SameStill
  <2>6. Knows(t, k) => OwnPhase(t)'
    <3>1. Knows(t, k) => file'[k] = j.c
      BY <1>1, <1>2, <1>3, <2>3 DEF Knows, OwnPhase, OwnPcs
    <3> QED BY <1>2, <2>3, <2>4, <3>1, PhaseThen
  <2>7. Knows(t, k) /\ k \notin torn' => SoundAt(t, k)'
    <3> SUFFICES ASSUME Knows(t, k), k \notin torn' PROVE SoundAt(t, k)'
      OBVIOUS
    <3>1. Orphans(k) = {}
      BY <2>2 DEF Knows, SoundAt
    <3>2. Orphans(k)' = {}
      BY <2>5, <3>1, StillFacts
    <3> QED BY <1>2, <2>3, <2>4, <3>2 DEF SoundAt
  <2> QED BY <1>1, <1>3, <2>2, <2>3, <2>4, <2>5, <2>6, <2>7, OwnStep
<1>5. CASE ~(Core[k] = "xray" /\ thr[t].form = 1)
  <2>1. Ends(t) /\ torn' = torn \union {k} /\ Acked(k, None)
    BY <1>1, <1>5 DEF StartFails
  <2>2. Moves(t, NoJob) /\ NoJob.pc = "idle"
    BY <1>2, <2>1, EndMoves
  <2>3. \A i \in Single \ {k} : Still(i) /\ acked'[i] = acked[i]
    BY <1>2, <1>3, <2>1, SameStill, AckedOthers, Constants
  <2> QED BY <1>1, <1>3, <2>1, <2>2, <2>3, OwnStep
<1> QED BY <1>4, <1>5

LEMMA waitListenHintSure ==
  ASSUME Typed, Sure, NEW t \in Goroutines, waitListenHint(t)
  PROVE  Sure'
<1> USE DEF Typed
<1>1. PICK k \in Single : k = thr[t].i
  BY AtFits DEF waitListenHint, SinglePcs, OwnPcs
<1>2. thr[t].pc = "listen" /\ thr[t] \in Job /\ k \in Insts /\ t # Watch
  BY AtFits, Constants DEF waitListenHint, SinglePcs, OwnPcs
<1>3. UNCHANGED <<file, pidfile, runspec, procs, mita, desired>>
  BY DEF waitListenHint
<1>4. \A i \in Single : Still(i)
  BY <1>3, SameStill
<1>5. CASE Taken(PortOf[thr[t].c])
  <2>1. /\ Acked(k, thr[t].c) /\ Ends(t)
        /\ torn' = IF ~thr[t].clean THEN torn \union {k}
                   ELSE IF Orphans(k) = {} THEN torn \ {k} ELSE torn
    BY <1>1, <1>5 DEF waitListenHint
  <2>2. Moves(t, NoJob) /\ NoJob.pc = "idle"
    BY <1>2, <2>1, EndMoves
  <2>3. acked'[k] = thr[t].c /\ \A i \in Single \ {k} : acked'[i] = acked[i]
    BY <1>2, <2>1, AckedOthers, Constants
  <2>4. Knows(t, k) /\ k \notin torn' => Rests(k)'
    <3> SUFFICES ASSUME Knows(t, k), k \notin torn' PROVE Rests(k)'
      OBVIOUS
    <3>1. thr[t].clean /\ OwnPhase(t)
      BY DEF Knows
    <3>2. AsFiled(k) /\ k \in runspec /\ file[k] = thr[t].c
      BY <1>1, <1>2, <3>1 DEF OwnPhase
    <3>3. Orphans(k) = {}
      <4>1. CASE Orphans(k) = {}
        BY <4>1
      <4>2. CASE Orphans(k) # {}
        <5>1. k \notin torn
          BY <2>1, <3>1, <4>2
        <5> QED BY <5>1 DEF Knows, SoundAt
      <4> QED BY <4>1, <4>2
    <3>4. AsFiled(k)' /\ Orphans(k)' = {}
      BY <1>4, <3>2, <3>3, StillFacts
    <3>5. Tracked(k)' /\ Acks(k)'
      BY <1>3, <2>3, <3>2 DEF Tracked, Acks
    <3> QED BY <3>4, <3>5 DEF Rests
  <2>5. \A i \in torn \ torn' : i = k /\ thr[t].clean
    BY <2>1
  <2> QED BY <1>1, <1>3, <1>4, <2>2, <2>3, <2>4, <2>5, OwnStep
<1>6. CASE ~Taken(PortOf[thr[t].c])
  <2>1. PICK j : j = [thr[t] EXCEPT !.pc = "stop", !.c = None]
    OBVIOUS
  <2>2. thr' = [thr EXCEPT ![t] = j] /\ UNCHANGED torn /\ Acked(k, None)
    BY <1>1, <1>6, <2>1 DEF waitListenHint
  <2>3. j.pc = "stop" /\ j.i = k /\ j.clean = thr[t].clean
    BY <1>1, <1>2, <2>1 DEF Job
  <2>4. Moves(t, j) /\ thr'[t] = j
    BY <1>1, <1>2, <2>2, <2>3 DEF Moves, ThreadsTyped
  <2>5. \A i \in Single \ {k} : acked'[i] = acked[i]
    BY <1>2, <2>2, AckedOthers, Constants
  <2>6. OwnPhase(t)'
    BY <2>3, <2>4, PhaseThen DEF OwnPcs
  <2>7. Knows(t, k) /\ k \notin torn' => SoundAt(t, k)'
    <3> SUFFICES ASSUME Knows(t, k), k \notin torn' PROVE SoundAt(t, k)'
      OBVIOUS
    <3>1. Orphans(k) = {} /\ AsFiled(k)
      BY <1>1, <1>2, <2>2 DEF Knows, SoundAt, OwnPhase
    <3>2. Orphans(k)' = {} /\ AsFiled(k)'
      BY <1>4, <3>1, StillFacts
    <3> QED BY <1>2, <2>3, <2>4, <3>2 DEF SoundAt
  <2> QED BY <1>1, <1>3, <1>4, <2>2, <2>3, <2>4, <2>5, <2>6, <2>7, OwnStep
<1> QED BY <1>5, <1>6

\* A process that has ended loses its pid file.
LEMMA NoPidStill ==
  ASSUME Typed, NEW k \in Single, pidfile' = [pidfile EXCEPT ![k] = 0], UNCHANGED <<file, procs, runspec>>
  PROVE  /\ ~Up(k)' /\ pidfile'[k] = 0
         /\ \A i \in Single \ {k} : Still(i)
         /\ Orphans(k) = {} /\ ~Up(k) => Orphans(k)' = {}
<1>1. pidfile'[k] = 0 /\ \A i \in Single \ {k} : pidfile'[i] = pidfile[i]
  BY Constants DEF Typed, ProcsTyped
<1>2. ~Up(k)'
  BY <1>1 DEF Up, Alive
<1>3. \A i \in Single \ {k} : Still(i)
  BY <1>1, SameStill
<1>4. ASSUME Orphans(k) = {}, ~Up(k) PROVE Orphans(k)' = {}
  <2>1. \A p \in Pids : Alive(p) /\ procs[p].i = k => p = pidfile[k]
    BY <1>4 DEF Orphans
  <2>2. \A p \in Pids : ~(Alive(p) /\ procs[p].i = k)
    BY <1>4, <2>1 DEF Up
  <2> QED BY <2>2 DEF Orphans, Alive
<1> QED BY <1>1, <1>2, <1>3, <1>4

LEMMA StopUnregisterSure ==
  ASSUME Typed, Sure, NEW t \in Goroutines, StopUnregister(t)
  PROVE  Sure'
<1> USE DEF Typed
<1>1. PICK k \in Single : k = thr[t].i
  BY AtFits DEF StopUnregister, SinglePcs, OwnPcs
<1>2. PICK j : j = [thr[t] EXCEPT !.pc = "stopkill"]
  OBVIOUS
<1>3. thr[t].pc = "stop" /\ thr[t] \in Job /\ t # Watch
  BY AtFits, Constants DEF StopUnregister, SinglePcs, OwnPcs
<1>4. thr' = [thr EXCEPT ![t] = j] /\ j.pc = "stopkill" /\ j.i = k /\ j.clean = thr[t].clean
  BY <1>1, <1>2, <1>3 DEF StopUnregister, Goto, Job
<1>5. Moves(t, j) /\ thr'[t] = j
  BY <1>1, <1>3, <1>4 DEF Moves, ThreadsTyped
<1>6. /\ UNCHANGED <<file, pidfile, procs, acked, torn, mita, desired>>
      /\ runspec' = runspec \ {k}
  BY <1>1 DEF StopUnregister, removeRunSpec
<1>7. \A i \in Single \ {k} : Still(i)
  BY <1>6, SameStill
<1>8. OwnPhase(t)'
  BY <1>4, <1>5, PhaseThen DEF OwnPcs
<1>9. Knows(t, k) /\ k \notin torn' => SoundAt(t, k)'
  <2> SUFFICES ASSUME Knows(t, k), k \notin torn' PROVE SoundAt(t, k)'
    OBVIOUS
  <2>1. Orphans(k) = {} /\ AsFiled(k)
    BY <1>3, <1>6 DEF Knows, SoundAt
  <2>2. Orphans(k)' = {} /\ AsFiled(k)'
    BY <1>6, <2>1 DEF Orphans, AsFiled, Up, Alive
  <2> QED BY <1>3, <1>4, <1>5, <2>2 DEF SoundAt
<1> QED BY <1>1, <1>4, <1>5, <1>6, <1>7, <1>8, <1>9, OwnStep

LEMMA StopKillSure ==
  ASSUME Typed, Sure, NEW t \in Goroutines, StopKill(t)
  PROVE  Sure'
<1> USE DEF Typed
<1>1. PICK k \in Single : k = thr[t].i
  BY AtFits DEF StopKill, SinglePcs, OwnPcs
<1>2. PICK j : j = [thr[t] EXCEPT !.pc = "stopped"]
  OBVIOUS
<1>3. thr[t].pc = "stopkill" /\ thr[t] \in Job /\ t # Watch
  BY AtFits, Constants DEF StopKill, SinglePcs, OwnPcs
<1>4. thr' = [thr EXCEPT ![t] = j] /\ j.pc = "stopped" /\ j.i = k /\ j.clean = thr[t].clean
  BY <1>1, <1>2, <1>3 DEF StopKill, Goto, Job
<1>5. Moves(t, j) /\ thr'[t] = j
  BY <1>1, <1>3, <1>4 DEF Moves, ThreadsTyped
<1>6. UNCHANGED <<file, pidfile, runspec, acked, torn, mita, desired>> /\ Kill({pidfile[k]} \ {0})
  BY <1>1 DEF StopKill
<1>7. \A i \in Single : Still(i)
  BY <1>6, KillStill
<1>8. ~Up(k)'
  BY <1>6, KilledDown
<1>9. OwnPhase(t)'
  BY <1>4, <1>5, <1>8, PhaseThen DEF OwnPcs
<1>10. Knows(t, k) /\ k \notin torn' => SoundAt(t, k)'
  <2> SUFFICES ASSUME Knows(t, k), k \notin torn' PROVE SoundAt(t, k)'
    OBVIOUS
  <2>1. Orphans(k) = {}
    BY <1>6 DEF Knows, SoundAt
  <2>2. Orphans(k)' = {}
    BY <1>7, <2>1, StillFacts
  <2> QED BY <1>3, <1>4, <1>5, <2>2 DEF SoundAt
<1> QED BY <1>1, <1>4, <1>5, <1>6, <1>7, <1>9, <1>10, OwnStep

LEMMA stopPIDFileSure ==
  ASSUME Typed, Sure, NEW t \in Goroutines, stopPIDFile(t)
  PROVE  Sure'
<1> USE DEF Typed
<1>1. PICK k \in Single : k = thr[t].i
  BY AtFits DEF stopPIDFile, SinglePcs, OwnPcs
<1>2. thr[t].pc = "stopped" /\ thr[t] \in Job /\ t # Watch /\ k \in Insts
  BY AtFits, Constants DEF stopPIDFile, SinglePcs, OwnPcs
<1>3. UNCHANGED <<file, runspec, procs, torn, mita, desired>> /\ pidfile' = [pidfile EXCEPT ![k] = 0]
  BY <1>1 DEF stopPIDFile
<1>4. ~Up(k)' /\ \A i \in Single \ {k} : Still(i)
  BY <1>3, NoPidStill
<1>5. Knows(t, k) /\ k \notin torn' => Orphans(k)' = {}
  <2> SUFFICES ASSUME Knows(t, k), k \notin torn' PROVE Orphans(k)' = {}
    OBVIOUS
  <2>1. Orphans(k) = {} /\ ~Up(k)
    BY <1>1, <1>2, <1>3 DEF Knows, SoundAt, OwnPhase
  <2> QED BY <1>3, <2>1, NoPidStill
<1>6. CASE thr[t].form = 2
  <2>1. PICK j : j = [thr[t] EXCEPT !.pc = "unfile"]
    OBVIOUS
  <2>2. thr' = [thr EXCEPT ![t] = j] /\ j.pc = "unfile" /\ j.i = k /\ j.clean = thr[t].clean /\ UNCHANGED acked
    BY <1>1, <1>2, <1>6, <2>1 DEF stopPIDFile, Goto, Job
  <2>3. Moves(t, j) /\ thr'[t] = j
    BY <1>1, <1>2, <2>2 DEF Moves, ThreadsTyped
  <2>4. OwnPhase(t)'
    BY <1>4, <2>2, <2>3, PhaseThen DEF OwnPcs
  <2>5. Knows(t, k) /\ k \notin torn' => SoundAt(t, k)'
    BY <1>2, <1>5, <2>2, <2>3 DEF SoundAt
  <2> QED BY <1>1, <1>3, <1>4, <2>2, <2>3, <2>4, <2>5, OwnStep
<1>7. CASE thr[t].form # 2
  <2>1. Ends(t) /\ Acked(k, Halted)
    BY <1>1, <1>7 DEF stopPIDFile
  <2>2. Moves(t, NoJob) /\ NoJob.pc = "idle"
    BY <1>2, <2>1, EndMoves
  <2>3. acked'[k] = Halted /\ \A i \in Single \ {k} : acked'[i] = acked[i]
    BY <1>2, <2>1, AckedOthers, Constants
  <2>4. Knows(t, k) /\ k \notin torn' => Rests(k)'
    BY <1>4, <1>5, <2>3 DEF Rests, AsFiled, Tracked, Acks
  <2> QED BY <1>1, <1>3, <1>4, <2>2, <2>3, <2>4, OwnStep
<1> QED BY <1>6, <1>7

LEMMA StopFilesOwnSure ==
  ASSUME Typed, Sure, NEW t \in Goroutines, StopFiles(t), thr[t].i \in Single
  PROVE  Sure'
<1> USE DEF Typed
<1>1. PICK k \in Single : k = thr[t].i
  OBVIOUS
<1>2. thr[t].pc = "unfile" /\ k \in Insts /\ k \notin Shared
  BY Constants DEF StopFiles, At
<1>3. /\ UNCHANGED <<pidfile, runspec, procs, torn, mita, desired>> /\ file' = [file EXCEPT ![k] = None]
      /\ Ends(t) /\ Acked(k, Halted)
  BY <1>1, <1>2 DEF StopFiles
<1>4. Moves(t, NoJob) /\ NoJob.pc = "idle"
  BY <1>2, <1>3, EndMoves
<1>5. \A i \in Insts \ {k} : file'[i] = file[i]
  BY <1>2, <1>3 DEF FilesTyped
<1>6. \A i \in Single \ {k} : Still(i)
  BY <1>3, <1>5, SameStill, Constants
<1>7. acked'[k] = Halted /\ \A i \in Single \ {k} : acked'[i] = acked[i]
  BY <1>2, <1>3, AckedOthers, Constants
<1>8. Knows(t, k) /\ k \notin torn' => Rests(k)'
  <2> SUFFICES ASSUME Knows(t, k), k \notin torn' PROVE Rests(k)'
    OBVIOUS
  <2>1. Orphans(k) = {} /\ ~Up(k)
    BY <1>1, <1>2, <1>3 DEF Knows, SoundAt, OwnPhase
  <2>2. Orphans(k)' = {} /\ ~Up(k)'
    BY <1>3, <2>1 DEF Orphans, Up, Alive
  <2> QED BY <1>7, <2>2 DEF Rests, AsFiled, Tracked, Acks
<1>9. \A i \in Shared : file'[i] = file[i]
  BY <1>2, <1>5, Constants
<1> QED BY <1>1, <1>3, <1>4, <1>6, <1>7, <1>8, <1>9, OwnStep

LEMMA ReviveSure ==
  ASSUME Typed, Sure, Revive
  PROVE  Sure'
<1> USE DEF Typed
<1>1. PICK t \in Goroutines : t = Watch
  BY Constants
<1>2. PICK k \in Single : k = thr[t].i
  BY <1>1, AtFits DEF Revive, SinglePcs, OwnPcs
<1>3. /\ thr[t].pc = "record" /\ Ends(t) /\ runspec' = runspec \union {k}
      /\ UNCHANGED <<file, pidfile, procs, acked, torn, mita, desired>>
  BY <1>1, <1>2 DEF Revive, At, Ends, writeRunSpec
<1>4. Moves(t, NoJob) /\ NoJob.pc = "idle"
  BY <1>3, EndMoves
<1>5. \A i \in Single : Still(i)
  BY <1>3, SameStill
<1>6. Knows(t, k) /\ k \notin torn' => Rests(k)'
  <2> SUFFICES ASSUME Knows(t, k), k \notin torn' PROVE Rests(k)'
    OBVIOUS
  <2>1. Orphans(k) = {} /\ Acks(k) /\ AsFiled(k)
    BY <1>1, <1>2, <1>3 DEF Knows, SoundAt, OwnPhase
  <2>2. Orphans(k)' = {} /\ Acks(k)' /\ AsFiled(k)'
    BY <1>3, <1>5, <2>1, StillFacts
  <2> QED BY <1>3, <2>2 DEF Rests, Tracked
<1> QED BY <1>2, <1>3, <1>4, <1>5, <1>6, OwnStep

LEMMA ReviveFailsSure ==
  ASSUME Typed, Sure, ReviveFails
  PROVE  Sure'
<1> USE DEF Typed
<1>1. PICK t \in Goroutines : t = Watch
  BY Constants
<1>2. PICK k \in Single : k = thr[t].i
  BY <1>1, AtFits DEF ReviveFails, SinglePcs, OwnPcs
<1>3. /\ thr[t].pc = "settle" /\ ~Alive(thr[t].pid) /\ Ends(t)
      /\ UNCHANGED <<file, pidfile, runspec, procs, acked, torn, mita, desired>>
  BY <1>1 DEF ReviveFails, At, Ends
<1>4. Moves(t, NoJob) /\ NoJob.pc = "idle"
  BY <1>3, EndMoves
<1>5. \A i \in Single : Still(i)
  BY <1>3, SameStill
<1>6. Knows(t, k) /\ k \notin torn' => Rests(k)'
  <2> SUFFICES ASSUME Knows(t, k), k \notin torn' PROVE Rests(k)'
    OBVIOUS
  <2>1. Orphans(k) = {} /\ Acks(k) /\ ~Up(k)
    BY <1>1, <1>2, <1>3 DEF Knows, SoundAt, OwnPhase, Up
  <2>2. Orphans(k)' = {} /\ Acks(k)' /\ ~Up(k)'
    BY <1>3, <1>5, <2>1, StillFacts
  <2> QED BY <2>2 DEF Rests, Tracked, AsFiled
<1> QED BY <1>2, <1>3, <1>4, <1>5, <1>6, OwnStep
(***************************************************************************)
(* The steps at the mieru daemon.                                          *)
(***************************************************************************)
Serving(t) == thr[t].pc = "fragment" \/ (thr[t].pc \in {"merge", "unite", "live"} /\ thr[t].same) => Served

\* The request at the daemon: what it knows if it is alone there.
KnowsDaemon(t) == thr[t].clean /\ DaemonPhase(t) /\ (~(Shared \subseteq torn) => Serving(t))

LEMMA DaemonStep ==
  ASSUME Typed, Sure, NEW t \in Goroutines, NEW j, NEW k \in Shared, Moves(t, j), thr[t].i = k,
         \A i \in Single : Still(i) /\ acked'[i] = acked[i],
         \A i \in torn \ torn' : i \in Shared /\ thr[t].clean /\ j.pc = "idle",
         KnowsDaemon(t) /\ j.pc # "idle" => DaemonPhase(t)',
         KnowsDaemon(t) /\ j.pc # "idle" /\ ~(Shared \subseteq torn') => Serving(t)',
         KnowsDaemon(t) /\ j.pc = "idle" /\ ~(Shared \subseteq torn') => Served'
  PROVE  Sure'
<1> USE DEF Typed
<1>1. thr[t].pc # "idle" /\ k \in Insts /\ With(k) = Shared
  BY Constants, BusyWith DEF Moves
<1>2. Alone(t) /\ Phase(t) /\ ~At(t, "idle")
  BY <1>1 DEF Sure, At
<1>3. thr[t].clean => DaemonPhase(t) /\ \A i \in Shared : Busy(i) = {t}
  <2>1. thr[t].clean => DaemonPhase(t) /\ Busy(k) = {t}
    BY <1>2 DEF Phase, Alone
  <2>2. \A i \in Shared : Busy(i) = Busy(k)
    BY <1>1, BusyWith DEF Busy
  <2> QED BY <2>1, <2>2
<1>4. ~thr[t].clean => Shared \subseteq torn
  BY <1>1, <1>2 DEF Alone
<1>5. ~(Shared \subseteq torn) => Serving(t)
  <2>1. ASSUME NEW i \in Shared, i \notin torn PROVE Serving(t)
    <3>1. SoundDaemon(i) /\ Busy(i) = {t}
      BY <1>3, <1>4, <2>1 DEF Sure
    <3> QED BY <3>1 DEF SoundDaemon, Serving
  <2> QED BY <2>1
<1>6. thr[t].clean => KnowsDaemon(t)
  BY <1>3, <1>5 DEF KnowsDaemon
<1>7. j.pc # "idle" /\ j.clean => DaemonPhase(t)'
  BY <1>6 DEF Moves
<1>8. ASSUME NEW i \in Shared, i \notin torn' PROVE SoundDaemon(i)'
  <2>1. thr[t].clean /\ ~(Shared \subseteq torn')
    BY <1>4, <1>8
  <2>2. Busy(i) = {t} /\ KnowsDaemon(t) /\ i \in Insts
    BY <1>3, <1>6, <2>1, Constants
  <2>3. CASE j.pc = "idle"
    <3>1. Busy(i)' = {}
      BY <2>2, <2>3, MovesBusy
    <3>2. Served'
      BY <2>1, <2>2, <2>3
    <3> QED BY <3>1, <3>2 DEF SoundDaemon
  <2>4. CASE j.pc # "idle"
    <3>1. Busy(i)' = {t}
      BY <2>2, <2>4, MovesBusy
    <3>2. Serving(t)'
      BY <2>1, <2>2, <2>4
    <3> QED BY <3>1, <3>2 DEF SoundDaemon, Serving
  <2> QED BY <2>3, <2>4
<1> QED BY <1>7, <1>8, DaemonMoves

\* Where the daemon's thread stands after a step, in terms of what it writes.
LEMMA DaemonThen ==
  ASSUME NEW t, NEW j, thr'[t] = j,
         j.pc \in {"unite", "live", "rewrite", "push", "listening"} => j.u = mergeMitaInstanceConfigs',
         j.pc = "live" => desired' = j.u,
         j.pc = "push" => desired' \ Missing = j.u /\ mita' = [users |-> {}, listening |-> FALSE],
         j.pc = "listening" => mita' = [users |-> j.u, listening |-> FALSE]
  PROVE  DaemonPhase(t)'
BY DEF DaemonPhase, Missing

\* An answer about a mieru instance says nothing of another one.
LEMMA SharedAnswer ==
  ASSUME Typed, NEW k \in Shared, NEW c, Acked(k, c)
  PROVE  \A i \in Single : acked'[i] = acked[i]
BY AckedOthers, Constants DEF Typed

LEMMA WriteFragmentSure ==
  ASSUME Typed, Sure, NEW t \in Goroutines, WriteFragment(t)
  PROVE  Sure'
<1> USE DEF Typed
<1>1. PICK k \in Shared : k = thr[t].i
  BY AtFits DEF WriteFragment, SharedPcs
<1>2. PICK j : j = [thr[t] EXCEPT !.pc = "merge", !.same = sameCoreConfigFile(k, thr[t].c)]
  OBVIOUS
<1>3. thr[t].pc = "fragment" /\ thr[t] \in Job /\ k \in Insts
  BY AtFits, Constants DEF WriteFragment
<1>4. thr' = [thr EXCEPT ![t] = j]
  BY <1>1, <1>2 DEF WriteFragment
<1>5. j.pc = "merge" /\ j.i = k /\ (j.same <=> file[k] = thr[t].c) /\ j.clean = thr[t].clean
  BY <1>1, <1>2, <1>3 DEF Job, sameCoreConfigFile
<1>6. Moves(t, j) /\ thr'[t] = j
  BY <1>1, <1>3, <1>4, <1>5 DEF Moves, ThreadsTyped
<1>7. /\ UNCHANGED <<pidfile, runspec, procs, acked, torn, mita, desired>>
      /\ file' = [file EXCEPT ![k] = thr[t].c]
  BY <1>1 DEF WriteFragment
<1>8. \A i \in Single : file'[i] = file[i]
  BY <1>3, <1>7, Constants DEF FilesTyped
<1>9. \A i \in Single : Still(i)
  BY <1>7, <1>8, SameStill
<1>10. DaemonPhase(t)'
  BY <1>5, <1>6, DaemonThen
<1>11. KnowsDaemon(t) /\ ~(Shared \subseteq torn') => Serving(t)'
  <2> SUFFICES ASSUME KnowsDaemon(t), ~(Shared \subseteq torn'), j.same PROVE Served'
    BY <1>5, <1>6 DEF Serving
  <2>1. Served
    BY <1>3, <1>7 DEF KnowsDaemon, Serving
  <2>2. \A i \in Shared : file'[i] = file[i]
    BY <1>3, <1>5, <1>7, Constants DEF FilesTyped
  <2> QED BY <1>7, <2>1, <2>2, StillDaemon
<1> QED BY <1>1, <1>5, <1>6, <1>7, <1>9, <1>10, <1>11, DaemonStep

LEMMA MergeSure ==
  ASSUME Typed, Sure, NEW t \in Goroutines, Merge(t)
  PROVE  Sure'
<1> USE DEF Typed
<1>1. PICK k \in Shared : k = thr[t].i
  BY AtFits DEF Merge, SharedPcs
<1>2. PICK j : j = [thr[t] EXCEPT !.pc = IF @ = "merge" THEN "unite" ELSE "rewrite",
                                  !.u = mergeMitaInstanceConfigs]
  OBVIOUS
<1>3. thr[t].pc \in {"merge", "reunite"} /\ thr[t] \in Job
  BY AtFits DEF Merge
<1>4. thr' = [thr EXCEPT ![t] = j]
  BY <1>2 DEF Merge
<1>5. /\ j.pc \in {"unite", "rewrite"} /\ (j.pc = "unite" => thr[t].pc = "merge") /\ j.i = k
      /\ j.u = mergeMitaInstanceConfigs /\ j.same = thr[t].same /\ j.clean = thr[t].clean
  BY <1>1, <1>2, <1>3 DEF Job
<1>6. Moves(t, j) /\ thr'[t] = j
  BY <1>1, <1>3, <1>4, <1>5 DEF Moves, ThreadsTyped
<1>7. UNCHANGED <<file, pidfile, runspec, procs, acked, torn, mita, desired>>
  BY DEF Merge
<1>8. \A i \in Single : Still(i)
  BY <1>7, SameStill
<1>9. mergeMitaInstanceConfigs' = mergeMitaInstanceConfigs
  BY <1>7, UnionStill
<1>10. DaemonPhase(t)'
  BY <1>5, <1>6, <1>9, DaemonThen
<1>11. KnowsDaemon(t) /\ ~(Shared \subseteq torn') => Serving(t)'
  <2> SUFFICES ASSUME KnowsDaemon(t), ~(Shared \subseteq torn'), j.pc = "unite", j.same PROVE Served'
    BY <1>5, <1>6 DEF Serving
  <2>1. Served
    BY <1>5, <1>7 DEF KnowsDaemon, Serving
  <2> QED BY <1>7, <2>1, StillDaemon
<1> QED BY <1>1, <1>5, <1>6, <1>7, <1>8, <1>10, <1>11, DaemonStep

LEMMA WriteUnionSure ==
  ASSUME Typed, Sure, NEW t \in Goroutines, WriteUnion(t)
  PROVE  Sure'
<1> USE DEF Typed
<1>1. PICK k \in Shared : k = thr[t].i
  BY AtFits DEF WriteUnion, SharedPcs
<1>2. PICK j : j = [thr[t] EXCEPT !.pc = "live", !.same = @ /\ desired = thr[t].u]
  OBVIOUS
<1>3. thr[t].pc = "unite" /\ thr[t] \in Job
  BY AtFits DEF WriteUnion
<1>4. thr' = [thr EXCEPT ![t] = j]
  BY <1>2 DEF WriteUnion
<1>5. /\ j.pc = "live" /\ j.i = k /\ j.u = thr[t].u /\ (j.same => thr[t].same) /\ j.clean = thr[t].clean
  BY <1>1, <1>2, <1>3 DEF Job
<1>6. Moves(t, j) /\ thr'[t] = j
  BY <1>1, <1>3, <1>4, <1>5 DEF Moves, ThreadsTyped
<1>7. UNCHANGED <<file, pidfile, runspec, procs, acked, torn, mita>> /\ desired' = thr[t].u
  BY DEF WriteUnion
<1>8. \A i \in Single : Still(i)
  BY <1>7, SameStill
<1>9. mergeMitaInstanceConfigs' = mergeMitaInstanceConfigs
  BY <1>7, UnionStill
<1>10. KnowsDaemon(t) => DaemonPhase(t)'
  <2>1. KnowsDaemon(t) => thr[t].u = mergeMitaInstanceConfigs
    BY <1>3 DEF KnowsDaemon, DaemonPhase
  <2> QED BY <1>5, <1>6, <1>7, <1>9, <2>1, DaemonThen
<1>11. KnowsDaemon(t) /\ ~(Shared \subseteq torn') => Serving(t)'
  <2> SUFFICES ASSUME KnowsDaemon(t), ~(Shared \subseteq torn'), j.same PROVE Served'
    BY <1>5, <1>6 DEF Serving
  <2>1. Served
    BY <1>3, <1>5, <1>7 DEF KnowsDaemon, Serving
  <2> QED BY <1>7, <1>9, <2>1 DEF Served
<1> QED BY <1>1, <1>5, <1>6, <1>7, <1>8, <1>10, <1>11, DaemonStep

LEMMA StopFilesSharedSure ==
  ASSUME Typed, Sure, NEW t \in Goroutines, StopFiles(t), thr[t].i \in Shared
  PROVE  Sure'
<1> USE DEF Typed
<1>1. PICK k \in Shared : k = thr[t].i
  OBVIOUS
<1>2. PICK j : j = [thr[t] EXCEPT !.pc = "reunite"]
  OBVIOUS
<1>3. thr[t].pc = "unfile" /\ thr[t] \in Job /\ k \in Insts
  BY AtFits, Constants DEF StopFiles
<1>4. thr' = [thr EXCEPT ![t] = j] /\ j.pc = "reunite" /\ j.i = k /\ j.clean = thr[t].clean
  BY <1>1, <1>2, <1>3 DEF StopFiles, Goto, Job
<1>5. Moves(t, j) /\ thr'[t] = j
  BY <1>1, <1>3, <1>4 DEF Moves, ThreadsTyped
<1>6. /\ UNCHANGED <<pidfile, runspec, procs, acked, torn, mita, desired>>
      /\ file' = [file EXCEPT ![k] = None]
  BY <1>1 DEF StopFiles
<1>7. \A i \in Single : file'[i] = file[i]
  BY <1>3, <1>6, Constants DEF FilesTyped
<1>8. \A i \in Single : Still(i)
  BY <1>6, <1>7, SameStill
<1>9. DaemonPhase(t)' /\ Serving(t)'
  BY <1>4, <1>5, DaemonThen DEF Serving
<1> QED BY <1>1, <1>4, <1>5, <1>6, <1>8, <1>9, DaemonStep

LEMMA KeepDaemonSure ==
  ASSUME Typed, Sure, NEW t \in Goroutines, KeepDaemon(t)
  PROVE  Sure'
<1> USE DEF Typed
<1>1. PICK k \in Shared : k = thr[t].i
  BY AtFits DEF KeepDaemon, SharedPcs
<1>2. PICK ok : ok = (mitaProxyListening \/ mitaProxyStart)
  OBVIOUS
<1>3. thr[t].pc = "live" /\ thr[t].same /\ Ends(t)
  BY DEF KeepDaemon, At
<1>4. /\ UNCHANGED <<file, pidfile, runspec, procs, torn, desired>>
      /\ mita' = [mita EXCEPT !.listening = ok] /\ Acked(k, IF ok THEN thr[t].c ELSE None)
  BY <1>1, <1>2 DEF KeepDaemon
<1>5. Moves(t, NoJob) /\ NoJob.pc = "idle"
  BY <1>3, EndMoves
<1>6. \A i \in Single : Still(i) /\ acked'[i] = acked[i]
  BY <1>4, SameStill, SharedAnswer
<1>7. KnowsDaemon(t) /\ ~(Shared \subseteq torn') => Served'
  <2> SUFFICES ASSUME KnowsDaemon(t), ~(Shared \subseteq torn') PROVE Served'
    OBVIOUS
  <2>1. Served
    BY <1>3, <1>4 DEF KnowsDaemon, Serving
  <2>2. PICK U : U = mergeMitaInstanceConfigs
    OBVIOUS
  <2>3. mita = [users |-> U, listening |-> U # {}]
    BY <2>1, <2>2 DEF Served
  <2>4. ok = (U # {})
    BY <1>2, <2>3 DEF mitaProxyListening, mitaProxyStart
  <2>5. mita' = [users |-> U, listening |-> U # {}]
    BY <1>4, <2>3, <2>4
  <2>6. mergeMitaInstanceConfigs' = U
    BY <1>4, <2>2, UnionStill
  <2> QED BY <2>5, <2>6 DEF Served
<1> QED BY <1>1, <1>4, <1>5, <1>6, <1>7, DaemonStep

LEMMA ResetDaemonSure ==
  ASSUME Typed, Sure, NEW t \in Goroutines, ResetDaemon(t)
  PROVE  Sure'
<1> USE DEF Typed
<1>1. PICK k \in Shared : k = thr[t].i
  BY AtFits DEF ResetDaemon, SharedPcs
<1>2. thr[t].pc \in {"live", "rewrite"} /\ thr[t] \in Job
  BY AtFits DEF ResetDaemon
<1>3. /\ UNCHANGED <<file, pidfile, runspec, procs, acked>> /\ mita' = [users |-> {}, listening |-> FALSE]
      /\ thr[t].pc = "live" => desired' = desired
      /\ thr[t].pc = "rewrite" => desired' = IF thr[t].u = {} THEN Missing ELSE thr[t].u
  BY DEF ResetDaemon, resetMitaStoreForPanelReplace, At
<1>4. \A i \in Single : Still(i) /\ acked'[i] = acked[i]
  BY <1>3, SameStill
<1>5. mergeMitaInstanceConfigs' = mergeMitaInstanceConfigs
  BY <1>3, UnionStill
<1>6. KnowsDaemon(t) => thr[t].u = mergeMitaInstanceConfigs /\ desired' \ Missing = thr[t].u
  <2> SUFFICES ASSUME KnowsDaemon(t)
               PROVE  thr[t].u = mergeMitaInstanceConfigs /\ desired' \ Missing = thr[t].u
    OBVIOUS
  <2>1. thr[t].u = mergeMitaInstanceConfigs /\ (thr[t].pc = "live" => desired = thr[t].u)
    BY <1>2 DEF KnowsDaemon, DaemonPhase
  <2>2. thr[t].u \subseteq Cfgs
    BY <1>2 DEF Job
  <2>3. desired' = thr[t].u \/ (desired' = Missing /\ thr[t].u = {})
    BY <1>2, <1>3, <2>1
  <2> QED BY <2>1, <2>2, <2>3, Constants DEF Missing
<1>7. CASE thr[t].c = None /\ thr[t].u = {}
  <2>1. Ends(t) /\ United(t)
    BY <1>7 DEF ResetDaemon
  <2>2. Moves(t, NoJob) /\ NoJob.pc = "idle"
    BY <1>2, <2>1, EndMoves
  <2>3. KnowsDaemon(t) => Served'
    BY <1>3, <1>5, <1>6, <1>7 DEF Served
  <2>4. \A i \in torn \ torn' : i \in Shared /\ thr[t].clean
    BY <2>1 DEF United
  <2> QED BY <1>1, <1>4, <2>2, <2>3, <2>4, DaemonStep
<1>8. CASE ~(thr[t].c = None /\ thr[t].u = {})
  <2>1. PICK j : j = [thr[t] EXCEPT !.pc = "push"]
    OBVIOUS
  <2>2. thr' = [thr EXCEPT ![t] = j] /\ UNCHANGED torn
    BY <1>8, <2>1 DEF ResetDaemon, Goto
  <2>3. j.pc = "push" /\ j.i = k /\ j.u = thr[t].u /\ j.clean = thr[t].clean
    BY <1>1, <1>2, <2>1 DEF Job
  <2>4. Moves(t, j) /\ thr'[t] = j
    BY <1>1, <1>2, <2>2, <2>3 DEF Moves, ThreadsTyped
  <2>5. KnowsDaemon(t) => DaemonPhase(t)'
    BY <1>3, <1>5, <1>6, <2>3, <2>4, DaemonThen
  <2>6. Serving(t)'
    BY <2>3, <2>4 DEF Serving
  <2> QED BY <1>1, <1>4, <2>2, <2>3, <2>4, <2>5, <2>6, DaemonStep
<1> QED BY <1>7, <1>8

LEMMA ApplyUnionSure ==
  ASSUME Typed, Sure, NEW t \in Goroutines, ApplyUnion(t)
  PROVE  Sure'
<1> USE DEF Typed
<1>1. PICK k \in Shared : k = thr[t].i
  BY AtFits DEF ApplyUnion, SharedPcs
<1>2. PICK j : j = [thr[t] EXCEPT !.pc = "listening"]
  OBVIOUS
<1>3. thr[t].pc = "push" /\ thr[t] \in Job
  BY AtFits DEF ApplyUnion
<1>4. thr' = [thr EXCEPT ![t] = j]
  BY <1>2 DEF ApplyUnion, Goto
<1>5. /\ j.pc = "listening" /\ j.i = k /\ j.u = thr[t].u /\ j.clean = thr[t].clean
  BY <1>1, <1>2, <1>3 DEF Job
<1>6. Moves(t, j) /\ thr'[t] = j
  BY <1>1, <1>3, <1>4, <1>5 DEF Moves, ThreadsTyped
<1>7. UNCHANGED <<file, pidfile, runspec, procs, acked, torn, desired>>
  BY DEF ApplyUnion
<1>8. \A i \in Single : Still(i) /\ acked'[i] = acked[i]
  BY <1>7, SameStill
<1>9. mergeMitaInstanceConfigs' = mergeMitaInstanceConfigs
  BY <1>7, UnionStill
<1>10. KnowsDaemon(t) => DaemonPhase(t)'
  <2> SUFFICES ASSUME KnowsDaemon(t) PROVE DaemonPhase(t)'
    OBVIOUS
  <2>1. /\ thr[t].u = mergeMitaInstanceConfigs /\ desired \ Missing = thr[t].u
        /\ mita = [users |-> {}, listening |-> FALSE]
    BY <1>3 DEF KnowsDaemon, DaemonPhase
  <2>2. mita' = [users |-> thr[t].u, listening |-> FALSE]
    BY <2>1 DEF ApplyUnion
  <2> QED BY <1>5, <1>6, <1>9, <2>1, <2>2, DaemonThen
<1>11. Serving(t)'
  BY <1>5, <1>6 DEF Serving
<1> QED BY <1>1, <1>5, <1>6, <1>7, <1>8, <1>10, <1>11, DaemonStep

LEMMA StartListeningSure ==
  ASSUME Typed, Sure, NEW t \in Goroutines, StartListening(t)
  PROVE  Sure'
<1> USE DEF Typed
<1>1. PICK k \in Shared : k = thr[t].i
  BY AtFits DEF StartListening, SharedPcs
<1>2. thr[t].pc = "listening" /\ Ends(t) /\ United(t)
  BY DEF StartListening, At
<1>3. /\ UNCHANGED <<file, pidfile, runspec, procs, desired>>
      /\ mita' = [mita EXCEPT !.listening = mitaProxyStart]
  BY DEF StartListening
<1>4. \A i \in Single : Still(i) /\ acked'[i] = acked[i]
  <2>1. UNCHANGED acked \/ \E c : Acked(k, c)
    BY <1>1 DEF StartListening
  <2> QED BY <1>3, <2>1, SameStill, SharedAnswer
<1>5. Moves(t, NoJob) /\ NoJob.pc = "idle"
  BY <1>2, EndMoves
<1>6. KnowsDaemon(t) => Served'
  <2> SUFFICES ASSUME KnowsDaemon(t) PROVE Served'
    OBVIOUS
  <2>1. PICK U : U = mergeMitaInstanceConfigs
    OBVIOUS
  <2>2. mita = [users |-> U, listening |-> FALSE]
    BY <1>2, <2>1 DEF KnowsDaemon, DaemonPhase
  <2>3. mita' = [users |-> U, listening |-> U # {}]
    BY <1>3, <2>2 DEF mitaProxyStart
  <2>4. mergeMitaInstanceConfigs' = U
    BY <1>3, <2>1, UnionStill
  <2> QED BY <2>3, <2>4 DEF Served
<1>7. \A i \in torn \ torn' : i \in Shared /\ thr[t].clean
  BY <1>2 DEF United
<1> QED BY <1>1, <1>4, <1>5, <1>6, <1>7, DaemonStep

LEMMA MitaFailsSure ==
  ASSUME Typed, Sure, NEW t \in Goroutines, MitaFails(t)
  PROVE  Sure'
<1> USE DEF Typed
<1>1. PICK k \in Shared : k = thr[t].i
  BY AtFits DEF MitaFails, SharedPcs
<1>2. thr[t].pc # "idle" /\ Ends(t) /\ torn' = torn \union Shared
  BY DEF MitaFails, At
<1>3. UNCHANGED <<file, pidfile, runspec, procs>>
  BY DEF MitaFails
<1>4. \A i \in Single : Still(i) /\ acked'[i] = acked[i]
  <2>1. UNCHANGED acked \/ \E c : Acked(k, c)
    BY <1>1 DEF MitaFails
  <2> QED BY <1>3, <2>1, SameStill, SharedAnswer
<1>5. Moves(t, NoJob) /\ NoJob.pc = "idle"
  BY <1>2, EndMoves
<1> QED BY <1>1, <1>2, <1>4, <1>5, DaemonStep
(***************************************************************************)
(* The steps that begin something, and those that no thread takes.         *)
(***************************************************************************)
\* What a request that begins alone, at an instance of its own, finds there.
LEMMA BeginSound ==
  ASSUME Typed, Sure, NEW t \in Goroutines, NEW job, NEW k \in Single, BeginJob(t, job), thr[t].pc = "idle",
         job \in Job, job.i = k, job.pc # "idle", Busy(k) = {}, k \notin torn, Still(k)
  PROVE  /\ Orphans(k)' = {} /\ AsFiled(k)' /\ Tracked(k)'
         /\ acked'[k] = acked[k] => Acks(k)'
         /\ Busy(k)' = {t} /\ thr'[t].pc = job.pc
<1> USE DEF Typed
<1>1. k \in Insts /\ k \in With(k)
  BY Constants DEF With
<1>2. Begun(t, job, k)
  BY <1>1, BeginFacts
<1>3. Busy(k)' = {t}
  BY <1>1, <1>2 DEF Begun
<1>4. thr'[t].pc = job.pc
  BY <1>2 DEF Begun, Job
<1>5. Sound(k)
  BY DEF Sure
<1>6. Orphans(k) = {} /\ AsFiled(k) /\ Tracked(k) /\ Acks(k)
  BY <1>5 DEF Sound
<1> QED BY <1>3, <1>4, <1>6, StillFacts

LEMMA ensureSure ==
  ASSUME Typed, Sure, NEW k \in Insts, ensure(k)
  PROVE  Sure'
<1> USE DEF Typed
<1>1. UNCHANGED <<file, pidfile, runspec, procs, acked, mita, desired>>
  BY DEF ensure
<1>2. \A i \in Single : Still(i)
  BY <1>1, SameStill
<1>3. CASE UNCHANGED <<thr, torn>>
  BY <1>1, <1>2, <1>3, QuietSure
<1>4. CASE ~UNCHANGED <<thr, torn>>
  <2>1. PICK t \in Goroutines : t = Watch
    BY Constants
  <2>2. PICK job : job = [NoJob EXCEPT !.pc = "kill", !.i = k]
    OBVIOUS
  <2>3. BeginJob(t, job) /\ ~Up(k) /\ thr[t].pc = "idle"
    BY <1>4, <2>1, <2>2 DEF ensure, Up, At
  <2>4. k \in Single
    BY DEF ensure, FilesTyped
  <2>5. job \in Job /\ job.i = k /\ job.pc = "kill"
    BY <2>2, Constants DEF NoJob, Job, SinglePcs, OwnPcs
  <2>6. Begun(t, job, k)
    BY <2>3, <2>5, BeginFacts
  <2>7. thr'[t].pc = "kill" /\ thr'[t].i = k
    BY <2>5, <2>6 DEF Begun, Job
  <2>8. OwnPhase(t)'
    <3>1. PICK j : j = thr'[t]
      OBVIOUS
    <3>2. ~Up(k)'
      BY <1>2, <2>3, <2>4, StillFacts
    <3> QED BY <2>1, <2>7, <3>1, <3>2, PhaseThen
  <2>9. k \notin torn /\ Busy(k) = {} => Sound(k)'
    <3> SUFFICES ASSUME k \notin torn, Busy(k) = {} PROVE Sound(k)'
      OBVIOUS
    <3>1. Orphans(k)' = {} /\ Acks(k)' /\ Busy(k)' = {t}
      BY <1>1, <1>2, <2>3, <2>4, <2>5, BeginSound
    <3> QED BY <2>7, <3>1 DEF Sound
  <2> QED BY <1>1, <1>2, <2>3, <2>4, <2>5, <2>8, <2>9, BeginSure, Constants
<1> QED BY <1>3, <1>4

LEMMA handleProxyServiceApplySure ==
  ASSUME Typed, Sure, NEW t \in Goroutines, NEW k \in Insts, NEW c \in Cfgs, handleProxyServiceApply(t, k, c)
  PROVE  Sure'
<1> USE DEF Typed
<1>1. PICK job : job = [NoJob EXCEPT !.pc = IF k \in Shared THEN "fragment" ELSE "compare", !.i = k, !.c = c]
  OBVIOUS
<1>2. /\ BeginJob(t, job) /\ thr[t].pc = "idle" /\ t # Watch
      /\ UNCHANGED <<file, pidfile, runspec, desired, mita, acked>>
      /\ evictForeignListeners(PortOf[c])
  BY <1>1 DEF handleProxyServiceApply, At
<1>3. job \in Job /\ job.i = k /\ job.pc = IF k \in Shared THEN "fragment" ELSE "compare"
  BY <1>1, Constants DEF NoJob, Job, SinglePcs, SharedPcs, OwnPcs
<1>4. \A i \in Single : Still(i)
  BY <1>2, KillStill DEF evictForeignListeners
<1>5. k \in Single => job.pc = "compare"
  BY <1>3, Constants
<1>6. k \in Single => OwnPhase(t)'
  <2>1. PICK j : j = thr'[t]
    OBVIOUS
  <2>2. Begun(t, job, k)
    BY <1>2, <1>3, BeginFacts
  <2>3. j.pc = job.pc /\ j.i = k
    BY <1>3, <2>1, <2>2 DEF Begun, Job
  <2> QED BY <1>5, <2>1, <2>3, PhaseThen DEF OwnPcs
<1>7. k \in Single \ torn /\ Busy(k) = {} => Sound(k)'
  <2> SUFFICES ASSUME k \in Single \ torn, Busy(k) = {} PROVE Sound(k)'
    OBVIOUS
  <2>1. Orphans(k)' = {} /\ AsFiled(k)' /\ Tracked(k)' /\ Busy(k)' = {t} /\ thr'[t].pc = "compare"
    BY <1>2, <1>3, <1>4, <1>5, BeginSound
  <2> QED BY <1>2, <2>1 DEF Sound
<1> QED BY <1>2, <1>3, <1>4, <1>6, <1>7, BeginSure

LEMMA handleProxyServiceStopSure ==
  ASSUME Typed, Sure, NEW t \in Goroutines, NEW k \in Insts, handleProxyServiceStop(t, k)
  PROVE  Sure'
<1> USE DEF Typed
<1>1. PICK job : job = [NoJob EXCEPT !.pc = IF k \in Shared THEN "unfile" ELSE "stop", !.i = k, !.form = 2]
  OBVIOUS
<1>2. /\ BeginJob(t, job) /\ thr[t].pc = "idle" /\ t # Watch /\ Acked(k, None)
      /\ UNCHANGED <<file, pidfile, runspec, procs, desired, mita>>
  BY <1>1 DEF handleProxyServiceStop, At
<1>3. job \in Job /\ job.i = k /\ job.pc = IF k \in Shared THEN "unfile" ELSE "stop"
  BY <1>1, Constants DEF NoJob, Job, SinglePcs, SharedPcs, OwnPcs
<1>4. \A i \in Single : Still(i) /\ (i # k => acked'[i] = acked[i])
  BY <1>2, SameStill, AckedOthers, Constants
<1>5. k \in Single => job.pc = "stop"
  BY <1>3, Constants
<1>6. k \in Single => OwnPhase(t)'
  <2>1. PICK j : j = thr'[t]
    OBVIOUS
  <2>2. Begun(t, job, k)
    BY <1>2, <1>3, BeginFacts
  <2>3. j.pc = job.pc /\ j.i = k
    BY <1>3, <2>1, <2>2 DEF Begun, Job
  <2> QED BY <1>5, <2>1, <2>3, PhaseThen DEF OwnPcs
<1>7. k \in Single \ torn /\ Busy(k) = {} => Sound(k)'
  <2> SUFFICES ASSUME k \in Single \ torn, Busy(k) = {} PROVE Sound(k)'
    OBVIOUS
  <2>1. Orphans(k)' = {} /\ AsFiled(k)' /\ Busy(k)' = {t} /\ thr'[t].pc = "stop"
    BY <1>2, <1>3, <1>4, <1>5, BeginSound
  <2> QED BY <1>2, <2>1 DEF Sound
<1> QED BY <1>2, <1>3, <1>4, <1>6, <1>7, BeginSure

\* The agent starts again: what a request was in the middle of is torn.
LEMMA RestartSure ==
  ASSUME Typed, Sure, Restart
  PROVE  Sure'
<1> USE DEF Typed
<1>1. /\ \A t \in Goroutines : thr'[t].pc = "idle"
      /\ UNCHANGED <<file, pidfile, runspec, procs, acked, mita, desired>>
      /\ torn' = torn \union UNION {With(thr[t].i) : t \in {t \in Goroutines : ~At(t, "idle")}}
  BY DEF Restart, NoJob
<1>2. \A t \in Goroutines : Alone(t)' /\ Phase(t)'
  BY <1>1 DEF Alone, Phase, At, Goroutines
<1>3. ASSUME NEW i \in Insts, i \notin torn' PROVE Busy(i) = {} /\ Busy(i)' = {} /\ i \notin torn
  <2>1. ASSUME NEW t \in Busy(i) PROVE FALSE
    <3>1. t \in Goroutines /\ ~At(t, "idle") /\ thr[t].i \in With(i)
      BY <2>1 DEF Busy
    <3>2. i \in With(thr[t].i)
      BY <1>3, <3>1 DEF With
    <3> QED BY <1>1, <1>3, <3>1, <3>2
  <2>2. Busy(i)' = {}
    BY <1>1 DEF Busy, At, Goroutines
  <2> QED BY <1>1, <1>3, <2>1, <2>2
<1>4. ASSUME NEW i \in Single, i \notin torn' PROVE Sound(i)'
  <2>1. Busy(i) = {} /\ Busy(i)' = {} /\ Sound(i)
    BY <1>3, <1>4, Constants DEF Sure
  <2>2. Orphans(i) = {} /\ AsFiled(i) /\ Tracked(i) /\ Acks(i)
    BY <2>1 DEF Sound
  <2>3. Still(i)
    BY <1>1, SameStill
  <2>4. Orphans(i)' = {} /\ AsFiled(i)' /\ Tracked(i)' /\ Acks(i)'
    BY <1>1, <2>2, <2>3, StillFacts
  <2> QED BY <2>1, <2>4 DEF Sound
<1>5. ASSUME NEW i \in Shared, i \notin torn' PROVE SoundDaemon(i)'
  <2>1. Busy(i) = {} /\ Busy(i)' = {} /\ SoundDaemon(i)
    BY <1>3, <1>5, Constants DEF Sure
  <2>2. Served'
    BY <1>1, <2>1, StillDaemon DEF SoundDaemon
  <2> QED BY <2>1, <2>2 DEF SoundDaemon
<1> QED BY <1>2, <1>4, <1>5 DEF Sure, Single, Shared, Goroutines

LEMMA StepSure ==
  ASSUME Typed, Sure, NEW t \in Goroutines, Step(t) \/ MitaFails(t)
  PROVE  Sure'
<1>1. CASE StopFiles(t)
  <2>1. thr[t].i \in Insts
    BY <1>1, AtFits DEF StopFiles, Typed
  <2> QED BY <1>1, <2>1, StopFilesOwnSure, StopFilesSharedSure, Constants
<1> QED
  BY <1>1, KillOldSure, RemovePidSure, restartDetachedTrackedSure, SettledSure, DeployUnchangedSure,
     DeployWriteSure, DeployTestSure, restartDetachedSure, StartFailsSure, waitListenHintSure,
     StopUnregisterSure, StopKillSure, stopPIDFileSure, WriteFragmentSure, MergeSure,
     WriteUnionSure, KeepDaemonSure, ResetDaemonSure, ApplyUnionSure, StartListeningSure, MitaFailsSure
  DEF Step

LEMMA NextSure ==
  ASSUME Typed, Sure, [CoresNext]_coreVars
  PROVE  Sure'
<1>1. CASE UNCHANGED <<thr, torn, acked, mita, desired, file, pidfile, runspec, procs>>
  BY <1>1, SameStill, QuietSure
<1>2. ASSUME NEW t \in Goroutines, Step(t) \/ MitaFails(t) PROVE Sure'
  BY <1>2, StepSure
<1>3. ASSUME NEW t \in Reqs, NEW i \in Insts, handleProxyServiceStop(t, i) PROVE Sure'
  BY <1>3, handleProxyServiceStopSure, Constants
<1>4. ASSUME NEW t \in Reqs, NEW i \in Insts, NEW c \in Cfgs, handleProxyServiceApply(t, i, c) PROVE Sure'
  BY <1>4, handleProxyServiceApplySure, Constants
<1>5. CASE Watching
  <2>1. CASE tick
    BY <1>1, <2>1 DEF tick
  <2>2. ASSUME NEW i \in Insts, Later(i) PROVE Sure'
    BY <1>1, <2>2 DEF Later
  <2> QED BY <1>5, <2>1, <2>2, ReviveSure, ReviveFailsSure, ensureSure DEF Watching
<1>6. CASE sample
  BY <1>1, <1>6 DEF sample
<1>7. ASSUME NEW i \in Insts, Traffic(i) PROVE Sure'
  BY <1>1, <1>7 DEF Traffic
<1>8. ASSUME NEW n \in DOMAIN flying, Answered(n) \/ Unanswered(n) PROVE Sure'
  BY <1>1, <1>8 DEF Answered, Unanswered
<1>9. ASSUME NEW p \in Pids, CoreDies(p) PROVE Sure'
  <2>1. UNCHANGED <<file, pidfile, runspec, desired, mita, acked, torn, thr>> /\ Kill({p})
    BY <1>9 DEF CoreDies
  <2> QED BY <2>1, KillStill, QuietSure
<1>10. CASE UNCHANGED coreVars
  BY <1>1, <1>10 DEF coreVars
<1> QED BY <1>2, <1>3, <1>4, <1>5, <1>6, <1>7, <1>8, <1>9, <1>10, RestartSure DEF CoresNext

LEMMA InitSure == CoresInit => Sure
<1> SUFFICES ASSUME CoresInit PROVE Sure
  OBVIOUS
<1>1. \A t \in Goroutines : thr[t].pc = "idle"
  BY DEF CoresInit, NoJob
<1>2. \A t \in Goroutines : Alone(t) /\ Phase(t)
  BY <1>1 DEF Alone, Phase, At
<1>3. \A i : Busy(i) = {}
  BY <1>1 DEF Busy, At
<1>4. ASSUME NEW i \in Single PROVE Sound(i)
  <2>1. \A p \in Pids : ~Alive(p)
    BY DEF CoresInit, Alive
  <2>2. Orphans(i) = {}
    BY <2>1 DEF Orphans
  <2>3. ~Up(i)
    BY Constants DEF CoresInit, Up, Alive
  <2>4. Acks(i)
    BY Constants DEF CoresInit, Acks
  <2> QED BY <1>3, <2>2, <2>3, <2>4 DEF Sound, AsFiled, Tracked
<1>5. torn = Shared
  BY DEF CoresInit
<1> QED BY <1>2, <1>4, <1>5 DEF Sure

(***************************************************************************)
(* Every core does what the panel was last told, whatever crashed or        *)
(* restarted since: no older configuration runs on, nothing that was        *)
(* stopped comes back, and the mieru daemon serves the union of the         *)
(* instance files. Not so after a request that was refused or cut off, or   *)
(* that met another one.                                                    *)
(***************************************************************************)
THEOREM AckedAlwaysRuns == CoresSpec => []AckedRuns
<1>1. CoresInit => Typed /\ Sure
  BY InitTyped, InitSure
<1>2. Typed /\ Sure /\ [CoresNext]_coreVars => (Typed /\ Sure)'
  BY NextTyped, NextSure
<1>3. Typed /\ Sure => AckedRuns
  BY SureAcked
<1> QED BY <1>1, <1>2, <1>3, PTL DEF CoresSpec
=============================================================================
