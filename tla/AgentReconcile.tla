--------------------------- MODULE AgentReconcile ---------------------------
(***************************************************************************)
(* The nft-agent daemon's owner-segmented ruleset: the "panel" segment the *)
(* panel pushes and the "tui" segment edited over the local unix socket.   *)
(* Every writer goes through reconcileOwners, which                        *)
(*                                                                         *)
(*   1. snapshots owners and lastResolved under d.mu, then unlocks,        *)
(*   2. mutates the private copy and merges the segments,                  *)
(*   3. resolves host names,                                               *)
(*   4. applies the resolvable rules to the data plane under reconcileMu,  *)
(*      unless they equal the snapshot of lastResolved,                    *)
(*   5. re-locks d.mu, saves state.json, installs owners, meta,            *)
(*      lastResolved.                                                      *)
(*                                                                         *)
(* Steps 1+2, 3, 4 and 5 are one action each, so that the writers of       *)
(* different goroutines interleave exactly where the code holds no lock.   *)
(* A segment is a set of rules: the code keeps slices, but their order is  *)
(* fixed by the sender and no property depends on it.                      *)
(***************************************************************************)
EXTENDS FiniteSets

CONSTANTS
  Rules,           \* the rules a segment may hold
  LocalRules,      \* those a local user may create through the unix socket
  KeyOf,           \* Rules -> the (proto, listen port) key a rule claims
  HostOf,          \* Rules -> the target host of a rule
  Userspace,       \* the rules relayed by the agent process (mode userspace)
  Hosts,           \* target hosts
  Names,           \* the hosts that are DNS names, whose answer may change
  Addrs, NoAddr,   \* resolver answers, and "no answer"
  Revs, NoRev,     \* panel revisions, and the empty revision
  Payload,         \* Revs -> the panel rules hashed to that revision
  Imported,        \* segments a first start may import from legacy files
  DialerThreads,   \* the dialer's serve loop (pushes, clear after migration)
  ApplyThreads,    \* POST /v1/apply handlers (the panel's own daemon)
  EditThreads,     \* POST/PUT/DELETE /v1/rules handlers
  RefreshThreads,  \* the DNS refresh loop
  ConnectModes,    \* values of "connectURL is set" a start may find
  Faults           \* which of "save", "apply", "crash", "power" may happen

Threads == DialerThreads \cup ApplyThreads \cup EditThreads \cup RefreshThreads

Answer == Addrs \cup {NoAddr}
Segments == [panel : SUBSET Rules, tui : SUBSET Rules]
Resolved == SUBSET (Rules \X Addrs)
StateFile == [owners : Segments, rev : Revs \cup {NoRev}]

ASSUME RulesAssumption ==
  /\ LocalRules \subseteq Rules
  /\ HostOf \in [Rules -> Hosts]
  /\ Names \subseteq Hosts
  /\ NoAddr \notin Addrs
  /\ NoRev \notin Revs
  /\ Payload \in [Revs -> SUBSET Rules]
  /\ ConnectModes \subseteq BOOLEAN

\* An import is saved unchecked. One whose files claim a port twice makes
\* every later Bootstrap fail, so that none of what follows ever runs.
ASSUME ImportedAssumption ==
  /\ Imported \subseteq [panel : SUBSET Rules, tui : SUBSET Rules]
  /\ \A o \in Imported : o.panel \cap o.tui = {}
  /\ \A o \in Imported : \A r, s \in o.panel \cup o.tui :
       KeyOf[r] = KeyOf[s] => r = s

\* The dialer's serve loop and the refresh loop serve one purpose each; a
\* goroutine of the unix-socket server handles whatever request comes.
ASSUME ThreadsAssumption ==
  /\ DialerThreads \cap (ApplyThreads \cup EditThreads \cup RefreshThreads) = {}
  /\ RefreshThreads \cap (ApplyThreads \cup EditThreads) = {}

VARIABLES
  phase,         \* "down", "booting" or "up": the agent process
  connectURL,    \* TRUE iff this process was started with a panel URL
  session,       \* Dialer.connected: a panel session is established
  owners,        \* Daemon.owners, the segments in memory
  rev,           \* Daemon.meta.LastAppliedRev
  lastResolved,  \* Daemon.lastResolved
  disk,          \* state.json as the process reads it back
  flushed,       \* state.json as it survives a loss of power (no fsync)
  kernel,        \* what the data plane forwards: rule and target address
  answers,       \* what the resolver answers for each host now
  work           \* per thread, its reconcileOwners call in progress

memory == <<owners, rev, lastResolved>>
storage == <<disk, flushed>>
process == <<phase, connectURL, session>>
vars == <<process, memory, storage, kernel, answers, work>>

NoSegments == [panel |-> {}, tui |-> {}]
EmptyState == [owners |-> NoSegments, rev |-> NoRev]

\* A call in progress. snapshot is what it read, candidate what it will
\* install, newRev the revision metaFn records (NoRev: leave it alone).
Call == [pc : {"resolve", "apply", "commit"}, snapshot : Segments,
         prev : Resolved, candidate : Segments, applyable : Resolved,
         newRev : Revs \cup {NoRev}, saveToDisk : BOOLEAN]
Idle == [pc |-> "idle"]

AllRules(o) == o.panel \cup o.tui

\* No two rules of the segments claim the same key.
ConflictFree(o) ==
  /\ o.panel \cap o.tui = {}
  /\ \A r, s \in AllRules(o) : KeyOf[r] = KeyOf[s] => r = s

\* Mutant: collisions are looked for within one owner only.
MergedRulesetPerOwner(o) ==
  \A seg \in {o.panel, o.tui} :
    \A r, s \in seg : KeyOf[r] = KeyOf[s] => r = s

\* MergedRuleset flattens the segments and refuses a key claimed twice.
MergedRuleset(o) == ConflictFree(o)

\* Mutant: unresolved rules are handed to the data plane as they are.
ApplyableUnresolved(rs, ans) ==
  {x \in rs \X Answer : x[2] = ans[HostOf[x[1]]]}

\* The rules that resolve, each with its address; the rest is held back.
Applyable(rs, ans) ==
  {x \in rs \X Addrs : x[2] = ans[HostOf[x[1]]]}

\* Mutant: the comparison leaves the resolved address out.
RulesDifferNoAddr(a, b) == {x[1] : x \in a} # {x[1] : x \in b}

RulesDiffer(a, b) == a # b

OneTarget(plane) ==
  \A x, y \in plane : KeyOf[x[1]] = KeyOf[y[1]] => x = y

\* What a failed apply can leave of old and new rules. The nft table is the
\* old one. Of the relays, those of new rules whose port could be bound stay
\* open, and rolling back after nft failed may not get every port back. A port
\* has one relay, and what nft redirects does not reach it.
HalfApplied(old, new) ==
  LET relays == {x \in old \cup new : x[1] \in Userspace}
  IN {plane \in {(old \ relays) \cup open : open \in SUBSET relays} : OneTarget(plane)}

-----------------------------------------------------------------------------
\* No process yet; state.json is absent or just imported from legacy files.
Init ==
  /\ phase = "down"
  /\ connectURL \in ConnectModes
  /\ session = FALSE
  /\ owners = NoSegments
  /\ rev = NoRev
  /\ lastResolved = {}
  /\ disk \in {EmptyState} \cup {[owners |-> o, rev |-> NoRev] : o \in Imported}
  /\ flushed = disk
  /\ kernel = {}
  /\ answers \in [Hosts -> Answer]
  /\ \A h \in Hosts \ Names : answers[h] # NoAddr
  /\ work = [t \in Threads |-> Idle]

(***************************************************************************)
(* Start and Bootstrap                                                     *)
(***************************************************************************)

\* Mutant: the downgrade keeps the panel's revision.
DowngradeKeepsRev(s) ==
  [owners |-> [panel |-> {}, tui |-> s.owners.tui \cup s.owners.panel],
   rev |-> s.rev]

\* Bootstrap without a panel URL moves the panel segment to "tui" and forgets
\* the revision, so that the rules keep working standalone.
Downgrade(s) ==
  [owners |-> [panel |-> {}, tui |-> s.owners.tui \cup s.owners.panel],
   rev |-> NoRev]

\* Bootstrap up to the point where state.json has been read, and rewritten
\* by the downgrade; a failed rewrite or a conflict ends the process.
BootstrapLoad(url) ==
  LET down == ~url /\ disk.owners.panel # {}
      loaded == IF down THEN Downgrade(disk) ELSE disk
  IN /\ phase = "down"
     /\ connectURL' = url
     /\ disk' = loaded
     /\ phase' = IF MergedRuleset(loaded.owners) THEN "booting" ELSE "down"
     /\ UNCHANGED <<session, memory, flushed, kernel, answers, work>>

\* The rest of Bootstrap: resolve, apply if anything resolved, fill memory.
BootstrapApply ==
  LET ok == Applyable(AllRules(disk.owners), answers)
  IN /\ phase = "booting"
     /\ kernel' = IF ok # {} THEN ok ELSE kernel
     /\ owners' = disk.owners
     /\ rev' = disk.rev
     /\ lastResolved' = ok
     /\ phase' = "up"
     /\ UNCHANGED <<connectURL, session, storage, answers, work>>

BootstrapApplyFails ==
  /\ "apply" \in Faults
  /\ phase = "booting"
  /\ Applyable(AllRules(disk.owners), answers) # {}
  /\ phase' = "down"
  /\ UNCHANGED <<connectURL, session, memory, storage, kernel, answers, work>>

(***************************************************************************)
(* reconcileOwners                                                         *)
(***************************************************************************)

\* Snapshot, mutate and merge; a merge conflict returns with no effect.
Begin(t, candidate, newRev, save) ==
  /\ phase = "up"
  /\ work[t].pc = "idle"
  /\ MergedRuleset(candidate)
  /\ work' = [work EXCEPT ![t] =
       [pc |-> "resolve", snapshot |-> owners, prev |-> lastResolved,
        candidate |-> candidate, applyable |-> {},
        newRev |-> newRev, saveToDisk |-> save]]
  /\ UNCHANGED <<process, memory, storage, kernel, answers>>

\* An apply_ruleset frame of revision r.
PanelPush(t, r) ==
  /\ t \in DialerThreads
  /\ session
  /\ Begin(t, [owners EXCEPT !.panel = Payload[r]], r, TRUE)

\* POST /v1/apply carries rules but no revision.
LocalApply(t, r) ==
  /\ t \in ApplyThreads
  /\ Begin(t, [owners EXCEPT !.panel = Payload[r]], NoRev, TRUE)

\* OnMigrated: the panel took over the local rules. Runs on the dialer's
\* goroutine during the handshake, before the session counts as connected.
ClearTuiSegment(t) ==
  /\ t \in DialerThreads
  /\ connectURL /\ ~session
  /\ owners.tui # {}
  /\ Begin(t, [owners EXCEPT !.tui = {}], NoRev, TRUE)

\* Rules are created here only while no session is up (else the panel does);
\* rules with a local id are updated and deleted here at any time, and an
\* unknown id still commits the unchanged copy before it answers 404.
CreateRule(t, r) ==
  /\ t \in EditThreads
  /\ ~session
  /\ r \in LocalRules \ owners.tui
  /\ Begin(t, [owners EXCEPT !.tui = @ \cup {r}], NoRev, TRUE)

UpdateRule(t, old, new) ==
  /\ t \in EditThreads
  /\ old \in owners.tui
  /\ new \in (LocalRules \ owners.tui) \cup {old}
  /\ Begin(t, [owners EXCEPT !.tui = (@ \ {old}) \cup {new}], NoRev, TRUE)

DeleteRule(t, r) ==
  /\ t \in EditThreads
  /\ Begin(t, [owners EXCEPT !.tui = @ \ {r}], NoRev, TRUE)

\* A tick of refreshLoop. dnsInterval always yields a positive interval: what
\* does not parse, and zero, fall through to the default of 60 s.
RefreshOnce(t) ==
  /\ t \in RefreshThreads
  /\ Begin(t, owners, NoRev, FALSE)

\* Resolution is best effort. If the outcome equals the snapshot of
\* lastResolved, a refresh is over and a writer skips the apply.
Resolve(t) ==
  LET c == work[t]
      ok == Applyable(AllRules(c.candidate), answers)
  IN /\ c.pc = "resolve"
     /\ work' = [work EXCEPT ![t] =
          IF RulesDiffer(c.prev, ok) THEN [c EXCEPT !.pc = "apply", !.applyable = ok]
          ELSE IF c.saveToDisk
               THEN [c EXCEPT !.pc = "commit", !.applyable = ok]
               ELSE Idle]
     /\ UNCHANGED <<process, memory, storage, kernel, answers>>

\* applySerialized: one data-plane replacement, atomic under reconcileMu.
Apply(t) ==
  /\ work[t].pc = "apply"
  /\ kernel' = work[t].applyable
  /\ work' = [work EXCEPT ![t].pc = "commit"]
  /\ UNCHANGED <<process, memory, storage, answers>>

ApplyFails(t) ==
  /\ "apply" \in Faults
  /\ work[t].pc = "apply"
  /\ kernel' \in HalfApplied(kernel, work[t].applyable)
  /\ work' = [work EXCEPT ![t] = Idle]
  /\ UNCHANGED <<process, memory, storage, answers>>

\* The metadata is read back at commit, unlike the segments.
CommitRev(c) == IF c.newRev # NoRev THEN c.newRev ELSE rev

Commit(t) ==
  LET c == work[t]
  IN /\ c.pc = "commit"
     /\ disk' = IF c.saveToDisk
                THEN [owners |-> c.candidate, rev |-> CommitRev(c)]
                ELSE disk
     /\ owners' = c.candidate
     /\ rev' = CommitRev(c)
     /\ lastResolved' = c.applyable
     /\ work' = [work EXCEPT ![t] = Idle]
     /\ UNCHANGED <<process, flushed, kernel, answers>>

\* Mutant: meta is updated in place, before the save that then fails.
SaveFailsAfterMeta(t) ==
  /\ "save" \in Faults
  /\ work[t].pc = "commit" /\ work[t].saveToDisk
  /\ rev' = CommitRev(work[t])
  /\ work' = [work EXCEPT ![t] = Idle]
  /\ UNCHANGED <<process, owners, lastResolved, storage, kernel, answers>>

SaveFails(t) ==
  /\ "save" \in Faults
  /\ work[t].pc = "commit" /\ work[t].saveToDisk
  /\ work' = [work EXCEPT ![t] = Idle]
  /\ UNCHANGED <<process, memory, storage, kernel, answers>>

(***************************************************************************)
(* Environment: the panel session, DNS, crashes                            *)
(***************************************************************************)
Connect ==
  /\ phase = "up" /\ connectURL /\ ~session
  /\ \A t \in DialerThreads : work[t].pc = "idle"
  /\ session' = TRUE
  /\ UNCHANGED <<phase, connectURL, memory, storage, kernel, answers, work>>

\* The serve loop notices a dead connection between two frames.
Disconnect ==
  /\ session
  /\ \A t \in DialerThreads : work[t].pc = "idle"
  /\ session' = FALSE
  /\ UNCHANGED <<phase, connectURL, memory, storage, kernel, answers, work>>

DnsChange(h, a) ==
  /\ h \in Names /\ a # answers[h]
  /\ answers' = [answers EXCEPT ![h] = a]
  /\ UNCHANGED <<process, memory, storage, kernel, work>>

Stopped ==
  /\ phase' = "down"
  /\ session' = FALSE
  /\ owners' = NoSegments
  /\ rev' = NoRev
  /\ lastResolved' = {}
  /\ work' = [t \in Threads |-> Idle]
  /\ UNCHANGED <<connectURL, answers>>

\* The process dies (or is stopped): its relays go, the nft table stays.
Crash ==
  /\ "crash" \in Faults
  /\ phase # "down"
  /\ Stopped
  /\ kernel' = {x \in kernel : x[1] \notin Userspace}
  /\ UNCHANGED storage

\* The host dies: nothing unflushed is certain to survive.
PowerLoss ==
  /\ "power" \in Faults
  /\ Stopped
  /\ kernel' = {}
  /\ disk' \in {disk, flushed}
  /\ flushed' = disk'

WriteBack ==
  /\ "power" \in Faults
  /\ flushed # disk
  /\ flushed' = disk
  /\ UNCHANGED <<process, memory, disk, kernel, answers, work>>

-----------------------------------------------------------------------------
Edit(t) ==
  \/ \E r \in Rules : CreateRule(t, r) \/ DeleteRule(t, r)
  \/ \E old, new \in Rules : UpdateRule(t, old, new)

StartCall(t) ==
  \/ \E r \in Revs : PanelPush(t, r) \/ LocalApply(t, r)
  \/ ClearTuiSegment(t)
  \/ Edit(t)
  \/ RefreshOnce(t)

Continue(t) ==
  \/ Resolve(t) \/ Apply(t) \/ ApplyFails(t) \/ Commit(t) \/ SaveFails(t)

Environment ==
  \/ Connect \/ Disconnect
  \/ \E h \in Names, a \in Answer : DnsChange(h, a)
  \/ Crash \/ PowerLoss \/ WriteBack

Next ==
  \/ \E url \in ConnectModes : BootstrapLoad(url)
  \/ BootstrapApply \/ BootstrapApplyFails
  \/ \E t \in Threads : StartCall(t) \/ Continue(t)
  \/ Environment

Spec == Init /\ [][Next]_vars

\* A started goroutine keeps running, and systemd restarts the process. The
\* refresh loop's ticker starts a refresh again and again.
Fairness ==
  /\ \A url \in ConnectModes : WF_vars(BootstrapLoad(url))
  /\ WF_vars(BootstrapApply)
  /\ \A t \in Threads :
       WF_vars(Resolve(t)) /\ WF_vars(Apply(t)) /\ WF_vars(Commit(t))
  /\ \A t \in RefreshThreads : WF_vars(RefreshOnce(t))

FairSpec == Spec /\ Fairness

-----------------------------------------------------------------------------
TypeOK ==
  /\ phase \in {"down", "booting", "up"}
  /\ connectURL \in BOOLEAN
  /\ session \in BOOLEAN
  /\ owners \in Segments
  /\ rev \in Revs \cup {NoRev}
  /\ lastResolved \in Resolved
  /\ disk \in StateFile
  /\ flushed \in StateFile
  /\ kernel \in Resolved
  /\ answers \in [Hosts -> Answer]
  /\ work \in [Threads -> Call \cup {Idle}]

\* Bootstrap refuses to start on a state file whose segments conflict
\* (daemon.go: "persisted state has conflict"), so no sequence of calls,
\* crashes and downgrades may ever leave such a file behind.
Bootable == ConflictFree(disk.owners) /\ ConflictFree(flushed.owners)

\* The data plane never forwards one (proto, port) to two targets, whatever
\* the order in which concurrent calls reach applySerialized.
OneTargetPerKey == OneTarget(kernel)

\* The revision reported in hello is one a restart would report too: memory
\* never runs ahead of state.json, not even when a save fails.
RevPersisted == phase = "up" => rev = disk.rev

\* A state file that names a revision holds that revision's panel rules, so
\* that the panel may skip the push to a restarted agent (agentmeta.go:
\* "contents the daemon already has on disk").
DiskHonest ==
  disk.rev # NoRev => disk.owners.panel = Payload[disk.rev]

\* The same for the copy in memory, which is what forwards traffic and what a
\* reconnect without restart reports.
MemoryHonest ==
  phase = "up" /\ rev # NoRev => owners.panel = Payload[rev]

\* The segments in memory are those on disk while targets are literal: a
\* refresh then changes nothing, and a failed save leaves both as they were.
MemoryIsDisk == phase = "up" => owners = disk.owners

\* Once DNS, the segments and the process stay put, the refresh loop brings
\* the data plane to what the segments resolve to, and it stays there.
RefreshConverges ==
  (<>[](phase = "up") /\ <>[][FALSE]_<<answers, owners>>)
    => <>[](kernel = Applyable(AllRules(owners), answers))
=============================================================================
