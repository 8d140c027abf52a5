----------------------------- MODULE ProxyCores -----------------------------
(***************************************************************************)
(* The proxy cores an agent runs for the panel. An instance of xray or of  *)
(* sing-box is a process of its own, which a watchdog restarts; all mieru  *)
(* instances share the mita daemon, whose configuration is the union of    *)
(* theirs. Requests run in goroutines of their own, next to the watchdog,  *)
(* and next to the sampler of the traffic the cores have carried.          *)
(*                                                                         *)
(* Files, processes and the daemon survive the agent. The binaries are     *)
(* there; a process is killed when it is told to stop; one that finds its  *)
(* port taken exits at once. A pid that a file names is not reused. mieru  *)
(* is not metered: the window its totals cover slides.                     *)
(***************************************************************************)
EXTENDS Integers, FiniteSets, Functions, SequencesExt, TLC

CONSTANTS
  Insts,            \* instance ids
  Core,             \* Insts -> {"xray", "sing-box", "mieru"}
  Cfgs,             \* what an instance file may hold
  Bad, Mute,        \* configs the core refuses; ones it starts without listening
  PortOf, NameOf,   \* of a config; of the account of a mieru config
  Wants,            \* <<instance, config>> the panel may ask for
  Strangers,        \* what other programs may have: ports and mita configs
  Reqs,             \* requests that may be in progress at once
  Kinds, Plans      \* bound: how often each kind of event happens, a core
                    \* standing for requests to run it, "meet" for whether
                    \* requests may disturb each other

None == "none"
Halted == "halted"
Watch == "watch"
Goroutines == Reqs \union {Watch}
\* Bound: processes and pid files at once.
Pids == 1 .. 2 * Cardinality(Insts) + Cardinality(Goroutines)
Single == {i \in Insts : Core[i] # "mieru"}
Shared == Insts \ Single
Missing == {None}

ASSUME ProxyCoresAssumption ==
  /\ Insts \subseteq Nat \ {0} /\ None \notin Cfgs /\ Watch \notin Reqs
  /\ Bad \union Mute \subseteq Cfgs /\ Wants \subseteq Insts \X Cfgs
  /\ Plans \subseteq [Kinds -> Nat]

VARIABLES
  file,     \* instance-N.json, None when there is none
  pidfile,  \* instance-N.pid, 0 when there is none
  runspec,  \* instances with a runspec on disk
  procs,    \* pid -> the core that runs under it
  foreign,  \* ports another program listens on
  spec,     \* coreWatch.spec
  recent,   \* instances restarted less than a backoff ago, however long
            \* failN makes it
  todo,     \* what is left of the watchdog's snapshot
  desired,  \* desired.json, Missing when there is none
  mita,     \* the daemon: its configs, whether it listens
  thr,      \* Threads -> what they are at
  cum,      \* traffic an instance's core has counted
  last, based, pending,  \* proxyStatsState; a cursor is 0 when there is none
  flying,   \* pendingProxyCounters: batches the panel has not answered
  ledger,   \* traffic of each instance: all of it, and what the panel has booked
  acked,    \* ghost: last config the panel was told is running, or Halted
  torn,     \* ghost: instances since whose last request that nothing refused,
            \* interrupted or overlapped something has
  lossy,    \* ghost: instances with traffic no sample can hold any more
  left      \* what remains of the plan

onDisk == <<file, pidfile, runspec, desired>>
host == <<procs, foreign, mita>>
watch == <<spec, recent, todo>>
meter == <<last, based, pending, flying>>
told == <<acked, torn>>
coreVars == <<onDisk, host, watch, meter, told, thr, cum, ledger, lossy, left>>

Has(kind) == left[kind] > 0
Use(kind) == Has(kind) /\ left' = [left EXCEPT ![kind] = @ - 1]

NoCore == [i |-> 0, c |-> None]
NoJob == [pc |-> "idle", i |-> 0, c |-> None, pid |-> 0, form |-> 1, u |-> {},
          same |-> FALSE, clean |-> TRUE]
At(t, pc) == thr[t].pc = pc
Goto(t, pc) == thr' = [thr EXCEPT ![t].pc = pc]
Ends(t) == thr' = [thr EXCEPT ![t] = NoJob]

\* All mieru instances are one, as far as requests disturb each other.
With(i) == IF i \in Shared THEN Shared ELSE {i}
Busy(i) == {t \in Goroutines : ~At(t, "idle") /\ thr[t].i \in With(i)}
BeginJob(t, job) ==
  /\ Busy(job.i) \subseteq {Watch} \/ Has("meet")
  /\ torn' = IF Busy(job.i) = {} THEN torn ELSE torn \union With(job.i)
  /\ thr' = [x \in Goroutines |-> IF x = t THEN [job EXCEPT !.clean = Busy(job.i) = {}]
                                  ELSE [thr[x] EXCEPT !.clean = @ /\ x \notin Busy(job.i)]]

Alive(p) == p # 0 /\ procs[p] # NoCore
Binds(p, port) == Alive(p) /\ procs[p].c \notin Mute /\ PortOf[procs[p].c] = port
Taken(port) == port \in foreign \/ \E p \in Pids : Binds(p, port)
Orphans(i) == {p \in Pids : Alive(p) /\ procs[p].i = i /\ pidfile[i] # p}

\* What is still to be booked of an instance: traffic its core counted and no
\* sample holds. A counter that fell by more than half was reset, one that
\* fell less is taken to have slid.
Delta(i) == IF cum[i] >= last[i] THEN cum[i] - last[i]
            ELSE IF cum[i] * 2 < last[i] THEN cum[i] ELSE 0
Flying(i) == SumFunctionOnSet([n \in DOMAIN flying |-> flying[n][i]], DOMAIN flying)

\* The core under an instance's pid file is another one: counters start from
\* zero with it.
Renewed(S) ==
  /\ cum' = [i \in Insts |-> IF i \in S THEN 0 ELSE cum[i]]
  /\ lossy' = lossy \union {i \in S \intersect based : cum[i] # last[i] \/ Flying(i) > 0}
Kill(S) ==
  /\ procs' = [p \in Pids |-> IF p \in S THEN NoCore ELSE procs[p]]
  /\ Renewed({i \in Insts : pidfile[i] \in S})

\* What occupies a port goes, but for the processes the pid files name.
panelManagedListenPIDs == Range(pidfile)
pidsListeningOnPort(port) == {p \in Pids : Binds(p, port)}
evictForeignListeners(port) ==
  Kill(pidsListeningOnPort(port) \ panelManagedListenPIDs) /\ foreign' = foreign \ {port}

sameCoreConfigFile(i, c) == file[i] = c

CoresInit ==
  /\ file = [i \in Insts |-> None] /\ pidfile = [i \in Insts |-> 0]
  /\ runspec = {} /\ spec = {} /\ procs = [p \in Pids |-> NoCore]
  /\ recent = {} /\ todo = {}
  /\ desired = Missing
  /\ \E S \in {Strangers, {}} :
       /\ foreign = {s.port : s \in S} /\ mita = [users |-> {s.cfg : s \in S}, listening |-> FALSE]
  /\ thr = [t \in Goroutines |-> NoJob]
  /\ cum = [i \in Insts |-> 0] /\ last = cum /\ pending = cum /\ based = {}
  /\ flying = <<>> /\ ledger = [i \in Insts |-> [all |-> 0, booked |-> 0]] /\ lossy = {}
  /\ acked = [i \in Insts |-> None] /\ torn = Shared
  /\ left \in Plans

-----------------------------------------------------------------------------
(* The watchdog's registry *)

writeRunSpec(i) == runspec' = runspec \union {i} /\ spec' = spec \union {i}

removeRunSpec(i) ==
  runspec' = runspec \ {i} /\ spec' = spec \ {i} /\ recent' = recent \ {i}

\* Mutant: the watchdog starts with what it is told to run from then on.
NoAdoption == spec' = {}

loadRunSpecsFromDisk == spec' = runspec

(* Replacing a process: shared by a deploy and by the watchdog *)

\* Mutant: the old process is left to exit when its port is taken.
KillNone(t) ==
  /\ At(t, "kill")
  /\ Goto(t, IF pidfile[thr[t].i] = 0 THEN "start" ELSE "unpid")
  /\ UNCHANGED <<onDisk, host, watch, meter, told, cum, ledger, lossy, left>>

\* killPIDFileOnly ends the process, and removes the pid file afterwards.
KillOld(t) ==
  /\ At(t, "kill")
  /\ Kill({pidfile[thr[t].i]} \ {0})
  /\ Goto(t, IF pidfile[thr[t].i] = 0 THEN "start" ELSE "unpid")
  /\ UNCHANGED <<onDisk, foreign, mita, watch, meter, told, ledger, left>>

RemovePid(t) ==
  /\ At(t, "unpid")
  /\ pidfile' = [pidfile EXCEPT ![thr[t].i] = 0]
  /\ Goto(t, "start")
  /\ UNCHANGED <<file, runspec, desired, host, watch, meter, told, cum, ledger, lossy, left>>

FreePids == {p \in Pids : ~Alive(p)} \ (Range(pidfile) \union {thr[t].pid : t \in Goroutines})
FreePid == CHOOSE p \in FreePids : TRUE
Startable(i) == file[i] \notin Bad \union {None}

\* The process reads the instance file as it starts.
restartDetachedTracked(t) ==
  LET i == thr[t].i
      p == FreePid
      lives == Startable(i) /\ (file[i] \in Mute \/ ~Taken(PortOf[file[i]]))
  IN /\ At(t, "start") /\ FreePids # {}
     /\ procs' = IF lives THEN [procs EXCEPT ![p] = [i |-> i, c |-> file[i]]] ELSE procs
     /\ pidfile' = [pidfile EXCEPT ![i] = p] /\ Renewed({i})
     /\ thr' = [thr EXCEPT ![t].pc = "settle", ![t].pid = p]
     /\ UNCHANGED <<file, runspec, desired, foreign, mita, watch, meter, told, ledger, left>>

Settled(t) ==
  /\ At(t, "settle") /\ Alive(thr[t].pid)
  /\ thr' = [thr EXCEPT ![t].pc = "record", ![t].pid = 0]
  /\ UNCHANGED <<onDisk, host, watch, meter, told, cum, ledger, lossy, left>>

-----------------------------------------------------------------------------
(* The watchdog *)

snapshot == spec

tick ==
  /\ At(Watch, "idle") /\ todo = {}
  /\ snapshot # {} /\ todo' = snapshot
  /\ UNCHANGED <<onDisk, host, spec, recent, meter, told, thr, cum, ledger, lossy, left>>

\* Mutant: an instance without a pid file is left alone.
ensurePidFile(i) ==
  /\ At(Watch, "idle") /\ i \in todo /\ todo' = todo \ {i}
  /\ IF pidfile[i] = 0 \/ Alive(pidfile[i]) \/ i \in recent
     THEN UNCHANGED <<recent, thr, torn>>
     ELSE /\ recent' = recent \union {i}
          /\ BeginJob(Watch, [NoJob EXCEPT !.pc = "kill", !.i = i])
  /\ UNCHANGED <<onDisk, host, spec, meter, acked, cum, ledger, lossy, left>>

ensure(i) ==
  /\ At(Watch, "idle") /\ i \in todo /\ todo' = todo \ {i}
  /\ IF Alive(pidfile[i]) \/ i \in recent
     THEN UNCHANGED <<recent, thr, torn>>
     ELSE /\ recent' = recent \union {i}
          /\ BeginJob(Watch, [NoJob EXCEPT !.pc = "kill", !.i = i])
  /\ UNCHANGED <<onDisk, host, spec, meter, acked, cum, ledger, lossy, left>>

\* A backoff passes.
Later(i) ==
  /\ i \in recent /\ recent' = recent \ {i}
  /\ UNCHANGED <<onDisk, host, spec, todo, meter, told, thr, cum, ledger, lossy, left>>

\* The watchdog's restart succeeded: it registers the recipe it had read.
Revive ==
  /\ At(Watch, "record")
  /\ writeRunSpec(thr[Watch].i)
  /\ thr' = [thr EXCEPT ![Watch] = NoJob]
  /\ UNCHANGED <<file, pidfile, desired, host, recent, todo, meter, told, cum, ledger, lossy, left>>

ReviveFails ==
  /\ At(Watch, "settle") /\ ~Alive(thr[Watch].pid)
  /\ thr' = [thr EXCEPT ![Watch] = NoJob]
  /\ UNCHANGED <<onDisk, host, watch, meter, told, cum, ledger, lossy, left>>

-----------------------------------------------------------------------------
(* A deploy of xray or sing-box *)

Acked(i, c) == acked' = [acked EXCEPT ![i] = c]

handleProxyServiceApply(t, i, c) ==
  /\ t # Watch /\ At(t, "idle") /\ Use(Core[i]) /\ <<i, c>> \in Wants
  /\ evictForeignListeners(PortOf[c])
  /\ BeginJob(t, [NoJob EXCEPT !.pc = IF i \in Shared THEN "fragment" ELSE "compare", !.i = i, !.c = c])
  /\ UNCHANGED <<onDisk, mita, watch, meter, acked, ledger>>

\* A config that is on disk already, with the process alive, is not bounced.
DeployUnchanged(t) ==
  LET i == thr[t].i IN
  /\ At(t, "compare") /\ sameCoreConfigFile(i, thr[t].c) /\ Alive(pidfile[i])
  /\ Acked(i, thr[t].c) /\ Ends(t)
  /\ UNCHANGED <<onDisk, host, watch, meter, torn, cum, ledger, lossy, left>>

DeployWrite(t) ==
  LET i == thr[t].i IN
  /\ At(t, "compare") /\ ~(sameCoreConfigFile(i, thr[t].c) /\ Alive(pidfile[i]))
  /\ file' = [file EXCEPT ![i] = thr[t].c]
  /\ Goto(t, "test")
  /\ UNCHANGED <<pidfile, runspec, desired, host, watch, meter, told, cum, ledger, lossy, left>>

\* A config the core refuses stays on disk, under the process that runs.
DeployTest(t) ==
  LET i == thr[t].i IN
  /\ At(t, "test")
  /\ IF thr[t].c \in Bad
     THEN Acked(i, None) /\ Ends(t) /\ torn' = torn \union {i} /\ UNCHANGED <<procs, foreign, cum, lossy>>
     ELSE /\ evictForeignListeners(PortOf[thr[t].c])
          /\ Goto(t, "kill") /\ UNCHANGED told
  /\ UNCHANGED <<onDisk, mita, watch, meter, ledger, left>>

restartDetached(t) ==
  /\ t # Watch /\ At(t, "record")
  /\ writeRunSpec(thr[t].i)
  /\ Goto(t, "listen")
  /\ UNCHANGED <<file, pidfile, desired, host, recent, todo, meter, told, cum, ledger, lossy, left>>

\* xray is tried once more, with the older form of its flags.
StartFails(t) ==
  LET i == thr[t].i IN
  /\ t # Watch /\ At(t, "settle") /\ ~Alive(thr[t].pid)
  /\ IF Core[i] = "xray" /\ thr[t].form = 1
     THEN thr' = [thr EXCEPT ![t].pc = "kill", ![t].pid = 0, ![t].form = 2] /\ UNCHANGED told
     ELSE /\ Ends(t) /\ Acked(i, None) /\ torn' = torn \union {i}
  /\ UNCHANGED <<onDisk, host, watch, meter, cum, ledger, lossy, left>>

waitListenHint(t) ==
  LET i == thr[t].i IN
  /\ At(t, "listen")
  /\ IF Taken(PortOf[thr[t].c])
     THEN /\ Acked(i, thr[t].c) /\ Ends(t)
          /\ torn' = IF ~thr[t].clean THEN torn \union {i}
                     ELSE IF Orphans(i) = {} THEN torn \ {i} ELSE torn
     ELSE Acked(i, None) /\ thr' = [thr EXCEPT ![t].pc = "stop", ![t].c = None] /\ UNCHANGED torn
  /\ UNCHANGED <<onDisk, host, watch, meter, cum, ledger, lossy, left>>

-----------------------------------------------------------------------------
(* Stopping: at the end of a deploy that did not listen (c is None) or on a *)
(* request of the panel (form is 2).                                        *)

handleProxyServiceStop(t, i) ==
  /\ t # Watch /\ At(t, "idle") /\ Use("stop") /\ file[i] # None
  /\ Acked(i, None)
  /\ BeginJob(t, [NoJob EXCEPT !.pc = IF i \in Shared THEN "unfile" ELSE "stop", !.i = i, !.form = 2])
  /\ UNCHANGED <<onDisk, host, watch, meter, cum, ledger, lossy>>

StopUnregister(t) ==
  /\ At(t, "stop")
  /\ removeRunSpec(thr[t].i)
  /\ Goto(t, "stopkill")
  /\ UNCHANGED <<file, pidfile, desired, host, todo, meter, told, cum, ledger, lossy, left>>

StopKill(t) ==
  /\ At(t, "stopkill")
  /\ Kill({pidfile[thr[t].i]} \ {0})
  /\ Goto(t, "stopped")
  /\ UNCHANGED <<onDisk, foreign, mita, watch, meter, told, ledger, left>>

stopPIDFile(t) ==
  /\ At(t, "stopped")
  /\ pidfile' = [pidfile EXCEPT ![thr[t].i] = 0]
  /\ IF thr[t].form = 2 THEN Goto(t, "unfile") /\ UNCHANGED acked
     ELSE Ends(t) /\ Acked(thr[t].i, Halted)
  /\ UNCHANGED <<file, runspec, desired, host, watch, meter, torn, cum, ledger, lossy, left>>

StopFiles(t) ==
  LET i == thr[t].i IN
  /\ At(t, "unfile")
  /\ file' = [file EXCEPT ![i] = None]
  /\ IF i \in Shared THEN Goto(t, "reunite") /\ UNCHANGED acked
     ELSE Ends(t) /\ Acked(i, Halted)
  /\ UNCHANGED <<pidfile, runspec, desired, host, watch, meter, torn, cum, ledger, lossy, left>>

-----------------------------------------------------------------------------
(* mieru: the fragments of all instances are one configuration *)

\* Of the accounts with one name the last instance's stays.
mergeMitaInstanceConfigs ==
  {file[i] : i \in {i \in Shared : /\ file[i] # None
                                   /\ \A j \in Shared : file[j] # None /\ NameOf[file[j]] = NameOf[file[i]] => j <= i}}

unionUserNames(u) == {NameOf[c] : c \in u}
mitaHasForeignUsers(u) == u # {} /\ ~(unionUserNames(mita.users) \subseteq unionUserNames(u))
mitaProxyListening == mita.listening
\* The daemon refuses to listen without a configuration.
mitaProxyStart == mita.users # {}

resetMitaStoreForPanelReplace == mita' = [users |-> {}, listening |-> FALSE]

WriteFragment(t) ==
  LET i == thr[t].i IN
  /\ At(t, "fragment")
  /\ thr' = [thr EXCEPT ![t].pc = "merge", ![t].same = sameCoreConfigFile(i, thr[t].c)]
  /\ file' = [file EXCEPT ![i] = thr[t].c]
  /\ UNCHANGED <<pidfile, runspec, desired, host, watch, meter, told, cum, ledger, lossy, left>>

Merge(t) ==
  /\ t # Watch /\ (At(t, "merge") \/ At(t, "reunite"))
  /\ thr' = [thr EXCEPT ![t].pc = IF @ = "merge" THEN "unite" ELSE "rewrite",
                        ![t].u = mergeMitaInstanceConfigs]
  /\ UNCHANGED <<onDisk, host, watch, meter, told, cum, ledger, lossy, left>>

WriteUnion(t) ==
  /\ At(t, "unite")
  /\ thr' = [thr EXCEPT ![t].pc = "live", ![t].same = @ /\ desired = thr[t].u]
  /\ desired' = thr[t].u
  /\ UNCHANGED <<file, pidfile, runspec, host, watch, meter, told, cum, ledger, lossy, left>>

United(t) == torn' = IF thr[t].clean THEN torn \ Shared ELSE torn \union Shared

\* Nothing changed and nobody else is served: at most the listening is begun.
KeepDaemon(t) ==
  /\ At(t, "live") /\ thr[t].same /\ ~mitaHasForeignUsers(thr[t].u)
  /\ LET ok == mitaProxyListening \/ mitaProxyStart
     IN /\ mita' = [mita EXCEPT !.listening = ok]
        /\ Acked(thr[t].i, IF ok THEN thr[t].c ELSE None)
  /\ Ends(t)
  /\ UNCHANGED <<onDisk, procs, foreign, watch, meter, torn, cum, ledger, lossy, left>>

ResetDaemon(t) ==
  /\ \/ At(t, "live") /\ (~thr[t].same \/ mitaHasForeignUsers(thr[t].u)) /\ UNCHANGED desired
     \/ At(t, "rewrite") /\ desired' = IF thr[t].u = {} THEN Missing ELSE thr[t].u
  /\ resetMitaStoreForPanelReplace
  /\ IF thr[t].c = None /\ thr[t].u = {}
     THEN Ends(t) /\ United(t)
     ELSE Goto(t, "push") /\ UNCHANGED torn
  /\ UNCHANGED <<file, pidfile, runspec, procs, foreign, watch, meter, acked, cum, ledger, lossy, left>>

\* `mita apply` reads desired.json, and adds it to what the daemon has.
ApplyUnion(t) ==
  /\ At(t, "push")
  /\ LET u == desired \ Missing
     IN mita' = [mita EXCEPT !.users = {c \in @ : NameOf[c] \notin unionUserNames(u)} \union u]
  /\ Goto(t, "listening")
  /\ UNCHANGED <<onDisk, procs, foreign, watch, meter, told, cum, ledger, lossy, left>>

StartListening(t) ==
  /\ At(t, "listening")
  /\ mita' = [mita EXCEPT !.listening = mitaProxyStart]
  /\ IF thr[t].c = None THEN UNCHANGED acked
     ELSE Acked(thr[t].i, IF mitaProxyStart THEN thr[t].c ELSE None)
  /\ Ends(t)
  /\ United(t)
  /\ UNCHANGED <<onDisk, procs, foreign, watch, meter, cum, ledger, lossy, left>>

\* The daemon cannot be started, refuses the union, or does not listen. A
\* request to stop is answered as if nothing had happened.
MitaFails(t) ==
  /\ At(t, "live") \/ At(t, "push") \/ At(t, "listening")
  /\ Use("fault")
  /\ At(t, "live") => ~(thr[t].same /\ ~mitaHasForeignUsers(thr[t].u) /\ mitaProxyListening)
  /\ IF thr[t].c = None THEN UNCHANGED acked ELSE Acked(thr[t].i, None)
  /\ Ends(t) /\ torn' = torn \union Shared
  /\ UNCHANGED <<onDisk, host, watch, meter, cum, ledger, lossy>>

-----------------------------------------------------------------------------
(* Traffic *)

Traffic(i) ==
  /\ i \in Single /\ Use("traffic") /\ Alive(pidfile[i])
  /\ cum' = [cum EXCEPT ![i] = @ + 1]
  /\ ledger' = [ledger EXCEPT ![i].all = @ + 1]
  \* Not sampled yet, or taken for a slide.
  /\ lossy' = IF i \notin based \/ (cum[i] < last[i] /\ cum'[i] * 2 >= last[i])
              THEN lossy \union {i} ELSE lossy
  /\ UNCHANGED <<onDisk, host, watch, meter, told, thr>>

\* The instances whose core runs; one of them may fail to answer.
listInstanceIDs == {i \in Single : Alive(pidfile[i])}

applyLiveDeltas(live) ==
  LET add == [i \in Insts |-> pending[i] + (IF i \in live \intersect based THEN Delta(i) ELSE 0)]
      gone == {i \in based \ live : pending[i] = 0}
  IN /\ last' = [i \in Insts |-> IF i \in live THEN cum[i] ELSE IF i \in gone THEN 0 ELSE last[i]]
     /\ based' = (based \union live) \ gone
     /\ pending' = [i \in Insts |-> 0]
     /\ lossy' = lossy \union {i \in gone : Delta(i) > 0}
     /\ flying' = IF \A i \in Insts : add[i] = 0 THEN flying ELSE Append(flying, add)

sample ==
  /\ Use("sample")
  /\ \E live \in {listInstanceIDs} \union {listInstanceIDs \ {i} : i \in Insts} : applyLiveDeltas(live)
  /\ UNCHANGED <<onDisk, host, watch, told, thr, cum, ledger>>

\* Mutant: what does not fit below the cursor is dropped.
reAddClamped(batch) ==
  /\ last' = [i \in Insts |-> IF i \in based /\ last[i] > batch[i] THEN last[i] - batch[i] ELSE 0]
  /\ UNCHANGED pending

\* What was not booked goes back below the cursor, or is parked.
reAdd(batch) ==
  /\ last' = [i \in Insts |-> IF i \in based /\ last[i] > batch[i] THEN last[i] - batch[i] ELSE 0]
  /\ pending' = [i \in Insts |-> pending[i] + IF batch[i] > last[i] THEN batch[i] - last[i] ELSE 0]

takePendingProxyCounters(n) == flying' = RemoveAt(flying, n)
Book(batch) == ledger' = [i \in Insts |-> [ledger[i] EXCEPT !.booked = @ + batch[i]]]

\* The panel books a batch, or refuses it; the second also stands for a write
\* that failed.
Answered(n) ==
  /\ takePendingProxyCounters(n)
  /\ \/ Book(flying[n]) /\ UNCHANGED <<last, pending, left>>
     \/ Use("fault") /\ reAdd(flying[n]) /\ UNCHANGED ledger
  /\ UNCHANGED <<onDisk, host, watch, told, thr, based, cum, lossy>>

\* The session ends, or the answer comes too late: booked or not, the batch is
\* forgotten.
Unanswered(n) ==
  /\ Use("fault")
  /\ takePendingProxyCounters(n)
  /\ \/ Book(flying[n]) /\ UNCHANGED lossy
     \/ UNCHANGED ledger /\ lossy' = lossy \union {i \in Insts : flying[n][i] > 0}
  /\ UNCHANGED <<onDisk, host, watch, told, thr, last, based, pending, cum>>

-----------------------------------------------------------------------------
(* Faults *)

CoreDies(p) ==
  /\ Use("crash") /\ Alive(p) /\ Kill({p})
  /\ UNCHANGED <<onDisk, foreign, mita, watch, meter, told, thr, ledger>>

\* The agent starts again: the cores run on, requests do not. Its session has
\* ended before (Unanswered).
Restart ==
  /\ Use("restart") /\ flying = <<>>
  /\ loadRunSpecsFromDisk
  /\ recent' = {} /\ todo' = {}
  /\ thr' = [t \in Goroutines |-> NoJob]
  /\ torn' = torn \union UNION {With(thr[t].i) : t \in {t \in Goroutines : ~At(t, "idle")}}
  /\ last' = [i \in Insts |-> 0] /\ based' = {} /\ pending' = last'
  /\ lossy' = lossy \union {i \in Insts : pending[i] > 0 \/ (i \in based /\ Delta(i) > 0)}
  /\ UNCHANGED <<onDisk, host, flying, acked, cum, ledger>>

-----------------------------------------------------------------------------
Step(t) ==
  \/ KillOld(t) \/ RemovePid(t) \/ restartDetachedTracked(t) \/ Settled(t)
  \/ DeployUnchanged(t) \/ DeployWrite(t) \/ DeployTest(t) \/ restartDetached(t)
  \/ StartFails(t) \/ waitListenHint(t)
  \/ StopUnregister(t) \/ StopKill(t) \/ stopPIDFile(t) \/ StopFiles(t)
  \/ WriteFragment(t) \/ Merge(t) \/ WriteUnion(t) \/ KeepDaemon(t) \/ ResetDaemon(t)
  \/ ApplyUnion(t) \/ StartListening(t)

Watching == tick \/ Revive \/ ReviveFails \/ \E i \in Insts : ensure(i) \/ Later(i)

CoresNext ==
  \/ \E t \in Goroutines : Step(t) \/ MitaFails(t)
  \/ \E t \in Reqs, i \in Insts :
       handleProxyServiceStop(t, i) \/ \E c \in Cfgs : handleProxyServiceApply(t, i, c)
  \/ Watching \/ sample \/ Restart
  \/ \E i \in Insts : Traffic(i)
  \/ \E n \in DOMAIN flying : Answered(n) \/ Unanswered(n)
  \/ \E p \in Pids : CoreDies(p)

CoresSpec == CoresInit /\ [][CoresNext]_coreVars

\* The goroutines run, the watchdog's clock goes on, and it gets to every
\* instance of its snapshot.
FairCoresSpec ==
  /\ CoresSpec /\ \A t \in Goroutines : WF_coreVars(Step(t))
  /\ WF_coreVars(tick) /\ WF_coreVars(Revive \/ ReviveFails)
  /\ \A i \in Insts : WF_coreVars(ensure(i)) /\ WF_coreVars(Later(i))

-----------------------------------------------------------------------------
Amount == [Insts -> Nat]

\* Every variable keeps its shape, the watchdog's registry holds every runspec on
\* disk, and no pid file names a core of another instance.
CoresTypeOK ==
  /\ file \in [Insts -> Cfgs \union {None}] /\ runspec \subseteq spec /\ spec \subseteq Single
  /\ \A i \in Insts : pidfile[i] \in Pids \union {0} /\ (Alive(pidfile[i]) => procs[pidfile[i]].i = i)
  /\ procs \in [Pids -> [i : Insts, c : Cfgs] \union {NoCore}]
  /\ todo \union recent \subseteq Single
  /\ desired = Missing \/ desired \subseteq Cfgs
  /\ {cum, last, pending} \subseteq Amount /\ Range(flying) \subseteq Amount /\ based \subseteq Single

\* What the panel was told runs is what runs, and what the watchdog restarts: no
\* core of an older configuration is left, and what it had stopped does not come back
\* by the watchdog. Not so after a request that was refused or cut off, or that met
\* another one or the watchdog.
OwnCore ==
  \A i \in Single \ torn :
    LET running == {procs[p].c : p \in {p \in Pids : procs[p].i = i}}
    IN Busy(i) \subseteq {Watch} =>
         /\ acked[i] \notin {None, Halted} => i \in runspec /\ file[i] = acked[i] /\ running \subseteq {acked[i]}
         /\ acked[i] = Halted /\ file[i] = None => running = {}

\* The daemon of mieru serves the union of all instance files, listening if there are
\* any, and none of the accounts it had before. Not so after a failure, or requests
\* that met.
MitaUnion ==
  \A i \in Shared \ torn : Busy(i) = {} =>
    mita = [users |-> mergeMitaInstanceConfigs, listening |-> mergeMitaInstanceConfigs # {}]

\* Every core does what the panel was last told, whatever crashed or restarted since
\* (deploy*, restartDetached, stopPIDFile, core_watch.go, deployMieru,
\* reapplyMitaAfterInstanceRemoved).
AckedRuns == OwnCore /\ MitaUnion

\* No byte is booked twice, through resets of a core's counters, refused batches
\* and samples a core did not answer; and all are booked in the end, but for those
\* of a core that ended unsampled, before the first sample, or in a batch whose
\* answer was lost (proxyStatsState).
MeterConserved ==
  \A i \in Single :
    LET held == ledger[i].booked + Flying(i) + pending[i]
        open == IF i \in based THEN Delta(i) ELSE 0
    IN held + open <= ledger[i].all /\ (i \notin lossy => held + open = ledger[i].all)

\* An instance with a runspec gets its core back, unless the core cannot start or
\* its port is another's (ensure).
Revived ==
  \A i \in Single :
    i \in runspec ~> \/ i \notin runspec \/ (\E p \in Pids : procs[p].i = i)
                     \/ ~Startable(i) \/ Taken(PortOf[file[i]])
=============================================================================
