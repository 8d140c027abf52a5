------------------------------ MODULE Counters ------------------------------
(***************************************************************************)
(* How forwarded bytes become billed bytes. The agent's serve loop samples *)
(* the data plane's counters every second, sends the deltas, and takes a   *)
(* batch back when the write fails or the panel answers with a NACK. Every *)
(* apply of a ruleset recreates the kernel table and zeroes its counters;  *)
(* applySerialized therefore reads them first and parks what was not yet   *)
(* sampled ("fold"). The panel adds a batch to its ledgers in one database *)
(* transaction.                                                            *)
(*                                                                         *)
(* A counter is read outside countersMu and the reading is used under it,  *)
(* so reading and using are separate actions. Up and down are counted the  *)
(* same way; one direction is modelled. A batch that is all zero is a      *)
(* heartbeat that bills nothing and is left out.                           *)
(***************************************************************************)
EXTENDS Integers, FiniteSets, Sequences, Functions

CONSTANTS
  Keys,         \* proto/port pairs
  Rulesets,     \* the key sets an apply may install
  Others,       \* callers of applySerialized besides the dialer: the DNS
                \* refresh loop, the unix-socket handlers
  Ids,          \* frame ids; one is reused only once nothing refers to it
  PendingCap,   \* a batch is tracked beside at most this many (code: 32)
  MaxBytes,     \* bound: bytes a key forwards in a behaviour
  Events        \* which of these may happen: "flush", "flushfails", "late"
                \* (traffic between a fold and its flush), "read" (a fold
                \* cannot read), "write", "nack", "ttl", "drop", "restart",
                \* "reboot"

ASSUME CountersAssumption ==
  /\ Rulesets \subseteq SUBSET Keys
  /\ MaxBytes \in Nat
  /\ PendingCap \in Nat
  /\ "dialer" \notin Others /\ "boot" \notin Others

Appliers == Others \cup {"dialer", "boot"}

VARIABLES
  table,      \* the keys the data plane counts
  kernel,     \* the counter of each key in the present table
  base,       \* history: what the tables destroyed so far had counted
  cursor,     \* Daemon.lastCounters, 0 for a key it does not hold
  tracked,    \* the keys Daemon.lastCounters holds
  park,       \* Daemon.pendingFlushDeltas
  apply,      \* the applySerialized call that holds reconcileMu
  dialer,     \* the serve loop: what it is doing, and the reading or batch
              \* it holds in a local variable
  pending,    \* Dialer.pendingCounters
  connected,  \* a session is established
  wire,       \* counters frames on their way; live iff their session is
  acks,       \* counters_ack frames on their way to the agent
  billed,     \* the panel's ledger of the node's raw traffic
  claimed,    \* history: bytes handed to the dialer and not taken back
  lossless    \* history: no table was recreated, no session lost and no
              \* batch dropped so far

daemonVars == <<cursor, tracked, park>>
linkVars == <<pending, connected, wire, acks, lossless>>
vars == <<table, kernel, base, daemonVars, apply, dialer, linkVars, billed,
          claimed>>

Bytes == [Keys -> Nat]
None == [k \in Keys |-> 0]
Plus(f, g) == [k \in Keys |-> f[k] + g[k]]
Minus(f, g) == [k \in Keys |-> f[k] - g[k]]

Reading == [keys : SUBSET Keys, value : Bytes]
Idle == [pc |-> "idle"]
Frame == [id : Ids, bytes : Bytes, live : BOOLEAN]
Ack == [id : Ids, ok : BOOLEAN]

Init ==
  /\ table \in Rulesets
  /\ kernel = None
  /\ base = None
  /\ cursor = None
  /\ tracked = {}
  /\ park = None
  /\ apply = Idle
  /\ dialer = Idle
  /\ pending = <<>>
  /\ connected = TRUE
  /\ wire = <<>>
  /\ acks = <<>>
  /\ billed = None
  /\ claimed = None
  /\ lossless = TRUE

-----------------------------------------------------------------------------
\* External: the kernel forwards a byte of a key it has a rule for.
Traffic(k) ==
  /\ k \in table
  /\ base[k] + kernel[k] < MaxBytes
  /\ "late" \in Events \/ apply.pc = "idle"
  /\ kernel' = [kernel EXCEPT ![k] = @ + 1]
  /\ UNCHANGED <<table, base, daemonVars, apply, dialer, linkVars, billed,
                 claimed>>

\* What a reading adds: a value below the cursor means the counter restarted.
Delta(now, last) ==
  [k \in Keys |-> IF k \notin now.keys THEN 0
                  ELSE IF now.value[k] < last[k] THEN now.value[k]
                  ELSE now.value[k] - last[k]]

(***************************************************************************)
(* applySerialized: fold, then recreate the table                          *)
(***************************************************************************)

\* An apply takes reconcileMu and reads the counters. The dialer applies in
\* its serve loop, which does nothing else meanwhile; without a table there
\* is nothing to read.
FoldRead(t, rules) ==
  /\ apply.pc = "idle"
  /\ IF t = "dialer" THEN /\ connected
                          /\ dialer = Idle
                          /\ dialer' = [pc |-> "apply"]
                     ELSE UNCHANGED dialer
  /\ apply' = [pc |-> "fold", by |-> t, rules |-> rules,
               read |-> [keys |-> table, value |-> kernel]]
  /\ UNCHANGED <<table, kernel, base, daemonVars, linkVars, billed, claimed>>

\* nft cannot be listed: the fold is skipped, the apply goes on.
FoldReadFails ==
  /\ "read" \in Events
  /\ apply.pc = "fold"
  /\ apply' = [apply EXCEPT !.pc = "flush"]
  /\ UNCHANGED <<table, kernel, base, daemonVars, dialer, linkVars, billed,
                 claimed>>

\* foldCountersBeforeFlush under countersMu.
Fold ==
  /\ apply.pc = "fold"
  /\ park' = Plus(park, Delta(apply.read, cursor))
  /\ cursor' = [k \in Keys |-> IF k \in apply.read.keys
                               THEN apply.read.value[k] ELSE cursor[k]]
  /\ tracked' = tracked \cup apply.read.keys
  /\ apply' = [apply EXCEPT !.pc = "flush"]
  /\ UNCHANGED <<table, kernel, base, dialer, linkVars, billed, claimed>>

\* The caller leaves applySerialized.
EndApply ==
  /\ apply' = Idle
  /\ dialer' = IF apply.by = "dialer" THEN Idle ELSE dialer

\* nft -f deletes and recreates the table in one transaction.
Flush ==
  /\ "flush" \in Events
  /\ apply.pc = "flush"
  /\ table' = apply.rules
  /\ base' = Plus(base, kernel)
  /\ kernel' = None
  /\ lossless' = FALSE
  /\ EndApply
  /\ UNCHANGED <<daemonVars, pending, connected, wire, acks, billed, claimed>>

\* ... or leaves the old one untouched. Bootstrap then ends the process,
\* which is one more Restart.
FlushFails ==
  /\ "flushfails" \in Events
  /\ apply.pc = "flush"
  /\ apply.by # "boot"
  /\ EndApply
  /\ UNCHANGED <<table, kernel, base, daemonVars, linkVars, billed, claimed>>

(***************************************************************************)
(* The counters tick of the serve loop                                     *)
(***************************************************************************)

SampleRead ==
  /\ connected
  /\ dialer = Idle
  /\ dialer' = [pc |-> "read", read |-> [keys |-> table, value |-> kernel]]
  /\ UNCHANGED <<table, kernel, base, daemonVars, apply, linkVars, billed,
                 claimed>>

\* counterSamples under countersMu: the park and the new deltas become the
\* batch, and the cursors of keys no longer counted are pruned.
Sample ==
  LET batch == Plus(park, Delta(dialer.read, cursor)) IN
  /\ dialer.pc = "read"
  /\ park' = None
  /\ cursor' = [k \in Keys |-> IF k \in dialer.read.keys
                               THEN dialer.read.value[k] ELSE 0]
  /\ tracked' = dialer.read.keys
  /\ claimed' = Plus(claimed, batch)
  /\ dialer' = IF batch = None THEN Idle
               ELSE [pc |-> "send", batch |-> batch]
  /\ UNCHANGED <<table, kernel, base, apply, linkVars, billed>>

UsedIds == DOMAIN pending
           \cup {wire[i].id : i \in DOMAIN wire}
           \cup {acks[i].id : i \in DOMAIN acks}

\* trackPendingCounters: batches past the TTL go, and all of them when the
\* cap is exceeded; then the new one is added.
Track(id, batch) ==
  \E fresh \in SUBSET DOMAIN pending :
    LET kept == IF Cardinality(fresh) > PendingCap THEN {} ELSE fresh IN
    /\ "ttl" \notin Events => fresh = DOMAIN pending
    /\ pending' = [i \in kept \cup {id} |->
                     IF i = id THEN batch ELSE pending[i]]

\* Mutant: the batch is written but not tracked.
SendUntracked(id) ==
  /\ dialer.pc = "send"
  /\ id \notin UsedIds
  /\ wire' = Append(wire, [id |-> id, bytes |-> dialer.batch, live |-> TRUE])
  /\ dialer' = Idle
  /\ UNCHANGED <<table, kernel, base, daemonVars, apply, connected, acks,
                 pending, billed, claimed, lossless>>

\* The frame is written. Its id is new.
Send(id) ==
  /\ dialer.pc = "send"
  /\ id \notin UsedIds
  /\ Track(id, dialer.batch)
  /\ lossless' = (lossless /\ DOMAIN pending \subseteq DOMAIN pending')
  /\ wire' = Append(wire, [id |-> id, bytes |-> dialer.batch, live |-> TRUE])
  /\ dialer' = Idle
  /\ UNCHANGED <<table, kernel, base, daemonVars, apply, connected, acks,
                 billed, claimed>>

\* Mutant: the cursor is rewound below zero.
ReAddNegative(batch) ==
  /\ cursor' = Minus(cursor, batch)
  /\ claimed' = Minus(claimed, batch)
  /\ UNCHANGED <<tracked, park>>

\* reAddCounters: rewind the cursor, and park what it cannot be rewound by.
ReAdd(batch) ==
  LET back(k) == IF k \notin tracked THEN 0
                 ELSE IF batch[k] > cursor[k] THEN cursor[k] ELSE batch[k]
  IN
  /\ cursor' = [k \in Keys |-> cursor[k] - back(k)]
  /\ park' = [k \in Keys |-> park[k] + (batch[k] - back(k))]
  /\ claimed' = Minus(claimed, batch)
  /\ UNCHANGED tracked

\* Mutant: a batch whose write failed is not taken back.
SendFailsDrops ==
  /\ "write" \in Events
  /\ dialer.pc = "send"
  /\ dialer' = Idle
  /\ UNCHANGED <<table, kernel, base, daemonVars, apply, linkVars, billed,
                 claimed>>

\* The write fails: tracked, forgotten, and taken back.
SendFails ==
  /\ "write" \in Events
  /\ dialer.pc = "send"
  /\ ReAdd(dialer.batch)
  /\ dialer' = Idle
  /\ UNCHANGED <<table, kernel, base, apply, linkVars, billed>>

\* Mutant: the batch is taken back whatever the answer says.
HandleAckAlways ==
  LET ack == Head(acks)
      batch == pending[ack.id]
  IN
  /\ connected
  /\ dialer = Idle
  /\ acks # <<>>
  /\ acks' = Tail(acks)
  /\ IF ack.id \in DOMAIN pending
     THEN /\ pending' = [i \in DOMAIN pending \ {ack.id} |-> pending[i]]
          /\ ReAdd(batch)
     ELSE UNCHANGED <<pending, daemonVars, claimed>>
  /\ UNCHANGED <<table, kernel, base, apply, dialer, connected, wire, billed,
                 lossless>>

\* counters_ack: the batch is no longer pending; after a NACK it is taken
\* back. One already dropped by the TTL or the cap is not.
HandleAck ==
  LET ack == Head(acks)
      batch == pending[ack.id]
  IN
  /\ connected
  /\ dialer = Idle
  /\ acks # <<>>
  /\ acks' = Tail(acks)
  /\ IF ack.id \in DOMAIN pending
     THEN /\ pending' = [i \in DOMAIN pending \ {ack.id} |-> pending[i]]
          /\ IF ack.ok THEN UNCHANGED <<daemonVars, claimed>> ELSE ReAdd(batch)
     ELSE UNCHANGED <<pending, daemonVars, claimed>>
  /\ UNCHANGED <<table, kernel, base, apply, dialer, connected, wire, billed,
                 lossless>>

(***************************************************************************)
(* The panel: readerLoop and applyCounters                                 *)
(***************************************************************************)

\* The answer reaches the agent only over the session the frame came from.
Answer(ok) ==
  LET f == Head(wire) IN
  /\ wire # <<>>
  /\ wire' = Tail(wire)
  /\ acks' = IF f.live THEN Append(acks, [id |-> f.id, ok |-> ok]) ELSE acks

\* The transaction commits: every ledger is updated.
Bill ==
  /\ Answer(TRUE)
  /\ billed' = Plus(billed, Head(wire).bytes)
  /\ UNCHANGED <<table, kernel, base, daemonVars, apply, dialer, pending,
                 connected, claimed, lossless>>

\* It fails and is rolled back: nothing is billed.
Refuse ==
  /\ "nack" \in Events
  /\ Answer(FALSE)
  /\ UNCHANGED <<table, kernel, base, daemonVars, apply, dialer, pending,
                 connected, billed, claimed, lossless>>

(***************************************************************************)
(* Losing the session and the process                                      *)
(***************************************************************************)

\* What the panel's old reader still gets of the frames, and no answer.
CutWire ==
  \E n \in 0..Len(wire) :
    wire' = [i \in 1..n |-> [wire[i] EXCEPT !.live = FALSE]]

\* The session ends; the loop is between two frames. The agent keeps its
\* pending batches, but no answer to them can come any more.
Disconnect ==
  /\ "drop" \in Events
  /\ connected
  /\ dialer = Idle
  /\ connected' = FALSE
  /\ lossless' = FALSE
  /\ CutWire
  /\ acks' = <<>>
  /\ UNCHANGED <<table, kernel, base, daemonVars, apply, dialer, pending,
                 billed, claimed>>

Connect ==
  /\ ~connected
  /\ apply.pc # "idle" => apply.by # "boot"
  /\ connected' = TRUE
  /\ UNCHANGED <<table, kernel, base, daemonVars, apply, dialer, pending, wire,
                 acks, billed, claimed, lossless>>

\* The agent starts again: its memory is gone. The kernel table outlives the
\* process, but not a reboot of the machine. Bootstrap applies the saved
\* rules through applySerialized before it connects.
Restart ==
  /\ cursor' = None
  /\ tracked' = {}
  /\ park' = None
  /\ pending' = <<>>
  /\ connected' = FALSE
  /\ lossless' = FALSE
  /\ CutWire
  /\ acks' = <<>>
  /\ dialer' = Idle
  /\ \/ "restart" \in Events /\ UNCHANGED <<table, kernel, base>>
     \/ /\ "reboot" \in Events
        /\ table' = {}
        /\ base' = Plus(base, kernel)
        /\ kernel' = None
  /\ \E saved \in Rulesets :
       apply' = IF saved = {} THEN Idle
                ELSE [pc |-> "fold", by |-> "boot", rules |-> saved,
                      read |-> [keys |-> table', value |-> kernel']]
  /\ UNCHANGED <<billed, claimed>>

-----------------------------------------------------------------------------
StartApply == \E t \in Others \cup {"dialer"}, rules \in Rulesets : FoldRead(t, rules)
SendSome == \E id \in Ids : Send(id)
SomeTraffic == \E k \in Keys : Traffic(k)

Next ==
  \/ SomeTraffic
  \/ StartApply \/ FoldReadFails \/ Fold \/ Flush \/ FlushFails
  \/ SampleRead \/ Sample \/ SendSome \/ SendFails \/ HandleAck
  \/ Bill \/ Refuse
  \/ Disconnect \/ Connect \/ Restart

Spec == Init /\ [][Next]_vars

\* The tick recurs, the loop's steps end, the reader loops of both sides keep
\* reading, and a database that refuses does not refuse for ever.
Fairness ==
  /\ SF_vars(SampleRead)
  /\ WF_vars(Sample)
  /\ SF_vars(SendSome)
  /\ SF_vars(HandleAck)
  /\ WF_vars(Fold \/ FoldReadFails)
  /\ WF_vars(Flush \/ FlushFails)
  /\ WF_vars(Bill \/ Refuse)
  /\ SF_vars(Bill)

FairSpec == Spec /\ Fairness

-----------------------------------------------------------------------------
TypeOK ==
  /\ table \in SUBSET Keys
  /\ kernel \in Bytes /\ base \in Bytes /\ cursor \in Bytes /\ park \in Bytes
  /\ tracked \in SUBSET Keys
  /\ \/ apply = Idle
     \/ apply \in [pc : {"fold", "flush"}, by : Appliers,
                   rules : SUBSET Keys, read : Reading]
  /\ \/ dialer \in [pc : {"idle", "apply"}]
     \/ dialer \in [pc : {"read"}, read : Reading]
     \/ dialer \in [pc : {"send"}, batch : Bytes]
  /\ DOMAIN pending \subseteq Ids
  /\ \A i \in DOMAIN pending : pending[i] \in Bytes
  /\ connected \in BOOLEAN
  /\ wire \in Seq(Frame)
  /\ acks \in Seq(Ack)
  /\ billed \in Bytes
  /\ claimed \in [Keys -> Int]
  /\ lossless \in BOOLEAN

\* Batches handed out whose fate the panel has not decided, and those it
\* refused and the agent has not yet taken back.
Unsettled ==
  {i \in DOMAIN pending : \A n \in DOMAIN acks :
     acks[n].id = i => ~acks[n].ok}

Outstanding(k) ==
  SumFunctionOnSet([i \in DOMAIN pending |-> pending[i][k]], Unsettled)
  + (IF dialer.pc = "send" THEN dialer.batch[k] ELSE 0)

\* What the next sample would add for a key.
Unsampled(k) == Delta([keys |-> table, value |-> kernel], cursor)[k]

\* The bytes of a key that were really forwarded.
Real(k) == base[k] + kernel[k]

\* What the sampler has handed out and not taken back, with what the folds
\* have parked, never exceeds what was forwarded, whatever flushes, rewinds
\* and prunings the cursor went through (counters.go, counterSamples).
ClaimsBounded == \A k \in Keys : claimed[k] + park[k] <= Real(k)

\* The agent and the panel keep what Metering promises: no byte is taken twice and
\* none is billed that was not taken, refused, unwritten, timed-out and
\* late-answered batches included, and the panel's ledger never goes back
\* (counterSamples, reAddCounters, handleAck, handleCounters).
Meter == INSTANCE Metering WITH
  forwarded <- [k \in Keys |-> Real(k)],
  taken <- [k \in Keys |-> claimed[k] + park[k]]
Metered == Meter!Spec

\* As long as no table is recreated, no session lost and no batch dropped, every
\* forwarded byte is in exactly one place: billed, in a batch on its way or
\* coming back, parked, or beyond the cursor.
Conserved ==
  lossless => \A k \in Keys :
    billed[k] + Outstanding(k) + park[k] + Unsampled(k) = Real(k)

\* With batches refused or unwritten again and again but not for ever, all
\* that was forwarded ends up billed (reAddCounters: "so the next
\* counterSamples() call re-reports them").
EventuallyBilled == <>[](\A k \in Keys : billed[k] = Real(k))
=============================================================================
