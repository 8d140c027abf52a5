--------------------------- MODULE CountersProofs ---------------------------
(***************************************************************************)
(* Counters keeps its types, bills no byte the agent has not claimed, and  *)
(* never claims more than was forwarded: it implements Metering, for every *)
(* set of keys, rulesets, ids, caps and bounds. The last needs two         *)
(* assumptions the code does not give it: that the dialer and Bootstrap    *)
(* alone call applySerialized (a reading of the sampler can otherwise be   *)
(* overtaken by a fold), and that the kernel table does not outlive the    *)
(* process that counted it (Bootstrap's fold would park it once more).     *)
(* Under the first of them, and while no table is recreated, no session    *)
(* lost and no batch dropped, every byte is in exactly one place.          *)
(***************************************************************************)
EXTENDS Counters, SumTheorems

\* Sums of byte counts are byte counts.
LEMMA BytesOps ==
  ASSUME NEW f \in Bytes, NEW g \in Bytes
  PROVE  Plus(f, g) \in Bytes /\ None \in Bytes
BY DEF Bytes, Plus, None

\* What a reading adds, and that it is never negative.
LEMMA DeltaType ==
  ASSUME NEW r \in Reading, NEW c \in Bytes
  PROVE  /\ Delta(r, c) \in Bytes
         /\ \A k \in Keys : k \notin r.keys => Delta(r, c)[k] = 0
         /\ \A k \in Keys : k \in r.keys =>
              Delta(r, c)[k] = IF r.value[k] < c[k] THEN r.value[k]
                               ELSE r.value[k] - c[k]
BY DEF Bytes, Delta, Reading

\* What the agent's memory does in a ReAdd.
LEMMA ReAddType ==
  ASSUME cursor \in Bytes, park \in Bytes, tracked \in SUBSET Keys,
         claimed \in [Keys -> Int], NEW batch \in Bytes, ReAdd(batch)
  PROVE  /\ cursor' \in Bytes /\ park' \in Bytes
         /\ tracked' \in SUBSET Keys /\ claimed' \in [Keys -> Int]
BY DEF ReAdd, Bytes, Minus

\* What is left of the frames after a disconnect are frames.
LEMMA CutWireType ==
  ASSUME wire \in Seq(Frame), CutWire
  PROVE  wire' \in Seq(Frame)
<1>1. PICK n \in 0..Len(wire) :
        wire' = [i \in 1..n |-> [wire[i] EXCEPT !.live = FALSE]]
  BY DEF CutWire
<1>2. \A i \in 1..n : wire[i] \in Frame
  BY <1>1
<1>3. \A i \in 1..n : [wire[i] EXCEPT !.live = FALSE] \in Frame
  BY <1>2 DEF Frame
<1>4. wire' \in [1..n -> Frame] /\ n \in Nat
  BY <1>1, <1>3
<1> QED
  BY <1>4

\* Taking a frame and answering it keeps the types of both queues.
LEMMA AnswerType ==
  ASSUME wire \in Seq(Frame), acks \in Seq(Ack), NEW ok \in BOOLEAN,
         Answer(ok)
  PROVE  /\ Head(wire) \in Frame
         /\ wire' \in Seq(Frame)
         /\ acks' \in Seq(Ack)
<1>1. Head(wire) \in Frame /\ wire' \in Seq(Frame)
  BY DEF Answer
<1>2. [id |-> Head(wire).id, ok |-> ok] \in Ack
  BY <1>1 DEF Frame, Ack
<1> QED
  BY <1>1, <1>2 DEF Answer

\* Every variable keeps its type: no rewind of reAddCounters takes the cursor
\* or the park below zero, whoever applies and whatever fails.
THEOREM TypeCorrect == Spec => []TypeOK
<1>1. Init => TypeOK
  BY CountersAssumption DEF Init, TypeOK, None, Bytes, Idle
<1>2. TypeOK /\ [Next]_vars => TypeOK'
  <2> SUFFICES ASSUME TypeOK, [Next]_vars PROVE TypeOK'
    OBVIOUS
  <2> USE DEF TypeOK
  <2>0. [keys |-> table, value |-> kernel] \in Reading
    BY DEF Reading
  <2>1. CASE SomeTraffic
    BY <2>1 DEF SomeTraffic, Traffic, daemonVars, linkVars, Bytes
  <2>2. CASE StartApply
    <3>1. PICK t \in Others \cup {"dialer"}, rules \in Rulesets : FoldRead(t, rules)
      BY <2>2 DEF StartApply
    <3>2. rules \in SUBSET Keys /\ t \in Appliers
      BY CountersAssumption DEF Appliers
    <3> QED
      BY <2>0, <3>1, <3>2 DEF FoldRead, daemonVars, linkVars, Idle
  <2>3. CASE FoldReadFails
    <3>0. /\ apply \in [pc : {"fold", "flush"}, by : Appliers,
                         rules : SUBSET Keys, read : Reading]
          /\ apply' = [apply EXCEPT !.pc = "flush"]
      BY <2>3 DEF FoldReadFails, Idle
    <3>1. apply' \in [pc : {"fold", "flush"}, by : Appliers,
                      rules : SUBSET Keys, read : Reading]
      BY <3>0
    <3> QED
      BY <2>3, <3>1 DEF FoldReadFails, daemonVars, linkVars
  <2>4. CASE Fold
    <3>1. apply.read \in Reading
      BY <2>4 DEF Fold, Idle
    <3>2. park' \in Bytes /\ cursor' \in Bytes /\ tracked' \in SUBSET Keys
      BY <2>4, <3>1, DeltaType, BytesOps DEF Fold, Reading, Bytes
    <3>3. apply' \in [pc : {"fold", "flush"}, by : Appliers,
                      rules : SUBSET Keys, read : Reading]
      BY <2>4 DEF Fold, Idle
    <3> QED
      BY <2>4, <3>2, <3>3 DEF Fold, linkVars
  <2>5. CASE Flush
    <3>1. apply.rules \in SUBSET Keys
      BY <2>5 DEF Flush, Idle
    <3>2. base' \in Bytes /\ kernel' \in Bytes
      BY <2>5, BytesOps DEF Flush
    <3> QED
      BY <2>5, <3>1, <3>2 DEF Flush, EndApply, daemonVars, linkVars, Idle
  <2>6. CASE FlushFails
    BY <2>6 DEF FlushFails, EndApply, daemonVars, linkVars, Idle
  <2>7. CASE SampleRead
    BY <2>0, <2>7 DEF SampleRead, daemonVars, linkVars, Idle
  <2>8. CASE Sample
    <3> DEFINE batch == Plus(park, Delta(dialer.read, cursor))
    <3>1. dialer.read \in Reading
      BY <2>8 DEF Sample
    <3>2. batch \in Bytes
      BY <3>1, DeltaType, BytesOps
    <3>3. park' \in Bytes /\ cursor' \in Bytes /\ tracked' \in SUBSET Keys
      BY <2>8, <3>1, BytesOps DEF Sample, Reading, Bytes
    <3>4. claimed' \in [Keys -> Int]
      BY <2>8, <3>2 DEF Sample, Plus, Bytes
    <3>5. \/ dialer' \in [pc : {"idle", "apply"}]
          \/ dialer' \in [pc : {"send"}, batch : Bytes]
      BY <2>8, <3>2 DEF Sample, Idle
    <3> QED
      BY <2>8, <3>3, <3>4, <3>5 DEF Sample, linkVars
  <2>9. CASE SendSome
    <3>1. PICK id \in Ids : Send(id)
      BY <2>9 DEF SendSome
    <3>2. dialer.batch \in Bytes
      BY <3>1 DEF Send
    <3>3. [id |-> id, bytes |-> dialer.batch, live |-> TRUE] \in Frame
      BY <3>2 DEF Frame
    <3>4. DOMAIN pending' \subseteq Ids /\ \A i \in DOMAIN pending' : pending'[i] \in Bytes
      BY <3>1, <3>2 DEF Send, Track
    <3>5. wire' \in Seq(Frame)
      BY <3>1, <3>3 DEF Send
    <3> QED
      BY <3>1, <3>4, <3>5 DEF Send, daemonVars, Idle
  <2>10. CASE SendFails
    BY <2>10, ReAddType DEF SendFails, linkVars, Idle
  <2>11. CASE HandleAck
    <3>1. /\ DOMAIN pending' \subseteq Ids
          /\ \A i \in DOMAIN pending' : pending'[i] \in Bytes
      BY <2>11 DEF HandleAck
    <3>2. acks' \in Seq(Ack)
      BY <2>11 DEF HandleAck
    <3>3. /\ cursor' \in Bytes /\ park' \in Bytes
          /\ tracked' \in SUBSET Keys /\ claimed' \in [Keys -> Int]
      BY <2>11, ReAddType DEF HandleAck, daemonVars
    <3> QED
      BY <2>11, <3>1, <3>2, <3>3 DEF HandleAck
  <2>12. CASE Bill
    <3>1. /\ Head(wire) \in Frame /\ wire' \in Seq(Frame) /\ acks' \in Seq(Ack)
      BY <2>12, AnswerType DEF Bill
    <3>2. billed' \in Bytes
      BY <2>12, <3>1, BytesOps DEF Bill, Frame
    <3> QED
      BY <2>12, <3>1, <3>2 DEF Bill, daemonVars
  <2>13. CASE Refuse
    <3>1. wire' \in Seq(Frame) /\ acks' \in Seq(Ack)
      BY <2>13, AnswerType DEF Refuse
    <3> QED
      BY <2>13, <3>1 DEF Refuse, daemonVars
  <2>14. CASE Disconnect
    <3>1. wire' \in Seq(Frame)
      BY <2>14, CutWireType DEF Disconnect
    <3>2. acks' \in Seq(Ack)
      BY <2>14 DEF Disconnect
    <3> QED
      BY <2>14, <3>1, <3>2 DEF Disconnect, daemonVars
  <2>15. CASE Connect
    BY <2>15 DEF Connect, daemonVars
  <2>16. CASE Restart
    <3>1. wire' \in Seq(Frame)
      BY <2>16, CutWireType DEF Restart
    <3>2. /\ table' \in SUBSET Keys /\ kernel' \in Bytes /\ base' \in Bytes
          /\ cursor' \in Bytes /\ park' \in Bytes
      BY <2>16, BytesOps DEF Restart
    <3>3. PICK saved \in Rulesets :
            apply' = IF saved = {} THEN Idle
                     ELSE [pc |-> "fold", by |-> "boot", rules |-> saved,
                           read |-> [keys |-> table', value |-> kernel']]
      BY <2>16 DEF Restart
    <3>4. [keys |-> table', value |-> kernel'] \in Reading
      BY <3>2 DEF Reading
    <3>5. \/ apply' = Idle
          \/ apply' \in [pc : {"fold", "flush"}, by : Appliers,
                         rules : SUBSET Keys, read : Reading]
      BY <3>3, <3>4, CountersAssumption DEF Appliers
    <3>6. acks' \in Seq(Ack) /\ dialer' \in [pc : {"idle", "apply"}]
      BY <2>16 DEF Restart, Idle
    <3>7. /\ tracked' = {} /\ DOMAIN pending' = {} /\ connected' = FALSE /\ lossless' = FALSE
          /\ billed' = billed /\ claimed' = claimed
      BY <2>16 DEF Restart
    <3> QED
      BY <3>1, <3>2, <3>5, <3>6, <3>7
  <2>17. CASE UNCHANGED vars
    BY <2>17 DEF vars, daemonVars, linkVars
  <2> QED
    BY <2>1, <2>2, <2>3, <2>4, <2>5, <2>6, <2>7, <2>8, <2>9, <2>10, <2>11,
       <2>12, <2>13, <2>14, <2>15, <2>16, <2>17 DEF Next
<1> QED
  BY <1>1, <1>2, PTL DEF Spec

-----------------------------------------------------------------------------
\* The dialer and Bootstrap are the only callers of applySerialized, and the
\* table is gone when the agent starts again.
Sequential == Others = {} /\ "restart" \notin Events

\* The claims of a key are covered by the destroyed tables alone, or by them
\* and the cursor, if the cursor lies within the value c of the present table.
Covered(k, c) ==
  \/ claimed[k] + park[k] <= base[k]
  \/ claimed[k] + park[k] <= base[k] + cursor[k] /\ cursor[k] <= c

\* A reading in a local variable is one of the present table, it does not lie
\* below a cursor that still means this table.
ReadingHolds(r) ==
  /\ r.keys = table
  /\ \A k \in Keys : r.value[k] <= kernel[k] /\ Covered(k, r.value[k])

CountInv ==
  /\ \A k \in Keys : Covered(k, kernel[k])
  /\ \A k \in Keys \ table : kernel[k] = 0
  /\ dialer.pc = "read" => ReadingHolds(dialer.read)
  /\ apply.pc = "fold" => ReadingHolds(apply.read)
  /\ apply.pc # "idle" =>
       \/ apply.by = "dialer" /\ dialer.pc = "apply"
       \/ apply.by = "boot" /\ dialer.pc = "idle" /\ ~connected

\* Giving a batch back keeps the claims covered.
LEMMA ReAddCovered ==
  ASSUME TypeOK, NEW batch \in Bytes, ReAdd(batch), UNCHANGED <<base, kernel>>,
         \A k \in Keys : Covered(k, kernel[k])
  PROVE  \A k \in Keys : Covered(k, kernel[k])'
<1> SUFFICES ASSUME NEW k \in Keys PROVE Covered(k, kernel[k])'
  OBVIOUS
<1> DEFINE back == IF k \notin tracked THEN 0
                   ELSE IF batch[k] > cursor[k] THEN cursor[k] ELSE batch[k]
<1>1. /\ cursor[k] \in Nat /\ park[k] \in Nat /\ batch[k] \in Nat
      /\ kernel[k] \in Nat /\ base[k] \in Nat /\ claimed[k] \in Int
  BY DEF TypeOK, Bytes
<1>2. back \in Nat /\ back <= batch[k] /\ back <= cursor[k]
  BY <1>1
<1>3. /\ cursor'[k] = cursor[k] - back
      /\ park'[k] = park[k] + (batch[k] - back)
      /\ claimed'[k] = claimed[k] - batch[k]
      /\ base'[k] = base[k] /\ kernel'[k] = kernel[k]
  BY DEF ReAdd, Minus
<1> HIDE DEF back
<1> QED
  BY <1>1, <1>2, <1>3 DEF Covered

\* Every step keeps the claims covered.
LEMMA CountInvStep ==
  ASSUME Sequential, TypeOK, CountInv, [Next]_vars
  PROVE  CountInv'
<1>0. \A k \in Keys :
        /\ cursor[k] \in Nat /\ park[k] \in Nat /\ kernel[k] \in Nat
        /\ base[k] \in Nat /\ claimed[k] \in Int
  BY DEF TypeOK, Bytes
<1>1. CASE SomeTraffic
  <2>1. PICK j \in table : kernel' = [kernel EXCEPT ![j] = @ + 1]
    BY <1>1 DEF SomeTraffic, Traffic
  <2>2. kernel \in [Keys -> Nat] /\ j \in Keys
    BY <2>1 DEF TypeOK, Bytes
  <2>3. \A k \in Keys : kernel'[k] \in Nat /\ kernel[k] <= kernel'[k]
    BY <1>0, <2>1, <2>2
  <2>4. \A k \in Keys \ table : kernel'[k] = kernel[k]
    BY <2>1, <2>2
  <2>5. UNCHANGED <<table, base, cursor, park, apply, dialer, connected, claimed>>
    BY <1>1 DEF SomeTraffic, Traffic, daemonVars, linkVars
  <2>6. ASSUME NEW r \in Reading, ReadingHolds(r) PROVE ReadingHolds(r)'
    BY <1>0, <2>3, <2>5, <2>6 DEF ReadingHolds, Covered, Reading, Bytes
  <2>7. /\ dialer.pc = "read" => dialer.read \in Reading
        /\ apply.pc = "fold" => apply.read \in Reading
    BY DEF TypeOK, Idle
  <2>8. \A k \in Keys : Covered(k, kernel[k])'
    BY <1>0, <2>3, <2>5 DEF CountInv, Covered
  <2>9. /\ dialer'.pc = "read" => ReadingHolds(dialer.read)'
        /\ apply'.pc = "fold" => ReadingHolds(apply.read)'
    BY <2>5, <2>6, <2>7 DEF CountInv, ReadingHolds, Covered
  <2> QED
    BY <2>4, <2>5, <2>8, <2>9 DEF CountInv
<1>2. CASE StartApply
  BY <1>0, <1>2
  DEF StartApply, FoldRead, CountInv, Covered, ReadingHolds, daemonVars,
      linkVars, Sequential, Idle
<1>3. CASE FoldReadFails
  <2>1. apply'.pc = "flush" /\ apply'.by = apply.by
    BY <1>3 DEF FoldReadFails, TypeOK, Idle
  <2> QED
    BY <1>3, <2>1
    DEF FoldReadFails, CountInv, Covered, ReadingHolds, daemonVars, linkVars
<1>4. CASE Fold
  <2>1. apply.read \in Reading /\ ReadingHolds(apply.read)
    BY <1>4 DEF Fold, TypeOK, Idle, CountInv
  <2>2. apply'.pc = "flush" /\ apply'.by = apply.by
    BY <1>4 DEF Fold, TypeOK, Idle
  <2>3. ASSUME NEW k \in Keys PROVE Covered(k, kernel[k])'
    <3>1. apply.read.value[k] \in Nat
      BY <2>1 DEF Reading, Bytes
    <3>2. /\ park'[k] = park[k] + Delta(apply.read, cursor)[k]
          /\ cursor'[k] = IF k \in apply.read.keys
                          THEN apply.read.value[k] ELSE cursor[k]
          /\ claimed' = claimed /\ base' = base /\ kernel' = kernel
      BY <1>4 DEF Fold, Plus
    <3>3. Delta(apply.read, cursor)[k] =
            IF k \notin apply.read.keys THEN 0
            ELSE IF apply.read.value[k] < cursor[k] THEN apply.read.value[k]
            ELSE apply.read.value[k] - cursor[k]
      BY DEF Delta
    <3> QED
      BY <1>0, <2>1, <3>1, <3>2, <3>3 DEF ReadingHolds, Covered, CountInv
  <2> QED
    BY <1>4, <2>2, <2>3 DEF Fold, CountInv, linkVars
<1>5. CASE Flush
  <2>1. ASSUME NEW k \in Keys PROVE Covered(k, kernel[k])' /\ kernel'[k] = 0
    BY <1>0, <1>5 DEF Flush, CountInv, Covered, Plus, None, daemonVars
  <2>2. apply'.pc = "idle" /\ dialer'.pc # "read"
    BY <1>5 DEF Flush, EndApply, Idle, CountInv
  <2> QED
    BY <2>1, <2>2 DEF CountInv
<1>6. CASE FlushFails
  <2>1. apply'.pc = "idle" /\ dialer'.pc # "read"
    BY <1>6 DEF FlushFails, EndApply, Idle, CountInv
  <2> QED
    BY <1>6, <2>1 DEF FlushFails, CountInv, Covered, daemonVars
<1>7. CASE SampleRead
  BY <1>0, <1>7
  DEF SampleRead, CountInv, Covered, ReadingHolds, daemonVars, linkVars, Idle
<1>8. CASE Sample
  <2>1. dialer.read \in Reading /\ ReadingHolds(dialer.read)
    BY <1>8 DEF Sample, TypeOK, CountInv
  <2>2. apply.pc = "idle" /\ dialer'.pc # "read"
    BY <1>8 DEF Sample, CountInv, Idle
  <2>3. ASSUME NEW k \in Keys PROVE Covered(k, kernel[k])'
    <3>1. dialer.read.value[k] \in Nat
      BY <2>1 DEF Reading, Bytes
    <3>2. /\ park'[k] = 0
          /\ cursor'[k] = IF k \in dialer.read.keys
                          THEN dialer.read.value[k] ELSE 0
          /\ claimed'[k] = claimed[k]
                           + (park[k] + Delta(dialer.read, cursor)[k])
          /\ base' = base /\ kernel' = kernel
      BY <1>8 DEF Sample, Plus, None
    <3>3. Delta(dialer.read, cursor)[k] =
            IF k \notin dialer.read.keys THEN 0
            ELSE IF dialer.read.value[k] < cursor[k] THEN dialer.read.value[k]
            ELSE dialer.read.value[k] - cursor[k]
      BY DEF Delta
    <3>4. k \notin dialer.read.keys => kernel[k] = 0
      BY <2>1 DEF ReadingHolds, CountInv
    <3> QED
      BY <1>0, <2>1, <3>1, <3>2, <3>3, <3>4
      DEF ReadingHolds, Covered, CountInv
  <2> QED
    BY <1>8, <2>2, <2>3 DEF Sample, CountInv
<1>9. CASE SendSome
  BY <1>9 DEF SendSome, Send, CountInv, Covered, ReadingHolds, daemonVars, Idle
<1>10. CASE SendFails
  <2>1. \A k \in Keys : Covered(k, kernel[k])'
    BY <1>10, ReAddCovered DEF SendFails, TypeOK, CountInv
  <2>2. dialer'.pc = "idle" /\ apply' = apply /\ apply.pc = "idle"
    BY <1>10 DEF SendFails, CountInv, Idle
  <2> QED
    BY <1>10, <2>1, <2>2 DEF SendFails, CountInv
<1>11. CASE HandleAck
  <2>1. dialer.pc = "idle" /\ apply' = apply /\ apply.pc = "idle"
    BY <1>11 DEF HandleAck, CountInv, Idle
  <2>2. \A k \in Keys : Covered(k, kernel[k])'
    <3>1. CASE Head(acks).id \in DOMAIN pending /\ ~Head(acks).ok
      <4>1. /\ pending[Head(acks).id] \in Bytes
            /\ ReAdd(pending[Head(acks).id])
        BY <1>11, <3>1 DEF HandleAck, TypeOK
      <4> QED
        BY <1>11, <4>1, ReAddCovered DEF HandleAck, CountInv
    <3>2. CASE ~(Head(acks).id \in DOMAIN pending /\ ~Head(acks).ok)
      BY <1>11, <3>2 DEF HandleAck, CountInv, Covered, daemonVars
    <3> QED
      BY <3>1, <3>2
  <2> QED
    BY <1>11, <2>1, <2>2 DEF HandleAck, CountInv
<1>12. CASE Bill
  BY <1>12 DEF Bill, CountInv, Covered, ReadingHolds, daemonVars
<1>13. CASE Refuse
  BY <1>13 DEF Refuse, CountInv, Covered, ReadingHolds, daemonVars
<1>14. CASE Disconnect
  BY <1>14 DEF Disconnect, CountInv, Covered, ReadingHolds, daemonVars, Idle
<1>15. CASE Connect
  BY <1>15 DEF Connect, CountInv, Covered, ReadingHolds, daemonVars
<1>16. CASE Restart
  <2>1. table' = {} /\ base' = Plus(base, kernel) /\ kernel' = None
    BY <1>16 DEF Restart, Sequential
  <2>2. ASSUME NEW k \in Keys
        PROVE  claimed'[k] + park'[k] <= base'[k] /\ kernel'[k] = 0
    BY <1>0, <1>16, <2>1 DEF Restart, CountInv, Covered, Plus, None
  <2>3. dialer'.pc = "idle" /\ connected' = FALSE
    BY <1>16 DEF Restart, Idle
  <2>4. \/ apply'.pc = "idle"
        \/ /\ apply'.by = "boot"
           /\ apply'.read = [keys |-> table', value |-> kernel']
    BY <1>16 DEF Restart, Idle
  <2>5. apply'.pc = "fold" => ReadingHolds(apply.read)'
    BY <2>2, <2>4, <1>16 DEF Restart, ReadingHolds, Covered, Idle, None
  <2> QED
    BY <2>2, <2>3, <2>4, <2>5 DEF CountInv, Covered
<1>17. CASE UNCHANGED vars
  BY <1>17 DEF vars, daemonVars, linkVars, CountInv, Covered, ReadingHolds
<1> QED
  BY <1>1, <1>2, <1>3, <1>4, <1>5, <1>6, <1>7, <1>8, <1>9, <1>10, <1>11,
     <1>12, <1>13, <1>14, <1>15, <1>16, <1>17 DEF Next

\* While nothing but the dialer and Bootstrap recreates the table, the agent
\* never claims a byte twice: counterSamples, the fold, the rewind of refused
\* batches, the pruning of removed rules and a reboot included.
THEOREM ClaimsAlwaysBounded ==
  ASSUME Sequential
  PROVE  Spec => []ClaimsBounded
<1>1. Init => CountInv
  BY CountersAssumption DEF Init, CountInv, Covered, None, Idle
<1>2. TypeOK /\ CountInv /\ [Next]_vars => CountInv'
  BY CountInvStep
<1>3. TypeOK /\ CountInv => ClaimsBounded
  BY DEF TypeOK, CountInv, Covered, ClaimsBounded, Real, Bytes
<1> QED
  BY <1>1, <1>2, <1>3, TypeCorrect, PTL DEF Spec

-----------------------------------------------------------------------------
\* A batch that the panel may still bill, or has refused while the agent has
\* not taken it back.
Carries(id, b) ==
  \/ \E i \in DOMAIN wire : wire[i].id = id /\ wire[i].bytes = b
  \/ \E n \in DOMAIN acks :
       acks[n].id = id /\ ~acks[n].ok /\ id \in DOMAIN pending /\ pending[id] = b

Open == {id \in Ids : \E b \in Bytes : Carries(id, b)}
Amount(id) == CHOOSE b \in Bytes : Carries(id, b)
Due(k) == SumFunctionOnSet([id \in Open |-> Amount(id)[k]], Open)

\* An id names one batch: nothing else under way has it, and the agent tracks
\* the batch under it, if any.
IdsDistinct ==
  /\ \A i, j \in DOMAIN wire : i # j => wire[i].id # wire[j].id
  /\ \A m, n \in DOMAIN acks : m # n => acks[m].id # acks[n].id
  /\ \A i \in DOMAIN wire, n \in DOMAIN acks : wire[i].id # acks[n].id
  /\ \A i \in DOMAIN wire :
       wire[i].id \in DOMAIN pending => pending[wire[i].id] = wire[i].bytes

Held(k) == IF dialer.pc = "send" THEN dialer.batch[k] ELSE 0

\* What was billed, is on its way or is to be taken back was claimed.
BilledClaimed == \A k \in Keys : billed[k] + Due(k) + Held(k) <= claimed[k]

\* Finitely many ids, each with one amount.
Opened ==
  /\ IsFiniteSet(Open)
  /\ \A id, b : Carries(id, b) => id \in Open /\ b \in Bytes /\ Amount(id) = b
  /\ \A id \in Open : Amount(id) \in Bytes /\ Carries(id, Amount(id))

\* Ids under way: finitely many, each with one amount.
LEMMA OpenIds ==
  ASSUME TypeOK, IdsDistinct
  PROVE  Opened
<1> DEFINE W == {wire[i].id : i \in 1..Len(wire)}
           A == {acks[n].id : n \in 1..Len(acks)}
<1>1. Len(wire) \in Nat /\ Len(acks) \in Nat /\ DOMAIN wire = 1..Len(wire)
      /\ DOMAIN acks = 1..Len(acks)
  BY DEF TypeOK
<1>2. IsFiniteSet(1..Len(wire)) /\ IsFiniteSet(1..Len(acks))
  BY <1>1, FS_Interval
<1>3. IsFiniteSet(W)
  <2>1. [i \in 1..Len(wire) |-> wire[i].id] \in Surjection(1..Len(wire), W)
    BY DEF Surjection
  <2> QED BY <1>2, <2>1, FS_Surjection
<1>4. IsFiniteSet(A)
  <2>1. [n \in 1..Len(acks) |-> acks[n].id] \in Surjection(1..Len(acks), A)
    BY DEF Surjection
  <2> QED BY <1>2, <2>1, FS_Surjection
<1>5. \A id, b : Carries(id, b) => id \in W \cup A
  BY <1>1 DEF Carries
<1>6. Open \subseteq W \cup A
  BY <1>5 DEF Open
<1>7. IsFiniteSet(Open)
  BY <1>3, <1>4, <1>6, FS_Union, FS_Subset
<1>8. \A i \in DOMAIN wire : wire[i] \in Frame
  BY DEF TypeOK
<1>9. \A n \in DOMAIN acks : acks[n] \in Ack
  BY DEF TypeOK
<1>10. \A id, b : Carries(id, b) => id \in Ids /\ b \in Bytes
  BY <1>8, <1>9 DEF Carries, TypeOK, Frame, Ack
<1>11. \A id, b, c : Carries(id, b) /\ Carries(id, c) => b = c
  BY DEF Carries, IdsDistinct
<1>12. \A id, b : Carries(id, b) => id \in Open
  BY <1>10 DEF Open
<1>13. \A id \in Open : Amount(id) \in Bytes /\ Carries(id, Amount(id))
  BY DEF Open, Amount
<1> QED BY <1>7, <1>10, <1>11, <1>12, <1>13 DEF Opened

\* What is due is a number of bytes.
LEMMA DueNat ==
  ASSUME TypeOK, IdsDistinct, NEW k \in Keys
  PROVE  Due(k) \in Nat
<1>1. \A id \in Open : [j \in Open |-> Amount(j)[k]][id] \in Nat
  BY OpenIds DEF Bytes, Opened
<1> QED BY <1>1, OpenIds, SumNat DEF Due, Opened

\* The same after a step.
LEMMA OpenIdsNext ==
  ASSUME TypeOK', IdsDistinct'
  PROVE  Opened'
BY OpenIds, PTL

\* Batches settled: what is due falls at least by the one that goes.
LEMMA DueFalls ==
  ASSUME TypeOK, TypeOK', IdsDistinct, IdsDistinct', NEW k \in Keys,
         \A id, b : Carries(id, b)' => Carries(id, b)
  PROVE  /\ Due(k) \in Nat /\ Due(k)' \in Nat /\ Due(k)' <= Due(k)
         /\ \A x, c : Carries(x, c) /\ (\A b : ~Carries(x, b)') => Due(k)' <= Due(k) - c[k]
<1>1. PICK S : S = Open
  OBVIOUS
<1>2. PICK T : T = Open'
  OBVIOUS
<1>3. PICK f : f = [id \in Open |-> Amount(id)[k]]
  OBVIOUS
<1>4. PICK g : g = [id \in Open |-> Amount(id)[k]]'
  OBVIOUS
<1>5. IsFiniteSet(S) /\ IsFiniteSet(T) /\ \A x \in S : f[x] \in Nat
  BY <1>1, <1>2, <1>3, OpenIds, OpenIdsNext DEF Bytes, Opened
<1>6. \A id \in T : id \in S /\ g[id] = f[id]
  <2> SUFFICES ASSUME NEW id \in T PROVE id \in S /\ g[id] = f[id]
    OBVIOUS
  <2>1. Carries(id, Amount(id))' /\ (Amount(id))' \in Bytes
    BY <1>2, OpenIdsNext DEF Opened
  <2>2. PICK b : b = (Amount(id))'
    OBVIOUS
  <2>3. Carries(id, b)
    BY <2>1, <2>2
  <2>4. id \in Open /\ Amount(id) = b
    BY <2>3, OpenIds DEF Opened
  <2>5. g[id] = b[k]
    BY <1>2, <1>4, <2>2
  <2> QED BY <1>1, <1>3, <2>4, <2>5
<1>7. Due(k) = SumFunctionOnSet(f, S) /\ Due(k)' = SumFunctionOnSet(g, T)
  BY <1>1, <1>2, <1>3, <1>4 DEF Due
<1>8. T \in SUBSET S
  BY <1>6
<1>9. SumFunctionOnSet(g, T) <= SumFunctionOnSet(f, S)
  BY <1>5, <1>6, <1>8, SumMono
<1>10. SumFunctionOnSet(g, T) \in Nat /\ SumFunctionOnSet(f, S) \in Nat
  BY <1>5, <1>6, SumNat
<1>11. ASSUME NEW x, NEW c, Carries(x, c), \A b : ~Carries(x, b)'
       PROVE  SumFunctionOnSet(g, T) <= SumFunctionOnSet(f, S) - c[k]
  <2>1. x \in S /\ Amount(x) = c
    BY <1>1, <1>11, OpenIds DEF Opened
  <2>2. x \notin T
    <3>1. x \in Open' => Carries(x, Amount(x))'
      BY OpenIdsNext DEF Opened
    <3>2. PICK b : b = (Amount(x))'
      OBVIOUS
    <3>3. ~Carries(x, b)'
      BY <1>11
    <3> QED BY <1>2, <3>1, <3>2, <3>3
  <2>3. SumFunctionOnSet(f, S) = f[x] + SumFunctionOnSet(f, S \ {x})
    BY <1>5, <2>1, SumTake
  <2>4. T \in SUBSET (S \ {x}) /\ IsFiniteSet(S \ {x})
    BY <1>5, <1>8, <2>2, FS_RemoveElement
  <2>5. SumFunctionOnSet(g, T) <= SumFunctionOnSet(f, S \ {x})
    BY <1>5, <1>6, <2>4, SumMono
  <2>6. f[x] = c[k] /\ f[x] \in Nat
    BY <1>1, <1>3, <1>5, <2>1
  <2>7. SumFunctionOnSet(f, S \ {x}) \in Nat
    BY <1>5, <2>4, SumNat
  <2> QED BY <1>10, <2>3, <2>5, <2>6, <2>7
<1> QED
  BY <1>7, <1>9, <1>10, <1>11

\* A batch is sent: it is due from now on.
LEMMA DueGrows ==
  ASSUME TypeOK, TypeOK', IdsDistinct, IdsDistinct', NEW k \in Keys, NEW x, NEW c,
         \A id, b : Carries(id, b)' => Carries(id, b) \/ (id = x /\ b = c),
         \A b : ~Carries(x, b), Carries(x, c)'
  PROVE  Due(k) \in Nat /\ Due(k)' \in Nat /\ Due(k)' <= Due(k) + c[k]
<1>1. PICK S : S = Open
  OBVIOUS
<1>2. PICK T : T = Open'
  OBVIOUS
<1>3. PICK f : f = [id \in Open |-> Amount(id)[k]]
  OBVIOUS
<1>4. PICK g : g = [id \in Open |-> Amount(id)[k]]'
  OBVIOUS
<1>5. IsFiniteSet(S) /\ IsFiniteSet(T) /\ \A y \in S : f[y] \in Nat
  BY <1>1, <1>2, <1>3, OpenIds, OpenIdsNext DEF Bytes, Opened
<1>6. \A id \in T \ {x} : id \in S /\ g[id] = f[id]
  <2> SUFFICES ASSUME NEW id \in T \ {x} PROVE id \in S /\ g[id] = f[id]
    OBVIOUS
  <2>1. Carries(id, Amount(id))' /\ (Amount(id))' \in Bytes
    BY <1>2, OpenIdsNext DEF Opened
  <2>2. PICK b : b = (Amount(id))'
    OBVIOUS
  <2>3. Carries(id, b)
    BY <2>1, <2>2
  <2>4. id \in Open /\ Amount(id) = b
    BY <2>3, OpenIds DEF Opened
  <2>5. g[id] = b[k]
    BY <1>2, <1>4, <2>2
  <2> QED BY <1>1, <1>3, <2>4, <2>5
<1>7. x \in T /\ g[x] = c[k] /\ c \in Bytes
  BY <1>2, <1>4, OpenIdsNext DEF Opened
<1>8. Due(k) = SumFunctionOnSet(f, S) /\ Due(k)' = SumFunctionOnSet(g, T)
  BY <1>1, <1>2, <1>3, <1>4 DEF Due
<1>9. \A y \in T : g[y] \in Nat
  BY <1>5, <1>6, <1>7 DEF Bytes
<1>10. SumFunctionOnSet(g, T) = g[x] + SumFunctionOnSet(g, T \ {x})
  BY <1>5, <1>7, <1>9, SumTake
<1>11. T \ {x} \in SUBSET S /\ IsFiniteSet(T \ {x})
  BY <1>5, <1>6, FS_RemoveElement
<1>12. SumFunctionOnSet(g, T \ {x}) <= SumFunctionOnSet(f, S)
  BY <1>5, <1>6, <1>11, SumMono
<1>13. SumFunctionOnSet(g, T \ {x}) \in Nat /\ SumFunctionOnSet(f, S) \in Nat
       /\ SumFunctionOnSet(g, T) \in Nat
  BY <1>5, <1>9, <1>11, SumNat
<1> QED
  BY <1>7, <1>8, <1>9, <1>10, <1>12, <1>13

\* How the two queues change.
LEMMA Queues ==
  ASSUME TypeOK
  PROVE  /\ DOMAIN wire = 1..Len(wire) /\ Len(wire) \in Nat
         /\ DOMAIN acks = 1..Len(acks) /\ Len(acks) \in Nat
         /\ \A i \in DOMAIN wire : wire[i] \in Frame
         /\ \A n \in DOMAIN acks : acks[n] \in Ack
         /\ wire # <<>> => /\ Head(wire) = wire[1] /\ 1 \in DOMAIN wire
                           /\ DOMAIN Tail(wire) = 1..(Len(wire) - 1)
                           /\ \A i \in DOMAIN Tail(wire) : Tail(wire)[i] = wire[i + 1] /\ i + 1 \in DOMAIN wire
         /\ acks # <<>> => /\ Head(acks) = acks[1] /\ 1 \in DOMAIN acks
                           /\ DOMAIN Tail(acks) = 1..(Len(acks) - 1)
                           /\ \A n \in DOMAIN Tail(acks) : Tail(acks)[n] = acks[n + 1] /\ n + 1 \in DOMAIN acks
BY DEF TypeOK

\* A sent batch is carried under an id nothing else has.
LEMMA SendCarries ==
  ASSUME TypeOK, IdsDistinct, NEW id \in Ids, Send(id), NEW c, c = dialer.batch
  PROVE  /\ IdsDistinct'
         /\ \A j, b : Carries(j, b)' => Carries(j, b) \/ (j = id /\ b = c)
         /\ \A b : ~Carries(id, b)
         /\ Carries(id, c)'
<1>1. /\ \A i \in DOMAIN wire : wire[i].id # id
      /\ \A n \in DOMAIN acks : acks[n].id # id
      /\ id \notin DOMAIN pending
  BY DEF Send, UsedIds
<1>2. /\ DOMAIN wire' = 1..(Len(wire) + 1)
      /\ \A i \in DOMAIN wire : wire'[i] = wire[i]
      /\ wire'[Len(wire) + 1] = [id |-> id, bytes |-> c, live |-> TRUE]
      /\ acks' = acks
  BY DEF Send, TypeOK
<1>3. /\ DOMAIN pending' \subseteq DOMAIN pending \cup {id}
      /\ \A i \in DOMAIN pending' : pending'[i] = IF i = id THEN c ELSE pending[i]
  BY DEF Send, Track
<1>4. /\ DOMAIN wire = 1..Len(wire) /\ Len(wire) \in Nat
  BY Queues
<1>5. \A i \in DOMAIN wire' : i \in DOMAIN wire \/ i = Len(wire) + 1
  BY <1>2, <1>4
<1>6. wire'[Len(wire) + 1].id = id /\ wire'[Len(wire) + 1].bytes = c
      /\ Len(wire) + 1 \in DOMAIN wire'
  BY <1>2, <1>4
<1>7. IdsDistinct'
  BY <1>1, <1>2, <1>3, <1>4, <1>5, <1>6 DEF IdsDistinct
<1>8. \A j, b : Carries(j, b)' => Carries(j, b) \/ (j = id /\ b = c)
  BY <1>1, <1>2, <1>3, <1>5, <1>6 DEF Carries
<1>9. \A b : ~Carries(id, b)
  BY <1>1 DEF Carries
<1>10. Carries(id, c)'
  BY <1>6 DEF Carries
<1> QED BY <1>7, <1>8, <1>9, <1>10

\* An answer ends what it answers: a refused batch is no longer carried.
LEMMA AckCarries ==
  ASSUME TypeOK, IdsDistinct, HandleAck, NEW x, x = Head(acks).id
  PROVE  /\ IdsDistinct'
         /\ \A j, b : Carries(j, b)' => Carries(j, b)
         /\ x \in DOMAIN pending /\ ~Head(acks).ok =>
              /\ Carries(x, pending[x])
              /\ \A b : ~Carries(x, b)'
<1>1. /\ acks # <<>> /\ acks' = Tail(acks) /\ wire' = wire
      /\ DOMAIN pending' = DOMAIN pending \ {Head(acks).id}
      /\ \A i \in DOMAIN pending' : pending'[i] = pending[i]
  BY DEF HandleAck
<1>2. /\ Head(acks) = acks[1] /\ 1 \in DOMAIN acks
      /\ DOMAIN acks' = 1..(Len(acks) - 1) /\ Len(acks) \in Nat /\ DOMAIN acks = 1..Len(acks)
      /\ \A n \in DOMAIN acks' : acks'[n] = acks[n + 1] /\ n + 1 \in DOMAIN acks /\ n + 1 # 1
  BY <1>1, Queues
<1>3. \A m, n \in DOMAIN acks' : m # n => m + 1 # n + 1
  BY <1>2
<1>4. IdsDistinct'
  BY <1>1, <1>2, <1>3 DEF IdsDistinct
<1>5. \A j, b : Carries(j, b)' => Carries(j, b)
  BY <1>1, <1>2 DEF Carries
<1>6. ASSUME x \in DOMAIN pending, ~Head(acks).ok
      PROVE  Carries(x, pending[x]) /\ \A b : ~Carries(x, b)'
  <2>1. Carries(x, pending[x])
    BY <1>2, <1>6 DEF Carries
  <2>3. \A i \in DOMAIN wire' : wire'[i].id # x
    BY <1>1, <1>2 DEF IdsDistinct
  <2>4. \A n \in DOMAIN acks' : acks'[n].id # x
    BY <1>2 DEF IdsDistinct
  <2>5. \A b : ~Carries(x, b)'
    BY <2>3, <2>4 DEF Carries
  <2> QED BY <2>1, <2>5
<1> QED BY <1>4, <1>5, <1>6

\* A billed batch is no longer carried, a refused one still is.
LEMMA AnswerCarries ==
  ASSUME TypeOK, IdsDistinct, NEW ok \in BOOLEAN, Answer(ok), UNCHANGED pending,
         NEW h, h = Head(wire)
  PROVE  /\ IdsDistinct'
         /\ \A j, b : Carries(j, b)' => Carries(j, b)
         /\ ok => Carries(h.id, h.bytes) /\ \A b : ~Carries(h.id, b)'
<1>1. /\ wire # <<>> /\ wire' = Tail(wire) /\ pending' = pending
  BY DEF Answer
<1>2. /\ Head(wire) = wire[1] /\ 1 \in DOMAIN wire
      /\ DOMAIN wire' = 1..(Len(wire) - 1) /\ Len(wire) \in Nat /\ DOMAIN wire = 1..Len(wire)
      /\ \A n \in DOMAIN wire' : wire'[n] = wire[n + 1] /\ n + 1 \in DOMAIN wire /\ n + 1 # 1
  BY <1>1, Queues
<1>3. \A m, n \in DOMAIN wire' : m # n => m + 1 # n + 1
  BY <1>2
<1>5. h = wire[1]
  BY <1>2
<1>6. \A i \in DOMAIN wire' : wire'[i].id # h.id
  BY <1>2, <1>5 DEF IdsDistinct
<1>7. /\ DOMAIN acks' \subseteq DOMAIN acks \cup {Len(acks) + 1}
      /\ \A n \in DOMAIN acks : acks'[n] = acks[n]
      /\ \A n \in DOMAIN acks' \ DOMAIN acks : n = Len(acks) + 1 /\ acks'[n] = [id |-> h.id, ok |-> ok]
  <2>1. acks \in Seq(Ack) /\ [id |-> h.id, ok |-> ok] \in Ack
    BY <1>2, <1>5, Queues DEF TypeOK, Frame, Ack
  <2>2. CASE h.live
    <3>1. acks' = Append(acks, [id |-> h.id, ok |-> ok])
      BY <2>2 DEF Answer
    <3> QED BY <2>1, <3>1
  <2>3. CASE ~h.live
    BY <2>3 DEF Answer
  <2> QED BY <2>2, <2>3
<1>8. \A n \in DOMAIN acks' : n \in DOMAIN acks \/ (n = Len(acks) + 1 /\ acks'[n].id = h.id /\ acks'[n].ok = ok)
  BY <1>7
<1>9. \A n \in DOMAIN acks : acks[n].id # h.id
  BY <1>2, <1>5 DEF IdsDistinct
<1>10. IdsDistinct'
  BY <1>1, <1>2, <1>3, <1>5, <1>6, <1>7, <1>8, <1>9 DEF IdsDistinct
<1>11. \A j, b : Carries(j, b)' => Carries(j, b)
  <2> SUFFICES ASSUME NEW j, NEW b, Carries(j, b)' PROVE Carries(j, b)
    OBVIOUS
  <2>1. CASE \E i \in DOMAIN wire' : wire'[i].id = j /\ wire'[i].bytes = b
    BY <1>2, <2>1 DEF Carries
  <2>2. CASE \E n \in DOMAIN acks' :
               acks'[n].id = j /\ ~acks'[n].ok /\ j \in DOMAIN pending /\ pending[j] = b
    <3>1. PICK n \in DOMAIN acks' :
               acks'[n].id = j /\ ~acks'[n].ok /\ j \in DOMAIN pending /\ pending[j] = b
      BY <2>2
    <3>2. CASE n \in DOMAIN acks
      BY <1>7, <3>1, <3>2 DEF Carries
    <3>3. CASE n \notin DOMAIN acks
      <4>1. j = h.id /\ j = wire[1].id
        BY <1>5, <1>8, <3>1, <3>3
      <4>2. pending[j] = wire[1].bytes
        BY <1>2, <3>1, <4>1 DEF IdsDistinct
      <4> QED BY <1>2, <3>1, <4>1, <4>2 DEF Carries
    <3> QED BY <3>2, <3>3
  <2> QED BY <1>1, <2>1, <2>2 DEF Carries
<1>12. ASSUME ok
       PROVE  /\ Carries(h.id, h.bytes)
              /\ \A b : ~Carries(h.id, b)'
  <2>1. Carries(h.id, h.bytes)
    BY <1>2, <1>5 DEF Carries
  <2>2. \A n \in DOMAIN acks' : acks'[n].id = h.id => acks'[n].ok
    BY <1>7, <1>8, <1>9, <1>12
  <2> QED BY <1>6, <2>1, <2>2 DEF Carries
<1> QED BY <1>10, <1>11, <1>12

\* Nothing new is carried when a session or the process is lost.
LEMMA CutCarries ==
  ASSUME TypeOK, IdsDistinct, CutWire, acks' = <<>>,
         DOMAIN pending' \subseteq DOMAIN pending, \A i \in DOMAIN pending' : pending'[i] = pending[i]
  PROVE  /\ IdsDistinct'
         /\ \A j, b : Carries(j, b)' => Carries(j, b)
<1>1. PICK n \in 0..Len(wire) : wire' = [i \in 1..n |-> [wire[i] EXCEPT !.live = FALSE]]
  BY DEF CutWire
<1>2. \A i \in DOMAIN wire' : i \in DOMAIN wire /\ wire'[i].id = wire[i].id /\ wire'[i].bytes = wire[i].bytes
  BY <1>1, Queues DEF Frame
<1>3. DOMAIN acks' = {}
  OBVIOUS
<1>4. IdsDistinct'
  BY <1>2, <1>3 DEF IdsDistinct
<1>5. \A j, b : Carries(j, b)' => Carries(j, b)
  BY <1>2, <1>3 DEF Carries
<1> QED BY <1>4, <1>5

\* Both hold in every reachable state.
BilledInv == IdsDistinct /\ BilledClaimed

\* Nothing is carried that was not when the queues stay as they are.
LEMMA CalmCarries ==
  ASSUME IdsDistinct, UNCHANGED <<wire, acks, pending>>
  PROVE  IdsDistinct' /\ \A j, b : Carries(j, b)' => Carries(j, b)
BY DEF IdsDistinct, Carries

\* What is due and claimed are numbers.
LEMMA BilledTypes ==
  ASSUME TypeOK, IdsDistinct, NEW k \in Keys
  PROVE  /\ billed[k] \in Nat /\ Due(k) \in Nat /\ claimed[k] \in Int /\ Held(k) \in Nat
BY DueNat DEF TypeOK, Bytes, Held

\* Steps that settle nothing and claim nothing.
LEMMA BilledCalm ==
  ASSUME TypeOK, TypeOK', BilledInv, UNCHANGED <<wire, acks, pending, billed, claimed>>,
         dialer'.pc = "send" => dialer' = dialer
  PROVE  BilledInv'
<1>1. IdsDistinct' /\ \A j, b : Carries(j, b)' => Carries(j, b)
  BY CalmCarries DEF BilledInv
<1>2. ASSUME NEW k \in Keys
      PROVE  (billed[k] + Due(k) + Held(k) <= claimed[k])'
  <2>1. Due(k)' <= Due(k) /\ Due(k) \in Nat /\ Due(k)' \in Nat
    BY <1>1, DueFalls DEF BilledInv
  <2>2. Held(k)' = Held(k) \/ Held(k)' = 0
    BY DEF Held
  <2>3. Held(k) \in Nat /\ billed[k] \in Nat /\ claimed[k] \in Int
    BY BilledTypes DEF BilledInv
  <2> QED BY <2>1, <2>2, <2>3 DEF BilledInv, BilledClaimed
<1> QED BY <1>1, <1>2 DEF BilledInv, BilledClaimed

\* Every step keeps what was billed and is due within the claims.
LEMMA BilledStep ==
  ASSUME TypeOK, TypeOK', BilledInv, [Next]_vars
  PROVE  BilledInv'
<1>0. IdsDistinct /\ BilledClaimed
  BY DEF BilledInv
<1>1. CASE SomeTraffic
  BY <1>1, BilledCalm DEF SomeTraffic, Traffic, linkVars
<1>2. CASE StartApply
  BY <1>2, BilledCalm DEF StartApply, FoldRead, linkVars, Idle
<1>3. CASE FoldReadFails
  BY <1>3, BilledCalm DEF FoldReadFails, linkVars
<1>4. CASE Fold
  BY <1>4, BilledCalm DEF Fold, linkVars
<1>5. CASE Flush
  BY <1>5, BilledCalm DEF Flush, EndApply, linkVars, Idle
<1>6. CASE FlushFails
  BY <1>6, BilledCalm DEF FlushFails, EndApply, linkVars, Idle
<1>7. CASE SampleRead
  BY <1>7, BilledCalm DEF SampleRead, linkVars, Idle
<1>8. CASE Sample
  <2> DEFINE batch == Plus(park, Delta(dialer.read, cursor))
  <2>0. UNCHANGED <<wire, acks, pending, billed>> /\ dialer.pc = "read"
        /\ claimed' = Plus(claimed, batch)
        /\ dialer' = IF batch = None THEN Idle ELSE [pc |-> "send", batch |-> batch]
    BY <1>8 DEF Sample, linkVars
  <2>1. dialer.read \in Reading
    BY <2>0 DEF TypeOK
  <2>2. batch \in Bytes
    BY <2>1, DeltaType, BytesOps DEF TypeOK
  <2>3. IdsDistinct' /\ \A j, b : Carries(j, b)' => Carries(j, b)
    BY <1>0, <2>0, CalmCarries
  <2>4. ASSUME NEW k \in Keys
        PROVE  (billed[k] + Due(k) + Held(k) <= claimed[k])'
    <3>1. Due(k)' <= Due(k) /\ Due(k) \in Nat /\ Due(k)' \in Nat
      BY <1>0, <2>3, DueFalls
    <3>2. batch[k] \in Nat
      BY <2>2 DEF Bytes
    <3>3. claimed'[k] = claimed[k] + batch[k]
      BY <2>0 DEF Plus
    <3>4. Held(k)' = batch[k]
      <4>1. CASE batch = None
        BY <2>0, <4>1 DEF Held, Idle, None
      <4>2. CASE batch # None
        BY <2>0, <4>2 DEF Held
      <4> QED BY <4>1, <4>2
    <3>5. billed[k] \in Nat /\ claimed[k] \in Int /\ Held(k) = 0
      BY <1>0, <2>0, BilledTypes DEF Held
    <3> HIDE DEF batch
    <3> QED BY <1>0, <2>0, <3>1, <3>2, <3>3, <3>4, <3>5 DEF BilledClaimed
  <2> QED BY <2>3, <2>4 DEF BilledInv, BilledClaimed
<1>9. CASE SendSome
  <2>1. PICK id \in Ids : Send(id)
    BY <1>9 DEF SendSome
  <2>2. PICK c : c = dialer.batch
    OBVIOUS
  <2>3. /\ IdsDistinct' /\ \A j, b : Carries(j, b)' => Carries(j, b) \/ (j = id /\ b = c)
        /\ \A b : ~Carries(id, b)
        /\ Carries(id, c)'
    BY <1>0, <2>1, <2>2, SendCarries
  <2>4. ASSUME NEW k \in Keys
        PROVE  (billed[k] + Due(k) + Held(k) <= claimed[k])'
    <3>1. Due(k)' <= Due(k) + c[k] /\ Due(k) \in Nat /\ Due(k)' \in Nat
      BY <1>0, <2>3, DueGrows
    <3>2. Held(k) = c[k] /\ Held(k)' = 0 /\ billed' = billed /\ claimed' = claimed
      BY <2>1, <2>2 DEF Send, Held, Idle
    <3>3. Held(k) \in Nat /\ billed[k] \in Nat /\ claimed[k] \in Int
      BY <1>0, BilledTypes
    <3> QED BY <1>0, <3>1, <3>2, <3>3 DEF BilledClaimed
  <2> QED BY <2>3, <2>4 DEF BilledInv, BilledClaimed
<1>10. CASE SendFails
  <2>1. UNCHANGED <<wire, acks, pending, billed>> /\ dialer.pc = "send" /\ dialer' = Idle
        /\ claimed' = Minus(claimed, dialer.batch)
    BY <1>10 DEF SendFails, ReAdd, linkVars
  <2>3. IdsDistinct' /\ \A j, b : Carries(j, b)' => Carries(j, b)
    BY <1>0, <2>1, CalmCarries
  <2>4. ASSUME NEW k \in Keys
        PROVE  (billed[k] + Due(k) + Held(k) <= claimed[k])'
    <3>1. Due(k)' <= Due(k) /\ Due(k) \in Nat /\ Due(k)' \in Nat
      BY <1>0, <2>3, DueFalls
    <3>2. Held(k) = dialer.batch[k] /\ Held(k)' = 0 /\ claimed'[k] = claimed[k] - dialer.batch[k]
      BY <2>1 DEF Held, Idle, Minus
    <3>3. Held(k) \in Nat /\ billed[k] \in Nat /\ claimed[k] \in Int
      BY <1>0, BilledTypes
    <3> QED BY <1>0, <2>1, <3>1, <3>2, <3>3 DEF BilledClaimed
  <2> QED BY <2>3, <2>4 DEF BilledInv, BilledClaimed
<1>11. CASE HandleAck
  <2>1. PICK x : x = Head(acks).id
    OBVIOUS
  <2>2. /\ IdsDistinct' /\ \A j, b : Carries(j, b)' => Carries(j, b)
        /\ x \in DOMAIN pending /\ ~Head(acks).ok =>
              /\ Carries(x, pending[x])
              /\ \A b : ~Carries(x, b)'
    BY <1>0, <1>11, <2>1, AckCarries
  <2>3. /\ dialer.pc = "idle" /\ dialer' = dialer /\ billed' = billed
        /\ IF x \in DOMAIN pending /\ ~Head(acks).ok THEN claimed' = Minus(claimed, pending[x])
           ELSE claimed' = claimed
    BY <1>11, <2>1 DEF HandleAck, ReAdd, Idle
  <2>4. ASSUME NEW k \in Keys
        PROVE  (billed[k] + Due(k) + Held(k) <= claimed[k])'
    <3>1. /\ Due(k)' <= Due(k) /\ Due(k) \in Nat /\ Due(k)' \in Nat
          /\ \A y, c : Carries(y, c) /\ (\A b : ~Carries(y, b)') => Due(k)' <= Due(k) - c[k]
      BY <1>0, <2>2, DueFalls
    <3>2. Held(k) = 0 /\ Held(k)' = 0
      BY <2>3 DEF Held
    <3>3. billed[k] \in Nat /\ claimed[k] \in Int
      BY <1>0, BilledTypes
    <3>4. CASE x \in DOMAIN pending /\ ~Head(acks).ok
      <4>1. Due(k)' <= Due(k) - pending[x][k]
        BY <2>2, <3>1, <3>4
      <4>2. claimed'[k] = claimed[k] - pending[x][k] /\ pending[x][k] \in Nat
        BY <2>3, <3>4 DEF Minus, TypeOK, Bytes
      <4> QED BY <1>0, <2>3, <3>1, <3>2, <3>3, <4>1, <4>2 DEF BilledClaimed
    <3>5. CASE ~(x \in DOMAIN pending /\ ~Head(acks).ok)
      BY <1>0, <2>3, <3>1, <3>2, <3>3, <3>5 DEF BilledClaimed
    <3> QED BY <3>4, <3>5
  <2> QED BY <2>2, <2>4 DEF BilledInv, BilledClaimed
<1>12. CASE Bill
  <2>1. PICK h : h = Head(wire)
    OBVIOUS
  <2>2. /\ IdsDistinct' /\ \A j, b : Carries(j, b)' => Carries(j, b)
        /\ Carries(h.id, h.bytes) /\ \A b : ~Carries(h.id, b)'
    BY <1>0, <1>12, <2>1, AnswerCarries DEF Bill
  <2>3. /\ dialer' = dialer /\ claimed' = claimed /\ billed' = Plus(billed, h.bytes)
    BY <1>12, <2>1 DEF Bill
  <2>4. ASSUME NEW k \in Keys
        PROVE  (billed[k] + Due(k) + Held(k) <= claimed[k])'
    <3>1. Due(k)' <= Due(k) - h.bytes[k] /\ Due(k) \in Nat /\ Due(k)' \in Nat
      BY <1>0, <2>2, DueFalls
    <3>2. Held(k)' = Held(k) /\ billed'[k] = billed[k] + h.bytes[k]
      BY <2>3 DEF Held, Plus
    <3>3. billed[k] \in Nat /\ claimed[k] \in Int /\ Held(k) \in Nat
      BY <1>0, BilledTypes
    <3>4. h.bytes[k] \in Nat
      BY <1>0, <2>2, OpenIds DEF Opened, Bytes
    <3> QED BY <1>0, <2>3, <3>1, <3>2, <3>3, <3>4 DEF BilledClaimed
  <2> QED BY <2>2, <2>4 DEF BilledInv, BilledClaimed
<1>13. CASE Refuse \/ Disconnect \/ Restart
  <2>1. IdsDistinct' /\ \A j, b : Carries(j, b)' => Carries(j, b)
    <3>1. CASE Refuse
      BY <1>0, <3>1, AnswerCarries DEF Refuse
    <3>2. CASE Disconnect
      BY <1>0, <3>2, CutCarries DEF Disconnect
    <3>3. CASE Restart
      BY <1>0, <3>3, CutCarries DEF Restart
    <3> QED BY <1>13, <3>1, <3>2, <3>3
  <2>2. /\ dialer' = dialer \/ dialer'.pc = "idle"
        /\ billed' = billed /\ claimed' = claimed
    <3>1. CASE Refuse
      BY <3>1 DEF Refuse
    <3>2. CASE Disconnect
      BY <3>2 DEF Disconnect
    <3>3. CASE Restart
      BY <3>3 DEF Restart, Idle
    <3> QED BY <1>13, <3>1, <3>2, <3>3
  <2>3. ASSUME NEW k \in Keys
        PROVE  (billed[k] + Due(k) + Held(k) <= claimed[k])'
    <3>1. Due(k)' <= Due(k) /\ Due(k) \in Nat /\ Due(k)' \in Nat
      BY <1>0, <2>1, DueFalls
    <3>2. Held(k)' = Held(k) \/ Held(k)' = 0
      BY <2>2 DEF Held
    <3>3. Held(k) \in Nat /\ billed[k] \in Nat /\ claimed[k] \in Int
      BY <1>0, BilledTypes
    <3> QED BY <1>0, <2>2, <3>1, <3>2, <3>3 DEF BilledClaimed
  <2> QED BY <2>1, <2>3 DEF BilledInv, BilledClaimed
<1>14. CASE Connect
  BY <1>14, BilledCalm DEF Connect
<1>15. CASE UNCHANGED vars
  BY <1>15, BilledCalm DEF vars, linkVars
<1> QED
  BY <1>1, <1>2, <1>3, <1>4, <1>5, <1>6, <1>7, <1>8, <1>9, <1>10, <1>11, <1>12, <1>13, <1>14,
     <1>15 DEF Next

\* They start at zero.
LEMMA BilledInit == Init => BilledInv
<1> SUFFICES ASSUME Init PROVE BilledInv
  OBVIOUS
<1>1. wire = <<>> /\ acks = <<>> /\ dialer = Idle /\ billed = None /\ claimed = None
  BY DEF Init
<1>2. IdsDistinct
  BY <1>1 DEF IdsDistinct
<1>3. \A id, b : ~Carries(id, b)
  BY <1>1 DEF Carries
<1>4. Open = {}
  BY <1>3 DEF Open
<1>5. \A k \in Keys : Due(k) = 0 /\ Held(k) = 0 /\ billed[k] = 0 /\ claimed[k] = 0
  BY <1>1, <1>4, SumEmpty DEF Due, Held, None, Idle
<1> QED BY <1>2, <1>5 DEF BilledInv, BilledClaimed

\* What was billed was claimed.
BilledCovered == \A k \in Keys : billed[k] <= claimed[k]

\* The panel never bills a byte the agent has not claimed, nor one it has taken
\* back: whoever applies rulesets, whether the table outlives the process or
\* not, however frames, answers, sessions and processes are lost and ids reused
\* (handleAck, trackPendingCounters, applyCounters).
THEOREM BilledAlwaysClaimed == Spec => []BilledCovered
<1>1. Init => BilledInv
  BY BilledInit
<1>2. TypeOK /\ TypeOK' /\ BilledInv /\ [Next]_vars => BilledInv'
  BY BilledStep
<1>3. TypeOK /\ BilledInv => BilledCovered
  <2> SUFFICES ASSUME TypeOK, BilledInv, NEW k \in Keys PROVE billed[k] <= claimed[k]
    BY DEF BilledCovered
  <2>1. billed[k] \in Nat /\ Due(k) \in Nat /\ claimed[k] \in Int /\ Held(k) \in Nat
    BY BilledTypes DEF BilledInv
  <2> QED BY <2>1 DEF BilledInv, BilledClaimed
<1> QED
  BY <1>1, <1>2, <1>3, TypeCorrect, PTL DEF Spec

\* Every step is a step of Metering or changes nothing Metering sees.
LEMMA MeterStep ==
  ASSUME TypeOK, TypeOK', ClaimsBounded', BilledCovered', [Next]_vars
  PROVE  [Meter!Next]_<<[k \in Keys |-> Real(k)], [k \in Keys |-> claimed[k] + park[k]], billed>>
<1>1. \A k \in Keys :
        /\ kernel[k] \in Nat /\ base[k] \in Nat /\ park[k] \in Nat /\ claimed[k] \in Int
        /\ billed[k] \in Nat /\ kernel'[k] \in Nat /\ base'[k] \in Nat /\ park'[k] \in Nat
        /\ claimed'[k] \in Int /\ billed'[k] \in Nat
  BY DEF TypeOK, Bytes
<1>2. \A k \in Keys : billed'[k] <= claimed'[k] + park'[k] /\ claimed'[k] + park'[k] <= base'[k] + kernel'[k]
  BY <1>1 DEF BilledCovered, ClaimsBounded, Real
<1>3. CASE SomeTraffic
  <2>1. PICK j \in table : kernel' = [kernel EXCEPT ![j] = @ + 1]
    BY <1>3 DEF SomeTraffic, Traffic
  <2>2. kernel \in [Keys -> Nat] /\ j \in Keys
    BY <2>1 DEF TypeOK, Bytes
  <2>3. \A k \in Keys : kernel[k] <= kernel'[k]
    BY <1>1, <2>1, <2>2
  <2>4. UNCHANGED <<base, park, claimed, billed>>
    BY <1>3 DEF SomeTraffic, Traffic, daemonVars
  <2>5. Meter!Forward
    BY <1>1, <2>3, <2>4 DEF Meter!Forward, Meter!AtMost, Real
  <2> QED BY <2>5 DEF Meter!Next
<1>4. CASE Bill
  <2>1. Head(wire) \in Frame /\ billed' = Plus(billed, Head(wire).bytes)
    BY <1>4, AnswerType DEF Bill, TypeOK
  <2>2. UNCHANGED <<kernel, base, park, claimed>>
    BY <1>4 DEF Bill, daemonVars
  <2>3. \A k \in Keys : billed[k] <= billed'[k]
    BY <1>1, <2>1 DEF Plus, Frame, Bytes
  <2>4. Meter!Bill
    BY <1>2, <2>2, <2>3 DEF Meter!Bill, Meter!AtMost, Real
  <2> QED BY <2>4 DEF Meter!Next
<1>5. CASE billed' = billed /\ \A k \in Keys : base'[k] + kernel'[k] = base[k] + kernel[k]
  <2>1. Meter!Take
    BY <1>1, <1>2, <1>5 DEF Meter!Take, Meter!AtMost, Real
  <2> QED BY <2>1 DEF Meter!Next
<1>6. CASE Flush \/ Restart
  BY <1>1, <1>5, <1>6 DEF Flush, Restart, Plus, None
<1>7. CASE UNCHANGED <<kernel, base, billed>>
  BY <1>5, <1>7
<1>8. StartApply \/ FoldReadFails \/ Fold \/ FlushFails => UNCHANGED <<kernel, base, billed>>
  BY DEF StartApply, FoldRead, FoldReadFails, Fold, FlushFails
<1>9. SampleRead \/ Sample \/ SendSome \/ SendFails \/ HandleAck => UNCHANGED <<kernel, base, billed>>
  BY DEF SampleRead, Sample, SendSome, Send, SendFails, HandleAck
<1>10. Refuse \/ Disconnect \/ Connect \/ UNCHANGED vars => UNCHANGED <<kernel, base, billed>>
  BY DEF Refuse, Disconnect, Connect, vars
<1> QED
  BY <1>3, <1>4, <1>6, <1>7, <1>8, <1>9, <1>10 DEF Next

\* The agent and the panel implement Metering: no byte is taken twice, none is
\* billed that was not taken, and the panel's ledger never goes back.
THEOREM ImplementsMetering ==
  ASSUME Sequential
  PROVE  Spec => Metered
<1>1. Init => Meter!Init
  BY DEF Init, Meter!Init, None, Real
<1>2. /\ TypeOK /\ TypeOK' /\ ClaimsBounded' /\ BilledCovered' /\ [Next]_vars
      => [Meter!Next]_<<[k \in Keys |-> Real(k)], [k \in Keys |-> claimed[k] + park[k]], billed>>
  BY MeterStep
<1> QED
  BY <1>1, <1>2, TypeCorrect, ClaimsAlwaysBounded, BilledAlwaysClaimed, PTL
  DEF Spec, Metered, Meter!Spec

-----------------------------------------------------------------------------
\* The bytes of the batches the panel has not decided, or has refused.
Sent(k) == SumFunctionOnSet([i \in DOMAIN pending |-> pending[i][k]], Unsettled)

\* Every batch on the wire or answered is tracked, and can still be answered.
Followed ==
  /\ IdsDistinct /\ IsFiniteSet(DOMAIN pending)
  /\ \A i \in DOMAIN wire : wire[i].live /\ wire[i].id \in DOMAIN pending
  /\ \A n \in DOMAIN acks : acks[n].id \in DOMAIN pending

\* A reading of the present table, not overtaken by another.
Recent(r) ==
  /\ r.keys = table
  /\ \A k \in Keys : cursor[k] <= r.value[k] /\ r.value[k] <= kernel[k]

\* The cursor stands where the bytes end that were billed, handed out or parked.
Balanced == \A k \in Keys : billed[k] + Sent(k) + Held(k) + park[k] = cursor[k]

LosslessInv ==
  lossless =>
    /\ connected /\ Followed /\ Balanced
    /\ \A k \in Keys : base[k] = 0 /\ cursor[k] <= kernel[k]
    /\ \A k \in Keys \ table : kernel[k] = 0
    /\ dialer.pc = "read" => Recent(dialer.read)
    /\ apply.pc = "fold" => Recent(apply.read)
    /\ apply.pc # "idle" => apply.by = "dialer" /\ dialer.pc = "apply"

LEMMA SentNat ==
  ASSUME TypeOK, Followed, NEW k \in Keys
  PROVE  /\ Sent(k) \in Nat /\ IsFiniteSet(Unsettled) /\ Unsettled \subseteq DOMAIN pending
         /\ \A i \in DOMAIN pending : pending[i][k] \in Nat
<1>1. \A i \in DOMAIN pending : pending[i][k] \in Nat
  BY DEF TypeOK, Bytes
<1>2. Unsettled \subseteq DOMAIN pending /\ IsFiniteSet(Unsettled)
  BY FS_Subset DEF Unsettled, Followed
<1>3. PICK f : f = [i \in DOMAIN pending |-> pending[i][k]]
  OBVIOUS
<1>4. \A i \in Unsettled : f[i] \in Nat
  BY <1>1, <1>2, <1>3
<1>5. SumFunctionOnSet(f, Unsettled) \in Nat
  BY <1>2, <1>4, SumNat
<1> QED BY <1>1, <1>2, <1>3, <1>5 DEF Sent

\* What is sent after a step in which the batches keep their bytes: one batch
\* more, one less, or the same.
LEMMA SentNext ==
  ASSUME TypeOK, TypeOK', Followed, NEW k \in Keys, Unsettled' \subseteq DOMAIN pending',
         \A i \in DOMAIN pending \cap DOMAIN pending' : pending'[i] = pending[i],
         \A i \in Unsettled' : i \in DOMAIN pending => i \in Unsettled
  PROVE  /\ Unsettled' = Unsettled => Sent(k)' = Sent(k)
         /\ \A x : x \in Unsettled /\ Unsettled' = Unsettled \ {x} => Sent(k)' = Sent(k) - pending[x][k]
         /\ \A x : x \notin Unsettled /\ Unsettled' = Unsettled \cup {x} =>
                     Sent(k)' = Sent(k) + pending'[x][k]
<1>1. PICK f, g : /\ f = [i \in DOMAIN pending |-> pending[i][k]]
                  /\ g = [i \in DOMAIN pending' |-> pending'[i][k]]
  OBVIOUS
<1>2. PICK S, T : S = Unsettled /\ T = Unsettled'
  OBVIOUS
<1>3. /\ Sent(k) = SumFunctionOnSet(f, S) /\ Sent(k)' = SumFunctionOnSet(g, T)
      /\ IsFiniteSet(S) /\ Sent(k) \in Nat
  BY <1>1, <1>2, SentNat DEF Sent
<1>4. /\ \A i \in S : i \in DOMAIN pending /\ f[i] = pending[i][k] /\ f[i] \in Nat
      /\ \A i \in T : i \in DOMAIN pending' /\ g[i] = pending'[i][k] /\ g[i] \in Nat
      /\ \A i \in T : i \in S => g[i] = f[i]
  <2>1. \A i \in S : i \in DOMAIN pending /\ f[i] = pending[i][k] /\ f[i] \in Nat
    BY <1>1, <1>2, SentNat
  <2>2. \A i \in DOMAIN pending' : pending'[i][k] \in Nat
    BY DEF TypeOK, Bytes
  <2>3. T \subseteq DOMAIN pending'
    BY <1>2
  <2>4. \A i \in T : i \in DOMAIN pending' /\ g[i] = pending'[i][k] /\ g[i] \in Nat
    BY <1>1, <2>2, <2>3
  <2> QED BY <2>1, <2>4
<1>5. ASSUME T = S  PROVE SumFunctionOnSet(g, T) = SumFunctionOnSet(f, S)
  <2>1. \A x \in S : f[x] \in Int /\ g[x] = f[x]
    BY <1>4, <1>5
  <2> QED BY <1>3, <1>5, <2>1, SumSame
<1>6. ASSUME NEW x \in S, T = S \ {x}
      PROVE  SumFunctionOnSet(g, T) = SumFunctionOnSet(f, S) - pending[x][k]
  <2>1. IsFiniteSet(T) /\ \A y \in T : f[y] \in Int /\ g[y] = f[y]
    BY <1>3, <1>4, <1>6, FS_Subset
  <2>2. SumFunctionOnSet(g, T) = SumFunctionOnSet(f, T)
    BY <2>1, SumSame
  <2>3. \A y \in S : f[y] \in Int
    BY <1>4
  <2>4. SumFunctionOnSet(f, S) = f[x] + SumFunctionOnSet(f, S \ {x})
    BY <1>3, <2>3, SumTake
  <2>5. SumFunctionOnSet(f, T) \in Int
    BY <2>1, SumInt
  <2> QED BY <1>4, <1>6, <2>2, <2>4, <2>5
<1>7. ASSUME NEW x, x \notin S, T = S \cup {x}
      PROVE  SumFunctionOnSet(g, T) = SumFunctionOnSet(f, S) + pending'[x][k]
  <2>1. \A y \in S : f[y] \in Int /\ g[y] = f[y]
    BY <1>4, <1>7
  <2>2. SumFunctionOnSet(g, S) = SumFunctionOnSet(f, S)
    BY <1>3, <2>1, SumSame
  <2>3. \A y \in S \cup {x} : g[y] \in Int
    BY <1>4, <1>7
  <2>4. SumFunctionOnSet(g, S \cup {x}) = g[x] + SumFunctionOnSet(g, S)
    BY <1>3, <1>7, <2>3, SumAddOne
  <2>5. g[x] = pending'[x][k] /\ g[x] \in Int /\ SumFunctionOnSet(f, S) \in Int
    BY <1>3, <1>4, <1>7
  <2> QED BY <1>7, <2>2, <2>4, <2>5
<1> QED BY <1>2, <1>3, <1>5, <1>6, <1>7

\* Steps that neither send nor settle.
LEMMA SentCalm ==
  ASSUME TypeOK, TypeOK', Followed, UNCHANGED <<wire, acks, pending>>
  PROVE  Followed' /\ \A k \in Keys : Sent(k)' = Sent(k)
<1>1. Followed'
  BY CalmCarries DEF Followed
<1> QED BY <1>1 DEF Sent, Unsettled

\* A batch is sent and no tracked one is dropped for it.
LEMMA SendFollows ==
  ASSUME TypeOK, Followed, NEW id \in Ids, Send(id), DOMAIN pending \subseteq DOMAIN pending'
  PROVE  /\ Followed' /\ id \notin Unsettled /\ Unsettled' = Unsettled \cup {id}
         /\ pending'[id] = dialer.batch
         /\ \A i \in DOMAIN pending \cap DOMAIN pending' : pending'[i] = pending[i]
<1>1. /\ \A i \in DOMAIN wire : wire[i].id # id
      /\ \A n \in DOMAIN acks : acks[n].id # id
      /\ id \notin DOMAIN pending
  BY DEF Send, UsedIds
<1>2. /\ DOMAIN wire' = DOMAIN wire \cup {Len(wire) + 1}
      /\ \A i \in DOMAIN wire : wire'[i] = wire[i]
      /\ wire'[Len(wire) + 1] = [id |-> id, bytes |-> dialer.batch, live |-> TRUE]
      /\ acks' = acks
  BY DEF Send, TypeOK
<1>3. /\ DOMAIN pending' = DOMAIN pending \cup {id}
      /\ \A i \in DOMAIN pending' : pending'[i] = IF i = id THEN dialer.batch ELSE pending[i]
  <2>1. /\ DOMAIN pending' \subseteq DOMAIN pending \cup {id} /\ id \in DOMAIN pending'
        /\ \A i \in DOMAIN pending' : pending'[i] = IF i = id THEN dialer.batch ELSE pending[i]
    BY DEF Send, Track
  <2> QED BY <2>1
<1>4. IdsDistinct'
  BY SendCarries DEF Followed
<1>5. IsFiniteSet(DOMAIN pending')
  BY <1>3, FS_AddElement DEF Followed
<1>6. \A i \in DOMAIN wire' : wire'[i].live /\ wire'[i].id \in DOMAIN pending'
  BY <1>2, <1>3 DEF Followed
<1>7. \A n \in DOMAIN acks' : acks'[n].id \in DOMAIN pending'
  BY <1>2, <1>3 DEF Followed
<1>8. Unsettled' = Unsettled \cup {id} /\ id \notin Unsettled
  BY <1>1, <1>2, <1>3 DEF Unsettled
<1> QED BY <1>1, <1>3, <1>4, <1>5, <1>6, <1>7, <1>8 DEF Followed

\* A batch is answered: settled if it was billed.
LEMMA AnswerFollows ==
  ASSUME TypeOK, Followed, NEW ok \in BOOLEAN, Answer(ok), UNCHANGED pending, NEW h, h = Head(wire)
  PROVE  /\ Followed' /\ h.id \in Unsettled /\ pending[h.id] = h.bytes
         /\ Unsettled' = IF ok THEN Unsettled \ {h.id} ELSE Unsettled
<1>1. /\ Head(wire) = wire[1] /\ 1 \in DOMAIN wire
      /\ \A n \in DOMAIN wire' : wire'[n] = wire[n + 1] /\ n + 1 \in DOMAIN wire
  BY Queues DEF Answer
<1>2. h = wire[1] /\ h.live /\ h.id \in DOMAIN pending /\ pending[h.id] = h.bytes
  BY <1>1 DEF Followed, IdsDistinct
<1>3. \A n \in DOMAIN acks : acks[n].id # h.id
  BY <1>1, <1>2 DEF Followed, IdsDistinct
<1>4. /\ DOMAIN acks' = DOMAIN acks \cup {Len(acks) + 1}
      /\ \A n \in DOMAIN acks : acks'[n] = acks[n]
      /\ acks'[Len(acks) + 1].id = h.id /\ acks'[Len(acks) + 1].ok = ok
  <2>1. acks \in Seq(Ack) /\ [id |-> h.id, ok |-> ok] \in Ack
    BY <1>1, <1>2, Queues DEF TypeOK, Frame, Ack
  <2>2. acks' = Append(acks, [id |-> h.id, ok |-> ok])
    BY <1>2 DEF Answer
  <2> QED BY <2>1, <2>2
<1>5. IdsDistinct'
  BY AnswerCarries DEF Followed
<1>6. /\ \A i \in DOMAIN wire' : wire'[i].live /\ wire'[i].id \in DOMAIN pending
      /\ \A n \in DOMAIN acks' : acks'[n].id \in DOMAIN pending
  BY <1>1, <1>2, <1>4 DEF Followed
<1>7. h.id \in Unsettled
  BY <1>2, <1>3 DEF Unsettled
<1>8. Unsettled' = {i \in DOMAIN pending : \A n \in DOMAIN acks' : acks'[n].id = i => ~acks'[n].ok}
  BY DEF Unsettled
<1>9. Unsettled' = IF ok THEN Unsettled \ {h.id} ELSE Unsettled
  BY <1>3, <1>4, <1>8 DEF Unsettled
<1> QED BY <1>2, <1>5, <1>6, <1>7, <1>9 DEF Followed

\* An answer is handled: the batch is no longer tracked.
LEMMA AckFollows ==
  ASSUME TypeOK, Followed, HandleAck, NEW x, x = Head(acks).id
  PROVE  /\ Followed' /\ x \in DOMAIN pending /\ Unsettled' = Unsettled \ {x}
         /\ Head(acks).ok => x \notin Unsettled
         /\ ~Head(acks).ok => x \in Unsettled
         /\ \A i \in DOMAIN pending \cap DOMAIN pending' : pending'[i] = pending[i]
<1>1. /\ acks # <<>> /\ acks' = Tail(acks) /\ wire' = wire
      /\ DOMAIN pending' = DOMAIN pending \ {x}
      /\ \A i \in DOMAIN pending' : pending'[i] = pending[i]
  BY DEF HandleAck
<1>2. /\ Head(acks) = acks[1] /\ 1 \in DOMAIN acks /\ x = acks[1].id
      /\ DOMAIN acks' = 1..(Len(acks) - 1) /\ Len(acks) \in Nat /\ DOMAIN acks = 1..Len(acks)
      /\ \A n \in DOMAIN acks' : acks'[n] = acks[n + 1] /\ n + 1 \in DOMAIN acks /\ n + 1 # 1
  BY <1>1, Queues
<1>3. \A n \in DOMAIN acks : n # 1 => acks[n] = acks'[n - 1] /\ n - 1 \in DOMAIN acks'
  BY <1>2
<1>4. /\ \A i \in DOMAIN wire : wire[i].id # x
      /\ \A n \in DOMAIN acks : n # 1 => acks[n].id # x
      /\ x \in DOMAIN pending
  BY <1>2 DEF Followed, IdsDistinct
<1>5. IdsDistinct'
  BY AckCarries DEF Followed
<1>6. IsFiniteSet(DOMAIN pending')
  BY <1>1, FS_Subset DEF Followed
<1>7. /\ \A i \in DOMAIN wire' : wire'[i].live /\ wire'[i].id \in DOMAIN pending'
      /\ \A n \in DOMAIN acks' : acks'[n].id \in DOMAIN pending'
  BY <1>1, <1>2, <1>4 DEF Followed
<1>8. Unsettled' = Unsettled \ {x}
  <2>1. \A i \in DOMAIN pending \ {x} :
           (\A n \in DOMAIN acks' : acks'[n].id = i => ~acks'[n].ok)
           <=> (\A n \in DOMAIN acks : acks[n].id = i => ~acks[n].ok)
    BY <1>2, <1>3
  <2> QED BY <1>1, <2>1 DEF Unsettled
<1>9. /\ Head(acks).ok => x \notin Unsettled
      /\ ~Head(acks).ok => x \in Unsettled
  BY <1>2, <1>4 DEF Unsettled
<1> QED BY <1>1, <1>4, <1>5, <1>6, <1>7, <1>8, <1>9 DEF Followed

\* No ruleset is applied but by the dialer and Bootstrap.
Alone == Others = {}

\* What a batch given back is worth.
LEMMA ReAddBalances ==
  ASSUME TypeOK, NEW batch \in Bytes, ReAdd(batch), NEW k \in Keys
  PROVE  /\ cursor'[k] \in Nat /\ park'[k] \in Nat /\ cursor'[k] <= cursor[k]
         /\ park'[k] + cursor[k] = park[k] + batch[k] + cursor'[k]
<1>1. cursor[k] \in Nat /\ park[k] \in Nat /\ batch[k] \in Nat
  BY DEF TypeOK, Bytes
<1>2. PICK b : b = (IF k \notin tracked THEN 0
                    ELSE IF batch[k] > cursor[k] THEN cursor[k] ELSE batch[k])
  OBVIOUS
<1>3. b \in Nat /\ b <= batch[k] /\ b <= cursor[k]
  BY <1>1, <1>2
<1>4. cursor'[k] = cursor[k] - b /\ park'[k] = park[k] + (batch[k] - b)
  BY <1>2 DEF ReAdd
<1> QED BY <1>1, <1>3, <1>4

\* What a recent reading adds to the park or to a batch.
LEMMA RecentDelta ==
  ASSUME TypeOK, NEW r \in Reading, Recent(r), NEW k \in Keys, cursor[k] <= kernel[k],
         k \notin table => kernel[k] = 0
  PROVE  /\ Delta(r, cursor)[k] \in Nat
         /\ k \in table => Delta(r, cursor)[k] + cursor[k] = r.value[k]
         /\ k \notin table => Delta(r, cursor)[k] = 0 /\ cursor[k] = 0
<1>1. cursor[k] \in Nat /\ kernel[k] \in Nat /\ r.value[k] \in Nat
  BY DEF TypeOK, Bytes, Reading
<1>2. /\ k \notin r.keys => Delta(r, cursor)[k] = 0
      /\ k \in r.keys => Delta(r, cursor)[k] = IF r.value[k] < cursor[k] THEN r.value[k]
                                               ELSE r.value[k] - cursor[k]
  BY DeltaType DEF TypeOK
<1> QED BY <1>1, <1>2 DEF Recent

\* Every step that loses nothing keeps the cursor where the bytes handed out end.
LEMMA LosslessStep ==
  ASSUME Alone, TypeOK, TypeOK', LosslessInv, [Next]_vars
  PROVE  LosslessInv'
<1> SUFFICES ASSUME lossless' PROVE LosslessInv'
  BY DEF LosslessInv
<1>a. lossless
  <2>1. ~(Flush \/ Disconnect \/ Restart)
    BY DEF Flush, Disconnect, Restart
  <2>2. SomeTraffic \/ StartApply \/ FoldReadFails \/ Fold \/ FlushFails => lossless' = lossless
    BY DEF SomeTraffic, Traffic, StartApply, FoldRead, FoldReadFails, Fold, FlushFails, linkVars
  <2>3. SampleRead \/ Sample \/ SendFails \/ HandleAck \/ Bill \/ Refuse \/ Connect => lossless' = lossless
    BY DEF SampleRead, Sample, SendFails, HandleAck, Bill, Refuse, Connect, linkVars
  <2>4. SendSome => lossless
    BY DEF SendSome, Send
  <2>5. UNCHANGED vars => lossless' = lossless
    BY DEF vars, linkVars
  <2> QED BY <2>1, <2>2, <2>3, <2>4, <2>5 DEF Next
<1>b. /\ connected /\ Followed /\ Balanced
      /\ \A k \in Keys : base[k] = 0 /\ cursor[k] <= kernel[k]
      /\ \A k \in Keys \ table : kernel[k] = 0
      /\ dialer.pc = "read" => Recent(dialer.read)
      /\ apply.pc = "fold" => Recent(apply.read)
      /\ apply.pc # "idle" => apply.by = "dialer" /\ dialer.pc = "apply"
  BY <1>a DEF LosslessInv
<1>c. \A k \in Keys :
        /\ cursor[k] \in Nat /\ park[k] \in Nat /\ kernel[k] \in Nat /\ billed[k] \in Nat
        /\ Sent(k) \in Nat /\ Held(k) \in Nat
        /\ billed[k] + Sent(k) + Held(k) + park[k] = cursor[k]
  BY <1>b, SentNat DEF TypeOK, Bytes, Balanced, Held
<1>d. /\ dialer.pc = "read" => dialer.read \in Reading
      /\ apply.pc = "fold" => apply.read \in Reading
  BY DEF TypeOK, Idle
<1>1. CASE SomeTraffic
  <2>1. PICK j \in table : kernel' = [kernel EXCEPT ![j] = @ + 1]
    BY <1>1 DEF SomeTraffic, Traffic
  <2>2. UNCHANGED <<table, base, cursor, park, apply, dialer, connected, wire, acks, pending, billed>>
    BY <1>1 DEF SomeTraffic, Traffic, daemonVars, linkVars
  <2>3. kernel \in [Keys -> Nat] /\ j \in Keys
    BY <2>1 DEF TypeOK, Bytes
  <2>4. \A k \in Keys : kernel'[k] \in Nat /\ kernel[k] <= kernel'[k]
    BY <1>c, <2>1, <2>3
  <2>5. \A k \in Keys \ table : kernel'[k] = kernel[k]
    BY <2>1, <2>3
  <2>6. ASSUME NEW r \in Reading, Recent(r) PROVE r.keys = table' /\
            \A k \in Keys : cursor'[k] <= r.value[k] /\ r.value[k] <= kernel'[k]
    BY <1>c, <2>2, <2>4, <2>6 DEF Recent, Reading, Bytes
  <2>7. Followed' /\ \A k \in Keys : Sent(k)' = Sent(k)
    BY <1>b, <2>2, SentCalm
  <2>8. Balanced'
    BY <1>b, <2>2, <2>7 DEF Balanced, Held
  <2>9. \A k \in Keys : base'[k] = 0 /\ cursor'[k] <= kernel'[k]
    BY <1>b, <1>c, <2>2, <2>4
  <2>10. /\ dialer'.pc = "read" => Recent(dialer.read)'
         /\ apply'.pc = "fold" => Recent(apply.read)'
    BY <1>b, <1>d, <2>2, <2>6 DEF Recent
  <2> QED BY <1>b, <2>2, <2>5, <2>7, <2>8, <2>9, <2>10 DEF LosslessInv
<1>2. CASE StartApply
  <2>1. PICK rules \in Rulesets : FoldRead("dialer", rules)
    BY <1>2 DEF StartApply, Alone
  <2>2. /\ dialer.pc = "idle" /\ dialer'.pc = "apply" /\ apply'.pc = "fold" /\ apply'.by = "dialer"
        /\ apply'.read = [keys |-> table, value |-> kernel]
        /\ UNCHANGED <<table, kernel, base, cursor, park, connected, wire, acks, pending, billed>>
    BY <2>1 DEF FoldRead, daemonVars, linkVars, Idle
  <2>3. Followed' /\ \A k \in Keys : Sent(k)' = Sent(k)
    BY <1>b, <2>2, SentCalm
  <2>4. Recent(apply.read)'
    BY <1>b, <1>c, <2>2 DEF Recent
  <2>5. Balanced'
    BY <1>b, <2>2, <2>3 DEF Balanced, Held
  <2> QED BY <1>b, <2>2, <2>3, <2>4, <2>5 DEF LosslessInv
<1>3. CASE FoldReadFails
  <2>1. /\ apply'.pc = "flush" /\ apply'.by = apply.by /\ apply.pc = "fold"
        /\ UNCHANGED <<table, kernel, base, cursor, park, dialer, connected, wire, acks, pending, billed>>
    BY <1>3 DEF FoldReadFails, TypeOK, Idle, daemonVars, linkVars
  <2>2. Followed' /\ \A k \in Keys : Sent(k)' = Sent(k)
    BY <1>b, <2>1, SentCalm
  <2>3. Balanced'
    BY <1>b, <2>1, <2>2 DEF Balanced, Held
  <2> QED BY <1>b, <2>1, <2>2, <2>3 DEF LosslessInv
<1>4. CASE Fold
  <2>1. /\ apply.pc = "fold" /\ apply'.pc = "flush" /\ apply'.by = apply.by
        /\ park' = Plus(park, Delta(apply.read, cursor))
        /\ cursor' = [k \in Keys |-> IF k \in apply.read.keys
                               THEN apply.read.value[k] ELSE cursor[k]]
        /\ UNCHANGED <<table, kernel, base, dialer, connected, wire, acks, pending, billed>>
    BY <1>4 DEF Fold, TypeOK, Idle, linkVars
  <2>2. Followed' /\ \A k \in Keys : Sent(k)' = Sent(k)
    BY <1>b, <2>1, SentCalm
  <2>3. apply.read \in Reading /\ Recent(apply.read)
    BY <1>b, <1>d, <2>1
  <2>4. ASSUME NEW k \in Keys
        PROVE  /\ billed'[k] + Sent(k)' + Held(k)' + park'[k] = cursor'[k]
               /\ cursor'[k] <= kernel'[k]
    <3>1. /\ park'[k] = park[k] + Delta(apply.read, cursor)[k]
          /\ cursor'[k] = IF k \in table THEN apply.read.value[k] ELSE cursor[k]
      BY <2>1, <2>3 DEF Plus, Recent
    <3>2. /\ Delta(apply.read, cursor)[k] \in Nat
          /\ k \in table => Delta(apply.read, cursor)[k] + cursor[k] = apply.read.value[k]
          /\ k \notin table => Delta(apply.read, cursor)[k] = 0 /\ cursor[k] = 0
      BY <1>b, <2>3, RecentDelta
    <3>3. apply.read.value[k] <= kernel[k] /\ apply.read.value[k] \in Nat
      BY <2>3 DEF Recent, Reading, Bytes
    <3>4. Held(k)' = Held(k)
      BY <2>1 DEF Held
    <3> QED BY <1>c, <2>1, <2>2, <3>1, <3>2, <3>3, <3>4
  <2>5. Balanced'
    BY <2>4 DEF Balanced
  <2> QED BY <1>b, <2>1, <2>2, <2>4, <2>5 DEF LosslessInv
<1>5. CASE FlushFails
  <2>1. /\ apply'.pc = "idle" /\ dialer'.pc = "idle" /\ dialer.pc = "apply"
        /\ UNCHANGED <<table, kernel, base, cursor, park, connected, wire, acks, pending, billed>>
    BY <1>5, <1>b DEF FlushFails, EndApply, Idle, daemonVars, linkVars
  <2>2. Followed' /\ \A k \in Keys : Sent(k)' = Sent(k)
    BY <1>b, <2>1, SentCalm
  <2>3. Balanced'
    BY <1>b, <2>1, <2>2 DEF Balanced, Held
  <2> QED BY <1>b, <2>1, <2>2, <2>3 DEF LosslessInv
<1>6. CASE SampleRead
  <2>1. /\ dialer.pc = "idle" /\ dialer' = [pc |-> "read", read |-> [keys |-> table, value |-> kernel]]
        /\ UNCHANGED <<table, kernel, base, cursor, park, apply, connected, wire, acks, pending, billed>>
    BY <1>6 DEF SampleRead, Idle, daemonVars, linkVars
  <2>2. Followed' /\ \A k \in Keys : Sent(k)' = Sent(k)
    BY <1>b, <2>1, SentCalm
  <2>3. Balanced'
    BY <1>b, <2>1, <2>2 DEF Balanced, Held
  <2>4. Recent(dialer.read)'
    BY <1>b, <1>c, <2>1 DEF Recent
  <2> QED BY <1>b, <2>1, <2>2, <2>3, <2>4 DEF LosslessInv
<1>7. CASE Sample
  <2>0. PICK batch : batch = Plus(park, Delta(dialer.read, cursor))
    OBVIOUS
  <2>1. /\ dialer.pc = "read" /\ park' = None
        /\ cursor' = [k \in Keys |-> IF k \in dialer.read.keys THEN dialer.read.value[k] ELSE 0]
        /\ dialer' = IF batch = None THEN Idle ELSE [pc |-> "send", batch |-> batch]
        /\ UNCHANGED <<table, kernel, base, apply, connected, wire, acks, pending, billed>>
    BY <1>7, <2>0 DEF Sample, linkVars
  <2>2. Followed' /\ \A k \in Keys : Sent(k)' = Sent(k)
    BY <1>b, <2>1, SentCalm
  <2>3. dialer.read \in Reading /\ Recent(dialer.read) /\ apply.pc = "idle"
    BY <1>b, <1>d, <2>1
  <2>4. ASSUME NEW k \in Keys
        PROVE  /\ billed'[k] + Sent(k)' + Held(k)' + park'[k] = cursor'[k]
               /\ cursor'[k] <= kernel'[k]
    <3>1. /\ park'[k] = 0 /\ batch[k] = park[k] + Delta(dialer.read, cursor)[k]
          /\ cursor'[k] = IF k \in table THEN dialer.read.value[k] ELSE 0
      BY <2>0, <2>1, <2>3 DEF Plus, Recent, None
    <3>2. /\ Delta(dialer.read, cursor)[k] \in Nat
          /\ k \in table => Delta(dialer.read, cursor)[k] + cursor[k] = dialer.read.value[k]
          /\ k \notin table => Delta(dialer.read, cursor)[k] = 0 /\ cursor[k] = 0
      BY <1>b, <2>3, RecentDelta
    <3>3. dialer.read.value[k] <= kernel[k] /\ dialer.read.value[k] \in Nat
      BY <2>3 DEF Recent, Reading, Bytes
    <3>4. Held(k) = 0
      BY <2>1 DEF Held
    <3>5. Held(k)' = batch[k]
      <4>1. CASE batch = None
        BY <2>1, <4>1 DEF Held, Idle, None
      <4>2. CASE batch # None
        BY <2>1, <4>2 DEF Held
      <4> QED BY <4>1, <4>2
    <3>6. /\ cursor[k] \in Nat /\ park[k] \in Nat /\ kernel[k] \in Nat /\ billed[k] \in Nat
          /\ Sent(k) \in Nat /\ billed[k] + Sent(k) + Held(k) + park[k] = cursor[k] /\ cursor[k] <= kernel[k]
      BY <1>b, <1>c
    <3>7. billed'[k] = billed[k] /\ kernel'[k] = kernel[k] /\ Sent(k)' = Sent(k)
      BY <2>1, <2>2
    <3>8. PICK d : d = Delta(dialer.read, cursor)[k]
      OBVIOUS
    <3>9. d \in Nat /\ d + cursor[k] = cursor'[k] /\ batch[k] = park[k] + d /\ cursor'[k] <= kernel[k]
      BY ONLY <3>1, <3>2, <3>3, <3>6, <3>8
    <3> QED BY ONLY <3>1, <3>4, <3>5, <3>6, <3>7, <3>9
  <2>5. Balanced'
    BY <2>4 DEF Balanced
  <2>6. dialer'.pc # "read"
    BY <2>1 DEF Idle
  <2> QED BY <1>b, <2>1, <2>2, <2>3, <2>4, <2>5, <2>6 DEF LosslessInv
<1>8. CASE SendSome
  <2>1. PICK id \in Ids : Send(id)
    BY <1>8 DEF SendSome
  <2>2. /\ dialer.pc = "send" /\ dialer'.pc = "idle" /\ DOMAIN pending \subseteq DOMAIN pending'
        /\ UNCHANGED <<table, kernel, base, cursor, park, apply, connected, billed>>
    BY <2>1 DEF Send, Idle, daemonVars
  <2>3. /\ Followed' /\ id \notin Unsettled /\ Unsettled' = Unsettled \cup {id}
        /\ pending'[id] = dialer.batch
        /\ \A i \in DOMAIN pending \cap DOMAIN pending' : pending'[i] = pending[i]
    BY <1>b, <2>1, <2>2, SendFollows
  <2>4. Unsettled' \subseteq DOMAIN pending' /\ \A i \in Unsettled' : i \in DOMAIN pending => i \in Unsettled
    <3>1. Unsettled' \subseteq DOMAIN pending' /\ id \notin DOMAIN pending
      BY <2>1 DEF Unsettled, Send, UsedIds
    <3> QED BY <2>3, <3>1
  <2>5. \A k \in Keys : Sent(k)' = Sent(k) + dialer.batch[k]
    BY <1>b, <2>3, <2>4, SentNext
  <2>6. \A k \in Keys : Held(k) = dialer.batch[k] /\ Held(k)' = 0
    BY <2>2 DEF Held
  <2>7. Balanced'
    BY <1>c, <2>2, <2>5, <2>6 DEF Balanced
  <2>8. dialer.pc # "apply" /\ apply.pc = "idle"
    BY <1>b, <2>2
  <2> QED BY <1>b, <2>2, <2>3, <2>7, <2>8 DEF LosslessInv
<1>9. CASE SendFails
  <2>1. /\ dialer.pc = "send" /\ dialer'.pc = "idle" /\ ReAdd(dialer.batch) /\ dialer.batch \in Bytes
        /\ UNCHANGED <<table, kernel, base, apply, connected, billed, wire, acks, pending>>
    BY <1>9 DEF SendFails, Idle, linkVars, TypeOK
  <2>2. Followed' /\ \A k \in Keys : Sent(k)' = Sent(k)
    BY <1>b, <2>1, SentCalm
  <2>3. ASSUME NEW k \in Keys
        PROVE  /\ billed'[k] + Sent(k)' + Held(k)' + park'[k] = cursor'[k]
               /\ cursor'[k] <= kernel'[k]
    <3>1. Held(k) = dialer.batch[k] /\ Held(k)' = 0
      BY <2>1 DEF Held
    <3>2. /\ cursor'[k] \in Nat /\ park'[k] \in Nat /\ cursor'[k] <= cursor[k]
          /\ park'[k] + cursor[k] = park[k] + dialer.batch[k] + cursor'[k]
      BY <2>1, ReAddBalances
    <3>3. /\ cursor[k] \in Nat /\ park[k] \in Nat /\ kernel[k] \in Nat /\ billed[k] \in Nat
          /\ Sent(k) \in Nat /\ billed[k] + Sent(k) + Held(k) + park[k] = cursor[k] /\ cursor[k] <= kernel[k]
      BY <1>b, <1>c
    <3>4. billed'[k] = billed[k] /\ kernel'[k] = kernel[k] /\ Sent(k)' = Sent(k) /\ Held(k) \in Nat
      BY <1>c, <2>1, <2>2
    <3> QED BY ONLY <3>1, <3>2, <3>3, <3>4
  <2>4. Balanced'
    BY <2>3 DEF Balanced
  <2>5. apply.pc = "idle"
    BY <1>b, <2>1
  <2> QED BY <1>b, <2>1, <2>2, <2>3, <2>4, <2>5 DEF LosslessInv
<1>10. CASE HandleAck
  <2>0. PICK x : x = Head(acks).id
    OBVIOUS
  <2>1. /\ Followed' /\ x \in DOMAIN pending /\ Unsettled' = Unsettled \ {x}
        /\ Head(acks).ok => x \notin Unsettled
        /\ ~Head(acks).ok => x \in Unsettled
        /\ \A i \in DOMAIN pending \cap DOMAIN pending' : pending'[i] = pending[i]
    BY <1>10, <1>b, <2>0, AckFollows
  <2>2. /\ dialer.pc = "idle" /\ apply.pc = "idle"
        /\ UNCHANGED <<table, kernel, base, apply, dialer, connected, billed>>
        /\ IF Head(acks).ok THEN UNCHANGED <<cursor, park>> ELSE ReAdd(pending[x])
    BY <1>10, <1>b, <2>0, <2>1 DEF HandleAck, Idle, daemonVars
  <2>3. Unsettled' \subseteq DOMAIN pending' /\ \A i \in Unsettled' : i \in DOMAIN pending => i \in Unsettled
    <3>1. Unsettled' \subseteq DOMAIN pending'
      BY DEF Unsettled
    <3> QED BY <2>1, <3>1
  <2>4. ASSUME NEW k \in Keys
        PROVE  /\ billed'[k] + Sent(k)' + Held(k)' + park'[k] = cursor'[k]
               /\ cursor'[k] <= kernel'[k]
    <3>1. Held(k)' = Held(k)
      BY <2>2 DEF Held
    <3>2. CASE Head(acks).ok
      <4>1. Unsettled' = Unsettled
        BY <2>1, <3>2
      <4>2. Sent(k)' = Sent(k)
        BY <1>b, <2>1, <2>3, <4>1, SentNext
      <4> QED BY <1>b, <1>c, <2>2, <3>1, <3>2, <4>2
    <3>3. CASE ~Head(acks).ok
      <4>1. Sent(k)' = Sent(k) - pending[x][k]
        BY <1>b, <2>1, <2>3, <3>3, SentNext
      <4>2. pending[x] \in Bytes /\ pending[x][k] \in Nat
        BY <2>1 DEF TypeOK, Bytes
      <4>3. /\ cursor'[k] \in Nat /\ park'[k] \in Nat /\ cursor'[k] <= cursor[k]
            /\ park'[k] + cursor[k] = park[k] + pending[x][k] + cursor'[k]
        BY <2>2, <3>3, <4>2, ReAddBalances
      <4>4. /\ cursor[k] \in Nat /\ park[k] \in Nat /\ kernel[k] \in Nat /\ billed[k] \in Nat
            /\ Sent(k) \in Nat /\ billed[k] + Sent(k) + Held(k) + park[k] = cursor[k] /\ cursor[k] <= kernel[k]
        BY <1>b, <1>c
      <4>5. billed'[k] = billed[k] /\ kernel'[k] = kernel[k] /\ Held(k) \in Nat
        BY <1>c, <2>2
      <4> QED BY ONLY <3>1, <4>1, <4>2, <4>3, <4>4, <4>5
    <3> QED BY <3>2, <3>3
  <2>5. Balanced'
    BY <2>4 DEF Balanced
  <2> QED BY <1>b, <2>1, <2>2, <2>4, <2>5 DEF LosslessInv
<1>11. CASE Bill \/ Refuse
  <2>0. PICK h : h = Head(wire)
    OBVIOUS
  <2>1. PICK ok \in BOOLEAN :
          /\ Answer(ok)
          /\ billed' = IF ok THEN Plus(billed, h.bytes) ELSE billed
          /\ UNCHANGED <<table, kernel, base, cursor, park, apply, dialer, pending, connected>>
    <3>1. CASE Bill
      BY <2>0, <3>1 DEF Bill, daemonVars
    <3>2. CASE Refuse
      BY <2>0, <3>2 DEF Refuse, daemonVars
    <3> QED BY <1>11, <3>1, <3>2
  <2>2. /\ Followed' /\ h.id \in Unsettled /\ pending[h.id] = h.bytes
        /\ Unsettled' = IF ok THEN Unsettled \ {h.id} ELSE Unsettled
    BY <1>b, <2>0, <2>1, AnswerFollows
  <2>3. Unsettled' \subseteq DOMAIN pending' /\ \A i \in Unsettled' : i \in DOMAIN pending => i \in Unsettled
    <3>1. Unsettled' \subseteq DOMAIN pending'
      BY DEF Unsettled
    <3> QED BY <2>2, <3>1
  <2>4. \A i \in DOMAIN pending \cap DOMAIN pending' : pending'[i] = pending[i]
    BY <2>1
  <2>5. ASSUME NEW k \in Keys
        PROVE  billed'[k] + Sent(k)' + Held(k)' + park'[k] = cursor'[k]
    <3>1. Held(k)' = Held(k)
      BY <2>1 DEF Held
    <3>2. CASE ok
      <4>1. Sent(k)' = Sent(k) - pending[h.id][k]
        BY <1>b, <2>2, <2>3, <2>4, <3>2, SentNext
      <4>2. pending[h.id][k] \in Nat /\ billed'[k] = billed[k] + pending[h.id][k]
        <5>1. h.id \in DOMAIN pending
          BY <2>2 DEF Unsettled
        <5>2. pending[h.id] \in Bytes
          BY <5>1 DEF TypeOK
        <5>3. pending[h.id][k] \in Nat
          BY <5>2 DEF Bytes
        <5>4. billed'[k] = billed[k] + h.bytes[k]
          BY <2>1, <3>2 DEF Plus
        <5> QED BY <2>2, <5>3, <5>4
      <4> QED BY <1>c, <2>1, <3>1, <4>1, <4>2
    <3>3. CASE ~ok
      <4>1. Sent(k)' = Sent(k)
        BY <1>b, <2>2, <2>3, <2>4, <3>3, SentNext
      <4> QED BY <1>c, <2>1, <3>1, <3>3, <4>1
    <3> QED BY <3>2, <3>3
  <2>6. Balanced'
    BY <2>5 DEF Balanced
  <2>7. \A r : Recent(r) => (r.keys = table' /\
            \A k \in Keys : cursor'[k] <= r.value[k] /\ r.value[k] <= kernel'[k])
    BY <2>1 DEF Recent
  <2>8. /\ dialer'.pc = "read" => Recent(dialer.read)'
        /\ apply'.pc = "fold" => Recent(apply.read)'
    BY <1>b, <2>1, <2>7 DEF Recent
  <2> QED BY <1>b, <2>1, <2>2, <2>6, <2>8 DEF LosslessInv
<1>12. CASE Flush \/ Disconnect \/ Restart \/ Connect
  <2>1. ~(Flush \/ Disconnect \/ Restart)
    BY DEF Flush, Disconnect, Restart
  <2>2. ~Connect
    BY <1>b DEF Connect
  <2> QED BY <1>12, <2>1, <2>2
<1>13. CASE UNCHANGED vars
  <2>1. UNCHANGED <<table, kernel, base, cursor, park, apply, dialer, connected, wire, acks, pending, billed>>
    BY <1>13 DEF vars, daemonVars, linkVars
  <2>2. Followed' /\ \A k \in Keys : Sent(k)' = Sent(k)
    BY <1>b, <2>1, SentCalm
  <2>3. Balanced'
    BY <1>b, <2>1, <2>2 DEF Balanced, Held
  <2>4. /\ dialer'.pc = "read" => Recent(dialer.read)'
        /\ apply'.pc = "fold" => Recent(apply.read)'
    BY <1>b, <2>1 DEF Recent
  <2> QED BY <1>b, <2>1, <2>2, <2>3, <2>4 DEF LosslessInv
<1> QED
  BY <1>1, <1>2, <1>3, <1>4, <1>5, <1>6, <1>7, <1>8, <1>9, <1>10, <1>11, <1>12, <1>13 DEF Next

\* The first state has lost nothing.
LEMMA LosslessInit == Init => LosslessInv
<1> SUFFICES ASSUME Init PROVE LosslessInv
  OBVIOUS
<1>1. /\ wire = <<>> /\ acks = <<>> /\ dialer = Idle /\ billed = None /\ pending = <<>>
      /\ connected = TRUE /\ kernel = None /\ base = None /\ cursor = None /\ park = None /\ apply = Idle
  BY DEF Init
<1>2. IdsDistinct /\ DOMAIN pending = {} /\ Followed
  BY <1>1, FS_EmptySet DEF IdsDistinct, Followed
<1>3. Unsettled = {}
  BY <1>2 DEF Unsettled
<1>4. \A k \in Keys : Sent(k) = 0 /\ Held(k) = 0
  BY <1>1, <1>3, SumEmpty DEF Sent, Held, Idle
<1>5. Balanced
  BY <1>1, <1>4 DEF Balanced, None
<1> QED BY <1>1, <1>2, <1>5 DEF LosslessInv, None, Idle

\* Where nothing was lost, nothing is missing.
LEMMA LosslessConserves ==
  ASSUME TypeOK, LosslessInv
  PROVE  Conserved
<1> SUFFICES ASSUME lossless, NEW k \in Keys
             PROVE  billed[k] + Outstanding(k) + park[k] + Unsampled(k) = Real(k)
  BY DEF Conserved
<1>1. /\ Followed /\ Balanced /\ base[k] = 0 /\ cursor[k] <= kernel[k]
      /\ k \notin table => kernel[k] = 0
  BY DEF LosslessInv
<1>2. /\ cursor[k] \in Nat /\ park[k] \in Nat /\ kernel[k] \in Nat /\ billed[k] \in Nat
      /\ Sent(k) \in Nat /\ Held(k) \in Nat
  BY <1>1, SentNat DEF TypeOK, Bytes, Held
<1>3. Outstanding(k) = Sent(k) + Held(k)
  BY DEF Outstanding, Sent, Held
<1>4. Unsampled(k) = kernel[k] - cursor[k]
  <2>1. PICK r : r = [keys |-> table, value |-> kernel]
    OBVIOUS
  <2>2. r \in Reading /\ Recent(r) /\ r.value[k] = kernel[k]
    <3>1. \A j \in Keys : cursor[j] <= kernel[j] /\ kernel[j] <= kernel[j]
      BY DEF LosslessInv, TypeOK, Bytes
    <3> QED BY <2>1, <3>1 DEF TypeOK, Reading, Recent
  <2>3. /\ Delta(r, cursor)[k] \in Nat
        /\ k \in table => Delta(r, cursor)[k] + cursor[k] = r.value[k]
        /\ k \notin table => Delta(r, cursor)[k] = 0 /\ cursor[k] = 0
    BY <1>1, <2>2, RecentDelta
  <2>4. Unsampled(k) = Delta(r, cursor)[k]
    BY <2>1 DEF Unsampled
  <2> QED BY <1>1, <1>2, <2>2, <2>3, <2>4
<1> QED BY <1>1, <1>2, <1>3, <1>4 DEF Balanced, Real

\* As long as no table is recreated, no session lost and no batch dropped, every
\* forwarded byte is in exactly one place, however often batches are refused,
\* unwritten and given back and however many applies fail, if the dialer and
\* Bootstrap alone apply rulesets (counterSamples, foldCountersBeforeFlush,
\* reAddCounters, handleAck).
THEOREM AlwaysConserved ==
  ASSUME Alone
  PROVE  Spec => []Conserved
<1>1. Init => LosslessInv
  BY LosslessInit
<1>2. TypeOK /\ TypeOK' /\ LosslessInv /\ [Next]_vars => LosslessInv'
  BY LosslessStep
<1>3. TypeOK /\ LosslessInv => Conserved
  BY LosslessConserves
<1> QED
  BY <1>1, <1>2, <1>3, TypeCorrect, PTL DEF Spec
=============================================================================
