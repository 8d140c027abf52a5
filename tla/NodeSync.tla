------------------------------ MODULE NodeSync ------------------------------
(***************************************************************************)
(* How one agent node comes to hold the ruleset the panel's database wants *)
(* for it. Mutations of the database are dispatched: the ruleset is read,  *)
(* sent over the node's registered connection, and the outcome recorded on *)
(* the nodes row. An agent that (re)connects reports the revision it holds *)
(* and is sent the wanted ruleset if that differs. On its first connection *)
(* it also hands its local rules over (migrate_rules).                     *)
(*                                                                         *)
(* A connection has a handler goroutine in the panel (ServeWS), whose      *)
(* steps are actions, and one outgoing queue (writeCh and the socket       *)
(* behind it), which the agent can read once writerLoop runs. The agent is *)
(* one goroutine, runOnce, with at most one connection.                    *)
(***************************************************************************)
EXTENDS Naturals, Sequences, FiniteSets

CONSTANTS
  Contents,     \* rulesets the panel's users can want, up to identity
  Dispatchers,  \* dispatchToNode calls for this node that overlap (a bound)
  Conns, NoConn,\* connections, each used once
  NoRev,        \* the empty LastAppliedRev
  QueueCap,     \* frames an outgoing queue holds (code: 16 and the socket)
  MaxEdits,     \* bound: database mutations
  MaxIds,       \* bound: dispatches over one connection
  LocalRules,   \* TRUE iff the agent starts with local rules
  Events        \* which of "drop", "timeout", "reject", "refuse", "restart"
                \* and "slow" may happen: the last, that a connection takes
                \* longer to open than the agent to redial (0.8 s at least)
                \* or than a dispatch waits (applyAckTimeout, 60 s)

ASSUME NodeSyncAssumption ==
  /\ NoConn \notin Conns
  /\ QueueCap \in Nat \ {0} /\ MaxEdits \in Nat /\ MaxIds \in Nat
  /\ LocalRules \in BOOLEAN

VARIABLES
  want,       \* the node's active rules in the database: what the users
              \* want, and whether the local rules were imported
  edits,      \* bound: mutations so far
  owed,       \* dispatchToNode calls (goroutines) that have not begun
  disp,       \* those that have
  current,    \* Hub.conns[node]
  stage,      \* where each connection's ServeWS handler is
  closed,     \* the connections whose agentConn.closed is closed
  hello,      \* the LastAppliedRev each connection's hello carried
  nextId,     \* agentConn.idSeq
  out, in,    \* frames to the agent, frames to the panel
  online,     \* nodes.online
  lastError,  \* nodes.last_error is set
  agent,      \* runOnce: what it is doing, on which connection
  held,       \* the agent's LastAppliedRev, the revision of its panel segment
  local,      \* the agent's tui segment is not empty
  applied     \* history: <<conn, id>> of the frames the agent applied

panelDB == <<want, edits, online, lastError>>
dispVars == <<owed, disp>>
connVars == <<current, stage, closed, hello, nextId, out, in>>
agentVars == <<agent, held, local, applied>>
syncVars == <<panelDB, dispVars, connVars, agentVars>>

Revs == [content : Contents, imported : BOOLEAN]
IdleDispatch == [pc |-> "idle"]
Dispatch == {IdleDispatch, [pc |-> "start"]}
            \cup [pc : {"read"}, rev : Revs]
            \cup [pc : {"wait"}, conn : Conns, id : 1..MaxIds]
            \cup [pc : {"mark"}, conn : Conns \cup {NoConn}, id : 0..MaxIds,
                  ok : BOOLEAN]
ToAgent == [type : {"apply"}, id : 1..MaxIds, rev : Revs]
           \cup [type : {"rule_cmd_ack"}, ok : BOOLEAN]
ToPanel == [type : {"apply_ack"}, id : 1..MaxIds, ok : BOOLEAN]
           \cup [type : {"migrate_rules"}]

SyncInit ==
  /\ want \in [content : Contents, imported : {FALSE}]
  /\ edits = 0
  /\ owed = 0
  /\ disp = [d \in Dispatchers |-> IdleDispatch]
  /\ current = NoConn
  /\ stage = [c \in Conns |-> "none"]
  /\ closed = {}
  /\ hello = [c \in Conns |-> NoRev]
  /\ nextId = [c \in Conns |-> 0]
  /\ out = [c \in Conns |-> <<>>]
  /\ in = [c \in Conns |-> <<>>]
  /\ online = FALSE
  /\ lastError = FALSE
  /\ agent = [pc |-> "down", conn |-> NoConn]
  /\ held = NoRev
  /\ local = LocalRules
  /\ applied = {}

-----------------------------------------------------------------------------
\* Registered, but not served yet: writerLoop does not run.
Opening == {"registered", "acked", "marked"}

(***************************************************************************)
(* dispatchToNode                                                          *)
(***************************************************************************)

\* A user or an enforcer changes the node's active rules; its dispatch is yet
\* to come.
Edit ==
  /\ edits < MaxEdits
  /\ edits' = edits + 1
  /\ \E content \in Contents \ {want.content} :
       want' = [want EXCEPT !.content = content]
  /\ owed' = owed + 1
  /\ UNCHANGED <<online, lastError, disp, connVars, agentVars>>

\* A call begins.
Begin(d) ==
  /\ owed > 0
  /\ disp[d] = IdleDispatch
  /\ owed' = owed - 1
  /\ disp' = [disp EXCEPT ![d] = [pc |-> "start"]]
  /\ UNCHANGED <<panelDB, connVars, agentVars>>

\* ActiveRuleHopsForPush, buildRules, computeRev.
ReadRules(d) ==
  /\ disp[d].pc = "start"
  /\ disp' = [disp EXCEPT ![d] = [pc |-> "read", rev |-> want]]
  /\ UNCHANGED <<panelDB, owed, connVars, agentVars>>

\* SendApplyRuleset without a connection.
SendOffline(d) ==
  /\ disp[d].pc = "read"
  /\ current = NoConn
  /\ disp' = [disp EXCEPT ![d] = [pc |-> "mark", conn |-> NoConn, id |-> 0,
                                  ok |-> FALSE]]
  /\ UNCHANGED <<panelDB, owed, connVars, agentVars>>

\* Mutant: ids start with the zero value.
FrameIdFromZero(c) == nextId[c]

\* nextID.
FrameId(c) == nextId[c] + 1

\* SendApplyRuleset: register the waiter, queue the frame. A full queue
\* blocks until there is room or the connection closes.
Send(d) ==
  LET c == current
      id == FrameId(c)
      frame == [type |-> "apply", id |-> id, rev |-> disp[d].rev]
  IN
  /\ disp[d].pc = "read"
  /\ c # NoConn
  /\ id <= MaxIds
  /\ \/ Len(out[c]) < QueueCap /\ out' = [out EXCEPT ![c] = Append(@, frame)]
     \/ c \in closed /\ out' = out
  /\ nextId' = [nextId EXCEPT ![c] = id]
  /\ disp' = [disp EXCEPT ![d] = [pc |-> "wait", conn |-> c, id |-> id]]
  /\ UNCHANGED <<panelDB, owed, current, stage, closed, hello, in, agentVars>>

\* No ack within applyAckTimeout, or the connection closed. Only if the opening
\* of a connection is slow does a dispatch over it time out before it serves.
GiveUp(d) ==
  /\ disp[d].pc = "wait"
  /\ \/ disp[d].conn \in closed
     \/ /\ "timeout" \in Events
        /\ "slow" \in Events \/ stage[disp[d].conn] \notin Opening
  /\ disp' = [disp EXCEPT ![d] = [pc |-> "mark", conn |-> disp[d].conn,
                                  id |-> disp[d].id, ok |-> FALSE]]
  /\ UNCHANGED <<panelDB, owed, connVars, agentVars>>

\* Mutant: a failed dispatch is only logged.
MarkSuccessOnly(d) ==
  /\ disp[d].pc = "mark"
  /\ lastError' = (lastError /\ ~disp[d].ok)
  /\ disp' = [disp EXCEPT ![d] = IdleDispatch]
  /\ UNCHANGED <<want, edits, online, owed, connVars, agentVars>>

\* MarkNodeApplied or MarkNodeDispatchError.
Mark(d) ==
  /\ disp[d].pc = "mark"
  /\ lastError' = ~disp[d].ok
  /\ disp' = [disp EXCEPT ![d] = IdleDispatch]
  /\ UNCHANGED <<want, edits, online, owed, connVars, agentVars>>

(***************************************************************************)
(* ServeWS                                                                 *)
(***************************************************************************)

\* registerConn: the newer connection replaces and closes the older. That the
\* older handler's opening outlasts the redial, which the dialer's backoff puts
\* off by 0.8 s at least, is the event "slow".
Register(c) ==
  /\ stage[c] = "hello"
  /\ "slow" \in Events \/ \A b \in Conns : stage[b] \notin Opening
  /\ stage' = [stage EXCEPT ![c] = "registered"]
  /\ closed' = closed \cup ({current} \ {NoConn})
  /\ current' = c
  /\ UNCHANGED <<panelDB, dispVars, hello, nextId, out, in, agentVars>>

\* hello_ack is written, past the outgoing queue.
AckHello(c) ==
  /\ stage[c] = "registered"
  /\ stage' = [stage EXCEPT ![c] = "acked"]
  /\ UNCHANGED <<panelDB, dispVars, current, closed, hello, nextId, out, in,
                 agentVars>>

\* MarkNodeOnline, which also clears last_error.
MarkOnline(c) ==
  /\ stage[c] = "acked"
  /\ stage' = [stage EXCEPT ![c] = "marked"]
  /\ online' = TRUE
  /\ lastError' = FALSE
  /\ UNCHANGED <<want, edits, dispVars, current, closed, hello, nextId, out, in,
                 agentVars>>

\* Mutant: any reported revision is taken for the wanted one.
ReconcileOnConnectFresh(c) ==
  /\ stage[c] = "marked"
  /\ stage' = [stage EXCEPT ![c] = "serving"]
  /\ IF hello[c] # NoRev
     THEN UNCHANGED owed
     ELSE owed' = owed + 1
  /\ UNCHANGED <<panelDB, disp, current, closed, hello, nextId, out, in, agentVars>>

\* reconcileOnConnect, and the writer and reader loops start.
ReconcileOnConnect(c) ==
  /\ stage[c] = "marked"
  /\ stage' = [stage EXCEPT ![c] = "serving"]
  /\ IF hello[c] = want
     THEN UNCHANGED owed
     ELSE owed' = owed + 1
  /\ UNCHANGED <<panelDB, disp, current, closed, hello, nextId, out, in, agentVars>>

\* Mutant: waiters are found by frame id whatever the connection.
WaitersOfAnyConn(c, id) == {d \in Dispatchers : disp[d].pc = "wait" /\ disp[d].id = id}

\* agentConn.pending: the waiter for an id of this connection.
Waiters(c, id) ==
  {d \in Dispatchers :
     disp[d].pc = "wait" /\ disp[d].conn = c /\ disp[d].id = id}

\* readerLoop hands an apply_ack to its waiter, if it still waits.
ReadApplyAck(c) ==
  LET ack == Head(in[c]) IN
  /\ stage[c] = "serving"
  /\ in[c] # <<>>
  /\ ack.type = "apply_ack"
  /\ in' = [in EXCEPT ![c] = Tail(@)]
  /\ disp' = [d \in Dispatchers |->
                IF d \in Waiters(c, ack.id)
                THEN [pc |-> "mark", conn |-> disp[d].conn, id |-> disp[d].id,
                      ok |-> ack.ok]
                ELSE disp[d]]
  /\ UNCHANGED <<panelDB, owed, current, stage, closed, hello, nextId, out,
                 agentVars>>

\* handleMigrateRules: the local rules become rules of the database in one
\* transaction, and the node is redispatched.
Import(c) ==
  /\ stage[c] = "serving"
  /\ in[c] # <<>>
  /\ Head(in[c]).type = "migrate_rules"
  /\ ~want.imported
  /\ in' = [in EXCEPT ![c] = Tail(@)]
  /\ want' = [want EXCEPT !.imported = TRUE]
  /\ owed' = owed + 1
  /\ stage' = [stage EXCEPT ![c] = "accepting"]
  /\ UNCHANGED <<edits, online, lastError, disp, current, closed, hello, nextId, out,
                 agentVars>>

\* ... or refused: no owner, a disabled owner, too many rules, or a port
\* already taken, as all are once they were imported (RegenerateRule).
RefuseImport(c) ==
  /\ stage[c] = "serving"
  /\ in[c] # <<>>
  /\ Head(in[c]).type = "migrate_rules"
  /\ want.imported \/ "refuse" \in Events
  /\ in' = [in EXCEPT ![c] = Tail(@)]
  /\ stage' = [stage EXCEPT ![c] = "refusing"]
  /\ UNCHANGED <<panelDB, dispVars, current, closed, hello, nextId, out, agentVars>>

\* Its rule_cmd_ack is queued (enqueueWrite), unless the connection closed.
ReplyMigrate(c) ==
  /\ stage[c] \in {"accepting", "refusing"}
  /\ \/ /\ Len(out[c]) < QueueCap
        /\ out' = [out EXCEPT ![c] =
                     Append(@, [type |-> "rule_cmd_ack",
                                ok |-> stage[c] = "accepting"])]
     \/ c \in closed /\ out' = out
  /\ stage' = [stage EXCEPT ![c] = "serving"]
  /\ UNCHANGED <<panelDB, dispVars, current, closed, hello, nextId, in, agentVars>>

ConnLost(c) == c \in closed \/ agent.conn # c

\* The reader fails: the connection was replaced, the agent is gone, or the
\* network is. What was still unread is lost.
ReaderEnds(c) ==
  /\ stage[c] = "serving"
  /\ ConnLost(c) \/ "drop" \in Events
  /\ stage' = [stage EXCEPT ![c] = "closing"]
  /\ UNCHANGED <<panelDB, dispVars, current, closed, hello, nextId, out, in,
                 agentVars>>

\* The hello_ack cannot be written; writerLoop never starts.
AckFails(c) ==
  /\ stage[c] = "registered"
  /\ ConnLost(c)
  /\ stage' = [stage EXCEPT ![c] = "closing"]
  /\ out' = [out EXCEPT ![c] = <<>>]
  /\ UNCHANGED <<panelDB, dispVars, current, closed, hello, nextId, in,
                 agentVars>>

\* unregisterConn, under Hub.mu.
Unregister(c) ==
  /\ stage[c] = "closing"
  /\ stage' = [stage EXCEPT ![c] = "unregistered"]
  /\ current' = IF current = c THEN NoConn ELSE current
  /\ closed' = closed \cup {c}
  /\ UNCHANGED <<panelDB, dispVars, hello, nextId, out, in, agentVars>>

\* Its last statement, MarkNodeOffline; ServeWS returns.
MarkOffline(c) ==
  /\ stage[c] = "unregistered"
  /\ stage' = [stage EXCEPT ![c] = "gone"]
  /\ online' = FALSE
  /\ hello' = [hello EXCEPT ![c] = NoRev]
  /\ in' = [in EXCEPT ![c] = <<>>]
  /\ UNCHANGED <<want, edits, lastError, dispVars, current, closed, nextId, out,
                 agentVars>>

\* The panel restarts: calls and connections are gone, the database stays,
\* and MarkAllAgentNodesOffline runs. What writerLoop wrote may yet arrive.
PanelRestart ==
  /\ "restart" \in Events
  /\ \E c \in Conns : stage[c] \notin {"none", "gone"}
  /\ owed' = 0
  /\ disp' = [d \in Dispatchers |-> IdleDispatch]
  /\ current' = NoConn
  /\ stage' = [c \in Conns |-> IF stage[c] = "none" THEN "none" ELSE "gone"]
  /\ closed' = {c \in Conns : stage[c] # "none"}
  /\ online' = FALSE
  /\ hello' = [c \in Conns |-> NoRev]
  /\ in' = [c \in Conns |-> <<>>]
  /\ out' = [c \in Conns |-> IF stage[c] \in Opening THEN <<>> ELSE out[c]]
  /\ UNCHANGED <<want, edits, lastError, nextId, agentVars>>

(***************************************************************************)
(* The agent: runOnce                                                      *)
(***************************************************************************)

Serving == {"serving", "accepting", "refusing"}

\* Dial and send hello with the revision held now.
Dial(c) ==
  /\ agent.pc = "down"
  /\ stage[c] = "none"
  /\ agent' = [pc |-> "hello", conn |-> c]
  /\ stage' = [stage EXCEPT ![c] = "hello"]
  /\ hello' = [hello EXCEPT ![c] = held]
  /\ UNCHANGED <<panelDB, dispVars, current, closed, nextId, out, in, held, local,
                 applied>>

\* hello_ack arrives. Local rules are offered to the panel before serving.
GetHelloAck ==
  LET c == agent.conn IN
  /\ agent.pc = "hello"
  /\ stage[c] \in {"acked", "marked"} \cup Serving
  /\ IF local
     THEN /\ agent' = [agent EXCEPT !.pc = "migrate"]
          /\ in' = [in EXCEPT ![c] = Append(@, [type |-> "migrate_rules"])]
     ELSE agent' = [agent EXCEPT !.pc = "serve"] /\ UNCHANGED in
  /\ UNCHANGED <<panelDB, dispVars, current, stage, closed, hello, nextId, out,
                 held, local, applied>>

\* The agent can take the next frame of its queue: writerLoop runs, or ran.
Readable(c) == stage[c] \notin Opening /\ out[c] # <<>>

\* The one frame read after migrate_rules. Only an accepting answer clears
\* the local rules (OnMigrated, whose save may fail); any other frame is
\* dropped, whatever it asks for.
GetMigrateAck ==
  LET c == agent.conn
      frame == Head(out[c])
  IN
  /\ agent.pc = "migrate"
  /\ Readable(c)
  /\ out' = [out EXCEPT ![c] = Tail(@)]
  /\ \/ local' = ~(frame.type = "rule_cmd_ack" /\ frame.ok)
     \/ "reject" \in Events /\ UNCHANGED local
  /\ agent' = [agent EXCEPT !.pc = "serve"]
  /\ UNCHANGED <<panelDB, dispVars, current, stage, closed, hello, nextId, in, held,
                 applied>>

\* The panel's ruleset claims ports the local rules still claim.
Conflicts(rev) == local /\ rev.imported

\* apply_ruleset: SetPanelRuleset, then apply_ack. It fails on a conflict, a
\* data plane error or a failed save.
Apply ==
  LET c == agent.conn
      frame == Head(out[c])
  IN
  /\ agent.pc = "serve"
  /\ Readable(c)
  /\ frame.type = "apply"
  /\ out' = [out EXCEPT ![c] = Tail(@)]
  /\ \E ok \in BOOLEAN :
       /\ ok => ~Conflicts(frame.rev)
       /\ ~ok => Conflicts(frame.rev) \/ "reject" \in Events
       /\ held' = IF ok THEN frame.rev ELSE held
       /\ applied' = IF ok THEN applied \cup {<<c, frame.id>>} ELSE applied
       /\ in' = [in EXCEPT ![c] = Append(@, [type |-> "apply_ack",
                                             id |-> frame.id, ok |-> ok])]
  /\ UNCHANGED <<panelDB, dispVars, current, stage, closed, hello, nextId, agent,
                 local>>

\* A rule_cmd_ack nobody waits for any more.
IgnoreAck ==
  LET c == agent.conn IN
  /\ agent.pc = "serve"
  /\ Readable(c)
  /\ Head(out[c]).type = "rule_cmd_ack"
  /\ out' = [out EXCEPT ![c] = Tail(@)]
  /\ UNCHANGED <<panelDB, dispVars, current, stage, closed, hello, nextId, in,
                 agentVars>>

\* The session ends: nothing more is received, and the tail of what was sent
\* may not arrive.
EndSession ==
  LET c == agent.conn IN
  /\ agent' = [pc |-> "down", conn |-> NoConn]
  /\ \E n \in 0..Len(in[c]) : in' = [in EXCEPT ![c] = SubSeq(@, 1, n)]
  /\ out' = [out EXCEPT ![c] = <<>>]
  /\ UNCHANGED <<panelDB, dispVars, current, stage, closed, hello, nextId, held,
                 local, applied>>

\* The panel closed the connection, or is gone.
SessionClosed ==
  /\ agent.pc # "down"
  /\ agent.conn \in closed
     \/ stage[agent.conn] \in {"closing", "unregistered", "gone"}
  /\ EndSession

\* The network fails.
SessionDrops ==
  /\ agent.pc # "down"
  /\ "drop" \in Events
  /\ EndSession

-----------------------------------------------------------------------------
DispatchStep(d) ==
  Begin(d) \/ ReadRules(d) \/ SendOffline(d) \/ Send(d) \/ GiveUp(d) \/ Mark(d)

HandlerStep(c) ==
  \/ Register(c) \/ AckHello(c) \/ MarkOnline(c) \/ ReconcileOnConnect(c)
  \/ ReadApplyAck(c) \/ Import(c) \/ RefuseImport(c) \/ ReplyMigrate(c)
  \/ ReaderEnds(c) \/ AckFails(c) \/ Unregister(c) \/ MarkOffline(c)

AgentStep ==
  GetHelloAck \/ GetMigrateAck \/ Apply \/ IgnoreAck
  \/ SessionClosed \/ SessionDrops

SomeDispatch == \E d \in Dispatchers : DispatchStep(d)
SomeHandler == \E c \in Conns : HandlerStep(c)
SomeDial == \E c \in Conns : Dial(c)

SyncNext == Edit \/ SomeDispatch \/ SomeHandler \/ SomeDial \/ AgentStep
        \/ PanelRestart

SyncSpec == SyncInit /\ [][SyncNext]_syncVars

\* Goroutines run; the agent redials, reads what it is sent and notices a
\* closed connection, as the panel does (watchdog and read timeouts).
Fairness ==
  /\ WF_syncVars(\E d \in Dispatchers : Begin(d))
  /\ \A d \in Dispatchers :
       /\ WF_syncVars(ReadRules(d)) /\ WF_syncVars(SendOffline(d) \/ Send(d))
       /\ WF_syncVars(GiveUp(d)) /\ WF_syncVars(Mark(d))
  /\ \A c \in Conns :
       /\ WF_syncVars(Register(c)) /\ WF_syncVars(AckHello(c) \/ AckFails(c))
       /\ WF_syncVars(MarkOnline(c)) /\ WF_syncVars(ReconcileOnConnect(c))
       /\ WF_syncVars(ReadApplyAck(c)) /\ WF_syncVars(Import(c))
       /\ WF_syncVars(RefuseImport(c)) /\ WF_syncVars(ReplyMigrate(c))
       /\ WF_syncVars(ConnLost(c) /\ ReaderEnds(c))
       /\ WF_syncVars(Unregister(c)) /\ WF_syncVars(MarkOffline(c))
  /\ WF_syncVars(SomeDial) /\ WF_syncVars(SessionClosed)
  /\ WF_syncVars(GetHelloAck) /\ WF_syncVars(GetMigrateAck)
  /\ WF_syncVars(Apply) /\ WF_syncVars(IgnoreAck)

FairSyncSpec == SyncSpec /\ Fairness

-----------------------------------------------------------------------------
SyncTypeOK ==
  /\ want \in Revs
  /\ edits \in 0..MaxEdits
  /\ owed \in Nat
  /\ disp \in [Dispatchers -> Dispatch]
  /\ current \in Conns \cup {NoConn}
  /\ stage \in [Conns -> {"none", "hello", "registered", "acked", "marked",
                          "serving", "accepting", "refusing", "closing",
                          "unregistered", "gone"}]
  /\ closed \subseteq Conns
  /\ hello \in [Conns -> Revs \cup {NoRev}]
  /\ nextId \in [Conns -> 0..MaxIds]
  /\ out \in [Conns -> Seq(ToAgent)]
  /\ in \in [Conns -> Seq(ToPanel)]
  /\ online \in BOOLEAN /\ lastError \in BOOLEAN
  /\ agent \in [pc : {"down", "hello", "migrate", "serve"},
                conn : Conns \cup {NoConn}]
  /\ agent.pc # "down" => agent.conn \in Conns
  /\ held \in Revs \cup {NoRev}
  /\ local \in BOOLEAN
  /\ applied \subseteq Conns \X (1..MaxIds)

\* Nothing is on its way between the panel and a connected agent.
Quiet ==
  /\ owed = 0 /\ \A d \in Dispatchers : disp[d] = IdleDispatch
  /\ agent.pc = "serve"
  /\ current = agent.conn
  /\ stage[current] = "serving"
  /\ out[current] = <<>> /\ in[current] = <<>>

\* A connected node with no last_error holds what the database wants
\* ("MarkNodeDispatchError records a dispatch failure so the panel UI can
\* flag the node as out-of-sync", queries.go): across reconnects, lost acks,
\* timeouts, rejections, panel restarts and migrations.
SyncedOrFlagged == Quiet => held = want \/ lastError

\* A dispatch recorded as a success was applied by the agent, and so was the
\* very frame it sent: acks of other frames, of earlier connections or of
\* dispatches that timed out never count (SendApplyRuleset, dispatchAck).
SuccessMeansApplied ==
  \A d \in Dispatchers :
    disp[d].pc = "mark" /\ disp[d].ok => <<disp[d].conn, disp[d].id>> \in applied

\* When the session lasts, the agent is at last and for good in sync or the
\* node is flagged, whatever was lost before; and every dispatch ends: none
\* waits for ever on a queue, an ack or a dead connection.
Converges ==
  /\ <>[](agent.pc = "serve" => held = want \/ lastError)
  /\ \A d \in Dispatchers : disp[d].pc = "start" ~> disp[d] = IdleDispatch
=============================================================================
