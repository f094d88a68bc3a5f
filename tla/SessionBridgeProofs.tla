------------------------ MODULE SessionBridgeProofs ------------------------
(***************************************************************************)
(* Session continuation is safe for any set of jobs, connections and        *)
(* bounds: one live lease, one interruption, one receipt and one            *)
(* continuation turn for a job, a driver for every live lease, and what the *)
(* user revoked stays revoked.                                              *)
(***************************************************************************)
EXTENDS SessionBridge, SequenceTheorems, TLAPS

-----------------------------------------------------------------------------
(* The inductive invariant, one conjunct per idea and per job              *)

\* The rows that exist between two awaits.
RowShape(j) ==
  /\ row[j].state = "none" <=> row[j].handoff = "none"
  /\ \/ row[j].state = "none" /\ row[j].delivery = "none"
     \/ row[j].state = "armed" /\ row[j].delivery = "pending"
     \/ row[j].state = "terminal" /\ row[j].delivery \in {"waiting_for_handoff", "activating"}
     \/ row[j].state = "delivered" /\ row[j].delivery = "resumed"
     \/ row[j].state = "abandoned" /\ row[j].delivery = "abandoned"
     \/ row[j].state = "failed" /\ row[j].delivery = "needs_manual_recovery"

\* What the job's task has in hand: the lease is created after the prepare
\* handler, handed over by the handoff handler, ended by the delivery task.
BeforeWake == {"dstart", "dlock", "dgoal", "dturn"}
TaskShape(j) ==
  /\ mcp[j] = "idle" => op[j] = "none" /\ row[j].state = "none"
  /\ mcp[j] = "started" => op[j] = "none" /\ row[j].handoff = "pending"
  /\ op[j] \in PreparePCs => row[j].state = "none"
  /\ op[j] \in {"plock", "pturn", "pgoal"} => via[j] # NoPeer
  /\ op[j] \in HandoffPCs => mcp[j] = "handoff"
  /\ op[j] \in {"hlock", "hgoal", "hturn"} => row[j].handoff = "pending"
  /\ op[j] \in {"hint", "hdone", "hconf"} => row[j].handoff = "interrupting"
  /\ op[j] = "hinject" => row[j].handoff = "recording_receipt"
  /\ op[j] \in DeliverPCs => row[j].handoff = "ready" /\ row[j].state \in {"terminal"} \cup Retired
  /\ op[j] = "dwake" => row[j].delivery \in {"activating", "needs_manual_recovery"}
  /\ row[j].delivery = "activating" => op[j] = "dwake"

\* Who ends a live lease, and what a lease that is over has let go.
Driven(j) ==
  /\ row[j].state \in Live => deadline[j]
  /\ Revocable(j) => leasePeer[j] # NoPeer
  /\ row[j].state \in Live /\ row[j].handoff \in {"interrupting", "recording_receipt"}
       => op[j] \in HandoffPCs
  /\ row[j].state = "terminal" /\ row[j].handoff = "ready" => op[j] \in DeliverPCs
  /\ row[j].state \in Retired => leasePeer[j] = NoPeer
  /\ touched[j] => row[j].state = "abandoned"

\* The row tells how many requests of each kind have been made.
Counted(j) ==
  /\ interrupts[j] = IF row[j].handoff \in {"none", "pending"} THEN 0 ELSE 1
  /\ row[j].handoff \in {"none", "pending", "interrupting"} => receipts[j] = 0
  /\ receipts[j] <= 1
  /\ row[j].handoff = "ready" => receipts[j] = 1
  /\ wakes[j] <= 1
  /\ row[j].handoff # "ready" => wakes[j] = 0
  /\ row[j].delivery \in {"none", "pending", "waiting_for_handoff", "abandoned"} => wakes[j] = 0
  /\ op[j] \in BeforeWake => wakes[j] = 0

\* A message of a job's task on a connection, in either direction.
About(m, j) == m[1] \in BridgeCalls \cup {"reply"} /\ m[2] = j
Elems(s) == {s[i] : i \in 1..Len(s)}
Holds(s, j) == \E m \in Elems(s) : About(m, j)
Single(s, j) == \A i, k \in 1..Len(s) : About(s[i], j) /\ About(s[k], j) => i = k
InFlight(j) == \E p \in Peers : Holds(up[p], j) \/ Holds(down[p], j)

\* At most one message of a task is in flight, in either direction.
OneMessage(j) ==
  /\ \A p \in Peers : Single(up[p], j) /\ Single(down[p], j)
  /\ \A p, q \in Peers : Holds(up[p], j) /\ Holds(up[q], j) => p = q
  /\ \A p, q \in Peers : Holds(down[p], j) /\ Holds(down[q], j) => p = q
  /\ \A p, q \in Peers : ~(Holds(up[p], j) /\ Holds(down[q], j))

\* It is the one awaited, or nothing further is asked for the job.
AtRest == {"none", "goal", "observe", "plock", "hlock", "hdone", "dstart", "dlock"}
Awaited(j) ==
  /\ op[j] \in AtRest => reply[j] = "none"
  /\ InFlight(j) => \/ reply[j] \in {"wait", "error"}
                    \/ op[j] = "none" /\ mcp[j] \notin {"idle", "started"} /\ row[j].state \notin Live

\* The receipt is recorded by the request the handoff awaits, and by no other.
Receipt(j) ==
  /\ \A p \in Peers : TaskRequest("inject_items", j) \in Elems(up[p]) =>
                        receipts[j] = 0 /\ row[j].handoff = "recording_receipt"
  /\ op[j] = "hinject" /\ reply[j] = "wait" =>
       /\ \A p \in Peers, m \in Requests : m \in Elems(up[p]) /\ About(m, j) => m[1] = "inject_items"
       /\ \A p \in Peers : Holds(down[p], j) => receipts[j] = 1
  /\ op[j] = "hinject" /\ reply[j] = "ok" => receipts[j] = 1

JobInv(j) == RowShape(j) /\ TaskShape(j) /\ Driven(j) /\ Counted(j)
WireInv(j) == OneMessage(j) /\ Awaited(j) /\ Receipt(j)
SessionInv == OneLiveLease /\ \A j \in Jobs : JobInv(j) /\ WireInv(j)

-----------------------------------------------------------------------------
(* Types                                                                   *)

OpPCs == {"none"} \cup PreparePCs \cup HandoffPCs \cup DeliverPCs
Deliveries == {"none", "pending", "waiting_for_handoff", "activating", "resumed", "abandoned",
               "needs_manual_recovery"}
Handoffs == {"none", "pending", "interrupting", "recording_receipt", "ready"}
Row == [state : {"none"} \cup Live \cup Retired, delivery : Deliveries, handoff : Handoffs]
McpPCs == {"idle", "prepare", "started", "handoff", "held", "abort", "over"}

AppType  == /\ turn \in Turns /\ turnState \in TurnStates /\ author \in Peers \cup {NoPeer}
            /\ goal \in {"eligible", "pending"} /\ sub \subseteq Peers /\ goalNote \in BOOLEAN
WireType == up \in [Peers -> Seq(Requests)] /\ down \in [Peers -> Seq(Events)]
RowType  == /\ row \in [Jobs -> Row] /\ leasePeer \in [Jobs -> Peers \cup {NoPeer}]
            /\ deadline \in [Jobs -> BOOLEAN]
TaskType == /\ op \in [Jobs -> OpPCs] /\ via \in [Jobs -> Peers \cup {NoPeer}]
            /\ reply \in [Jobs -> {"none", "wait"} \cup Values]
DoneType == done \in [Jobs -> BOOLEAN]
OwnType  == /\ peer \in Peers \cup {NoPeer} /\ ambiguous \in BOOLEAN
            /\ calls \in [Jobs -> Peers \cup {NoPeer}]
TuiType  == /\ conn \in [Peers -> {"new", "up", "down"}]
            /\ msg \in [Peers -> UserMessages \cup {"none"}] /\ acts \in 0..MaxActs
McpType  == mcp \in [Jobs -> McpPCs]
JobType  == job \in [Jobs -> {"none", "running", "ended"}] /\ callTurn \in [Jobs -> Turns \cup {0}]
HistType == /\ interrupts \in [Jobs -> Nat] /\ wakes \in [Jobs -> Nat] /\ receipts \in [Jobs -> Nat]
            /\ touched \in [Jobs -> BOOLEAN]
RunType  == restarts \in 0..MaxRestarts /\ quiet \in BOOLEAN

\* TypeOK is their conjunction, before a step and after it.
Typed == /\ AppType /\ WireType /\ RowType /\ TaskType /\ DoneType /\ OwnType /\ TuiType
         /\ McpType /\ JobType /\ HistType /\ RunType
LEMMA TypeParts ==
  TypeOK => Typed
BY DEF Typed, TypeOK, AppType, WireType, RowType, TaskType, DoneType, OwnType, TuiType, McpType, JobType,
       HistType, RunType, Row, Deliveries, Handoffs, OpPCs, McpPCs

LEMMA TypePartsNext ==
  Typed' => TypeOK'
BY DEF Typed, TypeOK, AppType, WireType, RowType, TaskType, DoneType, OwnType, TuiType, McpType, JobType,
       HistType, RunType, Row, Deliveries, Handoffs, OpPCs, McpPCs

\* What a step leaves alone keeps its type.
LEMMA Unchanged ==
  ASSUME TypeOK
  PROVE  /\ UNCHANGED appVars => AppType'
         /\ UNCHANGED wires => WireType'
         /\ UNCHANGED rowVars => RowType'
         /\ UNCHANGED <<op, via, reply>> => TaskType'
         /\ UNCHANGED done => DoneType'
         /\ UNCHANGED ownVars => OwnType'
         /\ UNCHANGED tuiVars => TuiType'
         /\ UNCHANGED mcp => McpType'
         /\ UNCHANGED <<job, callTurn>> => JobType'
         /\ UNCHANGED histVars => HistType'
         /\ UNCHANGED restarts /\ quiet' \in {quiet, FALSE} => RunType'
<1> USE TypeParts DEF Typed
<1>1. UNCHANGED appVars => AppType'
  BY DEF AppType, appVars
<1>2. UNCHANGED wires => WireType'
  BY DEF WireType, wires
<1>3. UNCHANGED rowVars => RowType'
  BY DEF RowType, rowVars
<1>4. UNCHANGED <<op, via, reply>> => TaskType'
  BY DEF TaskType
<1>5. (UNCHANGED done => DoneType') /\ (UNCHANGED mcp => McpType')
  BY DEF DoneType, McpType
<1>6. UNCHANGED ownVars => OwnType'
  BY DEF OwnType, ownVars
<1>7. UNCHANGED tuiVars => TuiType'
  BY DEF TuiType, tuiVars
<1>8. UNCHANGED <<job, callTurn>> => JobType'
  BY DEF JobType
<1>9. UNCHANGED histVars => HistType'
  BY DEF HistType, histVars
<1>10. UNCHANGED restarts /\ quiet' \in {quiet, FALSE} => RunType'
  BY DEF RunType
<1> QED
  BY <1>1, <1>2, <1>3, <1>4, <1>5, <1>6, <1>7, <1>8, <1>9, <1>10

\* The requests a task makes and the events it gets.
LEMMA MessageTypes ==
  /\ \A c \in BridgeCalls, j \in Jobs : TaskRequest(c, j) \in Requests
  /\ \A m \in UserMessages : UserRequest(m) \in Requests
  /\ \A j \in Jobs, v \in Values : <<"reply", j, v>> \in Events
  /\ \A k \in {"started", "completed", "tool"}, t \in Turns : <<k, t>> \in Events
  /\ \A j \in Jobs : <<"item", j>> \in Events
<1>1. \A c \in BridgeCalls, j \in Jobs : TaskRequest(c, j) \in Requests
  BY DEF Requests
<1>2. \A m \in UserMessages : UserRequest(m) \in Requests
  BY DEF Requests
<1>3. \A j \in Jobs, v \in Values : <<"reply", j, v>> \in Events
  BY DEF Events
<1>4. \A k \in {"started", "completed", "tool"}, t \in Turns : <<k, t>> \in Events
  BY DEF Events
<1>5. \A j \in Jobs : <<"item", j>> \in Events
  BY DEF Events
<1> QED
  BY <1>1, <1>2, <1>3, <1>4, <1>5

\* A task calls, goes on, or is over.
LEMMA CallType ==
  ASSUME TypeOK, NEW j \in Jobs, NEW pc \in OpPCs, NEW p, NEW c \in BridgeCalls, Call(j, pc, p, c),
         UNCHANGED <<via, down>>
  PROVE  TaskType' /\ WireType'
<1>1. op' \in [Jobs -> OpPCs] /\ via' \in [Jobs -> Peers \cup {NoPeer}]
  BY TypeParts DEF Typed, TaskType, Call
<1>2. reply' \in [Jobs -> {"none", "wait"} \cup Values]
  BY TypeParts DEF Typed, TaskType, Call, Values
<1>3. up' \in [Peers -> Seq(Requests)]
  <2>1. CASE up' = up
    BY <2>1, TypeParts DEF Typed, WireType
  <2>2. CASE up' = [up EXCEPT ![p] = Append(@, TaskRequest(c, j))]
    <3>1. \A q \in Peers : up[q] \in Seq(Requests) /\ Append(up[q], TaskRequest(c, j)) \in Seq(Requests)
      BY TypeParts, MessageTypes DEF Typed, WireType
    <3> QED
      BY <2>2, <3>1, TypeParts DEF Typed, WireType
  <2> QED
    BY <2>1, <2>2 DEF Call
<1> QED
  BY <1>1, <1>2, <1>3, TypeParts DEF Typed, TaskType, WireType

LEMMA GotoType ==
  ASSUME TypeOK, NEW j \in Jobs, NEW pc \in OpPCs, Goto(j, pc), via' \in [Jobs -> Peers \cup {NoPeer}]
  PROVE  TaskType' /\ (UNCHANGED down => WireType')
BY TypeParts DEF Typed, TaskType, WireType, Goto

LEMMA OverType ==
  ASSUME TypeOK, NEW j \in Jobs, Over(j)
  PROVE  TaskType' /\ (UNCHANGED down => WireType')
<1>1. via' \in [Jobs -> Peers \cup {NoPeer}]
  BY TypeParts DEF Typed, TaskType, Over
<1> QED
  BY <1>1, GotoType DEF Over, OpPCs

\* Rows are retired within their type.
LEMMA RetiredRow ==
  ASSUME NEW r \in Row, NEW s \in Retired, NEW d \in Deliveries
  PROVE  [r EXCEPT !.state = s, !.delivery = d] \in Row
BY DEF Row

LEMMA AbandonType ==
  ASSUME TypeOK, row' = [j \in Jobs |-> Abandoned(j)],
         leasePeer' \in [Jobs -> Peers \cup {NoPeer}],
         deadline' = [j \in Jobs |-> deadline[j] /\ ~Revocable(j)]
  PROVE  RowType'
<1>1. \A j \in Jobs : row[j] \in Row
  BY TypeParts DEF Typed, RowType
<1>2. \A j \in Jobs : Abandoned(j) \in Row
  BY <1>1, RetiredRow DEF Abandoned, Retired, Deliveries
<1>3. row' \in [Jobs -> Row]
  BY <1>2
<1>4. deadline' \in [Jobs -> BOOLEAN]
  OBVIOUS
<1> QED
  BY <1>3, <1>4 DEF RowType

LEMMA AbandonAllType ==
  ASSUME TypeOK, AbandonForManualChange
  PROVE  RowType'
<1>1. leasePeer' \in [Jobs -> Peers \cup {NoPeer}]
  BY TypeParts DEF Typed, RowType, AbandonForManualChange
<1> QED
  BY <1>1, AbandonType DEF AbandonForManualChange

\* A change of some fields of one row.
LEMMA RowFieldType ==
  ASSUME TypeOK, NEW j \in Jobs
  PROVE  /\ \A s \in {"none"} \cup Live \cup Retired, d \in Deliveries : SetRow(j, s, d) \in [Jobs -> Row]
         /\ \A h \in Handoffs : [row EXCEPT ![j].handoff = h] \in [Jobs -> Row]
         /\ \A d \in Deliveries : [row EXCEPT ![j].delivery = d] \in [Jobs -> Row]
<1>0. row \in [Jobs -> Row]
  BY TypeParts DEF Typed, RowType
<1>1. \A s \in {"none"} \cup Live \cup Retired, d \in Deliveries : SetRow(j, s, d) \in [Jobs -> Row]
  BY <1>0 DEF SetRow, Row
<1>2. \A h \in Handoffs : [row EXCEPT ![j].handoff = h] \in [Jobs -> Row]
  BY <1>0 DEF Row
<1>3. \A d \in Deliveries : [row EXCEPT ![j].delivery = d] \in [Jobs -> Row]
  BY <1>0 DEF Row
<1> QED
  BY <1>1, <1>2, <1>3

LEMMA FailedType ==
  ASSUME TypeOK, NEW j \in Jobs, SessionFailed(j), deadline' \in [Jobs -> BOOLEAN]
  PROVE  RowType'
<1>1. CASE UNCHANGED <<row, leasePeer>>
  BY <1>1, TypeParts DEF Typed, RowType
<1>2. CASE /\ row' = SetRow(j, "failed", "needs_manual_recovery")
           /\ leasePeer' = [leasePeer EXCEPT ![j] = NoPeer]
  <2>1. row' \in [Jobs -> Row]
    BY <1>2, RowFieldType DEF Retired, Deliveries
  <2>2. leasePeer' \in [Jobs -> Peers \cup {NoPeer}]
    BY <1>2, TypeParts DEF Typed, RowType
  <2> QED
    BY <2>1, <2>2 DEF RowType
<1> QED
  BY <1>1, <1>2 DEF SessionFailed

-----------------------------------------------------------------------------
(* Every step keeps the types                                              *)

\* An event or a reply added to a connection.
LEMMA DownType ==
  ASSUME TypeOK, NEW e \in Events, NEW r \in Events
  PROVE  /\ Publish(e) => down' \in [Peers -> Seq(Events)]
         /\ \A p \in Peers : PublishAndReply(e, p, r) => down' \in [Peers -> Seq(Events)]
<1>1. \A q \in Peers : down[q] \in Seq(Events) /\ Append(down[q], e) \in Seq(Events)
  BY TypeParts DEF Typed, WireType
<1>2. Publish(e) => down' \in [Peers -> Seq(Events)]
  BY <1>1 DEF Publish
<1>3. ASSUME NEW p \in Peers, PublishAndReply(e, p, r) PROVE down' \in [Peers -> Seq(Events)]
  <2> DEFINE event(q) == IF q \in sub THEN <<e>> ELSE <<>>
             answer(q) == IF q = p /\ conn[p] = "up" THEN <<r>> ELSE <<>>
  <2>1. <<e>> \in Seq(Events) /\ <<r>> \in Seq(Events) /\ <<>> \in Seq(Events)
    OBVIOUS
  <2>2. \A q \in Peers : event(q) \in Seq(Events) /\ answer(q) \in Seq(Events)
    BY <2>1
  <2> HIDE DEF event, answer
  <2>3. \A q \in Peers : /\ down[q] \o (answer(q) \o event(q)) \in Seq(Events)
                         /\ down[q] \o (event(q) \o answer(q)) \in Seq(Events)
    BY <1>1, <2>2
  <2>4. \/ down' = [q \in Peers |-> down[q] \o (answer(q) \o event(q))]
        \/ down' = [q \in Peers |-> down[q] \o (event(q) \o answer(q))]
    BY <1>3 DEF PublishAndReply, event, answer
  <2> QED
    BY <2>3, <2>4
<1> QED
  BY <1>2, <1>3

LEMMA AnswerType ==
  ASSUME TypeOK, NEW p \in Peers, NEW j \in Jobs, NEW v \in Values, Answer(p, j, v)
  PROVE  down' \in [Peers -> Seq(Events)]
<1>1. Append(down[p], <<"reply", j, v>>) \in Seq(Events)
  BY TypeParts, MessageTypes DEF Typed, WireType
<1> QED
  BY <1>1, TypeParts DEF Typed, WireType, Answer

\* The request at the head of a connection is a user's or a task's.
LEMMA RequestForms ==
  ASSUME NEW r \in Requests
  PROVE  \/ \E m \in UserMessages : r = UserRequest(m) /\ r[1] = "user" /\ r[2] = m
         \/ \E c \in BridgeCalls, j \in Jobs : r = TaskRequest(c, j) /\ r[1] = c /\ r[2] = j /\ c # "user"
BY DEF Requests, UserRequest, TaskRequest, BridgeCalls

LEMMA EventForms ==
  ASSUME NEW e \in Events
  PROVE  \/ e[1] \in {"started", "completed", "tool"} /\ e[2] \in Turns
         \/ e[1] = "item" /\ e[2] \in Jobs
         \/ e[1] = "reply" /\ e[2] \in Jobs /\ e[3] \in Values
BY DEF Events

LEMMA SeqHead ==
  ASSUME NEW S, NEW s \in Seq(S), s # <<>>
  PROVE  Head(s) \in S /\ Tail(s) \in Seq(S)
OBVIOUS

LEMMA BeginTurnType ==
  ASSUME TypeOK, NEW who \in Peers \cup {NoPeer}, BeginTurn(who), UNCHANGED <<goal, sub, goalNote>>
  PROVE  AppType' /\ turn + 1 \in Turns
BY TypeParts DEF Typed, AppType, BeginTurn, Turns, TurnStates

\* The App Server serves a request.
LEMMA ServeType ==
  ASSUME TypeOK, NEW p \in Peers, Serve(p)
  PROVE  TypeOK'
<1>1. up' \in [Peers -> Seq(Requests)] /\ Head(up[p]) \in Requests
  <2>1. Head(up[p]) \in Requests /\ Tail(up[p]) \in Seq(Requests)
    BY TypeParts, SeqHead DEF Typed, Serve, WireType
  <2> QED
    BY <2>1, TypeParts DEF Typed, Serve, WireType
<1>2. turn \in Turns
  BY TypeParts DEF Typed, AppType
<1>3. ASSUME NEW m \in UserMessages, ServeUser(p, m)
      PROVE  AppType' /\ down' \in [Peers -> Seq(Events)] /\ receipts' \in [Jobs -> Nat]
  <2>1. receipts' \in [Jobs -> Nat]
    BY <1>3, TypeParts DEF Typed, ServeUser, HistType
  <2>2. AppType'
    <3>1. CASE BeginTurn(p) /\ UNCHANGED <<goal, sub, goalNote>>
      BY <3>1, BeginTurnType
    <3>2. CASE turnState' = "interrupted" /\ UNCHANGED <<turn, author, goal, sub, goalNote>>
      BY <3>2, TypeParts DEF Typed, AppType, TurnStates
    <3>3. CASE goal' = "pending" /\ goalNote' = TRUE /\ UNCHANGED <<turn, turnState, author, sub>>
      BY <3>3, TypeParts DEF Typed, AppType
    <3>4. CASE /\ sub' = IF conn[p] = "up" THEN sub \cup {p} ELSE sub
               /\ UNCHANGED <<turn, turnState, author, goal, goalNote>>
      BY <3>4, TypeParts DEF Typed, AppType
    <3>5. CASE UNCHANGED appVars
      BY <3>5, Unchanged
    <3> QED
      BY <1>3, <3>1, <3>2, <3>3, <3>4, <3>5 DEF ServeUser
  <2>3. down' \in [Peers -> Seq(Events)]
    <3>1. turn + 1 \in Turns
      BY <1>2 DEF Turns
    <3>2. <<"started", turn + 1>> \in Events /\ <<"completed", turn>> \in Events
      BY <1>2, <3>1, MessageTypes
    <3>3. CASE down' = down
      BY <3>3, TypeParts DEF Typed, WireType
    <3>4. CASE Publish(<<"started", turn + 1>>) \/ Publish(<<"completed", turn>>)
      BY <3>2, <3>4, DownType
    <3> QED
      BY <1>3, <3>3, <3>4 DEF ServeUser
  <2> QED
    BY <2>1, <2>2, <2>3
<1>4. ASSUME NEW c \in BridgeCalls, NEW j \in Jobs, ServeTask(p, c, j)
      PROVE  AppType' /\ down' \in [Peers -> Seq(Events)] /\ receipts' \in [Jobs -> Nat]
  <2>1. receipts' \in [Jobs -> Nat]
    BY <1>4, TypeParts DEF Typed, ServeTask, HistType
  <2>2. AppType'
    <3>1. CASE BeginTurn(NoPeer) /\ UNCHANGED <<goal, sub, goalNote>>
      BY <3>1, BeginTurnType
    <3>2. CASE turnState' = "interrupted" /\ UNCHANGED <<turn, author, goal, sub, goalNote>>
      BY <3>2, TypeParts DEF Typed, AppType, TurnStates
    <3>3. CASE UNCHANGED appVars
      BY <3>3, Unchanged
    <3> QED
      BY <1>4, <3>1, <3>2, <3>3 DEF ServeTask
  <2>3. down' \in [Peers -> Seq(Events)]
    <3>1. turn + 1 \in Turns
      BY <1>2 DEF Turns
    <3>2. "ok" \in Values /\ "error" \in Values /\ goal \in Values /\ Latest(j) \in Values
      BY TypeParts DEF Typed, Values, AppType, Latest
    <3>3. /\ <<"started", turn + 1>> \in Events /\ <<"completed", turn>> \in Events
          /\ <<"reply", j, "ok">> \in Events
      BY <1>2, <3>1, <3>2, MessageTypes
    <3>4. CASE \E v \in Values : Answer(p, j, v)
      BY <3>4, AnswerType
    <3>5. CASE \/ PublishAndReply(<<"started", turn + 1>>, p, <<"reply", j, "ok">>)
               \/ PublishAndReply(<<"completed", turn>>, p, <<"reply", j, "ok">>)
      BY <3>3, <3>5, DownType
    <3> QED
      BY <1>4, <3>2, <3>4, <3>5 DEF ServeTask
  <2> QED
    BY <2>1, <2>2, <2>3
<1>5. AppType' /\ down' \in [Peers -> Seq(Events)] /\ receipts' \in [Jobs -> Nat]
  <2> DEFINE r == Head(up[p])
  <2>1. IF r[1] = "user" THEN ServeUser(p, r[2]) ELSE ServeTask(p, r[1], r[2])
    BY DEF Serve
  <2> QED
    BY <1>1, <1>3, <1>4, <2>1, RequestForms
<1>6. UNCHANGED <<rowVars, taskVars, ownVars, tuiVars, mcpVars, interrupts, wakes, touched, restarts, quiet>>
  BY DEF Serve
<1>7. HistType' /\ WireType'
  BY <1>1, <1>5, <1>6, TypeParts DEF Typed, HistType, WireType
<1>8. UNCHANGED <<op, via, reply, done, mcp, job, callTurn>>
  BY <1>6 DEF taskVars, mcpVars
<1> QED
  BY <1>5, <1>6, <1>7, <1>8, Unchanged, TypePartsNext DEF Typed

\* The MCP server's side of a job.
LEMMA McpStepType ==
  ASSUME TypeOK, NEW j \in Jobs, NEW v \in McpPCs, mcp' = [mcp EXCEPT ![j] = v]
  PROVE  McpType'
BY TypeParts DEF Typed, McpType

LEMMA RaiseType ==
  ASSUME TypeOK, NEW j \in Jobs, Raise(j), UNCHANGED down
  PROVE  TaskType' /\ WireType' /\ McpType' /\ job' = job
<1>1. McpType'
  BY TypeParts DEF Typed, McpType, McpPCs, Raise
<1> QED
  BY <1>1, OverType DEF Raise

LEMMA StartJobType ==
  ASSUME TypeOK, NEW j \in Jobs, StartJob(j)
  PROVE  TypeOK'
<1>1. McpType'
  BY McpStepType DEF StartJob, McpPCs
<1>2. JobType'
  BY TypeParts DEF Typed, JobType, AppType, StartJob
<1>3. TaskType'
  BY GotoType, TypeParts DEF Typed, TaskType, StartJob, OpPCs, PreparePCs
<1>4. WireType'
  <2>1. down' \in [Peers -> Seq(Events)]
    BY DownType, MessageTypes DEF StartJob
  <2> QED
    BY <2>1, TypeParts DEF Typed, WireType, StartJob, Goto
<1>5. UNCHANGED <<appVars, rowVars, done, ownVars, tuiVars, histVars, restarts, quiet>>
  BY DEF StartJob
<1> QED
  BY <1>1, <1>2, <1>3, <1>4, <1>5, Unchanged, TypePartsNext DEF Typed

LEMMA PrepareType ==
  ASSUME TypeOK, NEW j \in Jobs,
         \/ PrepareGoal(j) \/ PrepareObserved(j) \/ PrepareLocked(j) \/ PrepareTurn(j)
         \/ PrepareCommit(j) \/ PrepareGivenUp(j)
  PROVE  TypeOK'
<1>1. UNCHANGED <<appVars, done, ownVars, tuiVars, callTurn, histVars, restarts, down>>
  BY DEF PrepareGoal, PrepareObserved, PrepareLocked, PrepareTurn, PrepareCommit, PrepareGivenUp,
         prepareFrame, taskVars, wires
<1>2. AppType' /\ DoneType' /\ OwnType' /\ TuiType' /\ HistType'
  BY <1>1, Unchanged
<1>3. RunType'
  BY <1>1, Unchanged DEF PrepareGoal, PrepareObserved, PrepareLocked, PrepareTurn, PrepareCommit,
                         PrepareGivenUp, Raise, prepareFrame
<1>4. TaskType' /\ WireType'
  <2>1. CASE Raise(j)
    BY <1>1, <2>1, RaiseType
  <2>2. CASE Over(j)
    BY <1>1, <2>2, OverType
  <2>3. CASE \E pc \in {"pturn", "pgoal"}, c \in BridgeCalls : Call(j, pc, via[j], c) /\ UNCHANGED via
    BY <1>1, <2>3, CallType DEF OpPCs, PreparePCs
  <2>4. CASE Goto(j, "observe") /\ UNCHANGED via
    BY <1>1, <2>4, GotoType, TypeParts DEF Typed, TaskType, OpPCs, PreparePCs
  <2>5. CASE Goto(j, "plock") /\ via' = [via EXCEPT ![j] = calls[j]]
    <3>1. via' \in [Jobs -> Peers \cup {NoPeer}]
      BY <2>5, TypeParts DEF Typed, TaskType, OwnType
    <3> QED
      BY <1>1, <2>5, <3>1, GotoType DEF OpPCs, PreparePCs
  <2>6. CASE UNCHANGED <<op, via, reply, wires>>
    BY <2>6, Unchanged
  <2>7. "turns/list" \in BridgeCalls /\ "goal/get" \in BridgeCalls
    BY DEF BridgeCalls
  <2> QED
    BY <2>1, <2>2, <2>3, <2>4, <2>5, <2>6, <2>7
    DEF PrepareGoal, PrepareObserved, PrepareLocked, PrepareTurn, PrepareCommit, PrepareGivenUp, taskVars
<1>5. McpType'
  <2>1. CASE Raise(j)
    BY <1>1, <2>1, RaiseType
  <2>2. CASE mcp' = mcp
    BY <2>2, Unchanged
  <2>3. CASE PrepareCommit(j) \/ PrepareGivenUp(j)
    BY <2>3, TypeParts DEF Typed, McpType, McpPCs, PrepareCommit, PrepareGivenUp, Raise
  <2> QED
    BY <2>1, <2>2, <2>3 DEF PrepareGoal, PrepareObserved, PrepareLocked, PrepareTurn
<1>6. JobType'
  <2>1. job' = job \/ job' = [job EXCEPT ![j] = "running"]
    BY DEF PrepareGoal, PrepareObserved, PrepareLocked, PrepareTurn, PrepareCommit, PrepareGivenUp, Raise
  <2> QED
    BY <1>1, <2>1, TypeParts DEF Typed, JobType
<1>7. RowType'
  <2>1. CASE UNCHANGED rowVars
    BY <2>1, Unchanged
  <2>2. CASE /\ row' = [row EXCEPT ![j] = [state |-> "armed", delivery |-> "pending", handoff |-> "pending"]]
             /\ leasePeer' = [leasePeer EXCEPT ![j] = via[j]]
             /\ deadline' = [deadline EXCEPT ![j] = TRUE]
    <3>1. [state |-> "armed", delivery |-> "pending", handoff |-> "pending"] \in Row
      BY DEF Row, Live, Deliveries, Handoffs
    <3>2. row' \in [Jobs -> Row]
      BY <2>2, <3>1, TypeParts DEF Typed, RowType
    <3>3. leasePeer' \in [Jobs -> Peers \cup {NoPeer}] /\ deadline' \in [Jobs -> BOOLEAN]
      BY <2>2, TypeParts DEF Typed, RowType, TaskType
    <3> QED
      BY <3>2, <3>3 DEF RowType
  <2> QED
    BY <2>1, <2>2 DEF PrepareGoal, PrepareObserved, PrepareLocked, PrepareTurn, PrepareCommit, PrepareGivenUp
<1> QED
  BY <1>2, <1>3, <1>4, <1>5, <1>6, <1>7, TypePartsNext DEF Typed

\* A failed handoff.
LEMMA HandoffFailsType ==
  ASSUME TypeOK, NEW j \in Jobs, HandoffFails(j), UNCHANGED down
  PROVE  TaskType' /\ WireType' /\ RowType' /\ DoneType' /\ McpType' /\ interrupts' = interrupts
<1>1. TaskType' /\ WireType'
  BY OverType DEF HandoffFails
<1>2. RowType'
  BY FailedType, TypeParts DEF Typed, RowType, HandoffFails
<1>3. DoneType'
  BY TypeParts DEF Typed, DoneType, HandoffFails
<1>4. McpType'
  BY TypeParts DEF Typed, McpType, McpPCs, HandoffFails
<1> QED
  BY <1>1, <1>2, <1>3, <1>4 DEF HandoffFails

HandoffSteps(j) ==
  \/ HandoffLocked(j) \/ HandoffGoal(j) \/ HandoffTurn(j) \/ HandoffInterrupted(j)
  \/ HandoffDone(j) \/ HandoffConfirm(j) \/ HandoffReceipt(j)

LEMMA HandoffType ==
  ASSUME TypeOK, NEW j \in Jobs, Handoff(j) \/ HandoffSteps(j)
  PROVE  TypeOK'
<1> USE DEF HandoffSteps, HandoffLocked, HandoffGoal, HandoffInterrupted, HandoffDone, HandoffStep
<1>1. UNCHANGED <<appVars, down, ownVars, tuiVars, job, callTurn, receipts, touched, restarts, wakes, quiet>>
  BY DEF Handoff, HandoffTurn, HandoffConfirm, HandoffReceipt, handoffFrame
<1>2. AppType' /\ OwnType' /\ TuiType' /\ JobType' /\ RunType'
  BY <1>1, Unchanged
<1>3. CASE HandoffFails(j)
  BY <1>1, <1>2, <1>3, HandoffFailsType, TypeParts, TypePartsNext DEF Typed, HistType
<1>4. CASE ~HandoffFails(j)
  <2>1. HistType'
    <3>1. interrupts' = interrupts \/ interrupts' = [interrupts EXCEPT ![j] = @ + 1]
      BY <1>4 DEF Handoff, HandoffTurn, HandoffConfirm, HandoffReceipt, HandoffFails
    <3> QED
      BY <1>1, <3>1, TypeParts DEF Typed, HistType
  <2>2. DoneType'
    <3>1. done' = done \/ done' = [done EXCEPT ![j] = FALSE]
      BY <1>4 DEF Handoff, HandoffTurn, HandoffConfirm, HandoffReceipt
    <3> QED
      BY <3>1, TypeParts DEF Typed, DoneType
  <2>3. McpType'
    BY <1>4, TypeParts DEF Typed, McpType, McpPCs, Handoff, HandoffTurn, HandoffConfirm, HandoffReceipt,
                          HandoffRefused
  <2>4. RowType'
    <3>1. UNCHANGED rowVars \/ \E h \in Handoffs : row' = [row EXCEPT ![j].handoff = h] /\ UNCHANGED <<leasePeer, deadline>>
      BY <1>4 DEF Handoff, HandoffTurn, HandoffConfirm, HandoffReceipt, Handoffs
    <3> QED
      BY <3>1, Unchanged, RowFieldType, TypeParts DEF Typed, RowType
  <2>5. TaskType' /\ WireType'
    <3>1. CASE \E pc \in HandoffPCs, c \in BridgeCalls : Call(j, pc, via[j], c) /\ UNCHANGED via
      BY <1>1, <3>1, CallType DEF OpPCs
    <3>2. CASE \E pc \in {"hlock", "hdone", "dstart", "none"} :
                 Goto(j, pc) /\ via' \in {via, [via EXCEPT ![j] = leasePeer[j]], [via EXCEPT ![j] = NoPeer]}
      <4>1. via' \in [Jobs -> Peers \cup {NoPeer}]
        BY <3>2, TypeParts DEF Typed, TaskType, RowType
      <4> QED
        BY <1>1, <3>2, <4>1, GotoType DEF OpPCs, HandoffPCs, DeliverPCs
    <3>3. CASE UNCHANGED <<op, via, reply, up>>
      BY <1>1, <3>3, Unchanged DEF wires
    <3>4. {"turns/list", "goal/get", "turn/interrupt", "inject_items"} \subseteq BridgeCalls
      BY DEF BridgeCalls
    <3> QED
      BY <1>4, <3>1, <3>2, <3>3, <3>4
      DEF Handoff, HandoffTurn, HandoffConfirm, HandoffReceipt, AfterReceipt, HandoffPCs
  <2> QED
    BY <1>2, <2>1, <2>2, <2>3, <2>4, <2>5, TypePartsNext DEF Typed
<1> QED
  BY <1>3, <1>4

\* The end of the job, and those who end the lease from outside its task.
LEMMA McpRequestType ==
  ASSUME TypeOK, NEW j \in Jobs, Terminal(j) \/ Abort(j) \/ CancelWakeup(j) \/ ExpireAtDeadline(j)
  PROVE  TypeOK'
<1>1. UNCHANGED <<appVars, wires, via, reply, done, ownVars, conn, msg, callTurn, histVars, restarts>>
  BY DEF Terminal, Abort, CancelWakeup, ExpireAtDeadline, mcpFrame
<1>2. AppType' /\ WireType' /\ DoneType' /\ OwnType' /\ HistType'
  BY <1>1, Unchanged
<1>3. TaskType'
  BY <1>1, TypeParts DEF Typed, TaskType, OpPCs, DeliverPCs, Terminal, Abort, CancelWakeup, ExpireAtDeadline
<1>4. RunType'
  BY <1>1, TypeParts DEF Typed, RunType, Terminal, Abort, CancelWakeup, ExpireAtDeadline
<1>5. TuiType'
  <2>1. acts' \in 0..MaxActs
    BY TypeParts, SessionAssumption DEF Typed, TuiType, Terminal, Abort, CancelWakeup, ExpireAtDeadline
  <2> QED
    BY <1>1, <2>1, TypeParts DEF Typed, TuiType
<1>6. McpType' /\ JobType'
  BY <1>1, TypeParts DEF Typed, McpType, McpPCs, JobType, Terminal, Abort, CancelWakeup, ExpireAtDeadline
<1>7. RowType'
  <2>1. CASE UNCHANGED rowVars
    BY <2>1, Unchanged
  <2>2. CASE AbandonForManualChange
    BY <2>2, AbandonAllType
  <2>3. CASE row' = SetRow(j, "terminal", "waiting_for_handoff") /\ UNCHANGED <<leasePeer, deadline>>
    <3>1. row' \in [Jobs -> Row]
      BY <2>3, RowFieldType DEF Live, Deliveries
    <3> QED
      BY <2>3, <3>1, TypeParts DEF Typed, RowType
  <2>4. CASE SessionFailed(j) /\ deadline' = [deadline EXCEPT ![j] = FALSE]
    <3>1. deadline' \in [Jobs -> BOOLEAN]
      BY <2>4, TypeParts DEF Typed, RowType
    <3> QED
      BY <2>4, <3>1, FailedType
  <2> QED
    BY <2>1, <2>2, <2>3, <2>4 DEF Terminal, Abort, CancelWakeup, ExpireAtDeadline, rowVars
<1> QED
  BY <1>2, <1>3, <1>4, <1>5, <1>6, <1>7, TypePartsNext DEF Typed

DeliverSteps(j) ==
  \/ DeliverStart(j) \/ DeliverLocked(j) \/ DeliverGoal(j) \/ DeliverTurn(j) \/ DeliverWoken(j)
  \/ DeliverUnwind(j)

LEMMA DeliverFailsType ==
  ASSUME TypeOK, NEW j \in Jobs, DeliverFails(j), UNCHANGED down
  PROVE  TaskType' /\ WireType' /\ RowType'
<1>1. TaskType' /\ WireType'
  BY OverType DEF DeliverFails
<1>2. RowType'
  BY FailedType, TypeParts DEF Typed, RowType, DeliverFails
<1> QED
  BY <1>1, <1>2

LEMMA DeliverType ==
  ASSUME TypeOK, NEW j \in Jobs, DeliverSteps(j)
  PROVE  TypeOK'
<1> USE DEF DeliverSteps
<1>1. UNCHANGED <<appVars, down, done, ownVars, tuiVars, mcpVars, interrupts, receipts, touched, restarts, quiet>>
  BY DEF DeliverStart, DeliverLocked, DeliverGoal, DeliverTurn, DeliverWoken, DeliverUnwind, deliverFrame
<1>2. AppType' /\ DoneType' /\ OwnType' /\ TuiType' /\ McpType' /\ JobType' /\ RunType'
  BY <1>1, Unchanged DEF mcpVars
<1>3. HistType'
  <2>1. wakes' = wakes \/ wakes' = [wakes EXCEPT ![j] = @ + 1]
    BY DEF DeliverStart, DeliverLocked, DeliverGoal, DeliverTurn, DeliverWoken, DeliverUnwind
  <2> QED
    BY <1>1, <2>1, TypeParts DEF Typed, HistType
<1>4. CASE DeliverFails(j)
  BY <1>1, <1>2, <1>3, <1>4, DeliverFailsType, TypePartsNext DEF Typed
<1>5. CASE ~DeliverFails(j)
  <2>1. TaskType' /\ WireType'
    <3>1. CASE \E pc \in DeliverPCs, c \in BridgeCalls : Call(j, pc, via[j], c) /\ UNCHANGED via
      BY <1>1, <3>1, CallType DEF OpPCs
    <3>2. CASE Goto(j, "dlock") /\ via' = [via EXCEPT ![j] = leasePeer[j]]
      <4>1. via' \in [Jobs -> Peers \cup {NoPeer}]
        BY <3>2, TypeParts DEF Typed, TaskType, RowType
      <4> QED
        BY <1>1, <3>2, <4>1, GotoType DEF OpPCs, DeliverPCs
    <3>3. CASE Over(j)
      BY <1>1, <3>3, OverType
    <3>4. {"turns/list", "goal/get", "turn/start"} \subseteq BridgeCalls
      BY DEF BridgeCalls
    <3> QED
      BY <1>5, <3>1, <3>2, <3>3, <3>4
      DEF DeliverStart, DeliverLocked, DeliverGoal, DeliverTurn, DeliverWoken, DeliverUnwind, DeliverPCs
  <2>2. RowType'
    <3>1. CASE UNCHANGED rowVars
      BY <3>1, Unchanged
    <3>2. CASE row' = [row EXCEPT ![j].delivery = "activating"] /\ UNCHANGED <<leasePeer, deadline>>
      <4>1. row' \in [Jobs -> Row]
        BY <3>2, RowFieldType DEF Deliveries
      <4> QED
        BY <3>2, <4>1, TypeParts DEF Typed, RowType
    <3>3. CASE /\ row' = SetRow(j, "delivered", "resumed")
               /\ leasePeer' = [leasePeer EXCEPT ![j] = NoPeer]
               /\ deadline' = [deadline EXCEPT ![j] = FALSE]
      <4>1. row' \in [Jobs -> Row]
        BY <3>3, RowFieldType DEF Retired, Deliveries
      <4> QED
        BY <3>3, <4>1, TypeParts DEF Typed, RowType
    <3> QED
      BY <1>5, <3>1, <3>2, <3>3
      DEF DeliverStart, DeliverLocked, DeliverGoal, DeliverTurn, DeliverWoken, DeliverUnwind
  <2> QED
    BY <1>2, <1>3, <2>1, <2>2, TypePartsNext DEF Typed
<1> QED
  BY <1>4, <1>5

LEMMA TimeoutType ==
  ASSUME TypeOK, NEW j \in Jobs, Timeout(j)
  PROVE  TypeOK'
<1>1. /\ UNCHANGED <<appVars, down, ownVars, tuiVars, job, callTurn, wakes, receipts, touched, restarts>>
      /\ quiet' = FALSE
  BY DEF Timeout, Raise
<1>2. AppType' /\ OwnType' /\ TuiType' /\ JobType' /\ RunType'
  BY <1>1, Unchanged
<1>3. TaskType' /\ WireType' /\ RowType' /\ DoneType' /\ McpType' /\ interrupts' = interrupts
  <2>1. CASE HandoffFails(j)
    BY <1>1, <2>1, HandoffFailsType
  <2>2. CASE DeliverFails(j) /\ UNCHANGED <<done, mcp, interrupts>>
    BY <1>1, <2>2, DeliverFailsType, Unchanged
  <2>3. CASE Raise(j) /\ UNCHANGED <<rowVars, done, interrupts>>
    BY <1>1, <2>3, RaiseType, Unchanged
  <2> QED
    BY <2>1, <2>2, <2>3 DEF Timeout
<1>4. HistType'
  BY <1>1, <1>3, TypeParts DEF Typed, HistType
<1> QED
  BY <1>2, <1>3, <1>4, TypePartsNext DEF Typed

LEMMA ObserveType ==
  ASSUME TypeOK, NEW p \in Peers, Observe(p)
  PROVE  TypeOK'
<1>1. UNCHANGED <<appVars, up, op, via, tuiVars, mcpVars, histVars, restarts, quiet>>
  BY DEF Observe
<1>2. AppType' /\ TuiType' /\ McpType' /\ JobType' /\ HistType' /\ RunType'
  BY <1>1, Unchanged DEF mcpVars
<1>3. PICK e \in Events : /\ e = Head(down[p]) /\ Tail(down[p]) \in Seq(Events)
                          /\ ObserveStarted(p, e) \/ ObserveCompleted(e) \/ ObserveReply(e)
  BY TypeParts, SeqHead DEF Typed, WireType, Observe
<1>4. WireType'
  BY <1>1, <1>3, TypeParts DEF Typed, WireType, Observe
<1>5. RowType'
  BY <1>3, AbandonAllType, Unchanged DEF ObserveStarted, ObserveCompleted, ObserveReply, UserActivity
<1>6. DoneType'
  BY <1>3, TypeParts DEF Typed, DoneType, ObserveStarted, ObserveCompleted, ObserveReply
<1>7. TaskType'
  <2>1. reply' \in [Jobs -> {"none", "wait"} \cup Values]
    <3>1. CASE reply' = reply
      BY <3>1, TypeParts DEF Typed, TaskType
    <3>2. CASE ObserveReply(e)
      <4>1. e[3] \in Values
        BY <3>2, EventForms DEF ObserveReply
      <4> QED
        BY <3>2, <4>1, TypeParts DEF Typed, TaskType, ObserveReply
    <3> QED
      BY <1>3, <3>1, <3>2 DEF ObserveStarted, ObserveCompleted
  <2> QED
    BY <1>1, <2>1, TypeParts DEF Typed, TaskType
<1>8. OwnType'
  <2>1. CASE ObserveReply(e)
    BY <2>1, Unchanged DEF ObserveReply
  <2>2. CASE ObserveCompleted(e)
    BY <2>2, TypeParts DEF Typed, OwnType, ObserveCompleted
  <2>3. CASE ObserveStarted(p, e)
    <3>1. calls' \in [Jobs -> Peers \cup {NoPeer}]
      BY <2>3, TypeParts DEF Typed, OwnType, ObserveStarted, UserActivity
    <3> QED
      BY <2>3, <3>1, TypeParts DEF Typed, OwnType, ObserveStarted
  <2> QED
    BY <1>3, <2>1, <2>2, <2>3
<1> QED
  BY <1>2, <1>4, <1>5, <1>6, <1>7, <1>8, TypePartsNext DEF Typed

LEMMA UserType ==
  ASSUME TypeOK, NEW p \in Peers,
         ForwardMessage(p) \/ Connect(p) \/ \E m \in UserOps : UserMessage(p, m)
  PROVE  TypeOK'
<1>1. UNCHANGED <<appVars, taskVars, mcpVars, restarts>> /\ quiet' \in {quiet, FALSE}
  BY DEF ForwardMessage, Connect, UserMessage
<1>2. AppType' /\ TaskType' /\ DoneType' /\ McpType' /\ JobType' /\ RunType'
  BY <1>1, Unchanged DEF taskVars, mcpVars
<1>3. RowType'
  BY AbandonAllType, Unchanged DEF ForwardMessage, Connect, UserMessage, UserActivity
<1>4. OwnType'
  BY TypeParts DEF Typed, OwnType, ForwardMessage, Connect, UserMessage, UserActivity, ownVars
<1>5. HistType'
  BY TypeParts DEF Typed, HistType, ForwardMessage, Connect, UserMessage, histVars
<1>6. TuiType'
  <2>1. acts' \in 0..MaxActs
    BY TypeParts, SessionAssumption DEF Typed, TuiType, ForwardMessage, Connect, UserMessage
  <2>2. conn' \in [Peers -> {"new", "up", "down"}]
    BY TypeParts DEF Typed, TuiType, ForwardMessage, Connect, UserMessage
  <2>3. msg' \in [Peers -> UserMessages \cup {"none"}]
    BY TypeParts, SessionAssumption DEF Typed, TuiType, ForwardMessage, Connect, UserMessage
  <2> QED
    BY <2>1, <2>2, <2>3 DEF TuiType
<1>7. WireType'
  <2>1. CASE UNCHANGED wires
    BY <2>1, Unchanged
  <2>2. CASE ForwardMessage(p)
    <3>1. msg[p] \in UserMessages
      BY <2>2, TypeParts DEF Typed, TuiType, ForwardMessage, Forwardable
    <3>2. Append(up[p], UserRequest(msg[p])) \in Seq(Requests)
      BY <3>1, MessageTypes, TypeParts DEF Typed, WireType
    <3> QED
      BY <2>2, <3>2, TypeParts DEF Typed, WireType, ForwardMessage
  <2> QED
    BY <2>1, <2>2 DEF Connect, UserMessage
<1> QED
  BY <1>2, <1>3, <1>4, <1>5, <1>6, <1>7, TypePartsNext DEF Typed

LEMMA DisconnectType ==
  ASSUME TypeOK, NEW p \in Peers, Disconnect(p)
  PROVE  TypeOK'
<1>1. /\ UNCHANGED <<turn, turnState, author, goal, goalNote, up, op, via, done, acts, mcpVars, interrupts,
                     wakes, receipts, restarts>>
      /\ quiet' = FALSE
  BY DEF Disconnect
<1>2. DoneType' /\ McpType' /\ JobType' /\ RunType'
  BY <1>1, Unchanged DEF mcpVars
<1>3. AppType' /\ WireType'
  BY <1>1, TypeParts DEF Typed, AppType, WireType, Disconnect
<1>4. TaskType'
  BY <1>1, TypeParts DEF Typed, TaskType, Values, Disconnect
<1>5. OwnType'
  <2>1. calls' \in [Jobs -> Peers \cup {NoPeer}]
    BY TypeParts DEF Typed, OwnType, Disconnect
  <2> QED
    BY <2>1, TypeParts DEF Typed, OwnType, Disconnect
<1>6. TuiType'
  BY <1>1, TypeParts DEF Typed, TuiType, Disconnect
<1>7. HistType'
  BY <1>1, TypeParts DEF Typed, HistType, Disconnect
<1>8. RowType'
  <2>1. CASE UNCHANGED rowVars
    BY <2>1, Unchanged
  <2>2. CASE Concerned(p)
    <3>1. leasePeer' \in [Jobs -> Peers \cup {NoPeer}]
      BY <2>2, TypeParts DEF Typed, RowType, Disconnect
    <3> QED
      BY <2>2, <3>1, AbandonType DEF Disconnect
  <2> QED
    BY <2>1, <2>2 DEF Disconnect
<1> QED
  BY <1>2, <1>3, <1>4, <1>5, <1>6, <1>7, <1>8, TypePartsNext DEF Typed

LEMMA RestartType ==
  ASSUME TypeOK, Restart
  PROVE  TypeOK'
<1>1. AppType'
  BY TypeParts DEF Typed, AppType, Restart
<1>2. WireType'
  <2>1. down' \in [Peers -> Seq(Events)]
    BY DEF Restart
  <2> QED
    BY <2>1, TypeParts DEF Typed, WireType, Restart
<1>3. RowType'
  <2>1. \A j \in Jobs : Recovered(j) \in Row
    BY TypeParts, RetiredRow DEF Typed, RowType, Recovered, Retired, Deliveries
  <2> QED
    BY <2>1 DEF RowType, Restart
<1>4. TaskType' /\ DoneType'
  BY DEF TaskType, DoneType, Restart, OpPCs
<1>5. OwnType'
  BY DEF OwnType, Restart
<1>6. TuiType'
  BY TypeParts DEF Typed, TuiType, Restart
<1>7. McpType' /\ JobType'
  BY TypeParts DEF Typed, McpType, McpPCs, JobType, Restart
<1>8. HistType'
  BY Unchanged DEF Restart
<1>9. RunType'
  <2>1. restarts < MaxRestarts /\ restarts' = restarts + 1 /\ quiet' = FALSE
    BY DEF Restart
  <2>2. restarts \in 0..MaxRestarts
    BY TypeParts DEF Typed, RunType
  <2>3. restarts' \in 0..MaxRestarts
    BY <2>1, <2>2, SessionAssumption
  <2> QED
    BY <2>1, <2>3 DEF RunType
<1> QED
  BY <1>1, <1>2, <1>3, <1>4, <1>5, <1>6, <1>7, <1>8, <1>9, TypePartsNext DEF Typed

LEMMA OutsideType ==
  ASSUME TypeOK, TurnEnds \/ OtherItem \/ OutsideGoal \/ OnGoalNote
  PROVE  TypeOK'
<1>1. UNCHANGED <<up, taskVars, ownVars, conn, msg, mcpVars, histVars, restarts>> /\ quiet' \in {quiet, FALSE}
  BY DEF TurnEnds, OtherItem, OutsideGoal, OnGoalNote, tuiVars, wires
<1>2. TaskType' /\ DoneType' /\ OwnType' /\ McpType' /\ JobType' /\ HistType' /\ RunType'
  BY <1>1, Unchanged DEF taskVars, mcpVars
<1>3. AppType'
  BY TypeParts DEF Typed, AppType, TurnStates, TurnEnds, OtherItem, OutsideGoal, OnGoalNote, appVars
<1>4. TuiType'
  <2>1. acts' \in 0..MaxActs
    BY TypeParts, SessionAssumption DEF Typed, TuiType, TurnEnds, OtherItem, OutsideGoal, OnGoalNote, tuiVars
  <2> QED
    BY <1>1, <2>1, TypeParts DEF Typed, TuiType
<1>5. RowType'
  BY AbandonAllType, Unchanged DEF TurnEnds, OtherItem, OutsideGoal, OnGoalNote
<1>6. WireType'
  <2>1. <<"completed", turn>> \in Events /\ <<"tool", turn>> \in Events
    BY TypeParts, MessageTypes DEF Typed, AppType
  <2>2. down' \in [Peers -> Seq(Events)]
    BY <2>1, DownType, TypeParts DEF Typed, WireType, TurnEnds, OtherItem, OutsideGoal, OnGoalNote, wires
  <2> QED
    BY <1>1, <2>2, TypeParts DEF Typed, WireType
<1> QED
  BY <1>2, <1>3, <1>4, <1>5, <1>6, TypePartsNext DEF Typed

LEMMA InitType == Init => TypeOK
<1> SUFFICES ASSUME Init PROVE TypeOK
  OBVIOUS
<1>1. [state |-> "none", delivery |-> "none", handoff |-> "none"] \in Row
  BY DEF Row, Deliveries, Handoffs
<1>2. RowType
  BY <1>1 DEF Init, RowType
<1>3. AppType
  <2>1. turn \in Turns
    BY DEF Init, Turns
  <2>2. turnState \in TurnStates /\ author \in Peers \cup {NoPeer} /\ sub \subseteq Peers
    BY SessionAssumption DEF Init, TurnStates
  <2>3. goal \in {"eligible", "pending"} /\ goalNote \in BOOLEAN
    BY DEF Init
  <2> QED
    BY <2>1, <2>2, <2>3 DEF AppType
<1>4. WireType
  BY DEF Init, WireType
<1>5. TaskType /\ DoneType
  BY DEF Init, TaskType, DoneType, OpPCs
<1>6. OwnType
  BY SessionAssumption DEF Init, OwnType
<1>7. TuiType
  BY SessionAssumption DEF Init, TuiType
<1>8. McpType /\ JobType
  BY DEF Init, McpType, McpPCs, JobType
<1>9. HistType
  BY DEF Init, HistType
<1>10. RunType
  BY SessionAssumption DEF Init, RunType
<1> QED
  BY <1>2, <1>3, <1>4, <1>5, <1>6, <1>7, <1>8, <1>9, <1>10
  DEF TypeOK, AppType, WireType, RowType, TaskType, DoneType, OwnType, TuiType, McpType, JobType,
      HistType, RunType, Row, Deliveries, Handoffs, OpPCs, McpPCs

\* The variables hold what the code can put in them (session_bridge.py,
\* tui_proxy.py): no sequence of requests, replies, events and failures takes a
\* row, a task or a connection outside its states.
THEOREM TypeCorrect == Spec => []TypeOK
<1>1. TypeOK /\ [Next]_vars => TypeOK'
  <2> SUFFICES ASSUME TypeOK, [Next]_vars PROVE TypeOK'
    OBVIOUS
  <2>1. ASSUME NEW j \in Jobs, TaskStep(j) \/ LockStep(j) PROVE TypeOK'
    BY <2>1, PrepareType, HandoffType, DeliverType DEF TaskStep, LockStep, HandoffSteps, DeliverSteps
  <2>2. CASE UNCHANGED vars
    <3>1. /\ UNCHANGED <<appVars, wires, rowVars, ownVars, tuiVars, histVars, restarts, quiet>>
          /\ UNCHANGED <<op, via, reply, done, mcp, job, callTurn>>
      BY <2>2 DEF vars, taskVars, mcpVars
    <3> QED
      BY <3>1, Unchanged, TypePartsNext DEF Typed
  <2> QED
    BY <2>1, <2>2, StartJobType, PrepareType, HandoffType, McpRequestType, TimeoutType, ObserveType,
       ServeType, UserType, DisconnectType, RestartType, OutsideType DEF Next
<1> QED
  BY <1>1, InitType, PTL DEF Spec

-----------------------------------------------------------------------------
(* Rows                                                                    *)

\* The fields of a changed row; the other rows stay.
LEMMA RowFields ==
  ASSUME TypeOK, NEW j \in Jobs
  PROVE  /\ \A s, d : /\ SetRow(j, s, d)[j].state = s /\ SetRow(j, s, d)[j].delivery = d
                      /\ SetRow(j, s, d)[j].handoff = row[j].handoff
                      /\ \A k \in Jobs \ {j} : SetRow(j, s, d)[k] = row[k]
         /\ \A h : LET r == [row EXCEPT ![j].handoff = h]
                   IN /\ r[j].state = row[j].state /\ r[j].delivery = row[j].delivery
                      /\ r[j].handoff = h
                      /\ \A k \in Jobs \ {j} : r[k] = row[k]
         /\ \A d : LET r == [row EXCEPT ![j].delivery = d]
                   IN /\ r[j].state = row[j].state /\ r[j].delivery = d
                      /\ r[j].handoff = row[j].handoff
                      /\ \A k \in Jobs \ {j} : r[k] = row[k]
<1>0. row \in [Jobs -> Row]
  BY TypeParts DEF Typed, RowType
<1>1. \A s, d : /\ SetRow(j, s, d)[j].state = s /\ SetRow(j, s, d)[j].delivery = d
                /\ SetRow(j, s, d)[j].handoff = row[j].handoff
                /\ \A k \in Jobs \ {j} : SetRow(j, s, d)[k] = row[k]
  BY <1>0 DEF SetRow, Row
<1>2. \A h : LET r == [row EXCEPT ![j].handoff = h]
             IN /\ r[j].state = row[j].state /\ r[j].delivery = row[j].delivery
                /\ r[j].handoff = h
                /\ \A k \in Jobs \ {j} : r[k] = row[k]
  BY <1>0 DEF Row
<1>3. \A d : LET r == [row EXCEPT ![j].delivery = d]
             IN /\ r[j].state = row[j].state /\ r[j].delivery = d
                /\ r[j].handoff = row[j].handoff
                /\ \A k \in Jobs \ {j} : r[k] = row[k]
  BY <1>0 DEF Row
<1> QED
  BY <1>1, <1>2, <1>3

\* _session_failed gives a live lease up and leaves any other alone.
GivenUp(j) ==
  \/ /\ row[j].state \in Live
     /\ row'[j].state = "failed" /\ row'[j].delivery = "needs_manual_recovery"
     /\ row'[j].handoff = row[j].handoff /\ leasePeer'[j] = NoPeer
  \/ row[j].state \notin Live /\ row'[j] = row[j] /\ leasePeer'[j] = leasePeer[j]
LEMMA FailedRow ==
  ASSUME TypeOK, NEW j \in Jobs, SessionFailed(j)
  PROVE  /\ GivenUp(j)
         /\ \A k \in Jobs \ {j} : row'[k] = row[k] /\ leasePeer'[k] = leasePeer[k]
<1>1. CASE row[j].state \in Live
  BY <1>1, RowFields, TypeParts DEF Typed, RowType, SessionFailed, GivenUp
<1>2. CASE row[j].state \notin Live
  BY <1>2 DEF SessionFailed, GivenUp
<1> QED
  BY <1>1, <1>2

\* A revocation abandons the lease, unless its activation is in flight.
Withdrawn(j) ==
  \/ /\ Revocable(j)
     /\ row'[j].state = "abandoned" /\ row'[j].delivery = "abandoned"
     /\ row'[j].handoff = row[j].handoff /\ leasePeer'[j] = NoPeer
  \/ /\ ~Revocable(j) /\ row'[j] = row[j]
     /\ leasePeer'[j] \in {leasePeer[j], NoPeer} /\ deadline'[j] = deadline[j]
LEMMA AbandonedRow ==
  ASSUME TypeOK, NEW j \in Jobs, row'[j] = Abandoned(j),
         leasePeer'[j] \in {leasePeer[j], NoPeer}, Revocable(j) => leasePeer'[j] = NoPeer,
         ~Revocable(j) => deadline'[j] = deadline[j]
  PROVE  Withdrawn(j)
<1>0. row[j] \in Row
  BY TypeParts DEF Typed, RowType
<1>1. CASE Revocable(j)
  BY <1>0, <1>1 DEF Withdrawn, Abandoned, Row
<1>2. CASE ~Revocable(j)
  BY <1>2 DEF Withdrawn, Abandoned
<1> QED
  BY <1>1, <1>2

LEMMA AbandonRows ==
  ASSUME TypeOK, AbandonForManualChange, NEW j \in Jobs
  PROVE  Withdrawn(j)
<1>0. deadline[j] \in BOOLEAN
  BY TypeParts DEF Typed, RowType
<1>1. /\ row'[j] = Abandoned(j) /\ leasePeer'[j] = IF Revocable(j) THEN NoPeer ELSE leasePeer[j]
      /\ deadline'[j] = (deadline[j] /\ ~Revocable(j))
  BY DEF AbandonForManualChange
<1>2. ~Revocable(j) => deadline'[j] = deadline[j]
  BY <1>0, <1>1
<1> QED
  BY <1>1, <1>2, AbandonedRow

-----------------------------------------------------------------------------
(* The lease and its task: what one step does to one job                   *)

\* The step leaves job k alone.
Same(k) ==
  /\ row'[k] = row[k] /\ leasePeer'[k] = leasePeer[k] /\ deadline'[k] = deadline[k]
  /\ op'[k] = op[k] /\ via'[k] = via[k] /\ mcp'[k] = mcp[k]
  /\ interrupts'[k] = interrupts[k] /\ wakes'[k] = wakes[k] /\ receipts'[k] = receipts[k]
  /\ touched'[k] = touched[k]

LEMMA SameInv ==
  ASSUME NEW k \in Jobs, JobInv(k), Same(k)
  PROVE  JobInv(k)'
<1> USE DEF Same
<1>1. RowShape(k)'
  BY DEF JobInv, RowShape
<1>2. TaskShape(k)'
  BY DEF JobInv, TaskShape
<1>3. Driven(k)'
  BY DEF JobInv, Driven, Revocable
<1>4. Counted(k)'
  BY DEF JobInv, Counted
<1> QED
  BY <1>1, <1>2, <1>3, <1>4 DEF JobInv

\* The counters of job j are left alone.
SameCounts(j) == /\ interrupts'[j] = interrupts[j] /\ wakes'[j] = wakes[j]
                 /\ receipts'[j] = receipts[j] /\ touched'[j] = touched[j]

\* A revocation, with the user's history or without it.
LEMMA WithdrawnInv ==
  ASSUME NEW j \in Jobs, JobInv(j), Withdrawn(j),
         op'[j] = op[j], via'[j] = via[j],
         mcp'[j] = mcp[j] \/ (mcp'[j] \notin {"idle", "started"} /\ op[j] \notin HandoffPCs),
         interrupts'[j] = interrupts[j], wakes'[j] = wakes[j], receipts'[j] = receipts[j],
         touched'[j] => touched[j] \/ Revocable(j)
  PROVE  JobInv(j)' /\ (row'[j].state \in Live => row[j].state \in Live)
<1>1. CASE Revocable(j) /\ row'[j].state = "abandoned" /\ row'[j].delivery = "abandoned"
           /\ row'[j].handoff = row[j].handoff /\ leasePeer'[j] = NoPeer
  <2>1. RowShape(j)'
    BY <1>1 DEF JobInv, RowShape, Revocable, Live
  <2>2. TaskShape(j)'
    BY <1>1 DEF JobInv, RowShape, TaskShape, Revocable, Live, Retired, PreparePCs, DeliverPCs
  <2>3. Driven(j)'
    BY <1>1 DEF JobInv, Driven, Revocable, Live, Retired
  <2>4. Counted(j)'
    BY <1>1 DEF JobInv, RowShape, Counted, Revocable, Live
  <2> QED
    BY <1>1, <2>1, <2>2, <2>3, <2>4 DEF JobInv, Live
<1>2. CASE /\ ~Revocable(j) /\ row'[j] = row[j] /\ leasePeer'[j] \in {leasePeer[j], NoPeer}
           /\ deadline'[j] = deadline[j]
  <2>1. RowShape(j)' /\ TaskShape(j)' /\ Counted(j)'
    BY <1>2 DEF JobInv, RowShape, TaskShape, Counted
  <2>2. Driven(j)'
    BY <1>2 DEF JobInv, Driven, Revocable
  <2> QED
    BY <1>2, <2>1, <2>2 DEF JobInv
<1> QED
  BY <1>1, <1>2 DEF Withdrawn

\* A lease given up when its task ends, or while it goes on (the deadline).
LEMMA GivenUpInv ==
  ASSUME NEW j \in Jobs, JobInv(j), GivenUp(j), SameCounts(j),
         \/ op'[j] = "none" /\ op[j] # "none" /\ mcp'[j] \notin {"idle", "started"}
         \/ op'[j] = op[j] /\ via'[j] = via[j] /\ mcp'[j] = mcp[j]
  PROVE  JobInv(j)' /\ row'[j].state \notin Live
<1> USE DEF SameCounts
<1>1. CASE /\ row[j].state \in Live
           /\ row'[j].state = "failed" /\ row'[j].delivery = "needs_manual_recovery"
           /\ row'[j].handoff = row[j].handoff /\ leasePeer'[j] = NoPeer
  <2>1. RowShape(j)'
    BY <1>1 DEF JobInv, RowShape, Live
  <2>2. TaskShape(j)'
    BY <1>1 DEF JobInv, RowShape, TaskShape, Live, Retired, PreparePCs, HandoffPCs, DeliverPCs
  <2>3. Driven(j)'
    BY <1>1 DEF JobInv, Driven, Revocable, Live, Retired
  <2>4. Counted(j)'
    BY <1>1 DEF JobInv, RowShape, Counted, Live, BeforeWake
  <2> QED
    BY <1>1, <2>1, <2>2, <2>3, <2>4 DEF JobInv, Live
<1>2. CASE row[j].state \notin Live /\ row'[j] = row[j] /\ leasePeer'[j] = leasePeer[j]
  <2>1. RowShape(j)'
    BY <1>2 DEF JobInv, RowShape
  <2>2. TaskShape(j)'
    BY <1>2 DEF JobInv, RowShape, TaskShape, Live, PreparePCs, HandoffPCs, DeliverPCs
  <2>3. Driven(j)'
    BY <1>2 DEF JobInv, Driven, Revocable, Live
  <2>4. Counted(j)'
    BY <1>2 DEF JobInv, Counted, BeforeWake
  <2> QED
    BY <1>2, <2>1, <2>2, <2>3, <2>4 DEF JobInv
<1> QED
  BY <1>1, <1>2 DEF GivenUp

\* The invariant of leases and tasks.
LeaseInv == OneLiveLease /\ \A j \in Jobs : JobInv(j)

\* A step of job j preserves it when it does so for j, leaves the others alone and
\* makes j live only if no lease was.
LEMMA JobStep ==
  ASSUME LeaseInv, NEW j \in Jobs, JobInv(j)', \A k \in Jobs \ {j} : Same(k),
         row'[j].state \in Live => row[j].state \in Live \/ ~ThreadHasLive
  PROVE  LeaseInv'
<1>1. \A k \in Jobs : JobInv(k)'
  BY SameInv DEF LeaseInv
<1>2. \A k \in Jobs \ {j} : row'[k] = row[k]
  BY DEF Same
<1>3. OneLiveLease'
  BY <1>2 DEF LeaseInv, OneLiveLease, ThreadHasLive
<1> QED
  BY <1>1, <1>3 DEF LeaseInv

\* What a task does to its own entries only.
LEMMA TaskOthers ==
  ASSUME TypeOK, NEW j \in Jobs
  PROVE  /\ \A pc, p, c : Call(j, pc, p, c) =>
              op'[j] = pc /\ reply'[j] \in {"wait", "error"} /\ \A k \in Jobs \ {j} : op'[k] = op[k] /\ reply'[k] = reply[k]
         /\ \A pc : Goto(j, pc) =>
              op'[j] = pc /\ reply'[j] = "none" /\ \A k \in Jobs \ {j} : op'[k] = op[k] /\ reply'[k] = reply[k]
         /\ Over(j) =>
              /\ op'[j] = "none" /\ reply'[j] = "none"
              /\ \A k \in Jobs \ {j} : op'[k] = op[k] /\ reply'[k] = reply[k] /\ via'[k] = via[k]
BY TypeParts DEF Typed, TaskType, Call, Goto, Over

LEMMA RaiseOthers ==
  ASSUME TypeOK, NEW j \in Jobs, Raise(j)
  PROVE  /\ op'[j] = "none" /\ reply'[j] = "none"
         /\ mcp'[j] = IF mcp[j] = "prepare" THEN "abort" ELSE mcp[j]
         /\ \A k \in Jobs \ {j} : /\ op'[k] = op[k] /\ reply'[k] = reply[k] /\ via'[k] = via[k]
                                  /\ mcp'[k] = mcp[k]
BY TaskOthers, TypeParts DEF Typed, McpType, Raise

\* A prepare handler that goes on, or raises.
LEMMA NoLeaseInv ==
  ASSUME NEW j \in Jobs, JobInv(j), SameCounts(j), row[j].state = "none", UNCHANGED <<row, leasePeer>>,
         mcp'[j] \notin {"idle", "started"},
         \/ op'[j] = "none"
         \/ op'[j] \in {"goal", "observe"}
         \/ op'[j] \in {"plock", "pturn", "pgoal"} /\ via'[j] # NoPeer
  PROVE  JobInv(j)'
<1> USE DEF SameCounts
<1>1. RowShape(j)'
  BY DEF JobInv, RowShape
<1>2. TaskShape(j)'
  BY DEF JobInv, RowShape, TaskShape, PreparePCs, HandoffPCs, DeliverPCs
<1>3. Driven(j)'
  BY DEF JobInv, Driven, Revocable, Live, Retired
<1>4. Counted(j)'
  BY DEF JobInv, RowShape, Counted, BeforeWake
<1> QED
  BY <1>1, <1>2, <1>3, <1>4 DEF JobInv

LEMMA PrepareInv ==
  ASSUME TypeOK, LeaseInv, NEW j \in Jobs,
         \/ StartJob(j) \/ PrepareGoal(j) \/ PrepareObserved(j) \/ PrepareLocked(j) \/ PrepareTurn(j)
         \/ PrepareCommit(j) \/ PrepareGivenUp(j)
  PROVE  LeaseInv'
<1>0. JobInv(j)
  BY DEF LeaseInv
<1>1. row[j].state = "none" /\ (mcp[j] = "idle" => StartJob(j)) /\ mcp[j] # "started"
  BY <1>0 DEF JobInv, TaskShape, StartJob, PrepareGoal, PrepareObserved, PrepareLocked, PrepareTurn,
              PrepareCommit, PrepareGivenUp, PreparePCs
<1>2. UNCHANGED histVars /\ \A k \in Jobs : SameCounts(k)
  BY DEF StartJob, PrepareGoal, PrepareObserved, PrepareLocked, PrepareTurn, PrepareCommit, PrepareGivenUp,
         prepareFrame, histVars, SameCounts
<1>3. CASE UNCHANGED rowVars /\ (PrepareCommit(j) => Raise(j))
  <2>1. CASE StartJob(j)
    <3>1. /\ op'[j] = "goal" /\ mcp'[j] = "prepare" /\ via' = via
          /\ \A k \in Jobs \ {j} : op'[k] = op[k] /\ mcp'[k] = mcp[k]
      BY <2>1, TaskOthers, TypeParts DEF Typed, McpType, StartJob
    <3> QED
      BY <1>0, <1>1, <1>2, <1>3, <3>1, NoLeaseInv, JobStep DEF Same, SameCounts, rowVars, Live
  <2>2. CASE ~StartJob(j)
    <3>1. /\ mcp'[j] \in {mcp[j], "abort"}
          /\ \A k \in Jobs \ {j} : mcp'[k] = mcp[k]
      BY <1>3, <2>2, RaiseOthers, TypeParts
      DEF Typed, McpType, RowType, PrepareGoal, PrepareObserved, PrepareLocked, PrepareTurn, PrepareCommit,
          PrepareGivenUp
    <3>2. \A k \in Jobs \ {j} : op'[k] = op[k] /\ via'[k] = via[k]
      BY <1>3, <2>2, TaskOthers, RaiseOthers, TypeParts
      DEF Typed, TaskType, PrepareGoal, PrepareObserved, PrepareLocked, PrepareTurn, PrepareCommit,
          PrepareGivenUp, taskVars
    <3>3. \/ op'[j] = "none"
          \/ op'[j] = "observe"
          \/ op'[j] = "plock" /\ via'[j] # NoPeer
          \/ op'[j] \in {"pturn", "pgoal"} /\ via'[j] = via[j] /\ op[j] \in {"plock", "pturn"}
          \/ op'[j] = op[j] /\ via'[j] = via[j] /\ op[j] \in PreparePCs
      <4>1. CASE PrepareGivenUp(j)
        BY <4>1 DEF PrepareGivenUp, taskVars
      <4>2. CASE Raise(j) \/ Over(j)
        BY <4>2, RaiseOthers, TaskOthers
      <4>3. CASE PrepareObserved(j) /\ calls[j] # NoPeer
        BY <4>3, TaskOthers, TypeParts DEF Typed, TaskType, PrepareObserved
      <4>4. CASE PrepareGoal(j) /\ goal = "eligible"
        BY <4>4, TaskOthers DEF PrepareGoal
      <4>5. CASE PrepareLocked(j) \/ PrepareTurn(j)
        BY <4>2, <4>5, TaskOthers DEF PrepareLocked, PrepareTurn
      <4> QED
        BY <2>2, <4>1, <4>2, <4>3, <4>4, <4>5 DEF PrepareGoal, PrepareObserved, PrepareCommit
    <3>4. \/ op'[j] = "none" \/ op'[j] \in {"goal", "observe"}
          \/ op'[j] \in {"plock", "pturn", "pgoal"} /\ via'[j] # NoPeer
      BY <1>0, <3>3 DEF JobInv, TaskShape, PreparePCs
    <3>5. mcp'[j] \notin {"idle", "started"}
      BY <1>1, <2>2, <3>1
    <3>6. JobInv(j)'
      BY <1>0, <1>1, <1>2, <1>3, <3>4, <3>5, NoLeaseInv DEF rowVars
    <3> QED
      BY <1>1, <1>2, <1>3, <3>1, <3>2, <3>6, JobStep DEF Same, SameCounts, rowVars, Live
  <2> QED
    BY <2>1, <2>2
<1>4. CASE PrepareCommit(j) /\ reply[j] = "eligible" /\ ~ThreadHasLive
  <2>1. /\ row'[j] = [state |-> "armed", delivery |-> "pending", handoff |-> "pending"]
        /\ leasePeer'[j] = via[j] /\ deadline'[j] = TRUE
    BY <1>4, TypeParts DEF Typed, RowType, PrepareCommit
  <2>2. \A k \in Jobs \ {j} : row'[k] = row[k] /\ leasePeer'[k] = leasePeer[k] /\ deadline'[k] = deadline[k]
    BY <1>4, TypeParts DEF Typed, RowType, PrepareCommit
  <2>3. op'[j] = "none" /\ \A k \in Jobs \ {j} : op'[k] = op[k] /\ via'[k] = via[k]
    BY <1>4, TaskOthers DEF PrepareCommit
  <2>4. mcp'[j] # "idle" /\ \A k \in Jobs \ {j} : mcp'[k] = mcp[k]
    BY <1>1, <1>4, TypeParts DEF Typed, McpType, PrepareCommit, StartJob
  <2>5. via[j] # NoPeer
    BY <1>0, <1>4 DEF JobInv, TaskShape, PrepareCommit
  <2>6. RowShape(j)'
    BY <2>1 DEF RowShape
  <2>7. TaskShape(j)'
    BY <2>1, <2>3, <2>4 DEF TaskShape, PreparePCs, HandoffPCs, DeliverPCs
  <2>8. Driven(j)'
    BY <1>0, <1>1, <1>2, <2>1, <2>5 DEF JobInv, Driven, Live, Retired, SameCounts
  <2>9. Counted(j)'
    BY <1>0, <1>1, <1>2, <2>1, <2>3 DEF JobInv, RowShape, Counted, BeforeWake, SameCounts
  <2>10. \A k \in Jobs \ {j} : Same(k)
    BY <1>2, <2>2, <2>3, <2>4 DEF Same, SameCounts
  <2> QED
    BY <1>4, <2>6, <2>7, <2>8, <2>9, <2>10, JobStep DEF JobInv
<1> QED
  BY <1>3, <1>4 DEF StartJob, PrepareGoal, PrepareObserved, PrepareLocked, PrepareTurn, PrepareCommit,
                    PrepareGivenUp

\* A handoff that fails, at any of its steps.
LEMMA HandoffFailsInv ==
  ASSUME TypeOK, LeaseInv, NEW j \in Jobs, op[j] \in HandoffPCs, HandoffFails(j),
         UNCHANGED <<wakes, receipts, touched>>
  PROVE  LeaseInv' /\ row'[j].state \notin Live /\ op'[j] = "none" /\ mcp'[j] = "abort"
<1>0. JobInv(j) /\ mcp[j] = "handoff"
  BY DEF LeaseInv, JobInv, TaskShape
<1>1. GivenUp(j) /\ \A k \in Jobs \ {j} : row'[k] = row[k] /\ leasePeer'[k] = leasePeer[k]
  BY FailedRow DEF HandoffFails
<1>2. op'[j] = "none" /\ \A k \in Jobs \ {j} : op'[k] = op[k] /\ via'[k] = via[k]
  BY TaskOthers DEF HandoffFails
<1>3. mcp'[j] = "abort" /\ \A k \in Jobs \ {j} : mcp'[k] = mcp[k]
  BY <1>0, TypeParts DEF Typed, McpType, HandoffFails
<1>4. \A k \in Jobs : SameCounts(k)
  BY DEF HandoffFails, SameCounts
<1>5. JobInv(j)' /\ row'[j].state \notin Live
  BY <1>0, <1>1, <1>2, <1>3, <1>4, GivenUpInv DEF HandoffPCs
<1>6. \A k \in Jobs \ {j} : Same(k)
  BY <1>1, <1>2, <1>3, <1>4 DEF Same, SameCounts, HandoffFails
<1> QED
  BY <1>2, <1>3, <1>5, <1>6, JobStep

\* A handoff that goes on: the row says how far it is, and the counters follow.
LEMMA HandoffGoesOn ==
  ASSUME NEW j \in Jobs, JobInv(j), op[j] \in HandoffPCs,
         row'[j].state = row[j].state, row'[j].delivery = row[j].delivery, row'[j].handoff # "none",
         leasePeer'[j] = leasePeer[j], deadline'[j] = deadline[j],
         wakes'[j] = wakes[j], receipts'[j] = receipts[j], touched'[j] = touched[j],
         \/ /\ op'[j] \in {"hgoal", "hturn"} /\ mcp'[j] = mcp[j]
            /\ row'[j].handoff = row[j].handoff /\ row[j].handoff = "pending"
            /\ interrupts'[j] = interrupts[j]
         \/ /\ op'[j] = "hint" /\ mcp'[j] = mcp[j] /\ op[j] = "hturn" /\ row[j].state \in Live
            /\ row'[j].handoff = "interrupting" /\ interrupts'[j] = interrupts[j] + 1
         \/ /\ op'[j] \in {"hdone", "hconf"} /\ mcp'[j] = mcp[j]
            /\ row'[j].handoff = row[j].handoff /\ row[j].handoff = "interrupting"
            /\ interrupts'[j] = interrupts[j]
         \/ /\ op'[j] = "hinject" /\ mcp'[j] = mcp[j] /\ op[j] = "hconf" /\ row[j].state \in Live
            /\ row'[j].handoff = "recording_receipt" /\ interrupts'[j] = interrupts[j]
         \/ /\ op[j] = "hinject" /\ row[j].state \in Live /\ receipts[j] = 1 /\ mcp'[j] = "held"
            /\ op'[j] = IF row[j].state = "terminal" THEN "dstart" ELSE "none"
            /\ row'[j].handoff = "ready" /\ interrupts'[j] = interrupts[j]
  PROVE  JobInv(j)'
<1>0. row[j].handoff # "none" /\ row[j].state # "none" /\ row[j].delivery # "activating"
  BY DEF JobInv, RowShape, TaskShape, HandoffPCs
<1>1. RowShape(j)'
  BY <1>0 DEF JobInv, RowShape
<1>2. TaskShape(j)'
  BY <1>0 DEF JobInv, TaskShape, PreparePCs, HandoffPCs, DeliverPCs, Live
<1>3. Driven(j)'
  BY <1>0 DEF JobInv, TaskShape, Driven, Revocable, HandoffPCs, DeliverPCs, Live
<1>4. Counted(j)'
  BY <1>0 DEF JobInv, RowShape, TaskShape, Counted, HandoffPCs, BeforeWake, Live
<1> QED
  BY <1>1, <1>2, <1>3, <1>4 DEF JobInv

\* _handoff, from the request to the receipt.
LEMMA HandoffInv ==
  ASSUME TypeOK, LeaseInv, NEW j \in Jobs, Receipt(j), Handoff(j) \/ HandoffSteps(j)
  PROVE  LeaseInv'
<1> USE DEF HandoffSteps, HandoffStep
<1>0. JobInv(j)
  BY DEF LeaseInv
<1>1. UNCHANGED <<receipts, touched, wakes>>
  BY DEF Handoff, HandoffLocked, HandoffGoal, HandoffInterrupted, HandoffDone, HandoffTurn, HandoffConfirm,
         HandoffReceipt, handoffFrame
<1>2. CASE Handoff(j)
  <2>1. UNCHANGED rowVars /\ interrupts' = interrupts /\ row[j].handoff = "pending" /\ op[j] = "none"
    BY <1>0, <1>2 DEF Handoff, JobInv, TaskShape
  <2>2. /\ \/ op'[j] = "hlock" /\ mcp'[j] = "handoff"
           \/ op'[j] = "none" /\ mcp'[j] = "abort"
        /\ \A k \in Jobs \ {j} : op'[k] = op[k] /\ via'[k] = via[k] /\ mcp'[k] = mcp[k]
    <3>1. CASE LiveSession(j) /\ Owned(j)
      <4>1. mcp' = [mcp EXCEPT ![j] = "handoff"] /\ via' = [via EXCEPT ![j] = leasePeer[j]] /\ Goto(j, "hlock")
        BY <1>2, <3>1 DEF Handoff
      <4>2. op'[j] = "hlock" /\ \A k \in Jobs \ {j} : op'[k] = op[k]
        BY <4>1, TaskOthers
      <4>3. mcp'[j] = "handoff" /\ \A k \in Jobs \ {j} : via'[k] = via[k] /\ mcp'[k] = mcp[k]
        BY <4>1, TypeParts DEF Typed, TaskType, McpType
      <4> QED
        BY <4>2, <4>3
    <3>2. CASE ~(LiveSession(j) /\ Owned(j))
      <4>1. mcp' = [mcp EXCEPT ![j] = "abort"] /\ UNCHANGED <<op, via>>
        BY <1>2, <3>2 DEF Handoff, HandoffRefused
      <4> QED
        BY <2>1, <4>1, TypeParts DEF Typed, McpType
    <3> QED
      BY <3>1, <3>2
  <2>3. \A k \in Jobs \ {j} : Same(k)
    BY <1>1, <2>1, <2>2 DEF Same, rowVars
  <2>4. RowShape(j)'
    BY <1>0, <2>1 DEF JobInv, RowShape, rowVars
  <2>5. TaskShape(j)'
    BY <1>0, <2>1, <2>2 DEF JobInv, TaskShape, rowVars, PreparePCs, HandoffPCs, DeliverPCs
  <2>6. Driven(j)'
    BY <1>0, <1>1, <2>1, <2>2 DEF JobInv, Driven, Revocable, rowVars
  <2>7. Counted(j)'
    BY <1>0, <1>1, <2>1, <2>2 DEF JobInv, Counted, rowVars, BeforeWake
  <2> QED
    BY <2>1, <2>3, <2>4, <2>5, <2>6, <2>7, JobStep DEF JobInv, rowVars
<1>3. CASE HandoffSteps(j) /\ HandoffFails(j)
  <2>1. op[j] \in HandoffPCs
    BY <1>3 DEF HandoffLocked, HandoffGoal, HandoffInterrupted, HandoffDone, HandoffTurn, HandoffConfirm,
                HandoffReceipt, HandoffPCs
  <2> QED
    BY <1>1, <1>3, <2>1, HandoffFailsInv
<1>4. CASE HandoffSteps(j) /\ ~HandoffFails(j)
  <2>0. op[j] \in HandoffPCs /\ mcp[j] = "handoff"
    BY <1>0, <1>4 DEF JobInv, TaskShape, HandoffLocked, HandoffGoal, HandoffInterrupted, HandoffDone,
                      HandoffTurn, HandoffConfirm, HandoffReceipt, HandoffPCs
  <2>1. UNCHANGED <<leasePeer, deadline>>
    BY <1>4 DEF HandoffLocked, HandoffGoal, HandoffInterrupted, HandoffDone, HandoffTurn, HandoffConfirm,
                HandoffReceipt, rowVars
  <2>2. \A k \in Jobs \ {j} : op'[k] = op[k] /\ via'[k] = via[k] /\ mcp'[k] = mcp[k]
    <3>1. CASE HandoffReceipt(j)
      <4>1. PICK pc : Goto(j, pc)
        BY <1>4, <3>1 DEF HandoffReceipt
      <4> QED
        BY <1>4, <3>1, <4>1, TaskOthers, TypeParts DEF Typed, TaskType, McpType, HandoffReceipt
    <3>2. CASE ~HandoffReceipt(j)
      <4>1. UNCHANGED <<via, mcp>>
        BY <1>4, <3>2 DEF HandoffLocked, HandoffGoal, HandoffInterrupted, HandoffDone, HandoffTurn, HandoffConfirm
      <4>2. (\E pc : Goto(j, pc)) \/ \E pc, p, c : Call(j, pc, p, c)
        BY <1>4, <3>2 DEF HandoffLocked, HandoffGoal, HandoffInterrupted, HandoffDone, HandoffTurn, HandoffConfirm
      <4> QED
        BY <4>1, <4>2, TaskOthers
    <3> QED
      BY <3>1, <3>2
  <2>3. \A k \in Jobs \ {j} : row'[k] = row[k] /\ interrupts'[k] = interrupts[k]
    <3>1. row' = row \/ \E h : row' = [row EXCEPT ![j].handoff = h]
      BY <1>4 DEF rowVars, HandoffLocked, HandoffGoal, HandoffInterrupted, HandoffDone, HandoffTurn,
                  HandoffConfirm, HandoffReceipt
    <3>2. interrupts' = interrupts \/ interrupts' = [interrupts EXCEPT ![j] = @ + 1]
      BY <1>4 DEF HandoffLocked, HandoffGoal, HandoffInterrupted, HandoffDone, HandoffTurn,
                  HandoffConfirm, HandoffReceipt
    <3>3. \A k \in Jobs \ {j} : row'[k] = row[k]
      BY <3>1, RowFields
    <3>4. \A k \in Jobs \ {j} : interrupts'[k] = interrupts[k]
      BY <3>2, TypeParts DEF Typed, HistType
    <3> QED
      BY <3>3, <3>4
  <2>4. \A k \in Jobs \ {j} : Same(k)
    BY <1>1, <2>1, <2>2, <2>3 DEF Same
  <2>5. JobInv(j)' /\ row'[j].state = row[j].state
    <3>1. CASE HandoffLocked(j) \/ HandoffGoal(j)
      <4>1. UNCHANGED <<row, mcp, interrupts>> /\ row[j].handoff = "pending" /\ op'[j] \in {"hgoal", "hturn"}
        BY <1>0, <1>4, <3>1, TaskOthers DEF HandoffLocked, HandoffGoal, rowVars, JobInv, TaskShape
      <4> QED
        BY <1>0, <1>1, <2>0, <2>1, <4>1, HandoffGoesOn
    <3>2. CASE HandoffTurn(j)
      <4>1. /\ op[j] = "hturn" /\ row[j].state \in Live /\ mcp' = mcp /\ op'[j] = "hint"
            /\ row' = [row EXCEPT ![j].handoff = "interrupting"] /\ interrupts'[j] = interrupts[j] + 1
        BY <1>4, <3>2, TaskOthers, TypeParts DEF Typed, HistType, HandoffTurn, MayInterrupt, LiveSession
      <4>2. row'[j].state = row[j].state /\ row'[j].delivery = row[j].delivery /\ row'[j].handoff = "interrupting"
        BY <4>1, RowFields
      <4> QED
        BY <1>0, <1>1, <2>0, <2>1, <4>1, <4>2, HandoffGoesOn
    <3>3. CASE HandoffInterrupted(j) \/ HandoffDone(j)
      <4>1. UNCHANGED <<row, mcp, interrupts>> /\ row[j].handoff = "interrupting" /\ op'[j] \in {"hdone", "hconf"}
        BY <1>0, <1>4, <3>3, TaskOthers DEF HandoffInterrupted, HandoffDone, rowVars, JobInv, TaskShape
      <4> QED
        BY <1>0, <1>1, <2>0, <2>1, <4>1, HandoffGoesOn
    <3>4. CASE HandoffConfirm(j)
      <4>1. /\ op[j] = "hconf" /\ row[j].state \in Live /\ UNCHANGED <<mcp, interrupts>> /\ op'[j] = "hinject"
            /\ row' = [row EXCEPT ![j].handoff = "recording_receipt"]
        BY <1>4, <3>4, TaskOthers DEF HandoffConfirm, MayRecord, LiveSession
      <4>2. /\ row'[j].state = row[j].state /\ row'[j].delivery = row[j].delivery
            /\ row'[j].handoff = "recording_receipt"
        BY <4>1, RowFields
      <4> QED
        BY <1>0, <1>1, <2>0, <2>1, <4>1, <4>2, HandoffGoesOn
    <3>5. CASE HandoffReceipt(j)
      <4>1. /\ op[j] = "hinject" /\ reply[j] = "ok" /\ row[j].state \in Live /\ interrupts' = interrupts
            /\ op'[j] = (IF row[j].state = "terminal" THEN "dstart" ELSE "none")
            /\ row' = [row EXCEPT ![j].handoff = "ready"]
        BY <1>4, <3>5, TaskOthers DEF HandoffReceipt, LiveSession, AfterReceipt
      <4>2. row'[j].state = row[j].state /\ row'[j].delivery = row[j].delivery /\ row'[j].handoff = "ready"
        BY <4>1, RowFields
      <4>3. mcp'[j] = "held"
        BY <1>4, <2>0, <3>5, TypeParts DEF Typed, McpType, HandoffReceipt
      <4>4. receipts[j] = 1
        BY <4>1 DEF Receipt
      <4> QED
        BY <1>0, <1>1, <2>0, <2>1, <4>1, <4>2, <4>3, <4>4, HandoffGoesOn
    <3> QED
      BY <1>4, <3>1, <3>2, <3>3, <3>4, <3>5
  <2> QED
    BY <2>4, <2>5, JobStep
<1> QED
  BY <1>2, <1>3, <1>4

\* A revocation of whichever lease is live.
LEMMA WithdrawAllInv ==
  ASSUME LeaseInv, \A j \in Jobs : Withdrawn(j), UNCHANGED <<op, via, interrupts, wakes, receipts>>,
         \A j \in Jobs : \/ mcp'[j] = mcp[j]
                         \/ mcp'[j] \notin {"idle", "started"} /\ op[j] \notin HandoffPCs,
         \A j \in Jobs : touched'[j] => touched[j] \/ Revocable(j)
  PROVE  LeaseInv'
<1>1. \A j \in Jobs : JobInv(j)' /\ (row'[j].state \in Live => row[j].state \in Live)
  BY WithdrawnInv DEF LeaseInv
<1> QED
  BY <1>1 DEF LeaseInv, OneLiveLease

\* The job's end is recorded in the row of an armed lease.
LEMMA TerminalInv ==
  ASSUME TypeOK, LeaseInv, NEW j \in Jobs, Terminal(j)
  PROVE  LeaseInv'
<1>0. JobInv(j)
  BY DEF LeaseInv
<1>1. UNCHANGED <<leasePeer, deadline, via, mcp>> /\ UNCHANGED histVars
  BY DEF Terminal, mcpFrame
<1>2. CASE UNCHANGED <<row, op>>
  <2>1. \A k \in Jobs : Same(k)
    BY <1>1, <1>2 DEF Same, histVars
  <2> QED
    BY <1>0, <1>2, <2>1, SameInv, JobStep
<1>3. CASE row[j].state = "armed" /\ row' = SetRow(j, "terminal", "waiting_for_handoff")
           /\ op' = [op EXCEPT ![j] = IF TerminalDue(j) THEN "dstart" ELSE @]
  <2>1. /\ row'[j].state = "terminal" /\ row'[j].delivery = "waiting_for_handoff"
        /\ row'[j].handoff = row[j].handoff /\ \A k \in Jobs \ {j} : row'[k] = row[k]
    BY <1>3, RowFields
  <2>2. /\ op'[j] = IF row[j].handoff = "ready" THEN "dstart" ELSE op[j]
        /\ \A k \in Jobs \ {j} : op'[k] = op[k]
    BY <1>3, TypeParts DEF Typed, TaskType, TerminalDue
  <2>3. \A k \in Jobs \ {j} : Same(k)
    BY <1>1, <2>1, <2>2 DEF Same, histVars
  <2>4. RowShape(j)'
    BY <1>0, <1>3, <2>1 DEF JobInv, RowShape
  <2>5. TaskShape(j)'
    BY <1>0, <1>1, <1>3, <2>1, <2>2 DEF JobInv, RowShape, TaskShape, PreparePCs, HandoffPCs, DeliverPCs, Retired
  <2>6. Driven(j)'
    BY <1>0, <1>1, <1>3, <2>1, <2>2 DEF JobInv, RowShape, Driven, Revocable, Live, Retired, histVars, HandoffPCs, DeliverPCs
  <2>7. Counted(j)'
    BY <1>0, <1>1, <1>3, <2>1, <2>2 DEF JobInv, RowShape, Counted, histVars, BeforeWake
  <2> QED
    BY <1>3, <2>3, <2>4, <2>5, <2>6, <2>7, JobStep DEF JobInv, Live
<1> QED
  BY <1>2, <1>3 DEF Terminal

\* Those who end a lease from outside its task.
LEMMA EndedInv ==
  ASSUME TypeOK, LeaseInv, NEW j \in Jobs, Abort(j) \/ CancelWakeup(j) \/ ExpireAtDeadline(j)
  PROVE  LeaseInv'
<1>0. JobInv(j)
  BY DEF LeaseInv
<1>1. UNCHANGED <<op, via, interrupts, wakes, receipts, touched>>
  BY DEF Abort, CancelWakeup, ExpireAtDeadline, mcpFrame, histVars
<1>2. \A k \in Jobs : mcp'[k] = mcp[k] \/ (mcp'[k] \notin {"idle", "started"} /\ op[k] \notin HandoffPCs)
  <2>1. CASE mcp' = mcp
    BY <2>1
  <2>2. CASE Abort(j)
    <3>1. mcp'[j] = "over" /\ \A k \in Jobs \ {j} : mcp'[k] = mcp[k]
      BY <2>2, TypeParts DEF Typed, McpType, Abort
    <3>2. op[j] \notin HandoffPCs
      BY <1>0, <2>2 DEF JobInv, TaskShape, Abort
    <3> QED
      BY <3>1, <3>2
  <2> QED
    BY <2>1, <2>2 DEF CancelWakeup, ExpireAtDeadline
<1>3. CASE AbandonForManualChange
  BY <1>1, <1>2, <1>3, AbandonRows, WithdrawAllInv
<1>4. CASE UNCHANGED rowVars /\ (Abort(j) \/ CancelWakeup(j))
  <2>1. ASSUME NEW k \in Jobs PROVE JobInv(k)'
    <3>0. JobInv(k)
      BY DEF LeaseInv
    <3>1. RowShape(k)' /\ Counted(k)' /\ Driven(k)'
      BY <1>1, <1>4, <3>0 DEF JobInv, RowShape, Counted, Driven, Revocable, rowVars
    <3>2. TaskShape(k)'
      BY <1>1, <1>2, <1>4, <3>0 DEF JobInv, TaskShape, rowVars
    <3> QED
      BY <3>1, <3>2 DEF JobInv
  <2> QED
    BY <1>4, <2>1 DEF LeaseInv, OneLiveLease, rowVars
<1>5. CASE ExpireAtDeadline(j)
  <2>1. GivenUp(j) /\ \A k \in Jobs \ {j} : row'[k] = row[k] /\ leasePeer'[k] = leasePeer[k]
    BY <1>5, FailedRow DEF ExpireAtDeadline
  <2>2. \A k \in Jobs \ {j} : deadline'[k] = deadline[k]
    BY <1>5, TypeParts DEF Typed, RowType, ExpireAtDeadline
  <2>3. mcp' = mcp
    BY <1>5 DEF ExpireAtDeadline
  <2>4. \A k \in Jobs \ {j} : Same(k)
    BY <1>1, <2>1, <2>2, <2>3 DEF Same
  <2>5. JobInv(j)' /\ row'[j].state \notin Live
    BY <1>0, <1>1, <2>1, <2>3, GivenUpInv DEF SameCounts
  <2> QED
    BY <2>4, <2>5, JobStep
<1> QED
  BY <1>3, <1>4, <1>5 DEF Abort, CancelWakeup

\* A delivery that fails.
LEMMA DeliverFailsInv ==
  ASSUME TypeOK, LeaseInv, NEW j \in Jobs, op[j] \in DeliverPCs, DeliverFails(j),
         UNCHANGED <<mcp, interrupts, wakes, receipts, touched>>
  PROVE  LeaseInv' /\ row'[j].state \notin Live /\ op'[j] = "none"
<1>0. JobInv(j) /\ mcp[j] \notin {"idle", "started"}
  BY DEF LeaseInv, JobInv, TaskShape, DeliverPCs
<1>1. GivenUp(j) /\ \A k \in Jobs \ {j} : row'[k] = row[k] /\ leasePeer'[k] = leasePeer[k]
  BY FailedRow DEF DeliverFails
<1>2. op'[j] = "none" /\ \A k \in Jobs \ {j} : op'[k] = op[k] /\ via'[k] = via[k]
  BY TaskOthers DEF DeliverFails
<1>3. JobInv(j)' /\ row'[j].state \notin Live
  BY <1>0, <1>1, <1>2, GivenUpInv DEF SameCounts, DeliverPCs
<1>4. \A k \in Jobs \ {j} : Same(k)
  BY <1>1, <1>2 DEF Same, DeliverFails
<1> QED
  BY <1>2, <1>3, <1>4, JobStep

\* A delivery that goes on, wakes the thread, has woken it, or is cancelled.
LEMMA DeliverGoesOn ==
  ASSUME NEW j \in Jobs, JobInv(j), op[j] \in DeliverPCs, row'[j].handoff = row[j].handoff,
         mcp'[j] = mcp[j], interrupts'[j] = interrupts[j], receipts'[j] = receipts[j],
         touched'[j] = touched[j],
         \/ /\ op[j] \in BeforeWake /\ op'[j] \in BeforeWake /\ row'[j] = row[j]
            /\ leasePeer'[j] = leasePeer[j] /\ deadline'[j] = deadline[j] /\ wakes'[j] = wakes[j]
         \/ /\ op[j] = "dturn" /\ op'[j] = "dwake" /\ row[j].state \in Live
            /\ row'[j].state = row[j].state /\ row'[j].delivery = "activating"
            /\ leasePeer'[j] = leasePeer[j] /\ deadline'[j] = deadline[j] /\ wakes'[j] = wakes[j] + 1
         \/ /\ op[j] = "dwake" /\ op'[j] = "none" /\ row'[j].state = "delivered"
            /\ row'[j].delivery = "resumed" /\ leasePeer'[j] = NoPeer /\ wakes'[j] = wakes[j]
         \/ /\ row[j].state = "abandoned" /\ op'[j] = "none" /\ row'[j] = row[j]
            /\ leasePeer'[j] = leasePeer[j] /\ deadline'[j] = deadline[j] /\ wakes'[j] = wakes[j]
  PROVE  JobInv(j)'
<1>0. row[j].handoff = "ready" /\ row[j].state \in {"terminal"} \cup Retired
  BY DEF JobInv, TaskShape
<1>1. RowShape(j)'
  BY <1>0 DEF JobInv, RowShape, Live, Retired
<1>2. TaskShape(j)'
  BY <1>0 DEF JobInv, RowShape, TaskShape, PreparePCs, HandoffPCs, DeliverPCs, Live, Retired, BeforeWake
<1>3. Driven(j)'
  BY <1>0 DEF JobInv, RowShape, TaskShape, Driven, Revocable, DeliverPCs, Live, Retired, BeforeWake
<1>4. Counted(j)'
  BY <1>0 DEF JobInv, RowShape, Counted, BeforeWake
<1> QED
  BY <1>1, <1>2, <1>3, <1>4 DEF JobInv

\* _deliver, from the scheduled task to the continuation turn.
LEMMA DeliverInv ==
  ASSUME TypeOK, LeaseInv, NEW j \in Jobs, DeliverSteps(j)
  PROVE  LeaseInv'
<1> USE DEF DeliverSteps
<1>0. JobInv(j)
  BY DEF LeaseInv
<1>1. UNCHANGED <<mcp, interrupts, receipts, touched>> /\ op[j] \in DeliverPCs
  BY DEF DeliverStart, DeliverLocked, DeliverGoal, DeliverTurn, DeliverWoken, DeliverUnwind, deliverFrame,
         mcpVars, DeliverPCs
<1>2. CASE DeliverFails(j)
  <2>1. wakes' = wakes
    <3>1. CASE DeliverTurn(j)
      <4>1. op'[j] = "none"
        BY <1>2, TaskOthers DEF DeliverFails
      <4>2. ~MayWake(j)
        BY <3>1, <4>1, TaskOthers DEF DeliverTurn
      <4> QED
        BY <3>1, <4>2 DEF DeliverTurn
    <3> QED
      BY <3>1 DEF DeliverStart, DeliverLocked, DeliverGoal, DeliverWoken, DeliverUnwind
  <2> QED
    BY <1>1, <1>2, <2>1, DeliverFailsInv
<1>3. CASE (DeliverStart(j) \/ DeliverLocked(j) \/ DeliverGoal(j)) /\ ~DeliverFails(j)
  <2>1. UNCHANGED rowVars /\ wakes' = wakes /\ op[j] \in BeforeWake
    BY <1>3 DEF DeliverStart, DeliverLocked, DeliverGoal, BeforeWake
  <2>2. CASE DeliverLocked(j) /\ LiveSession(j) /\ ~(row[j].state = "terminal" /\ row[j].handoff = "ready")
    BY <1>0, <1>1, <2>2 DEF JobInv, TaskShape, LiveSession, Live, Retired
  <2>3. CASE ~(LiveSession(j) /\ ~(row[j].state = "terminal" /\ row[j].handoff = "ready")) \/ ~DeliverLocked(j)
    <3>1. \/ Goto(j, "dlock") /\ via' = [via EXCEPT ![j] = leasePeer[j]]
          \/ \E p : (Call(j, "dgoal", p, "goal/get") \/ Call(j, "dturn", p, "turns/list")) /\ via' = via
      BY <1>3, <2>3 DEF DeliverStart, DeliverLocked, DeliverGoal
    <3>2. op'[j] \in BeforeWake /\ \A k \in Jobs \ {j} : op'[k] = op[k]
      BY <3>1, TaskOthers DEF BeforeWake
    <3>3. \A k \in Jobs \ {j} : via'[k] = via[k]
      BY <3>1, TypeParts DEF Typed, TaskType
    <3>4. JobInv(j)'
      BY <1>0, <1>1, <2>1, <3>2, DeliverGoesOn DEF rowVars
    <3>5. \A k \in Jobs \ {j} : Same(k)
      BY <1>1, <2>1, <3>2, <3>3 DEF Same, rowVars
    <3> QED
      BY <2>1, <3>4, <3>5, JobStep DEF rowVars
  <2> QED
    BY <2>2, <2>3
<1>4. CASE DeliverTurn(j) /\ ~DeliverFails(j)
  <2>1. /\ op[j] = "dturn" /\ row[j].state \in Live /\ UNCHANGED <<leasePeer, deadline, via>>
        /\ row' = [row EXCEPT ![j].delivery = "activating"] /\ wakes' = [wakes EXCEPT ![j] = @ + 1]
        /\ Call(j, "dwake", via[j], "turn/start")
    BY <1>4 DEF DeliverTurn, MayWake, LiveSession
  <2>2. op'[j] = "dwake" /\ \A k \in Jobs \ {j} : op'[k] = op[k]
    BY <2>1, TaskOthers
  <2>3. wakes'[j] = wakes[j] + 1 /\ \A k \in Jobs \ {j} : wakes'[k] = wakes[k]
    BY <2>1, TypeParts DEF Typed, HistType
  <2>4. /\ row'[j].state = row[j].state /\ row'[j].delivery = "activating"
        /\ row'[j].handoff = row[j].handoff /\ \A k \in Jobs \ {j} : row'[k] = row[k]
    BY <2>1, TypeParts DEF Typed, RowType, Row
  <2>5. JobInv(j)'
    BY <1>0, <1>1, <2>1, <2>2, <2>3, <2>4, DeliverGoesOn
  <2>6. \A k \in Jobs \ {j} : Same(k)
    BY <1>1, <2>1, <2>2, <2>3, <2>4 DEF Same
  <2> QED
    BY <2>1, <2>5, <2>6, JobStep
<1>5. CASE DeliverWoken(j) /\ ~DeliverFails(j)
  <2>1. /\ op[j] = "dwake" /\ row' = SetRow(j, "delivered", "resumed") /\ wakes' = wakes /\ Over(j)
        /\ leasePeer' = [leasePeer EXCEPT ![j] = NoPeer] /\ deadline' = [deadline EXCEPT ![j] = FALSE]
    BY <1>5 DEF DeliverWoken
  <2>2. op'[j] = "none" /\ \A k \in Jobs \ {j} : op'[k] = op[k] /\ via'[k] = via[k]
    BY <2>1, TaskOthers
  <2>3. leasePeer'[j] = NoPeer /\ \A k \in Jobs \ {j} : leasePeer'[k] = leasePeer[k] /\ deadline'[k] = deadline[k]
    BY <2>1, TypeParts DEF Typed, RowType
  <2>4. /\ row'[j].state = "delivered" /\ row'[j].delivery = "resumed"
        /\ row'[j].handoff = row[j].handoff /\ \A k \in Jobs \ {j} : row'[k] = row[k]
    BY <2>1, RowFields
  <2>5. JobInv(j)'
    BY <1>0, <1>1, <2>1, <2>2, <2>3, <2>4, DeliverGoesOn
  <2>6. \A k \in Jobs \ {j} : Same(k)
    BY <1>1, <2>1, <2>2, <2>3, <2>4 DEF Same
  <2> QED
    BY <2>4, <2>5, <2>6, JobStep DEF Live
<1>6. CASE DeliverUnwind(j)
  <2>1. row[j].state = "abandoned" /\ UNCHANGED rowVars /\ wakes' = wakes /\ Over(j)
    BY <1>6 DEF DeliverUnwind
  <2>2. op'[j] = "none" /\ \A k \in Jobs \ {j} : op'[k] = op[k] /\ via'[k] = via[k]
    BY <2>1, TaskOthers
  <2>3. JobInv(j)'
    BY <1>0, <1>1, <2>1, <2>2, DeliverGoesOn DEF rowVars
  <2>4. \A k \in Jobs \ {j} : Same(k)
    BY <1>1, <2>1, <2>2 DEF Same, rowVars
  <2> QED
    BY <2>1, <2>3, <2>4, JobStep DEF rowVars
<1> QED
  BY <1>2, <1>3, <1>4, <1>5, <1>6

\* A call, or the handoff as a whole, that has waited too long.
LEMMA TimeoutInv ==
  ASSUME TypeOK, LeaseInv, NEW j \in Jobs, Timeout(j)
  PROVE  LeaseInv'
<1>0. JobInv(j)
  BY DEF LeaseInv
<1>1. UNCHANGED <<wakes, receipts, touched>>
  BY DEF Timeout
<1>2. CASE op[j] \in HandoffPCs /\ HandoffFails(j)
  BY <1>1, <1>2, HandoffFailsInv
<1>3. CASE op[j] \in DeliverPCs /\ DeliverFails(j) /\ UNCHANGED <<mcp, interrupts>>
  BY <1>1, <1>3, DeliverFailsInv
<1>4. CASE op[j] \in PreparePCs /\ Raise(j) /\ UNCHANGED <<rowVars, interrupts>>
  <2>1. row[j].state = "none" /\ mcp[j] \notin {"idle", "started"}
    BY <1>0, <1>4 DEF JobInv, TaskShape, PreparePCs
  <2>2. /\ op'[j] = "none" /\ mcp'[j] \notin {"idle", "started"}
        /\ \A k \in Jobs \ {j} : op'[k] = op[k] /\ via'[k] = via[k] /\ mcp'[k] = mcp[k]
    BY <1>4, <2>1, RaiseOthers
  <2>3. JobInv(j)'
    BY <1>0, <1>1, <1>4, <2>1, <2>2, NoLeaseInv DEF SameCounts, rowVars
  <2>4. \A k \in Jobs \ {j} : Same(k)
    BY <1>1, <1>4, <2>2 DEF Same, rowVars
  <2> QED
    BY <1>4, <2>3, <2>4, JobStep DEF rowVars
<1> QED
  BY <1>2, <1>3, <1>4 DEF Timeout

\* Nothing that a lease or its task keeps has changed.
LEMMA QuietInv ==
  ASSUME LeaseInv, UNCHANGED <<row, leasePeer, deadline, op, via, mcp, interrupts, wakes, receipts, touched>>
  PROVE  LeaseInv'
<1>1. \A k \in Jobs : Same(k)
  BY DEF Same
<1>2. \A k \in Jobs : JobInv(k)'
  BY <1>1, SameInv DEF LeaseInv
<1> QED
  BY <1>2 DEF LeaseInv, OneLiveLease

\* What the connections tell the bridge, and what the user sends through them.
LEMMA ObserveInv ==
  ASSUME TypeOK, LeaseInv, NEW p \in Peers, Observe(p) \/ ForwardMessage(p) \/ Disconnect(p) \/ OnGoalNote
  PROVE  LeaseInv'
<1>1. UNCHANGED <<op, via, mcp, interrupts, wakes, receipts>>
  BY DEF Observe, ForwardMessage, Disconnect, OnGoalNote, taskVars, mcpVars, histVars
<1>2. \A j \in Jobs : touched'[j] => touched[j] \/ Revocable(j)
  <2>1. touched' = touched \/ touched' = [j \in Jobs |-> touched[j] \/ Revocable(j)]
    BY DEF Observe, ForwardMessage, Disconnect, OnGoalNote, histVars
  <2> QED
    BY <2>1
<1>3. CASE \A j \in Jobs : Withdrawn(j)
  BY <1>1, <1>2, <1>3, WithdrawAllInv
<1>4. CASE UNCHANGED <<rowVars, touched>>
  BY <1>1, <1>4, QuietInv DEF rowVars
<1>5. CASE AbandonForManualChange
  BY <1>3, <1>5, AbandonRows
<1>6. CASE Observe(p) \/ ForwardMessage(p) \/ OnGoalNote
  <2>1. AbandonForManualChange \/ UNCHANGED <<rowVars, touched>>
    BY <1>6 DEF Observe, ObserveStarted, ObserveCompleted, ObserveReply, ForwardMessage, OnGoalNote,
                UserActivity, histVars
  <2> QED
    BY <1>4, <1>5, <2>1
<1>7. CASE Disconnect(p) /\ Concerned(p)
  <2>1. ASSUME NEW j \in Jobs PROVE Withdrawn(j)
    <3>0. deadline[j] \in BOOLEAN
      BY TypeParts DEF Typed, RowType
    <3>1. /\ row'[j] = Abandoned(j)
          /\ leasePeer'[j] = IF Revocable(j) \/ leasePeer[j] = p THEN NoPeer ELSE leasePeer[j]
          /\ deadline'[j] = (deadline[j] /\ ~Revocable(j))
      BY <1>7 DEF Disconnect
    <3>2. ~Revocable(j) => deadline'[j] = deadline[j]
      BY <3>0, <3>1
    <3> QED
      BY <3>1, <3>2, AbandonedRow
  <2> QED
    BY <1>3, <2>1
<1>8. CASE Disconnect(p) /\ ~Concerned(p)
  BY <1>4, <1>8 DEF Disconnect
<1> QED
  BY <1>6, <1>7, <1>8

\* The coordinator restarts: no lease is live afterwards, and no task runs.
LEMMA RestartInv ==
  ASSUME TypeOK, LeaseInv, Restart
  PROVE  LeaseInv'
<1>1. ASSUME NEW j \in Jobs PROVE JobInv(j)' /\ row'[j].state \notin Live
  <2>0. JobInv(j) /\ row[j] \in Row
    BY TypeParts DEF LeaseInv, Typed, RowType
  <2>1. /\ op'[j] = "none" /\ leasePeer'[j] = NoPeer
        /\ mcp'[j] = (IF mcp[j] = "idle" THEN "idle" ELSE "over")
        /\ interrupts'[j] = interrupts[j] /\ wakes'[j] = wakes[j] /\ receipts'[j] = receipts[j]
        /\ touched'[j] = touched[j]
    BY DEF Restart, histVars
  <2>2. \/ /\ row[j].state \in Live /\ row'[j].state = "failed"
           /\ row'[j].delivery = "needs_manual_recovery" /\ row'[j].handoff = row[j].handoff
        \/ row[j].state \notin Live /\ row'[j] = row[j]
    BY <2>0 DEF Restart, Recovered, Row
  <2>3. RowShape(j)' /\ row'[j].state \notin Live
    BY <2>0, <2>2 DEF JobInv, RowShape, Live
  <2>4. TaskShape(j)'
    BY <2>0, <2>1, <2>2 DEF JobInv, RowShape, TaskShape, PreparePCs, HandoffPCs, DeliverPCs, Live
  <2>5. Driven(j)'
    BY <2>0, <2>1, <2>2 DEF JobInv, Driven, Revocable, Live
  <2>6. Counted(j)'
    BY <2>0, <2>1, <2>2 DEF JobInv, RowShape, Counted, Live, BeforeWake
  <2> QED
    BY <2>3, <2>4, <2>5, <2>6 DEF JobInv
<1> QED
  BY <1>1 DEF LeaseInv, OneLiveLease

\* The first message of a connection is one of its messages.
LEMMA HeadElem ==
  ASSUME NEW S, NEW s \in Seq(S), s # <<>>
  PROVE  Head(s) \in Elems(s) /\ Head(s) = s[1] /\ 1 \in 1..Len(s)
<1>1. 1 \in 1..Len(s) /\ Head(s) = s[1]
  OBVIOUS
<1> QED
  BY <1>1 DEF Elems

\* The App Server counts a receipt only when it serves the one request for it.
LEMMA ServeInv ==
  ASSUME TypeOK, LeaseInv, NEW p \in Peers, Serve(p), \A j \in Jobs : Receipt(j)
  PROVE  LeaseInv'
<1>1. UNCHANGED <<row, leasePeer, deadline, op, via, mcp, interrupts, wakes, touched>>
  BY DEF Serve, rowVars, taskVars, mcpVars
<1>2. CASE receipts' = receipts
  BY <1>1, <1>2, QuietInv
<1>3. CASE receipts' # receipts
  <2>1. up[p] # <<>> /\ Head(up[p]) \in Requests /\ Head(up[p]) \in Elems(up[p])
    BY TypeParts, SeqHead, HeadElem DEF Typed, WireType, Serve
  <2>2. PICK j \in Jobs : /\ Head(up[p]) = TaskRequest("inject_items", j)
                          /\ receipts' = [receipts EXCEPT ![j] = @ + 1]
    BY <1>3, <2>1, RequestForms DEF Serve, ServeUser, ServeTask
  <2>3. receipts[j] = 0 /\ row[j].handoff = "recording_receipt"
    BY <2>1, <2>2 DEF Receipt
  <2>4. receipts'[j] = 1 /\ \A k \in Jobs \ {j} : receipts'[k] = receipts[k]
    BY <2>2, <2>3, TypeParts DEF Typed, HistType
  <2>5. \A k \in Jobs \ {j} : Same(k)
    BY <1>1, <2>4 DEF Same
  <2>6. JobInv(j)
    BY DEF LeaseInv
  <2>7. RowShape(j)' /\ TaskShape(j)' /\ Driven(j)'
    BY <1>1, <2>6 DEF JobInv, RowShape, TaskShape, Driven, Revocable
  <2>8. Counted(j)'
    BY <1>1, <2>3, <2>4, <2>6 DEF JobInv, Counted
  <2> QED
    BY <1>1, <2>5, <2>7, <2>8, JobStep DEF JobInv
<1> QED
  BY <1>2, <1>3

-----------------------------------------------------------------------------
(* The messages of a task: sequences                                       *)

LEMMA ConcatMessages ==
  ASSUME NEW S, NEW s \in Seq(S), NEW t \in Seq(S), NEW j
  PROVE  /\ Elems(s \o t) = Elems(s) \cup Elems(t)
         /\ Holds(s \o t, j) <=> Holds(s, j) \/ Holds(t, j)
         /\ Single(s, j) /\ ~Holds(t, j) => Single(s \o t, j)
         /\ ~Holds(s, j) /\ Single(t, j) => Single(s \o t, j)
<1>1. s \o t \in Seq(S) /\ Len(s \o t) = Len(s) + Len(t) /\ Len(s) \in Nat /\ Len(t) \in Nat
  OBVIOUS
<1>2. \A i \in 1..Len(s \o t) : (s \o t)[i] = IF i <= Len(s) THEN s[i] ELSE t[i - Len(s)]
  OBVIOUS
<1>3. ASSUME NEW i \in 1..Len(s \o t)
      PROVE  \/ i \in 1..Len(s) /\ (s \o t)[i] = s[i]
             \/ i - Len(s) \in 1..Len(t) /\ (s \o t)[i] = t[i - Len(s)]
  <2>1. CASE i <= Len(s)
    BY <1>1, <1>2, <2>1
  <2>2. CASE ~(i <= Len(s))
    <3>1. (s \o t)[i] = t[i - Len(s)]
      BY <1>2, <2>2
    <3>2. i - Len(s) \in 1..Len(t)
      BY <1>1, <2>2
    <3> QED
      BY <3>1, <3>2
  <2> QED
    BY <2>1, <2>2
<1>4. \A i \in 1..Len(s) : i \in 1..Len(s \o t) /\ (s \o t)[i] = s[i]
  BY <1>1, <1>2
<1>5. \A i \in 1..Len(t) : i + Len(s) \in 1..Len(s \o t) /\ (s \o t)[i + Len(s)] = t[i]
  BY <1>1, <1>2
<1>6. Elems(s \o t) = Elems(s) \cup Elems(t)
  <2>1. Elems(s \o t) \subseteq Elems(s) \cup Elems(t)
    BY <1>3 DEF Elems
  <2>2. Elems(s) \subseteq Elems(s \o t)
    BY <1>4 DEF Elems
  <2>3. Elems(t) \subseteq Elems(s \o t)
    BY <1>5 DEF Elems
  <2> QED
    BY <2>1, <2>2, <2>3
<1>7. Holds(s \o t, j) <=> Holds(s, j) \/ Holds(t, j)
  BY <1>6 DEF Holds
<1>8. ASSUME Single(s, j), ~Holds(t, j) PROVE Single(s \o t, j)
  <2>1. \A i \in 1..Len(t) : ~About(t[i], j)
    BY <1>8 DEF Holds, Elems
  <2>2. \A i \in 1..Len(s \o t) : About((s \o t)[i], j) => i \in 1..Len(s) /\ (s \o t)[i] = s[i]
    BY <1>3, <2>1
  <2> QED
    BY <1>8, <2>2 DEF Single
<1>9. ASSUME ~Holds(s, j), Single(t, j) PROVE Single(s \o t, j)
  <2>1. \A i \in 1..Len(s) : ~About(s[i], j)
    BY <1>9 DEF Holds, Elems
  <2>2. \A i \in 1..Len(s \o t) : About((s \o t)[i], j) => /\ i - Len(s) \in 1..Len(t)
                                                          /\ (s \o t)[i] = t[i - Len(s)]
    BY <1>3, <2>1
  <2>3. \A i, k \in 1..Len(s \o t) : About((s \o t)[i], j) /\ About((s \o t)[k], j)
                                       => i - Len(s) = k - Len(s)
    BY <1>9, <2>2 DEF Single
  <2> QED
    BY <1>1, <2>3 DEF Single
<1> QED
  BY <1>6, <1>7, <1>8, <1>9

LEMMA OneElem ==
  ASSUME NEW m, NEW j
  PROVE  /\ Elems(<<m>>) = {m} /\ Elems(<<>>) = {} /\ Single(<<m>>, j) /\ Single(<<>>, j)
         /\ Holds(<<m>>, j) <=> About(m, j)
         /\ ~Holds(<<>>, j)
<1>1. Elems(<<m>>) = {m} /\ Elems(<<>>) = {}
  BY DEF Elems
<1>2. Single(<<m>>, j) /\ Single(<<>>, j)
  BY DEF Single
<1> QED
  BY <1>1, <1>2 DEF Holds

LEMMA AppendMessages ==
  ASSUME NEW S, NEW s \in Seq(S), NEW m \in S, NEW j
  PROVE  /\ Elems(Append(s, m)) = Elems(s) \cup {m}
         /\ Single(s, j) /\ ~About(m, j) => Single(Append(s, m), j)
         /\ ~Holds(s, j) => Single(Append(s, m), j)
<1>1. Append(s, m) = s \o <<m>> /\ <<m>> \in Seq(S)
  OBVIOUS
<1>2. /\ Elems(s \o <<m>>) = Elems(s) \cup Elems(<<m>>)
      /\ Single(s, j) /\ ~Holds(<<m>>, j) => Single(s \o <<m>>, j)
      /\ ~Holds(s, j) /\ Single(<<m>>, j) => Single(s \o <<m>>, j)
  BY <1>1, ConcatMessages
<1> QED
  BY <1>1, <1>2, OneElem

LEMMA TailMessages ==
  ASSUME NEW S, NEW s \in Seq(S), s # <<>>, NEW j
  PROVE  /\ Elems(Tail(s)) \subseteq Elems(s)
         /\ Single(s, j) => Single(Tail(s), j)
         /\ Single(s, j) /\ About(Head(s), j) => ~Holds(Tail(s), j)
<1>1. /\ Tail(s) \in Seq(S) /\ Len(Tail(s)) = Len(s) - 1 /\ Len(s) \in Nat /\ Len(s) >= 1
      /\ Head(s) = s[1]
  OBVIOUS
<1>2. \A i \in 1..Len(Tail(s)) : i + 1 \in 1..Len(s) /\ Tail(s)[i] = s[i + 1] /\ i + 1 # 1
  BY <1>1
<1>3. Elems(Tail(s)) \subseteq Elems(s)
  BY <1>2 DEF Elems
<1>4. ASSUME Single(s, j) PROVE Single(Tail(s), j)
  <2>1. \A i, k \in 1..Len(Tail(s)) : About(Tail(s)[i], j) /\ About(Tail(s)[k], j) => i + 1 = k + 1
    BY <1>2, <1>4 DEF Single
  <2> QED
    BY <2>1 DEF Single
<1>5. ASSUME Single(s, j), About(Head(s), j) PROVE ~Holds(Tail(s), j)
  <2>1. 1 \in 1..Len(s)
    BY <1>1
  <2>2. \A i \in 1..Len(Tail(s)) : ~About(Tail(s)[i], j)
    BY <1>1, <1>2, <1>5, <2>1 DEF Single
  <2> QED
    BY <2>2 DEF Holds, Elems
<1> QED
  BY <1>3, <1>4, <1>5

\* Connection t carries no message of job j that s did not.
Fewer(s, t, j) ==
  /\ Single(s, j) => Single(t, j)
  /\ \A m \in Elems(t) : About(m, j) => m \in Elems(s)

LEMMA FewerMessages ==
  ASSUME NEW S, NEW s \in Seq(S), NEW j
  PROVE  /\ Fewer(s, s, j) /\ Fewer(s, <<>>, j)
         /\ s # <<>> => Fewer(s, Tail(s), j)
         /\ \A m \in S : ~About(m, j) => Fewer(s, Append(s, m), j)
         /\ \A t \in Seq(S) : ~Holds(t, j) => Fewer(s, s \o t, j)
<1>1. Fewer(s, s, j) /\ Fewer(s, <<>>, j)
  BY OneElem DEF Fewer
<1>2. s # <<>> => Fewer(s, Tail(s), j)
  BY TailMessages DEF Fewer
<1>3. \A m \in S : ~About(m, j) => Fewer(s, Append(s, m), j)
  BY AppendMessages DEF Fewer
<1>4. \A t \in Seq(S) : ~Holds(t, j) => Fewer(s, s \o t, j)
  BY ConcatMessages DEF Fewer, Holds
<1> QED
  BY <1>1, <1>2, <1>3, <1>4

-----------------------------------------------------------------------------
(* The messages of a task: what one step does to one job                   *)

Less(j) == \A p \in Peers : Fewer(up[p], up'[p], j) /\ Fewer(down[p], down'[p], j)

LEMMA LessMessages ==
  ASSUME NEW j \in Jobs, OneMessage(j), Less(j)
  PROVE  /\ OneMessage(j)' /\ (InFlight(j)' => InFlight(j))
         /\ \A p \in Peers : Holds(down'[p], j) => Holds(down[p], j)
         /\ \A p \in Peers : \A m \in Elems(up'[p]) : About(m, j) => m \in Elems(up[p])
<1>1. \A p \in Peers : /\ Holds(up'[p], j) => Holds(up[p], j)
                       /\ Holds(down'[p], j) => Holds(down[p], j)
  BY DEF Less, Fewer, Holds
<1>2. \A p \in Peers : Single(up'[p], j) /\ Single(down'[p], j)
  BY DEF Less, Fewer, OneMessage
<1>3. OneMessage(j)'
  BY <1>1, <1>2 DEF OneMessage
<1>4. InFlight(j)' => InFlight(j)
  BY <1>1 DEF InFlight
<1> QED
  BY <1>1, <1>3, <1>4 DEF Less, Fewer

LEMMA InjectAbout ==
  ASSUME NEW j
  PROVE  \A c \in BridgeCalls : About(TaskRequest(c, j), j) /\ TaskRequest(c, j)[1] = c
BY DEF About, TaskRequest, BridgeCalls

\* The step is not one of the job's task; a lost connection may fail its call.
WireSame(j) ==
  /\ op'[j] = op[j] /\ receipts'[j] = receipts[j] /\ row'[j].handoff = row[j].handoff
  /\ reply'[j] = reply[j] \/ (reply[j] = "wait" /\ reply'[j] = "error")
  /\ mcp'[j] = mcp[j] \/ mcp'[j] \notin {"idle", "started"}
  /\ row'[j].state \in Live => row[j].state \in Live
LEMMA WireSameInv ==
  ASSUME NEW j \in Jobs, WireInv(j), Less(j), WireSame(j)
  PROVE  WireInv(j)'
<1> USE DEF WireSame
<1>1. /\ OneMessage(j)' /\ (InFlight(j)' => InFlight(j))
      /\ \A p \in Peers : Holds(down'[p], j) => Holds(down[p], j)
      /\ \A p \in Peers : \A m \in Elems(up'[p]) : About(m, j) => m \in Elems(up[p])
  BY LessMessages DEF WireInv
<1>2. Awaited(j)'
  BY <1>1 DEF WireInv, Awaited
<1>3. \A p \in Peers : TaskRequest("inject_items", j) \in Elems(up'[p]) =>
                         receipts'[j] = 0 /\ row'[j].handoff = "recording_receipt"
  BY <1>1, InjectAbout DEF WireInv, Receipt, BridgeCalls
<1>4. ASSUME op'[j] = "hinject", reply'[j] = "wait"
      PROVE  /\ \A p \in Peers, m \in Requests : m \in Elems(up'[p]) /\ About(m, j) => m[1] = "inject_items"
             /\ \A p \in Peers : Holds(down'[p], j) => receipts'[j] = 1
  BY <1>1, <1>4 DEF WireInv, Receipt
<1>5. op'[j] = "hinject" /\ reply'[j] = "ok" => receipts'[j] = 1
  BY DEF WireInv, Receipt
<1>6. Receipt(j)'
  BY <1>3, <1>4, <1>5 DEF Receipt
<1> QED
  BY <1>1, <1>2, <1>6 DEF WireInv

\* The task ends, with a request perhaps still on its way.
LEMMA WireEndsInv ==
  ASSUME NEW j \in Jobs, WireInv(j), Less(j), op'[j] = "none", reply'[j] = "none",
         mcp'[j] \notin {"idle", "started"}, row'[j].state \notin Live,
         receipts'[j] = receipts[j], row'[j].handoff = row[j].handoff
  PROVE  WireInv(j)'
<1>1. /\ OneMessage(j)'
      /\ \A p \in Peers : \A m \in Elems(up'[p]) : About(m, j) => m \in Elems(up[p])
  BY LessMessages DEF WireInv
<1>2. Awaited(j)'
  BY DEF Awaited
<1>3. \A p \in Peers : TaskRequest("inject_items", j) \in Elems(up'[p]) =>
                         receipts'[j] = 0 /\ row'[j].handoff = "recording_receipt"
  BY <1>1, InjectAbout DEF WireInv, Receipt, BridgeCalls
<1>4. Receipt(j)'
  BY <1>3 DEF Receipt
<1> QED
  BY <1>1, <1>2, <1>4 DEF WireInv

\* The task has its answer, or has asked nothing.
LEMMA NothingInFlight ==
  ASSUME NEW j \in Jobs, Awaited(j), reply[j] \notin {"wait", "error"},
         op[j] # "none" \/ mcp[j] \in {"idle", "started"} \/ row[j].state \in Live
  PROVE  ~InFlight(j)
BY DEF Awaited

LEMMA WireIdleInv ==
  ASSUME NEW j \in Jobs, WireInv(j), Less(j), ~InFlight(j), op'[j] # "hinject",
         op'[j] \in AtRest => reply'[j] = "none"
  PROVE  WireInv(j)'
<1>1. OneMessage(j)' /\ ~InFlight(j)'
  BY LessMessages DEF WireInv
<1>2. Awaited(j)'
  BY <1>1 DEF Awaited
<1>3. \A p \in Peers : TaskRequest("inject_items", j) \notin Elems(up'[p])
  BY <1>1, InjectAbout DEF InFlight, Holds, BridgeCalls
<1>4. Receipt(j)'
  BY <1>3 DEF Receipt
<1> QED
  BY <1>1, <1>2, <1>4 DEF WireInv

\* The task makes a request, with none in flight.
LEMMA WireCallInv ==
  ASSUME TypeOK, NEW j \in Jobs, WireInv(j), ~InFlight(j), NEW pc, NEW p, NEW c \in BridgeCalls,
         Call(j, pc, p, c), UNCHANGED down, pc \notin AtRest,
         pc = "hinject" => receipts'[j] = 0 /\ row'[j].handoff = "recording_receipt",
         pc = "hinject" <=> c = "inject_items"
  PROVE  WireInv(j)' /\ \A k \in Jobs \ {j} : Less(k)
<1>0. \A q \in Peers : up[q] \in Seq(Requests) /\ down[q] \in Seq(Events)
  BY TypeParts DEF Typed, WireType
<1>1. op'[j] = pc /\ reply'[j] \in {"wait", "error"}
  BY TaskOthers
<1>2. TaskRequest(c, j) \in Requests /\ About(TaskRequest(c, j), j) /\ TaskRequest(c, j)[1] = c
  BY MessageTypes, InjectAbout
<1>3. ASSUME NEW q \in Peers
      PROVE  up'[q] = up[q] \/ (q = p /\ up'[q] = Append(up[q], TaskRequest(c, j)))
  BY TypeParts DEF Typed, WireType, Call
<1>4. \A q \in Peers : ~Holds(up[q], j) /\ ~Holds(down[q], j)
  BY DEF InFlight
<1>5. ASSUME NEW q \in Peers
      PROVE  /\ Single(up'[q], j) /\ (Holds(up'[q], j) => q = p)
             /\ \A m \in Elems(up'[q]) : About(m, j) => m = TaskRequest(c, j)
  <2>1. CASE up'[q] = up[q]
    BY <1>4, <2>1 DEF WireInv, OneMessage, Holds
  <2>2. CASE q = p /\ up'[q] = Append(up[q], TaskRequest(c, j))
    <3>1. Single(up'[q], j) /\ Elems(up'[q]) = Elems(up[q]) \cup {TaskRequest(c, j)}
      BY <1>0, <1>2, <1>4, <2>2, AppendMessages
    <3> QED
      BY <1>4, <2>2, <3>1 DEF Holds
  <2> QED
    BY <1>3, <2>1, <2>2
<1>6. OneMessage(j)'
  BY <1>4, <1>5 DEF WireInv, OneMessage
<1>7. Awaited(j)'
  BY <1>1 DEF Awaited
<1>8. Receipt(j)'
  <2>1. ASSUME NEW q \in Peers, TaskRequest("inject_items", j) \in Elems(up'[q])
        PROVE  receipts'[j] = 0 /\ row'[j].handoff = "recording_receipt"
    <3>1. TaskRequest("inject_items", j) = TaskRequest(c, j)
      BY <1>5, <2>1, InjectAbout DEF BridgeCalls
    <3>2. c = "inject_items"
      BY <1>2, <3>1, InjectAbout DEF BridgeCalls
    <3> QED
      BY <3>2
  <2>2. ASSUME op'[j] = "hinject"
        PROVE  \A q \in Peers, m \in Requests : m \in Elems(up'[q]) /\ About(m, j) => m[1] = "inject_items"
    BY <1>1, <1>2, <1>5, <2>2
  <2>3. \A q \in Peers : ~Holds(down'[q], j)
    BY <1>4
  <2> QED
    BY <1>1, <2>1, <2>2, <2>3 DEF Receipt
<1>9. ASSUME NEW k \in Jobs \ {j} PROVE Less(k)
  <2>1. ~About(TaskRequest(c, j), k)
    BY DEF About, TaskRequest
  <2>2. \A q \in Peers : Fewer(down[q], down'[q], k)
    BY <1>0, FewerMessages
  <2>3. \A q \in Peers : Fewer(up[q], up'[q], k)
    BY <1>0, <1>2, <1>3, <2>1, FewerMessages
  <2> QED
    BY <2>2, <2>3 DEF Less
<1> QED
  BY <1>6, <1>7, <1>8, <1>9 DEF WireInv

\* Its answer arrives, or is dropped.
LEMMA WireReplyInv ==
  ASSUME TypeOK, NEW p \in Peers, NEW j \in Jobs, WireInv(j), down[p] # <<>>,
         down' = [down EXCEPT ![p] = Tail(@)], UNCHANGED up,
         About(Head(down[p]), j), NEW v \in Values,
         reply'[j] = IF reply[j] = "wait" THEN v ELSE reply[j],
         op'[j] = op[j], receipts'[j] = receipts[j]
  PROVE  WireInv(j)'
<1>0. \A q \in Peers : up[q] \in Seq(Requests) /\ down[q] \in Seq(Events)
  BY TypeParts DEF Typed, WireType
<1>1. \A q \in Peers : down'[q] = IF q = p THEN Tail(down[p]) ELSE down[q]
  BY TypeParts DEF Typed, WireType
<1>2. Holds(down[p], j)
  BY <1>0, HeadElem DEF Holds
<1>3. \A q \in Peers : ~Holds(down'[q], j) /\ Single(down'[q], j)
  BY <1>0, <1>1, <1>2, TailMessages DEF WireInv, OneMessage
<1>4. \A q \in Peers : ~Holds(up[q], j)
  BY <1>2 DEF WireInv, OneMessage
<1>5. OneMessage(j)' /\ ~InFlight(j)'
  BY <1>3, <1>4 DEF WireInv, OneMessage, InFlight
<1>6. Awaited(j)'
  BY <1>5 DEF WireInv, Awaited
<1>7. \A q \in Peers : TaskRequest("inject_items", j) \notin Elems(up[q])
  BY <1>4, InjectAbout DEF Holds, BridgeCalls
<1>8. reply'[j] # "wait"
  BY DEF Values, TurnStates
<1>9. op'[j] = "hinject" /\ reply'[j] = "ok" => receipts'[j] = 1
  BY <1>2 DEF WireInv, Receipt
<1>10. Receipt(j)'
  BY <1>7, <1>8, <1>9 DEF Receipt
<1> QED
  BY <1>5, <1>6, <1>10 DEF WireInv

\* Events about turns and tool calls are no messages of a task.
LEMMA PublishWires ==
  ASSUME TypeOK, NEW e \in Events, e[1] \in {"started", "completed", "item", "tool"}, Publish(e)
  PROVE  \A q \in Peers, k \in Jobs : Fewer(down[q], down'[q], k)
<1>1. \A k \in Jobs : ~About(e, k)
  BY DEF About, BridgeCalls
<1>2. \A q \in Peers : down[q] \in Seq(Events)
  BY TypeParts DEF Typed, WireType
<1>3. \A q \in Peers : down'[q] = down[q] \/ down'[q] = Append(down[q], e)
  BY DEF Publish
<1> QED
  BY <1>1, <1>2, <1>3, FewerMessages

\* Connection p gets an answer to job j's request, and the others none.
Answered(p, j) ==
  \A q \in Peers : /\ \A k \in Jobs \ {j} : Fewer(down[q], down'[q], k)
                   /\ ~Holds(down[q], j) => /\ Single(down'[q], j)
                                            /\ Holds(down'[q], j) => q = p

LEMMA AnswerWires ==
  ASSUME TypeOK, NEW p \in Peers, NEW j \in Jobs, NEW v \in Values,
         \/ Answer(p, j, v)
         \/ \E e \in Events : /\ e[1] \in {"started", "completed"}
                              /\ PublishAndReply(e, p, <<"reply", j, v>>)
  PROVE  Answered(p, j)
<1> DEFINE r == <<"reply", j, v>>
<1>0. \A q \in Peers : down[q] \in Seq(Events)
  BY TypeParts DEF Typed, WireType
<1>1. r \in Events /\ \A k \in Jobs \ {j} : ~About(r, k)
  BY MessageTypes DEF About
<1>2. CASE Answer(p, j, v)
  <2>1. \A q \in Peers : down'[q] = down[q] \/ (q = p /\ down'[q] = Append(down[q], r))
    BY <1>2, TypeParts DEF Typed, WireType, Answer
  <2> HIDE DEF r
  <2>2. ASSUME NEW q \in Peers, NEW k \in Jobs \ {j} PROVE Fewer(down[q], down'[q], k)
    BY <1>0, <1>1, <2>1, FewerMessages
  <2>3. ASSUME NEW q \in Peers, ~Holds(down[q], j)
        PROVE  Single(down'[q], j) /\ (Holds(down'[q], j) => q = p)
    <3>1. CASE down'[q] = down[q]
      BY <2>3, <3>1 DEF Single, Holds, Elems
    <3>2. CASE q = p /\ down'[q] = Append(down[q], r)
      BY <1>0, <1>1, <2>3, <3>2, AppendMessages
    <3> QED
      BY <2>1, <3>1, <3>2
  <2> QED
    BY <2>2, <2>3 DEF Answered
<1>3. CASE \E e \in Events : e[1] \in {"started", "completed"} /\ PublishAndReply(e, p, r)
  <2>1. PICK e \in Events : e[1] \in {"started", "completed"} /\ PublishAndReply(e, p, r)
    BY <1>3
  <2> HIDE DEF r
  <2>2. \A k \in Jobs : ~About(e, k)
    BY <2>1 DEF About, BridgeCalls
  <2>3. <<e>> \in Seq(Events) /\ <<r>> \in Seq(Events) /\ <<>> \in Seq(Events)
    BY <1>1
  <2>4. ASSUME NEW q \in Peers
        PROVE  \E t \in Seq(Events) : /\ down'[q] = down[q] \o t
                                      /\ Single(t, j) /\ (Holds(t, j) => q = p)
                                      /\ \A k \in Jobs \ {j} : ~Holds(t, k)
    <3>1. PICK a \in Seq(Events) : a = IF q = p /\ conn[p] = "up" THEN <<r>> ELSE <<>>
      BY <2>3
    <3>2. PICK b \in Seq(Events) : b = IF q \in sub THEN <<e>> ELSE <<>>
      BY <2>3
    <3>3. /\ Single(a, j) /\ (Holds(a, j) => q = p) /\ ~Holds(b, j)
          /\ \A k \in Jobs \ {j} : ~Holds(a, k) /\ ~Holds(b, k)
      BY <1>1, <2>2, <3>1, <3>2, OneElem
    <3>4. /\ a \o b \in Seq(Events) /\ Single(a \o b, j) /\ (Holds(a \o b, j) => q = p)
          /\ \A k \in Jobs \ {j} : ~Holds(a \o b, k)
      BY <3>3, ConcatMessages
    <3>5. /\ b \o a \in Seq(Events) /\ Single(b \o a, j) /\ (Holds(b \o a, j) => q = p)
          /\ \A k \in Jobs \ {j} : ~Holds(b \o a, k)
      BY <3>3, ConcatMessages
    <3>6. down'[q] = down[q] \o (a \o b) \/ down'[q] = down[q] \o (b \o a)
      BY <2>1, <3>1, <3>2 DEF PublishAndReply
    <3> QED
      BY <3>4, <3>5, <3>6
  <2>5. ASSUME NEW q \in Peers
        PROVE  /\ \A k \in Jobs \ {j} : Fewer(down[q], down'[q], k)
               /\ ~Holds(down[q], j) => Single(down'[q], j) /\ (Holds(down'[q], j) => q = p)
    <3>1. PICK t \in Seq(Events) : /\ down'[q] = down[q] \o t
                                   /\ Single(t, j) /\ (Holds(t, j) => q = p)
                                   /\ \A k \in Jobs \ {j} : ~Holds(t, k)
      BY <2>4
    <3>2. \A k \in Jobs \ {j} : Fewer(down[q], down'[q], k)
      BY <1>0, <3>1, FewerMessages
    <3>3. ~Holds(down[q], j) => Single(down'[q], j) /\ (Holds(down'[q], j) => q = p)
      BY <1>0, <3>1, ConcatMessages
    <3> QED
      BY <3>2, <3>3
  <2> QED
    BY <2>5 DEF Answered
<1> QED
  BY <1>2, <1>3

\* The App Server takes the request of a task off its connection and answers.
LEMMA WireServedInv ==
  ASSUME TypeOK, NEW p \in Peers, NEW j \in Jobs, NEW c \in BridgeCalls, WireInv(j),
         up[p] # <<>>, Head(up[p]) = TaskRequest(c, j), up' = [up EXCEPT ![p] = Tail(@)],
         Answered(p, j), UNCHANGED <<op, reply, mcp, row>>,
         receipts'[j] = IF c = "inject_items" THEN receipts[j] + 1 ELSE receipts[j]
  PROVE  WireInv(j)'
<1>0. \A q \in Peers : up[q] \in Seq(Requests) /\ down[q] \in Seq(Events)
  BY TypeParts DEF Typed, WireType
<1>1. About(Head(up[p]), j) /\ Head(up[p])[1] = c /\ Head(up[p]) \in Elems(up[p]) /\ Head(up[p]) \in Requests
  BY <1>0, InjectAbout, HeadElem, SeqHead
<1>2. Holds(up[p], j) /\ InFlight(j)
  BY <1>1 DEF Holds, InFlight
<1>3. \A q \in Peers : ~Holds(down[q], j) /\ (Holds(up[q], j) => q = p)
  BY <1>2 DEF WireInv, OneMessage
<1>4. \A q \in Peers : up'[q] = IF q = p THEN Tail(up[p]) ELSE up[q]
  BY TypeParts DEF Typed, WireType
<1>5. \A q \in Peers : ~Holds(up'[q], j) /\ Single(up'[q], j)
  BY <1>0, <1>1, <1>3, <1>4, TailMessages DEF WireInv, OneMessage
<1>6. \A q \in Peers : Single(down'[q], j) /\ (Holds(down'[q], j) => q = p)
  BY <1>3 DEF Answered
<1>7. OneMessage(j)'
  BY <1>5, <1>6 DEF OneMessage
<1>8. Awaited(j)'
  BY <1>2 DEF WireInv, Awaited
<1>9. \A q \in Peers : \A m \in Elems(up'[q]) : ~About(m, j)
  BY <1>5 DEF Holds
<1>10. ASSUME op[j] = "hinject", reply[j] = "wait" PROVE receipts'[j] = 1
  <2>1. c = "inject_items"
    BY <1>1, <1>10 DEF WireInv, Receipt
  <2>2. receipts[j] = 0
    BY <1>1, <2>1 DEF WireInv, Receipt
  <2> QED
    BY <2>1, <2>2
<1>11. ~(op[j] = "hinject" /\ reply[j] = "ok")
  BY <1>2 DEF WireInv, Awaited
<1>12. Receipt(j)'
  BY <1>9, <1>10, <1>11, InjectAbout DEF Receipt, BridgeCalls
<1> QED
  BY <1>7, <1>8, <1>12 DEF WireInv

LEMMA ServeWires ==
  ASSUME TypeOK, NEW p \in Peers, Serve(p), \A j \in Jobs : WireInv(j)
  PROVE  \A j \in Jobs : WireInv(j)'
<1>0. \A q \in Peers : up[q] \in Seq(Requests) /\ down[q] \in Seq(Events)
  BY TypeParts DEF Typed, WireType
<1>1. /\ UNCHANGED <<op, reply, mcp, row>>
      /\ up[p] # <<>> /\ up' = [up EXCEPT ![p] = Tail(@)]
  BY DEF Serve, rowVars, taskVars, mcpVars
<1>2. \A q \in Peers : up'[q] = up[q] \/ (q = p /\ up'[q] = Tail(up[q]))
  BY <1>1, TypeParts DEF Typed, WireType
<1>3. \A q \in Peers, k \in Jobs : Fewer(up[q], up'[q], k)
  BY <1>0, <1>1, <1>2, FewerMessages
<1>4. Head(up[p]) \in Requests
  BY <1>0, <1>1, SeqHead
<1>5. turn \in Turns /\ turn + 1 \in Turns /\ goal \in Values
  BY TypeParts DEF Typed, AppType, Turns, Values
<1>6. ASSUME NEW m \in UserMessages, Head(up[p]) = UserRequest(m), Head(up[p])[1] = "user", Head(up[p])[2] = m
      PROVE  \A j \in Jobs : WireInv(j)'
  <2>1. ServeUser(p, m)
    BY <1>6 DEF Serve
  <2>2. <<"started", turn + 1>> \in Events /\ <<"completed", turn>> \in Events
    BY <1>5, MessageTypes
  <2>3. \/ Publish(<<"started", turn + 1>>) \/ Publish(<<"completed", turn>>) \/ down' = down
    BY <2>1 DEF ServeUser
  <2>4. \A q \in Peers, k \in Jobs : Fewer(down[q], down'[q], k)
    <3>1. CASE down' = down
      BY <1>0, <3>1, FewerMessages
    <3>2. CASE Publish(<<"started", turn + 1>>)
      <4>1. <<"started", turn + 1>>[1] = "started"
        OBVIOUS
      <4> QED
        BY <2>2, <3>2, <4>1, PublishWires
    <3>3. CASE Publish(<<"completed", turn>>)
      <4>1. <<"completed", turn>>[1] = "completed"
        OBVIOUS
      <4> QED
        BY <2>2, <3>3, <4>1, PublishWires
    <3> QED
      BY <2>3, <3>1, <3>2, <3>3
  <2>5. \A j \in Jobs : WireSame(j) /\ Less(j)
    BY <1>1, <1>3, <2>1, <2>4 DEF WireSame, Less, ServeUser
  <2> QED
    BY <2>5, WireSameInv
<1>7. ASSUME NEW c \in BridgeCalls, NEW j \in Jobs, Head(up[p]) = TaskRequest(c, j),
             Head(up[p])[1] = c, Head(up[p])[2] = j, c # "user"
      PROVE  \A k \in Jobs : WireInv(k)'
  <2>1. ServeTask(p, c, j)
    BY <1>7 DEF Serve
  <2>2. Latest(j) \in Values /\ "ok" \in Values /\ "error" \in Values
    BY TypeParts DEF Typed, AppType, Latest, Values
  <2>3. Answered(p, j)
    <3>1. CASE \E v \in Values : Answer(p, j, v)
      BY <3>1, AnswerWires
    <3>2. CASE PublishAndReply(<<"completed", turn>>, p, <<"reply", j, "ok">>)
      <4>1. <<"completed", turn>> \in Events /\ <<"completed", turn>>[1] = "completed"
        BY <1>5, MessageTypes
      <4> QED
        BY <2>2, <3>2, <4>1, AnswerWires
    <3>3. CASE PublishAndReply(<<"started", turn + 1>>, p, <<"reply", j, "ok">>)
      <4>1. <<"started", turn + 1>> \in Events /\ <<"started", turn + 1>>[1] = "started"
        BY <1>5, MessageTypes
      <4> QED
        BY <2>2, <3>3, <4>1, AnswerWires
    <3> QED
      BY <1>5, <2>1, <2>2, <3>1, <3>2, <3>3 DEF ServeTask
  <2>4. /\ receipts'[j] = IF c = "inject_items" THEN receipts[j] + 1 ELSE receipts[j]
        /\ \A k \in Jobs \ {j} : receipts'[k] = receipts[k]
    BY <2>1, TypeParts DEF Typed, HistType, ServeTask
  <2>5. WireInv(j)'
    BY <1>1, <1>7, <2>3, <2>4, WireServedInv
  <2>6. ASSUME NEW k \in Jobs \ {j} PROVE WireInv(k)'
    <3>1. WireSame(k) /\ Less(k)
      BY <1>1, <1>3, <2>3, <2>4 DEF WireSame, Less, Answered
    <3> QED
      BY <3>1, WireSameInv
  <2> QED
    BY <2>5, <2>6
<1> QED
  BY <1>4, <1>6, <1>7, RequestForms

-----------------------------------------------------------------------------
(* The messages of a task: every step                                      *)

LEMMA StayWires ==
  ASSUME TypeOK, UNCHANGED up,
         \/ down' = down
         \/ \E e \in Events : e[1] \in {"started", "completed", "item", "tool"} /\ Publish(e)
         \/ \E p \in Peers : down[p] # <<>> /\ down' = [down EXCEPT ![p] = Tail(@)]
         \/ \E p \in Peers : down' = [down EXCEPT ![p] = <<>>]
         \/ down' = [p \in Peers |-> <<>>]
  PROVE  \A k \in Jobs : Less(k)
<1>0. \A q \in Peers : up[q] \in Seq(Requests) /\ down[q] \in Seq(Events)
  BY TypeParts DEF Typed, WireType
<1>1. \A q \in Peers, k \in Jobs : Fewer(up[q], up'[q], k)
  BY <1>0, FewerMessages
<1>2. CASE \E e \in Events : e[1] \in {"started", "completed", "item", "tool"} /\ Publish(e)
  BY <1>1, <1>2, PublishWires DEF Less
<1>3. CASE \A q \in Peers : down'[q] = down[q] \/ (down[q] # <<>> /\ down'[q] = Tail(down[q])) \/ down'[q] = <<>>
  <2>1. \A q \in Peers, k \in Jobs : Fewer(down[q], down'[q], k)
    BY <1>0, <1>3, FewerMessages
  <2> QED
    BY <1>1, <2>1 DEF Less
<1> QED
  BY <1>2, <1>3, TypeParts DEF Typed, WireType

\* A step of job j's task ends it, goes on without a request, or makes one.
LEMMA TaskWires ==
  ASSUME TypeOK, \A k \in Jobs : WireInv(k), NEW j \in Jobs, UNCHANGED <<down, receipts>>,
         \A k \in Jobs \ {j} : mcp'[k] = mcp[k] /\ row'[k] = row[k],
         \/ /\ Goto(j, "none") /\ mcp'[j] \notin {"idle", "started"}
            /\ row'[j].state \notin Live /\ row'[j].handoff = row[j].handoff
         \/ /\ ~InFlight(j)
            /\ \E pc : Goto(j, pc) /\ pc # "hinject"
         \/ /\ ~InFlight(j)
            /\ \E pc, p, c : /\ c \in BridgeCalls /\ Call(j, pc, p, c) /\ pc \notin AtRest
                             /\ pc = "hinject" => receipts[j] = 0 /\ row'[j].handoff = "recording_receipt"
                             /\ pc = "hinject" <=> c = "inject_items"
  PROVE  \A k \in Jobs : WireInv(k)'
<1>1. ASSUME \A k \in Jobs \ {j} : Less(k) /\ op'[k] = op[k] /\ reply'[k] = reply[k], WireInv(j)'
      PROVE  \A k \in Jobs : WireInv(k)'
  <2>1. \A k \in Jobs \ {j} : WireSame(k)
    BY <1>1 DEF WireSame
  <2> QED
    BY <1>1, <2>1, WireSameInv
<1>2. ASSUME NEW pc, Goto(j, pc),
             \/ /\ pc = "none" /\ mcp'[j] \notin {"idle", "started"}
                /\ row'[j].state \notin Live /\ row'[j].handoff = row[j].handoff
             \/ ~InFlight(j) /\ pc # "hinject"
      PROVE  \A k \in Jobs : WireInv(k)'
  <2>2. /\ op'[j] = pc /\ reply'[j] = "none" /\ up' = up
        /\ \A k \in Jobs \ {j} : op'[k] = op[k] /\ reply'[k] = reply[k]
    BY <1>2, TaskOthers DEF Goto
  <2>3. \A k \in Jobs : Less(k)
    BY <2>2, StayWires
  <2>4. CASE op'[j] = "none" /\ mcp'[j] \notin {"idle", "started"} /\ row'[j].state \notin Live
             /\ row'[j].handoff = row[j].handoff
    BY <1>1, <2>2, <2>3, <2>4, WireEndsInv
  <2>5. CASE ~InFlight(j) /\ op'[j] # "hinject"
    BY <1>1, <2>2, <2>3, <2>5, WireIdleInv
  <2> QED
    BY <1>2, <2>2, <2>4, <2>5
<1>3. CASE /\ ~InFlight(j)
           /\ \E pc, p, c : /\ c \in BridgeCalls /\ Call(j, pc, p, c) /\ pc \notin AtRest
                            /\ pc = "hinject" => receipts[j] = 0 /\ row'[j].handoff = "recording_receipt"
                            /\ pc = "hinject" <=> c = "inject_items"
  <2>1. PICK pc, p, c : /\ c \in BridgeCalls /\ Call(j, pc, p, c) /\ pc \notin AtRest
                        /\ pc = "hinject" => receipts[j] = 0 /\ row'[j].handoff = "recording_receipt"
                        /\ pc = "hinject" <=> c = "inject_items"
    BY <1>3
  <2>2. WireInv(j)' /\ \A k \in Jobs \ {j} : Less(k)
    BY <1>3, <2>1, WireCallInv
  <2>3. \A k \in Jobs \ {j} : op'[k] = op[k] /\ reply'[k] = reply[k]
    BY <2>1, TaskOthers
  <2> QED
    BY <1>1, <2>2, <2>3
<1> QED
  BY <1>2, <1>3

\* A task that reads its answer has nothing in flight, unless the call failed.
LEMMA AnswerRead ==
  ASSUME NEW j \in Jobs, Awaited(j), op[j] # "none"
  PROVE  /\ op[j] \in AtRest => ~InFlight(j)
         /\ reply[j] \notin {"wait", "error"} => ~InFlight(j)
BY DEF Awaited

LEMMA RaiseWires ==
  ASSUME TypeOK, \A k \in Jobs : WireInv(k), NEW j \in Jobs, JobInv(j), op[j] \in PreparePCs, Raise(j),
         UNCHANGED <<row, down, receipts>>
  PROVE  \A k \in Jobs : WireInv(k)'
<1>1. mcp[j] \notin {"idle", "started"} /\ row[j].state \notin Live
  BY DEF JobInv, TaskShape, PreparePCs, Live
<1>2. mcp'[j] \notin {"idle", "started"} /\ \A k \in Jobs \ {j} : mcp'[k] = mcp[k]
  BY <1>1, RaiseOthers
<1>3. Goto(j, "none")
  BY DEF Raise, Over
<1> QED
  BY <1>1, <1>2, <1>3, TaskWires

LEMMA PrepareWires ==
  ASSUME TypeOK, \A k \in Jobs : WireInv(k), NEW j \in Jobs, JobInv(j),
         \/ StartJob(j) \/ PrepareGoal(j) \/ PrepareObserved(j) \/ PrepareLocked(j) \/ PrepareTurn(j)
         \/ PrepareCommit(j) \/ PrepareGivenUp(j)
  PROVE  \A k \in Jobs : WireInv(k)'
<1>0. Awaited(j)
  BY DEF WireInv
<1>1. receipts' = receipts
  BY DEF StartJob, PrepareGoal, PrepareObserved, PrepareLocked, PrepareTurn, PrepareCommit, PrepareGivenUp,
         prepareFrame, histVars
<1>2. CASE StartJob(j)
  <2>1. op[j] = "none" /\ reply[j] = "none"
    BY <1>0, <1>2 DEF StartJob, JobInv, TaskShape, Awaited, AtRest
  <2>2. ~InFlight(j)
    BY <1>0, <1>2, <2>1, NothingInFlight DEF StartJob
  <2>3. <<"item", j>> \in Events /\ <<"item", j>>[1] = "item"
    BY MessageTypes
  <2>4. up' = up /\ Publish(<<"item", j>>) /\ row' = row
    BY <1>2 DEF StartJob, Goto, rowVars
  <2>5. \A k \in Jobs : Less(k)
    BY <2>3, <2>4, StayWires
  <2>6. /\ op'[j] = "goal" /\ reply'[j] = "none"
        /\ \A k \in Jobs \ {j} : op'[k] = op[k] /\ reply'[k] = reply[k] /\ mcp'[k] = mcp[k]
    BY <1>2, TaskOthers, TypeParts DEF Typed, McpType, StartJob
  <2>7. WireInv(j)'
    BY <2>2, <2>5, <2>6, WireIdleInv
  <2>8. \A k \in Jobs \ {j} : WireSame(k)
    BY <1>1, <2>4, <2>6 DEF WireSame
  <2> QED
    BY <2>5, <2>7, <2>8, WireSameInv
<1>3. CASE PrepareGivenUp(j)
  <2>1. UNCHANGED <<up, down, op, reply, row>> /\ \A k \in Jobs : mcp'[k] = mcp[k] \/ mcp'[k] = "abort"
    BY <1>3, TypeParts DEF Typed, McpType, PrepareGivenUp, wires, taskVars, rowVars
  <2>2. \A k \in Jobs : Less(k)
    BY <2>1, StayWires
  <2>3. \A k \in Jobs : WireSame(k)
    BY <1>1, <2>1 DEF WireSame
  <2> QED
    BY <2>2, <2>3, WireSameInv
<1>4. CASE /\ PrepareGoal(j) \/ PrepareObserved(j) \/ PrepareLocked(j) \/ PrepareTurn(j) \/ PrepareCommit(j)
           /\ Raise(j)
  <2>1. op[j] \in PreparePCs /\ UNCHANGED down
    BY <1>4 DEF PrepareGoal, PrepareObserved, PrepareLocked, PrepareTurn, PrepareCommit, PreparePCs, prepareFrame
  <2>2. CASE UNCHANGED row
    BY <1>1, <1>4, <2>1, <2>2, RaiseWires
  <2>3. CASE PrepareCommit(j) /\ reply[j] = "eligible" /\ ~ThreadHasLive
    <3>1. ~InFlight(j)
      BY <1>0, <2>3, AnswerRead DEF PrepareCommit
    <3>2. Goto(j, "none")
      BY <1>4 DEF Raise, Over
    <3>3. \A k \in Jobs \ {j} : mcp'[k] = mcp[k] /\ row'[k] = row[k]
      BY <1>4, <2>3, RaiseOthers, TypeParts DEF Typed, RowType, PrepareCommit
    <3> QED
      BY <1>1, <2>1, <3>1, <3>2, <3>3, TaskWires
  <2> QED
    BY <1>4, <2>2, <2>3 DEF PrepareGoal, PrepareObserved, PrepareLocked, PrepareTurn, PrepareCommit, rowVars
<1>5. CASE (PrepareGoal(j) \/ PrepareObserved(j) \/ PrepareLocked(j) \/ PrepareTurn(j)) /\ ~Raise(j)
  <2>1. UNCHANGED <<row, mcp, down>> /\ op[j] # "none"
    BY <1>5 DEF PrepareGoal, PrepareObserved, PrepareLocked, PrepareTurn, rowVars, prepareFrame
  <2>2. ~InFlight(j)
    BY <1>0, <1>5, <2>1, AnswerRead
    DEF PrepareGoal, PrepareObserved, PrepareLocked, PrepareTurn, AtRest
  <2>3. \/ Goto(j, "observe") \/ Goto(j, "plock")
        \/ Call(j, "pturn", via[j], "turns/list") \/ Call(j, "pgoal", via[j], "goal/get")
    BY <1>5 DEF PrepareGoal, PrepareObserved, PrepareLocked, PrepareTurn
  <2>4. CASE Goto(j, "observe") \/ Goto(j, "plock")
    BY <1>1, <2>1, <2>2, <2>4, TaskWires
  <2>5. CASE Call(j, "pturn", via[j], "turns/list") \/ Call(j, "pgoal", via[j], "goal/get")
    <3>1. PICK pc \in {"pturn", "pgoal"}, c \in {"turns/list", "goal/get"} : Call(j, pc, via[j], c)
      BY <2>5
    <3>2. pc \notin AtRest /\ pc # "hinject" /\ c # "inject_items" /\ c \in BridgeCalls
      BY <3>1 DEF AtRest, BridgeCalls
    <3> QED
      BY <1>1, <2>1, <2>2, <3>1, <3>2, TaskWires
  <2> QED
    BY <2>3, <2>4, <2>5
<1>6. CASE PrepareCommit(j) /\ ~Raise(j)
  <2>1. Over(j) /\ reply[j] = "eligible" /\ op[j] = "pgoal" /\ down' = down
    BY <1>6 DEF PrepareCommit, prepareFrame
  <2>2. ~InFlight(j)
    BY <1>0, <2>1, AnswerRead
  <2>3. \A k \in Jobs \ {j} : mcp'[k] = mcp[k] /\ row'[k] = row[k]
    BY <1>6, TypeParts DEF Typed, McpType, RowType, PrepareCommit
  <2> QED
    BY <1>1, <2>1, <2>2, <2>3, TaskWires DEF Over
<1> QED
  BY <1>2, <1>3, <1>4, <1>5, <1>6

LEMMA GivenUpRow ==
  ASSUME TypeOK, NEW j \in Jobs, SessionFailed(j)
  PROVE  /\ row'[j].state \notin Live /\ row'[j].handoff = row[j].handoff
         /\ \A k \in Jobs \ {j} : row'[k] = row[k]
BY FailedRow DEF GivenUp, Live

LEMMA HandoffFailsWires ==
  ASSUME TypeOK, \A k \in Jobs : WireInv(k), NEW j \in Jobs, JobInv(j), op[j] \in HandoffPCs,
         HandoffFails(j), UNCHANGED <<down, receipts>>
  PROVE  \A k \in Jobs : WireInv(k)'
<1>1. mcp[j] = "handoff"
  BY DEF JobInv, TaskShape
<1>2. mcp'[j] = "abort" /\ \A k \in Jobs \ {j} : mcp'[k] = mcp[k]
  BY <1>1, TypeParts DEF Typed, McpType, HandoffFails
<1>3. SessionFailed(j) /\ Goto(j, "none")
  BY DEF HandoffFails, Over
<1> QED
  BY <1>2, <1>3, GivenUpRow, TaskWires

LEMMA DeliverFailsWires ==
  ASSUME TypeOK, \A k \in Jobs : WireInv(k), NEW j \in Jobs, JobInv(j), op[j] \in DeliverPCs,
         DeliverFails(j), UNCHANGED <<down, receipts, mcp>>
  PROVE  \A k \in Jobs : WireInv(k)'
<1>1. mcp[j] \notin {"idle", "started"}
  BY DEF JobInv, TaskShape, DeliverPCs
<1>2. SessionFailed(j) /\ Goto(j, "none")
  BY DEF DeliverFails, Over
<1> QED
  BY <1>1, <1>2, GivenUpRow, TaskWires

LEMMA HandoffWires ==
  ASSUME TypeOK, \A k \in Jobs : WireInv(k), NEW j \in Jobs, JobInv(j), Handoff(j) \/ HandoffSteps(j)
  PROVE  \A k \in Jobs : WireInv(k)'
<1> USE DEF HandoffSteps, HandoffStep
<1>0. Awaited(j)
  BY DEF WireInv
<1>1. UNCHANGED <<receipts, down>>
  BY DEF Handoff, HandoffLocked, HandoffGoal, HandoffInterrupted, HandoffDone, HandoffTurn, HandoffConfirm,
         HandoffReceipt, handoffFrame
<1>2. CASE Handoff(j) /\ LiveSession(j) /\ Owned(j)
  <2>1. Goto(j, "hlock") /\ row' = row /\ mcp[j] = "started" /\ mcp' = [mcp EXCEPT ![j] = "handoff"]
    BY <1>2 DEF Handoff, rowVars
  <2>2. op[j] = "none" /\ reply[j] = "none"
    BY <1>0, <2>1 DEF JobInv, TaskShape, Awaited, AtRest
  <2>3. ~InFlight(j)
    BY <1>0, <2>1, <2>2, NothingInFlight
  <2>4. \A k \in Jobs \ {j} : mcp'[k] = mcp[k]
    BY <2>1, TypeParts DEF Typed, McpType
  <2> QED
    BY <1>1, <2>1, <2>3, <2>4, TaskWires
<1>3. CASE Handoff(j) /\ ~(LiveSession(j) /\ Owned(j))
  <2>1. UNCHANGED <<op, reply, up, row>> /\ mcp' = [mcp EXCEPT ![j] = "abort"]
    BY <1>3 DEF Handoff, HandoffRefused, rowVars
  <2>2. \A k \in Jobs : mcp'[k] = mcp[k] \/ mcp'[k] = "abort"
    BY <2>1, TypeParts DEF Typed, McpType
  <2>3. \A k \in Jobs : WireSame(k)
    BY <1>1, <2>1, <2>2 DEF WireSame
  <2>4. \A k \in Jobs : Less(k)
    BY <1>1, <2>1, StayWires
  <2> QED
    BY <2>3, <2>4, WireSameInv
<1>4. CASE HandoffSteps(j) /\ HandoffFails(j)
  <2>1. op[j] \in HandoffPCs
    BY <1>4 DEF HandoffLocked, HandoffGoal, HandoffInterrupted, HandoffDone, HandoffTurn, HandoffConfirm,
                HandoffReceipt, HandoffPCs
  <2> QED
    BY <1>1, <1>4, <2>1, HandoffFailsWires
<1>5. CASE HandoffSteps(j) /\ ~HandoffFails(j)
  <2>1. op[j] # "none"
    BY <1>5 DEF HandoffLocked, HandoffGoal, HandoffInterrupted, HandoffDone, HandoffTurn, HandoffConfirm,
                HandoffReceipt
  <2>2. ~InFlight(j)
    <3>1. op[j] \in AtRest \/ reply[j] \notin {"wait", "error"}
      BY <1>5 DEF HandoffLocked, HandoffGoal, HandoffInterrupted, HandoffDone, HandoffTurn, HandoffConfirm,
                  HandoffReceipt, MayInterrupt, MayRecord, AtRest
    <3> QED
      BY <1>0, <2>1, <3>1, AnswerRead
  <2>3. \A k \in Jobs \ {j} : row'[k] = row[k]
    <3>1. row' = row \/ \E h : row' = [row EXCEPT ![j].handoff = h]
      BY <1>5 DEF rowVars, HandoffLocked, HandoffGoal, HandoffInterrupted, HandoffDone, HandoffTurn,
                  HandoffConfirm, HandoffReceipt
    <3> QED
      BY <3>1, RowFields
  <2>4. \A k \in Jobs \ {j} : mcp'[k] = mcp[k]
    BY <1>5, TypeParts DEF Typed, McpType, HandoffLocked, HandoffGoal, HandoffInterrupted, HandoffDone,
                           HandoffTurn, HandoffConfirm, HandoffReceipt
  <2>5. \/ \E pc \in {"hdone", "none", "dstart"} : Goto(j, pc)
        \/ \E pc \in {"hgoal", "hturn", "hconf", "hint"}, c \in {"goal/get", "turns/list", "turn/interrupt"} :
             Call(j, pc, via[j], c)
        \/ HandoffConfirm(j)
    BY <1>5 DEF HandoffLocked, HandoffGoal, HandoffInterrupted, HandoffDone, HandoffTurn, HandoffReceipt,
                AfterReceipt
  <2>6. CASE \E pc \in {"hdone", "none", "dstart"} : Goto(j, pc)
    BY <1>1, <2>2, <2>3, <2>4, <2>6, TaskWires
  <2>7. CASE \E pc \in {"hgoal", "hturn", "hconf", "hint"}, c \in {"goal/get", "turns/list", "turn/interrupt"} :
               Call(j, pc, via[j], c)
    <3>1. PICK pc \in {"hgoal", "hturn", "hconf", "hint"}, c \in {"goal/get", "turns/list", "turn/interrupt"} :
            Call(j, pc, via[j], c)
      BY <2>7
    <3>2. pc \notin AtRest /\ pc # "hinject" /\ c # "inject_items" /\ c \in BridgeCalls
      BY <3>1 DEF AtRest, BridgeCalls
    <3> QED
      BY <1>1, <2>2, <2>3, <2>4, <3>1, <3>2, TaskWires
  <2>8. CASE HandoffConfirm(j)
    <3>1. /\ op[j] = "hconf" /\ Call(j, "hinject", via[j], "inject_items")
          /\ row' = [row EXCEPT ![j].handoff = "recording_receipt"]
      BY <1>5, <2>8 DEF HandoffConfirm
    <3>2. row'[j].handoff = "recording_receipt"
      BY <3>1, RowFields
    <3>3. receipts[j] = 0
      BY <3>1 DEF JobInv, TaskShape, Counted
    <3>4. "hinject" \notin AtRest /\ "inject_items" \in BridgeCalls
      BY DEF AtRest, BridgeCalls
    <3> QED
      BY <1>1, <2>2, <2>3, <2>4, <3>1, <3>2, <3>3, <3>4, TaskWires
  <2> QED
    BY <2>5, <2>6, <2>7, <2>8
<1> QED
  BY <1>2, <1>3, <1>4, <1>5

LEMMA DeliverWires ==
  ASSUME TypeOK, \A k \in Jobs : WireInv(k), NEW j \in Jobs, JobInv(j), DeliverSteps(j)
  PROVE  \A k \in Jobs : WireInv(k)'
<1> USE DEF DeliverSteps
<1>0. Awaited(j)
  BY DEF WireInv
<1>1. UNCHANGED <<mcp, receipts, down>> /\ op[j] \in DeliverPCs
  BY DEF DeliverStart, DeliverLocked, DeliverGoal, DeliverTurn, DeliverWoken, DeliverUnwind, deliverFrame,
         mcpVars, DeliverPCs
<1>2. mcp[j] \notin {"idle", "started"} /\ row[j].handoff = "ready" /\ row[j].state \in {"terminal"} \cup Retired
  BY <1>1 DEF JobInv, TaskShape, DeliverPCs
<1>3. CASE DeliverFails(j)
  BY <1>1, <1>3, DeliverFailsWires
<1>4. CASE DeliverUnwind(j)
  <2>1. row[j].state \notin Live /\ row' = row /\ Goto(j, "none")
    BY <1>4 DEF DeliverUnwind, Live, rowVars, Over
  <2> QED
    BY <1>1, <1>2, <2>1, TaskWires
<1>5. CASE DeliverWoken(j) /\ ~DeliverFails(j)
  <2>1. row' = SetRow(j, "delivered", "resumed") /\ Goto(j, "none")
    BY <1>5 DEF DeliverWoken, Over
  <2>2. /\ row'[j].state \notin Live /\ row'[j].handoff = row[j].handoff
        /\ \A k \in Jobs \ {j} : row'[k] = row[k]
    BY <2>1, RowFields DEF Live
  <2> QED
    BY <1>1, <1>2, <2>1, <2>2, TaskWires
<1>6. CASE (DeliverStart(j) \/ DeliverLocked(j) \/ DeliverGoal(j) \/ DeliverTurn(j)) /\ ~DeliverFails(j)
  <2>1. ~InFlight(j)
    <3>1. op[j] \in AtRest \/ reply[j] \notin {"wait", "error"}
      BY <1>6 DEF DeliverStart, DeliverLocked, DeliverGoal, DeliverTurn, MayWake, AtRest
    <3> QED
      BY <1>0, <1>1, <3>1, AnswerRead DEF DeliverPCs
  <2>2. \A k \in Jobs \ {j} : row'[k] = row[k]
    <3>1. row' = row \/ row' = [row EXCEPT ![j].delivery = "activating"]
      BY <1>6 DEF DeliverStart, DeliverLocked, DeliverGoal, DeliverTurn, rowVars
    <3> QED
      BY <3>1, TypeParts DEF Typed, RowType
  <2>3. \/ \E pc \in {"dlock", "none"} : Goto(j, pc)
        \/ \E pc \in {"dgoal", "dturn", "dwake"}, c \in {"goal/get", "turns/list", "turn/start"} :
             Call(j, pc, via[j], c)
    BY <1>6 DEF DeliverStart, DeliverLocked, DeliverGoal, DeliverTurn, Over
  <2>4. CASE \E pc \in {"dlock", "none"} : Goto(j, pc)
    BY <1>1, <2>1, <2>2, <2>4, TaskWires
  <2>5. CASE \E pc \in {"dgoal", "dturn", "dwake"}, c \in {"goal/get", "turns/list", "turn/start"} :
               Call(j, pc, via[j], c)
    <3>1. PICK pc \in {"dgoal", "dturn", "dwake"}, c \in {"goal/get", "turns/list", "turn/start"} :
            Call(j, pc, via[j], c)
      BY <2>5
    <3>2. pc \notin AtRest /\ pc # "hinject" /\ c # "inject_items" /\ c \in BridgeCalls
      BY <3>1 DEF AtRest, BridgeCalls
    <3> QED
      BY <1>1, <2>1, <2>2, <3>1, <3>2, TaskWires
  <2> QED
    BY <2>3, <2>4, <2>5
<1> QED
  BY <1>3, <1>4, <1>5, <1>6

LEMMA TimeoutWires ==
  ASSUME TypeOK, \A k \in Jobs : WireInv(k), NEW j \in Jobs, JobInv(j), Timeout(j)
  PROVE  \A k \in Jobs : WireInv(k)'
<1>1. UNCHANGED <<down, receipts>>
  BY DEF Timeout
<1>2. CASE op[j] \in HandoffPCs /\ HandoffFails(j)
  BY <1>1, <1>2, HandoffFailsWires
<1>3. CASE op[j] \in DeliverPCs /\ DeliverFails(j) /\ UNCHANGED mcp
  BY <1>1, <1>3, DeliverFailsWires
<1>4. CASE op[j] \in PreparePCs /\ Raise(j) /\ UNCHANGED rowVars
  BY <1>1, <1>4, RaiseWires DEF rowVars
<1> QED
  BY <1>2, <1>3, <1>4 DEF Timeout

\* A revocation or a failed lease keeps what the messages depend on.
LEMMA WithdrawnWire ==
  ASSUME NEW j \in Jobs, Withdrawn(j)
  PROVE  row'[j].handoff = row[j].handoff /\ (row'[j].state \in Live => row[j].state \in Live)
BY DEF Withdrawn, Live

LEMMA EndedWires ==
  ASSUME TypeOK, \A k \in Jobs : WireInv(k), NEW j \in Jobs, JobInv(j),
         Terminal(j) \/ Abort(j) \/ CancelWakeup(j) \/ ExpireAtDeadline(j)
  PROVE  \A k \in Jobs : WireInv(k)'
<1>1. UNCHANGED <<up, down, reply, receipts>>
  BY DEF Terminal, Abort, CancelWakeup, ExpireAtDeadline, mcpFrame, wires, histVars
<1>2. \A k \in Jobs : Less(k)
  BY <1>1, StayWires
<1>3. \A k \in Jobs : mcp'[k] = mcp[k] \/ mcp'[k] = "over"
  BY TypeParts DEF Typed, McpType, Terminal, Abort, CancelWakeup, ExpireAtDeadline
<1>4. CASE op' = op /\ \A k \in Jobs : /\ row'[k].handoff = row[k].handoff
                                       /\ row'[k].state \in Live => row[k].state \in Live
  <2>1. \A k \in Jobs : WireSame(k)
    BY <1>1, <1>3, <1>4 DEF WireSame
  <2> QED
    BY <1>2, <2>1, WireSameInv
<1>5. CASE Abort(j) \/ CancelWakeup(j)
  <2>1. op' = op /\ (AbandonForManualChange \/ row' = row)
    BY <1>5 DEF Abort, CancelWakeup, rowVars
  <2> QED
    BY <1>4, <2>1, AbandonRows, WithdrawnWire
<1>6. CASE ExpireAtDeadline(j)
  <2>1. op' = op /\ SessionFailed(j)
    BY <1>6 DEF ExpireAtDeadline
  <2> QED
    BY <1>4, <2>1, GivenUpRow
<1>7. CASE Terminal(j) /\ UNCHANGED <<row, op>>
  BY <1>4, <1>7
<1>8. CASE /\ row[j].state = "armed" /\ row' = SetRow(j, "terminal", "waiting_for_handoff")
           /\ op' = [op EXCEPT ![j] = IF TerminalDue(j) THEN "dstart" ELSE @]
  <2>1. row'[j].handoff = row[j].handoff /\ \A k \in Jobs \ {j} : row'[k] = row[k]
    BY <1>8, RowFields
  <2>2. /\ op'[j] = IF row[j].handoff = "ready" THEN "dstart" ELSE op[j]
        /\ \A k \in Jobs \ {j} : op'[k] = op[k]
    BY <1>8, TypeParts DEF Typed, TaskType, TerminalDue
  <2>3. \A k \in Jobs \ {j} : WireSame(k)
    BY <1>1, <1>3, <2>1, <2>2 DEF WireSame
  <2>4. CASE row[j].handoff # "ready"
    <3>1. WireSame(j)
      BY <1>1, <1>3, <1>8, <2>1, <2>2, <2>4 DEF WireSame, Live
    <3> QED
      BY <1>2, <2>3, <3>1, WireSameInv
  <2>5. CASE row[j].handoff = "ready"
    <3>1. op[j] = "none"
      <4>1. op[j] \in OpPCs
        BY TypeParts DEF Typed, TaskType
      <4> QED
        BY <1>8, <2>5, <4>1 DEF JobInv, TaskShape, OpPCs, PreparePCs, HandoffPCs, DeliverPCs, Retired
    <3>2. reply[j] = "none"
      BY <3>1 DEF WireInv, Awaited, AtRest
    <3>3. ~InFlight(j)
      BY <1>8, <3>2, NothingInFlight DEF WireInv, Live
    <3>4. WireInv(j)'
      BY <1>1, <1>2, <2>2, <2>5, <3>2, <3>3, WireIdleInv
    <3> QED
      BY <1>2, <2>3, <3>4, WireSameInv
  <2> QED
    BY <2>4, <2>5
<1> QED
  BY <1>5, <1>6, <1>7, <1>8 DEF Terminal

LEMMA ObserveWires ==
  ASSUME TypeOK, \A k \in Jobs : WireInv(k), NEW p \in Peers, Observe(p)
  PROVE  \A k \in Jobs : WireInv(k)'
<1>0. down[p] \in Seq(Events)
  BY TypeParts DEF Typed, WireType
<1>1. /\ UNCHANGED <<up, op, mcp, receipts>> /\ down[p] # <<>> /\ down' = [down EXCEPT ![p] = Tail(@)]
  BY DEF Observe, mcpVars, histVars
<1>2. \A k \in Jobs : Less(k)
  BY <1>1, StayWires
<1>3. PICK e \in Events : e = Head(down[p])
  BY <1>0, <1>1, SeqHead
<1>4. CASE reply' = reply /\ (AbandonForManualChange \/ row' = row)
  <2>1. \A k \in Jobs : row'[k].handoff = row[k].handoff /\ (row'[k].state \in Live => row[k].state \in Live)
    BY <1>4, AbandonRows, WithdrawnWire
  <2>2. \A k \in Jobs : WireSame(k)
    BY <1>1, <1>4, <2>1 DEF WireSame
  <2> QED
    BY <1>2, <2>2, WireSameInv
<1>5. CASE ObserveStarted(p, e) \/ ObserveCompleted(e)
  <2>1. reply' = reply /\ (AbandonForManualChange \/ row' = row)
    BY <1>5 DEF ObserveStarted, ObserveCompleted, UserActivity, rowVars
  <2> QED
    BY <1>4, <2>1
<1>6. CASE ObserveReply(e)
  <2>1. e[1] = "reply" /\ e[2] \in Jobs /\ e[3] \in Values /\ row' = row
    BY <1>6, EventForms DEF ObserveReply, rowVars
  <2>2. PICK j \in Jobs : e[2] = j
    BY <2>1
  <2>3. /\ reply'[j] = IF reply[j] = "wait" THEN e[3] ELSE reply[j]
        /\ \A k \in Jobs \ {j} : reply'[k] = reply[k]
    BY <1>6, <2>2, TypeParts DEF Typed, TaskType, ObserveReply
  <2>4. About(e, j)
    BY <2>1, <2>2 DEF About
  <2>5. WireInv(j)'
    BY <1>1, <1>3, <2>1, <2>3, <2>4, WireReplyInv
  <2>6. \A k \in Jobs \ {j} : WireSame(k)
    BY <1>1, <2>1, <2>3 DEF WireSame
  <2> QED
    BY <1>2, <2>5, <2>6, WireSameInv
<1> QED
  BY <1>3, <1>5, <1>6 DEF Observe

LEMMA UserWires ==
  ASSUME TypeOK, \A k \in Jobs : WireInv(k), NEW p \in Peers, ForwardMessage(p) \/ Disconnect(p) \/ OnGoalNote
  PROVE  \A k \in Jobs : WireInv(k)'
<1>1. UNCHANGED <<op, mcp, receipts>>
  BY DEF ForwardMessage, Disconnect, OnGoalNote, taskVars, mcpVars, histVars
<1>2. \A k \in Jobs : row'[k].handoff = row[k].handoff /\ (row'[k].state \in Live => row[k].state \in Live)
  <2>1. CASE AbandonForManualChange
    BY <2>1, AbandonRows, WithdrawnWire
  <2>2. CASE row' = [j \in Jobs |-> Abandoned(j)]
    <3>1. \A k \in Jobs : row[k] \in Row /\ row'[k] = Abandoned(k)
      BY <2>2, TypeParts DEF Typed, RowType
    <3> QED
      BY <3>1 DEF Abandoned, Row, Live
  <2> QED
    BY <2>1, <2>2 DEF ForwardMessage, Disconnect, OnGoalNote, UserActivity, rowVars
<1>3. \A k \in Jobs : reply'[k] = reply[k] \/ (reply[k] = "wait" /\ reply'[k] = "error")
  BY DEF ForwardMessage, Disconnect, OnGoalNote, taskVars
<1>4. \A k \in Jobs : Less(k)
  <2>1. CASE Disconnect(p) \/ OnGoalNote
    BY <2>1, StayWires DEF Disconnect, OnGoalNote, wires
  <2>2. CASE ForwardMessage(p)
    <3>0. \A q \in Peers : up[q] \in Seq(Requests) /\ down[q] \in Seq(Events)
      BY TypeParts DEF Typed, WireType
    <3>1. PICK m \in UserMessages : m = msg[p]
      BY <2>2, TypeParts DEF Typed, TuiType, ForwardMessage, Forwardable
    <3>2. UserRequest(m) \in Requests /\ \A k \in Jobs : ~About(UserRequest(m), k)
      BY MessageTypes DEF About, UserRequest, BridgeCalls
    <3>3. \A q \in Peers : up'[q] = up[q] \/ up'[q] = Append(up[q], UserRequest(m))
      BY <2>2, <3>1, TypeParts DEF Typed, WireType, ForwardMessage
    <3>4. \A q \in Peers, k \in Jobs : Fewer(up[q], up'[q], k)
      BY <3>0, <3>2, <3>3, FewerMessages
    <3>5. \A q \in Peers, k \in Jobs : Fewer(down[q], down'[q], k)
      BY <2>2, <3>0, FewerMessages DEF ForwardMessage
    <3> QED
      BY <3>4, <3>5 DEF Less
  <2> QED
    BY <2>1, <2>2
<1>5. \A k \in Jobs : WireSame(k)
  BY <1>1, <1>2, <1>3 DEF WireSame
<1> QED
  BY <1>4, <1>5, WireSameInv

LEMMA RestartWires ==
  ASSUME TypeOK, LeaseInv, \A k \in Jobs : WireInv(k), Restart
  PROVE  \A k \in Jobs : WireInv(k)'
<1>1. UNCHANGED <<up, receipts>> /\ down' = [p \in Peers |-> <<>>]
  BY DEF Restart, histVars
<1>2. \A k \in Jobs : Less(k)
  BY <1>1, StayWires
<1>3. ASSUME NEW j \in Jobs PROVE WireInv(j)'
  <2>1. op'[j] = "none" /\ reply'[j] = "none" /\ mcp'[j] = IF mcp[j] = "idle" THEN "idle" ELSE "over"
    BY DEF Restart
  <2>2. row'[j].handoff = row[j].handoff /\ row'[j].state \notin Live
    <3>1. row[j] \in Row /\ row'[j] = Recovered(j)
      BY TypeParts DEF Typed, RowType, Restart
    <3> QED
      BY <3>1 DEF Recovered, Row, Live
  <2>3. CASE mcp[j] # "idle"
    BY <1>1, <1>2, <2>1, <2>2, <2>3, WireEndsInv
  <2>4. CASE mcp[j] = "idle"
    <3>1. op[j] = "none" /\ reply[j] = "none"
      BY <2>4 DEF LeaseInv, JobInv, TaskShape, WireInv, Awaited, AtRest
    <3>2. ~InFlight(j)
      BY <2>4, <3>1, NothingInFlight DEF WireInv
    <3> QED
      BY <1>2, <2>1, <3>2, WireIdleInv
  <2> QED
    BY <2>3, <2>4
<1> QED
  BY <1>3

LEMMA OutsideWires ==
  ASSUME TypeOK, \A k \in Jobs : WireInv(k), UNCHANGED <<up, row, op, reply, mcp, receipts>>,
         down' = down \/ Publish(<<"completed", turn>>) \/ Publish(<<"tool", turn>>)
  PROVE  \A k \in Jobs : WireInv(k)'
<1>1. /\ <<"completed", turn>> \in Events /\ <<"completed", turn>>[1] = "completed"
      /\ <<"tool", turn>> \in Events /\ <<"tool", turn>>[1] = "tool"
  BY TypeParts, MessageTypes DEF Typed, AppType
<1>2. \A k \in Jobs : Less(k)
  BY <1>1, StayWires
<1>3. \A k \in Jobs : WireSame(k)
  BY DEF WireSame
<1> QED
  BY <1>2, <1>3, WireSameInv

-----------------------------------------------------------------------------
(* The inductive invariant holds                                           *)

LEMMA InitSession == Init => SessionInv
<1> SUFFICES ASSUME Init PROVE SessionInv
  OBVIOUS
<1> USE DEF Init
<1>1. OneLiveLease
  BY DEF OneLiveLease, Live
<1>2. ASSUME NEW j \in Jobs PROVE JobInv(j)
  <2>1. RowShape(j)
    BY DEF RowShape
  <2>2. TaskShape(j)
    BY DEF TaskShape, PreparePCs, HandoffPCs, DeliverPCs
  <2>3. Driven(j)
    BY DEF Driven, Revocable, Live, Retired
  <2>4. Counted(j)
    BY DEF Counted, BeforeWake
  <2> QED
    BY <2>1, <2>2, <2>3, <2>4 DEF JobInv
<1>3. ASSUME NEW j \in Jobs PROVE WireInv(j)
  <2>1. \A p \in Peers : up[p] = <<>> /\ down[p] = <<>>
    OBVIOUS
  <2>2. \A p \in Peers : ~Holds(up[p], j) /\ ~Holds(down[p], j) /\ Elems(up[p]) = {}
    BY <2>1, OneElem
  <2>3. OneMessage(j)
    BY <2>1, <2>2, OneElem DEF OneMessage
  <2>4. Awaited(j)
    BY <2>2 DEF Awaited, InFlight
  <2>5. Receipt(j)
    BY <2>2 DEF Receipt
  <2> QED
    BY <2>3, <2>4, <2>5 DEF WireInv
<1> QED
  BY <1>1, <1>2, <1>3 DEF SessionInv

LEMMA NextSession ==
  ASSUME TypeOK, SessionInv, [Next]_vars
  PROVE  SessionInv'
<1>0. LeaseInv /\ (\A j \in Jobs : JobInv(j) /\ WireInv(j) /\ Receipt(j))
  BY DEF SessionInv, LeaseInv, WireInv
<1>1. SUFFICES LeaseInv' /\ \A j \in Jobs : WireInv(j)'
  BY DEF SessionInv, LeaseInv
<1>2. CASE \/ TurnEnds \/ OtherItem \/ OutsideGoal \/ UNCHANGED vars
           \/ \E p \in Peers : Connect(p) \/ \E m \in UserOps : UserMessage(p, m)
  <2>1. /\ UNCHANGED <<row, leasePeer, deadline, op, via, reply, mcp, interrupts, wakes, receipts, touched, up>>
        /\ down' = down \/ Publish(<<"completed", turn>>) \/ Publish(<<"tool", turn>>)
    BY <1>2 DEF TurnEnds, OtherItem, OutsideGoal, Connect, UserMessage, vars, rowVars, taskVars, mcpVars, histVars, wires
  <2> QED
    BY <1>0, <2>1, QuietInv, OutsideWires
<1>3. CASE Restart
  BY <1>0, <1>3, RestartInv, RestartWires
<1>4. ASSUME NEW p \in Peers, Serve(p)
      PROVE  LeaseInv' /\ \A j \in Jobs : WireInv(j)'
  BY <1>0, <1>4, ServeInv, ServeWires
<1>5. ASSUME NEW p \in Peers, Observe(p)
      PROVE  LeaseInv' /\ \A j \in Jobs : WireInv(j)'
  BY <1>0, <1>5, ObserveInv, ObserveWires
<1>6. ASSUME NEW p \in Peers, ForwardMessage(p) \/ Disconnect(p) \/ OnGoalNote
      PROVE  LeaseInv' /\ \A j \in Jobs : WireInv(j)'
  BY <1>0, <1>6, ObserveInv, UserWires
<1>7. ASSUME NEW j \in Jobs,
             \/ StartJob(j) \/ PrepareGoal(j) \/ PrepareObserved(j) \/ PrepareLocked(j) \/ PrepareTurn(j)
             \/ PrepareCommit(j) \/ PrepareGivenUp(j)
      PROVE  LeaseInv' /\ \A k \in Jobs : WireInv(k)'
  BY <1>0, <1>7, PrepareInv, PrepareWires
<1>8. ASSUME NEW j \in Jobs, Handoff(j) \/ HandoffSteps(j)
      PROVE  LeaseInv' /\ \A k \in Jobs : WireInv(k)'
  BY <1>0, <1>8, HandoffInv, HandoffWires
<1>9. ASSUME NEW j \in Jobs, DeliverSteps(j)
      PROVE  LeaseInv' /\ \A k \in Jobs : WireInv(k)'
  BY <1>0, <1>9, DeliverInv, DeliverWires
<1>10. ASSUME NEW j \in Jobs, Terminal(j) \/ Abort(j) \/ CancelWakeup(j) \/ ExpireAtDeadline(j)
       PROVE  LeaseInv' /\ \A k \in Jobs : WireInv(k)'
  <2>1. LeaseInv'
    BY <1>0, <1>10, TerminalInv, EndedInv
  <2> QED
    BY <1>0, <1>10, <2>1, EndedWires
<1>11. ASSUME NEW j \in Jobs, Timeout(j)
       PROVE  LeaseInv' /\ \A k \in Jobs : WireInv(k)'
  BY <1>0, <1>11, TimeoutInv, TimeoutWires
<1>12. CASE OnGoalNote
  BY <1>6, <1>12, SessionAssumption
<1> QED
  BY <1>2, <1>3, <1>4, <1>5, <1>6, <1>7, <1>8, <1>9, <1>10, <1>11, <1>12
  DEF Next, TaskStep, LockStep, HandoffSteps, DeliverSteps

\* The inductive invariant: what the rows, the tasks, their counters and the
\* messages in flight say of one another (session_bridge.py:66-397 with the
\* pending calls of tui_proxy.py).
THEOREM SessionInvariant == Spec => []SessionInv
<1>1. Init => SessionInv
  BY InitSession
<1>2. TypeOK /\ SessionInv /\ [Next]_vars => SessionInv'
  BY NextSession
<1> QED
  BY <1>1, <1>2, TypeCorrect, PTL DEF Spec

\* At most one session lease of the thread is live: create_lease is refused
\* while another lease is, and nothing revives one that is over.
THEOREM OneLive == Spec => []OneLiveLease
<1>1. SessionInv => OneLiveLease
  BY DEF SessionInv
<1> QED
  BY <1>1, SessionInvariant, PTL

\* One interruption, then one receipt, then one continuation turn, at most:
\* a lost reply, a timeout or a restart of the coordinator repeats none of them.
THEOREM WakesAfterReceipt == Spec => []OneWakeAfterReceipt
<1>1. ASSUME TypeOK, SessionInv PROVE OneWakeAfterReceipt
  <2>1. ASSUME NEW j \in Jobs
        PROVE  interrupts[j] <= 1 /\ receipts[j] <= interrupts[j] /\ wakes[j] <= receipts[j]
    <3>1. interrupts[j] \in Nat /\ receipts[j] \in Nat /\ wakes[j] \in Nat /\ row[j].handoff \in Handoffs
      BY <1>1, TypeParts DEF Typed, HistType, RowType, Row
    <3>2. Counted(j)
      BY <1>1 DEF SessionInv, JobInv
    <3> QED
      BY <3>1, <3>2 DEF Counted, Handoffs
  <2> QED
    BY <2>1 DEF OneWakeAfterReceipt
<1> QED
  BY <1>1, SessionInvariant, TypeCorrect, PTL

\* A live lease has its deadline task, its handoff handler or its delivery task
\* to end it, and a lease that is over has released its connection.
THEOREM HasDriver == Spec => []LeaseHasDriver
<1>1. SessionInv => LeaseHasDriver
  BY DEF SessionInv, JobInv, Driven, LeaseHasDriver
<1> QED
  BY <1>1, SessionInvariant, PTL

\* Activity of the user while the wake was pending leaves the lease abandoned,
\* and no continuation turn is ever requested for it.
THEOREM UserRevokes == Spec => []UserActivityRevokes
<1>1. ASSUME SessionInv PROVE UserActivityRevokes
  <2>1. ASSUME NEW j \in Jobs, touched[j] PROVE row[j].state = "abandoned" /\ wakes[j] = 0
    <3>1. row[j].state = "abandoned"
      BY <1>1, <2>1 DEF SessionInv, JobInv, Driven
    <3>2. wakes[j] = 0
      BY <1>1, <3>1 DEF SessionInv, JobInv, RowShape, Counted
    <3> QED
      BY <3>1, <3>2
  <2> QED
    BY <2>1 DEF UserActivityRevokes
<1> QED
  BY <1>1, SessionInvariant, PTL

-----------------------------------------------------------------------------
(* A lease that is over                                                    *)

StaysRetired(k) ==
  row[k].state \in Retired =>
    \/ row'[k] = row[k] /\ wakes'[k] = wakes[k]
    \/ row[k].state = "failed" /\ row'[k].state = "delivered" /\ op[k] = "dwake"

\* What touches a row: a revocation, a failure, or its own job's progress.
LEMMA RetiredKept ==
  ASSUME TypeOK
  PROVE  /\ AbandonForManualChange /\ wakes' = wakes => \A k \in Jobs : StaysRetired(k)
         /\ UNCHANGED <<row, wakes>> => \A k \in Jobs : StaysRetired(k)
         /\ \A j \in Jobs : SessionFailed(j) /\ wakes' = wakes => \A k \in Jobs : StaysRetired(k)
         /\ \A j \in Jobs : /\ row[j].state \notin Retired
                            /\ \A k \in Jobs \ {j} : row'[k] = row[k] /\ wakes'[k] = wakes[k]
                            => \A k \in Jobs : StaysRetired(k)
<1>1. ASSUME AbandonForManualChange, wakes' = wakes, NEW k \in Jobs PROVE StaysRetired(k)
  <2>1. Withdrawn(k)
    BY <1>1, AbandonRows
  <2> QED
    BY <1>1, <2>1 DEF StaysRetired, Withdrawn, Revocable, Live, Retired
<1>2. UNCHANGED <<row, wakes>> => \A k \in Jobs : StaysRetired(k)
  BY DEF StaysRetired
<1>3. ASSUME NEW j \in Jobs, SessionFailed(j), wakes' = wakes, NEW k \in Jobs PROVE StaysRetired(k)
  <2>1. GivenUp(j) /\ \A i \in Jobs \ {j} : row'[i] = row[i]
    BY <1>3, FailedRow
  <2> QED
    BY <1>3, <2>1 DEF StaysRetired, GivenUp, Live, Retired
<1>4. ASSUME NEW j \in Jobs, row[j].state \notin Retired,
             \A k \in Jobs \ {j} : row'[k] = row[k] /\ wakes'[k] = wakes[k], NEW k \in Jobs
      PROVE  StaysRetired(k)
  BY <1>4 DEF StaysRetired
<1> QED
  BY <1>1, <1>2, <1>3, <1>4

LEMMA RetiredStep ==
  ASSUME TypeOK, LeaseInv, [Next]_vars
  PROVE  \A k \in Jobs : StaysRetired(k)
<1>1. CASE UNCHANGED <<row, wakes>>
  BY <1>1, RetiredKept
<1>2. CASE Restart
  <2>1. ASSUME NEW k \in Jobs PROVE StaysRetired(k)
    <3>1. row'[k] = Recovered(k) /\ wakes' = wakes
      BY <1>2 DEF Restart, histVars
    <3> QED
      BY <3>1 DEF StaysRetired, Recovered, Live, Retired
  <2> QED
    BY <2>1
<1>3. ASSUME NEW p \in Peers, Observe(p) \/ ForwardMessage(p) \/ OnGoalNote
      PROVE  \A k \in Jobs : StaysRetired(k)
  <2>1. wakes' = wakes /\ (AbandonForManualChange \/ row' = row)
    BY <1>3 DEF Observe, ObserveStarted, ObserveCompleted, ObserveReply, ForwardMessage, OnGoalNote,
                UserActivity, histVars, rowVars
  <2> QED
    BY <2>1, RetiredKept
<1>4. ASSUME NEW p \in Peers, Disconnect(p) PROVE \A k \in Jobs : StaysRetired(k)
  <2>1. wakes' = wakes /\ (row' = row \/ row' = [j \in Jobs |-> Abandoned(j)])
    BY <1>4 DEF Disconnect, rowVars
  <2>2. CASE row' = [j \in Jobs |-> Abandoned(j)]
    BY <2>1, <2>2 DEF StaysRetired, Abandoned, Revocable, Live, Retired
  <2> QED
    BY <2>1, <2>2, RetiredKept
<1>5. ASSUME NEW j \in Jobs, PrepareCommit(j) PROVE \A k \in Jobs : StaysRetired(k)
  <2>1. row[j].state \notin Retired
    BY <1>5 DEF LeaseInv, JobInv, TaskShape, PrepareCommit, PreparePCs, Retired
  <2>2. wakes' = wakes /\ \A k \in Jobs \ {j} : row'[k] = row[k]
    BY <1>5, TypeParts DEF Typed, RowType, PrepareCommit, prepareFrame, histVars, rowVars
  <2> QED
    BY <2>1, <2>2, RetiredKept
<1>6. ASSUME NEW j \in Jobs, HandoffSteps(j) PROVE \A k \in Jobs : StaysRetired(k)
  <2> USE DEF HandoffSteps, HandoffStep
  <2>1. wakes' = wakes
    BY <1>6 DEF HandoffLocked, HandoffGoal, HandoffInterrupted, HandoffDone, HandoffTurn, HandoffConfirm,
                HandoffReceipt
  <2>2. \/ row' = row \/ HandoffFails(j)
        \/ row[j].state \in Live /\ \E h : row' = [row EXCEPT ![j].handoff = h]
    BY <1>6 DEF HandoffLocked, HandoffGoal, HandoffInterrupted, HandoffDone, HandoffTurn, HandoffConfirm,
                HandoffReceipt, rowVars, MayInterrupt, MayRecord, LiveSession
  <2>3. CASE row[j].state \in Live /\ \E h : row' = [row EXCEPT ![j].handoff = h]
    <3>1. row[j].state \notin Retired /\ \A k \in Jobs \ {j} : row'[k] = row[k]
      BY <2>3, RowFields DEF Live, Retired
    <3> QED
      BY <2>1, <3>1, RetiredKept
  <2> QED
    BY <2>1, <2>2, <2>3, RetiredKept DEF HandoffFails
<1>7. ASSUME NEW j \in Jobs, DeliverSteps(j) PROVE \A k \in Jobs : StaysRetired(k)
  <2> USE DEF DeliverSteps
  <2>1. CASE DeliverTurn(j) /\ MayWake(j)
    <3>1. row[j].state \notin Retired
      BY <2>1 DEF MayWake, LiveSession, Live, Retired
    <3>2. \A k \in Jobs \ {j} : row'[k] = row[k]
      BY <2>1, TypeParts DEF Typed, RowType, DeliverTurn
    <3>3. \A k \in Jobs \ {j} : wakes'[k] = wakes[k]
      BY <2>1, TypeParts DEF Typed, HistType, DeliverTurn
    <3> QED
      BY <3>1, <3>2, <3>3, RetiredKept
  <2>2. CASE DeliverWoken(j) /\ reply[j] = "ok"
    <3>1. /\ op[j] = "dwake" /\ row'[j].state = "delivered" /\ wakes' = wakes
          /\ \A k \in Jobs \ {j} : row'[k] = row[k]
      BY <2>2, RowFields DEF DeliverWoken
    <3>2. row[j].state \in Retired => row[j].state = "failed"
      BY <3>1 DEF LeaseInv, JobInv, RowShape, TaskShape, Retired
    <3> QED
      BY <3>1, <3>2 DEF StaysRetired
  <2>3. CASE ~(DeliverTurn(j) /\ MayWake(j)) /\ ~(DeliverWoken(j) /\ reply[j] = "ok")
    <3>1. wakes' = wakes /\ (row' = row \/ SessionFailed(j))
      BY <1>7, <2>3 DEF DeliverStart, DeliverLocked, DeliverGoal, DeliverTurn, DeliverWoken, DeliverUnwind,
                        DeliverFails, rowVars
    <3> QED
      BY <3>1, RetiredKept
  <2> QED
    BY <2>1, <2>2, <2>3
<1>8. ASSUME NEW j \in Jobs, Abort(j) \/ CancelWakeup(j) \/ ExpireAtDeadline(j) \/ Timeout(j)
      PROVE  \A k \in Jobs : StaysRetired(k)
  <2>1. wakes' = wakes /\ (AbandonForManualChange \/ row' = row \/ SessionFailed(j))
    BY <1>8 DEF Abort, CancelWakeup, ExpireAtDeadline, Timeout, mcpFrame, histVars, rowVars, HandoffFails,
                DeliverFails
  <2> QED
    BY <2>1, RetiredKept
<1>9. ASSUME NEW j \in Jobs, Terminal(j) PROVE \A k \in Jobs : StaysRetired(k)
  <2>1. wakes' = wakes /\ (row' = row \/ (row[j].state = "armed" /\ row' = SetRow(j, "terminal", "waiting_for_handoff")))
    BY <1>9 DEF Terminal, mcpFrame, histVars
  <2>2. CASE row[j].state = "armed" /\ row' = SetRow(j, "terminal", "waiting_for_handoff")
    <3>1. row[j].state \notin Retired /\ \A k \in Jobs \ {j} : row'[k] = row[k]
      BY <2>2, RowFields DEF Retired
    <3> QED
      BY <2>1, <3>1, RetiredKept
  <2> QED
    BY <2>1, <2>2, RetiredKept
<1>10. CASE \/ TurnEnds \/ OtherItem \/ OutsideGoal \/ UNCHANGED vars
            \/ \E p \in Peers : Serve(p) \/ Connect(p) \/ \E m \in UserOps : UserMessage(p, m)
  BY <1>1, <1>10 DEF TurnEnds, OtherItem, OutsideGoal, Serve, Connect, UserMessage, vars, rowVars, histVars
<1>11. ASSUME NEW j \in Jobs,
              \/ StartJob(j) \/ PrepareGoal(j) \/ PrepareObserved(j) \/ PrepareLocked(j) \/ PrepareTurn(j)
              \/ PrepareGivenUp(j) \/ Handoff(j)
       PROVE  \A k \in Jobs : StaysRetired(k)
  BY <1>1, <1>11 DEF StartJob, PrepareGoal, PrepareObserved, PrepareLocked, PrepareTurn, PrepareGivenUp,
                     Handoff, prepareFrame, rowVars, histVars
<1>12. CASE OnGoalNote
  BY <1>3, <1>12, SessionAssumption
<1> QED
  BY <1>2, <1>3, <1>4, <1>5, <1>6, <1>7, <1>8, <1>9, <1>10, <1>11, <1>12
  DEF Next, TaskStep, LockStep, HandoffSteps, DeliverSteps

\* A delivered, abandoned or failed lease is never used again; the one exception
\* is the lease failed by its deadline while turn/start was in flight, recorded
\* as delivered when the turn's start is confirmed (session_bridge.py:342).
THEOREM RetiredStays == Spec => RetiredStaysRetired
<1>1. TypeOK /\ SessionInv /\ [Next]_vars =>
        [\A j \in Jobs : row[j].state \in Retired =>
           \/ row'[j] = row[j] /\ wakes'[j] = wakes[j]
           \/ row[j].state = "failed" /\ row'[j].state = "delivered" /\ op[j] = "dwake"]_vars
  <2> SUFFICES ASSUME TypeOK, SessionInv, [Next]_vars
               PROVE  \A j \in Jobs : row[j].state \in Retired =>
                        \/ row'[j] = row[j] /\ wakes'[j] = wakes[j]
                        \/ row[j].state = "failed" /\ row'[j].state = "delivered" /\ op[j] = "dwake"
    OBVIOUS
  <2>1. LeaseInv
    BY DEF SessionInv, LeaseInv
  <2> QED
    BY <2>1, RetiredStep DEF StaysRetired
<1> QED
  BY <1>1, SessionInvariant, TypeCorrect, PTL DEF Spec, RetiredStaysRetired

=============================================================================
