----------------------- MODULE CommandDeliveryProofs -----------------------
(***************************************************************************)
(* What holds of CommandDelivery for any deployments, any requests in any  *)
(* order, and any number of faults, proved.                                *)
(***************************************************************************)
EXTENDS CommandDelivery, RedisListsProofs

(***************************************************************************)
(* The inductive invariant.  Of Redis two things count: which commands the *)
(* script has published, and which still have a copy somewhere.            *)
(***************************************************************************)
Sent(c) == Queue!Published(c)
Copy(c) == Queue!Queued(c) \/ Queue!Processing(c) \/ Queue!InTransit(c)
Registers == Commands \cup {None}

\* Whatever has a key, or is in a list or a register, was published.
RedisOK ==
    /\ {stream, queue, processing} \subseteq Seq(Commands)
    /\ held \in Registers /\ lifted \in Registers /\ returning = None
    /\ \A c \in marker : Sent(c)
    /\ \A c \in Commands : Copy(c) => Sent(c)

Deployment ==
    [status : ActiveStatuses \cup TerminalStatuses \cup {"absent"}, seq : Nat]
Row == [status : RowStatuses, sid : BOOLEAN]
Known(d) == dep[d].status # "absent"
Written(c) == row[c].status # "absent"

TablesOK ==
    /\ dep \in [Deployments -> Deployment]
    /\ row \in [Commands -> Row]
    /\ events \subseteq Commands
    /\ gone \subseteq Commands

\* A START is of a deployment that exists, a published command has its row, and an
\* open row its copy, once its command is published.
RowsOK ==
    /\ \A d \in Deployments : Written(Start(d)) => Known(d)
    /\ \A c \in Commands : Sent(c) => Written(c)
    /\ \A c \in Commands : row[c].status \in {"queued", "dispatched"} \/ row[c].sid => Sent(c)
    /\ \A c \in Commands : Open(c) /\ Sent(c) => Copy(c) \/ c \in gone

\* What a request has done by the time it is at a step: a START's row is new when
\* it is written, and the script has run when a row is marked.
Fresh == {"create", "bump", "command"}
Steps == Fresh \cup {"idle", "guard", "drop", "publish", "mark", "flip", "offBump", "stop",
                    "stopPublish", "stopMark", "failDeployment", "failAccount", "cancel",
                    "cancelBump", "fallback", "done"}
RequestState ==
    [pc : Steps, dep : Deployments \cup {None},
     flow : {"none", "start", "off", "cancel", "fallback"}, seq : Nat]

Ready(pc, d) ==
    /\ pc \notin {"idle", "done"} => d \in Deployments
    /\ pc \notin {"idle", "done", "create"} => Known(d)
    /\ pc \in Fresh => ~Written(Start(d))
    /\ pc \in {"guard", "drop", "publish", "mark"} => Written(Start(d))
    /\ pc = "mark" => Sent(Start(d))
    /\ pc \in {"stopPublish", "stopMark"} => Written(Stop(d))
    /\ pc = "stopMark" => Sent(Stop(d))

RequestsOK ==
    /\ req \in [Requests -> RequestState]
    /\ \A r \in Requests : Ready(req[r].pc, req[r].dep)
    /\ \A r, s \in Requests :
          req[r].pc \in Fresh /\ req[s].pc \in Fresh /\ req[r].dep = req[s].dep => r = s

\* The reconciler works on rows that exist, lifts what it names, and has given up
\* what it removes.
RecOK ==
    /\ rec \in [pc : {"idle", "replay", "replayMark", "requeue", "requeuePush",
                      "requeueMark", "remove", "removing", "failStart", "failDeployment"},
                todo : SUBSET Commands, cmd : Registers]
    /\ \A c \in rec.todo : Written(c)
    /\ ~(rec.pc \in {"idle", "replay", "requeue", "remove"}) =>
          rec.cmd \in Commands /\ Written(rec.cmd)
    /\ RecAt("replayMark") => Sent(rec.cmd)
    /\ RecAt("requeuePush") => lifted = rec.cmd
    /\ removing = Queue!NotRemoving \/ removing[1] \in gone

\* The runner holds what it popped until it is settled, and has let it go before
\* it posts an event.
Posting == {"emit", "stored", "started", "startedWrite", "finalize", "finalizeStarts",
            "finalizeTerminal"}
RunnerOK ==
    /\ runner \in [pc : Posting \cup {"idle", "popped", "reported", "acknowledged",
                                      "failed", "failedAck"}, cmd : Registers]
    /\ RunnerAt("idle") <=> runner.cmd = None
    /\ runner.cmd # None => Sent(runner.cmd)
    /\ held # None => held = runner.cmd /\ (Copy(held) \/ held \in gone)
    /\ RunnerAt("popped") => held = runner.cmd
    /\ runner.pc \in Posting => held = None
    /\ runner.pc \in {"acknowledged", "failedAck"} => Settled(runner.cmd)

IInv == RedisOK /\ TablesOK /\ RowsOK /\ RequestsOK /\ RecOK /\ RunnerOK

----------------------------------------------------------------------------
(* Redis.                                                                  *)

\* The lists of the instance are Redis lists.
LEMMA SameLists ==
    /\ \A c, s : /\ Queue!In(c, s) <=> In(c, s)
                 /\ Queue!LPush(c, s) = LPush(c, s)
                 /\ Queue!RPush(s, c) = RPush(s, c)
                 /\ Queue!LRem(s, c) = LRem(s, c)
    /\ \A s : Queue!RPop(s) = RPop(s)
BY DEF Queue!In, In, Queue!LPush, LPush, Queue!RPush, RPush, Queue!LRem, LRem,
       Queue!RPop, RPop, Queue!RemoveFirst, RemoveFirst, Queue!RemoveAt, RemoveAt,
       Queue!SelectInSeq, SelectInSeq, Queue!Min, Min

\* A command is published if it is in the stream, and has a copy if it is in one
\* of the lists or registers.
LEMMA Places ==
    /\ \A c : Sent(c) <=> In(c, stream)
    /\ \A c : Copy(c) <=> In(c, queue) \/ In(c, processing) \/ lifted = c \/ returning = c
    /\ \A c : Sent(c)' <=> In(c, stream')
    /\ \A c : Copy(c)' <=> \/ In(c, queue') \/ In(c, processing')
                           \/ lifted' = c \/ returning' = c
BY DEF Sent, Copy, Queue!Published, Queue!Queued, Queue!Processing, Queue!InTransit,
       Queue!In, In

\* Redis keeps what was published and every copy but those of c.
KeepsAllBut(c) ==
    /\ RedisOK'
    /\ \A d \in Commands : Sent(d)' <=> Sent(d)
    /\ \A d \in Commands : Copy(d) /\ d # c => Copy(d)'

\* What is left untouched keeps everything.
LEMMA RedisSame ==
    ASSUME RedisOK, UNCHANGED redis
    PROVE  KeepsAllBut(None)
<1>1. \A d : (Sent(d)' <=> Sent(d)) /\ (Copy(d)' <=> Copy(d))
  BY Places DEF redis
<1> QED BY <1>1 DEF KeepsAllBut, RedisOK, redis

\* One evaluation of the script: the command is published, and has a copy if it
\* was not before.
LEMMA EvaluateEffect ==
    ASSUME RedisOK, NEW c \in Commands, Evaluate(c)
    PROVE  /\ RedisOK'
           /\ \A d \in Commands : Sent(d)' <=> Sent(d) \/ d = c
           /\ \A d \in Commands : Copy(d) => Copy(d)'
           /\ ~Sent(c) => Copy(c)'
           /\ UNCHANGED <<held, returning, lifted, removing>>
<1>1. CASE Queue!AlreadyPublished(c) /\ UNCHANGED redis
  <2>1. Sent(c)
    BY <1>1 DEF RedisOK, Queue!AlreadyPublished
  <2> QED BY <1>1, <2>1, RedisSame, DeliveryAssumption DEF KeepsAllBut, redis
<1>2. CASE Queue!Publish(c)
  <2>1. /\ stream' = RPush(stream, c) /\ queue' = LPush(c, queue)
        /\ marker' = marker \cup {c}
        /\ UNCHANGED <<processing, held, returning, lifted, removing>>
    BY <1>2, SameLists DEF Queue!Publish, RPush
  <2>2. {stream, queue, processing} \subseteq Seq(Commands)
    BY DEF RedisOK
  <2>3. stream' \in Seq(Commands) /\ \A d : In(d, stream') <=> d = c \/ In(d, stream)
    BY <2>1, <2>2, RPushList
  <2>4. queue' \in Seq(Commands) /\ \A d : In(d, queue') <=> d = c \/ In(d, queue)
    BY <2>1, <2>2, LPushList
  <2>5. /\ \A d : Sent(d)' <=> Sent(d) \/ d = c
        /\ \A d : Copy(d)' <=> Copy(d) \/ d = c
    BY <2>1, <2>3, <2>4, Places
  <2> QED BY <2>1, <2>2, <2>3, <2>4, <2>5 DEF RedisOK
<1> QED BY <1>1, <1>2 DEF Evaluate

\* The runner pops what was published, and has a copy in processing.
LEMMA PopEffect ==
    ASSUME RedisOK, Queue!Pop
    PROVE  /\ KeepsAllBut(None)
           /\ held = None
           /\ \E d \in Commands : held' = d /\ Sent(d) /\ Copy(d)'
           /\ UNCHANGED <<lifted, removing>>
<1>0. PICK last : last = queue[Len(queue)]
  OBVIOUS
<1>1. /\ queue # <<>> /\ held = None
      /\ held' = last /\ queue' = RPop(queue) /\ processing' = LPush(last, processing)
      /\ UNCHANGED <<stream, marker, returning, lifted, removing>>
  BY <1>0, SameLists DEF Queue!Pop, Queue!RunnerIdle
<1>2. {stream, queue, processing} \subseteq Seq(Commands)
  BY DEF RedisOK
<1>3. /\ last \in Commands /\ In(last, queue) /\ queue' \in Seq(Commands)
      /\ \A d : In(d, queue') => In(d, queue)
  BY <1>0, <1>1, <1>2, RPopList
<1>4. \A d : In(d, queue) /\ d # last => In(d, queue')
  BY <1>0, <1>1, <1>2, RPopKeeps
<1>5. /\ processing' \in Seq(Commands)
      /\ \A d : In(d, processing') <=> d = last \/ In(d, processing)
  BY <1>1, <1>2, <1>3, LPushList
<1>6. \A d : (Sent(d)' <=> Sent(d)) /\ (Copy(d)' <=> Copy(d))
  BY <1>1, <1>3, <1>4, <1>5, Places
<1>7. Copy(last)' /\ Sent(last)
  BY <1>3, <1>5, Places DEF RedisOK
<1>8. RedisOK'
  BY <1>1, <1>2, <1>3, <1>5, <1>6 DEF RedisOK, Registers
<1> QED BY <1>1, <1>3, <1>6, <1>7, <1>8 DEF KeepsAllBut

\* Taking a command out of a list loses no copy of another.
LEMMA TakeOut ==
    ASSUME RedisOK, NEW c,
           \/ queue' = LRem(queue, c) /\ UNCHANGED processing
           \/ processing' = LRem(processing, c) /\ UNCHANGED queue,
           held' \in Registers, lifted' \in {lifted, c} /\ lifted' \in Registers,
           lifted # None => lifted' = lifted,
           lifted' = lifted \/ Copy(lifted'),
           UNCHANGED <<stream, marker, returning>>
    PROVE  KeepsAllBut(c)
<1>1. {stream, queue, processing} \subseteq Seq(Commands)
  BY DEF RedisOK
<1>2. /\ queue' \in Seq(Commands) /\ processing' \in Seq(Commands)
      /\ \A d : In(d, queue') => In(d, queue)
      /\ \A d : In(d, processing') => In(d, processing)
  BY <1>1, LRemList
<1>3. /\ \A d : In(d, queue) /\ d # c => In(d, queue')
      /\ \A d : In(d, processing) /\ d # c => In(d, processing')
  BY <1>1, LRemKeeps
<1>4. \A d \in Commands : lifted = d => lifted' = d
  BY DeliveryAssumption DEF Registers
<1>5. /\ \A d : Sent(d)' <=> Sent(d)
      /\ \A d \in Commands : Copy(d) /\ d # c => Copy(d)'
      /\ \A d : Copy(d)' => Copy(d)
  BY <1>2, <1>3, <1>4, Places
<1>6. RedisOK'
  BY <1>1, <1>2, <1>5 DEF RedisOK
<1> QED BY <1>5, <1>6 DEF KeepsAllBut

\* The runner acknowledges: copies of what it held may go.
LEMMA AckEffect ==
    ASSUME RedisOK, Queue!Ack
    PROVE  KeepsAllBut(held) /\ held # None /\ held' = None /\ UNCHANGED <<lifted, removing>>
<1>1. /\ held # None /\ held' = None
      /\ processing' = LRem(processing, held)
      /\ UNCHANGED <<stream, marker, queue, returning, lifted, removing>>
  BY SameLists DEF Queue!Ack
<1> QED BY <1>1, TakeOut DEF RedisOK, Registers

\* A runner that dies forgets what it holds; nothing moves.
LEMMA RunnerCrashEffect ==
    ASSUME RedisOK, Queue!RunnerCrash
    PROVE  KeepsAllBut(None) /\ held' = None /\ UNCHANGED <<lifted, removing>>
<1>1. /\ held' = None /\ returning' = None
      /\ UNCHANGED <<stream, marker, queue, processing, lifted, removing>>
  BY DEF Queue!RunnerCrash
<1>2. \A d : (Sent(d)' <=> Sent(d)) /\ (d \in Commands => (Copy(d)' <=> Copy(d)))
  BY <1>1, Places, DeliveryAssumption DEF RedisOK
<1> QED BY <1>1, <1>2 DEF KeepsAllBut, RedisOK, Registers

\* A command lifted out of processing is in the reconciler's hands.
LEMMA LiftEffect ==
    ASSUME RedisOK, NEW c \in Commands, Queue!RequeueLift(c)
    PROVE  /\ KeepsAllBut(None)
           /\ lifted' = c /\ UNCHANGED <<held, removing>>
<1>1. /\ lifted = None /\ In(c, processing) /\ processing' = LRem(processing, c)
      /\ lifted' = c
      /\ UNCHANGED <<stream, marker, queue, held, returning, removing>>
  BY SameLists DEF Queue!RequeueLift, Queue!ReconcilerIdle
<1>2. KeepsAllBut(c)
  <2>1. Copy(c)
    BY <1>1, Places
  <2> QED BY <1>1, <2>1, TakeOut DEF RedisOK, Registers
<1>3. Copy(c)'
  BY <1>1, Places
<1> QED BY <1>1, <1>2, <1>3 DEF KeepsAllBut

\* ... and in the live list again once it is pushed.
LEMMA PushEffect ==
    ASSUME RedisOK, Queue!RequeuePush
    PROVE  KeepsAllBut(None) /\ lifted' = None /\ UNCHANGED <<held, removing>>
<1>1. /\ lifted # None /\ queue' = RPush(queue, lifted) /\ lifted' = None
      /\ UNCHANGED <<stream, marker, processing, held, returning, removing>>
  BY SameLists DEF Queue!RequeuePush
<1>2. {stream, queue, processing} \subseteq Seq(Commands) /\ lifted \in Commands
  BY <1>1 DEF RedisOK, Registers
<1>3. queue' \in Seq(Commands) /\ \A d : In(d, queue') <=> d = lifted \/ In(d, queue)
  BY <1>1, <1>2, RPushList
<1>4. \A d : (Sent(d)' <=> Sent(d)) /\ (d \in Commands => (Copy(d)' <=> Copy(d)))
  BY <1>1, <1>3, Places, DeliveryAssumption DEF RedisOK
<1> QED BY <1>1, <1>2, <1>3, <1>4 DEF KeepsAllBut, RedisOK, Registers

\* Between the two it may be lost.
LEMMA LostEffect ==
    ASSUME RedisOK, Queue!RequeueLost
    PROVE  /\ KeepsAllBut(lifted)
           /\ lifted \in Commands /\ lifted' = None /\ UNCHANGED <<held, removing>>
<1>1. /\ lifted # None /\ lifted' = None
      /\ UNCHANGED <<stream, marker, queue, processing, held, returning, removing>>
  BY DEF Queue!RequeueLost
<1>2. /\ \A d : Sent(d)' <=> Sent(d)
      /\ \A d \in Commands : Copy(d)' => Copy(d)
      /\ \A d \in Commands : Copy(d) /\ d # lifted => Copy(d)'
  BY <1>1, Places, DeliveryAssumption DEF RedisOK
<1> QED BY <1>1, <1>2 DEF KeepsAllBut, RedisOK, Registers

\* A removal touches no other command.
LEMMA RemoveEffect ==
    ASSUME RedisOK, Queue!RemoveQueued \/ Queue!RemoveProcessing
    PROVE  /\ KeepsAllBut(removing[1])
           /\ removing # Queue!NotRemoving
           /\ removing' = Queue!NotRemoving \/ removing'[1] = removing[1]
           /\ UNCHANGED <<held, lifted>>
<1>1. /\ \/ queue' = LRem(queue, removing[1]) /\ UNCHANGED processing
         \/ processing' = LRem(processing, removing[1]) /\ UNCHANGED queue
      /\ UNCHANGED <<stream, marker, returning, held, lifted>>
      /\ removing[2] = "queue" \/ removing[2] = "processing"
      /\ removing' \in {removing, <<removing[1], "processing">>, Queue!NotRemoving}
  BY SameLists DEF Queue!RemoveQueued, Queue!RemoveProcessing
<1>2. KeepsAllBut(removing[1])
  BY <1>1, TakeOut DEF RedisOK
<1> QED BY <1>1, <1>2 DEF Queue!NotRemoving

\* Beginning or giving up a removal moves nothing.
LEMMA RemovalMark ==
    ASSUME RedisOK, UNCHANGED <<stream, marker, queue, processing, held, returning, lifted>>
    PROVE  KeepsAllBut(None)
<1>1. \A d : (Sent(d)' <=> Sent(d)) /\ (Copy(d)' <=> Copy(d))
  BY Places
<1> QED BY <1>1 DEF KeepsAllBut, RedisOK

----------------------------------------------------------------------------
(* Rows.                                                                   *)

\* What becomes of a row in every step but three: it is not born, a settled row
\* stays settled and an open one was open, and what it says of Redis is true.
RowMoves(c) ==
    /\ row'[c] \in Row
    /\ Written(c)' <=> Written(c)
    /\ Settled(c) => Settled(c)'
    /\ Open(c)' => Open(c)
    /\ row'[c].status \in {"queued", "dispatched"} \/ row'[c].sid => Sent(c)

RowsMove == row' \in [Commands -> Row] /\ \A c \in Commands : RowMoves(c)

LEMMA SameRows ==
    ASSUME TablesOK, RowsOK, UNCHANGED row
    PROVE  RowsMove
BY DEF TablesOK, RowsOK, RowsMove, RowMoves, Written, Settled, Open

\* A row that is closed, or not, without anything else being written.
Closed(c, r) == r = row[c] \/ (Written(c) /\ \E s \in {"acknowledged", "failed"} :
                                  r = [row[c] EXCEPT !.status = s])

LEMMA ClosedRows ==
    ASSUME TablesOK, RowsOK, row' = [c \in Commands |-> row'[c]],
           \A c \in Commands : Closed(c, row'[c])
    PROVE  RowsMove
<1> SUFFICES ASSUME NEW c \in Commands PROVE RowMoves(c)
  BY DEF RowsMove, RowMoves
<1>1. row[c] \in Row
  BY DEF TablesOK
<1>2. CASE row'[c] = row[c]
  BY <1>1, <1>2 DEF RowMoves, RowsOK, Written, Settled, Open
<1>3. ASSUME Written(c), NEW s \in {"acknowledged", "failed"},
             row'[c] = [row[c] EXCEPT !.status = s]
      PROVE  RowMoves(c)
  <2>1. row'[c] \in Row /\ row'[c].status = s /\ row'[c].sid = row[c].sid
    BY <1>1, <1>3 DEF Row, RowStatuses
  <2> QED BY <1>1, <1>3, <2>1
          DEF RowMoves, RowsOK, Written, Settled, Open, OpenStatuses, Row
<1> QED BY <1>2, <1>3 DEF Closed

\* The statements on rows: each closes some or marks one.
LEMMA FailStartsMove ==
    ASSUME TablesOK, RowsOK, NEW D, FailStarts(D)
    PROVE  RowsMove
<1>1. \A c \in Commands : Closed(c, row'[c])
  BY DEF FailStarts, Closed, Open, OpenStatuses, Written
<1> QED BY <1>1, ClosedRows DEF FailStarts

LEMMA ReconcileTerminalMoves ==
    ASSUME TablesOK, RowsOK, NEW D, ReconcileTerminal(D)
    PROVE  RowsMove
<1>1. \A c \in Commands : Closed(c, row'[c])
  BY DEF ReconcileTerminal, Closed, Open, OpenStatuses, Written
<1> QED BY <1>1, ClosedRows DEF ReconcileTerminal

LEMMA SettleMoves ==
    ASSUME TablesOK, RowsOK, NEW c \in Commands, Written(c),
           NEW s \in {"acknowledged", "failed"}, UpdateDelivery(c, s)
    PROVE  RowsMove /\ Settled(c)'
<1>1. row' = [row EXCEPT ![c] = [row[c] EXCEPT !.status = s]] /\ row[c] \in Row
  BY DEF UpdateDelivery, TablesOK
<1>2. \A d \in Commands : Closed(d, row'[d])
  BY <1>1 DEF Closed, TablesOK
<1>3. row'[c].status = s
  BY <1>1 DEF TablesOK, Row
<1> QED BY <1>1, <1>2, <1>3, ClosedRows DEF TablesOK, Settled

LEMMA MarkMoves ==
    ASSUME TablesOK, RowsOK, NEW c \in Commands, Sent(c), MarkDelivery(c)
    PROVE  RowsMove
<1> DEFINE r == [status |-> IF row[c].status \in {"pending", "queued"} THEN "queued"
                            ELSE row[c].status,
                 sid |-> TRUE]
<1>1. row' = [row EXCEPT ![c] = r] /\ row[c] \in Row
  BY DEF MarkDelivery, TablesOK
<1>2. /\ r \in Row /\ r.status # "absent"
      /\ row[c].status \in {"acknowledged", "failed"} => r.status = row[c].status
      /\ r.status \in OpenStatuses => row[c].status \in OpenStatuses
  BY <1>1 DEF Row, RowStatuses, OpenStatuses, RowsOK, Written
<1> HIDE DEF r
<1>3. row' \in [Commands -> Row] /\ \A d \in Commands : row'[d] = IF d = c THEN r ELSE row[d]
  BY <1>1, <1>2 DEF TablesOK
<1>4. RowMoves(c)
  BY <1>2, <1>3 DEF RowMoves, RowsOK, Written, Settled, Open
<1>5. \A d \in Commands \ {c} : RowMoves(d)
  BY <1>3 DEF RowMoves, RowsOK, Written, Settled, Open
<1> QED BY <1>3, <1>4, <1>5 DEF RowsMove

LEMMA RequeueMarkMoves ==
    ASSUME TablesOK, RowsOK, NEW c \in Commands,
           row[c].status \in {"queued", "dispatched"}, UpdateDelivery(c, "queued")
    PROVE  RowsMove
<1> DEFINE r == [row[c] EXCEPT !.status = "queued"]
<1>1. row' = [row EXCEPT ![c] = r] /\ row[c] \in Row
  BY DEF UpdateDelivery, TablesOK
<1>2. r \in Row /\ r.status = "queued"
  BY <1>1 DEF Row, RowStatuses, OpenStatuses
<1> HIDE DEF r
<1>3. row' \in [Commands -> Row] /\ \A d \in Commands : row'[d] = IF d = c THEN r ELSE row[d]
  BY <1>1, <1>2 DEF TablesOK
<1>4. RowMoves(c)
  BY <1>2, <1>3 DEF RowMoves, RowsOK, Written, Settled, Open, OpenStatuses
<1>5. \A d \in Commands \ {c} : RowMoves(d)
  BY <1>3 DEF RowMoves, RowsOK, Written, Settled, Open
<1> QED BY <1>3, <1>4, <1>5 DEF RowsMove

----------------------------------------------------------------------------
(* Sound steps: what a process has made sure of stays so, whatever the     *)
(* others do.  All steps are, but those that write a new row and the       *)
(* runner's report of a popped command.                                    *)

Sound ==
    /\ RedisOK' /\ TablesOK' /\ RowsMove
    /\ \A d \in Deployments : Known(d) => Known(d)'
    /\ \A c \in Commands : Sent(c) => Sent(c)'
    /\ \A c \in Commands : Sent(c)' /\ ~Sent(c) => Written(c) /\ Copy(c)'
    /\ \A c \in Commands : Copy(c) => Copy(c)' \/ c \in gone' \/ (Settled(c)' /\ held' # c)
    /\ gone \subseteq gone'

LEMMA SoundRows == IInv /\ Sound => RowsOK'
<1> SUFFICES ASSUME IInv, Sound PROVE RowsOK'
  OBVIOUS
<1> USE DEF IInv, Sound, RowsMove, RowMoves
<1>1. \A d \in Deployments : Start(d) \in Commands
  BY DEF Start, Commands
<1>2. ASSUME NEW c \in Commands, Open(c)', Sent(c)'
      PROVE  Copy(c)' \/ c \in gone'
  <2>1. ~Settled(c)' /\ Open(c)
    BY <1>2 DEF Open, Settled, OpenStatuses
  <2> QED BY <1>2, <2>1 DEF RowsOK
<1> QED BY <1>1, <1>2 DEF RowsOK

\* What a request relies on goes on to hold.
LEMMA SoundReady ==
    ASSUME IInv, Sound
    PROVE  \A pc, d : Ready(pc, d) => Ready(pc, d)'
<1> SUFFICES ASSUME NEW pc, NEW d, Ready(pc, d) PROVE Ready(pc, d)'
  OBVIOUS
<1>1. CASE pc \in {"idle", "done"}
  BY <1>1 DEF Ready, Fresh
<1>2. CASE pc \notin {"idle", "done"}
  <2>1. d \in Deployments
    BY <1>2 DEF Ready
  <2>2. Start(d) \in Commands /\ Stop(d) \in Commands
    BY <2>1 DEF Start, Stop, Commands
  <2>3. /\ Known(d) => Known(d)'
        /\ \A c \in {Start(d), Stop(d)} : (Written(c)' <=> Written(c)) /\ (Sent(c) => Sent(c)')
    BY <2>1, <2>2 DEF Sound, RowsMove, RowMoves
  <2> QED BY <1>2, <2>1, <2>3 DEF Ready
<1> QED BY <1>1, <1>2

LEMMA SoundRequests ==
    ASSUME IInv, Sound, UNCHANGED req
    PROVE  RequestsOK'
<1>1. \A r \in Requests : \E pc, d :
         pc = req[r].pc /\ d = req[r].dep /\ Ready(pc, d) /\ Ready(pc, d)'
  BY SoundReady DEF IInv, RequestsOK
<1> QED BY <1>1 DEF IInv, RequestsOK

\* One request goes on.
LEMMA RequestMoves ==
    ASSUME IInv, Sound, NEW r \in Requests, NEW pc, NEW d,
           req' \in [Requests -> RequestState],
           \A s \in Requests \ {r} : req'[s] = req[s],
           req'[r].pc = pc, req'[r].dep = d, Ready(pc, d)',
           pc \in Fresh =>
              \/ req[r].pc \in Fresh /\ req[r].dep = d
              \/ \A s \in Requests \ {r} : req[s].dep # d
    PROVE  RequestsOK'
<1>1. \A s \in Requests \ {r} : Ready(req[s].pc, req[s].dep)'
  <2> SUFFICES ASSUME NEW s \in Requests \ {r} PROVE Ready(req[s].pc, req[s].dep)'
    OBVIOUS
  <2>1. \E p, e : p = req[s].pc /\ e = req[s].dep /\ Ready(p, e) /\ Ready(p, e)'
    BY SoundReady DEF IInv, RequestsOK
  <2> QED BY <2>1
<1>2. Ready(req[r].pc, req[r].dep)'
  OBVIOUS
<1>3. ASSUME NEW s \in Requests \ {r}, req'[r].pc \in Fresh, req'[s].pc \in Fresh
      PROVE  req'[r].dep # req'[s].dep
  BY <1>3 DEF IInv, RequestsOK
<1>4. ASSUME NEW s \in Requests \ {r}, NEW q \in Requests \ {r},
             req'[q].pc \in Fresh, req'[s].pc \in Fresh, req'[q].dep = req'[s].dep
      PROVE  q = s
  BY <1>4 DEF IInv, RequestsOK
<1> QED BY <1>1, <1>2, <1>3, <1>4 DEF RequestsOK

LEMMA SoundRec ==
    ASSUME IInv, Sound, UNCHANGED <<rec, lifted, removing>>
    PROVE  RecOK'
<1>1. rec.cmd \in Commands \/ rec.pc \in {"idle", "replay", "requeue", "remove"}
  BY DEF IInv, RecOK
<1>2. RecAt("replayMark") => rec.cmd \in Commands
  BY <1>1 DEF RecAt
<1> QED BY <1>1, <1>2 DEF IInv, RecOK, Sound, RowsMove, RowMoves, RecAt, Registers

LEMMA SoundRunner ==
    ASSUME IInv, Sound, UNCHANGED <<runner, held>>
    PROVE  RunnerOK'
<1>1. runner.cmd # None => runner.cmd \in Commands
  BY DEF IInv, RunnerOK, Registers
<1>2. CASE runner.cmd = None
  BY <1>2, DeliveryAssumption DEF IInv, RunnerOK, RunnerAt
<1>3. CASE runner.cmd # None
  BY <1>1, <1>3 DEF IInv, RunnerOK, RunnerAt, Sound, RowsMove, RowMoves
<1> QED BY <1>2, <1>3

----------------------------------------------------------------------------
(* Deployments.                                                            *)

DepMoves ==
    /\ dep' \in [Deployments -> Deployment]
    /\ \A d \in Deployments : Known(d) => Known(d)'

LEMMA SameDeployments == ASSUME TablesOK, UNCHANGED dep PROVE DepMoves
BY DEF TablesOK, DepMoves, Known

LEMMA SetStatusMoves ==
    ASSUME TablesOK, NEW d \in Deployments,
           NEW s \in ActiveStatuses \cup TerminalStatuses, SetStatus(d, s)
    PROVE  DepMoves /\ Known(d)'
<1>1. s # "absent"
  BY DEF ActiveStatuses, TerminalStatuses
<1> QED BY <1>1 DEF SetStatus, TablesOK, Deployment, DepMoves, Known

LEMMA BumpIntentMoves ==
    ASSUME TablesOK, NEW d \in Deployments, BumpIntent(d)
    PROVE  DepMoves /\ dep'[d].seq \in Nat
BY DEF BumpIntent, TablesOK, Deployment, DepMoves, Known

----------------------------------------------------------------------------
(* What makes a step sound.                                                *)

\* A step that publishes nothing, and takes copies of x alone.
LEMMA SoundStep ==
    ASSUME IInv, NEW x, KeepsAllBut(x), DepMoves, RowsMove,
           x \in Commands => x \in gone' \/ (Settled(x)' /\ held' # x),
           events' \subseteq Commands, gone \subseteq gone', gone' \subseteq Commands
    PROVE  Sound
<1>1. TablesOK'
  BY DEF TablesOK, DepMoves, RowsMove
<1> QED BY <1>1 DEF Sound, KeepsAllBut, DepMoves

\* A step outside Redis.
LEMMA SoundTables ==
    ASSUME IInv, UNCHANGED <<redis, gone>>, DepMoves, RowsMove, events' \subseteq Commands
    PROVE  Sound
<1>1. KeepsAllBut(None)
  BY RedisSame DEF IInv
<1> QED BY <1>1, SoundStep, DeliveryAssumption DEF IInv, TablesOK

\* An evaluation of the script for a row that exists, or none at all.
LEMMA SoundEvaluate ==
    ASSUME IInv, NEW c \in Commands, Written(c), Evaluate(c),
           UNCHANGED <<dep, row, events, gone>>
    PROVE  Sound /\ Sent(c)' /\ UNCHANGED <<held, lifted, removing>>
<1>1. /\ RedisOK'
      /\ \A d \in Commands : Sent(d)' <=> Sent(d) \/ d = c
      /\ \A d \in Commands : Copy(d) => Copy(d)'
      /\ ~Sent(c) => Copy(c)'
      /\ UNCHANGED <<held, lifted, removing>>
  BY EvaluateEffect DEF IInv
<1>2. RowsMove /\ DepMoves
  BY SameRows, SameDeployments DEF IInv
<1>3. TablesOK'
  BY DEF IInv, TablesOK
<1> QED BY <1>1, <1>2, <1>3 DEF Sound, DepMoves

\* A sound step of a request.
LEMMA SoundOfRequest ==
    ASSUME IInv, Sound, RequestsOK', UNCHANGED <<rec, runner, held, lifted, removing>>
    PROVE  IInv'
BY SoundRows, SoundRec, SoundRunner DEF IInv, Sound

\* ... and what it goes on to: the next step for its deployment, or nothing.
LEMMA GoesOn ==
    ASSUME IInv, Sound, NEW r \in Requests, NEW pc \in Steps, NEW d \in Deployments,
           d = req[r].dep, NEW q \in RequestState, req' = [req EXCEPT ![r] = q],
           q.pc = pc, q.dep = d,
           Ready(pc, d)', pc \in Fresh => req[r].pc \in Fresh
    PROVE  RequestsOK'
<1>1. req' \in [Requests -> RequestState] /\ req'[r] = q
  BY DEF IInv, RequestsOK
<1>2. \A s \in Requests \ {r} : req'[s] = req[s]
  BY DEF IInv, RequestsOK
<1> QED BY <1>1, <1>2, RequestMoves

LEMMA GotoMoves ==
    ASSUME IInv, Sound, NEW r \in Requests, NEW pc \in Steps, NEW d \in Deployments,
           d = req[r].dep, Goto(r, pc), Ready(pc, d)', pc \in Fresh => req[r].pc \in Fresh
    PROVE  RequestsOK'
<1>1. req \in [Requests -> RequestState]
  BY DEF IInv, RequestsOK
<1>2. PICK q : q = [req[r] EXCEPT !.pc = pc]
  OBVIOUS
<1>3. q \in RequestState /\ q.pc = pc /\ q.dep = d /\ req' = [req EXCEPT ![r] = q]
  BY <1>1, <1>2 DEF Goto, RequestState
<1> QED BY <1>3, GoesOn

LEMMA FinishMoves ==
    ASSUME IInv, Sound, NEW r \in Requests, Finish(r)
    PROVE  RequestsOK'
<1>1. req \in [Requests -> RequestState]
  BY DEF IInv, RequestsOK
<1>2. PICK q : q = [IdleRequest EXCEPT !.pc = "done"]
  OBVIOUS
<1>3. q \in RequestState /\ q.pc = "done" /\ q.dep = None /\ req' = [req EXCEPT ![r] = q]
  BY <1>2 DEF Finish, RequestState, IdleRequest, Steps
<1>4. Ready("done", None)' /\ "done" \notin Fresh
  BY DEF Ready, Fresh
<1>5. req' \in [Requests -> RequestState] /\ \A s \in Requests \ {r} : req'[s] = req[s]
  BY <1>1, <1>3
<1>6. req'[r] = q
  BY <1>1, <1>3
<1> QED BY <1>3, <1>4, <1>5, <1>6, RequestMoves

----------------------------------------------------------------------------
(* The steps of a request.                                                 *)

\* The deployment a request works on.
LEMMA Working ==
    ASSUME IInv, NEW r \in Requests, req[r].pc \notin {"idle", "done"}
    PROVE  \E d \in Deployments : /\ d = req[r].dep /\ Ready(req[r].pc, d)
                                  /\ Start(d) \in Commands /\ Stop(d) \in Commands
<1>1. Ready(req[r].pc, req[r].dep) /\ req[r].dep \in Deployments
  BY DEF IInv, RequestsOK, Ready
<1> QED BY <1>1 DEF Start, Stop, Commands

\* Requests leave the others' registers alone.
LEMMA RequestsAlone ==
    ASSUME UNCHANGED <<redis, rec, runner>>
    PROVE  UNCHANGED <<rec, runner, held, lifted, removing>>
BY DEF redis

\* A step that writes deployments only.
LEMMA SoundDeployments ==
    ASSUME IInv, UNCHANGED <<redis, row, events, gone>>, DepMoves
    PROVE  Sound
BY SameRows, SoundTables DEF IInv, TablesOK

\* ... rows only.
LEMMA SoundRowsOnly ==
    ASSUME IInv, UNCHANGED <<redis, dep, events, gone>>, RowsMove
    PROVE  Sound
BY SameDeployments, SoundTables DEF IInv, TablesOK

\* ... and nothing but the request.
LEMMA SoundNothing ==
    ASSUME IInv, UNCHANGED <<redis, dep, row, events, gone>>
    PROVE  Sound
BY SameDeployments, SoundDeployments DEF IInv

LEMMA StartCreateStep ==
    ASSUME IInv, NEW r \in Requests, StartCreate(r)
    PROVE  Sound /\ IInv'
<1>1. PICK d \in Deployments : d = req[r].dep /\ Ready("create", d)
  BY Working DEF StartCreate, At
<1>2. CASE Finish(r) /\ UNCHANGED dep
  <2>1. Sound
    BY <1>2, SoundNothing DEF StartCreate, Others
  <2> QED BY <1>2, <2>1, FinishMoves, SoundOfRequest, RequestsAlone DEF StartCreate, Others
<1>3. CASE Goto(r, "bump") /\ SetStatus(d, "start_requested")
  <2>1. DepMoves /\ Known(d)'
    BY <1>3, SetStatusMoves DEF IInv, ActiveStatuses
  <2>2. Sound
    BY <2>1, SoundDeployments DEF StartCreate, Others
  <2>3. Ready("create", d)'
    BY <1>1, <2>2, SoundReady
  <2>4. Ready("bump", d)' /\ "bump" \in Steps /\ req[r].pc \in Fresh
    BY <2>1, <2>3 DEF Ready, Fresh, Steps, StartCreate, At
  <2>5. RequestsOK'
    BY <1>1, <1>3, <2>2, <2>4, GotoMoves
  <2> QED BY <2>2, <2>5, SoundOfRequest, RequestsAlone DEF StartCreate, Others
<1> QED BY <1>1, <1>2, <1>3 DEF StartCreate

LEMMA StartBumpStep ==
    ASSUME IInv, NEW r \in Requests, StartBump(r)
    PROVE  Sound /\ IInv'
<1>1. PICK d \in Deployments : d = req[r].dep /\ Ready("bump", d)
  BY Working DEF StartBump, At
<1>2. DepMoves /\ dep'[d].seq \in Nat
  BY <1>1, BumpIntentMoves DEF IInv, StartBump
<1>3. Sound
  BY <1>2, SoundDeployments DEF StartBump, Others
<1>4. PICK q : q = [req[r] EXCEPT !.pc = "command", !.seq = dep'[d].seq]
  OBVIOUS
<1>5. req[r] \in RequestState /\ req[r].pc = "bump" /\ r \in DOMAIN req
  BY DEF IInv, RequestsOK, StartBump, At
<1>6. q \in RequestState /\ q.pc = "command" /\ q.dep = d
  BY <1>1, <1>2, <1>4, <1>5 DEF RequestState, Steps, Fresh
<1>7. req' = [req EXCEPT ![r] = q]
  BY <1>1, <1>4, <1>5 DEF StartBump
<1>8. Ready("command", d)' /\ req[r].pc \in Fresh /\ "command" \in Steps
  <2>1. Ready("bump", d)'
    BY <1>1, <1>3, SoundReady
  <2> QED BY <1>5, <2>1 DEF Ready, Fresh, Steps
<1>9. RequestsOK'
  BY <1>1, <1>3, <1>6, <1>7, <1>8, GoesOn
<1> QED BY <1>3, <1>9, SoundOfRequest, RequestsAlone DEF StartBump, Others

LEMMA StartGuardStep ==
    ASSUME IInv, NEW r \in Requests, StartGuard(r)
    PROVE  Sound /\ IInv'
<1>1. PICK d \in Deployments : d = req[r].dep /\ Ready("guard", d)
  BY Working DEF StartGuard, At
<1>2. Sound
  BY SoundNothing DEF StartGuard, Others
<1>3. PICK pc \in {"drop", "publish"} :
        req' = [req EXCEPT ![r].pc = pc, ![r].seq = 0]
  BY DEF StartGuard
<1>4. PICK q : q = [req[r] EXCEPT !.pc = pc, !.seq = 0]
  OBVIOUS
<1>5. req[r] \in RequestState /\ r \in DOMAIN req
  BY DEF IInv, RequestsOK
<1>6. q \in RequestState /\ q.pc = pc /\ q.dep = d
  BY <1>1, <1>4, <1>5 DEF RequestState, Steps
<1>7. req' = [req EXCEPT ![r] = q]
  BY <1>3, <1>4, <1>5
<1>8. Ready(pc, d)' /\ pc \notin Fresh /\ pc \in Steps
  <2>1. Ready("guard", d)'
    BY <1>1, <1>2, SoundReady
  <2> QED BY <2>1 DEF Ready, Fresh, Steps
<1>9. RequestsOK'
  BY <1>1, <1>2, <1>6, <1>7, <1>8, GoesOn
<1> QED BY <1>2, <1>9, SoundOfRequest, RequestsAlone DEF StartGuard, Others

LEMMA StartDropStep ==
    ASSUME IInv, NEW r \in Requests, StartDrop(r)
    PROVE  Sound /\ IInv'
<1>1. PICK d \in Deployments :
        d = req[r].dep /\ Ready("drop", d) /\ Start(d) \in Commands
  BY Working DEF StartDrop, At
<1>2. RowsMove
  BY <1>1, SameRows, SettleMoves DEF StartDrop, Ready, IInv
<1>3. Sound
  BY <1>2, SoundRowsOnly DEF StartDrop, Others
<1> QED BY <1>3, FinishMoves, SoundOfRequest, RequestsAlone DEF StartDrop, Others

LEMMA PublishCommandStep ==
    ASSUME IInv, NEW r \in Requests, PublishCommand(r)
    PROVE  Sound /\ IInv'
<1>1. PICK d \in Deployments :
        d = req[r].dep /\ Ready(req[r].pc, d) /\ Start(d) \in Commands /\ Stop(d) \in Commands
  BY Working DEF PublishCommand, Dispatching, At
<1>2. CASE req[r].pc = "publish"
  <2>1. Sound /\ Sent(Start(d))' /\ UNCHANGED <<held, lifted, removing>>
    BY <1>1, <1>2, SoundEvaluate DEF PublishCommand, Outgoing, At, Others, Ready
  <2>2. Ready("publish", d)' /\ Goto(r, "mark")
    BY <1>1, <1>2, <2>1, SoundReady DEF PublishCommand, At
  <2>3. Ready("mark", d)' /\ "mark" \in Steps /\ "mark" \notin Fresh
    BY <2>1, <2>2 DEF Ready, Fresh, Steps
  <2>4. RequestsOK'
    BY <1>1, <2>1, <2>2, <2>3, GotoMoves
  <2> QED BY <2>1, <2>4, SoundOfRequest DEF PublishCommand, Others
<1>3. CASE req[r].pc = "stopPublish"
  <2>1. Sound /\ Sent(Stop(d))' /\ UNCHANGED <<held, lifted, removing>>
    BY <1>1, <1>3, SoundEvaluate DEF PublishCommand, Outgoing, At, Others, Ready
  <2>2. Ready("stopPublish", d)' /\ Goto(r, "stopMark")
    BY <1>1, <1>3, <2>1, SoundReady DEF PublishCommand, At
  <2>3. Ready("stopMark", d)' /\ "stopMark" \in Steps /\ "stopMark" \notin Fresh
    BY <2>1, <2>2 DEF Ready, Fresh, Steps
  <2>4. RequestsOK'
    BY <1>1, <2>1, <2>2, <2>3, GotoMoves
  <2> QED BY <2>1, <2>4, SoundOfRequest DEF PublishCommand, Others
<1> QED BY <1>2, <1>3 DEF PublishCommand, Dispatching, At

LEMMA StartMarkStep ==
    ASSUME IInv, NEW r \in Requests, StartMark(r)
    PROVE  Sound /\ IInv'
<1>1. PICK d \in Deployments :
        d = req[r].dep /\ Ready("mark", d) /\ Start(d) \in Commands
  BY Working DEF StartMark, At
<1>2. RowsMove
  BY <1>1, MarkMoves DEF StartMark, Ready, IInv
<1>3. Sound
  BY <1>2, SoundRowsOnly DEF StartMark, Others
<1> QED BY <1>3, FinishMoves, SoundOfRequest, RequestsAlone DEF StartMark, Others

\* The steps that rely on nothing but the deployment.
Plain == {"flip", "offBump", "stop", "failDeployment", "failAccount", "cancel",
          "cancelBump", "fallback"}

LEMMA PlainMoves ==
    ASSUME IInv, Sound, NEW r \in Requests, NEW pc \in Plain, NEW d \in Deployments,
           d = req[r].dep, Known(d)', Goto(r, pc)
    PROVE  RequestsOK'
<1>1. Ready(pc, d)' /\ pc \in Steps /\ pc \notin Fresh
  BY DEF Ready, Plain, Steps, Fresh
<1> QED BY <1>1, GotoMoves

\* A deployment that is being worked on stays known.
LEMMA StaysKnown ==
    ASSUME IInv, Sound, NEW r \in Requests, req[r].pc \notin {"idle", "done", "create"}
    PROVE  \E d \in Deployments : d = req[r].dep /\ Known(d) /\ Known(d)'
<1>1. Ready(req[r].pc, req[r].dep)
  BY DEF IInv, RequestsOK
<1> QED BY <1>1 DEF Ready, Sound

LEMMA OffFlipStep ==
    ASSUME IInv, NEW r \in Requests, OffFlip(r)
    PROVE  Sound /\ IInv'
<1>1. PICK d \in Deployments : d = req[r].dep
  BY Working DEF OffFlip, At
<1>2. CASE Finish(r) /\ UNCHANGED dep
  <2>1. Sound
    BY <1>2, SoundNothing DEF OffFlip, Others
  <2> QED BY <1>2, <2>1, FinishMoves, SoundOfRequest, RequestsAlone DEF OffFlip, Others
<1>3. CASE Goto(r, "offBump") /\ SetStatus(d, "stop_requested")
  <2>1. DepMoves /\ Known(d)'
    BY <1>3, SetStatusMoves DEF IInv, ActiveStatuses
  <2>2. Sound
    BY <2>1, SoundDeployments DEF OffFlip, Others
  <2>3. RequestsOK'
    BY <1>1, <1>3, <2>1, <2>2, PlainMoves DEF Plain
  <2> QED BY <2>2, <2>3, SoundOfRequest, RequestsAlone DEF OffFlip, Others
<1> QED BY <1>1, <1>2, <1>3 DEF OffFlip

LEMMA OffBumpStep ==
    ASSUME IInv, NEW r \in Requests, OffBump(r)
    PROVE  Sound /\ IInv'
<1>1. DepMoves
  BY Working, BumpIntentMoves DEF OffBump, At, IInv
<1>2. Sound
  BY <1>1, SoundDeployments DEF OffBump, Others
<1>3. RequestsOK'
  BY <1>2, StaysKnown, PlainMoves DEF OffBump, At, Plain
<1> QED BY <1>2, <1>3, SoundOfRequest, RequestsAlone DEF OffBump, Others

LEMMA StopMarkStep ==
    ASSUME IInv, NEW r \in Requests, StopMark(r)
    PROVE  Sound /\ IInv'
<1>1. PICK d \in Deployments :
        d = req[r].dep /\ Ready("stopMark", d) /\ Stop(d) \in Commands
  BY Working DEF StopMark, At
<1>2. RowsMove
  BY <1>1, MarkMoves DEF StopMark, Ready, IInv
<1>3. Sound
  BY <1>2, SoundRowsOnly DEF StopMark, Others
<1>4. RequestsOK'
  BY <1>3, StaysKnown, PlainMoves DEF StopMark, At, Plain
<1> QED BY <1>3, <1>4, SoundOfRequest, RequestsAlone DEF StopMark, Others

LEMMA FailDeploymentStartsStep ==
    ASSUME IInv, NEW r \in Requests, FailDeploymentStarts(r)
    PROVE  Sound /\ IInv'
<1>1. RowsMove
  BY FailStartsMove DEF FailDeploymentStarts, IInv
<1>2. Sound
  BY <1>1, SoundRowsOnly DEF FailDeploymentStarts, Others
<1>3. RequestsOK'
  BY <1>2, StaysKnown, PlainMoves, FinishMoves DEF FailDeploymentStarts, At, Plain
<1> QED BY <1>2, <1>3, SoundOfRequest, RequestsAlone DEF FailDeploymentStarts, Others

LEMMA FailAccountStartsStep ==
    ASSUME IInv, NEW r \in Requests, FailAccountStarts(r)
    PROVE  Sound /\ IInv'
<1>1. RowsMove
  BY FailStartsMove DEF FailAccountStarts, IInv
<1>2. Sound
  BY <1>1, SoundRowsOnly DEF FailAccountStarts, Others
<1>3. RequestsOK'
  BY <1>2, StaysKnown, PlainMoves, FinishMoves DEF FailAccountStarts, At, Plain
<1> QED BY <1>2, <1>3, SoundOfRequest, RequestsAlone DEF FailAccountStarts, Others

LEMMA CancelUpdateStep ==
    ASSUME IInv, NEW r \in Requests, CancelUpdate(r)
    PROVE  Sound /\ IInv'
<1>1. DepMoves
  BY Working, SetStatusMoves DEF CancelUpdate, At, IInv, TerminalStatuses
<1>2. Sound
  BY <1>1, SoundDeployments DEF CancelUpdate, Others
<1>3. RequestsOK'
  BY <1>2, StaysKnown, PlainMoves DEF CancelUpdate, At, Plain
<1> QED BY <1>2, <1>3, SoundOfRequest, RequestsAlone DEF CancelUpdate, Others

LEMMA CancelBumpStep ==
    ASSUME IInv, NEW r \in Requests, CancelBump(r)
    PROVE  Sound /\ IInv'
<1>1. DepMoves
  BY Working, BumpIntentMoves DEF CancelBump, At, IInv
<1>2. Sound
  BY <1>1, SoundDeployments DEF CancelBump, Others
<1>3. RequestsOK'
  BY <1>2, StaysKnown, PlainMoves DEF CancelBump, At, Plain
<1> QED BY <1>2, <1>3, SoundOfRequest, RequestsAlone DEF CancelBump, Others

LEMMA FallbackStep ==
    ASSUME IInv, NEW r \in Requests, Fallback(r)
    PROVE  Sound /\ IInv'
<1>1. DepMoves
  BY Working, SetStatusMoves DEF Fallback, At, IInv, TerminalStatuses
<1>2. Sound
  BY <1>1, SoundDeployments DEF Fallback, Others
<1>3. RequestsOK'
  BY <1>2, StaysKnown, PlainMoves DEF Fallback, At, Plain
<1> QED BY <1>2, <1>3, SoundOfRequest, RequestsAlone DEF Fallback, Others

LEMMA RequestCrashStep ==
    ASSUME IInv, NEW r \in Requests, RequestCrash(r)
    PROVE  Sound /\ IInv'
<1>1. Sound
  BY SoundNothing DEF RequestCrash
<1> QED BY <1>1, FinishMoves, SoundOfRequest, RequestsAlone DEF RequestCrash

\* A request turns to a plain step, and to another flow.
LEMMA TurnsTo ==
    ASSUME IInv, Sound, NEW r \in Requests, req[r].pc \notin {"idle", "done", "create"},
           NEW q \in RequestState, req' = [req EXCEPT ![r] = q],
           q.pc \in Plain, q.dep = req[r].dep
    PROVE  RequestsOK'
<1>1. PICK d \in Deployments : d = req[r].dep /\ Known(d)'
  BY StaysKnown
<1>2. Ready(q.pc, d)' /\ q.pc \in Steps /\ q.pc \notin Fresh
  BY <1>1 DEF Ready, Plain, Steps, Fresh
<1> QED BY <1>1, <1>2, GoesOn

LEMMA CleanupRaisesStep ==
    ASSUME IInv, NEW r \in Requests, CleanupRaises(r)
    PROVE  Sound /\ IInv'
<1>1. Sound
  BY SoundNothing DEF CleanupRaises, Others
<1>2. PICK q : q = [req[r] EXCEPT !.pc = "fallback", !.flow = "fallback"]
  OBVIOUS
<1>3. req[r] \in RequestState /\ r \in DOMAIN req
  BY DEF IInv, RequestsOK
<1>4. q \in RequestState /\ q.pc = "fallback" /\ q.dep = req[r].dep
  BY <1>2, <1>3 DEF RequestState, Steps
<1>5. req' = [req EXCEPT ![r] = q]
  BY <1>2, <1>3 DEF CleanupRaises
<1>6. RequestsOK'
  BY <1>1, <1>4, <1>5, TurnsTo DEF Plain, CleanupRaises
<1> QED BY <1>1, <1>6, SoundOfRequest, RequestsAlone DEF CleanupRaises, Others

LEMMA DispatchRaisesStep ==
    ASSUME IInv, NEW r \in Requests, DispatchRaises(r)
    PROVE  Sound /\ IInv'
<1>1. PICK d \in Deployments :
        d = req[r].dep /\ Ready(req[r].pc, d) /\ Start(d) \in Commands /\ Stop(d) \in Commands
  BY Working DEF DispatchRaises
<1>2. Sound /\ UNCHANGED <<held, lifted, removing>>
  <2>1. CASE UNCHANGED redis
    BY <2>1, SoundNothing DEF DispatchRaises, redis
  <2>2. CASE Dispatching(r) /\ Evaluate(Outgoing(r))
    <3>1. Outgoing(r) \in Commands /\ Written(Outgoing(r))
      BY <1>1, <2>2 DEF Outgoing, Dispatching, At, Ready
    <3> QED BY <2>2, <3>1, SoundEvaluate DEF DispatchRaises
  <2> QED BY <2>1, <2>2 DEF DispatchRaises
<1>3. CASE Finish(r)
  BY <1>2, <1>3, FinishMoves, SoundOfRequest DEF DispatchRaises
<1>4. CASE req' = [req EXCEPT ![r].pc = "cancel", ![r].seq = 0]
  <2>1. PICK q : q = [req[r] EXCEPT !.pc = "cancel", !.seq = 0]
    OBVIOUS
  <2>2. req[r] \in RequestState /\ r \in DOMAIN req
    BY DEF IInv, RequestsOK
  <2>3. q \in RequestState /\ q.pc = "cancel" /\ q.dep = req[r].dep
    BY <2>1, <2>2 DEF RequestState, Steps
  <2>4. req' = [req EXCEPT ![r] = q]
    BY <1>4, <2>1, <2>2
  <2>5. RequestsOK'
    BY <1>2, <2>3, <2>4, TurnsTo DEF Plain, DispatchRaises
  <2> QED BY <1>2, <2>5, SoundOfRequest DEF DispatchRaises
<1> QED BY <1>3, <1>4 DEF DispatchRaises

\* A request arrives.
LEMMA Begins ==
    ASSUME IInv, Sound, NEW r \in Requests, NEW d \in Deployments,
           NEW flow \in {"start", "off", "cancel"}, NEW pc \in Steps, Begin(r, d, flow, pc),
           Ready(pc, d)',
           pc \in Fresh => \A s \in Requests \ {r} : req[s].dep # d
    PROVE  RequestsOK'
<1>1. req \in [Requests -> RequestState]
  BY DEF IInv, RequestsOK
<1>2. PICK q : q = [pc |-> pc, dep |-> d, flow |-> flow, seq |-> 0]
  OBVIOUS
<1>3. q \in RequestState /\ q.pc = pc /\ q.dep = d /\ req' = [req EXCEPT ![r] = q]
  BY <1>2 DEF Begin, RequestState
<1>4. /\ req' \in [Requests -> RequestState] /\ req'[r] = q
      /\ \A s \in Requests \ {r} : req'[s] = req[s]
  BY <1>1, <1>3
<1> QED BY <1>3, <1>4, RequestMoves

LEMMA StartAdmitStep ==
    ASSUME IInv, NEW r \in Requests, NEW d \in Deployments, StartAdmit(r, d)
    PROVE  Sound /\ IInv'
<1>1. RowsMove
  BY ReconcileTerminalMoves DEF StartAdmit, IInv
<1>2. Sound
  BY <1>1, SoundRowsOnly DEF StartAdmit, Others
<1>3. Start(d) \in Commands /\ ~Written(Start(d))
  BY DEF StartAdmit, IInv, RowsOK, Known, Start, Commands
<1>4. ~Written(Start(d))'
  BY <1>1, <1>3 DEF RowsMove, RowMoves
<1>5. Ready("create", d)' /\ "create" \in Steps
  BY <1>4 DEF Ready, Fresh, Steps
<1>6. RequestsOK'
  BY <1>2, <1>5, Begins DEF StartAdmit
<1> QED BY <1>2, <1>6, SoundOfRequest, RequestsAlone DEF StartAdmit, Others

LEMMA OffReadStep ==
    ASSUME IInv, NEW r \in Requests, NEW d \in Deployments, OffRead(r, d)
    PROVE  Sound /\ IInv'
<1>1. Sound
  BY SoundNothing DEF OffRead, Others
<1>2. PICK pc \in {"failAccount", "flip"} : Begin(r, d, "off", pc)
  BY DEF OffRead
<1>3. Ready(pc, d)' /\ pc \in Steps /\ pc \notin Fresh
  BY DEF OffRead, Ready, Known, Steps, Fresh
<1>4. RequestsOK'
  BY <1>1, <1>2, <1>3, Begins
<1> QED BY <1>1, <1>4, SoundOfRequest, RequestsAlone DEF OffRead, Others

LEMMA CancelReadStep ==
    ASSUME IInv, NEW r \in Requests, NEW d \in Deployments, CancelRead(r, d)
    PROVE  Sound /\ IInv'
<1>1. Sound
  BY SoundNothing DEF CancelRead, Others
<1>2. Ready("cancel", d)' /\ "cancel" \in Steps /\ "cancel" \notin Fresh
  BY DEF CancelRead, Ready, Known, Steps, Fresh
<1>3. RequestsOK'
  BY <1>1, <1>2, Begins DEF CancelRead
<1> QED BY <1>1, <1>3, SoundOfRequest, RequestsAlone DEF CancelRead, Others

\* A row is born: nothing was published for it, and nobody but the request at work
\* took its absence for granted.
LEMMA BornRow ==
    ASSUME IInv, NEW b \in Commands, ~Written(b),
           row' = [row EXCEPT ![b].status = "pending"],
           \A d \in Deployments : b = Start(d) => Known(d),
           UNCHANGED <<redis, dep, events, rec, runner, gone>>
    PROVE  /\ RedisOK' /\ TablesOK' /\ RowsOK' /\ RecOK' /\ RunnerOK'
           /\ Written(b)' /\ \A c \in Commands \ {b} : Written(c)' <=> Written(c)
           /\ \A c : (Sent(c)' <=> Sent(c))
<1>1. KeepsAllBut(None)
  BY RedisSame DEF IInv
<1>2. \A c : (Sent(c)' <=> Sent(c)) /\ (Copy(c)' <=> Copy(c))
  BY Places DEF redis
<1>3. row \in [Commands -> Row] /\ ~Sent(b) /\ ~row[b].sid
  BY DEF IInv, TablesOK, RowsOK
<1>4. PICK new \in Row : new.status = "pending" /\ ~new.sid /\ row' = [row EXCEPT ![b] = new]
  <2>1. [row[b] EXCEPT !.status = "pending"] \in Row
    BY <1>3 DEF Row, RowStatuses, OpenStatuses
  <2>2. [row[b] EXCEPT !.status = "pending"].status = "pending"
    BY <1>3 DEF Row
  <2>3. ~[row[b] EXCEPT !.status = "pending"].sid
    BY <1>3 DEF Row
  <2> QED BY <2>1, <2>2, <2>3
<1>5. /\ row' \in [Commands -> Row] /\ row'[b] = new
      /\ \A c \in Commands \ {b} : row'[c] = row[c]
  BY <1>3, <1>4
<1>6. Written(b)' /\ ~Written(b) /\ Open(b)' /\ ~Settled(b)
  BY <1>4, <1>5 DEF Written, Open, OpenStatuses, Settled
<1>7. \A c \in Commands \ {b} : /\ Written(c)' <=> Written(c)
                                /\ Open(c)' <=> Open(c)
                                /\ Settled(c)' <=> Settled(c)
  BY <1>5 DEF Written, Open, Settled
<1>8. \A c \in Commands : (Written(c) => Written(c)') /\ (Settled(c) => Settled(c)')
  BY <1>6, <1>7
<1>9. TablesOK'
  BY <1>5 DEF IInv, TablesOK
<1>10. RowsOK'
  <2>1. \A d \in Deployments : Known(d)' <=> Known(d)
    BY DEF Known
  <2>2. \A d \in Deployments : Start(d) \in Commands
    BY DEF Start, Commands
  <2>3. \A c \in Commands : row'[c].status \in {"queued", "dispatched"} \/ row'[c].sid => Sent(c)
    BY <1>4, <1>5 DEF IInv, RowsOK
  <2>4. \A d \in Deployments : Written(Start(d))' => Known(d)'
    BY <1>7, <2>1, <2>2 DEF IInv, RowsOK
  <2>5. \A c \in Commands : Sent(c)' => Written(c)'
    BY <1>2, <1>8 DEF IInv, RowsOK
  <2>6. \A c \in Commands : Open(c)' /\ Sent(c)' => Copy(c)' \/ c \in gone
    BY <1>2, <1>3, <1>7 DEF IInv, RowsOK
  <2> QED BY <1>2, <2>3, <2>4, <2>5, <2>6 DEF RowsOK
<1>11. RecOK'
  <2>1. UNCHANGED <<rec, lifted, removing, gone>>
    BY DEF redis
  <2>2. \A c \in rec.todo : c \in Commands /\ Written(c)
    BY DEF IInv, RecOK
  <2>3. ~(rec.pc \in {"idle", "replay", "requeue", "remove"}) =>
           rec.cmd \in Commands /\ Written(rec.cmd)
    BY DEF IInv, RecOK
  <2> QED BY <1>2, <1>8, <2>1, <2>2, <2>3 DEF IInv, RecOK, RecAt
<1>12. RunnerOK'
  <2>1. UNCHANGED <<runner, held, gone>>
    BY DEF redis
  <2>2. runner.cmd = None \/ runner.cmd \in Commands
    BY DEF IInv, RunnerOK, Registers
  <2>3. runner.pc \in {"acknowledged", "failedAck"} => runner.cmd \in Commands /\ Settled(runner.cmd)
    BY <2>2 DEF IInv, RunnerOK, RunnerAt
  <2> QED BY <1>2, <1>8, <2>1, <2>3 DEF IInv, RunnerOK, RunnerAt
<1> QED BY <1>1, <1>2, <1>6, <1>7, <1>9, <1>10, <1>11, <1>12 DEF KeepsAllBut

\* What the others rely on survives the birth, unless they count on its absence.
LEMMA BornReady ==
    ASSUME NEW b \in Commands, UNCHANGED dep, Written(b)',
           \A c \in Commands \ {b} : Written(c)' <=> Written(c),
           \A c : Sent(c)' <=> Sent(c)
    PROVE  \A pc, d : Ready(pc, d) /\ (pc \in Fresh => Start(d) # b) => Ready(pc, d)'
<1> SUFFICES ASSUME NEW pc, NEW d, Ready(pc, d), pc \in Fresh => Start(d) # b
             PROVE  Ready(pc, d)'
  OBVIOUS
<1>1. CASE pc \in {"idle", "done"}
  BY <1>1 DEF Ready, Fresh
<1>2. CASE pc \notin {"idle", "done"}
  <2>1. d \in Deployments
    BY <1>2 DEF Ready
  <2>2. Start(d) \in Commands /\ Stop(d) \in Commands /\ (Known(d)' <=> Known(d))
    BY <2>1 DEF Start, Stop, Commands, Known
  <2> QED BY <1>2, <2>1, <2>2 DEF Ready
<1> QED BY <1>1, <1>2

LEMMA StartCommandStep ==
    ASSUME IInv, NEW r \in Requests, StartCommand(r)
    PROVE  IInv'
<1>1. PICK d \in Deployments :
        d = req[r].dep /\ Ready("command", d) /\ Start(d) \in Commands
  BY Working DEF StartCommand, At
<1>2. ~Written(Start(d)) /\ Known(d) /\ req[r].pc \in Fresh
  BY <1>1 DEF Ready, Fresh, StartCommand, At
<1>3. \A e \in Deployments : Start(d) = Start(e) => d = e
  BY DEF Start
<1>4. /\ RedisOK' /\ TablesOK' /\ RowsOK' /\ RecOK' /\ RunnerOK'
      /\ Written(Start(d))' /\ \A c \in Commands \ {Start(d)} : Written(c)' <=> Written(c)
      /\ \A c : Sent(c)' <=> Sent(c)
  BY <1>1, <1>2, <1>3, BornRow DEF StartCommand, Others
<1>5. \A pc, e : Ready(pc, e) /\ (pc \in Fresh => Start(e) # Start(d)) => Ready(pc, e)'
  BY <1>1, <1>4, BornReady DEF StartCommand
<1>6. req \in [Requests -> RequestState]
  BY DEF IInv, RequestsOK
<1>7. /\ req' \in [Requests -> RequestState]
      /\ req'[r].pc = "guard" /\ req'[r].dep = d
      /\ \A s \in Requests \ {r} : req'[s] = req[s]
  BY <1>1, <1>6 DEF StartCommand, Goto, RequestState, Steps
<1>8. ASSUME NEW s \in Requests \ {r} PROVE Ready(req[s].pc, req[s].dep)'
  <2>1. PICK pc, e : pc = req[s].pc /\ e = req[s].dep /\ Ready(pc, e)
    BY DEF IInv, RequestsOK
  <2>2. pc \in Fresh => e # d /\ e \in Deployments
    BY <1>1, <1>2, <2>1 DEF IInv, RequestsOK, Ready, Fresh
  <2> QED BY <1>3, <1>5, <1>7, <2>1, <2>2
<1>9. Ready("guard", d)'
  BY <1>2, <1>4 DEF Ready, Fresh, Known, StartCommand
<1>10. "guard" \notin Fresh
  BY DEF Fresh
<1>11. \A s \in Requests : Ready(req[s].pc, req[s].dep)'
  BY <1>7, <1>8, <1>9
<1>12. RequestsOK'
  BY <1>7, <1>10, <1>11 DEF IInv, RequestsOK
<1> QED BY <1>4, <1>12 DEF IInv

LEMMA StopCommandStep ==
    ASSUME IInv, NEW r \in Requests, StopCommand(r)
    PROVE  IInv' /\ (Sound \/ ~Written(Stop(req[r].dep)))
<1>1. PICK d \in Deployments :
        d = req[r].dep /\ Ready("stop", d) /\ Stop(d) \in Commands
  BY Working DEF StopCommand, At
<1>2. CASE Written(Stop(d))
  <2>1. Goto(r, "failDeployment") /\ UNCHANGED row
    BY <1>1, <1>2 DEF StopCommand, Written
  <2>2. Sound
    BY <2>1, SoundNothing DEF StopCommand, Others
  <2>3. RequestsOK'
    BY <2>1, <2>2, StaysKnown, PlainMoves DEF StopCommand, At, Plain
  <2> QED BY <2>2, <2>3, SoundOfRequest, RequestsAlone DEF StopCommand, Others
<1>3. CASE ~Written(Stop(d))
  <2>1. Goto(r, "stopPublish") /\ row' = [row EXCEPT ![Stop(d)].status = "pending"]
    BY <1>1, <1>3 DEF StopCommand, Written
  <2>2. \A e \in Deployments : Stop(d) # Start(e)
    BY DEF Start, Stop
  <2>3. /\ RedisOK' /\ TablesOK' /\ RowsOK' /\ RecOK' /\ RunnerOK'
        /\ Written(Stop(d))' /\ \A c \in Commands \ {Stop(d)} : Written(c)' <=> Written(c)
        /\ \A c : Sent(c)' <=> Sent(c)
    BY <1>1, <1>3, <2>1, <2>2, BornRow DEF StopCommand, Others
  <2>4. \A pc, e : Ready(pc, e) /\ (pc \in Fresh => Start(e) # Stop(d)) => Ready(pc, e)'
    BY <1>1, <2>3, BornReady DEF StopCommand
  <2>5. req \in [Requests -> RequestState]
    BY DEF IInv, RequestsOK
  <2>6. /\ req' \in [Requests -> RequestState]
        /\ req'[r].pc = "stopPublish" /\ req'[r].dep = d
        /\ \A s \in Requests \ {r} : req'[s] = req[s]
    BY <1>1, <2>1, <2>5 DEF Goto, RequestState, Steps
  <2>7. ASSUME NEW s \in Requests \ {r} PROVE Ready(req[s].pc, req[s].dep)'
    <3>1. PICK pc, e : pc = req[s].pc /\ e = req[s].dep /\ Ready(pc, e)
      BY DEF IInv, RequestsOK
    <3>2. pc \in Fresh => e \in Deployments
      BY <3>1 DEF Ready, Fresh
    <3> QED BY <2>2, <2>4, <2>6, <3>1, <3>2
  <2>8. Ready("stopPublish", d)'
    BY <1>1, <2>3 DEF Ready, Fresh, Known, StopCommand
  <2>9. "stopPublish" \notin Fresh
    BY DEF Fresh
  <2>10. \A s \in Requests : Ready(req[s].pc, req[s].dep)'
    BY <2>6, <2>7, <2>8
  <2>11. RequestsOK'
    BY <2>6, <2>9, <2>10 DEF IInv, RequestsOK
  <2> QED BY <1>1, <1>3, <2>3, <2>11 DEF IInv
<1> QED BY <1>2, <1>3

----------------------------------------------------------------------------
(* The steps of the reconciler.                                            *)

LEMMA SoundOfRec ==
    ASSUME IInv, Sound, RecOK', UNCHANGED <<req, runner, held>>
    PROVE  IInv'
BY SoundRows, SoundRequests, SoundRunner DEF IInv, Sound

Listed == {"idle", "replay", "requeue", "remove"}
NothingRemoved == removing = Queue!NotRemoving \/ removing[1] \in gone

\* What it works on has a row.
LEMMA RecWorks ==
    ASSUME IInv
    PROVE  /\ rec.pc \notin Listed => rec.cmd \in Commands /\ Written(rec.cmd)
           /\ \A c \in rec.todo : c \in Commands /\ Written(c)
           /\ NothingRemoved
BY DEF IInv, RecOK, Listed, NothingRemoved

LEMMA SoundRemoval ==
    ASSUME IInv, Sound, UNCHANGED removing
    PROVE  NothingRemoved'
BY DEF IInv, RecOK, Sound, NothingRemoved

\* It goes on with a list of rows that exist.
LEMMA ListMoves ==
    ASSUME IInv, Sound, NEW S \in SUBSET Commands, \A c \in S : Written(c),
           NEW pc \in {"replay", "requeue", "remove"}, RecList(S, pc), NothingRemoved'
    PROVE  RecOK'
<1>1. \A c \in S : Written(c)'
  BY DEF Sound, RowsMove, RowMoves
<1>2. CASE rec' = IdleRec
  BY <1>2 DEF IdleRec, RecOK, RecAt, NothingRemoved, Registers
<1>3. CASE rec' = [pc |-> pc, todo |-> S, cmd |-> None]
  BY <1>1, <1>3 DEF RecOK, RecAt, NothingRemoved, Registers
<1> QED BY <1>2, <1>3 DEF RecList

LEMMA DoneMoves ==
    ASSUME IInv, Sound, NEW c, NEW pc \in {"replay", "requeue", "remove"}, RecDone(c, pc),
           NothingRemoved'
    PROVE  RecOK'
<1>1. /\ rec.todo \ {c} \in SUBSET Commands
      /\ \A d \in rec.todo \ {c} : Written(d)
      /\ RecList(rec.todo \ {c}, pc)
  BY RecWorks DEF RecDone
<1>2. PICK S : S = rec.todo \ {c}
  OBVIOUS
<1> QED BY <1>1, <1>2, ListMoves

\* It takes up a command, or goes on with it.
LEMMA TakesUp ==
    ASSUME IInv, Sound, NEW c \in Commands, Written(c),
           NEW pc \in {"replayMark", "requeuePush", "requeueMark", "removing", "failStart",
                       "failDeployment"},
           rec' = [rec EXCEPT !.pc = pc, !.cmd = c],
           pc = "replayMark" => Sent(c)', pc = "requeuePush" => lifted' = c, NothingRemoved'
    PROVE  RecOK'
<1>1. Written(c)' /\ \A d \in rec.todo : Written(d)'
  BY RecWorks DEF Sound, RowsMove, RowMoves
<1>2. rec \in [pc : Listed \cup {"replayMark", "requeuePush", "requeueMark", "removing",
                               "failStart", "failDeployment"},
              todo : SUBSET Commands, cmd : Registers]
  BY DEF IInv, RecOK, Listed
<1>3. /\ rec' \in [pc : Listed \cup {"replayMark", "requeuePush", "requeueMark", "removing",
                                   "failStart", "failDeployment"},
                  todo : SUBSET Commands, cmd : Registers]
      /\ rec'.pc = pc /\ rec'.cmd = c /\ rec'.todo = rec.todo
  BY <1>2 DEF Registers
<1> QED BY <1>1, <1>3 DEF RecOK, RecAt, NothingRemoved, Listed

LEMMA RecGotoMoves ==
    ASSUME IInv, Sound, rec.pc \notin Listed,
           NEW pc \in {"requeueMark", "removing", "failStart", "failDeployment"},
           RecGoto(pc), NothingRemoved'
    PROVE  RecOK'
<1>1. PICK c : c = rec.cmd
  OBVIOUS
<1>2. c \in Commands /\ Written(c)
  BY <1>1, RecWorks
<1>3. rec' = [rec EXCEPT !.pc = pc, !.cmd = c]
  BY <1>1 DEF RecGoto, IInv, RecOK
<1> QED BY <1>2, <1>3, TakesUp

LEMMA RecBeginStep ==
    ASSUME IInv, NEW S \in SUBSET Commands, RecBegin(S)
    PROVE  Sound /\ IInv'
<1>1. RowsMove
  BY ReconcileTerminalMoves DEF RecBegin, IInv
<1>2. Sound
  BY <1>1, SoundRowsOnly DEF RecBegin, RecOthers
<1>3. UNCHANGED <<held, removing>>
  BY DEF RecBegin, redis
<1>4. \A c \in S : Written(c)
  BY DEF RecBegin, Replayable, Written
<1>5. RecOK'
  BY <1>2, <1>3, <1>4, ListMoves, SoundRemoval DEF RecBegin
<1> QED BY <1>2, <1>3, <1>5, SoundOfRec DEF RecBegin, RecOthers

LEMMA RecReplayStep ==
    ASSUME IInv, NEW c \in Commands, RecReplay(c)
    PROVE  Sound /\ IInv'
<1>1. Written(c)
  BY RecWorks DEF RecReplay
<1>2. Sound /\ Sent(c)' /\ UNCHANGED <<held, lifted, removing>>
  BY <1>1, SoundEvaluate DEF RecReplay, RecOthers
<1>3. RecOK'
  BY <1>1, <1>2, TakesUp, SoundRemoval DEF RecReplay
<1> QED BY <1>2, <1>3, SoundOfRec DEF RecReplay, RecOthers

LEMMA RecReplayMarkStep ==
    ASSUME IInv, RecReplayMark
    PROVE  Sound /\ IInv'
<1>1. rec.cmd \in Commands /\ Sent(rec.cmd)
  BY RecWorks DEF RecReplayMark, RecAt, Listed, IInv, RecOK
<1>2. RowsMove
  BY <1>1, MarkMoves DEF RecReplayMark, IInv
<1>3. Sound
  BY <1>2, SoundRowsOnly DEF RecReplayMark, RecOthers
<1>4. UNCHANGED <<held, removing>>
  BY DEF RecReplayMark, redis
<1>5. RecOK'
  BY <1>3, <1>4, DoneMoves, SoundRemoval DEF RecReplayMark
<1> QED BY <1>3, <1>4, <1>5, SoundOfRec DEF RecReplayMark, RecOthers

LEMMA RecListProcessingStep ==
    ASSUME IInv, NEW S \in SUBSET Commands, RecListProcessing(S)
    PROVE  Sound /\ IInv'
<1>1. Sound
  BY SoundNothing DEF RecListProcessing, RecOthers
<1>2. UNCHANGED <<held, removing>>
  BY DEF RecListProcessing, redis
<1>3. \A c \in S : Written(c)
  BY DEF RecListProcessing, StaleProcessing, Written
<1>4. RecOK'
  BY <1>1, <1>2, <1>3, ListMoves, SoundRemoval DEF RecListProcessing
<1> QED BY <1>1, <1>2, <1>4, SoundOfRec DEF RecListProcessing, RecOthers

LEMMA RecListStartsStep ==
    ASSUME IInv, NEW S \in SUBSET Commands, RecListStarts(S)
    PROVE  Sound /\ IInv'
<1>1. Sound
  BY SoundNothing DEF RecListStarts, RecOthers
<1>2. UNCHANGED <<held, removing>>
  BY DEF RecListStarts, redis
<1>3. \A c \in S : Written(c)
  BY DEF RecListStarts, StaleQueuedStarts, Written
<1>4. RecOK'
  BY <1>1, <1>2, <1>3, ListMoves, SoundRemoval DEF RecListStarts
<1> QED BY <1>1, <1>2, <1>4, SoundOfRec DEF RecListStarts, RecOthers

\* A step of Redis that loses at most copies of a command given up.
LEMMA SoundRedis ==
    ASSUME IInv, NEW x, KeepsAllBut(x), x \in Commands => x \in gone',
           UNCHANGED <<dep, row, events>>, gone \subseteq gone', gone' \subseteq Commands
    PROVE  Sound
BY SameRows, SameDeployments, SoundStep DEF IInv, TablesOK

LEMMA RecRequeueLiftStep ==
    ASSUME IInv, NEW c \in Commands, RecRequeueLift(c)
    PROVE  Sound /\ IInv'
<1>1. KeepsAllBut(None) /\ lifted' = c /\ UNCHANGED <<held, removing>>
  BY LiftEffect DEF RecRequeueLift, IInv
<1>2. Sound
  BY <1>1, SoundRedis, DeliveryAssumption DEF RecRequeueLift, IInv, TablesOK
<1>3. Written(c)
  BY RecWorks DEF RecRequeueLift, NextRequeue
<1>4. RecOK'
  BY <1>1, <1>2, <1>3, TakesUp, SoundRemoval DEF RecRequeueLift
<1> QED BY <1>1, <1>2, <1>4, SoundOfRec DEF RecRequeueLift

LEMMA RecRequeueNotFoundStep ==
    ASSUME IInv, NEW c \in Commands, RecRequeueNotFound(c)
    PROVE  Sound /\ IInv'
<1>1. Sound
  BY SoundNothing DEF RecRequeueNotFound, RecOthers
<1>2. UNCHANGED <<held, removing>>
  BY DEF RecRequeueNotFound, redis
<1>3. RecOK'
  BY <1>1, <1>2, DoneMoves, SoundRemoval DEF RecRequeueNotFound
<1> QED BY <1>1, <1>2, <1>3, SoundOfRec DEF RecRequeueNotFound, RecOthers

LEMMA RecRequeuePushStep ==
    ASSUME IInv, RecRequeuePush
    PROVE  Sound /\ IInv'
<1>1. KeepsAllBut(None) /\ UNCHANGED <<held, removing>>
  BY PushEffect DEF RecRequeuePush, IInv
<1>2. Sound
  BY <1>1, SoundRedis, DeliveryAssumption DEF RecRequeuePush, RecOthers, IInv, TablesOK
<1>3. RecOK'
  BY <1>1, <1>2, RecGotoMoves, SoundRemoval DEF RecRequeuePush, RecAt, Listed
<1> QED BY <1>1, <1>2, <1>3, SoundOfRec DEF RecRequeuePush, RecOthers

LEMMA RecRequeueMarkStep ==
    ASSUME IInv, RecRequeueMark
    PROVE  Sound /\ IInv'
<1>1. rec.cmd \in Commands
  BY RecWorks DEF RecRequeueMark, RecAt, Listed
<1>2. RowsMove
  BY <1>1, RequeueMarkMoves, SameRows DEF RecRequeueMark, IInv
<1>3. Sound
  BY <1>2, SoundRowsOnly DEF RecRequeueMark, RecOthers
<1>4. UNCHANGED <<held, removing>>
  BY DEF RecRequeueMark, redis
<1>5. RecOK'
  BY <1>3, <1>4, DoneMoves, SoundRemoval DEF RecRequeueMark
<1> QED BY <1>3, <1>4, <1>5, SoundOfRec DEF RecRequeueMark, RecOthers

LEMMA RecRemoveBeginStep ==
    ASSUME IInv, NEW c \in Commands, RecRemoveBegin(c)
    PROVE  Sound /\ IInv'
<1>1. /\ UNCHANGED <<stream, marker, queue, processing, held, returning, lifted>>
      /\ removing' = <<c, "queue">> /\ gone' = gone \cup {c}
  BY DEF RecRemoveBegin, Queue!RemoveBegin
<1>2. KeepsAllBut(None)
  BY <1>1, RemovalMark DEF IInv
<1>3. Sound
  BY <1>1, <1>2, SoundRedis, DeliveryAssumption DEF RecRemoveBegin, RecOthers, IInv, TablesOK
<1>4. Written(c)
  BY RecWorks DEF RecRemoveBegin
<1>5. NothingRemoved'
  BY <1>1 DEF NothingRemoved
<1>6. RecOK'
  BY <1>3, <1>4, <1>5, TakesUp DEF RecRemoveBegin
<1> QED BY <1>1, <1>3, <1>6, SoundOfRec DEF RecRemoveBegin, RecOthers

LEMMA RecRemoveStep ==
    ASSUME IInv, RecRemove
    PROVE  Sound /\ IInv'
<1>1. /\ KeepsAllBut(removing[1]) /\ removing # Queue!NotRemoving
      /\ removing' = Queue!NotRemoving \/ removing'[1] = removing[1]
      /\ UNCHANGED held
  BY RemoveEffect DEF RecRemove, IInv
<1>2. removing[1] \in gone /\ UNCHANGED gone
  BY <1>1, RecWorks DEF NothingRemoved, RecRemove
<1>3. Sound
  BY <1>1, <1>2, SoundRedis DEF RecRemove, RecOthers, IInv, TablesOK
<1>4. NothingRemoved'
  BY <1>1, <1>2 DEF NothingRemoved, Queue!NotRemoving
<1>5. PICK pc \in {"failStart", "removing"} : RecGoto(pc)
  BY DEF RecRemove
<1>6. RecOK'
  BY <1>3, <1>4, <1>5, RecGotoMoves DEF RecRemove, RecAt, Listed
<1> QED BY <1>1, <1>3, <1>6, SoundOfRec DEF RecRemove, RecOthers

LEMMA RecFailStartStep ==
    ASSUME IInv, RecFailStart
    PROVE  Sound /\ IInv'
<1>1. rec.cmd \in Commands /\ Written(rec.cmd)
  BY RecWorks DEF RecFailStart, RecAt, Listed
<1>2. RowsMove
  BY <1>1, SettleMoves DEF RecFailStart, IInv
<1>3. Sound
  BY <1>2, SoundRowsOnly DEF RecFailStart, RecOthers
<1>4. UNCHANGED <<held, removing>>
  BY DEF RecFailStart, redis
<1>5. RecOK'
  BY <1>3, <1>4, RecGotoMoves, SoundRemoval DEF RecFailStart, RecAt, Listed
<1> QED BY <1>3, <1>4, <1>5, SoundOfRec DEF RecFailStart, RecOthers

LEMMA RecFailDeploymentStep ==
    ASSUME IInv, RecFailDeployment
    PROVE  Sound /\ IInv'
<1>1. rec.cmd \in Commands
  BY RecWorks DEF RecFailDeployment, RecAt, Listed
<1>2. DepMoves
  BY <1>1, SetStatusMoves DEF RecFailDeployment, IInv, TerminalStatuses, Commands
<1>3. Sound
  BY <1>2, SoundDeployments DEF RecFailDeployment
<1>4. UNCHANGED <<held, removing>>
  BY DEF RecFailDeployment, redis
<1>5. RecOK'
  BY <1>3, <1>4, DoneMoves, SoundRemoval DEF RecFailDeployment
<1> QED BY <1>3, <1>4, <1>5, SoundOfRec DEF RecFailDeployment

LEMMA RecRaisesStep ==
    ASSUME IInv, RecRaises
    PROVE  Sound /\ IInv'
<1>1. ASSUME Sound, UNCHANGED held, NothingRemoved', NEW c,
             NEW pc \in {"replay", "requeue", "remove"}, RecDone(c, pc)
      PROVE  IInv'
  BY <1>1, DoneMoves, SoundOfRec DEF RecRaises
<1>2. CASE RecAt("requeuePush") /\ Queue!RequeueLost /\ RecDone(rec.cmd, "requeue")
           /\ gone' = gone \cup {rec.cmd}
  <2>1. /\ KeepsAllBut(lifted) /\ lifted \in Commands /\ lifted = rec.cmd
        /\ UNCHANGED <<held, removing>>
    BY <1>2, LostEffect DEF IInv, RecOK
  <2>2. Sound
    BY <1>2, <2>1, SoundRedis DEF RecRaises, IInv, TablesOK
  <2>3. NothingRemoved'
    BY <2>1, <2>2, SoundRemoval
  <2> QED BY <1>1, <1>2, <2>1, <2>2, <2>3
<1>3. CASE RecAt("removing") /\ Queue!RemoveAbort /\ RecDone(rec.cmd, "remove")
           /\ UNCHANGED gone
  <2>1. /\ UNCHANGED <<stream, marker, queue, processing, held, returning, lifted>>
        /\ removing' = Queue!NotRemoving
    BY <1>3 DEF Queue!RemoveAbort
  <2>2. KeepsAllBut(None)
    BY <2>1, RemovalMark DEF IInv
  <2>3. Sound
    BY <1>3, <2>2, SoundRedis, DeliveryAssumption DEF RecRaises, IInv, TablesOK
  <2>4. NothingRemoved'
    BY <2>1 DEF NothingRemoved, Queue!NotRemoving
  <2> QED BY <1>1, <1>3, <2>1, <2>3, <2>4
<1>4. ASSUME NEW c \in rec.todo, RecDone(c, "replay"), Evaluate(c), UNCHANGED gone
      PROVE  Sound /\ IInv'
  <2>1. c \in Commands /\ Written(c)
    BY RecWorks
  <2>2. Sound /\ UNCHANGED <<held, removing>>
    BY <1>4, <2>1, SoundEvaluate DEF RecRaises
  <2>3. NothingRemoved'
    BY <2>2, SoundRemoval
  <2> QED BY <1>1, <1>4, <2>2, <2>3
<1>5. ASSUME UNCHANGED <<redis, gone>>, NEW c,
             NEW pc \in {"replay", "requeue", "remove"}, RecDone(c, pc)
      PROVE  Sound /\ IInv'
  <2>1. Sound
    BY <1>5, SoundNothing DEF RecRaises
  <2>2. UNCHANGED <<held, removing>>
    BY <1>5 DEF redis
  <2>3. NothingRemoved'
    BY <2>1, <2>2, SoundRemoval
  <2> QED BY <1>1, <1>5, <2>1, <2>2, <2>3
<1>6. CASE \/ \E c \in rec.todo : RecDone(c, "replay") /\ UNCHANGED <<redis, gone>>
           \/ \E c \in rec.todo : RecDone(c, "requeue") /\ UNCHANGED <<redis, gone>>
           \/ \E c \in rec.todo : RecDone(c, "remove") /\ UNCHANGED <<redis, gone>>
           \/ RecDone(rec.cmd, "replay") /\ UNCHANGED <<redis, gone>>
           \/ RecDone(rec.cmd, "requeue") /\ UNCHANGED <<redis, gone>>
           \/ RecDone(rec.cmd, "remove") /\ UNCHANGED <<redis, gone>>
  BY <1>5, <1>6
<1> QED BY <1>2, <1>3, <1>4, <1>6 DEF RecRaises

LEMMA RecCrashStep ==
    ASSUME IInv, RecCrash
    PROVE  Sound /\ IInv'
<1>1. ASSUME Sound, UNCHANGED held, NothingRemoved'
      PROVE  IInv'
  <2>1. RecOK'
    BY <1>1 DEF RecCrash, IdleRec, RecOK, RecAt, NothingRemoved, Registers
  <2> QED BY <1>1, <2>1, SoundOfRec DEF RecCrash
<1>2. CASE Queue!RequeueLost /\ gone' = gone \cup {lifted}
  <2>1. /\ KeepsAllBut(lifted) /\ lifted \in Commands /\ UNCHANGED <<held, removing>>
    BY <1>2, LostEffect DEF IInv
  <2>2. Sound
    BY <1>2, <2>1, SoundRedis DEF RecCrash, IInv, TablesOK
  <2> QED BY <1>1, <2>1, <2>2, SoundRemoval
<1>3. CASE UNCHANGED gone /\ Queue!RemoveAbort
  <2>1. /\ UNCHANGED <<stream, marker, queue, processing, held, returning, lifted>>
        /\ removing' = Queue!NotRemoving
    BY <1>3 DEF Queue!RemoveAbort
  <2>2. KeepsAllBut(None)
    BY <2>1, RemovalMark DEF IInv
  <2>3. Sound
    BY <1>3, <2>2, SoundRedis, DeliveryAssumption DEF RecCrash, IInv, TablesOK
  <2>4. NothingRemoved'
    BY <2>1 DEF NothingRemoved, Queue!NotRemoving
  <2> QED BY <1>1, <2>1, <2>3, <2>4
<1>4. CASE UNCHANGED <<redis, gone>>
  <2>1. Sound
    BY <1>4, SoundNothing DEF RecCrash
  <2>2. UNCHANGED <<held, removing>>
    BY <1>4 DEF redis
  <2> QED BY <1>1, <2>1, <2>2, SoundRemoval
<1> QED BY <1>2, <1>3, <1>4 DEF RecCrash

LEMMA FailUnconfirmedStartStep ==
    ASSUME IInv, NEW d \in Deployments, FailUnconfirmedStart(d)
    PROVE  Sound /\ IInv'
<1>1. Start(d) \in Commands /\ Written(Start(d))
  BY DEF Start, Commands, Written, FailUnconfirmedStart
<1>2. RowsMove /\ DepMoves
  BY <1>1, SettleMoves, SetStatusMoves DEF FailUnconfirmedStart, IInv, TerminalStatuses
<1>3. Sound
  BY <1>2, SoundTables DEF FailUnconfirmedStart, IInv, TablesOK
<1>4. UNCHANGED <<held, lifted, removing>>
  BY DEF FailUnconfirmedStart, redis
<1>5. RequestsOK'
  BY <1>3, SoundRequests DEF FailUnconfirmedStart
<1> QED BY <1>3, <1>4, <1>5, SoundOfRequest DEF FailUnconfirmedStart

----------------------------------------------------------------------------
(* The steps of the runner.                                                *)

LEMMA SoundOfRunner ==
    ASSUME IInv, Sound, RunnerOK', UNCHANGED <<req, rec, lifted, removing>>
    PROVE  IInv'
BY SoundRows, SoundRequests, SoundRec DEF IInv, Sound

\* What a busy runner works on.
LEMMA Busy ==
    ASSUME IInv, ~RunnerAt("idle")
    PROVE  runner.cmd \in Commands /\ Sent(runner.cmd) /\ Written(runner.cmd)
<1>1. runner.cmd \in Commands
  BY DEF IInv, RunnerOK, Registers
<1> QED BY <1>1, DeliveryAssumption DEF IInv, RunnerOK, RowsOK

\* It goes on with its command, or rests.
LEMMA RunnerMoves ==
    ASSUME IInv, Sound, ~RunnerAt("idle"), NEW c, c = runner.cmd,
           NEW pc \in Posting \cup {"reported", "acknowledged", "failed", "failedAck"},
           RunnerGoto(pc), held' \in {held, None}, pc \in Posting => held' = None,
           pc \in {"acknowledged", "failedAck"} => Settled(c)'
    PROVE  RunnerOK'
<1>1. /\ runner \in [pc : Posting \cup {"idle", "popped", "reported", "acknowledged",
                                      "failed", "failedAck"}, cmd : Registers]
      /\ c \in Commands /\ Sent(c) /\ c # None
  BY Busy, DeliveryAssumption DEF IInv, RunnerOK
<1>2. /\ runner' \in [pc : Posting \cup {"idle", "popped", "reported", "acknowledged",
                                       "failed", "failedAck"}, cmd : Registers]
      /\ runner'.pc = pc /\ runner'.cmd = c
  BY <1>1 DEF RunnerGoto
<1>3. pc # "idle" /\ pc # "popped"
  BY DEF Posting
<1>4. Sent(c)'
  BY <1>1 DEF Sound
<1>5. held' # None => /\ held' = held /\ held = c /\ (Copy(held) \/ held \in gone)
  BY DEF IInv, RunnerOK
<1>6. held' # None => held' = c /\ \E d : d = held' /\ (Copy(d)' \/ d \in gone')
  BY <1>1, <1>5 DEF Sound
<1> QED BY <1>1, <1>2, <1>3, <1>4, <1>6 DEF RunnerOK, RunnerAt

LEMMA RunnerRests ==
    ASSUME runner' = IdleRunner, held' = None
    PROVE  RunnerOK'
BY DEF IdleRunner, RunnerOK, RunnerAt, Registers, Posting

\* It has let the envelope go while it posts an event, and while it is idle.
LEMMA LetGo ==
    ASSUME IInv, runner.pc \in Posting \cup {"idle"}
    PROVE  held = None
BY DEF IInv, RunnerOK, RunnerAt

LEMMA RunnerPopStep ==
    ASSUME IInv, RunnerPop
    PROVE  Sound /\ IInv'
<1>1. /\ KeepsAllBut(None) /\ UNCHANGED <<lifted, removing>>
      /\ \E d \in Commands : held' = d /\ Sent(d) /\ Copy(d)'
  BY PopEffect DEF RunnerPop, IInv
<1>2. PICK d \in Commands : held' = d /\ Sent(d) /\ Copy(d)'
  BY <1>1
<1>3. Sound
  BY <1>1, SoundRedis, DeliveryAssumption DEF RunnerPop, RunnerOthers, IInv, TablesOK
<1>4. Sent(d)' /\ d # None
  BY <1>2, <1>3, DeliveryAssumption DEF Sound
<1>5. runner' = [pc |-> "popped", cmd |-> d]
  BY <1>2 DEF RunnerPop
<1>6. RunnerOK'
  BY <1>2, <1>4, <1>5 DEF RunnerOK, RunnerAt, Registers, Posting
<1> QED BY <1>1, <1>3, <1>6, SoundOfRunner DEF RunnerPop, RunnerOthers

\* The report of a popped command reopens its row, whose copy the runner has.
LEMMA ReportDispatchedStep ==
    ASSUME IInv, RunnerReport("popped", "dispatched", "reported")
    PROVE  IInv'
<1>1. PICK c \in Commands :
        c = runner.cmd /\ Sent(c) /\ Written(c) /\ held = c /\ (Copy(c) \/ c \in gone)
  BY Busy, DeliveryAssumption DEF RunnerReport, RunnerAt, IInv, RunnerOK
<1>2. row \in [Commands -> Row]
  BY DEF IInv, TablesOK
<1>3. PICK new \in Row : new.status = "dispatched" /\ row' = [row EXCEPT ![c] = new]
  <2>1. [row[c] EXCEPT !.status = "dispatched"] \in Row
    BY <1>2 DEF Row, RowStatuses, OpenStatuses
  <2>2. [row[c] EXCEPT !.status = "dispatched"].status = "dispatched"
    BY <1>2 DEF Row
  <2> QED BY <1>1, <2>1, <2>2 DEF RunnerReport, UpdateDelivery
<1>4. /\ row' \in [Commands -> Row] /\ row'[c] = new
      /\ \A d \in Commands \ {c} : row'[d] = row[d]
  BY <1>2, <1>3
<1>5. UNCHANGED <<redis, stream, marker, queue, processing, held, returning, lifted, removing,
                  dep, events, req, rec, gone>>
  BY DEF RunnerReport, RunnerOthers, redis
<1>6. \A d : (Sent(d)' <=> Sent(d)) /\ (Copy(d)' <=> Copy(d))
  BY <1>5, Places
<1>7. \A d \in Commands : Written(d)' <=> Written(d)
  BY <1>1, <1>3, <1>4 DEF Written
<1>8. RedisOK' /\ TablesOK'
  BY <1>4, <1>5, RedisSame DEF IInv, KeepsAllBut, TablesOK
<1>9. RowsOK'
  <2>1. \A d \in Deployments : Start(d) \in Commands
    BY DEF Start, Commands
  <2>2. \A d \in Deployments : Written(Start(d))' => Known(d)'
    BY <1>5, <1>7, <2>1 DEF IInv, RowsOK, Known
  <2>3. \A d \in Commands : Sent(d)' => Written(d)'
    BY <1>6, <1>7 DEF IInv, RowsOK
  <2>4. \A d \in Commands : row'[d].status \in {"queued", "dispatched"} \/ row'[d].sid => Sent(d)
    BY <1>1, <1>4 DEF IInv, RowsOK
  <2>5. \A d \in Commands : Open(d)' /\ Sent(d)' => Copy(d) \/ d \in gone
    BY <1>1, <1>4, <1>6 DEF IInv, RowsOK, Open
  <2> QED BY <1>5, <1>6, <2>2, <2>3, <2>4, <2>5 DEF RowsOK
<1>10. RequestsOK'
  <2>1. ASSUME NEW r \in Requests PROVE Ready(req[r].pc, req[r].dep)'
    <3>1. PICK pc, d : pc = req[r].pc /\ d = req[r].dep /\ Ready(pc, d)
      BY DEF IInv, RequestsOK
    <3>2. Ready(pc, d)'
      <4>1. CASE pc \in {"idle", "done"}
        BY <4>1 DEF Ready, Fresh
      <4>2. CASE pc \notin {"idle", "done"}
        <5>1. d \in Deployments /\ Start(d) \in Commands /\ Stop(d) \in Commands
          BY <3>1, <4>2 DEF Ready, Start, Stop, Commands
        <5>2. Known(d)' <=> Known(d)
          BY <1>5 DEF Known
        <5> QED BY <1>6, <1>7, <3>1, <4>2, <5>1, <5>2 DEF Ready
      <4> QED BY <4>1, <4>2
    <3> QED BY <1>5, <3>1, <3>2
  <2> QED BY <1>5, <2>1 DEF IInv, RequestsOK
<1>11. RecOK'
  <2>1. \A d \in rec.todo : Written(d)'
    BY <1>7, RecWorks
  <2>2. rec.pc \notin Listed => rec.cmd \in Commands /\ \E d : d = rec.cmd /\ Written(d)'
    BY <1>7, RecWorks
  <2> QED BY <1>5, <1>6, <2>1, <2>2 DEF IInv, RecOK, RecAt, Listed
<1>12. RunnerOK'
  <2>1. /\ runner \in [pc : Posting \cup {"idle", "popped", "reported", "acknowledged",
                                        "failed", "failedAck"}, cmd : Registers]
        /\ c # None
    BY <1>1, DeliveryAssumption DEF IInv, RunnerOK
  <2>2. /\ runner' \in [pc : Posting \cup {"idle", "popped", "reported", "acknowledged",
                                         "failed", "failedAck"}, cmd : Registers]
        /\ runner'.pc = "reported" /\ runner'.cmd = c
    BY <1>1, <2>1 DEF RunnerReport, RunnerGoto
  <2> QED BY <1>1, <1>5, <1>6, <2>1, <2>2 DEF RunnerOK, RunnerAt, Posting
<1> QED BY <1>8, <1>9, <1>10, <1>11, <1>12 DEF IInv

\* Every other report settles the row.
LEMMA ReportSettledStep ==
    ASSUME IInv, NEW from \in {"reported", "failed"}, NEW s \in {"acknowledged", "failed"},
           NEW to \in {"acknowledged", "failedAck"}, RunnerReport(from, s, to)
    PROVE  Sound /\ IInv'
<1>1. ~RunnerAt("idle")
  BY DEF RunnerReport, RunnerAt
<1>2. PICK c \in Commands : c = runner.cmd /\ Written(c)
  BY <1>1, Busy
<1>3. RowsMove /\ Settled(c)'
  BY <1>2, SettleMoves DEF RunnerReport, IInv
<1>4. Sound
  BY <1>3, SoundRowsOnly DEF RunnerReport, RunnerOthers
<1>5. UNCHANGED <<held, lifted, removing>>
  BY DEF RunnerReport, redis
<1>6. RunnerOK'
  BY <1>1, <1>2, <1>3, <1>4, <1>5, RunnerMoves DEF RunnerReport, Posting
<1> QED BY <1>4, <1>5, <1>6, SoundOfRunner DEF RunnerReport, RunnerOthers

LEMMA RunnerAckStep ==
    ASSUME IInv, \/ RunnerAck("acknowledged", "emit") \/ RunnerAck("failedAck", "idle")
    PROVE  Sound /\ IInv'
<1>1. ~RunnerAt("idle") /\ (RunnerAt("acknowledged") \/ RunnerAt("failedAck"))
  BY DEF RunnerAck, RunnerAt
<1>2. PICK c \in Commands : c = runner.cmd /\ Settled(c)
  BY <1>1, Busy DEF IInv, RunnerOK, RunnerAt
<1>3. Sound /\ held' = None /\ UNCHANGED <<lifted, removing>>
  <2>1. CASE held = None /\ UNCHANGED redis
    <3>1. Sound
      BY <2>1, SoundNothing DEF RunnerAck, RunnerOthers
    <3> QED BY <2>1, <3>1 DEF redis
  <2>2. CASE held # None /\ Queue!Ack
    <3>1. held = c
      BY <1>2, <2>2 DEF IInv, RunnerOK
    <3>2. KeepsAllBut(c) /\ held' = None /\ UNCHANGED <<lifted, removing>>
      BY <2>2, <3>1, AckEffect DEF IInv
    <3>3. RowsMove /\ DepMoves /\ Settled(c)'
      BY <1>2, SameRows, SameDeployments DEF RunnerAck, IInv, Settled
    <3>4. Sound
      BY <3>2, <3>3, SoundStep, DeliveryAssumption DEF RunnerAck, RunnerOthers, IInv, TablesOK
    <3> QED BY <3>2, <3>4
  <2> QED BY <2>1, <2>2 DEF RunnerAck
<1>4. RunnerOK'
  <2>1. CASE RunnerGoto("emit")
    BY <1>1, <1>3, <2>1, RunnerMoves DEF Posting
  <2>2. CASE runner' = IdleRunner
    BY <1>3, <2>2, RunnerRests
  <2> QED BY <2>1, <2>2 DEF RunnerAck
<1> QED BY <1>3, <1>4, SoundOfRunner DEF RunnerAck, RunnerOthers

\* The runner forgets what it holds.
LEMMA Forgets ==
    ASSUME IInv, UNCHANGED <<dep, row, events, gone>>,
           IF held = None THEN UNCHANGED redis ELSE Queue!RunnerCrash
    PROVE  Sound /\ held' = None /\ UNCHANGED <<lifted, removing>>
<1>1. CASE held = None /\ UNCHANGED redis
  <2>1. Sound
    BY <1>1, SoundNothing
  <2> QED BY <1>1, <2>1 DEF redis
<1>2. CASE Queue!RunnerCrash
  <2>1. KeepsAllBut(None) /\ held' = None /\ UNCHANGED <<lifted, removing>>
    BY <1>2, RunnerCrashEffect DEF IInv
  <2>2. Sound
    BY <2>1, SoundRedis, DeliveryAssumption DEF IInv, TablesOK
  <2> QED BY <2>1, <2>2
<1> QED BY <1>1, <1>2

LEMMA RunnerRaisesStep ==
    ASSUME IInv, RunnerRaises
    PROVE  Sound /\ IInv'
<1>1. CASE /\ runner.pc \notin {"idle", "failed", "failedAck"}
           /\ RunnerGoto("failed") /\ UNCHANGED redis
  <2>1. Sound
    BY <1>1, SoundNothing DEF RunnerRaises
  <2>2. UNCHANGED <<held, lifted, removing>> /\ ~RunnerAt("idle")
    BY <1>1 DEF redis, RunnerAt
  <2>3. RunnerOK'
    BY <1>1, <2>1, <2>2, RunnerMoves DEF Posting
  <2> QED BY <2>1, <2>2, <2>3, SoundOfRunner DEF RunnerRaises
<1>2. CASE /\ runner' = IdleRunner
           /\ IF held = None THEN UNCHANGED redis ELSE Queue!RunnerCrash
  <2>1. Sound /\ held' = None /\ UNCHANGED <<lifted, removing>>
    BY <1>2, Forgets DEF RunnerRaises
  <2> QED BY <1>2, <2>1, RunnerRests, SoundOfRunner DEF RunnerRaises
<1> QED BY <1>1, <1>2 DEF RunnerRaises

LEMMA RunnerDiesStep ==
    ASSUME IInv, RunnerDies
    PROVE  Sound /\ IInv'
<1>1. Sound /\ held' = None /\ UNCHANGED <<lifted, removing>>
  BY Forgets DEF RunnerDies
<1> QED BY <1>1, RunnerRests, SoundOfRunner DEF RunnerDies

\* While an event is posted Redis is left alone: the step is sound if it is for the
\* tables, and the runner goes on posting, fails or rests.
LEMMA PostingStep ==
    ASSUME IInv, runner.pc \in Posting, Sound, UNCHANGED <<redis, RunnerOthers>>,
           \/ \E pc \in Posting \cup {"failed"} : RunnerGoto(pc)
           \/ runner' = IdleRunner
    PROVE  IInv'
<1>1. held' = None /\ UNCHANGED <<req, rec, lifted, removing>> /\ ~RunnerAt("idle")
  BY LetGo DEF redis, RunnerOthers, RunnerAt, Posting
<1>2. RunnerOK'
  <2>1. ASSUME NEW pc \in Posting \cup {"failed"}, RunnerGoto(pc) PROVE RunnerOK'
    <3>1. pc \notin {"acknowledged", "failedAck"}
      BY DEF Posting
    <3> QED BY <1>1, <2>1, <3>1, RunnerMoves
  <2> QED BY <1>1, <2>1, RunnerRests
<1> QED BY <1>1, <1>2, SoundOfRunner

\* The command whose event is posted.
LEMMA Posts ==
    ASSUME IInv, runner.pc \in Posting
    PROVE  /\ runner.cmd \in Commands /\ Written(runner.cmd)
           /\ runner.cmd[2] \in Deployments
<1>1. ~RunnerAt("idle")
  BY DEF RunnerAt, Posting
<1> QED BY <1>1, Busy DEF Commands

LEMMA IngestStoreStep ==
    ASSUME IInv, IngestStore
    PROVE  Sound /\ IInv'
<1>1. runner.pc \in Posting /\ runner.cmd \in Commands
  BY Posts DEF IngestStore, RunnerAt, Posting
<1>2. RowsMove /\ DepMoves
  BY SameRows, SameDeployments DEF IngestStore, IInv
<1>3. Sound
  BY <1>1, <1>2, SoundTables DEF IngestStore, RunnerOthers, IInv, TablesOK
<1> QED BY <1>1, <1>3, PostingStep DEF IngestStore, Posting

LEMMA IngestSettleStep ==
    ASSUME IInv, IngestSettle
    PROVE  Sound /\ IInv'
<1>1. runner.pc \in Posting /\ runner.cmd \in Commands /\ Written(runner.cmd)
  BY Posts DEF IngestSettle, RunnerAt, Posting
<1>2. RowsMove
  BY <1>1, SettleMoves DEF IngestSettle, IInv
<1>3. Sound
  BY <1>2, SoundRowsOnly DEF IngestSettle, RunnerOthers
<1> QED BY <1>1, <1>3, PostingStep DEF IngestSettle, Posting

LEMMA IngestStartedReadStep ==
    ASSUME IInv, IngestStartedRead
    PROVE  Sound /\ IInv'
<1>1. Sound
  BY SoundNothing DEF IngestStartedRead, RunnerOthers
<1> QED BY <1>1, PostingStep DEF IngestStartedRead, RunnerAt, Posting

LEMMA IngestStartedWriteStep ==
    ASSUME IInv, IngestStartedWrite
    PROVE  Sound /\ IInv'
<1>1. runner.pc \in Posting /\ runner.cmd[2] \in Deployments
  BY Posts DEF IngestStartedWrite, RunnerAt, Posting
<1>2. DepMoves
  BY <1>1, SetStatusMoves, SameDeployments DEF IngestStartedWrite, IInv, ActiveStatuses
<1>3. Sound
  BY <1>2, SoundDeployments DEF IngestStartedWrite, RunnerOthers
<1> QED BY <1>1, <1>3, PostingStep DEF IngestStartedWrite

LEMMA IngestFinalizeStep ==
    ASSUME IInv, IngestFinalize
    PROVE  Sound /\ IInv'
<1>1. runner.pc \in Posting /\ runner.cmd[2] \in Deployments
  BY Posts DEF IngestFinalize, RunnerAt, Posting
<1>2. DepMoves
  BY <1>1, SetStatusMoves DEF IngestFinalize, IInv, TerminalStatuses
<1>3. Sound
  BY <1>2, SoundDeployments DEF IngestFinalize, RunnerOthers
<1> QED BY <1>1, <1>3, PostingStep DEF IngestFinalize, Posting

LEMMA IngestFinalizeStartsStep ==
    ASSUME IInv, IngestFinalizeStarts
    PROVE  Sound /\ IInv'
<1>1. RowsMove
  BY FailStartsMove DEF IngestFinalizeStarts, IInv
<1>2. Sound
  BY <1>1, SoundRowsOnly DEF IngestFinalizeStarts, RunnerOthers
<1> QED BY <1>2, PostingStep DEF IngestFinalizeStarts, RunnerAt, Posting

LEMMA IngestFinalizeTerminalStep ==
    ASSUME IInv, IngestFinalizeTerminal
    PROVE  Sound /\ IInv'
<1>1. RowsMove
  BY ReconcileTerminalMoves DEF IngestFinalizeTerminal, IInv
<1>2. Sound
  BY <1>1, SoundRowsOnly DEF IngestFinalizeTerminal, RunnerOthers
<1> QED BY <1>2, PostingStep DEF IngestFinalizeTerminal, RunnerAt, Posting

----------------------------------------------------------------------------
(* All steps.                                                              *)

LEMMA InitIInv == Init => IInv
<1> SUFFICES ASSUME Init PROVE IInv
  OBVIOUS
<1>1. /\ stream = <<>> /\ queue = <<>> /\ processing = <<>> /\ marker = {}
      /\ held = None /\ lifted = None /\ returning = None
      /\ removing = Queue!NotRemoving
  BY DEF Init, Queue!Init
<1>2. \A c : ~In(c, <<>>)
  BY DEF In
<1>3. \A c \in Commands : ~Sent(c) /\ ~Copy(c) /\ ~Written(c) /\ ~Open(c)
  BY <1>1, <1>2, Places, DeliveryAssumption DEF Init, Written, Open, OpenStatuses
<1>4. RedisOK
  BY <1>1, <1>3 DEF RedisOK, Registers
<1>5. TablesOK
  BY DEF Init, TablesOK, Deployment, Row, RowStatuses
<1>6. RowsOK
  BY <1>3 DEF Init, RowsOK, Start, Commands
<1>7. RequestsOK
  BY DEF Init, IdleRequest, RequestsOK, RequestState, Ready, Fresh, Steps
<1>8. RecOK
  BY <1>1 DEF Init, IdleRec, RecOK, RecAt, Registers
<1>9. RunnerOK
  BY <1>1 DEF Init, IdleRunner, RunnerOK, RunnerAt, Registers, Posting
<1> QED BY <1>4, <1>5, <1>6, <1>7, <1>8, <1>9 DEF IInv

\* What a step may do to settled rows.
ReopensPopped ==
    \A c \in Commands : Settled(c) /\ Open(c)' => runner.pc = "popped" /\ runner.cmd = c

LEMMA SoundReopens == Sound => ReopensPopped
BY DEF Sound, RowsMove, RowMoves, ReopensPopped, Settled, Open, OpenStatuses

\* A new row was not settled.
LEMMA BornReopens ==
    ASSUME IInv, NEW b \in Commands, ~Written(b),
           row' = [row EXCEPT ![b].status = "pending"]
    PROVE  ReopensPopped
<1>1. \A c \in Commands \ {b} : row'[c] = row[c]
  BY DEF IInv, TablesOK
<1> QED BY <1>1 DEF ReopensPopped, Settled, Open, OpenStatuses, Written

LEMMA RequestStep ==
    ASSUME IInv, NEW r \in Requests, Request(r)
    PROVE  IInv' /\ ReopensPopped
<1>1. CASE StartCommand(r)
  <2>1. \E d \in Deployments : d = req[r].dep /\ Ready("command", d) /\ Start(d) \in Commands
    BY <1>1, Working DEF StartCommand, At
  <2>2. Start(req[r].dep) \in Commands /\ ~Written(Start(req[r].dep))
    BY <2>1 DEF Ready, Fresh
  <2> QED BY <1>1, <2>2, StartCommandStep, BornReopens DEF StartCommand
<1>2. CASE StopCommand(r)
  <2>1. IInv' /\ (Sound \/ ~Written(Stop(req[r].dep))) /\ Stop(req[r].dep) \in Commands
    BY <1>2, StopCommandStep, Working DEF StopCommand, At
  <2>2. CASE Sound
    BY <2>1, <2>2, SoundReopens
  <2>3. CASE ~Written(Stop(req[r].dep))
    BY <1>2, <2>1, <2>3, BornReopens DEF StopCommand, Written
  <2> QED BY <2>1, <2>2, <2>3
<1>3. CASE ~StartCommand(r) /\ ~StopCommand(r)
  <2>1. Sound /\ IInv'
    BY <1>3, StartCreateStep, StartBumpStep, StartGuardStep, StartDropStep,
       PublishCommandStep, StartMarkStep, OffFlipStep, OffBumpStep, StopMarkStep,
       FailDeploymentStartsStep, FailAccountStartsStep, CancelUpdateStep, CancelBumpStep,
       FallbackStep
    DEF Request
  <2> QED BY <2>1, SoundReopens
<1> QED BY <1>1, <1>2, <1>3

LEMMA ReconcileStep ==
    ASSUME IInv, Reconcile \/ Listing
    PROVE  Sound /\ IInv'
BY RecReplayMarkStep, RecRequeuePushStep, RecRequeueMarkStep, RecRemoveStep,
   RecFailStartStep, RecFailDeploymentStep, RecReplayStep, RecRequeueLiftStep,
   RecRequeueNotFoundStep, RecRemoveBeginStep, RecBeginStep, RecListProcessingStep,
   RecListStartsStep
DEF Reconcile, Listing

LEMMA RunnerStep ==
    ASSUME IInv, Runner
    PROVE  IInv' /\ ReopensPopped
<1>1. CASE RunnerReport("popped", "dispatched", "reported")
  <2>1. ReopensPopped
    <3>1. \A c \in Commands : c # runner.cmd => row'[c] = row[c]
      BY <1>1 DEF RunnerReport, UpdateDelivery, IInv, TablesOK
    <3> QED BY <1>1, <3>1
            DEF ReopensPopped, RunnerReport, RunnerAt, Settled, Open, OpenStatuses
  <2> QED BY <1>1, <2>1, ReportDispatchedStep
<1>2. CASE \/ RunnerReport("reported", "acknowledged", "acknowledged")
           \/ RunnerReport("failed", "failed", "failedAck")
  BY <1>2, ReportSettledStep, SoundReopens
<1>3. CASE \/ RunnerPop
           \/ RunnerAck("acknowledged", "emit") \/ RunnerAck("failedAck", "idle")
           \/ IngestStore \/ IngestSettle \/ IngestStartedRead \/ IngestStartedWrite
           \/ IngestFinalize \/ IngestFinalizeStarts \/ IngestFinalizeTerminal
  BY <1>3, RunnerPopStep, RunnerAckStep, IngestStoreStep, IngestSettleStep,
     IngestStartedReadStep, IngestStartedWriteStep, IngestFinalizeStep,
     IngestFinalizeStartsStep, IngestFinalizeTerminalStep, SoundReopens
<1> QED BY <1>1, <1>2, <1>3 DEF Runner

LEMMA NextStep ==
    ASSUME IInv, Next
    PROVE  IInv' /\ ReopensPopped
<1>1. ASSUME NEW r \in Requests, Arrive(r)
      PROVE  IInv' /\ ReopensPopped
  BY <1>1, StartAdmitStep, OffReadStep, CancelReadStep, SoundReopens DEF Arrive
<1>2. CASE Crash
  BY <1>2, DispatchRaisesStep, CleanupRaisesStep, RequestCrashStep, RecRaisesStep,
     RecCrashStep, RunnerRaisesStep, RunnerDiesStep, SoundReopens
  DEF Crash
<1> QED BY <1>1, <1>2, RequestStep, ReconcileStep, FailUnconfirmedStartStep, RunnerStep,
           SoundReopens
        DEF Next

LEMMA NextIInv == IInv /\ [Next]_vars => IInv' /\ ReopensPopped
<1>1. ASSUME IInv, UNCHANGED vars PROVE IInv' /\ ReopensPopped
  <2>1. Sound
    BY <1>1, SoundNothing DEF vars
  <2>2. RequestsOK' /\ UNCHANGED <<rec, runner, held, lifted, removing>>
    BY <1>1, <2>1, SoundRequests DEF vars, redis
  <2> QED BY <1>1, <2>1, <2>2, SoundOfRequest, SoundReopens
<1> QED BY <1>1, NextStep

----------------------------------------------------------------------------
(* The theorems.                                                           *)

\* The rows, the requests, the reconciler, the runner and Redis stay in step: the
\* invariant the rest follows from.
THEOREM Invariance == Spec => []IInv
BY InitIInv, NextIInv, PTL DEF Spec

\* The rows, the deployments and what each process holds stay of their kinds, and an
\* envelope in the runner's hands is that of the command it works on.
THEOREM TypeCorrect == Spec => []TypeOK
<1>1. IInv => TypeOK
  <2> SUFFICES ASSUME IInv PROVE TypeOK
    OBVIOUS
  <2>1. /\ dep \in [Deployments ->
                      [status : ActiveStatuses \cup TerminalStatuses \cup {"absent"},
                       seq : Nat]]
        /\ row \in [Commands -> [status : RowStatuses, sid : BOOLEAN]]
        /\ events \subseteq Commands /\ gone \subseteq Commands
    BY DEF IInv, TablesOK, Deployment, Row
  <2>2. \A r \in Requests : req[r].dep \in Deployments \cup {None}
    BY DEF IInv, RequestsOK, RequestState
  <2>3. rec.todo \subseteq Commands /\ rec.cmd \in Commands \cup {None}
    BY DEF IInv, RecOK, Registers
  <2>4. runner.cmd \in Commands \cup {None} /\ (held # None => held = runner.cmd)
    BY DEF IInv, RunnerOK, Registers
  <2> QED BY <2>1, <2>2, <2>3, <2>4 DEF TypeOK
<1> QED BY <1>1, Invariance, PTL

\* However the requests, the reconciler and the runner overlap, and whatever fails
\* between the script and the UPDATE that follows it, a row that says queued or
\* dispatched, or carries a stream id, is of a command in the stream.
THEOREM RedisFirst == Spec => []RowsFollowRedis
<1>1. IInv => RowsFollowRedis
  BY DEF IInv, RowsOK, RowsFollowRedis, Sent
<1> QED BY <1>1, Invariance, PTL

\* No open row waits for an envelope nobody has: it is in one of the lists or in the
\* reconciler's hands, or the requeue that held it was interrupted, or the reconciler
\* is giving the command up.
THEOREM NothingWaitsForNothing == Spec => []OpenHasCopy
<1>1. IInv => OpenHasCopy
  BY DEF IInv, RowsOK, OpenHasCopy, Copy, Open, OpenStatuses
<1> QED BY <1>1, Invariance, PTL

\* Only the runner's report of a command it has just popped reopens a settled row:
\* no late mark, no requeue and no replay of the backend does.
THEOREM OnlyTheRunnerReopens == Spec => ReopenedByRunnerOnly
<1>1. ReopensPopped <=>
        \A c \in Commands : Settled(c) /\ Open(c)' => runner.pc = "popped" /\ runner.cmd = c
  BY DEF ReopensPopped
<1>2. IInv /\ [Next]_vars =>
        [\A c \in Commands :
           Settled(c) /\ Open(c)' => runner.pc = "popped" /\ runner.cmd = c]_vars
  BY <1>1, NextIInv
<1> QED BY <1>2, Invariance, PTL DEF Spec, ReopenedByRunnerOnly

----------------------------------------------------------------------------
(* The Redis lists are used as RunnerQueue allows.                         *)

QueueMove == Queue!Next \/ UNCHANGED redis

LEMMA EvaluateMove ==
    ASSUME NEW c \in Commands, Evaluate(c)
    PROVE  QueueMove
BY DEF Evaluate, QueueMove, Queue!Next

LEMMA RequestMove ==
    ASSUME IInv, NEW r \in Requests,
           Arrive(r) \/ Request(r) \/ DispatchRaises(r) \/ CleanupRaises(r) \/ RequestCrash(r)
    PROVE  QueueMove
<1>1. CASE PublishCommand(r) \/ DispatchRaises(r)
  <2>1. \E d \in Deployments :
          d = req[r].dep /\ Start(d) \in Commands /\ Stop(d) \in Commands
    BY <1>1, Working DEF PublishCommand, DispatchRaises, Dispatching, At
  <2>2. Outgoing(r) \in Commands
    BY <2>1 DEF Outgoing
  <2> QED BY <1>1, <2>2, EvaluateMove DEF PublishCommand, DispatchRaises, QueueMove
<1>2. CASE Arrive(r)
  BY <1>2 DEF Arrive, StartAdmit, OffRead, CancelRead, QueueMove
<1>3. CASE Request(r) /\ ~PublishCommand(r)
  BY <1>3
  DEF Request, StartCreate, StartBump, StartCommand, StartGuard, StartDrop, StartMark, OffFlip,
      OffBump, StopCommand, StopMark, FailDeploymentStarts, FailAccountStarts, CancelUpdate,
      CancelBump, Fallback, QueueMove
<1>4. CASE CleanupRaises(r) \/ RequestCrash(r)
  BY <1>4 DEF CleanupRaises, RequestCrash, QueueMove
<1> QED BY <1>1, <1>2, <1>3, <1>4

LEMMA RecMove ==
    ASSUME IInv, Reconcile \/ Listing \/ RecRaises \/ RecCrash
    PROVE  QueueMove
<1>1. Queue!Reconciler => QueueMove
  BY DEF QueueMove, Queue!Next
<1>2. CASE Reconcile
  <2>1. ASSUME NEW c \in Commands,
               RecReplay(c) \/ RecRequeueLift(c) \/ RecRequeueNotFound(c) \/ RecRemoveBegin(c)
        PROVE  QueueMove
    BY <1>1, <2>1, EvaluateMove
    DEF RecReplay, RecRequeueLift, RecRequeueNotFound, RecRemoveBegin, QueueMove,
        Queue!Reconciler
  <2>2. CASE \/ RecReplayMark \/ RecRequeuePush \/ RecRequeueMark
             \/ RecRemove \/ RecFailStart \/ RecFailDeployment
    BY <1>1, <2>2
    DEF RecReplayMark, RecRequeuePush, RecRequeueMark, RecRemove, RecFailStart,
        RecFailDeployment, QueueMove, Queue!Reconciler
  <2> QED BY <1>2, <2>1, <2>2 DEF Reconcile
<1>3. CASE Listing
  BY <1>3 DEF Listing, RecBegin, RecListProcessing, RecListStarts, QueueMove
<1>4. CASE RecRaises
  <2>1. Queue!RequeueLost \/ Queue!RemoveAbort => QueueMove
    BY <1>1 DEF Queue!Reconciler
  <2>2. ASSUME NEW c \in rec.todo, Evaluate(c) PROVE QueueMove
    BY <2>2, RecWorks, EvaluateMove
  <2> QED BY <1>4, <2>1, <2>2 DEF RecRaises, QueueMove
<1>5. CASE RecCrash
  BY <1>1, <1>5 DEF RecCrash, QueueMove, Queue!Reconciler
<1> QED BY <1>2, <1>3, <1>4, <1>5

LEMMA RunnerMove ==
    ASSUME Runner \/ RunnerRaises \/ RunnerDies
    PROVE  QueueMove
<1>1. Queue!Runner => QueueMove
  BY DEF QueueMove, Queue!Next
<1>2. CASE Runner
  BY <1>1, <1>2
  DEF Runner, RunnerPop, RunnerReport, RunnerAck, IngestStore, IngestSettle,
      IngestStartedRead, IngestStartedWrite, IngestFinalize, IngestFinalizeStarts,
      IngestFinalizeTerminal, QueueMove, Queue!Runner
<1>3. CASE RunnerRaises \/ RunnerDies
  BY <1>1, <1>3 DEF RunnerRaises, RunnerDies, QueueMove, Queue!Runner
<1> QED BY <1>2, <1>3

\* Every step of the requests, the jobs and the runner is one Redis command of
\* RunnerQueue, or leaves the lists alone: what is proved of the lists there holds here.
THEOREM RefinesQueue == Spec => UsesQueue
<1>1. Init => Queue!Init
  BY DEF Init
<1>2. IInv /\ [Next]_vars => [Queue!Next]_(Queue!vars)
  <2>1. ASSUME IInv, [Next]_vars PROVE QueueMove
    BY <2>1, RequestMove, RecMove, RunnerMove
    DEF Next, Crash, FailUnconfirmedStart, vars, QueueMove
  <2> QED BY <2>1 DEF QueueMove, Queue!vars, redis
<1> QED BY <1>1, <1>2, Invariance, PTL DEF Spec, UsesQueue, Queue!Spec
=============================================================================
