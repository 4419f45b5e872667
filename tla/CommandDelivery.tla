-------------------------- MODULE CommandDelivery --------------------------
(***************************************************************************)
(* The delivery of one account's START_BOT and STOP_BOT commands.          *)
(*                                                                         *)
(*   PostgreSQL   dep   bot_deployments                                    *)
(*                row   execution_commands                                 *)
(*                events  the commands with a BOT_* row in execution_events*)
(*   Redis        the runner's lists: RunnerQueue, instantiated            *)
(*   processes    req     API requests: start, OFF and cancel              *)
(*                rec     the delivery reconciler (one, by advisory lock)  *)
(*                runner  the runner's consumer loop, and the API request  *)
(*                        it waits for while it posts an event             *)
(*                                                                         *)
(* The backend runs as several API processes besides the jobs, so one      *)
(* action is one database transaction or one Redis call, and everything a  *)
(* process read earlier may be stale.  START_BOT and STOP_BOT reuse the    *)
(* deployment's trace_id, so uq_execution_commands_trace_identity leaves a *)
(* deployment one command of each type: a command is <<type, deployment>>. *)
(*                                                                         *)
(* Every modelled UPDATE of bot_deployments writes status, desired_state   *)
(* and is_active together; the last two are functions of the first here.   *)
(* The other account flows (replacement, config restart, login slots) and  *)
(* the slot bindings these flows also release are left to other modules.   *)
(***************************************************************************)
EXTENDS SequencesExt, FiniteSets, Integers

CONSTANTS
    Deployments,  \* the account's deployments
    Requests,     \* API requests, numbered as they arrive; each is served once
    None,         \* no deployment, no command
    MaxFaults,    \* bound: processes that die and calls that raise
    MaxSlow,      \* bound: envelopes requeued under a runner still at work
    MaxLoad       \* bound: these and the requests, together

VARIABLES
    stream, marker, queue, processing, held, returning, lifted, removing,
    moved, blind, expired,
    dep, row, events, req, rec, runner,
    faults,
    gone          \* history: commands lost in a requeue, or being removed

Start(d) == <<"START_BOT", d>>
Stop(d) == <<"STOP_BOT", d>>
Commands == {"START_BOT", "STOP_BOT"} \X Deployments

ASSUME DeliveryAssumption ==
    /\ None \notin Deployments /\ None \notin Commands
    /\ Requests \subseteq Nat /\ {MaxFaults, MaxSlow, MaxLoad} \subseteq Nat

Queue == INSTANCE RunnerQueue WITH NoCommand <- None, MaxExpired <- 0

redis == <<stream, marker, queue, processing, held, returning, lifted,
           removing, moved, blind, expired>>
vars == <<redis, dep, row, events, req, rec, runner, faults, gone>>

----------------------------------------------------------------------------
(* Deployments.                                                            *)

ActiveStatuses == {"start_requested", "running", "stop_requested"}
TerminalStatuses == {"stopped", "failed"}

DesiredState(d) ==
    IF dep[d].status \in {"start_requested", "running"} THEN "running" ELSE "stopped"

\* uq_bot_deployments_active_account.
OtherActive(d) == \E e \in Deployments \ {d} : dep[e].status \in ActiveStatuses

SetStatus(d, s) == dep' = [dep EXCEPT ![d].status = s]

BumpIntent(d) == dep' = [dep EXCEPT ![d].seq = @ + 1]

----------------------------------------------------------------------------
(* Command rows.                                                           *)

OpenStatuses == {"pending", "queued", "dispatched"}
Settled(c) == row[c].status \in {"acknowledged", "failed"}
Open(c) == row[c].status \in OpenStatuses

\* update_execution_command_delivery: unconditional.
UpdateDelivery(c, s) == row' = [row EXCEPT ![c].status = s]

\* A mutant of MarkDelivery: the status is set back to queued.
MarkDeliveryBack(c) == row' = [row EXCEPT ![c] = [status |-> "queued", sid |-> TRUE]]

\* mark_command_delivery: the status only moves on from pending or queued, the
\* stream id is written anyway.
MarkDelivery(c) ==
    row' = [row EXCEPT ![c] =
              [status |-> IF @.status \in {"pending", "queued"} THEN "queued"
                          ELSE @.status,
               sid |-> TRUE]]

\* fail_pending_start_commands_for_deployment / _for_account.
FailStarts(D) ==
    row' = [c \in Commands |->
              IF c[1] = "START_BOT" /\ c[2] \in D /\ Open(c)
              THEN [row[c] EXCEPT !.status = "failed"] ELSE row[c]]

\* reconcile_terminal_bot_control_commands.
ReconcileTerminal(D) ==
    row' = [c \in Commands |->
              IF c[2] \in D /\ dep[c[2]].status \in TerminalStatuses /\ Open(c)
              THEN [row[c] EXCEPT !.status =
                      IF c[1] = "START_BOT" THEN "failed" ELSE "acknowledged"]
              ELSE row[c]]

----------------------------------------------------------------------------
(* Processes.                                                              *)

IdleRequest == [pc |-> "idle", dep |-> None, flow |-> "none", seq |-> 0]
IdleRec == [pc |-> "idle", todo |-> {}, cmd |-> None]
IdleRunner == [pc |-> "idle", cmd |-> None]

Init ==
    /\ Queue!Init
    /\ dep = [d \in Deployments |-> [status |-> "absent", seq |-> 0]]
    /\ row = [c \in Commands |-> [status |-> "absent", sid |-> FALSE]]
    /\ events = {}
    /\ req = [r \in Requests |-> IdleRequest]
    /\ rec = IdleRec
    /\ runner = IdleRunner
    /\ faults = [raised |-> 0, slow |-> 0]
    /\ gone = {}

\* What happens from outside: requests arrive, calls raise, processes die.
Load == faults.raised + faults.slow + Cardinality({r \in Requests : req[r].pc # "idle"})

\* Something fails.
Fault ==
    /\ faults.raised < MaxFaults /\ Load < MaxLoad
    /\ faults' = [faults EXCEPT !.raised = @ + 1]

At(r, pc) == req[r].pc = pc
Goto(r, pc) == req' = [req EXCEPT ![r].pc = pc]
Finish(r) == req' = [req EXCEPT ![r] = [IdleRequest EXCEPT !.pc = "done"]]
Begin(r, d, flow, pc) ==
    /\ At(r, "idle") /\ Load < MaxLoad
    /\ \A s \in Requests : s < r => ~At(s, "idle")
    /\ req' = [req EXCEPT ![r] = [pc |-> pc, dep |-> d, flow |-> flow, seq |-> 0]]

\* What a step leaves alone: everything but Redis and the named rows.
Others == <<events, rec, runner, faults, gone>>

----------------------------------------------------------------------------
(* start_deployment.                                                       *)

\* Terminal commands of the account are closed, then the blocker and the
\* pending commands are read; a blocker leads to the replacement flow and a
\* pending command to an error, neither of which goes on to a START.  The three
\* statements are one step: what becomes of the account between them shows in
\* the last one, or in the unique index below.
StartAdmit(r, d) ==
    /\ dep[d].status = "absent"
    /\ \A s \in Requests : req[s].dep # d
    /\ \A e \in Deployments : dep[e].status \notin ActiveStatuses
    /\ \A c \in Commands : Open(c) => dep[c[2]].status \in TerminalStatuses
    /\ Begin(r, d, "start", "create")
    /\ ReconcileTerminal(Deployments)
    /\ UNCHANGED <<redis, dep, Others>>

\* The INSERT fails when another request's deployment became active meanwhile.
StartCreate(r) ==
    /\ At(r, "create")
    /\ IF OtherActive(req[r].dep)
       THEN Finish(r) /\ UNCHANGED dep
       ELSE Goto(r, "bump") /\ SetStatus(req[r].dep, "start_requested")
    /\ UNCHANGED <<redis, row, Others>>

StartBump(r) ==
    /\ At(r, "bump")
    /\ BumpIntent(req[r].dep)
    /\ req' = [req EXCEPT ![r].pc = "command", ![r].seq = dep'[req[r].dep].seq]
    /\ UNCHANGED <<redis, row, Others>>

\* dispatch: the row, with the intent_seq of the bump in its payload.
StartCommand(r) ==
    /\ At(r, "command")
    /\ row' = [row EXCEPT ![Start(req[r].dep)].status = "pending"]
    /\ Goto(r, "guard")
    /\ UNCHANGED <<redis, dep, Others>>

\* The latest-intent guard.
Stale(r) ==
    \/ DesiredState(req[r].dep) # "running"
    \/ dep[req[r].dep].status \in TerminalStatuses
    \/ req[r].seq < dep[req[r].dep].seq

StartGuard(r) ==
    /\ At(r, "guard")
    /\ req' = [req EXCEPT ![r].pc = IF Stale(r) THEN "drop" ELSE "publish",
                          ![r].seq = 0]
    /\ UNCHANGED <<redis, dep, row, Others>>

\* mark_command_failed_pre_publish.
StartDrop(r) ==
    /\ At(r, "drop")
    /\ IF row[Start(req[r].dep)].status = "pending"
       THEN UpdateDelivery(Start(req[r].dep), "failed") ELSE UNCHANGED row
    /\ Finish(r)
    /\ UNCHANGED <<redis, dep, Others>>

\* A mutant of Evaluate: the marker is not consulted.
EvaluateUnchecked(c) == Queue!PublishUnchecked(c)

\* A mutant of Evaluate: the stream entry is written, the list is not.
EvaluateUnlisted(c) ==
    /\ stream' = IF c \in marker THEN stream ELSE Append(stream, c)
    /\ marker' = marker \cup {c}
    /\ UNCHANGED <<queue, processing, held, returning, lifted, removing, moved,
                   blind, expired>>

\* One evaluation of the publish script.
Evaluate(c) ==
    \/ Queue!Publish(c)
    \/ Queue!AlreadyPublished(c) /\ UNCHANGED redis

\* The command a request publishes, and where it goes on a success.
Outgoing(r) ==
    IF At(r, "publish") THEN Start(req[r].dep) ELSE Stop(req[r].dep)

Dispatching(r) == At(r, "publish") \/ At(r, "stopPublish")

PublishCommand(r) ==
    /\ Dispatching(r)
    /\ Evaluate(Outgoing(r))
    /\ Goto(r, IF At(r, "publish") THEN "mark" ELSE "stopMark")
    /\ UNCHANGED <<dep, row, Others>>

\* A step of dispatch raises: a SQL statement, the login lease, or the script,
\* evaluated or not.  A START is cleaned up by cancelling the deployment, an
\* OFF ends with an error, a cancel swallows it.
DispatchRaises(r) ==
    /\ req[r].pc \in {"command", "guard", "drop", "publish", "mark",
                      "stop", "stopPublish", "stopMark"}
    /\ Fault
    /\ (Dispatching(r) /\ Evaluate(Outgoing(r))) \/ UNCHANGED redis
    /\ IF req[r].pc \in {"stop", "stopPublish", "stopMark"}
       THEN Finish(r)
       ELSE req' = [req EXCEPT ![r].pc = "cancel", ![r].seq = 0]
    /\ UNCHANGED <<dep, row, events, rec, runner, gone>>

StartMark(r) ==
    /\ At(r, "mark")
    /\ MarkDelivery(Start(req[r].dep))
    /\ Finish(r)
    /\ UNCHANGED <<redis, dep, Others>>

----------------------------------------------------------------------------
(* stop_deployment, the user's OFF.                                        *)

\* The deployment is read; _is_stopped_like_deployment decides on that copy.
OffRead(r, d) ==
    /\ dep[d].status # "absent"
    /\ Begin(r, d, "off",
             IF dep[d].status \in TerminalStatuses THEN "failAccount" ELSE "flip")
    /\ UNCHANGED <<redis, dep, row, Others>>

\* Unconditional, but for the unique index.
OffFlip(r) ==
    /\ At(r, "flip")
    /\ IF OtherActive(req[r].dep)
       THEN Finish(r) /\ UNCHANGED dep
       ELSE Goto(r, "offBump") /\ SetStatus(req[r].dep, "stop_requested")
    /\ UNCHANGED <<redis, row, Others>>

OffBump(r) ==
    /\ At(r, "offBump")
    /\ BumpIntent(req[r].dep)
    /\ Goto(r, "stop")
    /\ UNCHANGED <<redis, row, Others>>

\* A mutant of StopCommand: the row is born queued.
StopCommandQueued(r) ==
    /\ At(r, "stop")
    /\ IF row[Stop(req[r].dep)].status = "absent"
       THEN /\ row' = [row EXCEPT ![Stop(req[r].dep)].status = "queued"]
            /\ Goto(r, "stopPublish")
       ELSE UNCHANGED row /\ Goto(r, "failDeployment")
    /\ UNCHANGED <<redis, dep, Others>>

\* dispatch of a STOP_BOT, from OFF and from cancel: an existing row with this
\* trace is returned as it is, without publishing anything.
StopCommand(r) ==
    /\ At(r, "stop")
    /\ IF row[Stop(req[r].dep)].status = "absent"
       THEN /\ row' = [row EXCEPT ![Stop(req[r].dep)].status = "pending"]
            /\ Goto(r, "stopPublish")
       ELSE UNCHANGED row /\ Goto(r, "failDeployment")
    /\ UNCHANGED <<redis, dep, Others>>

StopMark(r) ==
    /\ At(r, "stopMark")
    /\ MarkDelivery(Stop(req[r].dep))
    /\ Goto(r, "failDeployment")
    /\ UNCHANGED <<redis, dep, Others>>

FailDeploymentStarts(r) ==
    /\ At(r, "failDeployment")
    /\ FailStarts({req[r].dep})
    /\ IF req[r].flow = "off" THEN Goto(r, "failAccount") ELSE Finish(r)
    /\ UNCHANGED <<redis, dep, Others>>

\* OFF's last step; the only one when the deployment was already stopped.
FailAccountStarts(r) ==
    /\ At(r, "failAccount")
    /\ FailStarts(Deployments)
    /\ IF req[r].flow \in {"off", "fallback"} THEN Finish(r) ELSE Goto(r, "stop")
    /\ UNCHANGED <<redis, dep, Others>>

----------------------------------------------------------------------------
(* cancel_pending_deployment; also what a failed START dispatch runs, with *)
(* the deployment as that START created it.                                *)

CancelRead(r, d) ==
    /\ dep[d].status = "start_requested"
    /\ Begin(r, d, "cancel", "cancel")
    /\ UNCHANGED <<redis, dep, row, Others>>

CancelUpdate(r) ==
    /\ At(r, "cancel")
    /\ SetStatus(req[r].dep, "stopped")
    /\ Goto(r, "cancelBump")
    /\ UNCHANGED <<redis, row, Others>>

CancelBump(r) ==
    /\ At(r, "cancelBump")
    /\ BumpIntent(req[r].dep)
    /\ Goto(r, "failAccount")
    /\ UNCHANGED <<redis, row, Others>>

\* _cleanup_start_dispatch_failure: when the cancel itself raises, the
\* deployment is failed, and the account's STARTs with it.  The failure that
\* made the dispatch raise goes on, so it is not counted again.
CleanupRaises(r) ==
    /\ req[r].flow = "start" /\ req[r].pc \in {"cancel", "cancelBump", "failAccount"}
    /\ req' = [req EXCEPT ![r].pc = "fallback", ![r].flow = "fallback"]
    /\ UNCHANGED <<redis, dep, row, Others>>

Fallback(r) ==
    /\ At(r, "fallback")
    /\ SetStatus(req[r].dep, "failed")
    /\ Goto(r, "failAccount")
    /\ UNCHANGED <<redis, row, Others>>

\* The API process serving the request dies.
RequestCrash(r) ==
    /\ req[r].pc \notin {"idle", "done"}
    /\ Fault
    /\ Finish(r)
    /\ UNCHANGED <<redis, dep, row, events, rec, runner, gone>>

Request(r) ==
    \/ StartCreate(r) \/ StartBump(r) \/ StartCommand(r) \/ StartGuard(r)
    \/ StartDrop(r) \/ PublishCommand(r) \/ StartMark(r)
    \/ OffFlip(r) \/ OffBump(r) \/ StopCommand(r) \/ StopMark(r)
    \/ FailDeploymentStarts(r) \/ FailAccountStarts(r)
    \/ CancelUpdate(r) \/ CancelBump(r) \/ Fallback(r)

Arrive(r) ==
    \E d \in Deployments : StartAdmit(r, d) \/ OffRead(r, d) \/ CancelRead(r, d)

----------------------------------------------------------------------------
(* The delivery reconciler.                                                *)

RecAt(pc) == rec.pc = pc
RecGoto(pc) == rec' = [rec EXCEPT !.pc = pc]
\* On with the rows of S; the loop's turn ends with the last of the removals.
RecList(S, pc) ==
    rec' = IF pc = "remove" /\ S = {} THEN IdleRec
           ELSE [pc |-> pc, todo |-> S, cmd |-> None]
RecDone(c, pc) == RecList(rec.todo \ {c}, pc)

\* What the reconciler leaves alone.
RecOthers == <<dep, events, req, runner, faults>>

\* A mutant of Replayable: pending rows are forgotten.
ReplayableQueued == {c \in Commands : row[c].status = "queued" /\ ~row[c].sid}

\* The rows of a SELECT: those of S that are old enough, whichever they are.
Replayable == {c \in Commands : row[c].status \in {"pending", "queued"} /\ ~row[c].sid}

StaleProcessing == {c \in Commands : row[c].status \in {"queued", "dispatched"}}

StaleQueuedStarts ==
    {c \in Commands : /\ c[1] = "START_BOT"
                      /\ row[c].status = "queued"
                      /\ dep[c[2]].status = "start_requested"}

\* The terminal commands are closed, then the replayable ones listed.  A listed
\* row is at least ten seconds old, so nothing hides between the two statements.
RecBegin(S) ==
    /\ RecAt("idle")
    /\ S \subseteq Replayable
    /\ ReconcileTerminal(Deployments)
    /\ RecList(S, "replay")
    /\ UNCHANGED <<redis, RecOthers, gone>>

\* The row is published as it was read: no intent guard here.
RecReplay(c) ==
    /\ RecAt("replay") /\ c \in rec.todo
    /\ Evaluate(c)
    /\ rec' = [rec EXCEPT !.pc = "replayMark", !.cmd = c]
    /\ UNCHANGED <<row, RecOthers, gone>>

RecReplayMark ==
    /\ RecAt("replayMark")
    /\ MarkDelivery(rec.cmd)
    /\ RecDone(rec.cmd, "replay")
    /\ UNCHANGED <<redis, RecOthers, gone>>

RecListProcessing(S) ==
    /\ RecAt("replay") /\ rec.todo = {}
    /\ S \subseteq StaleProcessing
    /\ RecList(S, "requeue")
    /\ UNCHANGED <<redis, row, RecOthers, gone>>

\* STOP_BOT rows come first.
NextRequeue(c) ==
    /\ RecAt("requeue") /\ c \in rec.todo
    /\ c[1] = "STOP_BOT" \/ \A x \in rec.todo : x[1] = "START_BOT"

\* dispatched_at is written once, so a redelivered command is stale again in
\* the very next round, whether or not the runner is still handling it.
RecRequeueLift(c) ==
    /\ NextRequeue(c)
    /\ IF held = c
       THEN /\ faults.slow < MaxSlow /\ Load < MaxLoad
            /\ faults' = [faults EXCEPT !.slow = @ + 1]
       ELSE UNCHANGED faults
    /\ Queue!RequeueLift(c)
    /\ rec' = [rec EXCEPT !.pc = "requeuePush", !.cmd = c]
    /\ UNCHANGED <<row, dep, events, req, runner, gone>>

RecRequeueNotFound(c) ==
    /\ NextRequeue(c)
    /\ ~Queue!Processing(c)
    /\ RecDone(c, "requeue")
    /\ UNCHANGED <<redis, row, RecOthers, gone>>

RecRequeuePush ==
    /\ RecAt("requeuePush")
    /\ Queue!RequeuePush
    /\ RecGoto("requeueMark")
    /\ UNCHANGED <<row, RecOthers, gone>>

\* A mutant of RecRequeueMark: the row is queued again whatever it became.
RecRequeueMarkBlind ==
    /\ RecAt("requeueMark")
    /\ UpdateDelivery(rec.cmd, "queued")
    /\ RecDone(rec.cmd, "requeue")
    /\ UNCHANGED <<redis, RecOthers, gone>>

\* mark_command_processing_requeued.
RecRequeueMark ==
    /\ RecAt("requeueMark")
    /\ IF row[rec.cmd].status \in {"queued", "dispatched"}
       THEN UpdateDelivery(rec.cmd, "queued") ELSE UNCHANGED row
    /\ RecDone(rec.cmd, "requeue")
    /\ UNCHANGED <<redis, RecOthers, gone>>

RecListStarts(S) ==
    /\ RecAt("requeue") /\ rec.todo = {}
    /\ S \subseteq StaleQueuedStarts
    /\ RecList(S, "remove")
    /\ UNCHANGED <<redis, row, RecOthers, gone>>

RecRemoveBegin(c) ==
    /\ RecAt("remove") /\ c \in rec.todo
    /\ Queue!RemoveBegin(c)
    /\ rec' = [rec EXCEPT !.pc = "removing", !.cmd = c]
    /\ gone' = gone \cup {c}
    /\ UNCHANGED <<row, RecOthers>>

RecRemove ==
    /\ RecAt("removing")
    /\ Queue!RemoveQueued \/ Queue!RemoveProcessing
    /\ RecGoto(IF removing' = Queue!NotRemoving THEN "failStart" ELSE "removing")
    /\ UNCHANGED <<row, RecOthers, gone>>

\* Unconditional, whatever became of the command since it was listed.
RecFailStart ==
    /\ RecAt("failStart")
    /\ UpdateDelivery(rec.cmd, "failed")
    /\ RecGoto("failDeployment")
    /\ UNCHANGED <<redis, RecOthers, gone>>

\* Likewise.
RecFailDeployment ==
    /\ RecAt("failDeployment")
    /\ SetStatus(rec.cmd[2], "failed")
    /\ RecDone(rec.cmd, "remove")
    /\ UNCHANGED <<redis, row, events, req, runner, faults, gone>>

\* A call raises: the loop goes on with the next row.
RecRaises ==
    /\ Fault
    /\ \/ /\ RecAt("requeuePush")
          /\ Queue!RequeueLost
          /\ RecDone(rec.cmd, "requeue")
          /\ gone' = gone \cup {rec.cmd}
       \/ /\ RecAt("removing")
          /\ Queue!RemoveAbort
          /\ RecDone(rec.cmd, "remove")
          /\ UNCHANGED gone
       \/ /\ RecAt("replay")
          /\ \E c \in rec.todo :
                RecDone(c, "replay") /\ (Evaluate(c) \/ UNCHANGED redis)
          /\ UNCHANGED gone
       \/ /\ \E c \in rec.todo : NextRequeue(c) /\ RecDone(c, "requeue")
          /\ UNCHANGED <<redis, gone>>
       \/ /\ RecAt("remove")
          /\ \E c \in rec.todo : RecDone(c, "remove")
          /\ UNCHANGED <<redis, gone>>
       \/ /\ RecAt("replayMark")
          /\ RecDone(rec.cmd, "replay")
          /\ UNCHANGED <<redis, gone>>
       \/ /\ RecAt("requeueMark")
          /\ RecDone(rec.cmd, "requeue")
          /\ UNCHANGED <<redis, gone>>
       \/ /\ RecAt("failStart") \/ RecAt("failDeployment")
          /\ RecDone(rec.cmd, "remove")
          /\ UNCHANGED <<redis, gone>>
    /\ UNCHANGED <<row, dep, events, req, runner>>

\* The process dies; PostgreSQL releases its advisory lock.
RecCrash ==
    /\ ~RecAt("idle")
    /\ Fault
    /\ rec' = IdleRec
    /\ IF lifted # None THEN Queue!RequeueLost /\ gone' = gone \cup {lifted}
       ELSE /\ UNCHANGED gone
            /\ IF removing # Queue!NotRemoving THEN Queue!RemoveAbort
               ELSE UNCHANGED redis
    /\ UNCHANGED <<row, dep, events, req, runner>>

Reconcile ==
    \/ RecReplayMark \/ RecRequeuePush \/ RecRequeueMark
    \/ RecRemove \/ RecFailStart \/ RecFailDeployment
    \/ \E c \in Commands : \/ RecReplay(c)
                           \/ RecRequeueLift(c) \/ RecRequeueNotFound(c)
                           \/ RecRemoveBegin(c)

Listing ==
    \E S \in SUBSET Commands :
        RecBegin(S) \/ RecListProcessing(S) \/ RecListStarts(S)

\* fail_stale_acknowledged_start_commands, a job of its own.
FailUnconfirmedStart(d) ==
    /\ row[Start(d)].status = "acknowledged"
    /\ dep[d].status = "start_requested"
    /\ Start(d) \notin events
    /\ UpdateDelivery(Start(d), "failed")
    /\ SetStatus(d, "failed")
    /\ UNCHANGED <<redis, events, req, rec, runner, faults, gone>>

----------------------------------------------------------------------------
(* The runner's loop.  A report is the API request it posts and waits for. *)

RunnerAt(pc) == runner.pc = pc
RunnerGoto(pc) == runner' = [runner EXCEPT !.pc = pc]
RunnerOthers == <<req, rec, faults, gone>>

RunnerPop ==
    /\ RunnerAt("idle")
    /\ Queue!Pop
    /\ runner' = [pc |-> "popped", cmd |-> held']
    /\ UNCHANGED <<dep, row, events, RunnerOthers>>

\* "dispatched", then the command and its package are fetched, then
\* "acknowledged": whatever the fetched command's status says.
RunnerReport(from, s, to) ==
    /\ RunnerAt(from)
    /\ UpdateDelivery(runner.cmd, s)
    /\ RunnerGoto(to)
    /\ UNCHANGED <<redis, dep, events, RunnerOthers>>

RunnerAck(from, to) ==
    /\ RunnerAt(from)
    /\ IF held = None THEN UNCHANGED redis ELSE Queue!Ack
    /\ IF to = "idle" THEN runner' = IdleRunner ELSE RunnerGoto(to)
    /\ UNCHANGED <<dep, row, events, RunnerOthers>>

\* Any call of the handler raises: the failure is reported and the envelope
\* acknowledged, unless the report raises as well.
RunnerRaises ==
    /\ Fault
    /\ \/ /\ runner.pc \notin {"idle", "failed", "failedAck"}
          /\ RunnerGoto("failed")
          /\ UNCHANGED redis
       \/ /\ RunnerAt("failed")
          /\ runner' = IdleRunner
          /\ IF held = None THEN UNCHANGED redis ELSE Queue!RunnerCrash
    /\ UNCHANGED <<dep, row, events, req, rec, gone>>

\* A mutant of RunnerDies: the envelope stays in a dead runner's hands.
RunnerDiesHolding ==
    /\ ~RunnerAt("idle")
    /\ Fault
    /\ runner' = IdleRunner
    /\ UNCHANGED <<redis, dep, row, events, req, rec, gone>>

RunnerDies ==
    /\ ~RunnerAt("idle")
    /\ Fault
    /\ runner' = IdleRunner
    /\ IF held = None THEN UNCHANGED redis ELSE Queue!RunnerCrash
    /\ UNCHANGED <<dep, row, events, req, rec, gone>>

(* The runner posts BOT_STARTED or BOT_STOPPED, the latter confirming that *)
(* the terminal is stopped; the API stores the event, settles the command, *)
(* then reads the deployment and writes it.                                *)

IngestStore ==
    /\ RunnerAt("emit")
    /\ events' = events \cup {runner.cmd}
    /\ RunnerGoto("stored")
    /\ UNCHANGED <<redis, dep, row, RunnerOthers>>

IngestSettle ==
    /\ RunnerAt("stored")
    /\ UpdateDelivery(runner.cmd, "acknowledged")
    /\ RunnerGoto(IF runner.cmd[1] = "START_BOT" THEN "started" ELSE "finalize")
    /\ UNCHANGED <<redis, dep, events, RunnerOthers>>

\* _deployment_wants_stopped.
IngestStartedRead ==
    /\ RunnerAt("started")
    /\ IF DesiredState(runner.cmd[2]) = "stopped"
       THEN runner' = IdleRunner ELSE RunnerGoto("startedWrite")
    /\ UNCHANGED <<redis, dep, row, events, RunnerOthers>>

\* Refused by the unique index when another deployment is active: the post
\* fails and the runner reports the command as failed.
IngestStartedWrite ==
    /\ RunnerAt("startedWrite")
    /\ IF OtherActive(runner.cmd[2])
       THEN RunnerGoto("failed") /\ UNCHANGED dep
       ELSE SetStatus(runner.cmd[2], "running") /\ runner' = IdleRunner
    /\ UNCHANGED <<redis, row, events, RunnerOthers>>

\* _finalize_stopped_deployment.
IngestFinalize ==
    /\ RunnerAt("finalize")
    /\ SetStatus(runner.cmd[2], "stopped")
    /\ RunnerGoto("finalizeStarts")
    /\ UNCHANGED <<redis, row, events, RunnerOthers>>

IngestFinalizeStarts ==
    /\ RunnerAt("finalizeStarts")
    /\ FailStarts({runner.cmd[2]})
    /\ RunnerGoto("finalizeTerminal")
    /\ UNCHANGED <<redis, dep, events, RunnerOthers>>

IngestFinalizeTerminal ==
    /\ RunnerAt("finalizeTerminal")
    /\ ReconcileTerminal({runner.cmd[2]})
    /\ runner' = IdleRunner
    /\ UNCHANGED <<redis, dep, events, RunnerOthers>>

Runner ==
    \/ RunnerPop
    \/ RunnerReport("popped", "dispatched", "reported")
    \/ RunnerReport("reported", "acknowledged", "acknowledged")
    \/ RunnerAck("acknowledged", "emit")
    \/ RunnerReport("failed", "failed", "failedAck")
    \/ RunnerAck("failedAck", "idle")
    \/ IngestStore \/ IngestSettle \/ IngestStartedRead \/ IngestStartedWrite
    \/ IngestFinalize \/ IngestFinalizeStarts \/ IngestFinalizeTerminal

----------------------------------------------------------------------------
\* Every request may be served and every list empty: nothing is left to do.
Crash ==
    \/ \E r \in Requests : \/ DispatchRaises(r) \/ CleanupRaises(r)
                         \/ RequestCrash(r)
    \/ RecRaises \/ RecCrash \/ RunnerRaises \/ RunnerDies

Next ==
    \/ \E r \in Requests : Arrive(r) \/ Request(r)
    \/ Reconcile \/ Listing
    \/ \E d \in Deployments : FailUnconfirmedStart(d)
    \/ Runner
    \/ Crash

Spec == Init /\ [][Next]_vars

(* What the code's scheduling justifies: requests, the runner's loop and the  *)
(* reconciler's loop go on while they can, and a row that stays eligible is   *)
(* sooner or later old enough to be listed.                                   *)
Fairness ==
    /\ \A r \in Requests : WF_vars(Request(r))
    /\ WF_vars(Runner)
    /\ WF_vars(Reconcile)
    /\ WF_vars(Listing)
    /\ SF_vars(RecBegin(Replayable))
    /\ SF_vars(RecListProcessing(StaleProcessing))

FairSpec == Spec /\ Fairness

----------------------------------------------------------------------------
(* Properties.                                                             *)

RowStatuses == OpenStatuses \cup {"absent", "acknowledged", "failed"}

TypeOK ==
    /\ dep \in [Deployments ->
                  [status : ActiveStatuses \cup TerminalStatuses \cup {"absent"},
                   seq : Nat]]
    /\ row \in [Commands -> [status : RowStatuses, sid : BOOLEAN]]
    /\ events \subseteq Commands
    /\ \A r \in Requests : req[r].dep \in Deployments \cup {None}
    /\ rec.todo \subseteq Commands /\ rec.cmd \in Commands \cup {None}
    /\ runner.cmd \in Commands \cup {None}
    /\ held # None => held = runner.cmd
    /\ gone \subseteq Commands

\* Redis first, the row second: whatever fails in between, a row that says its
\* command is queued or dispatched, or that carries a stream id, speaks of a
\* command the script has published.
RowsFollowRedis ==
    \A c \in Commands :
        row[c].status \in {"queued", "dispatched"} \/ row[c].sid
          => Queue!Published(c)

\* A command whose row waits for the runner still has its envelope in Redis, or
\* in the hands of the reconciler, unless a requeue was interrupted or the
\* reconciler is giving the command up: nobody waits for nothing, and a runner
\* that dies takes nothing with it.
OpenHasCopy ==
    \A c \in Commands :
        row[c].status \in {"queued", "dispatched"} =>
            \/ Queue!Queued(c) \/ Queue!Processing(c) \/ Queue!InTransit(c)
            \/ c \in gone

\* A settled command is reopened by the runner's "dispatched" report for an
\* envelope it has just popped, and by nothing the backend does of itself,
\* however late its own updates come.
ReopenedByRunnerOnly ==
    [][\A c \in Commands :
          Settled(c) /\ Open(c)' => runner.pc = "popped" /\ runner.cmd = c]_vars

\* The rows, requests and jobs use the Redis lists as RunnerQueue allows.
UsesQueue == Queue!Spec

\* Every command is settled in the end, or is known to be lost: processes may
\* die, Redis may fail and the runner may raise, the reconciler catches up.
Settles == \A c \in Commands : Open(c) ~> Settled(c) \/ c \in gone

\* The control plane "prevents double-start by account": two bots of the account
\* are not both started, with neither of them stopped.
NoDoubleStart ==
    \A d, e \in Deployments :
        /\ {Start(d), Start(e)} \subseteq events
        /\ {Stop(d), Stop(e)} \cap events = {}
        => d = e
============================================================================
