----------------------------- MODULE BotSwitch -----------------------------
(***************************************************************************)
(* Which bot of an account runs: starts, replacements of a running bot,    *)
(* configuration restarts, OFF and cancel, against the BOT_STARTED and     *)
(* BOT_STOPPED events that carry them on.                                  *)
(*                                                                         *)
(*   dep    bot_deployments of the account; a start request r may insert   *)
(*          deployment r.  placed: runner_id and slot_id are set; kill:    *)
(*          what health_status says of the terminal, pending or done       *)
(*   row    execution_commands; the commands a request r gives rise to are *)
(*          <<"START", r>>, <<"STOP", r>> and <<"CANCEL", r>>, a STOP_BOT  *)
(*   queue  the runner's command list                                      *)
(*   bots   the deployments whose bot the runner is running                *)
(*   free   runner_slots: the account's slot is ready and nobody's         *)
(*   proc   the API requests in flight, and the one the runner waits for   *)
(*          while it posts an event                                        *)
(*   kind   what each request is                                           *)
(*                                                                         *)
(* One action is one database transaction or one publication; writes that  *)
(* follow each other and that nothing tells apart are taken together, and  *)
(* a request refused before it writes anything does not arrive.  There is  *)
(* one runner and delivery is one step: slots are the subject of           *)
(* AccountSlots, delivery that of CommandDelivery.                         *)
(***************************************************************************)
EXTENDS Integers, Sequences

CONSTANTS
    Requests,    \* API requests, numbered as they arrive
    Kinds,       \* what each of them may ask for: start, off, cancel, restart
    Runner,      \* the runner's own process
    None,        \* no deployment, no command
    Overlap,     \* what each may ask for before earlier requests are served
    MaxFaults    \* bound: dispatches that raise, replacements without a slot

ASSUME SwitchAssumption ==
    /\ Requests \subseteq Nat
    /\ Kinds \in [Requests -> SUBSET {"start", "off", "cancel", "restart"}]
    /\ Runner \notin Requests
    /\ None \notin Requests
    /\ Overlap \in [Requests -> SUBSET {"start", "off", "cancel", "restart"}]
    /\ MaxFaults \in Nat

VARIABLES dep, row, queue, bots, free, proc, kind, faults

vars == <<dep, row, queue, bots, free, proc, kind, faults>>

Procs == Requests \cup {Runner}
Commands == {"START", "STOP", "CANCEL"} \X Requests

----------------------------------------------------------------------------
(* Deployments.                                                            *)

ActiveStatuses == {"start_requested", "running", "stop_requested"}
TerminalStatuses == {"stopped", "failed"}

Active(d) == dep[d].status \in ActiveStatuses
Terminal(d) == dep[d].status \in TerminalStatuses
Queued(d) == dep[d].status = "queued"

\* desired_state: every flow modelled writes it together with the status.
WantsRunning(d) == dep[d].status \in {"queued", "start_requested", "running"}

\* A mutant of Fits: the index leaves out deployments that are being stopped.
FitsUnlessStopping(d) ==
    \A e \in Requests \ {d} : dep[e].status \notin {"start_requested", "running"}

\* uq_bot_deployments_active_account: no second active deployment.
Fits(d) == \A e \in Requests \ {d} : ~Active(e)

\* update_deployment_status, whose health_status replaces that of the terminal.
SetStatus(d, s) == dep' = [dep EXCEPT ![d].status = s, ![d].kill = "none"]
Bumped(d, s) == [dep EXCEPT ![d].status = s, ![d].kill = "none", ![d].seq = @ + 1]

\* cancel_queued_replacements_for_account.
CancelQueued ==
    dep' = [d \in Requests |->
              IF Queued(d) THEN [dep[d] EXCEPT !.status = "stopped", !.seq = @ + 1]
              ELSE dep[d]]

----------------------------------------------------------------------------
(* Command rows.                                                           *)

OpenStatuses == {"pending", "queued"}
NoRow == [status |-> "absent", dep |-> None, flow |-> "none", repl |-> None,
          seq |-> None, by |-> None]

Open(c) == row[c].status \in OpenStatuses
IsStart(c) == c[1] = "START"

\* The START that carries on from a STOP names it.
Followed(c) == \E s \in Commands : row[s].by = c

\* fail_pending_start_commands_for_deployment and _for_account.
FailStarts(D) ==
    row' = [c \in Commands |->
              IF IsStart(c) /\ Open(c) /\ row[c].dep \in D
              THEN [row[c] EXCEPT !.status = "failed"] ELSE row[c]]

\* reconcile_terminal_bot_control_commands, T being the terminal deployments.
ReconcileTerminal(T) ==
    row' = [c \in Commands |->
              IF Open(c) /\ row[c].dep \in T
              THEN [row[c] EXCEPT !.status = IF IsStart(c) THEN "failed"
                                             ELSE "acknowledged"]
              ELSE row[c]]

TerminalDeployments == {d \in Requests : Terminal(d)}

\* get_pending_account_start_stop_command.
Pending == \E c \in Commands : Open(c) /\ ~Terminal(row[c].dep)

\* get_open_config_restart_command.
OpenRestart(d) ==
    \E c \in Commands :
        /\ row[c].flow = "restart" /\ row[c].dep = d
        /\ row[c].status \in OpenStatuses \cup {"acknowledged"}
        /\ ~Followed(c)

\* get_open_replacement_stop_command.
OpenReplacement(prev, repl) ==
    \E c \in Commands :
        /\ row[c].flow = "replacement" /\ row[c].dep = prev /\ row[c].repl = repl
        /\ row[c].status \in OpenStatuses \cup {"acknowledged"}
        /\ ~Followed(c)

----------------------------------------------------------------------------
(* Processes.                                                              *)

Idle == [pc |-> "idle", dep |-> None, prev |-> None, old |-> "none",
         placed |-> FALSE, cmd |-> None, seq |-> None]

At(p, pc) == proc[p].pc = pc
Goto(p, pc) == proc' = [proc EXCEPT ![p].pc = pc]
Finish(p) == proc' = [proc EXCEPT ![p] = IF p = Runner THEN Idle
                                         ELSE [Idle EXCEPT !.pc = "done"]]

Init ==
    /\ dep = [d \in Requests |-> [status |-> "absent", placed |-> FALSE, kill |-> "none",
                              seq |-> 0]]
    /\ row = [c \in Commands |-> NoRow]
    /\ queue = <<>>
    /\ bots = {}
    /\ free = TRUE
    /\ proc = [p \in Procs |-> Idle]
    /\ kind = [r \in Requests |-> "none"]
    /\ faults = 0

Fault == faults < MaxFaults /\ faults' = faults + 1

\* Requests arrive in their order, and the first is a start.
Begin(r, k, first) ==
    /\ k \in Kinds[r]
    /\ kind[r] = "none"
    /\ \A s \in Requests : s < r => kind[s] # "none" /\ (k \in Overlap[r] \/ At(s, "done"))
    /\ kind' = [kind EXCEPT ![r] = k]
    /\ proc' = [proc EXCEPT ![r] = first]

----------------------------------------------------------------------------
(* CommandRouterService.dispatch.                                          *)

\* The row of command c; then it is published.
Insert(p, c, fields) ==
    /\ row' = [row EXCEPT ![c] = fields]
    /\ proc' = [proc EXCEPT ![p].pc = IF IsStart(c) THEN "guard" ELSE "publish",
                            ![p].cmd = c]

StopRow(d, flow, repl, seq) ==
    [NoRow EXCEPT !.status = "pending", !.dep = d, !.flow = flow,
                  !.repl = repl, !.seq = seq]

\* uq_execution_commands_trace_identity: OFF and cancel send their STOP under the
\* trace of the deployment.
StopKnown(d) == \E c \in Commands : row[c].dep = d /\ row[c].flow \in {"off", "cancel"}

\* A START carries the intent_seq it was created with; that of a configuration
\* restart carries none.
InsertStart(p) ==
    LET c == <<"START", IF p = Runner THEN proc[p].cmd[2] ELSE p>> IN
    /\ At(p, "startRow")
    /\ Insert(p, c, [NoRow EXCEPT !.status = "pending", !.dep = proc[p].dep,
                       !.flow = "start", !.seq = proc[p].seq, !.by = proc[p].cmd])
    /\ UNCHANGED <<dep, queue, bots, free, kind, faults>>

\* A mutant of Latest: a START must be newer than its own deployment.
LatestStrictly(p) ==
    /\ WantsRunning(proc[p].dep)
    /\ proc[p].seq # None => proc[p].seq > dep[proc[p].dep].seq

\* The latest-intent guard.
Latest(p) ==
    /\ WantsRunning(proc[p].dep)
    /\ proc[p].seq # None => proc[p].seq >= dep[proc[p].dep].seq

GuardStart(p) ==
    /\ At(p, "guard")
    /\ Latest(p)
    /\ Goto(p, "publish")
    /\ UNCHANGED <<dep, row, queue, bots, free, kind, faults>>

DropStart(p) ==
    /\ At(p, "guard")
    /\ ~Latest(p)
    /\ row' = [row EXCEPT ![proc[p].cmd].status = "failed"]
    /\ Finish(p)
    /\ UNCHANGED <<dep, queue, bots, free, kind, faults>>

\* publish_command and mark_command_delivery, which only moves on a row that is
\* still open.
Deliver(c) ==
    /\ queue' = Append(queue, c)
    /\ row' = [row EXCEPT ![c].status = IF Open(c) THEN "queued" ELSE @]

Publish(p) ==
    LET c == proc[p].cmd IN
    /\ At(p, "publish")
    /\ Deliver(c)
    /\ IF row[c].flow \in {"off", "cancel"} THEN Goto(p, "failStarts") ELSE Finish(p)
    /\ UNCHANGED <<dep, bots, free, kind, faults>>

\* What each caller does about a dispatch that raises.
AfterFailure(p) ==
    LET c == proc[p].cmd
        asked == IF p \in Requests THEN kind[p] ELSE "none" IN
    CASE IsStart(c) -> IF row[c].seq = None THEN "restartFailed" ELSE "cancel"
      [] c[1] = "STOP" /\ asked = "start" -> "unreplace"
      [] c[1] = "STOP" /\ asked = "restart" -> "restore"
      [] c[1] = "CANCEL" /\ p = Runner -> "replacementFailed"
      [] OTHER -> "done"

PublishFails(p) ==
    /\ At(p, "publish")
    /\ Fault
    /\ IF AfterFailure(p) = "done" THEN Finish(p) ELSE Goto(p, AfterFailure(p))
    /\ UNCHANGED <<dep, row, queue, bots, free, kind>>

\* The delivery reconciler publishes a row left pending.
Replay(c) ==
    /\ row[c].status = "pending"
    /\ \A p \in Procs : proc[p].cmd # c
    /\ Deliver(c)
    /\ UNCHANGED <<dep, bots, free, proc, kind, faults>>

----------------------------------------------------------------------------
(* start_deployment.                                                       *)

\* The service refuses an account with an active deployment.
StartAdmit(r) ==
    /\ \A d \in Requests : ~Active(d)
    /\ Begin(r, "start", [Idle EXCEPT !.pc = "manage"])
    /\ UNCHANGED <<dep, row, queue, bots, free, faults>>

\* The deployment manager looks again (get_account_runtime_start_blocker): one that has
\* become active since is to be replaced, if it has a slot.
StartManage(r) ==
    /\ At(r, "manage")
    /\ ReconcileTerminal(TerminalDeployments)
    /\ \/ /\ \A d \in Requests : ~Active(d)
          /\ Goto(r, "pending")
       \/ \E b \in Requests :
          /\ Active(b)
          /\ IF dep[b].placed
             THEN proc' = [proc EXCEPT ![r].pc = "findQueued", ![r].prev = b,
                                       ![r].old = dep[b].status]
             ELSE Finish(r)
    /\ UNCHANGED <<dep, queue, bots, free, kind, faults>>

StartPending(r) ==
    /\ At(r, "pending")
    /\ IF Pending THEN Finish(r) ELSE Goto(r, "insert")
    /\ UNCHANGED <<dep, row, queue, bots, free, kind, faults>>

\* create_started_deployment and bump_deployment_intent_seq.
StartInsert(r) ==
    /\ At(r, "insert")
    /\ IF Fits(r)
       THEN /\ dep' = [dep EXCEPT ![r] = [status |-> "start_requested", placed |-> TRUE,
                                          kill |-> "none", seq |-> 1]]
            /\ proc' = [proc EXCEPT ![r].pc = "startRow", ![r].dep = r, ![r].seq = 1]
       ELSE Finish(r) /\ UNCHANGED dep
    /\ free' = FALSE
    /\ UNCHANGED <<row, queue, bots, kind, faults>>

----------------------------------------------------------------------------
(* _request_replacement_start.                                             *)

\* get_queued_replacement_deployment: the newest one.
FindQueued(r) ==
    LET Q == {d \in Requests : Queued(d)} IN
    /\ At(r, "findQueued")
    /\ \/ /\ Q = {}
          /\ proc' = [proc EXCEPT ![r].pc = "createQueued", ![r].dep = r]
       \/ \E q \in Q :
          /\ \A d \in Q : d <= q
          /\ proc' = [proc EXCEPT ![r].pc = "findStop", ![r].dep = q]
    /\ UNCHANGED <<dep, row, queue, bots, free, kind, faults>>

CreateQueued(r) ==
    /\ At(r, "createQueued")
    /\ SetStatus(r, "queued")
    /\ Goto(r, "findStop")
    /\ UNCHANGED <<row, queue, bots, free, kind, faults>>

FindStop(r) ==
    /\ At(r, "findStop")
    /\ IF OpenReplacement(proc[r].prev, proc[r].dep) THEN Finish(r)
       ELSE Goto(r, "stopPrevious")
    /\ UNCHANGED <<dep, row, queue, bots, free, kind, faults>>

\* A mutant of StopPrevious: the STOP carries the intent_seq of before the bump.
StopPreviousOldSeq(r) ==
    LET b == proc[r].prev
        bumped == {d \in Requests : d = b \/ Active(d) \/ Queued(d)} IN
    /\ At(r, "stopPrevious")
    /\ IF Fits(b)
       THEN /\ dep' = [d \in Requests |->
                         [dep[d] EXCEPT
                            !.status = IF d = b THEN "stop_requested" ELSE @,
                            !.kill = IF d = b THEN "none" ELSE @,
                            !.seq = IF d \in bumped THEN @ + 1 ELSE @]]
            /\ proc' = [proc EXCEPT ![r].pc = "stopRow",
                                    ![r].seq = dep[proc[r].dep].seq]
       ELSE Finish(r) /\ UNCHANGED dep
    /\ UNCHANGED <<row, queue, bots, free, kind, faults>>

\* The bot to replace is told to stop whatever has become of it, and
\* bump_account_intent_seq bumps every deployment that is not terminal.
StopPrevious(r) ==
    LET b == proc[r].prev
        bumped == {d \in Requests : d = b \/ Active(d) \/ Queued(d)} IN
    /\ At(r, "stopPrevious")
    /\ IF Fits(b)
       THEN /\ dep' = [d \in Requests |->
                         [dep[d] EXCEPT
                            !.status = IF d = b THEN "stop_requested" ELSE @,
                            !.kill = IF d = b THEN "none" ELSE @,
                            !.seq = IF d \in bumped THEN @ + 1 ELSE @]]
            /\ proc' = [proc EXCEPT
                          ![r].pc = "stopRow",
                          ![r].seq = IF proc[r].dep \in bumped
                                     THEN dep[proc[r].dep].seq + 1 ELSE None]
       ELSE Finish(r) /\ UNCHANGED dep
    /\ UNCHANGED <<row, queue, bots, free, kind, faults>>

\* Its STOP goes under the trace of the replacement.
SendReplacementStop(r) ==
    LET b == proc[r].prev  q == proc[r].dep IN
    /\ At(r, "stopRow") /\ kind[r] = "start"
    /\ IF \E c \in Commands : row[c].dep = b /\ row[c].repl = q
       THEN Finish(r) /\ UNCHANGED row
       ELSE Insert(r, <<"STOP", r>>, StopRow(b, "replacement", q, proc[r].seq))
    /\ UNCHANGED <<dep, queue, bots, free, kind, faults>>

\* The STOP could not be published: its row stays pending all the same.
Unreplace(r) ==
    LET b == proc[r].prev  q == proc[r].dep IN
    /\ At(r, "unreplace")
    /\ dep' = [d \in Requests |->
                 [dep[d] EXCEPT
                    !.status = IF d = b /\ Fits(b) THEN proc[r].old
                               ELSE IF d = q THEN "failed" ELSE @,
                    !.kill = IF d = b /\ Fits(b) THEN "none" ELSE @]]
    /\ Finish(r)
    /\ UNCHANGED <<row, queue, bots, free, kind, faults>>

----------------------------------------------------------------------------
(* stop_deployment, the user's OFF.                                        *)

OffBegin(r, d) ==
    /\ dep[d].status # "absent"
    /\ Begin(r, "off",
         [Idle EXCEPT !.pc = IF Terminal(d) THEN "offAgain" ELSE "offFlip",
                      !.dep = d, !.placed = dep[d].placed])
    /\ UNCHANGED <<dep, row, queue, bots, free, faults>>

\* Already stopped: only what waits for it is invalidated.
OffAgain(r) ==
    /\ At(r, "offAgain")
    /\ CancelQueued
    /\ FailStarts(Requests)
    /\ Finish(r)
    /\ UNCHANGED <<queue, bots, free, kind, faults>>

OffFlip(r) ==
    LET d == proc[r].dep IN
    /\ At(r, "offFlip")
    /\ IF Fits(d) THEN dep' = Bumped(d, "stop_requested") /\ Goto(r, "offQueued")
       ELSE Finish(r) /\ UNCHANGED dep
    /\ UNCHANGED <<row, queue, bots, free, kind, faults>>

\* dispatch refuses a deployment that was read without a runner.
OffQueued(r) ==
    /\ At(r, "offQueued")
    /\ CancelQueued
    /\ IF proc[r].placed THEN Goto(r, "stopRow") ELSE Finish(r)
    /\ UNCHANGED <<row, queue, bots, free, kind, faults>>

SendOff(r) ==
    LET d == proc[r].dep IN
    /\ At(r, "stopRow") /\ kind[r] = "off"
    /\ IF StopKnown(d) THEN Goto(r, "failStarts") /\ UNCHANGED row
       ELSE Insert(r, <<"STOP", r>>, StopRow(d, "off", None, dep[d].seq))
    /\ UNCHANGED <<dep, queue, bots, free, kind, faults>>

\* The last step of an OFF, and of a cancel: the STARTs of the account, or those of
\* the deployment, fail.
FailPending(p) ==
    /\ At(p, "failStarts")
    /\ FailStarts(IF p \in Requests /\ kind[p] = "off" THEN Requests ELSE {proc[p].dep})
    /\ IF p = Runner THEN Goto(p, "replacementFailed") ELSE Finish(p)
    /\ UNCHANGED <<dep, queue, bots, free, kind, faults>>

----------------------------------------------------------------------------
(* cancel_pending_deployment: a user's cancel, or the clean-up of a start  *)
(* that could not be published.                                            *)

CancelBegin(r, d) ==
    /\ dep[d].status = "start_requested"
    /\ Begin(r, "cancel", [Idle EXCEPT !.pc = "cancel", !.dep = d])
    /\ UNCHANGED <<dep, row, queue, bots, free, faults>>

CancelFlip(p) ==
    /\ At(p, "cancel")
    /\ dep' = Bumped(proc[p].dep, "stopped")
    /\ Goto(p, "cancelQueued")
    /\ UNCHANGED <<row, queue, bots, free, kind, faults>>

CancelSweep(p) ==
    /\ At(p, "cancelQueued")
    /\ CancelQueued
    /\ FailStarts(Requests)
    /\ Goto(p, "cancelRow")
    /\ free' = TRUE
    /\ UNCHANGED <<queue, bots, kind, faults>>

SendCancel(p) ==
    LET d == proc[p].dep
        c == <<"CANCEL", IF p = Runner THEN proc[p].cmd[2] ELSE p>> IN
    /\ At(p, "cancelRow")
    /\ IF StopKnown(d) THEN Goto(p, "failStarts") /\ UNCHANGED row
       ELSE Insert(p, c, StopRow(d, "cancel", None, None))
    /\ UNCHANGED <<dep, queue, bots, free, kind, faults>>

----------------------------------------------------------------------------
(* update_deployment_config and request_config_restart.                    *)

RestartBegin(r, d) ==
    /\ Active(d) /\ dep[d].placed
    /\ Pending => OpenRestart(d)
    /\ Begin(r, "restart",
         [Idle EXCEPT !.pc = "restart", !.dep = d, !.old = dep[d].status])
    /\ UNCHANGED <<dep, row, queue, bots, free, faults>>

\* One restart at a time; no intent_seq is bumped.
RestartFlip(r) ==
    LET d == proc[r].dep IN
    /\ At(r, "restart")
    /\ IF OpenRestart(d) \/ ~Fits(d) THEN Finish(r) /\ UNCHANGED dep
       ELSE SetStatus(d, "stop_requested") /\ Goto(r, "stopRow")
    /\ UNCHANGED <<row, queue, bots, free, kind, faults>>

SendRestartStop(r) ==
    /\ At(r, "stopRow") /\ kind[r] = "restart"
    /\ Insert(r, <<"STOP", r>>, StopRow(proc[r].dep, "restart", None, None))
    /\ UNCHANGED <<dep, queue, bots, free, kind, faults>>

RestartRestore(r) ==
    LET d == proc[r].dep IN
    /\ At(r, "restore")
    /\ IF Fits(d) THEN SetStatus(d, proc[r].old) ELSE UNCHANGED dep
    /\ Finish(r)
    /\ UNCHANGED <<row, queue, bots, free, kind, faults>>

----------------------------------------------------------------------------
(* The runner, and the ingestion of the event it posts.                    *)

\* The runner takes the next command whatever its row says, acknowledges it, and
\* posts BOT_STARTED or BOT_STOPPED; either reads the deployment first.  Every STOP
\* asks for the terminal to be killed: unless the event says that it is, or the
\* deployment does, the stop is not over.
Execute ==
    LET c == Head(queue)  d == row[c].dep
        Post(pc) == [proc EXCEPT ![Runner] = [Idle EXCEPT !.pc = pc, !.dep = d, !.cmd = c]]
    IN
    /\ queue # <<>>
    /\ At(Runner, "idle")
    /\ queue' = Tail(queue)
    /\ row' = [row EXCEPT ![c].status = "acknowledged"]
    /\ \/ /\ IsStart(c)
          /\ bots' = bots \cup {d}
          /\ proc' = IF WantsRunning(d) THEN Post("started") ELSE proc
       \/ /\ ~IsStart(c)
          /\ bots' = bots \ {d}
          /\ \/ proc' = Post("stopped")
             \/ dep[d].kill # "done" /\ proc' = Post("killing")
    /\ UNCHANGED <<dep, free, kind, faults>>

\* BOT_STOPPED with the terminal still to be killed.
StoppedPending ==
    LET c == proc[Runner].cmd  d == proc[Runner].dep IN
    /\ At(Runner, "killing")
    /\ IF Fits(d)
       THEN /\ dep' = [dep EXCEPT ![d].status = "stop_requested", ![d].kill = "pending"]
            /\ Goto(Runner, "killed")
            /\ UNCHANGED row
       ELSE /\ row' = [row EXCEPT ![c].status = "failed"]
            /\ Finish(Runner)
            /\ UNCHANGED dep
    /\ UNCHANGED <<queue, bots, free, kind, faults>>

\* SLOT_TERMINAL_KILL_DONE ends the stop that waits for it.  A deployment written in
\* between no longer does: it is noted that the terminal is gone.
KillDone ==
    LET d == proc[Runner].dep IN
    /\ At(Runner, "killed")
    /\ CASE WantsRunning(d) \/ dep[d].kill = "ended" -> Finish(Runner)
         [] ~WantsRunning(d) /\ dep[d].kill = "pending" -> Goto(Runner, "stopped")
         [] OTHER -> Goto(Runner, "noting")
    /\ UNCHANGED <<dep, row, queue, bots, free, kind, faults>>

KillNoted ==
    LET d == proc[Runner].dep IN
    /\ At(Runner, "noting")
    /\ dep' = IF Fits(d)
              THEN [dep EXCEPT ![d].status = "stop_requested", ![d].kill = "done"]
              ELSE dep
    /\ Finish(Runner)
    /\ UNCHANGED <<row, queue, bots, free, kind, faults>>

\* A write the unique index refuses is an error to the runner, which reports the
\* command failed.
StartedWrite ==
    LET d == proc[Runner].dep IN
    /\ At(Runner, "started")
    /\ IF Fits(d) THEN SetStatus(d, "running") /\ UNCHANGED row
       ELSE /\ row' = [row EXCEPT ![proc[Runner].cmd].status = "failed"]
            /\ UNCHANGED dep
    /\ Finish(Runner)
    /\ free' = FALSE
    /\ UNCHANGED <<queue, bots, kind, faults>>

\* _finalize_stopped_deployment: the deployment and what is left of its commands.
StoppedWrite ==
    LET c == proc[Runner].cmd  d == proc[Runner].dep IN
    /\ At(Runner, "stopped")
    /\ dep' = [dep EXCEPT ![d].status = "stopped", ![d].kill = "ended"]
    /\ ReconcileTerminal({d})
    /\ CASE row[c].flow = "restart" /\ ~Followed(c) -> Goto(Runner, "reopen")
         [] row[c].flow = "replacement" /\ ~Followed(c) ->
              proc' = [proc EXCEPT ![Runner].pc = "admit", ![Runner].dep = row[c].repl]
         [] OTHER -> Finish(Runner)
    /\ free' = TRUE
    /\ UNCHANGED <<queue, bots, kind, faults>>

\* _restart_after_config_stop: whatever the deployment has become.
Reopen ==
    LET d == proc[Runner].dep IN
    /\ At(Runner, "reopen")
    /\ IF Fits(d)
       THEN SetStatus(d, "start_requested") /\ Goto(Runner, "startRow")
       ELSE SetStatus(d, "failed") /\ Finish(Runner)
    /\ free' = FALSE
    /\ UNCHANGED <<row, queue, bots, kind, faults>>

RestartFailed ==
    /\ At(Runner, "restartFailed")
    /\ SetStatus(proc[Runner].dep, "failed")
    /\ Finish(Runner)
    /\ UNCHANGED <<row, queue, bots, free, kind, faults>>

\* _start_queued_replacement_after_stop and start_queued_replacement_deployment,
\* up to the scheduler: an account that is busy fails the replacement.
ReplaceAdmit ==
    LET q == proc[Runner].dep IN
    /\ At(Runner, "admit")
    /\ CASE ~Queued(q) -> Finish(Runner) /\ UNCHANGED <<dep, row>>
         [] Queued(q) /\ (\E e \in Requests : Active(e)) ->
              SetStatus(q, "failed") /\ Finish(Runner) /\ UNCHANGED row
         [] OTHER ->
              /\ ReconcileTerminal(TerminalDeployments)
              /\ IF Pending THEN SetStatus(q, "failed") /\ Finish(Runner)
                 ELSE Goto(Runner, "activate") /\ UNCHANGED dep
    /\ UNCHANGED <<queue, bots, free, kind, faults>>

\* No slot, or any other error on the way.
ReplaceFails ==
    /\ \/ At(Runner, "activate") /\ Fault
       \/ At(Runner, "replacementFailed") /\ UNCHANGED faults
    /\ SetStatus(proc[Runner].dep, "failed")
    /\ Finish(Runner)
    /\ UNCHANGED <<row, queue, bots, free, kind>>

\* A mutant of ReplaceActivate: the intent is not looked at again.
ReplaceActivateUnread ==
    LET q == proc[Runner].dep IN
    /\ At(Runner, "activate")
    /\ IF Fits(q)
       THEN /\ dep' = [dep EXCEPT ![q].status = "start_requested", ![q].placed = TRUE]
            /\ proc' = [proc EXCEPT ![Runner].pc = "startRow",
                                    ![Runner].seq = dep[q].seq]
       ELSE SetStatus(q, "failed") /\ Finish(Runner)
    /\ free' = FALSE
    /\ UNCHANGED <<row, queue, bots, kind, faults>>

\* The latest-intent guards, and activate_queued_deployment_start, which writes
\* nothing unless the replacement is still queued.
ReplaceActivate ==
    LET c == proc[Runner].cmd  q == proc[Runner].dep IN
    /\ At(Runner, "activate")
    /\ CASE ~Queued(q) \/ (row[c].seq # None /\ dep[q].seq > row[c].seq) ->
              Finish(Runner) /\ UNCHANGED dep
         [] Queued(q) /\ ~Fits(q) -> SetStatus(q, "failed") /\ Finish(Runner)
         [] OTHER ->
              /\ dep' = [dep EXCEPT ![q].status = "start_requested", ![q].placed = TRUE]
              /\ proc' = [proc EXCEPT ![Runner].pc = "startRow",
                                      ![Runner].seq = dep[q].seq]
    /\ free' = FALSE
    /\ UNCHANGED <<row, queue, bots, kind, faults>>

----------------------------------------------------------------------------
(* The control-plane reconciler: a deployment still stop_requested long    *)
(* after the runner has nothing of it, is stopped.                         *)

HealStop(d) ==
    /\ dep[d].status = "stop_requested" /\ dep[d].placed
    /\ (free /\ d \notin bots) \/ bots = {}
    /\ \A p \in Procs : proc[p].pc \in {"idle", "done"}
    /\ dep' = [dep EXCEPT ![d].status = "stopped", ![d].kill = "ended"]
    /\ ReconcileTerminal({d})
    /\ free' = TRUE
    /\ UNCHANGED <<queue, bots, proc, kind, faults>>

----------------------------------------------------------------------------
(* Specification.                                                          *)

Arrive(r) ==
    \/ StartAdmit(r)
    \/ \E d \in Requests : OffBegin(r, d) \/ CancelBegin(r, d) \/ RestartBegin(r, d)

Dispatch(p) ==
    \/ InsertStart(p) \/ GuardStart(p) \/ DropStart(p) \/ Publish(p)
    \/ CancelFlip(p) \/ CancelSweep(p) \/ SendCancel(p) \/ FailPending(p)

RequestStep(r) ==
    \/ Dispatch(r)
    \/ StartManage(r) \/ StartPending(r) \/ StartInsert(r)
    \/ FindQueued(r) \/ CreateQueued(r) \/ FindStop(r)
    \/ StopPrevious(r) \/ SendReplacementStop(r) \/ Unreplace(r)
    \/ OffAgain(r) \/ OffFlip(r) \/ OffQueued(r) \/ SendOff(r)
    \/ RestartFlip(r) \/ SendRestartStop(r) \/ RestartRestore(r)

RunnerStep ==
    \/ Dispatch(Runner)
    \/ Execute \/ StartedWrite \/ StoppedWrite
    \/ StoppedPending \/ KillDone \/ KillNoted
    \/ Reopen \/ RestartFailed
    \/ ReplaceAdmit \/ ReplaceFails \/ ReplaceActivate

Next ==
    \/ \E r \in Requests : Arrive(r) \/ RequestStep(r)
    \/ RunnerStep
    \/ \E p \in Procs : PublishFails(p)
    \/ \E c \in Commands : Replay(c)
    \/ \E d \in Requests : HealStop(d)

Spec == Init /\ [][Next]_vars

\* Requests are served to their end, the runner works its list off, and the two
\* reconcilers go round.
Fairness ==
    /\ \A r \in Requests : WF_vars(RequestStep(r))
    /\ WF_vars(RunnerStep)
    /\ \A c \in Commands : WF_vars(Replay(c))
    /\ \A d \in Requests : WF_vars(HealStop(d))

FairSpec == Spec /\ Fairness

----------------------------------------------------------------------------
(* Properties.                                                             *)

RowStatuses == {"absent", "pending", "queued", "acknowledged", "failed"}
Flows == {"none", "start", "off", "cancel", "restart", "replacement"}
Pcs == {"idle", "done", "manage", "pending", "insert", "startRow", "guard", "publish",
        "findQueued", "createQueued", "findStop", "stopPrevious", "stopRow",
        "unreplace", "offAgain", "offFlip", "offQueued", "failStarts", "cancel",
        "cancelQueued", "cancelRow", "restart", "restore", "started", "stopped",
        "killing", "killed", "noting", "reopen", "restartFailed", "admit", "activate",
        "replacementFailed"}

DeploymentState ==
    [status : {"absent", "queued"} \cup ActiveStatuses \cup TerminalStatuses,
     placed : BOOLEAN, kill : {"none", "pending", "done", "ended"}, seq : Nat]
RowState ==
    [status : RowStatuses, dep : Requests \cup {None}, flow : Flows,
     repl : Requests \cup {None}, seq : Nat \cup {None}, by : Commands \cup {None}]
ProcessState ==
    [pc : Pcs, dep : Requests \cup {None}, prev : Requests \cup {None},
     old : {"none"} \cup ActiveStatuses, placed : BOOLEAN,
     cmd : Commands \cup {None}, seq : Nat \cup {None}]

\* The types, and what PostgreSQL's unique index keeps: one active deployment.
TypeOK ==
    /\ dep \in [Requests -> DeploymentState]
    /\ \A d, e \in Requests : Active(d) /\ Active(e) => d = e
    /\ row \in [Commands -> RowState]
    /\ queue \in Seq(Commands)
    /\ bots \subseteq Requests
    /\ free \in BOOLEAN
    /\ proc \in [Procs -> ProcessState]
    /\ \A r \in Requests : kind[r] \in {"none"} \cup Kinds[r]
    /\ faults \in 0..MaxFaults

\* A replacement cancelled while it waited is never started: once stopped or failed
\* it wants no bot again (the latest-intent guards, the conditional activation and
\* the coalescing of replacements, together).
CancelledStaysCancelled ==
    [][\A d \in Requests : Terminal(d) /\ ~dep[d].placed => ~WantsRunning(d)']_vars

\* Every replacement for which a STOP was sent is started, cancelled or failed, or
\* the runner reports that STOP failed: it does not wait for a bot that has long
\* stopped.  The exception is a configuration restart that arrives later: its writes
\* make the end of the replacement's STOP pass for that of its own, and it starts the
\* bot that was to be replaced.  This is said of one replacement at a time: of two
\* starts that overlap and both find an active deployment, the second bumps the
\* account's intent once more, which makes the first one's STOP stale.
Waiting(d) == Queued(d) /\ \E b \in Requests : OpenReplacement(b, d)
RestartedSince(d) ==
    \E r, s \in Requests :
        /\ r < s
        /\ row[<<"STOP", r>>].repl = d
        /\ row[<<"STOP", s>>].flow = "restart"
        /\ row[<<"STOP", s>>].dep = row[<<"STOP", r>>].dep
ReplacementSettles ==
    \A d \in Requests : Waiting(d) ~> ~Waiting(d) \/ RestartedSince(d)

\* Every start comes to an end: the bot runs, or the deployment is stopped, stopping
\* or failed.  A restart whose STOP could not be published is the exception: it puts
\* back the status it has read, and the event that ended the start may have come
\* in between.
StartSettles ==
    \A d \in Requests :
        dep[d].status = "start_requested" ~>
            dep[d].status # "start_requested" \/ faults > 0

AtRest ==
    /\ \A p \in Procs : proc[p].pc \in {"idle", "done"}
    /\ queue = <<>>
    /\ \A c \in Commands : row[c].status # "pending"

\* Stale intents never reach the runner: when all is done, no bot runs whose
\* deployment the user has switched off.
OffHolds == AtRest => \A d \in bots : WantsRunning(d)
=============================================================================
