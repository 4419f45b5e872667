--------------------------- MODULE BotSwitchProofs ---------------------------
(***************************************************************************)
(* What holds of BotSwitch for any requests, of any kinds, in any order,   *)
(* overlapping or not, proved.                                             *)
(***************************************************************************)
EXTENDS BotSwitch, TLAPS

(***************************************************************************)
(* The inductive invariant.  A deployment that was inserted stays, and so  *)
(* do its slot and a command row: what a process has read of them once is  *)
(* true at every later step, whatever the others do in between.            *)
(***************************************************************************)
Known(D, d) == d \in Requests /\ D[d].status # "absent"
Placed(D, d) == d \in Requests /\ D[d].placed
Sent(R, c) == c \in Commands /\ R[c].status # "absent"

\* A deployment that may run has a slot, and only one of them is active.
DeploymentsOK ==
    /\ dep \in [Requests -> DeploymentState]
    /\ \A d, e \in Requests : Active(d) /\ Active(e) => d = e
    /\ \A d \in Requests : dep[d].status \in {"start_requested", "running"} => dep[d].placed
    /\ \A d \in Requests : dep[d].placed => dep[d].status # "absent"

\* A command goes to a deployment with a slot; a replacement names another one.
RowsOK ==
    /\ row \in [Commands -> RowState]
    /\ \A c \in Commands : Sent(row, c) =>
          /\ Placed(dep, row[c].dep)
          /\ row[c].flow = "replacement" => Known(dep, row[c].repl)

QueueOK ==
    /\ queue \in Seq(Commands)
    /\ \A i \in 1..Len(queue) : Sent(row, queue[i])

BotsOK == bots \subseteq Requests /\ free \in BOOLEAN /\ faults \in 0..MaxFaults
KindsOK == kind \in [Requests -> {"none", "start", "off", "cancel", "restart"}]
           /\ \A r \in Requests : kind[r] \in {"none"} \cup Kinds[r]

Early == {"idle", "manage", "pending", "insert", "findQueued", "createQueued"}
PlacedSteps == {"startRow", "guard", "cancel", "cancelQueued", "cancelRow", "started",
                "stopped", "killing", "killed", "noting", "reopen"}

IsStop(c) == c[1] = "STOP"
IsCancel(c) == c[1] = "CANCEL"
Asked(p, K) == IF p \in Requests THEN K[p] ELSE "none"

\* A start that replaces the bot `prev`.
Replacing(p, pc, x, K) ==
    \/ pc \in {"findQueued", "createQueued", "findStop", "stopPrevious", "unreplace"}
    \/ Asked(p, K) = "start" /\ pc = "stopRow"
    \/ Asked(p, K) = "start" /\ pc = "publish" /\ IsStop(x.cmd)

\* What process p knows at step pc, of the deployments D, the rows R and the kinds K,
\* x being its record.
Allowed(p, pc, x, D, R, K) ==
    /\ pc \notin Early \cup {"done"} => Known(D, x.dep)
    /\ pc \in PlacedSteps => Placed(D, x.dep)
    /\ pc = "publish" /\ IsStart(x.cmd) => Placed(D, x.dep)
    /\ pc = "stopRow" /\ Asked(p, K) # "start" => Placed(D, x.dep)
    /\ x.placed => Placed(D, x.dep)
    /\ Replacing(p, pc, x, K) =>
          Placed(D, x.prev) /\ x.old # "none" /\ ~x.placed /\ Asked(p, K) = "start"
    /\ Asked(p, K) = "restart" /\ pc # "done" => Placed(D, x.dep) /\ x.old # "none"
    /\ pc \in {"restart", "restore"} => Asked(p, K) = "restart"
    /\ pc \in {"guard", "publish"} => Sent(R, x.cmd)
    /\ pc = "guard" => IsStart(x.cmd)
    /\ p = Runner /\ pc # "idle" => Sent(R, x.cmd)
    /\ p = Runner => ~x.placed
    /\ p \in Requests /\ K[p] = "none" => pc = "idle"
    /\ pc = "createQueued" => x.dep = p
    /\ pc = "manage" => ~x.placed /\ Asked(p, K) = "start"
    /\ pc \in {"offAgain", "offFlip", "offQueued"} => Asked(p, K) = "off"

Sound(p, x, D, R, K) == Allowed(p, x.pc, x, D, R, K)

\* Until a request inserts its deployment there is none of its number.
Fresh(p, x, D) == p \in Requests /\ x.pc \in Early => D[p].status = "absent"

ProcessesOK ==
    /\ proc \in [Procs -> ProcessState]
    /\ \A p \in Procs : Sound(p, proc[p], dep, row, kind) /\ Fresh(p, proc[p], dep)

IInv == DeploymentsOK /\ RowsOK /\ QueueOK /\ BotsOK /\ KindsOK /\ ProcessesOK

\* What a step of process p does to the deployments: none is lost, nor is a slot, and
\* the only one it may insert is its own; what ended without a slot wants none.
DeploymentsGrow ==
    \A d \in Requests : /\ Known(dep, d) => Known(dep', d)
                        /\ Placed(dep, d) => Placed(dep', d)
Inserts(p) == \A d \in Requests \ {p} : dep[d].status = "absent" => dep'[d].status = "absent"
StayEnded == \A d \in Requests : Terminal(d) /\ ~dep[d].placed => ~WantsRunning(d)'

DeploymentStep(p) == DeploymentsOK' /\ DeploymentsGrow /\ Inserts(p) /\ StayEnded

\* And to the rows.
RowStep == RowsOK' /\ \A c \in Commands : Sent(row, c) => Sent(row', c)

LEMMA Names == Runner \notin Requests /\ None \notin Requests /\ Requests \subseteq Nat
  BY SwitchAssumption

----------------------------------------------------------------------------
(* Deployments.                                                            *)

\* One deployment is written, and inserted only as the request's own.
LEMMA OneWritten ==
    ASSUME DeploymentsOK, NEW p, NEW d \in Requests,
           dep' \in [Requests -> DeploymentState],
           \A e \in Requests \ {d} : dep'[e] = dep[e],
           dep'[d].status # "absent",
           d # p => dep[d].status # "absent",
           dep'[d].status \in ActiveStatuses => Fits(d),
           dep'[d].status \in {"start_requested", "running"} => dep'[d].placed,
           dep[d].placed => dep'[d].placed,
           Terminal(d) /\ ~dep[d].placed => ~WantsRunning(d)'
    PROVE  DeploymentStep(p)
<1>1. \A e, f \in Requests : Active(e)' /\ Active(f)' => e = f
  BY DEF DeploymentsOK, Active, Fits
<1>2. /\ \A e \in Requests :
             dep'[e].status \in {"start_requested", "running"} => dep'[e].placed
      /\ \A e \in Requests : dep'[e].placed => dep'[e].status # "absent"
  BY DEF DeploymentsOK
<1>3. DeploymentsOK'
  BY <1>1, <1>2 DEF DeploymentsOK
<1>4. DeploymentsGrow /\ Inserts(p)
  BY DEF DeploymentsGrow, Inserts, Known, Placed
<1>5. StayEnded
  <2>1. ASSUME NEW e \in Requests, e # d, Terminal(e)
        PROVE  ~WantsRunning(e)'
    BY <2>1 DEF Terminal, WantsRunning, TerminalStatuses
  <2> QED BY <2>1 DEF StayEnded
<1> QED BY <1>3, <1>4, <1>5 DEF DeploymentStep

\* No deployment is written.
LEMMA NoneWritten ==
    ASSUME DeploymentsOK, NEW p, UNCHANGED dep
    PROVE  DeploymentStep(p)
  BY DEF DeploymentsOK, DeploymentStep, DeploymentsGrow, Inserts, StayEnded, Known,
         Placed, Active, Terminal, WantsRunning, TerminalStatuses

\* What a deployment that is there may be given.
GivenStatuses == ActiveStatuses \cup TerminalStatuses
KillStates == {"none", "pending", "done", "ended"}

StatusesOf == {"absent", "queued"} \cup ActiveStatuses \cup TerminalStatuses

LEMMA DeploymentForm ==
    /\ DeploymentState = [status : StatusesOf, placed : BOOLEAN, kill : KillStates, seq : Nat]
    /\ ActiveStatuses \subseteq StatusesOf
    /\ {"failed", "stop_requested"} \subseteq StatusesOf /\ "none" \in KillStates
    /\ GivenStatuses \subseteq StatusesOf
  BY DEF DeploymentState, StatusesOf, KillStates, GivenStatuses, ActiveStatuses,
         TerminalStatuses

\* A deployment that is there gets a status.
LEMMA StatusWritten ==
    ASSUME DeploymentsOK, NEW p, NEW d \in Requests, Known(dep, d),
           NEW s \in GivenStatuses,
           s \in ActiveStatuses => Fits(d),
           s \in {"start_requested", "running"} => dep[d].placed,
           dep' = [e \in Requests |-> dep'[e]],
           \A e \in Requests \ {d} : dep'[e] = dep[e],
           dep'[d] \in DeploymentState,
           dep'[d].status = s /\ dep'[d].placed = dep[d].placed
    PROVE  DeploymentStep(p)
<1>1. dep' \in [Requests -> DeploymentState]
  BY DEF DeploymentsOK
<1>2. Terminal(d) /\ ~dep[d].placed => ~WantsRunning(d)'
  BY DEF WantsRunning, GivenStatuses, ActiveStatuses, TerminalStatuses
<1>3. s # "absent"
  BY DEF GivenStatuses, ActiveStatuses, TerminalStatuses
<1> QED BY <1>1, <1>2, <1>3, OneWritten DEF Known

LEMMA KillWritten ==
    ASSUME DeploymentsOK, NEW p, NEW d \in Requests, Known(dep, d),
           NEW s \in GivenStatuses,
           s \in ActiveStatuses => Fits(d),
           s \in {"start_requested", "running"} => dep[d].placed,
           NEW k \in KillStates,
           dep' = [dep EXCEPT ![d].status = s, ![d].kill = k]
    PROVE  DeploymentStep(p)
<1>1. dep \in [Requests -> [status : StatusesOf, placed : BOOLEAN, kill : KillStates, seq : Nat]]
      /\ s \in StatusesOf
  BY DeploymentForm DEF DeploymentsOK
<1>2. /\ dep' = [e \in Requests |-> dep'[e]]
      /\ \A e \in Requests \ {d} : dep'[e] = dep[e]
      /\ dep' \in [Requests -> [status : StatusesOf, placed : BOOLEAN, kill : KillStates, seq : Nat]]
      /\ dep'[d].status = s /\ dep'[d].placed = dep[d].placed
  BY <1>1
<1>3. dep'[d] \in DeploymentState
  BY <1>2, DeploymentForm
<1> QED BY <1>2, <1>3, StatusWritten

LEMMA SetStatusStep ==
    ASSUME DeploymentsOK, NEW p, NEW d \in Requests, Known(dep, d),
           NEW s \in GivenStatuses,
           s \in ActiveStatuses => Fits(d),
           s \in {"start_requested", "running"} => dep[d].placed,
           SetStatus(d, s)
    PROVE  DeploymentStep(p)
<1>1. "none" \in KillStates
  BY DEF KillStates
<1> QED BY <1>1, KillWritten DEF SetStatus

LEMMA BumpedStep ==
    ASSUME DeploymentsOK, NEW p, NEW d \in Requests, Known(dep, d),
           NEW s \in GivenStatuses,
           s \in ActiveStatuses => Fits(d),
           s \in {"start_requested", "running"} => dep[d].placed,
           dep' = Bumped(d, s)
    PROVE  DeploymentStep(p)
<1>1. dep \in [Requests -> DeploymentState]
  BY DEF DeploymentsOK
<1>2. PICK n \in Nat : n = dep[d].seq + 1
  BY <1>1 DEF DeploymentState
<1>3. /\ dep' = [e \in Requests |-> dep'[e]]
      /\ \A e \in Requests \ {d} : dep'[e] = dep[e]
      /\ dep'[d] = [dep[d] EXCEPT !.status = s, !.kill = "none", !.seq = n]
  BY <1>1, <1>2 DEF Bumped, DeploymentState
<1>4. dep'[d] \in DeploymentState /\ dep'[d].status = s /\ dep'[d].placed = dep[d].placed
  <2>1. dep[d] \in DeploymentState
    BY <1>1
  <2>2. PICK k \in KillStates : k = "none"
    BY DEF KillStates
  <2>3. dep'[d] = [dep[d] EXCEPT !.status = s, !.kill = k, !.seq = n]
    BY <1>3, <2>2
  <2> QED BY <2>1, <2>3, DeploymentForm
<1> QED BY <1>3, <1>4, StatusWritten

\* cancel_queued_replacements_for_account.
LEMMA CancelledFields ==
    ASSUME NEW x \in DeploymentState, NEW y,
           y = [x EXCEPT !.status = "stopped", !.seq = @ + 1]
    PROVE  y \in DeploymentState /\ y.status = "stopped" /\ y.placed = x.placed
<1> DEFINE S == {"absent", "queued"} \cup ActiveStatuses \cup TerminalStatuses
           K == {"none", "pending", "done", "ended"}
<1>1. DeploymentState = [status : S, placed : BOOLEAN, kill : K, seq : Nat]
      /\ "stopped" \in S
  BY DEF DeploymentState, TerminalStatuses
<1> HIDE DEF S, K
<1>2. x \in [status : S, placed : BOOLEAN, kill : K, seq : Nat] /\ x.seq + 1 \in Nat
  BY <1>1
<1> QED BY <1>1, <1>2

LEMMA CancelQueuedStep ==
    ASSUME DeploymentsOK, NEW p, CancelQueued
    PROVE  DeploymentStep(p)
<1>1. ASSUME NEW d \in Requests
      PROVE  /\ dep'[d] \in DeploymentState
             /\ dep'[d].placed = dep[d].placed
             /\ IF Queued(d) THEN dep'[d].status = "stopped"
                ELSE dep'[d].status = dep[d].status
  <2>1. dep[d] \in DeploymentState
    BY DEF DeploymentsOK
  <2>2. dep'[d] = IF Queued(d) THEN [dep[d] EXCEPT !.status = "stopped", !.seq = @ + 1]
                  ELSE dep[d]
    BY DEF CancelQueued
  <2>3. CASE Queued(d)
    <3>1. dep'[d] = [dep[d] EXCEPT !.status = "stopped", !.seq = @ + 1]
      BY <2>2, <2>3
    <3> QED BY <2>1, <2>3, <3>1, CancelledFields
  <2>4. CASE ~Queued(d)
    BY <2>1, <2>2, <2>4
  <2> QED BY <2>3, <2>4
<1>2. dep' \in [Requests -> DeploymentState]
  BY <1>1 DEF CancelQueued
<1>3. DeploymentsOK'
  BY <1>1, <1>2 DEF DeploymentsOK, Active, ActiveStatuses
<1>4. DeploymentsGrow /\ Inserts(p) /\ StayEnded
  BY <1>1 DEF DeploymentsGrow, Inserts, StayEnded, Known, Placed, Queued, Terminal,
              TerminalStatuses, WantsRunning
<1> QED BY <1>3, <1>4 DEF DeploymentStep

----------------------------------------------------------------------------
(* Command rows.                                                           *)

\* Rows that were sent get another status.
LEMMA RowStatusesWritten ==
    ASSUME RowsOK, DeploymentsGrow, row' = [c \in Commands |-> row'[c]],
           \A c \in Commands :
               \/ row'[c] = row[c]
               \/ /\ Sent(row, c)
                  /\ \E s \in RowStatuses \ {"absent"} :
                         row'[c] = [row[c] EXCEPT !.status = s]
    PROVE  RowStep
<1>1. ASSUME NEW c \in Commands
      PROVE  /\ row'[c] \in RowState
             /\ Sent(row, c) <=> Sent(row', c)
             /\ row'[c].dep = row[c].dep
             /\ row'[c].flow = row[c].flow
             /\ row'[c].repl = row[c].repl
  <2>1. row[c] \in RowState
    BY DEF RowsOK
  <2>2. CASE row'[c] = row[c]
    BY <2>1, <2>2 DEF Sent
  <2>3. CASE Sent(row, c) /\ \E s \in RowStatuses \ {"absent"} :
                                 row'[c] = [row[c] EXCEPT !.status = s]
    <3>1. PICK s \in RowStatuses \ {"absent"} : row'[c] = [row[c] EXCEPT !.status = s]
      BY <2>3
    <3> HIDE DEF RowStatuses
    <3> QED BY <2>1, <2>3, <3>1 DEF RowState, Sent
  <2> QED BY <2>2, <2>3
<1>2. row' \in [Commands -> RowState]
  BY <1>1
<1>3. ASSUME NEW c \in Commands, Sent(row', c)
      PROVE  /\ Placed(dep', row'[c].dep)
             /\ row'[c].flow = "replacement" => Known(dep', row'[c].repl)
  <2>1. Sent(row, c) /\ row'[c].dep = row[c].dep /\ row'[c].flow = row[c].flow
        /\ row'[c].repl = row[c].repl
    BY <1>1, <1>3
  <2>2. Placed(dep, row[c].dep) /\ (row[c].flow = "replacement" => Known(dep, row[c].repl))
    BY <2>1 DEF RowsOK
  <2> QED BY <2>1, <2>2 DEF DeploymentsGrow, Known, Placed
<1>4. \A c \in Commands : Sent(row, c) => Sent(row', c)
  BY <1>1
<1> QED BY <1>2, <1>3, <1>4 DEF RowStep, RowsOK

LEMMA NoRowWritten ==
    ASSUME RowsOK, DeploymentsGrow, UNCHANGED row
    PROVE  RowStep
<1>1. row' = [c \in Commands |-> row'[c]]
  BY DEF RowsOK
<1> QED BY <1>1, RowStatusesWritten

LEMMA FailStartsStep ==
    ASSUME RowsOK, DeploymentsGrow, NEW D, FailStarts(D)
    PROVE  RowStep
<1>1. ASSUME NEW c \in Commands
      PROVE  \/ row'[c] = row[c]
             \/ Sent(row, c) /\ row'[c] = [row[c] EXCEPT !.status = "failed"]
  BY DEF FailStarts, Sent, Open, OpenStatuses
<1>2. row' = [c \in Commands |-> row'[c]]
  BY DEF FailStarts
<1>3. "failed" \in RowStatuses \ {"absent"}
  BY DEF RowStatuses
<1> QED BY <1>1, <1>2, <1>3, RowStatusesWritten

LEMMA ReconcileStep ==
    ASSUME RowsOK, DeploymentsGrow, NEW T, ReconcileTerminal(T)
    PROVE  RowStep
<1>1. ASSUME NEW c \in Commands
      PROVE  \/ row'[c] = row[c]
             \/ Sent(row, c) /\ row'[c] = [row[c] EXCEPT !.status = "failed"]
             \/ Sent(row, c) /\ row'[c] = [row[c] EXCEPT !.status = "acknowledged"]
  BY DEF ReconcileTerminal, Sent, Open, OpenStatuses
<1>2. row' = [c \in Commands |-> row'[c]]
  BY DEF ReconcileTerminal
<1>3. "failed" \in RowStatuses \ {"absent"} /\ "acknowledged" \in RowStatuses \ {"absent"}
  BY DEF RowStatuses
<1> QED BY <1>1, <1>2, <1>3, RowStatusesWritten

LEMMA RowStatusWritten ==
    ASSUME RowsOK, DeploymentsGrow, NEW c, Sent(row, c),
           NEW s \in RowStatuses \ {"absent"},
           row' = [row EXCEPT ![c].status = s]
    PROVE  RowStep
<1>1. row \in [Commands -> RowState] /\ c \in Commands
  BY DEF RowsOK, Sent
<1>2. \A b \in Commands : row'[b] = row[b] \/ (b = c /\ row'[b] = [row[b] EXCEPT !.status = s])
  BY <1>1
<1>3. row' = [b \in Commands |-> row'[b]]
  BY <1>1
<1> QED BY <1>2, <1>3, RowStatusesWritten

\* The row of a command to d is inserted.
LEMMA RowInserted ==
    ASSUME RowsOK, DeploymentsGrow, NEW c \in Commands, NEW x \in RowState,
           x.status = "pending", Placed(dep', x.dep),
           x.flow = "replacement" => Known(dep', x.repl),
           row' = [row EXCEPT ![c] = x]
    PROVE  RowStep /\ Sent(row', c)
<1>1. /\ row' \in [Commands -> RowState] /\ row'[c] = x
      /\ \A b \in Commands : b # c => row'[b] = row[b]
  BY DEF RowsOK
<1>2. ASSUME NEW b \in Commands, Sent(row', b)
      PROVE  /\ Placed(dep', row'[b].dep)
             /\ row'[b].flow = "replacement" => Known(dep', row'[b].repl)
  <2>1. CASE b = c
    BY <1>1, <2>1
  <2>2. CASE b # c
    <3>1. row'[b] = row[b] /\ Sent(row, b)
      BY <1>1, <1>2, <2>2 DEF Sent
    <3> QED BY <3>1 DEF RowsOK, DeploymentsGrow, Known, Placed
  <2> QED BY <2>1, <2>2
<1>3. Sent(row', c) /\ \A b \in Commands : Sent(row, b) => Sent(row', b)
  BY <1>1 DEF Sent
<1> QED BY <1>1, <1>2, <1>3 DEF RowStep, RowsOK

\* The queue of an unchanged list, and of one that a command is appended to.
LEMMA QueueStays ==
    ASSUME QueueOK, RowStep, UNCHANGED queue
    PROVE  QueueOK'
  BY DEF QueueOK, RowStep, Sent

LEMMA QueueAppends ==
    ASSUME QueueOK, RowStep, NEW c, Sent(row, c), queue' = Append(queue, c)
    PROVE  QueueOK'
<1>1. c \in Commands /\ Sent(row', c)
  BY DEF Sent, RowStep
<1>2. queue' \in Seq(Commands) /\ Len(queue') = Len(queue) + 1
  BY <1>1 DEF QueueOK
<1>3. ASSUME NEW i \in 1..Len(queue')
      PROVE  Sent(row', queue'[i])
  <2>1. CASE i \in 1..Len(queue)
    <3>1. queue'[i] = queue[i] /\ Sent(row, queue[i])
      BY <2>1 DEF QueueOK
    <3>2. queue[i] \in Commands
      BY <3>1 DEF Sent
    <3> QED BY <3>1, <3>2 DEF RowStep
  <2>2. CASE i = Len(queue) + 1
    <3>1. queue'[i] = c
      BY <2>2 DEF QueueOK
    <3> QED BY <1>1, <3>1
  <2>3. Len(queue) \in Nat
    BY DEF QueueOK
  <2> QED BY <1>2, <2>1, <2>2, <2>3
<1> QED BY <1>2, <1>3 DEF QueueOK

----------------------------------------------------------------------------
(* Processes.                                                              *)

\* What a process has read stays true.
LEMMA SoundStays ==
    ASSUME DeploymentsGrow, RowStep, NEW q, NEW x,
           Sound(q, x, dep, row, kind), q \in Requests => kind'[q] = kind[q]
    PROVE  Sound(q, x, dep', row', kind')
<1>1. Asked(q, kind') = Asked(q, kind)
  BY DEF Asked
<1>2. Replacing(q, x.pc, x, kind') = Replacing(q, x.pc, x, kind)
  BY <1>1 DEF Replacing
<1>3. /\ \A d : Known(dep, d) => Known(dep', d)
      /\ \A d : Placed(dep, d) => Placed(dep', d)
  BY DEF DeploymentsGrow, Known, Placed
<1>4. \A c : Sent(row, c) => Sent(row', c)
  BY DEF RowStep, Sent
<1> QED BY <1>1, <1>2, <1>3, <1>4 DEF Sound, Allowed

LEMMA Carried ==
    ASSUME ProcessesOK, DeploymentsGrow, RowStep, UNCHANGED kind, NEW p \in Procs
    PROVE  Sound(p, proc[p], dep', row', kind)
  BY SoundStays DEF ProcessesOK

LEMMA ProcessStep ==
    ASSUME ProcessesOK, DeploymentsGrow, RowStep, NEW p \in Procs, Inserts(p),
           \A q \in Requests \ {p} : kind'[q] = kind[q],
           proc' \in [Procs -> ProcessState],
           \A q \in Procs \ {p} : proc'[q] = proc[q],
           Sound(p, proc'[p], dep', row', kind'), Fresh(p, proc'[p], dep')
    PROVE  ProcessesOK'
<1>1. ASSUME NEW q \in Procs, q # p
      PROVE  Sound(q, proc[q], dep', row', kind') /\ Fresh(q, proc[q], dep')
  <2>1. Sound(q, proc[q], dep, row, kind) /\ Fresh(q, proc[q], dep)
    BY DEF ProcessesOK
  <2>2. Sound(q, proc[q], dep', row', kind')
    BY <1>1, <2>1, SoundStays
  <2>3. Fresh(q, proc[q], dep')
    BY <1>1, <2>1 DEF Fresh, Inserts
  <2> QED BY <2>2, <2>3
<1> QED BY <1>1 DEF ProcessesOK

\* No process moves.
LEMMA ProcessesStay ==
    ASSUME ProcessesOK, DeploymentsGrow, RowStep, NEW p, p \notin Requests, Inserts(p),
           UNCHANGED <<kind, proc>>
    PROVE  ProcessesOK'
<1>1. ASSUME NEW q \in Procs
      PROVE  Sound(q, proc[q], dep', row', kind') /\ Fresh(q, proc[q], dep')
  <2>1. Sound(q, proc[q], dep, row, kind) /\ Fresh(q, proc[q], dep)
    BY DEF ProcessesOK
  <2>2. Sound(q, proc[q], dep', row', kind')
    BY <2>1, SoundStays
  <2>3. Fresh(q, proc[q], dep')
    BY <2>1 DEF Fresh, Inserts
  <2> QED BY <2>2, <2>3
<1> QED BY <1>1 DEF ProcessesOK

LEMMA IdleState == Idle \in ProcessState
  BY DEF Idle, ProcessState, Pcs

LEMMA FinishStep ==
    ASSUME ProcessesOK, DeploymentsGrow, RowStep, NEW p \in Procs, Inserts(p),
           UNCHANGED kind, proc[p].pc # "idle", Finish(p)
    PROVE  ProcessesOK'
<1>1. /\ proc'[p] = IF p = Runner THEN Idle ELSE [Idle EXCEPT !.pc = "done"]
      /\ \A q \in Procs \ {p} : proc'[q] = proc[q]
      /\ proc' = [q \in Procs |-> proc'[q]]
  BY DEF Finish, ProcessesOK
<1>2. [Idle EXCEPT !.pc = "done"] \in ProcessState
  BY DEF Idle, ProcessState, Pcs
<1>3. proc' \in [Procs -> ProcessState]
  BY <1>1, <1>2, IdleState DEF ProcessesOK
<1>4. p \in Requests => kind[p] # "none"
  BY DEF ProcessesOK, Sound, Allowed
<1>5. Sound(p, proc'[p], dep', row', kind) /\ Fresh(p, proc'[p], dep')
  <2>1. CASE p = Runner
    <3>1. proc'[p] = Idle
      BY <1>1, <2>1
    <3> QED BY <2>1, <3>1, Names DEF Sound, Allowed, Fresh, Idle, Early, PlacedSteps, Asked, Replacing
  <2>2. CASE p # Runner
    <3>1. proc'[p] = [Idle EXCEPT !.pc = "done"] /\ p \in Requests
      BY <1>1, <2>2 DEF Procs
    <3> QED BY <1>4, <2>2, <3>1 DEF Sound, Allowed, Fresh, Idle, Early, PlacedSteps, Replacing
  <2> QED BY <2>1, <2>2
<1> QED BY <1>1, <1>3, <1>5, ProcessStep

\* What a process may name, carry and count, and the status it may remember.
Deployed == Requests \cup {None}
Carrying == Commands \cup {None}
Numbers == Nat \cup {None}
OldStatuses == {"none"} \cup ActiveStatuses

LEMMA ProcessForm ==
    ProcessState = [pc : Pcs, dep : Deployed, prev : Deployed, old : OldStatuses,
                    placed : BOOLEAN, cmd : Carrying, seq : Numbers]
  BY DEF ProcessState, Deployed, Carrying, Numbers, OldStatuses

LEMMA GotoEffect ==
    ASSUME ProcessesOK, NEW p \in Procs, NEW pc \in Pcs, Goto(p, pc)
    PROVE  /\ proc' \in [Procs -> ProcessState]
           /\ \A q \in Procs \ {p} : proc'[q] = proc[q]
           /\ proc'[p].pc = pc /\ proc'[p].cmd = proc[p].cmd
           /\ proc'[p].dep = proc[p].dep /\ proc'[p].prev = proc[p].prev
           /\ proc'[p].old = proc[p].old /\ proc'[p].placed = proc[p].placed
<1>1. proc \in [Procs -> ProcessState]
  BY DEF ProcessesOK
<1>2. proc' = [proc EXCEPT ![p].pc = pc]
  BY DEF Goto
<1> QED BY <1>1, <1>2, ProcessForm

----------------------------------------------------------------------------
(* Steps of one process.                                                   *)

LEMMA Together ==
    ASSUME NEW p, DeploymentStep(p), RowStep, QueueOK', BotsOK', KindsOK', ProcessesOK'
    PROVE  IInv' /\ StayEnded
  BY DEF IInv, DeploymentStep, RowStep

\* What a step does not touch.
LEMMA Still ==
    ASSUME IInv, NEW p
    PROVE  /\ UNCHANGED dep => DeploymentStep(p)
           /\ DeploymentStep(p) /\ UNCHANGED row => RowStep
           /\ RowStep /\ UNCHANGED queue => QueueOK'
           /\ UNCHANGED <<bots, free, faults>> => BotsOK'
<1>1. UNCHANGED dep => DeploymentStep(p)
  BY NoneWritten DEF IInv
<1>2. DeploymentStep(p) /\ UNCHANGED row => RowStep
  BY NoRowWritten DEF IInv, DeploymentStep
<1>3. RowStep /\ UNCHANGED queue => QueueOK'
  BY QueueStays DEF IInv
<1> QED BY <1>1, <1>2, <1>3 DEF IInv, BotsOK

LEMMA Knows ==
    ASSUME IInv, NEW p \in Procs
    PROVE  /\ Allowed(p, proc[p].pc, proc[p], dep, row, kind)
           /\ Fresh(p, proc[p], dep)
           /\ proc[p] \in ProcessState
  BY DEF IInv, ProcessesOK, Sound

LEMMA StillKnows ==
    ASSUME IInv, NEW p \in Procs, DeploymentStep(p), RowStep, UNCHANGED kind
    PROVE  Allowed(p, proc[p].pc, proc[p], dep', row', kind)
  BY Carried DEF IInv, DeploymentStep, Sound

\* A process ends, and one goes on to the step pc.
LEMMA ByFinish ==
    ASSUME IInv, NEW p \in Procs, Finish(p), proc[p].pc # "idle", DeploymentStep(p),
           RowStep, QueueOK', BotsOK', UNCHANGED kind
    PROVE  IInv' /\ StayEnded
<1>1. ProcessesOK'
  BY FinishStep DEF IInv, DeploymentStep
<1>2. KindsOK'
  BY DEF IInv, KindsOK
<1> QED BY <1>1, <1>2, Together

LEMMA BySame ==
    ASSUME IInv, NEW p \in Procs, DeploymentStep(p), RowStep, QueueOK', BotsOK',
           UNCHANGED kind,
           proc' \in [Procs -> ProcessState],
           \A q \in Procs \ {p} : proc'[q] = proc[q],
           Allowed(p, proc'[p].pc, proc'[p], dep', row', kind), Fresh(p, proc'[p], dep')
    PROVE  IInv' /\ StayEnded
<1>1. ProcessesOK'
  BY ProcessStep DEF IInv, DeploymentStep, Sound
<1>2. KindsOK'
  BY DEF IInv, KindsOK
<1> QED BY <1>1, <1>2, Together

LEMMA ByGoto ==
    ASSUME IInv, NEW p \in Procs, NEW pc \in Pcs, pc \notin Early, Goto(p, pc),
           DeploymentStep(p), RowStep, QueueOK', BotsOK', UNCHANGED kind,
           Allowed(p, pc, proc[p], dep', row', kind)
    PROVE  IInv' /\ StayEnded
<1>1. /\ proc' \in [Procs -> ProcessState]
      /\ \A q \in Procs \ {p} : proc'[q] = proc[q]
      /\ proc'[p].pc = pc /\ proc'[p].cmd = proc[p].cmd
      /\ proc'[p].dep = proc[p].dep /\ proc'[p].prev = proc[p].prev
      /\ proc'[p].old = proc[p].old /\ proc'[p].placed = proc[p].placed
  BY GotoEffect DEF IInv
<1>2. Allowed(p, proc'[p].pc, proc'[p], dep', row', kind)
  BY <1>1 DEF Allowed, Replacing
<1>3. Fresh(p, proc'[p], dep')
  BY <1>1 DEF Fresh
<1> QED BY <1>1, <1>2, <1>3, BySame

LEMMA Statuses ==
    /\ {"start_requested", "running", "stop_requested"} \subseteq GivenStatuses
    /\ {"stopped", "failed"} \subseteq GivenStatuses
    /\ "stopped" \notin ActiveStatuses /\ "failed" \notin ActiveStatuses
  BY DEF GivenStatuses, ActiveStatuses, TerminalStatuses

----------------------------------------------------------------------------
(* CommandRouterService.dispatch.                                          *)

LEMMA InsertEffect ==
    ASSUME proc \in [Procs -> ProcessState], NEW p \in Procs, NEW c \in Commands, NEW x,
           Insert(p, c, x)
    PROVE  /\ proc' \in [Procs -> ProcessState]
           /\ \A q \in Procs \ {p} : proc'[q] = proc[q]
           /\ proc'[p].pc = IF IsStart(c) THEN "guard" ELSE "publish"
           /\ proc'[p].cmd = c
           /\ proc'[p].dep = proc[p].dep /\ proc'[p].prev = proc[p].prev
           /\ proc'[p].old = proc[p].old /\ proc'[p].placed = proc[p].placed
<1>1. PICK pc \in Pcs : pc = IF IsStart(c) THEN "guard" ELSE "publish"
  BY DEF Pcs
<1>2. c \in Carrying /\ proc' = [proc EXCEPT ![p].pc = pc, ![p].cmd = c]
  BY <1>1 DEF Insert, Carrying
<1>3. /\ proc' \in [Procs -> ProcessState]
      /\ \A q \in Procs \ {p} : proc'[q] = proc[q]
      /\ proc'[p].pc = pc /\ proc'[p].cmd = c
      /\ proc'[p].dep = proc[p].dep /\ proc'[p].prev = proc[p].prev
      /\ proc'[p].old = proc[p].old /\ proc'[p].placed = proc[p].placed
  BY <1>2, ProcessForm
<1> QED BY <1>1, <1>3

LEMMA InsertInv ==
    ASSUME IInv, NEW p \in Procs, NEW c \in Commands, NEW x \in RowState, Insert(p, c, x),
           x.status = "pending", Placed(dep, x.dep),
           x.flow = "replacement" => Known(dep, x.repl),
           UNCHANGED <<dep, queue, bots, free, kind, faults>>,
           \/ IsStart(c) /\ proc[p].pc = "startRow"
           \/ IsStop(c) /\ proc[p].pc = "stopRow"
           \/ IsCancel(c) /\ proc[p].pc = "cancelRow"
    PROVE  IInv' /\ StayEnded
<1> DEFINE pc == IF IsStart(c) THEN "guard" ELSE "publish"
<1>1. DeploymentStep(p) /\ DeploymentsGrow
  BY Still DEF DeploymentStep
<1>2. RowStep /\ Sent(row', c)
  <2>1. row' = [row EXCEPT ![c] = x] /\ dep' = dep
    BY DEF Insert
  <2>2. Placed(dep', x.dep) /\ (x.flow = "replacement" => Known(dep', x.repl))
    BY <2>1
  <2> QED BY <1>1, <2>1, <2>2, RowInserted DEF IInv
<1>3. QueueOK' /\ BotsOK'
  BY <1>1, <1>2, Still
<1>4. /\ proc' \in [Procs -> ProcessState]
      /\ \A q \in Procs \ {p} : proc'[q] = proc[q]
      /\ proc'[p].pc = pc /\ proc'[p].cmd = c
      /\ proc'[p].dep = proc[p].dep /\ proc'[p].prev = proc[p].prev
      /\ proc'[p].old = proc[p].old /\ proc'[p].placed = proc[p].placed
  BY InsertEffect DEF IInv, ProcessesOK
<1>5. Allowed(p, proc'[p].pc, proc'[p], dep', row', kind)
  <2>1. Allowed(p, proc[p].pc, proc[p], dep', row', kind)
    BY <1>1, <1>2, StillKnows
  <2> QED BY <1>2, <1>4, <2>1 DEF Allowed, Early, PlacedSteps, Replacing, IsStart, IsStop, IsCancel
<1>6. Fresh(p, proc'[p], dep')
  BY <1>4 DEF Fresh, Early
<1> QED BY <1>1, <1>2, <1>3, <1>4, <1>5, <1>6, BySame

LEMMA InsertStartInv ==
    ASSUME IInv, NEW p \in Procs, InsertStart(p)
    PROVE  IInv' /\ StayEnded
<1> DEFINE c == <<"START", IF p = Runner THEN proc[p].cmd[2] ELSE p>>
           x == [NoRow EXCEPT !.status = "pending", !.dep = proc[p].dep, !.flow = "start",
                              !.seq = proc[p].seq, !.by = proc[p].cmd]
<1>1. /\ proc[p].pc = "startRow" /\ Insert(p, c, x)
      /\ UNCHANGED <<dep, queue, bots, free, kind, faults>>
  BY DEF InsertStart, At
<1>2. /\ Placed(dep, proc[p].dep) /\ proc[p] \in ProcessState
      /\ p = Runner => proc[p].cmd \in Commands
  BY <1>1, Knows DEF Allowed, PlacedSteps, Sent
<1>3. c \in Commands /\ IsStart(c)
  BY <1>2 DEF Commands, IsStart, Procs
<1>4. /\ x \in RowState /\ x.status = "pending" /\ x.dep = proc[p].dep
      /\ x.flow # "replacement"
  BY <1>2 DEF NoRow, RowState, RowStatuses, Flows, ProcessState
<1> HIDE DEF c, x
<1> QED BY <1>1, <1>2, <1>3, <1>4, InsertInv

LEMMA GuardStartInv ==
    ASSUME IInv, NEW p \in Procs, GuardStart(p)
    PROVE  IInv' /\ StayEnded
<1>1. /\ proc[p].pc = "guard" /\ Goto(p, "publish")
      /\ UNCHANGED <<dep, row, queue, bots, free, kind, faults>>
  BY DEF GuardStart, At
<1>2. DeploymentStep(p) /\ RowStep /\ QueueOK' /\ BotsOK'
  BY <1>1, Still
<1>3. Allowed(p, "publish", proc[p], dep', row', kind)
  BY <1>1, <1>2, StillKnows DEF Allowed, Early, PlacedSteps, Replacing, IsStart, IsStop
<1> QED BY <1>1, <1>2, <1>3, ByGoto DEF Pcs, Early

LEMMA DropStartInv ==
    ASSUME IInv, NEW p \in Procs, DropStart(p)
    PROVE  IInv' /\ StayEnded
<1>1. /\ proc[p].pc = "guard" /\ Finish(p)
      /\ row' = [row EXCEPT ![proc[p].cmd].status = "failed"]
      /\ UNCHANGED <<dep, queue, bots, free, kind, faults>>
  BY DEF DropStart, At
<1>2. DeploymentStep(p) /\ DeploymentsGrow
  BY <1>1, Still DEF DeploymentStep
<1>3. RowStep
  <2>1. Sent(row, proc[p].cmd)
    BY <1>1, Knows DEF Allowed
  <2>2. "failed" \in RowStatuses \ {"absent"}
    BY DEF RowStatuses
  <2> QED BY <1>1, <1>2, <2>1, <2>2, RowStatusWritten DEF IInv
<1>4. QueueOK' /\ BotsOK'
  BY <1>1, <1>2, <1>3, Still
<1> QED BY <1>1, <1>2, <1>3, <1>4, ByFinish

LEMMA DeliverStep ==
    ASSUME IInv, NEW c, Sent(row, c), Deliver(c), UNCHANGED dep
    PROVE  RowStep /\ QueueOK'
<1>1. DeploymentsGrow
  BY Still DEF DeploymentStep
<1>2. RowStep
  <2>1. row[c] \in RowState
    BY DEF IInv, RowsOK, Sent
  <2>2. PICK s \in RowStatuses \ {"absent"} : s = IF Open(c) THEN "queued" ELSE row[c].status
    BY <2>1 DEF RowStatuses, RowState, Sent
  <2>3. row' = [row EXCEPT ![c].status = s]
    <3>1. CASE Open(c)
      BY <2>2, <3>1 DEF Deliver
    <3>2. CASE ~Open(c)
      BY <2>2, <3>2 DEF Deliver
    <3> QED BY <3>1, <3>2
  <2> QED BY <1>1, <2>3, RowStatusWritten DEF IInv
<1>3. queue' = Append(queue, c)
  BY DEF Deliver
<1> QED BY <1>2, <1>3, QueueAppends DEF IInv

LEMMA PublishInv ==
    ASSUME IInv, NEW p \in Procs, Publish(p)
    PROVE  IInv' /\ StayEnded
<1>1. /\ proc[p].pc = "publish" /\ Deliver(proc[p].cmd)
      /\ Goto(p, "failStarts") \/ Finish(p)
      /\ UNCHANGED <<dep, bots, free, kind, faults>>
  BY DEF Publish, At
<1>2. Sent(row, proc[p].cmd)
  BY <1>1, Knows DEF Allowed
<1>3. DeploymentStep(p) /\ RowStep /\ QueueOK' /\ BotsOK'
  BY <1>1, <1>2, DeliverStep, Still
<1>4. CASE Goto(p, "failStarts")
  <2>1. Allowed(p, "failStarts", proc[p], dep', row', kind)
    BY <1>1, <1>3, StillKnows DEF Allowed, Early, PlacedSteps, Replacing
  <2> QED BY <1>1, <1>3, <1>4, <2>1, ByGoto DEF Pcs, Early
<1>5. CASE Finish(p)
  BY <1>1, <1>3, <1>5, ByFinish
<1> QED BY <1>1, <1>4, <1>5

LEMMA CancelFlipInv ==
    ASSUME IInv, NEW p \in Procs, CancelFlip(p)
    PROVE  IInv' /\ StayEnded
<1> DEFINE d == proc[p].dep
<1>1. /\ proc[p].pc = "cancel" /\ dep' = Bumped(d, "stopped") /\ Goto(p, "cancelQueued")
      /\ UNCHANGED <<row, queue, bots, free, kind, faults>>
  BY DEF CancelFlip, At
<1>2. Known(dep, d)
  BY <1>1, Knows DEF Allowed, Early
<1>3. DeploymentStep(p)
  <2>1. "stopped" \in GivenStatuses /\ "stopped" \notin ActiveStatuses
    BY DEF GivenStatuses, ActiveStatuses, TerminalStatuses
  <2> QED BY <1>1, <1>2, <2>1, BumpedStep DEF Known, IInv
<1>4. RowStep /\ QueueOK' /\ BotsOK'
  BY <1>1, <1>3, Still
<1>5. Allowed(p, "cancelQueued", proc[p], dep', row', kind)
  BY <1>1, <1>3, <1>4, StillKnows DEF Allowed, Early, PlacedSteps, Replacing
<1> QED BY <1>1, <1>3, <1>4, <1>5, ByGoto DEF Pcs, Early

LEMMA FaultBound ==
    ASSUME IInv, Fault, UNCHANGED <<bots, free>>
    PROVE  BotsOK'
  BY SwitchAssumption DEF IInv, BotsOK, Fault

LEMMA PublishFailsInv ==
    ASSUME IInv, NEW p \in Procs, PublishFails(p)
    PROVE  IInv' /\ StayEnded
<1> DEFINE next == AfterFailure(p)
<1>1. /\ proc[p].pc = "publish" /\ Fault
      /\ IF next = "done" THEN Finish(p) ELSE Goto(p, next)
      /\ UNCHANGED <<dep, row, queue, bots, free, kind>>
  BY DEF PublishFails, At
<1>2. DeploymentStep(p) /\ RowStep /\ QueueOK' /\ BotsOK'
  BY <1>1, Still, FaultBound
<1>3. CASE next = "done"
  BY <1>1, <1>2, <1>3, ByFinish
<1>4. CASE next # "done"
  <2>1. Allowed(p, "publish", proc[p], dep', row', kind)
    BY <1>1, <1>2, StillKnows
  <2>2. \/ IsStart(proc[p].cmd) /\ next \in {"restartFailed", "cancel"}
        \/ IsStop(proc[p].cmd) /\ Asked(p, kind) = "start" /\ next = "unreplace"
        \/ IsStop(proc[p].cmd) /\ Asked(p, kind) = "restart" /\ next = "restore"
        \/ p = Runner /\ next = "replacementFailed"
    BY <1>4 DEF AfterFailure, IsStop, IsStart, Asked
  <2>3. PICK pc \in Pcs : pc = next /\ pc \notin Early
    BY <2>2 DEF Pcs, Early
  <2>4. Allowed(p, pc, proc[p], dep', row', kind)
    <3> HIDE DEF next
    <3> QED BY <2>1, <2>2, <2>3, Names DEF Allowed, Early, PlacedSteps, Replacing, Asked
  <2>5. Goto(p, pc)
    BY <1>1, <1>4, <2>3
  <2> QED BY <1>1, <1>2, <2>3, <2>4, <2>5, ByGoto
<1> QED BY <1>3, <1>4

LEMMA ReplayInv ==
    ASSUME IInv, NEW c \in Commands, Replay(c)
    PROVE  IInv' /\ StayEnded
<1>1. /\ row[c].status = "pending" /\ Deliver(c)
      /\ UNCHANGED <<dep, bots, free, proc, kind, faults>>
  BY DEF Replay
<1>2. DeploymentStep(None) /\ RowStep /\ QueueOK' /\ BotsOK'
  BY <1>1, DeliverStep, Still DEF Sent
<1>3. ProcessesOK'
  BY <1>1, <1>2, ProcessesStay, Names DEF IInv, DeploymentStep
<1>4. KindsOK'
  BY <1>1 DEF IInv, KindsOK
<1> QED BY <1>2, <1>3, <1>4, Together

----------------------------------------------------------------------------
(* Requests arrive.                                                        *)

LEMMA BeginInv ==
    ASSUME IInv, NEW r \in Requests, NEW k, NEW first \in ProcessState,
           Begin(r, k, first), UNCHANGED dep, RowStep, QueueOK', BotsOK',
           k \in {"start", "off", "cancel", "restart"}, first.pc \notin {"idle", "createQueued"},
           first.pc \notin Early \cup {"done"} => Known(dep, first.dep),
           first.pc \in PlacedSteps => Placed(dep, first.dep),
           first.pc \notin {"publish", "stopRow", "guard", "unreplace", "findStop",
                            "stopPrevious", "restore"},
           first.placed => Placed(dep, first.dep),
           first.pc = "findQueued" => Placed(dep, first.prev) /\ first.old # "none"
                                      /\ ~first.placed /\ k = "start",
           first.pc = "manage" => ~first.placed /\ k = "start",
           k = "restart" => Placed(dep, first.dep) /\ first.old # "none",
           first.pc = "restart" => k = "restart",
           first.pc \in {"offAgain", "offFlip", "offQueued"} => k = "off"
    PROVE  IInv' /\ StayEnded
<1>1. /\ k \in Kinds[r] /\ kind[r] = "none"
      /\ kind' = [kind EXCEPT ![r] = k]
      /\ proc' = [proc EXCEPT ![r] = first]
  BY DEF Begin
<1>2. DeploymentStep(r)
  BY Still
<1>3. /\ r \in Procs
      /\ proc' \in [Procs -> ProcessState] /\ proc'[r] = first
      /\ \A q \in Procs \ {r} : proc'[q] = proc[q]
  BY <1>1 DEF IInv, ProcessesOK, Procs
<1>4. KindsOK' /\ kind'[r] = k /\ \A q \in Requests \ {r} : kind'[q] = kind[q]
  BY <1>1 DEF IInv, KindsOK
<1>5. Allowed(r, first.pc, first, dep', row', kind')
  BY <1>4, Names DEF Allowed, Replacing, Asked
<1>6. Fresh(r, first, dep')
  <2>1. Allowed(r, proc[r].pc, proc[r], dep, row, kind) /\ Fresh(r, proc[r], dep)
    BY <1>3, Knows
  <2> QED BY <1>1, <2>1 DEF Allowed, Fresh, Early
<1>7. ProcessesOK'
  BY <1>2, <1>3, <1>4, <1>5, <1>6, ProcessStep DEF IInv, DeploymentStep, Sound
<1> QED BY <1>2, <1>4, <1>7, Together

LEMMA StartAdmitInv ==
    ASSUME IInv, NEW r \in Requests, StartAdmit(r)
    PROVE  IInv' /\ StayEnded
<1>1. PICK first : first = [Idle EXCEPT !.pc = "manage"]
  OBVIOUS
<1>2. Begin(r, "start", first) /\ UNCHANGED <<dep, row, queue, bots, free, faults>>
  BY <1>1 DEF StartAdmit
<1>3. DeploymentStep(r) /\ RowStep /\ QueueOK' /\ BotsOK'
  BY <1>2, Still
<1>4. first \in ProcessState /\ first.pc = "manage" /\ ~first.placed
  BY <1>1 DEF Idle, ProcessState, Pcs
<1> QED BY <1>2, <1>3, <1>4, BeginInv DEF PlacedSteps, Early

LEMMA OffBeginInv ==
    ASSUME IInv, NEW r \in Requests, NEW d \in Requests, OffBegin(r, d)
    PROVE  IInv' /\ StayEnded
<1>1. PICK first : first = [Idle EXCEPT !.pc = IF Terminal(d) THEN "offAgain" ELSE "offFlip",
                                        !.dep = d, !.placed = dep[d].placed]
  OBVIOUS
<1>2. /\ Begin(r, "off", first) /\ Known(dep, d)
      /\ UNCHANGED <<dep, row, queue, bots, free, faults>>
  BY <1>1 DEF OffBegin, Known
<1>3. /\ first \in ProcessState /\ first.pc \in {"offAgain", "offFlip"}
      /\ first.dep = d /\ (first.placed => Placed(dep, d))
  <2>1. dep[d].placed \in BOOLEAN
    BY DEF IInv, DeploymentsOK, DeploymentState
  <2> QED BY <1>1, <2>1 DEF Idle, ProcessState, Pcs, Placed
<1>4. RowStep /\ QueueOK' /\ BotsOK'
  BY <1>2, Still
<1> QED BY <1>2, <1>3, <1>4, BeginInv DEF PlacedSteps, Early

LEMMA CancelBeginInv ==
    ASSUME IInv, NEW r \in Requests, NEW d \in Requests, CancelBegin(r, d)
    PROVE  IInv' /\ StayEnded
<1>1. PICK first : first = [Idle EXCEPT !.pc = "cancel", !.dep = d]
  OBVIOUS
<1>2. /\ Begin(r, "cancel", first) /\ Placed(dep, d) /\ Known(dep, d)
      /\ UNCHANGED <<dep, row, queue, bots, free, faults>>
  BY <1>1 DEF CancelBegin, Known, Placed, IInv, DeploymentsOK
<1>3. first \in ProcessState /\ first.pc = "cancel" /\ first.dep = d /\ ~first.placed
  BY <1>1 DEF Idle, ProcessState, Pcs
<1>4. RowStep /\ QueueOK' /\ BotsOK'
  BY <1>2, Still
<1> QED BY <1>2, <1>3, <1>4, BeginInv DEF PlacedSteps, Early

LEMMA RestartBeginInv ==
    ASSUME IInv, NEW r \in Requests, NEW d \in Requests, RestartBegin(r, d)
    PROVE  IInv' /\ StayEnded
<1>1. PICK first : first = [Idle EXCEPT !.pc = "restart", !.dep = d, !.old = dep[d].status]
  OBVIOUS
<1>2. /\ Begin(r, "restart", first) /\ Active(d) /\ Placed(dep, d) /\ Known(dep, d)
      /\ UNCHANGED <<dep, row, queue, bots, free, faults>>
  BY <1>1 DEF RestartBegin, Known, Placed, IInv, DeploymentsOK
<1>3. /\ first \in ProcessState /\ first.pc = "restart" /\ first.dep = d
      /\ first.old # "none" /\ ~first.placed
  BY <1>1, <1>2 DEF Idle, ProcessState, Pcs, Active, ActiveStatuses
<1>4. RowStep /\ QueueOK' /\ BotsOK'
  BY <1>2, Still
<1> QED BY <1>2, <1>3, <1>4, BeginInv DEF PlacedSteps, Early

----------------------------------------------------------------------------
(* start_deployment and _request_replacement_start.                        *)

LEMMA StartManageInv ==
    ASSUME IInv, NEW r \in Requests, StartManage(r)
    PROVE  IInv' /\ StayEnded
<1>1. /\ proc[r].pc = "manage" /\ r \in Procs
      /\ ReconcileTerminal(TerminalDeployments)
      /\ UNCHANGED <<dep, queue, bots, free, kind, faults>>
  BY DEF StartManage, At, Procs
<1>2. DeploymentStep(r) /\ RowStep /\ QueueOK' /\ BotsOK'
  <2>1. DeploymentStep(r)
    BY <1>1, Still
  <2>2. RowStep
    BY <1>1, <2>1, ReconcileStep DEF IInv, DeploymentStep
  <2> QED BY <1>1, <2>1, <2>2, Still
<1>3. /\ Allowed(r, "manage", proc[r], dep', row', kind)
      /\ ~proc[r].placed /\ Asked(r, kind) = "start"
  BY <1>1, <1>2, StillKnows DEF Allowed
<1>4. CASE Finish(r)
  BY <1>1, <1>2, <1>4, ByFinish
<1>5. CASE Goto(r, "pending")
  <2>1. /\ proc' \in [Procs -> ProcessState]
        /\ \A q \in Procs \ {r} : proc'[q] = proc[q]
        /\ proc'[r].pc = "pending" /\ proc'[r].cmd = proc[r].cmd
        /\ proc'[r].dep = proc[r].dep /\ proc'[r].prev = proc[r].prev
        /\ proc'[r].old = proc[r].old /\ proc'[r].placed = proc[r].placed
    <3>1. "pending" \in Pcs
      BY DEF Pcs
    <3> QED BY <1>1, <1>5, <3>1, GotoEffect DEF IInv
  <2>2. Allowed(r, proc'[r].pc, proc'[r], dep', row', kind)
    BY <1>1, <1>3, <2>1, Names DEF Allowed, Early, PlacedSteps, Replacing
  <2>3. Fresh(r, proc'[r], dep')
    BY <1>1, Knows DEF Fresh, Early
  <2> QED BY <1>1, <1>2, <2>1, <2>2, <2>3, BySame
<1>6. ASSUME NEW b \in Requests, Active(b), dep[b].placed,
             proc' = [proc EXCEPT ![r].pc = "findQueued", ![r].prev = b,
                                  ![r].old = dep[b].status]
      PROVE  IInv' /\ StayEnded
  <2>1. /\ Placed(dep', b) /\ dep[b].status \in ActiveStatuses
        /\ dep[b].status # "none"
    BY <1>1, <1>6 DEF Placed, Active, ActiveStatuses
  <2>2. /\ proc' \in [Procs -> ProcessState]
        /\ \A q \in Procs \ {r} : proc'[q] = proc[q]
        /\ proc'[r].pc = "findQueued" /\ proc'[r].prev = b
        /\ proc'[r].old = dep[b].status /\ proc'[r].placed = proc[r].placed
        /\ proc'[r].dep = proc[r].dep /\ proc'[r].cmd = proc[r].cmd
    <3> DEFINE next == [proc[r] EXCEPT !.pc = "findQueued", !.prev = b,
                                       !.old = dep[b].status]
    <3>1. proc \in [Procs -> ProcessState] /\ proc[r] \in ProcessState
      BY <1>1 DEF IInv, ProcessesOK
    <3>2. proc' = [proc EXCEPT ![r] = next]
      BY <1>1, <1>6, <3>1
    <3>3. /\ next.pc = "findQueued" /\ next.prev = b /\ next.old = dep[b].status
          /\ next.placed = proc[r].placed /\ next.dep = proc[r].dep
          /\ next.cmd = proc[r].cmd
      BY <3>1 DEF ProcessState
    <3>4. next \in ProcessState
      BY <2>1, <3>1 DEF ProcessState, Pcs
    <3> HIDE DEF next
    <3> QED BY <1>1, <3>1, <3>2, <3>3, <3>4
  <2>3. Allowed(r, proc'[r].pc, proc'[r], dep', row', kind)
    BY <1>1, <1>3, <2>1, <2>2, Names DEF Allowed, Early, PlacedSteps, Replacing
  <2>4. Fresh(r, proc'[r], dep')
    BY <1>1, Knows DEF Fresh, Early
  <2> QED BY <1>1, <1>2, <2>2, <2>3, <2>4, BySame
<1>7. ASSUME NEW b \in Requests, Active(b),
             IF dep[b].placed
             THEN proc' = [proc EXCEPT ![r].pc = "findQueued", ![r].prev = b,
                                       ![r].old = dep[b].status]
             ELSE Finish(r)
      PROVE  IInv' /\ StayEnded
  BY <1>4, <1>6, <1>7
<1> QED BY <1>5, <1>7 DEF StartManage

LEMMA StartPendingInv ==
    ASSUME IInv, NEW r \in Requests, StartPending(r)
    PROVE  IInv' /\ StayEnded
<1>1. /\ proc[r].pc = "pending" /\ (Finish(r) \/ Goto(r, "insert")) /\ r \in Procs
      /\ UNCHANGED <<dep, row, queue, bots, free, kind, faults>>
  BY DEF StartPending, At, Procs
<1>2. DeploymentStep(r) /\ RowStep /\ QueueOK' /\ BotsOK'
  BY <1>1, Still
<1>3. CASE Finish(r)
  BY <1>1, <1>2, <1>3, ByFinish
<1>4. CASE Goto(r, "insert")
  <2>1. /\ proc' \in [Procs -> ProcessState]
        /\ \A q \in Procs \ {r} : proc'[q] = proc[q]
        /\ proc'[r].pc = "insert" /\ proc'[r].cmd = proc[r].cmd
        /\ proc'[r].dep = proc[r].dep /\ proc'[r].prev = proc[r].prev
        /\ proc'[r].old = proc[r].old /\ proc'[r].placed = proc[r].placed
    <3>1. "insert" \in Pcs
      BY DEF Pcs
    <3> QED BY <1>1, <1>4, <3>1, GotoEffect DEF IInv
  <2>2. Allowed(r, proc'[r].pc, proc'[r], dep', row', kind)
    BY <1>1, <1>2, <2>1, StillKnows, Names DEF Allowed, Early, PlacedSteps, Replacing
  <2>3. Fresh(r, proc'[r], dep')
    BY <1>1, Knows DEF Fresh, Early
  <2> QED BY <1>1, <1>2, <2>1, <2>2, <2>3, BySame
<1> QED BY <1>1, <1>3, <1>4

LEMMA StartInsertInv ==
    ASSUME IInv, NEW r \in Requests, StartInsert(r)
    PROVE  IInv' /\ StayEnded
<1>1. /\ proc[r].pc = "insert" /\ r \in Procs /\ free' = FALSE
      /\ UNCHANGED <<row, queue, bots, kind, faults>>
  BY DEF StartInsert, At, Procs
<1>2. BotsOK'
  BY <1>1 DEF IInv, BotsOK
<1>3. CASE Fits(r)
  <2> DEFINE new == [status |-> "start_requested", placed |-> TRUE, kill |-> "none", seq |-> 1]
  <2>1. /\ dep' = [dep EXCEPT ![r] = new]
        /\ proc' = [proc EXCEPT ![r].pc = "startRow", ![r].dep = r, ![r].seq = 1]
    BY <1>3 DEF StartInsert
  <2>2. new \in DeploymentState
    BY DEF DeploymentState, ActiveStatuses
  <2>3. dep[r].status = "absent"
    BY <1>1, Knows DEF Fresh, Early
  <2>4. /\ dep' \in [Requests -> DeploymentState] /\ dep'[r] = new
        /\ \A e \in Requests \ {r} : dep'[e] = dep[e]
    BY <2>1, <2>2 DEF IInv, DeploymentsOK
  <2>5. DeploymentStep(r)
    BY <1>3, <2>3, <2>4, OneWritten DEF IInv, Terminal, TerminalStatuses
  <2>6. RowStep /\ QueueOK'
    BY <1>1, <2>5, Still
  <2>7. /\ proc' \in [Procs -> ProcessState]
        /\ \A q \in Procs \ {r} : proc'[q] = proc[q]
        /\ proc'[r].pc = "startRow" /\ proc'[r].cmd = proc[r].cmd
        /\ proc'[r].dep = r /\ proc'[r].prev = proc[r].prev
        /\ proc'[r].old = proc[r].old /\ proc'[r].placed = proc[r].placed
    <3>1. proc \in [Procs -> ProcessState] /\ r \in Deployed /\ 1 \in Numbers /\ "startRow" \in Pcs
      BY DEF IInv, ProcessesOK, Deployed, Numbers, Pcs
    <3> DEFINE next == [proc[r] EXCEPT !.pc = "startRow", !.dep = r, !.seq = 1]
    <3>2. proc' = [proc EXCEPT ![r] = next] /\ proc[r] \in ProcessState
      BY <1>1, <2>1, <3>1
    <3>3. /\ next \in ProcessState /\ next.pc = "startRow" /\ next.cmd = proc[r].cmd
          /\ next.dep = r /\ next.prev = proc[r].prev
          /\ next.old = proc[r].old /\ next.placed = proc[r].placed
      BY <3>1, <3>2, ProcessForm
    <3> HIDE DEF next
    <3> QED BY <1>1, <3>1, <3>2, <3>3
  <2>8. Placed(dep', r) /\ Known(dep', r)
    BY <2>4 DEF Placed, Known
  <2>9. Allowed(r, proc'[r].pc, proc'[r], dep', row', kind)
    <3>1. Allowed(r, "insert", proc[r], dep', row', kind)
      BY <1>1, <2>5, <2>6, StillKnows
    <3> QED BY <2>7, <2>8, <3>1, Names DEF Allowed, Early, PlacedSteps, Replacing
  <2>10. Fresh(r, proc'[r], dep')
    BY <2>7 DEF Fresh, Early
  <2> QED BY <1>1, <1>2, <2>5, <2>6, <2>7, <2>9, <2>10, BySame
<1>4. CASE ~Fits(r)
  <2>1. Finish(r) /\ UNCHANGED dep
    BY <1>4 DEF StartInsert
  <2>2. DeploymentStep(r) /\ RowStep /\ QueueOK'
    BY <1>1, <2>1, Still
  <2> QED BY <1>1, <1>2, <2>1, <2>2, ByFinish
<1> QED BY <1>3, <1>4

NamesAt(p, pc, d) == proc' = [proc EXCEPT ![p].pc = pc, ![p].dep = d]

LEMMA FoundQueued ==
    ASSUME IInv, NEW r \in Requests, NEW pc \in Pcs, NEW d \in Requests,
           proc[r].pc = "findQueued",
           NamesAt(r, pc, d),
           pc \in {"createQueued", "findStop"},
           pc = "createQueued" => d = r,
           pc = "findStop" => Queued(d),
           UNCHANGED <<dep, row, queue, bots, free, kind, faults>>
    PROVE  IInv' /\ StayEnded
<1>1. r \in Procs
  BY DEF Procs
<1>2. DeploymentStep(r) /\ RowStep /\ QueueOK' /\ BotsOK'
  BY Still
<1>3. pc \in {"createQueued", "findStop"} /\ (pc = "createQueued" => d = r)
      /\ (pc = "findStop" => Queued(d))
  OBVIOUS
<1>4. /\ proc' \in [Procs -> ProcessState]
      /\ \A q \in Procs \ {r} : proc'[q] = proc[q]
      /\ proc'[r].pc = pc /\ proc'[r].cmd = proc[r].cmd
      /\ proc'[r].dep = d /\ proc'[r].prev = proc[r].prev
      /\ proc'[r].old = proc[r].old /\ proc'[r].placed = proc[r].placed
  <2>1. proc \in [Procs -> ProcessState] /\ d \in Deployed
    BY DEF IInv, ProcessesOK, Deployed
  <2>2. r \in Procs /\ proc' = [proc EXCEPT ![r].pc = pc, ![r].dep = d]
    BY <1>1 DEF NamesAt
  <2> QED BY <2>1, <2>2, ProcessForm
<1>5. Allowed(r, proc'[r].pc, proc'[r], dep', row', kind)
  <2>1. Allowed(r, "findQueued", proc[r], dep', row', kind)
    BY <1>1, <1>2, StillKnows
  <2>2. pc = "findStop" => Known(dep', d)
    BY <1>1, <1>3 DEF Known, Queued
  <2> QED BY <1>3, <1>4, <2>1, <2>2, Names DEF Allowed, Early, PlacedSteps, Replacing
<1>6. Fresh(r, proc'[r], dep')
  BY <1>1, Knows DEF Fresh, Early
<1> QED BY <1>1, <1>2, <1>4, <1>5, <1>6, BySame

LEMMA FindQueuedInv ==
    ASSUME IInv, NEW r \in Requests, FindQueued(r)
    PROVE  IInv' /\ StayEnded
<1>1. /\ proc[r].pc = "findQueued"
      /\ UNCHANGED <<dep, row, queue, bots, free, kind, faults>>
  BY DEF FindQueued, At
<1>2. CASE proc' = [proc EXCEPT ![r].pc = "createQueued", ![r].dep = r]
  <2>1. PICK pc \in Pcs : pc = "createQueued"
    BY DEF Pcs
  <2>2. NamesAt(r, pc, r)
    BY <1>2, <2>1 DEF NamesAt
  <2>3. pc # "findStop"
    BY <2>1
  <2> QED BY <1>1, <2>1, <2>2, <2>3, FoundQueued
<1>3. ASSUME NEW q \in Requests, Queued(q),
             proc' = [proc EXCEPT ![r].pc = "findStop", ![r].dep = q]
      PROVE  IInv' /\ StayEnded
  <2>1. PICK pc \in Pcs : pc = "findStop"
    BY DEF Pcs
  <2>2. NamesAt(r, pc, q)
    BY <1>3, <2>1 DEF NamesAt
  <2>3. pc # "createQueued"
    BY <2>1
  <2> QED BY <1>1, <1>3, <2>1, <2>2, <2>3, FoundQueued
<1> QED BY <1>2, <1>3 DEF FindQueued

LEMMA CreateQueuedInv ==
    ASSUME IInv, NEW r \in Requests, CreateQueued(r)
    PROVE  IInv' /\ StayEnded
<1>1. /\ proc[r].pc = "createQueued" /\ r \in Procs
      /\ SetStatus(r, "queued") /\ Goto(r, "findStop")
      /\ UNCHANGED <<row, queue, bots, free, kind, faults>>
  BY DEF CreateQueued, At, Procs
<1>2. dep[r].status = "absent" /\ ~dep[r].placed
  BY <1>1, Knows DEF Fresh, Early, IInv, DeploymentsOK
<1>3. /\ dep' \in [Requests -> DeploymentState]
      /\ \A e \in Requests \ {r} : dep'[e] = dep[e]
      /\ dep'[r].status = "queued"
  <2>1. dep \in [Requests -> DeploymentState]
    BY DEF IInv, DeploymentsOK
  <2> QED BY <1>1, <2>1 DEF SetStatus, DeploymentState
<1>4. DeploymentStep(r)
  BY <1>2, <1>3, OneWritten DEF IInv, Terminal, TerminalStatuses, ActiveStatuses
<1>5. RowStep /\ QueueOK' /\ BotsOK'
  BY <1>1, <1>4, Still
<1>6. Allowed(r, "findStop", proc[r], dep', row', kind)
  <2>1. Known(dep', r)
    BY <1>3 DEF Known
  <2> QED BY <1>1, <1>4, <1>5, <2>1, StillKnows
         DEF Allowed, Early, PlacedSteps, Replacing
<1> QED BY <1>1, <1>4, <1>5, <1>6, ByGoto DEF Pcs, Early

LEMMA FindStopInv ==
    ASSUME IInv, NEW r \in Requests, FindStop(r)
    PROVE  IInv' /\ StayEnded
<1>1. /\ proc[r].pc = "findStop" /\ r \in Procs /\ (Finish(r) \/ Goto(r, "stopPrevious"))
      /\ UNCHANGED <<dep, row, queue, bots, free, kind, faults>>
  BY DEF FindStop, At, Procs
<1>2. DeploymentStep(r) /\ RowStep /\ QueueOK' /\ BotsOK'
  BY <1>1, Still
<1>3. CASE Finish(r)
  BY <1>1, <1>2, <1>3, ByFinish
<1>4. CASE Goto(r, "stopPrevious")
  <2>1. Allowed(r, "stopPrevious", proc[r], dep', row', kind)
    BY <1>1, <1>2, StillKnows DEF Allowed, Early, PlacedSteps, Replacing
  <2> QED BY <1>1, <1>2, <1>4, <2>1, ByGoto DEF Pcs, Early
<1> QED BY <1>1, <1>3, <1>4

\* Several deployments are written: their slots stay, and what one is given the others
\* leave it.
LEMMA SeveralWritten ==
    ASSUME DeploymentsOK, NEW p, dep' = [d \in Requests |-> dep'[d]],
           \A d \in Requests : dep'[d] \in DeploymentState /\ dep'[d].placed = dep[d].placed,
           NEW b \in Requests, dep[b].placed,
           \A d \in Requests \ {b} : \/ dep'[d].status = dep[d].status
                                     \/ dep[d].status # "absent" /\ dep'[d].status = "failed",
           \/ dep'[b].status \in ActiveStatuses /\ Fits(b)
           \/ dep'[b].status \in {dep[b].status, "failed"}
    PROVE  DeploymentStep(p)
<1>1. dep[b].status # "absent"
  BY DEF DeploymentsOK
<1>2. ASSUME NEW d \in Requests
      PROVE  /\ dep[d].status # "absent" <=> dep'[d].status # "absent"
             /\ dep'[d].status \in {"start_requested", "running"} => dep'[d].placed
             /\ dep'[d].placed => dep'[d].status # "absent"
  BY <1>1 DEF DeploymentsOK, ActiveStatuses
<1>3. \A d, e \in Requests : Active(d)' /\ Active(e)' => d = e
  BY DEF DeploymentsOK, Active, Fits, ActiveStatuses
<1>4. DeploymentsOK'
  BY <1>2, <1>3 DEF DeploymentsOK
<1>5. DeploymentsGrow /\ Inserts(p)
  BY <1>2 DEF DeploymentsGrow, Inserts, Known, Placed
<1>6. StayEnded
  BY DEF StayEnded, Terminal, TerminalStatuses, WantsRunning
<1> QED BY <1>4, <1>5, <1>6 DEF DeploymentStep

CountsAt(p, pc, n) == proc' = [proc EXCEPT ![p].pc = pc, ![p].seq = n]

LEMMA ByCount ==
    ASSUME IInv, NEW p \in Procs, NEW pc \in Pcs, pc \notin Early, NEW n \in Numbers,
           CountsAt(p, pc, n), DeploymentStep(p), RowStep, QueueOK', BotsOK', UNCHANGED kind,
           Allowed(p, pc, proc[p], dep', row', kind)
    PROVE  IInv' /\ StayEnded
<1>1. /\ proc' \in [Procs -> ProcessState]
      /\ \A q \in Procs \ {p} : proc'[q] = proc[q]
      /\ proc'[p].pc = pc /\ proc'[p].cmd = proc[p].cmd
      /\ proc'[p].dep = proc[p].dep /\ proc'[p].prev = proc[p].prev
      /\ proc'[p].old = proc[p].old /\ proc'[p].placed = proc[p].placed
  <2>1. proc \in [Procs -> ProcessState]
    BY DEF IInv, ProcessesOK
  <2>2. proc' = [proc EXCEPT ![p].pc = pc, ![p].seq = n]
    BY DEF CountsAt
  <2> QED BY <2>1, <2>2, ProcessForm
<1>2. Allowed(p, proc'[p].pc, proc'[p], dep', row', kind)
  BY <1>1 DEF Allowed, Replacing
<1>3. Fresh(p, proc'[p], dep')
  BY <1>1 DEF Fresh
<1> QED BY <1>1, <1>2, <1>3, BySame

LEMMA StopPreviousInv ==
    ASSUME IInv, NEW r \in Requests, StopPrevious(r)
    PROVE  IInv' /\ StayEnded
<1> DEFINE b == proc[r].prev
           bumped == {d \in Requests : d = b \/ Active(d) \/ Queued(d)}
<1>1. /\ proc[r].pc = "stopPrevious" /\ r \in Procs
      /\ UNCHANGED <<row, queue, bots, free, kind, faults>>
  BY DEF StopPrevious, At, Procs
<1>2. /\ Placed(dep, b) /\ proc[r].dep \in Requests
  BY <1>1, Knows DEF Allowed, Replacing, Early, Known
<1>3. CASE Fits(b)
  <2>1. dep' = [d \in Requests |->
                  [dep[d] EXCEPT !.status = IF d = b THEN "stop_requested" ELSE @,
                                 !.kill = IF d = b THEN "none" ELSE @,
                                 !.seq = IF d \in bumped THEN @ + 1 ELSE @]]
    BY <1>3 DEF StopPrevious
  <2>2. ASSUME NEW d \in Requests
        PROVE  /\ dep'[d] \in DeploymentState /\ dep'[d].placed = dep[d].placed
               /\ dep'[d].status = IF d = b THEN "stop_requested" ELSE dep[d].status
    <3>1. dep[d] \in DeploymentState
      BY DEF IInv, DeploymentsOK
    <3>2. PICK s \in StatusesOf : s = IF d = b THEN "stop_requested" ELSE dep[d].status
      BY <3>1, DeploymentForm
    <3>3. PICK k \in KillStates : k = IF d = b THEN "none" ELSE dep[d].kill
      BY <3>1, DeploymentForm
    <3>4. PICK n \in Nat : n = IF d \in bumped THEN dep[d].seq + 1 ELSE dep[d].seq
      BY <3>1, DeploymentForm
    <3>5. dep'[d] = [dep[d] EXCEPT !.status = s, !.kill = k, !.seq = n]
      BY <2>1, <3>2, <3>3, <3>4
    <3>6. dep'[d] \in DeploymentState /\ dep'[d].placed = dep[d].placed /\ dep'[d].status = s
      BY <3>1, <3>5, DeploymentForm
    <3> QED BY <3>2, <3>6
  <2>3. dep' = [d \in Requests |-> dep'[d]]
    BY <2>1
  <2>4. DeploymentStep(r)
    BY <1>2, <1>3, <2>2, <2>3, SeveralWritten DEF IInv, Placed, ActiveStatuses
  <2>5. RowStep /\ QueueOK' /\ BotsOK'
    BY <1>1, <2>4, Still
  <2>6. PICK n \in Numbers : n = IF proc[r].dep \in bumped THEN dep[proc[r].dep].seq + 1 ELSE None
    BY <1>2 DEF Numbers, IInv, DeploymentsOK, DeploymentState
  <2>7. CountsAt(r, "stopRow", n)
    BY <1>3, <2>6 DEF StopPrevious, CountsAt
  <2>8. Allowed(r, "stopRow", proc[r], dep', row', kind)
    BY <1>1, <2>4, <2>5, StillKnows DEF Allowed, Early, PlacedSteps, Replacing
  <2> QED BY <1>1, <2>4, <2>5, <2>7, <2>8, ByCount DEF Pcs, Early
<1>4. CASE ~Fits(b)
  <2>1. Finish(r) /\ UNCHANGED dep
    BY <1>4 DEF StopPrevious
  <2>2. DeploymentStep(r) /\ RowStep /\ QueueOK' /\ BotsOK'
    BY <1>1, <2>1, Still
  <2> QED BY <1>1, <2>1, <2>2, ByFinish
<1> QED BY <1>3, <1>4

\* A STOP row.
LEMMA StopRowForm ==
    ASSUME NEW d \in Requests, NEW flow \in Flows, NEW q \in Deployed, NEW n \in Numbers
    PROVE  /\ StopRow(d, flow, q, n) \in RowState
           /\ StopRow(d, flow, q, n).status = "pending" /\ StopRow(d, flow, q, n).dep = d
           /\ StopRow(d, flow, q, n).flow = flow /\ StopRow(d, flow, q, n).repl = q
  BY DEF StopRow, NoRow, RowState, RowStatuses, Deployed, Numbers

LEMMA SendReplacementStopInv ==
    ASSUME IInv, NEW r \in Requests, SendReplacementStop(r)
    PROVE  IInv' /\ StayEnded
<1> DEFINE b == proc[r].prev  q == proc[r].dep  c == <<"STOP", r>>
           x == StopRow(b, "replacement", q, proc[r].seq)
<1>1. /\ proc[r].pc = "stopRow" /\ kind[r] = "start" /\ r \in Procs
      /\ (Finish(r) /\ UNCHANGED row) \/ Insert(r, c, x)
      /\ UNCHANGED <<dep, queue, bots, free, kind, faults>>
  BY DEF SendReplacementStop, At, Procs
<1>2. CASE Finish(r) /\ UNCHANGED row
  <2>1. DeploymentStep(r) /\ RowStep /\ QueueOK' /\ BotsOK'
    BY <1>1, <1>2, Still
  <2> QED BY <1>1, <1>2, <2>1, ByFinish
<1>3. CASE Insert(r, c, x)
  <2>1. Placed(dep, b) /\ Known(dep, q) /\ proc[r] \in ProcessState
    BY <1>1, Knows DEF Allowed, Replacing, Early, Asked
  <2>2. b \in Requests /\ q \in Deployed /\ proc[r].seq \in Numbers /\ "replacement" \in Flows
    BY <2>1 DEF Placed, ProcessState, Deployed, Numbers, Flows
  <2>3. x \in RowState /\ x.status = "pending" /\ x.dep = b /\ x.repl = q
    BY <2>2, StopRowForm
  <2>4. c \in Commands /\ IsStop(c)
    BY DEF Commands, IsStop
  <2> HIDE DEF c, x
  <2> QED BY <1>1, <1>3, <2>1, <2>3, <2>4, InsertInv
<1> QED BY <1>1, <1>2, <1>3

LEMMA UnreplaceInv ==
    ASSUME IInv, NEW r \in Requests, Unreplace(r)
    PROVE  IInv' /\ StayEnded
<1> DEFINE b == proc[r].prev  q == proc[r].dep
<1>1. /\ proc[r].pc = "unreplace" /\ r \in Procs /\ Finish(r)
      /\ dep' = [d \in Requests |->
                   [dep[d] EXCEPT
                      !.status = IF d = b /\ Fits(b) THEN proc[r].old
                                 ELSE IF d = q THEN "failed" ELSE @,
                      !.kill = IF d = b /\ Fits(b) THEN "none" ELSE @]]
      /\ UNCHANGED <<row, queue, bots, free, kind, faults>>
  BY DEF Unreplace, At, Procs
<1>2. /\ Placed(dep, b) /\ Known(dep, q) /\ proc[r].old \in ActiveStatuses
  <2>1. proc[r].old \in OldStatuses
    BY <1>1, Knows, ProcessForm
  <2> QED BY <1>1, <2>1, Knows DEF Allowed, Replacing, Early, OldStatuses
<1>3. ASSUME NEW d \in Requests
      PROVE  /\ dep'[d] \in DeploymentState /\ dep'[d].placed = dep[d].placed
             /\ dep'[d].status = IF d = b /\ Fits(b) THEN proc[r].old
                                 ELSE IF d = q THEN "failed" ELSE dep[d].status
  <2>1. dep[d] \in DeploymentState
    BY DEF IInv, DeploymentsOK
  <2>2. PICK s \in StatusesOf : s = IF d = b /\ Fits(b) THEN proc[r].old
                                    ELSE IF d = q THEN "failed" ELSE dep[d].status
    BY <1>2, <2>1, DeploymentForm
  <2>3. PICK k \in KillStates : k = IF d = b /\ Fits(b) THEN "none" ELSE dep[d].kill
    BY <2>1, DeploymentForm
  <2>4. dep'[d] = [dep[d] EXCEPT !.status = s, !.kill = k]
    BY <1>1, <2>2, <2>3
  <2>5. dep'[d] \in DeploymentState /\ dep'[d].placed = dep[d].placed /\ dep'[d].status = s
    BY <2>1, <2>4, DeploymentForm
  <2> QED BY <2>2, <2>5
<1>4. DeploymentStep(r)
  <2>1. dep' = [d \in Requests |-> dep'[d]]
    BY <1>1
  <2>2. \A d \in Requests : dep'[d] \in DeploymentState /\ dep'[d].placed = dep[d].placed
    BY <1>3
  <2>3. \A d \in Requests \ {b} : \/ dep'[d].status = dep[d].status
                                  \/ dep[d].status # "absent" /\ dep'[d].status = "failed"
    BY <1>2, <1>3 DEF Known
  <2>4. \/ dep'[b].status \in ActiveStatuses /\ Fits(b)
        \/ dep'[b].status \in {dep[b].status, "failed"}
    BY <1>2, <1>3 DEF Placed
  <2> QED BY <1>2, <2>1, <2>2, <2>3, <2>4, SeveralWritten DEF IInv, Placed
<1>5. RowStep /\ QueueOK' /\ BotsOK'
  BY <1>1, <1>4, Still
<1> QED BY <1>1, <1>4, <1>5, ByFinish

----------------------------------------------------------------------------
(* stop_deployment and cancel_pending_deployment.                          *)

LEMMA OffAgainInv ==
    ASSUME IInv, NEW r \in Requests, OffAgain(r)
    PROVE  IInv' /\ StayEnded
<1>1. /\ proc[r].pc = "offAgain" /\ r \in Procs /\ Finish(r)
      /\ CancelQueued /\ FailStarts(Requests)
      /\ UNCHANGED <<queue, bots, free, kind, faults>>
  BY DEF OffAgain, At, Procs
<1>2. DeploymentStep(r)
  BY <1>1, CancelQueuedStep DEF IInv
<1>3. RowStep
  BY <1>1, <1>2, FailStartsStep DEF IInv, DeploymentStep
<1>4. QueueOK' /\ BotsOK'
  BY <1>1, <1>2, <1>3, Still
<1> QED BY <1>1, <1>2, <1>3, <1>4, ByFinish

LEMMA OffFlipInv ==
    ASSUME IInv, NEW r \in Requests, OffFlip(r)
    PROVE  IInv' /\ StayEnded
<1> DEFINE d == proc[r].dep
<1>1. /\ proc[r].pc = "offFlip" /\ r \in Procs
      /\ \/ Fits(d) /\ dep' = Bumped(d, "stop_requested") /\ Goto(r, "offQueued")
         \/ Finish(r) /\ UNCHANGED dep
      /\ UNCHANGED <<row, queue, bots, free, kind, faults>>
  BY DEF OffFlip, At, Procs
<1>2. CASE Fits(d) /\ dep' = Bumped(d, "stop_requested") /\ Goto(r, "offQueued")
  <2>1. Known(dep, d)
    BY <1>1, Knows DEF Allowed, Early
  <2>2. DeploymentStep(r)
    <3>1. PICK s \in GivenStatuses : s = "stop_requested"
      BY Statuses
    <3>2. dep' = Bumped(d, s) /\ s \notin {"start_requested", "running"}
      BY <1>2, <3>1
    <3> QED BY <1>2, <2>1, <3>2, BumpedStep DEF Known, IInv
  <2>3. RowStep /\ QueueOK' /\ BotsOK'
    BY <1>1, <2>2, Still
  <2>4. Allowed(r, "offQueued", proc[r], dep', row', kind)
    BY <1>1, <2>2, <2>3, StillKnows DEF Allowed, Early, PlacedSteps, Replacing
  <2> QED BY <1>1, <1>2, <2>2, <2>3, <2>4, ByGoto DEF Pcs, Early
<1>3. CASE Finish(r) /\ UNCHANGED dep
  <2>1. DeploymentStep(r) /\ RowStep /\ QueueOK' /\ BotsOK'
    BY <1>1, <1>3, Still
  <2> QED BY <1>1, <1>3, <2>1, ByFinish
<1> QED BY <1>1, <1>2, <1>3

LEMMA OffQueuedInv ==
    ASSUME IInv, NEW r \in Requests, OffQueued(r)
    PROVE  IInv' /\ StayEnded
<1>1. /\ proc[r].pc = "offQueued" /\ r \in Procs /\ CancelQueued
      /\ (proc[r].placed /\ Goto(r, "stopRow")) \/ Finish(r)
      /\ UNCHANGED <<row, queue, bots, free, kind, faults>>
  BY DEF OffQueued, At, Procs
<1>2. DeploymentStep(r)
  BY <1>1, CancelQueuedStep DEF IInv
<1>3. RowStep /\ QueueOK' /\ BotsOK'
  BY <1>1, <1>2, Still
<1>4. CASE Finish(r)
  BY <1>1, <1>2, <1>3, <1>4, ByFinish
<1>5. CASE proc[r].placed /\ Goto(r, "stopRow")
  <2>1. Allowed(r, "offQueued", proc[r], dep', row', kind)
    BY <1>1, <1>2, <1>3, StillKnows
  <2>2. Allowed(r, "stopRow", proc[r], dep', row', kind)
    BY <1>5, <2>1 DEF Allowed, Early, PlacedSteps, Replacing
  <2> QED BY <1>1, <1>2, <1>3, <1>5, <2>2, ByGoto DEF Pcs, Early
<1> QED BY <1>1, <1>4, <1>5
LEMMA SendOffInv ==
    ASSUME IInv, NEW r \in Requests, SendOff(r)
    PROVE  IInv' /\ StayEnded
<1> DEFINE d == proc[r].dep  c == <<"STOP", r>>
           x == StopRow(d, "off", None, dep[d].seq)
<1>1. /\ proc[r].pc = "stopRow" /\ kind[r] = "off" /\ r \in Procs
      /\ (Goto(r, "failStarts") /\ UNCHANGED row) \/ Insert(r, c, x)
      /\ UNCHANGED <<dep, queue, bots, free, kind, faults>>
  BY DEF SendOff, At, Procs
<1>2. Placed(dep, d)
  BY <1>1, Knows DEF Allowed, Asked
<1>3. CASE Goto(r, "failStarts") /\ UNCHANGED row
  <2>1. DeploymentStep(r) /\ RowStep /\ QueueOK' /\ BotsOK'
    BY <1>1, <1>3, Still
  <2>2. Allowed(r, "failStarts", proc[r], dep', row', kind)
    BY <1>1, <2>1, StillKnows DEF Allowed, Early, PlacedSteps, Replacing
  <2> QED BY <1>1, <1>3, <2>1, <2>2, ByGoto DEF Pcs, Early
<1>4. CASE Insert(r, c, x)
  <2>1. d \in Requests /\ dep[d].seq \in Numbers /\ None \in Deployed
    BY <1>2 DEF Placed, IInv, DeploymentsOK, DeploymentState, Numbers, Deployed
  <2>2. PICK flow \in Flows : flow = "off"
    BY DEF Flows
  <2>3. x \in RowState /\ x.status = "pending" /\ x.dep = d /\ x.flow # "replacement"
    BY <2>1, <2>2, StopRowForm
  <2>4. c \in Commands /\ IsStop(c)
    BY DEF Commands, IsStop
  <2> HIDE DEF c, x
  <2> QED BY <1>1, <1>2, <1>4, <2>3, <2>4, InsertInv
<1> QED BY <1>1, <1>3, <1>4

LEMMA FailPendingInv ==
    ASSUME IInv, NEW p \in Procs, FailPending(p)
    PROVE  IInv' /\ StayEnded
<1>1. /\ proc[p].pc = "failStarts"
      /\ UNCHANGED <<dep, queue, bots, free, kind, faults>>
  BY DEF FailPending, At
<1>2. DeploymentStep(p)
  BY <1>1, Still
<1>3. RowStep
  BY <1>2, FailStartsStep DEF IInv, DeploymentStep, FailPending
<1>4. QueueOK' /\ BotsOK'
  BY <1>1, <1>2, <1>3, Still
<1>5. CASE p = Runner
  <2>1. Goto(p, "replacementFailed")
    BY <1>5 DEF FailPending
  <2>2. Allowed(p, "replacementFailed", proc[p], dep', row', kind)
    BY <1>1, <1>2, <1>3, StillKnows DEF Allowed, Early, PlacedSteps, Replacing
  <2> QED BY <1>1, <1>2, <1>3, <1>4, <2>1, <2>2, ByGoto DEF Pcs, Early
<1>6. CASE p # Runner
  <2>1. Finish(p)
    BY <1>6 DEF FailPending
  <2> QED BY <1>1, <1>2, <1>3, <1>4, <2>1, ByFinish
<1> QED BY <1>5, <1>6

LEMMA CancelSweepInv ==
    ASSUME IInv, NEW p \in Procs, CancelSweep(p)
    PROVE  IInv' /\ StayEnded
<1>1. /\ proc[p].pc = "cancelQueued" /\ Goto(p, "cancelRow") /\ free' = TRUE
      /\ CancelQueued /\ FailStarts(Requests)
      /\ UNCHANGED <<queue, bots, kind, faults>>
  BY DEF CancelSweep, At
<1>2. DeploymentStep(p)
  BY <1>1, CancelQueuedStep DEF IInv
<1>3. RowStep
  BY <1>1, <1>2, FailStartsStep DEF IInv, DeploymentStep
<1>4. QueueOK' /\ BotsOK'
  BY <1>1, <1>2, <1>3, Still DEF IInv, BotsOK
<1>5. Allowed(p, "cancelRow", proc[p], dep', row', kind)
  BY <1>1, <1>2, <1>3, StillKnows DEF Allowed, Early, PlacedSteps, Replacing
<1> QED BY <1>1, <1>2, <1>3, <1>4, <1>5, ByGoto DEF Pcs, Early

LEMMA SendCancelInv ==
    ASSUME IInv, NEW p \in Procs, SendCancel(p)
    PROVE  IInv' /\ StayEnded
<1> DEFINE d == proc[p].dep
           c == <<"CANCEL", IF p = Runner THEN proc[p].cmd[2] ELSE p>>
           x == StopRow(d, "cancel", None, None)
<1>1. /\ proc[p].pc = "cancelRow"
      /\ (Goto(p, "failStarts") /\ UNCHANGED row) \/ Insert(p, c, x)
      /\ UNCHANGED <<dep, queue, bots, free, kind, faults>>
  BY DEF SendCancel, At
<1>2. Placed(dep, d) /\ (p = Runner => proc[p].cmd \in Commands)
  BY <1>1, Knows DEF Allowed, PlacedSteps, Sent
<1>3. CASE Goto(p, "failStarts") /\ UNCHANGED row
  <2>1. DeploymentStep(p) /\ RowStep /\ QueueOK' /\ BotsOK'
    BY <1>1, <1>3, Still
  <2>2. Allowed(p, "failStarts", proc[p], dep', row', kind)
    BY <1>1, <2>1, StillKnows DEF Allowed, Early, PlacedSteps, Replacing
  <2> QED BY <1>1, <1>3, <2>1, <2>2, ByGoto DEF Pcs, Early
<1>4. CASE Insert(p, c, x)
  <2>1. d \in Requests /\ None \in Numbers /\ None \in Deployed
    BY <1>2 DEF Placed, Numbers, Deployed
  <2>2. PICK flow \in Flows : flow = "cancel"
    BY DEF Flows
  <2>3. x \in RowState /\ x.status = "pending" /\ x.dep = d /\ x.flow # "replacement"
    BY <2>1, <2>2, StopRowForm
  <2>4. c \in Commands /\ IsCancel(c)
    BY <1>2 DEF Commands, IsCancel, Procs
  <2> HIDE DEF c, x
  <2> QED BY <1>1, <1>2, <1>4, <2>3, <2>4, InsertInv
<1> QED BY <1>1, <1>3, <1>4

----------------------------------------------------------------------------
(* update_deployment_config and request_config_restart.                    *)

LEMMA RestartFlipInv ==
    ASSUME IInv, NEW r \in Requests, RestartFlip(r)
    PROVE  IInv' /\ StayEnded
<1> DEFINE d == proc[r].dep
<1>1. /\ proc[r].pc = "restart" /\ r \in Procs
      /\ \/ Finish(r) /\ UNCHANGED dep
         \/ Fits(d) /\ SetStatus(d, "stop_requested") /\ Goto(r, "stopRow")
      /\ UNCHANGED <<row, queue, bots, free, kind, faults>>
  BY DEF RestartFlip, At, Procs
<1>2. CASE Finish(r) /\ UNCHANGED dep
  <2>1. DeploymentStep(r) /\ RowStep /\ QueueOK' /\ BotsOK'
    BY <1>1, <1>2, Still
  <2> QED BY <1>1, <1>2, <2>1, ByFinish
<1>3. CASE Fits(d) /\ SetStatus(d, "stop_requested") /\ Goto(r, "stopRow")
  <2>1. Known(dep, d) /\ Placed(dep, d)
    BY <1>1, Knows DEF Allowed, Early
  <2>2. DeploymentStep(r)
    <3>1. PICK s \in GivenStatuses : s = "stop_requested"
      BY Statuses
    <3>2. SetStatus(d, s) /\ s \notin {"start_requested", "running"}
      BY <1>3, <3>1
    <3> QED BY <1>3, <2>1, <3>2, SetStatusStep DEF Known, IInv
  <2>3. RowStep /\ QueueOK' /\ BotsOK'
    BY <1>1, <2>2, Still
  <2>4. Allowed(r, "stopRow", proc[r], dep', row', kind)
    BY <1>1, <2>2, <2>3, StillKnows DEF Allowed, Early, PlacedSteps, Replacing
  <2> QED BY <1>1, <1>3, <2>2, <2>3, <2>4, ByGoto DEF Pcs, Early
<1> QED BY <1>1, <1>2, <1>3

LEMMA SendRestartStopInv ==
    ASSUME IInv, NEW r \in Requests, SendRestartStop(r)
    PROVE  IInv' /\ StayEnded
<1> DEFINE d == proc[r].dep  c == <<"STOP", r>>
           x == StopRow(d, "restart", None, None)
<1>1. /\ proc[r].pc = "stopRow" /\ kind[r] = "restart" /\ r \in Procs /\ Insert(r, c, x)
      /\ UNCHANGED <<dep, queue, bots, free, kind, faults>>
  BY DEF SendRestartStop, At, Procs
<1>2. Placed(dep, d)
  BY <1>1, Knows DEF Allowed, Asked
<1>3. d \in Requests /\ None \in Numbers /\ None \in Deployed
  BY <1>2 DEF Placed, Numbers, Deployed
<1>4. PICK flow \in Flows : flow = "restart"
  BY DEF Flows
<1>5. x \in RowState /\ x.status = "pending" /\ x.dep = d /\ x.flow # "replacement"
  BY <1>3, <1>4, StopRowForm
<1>6. c \in Commands /\ IsStop(c)
  BY DEF Commands, IsStop
<1> HIDE DEF c, x
<1> QED BY <1>1, <1>2, <1>5, <1>6, InsertInv

LEMMA RestartRestoreInv ==
    ASSUME IInv, NEW r \in Requests, RestartRestore(r)
    PROVE  IInv' /\ StayEnded
<1> DEFINE d == proc[r].dep
<1>1. /\ proc[r].pc = "restore" /\ r \in Procs /\ Finish(r)
      /\ (Fits(d) /\ SetStatus(d, proc[r].old)) \/ UNCHANGED dep
      /\ UNCHANGED <<row, queue, bots, free, kind, faults>>
  BY DEF RestartRestore, At, Procs
<1>2. DeploymentStep(r)
  <2>1. CASE UNCHANGED dep
    BY <2>1, Still
  <2>2. CASE Fits(d) /\ SetStatus(d, proc[r].old)
    <3>1. Placed(dep, d) /\ Known(dep, d) /\ proc[r].old # "none"
      BY <1>1, Knows DEF Allowed, Early
    <3>2. proc[r].old \in OldStatuses
      BY <1>1, Knows, ProcessForm
    <3>3. proc[r].old \in GivenStatuses
      BY <3>1, <3>2 DEF OldStatuses, GivenStatuses
    <3> QED BY <2>2, <3>1, <3>3, SetStatusStep DEF Known, Placed, IInv
  <2> QED BY <1>1, <2>1, <2>2
<1>3. RowStep /\ QueueOK' /\ BotsOK'
  BY <1>1, <1>2, Still
<1> QED BY <1>1, <1>2, <1>3, ByFinish

----------------------------------------------------------------------------
(* The runner, and the ingestion of the event it posts.                    *)

\* What the runner knows of the command it is about.
LEMMA RunnerKnows ==
    ASSUME IInv, proc[Runner].pc # "idle"
    PROVE  /\ Runner \in Procs /\ Sent(row, proc[Runner].cmd)
           /\ proc[Runner].pc \notin Early \cup {"done"} => Known(dep, proc[Runner].dep)
           /\ proc[Runner].pc \in PlacedSteps => Placed(dep, proc[Runner].dep)
<1>1. Runner \in Procs
  BY DEF Procs
<1> QED BY <1>1, Knows DEF Allowed

PostsAt(pc, d, c) == proc' = [proc EXCEPT ![Runner] = [Idle EXCEPT !.pc = pc, !.dep = d, !.cmd = c]]

LEMMA ByPost ==
    ASSUME IInv, NEW pc \in {"started", "stopped", "killing"}, NEW d, NEW c,
           PostsAt(pc, d, c), UNCHANGED dep, RowStep, QueueOK', BotsOK', UNCHANGED kind,
           Placed(dep, d), Sent(row, c)
    PROVE  IInv' /\ StayEnded
<1>1. Runner \in Procs /\ DeploymentStep(Runner)
  BY Still DEF Procs
<1>2. Placed(dep', d) /\ Known(dep', d) /\ Sent(row', c) /\ d \in Deployed /\ c \in Carrying
  BY DEF Placed, Known, Sent, IInv, DeploymentsOK, RowStep, Deployed, Carrying
<1>3. /\ proc' \in [Procs -> ProcessState]
      /\ \A q \in Procs \ {Runner} : proc'[q] = proc[q]
      /\ proc'[Runner].pc = pc /\ proc'[Runner].dep = d /\ proc'[Runner].cmd = c
      /\ ~proc'[Runner].placed
  <2>1. PICK x : x = [Idle EXCEPT !.pc = pc, !.dep = d, !.cmd = c]
    OBVIOUS
  <2>2. x \in ProcessState /\ x.pc = pc /\ x.dep = d /\ x.cmd = c /\ ~x.placed
    <3>1. pc \in Pcs
      BY DEF Pcs
    <3>2. Idle \in ProcessState /\ ~Idle.placed
      BY IdleState DEF Idle
    <3> QED BY <1>2, <2>1, <3>1, <3>2, ProcessForm
  <2>3. proc' = [proc EXCEPT ![Runner] = x]
    BY <2>1 DEF PostsAt
  <2>4. proc \in [Procs -> ProcessState]
    BY DEF IInv, ProcessesOK
  <2> QED BY <1>1, <2>2, <2>3, <2>4
<1>4. Allowed(Runner, proc'[Runner].pc, proc'[Runner], dep', row', kind)
  BY <1>2, <1>3, Names DEF Allowed, Early, PlacedSteps, Replacing, Asked
<1>5. Fresh(Runner, proc'[Runner], dep')
  BY Names DEF Fresh
<1> QED BY <1>1, <1>3, <1>4, <1>5, BySame

LEMMA QueueTaken ==
    ASSUME QueueOK, queue # <<>>, RowStep, queue' = Tail(queue)
    PROVE  QueueOK' /\ Sent(row, Head(queue))
<1>1. queue \in Seq(Commands) /\ Len(queue) \in Nat /\ Len(queue) > 0
  BY DEF QueueOK
<1>2. Sent(row, Head(queue))
  BY <1>1 DEF QueueOK
<1>3. queue' \in Seq(Commands) /\ Len(queue') = Len(queue) - 1
  BY <1>1
<1>4. ASSUME NEW i \in 1..Len(queue')
      PROVE  Sent(row', queue'[i])
  <2>1. queue'[i] = queue[i + 1] /\ i + 1 \in 1..Len(queue)
    BY <1>1, <1>3
  <2>2. Sent(row, queue[i + 1])
    BY <2>1 DEF QueueOK
  <2> QED BY <2>1, <2>2 DEF RowStep, Sent
<1> QED BY <1>2, <1>3, <1>4 DEF QueueOK

LEMMA ExecuteInv ==
    ASSUME IInv, Execute
    PROVE  IInv' /\ StayEnded
<1> DEFINE c == Head(queue)  d == row[c].dep
<1>1. /\ queue # <<>> /\ queue' = Tail(queue)
      /\ row' = [row EXCEPT ![c].status = "acknowledged"]
      /\ bots' \in {bots \cup {d}, bots \ {d}}
      /\ UNCHANGED <<dep, free, kind, faults>>
  BY DEF Execute
<1>2. PostsAt("started", d, c) \/ PostsAt("stopped", d, c) \/ PostsAt("killing", d, c)
      \/ UNCHANGED proc
  BY DEF Execute, PostsAt
<1>3. Sent(row, c) /\ Placed(dep, d)
  <2>1. queue \in Seq(Commands) /\ Len(queue) > 0
    BY <1>1 DEF IInv, QueueOK
  <2>2. Sent(row, c)
    BY <2>1 DEF IInv, QueueOK
  <2> QED BY <2>2 DEF IInv, RowsOK, Sent
<1> HIDE DEF c, d
<1>4. DeploymentStep(Runner)
  BY <1>1, Still
<1>5. RowStep
  <2>1. "acknowledged" \in RowStatuses \ {"absent"}
    BY DEF RowStatuses
  <2> QED BY <1>1, <1>3, <1>4, <2>1, RowStatusWritten DEF IInv, DeploymentStep
<1>6. QueueOK' /\ BotsOK'
  BY <1>1, <1>3, <1>5, QueueTaken DEF IInv, BotsOK, Placed
<1>7. CASE UNCHANGED proc
  <2>1. Runner \in Procs
    BY DEF Procs
  <2>2. Allowed(Runner, proc'[Runner].pc, proc'[Runner], dep', row', kind)
    BY <1>1, <1>4, <1>5, <1>7, <2>1, StillKnows
  <2>3. Fresh(Runner, proc'[Runner], dep')
    BY Names DEF Fresh
  <2>4. proc' \in [Procs -> ProcessState] /\ \A q \in Procs \ {Runner} : proc'[q] = proc[q]
    BY <1>7 DEF IInv, ProcessesOK
  <2> QED BY <1>1, <1>4, <1>5, <1>6, <2>1, <2>2, <2>3, <2>4, BySame
<1>8. ASSUME NEW pc \in {"started", "stopped", "killing"}, PostsAt(pc, d, c)
      PROVE  IInv' /\ StayEnded
  BY <1>1, <1>3, <1>5, <1>6, <1>8, ByPost
<1> QED BY <1>2, <1>7, <1>8

LEMMA StoppedPendingInv ==
    ASSUME IInv, StoppedPending
    PROVE  IInv' /\ StayEnded
<1> DEFINE c == proc[Runner].cmd  d == proc[Runner].dep
<1>1. proc[Runner].pc = "killing" /\ UNCHANGED <<queue, bots, free, kind, faults>>
  BY DEF StoppedPending, At
<1>2. Placed(dep, d) /\ Known(dep, d) /\ Sent(row, c) /\ Runner \in Procs
  BY <1>1, RunnerKnows DEF Early, PlacedSteps
<1>3. CASE Fits(d)
  <2>1. /\ dep' = [dep EXCEPT ![d].status = "stop_requested", ![d].kill = "pending"]
        /\ Goto(Runner, "killed") /\ UNCHANGED row
    BY <1>3 DEF StoppedPending
  <2>2. DeploymentStep(Runner)
    <3>1. PICK s \in GivenStatuses : s = "stop_requested"
      BY Statuses
    <3>2. PICK k \in KillStates : k = "pending"
      BY DEF KillStates
    <3>3. dep' = [dep EXCEPT ![d].status = s, ![d].kill = k]
          /\ s \notin {"start_requested", "running"}
      BY <2>1, <3>1, <3>2
    <3> QED BY <1>2, <1>3, <3>3, KillWritten DEF Known, IInv
  <2>3. RowStep /\ QueueOK' /\ BotsOK'
    BY <1>1, <2>1, <2>2, Still
  <2>4. Allowed(Runner, "killed", proc[Runner], dep', row', kind)
    BY <1>1, <1>2, <2>2, <2>3, StillKnows DEF Allowed, Early, PlacedSteps, Replacing
  <2> QED BY <1>1, <1>2, <2>1, <2>2, <2>3, <2>4, ByGoto DEF Pcs, Early
<1>4. CASE ~Fits(d)
  <2>1. row' = [row EXCEPT ![c].status = "failed"] /\ Finish(Runner) /\ UNCHANGED dep
    BY <1>4 DEF StoppedPending
  <2>2. DeploymentStep(Runner)
    BY <2>1, Still
  <2>3. RowStep
    <3>1. "failed" \in RowStatuses \ {"absent"}
      BY DEF RowStatuses
    <3> QED BY <1>2, <2>1, <2>2, <3>1, RowStatusWritten DEF IInv, DeploymentStep
  <2>4. QueueOK' /\ BotsOK'
    BY <1>1, <2>2, <2>3, Still
  <2> QED BY <1>1, <1>2, <2>1, <2>2, <2>3, <2>4, ByFinish
<1> QED BY <1>3, <1>4

LEMMA KillDoneInv ==
    ASSUME IInv, KillDone
    PROVE  IInv' /\ StayEnded
<1>1. /\ proc[Runner].pc = "killed"
      /\ UNCHANGED <<dep, row, queue, bots, free, kind, faults>>
      /\ Finish(Runner) \/ Goto(Runner, "stopped") \/ Goto(Runner, "noting")
  BY DEF KillDone, At
<1>2. Runner \in Procs
  BY DEF Procs
<1>3. DeploymentStep(Runner) /\ RowStep /\ QueueOK' /\ BotsOK'
  BY <1>1, Still
<1>4. CASE Finish(Runner)
  BY <1>1, <1>2, <1>3, <1>4, ByFinish
<1>5. Allowed(Runner, "killed", proc[Runner], dep', row', kind)
  BY <1>1, <1>2, <1>3, StillKnows
<1>6. CASE Goto(Runner, "stopped")
  <2>1. Allowed(Runner, "stopped", proc[Runner], dep', row', kind)
    BY <1>5, Names DEF Allowed, Early, PlacedSteps, Replacing
  <2> QED BY <1>1, <1>2, <1>3, <1>6, <2>1, ByGoto DEF Pcs, Early
<1>7. CASE Goto(Runner, "noting")
  <2>1. Allowed(Runner, "noting", proc[Runner], dep', row', kind)
    BY <1>5, Names DEF Allowed, Early, PlacedSteps, Replacing
  <2> QED BY <1>1, <1>2, <1>3, <1>7, <2>1, ByGoto DEF Pcs, Early
<1> QED BY <1>1, <1>4, <1>6, <1>7

LEMMA KillNotedInv ==
    ASSUME IInv, KillNoted
    PROVE  IInv' /\ StayEnded
<1> DEFINE d == proc[Runner].dep
<1>1. /\ proc[Runner].pc = "noting" /\ Finish(Runner)
      /\ UNCHANGED <<row, queue, bots, free, kind, faults>>
      /\ \/ UNCHANGED dep
         \/ /\ Fits(d)
            /\ dep' = [dep EXCEPT ![d].status = "stop_requested", ![d].kill = "done"]
  BY DEF KillNoted, At
<1>2. Known(dep, d) /\ Runner \in Procs
  BY <1>1, RunnerKnows DEF Early
<1>3. DeploymentStep(Runner)
  <2>1. CASE UNCHANGED dep
    BY <2>1, Still
  <2>2. CASE /\ Fits(d)
             /\ dep' = [dep EXCEPT ![d].status = "stop_requested", ![d].kill = "done"]
    <3>1. PICK s \in GivenStatuses : s = "stop_requested"
      BY Statuses
    <3>2. PICK k \in KillStates : k = "done"
      BY DEF KillStates
    <3>3. dep' = [dep EXCEPT ![d].status = s, ![d].kill = k]
          /\ s \notin {"start_requested", "running"}
      BY <2>2, <3>1, <3>2
    <3> QED BY <1>2, <2>2, <3>3, KillWritten DEF Known, IInv
  <2> QED BY <1>1, <2>1, <2>2
<1>4. RowStep /\ QueueOK' /\ BotsOK'
  BY <1>1, <1>3, Still
<1> QED BY <1>1, <1>2, <1>3, <1>4, ByFinish

LEMMA StartedWriteInv ==
    ASSUME IInv, StartedWrite
    PROVE  IInv' /\ StayEnded
<1> DEFINE c == proc[Runner].cmd  d == proc[Runner].dep
<1>1. /\ proc[Runner].pc = "started" /\ Finish(Runner) /\ free' = FALSE
      /\ UNCHANGED <<queue, bots, kind, faults>>
      /\ \/ Fits(d) /\ SetStatus(d, "running") /\ UNCHANGED row
         \/ row' = [row EXCEPT ![c].status = "failed"] /\ UNCHANGED dep
  BY DEF StartedWrite, At
<1>2. Placed(dep, d) /\ Known(dep, d) /\ Sent(row, c) /\ Runner \in Procs
  BY <1>1, RunnerKnows DEF Early, PlacedSteps
<1>3. DeploymentStep(Runner) /\ RowStep
  <2>1. CASE Fits(d) /\ SetStatus(d, "running") /\ UNCHANGED row
    <3>1. PICK s \in GivenStatuses : s = "running"
      BY Statuses
    <3>2. DeploymentStep(Runner)
      BY <1>2, <2>1, <3>1, SetStatusStep DEF Known, Placed, IInv
    <3> QED BY <2>1, <3>2, Still
  <2>2. CASE row' = [row EXCEPT ![c].status = "failed"] /\ UNCHANGED dep
    <3>1. DeploymentStep(Runner)
      BY <2>2, Still
    <3>2. "failed" \in RowStatuses \ {"absent"}
      BY DEF RowStatuses
    <3> QED BY <1>2, <2>2, <3>1, <3>2, RowStatusWritten DEF IInv, DeploymentStep
  <2> QED BY <1>1, <2>1, <2>2
<1>4. QueueOK' /\ BotsOK'
  BY <1>1, <1>3, Still DEF IInv, BotsOK
<1> QED BY <1>1, <1>2, <1>3, <1>4, ByFinish

LEMMA StoppedWriteInv ==
    ASSUME IInv, StoppedWrite
    PROVE  IInv' /\ StayEnded
<1> DEFINE c == proc[Runner].cmd  d == proc[Runner].dep
<1>1. /\ proc[Runner].pc = "stopped" /\ free' = TRUE
      /\ dep' = [dep EXCEPT ![d].status = "stopped", ![d].kill = "ended"]
      /\ ReconcileTerminal({d})
      /\ UNCHANGED <<queue, bots, kind, faults>>
      /\ \/ Goto(Runner, "reopen") \/ Finish(Runner)
         \/ row[c].flow = "replacement" /\ NamesAt(Runner, "admit", row[c].repl)
  BY DEF StoppedWrite, At, NamesAt
<1>2. Placed(dep, d) /\ Known(dep, d) /\ Sent(row, c) /\ Runner \in Procs
  BY <1>1, RunnerKnows DEF Early, PlacedSteps
<1>3. DeploymentStep(Runner)
  <2>1. PICK s \in GivenStatuses : s = "stopped"
    BY Statuses
  <2>2. PICK k \in KillStates : k = "ended"
    BY DEF KillStates
  <2>3. /\ dep' = [dep EXCEPT ![d].status = s, ![d].kill = k]
        /\ s \notin ActiveStatuses /\ s \notin {"start_requested", "running"}
    BY <1>1, <2>1, <2>2, Statuses
  <2> QED BY <1>2, <2>3, KillWritten DEF Known, IInv
<1>4. RowStep
  BY <1>1, <1>3, ReconcileStep DEF IInv, DeploymentStep
<1>5. QueueOK' /\ BotsOK'
  BY <1>1, <1>3, <1>4, Still DEF IInv, BotsOK
<1>6. Allowed(Runner, "stopped", proc[Runner], dep', row', kind)
  BY <1>1, <1>2, <1>3, <1>4, StillKnows
<1>7. CASE Goto(Runner, "reopen")
  <2>1. Allowed(Runner, "reopen", proc[Runner], dep', row', kind)
    BY <1>6, Names DEF Allowed, Early, PlacedSteps, Replacing
  <2> QED BY <1>1, <1>2, <1>3, <1>4, <1>5, <1>7, <2>1, ByGoto DEF Pcs, Early
<1>8. CASE Finish(Runner)
  BY <1>1, <1>2, <1>3, <1>4, <1>5, <1>8, ByFinish
<1>9. CASE row[c].flow = "replacement" /\ NamesAt(Runner, "admit", row[c].repl)
  <2>1. PICK q : q = row[c].repl
    OBVIOUS
  <2>2. Known(dep', q) /\ q \in Deployed
    <3>1. Known(dep, q)
      BY <1>2, <1>9, <2>1 DEF IInv, RowsOK, Sent
    <3> QED BY <1>3, <3>1 DEF DeploymentStep, DeploymentsGrow, Known, Deployed
  <2>3. /\ proc' \in [Procs -> ProcessState]
        /\ \A p \in Procs \ {Runner} : proc'[p] = proc[p]
        /\ proc'[Runner].pc = "admit" /\ proc'[Runner].cmd = c
        /\ proc'[Runner].dep = q /\ proc'[Runner].prev = proc[Runner].prev
        /\ proc'[Runner].old = proc[Runner].old
        /\ proc'[Runner].placed = proc[Runner].placed
    <3>1. proc \in [Procs -> ProcessState]
      BY DEF IInv, ProcessesOK
    <3>2. PICK pc \in Pcs : pc = "admit"
      BY DEF Pcs
    <3>3. proc' = [proc EXCEPT ![Runner].pc = pc, ![Runner].dep = q]
      BY <1>9, <2>1, <3>2 DEF NamesAt
    <3> DEFINE next == [proc[Runner] EXCEPT !.pc = pc, !.dep = q]
    <3>4. proc' = [proc EXCEPT ![Runner] = next] /\ proc[Runner] \in ProcessState
      BY <1>2, <3>1, <3>3
    <3>5. /\ next \in ProcessState /\ next.pc = pc /\ next.cmd = proc[Runner].cmd
          /\ next.dep = q /\ next.prev = proc[Runner].prev
          /\ next.old = proc[Runner].old /\ next.placed = proc[Runner].placed
      BY <2>2, <3>2, <3>4, ProcessForm
    <3> HIDE DEF next
    <3> QED BY <1>2, <3>1, <3>2, <3>4, <3>5
  <2>4. Allowed(Runner, proc'[Runner].pc, proc'[Runner], dep', row', kind)
    BY <1>6, <2>2, <2>3, Names DEF Allowed, Early, PlacedSteps, Replacing, Asked
  <2>5. Fresh(Runner, proc'[Runner], dep')
    BY Names DEF Fresh
  <2> QED BY <1>1, <1>2, <1>3, <1>4, <1>5, <2>3, <2>4, <2>5, BySame
<1> QED BY <1>1, <1>7, <1>8, <1>9

\* A deployment fails.
LEMMA FailedStep ==
    ASSUME IInv, NEW p, NEW d, Known(dep, d), SetStatus(d, "failed")
    PROVE  DeploymentStep(p)
<1>1. PICK s \in GivenStatuses : s = "failed"
  BY Statuses
<1>2. SetStatus(d, s) /\ s \notin ActiveStatuses /\ s \notin {"start_requested", "running"}
  BY <1>1, Statuses
<1> QED BY <1>2, SetStatusStep DEF Known, IInv

LEMMA ReopenInv ==
    ASSUME IInv, Reopen
    PROVE  IInv' /\ StayEnded
<1> DEFINE d == proc[Runner].dep
<1>1. /\ proc[Runner].pc = "reopen" /\ free' = FALSE
      /\ UNCHANGED <<row, queue, bots, kind, faults>>
      /\ \/ Fits(d) /\ SetStatus(d, "start_requested") /\ Goto(Runner, "startRow")
         \/ SetStatus(d, "failed") /\ Finish(Runner)
  BY DEF Reopen, At
<1>2. Placed(dep, d) /\ Known(dep, d) /\ Runner \in Procs
  BY <1>1, RunnerKnows DEF Early, PlacedSteps
<1>3. BotsOK'
  BY <1>1 DEF IInv, BotsOK
<1>4. CASE Fits(d) /\ SetStatus(d, "start_requested") /\ Goto(Runner, "startRow")
  <2>1. DeploymentStep(Runner)
    <3>1. PICK s \in GivenStatuses : s = "start_requested"
      BY Statuses
    <3> QED BY <1>2, <1>4, <3>1, SetStatusStep DEF Known, Placed, IInv
  <2>2. RowStep /\ QueueOK'
    BY <1>1, <2>1, Still
  <2>3. Allowed(Runner, "startRow", proc[Runner], dep', row', kind)
    BY <1>1, <1>2, <2>1, <2>2, StillKnows, Names DEF Allowed, Early, PlacedSteps, Replacing
  <2> QED BY <1>1, <1>2, <1>3, <1>4, <2>1, <2>2, <2>3, ByGoto DEF Pcs, Early
<1>5. CASE SetStatus(d, "failed") /\ Finish(Runner)
  <2>1. DeploymentStep(Runner)
    BY <1>2, <1>5, FailedStep
  <2>2. RowStep /\ QueueOK'
    BY <1>1, <2>1, Still
  <2> QED BY <1>1, <1>2, <1>3, <1>5, <2>1, <2>2, ByFinish
<1> QED BY <1>1, <1>4, <1>5

LEMMA RestartFailedInv ==
    ASSUME IInv, RestartFailed
    PROVE  IInv' /\ StayEnded
<1> DEFINE d == proc[Runner].dep
<1>1. /\ proc[Runner].pc = "restartFailed" /\ SetStatus(d, "failed") /\ Finish(Runner)
      /\ UNCHANGED <<row, queue, bots, free, kind, faults>>
  BY DEF RestartFailed, At
<1>2. Known(dep, d) /\ Runner \in Procs
  BY <1>1, RunnerKnows DEF Early
<1>3. DeploymentStep(Runner)
  BY <1>1, <1>2, FailedStep
<1>4. RowStep /\ QueueOK' /\ BotsOK'
  BY <1>1, <1>3, Still
<1> QED BY <1>1, <1>2, <1>3, <1>4, ByFinish

LEMMA ReplaceAdmitInv ==
    ASSUME IInv, ReplaceAdmit
    PROVE  IInv' /\ StayEnded
<1> DEFINE q == proc[Runner].dep
<1>1. /\ proc[Runner].pc = "admit" /\ UNCHANGED <<queue, bots, free, kind, faults>>
      /\ (UNCHANGED dep) \/ SetStatus(q, "failed")
      /\ (UNCHANGED row) \/ ReconcileTerminal(TerminalDeployments)
      /\ \/ Finish(Runner)
         \/ Goto(Runner, "activate")
  BY DEF ReplaceAdmit, At
<1>2. Known(dep, q) /\ Runner \in Procs
  BY <1>1, RunnerKnows DEF Early
<1>3. DeploymentStep(Runner)
  BY <1>1, <1>2, FailedStep, Still
<1>4. RowStep
  BY <1>1, <1>3, ReconcileStep, Still DEF IInv, DeploymentStep
<1>5. QueueOK' /\ BotsOK'
  BY <1>1, <1>3, <1>4, Still
<1>6. CASE Finish(Runner)
  BY <1>1, <1>2, <1>3, <1>4, <1>5, <1>6, ByFinish
<1>7. CASE Goto(Runner, "activate")
  <2>1. Allowed(Runner, "activate", proc[Runner], dep', row', kind)
    BY <1>1, <1>2, <1>3, <1>4, StillKnows, Names DEF Allowed, Early, PlacedSteps, Replacing
  <2> QED BY <1>1, <1>2, <1>3, <1>4, <1>5, <1>7, <2>1, ByGoto DEF Pcs, Early
<1> QED BY <1>1, <1>6, <1>7

LEMMA ReplaceFailsInv ==
    ASSUME IInv, ReplaceFails
    PROVE  IInv' /\ StayEnded
<1> DEFINE d == proc[Runner].dep
<1>1. /\ proc[Runner].pc \in {"activate", "replacementFailed"}
      /\ SetStatus(d, "failed") /\ Finish(Runner)
      /\ Fault \/ UNCHANGED faults
      /\ UNCHANGED <<row, queue, bots, free, kind>>
  BY DEF ReplaceFails, At
<1>2. Known(dep, d) /\ Runner \in Procs
  BY <1>1, RunnerKnows DEF Early
<1>3. DeploymentStep(Runner)
  BY <1>1, <1>2, FailedStep
<1>4. BotsOK'
  BY <1>1, FaultBound DEF IInv, BotsOK
<1>5. RowStep /\ QueueOK'
  BY <1>1, <1>3, Still
<1> QED BY <1>1, <1>2, <1>3, <1>4, <1>5, ByFinish

\* A replacement gets its slot and is to be started.
LEMMA Activated ==
    ASSUME IInv, NEW p, NEW q \in Requests, Queued(q), Fits(q),
           dep' = [dep EXCEPT ![q].status = "start_requested", ![q].placed = TRUE]
    PROVE  DeploymentStep(p) /\ Placed(dep', q)
<1>1. dep \in [Requests -> [status : StatusesOf, placed : BOOLEAN, kill : KillStates, seq : Nat]]
  BY DeploymentForm DEF IInv, DeploymentsOK
<1>2. PICK s \in StatusesOf : s = "start_requested"
  BY DeploymentForm DEF ActiveStatuses
<1>3. /\ dep' \in [Requests -> [status : StatusesOf, placed : BOOLEAN, kill : KillStates, seq : Nat]]
      /\ dep'[q].status = s /\ dep'[q].placed
      /\ \A e \in Requests \ {q} : dep'[e] = dep[e]
  BY <1>1, <1>2
<1>4. dep' \in [Requests -> DeploymentState]
  BY <1>3, DeploymentForm
<1>5. ~Terminal(q) /\ dep[q].status # "absent"
  BY DEF Queued, Terminal, TerminalStatuses
<1> QED BY <1>2, <1>3, <1>4, <1>5, OneWritten DEF IInv, Placed

LEMMA ReplaceActivateInv ==
    ASSUME IInv, ReplaceActivate
    PROVE  IInv' /\ StayEnded
<1> DEFINE q == proc[Runner].dep
<1>1. /\ proc[Runner].pc = "activate" /\ free' = FALSE
      /\ UNCHANGED <<row, queue, bots, kind, faults>>
  BY DEF ReplaceActivate, At
<1>2. Known(dep, q) /\ Runner \in Procs /\ q \in Requests
  BY <1>1, RunnerKnows DEF Early, Known
<1>3. BotsOK'
  BY <1>1 DEF IInv, BotsOK
<1>4. CASE Finish(Runner) /\ (UNCHANGED dep \/ SetStatus(q, "failed"))
  <2>1. DeploymentStep(Runner)
    BY <1>2, <1>4, FailedStep, Still
  <2>2. RowStep /\ QueueOK'
    BY <1>1, <2>1, Still
  <2> QED BY <1>1, <1>2, <1>3, <1>4, <2>1, <2>2, ByFinish
<1>5. CASE /\ Queued(q) /\ Fits(q)
           /\ dep' = [dep EXCEPT ![q].status = "start_requested", ![q].placed = TRUE]
           /\ CountsAt(Runner, "startRow", dep[q].seq)
  <2>1. DeploymentStep(Runner) /\ Placed(dep', q)
    BY <1>2, <1>5, Activated
  <2>2. RowStep /\ QueueOK'
    BY <1>1, <2>1, Still
  <2>3. Allowed(Runner, "startRow", proc[Runner], dep', row', kind)
    BY <1>1, <1>2, <2>1, <2>2, StillKnows, Names DEF Allowed, Early, PlacedSteps, Replacing
  <2>4. PICK n \in Numbers : n = dep[q].seq
    BY <1>2 DEF IInv, DeploymentsOK, DeploymentState, Numbers
  <2>5. CountsAt(Runner, "startRow", n)
    BY <1>5, <2>4
  <2> QED BY <1>1, <1>2, <1>3, <2>1, <2>2, <2>3, <2>5, ByCount DEF Pcs, Early
<1> QED BY <1>4, <1>5 DEF ReplaceActivate, CountsAt

----------------------------------------------------------------------------
(* The reconciler.                                                         *)

LEMMA HealStopInv ==
    ASSUME IInv, NEW d \in Requests, HealStop(d)
    PROVE  IInv' /\ StayEnded
<1>1. /\ dep[d].status = "stop_requested" /\ free' = TRUE
      /\ dep' = [dep EXCEPT ![d].status = "stopped", ![d].kill = "ended"]
      /\ ReconcileTerminal({d})
      /\ UNCHANGED <<queue, bots, proc, kind, faults>>
  BY DEF HealStop
<1>2. DeploymentStep(None)
  <2>1. PICK s \in GivenStatuses : s = "stopped"
    BY Statuses
  <2>2. PICK k \in KillStates : k = "ended"
    BY DEF KillStates
  <2>3. /\ dep' = [dep EXCEPT ![d].status = s, ![d].kill = k]
        /\ s \notin ActiveStatuses /\ s \notin {"start_requested", "running"}
    BY <1>1, <2>1, <2>2, Statuses
  <2>4. Known(dep, d)
    BY <1>1 DEF Known
  <2> QED BY <2>3, <2>4, KillWritten DEF IInv
<1>3. RowStep
  BY <1>1, <1>2, ReconcileStep DEF IInv, DeploymentStep
<1>4. QueueOK' /\ BotsOK'
  BY <1>1, <1>2, <1>3, Still DEF IInv, BotsOK
<1>5. ProcessesOK'
  BY <1>1, <1>2, <1>3, ProcessesStay, Names DEF IInv, DeploymentStep
<1>6. KindsOK'
  BY <1>1 DEF IInv, KindsOK
<1> QED BY <1>2, <1>3, <1>4, <1>5, <1>6, Together

----------------------------------------------------------------------------
(* The specification.                                                      *)

LEMMA InitInv ==
    ASSUME Init
    PROVE  IInv
<1>1. DeploymentsOK
  BY DEF Init, DeploymentsOK, DeploymentState, Active, ActiveStatuses
<1>2. RowsOK
  BY DEF Init, RowsOK, RowState, NoRow, RowStatuses, Flows, Sent
<1>3. QueueOK /\ BotsOK /\ KindsOK
  BY SwitchAssumption DEF Init, QueueOK, BotsOK, KindsOK
<1>4. ProcessesOK
  <2>1. proc \in [Procs -> ProcessState]
    BY IdleState DEF Init
  <2>2. ASSUME NEW p \in Procs
        PROVE  Sound(p, proc[p], dep, row, kind) /\ Fresh(p, proc[p], dep)
    <3>1. proc[p] = Idle /\ (p \in Requests => kind[p] = "none" /\ dep[p].status = "absent")
      BY DEF Init
    <3> QED BY <3>1, Names DEF Sound, Allowed, Fresh, Idle, Early, PlacedSteps, Asked, Replacing
  <2> QED BY <2>1, <2>2 DEF ProcessesOK
<1> QED BY <1>1, <1>2, <1>3, <1>4 DEF IInv

LEMMA StutterInv ==
    ASSUME IInv, UNCHANGED vars
    PROVE  IInv' /\ StayEnded
<1>1. UNCHANGED <<dep, row, queue, bots, free, proc, kind, faults>>
  BY DEF vars
<1>2. DeploymentStep(None) /\ RowStep /\ QueueOK' /\ BotsOK'
  BY <1>1, Still
<1>3. ProcessesOK' /\ KindsOK'
  BY <1>1, <1>2, ProcessesStay, Names DEF IInv, DeploymentStep, KindsOK
<1> QED BY <1>2, <1>3, Together

LEMMA DispatchInv ==
    ASSUME IInv, NEW p \in Procs, Dispatch(p)
    PROVE  IInv' /\ StayEnded
  BY InsertStartInv, GuardStartInv, DropStartInv, PublishInv, CancelFlipInv,
     CancelSweepInv, SendCancelInv, FailPendingInv DEF Dispatch

LEMMA NextInv ==
    ASSUME IInv, [Next]_vars
    PROVE  IInv' /\ StayEnded
<1>1. ASSUME NEW r \in Requests, Arrive(r)
      PROVE  IInv' /\ StayEnded
  BY <1>1, StartAdmitInv, OffBeginInv, CancelBeginInv, RestartBeginInv DEF Arrive
<1>2. ASSUME NEW r \in Requests, RequestStep(r)
      PROVE  IInv' /\ StayEnded
  <2>1. r \in Procs
    BY DEF Procs
  <2>2. CASE Dispatch(r)
    BY <2>1, <2>2, DispatchInv
  <2>3. CASE StartManage(r) \/ StartPending(r) \/ StartInsert(r)
    BY <2>3, StartManageInv, StartPendingInv, StartInsertInv
  <2>4. CASE FindQueued(r) \/ CreateQueued(r) \/ FindStop(r) \/ StopPrevious(r)
             \/ SendReplacementStop(r) \/ Unreplace(r)
    BY <2>4, FindQueuedInv, CreateQueuedInv, FindStopInv, StopPreviousInv,
       SendReplacementStopInv, UnreplaceInv
  <2>5. CASE OffAgain(r) \/ OffFlip(r) \/ OffQueued(r) \/ SendOff(r)
    BY <2>5, OffAgainInv, OffFlipInv, OffQueuedInv, SendOffInv
  <2>6. CASE RestartFlip(r) \/ SendRestartStop(r) \/ RestartRestore(r)
    BY <2>6, RestartFlipInv, SendRestartStopInv, RestartRestoreInv
  <2> QED BY <1>2, <2>2, <2>3, <2>4, <2>5, <2>6 DEF RequestStep
<1>3. CASE RunnerStep
  <2>1. Runner \in Procs
    BY DEF Procs
  <2>2. CASE Dispatch(Runner)
    BY <2>1, <2>2, DispatchInv
  <2>3. CASE Execute \/ StartedWrite \/ StoppedWrite \/ StoppedPending \/ KillDone \/ KillNoted
    BY <2>3, ExecuteInv, StartedWriteInv, StoppedWriteInv, StoppedPendingInv,
       KillDoneInv, KillNotedInv
  <2>4. CASE Reopen \/ RestartFailed \/ ReplaceAdmit \/ ReplaceFails \/ ReplaceActivate
    BY <2>4, ReopenInv, RestartFailedInv, ReplaceAdmitInv, ReplaceFailsInv,
       ReplaceActivateInv
  <2> QED BY <1>3, <2>2, <2>3, <2>4 DEF RunnerStep
<1>4. ASSUME NEW p \in Procs, PublishFails(p)
      PROVE  IInv' /\ StayEnded
  BY <1>4, PublishFailsInv
<1>5. ASSUME NEW c \in Commands, Replay(c)
      PROVE  IInv' /\ StayEnded
  BY <1>5, ReplayInv
<1>6. ASSUME NEW d \in Requests, HealStop(d)
      PROVE  IInv' /\ StayEnded
  BY <1>6, HealStopInv
<1>7. CASE UNCHANGED vars
  BY <1>7, StutterInv
<1> QED BY <1>1, <1>2, <1>3, <1>4, <1>5, <1>6, <1>7 DEF Next

\* The invariant holds of every behaviour.
THEOREM Invariance == Spec => []IInv
<1>1. Init => IInv
  BY InitInv
<1>2. IInv /\ [Next]_vars => IInv'
  BY NextInv
<1> QED BY <1>1, <1>2, PTL DEF Spec

\* Types, and that an account never has two active deployments, however many starts,
\* replacements, restarts and events write to it at the same time: every write that
\* would make a second one is refused, and each refusal is dealt with
\* (uq_bot_deployments_active_account).
THEOREM TypeCorrect == Spec => []TypeOK
<1>1. IInv => TypeOK
  <2>1. ASSUME IInv PROVE TypeOK
    BY <2>1 DEF TypeOK, IInv, DeploymentsOK, RowsOK, QueueOK, BotsOK, KindsOK, ProcessesOK
  <2> QED BY <2>1
<1> QED BY <1>1, Invariance, PTL

\* A replacement that was cancelled or has failed before it had a slot is not revived,
\* whichever step of whichever process writes last (_start_queued_replacement_after_stop,
\* activate_queued_deployment_start).
THEOREM NotRevived == Spec => CancelledStaysCancelled
<1>1. IInv /\ [Next]_vars => [StayEnded]_vars
  BY NextInv
<1>2. CancelledStaysCancelled <=> [][StayEnded]_vars
  BY DEF CancelledStaysCancelled, StayEnded
<1> QED BY <1>1, <1>2, Invariance, PTL DEF Spec

=============================================================================
