---------------------------- MODULE AccountSlots ----------------------------
(***************************************************************************)
(* Who holds a runner slot: account logins, starts, stops and deletions,   *)
(* and the jobs that take back what they leave.                            *)
(*                                                                         *)
(*   slot     runner_slots: the account on it, and whether its             *)
(*            control_plane_state says allocated                           *)
(*   binding  account_slot_bindings: the current row of each account       *)
(*   res      account_login_reservations: the row a login request inserts  *)
(*   account  broker_accounts.status                                       *)
(*   dep      bot_deployments: the row a start request inserts             *)
(*   cmds     RESERVE_OR_LOGIN_SLOT commands and what the runner answered  *)
(*   req      the API requests in flight                                   *)
(*   stopping deployments whose BOT_STOPPED is half ingested               *)
(*   stale    the slots a readiness request has read as ready              *)
(*                                                                         *)
(* One action is one database transaction.  runner_slots.status follows    *)
(* current_account_id in every flow modelled (allocated with it, ready     *)
(* without), so slot keeps the latter only; a binding row is reused by the *)
(* next allocation of the same account and slot, so its identity is that   *)
(* pair.  Slot health, maintenance, capacity and broker routing can only   *)
(* make a slot unavailable; they are left out.                             *)
(***************************************************************************)
EXTENDS FiniteSets, Naturals

CONSTANTS
    Accounts,     \* broker accounts
    Slots,        \* runner slots
    Requests,     \* API requests, each served once
    Kind,         \* what each request is: login, start or delete
    Owner,        \* the account each request is for
    None,         \* no account, no slot, no request
    Overlap,      \* whether an account's requests may overlap
    LapseInFlight,\* whether a reservation may expire while its account has a
                  \* request in flight (it lasts minutes, the request moments)
    MaxFaults,    \* bound: processes that die, calls that raise, events twice
    MaxRefused,   \* bound: starts refused by a cooldown or a subscription
    Stoppable,    \* the starts whose deployment may stop
    MaxReads      \* bound: readiness requests of an operator

ASSUME RequestsAssumption ==
    /\ Kind \in [Requests -> {"login", "start", "delete"}]
    /\ Owner \in [Requests -> Accounts]
    /\ Stoppable \subseteq Requests
    /\ Overlap \in BOOLEAN
    /\ LapseInFlight \in BOOLEAN
    /\ None \notin Accounts \cup Slots \cup Requests

VARIABLES slot, binding, res, account, dep, cmds, req, stopping, stale, bound

vars == <<slot, binding, res, account, dep, cmds, req, stopping, stale, bound>>

Logins == {r \in Requests : Kind[r] = "login"}
Starts == {r \in Requests : Kind[r] = "start"}
OpenReservation == {"pending", "dispatched", "verified"}

Init ==
    /\ slot = [s \in Slots |-> [acct |-> None, allocated |-> FALSE]]
    /\ binding = [a \in Accounts |-> [slot |-> None, state |-> "none"]]
    /\ res = [i \in Logins |-> [status |-> "absent", slot |-> None, due |-> FALSE]]
    /\ account \in [Accounts -> {"pending_login", "connected"}]
    /\ dep = [r \in Starts |-> [status |-> "absent", slot |-> None]]
    /\ cmds = {}
    /\ req = [r \in Requests |->
                [pc |-> "idle", slot |-> None, res |-> None, ready |-> FALSE,
                 again |-> FALSE]]
    /\ stopping = {}
    /\ stale = {}
    /\ bound = [faults |-> 0, refused |-> 0, reads |-> 0]

Spend(what, max) ==
    /\ bound[what] < max
    /\ bound' = [bound EXCEPT ![what] = @ + 1]
Fault == Spend("faults", MaxFaults)

At(r, pc) == req[r].pc = pc
Goto(r, pc) == req' = [req EXCEPT ![r].pc = pc]
InFlight(a) ==
    \E q \in Requests : Owner[q] = a /\ req[q].pc \notin {"idle", "done", "lost"}
Arrives(r) ==
    /\ At(r, "idle")
    /\ account[Owner[r]] # "disconnected"
    /\ \/ Overlap
       \/ ~InFlight(Owner[r])

----------------------------------------------------------------------------
(* What the queries read.                                                  *)

Open(i) == res[i].status \in OpenReservation
Live(i) == Open(i) /\ ~res[i].due
OpenOn(s) == \E i \in Logins : Open(i) /\ res[i].slot = s
LiveOf(a) == {i \in Logins : Owner[i] = a /\ Live(i)}

Active(r) == dep[r].status = "active"
ActiveOf(a) == \E r \in Starts : Owner[r] = a /\ Active(r)
ActiveOn(s) == {r \in Starts : Active(r) /\ dep[r].slot = s}

Current(a, s) == binding[a].slot = s
OpenCommand(s) == \E c \in cmds : c.slot = s /\ c.result = "none"

----------------------------------------------------------------------------
(* Slot and binding updates.                                               *)

Free == [acct |-> None, allocated |-> FALSE]
NoBinding == [slot |-> None, state |-> "none"]

\* A mutant of ReleasePairs: is_current is left as it was.
ReleasePairsCurrent(P) ==
    /\ slot' = [s \in Slots |->
                  IF \E p \in P : p[2] = s /\ slot[s].acct \in {None, p[1]}
                  THEN Free ELSE slot[s]]
    /\ binding' = [a \in Accounts |->
                     IF <<a, binding[a].slot>> \in P
                     THEN [binding[a] EXCEPT !.state = "released"] ELSE binding[a]]

\* A mutant of ReleasePairs: the bindings are forgotten.
ReleaseSlotsOnly(P) ==
    /\ slot' = [s \in Slots |->
                  IF \E p \in P : p[2] = s /\ slot[s].acct \in {None, p[1]}
                  THEN Free ELSE slot[s]]
    /\ UNCHANGED binding

\* _release_login_reservation_slot_locked and release_account_slot_binding
\* (keep_sticky false), for the pairs P of an account and a slot: the slot is
\* freed unless another account is on it, the account's current binding to it is
\* released.
ReleasePairs(P) ==
    /\ slot' = [s \in Slots |->
                  IF \E p \in P : p[2] = s /\ slot[s].acct \in {None, p[1]}
                  THEN Free ELSE slot[s]]
    /\ binding' = [a \in Accounts |->
                     IF <<a, binding[a].slot>> \in P THEN NoBinding ELSE binding[a]]

Pair(i) == <<Owner[i], res[i].slot>>

\* A login reservation is closed and its slot released.
Close(I, status) ==
    /\ res' = [i \in Logins |->
                 IF i \in I THEN [res[i] EXCEPT !.status = status] ELSE res[i]]
    /\ ReleasePairs({Pair(i) : i \in I})

\* A mutant of ReleaseExpired: a verified login does not expire.
ReleaseExpiredUnverified ==
    LET E == {i \in Logins : res[i].status \in {"pending", "dispatched"} /\ res[i].due}
    IN  /\ Close(E, "expired")
        /\ account' = [a \in Accounts |->
              IF account[a] = "pending_login" /\ \E i \in E : Owner[i] = a
              THEN "login_failed" ELSE account[a]]

\* release_expired_login_reservations, a statement of the login and the start
\* requests and of the jobs.
ReleaseExpired ==
    LET E == {i \in Logins : Open(i) /\ res[i].due}
    IN  /\ Close(E, "expired")
        /\ account' = [a \in Accounts |->
              IF /\ account[a] = "pending_login"
                 /\ \E i \in E : Owner[i] = a /\ res[i].status # "verified"
              THEN "login_failed" ELSE account[a]]

\* claimed, not yet expired: what allocate_slot_binding lets pass.
ClaimedOn(a, s) ==
    \E i \in Logins : /\ Owner[i] = a
                      /\ res[i].slot = s
                      /\ res[i].status = "claimed"
                      /\ ~res[i].due

\* A mutant of Allocatable: another account's active binding is not looked at.
AllocatableUnbound(a, s) ==
    /\ slot[s].acct \in {None, a}
    /\ ClaimedOn(a, s) \/ ~slot[s].allocated

\* The condition of the UPDATE in allocate_slot_binding.
Allocatable(a, s) ==
    /\ slot[s].acct \in {None, a}
    /\ \A b \in Accounts \ {a} : binding[b] # [slot |-> s, state |-> "active"]
    /\ ClaimedOn(a, s) \/ ~slot[s].allocated

\* _slot_block_reason: what the scheduler takes a slot for.  It looks at no binding
\* but the account's own, and locks nothing.
Supports(a, s) ==
    /\ slot[s].acct \in {None, a}
    /\ \A r \in ActiveOn(s) : Owner[r] = a
    /\ slot[s].allocated => (slot[s].acct = a \/ Current(a, s))

\* rank_slots_for_account: the account's own slot first.  The load ranking among
\* the others is left open.
Choices(a) ==
    LET C == {s \in Slots : Supports(a, s)}
    IN  IF binding[a].slot \in C THEN {binding[a].slot} ELSE C

----------------------------------------------------------------------------
(* request_account_login_slot.                                             *)

Untouched == <<stopping, stale>>

\* The first reads of the request: no active deployment, then (after the sweep) no
\* open reservation, which would be returned as it is.
LoginAdmit(r) ==
    /\ Kind[r] = "login" /\ Arrives(r)
    /\ ~ActiveOf(Owner[r])
    /\ ReleaseExpired
    /\ Goto(r, IF LiveOf(Owner[r]) = {} THEN "pick" ELSE "done")
    /\ UNCHANGED <<dep, cmds, bound, Untouched>>

\* create_login_reservation: an open reservation of the account is returned
\* whatever slot it is on; the unique indexes refuse a second open one for the
\* account (expired, not swept yet) or for the slot, and the request then ends with
\* the slot allocated.
LoginReserve(r) ==
    LET a == Owner[r]  s == req[r].slot IN
    /\ At(r, "reserve")
    /\ IF LiveOf(a) # {}
       THEN /\ \E i \in LiveOf(a) :
                  req' = [req EXCEPT ![r].pc = "dispatch", ![r].res = i]
            /\ UNCHANGED res
       ELSE IF \E i \in Logins : Open(i) /\ (Owner[i] = a \/ res[i].slot = s)
       THEN Goto(r, "done") /\ UNCHANGED res
       ELSE /\ res' = [res EXCEPT ![r] =
                         [status |-> "pending", slot |-> s, due |-> FALSE]]
            /\ req' = [req EXCEPT ![r].pc = "dispatch", ![r].res = r]
    /\ UNCHANGED <<slot, binding, account, dep, cmds, bound, Untouched>>

\* The command names the slot allocated and the reservation found, which need not
\* agree.
LoginDispatch(r) ==
    /\ Kind[r] = "login" /\ At(r, "dispatch")
    /\ cmds' = cmds \cup {[res |-> req[r].res, slot |-> req[r].slot, result |-> "none"]}
    /\ Goto(r, "mark")
    /\ UNCHANGED <<slot, binding, res, account, dep, bound, Untouched>>

LoginDispatchRaises(r) ==
    /\ Kind[r] = "login" /\ At(r, "dispatch")
    /\ Fault
    /\ Goto(r, "done")
    /\ UNCHANGED <<slot, binding, res, account, dep, cmds, Untouched>>

\* A mutant of LoginMark: whatever the reservation has become.
LoginMarkAny(r) ==
    /\ At(r, "mark")
    /\ res' = [res EXCEPT ![req[r].res].status = "dispatched",
                          ![req[r].res].due = FALSE]
    /\ Goto(r, "done")
    /\ UNCHANGED <<slot, binding, account, dep, cmds, bound, Untouched>>

\* mark_login_reservation_dispatched: expires_at is pushed on.
LoginMark(r) ==
    /\ At(r, "mark")
    /\ LET i == req[r].res IN
       res' = IF res[i].status \in {"pending", "dispatched"}
              THEN [res EXCEPT ![i].status = "dispatched", ![i].due = FALSE]
              ELSE res
    /\ Goto(r, "done")
    /\ UNCHANGED <<slot, binding, account, dep, cmds, bound, Untouched>>

----------------------------------------------------------------------------
(* The slot is picked and allocated, by a login and by a start.            *)

Picked(r) ==
    IF Kind[r] = "start" /\ req[r].res # None
    THEN {res[req[r].res].slot} ELSE Choices(Owner[r])

Pick(r) ==
    /\ At(r, "pick")
    /\ \E s \in Picked(r) : req' = [req EXCEPT ![r].pc = "allocate", ![r].slot = s]
    /\ UNCHANGED <<slot, binding, res, account, dep, cmds, bound, Untouched>>

\* No slot: a start whose own slot is unavailable prepares it once more.
PickNone(r) ==
    /\ At(r, "pick")
    /\ Picked(r) = {}
    /\ req' = IF /\ Kind[r] = "start" /\ ~req[r].again
                 /\ binding[Owner[r]].slot # None
              THEN [req EXCEPT ![r].pc = "prepare", ![r].again = TRUE]
              ELSE [req EXCEPT ![r].pc = "done"]
    /\ UNCHANGED <<slot, binding, res, account, dep, cmds, bound, Untouched>>

\* allocate_slot_binding: other accounts' bindings to the slot and the account's
\* binding to another slot stop being current.
Allocate(r) ==
    LET a == Owner[r]  s == req[r].slot IN
    /\ At(r, "allocate")
    /\ Allocatable(a, s)
    /\ slot' = [slot EXCEPT ![s].acct = a]
    /\ binding' = [b \in Accounts |->
                     IF b = a THEN [slot |-> s, state |-> "active"]
                     ELSE IF binding[b] = [slot |-> s, state |-> "sticky"] THEN NoBinding
                     ELSE binding[b]]
    /\ Goto(r, IF Kind[r] = "login" THEN "reserve" ELSE "create")
    /\ UNCHANGED <<res, account, dep, cmds, bound, Untouched>>

AllocateRaises(r) ==
    /\ At(r, "allocate")
    /\ ~Allocatable(Owner[r], req[r].slot)
    /\ Goto(r, IF req[r].res # None THEN "release" ELSE "done")
    /\ UNCHANGED <<slot, binding, res, account, dep, cmds, bound, Untouched>>

----------------------------------------------------------------------------
(* start_deployment, of the service and of the deployment manager.         *)

\* The reads up to the reservation's: a pending login refuses the start, a verified
\* one is to be claimed.  ready is the account's status as read.
StartAdmit(r) ==
    LET L == LiveOf(Owner[r]) IN
    /\ Kind[r] = "start" /\ Arrives(r)
    /\ ~ActiveOf(Owner[r])
    /\ ReleaseExpired
    /\ req' = [req EXCEPT
                 ![r].ready = account[Owner[r]] = "connected",
                 ![r].pc = IF \E i \in L : res[i].status # "verified" THEN "done"
                           ELSE IF L # {} THEN "claim" ELSE "guard"]
    /\ UNCHANGED <<dep, cmds, bound, Untouched>>

\* claim_verified_login_reservation: the one verified by now, if it still is.
StartClaim(r) ==
    LET V == {i \in LiveOf(Owner[r]) : res[i].status = "verified"} IN
    /\ At(r, "claim")
    /\ IF V = {} THEN Goto(r, "guard") /\ UNCHANGED res
       ELSE \E i \in V :
              /\ res' = [res EXCEPT ![i].status = "claimed"]
              /\ req' = [req EXCEPT ![r].pc = "guard", ![r].res = i]
    /\ UNCHANGED <<slot, binding, account, dep, cmds, bound, Untouched>>

StartGuard(r) ==
    /\ At(r, "guard")
    /\ Goto(r, IF req[r].res = None /\ ~req[r].ready THEN "done" ELSE "manage")
    /\ UNCHANGED <<slot, binding, res, account, dep, cmds, bound, Untouched>>

\* _raise_if_bot_control_cooldown_active and
\* _ensure_tradingview_subscription_for_start raise outside the try that releases
\* the claimed reservation.
StartRefused(r) ==
    /\ At(r, "guard")
    /\ Spend("refused", MaxRefused)
    /\ Goto(r, "done")
    /\ UNCHANGED <<slot, binding, res, account, dep, cmds, Untouched>>

\* The deployment manager reads the account's deployments and commands again: a
\* command in flight raises.  An active deployment leads to its replacement, which
\* is another module's; the claimed reservation is left as it is there.
StartManage(r) ==
    /\ At(r, "manage")
    /\ \/ /\ ~ActiveOf(Owner[r])
          /\ Goto(r, IF req[r].res # None THEN "pick" ELSE "prepare")
       \/ /\ ActiveOf(Owner[r])
          /\ Goto(r, IF req[r].res # None THEN "release" ELSE "done")
       \/ /\ ActiveOf(Owner[r])
          /\ Goto(r, "done")
    /\ UNCHANGED <<slot, binding, res, account, dep, cmds, bound, Untouched>>

\* prepare_sticky_slot_for_reuse: the account's own slot becomes free and its
\* binding sticky, unless the account is in use in some other way.  A binding that is
\* no longer there may be recovered from what the slot's heartbeat says, which is left
\* out.
Reusable(a) ==
    LET s == binding[a].slot IN
    /\ s # None
    /\ slot[s].acct \in {None, a}
    /\ ~ActiveOf(a)
    /\ LiveOf(a) = {}

StartPrepare(r) ==
    LET a == Owner[r] IN
    /\ At(r, "prepare")
    /\ \/ /\ Reusable(a)
          /\ binding' = [binding EXCEPT ![a].state = "sticky"]
          /\ slot' = [slot EXCEPT ![binding[a].slot] = Free]
       \/ /\ \/ ~Reusable(a)
             \/ \E q \in stopping : Owner[q] = a   \* its commands may be open
          /\ UNCHANGED <<slot, binding>>
    /\ Goto(r, "pick")
    /\ UNCHANGED <<res, account, dep, cmds, bound, Untouched>>

\* create_started_deployment and the dispatch of the START_BOT that follows;
\* uq_bot_deployments_active_account raises.
StartCreate(r) ==
    /\ At(r, "create")
    /\ IF ActiveOf(Owner[r])
       THEN /\ Goto(r, IF req[r].res # None THEN "release" ELSE "done")
            /\ UNCHANGED dep
       ELSE /\ dep' = [dep EXCEPT ![r] = [status |-> "active", slot |-> req[r].slot]]
            /\ Goto(r, "start")
    /\ UNCHANGED <<slot, binding, res, account, cmds, bound, Untouched>>

StartDispatch(r) ==
    /\ At(r, "start")
    /\ Goto(r, "done")
    /\ UNCHANGED <<slot, binding, res, account, dep, cmds, bound, Untouched>>

\* The dispatch raises: _cleanup_start_dispatch_failure releases the claimed
\* reservation, then cancels (or fails) the deployment and releases its binding.
StartDispatchRaises(r) ==
    /\ At(r, "start")
    /\ Fault
    /\ Goto(r, IF req[r].res # None THEN "cleanup" ELSE "cancel")
    /\ UNCHANGED <<slot, binding, res, account, dep, cmds, Untouched>>

\* release_claimed_login_reservation.
StartRelease(r) ==
    /\ At(r, "release") \/ At(r, "cleanup")
    /\ IF res[req[r].res].status = "claimed"
       THEN Close({req[r].res}, "released")
       ELSE UNCHANGED <<res, slot, binding>>
    /\ Goto(r, IF At(r, "release") THEN "done" ELSE "cancel")
    /\ UNCHANGED <<account, dep, cmds, bound, Untouched>>

\* cancel_pending_deployment: the deployment's status, then its binding.
StartCancel(r) ==
    /\ At(r, "cancel")
    /\ dep' = [dep EXCEPT ![r].status = "stopped"]
    /\ Goto(r, "unbind")
    /\ UNCHANGED <<slot, binding, res, account, cmds, bound, Untouched>>

StartUnbind(r) ==
    /\ Kind[r] = "start" /\ At(r, "unbind")
    /\ ReleasePairs({<<Owner[r], dep[r].slot>>})
    /\ Goto(r, "done")
    /\ UNCHANGED <<res, account, dep, cmds, bound, Untouched>>

\* The API process dies.  One that dies while it cancels is lost: nobody ends its
\* deployment any more, whose binding may have been released already.
Crash(r) ==
    /\ req[r].pc \notin {"idle", "done", "lost"}
    /\ Fault
    /\ Goto(r, IF At(r, "cancel") THEN "lost" ELSE "done")
    /\ UNCHANGED <<slot, binding, res, account, dep, cmds, Untouched>>

----------------------------------------------------------------------------
(* delete_account.                                                         *)

DeleteAdmit(r) ==
    /\ Kind[r] = "delete" /\ Arrives(r)
    /\ Goto(r, IF ActiveOf(Owner[r]) THEN "done" ELSE "drop")
    /\ UNCHANGED <<slot, binding, res, account, dep, cmds, bound, Untouched>>

\* release_login_reservation: every open one, expired or not.
DeleteDrop(r) ==
    /\ At(r, "drop")
    /\ Close({i \in Logins : Owner[i] = Owner[r] /\ Open(i)}, "released")
    /\ Goto(r, "read")
    /\ UNCHANGED <<account, dep, cmds, bound, Untouched>>

DeleteRead(r) ==
    /\ At(r, "read")
    /\ req' = [req EXCEPT ![r].slot = binding[Owner[r]].slot, ![r].pc = "delete"]
    /\ UNCHANGED <<slot, binding, res, account, dep, cmds, bound, Untouched>>

\* soft_delete_account looks for an active deployment again, under a lock.
DeleteSoft(r) ==
    /\ At(r, "delete")
    /\ IF ActiveOf(Owner[r])
       THEN Goto(r, "done") /\ UNCHANGED account
       ELSE /\ account' = [account EXCEPT ![Owner[r]] = "disconnected"]
            /\ Goto(r, IF req[r].slot # None THEN "drop_binding" ELSE "done")
    /\ UNCHANGED <<slot, binding, res, dep, cmds, bound, Untouched>>

DeleteUnbind(r) ==
    /\ At(r, "drop_binding")
    /\ ReleasePairs({<<Owner[r], req[r].slot>>})
    /\ Goto(r, "done")
    /\ UNCHANGED <<res, account, dep, cmds, bound, Untouched>>

----------------------------------------------------------------------------
(* What the runner reports: login results and BOT_STOPPED.                 *)

Answer(c, result) == cmds' = (cmds \ {c}) \cup {[c EXCEPT !.result = result]}

\* A mutant of Verify: a reservation closed meanwhile is verified all the same.
VerifyAny(i, s) ==
    /\ res' = [res EXCEPT ![i] = [status |-> "verified", slot |-> s, due |-> FALSE]]
    /\ account' = [account EXCEPT ![Owner[i]] =
                     IF @ = "disconnected" THEN @ ELSE "connected"]
    /\ slot' = [slot EXCEPT ![s] = [acct |-> Owner[i], allocated |-> TRUE]]

\* complete_login_reservation, ok: a closed or claimed reservation is left alone,
\* any other takes the slot of the event, whoever is on it.
Verify(i, s) ==
    IF Open(i)
    THEN /\ res' = [res EXCEPT ![i] = [status |-> "verified", slot |-> s, due |-> FALSE]]
         /\ account' = [account EXCEPT ![Owner[i]] =
                          IF @ = "disconnected" THEN @ ELSE "connected"]
         /\ slot' = [slot EXCEPT ![s] = [acct |-> Owner[i], allocated |-> TRUE]]
    ELSE UNCHANGED <<res, account, slot>>

\* complete_login_reservation, not ok.
Fail(i, s) ==
    IF Open(i)
    THEN /\ res' = [res EXCEPT ![i] = [@ EXCEPT !.status = "failed", !.slot = s]]
         /\ account' = [account EXCEPT ![Owner[i]] =
                          IF @ = "disconnected" THEN @ ELSE "login_failed"]
         /\ ReleasePairs({<<Owner[i], s>>})
    ELSE UNCHANGED <<res, account, slot, binding>>

\* uq_account_login_reservations_active_slot makes the UPDATE raise.
SlotTaken(i, s) == \E j \in Logins \ {i} : Open(j) /\ res[j].slot = s

\* LOGIN_SLOT_VERIFIED, the first time or again.
LoginVerified(c) ==
    /\ \/ c.result = "none" /\ UNCHANGED bound
       \/ c.result = "ok" /\ Fault
    /\ Open(c.res) => ~SlotTaken(c.res, c.slot)
    /\ Answer(c, "ok")
    /\ Verify(c.res, c.slot)
    /\ UNCHANGED <<binding, dep, req, Untouched>>

LoginFailed(c) ==
    /\ \/ c.result = "none" /\ UNCHANGED bound
       \/ c.result = "failed" /\ Fault
    /\ Answer(c, "failed")
    /\ Fail(c.res, c.slot)
    /\ UNCHANGED <<dep, req, Untouched>>

\* LOGIN_SLOT_RELEASED: the runner gives up a login it had verified.
LoginReleased(c) ==
    /\ c.result = "ok"
    /\ Open(c.res)
    /\ Close({c.res}, "released")
    /\ UNCHANGED <<account, dep, cmds, req, bound, Untouched>>

\* _finalize_stopped_deployment: the deployment's status, then its slot.
Stopped(q) ==
    /\ q \in Stoppable /\ Active(q)
    /\ dep' = [dep EXCEPT ![q].status = "stopped"]
    /\ stopping' = stopping \cup {q}
    /\ UNCHANGED <<slot, binding, res, account, cmds, req, bound, stale>>

\* release_deployment_slot: by the deployment's slot and binding row, whoever holds
\* the slot, unless another deployment is active on it.
StoppedRelease(q) ==
    LET a == Owner[q]  s == dep[q].slot IN
    /\ q \in stopping
    /\ stopping' = stopping \ {q}
    /\ slot' = IF ActiveOn(s) \ {q} = {} THEN [slot EXCEPT ![s] = Free] ELSE slot
    /\ binding' = [binding EXCEPT ![a] = IF @.slot = s THEN NoBinding ELSE @]
    /\ UNCHANGED <<res, account, dep, cmds, req, bound, stale>>

----------------------------------------------------------------------------
(* The jobs and the runner's heartbeat.                                    *)

\* The time of a reservation is up.
Lapse(i) ==
    /\ Open(i) \/ res[i].status = "claimed"
    /\ ~res[i].due
    /\ LapseInFlight \/ ~InFlight(Owner[i])
    /\ res' = [res EXCEPT ![i].due = TRUE]
    /\ UNCHANGED <<slot, binding, account, dep, cmds, req, bound, Untouched>>

Sweep ==
    /\ \E i \in Logins : Open(i) /\ res[i].due
    /\ ReleaseExpired
    /\ UNCHANGED <<dep, cmds, req, bound, Untouched>>

\* touch_runner_heartbeat, for a slot the runner lists as ready: it is freed unless
\* a deployment, an open reservation or an open command is on it; the bindings
\* stay.
Heartbeat(s) ==
    /\ slot[s] # Free
    /\ ActiveOn(s) = {}
    /\ ~OpenOn(s)
    /\ ~OpenCommand(s)
    /\ slot' = [slot EXCEPT ![s] = Free]
    /\ UNCHANGED <<binding, res, account, dep, cmds, req, bound, Untouched>>

\* release_expired_sticky_slot_bindings, at midnight.
ExpireSticky(a) ==
    LET s == binding[a].slot IN
    /\ binding[a].state = "sticky"
    /\ slot[s].acct = None
    /\ ~ActiveOf(a)
    /\ LiveOf(a) = {}
    /\ \A i \in Logins : Live(i) => res[i].slot # s
    /\ binding' = [binding EXCEPT ![a] = NoBinding]
    /\ UNCHANGED <<slot, res, account, dep, cmds, req, bound, Untouched>>

\* reconcile_active_deployments_on_ready_slots: a deployment whose slot is ready and
\* empty is stopped and its binding kept; the unique indexes of the bindings refuse
\* the whole statement.
ZeroRuntime(q) ==
    LET a == Owner[q]  s == dep[q].slot IN
    /\ Active(q)
    /\ slot[s].acct = None
    /\ binding[a].slot \in {None, s}
    /\ \A b \in Accounts \ {a} : ~Current(b, s)
    /\ dep' = [dep EXCEPT ![q].status = "stopped"]
    /\ slot' = [slot EXCEPT ![s] = Free]
    /\ binding' = [binding EXCEPT ![a] = [slot |-> s, state |-> "sticky"]]
    /\ UNCHANGED <<res, account, cmds, req, bound, Untouched>>

\* reconcile_ready_runner_slots, of the readiness endpoint: the ready slots are
\* read, then each is released in a transaction of its own that looks at nothing.
ReadyRead ==
    /\ stale = {}
    /\ Spend("reads", MaxReads)
    /\ stale' = {s \in Slots : slot[s].acct = None}
    /\ UNCHANGED <<slot, binding, res, account, dep, cmds, req, stopping>>

ReadyRelease(s) ==
    /\ s \in stale
    /\ stale' = stale \ {s}
    /\ dep' = [q \in Starts |->
                 IF q \in ActiveOn(s) THEN [dep[q] EXCEPT !.status = "stopped"]
                 ELSE dep[q]]
    /\ binding' = [a \in Accounts |->
                     IF binding[a] = [slot |-> s, state |-> "active"]
                     THEN NoBinding ELSE binding[a]]
    /\ res' = [i \in Logins |->
                 IF Open(i) /\ res[i].slot = s
                 THEN [res[i] EXCEPT !.status = "released"] ELSE res[i]]
    /\ slot' = [slot EXCEPT ![s].acct = None]
    /\ UNCHANGED <<account, cmds, req, stopping, bound>>

----------------------------------------------------------------------------
RequestStep(r) ==
    \/ LoginAdmit(r) \/ LoginReserve(r) \/ LoginDispatch(r)
    \/ LoginDispatchRaises(r) \/ LoginMark(r)
    \/ Pick(r) \/ PickNone(r) \/ Allocate(r) \/ AllocateRaises(r)
    \/ StartAdmit(r) \/ StartClaim(r) \/ StartGuard(r) \/ StartRefused(r)
    \/ StartManage(r) \/ StartPrepare(r) \/ StartCreate(r) \/ StartDispatch(r)
    \/ StartDispatchRaises(r) \/ StartRelease(r) \/ StartCancel(r)
    \/ StartUnbind(r)
    \/ DeleteAdmit(r) \/ DeleteDrop(r) \/ DeleteRead(r) \/ DeleteSoft(r)
    \/ DeleteUnbind(r)

RunnerStep ==
    \/ \E c \in cmds : LoginVerified(c) \/ LoginFailed(c) \/ LoginReleased(c)
    \/ \E q \in Starts : Stopped(q) \/ StoppedRelease(q)

JobStep ==
    \/ Sweep
    \/ \E s \in Slots : Heartbeat(s) \/ ReadyRelease(s)
    \/ \E a \in Accounts : ExpireSticky(a)
    \/ \E q \in Starts : ZeroRuntime(q)

Next ==
    \/ \E r \in Requests : RequestStep(r) \/ Crash(r)
    \/ RunnerStep
    \/ JobStep
    \/ \E i \in Logins : Lapse(i)
    \/ ReadyRead

Spec == Init /\ [][Next]_vars

\* The API processes, the jobs and the heartbeats keep running and time passes; no
\* deployment need stop, no login need be answered.
FairSpec ==
    /\ Spec
    /\ \A r \in Requests : WF_vars(RequestStep(r))
    /\ \A q \in Starts : WF_vars(StoppedRelease(q))
    /\ \A s \in Slots : WF_vars(Heartbeat(s)) /\ WF_vars(ReadyRelease(s))
    /\ \A i \in Logins : WF_vars(Lapse(i))
    /\ WF_vars(Sweep)

----------------------------------------------------------------------------
(* Properties.                                                             *)

SlotState == [acct : Accounts \cup {None}, allocated : BOOLEAN]
BindingState == [slot : Slots \cup {None}, state : {"none", "active", "sticky"}]
Reservation == [status : {"absent", "claimed", "failed", "expired", "released"}
                            \cup OpenReservation,
                slot : Slots \cup {None}, due : BOOLEAN]
Deployment == [status : {"absent", "active", "stopped"}, slot : Slots \cup {None}]
RequestState ==
    [pc : {"idle", "pick", "allocate", "reserve", "dispatch", "mark", "claim", "guard",
           "manage", "prepare", "create", "start", "release", "cleanup", "cancel",
           "unbind", "drop", "read", "delete", "drop_binding", "done", "lost"},
     slot : Slots \cup {None}, res : Logins \cup {None},
     ready : BOOLEAN, again : BOOLEAN]
Command == [res : Logins, slot : Slots, result : {"none", "ok", "failed"}]

\* Types: a login command always names a reservation and a slot.
TypeOK ==
    /\ slot \in [Slots -> SlotState]
    /\ binding \in [Accounts -> BindingState]
    /\ res \in [Logins -> Reservation]
    /\ account \in [Accounts -> {"pending_login", "connected", "login_failed",
                                 "disconnected"}]
    /\ dep \in [Starts -> Deployment]
    /\ cmds \subseteq Command
    /\ req \in [Requests -> RequestState]
    /\ stopping \subseteq Starts
    /\ stale \subseteq Slots
    /\ bound \in [faults : Nat, refused : Nat, reads : Nat]

\* No two deployments are active on a slot, but for one whose START_BOT could not be
\* sent and that is still to be cancelled, which a process that dies leaves undone:
\* nothing but the bindings sees to it, as no index of bot_deployments names the slot.
OneBotPerSlot ==
    \A s \in Slots :
        Cardinality({q \in ActiveOn(s) : req[q].pc \notin {"cancel", "lost"}}) <= 1

\* No two accounts have a current binding to a slot: allocate_slot_binding never
\* runs into uq_account_slot_bindings_current_slot.
OneCurrentPerSlot ==
    \A a, b \in Accounts : a # b /\ binding[a].slot # None => ~Current(b, binding[a].slot)

\* A slot kept for a login is not given to another account until the reservation
\* expires or ends.
KeptForLogin ==
    \A i \in Logins : Live(i) => slot[res[i].slot].acct \in {None, Owner[i]}

\* A slot does not pass from one account to another without being freed in
\* between, late login results included.
NoSteal == [][\A s \in Slots : slot[s].acct # None =>
                slot'[s].acct \in {slot[s].acct, None}]_vars

\* A login reservation that has ended does not come back, whatever answer is late or
\* comes twice; a claimed one only ends by being released.
EndedStaysEnded ==
    [][\A i \in Logins :
         /\ res[i].status \in {"failed", "expired", "released"} =>
               res'[i].status = res[i].status
         /\ res[i].status = "claimed" => res'[i].status \in {"claimed", "released"}]_vars

\* A verified login ends by being released or expiring, unless a deployment of its
\* account comes of it.
ReleasedIfUnused ==
    \A i \in Logins :
        res[i].status = "verified" ~>
            \/ res[i].status \in {"failed", "expired", "released"}
            \/ ActiveOf(Owner[i])

InUse(s) ==
    \/ ActiveOn(s) # {}
    \/ OpenOn(s) \/ OpenCommand(s)
    \/ \E a \in Accounts : InFlight(a)
    \/ \E q \in stopping : dep[q].slot = s

\* A slot nobody uses is, again and again, one that every account could be given.
SlotReturns ==
    \A s \in Slots : []<>(InUse(s) \/ \A a \in Accounts : Allocatable(a, s))
=============================================================================
