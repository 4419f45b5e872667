-------------------------- MODULE BotTokenLicense --------------------------
(***************************************************************************)
(* Activation codes of the licence token bot and the right to run a bot    *)
(* they buy: issue, claim, start, expiry, lock.                            *)
(*                                                                         *)
(*   tok    bot_access_tokens.status (backend)                             *)
(*   local  the row the token bot keeps of the same code, in its own       *)
(*          database                                                       *)
(*   ent    bot_token_entitlements: the row a claim inserts, with the      *)
(*          deployment bound to it and whether it has a stop_command_id    *)
(*   dep    bot_deployments: the row a start inserts, whether a STOP_BOT   *)
(*          was dispatched for it and how many BOT_STARTED it had          *)
(*   seen   deployments a BOT_STARTED being ingested has read              *)
(*   req    the requests in flight: claims, starts, locks                  *)
(*   rec    the expiry reconciler                                          *)
(*                                                                         *)
(* One action is one database transaction, or one call of the token bot to *)
(* the backend.  A user has one account.  All tokens are of one partner,   *)
(* which is active; its bots, durations and daily quota can only refuse a  *)
(* claim and are left out.  'expired' is no token status: claim_token      *)
(* writes it in the transaction it then aborts.  The token bot handles one *)
(* update at a time; its own handlers never overlap.                       *)
(***************************************************************************)
EXTENDS FiniteSets, Integers

CONSTANTS
    Tokens,     \* activation codes
    Users,      \* Telegram users
    Bots,       \* bot packages
    Claims,     \* claim requests, each naming the entitlement it would create
    Starts,     \* start requests, each naming the deployment it would create
    Locks,      \* lock requests handled by the token bot
    None,       \* no deployment, no entitlement
    BotOf,      \* the bot of each token
    TokenOf,    \* the token of each claim and lock
    UserOf,     \* the user of each claim and start
    EntOf,      \* the entitlement each start presents
    Hot,        \* the starts that only change the DCA settings
    Grant,      \* the locks that cancel the partner's grant of a bot
    MaxActive,  \* the partner's max_active_tokens
    MaxServed,  \* bound: requests
    MaxFaults   \* bound: calls that raise or are lost, processes that die

ASSUME LicenceAssumption ==
    /\ BotOf \in [Tokens -> Bots]
    /\ TokenOf \in [Claims \cup Locks -> Tokens]
    /\ UserOf \in [Claims \cup Starts -> Users]
    /\ EntOf \in [Starts -> Claims]
    /\ \A s \in Starts : UserOf[EntOf[s]] = UserOf[s]
    /\ Hot \subseteq Starts /\ Grant \subseteq Locks
    /\ None \notin Starts \cup Claims
    /\ IsFiniteSet(Claims)
    /\ {MaxActive, MaxServed, MaxFaults} \subseteq Nat

VARIABLES tok, local, ent, dep, seen, req, rec, faults

vars == <<tok, local, ent, dep, seen, req, rec, faults>>

Requests == Claims \cup Starts \cup Locks

Init ==
    /\ tok = [t \in Tokens |-> "absent"]
    /\ local = [t \in Tokens |-> "absent"]
    /\ ent = [c \in Claims |->
                [status |-> "absent", due |-> FALSE, dep |-> None, stop |-> FALSE]]
    /\ dep = [s \in Starts |-> [status |-> "absent", cmd |-> FALSE, started |-> FALSE]]
    /\ seen = {}
    /\ req = [r \in Requests |-> [pc |-> "idle", dep |-> None, ents |-> {}]]
    /\ rec = [pc |-> "expire", list |-> {}, ent |-> None]
    /\ faults = 0

Fault == faults < MaxFaults /\ faults' = faults + 1

At(r, pc) == req[r].pc = pc
Arrives(r) ==
    At(r, "idle") /\ Cardinality({q \in Requests : ~At(q, "idle")}) < MaxServed
Goto(r, pc) == req' = [req EXCEPT ![r].pc = pc]

\* status = 'active' AND expires_at > now
InForce(c) == ent[c].status = "active" /\ ~ent[c].due
Bot(c) == BotOf[TokenOf[c]]

Live(d) == dep[d].status \in {"starting", "running"}
Occupied(u) == \E d \in Starts :
    UserOf[d] = u /\ dep[d].status \notin {"absent", "stopped"}

----------------------------------------------------------------------------
(* Issue: the backend inserts the token, then the token bot its own row.   *)
(* The customer is shown the code after that.                              *)

TokenBotIdle ==
    /\ \A l \in Locks : req[l].pc \in {"idle", "done", "lost"}
    /\ \A t \in Tokens : local[t] # "saving"

IssueToken(t) ==
    /\ TokenBotIdle
    /\ tok[t] = "absent"
    /\ tok' = [tok EXCEPT ![t] = "issued"]
    /\ local' = [local EXCEPT ![t] = "saving"]
    /\ UNCHANGED <<ent, dep, seen, req, rec, faults>>

IssueSave(t) ==
    /\ local[t] = "saving"
    /\ local' = [local EXCEPT ![t] = "live"]
    /\ UNCHANGED <<tok, ent, dep, seen, req, rec, faults>>

\* The reply is lost or the save raises: a code nobody was shown.
IssueFails(t) ==
    /\ local[t] = "saving"
    /\ Fault
    /\ local' = [local EXCEPT ![t] = "absent"]
    /\ UNCHANGED <<tok, ent, dep, seen, req, rec>>

----------------------------------------------------------------------------
(* Claim.  The token row stays locked from the SELECT ... FOR UPDATE to    *)
(* the commit; the partner row from its own to the commit.                 *)

Locked(t) == \E c \in Claims : TokenOf[c] = t /\ At(c, "locked")

\* A mutant of TokenFree: the token row is read without FOR UPDATE.
TokenRead(t) == TRUE

TokenFree(t) == ~Locked(t)

ClaimRead(c) ==
    LET t == TokenOf[c] IN
    /\ Arrives(c)
    /\ local[t] \in {"live", "revoked"}
    /\ TokenFree(t)
    /\ IF /\ tok[t] = "issued"
          /\ \A e \in Claims :
                InForce(e) /\ UserOf[e] = UserOf[c] => Bot(e) = Bot(c)
       THEN Goto(c, "locked")
       ELSE Goto(c, "done")
    /\ UNCHANGED <<tok, local, ent, dep, seen, rec, faults>>

\* A mutant of UnderLimit: the partner may have one more.
UnderLimitOffByOne == Cardinality({e \in Claims : InForce(e)}) <= MaxActive

UnderLimit == Cardinality({e \in Claims : InForce(e)}) < MaxActive

ClaimWrite(c) ==
    /\ At(c, "locked")
    /\ IF UnderLimit
       THEN /\ tok' = [tok EXCEPT ![TokenOf[c]] = "redeemed"]
            /\ ent' = [ent EXCEPT ![c].status = "active"]
       ELSE UNCHANGED <<tok, ent>>
    /\ Goto(c, "done")
    /\ UNCHANGED <<local, dep, seen, rec, faults>>

\* expires_at passes.
Lapse(c) ==
    /\ InForce(c)
    /\ ent' = [ent EXCEPT ![c].due = TRUE]
    /\ UNCHANGED <<tok, local, dep, seen, req, rec, faults>>

----------------------------------------------------------------------------
(* Start: check the entitlement, start, bind the deployment to it.         *)

StartAssert(s) ==
    /\ Arrives(s)
    /\ ent[EntOf[s]].status # "absent"
    /\ Goto(s, IF InForce(EntOf[s]) THEN "start" ELSE "done")
    /\ UNCHANGED <<tok, local, ent, dep, seen, rec, faults>>

HotTargets(s) ==
    {d \in Starts : s \in Hot /\ UserOf[d] = UserOf[s] /\ dep[d].status = "running"}

\* A new deployment, refused while the user has one.
StartDeploy(s) ==
    /\ At(s, "start")
    /\ HotTargets(s) = {}
    /\ IF Occupied(UserOf[s])
       THEN Goto(s, "done") /\ UNCHANGED dep
       ELSE /\ dep' = [dep EXCEPT ![s].status = "starting"]
            /\ req' = [req EXCEPT ![s].pc = "bind", ![s].dep = s]
    /\ UNCHANGED <<tok, local, ent, seen, rec, faults>>

\* The running deployment takes the new settings and is the one returned.
StartHot(s) ==
    /\ At(s, "start")
    /\ \E d \in HotTargets(s) : req' = [req EXCEPT ![s].pc = "bind", ![s].dep = d]
    /\ UNCHANGED <<tok, local, ent, dep, seen, rec, faults>>

\* The process dies between the start and the bind.
StartDies(s) ==
    /\ At(s, "bind") \/ At(s, "undo")
    /\ Fault
    /\ Goto(s, "done")
    /\ UNCHANGED <<tok, local, ent, dep, seen, rec>>

\* A mutant of Bindable: the status of the entitlement is not looked at.
BindableAnyStatus(c, d) == ent[c].dep \in {None, d}

Bindable(c, d) == InForce(c) /\ ent[c].dep \in {None, d}

StartBind(s) ==
    LET c == EntOf[s] IN
    /\ At(s, "bind")
    /\ IF Bindable(c, req[s].dep)
       THEN ent' = [ent EXCEPT ![c].dep = req[s].dep] /\ Goto(s, "done")
       ELSE UNCHANGED ent /\ Goto(s, "undo")
    /\ UNCHANGED <<tok, local, dep, seen, rec, faults>>

----------------------------------------------------------------------------
(* Stop.                                                                   *)

\* stop_deployment: nothing to do for a stopped one; the STOP_BOT of an earlier
\* stop of the same deployment is found again, not sent twice.
Stop(d) ==
    IF dep[d].status = "stopped" THEN UNCHANGED dep
    ELSE dep' = [dep EXCEPT ![d].status = "stopping", ![d].cmd = TRUE]

\* It raises between desired_state = 'stopped' and the STOP_BOT row: no command tells
\* the runner.
HalfStop(d) ==
    IF dep[d].status = "stopped" THEN UNCHANGED dep
    ELSE dep' = [dep EXCEPT ![d].status = "stopping"]

StartUndo(s) ==
    /\ At(s, "undo")
    /\ Stop(req[s].dep)
    /\ Goto(s, "done")
    /\ UNCHANGED <<tok, local, ent, seen, rec, faults>>

UserStop(d) ==
    /\ dep[d].status \notin {"absent", "stopped"}
    /\ Stop(d)
    /\ UNCHANGED <<tok, local, ent, seen, req, rec, faults>>

\* The runner's BOT_STARTED: the deployment is read, then written running
\* whatever it is by then.
StartedRead(d) ==
    /\ Live(d) /\ ~dep[d].started
    /\ seen' = seen \cup {d}
    /\ dep' = [dep EXCEPT ![d].started = TRUE]
    /\ UNCHANGED <<tok, local, ent, req, rec, faults>>

\* A mutant of StartedWrite: the event names the status.
StartedWriteListening(d) ==
    /\ d \in seen
    /\ seen' = seen \ {d}
    /\ dep' = [dep EXCEPT ![d].status = "listening"]
    /\ UNCHANGED <<tok, local, ent, req, rec, faults>>

StartedWrite(d) ==
    /\ d \in seen
    /\ seen' = seen \ {d}
    /\ dep' = [dep EXCEPT ![d].status = "running"]
    /\ UNCHANGED <<tok, local, ent, req, rec, faults>>

\* BOT_STOPPED; one consumer ingests the events of a deployment in turn.
BotStopped(d) ==
    /\ dep[d].cmd /\ dep[d].status # "stopped"
    /\ d \notin seen
    /\ dep' = [dep EXCEPT ![d].status = "stopped"]
    /\ UNCHANGED <<tok, local, ent, seen, req, rec, faults>>

\* The runner reports that the bot did not start.
StartFails(d) ==
    /\ dep[d].status = "starting" /\ d \notin seen
    /\ Fault
    /\ dep' = [dep EXCEPT ![d].status = "stopped"]
    /\ UNCHANGED <<tok, local, ent, seen, req, rec>>

----------------------------------------------------------------------------
(* Lock.  The partner's button asks the backend first and marks its own    *)
(* row after an answer; cancelling a grant marks its rows first and does   *)
(* not look at the answer.                                                 *)

LockRead(l) ==
    LET t == TokenOf[l] IN
    /\ Arrives(l)
    /\ TokenBotIdle
    /\ tok[t] # "absent"
    /\ IF l \in Grant
       THEN IF local[t] = "live"
            THEN local' = [local EXCEPT ![t] = "revoked"] /\ Goto(l, "call")
            ELSE UNCHANGED local /\ Goto(l, "done")
       ELSE /\ Goto(l, IF local[t] = "revoked" THEN "done" ELSE "call")
            /\ UNCHANGED local
    /\ UNCHANGED <<tok, ent, dep, seen, rec, faults>>

EntsOf(t) == {c \in Claims : TokenOf[c] = t /\ ent[c].status = "active"}

\* A mutant of Revoked: only entitlements that run a bot are ended.
RevokedBound(C) == [c \in Claims |->
    IF c \in C /\ ent[c].dep # None
    THEN [ent[c] EXCEPT !.status = "revoked"] ELSE ent[c]]

Revoked(C) == [c \in Claims |->
    IF c \in C THEN [ent[c] EXCEPT !.status = "revoked"] ELSE ent[c]]

RevokeToken(l) ==
    LET t == TokenOf[l]
        C == EntsOf(t)
    IN  /\ At(l, "call")
        /\ TokenFree(t)
        /\ tok' = [tok EXCEPT ![t] = "revoked"]
        /\ ent' = Revoked(C)
        /\ req' = [req EXCEPT ![l].pc = "stops",
                             ![l].ents = {c \in C : ent[c].dep # None}]
        /\ UNCHANGED <<local, dep, seen, rec, faults>>

LockStop(l) ==
    /\ At(l, "stops")
    /\ \E c \in req[l].ents :
         /\ Stop(ent[c].dep)
         /\ ent' = [ent EXCEPT ![c].stop = dep[ent[c].dep].status # "stopped"]
         /\ req' = [req EXCEPT ![l].ents = @ \ {c}]
    /\ UNCHANGED <<tok, local, seen, rec, faults>>

LockStopRaises(l) ==
    /\ At(l, "stops")
    /\ \E c \in req[l].ents :
         /\ UNCHANGED dep \/ HalfStop(ent[c].dep) \/ Stop(ent[c].dep)
         /\ req' = [req EXCEPT ![l].ents = @ \ {c}]
    /\ Fault
    /\ UNCHANGED <<tok, local, ent, seen, rec>>

MarkLocal(t) ==
    local' = [local EXCEPT ![t] = IF @ = "live" THEN "revoked" ELSE @]

LockReply(l) ==
    /\ At(l, "stops") /\ req[l].ents = {}
    /\ IF l \in Grant THEN UNCHANGED local ELSE MarkLocal(TokenOf[l])
    /\ Goto(l, "done")
    /\ UNCHANGED <<tok, ent, dep, seen, rec, faults>>

\* A mutant of NoReply: the partner's row is marked without an answer.
NoReplyMarked(l) ==
    /\ MarkLocal(TokenOf[l])
    /\ req' = [req EXCEPT ![l].pc = "lost", ![l].ents = {}]

\* The token bot gets no answer: the partner may try again.
NoReply(l) ==
    /\ UNCHANGED local
    /\ req' = [req EXCEPT ![l].pc = IF l \in Grant THEN "lost" ELSE "idle",
                         ![l].ents = {}]

\* The call is lost, or the backend dies with stops left, or the reply is lost.
LockUnanswered(l) ==
    /\ At(l, "call") \/ At(l, "stops")
    /\ Fault
    /\ NoReply(l)
    /\ UNCHANGED <<tok, ent, dep, seen, rec>>

----------------------------------------------------------------------------
(* The expiry reconciler.                                                  *)

RecExpire ==
    /\ rec.pc = "expire"
    /\ ent' = [c \in Claims |->
                 IF ent[c].status = "active" /\ ent[c].due
                 THEN [ent[c] EXCEPT !.status = "expired"] ELSE ent[c]]
    /\ rec' = [rec EXCEPT !.pc = "list"]
    /\ UNCHANGED <<tok, local, dep, seen, req, faults>>

NeedsStop(c) ==
    /\ ent[c].status = "expired"
    /\ ent[c].dep # None
    /\ ~ent[c].stop
    /\ Live(ent[c].dep)

\* A mutant of RecList: the stops are recorded before they are requested.
RecListRecorded ==
    /\ rec.pc = "list"
    /\ rec' = [rec EXCEPT !.pc = "stop", !.list = {c \in Claims : NeedsStop(c)}]
    /\ ent' = [c \in Claims |-> [ent[c] EXCEPT !.stop = @ \/ NeedsStop(c)]]
    /\ UNCHANGED <<tok, local, dep, seen, req, faults>>

RecList ==
    /\ rec.pc = "list"
    /\ rec' = [rec EXCEPT !.pc = "stop", !.list = {c \in Claims : NeedsStop(c)}]
    /\ UNCHANGED <<tok, local, ent, dep, seen, req, faults>>

RecStop ==
    /\ rec.pc = "stop"
    /\ \E c \in rec.list :
         /\ Stop(ent[c].dep)
         /\ rec' = IF dep[ent[c].dep].status = "stopped"
                   THEN [rec EXCEPT !.list = @ \ {c}]
                   ELSE [rec EXCEPT !.pc = "record", !.list = @ \ {c}, !.ent = c]
    /\ UNCHANGED <<tok, local, ent, seen, req, faults>>

RecRecord ==
    /\ rec.pc = "record"
    /\ ent' = [ent EXCEPT ![rec.ent].stop = TRUE]
    /\ rec' = [rec EXCEPT !.pc = "stop", !.ent = None]
    /\ UNCHANGED <<tok, local, dep, seen, req, faults>>

RecStopRaises ==
    /\ rec.pc = "stop"
    /\ \E c \in rec.list :
         /\ UNCHANGED dep \/ HalfStop(ent[c].dep) \/ Stop(ent[c].dep)
         /\ rec' = [rec EXCEPT !.list = @ \ {c}]
    /\ Fault
    /\ UNCHANGED <<tok, local, ent, seen, req>>

\* The end of run_once; run_forever calls it again.
RecRound ==
    /\ rec.pc = "stop" /\ rec.list = {}
    /\ rec' = [rec EXCEPT !.pc = "expire"]
    /\ UNCHANGED <<tok, local, ent, dep, seen, req, faults>>

RecDies ==
    /\ rec.pc # "expire"
    /\ Fault
    /\ rec' = [pc |-> "expire", list |-> {}, ent |-> None]
    /\ UNCHANGED <<tok, local, ent, dep, seen, req>>

----------------------------------------------------------------------------
TokenStep(t) == IssueToken(t) \/ IssueSave(t) \/ IssueFails(t)
ClaimStep(c) == ClaimRead(c) \/ ClaimWrite(c)
StartServe(s) ==
    StartAssert(s) \/ StartDeploy(s) \/ StartHot(s) \/ StartBind(s) \/ StartUndo(s)
Event(d) == StartedRead(d) \/ StartedWrite(d) \/ BotStopped(d)
LockServe(l) == RevokeToken(l) \/ LockStop(l) \/ LockReply(l)
Reconcile == RecExpire \/ RecList \/ RecStop \/ RecRecord \/ RecRound

Next ==
    \/ \E t \in Tokens : TokenStep(t)
    \/ \E c \in Claims : ClaimStep(c) \/ Lapse(c)
    \/ \E s \in Starts :
         \/ StartServe(s) \/ StartDies(s)
         \/ Event(s) \/ StartFails(s) \/ UserStop(s)
    \/ \E l \in Locks :
         \/ LockRead(l) \/ LockServe(l)
         \/ LockStopRaises(l) \/ LockUnanswered(l)
    \/ Reconcile \/ RecStopRaises \/ RecDies

Spec == Init /\ [][Next]_vars

\* The singleton jobs run: the reconciler goes through its rounds, a STOP_BOT
\* ends in BOT_STOPPED (CommandDelivery), events are ingested.  Requests that
\* are in flight are served.
FairSpec ==
    /\ Spec
    /\ WF_vars(Reconcile)
    /\ \A d \in Starts : WF_vars(StartedWrite(d)) /\ WF_vars(BotStopped(d))
    /\ \A l \in Locks : WF_vars(LockServe(l))
    /\ \A c \in Claims : WF_vars(ClaimWrite(c))

----------------------------------------------------------------------------
(* Properties.                                                             *)

Entitlement == [status : {"absent", "active", "expired", "revoked"},
                due : BOOLEAN, dep : Starts \cup {None}, stop : BOOLEAN]
Deployment == [status : {"absent", "starting", "running", "stopping", "stopped"},
               cmd : BOOLEAN, started : BOOLEAN]
Request == [pc : {"idle", "locked", "start", "bind", "undo", "call", "stops",
                  "lost", "done"},
            dep : Starts \cup {None}, ents : SUBSET Claims]
Round == [pc : {"expire", "list", "stop", "record"}, list : SUBSET Claims,
          ent : Claims \cup {None}]

\* Values and shapes.
TypeOK ==
    /\ tok \in [Tokens -> {"absent", "issued", "redeemed", "revoked"}]
    /\ local \in [Tokens -> {"absent", "saving", "live", "revoked"}]
    /\ ent \in [Claims -> Entitlement]
    /\ dep \in [Starts -> Deployment]
    /\ seen \subseteq Starts
    /\ req \in [Requests -> Request]
    /\ rec \in Round
    /\ faults \in 0..MaxFaults

\* A code is used once: two claims of one code, whoever sends them, never both
\* get an entitlement, and a code with one is not for use again.
RedeemedOnce == \A c \in Claims :
    ent[c].status # "absent" =>
        /\ tok[TokenOf[c]] \in {"redeemed", "revoked"}
        /\ \A e \in Claims \ {c} :
              TokenOf[e] = TokenOf[c] => ent[e].status = "absent"

\* A locked code gives no right any more, however a claim of it and the lock
\* interleave.
LockHolds == \A t \in Tokens : \A c \in Claims :
    tok[t] = "revoked" /\ TokenOf[c] = t => ent[c].status # "active"

\* The partner never has more customers in force than its limit.
ActiveLimit == Cardinality({c \in Claims : InForce(c)}) <= MaxActive

\* What the token bot shows as locked is locked at the backend, unless the
\* backend was not reached while a grant was cancelled.
LockedIsLocked == \A t \in Tokens :
    local[t] = "revoked" =>
        \/ tok[t] = "revoked"
        \/ \E l \in Grant : TokenOf[l] = t /\ req[l].pc \in {"call", "lost"}

\* Claims, locks and binds, each of them several steps with others in between, are
\* to the customer as if they happened at once: a code is used once or locked for
\* good, and gives one right, which ends once and keeps the first bot it was bound
\* to, a bot of the same user.
Right(c) ==
    CASE ent[c].status = "absent" -> "none"
      [] InForce(c) -> "valid"
      [] OTHER -> "over"

Licence == INSTANCE ActivationCodes WITH
    Codes <- Tokens, Deployments <- Starts, CodeOf <- TokenOf, Limit <- MaxActive,
    code <- tok, right <- [c \in Claims |-> Right(c)],
    bot <- [c \in Claims |-> ent[c].dep]

AsAtOnce == Licence!Spec

Off(d) == dep[d].status = "stopped"

\* Its stop raised after desired_state = 'stopped' was written and before a STOP_BOT row
\* was: the bot runs on, and the listing of expired entitlements passes it over.
HalfStopped(d) == dep[d].status = "stopping" /\ ~dep[d].cmd

BoundTo(d, status) == \E c \in Claims : ent[c].status = status /\ ent[c].dep = d

\* A bot bound to an entitlement that expired ends up off for good, though a stop
\* raises before it has written anything or after its command was sent, the
\* reconciler dies between a stop and its record, and a late BOT_STARTED writes the
\* deployment running again.  The exception is a stop that raises half done: only the
\* user's own OFF repeats it.
ExpiryStops ==
    \A d \in Starts : [](BoundTo(d, "expired") => <>([]Off(d) \/ []HalfStopped(d)))

\* So does one whose code was locked, if nothing fails meanwhile: a lock's stop
\* is not retried.
LockStops == \A d \in Starts : [](BoundTo(d, "revoked") => <>([]Off(d) \/ faults > 0))

\* "stop deployments covered only by expired tokens" (expiry_reconciler.py:16):
\* none whose user has a newer entitlement in force for the same bot.
StopsOnlyUncovered == [][
    rec.pc = "stop" /\ rec'.pc = "record" =>
        LET c == rec'.ent IN
        ~\E e \in Claims :
            InForce(e) /\ UserOf[e] = UserOf[c] /\ Bot(e) = Bot(c)]_vars

\* "connect the account, then turn the bot on and off as usual", for the days of
\* the code (tg_bot.py:374, 382): a start with an entitlement in force is not
\* undone.
StartsWhileInForce == [][
    \A s \in Starts :
        At(s, "bind") /\ req'[s].pc = "undo" => ~InForce(EntOf[s])]_vars
=============================================================================
