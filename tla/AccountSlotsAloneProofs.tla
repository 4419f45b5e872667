----------------------- MODULE AccountSlotsAloneProofs -----------------------
(***************************************************************************)
(* What holds of AccountSlots when the requests of an account come one at  *)
(* a time, proved for any accounts, slots and requests and any number of   *)
(* crashes: who is on a slot, and for whom it is kept.                     *)
(***************************************************************************)
EXTENDS AccountSlotsProofs, FiniteSetTheorems

(***************************************************************************)
(* The flows taken away are those where the code keeps no such promise:    *)
(* overlapping requests of an account, a reservation that runs out under   *)
(* one, a stop whose second half meets the account's next request, and an  *)
(* operator's readiness request.                                           *)
(***************************************************************************)
Alone ==
    /\ ~Overlap /\ ~LapseInFlight /\ MaxReads = 0
    /\ \A q \in Stoppable, r \in Requests : Owner[r] = Owner[q] => r = q

(***************************************************************************)
(* The inductive invariant: an account's bot and its open login are where  *)
(* its binding is, and the requests rely on nothing else.                  *)
(***************************************************************************)
Bound(a, s) == binding[a] = [slot |-> s, state |-> "active"]
NoneOpen(a) == \A i \in Logins : Owner[i] = a => ~Open(i)
NoBot(a) == \A q \in Starts : Owner[q] = a => ~Active(q)
Undone == {"cancel", "lost"}
Runs(q) == Active(q) /\ req[q].pc \notin Undone

\* A slot is nobody else's while it is bound to an account.
SlotsBound == \A a \in Accounts, s \in Slots : Bound(a, s) => slot[s].acct \in {None, a}

\* An open login has the account's binding to its slot, and no bot besides; a runner's
\* answer to it names that slot.
LoginsHeld ==
    /\ \A i \in Logins : Open(i) => Bound(Owner[i], res[i].slot) /\ NoBot(Owner[i])
    /\ \A i, j \in Logins : Open(i) /\ Open(j) /\ Owner[i] = Owner[j] => i = j
    /\ \A c \in cmds : /\ res[c.res].status # "absent"
                       /\ Open(c.res) => c.slot = res[c.res].slot

\* A bot has the account's binding, and the account has but one.
BotsHeld ==
    /\ \A q \in Starts : Runs(q) => Bound(Owner[q], dep[q].slot)
    /\ \A p, q \in Starts : Active(p) /\ Active(q) /\ Owner[p] = Owner[q] => p = q

Over == {"idle", "done", "lost"}
OneAtATime ==
    \A r, q \in Requests :
        req[r].pc \notin Over /\ req[q].pc \notin Over /\ Owner[r] = Owner[q] => r = q

\* What a request has made sure of when it is at a step: what its account has open, which
\* bot it has, where its binding is.
Closed == {"pick", "allocate", "reserve", "guard", "manage", "prepare", "create", "start",
           "release", "cleanup", "cancel", "unbind", "read", "delete", "drop_binding"}
Botless == {"pick", "allocate", "reserve", "claim", "guard", "manage", "prepare", "create",
            "release", "unbind", "drop", "read", "delete", "drop_binding"}
Unborn == {"idle", "claim", "guard", "manage", "prepare", "pick", "allocate", "create"}
Releases == {"release", "cleanup"}
Position(r) ==
    LET a == Owner[r]  pc == req[r].pc IN
    /\ pc \in Closed => NoneOpen(a)
    /\ pc \in Botless => NoBot(a)
    /\ pc \in {"start", "cleanup", "cancel"} =>
          \A q \in Starts : Owner[q] = a /\ Active(q) => q = r
    /\ pc \in {"reserve", "create"} => Bound(a, req[r].slot)
    /\ req[r].res # None => Owner[req[r].res] = a
    /\ pc \in Releases => req[r].res # None
    /\ pc = "dispatch" => (Open(req[r].res) => res[req[r].res].slot = req[r].slot)
    /\ pc = "claim" => \A i \in Logins : Owner[i] = a /\ Open(i) =>
                          res[i].status = "verified" /\ ~res[i].due
    /\ pc \in Unborn /\ r \in Starts => dep[r].status = "absent"

JobsAlone ==
    /\ \A q \in stopping : q \in Stoppable /\ dep[q].status = "stopped"
    /\ stale = {}

AInv ==
    /\ IInv /\ SlotsBound /\ LoginsHeld /\ BotsHeld /\ OneAtATime
    /\ (\A r \in Requests : Position(r)) /\ JobsAlone

(***************************************************************************)
(* What most steps do: nothing is opened, started or sent anew, and a      *)
(* binding is let go only by an account that has no more use for it.       *)
(***************************************************************************)
ResKept ==
    \A i \in Logins :
        /\ res[i].status # "absent" => res'[i].status # "absent"
        /\ Open(i)' =>
              /\ Open(i) /\ res'[i].slot = res[i].slot
              /\ res[i].status = "verified" => res'[i].status = "verified"
              /\ ~res[i].due /\ InFlight(Owner[i]) => ~res'[i].due

DepKept ==
    \A q \in Starts :
        /\ Active(q)' => Active(q) /\ dep'[q].slot = dep[q].slot
        /\ dep[q].status = "absent" /\ req[q].pc \in Unborn => dep'[q].status = "absent"

Sends(q, c) == req[q].pc = "dispatch" /\ req[q].res = c.res /\ req[q].slot = c.slot
CmdsKept ==
    \A c \in cmds' :
        \/ \E d \in cmds : d.res = c.res /\ d.slot = c.slot
        \/ \E q \in Requests : Sends(q, c)

Takes == {"reserve", "create"}
LetsGo(a) ==
    /\ NoneOpen(a)'
    /\ \A q \in Starts : Owner[q] = a => ~Runs(q)'
    /\ \A q \in Requests : Owner[q] = a => req[q].pc \notin Takes
BindingsHold ==
    \A a \in Accounts : binding[a].state = "active" => binding'[a] = binding[a] \/ LetsGo(a)

StealStep ==
    \A s \in Slots : slot[s].acct # None => slot'[s].acct \in {slot[s].acct, None}

LEMMA Owners == \A r \in Requests : Owner[r] \in Accounts
  BY RequestsAssumption

LEMMA KindsApart ==
    Logins \subseteq Requests /\ Starts \subseteq Requests /\ Logins \cap Starts = {}
  BY DEF Logins, Starts

LEMMA StillKept ==
    ASSUME AInv
    PROVE  /\ UNCHANGED res => ResKept
           /\ UNCHANGED dep => DepKept
           /\ UNCHANGED cmds => CmdsKept
           /\ UNCHANGED binding => BindingsHold
           /\ UNCHANGED <<slot, binding>> => SlotsBound'
           /\ UNCHANGED slot => StealStep
           /\ UNCHANGED <<dep, Untouched>> => JobsAlone'
<1>1. UNCHANGED res => ResKept
  BY DEF ResKept, Open
<1>2. UNCHANGED dep => DepKept
  BY DEF DepKept, Active
<1>3. UNCHANGED cmds => CmdsKept
  BY DEF CmdsKept
<1>4. UNCHANGED <<slot, binding>> => SlotsBound'
  BY DEF AInv, SlotsBound, Bound
<1>5. UNCHANGED <<dep, Untouched>> => JobsAlone'
  BY DEF AInv, JobsAlone, Untouched
<1> QED BY <1>1, <1>2, <1>3, <1>4, <1>5 DEF BindingsHold, StealStep

LEMMA Emptier ==
    ASSUME NEW a
    PROVE  /\ ResKept /\ NoneOpen(a) => NoneOpen(a)'
           /\ DepKept /\ NoBot(a) => NoBot(a)'
  BY DEF ResKept, DepKept, NoneOpen, NoBot

LEMMA LoginsStay ==
    ASSUME AInv, IInv', ResKept, DepKept, CmdsKept, BindingsHold
    PROVE  LoginsHeld'
<1>1. LoginsHeld
  BY DEF AInv
<1>2. ASSUME NEW i \in Logins, Open(i)'
      PROVE  Bound(Owner[i], res[i].slot)' /\ NoBot(Owner[i])'
  <2>1. /\ Open(i) /\ res'[i].slot = res[i].slot
        /\ Bound(Owner[i], res[i].slot) /\ NoBot(Owner[i])
    BY <1>1, <1>2 DEF ResKept, LoginsHeld
  <2>2. Owner[i] \in Accounts
    BY Owners, KindsApart
  <2>3. ~LetsGo(Owner[i])
    BY <1>2 DEF LetsGo, NoneOpen
  <2>4. binding'[Owner[i]] = binding[Owner[i]]
    BY <2>1, <2>2, <2>3 DEF BindingsHold, Bound
  <2> QED BY <2>1, <2>4, Emptier DEF Bound
<1>3. \A i, j \in Logins : Open(i)' /\ Open(j)' /\ Owner[i] = Owner[j] => i = j
  BY <1>1 DEF LoginsHeld, ResKept
<1>4. ASSUME NEW c \in cmds'
      PROVE  /\ res'[c.res].status # "absent"
             /\ Open(c.res)' => c.slot = res'[c.res].slot
  <2>1. c.res \in Logins
    BY DEF IInv, CommandsOK, Command
  <2>2. res[c.res].status # "absent" /\ (Open(c.res) => c.slot = res[c.res].slot)
    <3>1. CASE \E d \in cmds : d.res = c.res /\ d.slot = c.slot
      BY <1>1, <3>1 DEF LoginsHeld
    <3>2. ASSUME NEW q \in Requests, Sends(q, c)
          PROVE  res[c.res].status # "absent" /\ (Open(c.res) => c.slot = res[c.res].slot)
      <4>1. Position(q) /\ Consistent(q, req[q], res)
        BY DEF AInv, IInv, RequestsOK
      <4>2. req[q].pc = "dispatch" /\ req[q].res = c.res /\ req[q].slot = c.slot /\ c.res # None
        BY <3>2, <2>1, Fresh DEF Sends
      <4> QED BY <4>1, <4>2 DEF Position, Consistent
    <3> QED BY <3>1, <3>2 DEF CmdsKept
  <2> QED BY <2>1, <2>2 DEF ResKept
<1> QED BY <1>2, <1>3, <1>4 DEF LoginsHeld

LEMMA BotsStay ==
    ASSUME AInv, DepKept, BindingsHold,
           \A q \in Starts : Active(q)' /\ req[q].pc \in Undone => req'[q].pc \in Undone
    PROVE  BotsHeld'
<1>1. BotsHeld
  BY DEF AInv
<1>2. ASSUME NEW q \in Starts, Runs(q)'
      PROVE  Bound(Owner[q], dep[q].slot)'
  <2>1. Runs(q) /\ dep'[q].slot = dep[q].slot
    BY <1>2 DEF Runs, DepKept
  <2>2. Bound(Owner[q], dep[q].slot) /\ Owner[q] \in Accounts
    BY <1>1, <2>1, Owners, KindsApart DEF BotsHeld
  <2>3. ~LetsGo(Owner[q])
    BY <1>2 DEF LetsGo
  <2> QED BY <2>1, <2>2, <2>3 DEF BindingsHold, Bound
<1>3. \A p, q \in Starts : Active(p)' /\ Active(q)' /\ Owner[p] = Owner[q] => p = q
  BY <1>1 DEF BotsHeld, DepKept
<1> QED BY <1>2, <1>3 DEF BotsHeld

\* A request that does not move is where it was.
LEMMA PositionStays ==
    ASSUME AInv, ResKept, DepKept, BindingsHold,
           NEW r \in Requests, req'[r] = req[r]
    PROVE  Position(r)'
<1> DEFINE a == Owner[r]
           pc == req[r].pc
<1>1. Position(r) /\ a \in Accounts
  BY Owners DEF AInv
<1>2. pc \in Closed => NoneOpen(a)'
  BY <1>1, Emptier DEF Position
<1>3. pc \in Botless => NoBot(a)'
  BY <1>1, Emptier DEF Position
<1>4. pc \in {"start", "cleanup", "cancel"} =>
          \A q \in Starts : Owner[q] = a /\ Active(q)' => q = r
  BY <1>1 DEF Position, DepKept
<1>5. pc \in Takes => binding'[a] = [slot |-> req[r].slot, state |-> "active"]
  BY <1>1 DEF Position, BindingsHold, Bound, LetsGo, Takes
<1>6. ASSUME pc = "dispatch", Open(req[r].res)'
      PROVE  res'[req[r].res].slot = req[r].slot
  <2>1. req[r].res \in Logins
    BY <1>6 DEF AInv, IInv, RequestsOK, RequestState, Consistent
  <2>2. Open(req[r].res) /\ res'[req[r].res].slot = res[req[r].res].slot
    BY <1>6, <2>1 DEF ResKept
  <2> QED BY <1>1, <1>6, <2>2 DEF Position
<1>7. ASSUME pc = "claim", NEW i \in Logins, Owner[i] = a, Open(i)'
      PROVE  res'[i].status = "verified" /\ ~res'[i].due
  <2>1. InFlight(a)
    BY <1>7 DEF InFlight
  <2>2. res[i].status = "verified" /\ ~res[i].due
    BY <1>1, <1>7 DEF Position, ResKept
  <2> QED BY <1>7, <2>1, <2>2 DEF ResKept
<1>8. pc \in Unborn /\ r \in Starts => dep'[r].status = "absent"
  BY <1>1 DEF Position, DepKept
<1> QED BY <1>1, <1>2, <1>3, <1>4, <1>5, <1>6, <1>7, <1>8 DEF Position, Bound, Takes, Open

LEMMA OneAtATimeStays ==
    ASSUME AInv, NEW r \in Requests,
           \A q \in Requests : q # r => req'[q] = req[q],
           \/ req'[r].pc \in Over
           \/ req[r].pc \notin Over
           \/ ~InFlight(Owner[r])
    PROVE  OneAtATime'
<1>1. OneAtATime
  BY DEF AInv
<1> QED BY <1>1 DEF OneAtATime, Over, InFlight

\* A step in which one request moves.
LEMMA OneMoves ==
    ASSUME AInv, IInv', ResKept, DepKept, CmdsKept, BindingsHold, SlotsBound', JobsAlone',
           NEW r \in Requests,
           \A q \in Requests : q # r => req'[q] = req[q],
           \/ req'[r].pc \in Over
           \/ req[r].pc \notin Over
           \/ ~InFlight(Owner[r]),
           r \in Starts /\ Active(r)' /\ req[r].pc \in Undone => req'[r].pc \in Undone,
           Position(r)'
    PROVE  AInv'
<1>1. LoginsHeld'
  BY LoginsStay
<1>2. \A q \in Starts : Active(q)' /\ req[q].pc \in Undone => req'[q].pc \in Undone
  BY KindsApart
<1>3. BotsHeld'
  BY <1>2, BotsStay
<1>4. OneAtATime'
  BY OneAtATimeStays
<1>5. \A q \in Requests : Position(q)'
  BY PositionStays
<1> QED BY <1>1, <1>3, <1>4, <1>5 DEF AInv

\* A step in which none does.
LEMMA NoneMoves ==
    ASSUME AInv, IInv', ResKept, DepKept, CmdsKept, BindingsHold, SlotsBound', JobsAlone',
           UNCHANGED req
    PROVE  AInv'
<1>1. LoginsHeld'
  BY LoginsStay
<1>2. BotsHeld'
  BY BotsStay
<1>3. OneAtATime'
  BY DEF AInv, OneAtATime
<1>4. \A q \in Requests : Position(q)'
  BY PositionStays
<1> QED BY <1>1, <1>2, <1>3, <1>4 DEF AInv
\* A request goes on and takes no slot, deployments stay as they are: what its next
\* step relies on has been made sure of.
Steady == BindingsHold /\ SlotsBound' /\ StealStep /\ UNCHANGED <<dep, Untouched>>
LEMMA Advances ==
    ASSUME AInv, IInv', Steady, ResKept, CmdsKept, NEW r \in Requests, NEW pc,
           \A q \in Requests : q # r => req'[q] = req[q],
           req'[r].pc = pc,
           req'[r].res # None => Owner[req'[r].res] = Owner[r],
           req[r].pc \notin Over,
           pc \in Closed => req[r].pc \in Closed \/ NoneOpen(Owner[r])',
           pc \in Botless => req[r].pc \in Botless,
           pc \in {"start", "cleanup", "cancel"} =>
               req[r].pc \in {"start", "cleanup", "cancel"},
           pc \notin Takes \cup {"dispatch", "claim"},
           pc \in Unborn => req[r].pc \in Unborn,
           pc \in Releases => req'[r].res # None,
           r \in Starts /\ Active(r) /\ req[r].pc \in Undone => pc \in Undone
    PROVE  AInv' /\ StealStep
<1>1. /\ DepKept /\ BindingsHold /\ SlotsBound' /\ JobsAlone' /\ StealStep
      /\ UNCHANGED dep
  <2>1. UNCHANGED <<dep, Untouched>>
    BY DEF Steady
  <2> QED BY <2>1, StillKept DEF Steady
<1>2. Position(r)
  BY DEF AInv
<1>3. pc \in Closed => NoneOpen(Owner[r])'
  BY <1>2, Emptier DEF Position
<1>4. pc \in Botless => NoBot(Owner[r])'
  BY <1>1, <1>2, Emptier DEF Position
<1>5. pc \in {"start", "cleanup", "cancel"} =>
          \A q \in Starts : Owner[q] = Owner[r] /\ Active(q)' => q = r
  BY <1>1, <1>2 DEF Position, DepKept
<1>6. pc \in Unborn /\ r \in Starts => dep'[r].status = "absent"
  BY <1>1, <1>2 DEF Position
<1>7. Position(r)'
  BY <1>3, <1>4, <1>5, <1>6 DEF Position, Takes
<1>8. r \in Starts /\ Active(r)' /\ req[r].pc \in Undone => req'[r].pc \in Undone
  BY <1>1 DEF Active
<1> QED BY <1>1, <1>7, <1>8, OneMoves

\* The same, when the request keeps its slot and its reservation.
LEMMA Goes ==
    ASSUME AInv, IInv', Steady, ResKept, CmdsKept, NEW r \in Requests, NEW pc,
           Goto(r, pc),
           req[r].pc \notin Over,
           pc \in Closed => req[r].pc \in Closed \/ NoneOpen(Owner[r])',
           pc \in Botless => req[r].pc \in Botless,
           pc \in {"start", "cleanup", "cancel"} =>
               req[r].pc \in {"start", "cleanup", "cancel"},
           pc \notin Takes \cup {"dispatch", "claim"},
           pc \in Unborn => req[r].pc \in Unborn,
           pc \in Releases => req[r].res # None,
           r \in Starts /\ Active(r) /\ req[r].pc \in Undone => pc \in Undone
    PROVE  AInv' /\ StealStep
<1>1. /\ req'[r].pc = pc /\ req'[r].res = req[r].res
      /\ \A q \in Requests : q # r => req'[q] = req[q]
  BY GotoEffect DEF AInv, IInv, RequestsOK
<1>2. req'[r].res # None => Owner[req'[r].res] = Owner[r]
  BY <1>1 DEF AInv, Position
<1> QED BY <1>1, <1>2, Advances

LEMMA LoginGoes ==
    ASSUME AInv, IInv', NEW r \in Requests,
           LoginDispatch(r) \/ LoginDispatchRaises(r) \/ LoginMark(r)
    PROVE  AInv' /\ StealStep
<1>1. CASE LoginDispatch(r)
  <2>1. ResKept /\ Steady
    BY <1>1, StillKept DEF LoginDispatch, Steady
  <2>2. CmdsKept
    BY <1>1 DEF LoginDispatch, CmdsKept, Sends, At
  <2> QED BY <1>1, <2>1, <2>2, Goes
          DEF LoginDispatch, At, Over, Closed, Botless, Takes, Unborn, Releases, Undone
<1>2. CASE LoginDispatchRaises(r)
  <2>1. ResKept /\ CmdsKept /\ Steady
    BY <1>2, StillKept DEF LoginDispatchRaises, Steady
  <2> QED BY <1>2, <2>1, Goes
          DEF LoginDispatchRaises, At, Over, Closed, Botless, Takes, Unborn, Releases, Undone
<1>3. CASE LoginMark(r)
  <2>1. CmdsKept /\ Steady
    BY <1>3, StillKept DEF LoginMark, Steady
  <2>2. ResKept
    <3> DEFINE i == req[r].res
    <3>1. CASE res[i].status \in {"pending", "dispatched"}
      <4>1. i \in Logins
        BY <1>3 DEF LoginMark, At, AInv, IInv, RequestsOK, RequestState, Consistent
      <4>2. res' = [res EXCEPT ![i] = [res[i] EXCEPT !.status = "dispatched", !.due = FALSE]]
        BY <1>3, <3>1, <4>1 DEF LoginMark, AInv, IInv, ReservationsOK, Reservation
      <4>3. res[i] \in Reservation /\ res \in [Logins -> Reservation]
        BY <4>1 DEF AInv, IInv, ReservationsOK
      <4>4. /\ \A j \in Logins : j # i => res'[j] = res[j]
            /\ res'[i].status = "dispatched" /\ res'[i].due = FALSE
            /\ res'[i].slot = res[i].slot
        BY <4>1, <4>2, <4>3 DEF Reservation
      <4> QED BY <3>1, <4>4 DEF ResKept, Open, OpenReservation
    <3>2. CASE ~(res[i].status \in {"pending", "dispatched"})
      BY <1>3, <3>2, StillKept DEF LoginMark
    <3> QED BY <3>1, <3>2
  <2> QED BY <1>3, <2>1, <2>2, Goes
          DEF LoginMark, At, Over, Closed, Botless, Takes, Unborn, Releases, Undone
<1> QED BY <1>1, <1>2, <1>3

LEMMA PickGoes ==
    ASSUME AInv, IInv', NEW r \in Requests, Pick(r) \/ PickNone(r) \/ AllocateRaises(r)
    PROVE  AInv' /\ StealStep
<1>1. /\ req \in [Requests -> RequestState] /\ req[r] \in RequestState
      /\ req[r].res # None => Owner[req[r].res] = Owner[r]
  BY DEF AInv, IInv, RequestsOK, Position
<1>2. ResKept /\ CmdsKept /\ Steady
  BY StillKept DEF Pick, PickNone, AllocateRaises, Steady
<1>3. CASE Pick(r)
  <2>1. PICK s \in Picked(r) : req' = [req EXCEPT ![r].pc = "allocate", ![r].slot = s]
    BY <1>3 DEF Pick
  <2>2. req'[r] = [req[r] EXCEPT !.pc = "allocate", !.slot = s]
    BY <1>1, <2>1
  <2>3. /\ req'[r].pc = "allocate" /\ req'[r].res = req[r].res
        /\ \A q \in Requests : q # r => req'[q] = req[q]
    BY <1>1, <2>1, <2>2 DEF RequestState
  <2> QED BY <1>1, <1>2, <1>3, <2>3, Advances
          DEF Pick, At, Over, Closed, Botless, Takes, Unborn, Releases, Undone
<1>4. CASE PickNone(r)
  <2>1. req[r].pc = "pick"
    BY <1>4 DEF PickNone, At
  <2>2. CASE req' = [req EXCEPT ![r].pc = "prepare", ![r].again = TRUE]
    <3>1. req'[r] = [req[r] EXCEPT !.pc = "prepare", !.again = TRUE]
      BY <1>1, <2>2
    <3>2. /\ req'[r].pc = "prepare" /\ req'[r].res = req[r].res
          /\ \A q \in Requests : q # r => req'[q] = req[q]
      BY <1>1, <2>2, <3>1 DEF RequestState
    <3> QED BY <1>1, <1>2, <2>1, <3>2, Advances
            DEF Over, Closed, Botless, Takes, Unborn, Releases, Undone
  <2>3. CASE Goto(r, "done")
    BY <1>2, <2>1, <2>3, Goes DEF Over, Closed, Botless, Takes, Unborn, Releases, Undone
  <2> QED BY <1>4, <2>2, <2>3 DEF PickNone, Goto
<1>5. CASE AllocateRaises(r)
  <2>1. PICK pc \in {"release", "done"} : Goto(r, pc)
    BY <1>5 DEF AllocateRaises
  <2> QED BY <1>2, <1>5, <2>1, Goes
          DEF AllocateRaises, At, Over, Closed, Botless, Takes, Unborn, Releases, Undone
<1> QED BY <1>3, <1>4, <1>5

LEMMA StartGoes ==
    ASSUME AInv, IInv', NEW r \in Requests,
           \/ StartGuard(r) \/ StartRefused(r) \/ StartManage(r)
           \/ StartDispatch(r) \/ StartDispatchRaises(r) \/ Crash(r)
    PROVE  AInv' /\ StealStep
<1>1. ResKept /\ CmdsKept /\ Steady
  BY StillKept DEF StartGuard, StartRefused, StartManage, StartDispatch,
                   StartDispatchRaises, Crash, Steady
<1>2. CASE StartGuard(r)
  <2>1. PICK pc \in {"done", "manage"} : Goto(r, pc)
    BY <1>2 DEF StartGuard
  <2> QED BY <1>1, <1>2, <2>1, Goes
          DEF StartGuard, At, Over, Closed, Botless, Takes, Unborn, Releases, Undone
<1>3. CASE StartRefused(r)
  BY <1>1, <1>3, Goes DEF StartRefused, At, Over, Closed, Botless,
                              Takes, Unborn, Releases, Undone
<1>4. CASE StartManage(r)
  <2>1. PICK pc \in {"pick", "prepare", "release", "done"} : Goto(r, pc)
    BY <1>4 DEF StartManage
  <2> QED BY <1>1, <1>4, <2>1, Goes
          DEF StartManage, At, Over, Closed, Botless, Takes, Unborn, Releases, Undone
<1>5. CASE StartDispatch(r)
  BY <1>1, <1>5, Goes DEF StartDispatch, At, Over, Closed, Botless,
                              Takes, Unborn, Releases, Undone
<1>6. CASE StartDispatchRaises(r)
  <2>1. PICK pc \in {"cleanup", "cancel"} : Goto(r, pc)
    BY <1>6 DEF StartDispatchRaises
  <2>2. NoneOpen(Owner[r])'
    BY <1>1, <1>6, Emptier DEF StartDispatchRaises, At, Closed, AInv, Position
  <2> QED BY <1>1, <1>6, <2>1, Goes
          DEF StartDispatchRaises, At, Over, Closed, Botless, Takes, Unborn, Releases, Undone
<1>7. CASE Crash(r)
  <2>1. PICK pc \in {"lost", "done"} :
           Goto(r, pc) /\ (req[r].pc \in Undone => pc \in Undone)
    BY <1>7 DEF Crash, At, Undone
  <2>2. req[r].pc \notin Over
    BY <1>7 DEF Crash, Over
  <2> QED BY <1>1, <2>1, <2>2, Goes DEF Closed, Botless, Takes, Unborn, Releases
<1> QED BY <1>2, <1>3, <1>4, <1>5, <1>6, <1>7
LEMMA ClaimGoes ==
    ASSUME AInv, IInv', NEW r \in Requests, StartClaim(r)
    PROVE  AInv' /\ StealStep
<1> DEFINE a == Owner[r]
           V == {i \in LiveOf(a) : res[i].status = "verified"}
<1>1. /\ req \in [Requests -> RequestState] /\ req[r] \in RequestState
      /\ res \in [Logins -> Reservation]
      /\ req[r].pc = "claim" /\ Position(r) /\ LoginsHeld
      /\ req[r].res # None => Owner[req[r].res] = a
  BY DEF AInv, IInv, RequestsOK, ReservationsOK, StartClaim, At, Position
<1>2. CmdsKept /\ Steady
  BY StillKept DEF StartClaim, Steady
<1>3. \A i \in Logins : Owner[i] = a /\ Open(i) => i \in V
  BY <1>1 DEF Position, LiveOf, Live
<1>4. CASE V = {}
  <2>1. Goto(r, "guard") /\ ResKept /\ NoneOpen(a)
    BY <1>3, <1>4, StillKept DEF StartClaim, NoneOpen
  <2>2. NoneOpen(a)'
    BY <2>1, Emptier
  <2> QED BY <1>1, <1>2, <2>1, <2>2, Goes
          DEF Over, Closed, Botless, Takes, Unborn, Releases, Undone
<1>5. CASE V # {}
  <2>1. PICK i \in V : /\ res' = [res EXCEPT ![i].status = "claimed"]
                       /\ req' = [req EXCEPT ![r].pc = "guard", ![r].res = i]
    BY <1>5 DEF StartClaim
  <2>2. i \in Logins /\ Owner[i] = a /\ Open(i)
    BY DEF LiveOf, Live
  <2>3. /\ \A j \in Logins : j # i => res'[j] = res[j]
        /\ res'[i].status = "claimed"
    BY <1>1, <2>1, <2>2 DEF Reservation
  <2>4. ResKept
    BY <2>3 DEF ResKept, Open, OpenReservation
  <2>5. NoneOpen(a)'
    BY <1>1, <2>2, <2>3 DEF NoneOpen, Open, OpenReservation, LoginsHeld
  <2>6. req'[r] = [req[r] EXCEPT !.pc = "guard", !.res = i]
    BY <1>1, <2>1
  <2>7. /\ req'[r].pc = "guard" /\ req'[r].res = i
        /\ \A q \in Requests : q # r => req'[q] = req[q]
    BY <1>1, <2>1, <2>6 DEF RequestState
  <2> QED BY <1>1, <1>2, <2>2, <2>4, <2>5, <2>7, Advances
          DEF Over, Closed, Botless, Takes, Unborn, Releases, Undone
<1> QED BY <1>4, <1>5

LEMMA DeleteGoes ==
    ASSUME AInv, IInv', NEW r \in Requests, DeleteRead(r) \/ DeleteSoft(r)
    PROVE  AInv' /\ StealStep
<1>1. ResKept /\ CmdsKept /\ Steady
  BY StillKept DEF DeleteRead, DeleteSoft, Steady
<1>2. CASE DeleteRead(r)
  <2>1. /\ req \in [Requests -> RequestState] /\ req[r] \in RequestState
        /\ req[r].res # None => Owner[req[r].res] = Owner[r]
        /\ req[r].pc = "read"
    BY <1>2 DEF AInv, IInv, RequestsOK, Position, DeleteRead, At
  <2>2. req'[r] = [req[r] EXCEPT !.slot = binding[Owner[r]].slot, !.pc = "delete"]
    BY <1>2, <2>1 DEF DeleteRead
  <2>3. /\ req'[r].pc = "delete" /\ req'[r].res = req[r].res
        /\ \A q \in Requests : q # r => req'[q] = req[q]
    BY <1>2, <2>1, <2>2 DEF RequestState, DeleteRead
  <2> QED BY <1>1, <2>1, <2>3, Advances
          DEF Over, Closed, Botless, Takes, Unborn, Releases, Undone
<1>3. CASE DeleteSoft(r)
  <2>1. PICK pc \in {"drop_binding", "done"} : Goto(r, pc)
    BY <1>3 DEF DeleteSoft
  <2> QED BY <1>1, <1>3, <2>1, Goes
          DEF DeleteSoft, At, Over, Closed, Botless, Takes, Unborn, Releases, Undone
<1> QED BY <1>2, <1>3

----------------------------------------------------------------------------
(* Reservations and bindings that are released.                            *)

\* A slot only loses its account and no binding is made.
LEMMA SlotsStay ==
    ASSUME AInv,
           \A a \in Accounts : binding'[a].state = "active" => binding'[a] = binding[a],
           \A s \in Slots : slot'[s].acct \in {slot[s].acct, None}
    PROVE  SlotsBound' /\ StealStep
  BY DEF AInv, SlotsBound, Bound, StealStep

LEMMA ReleaseOnly ==
    ASSUME AInv, NEW P, ReleasePairs(P)
    PROVE  /\ SlotsBound' /\ StealStep
           /\ \A a \in Accounts : binding'[a] = binding[a] \/ <<a, binding[a].slot>> \in P
<1>1. \A a \in Accounts : binding'[a].state = "active" => binding'[a] = binding[a]
  BY DEF ReleasePairs, NoBinding
<1>2. \A s \in Slots : slot'[s].acct \in {slot[s].acct, None}
  BY DEF ReleasePairs, Free
<1> QED BY <1>1, <1>2, SlotsStay DEF ReleasePairs

LEMMA CloseOnly ==
    ASSUME AInv, NEW I, NEW status \in {"expired", "released"}, Close(I, status),
           I \subseteq Logins
    PROVE  ResKept /\ \A i \in I : ~Open(i)'
<1>1. res \in [Logins -> Reservation]
  BY DEF AInv, IInv, ReservationsOK
<1>2. ASSUME NEW i \in I
      PROVE  res'[i].status = status
  BY <1>1, <1>2 DEF Close, Reservation
<1>3. \A i \in Logins \ I : res'[i] = res[i]
  BY DEF Close
<1>4. \A i \in I : res'[i].status # "absent" /\ ~Open(i)'
  BY <1>2 DEF Open, OpenReservation
<1> QED BY <1>3, <1>4 DEF ResKept, Open

\* An account whose open reservation is closed has neither another, nor a bot, nor a
\* request that has just taken the slot.
LEMMA ClosedLetsGo ==
    ASSUME AInv, ResKept, DepKept, NEW i \in Logins, Open(i), ~Open(i)'
    PROVE  LetsGo(Owner[i])
<1>1. LoginsHeld /\ \A q \in Requests : Position(q)
  BY DEF AInv
<1>2. NoneOpen(Owner[i])'
  BY <1>1 DEF NoneOpen, ResKept, LoginsHeld
<1>3. NoBot(Owner[i]) /\ ~NoneOpen(Owner[i])
  BY <1>1 DEF LoginsHeld, NoneOpen
<1>4. \A q \in Starts : Owner[q] = Owner[i] => ~Runs(q)'
  BY <1>3 DEF NoBot, Runs, DepKept
<1>5. \A q \in Requests : Owner[q] = Owner[i] => req[q].pc \notin Takes
  BY <1>1, <1>3 DEF Position, Closed, Takes
<1> QED BY <1>2, <1>4, <1>5 DEF LetsGo

LEMMA CloseOpen ==
    ASSUME AInv, NEW I, NEW status \in {"expired", "released"}, Close(I, status),
           DepKept, \A i \in I : i \in Logins /\ Open(i)
    PROVE  ResKept /\ BindingsHold /\ SlotsBound' /\ StealStep /\ \A i \in I : ~Open(i)'
<1>1. ResKept /\ \A i \in I : ~Open(i)'
  BY CloseOnly
<1> DEFINE P == {Pair(i) : i \in I}
<1>2. ReleasePairs(P)
  BY DEF Close
<1>3. \A a \in Accounts : <<a, binding[a].slot>> \in P => \E i \in I : Owner[i] = a
  BY DEF Pair
<1> HIDE DEF P
<1>4. /\ SlotsBound' /\ StealStep
      /\ \A a \in Accounts : binding'[a] = binding[a] \/ <<a, binding[a].slot>> \in P
  BY <1>2, ReleaseOnly
<1>5. BindingsHold
  BY <1>1, <1>3, <1>4, ClosedLetsGo DEF BindingsHold
<1> QED BY <1>1, <1>4, <1>5

LEMMA ExpireOnly ==
    ASSUME AInv, ReleaseExpired, DepKept
    PROVE  /\ ResKept /\ BindingsHold /\ SlotsBound' /\ StealStep
           /\ \A i \in Logins : Open(i)' => Live(i) /\ res'[i] = res[i]
<1> DEFINE E == {i \in Logins : Open(i) /\ res[i].due}
<1>1. Close(E, "expired")
  BY DEF ReleaseExpired
<1>2. \A i \in E : i \in Logins /\ Open(i)
  OBVIOUS
<1>3. \A i \in Logins : i \notin E => res'[i] = res[i]
  BY <1>1 DEF Close
<1>4. \A i \in Logins : i \notin E /\ Open(i) => Live(i)
  BY DEF Live
<1> HIDE DEF E
<1>5. /\ ResKept /\ BindingsHold /\ SlotsBound' /\ StealStep
      /\ \A i \in E : ~Open(i)'
  BY <1>1, <1>2, CloseOpen
<1> QED BY <1>3, <1>4, <1>5 DEF ResKept
----------------------------------------------------------------------------
(* Requests that arrive.                                                   *)

LEMMA ArrivesAlone ==
    ASSUME Alone, AInv, NEW r \in Requests, Arrives(r)
    PROVE  /\ req[r].pc = "idle" /\ ~InFlight(Owner[r])
           /\ r \in Starts => dep[r].status = "absent"
           /\ req[r].res # None => Owner[req[r].res] = Owner[r]
  BY DEF Alone, AInv, Arrives, At, Position, Unborn

LEMMA ActiveNone ==
    ASSUME NEW a, ~ActiveOf(a)
    PROVE  NoBot(a)
  BY DEF ActiveOf, NoBot

\* A request that arrives makes sure of what its first step relies on.
LEMMA Arrival ==
    ASSUME Alone, AInv, IInv', NEW r \in Requests, NEW pc, Arrives(r),
           ResKept, BindingsHold, SlotsBound', StealStep,
           UNCHANGED <<dep, cmds, Untouched>>,
           \A q \in Requests : q # r => req'[q] = req[q],
           req'[r].pc = pc, req'[r].res = req[r].res,
           pc \in Botless => NoBot(Owner[r]),
           pc \in Closed => NoneOpen(Owner[r])',
           pc \notin Takes \cup Releases \cup {"dispatch", "start", "cancel"},
           pc = "claim" => \A i \in Logins : Owner[i] = Owner[r] /\ Open(i)' =>
                              res'[i].status = "verified" /\ ~res'[i].due
    PROVE  AInv' /\ StealStep
<1>1. DepKept /\ CmdsKept /\ JobsAlone'
  BY StillKept
<1>2. pc \in Botless => NoBot(Owner[r])'
  BY <1>1, Emptier
<1>3. Position(r)'
  BY <1>2, ArrivesAlone DEF Position, Takes, Releases, Open
<1>4. req[r].pc \notin Undone
  BY ArrivesAlone DEF Undone
<1> QED BY <1>1, <1>3, <1>4, ArrivesAlone, OneMoves

LEMMA AdmitGoes ==
    ASSUME Alone, AInv, IInv', NEW r \in Requests,
           LoginAdmit(r) \/ StartAdmit(r) \/ DeleteAdmit(r)
    PROVE  AInv' /\ StealStep
<1> DEFINE a == Owner[r]
<1>1. /\ req \in [Requests -> RequestState] /\ req[r] \in RequestState
      /\ Arrives(r)
  BY DEF AInv, IInv, RequestsOK, LoginAdmit, StartAdmit, DeleteAdmit
<1>2. DepKept
  BY StillKept DEF LoginAdmit, StartAdmit, DeleteAdmit
<1>3. CASE LoginAdmit(r)
  <2>1. PICK pc \in {"pick", "done"} : Goto(r, pc) /\ (pc = "pick" => LiveOf(a) = {})
    BY <1>3 DEF LoginAdmit
  <2>2. /\ req'[r].pc = pc /\ req'[r].res = req[r].res
        /\ \A q \in Requests : q # r => req'[q] = req[q]
    BY <1>1, <2>1, GotoEffect
  <2>3. /\ ResKept /\ BindingsHold /\ SlotsBound' /\ StealStep
        /\ \A i \in Logins : Open(i)' => Live(i)
    BY <1>2, <1>3, ExpireOnly DEF LoginAdmit
  <2>4. pc \in Closed => NoneOpen(a)'
    BY <2>1, <2>3 DEF Closed, NoneOpen, LiveOf
  <2>5. NoBot(a)
    BY <1>3, ActiveNone DEF LoginAdmit
  <2> QED BY <1>1, <1>3, <2>1, <2>2, <2>3, <2>4, <2>5, Arrival
          DEF LoginAdmit, Takes, Releases
<1>4. CASE StartAdmit(r)
  <2> DEFINE L == LiveOf(a)
             pc == IF \E i \in L : res[i].status # "verified" THEN "done"
                   ELSE IF L # {} THEN "claim" ELSE "guard"
  <2>1. req' = [req EXCEPT ![r].ready = account[a] = "connected", ![r].pc = pc]
    BY <1>4 DEF StartAdmit
  <2>2. /\ pc \in {"done", "claim", "guard"}
        /\ pc = "claim" => \A i \in L : res[i].status = "verified"
        /\ pc = "guard" => L = {}
    OBVIOUS
  <2> HIDE DEF pc
  <2>3. /\ req'[r].pc = pc /\ req'[r].res = req[r].res
        /\ \A q \in Requests : q # r => req'[q] = req[q]
    <3>1. req'[r] = [req[r] EXCEPT !.ready = account[a] = "connected", !.pc = pc]
      BY <1>1, <2>1
    <3>2. req'[r].pc = pc /\ req'[r].res = req[r].res
      BY <1>1, <3>1 DEF RequestState
    <3> QED BY <1>1, <2>1, <3>2
  <2>4. /\ ResKept /\ BindingsHold /\ SlotsBound' /\ StealStep
        /\ \A i \in Logins : Open(i)' => Live(i) /\ res'[i] = res[i]
    BY <1>2, <1>4, ExpireOnly DEF StartAdmit
  <2>5. \A i \in Logins : Owner[i] = a /\ Open(i)' => i \in L /\ res'[i] = res[i] /\ ~res[i].due
    BY <2>4 DEF LiveOf, Live
  <2>6. pc \in Closed => NoneOpen(a)'
    BY <2>2, <2>5 DEF Closed, NoneOpen
  <2>7. pc = "claim" => \A i \in Logins : Owner[i] = a /\ Open(i)' =>
                              res'[i].status = "verified" /\ ~res'[i].due
    BY <2>2, <2>5
  <2>8. NoBot(a)
    BY <1>4, ActiveNone DEF StartAdmit
  <2> HIDE DEF L
  <2> QED BY <1>1, <1>4, <2>2, <2>3, <2>4, <2>6, <2>7, <2>8, Arrival
          DEF StartAdmit, Takes, Releases
<1>5. CASE DeleteAdmit(r)
  <2>1. PICK pc \in {"drop", "done"} : Goto(r, pc) /\ (pc = "drop" => ~ActiveOf(a))
    BY <1>5 DEF DeleteAdmit
  <2>2. /\ req'[r].pc = pc /\ req'[r].res = req[r].res
        /\ \A q \in Requests : q # r => req'[q] = req[q]
    BY <1>1, <2>1, GotoEffect
  <2>3. ResKept /\ BindingsHold /\ SlotsBound' /\ StealStep
    BY <1>5, StillKept DEF DeleteAdmit
  <2>4. pc \in Botless => NoBot(a)
    BY <2>1, ActiveNone DEF Botless
  <2> QED BY <1>1, <1>5, <2>1, <2>2, <2>3, <2>4, Arrival
          DEF DeleteAdmit, Takes, Releases, Closed
<1> QED BY <1>3, <1>4, <1>5

----------------------------------------------------------------------------
(* A slot is taken.                                                        *)

\* A request that is at a step is the only one of its account.
LEMMA OnlyOne ==
    ASSUME AInv, NEW r \in Requests, req[r].pc \notin Over
    PROVE  \A q \in Requests : Owner[q] = Owner[r] /\ q # r => req[q].pc \in Over
  BY DEF AInv, OneAtATime

LEMMA AllocateGoes ==
    ASSUME AInv, IInv', NEW r \in Requests, Allocate(r)
    PROVE  AInv' /\ StealStep
<1> DEFINE a == Owner[r]
           s == req[r].slot
<1>1. /\ req[r].pc = "allocate" /\ Consistent(r, req[r], res) /\ Position(r)
      /\ a \in Accounts /\ s \in Slots /\ slot \in [Slots -> SlotState]
      /\ req \in [Requests -> RequestState]
  BY Owners DEF Allocate, At, AInv, IInv, RequestsOK, Consistent, SlotsOK
<1>2. /\ Allocatable(a, s)
      /\ slot' = [slot EXCEPT ![s].acct = a]
      /\ binding' = [b \in Accounts |->
                       IF b = a THEN [slot |-> s, state |-> "active"]
                       ELSE IF binding[b] = [slot |-> s, state |-> "sticky"] THEN NoBinding
                       ELSE binding[b]]
  BY DEF Allocate
<1>3. ResKept /\ DepKept /\ CmdsKept /\ JobsAlone'
  BY StillKept DEF Allocate
<1>4. NoneOpen(a) /\ NoBot(a)
  BY <1>1 DEF Position, Closed, Botless
<1>5. NoneOpen(a)' /\ NoBot(a)'
  BY <1>3, <1>4, Emptier
<1>6. LetsGo(a)
  <2>1. \A q \in Requests : Owner[q] = a => req[q].pc \notin Takes
    BY <1>1, OnlyOne DEF Over, Takes
  <2> QED BY <1>5, <2>1 DEF LetsGo, NoBot, Runs
<1>7. BindingsHold
  <2>1. \A b \in Accounts : b # a /\ binding[b].state = "active" => binding'[b] = binding[b]
    BY <1>2
  <2> QED BY <1>6, <2>1 DEF BindingsHold
<1>8. slot'[s].acct = a /\ \A t \in Slots : t # s => slot'[t] = slot[t]
  BY <1>1, <1>2 DEF SlotState
<1>9. SlotsBound' /\ StealStep
  <2>1. slot[s].acct \in {None, a} /\ \A b \in Accounts \ {a} : ~Bound(b, s)
    BY <1>2 DEF Allocatable, Bound
  <2>2. ASSUME NEW b \in Accounts, NEW t \in Slots, Bound(b, t)'
        PROVE  slot'[t].acct \in {None, b}
    <3>1. CASE b = a
      <4>1. t = s
        BY <1>1, <1>2, <2>2, <3>1 DEF Bound
      <4> QED BY <1>8, <3>1, <4>1
    <3>2. CASE b # a
      <4>1. Bound(b, t)
        BY <1>2, <2>2, <3>2 DEF Bound, NoBinding
      <4>2. t # s
        BY <2>1, <3>2, <4>1
      <4> QED BY <1>8, <4>1, <4>2 DEF AInv, SlotsBound
    <3> QED BY <3>1, <3>2
  <2>3. StealStep
    BY <1>8, <2>1 DEF StealStep
  <2> QED BY <2>2, <2>3 DEF SlotsBound
<1>10. PICK pc \in Takes : Goto(r, pc)
  BY DEF Allocate, Takes
<1>11. /\ req'[r].pc = pc /\ req'[r].slot = s /\ req'[r].res = req[r].res
       /\ \A q \in Requests : q # r => req'[q] = req[q]
  BY <1>1, <1>10, GotoEffect
<1>12. binding'[a] = [slot |-> s, state |-> "active"]
  BY <1>1, <1>2
<1>13. r \in Starts => dep'[r].status = "absent"
  BY <1>1 DEF Position, Unborn, Allocate
<1>14. Position(r)'
  BY <1>1, <1>5, <1>10, <1>11, <1>12, <1>13 DEF Position, Bound, Takes, Releases
<1> QED BY <1>1, <1>3, <1>7, <1>9, <1>11, <1>14, OneMoves DEF Over, Undone
\* An account with nothing open and no bot that runs lets its binding go.
LEMMA UnusedLetsGo ==
    ASSUME AInv, NEW r \in Requests, req[r].pc \notin Over \cup Takes,
           NoneOpen(Owner[r])',
           \A q \in Starts : Owner[q] = Owner[r] => ~Runs(q)'
    PROVE  LetsGo(Owner[r])
<1>1. \A q \in Requests : Owner[q] = Owner[r] => req[q].pc \notin Takes
  BY OnlyOne DEF Over, Takes
<1> QED BY <1>1 DEF LetsGo

LEMMA PrepareGoes ==
    ASSUME AInv, IInv', NEW r \in Requests, StartPrepare(r)
    PROVE  AInv' /\ StealStep
<1> DEFINE a == Owner[r]
<1>1. /\ req[r].pc = "prepare" /\ Position(r) /\ a \in Accounts
      /\ slot \in [Slots -> SlotState] /\ binding \in [Accounts -> BindingState]
  BY Owners DEF StartPrepare, At, AInv, IInv, SlotsOK, BindingsOK
<1>2. ResKept /\ DepKept /\ CmdsKept
  BY StillKept DEF StartPrepare
<1>3. BindingsHold /\ SlotsBound' /\ StealStep
  <2>1. CASE UNCHANGED <<slot, binding>>
    BY <2>1, StillKept
  <2>2. CASE /\ Reusable(a)
             /\ binding' = [binding EXCEPT ![a].state = "sticky"]
             /\ slot' = [slot EXCEPT ![binding[a].slot] = Free]
    <3>1. NoneOpen(a)' /\ NoBot(a)'
      BY <1>1, <1>2, Emptier DEF Position, Closed, Botless
    <3>2. LetsGo(a)
      BY <1>1, <3>1, UnusedLetsGo DEF Over, Takes, NoBot, Runs
    <3>3. /\ binding'[a].state = "sticky"
          /\ \A b \in Accounts : b # a => binding'[b] = binding[b]
      <4>1. binding'[a] = [binding[a] EXCEPT !.state = "sticky"]
        BY <1>1, <2>2
      <4> QED BY <1>1, <2>2, <4>1 DEF BindingState
    <3>4. \A s \in Slots : slot'[s].acct \in {slot[s].acct, None}
      BY <1>1, <2>2 DEF Free, SlotState
    <3>5. BindingsHold
      BY <3>2, <3>3 DEF BindingsHold
    <3>6. \A b \in Accounts : binding'[b].state = "active" => binding'[b] = binding[b]
      BY <3>3
    <3> QED BY <3>4, <3>5, <3>6, SlotsStay
  <2> QED BY <2>1, <2>2 DEF StartPrepare
<1>4. Steady
  BY <1>3 DEF Steady, StartPrepare
<1> QED BY <1>1, <1>2, <1>4, Goes
        DEF StartPrepare, Over, Closed, Botless, Takes, Unborn, Releases, Undone

LEMMA ReleaseGoes ==
    ASSUME AInv, IInv', NEW r \in Requests, StartRelease(r)
    PROVE  AInv' /\ StealStep
<1> DEFINE a == Owner[r]
           i == req[r].res
<1>1. /\ req[r].pc \in {"release", "cleanup"} /\ Position(r)
      /\ i \in Logins /\ Owner[i] = a
  BY DEF StartRelease, At, AInv, IInv, RequestsOK, RequestState, Position, Releases
<1>2. DepKept /\ CmdsKept /\ UNCHANGED <<dep, Untouched>>
  BY StillKept DEF StartRelease
<1>3. PICK pc \in {"done", "cancel"} : Goto(r, pc) /\ (req[r].pc = "cleanup" => pc = "cancel")
                                        /\ (req[r].pc = "release" => pc = "done")
  BY DEF StartRelease, At
<1>4. /\ req'[r].pc = pc
      /\ \A q \in Requests : q # r => req'[q] = req[q]
  BY <1>3, GotoEffect DEF AInv, IInv, RequestsOK
<1>5. ResKept /\ BindingsHold /\ SlotsBound' /\ StealStep
  <2>1. CASE UNCHANGED <<res, slot, binding>>
    BY <2>1, StillKept
  <2>2. CASE Close({i}, "released")
    <3>1. ResKept
      BY <1>1, <2>2, CloseOnly
    <3>2. NoneOpen(a)'
      BY <1>1, <3>1, Emptier DEF Position, Closed
    <3>3. ASSUME NEW q \in Starts, Owner[q] = a
          PROVE  ~Runs(q)'
      <4>1. CASE req[r].pc = "release"
        BY <1>1, <1>2, <3>3, <4>1 DEF Position, Botless, NoBot, Runs, DepKept
      <4>2. CASE req[r].pc = "cleanup"
        BY <1>1, <1>2, <1>3, <1>4, <3>3, <4>2 DEF Position, Runs, DepKept, Undone
      <4> QED BY <1>1, <4>1, <4>2
    <3>4. LetsGo(a)
      BY <1>1, <3>2, <3>3, UnusedLetsGo DEF Over, Takes
    <3> DEFINE P == {Pair(j) : j \in {i}}
    <3>5. ReleasePairs(P)
      BY <2>2 DEF Close
    <3>6. \A b \in Accounts : <<b, binding[b].slot>> \in P => b = a
      BY <1>1, <2>2 DEF Pair
    <3> HIDE DEF P
    <3>7. /\ SlotsBound' /\ StealStep
          /\ \A b \in Accounts : binding'[b] = binding[b] \/ <<b, binding[b].slot>> \in P
      BY <3>5, ReleaseOnly
    <3>8. BindingsHold
      BY <3>4, <3>6, <3>7 DEF BindingsHold
    <3> QED BY <3>1, <3>7, <3>8
  <2> QED BY <1>1, <2>1, <2>2 DEF StartRelease
<1>6. Steady
  BY <1>2, <1>5 DEF Steady
<1> QED BY <1>1, <1>2, <1>3, <1>5, <1>6, Goes
        DEF Over, Closed, Botless, Takes, Unborn, Releases, Undone
LEMMA CancelGoes ==
    ASSUME AInv, IInv', NEW r \in Requests, StartCancel(r)
    PROVE  AInv' /\ StealStep
<1> DEFINE a == Owner[r]
<1>1. /\ req[r].pc = "cancel" /\ Position(r) /\ dep \in [Starts -> Deployment]
      /\ Consistent(r, req[r], res)
      /\ \A q \in stopping : q \in Stoppable /\ dep[q].status = "stopped"
      /\ stopping \subseteq Starts
  BY DEF StartCancel, At, AInv, IInv, DeploymentsOK, RequestsOK, JobsAlone, JobsOK
<1>2. /\ ResKept /\ CmdsKept /\ BindingsHold /\ SlotsBound' /\ StealStep
  BY StillKept DEF StartCancel
<1>3. /\ req'[r].pc = "unbind" /\ req'[r].res = req[r].res
      /\ \A q \in Requests : q # r => req'[q] = req[q]
  BY GotoEffect DEF StartCancel, AInv, IInv, RequestsOK
<1>4. /\ \A q \in Starts : q # r => dep'[q] = dep[q]
      /\ r \in Starts => dep'[r].status = "stopped"
  <2>1. dep' = [dep EXCEPT ![r].status = "stopped"]
    BY DEF StartCancel
  <2> QED BY <1>1, <2>1 DEF Deployment
<1>5. DepKept
  BY <1>1, <1>4 DEF DepKept, Active, Unborn
<1>6. JobsAlone'
  BY <1>1, <1>4 DEF JobsAlone, AInv, StartCancel, Untouched
<1>7. NoBot(a)'
  BY <1>1, <1>4 DEF NoBot, Position, Active
<1>8. NoneOpen(a)'
  BY <1>1, <1>2, Emptier DEF Position, Closed
<1>9. Position(r)'
  BY <1>1, <1>3, <1>7, <1>8 DEF Position, Takes, Releases, Unborn
<1>10. r \in Starts => ~Active(r)'
  BY <1>4 DEF Active
<1> QED BY <1>1, <1>2, <1>3, <1>5, <1>6, <1>9, <1>10, OneMoves DEF Over

LEMMA UnbindGoes ==
    ASSUME AInv, IInv', NEW r \in Requests, StartUnbind(r) \/ DeleteUnbind(r)
    PROVE  AInv' /\ StealStep
<1> DEFINE a == Owner[r]
<1>1. req[r].pc \in {"unbind", "drop_binding"} /\ Position(r) /\ Goto(r, "done")
  BY DEF StartUnbind, DeleteUnbind, At, AInv
<1>2. ResKept /\ DepKept /\ CmdsKept /\ UNCHANGED <<dep, Untouched>>
  BY StillKept DEF StartUnbind, DeleteUnbind
<1>3. PICK s : ReleasePairs({<<a, s>>})
  BY DEF StartUnbind, DeleteUnbind
<1> DEFINE P == {<<a, s>>}
<1>4. LetsGo(a)
  <2>1. NoneOpen(a)' /\ NoBot(a)'
    BY <1>1, <1>2, Emptier DEF Position, Closed, Botless
  <2> QED BY <1>1, <2>1, UnusedLetsGo DEF Over, Takes, NoBot, Runs
<1>5. /\ SlotsBound' /\ StealStep
      /\ \A b \in Accounts : binding'[b] = binding[b] \/ b = a
  <2>1. ReleasePairs(P) /\ \A b, t : <<b, t>> \in P => b = a
    BY <1>3
  <2> HIDE DEF P
  <2> QED BY <2>1, ReleaseOnly
<1>6. BindingsHold
  BY <1>4, <1>5 DEF BindingsHold
<1>7. Steady
  BY <1>2, <1>5, <1>6 DEF Steady
<1> QED BY <1>1, <1>2, <1>7, Goes
        DEF Over, Closed, Botless, Takes, Unborn, Releases, Undone

LEMMA DropGoes ==
    ASSUME AInv, IInv', NEW r \in Requests, DeleteDrop(r)
    PROVE  AInv' /\ StealStep
<1> DEFINE a == Owner[r]
           I == {i \in Logins : Owner[i] = a /\ Open(i)}
<1>1. req[r].pc = "drop" /\ Goto(r, "read") /\ Close(I, "released")
  BY DEF DeleteDrop, At
<1>2. DepKept /\ CmdsKept /\ UNCHANGED <<dep, Untouched>>
  BY StillKept DEF DeleteDrop
<1>3. \A i \in I : i \in Logins /\ Open(i)
  OBVIOUS
<1>4. \A i \in Logins : Owner[i] = a /\ Open(i) => i \in I
  OBVIOUS
<1> HIDE DEF I
<1>5. /\ ResKept /\ BindingsHold /\ SlotsBound' /\ StealStep
      /\ \A i \in I : ~Open(i)'
  BY <1>1, <1>2, <1>3, CloseOpen
<1>6. NoneOpen(a)'
  BY <1>4, <1>5 DEF NoneOpen, ResKept
<1>7. Steady
  BY <1>2, <1>5 DEF Steady
<1> QED BY <1>1, <1>2, <1>5, <1>6, <1>7, Goes
        DEF Over, Closed, Botless, Takes, Unborn, Releases, Undone

----------------------------------------------------------------------------
(* What is new: an open login, a deployment.                               *)

\* The account's other requests are over, the new login is its only one and has the
\* slot just allocated.
LEMMA ReserveGoes ==
    ASSUME AInv, IInv', NEW r \in Requests, LoginReserve(r)
    PROVE  AInv' /\ StealStep
<1> DEFINE a == Owner[r]
           s == req[r].slot
<1>1. /\ req[r].pc = "reserve" /\ Position(r) /\ Consistent(r, req[r], res)
      /\ a \in Accounts /\ LoginsHeld /\ BotsHeld
      /\ req \in [Requests -> RequestState] /\ req[r] \in RequestState
      /\ res \in [Logins -> Reservation]
  BY Owners DEF LoginReserve, At, AInv, IInv, RequestsOK, ReservationsOK
<1>2. /\ r \in Logins /\ s \in Slots /\ NoneOpen(a) /\ NoBot(a) /\ Bound(a, s)
      /\ res[r].status = "absent"
  BY <1>1 DEF Consistent, Position, Closed, Botless, Logins, Unreserved
<1>3. LiveOf(a) = {}
  BY <1>2 DEF NoneOpen, LiveOf, Live
<1>4. /\ DepKept /\ CmdsKept /\ BindingsHold /\ SlotsBound' /\ StealStep /\ JobsAlone'
      /\ UNCHANGED <<slot, binding, dep, cmds, Untouched>>
  BY StillKept DEF LoginReserve
<1>5. CASE Goto(r, "done") /\ UNCHANGED res
  BY <1>1, <1>4, <1>5, StillKept, Goes
     DEF Steady, Over, Closed, Botless, Takes, Unborn, Releases, Undone
<1>6. CASE /\ res' = [res EXCEPT ![r] = [status |-> "pending", slot |-> s, due |-> FALSE]]
           /\ req' = [req EXCEPT ![r].pc = "dispatch", ![r].res = r]
  <2>1. /\ \A i \in Logins : i # r => res'[i] = res[i]
        /\ res'[r].status = "pending" /\ res'[r].slot = s
    BY <1>1, <1>2, <1>6
  <2>2. /\ req'[r].pc = "dispatch" /\ req'[r].res = r /\ req'[r].slot = s
        /\ \A q \in Requests : q # r => req'[q] = req[q]
    <3>1. req'[r] = [req[r] EXCEPT !.pc = "dispatch", !.res = r]
      BY <1>1, <1>6
    <3> QED BY <1>1, <1>6, <3>1 DEF RequestState
  <2>3. \A i \in Logins : Open(i)' => i = r \/ (i # r /\ Open(i) /\ res'[i] = res[i])
    BY <2>1 DEF Open
  <2>4. LoginsHeld'
    <3>1. ASSUME NEW i \in Logins, Open(i)'
          PROVE  Bound(Owner[i], res[i].slot)' /\ NoBot(Owner[i])'
      <4>1. Bound(Owner[i], res'[i].slot) /\ NoBot(Owner[i])
        BY <1>1, <1>2, <2>1, <2>3, <3>1 DEF LoginsHeld
      <4> QED BY <1>4, <4>1, Emptier DEF Bound
    <3>2. \A i, j \in Logins : Open(i)' /\ Open(j)' /\ Owner[i] = Owner[j] => i = j
      BY <1>1, <1>2, <2>3 DEF LoginsHeld, NoneOpen
    <3>3. ASSUME NEW c \in cmds'
          PROVE  res'[c.res].status # "absent" /\ (Open(c.res)' => c.slot = res'[c.res].slot)
      <4>1. c.res \in Logins /\ c.res # r
        BY <1>1, <1>2, <1>4 DEF IInv, CommandsOK, Command, LoginsHeld
      <4> QED BY <1>1, <1>4, <2>1, <4>1 DEF LoginsHeld, Open
    <3> QED BY <3>1, <3>2, <3>3 DEF LoginsHeld
  <2>5. BotsHeld'
    <3>1. \A q \in Starts : Active(q)' /\ req[q].pc \in Undone => req'[q].pc \in Undone
      BY <1>1, <2>2, KindsApart DEF Undone
    <3> QED BY <1>4, <3>1, BotsStay
  <2>6. OneAtATime'
    BY <1>1, <2>2, OneAtATimeStays DEF Over
  <2>7. ASSUME NEW q \in Requests, q # r
        PROVE  Position(q)'
    <3>1. CASE Owner[q] = a
      <4>1. req'[q].pc \in Over
        BY <1>1, <2>2, <2>7, <3>1, OnlyOne DEF Over
      <4>2. req'[q].res # None => Owner[req'[q].res] = Owner[q]
        BY <2>2, <2>7 DEF AInv, Position
      <4>3. dep'[q] = dep[q] /\ Position(q) /\ req'[q] = req[q]
        BY <1>4, <2>2, <2>7 DEF AInv
      <4> QED BY <4>1, <4>2, <4>3
              DEF Position, Over, Closed, Botless, Unborn, Releases
    <3>2. CASE Owner[q] # a
      <4>1. Position(q) /\ req'[q] = req[q] /\ Owner[q] \in Accounts
        BY <2>2, <2>7, Owners DEF AInv
      <4>2. NoneOpen(Owner[q]) => NoneOpen(Owner[q])'
        BY <2>3, <3>2 DEF NoneOpen
      <4>3. NoBot(Owner[q]) => NoBot(Owner[q])'
        BY <1>4, Emptier
      <4>4. ASSUME req[q].pc = "dispatch", Open(req[q].res)'
            PROVE  res'[req[q].res].slot = req[q].slot
        <5>1. req[q].res \in Logins /\ Owner[req[q].res] = Owner[q]
          BY <4>1, <4>4 DEF AInv, IInv, RequestsOK, RequestState, Consistent, Position
        <5> QED BY <2>3, <3>2, <4>1, <4>4, <5>1 DEF Position
      <4>5. req[q].pc = "claim" => \A i \in Logins : Owner[i] = Owner[q] /\ Open(i)' =>
                                      res'[i].status = "verified" /\ ~res'[i].due
        BY <2>3, <3>2, <4>1 DEF Position
      <4>6. req[q].pc \in {"reserve", "create"} =>
                binding'[Owner[q]] = [slot |-> req[q].slot, state |-> "active"]
        BY <1>4, <4>1 DEF Position, Bound
      <4>7. /\ req[q].pc \in {"start", "cleanup", "cancel"} =>
                  \A p \in Starts : Owner[p] = Owner[q] /\ Active(p)' => p = q
            /\ req[q].pc \in Unborn /\ q \in Starts => dep'[q].status = "absent"
        BY <1>4, <4>1 DEF Position, DepKept
      <4> QED BY <4>1, <4>2, <4>3, <4>4, <4>5, <4>6, <4>7 DEF Position, Bound
    <3> QED BY <3>1, <3>2
  <2>8. Position(r)'
    BY <2>1, <2>2 DEF Position, Closed, Botless, Unborn, Releases
  <2>9. \A q \in Requests : Position(q)'
    BY <2>7, <2>8
  <2> QED BY <1>4, <2>4, <2>5, <2>6, <2>9 DEF AInv
<1> QED BY <1>3, <1>5, <1>6 DEF LoginReserve
\* The new deployment is the account's only one, on the slot its binding is to.
LEMMA CreateGoes ==
    ASSUME AInv, IInv', NEW r \in Requests, StartCreate(r)
    PROVE  AInv' /\ StealStep
<1> DEFINE a == Owner[r]
           s == req[r].slot
<1>1. /\ req[r].pc = "create" /\ Position(r) /\ Consistent(r, req[r], res)
      /\ a \in Accounts /\ LoginsHeld /\ BotsHeld
      /\ req \in [Requests -> RequestState] /\ dep \in [Starts -> Deployment]
  BY Owners DEF StartCreate, At, AInv, IInv, RequestsOK, DeploymentsOK
<1>2. /\ NoneOpen(a) /\ NoBot(a) /\ Bound(a, s) /\ s \in Slots
      /\ r \in Starts => dep[r].status = "absent"
  BY <1>1 DEF Consistent, Position, Closed, Botless, Unborn
<1>3. /\ ResKept /\ CmdsKept /\ BindingsHold /\ SlotsBound' /\ StealStep
      /\ UNCHANGED <<slot, binding, res, cmds, Untouched>>
  BY StillKept DEF StartCreate
<1>4. ~ActiveOf(a)
  BY <1>2 DEF ActiveOf, NoBot
<1>5. /\ Goto(r, "start")
      /\ dep' = [dep EXCEPT ![r] = [status |-> "active", slot |-> s]]
  BY <1>4 DEF StartCreate
<1>6. /\ req'[r].pc = "start" /\ req'[r].res = req[r].res
      /\ \A q \in Requests : q # r => req'[q] = req[q]
  BY <1>1, <1>5, GotoEffect
<1>7. \A q \in Starts : /\ q # r => dep'[q] = dep[q]
                        /\ q = r => dep'[q].status = "active" /\ dep'[q].slot = s
  BY <1>1, <1>5
<1>8. \A q \in Starts : Active(q)' => q = r \/ (q # r /\ Active(q) /\ dep'[q] = dep[q])
  BY <1>7 DEF Active
<1>9. \A b : b # a /\ NoBot(b) => NoBot(b)'
  BY <1>8 DEF NoBot
<1>10. \A b : NoneOpen(b) => NoneOpen(b)'
  BY <1>3, Emptier
<1>11. LoginsHeld'
  <2>1. ASSUME NEW i \in Logins, Open(i)'
        PROVE  Bound(Owner[i], res[i].slot)' /\ NoBot(Owner[i])'
    <3>1. Open(i) /\ res'[i] = res[i]
      BY <1>3, <2>1 DEF Open
    <3>2. Owner[i] # a
      BY <1>2, <3>1 DEF NoneOpen
    <3> QED BY <1>1, <1>3, <1>9, <3>1, <3>2 DEF LoginsHeld, Bound
  <2> QED BY <1>1, <1>3, <2>1 DEF LoginsHeld, Open
<1>12. BotsHeld'
  <2>1. ASSUME NEW q \in Starts, Runs(q)'
        PROVE  Bound(Owner[q], dep[q].slot)'
    <3>1. CASE q = r
      BY <1>2, <1>3, <1>7, <3>1 DEF Bound
    <3>2. CASE q # r
      <4>1. Runs(q) /\ dep'[q] = dep[q]
        BY <1>6, <1>8, <2>1, <3>2, KindsApart DEF Runs
      <4> QED BY <1>1, <1>3, <4>1 DEF BotsHeld, Bound
    <3> QED BY <3>1, <3>2
  <2>2. \A p, q \in Starts : Active(p)' /\ Active(q)' /\ Owner[p] = Owner[q] => p = q
    BY <1>1, <1>2, <1>8 DEF BotsHeld, NoBot
  <2> QED BY <2>1, <2>2 DEF BotsHeld
<1>13. OneAtATime'
  BY <1>1, <1>6, OneAtATimeStays DEF Over
<1>14. JobsAlone'
  <2>1. \A q \in stopping : q \in Starts /\ dep[q].status = "stopped" /\ q \in Stoppable
    BY DEF AInv, JobsAlone, IInv, JobsOK
  <2> QED BY <1>2, <1>3, <1>7, <2>1 DEF JobsAlone, Untouched, AInv
<1>15. ASSUME NEW q \in Requests, q # r
       PROVE  Position(q)'
  <2>1. Position(q) /\ req'[q] = req[q]
    BY <1>6, <1>15 DEF AInv
  <2>2. CASE Owner[q] = a
    <3>1. req[q].pc \in Over
      BY <1>1, <1>15, <2>2, OnlyOne DEF Over
    <3>2. q \in Starts => dep'[q] = dep[q]
      BY <1>7, <1>15
    <3> QED BY <2>1, <3>1, <3>2
            DEF Position, Over, Closed, Botless, Unborn, Releases
  <2>3. CASE Owner[q] # a
    <3>1. /\ req[q].pc \in {"start", "cleanup", "cancel"} =>
                \A p \in Starts : Owner[p] = Owner[q] /\ Active(p)' => p = q
          /\ req[q].pc \in Unborn /\ q \in Starts => dep'[q].status = "absent"
      BY <1>7, <1>8, <1>15, <2>1, <2>3 DEF Position
    <3>2. req[q].pc = "dispatch" => (Open(req[q].res)' => res'[req[q].res].slot = req[q].slot)
      BY <1>3, <2>1 DEF Position, Open
    <3>3. req[q].pc = "claim" => \A i \in Logins : Owner[i] = Owner[q] /\ Open(i)' =>
                                    res'[i].status = "verified" /\ ~res'[i].due
      BY <1>3, <2>1 DEF Position, Open
    <3>4. req[q].pc \in {"reserve", "create"} => Bound(Owner[q], req[q].slot)
      BY <2>1 DEF Position
    <3>5. /\ req[q].pc \in Closed => NoneOpen(Owner[q])'
          /\ req[q].pc \in Botless => NoBot(Owner[q])'
      BY <1>9, <1>10, <2>1, <2>3 DEF Position
    <3> QED BY <1>3, <2>1, <3>1, <3>2, <3>3, <3>4, <3>5 DEF Position, Bound
  <2> QED BY <2>2, <2>3
<1>16. Position(r)'
  <2>1. \A p \in Starts : Owner[p] = a /\ Active(p)' => p = r
    BY <1>2, <1>8 DEF NoBot
  <2>2. NoneOpen(a)'
    BY <1>2, <1>10
  <2> QED BY <1>1, <1>6, <2>1, <2>2 DEF Position, Botless, Unborn, Releases
<1>17. \A q \in Requests : Position(q)'
  BY <1>15, <1>16
<1> QED BY <1>3, <1>11, <1>12, <1>13, <1>14, <1>17 DEF AInv

----------------------------------------------------------------------------
(* The runner, the jobs and the heartbeat.                                 *)

\* An answer names the slot the reservation has, and so the one its account is bound to.
LEMMA AnswerStays ==
    ASSUME AInv, IInv', NEW c \in cmds,
           LoginVerified(c) \/ LoginFailed(c) \/ LoginReleased(c)
    PROVE  AInv' /\ StealStep
<1> DEFINE i == c.res
           s == c.slot
<1>1. /\ i \in Logins /\ s \in Slots /\ c \in Command
      /\ Open(i) => s = res[i].slot /\ Bound(Owner[i], s)
      /\ Owner[i] \in Accounts /\ res \in [Logins -> Reservation]
      /\ slot \in [Slots -> SlotState]
  BY Owners, KindsApart DEF AInv, IInv, CommandsOK, Command, LoginsHeld, ReservationsOK, SlotsOK
<1>2. DepKept /\ JobsAlone' /\ UNCHANGED req
  BY StillKept DEF LoginVerified, LoginFailed, LoginReleased
<1>3. CASE LoginVerified(c)
  <2>1. CmdsKept
    BY <1>1, <1>3 DEF LoginVerified, Answer, CmdsKept, Command
  <2>2. CASE Open(i)
    <3>1. /\ res' = [res EXCEPT ![i] = [status |-> "verified", slot |-> s, due |-> FALSE]]
          /\ slot' = [slot EXCEPT ![s] = [acct |-> Owner[i], allocated |-> TRUE]]
          /\ UNCHANGED binding
      BY <1>3, <2>2 DEF LoginVerified, Verify
    <3>2. /\ \A j \in Logins : j # i => res'[j] = res[j]
          /\ res'[i] = [status |-> "verified", slot |-> s, due |-> FALSE]
      BY <1>1, <3>1
    <3>3. ResKept
      BY <1>1, <2>2, <3>2 DEF ResKept, Open
    <3>4. BindingsHold
      BY <3>1, StillKept
    <3>5. slot'[s].acct = Owner[i] /\ \A t \in Slots : t # s => slot'[t] = slot[t]
      BY <1>1, <3>1
    <3>6. /\ slot[s].acct \in {None, Owner[i]}
          /\ \A a \in Accounts : Bound(a, s) => a = Owner[i]
      BY <1>1, <2>2, Fresh
         DEF AInv, SlotsBound, IInv, BindingsOK, OneCurrentPerSlot, Current, Bound
    <3>7. SlotsBound' /\ StealStep
      BY <3>1, <3>5, <3>6 DEF AInv, SlotsBound, Bound, StealStep
    <3> QED BY <1>2, <2>1, <3>3, <3>4, <3>7, NoneMoves
  <2>3. CASE ~Open(i)
    <3>1. UNCHANGED <<res, slot, binding>>
      BY <1>3, <2>3 DEF LoginVerified, Verify
    <3> QED BY <1>2, <2>1, <3>1, StillKept, NoneMoves
  <2> QED BY <2>2, <2>3
<1>4. CASE LoginFailed(c)
  <2>1. CmdsKept
    BY <1>1, <1>4 DEF LoginFailed, Answer, CmdsKept, Command
  <2>2. CASE Open(i)
    <3>1. /\ res' = [res EXCEPT ![i] = [@ EXCEPT !.status = "failed", !.slot = s]]
          /\ ReleasePairs({<<Owner[i], s>>})
      BY <1>4, <2>2 DEF LoginFailed, Fail
    <3>2. /\ \A j \in Logins : j # i => res'[j] = res[j]
          /\ res'[i].status = "failed"
      BY <1>1, <3>1 DEF Reservation
    <3>3. ResKept /\ ~Open(i)'
      BY <3>2 DEF ResKept, Open, OpenReservation
    <3>4. LetsGo(Owner[i])
      BY <1>1, <1>2, <2>2, <3>3, ClosedLetsGo
    <3> DEFINE P == {<<Owner[i], s>>}
    <3>5. ReleasePairs(P) /\ \A b, t : <<b, t>> \in P => b = Owner[i]
      BY <3>1
    <3> HIDE DEF P
    <3>6. /\ SlotsBound' /\ StealStep
          /\ \A b \in Accounts : binding'[b] = binding[b] \/ b = Owner[i]
      BY <3>5, ReleaseOnly
    <3>7. BindingsHold
      BY <3>4, <3>6 DEF BindingsHold
    <3> QED BY <1>2, <2>1, <3>3, <3>6, <3>7, NoneMoves
  <2>3. CASE ~Open(i)
    <3>1. UNCHANGED <<res, slot, binding>>
      BY <1>4, <2>3 DEF LoginFailed, Fail
    <3> QED BY <1>2, <2>1, <3>1, StillKept, NoneMoves
  <2> QED BY <2>2, <2>3
<1>5. CASE LoginReleased(c)
  <2>1. CmdsKept /\ Close({i}, "released") /\ Open(i)
    BY <1>5, StillKept DEF LoginReleased
  <2>2. ResKept /\ BindingsHold /\ SlotsBound' /\ StealStep
    BY <1>1, <1>2, <2>1, CloseOpen
  <2> QED BY <1>2, <2>1, <2>2, NoneMoves
<1> QED BY <1>3, <1>4, <1>5

\* A deployment that stops on its own is that of an account with no other request, which
\* is done.
LEMMA StopStays ==
    ASSUME Alone, AInv, IInv', NEW q \in Starts, Stopped(q) \/ StoppedRelease(q)
    PROVE  AInv' /\ StealStep
<1> DEFINE a == Owner[q]
<1>1. /\ dep \in [Starts -> Deployment] /\ Position(q) /\ q \in Requests
      /\ Consistent(q, req[q], res)
      /\ \A p \in stopping : p \in Stoppable /\ dep[p].status = "stopped"
      /\ stale = {} /\ a \in Accounts /\ slot \in [Slots -> SlotState]
      /\ stopping \subseteq Starts /\ binding \in [Accounts -> BindingState]
  BY Owners, KindsApart
  DEF AInv, IInv, DeploymentsOK, RequestsOK, JobsAlone, SlotsOK, JobsOK, BindingsOK
<1>2. ResKept /\ CmdsKept /\ UNCHANGED req
  BY StillKept DEF Stopped, StoppedRelease
<1>3. CASE Stopped(q)
  <2>1. dep' = [dep EXCEPT ![q].status = "stopped"] /\ q \in Stoppable /\ Active(q)
    BY <1>3 DEF Stopped
  <2>2. /\ \A p \in Starts : p # q => dep'[p] = dep[p]
        /\ dep'[q].status = "stopped"
    BY <1>1, <2>1 DEF Deployment
  <2>3. DepKept
    BY <2>1, <2>2 DEF DepKept, Active
  <2>4. BindingsHold /\ SlotsBound' /\ StealStep
    BY <1>3, StillKept DEF Stopped
  <2>5. JobsAlone'
    BY <1>1, <1>3, <2>1, <2>2 DEF JobsAlone, Stopped
  <2> QED BY <1>2, <2>3, <2>4, <2>5, NoneMoves
<1>4. CASE StoppedRelease(q)
  <2>1. /\ q \in Stoppable /\ dep[q].status = "stopped"
        /\ \A r \in Requests : Owner[r] = a => r = q
    BY <1>1, <1>4 DEF StoppedRelease, Alone
  <2>2. DepKept /\ UNCHANGED dep
    BY <1>4, StillKept DEF StoppedRelease
  <2>3. NoneOpen(a)'
    BY <2>1, KindsApart DEF NoneOpen
  <2>4. \A p \in Starts : Owner[p] = a => ~Runs(p)'
    BY <2>1, <2>2, KindsApart DEF Runs, Active
  <2>5. req[q].pc \notin Takes
    BY <1>1, <2>1 DEF Takes, Position, Unborn, Consistent, Starts
  <2>6. LetsGo(a)
    BY <2>1, <2>3, <2>4, <2>5 DEF LetsGo
  <2>7. \A b \in Accounts : /\ b # a => binding'[b] = binding[b]
                            /\ binding'[b] = binding[b] \/ binding'[b] = NoBinding
    BY <1>1, <1>4 DEF StoppedRelease
  <2>8. \A s \in Slots : slot'[s].acct \in {slot[s].acct, None}
    BY <1>1, <1>4 DEF StoppedRelease, Free
  <2>9. BindingsHold
    BY <2>6, <2>7 DEF BindingsHold
  <2>10. \A b \in Accounts : binding'[b].state = "active" => binding'[b] = binding[b]
    BY <2>7 DEF NoBinding
  <2>11. SlotsBound' /\ StealStep
    BY <2>8, <2>10, SlotsStay
  <2>12. JobsAlone'
    BY <1>1, <1>4 DEF JobsAlone, StoppedRelease
  <2> QED BY <1>2, <2>2, <2>9, <2>11, <2>12, NoneMoves
<1> QED BY <1>3, <1>4

LEMMA JobStays ==
    ASSUME Alone, AInv, IInv',
           \/ Sweep \/ ReadyRead
           \/ \E s \in Slots : Heartbeat(s) \/ ReadyRelease(s)
           \/ \E a \in Accounts : ExpireSticky(a)
           \/ \E q \in Starts : ZeroRuntime(q)
           \/ \E i \in Logins : Lapse(i)
    PROVE  AInv' /\ StealStep
<1>1. CASE Sweep
  <2>1. DepKept /\ CmdsKept /\ JobsAlone' /\ UNCHANGED req
    BY <1>1, StillKept DEF Sweep
  <2>2. ResKept /\ BindingsHold /\ SlotsBound' /\ StealStep
    BY <1>1, <2>1, ExpireOnly DEF Sweep
  <2> QED BY <2>1, <2>2, NoneMoves
<1>2. CASE ReadyRead
  <2>1. bound["reads"] < 0 /\ bound["reads"] \in Nat
    BY <1>2 DEF ReadyRead, Spend, Alone, AInv, IInv, BoundOK
  <2> QED BY <2>1
<1>3. ASSUME NEW s \in Slots, Heartbeat(s)
      PROVE  AInv' /\ StealStep
  <2>1. ResKept /\ DepKept /\ CmdsKept /\ BindingsHold /\ JobsAlone' /\ UNCHANGED <<req, binding>>
    BY <1>3, StillKept DEF Heartbeat
  <2>2. \A t \in Slots : slot'[t].acct \in {slot[t].acct, None}
    BY <1>3 DEF Heartbeat, Free, AInv, IInv, SlotsOK
  <2>3. SlotsBound' /\ StealStep
    BY <2>1, <2>2, SlotsStay
  <2> QED BY <2>1, <2>3, NoneMoves
<1>4. ASSUME NEW s \in Slots, ReadyRelease(s)
      PROVE  AInv' /\ StealStep
  BY <1>4 DEF ReadyRelease, AInv, JobsAlone
<1>5. ASSUME NEW a \in Accounts, ExpireSticky(a)
      PROVE  AInv' /\ StealStep
  <2>1. ResKept /\ DepKept /\ CmdsKept /\ JobsAlone' /\ StealStep /\ UNCHANGED <<req, slot>>
    BY <1>5, StillKept DEF ExpireSticky
  <2>2. /\ binding[a].state = "sticky" /\ binding' = [binding EXCEPT ![a] = NoBinding]
        /\ binding \in [Accounts -> BindingState]
    BY <1>5 DEF ExpireSticky, AInv, IInv, BindingsOK
  <2>3. BindingsHold
    BY <2>2 DEF BindingsHold
  <2>4. \A b \in Accounts : binding'[b].state = "active" => binding'[b] = binding[b]
    BY <2>2 DEF NoBinding
  <2>5. SlotsBound'
    BY <2>1, <2>4, SlotsStay
  <2> QED BY <2>1, <2>3, <2>5, NoneMoves
<1>6. ASSUME NEW q \in Starts, ZeroRuntime(q)
      PROVE  AInv' /\ StealStep
  <2> DEFINE a == Owner[q]
             s == dep[q].slot
  <2>1. /\ dep \in [Starts -> Deployment] /\ slot \in [Slots -> SlotState]
        /\ binding \in [Accounts -> BindingState] /\ a \in Accounts /\ BotsHeld /\ LoginsHeld
        /\ \A p \in stopping : p \in Starts /\ p \in Stoppable /\ dep[p].status = "stopped"
        /\ stale = {}
    BY Owners, KindsApart
       DEF AInv, IInv, DeploymentsOK, SlotsOK, BindingsOK, JobsAlone, JobsOK
  <2>2. /\ Active(q) /\ dep' = [dep EXCEPT ![q].status = "stopped"]
        /\ slot' = [slot EXCEPT ![s] = Free]
        /\ binding' = [binding EXCEPT ![a] = [slot |-> s, state |-> "sticky"]]
    BY <1>6 DEF ZeroRuntime
  <2>3. ResKept /\ CmdsKept /\ UNCHANGED req
    BY <1>6, StillKept DEF ZeroRuntime
  <2>4. /\ \A p \in Starts : p # q => dep'[p] = dep[p]
        /\ dep'[q].status = "stopped"
    BY <2>1, <2>2 DEF Deployment
  <2>5. DepKept
    BY <2>2, <2>4 DEF DepKept, Active
  <2>6. NoneOpen(a)
    BY <2>1, <2>2 DEF LoginsHeld, NoneOpen, NoBot
  <2>7. LetsGo(a)
    <3>1. NoneOpen(a)'
      BY <2>3, <2>6, Emptier
    <3>2. \A p \in Starts : Owner[p] = a => ~Runs(p)'
      BY <2>1, <2>2, <2>4 DEF BotsHeld, Runs, Active
    <3>3. \A r \in Requests : Owner[r] = a => req[r].pc \notin Takes
      BY <2>2 DEF AInv, Position, Botless, NoBot, Takes
    <3> QED BY <3>1, <3>2, <3>3 DEF LetsGo
  <2>8. /\ \A b \in Accounts : b # a => binding'[b] = binding[b]
        /\ binding'[a].state = "sticky"
    BY <2>1, <2>2
  <2>9. BindingsHold
    BY <2>7, <2>8 DEF BindingsHold
  <2>10. \A b \in Accounts : binding'[b].state = "active" => binding'[b] = binding[b]
    BY <2>8
  <2>11. \A t \in Slots : slot'[t].acct \in {slot[t].acct, None}
    BY <2>1, <2>2 DEF Free
  <2>12. SlotsBound' /\ StealStep
    BY <2>10, <2>11, SlotsStay
  <2>13. JobsAlone'
    BY <1>6, <2>1, <2>4 DEF JobsAlone, ZeroRuntime, Untouched
  <2> QED BY <2>3, <2>5, <2>9, <2>12, <2>13, NoneMoves
<1>7. ASSUME NEW i \in Logins, Lapse(i)
      PROVE  AInv' /\ StealStep
  <2>1. /\ DepKept /\ CmdsKept /\ BindingsHold /\ SlotsBound' /\ StealStep /\ JobsAlone'
        /\ UNCHANGED req
    BY <1>7, StillKept DEF Lapse
  <2>2. ResKept
    <3>1. res \in [Logins -> Reservation] /\ ~InFlight(Owner[i])
      BY <1>7 DEF AInv, IInv, ReservationsOK, Lapse, Alone
    <3>2. /\ res'[i] = [res[i] EXCEPT !.due = TRUE]
          /\ \A j \in Logins : j # i => res'[j] = res[j]
      BY <1>7, <3>1 DEF Lapse
    <3>3. res'[i].status = res[i].status /\ res'[i].slot = res[i].slot
      BY <3>1, <3>2 DEF Reservation
    <3> QED BY <3>1, <3>2, <3>3 DEF ResKept, Open
  <2> QED BY <2>1, <2>2, NoneMoves
<1> QED BY <1>1, <1>2, <1>3, <1>4, <1>5, <1>6, <1>7
----------------------------------------------------------------------------
(* The invariant.                                                          *)

LEMMA AloneInit == Init => AInv
<1> SUFFICES ASSUME Init PROVE AInv
  OBVIOUS
<1>1. IInv
  BY InvInit
<1>2. SlotsBound
  BY DEF Init, SlotsBound, Bound
<1>3. LoginsHeld
  BY DEF Init, LoginsHeld, Open, OpenReservation
<1>4. BotsHeld
  BY DEF Init, BotsHeld, Runs, Active
<1>5. OneAtATime
  BY DEF Init, OneAtATime, Over
<1>6. \A r \in Requests : Position(r)
  BY DEF Init, Position, Closed, Botless, Releases
<1>7. JobsAlone
  BY DEF Init, JobsAlone
<1> QED BY <1>1, <1>2, <1>3, <1>4, <1>5, <1>6, <1>7 DEF AInv

LEMMA AloneNext == ASSUME Alone PROVE AInv /\ Next => AInv' /\ StealStep
<1> SUFFICES ASSUME AInv, Next PROVE AInv' /\ StealStep
  OBVIOUS
<1>1. IInv'
  BY InvNext DEF AInv
<1>2. ASSUME NEW r \in Requests, RequestStep(r) \/ Crash(r)
      PROVE  AInv' /\ StealStep
  BY <1>1, <1>2, AdmitGoes, ReserveGoes, LoginGoes, PickGoes, AllocateGoes, ClaimGoes,
     StartGoes, PrepareGoes, CreateGoes, ReleaseGoes, CancelGoes, UnbindGoes, DropGoes,
     DeleteGoes
     DEF RequestStep
<1>3. CASE RunnerStep
  BY <1>1, <1>3, AnswerStays, StopStays DEF RunnerStep
<1>4. CASE JobStep \/ ReadyRead \/ \E i \in Logins : Lapse(i)
  BY <1>1, <1>4, JobStays DEF JobStep
<1> QED BY <1>2, <1>3, <1>4 DEF Next

LEMMA AloneStutter == AInv /\ UNCHANGED vars => AInv' /\ StealStep
<1> SUFFICES ASSUME AInv, UNCHANGED vars PROVE AInv' /\ StealStep
  OBVIOUS
<1>1. IInv' /\ UNCHANGED req
  BY InvStutter DEF AInv, vars
<1>2. /\ ResKept /\ DepKept /\ CmdsKept /\ BindingsHold /\ SlotsBound' /\ StealStep
      /\ JobsAlone'
  BY StillKept DEF vars, Untouched
<1> QED BY <1>1, <1>2, NoneMoves

\* When an account's requests come one at a time, its binding is where its bot and its
\* open login are, whatever process dies between two statements of a request.
THEOREM AloneInvariance == ASSUME Alone PROVE Spec => []AInv
<1>1. AInv /\ [Next]_vars => AInv'
  BY AloneNext, AloneStutter
<1> QED BY AloneInit, <1>1, PTL DEF Spec

\* A slot kept for a login is not given to another account by allocate_slot_binding, nor
\* taken by a late answer to one.
THEOREM KeptForItsLogin == ASSUME Alone PROVE Spec => []KeptForLogin
<1>1. AInv => KeptForLogin
  <2> SUFFICES ASSUME AInv, NEW i \in Logins, Live(i)
               PROVE  slot[res[i].slot].acct \in {None, Owner[i]}
    BY DEF KeptForLogin
  <2>1. Bound(Owner[i], res[i].slot) /\ Owner[i] \in Accounts
    BY Owners, KindsApart DEF AInv, LoginsHeld, Live
  <2>2. res[i].slot \in Slots
    BY DEF AInv, IInv, ReservationsOK, Live, Open, OpenReservation
  <2> QED BY <2>1, <2>2 DEF AInv, SlotsBound
<1> QED BY <1>1, AloneInvariance, PTL

LEMMA AtMostOneCounts ==
    ASSUME NEW S, \A x, y \in S : x = y
    PROVE  Cardinality(S) <= 1
<1>1. CASE S = {}
  BY <1>1, FS_EmptySet
<1>2. ASSUME NEW x \in S
      PROVE  Cardinality(S) <= 1
  <2>1. S = {x}
    OBVIOUS
  <2> QED BY <2>1, FS_Singleton
<1> QED BY <1>1, <1>2

\* No two bots run on a slot, however many processes die: what create_started_deployment
\* does not look at, the bindings see to.
THEOREM OneBot == ASSUME Alone PROVE Spec => []OneBotPerSlot
<1>1. AInv => OneBotPerSlot
  <2> SUFFICES ASSUME AInv, NEW s \in Slots
               PROVE  Cardinality({q \in ActiveOn(s) : req[q].pc \notin Undone}) <= 1
    BY DEF OneBotPerSlot, Undone
  <2> DEFINE S == {q \in ActiveOn(s) : req[q].pc \notin Undone}
  <2>1. ASSUME NEW p \in S, NEW q \in S
        PROVE  p = q
    <3>1. /\ p \in Starts /\ q \in Starts /\ Active(p) /\ Active(q)
          /\ Bound(Owner[p], s) /\ Bound(Owner[q], s)
      BY DEF ActiveOn, AInv, BotsHeld, Runs
    <3>2. Owner[p] = Owner[q]
      <4>1. Owner[p] \in Accounts /\ Owner[q] \in Accounts /\ s # None
        BY <3>1, Owners, KindsApart, Fresh
      <4> QED BY <3>1, <4>1 DEF AInv, IInv, BindingsOK, OneCurrentPerSlot, Current, Bound
    <3> QED BY <3>1, <3>2 DEF AInv, BotsHeld
  <2> HIDE DEF S
  <2>2. Cardinality(S) <= 1
    BY <2>1, AtMostOneCounts
  <2> QED BY <2>2 DEF S
<1> QED BY <1>1, AloneInvariance, PTL

\* A slot does not pass from one account to another without being freed in between:
\* complete_login_reservation writes its account over whoever is there, and there is
\* nobody else.
THEOREM NothingStolen == ASSUME Alone PROVE Spec => NoSteal
<1>1. AInv /\ [Next]_vars => StealStep
  BY AloneNext, AloneStutter
<1> QED BY <1>1, AloneInvariance, PTL DEF Spec, NoSteal, StealStep
=============================================================================
