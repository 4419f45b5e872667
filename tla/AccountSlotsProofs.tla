------------------------- MODULE AccountSlotsProofs -------------------------
(***************************************************************************)
(* What holds of AccountSlots for any accounts, slots and requests,        *)
(* whether an account's requests overlap or not, proved.                   *)
(***************************************************************************)
EXTENDS AccountSlots, TLAPS

(***************************************************************************)
(* The inductive invariant, by variable.                                   *)
(***************************************************************************)
SlotsOK == slot \in [Slots -> SlotState]

\* A binding with a slot is active or sticky, and is the slot's only one.
BindingsOK ==
    /\ binding \in [Accounts -> BindingState]
    /\ \A a \in Accounts : binding[a].slot # None => binding[a].state # "none"
    /\ OneCurrentPerSlot

\* A reservation that was inserted names a slot.
ReservationsOK ==
    /\ res \in [Logins -> Reservation]
    /\ \A i \in Logins : res[i].status # "absent" => res[i].slot \in Slots

DeploymentsOK ==
    /\ dep \in [Starts -> Deployment]
    /\ \A q \in Starts : dep[q].status = "active" => dep[q].slot \in Slots

LoginSteps == {"idle", "pick", "allocate", "reserve", "dispatch", "mark", "done"}
Unreserved == {"idle", "pick", "allocate", "reserve"}

\* What a request at x has when the reservations are R: a slot once one was picked, a
\* reservation that exists; a login inserts its own but once.
Consistent(r, x, R) ==
    /\ x.pc \in {"allocate", "reserve", "dispatch", "create"} => x.slot \in Slots
    /\ x.pc \in {"dispatch", "mark"} => x.res # None
    /\ x.res # None => R[x.res].status # "absent"
    /\ x.pc = "reserve" => Kind[r] = "login"
    /\ Kind[r] = "login" => x.pc \in LoginSteps
    /\ Kind[r] = "login" /\ x.pc \in Unreserved =>
          x.res = None /\ R[r].status = "absent"

RequestsOK ==
    /\ req \in [Requests -> RequestState]
    /\ \A r \in Requests : Consistent(r, req[r], res)

AccountsOK == account \in [Accounts -> {"pending_login", "connected", "login_failed",
                                        "disconnected"}]
CommandsOK == cmds \subseteq Command
JobsOK == stopping \subseteq Starts /\ stale \subseteq Slots
BoundOK == bound \in [faults : Nat, refused : Nat, reads : Nat]

IInv ==
    /\ SlotsOK /\ BindingsOK /\ ReservationsOK /\ DeploymentsOK
    /\ RequestsOK /\ AccountsOK /\ CommandsOK /\ JobsOK /\ BoundOK

\* What a step leaves of a reservation: EndedStaysEnded, and once inserted it stays.
Ended == {"failed", "expired", "released"}
Kept(i) ==
    /\ res[i].status = "absent" => res'[i].status = "absent"
    /\ res[i].status # "absent" => res'[i].status # "absent"
    /\ res[i].status \in Ended => res'[i].status = res[i].status
    /\ res[i].status = "claimed" => res'[i].status \in {"claimed", "released"}
Quiet == ReservationsOK' /\ \A i \in Logins : Kept(i)

EndStep ==
    \A i \in Logins :
        /\ res[i].status \in {"failed", "expired", "released"} =>
              res'[i].status = res[i].status
        /\ res[i].status = "claimed" => res'[i].status \in {"claimed", "released"}

LEMMA Fresh == None \notin Logins /\ None \notin Slots
  BY RequestsAssumption DEF Logins

LEMMA QuietEnds == ASSUME Quiet PROVE EndStep
  BY DEF Quiet, Kept, EndStep, Ended

----------------------------------------------------------------------------
(* Requests.                                                               *)

LEMMA GotoEffect ==
    ASSUME req \in [Requests -> RequestState], NEW r \in Requests, NEW pc, Goto(r, pc)
    PROVE  /\ req'[r] = [req[r] EXCEPT !.pc = pc]
           /\ req'[r].pc = pc
           /\ req'[r].slot = req[r].slot
           /\ req'[r].res = req[r].res
           /\ \A q \in Requests : q # r => req'[q] = req[q]
<1>1. req'[r] = [req[r] EXCEPT !.pc = pc]
  BY DEF Goto
<1>2. req[r] \in RequestState
  OBVIOUS
<1> QED BY <1>1, <1>2 DEF Goto, RequestState

Pcs == {"idle", "pick", "allocate", "reserve", "dispatch", "mark", "claim", "guard",
        "manage", "prepare", "create", "start", "release", "cleanup", "cancel",
        "unbind", "drop", "read", "delete", "drop_binding", "done", "lost"}

LEMMA GotoType ==
    ASSUME req \in [Requests -> RequestState], NEW r \in Requests, NEW pc \in Pcs,
           Goto(r, pc)
    PROVE  req' \in [Requests -> RequestState]
<1>1. [req[r] EXCEPT !.pc = pc] \in RequestState
  <2>1. req[r] \in RequestState
    OBVIOUS
  <2> QED BY <2>1 DEF RequestState, Pcs
<1> QED BY <1>1 DEF Goto

\* A request's step leaves the others consistent.
LEMMA OthersConsistent ==
    ASSUME RequestsOK, NEW r \in Requests,
           req' \in [Requests -> RequestState],
           \A q \in Requests : q # r => req'[q] = req[q],
           Consistent(r, req'[r], res'),
           \A i \in Logins : res[i].status # "absent" => res'[i].status # "absent",
           \A i \in Logins : i # r /\ res[i].status = "absent" => res'[i].status = "absent"
    PROVE  RequestsOK'
<1>1. ASSUME NEW q \in Requests, q # r
      PROVE  Consistent(q, req'[q], res')
  <2>1. Consistent(q, req[q], res) /\ req'[q] = req[q]
    BY <1>1 DEF RequestsOK
  <2>2. req[q].res \in Logins \cup {None}
    BY DEF RequestsOK, RequestState
  <2>3. Kind[q] = "login" => q \in Logins
    BY DEF Logins
  <2> QED BY <1>1, <2>1, <2>2, <2>3 DEF Consistent
<1> QED BY <1>1 DEF RequestsOK

LEMMA QuietStep ==
    ASSUME RequestsOK, Quiet, NEW r \in Requests,
           req' \in [Requests -> RequestState],
           \A q \in Requests : q # r => req'[q] = req[q],
           Consistent(r, req'[r], res')
    PROVE  RequestsOK'
  BY OthersConsistent DEF Quiet, Kept

LEMMA QuietRequests ==
    ASSUME RequestsOK, Quiet, UNCHANGED req
    PROVE  RequestsOK'
<1>1. ASSUME NEW q \in Requests
      PROVE  Consistent(q, req[q], res')
  <2>1. Consistent(q, req[q], res)
    BY DEF RequestsOK
  <2>2. req[q].res \in Logins \cup {None}
    BY DEF RequestsOK, RequestState
  <2>3. Kind[q] = "login" => q \in Logins
    BY DEF Logins
  <2> QED BY <2>1, <2>2, <2>3 DEF Consistent, Quiet, Kept
<1> QED BY <1>1 DEF RequestsOK

\* Goto to a step that asks nothing of the request.
LEMMA Advance ==
    ASSUME RequestsOK, Quiet, NEW r \in Requests, NEW pc \in Pcs, Goto(r, pc),
           pc \notin {"allocate", "reserve", "dispatch", "create", "mark"},
           Kind[r] = "login" => pc = "done"
    PROVE  RequestsOK'
<1>1. req \in [Requests -> RequestState] /\ Consistent(r, req[r], res)
  BY DEF RequestsOK
<1>2. /\ req'[r].pc = pc
      /\ req'[r].res = req[r].res
      /\ \A q \in Requests : q # r => req'[q] = req[q]
  BY <1>1, GotoEffect
<1>3. req' \in [Requests -> RequestState]
  BY <1>1, GotoType
<1>4. req[r].res \in Logins \cup {None}
  BY <1>1 DEF RequestState
<1>5. Consistent(r, req'[r], res')
  <2>1. req'[r].res # None => res'[req'[r].res].status # "absent"
    BY <1>1, <1>2, <1>4 DEF Consistent, Quiet, Kept
  <2> QED BY <1>2, <2>1 DEF Consistent, LoginSteps, Unreserved
<1> QED BY <1>2, <1>3, <1>5, QuietStep

LEMMA QuietUnchanged ==
    ASSUME ReservationsOK, UNCHANGED res
    PROVE  Quiet
  BY DEF ReservationsOK, Quiet, Kept, Ended

----------------------------------------------------------------------------
(* Bindings and reservations that are released.                            *)

LEMMA BindingsCleared ==
    ASSUME BindingsOK,
           binding' \in [Accounts -> BindingState],
           \A a \in Accounts : binding'[a] = binding[a] \/ binding'[a] = NoBinding
    PROVE  BindingsOK'
<1>1. ASSUME NEW a \in Accounts, binding'[a].slot # None
      PROVE  binding'[a] = binding[a]
  BY <1>1 DEF NoBinding
<1>2. ASSUME NEW a \in Accounts, NEW b \in Accounts, a # b, binding'[a].slot # None
      PROVE  binding'[b].slot # binding'[a].slot
  <2>1. binding'[a] = binding[a]
    BY <1>1, <1>2
  <2>2. CASE binding'[b].slot = None
    BY <1>2, <2>2
  <2>3. CASE binding'[b].slot # None
    <3>1. binding'[b] = binding[b]
      BY <1>1, <2>3
    <3> QED BY <1>2, <2>1, <3>1 DEF BindingsOK, OneCurrentPerSlot, Current
  <2> QED BY <2>2, <2>3
<1> QED BY <1>1, <1>2 DEF BindingsOK, OneCurrentPerSlot, Current

LEMMA ReleaseEffect ==
    ASSUME SlotsOK, BindingsOK, NEW P, ReleasePairs(P)
    PROVE  SlotsOK' /\ BindingsOK'
<1>1. SlotsOK'
  <2>1. Free \in SlotState
    BY DEF Free, SlotState
  <2> QED BY <2>1 DEF ReleasePairs, SlotsOK
<1>2. binding' \in [Accounts -> BindingState]
  <2>1. NoBinding \in BindingState
    BY DEF NoBinding, BindingState
  <2> QED BY <2>1 DEF ReleasePairs, BindingsOK
<1>3. \A a \in Accounts : binding'[a] = binding[a] \/ binding'[a] = NoBinding
  BY DEF ReleasePairs
<1> QED BY <1>1, <1>2, <1>3, BindingsCleared

LEMMA CloseEffect ==
    ASSUME SlotsOK, BindingsOK, ReservationsOK, NEW I, NEW status \in {"expired", "released"},
           \A i \in I \cap Logins :
               Open(i) \/ (res[i].status = "claimed" /\ status = "released"),
           Close(I, status)
    PROVE  SlotsOK' /\ BindingsOK' /\ Quiet
<1>1. SlotsOK' /\ BindingsOK'
  BY ReleaseEffect DEF Close
<1>2. ASSUME NEW i \in Logins
      PROVE  res'[i] \in Reservation /\ Kept(i) /\ (res'[i].status # "absent" => res'[i].slot \in Slots)
  <2>1. res[i] \in Reservation
    BY DEF ReservationsOK
  <2>2. CASE i \in I
    <3>1. res'[i] = [res[i] EXCEPT !.status = status]
      BY <2>2 DEF Close
    <3>2. res[i].status \in {"pending", "dispatched", "verified"}
          \/ (res[i].status = "claimed" /\ status = "released")
      BY <2>2 DEF Open, OpenReservation
    <3>3. res[i].slot \in Slots
      BY <3>2 DEF ReservationsOK
    <3>4. res'[i].status = status /\ res'[i].slot = res[i].slot
      BY <2>1, <3>1 DEF Reservation
    <3>5. res'[i] \in Reservation
      BY <2>1, <3>1 DEF Reservation
    <3> QED BY <3>2, <3>3, <3>4, <3>5 DEF Kept, Ended
  <2>3. CASE i \notin I
    <3>1. res'[i] = res[i]
      BY <2>3 DEF Close
    <3> QED BY <2>1, <3>1 DEF Kept, ReservationsOK
  <2> QED BY <2>2, <2>3
<1>3. ReservationsOK'
  <2>1. res' = [i \in Logins |-> res'[i]]
    BY DEF Close
  <2> QED BY <1>2, <2>1 DEF ReservationsOK
<1> QED BY <1>1, <1>2, <1>3 DEF Quiet

LEMMA ExpireEffect ==
    ASSUME SlotsOK, BindingsOK, ReservationsOK, AccountsOK, ReleaseExpired
    PROVE  SlotsOK' /\ BindingsOK' /\ Quiet /\ AccountsOK'
<1> DEFINE E == {i \in Logins : Open(i) /\ res[i].due}
<1>1. Close(E, "expired")
  BY DEF ReleaseExpired
<1>2. \A i \in E \cap Logins : Open(i)
  OBVIOUS
<1>3. SlotsOK' /\ BindingsOK' /\ Quiet
  <2> HIDE DEF E
  <2> QED BY <1>1, <1>2, CloseEffect
<1>4. AccountsOK'
  BY DEF ReleaseExpired, AccountsOK
<1> QED BY <1>3, <1>4

LEMMA SpendType ==
    ASSUME BoundOK, NEW what \in {"faults", "refused", "reads"}, NEW max, Spend(what, max)
    PROVE  BoundOK'
<1>1. bound' = [bound EXCEPT ![what] = @ + 1]
  BY DEF Spend
<1> QED BY <1>1 DEF BoundOK

----------------------------------------------------------------------------
(* Logins.                                                                 *)

\* A step of a request alone.
LEMMA AloneStep ==
    ASSUME IInv, UNCHANGED <<slot, binding, res, account, dep, cmds, Untouched>>,
           BoundOK', RequestsOK'
    PROVE  IInv' /\ EndStep
<1>1. /\ SlotsOK' /\ BindingsOK' /\ ReservationsOK' /\ DeploymentsOK'
      /\ AccountsOK' /\ CommandsOK' /\ JobsOK'
  BY DEF IInv, SlotsOK, BindingsOK, ReservationsOK, DeploymentsOK, AccountsOK,
         CommandsOK, JobsOK, OneCurrentPerSlot, Current, Untouched
<1>2. EndStep
  BY DEF EndStep
<1> QED BY <1>1, <1>2 DEF IInv

\* The same, when the request only goes on.
LEMMA AloneGoto ==
    ASSUME IInv, UNCHANGED <<slot, binding, res, account, dep, cmds, Untouched>>,
           BoundOK', NEW r \in Requests, NEW pc \in Pcs, Goto(r, pc),
           pc \notin {"allocate", "reserve", "dispatch", "create", "mark"},
           Kind[r] = "login" => pc = "done"
    PROVE  IInv' /\ EndStep
<1>1. Quiet
  BY QuietUnchanged DEF IInv
<1>2. RequestsOK'
  BY <1>1, Advance DEF IInv
<1> QED BY <1>2, AloneStep

\* The parts of IInv a step does not touch.
LEMMA Still ==
    ASSUME IInv
    PROVE  /\ UNCHANGED slot => SlotsOK'
           /\ UNCHANGED binding => BindingsOK'
           /\ UNCHANGED res => Quiet
           /\ UNCHANGED dep => DeploymentsOK'
           /\ UNCHANGED account => AccountsOK'
           /\ UNCHANGED cmds => CommandsOK'
           /\ UNCHANGED Untouched => JobsOK'
           /\ UNCHANGED bound => BoundOK'
<1>1. UNCHANGED res => Quiet
  BY QuietUnchanged DEF IInv
<1> QED BY <1>1 DEF IInv, SlotsOK, BindingsOK, DeploymentsOK, AccountsOK, CommandsOK,
                    JobsOK, BoundOK, OneCurrentPerSlot, Current, Untouched

LEMMA Together ==
    ASSUME SlotsOK', BindingsOK', Quiet, DeploymentsOK', RequestsOK', AccountsOK',
           CommandsOK', JobsOK', BoundOK'
    PROVE  IInv' /\ EndStep
  BY QuietEnds DEF IInv, Quiet

LEMMA LoginInv ==
    ASSUME IInv, NEW r \in Requests,
           \/ LoginAdmit(r) \/ LoginReserve(r) \/ LoginDispatch(r)
           \/ LoginDispatchRaises(r) \/ LoginMark(r)
    PROVE  IInv' /\ EndStep
<1>1. /\ SlotsOK /\ BindingsOK /\ ReservationsOK /\ DeploymentsOK
      /\ RequestsOK /\ AccountsOK /\ CommandsOK /\ JobsOK /\ BoundOK
      /\ req \in [Requests -> RequestState] /\ Consistent(r, req[r], res)
      /\ req[r].res \in Logins \cup {None}
  BY DEF IInv, RequestsOK, RequestState
<1>2. CASE LoginAdmit(r)
  <2>1. SlotsOK' /\ BindingsOK' /\ Quiet /\ AccountsOK'
    BY <1>1, <1>2, ExpireEffect DEF LoginAdmit
  <2>2. DeploymentsOK' /\ CommandsOK' /\ JobsOK' /\ BoundOK'
    BY <1>2, Still DEF LoginAdmit
  <2>3. PICK pc \in {"pick", "done"} : Goto(r, pc)
    BY <1>2 DEF LoginAdmit
  <2>4. req' \in [Requests -> RequestState]
    BY <1>1, <2>3, GotoType DEF Pcs
  <2>5. /\ req'[r].pc = pc /\ req'[r].res = req[r].res
        /\ \A q \in Requests : q # r => req'[q] = req[q]
    BY <1>1, <2>3, GotoEffect
  <2>6. Consistent(r, req'[r], res')
    <3>1. r \in Logins /\ req[r].pc = "idle"
      BY <1>2 DEF LoginAdmit, Arrives, At, Logins
    <3>2. req[r].res = None /\ res[r].status = "absent"
      BY <1>1, <3>1 DEF Consistent, Unreserved, Logins
    <3>3. res'[r].status = "absent"
      BY <2>1, <3>1, <3>2 DEF Quiet, Kept
    <3> QED BY <2>3, <2>5, <3>2, <3>3 DEF Consistent, LoginSteps
  <2>7. RequestsOK'
    BY <1>1, <2>1, <2>4, <2>5, <2>6, QuietStep
  <2> QED BY <2>1, <2>2, <2>7, Together
<1>3. CASE LoginReserve(r)
  <2> DEFINE a == Owner[r]
             s == req[r].slot
  <2>1. /\ req[r].pc = "reserve" /\ Kind[r] = "login" /\ r \in Logins
        /\ s \in Slots /\ req[r].res = None /\ res[r].status = "absent"
    BY <1>1, <1>3 DEF LoginReserve, At, Consistent, Unreserved, Logins
  <2>2. /\ SlotsOK' /\ BindingsOK' /\ DeploymentsOK' /\ AccountsOK' /\ CommandsOK'
        /\ JobsOK' /\ BoundOK'
    BY <1>3, Still DEF LoginReserve
  <2>3. CASE LiveOf(a) # {}
    <3>1. PICK i \in LiveOf(a) :
             req' = [req EXCEPT ![r].pc = "dispatch", ![r].res = i]
      BY <1>3, <2>3 DEF LoginReserve
    <3>2. i \in Logins /\ res[i].status # "absent" /\ UNCHANGED res
      BY <1>3, <2>3 DEF LoginReserve, LiveOf, Live, Open, OpenReservation
    <3>3. Quiet
      BY <3>2, Still
    <3>4. /\ req' \in [Requests -> RequestState]
          /\ req'[r].pc = "dispatch" /\ req'[r].res = i /\ req'[r].slot = s
          /\ \A q \in Requests : q # r => req'[q] = req[q]
      <4> DEFINE new == [req[r] EXCEPT !.pc = "dispatch", !.res = i]
      <4>1. req \in [Requests -> RequestState] /\ req[r] \in RequestState
        BY <1>1
      <4>2. new \in RequestState
        BY <3>2, <4>1 DEF RequestState
      <4>3. new.pc = "dispatch" /\ new.res = i /\ new.slot = s
        BY <4>1 DEF RequestState
      <4>4. req' = [req EXCEPT ![r] = new]
        BY <3>1, <4>1
      <4> HIDE DEF new
      <4> QED BY <4>1, <4>2, <4>3, <4>4
    <3>5. Consistent(r, req'[r], res')
      BY <2>1, <3>2, <3>4, Fresh DEF Consistent, LoginSteps, Unreserved
    <3>6. RequestsOK'
      BY <1>1, <3>3, <3>4, <3>5, QuietStep
    <3> QED BY <2>2, <3>3, <3>6, Together
  <2>4. CASE LiveOf(a) = {} /\ \E i \in Logins : Open(i) /\ (Owner[i] = a \/ res[i].slot = s)
    <3>1. Goto(r, "done") /\ UNCHANGED <<slot, binding, res, account, dep, cmds, bound, Untouched>>
      BY <1>3, <2>4 DEF LoginReserve
    <3> QED BY <2>2, <3>1, AloneGoto DEF Pcs
  <2>5. CASE LiveOf(a) = {} /\ ~ \E i \in Logins : Open(i) /\ (Owner[i] = a \/ res[i].slot = s)
    <3>1. /\ res' = [res EXCEPT ![r] = [status |-> "pending", slot |-> s, due |-> FALSE]]
          /\ req' = [req EXCEPT ![r].pc = "dispatch", ![r].res = r]
      BY <1>3, <2>5 DEF LoginReserve
    <3>2. [status |-> "pending", slot |-> s, due |-> FALSE] \in Reservation
      BY <2>1 DEF Reservation, OpenReservation
    <3>3. /\ res' \in [Logins -> Reservation]
          /\ res'[r].status = "pending" /\ res'[r].slot = s
          /\ \A i \in Logins : i # r => res'[i] = res[i]
      BY <1>1, <2>1, <3>1, <3>2 DEF ReservationsOK
    <3>4. ReservationsOK'
      BY <1>1, <2>1, <3>3 DEF ReservationsOK
    <3>5. EndStep
      BY <2>1, <3>3 DEF EndStep
    <3>6. /\ req' \in [Requests -> RequestState]
          /\ req'[r].pc = "dispatch" /\ req'[r].res = r /\ req'[r].slot = s
          /\ \A q \in Requests : q # r => req'[q] = req[q]
      <4>1. req[r] \in RequestState /\ r \in Logins
        BY <1>1, <2>1
      <4>2. req'[r] = [req[r] EXCEPT !.pc = "dispatch", !.res = r]
        BY <1>1, <3>1
      <4>3. /\ req'[r] \in RequestState
            /\ req'[r].pc = "dispatch" /\ req'[r].res = r /\ req'[r].slot = s
        BY <4>1, <4>2 DEF RequestState
      <4> QED BY <1>1, <3>1, <4>3
    <3>7. Consistent(r, req'[r], res')
      BY <2>1, <3>3, <3>6, Fresh DEF Consistent, LoginSteps, Unreserved
    <3>8. RequestsOK'
      BY <1>1, <3>3, <3>6, <3>7, OthersConsistent
    <3> QED BY <2>2, <3>4, <3>5, <3>8 DEF IInv
  <2> QED BY <2>3, <2>4, <2>5
<1>4. CASE LoginDispatch(r)
  <2>1. /\ req[r].pc = "dispatch" /\ Kind[r] = "login"
        /\ req[r].slot \in Slots /\ req[r].res \in Logins
        /\ res[req[r].res].status # "absent"
    BY <1>1, <1>4 DEF LoginDispatch, At, Consistent
  <2>2. /\ SlotsOK' /\ BindingsOK' /\ Quiet /\ DeploymentsOK' /\ AccountsOK'
        /\ JobsOK' /\ BoundOK' /\ UNCHANGED res
    BY <1>4, Still DEF LoginDispatch
  <2>3. CommandsOK'
    BY <1>1, <1>4, <2>1 DEF LoginDispatch, CommandsOK, Command
  <2>4. /\ req' \in [Requests -> RequestState]
        /\ req'[r].pc = "mark" /\ req'[r].res = req[r].res
        /\ \A q \in Requests : q # r => req'[q] = req[q]
    BY <1>1, <1>4, GotoType, GotoEffect DEF LoginDispatch, Pcs
  <2>5. Consistent(r, req'[r], res')
    BY <2>1, <2>2, <2>4, Fresh DEF Consistent, LoginSteps, Unreserved
  <2>6. RequestsOK'
    BY <1>1, <2>2, <2>4, <2>5, QuietStep
  <2> QED BY <2>2, <2>3, <2>6, Together
<1>5. CASE LoginDispatchRaises(r)
  <2>1. BoundOK'
    BY <1>1, <1>5, SpendType DEF LoginDispatchRaises, Fault
  <2> QED BY <1>5, <2>1, AloneGoto DEF LoginDispatchRaises, Pcs
<1>6. CASE LoginMark(r)
  <2> DEFINE i == req[r].res
  <2>1. i \in Logins
    BY <1>1, <1>6 DEF LoginMark, At, Consistent
  <2>2. /\ SlotsOK' /\ BindingsOK' /\ DeploymentsOK' /\ AccountsOK' /\ CommandsOK'
        /\ JobsOK' /\ BoundOK'
    BY <1>6, Still DEF LoginMark
  <2>3. Quiet
    <3>1. CASE res[i].status \in {"pending", "dispatched"}
      <4>1. res' = [res EXCEPT ![i].status = "dispatched", ![i].due = FALSE]
        BY <1>6, <3>1 DEF LoginMark
      <4>2. res[i] \in Reservation /\ res[i].slot \in Slots
        BY <1>1, <2>1, <3>1 DEF ReservationsOK
      <4>3. /\ res'[i] \in Reservation /\ res'[i].status = "dispatched"
            /\ res'[i].slot = res[i].slot
            /\ \A j \in Logins : j # i => res'[j] = res[j]
            /\ res' \in [Logins -> Reservation]
        BY <1>1, <2>1, <4>1, <4>2 DEF ReservationsOK, Reservation, OpenReservation
      <4> QED BY <1>1, <3>1, <4>2, <4>3 DEF Quiet, ReservationsOK, Kept, Ended
    <3>2. CASE res[i].status \notin {"pending", "dispatched"}
      BY <1>6, <3>2, Still DEF LoginMark
    <3> QED BY <3>1, <3>2
  <2>4. RequestsOK'
    BY <1>1, <1>6, <2>3, Advance DEF LoginMark, Pcs
  <2> QED BY <2>2, <2>3, <2>4, Together
<1> QED BY <1>2, <1>3, <1>4, <1>5, <1>6

----------------------------------------------------------------------------
(* Picking, allocating, starting.                                          *)

\* A request takes a slot or a reservation and goes on.
LEMMA TakeType ==
    ASSUME req \in [Requests -> RequestState], NEW r \in Requests,
           NEW x \in RequestState, req' = [req EXCEPT ![r] = x]
    PROVE  /\ req' \in [Requests -> RequestState]
           /\ req'[r] = x
           /\ \A q \in Requests : q # r => req'[q] = req[q]
  OBVIOUS

LEMMA PickedSlots ==
    ASSUME RequestsOK, ReservationsOK, NEW r \in Requests
    PROVE  Picked(r) \subseteq Slots
<1>1. Consistent(r, req[r], res) /\ req[r].res \in Logins \cup {None}
  BY DEF RequestsOK, RequestState
<1>2. CASE Kind[r] = "start" /\ req[r].res # None
  BY <1>1, <1>2 DEF Picked, Consistent, ReservationsOK
<1>3. CASE ~(Kind[r] = "start" /\ req[r].res # None)
  BY <1>3 DEF Picked, Choices
<1> QED BY <1>2, <1>3

LEMMA PickInv ==
    ASSUME IInv, NEW r \in Requests, Pick(r) \/ PickNone(r) \/ AllocateRaises(r)
    PROVE  IInv' /\ EndStep
<1>1. /\ RequestsOK /\ ReservationsOK /\ BoundOK
      /\ req \in [Requests -> RequestState] /\ Consistent(r, req[r], res)
      /\ req[r] \in RequestState /\ req[r].res \in Logins \cup {None}
  BY DEF IInv, RequestsOK, RequestState
<1>2. CASE Pick(r)
  <2>1. PICK s \in Picked(r) : req' = [req EXCEPT ![r].pc = "allocate", ![r].slot = s]
    BY <1>2 DEF Pick
  <2>2. s \in Slots
    BY <1>1, <2>1, PickedSlots
  <2> DEFINE x == [req[r] EXCEPT !.pc = "allocate", !.slot = s]
  <2>3. /\ x \in RequestState
        /\ x.pc = "allocate" /\ x.slot = s /\ x.res = req[r].res
    BY <1>1, <2>2 DEF RequestState
  <2>4. req' = [req EXCEPT ![r] = x]
    BY <2>1
  <2> HIDE DEF x
  <2>5. /\ req' \in [Requests -> RequestState]
        /\ req'[r] = x
        /\ \A q \in Requests : q # r => req'[q] = req[q]
    BY <1>1, <2>3, <2>4, TakeType
  <2>6. UNCHANGED res /\ Quiet /\ BoundOK'
    BY <1>2, Still DEF Pick
  <2>7. Consistent(r, x, res')
    BY <1>1, <1>2, <2>2, <2>3, <2>6 DEF Pick, At, Consistent, LoginSteps, Unreserved
  <2>8. RequestsOK'
    BY <1>1, <2>5, <2>6, <2>7, QuietStep
  <2> QED BY <1>2, <2>6, <2>8, AloneStep DEF Pick
<1>3. CASE PickNone(r)
  <2>1. UNCHANGED res /\ Quiet /\ BoundOK'
    BY <1>3, Still DEF PickNone
  <2>2. CASE Kind[r] = "start"
    <3>1. PICK pc \in {"prepare", "done"}, b \in BOOLEAN :
             req'= [req EXCEPT ![r] = [req[r] EXCEPT !.pc = pc, !.again = b]]
      <4>1. CASE req' = [req EXCEPT ![r].pc = "prepare", ![r].again = TRUE]
        BY <4>1
      <4>2. CASE req' = [req EXCEPT ![r].pc = "done"]
        <5>1. [req[r] EXCEPT !.pc = "done"] =
                 [req[r] EXCEPT !.pc = "done", !.again = req[r].again]
          BY <1>1 DEF RequestState
        <5>2. req' = [req EXCEPT ![r] = [req[r] EXCEPT !.pc = "done"]]
          BY <4>2
        <5>3. req[r].again \in BOOLEAN
          BY <1>1 DEF RequestState
        <5> QED BY <5>1, <5>2, <5>3
      <4> QED BY <1>3, <4>1, <4>2 DEF PickNone
    <3> DEFINE x == [req[r] EXCEPT !.pc = pc, !.again = b]
    <3>2. x \in RequestState /\ x.pc = pc /\ x.res = req[r].res
      BY <1>1, <3>1 DEF RequestState
    <3>3. req' = [req EXCEPT ![r] = x]
      BY <3>1
    <3> HIDE DEF x
    <3>4. /\ req' \in [Requests -> RequestState]
          /\ req'[r] = x
          /\ \A q \in Requests : q # r => req'[q] = req[q]
      BY <1>1, <3>2, <3>3, TakeType
    <3>5. Consistent(r, x, res')
      BY <1>1, <2>1, <2>2, <3>1, <3>2 DEF Consistent
    <3>6. RequestsOK'
      BY <1>1, <2>1, <3>4, <3>5, QuietStep
    <3> QED BY <1>3, <2>1, <3>6, AloneStep DEF PickNone
  <2>3. CASE Kind[r] # "start"
    <3>1. Goto(r, "done")
      BY <1>3, <2>3 DEF PickNone, Goto
    <3> QED BY <1>3, <2>1, <3>1, AloneGoto DEF PickNone, Pcs
  <2> QED BY <2>2, <2>3
<1>4. CASE AllocateRaises(r)
  <2>1. BoundOK'
    BY <1>4, Still DEF AllocateRaises
  <2>2. Kind[r] = "login" => req[r].res = None
    BY <1>1, <1>4 DEF AllocateRaises, At, Consistent, Unreserved
  <2>3. PICK pc \in {"release", "done"} : Goto(r, pc) /\ (Kind[r] = "login" => pc = "done")
    BY <1>4, <2>2 DEF AllocateRaises
  <2> QED BY <1>4, <2>1, <2>3, AloneGoto DEF AllocateRaises, Pcs
<1> QED BY <1>2, <1>3, <1>4

\* Whoever holds the slot that is allocated, no other account keeps a binding to it.
LEMMA AllocateInv ==
    ASSUME IInv, NEW r \in Requests, Allocate(r)
    PROVE  IInv' /\ EndStep
<1> DEFINE a == Owner[r]
           s == req[r].slot
<1>1. /\ SlotsOK /\ BindingsOK /\ RequestsOK
      /\ req \in [Requests -> RequestState] /\ Consistent(r, req[r], res)
      /\ a \in Accounts /\ s \in Slots
  BY RequestsAssumption DEF IInv, RequestsOK, Allocate, At, Consistent
<1>2. /\ Quiet /\ DeploymentsOK' /\ AccountsOK' /\ CommandsOK' /\ JobsOK' /\ BoundOK'
      /\ UNCHANGED res
  BY Still DEF Allocate
<1>3. SlotsOK'
  BY <1>1 DEF Allocate, SlotsOK, SlotState
<1>4. BindingsOK'
  <2>1. /\ binding'[a] = [slot |-> s, state |-> "active"]
        /\ \A b \in Accounts \ {a} :
              binding'[b] = IF binding[b] = [slot |-> s, state |-> "sticky"]
                            THEN NoBinding ELSE binding[b]
        /\ binding' = [b \in Accounts |-> binding'[b]]
    BY <1>1 DEF Allocate
  <2>2. \A b \in Accounts : binding'[b] \in BindingState
    BY <1>1, <2>1 DEF BindingsOK, BindingState, NoBinding
  <2>3. ASSUME NEW b \in Accounts \ {a}, binding'[b].slot # None
        PROVE  binding'[b] = binding[b] /\ binding[b].slot # s
    <3>1. binding'[b] = binding[b] /\ binding[b] # [slot |-> s, state |-> "sticky"]
      BY <2>1, <2>3 DEF NoBinding
    <3>2. binding[b] # [slot |-> s, state |-> "active"]
      BY DEF Allocate, Allocatable
    <3>3. binding[b] \in BindingState /\ binding[b].state # "none"
      BY <1>1, <2>3, <3>1 DEF BindingsOK
    <3> QED BY <3>1, <3>2, <3>3 DEF BindingState
  <2>4. \A b \in Accounts : binding'[b].slot # None => binding'[b].state # "none"
    BY <1>1, <2>1, <2>3 DEF BindingsOK
  <2>5. ASSUME NEW b \in Accounts, NEW c \in Accounts, b # c, binding'[b].slot # None
        PROVE  binding'[c].slot # binding'[b].slot
    <3>1. CASE b = a
      BY <1>1, <2>1, <2>3, <2>5, <3>1, Fresh
    <3>2. CASE c = a
      BY <2>1, <2>3, <2>5, <3>2
    <3>3. CASE b # a /\ c # a
      BY <1>1, <2>3, <2>5, <3>3 DEF BindingsOK, OneCurrentPerSlot, Current
    <3> QED BY <3>1, <3>2, <3>3
  <2> QED BY <2>1, <2>2, <2>4, <2>5 DEF BindingsOK, OneCurrentPerSlot, Current
<1>5. RequestsOK'
  <2>1. PICK pc \in {"reserve", "create"} :
           Goto(r, pc) /\ (pc = "reserve" <=> Kind[r] = "login")
    BY DEF Allocate
  <2>2. /\ req' \in [Requests -> RequestState]
        /\ req'[r].pc = pc /\ req'[r].res = req[r].res /\ req'[r].slot = s
        /\ \A q \in Requests : q # r => req'[q] = req[q]
    BY <1>1, <2>1, GotoType, GotoEffect DEF Pcs
  <2>3. Consistent(r, req'[r], res')
    BY <1>1, <1>2, <2>1, <2>2 DEF Allocate, At, Consistent, LoginSteps, Unreserved
  <2> QED BY <1>1, <1>2, <2>2, <2>3, QuietStep
<1> QED BY <1>2, <1>3, <1>4, <1>5, Together

LEMMA StartAloneInv ==
    ASSUME IInv, NEW r \in Requests,
           \/ StartGuard(r) \/ StartRefused(r) \/ StartManage(r) \/ StartDispatch(r)
           \/ StartDispatchRaises(r) \/ Crash(r)
    PROVE  IInv' /\ EndStep
<1>1. BoundOK /\ Consistent(r, req[r], res)
  BY DEF IInv, RequestsOK
<1>2. CASE StartGuard(r)
  <2>1. PICK pc \in {"done", "manage"} : Goto(r, pc)
    BY <1>2 DEF StartGuard
  <2>2. Kind[r] # "login"
    BY <1>1, <1>2 DEF StartGuard, At, Consistent, LoginSteps
  <2>3. BoundOK'
    BY <1>2, Still DEF StartGuard
  <2> QED BY <1>2, <2>1, <2>2, <2>3, AloneGoto DEF StartGuard, Pcs
<1>3. CASE StartRefused(r)
  <2>1. BoundOK'
    BY <1>1, <1>3, SpendType DEF StartRefused
  <2> QED BY <1>3, <2>1, AloneGoto DEF StartRefused, Pcs
<1>4. CASE StartManage(r)
  <2>1. PICK pc \in {"pick", "prepare", "release", "done"} : Goto(r, pc)
    BY <1>4 DEF StartManage
  <2>2. Kind[r] # "login"
    BY <1>1, <1>4 DEF StartManage, At, Consistent, LoginSteps
  <2>3. BoundOK'
    BY <1>4, Still DEF StartManage
  <2> QED BY <1>4, <2>1, <2>2, <2>3, AloneGoto DEF StartManage, Pcs
<1>5. CASE StartDispatch(r)
  <2>1. BoundOK'
    BY <1>5, Still DEF StartDispatch
  <2> QED BY <1>5, <2>1, AloneGoto DEF StartDispatch, Pcs
<1>6. CASE StartDispatchRaises(r)
  <2>1. PICK pc \in {"cleanup", "cancel"} : Goto(r, pc)
    BY <1>6 DEF StartDispatchRaises
  <2>2. Kind[r] # "login"
    BY <1>1, <1>6 DEF StartDispatchRaises, At, Consistent, LoginSteps
  <2>3. BoundOK'
    BY <1>1, <1>6, SpendType DEF StartDispatchRaises, Fault
  <2> QED BY <1>6, <2>1, <2>2, <2>3, AloneGoto DEF StartDispatchRaises, Pcs
<1>7. CASE Crash(r)
  <2>1. BoundOK'
    BY <1>1, <1>7, SpendType DEF Crash, Fault
  <2>2. PICK pc \in {"done", "lost"} : Goto(r, pc) /\ (Kind[r] = "login" => pc = "done")
    BY <1>1, <1>7 DEF Crash, At, Consistent, LoginSteps
  <2> QED BY <1>7, <2>1, <2>2, AloneGoto DEF Crash, Pcs
<1> QED BY <1>2, <1>3, <1>4, <1>5, <1>6, <1>7

LEMMA StartAdmitInv ==
    ASSUME IInv, NEW r \in Requests, StartAdmit(r)
    PROVE  IInv' /\ EndStep
<1>1. /\ SlotsOK /\ BindingsOK /\ ReservationsOK /\ AccountsOK /\ RequestsOK
      /\ req \in [Requests -> RequestState] /\ Consistent(r, req[r], res)
      /\ req[r] \in RequestState /\ req[r].res \in Logins \cup {None}
  BY DEF IInv, RequestsOK, RequestState
<1>2. SlotsOK' /\ BindingsOK' /\ Quiet /\ AccountsOK'
  BY <1>1, ExpireEffect DEF StartAdmit
<1>3. DeploymentsOK' /\ CommandsOK' /\ JobsOK' /\ BoundOK'
  BY Still DEF StartAdmit
<1>4. PICK pc \in {"done", "claim", "guard"}, b \in BOOLEAN :
         req' = [req EXCEPT ![r].ready = b, ![r].pc = pc]
  BY DEF StartAdmit
<1> DEFINE x == [req[r] EXCEPT !.ready = b, !.pc = pc]
<1>5. x \in RequestState /\ x.pc = pc /\ x.res = req[r].res
  BY <1>1, <1>4 DEF RequestState
<1>6. req' = [req EXCEPT ![r] = x]
  BY <1>4
<1> HIDE DEF x
<1>7. /\ req' \in [Requests -> RequestState]
      /\ req'[r] = x
      /\ \A q \in Requests : q # r => req'[q] = req[q]
  BY <1>1, <1>5, <1>6, TakeType
<1>8. Consistent(r, x, res')
  <2>1. x.res # None => res'[x.res].status # "absent"
    BY <1>1, <1>2, <1>5 DEF Consistent, Quiet, Kept
  <2> QED BY <1>4, <1>5, <2>1 DEF StartAdmit, Consistent
<1>9. RequestsOK'
  BY <1>1, <1>2, <1>7, <1>8, QuietStep
<1> QED BY <1>2, <1>3, <1>9, Together

LEMMA StartClaimInv ==
    ASSUME IInv, NEW r \in Requests, StartClaim(r)
    PROVE  IInv' /\ EndStep
<1> DEFINE V == {i \in LiveOf(Owner[r]) : res[i].status = "verified"}
<1>1. /\ ReservationsOK /\ RequestsOK
      /\ req \in [Requests -> RequestState] /\ Consistent(r, req[r], res)
      /\ req[r] \in RequestState /\ req[r].res \in Logins \cup {None}
  BY DEF IInv, RequestsOK, RequestState
<1>2. Kind[r] # "login"
  BY <1>1 DEF StartClaim, At, Consistent, LoginSteps
<1>3. /\ SlotsOK' /\ BindingsOK' /\ DeploymentsOK' /\ AccountsOK' /\ CommandsOK'
      /\ JobsOK' /\ BoundOK'
  BY Still DEF StartClaim
<1>4. CASE V = {}
  <2>1. BoundOK' /\ Goto(r, "guard") /\ UNCHANGED res
    BY <1>3, <1>4 DEF StartClaim
  <2> QED BY <1>2, <2>1, AloneGoto DEF StartClaim, Pcs
<1>5. CASE V # {}
  <2>1. PICK i \in V :
           /\ res' = [res EXCEPT ![i].status = "claimed"]
           /\ req' = [req EXCEPT ![r].pc = "guard", ![r].res = i]
    BY <1>5 DEF StartClaim
  <2>2. i \in Logins /\ res[i].status = "verified" /\ res[i] \in Reservation
    BY <1>1 DEF LiveOf, ReservationsOK
  <2>3. /\ res'[i].status = "claimed" /\ res'[i].slot = res[i].slot
        /\ \A j \in Logins : j # i => res'[j] = res[j]
        /\ res' \in [Logins -> Reservation]
    BY <1>1, <2>1, <2>2 DEF ReservationsOK, Reservation
  <2>4. Quiet
    BY <1>1, <2>2, <2>3 DEF Quiet, ReservationsOK, Kept, Ended
  <2> DEFINE x == [req[r] EXCEPT !.pc = "guard", !.res = i]
  <2>5. x \in RequestState /\ x.pc = "guard" /\ x.res = i
    BY <1>1, <2>2 DEF RequestState
  <2>6. req' = [req EXCEPT ![r] = x]
    BY <2>1
  <2> HIDE DEF x
  <2>7. /\ req' \in [Requests -> RequestState]
        /\ req'[r] = x
        /\ \A q \in Requests : q # r => req'[q] = req[q]
    BY <1>1, <2>5, <2>6, TakeType
  <2>8. Consistent(r, x, res')
    BY <1>2, <2>3, <2>5 DEF Consistent
  <2>9. RequestsOK'
    BY <1>1, <2>4, <2>7, <2>8, QuietStep
  <2> QED BY <1>3, <2>4, <2>9, Together
<1> QED BY <1>4, <1>5

LEMMA StartPrepareInv ==
    ASSUME IInv, NEW r \in Requests, StartPrepare(r)
    PROVE  IInv' /\ EndStep
<1> DEFINE a == Owner[r]
<1>1. /\ SlotsOK /\ BindingsOK /\ RequestsOK /\ Consistent(r, req[r], res)
      /\ a \in Accounts
  BY RequestsAssumption DEF IInv, RequestsOK
<1>2. Kind[r] # "login"
  BY <1>1 DEF StartPrepare, At, Consistent, LoginSteps
<1>3. /\ Quiet /\ DeploymentsOK' /\ AccountsOK' /\ CommandsOK' /\ JobsOK' /\ BoundOK'
  BY Still DEF StartPrepare
<1>4. RequestsOK'
  BY <1>1, <1>2, <1>3, Advance DEF StartPrepare, Pcs
<1>5. SlotsOK' /\ BindingsOK'
  <2>1. CASE Reusable(a) /\ binding' = [binding EXCEPT ![a].state = "sticky"]
             /\ slot' = [slot EXCEPT ![binding[a].slot] = Free]
    <3>1. SlotsOK'
      BY <1>1, <2>1 DEF SlotsOK, SlotState, Free
    <3>2. /\ binding' \in [Accounts -> BindingState]
          /\ binding'[a].slot = binding[a].slot /\ binding'[a].state = "sticky"
          /\ \A b \in Accounts : b # a => binding'[b] = binding[b]
      BY <1>1, <2>1 DEF BindingsOK, BindingState
    <3> QED BY <1>1, <3>1, <3>2 DEF BindingsOK, OneCurrentPerSlot, Current
  <2>2. CASE UNCHANGED <<slot, binding>>
    BY <2>2, Still
  <2> QED BY <2>1, <2>2 DEF StartPrepare
<1> QED BY <1>3, <1>4, <1>5, Together

LEMMA StartCreateInv ==
    ASSUME IInv, NEW r \in Requests, StartCreate(r)
    PROVE  IInv' /\ EndStep
<1>1. RequestsOK /\ DeploymentsOK /\ Consistent(r, req[r], res)
  BY DEF IInv, RequestsOK
<1>2. Kind[r] # "login" /\ req[r].slot \in Slots
  BY <1>1 DEF StartCreate, At, Consistent, LoginSteps
<1>3. /\ SlotsOK' /\ BindingsOK' /\ Quiet /\ AccountsOK' /\ CommandsOK' /\ JobsOK'
      /\ BoundOK'
  BY Still DEF StartCreate
<1>4. DeploymentsOK'
  <2>1. CASE dep' = [dep EXCEPT ![r] = [status |-> "active", slot |-> req[r].slot]]
    <3>1. [status |-> "active", slot |-> req[r].slot] \in Deployment
      BY <1>2 DEF Deployment
    <3> QED BY <1>1, <1>2, <2>1, <3>1 DEF DeploymentsOK
  <2>2. CASE UNCHANGED dep
    BY <2>2, Still
  <2> QED BY <2>1, <2>2 DEF StartCreate
<1>5. PICK pc \in {"release", "done", "start"} : Goto(r, pc)
  BY DEF StartCreate
<1>6. RequestsOK'
  BY <1>1, <1>2, <1>3, <1>5, Advance DEF Pcs
<1> QED BY <1>3, <1>4, <1>6, Together

LEMMA StartUndoInv ==
    ASSUME IInv, NEW r \in Requests, StartRelease(r) \/ StartCancel(r) \/ StartUnbind(r)
    PROVE  IInv' /\ EndStep
<1>1. /\ SlotsOK /\ BindingsOK /\ ReservationsOK /\ RequestsOK /\ DeploymentsOK
      /\ Consistent(r, req[r], res)
  BY DEF IInv, RequestsOK
<1>2. Kind[r] # "login"
  BY <1>1 DEF StartRelease, StartCancel, StartUnbind, At, Consistent, LoginSteps
<1>3. CASE StartRelease(r)
  <2>1. DeploymentsOK' /\ AccountsOK' /\ CommandsOK' /\ JobsOK' /\ BoundOK'
    BY <1>3, Still DEF StartRelease
  <2>2. SlotsOK' /\ BindingsOK' /\ Quiet
    <3>1. CASE res[req[r].res].status = "claimed"
      <4>1. Close({req[r].res}, "released")
        BY <1>3, <3>1 DEF StartRelease
      <4> QED BY <1>1, <3>1, <4>1, CloseEffect
    <3>2. CASE res[req[r].res].status # "claimed"
      BY <1>3, <3>2, Still DEF StartRelease
    <3> QED BY <3>1, <3>2
  <2>3. PICK pc \in {"done", "cancel"} : Goto(r, pc)
    BY <1>3 DEF StartRelease
  <2>4. RequestsOK'
    BY <1>1, <1>2, <2>2, <2>3, Advance DEF Pcs
  <2> QED BY <2>1, <2>2, <2>4, Together
<1>4. CASE StartCancel(r)
  <2>1. /\ SlotsOK' /\ BindingsOK' /\ Quiet /\ AccountsOK' /\ CommandsOK' /\ JobsOK'
        /\ BoundOK'
    BY <1>4, Still DEF StartCancel
  <2>2. DeploymentsOK'
    BY <1>1, <1>4 DEF StartCancel, DeploymentsOK, Deployment
  <2>3. RequestsOK'
    BY <1>1, <1>2, <1>4, <2>1, Advance DEF StartCancel, Pcs
  <2> QED BY <2>1, <2>2, <2>3, Together
<1>5. CASE StartUnbind(r)
  <2>1. Quiet /\ DeploymentsOK' /\ AccountsOK' /\ CommandsOK' /\ JobsOK' /\ BoundOK'
    BY <1>5, Still DEF StartUnbind
  <2>2. SlotsOK' /\ BindingsOK'
    BY <1>1, <1>5, ReleaseEffect DEF StartUnbind
  <2>3. RequestsOK'
    BY <1>1, <1>2, <1>5, <2>1, Advance DEF StartUnbind, Pcs
  <2> QED BY <2>1, <2>2, <2>3, Together
<1> QED BY <1>3, <1>4, <1>5

----------------------------------------------------------------------------
(* Deletions.                                                              *)

LEMMA DeleteInv ==
    ASSUME IInv, NEW r \in Requests,
           \/ DeleteAdmit(r) \/ DeleteDrop(r) \/ DeleteRead(r) \/ DeleteSoft(r)
           \/ DeleteUnbind(r)
    PROVE  IInv' /\ EndStep
<1>1. /\ SlotsOK /\ BindingsOK /\ ReservationsOK /\ RequestsOK /\ AccountsOK
      /\ Consistent(r, req[r], res) /\ Owner[r] \in Accounts
      /\ req \in [Requests -> RequestState] /\ req[r] \in RequestState
      /\ req[r].res \in Logins \cup {None}
  BY RequestsAssumption DEF IInv, RequestsOK, RequestState
<1>2. Kind[r] # "login"
  BY <1>1 DEF DeleteAdmit, DeleteDrop, DeleteRead, DeleteSoft, DeleteUnbind, At,
              Consistent, LoginSteps
<1>3. CASE DeleteAdmit(r)
  <2>1. PICK pc \in {"done", "drop"} : Goto(r, pc)
    BY <1>3 DEF DeleteAdmit
  <2>2. BoundOK'
    BY <1>3, Still DEF DeleteAdmit
  <2> QED BY <1>2, <1>3, <2>1, <2>2, AloneGoto DEF DeleteAdmit, Pcs
<1>4. CASE DeleteDrop(r)
  <2> DEFINE I == {i \in Logins : Owner[i] = Owner[r] /\ Open(i)}
  <2>1. Close(I, "released") /\ \A i \in I \cap Logins : Open(i)
    BY <1>4 DEF DeleteDrop
  <2>2. SlotsOK' /\ BindingsOK' /\ Quiet
    <3> HIDE DEF I
    <3> QED BY <1>1, <2>1, CloseEffect
  <2>3. DeploymentsOK' /\ AccountsOK' /\ CommandsOK' /\ JobsOK' /\ BoundOK'
    BY <1>4, Still DEF DeleteDrop
  <2>4. RequestsOK'
    BY <1>1, <1>2, <1>4, <2>2, Advance DEF DeleteDrop, Pcs
  <2> QED BY <2>2, <2>3, <2>4, Together
<1>5. CASE DeleteRead(r)
  <2>1. UNCHANGED res /\ Quiet /\ BoundOK'
    BY <1>5, Still DEF DeleteRead
  <2> DEFINE x == [req[r] EXCEPT !.slot = binding[Owner[r]].slot, !.pc = "delete"]
  <2>2. binding[Owner[r]].slot \in Slots \cup {None}
    BY <1>1 DEF BindingsOK, BindingState
  <2>3. x \in RequestState /\ x.pc = "delete" /\ x.res = req[r].res
    BY <1>1, <2>2 DEF RequestState
  <2>4. req' = [req EXCEPT ![r] = x]
    BY <1>5 DEF DeleteRead
  <2> HIDE DEF x
  <2>5. /\ req' \in [Requests -> RequestState]
        /\ req'[r] = x
        /\ \A q \in Requests : q # r => req'[q] = req[q]
    BY <1>1, <2>3, <2>4, TakeType
  <2>6. Consistent(r, x, res')
    BY <1>1, <1>2, <2>1, <2>3 DEF Consistent
  <2>7. RequestsOK'
    BY <1>1, <2>1, <2>5, <2>6, QuietStep
  <2> QED BY <1>5, <2>1, <2>7, AloneStep DEF DeleteRead
<1>6. CASE DeleteSoft(r)
  <2>1. /\ SlotsOK' /\ BindingsOK' /\ Quiet /\ DeploymentsOK' /\ CommandsOK' /\ JobsOK'
        /\ BoundOK'
    BY <1>6, Still DEF DeleteSoft
  <2>2. AccountsOK'
    BY <1>1, <1>6 DEF DeleteSoft, AccountsOK
  <2>3. PICK pc \in {"done", "drop_binding"} : Goto(r, pc)
    BY <1>6 DEF DeleteSoft
  <2>4. RequestsOK'
    BY <1>1, <1>2, <2>1, <2>3, Advance DEF Pcs
  <2> QED BY <2>1, <2>2, <2>4, Together
<1>7. CASE DeleteUnbind(r)
  <2>1. Quiet /\ DeploymentsOK' /\ AccountsOK' /\ CommandsOK' /\ JobsOK' /\ BoundOK'
    BY <1>7, Still DEF DeleteUnbind
  <2>2. SlotsOK' /\ BindingsOK'
    BY <1>1, <1>7, ReleaseEffect DEF DeleteUnbind
  <2>3. RequestsOK'
    BY <1>1, <1>2, <1>7, <2>1, Advance DEF DeleteUnbind, Pcs
  <2> QED BY <2>1, <2>2, <2>3, Together
<1> QED BY <1>3, <1>4, <1>5, <1>6, <1>7

----------------------------------------------------------------------------
(* What the runner reports.                                                *)

LEMMA AnswerType ==
    ASSUME CommandsOK, NEW c \in cmds, NEW result \in {"none", "ok", "failed"},
           Answer(c, result)
    PROVE  CommandsOK'
<1>1. c \in Command
  BY DEF CommandsOK
<1>2. [c EXCEPT !.result = result] \in Command
  BY <1>1 DEF Command
<1> QED BY <1>2 DEF Answer, CommandsOK

LEMMA LoginAnswerInv ==
    ASSUME IInv, NEW c \in cmds, LoginVerified(c) \/ LoginFailed(c) \/ LoginReleased(c)
    PROVE  IInv' /\ EndStep
<1> DEFINE i == c.res
           s == c.slot
<1>1. /\ SlotsOK /\ BindingsOK /\ ReservationsOK /\ RequestsOK /\ AccountsOK
      /\ CommandsOK /\ BoundOK
  BY DEF IInv
<1>2. i \in Logins /\ s \in Slots /\ Owner[i] \in Accounts /\ res[i] \in Reservation
  BY <1>1, RequestsAssumption DEF CommandsOK, Command, Logins, ReservationsOK
<1> HIDE DEF i, s
<1>3. CASE LoginVerified(c)
  <2>1. BindingsOK' /\ DeploymentsOK' /\ JobsOK' /\ UNCHANGED req
    BY <1>3, Still DEF LoginVerified
  <2>2. BoundOK'
    BY <1>1, <1>3, Still, SpendType DEF LoginVerified, Fault
  <2>3. CommandsOK'
    BY <1>1, <1>3, AnswerType DEF LoginVerified
  <2>4. Verify(i, s)
    BY <1>3 DEF LoginVerified, i, s
  <2>5. SlotsOK' /\ AccountsOK' /\ Quiet
    <3>1. CASE Open(i)
      <4>1. /\ res' = [res EXCEPT ![i] = [status |-> "verified", slot |-> s, due |-> FALSE]]
            /\ account' = [account EXCEPT ![Owner[i]] =
                             IF @ = "disconnected" THEN @ ELSE "connected"]
            /\ slot' = [slot EXCEPT ![s] = [acct |-> Owner[i], allocated |-> TRUE]]
        BY <2>4, <3>1 DEF Verify
      <4>2. SlotsOK' /\ AccountsOK'
        BY <1>1, <1>2, <4>1 DEF SlotsOK, SlotState, AccountsOK
      <4>3. [status |-> "verified", slot |-> s, due |-> FALSE] \in Reservation
        BY <1>2 DEF Reservation, OpenReservation
      <4>4. /\ res' \in [Logins -> Reservation]
            /\ res'[i].status = "verified" /\ res'[i].slot = s
            /\ \A j \in Logins : j # i => res'[j] = res[j]
        BY <1>1, <1>2, <4>1, <4>3 DEF ReservationsOK
      <4>5. res[i].status \in {"pending", "dispatched", "verified"}
        BY <3>1 DEF Open, OpenReservation
      <4>6. Quiet
        BY <1>1, <1>2, <4>4, <4>5 DEF Quiet, ReservationsOK, Kept, Ended
      <4> QED BY <4>2, <4>6
    <3>2. CASE ~Open(i)
      BY <2>4, <3>2, Still DEF Verify
    <3> QED BY <3>1, <3>2
  <2>6. RequestsOK'
    BY <1>1, <2>1, <2>5, QuietRequests
  <2> QED BY <2>1, <2>2, <2>3, <2>5, <2>6, Together
<1>4. CASE LoginFailed(c)
  <2>1. DeploymentsOK' /\ JobsOK' /\ UNCHANGED req
    BY <1>4, Still DEF LoginFailed
  <2>2. BoundOK'
    BY <1>1, <1>4, Still, SpendType DEF LoginFailed, Fault
  <2>3. CommandsOK'
    BY <1>1, <1>4, AnswerType DEF LoginFailed
  <2>4. Fail(i, s)
    BY <1>4 DEF LoginFailed, i, s
  <2>5. SlotsOK' /\ BindingsOK' /\ AccountsOK' /\ Quiet
    <3>1. CASE Open(i)
      <4>1. /\ res' = [res EXCEPT ![i] = [res[i] EXCEPT !.status = "failed", !.slot = s]]
            /\ account' = [account EXCEPT ![Owner[i]] =
                             IF @ = "disconnected" THEN @ ELSE "login_failed"]
            /\ ReleasePairs({<<Owner[i], s>>})
        BY <2>4, <3>1 DEF Fail
      <4>2. SlotsOK' /\ BindingsOK' /\ AccountsOK'
        BY <1>1, <1>2, <4>1, ReleaseEffect DEF AccountsOK
      <4> DEFINE x == [res[i] EXCEPT !.status = "failed", !.slot = s]
      <4>3. x \in Reservation /\ x.status = "failed" /\ x.slot = s
        BY <1>2 DEF Reservation, OpenReservation
      <4>4. res' = [res EXCEPT ![i] = x]
        BY <4>1
      <4> HIDE DEF x
      <4>5. /\ res' \in [Logins -> Reservation]
            /\ res'[i] = x
            /\ \A j \in Logins : j # i => res'[j] = res[j]
        BY <1>1, <1>2, <4>3, <4>4 DEF ReservationsOK
      <4>6. res[i].status \in {"pending", "dispatched", "verified"}
        BY <3>1 DEF Open, OpenReservation
      <4>7. Quiet
        BY <1>1, <1>2, <4>3, <4>5, <4>6 DEF Quiet, ReservationsOK, Kept, Ended
      <4> QED BY <4>2, <4>7
    <3>2. CASE ~Open(i)
      BY <2>4, <3>2, Still DEF Fail
    <3> QED BY <3>1, <3>2
  <2>6. RequestsOK'
    BY <1>1, <2>1, <2>5, QuietRequests
  <2> QED BY <2>1, <2>2, <2>3, <2>5, <2>6, Together
<1>5. CASE LoginReleased(c)
  <2>1. DeploymentsOK' /\ AccountsOK' /\ CommandsOK' /\ JobsOK' /\ BoundOK' /\ UNCHANGED req
    BY <1>5, Still DEF LoginReleased
  <2>2. Open(i) /\ Close({i}, "released")
    BY <1>5 DEF LoginReleased, i
  <2>3. SlotsOK' /\ BindingsOK' /\ Quiet
    BY <1>1, <2>2, CloseEffect
  <2>4. RequestsOK'
    BY <1>1, <2>1, <2>3, QuietRequests
  <2> QED BY <2>1, <2>3, <2>4, Together
<1> QED BY <1>3, <1>4, <1>5

LEMMA StoppedInv ==
    ASSUME IInv, NEW q \in Starts, Stopped(q) \/ StoppedRelease(q)
    PROVE  IInv' /\ EndStep
<1>1. SlotsOK /\ BindingsOK /\ RequestsOK /\ DeploymentsOK /\ JobsOK
  BY DEF IInv
<1>2. Owner[q] \in Accounts
  BY RequestsAssumption DEF Starts
<1>3. CASE Stopped(q)
  <2>1. /\ SlotsOK' /\ BindingsOK' /\ Quiet /\ AccountsOK' /\ CommandsOK' /\ BoundOK'
        /\ UNCHANGED req
    BY <1>3, Still DEF Stopped
  <2>2. DeploymentsOK'
    BY <1>1, <1>3 DEF Stopped, DeploymentsOK, Deployment
  <2>3. JobsOK'
    BY <1>1, <1>3 DEF Stopped, JobsOK
  <2>4. RequestsOK'
    BY <1>1, <2>1, QuietRequests
  <2> QED BY <2>1, <2>2, <2>3, <2>4, Together
<1>4. CASE StoppedRelease(q)
  <2>1. /\ Quiet /\ DeploymentsOK' /\ AccountsOK' /\ CommandsOK' /\ BoundOK'
        /\ UNCHANGED req
    BY <1>4, Still DEF StoppedRelease
  <2>2. SlotsOK'
    <3>1. CASE slot' = [slot EXCEPT ![dep[q].slot] = Free]
      BY <1>1, <3>1 DEF SlotsOK, SlotState, Free
    <3>2. CASE slot' = slot
      BY <3>2, Still
    <3> QED BY <1>4, <3>1, <3>2 DEF StoppedRelease
  <2>3. BindingsOK'
    <3>1. binding' \in [Accounts -> BindingState]
      BY <1>1, <1>2, <1>4 DEF StoppedRelease, BindingsOK, BindingState, NoBinding
    <3>2. \A b \in Accounts : binding'[b] = binding[b] \/ binding'[b] = NoBinding
      BY <1>1, <1>2, <1>4 DEF StoppedRelease, BindingsOK
    <3> QED BY <1>1, <3>1, <3>2, BindingsCleared
  <2>4. JobsOK'
    BY <1>1, <1>4 DEF StoppedRelease, JobsOK
  <2>5. RequestsOK'
    BY <1>1, <2>1, QuietRequests
  <2> QED BY <2>1, <2>2, <2>3, <2>4, <2>5, Together
<1> QED BY <1>3, <1>4

----------------------------------------------------------------------------
(* The jobs and the heartbeat.                                             *)

LEMMA TimeInv ==
    ASSUME IInv, Sweep \/ \E i \in Logins : Lapse(i)
    PROVE  IInv' /\ EndStep
<1>1. /\ SlotsOK /\ BindingsOK /\ ReservationsOK /\ RequestsOK /\ AccountsOK
  BY DEF IInv
<1>2. CASE Sweep
  <2>1. DeploymentsOK' /\ CommandsOK' /\ JobsOK' /\ BoundOK' /\ UNCHANGED req
    BY <1>2, Still DEF Sweep
  <2>2. SlotsOK' /\ BindingsOK' /\ Quiet /\ AccountsOK'
    BY <1>1, <1>2, ExpireEffect DEF Sweep
  <2>3. RequestsOK'
    BY <1>1, <2>1, <2>2, QuietRequests
  <2> QED BY <2>1, <2>2, <2>3, Together
<1>3. ASSUME NEW i \in Logins, Lapse(i)
      PROVE  IInv' /\ EndStep
  <2>1. /\ SlotsOK' /\ BindingsOK' /\ DeploymentsOK' /\ AccountsOK' /\ CommandsOK'
        /\ JobsOK' /\ BoundOK' /\ UNCHANGED req
    BY <1>3, Still DEF Lapse
  <2>2. /\ res' \in [Logins -> Reservation]
        /\ res'[i].status = res[i].status /\ res'[i].slot = res[i].slot
        /\ \A j \in Logins : j # i => res'[j] = res[j]
    <3>1. res[i] \in Reservation /\ res' = [res EXCEPT ![i] = [res[i] EXCEPT !.due = TRUE]]
      BY <1>1, <1>3 DEF Lapse, ReservationsOK
    <3> DEFINE x == [res[i] EXCEPT !.due = TRUE]
    <3>2. x \in Reservation /\ x.status = res[i].status /\ x.slot = res[i].slot
      BY <3>1 DEF Reservation
    <3>3. res' = [res EXCEPT ![i] = x]
      BY <3>1
    <3> HIDE DEF x
    <3> QED BY <1>1, <3>2, <3>3 DEF ReservationsOK
  <2>3. Quiet
    BY <1>1, <2>2 DEF Quiet, ReservationsOK, Kept, Ended
  <2>4. RequestsOK'
    BY <1>1, <2>1, <2>3, QuietRequests
  <2> QED BY <2>1, <2>3, <2>4, Together
<1> QED BY <1>2, <1>3

LEMMA SlotJobInv ==
    ASSUME IInv, NEW s \in Slots, Heartbeat(s) \/ ReadyRelease(s)
    PROVE  IInv' /\ EndStep
<1>1. /\ SlotsOK /\ BindingsOK /\ ReservationsOK /\ RequestsOK /\ DeploymentsOK /\ JobsOK
  BY DEF IInv
<1>2. CASE Heartbeat(s)
  <2>1. /\ BindingsOK' /\ Quiet /\ DeploymentsOK' /\ AccountsOK' /\ CommandsOK'
        /\ JobsOK' /\ BoundOK' /\ UNCHANGED req
    BY <1>2, Still DEF Heartbeat
  <2>2. SlotsOK'
    BY <1>1, <1>2 DEF Heartbeat, SlotsOK, SlotState, Free
  <2>3. RequestsOK'
    BY <1>1, <2>1, QuietRequests
  <2> QED BY <2>1, <2>2, <2>3, Together
<1>3. CASE ReadyRelease(s)
  <2>1. AccountsOK' /\ CommandsOK' /\ BoundOK' /\ UNCHANGED req
    BY <1>3, Still DEF ReadyRelease
  <2>2. SlotsOK'
    BY <1>1, <1>3 DEF ReadyRelease, SlotsOK, SlotState
  <2>3. JobsOK'
    BY <1>1, <1>3 DEF ReadyRelease, JobsOK
  <2>4. DeploymentsOK'
    <3>1. ASSUME NEW q \in Starts
          PROVE  /\ dep'[q] \in Deployment
                 /\ dep'[q].status = "active" => dep'[q].slot \in Slots
      <4>1. /\ dep[q] \in Deployment
            /\ dep[q].status = "active" => dep[q].slot \in Slots
        BY <1>1 DEF DeploymentsOK
      <4>2. dep'[q] = dep[q] \/ dep'[q] = [dep[q] EXCEPT !.status = "stopped"]
        BY <1>3 DEF ReadyRelease
      <4>3. CASE dep'[q] = [dep[q] EXCEPT !.status = "stopped"]
        BY <4>1, <4>3 DEF Deployment
      <4> QED BY <4>1, <4>2, <4>3
    <3>2. dep' = [q \in Starts |-> dep'[q]]
      BY <1>3 DEF ReadyRelease
    <3> QED BY <3>1, <3>2 DEF DeploymentsOK
  <2>5. BindingsOK'
    <3>1. binding' \in [Accounts -> BindingState]
      BY <1>1, <1>3 DEF ReadyRelease, BindingsOK, BindingState, NoBinding
    <3>2. \A b \in Accounts : binding'[b] = binding[b] \/ binding'[b] = NoBinding
      BY <1>3 DEF ReadyRelease
    <3> QED BY <1>1, <3>1, <3>2, BindingsCleared
  <2>6. Quiet
    <3>1. ASSUME NEW i \in Logins
          PROVE  /\ res'[i] \in Reservation /\ Kept(i)
                 /\ res'[i].status # "absent" => res'[i].slot \in Slots
      <4>1. /\ res[i] \in Reservation
            /\ res[i].status # "absent" => res[i].slot \in Slots
        BY <1>1 DEF ReservationsOK
      <4>2. CASE Open(i) /\ res[i].slot = s
        <5>1. res'[i] = [res[i] EXCEPT !.status = "released"]
          BY <1>3, <4>2 DEF ReadyRelease
        <5>2. res'[i] \in Reservation /\ res'[i].status = "released" /\ res'[i].slot = s
          BY <4>1, <4>2, <5>1 DEF Reservation
        <5>3. res[i].status \in {"pending", "dispatched", "verified"}
          BY <4>2 DEF Open, OpenReservation
        <5> QED BY <5>2, <5>3 DEF Kept, Ended
      <4>3. CASE ~(Open(i) /\ res[i].slot = s)
        <5>1. res'[i] = res[i]
          BY <1>3, <4>3 DEF ReadyRelease
        <5> QED BY <4>1, <5>1 DEF Kept
      <4> QED BY <4>2, <4>3
    <3>2. res' = [i \in Logins |-> res'[i]]
      BY <1>3 DEF ReadyRelease
    <3> QED BY <3>1, <3>2 DEF Quiet, ReservationsOK
  <2>7. RequestsOK'
    BY <1>1, <2>1, <2>6, QuietRequests
  <2> QED BY <2>1, <2>2, <2>3, <2>4, <2>5, <2>6, <2>7, Together
<1> QED BY <1>2, <1>3

LEMMA ReadyReadInv ==
    ASSUME IInv, ReadyRead
    PROVE  IInv' /\ EndStep
<1>1. /\ SlotsOK' /\ BindingsOK' /\ Quiet /\ DeploymentsOK' /\ AccountsOK' /\ CommandsOK'
      /\ UNCHANGED req
  BY Still DEF ReadyRead
<1>2. BoundOK'
  BY SpendType DEF ReadyRead, IInv
<1>3. JobsOK'
  BY DEF ReadyRead, JobsOK, IInv
<1>4. RequestsOK'
  BY <1>1, QuietRequests DEF IInv
<1> QED BY <1>1, <1>2, <1>3, <1>4, Together

LEMMA BindingJobInv ==
    ASSUME IInv,
           (\E a \in Accounts : ExpireSticky(a)) \/ (\E q \in Starts : ZeroRuntime(q))
    PROVE  IInv' /\ EndStep
<1>1. SlotsOK /\ BindingsOK /\ RequestsOK /\ DeploymentsOK
  BY DEF IInv
<1>2. ASSUME NEW a \in Accounts, ExpireSticky(a)
      PROVE  IInv' /\ EndStep
  <2>1. /\ SlotsOK' /\ Quiet /\ DeploymentsOK' /\ AccountsOK' /\ CommandsOK' /\ JobsOK'
        /\ BoundOK' /\ UNCHANGED req
    BY <1>2, Still DEF ExpireSticky
  <2>2. BindingsOK'
    <3>1. binding' = [binding EXCEPT ![a] = NoBinding]
      BY <1>2 DEF ExpireSticky
    <3>2. NoBinding \in BindingState
      BY DEF NoBinding, BindingState
    <3>3. /\ binding' \in [Accounts -> BindingState]
          /\ \A b \in Accounts : binding'[b] = binding[b] \/ binding'[b] = NoBinding
      BY <1>1, <3>1, <3>2 DEF BindingsOK
    <3> QED BY <1>1, <3>3, BindingsCleared
  <2>3. RequestsOK'
    BY <1>1, <2>1, QuietRequests
  <2> QED BY <2>1, <2>2, <2>3, Together
<1>3. ASSUME NEW q \in Starts, ZeroRuntime(q)
      PROVE  IInv' /\ EndStep
  <2> DEFINE a == Owner[q]
             s == dep[q].slot
  <2>1. a \in Accounts /\ s \in Slots
    BY <1>1, <1>3, RequestsAssumption DEF ZeroRuntime, Active, Starts, DeploymentsOK
  <2>2. /\ Quiet /\ AccountsOK' /\ CommandsOK' /\ JobsOK' /\ BoundOK' /\ UNCHANGED req
    BY <1>3, Still DEF ZeroRuntime
  <2>3. SlotsOK'
    BY <1>1, <1>3 DEF ZeroRuntime, SlotsOK, SlotState, Free
  <2>4. DeploymentsOK'
    BY <1>1, <1>3 DEF ZeroRuntime, DeploymentsOK, Deployment
  <2>5. BindingsOK'
    <3>1. [slot |-> s, state |-> "sticky"] \in BindingState
      BY <2>1 DEF BindingState
    <3>2. binding' = [binding EXCEPT ![a] = [slot |-> s, state |-> "sticky"]]
      BY <1>3 DEF ZeroRuntime
    <3>3. /\ binding' \in [Accounts -> BindingState]
          /\ binding'[a].slot = s /\ binding'[a].state = "sticky"
          /\ \A b \in Accounts : b # a => binding'[b] = binding[b]
      BY <1>1, <2>1, <3>1, <3>2 DEF BindingsOK
    <3>4. \A b \in Accounts \ {a} : binding[b].slot # s
      BY <1>3 DEF ZeroRuntime, Current
    <3> QED BY <1>1, <3>3, <3>4 DEF BindingsOK, OneCurrentPerSlot, Current
  <2>6. RequestsOK'
    BY <1>1, <2>2, QuietRequests
  <2> QED BY <2>2, <2>3, <2>4, <2>5, <2>6, Together
<1> QED BY <1>2, <1>3

----------------------------------------------------------------------------
(* The invariant.                                                          *)

LEMMA InvInit == Init => IInv
<1> SUFFICES ASSUME Init PROVE IInv
  OBVIOUS
<1>1. SlotsOK /\ DeploymentsOK /\ AccountsOK /\ CommandsOK /\ JobsOK /\ BoundOK
  BY DEF Init, SlotsOK, SlotState, DeploymentsOK, Deployment, AccountsOK, CommandsOK,
         JobsOK, BoundOK
<1>2. BindingsOK
  BY DEF Init, BindingsOK, BindingState, OneCurrentPerSlot, Current
<1>3. ReservationsOK
  BY DEF Init, ReservationsOK, Reservation
<1>4. RequestsOK
  <2>1. req \in [Requests -> RequestState]
    BY DEF Init, RequestState
  <2>2. ASSUME NEW r \in Requests
        PROVE  Consistent(r, req[r], res)
    <3>1. req[r].pc = "idle" /\ req[r].res = None
      BY DEF Init
    <3>2. Kind[r] = "login" => res[r].status = "absent"
      BY DEF Init, Logins
    <3> QED BY <3>1, <3>2 DEF Consistent, LoginSteps
  <2> QED BY <2>1, <2>2 DEF RequestsOK
<1> QED BY <1>1, <1>2, <1>3, <1>4 DEF IInv

LEMMA InvNext == IInv /\ Next => IInv' /\ EndStep
<1> SUFFICES ASSUME IInv, Next PROVE IInv' /\ EndStep
  OBVIOUS
<1>1. ASSUME NEW r \in Requests, RequestStep(r) \/ Crash(r)
      PROVE  IInv' /\ EndStep
  BY <1>1, LoginInv, PickInv, AllocateInv, StartAloneInv, StartAdmitInv, StartClaimInv,
     StartPrepareInv, StartCreateInv, StartUndoInv, DeleteInv DEF RequestStep
<1>2. CASE RunnerStep
  BY <1>2, LoginAnswerInv, StoppedInv DEF RunnerStep
<1>3. CASE JobStep
  BY <1>3, TimeInv, SlotJobInv, BindingJobInv DEF JobStep
<1>4. CASE \E i \in Logins : Lapse(i)
  BY <1>4, TimeInv
<1>5. CASE ReadyRead
  BY <1>5, ReadyReadInv
<1> QED BY <1>1, <1>2, <1>3, <1>4, <1>5 DEF Next

LEMMA InvStutter == IInv /\ UNCHANGED vars => IInv' /\ EndStep
<1> SUFFICES ASSUME IInv, UNCHANGED vars PROVE IInv' /\ EndStep
  OBVIOUS
<1>1. /\ SlotsOK' /\ BindingsOK' /\ Quiet /\ DeploymentsOK' /\ AccountsOK' /\ CommandsOK'
      /\ JobsOK' /\ BoundOK' /\ UNCHANGED req
  BY Still DEF vars, Untouched
<1>2. RequestsOK'
  BY <1>1, QuietRequests DEF IInv
<1> QED BY <1>1, <1>2, Together

\* Every reachable state satisfies the inductive invariant, whether an account's
\* requests overlap, a reservation lapses under a request, or neither.
THEOREM Invariance == Spec => []IInv
<1>1. IInv /\ [Next]_vars => IInv'
  BY InvNext, InvStutter
<1> QED BY InvInit, <1>1, PTL DEF Spec

\* What has been written has its type: no login command is sent without a slot and a
\* reservation, by request_account_login_slot.
THEOREM TypeCorrect == Spec => []TypeOK
<1>1. IInv => TypeOK
  BY DEF IInv, TypeOK, SlotsOK, BindingsOK, ReservationsOK, DeploymentsOK, RequestsOK,
         AccountsOK, CommandsOK, JobsOK, BoundOK
<1> QED BY <1>1, Invariance, PTL

\* Two accounts never have a current binding to one slot: neither allocate_slot_binding
\* nor the job that keeps a slot for a stopped bot meets the unique index.
THEOREM OneBindingPerSlot == Spec => []OneCurrentPerSlot
<1>1. IInv => OneCurrentPerSlot
  BY DEF IInv, BindingsOK
<1> QED BY <1>1, Invariance, PTL

\* A login reservation that has ended stays so, whatever result comes late or twice
\* (complete_login_reservation), and a claimed one only ends by being released.
THEOREM NoneComesBack == Spec => EndedStaysEnded
<1>1. IInv /\ [Next]_vars => EndStep
  BY InvNext, InvStutter
<1> QED BY <1>1, Invariance, PTL DEF Spec, EndedStaysEnded, EndStep
=============================================================================
