----------------------- MODULE BotTokenLicenseProofs -----------------------
(***************************************************************************)
(* What holds of BotTokenLicense for any tokens, claims, starts and locks, *)
(* proved.                                                                 *)
(***************************************************************************)
EXTENDS BotTokenLicense, FiniteSetTheorems, TLAPS

Pcs == {"idle", "locked", "start", "bind", "undo", "call", "stops", "lost", "done"}

----------------------------------------------------------------------------
(* Types.                                                                  *)

\* A request goes on to another statement.
LEMMA GotoType ==
    ASSUME req \in [Requests -> Request], NEW r \in Requests, NEW pc \in Pcs, Goto(r, pc)
    PROVE  req' \in [Requests -> Request]
<1>1. [req[r] EXCEPT !.pc = pc] \in Request
  <2>1. req[r] \in Request
    OBVIOUS
  <2> QED BY <2>1 DEF Request, Pcs
<1> QED BY <1>1 DEF Goto

LEMMA GotoEffect ==
    ASSUME req \in [Requests -> Request], NEW r \in Requests, NEW pc, Goto(r, pc)
    PROVE  /\ req'[r].pc = pc
           /\ \A q \in Requests : q # r => req'[q] = req[q]
  BY DEF Goto, Request

\* A lock that is left, and one that takes a stop from its list.
LEMMA LeaveEffect ==
    ASSUME req \in [Requests -> Request], NEW r \in Requests, NEW pc \in Pcs,
           req' = [req EXCEPT ![r].pc = pc, ![r].ents = {}]
    PROVE  /\ req' \in [Requests -> Request]
           /\ req'[r].pc = pc
           /\ \A q \in Requests : q # r => req'[q] = req[q]
<1> DEFINE next == [req[r] EXCEPT !.pc = pc, !.ents = {}]
<1>1. req' = [req EXCEPT ![r] = next]
  OBVIOUS
<1>2. req[r] \in Request
  OBVIOUS
<1>3. next \in Request /\ next.pc = pc
  BY <1>2 DEF Request, Pcs
<1> HIDE DEF next
<1> QED BY <1>1, <1>3

LEMMA TakeEffect ==
    ASSUME req \in [Requests -> Request], NEW r \in Requests, NEW c,
           req' = [req EXCEPT ![r].ents = @ \ {c}]
    PROVE  /\ req' \in [Requests -> Request]
           /\ req'[r].pc = req[r].pc
           /\ \A q \in Requests : q # r => req'[q] = req[q]
<1> DEFINE next == [req[r] EXCEPT !.ents = @ \ {c}]
<1>1. req' = [req EXCEPT ![r] = next]
  OBVIOUS
<1>2. req[r] \in Request
  OBVIOUS
<1>3. next \in Request /\ next.pc = req[r].pc
  BY <1>2 DEF Request
<1> HIDE DEF next
<1> QED BY <1>1, <1>3

\* A start has its deployment.
LEMMA BindEffect ==
    ASSUME req \in [Requests -> Request], NEW r \in Requests, NEW d \in Starts,
           req' = [req EXCEPT ![r].pc = "bind", ![r].dep = d]
    PROVE  /\ req' \in [Requests -> Request]
           /\ req'[r].pc = "bind" /\ req'[r].dep = d
           /\ \A q \in Requests : q # r => req'[q] = req[q]
<1> DEFINE next == [req[r] EXCEPT !.pc = "bind", !.dep = d]
<1>1. req' = [req EXCEPT ![r] = next]
  OBVIOUS
<1>2. req[r] \in Request
  OBVIOUS
<1>3. next \in Request /\ next.pc = "bind" /\ next.dep = d
  BY <1>2 DEF Request
<1> HIDE DEF next
<1> QED BY <1>1, <1>3

\* A stop, or half of it, of a deployment or of none.
LEMMA StopType ==
    ASSUME dep \in [Starts -> Deployment], NEW d, Stop(d)
    PROVE  dep' \in [Starts -> Deployment]
<1>1. CASE d \in Starts
  BY <1>1 DEF Stop, Deployment
<1>2. CASE d \notin Starts
  BY <1>2 DEF Stop, Deployment
<1> QED BY <1>1, <1>2

LEMMA HalfStopType ==
    ASSUME dep \in [Starts -> Deployment], NEW d, HalfStop(d)
    PROVE  dep' \in [Starts -> Deployment]
<1>1. CASE d \in Starts
  BY <1>1 DEF HalfStop, Deployment
<1>2. CASE d \notin Starts
  BY <1>2 DEF HalfStop, Deployment
<1> QED BY <1>1, <1>2

LEMMA FaultType ==
    ASSUME faults \in 0..MaxFaults, Fault
    PROVE  faults' \in 0..MaxFaults
  BY LicenceAssumption DEF Fault

LEMMA TokenType ==
    ASSUME TypeOK, NEW t \in Tokens, TokenStep(t)
    PROVE  TypeOK'
<1>1. CASE IssueToken(t)
  BY <1>1 DEF IssueToken, TypeOK
<1>2. CASE IssueSave(t)
  BY <1>2 DEF IssueSave, TypeOK
<1>3. CASE IssueFails(t)
  <2>1. faults' \in 0..MaxFaults
    BY <1>3, FaultType DEF IssueFails, TypeOK
  <2> QED BY <1>3, <2>1 DEF IssueFails, TypeOK
<1> QED BY <1>1, <1>2, <1>3 DEF TokenStep

LEMMA ClaimType ==
    ASSUME TypeOK, NEW c \in Claims, ClaimStep(c) \/ Lapse(c)
    PROVE  TypeOK'
<1>1. c \in Requests /\ TokenOf[c] \in Tokens
  BY LicenceAssumption DEF Requests
<1>2. CASE ClaimRead(c)
  <2>1. Goto(c, "locked") \/ Goto(c, "done")
    BY <1>2 DEF ClaimRead
  <2>2. req' \in [Requests -> Request]
    BY <1>1, <2>1, GotoType DEF TypeOK, Pcs
  <2> QED BY <1>2, <2>2 DEF ClaimRead, TypeOK
<1>3. CASE ClaimWrite(c)
  <2>1. req' \in [Requests -> Request]
    BY <1>1, <1>3, GotoType DEF ClaimWrite, TypeOK, Pcs
  <2>2. ent' \in [Claims -> Entitlement]
    BY <1>3 DEF ClaimWrite, Entitlement, TypeOK
  <2>3. tok' \in [Tokens -> {"absent", "issued", "redeemed", "revoked"}]
    BY <1>3 DEF ClaimWrite, TypeOK
  <2> QED BY <1>3, <2>1, <2>2, <2>3 DEF ClaimWrite, TypeOK
<1>4. CASE Lapse(c)
  <2>1. ent' \in [Claims -> Entitlement]
    <3>1. [ent[c] EXCEPT !.due = TRUE] \in Entitlement
      BY DEF Entitlement, TypeOK
    <3> QED BY <1>4, <3>1 DEF Lapse, TypeOK
  <2> QED BY <1>4, <2>1 DEF Lapse, TypeOK
<1> QED BY <1>2, <1>3, <1>4 DEF ClaimStep

LEMMA StartType ==
    ASSUME TypeOK, NEW s \in Starts, StartServe(s) \/ StartDies(s)
    PROVE  TypeOK'
<1>1. s \in Requests /\ EntOf[s] \in Claims
  BY LicenceAssumption DEF Requests
<1>2. req \in [Requests -> Request] /\ req[s].dep \in Starts \cup {None}
  BY <1>1 DEF TypeOK, Request
<1>3. CASE StartAssert(s)
  <2>1. Goto(s, "start") \/ Goto(s, "done")
    BY <1>3 DEF StartAssert
  <2>2. req' \in [Requests -> Request]
    BY <1>1, <1>2, <2>1, GotoType DEF Pcs
  <2> QED BY <1>3, <2>2 DEF StartAssert, TypeOK
<1>4. CASE StartDeploy(s)
  <2>1. CASE Occupied(UserOf[s])
    <3>1. req' \in [Requests -> Request] /\ UNCHANGED dep
      BY <1>1, <1>2, <1>4, <2>1, GotoType DEF StartDeploy, Pcs
    <3> QED BY <1>4, <3>1 DEF StartDeploy, TypeOK
  <2>2. CASE ~Occupied(UserOf[s])
    <3>0. req' = [req EXCEPT ![s].pc = "bind", ![s].dep = s]
      BY <1>4, <2>2 DEF StartDeploy
    <3>1. req' \in [Requests -> Request]
      BY <1>1, <1>2, <3>0, BindEffect
    <3>2. dep' \in [Starts -> Deployment]
      BY <1>4, <2>2 DEF StartDeploy, Deployment, TypeOK
    <3> QED BY <1>4, <3>1, <3>2 DEF StartDeploy, TypeOK
  <2> QED BY <2>1, <2>2
<1>5. CASE StartHot(s)
  <2>1. PICK d \in Starts : req' = [req EXCEPT ![s].pc = "bind", ![s].dep = d]
    BY <1>5 DEF StartHot, HotTargets
  <2>2. req' \in [Requests -> Request]
    BY <1>1, <1>2, <2>1, BindEffect
  <2> QED BY <1>5, <2>2 DEF StartHot, TypeOK
<1>6. CASE StartBind(s)
  <2>1. Goto(s, "done") \/ Goto(s, "undo")
    BY <1>6 DEF StartBind
  <2>2. req' \in [Requests -> Request]
    BY <1>1, <1>2, <2>1, GotoType DEF Pcs
  <2>3. ent' \in [Claims -> Entitlement]
    BY <1>1, <1>2, <1>6 DEF StartBind, Entitlement, TypeOK
  <2> QED BY <1>6, <2>2, <2>3 DEF StartBind, TypeOK
<1>7. CASE StartUndo(s)
  <2>1. req' \in [Requests -> Request] /\ dep' \in [Starts -> Deployment]
    BY <1>1, <1>2, <1>7, GotoType, StopType DEF StartUndo, TypeOK, Pcs
  <2> QED BY <1>7, <2>1 DEF StartUndo, TypeOK
<1>8. CASE StartDies(s)
  <2>1. req' \in [Requests -> Request] /\ faults' \in 0..MaxFaults
    BY <1>1, <1>2, <1>8, GotoType, FaultType DEF StartDies, TypeOK, Pcs
  <2> QED BY <1>8, <2>1 DEF StartDies, TypeOK
<1> QED BY <1>3, <1>4, <1>5, <1>6, <1>7, <1>8 DEF StartServe

LEMMA EventType ==
    ASSUME TypeOK, NEW d \in Starts, Event(d) \/ StartFails(d) \/ UserStop(d)
    PROVE  TypeOK'
<1>1. CASE StartedRead(d)
  <2>1. dep' \in [Starts -> Deployment]
    BY <1>1 DEF StartedRead, Deployment, TypeOK
  <2> QED BY <1>1, <2>1 DEF StartedRead, TypeOK
<1>2. CASE StartedWrite(d)
  <2>1. dep' \in [Starts -> Deployment]
    BY <1>2 DEF StartedWrite, Deployment, TypeOK
  <2> QED BY <1>2, <2>1 DEF StartedWrite, TypeOK
<1>3. CASE BotStopped(d)
  <2>1. dep' \in [Starts -> Deployment]
    BY <1>3 DEF BotStopped, Deployment, TypeOK
  <2> QED BY <1>3, <2>1 DEF BotStopped, TypeOK
<1>4. CASE StartFails(d)
  <2>1. dep' \in [Starts -> Deployment] /\ faults' \in 0..MaxFaults
    BY <1>4, FaultType DEF StartFails, Deployment, TypeOK
  <2> QED BY <1>4, <2>1 DEF StartFails, TypeOK
<1>5. CASE UserStop(d)
  <2>1. dep' \in [Starts -> Deployment]
    BY <1>5, StopType DEF UserStop, TypeOK
  <2> QED BY <1>5, <2>1 DEF UserStop, TypeOK
<1> QED BY <1>1, <1>2, <1>3, <1>4, <1>5 DEF Event

LEMMA LockType ==
    ASSUME TypeOK, NEW l \in Locks,
           LockRead(l) \/ LockServe(l) \/ LockStopRaises(l) \/ LockUnanswered(l)
    PROVE  TypeOK'
<1>1. l \in Requests /\ TokenOf[l] \in Tokens
  BY LicenceAssumption DEF Requests
<1>2. req \in [Requests -> Request] /\ req[l].ents \subseteq Claims
  BY <1>1 DEF TypeOK, Request
<1>3. CASE LockRead(l)
  <2>1. \/ Goto(l, "call") \/ Goto(l, "done")
    BY <1>3 DEF LockRead
  <2>2. req' \in [Requests -> Request]
    BY <1>1, <1>2, <2>1, GotoType DEF Pcs
  <2>3. local' \in [Tokens -> {"absent", "saving", "live", "revoked"}]
    BY <1>3 DEF LockRead, TypeOK
  <2> QED BY <1>3, <2>2, <2>3 DEF LockRead, TypeOK
<1>4. CASE RevokeToken(l)
  <2> DEFINE C == EntsOf(TokenOf[l])
  <2>1. req' = [req EXCEPT ![l].pc = "stops", ![l].ents = {c \in C : ent[c].dep # None}]
    BY <1>4 DEF RevokeToken
  <2>2. C \subseteq Claims
    BY DEF EntsOf
  <2>3. req' \in [Requests -> Request]
    <3> DEFINE new == [req[l] EXCEPT !.pc = "stops",
                                     !.ents = {c \in C : ent[c].dep # None}]
    <3>1. req' = [req EXCEPT ![l] = new]
      BY <1>1, <1>2, <2>1
    <3>2. req[l] \in Request /\ {c \in C : ent[c].dep # None} \subseteq Claims
      BY <1>1, <1>2, <2>2
    <3>3. new \in Request
      BY <3>2 DEF Request
    <3> HIDE DEF new
    <3> QED BY <1>2, <3>1, <3>3
  <2>4. ent' = Revoked(C)
    BY <1>4 DEF RevokeToken
  <2>5. ent' \in [Claims -> Entitlement]
    BY <2>4 DEF Revoked, Entitlement, TypeOK
  <2>6. tok' \in [Tokens -> {"absent", "issued", "redeemed", "revoked"}]
    BY <1>4 DEF RevokeToken, TypeOK
  <2> QED BY <1>4, <2>3, <2>5, <2>6 DEF RevokeToken, TypeOK
<1>5. CASE LockStop(l)
  <2>1. PICK c \in req[l].ents :
           /\ Stop(ent[c].dep)
           /\ ent' = [ent EXCEPT ![c].stop = dep[ent[c].dep].status # "stopped"]
           /\ req' = [req EXCEPT ![l].ents = @ \ {c}]
    BY <1>5 DEF LockStop
  <2>2. c \in Claims
    BY <1>2
  <2>3. dep' \in [Starts -> Deployment]
    BY <2>1, StopType DEF TypeOK
  <2>4. ent' \in [Claims -> Entitlement]
    <3> DEFINE b == dep[ent[c].dep].status # "stopped"
    <3>1. b \in BOOLEAN /\ ent' = [ent EXCEPT ![c].stop = b]
      BY <2>1
    <3> HIDE DEF b
    <3> QED BY <2>2, <3>1 DEF Entitlement, TypeOK
  <2>5. req' \in [Requests -> Request]
    BY <1>1, <1>2, <2>1, TakeEffect
  <2> QED BY <1>5, <2>3, <2>4, <2>5 DEF LockStop, TypeOK
<1>6. CASE LockReply(l)
  <2>1. req' \in [Requests -> Request]
    BY <1>1, <1>2, <1>6, GotoType DEF LockReply, Pcs
  <2>2. local' \in [Tokens -> {"absent", "saving", "live", "revoked"}]
    BY <1>1, <1>6 DEF LockReply, MarkLocal, TypeOK
  <2> QED BY <1>6, <2>1, <2>2 DEF LockReply, TypeOK
<1>7. CASE LockStopRaises(l)
  <2>1. PICK c \in req[l].ents :
           /\ UNCHANGED dep \/ HalfStop(ent[c].dep) \/ Stop(ent[c].dep)
           /\ req' = [req EXCEPT ![l].ents = @ \ {c}]
    BY <1>7 DEF LockStopRaises
  <2>2. dep' \in [Starts -> Deployment]
    BY <2>1, HalfStopType, StopType DEF TypeOK
  <2>3. req' \in [Requests -> Request]
    BY <1>1, <1>2, <2>1, TakeEffect
  <2>4. faults' \in 0..MaxFaults
    BY <1>7, FaultType DEF LockStopRaises, TypeOK
  <2> QED BY <1>7, <2>2, <2>3, <2>4 DEF LockStopRaises, TypeOK
<1>8. CASE LockUnanswered(l)
  <2>1. req' \in [Requests -> Request]
    <3>1. PICK pc \in {"lost", "idle"} : req' = [req EXCEPT ![l].pc = pc, ![l].ents = {}]
      BY <1>8 DEF LockUnanswered, NoReply
    <3> QED BY <1>1, <1>2, <3>1, LeaveEffect DEF Pcs
  <2>2. faults' \in 0..MaxFaults
    BY <1>8, FaultType DEF LockUnanswered, TypeOK
  <2> QED BY <1>8, <2>1, <2>2 DEF LockUnanswered, NoReply, TypeOK
<1> QED BY <1>3, <1>4, <1>5, <1>6, <1>7, <1>8 DEF LockServe

LEMMA ReconcilerType ==
    ASSUME TypeOK, Reconcile \/ RecStopRaises \/ RecDies
    PROVE  TypeOK'
<1>1. rec \in Round /\ rec.list \subseteq Claims
  BY DEF TypeOK, Round
<1>2. CASE RecExpire
  <2>1. ent' \in [Claims -> Entitlement]
    BY <1>2 DEF RecExpire, Entitlement, TypeOK
  <2>2. rec' \in Round
    BY <1>1, <1>2 DEF RecExpire, Round
  <2> QED BY <1>2, <2>1, <2>2 DEF RecExpire, TypeOK
<1>3. CASE RecList
  <2>1. rec' \in Round
    BY <1>1, <1>3 DEF RecList, Round
  <2> QED BY <1>3, <2>1 DEF RecList, TypeOK
<1>4. CASE RecStop
  <2>1. PICK c \in rec.list :
           /\ Stop(ent[c].dep)
           /\ rec' = IF dep[ent[c].dep].status = "stopped"
                     THEN [rec EXCEPT !.list = @ \ {c}]
                     ELSE [rec EXCEPT !.pc = "record", !.list = @ \ {c}, !.ent = c]
    BY <1>4 DEF RecStop
  <2>2. rec' \in Round
    BY <1>1, <2>1 DEF Round
  <2>3. dep' \in [Starts -> Deployment]
    BY <2>1, StopType DEF TypeOK
  <2> QED BY <1>4, <2>2, <2>3 DEF RecStop, TypeOK
<1>5. CASE RecRecord
  <2>1. rec' \in Round
    BY <1>1, <1>5 DEF RecRecord, Round
  <2>2. ent' \in [Claims -> Entitlement]
    <3>1. CASE rec.ent \in Claims
      <4> DEFINE new == [ent[rec.ent] EXCEPT !.stop = TRUE]
      <4>1. ent \in [Claims -> Entitlement] /\ ent' = [ent EXCEPT ![rec.ent] = new]
        BY <1>5, <3>1 DEF RecRecord, TypeOK
      <4>2. new \in Entitlement
        BY <3>1, <4>1 DEF Entitlement
      <4> HIDE DEF new
      <4> QED BY <4>1, <4>2
    <3>2. CASE rec.ent \notin Claims
      BY <1>5, <3>2 DEF RecRecord, TypeOK
    <3> QED BY <3>1, <3>2
  <2> QED BY <1>5, <2>1, <2>2 DEF RecRecord, TypeOK
<1>6. CASE RecRound
  <2>1. rec' \in Round
    BY <1>1, <1>6 DEF RecRound, Round
  <2> QED BY <1>6, <2>1 DEF RecRound, TypeOK
<1>7. CASE RecStopRaises
  <2>1. PICK c \in rec.list :
           /\ UNCHANGED dep \/ HalfStop(ent[c].dep) \/ Stop(ent[c].dep)
           /\ rec' = [rec EXCEPT !.list = @ \ {c}]
    BY <1>7 DEF RecStopRaises
  <2>2. rec' \in Round
    BY <1>1, <2>1 DEF Round
  <2>3. dep' \in [Starts -> Deployment] /\ faults' \in 0..MaxFaults
    BY <1>7, <2>1, HalfStopType, StopType, FaultType DEF RecStopRaises, TypeOK
  <2> QED BY <1>7, <2>2, <2>3 DEF RecStopRaises, TypeOK
<1>8. CASE RecDies
  <2>1. rec' \in Round /\ faults' \in 0..MaxFaults
    BY <1>8, FaultType DEF RecDies, Round, TypeOK
  <2> QED BY <1>8, <2>1 DEF RecDies, TypeOK
<1> QED BY <1>2, <1>3, <1>4, <1>5, <1>6, <1>7, <1>8 DEF Reconcile

LEMMA TypeInit == Init => TypeOK
<1> SUFFICES ASSUME Init PROVE TypeOK
  OBVIOUS
<1>1. ent \in [Claims -> Entitlement]
  BY DEF Init, Entitlement
<1>2. dep \in [Starts -> Deployment]
  BY DEF Init, Deployment
<1>3. req \in [Requests -> Request]
  BY DEF Init, Request
<1>4. rec \in Round
  BY DEF Init, Round
<1>5. 0 \in 0..MaxFaults
  BY LicenceAssumption
<1> QED BY <1>1, <1>2, <1>3, <1>4, <1>5 DEF Init, TypeOK

LEMMA TypeStep == TypeOK /\ [Next]_vars => TypeOK'
<1> SUFFICES ASSUME TypeOK, [Next]_vars PROVE TypeOK'
  OBVIOUS
<1>1. CASE UNCHANGED vars
  BY <1>1 DEF vars, TypeOK
<1>2. CASE Next
  <2>1. CASE \E t \in Tokens : TokenStep(t)
    BY <2>1, TokenType
  <2>2. CASE \E c \in Claims : ClaimStep(c) \/ Lapse(c)
    BY <2>2, ClaimType
  <2>3. CASE \E s \in Starts : StartServe(s) \/ StartDies(s)
    BY <2>3, StartType
  <2>4. CASE \E d \in Starts : Event(d) \/ StartFails(d) \/ UserStop(d)
    BY <2>4, EventType
  <2>5. CASE \E l \in Locks : \/ LockRead(l) \/ LockServe(l)
                             \/ LockStopRaises(l) \/ LockUnanswered(l)
    BY <2>5, LockType
  <2>6. CASE Reconcile \/ RecStopRaises \/ RecDies
    BY <2>6, ReconcilerType
  <2> QED BY <1>2, <2>1, <2>2, <2>3, <2>4, <2>5, <2>6 DEF Next
<1> QED BY <1>1, <1>2

\* Every variable keeps its values.
THEOREM TypeCorrect == Spec => []TypeOK
  BY TypeInit, TypeStep, PTL DEF Spec

----------------------------------------------------------------------------
(* Codes.                                                                  *)

\* A claim that holds the row lock of a code read it as issued, and holds it
\* alone; a lock that has been answered has changed the code.
HoldsIssued ==
    /\ \A c \in Claims : At(c, "locked") => tok[TokenOf[c]] = "issued"
    /\ \A c, e \in Claims :
          At(c, "locked") /\ At(e, "locked") /\ TokenOf[c] = TokenOf[e] => c = e

RevokedFirst == \A l \in Locks : At(l, "stops") => tok[TokenOf[l]] = "revoked"

CodeInv == HoldsIssued /\ RevokedFirst /\ RedeemedOnce /\ LockHolds /\ LockedIsLocked

IInv == TypeOK /\ CodeInv /\ ActiveLimit

\* A step that leaves both databases' codes alone, gives no entitlement and takes
\* no row lock.
Quiet ==
    /\ UNCHANGED <<tok, local>>
    /\ \A c \in Claims :
         /\ ent'[c].status = "absent" <=> ent[c].status = "absent"
         /\ ent'[c].status = "active" => ent[c].status = "active"
         /\ ent[c].due => ent'[c].due
    /\ \A r \in Requests :
         /\ req'[r].pc = "locked" => req[r].pc = "locked"
         /\ req'[r].pc = "stops" => req[r].pc = "stops"
    /\ \A l \in Grant : req[l].pc \in {"call", "lost"} => req'[l].pc \in {"call", "lost"}

LEMMA QuietCodes ==
    ASSUME CodeInv, Quiet
    PROVE  CodeInv'
<1>1. HoldsIssued'
  BY DEF CodeInv, HoldsIssued, Quiet, At, Requests
<1>2. RevokedFirst'
  BY DEF CodeInv, RevokedFirst, Quiet, At, Requests
<1>3. RedeemedOnce'
  BY DEF CodeInv, RedeemedOnce, Quiet
<1>4. LockHolds'
  BY DEF CodeInv, LockHolds, Quiet
<1>5. LockedIsLocked'
  BY DEF CodeInv, LockedIsLocked, Quiet
<1> QED BY <1>1, <1>2, <1>3, <1>4, <1>5 DEF CodeInv

\* Most steps are.
LEMMA QuietSteps ==
    ASSUME TypeOK,
           \/ \E c \in Claims : Lapse(c)
           \/ \E s \in Starts : \/ StartServe(s) \/ StartDies(s)
                              \/ Event(s) \/ StartFails(s) \/ UserStop(s)
           \/ \E l \in Locks : LockStop(l) \/ LockStopRaises(l) \/ LockUnanswered(l)
           \/ Reconcile \/ RecStopRaises \/ RecDies
    PROVE  Quiet
<1>0. /\ Grant \subseteq Requests
      /\ ent \in [Claims -> Entitlement] /\ req \in [Requests -> Request]
  BY LicenceAssumption DEF Requests, TypeOK
<1>1. ASSUME NEW c \in Claims, Lapse(c) PROVE Quiet
  BY <1>0, <1>1 DEF Lapse, Quiet, Entitlement
<1>2. ASSUME NEW s \in Starts, StartServe(s) \/ StartDies(s) PROVE Quiet
  <2>1. s \in Requests
    BY DEF Requests
  <2>2. UNCHANGED <<tok, local>>
    BY <1>2 DEF StartServe, StartAssert, StartDeploy, StartHot, StartBind, StartUndo,
                StartDies
  <2>3. \A c \in Claims : ent'[c].status = ent[c].status /\ ent'[c].due = ent[c].due
    <3>1. \/ UNCHANGED ent
          \/ \E c, d : ent' = [ent EXCEPT ![c].dep = d]
      BY <1>2 DEF StartServe, StartAssert, StartDeploy, StartHot, StartBind, StartUndo,
                  StartDies
    <3>2. ASSUME NEW c, NEW d, ent' = [ent EXCEPT ![c].dep = d]
          PROVE  \A e \in Claims : /\ ent'[e].status = ent[e].status
                                   /\ ent'[e].due = ent[e].due
      BY <1>0, <3>2 DEF Entitlement
    <3> QED BY <3>1, <3>2
  <2>4. /\ req[s].pc \in {"idle", "start", "bind", "undo"}
        /\ req'[s].pc \in {"start", "done", "bind", "undo"}
        /\ \A r \in Requests : r # s => req'[r] = req[r]
    <3>1. req[s].pc \in {"idle", "start", "bind", "undo"}
      BY <1>2 DEF StartServe, StartAssert, StartDeploy, StartHot, StartBind, StartUndo,
                  StartDies, At, Arrives
    <3>2. \/ \E pc \in {"start", "done", "undo"} : Goto(s, pc)
          \/ \E d \in Starts : req' = [req EXCEPT ![s].pc = "bind", ![s].dep = d]
      BY <1>2 DEF StartServe, StartAssert, StartDeploy, StartHot, HotTargets, StartBind,
                  StartUndo, StartDies
    <3>3. ASSUME NEW pc \in {"start", "done", "undo"}, Goto(s, pc)
          PROVE  /\ req'[s].pc = pc
                 /\ \A r \in Requests : r # s => req'[r] = req[r]
      BY <1>0, <2>1, <3>3, GotoEffect
    <3>4. ASSUME NEW d \in Starts, req' = [req EXCEPT ![s].pc = "bind", ![s].dep = d]
          PROVE  /\ req'[s].pc = "bind"
                 /\ \A r \in Requests : r # s => req'[r] = req[r]
      BY <1>0, <2>1, <3>4 DEF Request
    <3> QED BY <3>1, <3>2, <3>3, <3>4
  <2> QED BY <1>0, <2>1, <2>2, <2>3, <2>4 DEF Quiet
<1>3. ASSUME NEW d \in Starts, Event(d) \/ StartFails(d) \/ UserStop(d) PROVE Quiet
  <2>1. UNCHANGED <<tok, local, ent, req>>
    BY <1>3 DEF Event, StartedRead, StartedWrite, BotStopped, StartFails, UserStop
  <2> QED BY <2>1 DEF Quiet
<1>4. ASSUME NEW l \in Locks, LockStop(l) \/ LockStopRaises(l) \/ LockUnanswered(l)
      PROVE  Quiet
  <2>1. l \in Requests
    BY DEF Requests
  <2>2. UNCHANGED <<tok, local>>
    BY <1>4 DEF LockStop, LockStopRaises, LockUnanswered, NoReply
  <2>3. \A c \in Claims : ent'[c].status = ent[c].status /\ ent'[c].due = ent[c].due
    <3>1. CASE LockStop(l)
      <4>1. PICK c : ent' = [ent EXCEPT ![c].stop = dep[ent[c].dep].status # "stopped"]
        BY <3>1 DEF LockStop
      <4> QED BY <1>0, <4>1 DEF Entitlement
    <3>2. CASE UNCHANGED ent
      BY <3>2
    <3> QED BY <1>4, <3>1, <3>2 DEF LockStopRaises, LockUnanswered
  <2>4. /\ req'[l].pc = "stops" => req[l].pc = "stops"
        /\ req'[l].pc # "locked"
        /\ l \in Grant /\ req[l].pc \in {"call", "lost"} => req'[l].pc = "lost"
        /\ \A r \in Requests : r # l => req'[r] = req[r]
    <3>1. CASE LockStop(l) \/ LockStopRaises(l)
      <4>1. PICK c : req' = [req EXCEPT ![l].ents = @ \ {c}]
        BY <3>1 DEF LockStop, LockStopRaises
      <4>2. req[l].pc = "stops"
        BY <3>1 DEF LockStop, LockStopRaises, At
      <4>3. req'[l].pc = "stops" /\ \A r \in Requests : r # l => req'[r] = req[r]
        BY <1>0, <2>1, <4>1, <4>2, TakeEffect
      <4> QED BY <4>2, <4>3
    <3>2. CASE LockUnanswered(l)
      <4>1. req[l].pc \in {"call", "stops"} /\ NoReply(l)
        BY <3>2 DEF LockUnanswered, At
      <4> DEFINE pc == IF l \in Grant THEN "lost" ELSE "idle"
      <4>2. req' = [req EXCEPT ![l].pc = pc, ![l].ents = {}]
        BY <4>1 DEF NoReply
      <4>3. pc \in {"lost", "idle"} /\ (l \in Grant => pc = "lost")
        OBVIOUS
      <4> HIDE DEF pc
      <4>4. req'[l].pc = pc /\ \A r \in Requests : r # l => req'[r] = req[r]
        BY <1>0, <2>1, <4>2, <4>3, LeaveEffect DEF Pcs
      <4> QED BY <4>3, <4>4
    <3> QED BY <1>4, <3>1, <3>2
  <2> QED BY <1>0, <2>1, <2>2, <2>3, <2>4 DEF Quiet
<1>5. CASE Reconcile \/ RecStopRaises \/ RecDies
  <2>1. UNCHANGED <<tok, local, req>>
    BY <1>5 DEF Reconcile, RecExpire, RecList, RecStop, RecRecord, RecRound,
                RecStopRaises, RecDies
  <2>2. CASE RecExpire
    BY <1>0, <2>1, <2>2 DEF RecExpire, Quiet, Entitlement
  <2>3. CASE RecRecord
    BY <1>0, <2>1, <2>3 DEF RecRecord, Quiet, Entitlement
  <2>4. CASE UNCHANGED ent
    BY <2>1, <2>4 DEF Quiet
  <2> QED BY <1>5, <2>2, <2>3, <2>4 DEF Reconcile, RecList, RecStop, RecRound,
                                        RecStopRaises, RecDies
<1> QED BY <1>1, <1>2, <1>3, <1>4, <1>5

\* The others change a code, or a claim's hold on it.
LEMMA TokenCodes ==
    ASSUME TypeOK, CodeInv, NEW t \in Tokens, TokenStep(t)
    PROVE  CodeInv'
<1>1. CASE IssueToken(t)
  <2>1. /\ tok[t] = "absent" /\ UNCHANGED <<ent, req>>
        /\ tok' = [tok EXCEPT ![t] = "issued"]
        /\ local' = [local EXCEPT ![t] = "saving"]
    BY <1>1 DEF IssueToken
  <2>2. \A u \in Tokens : tok[u] # "absent" => tok'[u] = tok[u]
    BY <2>1 DEF TypeOK
  <2>3. \A u \in Tokens : local'[u] = "revoked" => local[u] = "revoked"
    BY <2>1 DEF TypeOK
  <2>4. \A x \in Claims \cup Locks : TokenOf[x] \in Tokens
    BY LicenceAssumption
  <2>5. HoldsIssued' /\ RevokedFirst'
    BY <2>1, <2>2, <2>4 DEF CodeInv, HoldsIssued, RevokedFirst, At
  <2>6. RedeemedOnce'
    BY <2>1, <2>2, <2>4 DEF CodeInv, RedeemedOnce
  <2>7. LockHolds'
    BY <2>1, <2>2, <2>4 DEF CodeInv, LockHolds, TypeOK
  <2>8. LockedIsLocked'
    BY <2>1, <2>2, <2>3 DEF CodeInv, LockedIsLocked
  <2> QED BY <2>5, <2>6, <2>7, <2>8 DEF CodeInv
<1>2. CASE IssueSave(t) \/ IssueFails(t)
  <2>1. /\ UNCHANGED <<tok, ent, req>>
        /\ \A u \in Tokens : local'[u] = "revoked" => local[u] = "revoked"
    BY <1>2 DEF IssueSave, IssueFails, TypeOK
  <2> QED BY <2>1 DEF CodeInv, HoldsIssued, RevokedFirst, RedeemedOnce, LockHolds,
                      LockedIsLocked, At
<1> QED BY <1>1, <1>2 DEF TokenStep

LEMMA ClaimCodes ==
    ASSUME TypeOK, CodeInv, NEW c \in Claims, ClaimStep(c)
    PROVE  CodeInv'
<1>0. /\ c \in Requests /\ TokenOf[c] \in Tokens /\ Grant \subseteq Requests
      /\ \A x \in Claims \cup Locks : TokenOf[x] \in Tokens
      /\ ent \in [Claims -> Entitlement] /\ req \in [Requests -> Request]
  BY LicenceAssumption DEF Requests, TypeOK
<1>1. CASE ClaimRead(c)
  <2>1. /\ UNCHANGED <<tok, local, ent>>
        /\ req[c].pc = "idle" /\ TokenFree(TokenOf[c])
        /\ \A r \in Requests : r # c => req'[r] = req[r]
        /\ req'[c].pc \in {"locked", "done"}
        /\ req'[c].pc = "locked" => tok[TokenOf[c]] = "issued"
    BY <1>0, <1>1 DEF ClaimRead, Goto, At, Arrives, Request
  <2>2. HoldsIssued'
    BY <2>1 DEF CodeInv, HoldsIssued, TokenFree, Locked, At, Requests
  <2>3. RevokedFirst'
    BY <2>1 DEF CodeInv, RevokedFirst, At, Requests
  <2>4. RedeemedOnce' /\ LockHolds'
    BY <2>1 DEF CodeInv, RedeemedOnce, LockHolds
  <2>5. LockedIsLocked'
    BY <1>0, <2>1 DEF CodeInv, LockedIsLocked
  <2> QED BY <2>2, <2>3, <2>4, <2>5 DEF CodeInv
<1>2. CASE ClaimWrite(c)
  <2>1. /\ UNCHANGED local
        /\ req[c].pc = "locked" /\ tok[TokenOf[c]] = "issued"
        /\ \A r \in Requests : r # c => req'[r] = req[r]
        /\ req'[c].pc = "done"
    BY <1>0, <1>2 DEF ClaimWrite, Goto, At, Request, CodeInv, HoldsIssued
  <2>2. CASE UNCHANGED <<tok, ent>>
    <3>1. HoldsIssued'
      BY <2>1, <2>2 DEF CodeInv, HoldsIssued, At, Requests
    <3>2. RevokedFirst'
      BY <2>1, <2>2 DEF CodeInv, RevokedFirst, At, Requests
    <3>3. RedeemedOnce' /\ LockHolds'
      BY <2>2 DEF CodeInv, RedeemedOnce, LockHolds
    <3>4. LockedIsLocked'
      BY <1>0, <2>1, <2>2 DEF CodeInv, LockedIsLocked
    <3> QED BY <3>1, <3>2, <3>3, <3>4 DEF CodeInv
  <2>3. CASE /\ tok' = [tok EXCEPT ![TokenOf[c]] = "redeemed"]
             /\ ent' = [ent EXCEPT ![c].status = "active"]
    <3>1. /\ tok'[TokenOf[c]] = "redeemed"
          /\ \A t \in Tokens : t # TokenOf[c] => tok'[t] = tok[t]
      BY <1>0, <2>3 DEF TypeOK
    <3>2. /\ ent'[c].status = "active"
          /\ \A e \in Claims : e # c => ent'[e] = ent[e]
      BY <1>0, <2>3 DEF Entitlement
    <3>3. HoldsIssued'
      BY <1>0, <2>1, <3>1 DEF CodeInv, HoldsIssued, At, Requests
    <3>4. RevokedFirst'
      BY <1>0, <2>1, <3>1 DEF CodeInv, RevokedFirst, At, Requests
    <3>5. RedeemedOnce'
      BY <1>0, <2>1, <3>1, <3>2 DEF CodeInv, RedeemedOnce
    <3>6. LockHolds'
      BY <1>0, <3>1, <3>2 DEF CodeInv, LockHolds
    <3>7. LockedIsLocked'
      BY <1>0, <2>1, <3>1 DEF CodeInv, LockedIsLocked
    <3> QED BY <3>3, <3>4, <3>5, <3>6, <3>7 DEF CodeInv
  <2> QED BY <1>2, <2>2, <2>3 DEF ClaimWrite
<1> QED BY <1>1, <1>2 DEF ClaimStep

LEMMA LockCodes ==
    ASSUME TypeOK, CodeInv, NEW l \in Locks,
           LockRead(l) \/ RevokeToken(l) \/ LockReply(l)
    PROVE  CodeInv'
<1>0. /\ l \in Requests /\ TokenOf[l] \in Tokens /\ Grant \subseteq Requests
      /\ \A x \in Claims \cup Locks : TokenOf[x] \in Tokens
      /\ ent \in [Claims -> Entitlement] /\ req \in [Requests -> Request]
  BY LicenceAssumption DEF Requests, TypeOK
<1>1. CASE LockRead(l)
  <2>1. /\ UNCHANGED <<tok, ent>>
        /\ req[l].pc = "idle"
        /\ \A r \in Requests : r # l => req'[r] = req[r]
        /\ req'[l].pc \in {"call", "done"}
        /\ \A t \in Tokens : local'[t] = "revoked" =>
              \/ local[t] = "revoked"
              \/ l \in Grant /\ t = TokenOf[l] /\ req'[l].pc = "call"
    <3>1. /\ UNCHANGED <<tok, ent>> /\ req[l].pc = "idle"
          /\ Goto(l, "call") \/ (Goto(l, "done") /\ UNCHANGED local)
      <4>1. CASE l \in Grant
        BY <1>1, <4>1 DEF LockRead, Arrives, At
      <4>2. CASE l \notin Grant
        BY <1>1, <4>2 DEF LockRead, Arrives, At
      <4> QED BY <4>1, <4>2
    <3>2. /\ req'[l].pc \in {"call", "done"}
          /\ \A r \in Requests : r # l => req'[r] = req[r]
          /\ req'[l].pc = "done" => UNCHANGED local
      BY <1>0, <3>1, GotoEffect
    <3>3. \/ UNCHANGED local
          \/ l \in Grant /\ local' = [local EXCEPT ![TokenOf[l]] = "revoked"]
      BY <1>1 DEF LockRead
    <3>4. \A t \in Tokens : local'[t] = "revoked" =>
              \/ local[t] = "revoked"
              \/ l \in Grant /\ t = TokenOf[l] /\ req'[l].pc = "call"
      BY <1>0, <3>2, <3>3 DEF TypeOK
    <3> QED BY <3>1, <3>2, <3>4
  <2>2. HoldsIssued' /\ RevokedFirst'
    BY <2>1 DEF CodeInv, HoldsIssued, RevokedFirst, At, Requests
  <2>3. RedeemedOnce' /\ LockHolds'
    BY <2>1 DEF CodeInv, RedeemedOnce, LockHolds
  <2>4. LockedIsLocked'
    BY <1>0, <2>1 DEF CodeInv, LockedIsLocked
  <2> QED BY <2>2, <2>3, <2>4 DEF CodeInv
<1>2. CASE RevokeToken(l)
  <2>1. /\ UNCHANGED local
        /\ TokenFree(TokenOf[l])
        /\ tok'[TokenOf[l]] = "revoked"
        /\ \A t \in Tokens : t # TokenOf[l] => tok'[t] = tok[t]
        /\ \A r \in Requests : r # l => req'[r] = req[r]
        /\ req'[l].pc = "stops"
    BY <1>0, <1>2 DEF RevokeToken, Request, TypeOK
  <2>2. ent' = Revoked(EntsOf(TokenOf[l]))
    BY <1>2 DEF RevokeToken
  <2>3. \A c \in Claims :
           /\ ent'[c].status = "absent" <=> ent[c].status = "absent"
           /\ ent'[c].status = "active" =>
                 ent[c].status = "active" /\ TokenOf[c] # TokenOf[l]
    <3> SUFFICES ASSUME NEW c \in Claims
                 PROVE  /\ ent'[c].status = "absent" <=> ent[c].status = "absent"
                        /\ ent'[c].status = "active" =>
                              ent[c].status = "active" /\ TokenOf[c] # TokenOf[l]
      OBVIOUS
    <3>1. CASE c \in EntsOf(TokenOf[l])
      <4>1. ent[c].status = "active"
        BY <3>1 DEF EntsOf
      <4>2. ent'[c] = [ent[c] EXCEPT !.status = "revoked"]
        BY <2>2, <3>1 DEF Revoked
      <4> QED BY <1>0, <4>1, <4>2 DEF Entitlement
    <3>2. CASE c \notin EntsOf(TokenOf[l])
      <4>1. ent'[c] = ent[c]
        BY <2>2, <3>2 DEF Revoked
      <4> QED BY <3>2, <4>1 DEF EntsOf
    <3> QED BY <3>1, <3>2
  <2>4. HoldsIssued'
    BY <1>0, <2>1 DEF CodeInv, HoldsIssued, TokenFree, Locked, At, Requests
  <2>5. RevokedFirst'
    BY <1>0, <2>1 DEF CodeInv, RevokedFirst, At, Requests
  <2>6. RedeemedOnce'
    BY <1>0, <2>1, <2>3 DEF CodeInv, RedeemedOnce
  <2>7. LockHolds'
    BY <1>0, <2>1, <2>3 DEF CodeInv, LockHolds
  <2>8. LockedIsLocked'
    BY <1>0, <2>1 DEF CodeInv, LockedIsLocked
  <2> QED BY <2>4, <2>5, <2>6, <2>7, <2>8 DEF CodeInv
<1>3. CASE LockReply(l)
  <2>1. /\ UNCHANGED <<tok, ent>>
        /\ req[l].pc = "stops"
        /\ \A r \in Requests : r # l => req'[r] = req[r]
        /\ req'[l].pc = "done"
        /\ \A t \in Tokens : local'[t] = "revoked" => local[t] = "revoked" \/ t = TokenOf[l]
    BY <1>0, <1>3 DEF LockReply, MarkLocal, Goto, At, Request, TypeOK
  <2>2. tok[TokenOf[l]] = "revoked"
    BY <2>1 DEF CodeInv, RevokedFirst, At
  <2>3. HoldsIssued' /\ RevokedFirst'
    BY <2>1 DEF CodeInv, HoldsIssued, RevokedFirst, At, Requests
  <2>4. RedeemedOnce' /\ LockHolds'
    BY <2>1 DEF CodeInv, RedeemedOnce, LockHolds
  <2>5. LockedIsLocked'
    BY <1>0, <2>1, <2>2 DEF CodeInv, LockedIsLocked
  <2> QED BY <2>3, <2>4, <2>5 DEF CodeInv
<1> QED BY <1>1, <1>2, <1>3

----------------------------------------------------------------------------
(* The partner's limit.                                                    *)

\* Where no entitlement comes into force the limit holds on.
LEMMA NoneInForce ==
    ASSUME ActiveLimit,
           \A c \in Claims : InForce(c)' => InForce(c)
    PROVE  ActiveLimit'
<1> DEFINE S == {c \in Claims : InForce(c)}
           T == {c \in Claims : InForce(c)'}
<1>1. T \subseteq S
  OBVIOUS
<1>2. IsFiniteSet(S)
  <2>1. S \subseteq Claims /\ IsFiniteSet(Claims)
    BY LicenceAssumption
  <2> HIDE DEF S
  <2> QED BY <2>1, FS_Subset
<1> HIDE DEF S, T
<1>3. /\ Cardinality(T) <= Cardinality(S)
      /\ Cardinality(T) \in Nat /\ Cardinality(S) \in Nat
  BY <1>1, <1>2, FS_Subset, FS_CardinalityType
<1>4. Cardinality(S) <= MaxActive
  BY DEF ActiveLimit, S
<1>5. Cardinality(T) <= MaxActive
  BY <1>3, <1>4, LicenceAssumption
<1> QED BY <1>5 DEF ActiveLimit, T

\* A claim brings one, and only below the limit.
LEMMA ClaimLimit ==
    ASSUME TypeOK, ActiveLimit, NEW c \in Claims, ClaimWrite(c), UnderLimit
    PROVE  ActiveLimit'
<1> DEFINE S == {e \in Claims : InForce(e)}
           T == {e \in Claims : InForce(e)'}
<1>1. T \subseteq S \cup {c}
  <2>1. ent' = [ent EXCEPT ![c].status = "active"]
    BY DEF ClaimWrite
  <2>2. \A e \in Claims : e # c => ent'[e] = ent[e]
    BY <2>1 DEF TypeOK
  <2> QED BY <2>2 DEF InForce
<1>2. IsFiniteSet(S)
  <2>1. S \subseteq Claims /\ IsFiniteSet(Claims)
    BY LicenceAssumption
  <2> HIDE DEF S
  <2> QED BY <2>1, FS_Subset
<1>3. Cardinality(S) < MaxActive
  BY DEF UnderLimit
<1> HIDE DEF S, T
<1>4. /\ IsFiniteSet(S \cup {c})
      /\ Cardinality(S \cup {c}) <= Cardinality(S) + 1
      /\ Cardinality(S) \in Nat
  <2>1. Cardinality(S) \in Nat
    BY <1>2, FS_CardinalityType
  <2>2. /\ IsFiniteSet(S \cup {c})
        /\ Cardinality(S \cup {c}) = IF c \in S THEN Cardinality(S) ELSE Cardinality(S) + 1
    BY <1>2, FS_AddElement
  <2> QED BY <2>1, <2>2
<1>5. /\ Cardinality(T) <= Cardinality(S \cup {c})
      /\ Cardinality(T) \in Nat /\ Cardinality(S \cup {c}) \in Nat
  BY <1>1, <1>4, FS_Subset, FS_CardinalityType
<1>6. Cardinality(T) <= MaxActive
  BY <1>3, <1>4, <1>5, LicenceAssumption
<1> QED BY <1>6 DEF ActiveLimit, T

----------------------------------------------------------------------------
(* The invariant, and what follows from it.                                *)

\* A step that changes no status and brings no time back leaves the limit alone.
LEMMA LimitStep ==
    ASSUME TypeOK, ActiveLimit, CodeInv, Next
    PROVE  ActiveLimit'
<1>1. CASE Quiet
  <2>1. \A c \in Claims : InForce(c)' => InForce(c)
    BY <1>1 DEF Quiet, InForce, TypeOK, Entitlement
  <2> QED BY <2>1, NoneInForce
<1>2. ASSUME NEW c \in Claims, ClaimWrite(c) PROVE ActiveLimit'
  <2>1. CASE UnderLimit
    BY <1>2, <2>1, ClaimLimit
  <2>2. CASE ~UnderLimit
    <3>1. \A e \in Claims : InForce(e)' => InForce(e)
      BY <1>2, <2>2 DEF ClaimWrite, InForce
    <3> QED BY <3>1, NoneInForce
  <2> QED BY <2>1, <2>2
<1>3. CASE UNCHANGED ent
  <2>1. \A c \in Claims : InForce(c)' => InForce(c)
    BY <1>3 DEF InForce
  <2> QED BY <2>1, NoneInForce
<1>4. ASSUME NEW l \in Locks, RevokeToken(l) PROVE ActiveLimit'
  <2>1. ent' = Revoked(EntsOf(TokenOf[l]))
    BY <1>4 DEF RevokeToken
  <2>2. \A c \in Claims : InForce(c)' => InForce(c)
    BY <2>1 DEF Revoked, EntsOf, InForce, TypeOK, Entitlement
  <2> QED BY <2>2, NoneInForce
<1>5. ASSUME NEW t \in Tokens, TokenStep(t) PROVE UNCHANGED ent
  BY <1>5 DEF TokenStep, IssueToken, IssueSave, IssueFails
<1>6. ASSUME NEW c \in Claims, ClaimRead(c) PROVE UNCHANGED ent
  BY <1>6 DEF ClaimRead
<1>7. ASSUME NEW l \in Locks, LockRead(l) \/ LockReply(l) PROVE UNCHANGED ent
  BY <1>7 DEF LockRead, LockReply
<1> QED BY <1>1, <1>2, <1>3, <1>4, <1>5, <1>6, <1>7, QuietSteps
        DEF Next, ClaimStep, LockServe

LEMMA InvStep == IInv /\ [Next]_vars => IInv'
<1> SUFFICES ASSUME IInv, [Next]_vars PROVE IInv'
  OBVIOUS
<1>1. TypeOK /\ CodeInv /\ ActiveLimit
  BY DEF IInv
<1>2. CASE UNCHANGED vars
  BY <1>1, <1>2 DEF vars, IInv, TypeOK, CodeInv, HoldsIssued, RevokedFirst, RedeemedOnce,
                    LockHolds, LockedIsLocked, ActiveLimit, InForce, At
<1>3. CASE Next
  <2>1. TypeOK'
    BY <1>1, <1>3, TypeStep
  <2>2. ActiveLimit'
    BY <1>1, <1>3, LimitStep
  <2>3. CodeInv'
    <3>1. CASE Quiet
      BY <1>1, <3>1, QuietCodes
    <3>2. CASE \E t \in Tokens : TokenStep(t)
      BY <1>1, <3>2, TokenCodes
    <3>3. CASE \E c \in Claims : ClaimStep(c)
      BY <1>1, <3>3, ClaimCodes
    <3>4. CASE \E l \in Locks : LockRead(l) \/ RevokeToken(l) \/ LockReply(l)
      BY <1>1, <3>4, LockCodes
    <3>5. CASE \/ \E c \in Claims : Lapse(c)
               \/ \E s \in Starts : \/ StartServe(s) \/ StartDies(s)
                                  \/ Event(s) \/ StartFails(s) \/ UserStop(s)
               \/ \E l \in Locks : LockStop(l) \/ LockStopRaises(l) \/ LockUnanswered(l)
               \/ Reconcile \/ RecStopRaises \/ RecDies
      BY <1>1, <3>1, <3>5, QuietSteps
    <3> QED BY <1>3, <3>2, <3>3, <3>4, <3>5 DEF Next, LockServe
  <2> QED BY <2>1, <2>2, <2>3 DEF IInv
<1> QED BY <1>2, <1>3

LEMMA InvInit == Init => IInv
<1> SUFFICES ASSUME Init PROVE IInv
  OBVIOUS
<1>1. /\ \A c \in Claims : ent[c].status = "absent"
      /\ \A r \in Requests : req[r].pc = "idle"
      /\ \A t \in Tokens : tok[t] = "absent" /\ local[t] = "absent"
  BY DEF Init
<1>2. CodeInv
  BY <1>1 DEF CodeInv, HoldsIssued, RevokedFirst, RedeemedOnce, LockHolds, LockedIsLocked,
              Requests, At
<1>3. ActiveLimit
  <2>1. {c \in Claims : InForce(c)} = {}
    BY <1>1 DEF InForce
  <2>2. Cardinality({}) = 0
    BY FS_EmptySet
  <2>3. 0 <= MaxActive
    BY LicenceAssumption
  <2> QED BY <2>1, <2>2, <2>3 DEF ActiveLimit
<1> QED BY <1>2, <1>3, TypeInit DEF IInv

\* The inductive invariant.
THEOREM Invariance == Spec => []IInv
  BY InvInit, InvStep, PTL DEF Spec

\* A code is used once, for any number of claims of it.
THEOREM OncePerCode == Spec => []RedeemedOnce
<1>1. IInv => RedeemedOnce
  BY DEF IInv, CodeInv
<1> QED BY <1>1, Invariance, PTL

\* A locked code gives no right.
THEOREM NoRightWhenLocked == Spec => []LockHolds
<1>1. IInv => LockHolds
  BY DEF IInv, CodeInv
<1> QED BY <1>1, Invariance, PTL

\* What the token bot shows as locked is locked.
THEOREM ShownIsLocked == Spec => []LockedIsLocked
<1>1. IInv => LockedIsLocked
  BY DEF IInv, CodeInv
<1> QED BY <1>1, Invariance, PTL

\* The partner's limit holds, for any limit and any number of claims at once.
THEOREM WithinLimit == Spec => []ActiveLimit
<1>1. IInv => ActiveLimit
  BY DEF IInv
<1> QED BY <1>1, Invariance, PTL

----------------------------------------------------------------------------
(* BotTokenLicense implements ActivationCodes.                             *)

\* What the requests still know when they write: a start about to bind has a
\* deployment of its own user, a lock under way a code that was issued.
Prepared ==
    /\ \A s \in Starts :
          At(s, "bind") => req[s].dep \in Starts /\ UserOf[req[s].dep] = UserOf[s]
    /\ \A l \in Locks : At(l, "call") => tok[TokenOf[l]] # "absent"
    /\ \A c \in Claims : ent[c].due => ent[c].status # "absent"

\* A step that prepares nothing and takes nothing back.
Calm ==
    /\ \A r \in Requests :
          /\ req'[r].pc = "bind" => req[r].pc = "bind" /\ req'[r].dep = req[r].dep
          /\ req'[r].pc = "call" => req[r].pc = "call"
    /\ \A t \in Tokens : tok[t] # "absent" => tok'[t] # "absent"
    /\ \A c \in Claims : ent[c].status # "absent" => ent'[c].status # "absent"
    /\ \A c \in Claims : ent'[c].due => ent[c].due \/ ent'[c].status # "absent"

LEMMA PreparedStays ==
    ASSUME Prepared, Calm
    PROVE  Prepared'
<1>1. \A x \in Claims \cup Locks : TokenOf[x] \in Tokens
  BY LicenceAssumption
<1>2. \A s \in Starts :
         At(s, "bind")' => req'[s].dep \in Starts /\ UserOf[req'[s].dep] = UserOf[s]
  BY DEF Prepared, Calm, At, Requests
<1>3. \A l \in Locks : At(l, "call")' => tok'[TokenOf[l]] # "absent"
  BY <1>1 DEF Prepared, Calm, At, Requests
<1>4. \A c \in Claims : ent'[c].due => ent'[c].status # "absent"
  BY DEF Prepared, Calm
<1> QED BY <1>2, <1>3, <1>4 DEF Prepared

\* A step the abstract specification does not see.
Unseen ==
    /\ UNCHANGED tok
    /\ \A c \in Claims : /\ ent'[c].status = ent[c].status /\ ent'[c].due = ent[c].due
                         /\ ent'[c].dep = ent[c].dep

LEMMA UnseenStutters ==
    ASSUME Unseen
    PROVE  UNCHANGED Licence!vars
<1>1. \A c \in Claims : Right(c)' = Right(c) /\ ent'[c].dep = ent[c].dep
  BY DEF Unseen, Right, InForce
<1> QED BY <1>1 DEF Unseen, Licence!vars

LEMMA SameCount == \A S : Licence!Cardinality(S) = Cardinality(S)
  BY DEF Licence!Cardinality, Cardinality

LEMMA RightValid == \A c \in Claims : Right(c) = "valid" <=> InForce(c)
  BY DEF Right, InForce

\* The reads of a request, and what goes on between request and reply.
LEMMA UnseenRequests ==
    ASSUME TypeOK, NEW s \in Starts,
           StartAssert(s) \/ StartUndo(s) \/ StartDies(s)
    PROVE  Calm /\ Unseen
<1>1. s \in Requests /\ req \in [Requests -> Request]
  BY DEF Requests, TypeOK
<1>2. UNCHANGED <<tok, ent>>
  BY DEF StartAssert, StartUndo, StartDies
<1>3. Goto(s, "start") \/ Goto(s, "done")
  BY DEF StartAssert, StartUndo, StartDies
<1>4. /\ req'[s].pc \in {"start", "done"}
      /\ \A r \in Requests : r # s => req'[r] = req[r]
  BY <1>1, <1>3, GotoEffect
<1> QED BY <1>2, <1>4 DEF Calm, Unseen

\* A start, which finds itself a deployment of its user.
LEMMA StartPrepares ==
    ASSUME TypeOK, Prepared, NEW s \in Starts, StartDeploy(s) \/ StartHot(s)
    PROVE  Prepared' /\ Unseen
<1>1. s \in Requests /\ req \in [Requests -> Request]
  BY DEF Requests, TypeOK
<1>2. UNCHANGED <<tok, ent>>
  BY DEF StartDeploy, StartHot
<1>3. \/ Goto(s, "done")
      \/ \E d \in Starts : /\ UserOf[d] = UserOf[s]
                           /\ req' = [req EXCEPT ![s].pc = "bind", ![s].dep = d]
  BY DEF StartDeploy, StartHot, HotTargets
<1>4. CASE Goto(s, "done")
  <2>1. req'[s].pc = "done" /\ \A r \in Requests : r # s => req'[r] = req[r]
    BY <1>1, <1>4, GotoEffect
  <2>2. Calm
    BY <1>2, <2>1 DEF Calm
  <2> QED BY <1>2, <2>2, PreparedStays DEF Unseen
<1>5. ASSUME NEW d \in Starts, UserOf[d] = UserOf[s],
             req' = [req EXCEPT ![s].pc = "bind", ![s].dep = d]
      PROVE  Prepared' /\ Unseen
  <2>1. /\ req'[s].pc = "bind" /\ req'[s].dep = d
        /\ \A r \in Requests : r # s => req'[r] = req[r]
    BY <1>1, <1>5, BindEffect
  <2>2. \A x \in Starts :
           At(x, "bind")' => req'[x].dep \in Starts /\ UserOf[req'[x].dep] = UserOf[x]
    <3> SUFFICES ASSUME NEW x \in Starts, req'[x].pc = "bind"
                 PROVE  req'[x].dep \in Starts /\ UserOf[req'[x].dep] = UserOf[x]
      BY DEF At
    <3>1. CASE x = s
      BY <1>5, <2>1, <3>1
    <3>2. CASE x # s
      BY <2>1, <3>2 DEF Prepared, At, Requests
    <3> QED BY <3>1, <3>2
  <2>3. \A l \in Locks : At(l, "call")' => tok'[TokenOf[l]] # "absent"
    BY <1>2, <2>1 DEF Prepared, At, Requests
  <2> QED BY <1>2, <2>2, <2>3 DEF Prepared, Unseen
<1> QED BY <1>3, <1>4, <1>5

\* A right is bound while it is valid, and once.
LEMMA BindAtOnce ==
    ASSUME TypeOK, Prepared, NEW s \in Starts, StartBind(s)
    PROVE  Calm /\ [Licence!Next]_(Licence!vars)
<1> DEFINE c == EntOf[s]
<1>1. /\ s \in Requests /\ req \in [Requests -> Request] /\ ent \in [Claims -> Entitlement]
      /\ c \in Claims /\ UserOf[c] = UserOf[s]
  BY LicenceAssumption DEF Requests, TypeOK
<1>2. PICK d \in Starts : d = req[s].dep /\ UserOf[d] = UserOf[c]
  BY <1>1 DEF StartBind, Prepared
<1>3. UNCHANGED tok /\ (Goto(s, "done") \/ Goto(s, "undo"))
  BY DEF StartBind
<1>4. /\ req'[s].pc \in {"done", "undo"}
      /\ \A r \in Requests : r # s => req'[r] = req[r]
  BY <1>1, <1>3, GotoEffect
<1>5. \/ UNCHANGED ent
      \/ InForce(c) /\ ent[c].dep \in {None, d} /\ ent' = [ent EXCEPT ![c].dep = d]
  BY <1>2 DEF StartBind, Bindable
<1>6. CASE UNCHANGED ent
  <2>1. Calm /\ Unseen
    BY <1>3, <1>4, <1>6 DEF Calm, Unseen
  <2> QED BY <2>1, UnseenStutters
<1>7. CASE InForce(c) /\ ent[c].dep \in {None, d} /\ ent' = [ent EXCEPT ![c].dep = d]
  <2>1. /\ ent'[c].status = ent[c].status /\ ent'[c].due = ent[c].due /\ ent'[c].dep = d
        /\ \A e \in Claims : e # c => ent'[e] = ent[e]
    BY <1>1, <1>7 DEF Entitlement
  <2>2. Calm
    BY <1>3, <1>4, <2>1 DEF Calm
  <2>3. CASE ent[c].dep = d
    <3>1. Unseen
      BY <1>3, <2>1, <2>3 DEF Unseen
    <3> QED BY <2>2, <3>1, UnseenStutters
  <2>4. CASE ent[c].dep = None
    <3>1. \A e \in Claims : Right(e)' = Right(e)
      BY <2>1 DEF Right, InForce
    <3>2. Right(c) = "valid"
      BY <1>7 DEF Right, InForce
    <3>3. [e \in Claims |-> ent[e].dep]' = [[e \in Claims |-> ent[e].dep] EXCEPT ![c] = d]
      BY <1>1, <2>1
    <3>4. Licence!Bind(c, d)
      BY <1>1, <1>2, <1>3, <2>4, <3>1, <3>2, <3>3 DEF Licence!Bind
    <3>5. Licence!Next
      BY <1>1, <1>2, <3>4 DEF Licence!Next
    <3> QED BY <2>2, <3>5
  <2> QED BY <1>7, <2>3, <2>4
<1> QED BY <1>5, <1>6, <1>7

\* A code is issued; the token bot's own row is not seen.
LEMMA TokenAtOnce ==
    ASSUME TypeOK, NEW t \in Tokens, TokenStep(t)
    PROVE  Calm /\ [Licence!Next]_(Licence!vars)
<1>1. UNCHANGED <<ent, req>>
  BY DEF TokenStep, IssueToken, IssueSave, IssueFails
<1>2. UNCHANGED tok \/ (tok[t] = "absent" /\ tok' = [tok EXCEPT ![t] = "issued"])
  BY DEF TokenStep, IssueToken, IssueSave, IssueFails
<1>3. CASE UNCHANGED tok
  <2>1. Calm /\ Unseen
    BY <1>1, <1>3 DEF Calm, Unseen
  <2> QED BY <2>1, UnseenStutters
<1>4. CASE tok[t] = "absent" /\ tok' = [tok EXCEPT ![t] = "issued"]
  <2>1. Calm
    BY <1>1, <1>4 DEF Calm, TypeOK
  <2>2. \A c \in Claims : Right(c)' = Right(c) /\ ent'[c].dep = ent[c].dep
    BY <1>1 DEF Right, InForce
  <2>3. Licence!Issue(t)
    BY <1>4, <2>2 DEF Licence!Issue
  <2>4. Licence!Next
    BY <2>3 DEF Licence!Next
  <2> QED BY <2>1, <2>4
<1> QED BY <1>2, <1>3, <1>4

\* A claim reads the code in one transaction step and uses it in another; the row
\* lock makes them one.
LEMMA ClaimAtOnce ==
    ASSUME TypeOK, CodeInv, Prepared, NEW c \in Claims, ClaimStep(c)
    PROVE  Calm /\ [Licence!Next]_(Licence!vars)
<1>1. /\ c \in Requests /\ TokenOf[c] \in Tokens
      /\ req \in [Requests -> Request] /\ ent \in [Claims -> Entitlement]
  BY LicenceAssumption DEF Requests, TypeOK
<1>2. Goto(c, "locked") \/ Goto(c, "done")
  BY DEF ClaimStep, ClaimRead, ClaimWrite
<1>3. /\ req'[c].pc \in {"locked", "done"}
      /\ \A r \in Requests : r # c => req'[r] = req[r]
  BY <1>1, <1>2, GotoEffect
<1>4. \/ UNCHANGED <<tok, ent>>
      \/ /\ At(c, "locked") /\ UnderLimit
         /\ tok' = [tok EXCEPT ![TokenOf[c]] = "redeemed"]
         /\ ent' = [ent EXCEPT ![c].status = "active"]
  BY DEF ClaimStep, ClaimRead, ClaimWrite
<1>5. CASE UNCHANGED <<tok, ent>>
  <2>1. Calm /\ Unseen
    BY <1>3, <1>5 DEF Calm, Unseen
  <2> QED BY <2>1, UnseenStutters
<1>6. CASE /\ At(c, "locked") /\ UnderLimit
           /\ tok' = [tok EXCEPT ![TokenOf[c]] = "redeemed"]
           /\ ent' = [ent EXCEPT ![c].status = "active"]
  <2>1. tok[TokenOf[c]] = "issued" /\ ent[c].status = "absent" /\ ~ent[c].due
    BY <1>6 DEF CodeInv, HoldsIssued, RedeemedOnce, Prepared
  <2>2. /\ ent'[c].status = "active" /\ ent'[c].due = ent[c].due
        /\ ent'[c].dep = ent[c].dep
        /\ \A e \in Claims : e # c => ent'[e] = ent[e]
    BY <1>1, <1>6 DEF Entitlement
  <2>3. Calm
    BY <1>3, <1>6, <2>2 DEF Calm, TypeOK
  <2>4. /\ Right(c) = "none" /\ Right(c)' = "valid"
        /\ \A e \in Claims : e # c => Right(e)' = Right(e)
    BY <2>1, <2>2 DEF Right, InForce
  <2>5. Licence!Valid = {e \in Claims : InForce(e)}
    BY RightValid DEF Licence!Valid
  <2>6. [e \in Claims |-> Right(e)]' = [[e \in Claims |-> Right(e)] EXCEPT ![c] = "valid"]
    BY <2>4
  <2>7. \A e \in Claims : ent'[e].dep = ent[e].dep
    BY <2>2
  <2>8. Licence!Redeem(c)
    BY <1>6, <2>1, <2>4, <2>5, <2>6, <2>7, SameCount DEF Licence!Redeem, UnderLimit
  <2>9. Licence!Next
    BY <2>8 DEF Licence!Next
  <2> QED BY <2>3, <2>9
<1> QED BY <1>4, <1>5, <1>6

\* The days of a right run out.
LEMMA LapseAtOnce ==
    ASSUME TypeOK, NEW c \in Claims, Lapse(c)
    PROVE  Calm /\ [Licence!Next]_(Licence!vars)
<1>1. ent \in [Claims -> Entitlement] /\ UNCHANGED <<tok, req>>
  BY DEF Lapse, TypeOK
<1>2. /\ ent'[c].status = ent[c].status /\ ent'[c].due /\ ent'[c].dep = ent[c].dep
      /\ \A e \in Claims : e # c => ent'[e] = ent[e]
  BY <1>1 DEF Lapse, Entitlement
<1>3. ent[c].status = "active" /\ ~ent[c].due
  BY DEF Lapse, InForce
<1>4. Calm
  BY <1>1, <1>2, <1>3 DEF Calm
<1>5. /\ Right(c) = "valid" /\ Right(c)' = "over"
      /\ \A e \in Claims : e # c => Right(e)' = Right(e)
  BY <1>2, <1>3 DEF Right, InForce
<1>6. [e \in Claims |-> Right(e)]' = [[e \in Claims |-> Right(e)] EXCEPT ![c] = "over"]
  BY <1>5
<1>7. \A e \in Claims : ent'[e].dep = ent[e].dep
  BY <1>2
<1>8. Licence!Lapse(c)
  BY <1>1, <1>5, <1>6, <1>7 DEF Licence!Lapse
<1>9. Licence!Next
  BY <1>8 DEF Licence!Next
<1> QED BY <1>4, <1>9

\* A lock ends the code and its right together.
LEMMA RevokeAtOnce ==
    ASSUME TypeOK, CodeInv, Prepared, NEW l \in Locks, RevokeToken(l)
    PROVE  Calm /\ [Licence!Next]_(Licence!vars)
<1> DEFINE t == TokenOf[l]
<1>1. /\ l \in Requests /\ t \in Tokens /\ tok[t] \in {"issued", "redeemed", "revoked"}
      /\ req \in [Requests -> Request] /\ ent \in [Claims -> Entitlement]
  <2>1. l \in Requests /\ t \in Tokens
    BY LicenceAssumption DEF Requests
  <2>2. tok[t] # "absent"
    BY DEF RevokeToken, Prepared
  <2> QED BY <2>1, <2>2 DEF TypeOK
<1>2. tok' = [tok EXCEPT ![t] = "revoked"] /\ ent' = Revoked(EntsOf(t))
  BY DEF RevokeToken
<1>3. /\ req'[l].pc = "stops"
      /\ \A r \in Requests : r # l => req'[r] = req[r]
  BY <1>1 DEF RevokeToken, Request
<1>4. \A c \in Claims :
         /\ ent'[c].due = ent[c].due /\ ent'[c].dep = ent[c].dep
         /\ ent'[c].status = IF TokenOf[c] = t /\ ent[c].status = "active" THEN "revoked"
                             ELSE ent[c].status
  <2> SUFFICES ASSUME NEW c \in Claims
               PROVE  /\ ent'[c].due = ent[c].due /\ ent'[c].dep = ent[c].dep
                      /\ ent'[c].status = IF TokenOf[c] = t /\ ent[c].status = "active"
                                          THEN "revoked" ELSE ent[c].status
    OBVIOUS
  <2>1. ent'[c] = IF c \in EntsOf(t) THEN [ent[c] EXCEPT !.status = "revoked"] ELSE ent[c]
    BY <1>2 DEF Revoked
  <2>2. c \in EntsOf(t) <=> TokenOf[c] = t /\ ent[c].status = "active"
    BY DEF EntsOf
  <2> QED BY <1>1, <2>1, <2>2 DEF Entitlement
<1>5. Calm
  BY <1>1, <1>2, <1>3, <1>4 DEF Calm, TypeOK
<1>6. \A c \in Claims :
         Right(c)' = IF Right(c) = "valid" /\ TokenOf[c] = t THEN "over" ELSE Right(c)
  BY <1>4 DEF Right, InForce
<1>7. CASE tok[t] = "revoked"
  <2>1. UNCHANGED tok
    BY <1>1, <1>2, <1>7 DEF TypeOK
  <2>2. \A c \in Claims : TokenOf[c] = t => ent[c].status # "active"
    BY <1>1, <1>7 DEF CodeInv, LockHolds
  <2>3. Unseen
    BY <1>4, <2>1, <2>2 DEF Unseen
  <2> QED BY <1>5, <2>3, UnseenStutters
<1>8. CASE tok[t] \in {"issued", "redeemed"}
  <2>1. Licence!Valid = {c \in Claims : Right(c) = "valid"}
    BY DEF Licence!Valid
  <2>2. [c \in Claims |-> Right(c)]' =
           [c \in Claims |-> IF c \in Licence!Valid /\ TokenOf[c] = t THEN "over"
                             ELSE [e \in Claims |-> Right(e)][c]]
    BY <1>6, <2>1
  <2>3. [c \in Claims |-> ent[c].dep]' = [c \in Claims |-> ent[c].dep]
    BY <1>4
  <2>4. Licence!Lock(t)
    BY <1>2, <1>8, <2>2, <2>3 DEF Licence!Lock
  <2>5. Licence!Next
    BY <1>1, <2>4 DEF Licence!Next
  <2> QED BY <1>5, <2>5
<1> QED BY <1>1, <1>7, <1>8

\* Runs of a bot, replies, stops and their records, and the reconciler's rounds: an
\* entitlement marked expired had none of its days left.
LEMMA UnseenEvents ==
    ASSUME NEW d \in Starts, Event(d) \/ StartFails(d) \/ UserStop(d)
    PROVE  Calm /\ Unseen
<1>1. UNCHANGED <<tok, ent, req>>
  BY DEF Event, StartedRead, StartedWrite, BotStopped, StartFails, UserStop
<1> QED BY <1>1 DEF Calm, Unseen

LEMMA UnseenLocks ==
    ASSUME TypeOK, NEW l \in Locks,
           LockStop(l) \/ LockReply(l) \/ LockStopRaises(l) \/ LockUnanswered(l)
    PROVE  Calm /\ Unseen
<1>1. /\ l \in Requests /\ req \in [Requests -> Request] /\ req[l] \in Request
      /\ ent \in [Claims -> Entitlement]
  BY DEF Requests, TypeOK
<1>2. UNCHANGED tok
  BY DEF LockStop, LockReply, LockStopRaises, LockUnanswered
<1>3. \A c \in Claims : /\ ent'[c].status = ent[c].status /\ ent'[c].due = ent[c].due
                        /\ ent'[c].dep = ent[c].dep
  <2>1. CASE LockStop(l)
    <3>1. PICK e : ent' = [ent EXCEPT ![e].stop = dep[ent[e].dep].status # "stopped"]
      BY <2>1 DEF LockStop
    <3> QED BY <1>1, <3>1 DEF Entitlement
  <2>2. CASE UNCHANGED ent
    BY <2>2
  <2> QED BY <2>1, <2>2 DEF LockReply, LockStopRaises, LockUnanswered
<1>4. /\ req'[l].pc \in {"stops", "done", "lost", "idle"}
      /\ \A r \in Requests : r # l => req'[r] = req[r]
  <2>1. CASE LockStop(l) \/ LockStopRaises(l)
    <3>1. PICK e : req' = [req EXCEPT ![l].ents = @ \ {e}]
      BY <2>1 DEF LockStop, LockStopRaises
    <3>2. req[l].pc = "stops"
      BY <2>1 DEF LockStop, LockStopRaises, At
    <3> QED BY <1>1, <3>1, <3>2, TakeEffect
  <2>2. CASE LockReply(l)
    <3>1. Goto(l, "done")
      BY <2>2 DEF LockReply
    <3> QED BY <1>1, <3>1, GotoEffect
  <2>3. CASE LockUnanswered(l)
    <3>1. PICK pc \in {"lost", "idle"} :
             req' = [req EXCEPT ![l].pc = pc, ![l].ents = {}]
      BY <2>3 DEF LockUnanswered, NoReply
    <3> QED BY <1>1, <3>1, LeaveEffect DEF Pcs
  <2> QED BY <2>1, <2>2, <2>3
<1> QED BY <1>2, <1>3, <1>4 DEF Calm, Unseen

LEMMA ReconcilerAtOnce ==
    ASSUME TypeOK, Reconcile \/ RecStopRaises \/ RecDies
    PROVE  Calm /\ UNCHANGED Licence!vars
<1>0. ent \in [Claims -> Entitlement]
  BY DEF TypeOK
<1>1. UNCHANGED <<tok, req>>
  BY DEF Reconcile, RecExpire, RecList, RecStop, RecRecord, RecRound, RecStopRaises, RecDies
<1>2. CASE RecExpire
  <2>1. \A c \in Claims :
           /\ ent'[c].due = ent[c].due /\ ent'[c].dep = ent[c].dep
           /\ ent'[c].status = IF ent[c].status = "active" /\ ent[c].due THEN "expired"
                               ELSE ent[c].status
    <3> SUFFICES ASSUME NEW c \in Claims
                 PROVE  /\ ent'[c].due = ent[c].due /\ ent'[c].dep = ent[c].dep
                        /\ ent'[c].status = IF ent[c].status = "active" /\ ent[c].due
                                            THEN "expired" ELSE ent[c].status
      OBVIOUS
    <3>1. ent'[c] = IF ent[c].status = "active" /\ ent[c].due
                    THEN [ent[c] EXCEPT !.status = "expired"] ELSE ent[c]
      BY <1>2 DEF RecExpire
    <3> QED BY <1>0, <3>1 DEF Entitlement
  <2>2. Calm
    BY <1>1, <2>1 DEF Calm
  <2>3. \A c \in Claims : Right(c)' = Right(c)
    BY <2>1 DEF Right, InForce
  <2> QED BY <1>1, <2>1, <2>2, <2>3 DEF Licence!vars
<1>3. CASE RecRecord
  <2>1. ent' = [ent EXCEPT ![rec.ent].stop = TRUE]
    BY <1>3 DEF RecRecord
  <2>2. \A c \in Claims : /\ ent'[c].status = ent[c].status /\ ent'[c].due = ent[c].due
                          /\ ent'[c].dep = ent[c].dep
    BY <1>0, <2>1 DEF Entitlement
  <2>3. Calm /\ Unseen
    BY <1>1, <2>2 DEF Calm, Unseen
  <2> QED BY <2>3, UnseenStutters
<1>4. CASE UNCHANGED ent
  <2>1. Calm /\ Unseen
    BY <1>1, <1>4 DEF Calm, Unseen
  <2> QED BY <2>1, UnseenStutters
<1> QED BY <1>2, <1>3, <1>4 DEF Reconcile, RecList, RecStop, RecRound, RecStopRaises, RecDies

\* A lock finds the code that was issued.
LEMMA LockPrepares ==
    ASSUME TypeOK, Prepared, NEW l \in Locks, LockRead(l)
    PROVE  Prepared' /\ Unseen
<1>1. /\ l \in Requests /\ req \in [Requests -> Request]
      /\ \A x \in Claims \cup Locks : TokenOf[x] \in Tokens
  BY LicenceAssumption DEF Requests, TypeOK
<1>2. UNCHANGED <<tok, ent>> /\ tok[TokenOf[l]] # "absent"
  BY DEF LockRead
<1>3. Goto(l, "call") \/ Goto(l, "done")
  BY DEF LockRead
<1>4. /\ req'[l].pc \in {"call", "done"}
      /\ \A r \in Requests : r # l => req'[r] = req[r]
  BY <1>1, <1>3, GotoEffect
<1> QED BY <1>2, <1>4 DEF Prepared, At, Unseen, Requests

\* The whole step.
LEMMA AtOnceStep ==
    ASSUME TypeOK, CodeInv, Prepared, [Next]_vars
    PROVE  Prepared' /\ [Licence!Next]_(Licence!vars)
<1>1. CASE UNCHANGED vars
  <2>1. Calm /\ Unseen
    BY <1>1 DEF vars, Calm, Unseen
  <2> QED BY <2>1, PreparedStays, UnseenStutters
<1>2. ASSUME NEW t \in Tokens, TokenStep(t)
      PROVE  Prepared' /\ [Licence!Next]_(Licence!vars)
  BY <1>2, TokenAtOnce, PreparedStays
<1>3. ASSUME NEW c \in Claims, ClaimStep(c) \/ Lapse(c)
      PROVE  Prepared' /\ [Licence!Next]_(Licence!vars)
  BY <1>3, ClaimAtOnce, LapseAtOnce, PreparedStays
<1>4. ASSUME NEW s \in Starts, StartServe(s) \/ StartDies(s)
      PROVE  Prepared' /\ [Licence!Next]_(Licence!vars)
  <2>1. CASE StartAssert(s) \/ StartUndo(s) \/ StartDies(s)
    BY <2>1, UnseenRequests, PreparedStays, UnseenStutters
  <2>2. CASE StartDeploy(s) \/ StartHot(s)
    BY <2>2, StartPrepares, UnseenStutters
  <2>3. CASE StartBind(s)
    BY <2>3, BindAtOnce, PreparedStays
  <2> QED BY <1>4, <2>1, <2>2, <2>3 DEF StartServe
<1>5. ASSUME NEW s \in Starts, Event(s) \/ StartFails(s) \/ UserStop(s)
      PROVE  Prepared' /\ [Licence!Next]_(Licence!vars)
  BY <1>5, UnseenEvents, PreparedStays, UnseenStutters
<1>6. ASSUME NEW l \in Locks,
             LockRead(l) \/ LockServe(l) \/ LockStopRaises(l) \/ LockUnanswered(l)
      PROVE  Prepared' /\ [Licence!Next]_(Licence!vars)
  <2>1. CASE LockRead(l)
    BY <2>1, LockPrepares, UnseenStutters
  <2>2. CASE RevokeToken(l)
    BY <2>2, RevokeAtOnce, PreparedStays
  <2>3. CASE LockStop(l) \/ LockReply(l) \/ LockStopRaises(l) \/ LockUnanswered(l)
    BY <2>3, UnseenLocks, PreparedStays, UnseenStutters
  <2> QED BY <1>6, <2>1, <2>2, <2>3 DEF LockServe
<1>7. CASE Reconcile \/ RecStopRaises \/ RecDies
  BY <1>7, ReconcilerAtOnce, PreparedStays
<1> QED BY <1>1, <1>2, <1>3, <1>4, <1>5, <1>6, <1>7 DEF Next

\* Whatever goes on between the steps of a claim, a lock or a start, the codes, the
\* rights and their bots change as if each had happened at once; with it, a locked
\* code stays locked and a right that is over does not come back.
THEOREM AtOnce == Spec => AsAtOnce
<1>1. Init => Prepared /\ Licence!Init
  <2> SUFFICES ASSUME Init PROVE Prepared /\ Licence!Init
    OBVIOUS
  <2>1. Prepared
    BY DEF Init, Prepared, At, Requests
  <2>2. \A c \in Claims : ent[c].status = "absent" /\ ent[c].dep = None
    BY DEF Init
  <2>3. \A c \in Claims : Right(c) = "none"
    BY <2>2 DEF Right, InForce
  <2> QED BY <2>1, <2>2, <2>3 DEF Init, Licence!Init
<1>2. IInv /\ Prepared /\ [Next]_vars => Prepared' /\ [Licence!Next]_(Licence!vars)
  BY AtOnceStep DEF IInv
<1> QED BY <1>1, <1>2, Invariance, PTL DEF Spec, AsAtOnce, Licence!Spec

=============================================================================
