--------------------------- MODULE PartnerBilling ---------------------------
(***************************************************************************)
(* What a partner owes for the codes its customers activated, and how it   *)
(* pays: the billing of the licence token bot, for one partner.            *)
(*                                                                         *)
(*   today    the date, in the billing time zone                           *)
(*   act      the day each code was activated, as the backend reports it   *)
(*   seat     for whom: a customer with a bot                              *)
(*   stopped  the day each code was locked or its bot stopped              *)
(*   anchor   partners.billing_anchor_at, the first day of the first cycle *)
(*   proofs   partner_payment_proofs, in the order of their ids            *)
(*   audit    partner_billing_snapshots, one row per confirmed proof       *)
(*   chat     the amount of the bill a member was asked to photograph:     *)
(*            user_data, in the memory of the bot                          *)
(*   job      the confirmation the bot is handling                         *)
(*                                                                         *)
(* Days are counted from 1, 0 is no day.  The code compares the beginnings *)
(* of days in one time zone without daylight saving, which is what a day   *)
(* number keeps of a time.  Nothing is stored but the proofs: what is due  *)
(* is computed again from the backend's report on every look at it.        *)
(*                                                                         *)
(* The bot handles one update at a time, so its handlers never overlap;    *)
(* the clock, the backend and the weekly notice go on between the steps of *)
(* a confirmation.  A snapshot is one step.  The report holds every code   *)
(* of the partner (the code asks for 5000).  Of a row of audit, what was   *)
(* paid before and what is paid now are kept, of the job what it carries   *)
(* from the snapshot to the transaction.                                   *)
(***************************************************************************)
EXTENDS FiniteSetsExt, Integers, Sequences

CONSTANTS
    Codes,      \* the activation codes of the partner
    Seats,      \* a customer with a bot: what support is charged for
    Members,    \* members of the partner who may pay: owner, accountant
    None,       \* no seat
    DaysOf,     \* the duration_days of each code
    CycleDays,  \* partner_billing_cycle_days
    BlockSize,  \* partner_support_block_size
    UserFee,    \* partner_user_fee_usd
    BlockFee,   \* partner_support_fee_usd + partner_infra_fee_usd
    MaxDay,     \* bound: the last day
    MaxStops,   \* bound: codes stopped
    MaxProofs   \* bound: payment proofs

ASSUME BillingAssumption ==
    /\ IsFiniteSet(Codes)
    /\ None \notin Seats
    /\ DaysOf \in [Codes -> Nat \ {0}]
    /\ CycleDays \in Nat \ {0} /\ BlockSize \in Nat \ {0}
    /\ UserFee \in Nat /\ BlockFee \in Nat
    /\ MaxDay \in Nat \ {0} /\ MaxStops \in Nat /\ MaxProofs \in Nat

VARIABLES today, act, seat, stopped, anchor, proofs, audit, chat, job

backend == <<today, act, seat, stopped>>
vars == <<today, act, seat, stopped, anchor, proofs, audit, chat, job>>

Idle == [proof |-> 0, paid |-> 0]

Init ==
    /\ today = 1
    /\ act = [c \in Codes |-> 0]
    /\ seat = [c \in Codes |-> None]
    /\ stopped = [c \in Codes |-> 0]
    /\ anchor = 0
    /\ proofs = <<>>
    /\ audit = <<>>
    /\ chat = [m \in Members |-> 0]
    /\ job = Idle

-----------------------------------------------------------------------------
(* The snapshot: what the cycles up to now cost, and what is left to pay.  *)

Activated == {c \in Codes : act[c] # 0}

\* The first day of the first cycle: the stored one, else that of the first
\* activation.
Anchor ==
    IF anchor # 0 THEN anchor
    ELSE IF Activated = {} THEN today
    ELSE Min({act[c] : c \in Activated})

\* A mutant of SupportEnd: a stopped code is not charged at all.
SupportEndVoid(c) == IF stopped[c] # 0 THEN act[c] ELSE act[c] + DaysOf[c]

\* The day the code stops to count: its natural end, or the stop before it.
SupportEnd(c) ==
    LET natural == act[c] + DaysOf[c]
    IN IF stopped[c] # 0 /\ stopped[c] < natural THEN stopped[c] ELSE natural

CycleIndex(first, day) == (IF day > first THEN day - first ELSE 0) \div CycleDays
Current == CycleIndex(Anchor, today)

\* The codes whose activation is charged in cycle i.
FeeCodes(i) ==
    LET first == Anchor
    IN {c \in Activated : CycleIndex(first, act[c]) = i}

Overlaps(c, from, to) == act[c] < to /\ SupportEnd(c) > from

\* The codes whose support is charged in cycle i.
Supported(i) ==
    LET first == Anchor
        from == first + i * CycleDays IN
    {c \in Activated :
        LET end == SupportEnd(c) IN
        /\ end > act[c] /\ end > first
        /\ i >= CycleIndex(first, act[c])
        /\ i =< CycleIndex(first, today) /\ i =< CycleIndex(first, end - 1)
        /\ Overlaps(c, from, from + CycleDays)}

\* A mutant of BilledSeats: support is charged with the activation, once.
BilledSeatsOnce(i) ==
    {seat[c] : c \in Supported(i) \cap FeeCodes(i)}

BilledSeats(i) == {seat[c] : c \in Supported(i)}

Blocks(n) == (n + BlockSize - 1) \div BlockSize

Charge(i) ==
    UserFee * Cardinality(FeeCodes(i))
        + BlockFee * Blocks(Cardinality(BilledSeats(i)))

\* A mutant of Accrued: the debt of the earlier cycles is dropped.
AccruedCurrent == Charge(Current)

Accrued ==
    LET charge(i) == Charge(i)
    IN MapThenSumSet(charge, 0 .. Current)

\* A mutant of Counted: a bill counts as soon as it is sent.
CountedWhenSent(p) == proofs[p].status \in {"submitted", "confirmed"}

\* The proofs that count as payments.
Counted(p) == proofs[p].status = "confirmed"

Paid ==
    LET amount(p) == proofs[p].amount
    IN MapThenSumSet(amount, {p \in DOMAIN proofs : Counted(p)})

Due == Max({0, Accrued - Paid})

\* A snapshot fixes the first day of the first cycle once a code is activated.
KeepAnchor ==
    anchor' = IF Activated = {} THEN anchor ELSE Anchor

Submitted(p) == proofs[p].status = "submitted"

-----------------------------------------------------------------------------
(* The clock, the backend, and what only looks at the debt: the pages that *)
(* show it, and the weekly notice in a task of its own.                    *)

NextDay ==
    /\ today < MaxDay
    /\ today' = today + 1
    /\ UNCHANGED <<act, seat, stopped, anchor, proofs, audit, chat, job>>

Activate(c, s) ==
    /\ act[c] = 0
    /\ act' = [act EXCEPT ![c] = today]
    /\ seat' = [seat EXCEPT ![c] = s]
    /\ UNCHANGED <<today, stopped, anchor, proofs, audit, chat, job>>

Stop(c) ==
    /\ act[c] # 0 /\ stopped[c] = 0
    /\ Cardinality({d \in Codes : stopped[d] # 0}) < MaxStops
    /\ stopped' = [stopped EXCEPT ![c] = today]
    /\ UNCHANGED <<today, act, seat, anchor, proofs, audit, chat, job>>

Look ==
    /\ KeepAnchor
    /\ UNCHANGED <<backend, proofs, audit, chat, job>>

-----------------------------------------------------------------------------
(* A member pays.                                                          *)

\* A mutant of MayPay: a bill that waits for the admin is not looked for.
MayPayAgain(due) == due > 0

MayPay(due) == due > 0 /\ \A p \in DOMAIN proofs : ~Submitted(p)

Press(m) ==
    /\ job = Idle
    /\ LET due == Due
       IN chat' = IF MayPay(due) THEN [chat EXCEPT ![m] = due] ELSE chat
    /\ KeepAnchor
    /\ UNCHANGED <<backend, proofs, audit, job>>

\* A mutant of SendPhoto: a photo is taken for a bill although none was asked.
SendPhotoNoAmount(m) ==
    /\ job = Idle
    /\ Len(proofs) < MaxProofs
    /\ proofs' = Append(proofs, [by |-> m, amount |-> chat[m], status |-> "submitted"])
    /\ chat' = [chat EXCEPT ![m] = 0]
    /\ UNCHANGED <<backend, anchor, audit, job>>

SendPhoto(m) ==
    /\ job = Idle
    /\ chat[m] # 0
    /\ Len(proofs) < MaxProofs
    /\ proofs' = Append(proofs, [by |-> m, amount |-> chat[m], status |-> "submitted"])
    /\ chat' = [chat EXCEPT ![m] = 0]
    /\ UNCHANGED <<backend, anchor, audit, job>>

\* /cancel, the home menu, or another dialogue that takes its place.
Forget(m) ==
    /\ job = Idle
    /\ chat[m] # 0
    /\ chat' = [chat EXCEPT ![m] = 0]
    /\ UNCHANGED <<backend, anchor, proofs, audit, job>>

-----------------------------------------------------------------------------
(* An admin decides on a proof.  Its buttons are in the chat of every      *)
(* admin and stay there.                                                   *)

\* The status is checked and what is owed computed before the transaction
\* that confirms.
ConfirmRead(p) ==
    /\ job = Idle
    /\ Submitted(p)
    /\ job' = [proof |-> p, paid |-> Paid]
    /\ KeepAnchor
    /\ UNCHANGED <<backend, proofs, audit, chat>>

ConfirmMark ==
    LET p == job.proof IN
    /\ job # Idle
    /\ IF Submitted(p)
       THEN /\ audit' = Append(audit, [proof |-> p, before |-> job.paid,
                                    amount |-> proofs[p].amount])
            /\ proofs' = [proofs EXCEPT ![p].status = "confirmed"]
       ELSE UNCHANGED <<audit, proofs>>
    /\ job' = Idle
    /\ UNCHANGED <<backend, anchor, chat>>

\* A mutant of Reject: the button of a decided proof still works.
RejectDecided(p) ==
    /\ job = Idle
    /\ proofs' = [proofs EXCEPT ![p].status = "rejected"]
    /\ UNCHANGED <<backend, anchor, audit, chat, job>>

Reject(p) ==
    /\ job = Idle
    /\ Submitted(p)
    /\ proofs' = [proofs EXCEPT ![p].status = "rejected"]
    /\ UNCHANGED <<backend, anchor, audit, chat, job>>

\* The bot restarts: the update and the dialogues are gone.
Restart ==
    /\ job' = Idle
    /\ chat' = [m \in Members |-> 0]
    /\ UNCHANGED <<backend, anchor, proofs, audit>>

-----------------------------------------------------------------------------
Next ==
    \/ NextDay \/ Look
    \/ \E c \in Codes : Stop(c) \/ \E s \in Seats : Activate(c, s)
    \/ \E m \in Members : Press(m) \/ SendPhoto(m) \/ Forget(m)
    \/ \E p \in DOMAIN proofs : ConfirmRead(p) \/ Reject(p)
    \/ ConfirmMark \/ Restart

Spec == Init /\ [][Next]_vars

-----------------------------------------------------------------------------
(* Properties.                                                             *)

\* The shape of the tables, of the dialogues and of the handler's variables.
TypeOK ==
    /\ today \in 1 .. MaxDay
    /\ act \in [Codes -> 0 .. MaxDay]
    /\ seat \in [Codes -> Seats \cup {None}]
    /\ stopped \in [Codes -> 0 .. MaxDay]
    /\ anchor \in 0 .. MaxDay
    /\ \A p \in DOMAIN proofs :
          proofs[p] \in [by : Members, amount : Nat \ {0},
                         status : {"submitted", "confirmed", "rejected"}]
    /\ \A n \in DOMAIN audit :
          audit[n] \in [proof : DOMAIN proofs, before : Nat, amount : Nat]
    /\ chat \in [Members -> Nat]
    /\ job \in [proof : {0} \cup DOMAIN proofs, paid : Nat]

\* The index arithmetic of _billing_cycle_summary finds the right cycles: a
\* seat is billed in a cycle exactly if one of its codes counts on a day of
\* that cycle, from the day it was activated to the day before it ended.
SeatsMatchUse ==
    \A i \in 0 .. Current :
        BilledSeats(i) =
            {seat[c] : c \in
                {d \in Activated :
                    \E day \in act[d] .. SupportEnd(d) - 1 :
                        CycleIndex(Anchor, day) = i}}

\* A cycle that is over is settled: what happens afterwards, a stop, a late
\* lock, a new code, the anchor being written, changes neither the activations
\* nor the seats it is billed for.
ClosedCyclesFixed ==
    [][\A i \in 0 .. Current - 1 :
          /\ FeeCodes(i)' = FeeCodes(i)
          /\ BilledSeats(i)' = BilledSeats(i)]_<<backend, anchor>>

\* The debt of earlier cycles does not vanish with the next cycle, as
\* _partner_billing_text tells the partner: what has accrued never falls with
\* the days, with new activations, or with the anchor being written.
DebtNotForgotten ==
    [][stopped' = stopped => Accrued' >= Accrued]_<<backend, anchor>>

\* The snapshots kept for reconciliation form one ledger: there is one for
\* each confirmed proof, and each starts from what the one before it left paid.
AuditChain ==
    /\ Cardinality({p \in DOMAIN proofs : Counted(p)}) = Len(audit)
    /\ \A n \in DOMAIN audit :
          /\ proofs[audit[n].proof].status = "confirmed"
          /\ proofs[audit[n].proof].amount = audit[n].amount
          /\ audit[n].before =
                IF n = 1 THEN 0 ELSE audit[n - 1].before + audit[n - 1].amount

\* A member has at most one bill open: a second one is only asked for when no
\* proof waits for the admin.  Two members can still have one each.
OneOpenPerMember ==
    \A m \in Members :
        LET open == {p \in DOMAIN proofs : Submitted(p) /\ proofs[p].by = m}
        IN Cardinality(open) + (IF chat[m] # 0 THEN 1 ELSE 0) =< 1

\* A proof is decided once and its amount never changes, whichever buttons of
\* it are pressed afterwards and by which admin.
DecidedOnce ==
    [][\A p \in DOMAIN proofs :
          /\ p \in DOMAIN proofs'
          /\ proofs[p].amount = proofs'[p].amount
          /\ ~Submitted(p) => proofs'[p] = proofs[p]]_proofs
=============================================================================
