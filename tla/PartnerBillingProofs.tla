------------------------ MODULE PartnerBillingProofs ------------------------
(***************************************************************************)
(* What holds of PartnerBilling for every number of members, codes, seats  *)
(* and proofs, and for any lengths of codes and cycles.                    *)
(*                                                                         *)
(* The bills of the members and the decisions on proofs (IInv) do not      *)
(* depend on amounts being numbers, so that part leaves them open.  The    *)
(* books add the dates of the report and the ledger; what a cycle bills    *)
(* follows from the dates and from the arithmetic of the cycles, and the   *)
(* past of the bills from what a single step may change in the report.     *)
(***************************************************************************)
EXTENDS PartnerBilling, FiniteSetTheorems, SequenceTheorems, WellFoundedInduction,
        TLAPS

Proof(A) == [by : Members, amount : A, status : {"submitted", "confirmed", "rejected"}]

Tables(A) ==
    /\ proofs \in Seq(Proof(A))
    /\ chat \in [Members -> A]

\* The proof being confirmed exists.
JobOK == job = Idle \/ job.proof \in DOMAIN proofs

\* Who is asked for a photo has no bill that waits, and nobody has two.
OneWaits ==
    /\ \A p \in DOMAIN proofs : Submitted(p) => chat[proofs[p].by] = 0
    /\ \A p, q \in DOMAIN proofs :
          Submitted(p) /\ Submitted(q) /\ proofs[p].by = proofs[q].by => p = q

IInv == (\E A : Tables(A)) /\ JobOK /\ OneWaits

\* A larger set of amounts will do.
LEMMA MoreAmounts ==
    ASSUME NEW A, NEW B, Tables(A)
    PROVE  Tables(A \cup B)
<1> DEFINE C == A \cup B
<1>1. Proof(A) \subseteq Proof(C)
  BY DEF Proof
<1>2. proofs \in Seq(Proof(C))
  BY <1>1, Zenon, SeqMonotonic DEF Tables
<1> QED BY <1>2 DEF Tables

\* A decision changes the status of one proof and nothing else.
LEMMA DecideOne ==
    ASSUME NEW A, proofs \in Seq(Proof(A)), NEW p \in DOMAIN proofs,
           NEW s \in {"confirmed", "rejected"},
           proofs' = [proofs EXCEPT ![p].status = s]
    PROVE  /\ proofs' \in Seq(Proof(A))
           /\ DOMAIN proofs' = DOMAIN proofs
           /\ ~Submitted(p)' /\ proofs'[p].status = s
           /\ \A q \in DOMAIN proofs :
                /\ proofs'[q].by = proofs[q].by
                /\ proofs'[q].amount = proofs[q].amount
                /\ q # p => proofs'[q] = proofs[q]
<1> DEFINE new == [proofs[p] EXCEPT !.status = s]
<1>1. proofs \in Seq(Proof(A)) /\ DOMAIN proofs = 1 .. Len(proofs)
  OBVIOUS
<1>2. proofs[p] \in Proof(A)
  BY <1>1
<1>3. /\ new \in Proof(A) /\ new.status = s
      /\ new.by = proofs[p].by /\ new.amount = proofs[p].amount
  BY <1>2 DEF Proof
<1>4. proofs' = [proofs EXCEPT ![p] = new]
  OBVIOUS
<1> HIDE DEF new
<1> QED BY <1>1, <1>3, <1>4 DEF Submitted

\* Initially there are no proofs and no dialogues.
LEMMA InitIInv == Init => IInv
<1> SUFFICES ASSUME Init PROVE IInv
  OBVIOUS
<1>1. Tables({0})
  BY DEF Init, Tables
<1> QED BY <1>1 DEF Init, IInv, JobOK, OneWaits

\* A photo adds one proof, which waits, and ends its dialogue.
LEMMA SendPhotoAdds ==
    ASSUME NEW A, Tables(A), NEW m \in Members, SendPhoto(m)
    PROVE  /\ Tables(A \cup {0})'
           /\ DOMAIN proofs' = DOMAIN proofs \cup {Len(proofs) + 1}
           /\ Len(proofs) + 1 \notin DOMAIN proofs
           /\ \A p \in DOMAIN proofs : proofs'[p] = proofs[p]
           /\ proofs'[Len(proofs) + 1].by = m
           /\ \A n \in Members : chat'[n] = IF n = m THEN 0 ELSE chat[n]
<1> DEFINE row == [by |-> m, amount |-> chat[m], status |-> "submitted"]
           B == A \cup {0}
<1>1. Tables(B)
  BY MoreAmounts
<1>2. proofs' = Append(proofs, row)
  BY DEF SendPhoto
<1>3. row \in Proof(B) /\ row.by = m
  BY <1>1 DEF Proof, Tables
<1>4. proofs \in Seq(Proof(B)) /\ Len(proofs) \in Nat /\ DOMAIN proofs = 1 .. Len(proofs)
  BY <1>1 DEF Tables
<1> HIDE DEF row
<1>5. /\ proofs' \in Seq(Proof(B))
      /\ DOMAIN proofs' = DOMAIN proofs \cup {Len(proofs) + 1}
      /\ Len(proofs) + 1 \notin DOMAIN proofs
      /\ \A p \in DOMAIN proofs : proofs'[p] = proofs[p]
      /\ proofs'[Len(proofs) + 1] = row
  BY <1>2, <1>3, <1>4
<1>6. /\ chat' \in [Members -> B]
      /\ \A n \in Members : chat'[n] = IF n = m THEN 0 ELSE chat[n]
  BY <1>1 DEF Tables, SendPhoto
<1> QED BY <1>3, <1>5, <1>6 DEF Tables

----------------------------------------------------------------------------
(* The inductive invariant.                                                *)

\* Every bill that waits is of somebody.
LEMMA WaitingBy ==
    ASSUME NEW A, Tables(A)
    PROVE  \A p \in DOMAIN proofs : proofs[p].by \in Members
<1>1. \A p \in DOMAIN proofs : proofs[p] \in Proof(A)
  BY DEF Tables
<1> QED BY <1>1 DEF Proof

\* A member is asked for a photo: nothing waits at that moment.
LEMMA PressIInv ==
    ASSUME IInv, NEW m \in Members, Press(m)
    PROVE  IInv'
<1>1. PICK A : Tables(A)
  BY DEF IInv
<1>2. CASE MayPay(Due)
  <2>1. PICK due : due = Due
    OBVIOUS
  <2> DEFINE B == A \cup {due}
  <2>2. chat' = [chat EXCEPT ![m] = due] /\ UNCHANGED <<proofs, job>>
    BY <1>2, <2>1 DEF Press
  <2>3. \A p \in DOMAIN proofs : ~Submitted(p)
    BY <1>2 DEF MayPay
  <2>4. Tables(B)
    BY <1>1, MoreAmounts
  <2>5. Tables(B)'
    BY <2>2, <2>4 DEF Tables
  <2>6. OneWaits'
    BY <2>2, <2>3 DEF OneWaits, Submitted
  <2>7. JobOK'
    BY <2>2 DEF IInv, JobOK
  <2> QED BY <2>5, <2>6, <2>7 DEF IInv
<1>3. CASE ~MayPay(Due)
  <2>1. UNCHANGED <<proofs, chat, job>>
    BY <1>3 DEF Press
  <2> QED BY <2>1 DEF IInv, Tables, JobOK, OneWaits, Submitted
<1> QED BY <1>2, <1>3

\* The sender of a photo was in a dialogue, so none of its bills waits.
LEMMA SendPhotoIInv ==
    ASSUME IInv, NEW m \in Members, SendPhoto(m)
    PROVE  IInv'
<1>1. PICK A : Tables(A)
  BY DEF IInv
<1> DEFINE last == Len(proofs) + 1
<1>2. /\ Tables(A \cup {0})'
      /\ DOMAIN proofs' = DOMAIN proofs \cup {last} /\ last \notin DOMAIN proofs
      /\ \A p \in DOMAIN proofs : proofs'[p] = proofs[p]
      /\ proofs'[last].by = m
      /\ \A n \in Members : chat'[n] = IF n = m THEN 0 ELSE chat[n]
  BY <1>1, SendPhotoAdds
<1>3. \A p \in DOMAIN proofs : proofs[p].by \in Members
  BY <1>1, WaitingBy
<1>4. \A p \in DOMAIN proofs : Submitted(p) => proofs[p].by # m
  BY DEF IInv, OneWaits, SendPhoto
<1> HIDE DEF last
<1>5. OneWaits'
  <2>1. ASSUME NEW p \in DOMAIN proofs', Submitted(p)'
        PROVE  chat'[proofs'[p].by] = 0
    <3>1. CASE p = last
      BY <1>2, <3>1
    <3>2. CASE p # last
      BY <1>2, <1>3, <2>1, <3>2 DEF IInv, OneWaits, Submitted
    <3> QED BY <3>1, <3>2
  <2>2. ASSUME NEW p \in DOMAIN proofs', NEW q \in DOMAIN proofs',
               Submitted(p)', Submitted(q)', proofs'[p].by = proofs'[q].by
        PROVE  p = q
    BY <1>2, <1>4, <2>2 DEF IInv, OneWaits, Submitted
  <2> QED BY <2>1, <2>2 DEF OneWaits
<1>6. JobOK'
  BY <1>2 DEF IInv, JobOK, SendPhoto
<1> QED BY <1>2, <1>5, <1>6 DEF IInv

\* A decision leaves fewer bills waiting.
LEMMA DecideIInv ==
    ASSUME IInv, NEW p \in DOMAIN proofs, NEW s \in {"confirmed", "rejected"},
           proofs' = [proofs EXCEPT ![p].status = s],
           job' = Idle, UNCHANGED chat
    PROVE  IInv'
<1>1. PICK A : Tables(A)
  BY DEF IInv
<1>2. /\ proofs' \in Seq(Proof(A)) /\ DOMAIN proofs' = DOMAIN proofs
      /\ ~Submitted(p)'
      /\ \A q \in DOMAIN proofs :
           /\ proofs'[q].by = proofs[q].by
           /\ q # p => proofs'[q] = proofs[q]
  BY <1>1, DecideOne DEF Tables
<1>3. Tables(A)'
  BY <1>1, <1>2 DEF Tables
<1>4. \A q \in DOMAIN proofs : Submitted(q)' => Submitted(q)
  BY <1>2 DEF Submitted
<1>5. OneWaits'
  BY <1>2, <1>4 DEF IInv, OneWaits
<1> QED BY <1>3, <1>5 DEF IInv, JobOK

\* Dialogues that end leave fewer members asked.
LEMMA FewerAsked ==
    ASSUME IInv, UNCHANGED proofs, JobOK',
           \/ UNCHANGED chat
           \/ chat' = [m \in Members |-> 0]
           \/ \E m \in Members : chat' = [chat EXCEPT ![m] = 0]
    PROVE  IInv'
<1>1. PICK A : Tables(A)
  BY DEF IInv
<1>2. Tables(A \cup {0})
  BY <1>1, MoreAmounts
<1>3. Tables(A \cup {0})'
  BY <1>2 DEF Tables
<1>4. \A m \in Members : chat[m] = 0 => chat'[m] = 0
  BY <1>2 DEF Tables
<1>5. OneWaits'
  BY <1>1, <1>4, WaitingBy DEF IInv, OneWaits, Submitted
<1> QED BY <1>3, <1>5 DEF IInv

\* Every step keeps the invariant.
LEMMA NextIInv == IInv /\ [Next]_vars => IInv'
<1> SUFFICES ASSUME IInv, [Next]_vars PROVE IInv'
  OBVIOUS
<1>1. CASE UNCHANGED <<proofs, chat, job>>
  BY <1>1, FewerAsked DEF IInv, JobOK
<1>2. ASSUME NEW m \in Members, Press(m) PROVE IInv'
  BY <1>2, PressIInv
<1>3. ASSUME NEW m \in Members, SendPhoto(m) PROVE IInv'
  BY <1>3, SendPhotoIInv
<1>4. ASSUME NEW m \in Members, Forget(m) PROVE IInv'
  <2>1. JobOK'
    BY <1>4 DEF Forget, IInv, JobOK
  <2> QED BY <1>4, <2>1, FewerAsked DEF Forget
<1>5. ASSUME NEW p \in DOMAIN proofs, ConfirmRead(p) PROVE IInv'
  <2>1. UNCHANGED <<proofs, chat>> /\ job'.proof = p
    BY <1>5 DEF ConfirmRead
  <2>2. JobOK'
    BY <2>1 DEF JobOK
  <2> QED BY <2>1, <2>2, FewerAsked
<1>6. ASSUME NEW p \in DOMAIN proofs, Reject(p) PROVE IInv'
  BY <1>6, DecideIInv DEF Reject
<1>7. CASE ConfirmMark
  <2>1. job.proof \in DOMAIN proofs /\ job' = Idle /\ UNCHANGED chat
    BY <1>7 DEF ConfirmMark, IInv, JobOK
  <2>2. CASE Submitted(job.proof)
    <3>1. proofs' = [proofs EXCEPT ![job.proof].status = "confirmed"]
      BY <1>7, <2>2 DEF ConfirmMark
    <3> QED BY <2>1, <3>1, DecideIInv
  <2>3. CASE ~Submitted(job.proof)
    <3>1. UNCHANGED proofs
      BY <1>7, <2>3 DEF ConfirmMark
    <3>2. JobOK'
      BY <2>1 DEF JobOK
    <3> QED BY <2>1, <3>1, <3>2, FewerAsked
  <2> QED BY <2>2, <2>3
<1>8. CASE Restart
  <2>1. JobOK'
    BY <1>8 DEF Restart, JobOK
  <2> QED BY <1>8, <2>1, FewerAsked DEF Restart
<1> QED
  BY <1>1, <1>2, <1>3, <1>4, <1>5, <1>6, <1>7, <1>8
  DEF Next, vars, NextDay, Look, Stop, Activate

----------------------------------------------------------------------------
(* What follows from it.                                                   *)

\* The invariant is the reason why a member has at most one bill open.
LEMMA OneOpen == IInv => OneOpenPerMember
<1> SUFFICES ASSUME IInv, NEW m \in Members
             PROVE  LET open == {p \in DOMAIN proofs : Submitted(p) /\ proofs[p].by = m}
                    IN Cardinality(open) + (IF chat[m] # 0 THEN 1 ELSE 0) =< 1
  BY DEF OneOpenPerMember
<1> DEFINE open == {p \in DOMAIN proofs : Submitted(p) /\ proofs[p].by = m}
<1>1. CASE open = {}
  <2>1. Cardinality(open) = 0
    BY <1>1, FS_EmptySet
  <2> QED BY <2>1
<1>2. CASE open # {}
  <2>1. PICK p : open = {p}
    BY <1>2 DEF IInv, OneWaits
  <2>2. Cardinality(open) = 1
    BY <2>1, FS_Singleton
  <2>3. chat[m] = 0
    BY <2>1 DEF IInv, OneWaits
  <2> QED BY <2>2, <2>3
<1> QED BY <1>1, <1>2

\* A member never has two bills open, whatever the other members do, whatever
\* is refused or forgotten, and however often the bot restarts.
THEOREM BillsPerMember == Spec => []OneOpenPerMember
<1>1. Init => IInv
  BY InitIInv
<1>2. IInv /\ [Next]_vars => IInv'
  BY NextIInv
<1>3. IInv => OneOpenPerMember
  BY OneOpen
<1> QED BY <1>1, <1>2, <1>3, PTL DEF Spec

\* No step changes a proof that is decided, or the amount of any.
LEMMA DecidedStep ==
    ASSUME IInv, [Next]_vars, NEW p \in DOMAIN proofs
    PROVE  /\ p \in DOMAIN proofs'
           /\ proofs[p].amount = proofs'[p].amount
           /\ ~Submitted(p) => proofs'[p] = proofs[p]
<1>1. PICK A : Tables(A)
  BY DEF IInv
<1>2. CASE UNCHANGED proofs
  BY <1>2
<1>3. ASSUME NEW m \in Members, SendPhoto(m)
      PROVE  p \in DOMAIN proofs' /\ proofs'[p] = proofs[p]
  BY <1>1, <1>3, SendPhotoAdds
<1>4. ASSUME NEW q \in DOMAIN proofs, Submitted(q),
             NEW s \in {"confirmed", "rejected"},
             proofs' = [proofs EXCEPT ![q].status = s]
      PROVE  /\ p \in DOMAIN proofs'
             /\ proofs[p].amount = proofs'[p].amount
             /\ ~Submitted(p) => proofs'[p] = proofs[p]
  BY <1>1, <1>4, DecideOne DEF Tables
<1>5. ASSUME NEW q \in DOMAIN proofs, Reject(q)
      PROVE  Submitted(q) /\ proofs' = [proofs EXCEPT ![q].status = "rejected"]
  BY <1>5 DEF Reject
<1>6. CASE ConfirmMark
  <2>1. job.proof \in DOMAIN proofs
    BY <1>6 DEF ConfirmMark, IInv, JobOK
  <2>2. CASE Submitted(job.proof)
    <3>1. proofs' = [proofs EXCEPT ![job.proof].status = "confirmed"]
      BY <1>6, <2>2 DEF ConfirmMark
    <3> QED BY <1>4, <2>1, <2>2, <3>1
  <2>3. CASE ~Submitted(job.proof)
    BY <1>2, <1>6, <2>3 DEF ConfirmMark
  <2> QED BY <2>2, <2>3
<1> QED
  BY <1>2, <1>3, <1>4, <1>5, <1>6
  DEF Next, vars, NextDay, Look, Stop, Activate, Press, Forget, ConfirmRead, Restart

\* A proof is confirmed or rejected once and for all, whichever of its buttons
\* are pressed afterwards.
THEOREM DecisionFinal == Spec => DecidedOnce
<1>1. Init => IInv
  BY InitIInv
<1>2. IInv /\ [Next]_vars => IInv'
  BY NextIInv
<1>3. IInv /\ [Next]_vars =>
        [\A p \in DOMAIN proofs :
           /\ p \in DOMAIN proofs'
           /\ proofs[p].amount = proofs'[p].amount
           /\ ~Submitted(p) => proofs'[p] = proofs[p]]_proofs
  BY DecidedStep
<1> QED BY <1>1, <1>2, <1>3, PTL DEF Spec, DecidedOnce

----------------------------------------------------------------------------
(* Sums.  The library adds a set up by a recursive function on its         *)
(* subsets; that there is one, and that it does not depend on the order,   *)
(* is proved here for the two sums of the module.                          *)

\* Every non-empty set of naturals has a least element.
LEMMA LeastElement ==
    ASSUME NEW I, I \subseteq Nat, I # {}
    PROVE  \E x \in I : \A y \in I : x <= y
<1> DEFINE R == OpToRel(<, Nat)
<1>1. PICK x \in I : \A y \in I : ~ (<<y, x>> \in R)
  <2>1. IsWellFoundedOn(R, Nat)
    BY NatLessThanWellFounded, Zenon
  <2> HIDE DEF R
  <2> QED BY <2>1, WFMin
<1>2. \A y \in I : ~ (y < x)
  BY <1>1 DEF OpToRel
<1> QED BY <1>2

\* Of a non-empty set of finite sets, one has the fewest elements: it is in the set
\* and what is left of it without an element is not.
LEMMA LeastSet ==
    ASSUME NEW F, F # {}, \A s \in F : IsFiniteSet(s)
    PROVE  \E s \in F : \A x \in s : s \ {x} \notin F
<1> DEFINE I == {Cardinality(s) : s \in F}
<1>1. I \subseteq Nat /\ I # {}
  BY FS_CardinalityType
<1>2. PICK n \in I : \A m \in I : n <= m
  <2> HIDE DEF I
  <2> QED BY <1>1, LeastElement
<1>3. PICK s \in F : n = Cardinality(s)
  OBVIOUS
<1>4. ASSUME NEW x \in s, s \ {x} \in F
      PROVE  FALSE
  <2>1. Cardinality(s \ {x}) = Cardinality(s) - 1
    BY FS_RemoveElement
  <2>2. n <= Cardinality(s \ {x}) /\ n \in Nat
    BY <1>1, <1>2, <1>4
  <2> QED BY <1>3, <2>1, <2>2
<1> QED BY <1>4

\* fold gives every subset of S the sum of f over it, in whatever order it is added up.
IsFold(fold, f, S) ==
    /\ fold \in [SUBSET S -> Int]
    /\ fold[{}] = 0
    /\ \A s \in SUBSET S : \A x \in s : fold[s] = f[x] + fold[s \ {x}]

\* A fold over a set without x is one over the set with x.
LEMMA FoldOneMore ==
    ASSUME NEW S, NEW f, NEW x \in S, \A y \in S : f[y] \in Int, NEW g, IsFold(g, f, S \ {x})
    PROVE  \E fold : IsFold(fold, f, S)
<1> DEFINE h == [s \in SUBSET S |-> IF x \in s THEN f[x] + g[s \ {x}] ELSE g[s]]
<1>1. \A s \in SUBSET S : /\ s \ {x} \in SUBSET (S \ {x})
                          /\ x \notin s => s \in SUBSET (S \ {x})
  OBVIOUS
<1>2. h \in [SUBSET S -> Int]
  BY <1>1 DEF IsFold
<1>3. h[{}] = 0
  BY DEF IsFold
<1>4. ASSUME NEW s \in SUBSET S, NEW y \in s
      PROVE  h[s] = f[y] + h[s \ {y}]
  <2>1. CASE x \notin s
    BY <1>1, <2>1 DEF IsFold
  <2>2. CASE x \in s /\ y = x
    BY <2>2
  <2>3. CASE x \in s /\ y # x
    <3>1. g[s \ {x}] = f[y] + g[(s \ {x}) \ {y}]
      BY <1>1, <2>3 DEF IsFold
    <3>2. (s \ {x}) \ {y} = (s \ {y}) \ {x} /\ s \ {y} \in SUBSET S /\ x \in s \ {y}
      BY <2>3
    <3>3. h[s \ {y}] = f[x] + g[(s \ {x}) \ {y}]
      BY <3>2
    <3>4. h[s] = f[x] + g[s \ {x}]
      BY <2>3
    <3>5. g[(s \ {x}) \ {y}] \in Int /\ g[s \ {x}] \in Int
      BY <1>1 DEF IsFold
    <3>6. f[y] \in Int /\ f[x] \in Int
      OBVIOUS
    <3> QED BY <3>1, <3>3, <3>4, <3>5
  <2> QED BY <2>1, <2>2, <2>3
<1> HIDE DEF h
<1> QED BY <1>2, <1>3, <1>4 DEF IsFold

\* Every finite set has a fold: one with the fewest elements and none would have one more
\* element than a set that has one.
LEMMA FoldExists ==
    ASSUME NEW S, IsFiniteSet(S), NEW f, \A x \in S : f[x] \in Int
    PROVE  \E fold : IsFold(fold, f, S)
<1> DEFINE F == {s \in SUBSET S : ~ \E fold : IsFold(fold, f, s)}
<1>1. CASE F = {}
  BY <1>1
<1>2. CASE F # {}
  <2>1. \A s \in F : IsFiniteSet(s)
    BY FS_Subset
  <2>2. PICK s \in F : \A x \in s : s \ {x} \notin F
    <3> HIDE DEF F
    <3> QED BY <1>2, <2>1, LeastSet
  <2>3. CASE s = {}
    <3> DEFINE g == [t \in {{}} |-> 0]
    <3>1. IsFold(g, f, {})
      BY DEF IsFold
    <3> QED BY <2>3, <3>1
  <2>4. ASSUME NEW x \in s
        PROVE  FALSE
    <3>1. PICK g : IsFold(g, f, s \ {x})
      BY <2>2
    <3> QED BY <3>1, FoldOneMore
  <2> QED BY <2>3, <2>4
<1> QED BY <1>1, <1>2

\* What the library computes: it takes the elements in the order it chooses them.
AddsUp(iter, f, T) ==
    iter = [s \in SUBSET T |->
              IF s = {} THEN 0
              ELSE f[CHOOSE x \in s : TRUE] + iter[s \ {CHOOSE x \in s : TRUE}]]

\* The library's function and a fold agree.
LEMMA FoldIs ==
    ASSUME NEW S, NEW T \in SUBSET S, IsFiniteSet(T), NEW f, NEW fold, IsFold(fold, f, S),
           NEW iter, AddsUp(iter, f, T)
    PROVE  iter[T] = fold[T]
<1> DEFINE F == {s \in SUBSET T : iter[s] # fold[s]}
<1>1. CASE F = {}
  BY <1>1
<1>2. CASE F # {}
  <2>1. \A s \in F : IsFiniteSet(s)
    BY FS_Subset
  <2>2. PICK s \in F : \A x \in s : s \ {x} \notin F
    <3> HIDE DEF F
    <3> QED BY <1>2, <2>1, LeastSet
  <2>3. s # {}
    BY DEF IsFold, AddsUp
  <2>4. PICK x \in s : x = CHOOSE y \in s : TRUE
    BY <2>3
  <2>5. iter[s] = f[x] + iter[s \ {x}]
    BY <2>3, <2>4 DEF AddsUp
  <2>6. iter[s \ {x}] = fold[s \ {x}]
    BY <2>2
  <2>7. fold[s] = f[x] + fold[s \ {x}]
    BY DEF IsFold
  <2> QED BY <2>5, <2>6, <2>7
<1> QED BY <1>1, <1>2

\* The sum of the confirmed ones of the proofs ps.
Confirmed(ps) == {p \in DOMAIN ps : ps[p].status = "confirmed"}
PaidOf(ps) == LET amount(p) == ps[p].amount IN MapThenSumSet(amount, Confirmed(ps))

LEMMA PaidIs == Paid = PaidOf(proofs) /\ Paid' = PaidOf(proofs')
  BY DEF Paid, PaidOf, Counted, Confirmed, MapThenSumSet, MapThenFoldSet

\* What is paid is the fold of the amounts over the confirmed proofs.
LEMMA PaidFold ==
    ASSUME NEW ps, NEW S, IsFiniteSet(S), Confirmed(ps) \subseteq S,
           NEW f, \A p \in Confirmed(ps) : f[p] = ps[p].amount,
           NEW fold, IsFold(fold, f, S)
    PROVE  PaidOf(ps) = fold[Confirmed(ps)]
<1> DEFINE T == Confirmed(ps)
           body(i) == [s \in SUBSET T |->
              IF s = {} THEN 0
              ELSE ps[CHOOSE x \in s : TRUE].amount + i[s \ {CHOOSE x \in s : TRUE}]]
           iter == CHOOSE i : i = body(i)
<1>1. PaidOf(ps) = iter[T]
  BY DEF PaidOf, MapThenSumSet, MapThenFoldSet
<1> HIDE DEF T
<1>2. \E i : i = body(i)
  <2> DEFINE i == [s \in SUBSET T |-> fold[s]]
  <2>1. ASSUME NEW s \in SUBSET T, s # {}
        PROVE  i[s] = ps[CHOOSE x \in s : TRUE].amount + i[s \ {CHOOSE x \in s : TRUE}]
    <3>1. PICK x \in s : x = CHOOSE y \in s : TRUE
      BY <2>1
    <3>2. i[s] = f[x] + i[s \ {x}] /\ f[x] = ps[x].amount
      BY DEF IsFold, T
    <3> QED BY <3>1, <3>2
  <2>2. i = body(i)
    BY <2>1 DEF IsFold
  <2> QED BY <2>2
<1>3. iter = body(iter)
  <2> HIDE DEF body
  <2> QED BY <1>2
<1>4. \E i : i = body(i) /\ PaidOf(ps) = i[T]
  <2> HIDE DEF body, iter
  <2> QED BY <1>1, <1>3
<1> HIDE DEF iter
<1>5. PICK i : i = body(i) /\ PaidOf(ps) = i[T]
  BY <1>4
<1>6. AddsUp(i, f, T)
  <2>1. ASSUME NEW s \in SUBSET T
        PROVE  (IF s = {} THEN 0
                ELSE f[CHOOSE x \in s : TRUE] + i[s \ {CHOOSE x \in s : TRUE}])
               = (IF s = {} THEN 0
                  ELSE ps[CHOOSE x \in s : TRUE].amount + i[s \ {CHOOSE x \in s : TRUE}])
    <3>1. s # {} => (CHOOSE x \in s : TRUE) \in T
      OBVIOUS
    <3> QED BY <3>1 DEF T
  <2> QED BY <1>5, <2>1 DEF AddsUp
<1>7. T \in SUBSET S /\ IsFiniteSet(T)
  BY FS_Subset DEF T
<1>8. i[T] = fold[T]
  BY <1>6, <1>7, FoldIs
<1> QED BY <1>5, <1>8 DEF T

\* What is paid does not change with what is not confirmed, and grows with what is.
LEMMA PaidStays ==
    ASSUME NEW ps, NEW qs, IsFiniteSet(Confirmed(ps)), Confirmed(qs) = Confirmed(ps),
           \A p \in Confirmed(ps) : ps[p].amount \in Int /\ qs[p].amount = ps[p].amount
    PROVE  PaidOf(qs) = PaidOf(ps)
<1> DEFINE f == [p \in Confirmed(ps) |-> ps[p].amount]
<1>1. PICK fold : IsFold(fold, f, Confirmed(ps))
  BY FoldExists
<1>2. \A p \in Confirmed(ps) : f[p] = ps[p].amount
  OBVIOUS
<1> HIDE DEF f
<1> QED BY <1>1, <1>2, PaidFold

LEMMA PaidGrows ==
    ASSUME NEW ps, NEW qs, NEW p, IsFiniteSet(Confirmed(ps)), p \notin Confirmed(ps),
           Confirmed(qs) = Confirmed(ps) \cup {p}, qs[p].amount \in Int,
           \A q \in Confirmed(ps) : ps[q].amount \in Int /\ qs[q].amount = ps[q].amount
    PROVE  PaidOf(qs) = PaidOf(ps) + qs[p].amount
<1> DEFINE S == Confirmed(ps) \cup {p}
           f == [q \in S |-> qs[q].amount]
<1>1. IsFiniteSet(S)
  BY FS_AddElement
<1>2. PICK fold : IsFold(fold, f, S)
  BY <1>1, FoldExists
<1>3. /\ \A q \in Confirmed(ps) : f[q] = ps[q].amount
      /\ \A q \in Confirmed(qs) : f[q] = qs[q].amount
      /\ f[p] = qs[p].amount
  OBVIOUS
<1>4. Confirmed(ps) \subseteq S /\ Confirmed(qs) \subseteq S
  OBVIOUS
<1>0. \A rs : /\ Confirmed(rs) \subseteq S
              /\ \A q \in Confirmed(rs) : f[q] = rs[q].amount
              => PaidOf(rs) = fold[Confirmed(rs)]
  <2> HIDE DEF S, f
  <2> SUFFICES ASSUME NEW rs, Confirmed(rs) \subseteq S,
                      \A q \in Confirmed(rs) : f[q] = rs[q].amount
               PROVE  PaidOf(rs) = fold[Confirmed(rs)]
    OBVIOUS
  <2> QED BY <1>1, <1>2, PaidFold
<1>5. fold[S] = qs[p].amount + fold[Confirmed(ps)]
  <2>1. S \in SUBSET S /\ p \in S /\ S \ {p} = Confirmed(ps)
    OBVIOUS
  <2>2. fold[S] = f[p] + fold[S \ {p}]
    BY <1>2, <2>1 DEF IsFold
  <2> QED BY <1>3, <2>1, <2>2
<1>6. fold[Confirmed(ps)] \in Int
  BY <1>2 DEF IsFold
<1> HIDE DEF f, S
<1>7. PaidOf(ps) = fold[Confirmed(ps)]
  BY <1>0, <1>3, <1>4
<1>8. PaidOf(qs) = fold[Confirmed(qs)]
  BY <1>0, <1>3, <1>4
<1>9. Confirmed(qs) = S
  BY DEF S
<1>10. PaidOf(qs) = qs[p].amount + PaidOf(ps)
  BY <1>5, <1>7, <1>8, <1>9
<1>11. PaidOf(ps) \in Int
  BY <1>6, <1>7
<1> QED BY <1>10, <1>11

----------------------------------------------------------------------------
(* Dates, and what is due.                                                 *)

\* A code is not stopped before it is activated, and no cycle begins after an
\* activation.
Dates ==
    /\ today \in 1 .. MaxDay
    /\ act \in [Codes -> 0 .. today]
    /\ seat \in [Codes -> Seats \cup {None}]
    /\ stopped \in [Codes -> 0 .. today]
    /\ \A c \in Codes : stopped[c] # 0 => act[c] # 0 /\ act[c] <= stopped[c]
    /\ anchor \in 0 .. today
    /\ anchor # 0 => Activated # {} /\ \A c \in Activated : anchor <= act[c]

\* The least of a set of days is one of them.
LEMMA MinIs ==
    ASSUME NEW S, S \subseteq Nat, S # {}
    PROVE  Min(S) \in S /\ \A x \in S : Min(S) <= x
  BY LeastElement DEF Min

\* The first day of the first cycle is no later than any activation.
LEMMA AnchorIs ==
    ASSUME Dates
    PROVE  /\ Anchor \in 1 .. today
           /\ \A c \in Activated : Anchor <= act[c]
           /\ anchor = 0 /\ Activated # {} => \E c \in Activated : Anchor = act[c]
           /\ Activated = {} => Anchor = today
<1> DEFINE S == {act[c] : c \in Activated}
<1>1. \A c \in Activated : act[c] \in 1 .. today
  BY DEF Dates, Activated
<1>2. today \in Nat
  BY BillingAssumption DEF Dates
<1>3. CASE anchor # 0
  BY <1>2, <1>3 DEF Anchor, Dates
<1>4. CASE anchor = 0 /\ Activated = {}
  BY <1>2, <1>4 DEF Anchor, Dates
<1>5. CASE anchor = 0 /\ Activated # {}
  <2>1. S \subseteq Nat /\ S # {} /\ Anchor = Min(S)
    BY <1>1, <1>2, <1>5 DEF Anchor
  <2>2. Anchor \in S /\ \A x \in S : Anchor <= x
    <3> HIDE DEF S
    <3> QED BY <2>1, MinIs
  <2> QED BY <1>1, <1>2, <1>5, <2>2
<1> QED BY <1>3, <1>4, <1>5

LEMMA CycleIndexType ==
    ASSUME NEW first \in Int, NEW day \in Int
    PROVE  CycleIndex(first, day) \in Nat
<1>1. ASSUME NEW x \in Nat, NEW k \in Nat \ {0}
      PROVE  x \div k \in Nat
  OBVIOUS
<1>2. (IF day > first THEN day - first ELSE 0) \in Nat
  OBVIOUS
<1> QED BY <1>1, <1>2, BillingAssumption DEF CycleIndex

\* Finitely many codes are for finitely many seats.
LEMMA ImageFinite ==
    ASSUME NEW S, IsFiniteSet(S), NEW f
    PROVE  IsFiniteSet({f[x] : x \in S})
<1> DEFINE T == {f[x] : x \in S}
           g == [x \in S |-> f[x]]
<1>1. g \in Surjection(S, T)
  BY DEF Surjection
<1>2. IsFiniteSet(T)
  <2> HIDE DEF g, T
  <2> QED BY <1>1, FS_Surjection
<1> QED BY <1>2

\* A cycle bills finitely many codes and seats, so its charge is a number.
LEMMA ChargeType ==
    ASSUME NEW i
    PROVE  /\ IsFiniteSet(FeeCodes(i)) /\ IsFiniteSet(BilledSeats(i))
           /\ Charge(i) \in Int
<1>1. FeeCodes(i) \subseteq Codes /\ Supported(i) \subseteq Codes
  BY DEF FeeCodes, Supported, Activated
<1>2. IsFiniteSet(FeeCodes(i)) /\ IsFiniteSet(Supported(i))
  BY <1>1, BillingAssumption, FS_Subset
<1>3. IsFiniteSet(BilledSeats(i))
  BY <1>2, ImageFinite DEF BilledSeats
<1>4. Cardinality(FeeCodes(i)) \in Nat /\ Cardinality(BilledSeats(i)) \in Nat
  BY <1>2, <1>3, FS_CardinalityType
<1>5. \A n \in Nat : Blocks(n) \in Int
  BY BillingAssumption DEF Blocks
<1> QED BY <1>2, <1>3, <1>4, <1>5, BillingAssumption DEF Charge

\* What has accrued is the fold of the charges over the cycles up to now.
LEMMA AccruedFold ==
    \A T, f, fold :
        /\ IsFiniteSet(T) /\ T = 0 .. Current
        /\ \A i \in T : f[i] = Charge(i)
        /\ IsFold(fold, f, T)
        => Accrued = fold[T]
<1> SUFFICES ASSUME NEW T, IsFiniteSet(T), T = 0 .. Current,
                    NEW f, \A i \in T : f[i] = Charge(i),
                    NEW fold, IsFold(fold, f, T)
             PROVE  Accrued = fold[T]
  OBVIOUS
<1> DEFINE body(g) == [s \in SUBSET T |->
              IF s = {} THEN 0
              ELSE Charge(CHOOSE x \in s : TRUE) + g[s \ {CHOOSE x \in s : TRUE}]]
           iter == CHOOSE g : g = body(g)
<1>1. Accrued = iter[T]
  BY DEF Accrued, MapThenSumSet, MapThenFoldSet
<1>2. \E g : g = body(g)
  <2> DEFINE g == [s \in SUBSET T |-> fold[s]]
  <2>1. ASSUME NEW s \in SUBSET T, s # {}
        PROVE  g[s] = Charge(CHOOSE x \in s : TRUE) + g[s \ {CHOOSE x \in s : TRUE}]
    <3>1. PICK x \in s : x = CHOOSE y \in s : TRUE
      BY <2>1
    <3>2. g[s] = f[x] + g[s \ {x}] /\ f[x] = Charge(x)
      BY DEF IsFold
    <3> QED BY <3>1, <3>2
  <2>2. g = body(g)
    BY <2>1 DEF IsFold
  <2> QED BY <2>2
<1>3. iter = body(iter)
  <2> HIDE DEF body
  <2> QED BY <1>2
<1>4. \E g : g = body(g) /\ Accrued = g[T]
  <2> HIDE DEF body, iter
  <2> QED BY <1>1, <1>3
<1> HIDE DEF iter
<1>5. PICK g : g = body(g) /\ Accrued = g[T]
  BY <1>4
<1>6. AddsUp(g, f, T)
  <2>1. ASSUME NEW s \in SUBSET T
        PROVE  (IF s = {} THEN 0
                ELSE f[CHOOSE x \in s : TRUE] + g[s \ {CHOOSE x \in s : TRUE}])
               = (IF s = {} THEN 0
                  ELSE Charge(CHOOSE x \in s : TRUE) + g[s \ {CHOOSE x \in s : TRUE}])
    <3>1. s # {} => (CHOOSE x \in s : TRUE) \in T
      OBVIOUS
    <3> QED BY <3>1
  <2> QED BY <1>5, <2>1 DEF AddsUp
<1>7. g[T] = fold[T]
  BY <1>6, FoldIs
<1> QED BY <1>5, <1>7

LEMMA AccruedFoldNext ==
    (\A T, f, fold :
        /\ IsFiniteSet(T) /\ T = 0 .. Current
        /\ \A i \in T : f[i] = Charge(i)
        /\ IsFold(fold, f, T)
        => Accrued = fold[T])'
  BY AccruedFold, PTL
\* Initially no code is activated and no day is fixed.
LEMMA InitDates == Init => Dates
<1> SUFFICES ASSUME Init PROVE Dates
  OBVIOUS
<1>1. MaxDay \in Nat \ {0}
  BY BillingAssumption
<1>2. 1 \in 1 .. MaxDay /\ 0 \in 0 .. 1
  BY <1>1
<1>3. /\ today = 1 /\ anchor = 0
      /\ act = [c \in Codes |-> 0] /\ stopped = [c \in Codes |-> 0]
      /\ seat = [c \in Codes |-> None]
  BY DEF Init
<1> QED BY <1>2, <1>3 DEF Dates

\* Every step keeps the dates in order.
LEMMA DatesStep ==
    ASSUME Dates, [Next]_vars
    PROVE  Dates'
<1> USE DEF Activated
<1>0. /\ MaxDay \in Nat \ {0} /\ today \in Nat /\ today <= MaxDay /\ 1 <= today
      /\ \A c \in Codes : act[c] \in 0 .. today /\ stopped[c] \in 0 .. today
  BY BillingAssumption DEF Dates
<1>1. CASE UNCHANGED <<backend, anchor>>
  BY <1>1 DEF Dates, backend
<1>2. CASE NextDay
  <2>1. /\ today' = today + 1 /\ today' \in 1 .. MaxDay /\ 0 .. today \subseteq 0 .. today'
        /\ UNCHANGED <<act, seat, stopped, anchor>>
    BY <1>0, <1>2 DEF NextDay
  <2>2. Activated' = Activated
    BY <2>1
  <2>3. /\ act' \in [Codes -> 0 .. today'] /\ stopped' \in [Codes -> 0 .. today']
        /\ anchor' \in 0 .. today'
    BY <2>1 DEF Dates
  <2> QED BY <2>1, <2>2, <2>3 DEF Dates
<1>3. ASSUME NEW c \in Codes, NEW s \in Seats, Activate(c, s)
      PROVE  Dates'
  <2>1. /\ act[c] = 0 /\ act' = [act EXCEPT ![c] = today]
        /\ seat' = [seat EXCEPT ![c] = s]
        /\ UNCHANGED <<today, stopped, anchor>>
    BY <1>3 DEF Activate
  <2>2. act' \in [Codes -> 0 .. today'] /\ seat' \in [Codes -> Seats \cup {None}]
    BY <1>0, <2>1 DEF Dates
  <2>3. \A d \in Codes : act'[d] = IF d = c THEN today ELSE act[d]
    BY <2>1 DEF Dates
  <2>4. \A d \in Codes : stopped[d] # 0 => act'[d] # 0 /\ act'[d] <= stopped[d]
    BY <2>1, <2>3 DEF Dates
  <2>5. anchor # 0 => Activated' # {} /\ \A d \in Activated' : anchor <= act'[d]
    BY <1>0, <2>3 DEF Dates
  <2> QED BY <2>1, <2>2, <2>4, <2>5 DEF Dates
<1>4. ASSUME NEW c \in Codes, Stop(c)
      PROVE  Dates'
  <2>1. /\ act[c] # 0 /\ stopped' = [stopped EXCEPT ![c] = today]
        /\ UNCHANGED <<today, act, seat, anchor>>
    BY <1>4 DEF Stop
  <2>2. stopped' \in [Codes -> 0 .. today']
    BY <1>0, <2>1 DEF Dates
  <2>3. \A d \in Codes : stopped'[d] = IF d = c THEN today ELSE stopped[d]
    BY <2>1 DEF Dates
  <2>4. \A d \in Codes : stopped'[d] # 0 => act[d] # 0 /\ act[d] <= stopped'[d]
    BY <1>0, <2>1, <2>3 DEF Dates
  <2> QED BY <2>1, <2>2, <2>4 DEF Dates
<1>5. CASE UNCHANGED backend /\ KeepAnchor
  <2>1. anchor' = IF Activated = {} THEN anchor ELSE Anchor
    BY <1>5 DEF KeepAnchor
  <2>2. anchor' \in 0 .. today /\ (anchor' # 0 =>
            Activated # {} /\ \A c \in Activated : anchor' <= act[c])
    BY <1>0, <2>1, AnchorIs DEF Dates
  <2> QED BY <1>5, <2>2 DEF Dates, backend
<1> QED
  BY <1>1, <1>2, <1>3, <1>4, <1>5
  DEF Next, vars, backend, Look, Press, SendPhoto, Forget, ConfirmRead, ConfirmMark,
      Reject, Restart

----------------------------------------------------------------------------
(* The ledger.                                                             *)

\* What was paid when the last proof was confirmed, and what is paid since.
PaidInLedger ==
    IF audit = <<>> THEN 0 ELSE audit[Len(audit)].before + audit[Len(audit)].amount

LedgerRow == [proof : Nat, before : Nat, amount : Nat]

Money ==
    /\ proofs \in Seq(Proof(Nat \ {0}))
    /\ chat \in [Members -> Nat]
    /\ audit \in Seq(LedgerRow)
    /\ \A n \in DOMAIN audit : audit[n].proof \in DOMAIN proofs
    /\ job \in [proof : Nat, paid : Nat]

\* The ledger adds up to the sum of the confirmed proofs, and so does the job
\* of a confirmation that is not over.
Ledger ==
    /\ AuditChain
    /\ Paid = PaidInLedger
    /\ job # Idle => job.paid = Paid

Books == IInv /\ Dates /\ Money /\ Ledger

LEMMA AccruedType ==
    ASSUME Dates
    PROVE  Accrued \in Int
<1> DEFINE T == 0 .. Current
           f == [i \in T |-> Charge(i)]
<1>1. Anchor \in Int /\ today \in Int
  BY AnchorIs, BillingAssumption DEF Dates
<1>2. Current \in Nat
  BY <1>1, CycleIndexType DEF Current
<1>3. IsFiniteSet(T)
  BY <1>2, FS_Interval
<1>4. \A i \in T : f[i] = Charge(i)
  OBVIOUS
<1>5. \A i \in T : f[i] \in Int
  BY <1>4, ChargeType
<1> HIDE DEF f
<1>6. PICK fold : IsFold(fold, f, T)
  <2> HIDE DEF T
  <2> QED BY <1>3, <1>5, FoldExists
<1>7. Accrued = fold[T]
  <2> HIDE DEF T
  <2>1. T = 0 .. Current
    BY DEF T
  <2> QED BY <1>3, <1>4, <1>6, <2>1, AccruedFold
<1>8. T \in SUBSET T
  OBVIOUS
<1> QED BY <1>6, <1>7, <1>8 DEF IsFold

\* What is due is what is left to pay, or nothing.
LEMMA MaxIs ==
    ASSUME NEW x \in Int
    PROVE  Max({0, x}) = IF x > 0 THEN x ELSE 0
<1> DEFINE m == IF x > 0 THEN x ELSE 0
<1>1. m \in {0, x} /\ \A y \in {0, x} : m >= y
  OBVIOUS
<1>2. \A z \in {0, x} : (\A y \in {0, x} : z >= y) => z = m
  OBVIOUS
<1>3. PICK z : z = Max({0, x})
  OBVIOUS
<1>4. z \in {0, x} /\ \A y \in {0, x} : z >= y
  BY <1>1, <1>3 DEF Max
<1> QED BY <1>2, <1>3, <1>4

LEMMA DueType ==
    ASSUME Dates, Paid \in Int
    PROVE  Due \in Nat
<1>1. Accrued - Paid \in Int
  BY AccruedType
<1> QED BY <1>1, MaxIs DEF Due
\* The ledger says that what is paid is a number.
LEMMA PaidType ==
    ASSUME Money, Ledger
    PROVE  Paid \in Nat
<1>1. CASE audit = <<>>
  BY <1>1 DEF Ledger, PaidInLedger
<1>2. CASE audit # <<>>
  <2>1. /\ audit \in Seq(LedgerRow)
        /\ Len(audit) \in DOMAIN audit
    BY <1>2 DEF Money
  <2>2. audit[Len(audit)] \in LedgerRow
    BY <2>1
  <2> QED BY <1>2, <2>2 DEF Ledger, PaidInLedger, LedgerRow
<1> QED BY <1>1, <1>2

\* Initially nothing is paid and the ledger is empty.
LEMMA InitBooks == Init => Books
<1> SUFFICES ASSUME Init PROVE Books
  OBVIOUS
<1>1. proofs = <<>> /\ audit = <<>> /\ chat = [m \in Members |-> 0] /\ job = Idle
  BY DEF Init
<1>2. Money
  BY <1>1 DEF Money, Idle, LedgerRow
<1>3. Confirmed(proofs) = {}
  BY <1>1 DEF Confirmed
<1>4. Paid = 0
  <2> DEFINE f == [p \in {} |-> 0]
  <2>1. IsFiniteSet({})
    BY FS_EmptySet
  <2>2. PICK fold : IsFold(fold, f, {})
    BY <2>1, FoldExists
  <2>3. \A p \in Confirmed(proofs) : f[p] = proofs[p].amount
    BY <1>3
  <2>4. Confirmed(proofs) \subseteq {}
    BY <1>3
  <2> HIDE DEF f
  <2>5. PaidOf(proofs) = fold[Confirmed(proofs)]
    BY <2>1, <2>2, <2>3, <2>4, PaidFold
  <2> QED BY <1>3, <2>2, <2>5, PaidIs DEF IsFold
<1>5. AuditChain
  <2>1. Cardinality({p \in DOMAIN proofs : Counted(p)}) = 0 /\ Len(audit) = 0
    BY <1>1, <1>3, FS_EmptySet DEF Confirmed, Counted
  <2> QED BY <1>1, <2>1 DEF AuditChain
<1> QED BY <1>1, <1>2, <1>4, <1>5, InitIInv, InitDates DEF Books, Ledger, PaidInLedger

\* The rows, the confirmed proofs and the amounts: all that the ledger is about.
Chain(ps, au) ==
    /\ Cardinality(Confirmed(ps)) = Len(au)
    /\ \A n \in DOMAIN au :
          /\ ps[au[n].proof].status = "confirmed"
          /\ ps[au[n].proof].amount = au[n].amount
          /\ au[n].before = IF n = 1 THEN 0 ELSE au[n - 1].before + au[n - 1].amount

\* The two ways to say it are one.
LEMMA ChainIs ==
    /\ AuditChain <=> Chain(proofs, audit)
    /\ AuditChain' <=> Chain(proofs', audit')
  BY DEF AuditChain, Chain, Confirmed, Counted

\* Every confirmed proof is one of finitely many, with a number for an amount.
LEMMA ConfirmedFinite ==
    ASSUME NEW ps, ps \in Seq(Proof(Nat \ {0}))
    PROVE  /\ IsFiniteSet(Confirmed(ps))
           /\ \A p \in DOMAIN ps : ps[p].amount \in Nat \ {0}
<1>1. DOMAIN ps = 1 .. Len(ps) /\ Len(ps) \in Nat
  OBVIOUS
<1>2. IsFiniteSet(DOMAIN ps)
  BY <1>1, FS_Interval
<1>3. \A p \in DOMAIN ps : ps[p] \in Proof(Nat \ {0})
  OBVIOUS
<1> QED BY <1>2, <1>3, FS_Subset DEF Confirmed, Proof

\* Nothing happens to the ledger while no proof is confirmed.
LEMMA LedgerKept ==
    ASSUME Money, Ledger, UNCHANGED audit,
           DOMAIN proofs \subseteq DOMAIN proofs', Confirmed(proofs') = Confirmed(proofs),
           \A p \in DOMAIN proofs : proofs'[p].amount = proofs[p].amount,
           \A p \in Confirmed(proofs) : proofs'[p].status = "confirmed",
           job' # Idle => job'.paid = Paid
    PROVE  Ledger'
<1>1. Paid' = Paid
  <2>1. IsFiniteSet(Confirmed(proofs)) /\ \A p \in DOMAIN proofs : proofs[p].amount \in Int
    BY ConfirmedFinite DEF Money
  <2>2. Confirmed(proofs) \subseteq DOMAIN proofs
    BY DEF Confirmed
  <2>3. PaidOf(proofs') = PaidOf(proofs)
    BY <2>1, <2>2, PaidStays
  <2> QED BY <2>3, PaidIs
<1>2. Chain(proofs', audit')
  <2>1. \A n \in DOMAIN audit : audit[n].proof \in Confirmed(proofs)
    BY ChainIs DEF Money, Ledger, Chain, Confirmed
  <2>2. \A n \in DOMAIN audit : audit[n].proof \in DOMAIN proofs
    BY DEF Money
  <2> QED BY <2>1, <2>2, ChainIs DEF Ledger, Chain
<1>3. Paid' = PaidInLedger'
  BY <1>1 DEF Ledger, PaidInLedger
<1> QED BY <1>1, <1>2, <1>3, ChainIs DEF Ledger

\* A confirmed proof is a row of the ledger.
LEMMA LedgerGrows ==
    ASSUME Money, Ledger, NEW p \in DOMAIN proofs, Submitted(p),
           DOMAIN proofs' = DOMAIN proofs, proofs'[p].status = "confirmed",
           \A q \in DOMAIN proofs :
                /\ proofs'[q].amount = proofs[q].amount
                /\ q # p => proofs'[q] = proofs[q],
           audit' = Append(audit, [proof |-> p, before |-> Paid,
                                   amount |-> proofs[p].amount]),
           job' = Idle
    PROVE  Ledger'
<1> DEFINE row == [proof |-> p, before |-> Paid, amount |-> proofs[p].amount]
           size == Len(audit)
<1>0. /\ proofs \in Seq(Proof(Nat \ {0})) /\ IsFiniteSet(Confirmed(proofs))
      /\ \A q \in DOMAIN proofs : proofs[q].amount \in Nat \ {0}
  BY ConfirmedFinite DEF Money
<1>1. p \notin Confirmed(proofs) /\ Confirmed(proofs') = Confirmed(proofs) \cup {p}
  BY DEF Confirmed, Submitted
<1>2. Paid' = Paid + proofs[p].amount
  <2>1. \A q \in Confirmed(proofs) :
            proofs[q].amount \in Int /\ proofs'[q].amount = proofs[q].amount
    BY <1>0 DEF Confirmed
  <2>2. proofs[p].amount \in Int /\ proofs'[p].amount = proofs[p].amount
    BY <1>0
  <2>3. PaidOf(proofs') = PaidOf(proofs) + proofs'[p].amount
    BY <1>0, <1>1, <2>1, <2>2, PaidGrows
  <2> QED BY <2>3, PaidIs
<1>3. /\ audit \in Seq(LedgerRow) /\ size \in Nat
      /\ DOMAIN audit = 1 .. size
      /\ \A n \in DOMAIN audit : audit[n].proof \in DOMAIN proofs
  BY DEF Money
<1>4. row.proof = p /\ row.before = Paid /\ row.amount = proofs[p].amount
  OBVIOUS
<1>5. audit' = Append(audit, row)
  OBVIOUS
<1> HIDE DEF row
<1>6. /\ Len(audit') = size + 1 /\ DOMAIN audit' = 1 .. size + 1
      /\ \A n \in 1 .. size : audit'[n] = audit[n]
      /\ audit'[size + 1] = row
  BY <1>3, <1>5
<1>7. Chain(proofs, audit)
  BY ChainIs DEF Ledger
<1> HIDE DEF size
<1>8. Cardinality(Confirmed(proofs')) = size + 1
  <2>1. Cardinality(Confirmed(proofs) \cup {p}) = Cardinality(Confirmed(proofs)) + 1
    BY <1>0, <1>1, FS_AddElement
  <2> QED BY <1>1, <1>7, <2>1 DEF Chain, size
<1>9. ASSUME NEW n \in 1 .. size
       PROVE  /\ proofs'[audit'[n].proof].status = "confirmed"
              /\ proofs'[audit'[n].proof].amount = audit'[n].amount
              /\ audit'[n].before =
                    IF n = 1 THEN 0 ELSE audit'[n - 1].before + audit'[n - 1].amount
  <2>1. audit'[n] = audit[n] /\ (n # 1 => audit'[n - 1] = audit[n - 1])
    BY <1>3, <1>6
  <2>2. /\ proofs[audit[n].proof].status = "confirmed"
        /\ proofs[audit[n].proof].amount = audit[n].amount
        /\ audit[n].before = IF n = 1 THEN 0 ELSE audit[n - 1].before + audit[n - 1].amount
    BY <1>3, <1>7 DEF Chain
  <2>3. audit[n].proof \in DOMAIN proofs /\ audit[n].proof # p
    BY <1>3, <2>2 DEF Submitted
  <2> QED BY <2>1, <2>2, <2>3
<1>10. row.before = IF size + 1 = 1 THEN 0 ELSE audit[size].before + audit[size].amount
  <2>1. audit = <<>> <=> size = 0
    BY <1>3 DEF size
  <2>2. size + 1 = 1 <=> size = 0
    BY <1>3
  <2> QED BY <1>4, <2>1, <2>2 DEF Ledger, PaidInLedger, size
<1>11. /\ proofs'[row.proof].status = "confirmed"
       /\ proofs'[row.proof].amount = row.amount
  BY <1>4
<1>12. Chain(proofs', audit')
  <2>1. \A n \in DOMAIN audit' : n \in 1 .. size \/ n = size + 1
    BY <1>3, <1>6
  <2>2. size + 1 # 1 => audit'[(size + 1) - 1] = audit[size]
    <3>1. size + 1 # 1 => size \in 1 .. size /\ (size + 1) - 1 = size
      BY <1>3
    <3> QED BY <1>6, <3>1
  <2>3. ASSUME NEW n \in DOMAIN audit'
        PROVE  /\ proofs'[audit'[n].proof].status = "confirmed"
               /\ proofs'[audit'[n].proof].amount = audit'[n].amount
               /\ audit'[n].before =
                    IF n = 1 THEN 0 ELSE audit'[n - 1].before + audit'[n - 1].amount
    <3>1. CASE n = size + 1
      BY <1>6, <1>10, <1>11, <2>2, <3>1
    <3>2. CASE n # size + 1
      BY <1>9, <2>1, <3>2
    <3> QED BY <3>1, <3>2
  <2> QED BY <1>6, <1>8, <2>3 DEF Chain
<1>13. Paid' = PaidInLedger'
  <2>1. audit' # <<>> /\ audit'[Len(audit')] = row
    BY <1>3, <1>6
  <2> QED BY <1>2, <1>4, <2>1 DEF PaidInLedger
<1> QED BY <1>12, <1>13, ChainIs DEF Ledger
\* What a step makes of the tables of the payments.
LEMMA MoneyStep ==
    ASSUME Books, [Next]_vars
    PROVE  Money'
<1>0. /\ proofs \in Seq(Proof(Nat \ {0})) /\ chat \in [Members -> Nat]
      /\ audit \in Seq(LedgerRow) /\ job \in [proof : Nat, paid : Nat]
      /\ \A n \in DOMAIN audit : audit[n].proof \in DOMAIN proofs
      /\ Idle \in [proof : Nat, paid : Nat]
  BY DEF Books, Money, Idle
<1>1. CASE UNCHANGED <<proofs, audit, chat, job>>
  BY <1>0, <1>1 DEF Money
<1>2. ASSUME NEW m \in Members, Press(m)
      PROVE  Money'
  <2>1. PICK due : due = Due
    OBVIOUS
  <2>2. due \in Nat
    BY <2>1, PaidType, DueType DEF Books
  <2>3. /\ UNCHANGED <<proofs, audit, job>>
        /\ chat' = chat \/ chat' = [chat EXCEPT ![m] = due]
    BY <1>2, <2>1 DEF Press
  <2>4. chat' \in [Members -> Nat]
    BY <1>0, <2>2, <2>3
  <2> QED BY <1>0, <2>3, <2>4 DEF Money
<1>3. ASSUME NEW m \in Members, SendPhoto(m)
      PROVE  Money'
  <2> DEFINE row == [by |-> m, amount |-> chat[m], status |-> "submitted"]
  <2>1. row \in Proof(Nat \ {0})
    BY <1>0, <1>3 DEF Proof, SendPhoto
  <2>2. proofs' = Append(proofs, row) /\ UNCHANGED <<audit, job>>
    BY <1>3 DEF SendPhoto
  <2> HIDE DEF row
  <2>3. proofs' \in Seq(Proof(Nat \ {0})) /\ DOMAIN proofs \subseteq DOMAIN proofs'
    BY <1>0, <2>1, <2>2
  <2>4. chat' \in [Members -> Nat]
    BY <1>0, <1>3 DEF SendPhoto
  <2> QED BY <1>0, <2>2, <2>3, <2>4 DEF Money
<1>4. ASSUME NEW m \in Members, Forget(m)
      PROVE  Money'
  BY <1>0, <1>4 DEF Forget, Money
<1>5. ASSUME NEW p \in DOMAIN proofs, ConfirmRead(p)
      PROVE  Money'
  <2>1. Paid \in Nat
    BY PaidType DEF Books
  <2>2. p \in Nat
    BY <1>0
  <2>3. job' = [proof |-> p, paid |-> Paid] /\ UNCHANGED <<proofs, audit, chat>>
    BY <1>5 DEF ConfirmRead
  <2> QED BY <1>0, <2>1, <2>2, <2>3 DEF Money
<1>6. ASSUME NEW p \in DOMAIN proofs, Reject(p)
      PROVE  Money'
  <2>1. proofs' = [proofs EXCEPT ![p].status = "rejected"] /\ UNCHANGED <<audit, chat, job>>
    BY <1>6 DEF Reject
  <2>2. proofs' \in Seq(Proof(Nat \ {0})) /\ DOMAIN proofs' = DOMAIN proofs
    BY <1>0, <2>1, DecideOne
  <2> QED BY <1>0, <2>1, <2>2 DEF Money
<1>7. CASE ConfirmMark
  <2> DEFINE row == [proof |-> job.proof, before |-> job.paid,
                     amount |-> proofs[job.proof].amount]
  <2>1. job.proof \in DOMAIN proofs /\ job' = Idle /\ UNCHANGED chat
    BY <1>7 DEF ConfirmMark, Books, IInv, JobOK
  <2>2. CASE Submitted(job.proof)
    <3>1. /\ proofs' = [proofs EXCEPT ![job.proof].status = "confirmed"]
          /\ audit' = Append(audit, row)
      BY <1>7, <2>2 DEF ConfirmMark
    <3>2. proofs' \in Seq(Proof(Nat \ {0})) /\ DOMAIN proofs' = DOMAIN proofs
      BY <1>0, <2>1, <3>1, DecideOne
    <3>3. proofs[job.proof].amount \in Nat
      BY <1>0, <2>1, ConfirmedFinite
    <3>4. job.proof \in Nat /\ job.paid \in Nat
      BY <1>0
    <3>5. row \in LedgerRow /\ row.proof = job.proof
      BY <3>3, <3>4 DEF LedgerRow
    <3> HIDE DEF row
    <3>6. audit' \in Seq(LedgerRow)
      BY <1>0, <3>1, <3>5
    <3>7. \A n \in DOMAIN audit' :
             (n \in DOMAIN audit /\ audit'[n] = audit[n]) \/ audit'[n] = row
      BY <1>0, <3>1
    <3>8. \A n \in DOMAIN audit' : audit'[n].proof \in DOMAIN proofs'
      BY <1>0, <2>1, <3>2, <3>5, <3>7
    <3> QED BY <1>0, <2>1, <3>2, <3>6, <3>8 DEF Money
  <2>3. CASE ~Submitted(job.proof)
    BY <1>0, <1>7, <2>1, <2>3 DEF ConfirmMark, Money
  <2> QED BY <2>2, <2>3
<1>8. CASE Restart
  BY <1>0, <1>8 DEF Restart, Money
<1> QED
  BY <1>1, <1>2, <1>3, <1>4, <1>5, <1>6, <1>7, <1>8
  DEF Next, vars, NextDay, Look, Stop, Activate

\* No step breaks the ledger: while a confirmation is on its way, what it found
\* paid is still what is paid, for no other handler runs.
LEMMA LedgerStep ==
    ASSUME Books, [Next]_vars
    PROVE  Ledger'
<1>0. Money /\ Ledger /\ proofs \in Seq(Proof(Nat \ {0}))
  BY DEF Books, Money
<1>1. CASE UNCHANGED <<proofs, audit>> /\ (job' # Idle => job'.paid = Paid)
  <2>1. \A p \in Confirmed(proofs) : proofs[p].status = "confirmed"
    BY DEF Confirmed
  <2> QED BY <1>0, <1>1, <2>1, LedgerKept
<1>2. CASE UNCHANGED <<proofs, audit, job>>
  BY <1>0, <1>1, <1>2 DEF Ledger
<1>3. ASSUME NEW p \in DOMAIN proofs, ConfirmRead(p)
      PROVE  Ledger'
  BY <1>1, <1>3 DEF ConfirmRead
<1>4. ASSUME NEW m \in Members, SendPhoto(m)
      PROVE  Ledger'
  <2> DEFINE row == [by |-> m, amount |-> chat[m], status |-> "submitted"]
  <2>1. proofs' = Append(proofs, row) /\ UNCHANGED <<audit, job>> /\ job = Idle
    BY <1>4 DEF SendPhoto
  <2>2. row.status = "submitted"
    OBVIOUS
  <2> HIDE DEF row
  <2>3. /\ DOMAIN proofs' = DOMAIN proofs \cup {Len(proofs) + 1}
        /\ Len(proofs) + 1 \notin DOMAIN proofs
        /\ \A p \in DOMAIN proofs : proofs'[p] = proofs[p]
        /\ proofs'[Len(proofs) + 1] = row
    BY <1>0, <2>1
  <2>4. Confirmed(proofs') = Confirmed(proofs)
    BY <2>2, <2>3 DEF Confirmed
  <2>5. \A p \in Confirmed(proofs) : proofs'[p].status = "confirmed"
    BY <2>3 DEF Confirmed
  <2> QED BY <1>0, <2>1, <2>3, <2>4, <2>5, LedgerKept
<1>5. ASSUME NEW p \in DOMAIN proofs, Reject(p)
      PROVE  Ledger'
  <2>1. /\ Submitted(p) /\ proofs' = [proofs EXCEPT ![p].status = "rejected"]
        /\ job = Idle /\ UNCHANGED <<audit, job>>
    BY <1>5 DEF Reject
  <2>2. /\ DOMAIN proofs' = DOMAIN proofs
        /\ proofs'[p].status = "rejected"
        /\ \A q \in DOMAIN proofs :
             /\ proofs'[q].amount = proofs[q].amount
             /\ q # p => proofs'[q] = proofs[q]
    BY <1>0, <2>1, DecideOne
  <2>3. p \notin Confirmed(proofs) /\ Confirmed(proofs') = Confirmed(proofs)
    BY <2>1, <2>2 DEF Confirmed, Submitted
  <2>4. \A q \in Confirmed(proofs) : proofs'[q].status = "confirmed"
    BY <2>2, <2>3 DEF Confirmed
  <2> QED BY <1>0, <2>1, <2>2, <2>3, <2>4, LedgerKept
<1>6. CASE ConfirmMark
  <2>1. job # Idle /\ job.proof \in DOMAIN proofs /\ job' = Idle
    BY <1>6 DEF ConfirmMark, Books, IInv, JobOK
  <2>2. job.paid = Paid
    BY <1>0, <2>1 DEF Ledger
  <2>3. CASE Submitted(job.proof)
    <3>1. /\ proofs' = [proofs EXCEPT ![job.proof].status = "confirmed"]
          /\ audit' = Append(audit, [proof |-> job.proof, before |-> Paid,
                                     amount |-> proofs[job.proof].amount])
      BY <1>6, <2>2, <2>3 DEF ConfirmMark
    <3>2. /\ DOMAIN proofs' = DOMAIN proofs
          /\ proofs'[job.proof].status = "confirmed"
          /\ \A q \in DOMAIN proofs :
               /\ proofs'[q].amount = proofs[q].amount
               /\ q # job.proof => proofs'[q] = proofs[q]
      BY <1>0, <2>1, <3>1, DecideOne
    <3> QED BY <1>0, <2>1, <2>3, <3>1, <3>2, LedgerGrows
  <2>4. CASE ~Submitted(job.proof)
    BY <1>1, <1>6, <2>1, <2>4 DEF ConfirmMark
  <2> QED BY <2>3, <2>4
<1>7. CASE Restart
  BY <1>1, <1>7 DEF Restart
<1> QED
  BY <1>2, <1>3, <1>4, <1>5, <1>6, <1>7
  DEF Next, vars, NextDay, Look, Stop, Activate, Press, Forget

\* Dates, payments and ledger stay in order for good.
LEMMA BooksInvariance == Spec => []Books
<1>1. Init => Books
  BY InitBooks
<1>2. Books /\ [Next]_vars => Books'
  BY NextIInv, DatesStep, MoneyStep, LedgerStep DEF Books
<1> QED BY <1>1, <1>2, PTL DEF Spec

\* The tables keep their types.
THEOREM TypeCorrect == Spec => []TypeOK
<1>1. Books => TypeOK
  <2> SUFFICES ASSUME Books PROVE TypeOK
    OBVIOUS
  <2>1. /\ today \in 1 .. MaxDay /\ anchor \in 0 .. MaxDay
        /\ act \in [Codes -> 0 .. MaxDay] /\ stopped \in [Codes -> 0 .. MaxDay]
        /\ seat \in [Codes -> Seats \cup {None}]
    <3>1. 0 .. today \subseteq 0 .. MaxDay /\ today \in 1 .. MaxDay
      BY BillingAssumption DEF Books, Dates
    <3> QED BY <3>1 DEF Books, Dates
  <2>2. \A p \in DOMAIN proofs :
          proofs[p] \in [by : Members, amount : Nat \ {0},
                         status : {"submitted", "confirmed", "rejected"}]
    <3>1. \A p \in DOMAIN proofs : proofs[p] \in Proof(Nat \ {0})
      BY DEF Books, Money
    <3> QED BY <3>1 DEF Proof
  <2>3. \A n \in DOMAIN audit :
          audit[n] \in [proof : DOMAIN proofs, before : Nat, amount : Nat]
    <3>1. \A n \in DOMAIN audit : audit[n] \in LedgerRow /\ audit[n].proof \in DOMAIN proofs
      BY DEF Books, Money
    <3> QED BY <3>1 DEF LedgerRow
  <2>4. job \in [proof : {0} \cup DOMAIN proofs, paid : Nat]
    <3>1. job \in [proof : Nat, paid : Nat] /\ (job = Idle \/ job.proof \in DOMAIN proofs)
      BY DEF Books, IInv, JobOK, Money
    <3> QED BY <3>1 DEF Idle
  <2> QED BY <2>1, <2>2, <2>3, <2>4 DEF TypeOK, Books, Money
<1> QED BY <1>1, BooksInvariance, PTL

\* The snapshots kept for reconciliation form one ledger, however decisions,
\* restarts, looks at the debt and new codes come between them.
THEOREM OneLedger == Spec => []AuditChain
<1>1. Books => AuditChain
  BY DEF Books, Ledger
<1> QED BY <1>1, BooksInvariance, PTL

----------------------------------------------------------------------------
(* The arithmetic of the cycles.                                           *)

\* A number of cycles has more days than a smaller number.
LEMMA ProductGrows ==
    ASSUME NEW x \in Int, NEW y \in Int, NEW k \in Nat, x <= y
    PROVE  x * k <= y * k
<1>1. y * k = x * k + (y - x) * k
  OBVIOUS
<1>2. y - x \in Nat
  OBVIOUS
<1>3. (y - x) * k >= 0
  BY <1>2
<1>4. x * k \in Int /\ y * k \in Int /\ (y - x) * k \in Int
  OBVIOUS
<1> QED BY <1>1, <1>3, <1>4

\* The quotient of a division is where the number lies between two multiples.
LEMMA Quotient ==
    ASSUME NEW x \in Nat, NEW k \in Nat \ {0}
    PROVE  /\ x \div k \in Nat
           /\ (x \div k) * k <= x
           /\ x < (x \div k) * k + k
  OBVIOUS

LEMMA QuotientIs ==
    ASSUME NEW x \in Nat, NEW k \in Nat \ {0}, NEW q \in Int, q * k <= x, x < q * k + k
    PROVE  x \div k = q
<1>1. PICK r \in Nat : r = x \div k /\ r * k <= x /\ x < r * k + k
  BY Quotient
<1>2. (q + 1) * k = q * k + k /\ (r + 1) * k = r * k + k
  OBVIOUS
<1>3. q * k \in Int /\ r * k \in Int
  OBVIOUS
<1>4. CASE q + 1 <= r
  <2>1. (q + 1) * k <= r * k
    BY <1>4, ProductGrows
  <2> QED BY <1>1, <1>2, <1>3, <2>1
<1>5. CASE r + 1 <= q
  <2>1. (r + 1) * k <= q * k
    BY <1>5, ProductGrows
  <2> QED BY <1>1, <1>2, <1>3, <2>1
<1> QED BY <1>1, <1>4, <1>5
\* A day is in the cycle whose first day is the last one not after it.
LEMMA InCycle ==
    ASSUME NEW first \in Int, NEW day \in Int, first <= day
    PROVE  /\ first + CycleIndex(first, day) * CycleDays <= day
           /\ day < first + CycleIndex(first, day) * CycleDays + CycleDays
<1> DEFINE x == day - first
<1>1. x \in Nat /\ CycleDays \in Nat \ {0}
  BY BillingAssumption
<1>2. CycleIndex(first, day) = x \div CycleDays
  <2>1. (IF day > first THEN day - first ELSE 0) = x
    OBVIOUS
  <2> QED BY <2>1 DEF CycleIndex
<1>3. PICK q \in Nat : q = x \div CycleDays /\ q * CycleDays <= x /\ x < q * CycleDays + CycleDays
  BY <1>1, Quotient
<1>4. q * CycleDays \in Int
  BY <1>1
<1>5. first + q * CycleDays <= day /\ day < first + q * CycleDays + CycleDays
  BY <1>1, <1>3, <1>4
<1> QED BY <1>2, <1>3, <1>5

LEMMA CycleIs ==
    ASSUME NEW first \in Int, NEW day \in Int, NEW i \in Int, first <= day,
           first + i * CycleDays <= day, day < first + i * CycleDays + CycleDays
    PROVE  CycleIndex(first, day) = i
<1> DEFINE x == day - first
<1>1. x \in Nat /\ CycleDays \in Nat \ {0} /\ i * CycleDays \in Int
  BY BillingAssumption
<1>2. CycleIndex(first, day) = x \div CycleDays
  <2>1. (IF day > first THEN day - first ELSE 0) = x
    OBVIOUS
  <2> QED BY <2>1 DEF CycleIndex
<1>3. i * CycleDays <= x /\ x < i * CycleDays + CycleDays
  BY <1>1
<1> HIDE DEF x
<1> QED BY <1>1, <1>2, <1>3, QuotientIs

\* Later days are not in earlier cycles.
LEMMA CycleGrows ==
    ASSUME NEW first \in Int, NEW day \in Int, NEW later \in Int, first <= day, day <= later
    PROVE  CycleIndex(first, day) <= CycleIndex(first, later)
<1>1. PICK i \in Nat : i = CycleIndex(first, day)
  BY CycleIndexType
<1>2. PICK j \in Nat : j = CycleIndex(first, later)
  BY CycleIndexType
<1>3. first + i * CycleDays <= day /\ later < first + j * CycleDays + CycleDays
  BY <1>1, <1>2, InCycle
<1>4. CycleDays \in Nat /\ i * CycleDays \in Int /\ j * CycleDays \in Int
  BY BillingAssumption
<1>5. CASE i <= j
  BY <1>1, <1>2, <1>5
<1>6. CASE j + 1 <= i
  <2>1. (j + 1) * CycleDays <= i * CycleDays
    BY <1>4, <1>6, ProductGrows
  <2>2. (j + 1) * CycleDays = j * CycleDays + CycleDays
    BY <1>4
  <2> QED BY <1>3, <1>4, <2>1, <2>2
<1> QED BY <1>5, <1>6

\* A code ends on the day it was activated or after it.
LEMMA SupportEndIs ==
    ASSUME Dates, NEW c \in Activated
    PROVE  /\ act[c] \in 1 .. today /\ SupportEnd(c) \in Int /\ act[c] <= SupportEnd(c)
           /\ stopped[c] # 0 => SupportEnd(c) <= stopped[c]
<1>1. c \in Codes /\ act[c] \in 1 .. today /\ DaysOf[c] \in Nat \ {0}
  BY BillingAssumption DEF Activated, Dates
<1>2. stopped[c] \in 0 .. today /\ today \in Nat /\ (stopped[c] # 0 => act[c] <= stopped[c])
  BY <1>1, BillingAssumption DEF Dates
<1> QED BY <1>1, <1>2 DEF SupportEnd

\* The days of a code and the cycles, for one code and one cycle.
CountsIn(c, i) ==
    \E day \in act[c] .. SupportEnd(c) - 1 : CycleIndex(Anchor, day) = i

\* Support is charged in the cycles of the days on which a code counts: the first of them
\* is the day of its activation or the first day of the cycle.
LEMMA SupportedIs ==
    ASSUME Dates, NEW i \in 0 .. Current, NEW c \in Activated
    PROVE  c \in Supported(i) <=> CountsIn(c, i)
<1>1. PICK first \in Int : first = Anchor
  BY AnchorIs
<1>2. PICK a \in Int : a = act[c] /\ first <= a /\ a <= today
  BY <1>1, AnchorIs, SupportEndIs DEF Dates
<1>3. PICK e \in Int : e = SupportEnd(c)
  BY SupportEndIs
<1>4. PICK now \in Int : now = today /\ a <= now
  BY <1>2, BillingAssumption DEF Dates
<1>5. PICK cur \in Nat : cur = Current /\ cur = CycleIndex(first, now)
  BY <1>1, <1>4, CycleIndexType DEF Current
<1>6. i \in Nat /\ i <= cur
  BY <1>5
<1> DEFINE from == first + i * CycleDays
<1>7. CycleDays \in Nat \ {0} /\ from \in Int
  BY <1>6, BillingAssumption
<1>8. c \in Supported(i) <=>
        /\ e > a /\ e > first /\ i >= CycleIndex(first, a)
        /\ i =< CycleIndex(first, e - 1) /\ a < from + CycleDays /\ e > from
  BY <1>1, <1>2, <1>3, <1>4, <1>5, <1>6 DEF Supported, Overlaps
<1>9. CountsIn(c, i) <=> \E day \in Int : a <= day /\ day < e /\ CycleIndex(first, day) = i
  BY <1>1, <1>2, <1>3 DEF CountsIn
<1>10. ASSUME c \in Supported(i)
       PROVE  CountsIn(c, i)
  <2>1. PICK day \in Int : day = IF from > a THEN from ELSE a
    BY <1>7
  <2>2. a <= day /\ day < e /\ first <= day /\ from <= day /\ day < from + CycleDays
    BY <1>2, <1>7, <1>8, <1>10, <2>1
  <2>3. CycleIndex(first, day) = i
    BY <1>6, <2>2, CycleIs
  <2> QED BY <1>9, <2>2, <2>3
<1>11. ASSUME CountsIn(c, i)
       PROVE  c \in Supported(i)
  <2>1. PICK day \in Int : a <= day /\ day < e /\ CycleIndex(first, day) = i
    BY <1>9, <1>11
  <2>2. from <= day /\ day < from + CycleDays
    BY <1>2, <2>1, InCycle
  <2>3. CycleIndex(first, a) <= i
    BY <1>2, <2>1, CycleGrows
  <2>4. i <= CycleIndex(first, e - 1)
    BY <1>2, <2>1, CycleGrows
  <2>5. CycleIndex(first, a) \in Nat /\ CycleIndex(first, e - 1) \in Nat
    <3>1. e - 1 \in Int
      OBVIOUS
    <3>2. CycleIndex(first, a) \in Nat
      BY CycleIndexType
    <3>3. CycleIndex(first, e - 1) \in Nat
      BY <3>1, CycleIndexType
    <3> QED BY <3>2, <3>3
  <2>6. e > a /\ e > first /\ a < from + CycleDays /\ e > from
    BY <1>2, <1>7, <2>1, <2>2
  <2>7. i >= CycleIndex(first, a) /\ i =< CycleIndex(first, e - 1)
    BY <1>6, <2>3, <2>4, <2>5
  <2> QED BY <1>8, <2>6, <2>7
<1> QED BY <1>10, <1>11

\* Every customer is billed for the cycles in which one of its bots counts, and for no
\* other: whatever the lengths of the codes and of the cycles, and whenever a code is
\* activated or stopped.
THEOREM BilledWhatIsUsed == Spec => []SeatsMatchUse
<1>1. Books => SeatsMatchUse
  <2> SUFFICES ASSUME Books, NEW i \in 0 .. Current
               PROVE  BilledSeats(i) = {seat[c] : c \in {d \in Activated : CountsIn(d, i)}}
    BY DEF SeatsMatchUse, CountsIn
  <2>1. Supported(i) \subseteq Activated
    BY DEF Supported
  <2>2. Supported(i) = {d \in Activated : CountsIn(d, i)}
    BY <2>1, SupportedIs DEF Books
  <2> QED BY <2>2 DEF BilledSeats
<1> QED BY <1>1, BooksInvariance, PTL

----------------------------------------------------------------------------
(* The past of the bills.  What holds of every state holds of the next.    *)

LEMMA AnchorAfter ==
    (Dates =>
       /\ Anchor \in 1 .. today
       /\ \A c \in Activated : Anchor <= act[c]
       /\ anchor = 0 /\ Activated # {} => \E c \in Activated : Anchor = act[c]
       /\ Activated = {} => Anchor = today)'
  BY AnchorIs, PTL

LEMMA SupportedAfter ==
    (\A i \in 0 .. Current : \A c \in Activated :
        Dates => (c \in Supported(i) <=> CountsIn(c, i)))'
<1>1. \A i \in 0 .. Current : \A c \in Activated :
        Dates => (c \in Supported(i) <=> CountsIn(c, i))
  BY SupportedIs
<1> QED BY <1>1, PTL

LEMMA ChargeAfter ==
    (\A i : IsFiniteSet(FeeCodes(i)) /\ IsFiniteSet(BilledSeats(i)) /\ Charge(i) \in Int)'
<1>1. \A i : IsFiniteSet(FeeCodes(i)) /\ IsFiniteSet(BilledSeats(i)) /\ Charge(i) \in Int
  BY ChargeType
<1> QED BY <1>1, PTL

\* What a step makes of the report: days pass, a code is activated today, an
\* activated one is stopped today, the first day is written as it is.
ReportMoves ==
    /\ today <= today'
    /\ \A c \in Codes :
         /\ act[c] # 0 => act'[c] = act[c] /\ seat'[c] = seat[c]
         /\ act[c] = 0 => act'[c] \in {0, today}
         /\ stopped'[c] # stopped[c] => stopped[c] = 0 /\ act[c] # 0 /\ stopped'[c] = today
    /\ anchor' # anchor => Activated # {} /\ anchor' = Anchor

\* Every step is such a move.
LEMMA ReportStep ==
    ASSUME Dates, [Next]_vars
    PROVE  ReportMoves
<1>0. today \in Nat /\ act \in [Codes -> 0 .. today] /\ seat \in [Codes -> Seats \cup {None}]
      /\ stopped \in [Codes -> 0 .. today]
  BY BillingAssumption DEF Dates
<1>1. CASE UNCHANGED <<backend, anchor>>
  BY <1>0, <1>1 DEF ReportMoves, backend
<1>2. CASE NextDay
  BY <1>0, <1>2 DEF NextDay, ReportMoves
<1>3. ASSUME NEW c \in Codes, NEW s \in Seats, Activate(c, s)
      PROVE  ReportMoves
  <2>1. act[c] = 0 /\ UNCHANGED <<today, stopped, anchor>>
    BY <1>3 DEF Activate
  <2>2. /\ \A d \in Codes : act'[d] = IF d = c THEN today ELSE act[d]
        /\ \A d \in Codes : d # c => seat'[d] = seat[d]
    BY <1>0, <1>3 DEF Activate
  <2> QED BY <1>0, <2>1, <2>2 DEF ReportMoves
<1>4. ASSUME NEW c \in Codes, Stop(c)
      PROVE  ReportMoves
  <2>1. act[c] # 0 /\ stopped[c] = 0 /\ UNCHANGED <<today, act, seat, anchor>>
    BY <1>4 DEF Stop
  <2>2. \A d \in Codes : stopped'[d] = IF d = c THEN today ELSE stopped[d]
    BY <1>0, <1>4 DEF Stop
  <2> QED BY <1>0, <2>1, <2>2 DEF ReportMoves
<1>5. CASE UNCHANGED backend /\ KeepAnchor
  BY <1>0, <1>5 DEF ReportMoves, KeepAnchor, backend
<1> QED
  BY <1>1, <1>2, <1>3, <1>4, <1>5
  DEF Next, vars, backend, Look, Press, SendPhoto, Forget, ConfirmRead, ConfirmMark,
      Reject, Restart

\* Once a code is activated the first day of the first cycle never moves, written or
\* not, and no code is activated in the past.
LEMMA AnchorStays ==
    ASSUME Dates, Dates', ReportMoves, Activated # {}
    PROVE  /\ Anchor' = Anchor /\ Anchor \in Nat /\ Anchor <= today
           /\ Activated \subseteq Activated'
           /\ \A c \in Activated : act'[c] = act[c] /\ seat'[c] = seat[c]
           /\ \A c \in Activated' \ Activated : act'[c] = today
           /\ Current \in Nat /\ Current' \in Nat /\ Current <= Current'
<1>0. /\ today \in Nat /\ today' \in Nat /\ today <= today'
      /\ \A c \in Codes : act[c] \in Nat /\ act'[c] \in Nat /\ act[c] <= today
  BY BillingAssumption DEF Dates, ReportMoves
<1>1. /\ Activated \subseteq Activated'
      /\ \A c \in Activated : act'[c] = act[c] /\ seat'[c] = seat[c]
      /\ \A c \in Activated' \ Activated : act'[c] = today
  BY DEF ReportMoves, Activated
<1>2. /\ Anchor \in Nat /\ 1 <= Anchor /\ Anchor <= today
      /\ \A c \in Activated : Anchor <= act[c]
      /\ anchor = 0 => \E c \in Activated : Anchor = act[c]
  BY <1>0, AnchorIs
<1>3. /\ Anchor' \in Nat /\ \A c \in Activated' : Anchor' <= act'[c]
      /\ anchor' = 0 => \E c \in Activated' : Anchor' = act'[c]
  <2>1. Activated' # {}
    BY <1>1
  <2> QED BY <1>0, <2>1, AnchorAfter
<1>4. Anchor' = Anchor
  <2>1. CASE anchor' # anchor
    <3>1. anchor' = Anchor /\ anchor' # 0
      BY <1>2, <2>1 DEF ReportMoves
    <3>2. Anchor' = anchor'
      BY <3>1 DEF Anchor
    <3> QED BY <3>1, <3>2
  <2>2. CASE anchor' = anchor /\ anchor # 0
    BY <2>2 DEF Anchor
  <2>3. CASE anchor' = anchor /\ anchor = 0
    <3>1. PICK c \in Activated : Anchor = act[c]
      BY <1>2, <2>3
    <3>2. PICK d \in Activated' : Anchor' = act'[d]
      BY <1>3, <2>3
    <3>3. Anchor' <= act'[c] /\ act'[c] = act[c]
      BY <1>1, <1>3
    <3>4. Anchor <= act'[d]
      BY <1>1, <1>2
    <3> QED BY <1>2, <1>3, <3>1, <3>2, <3>3, <3>4
  <2> QED BY <2>1, <2>2, <2>3
<1>5. PICK first \in Nat : first = Anchor
  BY <1>2
<1>6. Current = CycleIndex(first, today) /\ Current' = CycleIndex(first, today')
  BY <1>4, <1>5 DEF Current
<1>7. \A day \in Nat : CycleIndex(first, day) \in Nat
  <2> SUFFICES ASSUME NEW day \in Nat PROVE CycleIndex(first, day) \in Nat
    OBVIOUS
  <2> QED BY CycleIndexType
<1>8. CycleIndex(first, today) <= CycleIndex(first, today')
  BY <1>0, <1>2, <1>5, CycleGrows
<1> QED BY <1>0, <1>1, <1>2, <1>4, <1>6, <1>7, <1>8
\* On the days of a cycle that is over a code counts as before, or did not count and
\* does not, for it can only be stopped or activated today.
LEMMA CountsAsBefore ==
    ASSUME Dates, Dates', ReportMoves, NEW c \in Activated, NEW i \in 0 .. Current - 1
    PROVE  CountsIn(c, i)' <=> CountsIn(c, i)
<1>0. /\ Anchor' = Anchor /\ Anchor \in Nat /\ act'[c] = act[c]
      /\ Current \in Nat /\ c \in Activated'
  BY AnchorStays
<1>1. PICK first \in Nat : first = Anchor
  BY <1>0
<1>2. today \in Nat /\ Current = CycleIndex(first, today) /\ i \in Nat /\ i < Current
  BY <1>0, <1>1, BillingAssumption DEF Current, Dates
<1>3. PICK a \in Nat : a = act[c] /\ first <= a
  BY <1>1, AnchorIs, SupportEndIs, BillingAssumption DEF Dates
<1>4. PICK e \in Int : e = SupportEnd(c)
  BY SupportEndIs
<1>5. \/ SupportEnd(c)' = e
      \/ /\ SupportEnd(c)' \in Int
         /\ SupportEnd(c)' = IF e > today THEN today ELSE e
  <2>1. CASE stopped'[c] = stopped[c]
    BY <1>0, <1>4, <2>1 DEF SupportEnd
  <2>2. CASE stopped'[c] # stopped[c]
    <3>1. stopped[c] = 0 /\ stopped'[c] = today /\ today # 0
      BY <2>2 DEF ReportMoves, Activated, Dates
    <3>2. SupportEnd(c) = act[c] + DaysOf[c]
      BY <3>1 DEF SupportEnd
    <3>3. SupportEnd(c)' = IF today < act[c] + DaysOf[c] THEN today ELSE act[c] + DaysOf[c]
      BY <1>0, <3>1 DEF SupportEnd
    <3> QED BY <1>2, <1>4, <3>2, <3>3
  <2> QED BY <2>1, <2>2
<1>6. PICK new \in Int : /\ new = SupportEnd(c)'
                         /\ new = e \/ new = IF e > today THEN today ELSE e
  BY <1>4, <1>5
<1>7. CountsIn(c, i) <=> \E day \in Int : a <= day /\ day < e /\ CycleIndex(first, day) = i
  BY <1>1, <1>3, <1>4 DEF CountsIn
<1>8. CountsIn(c, i)' <=> \E day \in Int : a <= day /\ day < new /\ CycleIndex(first, day) = i
  BY <1>0, <1>1, <1>3, <1>6 DEF CountsIn
<1>9. ASSUME NEW day \in Int, a <= day, CycleIndex(first, day) = i
      PROVE  day < today
  <2>1. CASE today <= day
    <3>1. first <= today
      BY <1>1, AnchorIs
    <3>2. CycleIndex(first, today) <= CycleIndex(first, day)
      BY <1>2, <2>1, <3>1, CycleGrows
    <3> QED BY <1>0, <1>2, <1>9, <3>2
  <2> QED BY <1>2, <2>1
<1>10. \A day \in Int : a <= day /\ CycleIndex(first, day) = i => (day < e <=> day < new)
  BY <1>2, <1>6, <1>9
<1> QED BY <1>7, <1>8, <1>10

\* A code that is activated now counts on no day of a cycle that is over.
LEMMA NewIsLate ==
    ASSUME Dates, Dates', ReportMoves, Activated # {},
           NEW c \in Activated' \ Activated, NEW i \in 0 .. Current - 1
    PROVE  ~CountsIn(c, i)' /\ CycleIndex(Anchor, act'[c]) = Current
<1>0. /\ Anchor' = Anchor /\ Anchor \in Nat /\ Anchor <= today /\ act'[c] = today
      /\ Current \in Nat
  BY AnchorStays
<1>1. PICK first \in Nat : first = Anchor
  BY <1>0
<1>2. today \in Nat /\ Current = CycleIndex(first, today) /\ i \in Nat /\ i < Current
  BY <1>0, <1>1, BillingAssumption DEF Current, Dates
<1>3. ASSUME NEW day \in Int, today <= day
      PROVE  CycleIndex(first, day) # i
  <2>1. CycleIndex(first, today) <= CycleIndex(first, day)
    BY <1>0, <1>1, <1>2, <1>3, CycleGrows
  <2> QED BY <1>0, <1>2, <2>1
<1>4. \A day : day \in today .. SupportEnd(c)' - 1 => day \in Int /\ today <= day
  OBVIOUS
<1>5. ~CountsIn(c, i)'
  BY <1>0, <1>1, <1>3, <1>4 DEF CountsIn
<1> QED BY <1>0, <1>1, <1>2, <1>5

\* A cycle is over: there was an activation.
LEMMA OverMeansActivated ==
    ASSUME Dates, NEW i \in 0 .. Current - 1
    PROVE  Activated # {}
<1> SUFFICES ASSUME Activated = {} PROVE FALSE
  OBVIOUS
<1>1. Anchor = today /\ today \in Nat
  BY AnchorIs, BillingAssumption DEF Dates
<1>2. 0 * CycleDays = 0 /\ CycleDays \in Nat \ {0}
  BY BillingAssumption
<1>3. CycleIndex(today, today) = 0
  BY <1>1, <1>2, CycleIs
<1>4. Current = 0
  BY <1>1, <1>3 DEF Current
<1> QED BY <1>4

\* No step changes what a cycle that is over is billed for.
LEMMA ClosedStep ==
    ASSUME Dates, Dates', ReportMoves, NEW i \in 0 .. Current - 1
    PROVE  FeeCodes(i)' = FeeCodes(i) /\ BilledSeats(i)' = BilledSeats(i)
<1>0. Activated # {}
  BY OverMeansActivated
<1>1. /\ Anchor' = Anchor /\ Current \in Nat /\ Current' \in Nat /\ Current <= Current'
      /\ Activated \subseteq Activated'
      /\ \A c \in Activated : act'[c] = act[c] /\ seat'[c] = seat[c]
  BY <1>0, AnchorStays
<1>2. i \in 0 .. Current /\ i \in 0 .. Current' /\ i # Current
  BY <1>1
<1>3. \A c \in Activated' \ Activated : ~CountsIn(c, i)' /\ CycleIndex(Anchor, act'[c]) = Current
  BY <1>0, NewIsLate
<1>4. FeeCodes(i)' = FeeCodes(i)
  <2>1. FeeCodes(i) = {c \in Activated : CycleIndex(Anchor, act[c]) = i}
    BY DEF FeeCodes
  <2>2. FeeCodes(i)' = {c \in Activated' : CycleIndex(Anchor, act'[c]) = i}
    BY <1>1 DEF FeeCodes
  <2> QED BY <1>1, <1>2, <1>3, <2>1, <2>2
<1>5. Supported(i)' = Supported(i)
  <2>1. Supported(i) \subseteq Activated /\ Supported(i)' \subseteq Activated'
    BY DEF Supported
  <2>2. \A c \in Activated : c \in Supported(i) <=> CountsIn(c, i)
    BY <1>2, SupportedIs
  <2>3. \A c \in Activated' : c \in Supported(i)' <=> CountsIn(c, i)'
    BY <1>2, SupportedAfter
  <2>4. \A c \in Activated : CountsIn(c, i)' <=> CountsIn(c, i)
    BY CountsAsBefore
  <2> QED BY <1>1, <1>3, <2>1, <2>2, <2>3, <2>4
<1>6. Supported(i) \subseteq Activated
  BY DEF Supported
<1>7. BilledSeats(i)' = BilledSeats(i)
  BY <1>1, <1>5, <1>6 DEF BilledSeats
<1> QED BY <1>4, <1>7

\* A cycle that is over is settled, whatever is activated, stopped or written later.
THEOREM CyclesSettle == Spec => ClosedCyclesFixed
<1>1. Books /\ Books' /\ [Next]_vars =>
        [\A i \in 0 .. Current - 1 :
          /\ FeeCodes(i)' = FeeCodes(i)
          /\ BilledSeats(i)' = BilledSeats(i)]_<<backend, anchor>>
  BY ReportStep, ClosedStep DEF Books
<1> QED BY <1>1, BooksInvariance, PTL DEF Spec, ClosedCyclesFixed

----------------------------------------------------------------------------
(* Debt.                                                                   *)

\* A sum grows with its terms and with what is added to it.
LEMMA FoldGrows ==
    ASSUME NEW S, NEW T, IsFiniteSet(T), S \subseteq T,
           NEW f, NEW g, NEW less, NEW more, IsFold(less, f, S), IsFold(more, g, T),
           \A x \in S : f[x] \in Int /\ f[x] <= g[x],
           \A x \in T : g[x] \in Nat
    PROVE  less[S] <= more[T]
<1> DEFINE F == {s \in SUBSET T : ~(less[s \cap S] <= more[s])}
<1>1. CASE F = {}
  <2>1. T \notin F
    BY <1>1
  <2>2. T \cap S = S
    OBVIOUS
  <2> QED BY <2>1, <2>2
<1>2. CASE F # {}
  <2>1. \A s \in F : IsFiniteSet(s)
    BY FS_Subset
  <2>2. PICK s \in F : \A x \in s : s \ {x} \notin F
    <3> HIDE DEF F
    <3> QED BY <1>2, <2>1, LeastSet
  <2>3. s # {}
    <3> SUFFICES ASSUME s = {} PROVE FALSE
      OBVIOUS
    <3>1. s \cap S = {} /\ less[{}] = 0 /\ more[{}] = 0
      BY DEF IsFold
    <3>2. less[s \cap S] = 0 /\ more[s] = 0
      BY <3>1
    <3>3. less[s \cap S] <= more[s]
      BY <3>2
    <3> QED BY <3>3
  <2>4. PICK x : x \in s
    BY <2>3
  <2>5. less[(s \ {x}) \cap S] <= more[s \ {x}]
    BY <2>2, <2>4
  <2>6. /\ more[s] = g[x] + more[s \ {x}] /\ g[x] \in Nat
        /\ more[s \ {x}] \in Int /\ less[(s \ {x}) \cap S] \in Int
    BY <2>4 DEF IsFold
  <2>7. CASE x \in S
    <3>1. /\ x \in s \cap S /\ s \cap S \in SUBSET S
          /\ (s \ {x}) \cap S = (s \cap S) \ {x}
      BY <2>4, <2>7
    <3>2. less[s \cap S] = f[x] + less[(s \ {x}) \cap S]
      BY <3>1 DEF IsFold
    <3>3. f[x] \in Int /\ f[x] <= g[x]
      BY <2>7
    <3>4. less[s \cap S] <= more[s]
      BY <2>5, <2>6, <3>2, <3>3
    <3> QED BY <3>4
  <2>8. CASE x \notin S
    <3>1. (s \ {x}) \cap S = s \cap S
      BY <2>8
    <3>2. less[s \cap S] = less[(s \ {x}) \cap S]
      BY <3>1
    <3>3. less[s \cap S] <= more[s]
      BY <2>5, <2>6, <3>2
    <3> QED BY <3>3
  <2> QED BY <2>7, <2>8
<1> QED BY <1>1, <1>2

\* More codes and more seats cost more.
LEMMA MoreIsDearer ==
    ASSUME NEW n \in Nat, NEW m \in Nat, n <= m
    PROVE  /\ UserFee * n \in Nat /\ UserFee * m \in Nat /\ UserFee * n <= UserFee * m
           /\ BlockFee * Blocks(n) \in Nat /\ BlockFee * Blocks(m) \in Nat
           /\ BlockFee * Blocks(n) <= BlockFee * Blocks(m)
<1>1. UserFee \in Nat /\ BlockFee \in Nat /\ BlockSize \in Nat \ {0}
  BY BillingAssumption
<1>2. PICK p \in Nat : /\ p = Blocks(n) /\ p * BlockSize <= n + BlockSize - 1
                       /\ n + BlockSize - 1 < p * BlockSize + BlockSize
  <2>1. n + BlockSize - 1 \in Nat
    BY <1>1
  <2> QED BY <1>1, <2>1, Quotient DEF Blocks
<1>3. PICK q \in Nat : /\ q = Blocks(m) /\ q * BlockSize <= m + BlockSize - 1
                       /\ m + BlockSize - 1 < q * BlockSize + BlockSize
  <2>1. m + BlockSize - 1 \in Nat
    BY <1>1
  <2> QED BY <1>1, <2>1, Quotient DEF Blocks
<1>4. p <= q
  <2>1. CASE q + 1 <= p
    <3>1. (q + 1) * BlockSize <= p * BlockSize
      BY <1>1, <2>1, ProductGrows
    <3>2. (q + 1) * BlockSize = q * BlockSize + BlockSize
      BY <1>1
    <3>3. p * BlockSize \in Int /\ q * BlockSize \in Int
      BY <1>1
    <3> QED BY <1>1, <1>2, <1>3, <3>1, <3>2, <3>3
  <2> QED BY <2>1
<1>5. n * UserFee <= m * UserFee
  BY <1>1, ProductGrows
<1>6. p * BlockFee <= q * BlockFee
  BY <1>1, <1>4, ProductGrows
<1>7. n * UserFee = UserFee * n /\ m * UserFee = UserFee * m
  BY <1>1
<1>8. p * BlockFee = BlockFee * p /\ q * BlockFee = BlockFee * q
  BY <1>1
<1>9. UserFee * n \in Nat /\ UserFee * m \in Nat /\ BlockFee * p \in Nat /\ BlockFee * q \in Nat
  BY <1>1
<1> QED BY <1>2, <1>3, <1>5, <1>6, <1>7, <1>8, <1>9

\* What a cycle costs, from how many it bills.
Price(n, m) == UserFee * n + BlockFee * Blocks(m)

\* A cycle that bills more is not cheaper.
LEMMA PriceGrows ==
    ASSUME NEW n \in Nat, NEW m \in Nat, NEW k \in Nat, NEW l \in Nat, n <= k, m <= l
    PROVE  Price(n, m) \in Nat /\ Price(k, l) \in Nat /\ Price(n, m) <= Price(k, l)
<1>1. UserFee * n \in Nat /\ UserFee * k \in Nat /\ UserFee * n <= UserFee * k
  BY MoreIsDearer
<1>2. /\ BlockFee * Blocks(m) \in Nat /\ BlockFee * Blocks(l) \in Nat
      /\ BlockFee * Blocks(m) <= BlockFee * Blocks(l)
  BY MoreIsDearer
<1> QED BY <1>1, <1>2 DEF Price

LEMMA ChargeNat == \A i : Charge(i) \in Nat
<1> SUFFICES ASSUME NEW i PROVE Charge(i) \in Nat
  OBVIOUS
<1>1. IsFiniteSet(FeeCodes(i)) /\ IsFiniteSet(BilledSeats(i))
  BY ChargeType
<1>2. Cardinality(FeeCodes(i)) \in Nat /\ Cardinality(BilledSeats(i)) \in Nat
  BY <1>1, FS_CardinalityType
<1>3. Price(Cardinality(FeeCodes(i)), Cardinality(BilledSeats(i))) \in Nat
  BY <1>2, PriceGrows
<1> QED BY <1>3 DEF Price, Charge

LEMMA ChargeNatAfter == (\A i : Charge(i) \in Nat)'
  BY ChargeNat, PTL

\* While nothing is stopped, no cycle gets cheaper.
LEMMA ChargeGrows ==
    ASSUME Dates, Dates', ReportMoves, stopped' = stopped, NEW i \in 0 .. Current
    PROVE  Charge(i) <= Charge(i)' /\ i \in 0 .. Current'
<1>1. /\ FeeCodes(i) \subseteq FeeCodes(i)' /\ BilledSeats(i) \subseteq BilledSeats(i)'
      /\ i \in 0 .. Current'
  <2>1. CASE Activated = {}
    <3>1. FeeCodes(i) = {} /\ BilledSeats(i) = {}
      BY <2>1 DEF FeeCodes, BilledSeats, Supported
    <3>2. Anchor = today /\ today \in Nat /\ Anchor' \in Nat /\ today' \in Nat
      BY <2>1, AnchorIs, AnchorAfter, BillingAssumption DEF Dates
    <3>3. 0 * CycleDays = 0 /\ CycleDays \in Nat \ {0}
      BY BillingAssumption
    <3>4. CycleIndex(today, today) = 0
      BY <3>2, <3>3, CycleIs
    <3>5. Current = 0
      BY <3>2, <3>4 DEF Current
    <3>6. CycleIndex(Anchor', today') \in Nat
      BY <3>2, CycleIndexType
    <3>7. Current' \in Nat
      BY <3>6 DEF Current
    <3> QED BY <3>1, <3>5, <3>7
  <2>2. CASE Activated # {}
    <3>1. /\ Anchor' = Anchor /\ Current \in Nat /\ Current' \in Nat /\ Current <= Current'
          /\ Activated \subseteq Activated'
          /\ \A c \in Activated : act'[c] = act[c] /\ seat'[c] = seat[c]
      BY <2>2, AnchorStays
    <3>2. i \in 0 .. Current'
      BY <3>1
    <3>3. FeeCodes(i) \subseteq FeeCodes(i)'
      BY <3>1 DEF FeeCodes
    <3>4. \A c \in Activated : CountsIn(c, i)' <=> CountsIn(c, i)
      BY <3>1 DEF CountsIn, SupportEnd
    <3>5. Supported(i) \subseteq Supported(i)'
      <4>1. Supported(i) \subseteq Activated
        BY DEF Supported
      <4>2. \A c \in Activated : c \in Supported(i) <=> CountsIn(c, i)
        BY SupportedIs
      <4>3. \A c \in Activated' : c \in Supported(i)' <=> CountsIn(c, i)'
        BY <3>2, SupportedAfter
      <4> QED BY <3>1, <3>4, <4>1, <4>2, <4>3
    <3>6. \A c \in Supported(i) : c \in Supported(i)' /\ seat'[c] = seat[c]
      BY <3>1, <3>5 DEF Supported
    <3>7. BilledSeats(i) \subseteq BilledSeats(i)'
      BY <3>6 DEF BilledSeats
    <3> QED BY <3>2, <3>3, <3>7
  <2> QED BY <2>1, <2>2
<1>2. /\ IsFiniteSet(FeeCodes(i)) /\ IsFiniteSet(FeeCodes(i)')
      /\ IsFiniteSet(BilledSeats(i)) /\ IsFiniteSet(BilledSeats(i)')
  BY ChargeType, ChargeAfter
<1>3. PICK n, m, k, l \in Nat :
        /\ n = Cardinality(FeeCodes(i)) /\ m = Cardinality(BilledSeats(i))
        /\ k = Cardinality(FeeCodes(i)') /\ l = Cardinality(BilledSeats(i)')
  BY <1>2, FS_CardinalityType
<1>4. n <= k /\ m <= l
  <2>1. n <= k
    BY <1>1, <1>2, <1>3, FS_Subset
  <2>2. m <= l
    BY <1>1, <1>2, <1>3, FS_Subset
  <2> QED BY <2>1, <2>2
<1>5. Charge(i) = Price(n, m) /\ Charge(i)' = Price(k, l)
  BY <1>3 DEF Charge, Price
<1>6. Price(n, m) <= Price(k, l)
  BY <1>4, PriceGrows
<1> QED BY <1>1, <1>5, <1>6

\* A step that stops nothing does not lower what has accrued.
LEMMA DebtStep ==
    ASSUME Dates, Dates', ReportMoves, stopped' = stopped
    PROVE  Accrued' >= Accrued
<1> DEFINE S == 0 .. Current
           T == 0 .. Current'
           f == [i \in S |-> Charge(i)]
           g == [i \in T |-> Charge(i)']
<1>1. IsFiniteSet(S) /\ IsFiniteSet(T)
  <2>1. /\ Anchor \in Int /\ today \in Int /\ Anchor' \in Int /\ today' \in Int
    BY AnchorIs, AnchorAfter, BillingAssumption DEF Dates
  <2>2. CycleIndex(Anchor, today) \in Nat
    BY <2>1, CycleIndexType
  <2>3. CycleIndex(Anchor', today') \in Nat
    BY <2>1, CycleIndexType
  <2>4. Current \in Int /\ Current' \in Int
    BY <2>2, <2>3 DEF Current
  <2>5. IsFiniteSet(0 .. Current)
    BY <2>4, FS_Interval
  <2>6. IsFiniteSet(0 .. Current')
    BY <2>4, FS_Interval
  <2> QED BY <2>5, <2>6
<1>2. S \subseteq T
  BY ChargeGrows
<1>3. /\ \A i \in S : f[i] = Charge(i) /\ f[i] \in Nat
      /\ \A i \in T : g[i] = Charge(i)' /\ g[i] \in Nat
  BY ChargeNat, ChargeNatAfter
<1>4. \A i \in S : f[i] <= g[i]
  BY <1>2, <1>3, ChargeGrows
<1>5. S = 0 .. Current /\ T = 0 .. Current'
  OBVIOUS
<1> HIDE DEF S, T, f, g
<1>6. PICK less : IsFold(less, f, S)
  BY <1>1, <1>3, FoldExists
<1>7. PICK more : IsFold(more, g, T)
  BY <1>1, <1>3, FoldExists
<1>8. Accrued = less[S]
  BY <1>1, <1>3, <1>5, <1>6, AccruedFold
<1>9. Accrued' = more[T]
  BY <1>1, <1>3, <1>5, <1>7, AccruedFoldNext
<1>10. less[S] <= more[T]
  BY <1>1, <1>2, <1>3, <1>4, <1>6, <1>7, FoldGrows
<1>11. S \in SUBSET S /\ T \in SUBSET T
  OBVIOUS
<1>12. less[S] \in Int /\ more[T] \in Int
  BY <1>6, <1>7, <1>11 DEF IsFold
<1> QED BY <1>8, <1>9, <1>10, <1>12

\* The debt of earlier cycles never vanishes with a later one: what has accrued falls
\* only with a stop.
THEOREM DebtGrows == Spec => DebtNotForgotten
<1>1. Books /\ Books' /\ [Next]_vars =>
        [stopped' = stopped => Accrued' >= Accrued]_<<backend, anchor>>
  BY ReportStep, DebtStep DEF Books
<1> QED BY <1>1, BooksInvariance, PTL DEF Spec, DebtNotForgotten
=============================================================================
