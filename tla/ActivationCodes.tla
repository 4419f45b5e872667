-------------------------- MODULE ActivationCodes --------------------------
(***************************************************************************)
(* What the licences promise: a code is redeemed once, locked for good,    *)
(* and gives one right, which ends once and runs one bot of its owner.     *)
(* Every operation happens at once; BotTokenLicense implements it with     *)
(* requests that read and write in several steps, a reconciler and two     *)
(* databases.                                                              *)
(*                                                                         *)
(*   code   what has become of a code                                      *)
(*   right  the right each claim obtains                                   *)
(*   bot    the deployment the right is bound to                           *)
(***************************************************************************)
EXTENDS FiniteSets, Integers

CONSTANTS Codes, Claims, Deployments, None, CodeOf, UserOf, Limit

VARIABLES code, right, bot

vars == <<code, right, bot>>

Init ==
    /\ code = [t \in Codes |-> "absent"]
    /\ right = [c \in Claims |-> "none"]
    /\ bot = [c \in Claims |-> None]

Valid == {c \in Claims : right[c] = "valid"}

Issue(t) ==
    /\ code[t] = "absent"
    /\ code' = [code EXCEPT ![t] = "issued"]
    /\ UNCHANGED <<right, bot>>

\* A code that nobody has used, of a partner below its limit.
Redeem(c) ==
    /\ code[CodeOf[c]] = "issued"
    /\ right[c] = "none"
    /\ Cardinality(Valid) < Limit
    /\ code' = [code EXCEPT ![CodeOf[c]] = "redeemed"]
    /\ right' = [right EXCEPT ![c] = "valid"]
    /\ UNCHANGED bot

\* Once, while the right is valid, and to a bot of the same user.
Bind(c, d) ==
    /\ right[c] = "valid"
    /\ bot[c] = None
    /\ UserOf[d] = UserOf[c]
    /\ bot' = [bot EXCEPT ![c] = d]
    /\ UNCHANGED <<code, right>>

Lapse(c) ==
    /\ right[c] = "valid"
    /\ right' = [right EXCEPT ![c] = "over"]
    /\ UNCHANGED <<code, bot>>

\* With the code goes its right.
Lock(t) ==
    /\ code[t] \in {"issued", "redeemed"}
    /\ code' = [code EXCEPT ![t] = "revoked"]
    /\ right' = [c \in Claims |-> IF c \in Valid /\ CodeOf[c] = t THEN "over"
                                  ELSE right[c]]
    /\ UNCHANGED bot

Next ==
    \/ \E t \in Codes : Issue(t) \/ Lock(t)
    \/ \E c \in Claims : \/ Redeem(c) \/ Lapse(c)
                         \/ \E d \in Deployments : Bind(c, d)

Spec == Init /\ [][Next]_vars
=============================================================================
