-------------------------- MODULE MCPartnerBilling --------------------------
(* A small instance of PartnerBilling: a long and a short code, for one    *)
(* customer or for two, and two members who may pay.                       *)
EXTENDS PartnerBilling, TLC

CONSTANTS long, short, seat1, seat2, owner, accountant

TwoCodes == {long, short}
TwoSeats == {seat1, seat2}
TwoMembers == {owner, accountant}
TheDays == long :> 3 @@ short :> 1

\* The seats are alike, and so are the members.
Sym == Permutations(TwoSeats) \cup Permutations(TwoMembers)
=============================================================================
