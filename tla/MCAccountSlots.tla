--------------------------- MODULE MCAccountSlots ---------------------------
(* Small instances of AccountSlots: two accounts that compete for one or   *)
(* two slots, with a login, a start and a deletion in flight.              *)
EXTENDS AccountSlots, TLC

CONSTANTS a1, a2, s1, s2, r1, r2, r3, r4

TwoAccounts == {a1, a2}
OneSlot == {s1}
TwoSlots == {s1, s2}
ThreeRequests == {r1, r2, r3}

FourRequests == {r1, r2, r3, r4}

\* a1 logs in, starts and is deleted, a2 starts.
ThreeKind == r1 :> "login" @@ r2 :> "start" @@ r3 :> "start"
ThreeOwner == r1 :> a1 @@ r2 :> a1 @@ r3 :> a2
FourKind == ThreeKind @@ r4 :> "delete"
FourOwner == ThreeOwner @@ r4 :> a1
StartOfTwo == {r3}
=============================================================================
