------------------------- MODULE MCBotTokenLicense -------------------------
(* Small instances of BotTokenLicense: a user who renews for the same bot, *)
(* another who tries the first code, and both ways of locking a code.      *)
EXTENDS BotTokenLicense, TLC

CONSTANTS t1, t2, u1, u2, b, c1, c2, c3, s1, s2, l1, l2

TwoTokens == {t1, t2}
TwoUsers == {u1, u2}
OneBot == {b}
OneBotOf == t1 :> b @@ t2 :> b

\* u1 claims t1 and t2, u2 claims t1.
ThreeClaims == {c1, c2, c3}
TwoClaims == {c1, c2}
TwoStarts == {s1, s2}
BothLocks == {l1, l2}
NoLock == {}
GrantLock == {l2}

TokenOfThree == c1 :> t1 @@ c2 :> t2 @@ c3 :> t1 @@ l1 :> t1 @@ l2 :> t1
TokenOfTwo == c1 :> t1 @@ c2 :> t2
UserOfThree == c1 :> u1 @@ c2 :> u1 @@ c3 :> u2 @@ s1 :> u1 @@ s2 :> u1
UserOfTwo == c1 :> u1 @@ c2 :> u1 @@ s1 :> u1 @@ s2 :> u1

\* s1 starts under the first code, s2 under the second; if hot, it may change the
\* settings of s1's bot instead.
Renewed == s1 :> c1 @@ s2 :> c2
\* s2 starts again under the first code.
Again == s1 :> c1 @@ s2 :> c1
SecondHot == {s2}
=============================================================================
