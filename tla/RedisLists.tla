----------------------------- MODULE RedisLists -----------------------------
(***************************************************************************)
(* Redis lists: a sequence whose first element is the list's head.  LPUSH  *)
(* adds in front, RPUSH at the end, RPOP takes the last element away.      *)
(***************************************************************************)
EXTENDS SequencesExt

In(c, s) == \E i \in 1..Len(s) : s[i] = c

LPush(c, s) == <<c>> \o s

RPush(s, c) == Append(s, c)

\* What RPOPLPUSH leaves behind.
RPop(s) == SubSeq(s, 1, Len(s) - 1)

\* LREM key 1 value: scans from the head.
LRem(s, c) == RemoveFirst(s, c)

----------------------------------------------------------------------------
(* What is said of lists.                                                  *)

AtMostOnce(c, s) ==
    \A i, j \in 1..Len(s) : s[i] = c /\ s[j] = c => i = j

\* Every copy of a in the list is nearer to the end that is popped than b's.
Before(a, b, s) ==
    \A i, j \in 1..Len(s) : s[i] = a /\ s[j] = b => j < i
=============================================================================
