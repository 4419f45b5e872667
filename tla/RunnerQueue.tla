---------------------------- MODULE RunnerQueue ----------------------------
(***************************************************************************)
(* The Redis side of one runner's command channel.                         *)
(*                                                                         *)
(*   mt5:execution:commands              stream     (audit trail, XADD)    *)
(*   mt5:execution:commands:published:*  marker     (dedupe keys)          *)
(*   mt5:runner:{id}:commands            queue      (live list)            *)
(*   mt5:runner:{id}:commands:processing processing (popped, not settled)  *)
(*                                                                         *)
(* The lists and their commands are those of RedisLists: BRPOPLPUSH takes  *)
(* the last element of one list and puts it in front of the other.  One    *)
(* action is one Redis command (or one Lua script), except that the        *)
(* read-only LRANGE scans are merged with the LREM that follows them: when *)
(* the element went away in between, LREM removes nothing, as it does for  *)
(* a late scan.                                                            *)
(*                                                                         *)
(* Two processes besides the publisher work on the lists and hold a        *)
(* command in a local variable between two Redis commands: the delivery    *)
(* reconciler (lifted, removing) and the runner (held, returning).         *)
(***************************************************************************)
EXTENDS RedisLists

CONSTANTS
    Commands,    \* the command ids that may ever be published to this runner
    NoCommand,   \* the value of an empty register
    MaxExpired   \* bound: how many dedupe keys may run out

ASSUME NoCommandAssumption == NoCommand \notin Commands

VARIABLES
    stream,      \* the commands XADDed, oldest first
    marker,      \* the commands whose dedupe key exists
    queue,       \* the live list
    processing,  \* the processing list
    held,        \* the envelope the runner popped and is handling
    returning,   \* runner: taken out of processing, not yet pushed back
    lifted,      \* reconciler: taken out of processing, not yet pushed back
    removing,    \* reconciler: <<command, list it is being removed from>>
    moved,       \* history: commands ever put back on the live list
    blind,       \* history: commands pushed back although LREM found nothing
    expired      \* history: commands whose dedupe key ran out

redisVars == <<stream, marker, queue, processing>>
vars == <<stream, marker, queue, processing, held, returning, lifted,
          removing, moved, blind, expired>>

Registers == Commands \cup {NoCommand}
NotRemoving == <<NoCommand, "none">>

TypeOK ==
    /\ stream \in Seq(Commands)
    /\ marker \subseteq Commands
    /\ queue \in Seq(Commands)
    /\ processing \in Seq(Commands)
    /\ held \in Registers
    /\ returning \in Registers
    /\ lifted \in Registers
    /\ removing \in (Commands \X {"queue", "processing"}) \cup {NotRemoving}
    /\ moved \subseteq Commands
    /\ blind \cup ({returning, lifted} \ {NoCommand}) \subseteq moved
    /\ expired \subseteq Commands

----------------------------------------------------------------------------
Init ==
    /\ stream = <<>>
    /\ marker = {}
    /\ queue = <<>>
    /\ processing = <<>>
    /\ held = NoCommand
    /\ returning = NoCommand
    /\ lifted = NoCommand
    /\ removing = NotRemoving
    /\ moved = {}
    /\ blind = {}
    /\ expired = {}

----------------------------------------------------------------------------
(* The publisher: the Lua script.                                          *)

\* The script's first branch: the key exists, nothing is written but its TTL.
AlreadyPublished(c) == c \in marker

\* Publish, were the key not consulted.
PublishUnchecked(c) ==
    /\ stream' = Append(stream, c)
    /\ queue' = LPush(c, queue)
    /\ marker' = marker \cup {c}
    /\ UNCHANGED <<processing, held, returning, lifted, removing, moved, blind,
                   expired>>

\* Publish, were the list looked up in place of the key.
PublishUnlessListed(c) ==
    /\ ~In(c, queue) /\ ~In(c, processing)
    /\ Len(stream) < 4
    /\ stream' = Append(stream, c)
    /\ queue' = LPush(c, queue)
    /\ marker' = marker \cup {c}
    /\ UNCHANGED <<processing, held, returning, lifted, removing, moved, blind,
                   expired>>

\* Publish, were the key not set.
PublishUnmarked(c) ==
    /\ ~AlreadyPublished(c)
    /\ Len(stream) < 4
    /\ stream' = Append(stream, c)
    /\ queue' = LPush(c, queue)
    /\ UNCHANGED <<marker, processing, held, returning, lifted, removing, moved,
                   blind, expired>>

\* Publish, pushing on the end the runner pops.
PublishRight(c) ==
    /\ ~AlreadyPublished(c)
    /\ stream' = Append(stream, c)
    /\ queue' = RPush(queue, c)
    /\ marker' = marker \cup {c}
    /\ UNCHANGED <<processing, held, returning, lifted, removing, moved, blind,
                   expired>>

\* The script's second branch.
Publish(c) ==
    /\ ~AlreadyPublished(c)
    /\ stream' = Append(stream, c)
    /\ queue' = LPush(c, queue)
    /\ marker' = marker \cup {c}
    /\ UNCHANGED <<processing, held, returning, lifted, removing, moved, blind,
                   expired>>

\* The key's TTL (seven days by default) runs out.
\* Bound: for at most MaxExpired commands, once each.
MarkerExpires(c) ==
    /\ c \in marker \ expired
    /\ Cardinality(expired) < MaxExpired
    /\ marker' = marker \ {c}
    /\ expired' = expired \cup {c}
    /\ UNCHANGED <<stream, queue, processing, held, returning, lifted, removing,
                   moved, blind>>

----------------------------------------------------------------------------
(* The runner's consumer.                                                  *)

RunnerIdle == held = NoCommand /\ returning = NoCommand

\* Pop, were the list read at the end that LPUSH writes.
PopNewest ==
    /\ RunnerIdle
    /\ queue # <<>>
    /\ held' = Head(queue)
    /\ processing' = LPush(Head(queue), processing)
    /\ queue' = Tail(queue)
    /\ UNCHANGED <<stream, marker, returning, lifted, removing, moved, blind,
                   expired>>

\* BRPOPLPUSH.
Pop ==
    /\ RunnerIdle
    /\ queue # <<>>
    /\ held' = queue[Len(queue)]
    /\ processing' = LPush(queue[Len(queue)], processing)
    /\ queue' = RPop(queue)
    /\ UNCHANGED <<stream, marker, returning, lifted, removing, moved, blind,
                   expired>>

\* ack: LREM of the raw envelope; the count LREM returns is not looked at.
Ack ==
    /\ held # NoCommand
    /\ processing' = LRem(processing, held)
    /\ held' = NoCommand
    /\ UNCHANGED <<stream, marker, queue, returning, lifted, removing, moved,
                   blind, expired>>

\* requeue, first call: LREM.  Its count is not looked at either: when the
\* reconciler took the envelope first, the second call pushes one more copy.
\* Bound: a command is pushed back blindly at most once.
ReturnTake ==
    /\ held # NoCommand
    /\ In(held, processing) \/ held \notin blind
    /\ processing' = LRem(processing, held)
    /\ returning' = held
    /\ held' = NoCommand
    /\ moved' = moved \cup {held}
    /\ blind' = IF In(held, processing) THEN blind ELSE blind \cup {held}
    /\ UNCHANGED <<stream, marker, queue, lifted, removing, expired>>

\* requeue, second call: RPUSH, so the command is the next to be popped.
ReturnPush ==
    /\ returning # NoCommand
    /\ queue' = RPush(queue, returning)
    /\ returning' = NoCommand
    /\ UNCHANGED <<stream, marker, processing, held, lifted, removing, moved,
                   blind, expired>>

\* One turn of recover_inflight's loop: RPOPLPUSH processing -> queue.  The
\* command goes to the head of the live list, behind everything queued.
RecoverInflight ==
    /\ RunnerIdle
    /\ processing # <<>>
    /\ queue' = LPush(processing[Len(processing)], queue)
    /\ moved' = moved \cup {processing[Len(processing)]}
    /\ processing' = RPop(processing)
    /\ UNCHANGED <<stream, marker, held, returning, lifted, removing, blind,
                   expired>>

\* The runner process dies, or loses the reply of a Redis command: what it
\* held is forgotten, and what it had taken out of processing is gone.
RunnerCrash ==
    /\ ~RunnerIdle
    /\ held' = NoCommand
    /\ returning' = NoCommand
    /\ UNCHANGED <<stream, marker, queue, processing, lifted, removing, moved,
                   blind, expired>>

----------------------------------------------------------------------------
(* The delivery reconciler; an advisory lock keeps it to one process.      *)

ReconcilerIdle == lifted = NoCommand /\ removing = NotRemoving

\* RequeueLift, were the envelope copied before it is removed.
RequeueCopy(c) ==
    /\ ReconcilerIdle
    /\ In(c, processing)
    /\ lifted' = c
    /\ moved' = moved \cup {c}
    /\ UNCHANGED <<stream, marker, queue, processing, held, returning, removing,
                   blind, expired>>

\* requeue_runner_command_from_processing: LRANGE and LREM.  When LREM removes
\* nothing the call returns without pushing.
RequeueLift(c) ==
    /\ ReconcilerIdle
    /\ In(c, processing)
    /\ processing' = LRem(processing, c)
    /\ lifted' = c
    /\ moved' = moved \cup {c}
    /\ UNCHANGED <<stream, marker, queue, held, returning, removing, blind,
                   expired>>

\* ... and RPUSH.
RequeuePush ==
    /\ lifted # NoCommand
    /\ queue' = RPush(queue, lifted)
    /\ lifted' = NoCommand
    /\ UNCHANGED <<stream, marker, processing, held, returning, removing,
                   moved, blind, expired>>

\* The process dies between the two calls, or RPUSH raises.
RequeueLost ==
    /\ lifted # NoCommand
    /\ lifted' = NoCommand
    /\ UNCHANGED <<stream, marker, queue, processing, held, returning,
                   removing, moved, blind, expired>>

\* remove_runner_command: every copy in the live list, then every copy in
\* processing, one LREM each.
RemoveBegin(c) ==
    /\ ReconcilerIdle
    /\ removing' = <<c, "queue">>
    /\ UNCHANGED <<stream, marker, queue, processing, held, returning, lifted,
                   moved, blind, expired>>

RemoveQueued ==
    /\ removing[2] = "queue"
    /\ queue' = LRem(queue, removing[1])
    /\ removing' = IF In(removing[1], queue') THEN removing
                   ELSE <<removing[1], "processing">>
    /\ UNCHANGED <<stream, marker, processing, held, returning, lifted, moved,
                   blind, expired>>

RemoveProcessing ==
    /\ removing[2] = "processing"
    /\ processing' = LRem(processing, removing[1])
    /\ removing' = IF In(removing[1], processing') THEN removing
                   ELSE NotRemoving
    /\ UNCHANGED <<stream, marker, queue, held, returning, lifted, moved,
                   blind, expired>>

\* RemoveAbort, were the removal's place reset and its command kept.
RemoveAbortHalf ==
    /\ removing # NotRemoving
    /\ removing' = <<removing[1], "none">>
    /\ UNCHANGED <<stream, marker, queue, processing, held, returning, lifted,
                   moved, blind, expired>>

\* The process dies, or Redis raises, half way through.
RemoveAbort ==
    /\ removing # NotRemoving
    /\ removing' = NotRemoving
    /\ UNCHANGED <<stream, marker, queue, processing, held, returning, lifted,
                   moved, blind, expired>>

----------------------------------------------------------------------------
Runner == Pop \/ Ack \/ ReturnTake \/ ReturnPush \/ RecoverInflight \/ RunnerCrash

Reconciler ==
    \/ \E c \in Commands : RequeueLift(c) \/ RemoveBegin(c)
    \/ RequeuePush \/ RequeueLost
    \/ RemoveQueued \/ RemoveProcessing \/ RemoveAbort

Next ==
    \/ \E c \in Commands : Publish(c) \/ MarkerExpires(c)
    \/ Runner
    \/ Reconciler

Spec == Init /\ [][Next]_vars

----------------------------------------------------------------------------
(* Properties.                                                             *)

Published(c) == In(c, stream)

\* The places a physical copy of a command can be in.
Queued(c) == In(c, queue)
Processing(c) == In(c, processing)
InTransit(c) == lifted = c \/ returning = c

\* publish_command_result: "exactly once per command_id at Redis level".  The
\* publisher and the reconciler's replay never add a command twice, however
\* often each of them calls the script, while the command's dedupe key lives.
PublishedAtMostOnce == \A c \in Commands \ expired : AtMostOnce(c, stream)

\* However the reconciler's requeue, its removal, the runner's acknowledgement
\* and its crashes interleave, a command has at most one physical copy, unless
\* the consumer's own requeue pushed one back without having removed one.
SingleCopy ==
    \A c \in Commands \ (blind \cup expired) :
        /\ AtMostOnce(c, queue)
        /\ AtMostOnce(c, processing)
        /\ ~(Queued(c) /\ Processing(c))
        /\ InTransit(c) => ~Queued(c) /\ ~Processing(c)
        /\ ~(lifted = c /\ returning = c)

\* No command is anywhere in Redis, or in a process's hands, without its dedupe
\* key: a second publication of it would be recognised.
MarkerCovers ==
    \A c \in Commands \ expired :
        \/ Published(c)
        \/ Queued(c)
        \/ Processing(c)
        \/ InTransit(c)
        \/ held = c
        => c \in marker

\* b was published after a.
Later(a, b) ==
    \E i, j \in 1..Len(stream) : i < j /\ stream[i] = a /\ stream[j] = b

\* The live list holds the commands that were never put back in the order in
\* which they were published.
PublishOrder ==
    \A a, b \in Commands \ (moved \cup expired) :
        Later(a, b) => Before(a, b, queue)

IInv ==
    TypeOK /\ PublishedAtMostOnce /\ SingleCopy /\ MarkerCovers /\ PublishOrder

\* A command that left the lists for good (acknowledged, removed, or lost in an
\* interrupted requeue) never comes back: nothing publishes it again.
NeverReturns ==
    [][\A c \in Commands \ (blind' \cup expired) :
          Published(c) /\ ~Queued(c) /\ ~Processing(c) /\ ~InTransit(c)
            => ~Queued(c)' /\ ~Processing(c)' /\ ~InTransit(c)']_vars

\* Commands that were never put back are popped in the order in which they
\* were published: a later STOP cannot overtake an earlier START, nor the
\* reverse, unless one of them was requeued or recovered.
PopsInPublishOrder ==
    [][\A a, b \in Commands \ (moved \cup expired) :
          Later(a, b) /\ Queued(a) /\ held = NoCommand => held' # b]_vars

============================================================================
