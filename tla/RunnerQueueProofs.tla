------------------------- MODULE RunnerQueueProofs -------------------------
(***************************************************************************)
(* What holds of RunnerQueue for every set of commands, proved.            *)
(*                                                                         *)
(* The inductive invariant, and the properties that follow from it.  What  *)
(* the list operations do is proved in RedisListsProofs.                   *)
(***************************************************************************)
EXTENDS RunnerQueue, RedisListsProofs

----------------------------------------------------------------------------
(* Type correctness.                                                       *)

\* A register or a list element that is not empty is a command.
LEMMA RegisterCommand ==
    ASSUME TypeOK
    PROVE  /\ held # NoCommand => held \in Commands
           /\ returning # NoCommand => returning \in Commands
           /\ lifted # NoCommand => lifted \in Commands
           /\ removing[2] = "queue" \/ removing[2] = "processing"
                => removing[1] \in Commands
<1>1. removing[2] = "queue" \/ removing[2] = "processing"
        => removing[1] \in Commands
  <2>1. CASE removing = NotRemoving
    BY <2>1 DEF NotRemoving
  <2>2. CASE removing \in Commands \X {"queue", "processing"}
    BY <2>2
  <2> QED BY <2>1, <2>2 DEF TypeOK
<1> QED BY <1>1 DEF TypeOK, Registers

\* The dedupe keys, the lists and the two processes' registers always hold
\* commands, and only commands that were put back are ever counted as pushed
\* back blindly.
LEMMA TypeStep == TypeOK /\ [Next]_vars => TypeOK'
<1> SUFFICES ASSUME TypeOK, [Next]_vars PROVE TypeOK'
  OBVIOUS
<1> USE DEF TypeOK
<1>1. ASSUME NEW c \in Commands, Publish(c) PROVE TypeOK'
  <2>1. stream' \in Seq(Commands) /\ queue' \in Seq(Commands)
    BY <1>1, LPushList DEF Publish
  <2> QED BY <1>1, <2>1 DEF Publish
<1>2. CASE Pop
  <2>1. queue[Len(queue)] \in Commands /\ queue' \in Seq(Commands)
    BY <1>2, RPopList DEF Pop
  <2>2. processing' \in Seq(Commands)
    BY <1>2, <2>1, LPushList DEF Pop
  <2> QED BY <1>2, <2>1, <2>2 DEF Pop, Registers
<1>3. CASE Ack
  <2>1. processing' \in Seq(Commands)
    BY <1>3, LRemList DEF Ack
  <2> QED BY <1>3, <2>1 DEF Ack, Registers
<1>4. CASE ReturnTake
  <2>1. processing' \in Seq(Commands) /\ held \in Commands
    BY <1>4, LRemList, RegisterCommand DEF ReturnTake
  <2> QED BY <1>4, <2>1 DEF ReturnTake, Registers
<1>5. CASE ReturnPush
  <2>1. queue' \in Seq(Commands)
    BY <1>5, RPushList, RegisterCommand DEF ReturnPush
  <2> QED BY <1>5, <2>1 DEF ReturnPush, Registers
<1>6. CASE RecoverInflight
  <2>1. /\ processing[Len(processing)] \in Commands
        /\ processing' \in Seq(Commands)
    BY <1>6, RPopList DEF RecoverInflight
  <2>2. queue' \in Seq(Commands)
    BY <1>6, <2>1, LPushList DEF RecoverInflight
  <2> QED BY <1>6, <2>1, <2>2 DEF RecoverInflight
<1>7. CASE RunnerCrash
  BY <1>7 DEF RunnerCrash, Registers
<1>8. ASSUME NEW c \in Commands, RequeueLift(c) PROVE TypeOK'
  <2>1. processing' \in Seq(Commands)
    BY <1>8, LRemList DEF RequeueLift
  <2> QED BY <1>8, <2>1 DEF RequeueLift, Registers
<1>9. CASE RequeuePush
  <2>1. queue' \in Seq(Commands)
    BY <1>9, RPushList, RegisterCommand DEF RequeuePush
  <2> QED BY <1>9, <2>1 DEF RequeuePush, Registers
<1>10. CASE RequeueLost
  BY <1>10 DEF RequeueLost, Registers
<1>11. ASSUME NEW c \in Commands, RemoveBegin(c) PROVE TypeOK'
  BY <1>11 DEF RemoveBegin
<1>12. CASE RemoveQueued
  <2>1. queue' \in Seq(Commands) /\ removing[1] \in Commands
    BY <1>12, LRemList, RegisterCommand DEF RemoveQueued
  <2> QED BY <1>12, <2>1 DEF RemoveQueued
<1>13. CASE RemoveProcessing
  <2>1. processing' \in Seq(Commands) /\ removing[1] \in Commands
    BY <1>13, LRemList, RegisterCommand DEF RemoveProcessing
  <2> QED BY <1>13, <2>1 DEF RemoveProcessing
<1>14. CASE RemoveAbort
  BY <1>14 DEF RemoveAbort
<1>15. ASSUME NEW c \in Commands, MarkerExpires(c) PROVE TypeOK'
  BY <1>15 DEF MarkerExpires
<1>16. CASE UNCHANGED vars
  BY <1>16 DEF vars
<1> QED
  BY <1>1, <1>2, <1>3, <1>4, <1>5, <1>6, <1>7, <1>8, <1>9, <1>10, <1>11,
     <1>12, <1>13, <1>14, <1>15, <1>16 DEF Next, Runner, Reconciler

\* Type correctness of the channel's Redis keys and of the registers of the
\* two processes that work on them.
THEOREM TypeCorrect == Spec => []TypeOK
<1>1. Init => TypeOK
  BY DEF Init, TypeOK, Registers
<1> QED BY <1>1, TypeStep, PTL DEF Spec

----------------------------------------------------------------------------
(* The inductive invariant.                                                *)

\* Publish is the only action that writes the stream.
LEMMA PublicationFrame ==
    ASSUME [Next]_vars, ~ \E c \in Commands : Publish(c)
    PROVE  /\ stream' = stream
           /\ expired \subseteq expired'
           /\ moved \subseteq moved'
BY DEF Next, MarkerExpires, Runner, Reconciler, Pop, Ack, ReturnTake, ReturnPush,
       RecoverInflight, RunnerCrash, RequeueLift, RemoveBegin, RequeuePush,
       RequeueLost, RemoveQueued, RemoveProcessing, RemoveAbort, vars

\* The dedupe key is what keeps a second publication out of the stream.
LEMMA PublishedStep == IInv /\ [Next]_vars => PublishedAtMostOnce'
<1> SUFFICES ASSUME IInv, [Next]_vars PROVE PublishedAtMostOnce'
  OBVIOUS
<1>1. ASSUME NEW c \in Commands, Publish(c) PROVE PublishedAtMostOnce'
  <2>1. c \notin expired => ~In(c, stream)
    BY <1>1 DEF IInv, MarkerCovers, Published, Publish, AlreadyPublished
  <2>2. stream' = RPush(stream, c) /\ stream \in Seq(Commands)
    BY <1>1 DEF IInv, TypeOK, Publish, RPush
  <2>3. \A d \in Commands \ expired : AtMostOnce(d, stream) => AtMostOnce(d, stream')
    BY <2>1, <2>2, RPushList
  <2> QED BY <1>1, <2>3 DEF IInv, PublishedAtMostOnce, Publish
<1>2. CASE ~ \E c \in Commands : Publish(c)
  BY <1>2, PublicationFrame DEF IInv, PublishedAtMostOnce, AtMostOnce
<1> QED BY <1>1, <1>2

\* Wherever a step moves a command, it moves it out of a place MarkerCovers
\* already speaks of.
LEMMA MarkerStep == IInv /\ [Next]_vars => MarkerCovers'
<1> SUFFICES ASSUME IInv, [Next]_vars PROVE MarkerCovers'
  OBVIOUS
<1> USE DEF IInv, TypeOK, MarkerCovers, Published, Queued, Processing, InTransit
<1>1. ASSUME NEW c \in Commands, Publish(c) PROVE MarkerCovers'
  <2>1. \A d : In(d, stream') <=> d = c \/ In(d, stream)
    BY <1>1, RPushList DEF Publish, RPush
  <2>2. \A d : In(d, queue') <=> d = c \/ In(d, queue)
    BY <1>1, LPushList DEF Publish
  <2> QED BY <1>1, <2>1, <2>2 DEF Publish
<1>2. CASE Pop
  <2>1. /\ queue[Len(queue)] \in Commands
        /\ In(queue[Len(queue)], queue)
        /\ \A d : In(d, queue') => In(d, queue)
    BY <1>2, RPopList DEF Pop
  <2>2. \A d : In(d, processing') <=> d = queue[Len(queue)] \/ In(d, processing)
    BY <1>2, <2>1, LPushList DEF Pop
  <2> QED BY <1>2, <2>1, <2>2 DEF Pop
<1>3. CASE Ack
  <2>1. \A d : In(d, processing') => In(d, processing)
    BY <1>3, LRemList DEF Ack
  <2> QED BY <1>3, <2>1, NoCommandAssumption DEF Ack
<1>4. CASE ReturnTake
  <2>1. \A d : In(d, processing') => In(d, processing)
    BY <1>4, LRemList DEF ReturnTake
  <2> QED BY <1>4, <2>1, NoCommandAssumption DEF ReturnTake
<1>5. CASE ReturnPush
  <2>1. \A d : In(d, queue') <=> d = returning \/ In(d, queue)
    BY <1>5, RPushList, RegisterCommand DEF ReturnPush
  <2> QED BY <1>5, <2>1, NoCommandAssumption DEF ReturnPush
<1>6. CASE RecoverInflight
  <2>1. /\ processing[Len(processing)] \in Commands
        /\ In(processing[Len(processing)], processing)
        /\ \A d : In(d, processing') => In(d, processing)
    BY <1>6, RPopList DEF RecoverInflight
  <2>2. \A d : In(d, queue') <=> d = processing[Len(processing)] \/ In(d, queue)
    BY <1>6, <2>1, LPushList DEF RecoverInflight
  <2> QED BY <1>6, <2>1, <2>2 DEF RecoverInflight
<1>7. CASE RunnerCrash
  BY <1>7, NoCommandAssumption DEF RunnerCrash
<1>8. ASSUME NEW c \in Commands, RequeueLift(c) PROVE MarkerCovers'
  <2>1. \A d : In(d, processing') => In(d, processing)
    BY <1>8, LRemList DEF RequeueLift
  <2> QED BY <1>8, <2>1 DEF RequeueLift
<1>9. CASE RequeuePush
  <2>1. \A d : In(d, queue') <=> d = lifted \/ In(d, queue)
    BY <1>9, RPushList, RegisterCommand DEF RequeuePush
  <2> QED BY <1>9, <2>1, NoCommandAssumption DEF RequeuePush
<1>10. CASE RequeueLost
  BY <1>10, NoCommandAssumption DEF RequeueLost
<1>11. ASSUME NEW c \in Commands, RemoveBegin(c) PROVE MarkerCovers'
  BY <1>11 DEF RemoveBegin
<1>12. CASE RemoveQueued
  <2>1. \A d : In(d, queue') => In(d, queue)
    BY <1>12, LRemList DEF RemoveQueued
  <2> QED BY <1>12, <2>1 DEF RemoveQueued
<1>13. CASE RemoveProcessing
  <2>1. \A d : In(d, processing') => In(d, processing)
    BY <1>13, LRemList DEF RemoveProcessing
  <2> QED BY <1>13, <2>1 DEF RemoveProcessing
<1>14. CASE RemoveAbort
  BY <1>14 DEF RemoveAbort
<1>15. ASSUME NEW c \in Commands, MarkerExpires(c) PROVE MarkerCovers'
  BY <1>15 DEF MarkerExpires
<1>16. CASE UNCHANGED vars
  BY <1>16 DEF vars
<1> QED
  BY <1>1, <1>2, <1>3, <1>4, <1>5, <1>6, <1>7, <1>8, <1>9, <1>10, <1>11,
     <1>12, <1>13, <1>14, <1>15, <1>16 DEF Next, Runner, Reconciler

\* A step moves the only copy of a command, it does not make a second one.
LEMMA SingleCopyStep == IInv /\ [Next]_vars => SingleCopy'
<1> SUFFICES ASSUME IInv, [Next]_vars PROVE SingleCopy'
  OBVIOUS
<1> USE DEF IInv, TypeOK, SingleCopy, Queued, Processing, InTransit
<1>1. ASSUME NEW c \in Commands, Publish(c) PROVE SingleCopy'
  <2>1. c \notin expired =>
          ~In(c, queue) /\ ~In(c, processing) /\ lifted # c /\ returning # c
    BY <1>1 DEF MarkerCovers, Publish, AlreadyPublished
  <2>2. /\ \A d : In(d, queue') <=> d = c \/ In(d, queue)
        /\ \A d : AtMostOnce(d, queue) /\ (d = c => ~In(c, queue))
                    => AtMostOnce(d, queue')
    BY <1>1, LPushList DEF Publish
  <2> QED BY <1>1, <2>1, <2>2 DEF Publish
<1>2. CASE Pop
  <2> DEFINE c == queue[Len(queue)]
  <2>1. /\ c \in Commands
        /\ In(c, queue)
        /\ \A d : In(d, queue') => In(d, queue)
        /\ \A d : AtMostOnce(d, queue) => AtMostOnce(d, queue')
        /\ AtMostOnce(c, queue) => ~In(c, queue')
    BY <1>2, RPopList DEF Pop
  <2>2. processing' = LPush(c, processing)
    BY <1>2 DEF Pop
  <2> HIDE DEF c
  <2>3. /\ \A d : In(d, processing') <=> d = c \/ In(d, processing)
        /\ \A d : AtMostOnce(d, processing) /\ (d = c => ~In(c, processing))
                    => AtMostOnce(d, processing')
    BY <2>1, <2>2, LPushList
  <2> QED BY <1>2, <2>1, <2>3 DEF Pop
<1>3. CASE Ack
  <2>1. /\ \A d : In(d, processing') => In(d, processing)
        /\ \A d : AtMostOnce(d, processing) => AtMostOnce(d, processing')
    BY <1>3, LRemList DEF Ack
  <2> QED BY <1>3, <2>1 DEF Ack
<1>4. CASE ReturnTake
  <2>1. /\ \A d : In(d, processing') => In(d, processing)
        /\ \A d : AtMostOnce(d, processing) => AtMostOnce(d, processing')
        /\ AtMostOnce(held, processing) => ~In(held, processing')
    BY <1>4, LRemList DEF ReturnTake
  <2>2. CASE In(held, processing)
    <3>1. held \in Commands
      BY <1>4, RegisterCommand DEF ReturnTake
    <3>2. returning' = held /\ UNCHANGED <<blind, expired, lifted, queue>>
      BY <1>4, <2>2 DEF ReturnTake
    <3>3. held \notin blind \cup expired => lifted # held /\ ~In(held, queue)
      BY <2>2, <3>1
    <3> QED BY <2>1, <3>1, <3>2, <3>3
  <2>3. CASE ~In(held, processing)
    <3>1. /\ returning' = held
          /\ blind' = blind \cup {held}
          /\ UNCHANGED <<expired, lifted, queue>>
      BY <1>4, <2>3 DEF ReturnTake
    <3> QED BY <2>1, <3>1
  <2> QED BY <2>2, <2>3
<1>5. CASE ReturnPush
  <2>1. /\ \A d : In(d, queue') <=> d = returning \/ In(d, queue)
        /\ \A d : AtMostOnce(d, queue) /\ (d = returning => ~In(returning, queue))
                    => AtMostOnce(d, queue')
    BY <1>5, RPushList, RegisterCommand DEF ReturnPush
  <2> QED BY <1>5, <2>1, NoCommandAssumption DEF ReturnPush
<1>6. CASE RecoverInflight
  <2> DEFINE c == processing[Len(processing)]
  <2>1. /\ c \in Commands
        /\ In(c, processing)
        /\ \A d : In(d, processing') => In(d, processing)
        /\ \A d : AtMostOnce(d, processing) => AtMostOnce(d, processing')
        /\ AtMostOnce(c, processing) => ~In(c, processing')
    BY <1>6, RPopList DEF RecoverInflight
  <2>2. queue' = LPush(c, queue)
    BY <1>6 DEF RecoverInflight
  <2> HIDE DEF c
  <2>3. /\ \A d : In(d, queue') <=> d = c \/ In(d, queue)
        /\ \A d : AtMostOnce(d, queue) /\ (d = c => ~In(c, queue))
                    => AtMostOnce(d, queue')
    BY <2>1, <2>2, LPushList
  <2> QED BY <1>6, <2>1, <2>3 DEF RecoverInflight
<1>7. CASE RunnerCrash
  BY <1>7, NoCommandAssumption DEF RunnerCrash, AtMostOnce, In
<1>8. ASSUME NEW c \in Commands, RequeueLift(c) PROVE SingleCopy'
  <2>1. /\ \A d : In(d, processing') => In(d, processing)
        /\ \A d : AtMostOnce(d, processing) => AtMostOnce(d, processing')
        /\ AtMostOnce(c, processing) => ~In(c, processing')
    BY <1>8, LRemList DEF RequeueLift
  <2>2. /\ In(c, processing)
        /\ lifted' = c
        /\ UNCHANGED <<queue, returning, blind, expired>>
    BY <1>8 DEF RequeueLift
  <2> QED BY <2>1, <2>2
<1>9. CASE RequeuePush
  <2>1. /\ \A d : In(d, queue') <=> d = lifted \/ In(d, queue)
        /\ \A d : AtMostOnce(d, queue) /\ (d = lifted => ~In(lifted, queue))
                    => AtMostOnce(d, queue')
    BY <1>9, RPushList, RegisterCommand DEF RequeuePush
  <2> QED BY <1>9, <2>1, NoCommandAssumption DEF RequeuePush
<1>10. CASE RequeueLost
  BY <1>10, NoCommandAssumption DEF RequeueLost, AtMostOnce, In
<1>11. ASSUME NEW c \in Commands, RemoveBegin(c) PROVE SingleCopy'
  BY <1>11 DEF RemoveBegin, AtMostOnce, In
<1>12. CASE RemoveQueued
  <2>1. /\ \A d : In(d, queue') => In(d, queue)
        /\ \A d : AtMostOnce(d, queue) => AtMostOnce(d, queue')
    BY <1>12, LRemList DEF RemoveQueued
  <2> QED BY <1>12, <2>1 DEF RemoveQueued
<1>13. CASE RemoveProcessing
  <2>1. /\ \A d : In(d, processing') => In(d, processing)
        /\ \A d : AtMostOnce(d, processing) => AtMostOnce(d, processing')
    BY <1>13, LRemList DEF RemoveProcessing
  <2> QED BY <1>13, <2>1 DEF RemoveProcessing
<1>14. CASE RemoveAbort
  BY <1>14 DEF RemoveAbort, AtMostOnce, In
<1>15. ASSUME NEW c \in Commands, MarkerExpires(c) PROVE SingleCopy'
  BY <1>15 DEF MarkerExpires, AtMostOnce, In
<1>16. CASE UNCHANGED vars
  BY <1>16 DEF vars, AtMostOnce, In
<1> QED
  BY <1>1, <1>2, <1>3, <1>4, <1>5, <1>6, <1>7, <1>8, <1>9, <1>10, <1>11,
     <1>12, <1>13, <1>14, <1>15, <1>16 DEF Next, Runner, Reconciler

\* A new command goes behind everything queued; what is pushed in front of a
\* command that was never put back is itself put back.
LEMMA OrderStep == IInv /\ [Next]_vars => PublishOrder'
<1> SUFFICES ASSUME IInv, [Next]_vars PROVE PublishOrder'
  OBVIOUS
<1> USE DEF IInv, TypeOK
<1>1. ASSUME NEW c \in Commands, Publish(c) PROVE PublishOrder'
  <2> SUFFICES ASSUME NEW a \in Commands, NEW b \in Commands,
                      a \notin moved \cup expired, b \notin moved \cup expired,
                      Later(a, b)'
               PROVE  Before(a, b, queue)'
    BY <1>1 DEF PublishOrder, Publish
  <2>1. PICK i \in 1..Len(stream'), j \in 1..Len(stream') :
          i < j /\ stream'[i] = a /\ stream'[j] = b
    BY DEF Later
  <2>2. /\ Len(stream) \in Nat
        /\ Len(stream') = Len(stream) + 1
        /\ stream'[Len(stream) + 1] = c
        /\ \A k \in 1..Len(stream) : stream'[k] = stream[k]
    BY <1>1 DEF Publish
  <2>3. i \in 1..Len(stream) /\ stream[i] = a
    BY <2>1, <2>2
  <2>4. (~In(c, stream) /\ ~In(c, queue)) \/ c \in expired
    BY <1>1 DEF MarkerCovers, Published, Queued, Publish, AlreadyPublished
  <2>5. a # c
    BY <2>3, <2>4 DEF In
  <2>6. Before(a, b, queue)
    <3>1. CASE b = c
      BY <2>4, <3>1 DEF Before, In
    <3>2. CASE b # c
      <4>1. Later(a, b)
        BY <2>1, <2>2, <2>3, <3>2 DEF Later
      <4> QED BY <4>1 DEF PublishOrder
    <3> QED BY <3>1, <3>2
  <2> QED BY <1>1, <2>5, <2>6, LPushOrder DEF Publish
<1>2. CASE ~ \E c \in Commands : Publish(c)
  <2>1. stream' = stream /\ expired \subseteq expired' /\ moved \subseteq moved'
    BY <1>2, PublicationFrame
  <2> SUFFICES ASSUME NEW a \in Commands, NEW b \in Commands,
                      a \notin moved', b \notin moved', Before(a, b, queue)
               PROVE  Before(a, b, queue)'
    BY <2>1 DEF PublishOrder, Later
  <2>2. CASE queue' = queue
    BY <2>2 DEF Before
  <2>3. CASE Pop
    BY <2>3, RPopOrder DEF Pop
  <2>4. CASE ReturnPush
    <3>1. returning \in Commands /\ returning \in moved'
      BY <2>4, RegisterCommand DEF ReturnPush
    <3> QED BY <2>4, <3>1, RPushOrder DEF ReturnPush
  <2>5. CASE RecoverInflight
    <3>1. /\ processing[Len(processing)] \in Commands
          /\ processing[Len(processing)] \in moved'
      BY <2>5, RPopList DEF RecoverInflight
    <3> QED BY <2>5, <3>1, LPushOrder DEF RecoverInflight
  <2>6. CASE RequeuePush
    <3>1. lifted \in Commands /\ lifted \in moved'
      BY <2>6, RegisterCommand DEF RequeuePush
    <3> QED BY <2>6, <3>1, RPushOrder DEF RequeuePush
  <2>7. CASE RemoveQueued
    BY <2>7, LRemOrder DEF RemoveQueued
  <2> QED
    BY <1>2, <2>2, <2>3, <2>4, <2>5, <2>6, <2>7
       DEF Next, MarkerExpires, Runner, Reconciler, Ack, ReturnTake,
           RunnerCrash, RequeueLift, RemoveBegin, RequeueLost,
           RemoveProcessing, RemoveAbort, vars
<1> QED BY <1>1, <1>2


LEMMA InitIInv == Init => IInv
<1> SUFFICES ASSUME Init PROVE IInv
  OBVIOUS
<1>1. /\ stream = <<>> /\ queue = <<>> /\ processing = <<>>
      /\ held = NoCommand /\ returning = NoCommand /\ lifted = NoCommand
  BY DEF Init
<1>2. \A c : ~In(c, <<>>) /\ AtMostOnce(c, <<>>)
  BY DEF In, AtMostOnce
<1>3. \A a, b : ~Later(a, b)
  BY <1>1 DEF Later
<1>4. TypeOK
  BY DEF Init, TypeOK, Registers
<1>5. PublishedAtMostOnce
  BY <1>1, <1>2 DEF PublishedAtMostOnce
<1>6. SingleCopy
  BY <1>1, <1>2, NoCommandAssumption
     DEF SingleCopy, Queued, Processing, InTransit
<1>7. MarkerCovers
  BY <1>1, <1>2, NoCommandAssumption
     DEF MarkerCovers, Published, Queued, Processing, InTransit
<1>8. PublishOrder
  BY <1>3 DEF PublishOrder
<1> QED BY <1>4, <1>5, <1>6, <1>7, <1>8 DEF IInv

LEMMA NextIInv == IInv /\ [Next]_vars => IInv'
BY TypeStep, PublishedStep, SingleCopyStep, MarkerStep, OrderStep DEF IInv

\* The inductive invariant holds in every reachable state.
THEOREM Invariance == Spec => []IInv
BY InitIInv, NextIInv, PTL DEF Spec

\* publish_command_result's claim, for any number of commands: a command is
\* added to the stream at most once, whoever publishes it and how often.
THEOREM PublishedOnce == Spec => []PublishedAtMostOnce
<1>1. IInv => PublishedAtMostOnce
  BY DEF IInv
<1> QED BY <1>1, Invariance, PTL

\* A command never has two physical copies, unless the consumer's requeue made
\* the second one.
THEOREM OneCopy == Spec => []SingleCopy
<1>1. IInv => SingleCopy
  BY DEF IInv
<1> QED BY <1>1, Invariance, PTL

\* No copy without a dedupe key.
THEOREM Marked == Spec => []MarkerCovers
<1>1. IInv => MarkerCovers
  BY DEF IInv
<1> QED BY <1>1, Invariance, PTL

\* Commands never put back are in publication order, for any number of them.
THEOREM Ordered == Spec => []PublishOrder
<1>1. IInv => PublishOrder
  BY DEF IInv
<1> QED BY <1>1, Invariance, PTL

\* A command that has left the lists stays out of them.
LEMMA NeverReturnsStep ==
    ASSUME IInv, [Next]_vars, NEW c \in Commands \ (blind' \cup expired),
           Published(c), ~Queued(c), ~Processing(c), ~InTransit(c)
    PROVE  ~Queued(c)' /\ ~Processing(c)' /\ ~InTransit(c)'
<1> USE DEF IInv, TypeOK, Queued, Processing, InTransit
<1>0. c \in marker /\ c # NoCommand
  BY NoCommandAssumption DEF MarkerCovers
<1>1. ASSUME NEW d \in Commands, Publish(d)
      PROVE  ~In(c, queue') /\ UNCHANGED <<processing, lifted, returning>>
  <2>1. c # d
    BY <1>0, <1>1 DEF Publish, AlreadyPublished
  <2> QED BY <1>1, <2>1, LPushList DEF Publish
<1>2. CASE Pop
  <2>1. /\ queue[Len(queue)] \in Commands
        /\ In(queue[Len(queue)], queue)
        /\ \A d : In(d, queue') => In(d, queue)
    BY <1>2, RPopList DEF Pop
  <2>2. \A d : In(d, processing') <=> d = queue[Len(queue)] \/ In(d, processing)
    BY <1>2, <2>1, LPushList DEF Pop
  <2> QED BY <1>2, <2>1, <2>2 DEF Pop
<1>3. CASE Ack
  <2>1. \A d : In(d, processing') => In(d, processing)
    BY <1>3, LRemList DEF Ack
  <2> QED BY <1>3, <2>1 DEF Ack
<1>4. CASE ReturnTake
  <2>1. \A d : In(d, processing') => In(d, processing)
    BY <1>4, LRemList DEF ReturnTake
  <2>2. c # held
    BY <1>4 DEF ReturnTake
  <2> QED BY <1>4, <2>1, <2>2 DEF ReturnTake
<1>5. CASE ReturnPush
  <2>1. \A d : In(d, queue') <=> d = returning \/ In(d, queue)
    BY <1>5, RPushList, RegisterCommand DEF ReturnPush
  <2> QED BY <1>0, <1>5, <2>1 DEF ReturnPush
<1>6. CASE RecoverInflight
  <2>1. /\ processing[Len(processing)] \in Commands
        /\ In(processing[Len(processing)], processing)
        /\ \A d : In(d, processing') => In(d, processing)
    BY <1>6, RPopList DEF RecoverInflight
  <2>2. \A d : In(d, queue') <=> d = processing[Len(processing)] \/ In(d, queue)
    BY <1>6, <2>1, LPushList DEF RecoverInflight
  <2> QED BY <1>6, <2>1, <2>2 DEF RecoverInflight
<1>7. CASE RunnerCrash
  BY <1>0, <1>7 DEF RunnerCrash
<1>8. ASSUME NEW d \in Commands, RequeueLift(d)
      PROVE  ~In(c, processing') /\ UNCHANGED <<queue, returning>> /\ lifted' # c
  <2>1. \A e : In(e, processing') => In(e, processing)
    BY <1>8, LRemList DEF RequeueLift
  <2> QED BY <1>8, <2>1 DEF RequeueLift
<1>9. CASE RequeuePush
  <2>1. \A d : In(d, queue') <=> d = lifted \/ In(d, queue)
    BY <1>9, RPushList, RegisterCommand DEF RequeuePush
  <2> QED BY <1>0, <1>9, <2>1 DEF RequeuePush
<1>10. CASE RequeueLost
  BY <1>0, <1>10 DEF RequeueLost
<1>11. CASE RemoveQueued
  <2>1. \A d : In(d, queue') => In(d, queue)
    BY <1>11, LRemList DEF RemoveQueued
  <2> QED BY <1>11, <2>1 DEF RemoveQueued
<1>12. CASE RemoveProcessing
  <2>1. \A d : In(d, processing') => In(d, processing)
    BY <1>12, LRemList DEF RemoveProcessing
  <2> QED BY <1>12, <2>1 DEF RemoveProcessing
<1>13. CASE UNCHANGED <<queue, processing, lifted, returning>>
  BY <1>13
<1> QED
  BY <1>1, <1>2, <1>3, <1>4, <1>5, <1>6, <1>7, <1>8, <1>9, <1>10, <1>11,
     <1>12, <1>13
     DEF Next, Runner, Reconciler, MarkerExpires, RemoveBegin, RemoveAbort, vars

\* Nothing brings an acknowledged, removed or lost command back to the lists.
THEOREM Gone == Spec => NeverReturns
<1>1. IInv /\ [Next]_vars =>
        [\A c \in Commands \ (blind' \cup expired) :
            Published(c) /\ ~Queued(c) /\ ~Processing(c) /\ ~InTransit(c)
              => ~Queued(c)' /\ ~Processing(c)' /\ ~InTransit(c)']_vars
  BY NeverReturnsStep
<1> QED BY <1>1, Invariance, PTL DEF Spec, NeverReturns

\* The runner pops a command only when every command published before it that
\* was never put back has left the live list.
THEOREM PopOrder == Spec => PopsInPublishOrder
<1>1. ASSUME IInv, [Next]_vars
      PROVE  \A a, b \in Commands \ (moved \cup expired) :
                Later(a, b) /\ Queued(a) /\ held = NoCommand => held' # b
  <2> SUFFICES ASSUME NEW a \in Commands \ (moved \cup expired),
                      NEW b \in Commands \ (moved \cup expired),
                      Later(a, b), Queued(a), held = NoCommand
               PROVE  held' # b
    OBVIOUS
  <2>1. CASE Pop
    <3>1. Before(a, b, queue)
      BY <1>1 DEF IInv, PublishOrder
    <3> QED BY <1>1, <2>1, <3>1, RPopOrder DEF IInv, TypeOK, Pop, Queued
  <2>2. CASE ~Pop
    <3>1. held' = NoCommand
      BY <1>1, <2>2
         DEF Next, Publish, MarkerExpires, Runner, Reconciler, Ack, ReturnTake,
             ReturnPush, RecoverInflight, RunnerCrash, RequeueLift, RemoveBegin,
             RequeuePush, RequeueLost, RemoveQueued, RemoveProcessing,
             RemoveAbort, vars
    <3> QED BY <3>1, NoCommandAssumption
  <2> QED BY <2>1, <2>2
<1>2. IInv /\ [Next]_vars =>
        [\A a, b \in Commands \ (moved \cup expired) :
            Later(a, b) /\ Queued(a) /\ held = NoCommand => held' # b]_vars
  BY <1>1
<1> QED BY <1>2, Invariance, PTL DEF Spec, PopsInPublishOrder

=============================================================================
