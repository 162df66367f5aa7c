------------------------- MODULE EventConsumer_proofs -------------------------
(***************************************************************************)
(* The event consumer, for any partitions, handlers, bounds and            *)
(* disturbances: its types, that offsets are committed forwards only, and, *)
(* when start() is not called again before it returned, that no offset is  *)
(* committed past a message some handler was not called with and that      *)
(* first deliveries keep the order of a partition.                         *)
(***************************************************************************)
EXTENDS EventConsumer, FiniteSetTheorems, SequenceTheorems, TLAPS

HasMessage(l) == loop[l].at \in {"given", "handling", "committing"}
Consuming(l) == HasMessage(l) \/ loop[l].at = "waiting"

\* A loop between "given" and its commit has a message that was published; it
\* is in a handler only for one that has handlers.
LoopOK(l) ==
    HasMessage(l) =>
        /\ loop[l].message \in Partitions \X Offsets
        /\ loop[l].message[2] < Len(log[loop[l].message[1]])
        /\ loop[l].at = "handling" =>
             log[loop[l].message[1]][loop[l].message[2] + 1] = "handled"

\* Only a start() that has left "off" makes a Kafka consumer.
Begun == {l \in Starts : loop[l].at # "off"}
MadeByStarts == made <= Cardinality(Begun)

TypeInv ==
    /\ TypeOK
    /\ \A p \in Partitions : Len(log[p]) <= MaxMessages
    /\ \A l \in Starts : LoopOK(l)
    /\ MadeByStarts

-----------------------------------------------------------------------------
\* All handlers ended for every message below o that has handlers, but for the
\* message some loop still has.
TriedOrInHand(p, o) ==
    \A i \in 0..(o - 1) : log[p][i + 1] = "handled" =>
        \/ \A h \in Handlers : <<p, i, h>> \in tried
        \/ \E l \in Starts : HasMessage(l) /\ loop[l].message = <<p, i>>

\* How far the handling of the message in hand is.
InOrder(l) ==
    LET p == loop[l].message[1]
        o == loop[l].message[2]
    IN  /\ HasMessage(l) => AllTriedBelow(p, o)
        /\ loop[l].at = "given" => loop[l].handler = 1
        /\ loop[l].at = "handling" => \A h \in 1..(loop[l].handler - 1) : <<p, o, h>> \in tried
        /\ loop[l].at = "committing" => AllTriedBelow(p, o + 1)
        /\ ~HasMessage(l) => loop[l].handler = 1

OneLoop == \A k, l \in Starts : Active(k) /\ Active(l) => k = l

\* Someone reads, or can read on: what counts is where from.
Reading == status = "open" \/ \E l \in Starts : Consuming(l)

DeliveryInv ==
    /\ OneLoop
    /\ status = "open" => started /\ running
    /\ AtLeastOnce
    /\ Reading => \A p \in Partitions : TriedOrInHand(p, position[p])
    /\ \A l \in Starts : InOrder(l)

-----------------------------------------------------------------------------
(* Type correctness.                                                       *)

LEMMA InitTypeInv == Init => TypeInv
<1> SUFFICES ASSUME Init PROVE TypeInv
  OBVIOUS
<1>1. Cardinality(Starts) \in Nat
  BY FS_CardinalityType, ConsumerAssumption
<1>2. TypeOK
  <2>1. loop \in [Starts -> Loops]
    BY <1>1, ConsumerAssumption DEF Init, Loops, Handlers
  <2>2. \A p \in Partitions : log[p] = <<>> /\ committed[p] = 0 /\ position[p] = 0
    BY DEF Init
  <2>3. log \in [Partitions -> Seq(Kinds)] /\ committed \in [Partitions -> 0..MaxMessages]
        /\ position \in [Partitions -> 0..MaxMessages] /\ rebalances \in 0..MaxRebalances
    BY ConsumerAssumption DEF Init
  <2>4. made \in 0..Cardinality(Starts)
    BY <1>1 DEF Init
  <2>5. \A p \in Partitions : committed[p] <= position[p] /\ position[p] <= Len(log[p])
    BY <2>2
  <2>6. /\ status \in Statuses /\ started \in BOOLEAN /\ running \in BOOLEAN
        /\ serving \in BOOLEAN /\ tried \subseteq Partitions \X Offsets \X Handlers
    BY DEF Init, Statuses
  <2> QED BY <2>1, <2>3, <2>4, <2>5, <2>6 DEF TypeOK
<1>3. MadeByStarts
  <2>1. Begun = {}
    BY DEF Init, Begun
  <2> QED BY <2>1, FS_EmptySet DEF Init, MadeByStarts
<1>4. (\A p \in Partitions : Len(log[p]) <= MaxMessages) /\ \A l \in Starts : LoopOK(l)
  BY ConsumerAssumption DEF Init, LoopOK, HasMessage
<1> QED BY <1>2, <1>3, <1>4 DEF TypeInv

LEMMA BegunFinite == IsFiniteSet(Begun) /\ Cardinality(Begun) \in Nat
<1>1. IsFiniteSet(Begun)
  BY FS_Subset, ConsumerAssumption DEF Begun
<1> QED BY <1>1, FS_CardinalityType

\* A loop never goes back to "off", so the count of consumers stays right.
LEMMA StillMade ==
  ASSUME MadeByStarts, made \in Nat, made' = made,
         \A l \in Starts : loop[l].at # "off" => loop'[l].at # "off"
  PROVE  MadeByStarts'
<1>1. Begun \subseteq Begun'
  BY DEF Begun
<1>2. IsFiniteSet(Begun') /\ Cardinality(Begun') \in Nat
  <2>1. Begun' \subseteq Starts
    BY DEF Begun
  <2>2. IsFiniteSet(Begun')
    BY <2>1, FS_Subset, ConsumerAssumption
  <2> QED BY <2>2, FS_CardinalityType
<1>3. Cardinality(Begun) <= Cardinality(Begun')
  BY <1>1, <1>2, FS_Subset
<1> QED BY <1>2, <1>3, BegunFinite DEF MadeByStarts

\* One loop moves, the log stays.
LEMMA OneLoopMoves ==
  ASSUME TypeInv, NEW l \in Starts, NEW r \in Loops, loop' = [loop EXCEPT ![l] = r],
         r.at # "off", log' = log, made' = made, LoopOK(l)'
  PROVE  /\ loop' \in [Starts -> Loops]
         /\ \A k \in Starts : LoopOK(k)'
         /\ MadeByStarts'
<1>1. loop \in [Starts -> Loops] /\ MadeByStarts /\ made \in Nat
  BY BegunFinite, ConsumerAssumption, FS_CardinalityType DEF TypeInv, TypeOK
<1>2. loop' \in [Starts -> Loops] /\ \A k \in Starts \ {l} : loop'[k] = loop[k]
  BY <1>1
<1>3. loop'[l].at # "off"
  BY <1>1
<1>4. \A k \in Starts \ {l} : LoopOK(k)'
  BY <1>2 DEF TypeInv, LoopOK, HasMessage
<1> QED BY <1>1, <1>2, <1>3, <1>4, StillMade

\* The loops stand still.
LEMMA LoopsStand ==
  ASSUME TypeInv, loop' = loop, made' = made, log' = log
  PROVE  /\ loop' \in [Starts -> Loops]
         /\ \A k \in Starts : LoopOK(k)'
         /\ MadeByStarts'
  BY DEF TypeInv, TypeOK, LoopOK, HasMessage, MadeByStarts, Begun

\* What is not a loop's.
Outside ==
    /\ log \in [Partitions -> Seq(Kinds)]
    /\ \A p \in Partitions : Len(log[p]) <= MaxMessages
    /\ committed \in [Partitions -> 0..MaxMessages]
    /\ position \in [Partitions -> 0..MaxMessages]
    /\ \A p \in Partitions : committed[p] <= position[p] /\ position[p] <= Len(log[p])
    /\ status \in Statuses
    /\ made \in 0..Cardinality(Starts)
    /\ started \in BOOLEAN /\ running \in BOOLEAN /\ serving \in BOOLEAN
    /\ tried \subseteq Partitions \X Offsets \X Handlers
    /\ rebalances \in 0..MaxRebalances

LEMMA TypeParts ==
    TypeInv <=> /\ Outside
                /\ loop \in [Starts -> Loops]
                /\ \A l \in Starts : LoopOK(l)
                /\ MadeByStarts
  BY DEF TypeInv, TypeOK, Outside

-----------------------------------------------------------------------------
(* One lemma per action that is more than a flag.                          *)

LEMMA StartConnectsType ==
  ASSUME TypeInv, NEW l \in Starts, StartConnects(l)
  PROVE  TypeInv'
<1>1. /\ loop[l].at = "off" /\ loop' = [loop EXCEPT ![l].at = "connecting"]
      /\ made' = made + 1 /\ status' = "connecting" /\ serving' = TRUE
      /\ UNCHANGED <<log, committed, position, started, running, tried, rebalances>>
  BY DEF StartConnects, Callable
<1>2. loop \in [Starts -> Loops] /\ made \in Nat /\ Outside /\ MadeByStarts
  BY TypeParts, FS_CardinalityType, ConsumerAssumption DEF Outside
<1>3. /\ loop'[l] = [loop[l] EXCEPT !.at = "connecting"]
      /\ \A k \in Starts \ {l} : loop'[k] = loop[k]
  BY <1>1, <1>2
<1>4. loop' \in [Starts -> Loops] /\ loop'[l].at = "connecting"
  BY <1>1, <1>2 DEF Loops
<1>5. \A k \in Starts : LoopOK(k)'
  <2>1. LoopOK(l)'
    BY <1>4 DEF LoopOK, HasMessage
  <2>2. \A k \in Starts \ {l} : LoopOK(k)'
    BY <1>1, <1>3 DEF TypeInv, LoopOK, HasMessage
  <2> QED BY <2>1, <2>2
<1>6. made' <= Cardinality(Begun') /\ Cardinality(Begun') <= Cardinality(Starts)
  <2>1. Begun' = Begun \union {l} /\ l \notin Begun /\ Begun' \subseteq Starts
    BY <1>1, <1>3, <1>4 DEF Begun
  <2>2. Cardinality(Begun') = Cardinality(Begun) + 1
    BY <2>1, BegunFinite, FS_AddElement
  <2>3. Cardinality(Begun') <= Cardinality(Starts)
    BY <2>1, FS_Subset, ConsumerAssumption
  <2> QED BY <1>1, <1>2, <2>2, <2>3, BegunFinite DEF MadeByStarts
<1>7. made' \in 0..Cardinality(Starts)
  <2>1. Cardinality(Starts) \in Nat /\ Cardinality(Begun') \in Nat
    <3>1. Begun' \subseteq Starts
      BY DEF Begun
    <3> QED BY <3>1, FS_Subset, FS_CardinalityType, ConsumerAssumption
  <2> QED BY <1>1, <1>2, <1>6, <2>1
<1>8. Outside'
  BY <1>1, <1>2, <1>7 DEF Outside, Statuses
<1> QED BY <1>4, <1>5, <1>6, <1>8, TypeParts DEF MadeByStarts, TypeInv, TypeOK, Outside

\* The loop's next record, for each action that moves one loop.
LEMMA LoopRecords ==
  ASSUME TypeInv, NEW l \in Starts
  PROVE  /\ Begin(l) => \E r \in Loops : /\ loop' = [loop EXCEPT ![l] = r]
                                         /\ r.at = "waiting"
         /\ End(l) => \E r \in Loops : /\ loop' = [loop EXCEPT ![l] = r]
                                       /\ r.at = "ended"
         /\ Await(l) => \E r \in Loops : /\ loop' = [loop EXCEPT ![l] = r]
                                         /\ r.at = "waiting"
<1>1. loop \in [Starts -> Loops] /\ loop[l] \in Loops /\ made \in 0..Cardinality(Starts)
      /\ 1 \in Handlers
  BY ConsumerAssumption DEF TypeInv, TypeOK, Handlers
<1>2. ASSUME Begin(l)
      PROVE  \E r \in Loops : loop' = [loop EXCEPT ![l] = r] /\ r.at = "waiting"
  <2> DEFINE r == [loop[l] EXCEPT !.at = "waiting", !.consumer = made]
  <2>1. r \in Loops /\ r.at = "waiting"
    BY <1>1 DEF Loops
  <2>2. loop' = [loop EXCEPT ![l] = r]
    BY <1>1, <1>2 DEF Begin
  <2> QED BY <2>1, <2>2
<1>3. ASSUME End(l)
      PROVE  \E r \in Loops : loop' = [loop EXCEPT ![l] = r] /\ r.at = "ended"
  <2> DEFINE r == [loop[l] EXCEPT !.at = "ended", !.message = NoMessage, !.handler = 1]
  <2>1. r \in Loops /\ r.at = "ended"
    BY <1>1 DEF Loops
  <2>2. loop' = [loop EXCEPT ![l] = r]
    BY <1>1, <1>3 DEF End
  <2> QED BY <2>1, <2>2
<1>4. ASSUME Await(l)
      PROVE  \E r \in Loops : loop' = [loop EXCEPT ![l] = r] /\ r.at = "waiting"
  <2> DEFINE r == [loop[l] EXCEPT !.at = "waiting", !.message = NoMessage, !.handler = 1]
  <2>1. r \in Loops /\ r.at = "waiting"
    BY <1>1 DEF Loops
  <2>2. loop' = [loop EXCEPT ![l] = r]
    BY <1>1, <1>4 DEF Await
  <2> QED BY <2>1, <2>2
<1> QED BY <1>2, <1>3, <1>4

LEMMA DeliverType ==
  ASSUME TypeInv, NEW l \in Starts, NEW p \in Partitions, Deliver(l, p)
  PROVE  TypeInv'
<1> DEFINE r == [loop[l] EXCEPT !.at = "given", !.message = <<p, position[p]>>]
<1>1. /\ position[p] < Len(log[p]) /\ loop' = [loop EXCEPT ![l] = r]
      /\ position' = [position EXCEPT ![p] = @ + 1]
      /\ UNCHANGED <<log, committed, service, tried, rebalances>>
  BY DEF Deliver, TypeInv, TypeOK
<1>2. /\ Outside /\ loop \in [Starts -> Loops]
      /\ position[p] \in Nat /\ Len(log[p]) <= MaxMessages /\ Len(log[p]) \in Nat
  BY ConsumerAssumption, TypeParts DEF Outside
<1>3. position[p] \in Offsets /\ position[p] + 1 \in 0..MaxMessages
      /\ position[p] + 1 <= Len(log[p])
  BY <1>1, <1>2, ConsumerAssumption DEF Offsets
<1>4. r \in Loops /\ r.at = "given" /\ r.message = <<p, position[p]>>
  BY <1>2, <1>3 DEF Loops
<1>5. LoopOK(l)'
  <2>1. /\ loop'[l].at = "given" /\ loop'[l].message = <<p, position[p]>> /\ log' = log
        /\ <<p, position[p]>> \in Partitions \X Offsets
    BY <1>1, <1>2, <1>3, <1>4
  <2> HIDE DEF r
  <2> QED BY <1>1, <2>1 DEF LoopOK, HasMessage
<1>6. Outside'
  <2>1. \A q \in Partitions : committed'[q] <= position'[q] /\ position'[q] <= Len(log'[q])
    <3>1. ASSUME NEW q \in Partitions, q # p
          PROVE  committed'[q] <= position'[q] /\ position'[q] <= Len(log'[q])
      BY <1>1, <1>2, <3>1 DEF Outside
    <3>2. committed'[p] <= position'[p] /\ position'[p] <= Len(log'[p])
      BY <1>1, <1>2, <1>3, ConsumerAssumption DEF Outside
    <3> QED BY <3>1, <3>2
  <2>2. position' \in [Partitions -> 0..MaxMessages]
    BY <1>1, <1>2, <1>3 DEF Outside
  <2> QED BY <1>1, <1>2, <2>1, <2>2 DEF Outside, service
<1>7. /\ loop' \in [Starts -> Loops] /\ (\A k \in Starts : LoopOK(k)') /\ MadeByStarts'
  BY <1>1, <1>4, <1>5, OneLoopMoves DEF service
<1> QED BY <1>6, <1>7 DEF TypeInv, TypeOK, Outside

LEMMA RouteType ==
  ASSUME TypeInv, NEW l \in Starts, Route(l)
  PROVE  TypeInv'
<1>1. /\ loop[l].at = "given" /\ UNCHANGED <<log, committed, position, service, tried, rebalances>>
  BY DEF Route
<1>2. loop \in [Starts -> Loops] /\ LoopOK(l) /\ Outside
  BY TypeParts
<1>3. \E r \in Loops : loop' = [loop EXCEPT ![l] = r] /\ r.at # "off" /\ LoopOK(l)'
  <2>1. CASE log[loop[l].message[1]][loop[l].message[2] + 1] = "handled"
    <3> DEFINE r == [loop[l] EXCEPT !.at = "handling"]
    <3>1. loop' = [loop EXCEPT ![l] = r] /\ r \in Loops
      BY <1>2, <2>1 DEF Route, Loops
    <3>2. loop'[l] = r /\ r.at = "handling" /\ r.message = loop[l].message
      BY <1>2, <3>1 DEF Loops
    <3>3. LoopOK(l)'
      BY <1>1, <1>2, <2>1, <3>2 DEF LoopOK, HasMessage
    <3> QED BY <3>1, <3>2, <3>3
  <2>2. CASE log[loop[l].message[1]][loop[l].message[2] + 1] # "handled"
    <3>1. Await(l)
      BY <2>2 DEF Route
    <3>2. PICK r \in Loops : loop' = [loop EXCEPT ![l] = r] /\ r.at = "waiting"
      BY <3>1, LoopRecords
    <3>3. LoopOK(l)'
      BY <1>2, <3>2 DEF LoopOK, HasMessage
    <3> QED BY <3>2, <3>3
  <2> QED BY <2>1, <2>2
<1>4. /\ loop' \in [Starts -> Loops] /\ (\A k \in Starts : LoopOK(k)') /\ MadeByStarts'
  BY <1>1, <1>3, OneLoopMoves DEF service
<1>5. Outside'
  BY <1>1, <1>2 DEF Outside, service
<1> QED BY <1>4, <1>5 DEF TypeInv, TypeOK, Outside

LEMMA AppendToPair ==
  ASSUME NEW p, NEW o, NEW h
  PROVE  Append(<<p, o>>, h) = <<p, o, h>>
<1> DEFINE S == {p, o, h}
<1>1. /\ <<p, o>> \in Seq(S) /\ <<p, o, h>> \in Seq(S)
      /\ Len(<<p, o>>) = 2 /\ Len(<<p, o, h>>) = 3
  OBVIOUS
<1>2. Append(<<p, o>>, h) \in Seq(S) /\ Len(Append(<<p, o>>, h)) = 3
  OBVIOUS
<1>3. \A i \in 1..3 : Append(<<p, o>>, h)[i] = <<p, o, h>>[i]
  OBVIOUS
<1> QED BY <1>1, <1>2, <1>3, SeqEqual

\* The handler a loop is in, with its message.
LEMMA CallValue ==
  ASSUME TypeInv, NEW l \in Starts, HasMessage(l)
  PROVE  /\ loop[l].message[1] \in Partitions /\ loop[l].message[2] \in Offsets
         /\ loop[l].handler \in Handlers
         /\ Call(l) = <<loop[l].message[1], loop[l].message[2], loop[l].handler>>
<1>1. loop[l] \in Loops /\ loop[l].message \in Partitions \X Offsets
  BY DEF TypeInv, TypeOK, LoopOK
<1>2. PICK p \in Partitions, o \in Offsets : loop[l].message = <<p, o>>
  BY <1>1
<1>3. loop[l].handler \in Handlers
  BY <1>1 DEF Loops
<1>4. Append(<<p, o>>, loop[l].handler) = <<p, o, loop[l].handler>>
  BY AppendToPair
<1> QED BY <1>2, <1>3, <1>4 DEF Call

LEMMA HandlerEndsType ==
  ASSUME TypeInv, NEW l \in Starts, HandlerEnds(l)
  PROVE  TypeInv'
<1>1. /\ loop[l].at = "handling" /\ tried' = tried \union {Call(l)} /\ NextHandler(l)
      /\ UNCHANGED <<log, committed, position, service, rebalances>>
  BY DEF HandlerEnds
<1>2. loop \in [Starts -> Loops] /\ LoopOK(l) /\ Outside
  BY TypeParts
<1>3. \E r \in Loops : loop' = [loop EXCEPT ![l] = r] /\ r.at # "off" /\ LoopOK(l)'
  <2>1. CASE loop[l].handler < HandlerCount
    <3> DEFINE r == [loop[l] EXCEPT !.handler = @ + 1]
    <3>1. loop[l].handler + 1 \in Handlers
      BY <1>2, <2>1, ConsumerAssumption DEF Loops, Handlers
    <3>2. loop' = [loop EXCEPT ![l] = r] /\ r \in Loops
      BY <1>1, <1>2, <2>1, <3>1 DEF NextHandler, Loops
    <3>3. loop'[l] = r /\ r.at = "handling" /\ r.message = loop[l].message
      BY <1>1, <1>2, <3>2 DEF Loops
    <3>4. LoopOK(l)'
      BY <1>1, <1>2, <3>3 DEF LoopOK, HasMessage
    <3> QED BY <3>2, <3>3, <3>4
  <2>2. CASE ~(loop[l].handler < HandlerCount)
    <3> DEFINE r == [loop[l] EXCEPT !.at = "committing"]
    <3>1. loop' = [loop EXCEPT ![l] = r] /\ r \in Loops
      BY <1>1, <1>2, <2>2 DEF NextHandler, Loops
    <3>2. loop'[l] = r /\ r.at = "committing" /\ r.message = loop[l].message
      BY <1>2, <3>1 DEF Loops
    <3>3. LoopOK(l)'
      BY <1>1, <1>2, <3>2 DEF LoopOK, HasMessage
    <3> QED BY <3>1, <3>2, <3>3
  <2> QED BY <2>1, <2>2
<1>4. /\ loop' \in [Starts -> Loops] /\ (\A k \in Starts : LoopOK(k)') /\ MadeByStarts'
  BY <1>1, <1>3, OneLoopMoves DEF service
<1>5. tried' \subseteq Partitions \X Offsets \X Handlers
  <2>1. HasMessage(l)
    BY <1>1 DEF HasMessage
  <2>2. Call(l) \in Partitions \X Offsets \X Handlers
    BY <2>1, CallValue
  <2> QED BY <1>1, <1>2, <2>2 DEF Outside
<1>6. Outside'
  BY <1>1, <1>2, <1>5 DEF Outside, service
<1> QED BY <1>4, <1>6 DEF TypeInv, TypeOK, Outside

LEMMA CommitType ==
  ASSUME TypeInv, NEW l \in Starts, Commit(l)
  PROVE  TypeInv'
<1>1. /\ Await(l) /\ (committed' = position \/ committed' = committed)
      /\ UNCHANGED <<log, position, service, tried, rebalances>>
  BY DEF Commit
<1>2. PICK r \in Loops : loop' = [loop EXCEPT ![l] = r] /\ r.at = "waiting"
  BY <1>1, LoopRecords
<1>3. loop \in [Starts -> Loops] /\ Outside
  BY TypeParts
<1>4. LoopOK(l)'
  BY <1>2, <1>3 DEF LoopOK, HasMessage
<1>5. /\ loop' \in [Starts -> Loops] /\ (\A k \in Starts : LoopOK(k)') /\ MadeByStarts'
  BY <1>1, <1>2, <1>4, OneLoopMoves DEF service
<1>6. \A p \in Partitions : position[p] \in 0..MaxMessages
  BY <1>3 DEF Outside
<1>7. Outside'
  BY <1>1, <1>3, <1>6, ConsumerAssumption DEF Outside, service
<1> QED BY <1>5, <1>7 DEF TypeInv, TypeOK, Outside

\* The loop ends, or begins: Connected, ConnectFails, StartResumes, LoopEnds.
LEMMA LoopTurnsType ==
  ASSUME TypeInv, NEW l \in Starts, Begin(l) \/ End(l), Outside',
         log' = log, made' = made
  PROVE  TypeInv'
<1>1. PICK r \in Loops : loop' = [loop EXCEPT ![l] = r] /\ r.at \in {"waiting", "ended"}
  BY LoopRecords
<1>2. LoopOK(l)'
  BY <1>1, TypeParts DEF LoopOK, HasMessage
<1>3. /\ loop' \in [Starts -> Loops] /\ (\A k \in Starts : LoopOK(k)') /\ MadeByStarts'
  BY <1>1, <1>2, OneLoopMoves
<1> QED BY <1>3 DEF TypeInv, TypeOK, Outside

LEMMA CrashType ==
  ASSUME TypeInv, Crash
  PROVE  TypeInv'
<1>1. /\ loop' = [l \in Starts |->
                 IF Active(l) THEN [loop[l] EXCEPT !.at = "ended", !.message = NoMessage, !.handler = 1]
                 ELSE loop[l]]
      /\ status' = "none" /\ started' = FALSE /\ running' = FALSE /\ serving' = FALSE
      /\ UNCHANGED <<log, committed, position, made, tried, rebalances>>
  BY DEF Crash
<1>2. loop \in [Starts -> Loops] /\ Outside /\ MadeByStarts /\ made \in Nat
  BY TypeParts, FS_CardinalityType, ConsumerAssumption DEF Outside
<1>3. \A l \in Starts : /\ loop'[l] \in Loops /\ loop'[l].at \in {"off", "ended"}
                        /\ loop[l].at # "off" => loop'[l].at # "off"
  <2> SUFFICES ASSUME NEW l \in Starts
               PROVE  /\ loop'[l] \in Loops /\ loop'[l].at \in {"off", "ended"}
                      /\ loop[l].at # "off" => loop'[l].at # "off"
    OBVIOUS
  <2>1. CASE Active(l)
    <3>1. loop'[l] = [loop[l] EXCEPT !.at = "ended", !.message = NoMessage, !.handler = 1]
      BY <1>1, <2>1
    <3>2. loop[l] \in Loops /\ 1 \in Handlers
      BY <1>2, ConsumerAssumption DEF Handlers
    <3>3. [loop[l] EXCEPT !.at = "ended", !.message = NoMessage, !.handler = 1] \in Loops
      BY <3>2 DEF Loops
    <3>4. [loop[l] EXCEPT !.at = "ended", !.message = NoMessage, !.handler = 1].at = "ended"
      BY <3>2 DEF Loops
    <3> QED BY <3>1, <3>3, <3>4, Zenon
  <2>2. CASE ~Active(l)
    <3>1. loop'[l] = loop[l]
      BY <1>1, <2>2
    <3> QED BY <1>2, <2>2, <3>1 DEF Active
  <2> QED BY <2>1, <2>2
<1>4. loop' \in [Starts -> Loops] /\ \A l \in Starts : LoopOK(l)'
  BY <1>1, <1>3 DEF LoopOK, HasMessage
<1>5. MadeByStarts'
  BY <1>1, <1>2, <1>3, StillMade
<1>6. Outside'
  BY <1>1, <1>2 DEF Outside, Statuses
<1> QED BY <1>4, <1>5, <1>6 DEF TypeInv, TypeOK, Outside

LEMMA PublishType ==
  ASSUME TypeInv, NEW p \in Partitions, NEW kind \in Kinds, Publish(p, kind)
  PROVE  TypeInv'
<1>1. /\ Len(log[p]) < MaxMessages /\ log' = [log EXCEPT ![p] = Append(@, kind)]
      /\ UNCHANGED <<committed, position, service, loop, tried, rebalances>>
  BY DEF Publish
<1>2. loop \in [Starts -> Loops] /\ Outside /\ MadeByStarts /\ \A l \in Starts : LoopOK(l)
  BY TypeParts
<1>3. /\ log' \in [Partitions -> Seq(Kinds)]
      /\ Len(log'[p]) = Len(log[p]) + 1 /\ Len(log[p]) \in Nat
      /\ \A i \in 1..Len(log[p]) : log'[p][i] = log[p][i]
      /\ \A q \in Partitions \ {p} : log'[q] = log[q]
  BY <1>1, <1>2 DEF Outside
<1>4. \A q \in Partitions : committed'[q] <= position'[q] /\ position'[q] <= Len(log'[q])
  BY <1>1, <1>2, <1>3, ConsumerAssumption DEF Outside
<1>5. Outside'
  BY <1>1, <1>2, <1>3, <1>4, ConsumerAssumption DEF Outside, service
<1>6. \A l \in Starts : LoopOK(l)'
  <2> SUFFICES ASSUME NEW l \in Starts, HasMessage(l) PROVE LoopOK(l)'
    BY <1>1 DEF LoopOK, HasMessage
  <2>1. PICK q \in Partitions, o \in Offsets : loop[l].message = <<q, o>>
    BY <1>2 DEF LoopOK
  <2>2. o \in Nat /\ o < Len(log[q]) /\ (loop[l].at = "handling" => log[q][o + 1] = "handled")
    <3>1. loop[l].message[1] = q /\ loop[l].message[2] = o /\ o \in Nat
      BY <2>1, ConsumerAssumption DEF Offsets
    <3>2. LoopOK(l)
      BY <1>2
    <3>3. o < Len(log[q])
      BY <3>1, <3>2 DEF LoopOK
    <3>4. loop[l].at = "handling" => log[q][o + 1] = "handled"
      BY <3>1, <3>2 DEF LoopOK
    <3> QED BY <3>1, <3>3, <3>4
  <2>3. o < Len(log'[q]) /\ (loop[l].at = "handling" => log'[q][o + 1] = "handled")
    <3>1. CASE q = p
      <4>1. o + 1 \in 1..Len(log[p]) /\ o < Len(log'[p])
        BY <1>3, <2>2, <3>1
      <4>2. log'[p][o + 1] = log[p][o + 1]
        BY <1>3, <4>1
      <4>3. loop[l].at = "handling" => log[q][o + 1] = "handled"
        BY <2>2, Zenon
      <4> QED BY <3>1, <4>1, <4>2, <4>3
    <3>2. CASE q # p
      BY <1>3, <2>2, <3>2
    <3> QED BY <3>1, <3>2
  <2>4. /\ loop' = loop /\ loop[l].message[1] = q /\ loop[l].message[2] = o
        /\ loop[l].message \in Partitions \X Offsets
    BY <1>1, <2>1
  <2> QED BY <2>3, <2>4 DEF LoopOK, HasMessage
<1>7. MadeByStarts' /\ loop' \in [Starts -> Loops]
  BY <1>1, <1>2 DEF MadeByStarts, Begun, service
<1> QED BY <1>5, <1>6, <1>7 DEF TypeInv, TypeOK, Outside

LEMMA NextTypeInv == TypeInv /\ [Next]_vars => TypeInv'
<1> SUFFICES ASSUME TypeInv, [Next]_vars PROVE TypeInv'
  OBVIOUS
<1>0. Outside /\ (\A p \in Partitions : position[p] \in 0..MaxMessages /\ committed[p] \in 0..MaxMessages)
  BY TypeParts DEF Outside
<1>1. ASSUME NEW l \in Starts, Start(l) PROVE TypeInv'
  <2>1. CASE StartConnects(l)
    BY <2>1, StartConnectsType
  <2>2. CASE StartResumes(l)
    <3>1. Outside'
      BY <1>0, <2>2 DEF StartResumes, Begin, Outside
    <3> QED BY <2>2, <3>1, LoopTurnsType DEF StartResumes
  <2>3. CASE StartFindsConsumer(l)
    <3>1. Outside'
      BY <1>0, <2>3 DEF StartFindsConsumer, Outside
    <3> QED BY <2>3, <3>1, LoopsStand DEF StartFindsConsumer, TypeInv, TypeOK, Outside
  <2> QED BY <1>1, <2>1, <2>2, <2>3 DEF Start
<1>2. ASSUME NEW l \in Starts, Connected(l) PROVE TypeInv'
  <2>1. Outside'
    BY <1>0, <1>2, ConsumerAssumption DEF Connected, Begin, Resume, Outside, Statuses
  <2> QED BY <1>2, <2>1, LoopTurnsType DEF Connected
<1>3. ASSUME NEW l \in Starts, ConnectFails(l) PROVE TypeInv'
  <2>1. Outside'
    BY <1>0, <1>3 DEF ConnectFails, Outside, Statuses
  <2> QED BY <1>3, <2>1, LoopTurnsType DEF ConnectFails
<1>4. ASSUME NEW l \in Starts, Process(l) PROVE TypeInv'
  <2>1. CASE LoopEnds(l)
    <3>1. Outside'
      BY <1>0, <2>1 DEF LoopEnds, Outside
    <3> QED BY <2>1, <3>1, LoopTurnsType DEF LoopEnds
  <2> QED BY <1>4, <2>1, DeliverType, RouteType, HandlerEndsType, CommitType DEF Process
<1>5. CASE StopBegins
  <2>1. Outside'
    BY <1>0, <1>5 DEF StopBegins, Outside, Statuses
  <2> QED BY <1>5, <2>1, LoopsStand DEF StopBegins, TypeInv, TypeOK, Outside
<1>6. CASE StopEnds
  <2>1. Outside'
    BY <1>0, <1>6 DEF StopEnds, Outside, Statuses
  <2> QED BY <1>6, <2>1, LoopsStand DEF StopEnds, TypeInv, TypeOK, Outside
<1>7. CASE Crash
  BY <1>7, CrashType
<1>8. CASE Rebalance
  <2>1. Outside'
    BY <1>0, <1>8, ConsumerAssumption DEF Rebalance, Resume, Outside, service
  <2> QED BY <1>8, <2>1, LoopsStand DEF Rebalance, TypeInv, TypeOK, Outside, service
<1>9. ASSUME NEW p \in Partitions, NEW kind \in Kinds, Publish(p, kind) PROVE TypeInv'
  BY <1>9, PublishType
<1>10. CASE UNCHANGED vars
  <2>1. Outside'
    BY <1>0, <1>10 DEF vars, service, Outside
  <2> QED BY <1>10, <2>1, LoopsStand DEF vars, service, TypeInv, TypeOK, Outside
<1> QED BY <1>1, <1>2, <1>3, <1>4, <1>5, <1>6, <1>7, <1>8, <1>9, <1>10 DEF Next

\* The consumer keeps its types: it reads no offset beyond the log, commits
\* none it has not read, and every loop's message is one that was published,
\* through stops, crashes, rebalances and connects that fail.
THEOREM TypeCorrect == Spec => []TypeOK
<1>1. Spec => []TypeInv
  BY InitTypeInv, NextTypeInv, PTL DEF Spec
<1>2. TypeInv => TypeOK
  BY DEF TypeInv
<1> QED BY <1>1, <1>2, PTL

-----------------------------------------------------------------------------
(* Commits.                                                                *)

\* An offset is committed by taking over the position, which never lies
\* behind it: Resume is the only step back, and it goes to the offset itself.
LEMMA CommitStep ==
  ASSUME TypeInv, [Next]_vars
  PROVE  \A p \in Partitions : committed[p] <= committed'[p]
<1>1. committed' = committed \/ committed' = position
  BY DEF Next, Start, StartConnects, StartResumes, StartFindsConsumer, Connected,
         ConnectFails, Process, Deliver, Route, HandlerEnds, Commit, LoopEnds, StopBegins,
         StopEnds, Crash, Rebalance, Publish, vars
<1>2. \A p \in Partitions : committed[p] \in 0..MaxMessages /\ committed[p] <= position[p]
  BY DEF TypeInv, TypeOK
<1> QED BY <1>1, <1>2, ConsumerAssumption

\* Offsets are committed forwards only, also when start() is called again too
\* early and several loops commit the positions of one consumer.
THEOREM CommitsGoForward == Spec => CommitsForward
<1>1. Spec => []TypeInv
  BY InitTypeInv, NextTypeInv, PTL DEF Spec
<1>2. TypeInv /\ [Next]_vars => [\A p \in Partitions : committed[p] <= committed'[p]]_vars
  BY CommitStep
<1> QED BY <1>1, <1>2, PTL DEF Spec, CommitsForward

-----------------------------------------------------------------------------
(* At least once, in order.                                                *)

\* Nothing is unsent, nothing untried.
Grows ==
    /\ tried \subseteq tried'
    /\ \A p \in Partitions : \A i \in 0..(Len(log[p]) - 1) : log'[p][i + 1] = log[p][i + 1]

LEMMA AllTriedStays ==
  ASSUME Grows, NEW p \in Partitions, Len(log[p]) \in Nat, NEW o \in 0..Len(log[p]),
         AllTriedBelow(p, o)
  PROVE  AllTriedBelow(p, o)'
<1> SUFFICES ASSUME NEW i \in 0..(o - 1), log'[p][i + 1] = "handled", NEW h \in Handlers
             PROVE  <<p, i, h>> \in tried'
  BY DEF AllTriedBelow
<1>1. i \in 0..(Len(log[p]) - 1)
  OBVIOUS
<1>2. log[p][i + 1] = "handled"
  BY <1>1 DEF Grows
<1>3. <<p, i, h>> \in tried
  BY <1>2 DEF AllTriedBelow
<1> QED BY <1>3 DEF Grows

\* A message as it is in a loop's hand.
LEMMA InHand ==
  ASSUME TypeInv, NEW l \in Starts, HasMessage(l)
  PROVE  \E p \in Partitions, o \in Nat :
            /\ loop[l].message = <<p, o>>
            /\ loop[l].message[1] = p /\ loop[l].message[2] = o
            /\ Len(log[p]) \in Nat /\ o < Len(log[p])
<1>1. LoopOK(l) /\ log \in [Partitions -> Seq(Kinds)]
  BY DEF TypeInv, TypeOK
<1>2. PICK p \in Partitions, o \in Offsets : loop[l].message = <<p, o>>
  BY <1>1 DEF LoopOK
<1>3. o \in Nat /\ loop[l].message[1] = p /\ loop[l].message[2] = o
  BY <1>2, ConsumerAssumption DEF Offsets
<1>4. Len(log[p]) \in Nat
  BY <1>1
<1>5. o < Len(log[p])
  BY <1>1, <1>3 DEF LoopOK
<1> QED BY <1>2, <1>3, <1>4, <1>5

LEMMA InOrderStays ==
  ASSUME TypeInv, Grows, NEW l \in Starts, loop'[l] = loop[l], InOrder(l)
  PROVE  InOrder(l)'
<1>1. CASE ~HasMessage(l)
  <2>1. ~HasMessage(l)' /\ loop[l].handler = 1
    BY <1>1 DEF HasMessage, InOrder
  <2> QED BY <2>1 DEF InOrder, HasMessage
<1>2. CASE HasMessage(l)
  <2>1. PICK p \in Partitions, o \in Nat :
            /\ loop[l].message[1] = p /\ loop[l].message[2] = o
            /\ Len(log[p]) \in Nat /\ o < Len(log[p])
    BY <1>2, InHand
  <2>2. AllTriedBelow(p, o) /\ (loop[l].at = "committing" => AllTriedBelow(p, o + 1))
    BY <1>2, <2>1 DEF InOrder
  <2>3. AllTriedBelow(p, o)' /\ (loop[l].at = "committing" => AllTriedBelow(p, o + 1)')
    <3>1. o \in 0..Len(log[p]) /\ o + 1 \in 0..Len(log[p])
      BY <2>1
    <3> QED BY <2>1, <2>2, <3>1, AllTriedStays
  <2>4. loop[l].at = "handling" => \A h \in 1..(loop[l].handler - 1) : <<p, o, h>> \in tried'
    BY <2>1 DEF InOrder, Grows
  <2>5. loop[l].at = "given" => loop[l].handler = 1
    BY DEF InOrder
  <2>6. HasMessage(l)'
    BY <1>2 DEF HasMessage
  <2> QED BY <2>1, <2>3, <2>4, <2>5, <2>6 DEF InOrder
<1> QED BY <1>1, <1>2

\* The message a loop had is done with.
DoneWith(l) ==
    log[loop[l].message[1]][loop[l].message[2] + 1] = "handled" =>
        \A h \in Handlers : <<loop[l].message[1], loop[l].message[2], h>> \in tried'

\* A position stays good when every loop keeps its message or is done with it.
LEMMA HandStays ==
  ASSUME TypeInv, Grows, NEW p \in Partitions, NEW n \in 0..Len(log[p]), TriedOrInHand(p, n),
         \A k \in Starts : HasMessage(k) =>
            \/ HasMessage(k)' /\ loop'[k].message = loop[k].message
            \/ DoneWith(k)
  PROVE  TriedOrInHand(p, n)'
<1> SUFFICES ASSUME NEW i \in 0..(n - 1), log'[p][i + 1] = "handled"
             PROVE  \/ \A h \in Handlers : <<p, i, h>> \in tried'
                    \/ \E l \in Starts : HasMessage(l)' /\ loop'[l].message = <<p, i>>
  BY DEF TriedOrInHand
<1>1. Len(log[p]) \in Nat
  BY DEF TypeInv, TypeOK
<1>2. i \in 0..(Len(log[p]) - 1)
  BY <1>1
<1>3. log[p][i + 1] = "handled"
  BY <1>2 DEF Grows
<1>4. CASE \A h \in Handlers : <<p, i, h>> \in tried
  BY <1>4 DEF Grows
<1>5. CASE \E l \in Starts : HasMessage(l) /\ loop[l].message = <<p, i>>
  <2>1. PICK l \in Starts : HasMessage(l) /\ loop[l].message = <<p, i>>
    BY <1>5
  <2>2. loop[l].message[1] = p /\ loop[l].message[2] = i
    BY <2>1
  <2> QED BY <1>3, <2>1, <2>2 DEF DoneWith
<1> QED BY <1>3, <1>4, <1>5 DEF TriedOrInHand

\* Without a message in hand the positions are as good as offsets.
LEMMA NothingInHand ==
  ASSUME NEW p \in Partitions, NEW n,
         \A k \in Starts : ~HasMessage(k)
  PROVE  TriedOrInHand(p, n) <=> AllTriedBelow(p, n)
  BY DEF TriedOrInHand, AllTriedBelow

-----------------------------------------------------------------------------
(* DeliveryInv is inductive.                                               *)

LEMMA InitDelivery == Init => DeliveryInv
  BY DEF Init, DeliveryInv, OneLoop, Active, AtLeastOnce, AllTriedBelow, Reading, Consuming,
         HasMessage, InOrder

\* No loop is active: what a start() that may be called finds, and what a
\* loop that ends leaves behind.
NoLoop == \A k \in Starts : ~Active(k)

LEMMA NoLoopFacts ==
  ASSUME NEW l \in Starts, ~Active(l)
  PROVE  ~HasMessage(l) /\ ~Consuming(l)
  BY DEF Active, HasMessage, Consuming

\* The others of the one active loop.
LEMMA OthersInactive ==
  ASSUME OneLoop, NEW l \in Starts, Active(l), NEW k \in Starts \ {l}
  PROVE  ~Active(k)
  BY DEF OneLoop

\* Log and what was tried stay or grow in every step.
LEMMA StepGrows ==
  ASSUME TypeInv, [Next]_vars
  PROVE  Grows
<1>1. CASE \E p \in Partitions, kind \in Kinds : Publish(p, kind)
  <2>1. PICK p \in Partitions, kind \in Kinds : Publish(p, kind)
    BY <1>1
  <2>2. /\ log \in [Partitions -> Seq(Kinds)] /\ log' = [log EXCEPT ![p] = Append(@, kind)]
        /\ tried' = tried
    BY <2>1 DEF Publish, TypeInv, TypeOK
  <2>3. \A q \in Partitions : \A i \in 0..(Len(log[q]) - 1) : log'[q][i + 1] = log[q][i + 1]
    BY <2>2
  <2> QED BY <2>2, <2>3 DEF Grows
<1>2. CASE log' = log /\ tried \subseteq tried'
  BY <1>2 DEF Grows
<1>3. (\E p \in Partitions, kind \in Kinds : Publish(p, kind)) \/ (log' = log /\ tried \subseteq tried')
  BY DEF Next, Start, StartConnects, StartResumes, StartFindsConsumer, Connected,
         ConnectFails, Process, Deliver, Route, HandlerEnds, Commit, LoopEnds, StopBegins,
         StopEnds, Crash, Rebalance, Publish, vars
<1> QED BY <1>1, <1>2, <1>3

\* Offsets that were good stay good.
LEMMA OffsetsStay ==
  ASSUME TypeInv, Grows, AtLeastOnce, committed' = committed
  PROVE  AtLeastOnce'
<1> SUFFICES ASSUME NEW p \in Partitions PROVE AllTriedBelow(p, committed[p])'
  BY DEF AtLeastOnce
<1>1. /\ Len(log[p]) \in Nat /\ committed[p] \in 0..MaxMessages
      /\ committed[p] <= position[p] /\ position[p] <= Len(log[p])
      /\ position[p] \in 0..MaxMessages
  BY DEF TypeInv, TypeOK
<1>2. committed[p] \in 0..Len(log[p])
  BY <1>1, ConsumerAssumption
<1>3. AllTriedBelow(p, committed[p])
  BY DEF AtLeastOnce
<1>4. \A o : o = committed[p] => AllTriedBelow(p, o)'
  BY <1>1, <1>2, <1>3, AllTriedStays
<1> QED BY <1>4 DEF AllTriedBelow

LEMMA PositionsStay ==
  ASSUME TypeInv, Grows, Reading' => Reading, position' = position,
         Reading => \A p \in Partitions : TriedOrInHand(p, position[p]),
         Reading' => \A k \in Starts : HasMessage(k) =>
            \/ HasMessage(k)' /\ loop'[k].message = loop[k].message
            \/ DoneWith(k)
  PROVE  Reading' => \A p \in Partitions : TriedOrInHand(p, position[p])'
<1> SUFFICES ASSUME Reading', NEW p \in Partitions PROVE TriedOrInHand(p, position[p])'
  OBVIOUS
<1>1. /\ Len(log[p]) \in Nat /\ position[p] \in 0..MaxMessages /\ position[p] <= Len(log[p])
  BY DEF TypeInv, TypeOK
<1>2. position[p] \in 0..Len(log[p])
  BY <1>1, ConsumerAssumption
<1>3. TriedOrInHand(p, position[p])
  OBVIOUS
<1>4. \A n : n = position[p] => TriedOrInHand(p, n)'
  BY <1>2, <1>3, HandStays
<1> QED BY <1>4 DEF TriedOrInHand

\* After Resume.
LEMMA ResumedPositions ==
  ASSUME TypeInv, Grows, AtLeastOnce, Resume, tried' = tried, log' = log
  PROVE  \A p \in Partitions : TriedOrInHand(p, position[p])'
<1> SUFFICES ASSUME NEW p \in Partitions PROVE TriedOrInHand(p, position[p])'
  OBVIOUS
<1>1. position'[p] = committed[p]
  BY DEF Resume
<1> QED BY <1>1 DEF AtLeastOnce, AllTriedBelow, TriedOrInHand

\* Steps of the service that leave the loops and what they read alone.
LEMMA ServiceSteps ==
  ASSUME TypeInv, DeliveryInv, Grows, loop' = loop, committed' = committed,
         \/ position' = position /\ (status' = "open" => status = "open")
         \/ Resume /\ log' = log /\ tried' = tried,
         status' = "open" => started' /\ running'
  PROVE  DeliveryInv'
<1>1. OneLoop' /\ \A l \in Starts : InOrder(l)'
  <2>1. OneLoop'
    BY DEF DeliveryInv, OneLoop, Active
  <2>2. \A l \in Starts : InOrder(l)'
    BY InOrderStays DEF DeliveryInv
  <2> QED BY <2>1, <2>2
<1>2. AtLeastOnce'
  BY OffsetsStay DEF DeliveryInv
<1>3. Reading' => \A p \in Partitions : TriedOrInHand(p, position[p])'
  <2>1. CASE position' = position /\ (status' = "open" => status = "open")
    <3>1. Reading' => Reading
      BY <2>1 DEF Reading, Consuming, HasMessage
    <3>2. \A k \in Starts : HasMessage(k) => HasMessage(k)' /\ loop'[k].message = loop[k].message
      BY DEF HasMessage
    <3> QED BY <2>1, <3>1, <3>2, PositionsStay DEF DeliveryInv
  <2>2. CASE Resume /\ log' = log /\ tried' = tried
    BY <2>2, ResumedPositions DEF DeliveryInv
  <2> QED BY <2>1, <2>2
<1> QED BY <1>1, <1>2, <1>3 DEF DeliveryInv

\* The one active loop moves, or the first one that becomes active.
LEMMA OneMoves ==
  ASSUME TypeInv, DeliveryInv, Grows, NEW l \in Starts, Active(l) \/ NoLoop,
         \A k \in Starts \ {l} : loop'[k] = loop[k]
  PROVE  /\ OneLoop'
         /\ \A k \in Starts \ {l} :
              ~HasMessage(k) /\ ~Consuming(k) /\ ~Consuming(k)' /\ ~HasMessage(k)' /\ InOrder(k)'
<1>1. ASSUME NEW k \in Starts \ {l} PROVE ~Active(k) /\ loop'[k] = loop[k]
  BY OthersInactive DEF DeliveryInv, NoLoop
<1>2. OneLoop'
  BY <1>1 DEF OneLoop, Active
<1>3. ASSUME NEW k \in Starts \ {l}
      PROVE  ~HasMessage(k) /\ ~Consuming(k) /\ ~Consuming(k)' /\ ~HasMessage(k)' /\ InOrder(k)'
  <2>1. ~HasMessage(k) /\ ~Consuming(k)
    BY <1>1, NoLoopFacts
  <2>2. ~Consuming(k)' /\ ~HasMessage(k)'
    BY <1>1, <2>1 DEF HasMessage, Consuming
  <2>3. InOrder(k)'
    BY <1>1, InOrderStays DEF DeliveryInv
  <2> QED BY <2>1, <2>2, <2>3
<1> QED BY <1>2, <1>3

\* What is left to show when loop l has moved and the offsets stayed.
LEMMA LoopMoved ==
  ASSUME TypeInv, DeliveryInv, Grows, NEW l \in Starts, Active(l) \/ NoLoop,
         \A k \in Starts \ {l} : loop'[k] = loop[k],
         committed' = committed, position' = position,
         status' = "open" => started' /\ running',
         InOrder(l)',
         Reading' => Reading,
         Reading' /\ HasMessage(l) =>
            (HasMessage(l)' /\ loop'[l].message = loop[l].message) \/ DoneWith(l)
  PROVE  DeliveryInv'
<1>1. OneLoop' /\ \A k \in Starts : InOrder(k)'
  BY OneMoves
<1>2. AtLeastOnce'
  BY OffsetsStay DEF DeliveryInv
<1>3. Reading' => \A p \in Partitions : TriedOrInHand(p, position[p])'
  <2>1. Reading' => \A k \in Starts : HasMessage(k) =>
            (HasMessage(k)' /\ loop'[k].message = loop[k].message) \/ DoneWith(k)
    BY OneMoves
  <2>2. Reading => \A p \in Partitions : TriedOrInHand(p, position[p])
    BY DEF DeliveryInv
  <2> QED BY <2>1, <2>2, PositionsStay
<1> QED BY <1>1, <1>2, <1>3 DEF DeliveryInv

\* What a loop's step leaves it with.
LEMMA LoopAfter ==
  ASSUME TypeInv, NEW l \in Starts
  PROVE  /\ \A k \in Starts \ {l} :
              Begin(l) \/ End(l) \/ Await(l) \/ NextHandler(l) => loop'[k] = loop[k]
         /\ Begin(l) => loop'[l].at = "waiting" /\ loop'[l].handler = loop[l].handler
         /\ End(l) => loop'[l].at = "ended" /\ loop'[l].handler = 1
         /\ Await(l) => loop'[l].at = "waiting" /\ loop'[l].handler = 1
<1>1. loop \in [Starts -> Loops] /\ loop[l] \in Loops
  BY DEF TypeInv, TypeOK
<1>2. \A k \in Starts \ {l} : Begin(l) \/ End(l) \/ Await(l) \/ NextHandler(l) => loop'[k] = loop[k]
  BY <1>1 DEF Begin, End, Await, NextHandler
<1>3. Begin(l) => loop'[l].at = "waiting" /\ loop'[l].handler = loop[l].handler
  <2> SUFFICES ASSUME Begin(l) PROVE loop'[l].at = "waiting" /\ loop'[l].handler = loop[l].handler
    OBVIOUS
  <2>1. loop'[l] = [loop[l] EXCEPT !.at = "waiting", !.consumer = made]
    BY <1>1 DEF Begin
  <2> QED BY <1>1, <2>1 DEF Loops
<1>4. End(l) => loop'[l].at = "ended" /\ loop'[l].handler = 1
  <2> SUFFICES ASSUME End(l) PROVE loop'[l].at = "ended" /\ loop'[l].handler = 1
    OBVIOUS
  <2>1. loop'[l] = [loop[l] EXCEPT !.at = "ended", !.message = NoMessage, !.handler = 1]
    BY <1>1 DEF End
  <2> QED BY <1>1, <2>1 DEF Loops
<1>5. Await(l) => loop'[l].at = "waiting" /\ loop'[l].handler = 1
  <2> SUFFICES ASSUME Await(l) PROVE loop'[l].at = "waiting" /\ loop'[l].handler = 1
    OBVIOUS
  <2>1. loop'[l] = [loop[l] EXCEPT !.at = "waiting", !.message = NoMessage, !.handler = 1]
    BY <1>1 DEF Await
  <2> QED BY <1>1, <2>1 DEF Loops
<1> QED BY <1>2, <1>3, <1>4, <1>5

LEMMA StartDelivers ==
  ASSUME ~Overlap, TypeInv, DeliveryInv, Grows, NEW l \in Starts,
         StartConnects(l) \/ StartResumes(l)
  PROVE  DeliveryInv'
<1>1. NoLoop /\ ~HasMessage(l) /\ loop[l].handler = 1
  <2>1. NoLoop /\ loop[l].at = "off"
    BY DEF StartConnects, StartResumes, Callable, NoLoop
  <2> QED BY <2>1 DEF HasMessage, DeliveryInv, InOrder
<1>2. CASE StartConnects(l)
  <2>1. /\ \A k \in Starts \ {l} : loop'[k] = loop[k]
        /\ loop'[l].at = "connecting" /\ loop'[l].handler = 1
    <3>1. loop \in [Starts -> Loops] /\ loop' = [loop EXCEPT ![l].at = "connecting"]
      BY <1>2 DEF StartConnects, TypeInv, TypeOK
    <3>2. loop'[l] = [loop[l] EXCEPT !.at = "connecting"] /\ loop[l] \in Loops
      BY <3>1
    <3> QED BY <1>1, <3>1, <3>2 DEF Loops
  <2>2. /\ committed' = committed /\ position' = position /\ status' = "connecting"
    BY <1>2 DEF StartConnects
  <2>3. InOrder(l)'
    BY <2>1 DEF InOrder, HasMessage
  <2>4. ~Reading'
    <3>1. ~Consuming(l)'
      BY <2>1 DEF Consuming, HasMessage
    <3> QED BY <1>1, <2>1, <2>2, <3>1, OneMoves DEF Reading
  <2> QED BY <1>1, <2>1, <2>2, <2>3, <2>4, LoopMoved
<1>3. CASE StartResumes(l)
  <2>1. /\ Begin(l) /\ committed' = committed /\ position' = position
        /\ status = "open" /\ started' /\ running'
    BY <1>3 DEF StartResumes, Begin
  <2>2. InOrder(l)'
    BY <1>1, <2>1, LoopAfter DEF InOrder, HasMessage
  <2>3. Reading
    BY <2>1 DEF Reading
  <2> QED BY <1>1, <2>1, <2>2, <2>3, LoopAfter, LoopMoved
<1> QED BY <1>2, <1>3

LEMMA ConnectedDelivers ==
  ASSUME TypeInv, DeliveryInv, Grows, NEW l \in Starts, Connected(l)
  PROVE  DeliveryInv'
<1>1. /\ loop[l].at = "connecting" /\ Begin(l) /\ Resume /\ started' /\ running'
      /\ committed' = committed /\ tried' = tried /\ log' = log
  BY DEF Connected, Begin
<1>2. Active(l) /\ \A k \in Starts \ {l} : loop'[k] = loop[k]
  BY <1>1, LoopAfter DEF Active
<1>3. InOrder(l)'
  <2>1. loop[l].handler = 1
    BY <1>1 DEF DeliveryInv, InOrder, HasMessage
  <2> QED BY <1>1, <2>1, LoopAfter DEF InOrder, HasMessage
<1>4. OneLoop' /\ \A k \in Starts : InOrder(k)'
  BY <1>2, <1>3, OneMoves
<1>5. AtLeastOnce'
  BY <1>1, OffsetsStay DEF DeliveryInv
<1>6. \A p \in Partitions : TriedOrInHand(p, position[p])'
  BY <1>1, ResumedPositions DEF DeliveryInv
<1> QED BY <1>1, <1>4, <1>5, <1>6 DEF DeliveryInv

LEMMA EndsDeliver ==
  ASSUME TypeInv, DeliveryInv, Grows, NEW l \in Starts, ConnectFails(l) \/ LoopEnds(l)
  PROVE  DeliveryInv'
<1>1. /\ End(l) /\ Active(l) /\ committed' = committed /\ position' = position
      /\ running' = running /\ started' = started
      /\ status' = "broken" \/ status' = status
  BY DEF ConnectFails, LoopEnds, Ends, Active
<1>2. \A k \in Starts \ {l} : loop'[k] = loop[k]
  BY <1>1, LoopAfter
<1>3. InOrder(l)' /\ ~Consuming(l)'
  BY <1>1, LoopAfter DEF InOrder, HasMessage, Consuming
<1>4. Reading' => status' = "open"
  BY <1>1, <1>2, <1>3, OneMoves DEF Reading
<1>5. Reading' => Reading
  BY <1>1, <1>4 DEF Reading
<1>6. Reading' => ~HasMessage(l)
  <2>1. status' = "open" => status = "open" /\ running
    BY <1>1 DEF DeliveryInv
  <2>2. HasMessage(l) => ~running
    BY DEF ConnectFails, LoopEnds, Ends, HasMessage
  <2> QED BY <1>4, <2>1, <2>2
<1>7. status' = "open" => started' /\ running'
  BY <1>1 DEF DeliveryInv
<1> QED BY <1>1, <1>2, <1>3, <1>5, <1>6, <1>7, LoopMoved

LEMMA DeliverDelivers ==
  ASSUME TypeInv, DeliveryInv, Grows, NEW l \in Starts, NEW p \in Partitions, Deliver(l, p)
  PROVE  DeliveryInv'
<1> PICK o : o = position[p]
  OBVIOUS
<1>1. /\ loop[l].at = "waiting" /\ status = "open" /\ Active(l) /\ ~HasMessage(l)
      /\ o < Len(log[p]) /\ position' = [position EXCEPT ![p] = @ + 1]
      /\ UNCHANGED <<log, committed, service, tried, rebalances>>
  BY DEF Deliver, Reads, Active, HasMessage
<1>2. /\ Len(log[p]) \in Nat /\ o \in Nat /\ position \in [Partitions -> 0..MaxMessages]
      /\ loop[l] \in Loops /\ loop[l].handler = 1
  <2>1. o \in 0..MaxMessages /\ InOrder(l)
    BY DEF TypeInv, TypeOK, DeliveryInv
  <2> QED BY <1>1, <2>1, ConsumerAssumption DEF TypeInv, TypeOK, InOrder
<1>3. /\ loop'[l].at = "given" /\ loop'[l].message = <<p, o>> /\ loop'[l].handler = 1
      /\ \A k \in Starts \ {l} : loop'[k] = loop[k]
  <2>1. /\ loop' = [loop EXCEPT ![l].at = "given", ![l].message = <<p, o>>]
        /\ loop \in [Starts -> Loops]
    BY DEF Deliver, TypeInv, TypeOK
  <2>2. loop'[l] = [loop[l] EXCEPT !.at = "given", !.message = <<p, o>>]
    BY <2>1
  <2> QED BY <1>2, <2>1, <2>2 DEF Loops
<1>4. \A q \in Partitions : TriedOrInHand(q, position[q]) /\ AllTriedBelow(q, position[q])
  <2>1. \A k \in Starts : ~HasMessage(k)
    BY <1>1, <1>3, OneMoves
  <2> QED BY <1>1, <2>1, NothingInHand DEF DeliveryInv, Reading
<1>5. InOrder(l)'
  <2>1. AllTriedBelow(p, o)'
    BY <1>1, <1>4 DEF AllTriedBelow
  <2>2. loop'[l].message[1] = p /\ loop'[l].message[2] = o
    BY <1>3
  <2>3. AllTriedBelow(loop[l].message[1], loop[l].message[2])'
    BY <2>1, <2>2 DEF AllTriedBelow
  <2> QED BY <1>3, <2>3 DEF InOrder, HasMessage
<1>6. \A q \in Partitions : TriedOrInHand(q, position[q])'
  <2> SUFFICES ASSUME NEW q \in Partitions, NEW i \in 0..(position'[q] - 1),
                      log'[q][i + 1] = "handled"
               PROVE  \/ \A h \in Handlers : <<q, i, h>> \in tried'
                      \/ \E k \in Starts : HasMessage(k)' /\ loop'[k].message = <<q, i>>
    BY DEF TriedOrInHand
  <2>1. CASE q = p /\ i = o
    BY <1>3, <2>1 DEF HasMessage
  <2>2. CASE ~(q = p /\ i = o)
    <3>1. i \in 0..(position[q] - 1)
      <4>1. position[q] \in 0..MaxMessages
        BY <1>2
      <4> QED BY <1>1, <1>2, <2>2, <4>1, ConsumerAssumption
    <3> QED BY <1>1, <1>4, <3>1 DEF AllTriedBelow
  <2> QED BY <2>1, <2>2
<1>7. OneLoop' /\ \A k \in Starts : InOrder(k)'
  BY <1>1, <1>3, <1>5, OneMoves
<1>8. AtLeastOnce' /\ (status' = "open" => started' /\ running')
  BY <1>1, OffsetsStay DEF DeliveryInv, service
<1> QED BY <1>6, <1>7, <1>8 DEF DeliveryInv

LEMMA RouteDelivers ==
  ASSUME TypeInv, DeliveryInv, Grows, NEW l \in Starts, Route(l)
  PROVE  DeliveryInv'
<1>1. /\ loop[l].at = "given" /\ HasMessage(l) /\ Active(l) /\ InOrder(l) /\ loop[l].handler = 1
      /\ UNCHANGED <<log, committed, position, service, tried, rebalances>>
  BY DEF Route, HasMessage, Active, DeliveryInv, InOrder
<1>2. Reading /\ (status' = "open" => started' /\ running')
  BY <1>1 DEF Reading, Consuming, DeliveryInv, service
<1>3. CASE log[loop[l].message[1]][loop[l].message[2] + 1] = "handled"
  <2>1. /\ loop'[l].at = "handling" /\ loop'[l].message = loop[l].message
        /\ loop'[l].handler = 1 /\ \A k \in Starts \ {l} : loop'[k] = loop[k]
    <3>1. loop' = [loop EXCEPT ![l].at = "handling"] /\ loop \in [Starts -> Loops]
      BY <1>3 DEF Route, TypeInv, TypeOK
    <3>2. loop'[l] = [loop[l] EXCEPT !.at = "handling"] /\ loop[l] \in Loops
      BY <3>1
    <3> QED BY <1>1, <3>1, <3>2 DEF Loops
  <2>2. InOrder(l)'
    <3>1. AllTriedBelow(loop[l].message[1], loop[l].message[2])'
      BY <1>1, <2>1 DEF InOrder, AllTriedBelow
    <3> QED BY <2>1, <3>1 DEF InOrder, HasMessage
  <2>3. HasMessage(l)'
    BY <2>1 DEF HasMessage
  <2> QED BY <1>1, <1>2, <2>1, <2>2, <2>3, LoopMoved
<1>4. CASE log[loop[l].message[1]][loop[l].message[2] + 1] # "handled"
  <2>1. Await(l)
    BY <1>4 DEF Route
  <2>2. InOrder(l)'
    BY <2>1, LoopAfter DEF InOrder, HasMessage
  <2>3. DoneWith(l)
    BY <1>4 DEF DoneWith
  <2> QED BY <1>1, <1>2, <2>1, <2>2, <2>3, LoopAfter, LoopMoved
<1> QED BY <1>3, <1>4

LEMMA HandlerEndsDelivers ==
  ASSUME TypeInv, DeliveryInv, Grows, NEW l \in Starts, HandlerEnds(l)
  PROVE  DeliveryInv'
<1> PICK p, o : loop[l].message[1] = p /\ loop[l].message[2] = o
  OBVIOUS
<1>1. /\ loop[l].at = "handling" /\ HasMessage(l) /\ Active(l) /\ InOrder(l)
      /\ tried' = tried \union {Call(l)} /\ NextHandler(l)
      /\ UNCHANGED <<log, committed, position, service, rebalances>>
  BY DEF HandlerEnds, HasMessage, Active, DeliveryInv
<1>2. Reading /\ (status' = "open" => started' /\ running')
  BY <1>1 DEF Reading, Consuming, DeliveryInv, service
<1>3. /\ loop \in [Starts -> Loops] /\ loop[l] \in Loops /\ loop[l].handler \in Nat
      /\ 1 <= loop[l].handler /\ loop[l].handler <= HandlerCount
      /\ p \in Partitions /\ o \in Nat /\ Call(l) = <<p, o, loop[l].handler>>
      /\ Len(log[p]) \in Nat /\ o < Len(log[p])
  <2>1. loop[l].handler \in Handlers /\ Call(l) = <<p, o, loop[l].handler>> /\ p \in Partitions
    BY <1>1, CallValue
  <2>2. o \in Nat /\ Len(log[p]) \in Nat /\ o < Len(log[p])
    BY <1>1, InHand
  <2>3. loop \in [Starts -> Loops]
    BY DEF TypeInv, TypeOK
  <2> QED BY <2>1, <2>2, <2>3, ConsumerAssumption DEF Handlers
<1>4. AllTriedBelow(p, o)'
  <2>1. AllTriedBelow(p, o) /\ o \in 0..Len(log[p])
    BY <1>1, <1>3 DEF InOrder
  <2> QED BY <1>3, <2>1, AllTriedStays
<1>5. \A h \in 1..loop[l].handler : <<p, o, h>> \in tried'
  <2>1. \A h \in 1..(loop[l].handler - 1) : <<p, o, h>> \in tried
    BY <1>1 DEF InOrder
  <2> QED BY <1>1, <1>3, <2>1
<1>6. CASE loop[l].handler < HandlerCount
  <2>1. /\ loop'[l].at = "handling" /\ loop'[l].message = loop[l].message
        /\ loop'[l].handler = loop[l].handler + 1 /\ \A k \in Starts \ {l} : loop'[k] = loop[k]
    <3>1. loop' = [loop EXCEPT ![l].handler = @ + 1]
      BY <1>1, <1>6 DEF NextHandler
    <3>2. loop'[l] = [loop[l] EXCEPT !.handler = loop[l].handler + 1]
      BY <1>3, <3>1
    <3> QED BY <1>1, <1>3, <3>1, <3>2 DEF Loops
  <2>2. HasMessage(l)' /\ loop'[l].handler - 1 = loop[l].handler
    BY <1>3, <2>1 DEF HasMessage
  <2>3. \A h \in 1..(loop'[l].handler - 1) : <<p, o, h>> \in tried'
    BY <1>5, <2>2
  <2>4. InOrder(l)'
    BY <1>4, <2>1, <2>2, <2>3 DEF InOrder
  <2> QED BY <1>1, <1>2, <2>1, <2>2, <2>4, LoopMoved
<1>7. CASE ~(loop[l].handler < HandlerCount)
  <2>1. /\ loop'[l].at = "committing" /\ loop'[l].message = loop[l].message
        /\ \A k \in Starts \ {l} : loop'[k] = loop[k]
    <3>1. loop' = [loop EXCEPT ![l].at = "committing"]
      BY <1>1, <1>7 DEF NextHandler
    <3>2. loop'[l] = [loop[l] EXCEPT !.at = "committing"]
      BY <1>3, <3>1
    <3> QED BY <1>1, <1>3, <3>1, <3>2 DEF Loops
  <2>2. HasMessage(l)'
    BY <2>1 DEF HasMessage
  <2>3. \A h \in Handlers : <<p, o, h>> \in tried'
    BY <1>3, <1>5, <1>7, ConsumerAssumption DEF Handlers
  <2>4. AllTriedBelow(p, o + 1)'
    <3>1. log'[p] = log[p]
      BY <1>1
    <3>2. \A i \in 0..(o - 1) : log'[p][i + 1] = "handled" => \A h \in Handlers : <<p, i, h>> \in tried'
      BY <1>4 DEF AllTriedBelow
    <3>3. \A i \in 0..o : i \in 0..(o - 1) \/ i = o
      BY <1>3
    <3>4. \A i \in 0..o : log'[p][i + 1] = "handled" => \A h \in Handlers : <<p, i, h>> \in tried'
      BY <2>3, <3>2, <3>3
    <3>5. (o + 1) - 1 = o
      BY <1>3
    <3> QED BY <2>1, <3>4, <3>5 DEF AllTriedBelow
  <2>5. InOrder(l)'
    BY <1>4, <2>1, <2>2, <2>4 DEF InOrder
  <2> QED BY <1>1, <1>2, <2>1, <2>2, <2>5, LoopMoved
<1> QED BY <1>6, <1>7

LEMMA CommitDelivers ==
  ASSUME TypeInv, DeliveryInv, Grows, NEW l \in Starts, Commit(l)
  PROVE  DeliveryInv'
<1>1. /\ loop[l].at = "committing" /\ HasMessage(l) /\ Active(l) /\ InOrder(l) /\ Await(l)
      /\ UNCHANGED <<log, position, service, tried, rebalances>>
      /\ committed' = committed \/ committed' = position
  BY DEF Commit, HasMessage, Active, DeliveryInv
<1>2. Reading /\ (status' = "open" => started' /\ running')
  BY <1>1 DEF Reading, Consuming, DeliveryInv, service
<1>3. DoneWith(l)
  <2>1. PICK p \in Partitions, o \in Nat : loop[l].message[1] = p /\ loop[l].message[2] = o
    BY <1>1, InHand
  <2>2. AllTriedBelow(p, o + 1)
    BY <1>1, <2>1 DEF InOrder
  <2>3. log[p][o + 1] = "handled" => \A h \in Handlers : <<p, o, h>> \in tried
    BY <2>1, <2>2 DEF AllTriedBelow
  <2> QED BY <1>1, <2>1, <2>3 DEF DoneWith
<1>4. /\ loop'[l].at = "waiting" /\ loop'[l].handler = 1
      /\ \A k \in Starts \ {l} : loop'[k] = loop[k]
  BY <1>1, LoopAfter
<1>5. OneLoop' /\ (\A k \in Starts : InOrder(k)') /\ \A k \in Starts : ~HasMessage(k)'
  <2>1. InOrder(l)' /\ ~HasMessage(l)'
    BY <1>4 DEF InOrder, HasMessage
  <2> QED BY <1>1, <1>4, <2>1, OneMoves
<1>6. \A p \in Partitions : TriedOrInHand(p, position[p])'
  <2> SUFFICES ASSUME NEW p \in Partitions PROVE TriedOrInHand(p, position[p])'
    OBVIOUS
  <2>1. position[p] \in 0..Len(log[p]) /\ TriedOrInHand(p, position[p])
    <3>1. /\ Len(log[p]) \in Nat /\ position[p] \in 0..MaxMessages /\ position[p] <= Len(log[p])
      BY DEF TypeInv, TypeOK
    <3>2. TriedOrInHand(p, position[p])
      BY <1>2 DEF DeliveryInv
    <3> QED BY <3>1, <3>2, ConsumerAssumption
  <2>2. \A k \in Starts : HasMessage(k) => DoneWith(k)
    BY <1>1, <1>3, <1>4, OneMoves
  <2>3. \A n : n = position[p] => TriedOrInHand(p, n)'
    BY <2>1, <2>2, HandStays
  <2> QED BY <1>1, <2>3 DEF TriedOrInHand
<1>7. AtLeastOnce'
  <2>1. CASE committed' = committed
    BY <2>1, OffsetsStay DEF DeliveryInv
  <2>2. CASE committed' = position
    <3> SUFFICES ASSUME NEW p \in Partitions PROVE AllTriedBelow(p, committed[p])'
      BY DEF AtLeastOnce
    <3>1. committed'[p] = position'[p]
      BY <1>1, <2>2
    <3> QED BY <1>5, <1>6, <3>1 DEF TriedOrInHand, AllTriedBelow
  <2> QED BY <1>1, <2>1, <2>2
<1> QED BY <1>2, <1>5, <1>6, <1>7 DEF DeliveryInv

LEMMA CrashDelivers ==
  ASSUME TypeInv, DeliveryInv, Grows, Crash
  PROVE  DeliveryInv'
<1>1. /\ status' = "none" /\ committed' = committed
      /\ loop' = [k \in Starts |->
                 IF Active(k) THEN [loop[k] EXCEPT !.at = "ended", !.message = NoMessage, !.handler = 1]
                 ELSE loop[k]]
  BY DEF Crash
<1>2. ASSUME NEW k \in Starts PROVE ~Active(k)' /\ InOrder(k)'
  <2>1. CASE Active(k)
    <3>1. loop'[k] = [loop[k] EXCEPT !.at = "ended", !.message = NoMessage, !.handler = 1]
      BY <1>1, <2>1
    <3>2. loop[k] \in Loops
      BY DEF TypeInv, TypeOK
    <3>3. loop'[k].at = "ended" /\ loop'[k].handler = 1
      BY <3>1, <3>2 DEF Loops
    <3> QED BY <3>3 DEF Active, InOrder, HasMessage
  <2>2. CASE ~Active(k)
    <3>1. loop'[k] = loop[k]
      BY <1>1, <2>2
    <3> QED BY <2>2, <3>1, InOrderStays DEF Active, DeliveryInv
  <2> QED BY <2>1, <2>2
<1>3. OneLoop' /\ ~Reading'
  BY <1>1, <1>2 DEF OneLoop, Reading, Active, Consuming, HasMessage
<1>4. AtLeastOnce'
  BY <1>1, OffsetsStay DEF DeliveryInv
<1> QED BY <1>1, <1>2, <1>3, <1>4 DEF DeliveryInv

LEMMA NextDelivery == ~Overlap /\ TypeInv /\ DeliveryInv /\ [Next]_vars => DeliveryInv'
<1> SUFFICES ASSUME ~Overlap, TypeInv, DeliveryInv, [Next]_vars PROVE DeliveryInv'
  OBVIOUS
<1>0. Grows /\ (status = "open" => started /\ running)
  BY StepGrows DEF DeliveryInv
<1>1. ASSUME NEW l \in Starts, Start(l) PROVE DeliveryInv'
  <2>1. CASE StartConnects(l) \/ StartResumes(l)
    BY <1>0, <2>1, StartDelivers
  <2>2. CASE StartFindsConsumer(l)
    BY <1>0, <2>2, ServiceSteps DEF StartFindsConsumer
  <2> QED BY <1>1, <2>1, <2>2 DEF Start
<1>2. ASSUME NEW l \in Starts, Connected(l) PROVE DeliveryInv'
  BY <1>0, <1>2, ConnectedDelivers
<1>3. ASSUME NEW l \in Starts, ConnectFails(l) PROVE DeliveryInv'
  BY <1>0, <1>3, EndsDeliver
<1>4. ASSUME NEW l \in Starts, Process(l) PROVE DeliveryInv'
  BY <1>0, <1>4, DeliverDelivers, RouteDelivers, HandlerEndsDelivers, CommitDelivers, EndsDeliver
     DEF Process
<1>5. CASE StopBegins
  BY <1>0, <1>5, ServiceSteps DEF StopBegins
<1>6. CASE StopEnds
  BY <1>0, <1>6, ServiceSteps DEF StopEnds
<1>7. CASE Crash
  BY <1>0, <1>7, CrashDelivers
<1>8. CASE Rebalance
  BY <1>0, <1>8, ServiceSteps DEF Rebalance, service
<1>9. ASSUME NEW p \in Partitions, NEW kind \in Kinds, Publish(p, kind) PROVE DeliveryInv'
  BY <1>0, <1>9, ServiceSteps DEF Publish, service
<1>10. CASE UNCHANGED vars
  BY <1>0, <1>10, ServiceSteps DEF vars, service
<1> QED BY <1>1, <1>2, <1>3, <1>4, <1>5, <1>6, <1>7, <1>8, <1>9, <1>10 DEF Next

\* Only a handler's end adds to what was tried, for the message in hand.
LEMMA FirstStep ==
  ASSUME TypeInv, DeliveryInv, [Next]_vars, NEW c \in tried' \ tried
  PROVE  AllTriedBelow(c[1], c[2])
<1>1. PICK l \in Starts : HandlerEnds(l)
  BY DEF Next, Start, StartConnects, StartResumes, StartFindsConsumer, Connected,
         ConnectFails, Process, Deliver, Route, Commit, LoopEnds, StopBegins,
         StopEnds, Crash, Rebalance, Publish, vars
<1>2. HasMessage(l) /\ InOrder(l) /\ c = Call(l)
  BY <1>1 DEF HandlerEnds, HasMessage, DeliveryInv
<1>3. c = <<loop[l].message[1], loop[l].message[2], loop[l].handler>>
  BY <1>2, CallValue
<1> QED BY <1>2, <1>3 DEF InOrder

\* At least once: unless start() is called while an earlier call still runs,
\* no offset is ever committed past a message that some registered handler was
\* not called with, whatever is stopped, crashes, is rebalanced or cannot
\* connect, with any number of handlers, partitions and restarts.
THEOREM DeliveredAtLeastOnce == ~Overlap /\ Spec => []AtLeastOnce
<1>1. ~Overlap /\ Spec => [](TypeInv /\ DeliveryInv)
  <2>1. Init => TypeInv /\ DeliveryInv
    BY InitTypeInv, InitDelivery
  <2>2. ~Overlap /\ TypeInv /\ DeliveryInv /\ [Next]_vars => (TypeInv /\ DeliveryInv)'
    BY NextTypeInv, NextDelivery
  <2>3. CASE ~Overlap
    <3>1. TypeInv /\ DeliveryInv /\ [Next]_vars => (TypeInv /\ DeliveryInv)'
      BY <2>2, <2>3
    <3> QED BY <2>1, <3>1, PTL DEF Spec
  <2> QED BY <2>3
<1>2. DeliveryInv => AtLeastOnce
  BY DEF DeliveryInv
<1> QED BY <1>1, <1>2, PTL

\* First deliveries keep the order of a partition: under the same condition,
\* a message reaches a handler for the first time only after every earlier
\* message of its partition went through all handlers.
THEOREM FirstDeliveriesInOrder == ~Overlap /\ Spec => FirstInOrder
<1>1. Init => TypeInv /\ DeliveryInv
  BY InitTypeInv, InitDelivery
<1>2. CASE ~Overlap
  <2>1. TypeInv /\ DeliveryInv /\ [Next]_vars => (TypeInv /\ DeliveryInv)'
    BY <1>2, NextTypeInv, NextDelivery
  <2>2. TypeInv /\ DeliveryInv /\ [Next]_vars
           => [\A c \in tried' \ tried : AllTriedBelow(c[1], c[2])]_vars
    BY FirstStep
  <2> QED BY <1>1, <2>1, <2>2, PTL DEF Spec, FirstInOrder
<1> QED BY <1>2

=============================================================================
