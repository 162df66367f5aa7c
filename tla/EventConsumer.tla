---------------------------- MODULE EventConsumer ----------------------------
(***************************************************************************)
(* EventConsumer over KafkaConsumer, as SyncService runs it: start() loops *)
(* over the messages of some partitions, hands each to the registered      *)
(* handlers, swallows their errors and commits.                            *)
(*                                                                         *)
(* stop(), start() and the loops of earlier start() calls are coroutines   *)
(* of one event loop that interleave at their awaits: the next message, a  *)
(* handler, the commit, the closing of the Kafka consumer.                 *)
(***************************************************************************)
EXTENDS Integers, Sequences, FiniteSets

CONSTANTS
    Partitions,     \* the partitions the consumer is assigned
    Starts,         \* the calls of SyncService.start() (a bound)
    HandlerCount,   \* handlers registered for an event type
    Disturbances,   \* what may happen: subset of AllDisturbances
    Overlap,        \* TRUE: start() may be called before the last one returned
    MaxMessages,    \* bound: messages per partition
    MaxRebalances   \* bound: rebalances

AllDisturbances == {"stop", "crash", "rebalance", "startFails", "readFails"}

ASSUME ConsumerAssumption ==
    /\ IsFiniteSet(Starts)
    /\ HandlerCount \in Nat \ {0}
    /\ Disturbances \subseteq AllDisturbances
    /\ Overlap \in BOOLEAN
    /\ MaxMessages \in Nat
    /\ MaxRebalances \in Nat

Handlers == 1..HandlerCount

\* "skipped": no event type, a type nobody registered for, or no dictionary.
Kinds == {"handled", "skipped"}

VARIABLES
    log,        \* the messages of each partition; offset o is log[p][o + 1]
    committed,  \* the group's committed offset of each partition
    position,   \* where the current Kafka consumer reads next
    status,     \* KafkaConsumer._consumer: none, or the state of the current one
    made,       \* how many Kafka consumers have been made
    started,    \* EventConsumer._started
    running,    \* EventConsumer._running
    serving,    \* SyncService._running
    loop,       \* each call of start(): its consume() loop
    tried,      \* <<p, o, h>>: handler h was called with message o of p and ended
    rebalances  \* how many rebalances there were

service == <<status, made, started, running, serving>>
vars == <<log, committed, position, service, loop, tried, rebalances>>

-----------------------------------------------------------------------------
Offsets == 0..(MaxMessages - 1)
Statuses == {"none", "connecting", "broken", "open", "closing"}

\* consumer: the Kafka consumer the loop iterates over; message: partition and
\* offset of what it was given; handler: the one it calls.
NoMessage == <<>>
Loops == [at : {"off", "connecting", "waiting", "given", "handling", "committing", "ended"},
          consumer : 0..Cardinality(Starts),
          message : {NoMessage} \union (Partitions \X Offsets), handler : Handlers]

TypeOK ==
    /\ log \in [Partitions -> Seq(Kinds)]
    /\ committed \in [Partitions -> 0..MaxMessages]
    /\ position \in [Partitions -> 0..MaxMessages]
    /\ \A p \in Partitions : committed[p] <= position[p] /\ position[p] <= Len(log[p])
    /\ status \in Statuses
    /\ made \in 0..Cardinality(Starts)
    /\ started \in BOOLEAN /\ running \in BOOLEAN /\ serving \in BOOLEAN
    /\ loop \in [Starts -> Loops]
    /\ tried \subseteq Partitions \X Offsets \X Handlers
    /\ rebalances \in 0..MaxRebalances

Init ==
    /\ log = [p \in Partitions |-> <<>>]
    /\ committed = [p \in Partitions |-> 0]
    /\ position = [p \in Partitions |-> 0]
    /\ status = "none"
    /\ made = 0
    /\ started = FALSE /\ running = FALSE /\ serving = FALSE
    /\ loop = [l \in Starts |->
                [at |-> "off", consumer |-> 0, message |-> NoMessage, handler |-> 1]]
    /\ tried = {}
    /\ rebalances = 0

Active(l) == loop[l].at \notin {"off", "ended"}

\* The loop's Kafka consumer is the current one, and not closed.
Reads(l) == loop[l].consumer = made /\ status = "open"

\* A bound: what ends a loop happens only while another start() is left.
Spare == \E l \in Starts : loop[l].at = "off"
May(d) == d \in Disturbances /\ Spare

-----------------------------------------------------------------------------
(* start().                                                                *)

\* Reading goes on from the committed offsets, or from the beginning (offset
\* 0) where there are none.
\* Wrong: always from the beginning.
ResumeAtZero == position' = [p \in Partitions |-> 0]
\* Wrong: from the end, what came meanwhile is skipped.
ResumeAtEnd == position' = [p \in Partitions |-> Len(log[p])]
Resume == position' = committed

Callable(l) ==
    /\ loop[l].at = "off"
    /\ ~serving
    /\ Overlap \/ \A k \in Starts : ~Active(k)

\* Loop l iterates over the current Kafka consumer.
Begin(l) ==
    /\ loop' = [loop EXCEPT ![l].at = "waiting", ![l].consumer = made]
    /\ started' = TRUE /\ running' = TRUE

End(l) == loop' = [loop EXCEPT ![l].at = "ended", ![l].message = NoMessage, ![l].handler = 1]

\* EventConsumer.start makes a Kafka consumer and connects it.
StartConnects(l) ==
    /\ Callable(l)
    /\ ~started /\ status = "none"
    /\ made' = made + 1 /\ status' = "connecting"
    /\ serving' = TRUE
    /\ loop' = [loop EXCEPT ![l].at = "connecting"]
    /\ UNCHANGED <<log, committed, position, started, running, tried, rebalances>>

Connected(l) ==
    /\ loop[l].at = "connecting"
    /\ status' = "open"
    /\ Begin(l)
    /\ Resume
    /\ UNCHANGED <<log, committed, made, serving, tried, rebalances>>

\* The exception leaves start(), the consumer object stays.
ConnectFails(l) ==
    /\ loop[l].at = "connecting"
    /\ May("startFails")
    /\ status' = "broken"
    /\ serving' = FALSE
    /\ End(l)
    /\ UNCHANGED <<log, committed, position, made, started, running, tried, rebalances>>

\* After a read that failed the consumer is still open.
StartResumes(l) ==
    /\ Callable(l)
    /\ status = "open"
    /\ Begin(l)
    /\ serving' = TRUE
    /\ UNCHANGED <<log, committed, position, status, made, tried, rebalances>>

\* A consumer object is there that cannot be read: KafkaConsumer.start or
\* EventConsumer.start return early, and iterating over it ends the loop
\* at once: the call is over.
StartFindsConsumer(l) ==
    /\ Callable(l)
    /\ status \in {"connecting", "broken", "closing"}
    /\ started' = TRUE /\ running' = TRUE
    /\ UNCHANGED <<log, committed, position, status, made, serving, loop, tried, rebalances>>

-----------------------------------------------------------------------------
(* consume() and _process_message.                                         *)

\* The Kafka consumer has a message for the loop.
Deliver(l, p) ==
    /\ loop[l].at = "waiting"
    /\ Reads(l)
    /\ position[p] < Len(log[p])
    /\ loop' = [loop EXCEPT ![l].at = "given", ![l].message = <<p, position[p]>>]
    /\ position' = [position EXCEPT ![p] = @ + 1]
    /\ UNCHANGED <<log, committed, service, tried, rebalances>>

Await(l) == loop' = [loop EXCEPT ![l].at = "waiting", ![l].message = NoMessage, ![l].handler = 1]

\* A skipped message is not committed either: the next commit covers it.
Route(l) ==
    /\ loop[l].at = "given"
    /\ running
    /\ LET m == loop[l].message
       IN  IF log[m[1]][m[2] + 1] = "handled"
           THEN loop' = [loop EXCEPT ![l].at = "handling"]
           ELSE Await(l)
    /\ UNCHANGED <<log, committed, position, service, tried, rebalances>>

\* The handler that loop l is in, with its message.
Call(l) == Append(loop[l].message, loop[l].handler)

\* Wrong: the commit comes after the first handler.
CommitAfterFirst(l) == loop' = [loop EXCEPT ![l].at = "committing"]
\* The next handler, or the commit after the last one.
NextHandler(l) ==
    loop' = IF loop[l].handler < HandlerCount
            THEN [loop EXCEPT ![l].handler = @ + 1]
            ELSE [loop EXCEPT ![l].at = "committing"]

\* Wrong: an exception of the handler ends the loop.
HandlerEndsLoop(l) ==
    /\ loop[l].at = "handling"
    /\ tried' = tried \union {Call(l)}
    /\ \/ NextHandler(l) /\ UNCHANGED serving
       \/ Spare /\ End(l) /\ serving' = FALSE
    /\ UNCHANGED <<log, committed, position, status, made, started, running, rebalances>>
\* The handler returns, or it raises: logged and swallowed.
HandlerEnds(l) ==
    /\ loop[l].at = "handling"
    /\ tried' = tried \union {Call(l)}
    /\ NextHandler(l)
    /\ UNCHANGED <<log, committed, position, service, rebalances>>

\* commit() commits the positions of the consumer that is current now.  It
\* raises, and the exception is swallowed, when there is none, and may raise
\* at any time.
Commit(l) ==
    /\ loop[l].at = "committing"
    /\ Await(l)
    /\ \/ status \in {"open", "closing"} /\ committed' = position
       \/ UNCHANGED committed
    /\ UNCHANGED <<log, position, service, tried, rebalances>>

\* The iterator ends on a closed consumer or raises, a given message is dropped
\* once stop() was called, and start() resets its flag on its way out.
Ends(l) ==
    \/ loop[l].at = "waiting" /\ (~Reads(l) \/ May("readFails"))
    \/ loop[l].at = "given" /\ ~running

LoopEnds(l) ==
    /\ Ends(l)
    /\ End(l)
    /\ serving' = FALSE
    /\ UNCHANGED <<log, committed, position, status, made, started, running, tried, rebalances>>

-----------------------------------------------------------------------------
(* stop(), and what happens to the process and to the group.               *)

StopBegins ==
    /\ serving
    /\ May("stop")
    /\ serving' = FALSE /\ running' = FALSE
    /\ status' = IF started THEN "closing" ELSE status
    /\ UNCHANGED <<log, committed, position, made, started, loop, tried, rebalances>>

StopEnds ==
    /\ status = "closing"
    /\ status' = "none"
    /\ started' = FALSE
    /\ UNCHANGED <<log, committed, position, made, running, serving, loop, tried, rebalances>>

\* The process dies and comes back with new objects.
Crash ==
    /\ May("crash")
    /\ status # "none" \/ \E l \in Starts : Active(l)
    /\ loop' = [l \in Starts |->
                 IF Active(l) THEN [loop[l] EXCEPT !.at = "ended", !.message = NoMessage, !.handler = 1]
                 ELSE loop[l]]
    /\ status' = "none"
    /\ started' = FALSE /\ running' = FALSE /\ serving' = FALSE
    /\ UNCHANGED <<log, committed, position, made, tried, rebalances>>

\* The group assigns the partitions anew, to this consumer.
Rebalance ==
    /\ "rebalance" \in Disturbances
    /\ status = "open"
    /\ rebalances < MaxRebalances
    /\ rebalances' = rebalances + 1
    /\ Resume
    /\ UNCHANGED <<log, committed, service, loop, tried>>

Publish(p, kind) ==
    /\ Len(log[p]) < MaxMessages
    /\ log' = [log EXCEPT ![p] = Append(@, kind)]
    /\ UNCHANGED <<committed, position, service, loop, tried, rebalances>>

-----------------------------------------------------------------------------
Start(l) == StartConnects(l) \/ StartResumes(l) \/ StartFindsConsumer(l)

Process(l) ==
    \/ \E p \in Partitions : Deliver(l, p)
    \/ Route(l) \/ HandlerEnds(l) \/ Commit(l) \/ LoopEnds(l)

Next ==
    \/ \E l \in Starts : Start(l) \/ Connected(l) \/ ConnectFails(l) \/ Process(l)
    \/ StopBegins \/ StopEnds \/ Crash \/ Rebalance
    \/ \E p \in Partitions, kind \in Kinds : Publish(p, kind)

Spec == Init /\ [][Next]_vars

\* Kafka answers, handlers end, and whoever runs the service starts it again.
FairSpec ==
    /\ Spec
    /\ \A l \in Starts : WF_vars(Start(l)) /\ WF_vars(Connected(l)) /\ WF_vars(Process(l))
    /\ WF_vars(StopEnds)

-----------------------------------------------------------------------------
(* Properties.                                                             *)

\* Messages of p below offset o that have handlers, all of which ended.
AllTriedBelow(p, o) ==
    \A i \in 0..(o - 1) : log[p][i + 1] = "handled" => \A h \in Handlers : <<p, i, h>> \in tried

\* "At-least-once": the committed offset passes no message that some handler
\* has not been called with, whatever is stopped, crashes or is rebalanced:
\* what is not committed is read again.
AtLeastOnce == \A p \in Partitions : AllTriedBelow(p, committed[p])

\* A message reaches a handler for the first time only after every earlier
\* message of its partition (that is, of its document) went through all of them.
FirstInOrder ==
    [][\A c \in tried' \ tried : AllTriedBelow(c[1], c[2])]_vars

\* Offsets are committed forwards only, also by the commits of a loop whose
\* consumer was replaced under it.
CommitsForward == [][\A p \in Partitions : committed[p] <= committed'[p]]_vars

\* No message is forgotten: whatever handlers raise and however often the
\* service is stopped, dies and starts again, every message that has handlers
\* goes through all of them, unless a connect failed: the consumer object it
\* leaves behind makes every later start() end at once.
EventuallyTried ==
    \A p \in Partitions, o \in Offsets :
        LET published == o < Len(log[p])
        IN  published ~> (published /\ AllTriedBelow(p, o + 1)) \/ status = "broken"
=============================================================================
