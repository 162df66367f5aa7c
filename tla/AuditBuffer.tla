----------------------------- MODULE AuditBuffer -----------------------------
(***************************************************************************)
(* The audit service: an in-memory buffer of log entries that overlapping  *)
(* flushes drain into PostgreSQL.                                          *)
(*                                                                         *)
(* Every coroutine of the service runs in one asyncio loop, and the        *)
(* sections under its lock await nothing, so the lock never blocks anyone: *)
(* adding a log, taking the buffer and putting logs back are atomic, and   *)
(* everything interleaves at the database write in between.                *)
(***************************************************************************)
EXTENDS Naturals, Sequences, SequencesExt

CONSTANTS
    BatchSize,    \* buffered logs from which adding one starts a flush
    MaxBuffer,    \* capacity of the buffer
    Background,   \* the flushes that adding a log can start (a bound)
    MaxLogs,      \* bound: logs the requests write
    MaxFailures   \* bound: writes that raise

ASSUME AuditAssumption ==
    /\ BatchSize \in Nat \ {0}
    /\ MaxBuffer \in Nat \ {0}
    /\ {"periodic", "stop"} \intersect Background = {}
    /\ MaxLogs \in Nat
    /\ MaxFailures \in Nat

\* Who flushes: the periodic task, stop(), and the tasks _add_log starts.
Flushers == Background \union {"periodic", "stop"}

VARIABLES
    started,   \* _started
    buffer,    \* _buffer, oldest first; a log is its number
    logged,    \* how many logs were written so far
    flusher,   \* what each flusher is doing
    taken,     \* the logs each flush has taken from the buffer
    stored,    \* the logs in the audit_logs table, as they arrived
    failures,  \* how many writes raised
    doubtful,  \* the logs a write stored and then raised for (history)
    overlapped \* two flushes have been writing at the same time (history)

history == <<doubtful, overlapped>>
vars == <<started, buffer, logged, flusher, taken, stored, failures, history>>

States == {"off", "asleep", "ready", "writing", "waiting", "done"}

TypeOK ==
    /\ started \in BOOLEAN
    /\ buffer \in Seq(1..MaxLogs) /\ Len(buffer) <= MaxBuffer
    /\ logged \in 0..MaxLogs
    /\ flusher \in [Flushers -> States]
    /\ taken \in [Flushers -> Seq(1..MaxLogs)]
    /\ stored \in Seq(1..MaxLogs)
    /\ failures \in 0..MaxFailures
    /\ doubtful \subseteq ToSet(stored)
    /\ overlapped \in BOOLEAN

\* start() has created the periodic task.
Init ==
    /\ started = TRUE
    /\ buffer = <<>>
    /\ logged = 0
    /\ flusher = [f \in Flushers |-> IF f = "periodic" THEN "asleep" ELSE "off"]
    /\ taken = [f \in Flushers |-> <<>>]
    /\ stored = <<>>
    /\ failures = 0
    /\ doubtful = {}
    /\ overlapped = FALSE

-----------------------------------------------------------------------------
(* The buffer.                                                             *)

\* A deque with maxlen drops its oldest entry to append a new one.
Appended(b, log) ==
    IF Len(b) = MaxBuffer THEN Append(Tail(b), log) ELSE Append(b, log)

\* Wrong: no check for room.
PutBackAll(b, logs) == logs \o b
\* Wrong: behind what arrived meanwhile.
PutBackBehind(b, logs) ==
    LET kept == IF Len(logs) <= MaxBuffer - Len(b) THEN Len(logs) ELSE MaxBuffer - Len(b)
    IN  b \o SubSeq(logs, Len(logs) - kept + 1, Len(logs))
\* Wrong: only when nothing arrived meanwhile.
PutBackIfEmpty(b, logs) == IF b = <<>> THEN logs ELSE b
\* Logs that could not be written go back in front, the newest of them
\* first, as long as there is room.
PutBack(b, logs) ==
    LET kept == IF Len(logs) <= MaxBuffer - Len(b) THEN Len(logs) ELSE MaxBuffer - Len(b)
    IN  SubSeq(logs, Len(logs) - kept + 1, Len(logs)) \o b

-----------------------------------------------------------------------------
\* _add_log, while requests are served: the lifespan stops the service after
\* the server has finished them.
AddLog ==
    /\ started
    /\ logged < MaxLogs
    /\ logged' = logged + 1
    /\ buffer' = Appended(buffer, logged + 1)
    /\ IF Len(buffer') >= BatchSize
       THEN \E f \in Background :
                flusher[f] = "off" /\ flusher' = [flusher EXCEPT ![f] = "ready"]
       ELSE UNCHANGED flusher
    /\ UNCHANGED <<started, taken, stored, failures, history>>

\* What a flusher does when its flush is over.
Rest(f) ==
    CASE f = "periodic" -> "asleep"
      [] f = "stop"     -> "done"
      [] OTHER          -> "off"

Runnable(f) ==
    \/ flusher[f] = "ready"
    \/ f = "periodic" /\ flusher[f] = "asleep" /\ started

\* Wrong: the buffer is copied but not cleared.
TakeAndKeep(f) ==
    /\ Runnable(f)
    /\ IF buffer = <<>>
       THEN /\ flusher' = [flusher EXCEPT ![f] = Rest(f)]
            /\ UNCHANGED <<buffer, taken, overlapped>>
       ELSE /\ flusher' = [flusher EXCEPT ![f] = "writing"]
            /\ taken' = [taken EXCEPT ![f] = buffer]
            /\ UNCHANGED buffer
            /\ overlapped' = (overlapped \/ \E g \in Flushers : flusher[g] = "writing")
    /\ UNCHANGED <<started, logged, stored, failures, doubtful>>
\* _flush up to its write: the buffer is copied and cleared.
Take(f) ==
    /\ Runnable(f)
    /\ IF buffer = <<>>
       THEN /\ flusher' = [flusher EXCEPT ![f] = Rest(f)]
            /\ UNCHANGED <<buffer, taken, overlapped>>
       ELSE /\ flusher' = [flusher EXCEPT ![f] = "writing"]
            /\ taken' = [taken EXCEPT ![f] = buffer]
            /\ buffer' = <<>>
            /\ overlapped' = (overlapped \/ \E g \in Flushers : flusher[g] = "writing")
    /\ UNCHANGED <<started, logged, stored, failures, doubtful>>

\* The write returns.  The periodic task gets the CancelledError of a stop()
\* that waits for it instead.
Answered(f) ==
    /\ flusher[f] = "writing"
    /\ f = "periodic" => started
    /\ taken' = [taken EXCEPT ![f] = <<>>]
    /\ UNCHANGED <<started, logged, overlapped>>

WriteReturns(f) ==
    /\ Answered(f)
    /\ flusher' = [flusher EXCEPT ![f] = Rest(f)]
    /\ stored' = stored \o taken[f]
    /\ UNCHANGED <<buffer, failures, doubtful>>

\* Wrong: the exception ends the periodic task.
WriteRaisesAndEnds(f) ==
    /\ Answered(f)
    /\ failures < MaxFailures
    /\ failures' = failures + 1
    /\ flusher' = [flusher EXCEPT ![f] = IF f = "stop" THEN "done" ELSE "off"]
    /\ \/ UNCHANGED <<stored, doubtful>>
       \/ /\ stored' = stored \o taken[f]
          /\ doubtful' = doubtful \union ToSet(taken[f])
    /\ buffer' = PutBack(buffer, taken[f])
\* The write raises, before its commit or after it: logged, swallowed, and the
\* logs go back.
WriteRaises(f) ==
    /\ Answered(f)
    /\ failures < MaxFailures
    /\ failures' = failures + 1
    /\ flusher' = [flusher EXCEPT ![f] = Rest(f)]
    /\ \/ UNCHANGED <<stored, doubtful>>
       \/ /\ stored' = stored \o taken[f]
          /\ doubtful' = doubtful \union ToSet(taken[f])
    /\ buffer' = PutBack(buffer, taken[f])

-----------------------------------------------------------------------------
(* stop().                                                                 *)

Stop ==
    /\ started
    /\ started' = FALSE
    /\ flusher' = [flusher EXCEPT !["stop"] = "waiting"]
    /\ UNCHANGED <<buffer, logged, taken, stored, failures, history>>

\* The periodic task is cancelled at its sleep or at its write; a CancelledError
\* is no Exception, so _flush does not put the logs back.  The cancelled write
\* may have been committed.
PeriodicCancelled ==
    /\ flusher["stop"] = "waiting"
    /\ flusher' = [flusher EXCEPT !["stop"] = "ready", !["periodic"] = "off"]
    /\ taken' = [taken EXCEPT !["periodic"] = <<>>]
    /\ stored' \in {stored, stored \o taken["periodic"]}
    /\ UNCHANGED <<started, buffer, logged, failures, history>>

-----------------------------------------------------------------------------
Next ==
    \/ AddLog
    \/ \E f \in Flushers : Take(f) \/ WriteReturns(f) \/ WriteRaises(f)
    \/ Stop
    \/ PeriodicCancelled

Spec == Init /\ [][Next]_vars

\* Sleeps end, writes answer, and the loop runs what is ready.
FairSpec ==
    /\ Spec
    /\ \A f \in Flushers : WF_vars(Take(f)) /\ WF_vars(WriteReturns(f) \/ WriteRaises(f))
    /\ WF_vars(PeriodicCancelled)

-----------------------------------------------------------------------------
(* Properties.                                                             *)

InFlight == UNION {ToSet(taken[f]) : f \in Flushers}
Held == ToSet(buffer) \union InFlight \union ToSet(stored)
Stopping == ~started

\* A log is only given up for a full buffer, however flushes overlap and fail
\* behind each other; the one other loss is that of the flush stop() cancels.
LostOnlyWhenFull ==
    [][\A l \in Held \ Held' :
            \/ Len(buffer') = MaxBuffer
            \/ l \in ToSet(taken["periodic"]) /\ flusher'["periodic"] = "off"]_vars

\* A log is in one place: no two flushes write it, none writes it again once
\* stored, and it is not buffered while it is being written.  Only a write that
\* raised after its commit is repeated.
InOnePlace ==
    /\ \A i, j \in DOMAIN stored : i # j /\ stored[i] = stored[j] => stored[i] \in doubtful
    /\ IsInjective(buffer)
    /\ (ToSet(buffer) \union InFlight) \intersect ToSet(stored) \subseteq doubtful
    /\ ToSet(buffer) \intersect InFlight = {}
    /\ \A f, g \in Flushers : f # g => ToSet(taken[f]) \intersect ToSet(taken[g]) = {}

\* As long as no two flushes have overlapped the table has the logs in the order
\* they were made, although failed ones go back and newer ones arrive meanwhile.
StoredInOrder ==
    ~overlapped =>
        \A i, j \in DOMAIN stored :
            i < j /\ {stored[i], stored[j]} \intersect doubtful = {} => stored[i] < stored[j]

\* No log is stuck in memory: failing flushes do not end the periodic task, so
\* each log leaves the service, unless that is stopped.
NothingStuck ==
    \A l \in 1..MaxLogs :
        LET pending == l \in ToSet(buffer) \union InFlight
        IN  pending ~> (~pending \/ Stopping)

\* "Stop and flush remaining logs": when stop() is over, no write ever
\* failed and none is under way, every log is stored.
StopFlushesRemaining ==
    (flusher["stop"] = "done" /\ failures = 0 /\ InFlight = {} /\ buffer = <<>>)
        => ToSet(stored) = 1..logged
=============================================================================
