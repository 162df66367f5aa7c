-------------------------- MODULE AuditBuffer_proofs --------------------------
(***************************************************************************)
(* The audit service's buffer, for any capacity, batch size, number of     *)
(* background flushes and of failing writes: its types, that a log is in   *)
(* one place, that logs are given up only for a full buffer, and that      *)
(* flushes that do not overlap store in order.                             *)
(***************************************************************************)
EXTENDS AuditBuffer, SequenceTheorems, TLAPS

Increasing(s) == \A i, j \in DOMAIN s : i < j => s[i] < s[j]
Before(A, B) == \A a \in A, b \in B : a < b

\* Only a flush at its write has taken logs.
Idle == \A f \in Flushers : flusher[f] # "writing" => taken[f] = <<>>

Known == \A l \in Held : l <= logged

StoredOnce ==
    \A i, j \in DOMAIN stored : i # j /\ stored[i] = stored[j] => stored[i] \in doubtful

\* What each step relies on to leave a log in one place: besides the property,
\* that no flush holds a log twice, that a new log is new everywhere, and that
\* stop() has not flushed before it was called.
PlaceInv ==
    /\ started => flusher["stop"] = "off"
    /\ Idle
    /\ Known
    /\ StoredOnce
    /\ IsInjective(buffer)
    /\ ToSet(buffer) \intersect ToSet(stored) \subseteq doubtful
    /\ \A f \in Flushers :
        /\ IsInjective(taken[f])
        /\ ToSet(taken[f]) \intersect ToSet(stored) \subseteq doubtful
        /\ ToSet(buffer) \intersect ToSet(taken[f]) = {}
    /\ \A f, g \in Flushers : f # g => ToSet(taken[f]) \intersect ToSet(taken[g]) = {}

\* Logs that were stored by a write that said so.
Certain == ToSet(stored) \ doubtful

StoredSorted ==
    \A i, j \in DOMAIN stored :
        i < j /\ {stored[i], stored[j]} \intersect doubtful = {} => stored[i] < stored[j]

\* As long as flushes have not overlapped there is one line: the table, then
\* what the one flush has taken, then the buffer.
OrderInv ==
    ~overlapped =>
        /\ \A f, g \in Flushers : flusher[f] = "writing" /\ flusher[g] = "writing" => f = g
        /\ Increasing(buffer)
        /\ Before(Certain, ToSet(buffer))
        /\ \A f \in Flushers :
            /\ Increasing(taken[f])
            /\ Before(ToSet(taken[f]), ToSet(buffer))
            /\ Before(Certain, ToSet(taken[f]))
        /\ StoredSorted

-----------------------------------------------------------------------------
(* Sequences.                                                              *)

LEMMA InToSet ==
  ASSUME NEW S, NEW s \in Seq(S)
  PROVE  /\ \A x : x \in ToSet(s) <=> \E i \in 1..Len(s) : s[i] = x
         /\ DOMAIN s = 1..Len(s) /\ Len(s) \in Nat
         /\ ToSet(s) \subseteq S
  BY DEF ToSet

\* Two sequences one behind the other.
LEMMA Joined ==
  ASSUME NEW S, NEW s \in Seq(S), NEW t \in Seq(S)
  PROVE  /\ s \o t \in Seq(S) /\ Len(s \o t) = Len(s) + Len(t)
         /\ ToSet(s \o t) = ToSet(s) \union ToSet(t)
<1>1. /\ s \o t \in Seq(S) /\ Len(s \o t) = Len(s) + Len(t)
      /\ \A i \in 1..Len(s) + Len(t) : (s \o t)[i] = IF i <= Len(s) THEN s[i] ELSE t[i - Len(s)]
  BY ConcatProperties
<1>2. Len(s) \in Nat /\ Len(t) \in Nat
  OBVIOUS
<1>3. ASSUME NEW x \in ToSet(s \o t) PROVE x \in ToSet(s) \union ToSet(t)
  <2>1. PICK i \in 1..Len(s) + Len(t) : (s \o t)[i] = x
    BY <1>1, <1>3, InToSet
  <2>2. CASE i <= Len(s)
    BY <1>1, <1>2, <2>1, <2>2, InToSet
  <2>3. CASE ~(i <= Len(s))
    <3>1. i - Len(s) \in 1..Len(t) /\ t[i - Len(s)] = x
      BY <1>1, <1>2, <2>1, <2>3
    <3> QED BY <3>1, InToSet
  <2> QED BY <2>2, <2>3
<1>4. ASSUME NEW x \in ToSet(s) PROVE x \in ToSet(s \o t)
  <2>1. PICK i \in 1..Len(s) : s[i] = x
    BY <1>4, InToSet
  <2>2. i \in 1..Len(s \o t) /\ (s \o t)[i] = x
    BY <1>1, <1>2, <2>1
  <2> QED BY <1>1, <2>2, InToSet
<1>5. ASSUME NEW x \in ToSet(t) PROVE x \in ToSet(s \o t)
  <2>1. PICK i \in 1..Len(t) : t[i] = x
    BY <1>5, InToSet
  <2>2. /\ Len(s) + i \in 1..Len(s) + Len(t) /\ ~(Len(s) + i <= Len(s))
        /\ (Len(s) + i) - Len(s) = i
    BY <1>2
  <2>3. (s \o t)[Len(s) + i] = x
    BY <1>1, <2>1, <2>2
  <2> QED BY <1>1, <2>2, <2>3, InToSet
<1> QED BY <1>1, <1>3, <1>4, <1>5

\* Each place of the joined sequence is one of the two.
LEMMA JoinedAt ==
  ASSUME NEW S, NEW s \in Seq(S), NEW t \in Seq(S), NEW i \in 1..Len(s \o t)
  PROVE  \/ i \in 1..Len(s) /\ (s \o t)[i] = s[i]
         \/ i - Len(s) \in 1..Len(t) /\ i > Len(s) /\ (s \o t)[i] = t[i - Len(s)]
<1>1. /\ Len(s \o t) = Len(s) + Len(t) /\ Len(s) \in Nat /\ Len(t) \in Nat
      /\ \A k \in 1..Len(s) + Len(t) : (s \o t)[k] = IF k <= Len(s) THEN s[k] ELSE t[k - Len(s)]
  BY ConcatProperties
<1> QED BY <1>1

LEMMA JoinedInjective ==
  ASSUME NEW S, NEW s \in Seq(S), NEW t \in Seq(S), IsInjective(s), IsInjective(t),
         ToSet(s) \intersect ToSet(t) = {}
  PROVE  IsInjective(s \o t)
<1>1. /\ s \o t \in Seq(S) /\ DOMAIN (s \o t) = 1..Len(s \o t) /\ Len(s \o t) \in Nat
      /\ Len(s) \in Nat /\ Len(t) \in Nat /\ DOMAIN s = 1..Len(s) /\ DOMAIN t = 1..Len(t)
  BY Joined, InToSet
<1> SUFFICES ASSUME NEW i \in 1..Len(s \o t), NEW j \in 1..Len(s \o t), (s \o t)[i] = (s \o t)[j]
             PROVE  i = j
  BY <1>1 DEF IsInjective
<1>2. CASE i \in 1..Len(s) /\ (s \o t)[i] = s[i] /\ j \in 1..Len(s) /\ (s \o t)[j] = s[j]
  BY <1>1, <1>2 DEF IsInjective
<1>3. CASE /\ i - Len(s) \in 1..Len(t) /\ (s \o t)[i] = t[i - Len(s)]
           /\ j - Len(s) \in 1..Len(t) /\ (s \o t)[j] = t[j - Len(s)]
  <2>1. i - Len(s) = j - Len(s)
    BY <1>1, <1>3 DEF IsInjective
  <2> QED BY <1>1, <2>1
<1>4. ASSUME NEW x \in 1..Len(s), NEW y \in 1..Len(t) PROVE s[x] # t[y]
  BY InToSet
<1> QED BY <1>2, <1>3, <1>4, JoinedAt

LEMMA JoinedIncreasing ==
  ASSUME NEW s \in Seq(Nat), NEW t \in Seq(Nat), Increasing(s), Increasing(t),
         Before(ToSet(s), ToSet(t))
  PROVE  Increasing(s \o t)
<1>1. /\ s \o t \in Seq(Nat) /\ DOMAIN (s \o t) = 1..Len(s \o t) /\ Len(s \o t) \in Nat
      /\ Len(s) \in Nat /\ Len(t) \in Nat /\ DOMAIN s = 1..Len(s) /\ DOMAIN t = 1..Len(t)
  BY Joined, InToSet
<1> SUFFICES ASSUME NEW i \in 1..Len(s \o t), NEW j \in 1..Len(s \o t), i < j
             PROVE  (s \o t)[i] < (s \o t)[j]
  BY <1>1 DEF Increasing
<1>2. CASE i \in 1..Len(s) /\ (s \o t)[i] = s[i] /\ j \in 1..Len(s) /\ (s \o t)[j] = s[j]
  BY <1>1, <1>2 DEF Increasing
<1>3. CASE /\ i - Len(s) \in 1..Len(t) /\ (s \o t)[i] = t[i - Len(s)]
           /\ j - Len(s) \in 1..Len(t) /\ (s \o t)[j] = t[j - Len(s)]
  <2>1. i - Len(s) < j - Len(s)
    BY <1>1
  <2> QED BY <1>1, <1>3, <2>1 DEF Increasing
<1>4. ASSUME NEW x \in 1..Len(s), NEW y \in 1..Len(t) PROVE s[x] < t[y]
  <2>1. s[x] \in ToSet(s) /\ t[y] \in ToSet(t)
    BY InToSet
  <2> QED BY <2>1 DEF Before
<1>5. CASE i - Len(s) \in 1..Len(t) /\ i > Len(s) /\ j \in 1..Len(s)
  BY <1>1, <1>5
<1> QED BY <1>2, <1>3, <1>4, <1>5, JoinedAt

\* The last k elements.
LastOf(s, k) == SubSeq(s, Len(s) - k + 1, Len(s))

LEMMA LastOnes ==
  ASSUME NEW S, NEW s \in Seq(S), NEW k \in 0..Len(s)
  PROVE  /\ LastOf(s, k) \in Seq(S) /\ Len(LastOf(s, k)) = k /\ DOMAIN LastOf(s, k) = 1..k
         /\ \A i \in 1..k : /\ (Len(s) - k) + i \in DOMAIN s
                           /\ LastOf(s, k)[i] = s[(Len(s) - k) + i]
         /\ ToSet(LastOf(s, k)) \subseteq ToSet(s)
         /\ k = Len(s) => LastOf(s, k) = s
<1> PICK r : r = LastOf(s, k)
  OBVIOUS
<1>1. Len(s) \in Nat /\ k \in Nat /\ k <= Len(s) /\ DOMAIN s = 1..Len(s)
      /\ \A i \in 1..Len(s) : s[i] \in S
  BY InToSet
<1> DEFINE m == Len(s) - k + 1
           n == Len(s)
<1>2. /\ m \in Int /\ n \in Int /\ m >= 1 /\ n - m + 1 = k /\ (m <= n <=> k > 0)
      /\ \A i \in m..n : s[i] \in S
  BY <1>1
<1>3. /\ SubSeq(s, m, n) \in Seq(S)
      /\ Len(SubSeq(s, m, n)) = IF m <= n THEN n - m + 1 ELSE 0
      /\ \A i \in 1..n - m + 1 : SubSeq(s, m, n)[i] = s[m + i - 1]
  BY <1>2, SubSeqProperties
<1>4. r \in Seq(S) /\ Len(r) = k /\ \A i \in 1..k : r[i] = s[m + i - 1]
  BY <1>1, <1>2, <1>3 DEF LastOf
<1>5. DOMAIN r = 1..k
  BY <1>4
<1>6. \A i \in 1..k : m + i - 1 = (Len(s) - k) + i /\ (Len(s) - k) + i \in 1..Len(s)
  BY <1>1
<1>7. ASSUME NEW i \in 1..k
      PROVE  (Len(s) - k) + i \in DOMAIN s /\ r[i] = s[(Len(s) - k) + i]
  <2>1. r[i] = s[m + i - 1]
    BY <1>4
  <2>2. m + i - 1 = (Len(s) - k) + i
    BY <1>6
  <2>3. r[i] = s[(Len(s) - k) + i]
    BY <2>1, <2>2, Zenon
  <2> QED BY <1>1, <1>6, <2>3
<1>8. ASSUME NEW x \in ToSet(r) PROVE x \in ToSet(s)
  <2>1. PICK i \in 1..k : r[i] = x
    BY <1>5, <1>8 DEF ToSet
  <2> QED BY <1>7, <2>1 DEF ToSet
<1>9. k = Len(s) => r = s
  <2> SUFFICES ASSUME k = Len(s) PROVE r = s
    OBVIOUS
  <2>1. \A i \in 1..Len(r) : r[i] = s[i]
    BY <1>1, <1>4, <1>7
  <2> QED BY <1>4, <2>1, SeqEqual
<1> QED BY <1>4, <1>5, <1>7, <1>8, <1>9

\* Dropping the front keeps order and uniqueness.
LEMMA LastOnesKeep ==
  ASSUME NEW s \in Seq(Nat), NEW k \in 0..Len(s)
  PROVE  /\ IsInjective(s) => IsInjective(LastOf(s, k))
         /\ Increasing(s) => Increasing(LastOf(s, k))
<1> PICK r : r = LastOf(s, k)
  OBVIOUS
<1>1. PICK d \in Nat : d = Len(s) - k
  <2>1. Len(s) \in Nat /\ k <= Len(s) /\ k \in Nat
    OBVIOUS
  <2>2. Len(s) - k \in Nat
    BY <2>1
  <2> QED BY <2>2
<1>2. DOMAIN r = 1..k /\ k \in Nat /\ \A i \in 1..k : d + i \in DOMAIN s /\ r[i] = s[d + i]
  <2>1. /\ DOMAIN r = 1..k
        /\ \A i \in 1..k : (Len(s) - k) + i \in DOMAIN s /\ r[i] = s[(Len(s) - k) + i]
    BY LastOnes
  <2>2. k \in Nat
    OBVIOUS
  <2> QED BY <1>1, <2>1, <2>2, Zenon
<1>3. ASSUME IsInjective(s), NEW i \in 1..k, NEW j \in 1..k, r[i] = r[j] PROVE i = j
  <2>1. s[d + i] = s[d + j] /\ d + i \in DOMAIN s /\ d + j \in DOMAIN s
    BY <1>2, <1>3
  <2>2. d + i = d + j
    BY <1>3, <2>1, Zenon DEF IsInjective
  <2> QED BY <1>2, <2>2
<1>4. ASSUME Increasing(s), NEW i \in 1..k, NEW j \in 1..k, i < j PROVE r[i] < r[j]
  <2>1. d + i < d + j
    BY <1>2, <1>4
  <2> QED BY <1>2, <1>4, <2>1 DEF Increasing
<1> QED BY <1>2, <1>3, <1>4 DEF IsInjective, Increasing

-----------------------------------------------------------------------------
(* The buffer.                                                             *)

\* What goes back in front: never more than there is room for, and nothing is
\* given up as long as there is.
LEMMA PutBackFacts ==
  ASSUME NEW S, S \subseteq Nat, NEW b \in Seq(S), NEW logs \in Seq(S), Len(b) <= MaxBuffer
  PROVE  /\ PutBack(b, logs) \in Seq(S) /\ Len(PutBack(b, logs)) <= MaxBuffer
         /\ ToSet(b) \subseteq ToSet(PutBack(b, logs))
         /\ ToSet(PutBack(b, logs)) \subseteq ToSet(b) \union ToSet(logs)
         /\ \/ Len(PutBack(b, logs)) = MaxBuffer
            \/ ToSet(PutBack(b, logs)) = ToSet(b) \union ToSet(logs)
         /\ IsInjective(b) /\ IsInjective(logs) /\ ToSet(b) \intersect ToSet(logs) = {}
               => IsInjective(PutBack(b, logs))
         /\ Increasing(b) /\ Increasing(logs) /\ Before(ToSet(logs), ToSet(b))
               => Increasing(PutBack(b, logs))
<1>0. PICK r : r = PutBack(b, logs)
  OBVIOUS
<1>1. Len(b) \in Nat /\ Len(logs) \in Nat /\ MaxBuffer \in Nat
  BY AuditAssumption
<1>2. PICK k : k = IF Len(logs) <= MaxBuffer - Len(b) THEN Len(logs) ELSE MaxBuffer - Len(b)
  OBVIOUS
<1>3. k \in 0..Len(logs) /\ k + Len(b) <= MaxBuffer
      /\ (k = Len(logs) \/ k + Len(b) = MaxBuffer)
  BY <1>1, <1>2
<1>4. PICK front : front = LastOf(logs, k)
  OBVIOUS
<1>5. r = front \o b
  BY <1>0, <1>2, <1>4 DEF PutBack, LastOf
<1>6. /\ front \in Seq(S) /\ Len(front) = k /\ ToSet(front) \subseteq ToSet(logs)
      /\ k = Len(logs) => front = logs
  BY <1>3, <1>4, LastOnes
<1>7. /\ front \in Seq(Nat) /\ b \in Seq(Nat) /\ logs \in Seq(Nat)
  BY <1>6, SeqMonotonic
<1>8. /\ r \in Seq(S) /\ Len(r) = k + Len(b) /\ ToSet(r) = ToSet(front) \union ToSet(b)
  <2>1. /\ front \o b \in Seq(S) /\ Len(front \o b) = Len(front) + Len(b)
        /\ ToSet(front \o b) = ToSet(front) \union ToSet(b)
    BY <1>6, Joined
  <2> QED BY <1>5, <1>6, <2>1, Zenon
<1>9. IsInjective(b) /\ IsInjective(logs) /\ ToSet(b) \intersect ToSet(logs) = {}
         => IsInjective(r)
  <2> SUFFICES ASSUME IsInjective(b), IsInjective(logs), ToSet(b) \intersect ToSet(logs) = {}
               PROVE  IsInjective(front \o b)
    BY <1>5, Zenon
  <2>1. IsInjective(front)
    BY <1>3, <1>4, <1>7, LastOnesKeep
  <2>2. ToSet(front) \intersect ToSet(b) = {}
    BY <1>6, Zenon
  <2> QED BY <1>7, <2>1, <2>2, JoinedInjective
<1>10. Increasing(b) /\ Increasing(logs) /\ Before(ToSet(logs), ToSet(b)) => Increasing(r)
  <2>1. Before(ToSet(logs), ToSet(b)) => Before(ToSet(front), ToSet(b))
    BY <1>6 DEF Before
  <2> QED BY <1>3, <1>4, <1>5, <1>7, <2>1, LastOnesKeep, JoinedIncreasing
<1>11. Len(r) = MaxBuffer \/ ToSet(r) = ToSet(b) \union ToSet(logs)
  BY <1>1, <1>3, <1>6, <1>8
<1> QED BY <1>0, <1>1, <1>3, <1>6, <1>8, <1>9, <1>10, <1>11

LEMMA OneElement ==
  ASSUME NEW S, NEW x \in S
  PROVE  <<x>> \in Seq(S) /\ Len(<<x>>) = 1 /\ ToSet(<<x>>) = {x} /\ IsInjective(<<x>>)
         /\ Increasing(<<x>>)
<1>1. <<x>> \in Seq(S) /\ Len(<<x>>) = 1 /\ DOMAIN <<x>> = 1..1 /\ <<x>>[1] = x
  OBVIOUS
<1>2. 1..1 = {1}
  OBVIOUS
<1>3. DOMAIN <<x>> = {1}
  BY <1>1, <1>2
<1>4. ToSet(<<x>>) = {x}
  BY <1>1, <1>3 DEF ToSet
<1> QED BY <1>1, <1>3, <1>4 DEF IsInjective, Increasing

\* Appending to the bounded deque.
LEMMA AppendedFacts ==
  ASSUME NEW S, S \subseteq Nat, NEW b \in Seq(S), Len(b) <= MaxBuffer, NEW log \in S
  PROVE  /\ Appended(b, log) \in Seq(S) /\ Len(Appended(b, log)) <= MaxBuffer
         /\ log \in ToSet(Appended(b, log))
         /\ ToSet(Appended(b, log)) \subseteq ToSet(b) \union {log}
         /\ Len(Appended(b, log)) = MaxBuffer \/ ToSet(b) \subseteq ToSet(Appended(b, log))
         /\ IsInjective(b) /\ log \notin ToSet(b) => IsInjective(Appended(b, log))
         /\ Increasing(b) /\ Before(ToSet(b), {log}) => Increasing(Appended(b, log))
<1>0. PICK r : r = Appended(b, log)
  OBVIOUS
<1>1. Len(b) \in Nat /\ MaxBuffer \in Nat /\ MaxBuffer > 0
  BY AuditAssumption
<1>2. PICK k : k = IF Len(b) = MaxBuffer THEN Len(b) - 1 ELSE Len(b)
  OBVIOUS
<1>3. /\ k \in 0..Len(b) /\ k + 1 <= MaxBuffer /\ (k = Len(b) \/ k + 1 = MaxBuffer)
  BY <1>1, <1>2
<1>4. PICK kept : kept = LastOf(b, k)
  OBVIOUS
<1>5. /\ kept \in Seq(S) /\ Len(kept) = k /\ ToSet(kept) \subseteq ToSet(b)
      /\ k = Len(b) => kept = b
  BY <1>3, <1>4, LastOnes
<1>6. kept = IF Len(b) = MaxBuffer THEN Tail(b) ELSE b
  <2>1. CASE Len(b) = MaxBuffer
    <3>1. b # <<>> /\ Len(b) - k + 1 = 2
      BY <1>1, <1>2, <2>1
    <3>2. Tail(b) = SubSeq(b, 2, Len(b))
      BY <3>1, TailIsSubSeq
    <3> QED BY <1>4, <2>1, <3>1, <3>2 DEF LastOf
  <2>2. CASE Len(b) # MaxBuffer
    BY <1>2, <1>5, <2>2
  <2> QED BY <2>1, <2>2
<1>14. PICK new : new = <<log>>
  OBVIOUS
<1>7. r = kept \o new
  <2>1. r = Append(kept, log)
    BY <1>0, <1>6 DEF Appended
  <2>2. Append(kept, log) = kept \o new
    BY <1>14, <1>5, AppendIsConcat
  <2> QED BY <2>1, <2>2
<1>8. /\ new \in Seq(S) /\ Len(new) = 1 /\ ToSet(new) = {log}
      /\ IsInjective(new) /\ Increasing(new)
  BY <1>14, OneElement
<1>9. /\ r \in Seq(S) /\ Len(r) = k + 1 /\ ToSet(r) = ToSet(kept) \union {log}
  <2>1. kept \in Seq(S) /\ new \in Seq(S)
    BY <1>5, <1>8
  <2>2. /\ kept \o new \in Seq(S) /\ Len(kept \o new) = Len(kept) + Len(new)
        /\ ToSet(kept \o new) = ToSet(kept) \union ToSet(new)
    BY <2>1, Joined
  <2> QED BY <1>5, <1>7, <1>8, <2>2, Zenon
<1>10. b \in Seq(Nat) /\ kept \in Seq(Nat) /\ new \in Seq(Nat)
  BY <1>5, <1>8, SeqMonotonic
<1>11. IsInjective(b) /\ log \notin ToSet(b) => IsInjective(r)
  <2> SUFFICES ASSUME IsInjective(b), log \notin ToSet(b) PROVE IsInjective(kept \o new)
    BY <1>7, Zenon
  <2>1. IsInjective(kept)
    BY <1>3, <1>4, <1>10, LastOnesKeep
  <2>2. ToSet(kept) \intersect ToSet(new) = {}
    BY <1>5, <1>8, Zenon
  <2> QED BY <1>8, <1>10, <2>1, <2>2, JoinedInjective
<1>12. Increasing(b) /\ Before(ToSet(b), {log}) => Increasing(r)
  <2>1. Before(ToSet(b), {log}) => Before(ToSet(kept), ToSet(new))
    BY <1>5, <1>8 DEF Before
  <2> QED BY <1>3, <1>4, <1>7, <1>8, <1>10, <2>1, LastOnesKeep, JoinedIncreasing
<1>13. Len(r) = MaxBuffer \/ ToSet(b) \subseteq ToSet(r)
  BY <1>3, <1>5, <1>9
<1> QED BY <1>0, <1>3, <1>5, <1>9, <1>11, <1>12, <1>13

-----------------------------------------------------------------------------
(* Type correctness.                                                       *)

Logs == 1..MaxLogs

LEMMA EmptyFacts ==
  /\ <<>> \in Seq(Logs) /\ Len(<<>>) = 0 /\ ToSet(<<>>) = {} /\ DOMAIN <<>> = {}
  /\ IsInjective(<<>>) /\ Increasing(<<>>)
<1>1. <<>> \in Seq(Logs) /\ Len(<<>>) = 0 /\ DOMAIN <<>> = {}
  OBVIOUS
<1>2. ToSet(<<>>) = {}
  BY <1>1 DEF ToSet
<1> QED BY <1>1, <1>2 DEF IsInjective, Increasing

LEMMA LogsAreNumbers == Logs \subseteq Nat /\ \A s \in Seq(Logs) : s \in Seq(Nat)
<1>1. Logs \subseteq Nat
  BY AuditAssumption DEF Logs
<1> QED BY <1>1, SeqMonotonic

LEMMA RestState == \A f : Rest(f) \in States \ {"writing", "waiting", "ready"}
  BY DEF Rest, States

LEMMA InitType == Init => TypeOK
<1> SUFFICES ASSUME Init PROVE TypeOK
  OBVIOUS
<1>1. buffer \in Seq(1..MaxLogs) /\ Len(buffer) <= MaxBuffer /\ stored \in Seq(1..MaxLogs)
  BY EmptyFacts, AuditAssumption DEF Init, Logs
<1>2. taken \in [Flushers -> Seq(1..MaxLogs)]
  BY EmptyFacts DEF Init, Logs
<1>3. flusher \in [Flushers -> States]
  BY DEF Init, States
<1>4. logged \in 0..MaxLogs /\ failures \in 0..MaxFailures
  BY AuditAssumption DEF Init
<1>5. started \in BOOLEAN /\ overlapped \in BOOLEAN /\ doubtful \subseteq ToSet(stored)
  BY DEF Init
<1> QED BY <1>1, <1>2, <1>3, <1>4, <1>5 DEF TypeOK

LEMMA AddLogType ==
  ASSUME TypeOK, AddLog
  PROVE  /\ TypeOK'
         /\ \A f \in Flushers : flusher'[f] = "writing" <=> flusher[f] = "writing"
<1>1. /\ buffer' = Appended(buffer, logged + 1) /\ logged' = logged + 1
      /\ UNCHANGED <<started, taken, stored, failures, history>>
  BY DEF AddLog
<1>2. logged + 1 \in Logs /\ buffer \in Seq(Logs) /\ Len(buffer) <= MaxBuffer
  BY AuditAssumption DEF AddLog, TypeOK, Logs
<1>3. buffer' \in Seq(Logs) /\ Len(buffer') <= MaxBuffer
  BY <1>1, <1>2, LogsAreNumbers, AppendedFacts
<1>4. \/ flusher' = flusher
      \/ \E f \in Background : flusher[f] = "off" /\ flusher' = [flusher EXCEPT ![f] = "ready"]
  BY DEF AddLog
<1>5. flusher \in [Flushers -> States] /\ Background \subseteq Flushers
  BY DEF TypeOK, Flushers
<1>6. /\ flusher' \in [Flushers -> States]
      /\ \A f \in Flushers : flusher'[f] = "writing" <=> flusher[f] = "writing"
  BY <1>4, <1>5 DEF States
<1>7. logged' \in 0..MaxLogs
  BY <1>1, <1>2, AuditAssumption DEF Logs
<1> QED BY <1>1, <1>3, <1>6, <1>7 DEF TypeOK, Logs, history

LEMMA TakeType ==
  ASSUME TypeOK, NEW f \in Flushers, Take(f)
  PROVE  TypeOK'
<1>1. buffer' \in Seq(Logs) /\ Len(buffer') <= MaxBuffer
  <2>1. buffer' = buffer \/ buffer' = <<>>
    BY DEF Take
  <2>2. <<>> \in Seq(Logs) /\ Len(<<>>) <= MaxBuffer
    BY EmptyFacts, AuditAssumption
  <2>3. buffer \in Seq(Logs) /\ Len(buffer) <= MaxBuffer
    BY DEF TypeOK, Logs
  <2> QED BY <2>1, <2>2, <2>3, Zenon
<1>2. taken' \in [Flushers -> Seq(Logs)]
  BY DEF Take, TypeOK, Logs
<1>3. flusher' \in [Flushers -> States]
  <2>1. Rest(f) \in States /\ "writing" \in States
    BY RestState DEF States
  <2> QED BY <2>1 DEF Take, TypeOK
<1>4. overlapped' \in BOOLEAN
  BY DEF Take, TypeOK
<1>5. UNCHANGED <<started, logged, stored, failures, doubtful>>
  BY DEF Take
<1> QED BY <1>1, <1>2, <1>3, <1>4, <1>5 DEF TypeOK, Logs

\* What a write that is over leaves, whether it returned or raised.
LEMMA WriteType ==
  ASSUME TypeOK, NEW f \in Flushers, WriteReturns(f) \/ WriteRaises(f)
  PROVE  /\ TypeOK'
         /\ flusher[f] = "writing" /\ flusher'[f] = Rest(f) /\ taken'[f] = <<>>
         /\ \A g \in Flushers \ {f} : flusher'[g] = flusher[g] /\ taken'[g] = taken[g]
         /\ UNCHANGED <<started, logged, overlapped>>
<1>1. /\ taken' = [taken EXCEPT ![f] = <<>>] /\ flusher' = [flusher EXCEPT ![f] = Rest(f)]
      /\ flusher[f] = "writing" /\ UNCHANGED <<started, logged, overlapped>>
  BY DEF WriteReturns, WriteRaises, Answered
<1>2. /\ flusher \in [Flushers -> States] /\ taken \in [Flushers -> Seq(Logs)]
      /\ taken[f] \in Seq(Logs) /\ stored \in Seq(Logs) /\ buffer \in Seq(Logs)
      /\ Len(buffer) <= MaxBuffer /\ doubtful \subseteq ToSet(stored)
  BY DEF TypeOK, Logs
<1>3. /\ flusher' \in [Flushers -> States] /\ taken' \in [Flushers -> Seq(Logs)]
      /\ flusher'[f] = Rest(f) /\ taken'[f] = <<>>
      /\ \A g \in Flushers \ {f} : flusher'[g] = flusher[g] /\ taken'[g] = taken[g]
  BY <1>1, <1>2, RestState, EmptyFacts
<1>4. /\ stored \o taken[f] \in Seq(Logs)
      /\ ToSet(stored \o taken[f]) = ToSet(stored) \union ToSet(taken[f])
  BY <1>2, Joined
<1>5. \/ stored' = stored /\ doubtful' = doubtful
      \/ /\ stored' = stored \o taken[f]
         /\ doubtful' = doubtful \/ doubtful' = doubtful \union ToSet(taken[f])
  BY DEF WriteReturns, WriteRaises
<1>6. stored' \in Seq(Logs) /\ doubtful' \subseteq ToSet(stored')
  BY <1>2, <1>4, <1>5, Zenon
<1>7. buffer' \in Seq(Logs) /\ Len(buffer') <= MaxBuffer
  <2>1. CASE buffer' = buffer
    BY <1>2, <2>1
  <2>2. CASE buffer' = PutBack(buffer, taken[f])
    BY <1>2, <2>2, LogsAreNumbers, PutBackFacts
  <2> QED BY <2>1, <2>2 DEF WriteReturns, WriteRaises
<1>8. failures' \in 0..MaxFailures
  BY AuditAssumption DEF WriteReturns, WriteRaises, TypeOK
<1> QED BY <1>1, <1>3, <1>6, <1>7, <1>8 DEF TypeOK, Logs

LEMMA CancelledType ==
  ASSUME TypeOK, PeriodicCancelled
  PROVE  /\ TypeOK'
         /\ taken'["periodic"] = <<>> /\ flusher'["periodic"] = "off" /\ flusher'["stop"] = "ready"
         /\ \A g \in Flushers \ {"periodic"} : taken'[g] = taken[g]
         /\ \A g \in Flushers \ {"periodic", "stop"} : flusher'[g] = flusher[g]
<1>1. /\ flusher' = [flusher EXCEPT !["stop"] = "ready", !["periodic"] = "off"]
      /\ taken' = [taken EXCEPT !["periodic"] = <<>>]
      /\ stored' \in {stored, stored \o taken["periodic"]}
      /\ UNCHANGED <<started, buffer, logged, failures, history>>
  BY DEF PeriodicCancelled
<1>2. /\ flusher \in [Flushers -> States] /\ taken \in [Flushers -> Seq(Logs)]
      /\ "periodic" \in Flushers /\ "stop" \in Flushers /\ "periodic" # "stop"
      /\ stored \in Seq(Logs) /\ taken["periodic"] \in Seq(Logs)
  BY DEF TypeOK, Logs, Flushers
<1>3. /\ stored \o taken["periodic"] \in Seq(Logs)
      /\ ToSet(stored \o taken["periodic"]) = ToSet(stored) \union ToSet(taken["periodic"])
  BY <1>2, Joined
<1>4. stored' \in Seq(Logs) /\ doubtful' \subseteq ToSet(stored')
  <2>1. stored' = stored \/ stored' = stored \o taken["periodic"]
    BY <1>1
  <2>2. doubtful \subseteq ToSet(stored) /\ doubtful' = doubtful
    BY <1>1 DEF TypeOK, history
  <2> QED BY <1>2, <1>3, <2>1, <2>2, Zenon
<1>5. /\ flusher' \in [Flushers -> States] /\ taken' \in [Flushers -> Seq(Logs)]
      /\ taken'["periodic"] = <<>> /\ flusher'["periodic"] = "off" /\ flusher'["stop"] = "ready"
      /\ \A g \in Flushers \ {"periodic"} : taken'[g] = taken[g]
      /\ \A g \in Flushers \ {"periodic", "stop"} : flusher'[g] = flusher[g]
  BY <1>1, <1>2, EmptyFacts DEF States
<1> QED BY <1>1, <1>4, <1>5 DEF TypeOK, Logs, history

LEMMA NextType == TypeOK /\ [Next]_vars => TypeOK'
<1> SUFFICES ASSUME TypeOK, [Next]_vars PROVE TypeOK'
  OBVIOUS
<1>1. CASE AddLog
  BY <1>1, AddLogType
<1>2. ASSUME NEW f \in Flushers, Take(f) \/ WriteReturns(f) \/ WriteRaises(f) PROVE TypeOK'
  BY <1>2, TakeType, WriteType
<1>3. CASE Stop
  BY <1>3 DEF Stop, TypeOK, States, history
<1>4. CASE PeriodicCancelled
  BY <1>4, CancelledType
<1>5. CASE UNCHANGED vars
  BY <1>5 DEF vars, history, TypeOK
<1> QED BY <1>1, <1>2, <1>3, <1>4, <1>5 DEF Next

\* The service keeps its types: the buffer never grows beyond its capacity,
\* however many logs failed flushes put back.
THEOREM TypeCorrect == Spec => []TypeOK
  BY InitType, NextType, PTL DEF Spec

-----------------------------------------------------------------------------
(* A log is in one place.                                                  *)

LEMMA HeldIs ==
  \A l : l \in Held <=> \/ l \in ToSet(buffer) \/ l \in ToSet(stored)
                        \/ \E f \in Flushers : l \in ToSet(taken[f])
  BY DEF Held, InFlight

LEMMA HeldWillBe ==
  \A l : l \in Held' <=> \/ l \in ToSet(buffer') \/ l \in ToSet(stored')
                         \/ \E f \in Flushers : l \in ToSet(taken'[f])
  BY DEF Held, InFlight

LEMMA InitPlace == Init => PlaceInv
<1> SUFFICES ASSUME Init PROVE PlaceInv
  OBVIOUS
<1>1. /\ ToSet(buffer) = {} /\ ToSet(stored) = {} /\ IsInjective(buffer) /\ DOMAIN stored = {}
      /\ \A f \in Flushers : taken[f] = <<>> /\ ToSet(taken[f]) = {} /\ IsInjective(taken[f])
  BY EmptyFacts DEF Init
<1>2. flusher["stop"] = "off"
  BY DEF Init, Flushers
<1>3. Known
  BY <1>1, HeldIs DEF Known
<1> QED BY <1>1, <1>2, <1>3 DEF PlaceInv, Idle, StoredOnce

\* No write stores a log again.
LEMMA StoredGrows ==
  ASSUME TypeOK, PlaceInv, NEW f \in Flushers, doubtful \subseteq doubtful',
         stored' = stored \/ stored' = stored \o taken[f]
  PROVE  StoredOnce'
<1>1. /\ stored \in Seq(Logs) /\ taken[f] \in Seq(Logs)
      /\ stored \o taken[f] \in Seq(Logs)
      /\ DOMAIN stored = 1..Len(stored) /\ DOMAIN taken[f] = 1..Len(taken[f])
      /\ Len(stored) \in Nat
  BY Joined, InToSet DEF TypeOK, Logs
<1>2. /\ StoredOnce /\ IsInjective(taken[f])
      /\ ToSet(taken[f]) \intersect ToSet(stored) \subseteq doubtful
  BY DEF PlaceInv
<1>3. CASE stored' = stored
  BY <1>2, <1>3 DEF StoredOnce
<1>4. CASE stored' = stored \o taken[f]
  <2>1. DOMAIN stored' = 1..Len(stored \o taken[f])
    BY <1>1, <1>4, InToSet
  <2> SUFFICES ASSUME NEW i \in 1..Len(stored \o taken[f]), NEW j \in 1..Len(stored \o taken[f]),
                      i # j, (stored \o taken[f])[i] = (stored \o taken[f])[j]
               PROVE  (stored \o taken[f])[i] \in doubtful
    BY <1>4, <2>1 DEF StoredOnce
  <2>2. ASSUME NEW x \in 1..Len(stored), NEW y \in 1..Len(taken[f]), stored[x] = taken[f][y]
        PROVE  stored[x] \in doubtful
    <3>1. stored[x] \in ToSet(stored) /\ stored[x] \in ToSet(taken[f])
      BY <1>1, <2>2 DEF ToSet
    <3> QED BY <1>2, <3>1
  <2>3. CASE /\ i \in 1..Len(stored) /\ (stored \o taken[f])[i] = stored[i]
             /\ j \in 1..Len(stored) /\ (stored \o taken[f])[j] = stored[j]
    BY <1>1, <1>2, <2>3 DEF StoredOnce
  <2>4. CASE /\ i - Len(stored) \in 1..Len(taken[f])
             /\ (stored \o taken[f])[i] = taken[f][i - Len(stored)]
             /\ j - Len(stored) \in 1..Len(taken[f])
             /\ (stored \o taken[f])[j] = taken[f][j - Len(stored)]
    <3>1. i - Len(stored) # j - Len(stored)
      BY <1>1
    <3> QED BY <1>1, <1>2, <2>4, <3>1 DEF IsInjective
  <2> QED BY <1>1, <2>2, <2>3, <2>4, JoinedAt
<1> QED BY <1>3, <1>4

LEMMA AddLogPlace ==
  ASSUME TypeOK, PlaceInv, AddLog
  PROVE  PlaceInv'
<1>1. /\ buffer' = Appended(buffer, logged + 1) /\ logged' = logged + 1 /\ started
      /\ UNCHANGED <<started, taken, stored, failures, doubtful>>
      /\ logged + 1 \in Logs /\ logged \in Nat
  BY AuditAssumption DEF AddLog, TypeOK, history, Logs
<1>2. logged + 1 \notin Held
  BY <1>1 DEF PlaceInv, Known
<1>3. /\ logged + 1 \notin ToSet(buffer) /\ logged + 1 \notin ToSet(stored)
      /\ \A f \in Flushers : logged + 1 \notin ToSet(taken[f])
  BY <1>2, HeldIs
<1>4. ToSet(buffer') \subseteq ToSet(buffer) \union {logged + 1} /\ IsInjective(buffer')
  BY <1>1, <1>3, LogsAreNumbers, AppendedFacts DEF TypeOK, Logs, PlaceInv
<1>5. Known'
  <2> SUFFICES ASSUME NEW l \in Held' PROVE l <= logged'
    BY DEF Known
  <2>1. l \in Held \/ l = logged + 1
    BY <1>1, <1>4, HeldIs, HeldWillBe
  <2>2. l \in Held => l <= logged /\ l \in Nat
    <3>1. /\ ToSet(buffer) \subseteq Logs /\ ToSet(stored) \subseteq Logs
          /\ \A f \in Flushers : ToSet(taken[f]) \subseteq Logs
      BY InToSet DEF TypeOK, Logs
    <3> QED BY <3>1, HeldIs, LogsAreNumbers DEF PlaceInv, Known
  <2> QED BY <1>1, <2>1, <2>2
<1>6. Idle' /\ (started' => flusher'["stop"] = "off")
  <2>1. \A f \in Flushers : flusher'[f] = "writing" <=> flusher[f] = "writing"
    BY AddLogType
  <2>2. flusher["stop"] = "off" /\ "stop" \notin Background
    BY <1>1, AuditAssumption DEF PlaceInv
  <2>3. flusher'["stop"] = "off"
    BY <2>2 DEF AddLog, TypeOK, Flushers
  <2> QED BY <1>1, <2>1, <2>3 DEF Idle, PlaceInv
<1>7. StoredOnce'
  BY <1>1 DEF StoredOnce, PlaceInv
<1>8. /\ ToSet(buffer') \intersect ToSet(stored') \subseteq doubtful'
      /\ \A f \in Flushers : ToSet(buffer') \intersect ToSet(taken'[f]) = {}
  BY <1>1, <1>3, <1>4 DEF PlaceInv
<1> QED BY <1>1, <1>4, <1>5, <1>6, <1>7, <1>8 DEF PlaceInv

\* Taking either finds nothing, or moves the buffer to a flush that had nothing.
LEMMA TakeCases ==
  ASSUME TypeOK, PlaceInv, NEW f \in Flushers, Take(f)
  PROVE  /\ flusher[f] # "writing" /\ taken[f] = <<>>
         /\ started => f # "stop"
         /\ \A g \in Flushers \ {f} : flusher'[g] = flusher[g] /\ taken'[g] = taken[g]
         /\ UNCHANGED <<started, logged, stored, failures, doubtful>>
         /\ \/ /\ flusher'[f] # "writing"
               /\ taken'[f] = taken[f] /\ UNCHANGED <<buffer, overlapped>>
            \/ /\ flusher'[f] = "writing" /\ taken'[f] = buffer /\ buffer' = <<>>
               /\ overlapped' = (overlapped \/ \E g \in Flushers : flusher[g] = "writing")
<1>1. /\ flusher \in [Flushers -> States] /\ taken \in [Flushers -> Seq(Logs)]
      /\ Rest(f) # "writing"
  BY RestState DEF TypeOK, Logs
<1>2. flusher[f] # "writing" /\ (started => f # "stop")
  BY DEF Take, Runnable, PlaceInv
<1>3. taken[f] = <<>>
  BY <1>2 DEF PlaceInv, Idle
<1>4. UNCHANGED <<started, logged, stored, failures, doubtful>>
  BY DEF Take
<1>5. CASE buffer = <<>>
  <2>1. flusher' = [flusher EXCEPT ![f] = Rest(f)] /\ UNCHANGED <<buffer, taken, overlapped>>
    BY <1>5 DEF Take
  <2> QED BY <1>1, <1>2, <1>3, <1>4, <2>1
<1>6. CASE buffer # <<>>
  <2>1. /\ flusher' = [flusher EXCEPT ![f] = "writing"] /\ taken' = [taken EXCEPT ![f] = buffer]
        /\ buffer' = <<>>
        /\ overlapped' = (overlapped \/ \E g \in Flushers : flusher[g] = "writing")
    BY <1>6 DEF Take
  <2>2. /\ flusher'[f] = "writing" /\ taken'[f] = buffer
        /\ \A g \in Flushers \ {f} : flusher'[g] = flusher[g] /\ taken'[g] = taken[g]
    BY <1>1, <2>1
  <2> QED BY <1>2, <1>3, <1>4, <2>1, <2>2, Zenon
<1> QED BY <1>5, <1>6

LEMMA TakePlace ==
  ASSUME TypeOK, PlaceInv, NEW f \in Flushers, Take(f)
  PROVE  PlaceInv' /\ Held' = Held
<1>1. /\ flusher[f] # "writing" /\ taken[f] = <<>> /\ (started => f # "stop")
      /\ \A g \in Flushers \ {f} : flusher'[g] = flusher[g] /\ taken'[g] = taken[g]
      /\ UNCHANGED <<started, logged, stored, failures, doubtful>>
      /\ \/ flusher'[f] # "writing" /\ taken'[f] = taken[f] /\ buffer' = buffer
         \/ flusher'[f] = "writing" /\ taken'[f] = buffer /\ buffer' = <<>>
  BY TakeCases
<1>2. ToSet(<<>>) = {} /\ IsInjective(<<>>)
  BY EmptyFacts
<1>3. /\ \/ ToSet(buffer') = ToSet(buffer) /\ ToSet(taken'[f]) = {}
         \/ ToSet(buffer') = {} /\ ToSet(taken'[f]) = ToSet(buffer)
      /\ ToSet(taken[f]) = {}
      /\ IsInjective(buffer') /\ IsInjective(taken'[f])
  BY <1>1, <1>2, Zenon DEF PlaceInv
<1>4. Held' = Held
  BY <1>1, <1>3, HeldIs, HeldWillBe
<1>5. Idle' /\ (started' => flusher'["stop"] = "off")
  BY <1>1 DEF PlaceInv, Idle, Flushers
<1>6. Known' /\ StoredOnce'
  BY <1>1, <1>4 DEF PlaceInv, Known, StoredOnce
<1>7. /\ ToSet(buffer') \intersect ToSet(stored') \subseteq doubtful'
      /\ \A g \in Flushers :
            /\ IsInjective(taken'[g])
            /\ ToSet(taken'[g]) \intersect ToSet(stored') \subseteq doubtful'
            /\ ToSet(buffer') \intersect ToSet(taken'[g]) = {}
  BY <1>1, <1>3 DEF PlaceInv
<1>8. \A g, h \in Flushers : g # h => ToSet(taken'[g]) \intersect ToSet(taken'[h]) = {}
  <2> SUFFICES ASSUME NEW g \in Flushers, NEW h \in Flushers, g # h
               PROVE  ToSet(taken'[g]) \intersect ToSet(taken'[h]) = {}
    OBVIOUS
  <2>1. CASE g # f /\ h # f
    BY <1>1, <2>1 DEF PlaceInv
  <2>2. CASE g = f
    BY <1>1, <1>3, <2>2 DEF PlaceInv
  <2>3. CASE h = f
    BY <1>1, <1>3, <2>3 DEF PlaceInv
  <2> QED BY <2>1, <2>2, <2>3
<1> QED BY <1>3, <1>4, <1>5, <1>6, <1>7, <1>8 DEF PlaceInv

\* Where the logs of a flush are when its write is over: those that are
\* certain are stored, the others may be buffered again.
LEMMA WriteMoves ==
  ASSUME TypeOK, PlaceInv, NEW f \in Flushers, WriteReturns(f) \/ WriteRaises(f)
  PROVE  /\ \/ stored' = stored \/ stored' = stored \o taken[f]
         /\ ToSet(stored) \subseteq ToSet(stored')
         /\ ToSet(stored') \subseteq ToSet(stored) \union ToSet(taken[f])
         /\ doubtful \subseteq doubtful'
         /\ ToSet(buffer) \subseteq ToSet(buffer')
         /\ ToSet(buffer') \subseteq ToSet(buffer) \union ToSet(taken[f])
         /\ IsInjective(buffer')
         /\ \/ ToSet(taken[f]) \subseteq ToSet(stored') \/ Len(buffer') = MaxBuffer
            \/ ToSet(taken[f]) \subseteq ToSet(buffer')
         /\ \/ buffer' = buffer
            \/ stored' = stored /\ doubtful' = doubtful
            \/ ToSet(taken[f]) \subseteq doubtful'
<1>1. /\ taken[f] \in Seq(Logs) /\ stored \in Seq(Logs) /\ buffer \in Seq(Logs)
      /\ Len(buffer) <= MaxBuffer
  BY DEF TypeOK, Logs
<1>2. ToSet(stored \o taken[f]) = ToSet(stored) \union ToSet(taken[f])
  BY <1>1, Joined
<1>3. /\ IsInjective(buffer) /\ IsInjective(taken[f])
      /\ ToSet(buffer) \intersect ToSet(taken[f]) = {}
  BY DEF PlaceInv
<1>4. /\ ToSet(buffer) \subseteq ToSet(PutBack(buffer, taken[f]))
      /\ ToSet(PutBack(buffer, taken[f])) \subseteq ToSet(buffer) \union ToSet(taken[f])
      /\ \/ Len(PutBack(buffer, taken[f])) = MaxBuffer
         \/ ToSet(PutBack(buffer, taken[f])) = ToSet(buffer) \union ToSet(taken[f])
      /\ IsInjective(PutBack(buffer, taken[f]))
  BY <1>1, <1>3, LogsAreNumbers, PutBackFacts
<1>5. CASE WriteReturns(f)
  <2>1. stored' = stored \o taken[f] /\ buffer' = buffer /\ doubtful' = doubtful
    BY <1>5 DEF WriteReturns
  <2> QED BY <1>2, <1>3, <2>1, Zenon
<1>6. CASE WriteRaises(f)
  <2>1. /\ buffer' = PutBack(buffer, taken[f])
        /\ \/ stored' = stored /\ doubtful' = doubtful
           \/ stored' = stored \o taken[f] /\ doubtful' = doubtful \union ToSet(taken[f])
    BY <1>6 DEF WriteRaises
  <2>2. CASE stored' = stored /\ doubtful' = doubtful
    BY <1>4, <2>1, <2>2, Zenon
  <2>3. CASE stored' = stored \o taken[f] /\ doubtful' = doubtful \union ToSet(taken[f])
    BY <1>2, <1>4, <2>1, <2>3, Zenon
  <2> QED BY <2>1, <2>2, <2>3
<1> QED BY <1>5, <1>6

LEMMA WritePlace ==
  ASSUME TypeOK, PlaceInv, NEW f \in Flushers, WriteReturns(f) \/ WriteRaises(f)
  PROVE  PlaceInv'
<1>1. /\ flusher[f] = "writing" /\ flusher'[f] = Rest(f) /\ taken'[f] = <<>>
      /\ \A g \in Flushers \ {f} : flusher'[g] = flusher[g] /\ taken'[g] = taken[g]
      /\ UNCHANGED <<started, logged, overlapped>>
  BY WriteType
<1>2. /\ ToSet(stored) \subseteq ToSet(stored')
      /\ ToSet(stored') \subseteq ToSet(stored) \union ToSet(taken[f])
      /\ doubtful \subseteq doubtful'
      /\ ToSet(buffer') \subseteq ToSet(buffer) \union ToSet(taken[f])
      /\ IsInjective(buffer')
      /\ \/ buffer' = buffer
         \/ stored' = stored /\ doubtful' = doubtful
         \/ ToSet(taken[f]) \subseteq doubtful'
  BY WriteMoves
<1>3. ToSet(taken'[f]) = {} /\ IsInjective(taken'[f])
  BY <1>1, EmptyFacts
<1>4. StoredOnce'
  BY WriteMoves, StoredGrows
<1>5. Known'
  BY <1>1, <1>2, <1>3, HeldIs, HeldWillBe DEF PlaceInv, Known
<1>6. Idle' /\ (started' => flusher'["stop"] = "off")
  <2>1. Idle'
    BY <1>1 DEF PlaceInv, Idle
  <2>2. started => f # "stop"
    BY <1>1 DEF PlaceInv
  <2> QED BY <1>1, <2>1, <2>2 DEF PlaceInv, Flushers
<1>7. ToSet(buffer') \intersect ToSet(stored') \subseteq doubtful'
  <2> SUFFICES ASSUME NEW l \in ToSet(buffer'), l \in ToSet(stored') PROVE l \in doubtful'
    OBVIOUS
  <2>1. CASE buffer' = buffer
    BY <1>2, <2>1 DEF PlaceInv
  <2>2. CASE stored' = stored
    BY <1>2, <2>2 DEF PlaceInv
  <2>3. CASE ToSet(taken[f]) \subseteq doubtful'
    BY <1>2, <2>3 DEF PlaceInv
  <2> QED BY <1>2, <2>1, <2>2, <2>3
<1>8. ASSUME NEW g \in Flushers
      PROVE  /\ IsInjective(taken'[g])
             /\ ToSet(taken'[g]) \intersect ToSet(stored') \subseteq doubtful'
             /\ ToSet(buffer') \intersect ToSet(taken'[g]) = {}
  <2>1. CASE g = f
    BY <1>3, <2>1
  <2>2. CASE g # f
    <3>1. taken'[g] = taken[g] /\ ToSet(taken[g]) \intersect ToSet(taken[f]) = {}
      BY <1>1, <2>2 DEF PlaceInv
    <3>2. /\ IsInjective(taken[g])
          /\ ToSet(taken[g]) \intersect ToSet(stored) \subseteq doubtful
          /\ ToSet(buffer) \intersect ToSet(taken[g]) = {}
      BY DEF PlaceInv
    <3> QED BY <1>2, <3>1, <3>2
  <2> QED BY <2>1, <2>2
<1>9. \A g, h \in Flushers : g # h => ToSet(taken'[g]) \intersect ToSet(taken'[h]) = {}
  BY <1>1, <1>3 DEF PlaceInv
<1> QED BY <1>2, <1>4, <1>5, <1>6, <1>7, <1>8, <1>9 DEF PlaceInv

LEMMA CancelledPlace ==
  ASSUME TypeOK, PlaceInv, PeriodicCancelled
  PROVE  PlaceInv'
<1>1. /\ taken'["periodic"] = <<>> /\ flusher'["periodic"] = "off" /\ flusher'["stop"] = "ready"
      /\ \A g \in Flushers \ {"periodic"} : taken'[g] = taken[g]
      /\ \A g \in Flushers \ {"periodic", "stop"} : flusher'[g] = flusher[g]
      /\ flusher["stop"] = "waiting" /\ UNCHANGED <<started, buffer, logged, doubtful>>
  BY CancelledType DEF PeriodicCancelled, history
<1>2. "periodic" \in Flushers /\ "stop" \in Flushers /\ "periodic" # "stop"
  BY DEF Flushers
<1>3. stored' = stored \/ stored' = stored \o taken["periodic"]
  BY DEF PeriodicCancelled
<1>4. ToSet(stored') \subseteq ToSet(stored) \union ToSet(taken["periodic"])
  <2>1. ToSet(stored \o taken["periodic"]) = ToSet(stored) \union ToSet(taken["periodic"])
    BY <1>2, Joined DEF TypeOK
  <2> QED BY <1>3, <2>1, Zenon
<1>5. ToSet(taken'["periodic"]) = {} /\ IsInjective(taken'["periodic"])
  BY <1>1, EmptyFacts
<1>6. StoredOnce'
  BY <1>1, <1>2, <1>3, StoredGrows
<1>7. Known'
  BY <1>1, <1>2, <1>4, <1>5, HeldIs, HeldWillBe DEF PlaceInv, Known
<1>8. Idle' /\ (started' => flusher'["stop"] = "off")
  <2>1. taken["stop"] = <<>>
    BY <1>1, <1>2 DEF PlaceInv, Idle
  <2>2. ~started
    BY <1>1 DEF PlaceInv
  <2> QED BY <1>1, <1>2, <2>1, <2>2 DEF PlaceInv, Idle
<1>9. /\ ToSet(buffer') \intersect ToSet(stored') \subseteq doubtful'
      /\ IsInjective(buffer')
  BY <1>1, <1>2, <1>4 DEF PlaceInv
<1>10. ASSUME NEW g \in Flushers
       PROVE  /\ IsInjective(taken'[g])
              /\ ToSet(taken'[g]) \intersect ToSet(stored') \subseteq doubtful'
              /\ ToSet(buffer') \intersect ToSet(taken'[g]) = {}
  <2>1. CASE g = "periodic"
    BY <1>5, <2>1
  <2>2. CASE g # "periodic"
    <3>1. taken'[g] = taken[g] /\ ToSet(taken[g]) \intersect ToSet(taken["periodic"]) = {}
      BY <1>1, <1>2, <2>2 DEF PlaceInv
    <3>2. /\ IsInjective(taken[g])
          /\ ToSet(taken[g]) \intersect ToSet(stored) \subseteq doubtful
          /\ ToSet(buffer) \intersect ToSet(taken[g]) = {}
      BY DEF PlaceInv
    <3> QED BY <1>1, <1>4, <3>1, <3>2
  <2> QED BY <2>1, <2>2
<1>11. \A g, h \in Flushers : g # h => ToSet(taken'[g]) \intersect ToSet(taken'[h]) = {}
  BY <1>1, <1>5 DEF PlaceInv
<1> QED BY <1>6, <1>7, <1>8, <1>9, <1>10, <1>11 DEF PlaceInv

LEMMA StopPlace ==
  ASSUME TypeOK, PlaceInv, Stop
  PROVE  PlaceInv' /\ \A f \in Flushers : flusher'[f] = "writing" <=> flusher[f] = "writing"
<1>1. /\ started' = FALSE /\ flusher' = [flusher EXCEPT !["stop"] = "waiting"]
      /\ UNCHANGED <<buffer, logged, taken, stored, failures, doubtful>>
      /\ flusher["stop"] = "off" /\ flusher \in [Flushers -> States]
  BY DEF Stop, history, PlaceInv, TypeOK
<1>2. \A f \in Flushers : flusher'[f] = "writing" <=> flusher[f] = "writing"
  BY <1>1
<1>3. Held' = Held
  BY <1>1, HeldIs, HeldWillBe
<1> QED BY <1>1, <1>2, <1>3 DEF PlaceInv, Idle, Known, StoredOnce

LEMMA NextPlace == TypeOK /\ PlaceInv /\ [Next]_vars => PlaceInv'
<1> SUFFICES ASSUME TypeOK, PlaceInv, [Next]_vars PROVE PlaceInv'
  OBVIOUS
<1>1. CASE UNCHANGED vars
  <2>1. Held' = Held
    BY <1>1, HeldIs, HeldWillBe DEF vars
  <2> QED BY <1>1, <2>1 DEF vars, history, PlaceInv, Idle, Known, StoredOnce
<1> QED BY <1>1, AddLogPlace, TakePlace, WritePlace, StopPlace, CancelledPlace DEF Next

\* A log is in one place: no two flushes write it, it is not buffered while it
\* is being written, and only a write that raised after its commit is repeated,
\* however many flushes overlap and fail behind each other.
THEOREM EachInOnePlace == Spec => []InOnePlace
<1>1. Spec => [](TypeOK /\ PlaceInv)
  <2>1. Init => TypeOK /\ PlaceInv
    BY InitType, InitPlace
  <2>2. TypeOK /\ PlaceInv /\ [Next]_vars => (TypeOK /\ PlaceInv)'
    BY NextType, NextPlace
  <2> QED BY <2>1, <2>2, PTL DEF Spec
<1>2. TypeOK /\ PlaceInv => InOnePlace
  <2> SUFFICES ASSUME PlaceInv PROVE InOnePlace
    OBVIOUS
  <2>1. \A l : l \in InFlight <=> \E f \in Flushers : l \in ToSet(taken[f])
    BY DEF InFlight
  <2>2. (ToSet(buffer) \union InFlight) \intersect ToSet(stored) \subseteq doubtful
    BY <2>1 DEF PlaceInv
  <2>3. ToSet(buffer) \intersect InFlight = {}
    BY <2>1 DEF PlaceInv
  <2> QED BY <2>2, <2>3 DEF PlaceInv, StoredOnce, InOnePlace
<1> QED BY <1>1, <1>2, PTL

-----------------------------------------------------------------------------
(* A log is given up for a full buffer only.                               *)

LEMMA LostStep ==
  ASSUME TypeOK, PlaceInv, [Next]_vars, NEW l \in Held \ Held'
  PROVE  \/ Len(buffer') = MaxBuffer
         \/ l \in ToSet(taken["periodic"]) /\ flusher'["periodic"] = "off"
<1>1. CASE AddLog
  <2>1. /\ buffer' = Appended(buffer, logged + 1) /\ stored' = stored /\ taken' = taken
        /\ logged + 1 \in Logs /\ buffer \in Seq(Logs) /\ Len(buffer) <= MaxBuffer
    BY <1>1, AuditAssumption DEF AddLog, TypeOK, history, Logs
  <2>2. Len(buffer') = MaxBuffer \/ ToSet(buffer) \subseteq ToSet(buffer')
    BY <2>1, LogsAreNumbers, AppendedFacts
  <2> QED BY <2>1, <2>2, HeldIs, HeldWillBe
<1>2. ASSUME NEW f \in Flushers, Take(f) PROVE FALSE
  BY <1>2, TakePlace
<1>3. ASSUME NEW f \in Flushers, WriteReturns(f) \/ WriteRaises(f) PROVE Len(buffer') = MaxBuffer
  <2>1. \A g \in Flushers \ {f} : taken'[g] = taken[g]
    BY <1>3, WriteType
  <2>2. /\ ToSet(stored) \subseteq ToSet(stored') /\ ToSet(buffer) \subseteq ToSet(buffer')
        /\ \/ ToSet(taken[f]) \subseteq ToSet(stored') \/ Len(buffer') = MaxBuffer
           \/ ToSet(taken[f]) \subseteq ToSet(buffer')
    BY <1>3, WriteMoves
  <2> QED BY <2>1, <2>2, HeldIs, HeldWillBe
<1>4. CASE Stop
  BY <1>4, HeldIs, HeldWillBe DEF Stop
<1>5. CASE PeriodicCancelled
  <2>1. /\ buffer' = buffer /\ flusher'["periodic"] = "off"
        /\ \A g \in Flushers \ {"periodic"} : taken'[g] = taken[g]
    BY <1>5, CancelledType DEF PeriodicCancelled
  <2>2. ToSet(stored) \subseteq ToSet(stored')
    <3>1. ToSet(stored \o taken["periodic"]) = ToSet(stored) \union ToSet(taken["periodic"])
      BY Joined DEF TypeOK, Flushers
    <3>2. stored' = stored \/ stored' = stored \o taken["periodic"]
      BY <1>5 DEF PeriodicCancelled
    <3> QED BY <3>1, <3>2, Zenon
  <2> QED BY <2>1, <2>2, HeldIs, HeldWillBe
<1>6. CASE UNCHANGED vars
  BY <1>6, HeldIs, HeldWillBe DEF vars
<1> QED BY <1>1, <1>2, <1>3, <1>4, <1>5, <1>6 DEF Next

\* A log is given up for a full buffer only, whatever fails and overlaps; the
\* one other loss is that of the periodic flush that stop() cancels.
THEOREM LostForRoomOnly == Spec => LostOnlyWhenFull
<1>1. Init => TypeOK /\ PlaceInv
  BY InitType, InitPlace
<1>2. TypeOK /\ PlaceInv /\ [Next]_vars => (TypeOK /\ PlaceInv)'
  BY NextType, NextPlace
<1>3. TypeOK /\ PlaceInv /\ [Next]_vars =>
        [\A l \in Held \ Held' :
            \/ Len(buffer') = MaxBuffer
            \/ l \in ToSet(taken["periodic"]) /\ flusher'["periodic"] = "off"]_vars
  BY LostStep
<1> QED BY <1>1, <1>2, <1>3, PTL DEF Spec, LostOnlyWhenFull

-----------------------------------------------------------------------------
(* In order, as long as no two flushes overlapped.                         *)

LEMMA InitOrder == Init => OrderInv
<1> SUFFICES ASSUME Init PROVE OrderInv
  OBVIOUS
<1>1. /\ ToSet(buffer) = {} /\ ToSet(stored) = {} /\ Increasing(buffer) /\ DOMAIN stored = {}
      /\ \A f \in Flushers :
            taken[f] = <<>> /\ Increasing(taken[f]) /\ flusher[f] # "writing"
  BY EmptyFacts DEF Init
<1> QED BY <1>1 DEF OrderInv, Before, Certain, StoredSorted

LEMMA ElementsAreLogs ==
  ASSUME TypeOK
  PROVE  /\ ToSet(buffer) \subseteq Nat /\ ToSet(stored) \subseteq Nat
         /\ \A f \in Flushers : ToSet(taken[f]) \subseteq Nat
<1>1. /\ ToSet(buffer) \subseteq Logs /\ ToSet(stored) \subseteq Logs
      /\ \A f \in Flushers : ToSet(taken[f]) \subseteq Logs
  BY InToSet DEF TypeOK, Logs
<1> QED BY <1>1, LogsAreNumbers

\* The table stays sorted when a flush appends what it has taken.
LEMMA StoredStaysSorted ==
  ASSUME TypeOK, NEW f \in Flushers, doubtful \subseteq doubtful',
         StoredSorted, Increasing(taken[f]), Before(Certain, ToSet(taken[f])),
         stored' = stored \/ stored' = stored \o taken[f]
  PROVE  StoredSorted'
<1>1. /\ stored \in Seq(Logs) /\ taken[f] \in Seq(Logs) /\ stored \o taken[f] \in Seq(Logs)
      /\ DOMAIN stored = 1..Len(stored) /\ DOMAIN taken[f] = 1..Len(taken[f])
      /\ Len(stored) \in Nat /\ Len(taken[f]) \in Nat
  BY Joined, InToSet DEF TypeOK, Logs
<1>2. CASE stored' = stored
  BY <1>2 DEF StoredSorted
<1>3. CASE stored' = stored \o taken[f]
  <2>1. /\ DOMAIN stored' = 1..Len(stored \o taken[f])
        /\ Len(stored \o taken[f]) = Len(stored) + Len(taken[f])
    BY <1>1, <1>3, InToSet, Joined
  <2> SUFFICES ASSUME NEW i \in 1..Len(stored \o taken[f]), NEW j \in 1..Len(stored \o taken[f]),
                      i < j, (stored \o taken[f])[i] \notin doubtful,
                      (stored \o taken[f])[j] \notin doubtful
               PROVE  (stored \o taken[f])[i] < (stored \o taken[f])[j]
    BY <1>3, <2>1 DEF StoredSorted
  <2>2. ASSUME NEW x \in 1..Len(stored), NEW y \in 1..Len(taken[f]), stored[x] \notin doubtful
        PROVE  stored[x] < taken[f][y]
    <3>1. stored[x] \in ToSet(stored) /\ taken[f][y] \in ToSet(taken[f])
      BY <1>1 DEF ToSet
    <3> QED BY <2>2, <3>1 DEF Certain, Before
  <2>3. CASE /\ i \in 1..Len(stored) /\ (stored \o taken[f])[i] = stored[i]
             /\ j \in 1..Len(stored) /\ (stored \o taken[f])[j] = stored[j]
    BY <1>1, <2>3 DEF StoredSorted
  <2>4. CASE /\ i - Len(stored) \in 1..Len(taken[f])
             /\ (stored \o taken[f])[i] = taken[f][i - Len(stored)]
             /\ j - Len(stored) \in 1..Len(taken[f])
             /\ (stored \o taken[f])[j] = taken[f][j - Len(stored)]
    <3>1. i - Len(stored) < j - Len(stored)
      BY <1>1, <2>1
    <3> QED BY <1>1, <2>4, <3>1 DEF Increasing
  <2>5. CASE i - Len(stored) \in 1..Len(taken[f]) /\ i > Len(stored) /\ j \in 1..Len(stored)
    BY <1>1, <2>1, <2>5
  <2> QED BY <1>1, <2>2, <2>3, <2>4, <2>5, JoinedAt
<1> QED BY <1>2, <1>3

LEMMA AddLogOrder ==
  ASSUME TypeOK, PlaceInv, OrderInv, AddLog
  PROVE  OrderInv'
<1> SUFFICES ASSUME ~overlapped, ~overlapped' PROVE OrderInv'
  BY DEF AddLog, history, OrderInv
<1>1. /\ buffer' = Appended(buffer, logged + 1) /\ UNCHANGED <<taken, stored, doubtful>>
      /\ logged + 1 \in Logs /\ logged \in Nat /\ buffer \in Seq(Logs) /\ Len(buffer) <= MaxBuffer
  BY AuditAssumption DEF AddLog, TypeOK, history, Logs
<1>2. \A l \in Held : l < logged + 1
  <2>1. \A l \in Held : l \in Nat /\ l <= logged
    BY ElementsAreLogs, HeldIs DEF PlaceInv, Known
  <2> QED BY <1>1, <2>1
<1>3. Before(ToSet(buffer), {logged + 1})
  BY <1>2, HeldIs DEF Before
<1>4. ToSet(buffer') \subseteq ToSet(buffer) \union {logged + 1} /\ Increasing(buffer')
  BY <1>1, <1>3, LogsAreNumbers, AppendedFacts DEF OrderInv
<1>5. \A f \in Flushers : flusher'[f] = "writing" <=> flusher[f] = "writing"
  BY AddLogType
<1>6. Before(Certain', ToSet(buffer'))
  <2>1. Certain' = Certain /\ Certain \subseteq Held
    BY <1>1, HeldIs DEF Certain
  <2>2. Before(Certain, ToSet(buffer))
    BY DEF OrderInv
  <2> QED BY <1>2, <1>4, <2>1, <2>2 DEF Before
<1>7. ASSUME NEW f \in Flushers
      PROVE  /\ Increasing(taken'[f]) /\ Before(ToSet(taken'[f]), ToSet(buffer'))
             /\ Before(Certain', ToSet(taken'[f]))
  <2>1. /\ Increasing(taken[f]) /\ Before(ToSet(taken[f]), ToSet(buffer))
        /\ Before(Certain, ToSet(taken[f])) /\ ToSet(taken[f]) \subseteq Held
    BY HeldIs DEF OrderInv
  <2>2. Certain' = Certain
    BY <1>1 DEF Certain
  <2>3. Before(ToSet(taken[f]), ToSet(buffer'))
    BY <1>2, <1>4, <2>1 DEF Before
  <2> QED BY <1>1, <2>1, <2>2, <2>3
<1>8. StoredSorted'
  BY <1>1 DEF OrderInv, StoredSorted
<1> QED BY <1>4, <1>5, <1>6, <1>7, <1>8 DEF OrderInv

LEMMA TakeOrder ==
  ASSUME TypeOK, PlaceInv, OrderInv, NEW f \in Flushers, Take(f)
  PROVE  OrderInv'
<1>1. /\ taken[f] = <<>> /\ flusher[f] # "writing"
      /\ \A g \in Flushers \ {f} : flusher'[g] = flusher[g] /\ taken'[g] = taken[g]
      /\ UNCHANGED <<stored, doubtful>>
      /\ \/ /\ flusher'[f] # "writing"
            /\ taken'[f] = taken[f] /\ UNCHANGED <<buffer, overlapped>>
         \/ /\ flusher'[f] = "writing" /\ taken'[f] = buffer /\ buffer' = <<>>
            /\ overlapped' = (overlapped \/ \E g \in Flushers : flusher[g] = "writing")
  BY TakeCases
<1>2. ToSet(<<>>) = {} /\ Increasing(<<>>)
  BY EmptyFacts
<1>3. Certain' = Certain /\ (StoredSorted => StoredSorted')
  BY <1>1 DEF Certain, StoredSorted
<1>4. CASE flusher'[f] # "writing" /\ taken'[f] = taken[f] /\ UNCHANGED <<buffer, overlapped>>
  BY <1>1, <1>3, <1>4 DEF OrderInv
<1>5. CASE /\ flusher'[f] = "writing" /\ taken'[f] = buffer /\ buffer' = <<>>
           /\ overlapped' = (overlapped \/ \E g \in Flushers : flusher[g] = "writing")
  <2> SUFFICES ASSUME ~overlapped, \A g \in Flushers : flusher[g] # "writing" PROVE OrderInv'
    BY <1>5 DEF OrderInv
  <2>1. /\ Increasing(buffer) /\ Before(Certain, ToSet(buffer)) /\ StoredSorted
    BY DEF OrderInv
  <2>2. \A g \in Flushers \ {f} : taken'[g] = <<>> /\ flusher'[g] # "writing"
    BY <1>1 DEF PlaceInv, Idle
  <2>3. ToSet(buffer') = {} /\ Increasing(buffer')
    BY <1>2, <1>5
  <2>4. ASSUME NEW g \in Flushers
        PROVE  Increasing(taken'[g]) /\ Before(Certain', ToSet(taken'[g]))
    <3>1. CASE g = f
      BY <1>3, <1>5, <2>1, <3>1
    <3>2. CASE g # f
      <4>1. ToSet(taken'[g]) = {} /\ Increasing(taken'[g])
        BY <1>2, <2>2, <3>2
      <4> QED BY <4>1 DEF Before
    <3> QED BY <3>1, <3>2
  <2> QED BY <1>3, <2>1, <2>2, <2>3, <2>4 DEF OrderInv, Before
<1> QED BY <1>1, <1>4, <1>5

\* The one flush that was writing is done.
LEMMA WriteOrder ==
  ASSUME TypeOK, PlaceInv, OrderInv, NEW f \in Flushers, WriteReturns(f) \/ WriteRaises(f)
  PROVE  OrderInv'
<1>1. /\ flusher[f] = "writing" /\ flusher'[f] = Rest(f) /\ taken'[f] = <<>>
      /\ \A g \in Flushers \ {f} : flusher'[g] = flusher[g] /\ taken'[g] = taken[g]
      /\ UNCHANGED overlapped
  BY WriteType
<1> SUFFICES ASSUME ~overlapped PROVE OrderInv'
  BY <1>1 DEF OrderInv
<1>2. \A g \in Flushers : flusher'[g] # "writing" /\ taken'[g] = <<>>
  <2>1. \A g \in Flushers \ {f} : flusher[g] # "writing" /\ taken[g] = <<>>
    BY <1>1 DEF OrderInv, PlaceInv, Idle
  <2> QED BY <1>1, <2>1, RestState
<1>3. \A g \in Flushers : ToSet(taken'[g]) = {} /\ Increasing(taken'[g])
  BY <1>2, EmptyFacts
<1>4. /\ Increasing(buffer) /\ Increasing(taken[f]) /\ StoredSorted
      /\ Before(ToSet(taken[f]), ToSet(buffer)) /\ Before(Certain, ToSet(buffer))
      /\ Before(Certain, ToSet(taken[f]))
  BY DEF OrderInv
<1>5. Increasing(buffer')
  <2>1. buffer' = buffer \/ buffer' = PutBack(buffer, taken[f])
    BY DEF WriteReturns, WriteRaises
  <2>2. Increasing(PutBack(buffer, taken[f]))
    BY <1>4, LogsAreNumbers, PutBackFacts DEF TypeOK, Logs
  <2> QED BY <1>4, <2>1, <2>2
<1>6. /\ stored' = stored \/ stored' = stored \o taken[f]
      /\ ToSet(stored') \subseteq ToSet(stored) \union ToSet(taken[f])
      /\ doubtful \subseteq doubtful'
      /\ ToSet(buffer') \subseteq ToSet(buffer) \union ToSet(taken[f])
      /\ \/ buffer' = buffer
         \/ stored' = stored /\ doubtful' = doubtful
         \/ ToSet(taken[f]) \subseteq doubtful'
  BY WriteMoves
<1>7. StoredSorted'
  BY <1>4, <1>6, StoredStaysSorted
<1>8. Before(Certain', ToSet(buffer'))
  <2>1. Certain' \subseteq Certain \union (ToSet(taken[f]) \ doubtful')
    BY <1>6 DEF Certain
  <2>2. CASE buffer' = buffer
    BY <1>4, <2>1, <2>2 DEF Before
  <2>3. CASE stored' = stored /\ doubtful' = doubtful
    <3>1. Certain' = Certain
      BY <2>3 DEF Certain
    <3> QED BY <1>4, <1>6, <3>1 DEF Before
  <2>4. CASE ToSet(taken[f]) \subseteq doubtful'
    BY <1>4, <1>6, <2>1, <2>4 DEF Before
  <2> QED BY <1>6, <2>2, <2>3, <2>4
<1> QED BY <1>2, <1>3, <1>5, <1>7, <1>8 DEF OrderInv, Before

LEMMA CancelledOrder ==
  ASSUME TypeOK, PlaceInv, OrderInv, PeriodicCancelled
  PROVE  OrderInv'
<1>1. /\ taken'["periodic"] = <<>> /\ flusher'["periodic"] = "off" /\ flusher'["stop"] = "ready"
      /\ \A g \in Flushers \ {"periodic"} : taken'[g] = taken[g]
      /\ \A g \in Flushers \ {"periodic", "stop"} : flusher'[g] = flusher[g]
      /\ UNCHANGED <<buffer, doubtful, overlapped>>
      /\ stored' = stored \/ stored' = stored \o taken["periodic"]
  BY CancelledType DEF PeriodicCancelled, history
<1> SUFFICES ASSUME ~overlapped PROVE OrderInv'
  BY <1>1 DEF OrderInv
<1>2. "periodic" \in Flushers /\ stored \in Seq(Logs) /\ taken["periodic"] \in Seq(Logs)
  BY DEF TypeOK, Logs, Flushers
<1>3. \A f, g \in Flushers : flusher'[f] = "writing" /\ flusher'[g] = "writing" => f = g
  BY <1>1 DEF OrderInv
<1>4. /\ Increasing(taken["periodic"]) /\ StoredSorted
      /\ Before(ToSet(taken["periodic"]), ToSet(buffer)) /\ Before(Certain, ToSet(buffer))
      /\ Before(Certain, ToSet(taken["periodic"])) /\ Increasing(buffer)
  BY <1>2 DEF OrderInv
<1>5. StoredSorted'
  BY <1>1, <1>2, <1>4, StoredStaysSorted
<1>6. Certain' \subseteq Certain \union ToSet(taken["periodic"])
  <2>1. ToSet(stored \o taken["periodic"]) = ToSet(stored) \union ToSet(taken["periodic"])
    BY <1>2, Joined
  <2>2. ToSet(stored') \subseteq ToSet(stored) \union ToSet(taken["periodic"])
    BY <1>1, <2>1, Zenon
  <2> QED BY <1>1, <2>2 DEF Certain
<1>7. Before(Certain', ToSet(buffer'))
  BY <1>1, <1>4, <1>6 DEF Before
<1>8. ASSUME NEW g \in Flushers
      PROVE  /\ Increasing(taken'[g]) /\ Before(ToSet(taken'[g]), ToSet(buffer'))
             /\ Before(Certain', ToSet(taken'[g]))
  <2>1. CASE taken'[g] = <<>>
    BY <2>1, EmptyFacts DEF Before
  <2>2. CASE taken'[g] # <<>>
    <3>1. g # "periodic" /\ taken'[g] = taken[g]
      BY <1>1, <2>2
    <3>2. flusher[g] = "writing"
      BY <2>2, <3>1 DEF PlaceInv, Idle
    <3>3. taken["periodic"] = <<>>
      BY <1>2, <3>1, <3>2 DEF OrderInv, PlaceInv, Idle
    <3>4. Certain' \subseteq Certain
      BY <1>6, <3>3, EmptyFacts
    <3>5. /\ Increasing(taken[g]) /\ Before(ToSet(taken[g]), ToSet(buffer))
          /\ Before(Certain, ToSet(taken[g]))
      BY DEF OrderInv
    <3> QED BY <1>1, <3>1, <3>4, <3>5 DEF Before
  <2> QED BY <2>1, <2>2
<1> QED BY <1>1, <1>3, <1>4, <1>5, <1>7, <1>8 DEF OrderInv

LEMMA NextOrder == TypeOK /\ PlaceInv /\ OrderInv /\ [Next]_vars => OrderInv'
<1> SUFFICES ASSUME TypeOK, PlaceInv, OrderInv, [Next]_vars PROVE OrderInv'
  OBVIOUS
<1>1. CASE Stop
  <2>1. /\ UNCHANGED <<buffer, taken, stored, doubtful, overlapped>>
        /\ \A f \in Flushers : flusher'[f] = "writing" <=> flusher[f] = "writing"
    BY <1>1, StopPlace DEF Stop, history
  <2> QED BY <2>1 DEF OrderInv, Certain, StoredSorted
<1>2. CASE UNCHANGED vars
  BY <1>2 DEF vars, history, OrderInv, Certain, StoredSorted
<1> QED BY <1>1, <1>2, AddLogOrder, TakeOrder, WriteOrder, CancelledOrder DEF Next

\* As long as no two flushes have overlapped, the table has the logs in the
\* order they were made: failed ones go back in front of newer ones.
THEOREM OrderIsKept == Spec => []StoredInOrder
<1>1. Init => TypeOK /\ PlaceInv /\ OrderInv
  BY InitType, InitPlace, InitOrder
<1>2. TypeOK /\ PlaceInv /\ OrderInv /\ [Next]_vars => (TypeOK /\ PlaceInv /\ OrderInv)'
  BY NextType, NextPlace, NextOrder
<1>3. OrderInv => StoredInOrder
  BY DEF OrderInv, StoredSorted, StoredInOrder
<1> QED BY <1>1, <1>2, <1>3, PTL DEF Spec

=============================================================================
