---------------------------- MODULE ChunkText_proofs ----------------------------
(***************************************************************************)
(* What cutting a text does, for every text, chunk size and overlap.       *)
(*                                                                         *)
(* The inductive invariant is Inv: besides the three properties it says    *)
(* where the last chunk lies, seen from the place the loop has reached:    *)
(* that is what makes the next chunk end behind it.                        *)
(***************************************************************************)
EXTENDS ChunkText, FiniteSetTheorems, TLAPS

\* The last chunk starts before the place reached and ends at most an overlap
\* behind it; an overlap is taken only when chunks are larger than that.
LastBehind ==
    chunks # <<>> =>
        /\ From(Len(chunks)) < start
        /\ To(Len(chunks)) <= start + overlap
        /\ overlap < size \/ To(Len(chunks)) <= start

\* OnlyTheTailRepeats, and that the loop is over when the tail was repeated.
Advancing ==
    \A i \in 1..Len(chunks)-1 :
        /\ From(i) < From(i + 1)
        /\ \/ To(i) < To(i + 1)
           \/ To(i) = Len(text) /\ To(i + 1) = Len(text) /\ i + 1 = Len(chunks)
                /\ start = Len(text)

Inv == TypeOK /\ AllCovered /\ Sized /\ LastBehind /\ Advancing

\* A normalised text has a length.
LEMMA TextHasLength ==
    ASSUME NEW raw \in RawTexts
    PROVE  Len(TextOf(raw)) \in Nat
<1>1. raw \in Seq(STRING) /\ Len(raw) \in Nat
  BY ChunkAssumption
<1>2. IsFiniteSet(1..Len(raw))
  BY <1>1, FS_Interval
<1>3. IsFiniteSet(Kept(raw))
  BY <1>2, FS_Subset DEF Kept
<1>4. Cardinality(Kept(raw)) \in Nat
  BY <1>3, FS_CardinalityType
<1>5. CASE Blank(raw)
  BY <1>5 DEF TextOf
<1>6. CASE ~Blank(raw)
  <2> DEFINE n == Cardinality(Kept(raw))
             Char(k) == raw[CHOOSE i \in Kept(raw) :
                              Cardinality({j \in Kept(raw) : j <= i}) = k]
  <2>1. TextOf(raw) = [k \in 1..n |-> Char(k)]
    BY <1>6 DEF TextOf, Normalised
  <2> HIDE DEF n, Char
  <2>2. n \in Nat
    BY <1>4 DEF n
  <2>3. [k \in 1..n |-> Char(k)] \in Seq({Char(k) : k \in 1..n})
    BY <2>2
  <2> QED BY <2>1, <2>2, <2>3
<1> QED BY <1>5, <1>6

\* Where a chunk may end: behind its start, at most its size away, and an
\* overlap away unless it has its full size or reaches the end of the text.
LEMMA ChunkEnds ==
    ASSUME TypeOK, start < Len(text), NEW e \in 0..Len(text), EndsAt(start, e)
    PROVE  /\ start < e /\ e <= start + size
           /\ \/ e = Len(text) /\ Len(text) <= start + size
              \/ start + overlap < e
              \/ e = start + size
<1> USE ChunkAssumption
<1>0. /\ Len(text) \in Nat /\ start \in Nat /\ size \in Nat \ {0} /\ overlap \in Nat
  BY DEF TypeOK
<1>1. Full(start) \in Nat /\ Full(start) <= start + size /\ start < Full(start)
  BY <1>0 DEF Full
<1>2. CASE Full(start) = Len(text) /\ e = Len(text)
  BY <1>0, <1>1, <1>2 DEF Full
<1>3. CASE \E k \in 1..Len(Seps), p \in 0..Full(start) :
             BreaksAt(k, start, Full(start), p) /\ e = p + Len(Seps[k])
  <2>1. PICK k \in 1..Len(Seps), p \in 0..Full(start) :
             BreaksAt(k, start, Full(start), p) /\ e = p + Len(Seps[k])
    BY <1>3
  <2>2. Seps[k] \in Seq(STRING) /\ Len(Seps[k]) \in Nat /\ Len(Seps[k]) > 0
    BY <2>1
  <2>3. p > start + overlap /\ p + Len(Seps[k]) <= Full(start)
    BY <2>1 DEF BreaksAt, Far, Last, OccursIn
  <2> QED BY <2>1, <2>2, <2>3, <1>0, <1>1
<1>4. CASE Full(start) < Len(text) /\ e = Full(start)
  BY <1>0, <1>1, <1>4 DEF Full
<1> QED BY <1>2, <1>3, <1>4 DEF EndsAt

-----------------------------------------------------------------------------
\* A turn of the loop either keeps the chunks or appends the one it cut.
LEMMA CutChunks ==
    ASSUME TypeOK, NEW e \in 0..Len(text), chunks' = chunks \o Chunk(start, e)
    PROVE  \/ /\ chunks' = chunks
              /\ \A p \in start..e-1 : White(text[p + 1])
           \/ chunks' = Append(chunks, <<start, e>>)
<1> DEFINE blank == \A p \in start..e-1 : White(text[p + 1])
<1>1. chunks \in Seq((0..Len(text)) \X (0..Len(text)))
  BY DEF TypeOK
<1>2. CASE blank
  <2>1. Chunk(start, e) = <<>>
    BY <1>2 DEF Chunk
  <2> QED BY <1>1, <1>2, <2>1
<1>3. CASE ~blank
  <2>1. Chunk(start, e) = << <<start, e>> >>
    BY <1>3 DEF Chunk
  <2> QED BY <1>1, <2>1
<1> QED BY <1>2, <1>3

\* Where the next turn starts.
LEMMA NextStarts ==
    ASSUME TypeOK, NEW e \in 0..Len(text), start < e, e <= start + size
    PROVE  /\ start < NextStart(start, e) /\ NextStart(start, e) <= e
           /\ e <= NextStart(start, e) + overlap
           /\ overlap < size \/ NextStart(start, e) = e
           /\ e <= start + overlap => NextStart(start, e) = e
<1>1. start \in Nat /\ size \in Nat /\ overlap \in Nat /\ Len(text) \in Nat
  BY ChunkAssumption DEF TypeOK
<1> QED BY <1>1 DEF NextStart

\* The chunks after one was appended.
LEMMA Appended ==
    ASSUME TypeOK, NEW e \in 0..Len(text), chunks' = Append(chunks, <<start, e>>)
    PROVE  /\ Len(chunks) \in Nat /\ Len(chunks') = Len(chunks) + 1
           /\ chunks' \in Seq((0..Len(text)) \X (0..Len(text)))
           /\ \A i \in 1..Len(chunks) : From(i)' = From(i) /\ To(i)' = To(i)
           /\ \A i \in 1..Len(chunks) : From(i) \in Nat /\ To(i) \in 0..Len(text)
           /\ \A i \in 1..Len(chunks)+1 :
                 i = Len(chunks) + 1 => From(i)' = start /\ To(i)' = e
<1>1. chunks \in Seq((0..Len(text)) \X (0..Len(text))) /\ start \in 0..Len(text)
  BY DEF TypeOK
<1>2. /\ Len(chunks) \in Nat /\ Len(chunks') = Len(chunks) + 1
      /\ chunks' \in Seq((0..Len(text)) \X (0..Len(text)))
      /\ \A i \in 1..Len(chunks) : chunks'[i] = chunks[i]
      /\ chunks'[Len(chunks) + 1] = <<start, e>>
  BY <1>1
<1>3. \A i \in 1..Len(chunks) : chunks[i] \in (0..Len(text)) \X (0..Len(text))
  BY <1>1
<1>4. Len(text) \in Nat
  BY DEF TypeOK
<1>5. \A i \in 1..Len(chunks) : From(i)' = From(i) /\ To(i)' = To(i)
  BY <1>2 DEF From, To
<1>6. \A i \in 1..Len(chunks) : From(i) \in Nat /\ To(i) \in 0..Len(text)
  <2> TAKE i \in 1..Len(chunks)
  <2>1. chunks[i][1] \in 0..Len(text) /\ chunks[i][2] \in 0..Len(text)
    BY <1>3
  <2> QED BY <2>1, <1>4 DEF From, To
<1>7. \A i \in 1..Len(chunks)+1 :
         i = Len(chunks) + 1 => From(i)' = start /\ To(i)' = e
  BY <1>2 DEF From, To
<1> QED BY <1>2, <1>5, <1>6, <1>7

-----------------------------------------------------------------------------
LEMMA InitInv == Init => Inv
<1> SUFFICES ASSUME Init PROVE Inv
  OBVIOUS
<1>1. Len(text) \in Nat
  BY TextHasLength DEF Init
<1>2. chunks = <<>> /\ start = 0 /\ Len(chunks) = 0
  BY DEF Init
<1>3. TypeOK
  BY <1>1, <1>2 DEF Init, TypeOK
<1> QED BY <1>2, <1>3 DEF Inv, AllCovered, Sized, LastBehind, Advancing

\* Arithmetic that the steps below use with a primed bound.
LEMMA Below ==
    \A a, b \in Nat : a <= b => \A p \in 0..a-1 : p \in Nat /\ p < b
OBVIOUS

LEMMA CutInv ==
    ASSUME Inv, Cut
    PROVE  Inv'
<1> USE DEF Inv
<1>1. PICK e \in 0..Len(text) :
        /\ EndsAt(start, e) /\ chunks' = chunks \o Chunk(start, e)
        /\ start' = NextStart(start, e)
  BY DEF Cut
<1>2. start < Len(text) /\ UNCHANGED <<text, size, overlap>>
  BY DEF Cut
<1>3. /\ start < e /\ e <= start + size
      /\ \/ e = Len(text) /\ Len(text) <= start + size
         \/ start + overlap < e
         \/ e = start + size
  BY <1>1, <1>2, ChunkEnds
<1>4. /\ start < start' /\ start' <= e /\ e <= start' + overlap
      /\ overlap < size \/ start' = e
      /\ e <= start + overlap => start' = e
  BY <1>1, <1>3, NextStarts
<1>5. /\ Len(text) \in Nat /\ start \in Nat /\ size \in Nat /\ overlap \in Nat
      /\ e \in Nat /\ e <= Len(text) /\ start' \in Int /\ start' \in Nat
  <2>1. Len(text) \in Nat /\ start \in Nat /\ size \in Nat /\ overlap \in Nat
    BY ChunkAssumption DEF TypeOK
  <2> QED BY <2>1, <1>1, <1>4 DEF NextStart
<1>6. CASE /\ chunks' = chunks
           /\ \A p \in start..e-1 : White(text[p + 1])
  <2>1. TypeOK'
    BY <1>2, <1>4, <1>5, <1>6 DEF TypeOK
  <2>2. \A i : From(i)' = From(i) /\ To(i)' = To(i)
    BY <1>6 DEF From, To
  <2>3. AllCovered'
    <3> SUFFICES ASSUME NEW p \in 0..start'-1, ~White(text[p + 1])
                 PROVE  \E i \in 1..Len(chunks) : From(i)' <= p /\ p < To(i)'
      BY <1>2, <1>6 DEF AllCovered
    <3>1. p \in 0..start-1
      <4>1. p \in Nat /\ p < e
        BY <1>4, <1>5, Below, Zenon
      <4>2. CASE start <= p
        <5>1. p \in start..e-1
          BY <4>1, <4>2, <1>5
        <5> QED BY <5>1, <1>6
      <4> QED BY <4>1, <4>2, <1>5
    <3>2. PICK i \in 1..Len(chunks) : From(i) <= p /\ p < To(i)
      BY <3>1 DEF AllCovered
    <3> QED BY <3>2, <2>2
  <2>4. Sized'
    BY <1>2, <1>6, <2>2 DEF Sized
  <2>5. chunks # <<>> => From(Len(chunks)) \in Nat /\ To(Len(chunks)) \in Nat
    <3>1. chunks \in Seq((0..Len(text)) \X (0..Len(text)))
      BY DEF TypeOK
    <3>2. SUFFICES ASSUME chunks # <<>>
                   PROVE  chunks[Len(chunks)][1] \in Nat /\ chunks[Len(chunks)][2] \in Nat
      BY DEF From, To
    <3>3. chunks[Len(chunks)] \in (0..Len(text)) \X (0..Len(text))
      BY <3>1, <3>2
    <3> QED BY <3>3, <1>5
  <2>6. LastBehind'
    <3> SUFFICES ASSUME chunks # <<>>
                 PROVE  /\ From(Len(chunks)) < start'
                        /\ To(Len(chunks)) <= start' + overlap
                        /\ overlap < size \/ To(Len(chunks)) <= start'
      BY <1>2, <1>6 DEF LastBehind, From, To
    <3> QED BY <2>5, <1>4, <1>5 DEF LastBehind
  <2>7. Advancing'
    BY <1>2, <1>5, <1>6, <2>2 DEF Advancing
  <2> QED BY <2>1, <2>3, <2>4, <2>6, <2>7
<1>7. CASE chunks' = Append(chunks, <<start, e>>)
  <2> DEFINE n == Len(chunks)
  <2>1. /\ n \in Nat /\ Len(chunks') = n + 1
        /\ chunks' \in Seq((0..Len(text)) \X (0..Len(text)))
        /\ \A i \in 1..n : From(i)' = From(i) /\ To(i)' = To(i)
        /\ \A i \in 1..n : From(i) \in Nat /\ To(i) \in 0..Len(text)
        /\ \A i \in 1..n+1 : i = n + 1 => From(i)' = start /\ To(i)' = e
    BY <1>7, Appended
  <2>2. n > 0 => chunks # <<>>
    OBVIOUS
  <2> HIDE DEF n
  <2>3. TypeOK'
    BY <1>2, <1>4, <1>5, <2>1 DEF TypeOK
  <2>4. AllCovered'
    <3> SUFFICES ASSUME NEW p \in 0..start'-1, ~White(text[p + 1])
                 PROVE  \E i \in 1..n+1 : From(i)' <= p /\ p < To(i)'
      BY <1>2, <2>1 DEF AllCovered
    <3>1. CASE p < start
      <4>1. p \in 0..start-1
        BY <3>1, <1>5
      <4>2. PICK i \in 1..n : From(i) <= p /\ p < To(i)
        BY <4>1 DEF AllCovered, n
      <4> QED BY <4>2, <2>1
    <3>2. CASE start <= p
      <4>1. PICK l \in 1..n+1 : From(l)' = start /\ To(l)' = e
        BY <2>1
      <4>2. p < e
        BY <1>4, <1>5, Below, Zenon
      <4>3. From(l)' <= p /\ p < To(l)'
        BY <3>2, <4>1, <4>2
      <4> QED BY <4>3
    <3> QED BY <3>1, <3>2, <1>5
  <2>5. Sized'
    <3> SUFFICES ASSUME NEW i \in 1..n+1
                 PROVE  From(i)' < To(i)' /\ To(i)' <= From(i)' + size
      BY <1>2, <2>1 DEF Sized
    <3>1. CASE i \in 1..n
      BY <3>1, <2>1 DEF Sized, n
    <3>2. CASE i = n + 1
      BY <3>2, <2>1, <1>3
    <3> QED BY <3>1, <3>2, <2>1
  <2>6. LastBehind'
    <3>1. PICK l \in 1..n+1 : l = n + 1 /\ From(l)' = start /\ To(l)' = e
      BY <2>1
    <3>2. From(l)' < start' /\ To(l)' <= start' + overlap /\ (overlap < size \/ To(l)' <= start')
      BY <3>1, <1>4, <1>5
    <3>3. Len(chunks') = l
      BY <3>1, <2>1
    <3> QED BY <3>2, <3>3, <1>2 DEF LastBehind, From, To
  <2>7. Advancing'
    <3> SUFFICES ASSUME NEW i \in 1..n
                 PROVE  /\ From(i)' < From(i + 1)'
                        /\ \/ To(i)' < To(i + 1)'
                           \/ To(i)' = Len(text) /\ To(i + 1)' = Len(text)
                                /\ i + 1 = n + 1 /\ start' = Len(text)
      BY <1>2, <2>1 DEF Advancing
    <3>1. CASE i < n
      <4>1. i \in 1..n-1 /\ i + 1 \in 1..n
        BY <3>1, <2>1
      <4>2. From(i) < From(i + 1) /\ (To(i) < To(i + 1) \/ start = Len(text))
        BY <4>1 DEF Advancing, n
      <4> QED BY <4>1, <4>2, <2>1, <1>2, <1>5
    <3>2. CASE i = n
      <4>1. i + 1 \in 1..n+1 /\ i + 1 = n + 1
        BY <3>2, <2>1
      <4>2. From(i + 1)' = start /\ To(i + 1)' = e
        BY <4>1, <2>1
      <4>3. From(i)' = From(i) /\ To(i)' = To(i) /\ From(i) \in Nat /\ To(i) \in 0..Len(text)
        BY <2>1
      <4>4. /\ From(i) < start /\ To(i) <= start + overlap
            /\ overlap < size \/ To(i) <= start
        BY <3>2, <2>1, <2>2 DEF LastBehind, n
      <4>5. To(i) < e \/ (To(i) = Len(text) /\ e = Len(text) /\ start' = Len(text))
        BY <4>3, <4>4, <1>2, <1>3, <1>4, <1>5
      <4> QED BY <4>1, <4>2, <4>3, <4>4, <4>5
    <3> QED BY <3>1, <3>2, <2>1
  <2> QED BY <2>3, <2>4, <2>5, <2>6, <2>7
<1> QED BY <1>1, <1>6, <1>7, CutChunks

\* A step, or a stutter, keeps the invariant.
LEMMA InductiveInv == Spec => []Inv
<1>1. Inv /\ [Next]_vars => Inv'
  <2> SUFFICES ASSUME Inv, [Next]_vars PROVE Inv'
    OBVIOUS
  <2>1. CASE Cut
    BY <2>1, CutInv
  <2>2. CASE UNCHANGED vars
    BY <2>2 DEF vars, Inv, TypeOK, AllCovered, Sized, LastBehind, Advancing, From, To
  <2> QED BY <2>1, <2>2 DEF Next
<1> QED BY <1>1, InitInv, PTL DEF Spec

-----------------------------------------------------------------------------
\* The variables keep their types: chunks lie in the text, and the loop never
\* starts a chunk behind its end.
THEOREM TypeCorrect == Spec => []TypeOK
<1>1. Inv => TypeOK
  BY DEF Inv
<1> QED BY <1>1, InductiveInv, PTL

\* No character but white space is left out between two chunks, whatever the
\* separators and however large the overlap of the request.
THEOREM NothingIsLeftOut == Spec => []AllCovered
<1>1. Inv => AllCovered
  BY DEF Inv
<1> QED BY <1>1, InductiveInv, PTL

\* A separator never makes a chunk longer than the size asked for, or empty.
THEOREM ChunksAreSized == Spec => []Sized
<1>1. Inv => Sized
  BY DEF Inv
<1> QED BY <1>1, InductiveInv, PTL

\* Only the end of the text is stored twice, however chunks end and overlap.
THEOREM ChunksAdvance == Spec => []OnlyTheTailRepeats
<1>1. Inv => OnlyTheTailRepeats
  BY DEF Inv, Advancing, OnlyTheTailRepeats
<1> QED BY <1>1, InductiveInv, PTL
=============================================================================
