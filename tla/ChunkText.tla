------------------------------- MODULE ChunkText -------------------------------
(***************************************************************************)
(* How DocumentService cuts a text into chunks: _chunk_text, one step for  *)
(* each turn of its loop.                                                  *)
(*                                                                         *)
(* Positions count from 0, as in the code: text[p] is the character at p + *)
(* 1 of the sequence.  What stripping a chunk removes does not change its  *)
(* offsets and is left out.                                                *)
(***************************************************************************)
EXTENDS Integers, Sequences, FiniteSets

CONSTANTS
    RawTexts,  \* the contents of requests
    Sizes,     \* their chunk_size
    Overlaps,  \* and chunk_overlap: may be as large as a chunk, or larger
    Seps       \* the separators, in the order in which they are tried

ASSUME ChunkAssumption ==
    /\ \A raw \in RawTexts : raw \in Seq(STRING)
    /\ Sizes \subseteq Nat \ {0}
    /\ Overlaps \subseteq Nat
    /\ Seps \in Seq(Seq(STRING))
    /\ \A k \in 1..Len(Seps) : Len(Seps[k]) > 0

VARIABLES
    text,     \* the text with its white space normalised
    size,     \* chunk_size
    overlap,  \* chunk_overlap
    start,
    chunks    \* <<char_start, char_end>> of the chunks so far

vars == <<text, size, overlap, start, chunks>>

-----------------------------------------------------------------------------
White(c) == c \in {" ", "\n"}
Blank(t) == \A i \in 1..Len(t) : White(t[i])

\* The characters that splitting a line at white space and joining its words
\* with single spaces keeps: newlines, and a space that follows a character
\* of the line and is not the last of the line.
Kept(raw) ==
    {i \in 1..Len(raw) :
        raw[i] = " " =>
            /\ i > 1 /\ ~White(raw[i - 1])
            /\ \E j \in i+1..Len(raw) :
                 ~White(raw[j]) /\ \A h \in i..j-1 : raw[h] = " "}

Normalised(raw) ==
    [k \in 1..Cardinality(Kept(raw)) |->
        raw[CHOOSE i \in Kept(raw) : Cardinality({j \in Kept(raw) : j <= i}) = k]]

TextOf(raw) == IF Blank(raw) THEN <<>> ELSE Normalised(raw)

\* Does sep occur at p, wholly within [s, e)?
OccursIn(sep, s, e, p) ==
    /\ s <= p
    /\ p + Len(sep) <= e
    /\ \A k \in 1..Len(sep) : text[p + k] = sep[k]

\* rfind(sep, s, e) = p
Last(sep, s, e, p) ==
    OccursIn(sep, s, e, p) /\ \A q \in p+1..e : ~OccursIn(sep, s, e, q)

\* Separator k ends the chunk that starts at s, before e: it is the first one
\* whose last place is more than an overlap away.
Far(k, s, e, p) == Last(Seps[k], s, e, p) /\ p > s + overlap
BreaksAt(k, s, e, p) ==
    /\ Far(k, s, e, p)
    /\ \A h \in 1..k-1 : \A q \in 0..e : ~Far(h, s, e, q)

\* Wrong: the overlap comes on top.
FullWithOverlap(s) ==
    IF s + size + overlap < Len(text) THEN s + size + overlap ELSE Len(text)

\* Where the chunk that starts at s ends without separators.
Full(s) == IF s + size < Len(text) THEN s + size ELSE Len(text)

\* Wrong: a separator may be anywhere in the chunk.
EndsAtEarly(s, e) ==
    \/ /\ Full(s) = Len(text)
       /\ e = Len(text)
    \/ /\ Full(s) < Len(text)
       /\ \E k \in 1..Len(Seps), p \in 0..Full(s) :
             Last(Seps[k], s, Full(s), p) /\ e = p + Len(Seps[k])
    \/ /\ Full(s) < Len(text)
       /\ \A k \in 1..Len(Seps), p \in 0..Full(s) : ~BreaksAt(k, s, Full(s), p)
       /\ e = Full(s)

\* The chunk that starts at s ends at e: at the end of the text, after a
\* separator, or at its full size.
EndsAt(s, e) ==
    \/ /\ Full(s) = Len(text)
       /\ e = Len(text)
    \/ /\ Full(s) < Len(text)
       /\ \E k \in 1..Len(Seps), p \in 0..Full(s) :
             BreaksAt(k, s, Full(s), p) /\ e = p + Len(Seps[k])
    \/ /\ Full(s) < Len(text)
       /\ \A k \in 1..Len(Seps), p \in 0..Full(s) : ~BreaksAt(k, s, Full(s), p)
       /\ e = Full(s)

\* Wrong: the overlap is always taken; it is taken from the start.
NextStartAlways(s, e) == IF e >= overlap THEN e - overlap ELSE 0
NextStartBeyond(s, e) == IF e + overlap < Len(text) THEN e + overlap ELSE e

\* An overlap back from the end, unless that does not move on.
NextStart(s, e) == IF e - overlap <= s THEN e ELSE e - overlap

\* The chunk [s, e) with its text, unless that is blank.
Chunk(s, e) ==
    IF \A p \in s..e-1 : White(text[p + 1]) THEN <<>> ELSE << <<s, e>> >>

-----------------------------------------------------------------------------
Init ==
    /\ \E raw \in RawTexts : text = TextOf(raw)
    /\ size \in Sizes
    /\ overlap \in Overlaps
    /\ start = 0
    /\ chunks = <<>>

\* One turn of the loop.
Cut ==
    /\ start < Len(text)
    /\ \E e \in 0..Len(text) :
          /\ EndsAt(start, e)
          /\ chunks' = chunks \o Chunk(start, e)
          /\ start' = NextStart(start, e)
    /\ UNCHANGED <<text, size, overlap>>

Next == Cut

Spec == Init /\ [][Next]_vars

\* The loop has no await: nothing can stop it.
FairSpec == Spec /\ WF_vars(Next)

Done == start >= Len(text)

-----------------------------------------------------------------------------
TypeOK ==
    /\ Len(text) \in Nat
    /\ size \in Sizes
    /\ overlap \in Overlaps
    /\ start \in 0..Len(text)
    /\ chunks \in Seq((0..Len(text)) \X (0..Len(text)))

From(i) == chunks[i][1]
To(i) == chunks[i][2]

\* Every character that is not white space is in some chunk, up to the place
\* the loop has reached, so in the end all are.
AllCovered ==
    \A p \in 0..start-1 :
        White(text[p + 1]) \/ \E i \in 1..Len(chunks) : From(i) <= p /\ p < To(i)

\* No chunk is longer than asked for, or empty.
Sized == \A i \in 1..Len(chunks) : From(i) < To(i) /\ To(i) <= From(i) + size

\* Chunks advance: each starts and ends behind the one before it, except that
\* the text's end may be stored twice, the second time as a tail of the first
\* (the loop does not stop at the end of the text but an overlap before it).
OnlyTheTailRepeats ==
    \A i \in 1..Len(chunks)-1 :
        /\ From(i) < From(i + 1)
        /\ \/ To(i) < To(i + 1)
           \/ To(i) = Len(text) /\ To(i + 1) = Len(text) /\ i + 1 = Len(chunks)

\* The loop ends, for any text, size and overlap.
Terminates == <>Done
=============================================================================
