----------------------------- MODULE MCChunkText -----------------------------
\* Model-checking instance: all texts up to a length over one letter, one end
\* of a sentence, spaces and newlines.
EXTENDS ChunkText

CONSTANT MaxLen

Texts == UNION {[1..n -> {"x", ".", " ", "\n"}] : n \in 0..MaxLen}
Separators == << <<"\n", "\n">>, <<"\n">>, <<".", " ">> >>
=============================================================================
