----------------------------- MODULE MCTokenizer -----------------------------
\* Tokenizer on every string of at most MaxLen characters.
EXTENDS Tokenizer

CONSTANT MaxLen

MCStrings == UNION {[1 .. n -> Chars] : n \in 0 .. MaxLen}
=============================================================================
