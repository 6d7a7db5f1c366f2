----------------------------- MODULE MCFlagParser -----------------------------
\* FlagParser on every flag string of at most MaxLen characters.
EXTENDS FlagParser

CONSTANTS Alphabet, MaxLen

MCStrings == UNION {[1 .. n -> Alphabet] : n \in 0 .. MaxLen}
=============================================================================
