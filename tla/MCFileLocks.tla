----------------------------- MODULE MCFileLocks -----------------------------
\* FileLocks on small sets, with the flag words of chosen flag strings.
EXTENDS FileLocks

\* Reading, updating, truncating, and a word no lock can be had for.
MCFlagWords == {Str2Flags(s) : s \in {<<"r">>, <<"r", "+">>, <<"w">>, <<"a">>}}

\* Every mode letter, with and without "+", and an invalid string.
AllWords == {Str2Flags(s) : s \in
  {<<c>> : c \in ModeLetters \cup {"?"}} \cup {<<c, "+">> : c \in ModeLetters}}

\* Too small, absent, ordinary, the largest and the first too large.
MCModes == {-1, 0, 384, 2559, 2560}
=============================================================================
