------------------------------ MODULE FlagParser ------------------------------
(***************************************************************************)
(* str2flags (basic.cpp) run character by character, for one flag string   *)
(* after another, as io_open and io_test_flag call it.  What the loop      *)
(* computes is compared with what the string means, stated on the string   *)
(* alone: which character came last, which occur at all.                   *)
(***************************************************************************)
EXTENDS OpenFlags

CONSTANT Strings      \* the flag strings the scripts pass

ASSUME StringsAreSequences ==
  \A s \in Strings : s \in Seq(STRING)

VARIABLES str,        \* strflags, the argument
          i,          \* the loop's index
          flags       \* the flag word so far

vars == <<str, i, flags>>

Init == str \in Strings /\ i = 0 /\ flags = {}

\* One iteration of the loop.  Its condition  flags >= 0  is true of every
\* unsigned word, so an unknown character does not stop it.
ParseChar ==
  /\ i < Len(str)
  /\ flags' = FlagStep(flags, i, str[i + 1])
  /\ i' = i + 1
  /\ UNCHANGED str

\* The word is returned and the next call starts from O_RDONLY.
ReturnAndCall ==
  /\ i = Len(str)
  /\ str' \in Strings
  /\ i' = 0
  /\ flags' = {}

Next == ParseChar \/ ReturnAndCall

Spec == Init /\ [][Next]_vars

-----------------------------------------------------------------------------
(* The meaning of the first n characters of s, without the loop.            *)

\* A character of s that counts: a modifier in front is ignored.
Counts(s, k) == k > 1 \/ s[k] \in ModeLetters

\* The last of the first n characters that is in S counts and is in T.
LastOf(s, n, S, T) ==
  \E k \in 1 .. n :
    /\ s[k] \in S \cap T
    /\ Counts(s, k)
    /\ \A j \in (k + 1) .. n : s[j] \notin S

\* A character of S that counts is among the first n.
Occurs(s, n, S) == \E k \in 1 .. n : s[k] \in S /\ Counts(s, k)

\* One of the first n characters has no meaning.
Unknown(s, n) == \E k \in 1 .. n : s[k] \notin KnownChars

TypeOK ==
  /\ str \in Strings
  /\ i \in 0 .. Len(str)
  /\ flags \subseteq Bits

\* The word is negative exactly when a character read so far is unknown: the
\* error survives every later mode letter although the loop goes on and the
\* letter clears part of the all-ones word, and no valid string is refused.
InvalidExactly ==
  InvalidFlags(flags) <=> Unknown(str, i)

\* Every bit of a valid word is the one its string asks for: the last mode
\* letter or "+" decides the access, the last mode letter decides creation and
\* truncation, and exclusive, synchronous, non-blocking and close-on-exec stay
\* once asked for, whatever letters follow.
Meaning ==
  ~InvalidFlags(flags) =>
    /\ "WRONLY"   \in flags <=> LastOf(str, i, ModeLetters \cup {"+"}, {"w", "x", "c"})
    /\ "RDWR"     \in flags <=> LastOf(str, i, ModeLetters \cup {"+"}, {"d", "+"})
    /\ "APPEND"   \in flags <=> LastOf(str, i, ModeLetters \cup {"+"}, {"a"})
    /\ "CREAT"    \in flags <=> LastOf(str, i, ModeLetters, {"w", "a", "x", "c"})
    /\ "TRUNC"    \in flags <=> LastOf(str, i, ModeLetters, {"w"})
    /\ "EXCL"     \in flags <=> Occurs(str, i, {"x"})
    /\ "DSYNC"    \in flags <=> Occurs(str, i, {"d", "s"})
    /\ "NONBLOCK" \in flags <=> Occurs(str, i, {"n"})
    /\ "CLOEXEC"  \in flags <=> Occurs(str, i, {"e"})

\* What open(2) needs of a valid word: at most one access mode, and no
\* truncation through a descriptor that cannot write.
OneAccessMode ==
  ~InvalidFlags(flags) =>
    /\ ~({"WRONLY", "RDWR"} \subseteq flags)
    /\ "TRUNC" \in flags => Writable(flags)
=============================================================================
