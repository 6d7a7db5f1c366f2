------------------------------ MODULE OpenFlags ------------------------------
(***************************************************************************)
(* The arguments of io_open (basic.cpp): the flag string that str2flags    *)
(* turns into the O_ bits given to open(2), the mode that goes with them   *)
(* and the kind of lock io_open asks for.                                  *)
(*                                                                         *)
(* A flag word is the set of its O_ bits that are 1; O_RDONLY is 0, so the *)
(* empty set is "read only".  "SIGN" is bit 31: str2flags keeps the word   *)
(* in an unsigned int and returns it as an int, negative exactly when that *)
(* bit is set.                                                             *)
(***************************************************************************)
EXTENDS Integers, Sequences

Bits == {"WRONLY", "RDWR", "APPEND", "CREAT", "TRUNC", "EXCL", "DSYNC",
         "NONBLOCK", "CLOEXEC", "ASYNC", "SIGN"}

\* What a mode letter sets, after it has cleared LetterClears.
ModeBits == [r |-> {},
             w |-> {"WRONLY", "CREAT", "TRUNC"},
             a |-> {"APPEND", "CREAT"},
             x |-> {"WRONLY", "EXCL", "CREAT"},
             c |-> {"WRONLY", "CREAT"},
             d |-> {"RDWR", "DSYNC"}]

ModeLetters == {"r", "w", "a", "x", "c", "d"}

\* Two slips a change of the mask could make: forgetting what open(2) does to
\* the file, and clearing the whole word.
LetterClearsAccessOnly == {"WRONLY", "RDWR", "APPEND"}

LetterClearsWord == Bits

\* EXCL and DSYNC, set by "x" and "d", are not among them: they stick.
LetterClears == {"WRONLY", "RDWR", "APPEND", "CREAT", "TRUNC"}

\* "+" with O_WRONLY left in place: access mode 3.
PlusKeepsWronly == {"APPEND"}

\* What "+" clears before it sets O_RDWR.
PlusClears == {"WRONLY", "APPEND"}

\* The modifiers that only set a bit; like "+" they are ignored in front.
ModifierBit == [e |-> "CLOEXEC", n |-> "NONBLOCK", s |-> "DSYNC"]

Modifiers == {"e", "n", "s"}

KnownChars == ModeLetters \cup Modifiers \cup {"+"}

\* One iteration of str2flags' loop: the switch on the i-th character
\* (counted from 0, as in the code).
FlagStep(flags, i, c) ==
  IF c \notin KnownChars     THEN Bits
  ELSE IF c \in ModeLetters  THEN (flags \ LetterClears) \cup ModeBits[c]
  ELSE IF i = 0              THEN flags
  ELSE IF c = "+"            THEN (flags \ PlusClears) \cup {"RDWR"}
  ELSE                            flags \cup {ModifierBit[c]}

\* str2flags as a function of the whole string.
Str2Flags(str) ==
  LET parsed[i \in 0 .. Len(str)] ==
        IF i = 0 THEN {} ELSE FlagStep(parsed[i - 1], i - 1, str[i])
  IN  parsed[Len(str)]

\* io_open's test "flags < 0".
InvalidFlags(flags) == "SIGN" \in flags

\* Whether a descriptor opened with these flags may be written.
Writable(flags) == "WRONLY" \in flags \/ "RDWR" \in flags

\* A lock for reading only, whatever the flags.
LockTypeShared(flags) == "read"

\* io_open's choice of lock.  The code tests  flags && (O_WRONLY | O_RDWR):
\* a logical and, true of every flag word that is not 0.
LockType(flags) == IF flags # {} THEN "write" ELSE "read"

\* Without the test against 04777, and without the default.
EffectiveModeUnclipped(mode, flags) ==
  IF mode = 0 /\ "CREAT" \in flags THEN 416 ELSE mode

EffectiveModeNoDefault(mode, flags) == IF mode \in 0 .. 2559 THEN mode ELSE 0

\* The mode io_open ends up with: mode_t is unsigned, so a negative argument
\* is above 04777 (2559) like any other number that is too large, and becomes
\* 0; with O_CREAT, 0 becomes 0640 (416).
EffectiveMode(mode, flags) ==
  LET clipped == IF mode \in 0 .. 2559 THEN mode ELSE 0
  IN  IF clipped = 0 /\ "CREAT" \in flags THEN 416 ELSE clipped
=============================================================================
