--------------------------- MODULE FlagParserProofs ---------------------------
(***************************************************************************)
(* What str2flags computes, for flag strings of any length: the flag word  *)
(* of every prefix is the one its meaning asks for.                        *)
(***************************************************************************)
EXTENDS FlagParser, TLAPS

\* The meanings of a prefix and of the prefix one character longer.
LEMMA LastOfStep ==
  ASSUME NEW s \in Seq(STRING), NEW n \in 0 .. Len(s), n < Len(s), NEW S, NEW T
  PROVE  LastOf(s, n + 1, S, T) <=>
           IF s[n + 1] \in S
           THEN s[n + 1] \in T /\ Counts(s, n + 1)
           ELSE LastOf(s, n, S, T)
<1>1. CASE s[n + 1] \in S
  BY <1>1 DEF LastOf
<1>2. CASE s[n + 1] \notin S
  <2>1. ASSUME LastOf(s, n + 1, S, T) PROVE LastOf(s, n, S, T)
    BY <1>2, <2>1 DEF LastOf
  <2>2. ASSUME LastOf(s, n, S, T) PROVE LastOf(s, n + 1, S, T)
    <3>1. PICK k \in 1 .. n : /\ s[k] \in S \cap T
                              /\ Counts(s, k)
                              /\ \A j \in (k + 1) .. n : s[j] \notin S
      BY <2>2 DEF LastOf
    <3>2. \A j \in (k + 1) .. (n + 1) : s[j] \notin S
      BY <1>2, <3>1
    <3> QED BY <3>1, <3>2 DEF LastOf
  <2> QED BY <1>2, <2>1, <2>2
<1> QED BY <1>1, <1>2

LEMMA OccursStep ==
  ASSUME NEW s \in Seq(STRING), NEW n \in 0 .. Len(s), n < Len(s), NEW S
  PROVE  Occurs(s, n + 1, S) <=>
           (Occurs(s, n, S) \/ (s[n + 1] \in S /\ Counts(s, n + 1)))
BY DEF Occurs

LEMMA UnknownStep ==
  ASSUME NEW s \in Seq(STRING), NEW n \in 0 .. Len(s), n < Len(s)
  PROVE  Unknown(s, n + 1) <=> (Unknown(s, n) \/ s[n + 1] \notin KnownChars)
BY DEF Unknown

\* The empty prefix has no meaning at all.
LEMMA EmptyPrefix ==
  ASSUME NEW s \in Seq(STRING)
  PROVE  /\ \A S, T : ~LastOf(s, 0, S, T)
         /\ \A S : ~Occurs(s, 0, S)
         /\ ~Unknown(s, 0)
BY DEF LastOf, Occurs, Unknown

\* The switch, one case at a time.
LEMMA Switch ==
  ASSUME NEW f, NEW n \in Nat, NEW c
  PROVE  /\ c \notin KnownChars => FlagStep(f, n, c) = Bits
         /\ c = "r" => FlagStep(f, n, c) = f \ LetterClears
         /\ c = "w" => FlagStep(f, n, c) = (f \ LetterClears) \cup {"WRONLY", "CREAT", "TRUNC"}
         /\ c = "a" => FlagStep(f, n, c) = (f \ LetterClears) \cup {"APPEND", "CREAT"}
         /\ c = "x" => FlagStep(f, n, c) = (f \ LetterClears) \cup {"WRONLY", "EXCL", "CREAT"}
         /\ c = "c" => FlagStep(f, n, c) = (f \ LetterClears) \cup {"WRONLY", "CREAT"}
         /\ c = "d" => FlagStep(f, n, c) = (f \ LetterClears) \cup {"RDWR", "DSYNC"}
         /\ (c = "+" /\ n > 0) => FlagStep(f, n, c) = (f \ PlusClears) \cup {"RDWR"}
         /\ (c = "e" /\ n > 0) => FlagStep(f, n, c) = f \cup {"CLOEXEC"}
         /\ (c = "n" /\ n > 0) => FlagStep(f, n, c) = f \cup {"NONBLOCK"}
         /\ (c = "s" /\ n > 0) => FlagStep(f, n, c) = f \cup {"DSYNC"}
         /\ (c \in Modifiers \cup {"+"} /\ n = 0) => FlagStep(f, n, c) = f
<1> USE DEF FlagStep, KnownChars, ModeLetters, Modifiers
<1>1. c \notin KnownChars => FlagStep(f, n, c) = Bits
  OBVIOUS
<1>2. c \in ModeLetters => FlagStep(f, n, c) = (f \ LetterClears) \cup ModeBits[c]
  OBVIOUS
<1>3. /\ ModeBits["r"] = {}
      /\ ModeBits["w"] = {"WRONLY", "CREAT", "TRUNC"}
      /\ ModeBits["a"] = {"APPEND", "CREAT"}
      /\ ModeBits["x"] = {"WRONLY", "EXCL", "CREAT"}
      /\ ModeBits["c"] = {"WRONLY", "CREAT"}
      /\ ModeBits["d"] = {"RDWR", "DSYNC"}
  BY DEF ModeBits
<1>4. (c = "+" /\ n > 0) => FlagStep(f, n, c) = (f \ PlusClears) \cup {"RDWR"}
  OBVIOUS
<1>5. (c \in Modifiers /\ n > 0) => FlagStep(f, n, c) = f \cup {ModifierBit[c]}
  OBVIOUS
<1>6. /\ ModifierBit["e"] = "CLOEXEC"
      /\ ModifierBit["n"] = "NONBLOCK"
      /\ ModifierBit["s"] = "DSYNC"
  BY DEF ModifierBit
<1>7. (c \in Modifiers \cup {"+"} /\ n = 0) => FlagStep(f, n, c) = f
  OBVIOUS
<1>8. c = "r" => FlagStep(f, n, c) = f \ LetterClears
  BY <1>2, <1>3
<1> QED BY <1>1, <1>2, <1>3, <1>4, <1>5, <1>6, <1>7, <1>8

\* The switch on an unknown character sets every bit.
LEMMA SwitchUnknown ==
  ASSUME NEW f, NEW n \in Nat, NEW c, c \notin KnownChars
  PROVE  FlagStep(f, n, c) = Bits
BY DEF FlagStep

\* The switch ignores a modifier in front.
LEMMA SwitchFront ==
  ASSUME NEW f, NEW c \in Modifiers \cup {"+"}
  PROVE  FlagStep(f, 0, c) = f
BY DEF FlagStep, KnownChars, ModeLetters, Modifiers

\* The switch never sets anything but the bits of a flag word.
LEMMA FlagStepType ==
  ASSUME NEW f \in SUBSET Bits, NEW n \in Nat, NEW c
  PROVE  FlagStep(f, n, c) \in SUBSET Bits
<1> DEFINE F == FlagStep(f, n, c)
<1>1. c \notin KnownChars => F = Bits
  BY SwitchUnknown
<1>2. c \in ModeLetters =>
        \E B \in SUBSET Bits : F = (f \ LetterClears) \cup B
  <2>1. /\ {} \in SUBSET Bits
        /\ {"WRONLY", "CREAT", "TRUNC"} \in SUBSET Bits
        /\ {"APPEND", "CREAT"} \in SUBSET Bits
        /\ {"WRONLY", "EXCL", "CREAT"} \in SUBSET Bits
        /\ {"WRONLY", "CREAT"} \in SUBSET Bits
        /\ {"RDWR", "DSYNC"} \in SUBSET Bits
    BY DEF Bits
  <2>2. c \in ModeLetters => ModeBits[c] \in SUBSET Bits
    BY <2>1 DEF ModeLetters, ModeBits
  <2>3. c \in ModeLetters => F = (f \ LetterClears) \cup ModeBits[c]
    BY DEF FlagStep, KnownChars
  <2> QED BY <2>2, <2>3
<1>3. c \in Modifiers \cup {"+"} =>
        F = f \/ F = (f \ PlusClears) \cup {"RDWR"}
              \/ \E B \in SUBSET Bits : F = f \cup B
  BY Switch DEF Modifiers, Bits
<1>4. "RDWR" \in Bits
  BY DEF Bits
<1> HIDE DEF F
<1> QED BY <1>1, <1>2, <1>3, <1>4 DEF KnownChars, F

-----------------------------------------------------------------------------
\* The index stays inside the string and the word has no other bits.
THEOREM TypeCorrect == Spec => []TypeOK
<1>1. Init => TypeOK
  BY StringsAreSequences DEF Init, TypeOK
<1>2. TypeOK /\ [Next]_vars => TypeOK'
  <2> SUFFICES ASSUME TypeOK, [Next]_vars PROVE TypeOK'
    OBVIOUS
  <2>0. str \in Seq(STRING)
    BY StringsAreSequences DEF TypeOK
  <2>1. CASE ParseChar
    <3>1. flags' \in SUBSET Bits
      BY <2>1, FlagStepType DEF TypeOK, ParseChar
    <3>2. i' \in 0 .. Len(str')
      BY <2>0, <2>1 DEF TypeOK, ParseChar
    <3> QED BY <2>1, <3>1, <3>2 DEF TypeOK, ParseChar
  <2>2. CASE ReturnAndCall
    BY <2>2, StringsAreSequences DEF TypeOK, ReturnAndCall
  <2>3. CASE UNCHANGED vars
    BY <2>3 DEF TypeOK, vars
  <2> QED BY <2>1, <2>2, <2>3 DEF Next
<1> QED BY <1>1, <1>2, PTL DEF Spec

-----------------------------------------------------------------------------
\* The two facts about every prefix that carry each other: which strings are
\* refused, and what the word of a valid prefix is.
Parsed == TypeOK /\ InvalidExactly /\ Meaning /\ OneAccessMode

THEOREM ParsedInvariant == Spec => []Parsed
<1>1. Init => Parsed
  <2> SUFFICES ASSUME Init PROVE Parsed
    OBVIOUS
  <2>1. str \in Seq(STRING) /\ i = 0 /\ flags = {} /\ TypeOK
    BY StringsAreSequences DEF Init, TypeOK
  <2> QED BY <2>1, EmptyPrefix DEF Parsed, InvalidExactly, Meaning, OneAccessMode, InvalidFlags
<1>2. Parsed /\ TypeOK' /\ [Next]_vars => Parsed'
  <2> SUFFICES ASSUME Parsed, TypeOK', [Next]_vars 
               PROVE  InvalidExactly' /\ Meaning' /\ OneAccessMode'
    BY DEF Parsed
  <2>1. CASE ParseChar
    <3> DEFINE c == str[i + 1]
               A == ModeLetters \cup {"+"}
    <3>0. /\ str \in Seq(STRING) /\ i \in 0 .. Len(str) /\ i < Len(str) /\ i \in Nat
          /\ str' = str /\ i' = i + 1 /\ flags' = FlagStep(flags, i, c)
      BY <2>1, StringsAreSequences DEF Parsed, TypeOK, ParseChar
    <3>1. InvalidExactly /\ Meaning
      BY DEF Parsed
    <3>2. i = 0 => /\ \A S, T : ~LastOf(str, i, S, T)
                   /\ \A S : ~Occurs(str, i, S)
      BY <3>0, EmptyPrefix
    <3>3. \A S, T : LastOf(str, i + 1, S, T) <=>
                      IF c \in S THEN c \in T /\ Counts(str, i + 1)
                                 ELSE LastOf(str, i, S, T)
      BY <3>0, LastOfStep
    <3>4. \A S : Occurs(str, i + 1, S) <=>
                   (Occurs(str, i, S) \/ (c \in S /\ Counts(str, i + 1)))
      BY <3>0, OccursStep
    <3>5. Counts(str, i + 1) <=> (i > 0 \/ c \in ModeLetters)
      BY <3>0 DEF Counts
    <3>6. InvalidExactly'
      <4>1. Unknown(str, i + 1) <=> (Unknown(str, i) \/ c \notin KnownChars)
        BY <3>0, UnknownStep
      <4>2. "SIGN" \in flags' <=> ("SIGN" \in flags \/ c \notin KnownChars)
        <5>1. CASE c \notin KnownChars
          <6>1. flags' = Bits
            BY <3>0, <5>1, SwitchUnknown
          <6> QED BY <5>1, <6>1 DEF Bits
        <5>2. CASE c \in ModeLetters
          BY <3>0, <5>2, Switch DEF ModeLetters, KnownChars, LetterClears
        <5>3. CASE c \in Modifiers \cup {"+"}
          <6>1. CASE i = 0
            <7>1. flags' = flags
              BY <3>0, <5>3, <6>1, SwitchFront
            <7> QED BY <5>3, <7>1 DEF KnownChars
          <6>2. CASE i > 0 /\ c = "+"
            BY <3>0, <5>3, <6>2, Switch DEF KnownChars, PlusClears
          <6>3. CASE i > 0 /\ c \in Modifiers
            BY <3>0, <5>3, <6>3, Switch DEF Modifiers, KnownChars
          <6> QED BY <3>0, <5>3, <6>1, <6>2, <6>3
        <5> QED BY <5>1, <5>2, <5>3 DEF KnownChars
      <4> QED BY <3>0, <3>1, <4>1, <4>2 DEF InvalidExactly, InvalidFlags
    <3>7. Meaning'
      <4> SUFFICES ASSUME ~InvalidFlags(flags') PROVE Meaning'
        BY DEF Meaning
      <4>1. ~InvalidFlags(flags) /\ c \in KnownChars
        BY <3>0, <3>1, <3>6, UnknownStep DEF InvalidExactly
      <4>2. CASE c \in ModeLetters
        BY <3>0, <3>1, <3>3, <3>4, <3>5, <4>1, <4>2, Switch
        DEF Meaning, ModeLetters, LetterClears
      <4>3. CASE c \in Modifiers \cup {"+"} /\ i = 0
        BY <3>0, <3>1, <3>2, <3>3, <3>4, <3>5, <4>1, <4>3, Switch
        DEF Meaning, Modifiers, ModeLetters
      <4>4. CASE c = "+" /\ i > 0
        BY <3>0, <3>1, <3>3, <3>4, <3>5, <4>1, <4>4, Switch
        DEF Meaning, ModeLetters, PlusClears
      <4>5. CASE c \in Modifiers /\ i > 0
        BY <3>0, <3>1, <3>3, <3>4, <3>5, <4>1, <4>5, Switch
        DEF Meaning, ModeLetters, Modifiers
      <4> QED BY <3>0, <4>1, <4>2, <4>3, <4>4, <4>5 DEF KnownChars
    <3>8. OneAccessMode'
      <4> SUFFICES ASSUME ~InvalidFlags(flags') PROVE OneAccessMode'
        BY DEF OneAccessMode
      <4>1. ~InvalidFlags(flags) /\ c \in KnownChars
        BY <3>0, <3>1, <3>6, UnknownStep DEF InvalidExactly
      <4>2. /\ ~({"WRONLY", "RDWR"} \subseteq flags)
            /\ "TRUNC" \in flags => Writable(flags)
        BY <4>1 DEF Parsed, OneAccessMode
      <4>3. CASE c \in ModeLetters
        BY <3>0, <4>3, Switch DEF OneAccessMode, Writable, ModeLetters, LetterClears
      <4>4. CASE c \in Modifiers \cup {"+"} /\ i = 0
        <5>1. flags' = flags
          BY <3>0, <4>4, SwitchFront
        <5> QED BY <4>2, <5>1 DEF OneAccessMode, Writable
      <4>5. CASE c = "+" /\ i > 0
        BY <3>0, <4>2, <4>5, Switch DEF OneAccessMode, Writable, PlusClears
      <4>6. CASE c \in Modifiers /\ i > 0
        BY <3>0, <4>2, <4>6, Switch DEF OneAccessMode, Writable, Modifiers
      <4> QED BY <3>0, <4>1, <4>3, <4>4, <4>5, <4>6 DEF KnownChars
    <3> QED BY <3>6, <3>7, <3>8
  <2>2. CASE ReturnAndCall
    <3>1. str' \in Seq(STRING) /\ i' = 0 /\ flags' = {}
      BY <2>2, StringsAreSequences DEF ReturnAndCall
    <3> QED BY <3>1, EmptyPrefix DEF InvalidExactly, Meaning, OneAccessMode, InvalidFlags
  <2>3. CASE UNCHANGED vars
    BY <2>3 DEF Parsed, InvalidExactly, Meaning, OneAccessMode, vars
  <2> QED BY <2>1, <2>2, <2>3 DEF Next
<1> QED BY <1>1, <1>2, TypeCorrect, PTL DEF Spec

\* A string is refused exactly when it holds a character without a meaning.
THEOREM InvalidExactlyUnknown == Spec => []InvalidExactly
<1>1. Parsed => InvalidExactly
  BY DEF Parsed
<1> QED BY <1>1, ParsedInvariant, PTL

\* Every bit of a valid word is what the string asks for.
THEOREM WordMeansString == Spec => []Meaning
<1>1. Parsed => Meaning
  BY DEF Parsed
<1> QED BY <1>1, ParsedInvariant, PTL

\* open(2) gets one access mode, and truncates only what it may write.
THEOREM AccessIsSane == Spec => []OneAccessMode
<1>1. Parsed => OneAccessMode
  BY DEF Parsed
<1> QED BY <1>1, ParsedInvariant, PTL
=============================================================================
