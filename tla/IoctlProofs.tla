----------------------------- MODULE IoctlProofs -----------------------------
(***************************************************************************)
(* Commands of io_ioctl on numbers and on settings, for integers of any    *)
(* width, any device and any arguments.                                    *)
(***************************************************************************)
EXTENDS Ioctl, TLAPS

-----------------------------------------------------------------------------
(* Widths.                                                                  *)

\* Remainders, and what is already one.
LEMMA Remainder ==
  ASSUME NEW n \in Int, NEW m \in Nat, m > 0
  PROVE  n % m \in 0 .. (m - 1) /\ (n \in 0 .. (m - 1) => n % m = n)
OBVIOUS

\* A negative number and the unsigned one with the same bits.
LEMMA Wrapped ==
  ASSUME NEW m \in Nat, m > 0, NEW n \in 0 .. (m - 1)
  PROVE  (n - m) % m = n
OBVIOUS

LEMMA Halves ==
  ASSUME NEW m \in Nat, m > 0, m % 2 = 0
  PROVE  m \div 2 \in Nat /\ m = (m \div 2) + (m \div 2)
OBVIOUS

\* The halves of a number of double width.
LEMMA HalvesOfNumber ==
  ASSUME NEW m \in Nat, m > 0, NEW n \in 0 .. (m * m - 1)
  PROVE  n \div m \in 0 .. (m - 1)
OBVIOUS

LEMMA NumberOfHalves ==
  ASSUME NEW m \in Nat, m > 0, NEW h \in 0 .. (m - 1), NEW l \in 0 .. (m - 1)
  PROVE  h * m + l \in 0 .. (m * m - 1)
OBVIOUS

LEMMA Product ==
  ASSUME NEW m \in Nat, m > 0
  PROVE  m * m \in Nat /\ m * m > 0
OBVIOUS

LEMMA IntModType == IntMod \in Nat /\ IntMod > 0
BY IoctlConstants, Product

\* The conversion to int gives an int, and unsigned again the same number.
LEMMA ToIntType ==
  ASSUME NEW n \in Int
  PROVE  ToInt(n) \in IntRange
<1>1. n % IntMod \in 0 .. (IntMod - 1)
  BY IntModType, Remainder
<1>2. IntMod \div 2 \in Nat /\ IntMod = (IntMod \div 2) + (IntMod \div 2)
  BY IntModType, IoctlConstants, Halves
<1> DEFINE h == IntMod \div 2
           low == n % IntMod
<1>3. ToInt(n) = IF low < h THEN low ELSE low - IntMod
  BY DEF ToInt
<1>4. IntRange = -h .. h - 1
  BY DEF IntRange
<1> HIDE DEF h, low
<1> QED BY <1>1, <1>2, <1>3, <1>4, IntModType DEF h, low

LEMMA ToIntBack ==
  ASSUME NEW n \in 0 .. (IntMod - 1)
  PROVE  ToInt(n) % IntMod = n
<1>1. n % IntMod = n /\ (n - IntMod) % IntMod = n
  BY IntModType, Remainder, Wrapped
<1> QED BY <1>1 DEF ToInt

\* The unsigned number with an int's bits.
LEMMA IntBits ==
  ASSUME NEW a \in IntRange
  PROVE  a % IntMod = a \/ a % IntMod = a + IntMod
<1> DEFINE h == IntMod \div 2
<1>1. h \in Nat /\ IntMod = h + h
  BY IntModType, IoctlConstants, Halves
<1>2. a \in -h .. h - 1
  BY DEF IntRange
<1> HIDE DEF h
<1>3. CASE a >= 0
  BY <1>1, <1>2, <1>3, IntModType, Remainder
<1>4. CASE a < 0
  <2>1. a + IntMod \in 0 .. (IntMod - 1) /\ (a + IntMod) - IntMod = a
    BY <1>1, <1>2, <1>4, IntModType
  <2> QED BY <2>1, IntModType, Wrapped
<1> QED BY <1>1, <1>2, <1>3, <1>4

\* Quotient and remainder are unique.
LEMMA Quotient ==
  ASSUME NEW m \in Nat, m > 0, NEW q \in Int, NEW d \in Int,
         NEW x \in 0 .. (m - 1), NEW z \in 0 .. (m - 1), (m * q) + x = (m * d) + z
  PROVE  x = z
<1>1. q - d >= 1 => m * (q - d) >= m
  OBVIOUS
<1>2. q - d <= -1 => m * (q - d) <= -m
  OBVIOUS
<1>3. m * (q - d) = z - x
  OBVIOUS
<1>4. q - d = 0
  BY <1>1, <1>2, <1>3
<1> QED BY <1>3, <1>4

\* Whole multiples of the width make no difference.
LEMMA SameRemainder ==
  ASSUME NEW i \in Int, NEW m \in Nat, m > 0, NEW l \in Nat, l % m = 0
  PROVE  (i + l) % m = i % m
<1>1. l = m * (l \div m) /\ l \div m \in Int
  OBVIOUS
<1>2. i = (m * (i \div m)) + (i % m) /\ i \div m \in Int /\ i % m \in 0 .. (m - 1)
  OBVIOUS
<1>3. i + l = (m * ((i \div m) + (l \div m))) + (i % m)
  BY <1>1, <1>2
<1>4. i + l = (m * ((i + l) \div m)) + ((i + l) % m)
      /\ (i + l) \div m \in Int /\ (i + l) % m \in 0 .. (m - 1)
  OBVIOUS
<1> DEFINE q == (i + l) \div m
           d == (i \div m) + (l \div m)
           x == (i + l) % m
           z == i % m
<1>5. q \in Int /\ d \in Int /\ x \in 0 .. (m - 1) /\ z \in 0 .. (m - 1)
  BY <1>1, <1>2, <1>4
<1>6. (m * q) + x = (m * d) + z
  BY <1>3, <1>4
<1> HIDE DEF q, d, x, z
<1>7. x = z
  BY <1>5, <1>6, Quotient
<1> QED BY <1>7 DEF x, z

LEMMA LongModType == LongMod \in Nat /\ LongMod % IntMod = 0 /\ IntMod % IntMod = 0
<1>1. IntMod % IntMod = 0
  BY IntModType
<1> QED BY <1>1, IoctlConstants

\* An int is itself again after its way through unsigned.
LEMMA IntBack ==
  ASSUME NEW a \in IntRange
  PROVE  ToInt(a) = a /\ ToInt(a % IntMod) = a
<1> DEFINE h == IntMod \div 2
<1>1. h \in Nat /\ IntMod = h + h
  BY IntModType, IoctlConstants, Halves
<1>2. a \in -h .. h - 1
  BY DEF IntRange
<1> HIDE DEF h
<1>3. CASE a >= 0
  <2>1. a \in 0 .. (IntMod - 1)
    BY <1>1, <1>2, <1>3, IntModType
  <2>2. a % IntMod = a
    BY <2>1, IntModType, Remainder
  <2>3. ToInt(a) = IF a % IntMod < h THEN a % IntMod ELSE (a % IntMod) - IntMod
    BY DEF ToInt, h
  <2> QED BY <1>1, <1>2, <1>3, <2>2, <2>3
<1>4. CASE a < 0
  <2>1. a + IntMod \in 0 .. (IntMod - 1)
    BY <1>1, <1>2, <1>4, IntModType
  <2>2. a % IntMod = a + IntMod
    <3>1. ((a + IntMod) - IntMod) % IntMod = a + IntMod
      BY <2>1, IntModType, Wrapped
    <3>2. (a + IntMod) - IntMod = a
      BY <1>2, <1>1, IntModType
    <3> QED BY <3>1, <3>2
  <2>3. (a + IntMod) % IntMod = a + IntMod
    BY <2>1, IntModType, Remainder
  <2>4. /\ ToInt(a) = IF a % IntMod < h THEN a % IntMod ELSE (a % IntMod) - IntMod
        /\ ToInt(a + IntMod) = IF (a + IntMod) % IntMod < h THEN (a + IntMod) % IntMod
                               ELSE ((a + IntMod) % IntMod) - IntMod
    BY DEF ToInt, h
  <2>5. ~(a + IntMod < h) /\ (a + IntMod) - IntMod = a
    BY <1>1, <1>2, IntModType
  <2> QED BY <2>2, <2>3, <2>4, <2>5
<1> QED BY <1>1, <1>2, <1>3, <1>4

-----------------------------------------------------------------------------
(* Settings.                                                                *)

LEMMA WidthTypes ==
  /\ HalfMod \in Nat /\ HalfMod > 0 /\ IntMod = HalfMod * HalfMod
  /\ ByteMod \in Nat /\ ByteMod > 0
BY IoctlConstants

\* The array of a set command leaves a buffer of the right widths.
LEMMA MergedType ==
  ASSUME NEW b \in Buffers, NEW a \in Arrays, Parses(a)
  PROVE  /\ Merged(b, a) \in Buffers
         /\ \A f \in Fields : Merged(b, a).flag[f] =
              IF f \in DOMAIN a THEN a[f] % IntMod ELSE b.flag[f]
         /\ Merged(b, a).line = IF "c_line" \in DOMAIN a THEN a["c_line"] % ByteMod ELSE b.line
<1>1. \A key \in DOMAIN a : a[key] \in Int
  BY IoctlConstants
<1>2. \A key \in DOMAIN a : a[key] % IntMod \in 0 .. (IntMod - 1) /\ a[key] % ByteMod \in 0 .. (ByteMod - 1)
  BY <1>1, IntModType, WidthTypes, Remainder
<1> DEFINE I == 0 .. (IntMod - 1)
           L == 0 .. (ByteMod - 1)
<1>3. b.flag \in [Fields -> I] /\ b.line \in L /\ b.ispeed \in I /\ b.ospeed \in I
  BY DEF Buffers
<1>4. \A key \in DOMAIN a : a[key] % IntMod \in I /\ a[key] % ByteMod \in L
  BY <1>2
<1>5. \A x : x \in [flag : [Fields -> I], line : L, ispeed : I, ospeed : I] => x \in Buffers
  BY DEF Buffers
<1> HIDE DEF I, L
<1> DEFINE speeds == "c_ispeed" \in DOMAIN a
           flag == [f \in Fields |-> IF f \in DOMAIN a THEN a[f] % IntMod ELSE b.flag[f]]
           line == IF "c_line" \in DOMAIN a THEN a["c_line"] % ByteMod ELSE b.line
           ispeed == IF speeds THEN a["c_ispeed"] % IntMod ELSE b.ispeed
           ospeed == IF speeds THEN a["c_ospeed"] % IntMod ELSE b.ospeed
<1>6. Merged(b, a) = [flag |-> flag, line |-> line, ispeed |-> ispeed, ospeed |-> ospeed]
  BY DEF Merged
<1>7. flag \in [Fields -> I] /\ line \in L /\ ispeed \in I
  BY <1>3, <1>4
<1>8. ospeed \in I
  BY <1>3, <1>4 DEF Parses
<1> QED BY <1>5, <1>6, <1>7, <1>8

\* A buffer with a word of the device in it, and the word a buffer leaves there.
LEMMA FilledType ==
  ASSUME NEW w \in Settings
  PROVE  /\ Filled(ZeroBuffer, w) \in Buffers
         /\ Filled(ZeroBuffer, w).flag = w.flag /\ Filled(ZeroBuffer, w).line = w.line
         /\ ZeroBuffer \in Buffers
<1>1. 0 \in 0 .. (IntMod - 1) /\ 0 \in 0 .. (ByteMod - 1)
  BY IntModType, WidthTypes
<1> DEFINE I == 0 .. (IntMod - 1)
           L == 0 .. (ByteMod - 1)
<1>2. w.flag \in [Fields -> I] /\ w.line \in L /\ 0 \in I /\ 0 \in L
  BY <1>1 DEF Settings
<1>3. Buffers = [flag : [Fields -> I], line : L, ispeed : I, ospeed : I]
  BY DEF Buffers
<1> HIDE DEF I, L
<1> QED BY <1>2, <1>3 DEF Filled, ZeroBuffer

LEMMA StoredType ==
  ASSUME NEW b \in Buffers
  PROVE  Stored(b) \in Settings
BY DEF Buffers, Settings, Stored

LEMMA StoredTermioType ==
  ASSUME NEW b \in Buffers, NEW w \in Settings
  PROVE  StoredTermio(w, b) \in Settings
<1> DEFINE I == 0 .. (IntMod - 1)
           L == 0 .. (ByteMod - 1)
           H == 0 .. (HalfMod - 1)
<1>1. \A n \in I : Low(n) \in H /\ High(n) \in H
  BY WidthTypes, Remainder, HalvesOfNumber DEF Low, High
<1>2. \A h, l \in H : h * HalfMod + l \in I
  BY WidthTypes, NumberOfHalves
<1>3. \A n \in I : n % ByteMod \in L
  BY IntModType, WidthTypes, Remainder
<1>4. b.flag \in [Fields -> I] /\ w.flag \in [Fields -> I]
  BY DEF Buffers, Settings
<1>5. Settings = [flag : [Fields -> I], line : L]
  BY DEF Settings
<1> HIDE DEF I, L, H
<1>6. /\ b.flag["c_iflag"] \in I /\ b.flag["c_oflag"] \in I /\ b.flag["c_cflag"] \in I
      /\ \A f \in Fields : w.flag[f] \in I
  BY <1>4 DEF Fields
<1>7. \A f \in Fields : TermioFlag(b)[f] \in H
  BY <1>1, <1>6 DEF TermioFlag, Fields
<1>8. \A f \in Fields : High(w.flag[f]) * HalfMod + TermioFlag(b)[f] \in I
  BY <1>1, <1>2, <1>6, <1>7
<1> QED BY <1>3, <1>5, <1>6, <1>8 DEF StoredTermio

-----------------------------------------------------------------------------
(* Types.                                                                   *)

\* What a number command leaves in a number of the device.
LEMMA BufferType ==
  ASSUME NEW c \in NumberCommands \cap DriverReads, NEW a \in IntRange
  PROVE  /\ Buffer(c, a) \in RegisterRange(Register(c)) /\ ToInt(Buffer(c, a)) = a
         /\ Register(c) \in Registers
<1>1. c \in {"TIOCMSET", "SNDCTL_DSP_SPEED", "FAT_IOCTL_SET_ATTRIBUTES", "TIOCSPGRP"}
  BY DEF DriverReads
<1>2. ToInt(a) = a /\ ToInt(a % IntMod) = a
  BY IntBack
<1>3. a % IntMod \in 0 .. (IntMod - 1)
  BY IntModType, Remainder, IoctlConstants, Halves DEF IntRange
<1>4. CASE c = "FAT_IOCTL_SET_ATTRIBUTES"
  <2>1. Buffer(c, a) = a % IntMod
    BY <1>4 DEF Buffer, LongCommands, U32Commands
  <2>2. Register(c) = "u32"
    BY <1>4 DEF Register, LongCommands, U32Commands, PidCommands
  <2> QED BY <1>2, <1>3, <2>1, <2>2 DEF RegisterRange, Registers
<1>5. CASE c \in {"TIOCMSET", "SNDCTL_DSP_SPEED", "TIOCSPGRP"}
  <2>1. Buffer(c, a) = a
    BY <1>5 DEF Buffer, LongCommands, U32Commands
  <2>2. Register(c) \in {"lines", "speed", "pid"}
    BY <1>5 DEF Register, LongCommands, U32Commands, PidCommands
  <2> QED BY <1>2, <2>1, <2>2 DEF RegisterRange, Registers
<1> QED BY <1>1, <1>4, <1>5

LEMMA RegisterType ==
  ASSUME NEW c \in NumberCommands
  PROVE  Register(c) \in Registers
BY DEF Register, Registers

\* The numbers of every register are integers.
LEMMA RegisterInts ==
  ASSUME NEW r \in Registers
  PROVE  /\ RegisterRange(r) \subseteq Int /\ 0 \in RegisterRange(r)
<1>1. IntRange \subseteq Int /\ 0 \in IntRange
  <2>1. IntMod \div 2 \in Nat /\ IntMod = (IntMod \div 2) + (IntMod \div 2)
    BY IntModType, IoctlConstants, Halves
  <2> QED BY <2>1, IntModType DEF IntRange
<1>2. 0 \in 0 .. (LongMod - 1) /\ 0 \in 0 .. (IntMod - 1)
  BY IntModType, IoctlConstants
<1> QED BY <1>1, <1>2 DEF RegisterRange

-----------------------------------------------------------------------------
(* The invariant.                                                           *)

\* A set command between its two system calls has in its buffer what its array
\* says, and for the rest what the device has, as long as it is intact.
Agrees(c, settings) ==
  c.cmd # "none" =>
    /\ c.array \in Arrays
    /\ \A f \in Fields \cap DOMAIN c.array : c.buffer.flag[f] = c.array[f] % IntMod
    /\ "c_line" \in DOMAIN c.array => c.buffer.line = c.array["c_line"] % ByteMod
    /\ c.intact => \A f \in Fields \ DOMAIN c.array : c.buffer.flag[f] = settings.flag[f]
Pending(c) == Agrees(c, words["settings"])

IInv == TypeOK /\ \A p \in Scripts : Pending(call[p])

\* Calls that are overtaken stay what they are, except that they may not be intact.
LEMMA OvertakenCalls ==
  ASSUME NEW w \in {"settings", "locks"}, NEW calls \in [Scripts -> Calls]
  PROVE  /\ Overtaken(w, calls) \in [Scripts -> Calls]
         /\ \A q \in Scripts :
              /\ Overtaken(w, calls)[q].cmd = calls[q].cmd
              /\ Overtaken(w, calls)[q].array = calls[q].array
              /\ Overtaken(w, calls)[q].buffer = calls[q].buffer
              /\ Overtaken(w, calls)[q].intact => calls[q].intact /\ w = "locks"
<1>1. ASSUME NEW q \in Scripts
      PROVE  \E t \in BOOLEAN :
               /\ Overtaken(w, calls)[q] = [calls[q] EXCEPT !.intact = t]
               /\ t => calls[q].intact /\ w = "locks"
  <2> DEFINE t == calls[q].intact /\ w # "settings"
  <2>1. t \in BOOLEAN /\ (t => calls[q].intact /\ w = "locks")
    OBVIOUS
  <2>2. Overtaken(w, calls)[q] = [calls[q] EXCEPT !.intact = t]
    BY Zenon DEF Overtaken
  <2> QED BY <2>1, <2>2, Zenon
<1>2. ASSUME NEW q \in Scripts, NEW t \in BOOLEAN
      PROVE  /\ [calls[q] EXCEPT !.intact = t] \in Calls
             /\ [calls[q] EXCEPT !.intact = t].cmd = calls[q].cmd
             /\ [calls[q] EXCEPT !.intact = t].array = calls[q].array
             /\ [calls[q] EXCEPT !.intact = t].buffer = calls[q].buffer
             /\ [calls[q] EXCEPT !.intact = t].intact = t
  <2>1. calls[q] \in Calls
    OBVIOUS
  <2> QED BY <2>1 DEF Calls
<1>3. \A q \in Scripts :
        /\ Overtaken(w, calls)[q] \in Calls
        /\ Overtaken(w, calls)[q].cmd = calls[q].cmd
        /\ Overtaken(w, calls)[q].array = calls[q].array
        /\ Overtaken(w, calls)[q].buffer = calls[q].buffer
        /\ Overtaken(w, calls)[q].intact => calls[q].intact /\ w = "locks"
  <2> TAKE q \in Scripts
  <2>1. PICK t \in BOOLEAN : /\ Overtaken(w, calls)[q] = [calls[q] EXCEPT !.intact = t]
                             /\ t => calls[q].intact /\ w = "locks"
    BY <1>1
  <2> QED BY <1>2, <2>1
<1>4. Overtaken(w, calls) = [q \in Scripts |-> Overtaken(w, calls)[q]]
  BY DEF Overtaken
<1> QED BY <1>3, <1>4

\* No call in progress.
LEMMA IdleType == Idle \in Calls /\ Idle.cmd = "none"
<1>1. ZeroBuffer \in Buffers
  <2>1. 0 \in 0 .. (IntMod - 1) /\ 0 \in 0 .. (ByteMod - 1)
    BY IntModType, WidthTypes
  <2> QED BY <2>1 DEF ZeroBuffer, Buffers
<1> QED BY <1>1 DEF Idle, Calls

\* A step that changes neither the device nor a call.
Ends(p) ==
  \/ DiesParsing(p) \/ NotDefined(p) \/ ArgumentMissing(p) \/ Refused(p)
  \/ CharCommand(p) \/ TimeCommand(p) \/ GetSettings(p) \/ DiesMerging(p)

LEMMA EndsFrame ==
  ASSUME NEW p \in Scripts, Ends(p)
  PROVE  /\ UNCHANGED <<device, reg, words, call>>
         /\ last'.how \in {"returned", "exception", "died"}
         /\ last'.how = "returned" => last'.cmd \notin DriverReads \cup DriverWrites
<1>1. CASE DiesParsing(p) \/ NotDefined(p) \/ ArgumentMissing(p) \/ Refused(p) \/ DiesMerging(p)
  BY <1>1 DEF DiesParsing, NotDefined, ArgumentMissing, Refused, DiesMerging, Ended
<1>2. CASE CharCommand(p) \/ TimeCommand(p) \/ GetSettings(p)
  BY <1>2 DEF CharCommand, TimeCommand, GetSettings, Ended, CharCommands, GetTermios,
              DriverReads, DriverWrites
<1> QED BY <1>1, <1>2 DEF Ends

\* A command on a number.
LEMMA NumberStep ==
  ASSUME TypeOK, NEW p \in Scripts, NumberCommand(p)
  PROVE  \E c \in NumberCommands, asked \in IntRange :
           /\ UNCHANGED <<device, words, call>>
           /\ last'.how = "returned" /\ last'.cmd = c /\ last'.asked = asked
           /\ \/ /\ c \in DriverReads
                 /\ \E n \in RegisterRange(Register(c)) :
                      /\ reg' = [reg EXCEPT ![Register(c)] = n]
                      /\ c \notin DriverWrites => n = Buffer(c, asked) /\ last'.answer = ToInt(n)
              \/ c \notin DriverReads /\ reg' = reg
           /\ c \in DriverWrites => last'.answer = ToInt(reg'[Register(c)])
<1>1. PICK c \in NumberCommands \cap device, a \in Arguments \cup {NoArg} :
        LET r == Register(c)
            asked == IF a = NoArg THEN 0 ELSE a
            settled == IF c \in DriverReads \cap DriverWrites THEN Numbers \cap RegisterRange(r) ELSE {}
        IN
        /\ asked \in IntRange
        /\ \/ c \in DriverReads /\ \E n \in settled \cup {Buffer(c, asked)} : reg' = [reg EXCEPT ![r] = n]
           \/ c \notin DriverReads /\ UNCHANGED reg
        /\ last' = Ended(c, "returned", asked,
             IF c \in DriverWrites THEN ToInt(reg'[r]) ELSE ToInt(Buffer(c, asked)))
        /\ UNCHANGED <<device, words, call>>
  BY Zenon DEF NumberCommand
<1> DEFINE r == Register(c)
           asked == IF a = NoArg THEN 0 ELSE a
           settled == IF c \in DriverReads \cap DriverWrites THEN Numbers \cap RegisterRange(r) ELSE {}
<1>2. /\ asked \in IntRange /\ UNCHANGED <<device, words, call>>
      /\ last'.how = "returned" /\ last'.cmd = c /\ last'.asked = asked
      /\ last'.answer = IF c \in DriverWrites THEN ToInt(reg'[r]) ELSE ToInt(Buffer(c, asked))
  BY <1>1 DEF Ended
<1>3. \/ c \in DriverReads /\ \E n \in settled \cup {Buffer(c, asked)} : reg' = [reg EXCEPT ![r] = n]
      \/ c \notin DriverReads /\ UNCHANGED reg
  BY <1>1, Zenon
<1>4. ASSUME c \in DriverReads
      PROVE  /\ Buffer(c, asked) \in RegisterRange(r) /\ ToInt(Buffer(c, asked)) = asked
             /\ settled \subseteq RegisterRange(r)
             /\ c \notin DriverWrites => settled = {}
  <2> HIDE DEF asked
  <2> QED BY <1>2, <1>4, BufferType
<1> HIDE DEF r, asked, settled
<1>5. c \in DriverReads =>
        \E n \in RegisterRange(r) :
          /\ reg' = [reg EXCEPT ![r] = n]
          /\ c \notin DriverWrites => n = Buffer(c, asked) /\ last'.answer = ToInt(n)
  BY <1>2, <1>3, <1>4
<1>6. /\ \/ c \in DriverReads /\ \E n \in RegisterRange(r) :
              /\ reg' = [reg EXCEPT ![r] = n]
              /\ c \notin DriverWrites => n = Buffer(c, asked) /\ last'.answer = ToInt(n)
         \/ c \notin DriverReads /\ reg' = reg
      /\ c \in DriverWrites => last'.answer = ToInt(reg'[r])
  BY <1>2, <1>3, <1>5
<1> QED BY <1>2, <1>6 DEF r

\* The initial states satisfy the invariant.
LEMMA InitInv == Init => IInv
<1> SUFFICES ASSUME Init PROVE IInv
  OBVIOUS
<1>1. PICK w \in Words : words = [settings |-> w, locks |-> Stored(ZeroBuffer)]
  BY DEF Init
<1>2. w \in Settings /\ Stored(ZeroBuffer) \in Settings
  BY IoctlConstants, FilledType, StoredType
<1>3. words \in [{"settings", "locks"} -> Settings]
  BY <1>1, <1>2
<1>4. call \in [Scripts -> Calls] /\ \A p \in Scripts : Pending(call[p])
  BY IdleType DEF Init, Pending, Agrees
<1>5. DOMAIN reg = Registers /\ \A r \in Registers : reg[r] \in RegisterRange(r)
  BY RegisterInts DEF Init
<1> QED BY <1>3, <1>4, <1>5 DEF Init, NoCall, Ended, IInv, TypeOK

\* A number of the device changes.
LEMMA RegisterInv ==
  ASSUME IInv, UNCHANGED <<device, words, call>>, last'.how = "returned",
         \/ reg' = reg
         \/ \E r \in Registers : \E n \in RegisterRange(r) : reg' = [reg EXCEPT ![r] = n]
  PROVE  IInv'
<1>1. DOMAIN reg' = Registers /\ \A r \in Registers : reg'[r] \in RegisterRange(r)
  BY DEF IInv, TypeOK
<1>2. \A p \in Scripts : Pending(call[p])'
  BY DEF IInv, Pending
<1> QED BY <1>1, <1>2 DEF IInv, TypeOK

\* The array is put over the settings.
LEMMA ReadInv == ASSUME IInv, NEW p \in Scripts, ReadDefaults(p) PROVE IInv'
<1>1. PICK c \in SetTermios \cap device, a \in Arrays, ok \in BOOLEAN :
        LET defaults == IF ok THEN Filled(ZeroBuffer, words["settings"]) ELSE ZeroBuffer
        IN
        /\ Parses(a)
        /\ call' = [call EXCEPT ![p] =
                      [cmd |-> c, array |-> a, buffer |-> Merged(defaults, a), intact |-> ok]]
        /\ last' = NoCall
        /\ UNCHANGED <<device, reg, words>>
  BY Zenon DEF ReadDefaults
<1> DEFINE defaults == IF ok THEN Filled(ZeroBuffer, words["settings"]) ELSE ZeroBuffer
           new == [cmd |-> c, array |-> a, buffer |-> Merged(defaults, a), intact |-> ok]
<1>2. words["settings"] \in Settings
  BY DEF IInv, TypeOK
<1>3. defaults \in Buffers /\ (ok => defaults.flag = words["settings"].flag)
  BY <1>2, FilledType
<1> HIDE DEF defaults
<1>4. /\ Merged(defaults, a) \in Buffers
      /\ \A f \in Fields : Merged(defaults, a).flag[f] =
           IF f \in DOMAIN a THEN a[f] % IntMod ELSE defaults.flag[f]
      /\ Merged(defaults, a).line = IF "c_line" \in DOMAIN a THEN a["c_line"] % ByteMod ELSE defaults.line
  BY <1>1, <1>3, MergedType
<1>5. /\ call' = [call EXCEPT ![p] = new]
      /\ last' = NoCall /\ UNCHANGED <<device, reg, words>>
  BY <1>1 DEF defaults
<1>6. new \in Calls
  BY <1>4 DEF Calls
<1>7. Agrees(new, words["settings"])
  BY <1>3, <1>4 DEF Agrees
<1> HIDE DEF new
<1>8. call' \in [Scripts -> Calls]
  BY <1>5, <1>6 DEF IInv, TypeOK
<1>9. ASSUME NEW q \in Scripts PROVE Pending(call[q])'
  <2>1. CASE q = p
    <3>1. call'[q] = new
      BY <1>5, <2>1 DEF IInv, TypeOK
    <3> QED BY <1>5, <1>7, <3>1 DEF Pending
  <2>2. CASE q # p
    <3>1. call'[q] = call[q]
      BY <1>5, <2>2 DEF IInv, TypeOK
    <3> QED BY <1>5, <3>1 DEF IInv, Pending
  <2> QED BY <2>1, <2>2
<1>10. TypeOK'
  BY <1>5, <1>8 DEF IInv, TypeOK, NoCall, Ended
<1> QED BY <1>9, <1>10 DEF IInv

\* A word of the device changes, and with it what the calls in progress are.
LEMMA WordInv ==
  ASSUME IInv, NEW w \in {"settings", "locks"}, NEW v \in Settings,
         NEW calls \in [Scripts -> Calls], \A q \in Scripts : Pending(calls[q]),
         words' = [words EXCEPT ![w] = v], call' = Overtaken(w, calls),
         UNCHANGED <<device, reg>>, last'.how \in {"returned", "exception", "died"}
  PROVE  IInv'
<1>1. /\ call' \in [Scripts -> Calls]
      /\ \A q \in Scripts :
           /\ call'[q].cmd = calls[q].cmd /\ call'[q].array = calls[q].array
           /\ call'[q].buffer = calls[q].buffer
           /\ call'[q].intact => calls[q].intact /\ w = "locks"
  BY OvertakenCalls
<1>2. words' \in [{"settings", "locks"} -> Settings] /\ (w = "locks" => words'["settings"] = words["settings"])
  BY DEF IInv, TypeOK
<1>3. ASSUME NEW q \in Scripts PROVE Pending(call[q])'
  <2>1. Pending(calls[q])
    OBVIOUS
  <2> QED BY <1>1, <1>2, <2>1 DEF Pending, Agrees
<1> QED BY <1>1, <1>2, <1>3 DEF IInv, TypeOK

LEMMA WriteInv == ASSUME IInv, NEW p \in Scripts, WriteSettings(p) PROVE IInv'
<1> DEFINE c == call[p].cmd
           b == call[p].buffer
           w == Word(c)
           v == IF c = "TCSETA" THEN StoredTermio(words[w], b) ELSE Stored(b)
           calls == [call EXCEPT ![p] = Idle]
<1>1. /\ words' = [words EXCEPT ![w] = v] /\ call' = Overtaken(w, calls)
      /\ UNCHANGED <<device, reg>> /\ last'.how = "returned"
  BY DEF WriteSettings, Ended
<1>2. call \in [Scripts -> Calls] /\ call[p] \in Calls /\ b \in Buffers
  BY DEF IInv, TypeOK, Calls
<1>3. w \in {"settings", "locks"} /\ words[w] \in Settings
  BY DEF IInv, TypeOK, Word
<1>4. v \in Settings
  BY <1>2, <1>3, StoredType, StoredTermioType
<1>5. calls \in [Scripts -> Calls]
  BY <1>2, IdleType
<1>6. \A q \in Scripts : Pending(calls[q])
  BY <1>2, IdleType DEF IInv, Pending, Agrees
<1> HIDE DEF w, v, calls
<1> QED BY <1>1, <1>3, <1>4, <1>5, <1>6, WordInv

\* The invariant holds in every state.
THEOREM Invariance == Spec => []IInv
<1>1. IInv /\ [Next]_vars => IInv'
  <2> SUFFICES ASSUME IInv, [Next]_vars PROVE IInv'
    OBVIOUS
  <2>1. ASSUME NEW p \in Scripts, Ends(p) PROVE IInv'
    BY <2>1, EndsFrame DEF IInv, TypeOK, Pending
  <2>2. ASSUME NEW p \in Scripts, NumberCommand(p) PROVE IInv'
    <3>1. UNCHANGED <<device, words, call>> /\ last'.how = "returned"
      BY <2>2, NumberStep DEF IInv
    <3>2. \/ reg' = reg
          \/ \E r \in Registers : \E n \in RegisterRange(r) : reg' = [reg EXCEPT ![r] = n]
      BY <2>2, NumberStep, RegisterType DEF IInv
    <3> QED BY <3>1, <3>2, RegisterInv
  <2>3. ASSUME NEW p \in Scripts, ReadDefaults(p) PROVE IInv'
    BY <2>3, ReadInv
  <2>4. ASSUME NEW p \in Scripts, WriteSettings(p) PROVE IInv'
    BY <2>4, WriteInv
  <2>5. ASSUME NEW p \in Scripts, WriteRefused(p) PROVE IInv'
    <3>1. /\ call' = [call EXCEPT ![p] = Idle] /\ UNCHANGED <<device, reg, words>>
          /\ last'.how = "exception"
      BY <2>5 DEF WriteRefused, Ended
    <3>2. call' \in [Scripts -> Calls]
      BY <3>1, IdleType DEF IInv, TypeOK
    <3>3. \A q \in Scripts : call'[q] = call[q] \/ call'[q].cmd = "none"
      BY <3>1, IdleType DEF IInv, TypeOK
    <3>4. \A q \in Scripts : Pending(call[q])'
      BY <3>1, <3>3 DEF IInv, Pending, Agrees
    <3> QED BY <3>1, <3>2, <3>4 DEF IInv, TypeOK
  <2>6. CASE DeviceChanges
    <3>1. UNCHANGED <<device, words, call>> /\ last'.how = "returned"
      BY <2>6 DEF DeviceChanges, NoCall, Ended
    <3>2. \E r \in Registers : \E n \in RegisterRange(r) : reg' = [reg EXCEPT ![r] = n]
      BY <2>6 DEF DeviceChanges
    <3> QED BY <3>1, <3>2, RegisterInv
  <2>7. CASE OtherProgram
    <3>1. PICK v \in Words : /\ words' = [words EXCEPT !["settings"] = v]
                             /\ call' = Overtaken("settings", call)
                             /\ last' = NoCall /\ UNCHANGED <<device, reg>>
      BY <2>7 DEF OtherProgram
    <3>2. v \in Settings /\ last'.how = "returned"
      BY <3>1, IoctlConstants DEF NoCall, Ended
    <3>3. call \in [Scripts -> Calls] /\ \A q \in Scripts : Pending(call[q])
      BY DEF IInv, TypeOK
    <3> QED BY <3>1, <3>2, <3>3, WordInv
  <2>8. CASE UNCHANGED vars
    BY <2>8 DEF vars, IInv, TypeOK, Pending
  <2> QED BY <2>1, <2>2, <2>3, <2>4, <2>5, <2>6, <2>7, <2>8 DEF Next, Ends
<1> QED BY <1>1, InitInv, PTL DEF Spec

-----------------------------------------------------------------------------
(* What io_ioctl promises.                                                  *)

\* The variables keep their types.
THEOREM TypeCorrect == Spec => []TypeOK
<1>1. IInv => TypeOK
  BY DEF IInv
<1> QED BY <1>1, Invariance, PTL

\* A TCSETS changes no flag word that its array does not mention, when nobody
\* came in between.
THEOREM OthersKept == Spec => OnlyMentionedChange
<1>1. IInv /\ [Next]_vars => [\A p \in Scripts :
        /\ WriteSettings(p) /\ call[p].cmd = "TCSETS" /\ call[p].intact
        => \A f \in Fields \ DOMAIN call[p].array :
             words'["settings"].flag[f] = words["settings"].flag[f]]_vars
  <2> SUFFICES ASSUME IInv, NEW p \in Scripts,
                      WriteSettings(p), call[p].cmd = "TCSETS", call[p].intact,
                      NEW f \in Fields \ DOMAIN call[p].array
               PROVE  words'["settings"].flag[f] = words["settings"].flag[f]
    OBVIOUS
  <2>1. words' = [words EXCEPT !["settings"] = Stored(call[p].buffer)]
    BY DEF WriteSettings, Word
  <2>2. call[p].buffer.flag[f] = words["settings"].flag[f]
    <3>1. call[p].cmd # "none"
      OBVIOUS
    <3> QED BY <3>1 DEF IInv, Pending, Agrees
  <2>3. words \in [{"settings", "locks"} -> Settings]
    BY DEF IInv, TypeOK
  <2> QED BY <2>1, <2>2, <2>3 DEF Stored
<1> QED BY <1>1, Invariance, PTL DEF Spec, OnlyMentionedChange

\* What TCGETS returned is what stoi and the widths leave of it.
LEMMA SavedNumbers ==
  ASSUME NEW w \in Settings
  PROVE  /\ Parses(Saved(w)) /\ DOMAIN Saved(w) = Keys
         /\ \A f \in Fields : Saved(w)[f] % IntMod = w.flag[f]
         /\ Saved(w)["c_line"] % ByteMod = w.line
<1> DEFINE b == Filled(ZeroBuffer, w)
<1>1. b \in Buffers /\ b.flag = w.flag /\ b.line = w.line
  BY FilledType
<1>2. b.line \in 0 .. (ByteMod - 1) /\ b.ispeed \in 0 .. (IntMod - 1) /\ b.ospeed \in 0 .. (IntMod - 1)
      /\ \A f \in Fields : b.flag[f] \in 0 .. (IntMod - 1)
  BY <1>1 DEF Buffers
<1>3. \A n \in 0 .. (IntMod - 1) : ToInt(n) \in IntRange /\ ToInt(n) % IntMod = n
  BY ToIntType, ToIntBack
<1>4. \A n \in 0 .. (ByteMod - 1) : n \in IntRange /\ n % ByteMod = n
  <2>1. ByteMod <= IntMod \div 2 /\ IntMod \div 2 \in Nat
    BY IntModType, IoctlConstants, Halves
  <2>2. \A n \in 0 .. (ByteMod - 1) : n % ByteMod = n
    BY WidthTypes, Remainder
  <2> QED BY <2>1, <2>2, WidthTypes DEF IntRange
<1> HIDE DEF b
<1>5. Saved(w) = [key \in Keys |-> CASE key \in Fields -> Shown(b).flag[key]
                                     [] key = "c_line" -> Shown(b).line
                                     [] key = "c_ispeed" -> Shown(b).ispeed
                                     [] key = "c_ospeed" -> Shown(b).ospeed]
  BY DEF Saved, b
<1>6. /\ \A f \in Fields : Shown(b).flag[f] = ToInt(b.flag[f])
      /\ Shown(b).line = b.line
      /\ Shown(b).ispeed = ToInt(b.ispeed) /\ Shown(b).ospeed = ToInt(b.ospeed)
  BY DEF Shown
<1>7. /\ DOMAIN Saved(w) = Keys
      /\ \A f \in Fields : Saved(w)[f] = ToInt(b.flag[f])
      /\ Saved(w)["c_line"] = b.line
      /\ Saved(w)["c_ispeed"] = ToInt(b.ispeed) /\ Saved(w)["c_ospeed"] = ToInt(b.ospeed)
  BY <1>5, <1>6 DEF Keys, Fields
<1>8. \A key \in Keys : Saved(w)[key] \in IntRange
  BY <1>2, <1>3, <1>4, <1>7 DEF Keys
<1>9. Parses(Saved(w))
  BY <1>7, <1>8 DEF Parses, Parsed, Keys
<1> QED BY <1>1, <1>2, <1>3, <1>4, <1>7, <1>9

\* Settings that were read can be written back, with any widths: stoi takes all
\* of the array and no bit is lost on the way through int.
THEOREM SettingsComeBack == Spec => SavedRestores
<1>1. IInv /\ [Next]_vars => [\A w \in Words :
        /\ Parses(Saved(w))
        /\ \A p \in Scripts :
             WriteSettings(p) /\ call[p].cmd # "TCSETA" /\ call[p].array = Saved(w)
             => words'[Word(call[p].cmd)] = w]_vars
  <2> SUFFICES ASSUME IInv, NEW w \in Words
               PROVE  /\ Parses(Saved(w))
                      /\ \A p \in Scripts :
                           WriteSettings(p) /\ call[p].cmd # "TCSETA" /\ call[p].array = Saved(w)
                           => words'[Word(call[p].cmd)] = w
    OBVIOUS
  <2>1. w \in Settings
    BY IoctlConstants
  <2>2. /\ Parses(Saved(w)) /\ DOMAIN Saved(w) = Keys
        /\ \A f \in Fields : Saved(w)[f] % IntMod = w.flag[f]
        /\ Saved(w)["c_line"] % ByteMod = w.line
    BY <2>1, SavedNumbers
  <2>3. ASSUME NEW p \in Scripts,
               WriteSettings(p), call[p].cmd # "TCSETA", call[p].array = Saved(w)
        PROVE  words'[Word(call[p].cmd)] = w
    <3> DEFINE b == call[p].buffer
    <3>1. call[p].cmd # "none" /\ words' = [words EXCEPT ![Word(call[p].cmd)] = Stored(b)]
      BY <2>3 DEF WriteSettings
    <3>2. b \in Buffers /\ Word(call[p].cmd) \in DOMAIN words
      BY DEF IInv, TypeOK, Calls, Word
    <3>3. /\ \A f \in Fields \cap DOMAIN call[p].array : b.flag[f] = call[p].array[f] % IntMod
          /\ "c_line" \in DOMAIN call[p].array => b.line = call[p].array["c_line"] % ByteMod
      BY <3>1 DEF IInv, Pending, Agrees
    <3>4. (\A f \in Fields : b.flag[f] = w.flag[f]) /\ b.line = w.line
      BY <2>2, <2>3, <3>3 DEF Keys
    <3>5. Stored(b) = w
      <4>1. /\ b.flag = [f \in Fields |-> b.flag[f]] /\ w.flag = [f \in Fields |-> w.flag[f]]
            /\ w = [flag |-> w.flag, line |-> w.line]
        BY <2>1, <3>2 DEF Buffers, Settings
      <4>2. b.flag = w.flag
        BY <3>4, <4>1
      <4> QED BY <3>4, <4>1, <4>2 DEF Stored
    <3> QED BY <3>1, <3>2, <3>5
  <2> QED BY <2>2, <2>3
<1> QED BY <1>1, Invariance, PTL DEF Spec, SavedRestores

\* What the device has, as cells.
HoldsNow == [r \in Registers |-> RegisterRange(r)]
ModulusNow == [r \in Registers |-> IF r = "ulong" THEN LongMod ELSE IntMod]
AnswerNow ==
  IF last.how = "returned" /\ last.cmd \in DriverReads \cup DriverWrites
  THEN [of |-> Register(last.cmd), asked |-> last.asked, n |-> last.answer]
  ELSE [of |-> "none", asked |-> 0, n |-> 0]

\* What the argument becomes in the buffer is the same number, with more bits.
LEMMA BufferSame ==
  ASSUME NEW c \in NumberCommands \cap DriverReads, NEW a \in IntRange
  PROVE  Cells!Same(Register(c), Buffer(c, a), a)
<1>1. c \in {"TIOCMSET", "SNDCTL_DSP_SPEED", "FAT_IOCTL_SET_ATTRIBUTES", "TIOCSPGRP"}
  BY DEF DriverReads
<1>2. CASE c = "FAT_IOCTL_SET_ATTRIBUTES"
  <2>1. Buffer(c, a) = a % IntMod /\ Register(c) = "u32"
    BY <1>2 DEF Buffer, Register, LongCommands, U32Commands, PidCommands
  <2>2. a % IntMod = a \/ a % IntMod = a + IntMod
    BY IntBits
  <2>3. ModulusNow["u32"] = IntMod
    BY DEF ModulusNow, Registers
  <2> QED BY <2>1, <2>2, <2>3 DEF Cells!Same, ModulusNow
<1>3. CASE c \in {"TIOCMSET", "SNDCTL_DSP_SPEED", "TIOCSPGRP"}
  BY <1>3 DEF Buffer, LongCommands, U32Commands, Cells!Same
<1> QED BY <1>1, <1>2, <1>3

\* The conversion to int gives the int that has a number's bits.
LEMMA ToldInt ==
  ASSUME NEW r \in Registers, NEW v \in RegisterRange(r)
  PROVE  Cells!Told(r, v, ToInt(v))
<1>1. v \in Int /\ ToInt(v) \in IntRange
  BY RegisterInts, ToIntType
<1>2. ModulusNow[r] = IF r = "ulong" THEN LongMod ELSE IntMod
  BY DEF ModulusNow
<1>3. ASSUME NEW i \in IntRange, Cells!Same(r, v, i) PROVE ToInt(v) = i
  <2>1. v = i \/ v = i + IntMod \/ v = i + LongMod
    BY <1>2, <1>3 DEF Cells!Same, ModulusNow
  <2>2. i \in Int
    BY RegisterInts DEF RegisterRange, Registers
  <2>3. v % IntMod = i % IntMod
    BY <2>1, <2>2, IntModType, LongModType, SameRemainder
  <2> QED BY <2>3, IntBack DEF ToInt
<1> QED BY <1>1, <1>3 DEF Cells!Told

\* A step that keeps the numbers and answers nothing.
LEMMA OtherStep ==
  ASSUME reg' = reg, AnswerNow' = [of |-> "none", asked |-> 0, n |-> 0]
  PROVE  Cells!Next
BY DEF Cells!Next, Cells!Other, Cells!Nothing, AnswerNow

\* The numbers of the device are cells: what is put is taken, what is got is what
\* is there, of every number that an int has the bits of.
THEOREM Refinement == Spec => ImplementsCells
<1>1. Init => Cells!Init
  <2> SUFFICES ASSUME Init PROVE Cells!Init
    OBVIOUS
  <2>1. reg \in [Registers -> UNION {HoldsNow[r] : r \in Registers}]
    <3>1. \A r \in Registers : 0 \in HoldsNow[r]
      BY RegisterInts DEF HoldsNow
    <3> QED BY <3>1 DEF Init
  <2>2. last.cmd = "none" /\ "none" \notin DriverReads \cup DriverWrites
    BY DEF Init, NoCall, Ended, DriverReads, DriverWrites
  <2> QED BY <2>1, <2>2 DEF Cells!Init, Cells!Nothing, HoldsNow
<1>2. IInv /\ [Next]_vars => Cells!Next \/ UNCHANGED <<reg, AnswerNow>>
  <2> SUFFICES ASSUME IInv, [Next]_vars PROVE Cells!Next \/ UNCHANGED <<reg, AnswerNow>>
    OBVIOUS
  <2>1. ASSUME reg' = reg, last'.how = "returned" => last'.cmd \notin DriverReads \cup DriverWrites
        PROVE  Cells!Next
    <3>1. AnswerNow' = [of |-> "none", asked |-> 0, n |-> 0]
      BY <2>1 DEF AnswerNow
    <3> QED BY <2>1, <3>1, OtherStep
  <2>2. ASSUME NEW p \in Scripts, Ends(p) PROVE Cells!Next
    BY <2>1, <2>2, EndsFrame
  <2>3. ASSUME NEW p \in Scripts, NumberCommand(p) PROVE Cells!Next
    <3>1. PICK c \in NumberCommands, asked \in IntRange :
           /\ last'.how = "returned" /\ last'.cmd = c /\ last'.asked = asked
           /\ \/ /\ c \in DriverReads
                 /\ \E n \in RegisterRange(Register(c)) :
                      /\ reg' = [reg EXCEPT ![Register(c)] = n]
                      /\ c \notin DriverWrites => n = Buffer(c, asked) /\ last'.answer = ToInt(n)
              \/ c \notin DriverReads /\ reg' = reg
           /\ c \in DriverWrites => last'.answer = ToInt(reg'[Register(c)])
      BY <2>3, NumberStep DEF IInv
    <3> DEFINE r == Register(c)
    <3>2. r \in Registers
      BY RegisterType
    <3>3. CASE c \in DriverReads
      <4>1. PICK n \in RegisterRange(r) :
              /\ reg' = [reg EXCEPT ![r] = n]
              /\ c \notin DriverWrites => n = Buffer(c, asked) /\ last'.answer = ToInt(n)
        BY <3>1, <3>3
      <4>2. AnswerNow' = [of |-> r, asked |-> asked, n |-> last'.answer]
        BY <3>1, <3>3 DEF AnswerNow
      <4>3. reg'[r] = n
        BY <3>2, <4>1 DEF IInv, TypeOK
      <4>4. last'.answer = ToInt(n) /\ ToInt(n) \in IntRange
        BY <3>1, <3>2, <4>1, <4>3, RegisterInts, ToIntType
      <4>5. r # "speed" => c \notin DriverWrites
        BY <3>3 DEF Register, DriverReads, DriverWrites, LongCommands, U32Commands, PidCommands
      <4>6. r # "speed" => Cells!Same(r, n, asked)
        BY <3>3, <4>1, <4>5, BufferSame
      <4>7. Cells!Told(r, n, ToInt(n))
        BY <3>2, ToldInt
      <4>8. Cells!Put(r, n, asked, ToInt(n))
        BY <4>1, <4>2, <4>4, <4>6, <4>7 DEF Cells!Put, AnswerNow
      <4>9. n \in HoldsNow[r]
        BY <3>2 DEF HoldsNow
      <4> QED BY <3>2, <4>3, <4>4, <4>8, <4>9 DEF Cells!Next, HoldsNow
    <3>4. CASE c \notin DriverReads /\ c \in DriverWrites
      <4>1. reg' = reg /\ last'.answer = ToInt(reg[r])
        BY <3>1, <3>4
      <4>2. reg[r] \in RegisterRange(r)
        BY <3>2 DEF IInv, TypeOK
      <4>3. ToInt(reg[r]) \in IntRange /\ Cells!Told(r, reg[r], ToInt(reg[r]))
        BY <3>2, <4>2, RegisterInts, ToIntType, ToldInt
      <4>4. AnswerNow' = [of |-> r, asked |-> asked, n |-> ToInt(reg[r])]
        BY <3>1, <3>4, <4>1 DEF AnswerNow
      <4>5. Cells!Get(r, asked, ToInt(reg[r]))
        BY <4>1, <4>3, <4>4 DEF Cells!Get, AnswerNow
      <4> QED BY <3>2, <4>3, <4>5 DEF Cells!Next
    <3>5. CASE c \notin DriverReads \cup DriverWrites
      BY <2>1, <3>1, <3>5
    <3> QED BY <3>3, <3>4, <3>5
  <2>4. ASSUME NEW p \in Scripts, ReadDefaults(p) PROVE Cells!Next
    <3>1. reg' = reg /\ last'.cmd = "none"
      BY <2>4 DEF ReadDefaults, NoCall, Ended
    <3> QED BY <2>1, <3>1 DEF DriverReads, DriverWrites
  <2>5. ASSUME NEW p \in Scripts, WriteSettings(p) PROVE Cells!Next
    <3>1. reg' = reg /\ last'.cmd = call[p].cmd /\ call[p].cmd # "none"
      BY <2>5 DEF WriteSettings, Ended
    <3>2. call[p].cmd \in SetTermios
      BY <3>1 DEF IInv, TypeOK, Calls
    <3> QED BY <2>1, <3>1, <3>2 DEF DriverReads, DriverWrites, SetTermios
  <2>6. ASSUME NEW p \in Scripts, WriteRefused(p) PROVE Cells!Next
    BY <2>1, <2>6 DEF WriteRefused, Ended
  <2>7. CASE DeviceChanges
    <3>0. PICK r \in Registers : \E n \in RegisterRange(r) :
            reg' = [reg EXCEPT ![r] = n] /\ last' = NoCall
      BY <2>7 DEF DeviceChanges
    <3>1. PICK n \in RegisterRange(r) : reg' = [reg EXCEPT ![r] = n] /\ last' = NoCall
      BY <3>0
    <3>2. n \in HoldsNow[r]
      BY <3>1 DEF HoldsNow
    <3>3. AnswerNow' = [of |-> "none", asked |-> 0, n |-> 0]
      BY <3>1 DEF AnswerNow, NoCall, Ended, DriverReads, DriverWrites
    <3>4. Cells!Change(r, n)
      BY <3>1, <3>3 DEF Cells!Change, Cells!Nothing, AnswerNow
    <3> QED BY <3>2, <3>4 DEF Cells!Next, HoldsNow
  <2>8. CASE OtherProgram
    <3>1. reg' = reg /\ last'.cmd = "none"
      BY <2>8 DEF OtherProgram, NoCall, Ended
    <3> QED BY <2>1, <3>1 DEF DriverReads, DriverWrites
  <2>9. CASE UNCHANGED vars
    BY <2>9 DEF vars, AnswerNow
  <2> QED BY <2>2, <2>3, <2>4, <2>5, <2>6, <2>7, <2>8, <2>9 DEF Next, Ends
<1>3. IInv /\ [Next]_vars => [Cells!Next]_<<reg, AnswerNow>>
  BY <1>2
<1> QED BY <1>1, <1>3, Invariance, PTL DEF Spec, ImplementsCells, Cells!Spec, AnswerNow
=============================================================================
