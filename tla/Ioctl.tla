-------------------------------- MODULE Ioctl --------------------------------
(***************************************************************************)
(* io_ioctl (basic.cpp): from the command it derives the type of the       *)
(* buffer the driver is given, fills the buffer with the script's          *)
(* argument, and makes a PHP value of what the driver leaves in it.        *)
(*                                                                         *)
(* A command stands for all that share its case labels.  The device is     *)
(* what the drivers of the commands keep: numbers, a clock, and two        *)
(* termios words, the settings and the mask that locks them.  Control      *)
(* characters (c_cc) are left out.                                         *)
(***************************************************************************)
EXTENDS Integers

CONSTANTS Scripts,      \* the processes that share the device
          Arguments,    \* the numbers scripts pass; one outside IntRange is a text std::stoi throws at
          Arrays,       \* the arrays they pass
          Numbers,      \* what the device may set its numbers to on its own
          Words,        \* what other programs set the settings to
          Devices,      \* the devices: each is the set of commands its driver knows
          Clock,        \* what SIOCGSTAMP may answer, <<seconds, microseconds>>
          NoArg,        \* no third argument
          NoAnswer,
          IntMod, HalfMod, ByteMod,     \* 2^32, 2^16, 2^8
          LongMod,      \* 2^64
          Usecs         \* microseconds in a second

IntRange == -(IntMod \div 2) .. (IntMod \div 2) - 1

\* The conversion of an unsigned number to int.
ToInt(n) == LET low == n % IntMod IN IF low < IntMod \div 2 THEN low ELSE low - IntMod

-----------------------------------------------------------------------------
(* The commands, one of each kind.                                          *)

\* "Const int *" and "int": no call without a third argument.
NeedsArgument == {"TIOCMSET", "TCFLSH"}

\* "Void": the driver ignores the buffer.
VoidCommands == {"TIOCEXCL"}

\* The case labels that share an int as buffer: also "int *".
IntCommands == NeedsArgument \cup {"TIOCMGET", "SNDCTL_DSP_SPEED"} \cup VoidCommands

LongCommands == {"BLKGETSIZE", "BLKRAGET"}
U32Commands == {"FAT_IOCTL_GET_ATTRIBUTES", "FAT_IOCTL_SET_ATTRIBUTES"}
PidCommands == {"TIOCGPGRP", "TIOCSPGRP"}
NumberCommands == IntCommands \cup LongCommands \cup U32Commands \cup PidCommands

CharCommands == {"TIOCSTI", "KDGETLED"}

GetTermios == {"TCGETS", "TCGETA", "TIOCGLCKTRMIOS"}
SetTermios == {"TCSETS", "TCSETA", "TIOCSLCKTRMIOS"}

\* What the drivers do with the buffer: read the argument, write an answer, or
\* both, and settle on a number near the argument.  Others look at neither, or
\* take the pointer itself for a number (TCFLSH).
DriverReads == {"TIOCMSET", "SNDCTL_DSP_SPEED", "FAT_IOCTL_SET_ATTRIBUTES", "TIOCSPGRP"}
DriverWrites == {"TIOCMGET", "SNDCTL_DSP_SPEED", "BLKGETSIZE", "BLKRAGET",
                 "FAT_IOCTL_GET_ATTRIBUTES", "TIOCGPGRP"}

\* The number of the device a command is about.
Register(c) ==
  CASE c \in LongCommands -> "ulong"
    [] c \in U32Commands -> "u32"
    [] c \in PidCommands -> "pid"
    [] c = "SNDCTL_DSP_SPEED" -> "speed"
    [] OTHER -> "lines"

Registers == {"lines", "speed", "pid", "ulong", "u32"}

\* The values of a register: those of the type its driver uses.
RegisterRange(r) ==
  CASE r = "ulong" -> 0 .. LongMod - 1
    [] r = "u32" -> 0 .. IntMod - 1
    [] OTHER -> IntRange

-----------------------------------------------------------------------------
(* Settings.                                                                *)

Fields == {"c_iflag", "c_oflag", "c_cflag", "c_lflag"}
Keys == Fields \cup {"c_line", "c_ispeed", "c_ospeed"}

\* A termios word of the kernel, and the buffer of the call, which has the two
\* speeds besides.
Settings == [flag : [Fields -> 0 .. IntMod - 1], line : 0 .. ByteMod - 1]
Buffers == [flag : [Fields -> 0 .. IntMod - 1], line : 0 .. ByteMod - 1,
            ispeed : 0 .. IntMod - 1, ospeed : 0 .. IntMod - 1]

ZeroBuffer == [flag |-> [f \in Fields |-> 0], line |-> 0, ispeed |-> 0, ospeed |-> 0]

\* The driver fills a termios buffer; the kernel's word has no speeds.
Filled(b, w) == [b EXCEPT !.flag = w.flag, !.line = w.line]
Stored(b) == [flag |-> b.flag, line |-> b.line]

\* termio is half as wide: its four flag fields lie where termios has the first
\* two, its line where termios has the third.
Low(n) == n % HalfMod
High(n) == n \div HalfMod
TermioFlag(b) ==
  [c_iflag |-> Low(b.flag["c_iflag"]), c_oflag |-> High(b.flag["c_iflag"]),
   c_cflag |-> Low(b.flag["c_oflag"]), c_lflag |-> High(b.flag["c_oflag"])]

\* TCSETA: the driver takes the low halves from a termio.
StoredTermio(w, b) ==
  [flag |-> [f \in Fields |-> High(w.flag[f]) * HalfMod + TermioFlag(b)[f]],
   line |-> b.flag["c_cflag"] % ByteMod]

\* TCGETA: the driver leaves a termio in the buffer.
FilledTermio(b, w) ==
  [b EXCEPT !.flag["c_iflag"] = Low(w.flag["c_iflag"]) + Low(w.flag["c_oflag"]) * HalfMod,
            !.flag["c_oflag"] = Low(w.flag["c_cflag"]) + Low(w.flag["c_lflag"]) * HalfMod,
            !.flag["c_cflag"] = w.line]

\* The numbers of the array kept signed.
MergedSigned(b, a) ==
  [b EXCEPT !.flag = [f \in Fields |-> IF f \in DOMAIN a THEN a[f] ELSE b.flag[f]]]

\* The array of a set command, put over the buffer.  Both speeds are taken when
\* the key c_ispeed is there.
Merged(b, a) ==
  LET speeds == "c_ispeed" \in DOMAIN a
  IN  [flag   |-> [f \in Fields |-> IF f \in DOMAIN a THEN a[f] % IntMod ELSE b.flag[f]],
       line   |-> IF "c_line" \in DOMAIN a THEN a["c_line"] % ByteMod ELSE b.line,
       ispeed |-> IF speeds THEN a["c_ispeed"] % IntMod ELSE b.ispeed,
       ospeed |-> IF speeds THEN a["c_ospeed"] % IntMod ELSE b.ospeed]

\* The entries std::stoi is applied to; a missing c_ospeed is the empty string.
Parsed(a) == DOMAIN a \ (IF "c_ispeed" \in DOMAIN a THEN {} ELSE {"c_ospeed"})
Parses(a) ==
  /\ \A key \in Parsed(a) : a[key] \in IntRange
  /\ "c_ispeed" \in DOMAIN a => "c_ospeed" \in DOMAIN a

\* The array returned without the conversions to int.
ShownUnsigned(b) == [flag |-> b.flag, line |-> b.line, ispeed |-> b.ispeed, ospeed |-> b.ospeed]

\* The array returned.
Shown(b) == [flag |-> [f \in Fields |-> ToInt(b.flag[f])], line |-> b.line,
             ispeed |-> ToInt(b.ispeed), ospeed |-> ToInt(b.ospeed)]

Commands == NumberCommands \cup CharCommands \cup {"SIOCGSTAMP"} \cup GetTermios \cup SetTermios

ASSUME IoctlConstants ==
  /\ IntMod \in Nat /\ HalfMod \in Nat \ {0} /\ ByteMod \in Nat \ {0} /\ LongMod \in Nat
  /\ Usecs \in Nat \ {0}
  /\ IntMod = HalfMod * HalfMod /\ IntMod % 2 = 0 /\ ByteMod <= IntMod \div 2
  /\ LongMod > 0 /\ LongMod % IntMod = 0
  /\ Arguments \subseteq Int /\ Numbers \subseteq Int
  /\ NoArg \notin Int /\ NoAnswer \notin Int
  /\ \A a \in Arrays : DOMAIN a \subseteq Keys /\ \A key \in DOMAIN a : a[key] \in Int
  /\ Words \subseteq Settings
  /\ Clock \subseteq Int \X (0 .. Usecs - 1)
  /\ Devices \subseteq SUBSET Commands

VARIABLES
  device,               \* the commands its driver knows
  reg,                  \* its numbers
  words,                \* its settings and their lock mask
  call,                 \* per script: a set command between its two system calls
  last                  \* the call that the last step ended

vars == <<device, reg, words, call, last>>

Idle == [cmd |-> "none", array |-> << >>, buffer |-> ZeroBuffer, intact |-> FALSE]

\* A call that ended: how, the number it was given and what the script is told.
Ended(c, how, asked, answer) == [cmd |-> c, how |-> how, asked |-> asked, answer |-> answer]
NoCall == Ended("none", "returned", NoArg, NoAnswer)

Init ==
  /\ device \in Devices
  /\ reg = [r \in Registers |-> 0]
  /\ words \in {[settings |-> w, locks |-> Stored(ZeroBuffer)] : w \in Words}
  /\ call = [p \in Scripts |-> Idle]
  /\ last = NoCall

\* The word a termios command is about.
Word(c) == IF c \in {"TIOCGLCKTRMIOS", "TIOCSLCKTRMIOS"} THEN "locks" ELSE "settings"

-----------------------------------------------------------------------------

\* std::stoi throws at the text of the descriptor, of the command or of a
\* number: nothing catches it and the process ends.  Another takes its place.
DiesParsing(p) ==
  /\ call[p] = Idle
  /\ last' = Ended("none", "died", NoArg, NoAnswer)
  /\ UNCHANGED <<device, reg, words, call>>

\* The command is in none of the case labels.
NotDefined(p) ==
  /\ call[p] = Idle
  /\ last' = Ended("none", "exception", NoArg, NoAnswer)
  /\ UNCHANGED <<device, reg, words, call>>

\* A command that needs a third argument has none.
ArgumentMissing(p) == \E c \in NeedsArgument :
  /\ call[p] = Idle
  /\ last' = Ended(c, "exception", NoArg, NoAnswer)
  /\ UNCHANGED <<device, reg, words, call>>

\* The driver does not know the command, or fails it in the only system call.
Refused(p) == \E c \in Commands \ (SetTermios \cap device) :
  /\ call[p] = Idle
  /\ last' = Ended(c, "exception", NoArg, NoAnswer)
  /\ UNCHANGED <<device, reg, words, call>>

\* A number as the buffer of the command holds it.
Buffer(c, n) ==
  CASE c \in LongCommands -> n % LongMod
    [] c \in U32Commands -> n % IntMod
    [] OTHER -> n

\* The argument put in a second variable, as CharCommand does.
NumberCommandShadowed(p) == \E c \in NumberCommands \cap device, a \in Arguments \cup {NoArg} :
  LET r == Register(c)
      asked == IF a = NoArg THEN 0 ELSE a
      settled == IF c \in DriverReads \cap DriverWrites THEN Numbers \cap RegisterRange(r) ELSE {}
  IN
  /\ call[p] = Idle
  /\ a = NoArg => c \notin NeedsArgument
  /\ asked \in IntRange
  /\ \/ c \in DriverReads /\ \E n \in settled \cup {0} : reg' = [reg EXCEPT ![r] = n]
     \/ c \notin DriverReads /\ UNCHANGED reg
  /\ last' = Ended(c, "returned", asked, IF c \in DriverWrites THEN ToInt(reg'[r]) ELSE 0)
  /\ UNCHANGED <<device, words, call>>

\* A command on a number: the driver reads the buffer, leaves its number there,
\* or both, or does neither.
NumberCommand(p) == \E c \in NumberCommands \cap device, a \in Arguments \cup {NoArg} :
  LET r == Register(c)
      asked == IF a = NoArg THEN 0 ELSE a
      settled == IF c \in DriverReads \cap DriverWrites THEN Numbers \cap RegisterRange(r) ELSE {}
  IN
  /\ call[p] = Idle
  /\ a = NoArg => c \notin NeedsArgument
  /\ asked \in IntRange
  /\ \/ c \in DriverReads /\ \E n \in settled \cup {Buffer(c, asked)} : reg' = [reg EXCEPT ![r] = n]
     \/ c \notin DriverReads /\ UNCHANGED reg
  /\ last' = Ended(c, "returned", asked,
       IF c \in DriverWrites THEN ToInt(reg'[r]) ELSE ToInt(Buffer(c, asked)))
  /\ UNCHANGED <<device, words, call>>

\* A command on a string.  The script's argument goes to a second variable of
\* the same name: the buffer the driver gets and the script is returned is the
\* empty string, as if nothing had been passed, and what a driver writes over
\* its terminator does not make it longer.
CharCommand(p) == \E c \in CharCommands \cap device :
  /\ call[p] = Idle
  /\ last' = Ended(c, "returned", NoArg, NoAnswer)
  /\ UNCHANGED <<device, reg, words, call>>

\* SIOCGSTAMP.  The microseconds are divided as an integer.
TimeCommand(p) == \E t \in Clock :
  /\ call[p] = Idle
  /\ "SIOCGSTAMP" \in device
  /\ last' = Ended("SIOCGSTAMP", "returned", NoArg, t[1] + t[2] \div Usecs)
  /\ UNCHANGED <<device, reg, words, call>>

\* TCGETS and its kind.
GetSettings(p) == \E c \in GetTermios \cap device :
  /\ call[p] = Idle
  /\ last' = Ended(c, "returned", NoArg,
       Shown(IF c = "TCGETA" THEN FilledTermio(ZeroBuffer, words["settings"])
                             ELSE Filled(ZeroBuffer, words[Word(c)])))
  /\ UNCHANGED <<device, reg, words, call>>

\* The array put over zeros although TCGETS succeeded.
ReadDefaultsZero(p) == \E c \in SetTermios \cap device, a \in Arrays, ok \in BOOLEAN :
  /\ call[p] = Idle
  /\ Parses(a)
  /\ ok => "TCGETS" \in device
  /\ call' = [call EXCEPT ![p] =
                [cmd |-> c, array |-> a, buffer |-> Merged(ZeroBuffer, a), intact |-> ok]]
  /\ last' = NoCall
  /\ UNCHANGED <<device, reg, words>>

\* TCSETS and its kind begin with TCGETS, whose result is not looked at, and put
\* the array over what it read, or over zeros.
ReadDefaults(p) == \E c \in SetTermios \cap device, a \in Arrays, ok \in BOOLEAN :
  LET defaults == IF ok THEN Filled(ZeroBuffer, words["settings"]) ELSE ZeroBuffer
  IN
  /\ call[p] = Idle
  /\ Parses(a)
  /\ ok => "TCGETS" \in device
  /\ call' = [call EXCEPT ![p] =
                [cmd |-> c, array |-> a, buffer |-> Merged(defaults, a), intact |-> ok]]
  /\ last' = NoCall
  /\ UNCHANGED <<device, reg, words>>

\* An entry of the array is no number.
DiesMerging(p) == \E c \in SetTermios, a \in Arrays :
  /\ call[p] = Idle
  /\ ~Parses(a)
  /\ last' = Ended(c, "died", NoArg, NoAnswer)
  /\ UNCHANGED <<device, reg, words, call>>

\* The calls in progress once somebody has changed a word: their defaults are
\* no longer the settings.
Overtaken(w, calls) ==
  [q \in Scripts |-> [calls[q] EXCEPT !.intact = @ /\ w # "settings"]]

\* The command itself.
WriteSettings(p) ==
  LET c == call[p].cmd
      b == call[p].buffer
      w == Word(c)
  IN
  /\ c # "none"
  /\ words' = [words EXCEPT ![w] = IF c = "TCSETA" THEN StoredTermio(@, b) ELSE Stored(b)]
  /\ call' = Overtaken(w, [call EXCEPT ![p] = Idle])
  /\ last' = Ended(c, "returned", NoArg, Shown(b))
  /\ UNCHANGED <<device, reg>>

WriteRefused(p) ==
  /\ call[p] # Idle
  /\ last' = Ended(call[p].cmd, "exception", NoArg, NoAnswer)
  /\ call' = [call EXCEPT ![p] = Idle]
  /\ UNCHANGED <<device, reg, words>>

\* The device changes a number on its own: a modem line, a new foreground group.
DeviceChanges == \E r \in Registers, n \in Numbers :
  /\ \E c \in device \cap NumberCommands : Register(c) = r
  /\ n \in RegisterRange(r)
  /\ reg' = [reg EXCEPT ![r] = n]
  /\ last' = NoCall
  /\ UNCHANGED <<device, words, call>>

\* Another program changes the settings.
OtherProgram == \E v \in Words :
  /\ GetTermios \cap device # {}
  /\ words' = [words EXCEPT !["settings"] = v]
  /\ call' = Overtaken("settings", call)
  /\ last' = NoCall
  /\ UNCHANGED <<device, reg>>

Next ==
  \/ \E p \in Scripts :
       \/ DiesParsing(p) \/ NotDefined(p) \/ ArgumentMissing(p) \/ Refused(p)
       \/ NumberCommand(p) \/ CharCommand(p) \/ TimeCommand(p) \/ GetSettings(p)
       \/ ReadDefaults(p) \/ DiesMerging(p) \/ WriteSettings(p) \/ WriteRefused(p)
  \/ DeviceChanges
  \/ OtherProgram

Spec == Init /\ [][Next]_vars

-----------------------------------------------------------------------------
(* Properties.                                                              *)

Calls == [cmd : SetTermios \cup {"none"}, array : Arrays \cup {<< >>}, buffer : Buffers, intact : BOOLEAN]

\* Numbers of the device stay in their driver's type and settings in the width
\* of tcflag_t, whatever numbers the arrays hold.
TypeOK ==
  /\ device \in Devices
  /\ DOMAIN reg = Registers /\ \A r \in Registers : reg[r] \in RegisterRange(r)
  /\ words \in [{"settings", "locks"} -> Settings]
  /\ call \in [Scripts -> Calls]
  /\ last.how \in {"returned", "exception", "died"}

\* A TCSETS changes no field that its array does not mention, if TCGETS
\* succeeded and nobody else set the port in between ("Get defaults from actual
\* values", basic.cpp:1216).
OnlyMentionedChange ==
  [][\A p \in Scripts :
       /\ WriteSettings(p) /\ call[p].cmd = "TCSETS" /\ call[p].intact
       => \A f \in Fields \ DOMAIN call[p].array :
            words'["settings"].flag[f] = words["settings"].flag[f]]_vars

\* The array TCGETS returns, as the argument of a later call.
Saved(w) ==
  LET shown == Shown(Filled(ZeroBuffer, w))
  IN  [key \in Keys |-> CASE key \in Fields -> shown.flag[key]
                           [] key = "c_line" -> shown.line
                           [] key = "c_ispeed" -> shown.ispeed
                           [] key = "c_ospeed" -> shown.ospeed]

\* A script that passes the array of an earlier TCGETS to TCSETS brings back the
\* settings of that time, whatever the port has had since and has now: std::stoi
\* takes every number of the array (basic.cpp:1220-1243) and no bit is lost on
\* the way through int.
SavedRestores ==
  [][\A w \in Words :
       /\ Parses(Saved(w))
       /\ \A p \in Scripts :
            WriteSettings(p) /\ call[p].cmd # "TCSETA" /\ call[p].array = Saved(w)
            => words'[Word(call[p].cmd)] = w]_vars

\* The numbers as the drivers keep them, without any conversion, and what the
\* script was told by the last call.
Cells == INSTANCE DeviceCells WITH
  Cells <- Registers, Tunable <- {"speed"}, Ints <- IntRange,
  Holds <- [r \in Registers |-> RegisterRange(r)],
  Modulus <- [r \in Registers |-> IF r = "ulong" THEN LongMod ELSE IntMod],
  cell <- reg,
  answer <- IF last.how = "returned" /\ last.cmd \in DriverReads \cup DriverWrites
            THEN [of |-> Register(last.cmd), asked |-> last.asked, n |-> last.answer]
            ELSE [of |-> "none", asked |-> 0, n |-> 0]

\* On the way through int, __u32 and unsigned long (basic.cpp:1026-1139) a number
\* keeps its bits: the driver has the one the script passed, sign extended to the
\* width of its own, and this script, or another, is told the int with the bits
\* the driver has, until the device changes it.  An unsigned long beyond those
\* 2^32 numbers is cut off, and of it nothing is promised.
ImplementsCells == Cells!Spec
=============================================================================
