---------------------------- MODULE SerialSettings ----------------------------
(***************************************************************************)
(* io_set_serial (basic.cpp): it reads the settings of a serial port,      *)
(* changes its copy token by token and writes the copy back, while another *)
(* program may configure the same port.                                    *)
(*                                                                         *)
(* The settings are a record: the set of flags that are 1, the bits of a   *)
(* word (CSIZE), the speed, VMIN and VTIME.  A token is what the code sees *)
(* of it: the number atoi makes of it, and its first letter in lower case. *)
(***************************************************************************)
EXTENDS Integers, Sequences

CONSTANTS Tokens,       \* the tokens of the scripts' settings
          Settings,     \* the sequences of tokens they pass
          Timeouts,     \* the third arguments, in tenths of a second
          NoTimeout,    \* no third argument
          Ports         \* what other programs set a port to

\* What cfmakeraw clears, besides CSIZE.
RawClears == {"IGNBRK", "BRKINT", "PARMRK", "ISTRIP", "INLCR", "IGNCR", "ICRNL",
              "IXON", "OPOST", "ECHO", "ECHONL", "ICANON", "ISIG", "IEXTEN", "PARENB"}

Flags == RawClears \cup {"IXOFF", "PARODD", "CMSPAR", "CSTOPB", "CRTSCTS", "CLOCAL", "CREAD"}

\* The keys of dataSpeed that a token can reach.
Speeds == {50, 75, 110, 134, 150, 200, 300, 600, 1200, 1800, 2400, 4800, 9600,
  19200, 38400, 57600, 115200, 230400, 460800, 500000, 576000, 921600, 1000000,
  1152000, 1500000, 2000000, 2500000, 3000000, 3500000, 4000000}

Letters == {"n", "e", "o", "s", "m", "x", "h", "l"}

\* Even parity without the odd bit cleared.
ClearsNoOdd == [n |-> {"PARENB"}, e |-> {}, o |-> {}, s |-> {"PARODD"},
                m |-> {}, x |-> {}, h |-> {}, l |-> {}]

\* What the switch on the first letter clears and sets in the flags.
Clears == [n |-> {"PARENB"}, e |-> {"PARODD"}, o |-> {}, s |-> {"PARODD"},
           m |-> {}, x |-> {}, h |-> {}, l |-> {}]

Sets == [n |-> {}, e |-> {"PARENB"}, o |-> {"PARENB", "PARODD"}, s |-> {"CMSPAR"},
         m |-> {"CMSPAR", "PARODD"}, x |-> {"IXON", "IXOFF"}, h |-> {"CRTSCTS"}, l |-> {}]

Attributes == [flags : SUBSET Flags, bits : 5 .. 8, speed : Speeds \cup {0},
               vmin : 0 .. 255, vtime : 0 .. 255]

ASSUME SerialConstants ==
  /\ Tokens \subseteq [num : Nat, letter : STRING \ {"speed", "bits", "ignored", "stopBits"}]
  /\ Settings \subseteq Seq(Tokens)
  /\ Timeouts \subseteq Int
  /\ NoTimeout \notin Int
  /\ Ports \subseteq Attributes

VARIABLES
  port, modem,          \* the device: its attributes, and whether it loops back
  pc,                   \* the next system call, or how the last io_set_serial ended
  settings, timeout,    \* the arguments
  k,                    \* the tokens done
  word,                 \* termio_struct
  lines, noLoop,        \* modem_control_bits, no_loopback
  serial,               \* the array returned
  before,               \* history: the attributes the call has read
  wrote                 \* history: what the call has written

local == <<settings, timeout, word, lines, noLoop, before>>
vars == <<port, modem, pc, k, serial, wrote, local>>

NoReport == [speed |-> 0, bits |-> 0, stopBits |-> 0, parity |-> "unset",
             xon |-> FALSE, hw |-> FALSE, loop |-> "unset"]

\* What memset makes of a termios structure.
Zero == [flags |-> {}, bits |-> 5, speed |-> 0, vmin |-> 0, vtime |-> 0]

Init ==
  /\ port \in Ports /\ modem = {}
  /\ pc = "idle"
  /\ settings = <<>> /\ timeout = NoTimeout
  /\ k = 0
  /\ word = Zero /\ before = port
  /\ lines = {} /\ noLoop = FALSE
  /\ serial = NoReport
  /\ wrote = {}

-----------------------------------------------------------------------------
(* What the code makes of a token.                                          *)

\* A word length from 3 on.
KindFromThree(t) ==
  IF t.num > 8 THEN "speed"
  ELSE IF t.num > 2 THEN "bits"
  ELSE IF t.num > 0 THEN "stopBits"
  ELSE t.letter

Kind(t) ==
  IF t.num > 8 THEN "speed"
  ELSE IF t.num > 4 THEN "bits"
  ELSE IF t.num > 2 THEN "ignored"
  ELSE IF t.num > 0 THEN "stopBits"
  ELSE t.letter

\* The tokens that end the call: a speed that is not in the table, a word that
\* does not begin with a letter of the switch.
Refused(t) ==
  CASE Kind(t) = "speed" -> t.num \notin Speeds
    [] Kind(t) \in {"bits", "stopBits", "ignored"} -> FALSE
    [] OTHER -> t.letter \notin Letters

\* Parity cleared before it is set, in the flags only.
WithTokenClearing(w, t) ==
  CASE Kind(t) = "speed"    -> [w EXCEPT !.speed = t.num]
    [] Kind(t) = "bits"     -> [w EXCEPT !.bits = t.num]
    [] Kind(t) = "stopBits" -> IF t.num = 2 THEN [w EXCEPT !.flags = @ \cup {"CSTOPB"}] ELSE w
    [] Kind(t) = "ignored"  -> w
    [] OTHER -> [w EXCEPT !.flags = (@ \ {"PARENB", "PARODD"}) \cup Sets[t.letter]]

\* termio_struct after a token.
WithToken(w, t) ==
  CASE Kind(t) = "speed"    -> [w EXCEPT !.speed = t.num]
    [] Kind(t) = "bits"     -> [w EXCEPT !.bits = t.num]
    [] Kind(t) = "stopBits" -> IF t.num = 2 THEN [w EXCEPT !.flags = @ \cup {"CSTOPB"}] ELSE w
    [] Kind(t) = "ignored"  -> w
    [] OTHER -> [w EXCEPT !.flags = (@ \ Clears[t.letter]) \cup Sets[t.letter]]

ParityName == [n |-> "None", e |-> "Even", o |-> "Odd", s |-> "Space", m |-> "Mark"]

\* The returned array after a token.
Reported(r, t, noLoopback) ==
  CASE Kind(t) = "speed"    -> [r EXCEPT !.speed = t.num]
    [] Kind(t) = "bits"     -> [r EXCEPT !.bits = t.num]
    [] Kind(t) = "stopBits" -> [r EXCEPT !.stopBits = t.num]
    [] Kind(t) \in {"n", "e", "o", "s", "m"} -> [r EXCEPT !.parity = ParityName[t.letter]]
    [] Kind(t) = "x" -> [r EXCEPT !.xon = TRUE]
    [] Kind(t) = "h" -> [r EXCEPT !.hw = TRUE]
    [] Kind(t) = "l" -> [r EXCEPT !.loop = IF noLoopback THEN "no TIOCMGET" ELSE "Loopback"]
    [] OTHER -> r

\* The copy before the tokens: raw mode, 8 bits, one stop bit, no hardware flow
\* control.  cfmakeraw sets VMIN and VTIME too.  A timeout is cut to 8 bits.
Prepared(a, tenths) ==
  [flags |-> (a.flags \ (RawClears \cup {"CSTOPB", "CRTSCTS"})) \cup {"CLOCAL", "CREAD"},
   bits |-> 8,
   speed |-> a.speed,
   vmin |-> IF tenths = NoTimeout THEN 1 ELSE 0,
   vtime |-> IF tenths = NoTimeout THEN 0 ELSE tenths % 256]

-----------------------------------------------------------------------------
(* The call.                                                                *)

SetSerial(s, tenths) ==
  /\ pc \in {"idle", "returned", "thrown"}
  /\ pc' = "TCGETS"
  /\ settings' = s /\ timeout' = tenths
  /\ k' = 0
  /\ serial' = NoReport
  /\ wrote' = {}
  /\ word' = Zero /\ before' = port
  /\ lines' = {} /\ noLoop' = FALSE
  /\ UNCHANGED <<port, modem>>

\* A system call fails and the exception is thrown.
Throws(at) ==
  /\ pc = at
  /\ pc' = "thrown"
  /\ UNCHANGED <<port, modem, k, serial, wrote, local>>

ReadAttributes ==
  /\ pc = "TCGETS"
  /\ pc' = "TIOCMGET"
  /\ before' = port
  /\ word' = Prepared(port, timeout)
  /\ UNCHANGED <<port, modem, k, serial, wrote, settings, timeout, lines, noLoop>>

\* The modem lines, of which only the loop is modelled; it is cleared.  A port
\* that has none is remembered.
ReadModem ==
  /\ pc = "TIOCMGET"
  /\ pc' = "tokens"
  /\ \/ noLoop' = FALSE /\ lines' = modem \ {"LOOP"}
     \/ noLoop' = TRUE /\ lines' = {}
  /\ UNCHANGED <<port, modem, k, serial, wrote, settings, timeout, word, before>>

\* One iteration of the loop over the tokens.
ApplyToken ==
  /\ pc = "tokens" /\ k < Len(settings)
  /\ ~Refused(settings[k + 1])
  /\ k' = k + 1
  /\ word' = WithToken(word, settings[k + 1])
  /\ serial' = Reported(serial, settings[k + 1], noLoop)
  /\ lines' = IF Kind(settings[k + 1]) = "l" /\ ~noLoop THEN lines \cup {"LOOP"} ELSE lines
  /\ UNCHANGED <<port, modem, pc, wrote, settings, timeout, noLoop, before>>

\* A token is refused: the exception is thrown from inside the loop.
RefuseToken ==
  /\ pc = "tokens" /\ k < Len(settings)
  /\ Refused(settings[k + 1])
  /\ pc' = "thrown"
  /\ UNCHANGED <<port, modem, k, serial, wrote, local>>

\* The modem lines written while there are tokens left.
WriteModemEarly ==
  /\ pc = "tokens"
  /\ ~noLoop /\ modem' = lines
  /\ wrote' = wrote \cup {"modem"}
  /\ pc' = IF k = Len(settings) THEN "TCSETS" ELSE "tokens"
  /\ UNCHANGED <<port, k, serial, local>>

\* TIOCMSET writes back the lines that were read; its failure is only reported.
WriteModem ==
  /\ pc = "tokens" /\ k = Len(settings)
  /\ pc' = "TCSETS"
  /\ \/ noLoop /\ UNCHANGED <<modem, serial, wrote>>
     \/ /\ ~noLoop
        /\ modem' = lines
        /\ wrote' = wrote \cup {"modem"}
        /\ UNCHANGED serial
     \/ /\ ~noLoop
        /\ serial' = [serial EXCEPT !.loop = "no TIOCMSET"]
        /\ UNCHANGED <<modem, wrote>>
  /\ UNCHANGED <<port, k, local>>

\* tcsetattr writes the copy, and the array is returned.
WriteAttributes ==
  /\ pc = "TCSETS"
  /\ pc' = "returned"
  /\ port' = word
  /\ wrote' = wrote \cup {"attributes"}
  /\ UNCHANGED <<modem, k, serial, local>>

\* Another program configures the port at any time.
OtherProgram ==
  /\ port' \in Ports
  /\ UNCHANGED <<modem, pc, k, serial, wrote, local>>

Next ==
  \/ \E s \in Settings, tenths \in Timeouts \cup {NoTimeout} : SetSerial(s, tenths)
  \/ Throws("TCGETS")
  \/ ReadAttributes
  \/ ReadModem
  \/ ApplyToken
  \/ RefuseToken
  \/ WriteModem
  \/ WriteAttributes
  \/ Throws("TCSETS")
  \/ OtherProgram

Spec == Init /\ [][Next]_vars

-----------------------------------------------------------------------------
(* What the first n tokens of s mean, without the loop.                     *)

\* The last of them of a kind in K is of a kind in T.
LastOf(s, n, K, T) ==
  \E m \in 1 .. n : Kind(s[m]) \in K \cap T /\ \A j \in (m + 1) .. n : Kind(s[j]) \notin K

Occurs(s, n, K) == \E m \in 1 .. n : Kind(s[m]) \in K

\* The last of the kind has this number; without one it is one of the defaults.
LastNumber(s, n, kind, number, defaults) ==
  IF Occurs(s, n, {kind})
  THEN \E m \in 1 .. n : /\ Kind(s[m]) = kind /\ s[m].num = number
                         /\ \A j \in (m + 1) .. n : Kind(s[j]) # kind
  ELSE number \in defaults

\* The flag is set when one of K occurs, and otherwise it may be left over from
\* the attributes a, never new.
SetOrLeft(flag, w, a, s, n, K) ==
  /\ Occurs(s, n, K) => flag \in w.flags
  /\ flag \in w.flags => flag \in a.flags \/ Occurs(s, n, K)

ParityMeans(w, a, s, n) ==
  /\ "PARENB" \in w.flags <=> LastOf(s, n, {"n", "e", "o"}, {"e", "o"})
  /\ Occurs(s, n, {"e", "o", "s", "m"}) =>
       ("PARODD" \in w.flags <=> LastOf(s, n, {"e", "o", "s", "m"}, {"o", "m"}))
  /\ SetOrLeft("CMSPAR", w, a, s, n, {"s", "m"})

LineMeans(w, a, s, n) ==
  /\ "CSTOPB" \in w.flags <=> \E m \in 1 .. n : s[m].num = 2
  /\ "CRTSCTS" \in w.flags <=> Occurs(s, n, {"h"})
  /\ "IXON" \in w.flags <=> Occurs(s, n, {"x"})
  /\ SetOrLeft("IXOFF", w, a, s, n, {"x"})
  /\ {"CLOCAL", "CREAD"} \subseteq w.flags
  /\ w.flags \cap (RawClears \ {"PARENB", "IXON"}) = {}

NumbersMean(w, a, s, n) ==
  /\ LastNumber(s, n, "speed", w.speed, {9600, a.speed})
  /\ LastNumber(s, n, "bits", w.bits, {8})

Means(w, a, s, n) == ParityMeans(w, a, s, n) /\ LineMeans(w, a, s, n) /\ NumbersMean(w, a, s, n)

-----------------------------------------------------------------------------
(* Properties                                                               *)

Calls == {"idle", "TCGETS", "TIOCMGET", "tokens", "TCSETS", "returned", "thrown"}

Reports == [speed : Speeds \cup {0}, bits : {0} \cup 5 .. 8, stopBits : 0 .. 2,
            parity : {"unset", "None", "Even", "Odd", "Space", "Mark"},
            xon : BOOLEAN, hw : BOOLEAN,
            loop : {"unset", "Loopback", "no TIOCMGET", "no TIOCMSET"}]

TypeOK ==
  /\ port \in Attributes /\ word \in Attributes /\ before \in Attributes
  /\ modem \in SUBSET {"LOOP"} /\ lines \in SUBSET {"LOOP"}
  /\ pc \in Calls
  /\ settings \in Seq(Tokens) /\ timeout \in Timeouts \cup {NoTimeout}
  /\ k \in 0 .. Len(settings)
  /\ noLoop \in BOOLEAN
  /\ serial \in Reports
  /\ wrote \in SUBSET {"modem", "attributes"}

\* When io_set_serial returns, the port has what the string asks for, in
\* whatever order and however often: the last speed and word length, a second
\* stop bit once one was asked for, the last kind of parity, flow control.  Where
\* the string says nothing the port is raw with 8 bits, no parity bit, one stop
\* bit and no hardware flow control.  Not promised is the rest of what lines
\* 517-524 document, which the code does not keep (DocumentedDefaults): where no
\* speed is mentioned it may be 9600 or what it was, and a stick bit or software
\* flow control of the input may be left from an earlier call, but never come
\* from nowhere.  A timeout that VTIME can hold is kept.
PortSetAsAsked ==
  [][pc = "TCSETS" /\ pc' = "returned" =>
       /\ Means(port', before, settings, Len(settings))
       /\ timeout = NoTimeout => port'.vmin = 1
       /\ timeout \in 0 .. 255 => port'.vmin = 0 /\ port'.vtime = timeout]_vars

\* A call that throws leaves the attributes of the port alone, and one whose
\* string is refused anywhere, at the last token even, leaves the modem lines
\* alone too.
FailureHarmless ==
  /\ pc = "thrown" => "attributes" \notin wrote
  /\ (\E n \in 1 .. Len(settings) : Refused(settings[n])) => wrote = {}

\* The array that is returned says what the port is given, in both directions: an
\* entry stands for bits that are set and, where it is missing, for 8 bits, one
\* stop bit, no parity and no flow control of the output.  The code
\* departs from that in four cases, and in nothing else: a "1" is reported although
\* an earlier "2" holds, "Even" and "Odd" have the stick bit when it was there before
\* or a word asked for it, "Space" and "Mark" have a parity bit only if the string
\* asks for one too, and IXOFF may be left over.
ReportTrue ==
  pc = "returned" =>
    /\ serial.speed # 0 => word.speed = serial.speed
    /\ word.bits = IF serial.bits = 0 THEN 8 ELSE serial.bits
    /\ serial.stopBits = 2 => "CSTOPB" \in word.flags
    /\ "CSTOPB" \in word.flags => \E n \in 1 .. Len(settings) : settings[n].num = 2
    /\ serial.xon <=> "IXON" \in word.flags
    /\ serial.xon => "IXOFF" \in word.flags
    /\ serial.hw <=> "CRTSCTS" \in word.flags
    /\ serial.parity \in {"unset", "None"} => "PARENB" \notin word.flags
    /\ serial.parity \in {"Even", "Odd"} => "PARENB" \in word.flags
    /\ serial.parity \in {"Even", "Space"} => "PARODD" \notin word.flags
    /\ serial.parity \in {"Odd", "Mark"} => "PARODD" \in word.flags
    /\ serial.parity \in {"Space", "Mark"} =>
         /\ "CMSPAR" \in word.flags
         /\ "PARENB" \in word.flags <=>
              LastOf(settings, Len(settings), {"n", "e", "o"}, {"e", "o"})
    /\ "CMSPAR" \in word.flags =>
         "CMSPAR" \in before.flags \/ Occurs(settings, Len(settings), {"s", "m"})
    /\ serial.loop = "Loopback" => "LOOP" \in lines /\ "modem" \in wrote

-----------------------------------------------------------------------------
(* What the comment above io_set_serial says, and the code does not do.     *)

\* "Values that are not specified are set to defaults" (basic.cpp:517-524): 9600
\* baud, 8 bits, one stop bit, no parity, no flow control, no loop back.
DocumentedDefaults ==
  LET Asked(K) == Occurs(settings, Len(settings), K) IN
  pc = "returned" =>
    /\ ~Asked({"speed"}) => word.speed = 9600
    /\ ~Asked({"bits"}) => word.bits = 8
    /\ ~Asked({"stopBits"}) => "CSTOPB" \notin word.flags
    /\ ~Asked({"e", "o", "s", "m"}) => "PARENB" \notin word.flags
    /\ ~Asked({"x"}) => word.flags \cap {"IXON", "IXOFF"} = {}
    /\ ~Asked({"h"}) => "CRTSCTS" \notin word.flags
    /\ ~Asked({"l"}) => "LOOP" \notin lines
=============================================================================
