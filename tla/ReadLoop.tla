------------------------------ MODULE ReadLoop ------------------------------
(***************************************************************************)
(* io_read (basic.cpp): the loop around read(2) that collects a message of *)
(* at most length bytes, or up to an end character.  The device answers    *)
(* every read(2) as it likes: with some bytes, with none (end of file, or  *)
(* a serial port whose timeout ran out), with an error, or not at all.     *)
(***************************************************************************)
EXTENDS Integers, Sequences

CONSTANTS Bytes,          \* the bytes the device sends
          Lengths,        \* the lengths the scripts ask for
          EndBytes,       \* the end characters they ask for
          NoEnd,          \* no third argument, or an empty one
          Garbage,        \* what new char[] has not initialised
          CharSigned      \* whether the compiler's char is signed (it is on x86)

ASSUME ReadConstants ==
  /\ Bytes \subseteq 0 .. 255
  /\ EndBytes \subseteq 0 .. 255
  /\ NoEnd \notin EndBytes
  /\ Garbage \notin Bytes
  /\ Lengths \subseteq Nat
  /\ CharSigned \in BOOLEAN

VARIABLES
  pc,         \* "idle", "reading", or how the last call ended
  length, asked,      \* the arguments
  buffer,     \* char[length + 1]
  received,   \* recieved_chars
  result,     \* the string returned
  consumed,   \* history: what the device handed over during the call
  reads       \* history: how many read(2) of the call returned bytes

vars == <<pc, length, asked, buffer, received, result, consumed, reads>>

\* The int a char is promoted to.
CharValue(b) == IF CharSigned /\ b > 127 THEN b - 256 ELSE b

\* The local end_char: -1 stands for none, and so does every negative value.
EndChar == IF asked = NoEnd THEN -1 ELSE CharValue(asked)
UntilEnd == EndChar >= 0

\* std::string(buffer, n), for the first n bytes of a buffer.
Text(buf, n) == [k \in 1 .. n |-> buf[k - 1]]

Init ==
  /\ pc = "idle"
  /\ length = 0 /\ asked = NoEnd
  /\ buffer = [k \in 0 .. 0 |-> Garbage]
  /\ received = 0 /\ reads = 0
  /\ result = <<>> /\ consumed = <<>>

\* recieved_chars kept from the call before.
IoReadKeepsCount(len, end) ==
  /\ pc # "reading"
  /\ pc' = "reading"
  /\ length' = len /\ asked' = end
  /\ buffer' = [k \in 0 .. len |-> Garbage]
  /\ reads' = 0
  /\ result' = <<>> /\ consumed' = <<>>
  /\ UNCHANGED received

\* A script calls io_read.
IoRead(len, end) ==
  /\ pc # "reading"
  /\ pc' = "reading"
  /\ length' = len /\ asked' = end
  /\ buffer' = [k \in 0 .. len |-> Garbage]
  /\ received' = 0 /\ reads' = 0
  /\ result' = <<>> /\ consumed' = <<>>

\* The end character not looked at.
CompleteAtLength(buf, n) == n >= length

\* With n bytes received, the end character or the length is reached.
Complete(buf, n) ==
  \/ UntilEnd /\ CharValue(buf[n - 1]) = EndChar
  \/ n >= length

\* read(2) stores the bytes s from position at on; the call returns when the
\* end character or the length is reached.
Answer(s, at) ==
  /\ pc = "reading"
  /\ buffer' = [k \in 0 .. length |-> IF k - at \in 0 .. (Len(s) - 1) THEN s[k - at + 1]
                                                                ELSE buffer[k]]
  /\ received' = received + Len(s)
  /\ consumed' = consumed \o s
  /\ reads' = reads + 1
  /\ \/ /\ Complete(buffer', received')
        /\ pc' = "returned"
        /\ result' = Text(buffer', received')
     \/ /\ ~Complete(buffer', received')
        /\ UNCHANGED <<pc, result>>
  /\ UNCHANGED <<length, asked>>

\* Looking for the end character, one byte at a time, each after the last.
ReadByte == UntilEnd /\ \E b \in Bytes : Answer(<<b>>, received)

\* A read(2) for the whole length every time.
ReadChunkWhole ==
  /\ ~UntilEnd
  /\ \E n \in 1 .. length : \E s \in [1 .. n -> Bytes] : Answer(s, 0)

\* Otherwise as many bytes as are still missing, or fewer, stored from the
\* start of the buffer every time.
ReadChunk ==
  /\ ~UntilEnd
  /\ \E n \in 1 .. (length - received) : \E s \in [1 .. n -> Bytes] : Answer(s, 0)

\* The loop going on after read(2) has returned 0.
ReadNothingAgain == pc = "reading" /\ UNCHANGED vars

\* read(2) returning 0 taken for an empty message.
ReadNothingDiscards ==
  /\ pc = "reading"
  /\ pc' = "returned"
  /\ UNCHANGED <<length, asked, buffer, received, result, consumed, reads>>

\* read(2) returns 0: end of file, a timeout, or nothing was asked for.
ReadNothing ==
  /\ pc = "reading"
  /\ pc' = "returned"
  /\ result' = Text(buffer, received)
  /\ UNCHANGED <<length, asked, buffer, received, consumed, reads>>

\* The -1 of a failed read(2) added to recieved_chars before it is looked at.
ReadFailsCounted ==
  /\ pc = "reading"
  /\ pc' = "thrown"
  /\ received' = received - 1
  /\ UNCHANGED <<length, asked, buffer, result, consumed, reads>>

\* read(2) fails: the exception takes the bytes read before with it.
ReadFails ==
  /\ pc = "reading"
  /\ pc' = "thrown"
  /\ UNCHANGED <<length, asked, buffer, received, result, consumed, reads>>

Next ==
  \/ \E len \in Lengths, end \in EndBytes \cup {NoEnd} : IoRead(len, end)
  \/ ReadByte
  \/ ReadChunk
  \/ ReadNothing
  \/ ReadFails

Spec == Init /\ [][Next]_vars

\* The device keeps answering, with bytes or with none as it chooses.
FairSpec == Spec /\ WF_vars(ReadByte \/ ReadChunk \/ ReadNothing)

-----------------------------------------------------------------------------
(* Properties                                                               *)

TypeOK ==
  /\ pc \in {"idle", "reading", "returned", "thrown"}
  /\ length \in Nat
  /\ asked \in EndBytes \cup {NoEnd}
  /\ buffer \in [0 .. length -> Bytes \cup {Garbage}]
  /\ received \in 0 .. (length + 1) /\ reads \in Nat
  /\ consumed \in Seq(Bytes)
  /\ result \in Seq(Bytes \cup {Garbage})

\* What is returned is what the device sent, byte for byte and complete, when
\* the call looks for an end character or needed a single read(2).
ReturnsWhatWasRead ==
  pc = "returned" /\ (UntilEnd \/ reads <= 1) => result = consumed

\* An end character the compiler's char keeps as it is.
EndFits == asked # NoEnd /\ (asked <= 127 \/ ~CharSigned)

\* Nothing behind the message is taken from the device, whatever way its answers
\* are cut: no more than length bytes, and none behind the end character.  Two
\* cases the code does not handle are left out by name: an end character that is
\* negative as a char (EndFits), and a length of 0 with an end character, for
\* which one byte is taken all the same (basic.cpp:437, 442-474).
TakesNoMore ==
  /\ Len(consumed) <= length \/ (length = 0 /\ UntilEnd /\ Len(consumed) = 1)
  /\ EndFits => \A k \in 1 .. Len(consumed) :
       consumed[k] = asked => k = Len(consumed) /\ pc # "reading"

\* The number of bytes is right even where the bytes are not: as many as the
\* device sent are returned.
CountsAll == received = Len(consumed) /\ (pc = "returned" => Len(result) = received)

\* A device that keeps answering ends the call.
CallReturns == pc = "reading" ~> pc # "reading"

-----------------------------------------------------------------------------
(* What the comment above io_read says, and the code does not do.           *)

\* "a sting with the charakters read" (basic.cpp:390), for every call.
AlwaysWhatWasRead == pc = "returned" => result = consumed
=============================================================================
