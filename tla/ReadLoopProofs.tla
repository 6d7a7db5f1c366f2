---------------------------- MODULE ReadLoopProofs ----------------------------
(***************************************************************************)
(* io_read for every length, every end character and every way the device *)
(* cuts its bytes into answers.                                            *)
(***************************************************************************)
EXTENDS ReadLoop, SequenceTheorems, TLAPS

\* The bytes stored so far are the bytes taken, in their places, in every call
\* that appends: one that looks for an end character, or has read once.
Stored ==
  UntilEnd \/ reads <= 1 =>
    \A k \in 1 .. received : k - 1 \in 0 .. length /\ buffer[k - 1] = consumed[k]

\* A call goes on only while there is room, and has not met its end character.
Unfinished ==
  pc = "reading" =>
    /\ received < length \/ received = 0
    /\ reads = 0 <=> received = 0
    /\ UntilEnd => \A k \in 1 .. received : CharValue(consumed[k]) # EndChar

IInv ==
  /\ TypeOK
  /\ Stored
  /\ Unfinished
  /\ ReturnsWhatWasRead
  /\ TakesNoMore
  /\ CountsAll

\* The string made of a prefix of the buffer.
LEMMA TextType ==
  ASSUME NEW m \in Nat, NEW buf \in [0 .. m -> Bytes \cup {Garbage}], NEW n \in 0 .. (m + 1)
  PROVE  /\ Text(buf, n) \in Seq(Bytes \cup {Garbage})
         /\ Len(Text(buf, n)) = n
         /\ \A k \in 1 .. n : Text(buf, n)[k] = buf[k - 1]
<1>1. \A k \in 1 .. n : k - 1 \in 0 .. m
  OBVIOUS
<1>2. Text(buf, n) \in [1 .. n -> Bytes \cup {Garbage}]
  BY <1>1 DEF Text
<1> QED BY <1>2 DEF Text

\* An end character that fits is looked for, and no other byte is taken for it.
LEMMA EndIsByte ==
  ASSUME asked \in EndBytes \cup {NoEnd}, EndFits
  PROVE  UntilEnd /\ \A b \in Bytes : b = asked => CharValue(b) = EndChar
<1>1. asked # NoEnd /\ asked \in 0 .. 255 /\ (asked <= 127 \/ ~CharSigned)
  BY ReadConstants DEF EndFits
<1>2. EndChar = asked
  BY <1>1 DEF EndChar, CharValue
<1> QED BY <1>1, <1>2 DEF UntilEnd, CharValue

\* What a read(2) that returned bytes does to the call.
LEMMA AnswerStep ==
  ASSUME IInv, NEW n \in Nat \ {0}, NEW s \in [1 .. n -> Bytes], NEW at \in Nat,
         Answer(s, at), received + n <= length \/ (UntilEnd /\ received = 0),
         UntilEnd => at = received /\ n = 1,
         ~UntilEnd => at = 0
  PROVE  IInv'
<1> USE ReadConstants
<1>0. /\ s \in Seq(Bytes) /\ Len(s) = n /\ n > 0
      /\ length \in Nat /\ received \in Nat /\ reads \in Nat
      /\ consumed \in Seq(Bytes) /\ Len(consumed) = received
      /\ buffer \in [0 .. length -> Bytes \cup {Garbage}]
      /\ asked \in EndBytes \cup {NoEnd}
  BY DEF IInv, TypeOK, CountsAll
<1>1. /\ pc = "reading"
      /\ buffer' = [k \in 0 .. length |-> IF k - at \in 0 .. (n - 1) THEN s[k - at + 1]
                                                                   ELSE buffer[k]]
      /\ received' = received + n
      /\ consumed' = consumed \o s
      /\ reads' = reads + 1
      /\ length' = length /\ asked' = asked
  BY <1>0 DEF Answer
<1>2. EndChar' = EndChar /\ UntilEnd' = UntilEnd
  BY <1>1 DEF EndChar, UntilEnd
<1>3. buffer' \in [0 .. length -> Bytes \cup {Garbage}]
  <2>1. \A k \in 0 .. length : k - at \in 0 .. (n - 1) => s[k - at + 1] \in Bytes
    BY <1>0
  <2> QED BY <1>0, <1>1, <2>1
<1>4. /\ consumed' \in Seq(Bytes) /\ Len(consumed') = received'
      /\ \A k \in 1 .. received : consumed'[k] = consumed[k]
      /\ \A k \in 1 .. n : consumed'[received + k] = s[k]
  <2>1. /\ consumed \o s \in Seq(Bytes)
        /\ Len(consumed \o s) = Len(consumed) + Len(s)
    BY <1>0
  <2>2. \A k \in 1 .. Len(consumed) : (consumed \o s)[k] = consumed[k]
    BY <1>0
  <2>3. \A k \in 1 .. Len(s) : (consumed \o s)[Len(consumed) + k] = s[k]
    BY <1>0
  <2> QED BY <1>0, <1>1, <2>1, <2>2, <2>3
<1>5. received' \in 1 .. (length + 1)
  BY <1>0, <1>1
<1>6. Stored'
  <2> SUFFICES ASSUME UntilEnd \/ reads' <= 1, NEW k \in 1 .. received'
               PROVE  k - 1 \in 0 .. length /\ buffer'[k - 1] = consumed'[k]
    BY <1>1, <1>2 DEF Stored
  <2>1. k - 1 \in 0 .. length
    BY <1>0, <1>5
  <2>2. CASE UntilEnd
    <3>1. at = received /\ n = 1
      BY <2>2
    <3>2. CASE k = received + 1
      BY <1>0, <1>1, <1>4, <2>1, <3>1, <3>2
    <3>3. CASE k \in 1 .. received
      <4>1. buffer'[k - 1] = buffer[k - 1]
        BY <1>0, <1>1, <2>1, <3>1, <3>3
      <4> QED BY <1>4, <2>1, <2>2, <3>3, <4>1 DEF IInv, Stored
    <3>4. k = received + 1 \/ k \in 1 .. received
      <4>1. received \in Nat /\ received' = received + 1
        BY <1>0, <1>1, <3>1
      <4> QED BY <4>1
    <3> QED BY <3>2, <3>3, <3>4
  <2>3. CASE ~UntilEnd /\ reads = 0
    <3>1. received = 0 /\ at = 0
      BY <1>1, <2>3 DEF IInv, Unfinished
    <3>2. k \in 1 .. n /\ consumed'[k] = s[k]
      BY <1>0, <1>1, <1>4, <3>1
    <3>3. buffer'[k - 1] = s[k]
      BY <1>0, <1>1, <2>1, <3>1, <3>2
    <3> QED BY <2>1, <3>2, <3>3
  <2> QED BY <1>0, <1>1, <2>2, <2>3
<1>7. UntilEnd => /\ \A k \in 1 .. received : CharValue(consumed'[k]) # EndChar
                  /\ received' = received + 1
                  /\ buffer'[received' - 1] = consumed'[received']
  <2>1. UntilEnd => \A k \in 1 .. received : CharValue(consumed'[k]) # EndChar
    BY <1>1, <1>4 DEF IInv, Unfinished
  <2>2. UntilEnd => received' = received + 1
    BY <1>1
  <2>3. UntilEnd => buffer'[received' - 1] = consumed'[received']
    BY <1>0, <1>1, <1>4, <1>5
  <2> QED BY <2>1, <2>2, <2>3
<1>8. Complete(buffer', received') <=>
        (UntilEnd /\ CharValue(consumed'[received']) = EndChar) \/ received' >= length
  BY <1>1, <1>2, <1>7 DEF Complete
<1>9. \/ Complete(buffer', received') /\ pc' = "returned" /\ result' = Text(buffer', received')
      \/ ~Complete(buffer', received') /\ pc' = pc /\ result' = result
  BY DEF Answer
<1>10. /\ Text(buffer', received') \in Seq(Bytes \cup {Garbage})
       /\ Len(Text(buffer', received')) = received'
       /\ \A k \in 1 .. received' : Text(buffer', received')[k] = buffer'[k - 1]
  <2>1. received' \in 0 .. (length + 1)
    BY <1>0, <1>5
  <2> HIDE ReadConstants
  <2> QED BY <1>0, <1>3, <2>1, TextType
<1>11. TypeOK'
  BY <1>0, <1>1, <1>3, <1>4, <1>5, <1>9, <1>10 DEF TypeOK, IInv
<1>12. Unfinished'
  BY <1>0, <1>1, <1>2, <1>7, <1>8, <1>9 DEF Unfinished
<1>13. ReturnsWhatWasRead'
  <2> SUFFICES ASSUME pc' = "returned", UntilEnd \/ reads' <= 1 PROVE result' = consumed'
    BY <1>2 DEF ReturnsWhatWasRead
  <2>1. result' = Text(buffer', received')
    BY <1>1, <1>9
  <2>2. \A k \in 1 .. received' : result'[k] = consumed'[k]
    BY <1>2, <1>6, <1>10, <2>1 DEF Stored
  <2>3. result' \in Seq(Bytes \cup {Garbage}) /\ consumed' \in Seq(Bytes \cup {Garbage})
    BY <1>4, <1>10, <2>1
  <2> QED BY <1>4, <1>10, <2>1, <2>2, <2>3, SeqEqual
<1>14. TakesNoMore'
  <2>1. Len(consumed') <= length \/ (length = 0 /\ UntilEnd /\ Len(consumed') = 1)
    BY <1>0, <1>1, <1>4
  <2>2. ASSUME UntilEnd, NEW k \in 1 .. Len(consumed'), CharValue(consumed'[k]) = EndChar
        PROVE  k = Len(consumed') /\ pc' # "reading"
    <3>1. k = received'
      BY <1>0, <1>4, <1>7, <2>2
    <3> QED BY <1>4, <1>8, <1>9, <2>2, <3>1
  <2>3. ASSUME EndFits, NEW k \in 1 .. Len(consumed'), consumed'[k] = asked
        PROVE  k = Len(consumed') /\ pc' # "reading"
    <3>1. consumed'[k] \in Bytes
      BY <1>4
    <3>2. UntilEnd /\ CharValue(consumed'[k]) = EndChar
      BY <1>0, <2>3, <3>1, EndIsByte
    <3> QED BY <2>2, <3>2
  <2>4. EndFits' = EndFits
    BY <1>1 DEF EndFits
  <2> QED BY <1>1, <1>2, <2>1, <2>3, <2>4 DEF TakesNoMore
<1>15. CountsAll'
  BY <1>1, <1>4, <1>9, <1>10 DEF CountsAll
<1> QED BY <1>6, <1>11, <1>12, <1>13, <1>14, <1>15 DEF IInv

\* What ends a call without more bytes, or starts one.
THEOREM Invariance == Spec => []IInv
<1> USE ReadConstants
<1>1. Init => IInv
  <2> SUFFICES ASSUME Init PROVE IInv
    OBVIOUS
  <2>1. /\ pc = "idle" /\ length = 0 /\ asked = NoEnd /\ received = 0 /\ reads = 0
        /\ result = <<>> /\ consumed = <<>>
        /\ buffer \in [0 .. 0 -> Bytes \cup {Garbage}]
    BY DEF Init
  <2>2. TypeOK
    BY <2>1 DEF TypeOK
  <2> QED BY <2>1, <2>2
          DEF IInv, Stored, Unfinished, ReturnsWhatWasRead, TakesNoMore, CountsAll
<1>2. IInv /\ [Next]_vars => IInv'
  <2> SUFFICES ASSUME IInv, [Next]_vars PROVE IInv'
    OBVIOUS
  <2>0. /\ length \in Nat /\ received \in Nat /\ consumed \in Seq(Bytes)
        /\ buffer \in [0 .. length -> Bytes \cup {Garbage}]
        /\ Len(consumed) = received
    BY DEF IInv, TypeOK, CountsAll
  <2>1. ASSUME NEW len \in Lengths, NEW end \in EndBytes \cup {NoEnd}, IoRead(len, end)
        PROVE  IInv'
    <3>1. /\ pc' = "reading" /\ length' = len /\ asked' = end /\ len \in Nat
          /\ received' = 0 /\ reads' = 0 /\ result' = <<>> /\ consumed' = <<>>
          /\ buffer' \in [0 .. len -> Bytes \cup {Garbage}]
      BY <2>1 DEF IoRead
    <3>2. TypeOK'
      BY <3>1 DEF TypeOK
    <3> QED BY <3>1, <3>2
            DEF IInv, Stored, Unfinished, ReturnsWhatWasRead, TakesNoMore, CountsAll
  <2>2. CASE ReadByte
    <3>1. PICK b \in Bytes : Answer(<<b>>, received)
      BY <2>2 DEF ReadByte
    <3>2. UntilEnd /\ pc = "reading"
      BY <2>2, <3>1 DEF ReadByte, Answer
    <3>3. received + 1 <= length \/ received = 0
      BY <2>0, <3>2 DEF IInv, Unfinished
    <3>4. <<b>> \in [1 .. 1 -> Bytes] /\ 1 \in Nat \ {0}
      OBVIOUS
    <3> DEFINE s == <<b>>
    <3>5. Answer(s, received) /\ s \in [1 .. 1 -> Bytes]
      BY <3>1, <3>4
    <3> HIDE DEF s
    <3> QED BY <2>0, <3>2, <3>3, <3>4, <3>5, AnswerStep
  <2>3. CASE ReadChunk
    <3>1. PICK n \in 1 .. (length - received) : \E s \in [1 .. n -> Bytes] : Answer(s, 0)
      BY <2>3 DEF ReadChunk
    <3>2. PICK s \in [1 .. n -> Bytes] : Answer(s, 0)
      BY <3>1
    <3>3. n \in Nat \ {0} /\ received + n <= length /\ ~UntilEnd
      BY <2>0, <2>3 DEF ReadChunk
    <3> QED BY <3>2, <3>3, AnswerStep
  <2>4. CASE ReadNothing
    <3>1. /\ pc' = "returned" /\ result' = Text(buffer, received)
          /\ UNCHANGED <<length, asked, buffer, received, consumed, reads>>
      BY <2>4 DEF ReadNothing
    <3>2. received \in 0 .. (length + 1)
      BY <2>0 DEF IInv, TypeOK
    <3>3. /\ Text(buffer, received) \in Seq(Bytes \cup {Garbage})
          /\ Len(Text(buffer, received)) = received
          /\ \A k \in 1 .. received : Text(buffer, received)[k] = buffer[k - 1]
      BY <2>0, <3>2, TextType
    <3>4. TypeOK'
      BY <3>1, <3>3 DEF IInv, TypeOK
    <3>5. Stored' /\ Unfinished'
      BY <3>1 DEF IInv, Stored, Unfinished, UntilEnd, EndChar
    <3>6. ReturnsWhatWasRead'
      <4> SUFFICES ASSUME UntilEnd' \/ reads' <= 1 PROVE result' = consumed'
        BY DEF ReturnsWhatWasRead
      <4>1. \A k \in 1 .. received : result'[k] = consumed[k]
        BY <3>1, <3>3 DEF IInv, Stored, UntilEnd, EndChar
      <4>2. consumed \in Seq(Bytes \cup {Garbage})
        BY <2>0
      <4> QED BY <2>0, <3>1, <3>3, <4>1, <4>2, SeqEqual
    <3>7. TakesNoMore' /\ CountsAll'
      BY <3>1, <3>3 DEF IInv, TakesNoMore, CountsAll, UntilEnd, EndChar, EndFits
    <3> QED BY <3>4, <3>5, <3>6, <3>7 DEF IInv
  <2>5. CASE ReadFails
    BY <2>5 DEF ReadFails, IInv, TypeOK, Stored, Unfinished, ReturnsWhatWasRead,
                TakesNoMore, CountsAll, UntilEnd, EndChar, EndFits
  <2>6. CASE UNCHANGED vars
    BY <2>6 DEF vars, IInv, TypeOK, Stored, Unfinished, ReturnsWhatWasRead,
                TakesNoMore, CountsAll, UntilEnd, EndChar, EndFits
  <2> QED BY <2>1, <2>2, <2>3, <2>4, <2>5, <2>6 DEF Next
<1> QED BY <1>1, <1>2, PTL DEF Spec

\* The variables keep their types, whatever the device answers; the count stays
\* within the buffer of length + 1 bytes.
THEOREM TypeCorrect == Spec => []TypeOK
<1>1. IInv => TypeOK
  BY DEF IInv
<1> QED BY <1>1, Invariance, PTL

\* A call that looks for an end character, or is served at once, returns
\* exactly what the device sent.
THEOREM MessageIntact == Spec => []ReturnsWhatWasRead
<1>1. IInv => ReturnsWhatWasRead
  BY DEF IInv
<1> QED BY <1>1, Invariance, PTL

\* What follows the message stays in the device for the next call: behind the
\* length, except that length 0 with an end character takes one byte, and behind
\* an end character that is no negative char.
THEOREM NothingBehindTaken == Spec => []TakesNoMore
<1>1. IInv => TakesNoMore
  BY DEF IInv
<1> QED BY <1>1, Invariance, PTL

\* As many bytes are returned as the device sent.
THEOREM CountIsRight == Spec => []CountsAll
<1>1. IInv => CountsAll
  BY DEF IInv
<1> QED BY <1>1, Invariance, PTL
=============================================================================
