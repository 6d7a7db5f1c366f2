------------------------------ MODULE Tokenizer ------------------------------
(***************************************************************************)
(* Tokenize (common.cpp): the loop that cuts a string at delimiters, with  *)
(* its two positions.  Positions count from 0 as in the code; npos is      *)
(* larger than any of them, and the searches and substr take it as they    *)
(* take any other number.                                                  *)
(***************************************************************************)
EXTENDS Integers, Sequences

CONSTANTS Chars,      \* the characters of a string
          Delims,     \* the delimiters, " ,:;-/+" where io_set_serial calls
          Strings,    \* the strings it passes
          Npos        \* string::npos

ASSUME TokenizerConstants ==
  /\ Delims \subseteq Chars
  /\ Strings \subseteq Seq(Chars)
  /\ Npos \in Nat
  /\ \A s \in Strings : Len(s) < Npos

VARIABLES
  str,        \* the string
  lastPos,    \* where the next token begins
  pos,        \* where it ends
  tokens,     \* the vector the caller passes
  starts      \* history: where the tokens began

vars == <<str, lastPos, pos, tokens, starts>>

\* The first position from "from" on whose character is in S.
FindFirst(s, S, from) ==
  LET hits == {k \in from .. (Len(s) - 1) : s[k + 1] \in S}
  IN  IF hits = {} THEN Npos ELSE CHOOSE k \in hits : \A j \in hits : k <= j

FindFirstOf(s, from) == FindFirst(s, Delims, from)
FindFirstNotOf(s, from) == FindFirst(s, Chars \ Delims, from)

\* At most count characters; substr throws for a "from" past the end.
Substr(s, from, count) ==
  SubSeq(s, from + 1, IF from + count < Len(s) THEN from + count ELSE Len(s))

\* The search for the end of the first token started at 0.
FirstEndFromZero(s) == FindFirstOf(s, 0)

\* The positions before the loop.
FirstStart(s) == FindFirstNotOf(s, 0)

FirstEnd(s) == FindFirstOf(s, FirstStart(s))

Init ==
  /\ str \in Strings
  /\ lastPos = FirstStart(str)
  /\ pos = FirstEnd(str)
  /\ tokens = <<>> /\ starts = <<>>

\* The loop left when either position is npos.
SearchingBoth == pos # Npos /\ lastPos # Npos

\* The loop's condition.
Searching == pos # Npos \/ lastPos # Npos

\* The next token looked for from the beginning of this one.
PushTokenStays ==
  /\ Searching
  /\ tokens' = Append(tokens, Substr(str, lastPos, pos - lastPos))
  /\ starts' = Append(starts, lastPos)
  /\ lastPos' = FindFirstNotOf(str, lastPos)
  /\ pos' = FindFirstOf(str, lastPos')
  /\ UNCHANGED str

\* substr's second argument taken for the end.
PushTokenToEnd ==
  /\ Searching
  /\ tokens' = Append(tokens, Substr(str, lastPos, pos))
  /\ starts' = Append(starts, lastPos)
  /\ lastPos' = FindFirstNotOf(str, pos)
  /\ pos' = FindFirstOf(str, lastPos')
  /\ UNCHANGED str

\* One iteration.
PushToken ==
  /\ Searching
  /\ tokens' = Append(tokens, Substr(str, lastPos, pos - lastPos))
  /\ starts' = Append(starts, lastPos)
  /\ lastPos' = FindFirstNotOf(str, pos)
  /\ pos' = FindFirstOf(str, lastPos')
  /\ UNCHANGED str

\* Tokenize returns; the next call has a new vector.
ReturnAndCall ==
  /\ ~Searching
  /\ str' \in Strings
  /\ lastPos' = FirstStart(str')
  /\ pos' = FirstEnd(str')
  /\ tokens' = <<>> /\ starts' = <<>>

Next == PushToken \/ ReturnAndCall

Spec == Init /\ [][Next]_vars

-----------------------------------------------------------------------------
(* Properties                                                               *)

TypeOK ==
  /\ str \in Strings
  /\ lastPos \in 0 .. Npos /\ pos \in 0 .. Npos
  /\ tokens \in Seq(Seq(Chars))
  /\ starts \in Seq(Nat)

\* substr is never called with a start past the end, where it throws, nor with
\* a negative count, which is a huge one in unsigned arithmetic: npos is only
\* ever in lastPos when the loop is over.
SubstrInRange == Searching => lastPos < Len(str) /\ lastPos < pos

\* A token begins at k: no delimiter there, and none continued from before.
BeginsToken(s, k) ==
  k \in 0 .. (Len(s) - 1) /\ s[k + 1] \notin Delims /\ (k = 0 \/ s[k] \in Delims)

\* t is the longest run of characters other than delimiters around position k,
\* and begins there.
RunAt(s, k, t) ==
  /\ BeginsToken(s, k)
  /\ Len(t) > 0 /\ k + Len(t) <= Len(s)
  /\ \A j \in 1 .. Len(t) : t[j] = s[k + j] /\ t[j] \notin Delims
  /\ k + Len(t) = Len(s) \/ s[k + Len(t) + 1] \in Delims

\* The tokens are such runs, in the order of the string: none is empty, none
\* is cut short, none contains a delimiter, none is returned twice.
TokensAreRuns ==
  /\ Len(tokens) = Len(starts)
  /\ \A n \in 1 .. Len(starts) : RunAt(str, starts[n], tokens[n])
  /\ \A n \in 1 .. Len(starts), m \in 1 .. Len(starts) : m < n => starts[m] < starts[n]

\* When Tokenize returns every run has been returned, the one at the very end
\* of the string included.
NoneMissing ==
  ~Searching => \A k \in 0 .. (Len(str) - 1) :
    BeginsToken(str, k) => \E n \in 1 .. Len(starts) : starts[n] = k

\* Every iteration moves on in the string, so the loop ends.
MovesOn == [][tokens' # <<>> => lastPos' > lastPos]_vars
=============================================================================
