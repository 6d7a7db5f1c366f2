--------------------------- MODULE TokenizerProofs ---------------------------
(***************************************************************************)
(* What Tokenize returns, for every string and every set of delimiters.    *)
(***************************************************************************)
EXTENDS Tokenizer, WellFoundedInduction, TLAPS

\* The least element of a set of positions.
LEMMA Least ==
  ASSUME NEW T \in SUBSET Nat, T # {}
  PROVE  \E k \in T : \A j \in T : k <= j
<1>1. IsWellFoundedOn(OpToRel(<, Nat), Nat)
  BY NatLessThanWellFounded
<1>2. PICK k \in T : \A j \in T : ~(<<j, k>> \in OpToRel(<, Nat))
  BY <1>1, WFMin, Zenon
<1>3. \A j \in T : ~(j < k)
  BY <1>2 DEF OpToRel
<1> QED BY <1>3

\* The search: npos when nothing is found, otherwise the first position.
LEMMA Found ==
  ASSUME NEW s \in Strings, NEW S, NEW from \in Nat
  PROVE  LET p == FindFirst(s, S, from) IN
         \/ p = Npos /\ \A k \in from .. (Len(s) - 1) : s[k + 1] \notin S
         \/ /\ p \in from .. (Len(s) - 1) /\ p < Npos /\ s[p + 1] \in S
            /\ \A k \in from .. (p - 1) : s[k + 1] \notin S
<1> DEFINE hits == {k \in from .. (Len(s) - 1) : s[k + 1] \in S}
<1>1. Len(s) \in Nat /\ Len(s) < Npos /\ Npos \in Nat
  BY TokenizerConstants
<1>2. CASE hits = {}
  BY <1>2 DEF FindFirst
<1>3. CASE hits # {}
  <2>1. hits \in SUBSET Nat
    BY <1>1
  <2>2. \E k \in hits : \A j \in hits : k <= j
    BY <1>3, <2>1, Least, Zenon
  <2>3. FindFirst(s, S, from) = CHOOSE k \in hits : \A j \in hits : k <= j
    BY <1>3 DEF FindFirst
  <2>4. /\ FindFirst(s, S, from) \in hits
        /\ \A j \in hits : FindFirst(s, S, from) <= j
    BY <2>2, <2>3, Zenon
  <2> QED BY <1>1, <2>4
<1> QED BY <1>2, <1>3

\* Nothing is found from npos on.
LEMMA FoundFromNpos ==
  ASSUME NEW s \in Strings, NEW S
  PROVE  FindFirst(s, S, Npos) = Npos
<1>1. Len(s) \in Nat /\ Len(s) < Npos /\ Npos \in Nat
  BY TokenizerConstants
<1> QED BY <1>1 DEF FindFirst

\* A string and its parts.
LEMMA StringChars ==
  ASSUME NEW s \in Strings
  PROVE  /\ s \in Seq(Chars) /\ Len(s) \in Nat /\ Len(s) < Npos
         /\ \A k \in 0 .. (Len(s) - 1) : s[k + 1] \in Chars
<1>1. s \in Seq(Chars)
  BY TokenizerConstants
<1> QED BY <1>1, TokenizerConstants

-----------------------------------------------------------------------------
(* The invariant.                                                           *)

\* Between two iterations lastPos is the beginning of a token and pos its end,
\* or both are npos.
Positions ==
  \/ lastPos = Npos /\ pos = Npos
  \/ /\ BeginsToken(str, lastPos)
     /\ pos = FindFirstOf(str, lastPos)

\* The tokens taken begin before lastPos, and every one that does is taken.
Covered ==
  /\ \A n \in 1 .. Len(starts) : starts[n] < lastPos
  /\ \A k \in 0 .. (Len(str) - 1) :
       BeginsToken(str, k) /\ k < lastPos => \E n \in 1 .. Len(starts) : starts[n] = k

IInv == TypeOK /\ Positions /\ Covered /\ TokensAreRuns

\* Where the loop stands is where the next search from a delimiter, from the
\* end or from the beginning of the string leads.
LEMMA Searched ==
  ASSUME NEW s \in Strings, NEW from \in Nat, NEW p, NEW e,
         from = 0 \/ from = Npos \/ (from < Len(s) /\ s[from + 1] \in Delims),
         p = FindFirstNotOf(s, from), e = FindFirstOf(s, p)
  PROVE  /\ p \in 0 .. Npos /\ e \in 0 .. Npos
         /\ p >= from
         /\ \/ p = Npos /\ e = Npos
            \/ BeginsToken(s, p) /\ e = FindFirstOf(s, p)
         /\ \A k \in 0 .. (Len(s) - 1) : BeginsToken(s, k) /\ k >= from => k >= p
<1>1. /\ s \in Seq(Chars) /\ Len(s) \in Nat /\ Len(s) < Npos /\ Npos \in Nat
      /\ \A k \in 0 .. (Len(s) - 1) : s[k + 1] \in Chars
  BY StringChars, TokenizerConstants
<1>2. CASE p = Npos
  <2>1. e = Npos
    BY <1>2, FoundFromNpos DEF FindFirstOf
  <2>2. \A k \in from .. (Len(s) - 1) : s[k + 1] \notin Chars \ Delims
    <3>1. FindFirst(s, Chars \ Delims, from) = Npos
      BY <1>2 DEF FindFirstNotOf
    <3> QED BY <1>1, <3>1, Found
  <2>3. from <= Npos
    BY <1>1
  <2>4. ASSUME NEW k \in 0 .. (Len(s) - 1), BeginsToken(s, k), k >= from PROVE FALSE
    BY <1>1, <2>2, <2>4 DEF BeginsToken
  <2> QED BY <1>1, <1>2, <2>1, <2>3, <2>4
<1>3. CASE p # Npos
  <2>1. /\ p \in from .. (Len(s) - 1) /\ s[p + 1] \in Chars \ Delims
        /\ \A k \in from .. (p - 1) : s[k + 1] \notin Chars \ Delims
    BY <1>3, Found DEF FindFirstNotOf
  <2>2. p \in Nat /\ p < Len(s)
    BY <1>1, <2>1
  <2>3. e \in 0 .. Npos
    BY <1>1, <2>2, Found DEF FindFirstOf
  <2>4. p = 0 \/ s[p] \in Delims
    <3>1. CASE p = from
      BY <1>1, <2>1, <2>2, <3>1
    <3>2. CASE p # from
      <4>1. p - 1 \in from .. (p - 1) /\ p - 1 \in 0 .. (Len(s) - 1) /\ (p - 1) + 1 = p
        BY <1>1, <2>1, <2>2, <3>2
      <4> QED BY <1>1, <2>1, <4>1
    <3> QED BY <3>1, <3>2
  <2>5. BeginsToken(s, p)
    BY <1>1, <2>1, <2>2, <2>4 DEF BeginsToken
  <2>6. ASSUME NEW k \in 0 .. (Len(s) - 1), BeginsToken(s, k), k >= from PROVE k >= p
    BY <1>1, <2>1, <2>2, <2>6 DEF BeginsToken
  <2> QED BY <1>1, <2>1, <2>2, <2>3, <2>5, <2>6
<1> QED BY <1>2, <1>3

\* The token between the positions.
LEMMA TokenIsRun ==
  ASSUME NEW s \in Strings, NEW p, BeginsToken(s, p)
  PROVE  LET e == FindFirstOf(s, p)
             t == Substr(s, p, e - p)
         IN  /\ t \in Seq(Chars)
             /\ RunAt(s, p, t)
             /\ e > p
             /\ e = Npos \/ (e < Len(s) /\ s[e + 1] \in Delims)
             /\ \A k \in 0 .. (Len(s) - 1) : BeginsToken(s, k) /\ k > p => k >= e
<1> DEFINE e == FindFirstOf(s, p)
           to == IF e < Len(s) THEN e ELSE Len(s)
           t == Substr(s, p, e - p)
<1>1. /\ s \in Seq(Chars) /\ Len(s) \in Nat /\ Len(s) < Npos /\ Npos \in Nat
      /\ p \in 0 .. (Len(s) - 1) /\ p \in Nat /\ s[p + 1] \notin Delims
  BY StringChars, TokenizerConstants DEF BeginsToken
<1>2. \/ e = Npos /\ \A k \in p .. (Len(s) - 1) : s[k + 1] \notin Delims
      \/ /\ e \in p .. (Len(s) - 1) /\ s[e + 1] \in Delims
         /\ \A k \in p .. (e - 1) : s[k + 1] \notin Delims
  BY <1>1, Found DEF FindFirstOf
<1>3. e \in Nat /\ e > p
  BY <1>1, <1>2
<1>4. to \in (p + 1) .. Len(s) /\ (to = Len(s) \/ s[to + 1] \in Delims)
      /\ \A k \in p .. (to - 1) : s[k + 1] \notin Delims
  BY <1>1, <1>2, <1>3
<1>5. t = SubSeq(s, p + 1, to)
  <2>1. p + (e - p) = e
    BY <1>1, <1>3
  <2> HIDE DEF e
  <2> QED BY <2>1 DEF Substr
<1> HIDE DEF e, to, t
<1>6. /\ t \in Seq(Chars) /\ Len(t) = to - p
      /\ \A j \in 1 .. (to - p) : t[j] = s[p + j]
  BY <1>1, <1>4, <1>5
<1>7. \A j \in 1 .. (to - p) : s[p + j] \notin Delims
  <2>1. TAKE j \in 1 .. (to - p)
  <2>2. (p + j) - 1 \in p .. (to - 1) /\ ((p + j) - 1) + 1 = p + j
    BY <1>1, <1>4
  <2> QED BY <1>4, <2>2
<1>8. p + Len(t) = to /\ Len(t) > 0
  BY <1>1, <1>4, <1>6
<1>9. RunAt(s, p, t)
  <2>1. \A j \in 1 .. Len(t) : t[j] = s[p + j] /\ t[j] \notin Delims
    BY <1>6, <1>7
  <2>2. p + Len(t) <= Len(s) /\ (p + Len(t) = Len(s) \/ s[p + Len(t) + 1] \in Delims)
    BY <1>1, <1>4, <1>8
  <2> QED BY <1>8, <2>1, <2>2 DEF RunAt
<1>10. ASSUME NEW k \in 0 .. (Len(s) - 1), BeginsToken(s, k), k > p PROVE k >= e
  <2>1. s[k] \in Delims
    BY <1>1, <1>10 DEF BeginsToken
  <2>2. k - 1 \in p .. (Len(s) - 1) /\ (k - 1) + 1 = k
    BY <1>1, <1>10
  <2>3. ~(e = Npos /\ \A j \in p .. (Len(s) - 1) : s[j + 1] \notin Delims)
    BY <2>1, <2>2
  <2>4. e \in p .. (Len(s) - 1) /\ \A j \in p .. (e - 1) : s[j + 1] \notin Delims
    BY <1>2, <2>3
  <2>5. k - 1 \notin p .. (e - 1)
    BY <2>1, <2>2, <2>4
  <2> QED BY <1>1, <1>3, <2>2, <2>5
<1> QED BY <1>1, <1>2, <1>3, <1>6, <1>9, <1>10 DEF e, t

-----------------------------------------------------------------------------
(* It holds at the beginning of every call and is kept.                     *)

LEMMA Beginning ==
  ASSUME NEW s \in Strings
  PROVE  LET p == FirstStart(s)
             e == FirstEnd(s)
         IN  /\ p \in 0 .. Npos /\ e \in 0 .. Npos
             /\ \/ p = Npos /\ e = Npos
                \/ BeginsToken(s, p) /\ e = FindFirstOf(s, p)
             /\ \A k \in 0 .. (Len(s) - 1) : ~(BeginsToken(s, k) /\ k < p)
<1>1. Len(s) \in Nat
  BY StringChars
<1>2. /\ FirstStart(s) \in 0 .. Npos /\ FirstEnd(s) \in 0 .. Npos
      /\ \/ FirstStart(s) = Npos /\ FirstEnd(s) = Npos
         \/ BeginsToken(s, FirstStart(s)) /\ FirstEnd(s) = FindFirstOf(s, FirstStart(s))
      /\ \A k \in 0 .. (Len(s) - 1) : BeginsToken(s, k) /\ k >= 0 => k >= FirstStart(s)
  BY Searched, Zenon DEF FirstStart, FirstEnd
<1> QED BY <1>1, <1>2

LEMMA InitInv == Init => IInv
<1> SUFFICES ASSUME Init PROVE IInv
  OBVIOUS
<1> USE DEF Init
<1>1. TypeOK
  BY Beginning DEF TypeOK
<1>2. Positions
  BY Beginning DEF Positions
<1>3. Covered
  BY Beginning DEF Covered
<1>4. TokensAreRuns
  BY DEF TokensAreRuns
<1> QED BY <1>1, <1>2, <1>3, <1>4 DEF IInv

LEMMA CallInv == IInv /\ ReturnAndCall => IInv'
<1> SUFFICES ASSUME ReturnAndCall PROVE IInv'
  OBVIOUS
<1> USE DEF ReturnAndCall
<1>1. TypeOK'
  BY Beginning DEF TypeOK
<1>2. Positions'
  BY Beginning DEF Positions
<1>3. Covered'
  BY Beginning DEF Covered
<1>4. TokensAreRuns'
  BY DEF TokensAreRuns
<1> QED BY <1>1, <1>2, <1>3, <1>4 DEF IInv

\* What an iteration does, from the lemmas.
LEMMA Iteration ==
  ASSUME IInv, PushToken
  PROVE  LET t == Substr(str, lastPos, pos - lastPos) IN
         /\ BeginsToken(str, lastPos) /\ pos > lastPos
         /\ t \in Seq(Chars) /\ RunAt(str, lastPos, t)
         /\ tokens' = Append(tokens, t) /\ starts' = Append(starts, lastPos)
         /\ lastPos' \in 0 .. Npos /\ pos' \in 0 .. Npos /\ lastPos' >= pos
         /\ \/ lastPos' = Npos /\ pos' = Npos
            \/ BeginsToken(str, lastPos') /\ pos' = FindFirstOf(str, lastPos')
         /\ \A k \in 0 .. (Len(str) - 1) :
              BeginsToken(str, k) /\ k > lastPos => k >= lastPos'
<1>1. str \in Strings /\ pos \in Nat /\ lastPos \in Nat /\ Npos \in Nat
  BY TokenizerConstants DEF IInv, TypeOK
<1>2. BeginsToken(str, lastPos) /\ pos = FindFirstOf(str, lastPos)
  BY DEF IInv, Positions, PushToken, Searching
<1>3. LET t == Substr(str, lastPos, pos - lastPos) IN
      /\ t \in Seq(Chars) /\ RunAt(str, lastPos, t) /\ pos > lastPos
      /\ pos = Npos \/ (pos < Len(str) /\ str[pos + 1] \in Delims)
      /\ \A k \in 0 .. (Len(str) - 1) : BeginsToken(str, k) /\ k > lastPos => k >= pos
  BY <1>1, <1>2, TokenIsRun
<1>4. lastPos' = FindFirstNotOf(str, pos) /\ pos' = FindFirstOf(str, lastPos')
  BY DEF PushToken
<1>5. /\ lastPos' \in 0 .. Npos /\ pos' \in 0 .. Npos /\ lastPos' >= pos
      /\ \/ lastPos' = Npos /\ pos' = Npos
         \/ BeginsToken(str, lastPos') /\ pos' = FindFirstOf(str, lastPos')
      /\ \A k \in 0 .. (Len(str) - 1) : BeginsToken(str, k) /\ k >= pos => k >= lastPos'
  BY <1>1, <1>3, <1>4, Searched, Zenon
<1> QED BY <1>2, <1>3, <1>5 DEF PushToken

LEMMA PushInv == IInv /\ PushToken => IInv'
<1> SUFFICES ASSUME IInv, PushToken PROVE IInv'
  OBVIOUS
<1> DEFINE t == Substr(str, lastPos, pos - lastPos)
<1>1. /\ BeginsToken(str, lastPos) /\ pos > lastPos
      /\ t \in Seq(Chars) /\ RunAt(str, lastPos, t)
      /\ tokens' = Append(tokens, t) /\ starts' = Append(starts, lastPos)
      /\ lastPos' \in 0 .. Npos /\ pos' \in 0 .. Npos /\ lastPos' >= pos
      /\ \/ lastPos' = Npos /\ pos' = Npos
         \/ BeginsToken(str, lastPos') /\ pos' = FindFirstOf(str, lastPos')
      /\ \A k \in 0 .. (Len(str) - 1) :
           BeginsToken(str, k) /\ k > lastPos => k >= lastPos'
  BY Iteration
<1>2. /\ str' = str /\ str \in Strings /\ Len(str) \in Nat
      /\ lastPos \in Nat /\ pos \in Nat /\ lastPos' > lastPos
      /\ starts \in Seq(Nat) /\ tokens \in Seq(Seq(Chars)) /\ Len(tokens) = Len(starts)
  BY <1>1, StringChars, TokenizerConstants DEF IInv, TypeOK, PushToken, TokensAreRuns
<1> HIDE DEF t
<1>3. /\ starts' \in Seq(Nat) /\ tokens' \in Seq(Seq(Chars))
      /\ Len(starts') = Len(starts) + 1 /\ Len(tokens') = Len(starts) + 1
      /\ starts'[Len(starts) + 1] = lastPos /\ tokens'[Len(starts) + 1] = t
      /\ \A n \in 1 .. Len(starts) : starts'[n] = starts[n] /\ tokens'[n] = tokens[n]
  BY <1>1, <1>2
<1>4. TypeOK'
  BY <1>1, <1>2, <1>3 DEF TypeOK
<1>5. Positions'
  BY <1>1, <1>2 DEF Positions
<1>6. Covered'
  <2>1. \A n \in 1 .. Len(starts') : starts'[n] < lastPos'
    <3>1. \A n \in 1 .. Len(starts) : starts[n] \in Nat /\ starts[n] < lastPos
      BY <1>2 DEF IInv, Covered
    <3> QED BY <1>1, <1>2, <1>3, <3>1
  <2>2. ASSUME NEW k \in 0 .. (Len(str) - 1), BeginsToken(str, k), k < lastPos'
        PROVE  \E n \in 1 .. Len(starts') : starts'[n] = k
    <3>1. CASE k = lastPos
      <4>1. Len(starts) + 1 \in 1 .. Len(starts')
        BY <1>2, <1>3
      <4> QED BY <1>3, <3>1, <4>1
    <3>2. CASE k < lastPos
      <4>1. PICK n \in 1 .. Len(starts) : starts[n] = k
        BY <2>2, <3>2 DEF IInv, Covered
      <4> QED BY <1>2, <1>3, <4>1
    <3>3. CASE k > lastPos
      BY <1>1, <1>2, <2>2, <3>3
    <3> QED BY <1>2, <3>1, <3>2, <3>3
  <2> QED BY <1>2, <2>1, <2>2 DEF Covered
<1>7. TokensAreRuns'
  <2>1. ASSUME NEW n \in 1 .. Len(starts') PROVE RunAt(str', starts'[n], tokens'[n])
    <3>1. CASE n = Len(starts) + 1
      BY <1>1, <1>2, <1>3, <3>1
    <3>2. CASE n # Len(starts) + 1
      <4>1. n \in 1 .. Len(starts)
        BY <1>2, <1>3, <3>2
      <4> QED BY <1>2, <1>3, <4>1 DEF IInv, TokensAreRuns
    <3> QED BY <3>1, <3>2
  <2>2. ASSUME NEW n \in 1 .. Len(starts'), NEW m \in 1 .. Len(starts'), m < n
        PROVE  starts'[m] < starts'[n]
    <3>1. m \in 1 .. Len(starts)
      BY <1>2, <1>3, <2>2
    <3>2. CASE n = Len(starts) + 1
      BY <1>2, <1>3, <3>1, <3>2 DEF IInv, Covered
    <3>3. CASE n # Len(starts) + 1
      <4>1. n \in 1 .. Len(starts)
        BY <1>2, <1>3, <3>3
      <4> QED BY <1>3, <2>2, <3>1, <4>1 DEF IInv, TokensAreRuns
    <3> QED BY <3>2, <3>3
  <2> QED BY <1>3, <2>1, <2>2 DEF TokensAreRuns
<1> QED BY <1>4, <1>5, <1>6, <1>7 DEF IInv

\* The invariant holds in every state.
THEOREM Invariance == Spec => []IInv
<1>1. IInv /\ UNCHANGED vars => IInv'
  BY DEF IInv, TypeOK, Positions, Covered, TokensAreRuns, vars
<1>2. IInv /\ [Next]_vars => IInv'
  BY <1>1, PushInv, CallInv DEF Next
<1> QED BY InitInv, <1>2, PTL DEF Spec

\* The variables keep their types.
THEOREM TypeCorrect == Spec => []TypeOK
<1>1. IInv => TypeOK
  BY DEF IInv
<1> QED BY Invariance, <1>1, PTL

\* substr is never called out of range.
THEOREM NoOutOfRange == Spec => []SubstrInRange
<1>1. IInv => SubstrInRange
  <2> SUFFICES ASSUME IInv, Searching PROVE lastPos < Len(str) /\ lastPos < pos
    BY DEF SubstrInRange
  <2>1. BeginsToken(str, lastPos) /\ pos = FindFirstOf(str, lastPos)
    BY DEF IInv, Positions, Searching
  <2>2. str \in Strings /\ Len(str) \in Nat /\ pos \in Nat
    BY StringChars, TokenizerConstants DEF IInv, TypeOK
  <2>3. pos > lastPos
    BY <2>1, <2>2, TokenIsRun
  <2> QED BY <2>1, <2>2, <2>3 DEF BeginsToken
<1> QED BY Invariance, <1>1, PTL

\* Tokenize returns runs of characters other than delimiters, in order.
THEOREM RunsInOrder == Spec => []TokensAreRuns
<1>1. IInv => TokensAreRuns
  BY DEF IInv
<1> QED BY Invariance, <1>1, PTL

\* It returns all of them.
THEOREM AllRuns == Spec => []NoneMissing
<1>1. IInv => NoneMissing
  <2> SUFFICES ASSUME IInv, ~Searching, NEW k \in 0 .. (Len(str) - 1), BeginsToken(str, k)
               PROVE  \E n \in 1 .. Len(starts) : starts[n] = k
    BY DEF NoneMissing
  <2>1. lastPos = Npos /\ Len(str) \in Nat /\ Len(str) < Npos /\ Npos \in Nat
    BY StringChars, TokenizerConstants DEF IInv, TypeOK, Searching
  <2>2. k < lastPos
    BY <2>1
  <2> QED BY <2>2 DEF IInv, Covered
<1> QED BY Invariance, <1>1, PTL

\* Every iteration moves on.
THEOREM Progress == Spec => MovesOn
<1>1. IInv /\ [Next]_vars => [tokens' # <<>> => lastPos' > lastPos]_vars
  <2> SUFFICES ASSUME IInv, Next PROVE tokens' # <<>> => lastPos' > lastPos
    OBVIOUS
  <2>1. CASE PushToken
    <3>1. pos > lastPos /\ lastPos' >= pos /\ lastPos' \in 0 .. Npos
      BY <2>1, Iteration
    <3>2. pos \in Nat /\ lastPos \in Nat /\ Npos \in Nat
      BY TokenizerConstants DEF IInv, TypeOK
    <3> QED BY <3>1, <3>2
  <2>2. CASE ReturnAndCall
    BY <2>2 DEF ReturnAndCall
  <2> QED BY <2>1, <2>2 DEF Next
<1> QED BY Invariance, <1>1, PTL DEF Spec, MovesOn
=============================================================================
