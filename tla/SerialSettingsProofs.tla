------------------------ MODULE SerialSettingsProofs ------------------------
(***************************************************************************)
(* What io_set_serial makes of its tokens, for strings of any length, any  *)
(* earlier settings of the port, and other programs configuring it.        *)
(***************************************************************************)
EXTENDS SerialSettings, TLAPS

Parities == {"n", "e", "o", "s", "m"}

\* A token that is not refused is a number in range or a letter of the switch.
LEMMA TokenKinds ==
  ASSUME NEW t \in Tokens, ~Refused(t)
  PROVE  \/ Kind(t) = "speed" /\ t.num \in Speeds /\ t.num > 8
         \/ Kind(t) = "bits" /\ t.num \in 5 .. 8
         \/ Kind(t) = "ignored" /\ t.num \in {3, 4}
         \/ Kind(t) = "stopBits" /\ t.num \in {1, 2}
         \/ Kind(t) \in Letters /\ Kind(t) = t.letter /\ t.num = 0
<1>1. t.num \in Nat /\ t.letter \notin {"speed", "bits", "ignored", "stopBits"}
  BY SerialConstants
<1>2. CASE t.num > 8
  <2>1. Kind(t) = "speed"
    BY <1>2 DEF Kind
  <2> QED BY <1>1, <1>2, <2>1 DEF Refused
<1>3. CASE t.num \in 5 .. 8
  BY <1>1, <1>3 DEF Kind
<1>4. CASE t.num \in {3, 4}
  BY <1>1, <1>4 DEF Kind
<1>5. CASE t.num \in {1, 2}
  BY <1>1, <1>5 DEF Kind
<1>6. CASE t.num = 0
  <2>1. Kind(t) = t.letter
    BY <1>6 DEF Kind
  <2> QED BY <1>1, <1>6, <2>1 DEF Refused
<1> QED BY <1>1, <1>2, <1>3, <1>4, <1>5, <1>6

\* What a token does to the copy, by its kind.
Effect(w, t, v) ==
  /\ v.vmin = w.vmin /\ v.vtime = w.vtime
  /\ v.speed = (IF Kind(t) = "speed" THEN t.num ELSE w.speed)
  /\ v.bits = (IF Kind(t) = "bits" THEN t.num ELSE w.bits)
  /\ Kind(t) \in {"speed", "bits", "ignored", "l"} => v.flags = w.flags
  /\ Kind(t) = "stopBits" =>
       v.flags = (IF t.num = 2 THEN w.flags \cup {"CSTOPB"} ELSE w.flags)
  /\ Kind(t) = "n" => v.flags = w.flags \ {"PARENB"}
  /\ Kind(t) = "e" => v.flags = (w.flags \ {"PARODD"}) \cup {"PARENB"}
  /\ Kind(t) = "o" => v.flags = w.flags \cup {"PARENB", "PARODD"}
  /\ Kind(t) = "s" => v.flags = (w.flags \ {"PARODD"}) \cup {"CMSPAR"}
  /\ Kind(t) = "m" => v.flags = w.flags \cup {"CMSPAR", "PARODD"}
  /\ Kind(t) = "x" => v.flags = w.flags \cup {"IXON", "IXOFF"}
  /\ Kind(t) = "h" => v.flags = w.flags \cup {"CRTSCTS"}

LEMMA TokenSets ==
  ASSUME NEW w \in Attributes, NEW t \in Tokens, ~Refused(t)
  PROVE  /\ WithToken(w, t) \in Attributes
         /\ Effect(w, t, WithToken(w, t))
<1> SUFFICES ASSUME NEW v, v = WithToken(w, t) PROVE v \in Attributes /\ Effect(w, t, v)
  OBVIOUS
<1>1. /\ w.flags \in SUBSET Flags /\ w.bits \in 5 .. 8 /\ w.speed \in Speeds \cup {0}
      /\ w = [flags |-> w.flags, bits |-> w.bits, speed |-> w.speed,
              vmin |-> w.vmin, vtime |-> w.vtime]
      /\ w.vmin \in 0 .. 255 /\ w.vtime \in 0 .. 255
  BY DEF Attributes
<1>2. CASE Kind(t) = "speed"
  <2>1. v = [w EXCEPT !.speed = t.num]
    BY <1>2 DEF WithToken
  <2>2. t.num \in Speeds
    BY <1>2, TokenKinds DEF Letters
  <2> QED BY <1>1, <1>2, <2>1, <2>2 DEF Attributes, Effect
<1>3. CASE Kind(t) = "bits"
  <2>1. v = [w EXCEPT !.bits = t.num]
    BY <1>3 DEF WithToken
  <2>2. t.num \in 5 .. 8
    BY <1>3, TokenKinds DEF Letters
  <2> QED BY <1>1, <1>3, <2>1, <2>2 DEF Attributes, Effect
<1>4. CASE Kind(t) = "ignored"
  <2>1. v = w
    BY <1>4 DEF WithToken
  <2> QED BY <1>4, <2>1 DEF Effect
<1>5. CASE Kind(t) = "stopBits"
  <2>1. v = IF t.num = 2 THEN [w EXCEPT !.flags = @ \cup {"CSTOPB"}] ELSE w
    BY <1>5 DEF WithToken
  <2>2. "CSTOPB" \in Flags
    BY DEF Flags
  <2> QED BY <1>1, <1>5, <2>1, <2>2 DEF Attributes, Effect
<1>6. CASE Kind(t) \in Letters
  <2>1. Kind(t) = t.letter
    BY <1>6, TokenKinds DEF Letters
  <2>2. v = [w EXCEPT !.flags = (@ \ Clears[Kind(t)]) \cup Sets[Kind(t)]]
    BY <1>6, <2>1 DEF WithToken, Letters
  <2>3. Sets[Kind(t)] \subseteq Flags
    BY <1>6 DEF Letters, Sets, Flags, RawClears
  <2>4. v.flags = (w.flags \ Clears[Kind(t)]) \cup Sets[Kind(t)]
        /\ v.speed = w.speed /\ v.bits = w.bits /\ v.vmin = w.vmin /\ v.vtime = w.vtime
        /\ v \in Attributes
    BY <1>1, <2>2, <2>3 DEF Attributes
  <2>5. Kind(t) # "speed" /\ Kind(t) # "bits" /\ Kind(t) # "ignored" /\ Kind(t) # "stopBits"
    BY <1>6 DEF Letters
  <2>6. /\ Clears["n"] = {"PARENB"} /\ Clears["e"] = {"PARODD"} /\ Clears["o"] = {}
        /\ Clears["s"] = {"PARODD"} /\ Clears["m"] = {} /\ Clears["x"] = {}
        /\ Clears["h"] = {} /\ Clears["l"] = {}
    BY DEF Clears
  <2>7. /\ Sets["n"] = {} /\ Sets["e"] = {"PARENB"} /\ Sets["o"] = {"PARENB", "PARODD"}
        /\ Sets["s"] = {"CMSPAR"} /\ Sets["m"] = {"CMSPAR", "PARODD"}
        /\ Sets["x"] = {"IXON", "IXOFF"} /\ Sets["h"] = {"CRTSCTS"} /\ Sets["l"] = {}
    BY DEF Sets
  <2>8. /\ Kind(t) = "n" => v.flags = w.flags \ {"PARENB"}
        /\ Kind(t) = "e" => v.flags = (w.flags \ {"PARODD"}) \cup {"PARENB"}
        /\ Kind(t) = "o" => v.flags = w.flags \cup {"PARENB", "PARODD"}
        /\ Kind(t) = "s" => v.flags = (w.flags \ {"PARODD"}) \cup {"CMSPAR"}
    BY <2>4, <2>6, <2>7
  <2>9. /\ Kind(t) = "m" => v.flags = w.flags \cup {"CMSPAR", "PARODD"}
        /\ Kind(t) = "x" => v.flags = w.flags \cup {"IXON", "IXOFF"}
        /\ Kind(t) = "h" => v.flags = w.flags \cup {"CRTSCTS"}
        /\ Kind(t) = "l" => v.flags = w.flags
    BY <2>4, <2>6, <2>7
  <2> QED BY <2>4, <2>5, <2>8, <2>9 DEF Effect
<1> QED BY <1>2, <1>3, <1>4, <1>5, <1>6, TokenKinds

-----------------------------------------------------------------------------
(* The meaning of a prefix and of the prefix one token longer.              *)

LEMMA LastOfStep ==
  ASSUME NEW s \in Seq(Tokens), NEW n \in Nat, n < Len(s), NEW K, NEW T
  PROVE  LastOf(s, n + 1, K, T) <=>
           IF Kind(s[n + 1]) \in K THEN Kind(s[n + 1]) \in T ELSE LastOf(s, n, K, T)
<1>1. CASE Kind(s[n + 1]) \in K
  BY <1>1 DEF LastOf
<1>2. CASE Kind(s[n + 1]) \notin K
  <2>1. ASSUME LastOf(s, n + 1, K, T) PROVE LastOf(s, n, K, T)
    BY <1>2, <2>1 DEF LastOf
  <2>2. ASSUME LastOf(s, n, K, T) PROVE LastOf(s, n + 1, K, T)
    <3>1. PICK m \in 1 .. n : /\ Kind(s[m]) \in K \cap T
                              /\ \A j \in (m + 1) .. n : Kind(s[j]) \notin K
      BY <2>2 DEF LastOf
    <3>2. \A j \in (m + 1) .. (n + 1) : Kind(s[j]) \notin K
      BY <1>2, <3>1
    <3> QED BY <3>1, <3>2 DEF LastOf
  <2> QED BY <1>2, <2>1, <2>2
<1> QED BY <1>1, <1>2

LEMMA OccursStep ==
  ASSUME NEW s \in Seq(Tokens), NEW n \in Nat, n < Len(s), NEW K
  PROVE  Occurs(s, n + 1, K) <=> Occurs(s, n, K) \/ Kind(s[n + 1]) \in K
BY DEF Occurs

LEMMA LastNumberStep ==
  ASSUME NEW s \in Seq(Tokens), NEW n \in Nat, n < Len(s), NEW kind, NEW number, NEW defaults,
         IF Kind(s[n + 1]) = kind THEN number = s[n + 1].num
                                  ELSE LastNumber(s, n, kind, number, defaults)
  PROVE  LastNumber(s, n + 1, kind, number, defaults)
<1>1. CASE Kind(s[n + 1]) = kind
  <2>1. Occurs(s, n + 1, {kind})
    BY <1>1, OccursStep
  <2>2. n + 1 \in 1 .. (n + 1) /\ \A j \in ((n + 1) + 1) .. (n + 1) : Kind(s[j]) # kind
    OBVIOUS
  <2> QED BY <1>1, <2>1, <2>2 DEF LastNumber
<1>2. CASE Kind(s[n + 1]) # kind
  <2>1. LastNumber(s, n, kind, number, defaults)
    BY <1>2
  <2>2. CASE Occurs(s, n, {kind})
    <3>1. PICK m \in 1 .. n : /\ Kind(s[m]) = kind /\ s[m].num = number
                              /\ \A j \in (m + 1) .. n : Kind(s[j]) # kind
      BY <2>1, <2>2 DEF LastNumber
    <3>2. m \in 1 .. (n + 1) /\ \A j \in (m + 1) .. (n + 1) : Kind(s[j]) # kind
      BY <1>2, <3>1
    <3>3. Occurs(s, n + 1, {kind})
      BY <2>2, OccursStep
    <3> QED BY <3>1, <3>2, <3>3 DEF LastNumber
  <2>3. CASE ~Occurs(s, n, {kind})
    <3>1. ~Occurs(s, n + 1, {kind})
      BY <1>2, <2>3, OccursStep
    <3> QED BY <2>1, <2>3, <3>1 DEF LastNumber
  <2> QED BY <2>2, <2>3
<1> QED BY <1>1, <1>2

\* The part of ReportTrue that needs the array and the copy alone.
ReportMeans(r, w) ==
  /\ r.speed # 0 => w.speed = r.speed
  /\ w.bits = IF r.bits = 0 THEN 8 ELSE r.bits
  /\ r.stopBits = 2 => "CSTOPB" \in w.flags
  /\ r.xon <=> "IXON" \in w.flags
  /\ r.xon => "IXOFF" \in w.flags
  /\ r.hw <=> "CRTSCTS" \in w.flags
  /\ r.parity \in {"unset", "None"} => "PARENB" \notin w.flags
  /\ r.parity \in {"Even", "Odd"} => "PARENB" \in w.flags
  /\ r.parity \in {"Even", "Space"} => "PARODD" \notin w.flags
  /\ r.parity \in {"Odd", "Mark"} => "PARODD" \in w.flags
  /\ r.parity \in {"Space", "Mark"} => "CMSPAR" \in w.flags

\* Before the tokens.
LEMMA PreparedMeans ==
  ASSUME NEW a \in Attributes, NEW s, NEW tenths \in Timeouts \cup {NoTimeout}
  PROVE  LET w == Prepared(a, tenths) IN
         /\ w \in Attributes
         /\ Means(w, a, s, 0)
         /\ ReportMeans(NoReport, w)
         /\ tenths = NoTimeout => w.vmin = 1
         /\ tenths \in 0 .. 255 => w.vmin = 0 /\ w.vtime = tenths
<1> DEFINE w == Prepared(a, tenths)
<1>1. /\ w.flags = (a.flags \ (RawClears \cup {"CSTOPB", "CRTSCTS"})) \cup {"CLOCAL", "CREAD"}
      /\ w.bits = 8 /\ w.speed = a.speed
      /\ w.vmin = (IF tenths = NoTimeout THEN 1 ELSE 0)
      /\ w.vtime = (IF tenths = NoTimeout THEN 0 ELSE tenths % 256)
      /\ w = [flags |-> w.flags, bits |-> w.bits, speed |-> w.speed,
              vmin |-> w.vmin, vtime |-> w.vtime]
  BY DEF Prepared
<1>2. a.flags \subseteq Flags /\ a.speed \in Speeds \cup {0}
  BY DEF Attributes
<1>3. tenths # NoTimeout => tenths \in Int
  BY SerialConstants
<1> HIDE DEF w
<1>4. w \in Attributes
  <2>1. w.flags \subseteq Flags
    BY <1>1, <1>2 DEF Flags
  <2>2. w.vtime \in 0 .. 255 /\ w.vmin \in 0 .. 255
    BY <1>1, <1>3
  <2> QED BY <1>1, <1>2, <2>1, <2>2 DEF Attributes
<1>5. /\ \A K, T : ~LastOf(s, 0, K, T)
      /\ \A K : ~Occurs(s, 0, K)
      /\ ~\E m \in 1 .. 0 : s[m].num = 2
  BY DEF LastOf, Occurs
<1>6. ParityMeans(w, a, s, 0)
  BY <1>1, <1>5 DEF ParityMeans, SetOrLeft, RawClears
<1>7. LineMeans(w, a, s, 0)
  BY <1>1, <1>5 DEF LineMeans, SetOrLeft, RawClears
<1>8. NumbersMean(w, a, s, 0)
  BY <1>1, <1>5 DEF NumbersMean, LastNumber
<1>9. /\ tenths = NoTimeout => w.vmin = 1
      /\ tenths \in 0 .. 255 => w.vmin = 0 /\ w.vtime = tenths
  <2>1. tenths \in 0 .. 255 => tenths # NoTimeout
    BY SerialConstants
  <2>2. tenths \in 0 .. 255 => tenths % 256 = tenths
    OBVIOUS
  <2> QED BY <1>1, <2>1, <2>2
<1>10. ReportMeans(NoReport, w)
  BY <1>1 DEF ReportMeans, NoReport, RawClears
<1> QED BY <1>4, <1>6, <1>7, <1>8, <1>9, <1>10 DEF Means, w

\* One token more.
LEMMA MeansStep ==
  ASSUME NEW w \in Attributes, NEW a \in Attributes, NEW s \in Seq(Tokens),
         NEW n \in Nat, n < Len(s), ~Refused(s[n + 1]), Means(w, a, s, n)
  PROVE  Means(WithToken(w, s[n + 1]), a, s, n + 1)
<1> DEFINE t == s[n + 1]
<1> SUFFICES ASSUME NEW v, v = WithToken(w, t) PROVE Means(v, a, s, n + 1)
  OBVIOUS
<1>1. t \in Tokens /\ ~Refused(t)
  OBVIOUS
<1> HIDE DEF t
<1>2. Effect(w, t, v)
  BY <1>1, TokenSets DEF t
<1>3. Kind(t) \in {"speed", "bits", "ignored", "stopBits"} \cup Letters
      /\ (t.num = 2 <=> Kind(t) = "stopBits" /\ t.num = 2)
  BY <1>1, TokenKinds DEF Letters
<1>4. \A K, T : LastOf(s, n + 1, K, T) <=>
                  IF Kind(t) \in K THEN Kind(t) \in T ELSE LastOf(s, n, K, T)
  BY LastOfStep DEF t
<1>5. \A K : Occurs(s, n + 1, K) <=> Occurs(s, n, K) \/ Kind(t) \in K
  BY OccursStep DEF t
<1>6. (\E m \in 1 .. (n + 1) : s[m].num = 2) <=> (\E m \in 1 .. n : s[m].num = 2) \/ t.num = 2
  BY DEF t
<1>7. ParityMeans(w, a, s, n) /\ LineMeans(w, a, s, n) /\ NumbersMean(w, a, s, n)
  BY DEF Means
<1>8. ParityMeans(v, a, s, n + 1)
  <2>1. CASE Kind(t) \in {"speed", "bits", "ignored", "l", "stopBits", "x", "h"}
    <3>1. "PARENB" \in v.flags <=> "PARENB" \in w.flags
      BY <1>2, <2>1 DEF Effect
    <3>2. "PARODD" \in v.flags <=> "PARODD" \in w.flags
      BY <1>2, <2>1 DEF Effect
    <3>3. "CMSPAR" \in v.flags <=> "CMSPAR" \in w.flags
      BY <1>2, <2>1 DEF Effect
    <3>4. Kind(t) \notin Parities
      BY <2>1 DEF Parities
    <3> QED BY <1>4, <1>5, <1>7, <3>1, <3>2, <3>3, <3>4 DEF ParityMeans, SetOrLeft, Parities
  <2>2. CASE Kind(t) = "n"
    BY <1>2, <1>4, <1>5, <1>7, <2>2 DEF Effect, ParityMeans, SetOrLeft
  <2>3. CASE Kind(t) = "e"
    BY <1>2, <1>4, <1>5, <1>7, <2>3 DEF Effect, ParityMeans, SetOrLeft
  <2>4. CASE Kind(t) = "o"
    BY <1>2, <1>4, <1>5, <1>7, <2>4 DEF Effect, ParityMeans, SetOrLeft
  <2>5. CASE Kind(t) = "s"
    BY <1>2, <1>4, <1>5, <1>7, <2>5 DEF Effect, ParityMeans, SetOrLeft
  <2>6. CASE Kind(t) = "m"
    BY <1>2, <1>4, <1>5, <1>7, <2>6 DEF Effect, ParityMeans, SetOrLeft
  <2> QED BY <1>3, <2>1, <2>2, <2>3, <2>4, <2>5, <2>6 DEF Letters
<1>9. LineMeans(v, a, s, n + 1)
  <2>1. CASE Kind(t) \in {"speed", "bits", "ignored", "l"} \cup Parities
    <3>1. v.flags \ {"PARENB", "PARODD", "CMSPAR"} = w.flags \ {"PARENB", "PARODD", "CMSPAR"}
      BY <1>2, <2>1 DEF Effect, Parities
    <3>2. Kind(t) \notin {"stopBits", "x", "h"} /\ t.num # 2
      BY <1>3, <2>1 DEF Parities
    <3>3. v.flags \cap (RawClears \ {"PARENB", "IXON"}) = {}
      BY <1>7, <3>1 DEF LineMeans, RawClears
    <3> QED BY <1>5, <1>6, <1>7, <3>1, <3>2, <3>3 DEF LineMeans, SetOrLeft
  <2>2. CASE Kind(t) = "stopBits"
    BY <1>2, <1>5, <1>6, <1>7, <2>2 DEF Effect, LineMeans, SetOrLeft, RawClears
  <2>3. CASE Kind(t) = "x"
    BY <1>2, <1>3, <1>5, <1>6, <1>7, <2>3 DEF Effect, LineMeans, SetOrLeft, RawClears
  <2>4. CASE Kind(t) = "h"
    BY <1>2, <1>3, <1>5, <1>6, <1>7, <2>4 DEF Effect, LineMeans, SetOrLeft, RawClears
  <2> QED BY <1>3, <2>1, <2>2, <2>3, <2>4 DEF Letters, Parities
<1>10. NumbersMean(v, a, s, n + 1)
  <2>1. /\ v.speed = (IF Kind(t) = "speed" THEN t.num ELSE w.speed)
        /\ v.bits = (IF Kind(t) = "bits" THEN t.num ELSE w.bits)
    BY <1>2 DEF Effect
  <2>2. \A D : LastNumber(s, n, "speed", w.speed, D) => LastNumber(s, n + 1, "speed", v.speed, D)
    BY <2>1, LastNumberStep DEF t
  <2>3. \A D : LastNumber(s, n, "bits", w.bits, D) => LastNumber(s, n + 1, "bits", v.bits, D)
    BY <2>1, LastNumberStep DEF t
  <2> QED BY <1>7, <2>2, <2>3 DEF NumbersMean
<1> QED BY <1>8, <1>9, <1>10 DEF Means

-----------------------------------------------------------------------------
(* The report and the copy, token by token.                                 *)

LEMMA ReportStep ==
  ASSUME NEW w \in Attributes, NEW t \in Tokens, ~Refused(t),
         NEW r \in Reports, NEW b \in BOOLEAN, ReportMeans(r, w)
  PROVE  /\ Reported(r, t, b) \in Reports
         /\ ReportMeans(Reported(r, t, b), WithToken(w, t))
         /\ Reported(r, t, b).loop =
              IF Kind(t) = "l" THEN IF b THEN "no TIOCMGET" ELSE "Loopback" ELSE r.loop
<1> SUFFICES ASSUME NEW v, v = WithToken(w, t), NEW q, q = Reported(r, t, b)
             PROVE  /\ q \in Reports /\ ReportMeans(q, v)
                    /\ q.loop = IF Kind(t) = "l" THEN IF b THEN "no TIOCMGET" ELSE "Loopback"
                                                ELSE r.loop
  OBVIOUS
<1>1. Effect(w, t, v)
  BY TokenSets
<1>2. \/ Kind(t) = "speed" /\ t.num \in Speeds /\ t.num > 8
      \/ Kind(t) = "bits" /\ t.num \in 5 .. 8
      \/ Kind(t) = "ignored"
      \/ Kind(t) = "stopBits" /\ t.num \in {1, 2}
      \/ Kind(t) \in Letters /\ Kind(t) = t.letter
  BY TokenKinds
<1>3. /\ ParityName["n"] = "None" /\ ParityName["e"] = "Even" /\ ParityName["o"] = "Odd"
      /\ ParityName["s"] = "Space" /\ ParityName["m"] = "Mark"
  BY DEF ParityName
<1>4. /\ r.speed \in Speeds \cup {0} /\ r.bits \in {0} \cup 5 .. 8 /\ r.stopBits \in 0 .. 2
      /\ r.parity \in {"unset", "None", "Even", "Odd", "Space", "Mark"}
      /\ r.xon \in BOOLEAN /\ r.hw \in BOOLEAN
      /\ r.loop \in {"unset", "Loopback", "no TIOCMGET", "no TIOCMSET"}
      /\ r = [speed |-> r.speed, bits |-> r.bits, stopBits |-> r.stopBits,
              parity |-> r.parity, xon |-> r.xon, hw |-> r.hw, loop |-> r.loop]
  BY DEF Reports
<1>5. CASE Kind(t) = "speed"
  <2>1. q = [r EXCEPT !.speed = t.num]
    BY <1>5 DEF Reported
  <2>2. /\ q.speed = t.num
        /\ q.bits = r.bits /\ q.stopBits = r.stopBits /\ q.parity = r.parity
        /\ q.xon = r.xon /\ q.hw = r.hw /\ q.loop = r.loop
    BY <1>4, <2>1
  <2>3. q \in Reports
    BY <1>2, <1>4, <1>5, <2>1 DEF Reports, Letters
  <2> QED BY <1>1, <1>2, <1>4, <1>5, <2>2, <2>3 DEF Effect, ReportMeans, Letters
<1>6. CASE Kind(t) = "bits"
  <2>1. q = [r EXCEPT !.bits = t.num]
    BY <1>6 DEF Reported
  <2>2. /\ q.bits = t.num
        /\ q.speed = r.speed /\ q.stopBits = r.stopBits /\ q.parity = r.parity
        /\ q.xon = r.xon /\ q.hw = r.hw /\ q.loop = r.loop
    BY <1>4, <2>1
  <2>3. q \in Reports
    BY <1>2, <1>4, <1>6, <2>1 DEF Reports, Letters
  <2>4. t.num # 0 /\ v.bits = t.num /\ v.speed = w.speed /\ v.flags = w.flags
    BY <1>1, <1>2, <1>6 DEF Effect, Letters
  <2> QED BY <1>6, <2>2, <2>3, <2>4 DEF ReportMeans
<1>7. CASE Kind(t) = "ignored"
  <2>1. q = r
    BY <1>7 DEF Reported
  <2> QED BY <1>1, <1>7, <2>1 DEF Effect, ReportMeans
<1>8. CASE Kind(t) = "stopBits"
  <2>1. q = [r EXCEPT !.stopBits = t.num]
    BY <1>8 DEF Reported
  <2>2. /\ q.stopBits = t.num
        /\ q.speed = r.speed /\ q.bits = r.bits /\ q.parity = r.parity
        /\ q.xon = r.xon /\ q.hw = r.hw /\ q.loop = r.loop
    BY <1>4, <2>1
  <2>3. t.num \in {1, 2}
    BY <1>2, <1>8 DEF Letters
  <2>4. q \in Reports
    <3>1. t.num \in 0 .. 2
      BY <2>3
    <3> QED BY <2>1, <3>1 DEF Reports
  <2>5. /\ v.speed = w.speed /\ v.bits = w.bits
        /\ v.flags = (IF t.num = 2 THEN w.flags \cup {"CSTOPB"} ELSE w.flags)
    BY <1>1, <1>8 DEF Effect
  <2>6. w.flags \subseteq v.flags /\ (t.num = 2 => "CSTOPB" \in v.flags)
        /\ ("PARENB" \in v.flags => "PARENB" \in w.flags)
        /\ ("PARODD" \in v.flags => "PARODD" \in w.flags)
    BY <2>5
  <2> QED BY <1>8, <2>2, <2>4, <2>5, <2>6 DEF ReportMeans
<1>9. CASE Kind(t) \in Parities
  <2>1. q = [r EXCEPT !.parity = ParityName[Kind(t)]]
    BY <1>2, <1>9 DEF Reported, Parities
  <2>2. /\ q.parity = ParityName[Kind(t)]
        /\ q.speed = r.speed /\ q.bits = r.bits /\ q.stopBits = r.stopBits
        /\ q.xon = r.xon /\ q.hw = r.hw /\ q.loop = r.loop
    BY <1>4, <2>1
  <2>3. q \in Reports
    <3>1. ParityName[Kind(t)] \in {"None", "Even", "Odd", "Space", "Mark"}
      BY <1>3, <1>9 DEF Parities
    <3> QED BY <1>4, <2>1, <3>1 DEF Reports
  <2>4. ReportMeans(q, v)
    <3>1. CASE Kind(t) = "n"
      BY <1>1, <1>3, <2>2, <3>1 DEF Effect, ReportMeans
    <3>2. CASE Kind(t) = "e"
      BY <1>1, <1>3, <2>2, <3>2 DEF Effect, ReportMeans
    <3>3. CASE Kind(t) = "o"
      BY <1>1, <1>3, <2>2, <3>3 DEF Effect, ReportMeans
    <3>4. CASE Kind(t) = "s"
      BY <1>1, <1>3, <2>2, <3>4 DEF Effect, ReportMeans
    <3>5. CASE Kind(t) = "m"
      BY <1>1, <1>3, <2>2, <3>5 DEF Effect, ReportMeans
    <3> QED BY <1>9, <3>1, <3>2, <3>3, <3>4, <3>5 DEF Parities
  <2> QED BY <1>9, <2>2, <2>3, <2>4 DEF Parities
<1>10. CASE Kind(t) = "x"
  <2>1. q = [r EXCEPT !.xon = TRUE]
    BY <1>10 DEF Reported
  <2>2. /\ q.xon = TRUE
        /\ q.speed = r.speed /\ q.bits = r.bits /\ q.stopBits = r.stopBits
        /\ q.parity = r.parity /\ q.hw = r.hw /\ q.loop = r.loop
    BY <1>4, <2>1
  <2>3. q \in Reports
    BY <1>2, <1>4, <1>10, <2>1 DEF Reports, Letters
  <2> QED BY <1>1, <1>2, <1>4, <1>10, <2>2, <2>3 DEF Effect, ReportMeans, Letters
<1>11. CASE Kind(t) = "h"
  <2>1. q = [r EXCEPT !.hw = TRUE]
    BY <1>11 DEF Reported
  <2>2. /\ q.hw = TRUE
        /\ q.speed = r.speed /\ q.bits = r.bits /\ q.stopBits = r.stopBits
        /\ q.parity = r.parity /\ q.xon = r.xon /\ q.loop = r.loop
    BY <1>4, <2>1
  <2>3. q \in Reports
    BY <1>2, <1>4, <1>11, <2>1 DEF Reports, Letters
  <2> QED BY <1>1, <1>2, <1>4, <1>11, <2>2, <2>3 DEF Effect, ReportMeans, Letters
<1>12. CASE Kind(t) = "l"
  <2>1. q = [r EXCEPT !.loop = (IF b THEN "no TIOCMGET" ELSE "Loopback")]
    BY <1>12 DEF Reported
  <2>2. /\ q.loop = (IF b THEN "no TIOCMGET" ELSE "Loopback")
        /\ q.speed = r.speed /\ q.bits = r.bits /\ q.stopBits = r.stopBits
        /\ q.parity = r.parity /\ q.xon = r.xon /\ q.hw = r.hw
    BY <1>4, <2>1
  <2>3. q \in Reports
    BY <1>2, <1>4, <1>12, <2>1 DEF Reports, Letters
  <2> QED BY <1>1, <1>2, <1>4, <1>12, <2>2, <2>3 DEF Effect, ReportMeans, Letters
<1> QED
  BY <1>2, <1>5, <1>6, <1>7, <1>8, <1>9, <1>10, <1>11, <1>12 DEF Letters, Parities

-----------------------------------------------------------------------------
(* The invariant.                                                           *)

Copied == {"TIOCMGET", "tokens", "TCSETS", "returned"}
Looping == {"tokens", "TCSETS", "returned"}
Written == {"TCSETS", "returned"}

\* The copy is what the tokens done make of the attributes read.
CopyMeans ==
  pc \in Copied =>
    /\ Means(word, before, settings, k)
    /\ timeout = NoTimeout => word.vmin = 1
    /\ timeout \in 0 .. 255 => word.vmin = 0 /\ word.vtime = timeout

\* The tokens done were not refused, and nothing is written before all are.
Stages ==
  /\ pc \in {"TCGETS", "TIOCMGET"} => k = 0
  /\ pc \in Looping => \A n \in 1 .. k : ~Refused(settings[n])
  /\ pc \in Written => k = Len(settings)
  /\ pc \in {"TCGETS", "TIOCMGET", "tokens"} => wrote = {}
  /\ wrote # {} => \A n \in 1 .. Len(settings) : ~Refused(settings[n])
  /\ "attributes" \in wrote => pc = "returned"

\* The report says what the copy and the modem lines have.
ReportMatches ==
  /\ pc \in {"TCGETS", "TIOCMGET"} => serial = NoReport
  /\ pc \in Copied => ReportMeans(serial, word)
  /\ pc \in Looping /\ serial.loop = "Loopback" => "LOOP" \in lines /\ ~noLoop
  /\ pc \in Written /\ serial.loop = "Loopback" => "modem" \in wrote

IInv == TypeOK /\ CopyMeans /\ Stages /\ ReportMatches

LEMMA InitIInv == Init => IInv
<1> SUFFICES ASSUME Init PROVE IInv
  OBVIOUS
<1>1. /\ Zero \in Attributes /\ NoReport \in Reports /\ port \in Attributes
      /\ settings \in Seq(Tokens) /\ Len(settings) = 0
  <2>1. Zero \in Attributes
    BY DEF Zero, Attributes
  <2>2. NoReport \in Reports
    BY DEF NoReport, Reports
  <2> QED BY <2>1, <2>2, SerialConstants DEF Init
<1>2. TypeOK
  <2>1. k \in 0 .. Len(settings)
    BY <1>1 DEF Init
  <2>2. /\ modem \in SUBSET {"LOOP"} /\ lines \in SUBSET {"LOOP"}
        /\ wrote \in SUBSET {"modem", "attributes"} /\ pc \in Calls
        /\ timeout \in Timeouts \cup {NoTimeout} /\ noLoop \in BOOLEAN
    BY DEF Init, Calls
  <2> QED BY <1>1, <2>1, <2>2 DEF Init, TypeOK
<1>3. CopyMeans /\ Stages /\ ReportMatches
  BY DEF Init, CopyMeans, Stages, ReportMatches, Copied, Looping, Written
<1> QED BY <1>2, <1>3 DEF IInv

LEMMA NextIInv == IInv /\ [Next]_vars => IInv'
<1> SUFFICES ASSUME IInv, [Next]_vars PROVE IInv'
  OBVIOUS
<1> USE DEF IInv
<1>1. CASE UNCHANGED vars
  <2>1. TypeOK'
    BY <1>1 DEF TypeOK, vars, local
  <2>2. CopyMeans'
    BY <1>1 DEF CopyMeans, vars, local, Means, ParityMeans, LineMeans, NumbersMean
  <2>3. Stages' /\ ReportMatches'
    BY <1>1 DEF Stages, ReportMatches, vars, local
  <2> QED BY <2>1, <2>2, <2>3
<1>2. ASSUME NEW s \in Settings, NEW tenths \in Timeouts \cup {NoTimeout}, SetSerial(s, tenths)
      PROVE  IInv'
  <2>1. Zero \in Attributes /\ NoReport \in Reports /\ s \in Seq(Tokens) /\ 0 \in 0 .. Len(s)
    <3>1. Zero \in Attributes
      BY DEF Zero, Attributes
    <3>2. NoReport \in Reports
      BY DEF NoReport, Reports
    <3> QED BY <3>1, <3>2, SerialConstants
  <2>2. TypeOK'
    BY <1>2, <2>1 DEF SetSerial, TypeOK, Calls
  <2>3. CopyMeans' /\ Stages' /\ ReportMatches'
    BY <1>2 DEF SetSerial, CopyMeans, Stages, ReportMatches, Copied, Looping, Written
  <2> QED BY <2>2, <2>3
<1>3. ASSUME Throws("TCGETS") \/ Throws("TCSETS") PROVE IInv'
  <2>1. TypeOK'
    BY <1>3 DEF Throws, TypeOK, Calls, local
  <2>2. CopyMeans' /\ Stages' /\ ReportMatches'
    BY <1>3 DEF Throws, CopyMeans, Stages, ReportMatches, Copied, Looping, Written, local
  <2> QED BY <2>1, <2>2
<1>4. CASE ReadAttributes
  <2>1. port \in Attributes /\ timeout \in Timeouts \cup {NoTimeout} /\ k = 0
    BY <1>4 DEF ReadAttributes, TypeOK, Stages
  <2>2. /\ word' = Prepared(port, timeout) /\ before' = port
        /\ k' = 0 /\ settings' = settings /\ timeout' = timeout /\ pc' = "TIOCMGET"
    BY <1>4, <2>1 DEF ReadAttributes
  <2>3. /\ word' \in Attributes /\ Means(word', port, settings, 0) /\ ReportMeans(NoReport, word')
        /\ timeout = NoTimeout => word'.vmin = 1
        /\ timeout \in 0 .. 255 => word'.vmin = 0 /\ word'.vtime = timeout
    BY <2>1, <2>2, PreparedMeans
  <2>4. TypeOK'
    BY <1>4, <2>3 DEF ReadAttributes, TypeOK, Calls
  <2>5. CopyMeans'
    BY <2>2, <2>3 DEF CopyMeans
  <2>6. Stages' /\ ReportMatches'
    BY <1>4, <2>3 DEF ReadAttributes, Stages, ReportMatches, Looping, Written
  <2> QED BY <2>4, <2>5, <2>6
<1>5. CASE ReadModem
  <2>1. TypeOK'
    BY <1>5 DEF ReadModem, TypeOK, Calls
  <2>2. CopyMeans'
    BY <1>5 DEF ReadModem, CopyMeans, Copied
  <2>3. Stages'
    BY <1>5 DEF ReadModem, Stages, TypeOK, Looping, Written
  <2>4. ReportMatches'
    <3>1. serial = NoReport /\ serial' = serial /\ ReportMeans(serial, word) /\ word' = word
      BY <1>5 DEF ReadModem, ReportMatches, Copied
    <3>2. NoReport.loop = "unset"
      BY DEF NoReport
    <3> QED BY <1>5, <3>1, <3>2 DEF ReadModem, ReportMatches, Written
  <2> QED BY <2>1, <2>2, <2>3, <2>4
<1>6. CASE ApplyToken
  <2> DEFINE t == settings[k + 1]
  <2>1. /\ pc = "tokens" /\ pc' = "tokens" /\ k < Len(settings) /\ ~Refused(t) /\ k' = k + 1
        /\ word' = WithToken(word, t) /\ serial' = Reported(serial, t, noLoop)
        /\ lines' = IF Kind(t) = "l" /\ ~noLoop THEN lines \cup {"LOOP"} ELSE lines
        /\ UNCHANGED <<port, modem, wrote, settings, timeout, noLoop, before>>
    BY <1>6 DEF ApplyToken
  <2>2. /\ k \in Nat /\ settings \in Seq(Tokens) /\ t \in Tokens
        /\ word \in Attributes /\ before \in Attributes
        /\ serial \in Reports /\ noLoop \in BOOLEAN
    BY <2>1 DEF TypeOK
  <2>3. /\ word' \in Attributes /\ word'.vmin = word.vmin /\ word'.vtime = word.vtime
    BY <2>1, <2>2, TokenSets DEF Effect
  <2>4. Means(word', before, settings, k + 1)
    BY <2>1, <2>2, MeansStep DEF CopyMeans, Copied
  <2>5. /\ serial' \in Reports /\ ReportMeans(serial', word')
        /\ serial'.loop = IF Kind(t) = "l" THEN IF noLoop THEN "no TIOCMGET" ELSE "Loopback"
                                          ELSE serial.loop
    BY <2>1, <2>2, ReportStep DEF ReportMatches, Copied
  <2>6. TypeOK'
    <3>1. k' \in 0 .. Len(settings')
      BY <2>1, <2>2
    <3>2. lines' \in SUBSET {"LOOP"}
      BY <2>1 DEF TypeOK
    <3> QED BY <2>1, <2>3, <2>5, <3>1, <3>2 DEF TypeOK
  <2>7. CopyMeans'
    BY <2>1, <2>3, <2>4 DEF CopyMeans, Copied
  <2>8. Stages'
    BY <2>1, <2>2 DEF Stages, Looping, Written
  <2>9. ReportMatches'
    BY <2>1, <2>5 DEF ReportMatches, Looping, Written
  <2> QED BY <2>6, <2>7, <2>8, <2>9
<1>7. CASE RefuseToken
  <2>1. TypeOK'
    BY <1>7 DEF RefuseToken, TypeOK, Calls, local
  <2>2. CopyMeans' /\ Stages' /\ ReportMatches'
    BY <1>7 DEF RefuseToken, CopyMeans, Stages, ReportMatches, Copied, Looping, Written, local
  <2> QED BY <2>1, <2>2
<1>8. CASE WriteModem
  <2>1. /\ pc = "tokens" /\ k = Len(settings) /\ pc' = "TCSETS"
        /\ UNCHANGED <<port, k, settings, timeout, word, lines, noLoop, before>>
    BY <1>8 DEF WriteModem, local
  <2>2. /\ serial' = serial \/ serial' = [serial EXCEPT !.loop = "no TIOCMSET"]
        /\ serial'.loop = "Loopback" => serial' = serial /\ (noLoop \/ "modem" \in wrote')
        /\ wrote' = wrote \/ wrote' = wrote \cup {"modem"}
        /\ modem' \in {modem, lines}
    BY <1>8 DEF WriteModem, TypeOK, Reports
  <2>3. ReportMeans(serial, word) /\ serial \in Reports
    BY <2>1 DEF ReportMatches, Copied, TypeOK
  <2>4. ReportMeans(serial', word') /\ serial' \in Reports
    <3>1. CASE serial' = serial
      BY <2>1, <2>3, <3>1
    <3>2. CASE serial' = [serial EXCEPT !.loop = "no TIOCMSET"]
      <4>1. serial' \in Reports
        BY <2>3, <3>2 DEF Reports
      <4>2. /\ serial'.speed = serial.speed /\ serial'.bits = serial.bits
            /\ serial'.stopBits = serial.stopBits /\ serial'.parity = serial.parity
            /\ serial'.xon = serial.xon /\ serial'.hw = serial.hw
        BY <2>3, <3>2 DEF Reports
      <4> QED BY <2>1, <2>3, <4>1, <4>2 DEF ReportMeans
    <3> QED BY <2>2, <3>1, <3>2
  <2>5. TypeOK'
    BY <2>1, <2>2, <2>4 DEF TypeOK, Calls
  <2>6. CopyMeans'
    BY <2>1 DEF CopyMeans, Copied
  <2>7. Stages'
    BY <2>1, <2>2 DEF Stages, Looping, Written
  <2>8. ReportMatches'
    BY <2>1, <2>2, <2>4 DEF ReportMatches, Looping, Written
  <2> QED BY <2>5, <2>6, <2>7, <2>8
<1>9. CASE WriteAttributes
  <2>1. TypeOK'
    BY <1>9 DEF WriteAttributes, TypeOK, Calls, local
  <2>2. CopyMeans'
    BY <1>9 DEF WriteAttributes, CopyMeans, Copied, local
  <2>3. Stages'
    BY <1>9 DEF WriteAttributes, Stages, Looping, Written, local
  <2>4. ReportMatches'
    BY <1>9 DEF WriteAttributes, ReportMatches, Copied, Looping, Written, local
  <2> QED BY <2>1, <2>2, <2>3, <2>4
<1>10. CASE OtherProgram
  <2>1. TypeOK'
    BY <1>10, SerialConstants DEF OtherProgram, TypeOK, local
  <2>2. CopyMeans' /\ Stages' /\ ReportMatches'
    BY <1>10 DEF OtherProgram, CopyMeans, Stages, ReportMatches, local
  <2> QED BY <2>1, <2>2
<1> QED
  BY <1>1, <1>2, <1>3, <1>4, <1>5, <1>6, <1>7, <1>8, <1>9, <1>10 DEF Next

LEMMA Invariance == Spec => []IInv
<1> QED BY InitIInv, NextIInv, PTL DEF Spec

-----------------------------------------------------------------------------
(* The theorems.                                                            *)

\* Every variable has its type, whatever the string and the other program.
THEOREM TypeCorrect == Spec => []TypeOK
<1>1. IInv => TypeOK
  BY DEF IInv
<1> QED BY <1>1, Invariance, PTL

\* When io_set_serial returns, the port has what the string asks for, for
\* strings of any length and in any order; of what it does not mention only what
\* PortSetAsAsked lists is promised.
THEOREM SetAsAsked == Spec => PortSetAsAsked
<1>1. IInv /\ [Next]_vars =>
        [pc = "TCSETS" /\ pc' = "returned" =>
           /\ Means(port', before, settings, Len(settings))
           /\ timeout = NoTimeout => port'.vmin = 1
           /\ timeout \in 0 .. 255 => port'.vmin = 0 /\ port'.vtime = timeout]_vars
  <2> SUFFICES ASSUME IInv, Next, pc = "TCSETS", pc' = "returned"
               PROVE  /\ Means(port', before, settings, Len(settings))
                      /\ timeout = NoTimeout => port'.vmin = 1
                      /\ timeout \in 0 .. 255 => port'.vmin = 0 /\ port'.vtime = timeout
    OBVIOUS
  <2>1. port' = word
    BY DEF Next, SetSerial, Throws, ReadAttributes, ReadModem, ApplyToken, RefuseToken,
           WriteModem, WriteAttributes, OtherProgram
  <2>2. k = Len(settings)
    BY DEF IInv, Stages, Written
  <2> QED BY <2>1, <2>2 DEF IInv, CopyMeans, Copied
<1> QED BY <1>1, Invariance, PTL DEF Spec, PortSetAsAsked

\* A call that throws leaves the attributes alone, one whose string is refused
\* the modem lines too.
THEOREM NoHarm == Spec => []FailureHarmless
<1>1. IInv => FailureHarmless
  BY DEF IInv, Stages, FailureHarmless
<1> QED BY <1>1, Invariance, PTL

\* The array io_set_serial returns says what the port is given, one stop bit, the
\* stick bit, a parity bit for mark and space, and IXOFF excepted as ReportTrue says.
THEOREM HonestReport == Spec => []ReportTrue
<1>1. IInv => ReportTrue
  <2> SUFFICES ASSUME IInv, pc = "returned" PROVE ReportTrue
    BY DEF ReportTrue
  <2>1. ReportMeans(serial, word) /\ (serial.loop = "Loopback" => "LOOP" \in lines /\ "modem" \in wrote)
    BY DEF IInv, ReportMatches, Copied, Looping, Written
  <2>2. ParityMeans(word, before, settings, Len(settings))
        /\ LineMeans(word, before, settings, Len(settings))
    BY DEF IInv, Stages, CopyMeans, Copied, Written, Means
  <2> QED BY <2>1, <2>2 DEF ReportTrue, ReportMeans, ParityMeans, LineMeans, SetOrLeft
<1> QED BY <1>1, Invariance, PTL
=============================================================================
