-------------------------- MODULE MCSerialSettings --------------------------
\* SerialSettings with short strings of tokens.
EXTENDS SerialSettings

Number(n) == [num |-> n, letter |-> "0"]
Word(c) == [num |-> 0, letter |-> c]

\* Every pair of these: odd, even and mark parity, software flow control, and a
\* word that is unknown.
Combined == {Word(c) : c \in {"o", "e", "m", "x", "z"}}

\* And some strings with a speed, a speed there is no constant for, a word
\* length, a number without a meaning, no parity, a second stop bit and one after
\* it, loop back, space parity with hardware flow control.
Further == {<<Number(300)>>, <<Number(9)>>, <<Number(300), Number(7)>>,
            <<Number(3), Word("n")>>, <<Number(2), Word("l")>>, <<Word("l"), Word("z")>>,
            <<Number(2), Number(1)>>, <<Word("s"), Word("h")>>}

MCSettings == UNION {[1 .. n -> Combined] : n \in 0 .. 2} \cup Further

MCTokens == UNION {{s[n] : n \in DOMAIN s} : s \in MCSettings}

\* A port nobody has configured and one set up for software flow control with
\* mark parity at another speed.
Fresh == [flags |-> {"ICRNL", "IXON", "OPOST", "ECHO", "ICANON", "ISIG", "CREAD"},
          bits |-> 8, speed |-> 9600, vmin |-> 1, vtime |-> 0]

Configured == [flags |-> {"IXON", "IXOFF", "PARENB", "PARODD", "CMSPAR", "CLOCAL", "CREAD"},
               bits |-> 7, speed |-> 19200, vmin |-> 0, vtime |-> 5]

MCPorts == {Fresh, Configured}
=============================================================================
