------------------------------- MODULE MCIoctl -------------------------------
\* Ioctl with an int of 4 bits, a long of 8 and a byte of 1.
EXTENDS Ioctl

W(i, o, c, l, line) ==
  [flag |-> [c_iflag |-> i, c_oflag |-> o, c_cflag |-> c, c_lflag |-> l], line |-> line]

\* The two differ in every field, and in both halves of every field.
MCWords == {W(1, 5, 14, 9, 0), W(6, 10, 3, 4, 1)}

\* Nothing, a negative flag word and a line beyond a byte, speeds, a speed alone,
\* a number too large, and what TCGETS has returned.
MCArrays == {<< >>, [c_iflag |-> -1, c_line |-> 3],
  [c_ispeed |-> 4, c_ospeed |-> 7], [c_ispeed |-> 4], [c_cflag |-> 8]}
  \cup {Saved(w) : w \in MCWords}

\* Both ends of int, and 8, which is no int.
MCArguments == {-8, -1, 0, 7, 8}

MCClock == {<<0, 3>>, <<7, 0>>}

MCDevices == {
  {"TIOCMSET", "TIOCMGET", "TCFLSH", "TIOCEXCL", "TIOCSTI", "KDGETLED"},
  {"TIOCGPGRP", "TIOCSPGRP", "SIOCGSTAMP"},
  {"BLKGETSIZE", "BLKRAGET"},
  {"FAT_IOCTL_GET_ATTRIBUTES", "FAT_IOCTL_SET_ATTRIBUTES"},
  {"SNDCTL_DSP_SPEED"},
  {"TCGETS", "TCSETS"},
  {"TCGETS", "TCGETA", "TIOCGLCKTRMIOS", "TIOCSLCKTRMIOS"},
  {"TCSETA"}}
=============================================================================
