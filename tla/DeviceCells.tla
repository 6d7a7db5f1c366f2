----------------------------- MODULE DeviceCells -----------------------------
(***************************************************************************)
(* What io_ioctl promises of commands on a number: a device has numbers of *)
(* its own types, signed or not, which scripts put and get as ints and     *)
(* which change on their own.  Of a number that no int has the bits of, a  *)
(* script is promised nothing.                                             *)
(***************************************************************************)
EXTENDS Integers

CONSTANTS Cells,
          Holds,        \* per cell: the numbers it holds
          Modulus,      \* per cell: one more than the largest number of its width
          Ints,         \* what a script can pass and be told
          Tunable       \* the cells that need not take exactly the number put
VARIABLES cell, answer

Nothing == [of |-> "none", asked |-> 0, n |-> 0]

\* The number v of cell r is the int n, or has its bits.
Same(r, v, n) == v = n \/ v = n + Modulus[r]

\* A script is told n of v: the int that has its bits, if there is one.
Told(r, v, n) == n \in Ints /\ ((\E i \in Ints : Same(r, v, i)) => Same(r, v, n))

Init == cell \in [Cells -> UNION {Holds[r] : r \in Cells}] /\ answer = Nothing

\* A script puts a number, the device takes v, and the script is told.
Put(r, v, asked, n) ==
  /\ cell' = [cell EXCEPT ![r] = v]
  /\ answer' = [of |-> r, asked |-> asked, n |-> n]
  /\ r \notin Tunable => Same(r, v, asked)
  /\ Told(r, v, n)

\* A script gets a number, whatever it passes.
Get(r, asked, n) ==
  /\ answer' = [of |-> r, asked |-> asked, n |-> n]
  /\ UNCHANGED cell
  /\ Told(r, cell[r], n)

\* A call about something else, or one that fails.
Other == answer' = Nothing /\ UNCHANGED cell

Change(r, v) == cell' = [cell EXCEPT ![r] = v] /\ answer' = Nothing

Next ==
  \/ Other
  \/ \E r \in Cells :
       \/ \E asked \in Ints, n \in Ints : Get(r, asked, n)
       \/ \E v \in Holds[r] : Change(r, v)
       \/ \E v \in Holds[r] : cell'[r] = v /\ \E asked \in Ints, n \in Ints : Put(r, v, asked, n)

Spec == Init /\ [][Next]_<<cell, answer>>
=============================================================================
