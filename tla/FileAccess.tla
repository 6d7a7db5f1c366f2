------------------------------ MODULE FileAccess ------------------------------
(***************************************************************************)
(* What io_open promises with its lock, without descriptors: a process has *)
(* access to a file for reading, shared, or for writing, alone, until it   *)
(* gives the access up.  An access is taken at once or not at all.         *)
(***************************************************************************)
CONSTANTS Procs, Files

VARIABLE access       \* what every process may do with every file

Kinds == {"read", "write"}

Init == access = [p \in Procs |-> [f \in Files |-> "none"]]

\* The accesses two processes cannot have together.
Conflict(a, b) == "none" \notin {a, b} /\ "write" \in {a, b}

Acquire(p, f, kind) ==
  /\ access[p][f] = "none"
  /\ \A q \in Procs \ {p} : ~Conflict(kind, access[q][f])
  /\ access' = [access EXCEPT ![p][f] = kind]

\* A process gives up some of its accesses; its end gives up all of them.
Release(p, S) ==
  /\ \E f \in S : access[p][f] # "none"
  /\ access' = [access EXCEPT ![p] =
                  [f \in Files |-> IF f \in S THEN "none" ELSE access[p][f]]]

Next ==
  \E p \in Procs :
    \/ \E f \in Files, kind \in Kinds : Acquire(p, f, kind)
    \/ \E S \in SUBSET Files : Release(p, S)

Spec == Init /\ [][Next]_access
=============================================================================
