------------------------------ MODULE FileLocks ------------------------------
(***************************************************************************)
(* io_open, io_write and io_close (basic.cpp) in several processes that    *)
(* share files.  io_open is not atomic: open(2) may create and truncate    *)
(* the file before fcntl(F_SETLK) asks for a lock on it, and when the lock *)
(* is refused the descriptor is closed before the exception is thrown.     *)
(*                                                                         *)
(* The kernel is external and modelled as the code uses it.  Its record    *)
(* locks belong to a process and a file, not to a descriptor: a process    *)
(* never conflicts with itself, a new lock replaces the one it had, and    *)
(* closing any descriptor of the file drops the lock.                      *)
(***************************************************************************)
EXTENDS OpenFlags, FiniteSets

CONSTANTS Procs,          \* the PHP processes with the extension loaded
          Files,          \* the files and devices they open
          Fds,            \* the descriptor numbers of one process
          FlagWords,      \* the words str2flags makes of the scripts' flags
          Modes,          \* the modes they pass
          NoFile, Nobody

ASSUME ConstantsApart ==
  /\ NoFile \notin Files
  /\ Nobody \notin Procs
  /\ Fds \subseteq Nat
  /\ FlagWords \subseteq SUBSET Bits
  /\ Modes \subseteq Int

VARIABLES
  perm,       \* the mode of every file, Absent when it does not exist
  content,    \* who wrote what a file holds, Nobody after a truncation
  fileOf,     \* the descriptor table of every process
  flagsOf,    \* the flags each descriptor was opened with
  locks,      \* the kernel's record locks
  holder,     \* who knows a descriptor: a call, a script, or no one any more
  call,       \* the io_ call a process is in, or how its last call ended
  reopened    \* history: a process has opened a file it had open already

vars == <<perm, content, fileOf, flagsOf, locks, holder, call, reopened>>

Absent == -1
Undefined == -2       \* the mode of a file created without a mode argument

Idle(out) == [step |-> "idle", fd |-> 0, out |-> out]

Init ==
  /\ perm \in [Files -> {Absent, 420}]
  /\ content = [f \in Files |-> Nobody]
  /\ fileOf = [p \in Procs |-> [fd \in Fds |-> NoFile]]
  /\ flagsOf = [p \in Procs |-> [fd \in Fds |-> {}]]
  /\ locks = [p \in Procs |-> [f \in Files |-> "none"]]
  /\ holder = [p \in Procs |-> [fd \in Fds |-> "free"]]
  /\ call = [p \in Procs |-> Idle("value")]
  /\ reopened = [p \in Procs |-> [f \in Files |-> FALSE]]

-----------------------------------------------------------------------------
(* The kernel.                                                              *)

Open(p, f) == {fd \in Fds : fileOf[p][fd] = f}

FreeFds(p) == {fd \in Fds : fileOf[p][fd] = NoFile}

\* The mode a file is created with; open(2) called without one takes what
\* happens to be in the register.
CreatedMode(mode, flags) ==
  IF EffectiveMode(mode, flags) > 0 THEN EffectiveMode(mode, flags) ELSE Undefined

\* fcntl refuses a write lock on a descriptor that is not open for writing.
\* The read lock is only asked for with flags 0, which can be read.
Lockable(flags) == LockType(flags) = "write" => Writable(flags)

\* Another process has a lock that excludes this one.
Conflict(p, f, type) ==
  \E q \in Procs \ {p} :
    locks[q][f] = "write" \/ (locks[q][f] = "read" /\ type = "write")

\* close(2) of an open descriptor: all locks the process has on the file go.
CloseFd(p, fd) ==
  LET f == fileOf[p][fd] IN
  /\ fileOf' = [fileOf EXCEPT ![p][fd] = NoFile]
  /\ flagsOf' = [flagsOf EXCEPT ![p][fd] = {}]
  /\ holder' = [holder EXCEPT ![p][fd] = "free"]
  /\ locks' = [locks EXCEPT ![p][f] = "none"]
  /\ reopened' = [reopened EXCEPT ![p][f] = reopened[p][f] /\ Open(p, f) # {fd}]

-----------------------------------------------------------------------------
(* io_open                                                                  *)

\* The flags are invalid or open(2) fails, for whatever reason.
IoOpenThrows(p) ==
  /\ call[p].step = "idle"
  /\ call' = [call EXCEPT ![p] = Idle("throw")]
  /\ UNCHANGED <<perm, content, fileOf, flagsOf, locks, holder, reopened>>

\* open(2) succeeds: it creates and truncates as the flags say and returns the
\* lowest free descriptor.  The file is not locked yet.
IoOpen(p, f, flags, mode) ==
  /\ call[p].step = "idle"
  /\ ~InvalidFlags(flags)
  /\ IF perm[f] = Absent THEN "CREAT" \in flags ELSE ~({"CREAT", "EXCL"} \subseteq flags)
  /\ \E fd \in FreeFds(p) :
       /\ \A other \in FreeFds(p) : fd <= other
       /\ fileOf' = [fileOf EXCEPT ![p][fd] = f]
       /\ flagsOf' = [flagsOf EXCEPT ![p][fd] = flags]
       /\ holder' = [holder EXCEPT ![p][fd] = "call"]
       /\ call' = [call EXCEPT ![p] = [step |-> "lock", fd |-> fd, out |-> "none"]]
  /\ perm' = [perm EXCEPT ![f] = IF @ = Absent THEN CreatedMode(mode, flags) ELSE @]
  /\ content' = [content EXCEPT ![f] = IF "TRUNC" \in flags THEN Nobody ELSE @]
  /\ reopened' = [reopened EXCEPT ![p][f] = @ \/ Open(p, f) # {}]
  /\ UNCHANGED locks

\* The file io_open is about to lock, and the lock it asks for.
Opening(p) == fileOf[p][call[p].fd]
Wanted(p) == LockType(flagsOf[p][call[p].fd])

\* The type left from an earlier request: every lock is shared.
IoOpenLocksShared(p) ==
  /\ call[p].step = "lock"
  /\ Lockable(flagsOf[p][call[p].fd])
  /\ ~Conflict(p, Opening(p), "read")
  /\ locks' = [locks EXCEPT ![p][Opening(p)] = "read"]
  /\ holder' = [holder EXCEPT ![p][call[p].fd] = "script"]
  /\ call' = [call EXCEPT ![p] = Idle("value")]
  /\ UNCHANGED <<perm, content, fileOf, flagsOf, reopened>>

\* fcntl grants the lock and io_open returns the descriptor.
IoOpenLocks(p) ==
  /\ call[p].step = "lock"
  /\ Lockable(flagsOf[p][call[p].fd])
  /\ ~Conflict(p, Opening(p), Wanted(p))
  /\ locks' = [locks EXCEPT ![p][Opening(p)] = Wanted(p)]
  /\ holder' = [holder EXCEPT ![p][call[p].fd] = "script"]
  /\ call' = [call EXCEPT ![p] = Idle("value")]
  /\ UNCHANGED <<perm, content, fileOf, flagsOf, reopened>>

\* The result of fcntl not looked at: the descriptor is returned unlocked.
IoOpenIgnoresRefusal(p) ==
  /\ call[p].step = "lock"
  /\ Conflict(p, Opening(p), Wanted(p))
  /\ holder' = [holder EXCEPT ![p][call[p].fd] = "script"]
  /\ call' = [call EXCEPT ![p] = Idle("value")]
  /\ UNCHANGED <<perm, content, fileOf, flagsOf, locks, reopened>>

\* F_SETLKW in place of F_SETLK: only EBADF is an answer.
IoOpenWaits(p) ==
  /\ call[p].step = "lock"
  /\ ~Lockable(flagsOf[p][call[p].fd])
  /\ call' = [call EXCEPT ![p].step = "abort"]
  /\ UNCHANGED <<perm, content, fileOf, flagsOf, locks, holder, reopened>>

\* fcntl fails; F_SETLK does not wait.  EAGAIN means another process has the
\* file, anything else is EBADF here, checked by the kernel before conflicts.
IoOpenRefused(p) ==
  /\ call[p].step = "lock"
  /\ \/ /\ ~Lockable(flagsOf[p][call[p].fd])
     \/ /\ Lockable(flagsOf[p][call[p].fd])
        /\ Conflict(p, Opening(p), Wanted(p))
  /\ call' = [call EXCEPT ![p].step = "abort"]
  /\ UNCHANGED <<perm, content, fileOf, flagsOf, locks, holder, reopened>>

\* The exception thrown without the close before it.
IoOpenAbortsOpen(p) ==
  /\ call[p].step = "abort"
  /\ call' = [call EXCEPT ![p] = Idle("throw")]
  /\ UNCHANGED <<perm, content, fileOf, flagsOf, locks, holder, reopened>>

\* The descriptor is closed and the exception thrown.
IoOpenAborts(p) ==
  /\ call[p].step = "abort"
  /\ CloseFd(p, call[p].fd)
  /\ call' = [call EXCEPT ![p] = Idle("throw")]
  /\ UNCHANGED <<perm, content>>

-----------------------------------------------------------------------------
(* The other calls, the end of a request and of a process.                  *)

\* io_close of any number: the return value of close(2), never an exception.
IoClose(p, fd) ==
  /\ call[p].step = "idle"
  /\ IF fileOf[p][fd] # NoFile
     THEN CloseFd(p, fd) /\ call' = [call EXCEPT ![p] = Idle("value")]
     ELSE /\ call' = [call EXCEPT ![p] = Idle("minus1")]
          /\ UNCHANGED <<fileOf, flagsOf, locks, holder, reopened>>
  /\ UNCHANGED <<perm, content>>

\* io_write of any number.
IoWrite(p, fd) ==
  /\ call[p].step = "idle"
  /\ IF fileOf[p][fd] # NoFile /\ Writable(flagsOf[p][fd])
     THEN /\ content' = [content EXCEPT ![fileOf[p][fd]] = p]
          /\ call' = [call EXCEPT ![p] = Idle("value")]
     ELSE /\ call' = [call EXCEPT ![p] = Idle("throw")]
          /\ UNCHANGED content
  /\ UNCHANGED <<perm, fileOf, flagsOf, locks, holder, reopened>>

\* A script ends in a process that serves further requests.  The extension
\* registers nothing to run at that point: the descriptors stay open.
EndRequest(p) ==
  /\ call[p].step = "idle"
  /\ holder' = [holder EXCEPT ![p] =
       [fd \in Fds |-> IF @[fd] = "script" THEN "orphan" ELSE @[fd]]]
  /\ call' = [call EXCEPT ![p] = Idle("value")]
  /\ UNCHANGED <<perm, content, fileOf, flagsOf, locks, reopened>>

\* The process ends or dies at any point and the kernel closes everything; a
\* new one takes its place.
Exit(p) ==
  /\ fileOf' = [fileOf EXCEPT ![p] = [fd \in Fds |-> NoFile]]
  /\ flagsOf' = [flagsOf EXCEPT ![p] = [fd \in Fds |-> {}]]
  /\ locks' = [locks EXCEPT ![p] = [f \in Files |-> "none"]]
  /\ holder' = [holder EXCEPT ![p] = [fd \in Fds |-> "free"]]
  /\ call' = [call EXCEPT ![p] = Idle("value")]
  /\ reopened' = [reopened EXCEPT ![p] = [f \in Files |-> FALSE]]
  /\ UNCHANGED <<perm, content>>

\* io_open after open(2): no step waits for another process.
OpenStep(p) == IoOpenLocks(p) \/ IoOpenRefused(p) \/ IoOpenAborts(p)

Next ==
  \E p \in Procs :
    \/ IoOpenThrows(p)
    \/ \E f \in Files, flags \in FlagWords, mode \in Modes : IoOpen(p, f, flags, mode)
    \/ IoOpenLocks(p)
    \/ IoOpenRefused(p)
    \/ IoOpenAborts(p)
    \/ \E fd \in Fds : IoClose(p, fd) \/ IoWrite(p, fd)
    \/ EndRequest(p)
    \/ Exit(p)

Spec == Init /\ [][Next]_vars

FairSpec == Spec /\ \A p \in Procs : WF_vars(OpenStep(p))

-----------------------------------------------------------------------------
(* Properties                                                               *)

LockKinds == {"none", "read", "write"}

Calls ==
  [step : {"idle"}, fd : {0}, out : {"value", "minus1", "throw"}]
  \cup [step : {"lock", "abort"}, fd : Fds, out : {"none"}]

FilesOK ==
  /\ perm \in [Files -> {Absent, Undefined} \cup 1 .. 2559]
  /\ content \in [Files -> Procs \cup {Nobody}]

TablesOK ==
  /\ fileOf \in [Procs -> [Fds -> Files \cup {NoFile}]]
  /\ flagsOf \in [Procs -> [Fds -> SUBSET Bits]]
  /\ locks \in [Procs -> [Files -> LockKinds]]
  /\ holder \in [Procs -> [Fds -> {"free", "call", "script", "orphan"}]]
  /\ reopened \in [Procs -> [Files -> BOOLEAN]]

CallsOK == call \in [Procs -> Calls]

TypeOK == FilesOK /\ TablesOK /\ CallsOK

\* The descriptors of f that io_open has returned.
Returned(p, f) == {fd \in Open(p, f) : holder[p][fd] # "call"}

\* What p's descriptor of f stands for, as long as it is the only one p has
\* had of f at a time: the access its lock was taken for.
Access(p, f) ==
  IF reopened[p][f] \/ Returned(p, f) = {} THEN "none"
  ELSE IF \E fd \in Returned(p, f) : LockType(flagsOf[p][fd]) = "write"
       THEN "write" ELSE "read"

\* A failed io_open leaves nothing behind: every open descriptor belongs to
\* the call in progress or was returned to a script, and a call in progress
\* has one.
Accounted ==
  \A p \in Procs, fd \in Fds :
    /\ fileOf[p][fd] = NoFile <=> holder[p][fd] = "free"
    /\ holder[p][fd] = "call" <=> call[p].step # "idle" /\ call[p].fd = fd

\* A process that has a file open once has the lock io_open took for it,
\* whatever other processes did since and however other calls of its own
\* failed; and no lock outlives the descriptors.
LockKept ==
  \A p \in Procs, f \in Files :
    /\ Access(p, f) # "none" => locks[p][f] = Access(p, f)
    /\ locks[p][f] # "none" => Returned(p, f) # {}

\* The point of the lock: when io_open has returned a descriptor of a file to
\* two processes, neither of which opened the file twice, both opened it "r".
Exclusive ==
  \A p, q \in Procs : p # q =>
    \A f \in Files : ~(Access(p, f) = "write" /\ Access(q, f) # "none")

\* Every file io_open creates has a mode: O_CREAT never reaches open(2)
\* without one, whatever the script passed.
CreateModeDefined == \A f \in Files : perm[f] # Undefined

\* While a process has access to a file, what the file holds changes only by
\* its own writes, by a truncating io_open that has yet to fail, or by a
\* process that has opened the file twice and so may have lost its lock.
ContentProtected ==
  [][\A p \in Procs, f \in Files :
       Access(p, f) # "none" /\ content'[f] \notin {content[f], p} =>
         \E q \in Procs :
           \/ content'[f] = q /\ reopened[q][f]
           \/ content'[f] = Nobody /\ call'[q].step = "lock"
              /\ fileOf'[q][call'[q].fd] = f]_vars

\* io_open returns or throws, whatever the other processes hold.
OpenReturns == \A p \in Procs : call[p].step # "idle" ~> call[p].step = "idle"

\* io_open, io_close and the end of a process implement the abstract access.
A == INSTANCE FileAccess WITH access <- [p \in Procs |-> [f \in Files |-> Access(p, f)]]

ImplementsAccess == A!Spec

-----------------------------------------------------------------------------
(* What the repository says of these calls, and the code does not do.       *)

\* "The file is already in use by another process": every open file is locked
\* against the others, opened twice or not.
LockedWhileOpen ==
  \A p, q \in Procs : p # q =>
    \A f \in Files : \A fd \in Returned(p, f), gd \in Returned(q, f) :
      ~(Writable(flagsOf[p][fd]) /\ Writable(flagsOf[q][gd]))
=============================================================================
