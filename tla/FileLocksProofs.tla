--------------------------- MODULE FileLocksProofs ---------------------------
(***************************************************************************)
(* For any number of processes, files and descriptors: the lock io_open    *)
(* takes is kept, two processes never hold conflicting access, a failed    *)
(* io_open leaves no descriptor behind, and the calls implement the        *)
(* abstract access of FileAccess.                                          *)
(***************************************************************************)
EXTENDS FileLocks, TLAPS

-----------------------------------------------------------------------------
(* The inductive invariant.                                                 *)

\* The kernel never grants two locks that exclude each other.
LocksExclude ==
  \A p, q \in Procs : p # q =>
    \A f \in Files : ~(locks[p][f] = "write" /\ locks[q][f] # "none")

\* What the history variable stands for: without a reopening there is at most
\* one descriptor of the file.
SoleDescriptor ==
  \A p \in Procs, f \in Files : ~reopened[p][f] =>
    \A fd, gd \in Fds : fileOf[p][fd] = f /\ fileOf[p][gd] = f => fd = gd

\* A returned descriptor has the lock its flags ask for.
SoleHasLock ==
  \A p \in Procs, f \in Files, fd \in Fds :
    fileOf[p][fd] = f /\ holder[p][fd] # "call" /\ ~reopened[p][f] =>
      locks[p][f] = LockType(flagsOf[p][fd])

\* A lock has a returned descriptor: none outlives a close or a failed call.
LockHasDescriptor ==
  \A p \in Procs, f \in Files : locks[p][f] # "none" =>
    \E fd \in Fds : fileOf[p][fd] = f /\ holder[p][fd] # "call"

IInv ==
  /\ TypeOK
  /\ Accounted
  /\ LocksExclude
  /\ SoleDescriptor
  /\ SoleHasLock
  /\ LockHasDescriptor

-----------------------------------------------------------------------------
(* Lemmas about the operators.                                              *)

\* Updates of functions and of tables keep their types.
LEMMA Update ==
  ASSUME NEW S, NEW R, NEW g \in [S -> R], NEW a, NEW v \in R
  PROVE  [g EXCEPT ![a] = v] \in [S -> R]
OBVIOUS

LEMMA TableUpdate ==
  ASSUME NEW S, NEW T, NEW R, NEW g \in [S -> [T -> R]], NEW a \in S, NEW b, NEW v \in R
  PROVE  [g EXCEPT ![a][b] = v] \in [S -> [T -> R]]
<1>1. [g[a] EXCEPT ![b] = v] \in [T -> R]
  OBVIOUS
<1> QED BY <1>1

LEMMA NoFileApart == \A f \in Files : f # NoFile
BY ConstantsApart

LEMMA LockTypeRange ==
  ASSUME NEW flags
  PROVE  LockType(flags) \in {"read", "write"}
BY DEF LockType

\* A descriptor that can be written has asked for a write lock.
LEMMA WritableLocksForWriting ==
  ASSUME NEW flags, Writable(flags)
  PROVE  LockType(flags) = "write"
BY DEF Writable, LockType

LEMMA EffectiveModeRange ==
  ASSUME NEW mode \in Int, NEW flags
  PROVE  /\ EffectiveMode(mode, flags) \in 0 .. 2559
         /\ "CREAT" \in flags => EffectiveMode(mode, flags) > 0
BY DEF EffectiveMode

LEMMA CreatedModeRange ==
  ASSUME NEW mode \in Int, NEW flags
  PROVE  /\ CreatedMode(mode, flags) \in {Undefined} \cup 1 .. 2559
         /\ "CREAT" \in flags => CreatedMode(mode, flags) # Undefined
BY EffectiveModeRange DEF CreatedMode, Undefined

-----------------------------------------------------------------------------
(* Type correctness.                                                        *)

\* Closing a descriptor keeps the types of the tables.
LEMMA CloseFdType ==
  ASSUME TablesOK, NEW p \in Procs, NEW fd \in Fds, CloseFd(p, fd)
  PROVE  TablesOK'
<1> DEFINE f == fileOf[p][fd]
           still == reopened[p][f] /\ Open(p, f) # {fd}
<1>0. still \in BOOLEAN
  OBVIOUS
<1> HIDE DEF f, still
<1>1. /\ fileOf' = [fileOf EXCEPT ![p][fd] = NoFile]
      /\ flagsOf' = [flagsOf EXCEPT ![p][fd] = {}]
      /\ holder' = [holder EXCEPT ![p][fd] = "free"]
      /\ locks' = [locks EXCEPT ![p][f] = "none"]
      /\ reopened' = [reopened EXCEPT ![p][f] = still]
  BY DEF CloseFd, f, still
<1>2. fileOf' \in [Procs -> [Fds -> Files \cup {NoFile}]]
  BY <1>1, TableUpdate DEF TablesOK
<1>3. flagsOf' \in [Procs -> [Fds -> SUBSET Bits]]
  BY <1>1, TableUpdate DEF TablesOK
<1>4. holder' \in [Procs -> [Fds -> {"free", "call", "script", "orphan"}]]
  BY <1>1, TableUpdate DEF TablesOK
<1>5. locks' \in [Procs -> [Files -> LockKinds]]
  <2>1. "none" \in LockKinds /\ locks \in [Procs -> [Files -> LockKinds]]
    BY DEF TablesOK, LockKinds
  <2> QED BY <1>1, <2>1, TableUpdate
<1>6. reopened' \in [Procs -> [Files -> BOOLEAN]]
  <2>1. reopened \in [Procs -> [Files -> BOOLEAN]]
    BY DEF TablesOK
  <2> QED BY <1>0, <1>1, <2>1, TableUpdate, Zenon
<1> QED BY <1>2, <1>3, <1>4, <1>5, <1>6 DEF TablesOK

\* The descriptor of a call in progress is one of the process.
LEMMA CallFd ==
  ASSUME CallsOK, NEW p \in Procs, call[p].step # "idle"
  PROVE  call[p].fd \in Fds
<1>1. call[p] \in Calls
  BY DEF CallsOK
<1> QED BY <1>1 DEF Calls

LEMMA IdleType ==
  ASSUME CallsOK, NEW p \in Procs, NEW out \in {"value", "minus1", "throw"},
         call' = [call EXCEPT ![p] = Idle(out)]
  PROVE  CallsOK'
<1>1. Idle(out) \in Calls
  BY DEF Idle, Calls
<1> QED BY <1>1 DEF CallsOK

LEMMA TypeStep == TypeOK /\ [Next]_vars => TypeOK'
<1> SUFFICES ASSUME FilesOK, TablesOK, CallsOK, [Next]_vars
             PROVE  FilesOK' /\ TablesOK' /\ CallsOK'
  BY DEF TypeOK
<1> USE ConstantsApart
<1>a. perm' = perm /\ content' = content => FilesOK'
  BY DEF FilesOK
<1>b. UNCHANGED <<fileOf, flagsOf, locks, holder, reopened>> => TablesOK'
  BY DEF TablesOK
<1>1. ASSUME NEW p \in Procs, IoOpenThrows(p) PROVE FilesOK' /\ TablesOK' /\ CallsOK'
  BY <1>a, <1>b, <1>1, IdleType DEF IoOpenThrows
<1>2. ASSUME NEW p \in Procs, NEW f \in Files, NEW flags \in FlagWords, NEW mode \in Modes,
             IoOpen(p, f, flags, mode)
      PROVE  FilesOK' /\ TablesOK' /\ CallsOK'
  <2>1. PICK fd \in FreeFds(p) :
          /\ fileOf' = [fileOf EXCEPT ![p][fd] = f]
          /\ flagsOf' = [flagsOf EXCEPT ![p][fd] = flags]
          /\ holder' = [holder EXCEPT ![p][fd] = "call"]
          /\ call' = [call EXCEPT ![p] = [step |-> "lock", fd |-> fd, out |-> "none"]]
    BY <1>2 DEF IoOpen
  <2>2. fd \in Fds /\ flags \in SUBSET Bits /\ mode \in Int
    BY DEF FreeFds
  <2>3. CallsOK'
    <3>1. [step |-> "lock", fd |-> fd, out |-> "none"] \in Calls
      BY <2>2 DEF Calls
    <3> QED BY <2>1, <3>1 DEF CallsOK
  <2>4. FilesOK'
    <3> DEFINE new == IF perm[f] = Absent THEN CreatedMode(mode, flags) ELSE perm[f]
    <3>1. new \in {Absent, Undefined} \cup 1 .. 2559
      BY <2>2, CreatedModeRange DEF FilesOK
    <3>2. perm' = [perm EXCEPT ![f] = new]
      BY <1>2 DEF IoOpen
    <3> HIDE DEF new
    <3>3. perm' \in [Files -> {Absent, Undefined} \cup 1 .. 2559]
      BY <3>1, <3>2, Update DEF FilesOK
    <3>4. content' \in [Files -> Procs \cup {Nobody}]
      BY <1>2 DEF FilesOK, IoOpen
    <3> QED BY <3>3, <3>4 DEF FilesOK
  <2>5. TablesOK'
    <3>1. /\ fileOf' \in [Procs -> [Fds -> Files \cup {NoFile}]]
          /\ flagsOf' \in [Procs -> [Fds -> SUBSET Bits]]
          /\ holder' \in [Procs -> [Fds -> {"free", "call", "script", "orphan"}]]
      BY <2>1, <2>2 DEF TablesOK
    <3>2. reopened' \in [Procs -> [Files -> BOOLEAN]]
      <4>1. (reopened[p][f] \/ Open(p, f) # {}) \in BOOLEAN
        OBVIOUS
      <4> QED BY <1>2, <4>1 DEF TablesOK, IoOpen
    <3>3. locks' \in [Procs -> [Files -> LockKinds]]
      BY <1>2 DEF TablesOK, IoOpen
    <3> QED BY <3>1, <3>2, <3>3 DEF TablesOK
  <2> QED BY <2>3, <2>4, <2>5
<1>3. ASSUME NEW p \in Procs, IoOpenLocks(p) PROVE FilesOK' /\ TablesOK' /\ CallsOK'
  <2>1. FilesOK' /\ CallsOK'
    BY <1>a, <1>3, IdleType DEF IoOpenLocks
  <2>2. call[p].fd \in Fds
    BY <1>3, CallFd DEF IoOpenLocks
  <2>3. locks' \in [Procs -> [Files -> LockKinds]]
    <3>1. locks' = [locks EXCEPT ![p][Opening(p)] = Wanted(p)]
      BY <1>3 DEF IoOpenLocks
    <3>2. locks \in [Procs -> [Files -> LockKinds]] /\ Wanted(p) \in LockKinds
      BY LockTypeRange DEF TablesOK, Wanted, LockKinds
    <3> QED BY <3>1, <3>2, TableUpdate
  <2>4. holder' \in [Procs -> [Fds -> {"free", "call", "script", "orphan"}]]
    BY <1>3, <2>2, TableUpdate DEF IoOpenLocks, TablesOK
  <2>5. fileOf' = fileOf /\ flagsOf' = flagsOf /\ reopened' = reopened
    BY <1>3 DEF IoOpenLocks
  <2> QED BY <2>1, <2>3, <2>4, <2>5 DEF TablesOK
<1>4. ASSUME NEW p \in Procs, IoOpenRefused(p) PROVE FilesOK' /\ TablesOK' /\ CallsOK'
  <2>1. call[p].step = "lock" /\ call[p] \in Calls
    BY <1>4 DEF IoOpenRefused, CallsOK
  <2>2. [call[p] EXCEPT !.step = "abort"] \in Calls
    BY <2>1 DEF Calls
  <2>3. CallsOK'
    BY <1>4, <2>2 DEF IoOpenRefused, CallsOK
  <2> QED BY <1>a, <1>b, <1>4, <2>3 DEF IoOpenRefused
<1>5. ASSUME NEW p \in Procs, IoOpenAborts(p) PROVE FilesOK' /\ TablesOK' /\ CallsOK'
  BY <1>a, <1>5, CallFd, CloseFdType, IdleType DEF IoOpenAborts
<1>6. ASSUME NEW p \in Procs, NEW fd \in Fds, IoClose(p, fd)
      PROVE  FilesOK' /\ TablesOK' /\ CallsOK'
  BY <1>a, <1>b, <1>6, CloseFdType, IdleType DEF IoClose
<1>7. ASSUME NEW p \in Procs, NEW fd \in Fds, IoWrite(p, fd)
      PROVE  FilesOK' /\ TablesOK' /\ CallsOK'
  <2>1. CallsOK'
    BY <1>7, IdleType DEF IoWrite
  <2>2. FilesOK'
    BY <1>7 DEF IoWrite, FilesOK
  <2> QED BY <1>b, <1>7, <2>1, <2>2 DEF IoWrite
<1>8. ASSUME NEW p \in Procs, EndRequest(p) PROVE FilesOK' /\ TablesOK' /\ CallsOK'
  <2>1. TablesOK'
    BY <1>8 DEF EndRequest, TablesOK
  <2> QED BY <1>a, <1>8, <2>1, IdleType DEF EndRequest
<1>9. ASSUME NEW p \in Procs, Exit(p) PROVE FilesOK' /\ TablesOK' /\ CallsOK'
  <2>1. TablesOK'
    BY <1>9 DEF Exit, TablesOK, LockKinds
  <2> QED BY <1>a, <1>9, <2>1, IdleType DEF Exit
<1>10. CASE UNCHANGED vars
  BY <1>10 DEF FilesOK, TablesOK, CallsOK, vars
<1> QED BY <1>1, <1>2, <1>3, <1>4, <1>5, <1>6, <1>7, <1>8, <1>9, <1>10 DEF Next

\* Every variable keeps its type, and every mode is one a file can have.
THEOREM TypeCorrect == Spec => []TypeOK
<1>1. Init => TypeOK
  BY DEF Init, TypeOK, FilesOK, TablesOK, CallsOK, Idle, Calls, LockKinds
<1> QED BY <1>1, TypeStep, PTL DEF Spec
-----------------------------------------------------------------------------
(* What the steps do to the tables, one entry at a time.                    *)

LEMMA CloseFdEffect ==
  ASSUME TablesOK, NEW p \in Procs, NEW fd \in Fds, fileOf[p][fd] \in Files, CloseFd(p, fd)
  PROVE  /\ \A q \in Procs, gd \in Fds :
              IF q = p /\ gd = fd
              THEN fileOf'[q][gd] = NoFile /\ flagsOf'[q][gd] = {} /\ holder'[q][gd] = "free"
              ELSE /\ fileOf'[q][gd] = fileOf[q][gd]
                   /\ flagsOf'[q][gd] = flagsOf[q][gd]
                   /\ holder'[q][gd] = holder[q][gd]
         /\ \A q \in Procs, g \in Files :
              IF q = p /\ g = fileOf[p][fd]
              THEN /\ locks'[q][g] = "none"
                   /\ reopened'[q][g] = (reopened[q][g] /\ Open(q, g) # {fd})
              ELSE locks'[q][g] = locks[q][g] /\ reopened'[q][g] = reopened[q][g]
<1> DEFINE f == fileOf[p][fd]
<1>1. \A q \in Procs, gd \in Fds :
        IF q = p /\ gd = fd
        THEN fileOf'[q][gd] = NoFile /\ flagsOf'[q][gd] = {} /\ holder'[q][gd] = "free"
        ELSE /\ fileOf'[q][gd] = fileOf[q][gd]
             /\ flagsOf'[q][gd] = flagsOf[q][gd]
             /\ holder'[q][gd] = holder[q][gd]
  BY DEF CloseFd, TablesOK
<1>2. \A q \in Procs, g \in Files :
        locks'[q][g] = IF q = p /\ g = f THEN "none" ELSE locks[q][g]
  BY DEF CloseFd, TablesOK
<1>3. \A q \in Procs, g \in Files :
        IF q = p /\ g = f
        THEN reopened'[q][g] = (reopened[q][g] /\ Open(q, g) # {fd})
        ELSE reopened'[q][g] = reopened[q][g]
  BY DEF CloseFd, TablesOK
<1> QED BY <1>1, <1>2, <1>3

\* io_open enters descriptor fd and waits for its lock.
OpensAs(p, f, flags, fd) ==
  /\ \A q \in Procs, gd \in Fds :
       IF q = p /\ gd = fd
       THEN fileOf'[q][gd] = f /\ flagsOf'[q][gd] = flags /\ holder'[q][gd] = "call"
       ELSE /\ fileOf'[q][gd] = fileOf[q][gd]
            /\ flagsOf'[q][gd] = flagsOf[q][gd]
            /\ holder'[q][gd] = holder[q][gd]
  /\ \A q \in Procs, g \in Files :
       IF q = p /\ g = f
       THEN reopened'[q][g] = (reopened[q][g] \/ Open(q, g) # {})
       ELSE reopened'[q][g] = reopened[q][g]
  /\ \A q \in Procs :
       call'[q] = IF q = p THEN [step |-> "lock", fd |-> fd, out |-> "none"]
                          ELSE call[q]
  /\ locks' = locks

LEMMA IoOpenEffect ==
  ASSUME TablesOK, CallsOK, NEW p \in Procs, NEW f \in Files, NEW flags \in FlagWords,
         NEW mode \in Modes, IoOpen(p, f, flags, mode)
  PROVE  \E fd \in FreeFds(p) : OpensAs(p, f, flags, fd)
<1>1. PICK fd \in FreeFds(p) :
        /\ fileOf' = [fileOf EXCEPT ![p][fd] = f]
        /\ flagsOf' = [flagsOf EXCEPT ![p][fd] = flags]
        /\ holder' = [holder EXCEPT ![p][fd] = "call"]
        /\ call' = [call EXCEPT ![p] = [step |-> "lock", fd |-> fd, out |-> "none"]]
  BY DEF IoOpen
<1>2. fd \in Fds
  BY DEF FreeFds
<1>3. \A q \in Procs, gd \in Fds :
        IF q = p /\ gd = fd
        THEN fileOf'[q][gd] = f /\ flagsOf'[q][gd] = flags /\ holder'[q][gd] = "call"
        ELSE /\ fileOf'[q][gd] = fileOf[q][gd]
             /\ flagsOf'[q][gd] = flagsOf[q][gd]
             /\ holder'[q][gd] = holder[q][gd]
  BY <1>1, <1>2 DEF TablesOK
<1>4. \A q \in Procs, g \in Files :
        IF q = p /\ g = f
        THEN reopened'[q][g] = (reopened[q][g] \/ Open(q, g) # {})
        ELSE reopened'[q][g] = reopened[q][g]
  BY DEF IoOpen, TablesOK
<1>5. \A q \in Procs :
        call'[q] = IF q = p THEN [step |-> "lock", fd |-> fd, out |-> "none"] ELSE call[q]
  BY <1>1 DEF CallsOK
<1>6. locks' = locks
  BY DEF IoOpen
<1> QED BY <1>3, <1>4, <1>5, <1>6 DEF OpensAs

LEMMA IoOpenLocksEffect ==
  ASSUME TablesOK, CallsOK, NEW p \in Procs, IoOpenLocks(p), Opening(p) \in Files
  PROVE  /\ call[p].fd \in Fds /\ call[p].step = "lock"
         /\ ~Conflict(p, Opening(p), Wanted(p))
         /\ fileOf' = fileOf /\ flagsOf' = flagsOf /\ reopened' = reopened
         /\ \A q \in Procs, g \in Files :
              locks'[q][g] = IF q = p /\ g = Opening(p) THEN Wanted(p) ELSE locks[q][g]
         /\ \A q \in Procs, gd \in Fds :
              holder'[q][gd] = IF q = p /\ gd = call[p].fd THEN "script" ELSE holder[q][gd]
         /\ \A q \in Procs : call'[q] = IF q = p THEN Idle("value") ELSE call[q]
<1>1. call[p].fd \in Fds
  BY CallFd DEF IoOpenLocks
<1>2. \A q \in Procs, g \in Files :
        locks'[q][g] = IF q = p /\ g = Opening(p) THEN Wanted(p) ELSE locks[q][g]
  BY DEF IoOpenLocks, TablesOK
<1>3. \A q \in Procs, gd \in Fds :
        holder'[q][gd] = IF q = p /\ gd = call[p].fd THEN "script" ELSE holder[q][gd]
  BY <1>1 DEF IoOpenLocks, TablesOK
<1>4. \A q \in Procs : call'[q] = IF q = p THEN Idle("value") ELSE call[q]
  BY DEF IoOpenLocks, CallsOK
<1> QED BY <1>1, <1>2, <1>3, <1>4 DEF IoOpenLocks

LEMMA ExitEffect ==
  ASSUME TablesOK, CallsOK, NEW p \in Procs, Exit(p)
  PROVE  /\ \A q \in Procs, gd \in Fds :
              IF q = p
              THEN fileOf'[q][gd] = NoFile /\ flagsOf'[q][gd] = {} /\ holder'[q][gd] = "free"
              ELSE /\ fileOf'[q][gd] = fileOf[q][gd]
                   /\ flagsOf'[q][gd] = flagsOf[q][gd]
                   /\ holder'[q][gd] = holder[q][gd]
         /\ \A q \in Procs, g \in Files :
              IF q = p
              THEN locks'[q][g] = "none" /\ reopened'[q][g] = FALSE
              ELSE locks'[q][g] = locks[q][g] /\ reopened'[q][g] = reopened[q][g]
         /\ \A q \in Procs : call'[q] = IF q = p THEN Idle("value") ELSE call[q]
BY DEF Exit, TablesOK, CallsOK
-----------------------------------------------------------------------------
(* Every step preserves the invariant.                                      *)

\* The file of a descriptor a call holds.
LEMMA CallFile ==
  ASSUME IInv, NEW p \in Procs, call[p].step # "idle"
  PROVE  /\ call[p].fd \in Fds
         /\ fileOf[p][call[p].fd] \in Files
         /\ holder[p][call[p].fd] = "call"
<1>1. call[p].fd \in Fds
  BY CallFd DEF IInv, TypeOK
<1> QED BY <1>1 DEF IInv, TypeOK, TablesOK, Accounted

Rest == Accounted /\ LocksExclude /\ SoleDescriptor /\ SoleHasLock /\ LockHasDescriptor

\* The steps that change no descriptor, no lock and no call in progress.
LEMMA RestUnchanged ==
  ASSUME IInv, UNCHANGED <<fileOf, flagsOf, locks, reopened>>,
         \A q \in Procs, gd \in Fds :
           /\ holder'[q][gd] = "free" <=> holder[q][gd] = "free"
           /\ holder'[q][gd] = "call" <=> holder[q][gd] = "call",
         \A q \in Procs :
           /\ call'[q].step = "idle" <=> call[q].step = "idle"
           /\ call[q].step # "idle" => call'[q].fd = call[q].fd
  PROVE  Rest'
<1>1. Accounted'
  BY DEF IInv, Accounted
<1>2. LocksExclude'
  BY DEF IInv, LocksExclude
<1>3. SoleDescriptor'
  BY DEF IInv, SoleDescriptor
<1>4. SoleHasLock'
  BY DEF IInv, SoleHasLock
<1>5. LockHasDescriptor'
  BY DEF IInv, LockHasDescriptor
<1> QED BY <1>1, <1>2, <1>3, <1>4, <1>5 DEF Rest

\* Closing an open descriptor, by io_close or by a failing io_open.
LEMMA RestAfterClose ==
  ASSUME IInv, NEW p \in Procs, NEW fd \in Fds, fileOf[p][fd] \in Files, CloseFd(p, fd),
         call[p].step # "idle" => call[p].fd = fd,
         NEW out, call' = [call EXCEPT ![p] = Idle(out)]
  PROVE  Rest'
<1> DEFINE f == fileOf[p][fd]
<1>0. TablesOK /\ CallsOK
  BY DEF IInv, TypeOK
<1>1. \A q \in Procs, gd \in Fds :
        IF q = p /\ gd = fd
        THEN fileOf'[q][gd] = NoFile /\ flagsOf'[q][gd] = {} /\ holder'[q][gd] = "free"
        ELSE /\ fileOf'[q][gd] = fileOf[q][gd]
             /\ flagsOf'[q][gd] = flagsOf[q][gd]
             /\ holder'[q][gd] = holder[q][gd]
  BY <1>0, CloseFdEffect
<1>2. \A q \in Procs, g \in Files :
        IF q = p /\ g = f
        THEN /\ locks'[q][g] = "none"
             /\ reopened'[q][g] = (reopened[q][g] /\ Open(q, g) # {fd})
        ELSE locks'[q][g] = locks[q][g] /\ reopened'[q][g] = reopened[q][g]
  BY <1>0, CloseFdEffect
<1>3. \A q \in Procs : call'[q] = IF q = p THEN Idle(out) ELSE call[q]
  BY <1>0 DEF CallsOK
<1>4. ~reopened'[p][f] => \A gd \in Fds : fileOf'[p][gd] # f
  <2>1. CASE ~reopened[p][f]
    BY <1>1, <2>1, NoFileApart DEF IInv, SoleDescriptor
  <2>2. CASE reopened[p][f] /\ Open(p, f) = {fd}
    BY <1>1, <2>2, NoFileApart DEF Open
  <2> QED BY <1>2, <2>1, <2>2
<1>5. Accounted'
  BY <1>1, <1>3 DEF IInv, Accounted, Idle
<1>6. LocksExclude'
  BY <1>2 DEF IInv, LocksExclude
<1>7. SoleDescriptor'
  BY <1>1, <1>2, <1>4, NoFileApart DEF IInv, SoleDescriptor
<1>8. SoleHasLock'
  BY <1>1, <1>2, <1>4, NoFileApart DEF IInv, SoleHasLock
<1>9. LockHasDescriptor'
  BY <1>1, <1>2 DEF IInv, LockHasDescriptor
<1> QED BY <1>5, <1>6, <1>7, <1>8, <1>9 DEF Rest

LEMMA RestAfterOpen ==
  ASSUME IInv, NEW p \in Procs, NEW f \in Files, NEW flags \in FlagWords,
         NEW mode \in Modes, IoOpen(p, f, flags, mode)
  PROVE  Rest'
<1>0. TablesOK /\ CallsOK /\ call[p].step = "idle"
  BY DEF IInv, TypeOK, IoOpen
<1>1. PICK fd \in FreeFds(p) : OpensAs(p, f, flags, fd)
  BY <1>0, IoOpenEffect
<1>2. fd \in Fds /\ fileOf[p][fd] = NoFile
  BY DEF FreeFds
<1>3. ~reopened'[p][f] => \A gd \in Fds : fileOf[p][gd] # f
  BY <1>1 DEF Open, OpensAs
<1>4. Accounted'
  BY <1>0, <1>1, <1>2, NoFileApart DEF IInv, OpensAs, Accounted
<1>5. LocksExclude'
  BY <1>1 DEF IInv, OpensAs, LocksExclude
<1>6. SoleDescriptor'
  BY <1>1, <1>2, <1>3 DEF IInv, OpensAs, SoleDescriptor
<1>7. SoleHasLock'
  BY <1>1, <1>2, <1>3 DEF IInv, OpensAs, SoleHasLock
<1>8. LockHasDescriptor'
  BY <1>1, <1>2, NoFileApart DEF IInv, OpensAs, LockHasDescriptor
<1> QED BY <1>4, <1>5, <1>6, <1>7, <1>8 DEF Rest

LEMMA RestAfterLock ==
  ASSUME IInv, NEW p \in Procs, IoOpenLocks(p)
  PROVE  Rest'
<1> DEFINE f == Opening(p)
           fd == call[p].fd
<1>0. TablesOK /\ CallsOK /\ call[p].step = "lock"
  BY DEF IInv, TypeOK, IoOpenLocks
<1>1. fd \in Fds /\ f \in Files /\ fileOf[p][fd] = f /\ holder[p][fd] = "call"
  BY <1>0, CallFile DEF Opening
<1>2. /\ ~Conflict(p, f, Wanted(p))
      /\ fileOf' = fileOf /\ flagsOf' = flagsOf /\ reopened' = reopened
      /\ \A q \in Procs, g \in Files :
           locks'[q][g] = IF q = p /\ g = f THEN Wanted(p) ELSE locks[q][g]
      /\ \A q \in Procs, gd \in Fds :
           holder'[q][gd] = IF q = p /\ gd = fd THEN "script" ELSE holder[q][gd]
      /\ \A q \in Procs : call'[q] = IF q = p THEN Idle("value") ELSE call[q]
  BY <1>0, <1>1, IoOpenLocksEffect
<1>3. Wanted(p) = LockType(flagsOf[p][fd]) /\ Wanted(p) \in {"read", "write"}
  BY LockTypeRange DEF Wanted
<1>4. Accounted'
  BY <1>0, <1>1, <1>2 DEF IInv, Accounted, Idle
<1>5. LocksExclude'
  <2>1. \A q \in Procs \ {p} :
          locks[q][f] # "write" /\ (Wanted(p) = "write" => locks[q][f] = "none")
    BY <1>0, <1>1, <1>2 DEF Conflict, TablesOK, LockKinds
  <2> QED BY <1>1, <1>2, <1>3, <2>1 DEF IInv, LocksExclude
<1>6. SoleDescriptor'
  BY <1>2 DEF IInv, SoleDescriptor
<1>7. SoleHasLock'
  BY <1>1, <1>2, <1>3 DEF IInv, SoleHasLock, SoleDescriptor
<1>8. LockHasDescriptor'
  BY <1>1, <1>2 DEF IInv, LockHasDescriptor
<1> QED BY <1>4, <1>5, <1>6, <1>7, <1>8 DEF Rest

LEMMA RestAfterExit ==
  ASSUME IInv, NEW p \in Procs, Exit(p)
  PROVE  Rest'
<1>1. /\ \A q \in Procs, gd \in Fds :
           IF q = p
           THEN fileOf'[q][gd] = NoFile /\ flagsOf'[q][gd] = {} /\ holder'[q][gd] = "free"
           ELSE /\ fileOf'[q][gd] = fileOf[q][gd]
                /\ flagsOf'[q][gd] = flagsOf[q][gd]
                /\ holder'[q][gd] = holder[q][gd]
      /\ \A q \in Procs, g \in Files :
           IF q = p
           THEN locks'[q][g] = "none" /\ reopened'[q][g] = FALSE
           ELSE locks'[q][g] = locks[q][g] /\ reopened'[q][g] = reopened[q][g]
      /\ \A q \in Procs : call'[q] = IF q = p THEN Idle("value") ELSE call[q]
  BY ExitEffect DEF IInv, TypeOK
<1>2. Accounted'
  BY <1>1 DEF IInv, Accounted, Idle
<1>3. LocksExclude'
  BY <1>1 DEF IInv, LocksExclude
<1>4. SoleDescriptor'
  BY <1>1, NoFileApart DEF IInv, SoleDescriptor
<1>5. SoleHasLock'
  BY <1>1, NoFileApart DEF IInv, SoleHasLock
<1>6. LockHasDescriptor'
  BY <1>1 DEF IInv, LockHasDescriptor
<1> QED BY <1>2, <1>3, <1>4, <1>5, <1>6 DEF Rest

\* A call that only ends or changes its outcome.
LEMMA IdleCall ==
  ASSUME CallsOK, NEW p \in Procs, call[p].step = "idle",
         NEW out, call' = [call EXCEPT ![p] = Idle(out)]
  PROVE  \A q \in Procs : /\ call'[q].step = "idle" <=> call[q].step = "idle"
                          /\ call[q].step # "idle" => call'[q].fd = call[q].fd
BY DEF CallsOK, Idle

THEOREM Invariance == Spec => []IInv
<1>1. Init => IInv
  <2> SUFFICES ASSUME Init PROVE IInv
    OBVIOUS
  <2>1. TypeOK
    BY DEF Init, TypeOK, FilesOK, TablesOK, CallsOK, Idle, Calls, LockKinds
  <2>2. /\ \A p \in Procs, fd \in Fds : fileOf[p][fd] = NoFile /\ holder[p][fd] = "free"
        /\ \A p \in Procs, f \in Files : locks[p][f] = "none"
        /\ \A p \in Procs : call[p].step = "idle"
    BY DEF Init, Idle
  <2>3. Accounted /\ LocksExclude /\ LockHasDescriptor
    BY <2>2 DEF Accounted, LocksExclude, LockHasDescriptor
  <2>4. SoleDescriptor /\ SoleHasLock
    BY <2>2, NoFileApart DEF SoleDescriptor, SoleHasLock
  <2> QED BY <2>1, <2>3, <2>4 DEF IInv
<1>2. IInv /\ [Next]_vars => IInv'
  <2> SUFFICES ASSUME IInv, [Next]_vars PROVE Rest'
    BY TypeStep DEF IInv, Rest
  <2>0. TablesOK /\ CallsOK
    BY DEF IInv, TypeOK
  <2>1. ASSUME NEW p \in Procs, IoOpenThrows(p) PROVE Rest'
    BY <2>0, <2>1, IdleCall, RestUnchanged DEF IoOpenThrows
  <2>2. ASSUME NEW p \in Procs, NEW f \in Files, NEW flags \in FlagWords,
               NEW mode \in Modes, IoOpen(p, f, flags, mode)
        PROVE  Rest'
    BY <2>2, RestAfterOpen
  <2>3. ASSUME NEW p \in Procs, IoOpenLocks(p) PROVE Rest'
    BY <2>3, RestAfterLock
  <2>4. ASSUME NEW p \in Procs, IoOpenRefused(p) PROVE Rest'
    <3>1. call' = [call EXCEPT ![p].step = "abort"] /\ call[p].step = "lock"
      BY <2>4 DEF IoOpenRefused
    <3>2. \A q \in Procs : /\ call'[q].step = "idle" <=> call[q].step = "idle"
                           /\ call[q].step # "idle" => call'[q].fd = call[q].fd
      <4>1. call[p] \in Calls
        BY <2>0 DEF CallsOK
      <4>2. [call[p] EXCEPT !.step = "abort"].step = "abort"
            /\ [call[p] EXCEPT !.step = "abort"].fd = call[p].fd
        BY <4>1 DEF Calls
      <4> QED BY <2>0, <3>1, <4>2 DEF CallsOK
    <3> QED BY <2>4, <3>2, RestUnchanged DEF IoOpenRefused
  <2>5. ASSUME NEW p \in Procs, IoOpenAborts(p) PROVE Rest'
    BY <2>5, CallFile, RestAfterClose DEF IoOpenAborts
  <2>6. ASSUME NEW p \in Procs, NEW fd \in Fds, IoClose(p, fd) PROVE Rest'
    <3>1. CASE fileOf[p][fd] # NoFile
      <4>1. fileOf[p][fd] \in Files
        BY <2>0, <3>1 DEF TablesOK
      <4> QED BY <2>6, <3>1, <4>1, RestAfterClose DEF IoClose
    <3>2. CASE fileOf[p][fd] = NoFile
      BY <2>0, <2>6, <3>2, IdleCall, RestUnchanged DEF IoClose
    <3> QED BY <3>1, <3>2
  <2>7. ASSUME NEW p \in Procs, NEW fd \in Fds, IoWrite(p, fd) PROVE Rest'
    <3>1. PICK out \in {"value", "throw"} : call' = [call EXCEPT ![p] = Idle(out)]
      BY <2>7 DEF IoWrite
    <3> QED BY <2>0, <2>7, <3>1, IdleCall, RestUnchanged DEF IoWrite
  <2>8. ASSUME NEW p \in Procs, EndRequest(p) PROVE Rest'
    <3>1. \A q \in Procs, gd \in Fds :
            /\ holder'[q][gd] = "free" <=> holder[q][gd] = "free"
            /\ holder'[q][gd] = "call" <=> holder[q][gd] = "call"
      BY <2>0, <2>8 DEF EndRequest, TablesOK
    <3> QED BY <2>0, <2>8, <3>1, IdleCall, RestUnchanged DEF EndRequest
  <2>9. ASSUME NEW p \in Procs, Exit(p) PROVE Rest'
    BY <2>9, RestAfterExit
  <2>10. CASE UNCHANGED vars
    BY <2>10, RestUnchanged DEF vars
  <2> QED BY <2>1, <2>2, <2>3, <2>4, <2>5, <2>6, <2>7, <2>8, <2>9, <2>10 DEF Next
<1> QED BY <1>1, <1>2, PTL DEF Spec
-----------------------------------------------------------------------------
(* What follows.                                                            *)

LEMMA AccessHasLock ==
  ASSUME IInv, NEW p \in Procs, NEW f \in Files, Access(p, f) # "none"
  PROVE  ~reopened[p][f] /\ locks[p][f] = Access(p, f)
<1>1. ~reopened[p][f] /\ Returned(p, f) # {}
  BY DEF Access
<1>2. PICK fd \in Fds : fileOf[p][fd] = f /\ holder[p][fd] # "call"
  BY <1>1 DEF Returned, Open
<1>3. Returned(p, f) = {fd}
  BY <1>1, <1>2 DEF Returned, Open, IInv, SoleDescriptor
<1>4. Access(p, f) = LockType(flagsOf[p][fd])
  BY <1>1, <1>3, LockTypeRange DEF Access
<1> QED BY <1>1, <1>2, <1>4 DEF IInv, SoleHasLock

\* No io_open, failed or not, leaves a descriptor that nobody was given.
THEOREM NoDescriptorLost == Spec => []Accounted
<1>1. IInv => Accounted
  BY DEF IInv
<1> QED BY <1>1, Invariance, PTL

\* A file opened once stays locked the way it was opened.
THEOREM LockStays == Spec => []LockKept
<1>1. IInv => LockKept
  BY AccessHasLock DEF LockKept, IInv, LockHasDescriptor, Returned, Open
<1> QED BY <1>1, Invariance, PTL

\* The lock does what it is for, between processes that open the file once.
THEOREM Exclusion == Spec => []Exclusive
<1>1. IInv => Exclusive
  <2> SUFFICES ASSUME IInv, NEW p \in Procs, NEW q \in Procs, p # q, NEW f \in Files,
                      Access(p, f) = "write", Access(q, f) # "none"
               PROVE  FALSE
    BY DEF Exclusive
  <2>1. locks[p][f] = "write" /\ locks[q][f] # "none"
    BY AccessHasLock
  <2> QED BY <2>1 DEF IInv, LocksExclude
<1> QED BY <1>1, Invariance, PTL

\* Every file is created with a mode the script or io_open chose.
THEOREM ModeDefined == Spec => []CreateModeDefined
<1>1. Init => CreateModeDefined
  BY DEF Init, CreateModeDefined, Absent, Undefined
<1>2. TypeOK /\ CreateModeDefined /\ [Next]_vars => CreateModeDefined'
  <2> SUFFICES ASSUME TypeOK, CreateModeDefined, [Next]_vars PROVE CreateModeDefined'
    OBVIOUS
  <2>1. ASSUME NEW p \in Procs, NEW f \in Files, NEW flags \in FlagWords,
               NEW mode \in Modes, IoOpen(p, f, flags, mode)
        PROVE  CreateModeDefined'
    <3>1. mode \in Int
      BY ConstantsApart
    <3>2. perm[f] = Absent => CreatedMode(mode, flags) # Undefined
      BY <2>1, <3>1, CreatedModeRange DEF IoOpen
    <3>3. perm' = [perm EXCEPT ![f] = IF @ = Absent THEN CreatedMode(mode, flags) ELSE @]
      BY <2>1 DEF IoOpen
    <3> QED BY <3>2, <3>3 DEF CreateModeDefined, TypeOK, FilesOK
  <2>2. CASE perm' = perm
    BY <2>2 DEF CreateModeDefined
  <2> QED BY <2>1, <2>2 DEF Next, IoOpenThrows, IoOpenLocks, IoOpenRefused, IoOpenAborts,
                           IoClose, IoWrite, EndRequest, Exit, vars
<1> QED BY <1>1, <1>2, TypeCorrect, PTL DEF Spec

\* A write reaches a file another process has access to only through a
\* descriptor whose process opened the file twice.
THEOREM ContentIsProtected == Spec => ContentProtected
<1> DEFINE Safe ==
      \A p \in Procs, f \in Files :
        Access(p, f) # "none" /\ content'[f] \notin {content[f], p} =>
          \E q \in Procs :
            \/ content'[f] = q /\ reopened[q][f]
            \/ content'[f] = Nobody /\ call'[q].step = "lock"
               /\ fileOf'[q][call'[q].fd] = f
<1>1. IInv /\ [Next]_vars => [Safe]_vars
  <2> SUFFICES ASSUME IInv, [Next]_vars,
                      NEW p \in Procs, NEW f \in Files,
                      Access(p, f) # "none", content'[f] \notin {content[f], p}
               PROVE  \E q \in Procs :
                        \/ content'[f] = q /\ reopened[q][f]
                        \/ content'[f] = Nobody /\ call'[q].step = "lock"
                           /\ fileOf'[q][call'[q].fd] = f
    OBVIOUS
  <2>0. TablesOK /\ CallsOK /\ FilesOK
    BY DEF IInv, TypeOK
  <2>1. ASSUME NEW q \in Procs, NEW g \in Files, NEW flags \in FlagWords,
               NEW mode \in Modes, IoOpen(q, g, flags, mode)
        PROVE  /\ content'[f] = Nobody /\ call'[q].step = "lock"
               /\ fileOf'[q][call'[q].fd] = f
    <3>1. g = f /\ content'[f] = Nobody
      BY <2>0, <2>1 DEF IoOpen, FilesOK
    <3>2. PICK fd \in FreeFds(q) : OpensAs(q, g, flags, fd)
      BY <2>0, <2>1, IoOpenEffect
    <3> QED BY <3>1, <3>2 DEF OpensAs, FreeFds
  <2>2. ASSUME NEW q \in Procs, NEW fd \in Fds, IoWrite(q, fd)
        PROVE  content'[f] = q /\ reopened[q][f]
    <3>1. /\ fileOf[q][fd] = f /\ Writable(flagsOf[q][fd]) /\ content'[f] = q
          /\ call[q].step = "idle"
      BY <2>0, <2>2 DEF IoWrite, FilesOK
    <3>2. holder[q][fd] # "call"
      BY <3>1 DEF IInv, Accounted
    <3>3. ~reopened[q][f] => locks[q][f] = "write"
      BY <3>1, <3>2, WritableLocksForWriting DEF IInv, SoleHasLock
    <3>4. locks[p][f] # "none"
      BY AccessHasLock
    <3> QED BY <3>1, <3>3, <3>4 DEF IInv, LocksExclude
  <2>3. CASE content' = content
    BY <2>3
  <2> QED BY <2>1, <2>2, <2>3 DEF Next, IoOpenThrows, IoOpenLocks, IoOpenRefused,
                                 IoOpenAborts, IoClose, EndRequest, Exit, vars
<1> QED BY <1>1, Invariance, PTL DEF Spec, ContentProtected
-----------------------------------------------------------------------------
(* Refinement.                                                              *)

AccessMap == [p \in Procs |-> [f \in Files |-> Access(p, f)]]

LEMMA AccessKind ==
  ASSUME NEW p \in Procs, NEW f \in Files
  PROVE  Access(p, f) \in {"none", "read", "write"}
BY DEF Access

\* An access that no step touched.
LEMMA AccessFrame ==
  ASSUME NEW q \in Procs, NEW g \in Files,
         reopened'[q][g] = reopened[q][g],
         \A fd \in Fds :
           (fileOf'[q][fd] = g /\ holder'[q][fd] # "call") <=>
           (fileOf[q][fd] = g /\ holder[q][fd] # "call"),
         \A fd \in Fds : fileOf[q][fd] = g => flagsOf'[q][fd] = flagsOf[q][fd]
  PROVE  Access(q, g)' = Access(q, g)
<1>1. Returned(q, g)' = Returned(q, g)
  BY DEF Returned, Open
<1>2. \A fd \in Returned(q, g) : flagsOf'[q][fd] = flagsOf[q][fd]
  BY DEF Returned, Open
<1> QED BY <1>1, <1>2 DEF Access

\* The abstract steps, in terms of the map.
LEMMA SameStutters ==
  ASSUME \A q \in Procs, g \in Files : Access(q, g)' = Access(q, g)
  PROVE  AccessMap' = AccessMap
BY DEF AccessMap

LEMMA GivingUpReleases ==
  ASSUME NEW p \in Procs, NEW S \in SUBSET Files,
         \A q \in Procs, g \in Files :
           Access(q, g)' = IF q = p /\ g \in S THEN "none" ELSE Access(q, g)
  PROVE  A!Next \/ AccessMap' = AccessMap
<1>1. CASE \A g \in S : Access(p, g) = "none"
  BY <1>1, SameStutters
<1>2. CASE \E g \in S : Access(p, g) # "none"
  <2>1. \E g \in S : AccessMap[p][g] # "none"
    BY <1>2 DEF AccessMap
  <2>2. AccessMap' = [AccessMap EXCEPT ![p] =
                        [g \in Files |-> IF g \in S THEN "none" ELSE AccessMap[p][g]]]
    BY DEF AccessMap
  <2> QED BY <2>1, <2>2 DEF A!Next, A!Release, AccessMap
<1> QED BY <1>1, <1>2

\* Closing a descriptor gives up the access to its file.
LEMMA CloseReleases ==
  ASSUME IInv, NEW p \in Procs, NEW fd \in Fds, CloseFd(p, fd),
         NEW f \in Files, f = fileOf[p][fd]
  PROVE  A!Next \/ AccessMap' = AccessMap
<1>1. /\ \A q \in Procs, gd \in Fds :
           IF q = p /\ gd = fd
           THEN fileOf'[q][gd] = NoFile /\ flagsOf'[q][gd] = {} /\ holder'[q][gd] = "free"
           ELSE /\ fileOf'[q][gd] = fileOf[q][gd]
                /\ flagsOf'[q][gd] = flagsOf[q][gd]
                /\ holder'[q][gd] = holder[q][gd]
      /\ \A q \in Procs, g \in Files :
           IF q = p /\ g = f
           THEN /\ locks'[q][g] = "none"
                /\ reopened'[q][g] = (reopened[q][g] /\ Open(q, g) # {fd})
           ELSE locks'[q][g] = locks[q][g] /\ reopened'[q][g] = reopened[q][g]
  BY CloseFdEffect DEF IInv, TypeOK
<1>2. Access(p, f)' = "none"
  <2>1. CASE reopened'[p][f]
    BY <2>1 DEF Access
  <2>2. CASE ~reopened'[p][f]
    <3>1. \A gd \in Fds : fileOf'[p][gd] # f
      <4>1. CASE ~reopened[p][f]
        BY <1>1, <4>1, NoFileApart DEF IInv, SoleDescriptor
      <4>2. CASE reopened[p][f] /\ Open(p, f) = {fd}
        BY <1>1, <4>2, NoFileApart DEF Open
      <4> QED BY <1>1, <2>2, <4>1, <4>2
    <3> QED BY <3>1 DEF Access, Returned, Open
  <2> QED BY <2>1, <2>2
<1>3. ASSUME NEW q \in Procs, NEW g \in Files, ~(q = p /\ g = f)
      PROVE  Access(q, g)' = Access(q, g)
  <2>1. reopened'[q][g] = reopened[q][g]
    BY <1>1, <1>3
  <2>2. \A gd \in Fds : fileOf'[q][gd] = g \/ fileOf[q][gd] = g =>
          /\ fileOf'[q][gd] = fileOf[q][gd]
          /\ flagsOf'[q][gd] = flagsOf[q][gd]
          /\ holder'[q][gd] = holder[q][gd]
    BY <1>1, <1>3, NoFileApart
  <2> QED BY <2>1, <2>2, AccessFrame
<1>4. \A q \in Procs, g \in Files :
        Access(q, g)' = IF q = p /\ g \in {f} THEN "none" ELSE Access(q, g)
  BY <1>2, <1>3
<1>5. {f} \in SUBSET Files
  OBVIOUS
<1> QED BY <1>4, <1>5, GivingUpReleases

\* Opening a file again gives up the access; opening it once gives none yet.
LEMMA OpenReleases ==
  ASSUME IInv, NEW p \in Procs, NEW f \in Files, NEW flags \in FlagWords,
         NEW mode \in Modes, IoOpen(p, f, flags, mode)
  PROVE  A!Next \/ AccessMap' = AccessMap
<1>1. PICK fd \in FreeFds(p) : OpensAs(p, f, flags, fd)
  BY IoOpenEffect DEF IInv, TypeOK
<1>2. fd \in Fds /\ fileOf[p][fd] = NoFile
  BY DEF FreeFds
<1>3. Access(p, f)' = "none"
  <2>1. CASE Open(p, f) # {}
    <3>1. reopened'[p][f]
      BY <1>1, <2>1 DEF OpensAs
    <3> QED BY <3>1 DEF Access
  <2>2. CASE Open(p, f) = {}
    <3>1. \A gd \in Fds : fileOf'[p][gd] = f => holder'[p][gd] = "call"
      BY <1>1, <1>2, <2>2 DEF Open, OpensAs
    <3>2. Returned(p, f)' = {}
      BY <3>1 DEF Returned, Open
    <3> QED BY <3>2 DEF Access
  <2> QED BY <2>1, <2>2
<1>4. ASSUME NEW q \in Procs, NEW g \in Files, ~(q = p /\ g = f)
      PROVE  Access(q, g)' = Access(q, g)
  <2>1. reopened'[q][g] = reopened[q][g]
    BY <1>1, <1>4 DEF OpensAs
  <2>2. \A gd \in Fds : fileOf'[q][gd] = g \/ fileOf[q][gd] = g =>
          /\ fileOf'[q][gd] = fileOf[q][gd]
          /\ flagsOf'[q][gd] = flagsOf[q][gd]
          /\ holder'[q][gd] = holder[q][gd]
    BY <1>1, <1>2, <1>4, NoFileApart DEF OpensAs
  <2> QED BY <2>1, <2>2, AccessFrame
<1>5. \A q \in Procs, g \in Files :
        Access(q, g)' = IF q = p /\ g \in {f} THEN "none" ELSE Access(q, g)
  <2> SUFFICES ASSUME NEW q \in Procs, NEW g \in Files
               PROVE  Access(q, g)' = IF q = p /\ g \in {f} THEN "none" ELSE Access(q, g)
    OBVIOUS
  <2>1. CASE q = p /\ g = f
    BY <1>3, <2>1
  <2>2. CASE ~(q = p /\ g = f)
    BY <1>4, <2>2
  <2> QED BY <2>1, <2>2
<1>6. {f} \in SUBSET Files
  OBVIOUS
<1> QED BY <1>5, <1>6, GivingUpReleases

\* A granted lock is an access acquired, unless the file is open twice.
LEMMA LockAcquires ==
  ASSUME IInv, IInv', NEW p \in Procs, IoOpenLocks(p),
         NEW f \in Files, f = Opening(p), NEW fd, fd = call[p].fd,
         NEW want, want = Wanted(p)
  PROVE  A!Next \/ AccessMap' = AccessMap
<1>0. TablesOK /\ CallsOK /\ call[p].step = "lock"
  BY DEF IInv, TypeOK, IoOpenLocks
<1>1. fd \in Fds /\ f \in Files /\ fileOf[p][fd] = f /\ holder[p][fd] = "call"
  BY <1>0, CallFile DEF Opening
<1>2. /\ ~Conflict(p, f, want)
      /\ fileOf' = fileOf /\ flagsOf' = flagsOf /\ reopened' = reopened
      /\ \A q \in Procs, gd \in Fds :
           holder'[q][gd] = IF q = p /\ gd = fd THEN "script" ELSE holder[q][gd]
  BY <1>0, <1>1, IoOpenLocksEffect
<1>3. ASSUME NEW q \in Procs, NEW g \in Files, ~(q = p /\ g = f)
      PROVE  Access(q, g)' = Access(q, g)
  <2>1. \A gd \in Fds :
          (fileOf'[q][gd] = g /\ holder'[q][gd] # "call") <=>
          (fileOf[q][gd] = g /\ holder[q][gd] # "call")
    BY <1>1, <1>2, <1>3
  <2> QED BY <1>2, <2>1, AccessFrame
<1>4. CASE reopened[p][f]
  <2>1. Access(p, f)' = "none" /\ Access(p, f) = "none"
    BY <1>2, <1>4 DEF Access
  <2>2. \A q \in Procs, g \in Files : Access(q, g)' = Access(q, g)
    BY <1>3, <2>1
  <2> QED BY <2>2, SameStutters
<1>5. CASE ~reopened[p][f]
  <2>1. \A gd \in Fds : fileOf[p][gd] = f => gd = fd
    BY <1>1, <1>5 DEF IInv, SoleDescriptor
  <2>2. Access(p, f) = "none"
    BY <1>1, <2>1 DEF Access, Returned, Open
  <2>3. Access(p, f)' = want
    <3>1. Returned(p, f)' = {fd}
      BY <1>1, <1>2, <2>1 DEF Returned, Open
    <3>2. ~reopened'[p][f] /\ flagsOf'[p][fd] = flagsOf[p][fd]
      BY <1>2, <1>5
    <3> QED BY <3>1, <3>2, LockTypeRange DEF Access, Wanted
  <2>4. want \in A!Kinds /\ AccessMap[p][f] = "none"
    BY <1>1, <2>2, LockTypeRange DEF AccessMap, Wanted, A!Kinds
  <2>5. ASSUME NEW q \in Procs \ {p} PROVE ~A!Conflict(want, AccessMap[q][f])
    <3>1. Access(q, f) # "none" => locks[q][f] = Access(q, f)
      BY <1>1, AccessHasLock
    <3> QED BY <1>1, <1>2, <2>4, <3>1, AccessKind DEF A!Conflict, Conflict, AccessMap, A!Kinds
  <2>6. AccessMap' = [AccessMap EXCEPT ![p][f] = want]
    <3>1. \A q \in Procs, g \in Files :
            Access(q, g)' = IF q = p /\ g = f THEN want ELSE Access(q, g)
      BY <1>3, <2>3
    <3> QED BY <1>1, <3>1 DEF AccessMap
  <2>7. A!Acquire(p, f, want)
    BY <2>4, <2>5, <2>6 DEF A!Acquire, AccessMap
  <2> QED BY <2>4, <2>7 DEF A!Next
<1> QED BY <1>4, <1>5

\* The calls implement the abstract access: io_open acquires, closing, opening
\* again and the end of a process release, everything else stutters.
THEOREM Refinement == Spec => ImplementsAccess
<1>1. Init => A!Init
  <2> SUFFICES ASSUME Init PROVE \A p \in Procs, f \in Files : Access(p, f) = "none"
    BY DEF A!Init
  <2> QED BY NoFileApart DEF Init, Access, Returned, Open
<1>2. IInv /\ IInv' /\ [Next]_vars => A!Next \/ AccessMap' = AccessMap
  <2> SUFFICES ASSUME IInv, IInv', [Next]_vars PROVE A!Next \/ AccessMap' = AccessMap
    OBVIOUS
  <2>0. TablesOK /\ CallsOK
    BY DEF IInv, TypeOK
  <2>1. ASSUME UNCHANGED <<fileOf, flagsOf, reopened>>,
               \A q \in Procs, gd \in Fds : holder'[q][gd] = "call" <=> holder[q][gd] = "call"
        PROVE  AccessMap' = AccessMap
    BY <2>1, AccessFrame, SameStutters
  <2>2. ASSUME NEW p \in Procs, NEW f \in Files, NEW flags \in FlagWords,
               NEW mode \in Modes, IoOpen(p, f, flags, mode)
        PROVE  A!Next \/ AccessMap' = AccessMap
    BY <2>2, OpenReleases
  <2>3. ASSUME NEW p \in Procs, IoOpenLocks(p) PROVE A!Next \/ AccessMap' = AccessMap
    <3>1. Opening(p) \in Files
      BY <2>3, CallFile DEF IoOpenLocks, Opening
    <3> QED BY <2>3, <3>1, LockAcquires
  <2>4. ASSUME NEW p \in Procs, IoOpenAborts(p) PROVE A!Next \/ AccessMap' = AccessMap
    BY <2>4, CallFile, CloseReleases DEF IoOpenAborts
  <2>5. ASSUME NEW p \in Procs, NEW fd \in Fds, IoClose(p, fd)
        PROVE  A!Next \/ AccessMap' = AccessMap
    <3>1. CASE fileOf[p][fd] # NoFile
      <4>1. fileOf[p][fd] \in Files
        BY <2>0, <3>1 DEF TablesOK
      <4> QED BY <2>5, <3>1, <4>1, CloseReleases DEF IoClose
    <3>2. CASE fileOf[p][fd] = NoFile
      BY <2>1, <2>5, <3>2 DEF IoClose
    <3> QED BY <3>1, <3>2
  <2>6. ASSUME NEW p \in Procs, EndRequest(p) PROVE A!Next \/ AccessMap' = AccessMap
    <3>1. \A q \in Procs, gd \in Fds : holder'[q][gd] = "call" <=> holder[q][gd] = "call"
      BY <2>0, <2>6 DEF EndRequest, TablesOK
    <3> QED BY <2>1, <2>6, <3>1 DEF EndRequest
  <2>7. ASSUME NEW p \in Procs, Exit(p) PROVE A!Next \/ AccessMap' = AccessMap
    <3>1. ASSUME NEW g \in Files PROVE Access(p, g)' = "none"
      <4>1. \A fd \in Fds : fileOf'[p][fd] # g
        BY <2>0, <2>7, NoFileApart DEF Exit, TablesOK
      <4>2. Returned(p, g)' = {}
        BY <4>1 DEF Returned, Open
      <4> QED BY <4>2 DEF Access
    <3>2. ASSUME NEW q \in Procs, NEW g \in Files, q # p PROVE Access(q, g)' = Access(q, g)
      <4>1. /\ reopened'[q][g] = reopened[q][g]
            /\ \A fd \in Fds : /\ fileOf'[q][fd] = fileOf[q][fd]
                               /\ flagsOf'[q][fd] = flagsOf[q][fd]
                               /\ holder'[q][fd] = holder[q][fd]
        BY <2>0, <2>7, <3>2 DEF Exit, TablesOK
      <4> QED BY <4>1, AccessFrame
    <3>3. \A q \in Procs, g \in Files :
            Access(q, g)' = IF q = p /\ g \in Files THEN "none" ELSE Access(q, g)
      BY <3>1, <3>2
    <3> QED BY <3>3, GivingUpReleases
  <2>8. CASE \/ \E p \in Procs : IoOpenThrows(p) \/ IoOpenRefused(p)
             \/ \E p \in Procs, fd \in Fds : IoWrite(p, fd)
             \/ UNCHANGED vars
    BY <2>1, <2>8 DEF IoOpenThrows, IoOpenRefused, IoWrite, vars
  <2> QED BY <2>2, <2>3, <2>4, <2>5, <2>6, <2>7, <2>8 DEF Next
<1>3. IInv /\ IInv' /\ [Next]_vars => [A!Next]_AccessMap
  BY <1>2
<1> QED BY <1>1, <1>3, Invariance, PTL DEF Spec, ImplementsAccess, A!Spec, AccessMap
=============================================================================
