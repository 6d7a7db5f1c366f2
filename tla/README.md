# TLA+ for PHP-IO

PHP-IO is a PHP extension, one shared library loaded into every PHP process,
that gives scripts the system calls for files and devices: `io_open`,
`io_read`, `io_write`, `io_close`, `io_set_serial`, `io_ioctl`, `io_ioctl_raw`
and `io_test_flag`. This directory holds its TLA+ specifications, the TLC
configurations that check them on small instances, and the proofs TLAPS checks
for every instance.

## Inventory

| Part | Source | State it keeps | Operations |
|---|---|---|---|
| Flag strings and modes | `basic.cpp` 78-150, 226-259 | none between calls; the loop's index and word | `str2flags`, `io_test_flag`, the mode and lock type of `io_open` |
| Descriptors and locks | `basic.cpp` 199-374 | none of its own: the kernel's descriptor tables and record locks, and the numbers the scripts hold | `io_open`, `io_close`, `io_write` |
| Reading | `basic.cpp` 376-482 | buffer and count of one call; the device's input | `io_read` |
| Serial settings | `basic.cpp` 153-197, 484-723 | the device's termios word and modem lines, across calls | `io_set_serial` |
| Tokenizer | `common.cpp` 24-39 | positions of one call | `Tokenize` |
| Driver control | `basic.cpp` 746-1677 | the device's: numbers, termios words | `io_ioctl`, about 240 commands in blocks by argument |
| Raw driver control | `basic.cpp` 1681-1762 | the device's | `io_ioctl_raw`, registered with the wrong handler |
| Entry point | `main.cpp` | the static `Php::Extension` and its functions | `get_module` |
| Registration and calls | `phpcpp/`: `namespace.h`, `extension.h`, `class.h`, `zendcallable.h` and what they use | lists of functions, classes, constants, namespaces; whether they are locked | `add`, `method`, `module`, `invoke` |
| Values and members | `phpcpp/`: `value.h`, `hashmember.h`, `hashparent.h`, `array.h`, `global.h` | a PHP value; a member has a pointer to its parent and an index | `get`, `set`, `contains`, `unset`, operators, conversions |
| Other bindings | `phpcpp.h`, the rest of `phpcpp/` | | not used by the extension |
| Test pages, build | `test/`, `Makefile`, `io.ini` | | |

The parts interact only through arguments and the kernel. `get_module` registers
the functions with PHP-CPP, whose headers are part of the repository and whose
bodies are not. A script calls a function through `ZendCallable::invoke`, which
counts the parameters against the required arguments and turns a
`Php::Exception` into a PHP exception, and nothing else; handlers read their
parameters from a vector of `Php::Value`, and build the arrays they return, or
read the ones they are given, through members of values; `io_open` calls
`str2flags`; `io_set_serial` calls `Tokenize`; a descriptor returned by one call
is the argument of the next. There are no threads. The concurrency is that of **processes**: several PHP workers
serve requests, share files and devices, and are stopped at any point. Nothing
is registered for the end of a request, so what a script leaves open stays open
in a worker that goes on.

What is hard in this code, and what would make it correct:

- **`io_open` is three system calls**, `open`, `fcntl(F_SETLK)` and on failure
  `close`. Other processes run between them. Correct: a refused lock leaves no
  descriptor and no lock behind, two processes are never both given a file that
  one of them may write, nobody waits.
- **Record locks belong to a process and a file**, the code treats them as
  belonging to a descriptor. Correct: a lock stays as long as the descriptor it
  was taken for. It holds as long as a process does not open a file twice.
- **`str2flags` combines letters in one word** with an error value that shares
  its bits. Correct: the word means what the string says and an unknown
  character is never lost.
- **`io_read` may be answered in parts**, with nothing, with an error. Correct:
  the bytes returned are the bytes sent, none behind the message is taken, the
  loop ends.
- **`io_set_serial` starts from the device's old settings** and applies tokens
  in order. Correct: the result depends on the call, not on the calls before it.
- **`io_ioctl` derives the argument type** from the command and pushes every
  number through `int`. Correct: the number a script passes is the one the
  driver has, and a script is told the `int` with the bits of the driver's. A set command is two system calls, a
  `TCGETS` and the command itself. Correct: what its array does not mention stays
  as it was.
- **A reload of the web server calls `get_module` again** with the static
  extension still there. Correct: nothing is registered twice and the table of
  the engine stays as large as it was made.
- **The wrapper stands between a script and a handler** that looks at its
  parameters in an order of its own. Correct: none is read that was not passed,
  and an exception that ends the process leaves nothing half done.
- **A member is no value**: `v["a"]["b"] = x` reads, copies and writes back every
  parent. Correct: it changes one place and nothing around it.

`PROJECT.json` lists every hazard with its line and the properties for it.

## Modules

| Module | Contents |
|---|---|
| `OpenFlags` | `str2flags` as operators: a flag word is the set of its bits; the mode and the lock type `io_open` derives |
| `FlagParser` | the loop of `str2flags`, one character a step, and what a flag string means, stated without the loop |
| `FileAccess` | abstract: processes acquire a file for reading or writing, at once or not at all, and release it |
| `FileLocks` | `io_open`, `io_close`, `io_write` in several processes over the kernel's tables; implements `FileAccess` |
| `ReadLoop` | `io_read` and the device that answers it |
| `Tokenizer` | the loop of `Tokenize` and its positions, and which runs of a string the tokens are |
| `SerialSettings` | `io_set_serial`, a system call or a token a step, on a port other programs configure too, and what a string of tokens means, stated without the loop |
| `DeviceCells` | abstract: a device has numbers of its drivers' own types, which scripts put and get as `int`s |
| `Ioctl` | `io_ioctl` with one command of every kind, the drivers behind it, several scripts and other programs; implements `DeviceCells` |
| `Extension` | `get_module`, the registration of functions, classes and namespaces, the calls of handlers through the wrappers |
| `ValueTrees` | abstract: a value is a tree, and putting or removing a subtree at a place |
| `Members` | values, members of any depth, arrays of fixed type, globals; compared with `ValueTrees` |
| `MC...` | constants for TLC |
| `...Proofs` | theorems and proofs, one module for each of `FlagParser`, `FileLocks`, `ReadLoop`, `Tokenizer`, `SerialSettings`, `Ioctl`, `Extension`, `Members` |

### Flag strings: `OpenFlags`, `FlagParser`

`FlagStep` is the `switch` of `str2flags`, `LetterClears` its common mask,
`ModeBits` what each letter sets. Bit 31 is the member `"SIGN"`: the word is an
`unsigned int`, the error is `-1`, all bits, and `io_open` tests `flags < 0`
after the conversion to `int`. The loop's own condition `flags >= 0` is always
true of an unsigned word, so `ParseChar` has no such guard and the loop goes on
after an unknown character.

`Meaning` gives every bit by the string alone: the last mode letter or `+`
decides the access mode and appending, the last mode letter decides creation
and truncation, exclusive, synchronous, non-blocking and close-on-exec stay once
asked for. `Str2Flags`, which `MCFileLocks` uses for its flag words, is the same
`FlagStep` over a whole string.

### Descriptors: `FileLocks`, `FileAccess`

The state is the kernel's: `perm` and `content` of the files, `fileOf` and
`flagsOf` (the descriptor tables), `locks`; to it come `holder`, who knows a
descriptor (the call in progress, a script, or nobody after its request has
ended), `call`, where each process is in `io_open`, and the history variable
`reopened`, whether the process has opened a file while it had it open.

| Action | Code |
|---|---|
| `IoOpenThrows` | `io_open` up to the exceptions of 240-270 |
| `IoOpen` | `open(2)`: creates, truncates, returns the lowest free descriptor |
| `IoOpenLocks` | `fcntl` grants the lock, 304 returns |
| `IoOpenRefused` | `fcntl` fails with `EAGAIN`, or with `EBADF` when the descriptor is not open for writing |
| `IoOpenAborts` | `close(fd)` and the exception, the same on both branches |
| `IoClose` | `io_close` of any number, open or not |
| `IoWrite` | `io_write` of any number |
| `EndRequest` | a script ends, the process goes on; nothing is closed |
| `Exit` | a process ends or dies at any point and a new one takes its place |

The kernel is modelled as the code uses it: `Conflict` and `Lockable` are the
two ways `fcntl` refuses, `CloseFd` drops the process's locks on the file.
`content` says who wrote a file last and `Nobody` after a truncation, enough to
tell whether somebody else changed it. Read permission and other reasons for
`open` to fail are the nondeterminism of `IoOpenThrows`.

`Access` is the refinement mapping. It credits a process with the access its
descriptor was locked for, until the process opens the file a second time; from
then on, until it has closed all of them, it has none to rely on, since either
`close` may drop the lock. With it `io_open`'s three system calls become one
atomic `Acquire` (at `IoOpenLocks`), a second `io_open` of the same file a
`Release`, and everything else stutters.

### Reading: `ReadLoop`

One process, one call after another. `IoRead` takes the arguments and
allocates the buffer, whose contents are `Garbage`; each further action is one
`read(2)` and the code up to the next one: `ReadByte` when an end character is
looked for, `ReadChunk` otherwise (always to the start of the buffer, as line
448 does), `ReadNothing` for 0, `ReadFails` for -1. `Answer` holds what the first
two have in common: the count, the end character, the length. Zero bytes asked
for (length 0 and no end character) get zero bytes, so `ReadChunk` is disabled
and `ReadNothing` is the only answer besides failure. `CharSigned` says whether
the compiler's `char` is signed. `consumed` and `reads` are history.

`TakesNoMore` holds of end characters that are no negative `char` (`EndFits`) and
allows one byte for a length of 0 with an end character. What the comment above
`io_read` says ("until an end_char is recieved", "maximum") has neither exception.

### Tokenizer: `Tokenizer`

`lastPos` and `pos` are the code's, from 0; `Npos` is a number larger than any
position, and the searches and `Substr` treat it as such. `Init` and
`ReturnAndCall` are the two searches before the loop, `PushToken` an iteration.
`starts`, where each token began, is history: with it `TokensAreRuns` says that
the tokens are the runs of the string and not merely strings that occur in it.

### Serial settings: `SerialSettings`

The port is a record of the termios attributes the code touches, `modem` the
loop-back bit of its modem lines. `word`, `lines`, `noLoop` and `serial` are the
call's `termio_struct`, `modem_control_bits`, `no_loopback` and the array it
returns; `before` and `wrote` are history.

| Action | Code |
|---|---|
| `SetSerial` | the arguments are taken, up to `TCGETS` |
| `ReadAttributes` | `TCGETS` succeeds; `cfmakeraw`, the defaults of 586-592, the timeout (`Prepared`) |
| `ReadModem` | `TIOCMGET` succeeds, or fails and is remembered |
| `ApplyToken` | one iteration of the loop over the tokens |
| `RefuseToken` | the exceptions thrown from inside the loop |
| `WriteModem` | `TIOCMSET`, left out, granted or failed |
| `WriteAttributes` | `tcsetattr`; the array is returned |
| `Throws` | `TCGETS` or `tcsetattr` fails |
| `OtherProgram` | another program configures the port, between any two steps |

A token is the pair of what the code sees of it: the number `atoi` makes of it
and its first letter in lower case. `Kind` is the code's case distinction, with
3 and 4 ignored. A timeout is counted in tenths of a second, as `VTIME` is.

`PortSetAsAsked` is the meaning of a string: the last speed, word length and
kind of parity, a second stop bit once one was asked for, and for what is not
mentioned 8 bits, one stop bit, no parity and no hardware flow control, as the
comment above `io_set_serial` documents it. It is stated over the string as a whole
and does not use the loop's operators. The comment promises 9600 baud and no
software flow control too, which the code does not set: there `PortSetAsAsked` says
only that the port has the documented value or the one it had, and
`DocumentedDefaults`, the promise itself, is violated (`serial_defaults`).

`ReportTrue` compares the array with what is written, entry by entry and in both
directions: an entry stands for bits that are set, a missing one for the default.
It leaves out four things by name: a "1" does not undo a "2" and is reported all the
same; mark and space parity set the stick bit and choose the odd bit but do not
switch parity on, which needs "even" or "odd" as well; a stick bit is never cleared,
so that "even" and "odd" may have it; IXOFF may be left over. The
array is therefore not quite "the values set" of the comment.

### Driver control: `Ioctl`, `DeviceCells`

A command of the model stands for all that share its case labels and whose
drivers treat the buffer alike: `TIOCMSET` for those that need a third argument,
`TIOCMGET` for an `int` a driver writes, `SNDCTL_DSP_SPEED` for one it reads and
answers, `TIOCEXCL` for those without argument, and so on. `device` is the set
of commands the driver of the open device knows, `reg` its numbers, `words` its
termios word and the mask that locks it, `call` a set command between its two
system calls, `last` what the call that just ended was given and returned.

| Action | Code |
|---|---|
| `DiesParsing` | `std::stoi` of descriptor, command or number throws (759-760, 1029 and its kind) |
| `NotDefined` | the `default` label |
| `ArgumentMissing` | the count of parameters at 847 |
| `Refused` | `ioctl` returns -1 |
| `NumberCommand` | the blocks of `int`, `unsigned long`, `__u32` and `pid_t` |
| `CharCommand` | the block of `char *`, whose text goes to a second variable of the same name |
| `TimeCommand` | `SIOCGSTAMP` |
| `GetSettings` | `TCGETS`, `TCGETA`, `TIOCGLCKTRMIOS` |
| `ReadDefaults`, `WriteSettings`, `WriteRefused` | a set command: `TCGETS` (whose failure is not looked at) with the array put over it, then the command |
| `DiesMerging` | `std::stoi` of an entry of the array throws |
| `DeviceChanges`, `OtherProgram` | the device and other programs, between any two steps |

`ToInt` is the conversion to `int`, `Buffer` the one from `int` to the type of
the buffer. `intact` in `call` is history: whether `TCGETS` succeeded and nobody
has changed the settings since. In `ImplementsCells` a cell is the driver's number
itself, in the driver's type and without any conversion. `DeviceCells` says what a
script may rely on: the number it puts arrives as it is or, where the driver's type
is unsigned, with the same bits, sign extended to its width; a script is told the
`int` that has the bits of the cell; `TCSETS` and its kind touch no number. Where no
`int` has the bits, which only an `unsigned long` beyond 32 bits can bring about
(`BLKGETSIZE` of a large device), the code cuts the number off, and `DeviceCells`
promises nothing of what is told. The commands on strings are not cells: their
driver gets the empty string whatever is passed. `TCGETA` and `TCSETA` are modelled by
what the driver does with the buffer, in which a `termio` lies over a `termios`.

### Extension: `Extension`

| Action | Code |
|---|---|
| `GetModule`, `Add`, `Module` | `get_module`, one `add` a step; the conversion of the extension to a pointer, which makes the table and locks the extension |
| `InvokeWithParams` | `invoke` of a callback that takes `Parameters`, from the engine's call to the beginning of the handler, or the warning when there are too few |
| `Invoke` | `invoke` of a callback without `Parameters` |
| `TakesText`, `TakesNumber`, `Passes`, `Throws`, `Dies` | one look at a parameter, a check or a system call of the handler |
| `Yields` | the handler returns |
| `Handled` | the script catches the exception, or ends |

A handler is the sequence of what it does to its parameters and the system,
`IoOpen` to `IoIoctlRaw`, in the order of its code; `io_ioctl` has one per way
through it. Three parameters tell all handlers apart: a number, one `new char[]`
refuses, and what is no number. `Functions` is the list of `get_module`;
`Others` are elements an extension can add besides, so that namespaces, classes,
constants and callbacks of every signature are covered by the library's part of
the model. `touched` in `call` says whether the handler has made a system call that may have changed
something.

### Values and members: `Members`, `ValueTrees`

`Contains`, `Get`, `Set` and `Unset` are one level of a value, `Chain`, `Exists`,
`ValueAt`, `Assign` and `UnsetAt` the same through a sequence of indices, as
`HashMember` does it: each parent is asked for its value, changed as a copy and
written to its own parent. `Key` is what becomes of an index; an index that is a
`Value` passes its 64-bit number on as an `int`. A step changes a variable as a
whole or through a member. `Array` checks what is assigned to it in its constructors
(`Init`), in `setType` (`Takes`) and in its own `operator=`; the last hides that of
`Value` and does not override it, so through a `Value &` an array of fixed type takes
anything, and `AssignVariable` has no such guard. `Update` is what `Global::set` does besides, and `direct` (history) the globals that an operator of
`Value` changed, which `Global` does not override.

`ValueTrees` describes the same changes without parents and copies: a tree is a
function from places to leaves, `Put` and `Without` replace and remove what is at
a place and below. `ChangesOnePlace` compares the two for every value reached,
every path and every leaf; `OnePlaceChanged` proves it for values of any size.

## Runs

| Run | Shows |
|---|---|
| `flags` | `InvalidExactly`, `Meaning`, `OneAccessMode` for all strings of up to 3 of 11 characters: 6 letters, 3 modifiers, `+`, one unknown |
| `locks` | `TypeOK`, `Accounted`, `LockKept`, `Exclusive`, `ContentProtected`, `ImplementsAccess` for two processes, one file, two descriptors each, the words of `r`, `r+`, `w`, `a` |
| `open_returns` | `CreateModeDefined` and, under fairness, `OpenReturns`, for two processes with one descriptor each, every mode letter with and without `+`, an invalid string, and modes at and beyond each limit |
| `read` | `TypeOK`, `ReturnsWhatWasRead`, `TakesNoMore`, `CountsAll` and, under fairness, `CallReturns`, for lengths 0, 1, 2, 4, three bytes, two end characters |
| `tokenize` | `SubstrInRange`, `TokensAreRuns`, `NoneMissing`, `MovesOn` for all strings of up to 5 characters of two delimiters and a letter |
| `serial` | `TypeOK`, `FailureHarmless`, `ReportTrue`, `PortSetAsAsked` for every pair of five words and for eight strings with numbers, the loop back and space parity, on two initial settings of the port |
| `ioctl` | `TypeOK`, `SavedRestores`, `OnlyMentionedChange`, `ImplementsCells` for two scripts on each of eight devices |
| `extension` | `TypeOK`, `ArgumentsThere`, `DeathHarmless`, `ReloadKeeps`, `TableFits` for the functions of `get_module` with a namespace, a constant and a class behind them, and up to three parameters |
| `members` | `TypeOK`, `ReadsBack`, `ChangesOnePlace`, `VectorIsList`, `GlobalSeen` for an array of fixed type and a global |

The bounds. Three characters are enough for a letter, a `+` or modifier, and a
letter after it, the longest dependency of the word on its string; the theorems
hold for every length. Two processes and one file are enough for a conflict, a
truncation under a lock, and a lock lost by a second descriptor; locks on
different files do not interact, which the proofs confirm. The four words of
`locks` give each combination of lock type, write access and truncation; its
mode, 2560, is the first one that is too large. A message of four bytes in
parts has every way of being cut that the loop can tell apart. Five characters
hold two tokens with delimiters before, between and behind them. A token
sets a bit, clears it or leaves it, so the last token that touches a bit and one
before it, or behind it, are all that can matter: pairs suffice for `serial`, and
the theorem covers every length. Calls follow one another without
bound, so a port has been through any sequence of them, and `OtherProgram` sets
it to one of two settings that differ in everything the code does not reset. The timeout of 255 tenths is the
largest `VTIME` holds; the theorem covers the others.

`ioctl` has an `int` of 4 bits, a half of 2, a byte of 1 and a `long` of 8:
arguments at both ends of `int` and one beyond it, numbers a driver may hold that
are no `int` (15, 200), two settings that differ in every half of every field,
arrays with a negative number, one too large for `int`, one too large for a byte,
one speed without the other, and those `TCGETS` returned. Two scripts suffice to
come between the two system calls of a set command. Each device has commands
that share a number or a word, those apart do not interact. `extension` passes up
to three parameters, as many as any handler looks at; its class has a method of
each kind, its namespace callbacks with and without `Parameters`, required and
optional arguments. `members` goes three indices deep (a parent, its parent and
the variable), with up to four places in both variables: enough for a parent with
a sibling beside it, from which every write through up to three indices is tried.
An `int` has 8 values; two `Value` indices are the same `int`, a key is text, and
numbers wrap at 2. A longer path adds parents that behave as the middle one does.

The remaining runs have `expect: violation`. Each checks one statement of a
comment or a message of the repository that the code does not keep:

| Run | The statement | What happens |
|---|---|---|
| `locks_reopen` | the file is locked while it is open | closing a second descriptor drops the lock |
| `read_short` | the characters read are returned | the second part overwrites the first |
| `serial_defaults` | what is not mentioned is set to a default | the speed and `IXOFF` stay as they were |

Smaller departures are in the models and have no run of their own:

- A file in use is not opened, but it has been truncated by then: `open(2)` with
  `O_TRUNC` comes before the lock (`ContentProtected` states the exception).
- `r` with one of the modifiers `e`, `n`, `s` asks for a write lock, which `fcntl`
  refuses with `EBADF` (`Lockable`).
- `io_close` of a number that is not open returns -1 (the README of the
  repository promises exceptions on all failures; the throw is commented out).
- An end character above 127 is negative where `char` is signed and taken for
  none: what is behind it is taken too (`EndFits`), against "until an end_char is
  recieved" (line 392).
- With length 0 and an end character `io_read` takes one byte and returns it, against
  the "maximum" of line 385 (`TakesNoMore` names the exception).
- `io_read` frees its buffer on none of its ways out; no memory is modelled.
- `a` is neither as in `fopen` nor `O_ASYNC`, both of which line 207 promises: it
  gives a descriptor that can only read, and with `+` one without `O_APPEND`
  (`Meaning` states what it gives).
- The array of `io_set_serial` has "1", "Even", "Odd", "Mark" or "Space" where the
  port is given something else (`ReportTrue` names the cases).
- A timeout of -1, which line 513 documents as blocking, becomes 24.6 s
  (`Prepared`).
- `TCGETA` and `TCSETA` do not ignore what `termios` has more than `termio`, as line
  1157 says: the fields lie elsewhere, and what is read or set is scrambled
  (`FilledTermio`, `StoredTermio`).
- Commands that take a number in place of a pointer, such as `TCFLSH`, get the
  address of the buffer; commands on strings lose their argument; `SIOCGSTAMP`
  drops the microseconds.
- `main.cpp` registers `io_ioctl` under the name `io_ioctl_raw` (`Functions`): a script
  that follows the message of line 1662, "(Use io_ioctl_raw)", gets the same message.
- An `unsigned long` of a driver that no `int` has the bits of is cut off
  (`DeviceCells` promises nothing of it).
- The check for two parameters in `io_ioctl` comes after both were used; that of
  the arguments keeps it unreachable. `io_ioctl_raw` would copy its argument up to
  the first zero byte only.
- An assignment from one member to another of the same index type copies a
  pointer between two temporaries and changes nothing (`AssignToMember` leaves it
  out). `Array(Value &&)` checks the type of the value it has moved from,
  and an `Array` takes what is no array through a `Value &` (`AssignVariable`).
- `+=` and the other operators of `Value` on a `Global` change it without adding it
  to the script, although line 4 of `global.h` says an update does
  (`GlobalSeen` states the exception).
- `vectorValue` drops elements of an array that is no list (`VectorIsList`).

Deadlock is checked in every run: a script can always make another call.

## Fairness

`FairSpec` of `FileLocks` is weak fairness of `OpenStep(p)` for every process:
once `open(2)` has returned, `io_open` is straight-line code whose next system
call, `F_SETLK` or `close`, does not block. Nothing is assumed of the scripts:
no process has to close anything or let another one in.

`FairSpec` of `ReadLoop` is weak fairness of the device's answers, with bytes or
with none. The code does not provide it: a blocking descriptor may never
answer. `CallReturns` therefore says no more than that the loop itself ends when
every `read(2)` does; that failures end it is `ReadFails`, which needs no
fairness.

`SerialSettings` has no fair specification: `tcsetattr` with `TCSADRAIN` waits
for the output to drain, which a device under flow control may never do.
`Tokenizer` needs none: `MovesOn` gives the bound on its iterations as a step
property. `Ioctl`, `Extension` and `Members` have none either: a driver may keep a
call for ever, and neither the engine nor a script has to go on.

## Proofs

All theorems hold for every value of the constants that satisfies the modules'
assumptions: any set of finite flag strings, any processes, files and
descriptor numbers, any flag words over `Bits`, any integer modes, any bytes
and natural lengths, any widths of `Ioctl` that relate as a byte, a half, an `int`
and a `long` do, any elements an extension adds, and any variables, names and
numbers of `Members`. One assumption is more than a type: `MembersConstants` asks
for more than three `int`s, since a vector of two values needs the keys 0 and 1, and
for an even number of them.

- **`FlagParserProofs`.** The inductive invariant `Parsed` is the type
  invariant, `InvalidExactly`, `Meaning` and `OneAccessMode` together, all of them
  statements about the prefix read so far. That a later letter cannot hide the
  error rests on its mask leaving the sign bit alone. What the last letter of a
  prefix is, and whether a letter occurs in it, are unfolded by one character in
  lemmas.
- **`FileLocksProofs`.** `IInv` adds to `TypeOK` and `Accounted` that locks of
  different processes exclude each other in the kernel's table
  (`LocksExclude`), that a process that has not reopened a file has one
  descriptor of it (`SoleDescriptor`) and with it the lock (`SoleHasLock`), and
  that a lock has a descriptor (`LockHasDescriptor`). `ContentProtected` and the
  refinement are step properties proved from `IInv`, one step per action; the
  refinement's cases are the lemmas about how `Access` changes when a descriptor
  comes or goes.
- **`ReadLoopProofs`.** `IInv` adds to the three properties that the buffer's
  first `received` bytes are `consumed` (`Stored`, whenever an end character is
  looked for, or after a single `read(2)`) and that no end character has been
  passed while the call goes on (`Unfinished`). `NothingBehindTaken` has the two
  exceptions of `TakesNoMore`, and `TypeCorrect` says that the count stays within the
  `length + 1` bytes of the buffer.
- **`TokenizerProofs`.** The invariant says where the two positions are, that
  every run that begins before `lastPos` has been returned, and that the last
  token ends before it. `Least` gives the least position the searches choose,
  from the well-founded order of the naturals.
- **`SerialSettingsProofs`.** `CopyMeans` says that the copy is what the first
  `k` tokens mean, `Stages` what is known of the tokens and of what was written
  at each system call, `ReportMatches` that the array agrees with the copy.
  `MeansStep` and `ReportStep`, one case per kind of token, carry them over an
  iteration. Nothing is assumed of the port but its type, so other programs
  disturb nothing the invariant mentions.

- **`IoctlProofs`.** `ToIntBack` says that a number that fits an `int`'s width comes
  back from `int` unchanged, `IntBack` the converse, `IntBits` what an
  `int` is as an unsigned word; these, and what the halves of a number are, rest on a
  few facts about division. The invariant adds to `TypeOK`
  that the buffer of a set command in progress has the numbers of its array, and
  the settings of the port for what the array does not mention as long as the call
  is intact (`Agrees`, `Pending`). `WordInv` is the one lemma for everybody who may
  change the settings in between. The refinement maps a step to `Put`, `Get`,
  `Change` or `Other`: `BufferSame` says that the buffer has the number passed, sign
  extended, `ToldInt` that the number returned has the bits of the driver's wherever
  an `int` can; two unsigned numbers and an `int` with the same bits agree by
  `SameRemainder`.
- **`ExtensionProofs`.** The invariant follows `get_module` (the first time the
  registered elements are the first `adding` of `Added`, later all of them) and the
  handler: what is left of it is what is left of one of the ways through it after a
  number of steps, each of which has found its parameter there. `RoomForAll` needs
  that `functions()`, a sum over the elements, is the number of places in the
  table: `SumsExist` and `CountIsCardinality`, by the least number of elements for
  which it would fail.
- **`MembersProofs`.** The operators first. A chain of members is a recursive
  function over its length; `ChainExists` and `ChainSteps` give its equations,
  `Written` those of the copies `Assign` makes on its way up, and `UpTo`, from the
  least number for which something fails, replaces induction over the length.
  `ReadAssigned` says that after an assignment each level reads what was written
  there; `MembersReadBack` follows without any invariant.
  `IsTree` is what the values are: members of some set every element of which is
  NULL, a number below `Base` or an array with elements of the set (`Closed`),
  which avoids induction over their depth; setting, unsetting and computing keep
  it. `PartsReached` and `TreeReached` translate `Parts` and `TreeOf`, which TLC
  enumerates, into what the chain of a place's keys reaches. A place then is at or
  below the one changed, above it, or parts from it after some keys (`Parting`):
  `AssignedThere` and `AssignedBeside` say what is at each after an assignment,
  `MovedThere` which scalar became element 0, `UnsetThere` the same for unsetting,
  and `AssignOnePlace` and `UnsetOnePlace` put the tree together.
  `VectorOfList` counts: an array that is no list lacks one of its first keys, so
  the vector is shorter.
  The invariant `IInv` says that all values are such trees, and `GlobalSeen`. `NextChanges` reduces the six actions to one kind of
  step, `Changes`: one variable gets another tree, and a global that was NULL is
  the script's afterwards or was changed by an operator. That a member that was
  unset belongs to a variable that was an array or to a global that is updated
  (`UnsetAtTree`) is what keeps `GlobalSeen`, as `unset` of a first level updates
  nothing.

Every invariant and every step property the runs check is stated by one of these
theorems. Only model-checked: `OpenReturns` and `CallReturns`, which are liveness
under fairness and outside what the prover handles, and that the statements of the
three runs that expect a violation fail.

## Not modelled, and what is left

- What `io_ioctl_raw` would do with its buffer: no script reaches it. `Extension`
  has the order of its checks.
- Control characters (`c_cc`) in `Ioctl`, and that the kernel applies the lock mask
  when settings are written: the mask is a word like the settings.
- In `Extension`: interfaces, properties and constants of classes, ini entries, and
  the callbacks for the start and end of a process or request, none of which
  php-io registers.
- In `Members`: objects, references, moves, strings as buffers, iteration. Their
  behaviour is in the library's source files, which the repository does not have.
- The other headers of PHP-CPP, the test pages, the build.
- A negative length of `io_read` in `ReadLoop`: `new char[]` or `read(2)` refuses it.
  `Extension` has the former.
- Bytes an `io_read` that fails has taken and does not return, and the close of a
  number that was given out again: both happen in the models, and no statement of
  the repository says what should.

Left: a refinement of a script's calls on one device (`io_open`, `io_set_serial`,
`io_read`, `io_close`) to an abstract port.
