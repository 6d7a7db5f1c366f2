------------------------------ MODULE Extension ------------------------------
(***************************************************************************)
(* The extension in a process of PHP: get_module (main.cpp) registers the  *)
(* functions, the engine takes over their table, and ZendCallable::invoke  *)
(* (zendcallable.h) stands between a script's call and the handler.        *)
(*                                                                         *)
(* A handler is the order in which it looks at its parameters and makes    *)
(* its system calls; what it does with them is in the other modules.       *)
(* Besides the functions of php-io, get_module adds elements of the other  *)
(* kinds the library has: classes, constants, namespaces.                  *)
(***************************************************************************)
EXTENDS Naturals, Sequences, FiniteSets, Functions

CONSTANTS Others,       \* the elements added behind the functions of php-io, which has none
          MaxParams     \* how many parameters a script passes at most

\* What a script passes: a number, one that is no size for new char[], and what
\* is no number (or an array with such an entry), at which std::stoi throws
\* std::invalid_argument or std::out_of_range.
Params == {"number", "negative", "text"}

-----------------------------------------------------------------------------
(* The handlers (basic.cpp).                                                *)

\* Throws an exception if there are fewer than n parameters.
Needs(n) == [op |-> "needs", at |-> n]
\* Conversions of parameter i; the optional ones only if it is there.
Text(i) == [op |-> "text", at |-> i]
Number(i) == [op |-> "number", at |-> i]
OptText(i) == [op |-> "optText", at |-> i]
OptNumber(i) == [op |-> "optNumber", at |-> i]
\* new char[] with the length parameter i gives.
Allocate(i) == [op |-> "allocate", at |-> i]
\* A check of a value, a system call that changes nothing, and one that may:
\* each throws an exception if it fails.
Check == [op |-> "check", at |-> 0]
Look == [op |-> "look", at |-> 0]
Act == [op |-> "act", at |-> 0]
\* The two where a failure is not looked at.
LookAnyway == [op |-> "lookAnyway", at |-> 0]
ActAnyway == [op |-> "actAnyway", at |-> 0]

IoTestFlag == <<Text(1)>>
IoOpen == <<Needs(2), Text(1), Text(2), OptNumber(3), Check, Act>>
IoClose == <<Needs(1), Number(1), ActAnyway>>
IoWrite == <<Needs(2), Number(1), Text(2), Act>>
IoRead == <<Needs(2), Number(1), Number(2), Allocate(2), OptText(3), Act>>

\* The modem lines set before the timeout is looked at.
IoSetSerialEarly == <<Needs(2), Number(1), Look, Act, OptNumber(3), Text(2), Check, Act>>

IoSetSerial == <<Needs(2), Number(1), Look, OptNumber(3), Text(2), Check, Act>>

\* By the command: one that is not defined, one that needs a number, a number or
\* a text it can do without, and a set command.
IoIoctl ==
  {<<Number(1), Number(2), Needs(2), Check>>,
   <<Number(1), Number(2), Needs(2), Needs(3), OptNumber(3), Act>>,
   <<Number(1), Number(2), Needs(2), OptNumber(3), Act>>,
   <<Number(1), Number(2), Needs(2), OptText(3), Act>>,
   <<Number(1), Number(2), Needs(2), LookAnyway, OptNumber(3), Act>>}

IoIoctlRaw == <<Needs(3), Number(1), Number(2), Text(3), Act>>

\* The ways through each handler.
Programs ==
  [io_test_flag |-> {IoTestFlag}, io_open |-> {IoOpen}, io_close |-> {IoClose},
   io_write |-> {IoWrite}, io_read |-> {IoRead}, io_set_serial |-> {IoSetSerial},
   io_ioctl |-> IoIoctl, io_ioctl_raw |-> {IoIoctlRaw}, other |-> {<< >>, <<Check>>, <<Act>>}]

-----------------------------------------------------------------------------
(* The functions.                                                           *)

\* An argument is required unless it is declared otherwise.
Argument(required) == [required |-> required]
ByVal == Argument(TRUE)

\* What the engine calls: a callback, the arguments it is declared with, whether
\* it takes Parameters, whether it returns a Value, and the modifiers of a method.
Callable(handler, arguments, parameters, result, modifiers) ==
  [handler |-> handler, arguments |-> arguments, parameters |-> parameters, result |-> result,
   modifiers |-> modifiers]

\* Methods: of a member function, of any other function, and without a callback.
Method(handler, arguments, parameters, result, flags) ==
  Callable(handler, arguments, parameters, result, flags)

StaticMethod(handler, arguments, parameters, result, flags) ==
  Callable(handler, arguments, parameters, result, {"Static"} \cup flags)

AbstractMethod(arguments, flags) ==
  Callable("none", arguments, FALSE, FALSE, {"Abstract"} \cup flags)

\* The elements get_module adds.
Element(kind, name, functions) == [kind |-> kind, name |-> name, functions |-> functions]
Kinds == {"function", "class", "constant", "namespace"}

\* A function whose callback takes Parameters and returns a Value, the signature
\* of all handlers.
Function(name, handler, arguments) ==
  Element("function", name, <<Callable(handler, arguments, TRUE, TRUE, {})>>)

\* io_test_flag registered without its argument.
FunctionsNoFlags == <<
  Function("io_open", "io_open", <<ByVal, ByVal>>),
  Function("io_write", "io_write", <<ByVal, ByVal>>),
  Function("io_read", "io_read", <<ByVal, ByVal>>),
  Function("io_close", "io_close", <<ByVal>>),
  Function("io_ioctl", "io_ioctl", <<ByVal, ByVal>>),
  Function("io_ioctl_raw", "io_ioctl", <<ByVal, ByVal>>),
  Function("io_set_serial", "io_set_serial", <<ByVal, ByVal>>),
  Function("io_test_flag", "io_test_flag", << >>)>>

\* What get_module of php-io adds, in its order.
Functions == <<
  Function("io_open", "io_open", <<ByVal, ByVal>>),
  Function("io_write", "io_write", <<ByVal, ByVal>>),
  Function("io_read", "io_read", <<ByVal, ByVal>>),
  Function("io_close", "io_close", <<ByVal>>),
  Function("io_ioctl", "io_ioctl", <<ByVal, ByVal>>),
  Function("io_ioctl_raw", "io_ioctl", <<ByVal, ByVal>>),
  Function("io_set_serial", "io_set_serial", <<ByVal, ByVal>>),
  Function("io_test_flag", "io_test_flag", <<ByVal>>)>>

Added == Functions \o Others

\* The functions of the extension, those of its namespaces included, and all
\* that can be called, methods included.
Places(elements) ==
  UNION {{<<i, j>> : j \in DOMAIN elements[i].functions} : i \in DOMAIN elements}
FunctionPlaces(elements) ==
  {place \in Places(elements) : elements[place[1]].kind \in {"function", "namespace"}}

\* The number of functions without those of the namespaces.
CountHere(elements) ==
  LET upTo[n \in 0 .. Len(elements)] ==
        IF n = 0 THEN 0 ELSE upTo[n - 1] + (IF elements[n].kind = "function" THEN 1 ELSE 0)
  IN  upTo[Len(elements)]

\* The number of functions, as functions() counts them.
Count(elements) ==
  LET upTo[n \in 0 .. Len(elements)] ==
        IF n = 0 THEN 0
        ELSE upTo[n - 1] + (CASE elements[n].kind = "function" -> 1
                              [] elements[n].kind = "namespace" -> Len(elements[n].functions)
                              [] OTHER -> 0)
  IN  upTo[Len(elements)]

\* Without a callback there are only abstract methods.
Callables ==
  {f \in [handler : {"other", "none"}, arguments : Seq([required : BOOLEAN]),
          parameters : BOOLEAN, result : BOOLEAN,
          modifiers : SUBSET {"Static", "Abstract", "Public", "Protected", "Private", "Final"}] :
     f.handler = "none" => "Abstract" \in f.modifiers}

ASSUME ExtensionConstants ==
  /\ MaxParams \in Nat
  /\ Others \in Seq([kind : Kinds, name : STRING, functions : Seq(Callables)])
  /\ \A i \in DOMAIN Others : Others[i].kind = "function" => Len(Others[i].functions) = 1

VARIABLES
  registered,           \* the elements of the static Extension object
  locked,               \* it takes no more
  adding,               \* how many adds get_module has made, 0 outside it
  inModule,             \* get_module is running
  allocated,            \* the room in the table of functions made for the engine
  entries,              \* what the engine has been given
  call,                 \* the call in progress
  outcome               \* of the last call

vars == <<registered, locked, adding, inModule, allocated, entries, call, outcome>>

NoCall == [running |-> FALSE, function |-> <<0, 0>>, params |-> << >>, todo |-> << >>,
           touched |-> FALSE]

\* A process that has not loaded the extension.
Init ==
  /\ registered = << >> /\ locked = FALSE
  /\ adding = 0 /\ inModule = FALSE
  /\ allocated = 0 /\ entries = << >>
  /\ call = NoCall
  /\ outcome = "none"

-----------------------------------------------------------------------------
(* Loading.                                                                 *)

\* PHP starts, or is told to reload between two requests.
GetModule ==
  /\ ~inModule /\ ~call.running
  /\ inModule' = TRUE /\ adding' = 0
  /\ UNCHANGED <<registered, locked, allocated, entries, call, outcome>>

\* One add without the question whether the extension is locked.
AddUnlocked ==
  /\ inModule /\ adding < Len(Added)
  /\ registered' = Append(registered, Added[adding + 1])
  /\ adding' = adding + 1
  /\ UNCHANGED <<locked, inModule, allocated, entries, call, outcome>>

\* One add.
Add ==
  /\ inModule /\ adding < Len(Added)
  /\ registered' = IF locked THEN registered ELSE Append(registered, Added[adding + 1])
  /\ adding' = adding + 1
  /\ UNCHANGED <<locked, inModule, allocated, entries, call, outcome>>

\* "return extension": its conversion to a pointer makes the table, the first
\* time, and locks the extension.
Module ==
  /\ inModule /\ adding = Len(Added)
  /\ IF locked THEN UNCHANGED <<allocated, entries>>
               ELSE allocated' = Count(registered) /\ entries' = registered
  /\ locked' = TRUE
  /\ inModule' = FALSE /\ adding' = 0
  /\ UNCHANGED <<registered, call, outcome>>

-----------------------------------------------------------------------------
(* Calls.                                                                   *)

At(place) == entries[place[1]].functions[place[2]]
Callee == At(call.function)

\* The call is not taken off, and the call over.
EndStays(how) == outcome' = how /\ UNCHANGED call
End(how) == outcome' = how /\ call' = [call EXCEPT !.running = FALSE]
Proceed == call' = [call EXCEPT !.todo = Tail(@)] /\ UNCHANGED outcome
Loaded == UNCHANGED <<registered, locked, adding, inModule, allocated, entries>>

\* The engine counts the parameters against the required arguments.
Valid(f, params) == \A i \in DOMAIN f.arguments : f.arguments[i].required => i <= Len(params)

\* The script calls what may be called at all: the request goes on, and the
\* engine refuses an abstract method.
Called(place) ==
  /\ ~inModule /\ ~call.running /\ outcome # "exception"
  /\ place \in Places(entries)
  /\ "Abstract" \notin At(place).modifiers

\* The handler begins.
Begin(place, params) == \E program \in Programs[At(place).handler] :
  /\ call' = [running |-> TRUE, function |-> place, params |-> params, todo |-> program,
              touched |-> FALSE]
  /\ outcome' = "none"

\* A callback that takes Parameters: too few of them are a warning and NULL, and
\* the handler does not run.
InvokeWithParams == \E place \in Places(entries), n \in 0 .. MaxParams :
  \E params \in [1 .. n -> Params] :
    /\ Called(place) /\ At(place).parameters
    /\ IF Valid(At(place), params)
       THEN Begin(place, params)
       ELSE /\ outcome' = "warning"
            /\ call' = [NoCall EXCEPT !.function = place, !.params = params]
    /\ Loaded

\* One that takes none: nothing is counted and the parameters are not fetched.
Invoke == \E place \in Places(entries) :
  /\ Called(place) /\ ~At(place).parameters
  /\ Begin(place, << >>)
  /\ Loaded

Step == Head(call.todo)
Is(ops) == call.running /\ call.todo # << >> /\ Step.op \in ops

Given == Step.at <= Len(call.params)

\* A Php::Exception: invoke catches it and raises it in the script.
Throws ==
  /\ \/ Is({"check", "look", "act"})
     \/ Is({"needs"}) /\ ~Given
  /\ outcome' = "exception"
  /\ call' = [call EXCEPT !.running = FALSE, !.touched = @ \/ Step.op = "act"]
  /\ Loaded

\* A conversion to text, which every value has.
TakesText ==
  /\ Is({"needs", "text", "optText"})
  /\ Step.op # "optText" => Given
  /\ Proceed /\ Loaded

\* A conversion that std::stoi or new does not refuse.
TakesNumber ==
  /\ \/ Is({"number"}) /\ Given /\ call.params[Step.at] # "text"
     \/ Is({"optNumber"}) /\ (Given => call.params[Step.at] # "text")
     \/ Is({"allocate"}) /\ Given /\ call.params[Step.at] = "number"
  /\ Proceed /\ Loaded

\* A system call, or a check, that succeeds.
Passes ==
  /\ Is({"check", "look", "lookAnyway", "act", "actAnyway"})
  /\ call' = [call EXCEPT !.todo = Tail(@), !.touched = @ \/ Step.op \in {"act", "actAnyway"}]
  /\ UNCHANGED outcome /\ Loaded

\* The handler returns and its value, or NULL, is stored.
Yields ==
  /\ call.running /\ call.todo = << >>
  /\ End(IF Callee.result THEN "value" ELSE "null")
  /\ Loaded

\* std::stoi or new throws what is no Php::Exception: nothing catches it, and the
\* process ends.  Another will take its place.
Dies ==
  /\ \/ Is({"number", "optNumber"}) /\ Given /\ call.params[Step.at] = "text"
     \/ Is({"allocate"}) /\ Given /\ call.params[Step.at] = "negative"
  /\ registered' = << >> /\ locked' = FALSE
  /\ allocated' = 0 /\ entries' = << >>
  /\ UNCHANGED <<adding, inModule>>
  /\ End("died")

\* The script catches the exception, or ends with it.
Handled ==
  /\ outcome = "exception"
  /\ outcome' = "none" /\ call' = NoCall
  /\ Loaded

Next ==
  \/ GetModule \/ Add \/ Module
  \/ InvokeWithParams \/ Invoke
  \/ TakesText \/ TakesNumber \/ Passes \/ Yields \/ Throws \/ Dies \/ Handled

Spec == Init /\ [][Next]_vars

-----------------------------------------------------------------------------
(* Properties.                                                              *)

Outcomes == {"none", "warning", "exception", "value", "null", "died"}
Ops == {"needs", "text", "number", "optText", "optNumber", "allocate",
        "check", "look", "lookAnyway", "act", "actAnyway"}
Calls == [running : BOOLEAN, function : Nat \X Nat, params : Seq(Params),
          todo : Seq([op : Ops, at : Nat]), touched : BOOLEAN]

TypeOK ==
  /\ \A i \in DOMAIN registered : registered[i] \in Range(Added)
  /\ \A i \in DOMAIN entries : entries[i] \in Range(Added)
  /\ locked \in BOOLEAN /\ inModule \in BOOLEAN
  /\ adding \in 0 .. Len(Added) /\ allocated \in Nat
  /\ call \in Calls /\ call.running => call.function \in Places(entries)
  /\ outcome \in Outcomes

\* No handler looks at a parameter that is not there, which would be memory
\* behind the vector: the arguments get_module registers as required (main.cpp:
\* 49-86) are enough for what each handler takes before its own check, or
\* without one (io_test_flag, io_ioctl).
ArgumentsThere == Is({"text", "number", "allocate"}) => Given

\* What ends the process does not end it half way: the handlers look at their
\* numbers before the first system call that changes anything, and it takes a
\* parameter that is no number, or no size, to end it (basic.cpp:237, 320, 356,
\* 420-424, 556, 597, 759).
DeathHarmless ==
  outcome = "died" => ~call.touched /\ \E i \in DOMAIN call.params : call.params[i] # "number"

\* However often get_module is called in a process, the engine has the table it
\* took over at first, each function once, and the extension has not grown past
\* it (namespace.h:67-83).
ReloadKeeps ==
  locked => entries = Added /\ registered = Added

\* The table made for the engine has room for exactly the functions it is then
\* filled with, at any time, those of the namespaces included (namespace.h:265-275).
TableFits == locked => allocated = Cardinality(FunctionPlaces(registered))
=============================================================================
