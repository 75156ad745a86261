# dbusxx in TLA+

A verification project for dbusxx, a C++ binding of sd-bus, and for `dxxcpp`, the
compiler of its interface language: TLA+ modules of the library's concurrent core and
of the compiler's phases, TLC configurations that check them on small instances, and
TLAPS proofs of what the library promises for instances of any size. Paths are relative
to the repository; `LooperPrivate.cpp` and the like are under `library`, `Sema.cpp` and
the like under `tool/dxxcpp`.

Contents: [the system](#the-system), [the modules](#the-modules),
[the runs](#the-runs), [fairness](#fairness), [the proofs](#the-proofs),
[where the code and its documents disagree](#where-the-code-and-its-documents-disagree),
[what is not modelled](#what-is-not-modelled),
[what could follow](#what-could-follow).

## The system

dbusxx has two programs: the library (about 7,800 lines) and `dxxcpp`, a compiler
from an interface language to C++ classes that use it (2,900 lines of sources).

A **session** owns one sd-bus connection (`SessionPrivate`). sd-bus is not
thread-safe, so a session belongs to one thread, the one that runs its **looper**
(`LooperPrivate`, an `sd_event` loop with an eventfd for tasks and one for the exit
request). Everybody else talks to that thread by `post()`. A **server** is a session,
a looper, and a table of annotated methods, signals and properties that it
registers from the looper's ready callback. A **client** borrows a looper or shares
one with the other clients of its bus or service, together with a session and a thread
(an `AsyncPool`), and each of its calls is a task of that looper
whose result is a **pending reply**: a handler that sd-bus knows by a raw pointer, a
promise, and perhaps a callback, all shared between the calling thread and the loop.
A **property** of a server travels to its watchers in the signal PropertiesChanged.
`dxxcpp` is a sequential program: lexer, parser, semantic analysis, code generator, files.

| component | state | operations | interacts with |
|---|---|---|---|
| Looper (`LooperPrivate.cpp/.hpp`, `Looper.*`) | status, task queue under a mutex, wake and exit eventfds, accept source, ready callback | `onReady` `run` `stop` `post`; handlers of exit, wake, accept, Disconnected | any thread posts; the session attaches its bus; `doReconnect` is a task |
| Asynchronous calls (`PendingReply.hpp`, `ReplyAsyncHandler.*`, `Reply.hpp`) | handler (slot, message, `isFinished`, reference count), promise/future, callback under a mutex | call, `onReply`, `setCallback`, `wait`, `get`, destruction | loop thread delivers, application threads wait and drop |
| Server (`Server.hpp`) | `mStatus` `mRunCalled` `mInited` | `run` `init` `status` `stop` `forceStop` `post` `emit` `getProperty` `setProperty` `onPropertyChanged` | looper (tasks, ready callback), session (builder) |
| Session registry (`SessionPrivate.*`, `Session.*`, `VTableRegistrar.cpp`, `Reconnect.cpp`) | objects with entries and vtable slots, signal listeners, watched properties, connection, name | builders and `commit`, `listenSignal`, `onRemotePropertyChanged`, `reconnect` | the bus daemon, sd-bus |
| Method layer (`Method.hpp`, `FunctionTrait.hpp`) | none of its own | `callAsync`, `listenSignal`, property wrappers, vtable handlers | session, sd-bus |
| Client (`Client.*`) | pools of shared loopers, weak pointers that find them, a lock for those of peers | construction, move, destruction; sync and async calls, listeners, properties | looper, session |
| Property and signal handlers (`PropertyHandler.cpp`, `SignalHandler.hpp`) | callbacks by interface and name | delivery of PropertiesChanged and of signals, fetch of an invalidated property | the owner of the property, session |
| Adaptor handles (`Raw*SharePtr.cpp`) | sd-bus reference counts | copy, move, assign, release | everything above |
| Codec and values (`Args.hpp`, `Message.hpp`, `Status.hpp`, `UnixFd.hpp`) | one message | typed read and write | sd-bus |
| dxxcpp lexer (`Lexer.cpp`) | cursor with line and column, tokens, errors | one token, comment or blank at a time | parser |
| dxxcpp parser (`Parser.cpp`, `Ast.hpp`) | token index, errors, tree | one declaration or member at a time, recovery | analysis |
| dxxcpp analysis (`Sema.cpp`, `Ir.hpp`) | none: functions of the tree | checks of names, types, cycles, order, annotations; lowering | generator |
| dxxcpp generator and driver (`Codegen.cpp`, `main.cpp`) | options, files written | arguments, phases, writing files | file system |

What is hard: three groups of threads meet at the looper's queue; a pending reply is
shared by a thread that may drop it at any time and a C library that holds a raw
pointer to it; a server's callers block on promises only the loop can set; and a
session is rebuilt, piece by piece, against a daemon that may go away again in the
middle; clients on any thread, callbacks included, share pools that go with the last of
them; a property's signal is sent by calls that nest and read by a loop that may stop in
the middle. The compiler goes on after errors and hands its generator whatever its checks
let through. What makes each part correct:

- **Looper**: no post without a wake-up, every thread's tasks run once and in order,
  a stop is never lost.
- **Asynchronous calls**: one resolution per promise, never two or no callbacks, a
  handler that outlives its slot and is destroyed on the loop thread, no leak.
- **Server**: no call before the interface is complete, no call lost while the loop
  lives, promises on the stack outlive the tasks that refer to them, failure is final.
- **Session**: no vtable points to released data, no slot outlives its connection, no
  listener is forgotten, a reconnection restores everything that the bus does not refuse, or
  the session knows it is off the bus.
- **Properties**: a watcher ends with the owner's value and never goes back in time.
- **Client**: a pool is torn down alone and after its last client, clients of one service
  share one, calls end.
- **dxxcpp**: nothing in the source is lost in silence, positions are right, recovery ends
  and spares the next declaration, what is accepted gives types in order and no function
  twice, and the exit code tells what was written.

`PROJECT.json` lists the hazards, line by line, with the property that covers each.

## The modules

| module | models | kind |
|---|---|---|
| `TaskQueue` | what `post()` promises: an atomic FIFO queue whose tasks may be left behind once it is closed | abstract specification |
| `Looper` | `LooperPrivate` and `Looper` | component |
| `Service` | what a server promises to threads that call it: each call takes effect once, atomically, between its invocation and its return, while the server serves | abstract specification |
| `Completion` | what an asynchronous call promises: one result, then callbacks, never an older one after a newer one | abstract specification |
| `AsyncReply` | a call from `Client::callSync/callAsync` over `Method::callAsync` to the end of its handler | component |
| `Server` | `Server.hpp` over `L == INSTANCE Looper` | composition |
| `Session` | registry, listeners, `reconnectSession`, `doReconnect` | component |
| `Properties` | `PropertyWrapper`, PropertiesChanged, `PropertyHandler` | component |
| `Client` | `Client` and its pools | component |
| `Lexer` | `Lexer.cpp` | component |
| `Parser` | `Parser.cpp` over tokens | component |
| `Sema`, `Codegen` | `Sema.cpp` and `Codegen.cpp` as operators over the tree | pure algorithms |
| `Driver` | `main.cpp`: command line, phases, output files, exit code | component |
| `Dxxcpp` | `Driver` over `Parser`, `Sema` and `Codegen` | composition |
| `MCLooper`, `MCAsyncReply`, `MCServer`, `MCSession`, `MCProperties`, `MCClient`, `MCLexer`, `MCDxxcpp` | constants for TLC | instances |
| `SeqLemmas` | facts about tuples built with `Append`, `Tail`, `Head` and `\o` | lemmas |
| `LooperProofs`, `AsyncReplyProofs`, `ServerProofs`, `SessionProofs`, `ClientProofs`, `PropertiesProofs`, `DxxcppProofs` (lexer, parser and driver) | the theorems | proofs |

Beside some steps stands a faulty variant, a plausible mistake in the code (in `Looper`,
`AsyncReply`, `Server` and `Session` in a section *Mutated steps*, elsewhere just before
the step). None of them is part of a specification: replacing the step by its variant
makes TLC find the property it is listed with violated, which shows that the property
says something.

### Looper

`post()` is two steps, `Push` (under the lock) and `Wake` (the eventfd), because
another thread can run between them. The wake handler is `DispatchWake` (read the
counter), `TakeTasks` (swap under the lock), `RunTask` for each, `BatchDone`; a task
may post, including doReconnect's handler (`LoopPost`). `DispatchExit` reads the exit
eventfd and leaves after the handler; `RunFails` collects the early returns of `run`.
A peer session waits for a peer (`DispatchAccept`) and gives the ready callback to the
accept handler; a bus session posts it as task 0. `status` is an error or not.
An eventfd is a counter that is read as a whole; its maximum of 2^64-2 is out of
reach and not modelled. `ran` is a history variable.

### AsyncReply

Each call has its own small program on the application's side (`app`) and a
handler with its references (`refs`), slot, promise (`got`), `isFinished` (`fin`) and
installed callbacks, which are numbered. `onReply` is four steps of the loop thread,
between which other threads run: enter (`OnReply`: guard, release the slot), `Deliver`
(promise), `Take`/`RunCallback` (copy under the mutex and call), `Finish`
(`isFinished`), `Leave`. `setCallback` is `Install`, `CheckFinished`, `FireHere`.
`Drop` may happen at any time; the deleter posts, and `RunDelete` destroys on the loop
thread. `OnReplyDying` is `shared_from_this()` on a handler without owners.
The contents of messages are reduced to: a value, an error, a timeout; `Ret` says
which result types can show it (`ReplyOf`). The looper is its queue here: that it
loses nothing is what module Looper shows.

### Server

`Server` has the looper's variables and uses its actions through `L`. `Run` installs
the ready callback, `EnterLoop` is `Looper::run`; `BeginInit`, `CommitGroup`,
`SetInited`, `ReadyReturns` are `init()` inside task 0, one group at a time. The four
cross-thread calls have one shape and are one set of actions: `CheckCall` (status),
`PushTask`, `WakeLoop`, then waiting, `CallReturns` once the task (`RunPosted`) has
set the promise. `ImplementsService` maps them to an atomic service: `Place` says where a
call stands, `RunPosted` is the one step in which it takes effect. `CheckPost` is `post()`, whose caller does not wait. `stop()` checks,
then is ignored or written.

### Session

User code of the session runs before `run()` or in tasks of the loop, never inside
`doReconnect`, so `AddEntry`, `Commit`, `ListenSignal` and `WatchProperty` are guarded
by `UserRuns`. Data is a number: registering a name again replaces number *n* by
*n + 1*, and a vtable remembers the numbers it points to. `DaemonStops` and
`DaemonStarts` interleave with each step of `doReconnect`: `StartReconnect` (release
all slots, close, open), `RequestName`, `PublishAgain` for each object in the order of
an unordered map, that is any, `ListenAgain` for signals then properties, `Attach`.
A match rule may be refused whenever it is asked for, on a live connection too: an invalid
name, a limit of the daemon, a timeout (`MatchRules`). `RawBus::listenSignal` reports success
all the same (a shadowed variable, `RawBusSharePtr.cpp:372`), and `Method::listenSignal` then
keeps an uninitialized slot pointer: `wild` is the choice over what that memory holds.
`refused` is a history variable, the listeners whose rule this connection refused. No part of
the code knows it, so `DeafOnlyIfRefused` and `ReconnectIsComplete` claim what the code can
give (nothing is lost in any other way) and `HeardWhileConnected`, the promise, is violated.

### Properties

A value of a property is the number of the assignment that made it, so order can be read
from it. `frames` is the stack of calls of `set()` on the owner's loop thread: `Set`
assigns, `Observe` calls the observer, which may `Set` again, and `Emit` sends what the
getter returns then. A foreign owner (`foreign`), another implementation of D-Bus, may put several
properties in one signal in any order and may invalidate some (`ForeignChange`, external).
`onPropertyChanged` is a loop over the dictionary, one entry a step (`EntryTold`,
`EntrySkipped`, `EntryMistyped`), then over the invalidated names (`Fetch`); a fetch waits
on the bus (`Serve`, `Fetched`, `FetchFails`) while signals queue behind it.
`missed` is a history variable: the properties whose current value was lost with the
connection, behind a mistyped entry, or in a failed fetch. Each property is watched once.

### Client

The actors are the threads of the program and the loop threads, which act in callbacks.
`Lookup` and `Create` are `getAsyncPool`, two steps, because another thread may come
between `weak.lock()` and the assignment unless `lock` (`sPeerLock`) keeps it out;
`Destroy` and `MoveAssign` let go of a pool, and the last owner runs `~AsyncPool`
(`Release`, `Join`), which is `crashed` on the pool's own thread. `CallSync` and `Listen`
stand for every operation of a client; `getProperty`, `setProperty` and `callAsync` wait
for their task as `Listen` does. A callback does one thing with a client. The program is
assumed not to destroy or move a client that another thread is using (`InUse`), which the
documents ask for. `Rename` follows the identity of a client through moves, because
listeners are named by the client that registered them; they stay in the session.

### Lexer

A character is a string of length one. Each turn of the loop in `tokenize()` is an action,
tried in the order of the code (`IsNumber` before `Symbol`, since `.5` is a number);
`CommentEnd`, `IdenEnd`, `NumberEnd` and `StringEnd` say how far the scanners go. The scan of a
string, a loop in the code, is stated without recursion so that it can be proved about: a
quote ends the string unless an odd run of backslashes stands before it (`Escaped`).
`SourcesAssumption` says that a text is a sequence.

### Parser, Sema, Codegen, Dxxcpp

A token is its text. The productions of `Parser.cpp` are operators that return where they
stopped and what they built; the loops of `parseRoot()` and `parseInterface()` are actions
(`Struct`, `Alias`, `OpenInterface`, `Member`, `CloseInterface`, `Stray`), so each has its
report and its `Resume`. There is no `RECURSIVE` operator in it, so that it can be proved about:
a loop inside a production is a recursive function of the position (`Repeat`, and `Separated`
for lists), types and initializers are functions of the nesting that is left (`TypesWithin`,
`ValuesWithin`: the `aDepth` of the code, counted down from `MaxNest`), and where
`skipToResumePoint()` stops is the first position at which it may, given the braces that are
open there (`Opened`, `ResumesAt`). `DeclarationsAnswered` says of a declaration that starts on
its own (`Declares`: behind a `;`, outside of all braces) that it is parsed or diagnosed. A
keyword behind a stray brace, or without a `;` before it, is no such declaration: there the
recovery has to guess, and nothing is claimed. `Sema` is `validateAst()` and `generateIr()` as functions of the
tree. An error is a pair of a kind and a name; its position and its wording are left out. Lowering
returns the node, or that it would report, throw, or recurse for ever, which `Outcome`
turns into how `analyze()` ends. `IntOf` gives the value of a number token, and
`U32`, `U64` the widths it is cut to, scaled down for TLC. `Codegen` gives what each
generated file declares or defines: at namespace level the constants `*_PATH` and `*_IFACE`,
the structs and aliases with the types they use, and the three classes of an interface; in a
class its constructor (the name of the class), its functions, with what tells overloads
apart, and its data members, the variables of the `DBUSXX_*` macros included. `UpperOf` is
`toupper`, as `CapitalOf` of `Sema`, on the names of the instance. `Driver` is `main.cpp`: arguments, reading,
the phases in their order, `--list-outputs`, the folder, and each file, which may fail to open,
fail on the text (`failed`), or fail when the stream is destroyed (`short`), which nobody looks at. What the parser
accepts and what the analysis finds are parameters of two of its actions (`JudgeSyntax`,
`JudgeTree`), so that it needs none of their recursive operators and can be proved about.
`Dxxcpp` is a run of the tool: it gives the two what the parser, step by step, and the
operators of the analysis yield. Each of its steps is a step of `Driver` or of `Parser` with
the rest unchanged, so that the theorems about the two are about the tool.

## The runs

| run | instance | states | shows |
|---|---|---|---|
| `Looper` | 2 threads with 2 and 1 posts, the loop with 1 and the ready callback, 1 stop | 93,474 | NoLostWakeup, PostOrder, the loop implements `TaskQueue`, queued tasks run, a stop ends `run` |
| `AsyncReply` | a kept, an abandoned and a callback call, 2 callbacks per handle | 666,852 | the call implements `Completion`, the handler outlives its slot, no leak, `wait` ends, callbacks run |
| `Server` | 2 threads with 1 call each, the loop with 1 post, 1 stop, 2 groups | 83,938 | the server implements `Service`, keeps its looper fairly scheduled, calls end, the server comes up, a refused group is the last |
| `Session` | 2 objects, 2 names, 1 refused entry, 1 signal, 1 watch, 3 connections, refused match rules | 679,168 | registry and reconnection: what is published lives, nothing of an old bus, no listener forgotten, complete or given up |
| `Properties` | 3 properties, 1 of them mistyped, 3 values, `set()` twice nested, 2 signals under way | 2,036,798 | a watcher ends with the owner's value; never goes back |
| `Client` | 2 threads, 1 service, 1 bus, 2 pools, 2 clients, 1 listener | 58,474 | pools and their teardown, calls end |
| `Lexer` | every text of at most 5 characters out of 11, with and without byte order mark | 1,042,409 | nothing lost, positions, lines |
| `Dxxcpp` | 6,958 files and command lines | 611,202 | the whole tool: what is accepted, what is reported, what is generated and written |
| `AsyncReplyLost` `AsyncReplyAbandon` `DxxcppTypes` `ClientListeners` | the same or smaller | | a documented promise is broken, see below |

Seven more configurations end in a counterexample of one property that quotes a document:
`AsyncReplyError.cfg` (with `MCAsyncReply`), `ServerStop.cfg` and `ServerCall.cfg`
(`MCServer`), `SessionBack.cfg` and `SessionDeaf.cfg` (`MCSession`), `DxxcppNames.cfg` and
`DxxcppShort.cfg` (`MCDxxcpp`). Apart from `Looper`'s, the type invariants, and a few
invariants that lead to others (`PromiseIsAlive`, `CallsAfterInit`, `WaiterIsServed`,
`CallbackAtMostOnce`, `CrashNeedsAbandon`), are proved and therefore in no run.

The bounds, each a constant: `MaxPosts` (per thread), `MaxStops`, `MaxInstalls`,
`Groups`, `MaxVersions`, `MaxConnects`, `MaxValue`, `MaxDepth`, `MaxWire`, `Pools`,
`Clients`, `Callers`, `MaxListeners`, `MaxLength`, `MaxNest`. They are large enough for
what each property is about. Two posts of one thread show reordering and a second thread shows overtaking;
one post between read and swap and one after show both sides of the wake-up race. Two
installed callbacks show the one that is replaced and the one that races. Two groups
show a server between groups, and a failure before and after a success. Three
connections let a session lose the bus, come back, lose it and come back; two versions
of a name show re-registration. An object without refused entries stands beside one
with. Three values and two nested calls show an inner signal that overtakes an outer one;
two signals under way, a fetch between two signals. Two clients and two pools show sharing,
the last one leaving, a pool made while another is torn down, and two loops that call one
another; the second thread makes, moves and destroys clients only (`Callers`). Five characters
hold an escape at the end of a string at the end of a line and a sign after an exponent.
The files of `Dxxcpp` are two correct ones that have every production between them, with
one token missing, doubled, replaced or the rest cut off; all pairs of members out of a
pool whose generated names can meet; and all combinations of two aliases and two structs
over a pool of types that the checks tell apart. `MaxNest` is 3 where the code has 64: the
limit is met and passed. Symmetry is not used: the threads of a run differ.

Deadlock is not checked, because the systems do stop: a loop that has returned, a
session with nothing left to register, a process that has crashed, a tool that has exited.

## Fairness

- A thread inside a function of the library takes its next step (weak fairness on its
  steps); nobody is obliged to call one, to drop a handle, or to connect.
- `sd_event` does not pass over a ready source for ever: among sources of equal
  priority it takes the one that has waited longest. Strong fairness on `DispatchWake`
  and `DispatchExit` is this (strong since the loop leaves "polling" between dispatches).
- sd-bus ends every pending call, by a timeout at the latest (`Answer`, and `Reply` in
  `Client`, where fairness is strong because a reply waits for the loop to be idle).
- In `Client` a loop serves its tasks and its exit event whatever signals keep arriving
  (strong fairness, by the same rule of `sd_event`), callbacks return, and a thread
  inside a constructor or a join goes on. Nobody has to make, use or destroy a client.
- `Server` assumes only steps of its own threads and derives the looper's fairness:
  `LooperGoesOn` says that it implies `Looper!Fairness`.
- In `Session` the loop thread dispatches the Disconnected signal and the posted task,
  which the looper's liveness justifies. The daemon owes nothing; `ComesBack` and
  nothing else supposes that it stays up.

## The proofs

Every theorem holds for all values of the constants that meet the module's named
assumptions: `LooperAssumption` and `ServerAssumption` (the loop thread is no poster,
bounds are naturals), `AsyncReplyAssumption` (handle calls and callback calls are
distinct, only handles are abandoned), `SessionAssumption` (signals and watches are
distinct, bounds are naturals, `MaxConnects` positive), in `Client` and `Properties`
`NamesAssumption` and `BoundsAssumption`, in `Lexer` `SourcesAssumption`, and in `Parser`
`ParserAssumption` (a number or a string is no mark). `Driver` has no constants. The bounds are constants too,
so no bound limits what is proved. TLC checked every invariant before its proof.

| theorem | property | inductive invariant and argument |
|---|---|---|
| `LooperProofs!TypeCorrect`, `NoWakeupIsLost` | `TypeOK`, `NoLostWakeup` | `QueueInv`. The wake-up is the counter, a poster between its two steps, or a handler before its swap; the swap empties the queue. `LoopThreadSilent` is needed because the loop thread posts in one step. |
| `LooperProofs!TasksKeepTheirOrder` | `PostOrder` | The history `ran \o batch \o tasks` is only ever appended to; `NumbersUsed` says which tasks are in it, `BatchOnlyInHandler` that the swap finds no batch. |
| `LooperProofs!LooperIsTaskQueue` | `ImplementsTaskQueue` | Pushes append, `RunTask` takes the head, the swap and the eventfds stutter, under the refinement `pending <- batch \o tasks, done <- ran, closed <- loop = "returned"`. |
| `AsyncReplyProofs!*` | `TypeOK`, `FinishedIsResolved`, `ResolvedOnce`, `HandlerOutlivesSlot`, `CallbackAtMostOnce`, `CrashNeedsAbandon`, `TornDownByLoop` | `AsyncInv`: for each place of the loop thread and of each call it says who references the handler and whether the promise is set, and it bounds the callbacks by those installed. |
| `AsyncReplyProofs!AsyncReplyIsCompletion` | `ImplementsCompletion` | `AsyncInv` again, under `result <- got, offered <- installed, run <- fired`: a callback the loop copied is the first to run, one that the installing thread runs is newer than those that ran, and both find the promise set. |
| `AsyncReplyProofs!HandlersAreReclaimed` | `NoHandlerLeaks` | `LeakInv` beside `AsyncInv`: a dying handler has its deletion in the queue, and the session keeps a callback's handler only while its reply is due or being delivered. |
| `ServerProofs!NoCallBeforeInit`, `FirstFailureIsFinal` | `CallsAfterInit`, `FailureIsFinal` | The looper's invariants hold, since each step of the server is a step of `L` or leaves its variables alone (`StepOfLooper`). `InitInv` ties the phase of `init()` to status, groups and the looper's batch. |
| `ServerProofs!PromiseOutlivesTask`, `NoCallIsLost` | `PromiseIsAlive`, `WaiterIsServed` | `CallInv`: at most the newest task of a thread refers to a promise, and the thread is still in that call. The looper's `PostOrder` is what makes it the newest. |
| `ServerProofs!ServerIsService` | `ImplementsService` | `InitInv`, `CallInv` and `RanIsAnswered` (the calls that ran are those whose promise is set), under a mapping in which a call is done once the promise of its own number is set. A test that is passed invokes, `RunPosted` executes, the return returns, the push and the wake-up stutter. Calls of one thread after another are told apart by their numbers, which the small instance, with one call a thread, does not show. |
| `SessionProofs!*` | `TypeOK`, `PublishedDataAlive`, `SlotsOfThisBus`, `GivesUpForAReason`, `DeafOnlyIfRefused`, `ReconnectIsComplete` | `SessionInv`: `PhaseInv` says what holds in each phase of `doReconnect`, `ProgressInv` that what is not in `todo` is done, `AskedInv` that on an open connection each listener has its rule or was refused it, `todo` apart. |
| `ClientProofs!*` | `TypeOK`, `TornDownAlone`, `PeersShareOnePool` | `ClientInv`: who joins a pool does it alone (`JoinersAlone`, `SomeoneJoins`), who waits has a client of that pool (`CallsOwned`, `QueueWaits`), who makes a pool of a service holds the lock and found none (`Makers`), a pool that can be found is in use and that of a service can be found (`WeakIsLive`, `PeerIsFound`). The lock is what makes `Makers` inductive. |
| `PropertiesProofs!ValuesInOrder` | `NeverBackwards` | `OrderInv`, for an owner of this library: what the watcher saw, the signal it reads, the signals under way and the property itself carry values that do not decrease. Such an owner invalidates nothing, so nothing is fetched. |
| `PropertiesProofs!PropertiesTyped`, `WatchersEndCurrent` | `TypeOK`, `SeenIsCurrent` | `CurrentInv`, for any owner: whatever a watcher was told last, either something still to be read brings the current value (a call of `set()` that has yet to emit, a signal under way, the rest of the one that is read, an answer), or the name is among the missed. `UniformInv` says that a signal tells one value of a name, `StepInv` what the reader is at. Only the last mention on the wire has to be current (`WireFresh`), which is why a stale signal between is harmless and why one that overtakes in a nested `set()` has to be followed by another. |
| `DxxcppProofs!LexerTyped`, `NothingDropped`, `PlacesCorrect`, `LinesApart` | `NothingIsLost`, `PositionsAreRight`, `LinesAreIndependent` | `LexInv`, for texts of any length: the cursor stays within the text and its line and column are those a reader counts (`LexTypes`, `CursorInv`), tokens lie one after the other behind it (`OrderInv`), what it has passed is blank, comment, token or reported (`CoverInv`), and tokens and errors kept the position at which they were met (`PlaceInv`). That a scanner stops at the end of its line needs no induction, because its end is defined as the first place where it may stop. |
| `DxxcppProofs!ExitTellsFiles` | `FilesMatchExit` | `DriverInv`, for any command line, any files and any verdict of parser and analysis: the files written are the first of the outputs, in their order (`InTurn`), and what each stage finds was done by those before it (`StageInv`). A file that only its destructor cut short is outside it, as the tool does not see that either. |
| `DxxcppProofs!ParserReads`, `ParserEnds` | `ParserAdvances` | `ParserInv`, for any file of tokens: the position stays in the file and the errors lie behind one another up to it. That the loops and the nesting of the productions end, take only what stands before the position at which they stop, and take no `;` but the last, is shown by induction over the position and over the levels, with the set of what is shown as the parameter (`UpInduction`, `BackInduction`, `RepeatReads`, `TypesRead`, `ValuesRead`); the measure is `Remaining`. |
| `DxxcppProofs!StepsKeep`, `EveryDeclarationAnswered` | `DeclarationsAnswered` | `AnswerInv`. The first theorem is the heart: no step passes a second declaration (`Onward`). A declaration starts behind a `;`, and a production takes none but its last (`KeptWithoutSemi`); the fields of a struct hold `;` but within an open brace (`NoneInBraces`); the recovery, wherever it starts, stops at a declaration that is outside of all braces (`ResumeKeeps`), because braces it has skipped are still open (`SkippedIsOpen`). Then what a step starts at has an answer (`Answers`), where the members of an interface need to know that nothing was passed since it was opened (`ReadsOpen`). |

Only model-checked:

- Liveness (`QueuedIsRun`, `StopEndsRun`, `WaitEnds`, `CallbackRuns`, `LooperGoesOn`,
  `ServerComesUp`, `LossIsNoticed`, `CallEnds` of `Server` and of `Client`) and everything
  that needs `ENABLED`; TLAPS does not reason about it here.
- `RoundTrip`, `SoundIsGenerated` and `DerivedNamesUnique` of `Dxxcpp`.
  `Sema` and `Codegen`, and the texts of a tree in `Dxxcpp`, recurse over a tree with
  `RECURSIVE` operators, which TLAPS does not handle; and names are made with `\o` on strings,
  of which the provers know nothing.

The other modules have no `RECURSIVE` operator; their sequences are handled by index
with the facts of `SeqLemmas` and of the library.

## Where the code and its documents disagree

Each item is one property that quotes a document and that TLC finds violated. The first
four are runs, the others extra configurations.

1. `AsyncReplyLost` / `CompletionNotLost`. `PendingReply.hpp:75` says a callback
   installed late is called at once, "so the completion is never lost". `onReply`
   copies the callback first and stores `isFinished` last: a callback installed between
   is seen by neither.
2. `AsyncReplyAbandon` / `AbandonIsSafe`. `TestServerClient.cpp:175` says an abandoned
   call must not crash when its reply shows up later. If the reply is dispatched
   before the posted deletion, `shared_from_this()` throws (`ReplyAsyncHandler.cpp:16`).
3. `DxxcppTypes` / `BrokenTypesAreRejected`. `checkType()` looks into a vector only when
   it has not exactly one argument (`Sema.cpp:140`), so a key that is no basic type, an
   array of no elements, or an alias of itself passes the checks inside one; the last
   makes the lowering recurse for ever, and a size that does not fit makes it throw.
   `dxxcpp.en.md:167,174,191` says these are rejected and `:84-92` that the tool exits
   with 1.
4. `ClientListeners` / `NoCallbackAfterClient`. A listener is registered in the session
   of the shared pool (`Client.hpp:207`) and a client that is destroyed removes nothing,
   so its callbacks run while another client of the pool lives. `dxxcpp.en.md:514` says
   listeners "stay active until the Proxy is destroyed" and `docs/en/Client.en.md:11`
   that a client owns its session and event loop.
5. `SessionDeaf.cfg` / `HeardWhileConnected`. A match rule that is refused on a live connection
   is reported as `SUCCESS` (`RawBusSharePtr.cpp:372`), and the listener hears nothing.
   `docs/en/Status.en.md:21` says of `SUCCESS` "Operation succeeded" and `:13` that signal
   subscriptions return a `Status` to inspect. What is left is proved: a refused rule is the
   only way to lose a listener (`DeafOnlyIfRefused`).
6. `DxxcppNames.cfg` / `GeneratedNamesUnique`. `dxxcpp.en.md:764,777` say that generated names
   must be unique and that a collision "would make the output fail to compile, so the tool
   rejects it up front". The validator looks at the functions made from members only:
   interfaces `I` and `i` declare one constant twice, a struct `IProxy` or a method `IProxy`
   meets the class and its constructor, a method `mIface` or `mClient` a data member, and a
   method `prop_v` beside a property `v` the variable of the macro.
7. `DxxcppShort.cfg` / `WrittenFilesAreWhole`. `dxxcpp.en.md:89` gives exit code 1 for "a file
   read/write failure". `writeFile()` (`main.cpp:200`) tests the stream before it is closed: what
   fails in its destructor leaves a short file, the line "wrote", and exit code 0.
8. `AsyncReplyError.cfg` / `ErrorIsReported`. `docs/en/Reply.en.md:61` says `isError()` is
   true if the underlying message is an error; on the asynchronous path a `Reply<void>`
   or `Reply<std::string>` of an error message is a success.
9. `ServerStop.cfg` / `StopIsHeard`. `docs/en/Server.en.md:75,181` say that `stop()` from
   another thread ends `run()`; before the registration is complete it is ignored.
10. `ServerCall.cfg` / `CallsReturn`. `docs/en/Server.en.md:81,183` say that calls are safe
   across threads; one that races or follows a stop waits for ever.
11. `SessionBack.cfg` / `ComesBack`. `README.en.md:48` promises automatic reconnection;
   it is tried once, at the moment of the loss, and a daemon that is not back by then
   is never tried again.

Modelled, but contrary to no document, hence without a property of their own:
`reconnect()` on an object that was never committed dereferences a null context, and a
listener with an uninitialized slot pointer may end the process (`pc = "crashed"` in
`Session`); the last client of a pool that goes in a callback of that pool joins its own
thread (`crashed` in `Client`); and a call on a loop whose bus could not be opened, and calls
of two loops that wait for one another, never end (`Stuck`, which `CallEnds` excludes by
name).

## What is not modelled

- sd-bus, `sd_event` and the daemon, except as the environment: what they answer, in
  which order they dispatch, and that they hold raw pointers.
- Values: arguments, signatures, file descriptors, names and error codes beyond error
  or success; the codec (`Args.hpp`, `Message.hpp`) is compile-time recursion over
  types, on one thread.
- The reference counts of the adaptor handles (`Raw*SharePtr.cpp`): single calls of
  sd-bus on objects of one thread, which unit tests reach.
- The move constructors and assignments of `Server` and `Looper`, which may be used
  before `run()` only, and a client over a looper of the program's own.
- The vtable handler of methods and the signal handler: they unpack a message and call
  a function of the user.
- Several watchers of one property: they overwrite one another in
  `PropertyHandler.hpp:34`, and no document says what should happen.
- Driving a session by `process()`/`wait()` without a looper.
- What `dxxcpp` writes beyond names, order and use: function bodies and layout.
- Macros, examples, benchmarks, build files.

## What could follow

Everything with state that steps interleave is modelled. What a continuation would add,
in this order:

1. The checks of the analysis without `RECURSIVE`, on levels as types are in `Parser`, so
   that `SoundIsGenerated` can be proved.
2. `Client` composed with `Looper` as `Server` is, in place of its own queue and loop.
3. `Handles`: the counts of the adaptor handles under copy, move, assignment and release
   against the count sd-bus keeps.
4. The wording of generated functions, for what a name check cannot see.
