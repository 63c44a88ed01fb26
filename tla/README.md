# Verification of boost-tutorial-3

The repository is a collection of small, independent C++ programs that exercise
Boost: a blocking work queue, processors of tasks built on `io_service`, TCP and
HTTP clients, timers, and value types. Each source file is a program of its own;
there is no code shared between files, so the components below interact only
with the library (threads, mutexes, condition variables, `boost::asio`) and, within
a file, with one another. What makes them hard is in the concurrent and the
asynchronous programs, and they come first here.

All source paths are relative to the repository.

## 1. Inventory

| component | state | operations | interactions | hard behaviour | correct means |
|---|---|---|---|---|---|
| `work_queue` (`boost-thread-1.cpp:9-50`) | deque `tasks_`, `tasks_mutex_`, `cond_` | `push_task`, `try_pop_task`, `pop_task`, `flush` | any number of threads, one mutex, one condition variable | interleavings, spurious wakeups, a notification given after the unlock, two kinds of pop | FIFO, each task popped once, no empty function from `pop_task`, no lost wakeup, calls linearize |
| its program (`boost-thread-1.cpp:52-100`) | loop counters of six threads, `main()` | `pusher`, `popper_sync`, joins, `flush`, two asserts | the threads share `g_queue`, `main` joins them | poppers that sleep while `main` joins them | asserts hold, all is popped and run, `main` returns |
| asynchronous client with deadlines (`client-async-2.cpp`) | `stopped_`, socket, input buffer, two timers | `start`, `stop`, connect, input, heartbeat and deadline actors | handlers on one `io_service`; timers cancelled by the operations they guard | a completion racing a timeout, handlers queued before `stop`, stale deadlines, failing system calls | endpoints in turn, one step per actor, nothing waits for ever, `run()` ends once stopped |
| blocking client with timeouts (`client-bloking-timeout-1.cpp`) | socket, deadline, input buffer, `ec` of the call in progress | `connect`, `read_line`, `write_line`, `check_deadline` | each call runs the `io_service` one handler at a time | a deadline of an earlier call that is still armed, a result that arrives with the timeout | a call ends, with success only if the socket is still usable |
| `tasks_processor` (`boost-thread-2.cpp`) | queue of handlers, `stopped`, static counter | `push_task`, `start`, `stop`, `task_wrapped` | a task stops the processor that runs it; `main` calls that task too, in its asserts | tasks that throw three kinds of exceptions; tasks left behind by `stop`; a count that queued calls and asserts share | no exception ends `run()`, `stop` takes effect at its call and leaves the rest unrun, the asserts hold |
| delayed tasks (`boost-thread-3.cpp`) | a timer per task | `run_delayed`, `timer_task` | the timer is owned by its own completion handler | two clocks, one due before the other; `stop` with timers pending | the later task stops the processor after the earlier one ran |
| connections (`boost-thread-4.cpp`) | `connection_with_data`, moved from handler to handler | `async_write_data`, `async_read_data`, the authorisation chain | each handler owns the connection | references into an object that is moved, errors half way | one owner at all times, the chain ends with a response or an error |
| strand timers (`boost-timer-5-async-bind.cpp`) | two timers, `count_` | `print1`, `print2` on two threads | strand, `cancel()` across handlers | two threads, a cancel that comes too late, handlers that run late | handlers exclude each other, every increment counts, no drift, one step per chain |
| repeating timers (`boost-timer-3`, `-4`, `-6`, `-7`) | timers and a count | `print`, `add` | a handler re-arms its timer, or as many timers as the user asks for | handlers that run late, end of the repetition | `run()` returns with the count complete and not before its time |
| producer and consumer of integers (`condition-variable-1.cpp`) | queue, mutex, condition variable | `generate_ints`, `print_ints` | two threads | several items under one notification, a sentinel pushed several times | consumer sees the numbers in order and ends |
| HTTP client (`http-client-async-1.cpp`) | socket, request and response buffers | a chain of seven handlers | `io_service` | reads that take in more than they asked for, errors and end of stream in each handler, a response without headers | what is printed is the response, in order, and a chain that ends without a message has printed all of it |
| greeting client (`client-async-3.cpp`) | socket | connect, one write | `io_service` | the greeting is a local of the handler that starts to write it; a socket that takes part of it | "Done!" only when as much has been sent as the greeting is long, and what went while the string lived is the greeting |
| `Buffer` (`swap-1.cpp`) | pointer and size | constructors, assignments, destructor | none | an allocation that fails half way through an assignment, self-assignment, moves that overwrite a pointer | buffers are values, and storage is lost nowhere else than where it is known to be |
| XML settings (`boost-config-3-xml.cpp`) | file name, level, modules | `load`, `save` | the file | missing nodes, a load that breaks off half way | what is saved is what is loaded |
| the rest | none that outlives a statement | | | | |

"The rest" is listed in `PROJECT.json` with the reason why it is not modelled:
command line options, look-ups in INI and JSON files, `bind`, `any` and `tuple`
examples, single waits on a timer, virtual functions, a header that is commented out from its first line
to its last (`MessageFactoryPattern.hpp`), an empty file (`io_service-pool-1.cpp`),
build and editor files.

What each component is exposed to, line by line, is the list "hazards" of
`PROJECT.json`, with the properties that cover it. Four of them the code runs into and
no property rules out, since nothing in the repository promises otherwise: the greeting
sent from a string that is gone, the buffer whose assignment fails half way, the storage a
move assignment loses, and the exception of `close()` that ends the asynchronous client.
The models contain all four; the list says of each what is known about it.

## 2. Modules

| module | what it is |
|---|---|
| `TaskQueue` | abstract: a FIFO queue whose calls are atomic |
| `WorkQueue` | `class work_queue`, step by step, with its invariants; refines `TaskQueue` |
| `WorkQueueProofs` | proofs of its invariants, and that it implements `TaskQueue` |
| `WorkQueueProgram` | `pusher`, `popper_sync` and `main` on top of `WorkQueue` |
| `WorkQueueProgramProofs` | proofs about the program: asserts, tasks run, and that it is one use of the class |
| `MCWorkQueue`, `MCWorkQueueProgram` | the instances TLC checks |
| `Asio` | operators for the operations outstanding on an `io_service`; no state of its own |
| `AsioProofs` | lemmas about those operators, for the proofs that follow |
| `ClientLifecycle` | abstract: what the asynchronous client shows its user |
| `AsyncClient` | `class client` and `main` of `client-async-2.cpp`; refines `ClientLifecycle` |
| `AsyncClientProofs` | proofs of its safety, and of the safety of the refinement |
| `BlockingClient` | `class client` of `client-bloking-timeout-1.cpp` under any sequence of calls |
| `BlockingEcho` | `main` of that file on top of `BlockingClient` |
| `BlockingProofs` | proofs about both |
| `MCBlockingClient` | the instance TLC checks: `main`, or any other caller |
| `StrandTimers`, `MCStrandTimers` | `PRINTER` and the two threads of `boost-timer-5-async-bind.cpp` |
| `StrandTimersProofs` | proofs of its invariants |
| `HttpClient`, `MCHttpClient` | the chain of handlers of `http-client-async-1.cpp` |
| `TasksProcessor` | `tasks_processor` of `boost-thread-2.cpp` and `boost-thread-3.cpp` under any use |
| `ConnectionChain`, `MCConnectionChain` | the connections of `boost-thread-4.cpp` on top of `TasksProcessor` |
| `TasksMain` | `main` and `func_test` of `boost-thread-2.cpp` on top of `TasksProcessor` |
| `MCTasksProcessor` | the instance TLC checks: that `main`, or any other use |
| `TasksProofs` | proofs about the three |
| `IntQueue`, `MCIntQueue` | the two threads and `main` of `condition-variable-1.cpp` |
| `GreetingClient` | `class client` and `main` of `client-async-3.cpp` |
| `BufferValues` | abstract: buffers as values |
| `Buffers` | `class Buffer` of `swap-1.cpp` under any use; refines `BufferValues` |
| `DebugSettings` | `struct debug_settings` of `boost-config-3-xml.cpp` under any use |
| `RepeatTimers` | the timers of `boost-timer-3-async-bind.cpp` and `boost-timer-7.cpp` |
| `MCSmallPrograms` | one instance of `GreetingClient`, `Buffers`, `DebugSettings` and `RepeatTimers`, of which one runs |
| `SmallProgramsProofs` | proofs about `GreetingClient`, `RepeatTimers`, `DebugSettings`, `HttpClient` and `IntQueue`, and that `Buffers` implements `BufferValues` |

Operators marked "Faulty:" are variants of the definition that follows them, each
with the kind of mistake one makes there (a missing notification, `if` for
`while`, a cancel left out). No specification uses them; each property is known to
fail when one of them takes the place of the definition it varies ("mutants" in
`PROJECT.json`), so none of the properties is true by accident.

`AsyncClient`, `BlockingClient`, `StrandTimers` and `GreetingClient` are built from the
operators of `Asio`; `ConnectionChain` and `TasksMain` extend `TasksProcessor`, and the
programs extend their classes. `TypeOK` of `WorkQueue` is checked and proved; those of the other modules are
proved, by theorems of their own or as part of the invariants that the proofs use.

### WorkQueue

The state is `tasks_`, the holder of `tasks_mutex_`, the wait set of `cond_`, and for
every thread the place it has reached (`at`) and its task (`ret`: the argument of
`push_task`, then the local or the result of the pops). `pushed` and `popped` are
histories. A thread that is idle may call any member function: the calls are not
those of one program, the model is the class under every use.

| code | actions |
|---|---|
| `push_task` 17-23 | `PushLock`, `PushBack` (and unlock), `NotifyOne` (outside the lock) |
| `try_pop_task` 25-33 | `TryPopLock`, `TryTake` (and unlock) |
| `pop_task` 35-44 | `PopLock`, then `PopWait` or `PopFront`, `PopErase` (and unlock); from the wait set by `NotifyOne`, `NotifyAll` or `SpuriousWakeup` to `PopRelock`, which goes back to the `while` |
| `flush` 46-49 | `FlushLock`, `NotifyAll` |

The unlock is part of the last step under the lock: between the two the thread does
nothing another thread could see. `front()` and `pop_front()` are two steps in
`pop_task`, so that what holds them together is the mutex and not the model; in
`try_pop_task` they are one, like every other pair of statements under the lock
that no property needs apart. `front()` of an empty deque is undefined in C++;
here it yields the empty function, which `FrontIsRemoved` excludes.

The allocation in `push_back` is taken to succeed.

### WorkQueueProgram

`pusher` and `popper_sync` count their calls in `round`; a popper runs the task it
popped (`PopperRun`) before it pops again, and an empty function would end the
process. `main` is the sequence of its statements from the joins on; the threads
are running already. A failed assert ends the process too. The asserts are
modelled as in a build without `NDEBUG`; a release build of `boost-thread-1.cpp`
would drop them, and with them the two calls of `try_pop_task()` in their
arguments.

### Asio and AsyncClient

`io[h]` counts, for every handler `h`, the operations that wait and the handlers
that are ready, with success or with an error. `Begin` starts an operation, `Post`
is one that is over at once (its handler is still never called from within the
call that starts it), `Cancel` turns the waiting ones into errors and leaves the
ready ones their result: that is the race between a completion and a cancellation.
`Asio` is the library as the programs use it, modelled from those uses; it is
marked external.

| code | actions |
|---|---|
| `start` 96-105, `main` 282-306 | `Start`, `RunReturns`; an exception that leaves `run()` is `CloseThrows` |
| `stop` 110-117 | `Stop` inside the handlers, `UserStop` when the user calls it |
| `start_connect` 120-139 | `StartConnect` (opening the socket may fail) |
| `handle_connect` 141-182 | `HandleConnect` |
| `start_read`, `handle_read` 184-220 | `ReadUntil`, `HandleRead` |
| `start_write`, `handle_write` 222-249 | `StartWrite`, `HandleWrite` |
| `check_deadline` 251-272 | `CheckDeadline` |
| `if (stopped_) return;` in each | `IgnoreWhenStopped` |
| network and clock | `SocketCompletes`, `TimerExpires`, `Tick` |

Each handler is one action, with everything it calls: one thread runs the
`io_service`. Ready handlers run in any order, which includes the order of the
library. Messages are abstracted to the number of complete lines in
`input_buffer_`; the text, and `tcp::resolver`, are left out. An expiry that is set again while a wait is
pending cancels that wait (`Moved`), and `check_deadline` is called with the result
it does not look at. The time of the model is in ticks of ten seconds: timeouts are
6, 3 and 1. Handlers may be late by any number of ticks.

`ClientLifecycle` sees a phase and the endpoint tried last. The mapping
(`Phase`) says connected when no connect operation is outstanding: that nothing but
a success ends the connecting phase other than by the next endpoint, by `stop` or by
an exception is what the refinement shows. `Progress`, that no endpoint is tried for
ever, is part of it; without it a client that tries one endpoint again and again
would pass, since that is stuttering to who sees only the endpoint.

### BlockingClient and BlockingEcho

A call is in progress from `Connect`, `ReadLine` or `WriteLine` until `Completed`,
which stands for the end of the loop `do run_one() while (ec == would_block)`, the
test that follows it and the return or the exception. Between calls the `io_service`
does not run, so nothing completes, not even a timer; but time passes, and the
deadline of the last call goes on towards its expiry.

| code | actions |
|---|---|
| constructor 57-68 | `Init`: the deadline actor starts and finds no deadline |
| `connect` 70-107 | `Connect` or, when `resolve()` throws, `ConnectUnresolved`; `Completed` |
| `read_line` 109-139, `write_line` 141-169 | `ReadLine`, `WriteLine`; `Completed` |
| `check_deadline` 172-192 | `CheckDeadline` |
| `main` 202-242 | `MainConnect` to `LineRead` of `BlockingEcho` |

The instance lets either `main` make the calls or a caller that makes any of them
at any time, with any of the timeouts; it decides at the start.

`async_connect()` opens the socket once per endpoint and closes it in between; the
model lets it end with an error and the socket open or closed. Whether the line
read is the one sent is a free choice, bounded by `MaxOther`.

### StrandTimers

Two threads in `run()`. `strand_` has a holder and a queue: a wrapped handler runs at
once when the strand is free and is queued behind the holder otherwise. The
increment `++count_` is a read (`Load`) and a write (`Store`), for that is what the
strand protects; the rest of a handler, where it re-arms its timer and `print2`
cancels the other one, is `Rearm`. The threads are the only actors that run
handlers; the clock advances by whole seconds at any moment, so that handlers may
be late by any time.

| code | actions |
|---|---|
| constructor 13-21 | `Init`, `RunWrapped` (the two `strand_.wrap`) |
| `print1` 28-54 | `ReturnOnError`, `Load`, `Store`, `Rearm` |
| `print2` 55-66 | `Load`, `Store`, `Rearm` with `Cancels` |

`print2` re-arms itself whatever happens, so `run()` and the `join()` in `main` never
return. `OneLinkPerChain` says so: the chain of `print2` always has a link.

### HttpClient

A response is a sequence of pieces: the status line, lines, blank lines, and data
that has no line end. That is as much of the text as the two terminators can tell
apart: `read_until("\r\n")` finds the end of a piece, `read_until("\r\n\r\n")` a blank
line that follows another line. The status line is taken to arrive whole. Every read takes in any number of further
pieces, so that what belongs to a later read is often in the buffer already.
`StartNext` starts the next operation, `EndWith` starts none, after which
`io_service::run()` has nothing to do and returns.

| code | actions |
|---|---|
| constructor 23-44, `handle_resolve`, `handle_connect`, `handle_write_request` | `HttpInit`, `HandleResolve`, `HandleHttpConnect`, `HandleWriteRequest` |
| `handle_read_status_line` | `HandleReadStatusLine` |
| `handle_read_headers` | `HandleReadHeaders` |
| `handle_read_content` | `HandleReadContent` |
| resolver, server | `Completes`, `Arrive`, `Close` |

### TasksProcessor, TasksMain and ConnectionChain

`queue` holds the handlers the `io_service` has ready; a worker that is in `run()`
takes the first (`Take`), and the task then returns, throws one of three kinds of
exceptions (`Finish`) or stops the processor (`StopAndFinish`). `Caught` is what the
three handlers of `task_wrapped` catch; anything else would leave `run()` and take
the worker away ("escaped"). `run_delayed` is two steps, since any time may pass
between them: it makes the timer, from when on the delay counts, and it starts the
wait. A timer whose wait has begun queues its task when it has expired (`Expire`),
the earliest first; `since` remembers when the wait began.

| code | actions |
|---|---|
| `push_task`, `start`, `stop`, `run_delayed` | `PushTask`, `Start` and `Return`, `StopAndFinish`, `RunDelayed` and `AsyncWait` |
| `task_wrapped::operator()` | `Finish` |
| `timer_task::operator()` (`boost-thread-3.cpp:60-67`) | `Expire`, then `Take` |
| `send_auth` (`boost-thread-4.cpp:245-252`), `create_connection` | `SendAuth` |
| `async_write_data`, `async_read_data` | `Begin` |
| `task_wrapped_with_connection` 197-214 with the function it wraps | `ReceiveAuthResponse`, `ProcessServerResponse` |
| `shutdown`, destructor 15-28 | `Shutdown`, `Destroyed` |

In `TasksMain` only the thread of `main` goes on; it pushes, asserts and
calls `start()` in this order; `counter` is the static of `func_test()`, `sum` the
local that the lambda holds a reference to, and the tasks are numbered as they are
pushed. The calls that throw (`Throws`) and the one that stops the processor
(`StopsAt`) are constants. `with_asserts` is chosen at the start: an `assert` that is
compiled away takes the call of `func_test()` in it along. Nobody interrupts the
thread, so `interruption_point()` does nothing.

| code (`boost-thread-2.cpp`) | actions |
|---|---|
| `func_test` 71-89 as a task, in an assert | `RunFuncTest`, `AssertFuncTest` |
| loop 91-93, lambda 97-101 | `PushCall`, `PushLambda`; `RunLambda` when it runs |
| asserts 95, 103, 106 | `FirstAssert`, `AssertSum`, `LastAssert` |
| `start()` 105 | `EnterRun`, `RunTask`, `StartReturns` |

`main` of `boost-thread-4.cpp` is empty; the model pushes `send_auth` as a task, once
per connection, as the class is meant to be used. `ndebug` is chosen at the start:
with the asserts a bad answer ends the process, without them the chain goes on and
stops the processor all the same. Once all workers have returned, `Exit` destroys the
`io_service`, and with it the handlers that wait and the connections they own.

### IntQueue

Every push, pop, lock, wait and notification is a step of one of two threads;
`Numbers` and `Copies` are those of the source (1, 2, 3, then `done`; five times each).

### GreetingClient

The greeting is `Length` pieces. `async_write()` sends what the socket takes before
`handle_connect()` returns, and with it the string `msg`, a local that the handler
hands to `buffer()` without a copy. What is left is sent later, from memory that is
no longer the string's: each piece is what it was or something else (`Other`).

| code | actions |
|---|---|
| `client()`, `main` | `ConstructClient` (a resolver that throws included), `RunReturns` |
| `handle_connect` | `HandleConnect`, with `WriteAll` for the library's composed write |
| `handle_write` | `HandleWrite` |
| network | `ConnectEnds`, `SendRest` |

### Buffers

`heap` maps the pieces of storage that are allocated to what they hold; a buffer has a
pointer and a size. Every allocation may fail. What has no defined effect (a second
`delete []`, a copy from storage that is gone) sets `undefined` and ends the model.

| code | actions |
|---|---|
| constructors | `Construct`, `CopyConstruct`, `MoveConstruct`, `ConstructorThrows` |
| `operator=(const Buffer &)` | `CopyAssign`: `Replace`, or `AssignmentThrows` after the old storage is deleted |
| `operator=(Buffer &&)` | `MoveAssign` |
| destructor | `Destroy` |

`BufferValues` knows no storage. It says what a buffer's value is after each call, and
names the two calls after which it is no value: a copy assignment that fails leaves a
buffer whose storage is gone (`Broken`), and one from the buffer itself leaves its
size with any elements, since the new storage is read before it is written. From a
broken buffer on only a move is defined.

### DebugSettings

A file holds a tree of three nodes, each of which may be absent, or nothing that
`read_xml()` accepts. `load()` assigns field by field and throws where a node is
missing that has no default (`LoadThrows`, `LoadBreaksOff`, `LoadReturns`); `save()`
writes all of the file, a part, or nothing (`Save`). `saved` is a history: the settings
a file was last saved from, unless somebody edited it (`Edit`).

### RepeatTimers

`handler` says which of two programs it is: one timer that `print()` sets again until
it has counted to five, or `Times` timers that call `add()` once. Handlers may be late by
any time; `main()` reads the count when `run()` has returned (`RunIsOver`).

## 3. Runs

| run | question | bounds | distinct states |
|---|---|---|---|
| `work_queue` | Is the class right under every use? | 4 threads, 2 tasks, 4 pushes; symmetric in threads and tasks (no liveness in this run) | 10 862 |
| `work_queue_program` | Do the threads of the program and `main` always finish, with the asserts true? | 2 pushers, 2 poppers, 2 tasks each, 2 spurious wakeups | 10 766 |
| `async_client` | Lifecycle, actors, timeouts and termination, with a `stop()` by the user at any time and with opening and closing the socket failing | 3 endpoints, 2 buffered lines | 6 906 |
| `async_client_comment` | Is the comment at `client-async-2.cpp:147-149` true? | 2 endpoints | no, see section 6 |
| `blocking_client` | Does every call end, with the right result, after every sequence of calls? Does `main` write only on a connection, and end? | timeouts of 0, 1 and 3 ticks, 3 in `main`; 2 buffered lines, 2 lines that are not the echo | 3 609 |
| `strand_timers` | Do the handlers keep out of each other's way, and the timers their schedule? | 2 threads, 5 seconds; symmetric in the threads | 2 605 |
| `http_client` | Is what is printed the response, however it arrives? | 4 lines after the status line, and data; every truncation | 4 906 |
| `http_client_comment` | Is the comment at `http-client-async-1.cpp:120` true? | as before | no, see section 6 |
| `tasks_processor` | Do tasks start in time, delayed ones in order, and every task at all? Under `main`, does `stop()` leave exactly what is queued behind it, and does `main` end with its asserts true? | any use: 2 workers, 3 tasks, delays of 0 and 1, 1 tick; `main`: 5 calls, of which three throw and the last stops, with asserts and without | 96 163 |
| `connection_chain` | Who owns a connection, who may stop the processor, and is every connection closed? | 2 connections, 2 workers | 114 522 |
| `int_queue` | Is everything printed, in order, and does `main` return? | the numbers of the source, 2 spurious wakeups | 2 320 |
| `small_programs` | Is what is announced sent, are buffers values, does a save load back, is the count complete? | a greeting of 4 pieces; 3 buffers of up to 2 elements, 4 pieces of storage (symmetric); 2 files, 2 modules; 5 counts, 3 timers of 2 seconds, 8 seconds | 65 712 |

In every other run all properties hold without exception.

*Bounds.* Four threads are two sleepers, a thread that owes a notification and one
that steals the task; two tasks tell order and loss apart; four pushes let every
thread push while the deque holds more than one task. The proofs lift the bounds
of this run. In the program two threads of each kind compete with their like, and
`MaxPushes` is one more than the pushers need, for `main`; the same instance with
three of each kind holds too (some 600 000 states) and shows nothing else. For the
asynchronous client three endpoints are a first, a middle and a last one; two lines
let a read complete at once from what an earlier one left behind, and leave one
more. Timeouts of 0, 1 and 3 are a call that is late from the start, and one whose
deadline is before and one whose deadline is after that of the call that follows.
Five seconds are four rounds of each handler, and the first cancel that meets the
other handler waiting, ready, queued or running is reached in the second. Four lines
hold two blank lines and what may be before, between and after them. Three tasks
are one on each worker and one behind them. Since `DelayedInOrder` is about two
tasks at a time, deadlines now and one tick later show all it says. Of any other use it is
enough to look at those that take the tasks in the order of their names (`OtherUse`), since
tasks differ in nothing else. `main` makes 5 calls for 100: each way of throwing once, the call that stops, and
behind it the lambda and, in a build with asserts, a call; the numbers of the source hold
too (572 states), and the proofs take any. Three buffers are the two of an assignment
and one that must not notice it; four pieces of storage are one more than they can
own, which is what it takes to leak one; once they are used up every allocation fails.
Eight seconds are three more than five ticks need, so that handlers may be late. Where a clock stands still at its bound
the properties about what happens in the end speak only of what is due by then.

*Properties of `work_queue`.* `FrontIsRemoved` and `FifoExactlyOnce` are about the
deque, `NoLostWakeup` about the wait set:
`notify_one()` runs outside the lock, so between the push and the notification
another thread may pop the task, or another waiter may be woken by another push.
The invariant counts: while somebody sleeps, there are at least as many notifications
due and threads about to look at the deque as there are tasks. `Linearizable` says
that each call takes effect at one moment between its beginning and its end. In the
program: `NeverAborts` (both asserts, and no empty function is run) and `MainReturns`; that
every task popped runs once (`EveryTaskRuns`) is proved.

*Properties of the asynchronous client.* `OneStepPerActor` (each actor of the class
comment has exactly one step outstanding, in every interleaving of timeouts,
completions and cancellations), `WaitsAreGuarded` (whatever waits for the peer has a
deadline ahead of it and a socket that is open, so that nothing could wait for ever),
`StopIsFinal`, `NoEarlyTimeout` (an action property:
only an operation that has had all its time is timed out, although the deadline
actor may run on a stale or cancelled wait), `ImplementsLifecycle`,
`SilentPeerTimesOut` and `StopEndsRun`.

*Properties of the blocking client.* The operation of a call ends inside the call,
whose local it writes to, the deadline actor never dies out, and a call never waits
without a deadline or on a closed socket (`CallsAreGuarded`); so it ends (`CallsEnd`).
`ClosedSocketIsUseless` relates the result of a call
to the socket, which the deadline actor may have closed meanwhile; `NoEarlyTimeout`
is that the deadline of an earlier call never ends a later one. `WriteHasConnection`
depends on something subtle: `main` writes at once after `connect()`, and although
the deadline of `connect()` may pass in between, nothing runs the actor before
`write_line()` has set its own.

*Properties of the timers.* `NoLostIncrement`, `OneLinkPerChain` (no
chain of handlers doubles or, for `print2`, ends, whatever a cancel meets), `NoDrift`
(expiries are whole periods from the start, one per run of the handler).

*Properties of the HTTP client.* `PrintsInOrder`, `SilentEndIsComplete`, `ChainEnds`.

*Properties of the tasks.* `DelayedInOrder` and `EveryTaskStarts` in any
mix of workers, delays and exceptions. `DelayedInOrder` is as much order as there is
among delayed tasks: none starts before it is due, and none before another that is due
earlier, unless its wait began when that time had passed already. The last clause is
what `main` of `boost-thread-3.cpp` lives with: if it is held up for long between its
two calls of `run_delayed()`, the task that stops the processor is first. Of `main` of `boost-thread-2.cpp`: `LeavesTheRest` (once the processor is stopped,
every call up to the one that stops it has been counted, whatever earlier ones threw,
and the calls behind it and the lambda stay in the queue for good; the numbers differ
by one between a build with asserts and one without), and `MainEnds`: no assert and no exception ends
the program first, although tasks are left in the queue and the work object lives. Of the connections: `PendingIsOwned` (an
operation that is pending has an open socket and a buffer that nobody has resized,
although the function that started it has given the connection away), `StoppedByOk`
(with the asserts, only an answer to the whole name that is OK stops the processor)
and `ConnectionsClose` (by the chain, or by the destructor when another chain has
stopped the processor first).

*Properties of `int_queue`.* `PrintsAllInOrder`, and `MainReturns`, which a single lost
notification would break.

*Properties of the small programs.* `DoneMeansSent`: as many pieces are sent as the
greeting has before "Done!" is printed, and those the socket took at once are the greeting's.
The rest need not be, since `msg` is gone by then; the property states how far the code
goes, and does not rule out what it does wrong there.
`BuffersAreValues` is the refinement of `BufferValues`, with the exceptions that
module names: it shows that what a failed or a self-assignment does to a buffer stays
in that buffer, not that it does not happen. `LeaksByMoveOnly` says that the move assignment, which does not delete what
it overwrites, is the only way to lose storage; that one does lose it, every time. `RoundTrip`: settings that are saved are
loaded as they were, whoever loads them and whatever the object held (modules
accumulate), but settings without any module are saved as a file that `load()` breaks
off at after two fields. `FinalCount`: when `run()` returns, the repetition is
complete and took as long as it should.

*Fairness.* For threads, weak fairness of every thread that is not asleep: the
operating system schedules a thread that can go on. No fairness of a mutex is
assumed, since with finitely many calls and spurious wakeups a thread cannot be kept
from it for ever; without the bound on spurious wakeups, termination would need
strong fairness. Notifications choose any waiter. For an `io_service`, weak fairness of
the handlers (`run()` takes what is ready), of the timers, of the clock and of the
return of `run()`. In the clients with deadlines the network owes nothing: a peer may
be silent for ever. `HttpClient` and `ConnectionChain` have no timeout, so there the
server is assumed to answer or the connection to break; without that assumption
they would wait for ever, and so would the programs. The small programs have only
safety properties, and no fairness.

Deadlock is checked in every run but `connection_chain`, where the process may end by
an assert or have nothing left to do; elsewhere the states without another step, where
`main` has returned or the process has ended, stutter explicitly (`Terminated`).

## 4. Proofs

All proofs are checked by TLAPS, to the last leaf, for every value of the constants
that the assumptions allow: any finite set of threads, any tasks, timeouts,
endpoints, sizes and times, and none of the bounds of section 3.

| module | theorem | statement |
|---|---|---|
| `WorkQueueProofs` | `TypeCorrect` | `Spec => []TypeOK` |
| | `MutualExclusion` | `Spec => []MutexHeldInside` |
| | `PopSound` | `Spec => []FrontIsRemoved` |
| | `Fifo` | `Spec => []FifoExactlyOnce` |
| | `WakeupsSuffice` | `Spec => []NoLostWakeup` |
| | `Linearization` | `Spec => Linearizable` |
| `WorkQueueProgramProofs` | `ProgramUsesQueue` | `ProgramSpec => Spec` |
| | `ProgramTypes` | `ProgramSpec => []ProgramTypeOK` |
| | `NothingAborts` | `ProgramSpec => []NeverAborts` |
| | `TasksRunOnce` | `ProgramSpec => []EveryTaskRuns` |
| | `AllTasksHaveRun` | at `done`, `tasks_` is empty and `runs` is the number of pushes |
| `AsyncClientProofs` | `ClientTypes` | `Spec => []TypeOK` |
| | `ActorsRunOnce` | `Spec => []OneStepPerActor` |
| | `DeadlinesGuard` | `Spec => []WaitsAreGuarded` |
| | `StopsForGood` | `Spec => []StopIsFinal` |
| | `TimeoutsAreDue` | `Spec => NoEarlyTimeout` |
| | `LifecycleIsSafe` | `Spec => Lifecycle!Init /\ [][Lifecycle!Next]_(Lifecycle!vars)` |
| `BlockingProofs` | `TypeCorrect` | `Spec => []TypeOK` |
| | `Guarded` | `Spec => []CallsAreGuarded` |
| | `ClosedIsUseless` | `Spec => ClosedSocketIsUseless` |
| | `DeadlineIsOwn` | `Spec => NoEarlyTimeout` |
| | `MessageHasConnection` | `EchoSpec => []WriteHasConnection` |
| | `EchoIsGuarded` | `EchoSpec => [](TypeOK /\ CallsAreGuarded)` |
| `StrandTimersProofs` | `StrandExcludes` | `Spec => []InStrand` |
| | `IncrementsCount` | `Spec => []NoLostIncrement` |
| | `NeverDrifts` | `Spec => []NoDrift` |
| | `ChainsKeepLinks` | `Spec => []OneLinkPerChain` |
| | `CountsInTime` | `Spec => [](\A h \in Handler : prints[h] <= now)` |
| | `StrandTypeCorrect` | `Spec => []TypeOK` |
| `TasksProofs` | `TypeCorrect` | `Spec => []TypeOK` |
| | `DelayedStartInOrder` | `Spec => []DelayedInOrder` |
| | `PendingOwnsConnection` | `ChainSpec => []PendingIsOwned` |
| | `OnlyOkStops` | `ChainSpec => []StoppedByOk` |
| | `MainUsesProcessor` | `MainSpec => Init /\ [][Next]_vars` |
| | `TheRestIsLeft` | `MainSpec => []LeavesTheRest` |
| | `NoAssertFails` | `MainSpec => []AssertsHold` |
| `SmallProgramsProofs` | `DoneMeansWholeLength` | `GreetingSpec => []DoneMeansSent` |
| | `CountsAreFinal` | `TimersSpec => []FinalCount` |
| | `ValueSemantics` | `BufferSpec => BuffersAreValues` |
| | `OnlyMovesLeak` | `BufferSpec => LeaksByMoveOnly` |
| | `SavedIsLoaded` | `SettingsSpec => RoundTrip` |
| | `HttpTypeCorrect` | `HttpSpec => []HttpTypeOK` |
| | `PrintsInTheirOrder` | `HttpSpec => []PrintsInOrder` |
| | `SilentEndsAreComplete` | `HttpSpec => []SilentEndIsComplete` |
| | `IntTypeCorrect` | `Spec => []TypeOK` of `IntQueue` |
| | `AllIsPrinted` | `Spec => []PrintsAllInOrder` |

The assumptions are those that the modules name. `WorkQueue`: `NoThread` is not a
thread, `NoTask` not a task, the threads are finite, `MaxPushes` is a natural number
(`ThreadAssumption`, `TaskAssumption`, `BoundAssumption`); its program adds that there are
as many poppers as pushers, as in `main()`, and that `MaxPushes` leaves one push to
`main` (`ProgramAssumption`). `AsyncClient`: endpoints, timeouts and lines are positive
(`ClientAssumption`). `BlockingClient`: the timeouts have a greatest one, without which
`MaxAge` would be none (`BlockingAssumption`), and `main` uses one of them
(`EchoAssumption`). `StrandTimers`: `NoThread` is not a thread and the time has a bound
(`StrandAssumption`). `TasksProcessor`: delays are natural numbers and `NoTask` is neither a
task nor a time (`ProcessorAssumption`); of the tasks `ConnectionChain` needs that the
steps of every connection are among them (`ChainAssumption`), and `TasksMain` that
`main` has one of the threads, that the lambda is none of the calls, and that the first call, the one
that stops the processor and the one after it do not throw (`MainAssumption`). The greeting is not empty
(`LengthAssumption`), the timers end by the bound on the time (`TimersAssumption`),
`BufferAssumption` says of pieces of storage and of values what `Buffers` needs to
tell them apart, and `SettingsAssumption` that "absent" is no value a node has. A response
of `HttpClient` is a status line and then other pieces, or nothing
(`ResponseAssumption`); the numbers of `IntQueue` are natural, so that none is `done`, and
each is pushed at least once (`QueueAssumption`). The lemmas of `AsioProofs` say what starting, completing, cancelling
and handling an operation do to the number of operations outstanding; they need no
assumption.

*`WorkQueue`, the inductive invariant.* `FifoExactlyOnce` is not inductive: `PopErase`
appends what `front()` returned to `popped` and removes the head of the deque, and these
are the same task only if nobody came between the two steps. Hence `FrontIsRemoved`,
which in turn needs `MutexHeldInside` so that no other thread changes the deque
meanwhile; and `SleepersWait`, so that a notification finds a thread that sleeps.
`MutexHeldInside` is not checked by a run, as `IInv` implies the checked properties
that fail without it. With the types these are `IInv`, preserved by each action (one
lemma per action). `NoLostWakeup` is inductive relative to `IInv`; its lemmas are about
how the cardinalities of `Notifiers` and `Lookers` change with one thread's place.

*`WorkQueue`, the refinement.* `queue` is `tasks_`; the pending call of a thread follows
from the place it is at (`CallAt`), and its result is hidden until the call has taken
effect. `PushBack`, `TryTake`, `PopErase` and `NotifyAll` map to the abstract effects,
the locks of a new call to `Invoke`, all else to stuttering. That `PopErase` returns the
head needs `FrontIsRemoved`, again by `IInv`, and that a caller begins a new call
only with an empty result slot is in the abstract `Invoke`, which clears it.

*`WorkQueueProgram`.* Every step of the program is a step of the class (`ProgramUsesQueue`),
so `IInv` holds of it. That the asserts hold is a matter of counting, since nothing
else says that the deque is empty when the poppers are joined: the calls of
`push_task()` that have taken effect are the pairs of a pusher and a number up to its
`round`, or one less while it is on its way to the deque, and likewise for the calls of
`pop_task()`. Their cardinalities are the lengths of `pushed` and `popped`
(`PushesCounted`, `PopsCounted`), each action moves one of them by one or none (`Quiet`),
and once all are joined both are the full rectangle. As there are as many poppers as
pushers, `FifoExactlyOnce` leaves nothing in the deque but what `main` pushes
(`OnlyMainIsLeft`). `Places` says at which steps of the class a thread of each kind may
be and what it then holds. The types of the program rest on the counts too: that `runs`
keeps within its range cannot be seen from one step.

*`AsyncClient`.* The three invariants need one another: a connect that fails leaves no
other operation waiting on the closed socket only because no other actor has begun
(`OneStepPerActor`), and nothing completes after `stop()` because nothing waits
(`StopIsFinal`). `IInv` adds that nothing is outstanding before `start()`
(`CreatedIsIdle`), that an active client has an endpoint left (`EndpointLeft`), that a
read which succeeded has left its line in the buffer (`ReadHasLine`), and
`DeadlineCovers`: the time left on an armed deadline and the time spent on the operation
are together the whole timeout. From the last, `NoEarlyTimeout`: the deadline actor
acts on a deadline that is 0. Each action has a lemma that counts what it leaves
outstanding, and `ActiveIInv` or `StopIInv` concludes. The refinement follows from the
same counts: `connecting` and `connected` differ in whether a connect is outstanding, and
`RunReturns` is a `Return` because an active client always has the wait of the deadline
actor outstanding. `Progress`, the rest of `ClientLifecycle`, is a liveness property.

*`BlockingClient` and `BlockingEcho`.* `CallsAreGuarded` is part of its own inductive
invariant, with `DeadlineCovers` (here an inequality, since the call goes on growing
older when its deadline has passed) and `ReadHasLine`, as in
`AsyncClient`. `StaysUseless` remembers, inside a call that began on a closed socket, that
only a read can have succeeded and that the socket is still closed; with it
`ClosedSocketIsUseless` follows from the step that ends a call. Both action properties
are proved of the one step, under the invariant. Every step of `main` is a step of the
client or leaves it alone, so what holds of the client for any caller holds here;
`MessageHasConnection` needs in addition that the socket is open from the end of
`connect()` to the beginning of `write_line()`, because no handler runs between calls.

*`StrandTimers`.* A thread is in a handler if and only if it holds the strand (`InStrand`),
so what it has read of `count_` is still there when it writes it back
(`LoadedIsCurrent`). For `OneLinkPerChain` a link is an operation outstanding, a call in
the queue of the strand or a thread in the handler; each action moves one link from one
of the three to another, whose sizes are counted separately (`LinkParts`). That no handler is
early (`CountsInTime`) is what `NoDrift` leaves open: an expiry may be on the grid and its
handler run before it, as those of cancelled waits do. `DueInv` says that a call that
goes on to count is due wherever it is, ready, queued or running; moving the expiry keeps
that because the running handler is the only link of its chain. The bounds in `TypeOK`
follow.

*`TasksProcessor`.* With the types, what has arrived is what has started and then what is
queued (`FirstInFirstOut`); that is the library's queue, and no more than a lemma here.
`DelayedInOrder` is about `started`, but an order has to be known earlier, when a timer
has expired: `ArrivedInOrder` is the same of `arrived`, and `TimersComeAfter` that the
timers still waiting belong behind all that have arrived. The second is what `Expire`
keeps by taking the earliest timer, and what a new wait meets only by the second disjunct of
`InOrder`: its deadline may have passed when the wait begins, hence `since`.

*`TasksMain`.* The tasks arrive numbered, the lambda last (`PushedInOrder`), and none is
taken before `start()` (`NothingRunsYet`). Within `start()` the static is the call made
by the first assert, if any, and one for each task started and ended, however it ended
(`CallsAreTasks`): this is where `task_wrapped` matters, since an exception that escaped
would end the loop early. So the call that stops the processor is a task whose number is
known, what is behind it is a count, and the lambda, which is last, is among it. After
`start()` the processor is stopped (`StoppedInTime`), hence the last assert. Every step
is one of the class or leaves its state alone (`MainUsesProcessor`), so `IInv` of the class
is at hand.

*`ConnectionChain`.* The hazard is that a connection is given away while it is in use.
So a connection is in one place at a time, in a task that is queued, in one that runs or
in an operation that is pending (`OneHolder`), no connection is in the first two while it
is in the third (`HeldFits`), and each of the three says how far the chain is
(`PendingFits`). From where the chain is follows whether the socket is open and the name sent,
and so `PendingIsOwned` and `StoppedByOk`. Only `send_auth` begins a chain, once for
each connection, because tasks arrive once.

*The small programs.* `DoneMeansSent` becomes inductive with: at most one operation is
outstanding, nothing is sent while the connect is, and a write that succeeded has sent
everything. `FinalCount` needs to know how many expiries have passed and how many are
still pending. For the buffers every piece of storage has one owner (`OneOwner`), who
knows its size (`SizesFit`): so what is deleted or replaced is nobody else's, and the
value of every other buffer stays as it was.

*`DebugSettings`.* A file that was last saved from some settings holds the tree of those
settings (`FilesHoldSaved`); `RoundTrip` is then about the one step of `load()`. The
tree has no node for the modules when there are none, which is why the load breaks off.

*`HttpClient`.* What a read leaves in the buffer and what has not arrived are one
sequence (`Unprinted`), from which the handlers take from the front: the whole
response up to the status line, all but that line up to the headers, and from then on
what is printed and what is not printed make up what is to be printed
(`NothingLost`). That step is where the headers are printed: the first blank line of
the buffer is the first blank line of the response however much of it has arrived
(`FirstBlankOfConcat`), so cutting at the one and at the other is the same. That a
sequence with a blank line has a first one is by the least element of a set of
natural numbers (`LeastIndex`). `EndIsEmpty` says that at the end of the stream
nothing is left in the buffer, which is what `SilentEndIsComplete` needs.

*`IntQueue`.* The k-th push, whenever it happens, is of the number at
`(k - 1) \div Copies + 1` (`IndexOfCopy`), and the producer has made
`(round - 1) * Copies + copies` of them. So the queue holds the pushes after those that
were popped (`QueueHolds`), and what is printed are the pops in order
(`ConsumerPrints`). The first `done` comes after the last copy of the last number, and
all that follow it are copies of `done`.

*What stays with TLC.* Liveness, since neither fairness nor ENABLED is in reach of
the prover: `MainReturns` (of the work queue's program and of `IntQueue`),
`SilentPeerTimesOut`, `StopEndsRun`, `CallsEnd`, `MainEnds` (of `BlockingEcho` and of
`TasksMain`), `ChainEnds`,
`EveryTaskStarts`, `ConnectionsClose`, and `Progress` in `ImplementsLifecycle`. Every other
property of the passing runs is a theorem.

## 5. Plan

What was planned and is done: the work queue first, since the rest of the concurrent
programs resemble it, then the clients with deadlines, the timers on a strand, the
processors of tasks, the HTTP client, and the small programs; each with its abstract
specification where the code makes a promise that can be stated without its steps
(`TaskQueue`, `ClientLifecycle`, `BufferValues`); then the proofs, of the classes first and
of the programs on top of them next.

What is left, in this order:

1. What the liveness properties rest on, as safety: that as long as a call of
   `BlockingClient` has not ended some handler is ready or the deadline ahead, that a
   popper of `WorkQueueProgram` which sleeps has a push still to come, and that in
   `ConnectionChain` every connection begun is held, pending or closed.
2. That `AsyncClient` reports a timeout on a connection attempt only when the attempt has
   had its time or its socket could not be opened, which is what is left of the comment
   in section 6.
3. `main` of `boost-thread-3.cpp` as a program on top of `TasksProcessor`, as `TasksMain` is
   that of `boost-thread-2.cpp`.

## 6. Findings

`client-async-2.cpp:147-149` says that `async_connect()` opens the socket, so that a
closed socket in `handle_connect()` means "the timeout handler must have run first",
and the code reports "Connect timed out". The socket is also closed when opening it
failed: then `handle_connect()` is posted with that error and finds the socket
closed while the deadline is still armed. The run `async_client_comment` reaches
that state. The client tries the next endpoint, as it should; only the error is lost
and a timeout reported in its place.

`http-client-async-1.cpp:120` says of the response headers that they "are terminated
by a blank line". The code waits for an empty line that follows the end of another
(`"\r\n\r\n"`), and it does so after `getline()` has taken the status line out of the
buffer, its line end included. A response without any headers therefore never ends
them: the run `http_client_comment` shows the read of the headers failing at the end
of the stream with the blank line in the buffer. The client then prints an error and
none of the content.

## 7. Not modelled

The text of messages, output, failing allocations except those of `Buffer`, a resolver
that throws in `client-async-2.cpp`, the limits of `streambuf`. Of files of which a part is
modelled: `async_read_data_at_least()` of `boost-thread-4.cpp` and `testtime()` of
`boost-timer-6.cpp`, which nothing calls; `Bird`, `Object` and the samples of `swap-1.cpp`,
which only choose between a copy and a move of a standard type (and declare
`roast_song_a` twice, so that the file as it is does not compile). `boost-timer-4` and
`boost-timer-6` repeat the program of `boost-timer-3` and are not modelled again. A
negative number of times or seconds in `boost-timer-7` is left out.

Not modelled at all, since they are straight-line code with no state that a later step
depends on and no other actor: the options of `boost-option-1.cpp` and `-2` (one parse,
one lookup each), the reads of one INI or JSON file, `bind`, `any` and `tuple`, the
single waits of `boost-timer-1`, `-2` and `boost-thread-5`, the virtual function
examples; `MessageFactoryPattern.hpp` is a comment. Undefined
behaviour is not left out but made visible: the front of an empty deque is a value
no property tolerates.
