# Verification of qp_libs

TLA+ models of the libraries in this repository, the TLC configurations that
check them on small instances, and theorems about them proved with TLAPS. This
file says what the system is, which module stands for which part of it, what
is checked and proved, under which assumptions, and what is left.

## 1. The system

The repository is a collection of libraries for kdb+/q. A library is a
directory with an `index.q` and, where it needs one, a shared object written in
C. A q process is single threaded: it serves one message, timer event or
readable descriptor at a time, and a C library registers descriptors with its
event loop (`sd1`). Threads exist only behind such descriptors.

| Component | Code | State | Operations | Hard because |
|---|---|---|---|---|
| thread pool | `threads/src/threadpool.c` | ring buffer, `count`, `shutdown`, `started`, mutex, condition variable | create, add, destroy, free, the worker loop | threads; wake-ups; shutdown while tasks wait; freeing what workers use; the ring's boundary |
| asynchronous jobs | `threads/src/threads.c` | job structures, a pipe per job, the main loop pipe | `init`, `async`, `thread_callback`, `q_callback` | worker and main thread share a job that is freed; bounded queue and descriptors |
| http requests | `http/src/http.c` | list of requests, two pipes, the curl multi handle | `postAsync`, `getAsync`, `rqloop`, `rqcb` | two threads; bounded pipes in both directions; memory that curl refers to |
| timer | `timer/index.q` | list of jobs, next identifier | `add`, `once`, `rm`, `.z.ts` | callbacks change the list while it is served; callbacks fail |
| connections | `conn/index.q` | list of connections | `o`, `c`, `po`, `rp`, `.z.po`, `.z.pc` | losses at any point of a handshake; retries with a growing delay; reused handles |
| ticker plant | `tp/tick.q`, `tp/u.q`, `tp/r.q` | tables (the buffer), log, counters `i` and `j`, day, subscriptions | `tick`, `upd`, `.z.ts`, `endofday`, `ld`, `sub`, `pub`; `.u.rep`, `upd`, `.u.end` in subscribers | several processes; day change; crash and replay of the log; late subscribers |
| zmq binding | `zmq/src/qzmq.c` | contexts by index, sockets by descriptor, the descriptors q watches, `.zmq.w` | contexts, open, close, bind, connect, send, options, `on_msg_cb` | edge-triggered descriptor; the q function may close, open and send while its socket is being read; failures between the parts of a message |
| R server | `r/src/rserver.c`, `common.c`, `qserver.c` | whether R runs, R's variables, the stack of protected objects, the connection of `qserver.c` | `ropen`, `rclose`, `rcmd`, `rget`, `rset`; `open_connection`, `close_connection`, `execute`; the conversions both ways | life cycle of an embedded interpreter; balance of `PROTECT`; objects nobody protects; nested values |
| qml optimisers | `qml/src/conmin.c`, `conmax.c`, `nlopt.c`, `opt.c` | the parameters, the call with its sticky error, buffers | `min`, `conmin`, `solve`, `root`, `line`, their options and the calls back to q | q functions that fail inside numerical libraries; clean-up on every path; what a signal means |
| qml matrices and allocation | `qml/src/lapack.c`, `util.c`, `alloc.c`, `alloc.h` | the schedule of allocations that fail | the matrix functions, `debug_alloc` | changes of layout; failures at every allocation; workspace sizes |
| qml special functions | `qml/src/wrap.h`, `cephes.c`, `libm.c`, `const.c` | none | application item by item, complements, sign of gamma | conversion between widths; nulls and infinities |
| daemon, expat, crypto, log, posix, time, db, sys, quant | one or two small files each | little or none | | |
| mongoose, test, xheng, qml's library builds | third-party code and scripts | | | not part of any library |

How they interact: jobs run on the thread pool; the connection library retries
through the timer's `once`; the http, zmq, thread and R libraries share the
main thread of the q process with everything else, so that a q function that
runs long delays all their callbacks. `common.c` is compiled into both R
libraries, the one that q loads and the one that R loads.

`PROJECT.json` lists every component with its status, and under `hazards` what
is hard to test in each of them, at the line where it bites.

## 2. The modules

| Module | Stands for | Lines of state that matter |
|---|---|---|
| `TaskPool` | what a thread pool promises: one FIFO line, each task started once, closing drains or drops | abstract |
| `ThreadPool` | `threadpool.c`; implements `TaskPool` | ring, counters, mutex, a program counter per worker and caller |
| `ThreadPoolProofs`, `AsyncJobsProofs`, `HttpProofs`, `ConnProofs`, `TickerPlantProofs`, `QzmqProofs`, `OptimizerProofs`, `MatrixProofs` | theorems about the module of that name (`ConnProofs`: `Timer` and `Conn`; `OptimizerProofs`: `QmlOptimizers`; `MatrixProofs`: `QmlMatrices`) | |
| `AsyncJobs` | `threads.c`, on top of `TaskPool` (EXTENDS) | job memory, pipes, a program counter per worker and for the main thread |
| `HttpLoop` | `http.c` | list of requests, pipes, handles, messages of curl |
| `Timer` | `timer/index.q` | the list of jobs and the tick under way |
| `Conn` | `conn/index.q`, on top of `Timer` (EXTENDS) | the stage of each handle |
| `TickerPlant` | `tick.q`, `u.q`, `r.q` | the plant, its log files, the connections, the RDBs |
| `Qzmq` | `qzmq.c` | descriptors, sockets with their queues and signals, the callback under way |
| `RConvert` | the conversions of `common.c` and `rserver.c`: values, shapes, attributes, effects on the stack | none: operators |
| `RServer` | the calls of `rserver.c` and `qserver.c` (EXTENDS `RConvert`) | the flag `ROPEN`, R's variables, connections, the stack |
| `QmlValues` | `util.c` and `opt.c`: q values, their widths, the items of vectors, tables of options | none: operators |
| `QmlUtil` | what is recursive in `util.c`, `opt.c` and the parameters of `conmin.c`; `wrap.h`, `cephes.c`, `libm.c`, `const.c` (EXTENDS `QmlValues`) | none: operators |
| `QmlMatrices` | `lapack.c` and `alloc.c` in the loop of the test driver (EXTENDS `QmlValues`) | the schedule of failures, the call and its result |
| `QmlFunctions` | the functions that allocate nothing, and what the conversions answer (EXTENDS `QmlMatrices`, `QmlUtil`) | none: operators and a property |
| `QmlOptimizers` | `conmin.c`, `conmax.c`, `nlopt.c` (EXTENDS `QmlValues`) | the stage of the call, the evaluation under way, error, live buffers |
| `QmlResults` | the shape of what they return, with the conversions of `QmlUtil` | none: properties |
| `MC*` | model values and definitions for TLC | |

Operators whose name is that of another one followed by an underscore and a
phrase (`Signal_Forgotten`, `on_msg_ps_KeepsW`) are faulty variants, each
the kind of slip a change to the code could make. None is used by a
specification. Every checked property is violated when one of them takes the
place of the definition that follows it; `PROJECT.json` says which.

### ThreadPool

A critical section is one step: every access to the shared fields is between
`pthread_mutex_lock` and the wait, the unlock or the exit that follows. The
step is enabled when the mutex is free. The one path that leaves the mutex
locked is the `break` of a second `threadpool_destroy` (threadpool.c:212),
which sets the variable `lock` for good. `threadpool_create` starts threads
one by one, increments `started` without the mutex, and may fail at any thread
(`CreateThreadFails`, which goes through destroy) or before the first
(`CreateAllocFails`). Spurious wake-ups are an action. Failures of pthread calls
other than `pthread_create` are not modelled. Callers own the pool: none of
them starts a call before `create` returned or after the arrays are freed, and
a task is added at most once, so that tasks can be told apart.

### AsyncJobs

The pool is `TaskPool`, of which the detailed pool is shown to be an
implementation; its `mode` stays open because `threads.c` never destroys it.
Memory is modelled: a job lives in a chunk, `free` leaves the chunk's fields
as they are and `malloc` may give it to the next job. This is what makes the
race at threads.c:24 visible, where a worker loads `job->free_pipe[0]` after it
has given the job away. The descriptors run out after `MaxPipes` jobs, as they
do in the code, which never closes them. A field that was never written is
`NoPipe`, and reading from it fails at once; that it could name an open
descriptor by chance is left out. The expression a job evaluates, its value and
the reference counts inside q are external.

### HttpLoop

One variable per place a request can be at: the argument of the blocking write
in `postAsync`, the two pipes, the transfers of the multi handle, the messages
of `curl_multi_info_read`, the local variable of the loop, and the callback
being run. `rqloop` reads one posted request or drains the messages in an
iteration, never both. curl itself is external: a transfer may end in any
`curl_multi_perform`. Requests are addresses and come back after `free`.

### Timer and Conn

`Timer` has the list of jobs and the steps of `.z.ts`: the copy of the due
rows, the callbacks in order, the reset of the list as the callbacks left it,
and the abort when a callback fails. What callbacks do is up to the module that
extends it. The list is a set of rows: q keeps it in the order of the
identifiers, which only grow, so the next callback is that of the due row with
the least one. `Conn` adds the handshake of a connection (opened, in the list,
address known), the once job that `.z.pc` sets up, its doubling delay, and the
rest of the process: other jobs that return, fail, add, remove, open and close.

### TickerPlant

A q process handles one event at a time, so each event of the plant is one
step. The step is computed from operators on the plant's state as a record, one
for each function of `tick.q` and `u.q`, in the order in which the code calls
them (`BeforeUpd`, `Accept`, `Log`; `Flush`, then `Ts`); `Pub` is what `pub`
sends on one connection of the rows of one table. `mode` is how the
plant was started: batch or zero latency, with or without a log, and whether
the feed sends `.u.endofday`. The plant may die between two events or in the
middle of `upd`, after publishing and before, or while, logging. Connections
are FIFO and may be cut short by a crash. RDBs subscribe to all tables and
symbols, in the single synchronous call of r.q:19, replay the log and then
follow the connection; they die and are started again at any time.

### Qzmq

A call of the program is one step, between two callbacks or inside one while
`.zmq.ps` runs (`Program`). `on_msg_cb` takes one step for each call of
ZeroMQ it makes, as messages come and `.zmq.ps` runs in between. ZeroMQ is
external, and modelled by what the binding relies on: a message that comes makes
the descriptor readable; `ZMQ_EVENTS` takes that signal, and so may any other
call on the socket (`Looked`); the descriptor of a closed socket may be used
for the next one; a send may fail before any part; parts wait in the socket
until the last one; `zmq_ctx_destroy` does not return while a socket of the
context is open. A send has no `ZMQ_DONTWAIT`, so it may also wait, and
`zmq_ctx_destroy` may wait for what its closed sockets still have to send:
such a call is `waiting` until it returns, if it does, and q's only thread does
nothing else meanwhile. Each message is a sequence of parts. `sockets` keeps a history
of what the program tried to send, and `arrived` and `handled` are histories
too: no action reads them except to bound the traffic.

### RConvert and RServer

`common.c` and `rserver.c` consist of one function per type; so does
`RConvert`. A q value or R object is a record with its type or class, content
and attributes, and a conversion is what it returns. `Protection` is the list
of pushes and pops it makes, nested ones included, and `Walk` the order in
which it reads an R object and allocates, from which follows whether R may
have collected an object nobody protects. `RServer` has two sides: q with R
embedded (`ropen`, `rclose`, `rcmd`, `rget`, `rset`), and R with connections to
q processes that may die (`open_connection`, `execute`). A call is one step,
since both interpreters are single threaded, and the process stops where the
code calls `error` outside R, divides by zero or reads a collected object.
Texts that q sends to R are parsed by R: a source is the sequence of what its
expressions do, of which the code evaluates the first one only.

### QmlValues, QmlUtil, QmlMatrices, QmlOptimizers

Integers keep the limits of their width, but are narrow: H has 3 bits, I 4, J
5, so that all of them, with nulls and infinities, are run. A float is an
integer. A matrix is a function from offsets, stored by column as LAPACK wants
it. `QmlMatrices` runs one call after another as `qml/debug` does: for each one
`debug_alloc` selects the next set of allocations to fail, until one run needs
no failure. A function of `lapack.c` is a chain of operators, one for each of
its steps, on a record of its heap and its variables; a test in the middle of
the C function is an operator that goes on or returns the heap as it is. What
LAPACK and BLAS compute is external, an unknown number, except for the product
of `mm` and the triangular systems of `ms`; so are the functions of libm and
cephes, of which a table stands for a distribution.

`QmlOptimizers` has one action per stage of a call: parsing of options and
start (`entry`), evaluations in the order CONMAX or NLopt may ask for them
(`eval`, `run`), the ends of `root` (`ends`), the test of the constraints once
NLopt returned (`cons`), and the result (`finish`), before which CONMAX may
have the objective evaluated once more. `job.back` is where an evaluation goes
back to. An evaluation calls q once per function, or twice per parameter for a
gradient, and each call may answer a number, a NaN, a value of the wrong type,
or an error.

The conversions of a start and of options walk nested lists, and are recursive.
`QmlOptimizers` has them as operator constants (`Floats`, `Flat`, `Shape`,
`Taken`), which the run `qml_optimizers` gives the definitions of `QmlUtil`:
what an optimiser does does not depend on how they work, only on what passes
them being numbers (`NumbersAssumption`, evaluated for every call of the run),
and tlapm can reason about no module that reaches a recursive operator.
`QmlMatrices` has its conversions in the same way (`Nested`, `Taken`), and what
the functions without allocations answer (`Answers`): `QmlFunctions` defines
them and says what is right about them. `max_size` is the number of items of
the largest buffer: `alloc_TT` refuses one that is larger with `limit`, as the
code does by `SIZE_MAX`.

## 3. The runs

| Run | Expected | Bounds | States | Shows |
|---|---|---|---|---|
| `pool` | pass | 3 workers, ring of 2, 3 tasks, 2 callers that may both destroy | 17,511 | safety, refinement of `TaskPool`, tasks are executed, destroy returns |
| `jobs` | pass | 2 workers, 3 jobs, 3 chunks, 2 pipes, line of 1 | 93,826 | jobs outlive their evaluation, results are live when read, accepted jobs are answered unless a worker went astray |
| `jobs_race` | violation | 1 worker, 2 jobs, 2 chunks | | a worker reads the pipe of another job and is lost |
| `http` | pass | 5 requests, pipes of 1 | 117,774 | requests are at one place, curl works on live requests, ended transfers are answered unless the threads block each other |
| `conn` | pass | 2 handles, 1 open, 2 losses, delays 1 and 2, two other jobs that may fail at any tick, 3 calls from outside the timer | 485,776 | one connection or retry per open, none after `c`, jobs and retries are carried out unless a job before them fails again and again |
| `plant_safety` | pass | 2 tables, 3 messages, 3 days, 1 crash, 1 RDB, 2 connections, batch and zero latency | 673,301 | RDBs are in step with the log, the saved day is the log of the day, the counters are exact |
| `plant_delivery` | pass | 2 messages, 2 days; batch with and without log, zero latency with a feed that ends days | 12,600 | logged messages are delivered, days end |
| `plant_feed_ends_day` | violation | batch, the feed ends days | | the buffer is published after the end of its day |
| `zmq` | pass | 1 context, 2 sockets over 2 descriptors, 1 endpoint, messages of 1 and 2 parts, 2 of them | 307,116 | table, event loop and sockets agree; `.zmq.w`; whole messages in order, read unless a call took their signal or waits for ever |
| `rserver` | pass | 2 names, 2 handles, 56 values, 32 objects, 42 texts | 5,567 | the stack is balanced, shapes and meanings are kept, failures have known causes |
| `qml_matrices` | pass | 4,322 calls, matrices up to 3 by 3 and one too wide, buffers of 20 items, all schedules of up to 32 allocations | 32,544 | nothing leaks, buffers fit but in three cases of the code, errors and results are right |
| `qml_optimizers` | pass | 2 evaluations per routine, 1 iteration, parameters 0 and 2 | 72,152 | the first failure is reported, memory is returned, results mean what they say |

Why these bounds are enough. A ring of 2 wraps around with 3 tasks and is full
with 2; 3 workers leave one asleep, one busy and one waking up at the same
time, and two callers are what a second destroy needs. Three jobs over two
workers and a reused chunk include a job in its line, one being evaluated and
one being freed; the third finds no descriptor. Pipes of 1 are full as soon as
they are used and five requests are one more than the threads need to block
each other, so that it also happens inside a callback. Two losses make a
connection that came back get lost again; the two delays make the second
attempt the last one, and two other jobs, of which one can add or remove the
other while `.z.ts` works on its copy, can be due, and fail, before, with or
after the retry, at every tick. Three days are a jump of the date, three messages of two tables one
that is logged and published, one in the buffer and one after them, one of
them stamped by the feed; two connections let a new RDB take part while the
plant has not noticed the end of an old one. Two sockets over two descriptors
are one that is closed and one that is opened with its descriptor while
`on_msg_cb` still reads the first; two messages are one being read and one that
comes meanwhile, or one whose sending fails after its first part and the one it
leaks into. Two names let a text set a variable that a later one reads, or
both of them at once. The dimensions of the matrices include empty, wide, tall
and ragged ones, and one that is as wide as an integer is large; the triangular
ones have other numbers than ones on their diagonals, and where whole numbers
up to 9 (`Whole`) solve a system they are the answer that is checked; buffers of 20 items are enough for all of these but the
workspace of a decomposition of 3 by 3, which is refused. Two evaluations by a
routine are one before and one after the first failure.

All bounds are constants (`MaxPipes`, `MaxOpens`, `MaxDrops`, `MaxEvents`,
`MaxIds`, `MaxJobs`, `LastDay`, `MaxCrashes`, `MaxContexts`, `MaxSockets`,
`MaxTraffic`, `MaxEvals`, `MaxIter`, `alloc_max`, `max_size`) or definitions
(`Whole`), or the sizes of sets. Callbacks of the timer may fail as often as
they like: only identifiers (`MaxIds`) and what happens outside the timer
(`MaxEvents`) are counted.
No symmetry is used, as most runs check liveness.

`CHECK_DEADLOCK FALSE` is in the configurations of the pool, the jobs, http,
the connections and the plant because these systems may rest: a pool that was
freed, jobs that were all answered, requests that all wait for servers, an empty
list of timer jobs, a plant at the end of the calendar. In the others a session
can always go on, and TLC checks it.

### Properties

Each property is stated in words above its definition. Where one is a
conjunction of named parts, each part has its own statement; the parts are in
parentheses.

* ThreadPool. `NoLostWakeup`: while a worker sleeps, at least as many awake
  workers are about to look at the queue as it holds tasks. `FreeIsSafe`,
  `GracefulLosesNothing`: the pool is freed when no worker can touch it,
  `threadpool_free` never gives up, and a graceful destroy loses nothing.
  `Inductive`: these with the state of the ring and the life cycle, as the
  proofs need them. `ImplementsTaskPool`: the monitor with its ring buffer is a
  FIFO line. `TasksAreExecuted`, `DestroyReturns`: liveness.
* AsyncJobs. `JobMemorySafe` (a job outlives its evaluation, the callback gets
  its own live result), `WritersNeverBlock`, `AcceptedIsAnswered`.
* HttpLoop. `RequestsSafe` (a request is at one place, curl works on live
  requests, the callback finds the codes), `StuckNeedsMany`: the threads block
  each other only with as many requests as fill both pipes; `EndedIsCalled`,
  `PostedIsStarted`.
* Timer and Conn. `CalledOnTime` (once jobs run once, none is overdue);
  `OneLink` (an open has one connection or one retry, none after `c`);
  `RetriesEnd`, `JobsAreCalled`: a job is called or removed unless one that was
  added before it fails again and again, and a reconnection set up is carried
  out unless callbacks do.
* TickerPlant. `CopiesFollowLog` (an RDB is in step with the log, the counters
  match it), `EodSavesWholeDay`, `LoggedIsDelivered`, `TimerEndsDay`.
* Qzmq. `SocketsAgree`, `CallbackKnowsSocket` (`WDuringCallback`,
  `ClosedOnlyInside`), `NoneLostOrStuck` (`MessagesInOrder`,
  `StuckOnlyIfTaken`), `MergedOnlyAfterFailure`, `MessagesRead`: a
  message that comes is read, unless its socket is closed, a call took its
  signal, or a call waits for ever on q's only thread.
* RServer. `ProtectionKept`, `ShapesKept` (`FramesRectangular`,
  `ArrayMatches`), `MeaningKept` (`TripSettles`: a value that went to R and back
  does so unchanged from then on; `EpochsAgree`), `FailuresExplained`.
* QmlMatrices. `AllocationsReturned` (no leak under any schedule, the last run
  has memory), `ErrorsExplained` (an error is the first thing wrong with the
  arguments, or `wsfull` after an allocation that failed, or `limit` where a
  dimension or the workspace is too large), `CallsFit` (whatever failed before,
  no routine of BLAS or LAPACK is given a dimension it rejects or reaches beyond
  a buffer, nor does what reads its results; `Overrun` names the calls in which
  the code does), `ResultsAreRight` (`MmIsProduct`, `MsSolves`: what lapack.c
  and the triangular solvers compute; `FactorShapes`, `SolutionShape`,
  `ConjugatePairs`: the dimensions and the permutations of what LAPACK
  computes). QmlFunctions. `ConversionsAgree`
  (wrappers, widths, complements, options, parameters).
* QmlOptimizers. `FailuresReported`, `LeaksOnlyLate`, `ResultMeansWhatItSays`
  (a full result has the keys of the tables in the comments; a root is
  bracketed; a line search does not end behind its start; a result without a
  signal is feasible).

### Fairness

Weak fairness, and only of what the environment gives. Threads are scheduled,
tasks and callbacks return, a caller that is inside a call goes on with it, the
event loop of q serves its descriptors and its timer. Nobody has to call, a
spurious wake-up need not happen, the feed need not send, a transfer need not
end (there is no timeout in http.c), a server need not come back, and crashes
are not fair. Weak fairness of a thread is enough for a mutex that every critical
section releases in the same step. In `AsyncJobs` two workers may read the same
pipe; fairness of each worker does not say which gets the byte. In `Qzmq` the
steps of `on_msg_cb` are fair, that is, q's event loop serves a readable
descriptor and `.zmq.ps` returns; calls of the program and of peers are not,
and neither is the return of a call that waits. In `Conn` the timer fires and
callbacks end, by returning or by failing; nothing says that a callback ever
stops failing, which is why `RetriesEnd` and `JobsAreCalled` name that case. The
R and qml modules have no liveness property: their calls are one step, or end
with the numerical library, which is external.

## 4. What the models show to differ from the texts

Two runs are expected to find a violation. Each checks one sentence of a
document of the repository; `findings` quotes it.

1. threads.c:24: the worker reads `job->free_pipe` from memory the main thread
   may have freed and given to another job; it then waits on the wrong pipe
   for ever.
2. tick.q:32: a day the feed ends in batch mode is saved without the rows in
   the buffer.

The other modules have the behaviour of the code where it is surprising, and
the properties that hold name the exception, so that they say exactly what is
left (`lock # Nobody`, `Astray`, `Stuck`, `job.late`, `taken`):

* threadpool.c:212: a second `threadpool_destroy` returns with the mutex
  locked, and a graceful shutdown under way never ends.
* http.c:72 and 56: with both pipes full the two threads wait for each other;
  `StuckNeedsMany` says how many requests that needs.
* conn/index.q:9 and 11: a connection lost before the other side has called
  `.conn.po` is not retried.
* qzmq.c:389: a call on a socket between two callbacks may take the signal of
  a message that has come; nothing looks for it afterwards. qzmq.c:441: when
  the q function closes the socket of its message, `on_msg_cb` goes on with the
  closed handle. qzmq.c:83: `ctx_destroy` waits for sockets that only the same
  thread could close, and for what they have not sent. qzmq.c:323, 345 and 351: a
  send without a peer, or at the high water mark, holds up q's only thread until
  there is one, and no message is read meanwhile. qzmq.c:346: parts sent before a failure leave with the
  next message.
* conmax.c:130 and nlopt.c:183: a q function that fails in the evaluation
  after the library returned is not noticed before the result is made, although
  conmax.c:144 and nlopt.c:199 assert that there is no error; the value made is
  not released (`LeaksOnlyLate`).
* timer/index.q:4: a callback that fails ends `.z.ts` before anything is reset;
  one that fails at every tick keeps the jobs behind it from being called for
  ever.
* lapack.c:662 and 704: `poly` with complex coefficients allocates what `zgeev`
  asked for and tells it of twice as many complex items. lapack.c:743 and 757:
  `mlsx` with `equi` tells `dgesvx` that the solution has as many rows as the right
  side, which may have more than the matrix that its buffer was made for (the
  error is recorded by then); line 774 reads the solution in the same way. lapack.c:314 and 316: `mm` goes on with
  arguments whose lengths differ, and the vector that is too short is read
  beyond its end. `Overrun` names these calls, and no other reaches beyond a
  buffer.
* rserver.c:446: `rget` converts an object whose protection ended;
  rserver.c:347 divides by a dimension that may be 0; common.c:240 calls
  `error`, which has nowhere to go in a q process; rserver.c:315: a name that
  is not a string leaves `rset` with a pointer that was never set, and it either
  fails or stops the process (`FailuresExplained`).

## 5. What is proved

`ThreadPoolProofs` proves, for every set of workers and callers, every queue
size and every set of tasks, under `ThreadPoolAssumption` (finite nonempty set
of workers, positive queue size, distinct model values):

* `Correct`: `Inductive` is an invariant;
* `TypeCorrect`, `WakeupsAreNotLost`, `FreeingIsSafe`, `GracefulIsGraceful`:
  `TypeOK` (a part of `Inductive`), `NoLostWakeup`, `FreeIsSafe` and
  `GracefulLosesNothing` are;
* `Implements`: every behaviour of the pool is one of `TaskPool`'s safety part.

The argument. None of the safety properties is inductive. `NoLostWakeup`
survives a worker that exits only because waiters are gone by then (`Winding`);
freeing is safe because one caller at a time owns the life cycle and `started`
counts the living threads (`Lifecycle`); and a worker takes a real task only if
`head`, `tail` and `count` agree about the ring (`RingOK`). `Inductive` is the
conjunction, and the run `pool` checks it as an invariant. The proof has one
lemma per action; sizes of sets of workers move by one (`OneMore`, `OneLess`),
and what a signal or a broadcast does to them is stated once (`SignalEffect`,
`BroadcastEffect`). For the refinement, `StoreAppends` and `TakeDropsHead`
show that storing at `tail` appends to the line and taking at `head` removes
its first task, wrap-around included; every other step stutters or closes the
pool.

`AsyncJobsProofs` proves, for any number of workers, jobs, chunks and pipes,
under `PoolAssumption` and `JobsAssumption` (a finite set of
workers, distinct model values):

* `InvHolds`: the invariant `Inv`;
* `MemoryIsSafe`: `JobMemorySafe`;
* `MainPipeStaysShort`: `WritersNeverBlock`.

The argument. A chunk and its job know each other (`Memory`): the address of a
job that was submitted stays, the field `free_pipe` of a chunk tells the last
job that had a pipe and was there, and a pipe holds a byte only while the main
thread is between writing to it and freeing the chunk. `Answers` adds what the
race of `threads.c:24` does not destroy: while a chunk is still its job's own,
the worker of that job waits at that job's pipe, so what the main thread reads
has been evaluated and is there once. The length of the main loop pipe follows
by counting: its addresses are told apart by the waiting worker of their job,
or by a job that got no pipe (`PipeIsShort`).

`HttpProofs` proves, for every set of addresses and every capacity of the pipes,
under `HttpAssumption`:

* `InvHolds`: the invariant `Inv`;
* `RequestsAreSafe`: `RequestsSafe`;
* `BlockingNeedsMany`: `StuckNeedsMany`.

The argument. That a request is at one place is kept by every step since a
request moves from one place to another (`Moved`), enters at the first or
leaves from the last (`Entered`, `Left`); that curl works on live requests needs
`Answering`, which says which easy handles there are: those of the transfers,
of the messages, and of the request that has been handed over to the main thread
and whose handle is not removed yet. For blocking, two full pipes hold
`PipeCap` requests each, all different, and each thread has one more in hand.

`ConnProofs` proves, for any number of handles, opens, losses, jobs and failing
callbacks and any delays, under `ConnAssumption`:

* `InvHolds`: the invariant `Inv`;
* `JobsCalledOnTime`: `CalledOnTime`;
* `OneLinkEach`: `OneLink`.

The argument. `TimerInv` says how the rows that are due match the list while
callbacks change it (`Matching`), and that a once job that ran is about to be
dropped (`OnceEach`). It holds in whatever way the list may grow (`Grown`) or
shrink, so that the timer's half of the proof does not mention connections.
`Links` is one connection or one retry for each call of `o`, as long as no
callback failed; a reconnecting callback works only because nobody else removed
its row (`RetriesKept`) and because the row is a once job with a delay that can
be doubled (`RetryJobs`).

`TickerPlantProofs` proves, for every set of tables, messages, RDBs and
connections, any number of days and crashes, under `PlantAssumption`:

* `CopiesAgree`: `NoEarlyEnds` implies that `CopiesFollowLog` is an invariant;
* `WholeDaysAreSaved`: it implies that `EodSavesWholeDay` is.

`NoEarlyEnds` is about the ways the plant is used (`Modes`): with a log, a feed
that ends days itself does so without batches and with a plant that does not
die. Both properties are false without it. In batches such a day ends with
rows in the buffer, which is the finding of the run `plant_feed_ends_day`; and a
plant that dies after a day was ended early is started again on the day of the
calendar, which RDBs have saved already, and later comes to a day whose log is
not empty. Plants that end days by the timer, which are all those of the run
`plant_safety`, need no such condition.

The argument. What an RDB will have of the day is `After` its copy and the items
on its way, of which the last end of a day forgets all before it. The invariant
`Inv` has two halves that need each other. The day is exact: the counters match
the log (`Counted`), and for every subscriber the copy after the items, followed
by the buffer, is the log (`Agrees`). The past is complete (`Past`): at every
end of a day among the items, those of an RDB the plant has given up on
included, what the RDB has by then is all of the log of that day; this is what
makes the saved day right, long after the plant went on or died. A step adds
behind the items (publishing, ending a day), cuts from behind (a crash), takes
from the front (an RDB reads), or exchanges the copy for the same rows (replay),
and there is one lemma about `After` for each. A crash between publishing and
logging does no harm since a plant that is started again has no subscribers: a
message that is in no log has no end of a day behind it. The functions of `tick.q` have a lemma each
(`FlushKeeps`, `EndofdayKeeps`, `TsKeeps`, `AcceptTakes`, `LogKeeps`), used by
the events that call them.

What these proofs need about sequences is stated in the modules that need it:
no repetitions in `AsyncJobsProofs` and `HttpProofs`, and in
`TickerPlantProofs` and `QzmqProofs` what `FlattenSeq` does, on which the models'
`OfTable` and `RowsIn` and the property `MergedOnlyAfterFailure` are built. That operator is a fold, and the
installed provers cannot use the induction theorems of the library, which take
an operator as a parameter. `Induction` states induction for a set of numbers
instead, and is proved by the least counterexample (`Least`); `Recursion` shows
that a recursion up to a number has a function, from which the existence of the
fold's own function follows, and with it that flattening distributes over
concatenation.

`QzmqProofs` proves, for every set of descriptors, endpoints and messages and
every number of contexts and sockets, under `QzmqAssumption` (descriptors are
positive numbers, a message is a nonempty sequence of parts, bounds are
numbers):

* `InvHolds`: the invariants `Inv` and `Held`;
* `TableIsExact`, `CallbackIsAboutItsSocket`, `MessagesAreKept`:
  `SocketsAgree`, `CallbackKnowsSocket` and `NoneLostOrStuck`;
* `MergesAreExplained`: `MergedOnlyAfterFailure`.

The argument. That the table finds only open sockets needs `Filed`: under a
descriptor it finds a socket of that descriptor, although descriptors come back.
That a message is taken whole, while others come between its parts, needs
`Reading`: the parts `on_msg_cb` holds are the first parts of the first message
of a socket that is open, since nothing but `.zmq.ps` can close it and that does
not run between two parts. That a callback goes on with a closed socket only
after `.zmq.ps` closed it needs `Answering`: it was called for a message of that
socket. A call that waits finds what it left when it returns, since nothing else
of the program runs meanwhile (`Held`). `Types`, `Fresh` and `AtWork` say where the rest of the state is. There is
one lemma per action; `LookedAt` covers all calls on a socket and shows that a
signal they take is marked as taken, `MovedOver` and `CameBehind` are the facts
about sequences behind the order of messages. What leaves a socket needs
`SendInv`: the parts that wait in a socket are those of the tries since the last
whole one, joined.

`OptimizerProofs` proves, for every set of calls, every conversion, any number
of evaluations, iterations, parameters and constraints, under
`OptimizersAssumption` (bounds are numbers), `FunctionsAssumption` (a call is of
one of the five functions) and `NumbersAssumption` (what passes the conversions
are numbers):

* `InvHolds`: the invariant `Inv`;
* `FailuresAreReported`: `FailuresReported`;
* `NothingLeaks`: `LeaksOnlyLate`;
* `ResultsHold`: four of the five parts of `ResultMeansWhatItSays`, all but the
  shapes (`FullMatchesTable`, `FeasibleOrSignal`, `RootBracketed`,
  `LineTowardsStart`).

The argument. The error is what the first function that failed left
(`ErrorIsFirst`), since a call after it returns at once; it wins over the signal
because a signal is only made where nothing has failed, so that a call with both
had its failure after the routine returned (`SignalOrFailure`). For that one has
to know that outside a routine an evaluation is exactly one call, or two for the
ends of `root` (`Evaluating`), and that nothing but a routine evaluates again
(`Deactivated`). The five ways a routine returns share a lemma (`RoutineEnds`).
`Kept` is a second invariant on top of it, for the results: where a call is tells
which routine it is in (`Ways`); NLopt's calls finish without an error only after
as many evaluations as there are constraints, the worst value at hand
(`Constraints`); the sign of the function of `root` is turned before the search,
and no later (`Ends`); the parameter of `line` is a distance in the direction of
its start (`Direction`). TLC checked both on the run's instance. The keys of a
full result (`FullMatchesTable`) need no invariant: each function appends them
one after the other, and the lemmas `SolveminKeys` to `LineKeys` follow it, with
a signal and without.

`MatrixProofs` proves, for every set of calls, every schedule of failures, every
size of the largest buffer and every outcome of LAPACK, under `CallsAssumption`
(the schedule has more entries than a call has allocations; the largest buffer
has at least `wi` items and fewer than `wi` columns of just over half that length;
conversions give sequences of numbers; LAPACK asks for some workspace; a function without
allocations answers):

* `AllocationsAreReturned`: `AllocationsReturned`;
* `ErrorsAreExplained`: `ErrorsExplained`;
* `BuffersFit`: `CallsFit`, every routine being followed through every set of
  dimensions that failed allocations leave.

The argument. Between two steps of a function its heap is `Sound`: it has no
buffers but the named ones, it has made no more than so many allocations, and
the error at hand is one of a named set, or
`wsfull` after an allocation that failed. Each operator on heaps has a lemma
about what it adds to these (`ErrSound`, `RequireSound`, and so on). The steps of a function are
joined in a lemma that says how it `Ends` (`MdetEnds` to `MlsqxEnds`): with
nothing allocated, and with an answer only if no allocation failed and nothing
is wrong with the arguments. `Reports` is what a call may complain of: the first
thing wrong with its arguments, and `limit` if a dimension or the workspace is
`TooLarge`; that a buffer is refused only then is proved from how its size comes
from the arguments (`Limited`). With that, `LoopInv` is inductive: the schedule
is as the last run left it, and `qml_debug_alloc` ends the loop only if none of
the entries that run passed is a failure. TLC checked `LoopInv` on the run's
instance.

`BuffersFit` needs what `Sound` does not say, so a second chain of lemmas follows
the same steps. `Fits` says that nothing has been overrun, with an error recorded or
without. When an allocation fails, the code sets the dimension it was made for to
0 and goes on; `Less` says that from one heap to a later one each dimension is as it
was or 0, and that the buffers keep their sizes. So what fitted (`n * n <=
Size(h, "a")`, `HasRoom`) still fits, and a routine that is told 0 reaches for
nothing: the second half is a case split, as no prover here multiplies two
unknowns. Each function has a lemma (`McholFits` to `PolyFits`) that nothing is
overrun, or only the buffers of the three exceptions (`MmFits`, `PolyFits`,
`MlsxFits`), under the conditions `Overrun` gives. `Overruns` is then inductive.

Looking for these proofs corrected the models. A `CASE` whose guards overlap is
the first true one for TLC and any true one for the logic: such definitions in
`QmlOptimizers`, `QmlUtil`, `QmlMatrices`, `RConvert` and `RServer` now are
chains of `IF`, as the tests in the code are. And `ErrorsExplained` said of
`limit` that only wide arguments or a large workspace lead to it; the proof did
not go through for a tall matrix, with `wi` rows or more, nor for the
product of two dimensions that fit. It now names them (`TooLarge`), and the run
has a matrix that is too wide, and a product that is too large.

Only model-checked: all liveness properties (TLAPS has no rule for fairness
here); the shapes of `ResultMeansWhatItSays`; everything about `RServer`, whose calls are made of recursive
conversions of nested values; and `ResultsAreRight` and `ConversionsAgree`, which
say what sums, exchanges of rows and recursive conversions compute. These need
induction over data, which neither the provers nor the library's theorems reach.

## 6. Not modelled

`PROJECT.json` gives the reason per component.

* mongoose: a third-party web server, copied into the repository as it is; no
  library of the repository calls it.
* qml's own build of LAPACK, NLopt, CONMAX and cephes: external, modelled by
  what `qml/src` relies on.
* daemon, crypto, log, posix, time, db, sys: straight code without state that
  outlives a call.
* quant: formulas over floats.
* expat: a tree builder over the callbacks of libexpat; it is planned.

In the modelled ones: allocation failures other than those of
`threadpool_create` and of qml; failures of pthread, `write` and `read` calls
the code ignores; signals; the content of messages, urls, results and rows;
several symbols per subscription; partial saves of a partition; the rows with a
null handle that `conn` never deletes; `c` on a handle that is not open;
`get_type_name` and `make_named_list` of the R library, which nothing calls;
the values of floating-point functions.

## 7. Plan

1. Done: `TaskPool`, `ThreadPool` and its proofs, `AsyncJobs`, `TickerPlant`,
   `HttpLoop`, `Timer`, `Conn`, `Qzmq`, `RConvert`, `RServer`, `QmlValues`,
   `QmlUtil`, `QmlMatrices`, `QmlFunctions`, `QmlOptimizers`, `QmlResults`.
2. Proofs done: the safety properties of `ThreadPool`, `AsyncJobs`, `HttpLoop`,
   `Timer`, `Conn`, `TickerPlant`, `Qzmq`, `QmlOptimizers` and `QmlMatrices` (its
   memory, errors and buffers). Next: the parts of
   `RServer` that do not depend on the recursive conversions (the life cycle of
   the interpreter, the connections), once these are apart, as in
   `QmlOptimizers`.
3. `Expat`: the tree builder of `expat.c` as a state machine over the callbacks.
4. `PubSub`: the subscriptions of `u.q` with symbols, composed with the plant.
5. The edit distance of `quant/nlp` against a reference definition.
