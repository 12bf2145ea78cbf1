# NetCalc in TLA+

Specifications of NetCalc's thread pool, network server, directory solver and
calculator, the TLC configurations that check them on small instances, and
TLAPS proofs of what holds for every instance.  Paths are relative to the
repository (`src/...`).

## The system

`netcalc` is a TCP server that solves files of equations.  The main thread
accepts connections and submits one job per connection to a thread pool; a
worker reads the client's file from the socket and writes a solution per
equation.  `threadcalc` does the same for the files of a directory, with the
same pool; `simplecalc` solves one equation from the command line.

| Component | State | Operations | Talks to | What is hard | What makes it correct |
|---|---|---|---|---|---|
| job queue (`4_ThreadCalc/src/queue.c`) | array, front, rear, size | new, enqueue, dequeue, peek, clear, destroy | called by the pool, under its mutex | two special rules for the first and the last node, wrap-around | it is a bounded FIFO; no node lost |
| thread pool (`4_ThreadCalc/src/threadpool.c`) | queue, mutex, condition variable, `active`, threads | create, add_job, shutdown, destroy; `start_thread` per worker | runs jobs of `netcalc` and `threadcalc` | signal after unlock, broadcast without the mutex, exit test without the mutex, failed creation | each job at most once, in order; no lost wake-up; no use after free; destroy returns |
| listener (`5_NetCalc/src/net_handler.c`, `net_main.c`) | listening socket, one `con_args_t`, descriptors | `start_listener`, `accept_connection`, shutdown | the pool (`threadpool_add_job`), `signal_flag_g`, the workers through `con_args_t` | the shared argument, `int8_t`, reuse of descriptors, signals that do not interrupt `accept` | each connection is served by its own worker and closed; the server stops |
| session (`net_handler.c`, `0_Common/src/file_io.c`) | position in the stream | `read_net_header`, `check_header`, `parse_stream`, `safe_read`, `safe_write` | the client, over TCP | pieces, errors, a client that leaves, both ends waiting | in step with the stream; every session ends; a solvable file is answered in full |
| client (`5_NetCalc/client/client.py`) | position in the stream | `manage_files`, `write_into_dir` | the server | sends all before it reads | see session |
| signals (`4_ThreadCalc/src/signals.c`) | `signal_flag_g` | handler | listener and `threadcalc` main thread | which thread gets the signal | see listener |
| calculator (`0_Common/src/math_funcs*.c`, `calc_handle*.c`) | one `calc_t` | a function per operator with its overflow test, dispatch | session, `threadcalc`, `simplecalc` | overflow at the boundaries, shift counts, one union read as signed and unsigned | an answer is exact, or there is none and the true one does not fit |
| simplecalc (`1_SimpleCalc/src`) | operands, result, exit status | `parse_args`, `set_calc_32`, `solve_func_32`, `print_result_32` | the calculator | two searches of the operator table, conversions | the exit status tells whether an answer was printed |
| threadcalc (`4_ThreadCalc/src/thread_handle.c`, `thread_main.c`) | directory position, descriptors, solved files | `directory_parse`, `check_header`, `create_file`, `parse_file`, `process_equations` | the pool, `signal_flag_g` | errors of one file among many, reuse of descriptors, what an earlier run left | workers keep to their own files; answers are whole; the program ends |
| option parsing, conversions, debug output, tests | - | - | - | sequential | not modelled, but for what a refusal leads to |

The code has one caller of the pool: the main thread of either program creates
it, adds all jobs and destroys it, so `ThreadPool` has one caller that makes
these calls one after the other.  `queue_t.size` and `threadpool_t.active` are
C11 atomics: a read of one without the mutex sees its current value.

## Modules

| Module | Models |
|---|---|
| `FifoQueue` | abstract: what `queue.h` promises, a bounded FIFO |
| `RingQueue` | `queue.c`: the array and its indices; refines `FifoQueue` |
| `RingQueueProofs` | theorems about `RingQueue` |
| `JobService` | abstract: what a pool gives its users, jobs started in order, at most once |
| `ThreadPool` | `threadpool.c`, statement by statement; refines `JobService` |
| `ThreadPoolProofs` | theorems about `ThreadPool` |
| `NetServer` | listener, shared argument, descriptors, signals and the frame of the workers; composed with `JobService` |
| `NetServerProofs` | theorems about `NetServer` |
| `ThreadCalc` | the threadcalc program: main, workers, descriptors and files; composed with `JobService` |
| `MCThreadCalc` | what the files hold in TLC's instances of `ThreadCalc` |
| `ThreadCalcProofs` | theorems about `ThreadCalc` |
| `JobLemmas` | what submitting, starting and finishing a job does to who holds which, for the proofs of both programs |
| `CalcOps` | `math_funcs*.c`: the operators at any width |
| `Equations` | the numbers of the operators, and what an equation means, as a reference |
| `FileCalc` | `calc_handle.c` and `math_funcs.c` as the file programs use them: operator byte, signed operands, type of a solution |
| `SimpleCalc` | the simplecalc program around `CalcOps` |
| `CalcProofs` | lemmas about `CalcOps` and `FileCalc`: arithmetic and bits of words of any width |
| `SimpleCalcProofs` | theorems about `SimpleCalc` |
| `SessionService` | abstract: what serving a connection amounts to, a refusal or an answer with at most one solution per equation |
| `NetSession` | one connection: `client.py` and the worker that serves it, and the streams between them; refines `SessionService` |
| `NetSessionProofs` | theorems about `NetSession` |

The layers fit together by refinement: `ThreadPool` uses a sequence where the
code has the ring, which is sound because `RingQueue` implements `FifoQueue`;
`NetServer` and `ThreadCalc` use the actions of `JobService` for the pool, which
is sound because `ThreadPool` implements it; and a session in `NetServer` is three steps
(header, stream, close) of what `NetSession` does in detail, in the order that
`SessionService` gives and `NetSession` is shown to keep.  `FileCalc` gives
`ThreadCalc` its arithmetic: which equations are solved, and what is written for
each, is computed and not assumed.

### From code to actions

*RingQueue.*  One action per function, because the pool calls each under its
mutex.  `EnqueueFirst` and `EnqueueNext` are the two paths of `queue_enqueue`;
`EnqueueRefused` is possible at any time, for want of memory.  A node is its
argument; `leaked` records a node that is overwritten or left behind.

*ThreadPool.*  A program counter per thread names the next statement.  A
label stands between every two statements that another thread can tell apart:
the test before the wait, the wait (which gives up the mutex), the wake-up,
the dequeue, the unlock, the job, `del_f`, and the two reads of the exit test.
`threadpool_create` starts threads one by one, and each runs from then on.
`pthread_cond_signal` wakes one waiting thread, or none; spurious wake-ups are
possible.  A worker in a pool that is freed takes no further step: what it
would do is undefined, and `NoUseAfterFree` is about whether there is such a
worker.  `ran`, `deleted`, `dropped` and `lost` are history.

*NetServer.*  `con_args_t` is the variable `args`, one for all jobs, as in the
code; a worker reads it when it starts its job.  After `free(c_args)` the
value read is any `int8_t`.  `owner` is the descriptor table: `accept` takes
the lowest free number behind the listening socket (`parentfd`, which is 3, for 0, 1
and 2 are the process's own), `close` frees whatever the number means by then.  A number
that was truncated to one below those of connections means none of them; what a worker does
to the process's own descriptors then is left out.
`con` is the descriptor `con_socket` and `accepted` the connection it was made for.
A signal sets the flag on any thread; only one that finds the listener inside
`accept` makes it return.  Clients are uninterrupted `client.py` processes,
which wait for the reply on one connection before they open the next.

*NetSession.*  Contents are left out: what a unit of a stream means follows
from its place.  A read takes any part of what is under way and asked for; a
write leaves any part of what fits.  `safe_read` is modelled with its loop:
`whole` says whether the current item came with a single read, which is when
the loop returns its length.  A net header that comes in pieces makes
`read_net_header` look beyond its buffer, and the outcome is any of: refused,
accepted, or the end of the process.  A write to a client that has gone may be
accepted, fail (which no caller notices), or raise SIGPIPE, for which the
program has no handler.  `WriteError` is a write that fails while the client is
there (EINTR): what was left of the item is missing and the reply goes on; after a
part of the net header the client reads something else in its place
(`reply = "garbled"`).  `NoMemory` has every `calloc` of a session fail: at the first one the
socket is never closed (`abandoned`), a solution is left out, and every other one ends the
session without another word.

*ThreadCalc.*  The main thread takes an entry from `readdir`, opens it, checks its
header, creates the solved file and submits the job, a step each, because
workers close descriptors in between.  `fds` is the descriptor table of both
directories' files, with the lowest free number given out; `args` holds the
`parse_args_t` of each job.  A worker's step is one pass over a line of
`process_equations`: the test of the loop with the read and `solve_func`, the
write, the close.  A file is what its header announces and its equations, and a
solved file a sequence of items, each with the name of its equation and the
solution that `FileCalc` computes for it.  An output file may have been left by an earlier run, because
`create_file` appends.  `Flaky` are the files for which the disk or the memory may
fail, at every call; a failed write leaves an unknown part of the item behind
(`Part`) and its name in `gaps`; `gaps`, `failed` and `lost` are history.

*CalcOps, SimpleCalc.*  A word has `NUM_BITS` bits; a number is the signed reading of
a word, and `Wrap`, `Unum` and `Num` are what C's conversions and the processor
make of a result that does not fit (wrap-around, shift counts modulo the width,
`abs` of the least number itself).  `Pow2` is written as a recursive function, because
the provers give `^` no meaning.  `SimpleCalc` has one action per call of
`main`.  An operand is a text with a sign, with blanks before it or without, and a number:
`cli_handle.c` looks for the sign in the first character, `strtoul` behind the blanks,
and it negates in an `unsigned long` (`ULONG_MAX`).

*FileCalc.*  `math_funcs.c` is the text of `math_funcs_thirty_two.c` at 64 bits, so its
functions are those of `CalcOps` at their own width.  `set_calc_file` takes the
operator as a byte of any value and both operands as signed, and `write_file` and
`write_stream` store the result as `int64_t` with a type that says how to read it.
`NumberTold` is what a reader then takes it for; `Solvable` and `Answers` say, by what the
equation means and without the code's arithmetic, what it should be.  `Misjudged` are the
two differences where the code departs from that.

## Checks

| Run | Instance | Question |
|---|---|---|
| `queue` | 3 arguments, capacity 4 | types, `IndicesAgree`, `WindowFull`, `NoLeak`, refinement of `FifoQueue` |
| `pool` | 3 workers, 3 jobs, queue of 2 | types, `JobAccounting`, `NoLostWakeup`, `NoUseAfterFree`, refinement of `JobService`, `DestroyCompletes`, `QueuedJobIsRun` |
| `pool_null_arg` | 2 workers | violated: a job with a NULL argument is reported as SUCCESS and dropped |
| `pool_loses_job` | 2 workers, 3 jobs | violated: an accepted job is freed unrun |
| `server` | 1 client, 2 workers, 4 connections, 2 signals | types, `OwnConnection`, `SocketFits`, `SocketsAccounted`, `AtMostOneAfterSignal`, `ListenerStops`, `AcceptedIsClosed` |
| `server_shared_args` | 2 clients | violated: a worker serves another job's connection |
| `server_freed_args` | 1 client, 1 signal | violated: `c_args` is read after it was freed |
| `session` | files of up to 3 equations, items of 2 units | types, `Aligned`, `NoStall`, `OnlyLeaverKills`, refinement of `SessionService`, `ServerFinishes`, `GoneClientFreesWorker`, `ClientFinishes`, `WholeReply` |
| `session_piecewise` | files of up to 2 equations | violated: an item read in two pieces is refused |
| `threadcalc` | 2 workers, 2 files of 4 kinds and a hidden entry, queue of 1; every equation over words of 4 bits (`EveryEquation`) | types, `OwnFiles`, `SolvedFilesAreClosed`, `AnswersAreWhole`, `AnswersAreRight`, `DirectoryIsSolved`, `ProgramEnds` |
| `file_graded` | 1 worker, 1 file with an equation too many, which an earlier run began | violated: the solved file is not what `EquGrader.py` reads |
| `simplecalc` | words of 4 bits, every equation | types, `SignedAnswers`, `SubOffByOne`, `UnsignedAnswers`, `StatusTells` |

Five more configurations are there to be run by hand; each stops at once with a
violation, and shows something that the runs above pin or are stated around:

| Configuration | Shows |
|---|---|
| `PoolStartFails.cfg` of `ThreadPool` | `NoUseAfterFree`: when the second `pthread_create` fails, the pool is freed under the first thread |
| `SessionHeader.cfg` of `NetSession` | `HeaderStaysInBuffer`: with a net header in pieces `read_net_header` looks behind its buffer |
| `SimpleSub.cfg` of `SimpleCalc` | `SubDoesNotOverflow`: a difference of `INT_MAX + 1` is printed as `INT_MIN` |
| `SimpleAdd.cfg` of `SimpleCalc` | `SumOfIntMinIsRefused`: a sum of `INT_MIN` is printed |
| `SimpleNegative.cfg` of `SimpleCalc` | `NegativesNotAccepted`: a negative operand of a bit operation is accepted |

### Bounds

- Ring of 4 slots: the window has every offset and every length, wraps in every
  way, and is at its limit.  Three arguments tell any two orders apart.
- Pool: three workers let one wait, one run and one be on its way out at the
  moment of a signal.  Three jobs are one more than the queue holds, so it fills.
  A job with a NULL argument takes the same step as one whose node cannot be
  allocated (`AddDrop`), which j3 may be; `pool_null_arg` has one.  `MaxSpurious` is 1: a
  spurious wake-up changes nothing but where its worker is.
- Server: with two workers and one client three connections can be open at
  once.  Their descriptors are 4, 5 and 6, and `Int8Max` is 6, so `SocketFits` is
  checked exactly at its limit; a lost descriptor would bring 7 into use, which is
  truncated.  `MaxConns`, `MaxSignals` and `Backlog` bound counters and the kernel's
  queue.
- Session: an item of two units is the least that can come in pieces.  The
  stream to the client holds 8 units: the reply to a file of two equations just
  fits, and that to a file of three does not.
- threadcalc: the kinds of files of `threadcalc` are one for each thing
  `process_equations` meets: refused; regular, with a signed and an unsigned operator;
  longer than announced, with an unsigned result that has its top bit set, and an
  equation that cannot be solved at its end; and a number that is negative as an `int`
  (of three bits).  `file_graded` has one file, with just what violates
  `SolvedAsGraded`.  `MCThreadCalc` assumes `EveryEquation`, which TLC evaluates before it
  starts: for every pair of words of 4 bits and every operator byte on both sides of
  each bound `solve_func` solves an equation exactly if it is `Solvable`, and its
  solution tells the answer, but for the differences that are `Misjudged`.  With two workers
  and a queue of one a job is dropped, queued and run;
  four descriptors are those of both files, so that the second file gets the
  first one's numbers exactly when they were closed.
- simplecalc: `NUM_BITS` is 4, so that every pair of operands, shift count and
  boundary occurs.  A long has 5 bits, so that some of its numbers have a negative that
  is an unsigned word and some have not; typed numbers go one past the largest long.

### Fairness

`Spec` of `RingQueue`, `ThreadPool` and `SimpleCalc` has none.  `FairSpec` of
`ThreadPool` and the specifications of `NetServer` and `ThreadCalc` have weak fairness of each thread's steps:
the operating system runs threads that can run, and jobs return.  No fairness
of the mutex is assumed; the number of jobs is finite, so no thread is kept
from it for ever.  The caller need not add jobs or destroy the pool, clients
need not connect, and signals need not come.  In `NetSession` the client and the
worker each go on when they can; no call need fail, and the client need
not leave.  `NetServer` takes it that a session comes to its end; `NetSession`
shows when it does (`ServerFinishes`): there is no timeout in the code, so a
client that announces more than it sends, or a reply larger than the streams
hold, keeps its worker until the client leaves.

### What the violated runs show

- `pool_loses_job`: `threadpool.h` promises to "Finish the work that has already
  been accepted".  Every worker may read `size` 0 in its exit test (line 217)
  before the last job is queued and `active` after the shutdown.  What does
  hold is `QueuedJobIsRun`: if one worker still has to read `size`, the job runs.
- `pool_null_arg`: `threadpool_add_job` does not look at the result of
  `queue_enqueue`, which refuses a NULL argument.  `threadpool.h` (lines 80-82) and
  `thread_tests.c` (line 156) want it accepted, and the test sees SUCCESS only.
  What does hold is `JobAccounting`: the jobs that are queued, held, run or freed with the
  queue are exactly those submitted that the queue did not refuse.  With
  a full queue it is the same (`JobRefused`, `JobDropped`): a connection is never
  answered, and a solved file keeps only its header.
- `server_shared_args`, `server_freed_args`: the life and the sharing of
  `con_args_t`.
- `session_piecewise`: `safe_read` returns 0 for an item it has read, when it
  took more than one `read`.
- `file_graded`: one trace departs in three ways from what `EquGrader.py` reads (lines
  343-347 and 375).  `create_file` appends, so what an earlier run left comes before the
  header.  `process_equations` never counts the equations it has read, so the file has a
  solution too many.  `validate_sub` lets a difference of `INT_MAX + 1` pass, which is
  written as `INT_MIN`.  With the other files of `MCThreadCalc` in its place the property
  is violated for two more reasons: an equation that cannot be solved ends the file
  (`UnsolvableFile`; line 410 of `EquGrader.py` wants it flagged in its place), and a number of
  equations that is 0 as an `int` leaves it empty (`CountlessFile`).  What does
  hold is the last part of `AnswersAreWhole`: a file whose number is true, fits into an
  `int` and whose equations can all be solved (`Regular`) gets the header and exactly one
  solution each; and `AnswersAreRight`, that every solution but that of such a difference
  is the answer.

Where the code and the repository's texts disagree otherwise, a property of a passing
run says exactly what does hold:

- `validate_sub_32` is off by one at both ends (line 75), against the comment at its line 63
  and `SimpleCalc.tests` (line 10).  `INT_MAX + 1` passes and becomes `INT_MIN`
  (`SimpleSub.cfg`); a difference of `INT_MIN` is refused, which `SimpleCalc.tests` (line 9)
  even expects.  `SubOffByOne` says that nothing else is wrong.
- Line 7 of `SimpleCalc.tests` expects `-2147483647 + -1` to fail, and the
  code prints -2147483648 (`SimpleAdd.cfg`).  The sum is a word, and nothing but these two
  lines of the tests speaks against the least number, so `SignedAnswers` says what the code
  does: it wants every result that is a word printed.
- The README of simplecalc (line 23) does not accept negative numbers for bit
  operations; `cli_handle.c` (line 43) looks at the first character of the text, and a
  blank before the minus sign gets by (`SimpleNegative.cfg`).  `StatusTells` says exactly
  what does (`SlipsThrough`): 0, and what is the negative of an unsigned word in an
  `unsigned long`.
- `failed_start` frees a pool whose first threads run (`PoolStartFails.cfg`).
  `NoUseAfterFree` holds when only the first thread can fail to start.
- `buf` in `read_net_header` is advanced by whole headers, not bytes, so that what
  follows a piece is stored and checked behind the allocation (`SessionHeader.cfg`).  The
  properties of a session are stated up to there.

Nobody notices a write that fails, either: the solutions behind it are in their order,
with a gap where it was (`AnswersAreWhole`), and on a connection the client then waits
until the server closes it (`ClientFinishes`).

## Proofs

Every safety property that a passing run checks, and each of the three
refinements, is also a theorem.  The theorems hold for every capacity, every
number of threads, files, descriptors and connections, every size of the parts of a stream,
every width of a word that is a power of two, and all finite or infinite sets of
arguments and jobs, under the assumptions named in the modules:

| Assumption | Says | Because |
|---|---|---|
| `CapacityAssumption`, `NullAssumption` | a queue has at least one slot; NULL is no argument, and no calculator | `queue_new` is called with a positive constant; what `calloc` returns |
| `PoolAssumption` | how many threads, queue slots and jobs there are, which label each has | constants of the instance |
| `ServerAssumption`, `FilesAssumption` | the same of connections, descriptors and files; `None` is none of them | constants of the instance |
| `SessionAssumption` | headers, equations and solutions have at least one unit, and the stream to the client has room for a net header | sizes of the C structures, and of socket buffers |
| `LongAssumption`, `ValueAssumption` | an `unsigned long` is at least as wide as an operand; typed numbers are natural (their sign is apart) | `stdlib.h`; every number has a bound |
| `WidthAssumption` | `INT_MAX` is the largest signed number of `NUM_BITS` bits | `stdint.h` |
| `CountAssumption` | the width divides 2 to its own power | 32 and 64 are powers of two.  A rotation computes `NUM_BITS - num2` in an unsigned word: that this wraps around does no harm only because the width divides the modulus |

*Queue.*  `RingQueueProofs`: `QueueTypeCorrect`, `QueueIndicesAgree`,
`QueueWindowFull`, `QueueNoLeak`, and `QueueImplementsFifo`.  The inductive
invariant is the conjunction of the four properties: a step keeps the window
only if the indices agree, and nothing is lost only if the window is exact.
`%` is first reduced to a subtraction (`WrapIsSubtraction`), and membership in
the window to a distance from `front` (`OccupiedByDistance`), so that the rest
is linear arithmetic.  A step of the array is a step of the FIFO because
`Contents` grows at its end, shrinks at its head, or becomes empty.

*Pool.*  `ThreadPoolProofs`: `PoolTypeCorrect`, `PoolJobAccounting`,
`PoolNoLostWakeup`, `PoolImplementsJobService`, and `PoolNoUseAfterFree`, the
last under the assumption that only the first `pthread_create` can fail (with a
later one it is false, as `PoolStartFails.cfg` shows).  The inductive invariant
adds to the checked properties who holds the mutex at which label
(`MutexInv`), what the caller's locals are at each of its labels
(`CallerInv`), which threads exist (`ThreadInv`), what each worker holds
(`JobInv`) and which workers have been joined (`FreedInv`).  `NoLostWakeup`
needs them: that a worker does not go to wait between `Deactivate` and
`Broadcast` follows from the mutex and from `active` being false.

*Server.*  `NetServerProofs`: `ServerTypeCorrect` and `OneMoreAfterSignal` for
any number of clients.  The second only needs where the listener can be once a
connection was accepted late (`LateInv`): past `accept`, with the flag set, on
its way to the test.  `ServerOwnConnection`, `ServerSocketFits` and
`ServerSocketsAccounted` hold for one client (`OneClient`) and as many workers as
leave every descriptor within an `int8_t` (`FewWorkers`: the listening socket's
number, the workers and one make at most `Int8Max`, so up to 123 threads for 127).  Both are needed: with two clients
`server_shared_args` violates the first, and with a third worker
TLC finds `SocketFits` violated in the instance of `server`, when every
worker has replied and not closed yet.  The invariant (`OneInv`) relates places
that the code never compares: the client's last connection (`ClientInv`), what the
listener has just accepted (`AcceptedInv`), what each descriptor means
(`OwnerInv`), and for each job, pending or with a worker, that the shared
argument still is its own until the worker has read it (`JobsInv`).  That a
descriptor fits is a counting argument: every descriptor in use but the one
that is asked for belongs to a worker of its own about to close it, so that
the lowest free number is at most one more than there are workers, counted from the
listening socket.  Main's
`free` ends all this, and the properties speak of states before a worker read
what was freed; `FreedInv` says that the listener is at its end by then.

*Session.*  `NetSessionProofs`: `SessionTypeCorrect`, `SessionAligned`,
`SessionNoStall`, `SessionOnlyLeaverKills`, and `SessionImplementsService`.  The
invariant (`IInv`) balances the two streams.  What the worker consumed is what lies
before its place, or less after `read_net_header` has lost its place (`InputInv`);
what a client that still reads was sent is at most what the worker wrote
(`OutputInv`); a client that is done without leaving has nothing to come
(`DoneInv`).  `NoStall` is then arithmetic: a worker that waits for room has more to write than
the stream holds, against the balance of a reply that fits, and one that waits for
input has consumed all of a file that is long enough.  `OnlyLeaverKills` follows
from `DoneInv`: a client that has what it came for leaves nothing to be written.

*threadcalc.*  `ThreadCalcProofs`: `CalcTypeCorrect`, `CalcOwnFiles`,
`CalcClosesFiles`, `CalcAnswersAreWhole` and `CalcAnswersAreRight`.  The first
invariant (`IInv`) says what each descriptor means: main's own while it works on an
entry (`EntryInv`), a job's from its submission to its close (`FilesInv`), and
the worker's local copy the same as the job's (`WorkerInv`); each job is in one place
(`PoolInv`).  A worker can then close no number that means something else by now.  The
second (`ItemInv`) is about the contents: the items of a solved file that were
tried, those included whose write failed, are always the first ones, and how
many tells where its worker is (`WorkItems`), up to all in front of the first that is not
solved (`SolvedOf`) when the job is finished without a failure.  It follows that an item that
is missing is missing for a write that failed; and a regular file has no such equation
(`RegularIsSolved`), so that all it announces was tried.  `AnswersAreRight` needs that every item was
computed from its own equation (`ProperItems`), and the lemma `SolutionsAnswer`.

*Calculator.*  `CalcProofs` proves what TLC evaluates for 4 bits: a signed operator
succeeds exactly if its result fits, and is then exact, but for `sub`
(`AddRefusesOverflow`, `SubRefusesOneTooFew`, `MultRefusesOverflow`, `DivAnswers`, `ModAnswers`); shifts
and rotations of an unsigned word move its bits to where they should be, for
every count (`ShiftLeftBits`, `ShiftRightBits`, `RotateLeftBits`, `RotateRightBits`,
`BitAnswers`); and `solve_func` of the file programs solves an equation exactly if it
is `Solvable` and then tells the answer, but for the two differences that are `Misjudged`
(`SolvesTheSolvable`, `SolutionsAnswer`), which is `EveryEquation` at every width.  The solver has no theory of products, remainders
or powers of unknown numbers, so each is reduced to facts that are linear:
quotient and remainder are characterised by their bounds (`DivModUnique`), and from
that follow the rules for a remainder of a quotient and the like (`DivDiv`,
`ModThenDiv`, `ModMod`), and a bit of a product, quotient or remainder by a power
of two (`BitOfProduct`, `BitOfQuotient`, `BitOfMod`).  That `Pow2` satisfies its own
recursive equation, and that every set of positions is that of the 1 bits of a number,
are proved by a smallest counterexample, since the induction theorems cannot be used.

*simplecalc.*  `SimpleCalcProofs`: `SimpleTypeCorrect`, `SignedAnswersAreExact`,
`SubtractionIsOffByOne`, `UnsignedAnswersAreExact` and `StatusTellsTheOutcome`.  The
inductive invariant (`ProgressInvariant`) says what `num1`, `num2`, `p_new_calc`,
`err` and `out` are at each call of `main`; the rest is `CalcProofs`.

TLC has checked the inductive invariants of queue, pool, server and threadcalc as
invariants of the runs' instances.

Model-checked only: liveness (`DestroyCompletes`, `QueuedJobIsRun`,
`ListenerStops`, `AcceptedIsClosed`, `ServerFinishes`, `GoneClientFreesWorker`, `ClientFinishes`,
`WholeReply`, `DirectoryIsSolved`, `ProgramEnds`), which the prover cannot treat under fairness;
and that the instance of `MCThreadCalc` has the equations its bounds claim.

## Not modelled, and why

- Allocation failures of the pool's own parts beyond "creation fails and returns
  NULL"; a node that cannot be allocated is modelled where it changes who owns
  what (`EnqueueRefused`, `AddDrop`, `JobRefused`).
- A client that is interrupted, or that meets a directory named `*.equ`: it
  closes its connection and opens the next at once.  For the server that is a
  second client (`server_shared_args`); `NetSession` has a client that leaves.
- A second caller of the pool; neither program has one.
- Parsing of options: that they are refused is a way for `main` to end
  (`CreateFails`); which texts are refused is sequential text processing.
- Debug output, byte order, names, the layout of the files: they do not change
  the control that the properties are about.
- `threadcalc` with the same directory for input and output; `calloc` of
  `parse_args_t` failing, which ends the process.
- An empty text on the command line is the text "0", as it is for the code.
- A socket number truncated to one of 0 to 3, the process's own: that takes more than 250
  open descriptors.
- `net_converts.c`, `comparisons.c`, `debug.c` and the tests.

## Plan

1. Done: all modules above and their runs; every safety property and refinement
   that they check is proved.
2. Next: what the proofs of the parts say together.  That a session of `NetServer` (header,
   stream, close) takes the order of `SessionService`, and that `ThreadCalc` and
   `NetServer` use the pool only as `JobService` allows, are true by their definitions
   today; each is worth a theorem of its own.
3. Next: action properties that now lie inside an invariant, such as that a connection
   that was replied to is never touched again, and that a solved file only ever grows.
4. Liveness stays with TLC.
