# detsys-testkit: a TLA+ verification development

This directory holds a verification development kept beside the code of
detsys-testkit: TLA+ modules translated from the source, TLC configurations that
check them on small instances, and theorems checked by TLAPS. Paths below are
relative to the root of the repository (`src/journal/...` is the journal package).

## 1. Inventory

detsys-testkit tests distributed systems by simulating their network. A *test* is an
agenda of client requests and a deployment of components; a *run* executes it with a
seed and a set of faults. The parts, the state they keep and how they interact:

| Part | State | Operations | Talks to | Module |
|---|---|---|---|---|
| `src/scheduler` (Clojure) | agenda (stable priority queue by time), simulated clock, next tick, logical clock, open client requests, faults, a state such as `:ready` or `:requesting` | `load-test!`, `register-executor!`, `create-run!`, `step!`, `run!`, `status`, `reset` | executor over HTTP, database | `Scheduler` |
| `src/executor` (Go) | the reactors of the system under test, their log buffers | handlers of events, ticks, timers and inits, `Reset` | scheduler (answers), database | `Executor` |
| `src/executor-event-loop` (Go) | reactors, log, Lamport clock, two unbuffered channels | main loop, `processEnvelope`, admin commands | scheduler and administrators over named pipes and sockets | `EventLoop` |
| `src/runtime-prototype` (Haskell) | actor map, promises with time-outs, bounded queues, transports, supervisor tree | event loop handlers, `act`, `react` | each other over transports | - |
| `src/journal` (Haskell) | three memory-mapped term buffers, metadata (tails, active term count, clean position, bytes consumed per subscriber), a notifier | `appendBS`, `appendLBS`, `readJournal`, `readManyJournalSC`, `readManyJournalSC'` | processes and threads through shared memory | `JournalAppend`, `JournalMP`, `JournalSC`, `JournalLog` |
| `src/sut/register` (Go) | sessions in flight, ongoing requests, values and sessions of two registers | receive, tick and timer of four front ends and of the register | executor | `Register` |
| `src/sut/broadcast` (Go) | log, neighbours still to be sent to | init, receive and timer, in five rounds | executor | `Broadcast` |
| `src/sut/dumblog` (Haskell) | key-value state, journal, snapshot file, waiting clients | front end, worker, snapshots, restart | journal | - |
| `src/logger` (Go) | bounded queue, batch of rows, index | read a line, queue, flush on size or time-out, answer with the index | clients over named pipes, database | `Logger` |
| `src/cli` (Go) | pid files of services | `up` and `down` of a service; other commands post to the scheduler | logger, scheduler | `Service` |
| `src/debugger` (Go) | selected row and reactor; the layout of a diagram | read a run, put heaps together, draw, navigate | database | `Debugger`, `Sequence` |
| `src/ldfi` (Haskell) | none (reads traces) | choose the faults of the next run with a SAT solver | database | - |
| `src/checker` (Clojure), `src/ltl` (Haskell) | none (read histories) | Elle on the client history; temporal formulas over heaps | database | - |
| `src/db`, `src/lib`, `src/new-debugger`, `src/divergence`, `src/stats`, `src/generator`, `src/mmap-go-prototype` | none or user interface state | migrations, client calls, display | database, scheduler | see section 6 |

What is hard here and makes the parts worth modelling:

- **journal.** Lock-free: producers claim space with a fetch-and-add, one of them pads
  and rotates a full term, partitions are cleaned by producers and reused, readers race
  on a compare-and-swap, a consumer sleeps on an MVar. It is right when every committed
  entry is delivered to every subscriber once, whole, in the order of the claims, when
  unread bytes are never overwritten, and when nobody waits for ever.
- **scheduler.** Sequential, but with many interacting clocks: ticks, latencies, delayed
  requests, client time-outs, minimum and maximum time, and a logical clock by which
  faults name messages. It is right when time only moves forward, the recorded history
  is one the checker can read (sequential clients, every request closed), faults hit
  what they name, and `run!` returns.
- **executor and debugger.** The executor records differences of heaps, of some steps; the
  debugger puts heaps together from them and uses logical times as numbers of rows. They
  are right together when what is shown is what happened.
- **event loop.** Two unsynchronised sources of work and connections that are closed from
  both ends. Right when every request is handled once, in order, and answered, and when
  answers to administrators are not mixed up.
- **register, broadcast.** Systems under test with retries: messages are lost, resent and
  late, clients give up, front ends restart. Right when retries have no effect of their
  own, when what is acknowledged is stored, and when retrying neither stops too early nor
  goes on for ever.
- **logger and services.** A bounded queue, batches flushed on a time-out, an index that is
  promised before the row is written, processes started and stopped from several
  terminals. Right when only the death of a logger loses entries and the index is true.
- **sequence diagram.** Pure layout arithmetic, with panics on negative counts.

PROJECT.json lists every part with its status, and every hazard at its line.

## 2. Modules

| Module | Models |
|---|---|
| `JournalAppend` | the journal's shared memory and its producers: `tryClaim`, `calculatePositionLimit`, `cleanBufferTo`, `termAppenderClaim`, `handleEndOfLogCondition`, `rotateLog`, `putBS`, `commit` |
| `JournalMP` | `JournalAppend` with any number of `readJournal` threads per subscriber |
| `JournalSC` | `JournalAppend` with the single consumer, `readManyJournalSC` (`waits`) or `readManyJournalSC'` |
| `JournalLog` | the abstract specification: one log, claimed in order, committed in any order, read in order; it is the `FakeJournal` of `src/journal/test/JournalTest.hs` for several writers |
| `Scheduler` | the commands and steps of `src/scheduler/src/scheduler/pure.clj` |
| `Executor` | the handlers of `src/executor/executor.go`; EXTENDS `Scheduler` |
| `Debugger` | `Scheduler`, `Executor` and the debugger composed: a run is made, then looked at |
| `Sequence` | `src/debugger/internal/sequence.go`, and the window that `redraw` cuts out |
| `EventLoop` | `src/executor-event-loop`: main loop, both goroutines, admin commands, log and clock |
| `Register` | `src/sut/register`: the registers and front ends 1 to 4, on either executor |
| `Broadcast` | `src/sut/broadcast`: the five rounds |
| `Service` | `up` and `down` of a background service (`src/cli/cmd`) |
| `Logger` | `Service` composed with the loggers, their workers, the test client and other writers |
| `MC*` | values for TLC |
| `JournalAppend_proofs`, `JournalMP_proofs`, `JournalSC_proofs`, `Scheduler_proofs`, `Register_proofs`, `Broadcast_proofs`, `Logger_proofs`, `EventLoop_proofs` | theorems |

### Journal: state and actions

Each action is one access to shared memory, in program order; `ppc`, `rpc` and `cpc` are
the program counters, `loc`, `rloc` and `cloc` the local variables. A call of `appendBS`
is

    ReadMinBytesConsumed, ReadCleanPosition, [CleanTerm, CasCleanPosition],
    ReadActiveTermCount, ReadRawTail (AdminAction, BackPressure or on),
    ReadClaimTermCount, GetAndAddRawTail, then
      HeaderWrite, PutBS, CommitFrameType, CommitFrameLength, NotifyReader, or
      [PaddingHeader, PaddingType, PaddingLength], RotateReadRawTail,
      [CasRawTail], CasActiveTermCount

Local variables that no later step reads are set to 0, which keeps the state space small
without changing behaviour. Abstractions:

- Lengths are in words of 8 bytes, the size of a header and the alignment of frames. A
  payload is the number of its claim. Term ids are relative to the initial one, so their
  32-bit wrap-around, which the subtraction in the code copes with, does not appear.
- `writeInt64` of a header, and the zeroing of a range, are one step each. `cleanBufferTo`
  zeroes the payload and then the header; both words are equally dead for readers unless
  the cleaner is late.
- The two counters of `readMinBytesConsumed` are read in one step; they only grow.
- A bytestring is read in one step. `readJournal` copies before its compare-and-swap,
  `readManyJournalSC` processes in place.
- A call that ends with an error (`BackPressure`, `AdminAction`, `Rotation`) returns to
  idle; callers retry by calling again.

The buffers are those that `startJournal` builds. It passes `offset + termLength` as the
length of a slice, so term buffer *i* holds *i + 1* terms, and only that of partition 0 ends
where its term does. Frames are therefore claimed past the end of the second term as soon as
it is full, on the words of the third one, which then writes over them. That is the run
`mp_overrun`. What holds of memory and delivery holds before: `ClaimsInsideTerm`, no frame
has been claimed past the end of its term, is the condition of these properties. It covers a
term that is padded, its rotation, its cleaning and the whole of the next term, with any
number of threads, and it is over for good with the first frame that leaves its term, at the
latest when the second term is full. `TermsInStep`, `ClaimsOrdered` and `BackPressureBound`
have no condition and speak about the whole life of a journal.

### Scheduler: state and actions

The variables are the fields of the scheduler's data map. The agenda is a set of entries
numbered in the order in which they were enqueued; the next one is the earliest, and of
those the one enqueued first, which is what the stable priority queue yields. `LoadTest`,
`RegisterExecutor`, `CreateRun`, `Run` and `Reset` are the commands; `Tick`, `Idle`,
`DropOrDelay` and `Execute` are the branches of `execute-or-tick!` and `execute!`, each
followed, in the same action, by `enqueue-timestamped-entries`. A command that the handler
refuses leaves the state alone and has no action. `trace` is what is written to the
database; `req` numbers the requests so that properties can tell them apart.

External is the executor: in one step it answers with at most `MaxBatch` messages to
components (`Batches`) and with answers to clients whose request the component has been
given (`owed`). A timer is a message to oneself. Latencies come from `Delays`.

Assumptions about the callers, which the command-line tool and the Go library keep:
commands are sent one at a time, and `step!` and `run!` only while a run is active. The
defaults that `create-run!` overwrites are then never used. It sets the minimum time to any
of `MinTimes`; tick frequency and maximum time are constants. One executor has all the components, so every target of a
message is in the topology.

### Executor and debugger

`Executor` adds to the scheduler's step what the handler does: `handler` and `handleTimer`
dump the heap before and after, record the difference (`jsonDiff`, a JSON merge patch) and
the lines in the reactor's buffer (`steps`, the table execution_step); `handleTick` and
`handleInits` record nothing. A reactor may leave any heap behind; `silent` notes the ones
that changed where nobody records. `Debugger` conjoins each step of the scheduler with the
handler it calls (`RunStep`), notes the real heaps (`truth`), and once the run is over opens
the view: what `GetEvents`, `Heaps`, `GetLogMessages` and the crash information compute is
an operator over the database, and the keys are actions (`SelectRow`, `SelectReactor`,
`goToFrom`, `SelectSent`). A callback of a table with a row that does not exist is a panic,
and so is the selection of a sent message where the table has none (`SelectNoMessage`): the
callback limits the row to the number of messages, which is one past the last.

`Sequence` draws one arrow per step. A line of text is kept as counts of characters before
and after the middle of each participant; names and messages are their lengths. `Stroke`
and `Column` are what an eye sees; `WriteRepeat` is the doubling algorithm, over indices.

### Event loop

`findIncoming` takes a request from the socket to its channel, `Accept`, `Scan` and
`EndOfConnection` are the admin goroutine, `RunAdmin` and `RunCommand` the two cases of the
select. The channels are unbuffered, so at most one item is offered on each. A reactor is
the sequence of requests it has handled since it was built. `RunCommand` is the whole turn:
reactor, log, clock, and the reply over a connection dialled for it, which panics when the
scheduler does not listen; a write that fails is ignored, and the reply is lost. Requests may
be broken: a line that is too long ends its connection silently, one that is no JSON ends the
program in the goroutine of the socket, and one of an unknown kind in the main loop, after it
was logged. The scheduler (with its Lamport clock) and the administrators are external. That
the scheduler receives a reply and merges its time is part of `RunCommand`: a request that it
sends while a reply is under way has the same time as one that it sends just before that reply
is made, and the loop cannot tell the two apart.

### Register and broadcast

The scheduler is the environment: it delivers what is in `network` in any order, loses some,
and expires clients. In `Register` a behaviour picks a version and an executor. Time is
relative (`age` of a request, time left of a timer), and follows what the executors really
pass: `TimePico.UnmarshalJSON` assigns the parsed time only when parsing failed, so on the
HTTP executor a request is received in the year 1, and on the event loop every time is zero.
`Restart` is the event loop's restart fault. A write appends its own number, so that values
tell writes apart. In `Broadcast` a behaviour picks a round; crashed nodes get nothing more
and what they sent still arrives.

### Logger and services

`Service` is one command per terminal, step by step: `UpCheck`, `UpStart`, `UpWrite`;
`DownRead`, `DownKill`, `DownRemove`. Every process it starts is a logger of `Logger`:
`FillBuffer`, `ReadLine` (or `Unblock` when the queue was full) and `writeIndex` are the main
thread, `dequeue` and `CommitBatch` the worker. All loggers read one pipe, a block of lines at
a time, which dies with its process. A line without three fields or of no known type ends the
main thread, an entry without three fields and any error of the database the worker in its
transaction; both are the death of the process. Whether a line or an entry can be parsed is a
choice made when it is parsed, which happens once. Blocks are whole lines: a line that two
loggers tear between them is left out. In `Service` a program may fail to start, and the error
of writing the pid is ignored as in the code; the file then is what it was, or unreadable,
which `up` takes for a service that does not run.

## 3. Runs

| Run | Instance | Properties |
|---|---|---|
| `mp` | 2 producers and 1 reader, or 1 producer and 2 racing readers, terms of 8 words, frames of 3, 5 claims, fair threads; 117 thousand states | `DeliveredInsideTerms` (`TypeOK`, `DeliveredInOrder`), `MemoryInsideTerms` (`UnreadIntact`, `ClaimsAreClean`), both while `ClaimsInsideTerm`; `BackPressureBound`, `TermsInStep`, `ClaimsOrdered`; `ImplementsLog`, the refinement, and `EveryCommitDelivered`, both while `ClaimsInsideTerm` |
| `sc` | 2 producers and the single consumer, polling or waiting, 5 claims, fair threads; 390 thousand | `ConsumerInv` (`TypeOK`, `ProcessedInOrder`), `NoLostWakeup`, `ProcessedUnlessAsleep`, all while `ClaimsInsideTerm` |
| `sched` | 2 clients, 2 components, omissions and crashes, a minimum time on a tick or before it, a maximum time, `run!` fair; 1.2 million | `TypeOK`, `OneRequestPerClient`, `LogicalTimeIdentifiesSteps`, `HistoryIsSequential` (`ProcessesAreSequential`, `AnsweredNeverExpires`), `EveryRequestHandledOnce`, `NothingInThePast`, `HistoryComplete`, `RunReturns` |
| `register` | 2 clients, front ends 1 to 4 on the HTTP executor and 4 on the event loop, 1 loss, 1 restart; 1.6 million | `RegisterInv` (`TypeOK`, `WritesAppliedOnce`), `AckedWritesLast` (`AckedWritesOnBoth`, `ReadsSeeAckedWrites`), `AskerAnsweredUnlessVersion3`, `TimersCoverRequests` |
| `broadcast` | all five rounds, 2 omissions, 1 crash, fair delivery; 50 thousand | `AckInv` (`TypeOK`, `StopsOnlyWhenDelivered`, `NothingUnexpected`), `DeliversDespiteFaults` (`RetryDelivers`, `PassedOn`, `ClassicSurvivesOneLoss`), `SilentInTheEnd` |
| `logger` | 2 terminals, 2 commands, 2 processes, a queue of 1, a batch of 2, 2 entries, 2 questions, 1 mishap, fair workers; 1.9 million | `RunningIsInPidFile`, `LoggerInv` (`TypeOK`, `NothingLostButByDeath`), `IndexIsTrue` (`IndexIsARow`, `ClientAssertion`), `EverythingPersisted` |
| `eventloop` | 2 reactors, 2 requests of any kind, broken ones included, 2 administrators, fair goroutines; 1.3 million | `LoopInv` (`TypeOK`, `LogsAreWhole`, `RepliesFollowRequests`, `InputsAreAnswered`), `AnswersMatchCommands`, `EveryRequestAnswered` |
| `debugger` | 1 client, 2 components, heaps of 1 field, 1 unrecorded change, faults, several runs; 235 thousand | `DebuggerInv` (`DebuggerTypeOK`, `HeapsAreTrue`), `LinesAreOfTheStep`, `CrashesShownInPlace`, `NavigationIsSafe` |
| `sequence` | every diagram of up to 3 arrows between 3 participants, short and long names and messages, crashes; 360 thousand | `DiagramInv` (`TypeOK`, `RepeatsAreExact`, `LifelinesAreStraight`, `DeadStayDead`), `ArrowsConnect`, `MarkIsShown` |

A name with others in parentheses is the conjunction of those: an invariant and what it rests
on. Runs that end in a counterexample, each against a statement of the repository:

| Run | What happens |
|---|---|
| `mp_overrun` | One producer appends frames of half a term, and one reader reads. Frames 5 and 6 are claimed past the end of the second term, on the words of the third; frame 7, the first of the third term, is written over frame 5 before that is read, and the reader is given its bytes, not yet committed, in the place of frame 5. |
| `sched_late` | A request expires, the client sends the next one, and the answer to the first is recorded as an answer to the second (and closes it). |
| `eventloop_reset` | An administrator resets the reactors and is told "Reactors restarted"; `Executor.Reset` has a value receiver, so its assignment is lost, and the reactors are the old ones. |

**Bounds.**

- *Journal.* Three partitions are fixed by the code. Frames of 3 words in terms of 8 leave 2 words
  for padding; the first two claims fill term 0, the next two term 1, and the fifth, which does
  not fit there any more, is claimed past the term's end: so `mp` and `sc` cover the life of a
  journal up to the overrun, the cleaning of term 0 included, and go one frame beyond. `mp_overrun` has frames that fill terms exactly and enough claims for the reader to meet
  the overrun. Two producers suffice for all races of one claim against another, two readers for
  those on the compare-and-swap; the proofs cover any number.
- *Scheduler.* The time-out (3), the delay (2), the tick frequency (3) and the latencies
  (1, 2) make requests be delayed before they expire and ticks fall between messages; of the
  minimum times 2 is between ticks and 3 on one; the
  maximum time (5) cuts some runs short and lets others finish. `MaxEntries` limits how many
  entries are enqueued before the components fall silent, not how many are delayed.
- *Register.* A write and then a read, by one client, whose first request may have expired, or
  by two. One loss starts every retry; copies that arrive late need no more.
- *Broadcast.* Two omissions separate the round that survives one from those that survive any
  number; one crash is what the repository's tests use.
- *Logger.* A queue of 1 is full as soon as an entry waits; a batch of 2 can be left half full;
  two processes are enough for a second logger on the same pipe, and two commands for one on top
  of the other.
- *Event loop.* Two requests can be separated by a reset; two administrators can be accepted
  one after the other while commands of the first are still on the channel. `MCSessions` has
  every command, a line that is none, and sessions of two and of three commands.
- *Debugger.* Each step may change a heap to any value, null included; one unrecorded change
  shows that only its reactor is affected. The second request comes while the first is open and
  after a tick, so that it is delayed, and in one run dropped, at a logical time at which
  components have sent messages.
- *Sequence.* Three participants are the least with one between two others, left and right of
  it; lengths 1 and 12 are below and above the width of a box.

**Deadlock** is checked where the system never stops (`mp`, `mp_overrun`, `sched`, `register`). Elsewhere it may: the waiting consumer sleeps once the bound on claims is
reached, a broadcast falls silent, the event loop quits, terminals have no more commands,
a debugger has nothing to select, a diagram is finished.

**Fairness.** In the journal, weak fairness of every thread that is inside a call: the
operating system schedules threads. Nobody is obliged to append. In the scheduler, weak
fairness of a step while `run!` is under way: it is a loop without waiting. Reset and the
other commands are never fair. In `Broadcast`, weak fairness of timers and of the delivery
of each message, because the scheduler works its agenda off in the order of times; omissions
and crashes are not fair, and a message that is lost is sent again before it is delivered
only as often as `MaxLosses` allows. In `Logger` the worker goroutine is scheduled, with its
time-out; the main thread, clients and commands are not obliged to anything. In `EventLoop`
the goroutine of the socket and the main loop are scheduled, and Go's select is random
between channels that are ready; nothing is assumed of administrators.

**Exceptions that properties state.** The journal's properties about memory and delivery end with
the first frame that leaves its term (`ClaimsInsideTerm`). `NoLostWakeup` and
`ProcessedUnlessAsleep` except a consumer at the end of a term; `RunReturns` a run with an empty
agenda whose next tick is at the minimum time (`StuckAtMinTime`); `AskerAnsweredUnlessVersion3`
the third front end, and it says who is answered, not with what; `AckedWritesOnBoth` and
`ReadsSeeAckedWrites` sessions whose number a restarted front end has given out twice;
`LogsAreWhole` the log of a loop that has panicked; `RepliesFollowRequests` orders replies
unless the log was reset with a request under way; `EveryRequestAnswered` excepts requests whose line
is too long and those after the loop has ended, and an answer may still be lost in the write;
`RunningIsInPidFile` speaks of commands that do not overlap and of pids that could be written;
`IndexIsARow` and `ClientAssertion` of one logger and of clients that stay alive; `HeapsAreTrue`
of reactors that did not change in Init or at a tick; `NavigationIsSafe` names the two panics and
leads to a sender whose logical time is the number of its row; `LifelinesAreStraight` is about
more than one participant. Each exception is a behaviour of the code; section 5 lists them.

## 4. Proofs

`tlapm` checks every module named `*_proofs`. The assumptions are those stated in the
modules: `JournalAssumption` (a positive, even term length; frames from two words to half
a term, which `appendBS` asserts), `ProducersAssumption` (finitely many of them),
`ReaderAssumption`, `ConsumerAssumption`, `SchedulerAssumption` (clients and components are
disjoint; times are natural numbers; the tick frequency is positive), `ExecutorAssumption`
(null is none of the other values; new reactors have a heap), `RegisterAssumption`
(client 0 exists; the deployments are the ones the repository has), `BroadcastAssumption`,
`ServiceAssumption`, `LoggerAssumption` (sizes are positive), `EventLoopAssumption`. Bounds
on claims, batches, entries, commands, losses, restarts and requests are arbitrary natural
numbers.

| Theorem | States | Holds for every |
|---|---|---|
| `RotationThreadSafe`, `ClaimsTakenInOrder` (with `readJournal` and with the single consumer) | `TermsInStep`, `ClaimsOrdered` | number of producers and readers, term length, frames, claims and laps |
| `BackPressureHolds` (both) | `BackPressureBound` | the same, any finite number of producers |
| `TypeCorrect` (both) | `AppendTypeOK` | the same |
| `MemoryIsSound`, `DeliveryIsSound`, `JournalImplementsLog` | `MemoryInsideTerms`, `DeliveredInsideTerms`, `ImplementsLog` | number of producers, subscribers and racing readers, term length, frames; while no frame has left its term |
| `ConsumerIsSound`, `WakeupsArrive`, `MemoryIsSound` (with the single consumer) | `ConsumerInv`, `NoLostWakeup`, `MemoryInsideTerms` | number of producers, term length, frames, polling or waiting; while no frame has left its term |
| `NeverBackInTime`, `TickAssertionHolds`, `ClockNeverGoesBack`, `ClientsWaitTheirTurn` | `NothingInThePast`, `TickAssertion`, `ClockMonotone`, `OneRequestPerClient` | test, set of faults, latencies, answers of the executor |
| `SchedulerTypes`, `LogicalTimesAreSteps`, `ClientsAreSequential`, `RequestsAreHandledOnce`, `FinishedRunsAreClosed` | `TypeOK`, `LogicalTimeIdentifiesSteps`, `HistoryIsSequential`, `EveryRequestHandledOnce`, `HistoryComplete` | the same |
| `WritesAreAppliedOnce`, `AcknowledgedWritesLast`, `AskersAreAnswered`, `TimersCover` | `RegisterInv`, `AckedWritesLast`, `AskerAnsweredUnlessVersion3`, `TimersCoverRequests` | test, number of clients, losses and restarts, deployment |
| `AcksAreTrue` | `AckInv` | number of omissions and crashes |
| `PidFileIsTrue` | `RunningIsInPidFile` | number of terminals, commands and processes; failed starts |
| `EntriesAreKept`, `IndexesAreRows` | `LoggerInv`, `IndexIsTrue` | size of the queue, the batch and the pipe; number of entries and questions |
| `ShownHeapsAreTrue`, `LogsAreOfTheirStep`, `CrashesAreInPlace`, `KeysAreSafe` | `DebuggerInv`, `LinesAreOfTheStep`, `CrashesShownInPlace`, `NavigationIsSafe` | test, set of faults, latencies, fields and values of heaps, and what reactors do to them |
| `RequestsAreHandledWhole`, `OneAnswerToTheFirst` | `LoopInv`, `AnswersMatchCommands` | number of reactors, requests and administrators, and what these write |

None of these properties is inductive; what follows is why each holds.

**Journal: claims and rotations.** The invariant `ClaimInv` of `JournalAppend_proofs` adds to
`TermsInStep` and `ClaimsOrdered` what a producer knows at each label:

- `KnowsTerm`: the term count it carries is at most the active one, and the term id it
  carries belongs to it;
- `ClaimsActive`: the partition it is about to claim in held the active term when it
  looked, so it holds that term or a later one;
- `RotatesFull`, `RotatesOnce`: a producer that rotates saw its term full, and the raw
  tail it will compare with is the one of the term it replaces;
- `OldTermsFull`: the tail of every partition but the active one, and the next one during
  a rotation, is at or past its end, so nobody can claim in a term that was left;
- `ClaimsBehindTail`: every claim ends at or before the tail of its term.

With these a fetch-and-add in an old partition cannot succeed, so a successful one starts
at the tail of the latest term, behind all claims. The proof has one step per action;
`ClaimStep`, `CasTailStep` and `CasCountStep` are the ones that do something, `QuietStep`
covers the rest, and `ClaimInvRead` the steps of any reader.

**Journal: back pressure.** A producer checks the limit, and moves the tail later; how far
can all of them together move it? `BackInv` follows the *front*, the tail of the newest term:
the active one or, between the two compare-and-swaps of `rotateLog`, the next one. `Credit`
is the set of producers that may still move the front: those that passed the check, and those
that will pass it because the term they know has been left and ended below their limit.
`WithinLimit` says that the front is below the limit plus two frames per producer, less one
for each in `Credit`. A claim moves the front by a frame and takes its producer out of
`Credit`; a producer that enters `Credit` saw the front itself below the limit, unless it
looked between the two compare-and-swaps. For that case `EarlyFrames` bounds the front of a
term that is not active yet: only producers that slept since its partition was last active
(`Early`) can have claimed in it, one frame each. Counting uses the library's theorems on
cardinalities, hence `ProducersAssumption`.

**Journal: memory and delivery.** The theorems about the contents of memory are of the form "as long
as `ClaimsInsideTerm`", and so is their invariant, `InsideInv == ClaimsInsideTerm => JournalInv`. A
step that leads to a state with `ClaimsInsideTerm` comes from one (`InsideBefore`), so what has to be
shown is that such a step keeps `JournalInv`. Its parts, next to `ClaimInv`:

- `LayoutInv`: the claims follow each other from position 0 on, each where the one before it
  ends or at the start of the next term (`Adjacent`), the last one ends at the front; a
  producer that writes is the only owner of a claim that is not committed. `FirstTerms` says
  why the buffers matter: the front is in the first two terms, and in the second it has not
  been moved past the end, since the buffer of partition 1 turns no claim away there
  (`AddsInside`). So only the first term is padded and rotated, and no partition is used twice.
- `PlaceInv`: no subscriber is past the front or past an uncommitted claim (`Behind`), and the
  one producer that pads does so in the gap of the first term (`OwnsGap`, `OnePads`).
- `MemInv`: every word. The header of an uncommitted frame is zero or has a negative length,
  a committed frame is whole until consumed, a gap that is not consumed holds zero or padding,
  everything behind the front is zero, and a producer's frame or padding is written as far as
  its label says (`Written`, `Padded`). What a cleaner zeroes is before the position of every
  subscriber, however late it is.
- `TypeInv`: readers trust the lengths they find in memory, so that their variables keep their
  types needs that no length leads out of the partitions (`ReadsInside`).
- `ReadInv`: what a subscriber was given is the payloads of the first claims, and its position
  is the end of the last of them, or past the gap behind it (`AtFrame`); a reader whose offset
  is still its subscriber's position holds the type, the length and the bytes of exactly that
  frame (`UpToDate`), and one whose offset is behind loses the compare-and-swap.

Each part is shown to be kept by every step of a producer (`LayoutProduce`, `MemInvProduce`,
which hold for any reader) and of a reader (`SkipStep`, `ReadStep`). The refinement follows:
under `JournalInv` a successful fetch-and-add is the abstract claim, the write of a frame's
length the commit, a successful compare-and-swap past a frame the read of the next entry, and
everything else a stutter.

**Journal: the single consumer.** The parts about the producers are shared with `JournalMP`.
`readManyJournalSC` skips padding by the absolute value of its length, so that it may pass a gap whose
producer has not written the last word of it, and the words of that gap may be cleaned before it does;
this is why `GapsKept` and `Padded` speak of gaps that are not consumed. `SCInv` adds what the consumer
knows at each label (`Knows`): its offset is its position; the type it has seen is the one in memory; a
frame that it processes is committed, and is the next one; a padding it skips has the length of the
gap, whatever its sign. Between processing a frame and moving past it the consumer is one frame ahead
of its position (`InHand`, `Passed`).

That no wake-up is lost: a consumer that waits has read to an offset of a term that the partition it
watches has held (`WaitsAt`). If the tail still has that offset when it goes to sleep, and the offset is
short of the term's end, the term is the newest one, since older ones are full, so the consumer is at
the front and has read the log. Every later claim leaves its producer on the way to `notify` until it
has filled the notifier (`Sleeps`, `WakeStep`).

**Scheduler: time.** `SchedInv` has the two properties `NothingInThePast` and
`OneRequestPerClient` together with the numbering of entries (`Numbered`: numbers are
unique and not above the counter, which shows that the entry that becomes a request is no
longer in the agenda) and the emptiness of a scheduler that has just been started. The
lemma `Preserved` states once what a step has to do to keep it; each branch of `step!` is
shown to do that. `TickAssertion` and `ClockMonotone` follow from `NothingInThePast` and are
stated by theorems only.

**Scheduler: history.** `HistoryInv` relates the agenda, the open requests and the trace:
every request of the test is in the agenda or in the trace and never in both
(`AgendaToExecute`, `NoneForgotten`, `ExecutedOnce`); an open request was executed and has no
answer yet (`AnsweredWereExecuted`, `WaitingUnanswered`); an executed one is closed by a later
row or open (`ClosedOrWaiting`); and logical times in the trace and in the agenda are not
ahead of the logical clock (`KeptSoFar`, `SentSoFar`). A step appends several rows at once:
expirations, the entry, answers and, at the end of a run, the requests that are still open.
`HistoryStep` describes such a step as the history sees it, and the lemmas show first that
each branch of `step!` is one and then that every one keeps `HistoryInv`.

**Executor and debugger** (second half of `Scheduler_proofs`). `ShownInv` adds to the invariants
of the scheduler `RecordInv`, what the trace, the table execution_step and the real heaps say
of each other:

- `TimesInv`: events are in the order of their logical times; several can share one, but an event
  that was executed has a later time than everything before it, and its component had not
  crashed by then; a message was sent by the component that executed the event with the time of
  its sending, if there is one.
- `HeapsRecorded`: the heap of a component that never changed unrecorded differs between two
  events only if it executed the second one.
- `StepsRecorded`, `LinesRecorded`: there is exactly one row per executed event, in order, with the
  difference between the heaps before and after it, and its lines are some of Init and the one of
  the step.

A step of the scheduler appends expired requests and answers with the logical time before it,
at most one delivery, and answers and expired requests with the time after it (`Adds`);
`TickAdds`, `DropAdds` and `ExecuteAdds` show that for each branch of `step!`, `QuietAfter` and
`RecordedAfter` that such a step keeps the record. What the debugger computes from the record is
recursive: rows are a selection of the trace, heaps a fold of patches, a log a concatenation.
The induction theorems of the library with a predicate as parameter are out of the provers' reach,
`WFMin`, which has a set instead, is not: `LeastNumber` and `InductionUpTo` follow from it, and
`Iterates`, that a recursive function over `0 .. N` exists. `RowsList` then says what
`GetNetworkTrace` selects, `LogOfStep` that a log has the lines of one step, and `HeapOfRow` that a
row leads from the true heap to the true heap, also where the patch of an event is applied again
at a later row with its time (`PatchLeadsThere`).

**Register.** `BaseInv` says that everything on its way stems from a request: a message or an
ongoing request is one a client made, a response answers a request of its session, a register
acknowledges only what it has applied, and its table of sessions is that of the writes in its
value. `AckedInv` adds for versions 3 and 4 that a register for which the front end no longer
waits has the write (`NotWaitedForHasWrite`) and that a response to a read under way already
has every write that was acknowledged when the read was made (`ResponsesSeeAckedWrites`).
`AskerInv` adds that an answered session is closed in every version but the third.

**Broadcast.** That an acknowledgement may stop its receiver needs that its sender is in the
receiver's table, hence the strengthening `SentToNeighbours` (a message goes to a neighbour, so
whoever acknowledges it is one) and `Tables` (tables keep their neighbours).

**Service and logger.** `ServiceInv`: undisturbed, that is without overlaps and with pids that could be
written, one command runs at a time, and at each of its steps it knows every running process
(`CommandKnows`). `LoggersInv` (`Kept`): what a process
read is, in order, its rows in the table, its batch, its queue, and the entry in its hands when
the queue is full. `IndexInv`: with one logger the client and the logger take turns; where the
question is (not asked, in the pipe or read ahead, in the logger's hands, answered) says which
entries are before it (`Dialogue`), and the index counts what was read (`Counted`). What the
logger has read ahead and the pipe are one sequence there (`Stream`).

**Event loop.** `RequestInv`: the requests sent are those handled, then the one on the channel, then
those in the socket (`Flow`), and the next answer will be later than the last one, because the
loop's clock or the requests to come are (`NextIsLater`), unless a reset came in between.
`AdminInv`: connections are accepted in turn, the command on the channel is the last line
scanned, and while a connection is open none of its commands has been run.

**Only model-checked**, and why:

- `Sequence`. A diagram is a fold of lines of text over the participants, within a fold over the
  arrows; what `DiagramInv`, `ArrowsConnect` and `MarkIsShown` say of single columns would need
  the induction of the debugger's proofs once for each of them.
- All liveness properties, which the prover does not handle.

## 5. Observations

Behaviours of the code that the models reach and no property of a passing run excludes.

- *Term buffers* (`Journal.hs:126`, `startJournal`). In the second term frames are claimed beyond
  the end of the term, because the buffer's capacity is two terms; the next term is written over
  them (run `mp_overrun`).
- *Late cleaners* (`Journal/Internal.hs:114`). A producer reads the clean position and is
  descheduled; others clean, wrap round and commit; then it zeroes their frame. It takes a
  partition that is used twice, hence a third term, and by then frames have left their terms.
- *Late padders* (`Journal/MP.hs:205`, `412`). The single consumer skips padding whose length is still
  negative. If the producer that writes it sleeps before the last write, others can clean the
  term, wrap round and claim the same words, and the late length turns up in the header of
  somebody's frame. It takes a partition that is used twice as well.
- *Cleaning by partition number* (`Journal/Internal.hs:108`). `cleanBufferTo` cleans when the
  clean position and the slowest subscriber are in different partitions. Producers that have
  passed the limit check and sleep can carry the log three terms on, to the partition of the
  clean position; nothing is cleaned then, and the next term opens on old frames. These three
  would remain if the slices were cut to one term each.
- *Overshooting the limit* (`Journal/MP.hs:330`). A producer that sleeps before its
  fetch-and-add until its partition gets the next term moves the tail of a term that is not
  active yet. The others meanwhile check the limit against the active term, so with three
  producers the tail can pass the limit by more than one frame each: with terms of 8 words,
  frames of 2 and two sleepers that wake between the compare-and-swaps of `rotateLog`, it
  ends four frames above the limit. Two frames each is the bound that is proved; nothing in
  the code relates it to the term length.
- *A consumer asleep* (`Journal/MP.hs:173`). The consumer reads a term to its end and finds
  offset and position equal; it waits for the tail of that term to change, which never
  happens although entries are committed to the next term.
- *An idle loop* (`pure.clj:523`). If the agenda is empty and the next tick is exactly the
  minimum time, `min-time?` (strict) is false and no further tick is due, so `run!` repeats
  the idle step for ever. The run `sched` reaches it with the minimum time 3; `RunReturns`
  excepts it as `StuckAtMinTime`.
- *Crashed components* (`pure.clj:682`). `tick!` reaches crashed components, and what they
  send is scheduled and delivered.
- *Parsed times* (`lib/time.go:17`). The parsed time is dropped, so on the HTTP executor a
  request is due for resending at the first tick; the front ends cope with it.
- *Front end 1* ends the process when a client whose request expired asks again; *front
  end 3* answers client 0 when the response to a closed session comes (check
  `OnlyTheAskerIsAnswered` instead of `AskerAnsweredUnlessVersion3`).
- *Restarted front ends* count sessions from 0 again, and the registers take their writes
  for old ones and acknowledge them (`executor-event-loop/executor.go:164`). A response to a
  request from before the restart may close a session of the same number, so that its client is
  answered with what another one asked for.
- *Two commands at once* start two services, or leave one without a pid file, and so does a pid
  that cannot be written (`cli/cmd/logger.go:45`).
- *Lost replies* (`executor-event-loop/communication.go:37`). A reply whose write fails is gone, and
  nobody notices.
- *Unrecorded heaps* (`executor/executor.go:91`). What a reactor changes in Init or at a tick
  is missing from every heap the debugger shows.
- *Rows and times* (`debugger/cmd/detsys-debug/main.go:145`). A logical time is used as the
  number of a row; with expired requests or dropped messages they differ.
- *No message to select* (`debugger/cmd/detsys-debug/main.go:340`). A row of the table of sent messages
  is limited to their number and used as an index that begins at 0: when there is none the
  debugger panics.
- *Senders at a tick.* The messages that components send at a tick have a logical time, but no event
  of the trace has been executed with it. The next entry, if it is dropped because its client is
  busy, gets that time too, and "f" on one of the messages leads to the dropped request, whose
  addressee may have had nothing to do with it. Hence the condition `TimeIsRow` in
  `NavigationIsSafe`.
- *One participant*: its annotation line is half a box too wide.

## 6. Plan

In order of importance:

1. `SchedulerHandler`: two concurrent commands over the unsynchronised state of
   `handler.clj`; commands in the wrong order.
2. `Dumblog`: front end, worker and snapshots on top of `JournalLog`. Needs the file
   lifecycle of the journal (re-opening a file with a frame that was claimed and not
   committed).
3. `ActorMap`: the event loop of the runtime prototype with promises, time-outs and the
   bounded queue; `Supervisor`.
4. Pure algorithms against references: `ltl` evaluation, `ldfi` failure specifications.

## 7. Not modelled

The single-producer API of the journal, its CRC, metrics and byte-buffer primitives, and
what is left of a journal file after a crash (it depends on which pages the kernel wrote
back); the marshalling of messages; the random number generator of latencies (any latency
is allowed); SQL and its migrations; the HTTP servers; the widgets of the debugger and the
new debugger; commands of the command-line tool that post one request or call another
program; statistics, the comparison of two logs, the generator script, the memory-map
prototype and the course material. Reasons are in PROJECT.json.
