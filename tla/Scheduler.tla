----------------------------- MODULE Scheduler -----------------------------
(***************************************************************************)
(* The scheduler of the test framework (scheduler.pure): a discrete-event  *)
(* simulation of the network between clients and the components of the     *)
(* system under test.  One action per command, and one per branch of       *)
(* step!, which run! repeats until the run is finished.                    *)
(*                                                                         *)
(* Simulated time is an integer, counted from init-clock.  Nothing is said *)
(* about the content of messages; an entry from a component to itself is a *)
(* message or a timer, which the scheduler treats alike.  The executor     *)
(* with the system under test is external: it answers a request with any   *)
(* few messages, and it answers clients whose request it has received.     *)
(* There is one executor (:total-executors is 1), with all the components. *)
(***************************************************************************)
EXTENDS Integers, Sequences, FiniteSets, SequencesExt

CONSTANTS
    Components,     \* the components of the topology
    Clients,        \* the clients, client:0, client:1, ...
    TestAgenda,     \* the entries of the test, as a sequence
    FaultChoices,   \* the sets of faults a run can be created with
    TickFrequency,  \* create-run!: time between two ticks
    MinTimes,       \* create-run!: a run goes on at least until one of these
    MaxTime,        \* create-run!: and at most until then, unless it is 0
    ClientTimeout,  \* :client-timeout-ms
    ClientDelay,    \* :client-delay-ms
    Delays,         \* latencies of messages, times to timers
    MaxBatch,       \* bound: messages in one answer of the executor
    MaxEntries      \* bound: the executor is silent after so many entries

Faults == [kind : {"omission", "crash"}, from : Clients \cup Components,
           to : Components \cup {""}, at : Nat]

ASSUME SchedulerAssumption ==
    /\ Components \cap Clients = {}
    /\ TestAgenda \in Seq([from : Clients, to : Components, at : Nat])
    /\ FaultChoices \subseteq SUBSET Faults
    /\ TickFrequency \in Nat \ {0}
    /\ MinTimes \subseteq Nat /\ MaxTime \in Nat
    /\ ClientTimeout \in Nat /\ ClientDelay \in Nat
    /\ Delays \subseteq Nat
    /\ MaxBatch \in Nat /\ MaxEntries \in Nat

VARIABLES
    state,           \* :state, between two commands or two steps of run!
    running,         \* is run! under way?
    agenda,          \* :agenda, a set of numbered entries
    nr,              \* how many entries have been enqueued
    clock,           \* :clock
    nextTick,        \* :next-tick
    logicalClock,    \* :logical-clock
    clientRequests,  \* :client-requests, the requests without an answer
    faults,          \* :faults
    minTimeNs,       \* :min-time-ns
    trace,           \* the NetworkTrace events of the run in the database
    owed             \* external: the requests the components have yet to answer

data == <<agenda, nr, clock, nextTick, logicalClock, clientRequests>>
vars == <<state, running, data, faults, minTimeNs, trace, owed>>

---------------------------------------------------------------------------
(* Entries.  The priority queue of the agenda is stable: of the entries    *)
(* for the same time it yields the one enqueued first.  A client's entry   *)
(* has the number req of its request and no :sent-logical-time.            *)

NotSent == -1

Entry(n, from, to, at, sent, req) ==
    [nr |-> n, from |-> from, to |-> to, at |-> at, sent |-> sent, req |-> req]

TestEntries ==
    {Entry(n, TestAgenda[n].from, TestAgenda[n].to, TestAgenda[n].at, NotSent, n) :
        n \in 1 .. Len(TestAgenda)}

IsPeek(e) ==
    /\ e \in agenda
    /\ \A f \in agenda : e.at < f.at \/ (e.at = f.at /\ e.nr <= f.nr)

(* What the components in C answer: some messages, each with its latency.  *)
Batches(C) ==
    {<<>>} \cup
    (IF nr >= MaxEntries THEN {}
     ELSE UNION {[1 .. n -> [from : C, to : Components, after : Delays]] :
                    n \in 1 .. MaxBatch})

(* timestamp-entries, with the logical time at which the batch was sent.   *)
Timestamped(batch, n, now, sent) ==
    {Entry(n + i, batch[i].from, batch[i].to, now + batch[i].after, sent, 0) :
        i \in 1 .. Len(batch)}

---------------------------------------------------------------------------
(* Entries of the trace. *)

Traced(kind, from, to, sent, recv, dropped, req) ==
    [kind |-> kind, from |-> from, to |-> to, sent |-> sent, recv |-> recv,
     dropped |-> dropped, req |-> req]

Delivery(e, recv, dropped) ==
    IF e.from \in Clients
    THEN Traced("invoke", e.from, e.to, logicalClock, recv, dropped, e.req)
    ELSE Traced("message", e.from, e.to, e.sent, recv, dropped, 0)

(* expire-clients! of the given requests. *)
Infos(requests, time) ==
    LET s == SetToSeq(requests)
    IN  [i \in 1 .. Len(s) |->
            Traced("info", s[i].to, s[i].from, time, time, FALSE, s[i].req)]

Oks(answers, recv) ==
    LET s == SetToSeq(answers)
    IN  [i \in 1 .. Len(s) |->
            Traced("ok", s[i].by, s[i].from, recv - 1, recv, FALSE, s[i].req)]

---------------------------------------------------------------------------
(* init-data *)
InitData ==
    /\ agenda = {} /\ nr = 0
    /\ clock = 0 /\ nextTick = 0 /\ logicalClock = 0
    /\ clientRequests = {}

Init ==
    /\ state = "started" /\ running = FALSE
    /\ InitData
    /\ faults = {} /\ minTimeNs = 0 /\ trace = <<>> /\ owed = {}

(* The executor is deployed anew for every run. *)
Reset ==
    /\ ~running
    /\ state' = "started"
    /\ agenda' = {} /\ nr' = 0
    /\ clock' = 0 /\ nextTick' = 0 /\ logicalClock' = 0
    /\ clientRequests' = {}
    /\ faults' = {} /\ minTimeNs' = 0 /\ trace' = <<>> /\ owed' = {}
    /\ UNCHANGED running

LoadTest ==
    /\ state = "started"
    /\ state' = "test-prepared"
    /\ agenda' = agenda \cup TestEntries
    /\ nr' = nr + Len(TestAgenda)
    /\ UNCHANGED <<running, clock, nextTick, logicalClock, clientRequests,
                   faults, minTimeNs, trace, owed>>

(* register-executor! with get-initial-events!. *)
RegisterExecutor == \E batch \in Batches(Components) :
    /\ state = "test-prepared"
    /\ state' = "inits-prepared"
    /\ agenda' = agenda \cup Timestamped(batch, nr, clock, logicalClock)
    /\ nr' = nr + Len(batch)
    /\ UNCHANGED <<running, clock, nextTick, logicalClock, clientRequests,
                   faults, minTimeNs, trace, owed>>

CreateRun == \E fs \in FaultChoices, min \in MinTimes :
    /\ state = "inits-prepared"
    /\ state' = "ready"
    /\ faults' = fs /\ minTimeNs' = min
    /\ UNCHANGED <<running, data, trace, owed>>

Active == state \in {"ready", "requesting"}

Run ==
    /\ Active /\ ~running
    /\ running' = TRUE
    /\ UNCHANGED <<state, data, faults, minTimeNs, trace, owed>>

---------------------------------------------------------------------------
(* The end of every step: enqueue-timestamped-entries, with the agenda a   *)
(* and the trace tr so far.  When the run is over the new entries are      *)
(* thrown away, and every request without an answer is recorded as such.   *)
minTime(now) == minTimeNs < now

maxTime(now) == MaxTime # 0 /\ MaxTime < now

(* Mutant: a run that is out of time does not expire its clients. *)
EnqueueWithoutExpiry(a, tr, entries) ==
    LET finished == (entries = {} /\ a = {} /\ minTime(clock')) \/ maxTime(clock')
    IN  /\ state' = IF finished THEN "finished" ELSE "requesting"
        /\ agenda' = IF finished THEN a ELSE a \cup entries
        /\ trace' = IF finished /\ ~maxTime(clock')
                    THEN tr \o Infos(clientRequests', logicalClock') ELSE tr
        /\ running' = (running /\ ~finished)

(* Mutant: the state stays :responding. *)
EnqueueKeepsResponding(a, tr, entries) ==
    /\ state' = "responding"
    /\ agenda' = a \cup entries
    /\ trace' = tr
    /\ UNCHANGED running

EnqueueTimestampedEntries(a, tr, entries) ==
    LET finished == (entries = {} /\ a = {} /\ minTime(clock')) \/ maxTime(clock')
    IN  /\ state' = IF finished THEN "finished" ELSE "requesting"
        /\ agenda' = IF finished THEN a ELSE a \cup entries
        /\ trace' = IF finished THEN tr \o Infos(clientRequests', logicalClock') ELSE tr
        /\ running' = (running /\ ~finished)

---------------------------------------------------------------------------
(* step!: execute-or-tick! and then enqueue-timestamped-entries.           *)

(* Mutant: the tick does not move the logical clock. *)
TickWithoutLogicalTime == \E batch \in Batches(Components) :
    /\ Active
    /\ IF agenda = {} THEN nextTick < minTimeNs ELSE \A e \in agenda : nextTick < e.at
    /\ clock' = nextTick
    /\ nextTick' = nextTick + TickFrequency
    /\ nr' = nr + Len(batch)
    /\ UNCHANGED <<logicalClock, clientRequests, faults, minTimeNs, owed>>
    /\ EnqueueTimestampedEntries(agenda, trace,
                                 Timestamped(batch, nr, clock', logicalClock + 1))

(* tick!: every component, crashed or not, is told the time. *)
Tick == \E batch \in Batches(Components) :
    /\ Active
    /\ IF agenda = {} THEN nextTick < minTimeNs ELSE \A e \in agenda : nextTick < e.at
    /\ clock' = nextTick
    /\ nextTick' = nextTick + TickFrequency
    /\ logicalClock' = IF batch = <<>> THEN logicalClock ELSE logicalClock + 1
    /\ nr' = nr + Len(batch)
    /\ UNCHANGED <<clientRequests, faults, minTimeNs, owed>>
    /\ EnqueueTimestampedEntries(agenda, trace,
                                 Timestamped(batch, nr, clock', logicalClock + 1))

(* Mutant: the clock stays where it is. *)
IdleKeepsClock ==
    /\ Active
    /\ agenda = {} /\ nextTick >= minTimeNs
    /\ UNCHANGED <<data, faults, minTimeNs, owed>>
    /\ EnqueueTimestampedEntries({}, trace, {})

(* Nothing to execute and the minimum time has passed. *)
Idle ==
    /\ Active
    /\ agenda = {} /\ nextTick >= minTimeNs
    /\ clock' = nextTick
    /\ UNCHANGED <<nr, nextTick, logicalClock, clientRequests, faults, minTimeNs, owed>>
    /\ EnqueueTimestampedEntries({}, trace, {})

componentCrashed(component, time) ==
    \E f \in faults : f.kind = "crash" /\ f.from = component /\ f.at <= time

shouldDrop(e, time) ==
    \/ [kind |-> "omission", from |-> e.from, to |-> e.to, at |-> time] \in faults
    \/ componentCrashed(e.to, time)

expiredClients(now) == {r \in clientRequests : r.at + ClientTimeout < now}

(* Mutant: a client's next entry does not wait for the answer to its last. *)
NeverBusy(e, requests) == FALSE

(* Has the client of the entry a request without an answer? *)
Busy(e, requests) == \E r \in requests : r.from = e.from

Delayed(e) == Entry(nr + 1, e.from, e.to, e.at + ClientDelay, e.sent, e.req)

(* Mutant: the entry of a busy client is not put back. *)
DequeueForGood(e, busy) == agenda \ {e}

(* fetch-new-entry!: the agenda without the entry, which comes back later  *)
(* when its client is busy.                                                *)
Dequeue(e, busy) ==
    IF busy
    THEN (agenda \ {e}) \cup {Delayed(e)}
    ELSE agenda \ {e}

(* Mutant: the entry is executed although a tick is due before it. *)
DueAnyway(e) == IsPeek(e)

(* The next entry, unless a tick comes before it. *)
Due(e) == IsPeek(e) /\ nextTick >= e.at

(* execute! of an entry that is dropped, or delayed; both if it is dropped *)
(* while its client waits for an answer.                                   *)
DropOrDelay == \E e \in agenda :
    LET expired  == expiredClients(e.at)
        requests == clientRequests \ expired
        busy     == Busy(e, requests)
        time     == IF busy THEN logicalClock ELSE logicalClock + 1
        dropped  == shouldDrop(e, time)
    IN  /\ Active /\ Due(e)
        /\ busy \/ dropped
        /\ clock' = e.at
        /\ logicalClock' = time
        /\ nr' = IF busy THEN nr + 1 ELSE nr
        /\ clientRequests' = requests
        /\ EnqueueTimestampedEntries(
               Dequeue(e, busy),
               trace \o Infos(expired, logicalClock)
                     \o (IF dropped THEN <<Delivery(e, time, TRUE)>> ELSE <<>>),
               {})
        /\ UNCHANGED <<nextTick, faults, minTimeNs, owed>>

(* remove-client-requests: by the name of the client. *)
removeClientRequests(requests, answers) ==
    {r \in requests : \A a \in answers : a.from # r.from}

(* execute! of an entry that is kept: the executor answers with a batch of *)
(* messages and with answers to some of the requests the component holds.  *)
Execute == \E e \in agenda :
    LET expired  == expiredClients(e.at)
        requests == clientRequests \ expired
        time     == logicalClock + 1
        isClient == e.from \in Clients
        holding  == owed \cup IF isClient
                              THEN {[from |-> e.from, by |-> e.to, req |-> e.req]} ELSE {}
    IN  /\ Active /\ Due(e)
        /\ ~Busy(e, requests) /\ ~shouldDrop(e, time)
        /\ \E batch \in Batches({e.to}), answers \in SUBSET {o \in holding : o.by = e.to} :
            /\ clock' = e.at
            /\ logicalClock' = IF answers = {} THEN time ELSE time + 1
            /\ nr' = nr + Len(batch)
            /\ clientRequests' = removeClientRequests(
                                    requests \cup (IF isClient THEN {e} ELSE {}), answers)
            /\ owed' = holding \ answers
            /\ EnqueueTimestampedEntries(
                   agenda \ {e},
                   trace \o Infos(expired, logicalClock) \o <<Delivery(e, time, FALSE)>>
                         \o Oks(answers, time + 1),
                   Timestamped(batch, nr, e.at, time))
        /\ UNCHANGED <<nextTick, faults, minTimeNs>>

Step == Tick \/ Idle \/ DropOrDelay \/ Execute

Next ==
    \/ LoadTest \/ RegisterExecutor \/ CreateRun
    \/ Run \/ Step
    \/ Reset

Spec == Init /\ [][Next]_vars

(* run! is a loop: while it is under way, step follows step. *)
FairSpec == Spec /\ WF_vars(running /\ Step)

---------------------------------------------------------------------------
(* Properties *)

States == {"started", "test-prepared", "inits-prepared", "ready", "requesting", "finished"}

Entries == [nr : Nat, from : Clients \cup Components, to : Components, at : Nat,
            sent : Int, req : Nat]

\* Every variable stays in its range.
TypeOK ==
    /\ state \in States /\ running \in BOOLEAN
    /\ agenda \subseteq Entries /\ nr \in Nat
    /\ clock \in Nat /\ nextTick \in Nat /\ logicalClock \in Nat
    /\ clientRequests \subseteq Entries
    /\ faults \subseteq Faults /\ minTimeNs \in Nat
    /\ trace \in Seq([kind : {"invoke", "message", "info", "ok"},
                      from : Clients \cup Components, to : Clients \cup Components,
                      sent : Int, recv : Nat, dropped : BOOLEAN, req : Nat])
    /\ owed \subseteq [from : Clients, by : Components, req : Nat]

\* No entry of the agenda is in the past and no tick is: whatever was delayed,
\* expired or thrown away, the simulation never has to go back in time.
NothingInThePast ==
    /\ clock <= nextTick
    /\ \A e \in agenda : clock <= e.at

\* The assertion of tick!: when a tick follows, there are entries to execute or
\* the minimum time has not passed.
TickAssertion ==
    agenda = {} /\ nextTick < minTimeNs => ~minTime(clock)

\* Simulated time never goes back, except when the scheduler is reset.
ClockMonotone == [][state' # "started" => clock' >= clock]_vars

\* A client has at most one request without an answer, and it is one whose
\* entry has left the agenda.
OneRequestPerClient ==
    /\ \A r, s \in clientRequests : r.from = s.from => r = s
    /\ \A r \in clientRequests, e \in agenda : r.nr # e.nr

Kept == {i \in DOMAIN trace : trace[i].kind \in {"invoke", "message"} /\ ~trace[i].dropped}

Invokes == {i \in Kept : trace[i].kind = "invoke"}

\* Logical times identify steps: a message is received after it was sent, no two
\* entries are executed at the same time, and what was sent at the time at which
\* an entry was executed was sent by the component that executed it.
LogicalTimeIdentifiesSteps ==
    \A i, j \in Kept :
        /\ trace[i].sent < trace[i].recv
        /\ i < j => trace[i].recv < trace[j].recv
        /\ trace[j].kind = "message" /\ trace[j].sent = trace[i].recv
             => trace[j].from = trace[i].to

Completes(k, i) ==
    trace[k].kind \in {"ok", "info"} /\ trace[k].to = trace[i].from

\* The history the checker reads is one of sequential processes: between two
\* requests of a client that were executed, the first one is answered or expires.
ProcessesAreSequential ==
    \A i, j \in Invokes : i < j /\ trace[i].from = trace[j].from =>
        \E k \in i + 1 .. j - 1 : Completes(k, i)

\* A finished run leaves no request open in the history.
HistoryComplete ==
    state = "finished" =>
        \A i \in Invokes : \E k \in i + 1 .. Len(trace) : Completes(k, i)

\* A request that was answered does not expire later, not even when the answer
\* and the client's next request come in the same step or the run ends with it.
AnsweredNeverExpires ==
    \A i, k \in DOMAIN trace :
        i < k /\ trace[i].kind = "ok" /\ trace[k].kind = "info"
            => trace[i].req # trace[k].req

\* The clients of the history are sequential: each request but the last is
\* closed before the next one, and none is closed twice.
HistoryIsSequential == ProcessesAreSequential /\ AnsweredNeverExpires

\* Delaying neither loses nor repeats a request: none is executed twice, and a
\* run that ends by itself, its maximum time not reached, has executed or dropped
\* every one.
EveryRequestHandledOnce ==
    /\ \A i, j \in Invokes : trace[i].req = trace[j].req => i = j
    /\ state = "finished" /\ ~maxTime(clock) =>
           \A n \in 1 .. Len(TestAgenda) :
               \E i \in DOMAIN trace : trace[i].kind = "invoke" /\ trace[i].req = n

(* Nothing is left to do and the next tick falls on the minimum time itself:  *)
(* it is too late for that tick and too early for the end, so step! repeats   *)
(* itself.  With the minimum time 0 of the repository's tests that is a run   *)
(* whose agenda is empty before its first tick.                               *)
StuckAtMinTime == agenda = {} /\ nextTick = minTimeNs

\* run! returns, unless the agenda is empty when the next tick falls exactly on
\* the minimum time: nothing else, neither ticks nor delayed entries nor answers,
\* keeps it going for ever.
RunReturns == running ~> (~running \/ StuckAtMinTime)

\* An answer belongs to the last request of its client in the history: the
\* checker fills in the arguments of an answer from that request.
AnswersLastInvoke ==
    \A k \in DOMAIN trace : trace[k].kind = "ok" =>
        \E i \in 1 .. k - 1 :
            /\ trace[i].kind = "invoke" /\ trace[i].from = trace[k].to
            /\ trace[i].req = trace[k].req
            /\ \A j \in i + 1 .. k - 1 :
                 ~(trace[j].kind = "invoke" /\ trace[j].from = trace[k].to)
=============================================================================
