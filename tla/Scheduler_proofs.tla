-------------------------- MODULE Scheduler_proofs --------------------------
(***************************************************************************)
(* What the scheduler's step! keeps true of simulated time and of the      *)
(* clients' requests, for every test, every set of faults and whatever the *)
(* executor answers.                                                       *)
(*                                                                         *)
(* Behind it, from "Induction over numbers" on: what the debugger shows of *)
(* a run of the scheduler and the executor is what happened.               *)
(***************************************************************************)
EXTENDS Debugger, FiniteSetTheorems, SequenceTheorems, WellFoundedInduction, TLAPS

(* Before the test is loaded there is nothing in the scheduler. *)
StartedEmpty ==
    state = "started" => agenda = {} /\ nr = 0 /\ clock = 0 /\ clientRequests = {}

(* The part of TypeOK the other invariants need. *)
DataTypeOK ==
    /\ agenda \subseteq Entries /\ nr \in Nat
    /\ clock \in Nat /\ nextTick \in Nat /\ logicalClock \in Nat
    /\ clientRequests \subseteq Entries

(* Entries are numbered in the order in which they were enqueued. *)
Numbered ==
    /\ \A e \in agenda : e.nr <= nr
    /\ \A r \in clientRequests : r.nr <= nr
    /\ \A e, f \in agenda : e.nr = f.nr => e = f

SchedInv ==
    /\ DataTypeOK
    /\ StartedEmpty
    /\ NothingInThePast
    /\ Numbered
    /\ OneRequestPerClient

---------------------------------------------------------------------------
\* A batch of the executor is a finite sequence of messages with latencies.
LEMMA BatchType ==
    ASSUME NEW C, C \subseteq Components, NEW batch \in Batches(C)
    PROVE  /\ Len(batch) \in Nat
           /\ \A i \in 1 .. Len(batch) :
                batch[i] \in [from : Components, to : Components, after : Nat]
<1> DEFINE X == [from : C, to : Components, after : Delays]
<1>1. Delays \subseteq Nat
  BY SchedulerAssumption
<1>2. CASE batch = <<>>
  BY <1>2
<1>3. CASE batch \in UNION {[1 .. n -> X] : n \in 1 .. MaxBatch}
  <2>1. PICK n \in 1 .. MaxBatch : batch \in [1 .. n -> X]
    BY <1>3
  <2>2. n \in Nat
    BY SchedulerAssumption
  <2>3. batch \in Seq(X)
    <3>1. Seq(X) = UNION {[1 .. k -> X] : k \in Nat}
      BY SeqDef, Zenon
    <3> HIDE DEF X
    <3> QED BY <3>1, <2>1, <2>2, Zenon
  <2>4. Len(batch) = n
    BY <2>1, <2>2, <2>3
  <2> QED
    BY <1>1, <2>1, <2>2, <2>4
<1> QED
  BY <1>2, <1>3 DEF Batches

\* What timestamp-entries returns: entries not before now, numbered after n.
LEMMA TimestampedType ==
    ASSUME NEW C, C \subseteq Components, NEW batch \in Batches(C),
           NEW n \in Nat, NEW now \in Nat, NEW sent \in Int
    PROVE  /\ n + Len(batch) \in Nat
           /\ \A e \in Timestamped(batch, n, now, sent) :
                /\ e \in Entries
                /\ now <= e.at
                /\ n < e.nr /\ e.nr <= n + Len(batch)
           /\ \A e, f \in Timestamped(batch, n, now, sent) : e.nr = f.nr => e = f
<1>1. /\ Len(batch) \in Nat
      /\ \A i \in 1 .. Len(batch) :
           batch[i] \in [from : Components, to : Components, after : Nat]
  BY BatchType
<1>2. ASSUME NEW i \in 1 .. Len(batch)
      PROVE  LET e == Entry(n + i, batch[i].from, batch[i].to,
                            now + batch[i].after, sent, 0)
             IN  e \in Entries /\ now <= e.at /\ e.nr = n + i
  BY <1>1, <1>2 DEF Entry, Entries
<1> QED
  BY <1>1, <1>2 DEF Timestamped, Entry

\* enqueue-timestamped-entries adds nothing but the new entries to the agenda
\* and leaves the state :finished or :requesting.
LEMMA EnqueueType ==
    ASSUME NEW a, NEW tr, NEW entries, EnqueueTimestampedEntries(a, tr, entries)
    PROVE  agenda' \subseteq a \cup entries /\ state' # "started"
BY DEF EnqueueTimestampedEntries

---------------------------------------------------------------------------
\* The initial state satisfies the invariant.
LEMMA SchedInit == Init => SchedInv
BY DEF Init, InitData, SchedInv, DataTypeOK, StartedEmpty, NothingInThePast,
       Numbered, OneRequestPerClient

\* A step preserves the invariant if it keeps some of the entries, none of them
\* before the new time, adds some that are numbered after the old ones, and leaves
\* at most one request per client, none of them an entry it keeps.
LEMMA Preserved ==
    ASSUME SchedInv, state' # "started",
           NEW a, a \subseteq agenda,
           NEW entries, agenda' \subseteq a \cup entries,
           nr' \in Nat, nr <= nr',
           \A e \in entries : e \in Entries /\ clock' <= e.at /\ nr < e.nr /\ e.nr <= nr',
           \A e, f \in entries : e.nr = f.nr => e = f,
           clock' \in Nat, nextTick' \in Nat, logicalClock' \in Nat, clock' <= nextTick',
           \A e \in a : clock' <= e.at,
           clientRequests' \subseteq Entries,
           \A r \in clientRequests' : r.nr <= nr /\ \A e \in a : r.nr # e.nr,
           \A r, s \in clientRequests' : r.from = s.from => r = s
    PROVE  SchedInv'
<1> USE DEF SchedInv
<1>1. nr \in Nat /\ \A e \in a \cup entries : e \in Entries /\ e.nr \in Nat
  BY DEF DataTypeOK, Entries
<1>2. \A e \in a : e.nr <= nr
  BY DEF Numbered
<1>3. \A r \in clientRequests' : r.nr \in Nat
  BY DEF Entries
<1>4. DataTypeOK'
  BY <1>1 DEF DataTypeOK
<1>5. StartedEmpty' /\ NothingInThePast'
  BY DEF StartedEmpty, NothingInThePast
<1>6. Numbered'
  <2>1. \A e \in agenda' : e.nr <= nr'
    BY <1>1, <1>2
  <2>2. \A r \in clientRequests' : r.nr <= nr'
    BY <1>1, <1>3
  <2>3. ASSUME NEW e \in a \cup entries, NEW f \in a \cup entries, e.nr = f.nr
        PROVE  e = f
    <3>1. CASE e \in a /\ f \in a
      BY <2>3, <3>1 DEF Numbered
    <3>2. CASE e \in entries /\ f \in entries
      BY <2>3, <3>2
    <3>3. CASE e \in a /\ f \in entries
      BY <1>1, <1>2, <2>3, <3>3
    <3>4. CASE e \in entries /\ f \in a
      BY <1>1, <1>2, <2>3, <3>4
    <3> QED
      BY <3>1, <3>2, <3>3, <3>4
  <2> QED
    BY <2>1, <2>2, <2>3 DEF Numbered
<1>7. OneRequestPerClient'
  <2>1. ASSUME NEW r \in clientRequests', NEW e \in a \cup entries
        PROVE  r.nr # e.nr
    BY <1>1, <1>3, <2>1
  <2> QED
    BY <2>1 DEF OneRequestPerClient
<1> QED
  BY <1>4, <1>5, <1>6, <1>7

\* The commands before a run, and reset, preserve the invariant.
LEMMA SchedCommands ==
    ASSUME SchedInv, LoadTest \/ RegisterExecutor \/ CreateRun \/ Run \/ Reset
    PROVE  SchedInv'
<1>1. CASE LoadTest
  <2>1. Len(TestAgenda) \in Nat /\ \A n \in 1 .. Len(TestAgenda) :
            TestAgenda[n] \in [from : Clients, to : Components, at : Nat]
    <3> DEFINE T == [from : Clients, to : Components, at : Nat]
    <3>1. TestAgenda \in Seq(T)
      BY SchedulerAssumption
    <3> HIDE DEF T
    <3>2. Len(TestAgenda) \in Nat /\ \A n \in 1 .. Len(TestAgenda) : TestAgenda[n] \in T
      BY <3>1
    <3> QED
      BY <3>2 DEF T
  <2>2. /\ TestEntries \subseteq Entries
        /\ \A e \in TestEntries : 0 <= e.at /\ e.nr \in 1 .. Len(TestAgenda)
        /\ \A e, f \in TestEntries : e.nr = f.nr => e = f
    BY <2>1 DEF TestEntries, Entry, Entries, NotSent
  <2>3. /\ agenda' = TestEntries /\ nr' = Len(TestAgenda) /\ clock' = 0
        /\ nextTick' = nextTick /\ clientRequests' = {} /\ state' = "test-prepared"
        /\ logicalClock' = logicalClock
    BY <1>1, <2>1 DEF LoadTest, SchedInv, StartedEmpty
  <2> QED
    BY <2>1, <2>2, <2>3 DEF SchedInv, DataTypeOK, StartedEmpty, NothingInThePast,
                            Numbered, OneRequestPerClient
<1>2. CASE RegisterExecutor
  <2>1. PICK batch \in Batches(Components) :
            /\ state' = "inits-prepared"
            /\ agenda' = agenda \cup Timestamped(batch, nr, clock, logicalClock)
            /\ nr' = nr + Len(batch)
            /\ UNCHANGED <<clock, nextTick, logicalClock, clientRequests>>
    BY <1>2 DEF RegisterExecutor
  <2>2. DataTypeOK /\ Len(batch) \in Nat
    BY BatchType DEF SchedInv
  <2>3. /\ \A e \in Timestamped(batch, nr, clock, logicalClock) :
             e \in Entries /\ clock <= e.at /\ nr < e.nr /\ e.nr <= nr + Len(batch)
        /\ \A e, f \in Timestamped(batch, nr, clock, logicalClock) :
             e.nr = f.nr => e = f
    BY <2>2, TimestampedType DEF DataTypeOK
  <2>4. clock <= nextTick /\ \A e \in agenda : clock <= e.at
    BY DEF SchedInv, NothingInThePast
  <2>5. /\ \A r \in clientRequests : r.nr <= nr /\ \A e \in agenda : r.nr # e.nr
        /\ \A r, s \in clientRequests : r.from = s.from => r = s
    BY DEF SchedInv, OneRequestPerClient, Numbered
  <2>6. nr' \in Nat /\ nr <= nr'
    BY <2>1, <2>2 DEF DataTypeOK
  <2> HIDE DEF SchedInv
  <2> QED
    BY <2>1, <2>2, <2>3, <2>4, <2>5, <2>6, Preserved DEF DataTypeOK
<1>3. CASE CreateRun \/ Run
  BY <1>3 DEF CreateRun, Run, Active, data, SchedInv, DataTypeOK, StartedEmpty,
              NothingInThePast, Numbered, OneRequestPerClient
<1>4. CASE Reset
  BY <1>4 DEF Reset, SchedInv, DataTypeOK, StartedEmpty, NothingInThePast,
              Numbered, OneRequestPerClient
<1> QED
  BY <1>1, <1>2, <1>3, <1>4

---------------------------------------------------------------------------
\* What the invariant says of a step that leaves the requests and the agenda's
\* entries alone.
LEMMA Standing ==
    ASSUME SchedInv
    PROVE  /\ DataTypeOK /\ clock <= nextTick
           /\ \A e \in agenda : clock <= e.at /\ e.nr <= nr
           /\ \A r \in clientRequests : r.nr <= nr /\ \A e \in agenda : r.nr # e.nr
           /\ \A r, s \in clientRequests : r.from = s.from => r = s
BY DEF SchedInv, NothingInThePast, Numbered, OneRequestPerClient

\* tick! and the idle step preserve the invariant.
LEMMA SchedTick ==
    ASSUME SchedInv, Tick \/ Idle
    PROVE  SchedInv' /\ clock' >= clock
<1> USE Standing
<1>1. CASE Tick
  <2>1. PICK batch \in Batches(Components) :
            /\ IF agenda = {} THEN nextTick < minTimeNs ELSE \A e \in agenda : nextTick < e.at
            /\ clock' = nextTick
            /\ nextTick' = nextTick + TickFrequency
            /\ logicalClock' = IF batch = <<>> THEN logicalClock ELSE logicalClock + 1
            /\ nr' = nr + Len(batch)
            /\ UNCHANGED clientRequests
            /\ EnqueueTimestampedEntries(agenda, trace,
                   Timestamped(batch, nr, clock', logicalClock + 1))
    BY <1>1 DEF Tick
  <2> DEFINE new == Timestamped(batch, nr, nextTick, logicalClock + 1)
  <2>2. Len(batch) \in Nat
    BY BatchType
  <2>3. /\ \A e \in new : e \in Entries /\ nextTick <= e.at /\ nr < e.nr
                          /\ e.nr <= nr + Len(batch)
        /\ \A e, f \in new : e.nr = f.nr => e = f
    <3>1. nr \in Nat /\ nextTick \in Nat /\ logicalClock + 1 \in Int
      BY DEF DataTypeOK
    <3> QED
      BY <3>1, TimestampedType
  <2>4. agenda' \subseteq agenda \cup new /\ state' # "started"
    BY <2>1, EnqueueType
  <2>5. /\ nr' \in Nat /\ nr <= nr' /\ clock' \in Nat /\ nextTick' \in Nat
        /\ logicalClock' \in Nat /\ clock' <= nextTick' /\ clock' >= clock
    BY <2>1, <2>2, SchedulerAssumption, SMTT(30) DEF DataTypeOK
  <2>6. \A e \in agenda : clock' <= e.at
    BY <2>1 DEF DataTypeOK, Entries
  <2> HIDE DEF new
  <2> QED
    BY <2>1, <2>3, <2>4, <2>5, <2>6, Preserved DEF DataTypeOK
<1>2. CASE Idle
  <2>1. /\ clock' = nextTick /\ agenda = {}
        /\ UNCHANGED <<nr, nextTick, logicalClock, clientRequests>>
        /\ EnqueueTimestampedEntries({}, trace, {})
    BY <1>2 DEF Idle
  <2>2. agenda' \subseteq {} \cup {} /\ state' # "started"
    BY <2>1, EnqueueType
  <2>3. SchedInv'
    BY <2>1, <2>2, Preserved DEF DataTypeOK
  <2> QED
    BY <2>1, <2>3 DEF DataTypeOK
<1> QED
  BY <1>1, <1>2

\* An entry that is due is not before the clock, and nothing is before it.
LEMMA DueEntry ==
    ASSUME SchedInv, NEW e \in agenda, Due(e)
    PROVE  /\ e \in Entries /\ e.at \in Nat /\ e.nr \in Nat
           /\ clock <= e.at /\ e.at <= nextTick
           /\ \A f \in agenda : e.at <= f.at
           /\ \A f \in agenda \ {e} : f.nr # e.nr
           /\ \A f \in agenda : f \in Entries /\ f.at \in Nat /\ f.nr \in Nat
BY DEF SchedInv, DataTypeOK, Entries, Due, IsPeek, NothingInThePast, Numbered

\* An entry that is dropped or delayed preserves the invariant.
LEMMA SchedDropOrDelay ==
    ASSUME SchedInv, DropOrDelay
    PROVE  SchedInv' /\ clock' >= clock
<1>1. PICK e \in agenda :
          LET requests == clientRequests \ expiredClients(e.at)
              busy     == Busy(e, requests)
          IN  /\ Due(e)
              /\ clock' = e.at
              /\ logicalClock' = IF busy THEN logicalClock ELSE logicalClock + 1
              /\ nr' = IF busy THEN nr + 1 ELSE nr
              /\ clientRequests' = requests
              /\ UNCHANGED nextTick
              /\ \E tr : EnqueueTimestampedEntries(Dequeue(e, busy), tr, {})
  BY DEF DropOrDelay
<1> DEFINE requests == clientRequests \ expiredClients(e.at)
           busy     == Busy(e, requests)
           a        == agenda \ {e}
           new      == IF busy THEN {Delayed(e)} ELSE {}
<1>2. agenda' \subseteq a \cup new /\ state' # "started"
  BY <1>1, EnqueueType DEF Dequeue
<1>3. /\ e \in Entries /\ e.at \in Nat /\ e.nr \in Nat
      /\ clock <= e.at /\ e.at <= nextTick
      /\ \A f \in agenda : e.at <= f.at
  BY <1>1, DueEntry
<1>4. nr \in Nat /\ ClientDelay \in Nat
  BY Standing, SchedulerAssumption DEF DataTypeOK
<1>5. Delayed(e) \in Entries /\ e.at <= Delayed(e).at /\ Delayed(e).nr = nr + 1
  BY <1>3, <1>4 DEF Entries, Entry, Delayed
<1>6. /\ nr' \in Nat /\ nr <= nr' /\ clock' \in Nat /\ nextTick' \in Nat
      /\ logicalClock' \in Nat /\ clock' <= nextTick'
  BY <1>1, <1>3, <1>4, Standing DEF DataTypeOK
<1>7. \A f \in new : f \in Entries /\ clock' <= f.at /\ nr < f.nr /\ f.nr <= nr'
  <2>1. clock' = e.at /\ nr' = IF busy THEN nr + 1 ELSE nr
    BY <1>1
  <2>2. CASE busy
    <3> HIDE DEF busy
    <3> QED
      BY <1>4, <1>5, <2>1, <2>2
  <2> QED
    BY <2>2
<1>8. \A f, g \in new : f.nr = g.nr => f = g
  OBVIOUS
<1>9. /\ clientRequests' \subseteq Entries
      /\ \A r \in clientRequests' : r.nr <= nr /\ \A f \in a : r.nr # f.nr
      /\ \A r, s \in clientRequests' : r.from = s.from => r = s
  BY <1>1, Standing DEF DataTypeOK
<1>10. a \subseteq agenda /\ \A f \in a : clock' <= f.at
  BY <1>1, <1>3
<1> HIDE DEF new, a
<1> QED
  BY <1>1, <1>2, <1>3, <1>6, <1>7, <1>8, <1>9, <1>10, Preserved

\* An entry that is executed preserves the invariant.
LEMMA SchedExecute ==
    ASSUME SchedInv, Execute
    PROVE  SchedInv' /\ clock' >= clock
<1>1. PICK e \in agenda :
          LET requests == clientRequests \ expiredClients(e.at)
              time     == logicalClock + 1
          IN  /\ Due(e) /\ ~Busy(e, requests)
              /\ UNCHANGED nextTick
              /\ \E batch \in Batches({e.to}) : \E answers :
                   /\ clock' = e.at
                   /\ logicalClock' = IF answers = {} THEN time ELSE time + 1
                   /\ nr' = nr + Len(batch)
                   /\ clientRequests' = removeClientRequests(
                          requests \cup (IF e.from \in Clients THEN {e} ELSE {}), answers)
                   /\ \E tr : EnqueueTimestampedEntries(agenda \ {e}, tr,
                                  Timestamped(batch, nr, e.at, time))
  BY ZenonT(60) DEF Execute
<1> DEFINE requests == clientRequests \ expiredClients(e.at)
           time     == logicalClock + 1
           a        == agenda \ {e}
<1>2. PICK batch \in Batches({e.to}) :
          /\ clock' = e.at
          /\ logicalClock' \in {time, time + 1}
          /\ nr' = nr + Len(batch)
          /\ clientRequests' \subseteq requests \cup {e}
          /\ \E tr : EnqueueTimestampedEntries(a, tr, Timestamped(batch, nr, e.at, time))
  BY <1>1 DEF removeClientRequests
<1> DEFINE new == Timestamped(batch, nr, e.at, time)
<1>3. /\ e \in Entries /\ e.at \in Nat /\ e.nr \in Nat
      /\ clock <= e.at /\ e.at <= nextTick
      /\ \A f \in agenda : e.at <= f.at
      /\ \A f \in a : f.nr # e.nr
  BY <1>1, DueEntry
<1>4. DataTypeOK /\ {e.to} \subseteq Components
  BY <1>3, Standing DEF Entries
<1>5. Len(batch) \in Nat
  BY <1>4, BatchType
<1>6. /\ \A f \in new : f \in Entries /\ e.at <= f.at /\ nr < f.nr /\ f.nr <= nr + Len(batch)
      /\ \A f, g \in new : f.nr = g.nr => f = g
  <2>1. nr \in Nat /\ e.at \in Nat /\ logicalClock + 1 \in Int
    BY <1>3, <1>4 DEF DataTypeOK
  <2> QED
    BY <1>4, <2>1, TimestampedType
<1>7. agenda' \subseteq a \cup new /\ state' # "started"
  BY <1>2, EnqueueType
<1>8. /\ nr' \in Nat /\ nr <= nr' /\ clock' \in Nat /\ nextTick' \in Nat
      /\ logicalClock' \in Nat /\ clock' <= nextTick'
  BY <1>1, <1>2, <1>3, <1>4, <1>5 DEF DataTypeOK
<1>9. \A r \in clientRequests' : /\ r \in Entries
                                 /\ r.nr <= nr /\ \A f \in a : r.nr # f.nr
  BY <1>2, <1>3, <1>4, Standing DEF DataTypeOK
<1>10. \A r, s \in clientRequests' : r.from = s.from => r = s
  <2>1. \A r \in requests : r.from # e.from
    BY <1>1 DEF Busy
  <2> QED
    BY <1>2, <2>1, Standing
<1>11. a \subseteq agenda /\ \A f \in a : clock' <= f.at
  BY <1>2, <1>3
<1>12. /\ \A f \in new : f \in Entries /\ clock' <= f.at /\ nr < f.nr /\ f.nr <= nr'
       /\ \A f, g \in new : f.nr = g.nr => f = g
  BY <1>2, <1>6
<1> HIDE DEF new, a
<1> QED
  BY <1>2, <1>3, <1>7, <1>8, <1>9, <1>10, <1>11, <1>12, Preserved

\* Every step of the scheduler preserves the invariant, and only reset moves the
\* clock back.
LEMMA SchedNext ==
    ASSUME SchedInv, [Next]_vars
    PROVE  SchedInv' /\ (state' # "started" => clock' >= clock)
<1>1. CASE LoadTest \/ RegisterExecutor \/ CreateRun \/ Run \/ Reset
  <2>1. state' # "started" => clock' = clock
    BY <1>1 DEF LoadTest, RegisterExecutor, CreateRun, Run, Reset, data
  <2> QED
    BY <1>1, <2>1, SchedCommands, Standing DEF DataTypeOK
<1>2. CASE Step
  BY <1>2, SchedTick, SchedDropOrDelay, SchedExecute DEF Step
<1>3. CASE UNCHANGED vars
  <2>1. SchedInv'
    BY <1>3 DEF vars, data, SchedInv, DataTypeOK, StartedEmpty, NothingInThePast,
                Numbered, OneRequestPerClient
  <2> QED
    BY <1>3, <2>1, Standing DEF vars, data, DataTypeOK
<1> QED
  BY <1>1, <1>2, <1>3 DEF Next

\* The invariant holds in every reachable state.
LEMMA SchedInvariant == Spec => []SchedInv
<1>1. SchedInv /\ [Next]_vars => SchedInv'
  BY SchedNext
<1> QED
  BY SchedInit, <1>1, PTL DEF Spec

---------------------------------------------------------------------------
\* Neither an entry of the agenda nor the next tick is ever before the clock of
\* the scheduler, whatever the executor answers and whatever faults are injected.
THEOREM NeverBackInTime == Spec => []NothingInThePast
<1>1. SchedInv => NothingInThePast
  BY DEF SchedInv
<1> QED
  BY SchedInvariant, <1>1, PTL

MinTimeOK == minTimeNs \in Nat

\* The minimum time of a run is a number.
LEMMA MinTimeType == Spec => []MinTimeOK
<1>1. Init => MinTimeOK
  BY DEF Init, MinTimeOK
<1>2. MinTimeOK /\ [Next]_vars => MinTimeOK'
  <2> SUFFICES ASSUME MinTimeOK, [Next]_vars PROVE MinTimeOK'
    OBVIOUS
  <2>1. CASE UNCHANGED vars
    BY <2>1 DEF vars, MinTimeOK
  <2>2. CASE LoadTest \/ RegisterExecutor \/ Run
    BY <2>2 DEF LoadTest, RegisterExecutor, Run, MinTimeOK
  <2>3. CASE CreateRun
    BY <2>3, SchedulerAssumption DEF CreateRun, MinTimeOK
  <2>4. CASE Reset
    BY <2>4 DEF Reset, MinTimeOK
  <2>5. CASE Tick \/ Idle
    BY <2>5 DEF Tick, Idle, MinTimeOK
  <2>6. CASE DropOrDelay \/ Execute
    BY <2>6 DEF DropOrDelay, Execute, MinTimeOK
  <2> QED
    BY <2>1, <2>2, <2>3, <2>4, <2>5, <2>6 DEF Next, Step
<1> QED
  BY <1>1, <1>2, PTL DEF Spec

\* The assertion at the head of tick! never fails.
THEOREM TickAssertionHolds == Spec => []TickAssertion
<1>1. SchedInv /\ MinTimeOK => TickAssertion
  BY DEF MinTimeOK, SchedInv, DataTypeOK, NothingInThePast, TickAssertion, minTime
<1> QED
  BY SchedInvariant, MinTimeType, <1>1, PTL

\* No step of a run moves the simulated clock back.
THEOREM ClockNeverGoesBack == Spec => ClockMonotone
<1>1. SchedInv /\ [Next]_vars => [state' # "started" => clock' >= clock]_vars
  BY SchedNext
<1> QED
  BY SchedInvariant, <1>1, PTL DEF Spec, ClockMonotone

\* A client never has two requests without an answer.
THEOREM ClientsWaitTheirTurn == Spec => []OneRequestPerClient
<1>1. SchedInv => OneRequestPerClient
  BY DEF SchedInv
<1> QED
  BY SchedInvariant, <1>1, PTL
---------------------------------------------------------------------------
(* The trace *)

TraceRecords ==
    [kind : {"invoke", "message", "info", "ok"},
     from : Clients \cup Components, to : Clients \cup Components,
     sent : Int, recv : Nat, dropped : BOOLEAN, req : Nat]

OwedRecords == [from : Clients, by : Components, req : Nat]

TraceTypeOK ==
    /\ state \in States /\ running \in BOOLEAN
    /\ faults \subseteq Faults
    /\ trace \in Seq(TraceRecords)
    /\ owed \subseteq OwedRecords
    /\ IsFiniteSet(clientRequests) /\ IsFiniteSet(owed)

(* Before a run there is no history, and the test is loaded by then. *)
NotYetRun ==
    state \in {"started", "test-prepared", "inits-prepared", "ready"} =>
        trace = <<>> /\ clientRequests = {} /\ owed = {}

(* A request and its client are those of the test. *)
OfTest(x) ==
    /\ x.from \in Clients
    /\ x.req \in 1 .. Len(TestAgenda) /\ x.from = TestAgenda[x.req].from

RequestsOfTest ==
    /\ \A r \in clientRequests : OfTest(r)
    /\ \A o \in owed : OfTest(o)
    /\ \A i \in Invokes : OfTest(trace[i])

(* A request is executed once. *)
ExecutedOnce == \A i, j \in Invokes : trace[i].req = trace[j].req => i = j

(* The clients' entries of the agenda are requests of the test, each of    *)
(* them there once and not executed yet.                                   *)
AgendaToExecute ==
    /\ \A e \in agenda : e.from \in Clients =>
          OfTest(e) /\ \A i \in Invokes : trace[i].req # e.req
    /\ \A e, f \in agenda : e.from \in Clients /\ f.from \in Clients /\ e.req = f.req => e = f

(* What waits for an answer, owes one or has got one, has been executed. *)
AnsweredWereExecuted ==
    /\ \A r \in clientRequests : \E i \in Invokes : trace[i].req = r.req
    /\ \A o \in owed : \E i \in Invokes : trace[i].req = o.req
    /\ \A k \in DOMAIN trace : trace[k].kind = "ok" =>
          \E i \in Invokes : trace[i].req = trace[k].req

(* A request that waits for an answer has none. *)
WaitingUnanswered ==
    \A r \in clientRequests, k \in DOMAIN trace :
        trace[k].kind = "ok" => trace[k].req # r.req

(* A request is closed in the history, or waits. *)
ClosedOrWaiting ==
    \A i \in Invokes :
        \/ \E k \in i + 1 .. Len(trace) : Completes(k, i)
        \/ \E r \in clientRequests : r.from = trace[i].from

(* Every request of the test is in the agenda or in the history. *)
NoneForgotten ==
    state # "started" => \A n \in 1 .. Len(TestAgenda) :
        \/ \E e \in agenda : e.from \in Clients /\ e.req = n
        \/ \E i \in DOMAIN trace : trace[i].kind = "invoke" /\ trace[i].req = n

FinishedEmpty == state = "finished" /\ ~ maxTime(clock) => agenda = {}

(* Logical times up to now. *)
KeptSoFar == \A i \in Kept : trace[i].recv <= logicalClock

SentSoFar ==
    \A e \in agenda : e.from \in Components =>
        /\ e.sent <= logicalClock
        /\ \A i \in Kept : trace[i].recv = e.sent => trace[i].to = e.from

(* What the requests and the trace say of each other. *)
ClosingInv ==
    /\ RequestsOfTest /\ ExecutedOnce /\ AnsweredWereExecuted
    /\ WaitingUnanswered /\ ClosedOrWaiting
    /\ ProcessesAreSequential /\ AnsweredNeverExpires /\ HistoryComplete

(* What the agenda says of them. *)
AgendaInv == AgendaToExecute /\ SentSoFar /\ NoneForgotten /\ FinishedEmpty

HistoryInv ==
    /\ TraceTypeOK /\ NotYetRun
    /\ ClosingInv /\ AgendaInv
    /\ KeptSoFar /\ LogicalTimeIdentifiesSteps

---------------------------------------------------------------------------
(* What a step adds to the trace: a segment of expired requests, the entry *)
(* if it is executed or dropped, a segment of answers and, when the run is *)
(* over, a segment of the requests without an answer.                      *)

InfoFor(x, r) == x.kind = "info" /\ x.to = r.from /\ x.req = r.req

OkFor(x, a) == x.kind = "ok" /\ x.to = a.from /\ x.req = a.req

InfoSegment(s, m, n, R) ==
    /\ \A k \in m + 1 .. n : \E r \in R : InfoFor(s[k], r)
    /\ \A r \in R : \E k \in m + 1 .. n : InfoFor(s[k], r)

OkSegment(s, m, n, A) ==
    /\ \A k \in m + 1 .. n : \E a \in A : OkFor(s[k], a)
    /\ \A a \in A : \E k \in m + 1 .. n : OkFor(s[k], a)

DeliverySegment(s, m, n, D) ==
    \/ D = {} /\ n = m
    \/ n = m + 1 /\ D = {s[n]}

OneRecord(s, D) == (s = <<>> /\ D = {}) \/ (\E d : s = <<d>> /\ D = {d})

SameUpTo(s, t, n) == \A k \in 1 .. n : t[k] = s[k]

Written(old, new, R, D, A, L) ==
    \E p, q, t \in Nat :
        /\ Len(old) <= p /\ p <= q /\ q <= t /\ t <= Len(new)
        /\ SameUpTo(old, new, Len(old))
        /\ InfoSegment(new, Len(old), p, R)
        /\ DeliverySegment(new, p, q, D)
        /\ OkSegment(new, q, t, A)
        /\ InfoSegment(new, t, Len(new), L)

---------------------------------------------------------------------------
\* SetToSeq lists the elements of a finite set.
LEMMA SetToSeqLists ==
    ASSUME NEW S, IsFiniteSet(S)
    PROVE  /\ SetToSeq(S) \in Seq(S)
           /\ \A x \in S : \E i \in 1 .. Len(SetToSeq(S)) : SetToSeq(S)[i] = x
<1> DEFINE n == Cardinality(S)
<1>1. n \in Nat /\ ExistsBijection(1 .. n, S)
  BY FS_CardinalityType
<1>2. \E f \in [1 .. n -> S] : IsInjective(f)
  BY <1>1 DEF ExistsBijection, Bijection, Injection, IsInjective
<1>3. SetToSeq(S) \in [1 .. n -> S] /\ IsInjective(SetToSeq(S))
  BY <1>2 DEF SetToSeq
<1>4. SetToSeq(S) \in Injection(1 .. n, S)
  BY <1>3 DEF Injection
<1>5. Cardinality(1 .. n) = Cardinality(S)
  BY <1>1, FS_Interval
<1>6. SetToSeq(S) \in Surjection(1 .. n, S)
  BY <1>4, <1>5, FS_Injection
<1>7. \A x \in S : \E i \in 1 .. n : SetToSeq(S)[i] = x
  BY <1>6 DEF Surjection
<1>8. SetToSeq(S) \in Seq(S) /\ Len(SetToSeq(S)) = n
  BY <1>1, <1>3, SeqDef
<1> QED
  BY <1>7, <1>8

\* expire-clients! writes an entry for every request it is given, and no other.
LEMMA InfosType ==
    ASSUME NEW R, R \subseteq Entries,
           IsFiniteSet(R), NEW t \in Nat
    PROVE  /\ Infos(R, t) \in Seq(TraceRecords)
           /\ InfoSegment(Infos(R, t), 0, Len(Infos(R, t)), R)
<1>1. PICK s : s = SetToSeq(R)
  OBVIOUS
<1>2. s \in Seq(R) /\ \A r \in R : \E i \in 1 .. Len(s) : s[i] = r
  BY <1>1, SetToSeqLists
<1>3. Len(s) \in Nat /\ \A i \in 1 .. Len(s) : s[i] \in R
  BY <1>2
<1>4. PICK x : x = [i \in 1 .. Len(s) |->
                       Traced("info", s[i].to, s[i].from, t, t, FALSE, s[i].req)]
  OBVIOUS
<1>5. x = Infos(R, t)
  BY <1>1, <1>4 DEF Infos
<1>6. \A i \in 1 .. Len(s) : x[i] \in TraceRecords /\ InfoFor(x[i], s[i])
  BY <1>3, <1>4 DEF Traced, TraceRecords, InfoFor, Entries
<1>7. x \in [1 .. Len(s) -> TraceRecords]
  BY <1>4, <1>6
<1>8. x \in Seq(TraceRecords) /\ Len(x) = Len(s)
  BY <1>3, <1>7, SeqDef
<1>9. InfoSegment(x, 0, Len(x), R)
  BY <1>2, <1>3, <1>6, <1>8 DEF InfoSegment
<1> QED
  BY <1>5, <1>8, <1>9

\* The executor's answers to clients are written one by one.
LEMMA OksType ==
    ASSUME NEW A, A \subseteq OwedRecords, IsFiniteSet(A), NEW t \in Nat \ {0}
    PROVE  /\ Oks(A, t) \in Seq(TraceRecords)
           /\ OkSegment(Oks(A, t), 0, Len(Oks(A, t)), A)
<1>1. PICK s : s = SetToSeq(A)
  OBVIOUS
<1>2. s \in Seq(A) /\ \A r \in A : \E i \in 1 .. Len(s) : s[i] = r
  BY <1>1, SetToSeqLists
<1>3. Len(s) \in Nat /\ \A i \in 1 .. Len(s) : s[i] \in A
  BY <1>2
<1>4. PICK x : x = [i \in 1 .. Len(s) |->
                       Traced("ok", s[i].by, s[i].from, t - 1, t, FALSE, s[i].req)]
  OBVIOUS
<1>5. x = Oks(A, t)
  BY <1>1, <1>4 DEF Oks
<1>6. \A i \in 1 .. Len(s) : x[i] \in TraceRecords /\ OkFor(x[i], s[i])
  BY <1>3, <1>4 DEF Traced, TraceRecords, OkFor, OwedRecords
<1>7. x \in [1 .. Len(s) -> TraceRecords]
  BY <1>4, <1>6
<1>8. x \in Seq(TraceRecords) /\ Len(x) = Len(s)
  BY <1>3, <1>7, SeqDef
<1>9. OkSegment(x, 0, Len(x), A)
  BY <1>2, <1>3, <1>6, <1>8 DEF OkSegment
<1> QED
  BY <1>5, <1>8, <1>9
Appended(s, t, u) ==
    /\ u \in Seq(TraceRecords) /\ Len(u) = Len(s) + Len(t)
    /\ SameUpTo(s, u, Len(s))
    /\ \A k \in 1 .. Len(t) : u[Len(s) + k] = t[k]

\* What concatenation does to the elements of a trace.
LEMMA AppendedTrace ==
    ASSUME NEW s \in Seq(TraceRecords), NEW t \in Seq(TraceRecords), NEW u, u = s \o t
    PROVE  Appended(s, t, u)
<1>1. Len(s) \in Nat /\ Len(t) \in Nat
  OBVIOUS
<1>2. /\ u \in Seq(TraceRecords) /\ Len(u) = Len(s) + Len(t)
      /\ \A i \in 1 .. Len(s) + Len(t) : u[i] = IF i <= Len(s) THEN s[i] ELSE t[i - Len(s)]
  BY ConcatProperties
<1>3. \A k \in 1 .. Len(s) : u[k] = s[k]
  BY <1>1, <1>2
<1>4. ASSUME NEW k \in 1 .. Len(t)
      PROVE  u[Len(s) + k] = t[k]
  <2>1. /\ Len(s) + k \in 1 .. Len(s) + Len(t) /\ ~(Len(s) + k <= Len(s))
        /\ (Len(s) + k) - Len(s) = k
    BY <1>1
  <2> QED
    BY <1>2, <2>1
<1> QED
  BY <1>2, <1>3, <1>4 DEF Appended, SameUpTo

\* A segment stays a segment when more is written behind it.
LEMMA SegmentsStay ==
    ASSUME NEW s, NEW u, NEW m \in Nat, NEW n \in Nat, NEW o \in Nat, n <= o,
           SameUpTo(s, u, o), NEW R
    PROVE  /\ InfoSegment(s, m, n, R) => InfoSegment(u, m, n, R)
           /\ OkSegment(s, m, n, R) => OkSegment(u, m, n, R)
           /\ m <= n /\ DeliverySegment(s, m, n, R) => DeliverySegment(u, m, n, R)
<1>1. \A k \in m + 1 .. n : u[k] = s[k]
  BY DEF SameUpTo
<1>2. InfoSegment(s, m, n, R) => InfoSegment(u, m, n, R)
  BY <1>1 DEF InfoSegment
<1>3. OkSegment(s, m, n, R) => OkSegment(u, m, n, R)
  BY <1>1 DEF OkSegment
<1>4. n = m + 1 => u[n] = s[n]
  BY <1>1
<1>5. DeliverySegment(s, m, n, R) => DeliverySegment(u, m, n, R)
  BY <1>4 DEF DeliverySegment
<1> QED
  BY <1>2, <1>3, <1>5

\* A trace written on its own is a segment of the trace it is appended to.
LEMMA SegmentsAppended ==
    ASSUME NEW s \in Seq(TraceRecords), NEW t \in Seq(TraceRecords), NEW u,
           Appended(s, t, u), NEW R
    PROVE  /\ InfoSegment(t, 0, Len(t), R) => InfoSegment(u, Len(s), Len(u), R)
           /\ OkSegment(t, 0, Len(t), R) => OkSegment(u, Len(s), Len(u), R)
<1>1. PICK m, n \in Nat : m = Len(s) /\ n = Len(t)
  OBVIOUS
<1>2. Len(u) = m + n /\ \A k \in 1 .. n : u[m + k] = t[k]
  BY <1>1 DEF Appended
<1>3. \A k \in 1 .. n : m + k \in m + 1 .. m + n
  OBVIOUS
<1>4. ASSUME NEW k \in m + 1 .. m + n
      PROVE  k - m \in 1 .. n /\ u[k] = t[k - m]
  <2>1. k - m \in 1 .. n /\ m + (k - m) = k
    OBVIOUS
  <2> QED
    BY <1>2, <2>1
<1>5. 0 + 1 .. n = 1 .. n
  OBVIOUS
<1>6. ASSUME InfoSegment(t, 0, n, R)
      PROVE  InfoSegment(u, m, m + n, R)
  BY <1>2, <1>3, <1>4, <1>5, <1>6 DEF InfoSegment
<1>7. ASSUME OkSegment(t, 0, n, R)
      PROVE  OkSegment(u, m, m + n, R)
  BY <1>2, <1>3, <1>4, <1>5, <1>7 DEF OkSegment
<1> QED
  BY <1>1, <1>2, <1>6, <1>7

\* The parts of a step's trace, one after the other.
LEMMA PartsAreWritten ==
    ASSUME NEW old \in Seq(TraceRecords), NEW infos \in Seq(TraceRecords),
           NEW mid \in Seq(TraceRecords), NEW oks \in Seq(TraceRecords),
           NEW last \in Seq(TraceRecords),
           NEW t1, NEW t2, NEW t3, NEW new,
           t1 = old \o infos, t2 = t1 \o mid, t3 = t2 \o oks, new = t3 \o last,
           NEW R, NEW D, NEW A, NEW L,
           InfoSegment(infos, 0, Len(infos), R),
           OneRecord(mid, D),
           OkSegment(oks, 0, Len(oks), A),
           InfoSegment(last, 0, Len(last), L)
    PROVE  new \in Seq(TraceRecords) /\ Written(old, new, R, D, A, L)
<1>1. Appended(old, infos, t1)
  BY AppendedTrace
<1>2. Appended(t1, mid, t2)
  <2>1. t1 \in Seq(TraceRecords)
    BY <1>1 DEF Appended
  <2> QED
    BY <2>1, AppendedTrace
<1>3. Appended(t2, oks, t3)
  <2>1. t2 \in Seq(TraceRecords)
    BY <1>2 DEF Appended
  <2> QED
    BY <2>1, AppendedTrace
<1>4. Appended(t3, last, new)
  <2>1. t3 \in Seq(TraceRecords)
    BY <1>3 DEF Appended
  <2> QED
    BY <2>1, AppendedTrace
<1>5. /\ t1 \in Seq(TraceRecords) /\ t2 \in Seq(TraceRecords)
      /\ t3 \in Seq(TraceRecords) /\ new \in Seq(TraceRecords)
  BY <1>1, <1>2, <1>3, <1>4 DEF Appended
<1>6. PICK o, p, q, t, z \in Nat :
          o = Len(old) /\ p = Len(t1) /\ q = Len(t2) /\ t = Len(t3) /\ z = Len(new)
  BY <1>5
<1>7. o <= p /\ p <= q /\ q <= t /\ t <= z
  BY <1>1, <1>2, <1>3, <1>4, <1>6 DEF Appended
<1>8. SameUpTo(old, t1, o) /\ SameUpTo(t1, t2, p) /\ SameUpTo(t2, t3, q)
      /\ SameUpTo(t3, new, t)
  BY <1>1, <1>2, <1>3, <1>4, <1>6 DEF Appended
<1>9. SameUpTo(t2, new, q) /\ SameUpTo(t1, new, p) /\ SameUpTo(old, new, o)
  <2>1. \A k \in 1 .. q : k \in 1 .. t
    BY <1>7
  <2>2. \A k \in 1 .. p : k \in 1 .. q
    BY <1>7
  <2>3. \A k \in 1 .. o : k \in 1 .. p
    BY <1>7
  <2> QED
    BY <1>8, <2>1, <2>2, <2>3, ZenonT(30) DEF SameUpTo
<1>10. InfoSegment(new, o, p, R)
  <2>1. InfoSegment(t1, o, p, R)
    BY <1>1, <1>5, <1>6, SegmentsAppended
  <2>2. SameUpTo(t1, new, p) /\ p <= p
    BY <1>9
  <2> QED
    BY <2>1, <2>2, SegmentsStay
<1>11. OkSegment(new, q, t, A)
  <2>1. OkSegment(t3, q, t, A)
    BY <1>3, <1>5, <1>6, SegmentsAppended
  <2>2. SameUpTo(t3, new, t) /\ t <= t
    BY <1>8
  <2> QED
    BY <2>1, <2>2, SegmentsStay
<1>12. InfoSegment(new, t, z, L)
  BY <1>4, <1>5, <1>6, SegmentsAppended
<1>13. DeliverySegment(new, p, q, D)
  <2>1. CASE mid = <<>> /\ D = {}
    <3>1. q = p
      BY <1>2, <1>6, <2>1 DEF Appended
    <3> QED
      BY <2>1, <3>1 DEF DeliverySegment
  <2>2. CASE \E d : mid = <<d>> /\ D = {d}
    <3>1. PICK d : mid = <<d>> /\ D = {d}
      BY <2>2
    <3>2. Len(mid) = 1 /\ mid[1] = d
      BY <3>1
    <3>3. q = p + 1 /\ t2[p + 1] = d
      BY <1>2, <1>6, <3>2 DEF Appended
    <3>4. q \in 1 .. q
      BY <3>3
    <3>5. new[q] = t2[q]
      BY <1>9, <3>4 DEF SameUpTo
    <3> QED
      BY <3>1, <3>3, <3>5 DEF DeliverySegment
  <2> QED
    BY <2>1, <2>2 DEF OneRecord
<1> QED
  BY <1>5, <1>6, <1>7, <1>9, <1>10, <1>11, <1>12, <1>13 DEF Written
---------------------------------------------------------------------------
(* A step, as the history sees it: the requests in R expire, the deliveries *)
(* in D (at most one) are recorded, and the answers in A.                   *)

(* The requests that a step begins to execute. *)
Started(D) == {d \in D : d.kind = "invoke" /\ ~d.dropped}

Grows(p, q, t, R, D, A) ==
    /\ Len(trace) <= p /\ p <= q /\ q <= t /\ t <= Len(trace')
    /\ \A k \in 1 .. Len(trace) : k \in 1 .. Len(trace') /\ trace'[k] = trace[k]
    /\ \A k \in 1 .. Len(trace') :
         \/ k \in 1 .. Len(trace)
         \/ k \in Len(trace) + 1 .. p /\ \E r \in R : InfoFor(trace'[k], r)
         \/ k = q /\ q = p + 1 /\ trace'[k] \in D
         \/ k \in q + 1 .. t /\ \E a \in A : OkFor(trace'[k], a)
         \/ /\ k \in t + 1 .. Len(trace') /\ state' = "finished"
            /\ \E r \in clientRequests' : InfoFor(trace'[k], r)
    /\ \A r \in R : \E k \in Len(trace) + 1 .. p : InfoFor(trace'[k], r)
    /\ \A d \in D : q = p + 1 /\ trace'[q] = d
    /\ \A a \in A : \E k \in q + 1 .. t : OkFor(trace'[k], a)
    /\ state' = "finished" =>
         \A r \in clientRequests' : \E k \in t + 1 .. Len(trace') : InfoFor(trace'[k], r)

(* The record of an entry that is executed or dropped. *)
RecordsOfNow(D) ==
    \A d \in D :
        /\ d.kind \in {"invoke", "message"}
        /\ ~d.dropped =>
             /\ d.sent <= logicalClock /\ d.recv = logicalClock + 1
             /\ logicalClock + 1 <= logicalClock'
             /\ d.kind = "message" =>
                  \A i \in Kept : trace[i].recv = d.sent => trace[i].to = d.from

(* The request of such an entry is one of the test, and it is new. *)
RequestsOfNow(R, D) ==
    \A d \in Started(D) :
        /\ OfTest(d)
        /\ \A i \in Invokes : trace[i].req # d.req
        /\ \A r \in clientRequests \ R : r.from # d.from

(* Who waits for an answer after the step: those who did before it and the *)
(* new one, without the expired and the answered ones.                     *)
WaitingAfter(R, D, A) ==
    /\ R \subseteq clientRequests
    /\ \A r \in clientRequests' :
         /\ \/ r \in clientRequests \ R
            \/ \E d \in Started(D) : d.from = r.from /\ d.req = r.req
         /\ \A a \in A : a.from # r.from
    /\ \A r \in (clientRequests \ R) \cup Started(D) :
         \/ \E a \in A : a.from = r.from
         \/ \E s \in clientRequests' : s.from = r.from

(* Who is answered, or is still to be: those who were before, and the new one. *)
OwedAfter(D, A) ==
    \A o \in owed' \cup A :
        o \in owed \/ \E d \in Started(D) : d.from = o.from /\ d.req = o.req

HistoryStep(p, q, t, R, D, A) ==
    /\ p \in Nat /\ q \in Nat /\ t \in Nat
    /\ trace \in Seq(TraceRecords) /\ trace' \in Seq(TraceRecords)
    /\ logicalClock \in Nat /\ logicalClock' \in Nat /\ logicalClock <= logicalClock'
    /\ Grows(p, q, t, R, D, A)
    /\ RecordsOfNow(D) /\ RequestsOfNow(R, D)
    /\ WaitingAfter(R, D, A) /\ OwedAfter(D, A)

\* The boundaries of what is written.
LEMMA WrittenGrows ==
    ASSUME trace \in Seq(TraceRecords), trace' \in Seq(TraceRecords), NEW R, NEW D, NEW A,
           Written(trace, trace', R, D, A, IF state' = "finished" THEN clientRequests' ELSE {})
    PROVE  \E p, q, t \in Nat : Grows(p, q, t, R, D, A)
<1>1. PICK L : L = IF state' = "finished" THEN clientRequests' ELSE {}
  OBVIOUS
<1>2. PICK o, z \in Nat : o = Len(trace) /\ z = Len(trace')
  OBVIOUS
<1>3. PICK p, q, t \in Nat :
          /\ o <= p /\ p <= q /\ q <= t /\ t <= z
          /\ SameUpTo(trace, trace', o)
          /\ InfoSegment(trace', o, p, R)
          /\ DeliverySegment(trace', p, q, D)
          /\ OkSegment(trace', q, t, A)
          /\ InfoSegment(trace', t, z, L)
  BY <1>1, <1>2 DEF Written
<1>4. \A k \in 1 .. o : k \in 1 .. z /\ trace'[k] = trace[k]
  BY <1>3 DEF SameUpTo
<1>5. /\ \A k \in o + 1 .. p : \E r \in R : InfoFor(trace'[k], r)
      /\ \A r \in R : \E k \in o + 1 .. p : InfoFor(trace'[k], r)
  BY <1>3 DEF InfoSegment
<1>6. /\ \A k \in p + 1 .. q : k = q /\ q = p + 1 /\ trace'[k] \in D
      /\ \A d \in D : q = p + 1 /\ trace'[q] = d
  BY <1>3 DEF DeliverySegment
<1>7. /\ \A k \in q + 1 .. t : \E a \in A : OkFor(trace'[k], a)
      /\ \A a \in A : \E k \in q + 1 .. t : OkFor(trace'[k], a)
  BY <1>3 DEF OkSegment
<1>8. /\ \A k \in t + 1 .. z : state' = "finished" /\ \E r \in clientRequests' : InfoFor(trace'[k], r)
      /\ state' = "finished" => \A r \in clientRequests' : \E k \in t + 1 .. z : InfoFor(trace'[k], r)
  <2>1. /\ \A k \in t + 1 .. z : \E r \in L : InfoFor(trace'[k], r)
        /\ \A r \in L : \E k \in t + 1 .. z : InfoFor(trace'[k], r)
    BY <1>3 DEF InfoSegment
  <2>2. /\ state' = "finished" => L = clientRequests'
        /\ state' # "finished" => L = {}
    BY <1>1
  <2> QED
    BY <2>1, <2>2, Zenon
<1>9. \A k \in 1 .. z : \/ k \in 1 .. o \/ k \in o + 1 .. p \/ k \in p + 1 .. q
                        \/ k \in q + 1 .. t \/ k \in t + 1 .. z
  BY <1>3
<1>10. \A k \in 1 .. z :
         \/ k \in 1 .. o
         \/ k \in o + 1 .. p /\ \E r \in R : InfoFor(trace'[k], r)
         \/ k = q /\ q = p + 1 /\ trace'[k] \in D
         \/ k \in q + 1 .. t /\ \E a \in A : OkFor(trace'[k], a)
         \/ /\ k \in t + 1 .. z /\ state' = "finished"
            /\ \E r \in clientRequests' : InfoFor(trace'[k], r)
  BY <1>5, <1>6, <1>7, <1>8, <1>9, Zenon
<1>11. Grows(p, q, t, R, D, A)
  BY <1>2, <1>3, <1>4, <1>5, <1>6, <1>7, <1>8, <1>10 DEF Grows
<1> QED
  BY <1>11
\* What is in the history after the step was there before it or is new.
LEMMA HistoryAfter ==
    ASSUME NEW p, NEW q, NEW t, NEW R, NEW D, NEW A, HistoryStep(p, q, t, R, D, A)
    PROVE  /\ \A i \in Kept : /\ i \in 1 .. Len(trace) /\ i \in Kept'
                              /\ trace'[i] = trace[i]
           /\ \A i \in Kept' :
                i \in Kept \/ (/\ i = q /\ q = p + 1
                               /\ trace'[i] \in D /\ ~trace'[i].dropped)
           /\ \A i \in Invokes : i \in 1 .. Len(trace) /\ i \in Invokes' /\ trace'[i] = trace[i]
           /\ \A i \in Invokes' :
                i \in Invokes \/ (i = q /\ q = p + 1 /\ trace'[i] \in Started(D))
           /\ \A d \in Started(D) : q = p + 1 /\ q \in Invokes' /\ trace'[q] = d
           /\ \A k \in 1 .. Len(trace') : trace'[k].kind = "ok" =>
                \/ k \in 1 .. Len(trace) /\ trace'[k] = trace[k]
                \/ k \in q + 1 .. t /\ \E a \in A : OkFor(trace'[k], a)
           /\ \A k \in 1 .. Len(trace') : trace'[k].kind = "info" =>
                \/ k \in 1 .. Len(trace) /\ trace'[k] = trace[k]
                \/ k \in Len(trace) + 1 .. p /\ \E r \in R : InfoFor(trace'[k], r)
                \/ k \in t + 1 .. Len(trace') /\ \E r \in clientRequests' : InfoFor(trace'[k], r)
<1>1. /\ DOMAIN trace = 1 .. Len(trace) /\ DOMAIN trace' = 1 .. Len(trace')
      /\ Len(trace) \in Nat /\ Len(trace') \in Nat
      /\ p \in Nat /\ q \in Nat /\ t \in Nat
  BY DEF HistoryStep
<1>2. /\ Len(trace) <= p /\ p <= q /\ q <= t /\ t <= Len(trace')
      /\ \A k \in 1 .. Len(trace) : k \in 1 .. Len(trace') /\ trace'[k] = trace[k]
      /\ \A k \in 1 .. Len(trace') :
           \/ k \in 1 .. Len(trace)
           \/ k \in Len(trace) + 1 .. p /\ \E r \in R : InfoFor(trace'[k], r)
           \/ k = q /\ q = p + 1 /\ trace'[k] \in D
           \/ k \in q + 1 .. t /\ \E a \in A : OkFor(trace'[k], a)
           \/ /\ k \in t + 1 .. Len(trace') /\ state' = "finished"
              /\ \E r \in clientRequests' : InfoFor(trace'[k], r)
      /\ \A d \in D : q = p + 1 /\ trace'[q] = d
  BY DEF HistoryStep, Grows
<1>3. \A d \in D : d.kind \in {"invoke", "message"}
  BY DEF HistoryStep, RecordsOfNow
<1>4. \A k \in 1 .. Len(trace') : trace'[k].kind \in {"invoke", "message"} =>
          k \in 1 .. Len(trace) \/ (k = q /\ q = p + 1 /\ trace'[k] \in D)
  BY <1>2, Zenon DEF InfoFor, OkFor
<1>5. \A k \in 1 .. Len(trace') : trace'[k].kind = "ok" =>
          k \in 1 .. Len(trace) \/ (k \in q + 1 .. t /\ \E a \in A : OkFor(trace'[k], a))
  BY <1>2, <1>3 DEF InfoFor
<1>6. \A k \in 1 .. Len(trace') : trace'[k].kind = "info" =>
          \/ k \in 1 .. Len(trace)
          \/ k \in Len(trace) + 1 .. p /\ \E r \in R : InfoFor(trace'[k], r)
          \/ k \in t + 1 .. Len(trace') /\ \E r \in clientRequests' : InfoFor(trace'[k], r)
  BY <1>2, <1>3 DEF OkFor
<1>7. \A i \in Kept : i \in 1 .. Len(trace) /\ i \in Kept' /\ trace'[i] = trace[i]
  BY <1>1, <1>2 DEF Kept
<1>8. \A i \in Kept' : i \in Kept \/ (/\ i = q /\ q = p + 1
                                      /\ trace'[i] \in D /\ ~trace'[i].dropped)
  BY <1>1, <1>2, <1>4 DEF Kept
<1>9. \A i \in Invokes : i \in 1 .. Len(trace) /\ i \in Invokes' /\ trace'[i] = trace[i]
  BY <1>7 DEF Invokes
<1>10. \A i \in Invokes' : i \in Invokes \/ (i = q /\ q = p + 1 /\ trace'[i] \in Started(D))
  BY <1>7, <1>8 DEF Invokes, Started
<1>11. ASSUME NEW d \in Started(D)
       PROVE  q = p + 1 /\ q \in Invokes' /\ trace'[q] = d
  <2>1. d \in D /\ d.kind = "invoke" /\ ~d.dropped
    BY DEF Started
  <2>2. q = p + 1 /\ trace'[q] = d
    BY <1>2, <2>1
  <2>3. q \in 1 .. Len(trace')
    BY <1>1, <1>2, <2>2
  <2> QED
    BY <1>1, <2>1, <2>2, <2>3 DEF Kept, Invokes
<1> QED
  BY <1>2, <1>5, <1>6, <1>7, <1>8, <1>9, <1>10, <1>11
\* Whatever is in the history or waits for an answer is a request of the test,
\* executed once.
LEMMA RequestsAfter ==
    ASSUME NEW p, NEW q, NEW t, NEW R, NEW D, NEW A, HistoryStep(p, q, t, R, D, A),
           RequestsOfTest, ExecutedOnce, AnsweredWereExecuted
    PROVE  RequestsOfTest' /\ ExecutedOnce' /\ AnsweredWereExecuted'
<1> USE HistoryAfter
<1>1. /\ \A d \in Started(D) : OfTest(d) /\ \A i \in Invokes : trace[i].req # d.req
      /\ \A r \in clientRequests' :
           r \in clientRequests \/ \E d \in Started(D) : d.from = r.from /\ d.req = r.req
      /\ \A o \in owed' \cup A :
           o \in owed \/ \E d \in Started(D) : d.from = o.from /\ d.req = o.req
  BY DEF HistoryStep, RequestsOfNow, WaitingAfter, OwedAfter
<1>2. RequestsOfTest'
  <2>1. \A r \in clientRequests' : OfTest(r)
    BY <1>1 DEF RequestsOfTest, OfTest
  <2>2. \A o \in owed' : OfTest(o)
    BY <1>1 DEF RequestsOfTest, OfTest
  <2>3. \A i \in Invokes' : OfTest(trace'[i])
    BY <1>1 DEF RequestsOfTest
  <2> QED
    BY <2>1, <2>2, <2>3 DEF RequestsOfTest, OfTest
<1>3. ExecutedOnce'
  BY <1>1 DEF ExecutedOnce
<1>4. AnsweredWereExecuted'
  <2>1. \A d \in Started(D) : \E i \in Invokes' : trace'[i].req = d.req
    OBVIOUS
  <2>2. ASSUME NEW x, \E i \in Invokes : trace[i].req = x
        PROVE  \E i \in Invokes' : trace'[i].req = x
    BY <2>2
  <2>3. \A r \in clientRequests' : \E i \in Invokes' : trace'[i].req = r.req
    BY <1>1, <2>1, <2>2 DEF AnsweredWereExecuted
  <2>4. \A o \in owed' \cup A : \E i \in Invokes' : trace'[i].req = o.req
    BY <1>1, <2>1, <2>2 DEF AnsweredWereExecuted
  <2>5. DOMAIN trace = 1 .. Len(trace) /\ DOMAIN trace' = 1 .. Len(trace')
    BY DEF HistoryStep
  <2>6. ASSUME NEW k \in 1 .. Len(trace'), trace'[k].kind = "ok"
        PROVE  \E i \in Invokes' : trace'[i].req = trace'[k].req
    <3>1. CASE k \in 1 .. Len(trace) /\ trace'[k] = trace[k]
      BY <2>2, <2>5, <2>6, <3>1 DEF AnsweredWereExecuted
    <3>2. CASE \E a \in A : OkFor(trace'[k], a)
      BY <2>4, <3>2 DEF OkFor
    <3> QED
      BY <2>6, <3>1, <3>2
  <2> QED
    BY <2>3, <2>4, <2>5, <2>6 DEF AnsweredWereExecuted
<1> QED
  BY <1>2, <1>3, <1>4

\* A request that waits for an answer has none in the history.
LEMMA UnansweredAfter ==
    ASSUME NEW p, NEW q, NEW t, NEW R, NEW D, NEW A, HistoryStep(p, q, t, R, D, A),
           RequestsOfTest, AnsweredWereExecuted, WaitingUnanswered, RequestsOfTest'
    PROVE  WaitingUnanswered'
<1>1. SUFFICES ASSUME NEW r \in clientRequests', NEW k \in 1 .. Len(trace'),
                      trace'[k].kind = "ok", trace'[k].req = r.req
               PROVE  FALSE
  <2>1. DOMAIN trace' = 1 .. Len(trace')
    BY DEF HistoryStep
  <2> QED
    BY <2>1 DEF WaitingUnanswered
<1>2. DOMAIN trace = 1 .. Len(trace)
  BY DEF HistoryStep
<1>3. CASE k \in 1 .. Len(trace) /\ trace'[k] = trace[k]
  <2>1. CASE r \in clientRequests
    BY <1>1, <1>2, <1>3, <2>1 DEF WaitingUnanswered
  <2>2. CASE \E d \in Started(D) : d.from = r.from /\ d.req = r.req
    <3>1. PICK d \in Started(D) : d.req = r.req
      BY <2>2
    <3>2. PICK i \in Invokes : trace[i].req = trace[k].req
      BY <1>1, <1>2, <1>3 DEF AnsweredWereExecuted
    <3> QED
      BY <1>1, <1>3, <3>1, <3>2 DEF HistoryStep, RequestsOfNow
  <2> QED
    BY <2>1, <2>2 DEF HistoryStep, WaitingAfter
<1>4. CASE \E a \in A : OkFor(trace'[k], a)
  <2>1. PICK a \in A : a.req = r.req
    BY <1>1, <1>4 DEF OkFor
  <2>2. OfTest(a)
    <3>1. a \in owed \/ \E d \in Started(D) : d.from = a.from /\ d.req = a.req
      BY DEF HistoryStep, OwedAfter
    <3>2. \A d \in Started(D) : OfTest(d)
      BY DEF HistoryStep, RequestsOfNow
    <3> QED
      BY <3>1, <3>2 DEF RequestsOfTest, OfTest
  <2>3. OfTest(r)
    BY DEF RequestsOfTest, OfTest
  <2>4. a.from = r.from
    BY <2>1, <2>2, <2>3 DEF OfTest
  <2> QED
    BY <2>4 DEF HistoryStep, WaitingAfter
<1> QED
  BY <1>1, <1>3, <1>4, HistoryAfter

\* A request that has been executed is closed in the history, or waits.
LEMMA ClosedAfter ==
    ASSUME NEW p, NEW q, NEW t, NEW R, NEW D, NEW A, HistoryStep(p, q, t, R, D, A),
           ClosedOrWaiting
    PROVE  ClosedOrWaiting'
<1>1. /\ Len(trace) \in Nat /\ Len(trace') \in Nat /\ p \in Nat /\ q \in Nat /\ t \in Nat
      /\ Len(trace) <= p /\ p <= q /\ q <= t /\ t <= Len(trace')
      /\ \A k \in 1 .. Len(trace) : trace'[k] = trace[k]
      /\ \A r \in R : \E k \in Len(trace) + 1 .. p : InfoFor(trace'[k], r)
      /\ \A a \in A : \E k \in q + 1 .. t : OkFor(trace'[k], a)
  BY DEF HistoryStep, Grows
<1>2. \A r \in (clientRequests \ R) \cup Started(D) :
         \/ \E a \in A : a.from = r.from
         \/ \E s \in clientRequests' : s.from = r.from
  BY DEF HistoryStep, WaitingAfter
<1>3. SUFFICES ASSUME NEW i \in Invokes'
               PROVE  \/ \E k \in i + 1 .. Len(trace') :
                            trace'[k].kind \in {"ok", "info"} /\ trace'[k].to = trace'[i].from
                      \/ \E r \in clientRequests' : r.from = trace'[i].from
  BY DEF ClosedOrWaiting, Completes
<1>4. ASSUME NEW a \in A, a.from = trace'[i].from, i <= q, i \in Nat
      PROVE  \E k \in i + 1 .. Len(trace') :
                 trace'[k].kind \in {"ok", "info"} /\ trace'[k].to = trace'[i].from
  <2>1. PICK k \in q + 1 .. t : OkFor(trace'[k], a)
    BY <1>1
  <2>2. k \in i + 1 .. Len(trace')
    BY <1>1, <1>4
  <2> QED
    BY <1>4, <2>1, <2>2 DEF OkFor
<1>5. CASE i \in Invokes
  <2>1. i \in 1 .. Len(trace) /\ trace'[i] = trace[i]
    BY <1>5, HistoryAfter
  <2>2. CASE \E k \in i + 1 .. Len(trace) : Completes(k, i)
    <3>1. PICK k \in i + 1 .. Len(trace) :
              trace[k].kind \in {"ok", "info"} /\ trace[k].to = trace[i].from
      BY <2>2 DEF Completes
    <3>2. k \in 1 .. Len(trace) /\ k \in i + 1 .. Len(trace')
      BY <1>1, <2>1
    <3>3. trace'[k] = trace[k]
      BY <1>1, <3>2
    <3> QED
      BY <2>1, <3>1, <3>2, <3>3
  <2>3. CASE \E r \in clientRequests : r.from = trace[i].from
    <3>1. PICK r \in clientRequests : r.from = trace[i].from
      BY <2>3
    <3>2. CASE r \in R
      <4>1. PICK k \in Len(trace) + 1 .. p : InfoFor(trace'[k], r)
        BY <1>1, <3>2
      <4>2. k \in i + 1 .. Len(trace')
        BY <1>1, <2>1
      <4> QED
        BY <2>1, <3>1, <4>1, <4>2 DEF InfoFor
    <3>3. CASE r \notin R
      <4>1. i <= q /\ i \in Nat
        BY <1>1, <2>1
      <4> QED
        BY <1>2, <1>4, <2>1, <3>1, <3>3, <4>1
    <3> QED
      BY <3>2, <3>3
  <2> QED
    BY <1>5, <2>2, <2>3 DEF ClosedOrWaiting
<1>6. CASE i = q /\ trace'[i] \in Started(D)
  BY <1>1, <1>2, <1>4, <1>6
<1> QED
  BY <1>5, <1>6, HistoryAfter
\* Logical time goes on with what is executed.
LEMMA TimesAfter ==
    ASSUME NEW p, NEW q, NEW t, NEW R, NEW D, NEW A, HistoryStep(p, q, t, R, D, A),
           KeptSoFar, LogicalTimeIdentifiesSteps
    PROVE  KeptSoFar' /\ LogicalTimeIdentifiesSteps'
<1>1. /\ logicalClock \in Nat /\ logicalClock' \in Nat /\ logicalClock <= logicalClock'
      /\ p \in Nat /\ q \in Nat /\ Len(trace) \in Nat /\ Len(trace) <= p
  BY DEF HistoryStep, Grows
<1>2. \A i \in Kept : /\ i \in 1 .. Len(trace) /\ trace'[i] = trace[i]
                      /\ trace[i].recv \in Nat /\ trace[i].sent \in Int
                      /\ trace[i].recv <= logicalClock /\ trace[i].sent < trace[i].recv
  <2>1. \A i \in 1 .. Len(trace) : trace[i] \in TraceRecords
    BY DEF HistoryStep
  <2> QED
    BY <2>1, HistoryAfter DEF KeptSoFar, LogicalTimeIdentifiesSteps, TraceRecords
<1>3. \A i \in Kept' : i \in Kept \/ (i = q /\ q = p + 1 /\ trace'[i] \in D /\ ~trace'[i].dropped)
  BY HistoryAfter
<1>4. \A d \in D : ~d.dropped =>
          /\ d.sent <= logicalClock /\ d.recv = logicalClock + 1
          /\ logicalClock + 1 <= logicalClock'
          /\ d.kind = "message" =>
               \A i \in Kept : trace[i].recv = d.sent => trace[i].to = d.from
  BY DEF HistoryStep, RecordsOfNow
<1>5. \A i \in Kept' : trace'[i].sent \in Int
  <2>1. \A i \in DOMAIN trace' : trace'[i] \in TraceRecords
    BY DEF HistoryStep
  <2> QED
    BY <2>1 DEF Kept, TraceRecords
<1>6. \A i \in Kept' : trace'[i].recv <= logicalClock'
  BY <1>1, <1>2, <1>3, <1>4
<1>7. ASSUME NEW i \in Kept', NEW j \in Kept'
      PROVE  /\ trace'[i].sent < trace'[i].recv
             /\ i < j => trace'[i].recv < trace'[j].recv
             /\ trace'[j].kind = "message" /\ trace'[j].sent = trace'[i].recv
                  => trace'[j].from = trace'[i].to
  <2>1. CASE i \in Kept /\ j \in Kept
    BY <1>2, <2>1 DEF LogicalTimeIdentifiesSteps
  <2>2. CASE i \in Kept /\ j = q /\ trace'[j] \in D /\ ~trace'[j].dropped
    BY <1>1, <1>2, <1>4, <2>2, SMTT(30)
  <2>3. CASE i = q /\ q = p + 1 /\ trace'[i] \in D /\ ~trace'[i].dropped /\ j \in Kept
    BY <1>1, <1>2, <1>4, <1>5, <2>3, SMTT(30)
  <2>4. CASE i = q /\ j = q /\ trace'[i] \in D /\ ~trace'[i].dropped
    BY <1>1, <1>4, <1>5, <2>4
  <2> QED
    BY <1>3, <2>1, <2>2, <2>3, <2>4
<1> QED
  BY <1>6, <1>7 DEF KeptSoFar, LogicalTimeIdentifiesSteps

\* Two requests of a client are not open at once.
LEMMA ProcessesAfter ==
    ASSUME NEW p, NEW q, NEW t, NEW R, NEW D, NEW A, HistoryStep(p, q, t, R, D, A),
           ClosedOrWaiting, ProcessesAreSequential
    PROVE  ProcessesAreSequential'
<1>1. /\ Len(trace) \in Nat /\ Len(trace') \in Nat /\ p \in Nat /\ q \in Nat
      /\ Len(trace) <= p /\ p <= q
      /\ \A k \in 1 .. Len(trace) : trace'[k] = trace[k]
      /\ \A r \in R : \E k \in Len(trace) + 1 .. p : InfoFor(trace'[k], r)
  BY DEF HistoryStep, Grows
<1>2. SUFFICES ASSUME NEW i \in Invokes', NEW j \in Invokes', i < j,
                      trace'[i].from = trace'[j].from
               PROVE  \E k \in i + 1 .. j - 1 :
                          trace'[k].kind \in {"ok", "info"} /\ trace'[k].to = trace'[i].from
  BY DEF ProcessesAreSequential, Completes
<1>3. \A h \in Invokes : h \in 1 .. Len(trace) /\ trace'[h] = trace[h]
  BY HistoryAfter
<1>4. \A h \in Invokes' : h \in Invokes \/ (h = q /\ q = p + 1 /\ trace'[h] \in Started(D))
  BY HistoryAfter
<1>5. CASE i \in Invokes /\ j \in Invokes
  <2>1. PICK k \in i + 1 .. j - 1 :
            trace[k].kind \in {"ok", "info"} /\ trace[k].to = trace[i].from
    BY <1>2, <1>3, <1>5 DEF ProcessesAreSequential, Completes
  <2>2. k \in 1 .. Len(trace)
    BY <1>1, <1>3, <1>5
  <2> QED
    BY <1>1, <1>3, <1>5, <2>1, <2>2
<1>6. CASE i \in Invokes /\ j = q /\ q = p + 1 /\ trace'[j] \in Started(D)
  <2>1. i \in 1 .. Len(trace) /\ trace'[i] = trace[i]
    BY <1>3, <1>6
  <2>2. CASE \E k \in i + 1 .. Len(trace) : Completes(k, i)
    <3>1. PICK k \in i + 1 .. Len(trace) :
              trace[k].kind \in {"ok", "info"} /\ trace[k].to = trace[i].from
      BY <2>2 DEF Completes
    <3>2. k \in 1 .. Len(trace) /\ k \in i + 1 .. j - 1
      BY <1>1, <1>6, <2>1
    <3> QED
      BY <1>1, <2>1, <3>1, <3>2
  <2>3. CASE \E r \in clientRequests : r.from = trace[i].from
    <3>1. PICK r \in clientRequests : r.from = trace[i].from
      BY <2>3
    <3>2. r \in R
      BY <1>2, <1>6, <2>1, <3>1 DEF HistoryStep, RequestsOfNow
    <3>3. PICK k \in Len(trace) + 1 .. p : InfoFor(trace'[k], r)
      BY <1>1, <3>2
    <3>4. k \in i + 1 .. j - 1
      BY <1>1, <1>6, <2>1
    <3> QED
      BY <2>1, <3>1, <3>3, <3>4 DEF InfoFor
  <2> QED
    BY <1>6, <2>2, <2>3 DEF ClosedOrWaiting
<1>7. CASE i = q /\ q = p + 1
  <2>1. j <= q
    BY <1>1, <1>3, <1>4
  <2>2. j \in Int
    BY <1>1, <1>3, <1>4
  <2> QED
    BY <1>1, <1>2, <1>7, <2>1, <2>2
<1> QED
  BY <1>4, <1>5, <1>6, <1>7

\* What has been answered does not expire.
LEMMA ExpiryAfter ==
    ASSUME NEW p, NEW q, NEW t, NEW R, NEW D, NEW A, HistoryStep(p, q, t, R, D, A),
           WaitingUnanswered, AnsweredNeverExpires, WaitingUnanswered'
    PROVE  AnsweredNeverExpires'
<1>1. /\ DOMAIN trace = 1 .. Len(trace) /\ DOMAIN trace' = 1 .. Len(trace')
      /\ Len(trace) \in Nat /\ Len(trace') \in Nat /\ p \in Nat /\ q \in Nat /\ t \in Nat
      /\ Len(trace) <= p /\ p <= q /\ q <= t
      /\ R \subseteq clientRequests
  BY DEF HistoryStep, Grows, WaitingAfter
<1>2. SUFFICES ASSUME NEW i \in 1 .. Len(trace'), NEW k \in 1 .. Len(trace'), i < k,
                      trace'[i].kind = "ok", trace'[k].kind = "info",
                      trace'[i].req = trace'[k].req
               PROVE  FALSE
  BY <1>1 DEF AnsweredNeverExpires
<1>3. CASE \E r \in clientRequests' : InfoFor(trace'[k], r)
  BY <1>1, <1>2, <1>3 DEF WaitingUnanswered, InfoFor
<1>4. CASE i \in q + 1 .. t /\ k \in 1 .. p
  BY <1>1, <1>2, <1>4
<1>5. CASE i \in 1 .. Len(trace) /\ trace'[i] = trace[i]
  <2>1. CASE k \in 1 .. Len(trace) /\ trace'[k] = trace[k]
    BY <1>1, <1>2, <1>5, <2>1 DEF AnsweredNeverExpires
  <2>2. CASE \E r \in R : InfoFor(trace'[k], r)
    BY <1>1, <1>2, <1>5, <2>2 DEF WaitingUnanswered, InfoFor
  <2> QED
    BY <1>2, <1>3, <2>1, <2>2, HistoryAfter
<1>6. k \in 1 .. p \/ \E r \in clientRequests' : InfoFor(trace'[k], r)
  <2>1. \/ k \in 1 .. Len(trace) \/ k \in Len(trace) + 1 .. p
        \/ \E r \in clientRequests' : InfoFor(trace'[k], r)
    BY <1>2, HistoryAfter
  <2> QED
    BY <1>1, <2>1
<1>7. (i \in 1 .. Len(trace) /\ trace'[i] = trace[i]) \/ i \in q + 1 .. t
  BY <1>2, HistoryAfter
<1> QED
  BY <1>3, <1>4, <1>5, <1>6, <1>7

\* A run that is over leaves no request open.
LEMMA CompleteAfter ==
    ASSUME NEW p, NEW q, NEW t, NEW R, NEW D, NEW A, HistoryStep(p, q, t, R, D, A),
           ClosedOrWaiting'
    PROVE  HistoryComplete'
<1>1. SUFFICES ASSUME state' = "finished", NEW i \in Invokes'
               PROVE  \E k \in i + 1 .. Len(trace') :
                          trace'[k].kind \in {"ok", "info"} /\ trace'[k].to = trace'[i].from
  BY DEF HistoryComplete, Completes
<1>2. /\ Len(trace) \in Nat /\ Len(trace') \in Nat /\ p \in Nat /\ q \in Nat /\ t \in Nat
      /\ Len(trace) <= p /\ p <= q /\ q <= t
      /\ \A r \in clientRequests' : \E k \in t + 1 .. Len(trace') : InfoFor(trace'[k], r)
  BY <1>1 DEF HistoryStep, Grows
<1>3. CASE \E k \in i + 1 .. Len(trace') :
               trace'[k].kind \in {"ok", "info"} /\ trace'[k].to = trace'[i].from
  BY <1>3
<1>4. CASE \E r \in clientRequests' : r.from = trace'[i].from
  <2>1. PICK r \in clientRequests' : r.from = trace'[i].from
    BY <1>4
  <2>2. PICK k \in t + 1 .. Len(trace') : InfoFor(trace'[k], r)
    BY <1>2
  <2>3. i \in 1 .. Len(trace) \/ i = q
    BY HistoryAfter
  <2>4. k \in i + 1 .. Len(trace')
    BY <1>2, <2>3
  <2> QED
    BY <2>1, <2>2, <2>4 DEF InfoFor
<1> QED
  BY <1>3, <1>4 DEF ClosedOrWaiting, Completes

\* A step keeps what the requests and the trace say of each other.
LEMMA ClosingAfter ==
    ASSUME NEW p, NEW q, NEW t, NEW R, NEW D, NEW A, HistoryStep(p, q, t, R, D, A),
           ClosingInv, KeptSoFar, LogicalTimeIdentifiesSteps
    PROVE  ClosingInv' /\ KeptSoFar' /\ LogicalTimeIdentifiesSteps'
<1>1. /\ RequestsOfTest /\ ExecutedOnce /\ AnsweredWereExecuted
      /\ WaitingUnanswered /\ ClosedOrWaiting
      /\ ProcessesAreSequential /\ AnsweredNeverExpires
  BY DEF ClosingInv
<1>2. RequestsOfTest' /\ ExecutedOnce' /\ AnsweredWereExecuted'
  BY <1>1, RequestsAfter
<1>3. WaitingUnanswered'
  BY <1>1, <1>2, UnansweredAfter
<1>4. ClosedOrWaiting'
  BY <1>1, ClosedAfter
<1>5. ProcessesAreSequential'
  BY <1>1, ProcessesAfter
<1>6. AnsweredNeverExpires'
  BY <1>1, <1>3, ExpiryAfter
<1>7. HistoryComplete'
  BY <1>4, CompleteAfter
<1>8. KeptSoFar' /\ LogicalTimeIdentifiesSteps'
  BY TimesAfter
<1> QED
  BY <1>2, <1>3, <1>4, <1>5, <1>6, <1>7, <1>8 DEF ClosingInv
---------------------------------------------------------------------------
(* The agenda after a step: the entries in a are kept, those in new are    *)
(* the delayed one or what the executor has just sent.                     *)

AgendaStep(a, new, D) ==
    /\ a \subseteq agenda /\ a \subseteq agenda' /\ agenda' \subseteq a \cup new
    /\ \A d \in Started(D), f \in a : f.from \in Clients => f.req # d.req
    /\ \A f \in new : f.from \in Clients =>
         /\ Started(D) = {}
         /\ \E e \in agenda \ a : e.from = f.from /\ e.req = f.req
    /\ \A f, g \in new : f.from \in Clients /\ g.from \in Clients => f = g
    /\ \A f \in new : f.from \in Components =>
         f.sent = logicalClock + 1 /\ f.sent <= logicalClock' /\ \A d \in D : d.to = f.from
    /\ \A e \in agenda \ a : e.from \in Clients =>
         \/ \E f \in agenda' : f.from \in Clients /\ f.req = e.req
         \/ \E d \in D : d.kind = "invoke" /\ d.req = e.req
    /\ state # "started"
    /\ state' = "finished" /\ ~maxTime(clock') => agenda' = {}

\* A step keeps what the agenda says of the history.
LEMMA AgendaAfter ==
    ASSUME NEW p, NEW q, NEW t, NEW R, NEW D, NEW A, HistoryStep(p, q, t, R, D, A),
           NEW a, NEW new, AgendaStep(a, new, D), DataTypeOK,
           AgendaInv, KeptSoFar
    PROVE  AgendaInv'
<1>1. AgendaToExecute /\ SentSoFar /\ NoneForgotten
  BY DEF AgendaInv
<1>2. AgendaToExecute'
  <2>1. \A i \in Invokes' : \/ i \in Invokes /\ trace'[i] = trace[i]
                            \/ trace'[i] \in Started(D)
    BY HistoryAfter
  <2>2. ASSUME NEW f \in agenda', f.from \in Clients
        PROVE  OfTest(f) /\ \A i \in Invokes' : trace'[i].req # f.req
    <3>1. CASE f \in a
      <4>1. OfTest(f) /\ \A i \in Invokes : trace[i].req # f.req
        BY <1>1, <2>2, <3>1 DEF AgendaToExecute, AgendaStep
      <4>2. \A d \in Started(D) : f.req # d.req
        BY <2>2, <3>1 DEF AgendaStep
      <4> QED
        BY <2>1, <4>1, <4>2
    <3>2. CASE f \in new
      <4>1. PICK e \in agenda \ a : e.from = f.from /\ e.req = f.req
        BY <2>2, <3>2 DEF AgendaStep
      <4>2. Started(D) = {}
        BY <2>2, <3>2 DEF AgendaStep
      <4>3. OfTest(e) /\ \A i \in Invokes : trace[i].req # e.req
        BY <1>1, <2>2, <4>1 DEF AgendaToExecute
      <4> QED
        BY <2>1, <4>1, <4>2, <4>3 DEF OfTest
    <3> QED
      BY <3>1, <3>2 DEF AgendaStep
  <2>3. ASSUME NEW f \in agenda', NEW g \in agenda', f.from \in Clients, g.from \in Clients,
               f.req = g.req
        PROVE  f = g
    <3>1. \A x, y \in agenda : x.from \in Clients /\ y.from \in Clients /\ x.req = y.req => x = y
      BY <1>1 DEF AgendaToExecute
    <3>2. CASE f \in a /\ g \in a
      BY <2>3, <3>1, <3>2 DEF AgendaStep
    <3>3. CASE f \in new /\ g \in new
      BY <2>3, <3>3 DEF AgendaStep
    <3>4. ASSUME NEW x \in a, NEW y \in new, x.from \in Clients, y.from \in Clients,
                 x.req = y.req
          PROVE  FALSE
      <4>1. PICK e \in agenda \ a : e.from = y.from /\ e.req = y.req
        BY <3>4 DEF AgendaStep
      <4>2. x \in agenda
        BY <3>4 DEF AgendaStep
      <4> QED
        BY <3>1, <3>4, <4>1, <4>2
    <3>5. f \in a \cup new /\ g \in a \cup new
      BY DEF AgendaStep
    <3> QED
      BY <2>3, <3>2, <3>3, <3>4, <3>5
  <2> QED
    BY <2>2, <2>3 DEF AgendaToExecute, OfTest
<1>3. SentSoFar'
  <2>1. \A i \in Kept' : \/ i \in Kept /\ trace'[i] = trace[i]
                         \/ trace'[i] \in D /\ ~trace'[i].dropped
    BY HistoryAfter
  <2>2. logicalClock \in Nat /\ logicalClock' \in Nat /\ logicalClock <= logicalClock'
    BY DEF HistoryStep
  <2>3. \A d \in D : ~d.dropped => d.recv = logicalClock + 1
    BY DEF HistoryStep, RecordsOfNow
  <2>4. \A i \in Kept : trace[i].recv \in Nat /\ trace[i].recv <= logicalClock
    <3>1. \A i \in DOMAIN trace : trace[i] \in TraceRecords
      BY DEF HistoryStep
    <3> QED
      BY <3>1 DEF KeptSoFar, Kept, TraceRecords
  <2>5. ASSUME NEW f \in agenda', f.from \in Components
        PROVE  /\ f.sent <= logicalClock'
               /\ \A i \in Kept' : trace'[i].recv = f.sent => trace'[i].to = f.from
    <3>1. CASE f \in a
      <4>1. f.sent \in Int /\ f.sent <= logicalClock
        BY <1>1, <2>5, <3>1 DEF SentSoFar, AgendaStep, DataTypeOK, Entries
      <4>2. \A i \in Kept : trace[i].recv = f.sent => trace[i].to = f.from
        BY <1>1, <2>5, <3>1 DEF SentSoFar, AgendaStep
      <4> QED
        BY <2>1, <2>2, <2>3, <4>1, <4>2
    <3>2. CASE f \in new
      <4>1. f.sent = logicalClock + 1 /\ f.sent <= logicalClock' /\ \A d \in D : d.to = f.from
        BY <2>5, <3>2 DEF AgendaStep
      <4> QED
        BY <2>1, <2>2, <2>4, <4>1
    <3> QED
      BY <3>1, <3>2 DEF AgendaStep
  <2> QED
    BY <2>5 DEF SentSoFar
<1>4. NoneForgotten'
  <2>1. SUFFICES ASSUME NEW n \in 1 .. Len(TestAgenda)
                 PROVE  \/ \E e \in agenda' : e.from \in Clients /\ e.req = n
                        \/ \E i \in DOMAIN trace' : trace'[i].kind = "invoke" /\ trace'[i].req = n
    BY DEF NoneForgotten
  <2>2. /\ \A k \in DOMAIN trace : k \in DOMAIN trace' /\ trace'[k] = trace[k]
        /\ \A d \in D : \E k \in DOMAIN trace' : trace'[k] = d
    <3>1. /\ DOMAIN trace = 1 .. Len(trace) /\ DOMAIN trace' = 1 .. Len(trace')
          /\ Len(trace) \in Nat /\ Len(trace') \in Nat /\ p \in Nat /\ q \in Nat /\ t \in Nat
          /\ Len(trace) <= p /\ p <= q /\ q <= t /\ t <= Len(trace')
          /\ \A k \in 1 .. Len(trace) : k \in 1 .. Len(trace') /\ trace'[k] = trace[k]
          /\ \A d \in D : q = p + 1 /\ trace'[q] = d
      BY DEF HistoryStep, Grows
    <3>2. \A d \in D : q \in 1 .. Len(trace') /\ trace'[q] = d
      BY <3>1
    <3> QED
      BY <3>1, <3>2
  <2>3. CASE \E e \in agenda : e.from \in Clients /\ e.req = n
    <3>1. PICK e \in agenda : e.from \in Clients /\ e.req = n
      BY <2>3
    <3>2. CASE e \in a
      BY <3>1, <3>2 DEF AgendaStep
    <3>3. CASE e \notin a
      BY <2>2, <3>1, <3>3 DEF AgendaStep
    <3> QED
      BY <3>2, <3>3
  <2>4. CASE \E i \in DOMAIN trace : trace[i].kind = "invoke" /\ trace[i].req = n
    BY <2>2, <2>4
  <2>5. state # "started"
    BY DEF AgendaStep
  <2> QED
    BY <1>1, <2>3, <2>4, <2>5 DEF NoneForgotten
<1>5. FinishedEmpty'
  BY DEF FinishedEmpty, AgendaStep
<1> QED
  BY <1>2, <1>3, <1>4, <1>5 DEF AgendaInv

---------------------------------------------------------------------------
\* What enqueue-timestamped-entries leaves.
LEMMA Enqueued ==
    ASSUME NEW a, NEW tr, NEW entries, EnqueueTimestampedEntries(a, tr, entries)
    PROVE  /\ state' \in {"finished", "requesting"} /\ running' \in BOOLEAN
           /\ a \subseteq agenda' /\ agenda' \subseteq a \cup entries
           /\ state' = "finished" /\ ~maxTime(clock') => agenda' = {}
           /\ state' = "finished" => trace' = tr \o Infos(clientRequests', logicalClock')
           /\ state' # "finished" => trace' = tr
<1> DEFINE finished == (entries = {} /\ a = {} /\ minTime(clock')) \/ maxTime(clock')
<1>1. /\ state' = IF finished THEN "finished" ELSE "requesting"
      /\ agenda' = IF finished THEN a ELSE a \cup entries
      /\ trace' = IF finished THEN tr \o Infos(clientRequests', logicalClock') ELSE tr
      /\ running' = (running /\ ~finished)
  BY DEF EnqueueTimestampedEntries
<1>2. finished /\ ~maxTime(clock') => a = {}
  OBVIOUS
<1> HIDE DEF finished
<1>3. running' \in BOOLEAN
  BY <1>1, Zenon
<1> QED
  BY <1>1, <1>2, <1>3

(* The trace of a step before its end. *)
StepTrace(tr, R, D, A) ==
    \E infos, mid, oks \in Seq(TraceRecords) :
        /\ tr = ((trace \o infos) \o mid) \o oks
        /\ InfoSegment(infos, 0, Len(infos), R)
        /\ OneRecord(mid, D)
        /\ OkSegment(oks, 0, Len(oks), A)

\* enqueue-timestamped-entries writes what is still open when the run is over.
LEMMA EnqueueWrites ==
    ASSUME trace \in Seq(TraceRecords), NEW t3, NEW R, NEW D, NEW A,
           StepTrace(t3, R, D, A),
           clientRequests' \subseteq Entries, IsFiniteSet(clientRequests'),
           logicalClock' \in Nat,
           NEW a, NEW entries, EnqueueTimestampedEntries(a, t3, entries)
    PROVE  /\ trace' \in Seq(TraceRecords)
           /\ \E p, q, t \in Nat : Grows(p, q, t, R, D, A)
<1>a. PICK infos, mid, oks \in Seq(TraceRecords) :
          /\ t3 = ((trace \o infos) \o mid) \o oks
          /\ InfoSegment(infos, 0, Len(infos), R)
          /\ OneRecord(mid, D)
          /\ OkSegment(oks, 0, Len(oks), A)
  BY DEF StepTrace
<1>b. PICK t1, t2 : t1 = trace \o infos /\ t2 = t1 \o mid
  OBVIOUS
<1>c. t3 = t2 \o oks
  BY <1>a, <1>b
<1>1. t3 \in Seq(TraceRecords)
  <2>1. t1 \in Seq(TraceRecords)
    BY <1>b, AppendedTrace DEF Appended
  <2>2. t2 \in Seq(TraceRecords)
    BY <1>b, <2>1, AppendedTrace DEF Appended
  <2> QED
    BY <1>c, <2>2, AppendedTrace DEF Appended
<1>2. PICK L : L = IF state' = "finished" THEN clientRequests' ELSE {}
  OBVIOUS
<1>3. PICK last \in Seq(TraceRecords) :
          InfoSegment(last, 0, Len(last), L) /\ trace' = t3 \o last
  <2>1. CASE state' = "finished"
    <3>1. trace' = t3 \o Infos(clientRequests', logicalClock')
      BY <2>1, Enqueued
    <3>2. /\ Infos(clientRequests', logicalClock') \in Seq(TraceRecords)
          /\ InfoSegment(Infos(clientRequests', logicalClock'), 0,
                         Len(Infos(clientRequests', logicalClock')), clientRequests')
      BY InfosType
    <3> QED
      BY <1>2, <2>1, <3>1, <3>2
  <2>2. CASE state' # "finished"
    <3>1. trace' = t3 /\ t3 \o <<>> = t3
      BY <1>1, <2>2, Enqueued, ConcatEmptySeq
    <3>2. <<>> \in Seq(TraceRecords) /\ InfoSegment(<<>>, 0, Len(<<>>), L)
      BY <1>2, <2>2 DEF InfoSegment
    <3> QED
      BY <3>1, <3>2
  <2> QED
    BY <2>1, <2>2
<1>4. trace' \in Seq(TraceRecords) /\ Written(trace, trace', R, D, A, L)
  BY <1>3, <1>a, <1>b, <1>c, PartsAreWritten
<1> QED
  BY <1>2, <1>4, WrittenGrows
\* A step of the simulation, put together.
LEMMA StepAfter ==
    ASSUME HistoryInv, DataTypeOK,
           NEW p, NEW q, NEW t, NEW R, NEW D, NEW A, HistoryStep(p, q, t, R, D, A),
           NEW a, NEW new, AgendaStep(a, new, D),
           state' \in {"finished", "requesting"}, running' \in BOOLEAN,
           faults' = faults, owed' \subseteq OwedRecords,
           IsFiniteSet(owed'), IsFiniteSet(clientRequests')
    PROVE  HistoryInv'
<1>1. TraceTypeOK'
  BY DEF HistoryInv, TraceTypeOK, HistoryStep, States
<1>2. NotYetRun'
  BY DEF NotYetRun
<1>3. ClosingInv' /\ KeptSoFar' /\ LogicalTimeIdentifiesSteps'
  BY ClosingAfter DEF HistoryInv
<1>4. AgendaInv'
  BY AgendaAfter DEF HistoryInv
<1> QED
  BY <1>1, <1>2, <1>3, <1>4 DEF HistoryInv

\* Who sent the messages of a batch, and when.
LEMMA TimestampedSent ==
    ASSUME NEW C, C \subseteq Components, NEW batch \in Batches(C), NEW n, NEW now, NEW sent
    PROVE  \A e \in Timestamped(batch, n, now, sent) :
               batch # <<>> /\ e.from \in C /\ e.sent = sent /\ e.from \notin Clients
<1> DEFINE X == [from : C, to : Components, after : Delays]
<1>1. CASE batch = <<>>
  BY <1>1 DEF Timestamped
<1>2. CASE batch \in UNION {[1 .. k -> X] : k \in 1 .. MaxBatch}
  <2>1. PICK k \in 1 .. MaxBatch : batch \in [1 .. k -> X]
    BY <1>2
  <2>2. k \in Nat /\ 1 <= k
    BY SchedulerAssumption
  <2>3. batch \in Seq(X) /\ Len(batch) = k
    <3> HIDE DEF X
    <3>1. batch \in Seq(X)
      BY <2>1, <2>2, SeqDef
    <3> QED
      BY <2>1, <2>2, <3>1
  <2>4. batch # <<>>
    BY <2>2, <2>3
  <2>5. \A i \in 1 .. Len(batch) : batch[i].from \in C
    BY <2>1, <2>3
  <2> QED
    BY <2>4, <2>5, SchedulerAssumption DEF Timestamped, Entry
<1> QED
  BY <1>1, <1>2 DEF Batches

\* tick! and the idle step leave the history as it is, but for its end.
LEMMA HistoryTick ==
    ASSUME HistoryInv, SchedInv, SchedInv', Tick \/ Idle
    PROVE  HistoryInv'
<1>1. PICK a, new :
          /\ state # "started" /\ a = agenda
          /\ logicalClock' \in {logicalClock, logicalClock + 1}
          /\ \A f \in new : /\ f.from \in Components /\ f.from \notin Clients
                            /\ f.sent = logicalClock + 1 /\ logicalClock' = logicalClock + 1
          /\ UNCHANGED <<clientRequests, faults, owed>>
          /\ EnqueueTimestampedEntries(a, trace, new)
  <2>1. CASE Tick
    <3>1. PICK batch \in Batches(Components) :
              /\ state # "started"
              /\ logicalClock' = IF batch = <<>> THEN logicalClock ELSE logicalClock + 1
              /\ UNCHANGED <<clientRequests, faults, owed>>
              /\ EnqueueTimestampedEntries(agenda, trace,
                     Timestamped(batch, nr, clock', logicalClock + 1))
      BY <2>1 DEF Tick, Active
    <3>2. \A f \in Timestamped(batch, nr, clock', logicalClock + 1) :
              /\ batch # <<>> /\ f.from \in Components /\ f.from \notin Clients
              /\ f.sent = logicalClock + 1
      BY TimestampedSent
    <3> QED
      BY <3>1, <3>2
  <2>2. CASE Idle
    <3>1. /\ state # "started" /\ agenda = {}
          /\ UNCHANGED <<logicalClock, clientRequests, faults, owed>>
          /\ EnqueueTimestampedEntries({}, trace, {})
      BY <2>2 DEF Idle, Active
    <3> QED
      BY <3>1
  <2> QED
    BY <2>1, <2>2
<1>2. /\ DataTypeOK /\ DataTypeOK' /\ TraceTypeOK
  BY DEF SchedInv, HistoryInv
<1>3. /\ logicalClock \in Nat /\ logicalClock' \in Nat /\ logicalClock <= logicalClock'
  BY <1>1, <1>2 DEF DataTypeOK
<1>4. /\ <<>> \in Seq(TraceRecords) /\ trace \in Seq(TraceRecords)
      /\ trace \o <<>> = trace
  BY <1>2, ConcatEmptySeq DEF TraceTypeOK
<1>5. InfoSegment(<<>>, 0, Len(<<>>), {}) /\ OkSegment(<<>>, 0, Len(<<>>), {})
  BY DEF InfoSegment, OkSegment
<1>6. clientRequests' \subseteq Entries /\ IsFiniteSet(clientRequests')
      /\ IsFiniteSet(owed') /\ owed' \subseteq OwedRecords
  BY <1>1, <1>2 DEF DataTypeOK, TraceTypeOK
<1>7. trace' \in Seq(TraceRecords) /\ \E p, q, t \in Nat : Grows(p, q, t, {}, {}, {})
  <2>1. trace = ((trace \o <<>>) \o <<>>) \o <<>>
    BY <1>4
  <2>2. StepTrace(trace, {}, {}, {})
    BY <1>4, <1>5, <2>1 DEF StepTrace, OneRecord
  <2> QED
    BY <1>1, <1>3, <1>4, <1>6, <2>2, EnqueueWrites
<1>8. PICK p, q, t \in Nat : Grows(p, q, t, {}, {}, {})
  BY <1>7
<1>9. HistoryStep(p, q, t, {}, {}, {})
  <2>1. Started({}) = {}
    BY DEF Started
  <2>2. RecordsOfNow({}) /\ RequestsOfNow({}, {})
    BY <2>1 DEF RecordsOfNow, RequestsOfNow
  <2>3. WaitingAfter({}, {}, {}) /\ OwedAfter({}, {})
    BY <1>1, <2>1 DEF WaitingAfter, OwedAfter
  <2> QED
    BY <1>3, <1>4, <1>7, <1>8, <2>2, <2>3 DEF HistoryStep
<1>10. /\ state' \in {"finished", "requesting"} /\ running' \in BOOLEAN
       /\ a \subseteq agenda' /\ agenda' \subseteq a \cup new
       /\ state' = "finished" /\ ~maxTime(clock') => agenda' = {}
  BY <1>1, Enqueued
<1>11. AgendaStep(a, new, {})
  <2>1. Started({}) = {}
    BY DEF Started
  <2>2. a \subseteq agenda /\ agenda \ a = {}
    BY <1>1
  <2>3. \A f \in new : f.from \notin Clients /\ f.sent = logicalClock + 1 /\ f.sent <= logicalClock'
    BY <1>1, <1>3
  <2> QED
    BY <1>1, <1>10, <2>1, <2>2, <2>3 DEF AgendaStep
<1> QED
  BY <1>1, <1>2, <1>6, <1>9, <1>10, <1>11, StepAfter
(* The record of an entry in the trace. *)
RecordOf(d, e, time, dropped) ==
    /\ d \in TraceRecords
    /\ d.kind \in {"invoke", "message"} /\ d.dropped = dropped
    /\ d.from = e.from /\ d.to = e.to /\ d.recv = time
    /\ d.kind = "invoke" <=> e.from \in Clients
    /\ e.from \in Clients => d.req = e.req /\ d.sent = logicalClock
    /\ e.from \notin Clients => d.sent = e.sent

\* What append-network-trace! is given for an entry.
LEMMA DeliveryType ==
    ASSUME NEW e \in Entries, NEW time \in Nat, NEW dropped \in BOOLEAN,
           logicalClock \in Nat, NEW d, d = Delivery(e, time, dropped)
    PROVE  RecordOf(d, e, time, dropped)
<1>1. CASE e.from \in Clients
  <2>1. d = Traced("invoke", e.from, e.to, logicalClock, time, dropped, e.req)
    BY <1>1 DEF Delivery
  <2> QED
    BY <1>1, <2>1 DEF RecordOf, Traced, TraceRecords, Entries
<1>2. CASE e.from \notin Clients
  <2>1. d = Traced("message", e.from, e.to, e.sent, time, dropped, 0)
    BY <1>2 DEF Delivery
  <2> QED
    BY <1>2, <2>1 DEF RecordOf, Traced, TraceRecords, Entries
<1> QED
  BY <1>1, <1>2

\* An entry that is dropped or delayed starts no request.
LEMMA HistoryDropOrDelay ==
    ASSUME HistoryInv, SchedInv, SchedInv', DropOrDelay
    PROVE  HistoryInv'
<1>a. PICK e \in agenda :
          LET expired  == expiredClients(e.at)
              requests == clientRequests \ expired
              busy     == Busy(e, requests)
              time     == IF busy THEN logicalClock ELSE logicalClock + 1
              dropped  == shouldDrop(e, time)
          IN  /\ Active
              /\ busy \/ dropped
              /\ logicalClock' = time
              /\ clientRequests' = requests
              /\ EnqueueTimestampedEntries(
                     Dequeue(e, busy),
                     trace \o Infos(expired, logicalClock)
                           \o (IF dropped THEN <<Delivery(e, time, TRUE)>> ELSE <<>>),
                     {})
              /\ UNCHANGED <<faults, owed>>
  BY Zenon DEF DropOrDelay
<1>b. PICK R : R = expiredClients(e.at)
  OBVIOUS
<1>c. PICK busy \in BOOLEAN : busy = Busy(e, clientRequests \ R)
  BY DEF Busy
<1>d. PICK time : time = IF busy THEN logicalClock ELSE logicalClock + 1
  OBVIOUS
<1>e. PICK dropped \in BOOLEAN : dropped = shouldDrop(e, time)
  BY DEF shouldDrop
<1>1. /\ state # "started"
      /\ busy \/ dropped
      /\ logicalClock' = time
      /\ clientRequests' = clientRequests \ R
      /\ EnqueueTimestampedEntries(
             Dequeue(e, busy),
             trace \o Infos(R, logicalClock)
                   \o (IF dropped THEN <<Delivery(e, time, TRUE)>> ELSE <<>>),
             {})
      /\ UNCHANGED <<faults, owed>>
  BY <1>a, <1>b, <1>c, <1>d, <1>e, Zenon DEF Active
<1>2. DataTypeOK /\ DataTypeOK' /\ TraceTypeOK /\ RequestsOfTest
  BY DEF SchedInv, HistoryInv, ClosingInv
<1>3. /\ logicalClock \in Nat /\ logicalClock' \in Nat /\ logicalClock <= logicalClock'
      /\ time \in Nat /\ e \in Entries
  BY <1>1, <1>2, <1>d DEF DataTypeOK
<1>4. /\ R \subseteq clientRequests /\ R \subseteq Entries /\ IsFiniteSet(R)
      /\ clientRequests' \subseteq Entries /\ IsFiniteSet(clientRequests')
  <2>1. R \subseteq clientRequests
    BY <1>b DEF expiredClients
  <2> QED
    BY <1>1, <1>2, <2>1, FS_Subset DEF DataTypeOK, TraceTypeOK
<1>5. PICK d : d = Delivery(e, time, TRUE)
  OBVIOUS
<1>6. /\ d \in TraceRecords /\ d.kind \in {"invoke", "message"} /\ d.dropped
      /\ d.kind = "invoke" <=> e.from \in Clients
      /\ e.from \in Clients => d.req = e.req
  <2>1. RecordOf(d, e, time, TRUE)
    BY <1>3, <1>5, DeliveryType
  <2> QED
    BY <2>1 DEF RecordOf
<1>7. PICK D, mid : /\ mid = IF dropped THEN <<d>> ELSE <<>>
                    /\ D = IF dropped THEN {d} ELSE {}
  OBVIOUS
<1>f. mid \in Seq(TraceRecords)
  <2>1. <<d>> \in Seq(TraceRecords) /\ <<>> \in Seq(TraceRecords)
    BY <1>6
  <2> QED
    BY <1>7, <2>1, Zenon
<1>8. OneRecord(mid, D)
  BY <1>7 DEF OneRecord
<1>9. PICK infos \in Seq(TraceRecords) :
          infos = Infos(R, logicalClock) /\ InfoSegment(infos, 0, Len(infos), R)
  BY <1>3, <1>4, InfosType
<1>10. PICK t1, t2 : t1 = trace \o infos /\ t2 = t1 \o mid
  OBVIOUS
<1>11. EnqueueTimestampedEntries(Dequeue(e, busy), t2, {})
  BY <1>1, <1>5, <1>7, <1>9, <1>10
<1>12. trace \in Seq(TraceRecords) /\ t2 \in Seq(TraceRecords)
  <2>1. trace \in Seq(TraceRecords)
    BY <1>2 DEF TraceTypeOK
  <2>2. t1 \in Seq(TraceRecords)
    BY <1>10, <2>1, AppendedTrace DEF Appended
  <2> QED
    BY <1>10, <1>f, <2>2, AppendedTrace DEF Appended
<1>13. PICK oks \in Seq(TraceRecords) : t2 = t2 \o oks /\ OkSegment(oks, 0, Len(oks), {})
  <2>1. t2 = t2 \o <<>> /\ <<>> \in Seq(TraceRecords) /\ OkSegment(<<>>, 0, Len(<<>>), {})
    BY <1>12, ConcatEmptySeq DEF OkSegment
  <2> QED
    BY <2>1
<1>14. trace' \in Seq(TraceRecords) /\ \E p, q, t \in Nat : Grows(p, q, t, R, D, {})
  <2>1. t2 = ((trace \o infos) \o mid) \o oks
    BY <1>10, <1>13
  <2>2. StepTrace(t2, R, D, {})
    BY <1>8, <1>9, <1>13, <1>f, <2>1 DEF StepTrace
  <2> QED
    BY <1>3, <1>4, <1>11, <1>12, <2>2, EnqueueWrites
<1>15. PICK p, q, t \in Nat : Grows(p, q, t, R, D, {})
  BY <1>14
<1>16. Started(D) = {} /\ \A x \in D : x = d
  BY <1>6, <1>7 DEF Started
<1>17. HistoryStep(p, q, t, R, D, {})
  <2>1. RecordsOfNow(D) /\ RequestsOfNow(R, D)
    BY <1>6, <1>16 DEF RecordsOfNow, RequestsOfNow
  <2>2. WaitingAfter(R, D, {}) /\ OwedAfter(D, {})
    BY <1>1, <1>4, <1>16 DEF WaitingAfter, OwedAfter
  <2> QED
    BY <1>3, <1>12, <1>14, <1>15, <2>1, <2>2 DEF HistoryStep
<1>18. /\ state' \in {"finished", "requesting"} /\ running' \in BOOLEAN
       /\ Dequeue(e, busy) \subseteq agenda' /\ agenda' \subseteq Dequeue(e, busy)
       /\ state' = "finished" /\ ~maxTime(clock') => agenda' = {}
  BY <1>11, Enqueued
<1>19. PICK a, new : a = agenda \ {e} /\ new = IF busy THEN {Delayed(e)} ELSE {}
  OBVIOUS
<1>20. AgendaStep(a, new, D)
  <2>1. busy => e.from \in Clients
    BY <1>1, <1>2, <1>c DEF Busy, RequestsOfTest, OfTest
  <2>2. Delayed(e).from = e.from /\ Delayed(e).req = e.req
    BY DEF Delayed, Entry
  <2>3. a \subseteq agenda /\ a \subseteq agenda' /\ agenda' \subseteq a \cup new
    BY <1>18, <1>19 DEF Dequeue
  <2>4. \A f \in new : /\ f = Delayed(e) /\ f \in agenda'
                       /\ f.from = e.from /\ f.req = e.req
                       /\ f.from \in Clients /\ f.from \notin Components
    BY <1>18, <1>19, <2>1, <2>2, SchedulerAssumption DEF Dequeue
  <2>5. e \in agenda \ a /\ \A f \in agenda \ a : f = e
    BY <1>19
  <2>6. e.from \in Clients => \/ \E f \in agenda' : f.from \in Clients /\ f.req = e.req
                              \/ \E x \in D : x.kind = "invoke" /\ x.req = e.req
    <3>1. CASE busy
      <4>1. Delayed(e) \in new
        BY <1>19, <3>1
      <4> QED
        BY <2>4, <4>1
    <3>2. CASE dropped
      BY <1>6, <1>7, <3>2
    <3> QED
      BY <1>1, <3>1, <3>2
  <2> QED
    BY <1>1, <1>16, <1>18, <2>3, <2>4, <2>5, <2>6 DEF AgendaStep
<1>21. IsFiniteSet(owed') /\ owed' \subseteq OwedRecords
  BY <1>1, <1>2 DEF TraceTypeOK
<1> QED
  BY <1>1, <1>2, <1>4, <1>17, <1>18, <1>20, <1>21, StepAfter
\* What an executed entry, its requests and its answers are to the history.
LEMMA ExecuteStep ==
    ASSUME HistoryInv, DataTypeOK, NEW e \in agenda, NEW R, R \subseteq clientRequests,
           ~Busy(e, clientRequests \ R),
           NEW d, d = Delivery(e, logicalClock + 1, FALSE),
           NEW A, NEW holding,
           holding = owed \cup (IF e.from \in Clients
                                THEN {[from |-> e.from, by |-> e.to, req |-> e.req]} ELSE {}),
           A \subseteq holding, owed' = holding \ A,
           clientRequests' = removeClientRequests(
               (clientRequests \ R) \cup (IF e.from \in Clients THEN {e} ELSE {}), A),
           logicalClock + 1 <= logicalClock'
    PROVE  /\ RecordsOfNow({d}) /\ RequestsOfNow(R, {d})
           /\ WaitingAfter(R, {d}, A) /\ OwedAfter({d}, A)
<1>1. logicalClock \in Nat /\ e \in Entries
  BY DEF DataTypeOK
<1>2. /\ d.kind \in {"invoke", "message"} /\ d.dropped = FALSE
      /\ d.from = e.from /\ d.to = e.to /\ d.recv = logicalClock + 1
      /\ d.kind = "invoke" <=> e.from \in Clients
      /\ e.from \in Clients => d.req = e.req /\ d.sent = logicalClock
      /\ e.from \notin Clients => d.sent = e.sent
  <2>1. logicalClock + 1 \in Nat
    BY <1>1
  <2>2. RecordOf(d, e, logicalClock + 1, FALSE)
    BY <1>1, <2>1, DeliveryType
  <2> QED
    BY <2>2 DEF RecordOf
<1>3. AgendaToExecute /\ SentSoFar
  BY DEF HistoryInv, AgendaInv
<1>4. /\ e.from \in Clients => Started({d}) = {d}
      /\ e.from \notin Clients => Started({d}) = {}
  BY <1>2 DEF Started
<1>5. RecordsOfNow({d})
  <2>1. d.sent <= logicalClock
    <3>1. CASE e.from \in Clients
      <4>1. d.sent = logicalClock
        BY <1>2, <3>1
      <4>2. \A n \in Nat : n <= n
        OBVIOUS
      <4> QED
        BY <1>1, <4>1, <4>2, Zenon
    <3>2. CASE e.from \notin Clients
      <4>1. e.from \in Components
        BY <1>1, <3>2 DEF Entries
      <4> QED
        BY <1>2, <1>3, <3>2, <4>1 DEF SentSoFar
    <3> QED
      BY <3>1, <3>2
  <2>2. d.kind = "message" => \A i \in Kept : trace[i].recv = d.sent => trace[i].to = d.from
    BY <1>1, <1>2, <1>3 DEF SentSoFar, Entries
  <2> QED
    BY <1>2, <2>1, <2>2 DEF RecordsOfNow
<1>6. RequestsOfNow(R, {d})
  <2>1. CASE e.from \in Clients
    <3>1. OfTest(e) /\ \A i \in Invokes : trace[i].req # e.req
      BY <1>3, <2>1 DEF AgendaToExecute
    <3>2. \A r \in clientRequests \ R : r.from # e.from
      BY DEF Busy
    <3> QED
      BY <1>2, <1>4, <2>1, <3>1, <3>2 DEF RequestsOfNow, OfTest
  <2>2. CASE e.from \notin Clients
    BY <1>4, <2>2 DEF RequestsOfNow
  <2> QED
    BY <2>1, <2>2
<1>7. WaitingAfter(R, {d}, A)
  <2>1. CASE e.from \in Clients
    <3>1. \A r : r \in clientRequests' <=>
              (r \in clientRequests \ R \/ r = e) /\ \A a \in A : a.from # r.from
      BY <2>1 DEF removeClientRequests
    <3>2. Started({d}) = {d} /\ d.from = e.from /\ d.req = e.req
      BY <1>2, <1>4, <2>1
    <3>3. \A r \in clientRequests' :
            /\ r \in clientRequests \ R \/ (d.from = r.from /\ d.req = r.req)
            /\ \A a \in A : a.from # r.from
      BY <3>1, <3>2
    <3>4. (\E a \in A : a.from = d.from) \/ e \in clientRequests'
      BY <3>1, <3>2
    <3>5. \A r \in clientRequests \ R :
            (\E a \in A : a.from = r.from) \/ r \in clientRequests'
      BY <3>1
    <3> QED
      BY <3>2, <3>3, <3>4, <3>5 DEF WaitingAfter
  <2>2. CASE e.from \notin Clients
    <3>1. \A r : r \in clientRequests' <=>
              r \in clientRequests \ R /\ \A a \in A : a.from # r.from
      BY <2>2 DEF removeClientRequests
    <3> QED
      BY <1>4, <2>2, <3>1 DEF WaitingAfter
  <2> QED
    BY <2>1, <2>2
<1>8. OwedAfter({d}, A)
  <2>1. CASE e.from \in Clients
    <3>1. Started({d}) = {d} /\ d.from = e.from /\ d.req = e.req
      BY <1>2, <1>4, <2>1
    <3>2. \A o \in holding : o \in owed \/ (o.from = e.from /\ o.req = e.req)
      BY <2>1
    <3>3. owed' \cup A \subseteq holding
      OBVIOUS
    <3> QED
      BY <3>1, <3>2, <3>3 DEF OwedAfter
  <2>2. CASE e.from \notin Clients
    BY <1>4, <2>2 DEF OwedAfter
  <2> QED
    BY <2>1, <2>2
<1> QED
  BY <1>5, <1>6, <1>7, <1>8

\* An entry that is executed.
LEMMA HistoryExecute ==
    ASSUME HistoryInv, SchedInv, SchedInv', Execute
    PROVE  HistoryInv'
<1>a. PICK e \in agenda :
          LET expired  == expiredClients(e.at)
              requests == clientRequests \ expired
              time     == logicalClock + 1
              isClient == e.from \in Clients
              holding  == owed \cup IF isClient
                              THEN {[from |-> e.from, by |-> e.to, req |-> e.req]} ELSE {}
          IN  /\ Active
              /\ ~Busy(e, requests)
              /\ \E batch \in Batches({e.to}), answers \in SUBSET {o \in holding : o.by = e.to} :
                  /\ logicalClock' = IF answers = {} THEN time ELSE time + 1
                  /\ clientRequests' = removeClientRequests(
                                          requests \cup (IF isClient THEN {e} ELSE {}), answers)
                  /\ owed' = holding \ answers
                  /\ EnqueueTimestampedEntries(
                         agenda \ {e},
                         trace \o Infos(expired, logicalClock) \o <<Delivery(e, time, FALSE)>>
                               \o Oks(answers, time + 1),
                         Timestamped(batch, nr, e.at, time))
              /\ UNCHANGED faults
  BY ZenonT(60) DEF Execute
<1>b. PICK R : R = expiredClients(e.at)
  OBVIOUS
<1>c. PICK holding :
          holding = owed \cup (IF e.from \in Clients
                               THEN {[from |-> e.from, by |-> e.to, req |-> e.req]} ELSE {})
  OBVIOUS
<1>d. PICK batch \in Batches({e.to}), A \in SUBSET {o \in holding : o.by = e.to} :
          /\ logicalClock' = IF A = {} THEN logicalClock + 1 ELSE (logicalClock + 1) + 1
          /\ clientRequests' = removeClientRequests(
                 (clientRequests \ R) \cup (IF e.from \in Clients THEN {e} ELSE {}), A)
          /\ owed' = holding \ A
          /\ EnqueueTimestampedEntries(
                 agenda \ {e},
                 trace \o Infos(R, logicalClock) \o <<Delivery(e, logicalClock + 1, FALSE)>>
                       \o Oks(A, (logicalClock + 1) + 1),
                 Timestamped(batch, nr, e.at, logicalClock + 1))
  BY <1>a, <1>b, <1>c, Zenon
<1>1. state # "started" /\ ~Busy(e, clientRequests \ R) /\ faults' = faults
  BY <1>a, <1>b DEF Active
<1>2. DataTypeOK /\ DataTypeOK' /\ TraceTypeOK /\ AgendaToExecute
  BY DEF SchedInv, HistoryInv, AgendaInv
<1>3. /\ logicalClock \in Nat /\ logicalClock' \in Nat /\ logicalClock <= logicalClock'
      /\ logicalClock + 1 <= logicalClock' /\ logicalClock + 1 \in Nat
      /\ (logicalClock + 1) + 1 \in Nat \ {0}
      /\ e \in Entries /\ {e.to} \subseteq Components
  BY <1>2, <1>d DEF DataTypeOK, Entries
<1>4. /\ R \subseteq clientRequests /\ R \subseteq Entries /\ IsFiniteSet(R)
  <2>1. R \subseteq clientRequests
    BY <1>b DEF expiredClients
  <2> QED
    BY <1>2, <2>1, FS_Subset DEF DataTypeOK, TraceTypeOK
<1>5. clientRequests' \subseteq Entries /\ IsFiniteSet(clientRequests')
  <2>1. IsFiniteSet(clientRequests \cup {e})
    BY <1>2, FS_AddElement DEF TraceTypeOK
  <2>2. clientRequests' \subseteq clientRequests \cup {e}
    BY <1>d DEF removeClientRequests
  <2> QED
    BY <1>2, <2>1, <2>2, FS_Subset DEF DataTypeOK
<1>6. /\ holding \subseteq OwedRecords /\ IsFiniteSet(holding) /\ A \subseteq holding
      /\ owed' \subseteq holding
  <2>1. owed \subseteq OwedRecords /\ IsFiniteSet(owed)
    BY <1>2 DEF TraceTypeOK
  <2>2. CASE e.from \in Clients
    <3>1. PICK o : o = [from |-> e.from, by |-> e.to, req |-> e.req]
      OBVIOUS
    <3>2. o \in OwedRecords
      BY <1>3, <2>2, <3>1 DEF OwedRecords, Entries
    <3>3. holding = owed \cup {o}
      BY <1>c, <2>2, <3>1
    <3> QED
      BY <1>d, <2>1, <3>2, <3>3, FS_AddElement
  <2>3. CASE e.from \notin Clients
    <3>1. holding = owed
      BY <1>c, <2>3
    <3> QED
      BY <1>d, <2>1, <3>1
  <2> QED
    BY <2>2, <2>3
<1>7. /\ A \subseteq OwedRecords /\ IsFiniteSet(A)
      /\ owed' \subseteq OwedRecords /\ IsFiniteSet(owed')
  BY <1>6, FS_Subset
<1>8. PICK d : d = Delivery(e, logicalClock + 1, FALSE)
  OBVIOUS
<1>9. /\ d \in TraceRecords /\ d.to = e.to
      /\ d.kind = "invoke" <=> e.from \in Clients
      /\ e.from \in Clients => d.req = e.req
  <2>1. logicalClock \in Nat /\ logicalClock + 1 \in Nat /\ e \in Entries
    BY <1>3
  <2>2. RecordOf(d, e, logicalClock + 1, FALSE)
    BY <1>8, <2>1, DeliveryType
  <2> QED
    BY <2>2 DEF RecordOf
<1>10. PICK mid \in Seq(TraceRecords) : mid = <<d>> /\ OneRecord(mid, {d})
  <2>1. <<d>> \in Seq(TraceRecords) /\ OneRecord(<<d>>, {d})
    BY <1>9 DEF OneRecord
  <2> QED
    BY <2>1
<1>11. PICK infos \in Seq(TraceRecords) :
          infos = Infos(R, logicalClock) /\ InfoSegment(infos, 0, Len(infos), R)
  BY <1>3, <1>4, InfosType
<1>12. PICK oks \in Seq(TraceRecords) :
          oks = Oks(A, (logicalClock + 1) + 1) /\ OkSegment(oks, 0, Len(oks), A)
  BY <1>3, <1>7, OksType
<1>13. PICK tr : tr = ((trace \o infos) \o mid) \o oks
  OBVIOUS
<1>14. PICK a, new : a = agenda \ {e} /\ new = Timestamped(batch, nr, e.at, logicalClock + 1)
  OBVIOUS
<1>15. EnqueueTimestampedEntries(a, tr, new)
  BY <1>d, <1>8, <1>10, <1>11, <1>12, <1>13, <1>14
<1>16. trace' \in Seq(TraceRecords) /\ \E p, q, t \in Nat : Grows(p, q, t, R, {d}, A)
  <2>1. StepTrace(tr, R, {d}, A)
    BY <1>10, <1>11, <1>12, <1>13 DEF StepTrace
  <2>2. trace \in Seq(TraceRecords)
    BY <1>2 DEF TraceTypeOK
  <2> QED
    BY <1>3, <1>5, <1>15, <2>1, <2>2, EnqueueWrites
<1>17. PICK p, q, t \in Nat : Grows(p, q, t, R, {d}, A)
  BY <1>16
<1>18. HistoryStep(p, q, t, R, {d}, A)
  <2>1. /\ RecordsOfNow({d}) /\ RequestsOfNow(R, {d})
        /\ WaitingAfter(R, {d}, A) /\ OwedAfter({d}, A)
    BY <1>c, <1>d, <1>1, <1>2, <1>3, <1>4, <1>6, <1>8, ExecuteStep
  <2>2. trace \in Seq(TraceRecords)
    BY <1>2 DEF TraceTypeOK
  <2> QED
    BY <1>3, <1>16, <1>17, <2>1, <2>2 DEF HistoryStep
<1>19. /\ state' \in {"finished", "requesting"} /\ running' \in BOOLEAN
       /\ a \subseteq agenda' /\ agenda' \subseteq a \cup new
       /\ state' = "finished" /\ ~maxTime(clock') => agenda' = {}
  BY <1>15, Enqueued
<1>20. AgendaStep(a, new, {d})
  <2>1. \A f \in new : f.from = e.to /\ f.sent = logicalClock + 1 /\ f.from \notin Clients
    BY <1>3, <1>14, TimestampedSent, SMTT(30)
  <2>2. e \in agenda \ a /\ a \subseteq agenda /\ (\A f \in agenda \ a : f = e) /\ e \notin a
    BY <1>14
  <2>3. \A x \in Started({d}) : x = d /\ e.from \in Clients
    BY <1>9 DEF Started
  <2>4. \A x \in Started({d}), f \in a : f.from \in Clients => f.req # x.req
    BY <1>2, <1>9, <2>2, <2>3 DEF AgendaToExecute
  <2> QED
    BY <1>1, <1>3, <1>9, <1>19, <2>1, <2>2, <2>4 DEF AgendaStep
<1> QED
  BY <1>1, <1>2, <1>5, <1>7, <1>18, <1>19, <1>20, StepAfter
---------------------------------------------------------------------------
\* Nothing is wrong with an empty history.
LEMMA HistoryInit == Init => HistoryInv
<1> SUFFICES ASSUME Init
             PROVE  HistoryInv
  OBVIOUS
<1>1. /\ state = "started" /\ running = FALSE /\ agenda = {} /\ clientRequests = {}
      /\ faults = {} /\ trace = <<>> /\ owed = {}
  BY DEF Init, InitData
<1>2. Kept = {} /\ Invokes = {} /\ DOMAIN trace = {}
  BY <1>1 DEF Kept, Invokes
<1>3. TraceTypeOK
  <2>1. state \in States /\ faults \subseteq Faults /\ owed \subseteq OwedRecords
    BY <1>1 DEF States
  <2>2. running \in BOOLEAN
    BY <1>1
  <2>3. trace \in Seq(TraceRecords)
    BY <1>1
  <2>4. IsFiniteSet(clientRequests) /\ IsFiniteSet(owed)
    BY <1>1, FS_EmptySet
  <2> QED
    BY <2>1, <2>2, <2>3, <2>4 DEF TraceTypeOK
<1>4. NotYetRun
  BY <1>1 DEF NotYetRun
<1>5. ClosingInv
  BY <1>1, <1>2 DEF ClosingInv, RequestsOfTest, ExecutedOnce, AnsweredWereExecuted,
        WaitingUnanswered, ClosedOrWaiting, ProcessesAreSequential,
        AnsweredNeverExpires, HistoryComplete
<1>6. AgendaInv
  BY <1>1 DEF AgendaInv, AgendaToExecute, SentSoFar, NoneForgotten, FinishedEmpty
<1>7. KeptSoFar /\ LogicalTimeIdentifiesSteps
  BY <1>2 DEF KeptSoFar, LogicalTimeIdentifiesSteps
<1> QED
  BY <1>3, <1>4, <1>5, <1>6, <1>7 DEF HistoryInv

\* A command that leaves the history empty.
LEMMA EmptyHistoryAfter ==
    ASSUME trace' = <<>>, clientRequests' = {}, owed' = {},
           state' \in States \ {"finished"}, running' \in BOOLEAN, faults' \subseteq Faults,
           (AgendaToExecute /\ SentSoFar /\ NoneForgotten)'
    PROVE  HistoryInv'
<1>1. Kept' = {} /\ Invokes' = {} /\ DOMAIN trace' = {}
  BY DEF Kept, Invokes
<1>2. TraceTypeOK'
  BY FS_EmptySet DEF TraceTypeOK
<1>3. NotYetRun' /\ FinishedEmpty'
  BY DEF NotYetRun, FinishedEmpty
<1>4. ClosingInv'
  BY <1>1 DEF ClosingInv, RequestsOfTest, ExecutedOnce, AnsweredWereExecuted,
        WaitingUnanswered, ClosedOrWaiting, ProcessesAreSequential,
        AnsweredNeverExpires, HistoryComplete
<1>5. KeptSoFar' /\ LogicalTimeIdentifiesSteps'
  BY <1>1 DEF KeptSoFar, LogicalTimeIdentifiesSteps
<1> QED
  BY <1>2, <1>3, <1>4, <1>5 DEF HistoryInv, AgendaInv

\* The commands before a run, and reset.
LEMMA HistoryCommands ==
    ASSUME HistoryInv, SchedInv, LoadTest \/ RegisterExecutor \/ CreateRun \/ Run \/ Reset
    PROVE  HistoryInv'
<1>1. TraceTypeOK /\ NotYetRun /\ AgendaInv /\ DataTypeOK /\ StartedEmpty
  BY DEF HistoryInv, SchedInv
<1>2. faults \subseteq Faults /\ running \in BOOLEAN
  BY <1>1 DEF TraceTypeOK
<1>3. CASE LoadTest
  <2>1. /\ state = "started" /\ agenda = {} /\ trace = <<>> /\ clientRequests = {} /\ owed = {}
    BY <1>1, <1>3 DEF LoadTest, NotYetRun, StartedEmpty
  <2>2. /\ state' = "test-prepared" /\ agenda' = TestEntries
        /\ UNCHANGED <<running, logicalClock, clientRequests, faults, trace, owed>>
    BY <1>3, <2>1 DEF LoadTest
  <2>3. Kept' = {} /\ Invokes' = {}
    BY <2>1, <2>2 DEF Kept, Invokes
  <2>4. Len(TestAgenda) \in Nat /\ \A n \in 1 .. Len(TestAgenda) :
            TestAgenda[n] \in [from : Clients, to : Components, at : Nat]
    <3> DEFINE T == [from : Clients, to : Components, at : Nat]
    <3>1. TestAgenda \in Seq(T)
      BY SchedulerAssumption
    <3> HIDE DEF T
    <3>2. Len(TestAgenda) \in Nat /\ \A n \in 1 .. Len(TestAgenda) : TestAgenda[n] \in T
      BY <3>1
    <3> QED
      BY <3>2 DEF T
  <2>5. \A e \in TestEntries : OfTest(e) /\ e.from \notin Components
    BY <2>4, SchedulerAssumption DEF TestEntries, Entry, OfTest
  <2>6. \A e, f \in TestEntries : e.req = f.req => e = f
    BY DEF TestEntries, Entry
  <2>7. \A n \in 1 .. Len(TestAgenda) : \E e \in TestEntries : e.from \in Clients /\ e.req = n
    <3>1. SUFFICES ASSUME NEW n \in 1 .. Len(TestAgenda)
                   PROVE  \E e \in TestEntries : e.from \in Clients /\ e.req = n
      OBVIOUS
    <3>2. PICK e : e = Entry(n, TestAgenda[n].from, TestAgenda[n].to, TestAgenda[n].at, NotSent, n)
      OBVIOUS
    <3>3. e \in TestEntries
      BY <3>2 DEF TestEntries
    <3>4. e.from = TestAgenda[n].from /\ e.req = n
      BY <3>2 DEF Entry
    <3>5. TestAgenda[n].from \in Clients
      BY <2>4
    <3> QED
      BY <3>3, <3>4, <3>5
  <2>8. AgendaToExecute'
    BY <2>2, <2>3, <2>5, <2>6 DEF AgendaToExecute, OfTest
  <2>9. SentSoFar' /\ NoneForgotten'
    BY <2>2, <2>5, <2>7 DEF SentSoFar, NoneForgotten
  <2> QED
    BY <1>2, <2>1, <2>2, <2>8, <2>9, EmptyHistoryAfter DEF States
<1>4. CASE RegisterExecutor
  <2>1. PICK batch \in Batches(Components) :
            /\ state = "test-prepared" /\ state' = "inits-prepared"
            /\ agenda' = agenda \cup Timestamped(batch, nr, clock, logicalClock)
            /\ UNCHANGED <<running, logicalClock, clientRequests, faults, trace, owed>>
    BY <1>4 DEF RegisterExecutor
  <2>2. trace = <<>> /\ clientRequests = {} /\ owed = {}
    BY <1>1, <2>1 DEF NotYetRun
  <2>3. Kept' = {} /\ Invokes' = {} /\ DOMAIN trace = {}
    BY <2>1, <2>2 DEF Kept, Invokes
  <2>4. PICK new : new = Timestamped(batch, nr, clock, logicalClock)
    OBVIOUS
  <2>5. \A e \in new : e.from \notin Clients /\ e.sent = logicalClock
    BY <2>4, TimestampedSent
  <2>6. agenda' = agenda \cup new
    BY <2>1, <2>4
  <2>7. AgendaToExecute'
    BY <1>1, <2>3, <2>5, <2>6 DEF AgendaInv, AgendaToExecute, OfTest
  <2>8. SentSoFar'
    <3>1. logicalClock \in Nat /\ logicalClock' = logicalClock
      BY <1>1, <2>1 DEF DataTypeOK
    <3>2. \A e \in new : e.sent <= logicalClock'
      BY <2>5, <3>1
    <3>3. \A e \in agenda : e.from \in Components => e.sent <= logicalClock'
      BY <1>1, <3>1 DEF AgendaInv, SentSoFar
    <3> QED
      BY <2>3, <2>6, <3>2, <3>3 DEF SentSoFar
  <2>9. NoneForgotten'
    BY <1>1, <2>1, <2>3, <2>6 DEF AgendaInv, NoneForgotten
  <2> QED
    BY <1>2, <2>1, <2>2, <2>7, <2>8, <2>9, EmptyHistoryAfter DEF States
<1>5. CASE CreateRun
  <2>1. /\ state = "inits-prepared" /\ state' = "ready" /\ faults' \subseteq Faults
        /\ UNCHANGED <<running, agenda, logicalClock, clientRequests, trace, owed>>
    BY <1>5, SchedulerAssumption DEF CreateRun, data
  <2>2. trace = <<>> /\ clientRequests = {} /\ owed = {}
    BY <1>1, <2>1 DEF NotYetRun
  <2>3. Kept' = Kept /\ Invokes' = Invokes
    BY <2>1 DEF Kept, Invokes
  <2>4. AgendaToExecute' /\ SentSoFar' /\ NoneForgotten'
    BY <1>1, <2>1, <2>3
       DEF AgendaInv, AgendaToExecute, OfTest, SentSoFar, NoneForgotten
  <2> QED
    BY <1>2, <2>1, <2>2, <2>4, EmptyHistoryAfter DEF States
<1>6. CASE Reset
  <2>1. /\ state' = "started" /\ agenda' = {} /\ clientRequests' = {}
        /\ faults' = {} /\ trace' = <<>> /\ owed' = {} /\ running' = running
    BY <1>6 DEF Reset
  <2>2. AgendaToExecute' /\ SentSoFar' /\ NoneForgotten'
    BY <2>1 DEF AgendaToExecute, SentSoFar, NoneForgotten
  <2> QED
    BY <1>2, <2>1, <2>2, EmptyHistoryAfter DEF States
<1>7. CASE Run
  <2>1. /\ running' = TRUE
        /\ UNCHANGED <<state, agenda, clock, logicalClock, clientRequests, faults, trace, owed>>
    BY <1>7 DEF Run, data
  <2>2. Kept' = Kept /\ Invokes' = Invokes
    BY <2>1 DEF Kept, Invokes
  <2>3. TraceTypeOK' /\ NotYetRun'
    BY <1>1, <2>1 DEF TraceTypeOK, NotYetRun
  <2>4. ClosingInv'
    BY <2>1, <2>2 DEF HistoryInv, ClosingInv, RequestsOfTest, OfTest, ExecutedOnce,
          AnsweredWereExecuted, WaitingUnanswered, ClosedOrWaiting, Completes,
          ProcessesAreSequential, AnsweredNeverExpires, HistoryComplete
  <2>5. AgendaInv'
    BY <1>1, <2>1, <2>2 DEF AgendaInv, AgendaToExecute, OfTest, SentSoFar, NoneForgotten,
          FinishedEmpty, maxTime
  <2>6. KeptSoFar' /\ LogicalTimeIdentifiesSteps'
    BY <2>1, <2>2 DEF HistoryInv, KeptSoFar, LogicalTimeIdentifiesSteps
  <2> QED
    BY <2>3, <2>4, <2>5, <2>6 DEF HistoryInv
<1> QED
  BY <1>3, <1>4, <1>5, <1>6, <1>7

\* Every step of the scheduler keeps the history in order.
LEMMA HistoryNext ==
    ASSUME HistoryInv, SchedInv, SchedInv', [Next]_vars
    PROVE  HistoryInv'
<1>1. CASE LoadTest \/ RegisterExecutor \/ CreateRun \/ Run \/ Reset
  BY <1>1, HistoryCommands
<1>2. CASE Step
  BY <1>2, HistoryTick, HistoryDropOrDelay, HistoryExecute DEF Step
<1>3. CASE UNCHANGED vars
  <2>1. UNCHANGED <<state, running, agenda, clock, logicalClock, clientRequests,
                    faults, trace, owed>>
    BY <1>3 DEF vars, data
  <2>2. Kept' = Kept /\ Invokes' = Invokes
    BY <2>1 DEF Kept, Invokes
  <2>3. TraceTypeOK' /\ NotYetRun'
    BY <2>1 DEF HistoryInv, TraceTypeOK, NotYetRun
  <2>4. ClosingInv'
    BY <2>1, <2>2 DEF HistoryInv, ClosingInv, RequestsOfTest, OfTest, ExecutedOnce,
          AnsweredWereExecuted, WaitingUnanswered, ClosedOrWaiting, Completes,
          ProcessesAreSequential, AnsweredNeverExpires, HistoryComplete
  <2>5. AgendaInv'
    BY <2>1, <2>2 DEF HistoryInv, AgendaInv, AgendaToExecute, OfTest, SentSoFar,
          NoneForgotten, FinishedEmpty, maxTime
  <2>6. KeptSoFar' /\ LogicalTimeIdentifiesSteps'
    BY <2>1, <2>2 DEF HistoryInv, KeptSoFar, LogicalTimeIdentifiesSteps
  <2> QED
    BY <2>3, <2>4, <2>5, <2>6 DEF HistoryInv
<1> QED
  BY <1>1, <1>2, <1>3 DEF Next

\* The invariant of the history holds in every reachable state.
LEMMA HistoryInvariant == Spec => []HistoryInv
<1>1. HistoryInv /\ SchedInv /\ SchedInv' /\ [Next]_vars => HistoryInv'
  BY HistoryNext
<1> QED
  BY HistoryInit, SchedInvariant, <1>1, PTL DEF Spec

---------------------------------------------------------------------------
\* Every variable of the scheduler stays in its range, for every test and every
\* set of faults.
THEOREM SchedulerTypes == Spec => []TypeOK
<1>1. SchedInv /\ HistoryInv /\ MinTimeOK => TypeOK
  BY DEF MinTimeOK, SchedInv, DataTypeOK, HistoryInv, TraceTypeOK, TypeOK, TraceRecords, OwedRecords
<1> QED
  BY SchedInvariant, HistoryInvariant, MinTimeType, <1>1, PTL

\* The logical times that execute! and tick! write identify the steps of a run.
THEOREM LogicalTimesAreSteps == Spec => []LogicalTimeIdentifiesSteps
<1>1. HistoryInv => LogicalTimeIdentifiesSteps
  BY DEF HistoryInv
<1> QED
  BY HistoryInvariant, <1>1, PTL

\* The history the checker reads is one of sequential clients: none has two
\* requests open, and no answered request expires.
THEOREM ClientsAreSequential == Spec => []HistoryIsSequential
<1>1. HistoryInv => HistoryIsSequential
  BY DEF HistoryInv, ClosingInv, HistoryIsSequential
<1> QED
  BY HistoryInvariant, <1>1, PTL

\* fetch-new-entry! neither loses nor repeats a request by putting it back.
THEOREM RequestsAreHandledOnce == Spec => []EveryRequestHandledOnce
<1>1. HistoryInv => EveryRequestHandledOnce
  BY DEF HistoryInv, ClosingInv, AgendaInv, ExecutedOnce, NoneForgotten, FinishedEmpty,
         EveryRequestHandledOnce
<1> QED
  BY HistoryInvariant, <1>1, PTL

\* A finished run has closed every request in its history, however it ended.
THEOREM FinishedRunsAreClosed == Spec => []HistoryComplete
<1>1. HistoryInv => HistoryComplete
  BY DEF HistoryInv, ClosingInv
<1> QED
  BY HistoryInvariant, <1>1, PTL

---------------------------------------------------------------------------
(* Induction over numbers, with sets in place of predicates. *)

\* A set of numbers that is not empty has a least element.
LEMMA LeastNumber ==
    ASSUME NEW T, T \subseteq Nat, T # {}
    PROVE  \E n \in T : \A m \in T : n <= m
<1>1. PICK n \in T : \A m \in T : ~ (<<m, n>> \in OpToRel(<, Nat))
  BY NatLessThanWellFounded, WFMin
<1>2. \A m \in T : ~ (m < n)
  BY <1>1 DEF OpToRel
<1> QED
  BY <1>2

\* Induction from m up to n.
LEMMA InductionUpTo ==
    ASSUME NEW m \in Nat, NEW n \in Nat, NEW T, m \in T,
           \A i \in m + 1 .. n : i - 1 \in T => i \in T
    PROVE  \A i \in m .. n : i \in T
<1> DEFINE U == {i \in Nat : m <= i /\ i <= n /\ i \notin T}
<1>1. SUFFICES ASSUME U # {}
               PROVE  FALSE
  OBVIOUS
<1>2. PICK i \in U : \A j \in U : i <= j
  BY <1>1, LeastNumber
<1>3. i # m /\ i \in m + 1 .. n /\ i - 1 \in Nat /\ m <= i - 1 /\ i - 1 <= n /\ ~ (i <= i - 1)
  OBVIOUS
<1>4. i - 1 \in T
  BY <1>2, <1>3
<1> QED
  BY <1>3, <1>4

(* h begins with x and goes on with the steps G. *)
Transforms(G, N, S) == G \in [1 .. N -> [S -> S]]

Iteration(h, x, G, N, S) ==
    /\ h \in [0 .. N -> S]
    /\ h[0] = x /\ \A i \in 1 .. N : h[i] = G[i][h[i - 1]]

\* A recursive function over 0 .. N exists, whatever its steps G are.
LEMMA Iterates ==
    ASSUME NEW S, NEW x \in S, NEW N \in Nat, NEW G, Transforms(G, N, S)
    PROVE  \E h : Iteration(h, x, G, N, S)
<1> DEFINE P(n) == \E h \in [0 .. n -> S] :
                       h[0] = x /\ \A i \in 1 .. n : h[i] = G[i][h[i - 1]]
           T == {n \in 0 .. N : P(n)}
<1>1. 0 \in T
  <2>1. PICK h : h = [i \in 0 .. 0 |-> x]
    OBVIOUS
  <2>2. h \in [0 .. 0 -> S] /\ h[0] = x /\ 1 .. 0 = {}
    BY <2>1
  <2> QED
    BY <2>2
<1>2. ASSUME NEW n \in 1 .. N, n - 1 \in T
      PROVE  n \in T
  <2>1. PICK h \in [0 .. n - 1 -> S] : h[0] = x /\ \A i \in 1 .. n - 1 : h[i] = G[i][h[i - 1]]
    BY <1>2
  <2>2. PICK g : g = [i \in 0 .. n |-> IF i < n THEN h[i] ELSE G[n][h[n - 1]]]
    OBVIOUS
  <2>3. g \in [0 .. n -> S] /\ g[0] = x
    BY <2>1, <2>2 DEF Transforms
  <2>4. \A i \in 1 .. n : g[i] = G[i][g[i - 1]]
    BY <2>1, <2>2
  <2> QED
    BY <2>3, <2>4
<1> HIDE DEF P
<1>3. \A i \in 0 .. N : i \in T
  <2>1. \A i \in 0 + 1 .. N : i - 1 \in T => i \in T
    BY <1>2
  <2> HIDE DEF T
  <2> QED
    BY <1>1, <2>1, InductionUpTo
<1>4. P(N)
  BY <1>3
<1> QED
  BY <1>4 DEF P, Iteration

---------------------------------------------------------------------------
(* The rows of the debugger *)

(* The sequence lists the events up to n but for dropped timers, in order. *)
Lists(s, n) ==
    /\ s \in Seq(Nat)
    /\ \A i \in 1 .. Len(s) : s[i] \in 1 .. n /\ ~ DroppedTimer(trace[s[i]])
    /\ \A i, j \in 1 .. Len(s) : i < j => s[i] < s[j]
    /\ \A k \in 1 .. n : ~ DroppedTimer(trace[k]) => \E i \in 1 .. Len(s) : s[i] = k

\* The recursion of GetNetworkTrace.
LEMMA RowsRecursion ==
    ASSUME Len(trace) \in Nat
    PROVE  /\ RowsUpTo[0] = <<>>
           /\ \A n \in 1 .. Len(trace) :
                RowsUpTo[n] = IF DroppedTimer(trace[n]) THEN RowsUpTo[n - 1]
                              ELSE Append(RowsUpTo[n - 1], n)
<1> DEFINE N == Len(trace)
           G == [i \in 1 .. N |-> [s \in Seq(Nat) |->
                    IF DroppedTimer(trace[i]) THEN s ELSE Append(s, i)]]
           F(f) == [n \in 0 .. N |->
                      IF n = 0 THEN <<>>
                      ELSE IF DroppedTimer(trace[n]) THEN f[n - 1] ELSE Append(f[n - 1], n)]
<1>1. G \in [1 .. N -> [Seq(Nat) -> Seq(Nat)]]
  OBVIOUS
<1>2. PICK h \in [0 .. N -> Seq(Nat)] : h[0] = <<>> /\ \A i \in 1 .. N : h[i] = G[i][h[i - 1]]
  <2>1. <<>> \in Seq(Nat) /\ N \in Nat /\ Transforms(G, N, Seq(Nat))
    BY <1>1 DEF Transforms
  <2> HIDE DEF G, N
  <2>2. \E h : Iteration(h, <<>>, G, N, Seq(Nat))
    BY <2>1, Iterates
  <2> QED
    BY <2>2 DEF Iteration
<1>3. \A i \in 1 .. N : h[i - 1] \in Seq(Nat)
  OBVIOUS
<1>4. \A i \in 1 .. N : h[i] = IF DroppedTimer(trace[i]) THEN h[i - 1] ELSE Append(h[i - 1], i)
  BY <1>2, <1>3
<1>5. ASSUME NEW i \in 0 .. N
      PROVE  h[i] = F(h)[i]
  <2>1. CASE i = 0
    BY <1>2, <2>1
  <2>2. CASE i # 0
    <3>1. i \in 1 .. N
      BY <2>2
    <3> QED
      BY <1>4, <2>2, <3>1
  <2> QED
    BY <2>1, <2>2
<1>6. h = F(h)
  <2>1. DOMAIN h = 0 .. N /\ h = [i \in 0 .. N |-> h[i]]
    OBVIOUS
  <2> QED
    BY <1>5, <2>1
<1>7. RowsUpTo = CHOOSE f : f = F(f)
  BY DEF RowsUpTo
<1>8. RowsUpTo = F(RowsUpTo)
  <2> HIDE DEF F
  <2> QED
    BY <1>6, <1>7
<1>9. 0 \in 0 .. N /\ \A n \in 1 .. N : n \in 0 .. N /\ n # 0
  OBVIOUS
<1> QED
  BY <1>8, <1>9

\* Rows lists the events that the debugger shows.
LEMMA RowsList ==
    ASSUME Len(trace) \in Nat
    PROVE  Lists(Rows, Len(trace))
<1> DEFINE N == Len(trace)
           T == {n \in 0 .. N : Lists(RowsUpTo[n], n)}
<1>1. 0 \in T
  <2>1. RowsUpTo[0] = <<>>
    BY RowsRecursion
  <2>2. Lists(<<>>, 0)
    BY DEF Lists
  <2> QED
    BY <2>1, <2>2
<1>2. ASSUME NEW n \in 1 .. N, n - 1 \in T
      PROVE  n \in T
  <2>1. PICK s : s = RowsUpTo[n - 1]
    OBVIOUS
  <2>2. Lists(s, n - 1)
    BY <1>2, <2>1
  <2>3. s \in Seq(Nat) /\ Len(s) \in Nat /\ n \in Nat
    BY <2>2 DEF Lists
  <2>4. CASE DroppedTimer(trace[n])
    <3>1. RowsUpTo[n] = s
      BY <2>1, <2>4, RowsRecursion
    <3>2. Lists(s, n)
      BY <2>2, <2>4 DEF Lists
    <3> QED
      BY <3>1, <3>2
  <2>5. CASE ~ DroppedTimer(trace[n])
    <3>1. PICK u : u = Append(s, n)
      OBVIOUS
    <3>2. /\ u \in Seq(Nat) /\ Len(u) = Len(s) + 1 /\ u[Len(s) + 1] = n
          /\ \A i \in 1 .. Len(s) : u[i] = s[i]
      BY <2>3, <3>1
    <3>a. /\ \A i \in 1 .. Len(s) : s[i] \in 1 .. n - 1 /\ ~ DroppedTimer(trace[s[i]])
          /\ \A i, j \in 1 .. Len(s) : i < j => s[i] < s[j]
          /\ \A i \in 1 .. Len(u) : i \in 1 .. Len(s) \/ i = Len(s) + 1
      BY <2>2, <2>3, <3>2 DEF Lists
    <3>3. ASSUME NEW i \in 1 .. Len(u)
          PROVE  u[i] \in 1 .. n /\ ~ DroppedTimer(trace[u[i]])
      <4>1. CASE i \in 1 .. Len(s)
        BY <2>3, <3>2, <3>a, <4>1, SMTT(30)
      <4>2. CASE i = Len(s) + 1
        BY <2>3, <2>5, <3>2, <4>2
      <4> QED
        BY <3>a, <4>1, <4>2
    <3>4. ASSUME NEW i \in 1 .. Len(u), NEW j \in 1 .. Len(u), i < j
          PROVE  u[i] < u[j]
      <4>1. i \in 1 .. Len(s)
        BY <2>3, <3>2, <3>4
      <4>2. u[i] = s[i] /\ s[i] \in 1 .. n - 1
        BY <3>2, <3>a, <4>1
      <4>3. CASE j \in 1 .. Len(s)
        BY <3>2, <3>4, <3>a, <4>1, <4>3
      <4>4. CASE j = Len(s) + 1
        BY <2>3, <3>2, <4>2, <4>4
      <4> QED
        BY <3>a, <4>3, <4>4
    <3>5. ASSUME NEW k \in 1 .. n, ~ DroppedTimer(trace[k])
          PROVE  \E i \in 1 .. Len(u) : u[i] = k
      <4>1. CASE k = n
        <5>1. Len(s) + 1 \in 1 .. Len(u)
          BY <2>3, <3>2
        <5> QED
          BY <3>2, <4>1, <5>1
      <4>2. CASE k \in 1 .. n - 1
        BY <2>2, <2>3, <3>2, <3>5, <4>2, SMTT(30) DEF Lists
      <4> QED
        BY <4>1, <4>2
    <3>6. Lists(u, n)
      BY <3>2, <3>3, <3>4, <3>5 DEF Lists
    <3>7. RowsUpTo[n] = u
      BY <2>1, <2>5, <3>1, RowsRecursion
    <3> QED
      BY <3>6, <3>7
  <2> QED
    BY <2>4, <2>5
<1>3. \A n \in 0 .. N : n \in T
  <2>1. \A i \in 0 + 1 .. N : i - 1 \in T => i \in T
    BY <1>2
  <2> HIDE DEF T
  <2> QED
    BY <1>1, <2>1, InductionUpTo
<1> QED
  BY <1>3 DEF Rows

\* What the debugger shows in a row.
LEMMA EventsAre ==
    ASSUME Len(trace) \in Nat
    PROVE  /\ Len(events) = Len(Rows) /\ Len(Rows) \in Nat
           /\ \A i \in 1 .. Len(Rows) : events[i] = trace[Rows[i]]
           /\ events = <<>> <=> Len(Rows) = 0
<1>1. Len(Rows) \in Nat
  BY RowsList DEF Lists
<1>2. PICK n \in Nat : n = Len(Rows)
  BY <1>1
<1>3. events = [i \in 1 .. n |-> trace[Rows[i]]]
  BY <1>2 DEF events
<1>4. Len(events) = n
  BY <1>3
<1>5. events = <<>> <=> n = 0
  <2>1. n = 0 => events = <<>>
    BY <1>3
  <2> QED
    BY <1>4, <2>1
<1> QED
  BY <1>2, <1>3, <1>4, <1>5

---------------------------------------------------------------------------
(* What a step adds to the trace: answers and expired requests, with the   *)
(* logical time from before the step, at most one delivery, and answers    *)
(* and expired requests with the logical time after it.                    *)

(* A record of the end of a request. *)
Ending(x, time) ==
    /\ x \in TraceRecords
    /\ x.kind \in {"info", "ok"} /\ x.to \in Clients
    /\ x.recv = time /\ x.sent <= time

Endings(s, m, n, time) == \A k \in m + 1 .. n : Ending(s[k], time)

Adds(old, new, m, n, D, before, after) ==
    /\ old \in Seq(TraceRecords) /\ new \in Seq(TraceRecords)
    /\ m \in Nat /\ n \in Nat
    /\ Len(old) <= m /\ m <= n /\ n <= Len(new)
    /\ SameUpTo(old, new, Len(old))
    /\ Endings(new, Len(old), m, before)
    /\ DeliverySegment(new, m, n, D)
    /\ Endings(new, n, Len(new), after)

\* expire-clients! ends requests.
LEMMA InfosEnd ==
    ASSUME NEW R, R \subseteq Entries, \A r \in R : r.from \in Clients,
           IsFiniteSet(R), NEW t \in Nat
    PROVE  /\ Infos(R, t) \in Seq(TraceRecords)
           /\ Endings(Infos(R, t), 0, Len(Infos(R, t)), t)
<1>1. PICK s : s = SetToSeq(R)
  OBVIOUS
<1>2. s \in Seq(R)
  BY <1>1, SetToSeqLists
<1>3. Len(s) \in Nat /\ \A i \in 1 .. Len(s) : s[i] \in R
  BY <1>2
<1>4. PICK x : x = [i \in 1 .. Len(s) |->
                       Traced("info", s[i].to, s[i].from, t, t, FALSE, s[i].req)]
  OBVIOUS
<1>5. x = Infos(R, t)
  BY <1>1, <1>4 DEF Infos
<1>6. \A i \in 1 .. Len(s) : x[i] \in TraceRecords /\ Ending(x[i], t)
  BY <1>3, <1>4 DEF Traced, TraceRecords, Ending, Entries
<1>7. x \in [1 .. Len(s) -> TraceRecords]
  BY <1>4, <1>6
<1>8. x \in Seq(TraceRecords) /\ Len(x) = Len(s)
  BY <1>3, <1>7, SeqDef
<1>9. 0 + 1 .. Len(x) = 1 .. Len(s)
  BY <1>8
<1> QED
  BY <1>5, <1>6, <1>8, <1>9 DEF Endings

\* So do the executor's answers.
LEMMA OksEnd ==
    ASSUME NEW A, A \subseteq OwedRecords, IsFiniteSet(A), NEW t \in Nat \ {0}
    PROVE  /\ Oks(A, t) \in Seq(TraceRecords)
           /\ Endings(Oks(A, t), 0, Len(Oks(A, t)), t)
           /\ A = {} => Oks(A, t) = <<>>
<1>1. PICK s : s = SetToSeq(A)
  OBVIOUS
<1>2. s \in Seq(A)
  BY <1>1, SetToSeqLists
<1>3. Len(s) \in Nat /\ \A i \in 1 .. Len(s) : s[i] \in A
  BY <1>2
<1>4. PICK x : x = [i \in 1 .. Len(s) |->
                       Traced("ok", s[i].by, s[i].from, t - 1, t, FALSE, s[i].req)]
  OBVIOUS
<1>5. x = Oks(A, t)
  BY <1>1, <1>4 DEF Oks
<1>6. \A i \in 1 .. Len(s) : x[i] \in TraceRecords /\ Ending(x[i], t)
  BY <1>3, <1>4 DEF Traced, TraceRecords, Ending, OwedRecords
<1>7. x \in [1 .. Len(s) -> TraceRecords]
  BY <1>4, <1>6
<1>8. x \in Seq(TraceRecords) /\ Len(x) = Len(s)
  BY <1>3, <1>7, SeqDef
<1>9. 0 + 1 .. Len(x) = 1 .. Len(s)
  BY <1>8
<1>10. A = {} => x = <<>>
  <2>1. A = {} => Len(s) = 0
    BY <1>2
  <2> QED
    BY <2>1, <1>8, EmptySeq
<1> QED
  BY <1>5, <1>6, <1>8, <1>9, <1>10 DEF Endings

\* Endings that are appended to a trace are endings of the trace.
LEMMA EndingsAppended ==
    ASSUME NEW s \in Seq(TraceRecords), NEW t \in Seq(TraceRecords), NEW u,
           Appended(s, t, u), NEW time, Endings(t, 0, Len(t), time)
    PROVE  Endings(u, Len(s), Len(u), time)
<1>1. PICK m, n \in Nat : m = Len(s) /\ n = Len(t)
  OBVIOUS
<1>2. Len(u) = m + n /\ \A k \in 1 .. n : u[m + k] = t[k]
  BY <1>1 DEF Appended
<1>3. ASSUME NEW k \in m + 1 .. m + n
      PROVE  Ending(u[k], time)
  <2>1. k - m \in 1 .. n /\ m + (k - m) = k /\ k - m \in 0 + 1 .. n
    OBVIOUS
  <2>2. u[k] = t[k - m]
    BY <1>2, <2>1
  <2> QED
    BY <1>1, <2>1, <2>2 DEF Endings
<1> QED
  BY <1>1, <1>2, <1>3 DEF Endings

\* A trace with the ended requests of before the step.
LEMMA AddsFirst ==
    ASSUME NEW old \in Seq(TraceRecords), NEW infos \in Seq(TraceRecords),
           NEW before, NEW after, Endings(infos, 0, Len(infos), before),
           NEW new, new = old \o infos
    PROVE  Adds(old, new, Len(new), Len(new), {}, before, after)
<1>1. Appended(old, infos, new)
  BY AppendedTrace
<1>2. Endings(new, Len(old), Len(new), before)
  BY <1>1, EndingsAppended
<1>3. new \in Seq(TraceRecords) /\ Len(new) \in Nat /\ Len(old) \in Nat /\ Len(infos) \in Nat
  BY <1>1 DEF Appended
<1>4. Len(old) <= Len(new) /\ SameUpTo(old, new, Len(old))
  BY <1>1, <1>3 DEF Appended
<1>5. Endings(new, Len(new), Len(new), after)
  BY <1>3 DEF Endings
<1> QED
  BY <1>2, <1>3, <1>4, <1>5 DEF Adds, DeliverySegment

\* A delivery behind it.
LEMMA AddsDelivery ==
    ASSUME NEW old, NEW s, NEW before, NEW after, NEW m,
           Adds(old, s, Len(s), Len(s), {}, before, after),
           NEW d \in TraceRecords, NEW new, new = s \o <<d>>
    PROVE  Adds(old, new, Len(s), Len(s) + 1, {d}, before, after)
<1>1. s \in Seq(TraceRecords) /\ <<d>> \in Seq(TraceRecords) /\ Len(<<d>>) = 1 /\ <<d>>[1] = d
  BY DEF Adds
<1>2. Appended(s, <<d>>, new)
  BY <1>1, AppendedTrace
<1>3. /\ new \in Seq(TraceRecords) /\ Len(s) \in Nat /\ Len(new) = Len(s) + 1
      /\ new[Len(s) + 1] = d /\ \A k \in 1 .. Len(s) : new[k] = s[k]
  BY <1>1, <1>2 DEF Appended, SameUpTo
<1>4. old \in Seq(TraceRecords) /\ Len(old) \in Nat /\ Len(old) <= Len(s)
  BY DEF Adds
<1>5. SameUpTo(old, new, Len(old))
  BY <1>3, <1>4 DEF Adds, SameUpTo
<1>6. Endings(new, Len(old), Len(s), before)
  BY <1>3, <1>4 DEF Adds, Endings
<1>7. Endings(new, Len(s) + 1, Len(new), after)
  BY <1>3 DEF Endings
<1> QED
  BY <1>3, <1>4, <1>5, <1>6, <1>7 DEF Adds, DeliverySegment

\* The ended requests of after the step.
LEMMA AddsLast ==
    ASSUME NEW old, NEW s, NEW m, NEW n, NEW D, NEW before, NEW after,
           Adds(old, s, m, n, D, before, after),
           NEW infos \in Seq(TraceRecords), Endings(infos, 0, Len(infos), after),
           NEW new, new = s \o infos
    PROVE  Adds(old, new, m, n, D, before, after)
<1>1. /\ s \in Seq(TraceRecords) /\ Len(s) \in Nat /\ old \in Seq(TraceRecords)
      /\ Len(old) \in Nat /\ m \in Nat /\ n \in Nat
      /\ Len(old) <= m /\ m <= n /\ n <= Len(s)
  BY DEF Adds
<1>2. Appended(s, infos, new)
  BY <1>1, AppendedTrace
<1>3. /\ new \in Seq(TraceRecords) /\ Len(infos) \in Nat /\ Len(new) = Len(s) + Len(infos)
      /\ SameUpTo(s, new, Len(s))
  BY <1>2 DEF Appended
<1>4. SameUpTo(old, new, Len(old))
  BY <1>1, <1>3 DEF Adds, SameUpTo
<1>5. Endings(new, Len(old), m, before)
  BY <1>1, <1>3 DEF Adds, SameUpTo, Endings
<1>6. DeliverySegment(new, m, n, D)
  BY <1>1, <1>3, SegmentsStay DEF Adds
<1>7. Endings(new, n, Len(new), after)
  <2>1. Endings(new, Len(s), Len(new), after)
    BY <1>1, <1>2, EndingsAppended
  <2>2. Endings(s, n, Len(s), after)
    BY DEF Adds
  <2>3. ASSUME NEW k \in n + 1 .. Len(new)
        PROVE  Ending(new[k], after)
    <3>1. CASE k <= Len(s)
      BY <1>1, <1>3, <2>2, <3>1 DEF Endings, SameUpTo
    <3>2. CASE ~ (k <= Len(s))
      BY <1>1, <1>3, <2>1, <3>2 DEF Endings
    <3> QED
      BY <3>1, <3>2
  <2> QED
    BY <2>3 DEF Endings
<1> QED
  BY <1>1, <1>3, <1>4, <1>5, <1>6, <1>7 DEF Adds

(* A delivery, or one that was dropped. *)
Delivered(d, time) ==
    /\ d \in TraceRecords
    /\ d.kind \in {"invoke", "message"} /\ d.to \in Components
    /\ d.recv = time /\ d.sent <= logicalClock
    /\ d.kind = "message" => \A j \in Kept : trace[j].recv = d.sent => trace[j].to = d.from

\* What the trace says of an entry of the agenda.
LEMMA RecordDelivered ==
    ASSUME DataTypeOK, SentSoFar, NEW e \in agenda, NEW time \in Nat, logicalClock <= time,
           NEW d, NEW dropped, RecordOf(d, e, time, dropped)
    PROVE  Delivered(d, time)
<1>1. /\ e \in Entries /\ e.from \in Clients \cup Components /\ e.to \in Components
      /\ e.sent \in Int /\ logicalClock \in Nat
  BY DEF DataTypeOK, Entries
<1>2. /\ d \in TraceRecords /\ d.kind \in {"invoke", "message"}
      /\ d.from = e.from /\ d.to = e.to /\ d.recv = time
  BY DEF RecordOf
<1>3. CASE e.from \in Clients
  <2>1. d.kind = "invoke" /\ d.sent = logicalClock
    BY <1>3 DEF RecordOf
  <2> QED
    BY <1>1, <1>2, <2>1 DEF Delivered
<1>4. CASE e.from \notin Clients
  <2>1. d.sent = e.sent /\ e.from \in Components
    BY <1>1, <1>4 DEF RecordOf
  <2>2. e.sent <= logicalClock /\ \A i \in Kept : trace[i].recv = e.sent => trace[i].to = e.from
    BY <2>1 DEF SentSoFar
  <2>3. d.sent <= logicalClock
    BY <2>1, <2>2
  <2> QED
    BY <1>1, <1>2, <2>1, <2>2, <2>3 DEF Delivered
<1> QED
  BY <1>3, <1>4

\* enqueue-timestamped-entries ends the requests that are left.
LEMMA EnqueueAdds ==
    ASSUME NEW tr, NEW m, NEW n, NEW D, NEW before,
           Adds(trace, tr, m, n, D, before, logicalClock'),
           clientRequests' \subseteq Entries, IsFiniteSet(clientRequests'),
           \A r \in clientRequests' : r.from \in Clients,
           logicalClock' \in Nat,
           NEW a, NEW entries, EnqueueTimestampedEntries(a, tr, entries)
    PROVE  Adds(trace, trace', m, n, D, before, logicalClock')
<1>1. CASE state' = "finished"
  <2>1. trace' = tr \o Infos(clientRequests', logicalClock')
    BY <1>1, Enqueued
  <2>2. PICK infos : infos = Infos(clientRequests', logicalClock')
    OBVIOUS
  <2>3. infos \in Seq(TraceRecords) /\ Endings(infos, 0, Len(infos), logicalClock')
    BY <2>2, InfosEnd
  <2>4. PICK new, after : new = trace' /\ after = logicalClock'
    OBVIOUS
  <2>5. Adds(trace, new, m, n, D, before, after)
    BY <2>1, <2>2, <2>3, <2>4, AddsLast
  <2> QED
    BY <2>4, <2>5
<1>2. CASE state' # "finished"
  <2>1. trace' = tr
    BY <1>2, Enqueued
  <2> QED
    BY <2>1
<1> QED
  BY <1>1, <1>2

\* tick! and the idle step.
LEMMA TickAdds ==
    ASSUME HistoryInv, SchedInv, SchedInv', HistoryInv', Tick \/ Idle
    PROVE  /\ logicalClock <= logicalClock' /\ faults' = faults
           /\ Adds(trace, trace', Len(trace), Len(trace), {}, logicalClock, logicalClock')
<1>1. PICK a, new :
          /\ logicalClock' \in {logicalClock, logicalClock + 1}
          /\ UNCHANGED <<clientRequests, faults, owed>>
          /\ EnqueueTimestampedEntries(a, trace, new)
  <2>1. CASE Tick
    <3>1. PICK batch \in Batches(Components) :
              /\ logicalClock' = IF batch = <<>> THEN logicalClock ELSE logicalClock + 1
              /\ UNCHANGED <<clientRequests, faults, owed>>
              /\ EnqueueTimestampedEntries(agenda, trace,
                     Timestamped(batch, nr, clock', logicalClock + 1))
      BY <2>1 DEF Tick
    <3> QED
      BY <3>1
  <2>2. CASE Idle
    BY <2>2 DEF Idle
  <2> QED
    BY <2>1, <2>2
<1>2. /\ trace \in Seq(TraceRecords) /\ logicalClock \in Nat /\ logicalClock' \in Nat
      /\ clientRequests' \subseteq Entries /\ IsFiniteSet(clientRequests')
      /\ \A r \in clientRequests' : r.from \in Clients
  BY DEF HistoryInv, TraceTypeOK, SchedInv, DataTypeOK, ClosingInv, RequestsOfTest, OfTest
<1>3. Adds(trace, trace, Len(trace), Len(trace), {}, logicalClock, logicalClock')
  BY <1>2 DEF Adds, SameUpTo, Endings, DeliverySegment
<1>4. Adds(trace, trace', Len(trace), Len(trace), {}, logicalClock, logicalClock')
  BY <1>1, <1>2, <1>3, EnqueueAdds
<1> QED
  BY <1>1, <1>2, <1>4

\* execute! of an entry that is dropped or delayed.
LEMMA DropAdds ==
    ASSUME HistoryInv, SchedInv, SchedInv', HistoryInv', DropOrDelay
    PROVE  /\ logicalClock <= logicalClock' /\ faults' = faults
           /\ \E m, n, D :
                /\ Adds(trace, trace', m, n, D, logicalClock, logicalClock')
                /\ \A d \in D : d.dropped = TRUE /\ Delivered(d, logicalClock')
<1>a. PICK e \in agenda :
          LET expired  == expiredClients(e.at)
              requests == clientRequests \ expired
              busy     == Busy(e, requests)
              time     == IF busy THEN logicalClock ELSE logicalClock + 1
              dropped  == shouldDrop(e, time)
          IN  /\ logicalClock' = time
              /\ EnqueueTimestampedEntries(
                     Dequeue(e, busy),
                     trace \o Infos(expired, logicalClock)
                           \o (IF dropped THEN <<Delivery(e, time, TRUE)>> ELSE <<>>),
                     {})
              /\ UNCHANGED <<faults, owed>>
  BY Zenon DEF DropOrDelay
<1>b. PICK R : R = expiredClients(e.at)
  OBVIOUS
<1>c. PICK busy : busy = Busy(e, clientRequests \ R)
  OBVIOUS
<1>d. PICK time : time = IF busy THEN logicalClock ELSE logicalClock + 1
  OBVIOUS
<1>e. PICK dropped \in BOOLEAN : dropped = shouldDrop(e, time)
  BY DEF shouldDrop
<1>1. /\ logicalClock' = time /\ faults' = faults
      /\ EnqueueTimestampedEntries(
             Dequeue(e, busy),
             trace \o Infos(R, logicalClock)
                   \o (IF dropped THEN <<Delivery(e, time, TRUE)>> ELSE <<>>),
             {})
  BY <1>a, <1>b, <1>c, <1>d, <1>e, Zenon
<1>2. /\ trace \in Seq(TraceRecords) /\ logicalClock \in Nat /\ logicalClock' \in Nat
      /\ clientRequests \subseteq Entries /\ IsFiniteSet(clientRequests)
      /\ clientRequests' \subseteq Entries /\ IsFiniteSet(clientRequests')
      /\ \A r \in clientRequests' : r.from \in Clients
      /\ \A r \in clientRequests : r.from \in Clients
      /\ DataTypeOK /\ SentSoFar /\ e \in Entries
  BY DEF HistoryInv, TraceTypeOK, SchedInv, DataTypeOK, ClosingInv, RequestsOfTest, OfTest, AgendaInv
<1>3. time \in Nat /\ logicalClock <= time
  BY <1>1, <1>2, <1>d
<1>4. R \subseteq clientRequests /\ R \subseteq Entries /\ IsFiniteSet(R)
  <2>1. R \subseteq clientRequests
    BY <1>b DEF expiredClients
  <2> QED
    BY <1>2, <2>1, FS_Subset
<1>5. PICK infos \in Seq(TraceRecords) :
          infos = Infos(R, logicalClock) /\ Endings(infos, 0, Len(infos), logicalClock)
  BY <1>2, <1>4, InfosEnd
<1>6. PICK d : d = Delivery(e, time, TRUE)
  OBVIOUS
<1>7. RecordOf(d, e, time, TRUE)
  BY <1>2, <1>3, <1>6, DeliveryType
<1>8. d \in TraceRecords /\ d.dropped = TRUE /\ Delivered(d, time)
  BY <1>2, <1>3, <1>7, RecordDelivered DEF RecordOf
<1>9. PICK s : s = trace \o infos
  OBVIOUS
<1>10. Adds(trace, s, Len(s), Len(s), {}, logicalClock, time)
  BY <1>2, <1>5, <1>9, AddsFirst
<1>11. CASE dropped
  <2>1. PICK u : u = s \o <<d>>
    OBVIOUS
  <2>2. Adds(trace, u, Len(s), Len(s) + 1, {d}, logicalClock, logicalClock')
    BY <1>1, <1>8, <1>10, <2>1, AddsDelivery
  <2>3. EnqueueTimestampedEntries(Dequeue(e, busy), u, {})
    BY <1>1, <1>5, <1>6, <1>9, <1>11, <2>1
  <2>4. Adds(trace, trace', Len(s), Len(s) + 1, {d}, logicalClock, logicalClock')
    BY <1>2, <2>2, <2>3, EnqueueAdds
  <2> QED
    BY <1>1, <1>3, <1>8, <2>4
<1>12. CASE ~ dropped
  <2>1. s \in Seq(TraceRecords) /\ s \o <<>> = s
    BY <1>10, ConcatEmptySeq DEF Adds
  <2>2. EnqueueTimestampedEntries(Dequeue(e, busy), s, {})
    BY <1>1, <1>5, <1>9, <1>12, <2>1
  <2>3. Adds(trace, trace', Len(s), Len(s), {}, logicalClock, logicalClock')
    BY <1>1, <1>2, <1>10, <2>2, EnqueueAdds
  <2> QED
    BY <1>1, <1>3, <2>3
<1> QED
  BY <1>11, <1>12

\* There is one next entry.
LEMMA OnePeek ==
    ASSUME SchedInv, NEW e, NEW f, IsPeek(e), IsPeek(f)
    PROVE  e = f
<1>1. e \in agenda /\ f \in agenda /\ e \in Entries /\ f \in Entries
  BY DEF IsPeek, SchedInv, DataTypeOK
<1>2. e.at \in Nat /\ f.at \in Nat /\ e.nr \in Nat /\ f.nr \in Nat
  BY <1>1 DEF Entries
<1>3. e.nr = f.nr
  BY <1>1, <1>2 DEF IsPeek
<1> QED
  BY <1>1, <1>3 DEF SchedInv, Numbered

\* execute! of an entry that is kept.
LEMMA ExecuteAdds ==
    ASSUME HistoryInv, SchedInv, SchedInv', HistoryInv', Execute, NEW e, IsPeek(e)
    PROVE  /\ logicalClock < logicalClock' /\ faults' = faults
           /\ e.to \in Components /\ ~ componentCrashed(e.to, logicalClock + 1)
           /\ \E m, d :
                /\ Adds(trace, trace', m, m + 1, {d}, logicalClock, logicalClock')
                /\ d.dropped = FALSE /\ Delivered(d, logicalClock + 1) /\ d.to = e.to
<1>a. PICK e0 \in agenda :
          LET expired  == expiredClients(e0.at)
              time     == logicalClock + 1
              isClient == e0.from \in Clients
              holding  == owed \cup IF isClient
                              THEN {[from |-> e0.from, by |-> e0.to, req |-> e0.req]} ELSE {}
          IN  /\ Due(e0) /\ ~ shouldDrop(e0, time)
              /\ \E batch \in Batches({e0.to}), answers \in SUBSET {o \in holding : o.by = e0.to} :
                  /\ logicalClock' = IF answers = {} THEN time ELSE time + 1
                  /\ EnqueueTimestampedEntries(
                         agenda \ {e0},
                         trace \o Infos(expired, logicalClock) \o <<Delivery(e0, time, FALSE)>>
                               \o Oks(answers, time + 1),
                         Timestamped(batch, nr, e0.at, time))
              /\ UNCHANGED <<nextTick, faults>>
  BY Zenon DEF Execute
<1>b. e0 = e
  BY <1>a, OnePeek DEF Due
<1>c. PICK holding :
          holding = owed \cup IF e0.from \in Clients
                              THEN {[from |-> e0.from, by |-> e0.to, req |-> e0.req]} ELSE {}
  OBVIOUS
<1>d. PICK R, time : R = expiredClients(e0.at) /\ time = logicalClock + 1
  OBVIOUS
<1>1. PICK batch \in Batches({e0.to}), answers \in SUBSET {o \in holding : o.by = e0.to} :
          /\ e0 \in agenda /\ faults' = faults /\ ~ shouldDrop(e0, time)
          /\ logicalClock' = IF answers = {} THEN time ELSE time + 1
          /\ EnqueueTimestampedEntries(
                 agenda \ {e0},
                 trace \o Infos(R, logicalClock) \o <<Delivery(e0, time, FALSE)>>
                       \o Oks(answers, time + 1),
                 Timestamped(batch, nr, e0.at, time))
  BY <1>a, <1>c, <1>d, Zenon
<1>2. /\ trace \in Seq(TraceRecords) /\ logicalClock \in Nat /\ logicalClock' \in Nat
      /\ clientRequests \subseteq Entries /\ IsFiniteSet(clientRequests)
      /\ clientRequests' \subseteq Entries /\ IsFiniteSet(clientRequests')
      /\ \A r \in clientRequests' : r.from \in Clients
      /\ \A r \in clientRequests : r.from \in Clients
      /\ owed \subseteq OwedRecords /\ IsFiniteSet(owed)
      /\ DataTypeOK /\ SentSoFar
  BY DEF HistoryInv, TraceTypeOK, SchedInv, DataTypeOK, ClosingInv, RequestsOfTest, OfTest, AgendaInv
<1>e. e0 \in Entries /\ e0.to \in Components
  BY <1>1, <1>2 DEF DataTypeOK, Entries
<1>3. time \in Nat /\ logicalClock <= time /\ time + 1 \in Nat \ {0}
  BY <1>2, <1>d
<1>4. R \subseteq clientRequests /\ R \subseteq Entries /\ IsFiniteSet(R)
  <2>1. R \subseteq clientRequests
    BY <1>d DEF expiredClients
  <2> QED
    BY <1>2, <2>1, FS_Subset
<1>5. PICK infos \in Seq(TraceRecords) :
          infos = Infos(R, logicalClock) /\ Endings(infos, 0, Len(infos), logicalClock)
  BY <1>2, <1>4, InfosEnd
<1>6. answers \subseteq OwedRecords /\ IsFiniteSet(answers)
  <2>1. holding \subseteq OwedRecords
    BY <1>2, <1>c, <1>e DEF OwedRecords, Entries
  <2>2. IsFiniteSet(holding)
    <3>1. PICK x : x = [from |-> e0.from, by |-> e0.to, req |-> e0.req]
      OBVIOUS
    <3>2. IsFiniteSet({x}) /\ IsFiniteSet({})
      BY FS_Singleton, FS_EmptySet
    <3>3. IsFiniteSet(owed \cup {x}) /\ IsFiniteSet(owed \cup {})
      BY <1>2, <3>2, FS_Union
    <3> QED
      BY <1>c, <3>1, <3>3
  <2>3. answers \subseteq holding
    OBVIOUS
  <2> QED
    BY <2>1, <2>2, <2>3, FS_Subset
<1>7. PICK oks \in Seq(TraceRecords) :
          oks = Oks(answers, time + 1) /\ Endings(oks, 0, Len(oks), logicalClock')
  <2>1. /\ Oks(answers, time + 1) \in Seq(TraceRecords)
        /\ Endings(Oks(answers, time + 1), 0, Len(Oks(answers, time + 1)), time + 1)
        /\ answers = {} => Oks(answers, time + 1) = <<>>
    BY <1>3, <1>6, OksEnd
  <2>2. CASE answers = {}
    <3>1. Endings(<<>>, 0, Len(<<>>), logicalClock')
      BY DEF Endings
    <3> QED
      BY <2>1, <2>2, <3>1
  <2>3. CASE answers # {}
    BY <1>1, <2>1, <2>3
  <2> QED
    BY <2>2, <2>3
<1>8. PICK d : d = Delivery(e0, time, FALSE)
  OBVIOUS
<1>9. RecordOf(d, e0, time, FALSE)
  BY <1>2, <1>3, <1>8, <1>e, DeliveryType
<1>10. d \in TraceRecords /\ d.dropped = FALSE /\ Delivered(d, time) /\ d.to = e0.to
  BY <1>1, <1>2, <1>3, <1>9, RecordDelivered DEF RecordOf
<1>11. PICK s, u, v : s = trace \o infos /\ u = s \o <<d>> /\ v = u \o oks
  OBVIOUS
<1>12. PICK after : after = logicalClock'
  OBVIOUS
<1>13. Adds(trace, s, Len(s), Len(s), {}, logicalClock, after)
  BY <1>2, <1>5, <1>11, AddsFirst
<1>14. Adds(trace, u, Len(s), Len(s) + 1, {d}, logicalClock, after)
  BY <1>10, <1>11, <1>13, AddsDelivery
<1>15. Adds(trace, v, Len(s), Len(s) + 1, {d}, logicalClock, after)
  BY <1>7, <1>11, <1>12, <1>14, AddsLast
<1>16. EnqueueTimestampedEntries(agenda \ {e0}, v, Timestamped(batch, nr, e0.at, time))
  BY <1>1, <1>5, <1>7, <1>8, <1>11
<1>17. Adds(trace, trace', Len(s), Len(s) + 1, {d}, logicalClock, logicalClock')
  BY <1>2, <1>12, <1>15, <1>16, EnqueueAdds
<1>18. logicalClock < logicalClock'
  BY <1>1, <1>2, <1>d
<1>19. ~ componentCrashed(e0.to, logicalClock + 1)
  BY <1>1, <1>d DEF shouldDrop
<1> QED
  BY <1>1, <1>10, <1>17, <1>18, <1>19, <1>b, <1>d, <1>e

---------------------------------------------------------------------------
(* The invariant: what the trace, the rows of execution_step and the heaps *)
(* say of each other.                                                      *)

(* Events are in the order of their logical times, and one that was        *)
(* executed has a time of its own among those before it.                   *)
TimesInOrder ==
    /\ \A i \in 1 .. Len(trace) : trace[i].sent <= trace[i].recv /\ trace[i].recv <= logicalClock
    /\ \A i, j \in 1 .. Len(trace) : i < j => trace[i].recv <= trace[j].recv
    /\ \A i \in 1 .. Len(trace), j \in Kept : i < j => trace[i].recv < trace[j].recv
    /\ \A i \in Kept : 0 < trace[i].recv

Addressees ==
    \A i \in 1 .. Len(trace) :
        /\ trace[i].kind \in {"invoke", "message"} => trace[i].to \in Components
        /\ trace[i].kind \in {"info", "ok"} => trace[i].to \in Clients
        /\ trace[i].kind = "message" =>
             \A j \in Kept : trace[j].recv = trace[i].sent => trace[j].to = trace[i].from

(* Who has executed an event had not crashed. *)
KeptAlive == \A i \in Kept : ~ componentCrashed(trace[i].to, trace[i].recv)

TimesInv == TimesInOrder /\ Addressees /\ KeptAlive

(* What a step delivers. *)
Delivers(D) ==
    \A d \in D :
        /\ Delivered(d, d.recv)
        /\ logicalClock <= d.recv /\ d.recv <= logicalClock'
        /\ ~ d.dropped => d.recv = logicalClock + 1 /\ ~ componentCrashed(d.to, d.recv)

(* The parts of the trace after a step. *)
IsOld(k) == k \in 1 .. Len(trace) /\ trace'[k] = trace[k]
IsEnding(k, time) == k > Len(trace) /\ Ending(trace'[k], time)
IsDelivery(k, m, n, D) == k > Len(trace) /\ k = m + 1 /\ k = n /\ D = {trace'[k]}

\* Every event of the trace after a step is of one of its parts.
LEMMA TraceParts ==
    ASSUME NEW m, NEW n, NEW D, Adds(trace, trace', m, n, D, logicalClock, logicalClock'),
           NEW k \in 1 .. Len(trace')
    PROVE  \/ IsOld(k)
           \/ k <= m /\ IsEnding(k, logicalClock)
           \/ IsDelivery(k, m, n, D)
           \/ k > n /\ IsEnding(k, logicalClock')
<1>1. /\ Len(trace) \in Nat /\ Len(trace') \in Nat /\ m \in Nat /\ n \in Nat /\ k \in Nat
      /\ Len(trace) <= m /\ m <= n /\ n <= Len(trace')
  BY DEF Adds
<1>2. CASE k <= Len(trace)
  BY <1>1, <1>2 DEF Adds, SameUpTo, IsOld
<1>3. CASE k > Len(trace) /\ k <= m
  <2>1. k \in Len(trace) + 1 .. m
    BY <1>1, <1>3
  <2> QED
    BY <1>3, <2>1 DEF Adds, Endings, IsEnding
<1>4. CASE k > m /\ k <= n
  <2>1. k = m + 1 /\ k = n /\ D = {trace'[n]}
    BY <1>1, <1>4 DEF Adds, DeliverySegment
  <2> QED
    BY <1>1, <1>4, <2>1 DEF IsDelivery
<1>5. CASE k > n
  <2>1. k \in n + 1 .. Len(trace')
    BY <1>1, <1>5
  <2> QED
    BY <1>1, <1>5, <2>1 DEF Adds, Endings, IsEnding
<1> QED
  BY <1>1, <1>2, <1>3, <1>4, <1>5

\* What is executed in a step is its delivery.
LEMMA KeptParts ==
    ASSUME NEW m, NEW n, NEW D, Adds(trace, trace', m, n, D, logicalClock, logicalClock'),
           Delivers(D), NEW k \in 1 .. Len(trace')
    PROVE  /\ IsOld(k) => (k \in Kept' <=> k \in Kept)
           /\ IsDelivery(k, m, n, D) => (k \in Kept' <=> ~ trace'[k].dropped)
           /\ \A time : IsEnding(k, time) => k \notin Kept'
<1>1. trace \in Seq(TraceRecords) /\ trace' \in Seq(TraceRecords)
  BY DEF Adds
<1>2. DOMAIN trace = 1 .. Len(trace) /\ DOMAIN trace' = 1 .. Len(trace')
  BY <1>1
<1>3. k \in Kept' <=> trace'[k].kind \in {"invoke", "message"} /\ ~ trace'[k].dropped
  BY <1>2 DEF Kept
<1>4. IsOld(k) => (k \in Kept' <=> k \in Kept)
  BY <1>2, <1>3 DEF Kept, IsOld
<1>5. IsDelivery(k, m, n, D) => (k \in Kept' <=> ~ trace'[k].dropped)
  BY <1>3 DEF IsDelivery, Delivers, Delivered
<1>6. \A time : IsEnding(k, time) => k \notin Kept'
  BY <1>3 DEF IsEnding, Ending
<1> QED
  BY <1>4, <1>5, <1>6

\* What was executed before stays so.
LEMMA KeptStays ==
    ASSUME NEW m, NEW n, NEW D, Adds(trace, trace', m, n, D, logicalClock, logicalClock')
    PROVE  \A i \in 1 .. Len(trace) :
               i \in 1 .. Len(trace') /\ IsOld(i) /\ (i \in Kept' <=> i \in Kept)
<1>1. trace \in Seq(TraceRecords) /\ trace' \in Seq(TraceRecords)
  BY DEF Adds
<1>2. DOMAIN trace = 1 .. Len(trace) /\ DOMAIN trace' = 1 .. Len(trace')
  BY <1>1
<1>3. /\ Len(trace) \in Nat /\ Len(trace') \in Nat /\ Len(trace) <= Len(trace')
  BY <1>1 DEF Adds
<1>4. \A i \in 1 .. Len(trace) : i \in 1 .. Len(trace') /\ trace'[i] = trace[i]
  BY <1>3 DEF Adds, SameUpTo
<1> QED
  BY <1>2, <1>4 DEF Kept, IsOld

\* Every step keeps the events in order.
LEMMA OrderAfter ==
    ASSUME TimesInv, logicalClock \in Nat, logicalClock' \in Nat, logicalClock <= logicalClock',
           NEW m, NEW n, NEW D, Adds(trace, trace', m, n, D, logicalClock, logicalClock'),
           Delivers(D), faults' = faults
    PROVE  TimesInv'
<1>1. /\ trace \in Seq(TraceRecords) /\ trace' \in Seq(TraceRecords)
      /\ Len(trace) \in Nat /\ Len(trace') \in Nat /\ m \in Nat /\ n \in Nat
      /\ Len(trace) <= m /\ m <= n /\ n <= Len(trace')
  BY DEF Adds
<1>2. /\ \A k \in 1 .. Len(trace) : trace[k] \in TraceRecords
      /\ \A k \in 1 .. Len(trace') : trace'[k] \in TraceRecords
  BY <1>1
<1>3. /\ \A k \in 1 .. Len(trace) : trace[k].recv \in Nat /\ trace[k].sent \in Int
      /\ \A k \in 1 .. Len(trace') : trace'[k].recv \in Nat /\ trace'[k].sent \in Int
  BY <1>2 DEF TraceRecords
<1>4. /\ Kept \subseteq 1 .. Len(trace) /\ Kept' \subseteq 1 .. Len(trace')
  BY <1>1 DEF Kept
<1> DEFINE old(k) == IsOld(k)
           first(k) == k <= m /\ IsEnding(k, logicalClock)
           delivery(k) == IsDelivery(k, m, n, D)
           last(k) == k > n /\ IsEnding(k, logicalClock')
<1>5. \A k \in 1 .. Len(trace') : old(k) \/ first(k) \/ delivery(k) \/ last(k)
  BY TraceParts
<1>6. \A k \in 1 .. Len(trace') :
        /\ old(k) => (k \in Kept' <=> k \in Kept)
        /\ delivery(k) => (k \in Kept' <=> ~ trace'[k].dropped)
        /\ first(k) \/ last(k) => k \notin Kept'
  BY KeptParts
<1>7. \A k \in 1 .. Len(trace') : old(k) =>
        /\ k \in 1 .. Len(trace) /\ trace'[k] = trace[k]
        /\ trace'[k].recv <= logicalClock /\ trace'[k].sent <= trace'[k].recv
  BY DEF IsOld, TimesInv, TimesInOrder
<1>8. \A k \in 1 .. Len(trace') : first(k) =>
        /\ k > Len(trace) /\ k <= m
        /\ trace'[k].recv = logicalClock /\ trace'[k].sent <= trace'[k].recv
        /\ trace'[k].kind \in {"info", "ok"} /\ trace'[k].to \in Clients
  BY DEF IsEnding, Ending
<1>9. \A k \in 1 .. Len(trace') : last(k) =>
        /\ k > Len(trace) /\ k > n
        /\ trace'[k].recv = logicalClock' /\ trace'[k].sent <= trace'[k].recv
        /\ trace'[k].kind \in {"info", "ok"} /\ trace'[k].to \in Clients
  BY DEF IsEnding, Ending
<1>10. \A k \in 1 .. Len(trace') : delivery(k) =>
        /\ k > Len(trace) /\ k = m + 1 /\ k = n
        /\ logicalClock <= trace'[k].recv /\ trace'[k].recv <= logicalClock'
        /\ trace'[k].sent <= logicalClock
        /\ trace'[k].kind \in {"invoke", "message"} /\ trace'[k].to \in Components
        /\ trace'[k].kind = "message" =>
             \A j \in Kept : trace[j].recv = trace'[k].sent => trace[j].to = trace'[k].from
        /\ ~ trace'[k].dropped => /\ trace'[k].recv = logicalClock + 1
                                  /\ ~ componentCrashed(trace'[k].to, trace'[k].recv)
  BY DEF IsDelivery, Delivers, Delivered
<1> HIDE DEF old, first, delivery, last
<1>11. \A k \in 1 .. Len(trace') : trace'[k].recv <= logicalClock' /\ trace'[k].sent <= trace'[k].recv
  BY <1>3, <1>5, <1>7, <1>8, <1>9, <1>10
<1>12. \A k \in 1 .. Len(trace') : k <= m => trace'[k].recv <= logicalClock
  BY <1>1, <1>3, <1>5, <1>7, <1>8, <1>9, <1>10
<1>13. ASSUME NEW k \in Kept'
       PROVE  \/ k \in Kept /\ old(k)
              \/ delivery(k) /\ ~ trace'[k].dropped
  BY <1>4, <1>5, <1>6
<1>14. ASSUME NEW i \in 1 .. Len(trace'), NEW j \in 1 .. Len(trace'), i < j
       PROVE  trace'[i].recv <= trace'[j].recv
  <2>1. CASE old(j)
    <3>1. old(i) /\ i \in 1 .. Len(trace) /\ j \in 1 .. Len(trace)
      BY <1>1, <1>5, <1>7, <1>8, <1>9, <1>10, <1>14, <2>1
    <3> QED
      BY <1>7, <1>14, <2>1, <3>1 DEF TimesInv, TimesInOrder
  <2>2. CASE first(j)
    <3>1. i <= m /\ trace'[j].recv = logicalClock
      BY <1>1, <1>8, <1>14, <2>2
    <3> QED
      BY <1>12, <3>1
  <2>3. CASE delivery(j)
    <3>1. i <= m /\ logicalClock <= trace'[j].recv
      BY <1>1, <1>10, <1>14, <2>3
    <3> QED
      BY <1>3, <1>12, <3>1
  <2>4. CASE last(j)
    BY <1>9, <1>11, <2>4
  <2> QED
    BY <1>5, <2>1, <2>2, <2>3, <2>4
<1>15. ASSUME NEW i \in 1 .. Len(trace'), NEW j \in Kept', i < j
       PROVE  trace'[i].recv < trace'[j].recv
  <2>0. j \in 1 .. Len(trace')
    BY <1>4
  <2>1. CASE j \in Kept /\ old(j)
    <3>1. old(i) /\ i \in 1 .. Len(trace) /\ j \in 1 .. Len(trace)
      BY <1>1, <1>5, <1>7, <1>8, <1>9, <1>10, <1>15, <2>0, <2>1
    <3> QED
      BY <1>7, <1>15, <2>0, <2>1, <3>1 DEF TimesInv, TimesInOrder
  <2>2. CASE delivery(j) /\ ~ trace'[j].dropped
    <3>1. i <= m /\ trace'[j].recv = logicalClock + 1
      BY <1>1, <1>10, <1>15, <2>0, <2>2
    <3>2. trace'[i].recv <= logicalClock
      BY <1>12, <3>1
    <3> QED
      BY <1>3, <3>1, <3>2
  <2> QED
    BY <1>13, <2>1, <2>2
<1>16. ASSUME NEW i \in Kept'
       PROVE  0 < trace'[i].recv /\ ~ componentCrashed(trace'[i].to, trace'[i].recv)
  <2>0. i \in 1 .. Len(trace')
    BY <1>4
  <2>1. CASE i \in Kept /\ old(i)
    BY <1>7, <2>0, <2>1 DEF TimesInv, TimesInOrder, KeptAlive
  <2>2. CASE delivery(i) /\ ~ trace'[i].dropped
    <3>1. trace'[i].recv = logicalClock + 1 /\ ~ componentCrashed(trace'[i].to, trace'[i].recv)
      BY <1>10, <2>0, <2>2
    <3> QED
      BY <3>1
  <2> QED
    BY <1>13, <2>1, <2>2
<1>17. TimesInOrder'
  BY <1>11, <1>14, <1>15, <1>16 DEF TimesInOrder
<1>18. KeptAlive'
  BY <1>16 DEF KeptAlive, componentCrashed
<1>19. ASSUME NEW i \in 1 .. Len(trace'), trace'[i].kind = "message", NEW j \in Kept',
              trace'[j].recv = trace'[i].sent
       PROVE  trace'[j].to = trace'[i].from
  <2>0. j \in 1 .. Len(trace')
    BY <1>4
  <2>1. old(i) \/ delivery(i)
    BY <1>5, <1>8, <1>9, <1>19
  <2>2. CASE j \in Kept /\ old(j)
    <3>1. trace'[j] = trace[j]
      BY <1>7, <2>0, <2>2
    <3>2. CASE old(i)
      BY <1>7, <1>19, <2>2, <3>1, <3>2 DEF TimesInv, Addressees
    <3>3. CASE delivery(i)
      BY <1>10, <1>19, <2>2, <3>1, <3>3
    <3> QED
      BY <2>1, <3>2, <3>3
  <2>3. CASE delivery(j) /\ ~ trace'[j].dropped
    <3>1. trace'[j].recv = logicalClock + 1 /\ j = m + 1
      BY <1>10, <2>0, <2>3
    <3>2. CASE old(i)
      <4>1. trace'[i].sent <= trace'[i].recv /\ trace'[i].recv <= logicalClock
        BY <1>7, <3>2
      <4> QED
        BY <1>3, <1>19, <3>1, <4>1
    <3>3. CASE delivery(i)
      <4>1. trace'[i].sent <= logicalClock
        BY <1>10, <3>3
      <4> QED
        BY <1>3, <1>19, <3>1, <4>1
    <3> QED
      BY <2>1, <3>2, <3>3
  <2> QED
    BY <1>13, <2>2, <2>3
<1>20. ASSUME NEW i \in 1 .. Len(trace')
       PROVE  /\ trace'[i].kind \in {"invoke", "message"} => trace'[i].to \in Components
              /\ trace'[i].kind \in {"info", "ok"} => trace'[i].to \in Clients
  <2>1. CASE old(i)
    BY <1>7, <2>1 DEF TimesInv, Addressees
  <2>2. CASE ~ old(i)
    BY <1>5, <1>8, <1>9, <1>10, <2>2
  <2> QED
    BY <2>1, <2>2
<1>21. Addressees'
  BY <1>19, <1>20 DEF Addressees
<1> QED
  BY <1>17, <1>18, <1>21 DEF TimesInv

---------------------------------------------------------------------------
(* The heaps after the first i events. *)
At(i) == IF i = 0 THEN [r \in Components |-> InitialHeap] ELSE truth[i]

Loud == Components \ silent

(* Only the component that executes an event changes its heap. *)
HeapsRecorded ==
    /\ heap \in [Components -> HeapStates]
    /\ truth \in Seq([Components -> HeapStates]) /\ Len(truth) = Len(trace)
    /\ \A r \in Loud : heap[r] = At(Len(trace))[r]
    /\ \A i \in 1 .. Len(trace), r \in Loud :
          ~ (i \in Kept /\ trace[i].to = r) => At(i)[r] = At(i - 1)[r]

Diffs == UNION {[F -> Values \cup {Null}] : F \in SUBSET Fields}

StepRecords == [reactor : Components, time : Nat, lines : Seq(Nat), diff : Diffs]

(* The row of an event. *)
RowOf(k, i) ==
    /\ steps[k].time = trace[i].recv /\ steps[k].reactor = trace[i].to
    /\ trace[i].to \in Loud =>
         steps[k].diff = jsonDiff(At(i - 1)[trace[i].to], At(i)[trace[i].to])

(* Every event that was executed has a row, with what it changed. *)
StepsRecorded ==
    /\ steps \in Seq(StepRecords)
    /\ \A k, l \in 1 .. Len(steps) : k < l => steps[k].time < steps[l].time
    /\ \A k \in 1 .. Len(steps) : \E i \in Kept : RowOf(k, i)
    /\ \A i \in Kept : \E k \in 1 .. Len(steps) : steps[k].time = trace[i].recv

(* The lines of a row: those of Init, then that of the step. *)
LinesOf(lines, time) ==
    /\ Len(lines) > 0 /\ lines[Len(lines)] = time
    /\ \A j \in 1 .. Len(lines) - 1 : lines[j] = InitLine

LinesRecorded ==
    /\ buffer \in [Components -> Seq({InitLine})]
    /\ \A k \in 1 .. Len(steps) : LinesOf(steps[k].lines, steps[k].time)

RecordInv == TimesInv /\ HeapsRecorded /\ StepsRecorded /\ LinesRecorded

\* The history of the heaps grows with the trace.
LEMMA WitnessedTruth ==
    ASSUME Witnessed, truth \in Seq([Components -> HeapStates]), Len(truth) = Len(trace),
           heap \in [Components -> HeapStates], heap' \in [Components -> HeapStates],
           trace \in Seq(TraceRecords), trace' \in Seq(TraceRecords), Len(trace) <= Len(trace')
    PROVE  /\ truth' \in Seq([Components -> HeapStates]) /\ Len(truth') = Len(trace')
           /\ \A k \in 1 .. Len(trace) : truth'[k] = truth[k]
           /\ \A k \in Len(trace) + 1 .. Len(trace') :
                truth'[k] = IF trace'[k].recv <= logicalClock THEN heap ELSE heap'
<1>a. Len(trace) \in Nat /\ Len(trace') \in Nat
  OBVIOUS
<1>b. PICK L \in Nat : L = Len(trace)
  BY <1>a
<1>c. PICK M \in Nat : M = Len(trace') - L
  <2>1. Len(trace') - L \in Nat
    BY <1>a, <1>b
  <2> QED
    BY <2>1
<1>1. L = Len(trace) /\ M = Len(trace') - Len(trace) /\ Len(trace') \in Nat
  BY <1>a, <1>b, <1>c
<1>2. PICK H, old, all : H = [Components -> HeapStates] /\ old = truth /\ all = truth'
  OBVIOUS
<1>3. PICK new : new = [i \in 1 .. M |->
                          IF trace'[L + i].recv <= logicalClock THEN heap ELSE heap']
  OBVIOUS
<1>4. truth' = truth \o new
  BY <1>1, <1>3 DEF Witnessed
<1>5. new \in [1 .. M -> H]
  BY <1>2, <1>3
<1>6. new \in Seq(H) /\ Len(new) = M
  <2>1. new \in Seq(H)
    BY <1>5, SeqDef
  <2>2. Len(new) = M
    BY <1>5, <2>1
  <2> QED
    BY <2>1, <2>2
<1>7. old \in Seq(H) /\ Len(old) = L /\ all = old \o new
  BY <1>1, <1>2, <1>4
<1>d. /\ all \in Seq(H) /\ Len(all) = L + M
      /\ \A i \in 1 .. L + M : all[i] = IF i <= L THEN old[i] ELSE new[i - L]
  <2>1. /\ old \o new \in Seq(H) /\ Len(old \o new) = Len(old) + Len(new)
        /\ \A i \in 1 .. Len(old) + Len(new) :
             (old \o new)[i] = IF i <= Len(old) THEN old[i] ELSE new[i - Len(old)]
    BY <1>6, <1>7, ConcatProperties, ZenonT(40)
  <2> QED
    BY <1>6, <1>7, <2>1
<1>8. /\ truth' \in Seq(H) /\ Len(truth') = L + M
      /\ \A i \in 1 .. L + M : truth'[i] = IF i <= L THEN truth[i] ELSE new[i - L]
  BY <1>2, <1>d
<1>9. \A k \in 1 .. L : truth'[k] = truth[k]
  <2>1. \A k \in 1 .. L : k \in 1 .. L + M /\ k <= L
    OBVIOUS
  <2> QED
    BY <1>8, <2>1
<1>10. ASSUME NEW k \in L + 1 .. L + M
       PROVE  truth'[k] = IF trace'[k].recv <= logicalClock THEN heap ELSE heap'
  <2>1. k - L \in 1 .. M /\ L + (k - L) = k /\ ~ (k <= L) /\ k \in 1 .. L + M
    BY <1>1
  <2>2. truth'[k] = new[k - L]
    BY <1>8, <2>1
  <2> QED
    BY <1>3, <2>1, <2>2
<1>11. L + M = Len(trace')
  BY <1>1
<1> QED
  BY <1>1, <1>2, <1>8, <1>9, <1>10, <1>11

\* A step that is not recorded.
LEMMA QuietAfter ==
    ASSUME RecordInv, logicalClock \in Nat, logicalClock' \in Nat, logicalClock <= logicalClock',
           NEW m, NEW n, NEW D, Adds(trace, trace', m, n, D, logicalClock, logicalClock'),
           Delivers(D), \A d \in D : d.dropped,
           heap' \in [Components -> HeapStates], silent \subseteq silent',
           \A r \in Loud' : heap'[r] = heap[r],
           Witnessed, steps' = steps
    PROVE  HeapsRecorded' /\ StepsRecorded'
<1>1. /\ trace \in Seq(TraceRecords) /\ trace' \in Seq(TraceRecords)
      /\ Len(trace) \in Nat /\ Len(trace') \in Nat /\ Len(trace) <= Len(trace')
  BY DEF Adds
<1>2. /\ truth \in Seq([Components -> HeapStates]) /\ Len(truth) = Len(trace)
      /\ heap \in [Components -> HeapStates]
      /\ \A r \in Loud : heap[r] = At(Len(trace))[r]
      /\ \A i \in 1 .. Len(trace), r \in Loud :
          ~ (i \in Kept /\ trace[i].to = r) => At(i)[r] = At(i - 1)[r]
  BY DEF RecordInv, HeapsRecorded
<1>3. /\ truth' \in Seq([Components -> HeapStates]) /\ Len(truth') = Len(trace')
      /\ \A k \in 1 .. Len(trace) : truth'[k] = truth[k]
      /\ \A k \in Len(trace) + 1 .. Len(trace') : truth'[k] = heap \/ truth'[k] = heap'
  BY <1>1, <1>2, WitnessedTruth
<1>4. Loud' \subseteq Loud
  BY DEF Loud
<1>5. ASSUME NEW i \in 0 .. Len(trace)
      PROVE  At(i)' = At(i)
  BY <1>1, <1>3 DEF At
<1>6. ASSUME NEW i \in Len(trace) .. Len(trace'), NEW r \in Loud'
      PROVE  At(i)'[r] = heap[r]
  <2>1. CASE i = Len(trace)
    BY <1>1, <1>2, <1>4, <1>5, <2>1
  <2>2. CASE i \in Len(trace) + 1 .. Len(trace')
    <3>1. At(i)' = truth'[i]
      BY <1>1, <2>2 DEF At
    <3> QED
      BY <1>3, <2>2, <3>1
  <2> QED
    BY <1>1, <2>1, <2>2
<1>7. Kept' = Kept
  <2>1. Kept \subseteq 1 .. Len(trace) /\ Kept' \subseteq 1 .. Len(trace')
    BY <1>1 DEF Kept
  <2>2. \A k \in 1 .. Len(trace) : k \in Kept' <=> k \in Kept
    BY KeptStays
  <2>3. ASSUME NEW k \in Kept'
        PROVE  k \in 1 .. Len(trace)
    <3>1. /\ IsOld(k) => k \in 1 .. Len(trace)
          /\ IsDelivery(k, m, n, D) => trace'[k].dropped
      BY DEF IsOld, IsDelivery
    <3> QED
      BY <2>1, <2>3, <3>1, TraceParts, KeptParts
  <2> QED
    BY <2>1, <2>2, <2>3
<1>8. \A i \in Kept : i \in 1 .. Len(trace) /\ trace'[i] = trace[i]
  BY <1>1 DEF Kept, Adds, SameUpTo
<1>9. \A r \in Loud' : heap'[r] = At(Len(trace))'[r]
  <2>1. PICK L \in Nat : L = Len(trace')
    BY <1>1
  <2>2. L \in Len(trace) .. Len(trace')
    BY <1>1, <2>1
  <2>3. \A r \in Loud' : At(L)'[r] = heap[r]
    BY <1>6, <2>2
  <2>4. At(Len(trace))' = At(L)'
    BY <2>1 DEF At
  <2> QED
    BY <2>3, <2>4
<1>11. ASSUME NEW i \in 1 .. Len(trace'), NEW r \in Loud', ~ (i \in Kept' /\ trace'[i].to = r)
       PROVE  At(i)'[r] = At(i - 1)'[r]
  <2>1. CASE i \in 1 .. Len(trace)
    <3>1. At(i)' = At(i) /\ At(i - 1)' = At(i - 1)
      BY <1>1, <1>5, <2>1
    <3>2. ~ (i \in Kept /\ trace[i].to = r)
      BY <1>7, <1>8, <1>11
    <3> QED
      BY <1>2, <1>4, <2>1, <3>1, <3>2
  <2>2. CASE i \in Len(trace) + 1 .. Len(trace')
    <3>1. i \in Len(trace) .. Len(trace') /\ i - 1 \in Len(trace) .. Len(trace')
      BY <1>1, <2>2
    <3> QED
      BY <1>6, <3>1
  <2> QED
    BY <1>1, <2>1, <2>2
<1>12. HeapsRecorded'
  BY <1>3, <1>9, <1>11 DEF HeapsRecorded
<1>13. ASSUME NEW k \in 1 .. Len(steps), NEW i \in Kept, RowOf(k, i)
       PROVE  RowOf(k, i)'
  <2>1. trace'[i] = trace[i] /\ i \in 0 .. Len(trace) /\ i - 1 \in 0 .. Len(trace)
    BY <1>1, <1>8
  <2>2. At(i)' = At(i) /\ At(i - 1)' = At(i - 1)
    BY <1>5, <2>1
  <2> QED
    BY <1>4, <1>13, <2>1, <2>2 DEF RowOf
<1>14. StepsRecorded'
  <2>1. /\ steps \in Seq(StepRecords)
        /\ \A k, l \in 1 .. Len(steps) : k < l => steps[k].time < steps[l].time
        /\ \A k \in 1 .. Len(steps) : \E i \in Kept : RowOf(k, i)
        /\ \A i \in Kept : \E k \in 1 .. Len(steps) : steps[k].time = trace[i].recv
    BY DEF RecordInv, StepsRecorded
  <2>2. \A k \in 1 .. Len(steps') : \E i \in Kept' : RowOf(k, i)'
    BY <1>7, <1>13, <2>1
  <2>3. \A i \in Kept' : \E k \in 1 .. Len(steps') : steps'[k].time = trace'[i].recv
    BY <1>7, <1>8, <2>1
  <2> QED
    BY <2>1, <2>2, <2>3 DEF StepsRecorded
<1> QED
  BY <1>12, <1>14

\* A merge patch has some of the fields.
LEMMA DiffType ==
    ASSUME NEW old \in HeapStates, NEW new \in HeapStates
    PROVE  jsonDiff(old, new) \in Diffs
<1>1. PICK F : F = {g \in Fields : old[g] # new[g]}
  OBVIOUS
<1>2. F \in SUBSET Fields /\ jsonDiff(old, new) = [f \in F |-> new[f]]
  BY <1>1 DEF jsonDiff
<1>3. \A f \in F : new[f] \in Values \cup {Null}
  BY <1>2 DEF HeapStates
<1>4. jsonDiff(old, new) \in [F -> Values \cup {Null}]
  BY <1>2, <1>3
<1> QED
  BY <1>2, <1>4 DEF Diffs

\* The row of a step and the lines in it.
LEMMA RowWritten ==
    ASSUME NEW r \in Components, NEW time \in Nat, Recorded(r, time),
           heap \in [Components -> HeapStates], buffer \in [Components -> Seq({InitLine})],
           steps \in Seq(StepRecords)
    PROVE  \E row, new :
             /\ new \in HeapStates /\ heap' = [heap EXCEPT ![r] = new]
             /\ silent' = silent /\ buffer' \in [Components -> Seq({InitLine})]
             /\ steps' = Append(steps, row) /\ row \in StepRecords
             /\ row.reactor = r /\ row.time = time /\ row.diff = jsonDiff(heap[r], new)
             /\ LinesOf(row.lines, time)
<1>1. PICK new \in HeapStates :
          LET lines == Append(buffer[r], time)
          IN  /\ heap' = [heap EXCEPT ![r] = new]
              /\ steps' = Append(steps, [reactor |-> r, time |-> time, lines |-> lines,
                                         diff |-> jsonDiff(heap[r], new)])
              /\ ComponentUpdate(r, lines)
              /\ UNCHANGED silent
  BY DEF Recorded
<1>2. PICK lines : lines = Append(buffer[r], time)
  OBVIOUS
<1>3. PICK row : row = [reactor |-> r, time |-> time, lines |-> lines,
                        diff |-> jsonDiff(heap[r], new)]
  OBVIOUS
<1>4. /\ heap' = [heap EXCEPT ![r] = new] /\ steps' = Append(steps, row) /\ silent' = silent
      /\ buffer' = [buffer EXCEPT ![r] = <<>>]
  BY <1>1, <1>2, <1>3 DEF ComponentUpdate
<1>5. PICK b \in Seq({InitLine}) : b = buffer[r]
  OBVIOUS
<1>6. /\ Len(b) \in Nat /\ \A j \in 1 .. Len(b) : b[j] = InitLine
      /\ b \in Seq(Nat)
  BY <1>5 DEF InitLine
<1>7. /\ lines \in Seq(Nat) /\ Len(lines) = Len(b) + 1
      /\ lines[Len(b) + 1] = time /\ \A j \in 1 .. Len(b) : lines[j] = b[j]
  BY <1>2, <1>5, <1>6
<1>8. LinesOf(lines, time)
  BY <1>6, <1>7 DEF LinesOf
<1>9. jsonDiff(heap[r], new) \in Diffs
  BY DiffType
<1>10. row \in StepRecords
  BY <1>3, <1>7, <1>9 DEF StepRecords
<1>11. buffer' \in [Components -> Seq({InitLine})]
  BY <1>4
<1>12. row.reactor = r /\ row.time = time /\ row.lines = lines /\ row.diff = jsonDiff(heap[r], new)
  BY <1>3
<1> QED
  BY <1>4, <1>8, <1>10, <1>11, <1>12

\* A step that is recorded.
LEMMA RecordedAfter ==
    ASSUME RecordInv, logicalClock \in Nat, logicalClock' \in Nat, logicalClock < logicalClock',
           NEW m, NEW d, Adds(trace, trace', m, m + 1, {d}, logicalClock, logicalClock'),
           Delivers({d}), d.dropped = FALSE, d.to \in Components,
           Recorded(d.to, logicalClock + 1), Witnessed
    PROVE  HeapsRecorded' /\ StepsRecorded' /\ LinesRecorded'
<1>1. /\ trace \in Seq(TraceRecords) /\ trace' \in Seq(TraceRecords)
      /\ Len(trace) \in Nat /\ Len(trace') \in Nat /\ m \in Nat
      /\ Len(trace) <= m /\ m + 1 <= Len(trace')
  BY DEF Adds
<1>2. PICK L \in Nat : L = Len(trace)
  BY <1>1
<1>3. PICK r \in Components : r = d.to
  OBVIOUS
<1>4. /\ truth \in Seq([Components -> HeapStates]) /\ Len(truth) = Len(trace)
      /\ heap \in [Components -> HeapStates]
      /\ \A q \in Loud : heap[q] = At(L)[q]
      /\ \A i \in 1 .. L, q \in Loud :
          ~ (i \in Kept /\ trace[i].to = q) => At(i)[q] = At(i - 1)[q]
  BY <1>2 DEF RecordInv, HeapsRecorded
<1>5. /\ buffer \in [Components -> Seq({InitLine})] /\ steps \in Seq(StepRecords)
      /\ \A k, l \in 1 .. Len(steps) : k < l => steps[k].time < steps[l].time
      /\ \A k \in 1 .. Len(steps) : \E i \in Kept : RowOf(k, i)
      /\ \A i \in Kept : \E k \in 1 .. Len(steps) : steps[k].time = trace[i].recv
      /\ \A k \in 1 .. Len(steps) : LinesOf(steps[k].lines, steps[k].time)
  BY DEF RecordInv, StepsRecorded, LinesRecorded
<1>6. PICK row, new :
          /\ new \in HeapStates /\ heap' = [heap EXCEPT ![r] = new]
          /\ silent' = silent /\ buffer' \in [Components -> Seq({InitLine})]
          /\ steps' = Append(steps, row) /\ row \in StepRecords
          /\ row.reactor = r /\ row.time = logicalClock + 1 /\ row.diff = jsonDiff(heap[r], new)
          /\ LinesOf(row.lines, logicalClock + 1)
  <2>1. logicalClock + 1 \in Nat /\ Recorded(r, logicalClock + 1)
    BY <1>3
  <2> QED
    BY <1>4, <1>5, <2>1, RowWritten
<1>7. /\ heap' \in [Components -> HeapStates] /\ heap'[r] = new
      /\ \A q \in Components : q # r => heap'[q] = heap[q]
  BY <1>4, <1>6
<1>8. /\ truth' \in Seq([Components -> HeapStates]) /\ Len(truth') = Len(trace')
      /\ \A k \in 1 .. L : truth'[k] = truth[k]
      /\ \A k \in L + 1 .. Len(trace') :
           truth'[k] = IF trace'[k].recv <= logicalClock THEN heap ELSE heap'
  <2>1. Len(trace) <= Len(trace')
    BY <1>1
  <2> QED
    BY <1>1, <1>2, <1>4, <1>7, <2>1, WitnessedTruth
<1>9. Loud' = Loud
  BY <1>6 DEF Loud
<1>10. trace'[m + 1] = d /\ d.recv = logicalClock + 1
  BY <1>1 DEF Adds, DeliverySegment, Delivers
<1>11. ASSUME NEW i \in 0 .. L
       PROVE  At(i)' = At(i)
  BY <1>8 DEF At
<1>12. ASSUME NEW i \in L + 1 .. m
       PROVE  At(i)' = heap
  <2>1. i \in L + 1 .. Len(trace') /\ i # 0
    BY <1>1, <1>2
  <2>2. trace'[i].recv = logicalClock
    BY <1>2 DEF Adds, Endings, Ending
  <2> QED
    BY <1>8, <2>1, <2>2 DEF At
<1>13. ASSUME NEW i \in m + 1 .. Len(trace')
       PROVE  At(i)' = heap'
  <2>1. i \in L + 1 .. Len(trace') /\ i # 0
    BY <1>1, <1>2
  <2>2. trace'[i].recv \in Int /\ ~ (trace'[i].recv <= logicalClock)
    <3>1. CASE i = m + 1
      BY <1>10, <3>1
    <3>2. CASE i # m + 1
      <4>1. i \in (m + 1) + 1 .. Len(trace')
        BY <1>1, <3>2
      <4>2. trace'[i].recv = logicalClock'
        BY <4>1 DEF Adds, Endings, Ending
      <4> QED
        BY <4>2
    <3> QED
      BY <3>1, <3>2
  <2> QED
    BY <1>8, <2>1, <2>2 DEF At
<1>14. ASSUME NEW i \in L .. m, NEW q \in Loud
       PROVE  At(i)'[q] = heap[q]
  <2>1. CASE i = L
    BY <1>4, <1>11, <2>1
  <2>2. CASE i \in L + 1 .. m
    BY <1>12, <2>2
  <2> QED
    BY <1>1, <2>1, <2>2
<1>15. /\ Kept \subseteq 1 .. L /\ Kept' = Kept \cup {m + 1}
       /\ \A i \in Kept : trace'[i] = trace[i]
  <2>1. Kept \subseteq 1 .. L /\ Kept' \subseteq 1 .. Len(trace')
    BY <1>1, <1>2 DEF Kept
  <2>2. \A k \in 1 .. L : k \in Kept' <=> k \in Kept
    BY <1>2, KeptStays
  <2>3. m + 1 \in Kept'
    <3>1. m + 1 \in DOMAIN trace' /\ d.kind \in {"invoke", "message"}
      BY <1>1 DEF Delivers, Delivered
    <3> QED
      BY <1>10, <3>1 DEF Kept
  <2>4. ASSUME NEW k \in Kept'
        PROVE  k \in 1 .. L \/ k = m + 1
    <3>1. /\ IsOld(k) => k \in 1 .. L
          /\ IsDelivery(k, m, m + 1, {d}) => k = m + 1
      BY <1>2 DEF IsOld, IsDelivery
    <3> QED
      BY <2>1, <2>4, <3>1, TraceParts, KeptParts
  <2>5. \A i \in 1 .. L : trace'[i] = trace[i]
    BY <1>2 DEF Adds, SameUpTo
  <2>6. m + 1 \notin 1 .. L
    BY <1>1, <1>2
  <2> QED
    BY <2>1, <2>2, <2>3, <2>4, <2>5, <2>6
<1>16. ASSUME NEW i \in 1 .. Len(trace'), NEW q \in Loud, ~ (i \in Kept' /\ trace'[i].to = q)
       PROVE  At(i)'[q] = At(i - 1)'[q]
  <2>1. CASE i \in 1 .. L
    <3>1. At(i)' = At(i) /\ At(i - 1)' = At(i - 1)
      BY <1>11, <2>1
    <3>2. ~ (i \in Kept /\ trace[i].to = q)
      BY <1>15, <1>16
    <3> QED
      BY <1>4, <2>1, <3>1, <3>2
  <2>2. CASE i \in L + 1 .. m
    <3>1. i \in L .. m /\ i - 1 \in L .. m
      BY <1>1, <2>2
    <3> QED
      BY <1>14, <3>1
  <2>3. CASE i = m + 1
    <3>1. q # r /\ q \in Components
      BY <1>3, <1>10, <1>15, <1>16, <2>3 DEF Loud
    <3>2. At(i)' = heap'
      BY <1>1, <1>13, <2>3
    <3>3. i - 1 \in L .. m
      BY <1>1, <1>2, <2>3
    <3> QED
      BY <1>7, <1>14, <3>1, <3>2, <3>3
  <2>4. CASE i \in m + 2 .. Len(trace')
    <3>1. i \in m + 1 .. Len(trace') /\ i - 1 \in m + 1 .. Len(trace')
      BY <1>1, <2>4
    <3> QED
      BY <1>13, <3>1
  <2> QED
    BY <1>1, <1>2, <2>1, <2>2, <2>3, <2>4
<1>17. HeapsRecorded'
  <2>1. PICK M \in Nat : M = Len(trace')
    BY <1>1
  <2>2. At(M)' = heap' /\ At(Len(trace))' = At(M)'
    BY <1>1, <1>13, <2>1 DEF At
  <2> QED
    BY <1>7, <1>8, <1>9, <1>16, <2>2 DEF HeapsRecorded
<1>18. PICK s \in Seq(StepRecords) : s = steps'
  <2>1. Append(steps, row) \in Seq(StepRecords)
    BY <1>5, <1>6
  <2> QED
    BY <1>6, <2>1
<1>19. PICK K \in Nat : K = Len(steps)
  BY <1>5
<1>20. Len(s) = K + 1 /\ s[K + 1] = row /\ \A k \in 1 .. K : s[k] = steps[k]
  BY <1>5, <1>6, <1>18, <1>19
<1>21. \A k \in 1 .. K : steps[k].time \in Nat /\ steps[k].time <= logicalClock
  <2>1. ASSUME NEW k \in 1 .. K
        PROVE  steps[k].time \in Nat /\ steps[k].time <= logicalClock
    <3>1. PICK i \in Kept : RowOf(k, i)
      BY <1>5, <1>19
    <3>2. trace[i].recv <= logicalClock
      BY <1>2, <1>15 DEF RecordInv, TimesInv, TimesInOrder
    <3>3. steps[k] \in StepRecords
      BY <1>5, <1>19
    <3> QED
      BY <3>1, <3>2, <3>3 DEF RowOf, StepRecords
  <2> QED
    BY <2>1
<1>22. ASSUME NEW k \in 1 .. K + 1, NEW l \in 1 .. K + 1, k < l
       PROVE  s[k].time < s[l].time
  <2>1. k \in 1 .. K
    BY <1>22
  <2>2. CASE l \in 1 .. K
    BY <1>5, <1>19, <1>20, <1>22, <2>1, <2>2
  <2>3. CASE l = K + 1
    BY <1>6, <1>20, <1>21, <2>1, <2>3
  <2> QED
    BY <2>2, <2>3
<1>23. ASSUME NEW k \in 1 .. K, NEW i \in Kept, RowOf(k, i)
       PROVE  RowOf(k, i)'
  <2>1. trace'[i] = trace[i] /\ i \in 0 .. L /\ i - 1 \in 0 .. L
    BY <1>15
  <2>2. At(i)' = At(i) /\ At(i - 1)' = At(i - 1)
    BY <1>11, <2>1
  <2>3. steps'[k] = steps[k]
    BY <1>18, <1>20
  <2> QED
    BY <1>9, <1>23, <2>1, <2>2, <2>3 DEF RowOf
<1>24. RowOf(K + 1, m + 1)'
  <2>1. steps'[K + 1] = row /\ trace'[m + 1] = d /\ row.time = d.recv /\ row.reactor = d.to
    BY <1>3, <1>6, <1>10, <1>18, <1>20
  <2>2. At(m + 1)' = heap'
    BY <1>1, <1>13
  <2>3. r \in Loud => At(m)'[r] = heap[r]
    BY <1>1, <1>2, <1>14
  <2>4. (m + 1) - 1 = m
    BY <1>1
  <2>5. r \in Loud => jsonDiff(At((m + 1) - 1)'[r], At(m + 1)'[r]) = row.diff
    BY <1>6, <1>7, <2>2, <2>3, <2>4
  <2> QED
    BY <1>3, <1>9, <2>1, <2>5 DEF RowOf
<1>25. StepsRecorded'
  <2>1. ASSUME NEW k \in 1 .. K + 1
        PROVE  \E i \in Kept' : RowOf(k, i)'
    <3>1. CASE k \in 1 .. K
      BY <1>5, <1>15, <1>19, <1>23, <3>1
    <3>2. CASE k = K + 1
      BY <1>15, <1>24, <3>2
    <3> QED
      BY <3>1, <3>2
  <2>2. ASSUME NEW i \in Kept'
        PROVE  \E k \in 1 .. K + 1 : s[k].time = trace'[i].recv
    <3>1. CASE i \in Kept
      <4>1. PICK k \in 1 .. K : steps[k].time = trace[i].recv
        BY <1>5, <1>19, <3>1
      <4>2. s[k] = steps[k] /\ trace'[i] = trace[i] /\ k \in 1 .. K + 1
        BY <1>15, <1>20, <3>1
      <4> QED
        BY <4>1, <4>2
    <3>2. CASE i = m + 1
      <4>1. K + 1 \in 1 .. K + 1 /\ s[K + 1].time = trace'[i].recv
        BY <1>6, <1>10, <1>20, <3>2
      <4> QED
        BY <4>1
    <3> QED
      BY <1>15, <3>1, <3>2
  <2> QED
    BY <1>18, <1>20, <1>22, <2>1, <2>2 DEF StepsRecorded
<1>26. LinesRecorded'
  <2>1. ASSUME NEW k \in 1 .. K + 1
        PROVE  LinesOf(s[k].lines, s[k].time)
    <3>1. CASE k \in 1 .. K
      BY <1>5, <1>19, <1>20, <3>1
    <3>2. CASE k = K + 1
      BY <1>6, <1>20, <3>2
    <3> QED
      BY <3>1, <3>2
  <2> QED
    BY <1>6, <1>18, <1>20, <2>1 DEF LinesRecorded
<1> QED
  BY <1>17, <1>25, <1>26

---------------------------------------------------------------------------
(* Every step keeps the record in order. *)

\* A step without a row: nothing, a tick or Init.
LEMMA NoRowWritten ==
    ASSUME RecordInv, UNCHANGED executorVars \/ handleTick \/ handleInits
    PROVE  /\ heap' \in [Components -> HeapStates] /\ silent \subseteq silent'
           /\ \A r \in Loud' : heap'[r] = heap[r]
           /\ steps' = steps /\ LinesRecorded'
<1>1. /\ heap \in [Components -> HeapStates] /\ buffer \in [Components -> Seq({InitLine})]
      /\ \A k \in 1 .. Len(steps) : LinesOf(steps[k].lines, steps[k].time)
  BY DEF RecordInv, HeapsRecorded, LinesRecorded
<1>2. /\ steps' = steps /\ buffer' \in [Components -> Seq({InitLine})]
  <2>1. CASE UNCHANGED executorVars
    BY <1>1, <2>1 DEF executorVars
  <2>2. CASE handleTick
    BY <2>2 DEF handleTick
  <2>3. CASE handleInits
    <3>1. \A r \in Components : Append(buffer[r], InitLine) \in Seq({InitLine})
      BY <1>1
    <3> QED
      BY <2>3, <3>1 DEF handleInits
  <2> QED
    BY <2>1, <2>2, <2>3
<1>3. /\ heap' \in [Components -> HeapStates] /\ silent \subseteq silent'
      /\ \A r \in Loud' : heap'[r] = heap[r]
  <2>1. CASE UNCHANGED <<heap, silent>>
    BY <1>1, <2>1
  <2>2. CASE ~ UNCHANGED <<heap, silent>>
    <3>1. Silently
      BY <2>2 DEF executorVars, handleTick, handleInits
    <3>2. PICK r \in Components, new \in HeapStates :
              heap' = [heap EXCEPT ![r] = new] /\ silent' = silent \cup {r}
      BY <2>2, <3>1 DEF Silently
    <3>3. \A q \in Loud' : q \in Components /\ q # r
      BY <3>2 DEF Loud
    <3> QED
      BY <1>1, <3>2, <3>3
  <2> QED
    BY <2>1, <2>2
<1> QED
  BY <1>1, <1>2, <1>3 DEF LinesRecorded

\* A step that executes nothing keeps the record.
LEMMA RecordQuiet ==
    ASSUME RecordInv, logicalClock \in Nat, logicalClock' \in Nat, logicalClock <= logicalClock',
           NEW m, NEW n, NEW D, Adds(trace, trace', m, n, D, logicalClock, logicalClock'),
           \A d \in D : d.dropped = TRUE /\ Delivered(d, logicalClock'),
           UNCHANGED executorVars \/ handleTick \/ handleInits,
           Witnessed, faults' = faults
    PROVE  RecordInv'
<1>1. Delivers(D)
  BY DEF Delivers, Delivered
<1>2. TimesInv'
  BY <1>1, OrderAfter DEF RecordInv
<1>3. /\ heap' \in [Components -> HeapStates] /\ silent \subseteq silent'
      /\ \A r \in Loud' : heap'[r] = heap[r]
      /\ steps' = steps /\ LinesRecorded'
  BY NoRowWritten
<1>4. HeapsRecorded' /\ StepsRecorded'
  <2>1. \A d \in D : d.dropped
    OBVIOUS
  <2> QED
    BY <1>1, <1>3, <2>1, QuietAfter
<1> QED
  BY <1>2, <1>3, <1>4 DEF RecordInv

\* Without a history there is nothing on record.
LEMMA RecordEmpty ==
    ASSUME trace' = <<>>, truth' = <<>>, steps' = <<>>, heap' \in [Components -> HeapStates],
           \A r \in Loud' : heap'[r] = InitialHeap,
           buffer' \in [Components -> Seq({InitLine})]
    PROVE  RecordInv'
<1>1. Kept' = {} /\ Len(trace') = 0 /\ 1 .. Len(trace') = {} /\ 1 .. Len(steps') = {}
      /\ Len(truth') = 0
  BY DEF Kept
<1>2. TimesInv'
  BY <1>1 DEF TimesInv, TimesInOrder, Addressees, KeptAlive
<1>3. At(Len(trace))' = [r \in Components |-> InitialHeap]
  BY <1>1 DEF At
<1>4. HeapsRecorded'
  BY <1>1, <1>3 DEF HeapsRecorded, Loud
<1>5. StepsRecorded' /\ LinesRecorded'
  BY <1>1 DEF StepsRecorded, LinesRecorded
<1> QED
  BY <1>2, <1>4, <1>5 DEF RecordInv

\* The record of a run that has not begun.
LEMMA RecordOfNothing ==
    ASSUME RecordInv, trace = <<>>
    PROVE  /\ truth = <<>> /\ steps = <<>> /\ heap \in [Components -> HeapStates]
           /\ \A r \in Loud : heap[r] = InitialHeap
           /\ buffer \in [Components -> Seq({InitLine})]
<1>1. Kept = {} /\ Len(trace) = 0
  BY DEF Kept
<1>2. truth \in Seq([Components -> HeapStates]) /\ Len(truth) = 0
  BY <1>1 DEF RecordInv, HeapsRecorded
<1>3. steps \in Seq(StepRecords) /\ Len(steps) = 0
  <2>1. steps \in Seq(StepRecords) /\ \A k \in 1 .. Len(steps) : FALSE
    BY <1>1 DEF RecordInv, StepsRecorded
  <2> QED
    BY <2>1
<1>4. \A r \in Loud : heap[r] = InitialHeap
  BY <1>1 DEF RecordInv, HeapsRecorded, At, Loud
<1> QED
  BY <1>2, <1>3, <1>4, EmptySeq DEF RecordInv, HeapsRecorded, LinesRecorded

\* A step of a run keeps the record.
LEMMA RecordRun ==
    ASSUME HistoryInv, SchedInv, SchedInv', HistoryInv', RecordInv, RunStep
    PROVE  RecordInv'
<1>1. trace \in Seq(TraceRecords) /\ logicalClock \in Nat /\ logicalClock' \in Nat
  BY DEF HistoryInv, TraceTypeOK, SchedInv, DataTypeOK
<1>2. Witnessed
  BY DEF RunStep
<1>3. CASE ((LoadTest \/ Run) /\ UNCHANGED executorVars) \/ (RegisterExecutor /\ handleInits)
  <2>1. trace' = trace /\ logicalClock' = logicalClock /\ faults' = faults
    BY <1>3 DEF LoadTest, Run, RegisterExecutor, data
  <2>2. Adds(trace, trace', Len(trace), Len(trace), {}, logicalClock, logicalClock')
    BY <1>1, <2>1 DEF Adds, SameUpTo, Endings, DeliverySegment
  <2>3. logicalClock <= logicalClock'
    BY <1>1, <2>1
  <2>4. UNCHANGED executorVars \/ handleTick \/ handleInits
    BY <1>3
  <2>5. PICK D : D = {}
    OBVIOUS
  <2>6. /\ Adds(trace, trace', Len(trace), Len(trace), D, logicalClock, logicalClock')
        /\ \A d \in D : d.dropped = TRUE /\ Delivered(d, logicalClock')
    BY <2>2, <2>5
  <2> HIDE <2>5
  <2> QED
    BY <1>1, <1>2, <2>1, <2>3, <2>4, <2>6, RecordQuiet
<1>4. CASE CreateRun /\ UNCHANGED executorVars
  <2>1. trace' = trace /\ trace = <<>>
    BY <1>4 DEF CreateRun, HistoryInv, NotYetRun
  <2>2. /\ truth = <<>> /\ steps = <<>> /\ heap \in [Components -> HeapStates]
        /\ \A r \in Loud : heap[r] = InitialHeap
        /\ buffer \in [Components -> Seq({InitLine})]
    BY <2>1, RecordOfNothing
  <2>3. truth' = <<>>
    <3>1. PICK new : new = [i \in 1 .. 0 |-> IF trace'[Len(trace) + i].recv <= logicalClock
                                             THEN heap ELSE heap']
      OBVIOUS
    <3>2. new = <<>>
      BY <3>1
    <3>3. Len(trace') - Len(trace) = 0
      BY <1>1, <2>1
    <3>4. truth' = truth \o new
      BY <1>2, <3>1, <3>3 DEF Witnessed
    <3> QED
      BY <2>2, <3>2, <3>4
  <2>4. Loud' = Loud /\ heap' = heap /\ steps' = steps /\ buffer' = buffer
    BY <1>4 DEF executorVars, Loud
  <2> QED
    BY <2>1, <2>2, <2>3, <2>4, RecordEmpty
<1>5. CASE (Tick /\ handleTick) \/ (Idle /\ UNCHANGED executorVars)
  <2>1. /\ logicalClock <= logicalClock' /\ faults' = faults
        /\ Adds(trace, trace', Len(trace), Len(trace), {}, logicalClock, logicalClock')
    BY <1>5, TickAdds
  <2>2. UNCHANGED executorVars \/ handleTick \/ handleInits
    BY <1>5
  <2>3. PICK D : D = {}
    OBVIOUS
  <2>4. /\ Adds(trace, trace', Len(trace), Len(trace), D, logicalClock, logicalClock')
        /\ \A d \in D : d.dropped = TRUE /\ Delivered(d, logicalClock')
    BY <2>1, <2>3
  <2> HIDE <2>3
  <2> QED
    BY <1>1, <1>2, <2>1, <2>2, <2>4, RecordQuiet
<1>6. CASE DropOrDelay /\ UNCHANGED executorVars
  <2>1. /\ logicalClock <= logicalClock' /\ faults' = faults
        /\ \E m, n, D :
             /\ Adds(trace, trace', m, n, D, logicalClock, logicalClock')
             /\ \A d \in D : d.dropped = TRUE /\ Delivered(d, logicalClock')
    BY <1>6, DropAdds
  <2>2. PICK m, n, D :
             /\ Adds(trace, trace', m, n, D, logicalClock, logicalClock')
             /\ \A d \in D : d.dropped = TRUE /\ Delivered(d, logicalClock')
    BY <2>1
  <2> QED
    BY <1>1, <1>2, <1>6, <2>1, <2>2, RecordQuiet
<1>7. CASE /\ Execute
           /\ \E e \in agenda : IsPeek(e) /\ (\/ handler(e, logicalClock + 1)
                                              \/ handleTimer(e, logicalClock + 1))
  <2>1. PICK e \in agenda : IsPeek(e) /\ Recorded(e.to, logicalClock + 1)
    BY <1>7 DEF handler, handleTimer
  <2>2. /\ logicalClock < logicalClock' /\ faults' = faults
        /\ e.to \in Components /\ ~ componentCrashed(e.to, logicalClock + 1)
        /\ \E m, d :
             /\ Adds(trace, trace', m, m + 1, {d}, logicalClock, logicalClock')
             /\ d.dropped = FALSE /\ Delivered(d, logicalClock + 1) /\ d.to = e.to
    BY <1>7, <2>1, ExecuteAdds
  <2>3. PICK m, d :
             /\ Adds(trace, trace', m, m + 1, {d}, logicalClock, logicalClock')
             /\ d.dropped = FALSE /\ Delivered(d, logicalClock + 1) /\ d.to = e.to
    BY <2>2
  <2>4. Delivers({d})
    <3>1. d.recv = logicalClock + 1
      BY <2>3 DEF Delivered
    <3>2. logicalClock <= d.recv /\ d.recv <= logicalClock'
      BY <1>1, <2>2, <3>1
    <3> QED
      BY <2>2, <2>3, <3>1, <3>2 DEF Delivers
  <2>5. TimesInv'
    <3>1. logicalClock <= logicalClock'
      BY <1>1, <2>2
    <3> QED
      BY <1>1, <2>2, <2>3, <2>4, <3>1, OrderAfter DEF RecordInv
  <2>6. HeapsRecorded' /\ StepsRecorded' /\ LinesRecorded'
    BY <1>1, <1>2, <2>1, <2>2, <2>3, <2>4, RecordedAfter
  <2> QED
    BY <2>5, <2>6 DEF RecordInv
<1>8. \/ (LoadTest \/ CreateRun \/ Run \/ Idle \/ DropOrDelay) /\ UNCHANGED executorVars
      \/ RegisterExecutor /\ handleInits
      \/ Tick /\ handleTick
      \/ /\ Execute
         /\ \E e \in agenda : IsPeek(e) /\ (\/ handler(e, logicalClock + 1)
                                            \/ handleTimer(e, logicalClock + 1))
  BY Zenon DEF RunStep
<1> QED
  BY <1>3, <1>4, <1>5, <1>6, <1>7, <1>8

(* The debugger shows a row that exists. *)
ViewOK ==
    /\ view \in {"closed", "open", "panicked"}
    /\ view = "open" => activeRow \in 1 .. Len(events)

ShownInv == SchedInv /\ HistoryInv /\ RecordInv /\ ViewOK

\* What the debugger shows depends on the trace alone.
LEMMA EventsStay ==
    ASSUME trace' = trace
    PROVE  Rows' = Rows /\ events' = events
<1>1. RowsUpTo' = RowsUpTo
  BY DEF RowsUpTo, DroppedTimer
<1>2. Rows' = Rows
  BY <1>1 DEF Rows
<1> QED
  BY <1>2 DEF events

\* The events that are shown are events of the trace.
LEMMA EventType ==
    ASSUME trace \in Seq(TraceRecords), NEW i \in 1 .. Len(events)
    PROVE  /\ i \in 1 .. Len(Rows) /\ Rows[i] \in 1 .. Len(trace)
           /\ events[i] = trace[Rows[i]] /\ events[i] \in TraceRecords
<1>1. Len(trace) \in Nat
  OBVIOUS
<1>2. i \in 1 .. Len(Rows) /\ events[i] = trace[Rows[i]]
  BY <1>1, EventsAre
<1>3. Rows[i] \in 1 .. Len(trace)
  BY <1>1, <1>2, RowsList DEF Lists
<1> QED
  BY <1>2, <1>3

\* The application leaves the database alone.
LEMMA LookingOnly ==
    ASSUME Open \/ SelectRow \/ SelectReactor \/ goToFrom \/ SelectSent
    PROVE  UNCHANGED <<vars, executorVars, truth>>
<1>1. Open => UNCHANGED <<vars, executorVars, truth>>
  BY DEF Open
<1>2. SelectRow => UNCHANGED <<vars, executorVars, truth>>
  BY DEF SelectRow
<1>3. SelectReactor => UNCHANGED <<vars, executorVars, truth>>
  BY DEF SelectReactor
<1>4. goToFrom => UNCHANGED <<vars, executorVars, truth>>
  BY DEF goToFrom
<1>5. SelectSent => UNCHANGED <<vars, executorVars, truth>>
  BY DEF SelectSent, SelectMessage, SelectNoMessage
<1> QED
  BY <1>1, <1>2, <1>3, <1>4, <1>5

\* setRow to any number.
LEMMA RowIsSet ==
    ASSUME NEW row \in Int, setRow(row), view = "open", Len(events) \in Nat
    PROVE  /\ view' \in {"open", "panicked"}
           /\ view' = "open" => activeRow' \in 1 .. Len(events)
           /\ row \in 1 .. Len(events) => view' = "open" /\ activeRow' = row
<1>1. PICK nrow : nrow = IF row < 1 THEN 1 ELSE row
  OBVIOUS
<1>2. nrow \in Int /\ nrow >= 1 /\ (row >= 1 => nrow = row)
  BY <1>1
<1>3. /\ activeRow' = nrow
      /\ nrow <= Len(events) => view' = view
      /\ ~ (nrow <= Len(events)) => view' = "panicked"
  BY <1>1 DEF setRow
<1> QED
  BY <1>2, <1>3

\* The application shows rows that exist, or panics.
LEMMA ViewAfter ==
    ASSUME trace \in Seq(TraceRecords), ViewOK,
           Open \/ SelectRow \/ SelectReactor \/ goToFrom \/ SelectSent
    PROVE  ViewOK'
<1>1. trace' = trace
  BY LookingOnly DEF vars
<1>2. events' = events /\ Len(events) \in Nat /\ (events = <<>> <=> Len(events) = 0)
  BY <1>1, EventsStay, EventsAre
<1>3. CASE Open
  <2>1. view' = (IF events = <<>> THEN "panicked" ELSE "open") /\ activeRow' = 1
    BY <1>3 DEF Open
  <2> QED
    BY <1>2, <2>1 DEF ViewOK
<1>4. CASE SelectReactor
  BY <1>2, <1>4 DEF SelectReactor, ViewOK
<1>5. CASE SelectRow \/ goToFrom \/ SelectMessage
  <2>1. view = "open" /\ activeRow \in 1 .. Len(events)
    BY <1>5 DEF SelectRow, goToFrom, SelectMessage, ViewOK
  <2>2. \E row \in Int : setRow(row)
    <3>1. CASE SelectRow
      BY <1>2, <3>1 DEF SelectRow
    <3>2. CASE goToFrom
      <4>1. setRow(events[activeRow].sent)
        BY <3>2 DEF goToFrom, SenderRow
      <4>2. events[activeRow].sent \in Int
        BY <2>1, EventType DEF TraceRecords
      <4> QED
        BY <4>1, <4>2
    <3>3. CASE SelectMessage
      <4>1. PICK i \in 1 .. Len(events) : setRow(events[i].recv)
        BY <3>3 DEF SelectMessage, sentEventsAtActive, ReceiverRow
      <4>2. events[i].recv \in Int
        BY EventType DEF TraceRecords
      <4> QED
        BY <4>1, <4>2
    <3> QED
      BY <1>5, <3>1, <3>2, <3>3
  <2>3. /\ view' \in {"open", "panicked"}
        /\ view' = "open" => activeRow' \in 1 .. Len(events)
    BY <1>2, <2>1, <2>2, RowIsSet
  <2> QED
    BY <1>2, <2>3 DEF ViewOK
<1>6. CASE SelectNoMessage
  BY <1>6 DEF SelectNoMessage, ViewOK
<1> QED
  BY <1>3, <1>4, <1>5, <1>6 DEF SelectSent

\* Nothing changes in the database, nothing in what is recorded of it.
LEMMA RecordStays ==
    ASSUME RecordInv, UNCHANGED <<vars, executorVars, truth>>
    PROVE  RecordInv'
<1>1. /\ trace' = trace /\ logicalClock' = logicalClock /\ faults' = faults /\ truth' = truth
      /\ heap' = heap /\ buffer' = buffer /\ steps' = steps /\ silent' = silent
  BY DEF vars, data, executorVars
<1>2. Kept' = Kept
  BY <1>1 DEF Kept
<1>3. TimesInv'
  BY <1>1, <1>2 DEF RecordInv, TimesInv, TimesInOrder, Addressees, KeptAlive, componentCrashed
<1>4. HeapsRecorded'
  BY <1>1, <1>2 DEF RecordInv, HeapsRecorded, At, Loud
<1>5. StepsRecorded'
  BY <1>1, <1>2 DEF RecordInv, StepsRecorded, RowOf, At, Loud
<1>6. LinesRecorded'
  BY <1>1 DEF RecordInv, LinesRecorded
<1> QED
  BY <1>3, <1>4, <1>5, <1>6 DEF RecordInv

\* To the scheduler the steps of the composition are its own, or nothing.
LEMMA RunsAreRuns ==
    ASSUME [DebuggerNext]_allVars
    PROVE  [Next]_vars
<1>1. RunStep => Next
  BY Zenon DEF RunStep, Next, Step
<1>2. ResetAll => Next
  BY DEF ResetAll, Next
<1>3. Open \/ SelectRow \/ SelectReactor \/ goToFrom \/ SelectSent => UNCHANGED vars
  BY LookingOnly
<1> QED
  BY <1>1, <1>2, <1>3 DEF DebuggerNext, allVars

\* Every step keeps the record and the view in order.
LEMMA ShownNext ==
    ASSUME ShownInv, [DebuggerNext]_allVars
    PROVE  ShownInv'
<1>1. [Next]_vars /\ SchedInv /\ HistoryInv /\ RecordInv /\ ViewOK
  BY RunsAreRuns DEF ShownInv
<1>2. SchedInv'
  BY <1>1, SchedNext
<1>3. HistoryInv'
  BY <1>1, <1>2, HistoryNext
<1>4. trace \in Seq(TraceRecords)
  BY <1>1 DEF HistoryInv, TraceTypeOK
<1>5. CASE RunStep
  <2>1. RecordInv'
    BY <1>1, <1>2, <1>3, <1>5, RecordRun
  <2>2. view' = "closed"
    BY <1>5 DEF RunStep, debuggerVars
  <2> QED
    BY <1>2, <1>3, <2>1, <2>2 DEF ShownInv, ViewOK
<1>6. CASE ResetAll
  <2>1. /\ trace' = <<>> /\ truth' = <<>> /\ steps' = <<>>
        /\ heap' = [r \in Components |-> InitialHeap] /\ buffer' = buffer
        /\ view' = "closed"
    BY <1>6 DEF ResetAll, Reset, ExecutorReset, debuggerVars
  <2>2. heap' \in [Components -> HeapStates] /\ \A r \in Loud' : heap'[r] = InitialHeap
    BY <2>1, ExecutorAssumption DEF Loud
  <2>3. buffer' \in [Components -> Seq({InitLine})]
    BY <1>1, <2>1 DEF RecordInv, LinesRecorded
  <2>4. RecordInv'
    BY <2>1, <2>2, <2>3, RecordEmpty
  <2> QED
    BY <1>2, <1>3, <2>1, <2>4 DEF ShownInv, ViewOK
<1>7. CASE Open \/ SelectRow \/ SelectReactor \/ goToFrom \/ SelectSent
  <2>1. RecordInv'
    BY <1>1, <1>7, LookingOnly, RecordStays
  <2>2. ViewOK'
    BY <1>1, <1>4, <1>7, ViewAfter
  <2> QED
    BY <1>2, <1>3, <2>1, <2>2 DEF ShownInv
<1>8. CASE UNCHANGED allVars
  <2>1. UNCHANGED <<vars, executorVars, truth>> /\ view' = view /\ activeRow' = activeRow
    BY <1>8 DEF allVars, debuggerVars
  <2>2. RecordInv'
    BY <1>1, <2>1, RecordStays
  <2>3. events' = events
    BY <2>1, EventsStay DEF vars
  <2>4. ViewOK'
    BY <1>1, <2>1, <2>3 DEF ViewOK
  <2> QED
    BY <1>2, <1>3, <2>2, <2>4 DEF ShownInv
<1> QED
  BY <1>5, <1>6, <1>7, <1>8 DEF DebuggerNext

\* It is in order before the first run.
LEMMA ShownInit == DebuggerInit => ShownInv
<1> SUFFICES ASSUME DebuggerInit
             PROVE  ShownInv
  OBVIOUS
<1>1. SchedInv /\ HistoryInv
  BY SchedInit, HistoryInit DEF DebuggerInit
<1>2. /\ trace = <<>> /\ truth = <<>> /\ steps = <<>> /\ silent = {}
      /\ heap = [r \in Components |-> InitialHeap] /\ buffer = [r \in Components |-> <<>>]
      /\ view = "closed"
  BY DEF DebuggerInit, Init, ExecutorInit
<1>3. Kept = {} /\ Len(trace) = 0 /\ 1 .. Len(trace) = {} /\ 1 .. Len(steps) = {}
      /\ Len(truth) = 0
  BY <1>2 DEF Kept
<1>4. TimesInv
  BY <1>3 DEF TimesInv, TimesInOrder, Addressees, KeptAlive
<1>5. At(Len(trace)) = [r \in Components |-> InitialHeap]
  BY <1>3 DEF At
<1>6. HeapsRecorded
  BY <1>2, <1>3, <1>5, ExecutorAssumption DEF HeapsRecorded, Loud
<1>7. StepsRecorded /\ LinesRecorded
  BY <1>2, <1>3 DEF StepsRecorded, LinesRecorded
<1> QED
  BY <1>1, <1>2, <1>4, <1>6, <1>7 DEF ShownInv, RecordInv, ViewOK

\* It is in order in every reachable state.
LEMMA ShownInvariant == DebuggerSpec => []ShownInv
<1>1. ShownInv /\ [DebuggerNext]_allVars => ShownInv'
  BY ShownNext
<1> QED
  BY ShownInit, <1>1, PTL DEF DebuggerSpec

---------------------------------------------------------------------------
(* What the debugger shows. *)

\* Rows are in the order of their logical times.
LEMMA RowsInOrder ==
    ASSUME trace \in Seq(TraceRecords), TimesInOrder,
           NEW i \in 1 .. Len(events), NEW j \in 1 .. Len(events), i <= j
    PROVE  events[i].recv <= events[j].recv
<1>1. Len(trace) \in Nat
  OBVIOUS
<1>2. /\ i \in 1 .. Len(Rows) /\ j \in 1 .. Len(Rows) /\ Rows[i] \in 1 .. Len(trace)
      /\ Rows[j] \in 1 .. Len(trace) /\ events[i] = trace[Rows[i]] /\ events[j] = trace[Rows[j]]
      /\ events[i] \in TraceRecords
  BY EventType
<1>3. CASE i = j
  <2>1. events[i].recv \in Nat
    BY <1>2 DEF TraceRecords
  <2> QED
    BY <1>3, <2>1
<1>4. CASE i < j
  <2>1. Rows[i] < Rows[j]
    BY <1>1, <1>2, <1>4, RowsList DEF Lists
  <2> QED
    BY <1>2, <2>1 DEF TimesInOrder
<1> QED
  BY <1>3, <1>4

\* An event that was executed has a row.
LEMMA KeptHasRow ==
    ASSUME trace \in Seq(TraceRecords), NEW q \in Kept
    PROVE  \E j \in 1 .. Len(events) : Rows[j] = q /\ events[j] = trace[q]
<1>1. Len(trace) \in Nat /\ q \in 1 .. Len(trace)
  BY DEF Kept
<1>2. ~ DroppedTimer(trace[q])
  BY DEF Kept, DroppedTimer
<1>3. PICK j \in 1 .. Len(Rows) : Rows[j] = q
  BY <1>1, <1>2, RowsList DEF Lists
<1> QED
  BY <1>1, <1>3, EventsAre

\* Logical times tell apart what was executed.
LEMMA KeptByTime ==
    ASSUME trace \in Seq(TraceRecords), TimesInOrder,
           NEW p \in 1 .. Len(trace), NEW q \in Kept, trace[p].recv = trace[q].recv
    PROVE  q <= p /\ (p \in Kept => p = q) /\ \A j \in q + 1 .. p : j \notin Kept
<1>1. q \in 1 .. Len(trace) /\ Len(trace) \in Nat /\ Kept \subseteq 1 .. Len(trace)
  BY DEF Kept
<1>2. \A j \in 1 .. Len(trace) : trace[j].recv \in Nat
  <2>1. \A j \in 1 .. Len(trace) : trace[j] \in TraceRecords
    OBVIOUS
  <2> QED
    BY <2>1 DEF TraceRecords
<1>3. q <= p
  BY <1>1, <1>2 DEF TimesInOrder
<1>4. ASSUME NEW j \in q + 1 .. p, j \in Kept
      PROVE  FALSE
  <2>1. j \in 1 .. Len(trace) /\ q < j /\ (j < p \/ j = p)
    BY <1>1, <1>4
  <2>2. trace[q].recv < trace[j].recv /\ (j < p => trace[j].recv <= trace[p].recv)
    BY <1>1, <1>4, <2>1 DEF TimesInOrder
  <2> QED
    BY <1>1, <1>2, <2>1, <2>2
<1> QED
  BY <1>1, <1>3, <1>4

\* A crash is shown where it happened.
LEMMA CrashesFollow ==
    ASSUME ShownInv
    PROVE  CrashesShownInPlace
<1>1. trace \in Seq(TraceRecords) /\ TimesInOrder /\ Addressees /\ KeptAlive
  BY DEF ShownInv, HistoryInv, TraceTypeOK, RecordInv, TimesInv
<1>2. ASSUME NEW i \in 1 .. Len(events), NEW j \in 1 .. Len(events),
             events[j].to \in Components, CrashShownAt(events[j].to, i),
             events[j].kind # "info"
      PROVE  IF events[j].dropped /\ events[j].recv > events[i].recv
             THEN i < j
             ELSE ~ events[j].dropped => j < i
  <2>1. /\ Rows[j] \in 1 .. Len(trace) /\ events[j] = trace[Rows[j]]
        /\ events[j].recv \in Nat /\ events[i].recv \in Nat /\ i \in Int /\ j \in Int
        /\ events[j].kind \in {"invoke", "message", "info", "ok"}
        /\ i <= j => events[i].recv <= events[j].recv
        /\ j <= i => events[j].recv <= events[i].recv
    BY <1>1, EventType, RowsInOrder, EventsAre, SMTT(30) DEF TraceRecords
  <2>2. CASE events[j].recv > events[i].recv /\ events[j].dropped
    BY <2>1, <2>2
  <2>3. CASE ~ events[j].dropped
    <3>1. events[j].kind \in {"invoke", "message"}
      BY <1>1, <1>2, <2>1, SchedulerAssumption DEF Addressees
    <3>2. Rows[j] \in Kept
      BY <1>1, <2>1, <2>3, <3>1 DEF Kept
    <3>3. ~ componentCrashed(events[j].to, events[j].recv)
      BY <1>1, <2>1, <3>2 DEF KeptAlive
    <3>4. PICK f \in faults : f.kind = "crash" /\ f.from = events[j].to /\ f.at = events[i].recv
      BY <1>2 DEF CrashShownAt, CrashesAt
    <3>5. ~ (events[i].recv <= events[j].recv)
      BY <3>3, <3>4 DEF componentCrashed
    <3> QED
      BY <2>1, <2>3, <3>5
  <2> QED
    BY <2>2, <2>3
<1> QED
  BY <1>2 DEF CrashesShownInPlace

\* The diagram shows a crash below everything that its component has handled and
\* above everything that it has missed, whatever the faults, the delays and the
\* ticks of the run.
THEOREM CrashesAreInPlace == DebuggerSpec => []CrashesShownInPlace
<1>1. ShownInv => CrashesShownInPlace
  BY CrashesFollow
<1> QED
  BY ShownInvariant, <1>1, PTL

---------------------------------------------------------------------------
(* Keys *)

\* An open debugger panics only at a row beyond the last one.
LEMMA KeysLeadToRows ==
    ASSUME ShownInv, DebuggerNext, view = "open", ~ SelectNoMessage,
           \A i \in 1 .. Len(events) : events[i].recv <= Len(events)
    PROVE  view' # "panicked"
<1>1. trace \in Seq(TraceRecords) /\ TimesInOrder /\ ViewOK
  BY DEF ShownInv, HistoryInv, TraceTypeOK, RecordInv, TimesInv
<1>2. Len(events) \in Nat
  BY <1>1, EventsAre
<1>3. CASE RunStep \/ ResetAll \/ Open
  BY <1>3 DEF RunStep, ResetAll, Open
<1>4. CASE SelectReactor
  BY <1>4 DEF SelectReactor
<1>5. ASSUME NEW row \in Int, row <= Len(events), Len(events) > 0, setRow(row) PROVE view' # "panicked"
  <2>1. PICK nrow : nrow = IF row < 1 THEN 1 ELSE row
    OBVIOUS
  <2>2. nrow <= Len(events)
    BY <1>2, <1>5, <2>1
  <2> QED
    BY <1>5, <2>1, <2>2 DEF setRow
<1>6. CASE SelectRow
  <2>1. PICK row \in 1 .. Len(events) : setRow(row)
    BY <1>6 DEF SelectRow
  <2>2. row \in Int /\ row <= Len(events) /\ Len(events) > 0
    BY <1>2
  <2> QED
    BY <1>5, <2>1, <2>2
<1>7. CASE goToFrom
  <2>1. setRow(events[activeRow].sent) /\ activeRow \in 1 .. Len(events)
    BY <1>1, <1>7 DEF goToFrom, SenderRow, ViewOK
  <2>2. /\ Rows[activeRow] \in 1 .. Len(trace) /\ events[activeRow] = trace[Rows[activeRow]]
        /\ events[activeRow] \in TraceRecords
    BY <1>1, <2>1, EventType
  <2>3. events[activeRow].sent <= events[activeRow].recv
    BY <1>1, <2>2 DEF TimesInOrder
  <2>4. /\ events[activeRow].sent \in Int /\ events[activeRow].recv \in Int
        /\ events[activeRow].recv <= Len(events) /\ Len(events) > 0
    BY <1>2, <2>1, <2>2 DEF TraceRecords
  <2>5. events[activeRow].sent <= Len(events)
    BY <1>2, <2>3, <2>4
  <2> QED
    BY <1>5, <2>1, <2>4, <2>5
<1>8. CASE SelectMessage
  <2>1. PICK i \in 1 .. Len(events) : setRow(events[i].recv)
    BY <1>8 DEF SelectMessage, sentEventsAtActive, ReceiverRow
  <2>2. events[i].recv \in Int /\ Len(events) > 0
    BY <1>1, <1>2, EventType DEF TraceRecords
  <2> QED
    BY <1>5, <2>1, <2>2
<1> QED
  BY <1>3, <1>4, <1>6, <1>7, <1>8 DEF DebuggerNext, SelectSent

\* The row that "f" leads to.
LEMMA SenderIsShown ==
    ASSUME ShownInv, goToFrom, events[activeRow].kind = "message", TimeIsRow(events[activeRow].sent)
    PROVE  events[activeRow'].to = events[activeRow].from
<1>1. trace \in Seq(TraceRecords) /\ TimesInOrder /\ Addressees /\ ViewOK
  BY DEF ShownInv, HistoryInv, TraceTypeOK, RecordInv, TimesInv
<1>2. view = "open" /\ setRow(events[activeRow].sent) /\ activeRow \in 1 .. Len(events)
  BY <1>1 DEF goToFrom, SenderRow, ViewOK
<1>3. PICK j \in 1 .. Len(events) : j = events[activeRow].sent
  BY DEF TimeIsRow
<1>4. events[j].recv = j /\ j \in Int /\ Len(events) \in Nat
  BY <1>1, <1>3, EventsAre DEF TimeIsRow
<1>5. setRow(j)
  BY <1>2, <1>3
<1>6. activeRow' = j
  BY <1>2, <1>4, <1>5, RowIsSet
<1>7. /\ Rows[activeRow] \in 1 .. Len(trace) /\ events[activeRow] = trace[Rows[activeRow]]
      /\ Rows[j] \in 1 .. Len(trace) /\ events[j] = trace[Rows[j]]
  BY <1>1, <1>2, EventType
<1>8. Rows[j] \in Kept
  BY <1>1, <1>3, <1>7 DEF Kept, TimeIsRow
<1>9. trace[Rows[j]].to = trace[Rows[activeRow]].from
  BY <1>1, <1>3, <1>4, <1>7, <1>8 DEF Addressees
<1> QED
  BY <1>6, <1>7, <1>9

\* For every run, every number of rows and every key: an open debugger panics only
\* when a logical time is beyond the last row or no sent message is selected, and
\* "f" leads from a message to the event its sender was handling when that event's
\* logical time is the number of its row.
THEOREM KeysAreSafe == DebuggerSpec => NavigationIsSafe
<1>1. ASSUME ShownInv, [DebuggerNext]_allVars, ~ UNCHANGED allVars
      PROVE  /\ view = "open" /\ view' = "panicked" =>
                  SelectNoMessage \/ \E i \in 1 .. Len(events) : events[i].recv > Len(events)
             /\ /\ goToFrom /\ events[activeRow].kind = "message"
                /\ TimeIsRow(events[activeRow].sent)
                => events[activeRow'].to = events[activeRow].from
  <2>1. ASSUME view = "open", view' = "panicked", ~ SelectNoMessage,
               \A i \in 1 .. Len(events) : ~ (events[i].recv > Len(events))
        PROVE  FALSE
    <3>1. trace \in Seq(TraceRecords)
      BY <1>1 DEF ShownInv, HistoryInv, TraceTypeOK
    <3>2. Len(events) \in Nat
      BY <3>1, EventsAre
    <3>3. ASSUME NEW i \in 1 .. Len(events) PROVE events[i].recv <= Len(events)
      <4>1. events[i].recv \in Int
        BY <3>1, EventType DEF TraceRecords
      <4> QED
        BY <2>1, <3>2, <4>1
    <3> QED
      BY <1>1, <2>1, <3>3, KeysLeadToRows
  <2> QED
    BY <1>1, <2>1, SenderIsShown
<1> QED
  BY ShownInvariant, <1>1, PTL DEF DebuggerSpec, NavigationIsSafe

---------------------------------------------------------------------------
(* The log *)

(* All but the k-th of the sequences s[1], ..., s[n] are empty. *)
OnlyOne(s, n, k) ==
    /\ s \in [1 .. n -> Seq(Nat)] /\ k \in 1 .. n
    /\ \A i \in 1 .. n : i # k => s[i] = <<>>

\* FlattenSeq of sequences of which one is not empty.
LEMMA FlattenOne ==
    ASSUME NEW n \in Nat, NEW k, NEW s, OnlyOne(s, n, k)
    PROVE  FlattenSeq(s) = s[k]
<1>1. /\ s \in [1 .. n -> Seq(Nat)] /\ k \in 1 .. n
      /\ \A i \in 1 .. n : i # k => s[i] = <<>>
  BY DEF OnlyOne
<1>2. s \in Seq(Seq(Nat)) /\ Len(s) = n /\ n # 0
  <2>1. s \in Seq(Seq(Nat))
    BY <1>1, SeqDef
  <2> QED
    BY <1>1, <2>1
<1> DEFINE F(f) == [i \in 1 .. n |-> IF i = 1 THEN s[i] ELSE f[i - 1] \o s[i]]
<1>3. PICK g : g = CHOOSE f : f = F(f)
  OBVIOUS
<1>4. FlattenSeq(s) = g[n]
  BY <1>2, <1>3 DEF FlattenSeq
<1>5. PICK h : h = [i \in 1 .. n |-> IF i < k THEN <<>> ELSE s[k]]
  OBVIOUS
<1>6. \A i \in 1 .. n : h[i] = IF i < k THEN <<>> ELSE s[k]
  BY <1>5
<1>7. s[k] \in Seq(Nat) /\ <<>> \o <<>> = <<>> /\ <<>> \o s[k] = s[k] /\ s[k] \o <<>> = s[k]
  BY <1>1, ConcatEmptySeq
<1>8. \A i \in 2 .. n : h[i] = h[i - 1] \o s[i]
  <2>1. SUFFICES ASSUME NEW i \in 2 .. n
                 PROVE  h[i] = h[i - 1] \o s[i]
    OBVIOUS
  <2>2. i \in 1 .. n /\ i - 1 \in 1 .. n
    OBVIOUS
  <2>3. CASE i < k
    <3>1. h[i] = <<>> /\ h[i - 1] = <<>> /\ s[i] = <<>>
      BY <1>1, <1>6, <2>2, <2>3
    <3> QED
      BY <1>7, <3>1
  <2>4. CASE i = k
    <3>1. h[i] = s[k] /\ h[i - 1] = <<>>
      BY <1>1, <1>6, <2>2, <2>4
    <3> QED
      BY <1>7, <2>4, <3>1
  <2>5. CASE i > k
    <3>1. h[i] = s[k] /\ h[i - 1] = s[k] /\ s[i] = <<>>
      BY <1>1, <1>6, <2>2, <2>5
    <3> QED
      BY <1>7, <3>1
  <2>6. i < k \/ i = k \/ i > k
    <3>1. i \in Int /\ k \in Int
      BY <1>1
    <3> QED
      BY <3>1
  <2> QED
    BY <2>3, <2>4, <2>5, <2>6
<1>9. h[1] = s[1]
  <2>1. CASE k = 1
    BY <1>1, <1>6, <2>1
  <2>2. CASE k # 1
    BY <1>1, <1>6, <2>2
  <2> QED
    BY <2>1, <2>2
<1>10. h = F(h)
  <2>a. \A i \in 1 .. n : i = 1 \/ i \in 2 .. n
    OBVIOUS
  <2>1. ASSUME NEW i \in 1 .. n
        PROVE  h[i] = IF i = 1 THEN s[i] ELSE h[i - 1] \o s[i]
    <3>1. CASE i = 1
      BY <1>9, <3>1
    <3>2. CASE i # 1
      BY <1>8, <2>a, <3>2
    <3> QED
      BY <3>1, <3>2
  <2>2. h = [i \in 1 .. n |-> h[i]]
    BY <1>5
  <2> QED
    BY <2>1, <2>2
<1>11. g = F(g)
  <2> HIDE DEF F
  <2> QED
    BY <1>3, <1>10
<1>12. /\ g[1] = s[1] /\ \A i \in 2 .. n : g[i] = g[i - 1] \o s[i]
  <2>1. 1 \in 1 .. n /\ \A i \in 2 .. n : i \in 1 .. n /\ i # 1
    BY <1>1
  <2> QED
    BY <1>11, <2>1
<1> HIDE DEF F
<1> DEFINE T == {i \in Nat : g[i] = h[i]}
<1>13. \A i \in 1 .. n : i \in T
  <2>1. 1 \in T
    BY <1>9, <1>12
  <2>2. ASSUME NEW i \in 1 + 1 .. n, i - 1 \in T
        PROVE  i \in T
    <3>1. i \in 2 .. n /\ i \in Nat /\ g[i - 1] = h[i - 1]
      BY <2>2
    <3>2. g[i] = g[i - 1] \o s[i]
      BY <1>12, <3>1
    <3>3. h[i] = h[i - 1] \o s[i]
      BY <1>8, <3>1
    <3> QED
      BY <3>1, <3>2, <3>3
  <2> HIDE DEF T
  <2> QED
    BY <2>1, <2>2, InductionUpTo
<1>14. g[n] = h[n] /\ h[n] = s[k]
  <2>1. n \in 1 .. n /\ ~ (n < k)
    BY <1>1
  <2> QED
    BY <1>6, <1>13, <2>1
<1> QED
  BY <1>4, <1>14

(* What GetLogMessages looks through. *)
LinesBySteps(r, at) ==
    [i \in 1 .. Len(steps) |-> IF steps[i].reactor = r /\ steps[i].time = at
                               THEN steps[i].lines ELSE <<>>]

\* The log of a reactor at a logical time: the lines of one step, or none.
LEMMA LogOfStep ==
    ASSUME StepsRecorded, NEW r, NEW at
    PROVE  /\ \A k \in 1 .. Len(steps) :
                steps[k].reactor = r /\ steps[k].time = at => LogMessages(r, at) = steps[k].lines
           /\ \/ LogMessages(r, at) = <<>>
              \/ \E k \in 1 .. Len(steps) : steps[k].reactor = r /\ steps[k].time = at
<1>1. /\ steps \in Seq(StepRecords)
      /\ \A k, l \in 1 .. Len(steps) : k < l => steps[k].time < steps[l].time
  BY DEF StepsRecorded
<1>2. PICK n \in Nat : n = Len(steps)
  BY <1>1
<1>3. \A k \in 1 .. n : steps[k] \in StepRecords
  BY <1>1, <1>2
<1>4. \A k \in 1 .. n : steps[k].time \in Nat /\ steps[k].lines \in Seq(Nat)
  BY <1>3 DEF StepRecords
<1>5. PICK s : s = LinesBySteps(r, at)
  OBVIOUS
<1>6. /\ s = [i \in 1 .. n |-> IF steps[i].reactor = r /\ steps[i].time = at
                               THEN steps[i].lines ELSE <<>>]
      /\ LogMessages(r, at) = FlattenSeq(s)
  BY <1>2, <1>5 DEF LogMessages, LinesBySteps
<1>7. s \in [1 .. n -> Seq(Nat)]
  BY <1>4, <1>6
<1>8. ASSUME NEW k \in 1 .. n, steps[k].reactor = r, steps[k].time = at
      PROVE  LogMessages(r, at) = steps[k].lines
  <2>1. \A i \in 1 .. n : i # k => steps[i].time # at
    <3>1. \A i \in 1 .. n : i # k => i < k \/ k < i
      OBVIOUS
    <3> QED
      BY <1>1, <1>2, <1>4, <1>8, <3>1
  <2>2. OnlyOne(s, n, k)
    BY <1>6, <1>7, <2>1 DEF OnlyOne
  <2>3. FlattenSeq(s) = s[k]
    BY <2>2, FlattenOne
  <2> QED
    BY <1>6, <1>8, <2>3
<1>9. ASSUME \A k \in 1 .. n : ~ (steps[k].reactor = r /\ steps[k].time = at)
      PROVE  LogMessages(r, at) = <<>>
  <2>1. CASE n = 0
    <3>1. s = <<>>
      BY <1>6, <2>1
    <3> QED
      BY <1>6, <3>1 DEF FlattenSeq
  <2>2. CASE n # 0
    <3>1. 1 \in 1 .. n /\ \A i \in 1 .. n : s[i] = <<>>
      BY <1>6, <1>9, <2>2
    <3>2. OnlyOne(s, n, 1)
      BY <1>7, <3>1 DEF OnlyOne
    <3>3. FlattenSeq(s) = s[1]
      BY <3>2, FlattenOne
    <3> QED
      BY <1>6, <3>1, <3>3
  <2> QED
    BY <2>1, <2>2
<1> QED
  BY <1>2, <1>8, <1>9

\* The row of an event that was executed.
LEMMA StepOfEvent ==
    ASSUME trace \in Seq(TraceRecords), TimesInOrder, StepsRecorded, NEW p \in Kept
    PROVE  \E k \in 1 .. Len(steps) : RowOf(k, p)
<1>1. PICK k \in 1 .. Len(steps) : steps[k].time = trace[p].recv
  BY DEF StepsRecorded
<1>2. PICK q \in Kept : RowOf(k, q)
  BY DEF StepsRecorded
<1>3. p \in 1 .. Len(trace) /\ trace[p].recv = trace[q].recv
  BY <1>1, <1>2 DEF Kept, RowOf
<1>4. p = q
  BY <1>3, KeptByTime
<1> QED
  BY <1>2, <1>4

\* The lines of a row but for the last.
LEMMA LinesBefore ==
    ASSUME NEW lines \in Seq(Nat), NEW time, LinesOf(lines, time)
    PROVE  lines # <<>> /\ Last(lines) = time /\ ToSet(Front(lines)) \subseteq {InitLine}
<1>1. PICK n \in Nat : n = Len(lines) - 1
  <2>1. Len(lines) - 1 \in Nat
    BY DEF LinesOf
  <2> QED
    BY <2>1
<1>2. /\ Len(lines) = n + 1 /\ lines[n + 1] = time /\ \A j \in 1 .. n : lines[j] = InitLine
  BY <1>1 DEF LinesOf
<1>3. lines # <<>> /\ Last(lines) = time
  BY <1>2 DEF Last
<1>4. Front(lines) = [j \in 1 .. n |-> lines[j]]
  BY <1>1, <1>2 DEF Front
<1>5. DOMAIN Front(lines) = 1 .. n /\ \A j \in 1 .. n : Front(lines)[j] = InitLine
  BY <1>2, <1>4
<1>6. ToSet(Front(lines)) \subseteq {InitLine}
  BY <1>5 DEF ToSet
<1> QED
  BY <1>3, <1>6

\* The log that is shown is that of the step.
LEMMA LinesFollow ==
    ASSUME ShownInv
    PROVE  LinesAreOfTheStep
<1>1. /\ trace \in Seq(TraceRecords) /\ TimesInOrder /\ StepsRecorded
      /\ \A k \in 1 .. Len(steps) : LinesOf(steps[k].lines, steps[k].time)
      /\ steps \in Seq(StepRecords) /\ Len(trace) \in Nat
  BY DEF ShownInv, HistoryInv, TraceTypeOK, RecordInv, TimesInv, LinesRecorded, StepsRecorded
<1>2. ASSUME NEW i \in 1 .. Len(events), NEW r, NEW shown, NEW delivered,
             r = events[i].to, shown = LogMessages(r, events[i].recv),
             delivered = (events[i].kind \in {"invoke", "message"} /\ ~ events[i].dropped)
      PROVE  /\ delivered => /\ shown # <<>> /\ Last(shown) = events[i].recv
                             /\ ToSet(Front(shown)) \subseteq {InitLine}
             /\ ~ delivered /\ shown # <<>> =>
                  \E j \in 1 .. i - 1 : events[j].recv = events[i].recv /\ events[j].to = r
  <2>1. PICK p \in 1 .. Len(trace) : p = Rows[i] /\ events[i] = trace[p]
    BY <1>1, EventType
  <2>2. p \in Kept <=> delivered
    <3>1. p \in DOMAIN trace
      BY <1>1
    <3>2. p \in Kept <=> events[i].kind \in {"invoke", "message"} /\ ~ events[i].dropped
      BY <2>1, <3>1 DEF Kept
    <3> QED
      BY <1>2, <3>2
  <2>3. CASE delivered
    <3>1. PICK k \in 1 .. Len(steps) : RowOf(k, p)
      BY <1>1, <2>2, <2>3, StepOfEvent
    <3>2. steps[k].reactor = r /\ steps[k].time = events[i].recv
      BY <1>2, <2>1, <3>1 DEF RowOf
    <3>3. shown = steps[k].lines
      BY <1>1, <1>2, <3>2, LogOfStep
    <3>4. LinesOf(shown, events[i].recv) /\ shown \in Seq(Nat)
      <4>1. steps[k] \in StepRecords
        BY <1>1
      <4> QED
        BY <1>1, <3>2, <3>3, <4>1 DEF StepRecords
    <3> QED
      BY <2>3, <3>4, LinesBefore
  <2>4. CASE ~ delivered /\ shown # <<>>
    <3>1. PICK k \in 1 .. Len(steps) : steps[k].reactor = r /\ steps[k].time = events[i].recv
      BY <1>1, <1>2, <2>4, LogOfStep
    <3>2. PICK q \in Kept : RowOf(k, q)
      BY <1>1 DEF StepsRecorded
    <3>3. trace[p].recv = trace[q].recv /\ trace[q].to = r
      BY <2>1, <3>1, <3>2 DEF RowOf
    <3>4. q <= p /\ q # p /\ q \in 1 .. Len(trace)
      BY <1>1, <2>2, <2>4, <3>3, KeptByTime DEF Kept
    <3>5. PICK j \in 1 .. Len(events) : Rows[j] = q /\ events[j] = trace[q]
      BY <1>1, KeptHasRow
    <3>6. i \in 1 .. Len(Rows) /\ j \in 1 .. Len(Rows) /\ Len(Rows) \in Nat
      BY <1>1, EventsAre
    <3>7. ~ (i < j) /\ i # j
      <4>1. i < j => Rows[i] < Rows[j]
        BY <1>1, <3>6, RowsList DEF Lists
      <4> QED
        BY <2>1, <3>4, <3>5, <4>1
    <3>8. j \in 1 .. i - 1
      BY <3>6, <3>7
    <3> QED
      BY <2>1, <2>4, <3>3, <3>5, <3>8
  <2> QED
    BY <2>3, <2>4
<1> QED
  BY <1>2 DEF LinesAreOfTheStep

\* The log of an event is that of its step, with at most lines of Init before it,
\* and an event that was not delivered shows none of its own.
THEOREM LogsAreOfTheirStep == DebuggerSpec => []LinesAreOfTheStep
<1>1. ShownInv => LinesAreOfTheStep
  BY LinesFollow
<1> QED
  BY ShownInvariant, <1>1, PTL

---------------------------------------------------------------------------
(* The heaps *)

ShownHeap == [Fields -> Values \cup {Null, Absent}]

\* The change map has one row at most for a logical time.
LEMMA ChangeIs ==
    ASSUME StepsRecorded, NEW t
    PROVE  /\ \A k \in 1 .. Len(steps) : steps[k].time = t => ChangesAt(t) = {steps[k]}
           /\ \A hd \in ChangesAt(t) : \E k \in 1 .. Len(steps) : hd = steps[k] /\ steps[k].time = t
<1>1. /\ steps \in Seq(StepRecords)
      /\ \A k, l \in 1 .. Len(steps) : k < l => steps[k].time < steps[l].time
  BY DEF StepsRecorded
<1>2. PICK n \in Nat : n = Len(steps)
  BY <1>1
<1>3. \A k \in 1 .. n : steps[k].time \in Nat
  <2>1. \A k \in 1 .. n : steps[k] \in StepRecords
    BY <1>1, <1>2
  <2> QED
    BY <2>1 DEF StepRecords
<1>4. PICK at : at = {k \in 1 .. n : steps[k].time = t}
  OBVIOUS
<1>5. ChangesAt(t) = {steps[k] : k \in {k \in at : \A l \in at : l <= k}}
  BY <1>2, <1>4 DEF ChangesAt
<1>6. ASSUME NEW k \in 1 .. n, steps[k].time = t
      PROVE  ChangesAt(t) = {steps[k]}
  <2>1. \A l \in 1 .. n : l # k => l < k \/ k < l
    OBVIOUS
  <2>2. \A l \in 1 .. n : l # k => steps[l].time # t
    BY <1>1, <1>2, <1>3, <1>6, <2>1
  <2>3. at = {k}
    BY <1>4, <1>6, <2>2
  <2>4. {i \in at : \A l \in at : l <= i} = {k}
    BY <2>3
  <2> QED
    BY <1>5, <2>4
<1>7. ASSUME NEW hd \in ChangesAt(t)
      PROVE  \E k \in 1 .. n : hd = steps[k] /\ steps[k].time = t
  BY <1>4, <1>5
<1> QED
  BY <1>2, <1>6, <1>7

(* The reactor has a row at the logical time of an event. *)
ChangeOf(k, r, row) ==
    k \in 1 .. Len(steps) /\ steps[k].time = events[row].recv /\ steps[k].reactor = r

\* What HeapAfter does to the heap of a reactor.
LEMMA HeapAfterIs ==
    ASSUME StepsRecorded, NEW old, NEW row, NEW r \in Components
    PROVE  /\ \A k : ChangeOf(k, r, row) =>
                HeapAfter(old, row)[r] = applyDiff(old[r], steps[k].diff)
           /\ (\A k : ~ ChangeOf(k, r, row)) => HeapAfter(old, row)[r] = old[r]
<1>1. PICK C : C = ChangesAt(events[row].recv)
  OBVIOUS
<1>2. HeapAfter(old, row)[r] = IF \E hd \in C : hd.reactor = r
                               THEN applyDiff(old[r], (CHOOSE hd \in C : TRUE).diff)
                               ELSE old[r]
  BY <1>1 DEF HeapAfter
<1>3. ASSUME NEW k, ChangeOf(k, r, row)
      PROVE  HeapAfter(old, row)[r] = applyDiff(old[r], steps[k].diff)
  <2>1. C = {steps[k]} /\ steps[k].reactor = r
    BY <1>1, <1>3, ChangeIs DEF ChangeOf
  <2>2. (CHOOSE hd \in C : TRUE) = steps[k]
    BY <2>1
  <2> QED
    BY <1>2, <2>1, <2>2
<1>4. ASSUME \A k : ~ ChangeOf(k, r, row)
      PROVE  HeapAfter(old, row)[r] = old[r]
  <2>1. \A hd \in C : hd.reactor # r
    BY <1>1, <1>4, ChangeIs DEF ChangeOf
  <2> QED
    BY <1>2, <2>1
<1> QED
  BY <1>3, <1>4

\* HeapAfter returns heaps.
LEMMA HeapAfterType ==
    ASSUME StepsRecorded, NEW old \in [Components -> ShownHeap], NEW row
    PROVE  HeapAfter(old, row) \in [Components -> ShownHeap]
<1>1. ASSUME NEW r \in Components
      PROVE  HeapAfter(old, row)[r] \in ShownHeap
  <2>1. old[r] \in ShownHeap
    OBVIOUS
  <2>2. ASSUME NEW k, ChangeOf(k, r, row)
        PROVE  HeapAfter(old, row)[r] \in ShownHeap
    <3>1. steps[k] \in StepRecords
      BY <2>2 DEF ChangeOf, StepsRecorded
    <3>2. PICK F \in SUBSET Fields : steps[k].diff \in [F -> Values \cup {Null}]
      BY <3>1 DEF StepRecords, Diffs
    <3>3. applyDiff(old[r], steps[k].diff) \in ShownHeap
      BY <2>1, <3>2 DEF applyDiff, ShownHeap
    <3> QED
      BY <2>2, <3>3, HeapAfterIs
  <2>3. (\A k : ~ ChangeOf(k, r, row)) => HeapAfter(old, row)[r] \in ShownHeap
    BY <2>1, HeapAfterIs
  <2> QED
    BY <2>2, <2>3
<1>2. HeapAfter(old, row) = [r \in Components |-> HeapAfter(old, row)[r]]
  BY DEF HeapAfter
<1> QED
  BY <1>1, <1>2

\* The recursion of Heaps.
LEMMA HeapsRecursion ==
    ASSUME StepsRecorded, Len(events) \in Nat
    PROVE  /\ Heaps[0] = [r \in Components |-> InitialHeap]
           /\ \A i \in 1 .. Len(events) : Heaps[i] = HeapAfter(Heaps[i - 1], i)
<1> DEFINE S == [Components -> ShownHeap]
<1>1. PICK N \in Nat : N = Len(events)
  OBVIOUS
<1>2. PICK x : x = [r \in Components |-> InitialHeap]
  OBVIOUS
<1>3. x \in S
  BY <1>2, ExecutorAssumption DEF HeapStates, ShownHeap
<1> DEFINE G == [i \in 1 .. N |-> [h \in S |-> HeapAfter(h, i)]]
           F(f) == [i \in 0 .. N |-> IF i = 0 THEN x ELSE HeapAfter(f[i - 1], i)]
<1>4. Transforms(G, N, S)
  <2>1. \A i \in 1 .. N : [h \in S |-> HeapAfter(h, i)] \in [S -> S]
    BY HeapAfterType
  <2> HIDE DEF S
  <2> QED
    BY <2>1 DEF Transforms
<1>5. PICK h : Iteration(h, x, G, N, S)
  <2> HIDE DEF S, G
  <2> QED
    BY <1>3, <1>4, Iterates
<1>6. /\ h \in [0 .. N -> S] /\ h[0] = x
      /\ \A i \in 1 .. N : h[i] = HeapAfter(h[i - 1], i)
  <2> HIDE DEF S
  <2>1. h \in [0 .. N -> S] /\ h[0] = x /\ \A i \in 1 .. N : h[i] = G[i][h[i - 1]]
    BY <1>5 DEF Iteration
  <2>2. \A i \in 1 .. N : h[i - 1] \in S
    BY <2>1
  <2> QED
    BY <2>1, <2>2
<1>7. h = F(h)
  <2>1. \A i \in 0 .. N : i = 0 \/ i \in 1 .. N
    OBVIOUS
  <2>2. h = [i \in 0 .. N |-> h[i]]
    BY <1>6
  <2>3. ASSUME NEW i \in 0 .. N
        PROVE  h[i] = IF i = 0 THEN x ELSE HeapAfter(h[i - 1], i)
    BY <1>6, <2>1
  <2> QED
    BY <2>2, <2>3
<1>8. Heaps = CHOOSE f : f = F(f)
  BY <1>1, <1>2 DEF Heaps
<1>9. Heaps = F(Heaps)
  <2> HIDE DEF F
  <2> QED
    BY <1>7, <1>8
<1>10. 0 \in 0 .. N /\ \A i \in 1 .. N : i \in 0 .. N /\ i # 0
  OBVIOUS
<1> QED
  BY <1>1, <1>2, <1>9, <1>10

\* The heap of a reactor stays as it is between two of its events.
LEMMA Steady ==
    ASSUME HeapsRecorded, trace \in Seq(TraceRecords),
           NEW m \in 0 .. Len(trace), NEW n \in 0 .. Len(trace), NEW r \in Loud,
           \A j \in m + 1 .. n : ~ (j \in Kept /\ trace[j].to = r)
    PROVE  m <= n => At(n)[r] = At(m)[r]
<1>1. m \in Nat /\ n \in Nat /\ Len(trace) \in Nat
  OBVIOUS
<1> DEFINE T == {i \in Nat : At(i)[r] = At(m)[r]}
<1>2. m \in T
  BY <1>1
<1>3. ASSUME NEW i \in m + 1 .. n, i - 1 \in T
      PROVE  i \in T
  <2>1. i \in 1 .. Len(trace) /\ i \in Nat
    BY <1>1
  <2>2. At(i)[r] = At(i - 1)[r]
    BY <2>1 DEF HeapsRecorded
  <2>3. At(i - 1)[r] = At(m)[r]
    BY <1>3
  <2> QED
    BY <2>1, <2>2, <2>3
<1>4. \A i \in m .. n : i \in T
  <2> HIDE DEF T
  <2> QED
    BY <1>1, <1>2, <1>3, InductionUpTo
<1>5. m <= n => n \in m .. n
  BY <1>1
<1> QED
  BY <1>4, <1>5

\* A merge patch of the difference leads to the new heap, from any heap that has
\* what did not change.
LEMMA PatchLeadsThere ==
    ASSUME NEW old, NEW new, NEW shown,
           \A f \in Fields : old[f] = new[f] =>
               shown[f] = new[f] \/ (shown[f] = Absent /\ new[f] = Null)
    PROVE  Same(applyDiff(shown, jsonDiff(old, new)), new)
<1>1. PICK diff, F : diff = jsonDiff(old, new) /\ F = {g \in Fields : old[g] # new[g]}
  OBVIOUS
<1>2. DOMAIN diff = F /\ \A f \in F : diff[f] = new[f]
  BY <1>1 DEF jsonDiff
<1>3. ASSUME NEW f \in Fields
      PROVE  \/ applyDiff(shown, diff)[f] = new[f]
             \/ applyDiff(shown, diff)[f] = Absent /\ new[f] = Null
  <2>1. applyDiff(shown, diff)[f] = IF f \notin DOMAIN diff THEN shown[f]
                                    ELSE IF diff[f] = Null THEN Absent ELSE diff[f]
    BY DEF applyDiff
  <2>2. CASE f \in F
    BY <1>2, <2>1, <2>2
  <2>3. CASE f \notin F
    <3>1. old[f] = new[f] /\ applyDiff(shown, diff)[f] = shown[f]
      BY <1>1, <1>2, <2>1, <2>3
    <3> QED
      BY <3>1
  <2> QED
    BY <2>2, <2>3
<1> QED
  BY <1>1, <1>3 DEF Same

(* The event of a row, or the start of the run. *)
Before(i) == IF i = 0 THEN 0 ELSE Rows[i]

\* Between two rows nothing was executed.
LEMMA NothingBetweenRows ==
    ASSUME trace \in Seq(TraceRecords), NEW i \in 1 .. Len(events)
    PROVE  /\ Rows[i] \in 1 .. Len(trace) /\ Before(i - 1) \in 0 .. Rows[i] - 1
           /\ \A j \in Before(i - 1) + 1 .. Rows[i] - 1 : j \notin Kept
<1>1. /\ Len(trace) \in Nat /\ Len(events) = Len(Rows) /\ Len(Rows) \in Nat
      /\ \A k \in 1 .. Len(Rows) : Rows[k] \in 1 .. Len(trace)
      /\ \A k, l \in 1 .. Len(Rows) : k < l => Rows[k] < Rows[l]
  BY EventsAre, RowsList DEF Lists
<1>2. PICK p : p = Rows[i]
  OBVIOUS
<1>3. p \in 1 .. Len(trace)
  BY <1>1, <1>2
<1>4. CASE i = 1
  <2>1. Before(i - 1) = 0
    BY <1>4 DEF Before
  <2>2. ASSUME NEW j \in 1 .. p - 1, j \in Kept
        PROVE  FALSE
    <3>1. PICK l \in 1 .. Len(Rows) : Rows[l] = j
      BY <1>1, <2>2, KeptHasRow
    <3>2. l = i \/ i < l
      BY <1>4
    <3> QED
      BY <1>1, <1>2, <1>3, <3>1, <3>2
  <2> QED
    BY <1>1, <1>2, <1>3, <2>1, <2>2
<1>5. CASE i # 1
  <2>1. i - 1 \in 1 .. Len(Rows) /\ i \in 1 .. Len(Rows) /\ i - 1 < i /\ i - 1 # 0
    BY <1>1, <1>5
  <2>2. PICK o : o = Rows[i - 1]
    OBVIOUS
  <2>3. Before(i - 1) = o /\ o \in 1 .. Len(trace) /\ o < p
    BY <1>1, <1>2, <2>1, <2>2 DEF Before
  <2>4. ASSUME NEW j \in o + 1 .. p - 1, j \in Kept
        PROVE  FALSE
    <3>1. PICK l \in 1 .. Len(Rows) : Rows[l] = j
      BY <1>1, <2>4, KeptHasRow
    <3>2. l < i - 1 \/ l = i - 1 \/ l = i \/ i < l
      BY <2>1
    <3>3. l < i - 1 => Rows[l] < o
      BY <1>1, <2>1, <2>2, <3>1
    <3>4. i < l => p < Rows[l]
      BY <1>1, <1>2, <2>1, <3>1
    <3> QED
      BY <1>2, <1>3, <2>2, <2>3, <3>1, <3>2, <3>3, <3>4
  <2> QED
    BY <1>1, <1>2, <1>3, <2>3, <2>4
<1> QED
  BY <1>4, <1>5

\* A row of the debugger leads from the right heap to the right heap.
LEMMA HeapOfRow ==
    ASSUME trace \in Seq(TraceRecords), TimesInOrder, HeapsRecorded, StepsRecorded,
           NEW i \in 1 .. Len(events), NEW r \in Loud, NEW old,
           Same(old[r], At(Before(i - 1))[r])
    PROVE  Same(HeapAfter(old, i)[r], At(Rows[i])[r])
<1>1. PICK p, o \in Nat : p = Rows[i] /\ o = Before(i - 1)
  BY NothingBetweenRows
<1>2. /\ p \in 1 .. Len(trace) /\ o \in 0 .. p - 1 /\ Len(trace) \in Nat
      /\ \A j \in o + 1 .. p - 1 : j \notin Kept
      /\ events[i] = trace[p]
  BY <1>1, NothingBetweenRows, EventType
<1>3. At(p - 1)[r] = At(o)[r]
  <2>1. p - 1 \in 0 .. Len(trace) /\ o \in 0 .. Len(trace) /\ o <= p - 1
    BY <1>2
  <2> QED
    BY <1>2, <2>1, Steady
<1>4. Same(old[r], At(p - 1)[r]) /\ r \in Components
  BY <1>1, <1>3 DEF Loud
<1>5. ASSUME NEW k, ChangeOf(k, r, i)
      PROVE  Same(HeapAfter(old, i)[r], At(p)[r])
  <2>1. PICK q \in Kept : RowOf(k, q)
    BY <1>5 DEF StepsRecorded, ChangeOf
  <2>2. /\ trace[p].recv = trace[q].recv /\ trace[q].to = r
        /\ steps[k].diff = jsonDiff(At(q - 1)[r], At(q)[r])
    BY <1>2, <1>5, <2>1 DEF RowOf, ChangeOf
  <2>3. q \in 1 .. Len(trace) /\ q <= p /\ \A j \in q + 1 .. p : j \notin Kept
    <3>1. q \in 1 .. Len(trace)
      BY DEF Kept
    <3> QED
      BY <1>2, <2>2, <3>1, KeptByTime
  <2>4. At(p)[r] = At(q)[r]
    <3>1. p \in 0 .. Len(trace) /\ q \in 0 .. Len(trace)
      BY <1>2, <2>3
    <3> QED
      BY <2>3, <3>1, Steady
  <2>5. q # p => At(p - 1)[r] = At(q)[r]
    <3>1. q # p => p - 1 \in 0 .. Len(trace) /\ q \in 0 .. Len(trace) /\ q <= p - 1
      BY <1>2, <2>3
    <3>2. \A j \in q + 1 .. p - 1 : j \notin Kept
      BY <1>2, <2>3
    <3> QED
      BY <3>1, <3>2, Steady
  <2>6. PICK a, b, x : a = At(q - 1)[r] /\ b = At(q)[r] /\ x = old[r]
    OBVIOUS
  <2>7. ASSUME NEW f \in Fields, a[f] = b[f]
        PROVE  x[f] = b[f] \/ (x[f] = Absent /\ b[f] = Null)
    <3>1. CASE q = p
      BY <1>4, <2>6, <2>7, <3>1 DEF Same
    <3>2. CASE q # p
      BY <1>4, <2>5, <2>6, <3>2 DEF Same
    <3> QED
      BY <3>1, <3>2
  <2>8. Same(applyDiff(x, jsonDiff(a, b)), b)
    BY <2>7, PatchLeadsThere
  <2>9. HeapAfter(old, i)[r] = applyDiff(old[r], steps[k].diff)
    BY <1>4, <1>5, HeapAfterIs
  <2> QED
    BY <2>2, <2>4, <2>6, <2>8, <2>9
<1>6. ASSUME \A k : ~ ChangeOf(k, r, i)
      PROVE  Same(HeapAfter(old, i)[r], At(p)[r])
  <2>1. HeapAfter(old, i)[r] = old[r]
    BY <1>4, <1>6, HeapAfterIs
  <2>2. ~ (p \in Kept /\ trace[p].to = r)
    <3>1. ASSUME p \in Kept, trace[p].to = r
          PROVE  FALSE
      <4>1. PICK k \in 1 .. Len(steps) : RowOf(k, p)
        BY <3>1, StepOfEvent
      <4>2. ChangeOf(k, r, i)
        BY <1>2, <3>1, <4>1 DEF ChangeOf, RowOf
      <4> QED
        BY <1>6, <4>2
    <3> QED
      BY <3>1
  <2>3. At(p)[r] = At(p - 1)[r]
    BY <1>2, <2>2 DEF HeapsRecorded
  <2> QED
    BY <1>4, <2>1, <2>3
<1> QED
  BY <1>1, <1>5, <1>6

\* The heaps that are shown are the ones there were.
LEMMA HeapsFollow ==
    ASSUME ShownInv
    PROVE  DebuggerInv
<1>1. /\ trace \in Seq(TraceRecords) /\ TimesInOrder /\ HeapsRecorded /\ StepsRecorded /\ ViewOK
      /\ Len(trace) \in Nat
  BY DEF ShownInv, HistoryInv, TraceTypeOK, RecordInv, TimesInv
<1>2. PICK n \in Nat : n = Len(events)
  BY <1>1, EventsAre
<1>3. /\ Heaps[0] = [q \in Components |-> InitialHeap]
      /\ \A i \in 1 .. n : Heaps[i] = HeapAfter(Heaps[i - 1], i)
  BY <1>1, <1>2, HeapsRecursion
<1>4. ASSUME NEW r \in Loud
      PROVE  \A i \in 0 .. n : Same(Heaps[i][r], At(Before(i))[r])
  <2> DEFINE T == {i \in Nat : Same(Heaps[i][r], At(Before(i))[r])}
  <2>1. 0 \in T
    <3>1. r \in Components /\ Heaps[0][r] = InitialHeap /\ At(Before(0))[r] = InitialHeap
      BY <1>3 DEF Loud, At, Before
    <3> QED
      BY <3>1 DEF Same
  <2>2. ASSUME NEW i \in 0 + 1 .. n, i - 1 \in T
        PROVE  i \in T
    <3>1. i \in 1 .. Len(events) /\ i \in 1 .. n /\ i \in Nat /\ Before(i) = Rows[i]
      BY <1>2 DEF Before
    <3>2. Same(Heaps[i - 1][r], At(Before(i - 1))[r])
      BY <2>2
    <3>3. Same(HeapAfter(Heaps[i - 1], i)[r], At(Rows[i])[r])
      BY <1>1, <3>1, <3>2, HeapOfRow
    <3> QED
      BY <1>3, <3>1, <3>3
  <2>3. \A i \in 0 .. n : i \in T
    <3> HIDE DEF T
    <3> QED
      BY <2>1, <2>2, InductionUpTo
  <2> QED
    BY <2>3
<1>5. HeapsAreTrue
  <2>1. ASSUME NEW i \in 1 .. Len(events), NEW r \in Components \ silent
        PROVE  Same(Heaps[i][r], truth[Rows[i]][r])
    <3>1. i \in 0 .. n /\ i # 0 /\ Rows[i] # 0 /\ r \in Loud
      BY <1>1, <1>2, EventType DEF Loud
    <3>2. At(Before(i)) = truth[Rows[i]]
      BY <3>1 DEF At, Before
    <3> QED
      BY <1>4, <3>1, <3>2
  <2> QED
    BY <2>1 DEF HeapsAreTrue
<1>6. DebuggerTypeOK
  <2>1. \A k \in 1 .. Len(steps) - 1 : steps[k].time < steps[k + 1].time
    <3>1. steps \in Seq(StepRecords)
      BY <1>1 DEF StepsRecorded
    <3>2. \A k \in 1 .. Len(steps) - 1 : k \in 1 .. Len(steps) /\ k + 1 \in 1 .. Len(steps) /\ k < k + 1
      BY <3>1
    <3> QED
      BY <1>1, <3>2 DEF StepsRecorded
  <2> QED
    BY <1>1, <2>1 DEF DebuggerTypeOK, HeapsRecorded, ViewOK
<1> QED
  BY <1>5, <1>6 DEF DebuggerInv

\* The heaps that the debugger puts together from the recorded changes are those
\* that the reactors had, and it shows a row that exists.
THEOREM ShownHeapsAreTrue == DebuggerSpec => []DebuggerInv
<1>1. ShownInv => DebuggerInv
  BY HeapsFollow
<1> QED
  BY ShownInvariant, <1>1, PTL
=============================================================================
