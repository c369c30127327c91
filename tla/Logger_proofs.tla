--------------------------- MODULE Logger_proofs ----------------------------
(***************************************************************************)
(* What holds of the service and of the loggers it runs, for any number of *)
(* terminals, processes, entries and questions.                            *)
(***************************************************************************)
EXTENDS Logger, FiniteSetTheorems, SequenceTheorems, TLAPS

---------------------------------------------------------------------------
(* The pid file *)

ServiceTypeOK ==
    /\ pidFile \in {NoPid, BadPid} \cup Pids
    /\ process \in [Pids -> {"none", "running", "dead"}]
    /\ command \in [Shells -> {"idle", "start", "write", "kill", "remove"}]
    /\ pid \in [Shells -> {NoPid} \cup Pids]
    /\ typed \in Nat
    /\ disturbed \in BOOLEAN

(* The pids in the file and in the hands of a command are of processes     *)
(* that were started.                                                      *)
PidsWereStarted ==
    /\ pidFile \in Pids => process[pidFile] # "none"
    /\ \A s \in Shells : command[s] \in {"write", "kill", "remove"} =>
          pid[s] \in Pids /\ process[pid[s]] # "none"

(* Undisturbed, there is one command at a time, and at every one of its    *)
(* steps it knows about every process that runs.                           *)
OneCommand ==
    \A s, t \in Shells : command[s] # "idle" /\ command[t] # "idle" => s = t

CommandKnows(s) ==
    /\ command[s] = "start" => Running = {}
    /\ command[s] = "write" => Running \subseteq {pid[s]}
    /\ command[s] = "kill" => pid[s] = pidFile /\ Running \subseteq {pidFile}
    /\ command[s] = "remove" => Running = {}

ServiceInv ==
    /\ ServiceTypeOK
    /\ PidsWereStarted
    /\ ~ disturbed => OneCommand /\ \A s \in Shells : CommandKnows(s)
    /\ RunningIsInPidFile

LEMMA ServiceInitInv == ServiceInit => ServiceInv
<1> SUFFICES ASSUME ServiceInit PROVE ServiceInv
  OBVIOUS
<1>1. Running = {} /\ \A s \in Shells : command[s] = "idle"
  BY DEF ServiceInit, Running
<1>2. ServiceTypeOK /\ PidsWereStarted
  <2>1. NoPid \notin Pids
    BY DEF NoPid, Pids
  <2> QED BY <1>1, <2>1 DEF ServiceInit, ServiceTypeOK, PidsWereStarted
<1>3. OneCommand /\ (\A s \in Shells : CommandKnows(s)) /\ RunningIsInPidFile
  BY <1>1 DEF OneCommand, CommandKnows, RunningIsInPidFile
<1> QED BY <1>2, <1>3 DEF ServiceInv

(* Processes that end do no harm. *)
LEMMA DieStep ==
    ASSUME ServiceInv, NEW p \in Running, Die(p),
           UNCHANGED shellVars
    PROVE  ServiceInv'
<1>0. UNCHANGED <<pidFile, command, pid, typed, disturbed>>
  BY DEF shellVars
<1>1. /\ process' \in [Pids -> {"none", "running", "dead"}]
      /\ \A q \in Pids : process'[q] = IF q = p THEN "dead" ELSE process[q]
  BY DEF Die, Running, ServiceInv, ServiceTypeOK
<1>2. Running' \subseteq Running
  BY <1>1 DEF Running
<1>3. ServiceTypeOK' /\ PidsWereStarted'
  BY <1>0, <1>1 DEF ServiceInv, ServiceTypeOK, PidsWereStarted
<1>4. ~ disturbed => OneCommand' /\ \A s \in Shells : CommandKnows(s)'
  BY <1>0, <1>2 DEF ServiceInv, OneCommand, CommandKnows
<1>5. RunningIsInPidFile'
  BY <1>0, <1>2 DEF ServiceInv, RunningIsInPidFile, Busy
<1> QED BY <1>0, <1>3, <1>4, <1>5 DEF ServiceInv

(* The first step of a command: nobody else may be at it. *)
LEMMA BeginStep ==
    ASSUME ServiceInv, NEW s \in Shells, NEW step \in {"start", "kill"}, Begin(s, step)
    PROVE  /\ command' \in [Shells -> {"idle", "start", "write", "kill", "remove"}]
           /\ typed' \in Nat /\ disturbed' \in BOOLEAN
           /\ command[s] = "idle" /\ command'[s] = step
           /\ \A t \in Shells \ {s} : command'[t] = command[t]
           /\ ~ disturbed' => /\ ~ disturbed
                               /\ \A t \in Shells : command[t] = "idle"
                               /\ Running \subseteq {pidFile}
<1>1. /\ command[s] = "idle" /\ typed' = typed + 1
      /\ command' = [command EXCEPT ![s] = step]
      /\ disturbed' = (disturbed \/ Busy)
  BY DEF Begin, Goto, Busy
<1>2. /\ command' \in [Shells -> {"idle", "start", "write", "kill", "remove"}]
      /\ typed' \in Nat /\ command'[s] = step
      /\ \A t \in Shells \ {s} : command'[t] = command[t]
  BY <1>1 DEF ServiceInv, ServiceTypeOK
<1>3. disturbed' \in BOOLEAN /\ (~ disturbed' => ~ disturbed /\ ~ Busy)
  BY <1>1, Zenon
<1>4. ~ disturbed /\ ~ Busy => Running \subseteq {pidFile}
  BY DEF ServiceInv, RunningIsInPidFile
<1>5. ~ Busy => \A t \in Shells : command[t] = "idle"
  BY DEF Busy
<1> QED BY <1>1, <1>2, <1>3, <1>4, <1>5

LEMMA ServiceStep ==
    ASSUME ServiceInv, ServiceNext
    PROVE  ServiceInv'
<1> USE DEF ServiceInv
<1>1. PICK s \in Shells : \/ UpCheck(s) \/ UpStart(s) \/ UpWrite(s)
                          \/ DownRead(s) \/ DownKill(s) \/ DownRemove(s)
  BY DEF ServiceNext
<1>2. NoPid \notin Pids /\ BadPid \notin Pids
  BY DEF NoPid, BadPid, Pids
<1>3. CASE UpCheck(s)
  <2>1. /\ command' \in [Shells -> {"idle", "start", "write", "kill", "remove"}]
        /\ typed' \in Nat /\ disturbed' \in BOOLEAN
        /\ command[s] = "idle" /\ command'[s] = "start"
        /\ \A t \in Shells \ {s} : command'[t] = command[t]
        /\ ~ disturbed' => /\ ~ disturbed
                            /\ \A t \in Shells : command[t] = "idle"
                            /\ Running \subseteq {pidFile}
    BY <1>3, BeginStep DEF UpCheck
  <2>2. UNCHANGED <<pidFile, process, pid>> /\ pidFile \notin Pids /\ Running' = Running
    BY <1>3 DEF UpCheck, Running
  <2>3. ServiceTypeOK' /\ PidsWereStarted'
    BY <2>1, <2>2 DEF ServiceTypeOK, PidsWereStarted
  <2>4. ~ disturbed' => Running = {}
    BY <2>1, <2>2, <1>2 DEF Running
  <2>5. ~ disturbed' => OneCommand' /\ \A t \in Shells : CommandKnows(t)'
    BY <2>1, <2>2, <2>4 DEF OneCommand, CommandKnows
  <2>6. RunningIsInPidFile'
    BY <2>1 DEF RunningIsInPidFile, Busy
  <2> QED BY <2>3, <2>5, <2>6
<1>4. CASE UpStart(s)
  <2>0. CASE /\ \E p \in Pids :
                   /\ process[p] = "none"
                   /\ process' = [process EXCEPT ![p] = "running"]
                   /\ pid' = [pid EXCEPT ![s] = p]
             /\ Goto(s, "write")
    <3>1. PICK p \in Pids :
              /\ process[p] = "none"
              /\ process' = [process EXCEPT ![p] = "running"]
              /\ pid' = [pid EXCEPT ![s] = p]
      BY <2>0
    <3>2. /\ UNCHANGED <<pidFile, typed, disturbed>> /\ command[s] = "start"
          /\ command' = [command EXCEPT ![s] = "write"]
      BY <1>4, <2>0 DEF UpStart, Goto
    <3>3. Running' = Running \cup {p}
      BY <3>1 DEF Running, ServiceTypeOK
    <3>4. ServiceTypeOK'
      BY <3>1, <3>2 DEF ServiceTypeOK
    <3>5. PidsWereStarted'
      BY <3>1, <3>2 DEF ServiceTypeOK, PidsWereStarted
    <3>6. ~ disturbed => OneCommand' /\ \A t \in Shells : CommandKnows(t)'
      BY <3>1, <3>2, <3>3 DEF ServiceTypeOK, OneCommand, CommandKnows
    <3>7. RunningIsInPidFile'
      BY <3>2 DEF RunningIsInPidFile, Busy, ServiceTypeOK
    <3> QED BY <3>2, <3>4, <3>5, <3>6, <3>7
  <2>1. CASE Exit(s) /\ UNCHANGED process
    <3>1. /\ UNCHANGED <<pidFile, process, typed, disturbed>> /\ command[s] = "start"
          /\ command' = [command EXCEPT ![s] = "idle"]
          /\ pid' = [pid EXCEPT ![s] = NoPid]
          /\ Running' = Running
      BY <1>4, <2>1 DEF UpStart, Exit, Goto, Running
    <3>2. ServiceTypeOK' /\ PidsWereStarted'
      BY <3>1 DEF ServiceTypeOK, PidsWereStarted
    <3>3. ~ disturbed => OneCommand' /\ \A t \in Shells : CommandKnows(t)'
      BY <3>1 DEF ServiceTypeOK, OneCommand, CommandKnows
    <3>4. RunningIsInPidFile'
      BY <3>1 DEF RunningIsInPidFile, CommandKnows
    <3> QED BY <3>1, <3>2, <3>3, <3>4
  <2> QED BY <1>4, <2>0, <2>1 DEF UpStart
<1>5. CASE UpWrite(s)
  <2>1. /\ UNCHANGED <<process, typed>> /\ command[s] = "write"
        /\ \/ pidFile' = pid[s] /\ UNCHANGED disturbed
           \/ pidFile' \in {pidFile, BadPid} /\ disturbed' = TRUE
        /\ command' = [command EXCEPT ![s] = "idle"]
        /\ pid' = [pid EXCEPT ![s] = NoPid]
        /\ Running' = Running
    BY <1>5 DEF UpWrite, Exit, Goto, Running
  <2>2. CASE pidFile' = pid[s] /\ UNCHANGED disturbed
    <3>1. ServiceTypeOK' /\ PidsWereStarted'
      BY <2>1, <2>2 DEF ServiceTypeOK, PidsWereStarted
    <3>2. ~ disturbed => OneCommand' /\ \A t \in Shells : CommandKnows(t)'
      BY <2>1, <2>2 DEF ServiceTypeOK, OneCommand, CommandKnows
    <3>3. RunningIsInPidFile'
      BY <2>1, <2>2 DEF RunningIsInPidFile, CommandKnows
    <3> QED BY <2>2, <3>1, <3>2, <3>3
  <2>3. CASE pidFile' \in {pidFile, BadPid} /\ disturbed' = TRUE
    <3>1. ServiceTypeOK' /\ PidsWereStarted'
      BY <1>2, <2>1, <2>3 DEF ServiceTypeOK, PidsWereStarted
    <3>2. RunningIsInPidFile'
      BY <2>3 DEF RunningIsInPidFile
    <3> QED BY <2>3, <3>1, <3>2
  <2> QED BY <2>1, <2>2, <2>3
<1>6. CASE DownRead(s)
  <2>1. /\ command' \in [Shells -> {"idle", "start", "write", "kill", "remove"}]
        /\ typed' \in Nat /\ disturbed' \in BOOLEAN
        /\ command[s] = "idle" /\ command'[s] = "kill"
        /\ \A t \in Shells \ {s} : command'[t] = command[t]
        /\ ~ disturbed' => /\ ~ disturbed
                            /\ \A t \in Shells : command[t] = "idle"
                            /\ Running \subseteq {pidFile}
    BY <1>6, BeginStep DEF DownRead
  <2>2. /\ UNCHANGED <<pidFile, process>> /\ pidFile \in Pids /\ Running' = Running
        /\ pid' = [pid EXCEPT ![s] = pidFile]
    BY <1>6 DEF DownRead, Running
  <2>3. ServiceTypeOK' /\ PidsWereStarted'
    BY <2>1, <2>2 DEF ServiceTypeOK, PidsWereStarted
  <2>4. ~ disturbed' => OneCommand' /\ \A t \in Shells : CommandKnows(t)'
    BY <2>1, <2>2 DEF OneCommand, CommandKnows, ServiceTypeOK
  <2>5. RunningIsInPidFile'
    BY <2>1 DEF RunningIsInPidFile, Busy
  <2> QED BY <2>3, <2>4, <2>5
<1>7. CASE DownKill(s)
  <2>1. /\ UNCHANGED <<pidFile, typed, disturbed>> /\ command[s] = "kill"
        /\ pid[s] \in Pids /\ process[pid[s]] # "none"
    BY <1>7 DEF DownKill, PidsWereStarted
  <2>2. CASE process[pid[s]] = "running"
    <3>1. /\ process' = [process EXCEPT ![pid[s]] = "dead"]
          /\ command' = [command EXCEPT ![s] = "remove"] /\ pid' = pid
      BY <1>7, <2>2 DEF DownKill, Goto
    <3>2. Running' = Running \ {pid[s]}
      BY <3>1, <2>1 DEF Running, ServiceTypeOK
    <3>3. ServiceTypeOK' /\ PidsWereStarted'
      BY <2>1, <3>1 DEF ServiceTypeOK, PidsWereStarted
    <3>4. ~ disturbed => OneCommand' /\ \A t \in Shells : CommandKnows(t)'
      BY <2>1, <3>1, <3>2 DEF ServiceTypeOK, OneCommand, CommandKnows
    <3>5. RunningIsInPidFile'
      BY <3>1 DEF RunningIsInPidFile, Busy, ServiceTypeOK
    <3> QED BY <2>1, <3>3, <3>4, <3>5
  <2>3. CASE process[pid[s]] # "running"
    <3>1. /\ process' = process /\ command' = [command EXCEPT ![s] = "idle"]
          /\ pid' = [pid EXCEPT ![s] = NoPid] /\ Running' = Running
      BY <1>7, <2>3 DEF DownKill, Exit, Goto, Running
    <3>2. ServiceTypeOK' /\ PidsWereStarted'
      BY <2>1, <3>1 DEF ServiceTypeOK, PidsWereStarted
    <3>3. ~ disturbed => OneCommand' /\ \A t \in Shells : CommandKnows(t)'
      BY <2>1, <3>1 DEF ServiceTypeOK, OneCommand, CommandKnows
    <3>4. RunningIsInPidFile'
      BY <2>1, <3>1 DEF RunningIsInPidFile, CommandKnows
    <3> QED BY <2>1, <3>2, <3>3, <3>4
  <2> QED BY <2>2, <2>3
<1>8. CASE DownRemove(s)
  <2>1. /\ UNCHANGED <<process, typed, disturbed>> /\ command[s] = "remove"
        /\ pidFile' = NoPid
        /\ command' = [command EXCEPT ![s] = "idle"]
        /\ pid' = [pid EXCEPT ![s] = NoPid]
        /\ Running' = Running
    BY <1>8 DEF DownRemove, Exit, Goto, Running
  <2>2. ServiceTypeOK' /\ PidsWereStarted'
    BY <1>2, <2>1 DEF ServiceTypeOK, PidsWereStarted
  <2>3. ~ disturbed => OneCommand' /\ \A t \in Shells : CommandKnows(t)'
    BY <2>1 DEF ServiceTypeOK, OneCommand, CommandKnows
  <2>4. RunningIsInPidFile'
    BY <2>1 DEF RunningIsInPidFile, CommandKnows
  <2> QED BY <2>1, <2>2, <2>3, <2>4
<1> QED BY <1>1, <1>3, <1>4, <1>5, <1>6, <1>7, <1>8

(* Of the loggers' steps, those that end a process are all that matters.   *)
LEMMA ServiceInvariant == Spec => []ServiceInv
<1>1. Init => ServiceInv
  BY ServiceInitInv DEF Init
<1>2. ServiceInv /\ [Next]_vars => ServiceInv'
  <2> SUFFICES ASSUME ServiceInv, [Next]_vars PROVE ServiceInv'
    OBVIOUS
  <2>1. CASE ServiceNext
    BY <2>1, ServiceStep
  <2>2. CASE \E p \in Running : Die(p) /\ UNCHANGED shellVars
    BY <2>2, DieStep
  <2>3. CASE UNCHANGED service
    BY <2>3 DEF service, shellVars, ServiceInv, ServiceTypeOK, PidsWereStarted, OneCommand, CommandKnows,
                RunningIsInPidFile, Running, Busy
  <2>4. ASSUME NEW p \in Pids, LoggerInit(p) \/ ReadLine(p) \/ CommitBatch(p)
        PROVE  \/ UNCHANGED service
               \/ p \in Running /\ Die(p) /\ UNCHANGED shellVars
    BY <2>4 DEF LoggerInit, ReadLine, CommitBatch, commit, service
  <2>5. ASSUME \/ \E p \in Pids : FillBuffer(p) \/ Unblock(p) \/ writeIndex(p) \/ dequeue(p)
               \/ ClientLog \/ ClientAsk \/ ClientRead \/ ClientDie
               \/ EmitEvent
               \/ UNCHANGED vars
        PROVE  UNCHANGED service
    BY <2>5 DEF FillBuffer, Unblock, writeIndex, dequeue, ClientLog, ClientAsk, ClientRead,
                ClientDie, EmitEvent, vars
  <2> QED BY <2>1, <2>2, <2>3, <2>4, <2>5 DEF Next
<1> QED BY <1>1, <1>2, PTL DEF Spec

(* As long as commands do not overlap and every pid can be written, the    *)
(* pid file names every process that runs, so that "down" can stop it and  *)
(* "up" starts no second one, whatever processes end by themselves and     *)
(* whichever fail to start.                                                *)
THEOREM PidFileIsTrue == Spec => []RunningIsInPidFile
<1>1. ServiceInv => RunningIsInPidFile
  BY DEF ServiceInv
<1> QED BY <1>1, ServiceInvariant, PTL
---------------------------------------------------------------------------
(* The entries *)

Lines == [kind : {"log", "index"}, entry : Nat]
TableRows == [by : {NoPid} \cup Pids, entry : Nat]

MemoryTypeOK ==
    /\ Queue \in [Pids -> Seq(Nat)] /\ buffer \in [Pids -> Seq(Nat)]
    /\ received \in [Pids -> Seq(Nat)]
    /\ Index \in [Pids -> Nat] /\ line \in [Pids -> Nat]
    /\ main \in [Pids -> {"init", "read", "blocked", "index"}]
    /\ pipe \in Seq(Lines) /\ Len(pipe) <= PipeSize /\ ahead \in [Pids -> Seq(Lines)]
    /\ event_log \in Seq(TableRows)
    /\ client \in {"running", "waiting"} /\ sent \in Nat
    /\ \A p \in Pids : Len(Queue[p]) <= QUEUE_SIZE /\ Len(buffer[p]) <= BUFFER_LEN

Written(p) == Cardinality(RowsOf(p))
Hand(p) == IF main[p] = "blocked" THEN <<line[p]>> ELSE <<>>

(* NothingLostButByDeath, entry by entry: after w entries come a batch, a  *)
(* queue and what is in the hands.                                         *)
Placed(rec, w, batch, queue, hand) ==
    /\ Len(rec) = w + Len(batch) + Len(queue) + Len(hand)
    /\ \A k \in 1 .. Len(batch) : rec[w + k] = batch[k]
    /\ \A k \in 1 .. Len(queue) : rec[w + Len(batch) + k] = queue[k]
    /\ \A k \in 1 .. Len(hand) : rec[w + Len(batch) + Len(queue) + k] = hand[k]

RowsAreEntries(p) ==
    \A i \in RowsOf(p) : /\ Nth(p, i) \in 1 .. Written(p)
                         /\ event_log[i].entry = received[p][Nth(p, i)]

Kept(p) ==
    /\ Written(p) \in Nat
    /\ Placed(received[p], Written(p), buffer[p], Queue[p], Hand(p))
    /\ RowsAreEntries(p)

(* What reading, waiting, dequeueing and writing do to the places. *)
LEMMA PlacedRead ==
    ASSUME NEW rec \in Seq(Nat), NEW w \in Nat, NEW batch \in Seq(Nat), NEW queue \in Seq(Nat),
           NEW e \in Nat, Placed(rec, w, batch, queue, <<>>)
    PROVE  /\ Placed(Append(rec, e), w, batch, Append(queue, e), <<>>)
           /\ Placed(Append(rec, e), w, batch, queue, <<e>>)
           /\ \A k \in 1 .. Len(rec) : Append(rec, e)[k] = rec[k]
<1> DEFINE new == Append(rec, e)
           longer == Append(queue, e)
<1>1. /\ Len(rec) \in Nat /\ Len(batch) \in Nat /\ Len(queue) \in Nat
      /\ Len(new) = Len(rec) + 1 /\ new[Len(rec) + 1] = e
      /\ \A k \in 1 .. Len(rec) : new[k] = rec[k]
      /\ Len(longer) = Len(queue) + 1 /\ longer[Len(queue) + 1] = e
      /\ \A k \in 1 .. Len(queue) : longer[k] = queue[k]
  OBVIOUS
<1>2. /\ Len(rec) = w + Len(batch) + Len(queue)
      /\ \A k \in 1 .. Len(batch) : rec[w + k] = batch[k]
      /\ \A k \in 1 .. Len(queue) : rec[w + Len(batch) + k] = queue[k]
  BY <1>1 DEF Placed
<1> HIDE DEF new, longer
<1>3. ASSUME NEW k \in 1 .. Len(batch) PROVE new[w + k] = batch[k]
  <2>1. w + k \in 1 .. Len(rec)
    BY <1>1, <1>2
  <2> QED BY <2>1, <1>1, <1>2
<1>4. \A k \in 1 .. Len(queue) : new[w + Len(batch) + k] = queue[k]
  BY <1>1, <1>2, SMTT(30)
<1>5. Placed(new, w, batch, longer, <<>>)
  <2>1. Len(new) = w + Len(batch) + Len(longer) + Len(<<>>)
    BY <1>1, <1>2
  <2>2. ASSUME NEW k \in 1 .. Len(longer) PROVE new[w + Len(batch) + k] = longer[k]
    <3>1. CASE k = Len(queue) + 1
      <4>1. w + Len(batch) + k = Len(rec) + 1
        BY <3>1, <1>1, <1>2
      <4> QED BY <3>1, <4>1, <1>1
    <3>2. CASE k \in 1 .. Len(queue)
      BY <3>2, <1>1, <1>4
    <3> QED BY <3>1, <3>2, <1>1
  <2>3. \A k \in 1 .. Len(<<>>) : FALSE
    OBVIOUS
  <2> QED BY <2>1, <2>2, <2>3, <1>3 DEF Placed
<1>6. Placed(new, w, batch, queue, <<e>>)
  BY <1>1, <1>2, <1>3, <1>4 DEF Placed
<1> QED BY <1>1, <1>5, <1>6 DEF new, longer

LEMMA PlacedUnblock ==
    ASSUME NEW rec \in Seq(Nat), NEW w \in Nat, NEW batch \in Seq(Nat), NEW queue \in Seq(Nat),
           NEW e \in Nat, Placed(rec, w, batch, queue, <<e>>)
    PROVE  Placed(rec, w, batch, Append(queue, e), <<>>)
<1> DEFINE longer == Append(queue, e)
<1>1. /\ Len(rec) \in Nat /\ Len(batch) \in Nat /\ Len(queue) \in Nat
      /\ Len(longer) = Len(queue) + 1 /\ longer[Len(queue) + 1] = e
      /\ \A k \in 1 .. Len(queue) : longer[k] = queue[k]
      /\ Len(<<e>>) = 1 /\ <<e>>[1] = e
  OBVIOUS
<1> HIDE DEF longer
<1>2. /\ Len(rec) = w + Len(batch) + Len(queue) + 1
      /\ \A k \in 1 .. Len(batch) : rec[w + k] = batch[k]
      /\ \A k \in 1 .. Len(queue) : rec[w + Len(batch) + k] = queue[k]
      /\ rec[w + Len(batch) + Len(queue) + 1] = e
  BY <1>1 DEF Placed
<1>3. Placed(rec, w, batch, longer, <<>>)
  <2>1. Len(rec) = w + Len(batch) + Len(longer) + Len(<<>>)
    BY <1>1, <1>2
  <2>2. ASSUME NEW k \in 1 .. Len(longer) PROVE rec[w + Len(batch) + k] = longer[k]
    <3>1. CASE k = Len(queue) + 1
      <4>1. w + Len(batch) + k = w + Len(batch) + Len(queue) + 1
        BY <3>1, <1>1
      <4> QED BY <3>1, <4>1, <1>1, <1>2
    <3>2. CASE k \in 1 .. Len(queue)
      BY <3>2, <1>1, <1>2
    <3> QED BY <3>1, <3>2, <1>1
  <2>3. \A k \in 1 .. Len(<<>>) : FALSE
    OBVIOUS
  <2> QED BY <2>1, <2>2, <2>3, <1>2 DEF Placed
<1> QED BY <1>3 DEF longer

LEMMA PlacedDequeue ==
    ASSUME NEW rec \in Seq(Nat), NEW w \in Nat, NEW batch \in Seq(Nat), NEW queue \in Seq(Nat),
           NEW hand \in Seq(Nat), queue # <<>>, Placed(rec, w, batch, queue, hand)
    PROVE  Placed(rec, w, Append(batch, Head(queue)), Tail(queue), hand)
<1> DEFINE longer == Append(batch, Head(queue))
           rest == Tail(queue)
<1>1. /\ Len(rec) \in Nat /\ Len(batch) \in Nat /\ Len(queue) \in Nat /\ Len(hand) \in Nat
      /\ Len(queue) >= 1
      /\ Len(longer) = Len(batch) + 1 /\ longer[Len(batch) + 1] = queue[1]
      /\ \A k \in 1 .. Len(batch) : longer[k] = batch[k]
      /\ Len(rest) = Len(queue) - 1
      /\ \A k \in 1 .. Len(queue) - 1 : rest[k] = queue[k + 1]
  OBVIOUS
<1> HIDE DEF longer, rest
<1>2. /\ Len(rec) = w + Len(batch) + Len(queue) + Len(hand)
      /\ \A k \in 1 .. Len(batch) : rec[w + k] = batch[k]
      /\ \A k \in 1 .. Len(queue) : rec[w + Len(batch) + k] = queue[k]
      /\ \A k \in 1 .. Len(hand) : rec[w + Len(batch) + Len(queue) + k] = hand[k]
  BY DEF Placed
<1>3. Len(rec) = w + Len(longer) + Len(rest) + Len(hand)
  BY <1>1, <1>2
<1>4. ASSUME NEW k \in 1 .. Len(longer) PROVE rec[w + k] = longer[k]
  <2>1. CASE k = Len(batch) + 1
    <3>1. 1 \in 1 .. Len(queue) /\ w + Len(batch) + 1 = w + k
      BY <1>1, <2>1
    <3> QED BY <3>1, <1>1, <1>2, <2>1
  <2>2. CASE k \in 1 .. Len(batch)
    BY <2>2, <1>1, <1>2
  <2> QED BY <2>1, <2>2, <1>1
<1>5. ASSUME NEW k \in 1 .. Len(rest) PROVE rec[w + Len(longer) + k] = rest[k]
  <2>1. k + 1 \in 1 .. Len(queue) /\ w + Len(longer) + k = w + Len(batch) + (k + 1)
    BY <1>1
  <2> QED BY <2>1, <1>1, <1>2
<1>6. ASSUME NEW k \in 1 .. Len(hand)
      PROVE  rec[w + Len(longer) + Len(rest) + k] = hand[k]
  <2>1. w + Len(longer) + Len(rest) + k = w + Len(batch) + Len(queue) + k
    BY <1>1
  <2> QED BY <2>1, <1>2
<1>7. Placed(rec, w, longer, rest, hand)
  BY <1>3, <1>4, <1>5, <1>6 DEF Placed
<1> QED BY <1>7 DEF longer, rest

LEMMA PlacedCommit ==
    ASSUME NEW rec \in Seq(Nat), NEW w \in Nat, NEW batch \in Seq(Nat), NEW queue \in Seq(Nat),
           NEW hand \in Seq(Nat), Placed(rec, w, batch, queue, hand)
    PROVE  Placed(rec, w + Len(batch), <<>>, queue, hand)
<1>1. /\ Len(batch) \in Nat /\ Len(queue) \in Nat /\ Len(hand) \in Nat /\ Len(<<>>) = 0
      /\ w + Len(batch) + Len(<<>>) = w + Len(batch)
      /\ \A k \in 1 .. Len(<<>>) : FALSE
  OBVIOUS
<1>2. /\ Len(rec) = w + Len(batch) + Len(queue) + Len(hand)
      /\ \A k \in 1 .. Len(queue) : rec[w + Len(batch) + k] = queue[k]
      /\ \A k \in 1 .. Len(hand) : rec[w + Len(batch) + Len(queue) + k] = hand[k]
  BY DEF Placed
<1>3. Len(rec) = w + Len(batch) + Len(<<>>) + Len(queue) + Len(hand)
  BY <1>1, <1>2
<1> QED BY <1>1, <1>2, <1>3 DEF Placed

(* Placed entry by entry is one sequence after another. *)
Concatenated(rec, w, batch, queue, hand) ==
    rec = SubSeq(rec, 1, w) \o (batch \o queue \o hand)

LEMMA PlacedIsConcatenation ==
    ASSUME NEW rec \in Seq(Nat), NEW w \in Nat, NEW batch \in Seq(Nat), NEW queue \in Seq(Nat),
           NEW hand \in Seq(Nat), Placed(rec, w, batch, queue, hand)
    PROVE  Concatenated(rec, w, batch, queue, hand)
<1> DEFINE front == SubSeq(rec, 1, w)
           bq == batch \o queue
           back == bq \o hand
           whole == front \o back
<1>1. /\ Len(rec) \in Nat /\ Len(batch) \in Nat /\ Len(queue) \in Nat /\ Len(hand) \in Nat
      /\ Len(rec) = w + Len(batch) + Len(queue) + Len(hand)
      /\ \A k \in 1 .. Len(batch) : rec[w + k] = batch[k]
      /\ \A k \in 1 .. Len(queue) : rec[w + Len(batch) + k] = queue[k]
      /\ \A k \in 1 .. Len(hand) : rec[w + Len(batch) + Len(queue) + k] = hand[k]
  BY DEF Placed
<1>2. w <= Len(rec)
  BY <1>1
<1>3. front \in Seq(Nat) /\ Len(front) = w /\ \A k \in 1 .. w : front[k] = rec[k]
  <2>1. 1 \in 1 .. w + 1 /\ w \in 1 - 1 .. Len(rec)
    BY <1>1, <1>2
  <2> QED BY <2>1, <1>1, <1>2, SubSeqProperties
<1>4. /\ bq \in Seq(Nat) /\ Len(bq) = Len(batch) + Len(queue)
      /\ \A k \in 1 .. Len(batch) : bq[k] = batch[k]
      /\ \A k \in 1 .. Len(queue) : bq[Len(batch) + k] = queue[k]
  OBVIOUS
<1> HIDE DEF front, bq
<1>5. /\ back \in Seq(Nat) /\ Len(back) = Len(bq) + Len(hand)
      /\ \A k \in 1 .. Len(bq) : back[k] = bq[k]
      /\ \A k \in 1 .. Len(hand) : back[Len(bq) + k] = hand[k]
  <2>1. bq \in Seq(Nat)
    BY <1>4
  <2> QED BY <2>1
<1> HIDE DEF back
<1>6. /\ whole \in Seq(Nat) /\ Len(whole) = w + Len(back)
      /\ \A k \in 1 .. w : whole[k] = front[k]
      /\ \A k \in 1 .. Len(back) : whole[w + k] = back[k]
  <2>1. front \in Seq(Nat) /\ back \in Seq(Nat)
    BY <1>3, <1>5
  <2>2. /\ whole \in Seq(Nat) /\ Len(whole) = Len(front) + Len(back)
        /\ \A k \in 1 .. Len(front) : whole[k] = front[k]
        /\ \A k \in 1 .. Len(back) : whole[Len(front) + k] = back[k]
    BY <2>1
  <2> HIDE DEF whole
  <2> QED BY <2>2, <1>3
<1> HIDE DEF whole
<1>7. Len(whole) = Len(rec)
  BY <1>1, <1>4, <1>5, <1>6
<1>8. ASSUME NEW k \in 1 .. Len(rec) PROVE rec[k] = whole[k]
  <2>1. CASE k \in 1 .. w
    BY <2>1, <1>3, <1>6
  <2>2. CASE k - w \in 1 .. Len(batch)
    <3>1. k - w \in 1 .. Len(bq) /\ k - w \in 1 .. Len(back) /\ w + (k - w) = k
      BY <2>2, <1>1, <1>4, <1>5
    <3>2. whole[w + (k - w)] = batch[k - w]
      BY <3>1, <2>2, <1>4, <1>5, <1>6
    <3>3. rec[w + (k - w)] = batch[k - w]
      BY <2>2, <1>1
    <3> QED BY <3>1, <3>2, <3>3
  <2>3. CASE k - w - Len(batch) \in 1 .. Len(queue)
    <3> DEFINE j == k - w - Len(batch)
    <3>1. /\ Len(batch) + j \in 1 .. Len(bq) /\ Len(batch) + j \in 1 .. Len(back)
          /\ w + (Len(batch) + j) = k /\ w + Len(batch) + j = k /\ j \in 1 .. Len(queue)
      BY <2>3, <1>1, <1>4, <1>5
    <3> HIDE DEF j
    <3>2. whole[w + (Len(batch) + j)] = queue[j]
      BY <3>1, <1>4, <1>5, <1>6
    <3>3. rec[w + Len(batch) + j] = queue[j]
      BY <3>1, <1>1
    <3> QED BY <3>1, <3>2, <3>3
  <2>4. CASE k - w - Len(batch) - Len(queue) \in 1 .. Len(hand)
    <3> DEFINE j == k - w - Len(batch) - Len(queue)
    <3>1. /\ Len(bq) + j \in 1 .. Len(back) /\ j \in 1 .. Len(hand)
          /\ w + (Len(bq) + j) = k /\ w + Len(batch) + Len(queue) + j = k
      BY <2>4, <1>1, <1>4, <1>5, SMTT(30)
    <3> HIDE DEF j
    <3>2. whole[w + (Len(bq) + j)] = hand[j]
      BY <3>1, <1>5, <1>6
    <3>3. rec[w + Len(batch) + Len(queue) + j] = hand[j]
      BY <3>1, <1>1
    <3> QED BY <3>1, <3>2, <3>3
  <2>5. \/ k \in 1 .. w \/ k - w \in 1 .. Len(batch)
        \/ k - w - Len(batch) \in 1 .. Len(queue)
        \/ k - w - Len(batch) - Len(queue) \in 1 .. Len(hand)
    BY <1>1
  <2> QED BY <2>1, <2>2, <2>3, <2>4, <2>5
<1>9. rec = whole
  BY <1>6, <1>7, <1>8, SeqEqual
<1> QED BY <1>9 DEF whole, front, back, bq, Concatenated

(* The rows of a logger among those of a table. *)
LEMMA RowsFinite ==
    ASSUME event_log \in Seq(TableRows), NEW p, NEW i
    PROVE  /\ IsFiniteSet(RowsOf(p)) /\ Written(p) \in Nat
           /\ IsFiniteSet({j \in RowsOf(p) : j <= i})
           /\ RowsOf(p) \subseteq 1 .. Len(event_log)
<1>1. DOMAIN event_log = 1 .. Len(event_log) /\ Len(event_log) \in Nat
  OBVIOUS
<1>2. IsFiniteSet(1 .. Len(event_log))
  BY <1>1, FS_Interval
<1>3. RowsOf(p) \subseteq 1 .. Len(event_log)
  BY <1>1 DEF RowsOf
<1>4. {j \in RowsOf(p) : j <= i} \subseteq RowsOf(p)
  OBVIOUS
<1>5. IsFiniteSet(RowsOf(p))
  BY <1>2, <1>3, FS_Subset
<1>6. IsFiniteSet({j \in RowsOf(p) : j <= i})
  BY <1>4, <1>5, FS_Subset
<1> QED BY <1>3, <1>5, <1>6, FS_CardinalityType DEF Written

(* Rows by others leave those of a logger as they are. *)
LEMMA RowsOfOthers ==
    ASSUME event_log \in Seq(TableRows), NEW p, NEW rows \in Seq(TableRows),
           \A k \in 1 .. Len(rows) : rows[k].by # p,
           event_log' = event_log \o rows
    PROVE  /\ RowsOf(p)' = RowsOf(p)
           /\ \A i \in RowsOf(p) : event_log'[i] = event_log[i]
<1>1. /\ Len(event_log) \in Nat /\ Len(rows) \in Nat
      /\ DOMAIN event_log = 1 .. Len(event_log)
      /\ DOMAIN event_log' = 1 .. Len(event_log) + Len(rows)
      /\ \A i \in 1 .. Len(event_log) : event_log'[i] = event_log[i]
      /\ \A k \in 1 .. Len(rows) : event_log'[Len(event_log) + k] = rows[k]
  OBVIOUS
<1>2. ASSUME NEW i \in DOMAIN event_log', event_log'[i].by = p
      PROVE  i \in DOMAIN event_log
  <2>1. CASE i > Len(event_log)
    <3>1. i - Len(event_log) \in 1 .. Len(rows) /\ i = Len(event_log) + (i - Len(event_log))
      BY <2>1, <1>1
    <3> QED BY <3>1, <1>1, <1>2
  <2> QED BY <2>1, <1>1
<1> QED BY <1>1, <1>2 DEF RowsOf

(* A batch adds rows at the end of the logger's own. *)
AddsBatch(p, rows) ==
    /\ event_log' = event_log \o rows
    /\ \A k \in 1 .. Len(rows) : rows[k].by = p

RowsAdded(p, rows) ==
    /\ Written(p)' = Written(p) + Len(rows)
    /\ \A i \in RowsOf(p)' :
          \/ i \in RowsOf(p) /\ Nth(p, i)' = Nth(p, i) /\ event_log'[i] = event_log[i]
          \/ \E k \in 1 .. Len(rows) :
                Nth(p, i)' = Written(p) + k /\ event_log'[i] = rows[k]

LEMMA RowsOfBatch ==
    ASSUME event_log \in Seq(TableRows), NEW p, NEW rows \in Seq(TableRows),
           AddsBatch(p, rows)
    PROVE  RowsAdded(p, rows)
<1> DEFINE l == Len(event_log)
           n == Len(rows)
<1>1. /\ l \in Nat /\ n \in Nat
      /\ DOMAIN event_log = 1 .. l
      /\ DOMAIN event_log' = 1 .. l + n
      /\ \A i \in 1 .. l : event_log'[i] = event_log[i]
      /\ \A k \in 1 .. n : event_log'[l + k] = rows[k]
  BY DEF AddsBatch
<1> HIDE DEF l, n
<1>2. ASSUME NEW i \in 1 .. l + n
      PROVE  i \in 1 .. l \/ (i - l \in 1 .. n /\ i = l + (i - l))
  BY <1>1
<1>3. RowsOf(p)' = RowsOf(p) \cup (l + 1 .. l + n)
  <2>1. \A i \in l + 1 .. l + n : i \in 1 .. l + n /\ i - l \in 1 .. n /\ i = l + (i - l)
    BY <1>1
  <2>2. \A i \in l + 1 .. l + n : event_log'[i].by = p
    BY <1>1, <2>1 DEF n, AddsBatch
  <2>3. \A i \in 1 .. l + n : i \in 1 .. l \/ i \in l + 1 .. l + n
    BY <1>1
  <2>4. 1 .. l \subseteq 1 .. l + n
    BY <1>1
  <2> QED BY <1>1, <2>1, <2>2, <2>3, <2>4 DEF RowsOf
<1>4. IsFiniteSet(RowsOf(p)) /\ RowsOf(p) \subseteq 1 .. l /\ Written(p) \in Nat
  BY RowsFinite DEF l
<1>5. ASSUME NEW k \in 0 .. n
      PROVE  Cardinality(RowsOf(p) \cup (l + 1 .. l + k)) = Written(p) + k
  <2>1. l + 1 \in Int /\ l + k \in Int
    BY <1>1
  <2>2. IsFiniteSet(l + 1 .. l + k)
        /\ Cardinality(l + 1 .. l + k) = IF l + 1 > l + k THEN 0 ELSE (l + k) - (l + 1) + 1
    BY <2>1, FS_Interval
  <2>3. Cardinality(l + 1 .. l + k) = k
    BY <2>2, <1>1
  <2>4. RowsOf(p) \cap (l + 1 .. l + k) = {}
    BY <1>1, <1>4
  <2>5. Cardinality(RowsOf(p) \cap (l + 1 .. l + k)) = 0
    BY <2>4, FS_EmptySet
  <2>6. Cardinality(RowsOf(p) \cup (l + 1 .. l + k))
            = Cardinality(RowsOf(p)) + Cardinality(l + 1 .. l + k)
              - Cardinality(RowsOf(p) \cap (l + 1 .. l + k))
    BY <1>4, <2>2, FS_Union
  <2> QED BY <1>1, <1>4, <2>3, <2>5, <2>6 DEF Written
<1>6. Written(p)' = Written(p) + n
  BY <1>1, <1>3, <1>5 DEF Written
<1>7. ASSUME NEW i \in RowsOf(p)
      PROVE  i \in RowsOf(p)' /\ Nth(p, i)' = Nth(p, i) /\ event_log'[i] = event_log[i]
  <2>1. {j \in RowsOf(p)' : j <= i} = {j \in RowsOf(p) : j <= i}
    BY <1>1, <1>3, <1>4
  <2> QED BY <2>1, <1>1, <1>3, <1>4 DEF Nth
<1>8. ASSUME NEW k \in 1 .. n, NEW i, i = l + k
      PROVE  Nth(p, i)' = Written(p) + k
  <2>1. {j \in RowsOf(p)' : j <= i} = RowsOf(p) \cup (l + 1 .. l + k)
    BY <1>1, <1>3, <1>4, <1>8
  <2>2. k \in 0 .. n
    BY <1>1
  <2> QED BY <2>1, <2>2, <1>5 DEF Nth
<1>9. ASSUME NEW i \in RowsOf(p)', i \notin RowsOf(p)
      PROVE  \E k \in 1 .. n : Nth(p, i)' = Written(p) + k /\ event_log'[i] = rows[k]
  <2>1. i - l \in 1 .. n /\ i = l + (i - l)
    BY <1>1, <1>3, <1>9
  <2> QED BY <2>1, <1>1, <1>8
<1> QED BY <1>6, <1>7, <1>9 DEF n, RowsAdded

(* A logger that writes nothing, while others add rows of their own. *)
LEMMA KeptUnwritten ==
    ASSUME NEW p \in Pids, Kept(p),
           RowsOf(p)' = RowsOf(p),
           \A i \in RowsOf(p) : event_log'[i] = event_log[i],
           \A k \in 1 .. Len(received[p]) : received'[p][k] = received[p][k],
           Len(received[p]) >= Written(p),
           NEW hand, hand = Hand(p)',
           Placed(received'[p], Written(p), buffer'[p], Queue'[p], hand)
    PROVE  Kept(p)'
<1>1. Written(p)' = Written(p) /\ \A i : Nth(p, i)' = Nth(p, i)
  BY DEF Written, Nth
<1>2. RowsAreEntries(p)'
  <2>1. ASSUME NEW i \in RowsOf(p)
        PROVE  /\ Nth(p, i) \in 1 .. Written(p)
               /\ event_log'[i].entry = received'[p][Nth(p, i)]
    <3>1. Nth(p, i) \in 1 .. Written(p) /\ event_log[i].entry = received[p][Nth(p, i)]
          /\ Written(p) \in Nat
      BY <2>1 DEF Kept, RowsAreEntries
    <3>2. Nth(p, i) \in 1 .. Len(received[p])
      BY <3>1 DEF Kept, Placed
    <3> QED BY <3>1, <3>2
  <2> QED BY <1>1, <2>1 DEF RowsAreEntries
<1> QED BY <1>1, <1>2 DEF Kept

(* A logger that does nothing. *)
LEMMA KeptByOthers ==
    ASSUME NEW p \in Pids, Kept(p),
           RowsOf(p)' = RowsOf(p),
           \A i \in RowsOf(p) : event_log'[i] = event_log[i],
           received'[p] = received[p], buffer'[p] = buffer[p], Queue'[p] = Queue[p],
           main'[p] = "blocked" <=> main[p] = "blocked", line'[p] = line[p]
    PROVE  Kept(p)'
<1>1. Written(p)' = Written(p) /\ \A i : Nth(p, i)' = Nth(p, i)
  BY DEF Written, Nth
<1>2. Hand(p)' = Hand(p)
  BY DEF Hand
<1>3. RowsAreEntries(p)'
  BY <1>1 DEF Kept, RowsAreEntries
<1> QED BY <1>1, <1>2, <1>3 DEF Kept

LoggersInv == MemoryTypeOK /\ \A p \in Pids : Kept(p)

LEMMA HandType ==
    ASSUME LoggersInv, NEW p \in Pids
    PROVE  /\ received[p] \in Seq(Nat) /\ buffer[p] \in Seq(Nat) /\ Queue[p] \in Seq(Nat)
           /\ Hand(p) \in Seq(Nat) /\ Written(p) \in Nat
           /\ Len(received[p]) >= Written(p)
           /\ Placed(received[p], Written(p), buffer[p], Queue[p], Hand(p))
<1>1. /\ received[p] \in Seq(Nat) /\ buffer[p] \in Seq(Nat) /\ Queue[p] \in Seq(Nat)
      /\ line[p] \in Nat
  BY DEF LoggersInv, MemoryTypeOK
<1>2. Hand(p) \in Seq(Nat)
  BY <1>1 DEF Hand
<1>3. Written(p) \in Nat /\ Placed(received[p], Written(p), buffer[p], Queue[p], Hand(p))
  BY DEF LoggersInv, Kept
<1>4. Len(buffer[p]) \in Nat /\ Len(Queue[p]) \in Nat /\ Len(Hand(p)) \in Nat
  BY <1>1, <1>2
<1> QED BY <1>1, <1>2, <1>3, <1>4 DEF Placed

(* A block of lines. *)
LEMMA BlockOf ==
    ASSUME pipe \in Seq(Lines), NEW n \in 1 .. Len(pipe)
    PROVE  LET block == SubSeq(pipe, 1, n)
               rest == SubSeq(pipe, n + 1, Len(pipe))
           IN  /\ block \in Seq(Lines) /\ Len(block) = n
               /\ \A i \in 1 .. n : block[i] = pipe[i]
               /\ rest \in Seq(Lines) /\ Len(rest) = Len(pipe) - n
               /\ \A i \in 1 .. Len(pipe) - n : rest[i] = pipe[n + i]
<1>1. Len(pipe) \in Nat /\ 1 \in 1 .. Len(pipe) /\ n \in 1 - 1 .. Len(pipe)
  OBVIOUS
<1>2. /\ SubSeq(pipe, 1, n) \in Seq(Lines) /\ Len(SubSeq(pipe, 1, n)) = n
      /\ \A i \in 1 .. n : SubSeq(pipe, 1, n)[i] = pipe[i]
  BY <1>1
<1>3. /\ SubSeq(pipe, n + 1, Len(pipe)) \in Seq(Lines)
      /\ Len(SubSeq(pipe, n + 1, Len(pipe))) = Len(pipe) - n
      /\ \A i \in 1 .. Len(pipe) - n : SubSeq(pipe, n + 1, Len(pipe))[i] = pipe[n + i]
  BY <1>1
<1> QED BY <1>2, <1>3

LEMMA FillBufferStep ==
    ASSUME LoggersInv, NEW p \in Pids, FillBuffer(p)
    PROVE  LoggersInv'
<1>1. PICK n \in 1 .. Len(pipe) :
          /\ ahead' = [ahead EXCEPT ![p] = SubSeq(pipe, 1, n)]
          /\ pipe' = SubSeq(pipe, n + 1, Len(pipe))
  BY DEF FillBuffer
<1>2. UNCHANGED <<Queue, buffer, Index, main, line, received, event_log, client, sent>>
  BY DEF FillBuffer, clientVars
<1>3. pipe \in Seq(Lines) /\ Len(pipe) <= PipeSize /\ Len(pipe) \in Nat
  BY DEF LoggersInv, MemoryTypeOK
<1>4. /\ SubSeq(pipe, 1, n) \in Seq(Lines)
      /\ SubSeq(pipe, n + 1, Len(pipe)) \in Seq(Lines)
      /\ Len(SubSeq(pipe, n + 1, Len(pipe))) = Len(pipe) - n
  BY <1>3, BlockOf
<1>5. pipe' \in Seq(Lines) /\ Len(pipe') <= PipeSize
  BY <1>1, <1>3, <1>4, LoggerAssumption
<1>6. ahead' \in [Pids -> Seq(Lines)]
  BY <1>1, <1>4 DEF LoggersInv, MemoryTypeOK
<1>7. MemoryTypeOK'
  BY <1>2, <1>5, <1>6 DEF LoggersInv, MemoryTypeOK
<1>8. \A q \in Pids : RowsOf(q)' = RowsOf(q)
  BY <1>2 DEF RowsOf
<1>9. \A q \in Pids : Kept(q)'
  BY <1>2, <1>8, KeptByOthers DEF LoggersInv
<1> QED BY <1>7, <1>9 DEF LoggersInv

(* Taking the next line: into the queue, or into the hands. *)
LEMMA ReadLineStep ==
    ASSUME LoggersInv, NEW p \in Pids, ReadLine(p)
    PROVE  LoggersInv'
<1> DEFINE e == Head(ahead[p]).entry
<1>1. /\ main[p] = "read" /\ ahead[p] # <<>>
      /\ UNCHANGED <<buffer, pipe, event_log, client, sent>>
      /\ UNCHANGED ahead \/ ahead' = [ahead EXCEPT ![p] = Tail(@)]
  BY DEF ReadLine, clientVars
<1>2. /\ ahead[p] \in Seq(Lines) /\ ahead \in [Pids -> Seq(Lines)]
      /\ pipe \in Seq(Lines) /\ Len(pipe) <= PipeSize
  BY DEF LoggersInv, MemoryTypeOK
<1>3. /\ e \in Nat /\ ahead' \in [Pids -> Seq(Lines)]
      /\ pipe' \in Seq(Lines) /\ Len(pipe') <= PipeSize
  <2>1. Head(ahead[p]) \in Lines /\ Tail(ahead[p]) \in Seq(Lines)
    BY <1>1, <1>2
  <2> QED BY <1>1, <1>2, <2>1 DEF Lines
<1> HIDE DEF e
<1>4. \A q \in Pids : RowsOf(q)' = RowsOf(q)
  BY <1>1 DEF RowsOf
<1>5. CASE /\ main' = [main EXCEPT ![p] = "index"] \/ UNCHANGED main
           /\ UNCHANGED <<Queue, Index, line, received>>
  <2>1. MemoryTypeOK'
    BY <1>1, <1>3, <1>5 DEF LoggersInv, MemoryTypeOK
  <2>2. \A q \in Pids : main'[q] = "blocked" <=> main[q] = "blocked"
    BY <1>1, <1>5 DEF LoggersInv, MemoryTypeOK
  <2>3. \A q \in Pids : Kept(q)'
    BY <2>2, <1>1, <1>4, <1>5, KeptByOthers DEF LoggersInv
  <2> QED BY <2>1, <2>3 DEF LoggersInv
<1>6. /\ received[p] \in Seq(Nat) /\ buffer[p] \in Seq(Nat) /\ Queue[p] \in Seq(Nat)
      /\ Written(p) \in Nat /\ Len(received[p]) >= Written(p)
      /\ Hand(p) = <<>>
      /\ Placed(received[p], Written(p), buffer[p], Queue[p], <<>>)
  <2>1. Hand(p) = <<>>
    BY <1>1 DEF Hand
  <2> QED BY <2>1, HandType
<1>7. /\ Placed(Append(received[p], e), Written(p), buffer[p], Append(Queue[p], e), <<>>)
      /\ Placed(Append(received[p], e), Written(p), buffer[p], Queue[p], <<e>>)
      /\ \A k \in 1 .. Len(received[p]) : Append(received[p], e)[k] = received[p][k]
  BY <1>3, <1>6, PlacedRead
<1>8. CASE /\ HasRoom(p)
           /\ enqueue(p, e)
           /\ received' = [received EXCEPT ![p] = Append(@, e)]
           /\ UNCHANGED <<main, line>>
  <2>1. /\ Queue' = [Queue EXCEPT ![p] = Append(@, e)]
        /\ Index' = [Index EXCEPT ![p] = @ + 1]
        /\ Len(Queue[p]) < QUEUE_SIZE
    BY <1>8 DEF enqueue, HasRoom
  <2>2. Queue'[p] = Append(Queue[p], e) /\ received'[p] = Append(received[p], e)
        /\ \A q \in Pids \ {p} : Queue'[q] = Queue[q] /\ received'[q] = received[q]
    BY <1>8, <2>1 DEF LoggersInv, MemoryTypeOK
  <2>3. Len(Queue'[p]) <= QUEUE_SIZE
    BY <1>3, <1>6, <2>1, <2>2, LoggerAssumption
  <2>4. MemoryTypeOK'
    BY <1>1, <1>3, <1>8, <2>1, <2>2, <2>3 DEF LoggersInv, MemoryTypeOK
  <2>5. Hand(p)' = <<>>
    BY <1>1, <1>8 DEF Hand
  <2>6. Kept(p)'
    BY <1>1, <1>4, <1>6, <1>7, <2>2, <2>5, KeptUnwritten DEF LoggersInv
  <2>7. \A q \in Pids \ {p} : Kept(q)'
    BY <1>1, <1>4, <1>8, <2>2, KeptByOthers DEF LoggersInv
  <2> QED BY <2>4, <2>6, <2>7 DEF LoggersInv
<1>9. CASE /\ main' = [main EXCEPT ![p] = "blocked"]
           /\ line' = [line EXCEPT ![p] = e]
           /\ received' = [received EXCEPT ![p] = Append(@, e)]
           /\ UNCHANGED <<Queue, Index>>
  <2>1. received'[p] = Append(received[p], e) /\ line'[p] = e /\ main'[p] = "blocked"
        /\ \A q \in Pids \ {p} : received'[q] = received[q] /\ line'[q] = line[q]
                                 /\ main'[q] = main[q]
    BY <1>9 DEF LoggersInv, MemoryTypeOK
  <2>2. MemoryTypeOK'
    BY <1>1, <1>3, <1>9 DEF LoggersInv, MemoryTypeOK
  <2>3. Hand(p)' = <<e>>
    BY <2>1 DEF Hand
  <2>4. Kept(p)'
    BY <1>1, <1>4, <1>6, <1>7, <1>9, <2>1, <2>3, KeptUnwritten DEF LoggersInv
  <2>5. \A q \in Pids \ {p} : Kept(q)'
    BY <1>1, <1>4, <1>9, <2>1, KeptByOthers DEF LoggersInv
  <2> QED BY <2>2, <2>4, <2>5 DEF LoggersInv
<1> QED BY <1>5, <1>8, <1>9 DEF ReadLine, Receive, e

LEMMA UnblockStep ==
    ASSUME LoggersInv, NEW p \in Pids, Unblock(p)
    PROVE  LoggersInv'
<1>1. /\ main[p] = "blocked" /\ Len(Queue[p]) < QUEUE_SIZE
      /\ Queue' = [Queue EXCEPT ![p] = Append(@, line[p])]
      /\ Index' = [Index EXCEPT ![p] = @ + 1]
      /\ main' = [main EXCEPT ![p] = "read"]
      /\ UNCHANGED <<buffer, line, received, ahead, pipe, event_log, client, sent>>
  BY DEF Unblock, enqueue, HasRoom, clientVars
<1>2. line[p] \in Nat
  BY DEF LoggersInv, MemoryTypeOK
<1>3. /\ received[p] \in Seq(Nat) /\ buffer[p] \in Seq(Nat) /\ Queue[p] \in Seq(Nat)
      /\ Written(p) \in Nat /\ Len(received[p]) >= Written(p)
      /\ Placed(received[p], Written(p), buffer[p], Queue[p], <<line[p]>>)
  <2>1. Hand(p) = <<line[p]>>
    BY <1>1 DEF Hand
  <2> QED BY <2>1, HandType
<1>4. Placed(received[p], Written(p), buffer[p], Append(Queue[p], line[p]), <<>>)
  BY <1>2, <1>3, PlacedUnblock
<1>5. /\ Queue'[p] = Append(Queue[p], line[p]) /\ main'[p] = "read"
      /\ \A q \in Pids \ {p} : Queue'[q] = Queue[q] /\ main'[q] = main[q]
  BY <1>1 DEF LoggersInv, MemoryTypeOK
<1>6. Len(Queue'[p]) <= QUEUE_SIZE
  BY <1>1, <1>2, <1>3, <1>5, LoggerAssumption
<1>7. MemoryTypeOK'
  BY <1>1, <1>2, <1>5, <1>6 DEF LoggersInv, MemoryTypeOK
<1>8. \A q \in Pids : RowsOf(q)' = RowsOf(q)
  BY <1>1 DEF RowsOf
<1>9. Hand(p)' = <<>>
  BY <1>5 DEF Hand
<1>10. Kept(p)'
  BY <1>1, <1>3, <1>4, <1>5, <1>8, <1>9, KeptUnwritten DEF LoggersInv
<1>11. \A q \in Pids \ {p} : Kept(q)'
  BY <1>1, <1>5, <1>8, KeptByOthers DEF LoggersInv
<1> QED BY <1>7, <1>10, <1>11 DEF LoggersInv

LEMMA DequeueStep ==
    ASSUME LoggersInv, NEW p \in Pids, dequeue(p)
    PROVE  LoggersInv'
<1>1. /\ Len(buffer[p]) < BUFFER_LEN /\ Queue[p] # <<>>
      /\ buffer' = [buffer EXCEPT ![p] = Append(@, Head(Queue[p]))]
      /\ Queue' = [Queue EXCEPT ![p] = Tail(@)]
      /\ UNCHANGED <<Index, main, line, received, ahead, pipe, event_log, client, sent>>
  BY DEF dequeue, clientVars
<1>2. /\ received[p] \in Seq(Nat) /\ buffer[p] \in Seq(Nat) /\ Queue[p] \in Seq(Nat)
      /\ Written(p) \in Nat /\ Len(received[p]) >= Written(p) /\ Hand(p) \in Seq(Nat)
      /\ Placed(received[p], Written(p), buffer[p], Queue[p], Hand(p))
  BY HandType
<1>3. Placed(received[p], Written(p), Append(buffer[p], Head(Queue[p])), Tail(Queue[p]), Hand(p))
  BY <1>1, <1>2, PlacedDequeue
<1>4. /\ buffer'[p] = Append(buffer[p], Head(Queue[p])) /\ Queue'[p] = Tail(Queue[p])
      /\ \A q \in Pids \ {p} : Queue'[q] = Queue[q] /\ buffer'[q] = buffer[q]
  BY <1>1 DEF LoggersInv, MemoryTypeOK
<1>5. /\ Len(buffer'[p]) <= BUFFER_LEN /\ Len(Queue'[p]) <= Len(Queue[p])
      /\ buffer'[p] \in Seq(Nat) /\ Queue'[p] \in Seq(Nat)
      /\ Len(Queue[p]) \in Nat /\ Len(Queue'[p]) \in Nat
  BY <1>1, <1>2, <1>4, LoggerAssumption, SMTT(30)
<1>6. Len(Queue'[p]) <= QUEUE_SIZE
  BY <1>5, LoggerAssumption DEF LoggersInv, MemoryTypeOK
<1>7. MemoryTypeOK'
  BY <1>1, <1>4, <1>5, <1>6 DEF LoggersInv, MemoryTypeOK
<1>8. \A q \in Pids : RowsOf(q)' = RowsOf(q)
  BY <1>1 DEF RowsOf
<1>9. Hand(p)' = Hand(p)
  BY <1>1 DEF Hand
<1>10. Kept(p)'
  BY <1>1, <1>2, <1>3, <1>4, <1>8, <1>9, KeptUnwritten DEF LoggersInv
<1>11. \A q \in Pids \ {p} : Kept(q)'
  BY <1>1, <1>4, <1>8, KeptByOthers DEF LoggersInv
<1> QED BY <1>7, <1>10, <1>11 DEF LoggersInv

(* A batch becomes rows of its logger, and of no other. *)
LEMMA CommitStep ==
    ASSUME LoggersInv, NEW p \in Pids, CommitBatch(p)
    PROVE  LoggersInv'
<1>1. UNCHANGED <<Queue, Index, main, line, received, ahead, pipe, client, sent>>
  BY DEF CommitBatch, clientVars
<1>2. CASE UNCHANGED <<event_log, buffer>>
  <2>1. MemoryTypeOK'
    BY <1>1, <1>2 DEF LoggersInv, MemoryTypeOK
  <2>2. \A q \in Pids : RowsOf(q)' = RowsOf(q)
    BY <1>2 DEF RowsOf
  <2>3. \A q \in Pids : Kept(q)'
    BY <1>1, <1>2, <2>2, KeptByOthers DEF LoggersInv
  <2> QED BY <2>1, <2>3 DEF LoggersInv
<1>3. CASE /\ event_log' = event_log \o [i \in 1 .. Len(buffer[p]) |->
                                             [by |-> p, entry |-> buffer[p][i]]]
           /\ buffer' = [buffer EXCEPT ![p] = <<>>]
  <2>0. PICK rows : rows = [i \in 1 .. Len(buffer[p]) |-> [by |-> p, entry |-> buffer[p][i]]]
    OBVIOUS
  <2>1. /\ received[p] \in Seq(Nat) /\ buffer[p] \in Seq(Nat) /\ Queue[p] \in Seq(Nat)
        /\ Written(p) \in Nat /\ Len(received[p]) >= Written(p) /\ Hand(p) \in Seq(Nat)
        /\ Placed(received[p], Written(p), buffer[p], Queue[p], Hand(p))
    BY HandType
  <2>2. /\ Len(buffer[p]) \in Nat
        /\ \A i \in 1 .. Len(buffer[p]) : [by |-> p, entry |-> buffer[p][i]] \in TableRows
    BY <2>1 DEF TableRows
  <2>3. /\ rows \in Seq(TableRows) /\ Len(rows) = Len(buffer[p])
        /\ \A k \in 1 .. Len(rows) : rows[k].by = p /\ rows[k].entry = buffer[p][k]
    BY <2>0, <2>2
  <2>4. event_log' = event_log \o rows /\ event_log \in Seq(TableRows)
    BY <1>3, <2>0 DEF LoggersInv, MemoryTypeOK
  <2>5. event_log' \in Seq(TableRows)
    BY <2>3, <2>4
  <2>6. buffer'[p] = <<>> /\ buffer' \in [Pids -> Seq(Nat)]
        /\ \A q \in Pids \ {p} : buffer'[q] = buffer[q]
    BY <1>3 DEF LoggersInv, MemoryTypeOK
  <2>7. Len(buffer'[p]) <= BUFFER_LEN
    BY <2>6, LoggerAssumption
  <2>8. MemoryTypeOK'
    BY <1>1, <2>5, <2>6, <2>7 DEF LoggersInv, MemoryTypeOK
  <2>9. ASSUME NEW q \in Pids \ {p} PROVE Kept(q)'
    <3>1. \A k \in 1 .. Len(rows) : rows[k].by # q
      BY <2>3
    <3>2. RowsOf(q)' = RowsOf(q) /\ \A i \in RowsOf(q) : event_log'[i] = event_log[i]
      BY <3>1, <2>3, <2>4, RowsOfOthers
    <3> QED BY <1>1, <2>6, <3>2, KeptByOthers DEF LoggersInv
  <2>10. /\ Written(p)' = Written(p) + Len(rows)
         /\ \A i \in RowsOf(p)' :
               \/ i \in RowsOf(p) /\ Nth(p, i)' = Nth(p, i) /\ event_log'[i] = event_log[i]
               \/ \E k \in 1 .. Len(rows) :
                     Nth(p, i)' = Written(p) + k /\ event_log'[i] = rows[k]
    <3>1. \A k \in 1 .. Len(rows) : rows[k].by = p
      BY <2>3
    <3>2. rows \in Seq(TableRows)
      BY <2>3
    <3>3. AddsBatch(p, rows)
      BY <3>1, <2>4 DEF AddsBatch
    <3>4. RowsAdded(p, rows)
      BY <3>2, <3>3, <2>4, RowsOfBatch
    <3> QED BY <3>4 DEF RowsAdded
  <2>11. Hand(p)' = Hand(p)
    BY <1>1 DEF Hand
  <2>12. Placed(received[p], Written(p) + Len(buffer[p]), <<>>, Queue[p], Hand(p))
    BY <2>1, PlacedCommit
  <2>13. RowsAreEntries(p)'
    <3>1. ASSUME NEW i \in RowsOf(p)'
          PROVE  /\ Nth(p, i)' \in 1 .. Written(p)'
                 /\ event_log'[i].entry = received[p][Nth(p, i)']
      <4>1. CASE i \in RowsOf(p) /\ Nth(p, i)' = Nth(p, i) /\ event_log'[i] = event_log[i]
        <5>1. Nth(p, i) \in 1 .. Written(p) /\ event_log[i].entry = received[p][Nth(p, i)]
          BY <4>1 DEF LoggersInv, Kept, RowsAreEntries
        <5> QED BY <4>1, <5>1, <2>1, <2>2, <2>3, <2>10
      <4>2. CASE \E k \in 1 .. Len(rows) : Nth(p, i)' = Written(p) + k /\ event_log'[i] = rows[k]
        <5>1. PICK k \in 1 .. Len(rows) : Nth(p, i)' = Written(p) + k /\ event_log'[i] = rows[k]
          BY <4>2
        <5>2. received[p][Written(p) + k] = buffer[p][k]
          BY <5>1, <2>1, <2>3 DEF Placed
        <5> QED BY <5>1, <5>2, <2>1, <2>2, <2>3, <2>10, SMTT(30)
      <4> QED BY <4>1, <4>2, <2>10
    <3> QED BY <3>1, <1>1 DEF RowsAreEntries
  <2>14. Kept(p)'
    <3>1. Written(p)' \in Nat /\ Written(p)' = Written(p) + Len(buffer[p])
      BY <2>1, <2>2, <2>3, <2>10
    <3> QED BY <3>1, <1>1, <2>6, <2>11, <2>12, <2>13 DEF Kept
  <2> QED BY <2>8, <2>9, <2>14 DEF LoggersInv
<1> QED BY <1>2, <1>3 DEF CommitBatch, commit

(* The steps that leave every logger's entries where they are. *)
LEMMA QuietStep ==
    ASSUME LoggersInv, MemoryTypeOK', UNCHANGED <<Queue, buffer, line, received>>,
           UNCHANGED event_log \/ event_log' = Append(event_log, Other),
           \A q \in Pids : main'[q] = "blocked" <=> main[q] = "blocked"
    PROVE  LoggersInv'
<1>1. ASSUME NEW q \in Pids
      PROVE  RowsOf(q)' = RowsOf(q) /\ \A i \in RowsOf(q) : event_log'[i] = event_log[i]
  <2>1. CASE UNCHANGED event_log
    BY <2>1 DEF RowsOf
  <2>2. CASE event_log' = Append(event_log, Other)
    <3> DEFINE rows == <<Other>>
    <3>1. Other \in TableRows /\ Other.by # q
      BY DEF Other, TableRows, NoPid, Pids
    <3>2. event_log \in Seq(TableRows)
      BY DEF LoggersInv, MemoryTypeOK
    <3>3. rows \in Seq(TableRows) /\ \A k \in 1 .. Len(rows) : rows[k].by # q
      BY <3>1
    <3>4. event_log' = event_log \o rows
      BY <2>2, <3>1, <3>2
    <3> HIDE DEF rows
    <3> QED BY <3>2, <3>3, <3>4, RowsOfOthers
  <2> QED BY <2>1, <2>2
<1>2. \A q \in Pids : Kept(q)'
  BY <1>1, KeptByOthers DEF LoggersInv
<1> QED BY <1>2 DEF LoggersInv

LEMMA LoggersInitInv == Init => LoggersInv
<1> SUFFICES ASSUME Init PROVE LoggersInv
  OBVIOUS
<1>1. /\ Queue = [p \in Pids |-> <<>>] /\ buffer = [p \in Pids |-> <<>>]
      /\ Index = [p \in Pids |-> 0] /\ received = [p \in Pids |-> <<>>]
      /\ main = [p \in Pids |-> "init"] /\ line = [p \in Pids |-> 0]
      /\ pipe = <<>> /\ ahead = [p \in Pids |-> <<>>] /\ client = "running" /\ sent = 0
      /\ Rows \in Nat /\ event_log = [i \in 1 .. Rows |-> Other]
  BY LoggerAssumption DEF Init
<1>2. Other \in TableRows /\ \A p \in Pids : Other.by # p
  BY DEF Other, TableRows, NoPid, Pids
<1>3. event_log \in Seq(TableRows)
  BY <1>1, <1>2
<1>4. MemoryTypeOK
  BY <1>1, <1>3, LoggerAssumption DEF MemoryTypeOK
<1>5. ASSUME NEW p \in Pids PROVE Kept(p)
  <2>1. RowsOf(p) = {}
    BY <1>1, <1>2 DEF RowsOf
  <2>2. Written(p) = 0
    BY <2>1, FS_EmptySet DEF Written
  <2>3. received[p] = <<>> /\ buffer[p] = <<>> /\ Queue[p] = <<>> /\ Hand(p) = <<>>
    BY <1>1 DEF Hand
  <2>4. Placed(<<>>, 0, <<>>, <<>>, <<>>)
    BY DEF Placed
  <2> QED BY <2>1, <2>2, <2>3, <2>4 DEF Kept, RowsAreEntries
<1> QED BY <1>4, <1>5 DEF LoggersInv

LEMMA LoggersStep == LoggersInv /\ [Next]_vars => LoggersInv'
<1> SUFFICES ASSUME LoggersInv, [Next]_vars PROVE LoggersInv'
  OBVIOUS
<1> USE DEF LoggersInv
<1>1. ASSUME NEW p \in Pids, LoggerInit(p) PROVE LoggersInv'
  <2>1. Len(event_log) \in Nat
    BY DEF MemoryTypeOK
  <2>2. /\ UNCHANGED <<Queue, buffer, line, received, ahead, pipe, event_log, client, sent>>
        /\ main[p] = "init"
        /\ \/ UNCHANGED <<Index, main>>
           \/ Index' = [Index EXCEPT ![p] = Len(event_log)] /\ main' = [main EXCEPT ![p] = "read"]
    BY <1>1 DEF LoggerInit, clientVars, getHighestIndex
  <2>3. MemoryTypeOK'
    BY <2>1, <2>2 DEF MemoryTypeOK
  <2>4. \A q \in Pids : main'[q] = "blocked" <=> main[q] = "blocked"
    BY <2>2 DEF MemoryTypeOK
  <2> QED BY <2>2, <2>3, <2>4, QuietStep
<1>2. ASSUME NEW p \in Pids, writeIndex(p) PROVE LoggersInv'
  <2>1. /\ UNCHANGED <<Queue, buffer, Index, line, received, ahead, pipe, event_log, client, sent>>
        /\ main[p] = "index" /\ main' = [main EXCEPT ![p] = "read"]
    BY <1>2 DEF writeIndex, clientVars
  <2>2. MemoryTypeOK'
    BY <2>1 DEF MemoryTypeOK
  <2>3. \A q \in Pids : main'[q] = "blocked" <=> main[q] = "blocked"
    BY <2>1 DEF MemoryTypeOK
  <2> QED BY <2>1, <2>2, <2>3, QuietStep
<1>3. ASSUME ClientLog \/ ClientAsk PROVE LoggersInv'
  <2>1. UNCHANGED <<memory, event_log>>
    BY <1>3 DEF ClientLog, ClientAsk
  <2>2. PICK l \in Lines : pipe' = Append(pipe, l) /\ Len(pipe) < PipeSize
    BY <1>3 DEF ClientLog, ClientAsk, Log, IndexLine, Lines, MemoryTypeOK
  <2>3. pipe' \in Seq(Lines) /\ Len(pipe') <= PipeSize
    BY <2>2, LoggerAssumption DEF MemoryTypeOK
  <2>4. client' \in {"running", "waiting"} /\ sent' \in Nat
    BY <1>3 DEF ClientLog, ClientAsk, MemoryTypeOK
  <2>5. MemoryTypeOK'
    BY <2>1, <2>3, <2>4 DEF MemoryTypeOK, memory
  <2> QED BY <2>1, <2>5, QuietStep DEF memory
<1>4. ASSUME ClientRead \/ ClientDie PROVE LoggersInv'
  <2>1. UNCHANGED <<memory, event_log, pipe, sent>> /\ client' = "running"
    BY <1>4 DEF ClientRead, ClientDie
  <2>2. MemoryTypeOK'
    BY <2>1 DEF MemoryTypeOK, memory
  <2> QED BY <2>1, <2>2, QuietStep DEF memory
<1>5. ASSUME EmitEvent PROVE LoggersInv'
  <2>1. UNCHANGED <<memory, pipe, sent, client>> /\ event_log' = Append(event_log, Other)
    BY <1>5 DEF EmitEvent
  <2>2. Other \in TableRows
    BY DEF Other, TableRows
  <2>3. event_log' \in Seq(TableRows)
    BY <2>1, <2>2 DEF MemoryTypeOK
  <2>4. MemoryTypeOK'
    BY <2>1, <2>3 DEF MemoryTypeOK, memory
  <2> QED BY <2>1, <2>4, QuietStep DEF memory
<1>6. ASSUME UNCHANGED <<memory, pipe, event_log, reply, clientVars>> PROVE LoggersInv'
  <2>1. MemoryTypeOK'
    BY <1>6 DEF MemoryTypeOK, memory, clientVars
  <2> QED BY <1>6, <2>1, QuietStep DEF memory
<1> QED BY <1>1, <1>2, <1>3, <1>4, <1>5, <1>6, FillBufferStep, ReadLineStep, UnblockStep, DequeueStep,
           CommitStep DEF Next, vars

LEMMA LoggersInvariant == Spec => []LoggersInv
<1> QED BY LoggersInitInv, LoggersStep, PTL DEF Spec

(* With any number of loggers on one pipe, queues and batches of any size, *)
(* and whatever processes end: the queue and the batch keep within their   *)
(* sizes, and what a logger has read is in the table, in its batch, in its *)
(* queue or in its hands, once and in the order in which it was read.      *)
THEOREM EntriesAreKept == Spec => []LoggerInv
<1>1. ServiceInv /\ LoggersInv => TypeOK
  BY DEF ServiceInv, ServiceTypeOK, PidsWereStarted, LoggersInv, MemoryTypeOK, TypeOK
<1>2. LoggersInv => NothingLostButByDeath
  <2> SUFFICES ASSUME LoggersInv, NEW p \in Pids
               PROVE  /\ received[p] = SubSeq(received[p], 1, Written(p)) \o Unwritten(p)
                      /\ \A i \in RowsOf(p) : event_log[i].entry = received[p][Nth(p, i)]
    BY DEF NothingLostButByDeath, Written
  <2>1. received[p] = SubSeq(received[p], 1, Written(p)) \o (buffer[p] \o Queue[p] \o Hand(p))
    <3>1. /\ received[p] \in Seq(Nat) /\ buffer[p] \in Seq(Nat) /\ Queue[p] \in Seq(Nat)
          /\ Written(p) \in Nat /\ Hand(p) \in Seq(Nat)
          /\ Placed(received[p], Written(p), buffer[p], Queue[p], Hand(p))
      BY HandType
    <3>2. Concatenated(received[p], Written(p), buffer[p], Queue[p], Hand(p))
      BY <3>1, PlacedIsConcatenation
    <3> QED BY <3>2 DEF Concatenated
  <2>2. Unwritten(p) = buffer[p] \o Queue[p] \o Hand(p)
    BY DEF Unwritten, Hand
  <2>3. \A i \in RowsOf(p) : event_log[i].entry = received[p][Nth(p, i)]
    BY DEF LoggersInv, Kept, RowsAreEntries
  <2> QED BY <2>1, <2>2, <2>3
<1> QED BY <1>1, <1>2, ServiceInvariant, LoggersInvariant, PTL DEF LoggerInv
---------------------------------------------------------------------------
(* The index *)

Answers == [by : Pids, index : Nat, sent : Nat]
Replies == [by : Pids, index : Nat]

ClientTypeOK ==
    /\ answers \in Seq(Answers) /\ reply \in Seq(Replies)
    /\ mishaps \in Seq({"other", "death"}) /\ Rows \in Nat
    /\ Pids = {} => client = "running" /\ answers = <<>>

(* One logger, and a client that waits for every answer. *)
Alone == OneLogger /\ ~ Happened("death")

(* What the only logger has still to read. *)
Stream == ahead[1] \o pipe

(* The first n of these lines are the entries that come after those the    *)
(* logger has read.                                                        *)
NextEntries(n) ==
    \A i \in 1 .. n : Stream[i].kind = "log" /\ Stream[i].entry = Len(received[1]) + i

(* Where the question is: there is none; it is the last line to read; the  *)
(* logger has it; it is answered.                                          *)
NotAsked ==
    /\ client = "running" /\ NextEntries(Len(Stream)) /\ sent = Len(received[1]) + Len(Stream)
    /\ main[1] # "index" /\ reply = <<>>

AskedInPipe ==
    /\ client = "waiting" /\ Stream # <<>> /\ Stream[Len(Stream)].kind = "index"
    /\ NextEntries(Len(Stream) - 1) /\ sent = Len(received[1]) + Len(Stream) - 1
    /\ main[1] # "index" /\ reply = <<>>

AskedInHands ==
    /\ client = "waiting" /\ Stream = <<>> /\ sent = Len(received[1])
    /\ main[1] = "index" /\ reply = <<>>

Answered ==
    /\ client = "waiting" /\ Stream = <<>> /\ sent = Len(received[1])
    /\ main[1] = "read" /\ reply # <<>> /\ Head(reply).index = Index[1]

(* The entries arrive with the numbers the client gave them. *)
Dialogue ==
    /\ \A k \in 1 .. Len(received[1]) : received[1][k] = k
    /\ NotAsked \/ AskedInPipe \/ AskedInHands \/ Answered

(* What the index is ahead of the entries taken into the queue. *)
Ahead == Index[1] - Len(received[1]) + Len(Hand(1))

Counted ==
    /\ main[1] = "init" => received[1] = <<>> /\ answers = <<>>
    /\ \A i \in 1 .. Len(answers) : answers[i].index - answers[i].sent = Ahead

(* Nobody else writes: the rows are the entries. *)
OnlyEntries ==
    /\ Len(event_log) = Rows + Written(1)
    /\ \A n \in 1 .. Written(1) : event_log[Rows + n].entry = n
    /\ main[1] # "init" => Ahead = Rows

AloneInv ==
    Alone => /\ Dialogue /\ Counted
             /\ ~ Happened("other") => OnlyEntries

IndexInv == ClientTypeOK /\ (Pids # {} => AloneInv)
LEMMA AloneInitInv == Init => IndexInv
<1> SUFFICES ASSUME Init PROVE IndexInv
  OBVIOUS
<1>1. /\ \A p \in Pids : received[p] = <<>>
      /\ main = [p \in Pids |-> "init"] /\ reply = <<>>
      /\ pipe = <<>> /\ ahead = [p \in Pids |-> <<>>]
      /\ client = "running" /\ sent = 0 /\ answers = <<>> /\ mishaps = <<>>
      /\ Rows \in Nat /\ event_log = [i \in 1 .. Rows |-> Other]
  BY LoggerAssumption DEF Init
<1>2. ClientTypeOK
  BY <1>1 DEF ClientTypeOK
<1>3. ASSUME Pids # {} PROVE Dialogue /\ Counted /\ OnlyEntries
  <2>1. 1 \in Pids
    BY <1>3, ServiceAssumption DEF Pids
  <2>2. received[1] = <<>> /\ main[1] = "init" /\ Stream = <<>>
    BY <1>1, <2>1 DEF Stream
  <2>3. RowsOf(1) = {}
    BY <1>1 DEF RowsOf, Other, NoPid
  <2>4. Written(1) = 0
    BY <2>3, FS_EmptySet DEF Written
  <2>5. Len(event_log) = Rows
    BY <1>1
  <2>6. Dialogue
    BY <1>1, <2>2 DEF Dialogue, NotAsked, NextEntries
  <2>7. Counted
    BY <1>1, <2>2 DEF Counted
  <2>8. OnlyEntries
    BY <1>1, <2>2, <2>4, <2>5 DEF OnlyEntries
  <2> QED BY <2>6, <2>7, <2>8
<1> QED BY <1>2, <1>3 DEF IndexInv, AloneInv

(* No process becomes unstarted and no mishap is forgotten. *)
LEMMA AloneBefore ==
    ASSUME ServiceInv, ClientTypeOK, [Next]_vars
    PROVE  /\ Alone' => Alone
           /\ Happened("other") => Happened("other")'
<1>1. \A p \in Pids : process'[p] = "none" => process[p] = "none"
  <2>1. process \in [Pids -> {"none", "running", "dead"}]
    BY DEF ServiceInv, ServiceTypeOK
  <2>2. ASSUME NEW s \in Shells, UpStart(s) PROVE <1>1!:
    BY <2>1, <2>2 DEF UpStart
  <2>3. ASSUME NEW s \in Shells, DownKill(s) PROVE <1>1!:
    BY <2>1, <2>3 DEF DownKill
  <2>4. ASSUME NEW p \in Running, Die(p) PROVE <1>1!:
    BY <2>1, <2>4 DEF Die, Running
  <2>5. CASE UNCHANGED process
    BY <2>5
  <2>6. CASE ServiceNext
    BY <2>2, <2>3, <2>5, <2>6 DEF ServiceNext, UpCheck, UpWrite, DownRead, DownRemove
  <2>7. ASSUME NEW p \in Pids, LoggerInit(p) \/ ReadLine(p) \/ CommitBatch(p) PROVE <1>1!:
    BY <2>4, <2>5, <2>7 DEF LoggerInit, ReadLine, CommitBatch, commit
  <2> QED BY <2>5, <2>6, <2>7
          DEF Next, vars, service, FillBuffer, Unblock, writeIndex, dequeue, ClientLog, ClientAsk,
              ClientRead, ClientDie, EmitEvent
<1>2. UNCHANGED mishaps \/ \E kind : mishaps' = Append(mishaps, kind)
  BY DEF Next, vars, clientVars, LoggerInit, FillBuffer, ReadLine, Unblock, writeIndex, dequeue,
         CommitBatch, ClientLog, ClientAsk, ClientRead, ClientDie, EmitEvent, Mishap
<1>3. mishaps \in Seq({"other", "death"})
  BY DEF ClientTypeOK
<1>4. \A kind : Happened(kind) => Happened(kind)'
  <2> SUFFICES ASSUME NEW kind, NEW i \in 1 .. Len(mishaps), mishaps[i] = kind
               PROVE  i \in 1 .. Len(mishaps') /\ mishaps'[i] = kind
    BY DEF Happened, Contains
  <2> QED BY <1>2, <1>3
<1> QED BY <1>1, <1>4 DEF Alone, OneLogger

(* What is known of the only logger. *)
LEMMA OnlyLoggerType ==
    ASSUME LoggersInv, 1 \in Pids
    PROVE  /\ received[1] \in Seq(Nat) /\ Len(received[1]) \in Nat /\ Index[1] \in Nat
           /\ Len(Hand(1)) \in Nat /\ Stream \in Seq(Lines) /\ Len(Stream) \in Nat
           /\ main[1] # "blocked" => Len(Hand(1)) = 0
           /\ main[1] = "blocked" => Len(Hand(1)) = 1
<1>1. /\ received[1] \in Seq(Nat) /\ Index[1] \in Nat /\ line[1] \in Nat
      /\ Stream \in Seq(Lines)
  BY DEF LoggersInv, MemoryTypeOK, Stream
<1> QED BY <1>1 DEF Hand
(* What a step of the only logger, or of its client, has to keep. *)
KeepsIndex ==
    /\ Dialogue'
    /\ Counted'
    /\ OnlyEntries => OnlyEntries'

(* A step that takes nothing from the pipe and writes nothing. *)
LEMMA KeepsCounts ==
    ASSUME Counted, Ahead' = Ahead, UNCHANGED answers,
           main'[1] = "init" => main[1] = "init" /\ received'[1] = received[1]
    PROVE  Counted'
BY DEF Counted

LEMMA KeepsRows ==
    ASSUME OnlyEntries, UNCHANGED <<event_log, Rows>>, Ahead' = Ahead,
           main[1] = "init" => main'[1] = "init"
    PROVE  OnlyEntries'
<1>1. Written(1)' = Written(1)
  BY DEF Written, RowsOf
<1> QED BY <1>1 DEF OnlyEntries

LEMMA TailOf ==
    ASSUME NEW S, NEW s \in Seq(S), s # <<>>
    PROVE  /\ Head(s) \in S /\ Head(s) = s[1]
           /\ Len(s) \in Nat \ {0} /\ Len(Tail(s)) = Len(s) - 1
           /\ \A i \in 1 .. Len(s) - 1 : Tail(s)[i] = s[i + 1]
           /\ Tail(s) = <<>> <=> Len(s) = 1
<1>1. Len(s) \in Nat \ {0} /\ Tail(s) \in Seq(S) /\ Len(Tail(s)) = Len(s) - 1
  OBVIOUS
<1>2. \A i \in 1 .. Len(s) - 1 : Tail(s)[i] = s[i + 1]
  OBVIOUS
<1>3. Head(s) \in S /\ Head(s) = s[1]
  OBVIOUS
<1>4. Tail(s) = <<>> <=> Len(Tail(s)) = 0
  BY <1>1, EmptySeq
<1> QED BY <1>1, <1>2, <1>3, <1>4

Joined(u, s, t) ==
    /\ Len(u) = Len(s) + Len(t)
    /\ \A n \in 1 .. Len(s) : u[n] = s[n]
    /\ \A n \in 1 .. Len(t) : u[Len(s) + n] = t[n]

LEMMA ConcatOf ==
    ASSUME NEW S, NEW s \in Seq(S), NEW t \in Seq(S), NEW u, u = s \o t
    PROVE  Joined(u, s, t)
<1>1. Len(s) \in Nat /\ Len(t) \in Nat /\ Len(s \o t) = Len(s) + Len(t)
  OBVIOUS
<1>2. \A n \in 1 .. Len(s) : (s \o t)[n] = s[n]
  OBVIOUS
<1>3. ASSUME NEW n \in 1 .. Len(t) PROVE (s \o t)[Len(s) + n] = t[n]
  OBVIOUS
<1> QED BY <1>1, <1>2, <1>3 DEF Joined

LEMMA AppendToConcat ==
    ASSUME NEW S, NEW s \in Seq(S), NEW t \in Seq(S), NEW x \in S
    PROVE  s \o Append(t, x) = Append(s \o t, x)
OBVIOUS

LEMMA HeadAndTail ==
    ASSUME NEW S, NEW s \in Seq(S), NEW t \in Seq(S), s # <<>>
    PROVE  s \o t # <<>> /\ Head(s \o t) = Head(s) /\ Tail(s) \o t = Tail(s \o t)
<1> DEFINE u == s \o t
           v == Tail(s) \o t
<1>1. /\ Len(s) \in Nat \ {0} /\ Len(t) \in Nat
      /\ u \in Seq(S) /\ Len(u) = Len(s) + Len(t) /\ u[1] = s[1]
      /\ \A n \in 1 .. Len(s) : u[n] = s[n]
      /\ \A n \in 1 .. Len(t) : u[Len(s) + n] = t[n]
  OBVIOUS
<1>2. /\ Tail(s) \in Seq(S) /\ Len(Tail(s)) = Len(s) - 1
      /\ \A n \in 1 .. Len(s) - 1 : Tail(s)[n] = s[n + 1]
  OBVIOUS
<1>3. v \in Seq(S) /\ Joined(v, Tail(s), t)
  <2>1. Tail(s) \in Seq(S)
    BY <1>2
  <2>2. v \in Seq(S)
    BY <2>1
  <2>3. Joined(v, Tail(s), t)
    BY <2>1, ConcatOf
  <2> QED BY <2>2, <2>3
<1> HIDE DEF u, v
<1>4. u # <<>>
  BY <1>1
<1>5. /\ Tail(u) \in Seq(S) /\ Len(Tail(u)) = Len(u) - 1 /\ Head(u) = u[1]
      /\ \A n \in 1 .. Len(u) - 1 : Tail(u)[n] = u[n + 1]
  BY <1>1, <1>4
<1>6. Len(v) = Len(Tail(u))
  BY <1>1, <1>2, <1>3, <1>5 DEF Joined
<1>7. ASSUME NEW n \in 1 .. Len(v) PROVE v[n] = Tail(u)[n]
  <2>1. Len(v) = Len(s) - 1 + Len(t) /\ n \in 1 .. Len(u) - 1
    BY <1>1, <1>2, <1>3, <1>5, <1>6 DEF Joined
  <2>2. CASE n \in 1 .. Len(s) - 1
    <3>1. n + 1 \in 1 .. Len(s) /\ n \in 1 .. Len(Tail(s))
      BY <2>2, <1>1, <1>2
    <3> QED BY <3>1, <2>1, <2>2, <1>1, <1>2, <1>3, <1>5 DEF Joined
  <2>3. CASE n - (Len(s) - 1) \in 1 .. Len(t)
    <3> DEFINE m == n - (Len(s) - 1)
    <3>1. m \in 1 .. Len(t) /\ n = Len(Tail(s)) + m /\ n + 1 = Len(s) + m
      BY <2>1, <2>3, <1>1, <1>2
    <3> HIDE DEF m
    <3>2. v[Len(Tail(s)) + m] = t[m] /\ u[Len(s) + m] = t[m]
      BY <3>1, <1>1, <1>3 DEF Joined
    <3>3. Tail(u)[n] = u[n + 1]
      BY <2>1, <1>5
    <3> QED BY <3>1, <3>2, <3>3
  <2> QED BY <2>1, <2>2, <2>3, <1>1
<1>8. v = Tail(u)
  BY <1>3, <1>5, <1>6, <1>7, SeqEqual
<1>9. Head(s) = s[1]
  BY <1>1
<1> QED BY <1>1, <1>4, <1>5, <1>8, <1>9 DEF u, v

(* Steps of the only logger that concern neither the client nor its lines. *)
LEMMA KeepsDialogue ==
    ASSUME Dialogue, UNCHANGED <<client, Stream, sent, reply, received>>,
           main'[1] = "index" <=> main[1] = "index",
           main[1] = "read" => main'[1] = "read" /\ Index'[1] = Index[1]
    PROVE  Dialogue'
<1>1. NotAsked => NotAsked'
  BY DEF NotAsked, NextEntries
<1>2. AskedInPipe => AskedInPipe'
  BY DEF AskedInPipe, NextEntries
<1>3. AskedInHands => AskedInHands'
  BY DEF AskedInHands
<1>4. Answered => Answered'
  BY DEF Answered
<1> QED BY <1>1, <1>2, <1>3, <1>4 DEF Dialogue

LEMMA OnlyReads ==
    ASSUME LoggersInv, 1 \in Pids, Dialogue, Counted, ReadLine(1)
    PROVE  KeepsIndex
<1>1. /\ received[1] \in Seq(Nat) /\ Len(received[1]) \in Nat /\ Index[1] \in Nat
      /\ Stream \in Seq(Lines) /\ Len(Stream) \in Nat /\ Len(Hand(1)) = 0
      /\ main[1] = "read" /\ ahead[1] # <<>>
      /\ UNCHANGED <<pipe, event_log, reply, client, sent, answers, Rows>>
  BY OnlyLoggerType DEF ReadLine, clientVars
<1>2. /\ main \in [Pids -> {"init", "read", "blocked", "index"}]
      /\ received \in [Pids -> Seq(Nat)] /\ Index \in [Pids -> Nat] /\ line \in [Pids -> Nat]
  BY DEF LoggersInv, MemoryTypeOK
<1>0. CASE UNCHANGED <<Index, main, line, ahead, received>>
  <2>1. Stream' = Stream /\ Ahead' = Ahead
    BY <1>0, <1>1 DEF Stream, Ahead, Hand
  <2> QED BY <1>0, <1>1, <2>1, KeepsDialogue, KeepsCounts, KeepsRows DEF KeepsIndex
<1> SUFFICES ASSUME Receive(1, Head(ahead[1])), ahead' = [ahead EXCEPT ![1] = Tail(@)]
             PROVE  KeepsIndex
  BY <1>0 DEF ReadLine
<1>a. /\ Stream # <<>> /\ Stream' = Tail(Stream) /\ Head(Stream) = Head(ahead[1])
  <2>1. ahead \in [Pids -> Seq(Lines)] /\ pipe \in Seq(Lines)
    BY DEF LoggersInv, MemoryTypeOK
  <2>2. ahead[1] \in Seq(Lines) /\ ahead'[1] = Tail(ahead[1])
    BY <2>1
  <2> QED BY <1>1, <2>1, <2>2, HeadAndTail DEF Stream
<1>3. /\ Len(Stream) \in Nat \ {0} /\ Len(Stream') = Len(Stream) - 1
      /\ Head(Stream) = Stream[1] /\ Head(Stream) \in Lines
      /\ \A i \in 1 .. Len(Stream) - 1 : Stream'[i] = Stream[i + 1]
      /\ Stream' = <<>> <=> Len(Stream) = 1
  BY <1>1, <1>a, TailOf
<1>4. CASE Head(Stream).kind = "index"
  <2>1. main'[1] = "index" /\ UNCHANGED <<Index, received>>
    BY <1>2, <1>4, <1>a DEF Receive
  <2>2. Len(Stream) = 1 /\ AskedInPipe
    <3>1. ~ NotAsked
      BY <1>1, <1>3, <1>4 DEF NotAsked, NextEntries
    <3>2. AskedInPipe
      BY <3>1, <1>1, <1>a DEF Dialogue, AskedInHands, Answered
    <3>3. ~ (Len(Stream) > 1)
      BY <3>2, <1>1, <1>3, <1>4 DEF AskedInPipe, NextEntries
    <3> QED BY <3>2, <3>3, <1>1, <1>3
  <2>3. Dialogue'
    <3>1. AskedInHands'
      BY <1>1, <1>3, <2>1, <2>2 DEF AskedInPipe, AskedInHands
    <3> QED BY <3>1, <2>1 DEF Dialogue
  <2>4. Ahead' = Ahead
    BY <1>1, <2>1 DEF Ahead, Hand
  <2> QED BY <1>1, <2>1, <2>3, <2>4, KeepsCounts, KeepsRows DEF KeepsIndex
<1>5. CASE Head(Stream).kind = "log"
  <2>0. Lines = [kind : {"log", "index"}, entry : Nat]
    BY DEF Lines
  <2>1. PICK e \in Nat : e = Head(Stream).entry
    BY <1>3, <2>0
  <2>2. received'[1] = Append(received[1], e)
    BY <1>2, <1>5, <1>a, <2>1 DEF Receive
  <2>3. Len(received'[1]) = Len(received[1]) + 1 /\ received'[1][Len(received[1]) + 1] = e
        /\ \A k \in 1 .. Len(received[1]) : received'[1][k] = received[1][k]
    BY <1>1, <2>2
  <2>4. \/ Index'[1] = Index[1] + 1 /\ main'[1] = "read" /\ Len(Hand(1)') = 0
        \/ Index'[1] = Index[1] /\ main'[1] = "blocked" /\ Len(Hand(1)') = 1
    <3>1. \/ Index' = [Index EXCEPT ![1] = @ + 1] /\ UNCHANGED <<main, line>>
          \/ UNCHANGED Index /\ main' = [main EXCEPT ![1] = "blocked"]
      BY <1>5, <1>a DEF Receive, enqueue
    <3>2. CASE Index' = [Index EXCEPT ![1] = @ + 1] /\ UNCHANGED <<main, line>>
      BY <3>2, <1>1, <1>2 DEF Hand
    <3>3. CASE UNCHANGED Index /\ main' = [main EXCEPT ![1] = "blocked"]
      <4>1. main'[1] = "blocked"
        BY <3>3, <1>2
      <4> QED BY <4>1, <3>3 DEF Hand
    <3> QED BY <3>1, <3>2, <3>3
  <2>5. Ahead' = Ahead
    <3>1. /\ Ahead = Index[1] - Len(received[1])
          /\ Ahead' = Index'[1] - (Len(received[1]) + 1) + Len(Hand(1)')
      BY <1>1, <2>3 DEF Ahead
    <3>2. Index[1] \in Nat /\ Len(received[1]) \in Nat
      BY <1>1
    <3>3. CASE Index'[1] = Index[1] + 1 /\ Len(Hand(1)') = 0
      BY <3>1, <3>2, <3>3
    <3>4. CASE Index'[1] = Index[1] /\ Len(Hand(1)') = 1
      <4>1. Ahead' = Index[1] - (Len(received[1]) + 1) + 1
        BY <3>1, <3>4
      <4>2. \A i, r \in Nat : i - (r + 1) + 1 = i - r
        OBVIOUS
      <4> QED BY <4>1, <4>2, <3>1, <3>2
    <3> QED BY <3>3, <3>4, <2>4
  <2>6. NotAsked \/ (AskedInPipe /\ Len(Stream) > 1)
    <3>1. NotAsked \/ AskedInPipe
      BY <1>1, <1>a DEF Dialogue, AskedInHands, Answered
    <3>2. AskedInPipe => Len(Stream) # 1
      BY <1>1, <1>3, <1>5 DEF AskedInPipe
    <3> QED BY <3>1, <3>2, <1>1, <1>3
  <2>7. PICK l \in Nat : l = Len(Stream) - 1
    BY <1>3
  <2>8. \A n \in Nat : n <= l /\ NextEntries(n + 1) => NextEntries(n)' /\ Stream[1].entry = Len(received[1]) + 1
    <3> SUFFICES ASSUME NEW n \in Nat, n <= l, NextEntries(n + 1)
                 PROVE  NextEntries(n)' /\ Stream[1].entry = Len(received[1]) + 1
      OBVIOUS
    <3>1. \A i \in 1 .. n + 1 : Stream[i].kind = "log" /\ Stream[i].entry = Len(received[1]) + i
      BY DEF NextEntries
    <3>2. ASSUME NEW i \in 1 .. n
          PROVE  Stream'[i].kind = "log" /\ Stream'[i].entry = Len(received'[1]) + i
      <4>1. i + 1 \in 1 .. n + 1 /\ i \in 1 .. Len(Stream) - 1
        BY <1>1, <2>7
      <4>2. Stream'[i] = Stream[i + 1]
        BY <4>1, <1>3
      <4>3. Stream[i + 1].kind = "log" /\ Stream[i + 1].entry = Len(received[1]) + (i + 1)
        BY <4>1, <3>1
      <4>4. Len(received[1]) + (i + 1) = Len(received'[1]) + i
        <5>1. \A k, j \in Nat : k + (j + 1) = (k + 1) + j
          OBVIOUS
        <5>2. Len(received[1]) \in Nat /\ i \in Nat /\ Len(received'[1]) = Len(received[1]) + 1
          BY <1>1, <2>3
        <5> QED BY <5>1, <5>2
      <4> QED BY <4>2, <4>3, <4>4
    <3>3. 1 \in 1 .. n + 1
      OBVIOUS
    <3> QED BY <3>1, <3>2, <3>3 DEF NextEntries
  <2>9. ASSUME e = Len(received[1]) + 1, NEW k \in 1 .. Len(received'[1])
        PROVE  received'[1][k] = k
    <3>1. k \in 1 .. Len(received[1]) \/ k = Len(received[1]) + 1
      BY <1>1, <2>3
    <3>2. \A j \in 1 .. Len(received[1]) : received[1][j] = j
      BY DEF Dialogue
    <3> QED BY <3>1, <3>2, <2>3, <2>9
  <2>10. CASE NotAsked
    <3>1. NextEntries(l)' /\ e = Len(received[1]) + 1
      <4>1. NextEntries(l + 1)
        BY <2>7, <2>10, <1>1 DEF NotAsked
      <4>2. l <= l /\ Stream[1].entry = e
        BY <2>1, <2>7, <1>3
      <4>3. NextEntries(l)' /\ Stream[1].entry = Len(received[1]) + 1
        BY <4>1, <4>2, <2>8
      <4> QED BY <4>2, <4>3
    <3>2. Len(Stream') = l /\ sent' = Len(received'[1]) + l
      BY <1>1, <1>3, <2>3, <2>7, <2>10 DEF NotAsked
    <3>3. NotAsked'
      BY <3>1, <3>2, <1>1, <2>4, <2>10 DEF NotAsked
    <3> QED BY <3>1, <3>3, <2>9, <2>4, <2>5, <1>1, KeepsCounts, KeepsRows DEF KeepsIndex, Dialogue
  <2>11. CASE AskedInPipe /\ Len(Stream) > 1
    <3>0. PICK m \in Nat : m = l - 1
      BY <2>7, <2>11
    <3>1. NextEntries(m)' /\ e = Len(received[1]) + 1
      <4>1. NextEntries(m + 1)
        BY <3>0, <2>7, <2>11, <1>1 DEF AskedInPipe
      <4> QED BY <4>1, <3>0, <2>1, <2>7, <2>8, <1>3
    <3>2. Len(Stream') - 1 = m /\ sent' = Len(received'[1]) + Len(Stream') - 1
      BY <3>0, <1>1, <1>3, <2>3, <2>7, <2>11 DEF AskedInPipe
    <3>3. Stream' # <<>> /\ Stream'[Len(Stream')].kind = "index"
      BY <1>1, <1>3, <2>11 DEF AskedInPipe
    <3>4. AskedInPipe'
      BY <3>1, <3>2, <3>3, <1>1, <2>4, <2>11 DEF AskedInPipe
    <3> QED BY <3>1, <3>4, <2>9, <2>4, <2>5, <1>1, KeepsCounts, KeepsRows DEF KeepsIndex, Dialogue
  <2> QED BY <2>6, <2>10, <2>11
<1> QED BY <1>4, <1>5, <1>a DEF Receive
(* A block read ahead is still to be read. *)
LEMMA OnlyFills ==
    ASSUME LoggersInv, 1 \in Pids, Dialogue, Counted, FillBuffer(1)
    PROVE  KeepsIndex
<1>1. /\ ahead[1] = <<>> /\ ahead \in [Pids -> Seq(Lines)] /\ pipe \in Seq(Lines)
      /\ UNCHANGED <<Index, main, line, received, event_log, reply, client, sent, answers, Rows>>
  BY DEF FillBuffer, clientVars, LoggersInv, MemoryTypeOK
<1>2. PICK n \in 1 .. Len(pipe) :
          /\ ahead'[1] = SubSeq(pipe, 1, n)
          /\ pipe' = SubSeq(pipe, n + 1, Len(pipe))
  BY <1>1 DEF FillBuffer
<1>3. /\ ahead'[1] \in Seq(Lines) /\ Len(ahead'[1]) = n
      /\ \A i \in 1 .. n : ahead'[1][i] = pipe[i]
      /\ pipe' \in Seq(Lines) /\ Len(pipe') = Len(pipe) - n
      /\ \A i \in 1 .. Len(pipe) - n : pipe'[i] = pipe[n + i]
  BY <1>1, <1>2, BlockOf
<1>4. Stream = pipe
  BY <1>1 DEF Stream
<1>5. Stream' \in Seq(Lines) /\ Joined(Stream', ahead'[1], pipe')
  <2>1. Stream' = ahead'[1] \o pipe' /\ ahead'[1] \in Seq(Lines) /\ pipe' \in Seq(Lines)
    BY <1>3 DEF Stream
  <2>2. Stream' \in Seq(Lines)
    BY <2>1
  <2>3. Joined(Stream', ahead'[1], pipe')
    BY <2>1, ConcatOf
  <2> QED BY <2>2, <2>3
<1>6. Len(Stream') = Len(pipe) /\ Len(pipe) \in Nat
  BY <1>1, <1>3, <1>5 DEF Joined
<1>7. ASSUME NEW i \in 1 .. Len(pipe) PROVE Stream'[i] = pipe[i]
  <2>1. CASE i \in 1 .. n
    BY <2>1, <1>3, <1>5 DEF Joined
  <2>2. CASE i - n \in 1 .. Len(pipe) - n
    <3>1. Stream'[n + (i - n)] = pipe'[i - n] /\ pipe'[i - n] = pipe[n + (i - n)]
      BY <2>2, <1>3, <1>5 DEF Joined
    <3>2. n + (i - n) = i
      OBVIOUS
    <3> QED BY <3>1, <3>2
  <2> QED BY <2>1, <2>2, <1>6
<1>8. Stream' = Stream
  BY <1>1, <1>4, <1>5, <1>6, <1>7, SeqEqual
<1>9. Ahead' = Ahead
  BY <1>1 DEF Ahead, Hand
<1> QED BY <1>1, <1>8, <1>9, KeepsDialogue, KeepsCounts, KeepsRows DEF KeepsIndex

LEMMA OnlyUnblocks ==
    ASSUME LoggersInv, 1 \in Pids, Dialogue, Counted, Unblock(1)
    PROVE  KeepsIndex
<1>1. /\ Len(received[1]) \in Nat /\ Index[1] \in Nat /\ Len(Hand(1)) = 1
      /\ main[1] = "blocked"
      /\ UNCHANGED <<received, event_log, reply, client, sent, answers, Rows, Stream>>
  BY OnlyLoggerType DEF Unblock, clientVars, Stream
<1>2. /\ main \in [Pids -> {"init", "read", "blocked", "index"}] /\ Index \in [Pids -> Nat]
  BY DEF LoggersInv, MemoryTypeOK
<1>3. Index'[1] = Index[1] + 1 /\ main'[1] = "read"
  BY <1>2 DEF Unblock, enqueue
<1>4. Len(Hand(1)') = 0
  BY <1>3 DEF Hand
<1>5. Ahead' = Ahead
  <2>0. received'[1] = received[1] /\ Ahead' = Index'[1] - Len(received'[1]) + Len(Hand(1)')
    BY <1>1 DEF Ahead
  <2>1. Ahead = Index[1] - Len(received[1]) + 1 /\ Ahead' = (Index[1] + 1) - Len(received[1]) + 0
    <3>1. Ahead = Index[1] - Len(received[1]) + 1
      BY <1>1 DEF Ahead
    <3>2. Ahead' = (Index[1] + 1) - Len(received[1]) + 0
      BY <2>0, <1>3, <1>4
    <3> QED BY <3>1, <3>2
  <2>2. \A i, r \in Nat : i - r + 1 = (i + 1) - r + 0
    OBVIOUS
  <2> QED BY <2>1, <2>2, <1>1
<1>6. Dialogue'
  BY <1>1, <1>3, KeepsDialogue
<1> QED BY <1>1, <1>3, <1>5, <1>6, KeepsCounts, KeepsRows DEF KeepsIndex

LEMMA OnlyDequeues ==
    ASSUME LoggersInv, 1 \in Pids, Dialogue, Counted, dequeue(1)
    PROVE  KeepsIndex
<1>1. UNCHANGED <<Index, main, line, received, event_log, reply, client, sent, answers, Rows, Stream>>
  BY DEF dequeue, clientVars, Stream
<1>2. Ahead' = Ahead
  BY <1>1 DEF Ahead, Hand
<1> QED BY <1>1, <1>2, KeepsDialogue, KeepsCounts, KeepsRows DEF KeepsIndex

LEMMA OnlyAnswers ==
    ASSUME LoggersInv, ClientTypeOK, 1 \in Pids, Dialogue, Counted, writeIndex(1)
    PROVE  KeepsIndex
<1>1. /\ main[1] = "index" /\ reply' = Append(reply, [by |-> 1, index |-> Index[1]])
      /\ UNCHANGED <<Index, line, received, event_log, client, sent, answers, Rows, Stream>>
  BY DEF writeIndex, clientVars, Stream
<1>2. main'[1] = "read"
  BY DEF writeIndex, LoggersInv, MemoryTypeOK
<1>3. Ahead' = Ahead
  BY <1>1, <1>2 DEF Ahead, Hand
<1>4. AskedInHands
  BY <1>1 DEF Dialogue, NotAsked, AskedInPipe, Answered
<1>5. reply' # <<>> /\ Head(reply').index = Index[1]
  BY <1>1, <1>4 DEF AskedInHands
<1>6. Answered'
  BY <1>1, <1>2, <1>4, <1>5 DEF AskedInHands, Answered
<1> QED BY <1>1, <1>2, <1>3, <1>6, KeepsCounts, KeepsRows DEF KeepsIndex, Dialogue

(* The logger starts to count where the table ends. *)
LEMMA OnlyStarts ==
    ASSUME LoggersInv, ClientTypeOK, 1 \in Pids, Dialogue, Counted, LoggerInit(1)
    PROVE  KeepsIndex
<1>1. /\ main[1] = "init"
      /\ UNCHANGED <<line, received, event_log, reply, client, sent, answers, Rows, Stream>>
  BY DEF LoggerInit, clientVars, Stream
<1>2. CASE UNCHANGED <<Index, main>>
  <2>1. Ahead' = Ahead
    BY <1>1, <1>2 DEF Ahead, Hand
  <2> QED BY <1>1, <1>2, <2>1, KeepsDialogue, KeepsCounts, KeepsRows DEF KeepsIndex
<1>3. CASE /\ Index' = [Index EXCEPT ![1] = getHighestIndex]
           /\ main' = [main EXCEPT ![1] = "read"]
  <2>1. Index'[1] = Len(event_log) /\ main'[1] = "read"
    BY <1>3 DEF LoggersInv, MemoryTypeOK, getHighestIndex
  <2>2. received[1] = <<>> /\ answers = <<>>
    BY <1>1 DEF Counted
  <2>3. Len(event_log) \in Nat /\ Rows \in Nat
    BY DEF LoggersInv, MemoryTypeOK, ClientTypeOK
  <2>4. Ahead' = Len(event_log)
    BY <1>1, <2>1, <2>2, <2>3 DEF Ahead, Hand
  <2>5. Written(1) = 0
    <3>1. Written(1) \in Nat /\ Len(received[1]) >= Written(1)
      BY HandType
    <3> QED BY <3>1, <2>2
  <2>6. Counted'
    BY <1>1, <2>1, <2>2 DEF Counted
  <2>7. Written(1)' = Written(1)
    BY <1>1 DEF Written, RowsOf
  <2>8. OnlyEntries => OnlyEntries'
    BY <1>1, <2>3, <2>4, <2>5, <2>7 DEF OnlyEntries
  <2>9. Dialogue'
    BY <1>1, <2>1, KeepsDialogue
  <2> QED BY <2>6, <2>8, <2>9 DEF KeepsIndex
<1> QED BY <1>2, <1>3 DEF LoggerInit

(* The rows of a batch are the entries that come next. *)
LEMMA OnlyWrites ==
    ASSUME LoggersInv, ClientTypeOK, 1 \in Pids, Dialogue, Counted, CommitBatch(1)
    PROVE  KeepsIndex
<1>1. UNCHANGED <<Queue, Index, main, line, received, Stream, reply, client, sent, answers, Rows>>
  BY DEF CommitBatch, clientVars, Stream
<1>2. Ahead' = Ahead
  BY <1>1 DEF Ahead, Hand
<1>3. Dialogue' /\ Counted'
  BY <1>1, <1>2, KeepsDialogue, KeepsCounts
<1>4. CASE UNCHANGED event_log
  BY <1>1, <1>2, <1>3, <1>4, KeepsRows DEF KeepsIndex
<1>5. CASE event_log' = event_log \o [i \in 1 .. Len(buffer[1]) |->
                                          [by |-> 1, entry |-> buffer[1][i]]]
  <2>0. PICK rows : rows = [i \in 1 .. Len(buffer[1]) |-> [by |-> 1, entry |-> buffer[1][i]]]
    OBVIOUS
  <2>1. /\ buffer[1] \in Seq(Nat) /\ Written(1) \in Nat /\ Len(buffer[1]) \in Nat
        /\ Placed(received[1], Written(1), buffer[1], Queue[1], Hand(1))
        /\ received[1] \in Seq(Nat) /\ Queue[1] \in Seq(Nat) /\ Hand(1) \in Seq(Nat)
    BY HandType
  <2>2. \A i \in 1 .. Len(buffer[1]) : [by |-> 1, entry |-> buffer[1][i]] \in TableRows
    BY <2>1 DEF TableRows
  <2>3. /\ rows \in Seq(TableRows) /\ Len(rows) = Len(buffer[1])
        /\ \A k \in 1 .. Len(rows) : rows[k].by = 1 /\ rows[k].entry = buffer[1][k]
    BY <2>0, <2>1, <2>2
  <2>4. /\ event_log' = event_log \o rows /\ event_log \in Seq(TableRows)
        /\ Len(event_log) \in Nat /\ Rows \in Nat
    BY <1>5, <2>0 DEF LoggersInv, MemoryTypeOK, ClientTypeOK
  <2>5. Written(1)' = Written(1) + Len(rows)
    <3>1. AddsBatch(1, rows)
      BY <2>3, <2>4 DEF AddsBatch
    <3>2. RowsAdded(1, rows)
      BY <3>1, <2>3, <2>4, RowsOfBatch
    <3> QED BY <3>2 DEF RowsAdded
  <2>6. /\ Len(event_log') = Len(event_log) + Len(rows)
        /\ \A n \in 1 .. Len(event_log) : event_log'[n] = event_log[n]
        /\ \A n \in 1 .. Len(rows) : event_log'[Len(event_log) + n] = rows[n]
    <3>1. rows \in Seq(TableRows) /\ event_log \in Seq(TableRows)
      BY <2>3, <2>4
    <3>2. event_log' = event_log \o rows
      BY <2>4
    <3>3. Joined(event_log', event_log, rows)
      BY <3>1, <3>2, ConcatOf
    <3> QED BY <3>3 DEF Joined
  <2>7. \A k \in 1 .. Len(rows) : rows[k].entry = Written(1) + k
    <3>1. ASSUME NEW k \in 1 .. Len(rows) PROVE rows[k].entry = Written(1) + k
      <4>1. rows[k].entry = received[1][Written(1) + k]
        BY <2>1, <2>3 DEF Placed
      <4>2. Len(Queue[1]) \in Nat /\ Len(Hand(1)) \in Nat
        BY <2>1
      <4>3. Len(received[1]) = Written(1) + Len(buffer[1]) + Len(Queue[1]) + Len(Hand(1))
        BY <2>1 DEF Placed
      <4>4. Written(1) + k \in 1 .. Len(received[1])
        <5>1. Written(1) \in Nat /\ Len(buffer[1]) \in Nat /\ k \in 1 .. Len(buffer[1])
          BY <2>1, <2>3
        <5>2. \A w, b, q, h \in Nat : \A j \in 1 .. b : w + j \in 1 .. w + b + q + h
          OBVIOUS
        <5> QED BY <5>1, <5>2, <4>2, <4>3
      <4> QED BY <4>1, <4>4 DEF Dialogue
    <3> QED BY <3>1
  <2>8. ASSUME OnlyEntries PROVE OnlyEntries'
    <3>1. Len(event_log') = Rows + Written(1)'
      BY <2>1, <2>3, <2>4, <2>5, <2>6, <2>8 DEF OnlyEntries
    <3>2. ASSUME NEW n \in 1 .. Written(1)' PROVE event_log'[Rows + n].entry = n
      <4>1. CASE n <= Written(1)
        <5>1. n \in 1 .. Written(1) /\ Rows + n \in 1 .. Len(event_log)
          BY <4>1, <2>1, <2>3, <2>4, <2>5, <2>8 DEF OnlyEntries
        <5> QED BY <5>1, <2>6, <2>8 DEF OnlyEntries
      <4>2. CASE n > Written(1)
        <5>1. PICK k \in 1 .. Len(rows) : n = Written(1) + k
          <6>1. n - Written(1) \in 1 .. Len(rows) /\ n = Written(1) + (n - Written(1))
            BY <4>2, <2>1, <2>3, <2>5
          <6> QED BY <6>1
        <5>2. Rows + n = Len(event_log) + k
          BY <5>1, <2>1, <2>4, <2>8 DEF OnlyEntries
        <5> QED BY <5>1, <5>2, <2>6, <2>7
      <4> QED BY <4>1, <4>2, <2>1, <2>3, <2>5
    <3>3. main'[1] # "init" => Ahead' = Rows
      BY <1>1, <1>2, <2>8 DEF OnlyEntries
    <3> QED BY <1>1, <3>1, <3>2, <3>3 DEF OnlyEntries
  <2> QED BY <1>3, <2>8 DEF KeepsIndex
<1> QED BY <1>4, <1>5 DEF CommitBatch, commit
LEMMA ClientLogs ==
    ASSUME LoggersInv, 1 \in Pids, Dialogue, Counted, ClientLog
    PROVE  KeepsIndex
<1>1. /\ Stream \in Seq(Lines) /\ Len(Stream) \in Nat /\ Len(received[1]) \in Nat /\ sent \in Nat
      /\ client = "running" /\ Stream' = Append(Stream, Log(sent + 1)) /\ sent' = sent + 1
      /\ UNCHANGED <<Index, main, line, received, event_log, reply, client, answers, Rows>>
  <2>1. /\ ahead \in [Pids -> Seq(Lines)] /\ pipe \in Seq(Lines) /\ Log(sent + 1) \in Lines
        /\ ahead' = ahead /\ pipe' = Append(pipe, Log(sent + 1))
    BY DEF ClientLog, memory, LoggersInv, MemoryTypeOK, Log, IndexLine, Lines
  <2>2. ahead[1] \in Seq(Lines)
    BY <2>1
  <2>3. Stream' = Append(Stream, Log(sent + 1))
    BY <2>1, <2>2, AppendToConcat DEF Stream
  <2> QED BY <2>3, OnlyLoggerType DEF ClientLog, memory, LoggersInv, MemoryTypeOK
<1>2. Ahead' = Ahead
  BY <1>1 DEF Ahead, Hand
<1>3. NotAsked
  BY <1>1 DEF Dialogue, AskedInPipe, AskedInHands, Answered
<1>4. PICK l \in Lines : l = Log(sent + 1) /\ l.kind = "log" /\ l.entry = sent + 1
  BY <1>1 DEF Log, Lines
<1>5. PICK n \in Nat : n = Len(Stream)
  BY <1>1
<1>6. /\ Len(Stream') = n + 1 /\ Stream'[n + 1] = l
      /\ \A i \in 1 .. n : Stream'[i] = Stream[i]
  BY <1>1, <1>4, <1>5
<1>7. NextEntries(n + 1)'
  <2> SUFFICES ASSUME NEW i \in 1 .. n + 1
               PROVE  Stream'[i].kind = "log" /\ Stream'[i].entry = Len(received[1]) + i
    BY <1>1 DEF NextEntries
  <2>1. CASE i = n + 1
    <3>1. sent + 1 = Len(received[1]) + (n + 1)
      <4>1. sent = Len(received[1]) + n
        BY <1>3, <1>5 DEF NotAsked
      <4>2. \A r, m \in Nat : (r + m) + 1 = r + (m + 1)
        OBVIOUS
      <4>3. Len(received[1]) \in Nat /\ n \in Nat
        BY <1>1
      <4> QED BY <4>1, <4>2, <4>3
    <3> QED BY <2>1, <3>1, <1>4, <1>6
  <2>2. CASE i \in 1 .. n
    BY <2>2, <1>3, <1>5, <1>6 DEF NotAsked, NextEntries
  <2> QED BY <2>1, <2>2
<1>8. NotAsked'
  <2>1. sent' = Len(received'[1]) + Len(Stream')
    <3>1. sent = Len(received[1]) + n /\ received'[1] = received[1]
      BY <1>1, <1>3, <1>5 DEF NotAsked
    <3>2. sent + 1 = Len(received[1]) + (n + 1)
      <4>1. \A r, m \in Nat : (r + m) + 1 = r + (m + 1)
        OBVIOUS
      <4>2. Len(received[1]) \in Nat /\ n \in Nat
        BY <1>1
      <4> QED BY <3>1, <4>1, <4>2
    <3> QED BY <3>1, <3>2, <1>1, <1>6
  <2>2. NextEntries(Len(Stream))'
    BY <1>6, <1>7
  <2> QED BY <2>1, <2>2, <1>1, <1>3 DEF NotAsked
<1> QED BY <1>1, <1>2, <1>8, KeepsCounts, KeepsRows DEF KeepsIndex, Dialogue

LEMMA ClientAsks ==
    ASSUME LoggersInv, 1 \in Pids, Dialogue, Counted, ClientAsk
    PROVE  KeepsIndex
<1>1. /\ Stream \in Seq(Lines) /\ Len(Stream) \in Nat /\ Len(received[1]) \in Nat /\ sent \in Nat
      /\ client = "running" /\ Stream' = Append(Stream, IndexLine) /\ client' = "waiting"
      /\ UNCHANGED <<Index, main, line, received, event_log, reply, sent, answers, Rows>>
  <2>1. /\ ahead \in [Pids -> Seq(Lines)] /\ pipe \in Seq(Lines) /\ IndexLine \in Lines
        /\ ahead' = ahead /\ pipe' = Append(pipe, IndexLine)
    BY DEF ClientAsk, memory, LoggersInv, MemoryTypeOK, Log, IndexLine, Lines
  <2>2. ahead[1] \in Seq(Lines)
    BY <2>1
  <2>3. Stream' = Append(Stream, IndexLine)
    BY <2>1, <2>2, AppendToConcat DEF Stream
  <2> QED BY <2>3, OnlyLoggerType DEF ClientAsk, memory, LoggersInv, MemoryTypeOK
<1>2. Ahead' = Ahead
  BY <1>1 DEF Ahead, Hand
<1>3. NotAsked
  BY <1>1 DEF Dialogue, AskedInPipe, AskedInHands, Answered
<1>4. PICK l \in Lines : l = IndexLine /\ l.kind = "index"
  <2>1. IndexLine \in Lines
    BY DEF IndexLine, Lines
  <2>2. IndexLine.kind = "index"
    BY DEF IndexLine
  <2> QED BY <2>1, <2>2
<1>5. PICK n \in Nat : n = Len(Stream)
  BY <1>1
<1>6. /\ Len(Stream') = n + 1 /\ Stream'[n + 1] = l /\ Stream' # <<>>
      /\ \A i \in 1 .. n : Stream'[i] = Stream[i]
  BY <1>1, <1>4, <1>5
<1>7. NextEntries(n)'
  BY <1>1, <1>3, <1>5, <1>6 DEF NotAsked, NextEntries
<1>8. n = Len(Stream') - 1 /\ sent' = Len(received'[1]) + Len(Stream') - 1
  BY <1>1, <1>3, <1>5, <1>6 DEF NotAsked
<1>9. AskedInPipe'
  BY <1>1, <1>3, <1>4, <1>6, <1>7, <1>8 DEF AskedInPipe, NotAsked
<1> QED BY <1>1, <1>2, <1>9, KeepsCounts, KeepsRows DEF KeepsIndex, Dialogue

LEMMA ClientReads ==
    ASSUME LoggersInv, ClientTypeOK, 1 \in Pids, Dialogue, Counted, ClientRead
    PROVE  KeepsIndex
<1>1. /\ Len(received[1]) \in Nat /\ Index[1] \in Nat
      /\ client = "waiting" /\ reply # <<>> /\ reply' = <<>> /\ client' = "running"
      /\ answers' = Append(answers, [by |-> Head(reply).by, index |-> Head(reply).index,
                                     sent |-> sent])
      /\ UNCHANGED <<Index, main, line, received, event_log, sent, Stream, Rows>>
  BY OnlyLoggerType DEF ClientRead, memory, Stream
<1>2. Ahead' = Ahead
  BY <1>1 DEF Ahead, Hand
<1>3. Answered
  BY <1>1 DEF Dialogue, NotAsked, AskedInPipe, AskedInHands
<1>4. NotAsked'
  BY <1>1, <1>3 DEF Answered, NotAsked, NextEntries
<1>5. Index[1] - sent = Ahead /\ main[1] = "read"
  BY <1>1, <1>3 DEF Answered, Ahead, Hand
<1>6. Counted'
  <2>1. PICK a : a = [by |-> Head(reply).by, index |-> Head(reply).index, sent |-> sent]
    OBVIOUS
  <2>2. a.index - a.sent = Ahead
    BY <2>1, <1>3, <1>5 DEF Answered
  <2>3. answers \in Seq(Answers) /\ answers' = Append(answers, a)
    BY <1>1, <2>1 DEF ClientTypeOK
  <2>4. \A i \in 1 .. Len(answers') : answers'[i] = a \/ (i \in 1 .. Len(answers) /\ answers'[i] = answers[i])
    BY <2>3
  <2>5. \A i \in 1 .. Len(answers') : answers'[i].index - answers'[i].sent = Ahead'
    BY <1>2, <2>2, <2>4 DEF Counted
  <2> QED BY <1>1, <1>5, <2>5 DEF Counted
<1> QED BY <1>1, <1>2, <1>4, <1>6, KeepsRows DEF KeepsIndex, Dialogue
LEMMA ClientTypeStep ==
    ASSUME ClientTypeOK, LoggersInv, [Next]_vars
    PROVE  ClientTypeOK'
<1>1. /\ answers \in Seq(Answers) /\ reply \in Seq(Replies) /\ sent \in Nat
      /\ mishaps \in Seq({"other", "death"}) /\ Rows \in Nat
      /\ Pids = {} => client = "running" /\ answers = <<>>
  BY DEF ClientTypeOK, LoggersInv, MemoryTypeOK
<1>2. ASSUME NEW p \in Pids, writeIndex(p) PROVE ClientTypeOK'
  <2>1. Index[p] \in Nat
    BY DEF LoggersInv, MemoryTypeOK
  <2>2. [by |-> p, index |-> Index[p]] \in Replies
    BY <2>1 DEF Replies
  <2>3. reply' \in Seq(Replies)
    BY <1>1, <1>2, <2>2 DEF writeIndex
  <2> QED BY <1>1, <1>2, <2>3 DEF writeIndex, clientVars, ClientTypeOK
<1>3. CASE ClientRead
  <2>1. Head(reply) \in Replies
    BY <1>1, <1>3 DEF ClientRead
  <2>2. [by |-> Head(reply).by, index |-> Head(reply).index, sent |-> sent] \in Answers
    BY <1>1, <2>1 DEF Replies, Answers
  <2>3. answers' \in Seq(Answers) /\ reply' \in Seq(Replies)
    BY <1>1, <1>3, <2>2 DEF ClientRead
  <2>4. Pids # {}
    BY <1>1, <1>3 DEF ClientRead
  <2> QED BY <1>1, <1>3, <2>3, <2>4 DEF ClientRead, ClientTypeOK
<1>4. CASE ClientDie \/ EmitEvent
  <2>1. mishaps' \in Seq({"other", "death"})
    <3>1. mishaps' = Append(mishaps, "other") \/ mishaps' = Append(mishaps, "death")
      BY <1>4 DEF ClientDie, EmitEvent, Mishap
    <3>2. "other" \in {"other", "death"} /\ "death" \in {"other", "death"}
      OBVIOUS
    <3> QED BY <3>1, <3>2, <1>1, AppendProperties, ZenonT(30)
  <2>2. reply' \in Seq(Replies) /\ UNCHANGED <<answers, Rows>>
    <3>1. CASE ClientDie
      BY <3>1, <1>1 DEF ClientDie
    <3>2. CASE EmitEvent
      BY <3>2, <1>1 DEF EmitEvent
    <3> QED BY <3>1, <3>2, <1>4
  <2>3. Pids = {} => client' = "running"
    BY <1>1, <1>4 DEF ClientDie, EmitEvent
  <2> QED BY <1>1, <2>1, <2>2, <2>3 DEF ClientTypeOK
<1>5. CASE ClientAsk
  <2>1. Pids # {}
    BY <1>5 DEF ClientAsk, Running
  <2> QED BY <1>1, <1>5, <2>1 DEF ClientAsk, ClientTypeOK
<1>6. CASE UNCHANGED <<answers, reply, mishaps, Rows, client>>
  BY <1>1, <1>6 DEF ClientTypeOK
<1>7. ASSUME NEW p \in Pids,
             \/ LoggerInit(p) \/ FillBuffer(p) \/ ReadLine(p) \/ Unblock(p)
             \/ dequeue(p) \/ CommitBatch(p)
      PROVE  UNCHANGED <<answers, reply, mishaps, Rows, client>>
  BY <1>7 DEF LoggerInit, FillBuffer, ReadLine, Unblock, dequeue, CommitBatch, clientVars
<1>8. CASE ClientLog
  BY <1>6, <1>8 DEF ClientLog
<1>9. CASE UNCHANGED <<reply, clientVars>>
  BY <1>6, <1>9 DEF clientVars
<1> QED BY <1>2, <1>3, <1>4, <1>5, <1>6, <1>7, <1>8, <1>9 DEF Next, vars

LEMMA IndexStep ==
    ASSUME ServiceInv, LoggersInv, IndexInv, [Next]_vars
    PROVE  IndexInv'
<1>1. ClientTypeOK'
  BY ClientTypeStep DEF IndexInv
<1>2. ASSUME Pids # {}, Alone'
      PROVE  Dialogue' /\ Counted' /\ (~ Happened("other")' => OnlyEntries')
  <2>1. 1 \in Pids
    BY <1>2, ServiceAssumption DEF Pids
  <2>2. Alone /\ (Happened("other") => Happened("other")')
    BY <1>2, AloneBefore DEF IndexInv
  <2>3. Dialogue /\ Counted /\ (~ Happened("other") => OnlyEntries) /\ ClientTypeOK
    BY <1>2, <2>2 DEF IndexInv, AloneInv
  <2>4. \A p \in Running : p = 1
    BY <2>2 DEF Alone, OneLogger, Running
  <2>5. CASE KeepsIndex
    BY <2>2, <2>3, <2>5 DEF KeepsIndex
  <2>6. ASSUME NEW p \in Pids,
               \/ LoggerInit(p) \/ FillBuffer(p) \/ ReadLine(p) \/ Unblock(p)
               \/ writeIndex(p) \/ dequeue(p) \/ CommitBatch(p)
        PROVE  KeepsIndex
    <3>1. p = 1
      BY <2>4, <2>6 DEF LoggerInit, FillBuffer, ReadLine, Unblock, writeIndex, dequeue, CommitBatch
    <3> QED BY <2>1, <2>3, <2>6, <3>1, OnlyStarts, OnlyFills, OnlyReads, OnlyUnblocks, OnlyAnswers,
               OnlyDequeues, OnlyWrites
  <2>7. CASE ClientLog \/ ClientAsk \/ ClientRead
    BY <2>1, <2>3, <2>5, <2>7, ClientLogs, ClientAsks, ClientReads
  <2>8. mishaps \in Seq({"other", "death"})
    BY <2>3 DEF ClientTypeOK
  <2>9. \A kind : mishaps' = Append(mishaps, kind) => Happened(kind)'
    <3> SUFFICES ASSUME NEW kind, mishaps' = Append(mishaps, kind)
                 PROVE  Len(mishaps') \in 1 .. Len(mishaps') /\ mishaps'[Len(mishaps')] = kind
      BY DEF Happened, Contains
    <3> QED BY <2>8
  <2>10. ~ ClientDie
    BY <1>2, <2>9 DEF ClientDie, Mishap, Alone
  <2>11. ASSUME UNCHANGED <<memory, pipe, reply, client, sent, answers, Rows>>,
                UNCHANGED event_log \/ Happened("other")'
         PROVE  Dialogue' /\ Counted' /\ (~ Happened("other")' => OnlyEntries')
    <3>1. Ahead' = Ahead /\ Stream' = Stream
      BY <2>11 DEF Ahead, Hand, Stream, memory
    <3>2. Dialogue' /\ Counted'
      BY <3>1, <2>3, <2>11, KeepsDialogue, KeepsCounts DEF memory
    <3>3. UNCHANGED event_log /\ OnlyEntries => OnlyEntries'
      BY <3>1, <2>11, KeepsRows DEF memory
    <3> QED BY <3>2, <3>3, <2>2, <2>3, <2>11
  <2>12. CASE EmitEvent
    BY <2>9, <2>11, <2>12 DEF EmitEvent, Mishap
  <2>13. CASE UNCHANGED <<memory, pipe, event_log, reply, clientVars>>
    BY <2>11, <2>13 DEF clientVars
  <2> QED BY <2>5, <2>6, <2>7, <2>10, <2>12, <2>13 DEF Next, vars
<1> QED BY <1>1, <1>2 DEF IndexInv, AloneInv

(* One logger alone, a client that waits for its answers, queues, batches  *)
(* and a pipe of any size: every index a client was told is ahead of what    *)
(* it had sent by the same number, and if nobody else writes to the table  *)
(* it is the row of the last entry it had sent.                            *)
THEOREM IndexesAreRows == Spec => []IndexIsTrue
<1>1. ClientTypeOK /\ (Pids # {} => AloneInv) /\ LoggersInv => IndexIsTrue
  <2> SUFFICES ASSUME ClientTypeOK, Pids # {} => AloneInv, LoggersInv PROVE IndexIsTrue
    OBVIOUS
  <2>0. answers \in Seq(Answers) /\ Len(answers) \in Nat /\ Rows \in Nat
    BY DEF ClientTypeOK
  <2>1. \A i \in 1 .. Len(answers) : answers[i].index \in Nat /\ answers[i].sent \in Nat
    <3>1. \A i \in 1 .. Len(answers) : answers[i] \in Answers
      BY <2>0
    <3> QED BY <3>1 DEF Answers
  <2>2. CASE answers = <<>>
    BY <2>2 DEF IndexIsTrue, IndexIsARow, ClientAssertion
  <2>3. CASE answers # <<>>
    <3>1. Pids # {} /\ AloneInv
      BY <2>3 DEF ClientTypeOK
    <3>2. 1 \in Pids
      BY <3>1, ServiceAssumption DEF Pids
    <3>3. Ahead \in Int /\ Written(1) \in Nat
      <4>1. Index[1] \in Nat /\ Len(received[1]) \in Nat /\ Len(Hand(1)) \in Nat
        BY <3>2, OnlyLoggerType
      <4> QED BY <4>1, <3>2, HandType DEF Ahead
    <3>4. ClientAssertion
      <4> SUFFICES ASSUME Alone, NEW i \in 1 .. Len(answers) - 1
                   PROVE  answers[i + 1].index - answers[i].index = answers[i + 1].sent - answers[i].sent
        BY DEF ClientAssertion, Alone
      <4>1. i \in 1 .. Len(answers) /\ i + 1 \in 1 .. Len(answers)
        BY <2>0
      <4>2. /\ answers[i].index - answers[i].sent = Ahead
            /\ answers[i + 1].index - answers[i + 1].sent = Ahead
        BY <4>1, <3>1 DEF AloneInv, Counted
      <4> QED BY <4>1, <4>2, <2>1, <3>3, SMTT(30)
    <3>5. IndexIsARow
      <4> SUFFICES ASSUME Alone, ~ Happened("other"), NEW i \in 1 .. Len(answers)
                   PROVE  /\ answers[i].index = Rows + answers[i].sent
                          /\ answers[i].index <= Len(event_log) =>
                                \A n \in 1 .. answers[i].sent : event_log[Rows + n].entry = n
        BY DEF IndexIsARow, Alone
      <4>1. Counted /\ OnlyEntries
        BY <3>1 DEF AloneInv
      <4>2. Ahead = Rows
        BY <4>1, <2>3 DEF Counted, OnlyEntries
      <4>3. answers[i].index - answers[i].sent = Rows
        BY <4>1, <4>2 DEF Counted
      <4>4. answers[i].index = Rows + answers[i].sent
        BY <4>3, <2>0, <2>1
      <4>5. ASSUME answers[i].index <= Len(event_log), NEW n \in 1 .. answers[i].sent
            PROVE  event_log[Rows + n].entry = n
        <5>1. Len(event_log) = Rows + Written(1)
          BY <4>1 DEF OnlyEntries
        <5>2. n \in 1 .. Written(1)
          BY <5>1, <4>4, <4>5, <2>0, <2>1, <3>3
        <5> QED BY <5>2, <4>1 DEF OnlyEntries
      <4> QED BY <4>4, <4>5
    <3> QED BY <3>4, <3>5 DEF IndexIsTrue
  <2> QED BY <2>2, <2>3
<1>2. ServiceInv /\ LoggersInv /\ IndexInv /\ [Next]_vars => IndexInv'
  BY IndexStep
<1>3. Spec => []IndexInv
  BY <1>2, AloneInitInv, ServiceInvariant, LoggersInvariant, PTL DEF Spec
<1> QED BY <1>1, <1>3, LoggersInvariant, PTL DEF IndexInv
=============================================================================
