------------------------------- MODULE Logger -------------------------------
(***************************************************************************)
(* The logger (logger/lib.go): a service that reads lines from a named     *)
(* pipe, hands log entries to a worker through a bounded queue, and counts *)
(* them; the worker writes them to the table event_log in batches.  A      *)
(* client may ask for the index, the number of the row its last entry will *)
(* have, through a named pipe of its own.                                  *)
(*                                                                         *)
(* Every running process of the service (module Service) is a logger; all  *)
(* of them read the same pipe.  The client is cmd/test_client.  Others     *)
(* write to event_log too (lib.EmitEvent).  An entry is its number; that   *)
(* its line, or the entry itself, cannot be parsed shows when it is parsed,*)
(* once.  Lines are whole: those that two loggers tear between them are    *)
(* left out.                                                               *)
(***************************************************************************)
EXTENDS Service, SequencesExt

CONSTANTS
    QUEUE_SIZE, BUFFER_LEN,
    PipeSize,      \* lines the pipe of the logger holds
    InitialRows,   \* numbers of rows event_log may have at the beginning
    MaxEntries,    \* bound: log entries the client sends
    MaxIndexes,    \* bound: questions for the index
    MaxMishaps     \* bound: rows by others, deaths of clients

ASSUME LoggerAssumption ==
    /\ QUEUE_SIZE \in Nat \ {0} /\ BUFFER_LEN \in Nat \ {0}
    /\ PipeSize \in Nat \ {0} /\ InitialRows \subseteq Nat
    /\ MaxEntries \in Nat /\ MaxIndexes \in Nat /\ MaxMishaps \in Nat

VARIABLES
    Queue, buffer, Index,  \* of each process
    main,                  \* what the main thread of each process is doing
    line,                  \* the entry it holds while the queue is full
    pipe,                  \* the lines in detsys-logger
    ahead,                 \* the lines each process has read ahead
    event_log,             \* the rows: by whom, and what
    Rows,                  \* how many rows there were at the beginning
    client,                \* the test client: "running" or "waiting"
    reply,                 \* the lines in detsys-test_client
    sent, indexes,         \* the client's counts of entries and questions
    received,              \* history: the entries each process has read
    answers,               \* history: answers to the client
    mishaps                \* history: kinds of mishaps, in order

memory == <<Queue, buffer, Index, main, line, ahead, received>>
clientVars == <<client, sent, indexes, answers, mishaps, Rows>>
vars == <<service, memory, pipe, event_log, reply, clientVars>>

Log(n) == [kind |-> "log", entry |-> n]
IndexLine == [kind |-> "index", entry |-> 0]
Other == [by |-> NoPid, entry |-> 0]

Init ==
    /\ ServiceInit
    /\ Queue = [p \in Pids |-> <<>>] /\ buffer = [p \in Pids |-> <<>>]
    /\ Index = [p \in Pids |-> 0]
    /\ main = [p \in Pids |-> "init"] /\ line = [p \in Pids |-> 0]
    /\ pipe = <<>> /\ ahead = [p \in Pids |-> <<>>]
    /\ Rows \in InitialRows /\ event_log = [i \in 1 .. Rows |-> Other]
    /\ client = "running" /\ reply = <<>>
    /\ sent = 0 /\ indexes = 0 /\ answers = <<>> /\ mishaps = <<>>
    /\ received = [p \in Pids |-> <<>>]

---------------------------------------------------------------------------
(* Mutant: the index counts from 0. *)
getNoIndex == 0

(* max(rowid) of event_log *)
getHighestIndex == Len(event_log)

(* Logger.Init; an empty table has no highest index, and ends the process. *)
LoggerInit(p) ==
    /\ p \in Running /\ main[p] = "init"
    /\ \/ /\ event_log = <<>>
          /\ Die(p)
          /\ UNCHANGED <<Index, main>>
       \/ /\ event_log # <<>>
          /\ Index' = [Index EXCEPT ![p] = getHighestIndex]
          /\ main' = [main EXCEPT ![p] = "read"]
          /\ UNCHANGED process
    /\ UNCHANGED <<shellVars, ahead, Queue, buffer, line,
                   received, pipe, event_log, reply, clientVars>>

enqueue(p, entry) ==
    /\ Queue' = [Queue EXCEPT ![p] = Append(@, entry)]
    /\ Index' = [Index EXCEPT ![p] = @ + 1]

HasRoom(p) == Len(Queue[p]) < QUEUE_SIZE

(* bufio reads a block of lines, which are lost when the process dies. *)
FillBuffer(p) ==
    /\ p \in Running /\ main[p] = "read" /\ ahead[p] = <<>> /\ pipe # <<>>
    /\ \E n \in 1 .. Len(pipe) :
          /\ ahead' = [ahead EXCEPT ![p] = SubSeq(pipe, 1, n)]
          /\ pipe' = SubSeq(pipe, n + 1, Len(pipe))
    /\ UNCHANGED <<service, Queue, buffer, Index, main, line, received, event_log, reply,
                   clientVars>>

Receive(p, l) ==
    \/ /\ l.kind = "index"
       /\ main' = [main EXCEPT ![p] = "index"]
       /\ UNCHANGED <<Queue, Index, line, received>>
    \/ /\ l.kind = "log" /\ HasRoom(p)
       /\ enqueue(p, l.entry)
       /\ received' = [received EXCEPT ![p] = Append(@, l.entry)]
       /\ UNCHANGED <<main, line>>
    \/ /\ l.kind = "log" /\ ~ HasRoom(p)
       /\ main' = [main EXCEPT ![p] = "blocked"]
       /\ line' = [line EXCEPT ![p] = l.entry]
       /\ received' = [received EXCEPT ![p] = Append(@, l.entry)]
       /\ UNCHANGED <<Queue, Index>>

(* DeployReadOnlyPipe: the next line is given to Receive; one without its  *)
(* fields or of no known type ends the process.                            *)
ReadLine(p) ==
    /\ p \in Running /\ main[p] = "read" /\ ahead[p] # <<>>
    /\ \/ /\ Head(ahead[p]).kind = "log"
          /\ Die(p)
          /\ UNCHANGED <<Queue, Index, main, line, ahead, received>>
       \/ /\ Receive(p, Head(ahead[p]))
          /\ ahead' = [ahead EXCEPT ![p] = Tail(@)]
          /\ UNCHANGED process
    /\ UNCHANGED <<shellVars, buffer, pipe, event_log, reply, clientVars>>

(* The queue was full: the main thread waits for the worker. *)
Unblock(p) ==
    /\ p \in Running /\ main[p] = "blocked" /\ HasRoom(p)
    /\ enqueue(p, line[p])
    /\ main' = [main EXCEPT ![p] = "read"]
    /\ UNCHANGED <<service, buffer, line, ahead, received, pipe, event_log, reply, clientVars>>

(* writeIndex opens the pipe of the client, which waits for a reader.      *)
writeIndex(p) ==
    /\ p \in Running /\ main[p] = "index"
    /\ client = "waiting"
    /\ reply' = Append(reply, [by |-> p, index |-> Index[p]])
    /\ main' = [main EXCEPT ![p] = "read"]
    /\ UNCHANGED <<service, Queue, buffer, Index, line, ahead, received, pipe, event_log,
                   clientVars>>

---------------------------------------------------------------------------
(* The worker *)

(* The queue's entry joins the batch, if the batch is not full. *)
dequeue(p) ==
    /\ p \in Running /\ Len(buffer[p]) < BUFFER_LEN /\ Queue[p] # <<>>
    /\ buffer' = [buffer EXCEPT ![p] = Append(@, Head(Queue[p]))]
    /\ Queue' = [Queue EXCEPT ![p] = Tail(@)]
    /\ UNCHANGED <<service, Index, main, line, ahead, received, pipe, event_log, reply,
                   clientVars>>

(* Mutant: the batch is written without the last entry. *)
CommitShort(p) ==
    /\ event_log' = event_log \o [i \in 1 .. Len(buffer[p]) - 1 |->
                                      [by |-> p, entry |-> buffer[p][i]]]
    /\ buffer' = [buffer EXCEPT ![p] = <<>>]
    /\ UNCHANGED process

(* One transaction; an entry that parse cannot split, and any error of the *)
(* database, end the process.                                              *)
commit(p) ==
    \/ Die(p) /\ UNCHANGED <<event_log, buffer>>
    \/ /\ event_log' = event_log \o [i \in 1 .. Len(buffer[p]) |->
                                         [by |-> p, entry |-> buffer[p][i]]]
       /\ buffer' = [buffer EXCEPT ![p] = <<>>]
       /\ UNCHANGED process

(* Mutant: there is no time-out. *)
CommitFull(p) ==
    /\ p \in Running /\ Len(buffer[p]) >= BUFFER_LEN
    /\ commit(p)
    /\ UNCHANGED <<shellVars, ahead, Queue, Index, main, line,
                   received, pipe, reply, clientVars>>

(* The batch is full, or nothing came for 200 ms.  Waiting for the first   *)
(* entry of a batch has no time-out.                                       *)
CommitBatch(p) ==
    /\ p \in Running /\ buffer[p] # <<>>
    /\ commit(p)
    /\ UNCHANGED <<shellVars, ahead, Queue, Index, main, line,
                   received, pipe, reply, clientVars>>

---------------------------------------------------------------------------
(* The test client and the other writers *)

Mishap(kind) == Len(mishaps) < MaxMishaps /\ mishaps' = Append(mishaps, kind)

ClientLog ==
    /\ client = "running" /\ sent < MaxEntries
    /\ Running # {} /\ Len(pipe) < PipeSize
    /\ pipe' = Append(pipe, Log(sent + 1))
    /\ sent' = sent + 1
    /\ UNCHANGED <<service, memory, event_log, reply, client, indexes, answers, mishaps, Rows>>

(* index: open the pipe for the answer, ask, and wait. *)
ClientAsk ==
    /\ client = "running" /\ indexes < MaxIndexes
    /\ Running # {} /\ Len(pipe) < PipeSize
    /\ pipe' = Append(pipe, IndexLine)
    /\ client' = "waiting"
    /\ indexes' = indexes + 1
    /\ UNCHANGED <<service, memory, event_log, reply, sent, answers, mishaps, Rows>>

ClientRead ==
    /\ client = "waiting" /\ reply # <<>>
    /\ answers' = Append(answers, [by |-> Head(reply).by, index |-> Head(reply).index,
                                   sent |-> sent])
    /\ reply' = <<>>
    /\ client' = "running"
    /\ UNCHANGED <<service, memory, pipe, event_log, sent, indexes, mishaps, Rows>>

(* The client is stopped while it waits, and run again. *)
ClientDie ==
    /\ client = "waiting"
    /\ Mishap("death")
    /\ client' = "running"
    /\ reply' = <<>>
    /\ UNCHANGED <<service, memory, pipe, event_log, sent, indexes, answers, Rows>>

(* lib.EmitEvent, of an executor *)
EmitEvent ==
    /\ Mishap("other")
    /\ event_log' = Append(event_log, Other)
    /\ UNCHANGED <<service, memory, pipe, reply, client, sent, indexes, answers, Rows>>

Next ==
    \/ ServiceNext /\ UNCHANGED <<memory, pipe, event_log, reply, clientVars>>
    \/ \E p \in Pids :
          \/ LoggerInit(p) \/ FillBuffer(p) \/ ReadLine(p) \/ Unblock(p) \/ writeIndex(p)
          \/ dequeue(p) \/ CommitBatch(p)
    \/ ClientLog \/ ClientAsk \/ ClientRead \/ ClientDie
    \/ EmitEvent

(* The goroutine of the worker is scheduled. *)
Fairness == \A p \in Pids : WF_vars(dequeue(p)) /\ WF_vars(CommitBatch(p))

Spec == Init /\ [][Next]_vars
FairSpec == Spec /\ Fairness

---------------------------------------------------------------------------
(* What should hold. *)

(* The queue and the batch keep within their sizes, and a pid in the file  *)
(* is one of a process that was started.                                   *)
TypeOK ==
    /\ pidFile \in {NoPid, BadPid} \cup {p \in Pids : process[p] # "none"}
    /\ \A p \in Pids :
          /\ Len(Queue[p]) <= QUEUE_SIZE /\ Len(buffer[p]) <= BUFFER_LEN
          /\ main[p] \in {"init", "read", "blocked", "index"}
          /\ Index[p] \in Nat
    /\ Len(pipe) <= PipeSize
    /\ client \in {"running", "waiting"}

(* The rows a logger has written, and how many there are up to one of them. *)
RowsOf(p) == {i \in DOMAIN event_log : event_log[i].by = p}
Nth(p, i) == Cardinality({j \in RowsOf(p) : j <= i})

(* The entries a logger has read and not written: its batch, its queue and *)
(* the one in its hands.                                                   *)
Unwritten(p) ==
    buffer[p] \o Queue[p] \o (IF main[p] = "blocked" THEN <<line[p]>> ELSE <<>>)

(* What a logger has taken out of its block is in the table, in its batch, *)
(* in its queue or in its hands, once and in order, through full queues,   *)
(* time-outs, failed transactions and other loggers on the same pipe; when *)
(* it dies it loses an end of it, and the rest of its block.               *)
NothingLostButByDeath ==
    \A p \in Pids :
        LET written == Cardinality(RowsOf(p))
        IN  /\ received[p] = SubSeq(received[p], 1, written) \o Unwritten(p)
            /\ \A i \in RowsOf(p) : event_log[i].entry = received[p][Nth(p, i)]

Happened(kind) == Contains(mishaps, kind)

OneLogger == \A p \in Pids \ {1} : process[p] = "none"

(* A logger that is the only one to write: a client that waits until the   *)
(* table has as many rows as the index it was told finds there every entry *)
(* it sent before it asked (old_logger/main.go: "wait until the index is   *)
(* persisted in the db and then perform the read query").                  *)
IndexIsARow ==
    OneLogger /\ ~ Happened("other") /\ ~ Happened("death") =>
        \A i \in 1 .. Len(answers) :
            LET a == answers[i]
            IN  /\ a.index = Rows + a.sent
                /\ a.index <= Len(event_log) =>
                      \A n \in 1 .. a.sent : event_log[Rows + n].entry = n

(* The assertion of the test client: an index is larger than the last one  *)
(* by the number of entries sent in between, if the same logger answered   *)
(* both times, it was the only one, and no client died while it waited.    *)
ClientAssertion ==
    OneLogger /\ ~ Happened("death") =>
        \A i \in 1 .. Len(answers) - 1 :
            answers[i + 1].index - answers[i].index = answers[i + 1].sent - answers[i].sent

(* Whatever a logger has taken into its queue is in the table in the end,  *)
(* unless the logger dies: no entry waits for a full batch for ever.       *)
EverythingPersisted ==
    \A p \in Pids : <>[](p \in Running => Queue[p] = <<>> /\ buffer[p] = <<>>)

(* A logger whose queue and batch keep within their sizes loses nothing    *)
(* but by its death.                                                       *)
LoggerInv == TypeOK /\ NothingLostButByDeath

(* The index is the row of the last entry, and from one question to the    *)
(* next it grows by the number of entries sent.                            *)
IndexIsTrue == IndexIsARow /\ ClientAssertion
=============================================================================
