------------------------------ MODULE Executor ------------------------------
(***************************************************************************)
(* The executor (executor/executor.go): a web server around the reactors   *)
(* of the system under test, which the scheduler calls.  Of a message or a *)
(* timer it records, as a row of execution_step, how the heap of the       *)
(* reactor changed and which lines the reactor logged.                     *)
(*                                                                         *)
(* A reactor may do anything: its heap is a function of its fields, and a  *)
(* step leaves any heap behind.  Null is a field that is there and has the *)
(* value null.  A reactor logs one line whenever it is called, named after *)
(* the logical time, or InitLine.                                          *)
(***************************************************************************)
EXTENDS Scheduler

CONSTANTS
    Fields,        \* fields of the heap of a reactor
    Values,        \* what they can be, other than null
    InitialHeap,   \* a new reactor; also what deployment information says
    MaxSilent      \* bound: reactors that Init and ticks change

Null == "null"
InitLine == 0
HeapStates == [Fields -> Values \cup {Null}]

ASSUME ExecutorAssumption ==
    Null \notin Values /\ InitialHeap \in HeapStates /\ MaxSilent \in Nat

VARIABLES
    heap,       \* reactor -> its heap
    buffer,     \* reactor -> the lines in its LogWriter
    steps,      \* the rows of execution_step
    silent      \* history: reactors whose heap changed without a row

executorVars == <<heap, buffer, steps, silent>>

ExecutorInit ==
    /\ heap = [r \in Components |-> InitialHeap]
    /\ buffer = [r \in Components |-> <<>>]
    /\ steps = <<>> /\ silent = {}

(* Mutant: the whole heap, where it is not null. *)
jsonDiffNotNull(old, new) ==
    [f \in {g \in Fields : old[g] # new[g] /\ new[g] # Null} |-> new[f]]

(* CreateMergePatch: the fields that changed. *)
jsonDiff(old, new) == [f \in {g \in Fields : old[g] # new[g]} |-> new[f]]

(* Mutant: the lines stay in the buffer. *)
UpdateKeeps(r, lines) == buffer' = [buffer EXCEPT ![r] = lines]

(* The component update of Deploy takes the lines out of the buffer. *)
ComponentUpdate(r, lines) == buffer' = [buffer EXCEPT ![r] = <<>>]

(* Receive or Timer of a reactor, between two dumps of its heap. *)
Recorded(r, time) == \E new \in HeapStates :
    LET lines == Append(buffer[r], time)
    IN  /\ heap' = [heap EXCEPT ![r] = new]
        /\ steps' = Append(steps, [reactor |-> r, time |-> time, lines |-> lines,
                                   diff |-> jsonDiff(heap[r], new)])
        /\ ComponentUpdate(r, lines)
        /\ UNCHANGED silent

(* The handlers of a message and of a timer. *)
handler(e, time) == e.from # e.to /\ Recorded(e.to, time)

handleTimer(e, time) == e.from = e.to /\ Recorded(e.to, time)

(* What nobody records: nothing, or the change of one reactor. *)
Silently ==
    \/ UNCHANGED <<heap, silent>>
    \/ \E r \in Components, new \in HeapStates :
          /\ new # heap[r] /\ Cardinality(silent) < MaxSilent
          /\ heap' = [heap EXCEPT ![r] = new]
          /\ silent' = silent \cup {r}

(* A tick of every reactor.  The lines are taken and not used, and no row  *)
(* is written.                                                             *)
handleTick ==
    /\ Silently
    /\ buffer' = [r \in Components |-> <<>>]
    /\ UNCHANGED steps

(* Init of every reactor; the lines stay in the buffer. *)
handleInits ==
    /\ Silently
    /\ buffer' = [r \in Components |-> Append(buffer[r], InitLine)]
    /\ UNCHANGED steps

(* Executor.Reset builds the reactors anew and keeps the buffers. *)
ExecutorReset ==
    /\ heap' = [r \in Components |-> InitialHeap]
    /\ steps' = <<>> /\ silent' = {}
    /\ UNCHANGED buffer
=============================================================================
