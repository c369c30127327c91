------------------------------ MODULE Debugger ------------------------------
(***************************************************************************)
(* The debugger (debugger): shows a run, event by event, from what the     *)
(* scheduler and the executor have left in the database.  This module      *)
(* composes the three.                                                     *)
(*                                                                         *)
(* A message from a component to itself is taken to be a timer.  The       *)
(* widgets are external; a table calls the debugger back with the row that *)
(* is selected, be there such a row or not.                                *)
(***************************************************************************)
EXTENDS Executor

VARIABLES
    view,            \* "closed", "open" or "panicked"
    activeRow,       \* row of the table of events, from 1 on
    activeReactor,   \* the reactor whose heap is shown
    truth            \* history: for each event of the trace, the heaps after it

debuggerVars == <<view, activeRow, activeReactor>>
allVars == <<vars, executorVars, debuggerVars, truth>>

DebuggerInit ==
    /\ Init /\ ExecutorInit
    /\ view = "closed" /\ activeRow = 1
    /\ activeReactor \in Components
    /\ truth = <<>>

---------------------------------------------------------------------------
(* A run: the scheduler calls the executor.                                *)

(* The heaps at the events that this step adds to the trace: expired       *)
(* requests come first, with the logical time before the step.             *)
Witnessed ==
    truth' = truth \o [i \in 1 .. Len(trace') - Len(trace) |->
                          IF trace'[Len(trace) + i].recv <= logicalClock
                          THEN heap ELSE heap']

RunStep ==
    /\ view = "closed"
    /\ \/ /\ LoadTest \/ CreateRun \/ Run \/ Idle \/ DropOrDelay
          /\ UNCHANGED executorVars
       \/ RegisterExecutor /\ handleInits
       \/ Tick /\ handleTick
       \/ /\ Execute
          /\ \E e \in agenda : IsPeek(e) /\ (\/ handler(e, logicalClock + 1)
                                             \/ handleTimer(e, logicalClock + 1))
    /\ Witnessed
    /\ UNCHANGED debuggerVars

ResetAll ==
    /\ view = "closed" /\ state = "finished"
    /\ Reset /\ ExecutorReset
    /\ truth' = <<>>
    /\ UNCHANGED debuggerVars

---------------------------------------------------------------------------
(* What the debugger reads. *)

DroppedTimer(e) == e.kind = "message" /\ e.from = e.to /\ e.dropped

(* GetNetworkTrace, as indices of the trace: without dropped timers. *)
RowsUpTo[n \in 0 .. Len(trace)] ==
    IF n = 0 THEN <<>>
    ELSE IF DroppedTimer(trace[n]) THEN RowsUpTo[n - 1] ELSE Append(RowsUpTo[n - 1], n)

Rows == RowsUpTo[Len(trace)]

events == [i \in 1 .. Len(Rows) |-> trace[Rows[i]]]

Absent == "absent"

(* MergePatch: null in a patch removes the field. *)
applyDiff(original, diff) ==
    [f \in Fields |-> IF f \notin DOMAIN diff THEN original[f]
                      ELSE IF diff[f] = Null THEN Absent ELSE diff[f]]

(* changeMap: of several rows with the same logical time, the last. *)
ChangesAt(time) ==
    LET at == {k \in 1 .. Len(steps) : steps[k].time = time}
    IN  {steps[k] : k \in {k \in at : \A l \in at : l <= k}}

(* Mutant: the diff is looked up by the number of the row. *)
HeapAfterRow(old, row) ==
    [r \in Components |->
        IF \E hd \in ChangesAt(row) : hd.reactor = r
        THEN applyDiff(old[r], (CHOOSE hd \in ChangesAt(row) : TRUE).diff)
        ELSE old[r]]

HeapAfter(old, row) ==
    [r \in Components |->
        IF \E hd \in ChangesAt(events[row].recv) : hd.reactor = r
        THEN applyDiff(old[r], (CHOOSE hd \in ChangesAt(events[row].recv) : TRUE).diff)
        ELSE old[r]]

(* Heaps: before the first event, and after each one. *)
Heaps[i \in 0 .. Len(events)] ==
    IF i = 0 THEN [r \in Components |-> InitialHeap] ELSE HeapAfter(Heaps[i - 1], i)

(* GetLogMessages *)
LogMessages(r, at) ==
    FlattenSeq([i \in 1 .. Len(steps) |->
                   IF steps[i].reactor = r /\ steps[i].time = at
                   THEN steps[i].lines ELSE <<>>])

(* Mutant: one step too early. *)
CrashesNext(time) == {f.from : f \in {f \in faults : f.kind = "crash" /\ f.at = time + 1}}

(* GetCrashes: the components that crash at a logical time. *)
CrashesAt(time) == {f.from : f \in {f \in faults : f.kind = "crash" /\ f.at = time}}

(* The diagram shows a crash above every event with its logical time. *)
CrashShownAt(r, row) == r \in CrashesAt(events[row].recv)

---------------------------------------------------------------------------
(* The application *)

(* MakeDebugApplication.  The index of the active reactor is looked up     *)
(* before the names are sorted, so that it can be that of any reactor.     *)
Open ==
    /\ view = "closed" /\ state = "finished"
    /\ view' = IF events = <<>> THEN "panicked" ELSE "open"
    /\ activeReactor' \in Components
    /\ activeRow' = 1
    /\ UNCHANGED <<vars, executorVars, truth>>

setReactor(r) == activeReactor' = IF r \in Components THEN r ELSE activeReactor

(* setRow: there is no upper limit, and a row too far down is a panic. *)
setRow(row) ==
    LET nrow == IF row < 1 THEN 1 ELSE row
    IN  /\ activeRow' = nrow
        /\ IF nrow <= Len(events)
           THEN setReactor(events[nrow].to) /\ UNCHANGED view
           ELSE view' = "panicked" /\ UNCHANGED activeReactor

SelectRow ==
    /\ view = "open"
    /\ \E row \in 1 .. Len(events) : setRow(row)
    /\ UNCHANGED <<vars, executorVars, truth>>

SelectReactor ==
    /\ view = "open"
    /\ activeReactor' \in Components
    /\ UNCHANGED <<vars, executorVars, view, activeRow, truth>>

(* Mutant: the logical time of the receipt. *)
SenderRowRecv(event) == event.recv

(* goToFrom: the row with the number of the sender's logical time. *)
SenderRow(event) == event.sent

goToFrom ==
    /\ view = "open"
    /\ setRow(SenderRow(events[activeRow]))
    /\ UNCHANGED <<vars, executorVars, truth>>

sentEventsAtActive == {i \in 1 .. Len(events) : events[i].sent = events[activeRow].recv}

(* A message is selected from the table of sent messages. *)
ReceiverRow(event) == event.recv

SelectMessage ==
    /\ view = "open"
    /\ \E i \in sentEventsAtActive : setRow(ReceiverRow(events[i]))
    /\ UNCHANGED <<vars, executorVars, truth>>

(* The row below the last message, or any row when there is none: the      *)
(* callback cuts the row down to the number of messages, one too many.     *)
SelectNoMessage ==
    /\ view = "open"
    /\ view' = "panicked"
    /\ UNCHANGED <<vars, executorVars, activeRow, activeReactor, truth>>

SelectSent == SelectMessage \/ SelectNoMessage

---------------------------------------------------------------------------
DebuggerNext ==
    \/ RunStep \/ ResetAll
    \/ Open \/ SelectRow \/ SelectReactor \/ goToFrom \/ SelectSent

DebuggerSpec == DebuggerInit /\ [][DebuggerNext]_allVars

---------------------------------------------------------------------------
(* What should hold. *)

(* The rows of execution_step are in the order of their logical times, the *)
(* history covers the trace, and the debugger shows a row that exists.     *)
DebuggerTypeOK ==
    /\ heap \in [Components -> HeapStates]
    /\ \A k \in 1 .. Len(steps) - 1 : steps[k].time < steps[k + 1].time
    /\ Len(truth) = Len(trace)
    /\ view \in {"closed", "open", "panicked"}
    /\ view = "open" => activeRow \in 1 .. Len(events)

(* The database of a finished run does not change while it is looked at. *)
Over == state = "finished" /\ view = "closed"

Same(shown, real) ==
    \A f \in Fields : shown[f] = real[f] \/ (shown[f] = Absent /\ real[f] = Null)

(* The heaps that the debugger puts together from the recorded changes are *)
(* the ones the reactors really had after each event (null and absent are  *)
(* not told apart): with messages dropped, requests delayed and expired,   *)
(* several events at one logical time, crashes and ticks; except for       *)
(* reactors that changed in Init or at a tick, which nobody records.       *)
HeapsAreTrue ==
    Over =>
        \A i \in 1 .. Len(events), r \in Components \ silent :
            Same(Heaps[i][r], truth[Rows[i]][r])

(* The log that is shown for an event has the line of that step at the     *)
(* end, and before it at most lines of Init, of this run or an earlier     *)
(* one; an event that was not delivered shows none but those of the event  *)
(* that was, at the same logical time.                                     *)
LinesAreOfTheStep ==
    Over =>
        \A i \in 1 .. Len(events) :
            LET r == events[i].to
                shown == LogMessages(r, events[i].recv)
                delivered == events[i].kind \in {"invoke", "message"} /\ ~ events[i].dropped
            IN  /\ delivered => /\ shown # <<>> /\ Last(shown) = events[i].recv
                                /\ ToSet(Front(shown)) \subseteq {InitLine}
                /\ ~ delivered /\ shown # <<>> =>
                     \E j \in 1 .. i - 1 : events[j].recv = events[i].recv /\ events[j].to = r

(* A crash that the diagram shows is below everything its component has    *)
(* handled and above everything it has missed.                             *)
CrashesShownInPlace ==
    Over =>
        \A i, j \in 1 .. Len(events) :
            LET r == events[j].to
            IN  r \in Components /\ CrashShownAt(r, i) /\ events[j].kind # "info" =>
                    IF events[j].dropped /\ events[j].recv > events[i].recv
                    THEN i < j
                    ELSE ~ events[j].dropped => j < i

(* The logical time is the number of the row of the event that was executed  *)
(* then.                                                                     *)
TimeIsRow(time) ==
    /\ time \in 1 .. Len(events)
    /\ events[time].recv = time /\ ~ events[time].dropped
    /\ events[time].kind \in {"invoke", "message"}

(* Logical times serve as numbers of rows, which they need not be: dropped  *)
(* timers and ticks have no row, requests that expire or are dropped have   *)
(* one more.  A key makes an open debugger panic only when a logical time   *)
(* is beyond the last row, or when it selects a message where the table of  *)
(* sent messages has none; and "f" leads from a message to the event its    *)
(* sender was handling when that event's logical time is the number of its  *)
(* row.                                                                     *)
NavigationIsSafe ==
    [][/\ view = "open" /\ view' = "panicked" =>
            SelectNoMessage \/ \E i \in 1 .. Len(events) : events[i].recv > Len(events)
       /\ /\ goToFrom /\ events[activeRow].kind = "message"
          /\ TimeIsRow(events[activeRow].sent)
          => events[activeRow'].to = events[activeRow].from]_allVars

(* Rows, heaps and times of a run that is over agree with what happened. *)
DebuggerInv == DebuggerTypeOK /\ HeapsAreTrue
=============================================================================
