----------------------------- MODULE EventLoop -----------------------------
(***************************************************************************)
(* The executor as an event loop (executor-event-loop): one goroutine      *)
(* accepts connections with requests of the scheduler, one accepts         *)
(* connections with commands of administrators, and the main loop takes    *)
(* from the unbuffered channels of both, one item at a time.  Answers go   *)
(* to the scheduler through a connection dialled for each of them.         *)
(*                                                                         *)
(* A reactor is the sequence of inputs it has handled since it was built;  *)
(* a request is numbered by its correlation id.  The scheduler (an event   *)
(* loop of runtime-prototype with a Lamport clock) and the administrators  *)
(* are external: administrator a writes the lines script[a], at once.      *)
(***************************************************************************)
EXTENDS Integers, Sequences, FiniteSets, SequencesExt

CONSTANTS
    Reactors,       \* names of the reactors
    Kinds,          \* kinds of requests the scheduler sends
    Sessions,       \* what an administrator may write: sequences of lines
    MaxRequests,    \* bound: requests of the scheduler
    MaxAdmins       \* bound: connections of administrators

(* Requests that are never answered: with a line that is too long for the   *)
(* scanner, with one that is no JSON, and with a kind, a fault or a payload *)
(* that the executor does not know.                                        *)
Broken == {"long", "garbled", "unhandled"}

Commands == {"AdminQuit", "AdminDumpLog", "AdminResetLog", "AdminResetReactors"}

ASSUME EventLoopAssumption ==
    /\ Kinds \subseteq {"message", "timer", "init", "restart"} \cup Broken
    /\ Sessions \subseteq Seq(Commands \cup {"unknown"})
    /\ MaxRequests \in Nat /\ MaxAdmins \in Nat

Admins == 1 .. MaxAdmins

VARIABLES
    LogicalTime, Log,   \* of the event loop
    inputs,             \* reactor -> the requests handled since it was built
    status,             \* "running", "quit" or "panicked"
    socket,             \* requests in executor.sock, in the order of arrival
    offered,            \* the request on the channel, at most one
    up,                 \* external: does the scheduler listen?
    clock,              \* external: its logical time
    requests,           \* external: what it has sent
    replies,            \* what became of the requests, in the order of their handling
    connection,         \* administrator -> "none", "waiting", "accepted", "over"
    lines,              \* administrator -> the lines that are not yet scanned
    adminOffered,       \* the command on the admin channel, at most one
    closed,             \* administrator -> is the connection closed, by either end?
    answers,            \* administrator -> the answers it has received
    script,             \* administrator -> what it writes
    resetAmid           \* history: was the log reset with a request under way?

loopVars == <<LogicalTime, Log, inputs, status>>
schedulerVars == <<socket, up, clock, requests>>
adminVars == <<connection, lines, closed, answers, script>>
vars == <<loopVars, offered, schedulerVars, replies, adminVars, adminOffered, resetAmid>>

Init ==
    /\ LogicalTime = 0 /\ Log = <<>> /\ status = "running"
    /\ inputs = [r \in Reactors |-> <<>>]
    /\ socket = <<>> /\ offered = <<>>
    /\ up = TRUE /\ clock = 0 /\ requests = <<>> /\ replies = <<>>
    /\ script \in [Admins -> Sessions] /\ lines = script
    /\ adminOffered = <<>>
    /\ connection = [a \in Admins |-> "none"]
    /\ closed = [a \in Admins |-> FALSE]
    /\ answers = [a \in Admins |-> <<>>]
    /\ resetAmid = FALSE

---------------------------------------------------------------------------
(* The scheduler *)

(* An init is for all reactors, and a broken request for none of them. *)
SchedulerSend == \E k \in Kinds, r \in Reactors :
    /\ k \in {"init"} \cup Broken => r = CHOOSE q \in Reactors : TRUE
    /\ up /\ status = "running" /\ Len(requests) < MaxRequests
    /\ LET request == [kind |-> k, to |-> r, id |-> Len(requests) + 1, time |-> clock + 1]
       IN  /\ requests' = Append(requests, request)
           /\ socket' = Append(socket, request)
    /\ clock' = clock + 1
    /\ UNCHANGED <<loopVars, offered, up, replies, adminVars, adminOffered, resetAmid>>

SchedulerStop ==
    /\ up /\ Len(requests) = MaxRequests
    /\ up' = FALSE
    /\ UNCHANGED <<loopVars, offered, socket, clock, requests, replies, adminVars,
                   adminOffered, resetAmid>>

---------------------------------------------------------------------------
(* The goroutines.  Each blocks until the main loop takes what it offers.  *)

(* CommandTransport.findIncoming: a request comes on a connection of its    *)
(* own.  A line over the scanner's limit ends the connection, silently; one *)
(* that is no JSON ends the program.                                       *)
findIncoming ==
    /\ status = "running" /\ socket # <<>> /\ offered = <<>>
    /\ socket' = Tail(socket)
    /\ LET request == Head(socket)
       IN  \/ /\ request.kind \notin {"long", "garbled"}
              /\ offered' = <<request>> /\ UNCHANGED <<status, replies>>
           \/ /\ request.kind = "long"
              /\ replies' = Append(replies, [id |-> request.id, time |-> 0, fate |-> "skipped"])
              /\ UNCHANGED <<status, offered>>
           \/ /\ request.kind = "garbled"
              /\ status' = "panicked" /\ UNCHANGED <<offered, replies>>
    /\ UNCHANGED <<LogicalTime, Log, inputs, up, clock, requests, adminVars, adminOffered,
                   resetAmid>>

(* An administrator connects, and hangs up when tired of waiting. *)
Connect(a) ==
    /\ status = "running" /\ connection[a] = "none"
    /\ \A b \in 1 .. a - 1 : connection[b] # "none"
    /\ connection' = [connection EXCEPT ![a] = "waiting"]
    /\ UNCHANGED <<loopVars, offered, schedulerVars, replies, lines, closed, answers,
                   script, adminOffered, resetAmid>>

HangUp(a) ==
    /\ connection[a] = "accepted" /\ lines[a] = <<>> /\ ~ closed[a]
    /\ closed' = [closed EXCEPT ![a] = TRUE]
    /\ UNCHANGED <<loopVars, offered, schedulerVars, replies, connection, lines,
                   answers, script, adminOffered, resetAmid>>

(* AdminInterface.findIncoming: one connection at a time. *)
Accept(a) ==
    /\ status = "running" /\ connection[a] = "waiting"
    /\ \A b \in 1 .. a - 1 : connection[b] = "over"
    /\ connection' = [connection EXCEPT ![a] = "accepted"]
    /\ UNCHANGED <<loopVars, offered, schedulerVars, replies, lines, closed, answers,
                   script, adminOffered, resetAmid>>

(* The next line; a line that is not a command is skipped. *)
Scan(a) ==
    /\ status = "running" /\ connection[a] = "accepted" /\ adminOffered = <<>>
    /\ lines[a] # <<>>
    /\ lines' = [lines EXCEPT ![a] = Tail(@)]
    /\ adminOffered' = IF Head(lines[a]) \in Commands
                       THEN <<[by |-> a, Type |-> Head(lines[a])]>> ELSE <<>>
    /\ UNCHANGED <<loopVars, offered, schedulerVars, replies, connection, closed,
                   answers, script, resetAmid>>

(* A closed connection can still yield the lines that were read with the   *)
(* ones before; Scan and EndOfConnection are both possible.                *)
EndOfConnection(a) ==
    /\ status = "running" /\ connection[a] = "accepted" /\ adminOffered = <<>>
    /\ closed[a]
    /\ connection' = [connection EXCEPT ![a] = "over"]
    /\ UNCHANGED <<loopVars, offered, schedulerVars, replies, lines, closed, answers,
                   script, adminOffered, resetAmid>>

---------------------------------------------------------------------------
(* Lamport's clock *)

Incr(t) == t + 1

Merge(t, other) == (IF t < other THEN other ELSE t) + 1

Entry(Direction, id, t) == [Direction |-> Direction, id |-> id, LogicalTime |-> t]

(* Mutant: the connection stays open. *)
RespondOpen(a, answer) ==
    /\ answers' = IF closed[a] THEN answers ELSE [answers EXCEPT ![a] = Append(@, answer)]
    /\ UNCHANGED closed

(* cmd.Response: write the answer and close the connection. *)
Response(a, answer) ==
    /\ answers' = IF closed[a] THEN answers ELSE [answers EXCEPT ![a] = Append(@, answer)]
    /\ closed' = [closed EXCEPT ![a] = TRUE]

Answer(command) == [to |-> command, log |-> IF command = "AdminDumpLog" THEN Log ELSE <<>>]

(* processAdmin, with the tick of the clock before it.  AdminResetReactors *)
(* does nothing: Executor.Reset has a value receiver, and builds the new   *)
(* reactors for its copy of the executor.                                  *)
processAdmin(command) ==
    /\ LogicalTime' = IF command = "AdminResetLog" THEN 0 ELSE Incr(LogicalTime)
    /\ Log' = IF command = "AdminResetLog" THEN <<>> ELSE Log
    /\ status' = IF command = "AdminQuit" THEN "quit" ELSE status
    /\ UNCHANGED inputs

UnderWay == Len(requests) > Len(replies)

RunAdmin ==
    /\ status = "running" /\ adminOffered # <<>>
    /\ LET cmd == Head(adminOffered)
       IN  /\ processAdmin(cmd.Type)
           /\ Response(cmd.by, Answer(cmd.Type))
           /\ resetAmid' = (resetAmid \/ (cmd.Type = "AdminResetLog" /\ UnderWay))
    /\ adminOffered' = <<>>
    /\ UNCHANGED <<offered, schedulerVars, replies, connection, lines, script>>

(* Mutant: a restart builds every reactor anew. *)
RestartAll(request) ==
    IF request.kind = "init" THEN [r \in Reactors |-> Append(inputs[r], request.id)]
    ELSE IF request.kind = "restart" THEN [r \in Reactors |-> <<>>]
    ELSE [inputs EXCEPT ![request.to] = Append(@, request.id)]

(* processEnvelope *)
processEnvelope(request) ==
    IF request.kind = "init" THEN [r \in Reactors |-> Append(inputs[r], request.id)]
    ELSE IF request.kind = "restart" THEN [inputs EXCEPT ![request.to] = <<>>]
    ELSE [inputs EXCEPT ![request.to] = Append(@, request.id)]

(* What the loop does with the log and the clock around processEnvelope. *)
Logged(request) ==
    LET received == Merge(LogicalTime, request.time)
    IN  /\ LogicalTime' = Incr(received)
        /\ Log' = Log \o <<Entry("LogResumeContinuation", request.id, received),
                           Entry("LogSend", request.id, Incr(received))>>

(* On receiving the reply the scheduler merges the time into its own; the  *)
(* error of a write that fails is ignored.                                 *)
Write(request) ==
    /\ \E fate \in {"received", "lost"} :
          /\ replies' = Append(replies, [id |-> request.id, time |-> LogicalTime', fate |-> fate])
          /\ clock' = IF fate = "received" THEN Merge(clock, LogicalTime') ELSE clock
    /\ UNCHANGED status

(* Mutant: a scheduler that does not listen is ignored. *)
SendOrNot(request) ==
    \/ up /\ Write(request)
    \/ ~ up /\ UNCHANGED <<replies, clock, status>>

(* Send dials the scheduler, and panics if it does not listen. *)
Send(request) ==
    \/ up /\ Write(request)
    \/ ~ up /\ status' = "panicked" /\ UNCHANGED <<replies, clock>>

(* The panics of processEnvelope: the message is in the log, its answer is not. *)
Unhandled(request) ==
    LET received == Merge(LogicalTime, request.time)
    IN  /\ LogicalTime' = received
        /\ Log' = Append(Log, Entry("LogResumeContinuation", request.id, received))
        /\ status' = "panicked"
        /\ UNCHANGED <<inputs, replies, clock>>

RunCommand ==
    /\ status = "running" /\ offered # <<>>
    /\ LET request == Head(offered)
       IN  \/ /\ request.kind # "unhandled"
              /\ inputs' = processEnvelope(request) /\ Logged(request) /\ Send(request)
           \/ request.kind = "unhandled" /\ Unhandled(request)
    /\ offered' = <<>>
    /\ UNCHANGED <<socket, up, requests, adminVars, adminOffered, resetAmid>>

---------------------------------------------------------------------------
Next ==
    \/ SchedulerSend \/ SchedulerStop \/ findIncoming
    \/ \E a \in Admins : \/ Connect(a) \/ HangUp(a)
                         \/ Accept(a) \/ Scan(a) \/ EndOfConnection(a)
    \/ RunAdmin \/ RunCommand

(* The goroutines are scheduled, and select chooses at random between      *)
(* channels that are ready.                                                *)
Fairness == WF_vars(findIncoming) /\ WF_vars(RunCommand)

Spec == Init /\ [][Next]_vars
FairSpec == Spec /\ Fairness

---------------------------------------------------------------------------
(* What should hold. *)

(* A request and a command are on their way at most once; the numbers of   *)
(* the requests in the socket follow one another.                          *)
TypeOK ==
    /\ LogicalTime \in Nat /\ clock \in Nat
    /\ status \in {"running", "quit", "panicked"}
    /\ Len(offered) <= 1 /\ Len(adminOffered) <= 1
    /\ \A i \in 1 .. Len(socket) - 1 : socket[i + 1].id = socket[i].id + 1
    /\ connection \in [Admins -> {"none", "waiting", "accepted", "over"}]
    /\ Cardinality({a \in Admins : connection[a] = "accepted"}) <= 1

Whole(log) ==
    /\ Len(log) % 2 = 0
    /\ \A i \in 1 .. Len(log) :
          /\ i % 2 = 1 => /\ log[i].Direction = "LogResumeContinuation"
                          /\ log[i + 1].Direction = "LogSend"
                          /\ log[i + 1].id = log[i].id
          /\ i > 1 => log[i - 1].LogicalTime < log[i].LogicalTime

(* The log, and every dump of it that an administrator has received, holds *)
(* whole steps, a message and its answer next to each other, at increasing *)
(* logical times, through resets of the log and of the time.  (After a     *)
(* panic the last message may lack its answer; nobody can read it then.)   *)
LogsAreWhole ==
    /\ status # "panicked" => Whole(Log)
    /\ \A a \in Admins : \A i \in 1 .. Len(answers[a]) : Whole(answers[a][i].log)

Received(i) == replies[i].fate = "received"

(* Requests are dealt with in their order, and a reply is later than its   *)
(* request.  The replies that the scheduler receives have increasing times *)
(* also when the log and the logical time were reset, unless a request was *)
(* under way then.                                                         *)
RepliesFollowRequests ==
    \A i \in 1 .. Len(replies) :
        /\ replies[i].id = i
        /\ replies[i].fate # "skipped" => requests[i].time < replies[i].time
        /\ Received(i) /\ ~ resetAmid =>
              \A j \in 1 .. i - 1 : Received(j) => replies[j].time < replies[i].time

Affects(request, r) ==
    request.kind \notin Broken /\ (request.kind = "init" \/ request.to = r)

(* Those of the first n requests that a reactor has handled since its last *)
(* restart.                                                                *)
Restarts(r, n) == {i \in 1 .. n : requests[i].kind = "restart" /\ requests[i].to = r}
Handled(r, n) == {i \in 1 .. n : Affects(requests[i], r) /\ \A j \in Restarts(r, n) : j < i}

(* A reactor has handled, once and in order, exactly the requests for it   *)
(* since its last restart that were replied to, and when the loop has      *)
(* panicked one more at most: the one that was in its hands.               *)
InputsAreAnswered ==
    \A r \in Reactors :
        /\ \A i \in 1 .. Len(inputs[r]) - 1 : inputs[r][i] < inputs[r][i + 1]
        /\ ToSet(inputs[r]) = Handled(r, IF status = "panicked" THEN Len(replies) + 1
                                         ELSE Len(replies))

(* What has happened is the same in the log, in the reactors and at the    *)
(* scheduler: requests are handled whole, once and in order.               *)
LoopInv == TypeOK /\ LogsAreWhole /\ RepliesFollowRequests /\ InputsAreAnswered

FirstCommand(s, command) ==
    \E k \in 1 .. Len(s) : s[k] = command /\ \A j \in 1 .. k - 1 : s[j] \notin Commands

(* Although commands and connections are not synchronised (admin.go: "we   *)
(* could get problems correlating input/output"), an administrator gets at *)
(* most one answer, and it is the one to its first command.                *)
AnswersMatchCommands ==
    \A a \in Admins :
        /\ Len(answers[a]) <= 1
        /\ answers[a] # <<>> => FirstCommand(script[a], answers[a][1].to)

(* Every request is answered, whatever administrators do, unless the loop  *)
(* is told to quit or panics, or the line of the request is too long: then *)
(* the scheduler waits for ever and is not told.  (An answer may be lost   *)
(* in the write.)                                                          *)
EveryRequestAnswered ==
    \A n \in 1 .. MaxRequests :
        Len(requests) >= n ~>
            \/ status # "running"
            \/ /\ Len(replies) >= n
               /\ replies[n].fate = "skipped" => requests[n].kind = "long"

(* After the answer "Reactors restarted" every reactor is a new one. *)
ResetRestarts ==
    [][\A a \in Admins :
          answers'[a] # answers[a] /\ Last(answers'[a]).to = "AdminResetReactors" =>
              \A r \in Reactors : inputs'[r] = <<>>]_vars
=============================================================================
