-------------------------- MODULE EventLoop_proofs ---------------------------
(***************************************************************************)
(* What holds of the event loop of the executor, for any number of         *)
(* reactors, requests and administrators, and whatever these write.        *)
(***************************************************************************)
EXTENDS EventLoop, FiniteSetTheorems, SequenceTheorems, TLAPS

Requests == [kind : Kinds, to : Reactors, id : Nat, time : Nat]
Replies == [id : Nat, time : Nat, fate : {"received", "lost", "skipped"}]
LogEntries == [Direction : {"LogResumeContinuation", "LogSend"}, id : Nat, LogicalTime : Nat]
OfferedCommands == [by : Admins, Type : Commands]
AdminAnswers == [to : Commands, log : Seq(LogEntries)]
Lines == Commands \cup {"unknown"}

---------------------------------------------------------------------------
(* The administrators *)

AdminTypeOK ==
    /\ connection \in [Admins -> {"none", "waiting", "accepted", "over"}]
    /\ script \in [Admins -> Seq(Lines)] /\ lines \in [Admins -> Seq(Lines)]
    /\ closed \in [Admins -> BOOLEAN]
    /\ answers \in [Admins -> Seq(AdminAnswers)]
    /\ adminOffered \in Seq(OfferedCommands) /\ Len(adminOffered) <= 1

(* Connections are made and accepted in turn. *)
InTurn ==
    \A a \in Admins : \A b \in 1 .. a - 1 :
        /\ connection[a] # "none" => connection[b] # "none"
        /\ connection[a] \in {"accepted", "over"} => connection[b] = "over"

(* How far the lines of an administrator have been scanned. *)
Scanned(a) == Len(script[a]) - Len(lines[a])

LinesLeft(a) ==
    /\ Len(lines[a]) <= Len(script[a])
    /\ \A k \in 1 .. Len(lines[a]) : lines[a][k] = script[a][Scanned(a) + k]

(* The command on the channel is the last line scanned. *)
OfferedWasScanned ==
    adminOffered # <<>> =>
        LET cmd == adminOffered[1]
        IN  Scanned(cmd.by) >= 1 /\ script[cmd.by][Scanned(cmd.by)] = cmd.Type

OfferedBy(a) == adminOffered # <<>> /\ adminOffered[1].by = a

(* As long as the connection is open no command has been run.  *)
OpenIsUnanswered(a) ==
    ~ closed[a] =>
        /\ answers[a] = <<>>
        /\ \A j \in 1 .. Scanned(a) :
              script[a][j] \notin Commands \/ (j = Scanned(a) /\ OfferedBy(a))

AdminInv ==
    /\ AdminTypeOK /\ InTurn /\ OfferedWasScanned
    /\ \A a \in Admins : LinesLeft(a) /\ OpenIsUnanswered(a)
    /\ AnswersMatchCommands

---------------------------------------------------------------------------
(* The requests *)

LoopTypeOK ==
    /\ LogicalTime \in Nat /\ clock \in Nat /\ up \in BOOLEAN /\ resetAmid \in BOOLEAN
    /\ status \in {"running", "quit", "panicked"}
    /\ Log \in Seq(LogEntries)
    /\ inputs \in [Reactors -> Seq(Nat)]
    /\ socket \in Seq(Requests) /\ offered \in Seq(Requests) /\ requests \in Seq(Requests)
    /\ replies \in Seq(Replies)

(* How many requests are dealt with. *)
Taken == IF status = "panicked" THEN Len(replies) + 1 ELSE Len(replies)

(* The requests are handled, on the channel or in the socket, in order. *)
Flow ==
    /\ Len(offered) <= 1 /\ (status = "panicked" => offered = <<>>)
    /\ Len(requests) = Taken + Len(offered) + Len(socket)
    /\ \A i \in 1 .. Len(requests) : requests[i].id = i /\ requests[i].time <= clock
    /\ \A k \in 1 .. Len(offered) :
          offered[k] = requests[Taken + k] /\ offered[k].kind \notin {"long", "garbled"}
    /\ \A k \in 1 .. Len(socket) : socket[k] = requests[Taken + Len(offered) + k]

(* The next answer will be later than those received, because the loop's   *)
(* clock or the requests still to be handled are.                          *)
NextIsLater ==
    \A j \in 1 .. Len(replies) : Received(j) =>
        /\ replies[j].time <= clock
        /\ ~ resetAmid =>
              \/ replies[j].time <= LogicalTime
              \/ \A i \in Len(replies) + 1 .. Len(requests) : replies[j].time < requests[i].time

LogIsPast == Log # <<>> => Log[Len(Log)].LogicalTime <= LogicalTime

RequestInv ==
    /\ LoopTypeOK /\ Flow /\ RepliesFollowRequests /\ NextIsLater
    /\ LogIsPast /\ (status # "panicked" => Whole(Log)) /\ InputsAreAnswered
---------------------------------------------------------------------------
(* The administrators: proofs *)

LEMMA AdminInitInv == Init => AdminInv
<1> SUFFICES ASSUME Init PROVE AdminInv
  OBVIOUS
<1>1. /\ script \in [Admins -> Sessions] /\ lines = script /\ adminOffered = <<>>
      /\ connection = [a \in Admins |-> "none"] /\ closed = [a \in Admins |-> FALSE]
      /\ answers = [a \in Admins |-> <<>>]
  BY DEF Init
<1>2. script \in [Admins -> Seq(Lines)]
  BY <1>1, EventLoopAssumption DEF Lines
<1>3. AdminTypeOK
  BY <1>1, <1>2 DEF AdminTypeOK
<1>4. InTurn
  BY <1>1 DEF InTurn, Admins
<1>5. OfferedWasScanned
  BY <1>1 DEF OfferedWasScanned
<1>6. ASSUME NEW a \in Admins PROVE LinesLeft(a) /\ OpenIsUnanswered(a)
  <2>1. Len(script[a]) \in Nat /\ lines[a] = script[a]
    BY <1>1, <1>2
  <2>2. Scanned(a) = 0
    BY <2>1 DEF Scanned
  <2> QED BY <1>1, <2>1, <2>2 DEF LinesLeft, OpenIsUnanswered
<1>7. AnswersMatchCommands
  BY <1>1 DEF AnswersMatchCommands
<1> QED BY <1>3, <1>4, <1>5, <1>6, <1>7 DEF AdminInv

(* Connections change hands; nothing is scanned or answered. *)
LEMMA ConnectionStep ==
    ASSUME AdminInv, NEW a \in Admins,
           Connect(a) \/ HangUp(a) \/ Accept(a) \/ EndOfConnection(a)
    PROVE  AdminInv'
<1> USE DEF AdminInv
<1>1. UNCHANGED <<script, lines, adminOffered, answers>>
  BY DEF Connect, HangUp, Accept, EndOfConnection, adminVars
<1>2. /\ closed' \in [Admins -> BOOLEAN]
      /\ \A b \in Admins : closed[b] => closed'[b]
  BY DEF Connect, HangUp, Accept, EndOfConnection, AdminTypeOK
<1>3. /\ connection' \in [Admins -> {"none", "waiting", "accepted", "over"}]
      /\ \A b \in Admins \ {a} : connection'[b] = connection[b]
      /\ \/ connection[a] = "none" /\ connection'[a] = "waiting"
            /\ \A b \in 1 .. a - 1 : connection[b] # "none"
         \/ connection[a] = "waiting" /\ connection'[a] = "accepted"
            /\ \A b \in 1 .. a - 1 : connection[b] = "over"
         \/ connection[a] = "accepted" /\ connection'[a] = "over"
         \/ connection'[a] = connection[a]
  BY DEF Connect, HangUp, Accept, EndOfConnection, AdminTypeOK
<1>4. AdminTypeOK'
  BY <1>1, <1>2, <1>3 DEF AdminTypeOK
<1>5. InTurn'
  <2> SUFFICES ASSUME NEW c \in Admins, NEW b \in 1 .. c - 1
               PROVE  /\ connection'[c] # "none" => connection'[b] # "none"
                      /\ connection'[c] \in {"accepted", "over"} => connection'[b] = "over"
    BY DEF InTurn
  <2>1. b \in Admins /\ b # c
    BY EventLoopAssumption DEF Admins
  <2>2. /\ connection[c] # "none" => connection[b] # "none"
        /\ connection[c] \in {"accepted", "over"} => connection[b] = "over"
    BY DEF InTurn
  <2>3. CASE c = a
    BY <2>1, <2>2, <2>3, <1>3
  <2>4. CASE b = a
    BY <2>1, <2>2, <2>4, <1>3
  <2>5. CASE b # a /\ c # a
    BY <2>1, <2>2, <2>5, <1>3
  <2> QED BY <2>3, <2>4, <2>5
<1>6. OfferedWasScanned' /\ AnswersMatchCommands'
  BY <1>1 DEF OfferedWasScanned, Scanned, AnswersMatchCommands
<1>7. ASSUME NEW b \in Admins PROVE LinesLeft(b)' /\ OpenIsUnanswered(b)'
  <2>1. Scanned(b)' = Scanned(b) /\ (OfferedBy(b)' <=> OfferedBy(b))
    BY <1>1 DEF Scanned, OfferedBy
  <2>2. LinesLeft(b)'
    BY <1>1, <2>1 DEF LinesLeft
  <2>3. OpenIsUnanswered(b)'
    BY <1>1, <1>2, <2>1 DEF OpenIsUnanswered
  <2> QED BY <2>2, <2>3
<1> QED BY <1>4, <1>5, <1>6, <1>7

LEMMA TailFacts ==
    ASSUME NEW S, NEW s \in Seq(S), s # <<>>
    PROVE  /\ Len(s) \in Nat /\ Len(s) >= 1
           /\ Head(s) = s[1] /\ Head(s) \in S
           /\ Tail(s) \in Seq(S) /\ Len(Tail(s)) = Len(s) - 1
           /\ \A k \in 1 .. Len(s) - 1 : Tail(s)[k] = s[k + 1]
  OBVIOUS

LEMMA ScanStep ==
    ASSUME AdminInv, NEW a \in Admins, Scan(a)
    PROVE  AdminInv'
<1> USE DEF AdminInv
<1>1. /\ UNCHANGED <<script, answers, closed, connection>>
      /\ adminOffered = <<>> /\ lines[a] # <<>>
      /\ lines' = [lines EXCEPT ![a] = Tail(@)]
      /\ adminOffered' = IF Head(lines[a]) \in Commands
                         THEN <<[by |-> a, Type |-> Head(lines[a])]>> ELSE <<>>
  BY DEF Scan
<1>2. /\ lines[a] \in Seq(Lines) /\ script[a] \in Seq(Lines)
      /\ lines'[a] = Tail(lines[a]) /\ \A b \in Admins \ {a} : lines'[b] = lines[b]
  BY <1>1 DEF AdminTypeOK
<1>3. /\ Len(lines[a]) \in Nat /\ Len(lines[a]) >= 1 /\ Len(script[a]) \in Nat
      /\ Head(lines[a]) = lines[a][1] /\ Head(lines[a]) \in Lines
      /\ lines'[a] \in Seq(Lines) /\ Len(lines'[a]) = Len(lines[a]) - 1
      /\ \A k \in 1 .. Len(lines[a]) - 1 : lines'[a][k] = lines[a][k + 1]
  <2> DEFINE rest == Tail(lines[a])
  <2>1. /\ Len(lines[a]) \in Nat /\ Len(lines[a]) >= 1
        /\ Head(lines[a]) = lines[a][1] /\ Head(lines[a]) \in Lines
        /\ rest \in Seq(Lines) /\ Len(rest) = Len(lines[a]) - 1
        /\ \A k \in 1 .. Len(lines[a]) - 1 : rest[k] = lines[a][k + 1]
    BY <1>1, <1>2, TailFacts
  <2>2. lines'[a] = rest /\ Len(script[a]) \in Nat
    BY <1>2
  <2> HIDE DEF rest
  <2> QED BY <2>1, <2>2
<1>4. /\ Scanned(a)' = Scanned(a) + 1 /\ Scanned(a) \in Nat
      /\ script[a][Scanned(a) + 1] = Head(lines[a])
  <2>1. LinesLeft(a) /\ 1 \in 1 .. Len(lines[a])
    BY <1>3
  <2>2. Scanned(a)' = Scanned(a) + 1 /\ Scanned(a) \in Nat
    <3>1. Len(lines[a]) <= Len(script[a])
      BY <2>1 DEF LinesLeft
    <3>2. Len(script'[a]) - Len(lines'[a]) = Len(script[a]) - Len(lines[a]) + 1
      <4>1. script'[a] = script[a] /\ Len(lines'[a]) = Len(lines[a]) - 1
            /\ Len(lines[a]) \in Nat /\ Len(script[a]) \in Nat
        BY <1>1, <1>3
      <4> QED BY <4>1
    <3> QED BY <1>3, <3>1, <3>2 DEF Scanned
  <2> QED BY <1>3, <2>1, <2>2 DEF LinesLeft
<1>5. adminOffered' \in Seq(OfferedCommands) /\ Len(adminOffered') <= 1
  <2>1. CASE Head(lines[a]) \in Commands
    <3>1. [by |-> a, Type |-> Head(lines[a])] \in OfferedCommands
      BY <2>1 DEF OfferedCommands
    <3> QED BY <1>1, <2>1, <3>1
  <2> QED BY <1>1, <2>1
<1>6. AdminTypeOK'
  <2>1. lines' \in [Admins -> Seq(Lines)]
    BY <1>1, <1>2, <1>3 DEF AdminTypeOK
  <2> QED BY <1>1, <1>5, <2>1 DEF AdminTypeOK
<1>7. InTurn' /\ AnswersMatchCommands'
  BY <1>1 DEF InTurn, AnswersMatchCommands
<1>8. OfferedWasScanned'
  <2>1. CASE Head(lines[a]) \in Commands
    <3>1. adminOffered'[1].by = a /\ adminOffered'[1].Type = Head(lines[a])
      BY <1>1, <2>1
    <3>2. Scanned(a)' >= 1 /\ script'[a][Scanned(a)'] = Head(lines[a])
      BY <1>1, <1>4
    <3> QED BY <3>1, <3>2 DEF OfferedWasScanned
  <2>2. CASE Head(lines[a]) \notin Commands
    BY <1>1, <2>2 DEF OfferedWasScanned
  <2> QED BY <2>1, <2>2
<1>9. LinesLeft(a)'
  <2>1. Len(lines'[a]) <= Len(script'[a])
    BY <1>1, <1>3 DEF LinesLeft
  <2>2. ASSUME NEW k \in 1 .. Len(lines'[a])
        PROVE  lines'[a][k] = script[a][Scanned(a) + 1 + k]
    <3>1. k + 1 \in 1 .. Len(lines[a]) /\ k \in 1 .. Len(lines[a]) - 1 /\ k \in Nat
      BY <1>3
    <3>3. Scanned(a) + (k + 1) = Scanned(a) + 1 + k
      BY <3>1, <1>4
    <3>2. lines[a][k + 1] = script[a][Scanned(a) + (k + 1)]
      BY <3>1 DEF LinesLeft
    <3> QED BY <3>1, <3>2, <3>3, <1>3
  <2> QED BY <2>1, <2>2, <1>1, <1>4 DEF LinesLeft
<1>10. OpenIsUnanswered(a)'
  <2> SUFFICES ASSUME ~ closed[a]
               PROVE  /\ answers[a] = <<>>
                      /\ \A j \in 1 .. Scanned(a) + 1 :
                            script[a][j] \notin Commands
                            \/ (j = Scanned(a) + 1 /\ OfferedBy(a)')
    BY <1>1, <1>4 DEF OpenIsUnanswered
  <2>1. answers[a] = <<>> /\ \A j \in 1 .. Scanned(a) : script[a][j] \notin Commands
    BY <1>1 DEF OpenIsUnanswered, OfferedBy
  <2>2. script[a][Scanned(a) + 1] \in Commands => OfferedBy(a)'
    BY <1>1, <1>4 DEF OfferedBy
  <2>3. \A j \in 1 .. Scanned(a) + 1 : j \in 1 .. Scanned(a) \/ j = Scanned(a) + 1
    BY <1>4
  <2> QED BY <2>1, <2>2, <2>3
<1>11. ASSUME NEW b \in Admins \ {a} PROVE LinesLeft(b)' /\ OpenIsUnanswered(b)'
  <2>1. Scanned(b)' = Scanned(b) /\ lines'[b] = lines[b] /\ ~ OfferedBy(b)
    BY <1>1, <1>2 DEF Scanned, OfferedBy
  <2>2. LinesLeft(b)'
    BY <1>1, <2>1 DEF LinesLeft
  <2>3. OpenIsUnanswered(b)'
    BY <1>1, <2>1 DEF OpenIsUnanswered
  <2> QED BY <2>2, <2>3
<1> QED BY <1>6, <1>7, <1>8, <1>9, <1>10, <1>11
(* A command is answered if the connection is open, and closes it. *)
LEMMA RunAdminStep ==
    ASSUME AdminInv, LoopTypeOK, RunAdmin
    PROVE  AdminInv'
<1> USE DEF AdminInv
<1> DEFINE cmd == adminOffered[1]
           a == cmd.by
           answer == Answer(cmd.Type)
<1>1. /\ adminOffered # <<>> /\ adminOffered' = <<>>
      /\ UNCHANGED <<script, lines, connection>>
  BY DEF RunAdmin
<1>2. cmd \in OfferedCommands /\ Head(adminOffered) = cmd
  BY <1>1, TailFacts DEF AdminTypeOK
<1>3. /\ a \in Admins /\ cmd.Type \in Commands
      /\ Scanned(a) >= 1 /\ script[a][Scanned(a)] = cmd.Type
  BY <1>1, <1>2 DEF OfferedCommands, OfferedWasScanned
<1>4. answer \in AdminAnswers /\ answer.to = cmd.Type
  BY <1>3 DEF Answer, AdminAnswers, LoopTypeOK
<1>5. /\ answers' = IF closed[a] THEN answers ELSE [answers EXCEPT ![a] = Append(@, answer)]
      /\ closed' = [closed EXCEPT ![a] = TRUE]
  BY <1>2 DEF RunAdmin, Response
<1> HIDE DEF answer
<1>6. /\ closed' \in [Admins -> BOOLEAN] /\ closed'[a]
      /\ \A b \in Admins : closed[b] => closed'[b]
  BY <1>3, <1>5 DEF AdminTypeOK
<1>7. \A b \in Admins \ {a} : answers'[b] = answers[b]
  BY <1>3, <1>5 DEF AdminTypeOK
<1>8. \A b \in Admins \ {a} : ~ OfferedBy(b)
  BY DEF OfferedBy
<1>9. AdminTypeOK'
  <2>1. answers' \in [Admins -> Seq(AdminAnswers)]
    BY <1>3, <1>4, <1>5 DEF AdminTypeOK
  <2>2. adminOffered' \in Seq(OfferedCommands) /\ Len(adminOffered') <= 1
    BY <1>1
  <2> QED BY <1>1, <1>6, <2>1, <2>2 DEF AdminTypeOK
<1>10. InTurn' /\ OfferedWasScanned'
  BY <1>1 DEF InTurn, OfferedWasScanned
<1>11. \A b \in Admins : Scanned(b)' = Scanned(b)
  BY <1>1 DEF Scanned
<1>12. \A b \in Admins : LinesLeft(b)'
  BY <1>1, <1>11 DEF LinesLeft
<1>13. ASSUME NEW b \in Admins PROVE OpenIsUnanswered(b)'
  <2>1. CASE b = a
    BY <2>1, <1>6 DEF OpenIsUnanswered
  <2>2. CASE b # a
    BY <2>2, <1>1, <1>6, <1>7, <1>8, <1>11 DEF OpenIsUnanswered
  <2> QED BY <2>1, <2>2
<1>14. AnswersMatchCommands'
  <2> SUFFICES ASSUME NEW b \in Admins
               PROVE  /\ Len(answers'[b]) <= 1
                      /\ answers'[b] # <<>> => FirstCommand(script[b], answers'[b][1].to)
    BY <1>1 DEF AnswersMatchCommands, FirstCommand
  <2>1. /\ Len(answers[b]) <= 1
        /\ answers[b] # <<>> => FirstCommand(script[b], answers[b][1].to)
    BY DEF AnswersMatchCommands
  <2>2. CASE b # a \/ closed[a]
    <3>1. answers'[b] = answers[b]
      BY <2>2, <1>5, <1>7
    <3> QED BY <2>1, <3>1
  <2>3. CASE b = a /\ ~ closed[a]
    <3>1. answers[a] = <<>> /\ \A j \in 1 .. Scanned(a) :
              script[a][j] \notin Commands \/ j = Scanned(a)
      BY <2>3, <1>3 DEF OpenIsUnanswered
    <3>2. answers'[a] = <<answer>>
      BY <2>3, <1>3, <1>5, <3>1 DEF AdminTypeOK
    <3>3. Len(answers'[a]) = 1 /\ answers'[a][1] = answer
      BY <3>2
    <3>4. Len(script[a]) \in Nat /\ Len(lines[a]) \in Nat
      BY <1>3 DEF AdminTypeOK
    <3>5. Scanned(a) \in 1 .. Len(script[a])
      <4>1. Scanned(a) = Len(script[a]) - Len(lines[a]) /\ Scanned(a) >= 1
        BY <1>3 DEF Scanned
      <4>2. \A m, n \in Nat : m - n >= 1 => m - n \in 1 .. m
        OBVIOUS
      <4> QED BY <4>1, <4>2, <3>4
    <3>6. \A j \in 1 .. Scanned(a) - 1 : script[a][j] \notin Commands
      BY <3>1, <3>5, <3>4
    <3>7. FirstCommand(script[a], cmd.Type)
      BY <1>3, <3>5, <3>6 DEF FirstCommand
    <3> QED BY <2>3, <3>3, <3>7, <1>4
  <2> QED BY <2>2, <2>3
<1> QED BY <1>9, <1>10, <1>12, <1>13, <1>14

(* The steps of the scheduler and of the loop on its requests. *)
LEMMA AdminUnchanged ==
    ASSUME AdminInv, UNCHANGED <<adminVars, adminOffered>>
    PROVE  AdminInv'
<1>1. UNCHANGED <<connection, lines, closed, answers, script, adminOffered>>
  BY DEF adminVars
<1>2. AdminTypeOK' /\ InTurn' /\ AnswersMatchCommands'
  BY <1>1 DEF AdminInv, AdminTypeOK, InTurn, AnswersMatchCommands
<1>3. \A a \in Admins : Scanned(a)' = Scanned(a) /\ (OfferedBy(a)' <=> OfferedBy(a))
  BY <1>1 DEF Scanned, OfferedBy
<1>4. OfferedWasScanned'
  BY <1>1 DEF AdminInv, OfferedWasScanned, Scanned
<1>5. \A a \in Admins : LinesLeft(a)' /\ OpenIsUnanswered(a)'
  BY <1>1, <1>3 DEF AdminInv, LinesLeft, OpenIsUnanswered
<1> QED BY <1>2, <1>4, <1>5 DEF AdminInv

LEMMA AdminStep ==
    ASSUME AdminInv, LoopTypeOK, [Next]_vars
    PROVE  AdminInv'
<1>1. CASE \E a \in Admins : Connect(a) \/ HangUp(a) \/ Accept(a) \/ EndOfConnection(a)
  BY <1>1, ConnectionStep
<1>2. CASE \E a \in Admins : Scan(a)
  BY <1>2, ScanStep
<1>3. CASE RunAdmin
  BY <1>3, RunAdminStep
<1>4. CASE \/ SchedulerSend \/ SchedulerStop \/ findIncoming \/ RunCommand
           \/ UNCHANGED vars
  <2>1. UNCHANGED <<adminVars, adminOffered>>
    BY <1>4 DEF SchedulerSend, SchedulerStop, findIncoming, RunCommand, vars
  <2> QED BY <2>1, AdminUnchanged
<1> QED BY <1>1, <1>2, <1>3, <1>4 DEF Next
---------------------------------------------------------------------------
(* The requests: proofs *)

(* A step of the loop adds a message and its answer to a log. *)
LEMMA WholeGrows ==
    ASSUME NEW log \in Seq(LogEntries), Whole(log), NEW first \in LogEntries,
           NEW second \in LogEntries, NEW new, new = log \o <<first, second>>,
           first.Direction = "LogResumeContinuation", second.Direction = "LogSend",
           second.id = first.id, first.LogicalTime < second.LogicalTime,
           log # <<>> => log[Len(log)].LogicalTime < first.LogicalTime
    PROVE  /\ Whole(new) /\ new \in Seq(LogEntries)
           /\ new # <<>> /\ new[Len(new)] = second
<1> DEFINE l == Len(log)
<1>1. /\ l \in Nat /\ new \in Seq(LogEntries) /\ Len(new) = l + 2
      /\ \A i \in 1 .. l : new[i] = log[i]
      /\ new[l + 1] = first /\ new[l + 2] = second
  OBVIOUS
<1>2. l % 2 = 0 /\ \A i \in 1 .. l : log[i] \in LogEntries
  BY DEF Whole
<1>3. /\ l > 0 => log[l].LogicalTime < first.LogicalTime
      /\ \A i \in 1 .. l :
            /\ i % 2 = 1 => /\ log[i].Direction = "LogResumeContinuation"
                            /\ log[i + 1].Direction = "LogSend"
                            /\ log[i + 1].id = log[i].id
            /\ i > 1 => log[i - 1].LogicalTime < log[i].LogicalTime
  BY DEF Whole
<1> HIDE DEF l
<1>4. (l + 2) % 2 = 0 /\ (l + 1) % 2 = 1
  <2>1. \A n \in Nat : n % 2 = 0 => (n + 2) % 2 = 0
    OBVIOUS
  <2>2. \A n \in Nat : n % 2 = 0 => (n + 1) % 2 = 1
    OBVIOUS
  <2>3. l \in Nat /\ l % 2 = 0
    BY <1>1, <1>2
  <2> QED BY <2>1, <2>2, <2>3
<1>5. ASSUME NEW i \in 1 .. l + 2
      PROVE  /\ i % 2 = 1 => /\ new[i].Direction = "LogResumeContinuation"
                             /\ new[i + 1].Direction = "LogSend"
                             /\ new[i + 1].id = new[i].id
             /\ i > 1 => new[i - 1].LogicalTime < new[i].LogicalTime
  <2>1. CASE i \in 1 .. l
    <3>1. i % 2 = 1 => i + 1 \in 1 .. l
      BY <2>1, <1>1, <1>2
    <3>2. i > 1 => i - 1 \in 1 .. l
      BY <2>1, <1>1
    <3> QED BY <2>1, <3>1, <3>2, <1>1, <1>3
  <2>2. CASE i = l + 1
    <3>1. i > 1 => i - 1 = l /\ l > 0 /\ l \in 1 .. l
      BY <2>2, <1>1
    <3>2. i + 1 = l + 2
      BY <2>2, <1>1
    <3> QED BY <2>2, <3>1, <3>2, <1>1, <1>3
  <2>3. CASE i = l + 2
    <3>1. i - 1 = l + 1 /\ i % 2 # 1
      BY <2>3, <1>1, <1>4
    <3> QED BY <2>3, <3>1, <1>1
  <2>4. i \in 1 .. l \/ i = l + 1 \/ i = l + 2
    BY <1>1
  <2> QED BY <2>1, <2>2, <2>3, <2>4, Zenon
<1>6. Whole(new)
  BY <1>1, <1>4, <1>5 DEF Whole
<1> QED BY <1>1, <1>6

(* What one more request does to those that a reactor has handled. *)
LEMMA HandledOneMore ==
    ASSUME NEW r, NEW n \in Nat
    PROVE  LET request == requests[n + 1]
           IN  /\ request.kind = "restart" /\ request.to = r => Handled(r, n + 1) = {}
               /\ ~ Affects(request, r) => Handled(r, n + 1) = Handled(r, n)
               /\ Affects(request, r) /\ request.kind # "restart" =>
                     Handled(r, n + 1) = Handled(r, n) \cup {n + 1}
<1> DEFINE request == requests[n + 1]
<1>1. 1 .. n + 1 = (1 .. n) \cup {n + 1} /\ \A i \in 1 .. n : i < n + 1
  OBVIOUS
<1>2. request.kind = "restart" /\ request.to = r => n + 1 \in Restarts(r, n + 1)
  BY <1>1 DEF Restarts
<1>3. ~ (request.kind = "restart" /\ request.to = r) => Restarts(r, n + 1) = Restarts(r, n)
  BY <1>1 DEF Restarts
<1>4. \A j \in Restarts(r, n) : j < n + 1
  BY <1>1 DEF Restarts
<1>5. \A i \in 1 .. n + 1 : ~ (n + 1 < i)
  OBVIOUS
<1>6. request.kind = "restart" /\ request.to = r => Handled(r, n + 1) = {}
  BY <1>2, <1>5 DEF Handled
<1>7. ~ Affects(request, r) => Handled(r, n + 1) = Handled(r, n)
  BY <1>1, <1>3 DEF Handled, Affects, Broken
<1>8. Affects(request, r) /\ request.kind # "restart" =>
          Handled(r, n + 1) = Handled(r, n) \cup {n + 1}
  BY <1>1, <1>3, <1>4 DEF Handled
<1> QED BY <1>6, <1>7, <1>8

Increasing(s) == \A i \in 1 .. Len(s) - 1 : s[i] < s[i + 1]

LEMMA IncreasingGrows ==
    ASSUME NEW s \in Seq(Nat), NEW e \in Nat, Increasing(s), \A x \in ToSet(s) : x < e,
           NEW t, t = Append(s, e)
    PROVE  t \in Seq(Nat) /\ Increasing(t) /\ ToSet(t) = ToSet(s) \cup {e}
<1> DEFINE l == Len(s)
<1>1. /\ l \in Nat /\ Len(t) = l + 1 /\ t \in Seq(Nat)
      /\ DOMAIN s = 1 .. l /\ DOMAIN t = 1 .. l + 1
      /\ (\A i \in 1 .. l : t[i] = s[i]) /\ t[l + 1] = e
  OBVIOUS
<1> HIDE DEF l
<1>2. ToSet(t) = ToSet(s) \cup {e}
  <2>1. 1 .. l + 1 = (1 .. l) \cup {l + 1}
    BY <1>1
  <2> QED BY <1>1, <2>1 DEF ToSet
<1>3. ASSUME NEW i \in 1 .. l PROVE t[i] < t[i + 1]
  <2>1. CASE i = l
    <3>1. s[l] \in ToSet(s) /\ l \in 1 .. l
      BY <2>1, <1>1 DEF ToSet
    <3> QED BY <2>1, <3>1, <1>1
  <2>2. CASE i # l
    <3>1. i \in 1 .. l - 1 /\ i + 1 \in 1 .. l
      BY <2>2, <1>1
    <3> QED BY <3>1, <1>1 DEF Increasing, l
  <2> QED BY <2>1, <2>2
<1>4. Increasing(t)
  <2>1. Len(t) - 1 = l
    BY <1>1
  <2> QED BY <2>1, <1>3 DEF Increasing
<1> QED BY <1>1, <1>2, <1>4
LEMMA RequestInitInv == Init => RequestInv
<1> SUFFICES ASSUME Init PROVE RequestInv
  OBVIOUS
<1>1. /\ LogicalTime = 0 /\ Log = <<>> /\ status = "running"
      /\ inputs = [r \in Reactors |-> <<>>] /\ socket = <<>> /\ offered = <<>>
      /\ up = TRUE /\ clock = 0 /\ requests = <<>> /\ replies = <<>> /\ resetAmid = FALSE
  BY DEF Init
<1>2. Taken = 0
  BY <1>1 DEF Taken
<1>3. LoopTypeOK
  <2>1. up \in BOOLEAN /\ resetAmid \in BOOLEAN
    BY <1>1, Zenon
  <2>2. inputs \in [Reactors -> Seq(Nat)]
    BY <1>1
  <2>3. /\ Log \in Seq(LogEntries) /\ replies \in Seq(Replies)
        /\ socket \in Seq(Requests) /\ offered \in Seq(Requests) /\ requests \in Seq(Requests)
    BY <1>1
  <2> QED BY <1>1, <2>1, <2>2, <2>3 DEF LoopTypeOK
<1>4. Flow
  BY <1>1, <1>2 DEF Flow
<1>5. RepliesFollowRequests /\ NextIsLater /\ LogIsPast
  BY <1>1 DEF RepliesFollowRequests, NextIsLater, LogIsPast
<1>6. Whole(Log)
  BY <1>1 DEF Whole
<1>7. InputsAreAnswered
  <2> SUFFICES ASSUME NEW r \in Reactors
               PROVE  /\ \A i \in 1 .. Len(inputs[r]) - 1 : inputs[r][i] < inputs[r][i + 1]
                      /\ ToSet(inputs[r]) = Handled(r, 0)
    BY <1>1 DEF InputsAreAnswered
  <2>1. inputs[r] = <<>> /\ Handled(r, 0) = {}
    BY <1>1 DEF Handled
  <2> QED BY <2>1 DEF ToSet
<1> QED BY <1>3, <1>4, <1>5, <1>6, <1>7 DEF RequestInv

(* InputsAreAnswered for one reactor. *)
InputsOf(r) ==
    Increasing(inputs[r]) /\ ToSet(inputs[r]) = Handled(r, Taken)

LEMMA InputsByReactor == InputsAreAnswered <=> \A r \in Reactors : InputsOf(r)
  BY DEF InputsAreAnswered, InputsOf, Increasing, Taken

(* A new request has the latest time of all. *)
LEMMA SchedulerSendStep ==
    ASSUME RequestInv, SchedulerSend
    PROVE  RequestInv'
<1> USE DEF RequestInv
<1>1. PICK k \in Kinds, r \in Reactors :
          LET request == [kind |-> k, to |-> r, id |-> Len(requests) + 1, time |-> clock + 1]
          IN  requests' = Append(requests, request) /\ socket' = Append(socket, request)
  BY DEF SchedulerSend
<1>2. /\ UNCHANGED <<LogicalTime, Log, inputs, status, offered, up, replies, resetAmid>>
      /\ clock' = clock + 1
  BY DEF SchedulerSend, loopVars
<1>3. PICK request : request = [kind |-> k, to |-> r, id |-> Len(requests) + 1, time |-> clock + 1]
  OBVIOUS
<1>4. /\ Len(requests) \in Nat /\ Len(socket) \in Nat /\ Len(offered) \in Nat
      /\ Len(replies) \in Nat /\ clock \in Nat
  BY DEF LoopTypeOK
<1>5. /\ request \in Requests /\ request.id = Len(requests) + 1 /\ request.time = clock + 1
      /\ requests' = Append(requests, request) /\ socket' = Append(socket, request)
  BY <1>1, <1>3, <1>4 DEF Requests
<1>6. /\ requests' \in Seq(Requests) /\ socket' \in Seq(Requests)
      /\ Len(requests') = Len(requests) + 1 /\ Len(socket') = Len(socket) + 1
      /\ (\A i \in 1 .. Len(requests) : requests'[i] = requests[i])
      /\ requests'[Len(requests) + 1] = request
      /\ (\A i \in 1 .. Len(socket) : socket'[i] = socket[i])
      /\ socket'[Len(socket) + 1] = request
  BY <1>5 DEF LoopTypeOK
<1>7. Taken' = Taken /\ Taken \in Nat /\ Taken <= Len(requests) /\ Len(replies) <= Taken
      /\ Len(requests) = Taken + Len(offered) + Len(socket)
  BY <1>2, <1>4 DEF Taken, Flow
<1>8. LoopTypeOK'
  BY <1>2, <1>4, <1>6 DEF LoopTypeOK
<1>9. Flow'
  <2>1. ASSUME NEW i \in 1 .. Len(requests')
        PROVE  requests'[i].id = i /\ requests'[i].time <= clock'
    <3>1. CASE i = Len(requests) + 1
      BY <3>1, <1>2, <1>4, <1>5, <1>6
    <3>2. CASE i \in 1 .. Len(requests)
      <4>1. requests[i].id = i /\ requests[i].time <= clock /\ requests[i] \in Requests
        BY <3>2 DEF Flow, LoopTypeOK
      <4>2. requests[i].time \in Nat
        BY <4>1 DEF Requests
      <4> QED BY <3>2, <4>1, <4>2, <1>2, <1>4, <1>6
    <3> QED BY <3>1, <3>2, <1>4, <1>6
  <2>2. ASSUME NEW j \in 1 .. Len(offered)
        PROVE  offered[j] = requests'[Taken + j] /\ offered[j].kind \notin {"long", "garbled"}
    <3>1. Taken + j \in 1 .. Len(requests)
      BY <1>4, <1>7
    <3> QED BY <3>1, <1>6 DEF Flow
  <2>3. ASSUME NEW j \in 1 .. Len(socket')
        PROVE  socket'[j] = requests'[Taken + Len(offered) + j]
    <3>1. CASE j = Len(socket) + 1
      <4>1. Taken + Len(offered) + j = Len(requests) + 1
        BY <3>1, <1>4, <1>7
      <4> QED BY <3>1, <4>1, <1>6
    <3>2. CASE j \in 1 .. Len(socket)
      <4>1. Taken + Len(offered) + j \in 1 .. Len(requests)
        BY <3>2, <1>4, <1>7
      <4> QED BY <3>2, <4>1, <1>6 DEF Flow
    <3> QED BY <3>1, <3>2, <1>4, <1>6
  <2>4. Len(requests') = Taken + Len(offered) + Len(socket')
    BY <1>4, <1>6, <1>7
  <2>5. Len(offered) <= 1 /\ (status = "panicked" => offered = <<>>)
    BY DEF Flow
  <2> QED BY <2>1, <2>2, <2>3, <2>4, <2>5, <1>2, <1>7 DEF Flow
<1>10. RepliesFollowRequests'
  <2>1. \A i \in 1 .. Len(replies) : i \in 1 .. Len(requests)
    BY <1>4, <1>7
  <2> QED BY <2>1, <1>2, <1>6 DEF RepliesFollowRequests, Received
<1>11. NextIsLater'
  <2> SUFFICES ASSUME NEW j \in 1 .. Len(replies), Received(j)
               PROVE  /\ replies[j].time <= clock'
                      /\ ~ resetAmid =>
                            \/ replies[j].time <= LogicalTime
                            \/ \A i \in Len(replies) + 1 .. Len(requests') :
                                  replies[j].time < requests'[i].time
    BY <1>2 DEF NextIsLater, Received
  <2>1. replies[j] \in Replies
    BY DEF LoopTypeOK
  <2>2. replies[j].time \in Nat /\ replies[j].time <= clock
    BY <2>1 DEF NextIsLater, Replies
  <2>3. replies[j].time <= clock' /\ replies[j].time < request.time
    BY <2>2, <1>2, <1>4, <1>5
  <2>4. ASSUME NEW i \in Len(replies) + 1 .. Len(requests')
        PROVE  \/ i \in Len(replies) + 1 .. Len(requests) /\ requests'[i] = requests[i]
               \/ i = Len(requests) + 1 /\ requests'[i] = request
    <3>0. Len(requests') = Len(requests) + 1 /\ Len(requests) \in Nat /\ Len(replies) \in Nat
      BY <1>4, <1>6
    <3>1. \/ i \in 1 .. Len(requests) /\ i \in Len(replies) + 1 .. Len(requests)
          \/ i = Len(requests) + 1
      <4> HIDE DEF RequestInv
      <4> QED BY <3>0
    <3> QED BY <3>1, <1>6
  <2> QED BY <2>3, <2>4 DEF NextIsLater
<1>12. LogIsPast' /\ (status # "panicked" => Whole(Log))'
  BY <1>2 DEF LogIsPast, Whole
<1>13. InputsAreAnswered'
  <2>1. \A i \in 1 .. Taken : requests'[i] = requests[i]
    BY <1>6, <1>4, <1>7
  <2>2. ASSUME NEW q \in Reactors PROVE InputsOf(q)'
    <3>1. Restarts(q, Taken)' = Restarts(q, Taken)
      BY <2>1, <1>7 DEF Restarts
    <3>2. Handled(q, Taken)' = Handled(q, Taken)
      BY <2>1, <3>1, <1>7 DEF Handled
    <3>3. InputsOf(q)
      BY InputsByReactor
    <3> QED BY <3>2, <3>3, <1>2 DEF InputsOf
  <2>3. InputsAreAnswered' <=> \A q \in Reactors : InputsOf(q)'
    BY DEF InputsAreAnswered, InputsOf, Increasing, Taken
  <2> QED BY <2>2, <2>3
<1> QED BY <1>8, <1>9, <1>10, <1>11, <1>12, <1>13
(* What is handled of one more request depends on the requests only. *)
LEMMA HandledLater ==
    ASSUME NEW r, requests' = requests, Taken' = Taken + 1
    PROVE  Handled(r, Taken)' = Handled(r, Taken + 1)
<1>1. ASSUME NEW n PROVE Handled(r, n)' = Handled(r, n)
  <2>1. Restarts(r, n)' = Restarts(r, n)
    BY DEF Restarts
  <2> QED BY <2>1 DEF Handled
<1>2. PICK n : n = Taken + 1
  OBVIOUS
<1>3. Handled(r, n)' = Handled(r, n)
  BY <1>1
<1>4. Handled(r, Taken)' = Handled(r, n)'
  BY <1>2 DEF Handled, Restarts
<1> QED BY <1>2, <1>3, <1>4

(* A broken request reaches no reactor. *)
LEMMA InputsOfBroken ==
    ASSUME RequestInv, NEW request, requests[Taken + 1] = request, request.kind \in Broken,
           inputs' = inputs, requests' = requests, Taken' = Taken + 1
    PROVE  InputsAreAnswered'
<1>1. Taken \in Nat
  BY DEF RequestInv, Taken, LoopTypeOK
<1>2. ASSUME NEW r \in Reactors PROVE InputsOf(r)'
  <2>1. Handled(r, Taken + 1) = Handled(r, Taken)
    BY <1>1, HandledOneMore DEF Affects
  <2>2. Handled(r, Taken)' = Handled(r, Taken + 1)
    BY HandledLater
  <2>3. InputsOf(r)
    BY InputsByReactor DEF RequestInv
  <2> QED BY <2>1, <2>2, <2>3 DEF InputsOf
<1>3. InputsAreAnswered' <=> \A q \in Reactors : InputsOf(q)'
  BY DEF InputsAreAnswered, InputsOf, Increasing, Taken
<1> QED BY <1>2, <1>3

(* A reactor after one more request. *)
LEMMA InputsOneMore ==
    ASSUME RequestInv, NEW request \in Requests, requests[Taken + 1] = request,
           request.kind \notin Broken, request.id = Taken + 1, inputs' = processEnvelope(request),
           requests' = requests, Taken' = Taken + 1
    PROVE  inputs' \in [Reactors -> Seq(Nat)] /\ InputsAreAnswered'
<1> USE DEF RequestInv
<1>1. Taken \in Nat /\ request.to \in Reactors /\ request.id \in Nat
  BY DEF Taken, LoopTypeOK, Requests
<1>2. ASSUME NEW r \in Reactors
      PROVE  inputs'[r] \in Seq(Nat) /\ InputsOf(r)'
  <2>1. inputs[r] \in Seq(Nat) /\ Increasing(inputs[r])
        /\ ToSet(inputs[r]) = Handled(r, Taken)
    BY InputsByReactor DEF LoopTypeOK, InputsOf
  <2>2. /\ request.kind = "restart" /\ request.to = r => Handled(r, Taken + 1) = {}
        /\ ~ Affects(request, r) => Handled(r, Taken + 1) = Handled(r, Taken)
        /\ Affects(request, r) /\ request.kind # "restart" =>
              Handled(r, Taken + 1) = Handled(r, Taken) \cup {Taken + 1}
    BY <1>1, HandledOneMore
  <2>4. Handled(r, Taken)' = Handled(r, Taken + 1)
    BY HandledLater
  <2>5. CASE ~ Affects(request, r)
    <3>1. inputs'[r] = inputs[r]
      BY <2>5, <1>1 DEF processEnvelope, Affects, LoopTypeOK
    <3> QED BY <3>1, <2>1, <2>2, <2>4, <2>5 DEF InputsOf
  <2>6. CASE request.kind = "restart" /\ request.to = r
    <3>1. inputs'[r] = <<>>
      BY <2>6, <1>1 DEF processEnvelope, LoopTypeOK
    <3>2. Increasing(<<>>) /\ ToSet(<<>>) = {}
      BY DEF Increasing, ToSet
    <3>3. inputs'[r] \in Seq(Nat)
      BY <3>1
    <3>4. Increasing(inputs'[r]) /\ ToSet(inputs'[r]) = Handled(r, Taken)'
      BY <3>1, <3>2, <2>2, <2>4, <2>6
    <3> QED BY <3>3, <3>4 DEF InputsOf
  <2>7. CASE Affects(request, r) /\ request.kind # "restart"
    <3>1. inputs'[r] = Append(inputs[r], Taken + 1)
      BY <2>7, <1>1 DEF processEnvelope, Affects, LoopTypeOK
    <3>2. \A x \in ToSet(inputs[r]) : x < Taken + 1
      BY <2>1, <1>1 DEF Handled
    <3>3. inputs'[r] \in Seq(Nat) /\ Increasing(inputs'[r])
          /\ ToSet(inputs'[r]) = ToSet(inputs[r]) \cup {Taken + 1}
      BY <3>1, <3>2, <2>1, <1>1, IncreasingGrows
    <3> QED BY <3>3, <2>1, <2>2, <2>4, <2>7 DEF InputsOf
  <2> QED BY <2>5, <2>6, <2>7 DEF Affects
<1>3. inputs' \in [Reactors -> Seq(Nat)]
  <2>1. DOMAIN inputs' = Reactors /\ inputs' = [r \in Reactors |-> inputs'[r]]
    BY <1>1 DEF processEnvelope, LoopTypeOK
  <2> QED BY <2>1, <1>2
<1>4. InputsAreAnswered' <=> \A q \in Reactors : InputsOf(q)'
  BY DEF InputsAreAnswered, InputsOf, Increasing, Taken
<1> QED BY <1>2, <1>3, <1>4

(* A request goes from the socket to the channel, is skipped, or ends the  *)
(* program.                                                                *)
LEMMA FindIncomingStep ==
    ASSUME RequestInv, findIncoming
    PROVE  RequestInv'
<1> USE DEF RequestInv
<1> DEFINE n == Len(replies)
<1>1. /\ status = "running" /\ socket # <<>> /\ offered = <<>> /\ socket' = Tail(socket)
      /\ UNCHANGED <<LogicalTime, Log, inputs, up, clock, requests, resetAmid>>
  BY DEF findIncoming
<1>2. socket \in Seq(Requests) /\ Len(offered) = 0 /\ n \in Nat /\ Len(requests) \in Nat
      /\ Taken = n
  BY <1>1 DEF LoopTypeOK, Taken
<1>3. /\ Len(socket) \in Nat /\ Len(socket) >= 1
      /\ Head(socket) = socket[1] /\ Head(socket) \in Requests
      /\ socket' \in Seq(Requests) /\ Len(socket') = Len(socket) - 1
      /\ \A k \in 1 .. Len(socket) - 1 : socket'[k] = socket[k + 1]
  BY <1>1, <1>2, TailFacts
<1>4. /\ Len(requests) = n + 1 + Len(socket')
      /\ socket[1] = requests[n + 1] /\ requests[n + 1].id = n + 1
      /\ \A k \in 1 .. Len(socket') : socket'[k] = requests[n + 1 + k]
      /\ \A i \in 1 .. Len(requests) : requests[i].id = i /\ requests[i].time <= clock
  <2>1. /\ Len(requests) = n + Len(socket)
        /\ \A k \in 1 .. Len(socket) : socket[k] = requests[n + k]
        /\ \A i \in 1 .. Len(requests) : requests[i].id = i /\ requests[i].time <= clock
    BY <1>2, <1>3 DEF Flow
  <2>2. ASSUME NEW k \in 1 .. Len(socket')
        PROVE  socket'[k] = requests[n + 1 + k]
    <3>1. k + 1 \in 1 .. Len(socket) /\ k \in 1 .. Len(socket) - 1
          /\ n + (k + 1) = n + 1 + k
      BY <1>2, <1>3
    <3> QED BY <3>1, <2>1, <1>3
  <2>3. 1 \in 1 .. Len(socket) /\ n + 1 \in 1 .. Len(requests)
        /\ Len(requests) = n + 1 + Len(socket')
    BY <2>1, <1>2, <1>3
  <2> QED BY <2>1, <2>2, <2>3
<1>5. PICK request : request = Head(socket)
  OBVIOUS
<1>6. CASE /\ request.kind \notin {"long", "garbled"}
           /\ offered' = <<request>> /\ UNCHANGED <<status, replies>>
  <2>1. offered' \in Seq(Requests) /\ Len(offered') = 1 /\ offered'[1] = requests[n + 1]
        /\ offered'[1].kind \notin {"long", "garbled"}
    BY <1>3, <1>4, <1>5, <1>6
  <2>2. Taken' = n /\ n + 1 \in Nat
    BY <1>1, <1>2, <1>6 DEF Taken
  <2>3. LoopTypeOK'
    BY <2>1, <1>1, <1>3, <1>6 DEF LoopTypeOK
  <2>4. Flow'
    <3>1. Len(offered') <= 1 /\ status' # "panicked" /\ requests' = requests /\ clock' = clock
          /\ Taken' + Len(offered') = n + 1
      BY <2>1, <2>2, <1>1, <1>2, <1>6
    <3>2. \A k \in 1 .. Len(offered') :
              offered'[k] = requests'[Taken' + k] /\ offered'[k].kind \notin {"long", "garbled"}
      BY <2>1, <2>2, <3>1
    <3>3. /\ Len(requests') = Taken' + Len(offered') + Len(socket')
          /\ \A k \in 1 .. Len(socket') : socket'[k] = requests'[Taken' + Len(offered') + k]
      BY <3>1, <1>4
    <3> QED BY <3>1, <3>2, <3>3, <1>4 DEF Flow
  <2>5. RepliesFollowRequests' /\ NextIsLater' /\ LogIsPast'
    BY <1>1, <1>6 DEF RepliesFollowRequests, NextIsLater, LogIsPast, Received
  <2>6. (status # "panicked" => Whole(Log))' /\ InputsAreAnswered'
    BY <1>1, <1>6 DEF Whole, InputsAreAnswered, Handled, Restarts
  <2> QED BY <2>3, <2>4, <2>5, <2>6
<1>7. ASSUME Taken' = n + 1, offered' = <<>>, request.kind \in Broken
      PROVE  Flow' /\ InputsAreAnswered'
  <2>1. Flow'
    <3>1. Len(offered') = 0 /\ requests' = requests /\ clock' = clock
          /\ Taken' + Len(offered') = n + 1
      BY <1>1, <1>2, <1>7
    <3>2. \A k \in 1 .. Len(offered') : FALSE
      BY <3>1
    <3>3. /\ Len(requests') = Taken' + Len(offered') + Len(socket')
          /\ \A k \in 1 .. Len(socket') : socket'[k] = requests'[Taken' + Len(offered') + k]
      BY <3>1, <1>4
    <3> QED BY <3>1, <3>2, <3>3, <1>4, <1>7 DEF Flow
  <2>2. InputsAreAnswered'
    BY <1>1, <1>2, <1>3, <1>4, <1>5, <1>7, InputsOfBroken
  <2> QED BY <2>1, <2>2
<1>8. CASE /\ request.kind = "long" /\ UNCHANGED <<status, offered>>
           /\ replies' = Append(replies, [id |-> request.id, time |-> 0, fate |-> "skipped"])
  <2>1. PICK reply : reply = [id |-> request.id, time |-> 0, fate |-> "skipped"]
    OBVIOUS
  <2>2. /\ reply \in Replies /\ reply.id = n + 1 /\ reply.fate = "skipped"
        /\ replies' = Append(replies, reply)
    BY <2>1, <1>2, <1>3, <1>4, <1>5, <1>8 DEF Replies
  <2>3. /\ replies' \in Seq(Replies) /\ Len(replies') = n + 1
        /\ (\A i \in 1 .. n : replies'[i] = replies[i]) /\ replies'[n + 1] = reply
    BY <2>2 DEF LoopTypeOK
  <2>4. Flow' /\ InputsAreAnswered'
    <3>1. Taken' = n + 1
      BY <1>1, <1>8, <2>3 DEF Taken
    <3> QED BY <3>1, <1>1, <1>7, <1>8 DEF Broken
  <2>5. LoopTypeOK'
    BY <2>3, <1>1, <1>3, <1>8 DEF LoopTypeOK
  <2>6. ASSUME NEW i \in 1 .. n + 1
        PROVE  \/ i \in 1 .. n /\ replies'[i] = replies[i]
               \/ i = n + 1 /\ replies'[i].fate = "skipped" /\ replies'[i].id = i
    BY <2>2, <2>3, <1>2
  <2>7. RepliesFollowRequests'
    <3> SUFFICES ASSUME NEW i \in 1 .. n + 1
                 PROVE  /\ replies'[i].id = i
                        /\ replies'[i].fate # "skipped" => requests[i].time < replies'[i].time
                        /\ replies'[i].fate = "received" /\ ~ resetAmid =>
                              \A j \in 1 .. i - 1 : replies'[j].fate = "received" =>
                                  replies'[j].time < replies'[i].time
      BY <2>3, <1>1 DEF RepliesFollowRequests, Received
    <3>1. CASE i \in 1 .. n
      <4>1. \A j \in 1 .. i - 1 : j \in 1 .. n
        BY <3>1, <1>2
      <4> QED BY <3>1, <4>1, <2>3 DEF RepliesFollowRequests, Received
    <3> QED BY <3>1, <2>6
  <2>8. NextIsLater'
    <3> SUFFICES ASSUME NEW j \in 1 .. n + 1, replies'[j].fate = "received"
                 PROVE  /\ replies'[j].time <= clock
                        /\ ~ resetAmid =>
                              \/ replies'[j].time <= LogicalTime
                              \/ \A i \in n + 1 + 1 .. Len(requests) :
                                    replies'[j].time < requests[i].time
      BY <2>3, <1>1 DEF NextIsLater, Received
    <3>1. j \in 1 .. n /\ replies'[j] = replies[j] /\ Received(j)
      BY <2>6 DEF Received
    <3>2. \A i \in n + 1 + 1 .. Len(requests) : i \in n + 1 .. Len(requests)
      BY <1>2
    <3> QED BY <3>1, <3>2 DEF NextIsLater
  <2>9. LogIsPast' /\ (status # "panicked" => Whole(Log))'
    BY <1>1, <1>8 DEF LogIsPast, Whole
  <2> QED BY <2>4, <2>5, <2>7, <2>8, <2>9
<1>9. CASE /\ request.kind = "garbled" /\ status' = "panicked" /\ UNCHANGED <<offered, replies>>
  <2>1. Flow' /\ InputsAreAnswered'
    <3>1. Taken' = n + 1
      BY <1>9 DEF Taken
    <3> QED BY <3>1, <1>1, <1>7, <1>9 DEF Broken
  <2>2. LoopTypeOK'
    BY <1>1, <1>3, <1>9 DEF LoopTypeOK
  <2>3. RepliesFollowRequests' /\ NextIsLater' /\ LogIsPast'
    BY <1>1, <1>9 DEF RepliesFollowRequests, NextIsLater, LogIsPast, Received
  <2> QED BY <2>1, <2>2, <2>3, <1>9
<1> QED BY <1>5, <1>6, <1>8, <1>9 DEF findIncoming

(* A command may reset the log and the clock of the loop.  When no request *)
(* is under way, the next one is later than all answers.                   *)
LEMMA RunAdminRequests ==
    ASSUME RequestInv, RunAdmin
    PROVE  RequestInv'
<1> USE DEF RequestInv
<1>1. PICK cmd : cmd = Head(adminOffered)
  OBVIOUS
<1>2. /\ status = "running"
      /\ LogicalTime' = IF cmd.Type = "AdminResetLog" THEN 0 ELSE LogicalTime + 1
      /\ Log' = IF cmd.Type = "AdminResetLog" THEN <<>> ELSE Log
      /\ status' \in {"running", "quit"}
      /\ resetAmid' = (resetAmid \/ (cmd.Type = "AdminResetLog" /\ UnderWay))
      /\ UNCHANGED <<inputs, offered, socket, up, clock, requests, replies>>
  BY <1>1 DEF RunAdmin, processAdmin, Incr, schedulerVars
<1>3. resetAmid' \in BOOLEAN
      /\ (~ resetAmid' => ~ resetAmid /\ (cmd.Type # "AdminResetLog" \/ ~ UnderWay))
  BY <1>2, Zenon
<1>4. LogicalTime \in Nat /\ LogicalTime' \in Nat /\ Log' \in Seq(LogEntries)
  BY <1>2 DEF LoopTypeOK
<1>5. LoopTypeOK'
  BY <1>2, <1>3, <1>4 DEF LoopTypeOK
<1>6. Taken' = Taken
  BY <1>2 DEF Taken
<1>7. Flow'
  BY <1>2, <1>6 DEF Flow
<1>8. RepliesFollowRequests'
  BY <1>2, <1>3 DEF RepliesFollowRequests, Received
<1>9. NextIsLater'
  <2> SUFFICES ASSUME NEW j \in 1 .. Len(replies), Received(j)
               PROVE  /\ replies[j].time <= clock
                      /\ ~ resetAmid' =>
                            \/ replies[j].time <= LogicalTime'
                            \/ \A i \in Len(replies) + 1 .. Len(requests) :
                                  replies[j].time < requests[i].time
    BY <1>2 DEF NextIsLater, Received
  <2>1. Len(replies) \in Nat /\ Len(requests) \in Nat /\ replies[j] \in Replies
    BY DEF LoopTypeOK
  <2>2. replies[j].time \in Nat /\ replies[j].time <= clock
    BY <2>1 DEF Replies, NextIsLater
  <2>3. CASE cmd.Type = "AdminResetLog"
    <3>1. ~ resetAmid' => Len(requests) <= Len(replies)
      BY <2>3, <1>3, <2>1 DEF UnderWay
    <3>2. ~ resetAmid' => \A i \in Len(replies) + 1 .. Len(requests) : FALSE
      BY <3>1, <2>1
    <3> QED BY <3>2, <2>2
  <2>4. CASE cmd.Type # "AdminResetLog"
    <3>1. LogicalTime' = LogicalTime + 1
      BY <2>4, <1>2
    <3>2. replies[j].time <= LogicalTime => replies[j].time <= LogicalTime'
      BY <3>1, <2>2, <1>4
    <3> QED BY <3>2, <2>2, <1>3 DEF NextIsLater
  <2> QED BY <2>3, <2>4
<1>10. LogIsPast' /\ Whole(Log')
  <2>1. CASE cmd.Type = "AdminResetLog"
    <3>1. Log' = <<>>
      BY <1>2, <2>1
    <3> QED BY <3>1 DEF LogIsPast, Whole
  <2>2. CASE cmd.Type # "AdminResetLog"
    <3>1. Log' = Log /\ LogicalTime' = LogicalTime + 1
      BY <1>2, <2>2
    <3>2. Log # <<>> => Log[Len(Log)].LogicalTime \in Nat
      <4>1. Log # <<>> => Log[Len(Log)] \in LogEntries
        BY DEF LoopTypeOK
      <4> QED BY <4>1 DEF LogEntries
    <3>3. LogIsPast'
      BY <3>1, <3>2, <1>4 DEF LogIsPast
    <3> QED BY <3>1, <3>3, <1>2
  <2> QED BY <2>1, <2>2
<1>11. InputsAreAnswered'
  BY <1>2 DEF InputsAreAnswered, Handled, Restarts
<1>12. (status # "panicked" => Whole(Log))'
  BY <1>10 DEF Whole
<1> QED BY <1>5, <1>7, <1>8, <1>9, <1>10, <1>11, <1>12
(* A request is handled: logged, and answered if it can be and the         *)
(* scheduler listens.                                                      *)
LEMMA RunCommandStep ==
    ASSUME RequestInv, RunCommand
    PROVE  RequestInv'
<1> USE DEF RequestInv
<1> DEFINE n == Len(replies)
<1>1. /\ status = "running" /\ offered # <<>> /\ offered' = <<>>
      /\ UNCHANGED <<socket, up, requests, resetAmid>>
  BY DEF RunCommand
<1>2. /\ offered \in Seq(Requests) /\ Len(offered) = 1 /\ Head(offered) = offered[1]
      /\ offered[1] \in Requests
  <2>1. offered \in Seq(Requests) /\ Len(offered) <= 1
    BY DEF LoopTypeOK, Flow
  <2>2. Len(offered) \in Nat /\ Len(offered) >= 1 /\ Head(offered) = offered[1]
        /\ Head(offered) \in Requests
    BY <1>1, <2>1, TailFacts
  <2>3. Len(offered) = 1
    <3>1. \A l \in Nat : l <= 1 /\ l >= 1 => l = 1
      OBVIOUS
    <3> QED BY <2>1, <2>2, <3>1, Zenon
  <2> QED BY <2>1, <2>2, <2>3
<1>3. /\ n \in Nat /\ Len(requests) \in Nat /\ Len(socket) \in Nat /\ Taken = n
  BY <1>1 DEF LoopTypeOK, Taken
<1>4. /\ Len(requests) = n + 1 + Len(socket)
      /\ offered[1] = requests[n + 1] /\ n + 1 \in 1 .. Len(requests)
      /\ \A k \in 1 .. Len(socket) : socket[k] = requests[n + 1 + k]
      /\ \A i \in 1 .. Len(requests) : requests[i].id = i /\ requests[i].time <= clock
  BY <1>2, <1>3 DEF Flow
<1>5. PICK request : request = offered[1]
  OBVIOUS
<1>6. /\ request \in Requests /\ request = requests[n + 1] /\ request.id = n + 1
      /\ request.time \in Nat /\ request.id \in Nat
  BY <1>2, <1>4, <1>5 DEF Requests
<1>7. LogicalTime \in Nat /\ clock \in Nat
  BY DEF LoopTypeOK
<1>8. PICK t : t = Merge(LogicalTime, request.time)
  OBVIOUS
<1>9. t \in Nat /\ LogicalTime < t /\ request.time < t
  BY <1>6, <1>7, <1>8 DEF Merge
<1>10. PICK first : first = Entry("LogResumeContinuation", n + 1, t)
  OBVIOUS
<1>11. /\ first \in LogEntries /\ first.Direction = "LogResumeContinuation"
       /\ first.id = n + 1 /\ first.LogicalTime = t
  BY <1>3, <1>9, <1>10 DEF Entry, LogEntries
<1>12. ASSUME clock' \in Nat, clock <= clock', Taken' = n + 1
       PROVE  Flow'
  <2>1. \A i \in 1 .. Len(requests) : requests[i].time \in Nat
    <3>1. \A i \in 1 .. Len(requests) : requests[i] \in Requests
      BY DEF LoopTypeOK
    <3> QED BY <3>1 DEF Requests
  <2>2. \A i \in 1 .. Len(requests) : requests[i].id = i /\ requests[i].time <= clock'
    BY <2>1, <1>4, <1>7, <1>12
  <2>3. Len(offered') = 0 /\ n + 1 + 0 = n + 1
    BY <1>1, <1>3
  <2>4. Len(requests') = Taken' + Len(offered') + Len(socket')
    BY <2>3, <1>1, <1>4, <1>12
  <2>5. \A k \in 1 .. Len(socket') : socket'[k] = requests'[Taken' + Len(offered') + k]
    BY <2>3, <1>1, <1>4, <1>12
  <2>6. \A k \in 1 .. Len(offered') : FALSE
    BY <2>3
  <2> QED BY <2>2, <2>3, <2>4, <2>5, <2>6, <1>1 DEF Flow
<1>13. ASSUME NEW j \in 1 .. n, Received(j)
       PROVE  /\ replies[j].time \in Nat /\ replies[j].time <= clock
              /\ ~ resetAmid => replies[j].time < t
  <2>1. replies[j] \in Replies
    BY DEF LoopTypeOK
  <2>2. replies[j].time \in Nat /\ replies[j].time <= clock
    BY <2>1, <1>13 DEF Replies, NextIsLater
  <2>3. ASSUME ~ resetAmid PROVE replies[j].time < t
    <3>1. CASE replies[j].time <= LogicalTime
      BY <3>1, <2>2, <1>7, <1>9
    <3>2. CASE \A i \in n + 1 .. Len(requests) : replies[j].time < requests[i].time
      <4>1. n + 1 \in n + 1 .. Len(requests)
        BY <1>3, <1>4
      <4>2. replies[j].time < request.time
        BY <4>1, <3>2, <1>6
      <4> QED BY <4>2, <2>2, <1>6, <1>9
    <3> QED BY <3>1, <3>2, <2>3, <1>13 DEF NextIsLater
  <2> QED BY <2>2, <2>3
<1>14. ASSUME replies' = replies, status' = "panicked", clock' = clock, Log' \in Seq(LogEntries),
              inputs' \in [Reactors -> Seq(Nat)], InputsAreAnswered', LogIsPast',
              LogicalTime' \in Nat, t <= LogicalTime'
       PROVE  RequestInv'
  <2>1. offered' \in Seq(Requests)
    BY <1>1
  <2>2. LoopTypeOK'
    BY <2>1, <1>1, <1>14 DEF LoopTypeOK
  <2>3. RepliesFollowRequests'
    BY <1>1, <1>14 DEF RepliesFollowRequests, Received
  <2>4. NextIsLater'
    <3> SUFFICES ASSUME NEW j \in 1 .. n, Received(j)
                 PROVE  /\ replies[j].time <= clock
                        /\ ~ resetAmid => replies[j].time <= LogicalTime'
      BY <1>1, <1>14 DEF NextIsLater, Received
    <3> QED BY <1>13, <1>14, <1>9
  <2>5. Flow'
    <3>1. Taken' = n + 1
      BY <1>14 DEF Taken
    <3> QED BY <3>1, <1>7, <1>12, <1>14
  <2> QED BY <2>2, <2>3, <2>4, <2>5, <1>14
<1>15. CASE request.kind = "unhandled"
  <2>1. /\ LogicalTime' = t /\ Log' = Append(Log, first) /\ status' = "panicked"
        /\ UNCHANGED <<inputs, replies, clock>>
    BY <1>2, <1>5, <1>6, <1>8, <1>10, <1>15 DEF RunCommand, Unhandled
  <2>2. /\ Log' \in Seq(LogEntries) /\ Log'[Len(Log')] = first
        /\ inputs' \in [Reactors -> Seq(Nat)]
    BY <2>1, <1>11 DEF LoopTypeOK
  <2>3. LogIsPast' /\ LogicalTime' \in Nat /\ t <= LogicalTime'
    BY <2>1, <2>2, <1>9, <1>11 DEF LogIsPast
  <2>4. InputsAreAnswered'
    <3>1. Taken' = Taken + 1
      BY <2>1, <1>3 DEF Taken
    <3> QED BY <3>1, <2>1, <1>1, <1>3, <1>6, <1>15, InputsOfBroken DEF Broken
  <2> QED BY <2>1, <2>2, <2>3, <2>4, <1>14
<1>16. CASE request.kind # "unhandled"
  <2> DEFINE second == Entry("LogSend", n + 1, t + 1)
  <2>1. /\ LogicalTime' = t + 1 /\ Log' = Log \o <<first, second>>
        /\ inputs' = processEnvelope(request) /\ Send(request)
    BY <1>2, <1>5, <1>6, <1>8, <1>10, <1>16 DEF RunCommand, Logged, Incr
  <2>2. /\ Whole(Log') /\ Log' \in Seq(LogEntries) /\ Log' # <<>>
        /\ Log'[Len(Log')].LogicalTime = t + 1
    <3>1. /\ second \in LogEntries /\ second.Direction = "LogSend"
          /\ second.id = n + 1 /\ second.LogicalTime = t + 1
      BY <1>3, <1>9 DEF Entry, LogEntries
    <3>2. Log # <<>> => Log[Len(Log)].LogicalTime < t
      <4>1. Log # <<>> => Log[Len(Log)] \in LogEntries
        BY DEF LoopTypeOK
      <4> QED BY <4>1, <1>7, <1>9 DEF LogEntries, LogIsPast
    <3>3. Log' = Log \o <<first, second>> /\ Log \in Seq(LogEntries) /\ Whole(Log)
      BY <2>1, <1>1 DEF LoopTypeOK
    <3> HIDE DEF second
    <3>4. /\ second.id = first.id /\ first.LogicalTime < second.LogicalTime
          /\ Log # <<>> => Log[Len(Log)].LogicalTime < first.LogicalTime
      BY <3>1, <3>2, <1>9, <1>11
    <3>5. /\ Whole(Log') /\ Log' \in Seq(LogEntries)
          /\ Log' # <<>> /\ Log'[Len(Log')] = second
      BY <3>1, <3>3, <3>4, <1>11, WholeGrows, ZenonT(30)
    <3> QED BY <3>1, <3>5
  <2>3. LogIsPast' /\ LogicalTime' \in Nat /\ t <= LogicalTime'
    BY <2>1, <2>2, <1>9 DEF LogIsPast
  <2>4. ASSUME Taken' = n + 1
        PROVE  inputs' \in [Reactors -> Seq(Nat)] /\ InputsAreAnswered'
    <3>1. request.kind \notin Broken
      BY <1>2, <1>5, <1>16 DEF Flow, Broken
    <3> QED BY <3>1, <2>1, <2>4, <1>1, <1>3, <1>6, InputsOneMore
  <2>5. CASE ~ up
    <3>1. status' = "panicked" /\ UNCHANGED <<replies, clock>>
      BY <2>1, <2>5 DEF Send
    <3>2. Taken' = n + 1
      BY <3>1 DEF Taken
    <3> QED BY <3>1, <3>2, <2>2, <2>3, <2>4, <1>14
  <2>6. CASE up
    <3>1. PICK fate \in {"received", "lost"} :
              /\ replies' = Append(replies, [id |-> n + 1, time |-> t + 1, fate |-> fate])
              /\ clock' = IF fate = "received" THEN Merge(clock, t + 1) ELSE clock
              /\ status' = status
      BY <2>1, <2>6, <1>6 DEF Send, Write
    <3>2. PICK reply : reply = [id |-> n + 1, time |-> t + 1, fate |-> fate]
      OBVIOUS
    <3>3. /\ reply \in Replies /\ reply.id = n + 1 /\ reply.time = t + 1
          /\ reply.fate = fate /\ replies' = Append(replies, reply) /\ fate # "skipped"
      BY <3>1, <3>2, <1>3, <1>9 DEF Replies
    <3>4. /\ replies' \in Seq(Replies) /\ Len(replies') = n + 1
          /\ (\A i \in 1 .. n : replies'[i] = replies[i]) /\ replies'[n + 1] = reply
      BY <3>3 DEF LoopTypeOK
    <3>5. clock' \in Nat /\ clock <= clock' /\ (fate = "received" => t + 1 <= clock')
      BY <3>1, <1>7, <1>9 DEF Merge
    <3>6. Taken' = n + 1
      BY <3>1, <3>4, <1>1 DEF Taken
    <3>7. LoopTypeOK'
      <4>1. offered' \in Seq(Requests)
        BY <1>1
      <4> QED BY <4>1, <3>1, <3>4, <3>5, <3>6, <2>2, <2>3, <2>4, <1>1 DEF LoopTypeOK
    <3>8. ASSUME NEW j \in 1 .. n, replies'[j].fate = "received"
          PROVE  /\ replies'[j] = replies[j] /\ replies[j].time <= clock'
                 /\ ~ resetAmid => replies[j].time < t + 1
      <4>1. replies'[j] = replies[j] /\ Received(j)
        BY <3>4, <3>8 DEF Received
      <4> QED BY <4>1, <3>5, <1>7, <1>9, <1>13
    <3>9. RepliesFollowRequests'
      <4> SUFFICES ASSUME NEW i \in 1 .. n + 1
                   PROVE  /\ replies'[i].id = i
                          /\ replies'[i].fate # "skipped" => requests[i].time < replies'[i].time
                          /\ replies'[i].fate = "received" /\ ~ resetAmid =>
                                \A j \in 1 .. i - 1 : replies'[j].fate = "received" =>
                                    replies'[j].time < replies'[i].time
        BY <3>4, <1>1 DEF RepliesFollowRequests, Received
      <4>1. CASE i = n + 1
        <5>1. i - 1 = n /\ request.time < t + 1
          BY <4>1, <1>3, <1>6, <1>9
        <5> QED BY <4>1, <5>1, <3>3, <3>4, <3>8, <1>6
      <4>2. CASE i \in 1 .. n
        <5>1. \A j \in 1 .. i - 1 : j \in 1 .. n
          BY <4>2, <1>3
        <5> QED BY <4>2, <5>1, <3>4 DEF RepliesFollowRequests, Received
      <4> QED BY <4>1, <4>2, <1>3
    <3>10. NextIsLater'
      <4> SUFFICES ASSUME NEW j \in 1 .. n + 1, replies'[j].fate = "received"
                   PROVE  /\ replies'[j].time <= clock'
                          /\ ~ resetAmid => replies'[j].time <= LogicalTime'
        BY <3>4, <1>1 DEF NextIsLater, Received
      <4>1. CASE j = n + 1
        BY <4>1, <3>3, <3>4, <3>5, <2>1, <1>9
      <4>2. CASE j \in 1 .. n
        <5>1. replies[j] \in Replies
          BY <4>2 DEF LoopTypeOK
        <5>2. replies[j].time \in Nat
          BY <5>1 DEF Replies
        <5> QED BY <4>2, <5>2, <3>8, <2>1, <1>9
      <4> QED BY <4>1, <4>2, <1>3
    <3>11. Flow'
      BY <3>5, <3>6, <1>12
    <3>12. (status # "panicked" => Whole(Log))'
      BY <2>2 DEF Whole
    <3> QED BY <3>6, <3>7, <3>9, <3>10, <3>11, <3>12, <2>3, <2>4
  <2> QED BY <2>5, <2>6
<1> QED BY <1>15, <1>16
LEMMA RequestStep ==
    ASSUME RequestInv, [Next]_vars
    PROVE  RequestInv'
<1>1. CASE SchedulerStop
  <2>1. /\ UNCHANGED <<LogicalTime, Log, inputs, status, offered, socket, clock, requests,
                       replies, resetAmid>>
        /\ up' = FALSE
    BY <1>1 DEF SchedulerStop, loopVars
  <2>2. up' \in BOOLEAN
    BY <2>1, Zenon
  <2>3. LoopTypeOK'
    BY <2>1, <2>2 DEF RequestInv, LoopTypeOK
  <2>4. /\ Flow' /\ RepliesFollowRequests' /\ NextIsLater' /\ LogIsPast'
        /\ (status # "panicked" => Whole(Log))'
    BY <2>1 DEF RequestInv, Flow, Taken, RepliesFollowRequests, Received, NextIsLater, LogIsPast,
                Whole
  <2>5. InputsAreAnswered'
    BY <2>1 DEF RequestInv, InputsAreAnswered, Handled, Restarts
  <2> QED BY <2>3, <2>4, <2>5 DEF RequestInv
<1>2. CASE \/ \E a \in Admins : \/ Connect(a) \/ HangUp(a)
                                \/ Accept(a) \/ Scan(a) \/ EndOfConnection(a)
           \/ UNCHANGED vars
  <2>1. UNCHANGED <<LogicalTime, Log, inputs, status, offered, socket, up, clock, requests,
                    replies, resetAmid>>
    BY <1>2 DEF Connect, HangUp, Accept, Scan, EndOfConnection, vars, loopVars, schedulerVars
  <2>2. LoopTypeOK'
    BY <2>1 DEF RequestInv, LoopTypeOK
  <2>3. /\ Flow' /\ RepliesFollowRequests' /\ NextIsLater' /\ LogIsPast'
        /\ (status # "panicked" => Whole(Log))'
    BY <2>1 DEF RequestInv, Flow, Taken, RepliesFollowRequests, Received, NextIsLater, LogIsPast,
                Whole
  <2>4. InputsAreAnswered'
    BY <2>1 DEF RequestInv, InputsAreAnswered, Handled, Restarts
  <2> QED BY <2>2, <2>3, <2>4 DEF RequestInv
<1> QED BY <1>1, <1>2, SchedulerSendStep, FindIncomingStep, RunAdminRequests, RunCommandStep
        DEF Next

---------------------------------------------------------------------------
(* Every dump of the log that an administrator has received is whole. *)
DumpsAreWhole == \A a \in Admins : \A i \in 1 .. Len(answers[a]) : Whole(answers[a][i].log)

LEMMA DumpsStep ==
    ASSUME AdminInv, RequestInv, DumpsAreWhole, [Next]_vars
    PROVE  DumpsAreWhole'
<1>1. CASE RunAdmin
  <2> SUFFICES ASSUME NEW a \in Admins, NEW i \in 1 .. Len(answers'[a])
               PROVE  Whole(answers'[a][i].log)
    BY DEF DumpsAreWhole, Whole
  <2>1. PICK answer : answer = Answer(Head(adminOffered).Type)
    OBVIOUS
  <2>2. Whole(answer.log)
    <3>1. Whole(<<>>)
      BY DEF Whole
    <3>2. Whole(Log)
      BY <1>1 DEF RunAdmin, RequestInv
    <3> QED BY <2>1, <3>1, <3>2 DEF Answer
  <2>3. PICK b : answers' = answers \/ answers' = [answers EXCEPT ![b] = Append(@, answer)]
    BY <1>1, <2>1 DEF RunAdmin, Response
  <2>4. answers[a] \in Seq(AdminAnswers) /\ DOMAIN answers = Admins
    BY DEF AdminInv, AdminTypeOK
  <2>5. CASE answers'[a] = answers[a]
    BY <2>5 DEF DumpsAreWhole
  <2>6. CASE answers'[a] = Append(answers[a], answer)
    <3>1. \/ i \in 1 .. Len(answers[a]) /\ answers'[a][i] = answers[a][i]
          \/ answers'[a][i] = answer
      BY <2>4, <2>6
    <3> QED BY <3>1, <2>2 DEF DumpsAreWhole
  <2> QED BY <2>3, <2>4, <2>5, <2>6
<1>2. CASE ~ RunAdmin
  <2>1. answers' = answers
    BY <1>2 DEF Next, SchedulerSend, SchedulerStop, findIncoming, Connect, HangUp, Accept, Scan,
                EndOfConnection, RunCommand, vars, adminVars
  <2> QED BY <2>1 DEF DumpsAreWhole
<1> QED BY <1>1, <1>2

LEMMA LoopInvariants == Spec => [](AdminInv /\ RequestInv /\ DumpsAreWhole)
<1>1. Init => AdminInv /\ RequestInv /\ DumpsAreWhole
  <2>1. Init => DumpsAreWhole
    BY DEF Init, DumpsAreWhole
  <2> QED BY <2>1, AdminInitInv, RequestInitInv
<1>2. AdminInv /\ RequestInv /\ DumpsAreWhole /\ [Next]_vars =>
          (AdminInv /\ RequestInv /\ DumpsAreWhole)'
  <2>1. RequestInv => LoopTypeOK
    BY DEF RequestInv
  <2> QED BY <2>1, AdminStep, RequestStep, DumpsStep
<1> QED BY <1>1, <1>2, PTL DEF Spec

(* One connection is accepted at a time. *)
LEMMA OneAccepted ==
    ASSUME AdminInv
    PROVE  Cardinality({a \in Admins : connection[a] = "accepted"}) <= 1
<1> DEFINE S == {a \in Admins : connection[a] = "accepted"}
<1>1. ASSUME NEW a \in S, NEW b \in S PROVE a = b
  <2>1. a \in Admins /\ b \in Admins /\ a \in Nat /\ b \in Nat
    BY EventLoopAssumption DEF Admins
  <2>2. CASE a < b
    <3>1. a \in 1 .. b - 1
      BY <2>1, <2>2, EventLoopAssumption DEF Admins
    <3> QED BY <3>1, <2>1 DEF AdminInv, InTurn
  <2>3. CASE b < a
    <3>1. b \in 1 .. a - 1
      BY <2>1, <2>3, EventLoopAssumption DEF Admins
    <3> QED BY <3>1, <2>1 DEF AdminInv, InTurn
  <2> QED BY <2>1, <2>2, <2>3
<1>2. CASE S = {}
  BY <1>2, FS_EmptySet
<1>3. CASE S # {}
  <2>1. PICK a : S = {a}
    BY <1>1, <1>3
  <2>2. Cardinality({a}) = 1
    BY FS_Singleton
  <2> HIDE DEF S
  <2>3. Cardinality(S) = 1
    BY <2>1, <2>2
  <2> QED BY <2>3 DEF S
<1> QED BY <1>2, <1>3

(* Whatever administrators do between them and whichever requests are      *)
(* broken, the log (unless the loop has panicked) and every dump of it     *)
(* hold whole steps at increasing times, requests are dealt with in order, *)
(* and the reactors have handled exactly those that were (one more after a *)
(* panic).                                                                 *)
THEOREM RequestsAreHandledWhole == Spec => []LoopInv
<1>1. AdminInv /\ RequestInv => TypeOK
  <2> SUFFICES ASSUME AdminInv, RequestInv PROVE TypeOK
    OBVIOUS
  <2>1. /\ LogicalTime \in Nat /\ clock \in Nat
        /\ status \in {"running", "quit", "panicked"}
        /\ Len(offered) <= 1 /\ Len(adminOffered) <= 1
        /\ connection \in [Admins -> {"none", "waiting", "accepted", "over"}]
    BY DEF AdminInv, AdminTypeOK, RequestInv, LoopTypeOK, Flow
  <2>2. ASSUME NEW i \in 1 .. Len(socket) - 1 PROVE socket[i + 1].id = socket[i].id + 1
    <3>1. PICK b : b = Taken + Len(offered)
      OBVIOUS
    <3>2. /\ b \in Nat /\ Len(socket) \in Nat /\ Len(requests) = b + Len(socket)
          /\ \A k \in 1 .. Len(socket) : socket[k] = requests[b + k]
          /\ \A k \in 1 .. Len(requests) : requests[k].id = k
      <4>1. /\ Len(requests) = Taken + Len(offered) + Len(socket)
            /\ \A k \in 1 .. Len(socket) : socket[k] = requests[Taken + Len(offered) + k]
            /\ \A k \in 1 .. Len(requests) : requests[k].id = k
        BY DEF RequestInv, Flow
      <4>2. Taken + Len(offered) \in Nat /\ Len(socket) \in Nat
        BY DEF RequestInv, LoopTypeOK, Taken
      <4> QED BY <3>1, <4>1, <4>2
    <3>3. i \in 1 .. Len(socket) /\ i + 1 \in 1 .. Len(socket)
          /\ b + i \in 1 .. Len(requests) /\ b + (i + 1) \in 1 .. Len(requests)
      BY <3>2
    <3>4. socket[i].id = b + i /\ socket[i + 1].id = b + (i + 1)
      BY <3>2, <3>3
    <3> QED BY <3>2, <3>3, <3>4
  <2> QED BY <2>1, <2>2, OneAccepted DEF TypeOK
<1>2. RequestInv /\ DumpsAreWhole => LogsAreWhole /\ RepliesFollowRequests /\ InputsAreAnswered
  BY DEF RequestInv, DumpsAreWhole, LogsAreWhole
<1> QED BY <1>1, <1>2, LoopInvariants, PTL DEF LoopInv

(* Commands and connections are not synchronised; an administrator gets at *)
(* most one answer all the same, and it is the one to its first command.   *)
THEOREM OneAnswerToTheFirst == Spec => []AnswersMatchCommands
<1>1. AdminInv => AnswersMatchCommands
  BY DEF AdminInv
<1> QED BY <1>1, LoopInvariants, PTL
=============================================================================
