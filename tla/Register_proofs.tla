-------------------------- MODULE Register_proofs ---------------------------
(***************************************************************************)
(* What the replicated register promises its clients, for every test, any  *)
(* number of clients, losses and restarts, and every deployment.           *)
(***************************************************************************)
EXTENDS Register, TLAPS

Number == 1 .. Len(requests)

RequestRecords ==
    [client : Clients, request : Requests, session : Sessions, acked : SUBSET Numbers]

(* The clients have made the first requests of the test; session numbers   *)
(* do not run ahead of them.                                               *)
Made ==
    /\ agenda \in Agendas
    /\ requests \in Seq(RequestRecords)
    /\ Len(requests) <= Len(agenda)
    /\ NextSessionId \in Nat /\ NextSessionId <= Len(requests)

(* A session that was handed out has requests, the last of which is known. *)
HasLast(s) == \E n \in RequestsOfSession(s) : \A k \in RequestsOfSession(s) : k <= n

SessionsWereRequested ==
    /\ \A n \in Number : HasLast(requests[n].session)
    /\ \A s \in 0 .. NextSessionId - 1 : HasLast(s)

(* A session in flight is in flight for the client that opened it last. *)
InFlightForItsClient ==
    /\ InFlight \in [DOMAIN InFlight -> Clients]
    /\ DOMAIN InFlight \subseteq 0 .. NextSessionId - 1
    /\ \A s \in DOMAIN InFlight :
          \A n \in RequestsOfSession(s) :
              (\A k \in RequestsOfSession(s) : k <= n) => requests[n].client = InFlight[s]

(* Requests that are on their way, or that will be sent again, are what    *)
(* some client asked for; a write carries its own number.                  *)
IsRequestOf(n, s, req) ==
    /\ n \in RequestsOfSession(s)
    /\ requests[n].request = req
    /\ req.op \in {"read", "write"}
    /\ req.op = "write" => req.value = n

OnGoingWereMade ==
    /\ OnGoing \subseteq OnGoingRequests
    /\ \A on \in OnGoing : \E n \in Number : IsRequestOf(n, on.session, on.request)

(* A register's sessions are those of the writes in its value. *)
RegistersOK ==
    /\ register \in [Registers -> [Value : Seq(Numbers), Sessions : SUBSET Sessions]]
    /\ \A r \in Registers :
          /\ \A i \in 1 .. Len(register[r].Value) :
                LET n == register[r].Value[i]
                IN  n \in Number /\ requests[n].session \in register[r].Sessions
          /\ \A s \in register[r].Sessions :
                \E i \in 1 .. Len(register[r].Value) :
                    requests[register[r].Value[i]].session = s

(* What is in the network: requests that were made, and answers to them.   *)
(* A register acknowledges what it has applied.                            *)
RequestOK(m) ==
    m.kind = "request" => \E n \in Number : IsRequestOf(n, m.session, m.request)

ResponseOK(m) ==
    m.kind = "response" =>
        \E n \in RequestsOfSession(m.session) :
            \/ /\ requests[n].request.op = "read"
               /\ m.response.op = "value"
            \/ /\ requests[n].request.op = "write"
               /\ m.response = Ack
               /\ m.session \in register[m.register].Sessions

NetworkOK ==
    \A m \in network :
        /\ m.register \in Registers /\ m.session \in Sessions
        /\ m.kind \in {"request", "response"}
        /\ RequestOK(m) /\ ResponseOK(m)

AnswersOK ==
    /\ \A a \in answers : a.number \in Number /\ a.client \in Clients
    /\ again \subseteq Number

RestTypeOK ==
    /\ <<version, executor>> \in Deployments
    /\ ReceivedResponse \subseteq Sessions
    /\ fatal \in BOOLEAN
    /\ timers \subseteq 0 .. ResendTimer
    /\ open \in [Clients -> 0 .. Len(agenda)]
    /\ losses \in 0 .. MaxLosses /\ restarts \in 0 .. MaxRestarts

BaseInv ==
    /\ RestTypeOK /\ Made /\ SessionsWereRequested /\ InFlightForItsClient
    /\ OnGoingWereMade /\ RegistersOK /\ NetworkOK /\ AnswersOK
    /\ WritesAppliedOnce

(* Versions 3 and 4: when the front end no longer waits for a register, it *)
(* has applied the session's write.                                        *)
NotWaitedForHasWrite ==
    version \in {3, 4} =>
        \A n \in Number : \A r \in Registers :
            LET s == requests[n].session
            IN  /\ OwnSession(n) /\ requests[n].request.op = "write"
                /\ version = 3 \/ s \in DOMAIN InFlight
                /\ \A on \in OnGoing : on.session = s => on.register # r
                => s \in register[r].Sessions

(* A response to a read that is under way has every write that had been    *)
(* acknowledged when the read was made.                                    *)
ResponsesSeeAckedWrites ==
    version \in {3, 4} =>
        \A m \in network : m.kind = "response" /\ m.response.op = "value" =>
            \A k \in Number : k \in RequestsOfSession(m.session) /\ OwnSession(k) =>
                \A n \in requests[k].acked : OwnSession(n) => n \in Range(m.response.value)

(* What the front end waits for is of a session in flight. *)
OnGoingInFlight ==
    version \in {3, 4} => \A on \in OnGoing : on.session \in DOMAIN InFlight

AckedBefore == \A n \in Number : requests[n].acked \subseteq Acked

AckedInv ==
    /\ AckedWritesOnBoth /\ ReadsSeeAckedWrites
    /\ NotWaitedForHasWrite /\ ResponsesSeeAckedWrites /\ AckedBefore /\ OnGoingInFlight

(* Every version but the third: the session of a request that was answered *)
(* is closed, or was opened again for a later request.                     *)
AnsweredIsClosed ==
    version # 3 =>
        \A a \in answers :
            requests[a.number].session \in DOMAIN InFlight =>
                \E k \in RequestsOfSession(requests[a.number].session) : ~(k <= a.number)

AskerInv == AnsweredIsClosed /\ AskerAnsweredUnlessVersion3
---------------------------------------------------------------------------
(* Requests are numbered from 1, sessions from 0. *)
LEMMA NumberTypes ==
    /\ Numbers \subseteq Nat \ {0}
    /\ Sessions \subseteq Nat
    /\ \A a \in Agendas : Len(a) \in Nat /\ 1 .. Len(a) \subseteq Numbers
    /\ \A a \in Agendas : 0 .. Len(a) - 1 \subseteq Sessions
<1>1. \A a \in Agendas : Len(a) \in Nat /\ DOMAIN a = 1 .. Len(a)
  BY RegisterAssumption
<1>2. Numbers \subseteq Nat \ {0}
  BY <1>1 DEF Numbers
<1>3. Sessions \subseteq Nat
  BY <1>2 DEF Sessions
<1>4. ASSUME NEW a \in Agendas PROVE 1 .. Len(a) \subseteq Numbers
  BY <1>1 DEF Numbers
<1>5. ASSUME NEW a \in Agendas, NEW s \in 0 .. Len(a) - 1 PROVE s \in Sessions
  <2>1. s + 1 \in 1 .. Len(a) /\ (s + 1) - 1 = s
    BY <1>1
  <2> QED BY <2>1, <1>4 DEF Sessions
<1> QED BY <1>1, <1>2, <1>3, <1>4, <1>5

(* The facts about requests and sessions the steps below use. *)
LEMMA RequestTypes ==
    ASSUME BaseInv
    PROVE  /\ Len(agenda) \in Nat /\ Len(requests) \in Nat
           /\ Number \subseteq Numbers /\ Number \subseteq Nat \ {0}
           /\ \A n \in Number : /\ requests[n].client \in Clients
                                /\ requests[n].session \in Sessions
                                /\ requests[n].session \in Nat
                                /\ requests[n].acked \subseteq Numbers
           /\ \A s : RequestsOfSession(s) \subseteq Number
           /\ 0 .. NextSessionId - 1 \subseteq Sessions
<1>1. Len(agenda) \in Nat /\ Len(requests) \in Nat /\ Len(requests) <= Len(agenda)
  BY NumberTypes DEF BaseInv, Made
<1>2. Number \subseteq Numbers
  BY <1>1, NumberTypes DEF BaseInv, Made, Number
<1>3. \A n \in Number : requests[n] \in RequestRecords
  BY DEF BaseInv, Made, Number
<1>4. 0 .. NextSessionId - 1 \subseteq 0 .. Len(agenda) - 1
  BY <1>1 DEF BaseInv, Made
<1> QED BY <1>1, <1>2, <1>3, <1>4, NumberTypes
     DEF Number, RequestsOfSession, RequestRecords, BaseInv, Made

---------------------------------------------------------------------------
LEMMA RegisterInit == Init => BaseInv /\ AckedInv /\ AskerInv /\ TimersCoverRequests
<1> SUFFICES ASSUME Init PROVE BaseInv /\ AckedInv /\ AskerInv /\ TimersCoverRequests
  OBVIOUS
<1>1. requests = <<>> /\ Len(requests) = 0 /\ Number = {} /\ answers = {} /\ again = {}
      /\ network = {} /\ OnGoing = {}
  BY DEF Init, Number
<1>2. RestTypeOK
  <2>1. PICK d \in Deployments : version = d[1] /\ executor = d[2]
    BY DEF Init
  <2>2. d = <<d[1], d[2]>>
    BY RegisterAssumption
  <2>3. <<version, executor>> \in Deployments
    BY <2>1, <2>2
  <2>4. Len(agenda) \in Nat
    BY RegisterAssumption DEF Init
  <2> QED BY <2>3, <2>4, RegisterAssumption DEF Init, RestTypeOK
<1>3. Made /\ SessionsWereRequested
  BY <1>1, RegisterAssumption DEF Init, Made, SessionsWereRequested
<1>4. InFlightForItsClient
  BY DEF Init, InFlightForItsClient
<1>5. OnGoingWereMade /\ NetworkOK /\ AnswersOK
  BY <1>1 DEF OnGoingWereMade, NetworkOK, AnswersOK
<1>6. RegistersOK /\ WritesAppliedOnce
  BY DEF Init, RegistersOK, WritesAppliedOnce, NewRegister
<1>7. AckedInv
  BY <1>1 DEF AckedInv, AckedWritesOnBoth, ReadsSeeAckedWrites, NotWaitedForHasWrite,
              ResponsesSeeAckedWrites, AckedBefore, Acked, OnGoingInFlight
<1>8. AskerInv
  BY <1>1 DEF AskerInv, AnsweredIsClosed, AskerAnsweredUnlessVersion3, OnlyTheAskerIsAnswered
<1>9. TimersCoverRequests
  BY <1>1 DEF TimersCoverRequests
<1> QED BY <1>2, <1>3, <1>4, <1>5, <1>6, <1>7, <1>8, <1>9 DEF BaseInv
---------------------------------------------------------------------------
RegInv == BaseInv /\ AckedInv /\ AskerInv

(* As long as no request is made, what is said of requests stays true.     *)
LEMMA RequestsKept ==
    ASSUME requests' = requests
    PROVE  /\ Number' = Number
           /\ \A s : RequestsOfSession(s)' = RequestsOfSession(s)
           /\ \A n : OwnSession(n)' = OwnSession(n)
           /\ \A s : HasLast(s)' = HasLast(s)
           /\ \A n, s, req : IsRequestOf(n, s, req)' = IsRequestOf(n, s, req)
BY DEF Number, RequestsOfSession, OwnSession, HasLast, IsRequestOf

(* Steps of the front end and the network by themselves: the front end     *)
(* may forget sessions, and everything it sends are requests it knows.     *)
LEMMA FrontEndStep ==
    ASSUME RegInv,
           UNCHANGED <<version, executor, agenda, requests, register, answers, again>>,
           RestTypeOK',
           NextSessionId' \in 0 .. NextSessionId,
           InFlight' \in [DOMAIN InFlight' -> Clients],
           DOMAIN InFlight' \subseteq 0 .. NextSessionId' - 1,
           \A s \in DOMAIN InFlight' : s \in DOMAIN InFlight /\ InFlight'[s] = InFlight[s],
           InFlight' = InFlight \/ OnGoing' = {},
           OnGoing' \subseteq OnGoingRequests,
           \A on \in OnGoing' :
               \E o \in OnGoing : o.session = on.session /\ o.request = on.request,
           \A o \in OnGoing : version = 3 \/ o.session \in DOMAIN InFlight' =>
               \E on \in OnGoing' : on.session = o.session /\ on.register = o.register,
           \A m \in network' \ network :
               \E o \in OnGoing : m = InternalRequest(o.register, o.session, o.request)
    PROVE  RegInv'
<1>1. /\ Number' = Number
      /\ \A s : RequestsOfSession(s)' = RequestsOfSession(s)
      /\ \A n : OwnSession(n)' = OwnSession(n)
      /\ \A s : HasLast(s)' = HasLast(s)
      /\ \A n, s, req : IsRequestOf(n, s, req)' = IsRequestOf(n, s, req)
  BY RequestsKept
<1>2. Made' /\ SessionsWereRequested' /\ InFlightForItsClient'
  <2>1. NextSessionId' \in Nat /\ NextSessionId' <= NextSessionId
        /\ NextSessionId \in Nat /\ Len(requests) \in Nat /\ NextSessionId <= Len(requests)
    BY RequestTypes DEF RegInv, BaseInv, Made
  <2>2. Made'
    BY <2>1 DEF RegInv, BaseInv, Made
  <2>3. SessionsWereRequested'
    BY <1>1, <2>1 DEF RegInv, BaseInv, SessionsWereRequested
  <2>4. InFlightForItsClient'
    BY <1>1 DEF RegInv, BaseInv, InFlightForItsClient
  <2> QED BY <2>2, <2>3, <2>4
<1>3. OnGoingWereMade'
  <2>1. ASSUME NEW on \in OnGoing'
        PROVE  \E n \in Number : IsRequestOf(n, on.session, on.request)
    BY DEF RegInv, BaseInv, OnGoingWereMade
  <2> QED BY <2>1, <1>1 DEF OnGoingWereMade
<1>4. RegistersOK' /\ WritesAppliedOnce'
  BY <1>1 DEF RegInv, BaseInv, RegistersOK, WritesAppliedOnce
<1>5. NetworkOK'
  <2> SUFFICES ASSUME NEW m \in network'
               PROVE  /\ m.register \in Registers /\ m.session \in Sessions
                      /\ m.kind \in {"request", "response"}
                      /\ RequestOK(m)' /\ ResponseOK(m)'
    BY DEF NetworkOK
  <2>1. CASE m \in network
    BY <2>1, <1>1 DEF RegInv, BaseInv, NetworkOK, RequestOK, ResponseOK
  <2>2. CASE m \notin network
    <3>1. PICK o \in OnGoing : m = InternalRequest(o.register, o.session, o.request)
      BY <2>2
    <3>2. o \in OnGoingRequests /\ \E n \in Number : IsRequestOf(n, o.session, o.request)
      BY DEF RegInv, BaseInv, OnGoingWereMade
    <3> QED BY <3>1, <3>2, <1>1
            DEF InternalRequest, OnGoingRequests, RequestOK, ResponseOK
  <2> QED BY <2>1, <2>2
<1>6. AnswersOK'
  BY <1>1 DEF RegInv, BaseInv, AnswersOK
<1>7. AckedWritesOnBoth' /\ ReadsSeeAckedWrites' /\ AckedBefore'
  BY <1>1 DEF RegInv, AckedInv, AckedWritesOnBoth, ReadsSeeAckedWrites, AckedBefore, Acked
<1>8. NotWaitedForHasWrite'
  BY <1>1 DEF RegInv, AckedInv, NotWaitedForHasWrite
<1>9. ResponsesSeeAckedWrites'
  <2>1. \A m \in network' : m.kind = "response" => m \in network
    BY DEF InternalRequest
  <2> QED BY <1>1, <2>1 DEF RegInv, AckedInv, ResponsesSeeAckedWrites
<1>10. AskerInv'
  BY <1>1 DEF RegInv, AskerInv, AnsweredIsClosed, AskerAnsweredUnlessVersion3,
              OnlyTheAskerIsAnswered
<1>11. OnGoingInFlight'
  BY DEF RegInv, AckedInv, OnGoingInFlight
<1> QED BY <1>2, <1>3, <1>4, <1>5, <1>6, <1>7, <1>8, <1>9, <1>10, <1>11
        DEF RegInv, BaseInv, AckedInv
(* What is resent, or grows older, is the same but for its age. *)
LEMMA AgedStep ==
    ASSUME RegInv,
           \A on \in OnGoing' : \E o \in OnGoing : on \in {o, Again(o), Older(o)},
           \A o \in OnGoing : \E on \in OnGoing' : on \in {o, Again(o), Older(o)}
    PROVE  /\ OnGoing' \subseteq OnGoingRequests
           /\ \A on \in OnGoing' :
                  \E o \in OnGoing : o.session = on.session /\ o.request = on.request
           /\ \A o \in OnGoing :
                  \E on \in OnGoing' : on.session = o.session /\ on.register = o.register
<1>1. ASSUME NEW o \in OnGoing, NEW on \in {o, Again(o), Older(o)}
      PROVE  /\ on \in OnGoingRequests
             /\ on.session = o.session /\ on.request = o.request /\ on.register = o.register
  <2>1. o \in OnGoingRequests
    BY DEF RegInv, BaseInv, OnGoingWereMade
  <2> QED BY <2>1 DEF OnGoingRequests, Again, Older, Old
<1> QED BY <1>1

LEMMA ResendStep ==
    ASSUME RegInv, Tick \/ Timer
    PROVE  RegInv'
<1> DEFINE f(on) == IF After(on) THEN Again(on) ELSE on
<1>1. /\ OnGoing' = {f(on) : on \in OnGoing}
      /\ network' = network \cup translate(Resent)
      /\ UNCHANGED <<version, executor, agenda, NextSessionId, InFlight, ReceivedResponse,
                     fatal, register, requests, open, answers, again, losses, restarts>>
  BY DEF Tick, Timer, Resend, client
<1>2. timers' \subseteq timers \cup {ResendTimer}
  BY DEF Tick, Timer
<1>3. RestTypeOK'
  BY <1>1, <1>2 DEF RegInv, BaseInv, RestTypeOK, ResendTimer, Old
<1>4. /\ OnGoing' \subseteq OnGoingRequests
      /\ \A on \in OnGoing' :
             \E o \in OnGoing : o.session = on.session /\ o.request = on.request
      /\ \A o \in OnGoing :
             \E on \in OnGoing' : on.session = o.session /\ on.register = o.register
  <2>1. /\ \A on \in OnGoing' : \E o \in OnGoing : on \in {o, Again(o)}
        /\ \A o \in OnGoing : \E on \in OnGoing' : on \in {o, Again(o)}
    BY <1>1
  <2> QED BY <2>1, AgedStep
<1>5. ASSUME NEW m \in network' \ network
      PROVE  \E o \in OnGoing : m = InternalRequest(o.register, o.session, o.request)
  <2>1. PICK on \in Resent : m = InternalRequest(on.register, on.session, on.request)
    BY <1>1 DEF translate
  <2>2. PICK o \in OnGoing : on = Again(o)
    BY DEF Resent
  <2>3. o \in OnGoingRequests
    BY DEF RegInv, BaseInv, OnGoingWereMade
  <2> QED BY <2>1, <2>2, <2>3 DEF Again, OnGoingRequests
<1> QED BY <1>1, <1>3, <1>4, <1>5, FrontEndStep
        DEF RegInv, BaseInv, Made, InFlightForItsClient

(* Time passes, a message is lost, a client gives up, the front end is     *)
(* restarted.                                                              *)
LEMMA EnvironmentStep ==
    ASSUME RegInv,
           \/ Elapse
           \/ \E m \in network : Lose(m)
           \/ \E c \in Clients : Expire(c)
           \/ Restart
    PROVE  RegInv'
<1> USE DEF frontend, client
<1>1. CASE Elapse
  <2>1. /\ OnGoing' \subseteq OnGoingRequests
        /\ \A on \in OnGoing' :
               \E o \in OnGoing : o.session = on.session /\ o.request = on.request
        /\ \A o \in OnGoing :
               \E on \in OnGoing' : on.session = o.session /\ on.register = o.register
    <3>1. /\ \A on \in OnGoing' : \E o \in OnGoing : on = Older(o)
          /\ \A o \in OnGoing : \E on \in OnGoing' : on = Older(o)
      BY <1>1 DEF Elapse
    <3> QED BY <3>1, AgedStep
  <2>2. RestTypeOK'
    BY <1>1 DEF Elapse, RegInv, BaseInv, RestTypeOK, ResendTimer, Old
  <2> QED BY <1>1, <2>1, <2>2, FrontEndStep
          DEF Elapse, RegInv, BaseInv, Made, InFlightForItsClient
<1>2. CASE \E m \in network : Lose(m)
  <2>1. RestTypeOK'
    BY <1>2, RegisterAssumption DEF Lose, RegInv, BaseInv, RestTypeOK
  <2> QED BY <1>2, <2>1, FrontEndStep
          DEF Lose, RegInv, BaseInv, Made, InFlightForItsClient, OnGoingWereMade
<1>3. CASE \E c \in Clients : Expire(c)
  <2>1. RestTypeOK'
    BY <1>3, RequestTypes DEF Expire, RegInv, BaseInv, RestTypeOK
  <2> QED BY <1>3, <2>1, FrontEndStep
          DEF Expire, RegInv, BaseInv, Made, InFlightForItsClient, OnGoingWereMade
<1>4. CASE Restart
  <2>1. RestTypeOK'
    BY <1>4, RegisterAssumption DEF Restart, RegInv, BaseInv, RestTypeOK
  <2>2. version # 3
    BY <1>4, RegisterAssumption DEF Restart, RegInv, BaseInv, RestTypeOK
  <2>3. DOMAIN InFlight' = {} /\ InFlight' \in [DOMAIN InFlight' -> Clients]
    BY <1>4 DEF Restart
  <2>4. UNCHANGED <<version, executor, agenda, requests, register, answers, again, network>>
        /\ OnGoing' = {} /\ NextSessionId' = 0
    BY <1>4 DEF Restart
  <2>5. NextSessionId' \in 0 .. NextSessionId
    BY <2>4 DEF RegInv, BaseInv, Made
  <2> QED BY <2>1, <2>2, <2>3, <2>4, <2>5, FrontEndStep
<1> QED BY <1>1, <1>2, <1>3, <1>4
---------------------------------------------------------------------------
(* Register.Receive of a write: a session that was seen is not applied     *)
(* again, and nothing that was applied is lost.                            *)
LEMMA ApplyWrite ==
    ASSUME BaseInv, requests' = requests,
           NEW r \in Registers, NEW m, m.session \in Sessions,
           m.request.value \in RequestsOfSession(m.session),
           ReceiveWrite(r, m)
    PROVE  /\ RegistersOK' /\ WritesAppliedOnce'
           /\ m.session \in register'[r].Sessions
           /\ \A q \in Registers :
                 /\ register[q].Sessions \subseteq register'[q].Sessions
                 /\ Range(register[q].Value) \subseteq Range(register'[q].Value)
<1> DEFINE v == m.request.value
           s == m.session
<1>1. register \in [Registers -> [Value : Seq(Numbers), Sessions : SUBSET Sessions]]
  BY DEF BaseInv, RegistersOK
<1>2. v \in Number /\ v \in Numbers /\ requests[v].session = s /\ Number' = Number
  BY RequestTypes DEF RequestsOfSession, Number
<1>3. CASE s \in register[r].Sessions
  BY <1>2, <1>3 DEF ReceiveWrite, BaseInv, RegistersOK, WritesAppliedOnce
<1>4. CASE s \notin register[r].Sessions
  <2> DEFINE old == register[r].Value
             new == Append(old, v)
  <2>1. /\ register' \in [Registers -> [Value : Seq(Numbers), Sessions : SUBSET Sessions]]
        /\ register'[r].Value = new
        /\ register'[r].Sessions = register[r].Sessions \cup {s}
        /\ \A q \in Registers \ {r} : register'[q] = register[q]
    BY <1>1, <1>2, <1>4 DEF ReceiveWrite
  <2>2. old \in Seq(Numbers) /\ Len(old) \in Nat
    BY <1>1
  <2>3. /\ Len(new) = Len(old) + 1 /\ new[Len(old) + 1] = v
        /\ \A i \in 1 .. Len(old) : new[i] = old[i]
        /\ DOMAIN old = 1 .. Len(old) /\ DOMAIN new = 1 .. Len(new)
    BY <2>2, <1>2
  <2>4. \A i \in 1 .. Len(old) : old[i] \in Number /\ requests[old[i]].session \in register[r].Sessions
    BY DEF BaseInv, RegistersOK
  <2>5. \A i \in 1 .. Len(old) : old[i] # v
    BY <2>4, <1>2, <1>4
  <2>6. RegistersOK'
    <3>1. ASSUME NEW i \in 1 .. Len(new)
          PROVE  new[i] \in Number /\ requests[new[i]].session \in register'[r].Sessions
      <4>1. CASE i = Len(old) + 1
        BY <4>1, <2>1, <2>3, <1>2
      <4>2. CASE i \in 1 .. Len(old)
        BY <4>2, <2>1, <2>3, <2>4
      <4> QED BY <4>1, <4>2, <2>2, <2>3
    <3>2. ASSUME NEW t \in register'[r].Sessions
          PROVE  \E i \in 1 .. Len(new) : requests[new[i]].session = t
      <4>1. CASE t = s
        BY <4>1, <2>2, <2>3, <1>2
      <4>2. CASE t # s
        <5>1. PICK i \in 1 .. Len(old) : requests[old[i]].session = t
          BY <4>2, <2>1 DEF BaseInv, RegistersOK
        <5>2. i \in 1 .. Len(new) /\ new[i] = old[i]
          BY <2>2, <2>3
        <5> QED BY <5>1, <5>2
      <4> QED BY <4>1, <4>2
    <3>3. ASSUME NEW q \in Registers
          PROVE  /\ \A i \in 1 .. Len(register'[q].Value) :
                       /\ register'[q].Value[i] \in Number
                       /\ requests[register'[q].Value[i]].session \in register'[q].Sessions
                 /\ \A t \in register'[q].Sessions :
                       \E i \in 1 .. Len(register'[q].Value) :
                           requests[register'[q].Value[i]].session = t
      <4>1. CASE q = r
        <5> HIDE DEF new
        <5> QED BY <4>1, <2>1, <3>1, <3>2
      <4>2. CASE q # r
        BY <4>2, <2>1, SMTT(30) DEF BaseInv, RegistersOK
      <4> QED BY <4>1, <4>2
    <3>4. requests' = requests /\ Number' = Number
      BY <1>2
    <3> HIDE DEF new
    <3> QED BY <2>1, <3>3, <3>4, SMTT(30) DEF RegistersOK
  <2>7. WritesAppliedOnce'
    <3>1. ASSUME NEW i \in 1 .. Len(new), NEW j \in 1 .. Len(new), new[i] = new[j]
          PROVE  i = j
      <4>1. \A k \in 1 .. Len(new) : k = Len(old) + 1 \/ k \in 1 .. Len(old)
        BY <2>2, <2>3
      <4>2. CASE i \in 1 .. Len(old) /\ j \in 1 .. Len(old)
        BY <4>2, <3>1, <2>3 DEF BaseInv, WritesAppliedOnce
      <4>3. CASE i = Len(old) + 1 \/ j = Len(old) + 1
        BY <4>1, <4>3, <3>1, <2>3, <2>5
      <4> QED BY <4>1, <4>2, <4>3
    <3> QED BY <3>1, <2>1 DEF BaseInv, WritesAppliedOnce
  <2>8. Range(old) \subseteq Range(new)
    BY <2>2, <2>3 DEF Range
  <2> QED BY <2>1, <2>6, <2>7, <2>8
<1> QED BY <1>3, <1>4

LEMMA ReceiveRequestStep ==
    ASSUME RegInv, NEW r \in Registers, NEW m \in network, ReceiveRequest(r, m)
    PROVE  RegInv'
<1> DEFINE resp == IF m.request.op = "read" THEN Value(register[r].Value) ELSE Ack
           answer == InternalResponse(r, m.session, resp)
<1>1. /\ UNCHANGED <<version, executor, agenda, NextSessionId, InFlight, OnGoing,
                     ReceivedResponse, fatal, timers, requests, open, answers, again,
                     losses, restarts>>
      /\ network' = (network \ {m}) \cup {answer}
      /\ m.kind = "request" /\ m.register = r
  BY DEF ReceiveRequest, frontend, client
<1>2. /\ Number' = Number
      /\ \A s : RequestsOfSession(s)' = RequestsOfSession(s)
      /\ \A n : OwnSession(n)' = OwnSession(n)
      /\ \A s : HasLast(s)' = HasLast(s)
      /\ \A n, s, req : IsRequestOf(n, s, req)' = IsRequestOf(n, s, req)
  BY <1>1, RequestsKept
<1>3. m.session \in Sessions
  BY DEF RegInv, BaseInv, NetworkOK
<1>4. PICK n \in Number : IsRequestOf(n, m.session, m.request)
  BY <1>1 DEF RegInv, BaseInv, NetworkOK, RequestOK
<1>5. /\ n \in RequestsOfSession(m.session) /\ requests[n].request = m.request
      /\ m.request.op \in {"read", "write"}
      /\ m.request.op = "write" => m.request.value = n
  BY <1>4 DEF IsRequestOf
<1>6. /\ RegistersOK' /\ WritesAppliedOnce'
      /\ m.request.op = "write" => m.session \in register'[r].Sessions
      /\ \A q \in Registers :
            /\ register[q].Sessions \subseteq register'[q].Sessions
            /\ Range(register[q].Value) \subseteq Range(register'[q].Value)
  <2>1. CASE m.request.op = "read"
    <3>1. register' = register
      BY <2>1 DEF ReceiveRequest
    <3>2. RegistersOK'
      BY <3>1, <1>1, <1>2 DEF RegInv, BaseInv, RegistersOK
    <3>3. WritesAppliedOnce'
      BY <3>1, <1>1, <1>2 DEF RegInv, BaseInv, WritesAppliedOnce
    <3>4. \A q \in Registers :
             /\ register[q].Sessions \subseteq register'[q].Sessions
             /\ Range(register[q].Value) \subseteq Range(register'[q].Value)
      BY <3>1
    <3>5. m.request.op # "write"
      BY <2>1
    <3> QED BY <3>2, <3>3, <3>4, <3>5, Zenon
  <2>2. CASE m.request.op = "write"
    BY <2>2, <1>1, <1>3, <1>5, ApplyWrite DEF ReceiveRequest, RegInv
  <2> QED BY <2>1, <2>2, <1>5
<1>7. NetworkOK'
  <2>1. ASSUME NEW k \in network
        PROVE  RequestOK(k)' /\ ResponseOK(k)'
    BY <1>2, <1>6, <1>1 DEF RegInv, BaseInv, NetworkOK, RequestOK, ResponseOK
  <2>2. ASSUME NEW k, k = answer
        PROVE  RequestOK(k)' /\ ResponseOK(k)'
    <3>1. /\ k.kind = "response" /\ k.register = r /\ k.session = m.session
          /\ m.request.op = "read" => k.response.op = "value"
          /\ m.request.op = "write" => k.response = Ack
      BY <2>2 DEF InternalResponse, Value
    <3> QED BY <3>1, <1>1, <1>2, <1>5, <1>6 DEF RequestOK, ResponseOK
  <2>3. \A k \in network \cup {answer} :
            /\ k.register \in Registers /\ k.session \in Sessions
            /\ k.kind \in {"request", "response"}
    BY <1>3 DEF InternalResponse, RegInv, BaseInv, NetworkOK
  <2> HIDE DEF answer
  <2> QED BY <1>1, <2>1, <2>2, <2>3 DEF NetworkOK
<1>8. RestTypeOK' /\ Made' /\ SessionsWereRequested' /\ InFlightForItsClient'
      /\ OnGoingWereMade' /\ AnswersOK'
  BY <1>1, <1>2 DEF RegInv, BaseInv, RestTypeOK, Made, SessionsWereRequested,
                    InFlightForItsClient, OnGoingWereMade, AnswersOK
<1>9. AckedWritesOnBoth' /\ ReadsSeeAckedWrites' /\ AckedBefore'
  BY <1>1, <1>2, <1>6
     DEF RegInv, AckedInv, AckedWritesOnBoth, ReadsSeeAckedWrites, AckedBefore, Acked
<1>10. NotWaitedForHasWrite' /\ OnGoingInFlight'
  BY <1>1, <1>2, <1>6 DEF RegInv, AckedInv, NotWaitedForHasWrite, OnGoingInFlight
<1>11. ResponsesSeeAckedWrites'
  <2> SUFFICES ASSUME version \in {3, 4}, NEW a \in network', a.kind = "response",
                      a.response.op = "value",
                      NEW k \in Number, k \in RequestsOfSession(a.session), OwnSession(k),
                      NEW w \in requests[k].acked, OwnSession(w)
               PROVE  w \in Range(a.response.value)
    BY <1>1, <1>2 DEF ResponsesSeeAckedWrites
  <2>1. CASE a \in network
    BY <2>1 DEF RegInv, AckedInv, ResponsesSeeAckedWrites
  <2>2. CASE a = answer
    <3>1. w \in Range(register[r].Value)
      BY DEF RegInv, AckedInv, AckedBefore, AckedWritesOnBoth
    <3>2. a.response.value = register[r].Value
      BY <2>2, <1>5 DEF InternalResponse, Value, Ack
    <3> QED BY <3>1, <3>2
  <2> QED BY <2>1, <2>2, <1>1
<1>12. AskerInv'
  BY <1>1, <1>2 DEF RegInv, AskerInv, AnsweredIsClosed, AskerAnsweredUnlessVersion3,
                    OnlyTheAskerIsAnswered
<1> QED BY <1>6, <1>7, <1>8, <1>9, <1>10, <1>11, <1>12 DEF RegInv, BaseInv, AckedInv
---------------------------------------------------------------------------
(* RemoveSession only ever forgets: the entry of this response in          *)
(* versions 3 and 4, and the session when no entry of it is left.          *)
LEMMA RemoveSessionStep ==
    ASSUME RegInv, NEW r \in Registers, NEW s \in Sessions, RemoveSession(r, s)
    PROVE  /\ InFlight' \in [DOMAIN InFlight' -> Clients]
           /\ \A t \in DOMAIN InFlight' : t \in DOMAIN InFlight /\ InFlight'[t] = InFlight[t]
           /\ OnGoing' \subseteq OnGoing /\ ReceivedResponse' \subseteq Sessions
           /\ version \in {3, 4} =>
                 /\ \A on \in OnGoing \ OnGoing' : on.session = s /\ on.register = r
                 /\ \A on \in OnGoing' : on.session \in DOMAIN InFlight'
                 /\ Answers(r, s) => \A on \in OnGoing : on.session = s => on.register = r
                 /\ Answers(r, s) => version = 3 \/ s \in DOMAIN InFlight
           /\ version # 3 /\ Answers(r, s) =>
                 s \in DOMAIN InFlight /\ s \notin DOMAIN InFlight'
<1>1. /\ InFlight \in [DOMAIN InFlight -> Clients] /\ ReceivedResponse \subseteq Sessions
      /\ version \in {3, 4} => \A on \in OnGoing : on.session \in DOMAIN InFlight
  BY DEF RegInv, BaseInv, InFlightForItsClient, RestTypeOK, AckedInv, OnGoingInFlight
<1>2. ASSUME Close(s)
      PROVE  /\ InFlight' \in [DOMAIN InFlight' -> Clients]
             /\ DOMAIN InFlight' = DOMAIN InFlight \ {s}
             /\ \A t \in DOMAIN InFlight' : t \in DOMAIN InFlight /\ InFlight'[t] = InFlight[t]
  BY <1>1, <1>2 DEF Close, Restrict
<1>3. CASE version = 1
  BY <1>1, <1>2, <1>3 DEF RemoveSession, RemoveSession1, Answers
<1>4. CASE version = 2
  BY <1>1, <1>2, <1>4 DEF RemoveSession, RemoveSession2, Answers
<1>5. CASE version \in {3, 4}
  <2>1. RemoveSession3(r, s)
    BY <1>5 DEF RemoveSession, RemoveSession4
  <2>2. CASE s \notin DOMAIN InFlight
    BY <1>1, <1>5, <2>1, <2>2 DEF RemoveSession3, Answers
  <2>3. CASE s \in DOMAIN InFlight /\ NoMore(r, s)
    BY <1>1, <1>2, <1>5, <2>1, <2>3 DEF RemoveSession3, Answers, NoMore, OnGoingWithout
  <2>4. CASE s \in DOMAIN InFlight /\ ~ NoMore(r, s)
    BY <1>1, <1>5, <2>1, <2>4 DEF RemoveSession3, Answers, OnGoingWithout
  <2> QED BY <2>2, <2>3, <2>4
<1>6. version \in 1 .. 4
  BY RegisterAssumption DEF RegInv, BaseInv, RestTypeOK
<1> QED BY <1>3, <1>4, <1>5, <1>6
(* The request an answer is recorded for is the last one of its session.   *)
LEMMA LastRequest ==
    ASSUME RegInv, NEW s, NEW k \in RequestsOfSession(s)
    PROVE  LET number == CHOOSE n \in RequestsOfSession(s) :
                             \A j \in RequestsOfSession(s) : j <= n
           IN  number \in RequestsOfSession(s) /\ \A j \in RequestsOfSession(s) : j <= number
<1>1. HasLast(s)
  BY RequestTypes DEF RegInv, BaseInv, SessionsWereRequested, RequestsOfSession, Number
<1> QED BY <1>1 DEF HasLast

LEMMA ReceiveResponseStep ==
    ASSUME RegInv, NEW m \in network, ReceiveResponse(m)
    PROVE  RegInv'
<1> DEFINE r == m.register
           s == m.session
           c == clientId(s)
           number == CHOOSE n \in RequestsOfSession(s) :
                         \A j \in RequestsOfSession(s) : j <= n
           a == [client |-> c, number |-> number, response |-> m.response]
<1>1. /\ UNCHANGED <<version, executor, agenda, NextSessionId, fatal, register, timers,
                     requests, losses, restarts>>
      /\ network' = network \ {m} /\ m.kind = "response"
      /\ RemoveSession(r, s)
  BY DEF ReceiveResponse, ClientResponse, client
<1>2. /\ Number' = Number
      /\ \A t : RequestsOfSession(t)' = RequestsOfSession(t)
      /\ \A n : OwnSession(n)' = OwnSession(n)
      /\ \A t : HasLast(t)' = HasLast(t)
      /\ \A n, t, req : IsRequestOf(n, t, req)' = IsRequestOf(n, t, req)
  BY <1>1, RequestsKept
<1>3. r \in Registers /\ s \in Sessions
  BY DEF RegInv, BaseInv, NetworkOK
<1>4. PICK n0 \in RequestsOfSession(s) :
          \/ /\ requests[n0].request.op = "read"
             /\ m.response.op = "value"
          \/ /\ requests[n0].request.op = "write"
             /\ m.response = Ack
             /\ s \in register[r].Sessions
  BY <1>1 DEF RegInv, BaseInv, NetworkOK, ResponseOK
<1>5. /\ number \in RequestsOfSession(s) /\ number \in Number /\ requests[number].session = s
      /\ \A j \in RequestsOfSession(s) : j <= number
  BY <1>4, LastRequest DEF RequestsOfSession, Number
<1>6. OwnSession(number) => n0 = number
  BY <1>4, <1>5 DEF OwnSession
<1>7. /\ InFlight' \in [DOMAIN InFlight' -> Clients]
      /\ \A t \in DOMAIN InFlight' : t \in DOMAIN InFlight /\ InFlight'[t] = InFlight[t]
      /\ OnGoing' \subseteq OnGoing /\ ReceivedResponse' \subseteq Sessions
      /\ version \in {3, 4} =>
            /\ \A on \in OnGoing \ OnGoing' : on.session = s /\ on.register = r
            /\ \A on \in OnGoing' : on.session \in DOMAIN InFlight'
            /\ Answers(r, s) => \A on \in OnGoing : on.session = s => on.register = r
            /\ Answers(r, s) => version = 3 \/ s \in DOMAIN InFlight
      /\ version # 3 /\ Answers(r, s) =>
            s \in DOMAIN InFlight /\ s \notin DOMAIN InFlight'
  BY <1>1, <1>3, RemoveSessionStep
<1>8. \/ Answers(r, s) /\ answers' = answers \cup {a}
         /\ again' = again \cup {n \in {number} : \E b \in answers : b.number = n}
         /\ open' = IF c \in Clients THEN [open EXCEPT ![c] = 0] ELSE open
      \/ answers' = answers /\ again' = again /\ open' = open
  BY DEF ReceiveResponse, ClientResponse, client
<1>9. c \in Clients /\ (s \in DOMAIN InFlight => c = InFlight[s])
  BY RegisterAssumption DEF clientId, RegInv, BaseInv, InFlightForItsClient
<1>10. a.client = c /\ a.number = number /\ a.response = m.response
  OBVIOUS
<1> HIDE DEF number, a, c
<1>11. RestTypeOK'
  <2>1. open' \in [Clients -> 0 .. Len(agenda)]
    BY <1>8, RequestTypes DEF RegInv, BaseInv, RestTypeOK
  <2> QED BY <2>1, <1>1, <1>7 DEF RegInv, BaseInv, RestTypeOK
<1>12. Made' /\ SessionsWereRequested' /\ InFlightForItsClient' /\ OnGoingWereMade'
  BY <1>1, <1>2, <1>7
     DEF RegInv, BaseInv, Made, SessionsWereRequested, InFlightForItsClient, OnGoingWereMade
<1>13. RegistersOK' /\ WritesAppliedOnce' /\ NetworkOK'
  <2>1. RegistersOK'
    BY <1>1, <1>2 DEF RegInv, BaseInv, RegistersOK
  <2>2. WritesAppliedOnce'
    BY <1>1 DEF RegInv, BaseInv, WritesAppliedOnce
  <2>3. NetworkOK'
    BY <1>1, <1>2 DEF RegInv, BaseInv, NetworkOK, RequestOK, ResponseOK
  <2> QED BY <2>1, <2>2, <2>3
<1>14. AnswersOK'
  BY <1>2, <1>5, <1>8, <1>9, <1>10 DEF RegInv, BaseInv, AnswersOK
<1>15. ASSUME version \in {3, 4}, Answers(r, s), OwnSession(number), m.response = Ack,
              NEW q \in Registers
       PROVE  number \in Range(register[q].Value)
  <2>1. requests[number].request.op = "write" /\ s \in register[r].Sessions
    BY <1>15, <1>4, <1>6 DEF Ack
  <2>2. s \in register[q].Sessions
    <3>1. CASE q = r
      BY <3>1, <2>1
    <3>2. CASE q # r
      <4>1. \A on \in OnGoing : on.session = s => on.register # q
        BY <3>2, <1>7, <1>15
      <4>2. version = 3 \/ s \in DOMAIN InFlight
        BY <1>7, <1>15
      <4> QED BY <4>1, <4>2, <2>1, <1>5, <1>15 DEF RegInv, AckedInv, NotWaitedForHasWrite
    <3> QED BY <3>1, <3>2
  <2>3. PICK i \in 1 .. Len(register[q].Value) :
            /\ register[q].Value[i] \in Number
            /\ requests[register[q].Value[i]].session = s
    BY <2>2 DEF RegInv, BaseInv, RegistersOK
  <2>4. register[q].Value[i] = number
    BY <2>3, <1>5, <1>15 DEF OwnSession, RequestsOfSession, Number
  <2>5. i \in DOMAIN register[q].Value
    BY DEF RegInv, BaseInv, RegistersOK
  <2> QED BY <2>4, <2>5 DEF Range
<1>16. AckedWritesOnBoth'
  <2>1. ASSUME NEW n \in Acked' PROVE n \in Acked \/ (Answers(r, s) /\ n = number /\ m.response = Ack)
    BY <1>8, <1>10 DEF Acked
  <2> QED BY <2>1, <1>1, <1>2, <1>15 DEF RegInv, AckedInv, AckedWritesOnBoth
<1>17. ReadsSeeAckedWrites'
  <2>1. ASSUME version \in {3, 4}, NEW b \in answers', b.response.op = "value",
               OwnSession(b.number), NEW n \in requests[b.number].acked, OwnSession(n)
        PROVE  n \in Range(b.response.value)
    <3>1. CASE b \in answers
      BY <3>1, <2>1 DEF RegInv, AckedInv, ReadsSeeAckedWrites
    <3>2. CASE b = a
      BY <3>2, <2>1, <1>1, <1>5, <1>10 DEF RegInv, AckedInv, ResponsesSeeAckedWrites
    <3> QED BY <3>1, <3>2, <1>8
  <2> QED BY <2>1, <1>1, <1>2 DEF ReadsSeeAckedWrites
<1>18. AckedBefore'
  <2>1. Acked \subseteq Acked'
    BY <1>8 DEF Acked
  <2> QED BY <2>1, <1>1, <1>2 DEF RegInv, AckedInv, AckedBefore
<1>19. NotWaitedForHasWrite'
  <2> SUFFICES ASSUME version \in {3, 4}, NEW n \in Number, NEW q \in Registers,
                      OwnSession(n), requests[n].request.op = "write",
                      version = 3 \/ requests[n].session \in DOMAIN InFlight',
                      \A on \in OnGoing' : on.session = requests[n].session => on.register # q
               PROVE  requests[n].session \in register[q].Sessions
    BY <1>1, <1>2 DEF NotWaitedForHasWrite
  <2>1. CASE \A on \in OnGoing : on.session = requests[n].session => on.register # q
    BY <2>1, <1>7 DEF RegInv, AckedInv, NotWaitedForHasWrite
  <2>2. CASE \E on \in OnGoing : on.session = requests[n].session /\ on.register = q
    <3>1. requests[n].session = s /\ q = r
      BY <2>2, <1>7
    <3>2. n0 = n
      BY <3>1, <1>4 DEF OwnSession
    <3> QED BY <3>1, <3>2, <1>4
  <2> QED BY <2>1, <2>2
<1>20. ResponsesSeeAckedWrites' /\ OnGoingInFlight'
  BY <1>1, <1>2, <1>7 DEF RegInv, AckedInv, ResponsesSeeAckedWrites, OnGoingInFlight
<1>21. AskerInv'
  <2> SUFFICES ASSUME version # 3 PROVE AskerInv'
    BY <1>1 DEF AskerInv, AnsweredIsClosed, AskerAnsweredUnlessVersion3
  <2>1. CASE answers' = answers /\ again' = again
    BY <2>1, <1>1, <1>2, <1>7 DEF RegInv, AskerInv, AnsweredIsClosed,
              AskerAnsweredUnlessVersion3, OnlyTheAskerIsAnswered
  <2>2. CASE Answers(r, s) /\ answers' = answers \cup {a}
             /\ again' = again \cup {n \in {number} : \E b \in answers : b.number = n}
    <3>1. s \in DOMAIN InFlight /\ s \notin DOMAIN InFlight' /\ c = InFlight[s]
      BY <2>2, <1>7, <1>9
    <3>2. requests[number].client = c
      BY <3>1, <1>5 DEF RegInv, BaseInv, InFlightForItsClient
    <3>3. AnsweredIsClosed'
      BY <2>2, <3>1, <1>1, <1>2, <1>5, <1>7, <1>10 DEF RegInv, AskerInv, AnsweredIsClosed
    <3>4. \A b \in answers : b.number # number
      BY <3>1, <1>5 DEF RegInv, AskerInv, AnsweredIsClosed
    <3>5. OnlyTheAskerIsAnswered'
      BY <2>2, <3>2, <3>4, <1>1, <1>2, <1>10
         DEF RegInv, AskerInv, AskerAnsweredUnlessVersion3, OnlyTheAskerIsAnswered
    <3> QED BY <3>3, <3>5 DEF AskerInv, AskerAnsweredUnlessVersion3
  <2> QED BY <2>1, <2>2, <1>8
<1> QED BY <1>11, <1>12, <1>13, <1>14, <1>16, <1>17, <1>18, <1>19, <1>20, <1>21
        DEF RegInv, BaseInv, AckedInv
---------------------------------------------------------------------------
(* A new request is the last of its session, and the others stay.          *)
LEMMA NewRequest ==
    ASSUME RegInv, NEW c \in Clients, NEW req \in Requests,
           Len(requests) < Len(agenda), agenda' = agenda, Asks(c, req)
    PROVE  LET n == Len(requests) + 1
           IN  /\ requests' \in Seq(RequestRecords)
               /\ Len(requests') = n /\ n \in Nat /\ n \notin Number
               /\ Number' = Number \cup {n}
               /\ \A k \in Number : requests'[k] = requests[k]
               /\ requests'[n].client = c /\ requests'[n].request = req
               /\ requests'[n].session = NextSessionId /\ requests'[n].acked = Acked
               /\ \A s, k : k \in RequestsOfSession(s)' <=>
                              k \in RequestsOfSession(s) \/ (k = n /\ s = NextSessionId)
<1> DEFINE n == Len(requests) + 1
           new == [client |-> c, request |-> req, session |-> NextSessionId, acked |-> Acked]
<1>1. Len(requests) \in Nat /\ NextSessionId \in 0 .. Len(agenda) - 1
  BY RequestTypes DEF RegInv, BaseInv, Made
<1>2. NextSessionId \in Sessions
  BY <1>1, NumberTypes DEF RegInv, BaseInv, Made
<1>3. Acked \subseteq Numbers
  BY RequestTypes DEF RegInv, BaseInv, AnswersOK, Acked
<1>4. new \in RequestRecords
  BY <1>2, <1>3 DEF RequestRecords
<1>5. requests' = Append(requests, new) /\ requests \in Seq(RequestRecords)
  BY DEF Asks, RegInv, BaseInv, Made
<1>6. new.client = c /\ new.request = req /\ new.session = NextSessionId /\ new.acked = Acked
  OBVIOUS
<1> HIDE DEF new
<1>7. /\ requests' \in Seq(RequestRecords) /\ Len(requests') = n
      /\ \A k \in 1 .. Len(requests) : requests'[k] = requests[k]
      /\ requests'[n] = new
  BY <1>1, <1>4, <1>5
<1>8. n \in Nat /\ n \notin Number /\ Number' = Number \cup {n}
  BY <1>1, <1>7 DEF Number
<1>9. \A s, k : k \in RequestsOfSession(s)' <=>
                    k \in RequestsOfSession(s) \/ (k = n /\ s = NextSessionId)
  BY <1>1, <1>6, <1>7, <1>8 DEF RequestsOfSession, Number
<1> QED BY <1>6, <1>7, <1>8, <1>9 DEF Number
(* The front end takes a request: it opens a session and waits for both    *)
(* registers (except version 1, which does not wait), or it dies.          *)
LEMMA AskStep ==
    ASSUME RegInv, NEW c \in Clients, NEW req \in Requests, NEW n, n = Len(requests) + 1,
           Len(requests) < Len(agenda), Asks(c, req),
           req.op = "write" => req.value = n,
           UNCHANGED <<version, executor, agenda, register>>,
           RestTypeOK',
           \/ OpenSession(c)
           \/ version = 1 /\ UNCHANGED <<NextSessionId, InFlight, network>>,
           network' \subseteq network \cup translate(Forwarded(req)),
           \/ version \in {1, 2} /\ OnGoing' \subseteq OnGoing \cup Forwarded(req)
           \/ OnGoing' = OnGoing \cup Forwarded(req) /\ OpenSession(c)
    PROVE  RegInv'
<1>1. /\ requests' \in Seq(RequestRecords)
      /\ Len(requests') = n /\ n \in Nat /\ n \notin Number
      /\ Number' = Number \cup {n}
      /\ \A k \in Number : requests'[k] = requests[k]
      /\ requests'[n].client = c /\ requests'[n].request = req
      /\ requests'[n].session = NextSessionId /\ requests'[n].acked = Acked
      /\ \A s, k : k \in RequestsOfSession(s)' <=>
                     k \in RequestsOfSession(s) \/ (k = n /\ s = NextSessionId)
  BY NewRequest
<1>2. answers' = answers /\ again' = again /\ Acked' = Acked
  BY DEF Asks, Acked
<1>3. /\ Len(agenda) \in Nat /\ Len(requests) \in Nat /\ Number \subseteq Nat \ {0}
      /\ \A s : RequestsOfSession(s) \subseteq Number
      /\ NextSessionId \in Nat /\ NextSessionId <= Len(requests)
      /\ NextSessionId \in Sessions
      /\ \A k \in Number : k < n
  BY RequestTypes, NumberTypes DEF RegInv, BaseInv, Made, Number
<1>4. ASSUME NEW k \in Number
      PROVE  k \in RequestsOfSession(requests[k].session)
  BY <1>4 DEF RequestsOfSession, Number
<1>5. ASSUME NEW k \in Number, OwnSession(k)'
      PROVE  OwnSession(k) /\ requests[k].session # NextSessionId
  <2>1. \A j : j \in RequestsOfSession(requests[k].session)' <=> j = k
    BY <1>1, <1>5 DEF OwnSession
  <2>2. requests[k].session # NextSessionId
    BY <2>1, <1>1
  <2>3. RequestsOfSession(requests[k].session) = {k}
    BY <2>1, <2>2, <1>1
  <2> QED BY <2>2, <2>3 DEF OwnSession
<1>6. ASSUME NEW s, NEW j \in RequestsOfSession(s)' PROVE j <= n
  <2>1. j \in RequestsOfSession(s) \/ j = n
    BY <1>1
  <2>2. CASE j \in RequestsOfSession(s)
    <3>1. j \in Number
      BY <2>2, <1>3
    <3>2. j \in Nat /\ j < n /\ n \in Nat
      BY <3>1, <1>3, <1>1
    <3> QED BY <3>2
  <2>3. CASE j = n
    BY <2>3, <1>1
  <2> QED BY <2>1, <2>2, <2>3
<1>7. \A s : HasLast(s) => HasLast(s)'
  <2>1. ASSUME NEW s, HasLast(s) PROVE HasLast(s)'
    <3>1. PICK k \in RequestsOfSession(s) : \A j \in RequestsOfSession(s) : j <= k
      BY <2>1 DEF HasLast
    <3>2. CASE s = NextSessionId
      <4>1. n \in RequestsOfSession(s)' /\ \A j \in RequestsOfSession(s)' : j <= n
        BY <3>2, <1>1, <1>6
      <4> QED BY <4>1 DEF HasLast
    <3>3. CASE s # NextSessionId
      BY <3>1, <3>3, <1>1 DEF HasLast
    <3> QED BY <3>2, <3>3
  <2> QED BY <2>1
<1>8. ASSUME NEW s, s = NextSessionId PROVE HasLast(s)'
  <2>1. n \in RequestsOfSession(s)' /\ \A j \in RequestsOfSession(s)' : j <= n
    BY <1>8, <1>1, <1>6
  <2> QED BY <2>1 DEF HasLast
<1>9. \/ /\ NextSessionId' = NextSessionId + 1
         /\ DOMAIN InFlight' = DOMAIN InFlight \cup {NextSessionId}
         /\ InFlight' \in [DOMAIN InFlight' -> Clients]
         /\ InFlight'[NextSessionId] = c
         /\ \A s \in DOMAIN InFlight : InFlight'[s] = InFlight[s] /\ s # NextSessionId
      \/ NextSessionId' = NextSessionId /\ InFlight' = InFlight /\ version = 1
  BY <1>3 DEF OpenSession, RegInv, BaseInv, InFlightForItsClient
<1>10. Made'
  BY <1>1, <1>3, <1>9 DEF RegInv, BaseInv, Made
<1>11. SessionsWereRequested'
  <2>1. ASSUME NEW k \in Number', NEW s, s = requests'[k].session PROVE HasLast(s)'
    <3>1. CASE k \in Number
      BY <3>1, <2>1, <1>1, <1>7 DEF RegInv, BaseInv, SessionsWereRequested
    <3>2. CASE k = n
      BY <3>2, <2>1, <1>1, <1>8
    <3> QED BY <3>1, <3>2, <1>1
  <2>2. ASSUME NEW s \in 0 .. NextSessionId' - 1 PROVE HasLast(s)'
    <3>1. s = NextSessionId \/ s \in 0 .. NextSessionId - 1
      BY <1>3, <1>9
    <3> QED BY <3>1, <1>7, <1>8 DEF RegInv, BaseInv, SessionsWereRequested
  <2> QED BY <2>1, <2>2 DEF SessionsWereRequested, HasLast, RequestsOfSession
<1>12. InFlightForItsClient'
  <2>1. /\ InFlight \in [DOMAIN InFlight -> Clients]
        /\ DOMAIN InFlight \subseteq 0 .. NextSessionId - 1
        /\ \A s \in DOMAIN InFlight : \A k \in RequestsOfSession(s) :
              (\A j \in RequestsOfSession(s) : j <= k) => requests[k].client = InFlight[s]
    BY DEF RegInv, BaseInv, InFlightForItsClient
  <2>2. ASSUME NEW s \in DOMAIN InFlight', NEW k \in RequestsOfSession(s)',
               \A j \in RequestsOfSession(s)' : j <= k
        PROVE  requests'[k].client = InFlight'[s]
    <3>1. CASE s = NextSessionId
      <4>1. InFlight'[s] = c /\ n \in RequestsOfSession(s)'
        BY <3>1, <2>1, <1>1, <1>3, <1>9
      <4>2. k = n \/ (k \in Nat /\ k < n /\ n \in Nat /\ n <= k)
        BY <4>1, <2>2, <1>1, <1>3
      <4> QED BY <4>1, <4>2, <1>1
    <3>2. CASE s # NextSessionId
      <4>1. s \in DOMAIN InFlight /\ InFlight'[s] = InFlight[s]
        BY <3>2, <1>9
      <4>2. /\ k \in RequestsOfSession(s) /\ k \in Number
            /\ \A j \in RequestsOfSession(s) : j <= k
        BY <3>2, <2>2, <1>1, <1>3
      <4> QED BY <4>1, <4>2, <2>1, <1>1
    <3> QED BY <3>1, <3>2
  <2>3. InFlight' \in [DOMAIN InFlight' -> Clients]
        /\ DOMAIN InFlight' \subseteq 0 .. NextSessionId' - 1
    BY <2>1, <1>3, <1>9
  <2> QED BY <2>2, <2>3 DEF InFlightForItsClient
<1>13. \A k \in Number : \A s, q : IsRequestOf(k, s, q) => IsRequestOf(k, s, q)'
  BY <1>1 DEF IsRequestOf
<1>14. ASSUME NEW s, s = NextSessionId PROVE IsRequestOf(n, s, req)'
  BY <1>1, <1>14 DEF IsRequestOf, Requests
<1>15. ASSUME NEW on \in Forwarded(req)
       PROVE  /\ on \in OnGoingRequests
              /\ on.session = NextSessionId /\ on.request = req
  BY <1>3 DEF Forwarded, OnGoingRequests, ReceivedAt, Old
<1>16. OnGoingWereMade'
  <2>1. ASSUME NEW on \in OnGoing'
        PROVE  on \in OnGoingRequests /\ \E k \in Number' : IsRequestOf(k, on.session, on.request)'
    <3>1. CASE on \in OnGoing
      BY <3>1, <1>1, <1>13 DEF RegInv, BaseInv, OnGoingWereMade
    <3>2. CASE on \in Forwarded(req)
      BY <3>2, <1>1, <1>14, <1>15
    <3> QED BY <3>1, <3>2
  <2> QED BY <2>1 DEF OnGoingWereMade
<1>17. RegistersOK' /\ WritesAppliedOnce'
  <2>1. RegistersOK'
    <3>1. register \in [Registers -> [Value : Seq(Numbers), Sessions : SUBSET Sessions]]
      BY DEF RegInv, BaseInv, RegistersOK
    <3>2. ASSUME NEW r \in Registers
          PROVE  /\ \A i \in 1 .. Len(register[r].Value) :
                       /\ register[r].Value[i] \in Number'
                       /\ requests'[register[r].Value[i]].session \in register[r].Sessions
                 /\ \A s \in register[r].Sessions :
                       \E i \in 1 .. Len(register[r].Value) :
                           requests'[register[r].Value[i]].session = s
      <4>1. \A i \in 1 .. Len(register[r].Value) : register[r].Value[i] \in Number
        BY DEF RegInv, BaseInv, RegistersOK
      <4>2. \A i \in 1 .. Len(register[r].Value) :
                requests'[register[r].Value[i]] = requests[register[r].Value[i]]
        BY <4>1, <1>1
      <4>3. Number \subseteq Number'
        BY <1>1
      <4>4. /\ \A i \in 1 .. Len(register[r].Value) :
                   requests[register[r].Value[i]].session \in register[r].Sessions
            /\ \A s \in register[r].Sessions :
                   \E i \in 1 .. Len(register[r].Value) :
                       requests[register[r].Value[i]].session = s
        BY DEF RegInv, BaseInv, RegistersOK
      <4> QED BY <4>1, <4>2, <4>3, <4>4
    <3> QED BY <3>1, <3>2 DEF RegistersOK
  <2>2. WritesAppliedOnce'
    BY DEF RegInv, BaseInv, WritesAppliedOnce
  <2> QED BY <2>1, <2>2
<1>18. ASSUME NEW m \in network' \ network
       PROVE  /\ m.register \in Registers /\ m.session = NextSessionId
              /\ m.kind = "request" /\ m.request = req
  <2>1. PICK on \in Forwarded(req) : m = InternalRequest(on.register, on.session, on.request)
    BY DEF translate
  <2> QED BY <2>1, <1>15 DEF InternalRequest, OnGoingRequests
<1>19. NetworkOK'
  <2> SUFFICES ASSUME NEW m \in network'
               PROVE  /\ m.register \in Registers /\ m.session \in Sessions
                      /\ m.kind \in {"request", "response"}
                      /\ RequestOK(m)' /\ ResponseOK(m)'
    BY DEF NetworkOK
  <2>1. CASE m \in network
    <3>1. /\ m.register \in Registers /\ m.session \in Sessions
          /\ m.kind \in {"request", "response"}
          /\ RequestOK(m) /\ ResponseOK(m)
      BY <2>1 DEF RegInv, BaseInv, NetworkOK
    <3>2. RequestOK(m)'
      BY <3>1, <1>1, <1>13 DEF RequestOK
    <3>3. ResponseOK(m)'
      BY <3>1, <1>1, <1>3 DEF ResponseOK
    <3> QED BY <3>1, <3>2, <3>3
  <2>2. CASE m \notin network
    BY <2>2, <1>1, <1>3, <1>14, <1>18 DEF RequestOK, ResponseOK
  <2> QED BY <2>1, <2>2
<1>20. AnswersOK'
  BY <1>1, <1>2 DEF RegInv, BaseInv, AnswersOK
<1>21. Acked \subseteq Number
  BY DEF RegInv, BaseInv, AnswersOK, Acked
<1>22. AckedWritesOnBoth'
  BY <1>2, <1>5, <1>21 DEF RegInv, AckedInv, AckedWritesOnBoth
<1>23. ReadsSeeAckedWrites'
  BY <1>1, <1>2, <1>5, <1>21
     DEF RegInv, BaseInv, AnswersOK, AckedInv, ReadsSeeAckedWrites, AckedBefore
<1>24. AckedBefore'
  BY <1>1, <1>2 DEF RegInv, AckedInv, AckedBefore
<1>25. NotWaitedForHasWrite'
  <2> SUFFICES ASSUME version \in {3, 4}, NEW k \in Number', NEW r \in Registers,
                      OwnSession(k)', requests'[k].request.op = "write",
                      version = 3 \/ requests'[k].session \in DOMAIN InFlight',
                      \A on \in OnGoing' : on.session = requests'[k].session => on.register # r
               PROVE  requests'[k].session \in register[r].Sessions
    BY DEF NotWaitedForHasWrite
  <2>1. OnGoing' = OnGoing \cup Forwarded(req)
    OBVIOUS
  <2>2. CASE k = n
    <3>1. \E on \in Forwarded(req) : on.session = NextSessionId /\ on.register = r
      <4> DEFINE on == [register |-> r, session |-> NextSessionId, request |-> req,
                        age |-> ReceivedAt]
      <4>1. on \in Forwarded(req) /\ on.session = NextSessionId /\ on.register = r
        BY DEF Forwarded
      <4> QED BY <4>1
    <3> QED BY <2>1, <2>2, <3>1, <1>1
  <2>3. CASE k \in Number
    <3>1. OwnSession(k) /\ requests[k].session # NextSessionId /\ requests'[k] = requests[k]
      BY <2>3, <1>1, <1>5
    <3>2. requests[k].session \in DOMAIN InFlight' => requests[k].session \in DOMAIN InFlight
      BY <3>1, <1>9
    <3> QED BY <2>1, <2>3, <3>1, <3>2 DEF RegInv, AckedInv, NotWaitedForHasWrite
  <2> QED BY <2>2, <2>3, <1>1
<1>26. ResponsesSeeAckedWrites'
  <2> SUFFICES ASSUME version \in {3, 4}, NEW m \in network', m.kind = "response",
                      m.response.op = "value",
                      NEW k \in Number', k \in RequestsOfSession(m.session)', OwnSession(k)',
                      NEW w \in requests'[k].acked, OwnSession(w)'
               PROVE  w \in Range(m.response.value)
    BY DEF ResponsesSeeAckedWrites
  <2>1. m \in network
    BY <1>18
  <2>2. k # n
    <3>1. PICK j \in RequestsOfSession(m.session) : TRUE
      BY <2>1 DEF RegInv, BaseInv, NetworkOK, ResponseOK
    <3>2. j # n /\ j \in RequestsOfSession(m.session)'
      BY <3>1, <1>1, <1>3
    <3> QED BY <3>2, <1>1, <1>3 DEF OwnSession
  <2>3. k \in Number /\ OwnSession(k) /\ requests'[k] = requests[k]
        /\ k \in RequestsOfSession(m.session)
    BY <2>2, <1>1, <1>5
  <2>4. OwnSession(w)
    BY <2>3, <1>5, <1>21 DEF RegInv, AckedInv, AckedBefore
  <2> QED BY <2>1, <2>3, <2>4 DEF RegInv, AckedInv, ResponsesSeeAckedWrites
<1>27. OnGoingInFlight'
  BY <1>9, <1>15 DEF RegInv, AckedInv, OnGoingInFlight
<1>28. AskerInv'
  <2>1. AnsweredIsClosed'
    <3>1. ASSUME version # 3, NEW a \in answers, NEW s, s = requests[a.number].session,
                 s \in DOMAIN InFlight'
          PROVE  \E k \in RequestsOfSession(s)' : ~(k <= a.number)
      <4>1. a.number \in Number
        BY DEF RegInv, BaseInv, AnswersOK
      <4>2. CASE s = NextSessionId
        <5>1. n \in RequestsOfSession(s)'
          BY <4>2, <1>1
        <5>2. a.number \in Nat /\ a.number < n /\ n \in Nat
          BY <4>1, <1>1, <1>3
        <5>3. ~(n <= a.number)
          BY <5>2
        <5> QED BY <5>1, <5>3
      <4>3. CASE s # NextSessionId
        <5>1. s \in DOMAIN InFlight
          BY <3>1, <4>3, <1>9
        <5>2. PICK k \in RequestsOfSession(s) : ~(k <= a.number)
          BY <3>1, <5>1 DEF RegInv, AskerInv, AnsweredIsClosed
        <5>3. k \in RequestsOfSession(s)'
          BY <5>2, <1>1
        <5> QED BY <5>2, <5>3
      <4> QED BY <4>2, <4>3
    <3>2. \A a \in answers : a.number \in Number /\ requests'[a.number] = requests[a.number]
      BY <1>1 DEF RegInv, BaseInv, AnswersOK
    <3> QED BY <3>1, <3>2, <1>2 DEF AnsweredIsClosed, RequestsOfSession
  <2>2. AskerAnsweredUnlessVersion3'
    BY <1>1, <1>2
       DEF RegInv, BaseInv, AnswersOK, AskerInv, AskerAnsweredUnlessVersion3, OnlyTheAskerIsAnswered
  <2> QED BY <2>1, <2>2 DEF AskerInv
<1> QED BY <1>10, <1>11, <1>12, <1>16, <1>17, <1>19, <1>20, <1>22, <1>23, <1>24, <1>25,
           <1>26, <1>27, <1>28
        DEF RegInv, BaseInv, AckedInv
LEMMA ClientRequestStep ==
    ASSUME RegInv, ClientRequest
    PROVE  RegInv'
<1>1. Len(requests) < Len(agenda) /\ UNCHANGED <<version, executor, agenda, register, losses, restarts>>
  BY DEF ClientRequest
<1>2. PICK n : n = Len(requests) + 1
  OBVIOUS
<1> DEFINE c == agenda[n][1]
           req == IF agenda[n][2] = "read" THEN [op |-> "read"]
                  ELSE [op |-> "write", value |-> n]
<1>3. /\ n \in 1 .. Len(agenda) /\ n \in Numbers /\ Len(agenda) \in Nat
      /\ agenda[n] \in Clients \X {"read", "write"}
  BY <1>1, <1>2, RequestTypes, NumberTypes, RegisterAssumption DEF RegInv, BaseInv, Made
<1>4. PICK d \in Clients : d = c
  BY <1>3
<1>5. PICK q \in Requests : q = req /\ (q.op = "write" => q.value = n)
  <2>1. [op |-> "read"] \in Requests /\ [op |-> "read"].op # "write"
    BY DEF Requests
  <2>2. /\ [op |-> "write", value |-> n] \in Requests
        /\ [op |-> "write", value |-> n].value = n
    BY <1>3 DEF Requests
  <2> QED BY <2>1, <2>2
<1>6. \/ ReceiveClient1(d, q) \/ ReceiveClient2(d, q)
      \/ ReceiveClient3(d, q) \/ ReceiveClient4(d, q)
  BY <1>2, <1>4, <1>5 DEF ClientRequest
<1>7. /\ Asks(d, q)
      /\ \/ OpenSession(d)
         \/ version = 1 /\ UNCHANGED <<NextSessionId, InFlight, network>>
      /\ network' \subseteq network \cup translate(Forwarded(q))
      /\ \/ version \in {1, 2} /\ OnGoing' \subseteq OnGoing \cup Forwarded(q)
         \/ OnGoing' = OnGoing \cup Forwarded(q) /\ OpenSession(d)
  BY <1>6 DEF ReceiveClient1, ReceiveClient2, ReceiveClient3, ReceiveClient4, Remember
<1>8. RestTypeOK'
  <2>1. open' \in [Clients -> 0 .. Len(agenda)]
    BY <1>1, <1>2, <1>3, <1>7 DEF Asks, RegInv, BaseInv, RestTypeOK
  <2>2. ReceivedResponse' \subseteq ReceivedResponse /\ timers' \subseteq timers \cup {ResendTimer}
        /\ fatal' \in {fatal, TRUE}
    BY <1>6 DEF ReceiveClient1, ReceiveClient2, ReceiveClient3, ReceiveClient4, Remember
  <2>3. timers' \subseteq 0 .. ResendTimer
    BY <2>2 DEF RegInv, BaseInv, RestTypeOK, ResendTimer, Old
  <2> QED BY <1>1, <2>1, <2>2, <2>3 DEF RegInv, BaseInv, RestTypeOK
<1> QED BY <1>1, <1>2, <1>5, <1>7, <1>8, AskStep

LEMMA RegisterNext == RegInv /\ [Next]_vars => RegInv'
<1> SUFFICES ASSUME RegInv, [Next]_vars PROVE RegInv'
  OBVIOUS
<1>1. CASE ClientRequest
  BY <1>1, ClientRequestStep
<1>2. CASE \E r \in Registers : \E m \in network : ReceiveRequest(r, m)
  BY <1>2, ReceiveRequestStep
<1>3. CASE \E m \in network : ReceiveResponse(m)
  BY <1>3, ReceiveResponseStep
<1>4. CASE Tick \/ Timer
  BY <1>4, ResendStep
<1>5. CASE \/ Elapse
           \/ \E m \in network : Lose(m)
           \/ \E c \in Clients : Expire(c)
           \/ Restart
  BY <1>5, EnvironmentStep
<1>6. CASE UNCHANGED vars
  <2>1. /\ UNCHANGED <<version, executor, agenda, requests, register, answers, again,
                       NextSessionId, InFlight, OnGoing, network>>
        /\ UNCHANGED <<ReceivedResponse, fatal, timers, open, losses, restarts>>
    BY <1>6 DEF vars, frontend, client
  <2>2. RestTypeOK'
    BY <2>1 DEF RegInv, BaseInv, RestTypeOK
  <2> QED BY <2>1, <2>2, FrontEndStep
          DEF RegInv, BaseInv, Made, InFlightForItsClient, OnGoingWereMade
<1> QED BY <1>1, <1>2, <1>3, <1>4, <1>5, <1>6 DEF Next

LEMMA RegisterInvariant == Spec => []RegInv
<1>1. Init => RegInv
  BY RegisterInit DEF RegInv
<1> QED BY <1>1, RegisterNext, PTL DEF Spec

---------------------------------------------------------------------------
(* Session numbers never run ahead of the requests, and no register        *)
(* applies a write twice (Register.Receive and its Sessions), in every     *)
(* version and deployment, for every test and any losses and restarts.     *)
THEOREM WritesAreAppliedOnce == Spec => []RegisterInv
<1>1. RegInv => RegisterInv
  <2> SUFFICES ASSUME RegInv PROVE RegisterInv
    OBVIOUS
  <2>1. NextSessionId \in 0 .. Len(agenda)
    BY RequestTypes DEF RegInv, BaseInv, Made
  <2>2. DOMAIN InFlight \subseteq 0 .. NextSessionId - 1 /\ Range(InFlight) \subseteq Clients
    BY DEF RegInv, BaseInv, InFlightForItsClient, Range
  <2>3. \A r \in Registers : register[r].Sessions \subseteq Sessions
    BY DEF RegInv, BaseInv, RegistersOK
  <2> QED BY <2>1, <2>2, <2>3 DEF RegInv, BaseInv, RestTypeOK, OnGoingWereMade, NetworkOK,
                                  RegisterInv, TypeOK
<1> QED BY <1>1, RegisterInvariant, PTL

(* Versions 3 and 4: an acknowledged write is on both registers, and every *)
(* read that is made afterwards is answered with a value that has it       *)
(* (FrontEnd3.RemoveSession waits for both registers).                     *)
THEOREM AcknowledgedWritesLast == Spec => []AckedWritesLast
<1>1. RegInv => AckedWritesLast
  BY DEF RegInv, AckedInv, AckedWritesLast
<1> QED BY <1>1, RegisterInvariant, PTL

(* Every version but the third answers a request at most once, and answers *)
(* the client that made it, also after a restart.  Nothing is said of the  *)
(* response: session ids begin at 0 again in a restarted front end, and    *)
(* the response to an earlier request may be taken for the one awaited.    *)
THEOREM AskersAreAnswered == Spec => []AskerAnsweredUnlessVersion3
<1>1. RegInv => AskerAnsweredUnlessVersion3
  BY DEF RegInv, AskerInv
<1> QED BY <1>1, RegisterInvariant, PTL

(* Version 4 under the HTTP executor: whatever is not yet answered has a   *)
(* timer that will find it older than the resend time, although Timer sets *)
(* itself again only when it resent something.                             *)
THEOREM TimersCover == Spec => []TimersCoverRequests
<1>1. Init => TimersCoverRequests
  BY RegisterInit
<1>2. RegInv /\ TimersCoverRequests /\ [Next]_vars => TimersCoverRequests'
  <2> SUFFICES ASSUME RegInv, TimersCoverRequests, [Next]_vars,
                      version' = 4, executor' = "http"
               PROVE  \A on \in OnGoing' : \E t \in timers' : on.age + t >= Old
    BY DEF TimersCoverRequests
  <2> USE DEF frontend, client
  <2>1. /\ \A on \in OnGoing : on.age \in 0 .. Old
        /\ timers \subseteq 0 .. ResendTimer
    BY DEF RegInv, BaseInv, OnGoingWereMade, OnGoingRequests, RestTypeOK
  <2>2. version = 4 /\ executor = "http"
    BY DEF Next, ClientRequest, ReceiveRequest, ReceiveResponse, Tick, Timer, Elapse, Lose,
           Expire, Restart, vars
  <2>3. \A on \in OnGoing : \E t \in timers : on.age + t >= Old
    BY <2>2 DEF TimersCoverRequests
  <2>4. CASE ClientRequest
    <3>1. PICK c, req : ReceiveClient4(c, req)
      BY <2>2, <2>4 DEF ClientRequest, ReceiveClient1, ReceiveClient2, ReceiveClient3
    <3>2. OnGoing' = OnGoing \cup Forwarded(req) /\ timers' = timers \cup {ResendTimer}
      BY <3>1 DEF ReceiveClient4, Remember
    <3>3. \A on \in Forwarded(req) : on.age + ResendTimer >= Old
      BY DEF Forwarded, ReceivedAt, ResendTimer, Old
    <3> QED BY <3>2, <3>3, <2>3
  <2>5. CASE \E m \in network : ReceiveResponse(m)
    <3>1. PICK m \in network : ReceiveResponse(m)
      BY <2>5
    <3>2. OnGoing' \subseteq OnGoing /\ timers' = timers
      BY <3>1, RemoveSessionStep DEF ReceiveResponse, RegInv, BaseInv, NetworkOK
    <3> QED BY <3>2, <2>3
  <2>6. CASE Timer
    <3>1. ASSUME NEW on \in OnGoing'
          PROVE  \E t \in timers' : on.age + t >= Old
      <4>1. PICK o \in OnGoing : on = IF After(o) THEN Again(o) ELSE o
        BY <2>6 DEF Timer, Resend
      <4>2. o \in OnGoingRequests
        BY DEF RegInv, BaseInv, OnGoingWereMade
      <4>3. CASE After(o)
        <5>1. on.age = 0
          BY <4>1, <4>2, <4>3 DEF Again, OnGoingRequests
        <5>2. Resent # {}
          BY <4>3 DEF Resent
        <5>3. ResendTimer \in timers'
          BY <5>2, <2>6 DEF Timer
        <5> QED BY <5>1, <5>3 DEF ResendTimer, Old
      <4>4. CASE ~ After(o)
        <5>1. on = o /\ o.age # Old
          BY <4>1, <4>4, <2>2 DEF After
        <5>2. PICK t \in timers : o.age + t >= Old
          BY <2>3
        <5>3. t # 0
          BY <5>1, <5>2, <2>1 DEF Old
        <5> QED BY <5>1, <5>2, <5>3, <2>6 DEF Timer
      <4> QED BY <4>3, <4>4
    <3> QED BY <3>1
  <2>7. CASE Elapse
    <3>1. ASSUME NEW on \in OnGoing'
          PROVE  \E t \in timers' : on.age + t >= Old
      <4>1. PICK o \in OnGoing : on = Older(o)
        BY <2>7 DEF Elapse
      <4>2. o \in OnGoingRequests
        BY DEF RegInv, BaseInv, OnGoingWereMade
      <4>3. PICK t \in timers : o.age + t >= Old
        BY <2>3
      <4>4. t - 1 \in timers' /\ t # 0
        BY <2>7 DEF Elapse
      <4>5. on.age = IF o.age = Old THEN Old ELSE o.age + 1
        BY <4>1, <4>2 DEF Older, OnGoingRequests
      <4>6. o.age \in 0 .. Old /\ t \in 0 .. ResendTimer
        BY <2>1
      <4>7. on.age + (t - 1) >= Old
        BY <4>3, <4>4, <4>5, <4>6 DEF Old, ResendTimer
      <4> QED BY <4>4, <4>7
    <3> QED BY <3>1
  <2>8. CASE \/ \E r \in Registers : \E m \in network : ReceiveRequest(r, m)
             \/ \E m \in network : Lose(m)
             \/ \E c \in Clients : Expire(c)
             \/ UNCHANGED vars
    <3>1. OnGoing' = OnGoing /\ timers' = timers
      BY <2>8 DEF ReceiveRequest, Lose, Expire, vars
    <3> QED BY <3>1, <2>3
  <2>9. ~ Tick /\ ~ Restart
    BY <2>2 DEF Tick, Restart
  <2> QED BY <2>4, <2>5, <2>6, <2>7, <2>8, <2>9 DEF Next
<1> QED BY <1>1, <1>2, RegisterInvariant, PTL DEF Spec
=============================================================================
