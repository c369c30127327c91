------------------------------ MODULE Register ------------------------------
(***************************************************************************)
(* The replicated register of sut/register: a front end, in its four       *)
(* versions, in front of two registers.  One behaviour runs one version,   *)
(* in one deployment: the HTTP executor ("http"), whose events reach       *)
(* Receive with the zero time and Tick and Timer with the simulated time,  *)
(* or the event loop ("loop"), where every time is the zero time and a     *)
(* restart fault replaces the front end by a new one.                      *)
(*                                                                         *)
(* The scheduler is the environment: it delivers what is in the network in *)
(* any order, loses some of it, lets time pass, and lets a client give up  *)
(* on a request.  An answer to a client is recorded in the step that gives *)
(* it.  Time is relative: an ongoing request has an age, which counts up   *)
(* to Old (older than the resend time), a timer has a time left.           *)
(***************************************************************************)
EXTENDS Integers, Sequences, FiniteSets, Functions

CONSTANTS
    Clients,      \* client ids, numbers; zero is the default of Go
    Deployments,  \* pairs of a version of the front end and an executor
    Agendas,      \* the tests: sequences of a client and read or write
    MaxLosses,    \* bound: messages the network loses
    MaxRestarts   \* bound: restarts of the front end by the event loop

ASSUME RegisterAssumption ==
    /\ 0 \in Clients /\ Clients \subseteq Nat
    /\ Deployments \subseteq ((1 .. 4) \X {"http"}) \cup {<<4, "loop">>}
    /\ Agendas \subseteq Seq(Clients \X {"read", "write"})
    /\ MaxLosses \in Nat /\ MaxRestarts \in Nat

register1 == "register1"
register2 == "register2"
Registers == {register1, register2}

Numbers == UNION {DOMAIN a : a \in Agendas}  \* requests, in the order made
Sessions == {n - 1 : n \in Numbers}
Old == 2                          \* the resend time is 1, so age 2 is past it

(* A write appends its own number, so that values tell writes apart.       *)
Requests == [op : {"read"}] \cup [op : {"write"}, value : Numbers]
Ack == [op |-> "ack"]
Value(v) == [op |-> "value", value |-> v]

VARIABLES
    version, executor,     \* the deployment
    agenda,                \* the test of this run
    NextSessionId,
    InFlight,              \* session -> client; in version 1 with its inverse
    OnGoing,               \* versions 2 to 4: the requests not yet answered
    ReceivedResponse,      \* version 2: the sessions where it is true
    fatal,                 \* version 1: log.Fatal has ended the process
    register,              \* the state of each register
    network,               \* messages between front end and registers
    timers,                \* version 4: times left of the timers set
    requests,              \* history: the requests the clients have made
    open,                  \* environment: a client's request, or 0
    answers,               \* history: what the clients were answered
    again,                 \* history: requests answered more than once
    losses, restarts

frontend == <<NextSessionId, InFlight, OnGoing, ReceivedResponse, fatal>>
client == <<requests, open, answers, again>>
vars == <<version, executor, agenda, frontend, register, network, timers, client,
          losses, restarts>>

---------------------------------------------------------------------------
(* Messages.  Copies of one message that are under way together are one.   *)

InternalRequest(reg, s, req) ==
    [kind |-> "request", register |-> reg, session |-> s, request |-> req]
InternalResponse(reg, s, resp) ==
    [kind |-> "response", register |-> reg, session |-> s, response |-> resp]

translate(on) == {InternalRequest(o.register, o.session, o.request) : o \in on}

NewRegister == [Value |-> <<>>, Sessions |-> {}]

---------------------------------------------------------------------------
(* Time.  TimePico.UnmarshalJSON keeps the parsed time only on an error:   *)
(* the HTTP executor gives Receive the year 1, long past the resend time   *)
(* for a Tick or Timer at simulated time; on the event loop both are zero. *)

ReceivedAt == IF executor = "http" THEN Old ELSE 0

(* at.After(on.At.Add(resendTimer)) *)
After(on) == executor = "http" /\ on.age = Old

Older(on) == [on EXCEPT !.age = IF @ = Old THEN Old ELSE @ + 1]

(* A timer fires after its duration and a latency, which is positive.      *)
ResendTimer == Old

---------------------------------------------------------------------------
Init ==
    /\ \E d \in Deployments : version = d[1] /\ executor = d[2]
    /\ agenda \in Agendas
    /\ NextSessionId = 0
    /\ InFlight = <<>>
    /\ OnGoing = {} /\ ReceivedResponse = {}
    /\ fatal = FALSE
    /\ register = [r \in Registers |-> NewRegister]
    /\ network = {} /\ timers = {}
    /\ requests = <<>> /\ open = [c \in Clients |-> 0]
    /\ answers = {} /\ again = {}
    /\ losses = 0 /\ restarts = 0

---------------------------------------------------------------------------
(* A client's request.  The scheduler lets a client have one at a time.    *)

RequestsOfSession(s) == {n \in 1 .. Len(requests) : requests[n].session = s}
Acked == {a.number : a \in {b \in answers : b.response = Ack}}

Asks(c, req) ==
    /\ open[c] = 0
    /\ requests' = Append(requests, [client |-> c, request |-> req,
                                     session |-> NextSessionId, acked |-> Acked])
    /\ open' = [open EXCEPT ![c] = Len(requests) + 1]
    /\ UNCHANGED <<answers, again>>

(* NewSessionId: the next number, in flight for the client *)
OpenSession(c) ==
    /\ NextSessionId' = NextSessionId + 1
    /\ InFlight' = [s \in DOMAIN InFlight \cup {NextSessionId} |->
                        IF s = NextSessionId THEN c ELSE InFlight[s]]

Forwarded(req) ==
    {[register |-> r, session |-> NextSessionId, request |-> req,
      age |-> ReceivedAt] : r \in Registers}

(* FrontEnd.ReceiveClient: a client that is still in flight ends it all.   *)
ReceiveClient1(c, req) ==
    /\ version = 1
    /\ Asks(c, req)
    /\ IF c \in Range(InFlight)
       THEN /\ fatal' = TRUE
            /\ UNCHANGED <<NextSessionId, InFlight, network>>
       ELSE /\ OpenSession(c)
            /\ network' = network \cup translate(Forwarded(req))
            /\ UNCHANGED fatal
    /\ UNCHANGED <<OnGoing, ReceivedResponse, timers>>

Remember(c, req) ==
    /\ Asks(c, req)
    /\ OpenSession(c)
    /\ OnGoing' = OnGoing \cup Forwarded(req)
    /\ network' = network \cup translate(Forwarded(req))
    /\ UNCHANGED fatal

ReceiveClient2(c, req) ==
    /\ version = 2
    /\ Remember(c, req)
    /\ ReceivedResponse' = ReceivedResponse \ {NextSessionId}
    /\ UNCHANGED timers

ReceiveClient3(c, req) ==
    /\ version = 3
    /\ Remember(c, req)
    /\ UNCHANGED <<ReceivedResponse, timers>>

(* Version 4 also sets a timer. *)
ReceiveClient4(c, req) ==
    /\ version = 4
    /\ Remember(c, req)
    /\ timers' = timers \cup {ResendTimer}
    /\ UNCHANGED ReceivedResponse

ClientRequest ==
    /\ ~ fatal
    /\ Len(requests) < Len(agenda)
    /\ LET n   == Len(requests) + 1
           c   == agenda[n][1]
           req == IF agenda[n][2] = "read" THEN [op |-> "read"]
                  ELSE [op |-> "write", value |-> n]
       IN  \/ ReceiveClient1(c, req)
           \/ ReceiveClient2(c, req)
           \/ ReceiveClient3(c, req)
           \/ ReceiveClient4(c, req)
    /\ UNCHANGED <<version, executor, agenda, register, losses, restarts>>

---------------------------------------------------------------------------
(* Register.Receive.  A write is applied once per session, and is          *)
(* acknowledged every time.                                                *)

(* Mutant: the session is not looked up. *)
ReceiveAnyWrite(r, m) ==
    register' = [register EXCEPT ![r].Value = Append(@, m.request.value),
                                 ![r].Sessions = @ \cup {m.session}]

ReceiveWrite(r, m) ==
    IF m.session \in register[r].Sessions
    THEN UNCHANGED register
    ELSE register' = [register EXCEPT ![r].Value = Append(@, m.request.value),
                                      ![r].Sessions = @ \cup {m.session}]

ReceiveRequest(r, m) ==
    /\ ~ fatal
    /\ m.kind = "request" /\ m.register = r
    /\ LET resp == IF m.request.op = "read" THEN Value(register[r].Value) ELSE Ack
       IN  network' = (network \ {m}) \cup {InternalResponse(r, m.session, resp)}
    /\ IF m.request.op = "read" THEN UNCHANGED register ELSE ReceiveWrite(r, m)
    /\ UNCHANGED <<version, executor, agenda, frontend, timers, client, losses, restarts>>

---------------------------------------------------------------------------
(* A response reaches the front end.  RemoveSession yields the client and  *)
(* whether to answer it, and closes the session.                           *)

Close(s) == InFlight' = Restrict(InFlight, DOMAIN InFlight \ {s})

OnGoingWithout(r, s) == {on \in OnGoing : on.session # s \/ on.register # r}

(* Mutant: nobody looks for the other register. *)
FirstResponse(r, s) == TRUE

NoMore(r, s) == \A on \in OnGoing : on.session = s => on.register = r

RemoveSession1(r, s) ==
    /\ Close(s)
    /\ UNCHANGED <<OnGoing, ReceivedResponse>>

(* The second response of a session, from whichever register, closes it.   *)
RemoveSession2(r, s) ==
    IF s \in ReceivedResponse
    THEN /\ Close(s)
         /\ OnGoing' = IF s \in DOMAIN InFlight
                       THEN {on \in OnGoing : on.session # s} ELSE OnGoing
         /\ UNCHANGED ReceivedResponse
    ELSE /\ ReceivedResponse' = ReceivedResponse \cup {s}
         /\ UNCHANGED <<InFlight, OnGoing>>

RemoveSession3(r, s) ==
    /\ IF s \in DOMAIN InFlight
       THEN /\ OnGoing' = OnGoingWithout(r, s)
            /\ IF NoMore(r, s) THEN Close(s) ELSE UNCHANGED InFlight
       ELSE UNCHANGED <<InFlight, OnGoing>>
    /\ UNCHANGED ReceivedResponse

RemoveSession4(r, s) == RemoveSession3(r, s)

RemoveSession(r, s) ==
    \/ version = 1 /\ RemoveSession1(r, s)
    \/ version = 2 /\ RemoveSession2(r, s)
    \/ version = 3 /\ RemoveSession3(r, s)
    \/ version = 4 /\ RemoveSession4(r, s)

(* The client id of a session that is not in flight is Go's zero value.    *)
clientId(s) == IF s \in DOMAIN InFlight THEN InFlight[s] ELSE 0

(* Mutant: version 4 does not look for the entry either. *)
AnswersUnseen(r, s) ==
    \/ version = 1 /\ s \in DOMAIN InFlight
    \/ version = 2 /\ s \in ReceivedResponse /\ s \in DOMAIN InFlight
    \/ version \in {3, 4} /\ (s \in DOMAIN InFlight => NoMore(r, s))

(* Is the client answered?  Version 3 takes an unknown session for one     *)
(* that needs no more responses.                                           *)
Answers(r, s) ==
    \/ version = 1 /\ s \in DOMAIN InFlight
    \/ version = 2 /\ s \in ReceivedResponse /\ s \in DOMAIN InFlight
    \/ version = 3 /\ (s \in DOMAIN InFlight => NoMore(r, s))
    \/ /\ version = 4
       /\ s \in DOMAIN InFlight /\ NoMore(r, s)
       /\ \E on \in OnGoing : on.session = s /\ on.register = r

(* The scheduler closes the request the client has open, whichever it is.  *)
(* number: the request the front end has the session for, the last with    *)
(* its id.                                                                 *)
ClientResponse(c, s, resp) ==
    LET number == CHOOSE n \in RequestsOfSession(s) :
                     \A k \in RequestsOfSession(s) : k <= n
    IN  /\ answers' = answers \cup {[client |-> c, number |-> number, response |-> resp]}
        /\ again' = again \cup {n \in {number} : \E a \in answers : a.number = n}
        /\ open' = IF c \in Clients THEN [open EXCEPT ![c] = 0] ELSE open
        /\ UNCHANGED requests

ReceiveResponse(m) ==
    /\ ~ fatal
    /\ m.kind = "response"
    /\ network' = network \ {m}
    /\ RemoveSession(m.register, m.session)
    /\ IF Answers(m.register, m.session)
       THEN ClientResponse(clientId(m.session), m.session, m.response)
       ELSE UNCHANGED client
    /\ UNCHANGED <<version, executor, agenda, NextSessionId, fatal, register, timers,
                   losses, restarts>>

---------------------------------------------------------------------------
(* Resending what is older than the resend time. *)

Again(on) == [on EXCEPT !.age = 0]

Resent == {Again(on) : on \in {o \in OnGoing : After(o)}}

Resend ==
    /\ OnGoing' = {IF After(on) THEN Again(on) ELSE on : on \in OnGoing}
    /\ network' = network \cup translate(Resent)

(* Tick of versions 2 and 3 *)
Tick ==
    /\ ~ fatal /\ version \in {2, 3}
    /\ Resent # {}
    /\ Resend
    /\ UNCHANGED <<version, executor, agenda, NextSessionId, InFlight, ReceivedResponse,
                   fatal, register, timers, client, losses, restarts>>

(* Mutant: the timer is not set again. *)
TimerOnce ==
    /\ version = 4 /\ 0 \in timers
    /\ Resend
    /\ timers' = timers \ {0}
    /\ UNCHANGED <<version, executor, agenda, NextSessionId, InFlight, ReceivedResponse,
                   fatal, register, client, losses, restarts>>

(* Timer of version 4: it is set again only if something was resent.       *)
Timer ==
    /\ version = 4 /\ 0 \in timers
    /\ Resend
    /\ timers' = (timers \ {0}) \cup (IF Resent = {} THEN {} ELSE {ResendTimer})
    /\ UNCHANGED <<version, executor, agenda, NextSessionId, InFlight, ReceivedResponse,
                   fatal, register, client, losses, restarts>>

---------------------------------------------------------------------------
(* The environment *)

Elapse ==
    /\ 0 \notin timers
    /\ OnGoing' = {Older(on) : on \in OnGoing}
    /\ timers' = {t - 1 : t \in timers}
    /\ UNCHANGED <<version, executor, agenda, NextSessionId, InFlight, ReceivedResponse,
                   fatal, register, network, client, losses, restarts>>

Lose(m) ==
    /\ losses < MaxLosses
    /\ losses' = losses + 1
    /\ network' = network \ {m}
    /\ UNCHANGED <<version, executor, agenda, frontend, register, timers, client, restarts>>

(* expire-clients! of the scheduler *)
Expire(c) ==
    /\ open[c] # 0
    /\ open' = [open EXCEPT ![c] = 0]
    /\ UNCHANGED <<version, executor, agenda, frontend, register, network, timers,
                   requests, answers, again, losses, restarts>>

(* The event loop's restart fault: a new front end, the timers stay.       *)
Restart ==
    /\ executor = "loop" /\ restarts < MaxRestarts
    /\ restarts' = restarts + 1
    /\ NextSessionId' = 0 /\ InFlight' = <<>>
    /\ OnGoing' = {} /\ ReceivedResponse' = {}
    /\ UNCHANGED <<version, executor, agenda, fatal, register, network, timers, client, losses>>

Next ==
    \/ ClientRequest
    \/ \E r \in Registers : \E m \in network : ReceiveRequest(r, m)
    \/ \E m \in network : ReceiveResponse(m)
    \/ Tick
    \/ Timer
    \/ Elapse
    \/ \E m \in network : Lose(m)
    \/ \E c \in Clients : Expire(c)
    \/ Restart

Spec == Init /\ [][Next]_vars

---------------------------------------------------------------------------
(* What should hold. *)

OnGoingRequests ==
    [register : Registers, session : Sessions, request : Requests,
     age : 0 .. Old]

(* The front end's, the registers' and the network's state keep their      *)
(* types; a session in flight is one that was handed out.                  *)
TypeOK ==
    /\ <<version, executor>> \in Deployments
    /\ NextSessionId \in 0 .. Len(agenda)
    /\ DOMAIN InFlight \subseteq 0 .. NextSessionId - 1 /\ Range(InFlight) \subseteq Clients
    /\ OnGoing \subseteq OnGoingRequests
    /\ ReceivedResponse \subseteq Sessions
    /\ fatal \in BOOLEAN
    /\ \A r \in Registers : register[r].Sessions \subseteq Sessions
    /\ \A m \in network : m.register \in Registers /\ m.session \in Sessions
    /\ timers \subseteq 0 .. ResendTimer
    /\ open \in [Clients -> 0 .. Len(agenda)]
    /\ losses \in 0 .. MaxLosses /\ restarts \in 0 .. MaxRestarts

(* Resends and late copies notwithstanding, no register applies a write    *)
(* twice (Register.Receive and its Sessions), in any version.              *)
WritesAppliedOnce ==
    \A r \in Registers : \A i, j \in 1 .. Len(register[r].Value) :
        register[r].Value[i] = register[r].Value[j] => i = j

OwnSession(n) == RequestsOfSession(requests[n].session) = {n}

(* Versions 3 and 4: when a client has its acknowledgement, both registers *)
(* hold the write, whatever was lost, resent or late, as long as its       *)
(* session id was not handed out twice: a front end that restarts counts   *)
(* from 0 again, and the registers take a new write for an old one.        *)
AckedWritesOnBoth ==
    version \in {3, 4} =>
        \A n \in Acked : OwnSession(n) =>
            \A r \in Registers : n \in Range(register[r].Value)

(* Versions 3 and 4: a read that was made after a write had been           *)
(* acknowledged is answered with a value that has the write.               *)
ReadsSeeAckedWrites ==
    version \in {3, 4} =>
        \A a \in answers : a.response.op = "value" /\ OwnSession(a.number) =>
            \A n \in requests[a.number].acked :
                OwnSession(n) => n \in Range(a.response.value)

(* A request is answered at most once, and the answer goes to the client   *)
(* that made it (frontend1.go: "we know which client the frontend should   *)
(* respond to"), late and duplicate responses and restarts notwithstanding. *)
(* It is about who is answered, not with what: the front end knows a       *)
(* response by its session id alone, and one that was restarted counts     *)
(* from 0 again, so that the response which closes a request's session may *)
(* be the one to an earlier request with the same id.                      *)
OnlyTheAskerIsAnswered ==
    /\ again = {}
    /\ \A a \in answers : a.client = requests[a.number].client

(* The same for every version but the third.  Version 3 is excepted: it    *)
(* takes a response to a session it has closed for the last one of a       *)
(* session of client 0, and answers that client.                           *)
AskerAnsweredUnlessVersion3 == version # 3 => OnlyTheAskerIsAnswered

(* Version 4, HTTP: every request not yet answered has a timer that will   *)
(* find it older than the resend time, although Timer looks at all         *)
(* requests, and sets the timer again only if it resent one.               *)
TimersCoverRequests ==
    version = 4 /\ executor = "http" =>
        \A on \in OnGoing : \E t \in timers : on.age + t >= Old

(* Session numbers never run ahead of the requests, and no write is        *)
(* applied twice: Register.Receive takes a number it has seen for a copy.  *)
RegisterInv == TypeOK /\ WritesAppliedOnce

(* An acknowledged write lasts: it is on both registers, and every read    *)
(* that is made afterwards returns it.                                     *)
AckedWritesLast == AckedWritesOnBoth /\ ReadsSeeAckedWrites
=============================================================================
