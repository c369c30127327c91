----------------------------- MODULE Broadcast -----------------------------
(***************************************************************************)
(* The broadcast example, sut/broadcast: node A has a message that nodes B *)
(* and C are to get.  The five rounds are five protocols; one behaviour    *)
(* runs one of them.  The scheduler is the environment: it gives Timer to  *)
(* nodes whose timer is set, delivers what is under way in any order, and  *)
(* injects the faults of the test, omissions and crashes.  Nothing reaches *)
(* a crashed node, its timers neither; what it sent before still arrives.  *)
(* Copies of one message that are under way together are one.              *)
(***************************************************************************)
EXTENDS Naturals, FiniteSets

CONSTANTS
    Rounds,      \* the rounds to run
    MaxLosses,   \* bound: omissions
    MaxCrashes   \* bound: crashes, FailSpec.Crashes

AllRounds == {"SimpleDeliv", "RetryDeliv", "RedunDeliv", "AckDeliv", "ClassicDeliv"}

ASSUME BroadcastAssumption ==
    Rounds \subseteq AllRounds /\ MaxLosses \in Nat /\ MaxCrashes \in Nat

Nodes == {"A", "B", "C"}

VARIABLES
    round,
    Log,         \* does the node have the message?  "" is FALSE
    Neighbours,  \* node -> neighbour -> is it to be sent the message?
    timers,      \* the nodes that have a timer set
    network,     \* messages under way
    crashed,     \* the nodes that have crashed
    losses

vars == <<round, Log, Neighbours, timers, network, crashed, losses>>

Broadcast(from, to) == [kind |-> "Broadcast", from |-> from, to |-> to]
Ack(from, to) == [kind |-> "Ack", from |-> from, to |-> to]
Messages == [kind : {"Broadcast", "Ack"}, from : Nodes, to : Nodes]

---------------------------------------------------------------------------
(* NewNodeA and NewNode: B and C are each other's neighbours, and A is one *)
(* of theirs only in the classic round.                                    *)

NewNodeA == [m \in {"B", "C"} |-> TRUE]

NewNode(r, neighbour) ==
    [m \in {neighbour} \cup (IF r = "ClassicDeliv" THEN {"A"} ELSE {}) |->
        r \in {"RedunDeliv", "AckDeliv"}]

(* Node.Init: everybody sets a timer, in the classic round only A does.    *)
InitTimers(r) == IF r = "ClassicDeliv" THEN {"A"} ELSE Nodes

Init ==
    /\ round \in Rounds
    /\ Log = [n \in Nodes |-> n = "A"]
    /\ Neighbours = [n \in Nodes |->
                        IF n = "A" THEN NewNodeA
                        ELSE NewNode(round, IF n = "B" THEN "C" ELSE "B")]
    /\ timers = InitTimers(round)
    /\ network = {}
    /\ crashed = {}
    /\ losses = 0

---------------------------------------------------------------------------
(* What Receive sends: an acknowledgement of every copy in round 4, and in *)
(* round 5 the message once to all neighbours, the sender included.        *)

Forwards(n) ==
    {Broadcast(n, k) : k \in {j \in DOMAIN Neighbours[n] :
                                  round = "ClassicDeliv" /\ ~ Log[n]}}

(* Mutant: in round 4 only a new message is acknowledged. *)
RepliesOnce(n, m) ==
    IF Log[n] THEN {}
    ELSE IF round = "AckDeliv" THEN {Ack(n, m.from)} ELSE Forwards(n)

Replies(n, m) == IF round = "AckDeliv" THEN {Ack(n, m.from)} ELSE Forwards(n)

ReceiveBroadcast(n, m) ==
    /\ m \in network /\ m.kind = "Broadcast" /\ m.to = n /\ n \notin crashed
    /\ Log' = [Log EXCEPT ![n] = TRUE]
    /\ network' = (network \ {m}) \cup Replies(n, m)
    /\ UNCHANGED <<round, Neighbours, timers, crashed, losses>>

(* Mutant: the acknowledgement of one neighbour counts for all. *)
AckedByAll(n, from) == [Neighbours EXCEPT ![n] = [k \in DOMAIN @ |-> FALSE]]

Acked(n, from) == [Neighbours EXCEPT ![n][from] = FALSE]

ReceiveAck(n, m) ==
    /\ m \in network /\ m.kind = "Ack" /\ m.to = n /\ n \notin crashed
    /\ round = "AckDeliv"
    /\ Neighbours' = Acked(n, m.from)
    /\ network' = network \ {m}
    /\ UNCHANGED <<round, Log, timers, crashed, losses>>

---------------------------------------------------------------------------
(* Node.Timer: send to the neighbours that are still to be sent to, in the *)
(* rounds 1 and 5 once, and set the timer again, except in round 5.        *)

SendTo(n) == {k \in DOMAIN Neighbours[n] : Neighbours[n][k] /\ Log[n]}

Once(r) == r \in {"SimpleDeliv", "ClassicDeliv"}

(* Mutant: a node that has nothing to send drops its timer. *)
RenewIfSent(n) == IF SendTo(n) = {} THEN timers \ {n} ELSE timers

(* The timer that fires is used up, and a new one set. *)
Renew(n) == IF round = "ClassicDeliv" THEN timers \ {n} ELSE timers

Timer(n) ==
    /\ n \in timers /\ n \notin crashed
    /\ network' = network \cup {Broadcast(n, k) : k \in SendTo(n)}
    /\ Neighbours' = IF Once(round)
                     THEN [Neighbours EXCEPT ![n] = [k \in DOMAIN @ |-> @[k] /\ ~ Log[n]]]
                     ELSE Neighbours
    /\ timers' = Renew(n)
    /\ UNCHANGED <<round, Log, crashed, losses>>

---------------------------------------------------------------------------
(* Faults *)

Omission(m) ==
    /\ m \in network /\ losses < MaxLosses
    /\ network' = network \ {m}
    /\ losses' = losses + 1
    /\ UNCHANGED <<round, Log, Neighbours, timers, crashed>>

Crash(n) ==
    /\ n \notin crashed /\ Cardinality(crashed) < MaxCrashes
    /\ crashed' = crashed \cup {n}
    /\ UNCHANGED <<round, Log, Neighbours, timers, network, losses>>

(* The scheduler drops what is due at a crashed node. *)
DropAtCrashed(n) ==
    /\ n \in crashed
    /\ \/ /\ \E m \in network : m.to = n /\ network' = network \ {m}
          /\ UNCHANGED timers
       \/ n \in timers /\ timers' = timers \ {n} /\ UNCHANGED network
    /\ UNCHANGED <<round, Log, Neighbours, crashed, losses>>

Next ==
    \/ \E n \in Nodes, m \in network : ReceiveBroadcast(n, m) \/ ReceiveAck(n, m)
    \/ \E n \in Nodes : Timer(n)
    \/ \E m \in network : Omission(m)
    \/ \E n \in Nodes : Crash(n) \/ DropAtCrashed(n)

(* The scheduler hands out timers and delivers every message that no fault *)
(* drops, in the order of their times.                                     *)
Fairness ==
    /\ \A n \in Nodes : WF_vars(Timer(n)) /\ WF_vars(DropAtCrashed(n))
    /\ \A m \in Messages :
          WF_vars(ReceiveBroadcast(m.to, m)) /\ WF_vars(ReceiveAck(m.to, m))

Spec == Init /\ [][Next]_vars
FairSpec == Spec /\ Fairness

---------------------------------------------------------------------------
(* What should hold. *)

(* The state of the nodes and of the network keeps its type. *)
TypeOK ==
    /\ round \in Rounds
    /\ Log \in [Nodes -> BOOLEAN]
    /\ \A n \in Nodes : Neighbours[n] \in [DOMAIN Neighbours[n] -> BOOLEAN]
                        /\ DOMAIN Neighbours[n] \subseteq Nodes \ {n}
    /\ timers \subseteq Nodes
    /\ network \subseteq Messages
    /\ crashed \subseteq Nodes
    /\ losses \in 0 .. MaxLosses

(* Round 4: a node stops sending to a neighbour only when the neighbour    *)
(* has the message, whatever is lost, late or crashed (Neighbours is       *)
(* cleared by Ack alone, and Ack is sent by a node before it stores).      *)
StopsOnlyWhenDelivered ==
    round = "AckDeliv" =>
        \A n \in Nodes : \A k \in DOMAIN Neighbours[n] : ~ Neighbours[n][k] => Log[k]

(* No message is under way that makes its receiver stop: an Ack is sent    *)
(* only in round 4, where Receive does not panic on it, and to a node that *)
(* has the sender as a neighbour; and nobody sends what it does not have.  *)
NothingUnexpected ==
    \A m \in network :
        /\ m.kind = "Ack" => round = "AckDeliv" /\ m.from \in DOMAIN Neighbours[m.to]
        /\ Log[m.from]

(* The rounds that repeat (2, 3 and 4): B gets the message, however many   *)
(* messages are lost, as long as neither it nor A crashes.                 *)
RetryDelivers ==
    round \in {"RetryDeliv", "RedunDeliv", "AckDeliv"} /\ [](crashed \cap {"A", "B"} = {})
        => <>Log["B"]

(* Redundancy in space (rounds 3 and 4): whoever of B and C has the        *)
(* message passes it on, even if A crashes.                                *)
PassedOn ==
    \A n, k \in {"B", "C"} :
        round \in {"RedunDeliv", "AckDeliv"} /\ Log[n]
            ~> Log[k] \/ crashed \cap {n, k} # {}

(* Round 5 survives one omission: what A's message to B is lost, C sends.  *)
ClassicSurvivesOneLoss ==
    round = "ClassicDeliv" /\ [](losses <= 1 /\ crashed = {}) => <>Log["B"]

(* Round 4 is finite: without crashes the nodes fall silent in the end.    *)
SilentInTheEnd ==
    round = "AckDeliv" /\ [](crashed = {}) => <>[](network = {})

(* Acknowledgements can be relied on: those under way come from nodes that *)
(* have the message, and so do those that have stopped a sender.           *)
AckInv == TypeOK /\ StopsOnlyWhenDelivered /\ NothingUnexpected

(* Each round delivers in spite of the faults it is made for: repetition   *)
(* of lost messages, redundancy of the crash of A, the classic round of    *)
(* one omission.                                                           *)
DeliversDespiteFaults == RetryDelivers /\ PassedOn /\ ClassicSurvivesOneLoss
=============================================================================
