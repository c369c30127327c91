-------------------------- MODULE Broadcast_proofs --------------------------
(***************************************************************************)
(* Acknowledgements of the broadcast can be relied on, with any number of  *)
(* omissions and crashes.                                                  *)
(***************************************************************************)
EXTENDS Broadcast, TLAPS

(* Every node has its table of neighbours, none of which is itself. *)
Tables ==
    /\ Neighbours = [n \in Nodes |-> Neighbours[n]]
    /\ \A n \in Nodes :
          /\ DOMAIN Neighbours[n] \subseteq Nodes \ {n}
          /\ Neighbours[n] \in [DOMAIN Neighbours[n] -> BOOLEAN]

(* Messages are sent to neighbours, so that those who get one and          *)
(* acknowledge it are in the sender's table.                               *)
SentToNeighbours ==
    \A m \in network : m.kind = "Broadcast" => m.to \in DOMAIN Neighbours[m.from]

BroadcastInv == AckInv /\ Tables /\ SentToNeighbours

---------------------------------------------------------------------------
(* What a step has to do to keep the invariant: tables keep their          *)
(* neighbours, nodes what they have, and new messages are true.            *)
LEMMA Preserved ==
    ASSUME BroadcastInv,
           round' = round,
           Log' \in [Nodes -> BOOLEAN], \A n \in Nodes : Log[n] => Log'[n],
           Neighbours' = [n \in Nodes |-> Neighbours'[n]],
           \A n \in Nodes : /\ DOMAIN Neighbours'[n] = DOMAIN Neighbours[n]
                            /\ Neighbours'[n] \in [DOMAIN Neighbours[n] -> BOOLEAN],
           round = "AckDeliv" =>
               \A n \in Nodes : \A k \in DOMAIN Neighbours[n] :
                   Neighbours[n][k] /\ ~ Neighbours'[n][k] => Log'[k],
           \A m \in network' \ network :
               /\ m \in Messages /\ Log'[m.from]
               /\ m.kind = "Broadcast" => m.to \in DOMAIN Neighbours[m.from]
               /\ m.kind = "Ack" => round = "AckDeliv" /\ m.from \in DOMAIN Neighbours[m.to],
           timers' \subseteq Nodes, crashed' \subseteq Nodes, losses' \in 0 .. MaxLosses
    PROVE  BroadcastInv'
<1>1. TypeOK'
  BY DEF BroadcastInv, AckInv, TypeOK, Tables
<1>2. Tables'
  BY DEF BroadcastInv, Tables
<1>3. StopsOnlyWhenDelivered'
  <2> SUFFICES ASSUME round = "AckDeliv", NEW n \in Nodes, NEW k \in DOMAIN Neighbours[n],
                      ~ Neighbours'[n][k]
               PROVE  Log'[k]
    BY DEF StopsOnlyWhenDelivered
  <2>1. k \in Nodes
    BY DEF BroadcastInv, Tables
  <2>2. CASE Neighbours[n][k]
    BY <2>2
  <2>3. CASE ~ Neighbours[n][k]
    <3>1. Log[k]
      BY <2>3 DEF BroadcastInv, AckInv, StopsOnlyWhenDelivered
    <3> QED BY <3>1, <2>1
  <2> QED BY <2>2, <2>3
<1>4. NothingUnexpected' /\ SentToNeighbours'
  <2> SUFFICES ASSUME NEW m \in network'
               PROVE  /\ m.kind = "Ack" =>
                            round = "AckDeliv" /\ m.from \in DOMAIN Neighbours'[m.to]
                      /\ Log'[m.from]
                      /\ m.kind = "Broadcast" => m.to \in DOMAIN Neighbours'[m.from]
    BY DEF NothingUnexpected, SentToNeighbours
  <2>1. m.from \in Nodes /\ m.to \in Nodes
    <3>1. m \in Messages
      BY DEF BroadcastInv, AckInv, TypeOK
    <3> QED BY <3>1 DEF Messages
  <2>2. CASE m \in network
    BY <2>1, <2>2 DEF BroadcastInv, AckInv, NothingUnexpected, SentToNeighbours
  <2>3. CASE m \notin network
    BY <2>1, <2>3
  <2> QED BY <2>2, <2>3
<1> QED BY <1>1, <1>2, <1>3, <1>4 DEF BroadcastInv, AckInv

LEMMA InitInv == Init => BroadcastInv
<1> SUFFICES ASSUME Init PROVE BroadcastInv
  OBVIOUS
<1>1. Tables
  <2>1. Neighbours["A"] = NewNodeA /\ Neighbours["B"] = NewNode(round, "C")
        /\ Neighbours["C"] = NewNode(round, "B")
    BY DEF Init, Nodes
  <2>2. Neighbours = [n \in Nodes |-> Neighbours[n]]
    BY DEF Init
  <2>3. DOMAIN NewNodeA \subseteq {"B", "C"} /\ NewNodeA \in [DOMAIN NewNodeA -> BOOLEAN]
    BY DEF NewNodeA
  <2>4. ASSUME NEW k \in Nodes
        PROVE  /\ DOMAIN NewNode(round, k) \subseteq {k, "A"}
               /\ NewNode(round, k) \in [DOMAIN NewNode(round, k) -> BOOLEAN]
    BY DEF NewNode
  <2>5. ASSUME NEW n \in Nodes
        PROVE  /\ DOMAIN Neighbours[n] \subseteq Nodes \ {n}
               /\ Neighbours[n] \in [DOMAIN Neighbours[n] -> BOOLEAN]
    <3>1. CASE n = "A"
      BY <3>1, <2>1, <2>3 DEF Nodes
    <3>2. CASE n = "B"
      BY <3>2, <2>1, <2>4 DEF Nodes
    <3>3. CASE n = "C"
      BY <3>3, <2>1, <2>4 DEF Nodes
    <3> QED BY <3>1, <3>2, <3>3 DEF Nodes
  <2> QED BY <2>2, <2>5 DEF Tables
<1>2. TypeOK
  BY <1>1, BroadcastAssumption DEF Init, TypeOK, Tables, InitTimers, Nodes
<1>3. StopsOnlyWhenDelivered
  BY DEF Init, StopsOnlyWhenDelivered, NewNodeA, NewNode, Nodes
<1>4. NothingUnexpected /\ SentToNeighbours
  BY DEF Init, NothingUnexpected, SentToNeighbours
<1> QED BY <1>1, <1>2, <1>3, <1>4 DEF BroadcastInv, AckInv

(* Receiving the message: it is stored, and the answers are an             *)
(* acknowledgement to its sender or the message for the neighbours.        *)
LEMMA ReceiveBroadcastStep ==
    ASSUME BroadcastInv, NEW n \in Nodes, NEW m \in network, ReceiveBroadcast(n, m)
    PROVE  BroadcastInv'
<1>1. m \in Messages /\ m.to = n /\ m.kind = "Broadcast" /\ n \in DOMAIN Neighbours[m.from]
  BY DEF BroadcastInv, AckInv, TypeOK, SentToNeighbours, ReceiveBroadcast
<1>2. Log' \in [Nodes -> BOOLEAN] /\ Log'[n] /\ \A k \in Nodes : Log[k] => Log'[k]
  BY DEF BroadcastInv, AckInv, TypeOK, ReceiveBroadcast
<1>3. ASSUME NEW r \in network' \ network
      PROVE  /\ r \in Messages /\ Log'[r.from]
             /\ r.kind = "Broadcast" => r.to \in DOMAIN Neighbours[r.from]
             /\ r.kind = "Ack" => round = "AckDeliv" /\ r.from \in DOMAIN Neighbours[r.to]
  <2>1. r \in Replies(n, m)
    BY DEF ReceiveBroadcast
  <2>2. CASE round = "AckDeliv"
    <3>1. r = Ack(n, m.from)
      BY <2>1, <2>2 DEF Replies
    <3> QED BY <3>1, <2>2, <1>1, <1>2 DEF Ack, Messages
  <2>3. CASE round # "AckDeliv"
    <3>1. PICK k \in DOMAIN Neighbours[n] : r = Broadcast(n, k)
      BY <2>1, <2>3 DEF Replies, Forwards
    <3>2. k \in Nodes
      BY DEF BroadcastInv, Tables
    <3> QED BY <3>1, <3>2, <1>2 DEF Broadcast, Messages
  <2> QED BY <2>2, <2>3
<1>4. UNCHANGED <<round, Neighbours, timers, crashed, losses>>
  BY DEF ReceiveBroadcast
<1> QED BY <1>2, <1>3, <1>4, Preserved DEF BroadcastInv, AckInv, TypeOK, Tables

(* Receiving an acknowledgement: its sender has the message.               *)
LEMMA ReceiveAckStep ==
    ASSUME BroadcastInv, NEW n \in Nodes, NEW m \in network, ReceiveAck(n, m)
    PROVE  BroadcastInv'
<1>1. m.to = n /\ m.kind = "Ack" /\ m.from \in DOMAIN Neighbours[n] /\ Log[m.from]
  BY DEF BroadcastInv, AckInv, NothingUnexpected, ReceiveAck
<1>2. Neighbours' = [Neighbours EXCEPT ![n] = [Neighbours[n] EXCEPT ![m.from] = FALSE]]
  BY DEF ReceiveAck, Acked
<1>3. UNCHANGED <<round, Log, timers, crashed, losses>> /\ network' \subseteq network
  BY DEF ReceiveAck
<1>4. \A k \in Nodes : /\ DOMAIN Neighbours'[k] = DOMAIN Neighbours[k]
                       /\ Neighbours'[k] \in [DOMAIN Neighbours[k] -> BOOLEAN]
  BY <1>1, <1>2 DEF BroadcastInv, Tables
<1>5. Neighbours' = [k \in Nodes |-> Neighbours'[k]]
  BY <1>2 DEF BroadcastInv, Tables
<1>6. ASSUME NEW l \in Nodes, NEW k \in DOMAIN Neighbours[l],
             Neighbours[l][k], ~ Neighbours'[l][k]
      PROVE  Log'[k]
  <2>1. l = n /\ k = m.from
    BY <1>1, <1>2, <1>6 DEF BroadcastInv, Tables
  <2> QED BY <2>1, <1>1, <1>3
<1> QED BY <1>3, <1>4, <1>5, <1>6, Preserved DEF BroadcastInv, AckInv, TypeOK

(* A timer sends to neighbours what the node has.  Only in the rounds that *)
(* send once does it touch the table.                                      *)
LEMMA TimerStep ==
    ASSUME BroadcastInv, NEW n \in Nodes, Timer(n)
    PROVE  BroadcastInv'
<1>1. UNCHANGED <<round, Log, crashed, losses>> /\ timers' \subseteq Nodes
  BY DEF Timer, Renew, BroadcastInv, AckInv, TypeOK
<1>2. /\ Neighbours' = [k \in Nodes |-> Neighbours'[k]]
      /\ \A k \in Nodes : /\ DOMAIN Neighbours'[k] = DOMAIN Neighbours[k]
                          /\ Neighbours'[k] \in [DOMAIN Neighbours[k] -> BOOLEAN]
  <2>1. CASE Once(round)
    <3>1. Neighbours' = [Neighbours EXCEPT ![n] =
                            [k \in DOMAIN Neighbours[n] |-> Neighbours[n][k] /\ ~ Log[n]]]
      BY <2>1 DEF Timer
    <3> QED BY <3>1 DEF BroadcastInv, Tables
  <2>2. CASE ~ Once(round)
    BY <2>2 DEF Timer, BroadcastInv, Tables
  <2> QED BY <2>1, <2>2
<1>3. round = "AckDeliv" => Neighbours' = Neighbours
  BY DEF Timer, Once
<1>4. ASSUME NEW r \in network' \ network
      PROVE  /\ r \in Messages /\ Log'[r.from]
             /\ r.kind = "Broadcast" => r.to \in DOMAIN Neighbours[r.from]
             /\ r.kind = "Ack" => round = "AckDeliv" /\ r.from \in DOMAIN Neighbours[r.to]
  <2>1. PICK k \in SendTo(n) : r = Broadcast(n, k)
    BY DEF Timer
  <2>2. k \in DOMAIN Neighbours[n] /\ k \in Nodes /\ Log[n]
    BY DEF SendTo, BroadcastInv, Tables
  <2> QED BY <2>1, <2>2, <1>1 DEF Broadcast, Messages
<1> QED BY <1>1, <1>2, <1>3, <1>4, Preserved DEF BroadcastInv, AckInv, TypeOK

(* Omissions and crashes take messages and timers away.                    *)
LEMMA FaultStep ==
    ASSUME BroadcastInv,
           \/ \E m \in network : Omission(m)
           \/ \E n \in Nodes : Crash(n) \/ DropAtCrashed(n)
    PROVE  BroadcastInv'
<1>1. UNCHANGED <<round, Log, Neighbours>> /\ network' \subseteq network
      /\ timers' \subseteq timers
  BY DEF Omission, Crash, DropAtCrashed
<1>2. crashed' \subseteq Nodes
  BY DEF Omission, Crash, DropAtCrashed, BroadcastInv, AckInv, TypeOK
<1>3. losses' \in 0 .. MaxLosses
  BY BroadcastAssumption DEF Omission, Crash, DropAtCrashed, BroadcastInv, AckInv, TypeOK
<1> QED BY <1>1, <1>2, <1>3, Preserved DEF BroadcastInv, AckInv, TypeOK, Tables

---------------------------------------------------------------------------
(* In the round with acknowledgements no node stops sending to a neighbour *)
(* that does not have the message, and no node gets an acknowledgement it  *)
(* panics on, whatever is lost and whoever crashes.                        *)
THEOREM AcksAreTrue == Spec => []AckInv
<1>1. Init => BroadcastInv
  BY InitInv
<1>2. BroadcastInv /\ [Next]_vars => BroadcastInv'
  <2> SUFFICES ASSUME BroadcastInv, [Next]_vars PROVE BroadcastInv'
    OBVIOUS
  <2>1. CASE \E n \in Nodes, m \in network : ReceiveBroadcast(n, m)
    BY <2>1, ReceiveBroadcastStep
  <2>2. CASE \E n \in Nodes, m \in network : ReceiveAck(n, m)
    BY <2>2, ReceiveAckStep
  <2>3. CASE \E n \in Nodes : Timer(n)
    BY <2>3, TimerStep
  <2>4. CASE \/ \E m \in network : Omission(m)
             \/ \E n \in Nodes : Crash(n) \/ DropAtCrashed(n)
    BY <2>4, FaultStep
  <2>5. CASE UNCHANGED vars
    BY <2>5 DEF vars, BroadcastInv, AckInv, TypeOK, StopsOnlyWhenDelivered,
                NothingUnexpected, Tables, SentToNeighbours
  <2> QED BY <2>1, <2>2, <2>3, <2>4, <2>5 DEF Next
<1>3. BroadcastInv => AckInv
  BY DEF BroadcastInv
<1> QED BY <1>1, <1>2, <1>3, PTL DEF Spec
=============================================================================
