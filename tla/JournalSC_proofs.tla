-------------------------- MODULE JournalSC_proofs --------------------------
(***************************************************************************)
(* The producers' guarantees hold with the single consumer too, although   *)
(* it moves its position without a compare-and-swap; it processes the log  *)
(* in order, and no wake-up is lost inside a term.                         *)
(***************************************************************************)
EXTENDS JournalSC, JournalAppend_proofs

(* The local variables of the consumer, whatever tail it has seen. *)
ConsumerLocals(c, t, o) ==
    [offset : Nat, count : {c}, position : {t}, old : {o}, tag : Tags, len : Nat]

ConsumerOK == cloc \in ConsumerLocals(cloc.count, cloc.position, cloc.old)

(* The inductive invariant: the producers' and the consumer's part. *)
Inv == ClaimInv /\ ConsumerOK

\* Every step of the consumer preserves the invariant.
LEMMA ConsumerStep ==
    ASSUME Inv, Consume
    PROVE  Inv'
<1>1. ClaimInv /\ AppendTypeOK /\ cloc \in ConsumerLocals(cloc.count, cloc.position, cloc.old)
    BY DEF Inv, ConsumerOK, ClaimInv
<1>2. cloc.offset \in Nat /\ cloc.len \in Nat
    BY <1>1 DEF ConsumerLocals
<1>3. SUFFICES /\ bytesConsumed' \in [Subscribers -> Nat]
               /\ UNCHANGED <<activeTermCount, rawTail, cleanPosition, mem, ppc, loc, history>>
               /\ notified' \in BOOLEAN
               /\ \E c, t, o : cloc' \in ConsumerLocals(c, t, o)
    <2>1. ClaimInv'
        <3>1. AppendTypeOK'
            BY <1>1, <1>3 DEF AppendTypeOK, history
        <3>2. (\A p \in Producers : ProducerInv(p))'
            BY <1>1, <1>3 DEF ClaimInv, ProducerInv, HasFrame, CleansForward, KnowsTerm,
                              ClaimsActive, RotatesFull, RotatesOnce, Full
        <3>3. TermsInStep' /\ OldTermsFull' /\ ClaimsBehindTail' /\ ClaimsOrdered'
            BY <1>1, <1>3 DEF ClaimInv, TermsInStep, OldTermsFull, Full, ClaimsBehindTail,
                              ClaimsOrdered, history
        <3> QED BY <3>1, <3>2, <3>3 DEF ClaimInv
    <2>2. ConsumerOK'
        BY <1>3 DEF ConsumerOK, ConsumerLocals
    <2> QED BY <2>1, <2>2 DEF Inv
<1>4. NoReadLocals \in ConsumerLocals(0, 0, 0)
    BY DEF NoReadLocals, ConsumerLocals, Tags
<1>5. bytesConsumed \in [Subscribers -> Nat] /\ notified \in BOOLEAN
    BY <1>1 DEF AppendTypeOK
<1>6. "Sub1" \in Subscribers
    BY ConsumerAssumption
<1>7. CASE ReadBytesConsumed
    <2>1. [cloc EXCEPT !.offset = bytesConsumed["Sub1"]]
            \in ConsumerLocals(cloc.count, cloc.position, cloc.old)
        BY <1>1, <1>5, <1>6 DEF ConsumerLocals
    <2> QED BY <1>5, <1>7, <2>1 DEF ReadBytesConsumed, appendVars, shared, history
<1>8. CASE ReaderTermCount
    <2>1. [cloc EXCEPT !.count = activeTermCount]
            \in ConsumerLocals(activeTermCount, cloc.position, cloc.old)
        BY <1>1 DEF ConsumerLocals
    <2> QED BY <1>5, <1>8, <2>1 DEF ReaderTermCount, appendVars, shared, history
<1>9. CASE ReaderRawTail
    <2>1. ASSUME NEW t, NEW o
          PROVE  /\ [cloc EXCEPT !.position = t, !.old = o] \in ConsumerLocals(cloc.count, t, o)
                 /\ [NoReadLocals EXCEPT !.offset = cloc.offset, !.position = t]
                      \in ConsumerLocals(0, t, 0)
        BY <1>1, <1>2, <1>4 DEF ConsumerLocals
    <2>2. \/ \E t, o : cloc' = [cloc EXCEPT !.position = t, !.old = o]
          \/ \E t : cloc' = [NoReadLocals EXCEPT !.offset = cloc.offset, !.position = t]
        BY <1>9 DEF ReaderRawTail
    <2>3. \E c, t, o : cloc' \in ConsumerLocals(c, t, o)
        <3>1. CASE \E t, o : cloc' = [cloc EXCEPT !.position = t, !.old = o]
            <4> PICK t, o : cloc' = [cloc EXCEPT !.position = t, !.old = o]
                BY <3>1
            <4> QED BY <2>1
        <3>2. CASE \E t : cloc' = [NoReadLocals EXCEPT !.offset = cloc.offset, !.position = t]
            <4> PICK t : cloc' = [NoReadLocals EXCEPT !.offset = cloc.offset, !.position = t]
                BY <3>2
            <4> QED BY <2>1
        <3> QED BY <2>2, <3>1, <3>2
    <2> QED BY <1>5, <1>9, <2>3 DEF ReaderRawTail, appendVars, shared, history
<1>10. CASE WaitForJournalChange
    <2>1. [cloc EXCEPT !.count = 0, !.old = 0] \in ConsumerLocals(0, cloc.position, 0)
        BY <1>1 DEF ConsumerLocals
    <2> QED BY <1>1, <1>5, <1>10, <2>1 DEF WaitForJournalChange, appendVars, shared, history
<1>11. CASE BlockUntilNotification
    BY <1>1, <1>5, <1>11 DEF BlockUntilNotification, history
<1>12. CASE ReadFrameType
    <2> DEFINE tag == mem[ReadAddress(cloc.offset)].tag
    <2>1. tag \in Tags
        BY <1>1, <1>2, ReadWord
    <2>2. [cloc EXCEPT !.tag = tag] \in ConsumerLocals(cloc.count, cloc.position, cloc.old)
        BY <1>1, <2>1 DEF ConsumerLocals
    <2> QED BY <1>4, <1>5, <1>12, <2>2 DEF ReadFrameType, appendVars, shared, history
<1>13. CASE ReadFrameLength
    <2> DEFINE len == mem[ReadAddress(cloc.offset)].len
    <2>1. len \in Int
        BY <1>1, <1>2, ReadWord
    <2>2. \A n \in Nat : [cloc EXCEPT !.len = n]
                            \in ConsumerLocals(cloc.count, cloc.position, cloc.old)
        BY <1>1 DEF ConsumerLocals
    <2>3. cloc' = cloc \/ \E n \in Nat : cloc' = [cloc EXCEPT !.len = n]
        BY <1>13, <2>1 DEF ReadFrameLength
    <2> HIDE DEF len
    <2> QED BY <1>1, <1>5, <1>13, <2>2, <2>3 DEF ReadFrameLength, appendVars, shared, history
<1>14. CASE ProcessBytes
    BY <1>1, <1>5, <1>14 DEF ProcessBytes, appendVars, shared, history
<1>15. CASE IncrBytesConsumed
    <2>1. bytesConsumed' \in [Subscribers -> Nat]
        BY <1>2, <1>5, <1>6, <1>15 DEF IncrBytesConsumed
    <2>2. \A n \in Nat : [cloc EXCEPT !.offset = n, !.tag = "Empty", !.len = 0]
                            \in ConsumerLocals(cloc.count, cloc.position, cloc.old)
        BY <1>1 DEF ConsumerLocals, Tags
    <2>3. /\ cloc.offset + cloc.len \in Nat
          /\ cloc' = [cloc EXCEPT !.offset = cloc.offset + cloc.len, !.tag = "Empty", !.len = 0]
        BY <1>2, <1>15 DEF IncrBytesConsumed
    <2>4. cloc' \in ConsumerLocals(cloc.count, cloc.position, cloc.old)
        BY <2>2, <2>3
    <2> QED BY <1>5, <1>15, <2>1, <2>4 DEF IncrBytesConsumed, shared, history
<1> QED BY <1>7, <1>8, <1>9, <1>10, <1>11, <1>12, <1>13, <1>14, <1>15 DEF Consume

\* Inv is an inductive invariant of the journal with its single consumer.
LEMMA Invariance == Spec => []Inv
<1>1. Init => Inv
    <2>1. NoReadLocals \in ConsumerLocals(0, 0, 0) /\ NoReadLocals.count = 0
          /\ NoReadLocals.position = 0 /\ NoReadLocals.old = 0
        BY DEF NoReadLocals, ConsumerLocals, Tags
    <2> QED BY <2>1, ClaimInvInit DEF Init, Inv, ConsumerOK
<1>2. Inv /\ [Next]_vars => Inv'
    <2> SUFFICES ASSUME Inv, [Next]_vars PROVE Inv'
        OBVIOUS
    <2>1. ASSUME NEW p \in Producers, Produce(p), UNCHANGED readVars PROVE Inv'
        <3>1. ClaimInv'
            BY <2>1, ClaimInvProduce DEF Inv
        <3> QED BY <2>1, <3>1 DEF Inv, ConsumerOK, readVars
    <2>2. CASE Consume
        BY <2>2, ConsumerStep
    <2>3. CASE UNCHANGED vars
        <3>1. bytesConsumed' \in [Subscribers -> Nat]
            BY <2>3 DEF Inv, ClaimInv, AppendTypeOK, vars, appendVars
        <3>2. ClaimInv'
            BY <2>3, <3>1, ClaimInvRead DEF Inv, vars, appendVars
        <3> QED BY <2>3, <3>2 DEF Inv, ConsumerOK, vars, readVars
    <2> QED BY <2>1, <2>2, <2>3 DEF Next
<1> QED BY <1>1, <1>2, PTL DEF Spec

\* The shared state stays well formed with a consumer that adds what it finds
\* in a header, a negative length of padding included, to its position.
THEOREM TypeCorrect == Spec => []AppendTypeOK
<1>1. Inv => AppendTypeOK
    BY DEF Inv, ClaimInv
<1> QED BY <1>1, Invariance, PTL

\* The partitions hold consecutive terms: rotateLog is thread safe.
THEOREM RotationThreadSafe == Spec => []TermsInStep
<1>1. Inv => TermsInStep
    BY DEF Inv, ClaimInv
<1> QED BY <1>1, Invariance, PTL

\* The order of the fetch-and-adds is the order of the log here too.
THEOREM ClaimsTakenInOrder == Spec => []ClaimsOrdered
<1>1. Inv => ClaimsOrdered
    BY DEF Inv, ClaimInv
<1> QED BY <1>1, Invariance, PTL
---------------------------------------------------------------------------
\* The consumer moves its position forward or not at all.
LEMMA ConsumerForward ==
    ASSUME Inv, Consume
    PROVE  /\ UNCHANGED <<activeTermCount, rawTail, ppc, loc>>
           /\ \A s \in Subscribers : bytesConsumed[s] <= bytesConsumed'[s]
<1>1. bytesConsumed \in [Subscribers -> Nat] /\ cloc.len \in Nat
    BY DEF Inv, ClaimInv, AppendTypeOK, ConsumerOK, ConsumerLocals
<1>2. CASE UNCHANGED appendVars
    BY <1>1, <1>2 DEF appendVars, shared
<1>3. CASE BlockUntilNotification
    BY <1>1, <1>3 DEF BlockUntilNotification
<1>4. CASE IncrBytesConsumed
    BY <1>1, <1>4 DEF IncrBytesConsumed, shared
<1> QED BY <1>2, <1>3, <1>4 DEF Consume, ReadBytesConsumed, ReaderTermCount, ReaderRawTail,
              WaitForJournalChange, ReadFrameType, ReadFrameLength, ProcessBytes

\* BackInv is an inductive invariant of the journal with its single consumer.
LEMMA BackInvariance == Spec => []BackInv
<1>1. Init => BackInv
    BY BackInvInit DEF Init
<1>2. Inv /\ Inv' /\ BackInv /\ [Next]_vars => BackInv'
    <2> SUFFICES ASSUME Inv, Inv', BackInv, [Next]_vars PROVE BackInv'
        OBVIOUS
    <2>0. ClaimInv /\ ClaimInv'
        BY DEF Inv
    <2>1. ASSUME NEW p \in Producers, Produce(p) PROVE BackInv'
        BY <2>0, <2>1, BackInvProduce
    <2>2. CASE Consume
        BY <2>0, <2>2, ConsumerForward, BackInvRead
    <2>3. CASE UNCHANGED vars
        <3>1. \A s \in Subscribers : bytesConsumed[s] <= bytesConsumed'[s]
            BY <2>0, <2>3 DEF ClaimInv, AppendTypeOK, vars, appendVars
        <3>2. UNCHANGED <<activeTermCount, rawTail, ppc, loc>>
            BY <2>3 DEF vars, appendVars, shared
        <3> QED BY <2>0, <3>1, <3>2, BackInvRead
    <2> QED BY <2>1, <2>2, <2>3 DEF Next
<1> QED BY <1>1, <1>2, Invariance, PTL DEF Spec

\* The producers' tail never runs ahead of the consumer by more than the window
\* and two frames per producer.
THEOREM BackPressureHolds == Spec => []BackPressureBound
<1>1. Inv /\ BackInv => BackPressureBound
    BY BackInvBound DEF Inv
<1> QED BY <1>1, Invariance, BackInvariance, PTL
---------------------------------------------------------------------------
(* What the consumer is given, while no frame has left its term. *)

ConsumerLabels == {"offset", "count", "tail", "wait", "block", "go", "length", "process", "incr"}

ConsumerTypes ==
    [offset : Nat, count : Nat, position : Nat, old : Nat, len : Nat,
     tag : {"Empty", "Valid", "Padding", "Data"}]

Payloads == Seq(Nat)

ConsumerTypeOK ==
    /\ cpc \in ConsumerLabels /\ cloc \in ConsumerTypes
    /\ processed \in Seq(Payloads) /\ waits \in Modes

(* The term count the consumer has read is one of the past: its partition   *)
(* has held a term.                                                         *)
CountSeen == cpc = "tail" => cloc.count <= activeTermCount

(* The consumer has processed a frame and not moved past it yet. *)
InHand == cpc = "incr" /\ cloc.tag # "Padding"

(* How many frames it has moved past, and the position it has moved to.     *)
Passed == IF InHand THEN Len(processed) - 1 ELSE Len(processed)
Pos    == bytesConsumed["Sub1"]

Reached ==
    /\ InHand => Len(processed) > 0
    /\ AtFrame(Passed, Pos)
    /\ ProcessedInOrder

(* What the consumer knows of the frame at its position b, d frames into    *)
(* the log: its offset is still that position, the type it has seen is the  *)
(* type in memory, a frame it processes is committed and has the length it  *)
(* has read, and so has a padding it skips, although its length may still   *)
(* have been negative.                                                      *)
InPlace(b) == cpc # "offset" => cloc.offset = b
SeesType(b) == cpc = "length" /\ cloc.tag # "Empty" => mem[ReadAddress(b)].tag = cloc.tag
SeesFrame(d, b) == cpc = "process" \/ InHand =>
    /\ d + 1 \in committed /\ b = ClaimPosition(d + 1) /\ cloc.len = claims[d + 1].len
    /\ cloc.tag # "Padding"
SeesPadding(d, b) == cpc = "incr" /\ cloc.tag = "Padding" =>
    d > 0 /\ Gap(d) /\ b = EndPosition(d) /\ cloc.len = GapLength(d)

(* A consumer that waits has read up to the offset it saw of the term it    *)
(* watches, and when it sleeps short of that term's end it has read the     *)
(* whole log, or there is an append that will wake it.                      *)
WaitsAt(b) == cpc \in {"wait", "block"} =>
    cloc.count <= FrontTerm /\ b = Start(cloc.count) + cloc.old /\ cloc.old <= TermLength
WillWake == notified \/ \E p \in Producers : ppc[p] \in Writes \cup {"notify"}
Sleeps(d) == cpc = "block" /\ cloc.old < TermLength => d = Len(claims) \/ WillWake

Knows(d, b) ==
    /\ InPlace(b) /\ SeesType(b) /\ SeesFrame(d, b) /\ SeesPadding(d, b)
    /\ WaitsAt(b) /\ Sleeps(d)

(* The invariant of the producers and the consumer. *)
SharedInv == ClaimInv /\ LayoutInv /\ PlaceInv /\ MemInv
SCInv == SharedInv /\ ConsumerTypeOK /\ CountSeen /\ Reached /\ Knows(Passed, Pos)

\* What the invariant says, with the number of frames and the position named.
LEMMA Where ==
    ASSUME SCInv
    PROVE  /\ ClaimInv /\ LayoutInv /\ PlaceInv /\ MemInv /\ Layout /\ Inv
           /\ Passed \in Nat /\ Pos \in Nat /\ "Sub1" \in Subscribers
           /\ AtFrame(Passed, Pos) /\ Knows(Passed, Pos)
<1>1. /\ SharedInv /\ ConsumerTypeOK /\ Reached /\ Knows(Passed, Pos) /\ "Sub1" \in Subscribers
    BY ConsumerAssumption DEF SCInv
<1>2. Passed \in Nat
    <2>1. Len(processed) \in Nat /\ (InHand => Len(processed) > 0)
        BY <1>1 DEF ConsumerTypeOK, Reached
    <2> QED BY <2>1 DEF Passed
<1>3. Pos \in Nat
    BY <1>1 DEF SharedInv, ClaimInv, AppendTypeOK, Pos
<1>4. Inv
    <2>1. ClaimInv /\ cloc \in ConsumerTypes
        BY <1>1 DEF SharedInv, ConsumerTypeOK
    <2>2. cloc \in ConsumerLocals(cloc.count, cloc.position, cloc.old)
        BY <2>1 DEF ConsumerTypes, ConsumerLocals, Tags
    <2> QED BY <2>1, <2>2 DEF Inv, ConsumerOK
<1> QED BY <1>1, <1>2, <1>3, <1>4 DEF SharedInv, LayoutInv, Reached

\* A step of the consumer that leaves its position keeps the invariant if what it
\* has learnt in it is true.
LEMMA QuietConsumer ==
    ASSUME SCInv, ClaimInv', NEW d \in Nat, d = Passed, NEW b \in Nat, b = Pos,
           UNCHANGED <<activeTermCount, rawTail, cleanPosition, mem, bytesConsumed, ppc, loc, history>>,
           ConsumerTypeOK', CountSeen', Passed' = d, (InHand => Len(processed) > 0)',
           ProcessedInOrder', Knows(d, b)'
    PROVE  SCInv'
<1>1. /\ ClaimInv /\ LayoutInv /\ PlaceInv /\ MemInv /\ AtFrame(d, b) /\ Behind
    BY Where DEF PlaceInv
<1>2. bytesConsumed' = bytesConsumed /\ UNCHANGED <<activeTermCount, rawTail, history>>
      /\ claims' = claims /\ committed' = committed
    BY DEF history
<1>3. /\ Front' = Front /\ (\A k : ClaimPosition(k)' = ClaimPosition(k)) /\ AtFrame(d, b)'
    BY <1>1, <1>2, LogKept
<1>4. Behind'
    BY <1>1, <1>2, <1>3 DEF Behind
<1>5. \A s \in Subscribers : bytesConsumed[s] <= bytesConsumed'[s]
    BY <1>1, <1>2 DEF ClaimInv, AppendTypeOK
<1>6. SharedInv'
    BY <1>1, <1>4, <1>5, ForwardKeeps DEF SharedInv
<1>7. Pos' = b
    BY <1>2 DEF Pos
<1> QED BY <1>3, <1>6, <1>7 DEF SCInv, Reached

\* The partition of a term count of the past still holds that term, and the tail
\* computed from it is a position of that term.
LEMMA TailSeen ==
    ASSUME ClaimInv, LayoutInv, NEW c \in Nat, c <= activeTermCount
    PROVE  /\ c <= FrontTerm /\ rawTail[indexByTermCount(c)].id = c
           /\ TailPosition(c) = Start(c) + rawTailTermOffset(rawTail[indexByTermCount(c)], TermLength)
           /\ rawTailTermOffset(rawTail[indexByTermCount(c)], TermLength) \in 0 .. TermLength
           /\ TailPosition(c) \in Nat
<1>1. /\ FrontTerm \in Nat /\ FrontTerm <= 1 /\ c <= FrontTerm
      /\ rawTail \in [Partitions -> RawTails] /\ indexByTermCount(c) \in Partitions
    <2>1. activeTermCount \in Nat /\ rawTail \in [Partitions -> RawTails] /\ FrontTerm <= 1
        BY DEF LayoutInv, FirstTerms, ClaimInv, AppendTypeOK
    <2>2. activeTermCount <= FrontTerm /\ FrontTerm \in Nat
        BY <2>1, FrontIs DEF FrontTerm
    <2> QED BY <2>1, <2>2, IndexType
<1>2. rawTail[indexByTermCount(c)].id = c
    <2>1. indexByTermCount(1 + 2) = indexByTermCount(0)
        BY DEF indexByTermCount, PARTITION_COUNT
    <2>2. c = FrontTerm \/ (FrontTerm = 1 /\ c = 0)
        BY <1>1
    <2> QED BY <2>1, <2>2, PartitionTerms
<1>3. rawTailTermOffset(rawTail[indexByTermCount(c)], TermLength) \in 0 .. TermLength
    <2>1. rawTail[indexByTermCount(c)].off \in Nat
        BY <1>1 DEF RawTails
    <2> QED BY <2>1, TermLengthType DEF rawTailTermOffset, minimum
<1>4. TailPosition(c) = Start(c) + rawTailTermOffset(rawTail[indexByTermCount(c)], TermLength)
    BY <1>2 DEF TailPosition, computePosition, Start
<1>5. Start(c) \in Nat /\ TermLength \in Nat
    BY StartType, TermLengthType
<1> QED BY <1>1, <1>2, <1>3, <1>4, <1>5

\* A consumer that still finds the tail short of the term's end where it has read
\* to is at the end of the log.
LEMMA NothingMore ==
    ASSUME SCInv, cpc = "wait", JournalUnchanged, cloc.old < TermLength
    PROVE  Passed = Len(claims)
<1>1. /\ ClaimInv /\ LayoutInv /\ Layout /\ Passed \in Nat /\ Pos \in Nat /\ AtFrame(Passed, Pos)
      /\ WaitsAt(Pos)
    BY Where DEF Knows
<1>2. PICK b \in Nat : b = Pos
    BY <1>1
<1>3. cloc.old \in Nat /\ cloc.count \in Nat
    BY DEF SCInv, ConsumerTypeOK, ConsumerTypes
<1>4. PICK t \in Nat : t = cloc.count
    BY <1>3
<1>5. t <= FrontTerm /\ b = Start(t) + cloc.old
    BY <1>1, <1>2, <1>4 DEF WaitsAt
<1>6. /\ TermLength \in Nat /\ FrontTerm \in Nat /\ FrontOffset \in Nat /\ FrontTerm <= 1
      /\ Front = Start(FrontTerm) + minimum(FrontOffset, TermLength)
      /\ rawTail \in [Partitions -> RawTails] /\ indexByTermCount(FrontTerm) \in Partitions
      /\ indexByTermCount(t) \in Partitions /\ Start(t) \in Nat
    BY <1>1, FrontIs, TermLengthType, IndexType, StartType DEF ClaimInv, AppendTypeOK, LayoutInv, FirstTerms
<1>7. rawTail[indexByTermCount(t)].id = t
    <2>1. indexByTermCount(1 + 2) = indexByTermCount(0)
        BY DEF indexByTermCount, PARTITION_COUNT
    <2>2. t = FrontTerm \/ (FrontTerm = 1 /\ t = 0)
        BY <1>5, <1>6
    <2> QED BY <1>1, <2>1, <2>2, PartitionTerms
<1>8. rawTail[indexByTermCount(t)].off = cloc.old
    <2>1. minimum(rawTail[indexByTermCount(t)].off, TermLength) = cloc.old
        BY <1>4 DEF JournalUnchanged, rawTailTermOffset
    <2>2. rawTail[indexByTermCount(t)].off \in Nat
        BY <1>6 DEF RawTails
    <2> QED BY <1>3, <1>6, <2>1, <2>2 DEF minimum
<1>9. t = FrontTerm
    <2>1. ASSUME t # FrontTerm PROVE FALSE
        <3>1. rawTail[indexByTermCount(FrontTerm)].id = FrontTerm
            BY <1>1, PartitionTerms
        <3>2. t < FrontTerm
            BY <1>5, <1>6, <2>1
        <3>3. Full(indexByTermCount(t))
            BY <1>1, <1>6, <1>7, <3>1, <3>2 DEF ClaimInv, OldTermsFull
        <3>4. capacity(indexByTermCount(t)) >= TermLength /\ capacity(indexByTermCount(t)) \in Nat
            BY <1>6, CapacityHoldsTerm, CapacityType
        <3> QED BY <1>3, <1>6, <1>8, <3>3, <3>4 DEF Full
    <2> QED BY <2>1
<1>10. Front = b
    BY <1>3, <1>5, <1>6, <1>8, <1>9 DEF FrontOffset, minimum
<1> QED BY <1>1, <1>2, <1>10, CaughtUp

(* A step of the consumer that leaves the log and its positions alone. *)
LogAlone == UNCHANGED <<activeTermCount, rawTail, cleanPosition, mem, bytesConsumed, ppc, loc, history>>

\* A step that neither processes a frame nor moves past one passes none.
LEMMA PassesNone ==
    ASSUME SCInv, UNCHANGED history, processed' = processed, ~InHand, ~InHand'
    PROVE  /\ Passed' = Passed /\ (InHand => Len(processed) > 0)' /\ ProcessedInOrder'
<1>1. ProcessedInOrder /\ claims' = claims /\ committed' = committed
    BY DEF SCInv, Reached, history
<1>2. ProcessedInOrder'
    BY <1>1 DEF ProcessedInOrder, Content
<1>3. Passed' = Passed
    BY DEF Passed
<1> QED BY <1>2, <1>3

\* The consumer reads its position, the term count and the tail, and decides
\* whether to wait.
LEMMA StartSteps ==
    ASSUME SCInv, ReadBytesConsumed \/ ReaderTermCount \/ ReaderRawTail, waits' = waits, ClaimInv'
    PROVE  SCInv'
<1>0. /\ ClaimInv /\ LayoutInv /\ Passed \in Nat /\ Pos \in Nat /\ Knows(Passed, Pos)
      /\ activeTermCount \in Nat
    BY Where DEF ClaimInv, AppendTypeOK
<1>1. /\ cpc \in ConsumerLabels /\ cloc \in ConsumerTypes /\ processed \in Seq(Payloads) /\ waits \in Modes
    BY DEF SCInv, ConsumerTypeOK
<1>2. LogAlone /\ processed' = processed /\ UNCHANGED <<activeTermCount, rawTail, history>>
    BY DEF ReadBytesConsumed, ReaderTermCount, ReaderRawTail, appendVars, shared, LogAlone
<1>3. PICK d \in Nat : d = Passed
    BY <1>0
<1>4. PICK b \in Nat : b = Pos
    BY <1>0
<1>5. SUFFICES /\ cpc' \in {"count", "tail", "wait", "go"} /\ cloc' \in ConsumerTypes
               /\ cpc \in {"offset", "count", "tail"} /\ cloc'.offset = b
               /\ cpc' = "tail" => cloc'.count <= activeTermCount
               /\ WaitsAt(b)'
    <2>1. ConsumerTypeOK' /\ CountSeen'
        BY <1>1, <1>2, <1>5 DEF ConsumerTypeOK, ConsumerLabels, CountSeen
    <2>2. ~InHand /\ ~InHand'
        BY <1>5 DEF InHand
    <2>3. Passed' = d /\ (InHand => Len(processed) > 0)' /\ ProcessedInOrder'
        BY <1>2, <1>3, <2>2, PassesNone
    <2>4. Knows(d, b)'
        BY <1>5, <2>2 DEF Knows, InPlace, SeesType, SeesFrame, SeesPadding, Sleeps
    <2> QED BY <1>2, <1>3, <1>4, <2>1, <2>3, <2>4, QuietConsumer DEF LogAlone
<1>6. CASE ReadBytesConsumed
    <2>1. cpc = "offset" /\ cpc' = "count" /\ cloc' = [cloc EXCEPT !.offset = b]
        BY <1>4, <1>6 DEF ReadBytesConsumed, GotoC, Pos
    <2>2. cloc' \in ConsumerTypes /\ cloc'.offset = b
        BY <1>1, <2>1 DEF ConsumerTypes
    <2> QED BY <2>1, <2>2 DEF WaitsAt
<1>7. CASE ReaderTermCount
    <2>1. cpc = "count" /\ cpc' = "tail" /\ cloc' = [cloc EXCEPT !.count = activeTermCount]
        BY <1>7 DEF ReaderTermCount, GotoC
    <2>2. cloc' \in ConsumerTypes /\ cloc'.offset = cloc.offset /\ cloc'.count = activeTermCount
        BY <1>0, <1>1, <2>1 DEF ConsumerTypes
    <2>3. cloc.offset = b
        BY <1>0, <1>4, <2>1 DEF Knows, InPlace
    <2> QED BY <1>0, <2>1, <2>2, <2>3 DEF WaitsAt
<1>8. CASE ReaderRawTail
    <2>1. cpc = "tail" /\ cloc.offset = b /\ cloc.count \in Nat /\ cloc.count <= activeTermCount
          /\ cloc.offset \in Nat
        <3>1. cpc = "tail"
            BY <1>8 DEF ReaderRawTail, GotoC
        <3> QED BY <1>0, <1>1, <1>4, <3>1 DEF Knows, InPlace, ConsumerTypes, SCInv, CountSeen
    <2>2. PICK c \in Nat : c = cloc.count
        BY <2>1
    <2>3. PICK o : o = rawTailTermOffset(rawTail[indexByTermCount(c)], TermLength)
        OBVIOUS
    <2>4. PICK x : x = TailPosition(c)
        OBVIOUS
    <2>5. c <= FrontTerm /\ x = Start(c) + o /\ o \in 0 .. TermLength /\ x \in Nat
        BY <1>0, <2>1, <2>2, <2>3, <2>4, TailSeen
    <2>6. o \in Nat /\ o <= TermLength
        BY <2>5, TermLengthType
    <2>7. \/ /\ cloc.offset = x /\ cpc' = "wait" /\ cloc' = [cloc EXCEPT !.position = x, !.old = o]
          \/ /\ cpc' = "go" /\ cloc' = [NoReadLocals EXCEPT !.offset = cloc.offset, !.position = x]
        BY <1>8, <2>2, <2>3, <2>4 DEF ReaderRawTail, GotoC
    <2>8. CASE /\ cloc.offset = x /\ cpc' = "wait" /\ cloc' = [cloc EXCEPT !.position = x, !.old = o]
        <3>1. /\ cloc' \in ConsumerTypes /\ cloc'.offset = b /\ cloc'.count = c /\ cloc'.old = o
            BY <1>1, <2>1, <2>2, <2>5, <2>6, <2>8 DEF ConsumerTypes
        <3>2. FrontTerm' = FrontTerm
            BY <1>2, LogKept
        <3>3. WaitsAt(b)'
            <4>1. /\ cloc'.count <= FrontTerm' /\ b = Start(cloc'.count) + cloc'.old /\ cloc'.old <= TermLength
                BY <2>1, <2>5, <2>6, <2>8, <3>1, <3>2
            <4> QED BY <4>1 DEF WaitsAt, Start
        <3> QED BY <2>1, <2>8, <3>1, <3>3
    <2>9. CASE /\ cpc' = "go" /\ cloc' = [NoReadLocals EXCEPT !.offset = cloc.offset, !.position = x]
        <3>1. cloc' \in ConsumerTypes /\ cloc'.offset = b
            BY <2>1, <2>5, <2>9 DEF ConsumerTypes, NoReadLocals
        <3> QED BY <2>1, <2>9, <3>1 DEF WaitsAt
    <2> QED BY <2>7, <2>8, <2>9
<1> QED BY <1>6, <1>7, <1>8

\* The consumer compares the tail with what it was, sleeps, and is woken.
LEMMA WaitSteps ==
    ASSUME SCInv, WaitForJournalChange \/ BlockUntilNotification, waits' = waits, ClaimInv'
    PROVE  SCInv'
<1>0. /\ ClaimInv /\ Passed \in Nat /\ Pos \in Nat /\ Knows(Passed, Pos)
    BY Where
<1>1. /\ cpc \in ConsumerLabels /\ cloc \in ConsumerTypes /\ processed \in Seq(Payloads) /\ waits \in Modes
    BY DEF SCInv, ConsumerTypeOK
<1>2. LogAlone /\ processed' = processed /\ UNCHANGED <<activeTermCount, rawTail, history>> /\ claims' = claims
    BY DEF WaitForJournalChange, BlockUntilNotification, appendVars, shared, LogAlone, history
<1>3. PICK d \in Nat : d = Passed
    BY <1>0
<1>4. PICK b \in Nat : b = Pos
    BY <1>0
<1>5. cpc \in {"wait", "block"} /\ cpc' \in {"wait", "block", "go"}
    BY DEF WaitForJournalChange, BlockUntilNotification, GotoC
<1>6. cloc' \in ConsumerTypes /\ cloc'.offset = cloc.offset /\ (cpc' # "go" => cloc' = cloc)
    <2>1. cloc' = cloc \/ (cloc' = [cloc EXCEPT !.count = 0, !.old = 0] /\ cpc' = "go")
        BY DEF WaitForJournalChange, BlockUntilNotification, GotoC
    <2>2. LET l == [cloc EXCEPT !.count = 0, !.old = 0]
          IN  l \in ConsumerTypes /\ l.offset = cloc.offset
        BY <1>1 DEF ConsumerTypes
    <2> QED BY <1>1, <2>1, <2>2
<1>7. ConsumerTypeOK' /\ CountSeen' /\ ~InHand /\ ~InHand'
    BY <1>1, <1>2, <1>5, <1>6 DEF ConsumerTypeOK, ConsumerLabels, CountSeen, InHand
<1>8. Passed' = d /\ (InHand => Len(processed) > 0)' /\ ProcessedInOrder'
    BY <1>2, <1>3, <1>7, PassesNone
<1>9. InPlace(b)' /\ SeesType(b)' /\ SeesFrame(d, b)' /\ SeesPadding(d, b)'
    <2>1. cloc.offset = b
        BY <1>0, <1>4, <1>5 DEF Knows, InPlace
    <2>2. cpc' # "length" /\ cpc' # "process" /\ cpc' # "incr"
        BY <1>5
    <2> QED BY <1>6, <1>7, <2>1, <2>2 DEF InPlace, SeesType, SeesFrame, SeesPadding
<1>10. WaitsAt(b)'
    <2>1. FrontTerm' = FrontTerm /\ WaitsAt(b)
        BY <1>0, <1>2, <1>4, LogKept DEF Knows
    <2> QED BY <1>5, <1>6, <2>1 DEF WaitsAt, Start
<1>11. Sleeps(d)'
    <2>1. SUFFICES ASSUME cpc' = "block", cloc'.old < TermLength PROVE d = Len(claims)
        BY <1>2 DEF Sleeps
    <2>2. cpc = "wait" /\ JournalUnchanged /\ cloc.old < TermLength
        BY <1>6, <2>1 DEF WaitForJournalChange, BlockUntilNotification, GotoC
    <2> QED BY <1>3, <2>2, NothingMore
<1>12. Knows(d, b)'
    BY <1>9, <1>10, <1>11 DEF Knows
<1> QED BY <1>2, <1>3, <1>4, <1>7, <1>8, <1>12, QuietConsumer DEF LogAlone

\* The consumer looks at the type and the length of a frame.
LEMMA LookSteps ==
    ASSUME SCInv, ReadFrameType \/ ReadFrameLength, waits' = waits, ClaimInv'
    PROVE  SCInv'
<1>0. /\ ClaimInv /\ LayoutInv /\ PlaceInv /\ MemInv /\ Passed \in Nat /\ Pos \in Nat /\ Knows(Passed, Pos)
      /\ AtFrame(Passed, Pos) /\ "Sub1" \in Subscribers /\ Layout /\ AppendTypeOK
    BY Where DEF ClaimInv
<1>1. /\ cpc \in ConsumerLabels /\ cloc \in ConsumerTypes /\ processed \in Seq(Payloads) /\ waits \in Modes
    BY DEF SCInv, ConsumerTypeOK
<1>2. LogAlone /\ processed' = processed /\ UNCHANGED <<activeTermCount, rawTail, history>>
      /\ claims' = claims /\ committed' = committed /\ mem' = mem
    BY DEF ReadFrameType, ReadFrameLength, appendVars, shared, LogAlone, history
<1>3. PICK d \in Nat : d = Passed
    BY <1>0
<1>4. PICK b \in Nat : b = Pos
    BY <1>0
<1>5. PICK w : w = mem[ReadAddress(b)]
    OBVIOUS
<1>6. w.tag \in Tags /\ w.len \in Int
    BY <1>0, <1>5, ReadWord
<1>7. cpc \in {"go", "length"} /\ cloc.offset = b /\ cloc.offset \in Nat
    <2>1. cpc \in {"go", "length"}
        BY DEF ReadFrameType, ReadFrameLength, GotoC
    <2> QED BY <1>0, <1>1, <1>4, <2>1 DEF Knows, InPlace, ConsumerTypes
<1>8. SUFFICES /\ cpc' \in {"offset", "length", "go", "process", "incr"} /\ cloc' \in ConsumerTypes
               /\ cpc' # "offset" => cloc'.offset = b
               /\ cpc' = "incr" => cloc'.tag = "Padding"
               /\ SeesType(b)' /\ SeesFrame(d, b)' /\ SeesPadding(d, b)'
    <2>1. ConsumerTypeOK' /\ CountSeen'
        BY <1>1, <1>2, <1>8 DEF ConsumerTypeOK, ConsumerLabels, CountSeen
    <2>2. ~InHand /\ ~InHand'
        BY <1>7, <1>8 DEF InHand
    <2>3. Passed' = d /\ (InHand => Len(processed) > 0)' /\ ProcessedInOrder'
        BY <1>2, <1>3, <2>2, PassesNone
    <2>4. Knows(d, b)'
        BY <1>8 DEF Knows, InPlace, WaitsAt, Sleeps
    <2> QED BY <1>2, <1>3, <1>4, <2>1, <2>3, <2>4, QuietConsumer DEF LogAlone
<1>9. CASE ReadFrameType
    <2>1. \/ cpc' = "offset" /\ cloc' = NoReadLocals
          \/ cpc' = "length" /\ cloc' = [cloc EXCEPT !.tag = w.tag]
        BY <1>5, <1>7, <1>9 DEF ReadFrameType, GotoC
    <2>2. NoReadLocals \in ConsumerTypes
        BY DEF ConsumerTypes, NoReadLocals
    <2>3. LET l == [cloc EXCEPT !.tag = w.tag] IN l \in ConsumerTypes /\ l.offset = b /\ l.tag = w.tag
        BY <1>1, <1>6, <1>7 DEF ConsumerTypes, Tags
    <2>4. SeesType(b)'
        <3>1. cpc' = "length" => cloc'.tag = w.tag
            BY <2>1, <2>3
        <3> QED BY <1>2, <1>5, <3>1 DEF SeesType, ReadAddress
    <2> QED BY <2>1, <2>2, <2>3, <2>4 DEF SeesFrame, SeesPadding, InHand
<1>10. CASE ReadFrameLength
    <2>1. /\ cpc = "length" /\ (cloc.tag # "Empty" => w.tag = cloc.tag)
        <3>1. cpc = "length"
            BY <1>10 DEF ReadFrameLength, GotoC
        <3> QED BY <1>0, <1>4, <1>5, <3>1 DEF Knows, SeesType
    <2>2. \A n \in Nat : LET l == [cloc EXCEPT !.len = n]
                         IN  l \in ConsumerTypes /\ l.offset = b /\ l.tag = cloc.tag /\ l.len = n
        BY <1>1, <1>7 DEF ConsumerTypes
    <2>3. AtFrame(d, b)
        BY <1>0, <1>3, <1>4
    <2>4. /\ w.tag \notin {"Padding", "Empty"} /\ w.len > 0 =>
               NextClaim(d, b) /\ d + 1 \in committed /\ w.len = claims[d + 1].len
          /\ w.tag = "Padding" =>
               NextPadding(d, b) /\ w \in {Header("Padding", -GapLength(d)), Header("Padding", GapLength(d))}
        BY <1>0, <1>4, <1>5, <2>3, FrameFound DEF Pos
    <2>5. CASE /\ cloc.tag = "Padding" /\ cpc' = "incr"
               /\ cloc' = [cloc EXCEPT !.len = IF w.len < 0 THEN -w.len ELSE w.len]
        <3>1. /\ NextPadding(d, b) /\ d \in 1 .. Len(claims) /\ Gap(d) /\ b = EndPosition(d)
              /\ w.len = -GapLength(d) \/ w.len = GapLength(d)
            BY <2>1, <2>4, <2>5 DEF NextPadding, Header
        <3>2. GapLength(d) \in Nat /\ GapLength(d) > 0
            BY <1>0, <3>1, GapBehind
        <3>3. cloc' = [cloc EXCEPT !.len = GapLength(d)]
            BY <2>5, <3>1, <3>2
        <3>4. cloc' \in ConsumerTypes /\ cloc'.offset = b /\ cloc'.tag = "Padding" /\ cloc'.len = GapLength(d)
            BY <2>2, <2>5, <3>2, <3>3
        <3>5. (Gap(d)' <=> Gap(d)) /\ EndPosition(d)' = EndPosition(d) /\ GapLength(d)' = GapLength(d)
            BY <1>2, LogKept
        <3>6. SeesPadding(d, b)'
            BY <3>1, <3>4, <3>5 DEF SeesPadding
        <3> QED BY <2>5, <3>4, <3>6 DEF SeesType, SeesFrame, InHand
    <2>6. CASE /\ cloc.tag \notin {"Padding", "Empty"} /\ w.len > 0 /\ cpc' = "process"
               /\ cloc' = [cloc EXCEPT !.len = w.len]
        <3>1. NextClaim(d, b) /\ b = ClaimPosition(d + 1) /\ d + 1 \in committed /\ w.len = claims[d + 1].len
            BY <2>1, <2>4, <2>6 DEF NextClaim
        <3>2. w.len \in Nat
            BY <1>6, <2>6
        <3>3. cloc' \in ConsumerTypes /\ cloc'.offset = b /\ cloc'.tag = cloc.tag /\ cloc'.len = w.len
            BY <2>2, <2>6, <3>2
        <3>4. SeesFrame(d, b)'
            BY <1>2, <2>6, <3>1, <3>3 DEF SeesFrame, ClaimPosition
        <3> QED BY <2>6, <3>3, <3>4 DEF SeesType, SeesPadding
    <2>7. CASE cpc' = "go" /\ cloc' = cloc
        BY <1>1, <1>7, <2>7 DEF SeesType, SeesFrame, SeesPadding, InHand
    <2> QED BY <1>5, <1>7, <1>10, <2>5, <2>6, <2>7 DEF ReadFrameLength, GotoC
<1> QED BY <1>9, <1>10

\* The consumer processes the bytes of a frame where they lie: they are still the
\* payload of the next claim.
LEMMA ProcessStep ==
    ASSUME SCInv, ProcessBytes, waits' = waits, ClaimInv'
    PROVE  SCInv'
<1>0. /\ ClaimInv /\ LayoutInv /\ PlaceInv /\ MemInv /\ Passed \in Nat /\ Pos \in Nat /\ Knows(Passed, Pos)
      /\ AtFrame(Passed, Pos) /\ "Sub1" \in Subscribers /\ Layout /\ AppendTypeOK
    BY Where DEF ClaimInv
<1>1. /\ cpc \in ConsumerLabels /\ cloc \in ConsumerTypes /\ processed \in Seq(Payloads) /\ waits \in Modes
      /\ ProcessedInOrder
    BY DEF SCInv, ConsumerTypeOK, Reached
<1>2. LogAlone /\ UNCHANGED <<activeTermCount, rawTail, history>>
      /\ claims' = claims /\ committed' = committed /\ mem' = mem /\ cloc' = cloc
    BY DEF ProcessBytes, appendVars, shared, LogAlone, history
<1>3. PICK d \in Nat : d = Passed
    BY <1>0
<1>4. PICK b \in Nat : b = Pos
    BY <1>0
<1>5. cpc = "process" /\ cpc' = "incr" /\ cloc.offset = b /\ Len(processed) = d
    <2>1. cpc = "process" /\ cpc' = "incr"
        BY DEF ProcessBytes, GotoC
    <2> QED BY <1>0, <1>3, <1>4, <2>1 DEF Knows, InPlace, Passed, InHand
<1>6. /\ d + 1 \in committed /\ b = ClaimPosition(d + 1) /\ cloc.len = claims[d + 1].len
      /\ cloc.tag # "Padding"
    BY <1>0, <1>3, <1>4, <1>5 DEF Knows, SeesFrame
<1>7. PICK k \in committed : k = d + 1
    BY <1>6
<1>8. k \in 1 .. Len(claims)
    BY <1>0 DEF Layout
<1>9. minBytesConsumed <= b /\ minBytesConsumed \in Nat
    BY <1>0, <1>4, SlowestIs DEF Pos
<1>10. Committed(k)
    BY <1>0, <1>6, <1>7, <1>9 DEF MemInv, UnreadIntact
<1>11. ReadAddress(b) = Address(claims[k].part, claims[k].off)
    BY <1>0, <1>6, <1>7, <1>8, WhereRead, Places
<1>12. \A j \in 1 .. claims[k].len - 1 : mem[ReadAddress(b) + j] = Payload(k)
    BY <1>10, <1>11 DEF Committed
<1>13. \A j \in 1 .. claims[k].len - 1 : mem[ReadAddress(b) + j].val = k
    BY <1>12 DEF Payload
<1>14. processed' = Append(processed, [j \in 1 .. claims[k].len - 1 |-> k])
    BY <1>5, <1>6, <1>7, <1>13 DEF ProcessBytes
<1>15. Content(k) = [j \in 1 .. claims[k].len - 1 |-> k] /\ Content(k) \in Payloads
    <2>1. claims[k].len \in Nat /\ claims[k].len >= 2 /\ k \in Nat
        BY <1>0, <1>8, ClaimGeometry
    <2> QED BY <2>1 DEF Content, Payloads
<1>16. PICK x \in Payloads : x = Content(k)
    BY <1>15
<1>17. processed' = Append(processed, x)
    BY <1>14, <1>15, <1>16
<1>18. /\ processed' \in Seq(Payloads) /\ Len(processed') = d + 1 /\ processed'[d + 1] = x
       /\ \A l \in 1 .. d : processed'[l] = processed[l]
    BY <1>1, <1>5, <1>17
<1>19. InHand' /\ Passed' = d /\ (InHand => Len(processed) > 0)'
    BY <1>2, <1>5, <1>6, <1>18 DEF InHand, Passed
<1>20. ProcessedInOrder'
    <2>1. ASSUME NEW l \in 1 .. d + 1 PROVE l \in committed /\ processed'[l] = Content(l)
        <3>1. CASE l = d + 1
            BY <1>7, <1>16, <1>18, <3>1
        <3>2. CASE l \in 1 .. d
            BY <1>1, <1>5, <1>18, <3>2 DEF ProcessedInOrder
        <3> QED BY <3>1, <3>2
    <2>2. \A l : Content(l)' = Content(l)
        BY <1>2, LogKept
    <2> QED BY <1>2, <1>18, <2>1, <2>2 DEF ProcessedInOrder
<1>21. ConsumerTypeOK' /\ CountSeen'
    BY <1>1, <1>2, <1>5, <1>18 DEF ConsumerTypeOK, ConsumerLabels, CountSeen
<1>22. Knows(d, b)'
    <2>1. SeesFrame(d, b)'
        BY <1>2, <1>6 DEF SeesFrame, ClaimPosition
    <2>2. InPlace(b)' /\ SeesType(b)' /\ WaitsAt(b)' /\ Sleeps(d)'
        BY <1>2, <1>5 DEF InPlace, SeesType, WaitsAt, Sleeps
    <2>3. SeesPadding(d, b)'
        BY <1>2, <1>6 DEF SeesPadding
    <2> QED BY <2>1, <2>2, <2>3 DEF Knows
<1> QED BY <1>2, <1>3, <1>4, <1>19, <1>20, <1>21, <1>22, QuietConsumer DEF LogAlone

\* The consumer moves to the position behind a frame or padding, when every frame
\* before that position is committed.
LEMMA MoveTo ==
    ASSUME SCInv, IncrBytesConsumed, waits' = waits, ClaimInv', NEW n \in Nat, n = Pos + cloc.len,
           n <= Front, \A k \in 1 .. Len(claims) : k \notin committed => n <= ClaimPosition(k),
           AtFrame(Len(processed), n)
    PROVE  SCInv'
<1>0. /\ ClaimInv /\ LayoutInv /\ PlaceInv /\ MemInv /\ Pos \in Nat /\ Knows(Passed, Pos)
      /\ "Sub1" \in Subscribers /\ Behind /\ bytesConsumed \in [Subscribers -> Nat]
    BY Where DEF PlaceInv, ClaimInv, AppendTypeOK
<1>1. /\ cpc \in ConsumerLabels /\ cloc \in ConsumerTypes /\ processed \in Seq(Payloads) /\ waits \in Modes
      /\ ProcessedInOrder /\ cloc.len \in Nat /\ Len(processed) \in Nat
    BY DEF SCInv, ConsumerTypeOK, Reached, ConsumerTypes
<1>2. /\ UNCHANGED <<activeTermCount, rawTail, cleanPosition, mem, ppc, loc, history>>
      /\ UNCHANGED <<activeTermCount, rawTail, history>>
      /\ claims' = claims /\ committed' = committed /\ processed' = processed
      /\ cpc = "incr" /\ cpc' = "go"
      /\ bytesConsumed' = [bytesConsumed EXCEPT !["Sub1"] = n]
      /\ cloc' = [cloc EXCEPT !.offset = n, !.tag = "Empty", !.len = 0]
    <2>1. cpc = "incr" /\ cpc' = "go"
        BY DEF IncrBytesConsumed, GotoC
    <2>2. cloc.offset = Pos
        BY <1>0, <2>1 DEF Knows, InPlace
    <2> QED BY <2>1, <2>2 DEF IncrBytesConsumed, shared, history, Pos
<1>3. /\ bytesConsumed'["Sub1"] = n /\ \A s \in Subscribers : s # "Sub1" => bytesConsumed'[s] = bytesConsumed[s]
    BY <1>0, <1>2
<1>4. \A s \in Subscribers : bytesConsumed[s] <= bytesConsumed'[s]
    <2>1. bytesConsumed["Sub1"] <= n
        BY <1>0, <1>1 DEF Pos
    <2>2. \A s \in Subscribers : bytesConsumed[s] <= bytesConsumed[s]
        BY <1>0
    <2> QED BY <1>3, <2>1, <2>2
<1>5. Front' = Front /\ (\A k : ClaimPosition(k)' = ClaimPosition(k) /\ Content(k)' = Content(k))
      /\ \A d, b : AtFrame(d, b)' <=> AtFrame(d, b)
    BY <1>2, LogKept
<1>6. Behind'
    <2>1. ASSUME NEW s \in Subscribers
          PROVE  /\ bytesConsumed'[s] <= Front
                 /\ \A k \in 1 .. Len(claims) : k \notin committed => bytesConsumed'[s] <= ClaimPosition(k)
        <3>1. CASE s = "Sub1"
            BY <1>3, <3>1
        <3>2. CASE s # "Sub1"
            BY <1>0, <1>3, <3>2 DEF Behind
        <3> QED BY <3>1, <3>2
    <2> QED BY <1>2, <1>5, <2>1 DEF Behind
<1>7. SharedInv'
    BY <1>0, <1>2, <1>4, <1>6, ForwardKeeps DEF SharedInv
<1>8. cloc' \in ConsumerTypes /\ cloc'.offset = n
    BY <1>1, <1>2 DEF ConsumerTypes
<1>9. ConsumerTypeOK' /\ CountSeen' /\ ~InHand'
    BY <1>1, <1>2, <1>8 DEF ConsumerTypeOK, ConsumerLabels, CountSeen, InHand
<1>10. Passed' = Len(processed) /\ Pos' = n
    BY <1>2, <1>3, <1>9 DEF Passed, Pos
<1>11. PICK d \in Nat : d = Len(processed)
    BY <1>1
<1>12. Reached'
    <2>1. ProcessedInOrder'
        BY <1>1, <1>2, <1>5 DEF ProcessedInOrder
    <2>2. AtFrame(d, n)'
        BY <1>5, <1>11
    <2> QED BY <1>9, <1>10, <1>11, <2>1, <2>2 DEF Reached
<1>13. Knows(d, n)'
    BY <1>2, <1>8, <1>9 DEF Knows, InPlace, SeesType, SeesFrame, SeesPadding, WaitsAt, Sleeps
<1> QED BY <1>7, <1>9, <1>10, <1>11, <1>12, <1>13 DEF SCInv

\* The consumer moves past the frame it has processed, or the padding it has seen.
LEMMA MoveStep ==
    ASSUME SCInv, IncrBytesConsumed, waits' = waits, ClaimInv'
    PROVE  SCInv'
<1>0. /\ ClaimInv /\ Layout /\ Passed \in Nat /\ Pos \in Nat /\ Knows(Passed, Pos) /\ AtFrame(Passed, Pos)
      /\ Len(claims) \in Nat /\ committed \subseteq 1 .. Len(claims)
    BY Where DEF ClaimInv, AppendTypeOK, Layout
<1>1. PICK d \in Nat : d = Passed
    BY <1>0
<1>2. PICK b \in Nat : b = Pos
    BY <1>0
<1>3. AtFrame(d, b) /\ Knows(d, b) /\ cpc = "incr" /\ Len(processed) \in Nat
    BY <1>0, <1>1, <1>2 DEF IncrBytesConsumed, GotoC, SCInv, ConsumerTypeOK
<1>4. \A k \in 1 .. d : k \in committed
    BY <1>3 DEF AtFrame
<1>5. CASE cloc.tag = "Padding"
    <2>1. d > 0 /\ Gap(d) /\ b = EndPosition(d) /\ cloc.len = GapLength(d) /\ Len(processed) = d
        BY <1>1, <1>3, <1>5 DEF Knows, SeesPadding, Passed, InHand
    <2>2. d \in 1 .. Len(claims)
        BY <1>0, <1>3, <2>1 DEF AtFrame
    <2>3. PICK n \in Nat : n = Start(claims[d].id + 1)
        BY <1>0, <2>1, <2>2, GapBehind
    <2>4. /\ n = b + cloc.len /\ n <= Front /\ \A l \in 1 .. Len(claims) : d < l => n <= ClaimPosition(l)
        BY <1>0, <2>1, <2>2, <2>3, GapBehind
    <2>5. ASSUME NEW k \in 1 .. Len(claims), k \notin committed PROVE n <= ClaimPosition(k)
        <3>1. k \notin 1 .. d
            BY <1>4, <2>5
        <3>2. d < k
            BY <2>2, <3>1
        <3> QED BY <2>4, <3>2
    <2>6. AtFrame(d, n)
        BY <1>3, <2>1, <2>3 DEF AtFrame
    <2>7. n = Pos + cloc.len /\ AtFrame(Len(processed), n)
        BY <1>2, <2>1, <2>4, <2>6
    <2> QED BY <2>4, <2>5, <2>7, MoveTo
<1>6. CASE cloc.tag # "Padding"
    <2>1. /\ d + 1 \in committed /\ b = ClaimPosition(d + 1) /\ cloc.len = claims[d + 1].len
          /\ Len(processed) = d + 1
        <3>1. InHand
            BY <1>3, <1>6 DEF InHand
        <3> QED BY <1>1, <1>3, <3>1 DEF Knows, SeesFrame, Passed
    <2>2. PICK k \in committed : k = d + 1
        BY <2>1
    <2>3. k \in 1 .. Len(claims)
        BY <1>0
    <2>4. PICK n \in Nat : n = EndPosition(k)
        BY <1>0, <2>3, ClaimGeometry
    <2>5. n = b + cloc.len /\ n <= Front
        <3>1. EndPosition(k) <= Front
            BY <1>0, <2>3, ClaimGeometry
        <3> QED BY <2>1, <2>2, <2>4, <3>1 DEF EndPosition
    <2>6. ASSUME NEW l \in 1 .. Len(claims), l \notin committed PROVE n <= ClaimPosition(l)
        <3>1. l \notin 1 .. d /\ l # k
            BY <1>4, <2>6
        <3>2. k < l
            BY <2>2, <3>1
        <3> QED BY <1>0, <2>3, <2>4, <3>2, ClaimOrder
    <2>7. \A l \in 1 .. k : l \in committed
        BY <1>4, <2>2
    <2>8. AtFrame(k, n)
        BY <2>3, <2>4, <2>7 DEF AtFrame
    <2>9. n = Pos + cloc.len /\ AtFrame(Len(processed), n)
        BY <1>2, <2>1, <2>2, <2>5, <2>8
    <2> QED BY <2>5, <2>6, <2>9, MoveTo
<1> QED BY <1>5, <1>6

\* Every step of the consumer keeps the invariant.
LEMMA ConsumerKeeps ==
    ASSUME SCInv, Consume
    PROVE  SCInv'
<1>1. ClaimInv'
    <2>1. Inv
        BY Where
    <2> QED BY <2>1, ConsumerStep DEF Inv
<1>2. waits' = waits
    BY DEF Consume
<1> QED BY <1>1, <1>2, StartSteps, WaitSteps, LookSteps, ProcessStep, MoveStep DEF Consume

\* While the consumer sleeps somebody is there to wake it.
LEMMA WakeStep ==
    ASSUME ClaimInv, LayoutInv, ClaimsInsideTerm', NEW p \in Producers, Produce(p),
           NEW d, d = Len(claims) \/ WillWake
    PROVE  d = Len(claims') \/ WillWake'
<1>0. AppendTypeOK
    BY DEF ClaimInv
<1>1. \A q \in Producers \ {p} : ppc'[q] = ppc[q]
    BY <1>0, OneProducer
<1>2. notified => notified'
    BY DEF Produce, ReadMinBytesConsumed, ReadCleanPosition, CleanTerm, CasCleanPosition,
           ReadActiveTermCount, ReadRawTail, ReadClaimTermCount, GetAndAddRawTail, HeaderWrite, PutBS,
           CommitFrameType, CommitFrameLength, NotifyReader, PaddingHeader, PaddingType, PaddingLength,
           RotateReadRawTail, CasRawTail, CasActiveTermCount, shared
<1>3. CASE d = Len(claims)
    <2>1. claims' = claims \/ ppc'[p] = "header"
        BY FrontSteps
    <2> QED BY <1>3, <2>1 DEF WillWake, Writes
<1>4. CASE notified
    BY <1>2, <1>4 DEF WillWake
<1>5. CASE \E q \in Producers : ppc[q] \in Writes \cup {"notify"}
    <2>1. PICK q \in Producers : ppc[q] \in Writes \cup {"notify"}
        BY <1>5
    <2>2. CASE q # p
        BY <1>1, <2>1, <2>2 DEF WillWake
    <2>3. CASE q = p /\ ppc[p] \in Writes
        <3>1. ppc \in [Producers -> ProducerLabels]
            BY <1>0 DEF AppendTypeOK
        <3>2. ppc'[p] \in Writes \cup {"notify"}
            BY <2>3, <3>1, StepsOf DEF HeaderWrite, PutBS, CommitFrameType, CommitFrameLength, Goto, Writes
        <3> QED BY <3>2 DEF WillWake
    <2>4. CASE q = p /\ ppc[p] = "notify"
        <3>1. notified'
            BY <2>4 DEF Produce, ReadMinBytesConsumed, ReadCleanPosition, CleanTerm, CasCleanPosition,
               ReadActiveTermCount, ReadRawTail, ReadClaimTermCount, GetAndAddRawTail, HeaderWrite, PutBS,
               CommitFrameType, CommitFrameLength, NotifyReader, PaddingHeader, PaddingType, PaddingLength,
               RotateReadRawTail, CasRawTail, CasActiveTermCount, Return, Goto
        <3> QED BY <3>1 DEF WillWake
    <2> QED BY <2>1, <2>2, <2>3, <2>4
<1> QED BY <1>3, <1>4, <1>5 DEF WillWake

\* A producer's step keeps what the consumer knows.
LEMMA ProducerKeeps ==
    ASSUME SCInv, BackInv, ClaimsInsideTerm', NEW p \in Producers, Produce(p), UNCHANGED readVars
    PROVE  SCInv'
<1>0. /\ ClaimInv /\ LayoutInv /\ PlaceInv /\ MemInv /\ Layout
      /\ Passed \in Nat /\ Pos \in Nat /\ Knows(Passed, Pos) /\ AtFrame(Passed, Pos)
      /\ "Sub1" \in Subscribers
    BY Where
<1>1. PICK d \in Nat : d = Passed
    BY <1>0
<1>2. PICK b \in Nat : b = Pos
    BY <1>0
<1>3. /\ cpc' = cpc /\ cloc' = cloc /\ processed' = processed /\ waits' = waits
      /\ bytesConsumed' = bytesConsumed
    BY ProduceVars DEF readVars
<1>4. AtFrame(d, b) /\ Knows(d, b)
    BY <1>0, <1>1, <1>2
<1>5. SharedInv'
    <2>1. ClaimInv' /\ LayoutInv' /\ PlaceInv'
        BY <1>0, ClaimInvProduce, LayoutProduce, PlaceInvProduce
    <2>2. MemInv'
        BY <1>0, MemInvProduce
    <2> QED BY <2>1, <2>2 DEF SharedInv
<1>6. Passed' = d /\ Pos' = b
    BY <1>1, <1>2, <1>3 DEF Passed, Pos, InHand
<1>7. ConsumerTypeOK'
    BY <1>3 DEF SCInv, ConsumerTypeOK
<1>8. CountSeen'
    <2>1. /\ activeTermCount \in Nat /\ activeTermCount' \in Nat /\ loc[p].count \in Nat
          /\ cloc.count \in Nat
        BY <1>0, <1>5 DEF SharedInv, ClaimInv, AppendTypeOK, Locals, SCInv, ConsumerTypeOK, ConsumerTypes
    <2>2. activeTermCount' = activeTermCount \/ activeTermCount' = activeTermCount + 1
        BY DEF Produce, ReadMinBytesConsumed, ReadCleanPosition, CleanTerm, CasCleanPosition,
               ReadActiveTermCount, ReadRawTail, ReadClaimTermCount, GetAndAddRawTail, HeaderWrite, PutBS,
               CommitFrameType, CommitFrameLength, NotifyReader, PaddingHeader, PaddingType, PaddingLength,
               RotateReadRawTail, CasRawTail, CasActiveTermCount, shared
    <2> QED BY <1>3, <2>1, <2>2 DEF SCInv, CountSeen
<1>9. Reached'
    <2>1. AtFrame(d, b)'
        BY <1>0, <1>4, AtFrameStep
    <2>2. ProcessedInOrder'
        <3>1. ProcessedInOrder
            BY DEF SCInv, Reached
        <3> QED BY <1>0, <1>3, <3>1, ContentKept DEF ProcessedInOrder
    <2>3. (InHand => Len(processed) > 0)'
        BY <1>3 DEF SCInv, Reached, InHand
    <2> QED BY <1>6, <2>1, <2>2, <2>3 DEF Reached
<1>10. InPlace(b)'
    BY <1>3, <1>4 DEF Knows, InPlace
<1>11. SeesType(b)'
    <2>1. SUFFICES ASSUME cpc = "length", cloc.tag # "Empty" PROVE mem'[ReadAddress(b)].tag = cloc.tag
        BY <1>3 DEF SeesType, ReadAddress, Address, indexByPosition
    <2>2. PICK a : a = ReadAddress(bytesConsumed["Sub1"])
        OBVIOUS
    <2>3. mem[a].tag = cloc.tag /\ a = ReadAddress(b)
        BY <1>2, <1>4, <2>1, <2>2 DEF Knows, SeesType, Pos
    <2>4. AtFrame(d, bytesConsumed["Sub1"])
        BY <1>2, <1>4 DEF Pos
    <2>5. mem'[a].tag = mem[a].tag
        BY <1>0, <2>1, <2>2, <2>3, <2>4, ReadTag
    <2> QED BY <2>3, <2>5
<1>12. SeesFrame(d, b)'
    <2>1. SUFFICES ASSUME cpc = "process" \/ InHand
                   PROVE  /\ d + 1 \in committed' /\ b = ClaimPosition(d + 1)'
                          /\ cloc.len = claims'[d + 1].len /\ cloc.tag # "Padding"
        BY <1>3 DEF SeesFrame, InHand
    <2>2. /\ d + 1 \in committed /\ b = ClaimPosition(d + 1) /\ cloc.len = claims[d + 1].len
          /\ cloc.tag # "Padding"
        BY <1>4, <2>1 DEF Knows, SeesFrame
    <2> QED BY <1>0, <2>2, ContentKept, PositionsKept
<1>13. SeesPadding(d, b)'
    <2>1. SUFFICES ASSUME cpc = "incr", cloc.tag = "Padding"
                   PROVE  d > 0 /\ Gap(d)' /\ b = EndPosition(d)' /\ cloc.len = GapLength(d)'
        BY <1>3 DEF SeesPadding
    <2>2. d > 0 /\ Gap(d) /\ b = EndPosition(d) /\ cloc.len = GapLength(d)
        BY <1>4, <2>1 DEF Knows, SeesPadding
    <2>3. d \in 1 .. Len(claims)
        BY <1>0, <1>4, <2>2 DEF AtFrame, ClaimInv, AppendTypeOK
    <2> QED BY <1>0, <2>2, <2>3, GapKept, ContentKept, PositionsKept
<1>14. WaitsAt(b)'
    <2>1. FrontTerm \in Nat /\ (FrontTerm' = FrontTerm \/ FrontTerm' = FrontTerm + 1) /\ cloc.count \in Nat
        BY <1>0, FrontSteps, FrontIs DEF SCInv, ConsumerTypeOK, ConsumerTypes
    <2>2. WaitsAt(b)
        BY <1>4 DEF Knows
    <2> QED BY <1>3, <2>1, <2>2 DEF WaitsAt, Start
<1>15. Sleeps(d)'
    <2>1. SUFFICES ASSUME cpc = "block", cloc.old < TermLength PROVE d = Len(claims') \/ WillWake'
        BY <1>3 DEF Sleeps
    <2>2. d = Len(claims) \/ WillWake
        BY <1>4, <2>1 DEF Knows, Sleeps
    <2> QED BY <1>0, <2>2, WakeStep
<1>16. Knows(d, b)'
    BY <1>10, <1>11, <1>12, <1>13, <1>14, <1>15 DEF Knows
<1> QED BY <1>5, <1>6, <1>7, <1>8, <1>9, <1>16 DEF SCInv

---------------------------------------------------------------------------
(* The invariant of the journal with its single consumer, and what follows. *)

\* The invariant holds initially.
LEMMA SCInvInit == ASSUME Init PROVE SCInv
<1>1. AppendInit /\ cpc = "offset" /\ cloc = NoReadLocals /\ processed = <<>> /\ waits \in Modes
    BY DEF Init
<1>2. SharedInv
    BY <1>1, ClaimInvInit, LayoutInitial, MemInvInit DEF SharedInv
<1>3. ConsumerTypeOK /\ CountSeen
    BY <1>1 DEF ConsumerTypeOK, ConsumerLabels, ConsumerTypes, NoReadLocals, CountSeen
<1>4. ~InHand /\ Passed = 0 /\ Pos = 0
    BY <1>1, ConsumerAssumption DEF InHand, Passed, Pos, AppendInit
<1>5. Reached
    BY <1>1, <1>4 DEF Reached, AtFrame, ProcessedInOrder, AppendInit
<1>6. Knows(Passed, Pos)
    BY <1>1, <1>4 DEF Knows, InPlace, SeesType, SeesFrame, SeesPadding, WaitsAt, Sleeps
<1> QED BY <1>2, <1>3, <1>5, <1>6 DEF SCInv

\* Nothing changes, nothing is lost.
LEMMA StutterKeeps ==
    ASSUME SCInv, UNCHANGED vars
    PROVE  SCInv'
<1>1. /\ cpc' = cpc /\ cloc' = cloc /\ processed' = processed /\ waits' = waits /\ notified' = notified
      /\ UNCHANGED <<shared, ppc, loc, history>> /\ bytesConsumed' = bytesConsumed /\ LogAlone
      /\ UNCHANGED <<activeTermCount, rawTail, history>>
      /\ ppc' = ppc /\ mem' = mem /\ claims' = claims /\ committed' = committed
    BY DEF vars, appendVars, readVars, shared, LogAlone, history
<1>2. /\ ClaimInv /\ Passed \in Nat /\ Pos \in Nat /\ Knows(Passed, Pos)
    BY Where
<1>3. ClaimInv'
    <2>1. bytesConsumed' \in [Subscribers -> Nat]
        BY <1>1, <1>2 DEF ClaimInv, AppendTypeOK
    <2> QED BY <1>1, <1>2, <2>1, ClaimInvRead
<1>4. PICK d \in Nat : d = Passed
    BY <1>2
<1>5. PICK b \in Nat : b = Pos
    BY <1>2
<1>6. ConsumerTypeOK' /\ CountSeen' /\ Passed' = d /\ (InHand => Len(processed) > 0)' /\ ProcessedInOrder'
    BY <1>1, <1>4 DEF SCInv, ConsumerTypeOK, CountSeen, Passed, InHand, Reached, ProcessedInOrder, Content
<1>7. Knows(d, b)'
    <2>1. Knows(d, b)
        BY <1>2, <1>4, <1>5
    <2>2. /\ FrontTerm' = FrontTerm
          /\ ClaimPosition(d + 1)' = ClaimPosition(d + 1) /\ EndPosition(d)' = EndPosition(d)
          /\ (Gap(d)' <=> Gap(d)) /\ GapLength(d)' = GapLength(d)
        BY <1>1, LogKept
    <2>3. InPlace(b)' /\ SeesType(b)' /\ SeesFrame(d, b)' /\ SeesPadding(d, b)'
        BY <1>1, <2>1, <2>2 DEF Knows, InPlace, SeesType, SeesFrame, SeesPadding, InHand, ReadAddress,
              ClaimPosition
    <2>4. WaitsAt(b)' /\ Sleeps(d)'
        BY <1>1, <2>1, <2>2 DEF Knows, WaitsAt, Sleeps, WillWake, Start
    <2> QED BY <2>3, <2>4 DEF Knows
<1> QED BY <1>1, <1>3, <1>4, <1>5, <1>6, <1>7, QuietConsumer DEF LogAlone

\* The consumer makes no claims.
LEMMA ConsumerClaims ==
    ASSUME Consume
    PROVE  claims' = claims
BY DEF Consume, ReadBytesConsumed, ReaderTermCount, ReaderRawTail, WaitForJournalChange,
       BlockUntilNotification, ReadFrameType, ReadFrameLength, ProcessBytes, IncrBytesConsumed,
       appendVars, history

(* What holds as long as no frame has left its term. *)
InsideInv == ClaimsInsideTerm => SCInv

\* InsideInv is inductive, given the invariants that hold of every state.
LEMMA InsideInvariance == Spec => []InsideInv
<1>1. Init => InsideInv
    BY SCInvInit DEF InsideInv
<1>2. Inv /\ BackInv /\ InsideInv /\ [Next]_vars => InsideInv'
    <2> SUFFICES ASSUME Inv, BackInv, InsideInv, [Next]_vars, ClaimsInsideTerm' PROVE SCInv'
        BY DEF InsideInv
    <2>1. ASSUME NEW p \in Producers, Produce(p), UNCHANGED readVars PROVE SCInv'
        <3>1. ClaimsInsideTerm
            BY <2>1, InsideBefore DEF Inv
        <3>2. SCInv
            BY <3>1 DEF InsideInv
        <3> QED BY <2>1, <3>2, ProducerKeeps
    <2>2. CASE Consume
        <3>1. ClaimsInsideTerm
            BY <2>2, ConsumerClaims DEF ClaimsInsideTerm
        <3>2. SCInv
            BY <3>1 DEF InsideInv
        <3> QED BY <2>2, <3>2, ConsumerKeeps
    <2>3. CASE UNCHANGED vars
        <3>1. ClaimsInsideTerm
            BY <2>3 DEF ClaimsInsideTerm, vars, appendVars, history
        <3>2. SCInv
            BY <3>1 DEF InsideInv
        <3> QED BY <2>3, <3>2, StutterKeeps
    <2> QED BY <2>1, <2>2, <2>3 DEF Next
<1> QED BY <1>1, <1>2, Invariance, BackInvariance, PTL DEF Spec

\* As long as no frame has left its term, for any number of producers: the
\* consumer processes the payloads of the claims in the order of the claims, each
\* once, whole and committed, although it skips padding whose length is still
\* negative and reads the buffer without copying.
THEOREM ConsumerIsSound == Spec => []ConsumerInv
<1>1. SCInv => TypeOK /\ ProcessedInOrder
    BY DEF SCInv, SharedInv, ClaimInv, ConsumerTypeOK, ConsumerLabels, ConsumerTypes, Payloads, Reached,
           TypeOK
<1>2. InsideInv => ConsumerInv
    BY <1>1 DEF InsideInv, ConsumerInv
<1> QED BY <1>2, InsideInvariance, PTL

\* As long as no frame has left its term no wake-up is lost inside a term: a
\* consumer that sleeps on a tail short of the term's end, with nothing in the
\* notifier and no append under way, has processed every entry of the log.
THEOREM WakeupsArrive == Spec => []NoLostWakeup
<1>1. InsideInv => NoLostWakeup
    <2> SUFFICES ASSUME SCInv, cpc = "block", ~notified, InFlight = {}, cloc.old < TermLength
                 PROVE  Len(processed) = Len(claims)
        BY DEF NoLostWakeup, InsideInv
    <2>1. Passed = Len(claims) \/ WillWake
        BY DEF SCInv, Knows, Sleeps
    <2>2. ~WillWake
        BY DEF WillWake, InFlight, Writes
    <2> QED BY <2>1, <2>2 DEF Passed, InHand
<1> QED BY <1>1, InsideInvariance, PTL

\* As long as no frame has left its term the bytes of a committed frame stay in
\* memory until the consumer has moved past them, and every frame is written into
\* zeroed words, although the consumer passes padding that is still being written.
THEOREM MemoryIsSound == Spec => []MemoryInsideTerms
<1>1. InsideInv => MemoryInsideTerms
    BY MemInvProperties DEF InsideInv, SCInv, SharedInv, MemoryInsideTerms
<1> QED BY <1>1, InsideInvariance, PTL
=============================================================================
