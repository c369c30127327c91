------------------------ MODULE JournalAppend_proofs ------------------------
(***************************************************************************)
(* What appending keeps for any number of producers and any term length.   *)
(* The steps of the producers preserve an inductive invariant of the terms *)
(* and claims and, as long as no frame has been claimed past the end of    *)
(* its term, one of the memory, whoever reads the journal; JournalMP_proofs *)
(* and JournalSC_proofs add the readers' steps.                            *)
(***************************************************************************)
EXTENDS JournalAppend, FiniteSetTheorems, TLAPS

(* The part of the state that claiming and rotating depend on. *)
tailVars == <<activeTermCount, rawTail, claims>>

(* A call that has not claimed yet has a frame to append. *)
HasFrame(p) ==
    ppc[p] \in {"readClean", "clean", "casClean", "termCount", "rawTail",
                "claimCount", "fetchAdd"} => loc[p].len > 0

(* Cleaning moves the clean position forward. *)
CleansForward(p) == ppc[p] \in {"clean", "casClean"} => loc[p].clean < loc[p].min

(* The labels behind the limit check, and those of a claim that did not fit. *)
PastEnd   == {"padHeader", "padType", "padLength", "rotate", "casTail", "casCount"}
PastCheck == PastEnd \cup {"claimCount", "fetchAdd"}

(* A call knows a term that is or was the active one. *)
KnowsTerm(p) ==
    /\ ppc[p] \in PastCheck => loc[p].count = loc[p].id
    /\ ppc[p] \in PastCheck \cup {"rawTail"} => loc[p].count <= activeTermCount

(* The partition a call is about to claim in has been active, and is so if *)
(* the active term is still the one the call checked.                      *)
ClaimsActive(p) ==
    ppc[p] = "fetchAdd" =>
        /\ rawTail[loc[p].part].id >= 0
        /\ loc[p].count = activeTermCount => loc[p].part = indexByTermCount(activeTermCount)

Full(i) == rawTail[i].off > capacity(i)

(* Whoever is about to rotate the active term has seen that it is full. *)
RotatesFull(p) ==
    ppc[p] \in PastEnd /\ loc[p].count = activeTermCount
        => Full(indexByTermCount(activeTermCount))

(* What the two compare-and-swaps of rotateLog rely on. *)
RotatesOnce(p) ==
    /\ ppc[p] = "casTail" => loc[p].tail.id = loc[p].id + 1 - PARTITION_COUNT
    /\ ppc[p] = "casCount" /\ loc[p].count = activeTermCount
          => rawTail[indexByTermCount(activeTermCount + 1)].id = activeTermCount + 1

ProducerInv(p) ==
    /\ HasFrame(p)
    /\ CleansForward(p)
    /\ KnowsTerm(p)
    /\ ClaimsActive(p)
    /\ RotatesFull(p)
    /\ RotatesOnce(p)

(* Every term that has been left is full, so nothing is claimed in it again. *)
OldTermsFull ==
    \A i, j \in Partitions :
        0 <= rawTail[i].id /\ rawTail[i].id < rawTail[j].id => Full(i)

(* The claims lie behind the tails, in the term buffers of their partitions. *)
ClaimsBehindTail ==
    \A k \in 1 .. Len(claims) :
        /\ \E j \in Partitions : claims[k].id <= rawTail[j].id
        /\ \A i \in Partitions : claims[k].id = rawTail[i].id =>
              claims[k].off + claims[k].len <= rawTail[i].off
        /\ claims[k].off + claims[k].len <= capacity(claims[k].part)

(* The inductive invariant of the producers. *)
ClaimInv ==
    /\ AppendTypeOK
    /\ \A p \in Producers : ProducerInv(p)
    /\ TermsInStep
    /\ OldTermsFull
    /\ ClaimsBehindTail
    /\ ClaimsOrdered

---------------------------------------------------------------------------
(* Geometry *)

\* The capacity of a term buffer is a number of words.
LEMMA CapacityType ==
    \A i \in Partitions : capacity(i) \in Nat
BY JournalAssumption DEF capacity, Partitions, PARTITION_COUNT

\* Three consecutive term counts have three different partitions, and the fourth
\* has the first again.
LEMMA IndexType ==
    \A c \in Nat :
        /\ indexByTermCount(c) \in Partitions
        /\ indexByTermCount(c + 1) \in Partitions
        /\ indexByTermCount(c + 2) \in Partitions
        /\ indexByTermCount(c + 3) = indexByTermCount(c)
        /\ indexByTermCount(c) # indexByTermCount(c + 1)
        /\ indexByTermCount(c) # indexByTermCount(c + 2)
        /\ indexByTermCount(c + 1) # indexByTermCount(c + 2)
        /\ \A i \in Partitions : i \in {indexByTermCount(c), indexByTermCount(c + 1),
                                        indexByTermCount(c + 2)}
BY DEF indexByTermCount, Partitions, PARTITION_COUNT

(* The position of the slowest subscriber, as a function of all positions. *)
Slowest(f) == Min({f[s] : s \in Subscribers})

\* The slowest of some positions is a position, and it does not fall when the
\* positions grow.
LEMMA SlowestType ==
    ASSUME NEW f \in [Subscribers -> Nat]
    PROVE  /\ Slowest(f) \in Nat
           /\ \A s \in Subscribers : Slowest(f) <= f[s]
           /\ \E s \in Subscribers : Slowest(f) = f[s]
<1> DEFINE S == {f[s] : s \in Subscribers}
<1>1. S \subseteq Nat
    OBVIOUS
<1>2. \E m \in S : \A n \in S : m <= n
    <2>1. CASE Subscribers = {"Sub1"}
        BY <2>1
    <2>2. CASE Subscribers = {"Sub1", "Sub2"}
        <3>1. S = {f["Sub1"], f["Sub2"]}
            BY <2>2
        <3> QED BY <3>1, <2>2
    <2> QED BY <2>1, <2>2, JournalAssumption
<1>3. Min(S) \in S /\ \A n \in S : Min(S) <= n
    BY <1>2 DEF Min
<1> QED BY <1>1, <1>3 DEF Slowest

\* The slowest subscriber's position is a position.
LEMMA MinBytesConsumedType ==
    ASSUME bytesConsumed \in [Subscribers -> Nat]
    PROVE  minBytesConsumed \in Nat
BY SlowestType DEF minBytesConsumed, Slowest

\* The part of a term that one call cleans is not negative.
LEMMA CleanLengthType ==
    ASSUME NEW a \in Nat, NEW b \in Nat, a < b
    PROVE  cleanLength(a, b) \in Nat
<1>1. TermLength \in Nat /\ TermLength > 0
    BY JournalAssumption
<1>2. a % TermLength \in 0 .. TermLength - 1
    BY <1>1
<1> QED BY <1>1, <1>2 DEF cleanLength, minimum

---------------------------------------------------------------------------
(* Types *)

\* AppendInit establishes the types.
LEMMA AppendInitType == AppendInit => AppendTypeOK
BY DEF AppendInit, AppendTypeOK, Locals, NoLocals, RawTails, Zero, Words,
       ProducerLabels, Claims, Partitions, PARTITION_COUNT

\* The tail of the partition of a term count is a raw tail.
LEMMA TailType ==
    ASSUME rawTail \in [Partitions -> RawTails], NEW c \in Nat
    PROVE  /\ rawTail[indexByTermCount(c)] \in RawTails
           /\ rawTail[indexByTermCount(c)].id \in Int
           /\ rawTail[indexByTermCount(c)].off \in Nat
BY IndexType DEF RawTails

\* Every step of a producer leaves it with local variables of the right types.
LEMMA LocalsType ==
    ASSUME AppendTypeOK, NEW p \in Producers, Produce(p)
    PROVE  loc' \in [Producers -> Locals]
<1>1. NoLocals \in Locals /\ 0 \in Partitions
    BY DEF NoLocals, Locals, RawTails, Partitions, PARTITION_COUNT
<1>2. loc \in [Producers -> Locals] /\ loc[p] \in Locals
    BY DEF AppendTypeOK
<1>3. loc[p].count \in Nat /\ loc[p].len \in Nat /\ loc[p].part \in Partitions
    BY <1>2 DEF Locals
<1>4. SUFFICES \E l \in Locals : loc' = [loc EXCEPT ![p] = l]
    BY <1>2
<1>5. CASE loc' = loc
    BY <1>2, <1>5
<1>6. CASE loc' = [loc EXCEPT ![p] = NoLocals]
    BY <1>1, <1>6
<1>7. CASE ReadMinBytesConsumed(p)
    <2>1. PICK n \in FrameLengths :
            loc' = [loc EXCEPT ![p] = [NoLocals EXCEPT !.len = n, !.min = minBytesConsumed]]
        BY <1>7 DEF ReadMinBytesConsumed
    <2>2. n \in Nat /\ minBytesConsumed \in Nat
        BY MinBytesConsumedType, JournalAssumption DEF AppendTypeOK
    <2>3. [NoLocals EXCEPT !.len = n, !.min = minBytesConsumed] \in Locals
        BY <1>1, <2>2 DEF Locals
    <2> QED BY <2>1, <2>3
<1>8. CASE ReadCleanPosition(p)
    <2>1. \A n \in Nat : [loc[p] EXCEPT !.clean = n] \in Locals
        BY <1>2 DEF Locals
    <2> QED BY <1>8, <2>1 DEF ReadCleanPosition, AppendTypeOK
<1>9. CASE CasCleanPosition(p)
    <2>1. [loc[p] EXCEPT !.clean = 0] \in Locals
        BY <1>2 DEF Locals
    <2> QED BY <1>9, <2>1 DEF CasCleanPosition
<1>10. CASE ReadActiveTermCount(p)
    <2>1. [loc[p] EXCEPT !.count = activeTermCount] \in Locals
        BY <1>2 DEF Locals, AppendTypeOK
    <2> QED BY <1>10, <2>1 DEF ReadActiveTermCount
<1>11. CASE ReadRawTail(p)
    <2> DEFINE rt == rawTail[indexByTermCount(loc[p].count)]
               l  == [NoLocals EXCEPT !.len = loc[p].len, !.count = loc[p].count, !.id = rt.id]
    <2>1. rt.id \in Int
        BY <1>3, TailType DEF AppendTypeOK
    <2>2. l \in Locals
        BY <1>1, <1>3, <2>1 DEF Locals
    <2>3. loc' \in {[loc EXCEPT ![p] = l], [loc EXCEPT ![p] = NoLocals]}
        BY <1>11 DEF ReadRawTail, Return
    <2> HIDE DEF l
    <2> QED BY <1>1, <2>2, <2>3
<1>12. CASE ReadClaimTermCount(p)
    <2>1. [loc[p] EXCEPT !.part = indexByTermCount(activeTermCount)] \in Locals
        BY <1>2, IndexType DEF Locals, AppendTypeOK
    <2> QED BY <1>12, <2>1 DEF ReadClaimTermCount
<1>13. CASE GetAndAddRawTail(p)
    <2> DEFINE i      == loc[p].part
               offset == rawTailTermOffset(rawTail[i], capacity(i))
               l      == [NoLocals EXCEPT !.len = loc[p].len, !.part = i,
                                          !.off = offset, !.val = Len(claims')]
               m      == [loc[p] EXCEPT !.len = 0, !.off = offset]
    <2>1. rawTail[i].off \in Nat /\ capacity(i) \in Nat
        BY <1>3, CapacityType DEF AppendTypeOK, RawTails
    <2>2. offset \in Nat
        BY <2>1 DEF rawTailTermOffset, minimum
    <2>3. CASE loc' = [loc EXCEPT ![p] = l] /\ claims' \in Seq(Claims)
        <3>1. Len(claims') \in Nat
            BY <2>3
        <3> HIDE DEF offset
        <3>2. l \in Locals
            BY <1>1, <1>3, <2>2, <3>1 DEF Locals
        <3> QED BY <2>3, <3>2
    <2>4. CASE loc' = [loc EXCEPT ![p] = m]
        <3> HIDE DEF offset
        <3>1. m \in Locals
            BY <1>2, <2>2 DEF Locals
        <3> QED BY <2>4, <3>1
    <2>5. \/ loc' = [loc EXCEPT ![p] = l] /\ claims' \in Seq(Claims)
          \/ loc' = [loc EXCEPT ![p] = m]
        <3>1. [id |-> rawTail[i].id, part |-> i, off |-> offset, len |-> loc[p].len] \in Claims
            BY <1>3, <2>2, CapacityType DEF Claims, AppendTypeOK, RawTails
        <3>2. CASE /\ claims' = Append(claims, [id |-> rawTail[i].id, part |-> i,
                                               off |-> offset, len |-> loc[p].len])
                   /\ loc' = [loc EXCEPT ![p] = l]
            BY <3>1, <3>2 DEF AppendTypeOK
        <3>3. CASE loc' = [loc EXCEPT ![p] = m]
            BY <3>3
        <3> QED BY <1>13, <3>2, <3>3 DEF GetAndAddRawTail
    <2> QED BY <2>3, <2>4, <2>5
<1>14. CASE PaddingLength(p)
    <2>1. [[loc[p] EXCEPT !.part = 0] EXCEPT !.off = 0] \in Locals
        BY <1>1, <1>2 DEF Locals
    <2> QED BY <1>14, <2>1 DEF PaddingLength
<1>15. CASE RotateReadRawTail(p)
    <2> DEFINE rt == rawTail[nextIndex(p)]
    <2>1. rt \in RawTails
        BY <1>3, TailType DEF nextIndex, AppendTypeOK
    <2> HIDE DEF rt
    <2>2. [[[loc[p] EXCEPT !.part = 0] EXCEPT !.off = 0] EXCEPT !.tail = rt] \in Locals
        BY <1>1, <1>2, <2>1 DEF Locals
    <2> QED BY <1>15, <2>2 DEF RotateReadRawTail, rt
<1> QED
    BY <1>5, <1>6, <1>7, <1>8, <1>9, <1>10, <1>11, <1>12, <1>13, <1>14, <1>15
    DEF Produce, CleanTerm, HeaderWrite, PutBS, CommitFrameType, CommitFrameLength,
        NotifyReader, PaddingHeader, PaddingType, CasRawTail, CasActiveTermCount, Return

\* Every step of a producer leaves words in memory.
LEMMA MemType ==
    ASSUME AppendTypeOK, NEW p \in Producers, Produce(p)
    PROVE  mem' \in [Addresses -> Words]
<1>1. loc[p].len \in Int /\ -loc[p].len \in Int /\ loc[p].val \in Nat
    BY DEF AppendTypeOK, Locals
<1>2. paddingLength(p) \in Int /\ -paddingLength(p) \in Int
    BY CapacityType DEF AppendTypeOK, Locals, paddingLength
<1>3. \A n \in Int : Header("Empty", n) \in Words
    BY DEF Header, Words
<1>4. Zero \in Words /\ Payload(loc[p].val) \in Words
    BY <1>1 DEF Zero, Payload, Words
<1>5. mem \in [Addresses -> Words]
    BY DEF AppendTypeOK
<1>6. CASE CleanTerm(p)
    BY <1>4, <1>5, <1>6 DEF CleanTerm, Fill
<1>7. CASE HeaderWrite(p)
    BY <1>1, <1>3, <1>5, <1>7 DEF HeaderWrite
<1>8. CASE PutBS(p)
    BY <1>4, <1>5, <1>8 DEF PutBS, Fill
<1>9. CASE CommitFrameType(p)
    BY <1>5, <1>9 DEF CommitFrameType, Words
<1>10. CASE CommitFrameLength(p)
    BY <1>1, <1>5, <1>10 DEF CommitFrameLength, Words
<1>11. CASE PaddingHeader(p)
    BY <1>2, <1>3, <1>5, <1>11 DEF PaddingHeader
<1>12. CASE PaddingType(p)
    BY <1>5, <1>12 DEF PaddingType, Words
<1>13. CASE PaddingLength(p)
    BY <1>2, <1>5, <1>13 DEF PaddingLength, Words
<1>14. CASE UNCHANGED mem
    BY <1>5, <1>14
<1> QED
    BY <1>6, <1>7, <1>8, <1>9, <1>10, <1>11, <1>12, <1>13, <1>14
    DEF Produce, ReadMinBytesConsumed, ReadCleanPosition, CasCleanPosition,
        ReadActiveTermCount, ReadRawTail, ReadClaimTermCount, GetAndAddRawTail,
        NotifyReader, RotateReadRawTail, CasRawTail, CasActiveTermCount, shared

\* Every step of a producer preserves the types.
LEMMA ProduceType ==
    ASSUME AppendTypeOK, NEW p \in Producers, CleansForward(p), Produce(p)
    PROVE  AppendTypeOK'
<1>1. loc' \in [Producers -> Locals] /\ mem' \in [Addresses -> Words]
    BY LocalsType, MemType
<1>2. /\ loc[p].count \in Nat /\ loc[p].len \in Nat /\ loc[p].id \in Int
      /\ loc[p].part \in Partitions /\ loc[p].val \in Nat
      /\ loc[p].clean \in Nat /\ loc[p].min \in Nat
    BY DEF AppendTypeOK, Locals
<1>3. ppc' \in [Producers -> ProducerLabels]
    <2>1. \E l \in ProducerLabels : ppc' = [ppc EXCEPT ![p] = l]
        BY DEF Produce, ReadMinBytesConsumed, ReadCleanPosition, CleanTerm,
               CasCleanPosition, ReadActiveTermCount, ReadRawTail, ReadClaimTermCount,
               GetAndAddRawTail, HeaderWrite, PutBS, CommitFrameType, CommitFrameLength,
               NotifyReader, PaddingHeader, PaddingType, PaddingLength,
               RotateReadRawTail, CasRawTail, CasActiveTermCount,
               Goto, Return, ProducerLabels
    <2> QED BY <2>1 DEF AppendTypeOK
<1>4. CASE GetAndAddRawTail(p)
    <2> DEFINE i      == loc[p].part
               offset == rawTailTermOffset(rawTail[i], capacity(i))
    <2>1. rawTail[i].off \in Nat /\ capacity(i) \in Nat
        BY <1>2, CapacityType DEF AppendTypeOK, RawTails
    <2>2. offset \in Nat
        BY <2>1 DEF rawTailTermOffset, minimum
    <2>3. rawTail' \in [Partitions -> RawTails]
        BY <1>2, <1>4, SMTT(30) DEF GetAndAddRawTail, AppendTypeOK, RawTails
    <2>4. [id |-> rawTail[i].id, part |-> i, off |-> offset, len |-> loc[p].len] \in Claims
        BY <1>2, <2>2 DEF Claims, AppendTypeOK, RawTails
    <2>5. claims' \in Seq(Claims)
        <3>1. \/ claims' = claims
              \/ claims' = Append(claims, [id |-> rawTail[i].id, part |-> i,
                                           off |-> offset, len |-> loc[p].len])
            BY <1>4 DEF GetAndAddRawTail
        <3> HIDE DEF offset
        <3> QED BY <2>4, <3>1, SMTT(30) DEF AppendTypeOK
    <2> QED BY <1>1, <1>3, <1>4, <2>3, <2>5 DEF GetAndAddRawTail, AppendTypeOK
<1>5. CASE CasRawTail(p)
    <2>1. [id |-> loc[p].id + 1, off |-> 0] \in RawTails
        BY <1>2 DEF RawTails
    <2>2. rawTail' \in [Partitions -> RawTails]
        BY <1>5, <2>1 DEF CasRawTail, AppendTypeOK
    <2> QED BY <1>1, <1>3, <1>5, <2>2 DEF CasRawTail, AppendTypeOK, history
<1>6. CASE CasCleanPosition(p)
    <2>1. cleanLength(loc[p].clean, loc[p].min) \in Nat
        BY <1>2, <1>6, CleanLengthType DEF CasCleanPosition, CleansForward, Goto
    <2>2. cleanPosition' \in Nat
        BY <1>2, <1>6, <2>1 DEF CasCleanPosition, AppendTypeOK
    <2> QED BY <1>1, <1>3, <1>6, <2>2 DEF CasCleanPosition, AppendTypeOK, history
<1>7. CASE CasActiveTermCount(p)
    BY <1>1, <1>2, <1>3, <1>7 DEF CasActiveTermCount, AppendTypeOK, history
<1>8. CASE CommitFrameLength(p)
    BY <1>1, <1>2, <1>3, <1>8 DEF CommitFrameLength, AppendTypeOK
<1>9. CASE NotifyReader(p)
    BY <1>1, <1>3, <1>9 DEF NotifyReader, AppendTypeOK, history
<1>10. CASE UNCHANGED <<activeTermCount, rawTail, cleanPosition, notified, bytesConsumed, history>>
    BY <1>1, <1>3, <1>10 DEF AppendTypeOK, history
<1> QED
    BY <1>4, <1>5, <1>6, <1>7, <1>8, <1>9, <1>10
    DEF Produce, ReadMinBytesConsumed, ReadCleanPosition, CleanTerm,
        ReadActiveTermCount, ReadRawTail, ReadClaimTermCount, HeaderWrite, PutBS,
        CommitFrameType, PaddingHeader, PaddingType, PaddingLength,
        RotateReadRawTail, shared

---------------------------------------------------------------------------
(* The steps that leave the tails, the active term and the claims alone. *)

\* What a producer knows survives the steps of the other producers that leave
\* the tails alone, and all of the invariant does if it holds for the producer
\* that made the step.
LEMMA QuietStep ==
    ASSUME ClaimInv, AppendTypeOK', UNCHANGED tailVars, NEW p \in Producers,
           \A q \in Producers \ {p} : ppc'[q] = ppc[q] /\ loc'[q] = loc[q],
           ProducerInv(p)'
    PROVE  ClaimInv'
<1>1. ASSUME NEW q \in Producers, q # p PROVE ProducerInv(q)'
    <2>1. ProducerInv(q)
        BY DEF ClaimInv
    <2> QED BY <1>1, <2>1 DEF ProducerInv, HasFrame, CleansForward, KnowsTerm, ClaimsActive,
                 RotatesFull, RotatesOnce, Full, tailVars
<1>2. (\A q \in Producers : ProducerInv(q))'
    BY <1>1
<1>3. TermsInStep' /\ OldTermsFull' /\ ClaimsBehindTail' /\ ClaimsOrdered'
    BY DEF ClaimInv, TermsInStep, OldTermsFull, Full, ClaimsBehindTail, ClaimsOrdered, tailVars
<1> QED BY <1>2, <1>3 DEF ClaimInv

\* A step of a producer leaves the others where they are.
LEMMA OneProducer ==
    ASSUME AppendTypeOK, NEW p \in Producers, Produce(p)
    PROVE  \A q \in Producers \ {p} : ppc'[q] = ppc[q] /\ loc'[q] = loc[q]
<1>1. ppc \in [Producers -> ProducerLabels] /\ loc \in [Producers -> Locals]
    BY DEF AppendTypeOK
<1>2. \E x : ppc' = [ppc EXCEPT ![p] = x]
    BY DEF Produce, ReadMinBytesConsumed, ReadCleanPosition, CleanTerm,
           CasCleanPosition, ReadActiveTermCount, ReadRawTail, ReadClaimTermCount,
           GetAndAddRawTail, HeaderWrite, PutBS, CommitFrameType, CommitFrameLength,
           NotifyReader, PaddingHeader, PaddingType, PaddingLength,
           RotateReadRawTail, CasRawTail, CasActiveTermCount, Goto, Return
<1>3. loc' = loc \/ \E x : loc' = [loc EXCEPT ![p] = x]
    BY <1>1
    DEF Produce, ReadMinBytesConsumed, ReadCleanPosition, CleanTerm,
           CasCleanPosition, ReadActiveTermCount, ReadRawTail, ReadClaimTermCount,
           GetAndAddRawTail, HeaderWrite, PutBS, CommitFrameType, CommitFrameLength,
           NotifyReader, PaddingHeader, PaddingType, PaddingLength,
           RotateReadRawTail, CasRawTail, CasActiveTermCount, Return
<1> QED BY <1>1, <1>2, <1>3

\* The steps that only read the tails preserve the invariant.
LEMMA QuietProduce ==
    ASSUME ClaimInv, AppendTypeOK', NEW p \in Producers, Produce(p),
           ~GetAndAddRawTail(p), ~CasRawTail(p), ~CasActiveTermCount(p)
    PROVE  ClaimInv'
<1>0. UNCHANGED tailVars
    BY DEF Produce, ReadMinBytesConsumed, ReadCleanPosition, CleanTerm,
           CasCleanPosition, ReadActiveTermCount, ReadRawTail, ReadClaimTermCount,
           HeaderWrite, PutBS, CommitFrameType, CommitFrameLength,
           NotifyReader, PaddingHeader, PaddingType, PaddingLength,
           RotateReadRawTail, shared, history, tailVars
<1>1. AppendTypeOK /\ ProducerInv(p) /\ TermsInStep
    BY DEF ClaimInv
<1>2. /\ p \in DOMAIN ppc /\ p \in DOMAIN loc /\ loc[p] \in Locals
      /\ loc[p].count \in Nat /\ activeTermCount \in Nat
    BY <1>1 DEF AppendTypeOK, Locals
<1>3. SUFFICES ProducerInv(p)'
    BY <1>0, <1>1, OneProducer, QuietStep
<1> USE <1>0
<1>4. FrameLengths \subseteq Nat \ {0}
    BY JournalAssumption
<1> USE DEF ProducerInv, HasFrame, CleansForward, KnowsTerm, ClaimsActive, RotatesFull,
            RotatesOnce, PastEnd, PastCheck, Full, tailVars, Goto
<1>5. CASE ReadMinBytesConsumed(p)
    <2>1. PICK n \in FrameLengths :
            /\ ppc'[p] = "readClean"
            /\ loc'[p] = [NoLocals EXCEPT !.len = n, !.min = minBytesConsumed]
        BY <1>2, <1>5 DEF ReadMinBytesConsumed
    <2>2. loc'[p].len = n
        BY <2>1 DEF NoLocals
    <2> QED BY <1>4, <2>1, <2>2
<1>6. CASE ReadCleanPosition(p)
    BY <1>1, <1>2, <1>6 DEF ReadCleanPosition, Locals
<1>7. CASE CleanTerm(p)
    BY <1>1, <1>2, <1>7 DEF CleanTerm, Locals
<1>8. CASE CasCleanPosition(p)
    BY <1>1, <1>2, <1>8 DEF CasCleanPosition, Locals
<1>9. CASE ReadActiveTermCount(p)
    BY <1>1, <1>2, <1>9 DEF ReadActiveTermCount, Locals
<1>10. CASE ReadRawTail(p)
    <2> DEFINE rt == rawTail[indexByTermCount(loc[p].count)]
               l  == [NoLocals EXCEPT !.len = loc[p].len, !.count = loc[p].count, !.id = rt.id]
    <2>1. CASE Return(p, "rawTail")
        BY <1>2, <2>1 DEF Return
    <2>2. CASE loc[p].count = rt.id /\ ppc[p] = "rawTail" /\ ppc'[p] = "claimCount" /\ loc'[p] = l
        <3>1. l.len = loc[p].len /\ l.count = loc[p].count /\ l.id = rt.id
            BY DEF NoLocals
        <3> QED BY <1>1, <2>2, <3>1
    <2> QED BY <1>2, <1>10, <2>1, <2>2 DEF ReadRawTail
<1>11. CASE ReadClaimTermCount(p)
    <2>1. /\ ppc[p] = "claimCount" /\ ppc'[p] = "fetchAdd"
          /\ loc'[p] = [loc[p] EXCEPT !.part = indexByTermCount(activeTermCount)]
        BY <1>2, <1>11 DEF ReadClaimTermCount
    <2>2. rawTail[indexByTermCount(activeTermCount)].id = activeTermCount
        BY <1>1 DEF TermsInStep
    <2> QED BY <1>1, <1>2, <2>1, <2>2 DEF Locals
<1>12. CASE HeaderWrite(p)
    BY <1>1, <1>2, <1>12 DEF HeaderWrite, Locals
<1>13. CASE PutBS(p)
    BY <1>1, <1>2, <1>13 DEF PutBS, Locals
<1>14. CASE CommitFrameType(p)
    BY <1>1, <1>2, <1>14 DEF CommitFrameType, Locals
<1>15. CASE CommitFrameLength(p)
    BY <1>1, <1>2, <1>15 DEF CommitFrameLength, Locals
<1>16. CASE NotifyReader(p)
    BY <1>1, <1>2, <1>16 DEF NotifyReader, Return, Locals
<1>17. CASE PaddingHeader(p)
    BY <1>1, <1>2, <1>17 DEF PaddingHeader, Locals
<1>18. CASE PaddingType(p)
    BY <1>1, <1>2, <1>18 DEF PaddingType, Locals
<1>19. CASE PaddingLength(p)
    BY <1>1, <1>2, <1>19 DEF PaddingLength, Locals
<1>20. CASE RotateReadRawTail(p)
    <2> DEFINE rt == rawTail[nextIndex(p)]
    <2>1. /\ ppc[p] = "rotate"
          /\ ppc'[p] = IF rt.id = loc[p].id + 1 - PARTITION_COUNT THEN "casTail" ELSE "casCount"
          /\ loc'[p] = [[[loc[p] EXCEPT !.part = 0] EXCEPT !.off = 0] EXCEPT !.tail = rt]
        BY <1>2, <1>20 DEF RotateReadRawTail
    <2>2. /\ loc'[p].count = loc[p].count /\ loc'[p].id = loc[p].id /\ loc'[p].tail = rt
        BY <1>2, <2>1 DEF Locals
    <2>3. loc[p].count = activeTermCount => rt.id \in {activeTermCount - 2, activeTermCount + 1}
        BY <1>1 DEF TermsInStep, nextIndex
    <2> QED BY <1>1, <1>2, <2>1, <2>2, <2>3 DEF nextIndex, PARTITION_COUNT
<1> QED
    BY <1>5, <1>6, <1>7, <1>8, <1>9, <1>10, <1>11, <1>12, <1>13, <1>14, <1>15, <1>16, <1>17, <1>18, <1>19, <1>20 DEF Produce

---------------------------------------------------------------------------
(* The three steps that move a tail or the active term. *)

\* The three partitions hold different terms.
LEMMA DistinctTerms ==
    ASSUME AppendTypeOK, TermsInStep, NEW i \in Partitions, NEW j \in Partitions,
           rawTail[i].id = rawTail[j].id
    PROVE  i = j
<1> DEFINE c == activeTermCount
           x == indexByTermCount(c)
           y == indexByTermCount(c + 1)
           z == indexByTermCount(c + 2)
<1>1. c \in Nat /\ i \in {x, y, z} /\ j \in {x, y, z}
    BY IndexType DEF AppendTypeOK
<1>2. rawTail[x].id = c /\ rawTail[z].id = c - 1 /\ rawTail[y].id \in {c - 2, c + 1}
    BY DEF TermsInStep
<1> HIDE DEF c, x, y, z
<1> QED BY <1>1, <1>2

\* A claim goes to the newest term, or nowhere: the fetch-and-add preserves
\* the invariant.
LEMMA ClaimStep ==
    ASSUME ClaimInv, AppendTypeOK', NEW p \in Producers, GetAndAddRawTail(p), Produce(p)
    PROVE  ClaimInv'
<1> DEFINE i      == loc[p].part
           n      == loc[p].len
           rt     == rawTail[i]
           offset == rawTailTermOffset(rt, capacity(i))
           fits   == offset + n <= capacity(i)
           claim  == [id |-> rt.id, part |-> i, off |-> offset, len |-> n]
<1>1. /\ AppendTypeOK /\ ProducerInv(p) /\ TermsInStep /\ OldTermsFull
      /\ ClaimsBehindTail /\ ClaimsOrdered
    BY DEF ClaimInv
<1>2. /\ i \in Partitions /\ rt.id \in Int /\ rt.off \in Nat /\ n \in Nat
      /\ \A j \in Partitions : capacity(j) \in Nat /\ rawTail[j].id \in Int /\ rawTail[j].off \in Nat
      /\ activeTermCount \in Nat /\ p \in DOMAIN ppc /\ p \in DOMAIN loc /\ loc[p] \in Locals
      /\ \A k \in 1 .. Len(claims) :
            claims[k] \in Claims /\ claims[k].off \in Nat /\ claims[k].len \in Nat
    <2>1. AppendTypeOK
        BY <1>1
    <2>2. \A j \in Partitions : capacity(j) \in Nat /\ rawTail[j].id \in Int /\ rawTail[j].off \in Nat
        BY <2>1, CapacityType DEF AppendTypeOK, RawTails
    <2>3. /\ activeTermCount \in Nat /\ p \in DOMAIN ppc /\ p \in DOMAIN loc /\ loc[p] \in Locals
        BY <2>1 DEF AppendTypeOK
    <2>4. i \in Partitions /\ n \in Nat
        BY <2>3 DEF Locals
    <2>5. \A k \in 1 .. Len(claims) : claims[k] \in Claims
        BY <2>1 DEF AppendTypeOK
    <2>6. \A k \in 1 .. Len(claims) : claims[k].off \in Nat /\ claims[k].len \in Nat
        BY <2>5 DEF Claims
    <2> QED BY <2>2, <2>3, <2>4, <2>5, <2>6
<1>3. n > 0 /\ rt.id >= 0 /\ ppc[p] = "fetchAdd"
    BY <1>1 DEF GetAndAddRawTail, Goto, ProducerInv, HasFrame, ClaimsActive
<1>4. /\ activeTermCount' = activeTermCount
      /\ \A j \in Partitions : rawTail'[j].id = rawTail[j].id
      /\ rawTail'[i].off = rt.off + n
      /\ \A j \in Partitions \ {i} : rawTail'[j] = rawTail[j]
    BY <1>1, <1>2 DEF GetAndAddRawTail, AppendTypeOK, RawTails
<1>5. \A j \in Partitions : rawTail'[j].off >= rawTail[j].off
    BY <1>2, <1>4
<1>6. /\ fits => /\ rt.off = offset
                 /\ ~Full(i)
      /\ ~fits => rawTail'[i].off > capacity(i)
    BY <1>2, <1>3, <1>4 DEF rawTailTermOffset, minimum, Full
<1>7. TermsInStep'
    BY <1>1, <1>2, <1>4, IndexType DEF TermsInStep
<1>8. OldTermsFull'
    BY <1>1, <1>2, <1>4, <1>5, SMTT(30) DEF OldTermsFull, Full
<1>9. ClaimsBehindTail' /\ ClaimsOrdered'
    <2>0. ASSUME NEW k \in 1 .. Len(claims)
          PROVE  /\ \E j \in Partitions : claims[k].id <= rawTail'[j].id
                 /\ \A j \in Partitions : claims[k].id = rawTail'[j].id =>
                       claims[k].off + claims[k].len <= rawTail'[j].off
                 /\ claims[k].off + claims[k].len <= capacity(claims[k].part)
        <3>1. /\ \E j \in Partitions : claims[k].id <= rawTail[j].id
              /\ \A j \in Partitions : claims[k].id = rawTail[j].id =>
                    claims[k].off + claims[k].len <= rawTail[j].off
              /\ claims[k].off + claims[k].len <= capacity(claims[k].part)
            BY <1>1 DEF ClaimsBehindTail
        <3>2. \A j \in Partitions : rawTail'[j].off \in Nat
            BY DEF AppendTypeOK, RawTails
        <3>3. \E j \in Partitions : claims[k].id <= rawTail'[j].id
            BY <1>4, <3>1
        <3>4. ASSUME NEW j \in Partitions, claims[k].id = rawTail'[j].id
              PROVE  claims[k].off + claims[k].len <= rawTail'[j].off
            <4>1. claims[k].off + claims[k].len <= rawTail[j].off
                BY <1>4, <3>1, <3>4
            <4>2. claims[k].off \in Nat /\ claims[k].len \in Nat /\ rawTail[j].off \in Nat
                BY <1>2
            <4> QED BY <1>5, <3>2, <4>1, <4>2
        <3> QED BY <3>1, <3>3, <3>4
    <2>1. CASE claims' = claims
        <3>1. ClaimsOrdered'
            BY <1>1, <2>1 DEF ClaimsOrdered
        <3>2. ClaimsBehindTail'
            BY <2>0, <2>1 DEF ClaimsBehindTail
        <3> QED BY <3>1, <3>2
    <2>2. CASE fits /\ claims' = Append(claims, claim)
        <3> HIDE DEF offset
        <3>1. /\ Len(claims') = Len(claims) + 1 /\ Len(claims) \in Nat
              /\ \A k \in 1 .. Len(claims) : claims'[k] = claims[k]
              /\ claims'[Len(claims) + 1] = claim
            BY <1>1, <2>2 DEF AppendTypeOK
        <3>2. \A j \in Partitions : rawTail[j].id <= rt.id
            BY <1>1, <1>2, <1>3, <1>6, <2>2 DEF OldTermsFull
        <3>3. offset \in Nat
            BY <1>2, <1>6, <2>2
        <3>4. ASSUME NEW k \in 1 .. Len(claims)
              PROVE  \/ claims[k].id < rt.id
                     \/ claims[k].id = rt.id /\ claims[k].off + claims[k].len <= offset
            <4>1. PICK j \in Partitions : claims[k].id <= rawTail[j].id
                BY <1>1 DEF ClaimsBehindTail
            <4>2. claims[k].id \in Int
                BY <1>2 DEF Claims
            <4>3. claims[k].id = rt.id => claims[k].off + claims[k].len <= offset
                BY <1>1, <1>2, <1>6, <2>2 DEF ClaimsBehindTail
            <4> QED BY <1>2, <3>2, <4>1, <4>2, <4>3
        <3>5. ClaimsOrdered'
            <4> SUFFICES ASSUME NEW k \in 1 .. Len(claims'), NEW l \in 1 .. Len(claims'), k < l
                         PROVE  \/ claims'[k].id < claims'[l].id
                                \/ /\ claims'[k].id = claims'[l].id
                                   /\ claims'[k].off + claims'[k].len <= claims'[l].off
                BY DEF ClaimsOrdered
            <4>1. CASE l <= Len(claims)
                BY <1>1, <3>1, <4>1 DEF ClaimsOrdered
            <4>2. CASE l = Len(claims) + 1
                BY <3>1, <3>4, <4>2
            <4> QED BY <3>1, <4>1, <4>2
        <3>6. ClaimsBehindTail'
            <4> SUFFICES ASSUME NEW k \in 1 .. Len(claims')
                         PROVE  /\ \E j \in Partitions : claims'[k].id <= rawTail'[j].id
                                /\ \A j \in Partitions : claims'[k].id = rawTail'[j].id =>
                                      claims'[k].off + claims'[k].len <= rawTail'[j].off
                                /\ claims'[k].off + claims'[k].len <= capacity(claims'[k].part)
                BY DEF ClaimsBehindTail
            <4>1. CASE k <= Len(claims)
                BY <2>0, <3>1, <4>1
            <4>2. CASE k = Len(claims) + 1
                <5>1. claims'[k] = claim
                    BY <3>1, <4>2
                <5>2. \A j \in Partitions : rawTail[j].id = rt.id => j = i
                    BY <1>1, <1>2, DistinctTerms
                <5>3. claim.id = rt.id /\ claim.part = i /\ claim.off = offset /\ claim.len = n
                    OBVIOUS
                <5> HIDE DEF claim
                <5>4. claim.id <= rawTail'[i].id /\ claim.off + claim.len <= capacity(claim.part)
                    BY <1>2, <1>4, <2>2, <5>3
                <5>5. ASSUME NEW j \in Partitions, claim.id = rawTail'[j].id
                      PROVE  claim.off + claim.len <= rawTail'[j].off
                    BY <1>2, <1>4, <1>6, <2>2, <5>2, <5>3, <5>5
                <5> QED BY <1>2, <5>1, <5>4, <5>5
            <4> QED BY <3>1, <4>1, <4>2
        <3> QED BY <3>5, <3>6
    <2> QED BY <2>1, <2>2 DEF GetAndAddRawTail
<1>10. ASSUME NEW q \in Producers, q # p PROVE ProducerInv(q)'
    <2>1. ProducerInv(q) /\ ppc'[q] = ppc[q] /\ loc'[q] = loc[q] /\ loc[q] \in Locals
        BY <1>1, <1>10, OneProducer DEF ClaimInv, AppendTypeOK
    <2>2. \A j \in Partitions : Full(j) => Full(j)'
        BY <1>2, <1>4, <1>5 DEF Full
    <2>3. loc[q].part \in Partitions
        BY <2>1 DEF Locals
    <2> QED BY <1>2, <1>4, <2>1, <2>2, <2>3, IndexType
            DEF ProducerInv, HasFrame, CleansForward, KnowsTerm, ClaimsActive,
                RotatesFull, RotatesOnce
<1>11. ProducerInv(p)'
    <2>1. CASE fits
        <3>1. ppc'[p] = "header"
            BY <1>2, <2>1 DEF GetAndAddRawTail, Goto
        <3> QED BY <3>1 DEF ProducerInv, HasFrame, CleansForward, KnowsTerm, ClaimsActive,
                            RotatesFull, RotatesOnce, PastEnd, PastCheck
    <2>2. CASE ~fits
        <3>1. /\ ppc'[p] \in {"padHeader", "rotate"}
              /\ loc'[p].count = loc[p].count /\ loc'[p].id = loc[p].id
            BY <1>2, <2>2 DEF GetAndAddRawTail, Goto, Locals
        <3>2. loc[p].count = activeTermCount => Full(indexByTermCount(activeTermCount))'
            BY <1>1, <1>3, <1>4, <1>6, <2>2 DEF ProducerInv, ClaimsActive, Full
        <3> QED BY <1>1, <1>3, <1>4, <3>1, <3>2
                DEF ProducerInv, HasFrame, CleansForward, KnowsTerm, ClaimsActive,
                    RotatesFull, RotatesOnce, PastEnd, PastCheck
    <2> QED BY <2>1, <2>2
<1> QED BY <1>7, <1>8, <1>9, <1>10, <1>11 DEF ClaimInv

\* Only the active term can be rotated, and only when it is full: the
\* compare-and-swap of the next tail preserves the invariant.
LEMMA CasTailStep ==
    ASSUME ClaimInv, AppendTypeOK', NEW p \in Producers, CasRawTail(p), Produce(p)
    PROVE  ClaimInv'
<1> DEFINE c == activeTermCount
           i == nextIndex(p)
<1>1. /\ AppendTypeOK /\ ProducerInv(p) /\ TermsInStep /\ OldTermsFull
      /\ ClaimsBehindTail /\ ClaimsOrdered
    BY DEF ClaimInv
<1>2. /\ c \in Nat /\ p \in DOMAIN ppc /\ loc[p].count \in Nat /\ loc[p].id \in Int
      /\ i \in Partitions
      /\ \A j \in Partitions : rawTail[j].id \in Int
    BY <1>1, IndexType DEF AppendTypeOK, Locals, RawTails, nextIndex
<1>3. /\ ppc[p] = "casTail" /\ loc' = loc /\ activeTermCount' = c /\ claims' = claims
      /\ loc[p].count = loc[p].id /\ loc[p].count <= c
      /\ loc[p].tail.id = loc[p].id - 2
    BY <1>1, <1>2 DEF CasRawTail, Goto, ProducerInv, KnowsTerm, RotatesOnce, PastCheck, PastEnd,
                PARTITION_COUNT, history
<1>4. CASE rawTail' = rawTail
    <2>1. ppc'[p] \in {"rotate", "casCount"}
        BY <1>2 DEF CasRawTail, Goto
    <2>2. ppc'[p] = "casCount" => rawTail[i].id = loc[p].id + 1
        <3>1. ppc'[p] = "casCount" => rawTail' = [rawTail EXCEPT ![i] = [id |-> loc[p].id + 1, off |-> 0]]
            BY <1>2 DEF CasRawTail, Goto
        <3> QED BY <1>1, <1>2, <1>4, <3>1 DEF AppendTypeOK
    <2>3. ProducerInv(p)'
        BY <1>1, <1>2, <1>3, <1>4, <2>1, <2>2
        DEF ProducerInv, HasFrame, CleansForward, KnowsTerm, ClaimsActive, RotatesFull,
            RotatesOnce, PastEnd, PastCheck, Full, nextIndex
    <2> QED BY <1>1, <1>3, <1>4, <2>3, OneProducer, QuietStep DEF tailVars
<1>5. CASE rawTail' # rawTail
    <2>1. /\ rawTail[i] = loc[p].tail /\ ppc'[p] = "casCount"
          /\ rawTail' = [rawTail EXCEPT ![i] = [id |-> loc[p].id + 1, off |-> 0]]
        BY <1>2, <1>5 DEF CasRawTail, Goto
    <2>2. loc[p].count = c
        \* otherwise the partition would hold a term that is gone
        <3> DEFINE d == loc[p].count
        <3>1. rawTail[i].id = d - 2
            BY <1>3, <2>1
        <3>2. rawTail[i].id \in {c, c - 1, c - 2, c + 1}
            BY <1>1, <1>2, IndexType DEF TermsInStep
        <3> QED BY <1>2, <1>3, <3>1, <3>2
    <2>3. /\ i = indexByTermCount(c + 1)
          /\ rawTail[i].id = c - 2
          /\ rawTail'[i] = [id |-> c + 1, off |-> 0]
          /\ rawTail'[i].id = c + 1
          /\ \A j \in Partitions \ {i} : rawTail'[j] = rawTail[j]
        BY <1>1, <1>2, <1>3, <2>1, <2>2 DEF nextIndex, AppendTypeOK
    <2>4. /\ indexByTermCount(c) \in Partitions \ {i}
          /\ indexByTermCount(c + 2) \in Partitions \ {i}
          /\ rawTail[indexByTermCount(c)].id = c
          /\ rawTail[indexByTermCount(c + 2)].id = c - 1
          /\ \A j \in Partitions \ {i} : j \in {indexByTermCount(c), indexByTermCount(c + 2)}
        BY <1>1, <1>2, <2>3, IndexType DEF TermsInStep
    <2>5. TermsInStep'
        BY <1>3, <2>3, <2>4 DEF TermsInStep
    <2>6. Full(indexByTermCount(c)) /\ Full(indexByTermCount(c))'
        BY <1>1, <1>3, <2>2, <2>3, <2>4 DEF ProducerInv, RotatesFull, Full, PastEnd
    <2>7. \A j \in Partitions \ {i} : rawTail[j].id >= 0 => Full(j)'
        <3>1. c - 1 >= 0 => Full(indexByTermCount(c + 2))
            BY <1>1, <1>2, <2>4 DEF OldTermsFull
        <3> QED BY <2>3, <2>4, <2>6, <3>1 DEF Full
    <2>8. OldTermsFull'
        <3> SUFFICES ASSUME NEW j \in Partitions, NEW k \in Partitions,
                            0 <= rawTail'[j].id, rawTail'[j].id < rawTail'[k].id
                     PROVE  Full(j)'
            BY DEF OldTermsFull
        <3>1. \A m \in Partitions : rawTail'[m].id <= c + 1
            BY <1>2, <2>3, <2>4
        <3>2. j # i
            BY <1>2, <2>3, <3>1
        <3> QED BY <2>3, <2>7, <3>2
    <2>9. ClaimsOrdered'
        BY <1>1, <1>3 DEF ClaimsOrdered
    <2>10. ClaimsBehindTail'
        <3> SUFFICES ASSUME NEW k \in 1 .. Len(claims)
                     PROVE  /\ \E j \in Partitions : claims[k].id <= rawTail'[j].id
                            /\ \A j \in Partitions : claims[k].id = rawTail'[j].id =>
                                  claims[k].off + claims[k].len <= rawTail'[j].off
                            /\ claims[k].off + claims[k].len <= capacity(claims[k].part)
            BY <1>3 DEF ClaimsBehindTail
        <3>1. PICK j \in Partitions : claims[k].id <= rawTail[j].id
            BY <1>1 DEF ClaimsBehindTail
        <3>2. claims[k].id \in Int
            <4>1. claims[k] \in Claims
                BY <1>1 DEF AppendTypeOK
            <4> QED BY <4>1 DEF Claims
        <3>3. claims[k].id <= c
            BY <1>2, <2>3, <2>4, <3>1, <3>2, SMTT(30)
        <3>4. claims[k].id <= rawTail'[i].id /\ claims[k].id # rawTail'[i].id
            BY <1>2, <2>3, <3>2, <3>3
        <3>5. \A m \in Partitions \ {i} : claims[k].id = rawTail'[m].id =>
                 claims[k].off + claims[k].len <= rawTail'[m].off
            BY <1>1, <2>3 DEF ClaimsBehindTail
        <3> QED BY <1>1, <1>2, <3>4, <3>5 DEF ClaimsBehindTail
    <2>11. ASSUME NEW q \in Producers PROVE ProducerInv(q)'
        <3>1. ProducerInv(q) /\ loc'[q] = loc[q] /\ loc[q].part \in Partitions
            BY <1>1, <1>3 DEF ClaimInv, AppendTypeOK, Locals
        <3>2. ClaimsActive(q) => rawTail'[loc[q].part].id >= 0 \/ ppc[q] # "fetchAdd"
            BY <1>2, <2>3, <3>1 DEF ClaimsActive
        <3>3. CASE q # p
            <4>1. ppc'[q] = ppc[q]
                BY <1>1, <3>3, OneProducer
            <4> QED BY <1>3, <2>3, <2>6, <3>1, <3>2, <4>1
                    DEF ProducerInv, HasFrame, CleansForward, KnowsTerm, ClaimsActive,
                        RotatesFull, RotatesOnce
        <3>4. CASE q = p
            BY <1>3, <2>1, <2>3, <2>6, <3>1, <3>4
            DEF ProducerInv, HasFrame, CleansForward, KnowsTerm, ClaimsActive,
                RotatesFull, RotatesOnce, PastEnd, PastCheck
        <3> QED BY <3>3, <3>4
    <2> QED BY <2>5, <2>8, <2>9, <2>10, <2>11 DEF ClaimInv
<1> QED BY <1>4, <1>5

\* The active term moves on by one, to a partition that has its tail already:
\* the compare-and-swap of the active term count preserves the invariant.
LEMMA CasCountStep ==
    ASSUME ClaimInv, AppendTypeOK', NEW p \in Producers, CasActiveTermCount(p), Produce(p)
    PROVE  ClaimInv'
<1> DEFINE c == activeTermCount
<1>1. /\ AppendTypeOK /\ ProducerInv(p) /\ TermsInStep
    BY DEF ClaimInv
<1>2. /\ c \in Nat /\ p \in DOMAIN ppc /\ p \in DOMAIN loc
    BY <1>1 DEF AppendTypeOK
<1>3. ppc[p] = "casCount" /\ ppc'[p] = "idle" /\ rawTail' = rawTail /\ claims' = claims
    BY <1>2 DEF CasActiveTermCount, Return, Goto, history
<1>4. ProducerInv(p)'
    BY <1>3 DEF ProducerInv, HasFrame, CleansForward, KnowsTerm, ClaimsActive, RotatesFull,
                RotatesOnce, PastEnd, PastCheck
<1>5. CASE activeTermCount' = c
    BY <1>1, <1>3, <1>4, <1>5, OneProducer, QuietStep DEF tailVars
<1>6. CASE activeTermCount' # c
    <2>1. loc[p].count = c /\ activeTermCount' = c + 1
        BY <1>6 DEF CasActiveTermCount
    <2>2. TermsInStep'
        <3>1. rawTail[indexByTermCount(c + 1)].id = c + 1
            BY <1>1, <1>3, <2>1 DEF ProducerInv, RotatesOnce
        <3>2. indexByTermCount(c + 3) = indexByTermCount(c) /\ c + 1 + 2 = c + 3 /\ c + 1 + 1 = c + 2
            BY <1>2, IndexType
        <3>3. rawTail[indexByTermCount(c)].id = c /\ rawTail[indexByTermCount(c + 2)].id = c - 1
            BY <1>1 DEF TermsInStep
        <3> QED BY <1>2, <1>3, <2>1, <3>1, <3>2, <3>3 DEF TermsInStep
    <2>3. OldTermsFull' /\ ClaimsBehindTail' /\ ClaimsOrdered'
        BY <1>3 DEF ClaimInv, OldTermsFull, Full, ClaimsBehindTail, ClaimsOrdered
    <2>4. ASSUME NEW q \in Producers, q # p PROVE ProducerInv(q)'
        <3>1. ProducerInv(q) /\ ppc'[q] = ppc[q] /\ loc'[q] = loc[q] /\ loc[q].count \in Nat
            BY <1>1, <2>4, OneProducer DEF ClaimInv, AppendTypeOK, Locals
        <3>2. ppc[q] \in PastCheck \cup {"rawTail"} => loc[q].count < c + 1
            BY <1>2, <3>1 DEF ProducerInv, KnowsTerm
        <3> QED BY <1>2, <1>3, <2>1, <3>1, <3>2
                DEF ProducerInv, HasFrame, CleansForward, KnowsTerm, ClaimsActive,
                    RotatesFull, RotatesOnce, PastCheck, PastEnd
    <2> QED BY <1>4, <2>2, <2>3, <2>4 DEF ClaimInv
<1> QED BY <1>5, <1>6

---------------------------------------------------------------------------
\* The invariant holds initially.
LEMMA ClaimInvInit == AppendInit => ClaimInv
<1> SUFFICES ASSUME AppendInit PROVE ClaimInv
    OBVIOUS
<1>1. AppendTypeOK
    BY AppendInitType
<1>2. \A p \in Producers : ProducerInv(p)
    BY DEF AppendInit, ProducerInv, HasFrame, CleansForward, KnowsTerm, ClaimsActive,
           RotatesFull, RotatesOnce, PastEnd, PastCheck
<1>3. TermsInStep
    BY DEF AppendInit, TermsInStep, indexByTermCount, Partitions, PARTITION_COUNT
<1>4. OldTermsFull
    BY DEF AppendInit, OldTermsFull, Partitions, PARTITION_COUNT
<1>5. ClaimsBehindTail /\ ClaimsOrdered
    BY DEF AppendInit, ClaimsBehindTail, ClaimsOrdered
<1> QED BY <1>1, <1>2, <1>3, <1>4, <1>5 DEF ClaimInv

\* Every step of a producer preserves the invariant.
LEMMA ClaimInvProduce ==
    ASSUME ClaimInv, NEW p \in Producers, Produce(p)
    PROVE  ClaimInv'
<1>1. AppendTypeOK'
    BY ProduceType DEF ClaimInv, ProducerInv
<1> QED BY <1>1, QuietProduce, ClaimStep, CasTailStep, CasCountStep

---------------------------------------------------------------------------
(* What readers rely on. *)

Tags == {"Empty", "Valid", "Padding", "Data"}

\* A reader reads inside the mapped partitions.
LEMMA ReadAddressType ==
    \A position \in Nat : ReadAddress(position) \in Addresses
<1> SUFFICES ASSUME NEW position \in Nat PROVE ReadAddress(position) \in Addresses
    OBVIOUS
<1>1. TermLength \in Nat /\ TermLength > 0
    BY JournalAssumption
<1>2. position % TermLength \in 0 .. TermLength - 1 /\ position \div TermLength \in Nat
    BY <1>1
<1>3. indexByPosition(position) \in {0, 1, 2}
    BY <1>2 DEF indexByPosition, PARTITION_COUNT
<1>4. CASE indexByPosition(position) = 0
    BY <1>1, <1>2, <1>4 DEF ReadAddress, Address, Addresses, PARTITION_COUNT
<1>5. CASE indexByPosition(position) = 1
    BY <1>1, <1>2, <1>5 DEF ReadAddress, Address, Addresses, PARTITION_COUNT
<1>6. CASE indexByPosition(position) = 2
    BY <1>1, <1>2, <1>6 DEF ReadAddress, Address, Addresses, PARTITION_COUNT
<1> QED BY <1>3, <1>4, <1>5, <1>6

\* The header word that a reader looks at is a word.
LEMMA ReadWord ==
    ASSUME AppendTypeOK, NEW position \in Nat
    PROVE  mem[ReadAddress(position)].tag \in Tags /\ mem[ReadAddress(position)].len \in Int
<1>1. mem[ReadAddress(position)] \in Words
    BY ReadAddressType DEF AppendTypeOK
<1> QED BY <1>1 DEF Words, Tags

\* Readers may move their positions as they like.
LEMMA ClaimInvRead ==
    ASSUME ClaimInv, UNCHANGED <<shared, ppc, loc, history>>,
           bytesConsumed' \in [Subscribers -> Nat]
    PROVE  ClaimInv'
<1>1. AppendTypeOK'
    BY DEF ClaimInv, AppendTypeOK, shared, history
<1>2. (\A p \in Producers : ProducerInv(p))'
    BY DEF ClaimInv, ProducerInv, HasFrame, CleansForward, KnowsTerm, ClaimsActive,
           RotatesFull, RotatesOnce, Full, shared
<1>3. TermsInStep' /\ OldTermsFull' /\ ClaimsBehindTail' /\ ClaimsOrdered'
    BY DEF ClaimInv, TermsInStep, OldTermsFull, Full, ClaimsBehindTail, ClaimsOrdered,
           shared, history
<1> QED BY <1>1, <1>2, <1>3 DEF ClaimInv

---------------------------------------------------------------------------
(* Back pressure: how far the tail runs ahead of the subscribers. *)

MaxFrame == Max(FrameLengths)

(* The latest term that has a tail: the active one or, once rotateLog has  *)
(* given the next partition its term, that one.                            *)
MidRotation == rawTail[indexByTermCount(activeTermCount + 1)].id = activeTermCount + 1
FrontTerm == IF MidRotation THEN activeTermCount + 1 ELSE activeTermCount
Front == TailPosition(FrontTerm)

(* A producer that may still move the front: it passed the limit check, or *)
(* it will because the term it knows has been left and ended below its     *)
(* limit.                                                                  *)
Passes(p) ==
    \/ ppc[p] \in {"claimCount", "fetchAdd"}
    \/ /\ ppc[p] = "rawTail" /\ loc[p].count < FrontTerm
       /\ (loc[p].count + 1) * TermLength < loc[p].min + Window
Credit == {p \in Producers : Passes(p)}

(* A producer that slept since the partition of the next term was active. *)
IsEarly(p) == ppc[p] = "fetchAdd" /\ loc[p].part = indexByTermCount(activeTermCount + 1)
Early == {p \in Producers : IsEarly(p)}

KnowsMin(p) ==
    ppc[p] \in {"readClean", "clean", "casClean", "termCount", "rawTail"}
        => loc[p].min <= minBytesConsumed

FrameFits(p) ==
    ppc[p] \in {"readClean", "clean", "casClean", "termCount", "rawTail",
                "claimCount", "fetchAdd"} => loc[p].len <= MaxFrame

Frames(n) == MaxFrame * n

(* Two frames per producer, less one for each that may still move the front. *)
WithinLimit ==
    Front < minBytesConsumed + Window
              + Frames(2 * Cardinality(Producers) - Cardinality(Credit))

(* A term that is not active yet has the frames of early producers only. *)
EarlyFrames ==
    MidRotation => Front <= (activeTermCount + 1) * TermLength
                              + Frames(Cardinality(Producers) - Cardinality(Early))

BackInv ==
    /\ \A p \in Producers : KnowsMin(p) /\ FrameFits(p)
    /\ WithinLimit
    /\ EarlyFrames
\* There is a longest frame.
LEMMA MaxFrameType ==
    MaxFrame \in Nat /\ \A n \in FrameLengths : n \in Nat /\ n <= MaxFrame
<1> DEFINE rest == {TermLength - n : n \in FrameLengths}
<1>1. /\ TermLength \in Nat /\ FrameLengths # {}
      /\ \A n \in FrameLengths : n \in Nat /\ TermLength - n \in Nat
    BY JournalAssumption
<1>2. rest \subseteq Nat /\ rest # {}
    BY <1>1
<1>3. \E x \in rest : \A y \in rest : ~(<<y, x>> \in OpToRel(<, Nat))
    <2> HIDE DEF rest
    <2> QED BY <1>2, NatLessThanWellFounded, WFMin
<1>4. PICK n \in FrameLengths : \A y \in rest : ~(<<y, TermLength - n>> \in OpToRel(<, Nat))
    BY <1>3
<1>5. \A k \in FrameLengths : n >= k
    <2> SUFFICES ASSUME NEW k \in FrameLengths PROVE ~(TermLength - k < TermLength - n)
        BY <1>1
    <2>1. /\ ~(<<TermLength - k, TermLength - n>> \in OpToRel(<, Nat))
          /\ <<TermLength - k, TermLength - n>> \in Nat \X Nat
        BY <1>1, <1>4
    <2> QED BY <2>1 DEF OpToRel
<1>6. MaxFrame \in FrameLengths /\ \A k \in FrameLengths : MaxFrame >= k
    BY <1>5 DEF MaxFrame, Max
<1> QED BY <1>1, <1>6

\* More frames are longer, and one more is longer by one frame.
LEMMA FramesGrow ==
    \A a, b \in Int : /\ Frames(a) \in Int
                      /\ Frames(a + 1) = Frames(a) + MaxFrame
                      /\ a <= b => Frames(a) <= Frames(b)
<1> SUFFICES ASSUME NEW a \in Int, NEW b \in Int
             PROVE  /\ Frames(a) \in Int
                    /\ Frames(a + 1) = Frames(a) + MaxFrame
                    /\ a <= b => Frames(a) <= Frames(b)
    OBVIOUS
<1> DEFINE m == MaxFrame
<1>1. m \in Nat
    BY MaxFrameType
<1> HIDE DEF m
<1>2. m * a \in Int /\ m * (a + 1) = m * a + m
    BY <1>1
<1>3. ASSUME a <= b PROVE m * a <= m * b
    <2>1. b - a \in Nat
        BY <1>3
    <2>2. m * (b - a) \in Nat
        BY <1>1, <2>1
    <2>3. m * (b - a) = m * b - m * a
        BY <1>1
    <2> QED BY <1>1, <2>2, <2>3
<1> QED BY <1>2, <1>3 DEF Frames, m

\* Sets of producers can be counted.
LEMMA Counting ==
    \A S \in SUBSET Producers :
        /\ IsFiniteSet(S) /\ Cardinality(S) \in Nat
        /\ Cardinality(S) <= Cardinality(Producers)
        /\ \A R \in SUBSET S : Cardinality(R) <= Cardinality(S)
        /\ \A p \in S : Cardinality(S \ {p}) = Cardinality(S) - 1
<1> SUFFICES ASSUME NEW S \in SUBSET Producers
             PROVE  /\ IsFiniteSet(S) /\ Cardinality(S) \in Nat
                    /\ Cardinality(S) <= Cardinality(Producers)
                    /\ \A R \in SUBSET S : Cardinality(R) <= Cardinality(S)
                    /\ \A p \in S : Cardinality(S \ {p}) = Cardinality(S) - 1
    OBVIOUS
<1>1. IsFiniteSet(S) /\ Cardinality(S) <= Cardinality(Producers)
    BY FS_Subset, ProducersAssumption
<1>2. Cardinality(S) \in Nat
    BY <1>1, FS_CardinalityType
<1>3. \A R \in SUBSET S : Cardinality(R) <= Cardinality(S)
    BY <1>1, FS_Subset
<1>4. \A p \in S : Cardinality(S \ {p}) = Cardinality(S) - 1
    BY <1>1, FS_RemoveElement
<1> QED BY <1>1, <1>2, <1>3, <1>4

\* The length of a term is no more than what its buffer holds.
LEMMA CapacityHoldsTerm ==
    \A i \in Partitions : capacity(i) >= TermLength
<1>1. TermLength \in Nat
    BY JournalAssumption
<1>2. ASSUME NEW i \in Partitions PROVE capacity(i) >= TermLength
    <2>1. i = 0 \/ i = 1 \/ i = 2
        BY DEF Partitions, PARTITION_COUNT
    <2> QED BY <1>1, <2>1 DEF capacity
<1> QED BY <1>2

\* A tail in a full term is at the end of the term.
LEMMA FullTail ==
    ASSUME AppendTypeOK, NEW c \in Nat, rawTail[indexByTermCount(c)].id = c,
           Full(indexByTermCount(c))
    PROVE  TailPosition(c) = (c + 1) * TermLength
<1>1. TermLength \in Nat /\ (c + 1) * TermLength = c * TermLength + TermLength
    BY JournalAssumption
<1>2. rawTail[indexByTermCount(c)].off \in Nat /\ indexByTermCount(c) \in Partitions
    BY TailType, IndexType DEF AppendTypeOK
<1>3. rawTail[indexByTermCount(c)].off > TermLength
    BY <1>1, <1>2, CapacityHoldsTerm, CapacityType DEF Full
<1>4. rawTailTermOffset(rawTail[indexByTermCount(c)], TermLength) = TermLength
    BY <1>1, <1>2, <1>3 DEF rawTailTermOffset, minimum
<1> QED BY <1>1, <1>4 DEF TailPosition, computePosition

\* A tail lies in its term.
LEMMA TailInTerm ==
    ASSUME AppendTypeOK, NEW c \in Nat, rawTail[indexByTermCount(c)].id = c
    PROVE  /\ TailPosition(c) \in Nat
           /\ c * TermLength <= TailPosition(c)
           /\ TailPosition(c) <= (c + 1) * TermLength
           /\ TailPosition(c) = c * TermLength
                + minimum(rawTail[indexByTermCount(c)].off, TermLength)
<1>1. /\ TermLength \in Nat /\ c * TermLength \in Nat
      /\ (c + 1) * TermLength = c * TermLength + TermLength
    BY JournalAssumption
<1>2. rawTail[indexByTermCount(c)].off \in Nat
    BY TailType DEF AppendTypeOK
<1>3. TailPosition(c) = c * TermLength + minimum(rawTail[indexByTermCount(c)].off, TermLength)
    BY DEF TailPosition, computePosition, rawTailTermOffset
<1>4. minimum(rawTail[indexByTermCount(c)].off, TermLength) \in 0 .. TermLength
    BY <1>1, <1>2 DEF minimum
<1> QED BY <1>1, <1>3, <1>4

\* The front is the tail of the newest term, and not before the active one's.
LEMMA FrontType ==
    ASSUME ClaimInv
    PROVE  /\ FrontTerm \in Nat /\ activeTermCount \in Nat
           /\ FrontTerm = activeTermCount \/ FrontTerm = activeTermCount + 1
           /\ MidRotation <=> FrontTerm = activeTermCount + 1
           /\ rawTail[indexByTermCount(FrontTerm)].id = FrontTerm
           /\ Front \in Nat
           /\ TailPosition(activeTermCount) \in Nat
           /\ TailPosition(activeTermCount) <= Front
<1>1. AppendTypeOK /\ activeTermCount \in Nat /\ TermsInStep
    BY DEF ClaimInv, AppendTypeOK
<1>2. rawTail[indexByTermCount(activeTermCount)].id = activeTermCount
    BY <1>1 DEF TermsInStep
<1>3. /\ FrontTerm \in Nat /\ rawTail[indexByTermCount(FrontTerm)].id = FrontTerm
      /\ FrontTerm = activeTermCount \/ FrontTerm = activeTermCount + 1
      /\ MidRotation <=> FrontTerm = activeTermCount + 1
    BY <1>1, <1>2 DEF FrontTerm, MidRotation
<1>4. TailPosition(activeTermCount) \in Nat
      /\ TailPosition(activeTermCount) <= (activeTermCount + 1) * TermLength
    BY <1>1, <1>2, TailInTerm
<1>5. Front \in Nat /\ FrontTerm * TermLength <= Front
    BY <1>1, <1>3, TailInTerm DEF Front
<1>6. CASE FrontTerm = activeTermCount
    BY <1>1, <1>3, <1>4, <1>5, <1>6 DEF Front
<1>7. CASE FrontTerm = activeTermCount + 1
    <2>1. (activeTermCount + 1) * TermLength \in Nat
        BY <1>1, JournalAssumption
    <2> QED BY <1>1, <1>3, <1>4, <1>5, <1>7, <2>1
<1> QED BY <1>1, <1>3, <1>4, <1>5, <1>6, <1>7
\* The bounds are numbers.
LEMMA BoundType ==
    ASSUME ClaimInv
    PROVE  /\ minBytesConsumed \in Nat /\ Window \in Nat
           /\ Cardinality(Producers) \in Nat
           /\ Cardinality(Credit) \in 0 .. Cardinality(Producers)
           /\ Cardinality(Early) \in 0 .. Cardinality(Producers)
<1>1. minBytesConsumed \in Nat
    BY MinBytesConsumedType DEF ClaimInv, AppendTypeOK
<1>2. Window \in Nat
    BY JournalAssumption DEF Window
<1>3. Cardinality(Producers) \in Nat
    BY Counting
<1>4. Credit \in SUBSET Producers /\ Early \in SUBSET Producers
    BY DEF Credit, Early
<1> QED BY <1>1, <1>2, <1>3, <1>4, Counting

\* A step that does not move the front keeps it within the limit if nobody is
\* newly allowed to move it, or if the front leaves room for a frame of everyone.
LEMMA LimitKept ==
    ASSUME ClaimInv, ClaimInv', WithinLimit, Front' = Front,
           minBytesConsumed <= minBytesConsumed',
           \/ Credit' \subseteq Credit
           \/ Front < minBytesConsumed + Window + Frames(Cardinality(Producers))
    PROVE  WithinLimit'
<1> DEFINE n == Cardinality(Producers)
           k == Cardinality(Credit)
<1>1. /\ minBytesConsumed \in Nat /\ Window \in Nat /\ n \in Nat /\ k \in 0 .. n
      /\ Front \in Nat
    BY BoundType, FrontType
<1>2. PICK m : m = minBytesConsumed'
    OBVIOUS
<1>3. PICK j : j = Cardinality(Credit')
    OBVIOUS
<1>4. m \in Nat /\ j \in 0 .. n /\ minBytesConsumed <= m
    <2>1. Credit' \in SUBSET Producers
        BY DEF Credit
    <2>2. bytesConsumed' \in [Subscribers -> Nat]
        BY DEF ClaimInv, AppendTypeOK
    <2>3. minBytesConsumed' \in Nat
        BY <2>2, SlowestType DEF minBytesConsumed, Slowest
    <2> QED BY <2>1, <2>3, <1>2, <1>3, Counting
<1>5. Front < minBytesConsumed + Window + Frames(2 * n - k)
    BY DEF WithinLimit
<1>6. Frames(2 * n - k) \in Int /\ Frames(2 * n - j) \in Int /\ Frames(n) \in Int
      /\ Frames(n) <= Frames(2 * n - j)
      /\ (j <= k => Frames(2 * n - k) <= Frames(2 * n - j))
    <2>1. 2 * n - k \in Int /\ 2 * n - j \in Int /\ n \in Int /\ n <= 2 * n - j
          /\ (j <= k => 2 * n - k <= 2 * n - j)
        BY <1>1, <1>4
    <2>2. PICK a, b : a = 2 * n - k /\ b = 2 * n - j
        OBVIOUS
    <2>3. a \in Int /\ b \in Int /\ n <= b /\ (j <= k => a <= b)
        BY <2>1, <2>2
    <2>4. Frames(a) \in Int /\ Frames(b) \in Int /\ Frames(n) \in Int
          /\ Frames(n) <= Frames(b) /\ (j <= k => Frames(a) <= Frames(b))
        BY <2>1, <2>3, FramesGrow
    <2> QED BY <2>2, <2>4
<1>7. Credit' \subseteq Credit => j <= k
    <2>1. Credit \in SUBSET Producers
        BY DEF Credit
    <2> QED BY <2>1, <1>3, Counting
<1>8. Front < m + Window + Frames(2 * n - j)
    <2>1. j <= k \/ Front < minBytesConsumed + Window + Frames(n)
        BY <1>7
    <2> HIDE DEF n, k
    <2> QED BY <1>1, <1>4, <1>5, <1>6, <2>1
<1>9. WithinLimit' <=> Front' < minBytesConsumed' + Window + Frames(2 * n - Cardinality(Credit'))
    BY DEF WithinLimit, Frames, MaxFrame, Window
<1> QED BY <1>2, <1>3, <1>8, <1>9

\* A step that leaves the tails and the active term alone keeps the frames of a
\* term that is not active yet, unless it makes a producer early.
LEMMA EarlyKept ==
    ASSUME ClaimInv, ClaimInv', EarlyFrames, UNCHANGED <<activeTermCount, rawTail>>,
           Early' \subseteq Early
    PROVE  EarlyFrames' /\ Front' = Front /\ FrontTerm' = FrontTerm /\ MidRotation' = MidRotation
<1> DEFINE n == Cardinality(Producers)
           k == Cardinality(Early)
           e == (activeTermCount + 1) * TermLength
<1>1. Front' = Front /\ FrontTerm' = FrontTerm /\ MidRotation' = MidRotation
    BY DEF Front, FrontTerm, MidRotation, TailPosition
<1>2. PICK j : j = Cardinality(Early')
    OBVIOUS
<1>3. Early \in SUBSET Producers
    BY DEF Early
<1>4. j \in Nat /\ j <= k /\ k \in Nat /\ n \in Nat /\ k <= n
    BY <1>2, <1>3, Counting
<1>5. e \in Nat /\ Front \in Nat
    BY JournalAssumption, FrontType
<1>6. Frames(n - k) \in Int /\ Frames(n - j) \in Int /\ Frames(n - k) <= Frames(n - j)
    <2>1. n - k \in Int /\ n - j \in Int /\ n - k <= n - j
        BY <1>4
    <2> HIDE DEF n, k
    <2> QED BY <2>1, FramesGrow
<1>7. MidRotation => Front <= e + Frames(n - k)
    BY DEF EarlyFrames
<1>8. MidRotation => Front <= e + Frames(n - j)
    <2> HIDE DEF n, k, e
    <2> QED BY <1>5, <1>6, <1>7
<1>9. EarlyFrames' <=> (MidRotation' => Front' <= e + Frames(n - Cardinality(Early')))
    BY DEF EarlyFrames, Frames, MaxFrame
<1> QED BY <1>1, <1>2, <1>8, <1>9
\* The steps that only read the tails keep the front within the limit: whoever
\* passes the check sees the front below the limit, or a term that has been left,
\* for which it was credited before.
LEMMA QuietBack ==
    ASSUME ClaimInv, ClaimInv', BackInv, NEW p \in Producers, Produce(p),
           ~GetAndAddRawTail(p), ~CasRawTail(p), ~CasActiveTermCount(p)
    PROVE  BackInv'
<1> DEFINE room == Front < minBytesConsumed + Window + Frames(Cardinality(Producers))
<1>0. UNCHANGED <<activeTermCount, rawTail, bytesConsumed>>
    BY DEF Produce, ReadMinBytesConsumed, ReadCleanPosition, CleanTerm,
           CasCleanPosition, ReadActiveTermCount, ReadRawTail, ReadClaimTermCount,
           HeaderWrite, PutBS, CommitFrameType, CommitFrameLength,
           NotifyReader, PaddingHeader, PaddingType, PaddingLength,
           RotateReadRawTail, shared
<1>1. AppendTypeOK /\ ProducerInv(p) /\ TermsInStep /\ KnowsMin(p) /\ FrameFits(p)
    BY DEF ClaimInv, BackInv
<1>2. /\ p \in DOMAIN ppc /\ p \in DOMAIN loc /\ loc[p] \in Locals
      /\ loc[p].count \in Nat /\ activeTermCount \in Nat /\ loc[p].min \in Nat
    BY <1>1 DEF AppendTypeOK, Locals
<1>3. FrontTerm' = FrontTerm /\ minBytesConsumed' = minBytesConsumed
    BY <1>0 DEF FrontTerm, MidRotation, minBytesConsumed
<1>4. \A q \in Producers \ {p} : ppc'[q] = ppc[q] /\ loc'[q] = loc[q]
    BY <1>1, OneProducer
<1>5. SUFFICES /\ KnowsMin(p)' /\ FrameFits(p)'
               /\ Passes(p)' => Passes(p) \/ room
               /\ IsEarly(p)' => IsEarly(p)
    <2>1. \A q \in Producers : KnowsMin(q)' /\ FrameFits(q)'
        <3>1. \A q \in Producers \ {p} : KnowsMin(q)' /\ FrameFits(q)'
            BY <1>3, <1>4 DEF BackInv, KnowsMin, FrameFits, MaxFrame
        <3> QED BY <1>5, <3>1
    <2>2. Early' \subseteq Early
        BY <1>0, <1>4, <1>5 DEF Early, IsEarly
    <2>3. Credit' \subseteq Credit \/ room
        BY <1>3, <1>4, <1>5 DEF Credit, Passes
    <2>4. EarlyFrames' /\ Front' = Front
        BY <1>0, <2>2, EarlyKept DEF BackInv
    <2>5. minBytesConsumed <= minBytesConsumed'
        BY <1>3, BoundType
    <2>6. WithinLimit'
        BY <2>3, <2>4, <2>5, LimitKept DEF BackInv
    <2> QED BY <2>1, <2>4, <2>6 DEF BackInv
<1>6. CASE ReadMinBytesConsumed(p)
    <2>1. PICK n \in FrameLengths :
            /\ ppc'[p] = "readClean"
            /\ loc'[p] = [NoLocals EXCEPT !.len = n, !.min = minBytesConsumed]
        BY <1>2, <1>6 DEF ReadMinBytesConsumed, Goto
    <2>2. loc'[p].len = n /\ loc'[p].min = minBytesConsumed
        BY <2>1 DEF NoLocals
    <2>3. minBytesConsumed \in Nat /\ n <= MaxFrame
        BY BoundType, MaxFrameType
    <2> QED BY <1>3, <2>1, <2>2, <2>3 DEF KnowsMin, FrameFits, Passes, IsEarly, MaxFrame
<1>7. CASE ReadCleanPosition(p) \/ CleanTerm(p) \/ CasCleanPosition(p)
    <2>1. /\ ppc[p] \in {"readClean", "clean", "casClean"}
          /\ ppc'[p] \in {"clean", "casClean", "termCount"}
        BY <1>2, <1>7 DEF ReadCleanPosition, CleanTerm, CasCleanPosition, Goto
    <2>2. loc'[p].len = loc[p].len /\ loc'[p].min = loc[p].min
        BY <1>2, <1>7 DEF ReadCleanPosition, CleanTerm, CasCleanPosition, Locals
    <2> QED BY <1>1, <1>3, <2>1, <2>2 DEF KnowsMin, FrameFits, Passes, IsEarly, MaxFrame
<1>8. CASE ReadActiveTermCount(p)
    <2>1. ppc[p] = "termCount" /\ ppc'[p] = "rawTail"
        BY <1>2, <1>8 DEF ReadActiveTermCount, Goto
    <2>2. loc'[p].len = loc[p].len /\ loc'[p].min = loc[p].min /\ loc'[p].count = activeTermCount
        BY <1>2, <1>8 DEF ReadActiveTermCount, Locals
    <2>3. ASSUME activeTermCount < FrontTerm,
                 (activeTermCount + 1) * TermLength < loc[p].min + Window
          PROVE  room
        <3> DEFINE n == Cardinality(Producers)
                   k == Cardinality(Early)
                   e == (activeTermCount + 1) * TermLength
        <3>1. MidRotation
            BY <1>2, <2>3 DEF FrontTerm
        <3>2. Front <= e + Frames(n - k)
            BY <3>1 DEF BackInv, EarlyFrames
        <3>3. n \in Nat /\ k \in 0 .. n /\ Front \in Nat /\ Window \in Nat
              /\ minBytesConsumed \in Nat /\ e \in Nat /\ loc[p].min <= minBytesConsumed
            BY <1>1, <1>2, <2>1, BoundType, FrontType, JournalAssumption DEF KnowsMin
        <3>4. PICK a : a = n - k
            OBVIOUS
        <3>5. a \in Int /\ a <= n
            BY <3>3, <3>4
        <3>6. Frames(a) \in Int /\ Frames(n) \in Int /\ Frames(a) <= Frames(n)
            BY <3>3, <3>5, FramesGrow
        <3>7. e < loc[p].min + Window /\ Front <= e + Frames(a)
            BY <2>3, <3>2, <3>4
        <3>8. Front < minBytesConsumed + Window + Frames(n)
            <4> HIDE DEF e, n
            <4> QED BY <1>2, <3>3, <3>6, <3>7
        <3> QED BY <3>8
    <2>4. KnowsMin(p)' /\ FrameFits(p)' /\ ~IsEarly(p)'
        BY <1>1, <1>3, <2>1, <2>2 DEF KnowsMin, FrameFits, IsEarly, MaxFrame
    <2>5. Passes(p)' => activeTermCount < FrontTerm
                        /\ (activeTermCount + 1) * TermLength < loc[p].min + Window
        BY <1>3, <2>1, <2>2 DEF Passes, Window
    <2> QED BY <2>3, <2>4, <2>5
<1>9. CASE ReadRawTail(p)
    <2> DEFINE c  == loc[p].count
               rt == rawTail[indexByTermCount(c)]
               l  == [NoLocals EXCEPT !.len = loc[p].len, !.count = c, !.id = rt.id]
    <2>1. CASE Return(p, "rawTail")
        BY <1>2, <2>1 DEF Return, Goto, KnowsMin, FrameFits, Passes, IsEarly
    <2>2. CASE /\ c = rt.id /\ TailPosition(c) < loc[p].min + Window
               /\ ppc[p] = "rawTail" /\ ppc'[p] = "claimCount" /\ loc'[p] = l
        <3>1. l.len = loc[p].len
            BY DEF NoLocals
        <3>2. c <= activeTermCount /\ loc[p].min <= minBytesConsumed /\ loc[p].len <= MaxFrame
            BY <1>1, <2>2 DEF ProducerInv, KnowsTerm, KnowsMin, FrameFits
        <3>3. KnowsMin(p)' /\ FrameFits(p)' /\ ~IsEarly(p)'
            BY <2>2, <3>1, <3>2 DEF KnowsMin, FrameFits, IsEarly, MaxFrame
        <3>4. FrontTerm \in Nat /\ rawTail[indexByTermCount(FrontTerm)].id = FrontTerm
              /\ activeTermCount <= FrontTerm /\ Front \in Nat
            BY FrontType
        <3>5. CASE c = FrontTerm
            <4>1. Front < loc[p].min + Window
                BY <2>2, <3>5 DEF Front
            <4>2. Frames(Cardinality(Producers)) >= 0 /\ Frames(Cardinality(Producers)) \in Int
                <5>1. Frames(0) = 0
                    BY MaxFrameType DEF Frames
                <5> QED BY <5>1, FramesGrow, BoundType
            <4>3. room
                BY <1>2, <3>2, <3>4, <4>1, <4>2, BoundType
            <4> QED BY <3>3, <4>3
        <3>6. CASE c # FrontTerm
            <4>1. c < FrontTerm
                BY <1>2, <3>2, <3>4, <3>6
            <4>2. indexByTermCount(c) \in Partitions /\ indexByTermCount(FrontTerm) \in Partitions
                BY <1>2, <3>4, IndexType
            <4>3. Full(indexByTermCount(c))
                BY <1>2, <2>2, <3>4, <4>1, <4>2 DEF ClaimInv, OldTermsFull
            <4>4. TailPosition(c) = (c + 1) * TermLength
                BY <1>1, <1>2, <2>2, <4>3, FullTail
            <4>5. Passes(p)
                BY <2>2, <4>1, <4>4 DEF Passes
            <4> QED BY <3>3, <4>5
        <3> QED BY <3>5, <3>6
    <2>3. TailPosition(c) = computePosition(rt.id, rawTailTermOffset(rt, TermLength))
        BY DEF TailPosition
    <2> QED BY <1>2, <1>9, <2>1, <2>2, <2>3 DEF ReadRawTail, Goto
<1>10. CASE ReadClaimTermCount(p)
    <2>1. /\ ppc[p] = "claimCount" /\ ppc'[p] = "fetchAdd"
          /\ loc'[p] = [loc[p] EXCEPT !.part = indexByTermCount(activeTermCount)]
        BY <1>2, <1>10 DEF ReadClaimTermCount, Goto
    <2>2. loc'[p].part = indexByTermCount(activeTermCount) /\ loc'[p].len = loc[p].len
        BY <1>2, <2>1 DEF Locals
    <2>3. indexByTermCount(activeTermCount) # indexByTermCount(activeTermCount + 1)
        BY <1>2, IndexType
    <2> QED BY <1>0, <1>1, <2>1, <2>2, <2>3 DEF KnowsMin, FrameFits, Passes, IsEarly, MaxFrame
<1>11. CASE ppc'[p] \in {"idle", "put", "commitType", "commitLength", "notify", "padType",
                         "padLength", "rotate", "casTail", "casCount"}
    BY <1>11 DEF KnowsMin, FrameFits, Passes, IsEarly
<1> QED
    BY <1>2, <1>6, <1>7, <1>8, <1>9, <1>10, <1>11
    DEF Produce, HeaderWrite, PutBS, CommitFrameType, CommitFrameLength, NotifyReader,
        PaddingHeader, PaddingType, PaddingLength, RotateReadRawTail, Goto, Return
\* A claim, or a failed claim, moves the front by at most one frame, and its
\* producer may not move it again before its next check.
LEMMA ClaimBack ==
    ASSUME ClaimInv, ClaimInv', BackInv, NEW p \in Producers, Produce(p), GetAndAddRawTail(p)
    PROVE  BackInv'
<1> DEFINE i == loc[p].part
           x == loc[p].len
           n == Cardinality(Producers)
<1>1. AppendTypeOK /\ TermsInStep /\ FrameFits(p)
    BY DEF ClaimInv, BackInv
<1>2. /\ p \in DOMAIN ppc /\ loc[p] \in Locals /\ i \in Partitions /\ x \in Nat
      /\ activeTermCount \in Nat /\ rawTail \in [Partitions -> RawTails]
    BY <1>1 DEF AppendTypeOK, Locals
<1>3. /\ ppc[p] = "fetchAdd" /\ ppc'[p] \in {"header", "padHeader", "rotate"}
      /\ rawTail' = [rawTail EXCEPT ![i].off = @ + x]
      /\ UNCHANGED <<activeTermCount, bytesConsumed>>
    BY <1>2 DEF GetAndAddRawTail, Goto
<1>4. x <= MaxFrame
    BY <1>1, <1>3 DEF FrameFits
<1>5. \A q \in Producers \ {p} : ppc'[q] = ppc[q] /\ loc'[q] = loc[q]
    BY <1>1, OneProducer
<1>6. \A j \in Partitions : /\ rawTail'[j].id = rawTail[j].id
                            /\ rawTail[j].off \in Nat
                            /\ rawTail'[j].off = IF j = i THEN rawTail[j].off + x ELSE rawTail[j].off
    BY <1>2, <1>3 DEF RawTails
<1>7. indexByTermCount(activeTermCount + 1) \in Partitions
    BY <1>2, IndexType
<1>8. /\ MidRotation' <=> MidRotation
      /\ FrontTerm' = FrontTerm /\ minBytesConsumed' = minBytesConsumed
    BY <1>3, <1>6, <1>7 DEF FrontTerm, MidRotation, minBytesConsumed
<1>9. \A q \in Producers : KnowsMin(q)' /\ FrameFits(q)'
    <2>1. KnowsMin(p)' /\ FrameFits(p)'
        BY <1>3 DEF KnowsMin, FrameFits
    <2>2. \A q \in Producers \ {p} : KnowsMin(q)' /\ FrameFits(q)'
        BY <1>5, <1>8 DEF BackInv, KnowsMin, FrameFits, MaxFrame
    <2> QED BY <2>1, <2>2
<1>10. Credit \in SUBSET Producers /\ p \in Credit /\ Credit' = Credit \ {p}
    <2>1. Passes(p) /\ ~Passes(p)'
        BY <1>3 DEF Passes
    <2>2. \A q \in Producers \ {p} : Passes(q)' <=> Passes(q)
        BY <1>5, <1>8 DEF Passes, Window
    <2> QED BY <2>1, <2>2 DEF Credit
<1>11. /\ Early \in SUBSET Producers /\ p \notin Early' /\ Early' \subseteq Early
       /\ i = indexByTermCount(activeTermCount + 1) => p \in Early /\ Early' = Early \ {p}
    <2>1. ~IsEarly(p)' /\ (i = indexByTermCount(activeTermCount + 1) => IsEarly(p))
        BY <1>3 DEF IsEarly
    <2>2. \A q \in Producers \ {p} : IsEarly(q)' <=> IsEarly(q)
        BY <1>3, <1>5 DEF IsEarly
    <2> QED BY <2>1, <2>2 DEF Early
<1>12. PICK f, g : f = Front /\ g = Front'
    OBVIOUS
<1>13. /\ f \in Nat /\ g \in Nat /\ g <= f + x
       /\ i # indexByTermCount(FrontTerm) => g = f
    <2>1. PICK t : t = FrontTerm
        OBVIOUS
    <2>2. t \in Nat /\ rawTail[indexByTermCount(t)].id = t /\ indexByTermCount(t) \in Partitions
        BY <2>1, FrontType, IndexType
    <2>3. PICK o, u : o = rawTail[indexByTermCount(t)].off /\ u = rawTail'[indexByTermCount(t)].off
        OBVIOUS
    <2>4. o \in Nat /\ u = (IF indexByTermCount(t) = i THEN o + x ELSE o)
        BY <1>6, <2>2, <2>3
    <2>5. f = t * TermLength + minimum(o, TermLength)
        BY <1>12, <2>1, <2>2, <2>3 DEF Front, TailPosition, computePosition, rawTailTermOffset
    <2>6. g = t * TermLength + minimum(u, TermLength)
        <3>1. rawTail'[indexByTermCount(t)].id = t
            BY <1>6, <2>2
        <3>2. Front' = computePosition(rawTail'[indexByTermCount(t)].id,
                            rawTailTermOffset(rawTail'[indexByTermCount(t)], TermLength))
            BY <1>8, <2>1 DEF Front, TailPosition
        <3> QED BY <1>12, <2>3, <3>1, <3>2 DEF computePosition, rawTailTermOffset
    <2>7. TermLength \in Nat /\ t * TermLength \in Nat
        BY <2>2, JournalAssumption
    <2>8. PICK b : b = t * TermLength
        OBVIOUS
    <2>9. f \in Nat /\ g \in Nat /\ g <= f + x
        BY <1>2, <2>4, <2>5, <2>6, <2>7, <2>8 DEF minimum
    <2>10. i # indexByTermCount(FrontTerm) => g = f
        BY <2>1, <2>4, <2>5, <2>6
    <2> QED BY <2>9, <2>10
<1>14. minBytesConsumed \in Nat /\ Window \in Nat /\ n \in Nat /\ MaxFrame \in Nat
    BY BoundType, MaxFrameType
<1>15. WithinLimit'
    <2>1. PICK k : k = Cardinality(Credit)
        OBVIOUS
    <2>2. k \in Nat /\ k <= n /\ Cardinality(Credit') = k - 1
        BY <1>10, <2>1, Counting
    <2>3. f < minBytesConsumed + Window + Frames(2 * n - k)
        BY <1>12, <2>1 DEF BackInv, WithinLimit
    <2>4. PICK a : a = 2 * n - k
        OBVIOUS
    <2>5. a \in Int /\ a + 1 = 2 * n - (k - 1)
        BY <1>14, <2>2, <2>4
    <2>6. Frames(a) \in Int /\ Frames(a + 1) = Frames(a) + MaxFrame
        BY <2>5, FramesGrow
    <2>7. g < minBytesConsumed + Window + Frames(a + 1)
        <3> HIDE DEF x, n
        <3> QED BY <1>2, <1>4, <1>13, <1>14, <2>3, <2>4, <2>6
    <2>8. WithinLimit' <=> Front' < minBytesConsumed' + Window + Frames(2 * n - Cardinality(Credit'))
        BY DEF WithinLimit, Frames, MaxFrame, Window
    <2> QED BY <1>8, <1>12, <2>2, <2>5, <2>7, <2>8
<1>16. EarlyFrames'
    <2> DEFINE e == (activeTermCount + 1) * TermLength
    <2>1. PICK k, j : k = Cardinality(Early) /\ j = Cardinality(Early')
        OBVIOUS
    <2>2. k \in Nat /\ j \in Nat /\ j <= k /\ k <= n
        BY <1>11, <2>1, Counting
    <2>3. i = indexByTermCount(activeTermCount + 1) => j = k - 1
        BY <1>11, <2>1, Counting
    <2>4. MidRotation => f <= e + Frames(n - k)
        BY <1>12, <2>1 DEF BackInv, EarlyFrames
    <2>5. PICK a, b : a = n - k /\ b = n - j
        OBVIOUS
    <2>6. a \in Int /\ b \in Int /\ a <= b /\ (i = indexByTermCount(activeTermCount + 1) => b = a + 1)
        BY <1>14, <2>2, <2>3, <2>5
    <2>7. Frames(a) \in Int /\ Frames(b) \in Int /\ Frames(a) <= Frames(b)
          /\ Frames(a + 1) = Frames(a) + MaxFrame
        BY <2>6, FramesGrow
    <2>8. e \in Nat
        BY <1>2, JournalAssumption
    <2>9. MidRotation => indexByTermCount(FrontTerm) = indexByTermCount(activeTermCount + 1)
        BY DEF FrontTerm
    <2>10. MidRotation => g <= e + Frames(b)
        <3>1. CASE i = indexByTermCount(activeTermCount + 1)
            <4> HIDE DEF e, n, x
            <4> QED BY <1>2, <1>4, <1>13, <1>14, <2>4, <2>5, <2>6, <2>7, <2>8, <3>1
        <3>2. CASE i # indexByTermCount(activeTermCount + 1)
            <4> HIDE DEF e, n
            <4> QED BY <1>13, <2>4, <2>5, <2>7, <2>8, <2>9, <3>2
        <3> QED BY <3>1, <3>2
    <2>11. EarlyFrames' <=> (MidRotation' => Front' <= e + Frames(n - Cardinality(Early')))
        BY <1>3 DEF EarlyFrames, Frames, MaxFrame
    <2> QED BY <1>8, <1>12, <2>1, <2>5, <2>10, <2>11
<1> QED BY <1>9, <1>15, <1>16 DEF BackInv
\* The first compare-and-swap of rotateLog moves the front from the end of a
\* full term to the beginning of the next one, which is the same position.
LEMMA CasTailBack ==
    ASSUME ClaimInv, ClaimInv', BackInv, NEW p \in Producers, Produce(p), CasRawTail(p)
    PROVE  BackInv'
<1> DEFINE c == activeTermCount
           i == nextIndex(p)
           n == Cardinality(Producers)
<1>1. AppendTypeOK /\ TermsInStep /\ ProducerInv(p)
    BY DEF ClaimInv
<1>2. /\ p \in DOMAIN ppc /\ loc[p] \in Locals /\ loc[p].count \in Nat /\ loc[p].id \in Int
      /\ c \in Nat /\ rawTail \in [Partitions -> RawTails]
    BY <1>1 DEF AppendTypeOK, Locals
<1>3. /\ ppc[p] = "casTail" /\ ppc'[p] \in {"casCount", "rotate"}
      /\ UNCHANGED <<activeTermCount, bytesConsumed>>
    BY <1>2 DEF CasRawTail, Goto
<1>4. \A q \in Producers \ {p} : ppc'[q] = ppc[q] /\ loc'[q] = loc[q]
    BY <1>1, OneProducer
<1>5. minBytesConsumed' = minBytesConsumed /\ minBytesConsumed \in Nat
    BY <1>3, BoundType DEF minBytesConsumed
<1>6. \A q \in Producers : KnowsMin(q)' /\ FrameFits(q)'
    <2>1. KnowsMin(p)' /\ FrameFits(p)'
        BY <1>3 DEF KnowsMin, FrameFits
    <2>2. \A q \in Producers \ {p} : KnowsMin(q)' /\ FrameFits(q)'
        BY <1>4, <1>5 DEF BackInv, KnowsMin, FrameFits, MaxFrame
    <2> QED BY <2>1, <2>2
<1>7. ~Passes(p)' /\ ~IsEarly(p)'
    BY <1>3 DEF Passes, IsEarly
<1>8. CASE rawTail' = rawTail
    <2>1. FrontTerm' = FrontTerm
        BY <1>3, <1>8 DEF FrontTerm, MidRotation
    <2>2. Early' \subseteq Early /\ Credit' \subseteq Credit
        BY <1>3, <1>4, <1>7, <2>1 DEF Early, IsEarly, Credit, Passes
    <2>3. EarlyFrames' /\ Front' = Front
        BY <1>3, <1>8, <2>2, EarlyKept DEF BackInv
    <2>4. WithinLimit'
        BY <1>5, <2>2, <2>3, LimitKept DEF BackInv
    <2> QED BY <1>6, <2>3, <2>4 DEF BackInv
<1>9. CASE /\ rawTail[i] = loc[p].tail
           /\ rawTail' = [rawTail EXCEPT ![i] = [id |-> loc[p].id + 1, off |-> 0]]
    <2>1. /\ loc[p].count = loc[p].id /\ loc[p].count <= c
          /\ rawTail[i].id = loc[p].count - 2
        BY <1>1, <1>2, <1>3, <1>9
        DEF ProducerInv, KnowsTerm, RotatesOnce, PastCheck, PastEnd, PARTITION_COUNT
    <2>2. i \in Partitions /\ \A j \in Partitions : rawTail[j].id >= c - 2
        <3>1. \A j \in Partitions : j \in {indexByTermCount(c), indexByTermCount(c + 1),
                                           indexByTermCount(c + 2)}
            BY <1>2, IndexType
        <3>2. rawTail[indexByTermCount(c)].id = c /\ rawTail[indexByTermCount(c + 2)].id = c - 1
              /\ rawTail[indexByTermCount(c + 1)].id \in {c - 2, c + 1}
            BY <1>1 DEF TermsInStep
        <3>3. i \in Partitions
            BY <1>2, IndexType DEF nextIndex
        <3> QED BY <1>2, <3>1, <3>2, <3>3
    <2>3. loc[p].count = c /\ i = indexByTermCount(c + 1) /\ rawTail[i].id = c - 2
        BY <1>2, <2>1, <2>2 DEF nextIndex
    <2>4. ~MidRotation /\ FrontTerm = c
        BY <1>2, <2>3 DEF MidRotation, FrontTerm
    <2>5. rawTail'[indexByTermCount(c + 1)] = [id |-> c + 1, off |-> 0]
        BY <1>2, <1>9, <2>1, <2>2, <2>3
    <2>6. MidRotation' /\ FrontTerm' = c + 1
        BY <1>3, <2>5 DEF MidRotation, FrontTerm
    <2> DEFINE e == (c + 1) * TermLength
    <2>7. Front = e
        <3>1. Full(indexByTermCount(c))
            BY <1>1, <1>3, <2>3 DEF ProducerInv, RotatesFull, PastEnd
        <3>2. rawTail[indexByTermCount(c)].id = c
            BY <1>1 DEF TermsInStep
        <3> QED BY <1>1, <1>2, <2>4, <3>1, <3>2, FullTail DEF Front
    <2>8. Front' = e
        <3>1. rawTailTermOffset([id |-> c + 1, off |-> 0], TermLength) = 0
            BY JournalAssumption DEF rawTailTermOffset, minimum
        <3>2. Front' = computePosition(rawTail'[indexByTermCount(c + 1)].id,
                            rawTailTermOffset(rawTail'[indexByTermCount(c + 1)], TermLength))
            BY <2>6 DEF Front, TailPosition
        <3>3. e \in Int
            BY <1>2, JournalAssumption
        <3> QED BY <2>5, <3>1, <3>2, <3>3 DEF computePosition
    <2>9. Frames(n) \in Int /\ 0 <= Frames(n) /\ n \in Nat
        <3>1. Frames(0) = 0
            BY MaxFrameType DEF Frames
        <3> QED BY <3>1, FramesGrow, BoundType
    <2>10. Credit' \subseteq Credit \/ Front < minBytesConsumed + Window + Frames(n)
        <3>1. SUFFICES ASSUME NEW q \in Producers, Passes(q)', ~Passes(q)
                       PROVE  Front < minBytesConsumed + Window + Frames(n)
            BY DEF Credit
        <3>2. q # p /\ ppc'[q] = ppc[q] /\ loc'[q] = loc[q]
            BY <1>4, <1>7, <3>1
        <3>3. /\ ppc[q] = "rawTail" /\ loc[q].count < c + 1 /\ ~Passes(q)
              /\ (loc[q].count + 1) * TermLength < loc[q].min + Window
            BY <2>6, <3>1, <3>2 DEF Passes, Window
        <3>4. loc[q].count \in Nat /\ loc[q].min \in Nat
            BY <1>1 DEF AppendTypeOK, Locals
        <3>5. ~(loc[q].count < c)
            BY <2>4, <3>3 DEF Passes
        <3>6. loc[q].count = c /\ e < loc[q].min + Window
            BY <1>2, <3>3, <3>4, <3>5
        <3>7. loc[q].min <= minBytesConsumed
            BY <3>3 DEF BackInv, KnowsMin
        <3>8. e \in Int /\ Window \in Nat
            BY <1>2, JournalAssumption, BoundType
        <3> HIDE DEF e, n
        <3> QED BY <1>5, <2>7, <2>9, <3>4, <3>6, <3>7, <3>8
    <2>11. WithinLimit'
        BY <1>5, <2>7, <2>8, <2>10, LimitKept DEF BackInv
    <2>12. EarlyFrames'
        <3>1. PICK j : j = Cardinality(Early')
            OBVIOUS
        <3>2. Early' \in SUBSET Producers
            BY DEF Early
        <3>3. j \in Nat /\ j <= n
            BY <3>1, <3>2, Counting
        <3>4. PICK b : b = n - j
            OBVIOUS
        <3>5. b \in Int /\ 0 <= b
            BY <2>9, <3>3, <3>4
        <3>6. Frames(0) = 0
            BY MaxFrameType DEF Frames
        <3>7. Frames(b) \in Int /\ 0 <= Frames(b)
            BY <3>5, <3>6, FramesGrow
        <3>8. e \in Int
            BY <1>2, JournalAssumption
        <3>9. e <= e + Frames(b)
            <4> HIDE DEF e
            <4> QED BY <3>7, <3>8
        <3>10. EarlyFrames' <=> (MidRotation' => Front' <= e + Frames(n - Cardinality(Early')))
            BY <1>3 DEF EarlyFrames, Frames, MaxFrame
        <3> QED BY <2>8, <3>1, <3>4, <3>9, <3>10
    <2> QED BY <1>6, <2>11, <2>12 DEF BackInv
<1> QED BY <1>8, <1>9 DEF CasRawTail

\* The second compare-and-swap makes the newest term the active one, and leaves
\* the front where it is.
LEMMA CasCountBack ==
    ASSUME ClaimInv, ClaimInv', BackInv, NEW p \in Producers, Produce(p), CasActiveTermCount(p)
    PROVE  BackInv'
<1> DEFINE c == activeTermCount
<1>1. AppendTypeOK /\ TermsInStep /\ ProducerInv(p)
    BY DEF ClaimInv
<1>2. p \in DOMAIN ppc /\ c \in Nat
    BY <1>1 DEF AppendTypeOK
<1>3. ppc[p] = "casCount" /\ ppc'[p] = "idle" /\ UNCHANGED <<rawTail, bytesConsumed>>
    BY <1>2 DEF CasActiveTermCount, Return, Goto
<1>4. \A q \in Producers \ {p} : ppc'[q] = ppc[q] /\ loc'[q] = loc[q]
    BY <1>1, OneProducer
<1>5. minBytesConsumed' = minBytesConsumed /\ minBytesConsumed \in Nat
    BY <1>3, BoundType DEF minBytesConsumed
<1>6. \A q \in Producers : KnowsMin(q)' /\ FrameFits(q)'
    <2>1. KnowsMin(p)' /\ FrameFits(p)'
        BY <1>3 DEF KnowsMin, FrameFits
    <2>2. \A q \in Producers \ {p} : KnowsMin(q)' /\ FrameFits(q)'
        BY <1>4, <1>5 DEF BackInv, KnowsMin, FrameFits, MaxFrame
    <2> QED BY <2>1, <2>2
<1>7. ~Passes(p)' /\ ~IsEarly(p)'
    BY <1>3 DEF Passes, IsEarly
<1>8. CASE activeTermCount' = c
    <2>1. FrontTerm' = FrontTerm
        BY <1>3, <1>8 DEF FrontTerm, MidRotation
    <2>2. Early' \subseteq Early /\ Credit' \subseteq Credit
        BY <1>4, <1>7, <1>8, <2>1 DEF Early, IsEarly, Credit, Passes
    <2>3. EarlyFrames' /\ Front' = Front
        BY <1>3, <1>8, <2>2, EarlyKept DEF BackInv
    <2>4. WithinLimit'
        BY <1>5, <2>2, <2>3, LimitKept DEF BackInv
    <2> QED BY <1>6, <2>3, <2>4 DEF BackInv
<1>9. CASE activeTermCount' # c
    <2>1. loc[p].count = c /\ activeTermCount' = c + 1
        BY <1>9 DEF CasActiveTermCount
    <2>2. MidRotation
        BY <1>1, <1>3, <2>1 DEF ProducerInv, RotatesOnce, MidRotation
    <2>3. ~MidRotation'
        <3>1. rawTail[indexByTermCount(c + 2)].id = c - 1 /\ c + 1 + 1 = c + 2
            BY <1>1, <1>2 DEF TermsInStep
        <3> QED BY <1>2, <1>3, <2>1, <3>1 DEF MidRotation
    <2>4. FrontTerm' = c + 1 /\ FrontTerm = c + 1
        BY <2>1, <2>2, <2>3 DEF FrontTerm
    <2>5. Front' = Front
        BY <1>3, <2>4 DEF Front, TailPosition
    <2>6. Credit' \subseteq Credit
        BY <1>4, <1>7, <2>4 DEF Credit, Passes
    <2>7. WithinLimit'
        BY <1>5, <2>5, <2>6, LimitKept DEF BackInv
    <2> QED BY <1>6, <2>3, <2>7 DEF BackInv, EarlyFrames
<1> QED BY <1>8, <1>9
\* Nothing is ahead of the subscribers initially.
LEMMA BackInvInit == AppendInit => BackInv
<1> SUFFICES ASSUME AppendInit PROVE BackInv
    OBVIOUS
<1>1. ClaimInv
    BY ClaimInvInit
<1>2. ~MidRotation /\ FrontTerm = 0
    BY DEF AppendInit, MidRotation, FrontTerm, indexByTermCount, Partitions, PARTITION_COUNT
<1>3. Front = 0
    <2>1. rawTail[indexByTermCount(0)] = [id |-> 0, off |-> 0]
        BY DEF AppendInit, indexByTermCount, Partitions, PARTITION_COUNT
    <2>2. rawTailTermOffset([id |-> 0, off |-> 0], TermLength) = 0
        BY JournalAssumption DEF rawTailTermOffset, minimum
    <2>3. 0 * TermLength = 0
        BY JournalAssumption
    <2> QED BY <1>2, <2>1, <2>2, <2>3 DEF Front, TailPosition, computePosition
<1>4. \A p \in Producers : KnowsMin(p) /\ FrameFits(p) /\ ~Passes(p)
    BY DEF AppendInit, KnowsMin, FrameFits, Passes
<1>5. Window \in Nat /\ Window > 0
    BY JournalAssumption DEF Window
<1>6. WithinLimit
    <2> DEFINE n == Cardinality(Producers)
    <2>1. Cardinality(Credit) = 0
        BY <1>4, FS_EmptySet DEF Credit
    <2>2. n \in Nat /\ minBytesConsumed \in Nat
        BY <1>1, BoundType
    <2>3. Frames(0) = 0
        BY MaxFrameType DEF Frames
    <2>4. PICK a : a = 2 * n - Cardinality(Credit)
        OBVIOUS
    <2>5. a \in Int /\ 0 <= a
        BY <2>1, <2>2, <2>4
    <2>6. Frames(a) \in Int /\ 0 <= Frames(a)
        BY <2>3, <2>5, FramesGrow
    <2>7. 0 < minBytesConsumed + Window + Frames(a)
        BY <1>5, <2>2, <2>6
    <2> QED BY <1>3, <2>4, <2>7 DEF WithinLimit
<1> QED BY <1>2, <1>4, <1>6 DEF BackInv, EarlyFrames

\* Every step of a producer keeps the front within the limit.
LEMMA BackInvProduce ==
    ASSUME ClaimInv, BackInv, NEW p \in Producers, Produce(p)
    PROVE  BackInv'
<1>1. ClaimInv'
    BY ClaimInvProduce
<1> QED BY <1>1, QuietBack, ClaimBack, CasTailBack, CasCountBack

\* So does whoever moves the subscribers' positions forward.
LEMMA BackInvRead ==
    ASSUME ClaimInv, ClaimInv', BackInv, UNCHANGED <<activeTermCount, rawTail, ppc, loc>>,
           \A s \in Subscribers : bytesConsumed[s] <= bytesConsumed'[s]
    PROVE  BackInv'
<1>1. bytesConsumed \in [Subscribers -> Nat] /\ bytesConsumed' \in [Subscribers -> Nat]
    BY DEF ClaimInv, AppendTypeOK
<1>2. PICK f, g : f = bytesConsumed /\ g = bytesConsumed'
    OBVIOUS
<1>3. /\ f \in [Subscribers -> Nat] /\ g \in [Subscribers -> Nat]
      /\ \A s \in Subscribers : f[s] <= g[s]
    BY <1>1, <1>2
<1>4. Slowest(f) \in Nat /\ Slowest(g) \in Nat /\ Slowest(f) <= Slowest(g)
    <2>1. PICK s \in Subscribers : Slowest(g) = g[s]
        BY <1>3, SlowestType
    <2>2. Slowest(f) <= f[s] /\ Slowest(f) \in Nat /\ Slowest(g) \in Nat
        BY <1>3, SlowestType
    <2> QED BY <1>3, <2>1, <2>2
<1>5. minBytesConsumed = Slowest(f) /\ minBytesConsumed' = Slowest(g)
    BY <1>2 DEF minBytesConsumed, Slowest
<1>6. FrontTerm' = FrontTerm
    BY DEF FrontTerm, MidRotation
<1>7. Early' \subseteq Early /\ Credit' \subseteq Credit
    BY <1>6 DEF Early, IsEarly, Credit, Passes
<1>8. EarlyFrames' /\ Front' = Front
    BY <1>7, EarlyKept DEF BackInv
<1>9. minBytesConsumed <= minBytesConsumed'
    BY <1>4, <1>5
<1>10. WithinLimit'
    BY <1>7, <1>8, <1>9, LimitKept DEF BackInv
<1>11. ASSUME NEW q \in Producers PROVE KnowsMin(q)' /\ FrameFits(q)'
    <2>1. loc[q].min \in Nat /\ KnowsMin(q) /\ FrameFits(q)
        BY DEF ClaimInv, AppendTypeOK, Locals, BackInv
    <2>2. FrameFits(q)'
        BY <2>1 DEF FrameFits, MaxFrame
    <2>3. ppc[q] \in {"readClean", "clean", "casClean", "termCount", "rawTail"}
            => loc[q].min <= Slowest(g)
        BY <1>4, <1>5, <2>1 DEF KnowsMin
    <2> QED BY <1>5, <2>2, <2>3 DEF KnowsMin
<1> QED BY <1>8, <1>10, <1>11 DEF BackInv

\* The bound on the tail of the active term follows.
LEMMA BackInvBound == ClaimInv /\ BackInv => BackPressureBound
<1> SUFFICES ASSUME ClaimInv, BackInv PROVE BackPressureBound
    OBVIOUS
<1> DEFINE n == Cardinality(Producers)
<1>1. /\ TailPosition(activeTermCount) \in Nat /\ Front \in Nat
      /\ TailPosition(activeTermCount) <= Front
    BY FrontType
<1>2. minBytesConsumed \in Nat /\ Window \in Nat /\ n \in Nat /\ Cardinality(Credit) \in 0 .. n
    BY BoundType
<1>3. PICK a, b : a = 2 * n - Cardinality(Credit) /\ b = 2 * n
    OBVIOUS
<1>4. a \in Int /\ b \in Int /\ a <= b
    BY <1>2, <1>3
<1>5. Frames(a) \in Int /\ Frames(b) \in Int /\ Frames(a) <= Frames(b)
    BY <1>4, FramesGrow
<1>6. Front < minBytesConsumed + Window + Frames(a)
    BY <1>3 DEF BackInv, WithinLimit
<1>7. Frames(b) = 2 * n * MaxFrame
    <2>1. MaxFrame \in Nat
        BY MaxFrameType
    <2> HIDE DEF n
    <2>2. \A x, y \in Nat : x * (2 * y) = 2 * y * x
        OBVIOUS
    <2> QED BY <1>2, <1>3, <2>1, <2>2 DEF Frames
<1>8. TailPosition(activeTermCount) < minBytesConsumed + Window + Frames(b)
    BY <1>1, <1>2, <1>5, <1>6
<1> QED BY <1>7, <1>8 DEF BackPressureBound, MaxFrame
---------------------------------------------------------------------------
(* The layout of the log as long as no frame has been claimed past the end  *)
(* of its term: the claims follow each other without a hole but for what is *)
(* left of the first term at its end.                                       *)

(* The position at which a term begins, and where claims end. *)
Start(u)       == u * TermLength
ClaimEnd(k)    == claims[k].off + claims[k].len
EndPosition(k) == ClaimPosition(k) + claims[k].len

(* How far the tail of the latest term has been moved, and past its end. *)
FrontOffset == rawTail[indexByTermCount(FrontTerm)].off
FrontFull   == FrontOffset > TermLength

Offsets == 0 .. TermLength - 1

(* A claim is a frame inside a term that has begun, in its partition. *)
Shape(k) ==
    /\ claims[k].id \in Nat /\ claims[k].id <= FrontTerm
    /\ claims[k].part = indexByTermCount(claims[k].id)
    /\ claims[k].len \in FrameLengths
    /\ ClaimEnd(k) <= TermLength

(* The next claim begins where this one ends, or with the next term. *)
Adjacent(k) ==
    \/ claims[k+1].id = claims[k].id /\ claims[k+1].off = ClaimEnd(k)
    \/ claims[k+1].id = claims[k].id + 1 /\ claims[k+1].off = 0

(* The last claim ends at the front unless a claim behind it did not fit. *)
LastClaim ==
    \/ claims = <<>> /\ FrontTerm = 0 /\ FrontOffset = 0
    \/ /\ claims # <<>> /\ claims[Len(claims)].id = FrontTerm
       /\ FrontFull \/ FrontOffset = ClaimEnd(Len(claims))
    \/ /\ claims # <<>> /\ claims[Len(claims)].id = FrontTerm - 1
       /\ FrontOffset = 0

Layout ==
    /\ \A k \in 1 .. Len(claims) : Shape(k)
    /\ claims # <<>> => claims[1].id = 0 /\ claims[1].off = 0
    /\ \A k \in 1 .. Len(claims) - 1 : Adjacent(k)
    /\ LastClaim
    /\ committed \subseteq 1 .. Len(claims)

(* Nothing is behind the second term, and only the first one is padded. *)
Pads == {"padHeader", "padType", "padLength"}
FirstTerms ==
    /\ FrontTerm <= 1
    /\ FrontTerm = 1 => FrontOffset <= TermLength
    /\ \A p \in Producers : ppc[p] \in Pads => loc[p].part = 0

HasLength(p) ==
    ppc[p] \in {"readClean", "clean", "casClean", "termCount", "rawTail",
                "claimCount", "fetchAdd"} => loc[p].len \in FrameLengths

(* A producer that writes a frame is the only owner of an uncommitted claim. *)
Writes == {"header", "put", "commitType", "commitLength"}
OwnsClaim(p) == ppc[p] \in Writes =>
    /\ loc[p].val \in 1 .. Len(claims) /\ loc[p].val \notin committed
    /\ loc[p].part = claims[loc[p].val].part /\ loc[p].off = claims[loc[p].val].off
    /\ loc[p].len = claims[loc[p].val].len
OwnersDiffer == \A p, q \in Producers :
    p # q /\ ppc[p] \in Writes /\ ppc[q] \in Writes => loc[p].val # loc[q].val


LayoutInv == Layout /\ FirstTerms /\ OwnersDiffer
    /\ \A p \in Producers : HasLength(p) /\ OwnsClaim(p)

(* Claim k is the last one of its term, and the term has words left.        *)
Gap(k) ==
    /\ ClaimEnd(k) < TermLength
    /\ k = Len(claims) => FrontFull \/ claims[k].id # FrontTerm
    /\ k # Len(claims) => claims[k + 1].id # claims[k].id

(* A producer that pads does so in the gap of the first term, alone.        *)
OwnsGap(p) == ppc[p] \in Pads =>
    \E k \in 1 .. Len(claims) : Gap(k) /\ loc[p].off = ClaimEnd(k)
OnePads == \A p, q \in Producers :
    ppc[p] \in Pads /\ ppc[q] \in Pads => p = q

(* No subscriber has passed the front or a claim that is not committed. *)
Behind == \A s \in Subscribers :
    /\ bytesConsumed[s] <= Front
    /\ \A k \in 1 .. Len(claims) : k \notin committed => bytesConsumed[s] <= ClaimPosition(k)

PlaceInv == Behind /\ OnePads /\ \A p \in Producers : OwnsGap(p)

(* The memory: what the words of claims and gaps hold.  In the first two    *)
(* terms the address of a word is its position in the log.                  *)

Uncommitted == \A k \in 1 .. Len(claims) : k \notin committed =>
    mem[ClaimPosition(k)] \in
        {Zero, Header("Empty", -claims[k].len), Header("Valid", -claims[k].len)}

GapLength(k) == TermLength - ClaimEnd(k)
GapWords(k)  == {Zero, Header("Empty", -GapLength(k)), Header("Padding", -GapLength(k)),
                 Header("Padding", GapLength(k))}
GapsKept == \A k \in 1 .. Len(claims) : Gap(k) /\ EndPosition(k) >= minBytesConsumed =>
    mem[EndPosition(k)] \in GapWords(k)

(* The words behind the front are zero. *)
FreeIsZero == \A x \in Addresses : x >= Front => mem[x] = Zero

(* What a producer has written of its frame or of its padding so far.  A    *)
(* consumer may have passed padding that is not finished, and its words may *)
(* have been cleaned then.                                                  *)
Frame(p) == ClaimAddress(p) .. ClaimAddress(p) + loc[p].len - 1
PayloadWritten(p) ==
    \A x \in Frame(p) : x # ClaimAddress(p) => mem[x] = Payload(loc[p].val)
Written(p) ==
    /\ ppc[p] = "header" => \A x \in Frame(p) : mem[x] = Zero
    /\ ppc[p] \in {"put", "commitType"} => mem[ClaimAddress(p)] = Header("Empty", -loc[p].len)
    /\ ppc[p] = "commitLength" => mem[ClaimAddress(p)] = Header("Valid", -loc[p].len)
    /\ ppc[p] \in {"commitType", "commitLength"} => PayloadWritten(p)
Padded(p) == minBytesConsumed <= loc[p].off =>
    /\ ppc[p] = "padHeader" => mem[loc[p].off] = Zero
    /\ ppc[p] = "padType" => mem[loc[p].off] = Header("Empty", -paddingLength(p))
    /\ ppc[p] = "padLength" => mem[loc[p].off] = Header("Padding", -paddingLength(p))

MemInv == UnreadIntact /\ Uncommitted /\ GapsKept /\ FreeIsZero
    /\ \A p \in Producers : Written(p) /\ Padded(p)

---------------------------------------------------------------------------
(* The geometry of the partitions. *)

\* Terms are not empty, and the window is half of one.
LEMMA TermLengthType == TermLength \in Nat /\ TermLength > 0 /\ Window \in Nat /\ Window < TermLength /\ Window + Window = TermLength
  BY JournalAssumption DEF Window

\* Positions at which terms begin, one term apart.
LEMMA StartType ==
    /\ Start(0) = 0
    /\ \A u \in Int : Start(u) \in Int /\ Start(u + 1) = Start(u) + TermLength
    /\ \A u \in Nat : Start(u) \in Nat
BY TermLengthType DEF Start

\* Terms begin in their order.
LEMMA StartOrder ==
    \A u, v \in Int : /\ u < v => Start(u) + TermLength <= Start(v)
                      /\ u <= v => Start(u) <= Start(v)
                      /\ Start(u) <= Start(v) => u <= v
                      /\ Start(u) < Start(v) + TermLength => u <= v
<1> SUFFICES ASSUME NEW u \in Int, NEW v \in Int
             PROVE  /\ u < v => Start(u) + TermLength <= Start(v)
                    /\ u <= v => Start(u) <= Start(v)
                    /\ Start(u) <= Start(v) => u <= v
                    /\ Start(u) < Start(v) + TermLength => u <= v
    OBVIOUS
<1>1. \A a, b \in Int : a < b => Start(a) + TermLength <= Start(b)
    <2> SUFFICES ASSUME NEW a \in Int, NEW b \in Int, a < b
                 PROVE  Start(a) + TermLength <= Start(b)
        OBVIOUS
    <2>1. PICK d \in Nat : b = (a + 1) + d
        <3>1. b - (a + 1) \in Nat /\ b = (a + 1) + (b - (a + 1))
            OBVIOUS
        <3> QED BY <3>1
    <2>2. d * TermLength \in Nat
        BY TermLengthType
    <2>3. ((a + 1) + d) * TermLength = a * TermLength + TermLength + d * TermLength
        BY TermLengthType
    <2>4. a * TermLength \in Int
        BY TermLengthType
    <2> QED BY <2>1, <2>2, <2>3, <2>4, TermLengthType DEF Start
<1>2. Start(u) \in Int /\ Start(v) \in Int
    BY StartType
<1> QED BY <1>1, <1>2, TermLengthType

\* A position inside a term gives the term's partition and the offset back, so
\* readers look where producers write.
LEMMA PositionParts ==
    ASSUME NEW u \in Nat, NEW o \in Offsets
    PROVE  /\ indexByPosition(Start(u) + o) = indexByTermCount(u)
           /\ (Start(u) + o) % TermLength = o
           /\ ReadAddress(Start(u) + o) = Address(indexByTermCount(u), o)
<1>1. (u * TermLength + o) \div TermLength = u /\ (u * TermLength + o) % TermLength = o
    BY TermLengthType DEF Offsets
<1> QED BY <1>1 DEF indexByPosition, indexByTermCount, Start, ReadAddress

\* The terms that the three partitions hold, counted from the latest one.
LEMMA PartitionTerms ==
    ASSUME ClaimInv
    PROVE  /\ rawTail[indexByTermCount(FrontTerm)].id = FrontTerm
           /\ rawTail[indexByTermCount(FrontTerm + 2)].id = FrontTerm - 1
           /\ rawTail[indexByTermCount(FrontTerm + 1)].id = FrontTerm - 2
<1> DEFINE c == activeTermCount
<1>1. c \in Nat /\ TermsInStep
    BY DEF ClaimInv, AppendTypeOK
<1>2. CASE MidRotation
    <2>1. FrontTerm = c + 1 /\ FrontTerm + 2 = c + 3 /\ FrontTerm + 1 = c + 2
        BY <1>1, <1>2 DEF FrontTerm
    <2>2. indexByTermCount(c + 3) = indexByTermCount(c)
        BY <1>1, IndexType
    <2> QED BY <1>1, <1>2, <2>1, <2>2 DEF TermsInStep, MidRotation
<1>3. CASE ~MidRotation
    <2>1. FrontTerm = c
        BY <1>3 DEF FrontTerm
    <2> QED BY <1>1, <1>3, <2>1 DEF TermsInStep, MidRotation
<1> QED BY <1>2, <1>3

\* The front is in the latest term, where its tail is or at its end.
LEMMA FrontIs == ClaimInv => 
           /\ FrontTerm \in Nat /\ FrontOffset \in Nat
           /\ Front = Start(FrontTerm) + minimum(FrontOffset, TermLength)
           /\ indexByTermCount(FrontTerm) \in Partitions
<1> SUFFICES ASSUME ClaimInv
             PROVE  /\ FrontTerm \in Nat /\ FrontOffset \in Nat
                    /\ Front = Start(FrontTerm) + minimum(FrontOffset, TermLength)
                    /\ indexByTermCount(FrontTerm) \in Partitions
    OBVIOUS
<1>1. AppendTypeOK /\ FrontTerm \in Nat /\ rawTail[indexByTermCount(FrontTerm)].id = FrontTerm
    BY FrontType DEF ClaimInv
<1>2. PICK t : t = FrontTerm
    OBVIOUS
<1>3. t \in Nat /\ rawTail[indexByTermCount(t)].id = t
    BY <1>1, <1>2
<1>4. TailPosition(t) = Start(t) + minimum(rawTail[indexByTermCount(t)].off, TermLength)
      /\ rawTail[indexByTermCount(t)].off \in Nat
    BY <1>1, <1>3, TailInTerm, TailType DEF Start, AppendTypeOK
<1> QED BY <1>1, <1>2, <1>3, <1>4, IndexType DEF Front, FrontOffset

\* The same after a step.
LEMMA FrontIsNext == ( ClaimInv => 
           /\ FrontTerm \in Nat /\ FrontOffset \in Nat
           /\ Front = Start(FrontTerm) + minimum(FrontOffset, TermLength)
           /\ indexByTermCount(FrontTerm) \in Partitions)'
BY FrontIs, PTL

\* The front is unchanged unless a tail changes.
LEMMA FrontKept ==
    ASSUME ClaimInv, NEW p \in Producers, Produce(p), rawTail' = rawTail
    PROVE  FrontTerm' = FrontTerm /\ FrontOffset' = FrontOffset /\ Front' = Front
<1> DEFINE c == activeTermCount
<1>1. AppendTypeOK /\ TermsInStep /\ ProducerInv(p)
    BY DEF ClaimInv
<1>2. p \in DOMAIN ppc /\ c \in Nat
    BY <1>1 DEF AppendTypeOK
<1>3. CASE activeTermCount' = c
    BY <1>3 DEF FrontTerm, MidRotation, FrontOffset, Front, TailPosition
<1>4. CASE activeTermCount' # c
    <2>0. CasActiveTermCount(p)
        BY <1>4 DEF Produce, ReadMinBytesConsumed, ReadCleanPosition, CleanTerm,
               CasCleanPosition, ReadActiveTermCount, ReadRawTail, ReadClaimTermCount,
               GetAndAddRawTail, HeaderWrite, PutBS, CommitFrameType, CommitFrameLength,
               NotifyReader, PaddingHeader, PaddingType, PaddingLength,
               RotateReadRawTail, CasRawTail, shared
    <2>1. ppc[p] = "casCount" /\ loc[p].count = c /\ activeTermCount' = c + 1
        BY <1>2, <1>4, <2>0 DEF CasActiveTermCount, Return, Goto
    <2>2. MidRotation
        BY <1>1, <2>1 DEF ProducerInv, RotatesOnce, MidRotation
    <2>3. ~MidRotation'
        <3>1. rawTail[indexByTermCount(c + 2)].id = c - 1 /\ c + 1 + 1 = c + 2
            BY <1>1, <1>2 DEF TermsInStep
        <3> QED BY <1>2, <2>1, <3>1 DEF MidRotation
    <2>4. FrontTerm' = c + 1 /\ FrontTerm = c + 1
        BY <2>1, <2>2, <2>3 DEF FrontTerm
    <2> QED BY <2>4 DEF Front, FrontOffset, TailPosition
<1> QED BY <1>3, <1>4

\* A frame has a header and a payload and fits into half a term.
LEMMA FrameLengthsType == \A n \in FrameLengths : n \in Nat /\ n >= 2 /\ n <= Window
BY JournalAssumption, TermLengthType DEF Window

\* As long as no frame leaves its term, a fetch-and-add finds its tail in the
\* first term, whose buffer ends where it does, or in the second one short of
\* its end, where a frame of half a term always fits.
LEMMA AddsInside ==
    ASSUME ClaimInv, LayoutInv, ClaimsInsideTerm', NEW p \in Producers, GetAndAddRawTail(p)
    PROVE  LET i == loc[p].part
               n == loc[p].len
               o == minimum(rawTail[i].off, TermLength)
           IN  /\ rawTailTermOffset(rawTail[i], capacity(i)) = o
               /\ o + n <= capacity(i) <=> o + n <= TermLength
               /\ o < capacity(i) <=> o < TermLength
<1> DEFINE i == loc[p].part
           n == loc[p].len
           rt == rawTail[i]
<1>1. /\ ppc[p] = "fetchAdd" /\ AppendTypeOK /\ ProducerInv(p) /\ HasLength(p) /\ FirstTerms
    BY DEF GetAndAddRawTail, Goto, ClaimInv, LayoutInv
<1>2. /\ p \in DOMAIN ppc /\ i \in Partitions /\ rt.off \in Nat /\ rt.id \in Int /\ rt.id >= 0
      /\ claims \in Seq(Claims)
    <2>1. loc[p] \in Locals /\ ppc \in [Producers -> ProducerLabels] /\ claims \in Seq(Claims)
        BY <1>1 DEF AppendTypeOK
    <2>2. i \in Partitions
        BY <2>1 DEF Locals
    <2>3. rt \in RawTails
        BY <1>1, <2>2 DEF AppendTypeOK
    <2> QED BY <1>1, <2>1, <2>2, <2>3 DEF RawTails, ProducerInv, ClaimsActive
<1>3. n \in Nat /\ n <= Window /\ n >= 2
    BY <1>1, FrameLengthsType DEF HasLength
<1>4. /\ TermLength \in Nat /\ TermLength > 0 /\ Window \in Nat /\ Window + Window = TermLength
      /\ Window < TermLength
    BY TermLengthType
<1>5. FrontTerm \in Nat /\ FrontOffset \in Nat
    BY FrontIs
<1>6. i = 0 \/ (i = 1 /\ FrontTerm = 1 /\ FrontOffset = rt.off)
    <2>1. FrontTerm = 0 \/ FrontTerm = 1
        BY <1>1, <1>5 DEF FirstTerms
    <2>2. i = 0 \/ i = 1 \/ i = 2
        BY <1>2 DEF Partitions, PARTITION_COUNT
    <2>3. 0 % 3 = 0 /\ 1 % 3 = 1 /\ 2 % 3 = 2 /\ 3 % 3 = 0
        OBVIOUS
    <2>4. CASE FrontTerm = 0
        <3>1. rawTail[2].id = -1 /\ rawTail[1].id = -2
            BY <2>3, <2>4, PartitionTerms DEF indexByTermCount, PARTITION_COUNT
        <3> QED BY <1>2, <2>2, <3>1
    <2>5. CASE FrontTerm = 1
        <3>1. rawTail[2].id = -1
            BY <2>3, <2>5, PartitionTerms DEF indexByTermCount, PARTITION_COUNT
        <3>2. FrontOffset = rawTail[1].off
            BY <2>3, <2>5 DEF FrontOffset, indexByTermCount, PARTITION_COUNT
        <3> QED BY <1>2, <2>2, <2>5, <3>1, <3>2
    <2> QED BY <2>1, <2>4, <2>5
<1>7. CASE i = 0
    <2>1. capacity(i) = TermLength
        BY <1>4, <1>7 DEF capacity
    <2> QED BY <2>1 DEF rawTailTermOffset
<1>8. CASE i = 1 /\ FrontTerm = 1 /\ FrontOffset = rt.off
    <2>1. capacity(i) = TermLength + TermLength /\ rt.off <= TermLength
        BY <1>1, <1>4, <1>8 DEF capacity, FirstTerms
    <2>2. /\ minimum(rt.off, TermLength) = rt.off /\ rawTailTermOffset(rt, capacity(i)) = rt.off
          /\ rt.off + n <= capacity(i)
        BY <1>2, <1>3, <1>4, <2>1 DEF minimum, rawTailTermOffset
    <2>3. claims' = Append(claims, [id |-> rt.id, part |-> i, off |-> rt.off, len |-> n])
        BY <1>2, <2>2 DEF GetAndAddRawTail
    <2>4. Len(claims) + 1 \in 1 .. Len(claims') /\ claims'[Len(claims) + 1].off = rt.off
          /\ claims'[Len(claims) + 1].len = n
        BY <1>2, <2>3
    <2>5. rt.off + n <= TermLength
        BY <2>4 DEF ClaimsInsideTerm
    <2>6. rt.off < TermLength
        BY <1>2, <1>3, <1>4, <2>5
    <2> QED BY <1>2, <1>4, <2>1, <2>2, <2>5, <2>6
<1> QED BY <1>6, <1>7, <1>8

\* What a fetch-and-add does.
LEMMA AddFacts ==
    ASSUME ClaimInv, LayoutInv, ClaimsInsideTerm', NEW p \in Producers, GetAndAddRawTail(p)
    PROVE  LET n == loc[p].len
               f == indexByTermCount(FrontTerm)
           IN  /\ ppc[p] = "fetchAdd" /\ n \in Nat /\ n > 0
               /\ UNCHANGED <<activeTermCount, cleanPosition, mem, notified, bytesConsumed, committed>>
               /\ FrontTerm' = FrontTerm
               /\ \A j \in Partitions : rawTail'[j].id = rawTail[j].id
               /\ \/ /\ ppc'[p] = "header" /\ FrontOffset + n <= TermLength
                     /\ FrontOffset' = FrontOffset + n
                     /\ claims' = Append(claims, [id |-> FrontTerm, part |-> f,
                                                  off |-> FrontOffset, len |-> n])
                     /\ loc'[p].len = n /\ loc'[p].part = f /\ loc'[p].off = FrontOffset
                     /\ loc'[p].val = Len(claims')
                  \/ /\ ppc'[p] = "padHeader" /\ FrontOffset < TermLength
                     /\ FrontOffset + n > TermLength /\ FrontOffset' = FrontOffset + n
                     /\ claims' = claims /\ loc'[p].part = f /\ loc'[p].off = FrontOffset
                  \/ /\ ppc'[p] = "rotate" /\ claims' = claims
                     /\ \/ FrontOffset' = FrontOffset
                        \/ FrontOffset >= TermLength /\ FrontOffset' = FrontOffset + n
<1> DEFINE i  == loc[p].part
           n  == loc[p].len
           rt == rawTail[i]
           o  == minimum(rt.off, TermLength)
           f  == indexByTermCount(FrontTerm)
<1>1. /\ AppendTypeOK /\ ProducerInv(p) /\ TermsInStep /\ OldTermsFull
    BY DEF ClaimInv
<1>2. /\ p \in DOMAIN ppc /\ p \in DOMAIN loc /\ loc[p] \in Locals /\ i \in Partitions /\ n \in Nat
      /\ activeTermCount \in Nat /\ rawTail \in [Partitions -> RawTails]
    BY <1>1 DEF AppendTypeOK, Locals
<1>3. /\ ppc[p] = "fetchAdd" /\ rawTail' = [rawTail EXCEPT ![i].off = @ + n]
      /\ UNCHANGED <<activeTermCount, cleanPosition, mem, notified, bytesConsumed, committed>>
    BY DEF GetAndAddRawTail, Goto
<1>4. n > 0 /\ rt.id >= 0 /\ rt.id \in Int /\ rt.off \in Nat
    <2>1. rt \in RawTails
        BY <1>2
    <2> QED BY <1>1, <1>3, <2>1 DEF ProducerInv, HasFrame, ClaimsActive, RawTails
<1>5. /\ TermLength \in Nat /\ rawTailTermOffset(rt, capacity(i)) = o
      /\ o + n <= capacity(i) <=> o + n <= TermLength
      /\ o < capacity(i) <=> o < TermLength
    BY TermLengthType, AddsInside
<1>6. \A j \in Partitions : /\ rawTail'[j].id = rawTail[j].id
                            /\ rawTail[j].off \in Nat
                            /\ rawTail'[j].off = IF j = i THEN rawTail[j].off + n ELSE rawTail[j].off
    BY <1>2, <1>3 DEF RawTails
<1>7. FrontTerm' = FrontTerm
    <2>1. indexByTermCount(activeTermCount + 1) \in Partitions
        BY <1>2, IndexType
    <2> QED BY <1>3, <1>6, <2>1 DEF FrontTerm, MidRotation
<1>8. FrontTerm \in Nat /\ f \in Partitions /\ FrontOffset = rawTail[f].off
      /\ FrontOffset' = rawTail'[f].off
    BY <1>7, FrontIs DEF FrontOffset
<1>9. rt.off <= TermLength => i = f /\ rt.id = FrontTerm /\ o = FrontOffset
    <2> SUFFICES ASSUME rt.off <= TermLength PROVE i = f /\ rt.id = FrontTerm /\ o = FrontOffset
        OBVIOUS
    <2>1. ~Full(i)
        BY <1>2, <1>4, <1>5, CapacityHoldsTerm, CapacityType DEF Full
    <2>2. ~(rawTail[i].id < rawTail[f].id)
        BY <1>1, <1>2, <1>4, <1>8, <2>1 DEF OldTermsFull
    <2>3. i \in {f, indexByTermCount(FrontTerm + 1), indexByTermCount(FrontTerm + 2)}
        BY <1>2, <1>8, IndexType
    <2>4. i = f
        BY <2>2, <2>3, <1>8, PartitionTerms
    <2>5. o = rt.off
        BY <1>4, <1>5 DEF minimum
    <2> QED BY <2>4, <2>5, <1>8, PartitionTerms
<1>10. rt.off > TermLength => o = TermLength
    BY <1>4, <1>5 DEF minimum
<1>12. CASE o + n <= TermLength
    <2>1. rt.off <= TermLength
        BY <1>2, <1>4, <1>5, <1>10, <1>12
    <2>2. i = f /\ rt.id = FrontTerm /\ o = FrontOffset
        BY <1>9, <2>1
    <2>3. FrontOffset' = FrontOffset + n
        BY <1>6, <1>8, <2>2
    <2> DEFINE l == [NoLocals EXCEPT !.len = n, !.part = i, !.off = o, !.val = Len(claims')]
    <2>4. /\ ppc'[p] = "header" /\ loc'[p] = l
          /\ claims' = Append(claims, [id |-> rt.id, part |-> i, off |-> o, len |-> n])
        BY <1>2, <1>5, <1>12 DEF GetAndAddRawTail, Goto
    <2>5. l.len = n /\ l.part = i /\ l.off = o /\ l.val = Len(claims')
        BY DEF NoLocals
    <2> HIDE DEF l, o
    <2> QED BY <1>3, <1>2, <1>4, <1>6, <1>7, <1>12, <2>2, <2>3, <2>4, <2>5 DEF computePosition, Start
<1>13. CASE ~(o + n <= TermLength)
    <2> DEFINE m == [loc[p] EXCEPT !.len = 0, !.off = o]
    <2>1. /\ ppc'[p] = IF o < TermLength THEN "padHeader" ELSE "rotate"
          /\ loc'[p] = m /\ claims' = claims
        BY <1>2, <1>5, <1>13 DEF GetAndAddRawTail, Goto
    <2>2. m.part = i /\ m.off = o
        BY <1>2 DEF Locals
    <2> HIDE DEF m
    <2>3. CASE o < TermLength
        <3>1. rt.off <= TermLength
            BY <1>4, <1>5, <1>10, <2>3
        <3>2. i = f /\ rt.id = FrontTerm /\ o = FrontOffset
            BY <1>9, <3>1
        <3>3. FrontOffset' = FrontOffset + n
            BY <1>6, <1>8, <3>2
        <3>4. FrontOffset + n > TermLength /\ FrontOffset \in Nat
            BY <1>2, <1>4, <1>5, <1>8, <1>13, <3>2, FrontIs
        <3> HIDE DEF o
        <3> QED BY <1>3, <1>2, <1>4, <1>6, <1>7, <2>1, <2>2, <2>3, <3>2, <3>3, <3>4
                DEF computePosition, Start
    <2>4. CASE ~(o < TermLength)
        <3>1. FrontOffset' = FrontOffset \/ (FrontOffset >= TermLength /\ FrontOffset' = FrontOffset + n)
            <4>1. CASE i = f
                <5>1. rt.off >= TermLength
                    BY <1>4, <1>5, <2>4 DEF minimum
                <5> QED BY <4>1, <5>1, <1>6, <1>8
            <4>2. CASE i # f
                BY <4>2, <1>6, <1>8
            <4> QED BY <4>1, <4>2
        <3> HIDE DEF o
        <3> QED BY <1>3, <1>2, <1>4, <1>6, <1>7, <2>1, <2>4, <3>1
    <2> QED BY <2>3, <2>4
<1> QED BY <1>12, <1>13

\* What the compare-and-swap of a tail does.
LEMMA RotateFacts ==
    ASSUME ClaimInv, NEW p \in Producers, CasRawTail(p)
    PROVE  /\ ppc[p] = "casTail" /\ ppc'[p] \in {"casCount", "rotate"}
           /\ UNCHANGED <<activeTermCount, cleanPosition, mem, notified, bytesConsumed, loc, history>>
           /\ \/ rawTail' = rawTail
              \/ /\ FrontFull /\ FrontTerm' = FrontTerm + 1 /\ FrontOffset' = 0
                 /\ \A j \in Partitions : j # indexByTermCount(FrontTerm + 1) => rawTail'[j] = rawTail[j]
                 /\ rawTail[indexByTermCount(FrontTerm + 1)].id = FrontTerm - 2
                 /\ rawTail'[indexByTermCount(FrontTerm + 1)].id = FrontTerm + 1
<1> DEFINE i == nextIndex(p)
           c == activeTermCount
<1>1. AppendTypeOK /\ TermsInStep /\ ProducerInv(p)
    BY DEF ClaimInv
<1>2. /\ p \in DOMAIN ppc /\ loc[p] \in Locals /\ loc[p].count \in Nat /\ loc[p].id \in Int
      /\ c \in Nat /\ rawTail \in [Partitions -> RawTails]
    BY <1>1 DEF AppendTypeOK, Locals
<1>3. /\ ppc[p] = "casTail" /\ ppc'[p] \in {"casCount", "rotate"}
      /\ UNCHANGED <<activeTermCount, cleanPosition, mem, notified, bytesConsumed, loc, history>>
    BY <1>2 DEF CasRawTail, Goto
<1>8. CASE rawTail' = rawTail
    BY <1>3, <1>8
<1>9. CASE /\ rawTail[i] = loc[p].tail
           /\ rawTail' = [rawTail EXCEPT ![i] = [id |-> loc[p].id + 1, off |-> 0]]
    <2>1. /\ loc[p].count = loc[p].id /\ loc[p].count <= c
          /\ rawTail[i].id = loc[p].count - 2
        BY <1>1, <1>2, <1>3, <1>9
        DEF ProducerInv, KnowsTerm, RotatesOnce, PastCheck, PastEnd, PARTITION_COUNT
    <2>2. i \in Partitions /\ \A j \in Partitions : rawTail[j].id >= c - 2
        <3>1. \A j \in Partitions : j \in {indexByTermCount(c), indexByTermCount(c + 1),
                                           indexByTermCount(c + 2)}
            BY <1>2, IndexType
        <3>2. rawTail[indexByTermCount(c)].id = c /\ rawTail[indexByTermCount(c + 2)].id = c - 1
              /\ rawTail[indexByTermCount(c + 1)].id \in {c - 2, c + 1}
            BY <1>1 DEF TermsInStep
        <3>3. i \in Partitions
            BY <1>2, IndexType DEF nextIndex
        <3> QED BY <1>2, <3>1, <3>2, <3>3
    <2>3. loc[p].count = c /\ i = indexByTermCount(c + 1) /\ rawTail[i].id = c - 2
        BY <1>2, <2>1, <2>2 DEF nextIndex
    <2>4. FrontTerm = c
        BY <1>2, <2>3 DEF MidRotation, FrontTerm
    <2>5. /\ rawTail'[indexByTermCount(c + 1)] = [id |-> c + 1, off |-> 0]
          /\ \A j \in Partitions : j # indexByTermCount(c + 1) => rawTail'[j] = rawTail[j]
        BY <1>2, <1>9, <2>1, <2>2, <2>3
    <2>6. FrontTerm' = c + 1
        BY <1>3, <2>5 DEF MidRotation, FrontTerm
    <2>7. FrontOffset' = 0
        BY <2>5, <2>6 DEF FrontOffset
    <2>8. FrontFull
        <3>1. Full(indexByTermCount(c))
            BY <1>1, <1>3, <2>3 DEF ProducerInv, RotatesFull, PastEnd
        <3>2. /\ indexByTermCount(c) \in Partitions /\ rawTail[indexByTermCount(c)].off \in Nat
              /\ capacity(indexByTermCount(c)) >= TermLength
              /\ capacity(indexByTermCount(c)) \in Nat /\ TermLength \in Nat
            BY <1>2, IndexType, TailType, CapacityHoldsTerm, CapacityType, TermLengthType
        <3> QED BY <2>4, <3>1, <3>2 DEF FrontFull, FrontOffset, Full
    <2> QED BY <1>3, <2>3, <2>4, <2>5, <2>6, <2>7, <2>8
<1> QED BY <1>8, <1>9 DEF CasRawTail

---------------------------------------------------------------------------
(* What the steps of the producers change, and the layout of the claims. *)

\* What each step of a producer leaves alone.
LEMMA ProduceVars ==
    ASSUME NEW p \in Producers, Produce(p)
    PROVE  /\ bytesConsumed' = bytesConsumed
           /\ claims' # claims => GetAndAddRawTail(p)
           /\ rawTail' # rawTail => GetAndAddRawTail(p) \/ CasRawTail(p)
           /\ committed' # committed => CommitFrameLength(p)
           /\ cleanPosition' # cleanPosition => CasCleanPosition(p)
           /\ mem' # mem => \/ CleanTerm(p) \/ HeaderWrite(p) \/ PutBS(p) \/ CommitFrameType(p)
                            \/ CommitFrameLength(p) \/ PaddingHeader(p) \/ PaddingType(p)
                            \/ PaddingLength(p)
<1> USE DEF ReadMinBytesConsumed, ReadCleanPosition, CleanTerm,
               CasCleanPosition, ReadActiveTermCount, ReadRawTail, ReadClaimTermCount,
               GetAndAddRawTail, HeaderWrite, PutBS, CommitFrameType, CommitFrameLength,
               NotifyReader, PaddingHeader, PaddingType, PaddingLength,
               RotateReadRawTail, CasRawTail, CasActiveTermCount, shared, history
<1>1. bytesConsumed' = bytesConsumed
    BY DEF Produce
<1>2. claims' # claims => GetAndAddRawTail(p)
    BY DEF Produce
<1>3. rawTail' # rawTail => GetAndAddRawTail(p) \/ CasRawTail(p)
    BY DEF Produce
<1>4. committed' # committed => CommitFrameLength(p)
    BY DEF Produce
<1>5. cleanPosition' # cleanPosition => CasCleanPosition(p)
    BY DEF Produce
<1>6. mem' # mem => \/ CleanTerm(p) \/ HeaderWrite(p) \/ PutBS(p) \/ CommitFrameType(p)
                            \/ CommitFrameLength(p) \/ PaddingHeader(p) \/ PaddingType(p)
                            \/ PaddingLength(p)
    BY DEF Produce
<1> QED BY <1>1, <1>2, <1>3, <1>4, <1>5, <1>6

\* Where the labels of writers and padders come from.
LEMMA ProduceLabels ==
    ASSUME AppendTypeOK, NEW p \in Producers, Produce(p)
    PROVE  /\ ppc'[p] \in Writes => \/ GetAndAddRawTail(p)
                                    \/ /\ HeaderWrite(p) \/ PutBS(p) \/ CommitFrameType(p)
                                       /\ ppc[p] \in Writes /\ loc'[p] = loc[p]
           /\ ppc'[p] \in Pads => \/ GetAndAddRawTail(p)
                                  \/ /\ PaddingHeader(p) \/ PaddingType(p)
                                     /\ ppc[p] \in Pads /\ loc'[p] = loc[p]
           /\ ppc'[p] \in {"clean", "casClean"} =>
                 ReadCleanPosition(p) \/ (CleanTerm(p) /\ ppc[p] = "clean" /\ loc'[p] = loc[p])
           /\ CommitFrameLength(p) => ppc[p] \in Writes
<1>1. p \in DOMAIN ppc /\ p \in DOMAIN loc
    BY DEF AppendTypeOK
<1> USE <1>1 DEF Goto, Return, Writes, Pads
<1>2. CASE GetAndAddRawTail(p)
    <2>1. ppc'[p] \in {"header", "padHeader", "rotate"} /\ ppc[p] = "fetchAdd"
        BY <1>2 DEF GetAndAddRawTail
    <2> QED BY <1>2, <2>1 DEF CommitFrameLength
<1>3. CASE HeaderWrite(p) \/ PutBS(p) \/ CommitFrameType(p)
    BY <1>3 DEF HeaderWrite, PutBS, CommitFrameType, CommitFrameLength
<1>4. CASE PaddingHeader(p) \/ PaddingType(p)
    BY <1>4 DEF PaddingHeader, PaddingType, CommitFrameLength
<1>5. CASE ReadCleanPosition(p) \/ CleanTerm(p)
    BY <1>5 DEF ReadCleanPosition, CleanTerm, CommitFrameLength
<1>6. CASE CommitFrameLength(p)
    BY <1>6 DEF CommitFrameLength
<1>7. CASE \/ ReadMinBytesConsumed(p) \/ CasCleanPosition(p) \/ ReadActiveTermCount(p)
           \/ ReadRawTail(p) \/ ReadClaimTermCount(p) \/ NotifyReader(p) \/ PaddingLength(p)
           \/ RotateReadRawTail(p) \/ CasRawTail(p) \/ CasActiveTermCount(p)
    <2>1. ppc'[p] \in {"readClean", "termCount", "rawTail", "claimCount", "fetchAdd", "rotate",
                       "idle", "casTail", "casCount"}
        BY <1>7 DEF ReadMinBytesConsumed, CasCleanPosition, ReadActiveTermCount,
           ReadRawTail, ReadClaimTermCount, NotifyReader, PaddingLength,
           RotateReadRawTail, CasRawTail, CasActiveTermCount
    <2>2. ppc[p] # "commitLength"
        BY <1>7 DEF ReadMinBytesConsumed, CasCleanPosition, ReadActiveTermCount,
           ReadRawTail, ReadClaimTermCount, NotifyReader, PaddingLength,
           RotateReadRawTail, CasRawTail, CasActiveTermCount
    <2> QED BY <2>1, <2>2 DEF CommitFrameLength
<1> QED BY <1>2, <1>3, <1>4, <1>5, <1>6, <1>7 DEF Produce

\* A call keeps its frame until it has claimed a place for it.
LEMMA LengthStep ==
    ASSUME AppendTypeOK, NEW p \in Producers, Produce(p), HasLength(p)
    PROVE  HasLength(p)'
<1>1. p \in DOMAIN ppc /\ p \in DOMAIN loc /\ loc[p] \in Locals
    BY DEF AppendTypeOK
<1> USE <1>1 DEF Goto, Return, HasLength
<1>2. CASE ReadMinBytesConsumed(p)
    <2>1. PICK n \in FrameLengths :
            loc'[p] = [NoLocals EXCEPT !.len = n, !.min = minBytesConsumed]
        BY <1>2 DEF ReadMinBytesConsumed
    <2> QED BY <2>1 DEF NoLocals
<1>3. CASE ReadCleanPosition(p) \/ CleanTerm(p) \/ CasCleanPosition(p)
    <2>1. ppc[p] \in {"readClean", "clean", "casClean"} /\ loc'[p].len = loc[p].len
        BY <1>3 DEF ReadCleanPosition, CleanTerm, CasCleanPosition, Locals
    <2> QED BY <2>1
<1>4. CASE ReadActiveTermCount(p) \/ ReadClaimTermCount(p)
    <2>1. ppc[p] \in {"termCount", "claimCount"} /\ loc'[p].len = loc[p].len
        BY <1>4 DEF ReadActiveTermCount, ReadClaimTermCount, Locals
    <2> QED BY <2>1
<1>5. CASE ReadRawTail(p)
    <2>1. CASE Return(p, "rawTail")
        BY <2>1
    <2>2. CASE /\ ppc[p] = "rawTail"
               /\ loc'[p] = [NoLocals EXCEPT !.len = loc[p].len, !.count = loc[p].count,
                                   !.id = rawTail[indexByTermCount(loc[p].count)].id]
        BY <2>2 DEF NoLocals
    <2> QED BY <1>5, <2>1, <2>2 DEF ReadRawTail
<1>6. CASE \/ GetAndAddRawTail(p) \/ HeaderWrite(p) \/ PutBS(p) \/ CommitFrameType(p)
           \/ CommitFrameLength(p) \/ NotifyReader(p) \/ PaddingHeader(p) \/ PaddingType(p)
           \/ PaddingLength(p) \/ RotateReadRawTail(p) \/ CasRawTail(p) \/ CasActiveTermCount(p)
    <2>1. ppc'[p] \notin {"readClean", "clean", "casClean", "termCount", "rawTail",
                "claimCount", "fetchAdd"}
        BY <1>6 DEF GetAndAddRawTail, HeaderWrite, PutBS, CommitFrameType,
           CommitFrameLength, NotifyReader, PaddingHeader, PaddingType,
           PaddingLength, RotateReadRawTail, CasRawTail, CasActiveTermCount
    <2> QED BY <2>1
<1> QED BY <1>2, <1>3, <1>4, <1>5, <1>6 DEF Produce

\* The layout depends on the claims and on the front only.
LEMMA LayoutSame ==
    ASSUME ClaimInv, Layout, claims' = claims, committed' \subseteq 1 .. Len(claims),
           FrontTerm' = FrontTerm,
           \/ FrontOffset' = FrontOffset
           \/ FrontOffset > 0 /\ FrontOffset' > TermLength
    PROVE  Layout'
<1>1. FrontOffset \in Nat /\ TermLength \in Nat
    BY FrontIs, TermLengthType
<1>2. \A k \in 1 .. Len(claims) : Shape(k)'
    BY DEF Layout, Shape, ClaimEnd
<1>3. (claims # <<>> => claims[1].id = 0 /\ claims[1].off = 0)'
    BY DEF Layout
<1>4. \A k \in 1 .. Len(claims) - 1 : Adjacent(k)'
    BY DEF Layout, Adjacent, ClaimEnd
<1>5. LastClaim'
    <2>1. LastClaim
        BY DEF Layout
    <2>2. CASE FrontOffset' = FrontOffset
        BY <2>1, <2>2 DEF LastClaim, FrontFull, ClaimEnd
    <2>3. CASE FrontOffset > 0 /\ FrontOffset' > TermLength
        BY <1>1, <2>1, <2>3 DEF LastClaim, FrontFull, ClaimEnd
    <2> QED BY <2>2, <2>3
<1> QED BY <1>2, <1>3, <1>4, <1>5 DEF Layout

\* A rotation keeps the layout: the term it leaves is full.
LEMMA LayoutRotate ==
    ASSUME ClaimInv, Layout, claims' = claims, committed' = committed,
           FrontFull, FrontTerm' = FrontTerm + 1, FrontOffset' = 0
    PROVE  Layout'
<1>1. FrontOffset \in Nat /\ FrontTerm \in Nat /\ TermLength \in Nat
    BY FrontIs, TermLengthType
<1>2. \A k \in 1 .. Len(claims) : Shape(k)'
    BY <1>1 DEF Layout, Shape, ClaimEnd
<1>3. (claims # <<>> => claims[1].id = 0 /\ claims[1].off = 0)'
    BY DEF Layout
<1>4. \A k \in 1 .. Len(claims) - 1 : Adjacent(k)'
    BY DEF Layout, Adjacent, ClaimEnd
<1>5. LastClaim'
    <2>1. LastClaim
        BY DEF Layout
    <2>2. claims # <<>> /\ claims[Len(claims)].id = FrontTerm
        BY <1>1, <2>1 DEF LastClaim, FrontFull
    <2> QED BY <2>2, <1>1 DEF LastClaim
<1> QED BY <1>2, <1>3, <1>4, <1>5 DEF Layout

\* A claim keeps the layout: it begins at the front.
LEMMA LayoutAdd ==
    ASSUME ClaimInv, Layout, committed' = committed, NEW n \in FrameLengths,
           claims' = Append(claims, [id |-> FrontTerm, part |-> indexByTermCount(FrontTerm),
                                     off |-> FrontOffset, len |-> n]),
           FrontTerm' = FrontTerm, FrontOffset + n <= TermLength, FrontOffset' = FrontOffset + n
    PROVE  Layout'
<1> DEFINE L == Len(claims)
<1>1. /\ FrontOffset \in Nat /\ FrontTerm \in Nat /\ TermLength \in Nat /\ n \in Nat /\ n >= 2
    BY FrontIs, TermLengthType, FrameLengthsType
<1>2. PICK c : c = [id |-> FrontTerm, part |-> indexByTermCount(FrontTerm),
                    off |-> FrontOffset, len |-> n]
    OBVIOUS
<1>3. /\ c.id = FrontTerm /\ c.part = indexByTermCount(FrontTerm) /\ c.off = FrontOffset /\ c.len = n
    BY <1>2
<1>4. /\ claims \in Seq(Claims) /\ L \in Nat
    BY DEF ClaimInv, AppendTypeOK
<1>5. /\ Len(claims') = L + 1 /\ claims'[L + 1] = c
      /\ \A k \in 1 .. L : claims'[k] = claims[k]
    BY <1>2, <1>4
<1>6. LastClaim
    BY DEF Layout
<1>7. \A k \in 1 .. L + 1 : Shape(k)'
    <2> SUFFICES ASSUME NEW k \in 1 .. L + 1 PROVE Shape(k)'
        OBVIOUS
    <2>1. CASE k \in 1 .. L
        BY <1>5, <2>1 DEF Layout, Shape, ClaimEnd
    <2>2. CASE k = L + 1
        BY <1>1, <1>3, <1>5, <2>2 DEF Shape, ClaimEnd
    <2> QED BY <2>1, <2>2, <1>4
<1>8. claims'[1].id = 0 /\ claims'[1].off = 0
    <2>1. CASE L = 0
        <3>1. FrontTerm = 0 /\ FrontOffset = 0
            BY <2>1, <1>4, <1>6 DEF LastClaim
        <3> QED BY <3>1, <2>1, <1>3, <1>5
    <2>2. CASE L > 0
        <3>1. claims # <<>> /\ 1 \in 1 .. L
            BY <2>2, <1>4
        <3> QED BY <3>1, <1>5 DEF Layout
    <2> QED BY <2>1, <2>2, <1>4
<1>9. \A k \in 1 .. L : Adjacent(k)'
    <2> SUFFICES ASSUME NEW k \in 1 .. L PROVE Adjacent(k)'
        OBVIOUS
    <2>1. CASE k \in 1 .. L - 1
        <3>1. k \in 1 .. L /\ k + 1 \in 1 .. L
            BY <1>4, <2>1
        <3>2. Adjacent(k)
            BY <2>1 DEF Layout
        <3> QED BY <1>5, <3>1, <3>2 DEF Adjacent, ClaimEnd
    <2>2. CASE k = L
        <3>1. /\ claims # <<>> /\ claims'[k] = claims[k] /\ claims'[k + 1] = c /\ ~FrontFull
            BY <1>1, <1>4, <1>5, <2>2 DEF FrontFull
        <3>2. \/ claims[k].id = FrontTerm /\ FrontOffset = ClaimEnd(k)
              \/ claims[k].id = FrontTerm - 1 /\ FrontOffset = 0
            BY <1>6, <2>2, <3>1 DEF LastClaim
        <3>3. ClaimEnd(k)' = ClaimEnd(k)
            BY <3>1 DEF ClaimEnd
        <3> QED BY <1>1, <1>3, <3>1, <3>2, <3>3 DEF Adjacent
    <2> QED BY <2>1, <2>2, <1>4
<1>10. LastClaim'
    BY <1>1, <1>3, <1>4, <1>5 DEF LastClaim, ClaimEnd
<1>11. committed' \subseteq 1 .. L + 1
    BY <1>4 DEF Layout
<1> QED BY <1>4, <1>5, <1>7, <1>8, <1>9, <1>10, <1>11 DEF Layout

\* Initially nothing is claimed.
LEMMA LayoutInitial == AppendInit => LayoutInv
<1> SUFFICES ASSUME AppendInit PROVE LayoutInv
    OBVIOUS
<1>1. FrontTerm = 0 /\ FrontOffset = 0
    BY DEF AppendInit, MidRotation, FrontTerm, FrontOffset, indexByTermCount, Partitions, PARTITION_COUNT
<1>2. claims = <<>> /\ committed = {} /\ \A p \in Producers : ppc[p] = "idle"
    BY DEF AppendInit
<1> QED BY <1>1, <1>2 DEF LayoutInv, Layout, FirstTerms, LastClaim, OwnersDiffer, HasLength, OwnsClaim, Writes, Pads

\* Claims are never taken back.
LEMMA ClaimsGrow ==
    ASSUME ClaimInv, NEW p \in Producers, Produce(p)
    PROVE  /\ claims' \in Seq(Claims) /\ Len(claims) \in Nat /\ Len(claims') \in Nat
           /\ Len(claims) <= Len(claims')
           /\ \A k \in 1 .. Len(claims) : k \in 1 .. Len(claims') /\ claims'[k] = claims[k]
<1>1. claims \in Seq(Claims)
    BY DEF ClaimInv, AppendTypeOK
<1>2. CASE claims' = claims
    BY <1>1, <1>2
<1>3. CASE claims' # claims
    <2>1. GetAndAddRawTail(p)
        BY <1>3, ProduceVars
    <2>2. PICK c : claims' = Append(claims, c)
        BY <1>3, <2>1 DEF GetAndAddRawTail
    <2>3. claims' \in Seq(Claims)
        BY ClaimInvProduce DEF ClaimInv, AppendTypeOK
    <2> QED BY <1>1, <2>2, <2>3
<1> QED BY <1>2, <1>3

\* The log does not get past its second term.
LEMMA FirstTermsStep ==
    ASSUME ClaimInv, LayoutInv, ClaimsInsideTerm', NEW p \in Producers, Produce(p)
    PROVE  FirstTerms'
<1>1. AppendTypeOK /\ FirstTerms /\ TermLength \in Nat /\ FrontTerm \in Nat /\ FrontOffset \in Nat
    BY FrontIs, TermLengthType DEF ClaimInv, LayoutInv
<1>2. \A q \in Producers \ {p} : ppc'[q] = ppc[q] /\ loc'[q] = loc[q]
    BY <1>1, OneProducer
<1>3. CASE GetAndAddRawTail(p)
    <2> DEFINE n == loc[p].len
    <2>1. ppc[p] = "fetchAdd" /\ FrontTerm' = FrontTerm /\ n \in Nat /\ n > 0
        BY <1>3, AddFacts
    <2>2. FrontTerm = 1 => FrontOffset' <= TermLength /\ ppc'[p] \notin Pads
        <3> SUFFICES ASSUME FrontTerm = 1 PROVE FrontOffset' <= TermLength /\ ppc'[p] \notin Pads
            OBVIOUS
        <3>1. PICK i : i = loc[p].part
            OBVIOUS
        <3>2. i \in Partitions /\ rawTail[i].off \in Nat /\ FrontOffset <= TermLength
            <4>1. i \in Partitions
                BY <1>1, <3>1 DEF AppendTypeOK, Locals
            <4>2. rawTail[i] \in RawTails
                BY <1>1, <4>1 DEF AppendTypeOK
            <4> QED BY <1>1, <4>1, <4>2 DEF RawTails, FirstTerms
        <3>3. n \in FrameLengths /\ n <= Window
            BY <2>1, FrameLengthsType DEF LayoutInv, HasLength
        <3>4. 1 % 3 = 1 /\ FrontOffset = rawTail[1].off
            BY DEF FrontOffset, indexByTermCount, PARTITION_COUNT
        <3>5. CASE i = 1
            <4>1. ppc'[p] = "header"
                <5>1. capacity(1) = TermLength + TermLength
                    BY <1>1 DEF capacity
                <5>2. rawTailTermOffset(rawTail[1], capacity(1)) = FrontOffset
                    BY <1>1, <3>2, <3>4, <5>1 DEF rawTailTermOffset, minimum
                <5>3. FrontOffset + n <= capacity(1)
                    BY <1>1, <2>1, <3>2, <3>3, <5>1, TermLengthType
                <5> QED BY <1>1, <1>3, <3>1, <3>5, <5>2, <5>3 DEF GetAndAddRawTail, Goto, AppendTypeOK
            <4>2. FrontOffset' = FrontOffset + n /\ FrontOffset + n <= TermLength
                BY <1>3, <4>1, AddFacts
            <4> QED BY <4>1, <4>2 DEF Pads
        <3>6. CASE i # 1
            <4>1. rawTail'[1] = rawTail[1]
                <5>1. rawTail' = [rawTail EXCEPT ![i].off = @ + n] /\ 1 \in Partitions
                    BY <1>3, <3>1 DEF GetAndAddRawTail, Partitions, PARTITION_COUNT
                <5> QED BY <1>1, <3>6, <5>1 DEF AppendTypeOK
            <4>2. FrontOffset' = FrontOffset
                BY <2>1, <3>4, <4>1 DEF FrontOffset, indexByTermCount, PARTITION_COUNT
            <4>3. FrontOffset' # FrontOffset + n
                BY <1>1, <2>1, <4>2
            <4>4. ppc'[p] = "rotate"
                BY <1>3, <4>3, AddFacts
            <4> QED BY <3>2, <4>2, <4>4 DEF Pads
        <3> QED BY <3>5, <3>6
    <2>3. ppc'[p] \in Pads => loc'[p].part = 0
        <3> SUFFICES ASSUME ppc'[p] \in Pads PROVE loc'[p].part = 0
            OBVIOUS
        <3>1. FrontTerm = 0 /\ 0 % 3 = 0
            BY <1>1, <2>2 DEF FirstTerms
        <3>2. loc'[p].part = indexByTermCount(FrontTerm)
            BY <1>3, AddFacts DEF Pads
        <3> QED BY <3>1, <3>2 DEF indexByTermCount, PARTITION_COUNT
    <2> QED BY <1>1, <1>2, <2>1, <2>2, <2>3 DEF FirstTerms
<1>4. CASE ~GetAndAddRawTail(p)
    <2>1. ppc'[p] \in Pads => ppc[p] \in Pads /\ loc'[p] = loc[p]
        BY <1>1, <1>4, ProduceLabels
    <2>2. \A q \in Producers : ppc'[q] \in Pads => loc'[q].part = 0
        BY <1>1, <1>2, <2>1 DEF FirstTerms
    <2>3. CASE rawTail' = rawTail
        BY <1>1, <2>2, <2>3, FrontKept DEF FirstTerms
    <2>4. CASE rawTail' # rawTail
        <3>1. FrontFull /\ FrontTerm' = FrontTerm + 1 /\ FrontOffset' = 0
            BY <1>4, <2>4, ProduceVars, RotateFacts
        <3>2. FrontTerm = 0
            BY <1>1, <3>1 DEF FirstTerms, FrontFull
        <3> QED BY <1>1, <2>2, <3>1, <3>2 DEF FirstTerms
    <2> QED BY <2>3, <2>4
<1> QED BY <1>3, <1>4

\* Every step of a producer keeps the layout and the owners of the claims.
LEMMA LayoutProduce ==
    ASSUME ClaimInv, LayoutInv, ClaimsInsideTerm', NEW p \in Producers, Produce(p)
    PROVE  LayoutInv'
<1> DEFINE L == Len(claims)
<1>1. /\ AppendTypeOK /\ Layout /\ HasLength(p) /\ OwnsClaim(p) /\ OwnersDiffer
    BY DEF ClaimInv, LayoutInv
<1>2. /\ Len(claims) \in Nat /\ Len(claims') \in Nat /\ Len(claims) <= Len(claims')
      /\ \A k \in 1 .. Len(claims) : k \in 1 .. Len(claims') /\ claims'[k] = claims[k]
    BY ClaimsGrow
<1>3. \A q \in Producers \ {p} : ppc'[q] = ppc[q] /\ loc'[q] = loc[q]
    BY <1>1, OneProducer
<1>4. FrontOffset \in Nat /\ FrontTerm \in Nat /\ TermLength \in Nat
    BY FrontIs, TermLengthType
<1>5. committed' = committed \/ (ppc[p] \in Writes /\ ppc'[p] \notin Writes
                                 /\ committed' = committed \cup {loc[p].val})
    <2>1. ASSUME CommitFrameLength(p)
          PROVE  ppc[p] \in Writes /\ ppc'[p] \notin Writes /\ committed' = committed \cup {loc[p].val}
        BY <1>1, <2>1 DEF CommitFrameLength, Goto, Writes, AppendTypeOK
    <2> QED BY <2>1, ProduceVars
<1>6. committed \subseteq 1 .. L /\ committed' \subseteq 1 .. L
    BY <1>1, <1>5 DEF Layout, OwnsClaim
<1>7. ASSUME NEW q \in Producers PROVE HasLength(q)'
    <2>1. CASE q = p
        BY <1>1, <2>1, LengthStep
    <2>2. CASE q # p
        BY <1>3, <2>2 DEF LayoutInv, HasLength
    <2> QED BY <2>1, <2>2
<1>0. FirstTerms'
    BY FirstTermsStep
<1>8. ASSUME NEW q \in Producers, q # p PROVE OwnsClaim(q)'
    <2>1. SUFFICES ASSUME ppc[q] \in Writes
                   PROVE  OwnsClaim(q)'
        BY <1>3, <1>8 DEF OwnsClaim
    <2>2. /\ ppc'[q] = ppc[q] /\ loc'[q] = loc[q] /\ OwnsClaim(q)
          /\ loc[q].val \in 1 .. L /\ loc[q].val \notin committed
        BY <1>3, <1>8, <2>1 DEF OwnsClaim, LayoutInv
    <2>3. loc[q].val \notin committed'
        BY <1>1, <1>5, <1>8, <2>1, <2>2 DEF OwnersDiffer
    <2>4. claims'[loc[q].val] = claims[loc[q].val] /\ loc[q].val \in 1 .. Len(claims')
        BY <1>2, <2>2
    <2> QED BY <2>1, <2>2, <2>3, <2>4 DEF OwnsClaim
<1>9. CASE ~GetAndAddRawTail(p)
    <2>1. claims' = claims
        BY <1>9, ProduceVars
    <2>2. Layout'
        <3>1. CASE rawTail' = rawTail
            <4>1. FrontTerm' = FrontTerm /\ FrontOffset' = FrontOffset
                BY <3>1, FrontKept
            <4> QED BY <1>1, <1>6, <2>1, <4>1, LayoutSame
        <3>2. CASE rawTail' # rawTail
            <4>1. CasRawTail(p)
                BY <1>9, <3>2, ProduceVars
            <4>2. FrontFull /\ FrontTerm' = FrontTerm + 1 /\ FrontOffset' = 0 /\ committed' = committed
                BY <3>2, <4>1, RotateFacts DEF history
            <4> QED BY <1>1, <2>1, <4>2, LayoutRotate
        <3> QED BY <3>1, <3>2
    <2>3. OwnsClaim(p)'
        <3> SUFFICES ASSUME ppc'[p] \in Writes PROVE OwnsClaim(p)'
            BY DEF OwnsClaim
        <3>1. ppc[p] \in Writes /\ loc'[p] = loc[p]
            BY <1>1, <1>9, ProduceLabels
        <3>2. committed' = committed
            BY <1>5
        <3> QED BY <1>1, <2>1, <3>1, <3>2 DEF OwnsClaim
    <2>4. OwnersDiffer'
        <3>1. ppc'[p] \in Writes => ppc[p] \in Writes /\ loc'[p] = loc[p]
            BY <1>1, <1>9, ProduceLabels
        <3> QED BY <1>1, <1>3, <3>1 DEF OwnersDiffer
    <2> QED BY <1>0, <1>7, <1>8, <2>2, <2>3, <2>4 DEF LayoutInv
<1>10. CASE GetAndAddRawTail(p)
    <2> DEFINE n == loc[p].len
    <2>1. /\ ppc[p] = "fetchAdd" /\ FrontTerm' = FrontTerm /\ committed' = committed
        BY <1>10, AddFacts
    <2>2. n \in FrameLengths /\ n \in Nat /\ n >= 2 /\ n <= Window
        BY <1>1, <2>1, FrameLengthsType DEF HasLength
    <2>3. CASE /\ ppc'[p] = "header" /\ FrontOffset + n <= TermLength
               /\ FrontOffset' = FrontOffset + n
               /\ claims' = Append(claims, [id |-> FrontTerm, part |-> indexByTermCount(FrontTerm),
                                                  off |-> FrontOffset, len |-> n])
               /\ loc'[p].len = n /\ loc'[p].part = indexByTermCount(FrontTerm)
               /\ loc'[p].off = FrontOffset /\ loc'[p].val = Len(claims')
        <3>1. Layout'
            BY <1>1, <2>1, <2>2, <2>3, LayoutAdd
        <3>2. PICK c : c = [id |-> FrontTerm, part |-> indexByTermCount(FrontTerm),
                            off |-> FrontOffset, len |-> n]
            OBVIOUS
        <3>3. /\ c.id = FrontTerm /\ c.part = indexByTermCount(FrontTerm)
              /\ c.off = FrontOffset /\ c.len = n
            BY <3>2
        <3>4. Len(claims') = L + 1 /\ claims'[L + 1] = c
            BY <1>1, <2>3, <3>2 DEF AppendTypeOK
        <3>5. OwnsClaim(p)'
            BY <1>2, <1>6, <2>1, <2>3, <3>3, <3>4 DEF OwnsClaim
        <3>6. OwnersDiffer'
            <4>1. \A q \in Producers \ {p} : ppc[q] \in Writes => loc[q].val # L + 1
                BY <1>2 DEF LayoutInv, OwnsClaim
            <4> QED BY <1>1, <1>3, <2>3, <3>4, <4>1 DEF OwnersDiffer
        <3> QED BY <1>0, <1>7, <1>8, <3>1, <3>5, <3>6 DEF LayoutInv
    <2>4. CASE /\ ppc'[p] \in {"padHeader", "rotate"} /\ claims' = claims
               /\ \/ FrontOffset' = FrontOffset
                  \/ FrontOffset > 0 /\ FrontOffset' > TermLength
        <3>1. Layout'
            BY <1>1, <1>6, <2>1, <2>4, LayoutSame
        <3>2. ppc'[p] \notin Writes
            BY <2>4 DEF Writes
        <3> QED BY <1>0, <1>1, <1>3, <1>7, <1>8, <3>1, <3>2 DEF LayoutInv, OwnsClaim, OwnersDiffer
    <2>5. FrontOffset + n > TermLength => FrontOffset > 0
        BY <1>4, <2>2, TermLengthType
    <2>6. FrontOffset >= TermLength => FrontOffset > 0 /\ FrontOffset + n > TermLength
        BY <1>4, <2>2, TermLengthType
    <2> QED BY <1>10, <2>3, <2>4, <2>5, <2>6, AddFacts
<1> QED BY <1>9, <1>10

---------------------------------------------------------------------------
(* Positions of claims, gaps and subscribers. *)

\* Every position is an offset into a term.
LEMMA PositionSplit == \A x \in Nat : \E v \in Nat, o \in Offsets : x = Start(v) + o
<1> SUFFICES ASSUME NEW x \in Nat PROVE \E v \in Nat, o \in Offsets : x = Start(v) + o
    OBVIOUS
<1>1. x \div TermLength \in Nat /\ x % TermLength \in Offsets
      /\ x = (x \div TermLength) * TermLength + (x % TermLength)
    BY TermLengthType DEF Offsets
<1> QED BY <1>1 DEF Start

\* Where the claims are: inside their terms and behind the front.
LEMMA ClaimGeometry == ClaimInv /\ Layout => \A k \in 1 .. Len(claims) :
    /\ claims[k].id \in Nat /\ claims[k].id <= FrontTerm
    /\ claims[k].off \in Offsets /\ claims[k].len \in Nat /\ claims[k].len >= 2
    /\ claims[k].part \in Partitions /\ claims[k].part = indexByTermCount(claims[k].id)
    /\ ClaimEnd(k) \in Nat /\ ClaimEnd(k) = claims[k].off + claims[k].len
    /\ ClaimEnd(k) <= TermLength
    /\ ClaimPosition(k) = Start(claims[k].id) + claims[k].off
    /\ ClaimPosition(k) \in Nat
    /\ EndPosition(k) = Start(claims[k].id) + ClaimEnd(k)
    /\ EndPosition(k) \in Nat
    /\ EndPosition(k) <= Front
<1> SUFFICES ASSUME ClaimInv, Layout, NEW k \in 1 .. Len(claims)
    PROVE /\ claims[k].id \in Nat /\ claims[k].id <= FrontTerm
    /\ claims[k].off \in Offsets /\ claims[k].len \in Nat /\ claims[k].len >= 2
    /\ claims[k].part \in Partitions /\ claims[k].part = indexByTermCount(claims[k].id)
    /\ ClaimEnd(k) \in Nat /\ ClaimEnd(k) = claims[k].off + claims[k].len
    /\ ClaimEnd(k) <= TermLength
    /\ ClaimPosition(k) = Start(claims[k].id) + claims[k].off
    /\ ClaimPosition(k) \in Nat
    /\ EndPosition(k) = Start(claims[k].id) + ClaimEnd(k)
    /\ EndPosition(k) \in Nat
    /\ EndPosition(k) <= Front
    OBVIOUS
<1>1. claims[k] \in Claims
    BY DEF ClaimInv, AppendTypeOK
<1>2. Shape(k)
    BY DEF Layout
<1>3. /\ claims[k].id \in Nat /\ claims[k].id <= FrontTerm /\ claims[k].off \in Nat
      /\ claims[k].part \in Partitions /\ claims[k].part = indexByTermCount(claims[k].id)
      /\ claims[k].len \in Nat /\ claims[k].len >= 2 /\ ClaimEnd(k) <= TermLength
    BY <1>1, <1>2, FrameLengthsType DEF Claims, Shape
<1>4. Start(claims[k].id) \in Nat /\ TermLength \in Nat
    BY <1>3, StartType, TermLengthType
<1>5. ClaimEnd(k) = claims[k].off + claims[k].len
    BY DEF ClaimEnd
<1>6. ClaimPosition(k) = Start(claims[k].id) + claims[k].off
    BY DEF ClaimPosition, computePosition, Start
<1>7. EndPosition(k) = Start(claims[k].id) + ClaimEnd(k)
    BY <1>3, <1>4, <1>5, <1>6 DEF EndPosition
<1>8. claims[k].off \in Offsets
    BY <1>3, <1>4, <1>5 DEF Offsets
<1>9. EndPosition(k) <= Front
    <2>1. /\ FrontTerm \in Nat /\ FrontOffset \in Nat
          /\ Front = Start(FrontTerm) + minimum(FrontOffset, TermLength)
          /\ indexByTermCount(FrontTerm) \in Partitions
        BY FrontIs
    <2>2. CASE claims[k].id = FrontTerm
        <3>1. ClaimEnd(k) <= FrontOffset
            BY <2>1, <2>2, PartitionTerms DEF ClaimInv, ClaimsBehindTail, ClaimEnd, FrontOffset
        <3> QED BY <1>3, <1>4, <1>5, <1>7, <2>1, <2>2, <3>1 DEF minimum
    <2>3. CASE claims[k].id < FrontTerm
        <3>1. Start(claims[k].id) + TermLength <= Start(FrontTerm)
            BY <1>3, <2>1, <2>3, StartOrder
        <3>2. Start(FrontTerm) \in Nat /\ minimum(FrontOffset, TermLength) \in Nat
            BY <2>1, <1>4, StartType DEF minimum
        <3> QED BY <1>3, <1>4, <1>5, <1>7, <2>1, <3>1, <3>2, SMTT(30)
    <2> QED BY <1>3, <2>1, <2>2, <2>3
<1> QED BY <1>3, <1>4, <1>5, <1>6, <1>7, <1>8, <1>9, SMTT(30)

\* Claims are in the order of their positions.
LEMMA ClaimOrder == ClaimInv /\ Layout =>
    \A k, l \in 1 .. Len(claims) : k < l =>
        /\ EndPosition(k) <= ClaimPosition(l) /\ claims[k].id <= claims[l].id
        /\ claims[k].id = claims[l].id => ClaimEnd(k) <= claims[l].off
<1> SUFFICES ASSUME ClaimInv, Layout, NEW k \in 1 .. Len(claims), NEW l \in 1 .. Len(claims), k < l
    PROVE  /\ EndPosition(k) <= ClaimPosition(l) /\ claims[k].id <= claims[l].id
           /\ claims[k].id = claims[l].id => ClaimEnd(k) <= claims[l].off
    OBVIOUS
<1>1. \/ claims[k].id < claims[l].id
      \/ claims[k].id = claims[l].id /\ ClaimEnd(k) <= claims[l].off
    BY DEF ClaimInv, ClaimsOrdered, ClaimEnd
<1>2. /\ claims[k].id \in Nat /\ claims[l].id \in Nat /\ claims[l].off \in Nat /\ ClaimEnd(k) \in Nat
      /\ ClaimEnd(k) <= TermLength
      /\ ClaimPosition(l) = Start(claims[l].id) + claims[l].off
      /\ EndPosition(k) = Start(claims[k].id) + ClaimEnd(k)
    BY ClaimGeometry DEF Offsets
<1>3. Start(claims[k].id) \in Nat /\ Start(claims[l].id) \in Nat /\ TermLength \in Nat
    BY <1>2, StartType, TermLengthType
<1>4. claims[k].id < claims[l].id => Start(claims[k].id) + TermLength <= Start(claims[l].id)
    BY <1>2, StartOrder
<1> QED BY <1>1, <1>2, <1>3, <1>4, SMTT(30)

\* Nothing is claimed behind a gap in its term.
LEMMA GapIsLast == ClaimInv /\ Layout =>
    \A k, l \in 1 .. Len(claims) : Gap(k) /\ claims[l].id = claims[k].id => l <= k
<1> SUFFICES ASSUME ClaimInv, Layout, NEW k \in 1 .. Len(claims), NEW l \in 1 .. Len(claims),
                    Gap(k), claims[l].id = claims[k].id, k < l
             PROVE  FALSE
    BY DEF ClaimInv, AppendTypeOK
<1>1. Len(claims) \in Nat
    BY DEF ClaimInv, AppendTypeOK
<1>2. k + 1 \in 1 .. Len(claims) /\ k # Len(claims) /\ (k + 1 < l \/ k + 1 = l) /\ k < k + 1
    BY <1>1
<1>3. claims[k].id \in Nat /\ claims[k + 1].id \in Nat /\ claims[l].id \in Nat
    BY <1>2, ClaimGeometry
<1>4. claims[k].id <= claims[k + 1].id /\ claims[k + 1].id <= claims[l].id
    BY <1>2, <1>3, ClaimOrder
<1>5. claims[k + 1].id # claims[k].id
    BY <1>2 DEF Gap
<1> QED BY <1>3, <1>4, <1>5

\* The minimum is the position of some subscriber, and the least one.
LEMMA SlowestIs == ClaimInv =>
    /\ minBytesConsumed \in Nat
    /\ \A s \in Subscribers : bytesConsumed[s] \in Nat /\ minBytesConsumed <= bytesConsumed[s]
    /\ \E s \in Subscribers : minBytesConsumed = bytesConsumed[s]
<1> SUFFICES ASSUME ClaimInv
             PROVE  /\ minBytesConsumed \in Nat
                    /\ \A s \in Subscribers : bytesConsumed[s] \in Nat /\ minBytesConsumed <= bytesConsumed[s]
                    /\ \E s \in Subscribers : minBytesConsumed = bytesConsumed[s]
    OBVIOUS
<1>1. bytesConsumed \in [Subscribers -> Nat]
    BY DEF ClaimInv, AppendTypeOK
<1>2. PICK f : f = bytesConsumed
    OBVIOUS
<1>3. f \in [Subscribers -> Nat] /\ minBytesConsumed = Slowest(f)
    BY <1>1, <1>2 DEF minBytesConsumed, Slowest
<1> QED BY <1>2, <1>3, SlowestType

\* A step keeps the positions of the claims.
LEMMA PositionsKept ==
    ASSUME ClaimInv, NEW p \in Producers, Produce(p)
    PROVE  \A k \in 1 .. Len(claims) :
             /\ claims'[k] = claims[k] /\ ClaimEnd(k)' = ClaimEnd(k)
             /\ ClaimPosition(k)' = ClaimPosition(k) /\ EndPosition(k)' = EndPosition(k)
BY ClaimsGrow DEF ClaimEnd, ClaimPosition, EndPosition

\* How a step moves the front.
LEMMA FrontSteps ==
    ASSUME ClaimInv, LayoutInv, ClaimsInsideTerm', NEW p \in Producers, Produce(p)
    PROVE  \/ /\ FrontTerm' = FrontTerm /\ FrontOffset' = FrontOffset /\ claims' = claims
           \/ /\ FrontFull /\ FrontTerm' = FrontTerm + 1 /\ FrontOffset' = 0 /\ claims' = claims
           \/ /\ GetAndAddRawTail(p) /\ FrontTerm' = FrontTerm
              /\ FrontOffset' = FrontOffset + loc[p].len
              /\ FrontOffset' > TermLength /\ FrontOffset > 0 /\ claims' = claims
           \/ /\ GetAndAddRawTail(p) /\ ppc'[p] = "header" /\ FrontTerm' = FrontTerm
              /\ FrontOffset' = FrontOffset + loc[p].len /\ FrontOffset' <= TermLength
              /\ Len(claims') = Len(claims) + 1
              /\ claims'[Len(claims) + 1] = [id |-> FrontTerm, part |-> indexByTermCount(FrontTerm),
                                            off |-> FrontOffset, len |-> loc[p].len]
<1>0. claims \in Seq(Claims) /\ FrontOffset \in Nat /\ TermLength \in Nat
    BY FrontIs, TermLengthType DEF ClaimInv, AppendTypeOK
<1>1. CASE GetAndAddRawTail(p)
    <2> DEFINE n == loc[p].len
    <2>1. ppc[p] = "fetchAdd" /\ n \in Nat /\ n > 0
        BY <1>1, AddFacts
    <2>2. n <= Window
        BY <2>1, FrameLengthsType DEF LayoutInv, HasLength
    <2>3. CASE /\ ppc'[p] = "header" /\ FrontOffset + n <= TermLength /\ FrontOffset' = FrontOffset + n
               /\ claims' = Append(claims, [id |-> FrontTerm, part |-> indexByTermCount(FrontTerm),
                                                  off |-> FrontOffset, len |-> n])
               /\ FrontTerm' = FrontTerm
        BY <1>0, <1>1, <2>3
    <2>4. CASE /\ FrontOffset + n > TermLength /\ FrontOffset' = FrontOffset + n /\ claims' = claims
               /\ FrontTerm' = FrontTerm
        BY <1>0, <1>1, <2>1, <2>2, <2>4, TermLengthType
    <2>5. FrontOffset >= TermLength => FrontOffset + n > TermLength
        BY <1>0, <2>1
    <2> QED BY <1>1, <2>3, <2>4, <2>5, AddFacts
<1>2. CASE ~GetAndAddRawTail(p)
    <2>1. claims' = claims
        BY <1>2, ProduceVars
    <2>2. CASE rawTail' = rawTail
        BY <2>1, <2>2, FrontKept
    <2>3. CASE rawTail' # rawTail
        BY <1>2, <2>1, <2>3, ProduceVars, RotateFacts
    <2> QED BY <2>2, <2>3
<1> QED BY <1>1, <1>2

\* A gap stays a gap.
LEMMA GapKept ==
    ASSUME ClaimInv, LayoutInv, ClaimsInsideTerm', NEW p \in Producers, Produce(p)
    PROVE  \A k \in 1 .. Len(claims) : Gap(k) => Gap(k)'
<1> SUFFICES ASSUME NEW k \in 1 .. Len(claims), Gap(k) PROVE Gap(k)'
    OBVIOUS
<1>1. /\ ClaimEnd(k)' = ClaimEnd(k) /\ claims'[k] = claims[k]
    BY PositionsKept
<1>2. /\ claims[k].id \in Nat /\ claims[k].id <= FrontTerm /\ FrontTerm \in Nat /\ FrontOffset \in Nat
      /\ TermLength \in Nat
    BY ClaimGeometry, FrontIs, TermLengthType DEF LayoutInv
<1>3. CASE claims' = claims /\ FrontTerm' = FrontTerm /\ (FrontFull => FrontFull')
    BY <1>1, <1>3 DEF Gap
<1>4. CASE claims' = claims /\ FrontTerm' = FrontTerm + 1
    BY <1>1, <1>2, <1>4 DEF Gap
<1>5. CASE /\ Len(claims') = Len(claims) + 1 /\ ~FrontFull
           /\ claims'[Len(claims) + 1].id = FrontTerm
    <2>1. CASE k = Len(claims)
        BY <1>1, <1>2, <1>5, <2>1 DEF Gap
    <2>2. CASE k # Len(claims)
        <3>1. k + 1 \in 1 .. Len(claims) /\ Len(claims) \in Nat /\ k # Len(claims) + 1
            BY <2>2 DEF ClaimInv, AppendTypeOK
        <3>2. claims'[k + 1] = claims[k + 1]
            BY <3>1, PositionsKept
        <3> QED BY <1>1, <1>5, <2>2, <3>1, <3>2 DEF Gap
    <2> QED BY <2>1, <2>2
<1>6. GetAndAddRawTail(p) => loc[p].len \in Nat /\ loc[p].len > 0
    BY AddFacts
<1>7. GetAndAddRawTail(p) /\ FrontOffset' = FrontOffset + loc[p].len /\ FrontOffset' <= TermLength => ~FrontFull
    BY <1>2, <1>6 DEF FrontFull
<1>8. [id |-> FrontTerm, part |-> indexByTermCount(FrontTerm),
       off |-> FrontOffset, len |-> loc[p].len].id = FrontTerm
    OBVIOUS
<1>9. FrontOffset' > TermLength => FrontFull'
    BY DEF FrontFull
<1>10. FrontOffset' = FrontOffset => (FrontFull => FrontFull')
    BY DEF FrontFull
<1> QED BY <1>3, <1>4, <1>5, <1>7, <1>8, <1>9, <1>10, FrontSteps

\* The front never moves back, and a new claim is at it.
LEMMA FrontGrows ==
    ASSUME ClaimInv, LayoutInv, ClaimsInsideTerm', NEW p \in Producers, Produce(p)
    PROVE  /\ Front \in Nat /\ Front' \in Nat /\ Front <= Front'
           /\ \A k \in 1 .. Len(claims') : k \notin 1 .. Len(claims) => ClaimPosition(k)' = Front
<1>1. ClaimInv'
    BY ClaimInvProduce
<1>2. /\ FrontTerm \in Nat /\ FrontOffset \in Nat /\ TermLength \in Nat
      /\ Front = Start(FrontTerm) + minimum(FrontOffset, TermLength)
    BY FrontIs, TermLengthType
<1>3. /\ FrontTerm' \in Nat /\ FrontOffset' \in Nat
      /\ Front' = Start(FrontTerm') + minimum(FrontOffset', TermLength)
    BY <1>1, FrontIsNext DEF Start, minimum
<1>4. Start(FrontTerm) \in Nat /\ Start(FrontTerm + 1) = Start(FrontTerm) + TermLength
    BY <1>2, StartType
<1>5. CASE FrontTerm' = FrontTerm /\ FrontOffset' = FrontOffset /\ claims' = claims
    BY <1>2, <1>3, <1>4, <1>5 DEF minimum
<1>6. CASE FrontFull /\ FrontTerm' = FrontTerm + 1 /\ FrontOffset' = 0 /\ claims' = claims
    <2>1. minimum(FrontOffset, TermLength) = TermLength /\ minimum(FrontOffset', TermLength) = 0
        BY <1>2, <1>6 DEF minimum, FrontFull
    <2>2. Front' = Start(FrontTerm + 1) + 0
        BY <1>3, <1>6, <2>1
    <2>3. Front = Start(FrontTerm) + TermLength
        BY <1>2, <2>1
    <2>4. Front' = Front /\ Front \in Nat
        BY <1>2, <1>4, <2>2, <2>3
    <2> QED BY <1>6, <2>4
<1>7. GetAndAddRawTail(p) => loc[p].len \in Nat /\ loc[p].len > 0
    BY AddFacts
<1>8. CASE GetAndAddRawTail(p) /\ FrontTerm' = FrontTerm
              /\ FrontOffset' = FrontOffset + loc[p].len /\ claims' = claims
    <2>1. /\ minimum(FrontOffset, TermLength) \in Nat
          /\ minimum(FrontOffset', TermLength) \in Nat
          /\ minimum(FrontOffset, TermLength) <= minimum(FrontOffset', TermLength)
        BY <1>2, <1>3, <1>7, <1>8 DEF minimum
    <2>2. Front' = Start(FrontTerm) + minimum(FrontOffset', TermLength)
        BY <1>3, <1>8
    <2> QED BY <1>2, <1>4, <1>8, <2>1, <2>2
<1>9. CASE GetAndAddRawTail(p) /\ FrontTerm' = FrontTerm
              /\ FrontOffset' = FrontOffset + loc[p].len /\ FrontOffset' <= TermLength
              /\ Len(claims') = Len(claims) + 1
              /\ claims'[Len(claims) + 1] = [id |-> FrontTerm, part |-> indexByTermCount(FrontTerm),
                                            off |-> FrontOffset, len |-> loc[p].len]
    <2>1. PICK c : c = [id |-> FrontTerm, part |-> indexByTermCount(FrontTerm),
                        off |-> FrontOffset, len |-> loc[p].len]
        OBVIOUS
    <2>2. c.id = FrontTerm /\ c.off = FrontOffset /\ claims'[Len(claims) + 1] = c
        BY <1>9, <2>1
    <2>3. Len(claims) \in Nat
        BY DEF ClaimInv, AppendTypeOK
    <2>4. ASSUME NEW k \in 1 .. Len(claims'), k \notin 1 .. Len(claims) PROVE ClaimPosition(k)' = Front
        <3>1. k = Len(claims) + 1
            BY <1>9, <2>3, <2>4
        <3>2. ClaimPosition(k)' = Start(FrontTerm) + FrontOffset
            <4>1. claims'[k].id = FrontTerm /\ claims'[k].off = FrontOffset
                BY <2>2, <3>1
            <4>2. ClaimPosition(k)' = claims'[k].id * TermLength + claims'[k].off
                BY DEF ClaimPosition, computePosition
            <4> QED BY <4>1, <4>2 DEF Start
        <3>3. minimum(FrontOffset, TermLength) = FrontOffset
            BY <1>2, <1>7, <1>9 DEF minimum
        <3> QED BY <3>2, <3>3, <1>2
    <2>5. /\ minimum(FrontOffset, TermLength) \in Nat
          /\ minimum(FrontOffset', TermLength) \in Nat
          /\ minimum(FrontOffset, TermLength) <= minimum(FrontOffset', TermLength)
        BY <1>2, <1>3, <1>7, <1>9 DEF minimum
    <2>6. Front' = Start(FrontTerm) + minimum(FrontOffset', TermLength)
        BY <1>3, <1>9
    <2> QED BY <1>2, <1>4, <2>4, <2>5, <2>6
<1> QED BY <1>5, <1>6, <1>8, <1>9, FrontSteps

\* The producers do not move the front or a claim behind a subscriber.
LEMMA BehindStep ==
    ASSUME ClaimInv, LayoutInv, ClaimsInsideTerm', Behind, NEW p \in Producers, Produce(p)
    PROVE  Behind'
<1> SUFFICES ASSUME NEW s \in Subscribers
             PROVE  /\ bytesConsumed'[s] <= Front'
                    /\ \A k \in 1 .. Len(claims') :
                          k \notin committed' => bytesConsumed'[s] <= ClaimPosition(k)'
    BY DEF Behind
<1>1. bytesConsumed' = bytesConsumed /\ bytesConsumed[s] \in Nat /\ bytesConsumed[s] <= Front
    BY ProduceVars DEF Behind, ClaimInv, AppendTypeOK
<1>2. bytesConsumed'[s] <= Front'
    BY <1>1, FrontGrows
<1>3. ASSUME NEW k \in 1 .. Len(claims'), k \notin committed' PROVE bytesConsumed'[s] <= ClaimPosition(k)'
    <2>1. committed \subseteq committed'
        BY ProduceVars DEF CommitFrameLength
    <2>2. CASE k \in 1 .. Len(claims)
        BY <1>1, <1>3, <2>1, <2>2, PositionsKept DEF Behind
    <2>3. CASE k \notin 1 .. Len(claims)
        BY <1>1, <2>3, FrontGrows
    <2> QED BY <2>2, <2>3
<1> QED BY <1>2, <1>3
---------------------------------------------------------------------------
(* Positions are addresses: the words of claims and of the gap. *)

(* The positions of the words of a claim. *)
Span(k) == ClaimPosition(k) .. EndPosition(k) - 1

\* No frame is taken back, so one that leaves its term does so for good.
LEMMA InsideBefore ==
    ASSUME ClaimInv, NEW p \in Producers, Produce(p), ClaimsInsideTerm'
    PROVE  ClaimsInsideTerm
BY ClaimsGrow DEF ClaimsInsideTerm

\* The first two partitions hold the first two terms.
LEMMA FirstIndexes ==
    /\ indexByTermCount(0) = 0 /\ indexByTermCount(1) = 1
    /\ Start(0) = 0 /\ Start(1) = TermLength /\ Start(2) = TermLength + TermLength
<1>1. 0 % 3 = 0 /\ 1 % 3 = 1
    OBVIOUS
<1> QED BY <1>1, TermLengthType DEF indexByTermCount, Start, PARTITION_COUNT

\* The front is at the end of the second term or before it.
LEMMA FrontInside == ClaimInv /\ LayoutInv =>
    /\ Front \in Nat /\ Front <= TermLength + TermLength /\ Front \in Addresses
    /\ FrontTerm = 0 \/ FrontTerm = 1
<1> SUFFICES ASSUME ClaimInv, LayoutInv
             PROVE  /\ Front \in Nat /\ Front <= TermLength + TermLength /\ Front \in Addresses
                    /\ FrontTerm = 0 \/ FrontTerm = 1
    OBVIOUS
<1>1. /\ FrontTerm \in Nat /\ FrontOffset \in Nat /\ TermLength \in Nat /\ TermLength > 0
      /\ Front = Start(FrontTerm) + minimum(FrontOffset, TermLength)
    BY FrontIs, TermLengthType
<1>2. FrontTerm = 0 \/ FrontTerm = 1
    BY <1>1 DEF LayoutInv, FirstTerms
<1>3. minimum(FrontOffset, TermLength) \in Nat /\ minimum(FrontOffset, TermLength) <= TermLength
    BY <1>1 DEF minimum
<1>4. Front \in Nat /\ Front <= TermLength + TermLength
    <2>1. CASE FrontTerm = 0
        BY <1>1, <1>3, <2>1, FirstIndexes
    <2>2. CASE FrontTerm = 1
        BY <1>1, <1>3, <2>2, FirstIndexes
    <2> QED BY <1>2, <2>1, <2>2
<1> QED BY <1>1, <1>2, <1>4 DEF Addresses, PARTITION_COUNT

\* A reader looks for a position at the address of the same number.
LEMMA ReadsAt == \A b \in Addresses : ReadAddress(b) = b
<1> SUFFICES ASSUME NEW b \in Addresses PROVE ReadAddress(b) = b
    OBVIOUS
<1>1. TermLength \in Nat /\ TermLength > 0 /\ b \in Nat /\ b < 3 * TermLength
    BY TermLengthType DEF Addresses, PARTITION_COUNT
<1>2. PICK v \in Nat, o \in Offsets : b = Start(v) + o
    BY <1>1, PositionSplit
<1>3. Start(v) \in Nat /\ Start(3) = 3 * TermLength /\ o \in Nat
    BY <1>1, <1>2, StartType DEF Start, Offsets
<1>4. v < 3
    <2>1. 3 <= v => Start(3) <= Start(v)
        BY <1>2, StartOrder
    <2> QED BY <1>1, <1>2, <1>3, <2>1
<1>5. v = 0 \/ v = 1 \/ v = 2
    BY <1>4
<1>6. indexByTermCount(v) = v
    <2>1. 0 % 3 = 0 /\ 1 % 3 = 1 /\ 2 % 3 = 2
        OBVIOUS
    <2> QED BY <1>5, <2>1 DEF indexByTermCount, PARTITION_COUNT
<1>7. ReadAddress(b) = Address(v, o)
    BY <1>2, <1>6, PositionParts
<1> QED BY <1>2, <1>7 DEF Address, Start

\* Claims occupy the addresses of their positions, before the front.
LEMMA Places == ClaimInv /\ LayoutInv => \A k \in 1 .. Len(claims) :
    /\ Address(claims[k].part, claims[k].off) = ClaimPosition(k)
    /\ ClaimPosition(k) \in Nat /\ EndPosition(k) \in Nat /\ EndPosition(k) <= Front
    /\ claims[k].len \in Nat /\ claims[k].len >= 2
    /\ EndPosition(k) = ClaimPosition(k) + claims[k].len
    /\ ClaimPosition(k) \in Span(k)
    /\ \A x \in Span(k) : x \in Addresses /\ x < Front /\ x >= ClaimPosition(k)
<1> SUFFICES ASSUME ClaimInv, LayoutInv, NEW k \in 1 .. Len(claims)
             PROVE  /\ Address(claims[k].part, claims[k].off) = ClaimPosition(k)
                    /\ ClaimPosition(k) \in Nat /\ EndPosition(k) \in Nat /\ EndPosition(k) <= Front
                    /\ claims[k].len \in Nat /\ claims[k].len >= 2
                    /\ EndPosition(k) = ClaimPosition(k) + claims[k].len
                    /\ ClaimPosition(k) \in Span(k)
                    /\ \A x \in Span(k) : x \in Addresses /\ x < Front /\ x >= ClaimPosition(k)
    OBVIOUS
<1>1. /\ claims[k].id \in Nat /\ claims[k].id <= FrontTerm
      /\ claims[k].part = indexByTermCount(claims[k].id)
      /\ claims[k].len \in Nat /\ claims[k].len >= 2
      /\ ClaimPosition(k) = Start(claims[k].id) + claims[k].off
      /\ ClaimPosition(k) \in Nat /\ EndPosition(k) \in Nat /\ EndPosition(k) <= Front
    BY ClaimGeometry DEF LayoutInv
<1>2. /\ Front \in Nat /\ Front <= TermLength + TermLength
      /\ TermLength \in Nat /\ TermLength > 0 /\ FrontTerm \in {0, 1}
    BY FrontInside, TermLengthType
<1>3. claims[k].id = 0 \/ claims[k].id = 1
    BY <1>1, <1>2
<1>4. Address(claims[k].part, claims[k].off) = ClaimPosition(k)
    <2>1. claims[k].part = claims[k].id
        BY <1>1, <1>3, FirstIndexes
    <2> QED BY <1>1, <2>1 DEF Address, Start
<1>5. EndPosition(k) = ClaimPosition(k) + claims[k].len
    BY DEF EndPosition
<1>6. ClaimPosition(k) \in Span(k)
    BY <1>1, <1>5 DEF Span
<1>7. \A x \in Span(k) : x \in Addresses /\ x < Front /\ x >= ClaimPosition(k)
    BY <1>1, <1>2 DEF Span, Addresses, PARTITION_COUNT
<1> QED BY <1>1, <1>4, <1>5, <1>6, <1>7

\* The same after a step.
LEMMA PlacesNext == (ClaimInv /\ LayoutInv => \A k \in 1 .. Len(claims) :
    /\ Address(claims[k].part, claims[k].off) = ClaimPosition(k)
    /\ ClaimPosition(k) \in Nat /\ EndPosition(k) \in Nat /\ EndPosition(k) <= Front
    /\ claims[k].len \in Nat /\ claims[k].len >= 2
    /\ EndPosition(k) = ClaimPosition(k) + claims[k].len
    /\ ClaimPosition(k) \in Span(k)
    /\ \A x \in Span(k) : x \in Addresses /\ x < Front /\ x >= ClaimPosition(k))'
BY Places, PTL

\* Different claims share no word.
LEMMA SpansApart == ClaimInv /\ LayoutInv => \A k, l \in 1 .. Len(claims) : k # l =>
    \A x \in Span(k) : x \notin Span(l)
<1> SUFFICES ASSUME ClaimInv, LayoutInv, NEW k \in 1 .. Len(claims), NEW l \in 1 .. Len(claims), k # l,
                    NEW x \in Span(k), x \in Span(l)
             PROVE  FALSE
    OBVIOUS
<1>1. /\ ClaimPosition(k) \in Nat /\ EndPosition(k) \in Nat
      /\ ClaimPosition(l) \in Nat /\ EndPosition(l) \in Nat
    BY Places
<1>2. k < l \/ l < k
    BY DEF ClaimInv, AppendTypeOK
<1>3. EndPosition(k) <= ClaimPosition(l) \/ EndPosition(l) <= ClaimPosition(k)
    BY <1>2, ClaimOrder DEF LayoutInv
<1> QED BY <1>1, <1>3 DEF Span

\* Offsets are numbers below the length of a term.
LEMMA OffsetsType == \A o \in Offsets : o \in Nat /\ o < TermLength
BY TermLengthType DEF Offsets

\* Behind a gap the log has gone on, and so have the claims.
LEMMA GapBehind == ClaimInv /\ Layout => \A k \in 1 .. Len(claims) : Gap(k) =>
    /\ Start(claims[k].id + 1) \in Nat /\ Start(claims[k].id + 1) = EndPosition(k) + GapLength(k)
    /\ GapLength(k) \in Nat /\ GapLength(k) > 0
    /\ Start(claims[k].id + 1) <= Front
    /\ \A l \in 1 .. Len(claims) : k < l => Start(claims[k].id + 1) <= ClaimPosition(l)
<1> SUFFICES ASSUME ClaimInv, Layout, NEW k \in 1 .. Len(claims), Gap(k)
             PROVE  /\ Start(claims[k].id + 1) \in Nat /\ Start(claims[k].id + 1) = EndPosition(k) + GapLength(k)
                    /\ GapLength(k) \in Nat /\ GapLength(k) > 0
                    /\ Start(claims[k].id + 1) <= Front
                    /\ \A l \in 1 .. Len(claims) : k < l => Start(claims[k].id + 1) <= ClaimPosition(l)
    OBVIOUS
<1>1. /\ claims[k].id \in Nat /\ claims[k].id <= FrontTerm /\ ClaimEnd(k) \in Nat
      /\ ClaimEnd(k) < TermLength /\ EndPosition(k) = Start(claims[k].id) + ClaimEnd(k)
    BY ClaimGeometry DEF Gap
<1>2. PICK u \in Nat : u = claims[k].id
    BY <1>1
<1>3. /\ Start(u) \in Nat /\ Start(u + 1) = Start(u) + TermLength /\ TermLength \in Nat
    <2>1. u \in Int
        OBVIOUS
    <2> QED BY <2>1, StartType, TermLengthType
<1>4. /\ Start(u + 1) \in Nat /\ GapLength(k) \in Nat /\ GapLength(k) > 0
      /\ Start(u + 1) = EndPosition(k) + GapLength(k)
    BY <1>1, <1>2, <1>3 DEF GapLength
<1>5. ASSUME NEW l \in 1 .. Len(claims), k < l PROVE u + 1 <= claims[l].id /\ Start(u + 1) <= ClaimPosition(l)
    <2>1. claims[l].id # claims[k].id
        <3>1. ~(l <= k)
            BY <1>5
        <3> QED BY <3>1, GapIsLast
    <2>2. claims[k].id <= claims[l].id
        BY <1>5, ClaimOrder
    <2>3. /\ claims[l].id \in Nat /\ claims[l].off \in Nat
          /\ ClaimPosition(l) = Start(claims[l].id) + claims[l].off
        BY ClaimGeometry, OffsetsType
    <2>4. u + 1 <= claims[l].id
        BY <1>2, <2>1, <2>2, <2>3
    <2>5. PICK v \in Nat : v = claims[l].id
        BY <2>3
    <2>6. Start(u + 1) <= Start(v) /\ Start(v) \in Nat
        <3>1. u + 1 \in Int /\ v \in Int /\ u + 1 <= v
            BY <2>4, <2>5
        <3> QED BY <3>1, StartOrder, StartType
    <2> QED BY <1>4, <2>3, <2>4, <2>5, <2>6
<1>6. Start(u + 1) <= Front
    <2>1. /\ FrontTerm \in Nat /\ FrontOffset \in Nat /\ Start(FrontTerm) \in Nat
          /\ Front = Start(FrontTerm) + minimum(FrontOffset, TermLength)
        BY FrontIs, StartType
    <2>2. CASE u = FrontTerm
        <3>1. FrontFull
            <4>1. CASE k = Len(claims)
                BY <1>2, <2>2, <4>1 DEF Gap
            <4>2. CASE k # Len(claims)
                <5>1. k + 1 \in 1 .. Len(claims) /\ k < k + 1
                    BY <4>2 DEF ClaimInv, AppendTypeOK
                <5>2. u + 1 <= claims[k + 1].id /\ claims[k + 1].id <= FrontTerm /\ claims[k + 1].id \in Nat
                    BY <1>5, <5>1, ClaimGeometry
                <5> QED BY <2>1, <2>2, <5>2
            <4> QED BY <4>1, <4>2
        <3>2. minimum(FrontOffset, TermLength) = TermLength
            BY <1>3, <2>1, <3>1 DEF minimum, FrontFull
        <3> QED BY <1>3, <2>1, <2>2, <3>2
    <2>3. CASE u # FrontTerm
        <3>1. u + 1 <= FrontTerm
            BY <1>1, <1>2, <2>1, <2>3
        <3>2. Start(u + 1) <= Start(FrontTerm)
            BY <2>1, <3>1, StartOrder
        <3>3. minimum(FrontOffset, TermLength) \in Nat
            BY <1>3, <2>1 DEF minimum
        <3> QED BY <1>4, <2>1, <3>2, <3>3
    <2> QED BY <2>2, <2>3
<1> QED BY <1>2, <1>4, <1>5, <1>6

\* There is at most one gap, the end of the first term, and no claim is in it.
LEMMA GapPlace == ClaimInv /\ LayoutInv => \A k \in 1 .. Len(claims) : Gap(k) =>
    /\ claims[k].id = 0
    /\ EndPosition(k) = ClaimEnd(k) /\ ClaimEnd(k) \in Nat /\ ClaimEnd(k) < TermLength
    /\ TermLength <= Front /\ EndPosition(k) \in Addresses /\ EndPosition(k) < Front
    /\ \A l \in 1 .. Len(claims) : EndPosition(k) \notin Span(l) /\ (Gap(l) => l = k)
<1> SUFFICES ASSUME ClaimInv, LayoutInv, NEW k \in 1 .. Len(claims), Gap(k)
    PROVE
    /\ claims[k].id = 0
    /\ EndPosition(k) = ClaimEnd(k) /\ ClaimEnd(k) \in Nat /\ ClaimEnd(k) < TermLength
    /\ TermLength <= Front /\ EndPosition(k) \in Addresses /\ EndPosition(k) < Front
    /\ \A l \in 1 .. Len(claims) : EndPosition(k) \notin Span(l) /\ (Gap(l) => l = k)
    OBVIOUS
<1>1. /\ Len(claims) \in Nat /\ TermLength \in Nat /\ TermLength > 0
      /\ Layout /\ FirstTerms /\ FrontTerm \in {0, 1} /\ FrontOffset \in Nat
    BY TermLengthType, FrontInside, FrontIs DEF ClaimInv, AppendTypeOK, LayoutInv
<1>2. ASSUME NEW l \in 1 .. Len(claims), Gap(l) PROVE claims[l].id = 0
    <2>1. claims[l].id \in Nat /\ claims[l].id <= FrontTerm
        BY <1>1, ClaimGeometry
    <2> SUFFICES ASSUME claims[l].id = 1 PROVE FALSE
        BY <1>1, <2>1
    <2>2. FrontTerm = 1 /\ ~FrontFull
        BY <1>1, <2>1 DEF FirstTerms, FrontFull
    <2>3. l # Len(claims)
        BY <1>2, <2>2 DEF Gap
    <2>4. l + 1 \in 1 .. Len(claims) /\ claims[l + 1].id # claims[l].id
        BY <1>1, <1>2, <2>3 DEF Gap
    <2>5. claims[l + 1].id \in Nat /\ claims[l + 1].id <= FrontTerm
        BY <1>1, <2>4, ClaimGeometry
    <2>6. claims[l].id <= claims[l + 1].id
        BY <1>1, <2>4, ClaimOrder
    <2> QED BY <2>2, <2>4, <2>5, <2>6
<1>3. claims[k].id = 0
    BY <1>2
<1>4. /\ EndPosition(k) = ClaimEnd(k) /\ ClaimEnd(k) \in Nat /\ ClaimEnd(k) < TermLength
    <2>1. EndPosition(k) = Start(claims[k].id) + ClaimEnd(k) /\ ClaimEnd(k) \in Nat
        BY <1>1, ClaimGeometry
    <2> QED BY <1>3, <2>1, FirstIndexes DEF Gap
<1>5. /\ TermLength <= Front /\ Front \in Nat
      /\ \A l \in 1 .. Len(claims) : k < l => TermLength <= ClaimPosition(l)
    <2>1. Start(claims[k].id + 1) = TermLength
        BY <1>3, FirstIndexes
    <2>2. /\ Start(claims[k].id + 1) <= Front
          /\ \A l \in 1 .. Len(claims) : k < l => Start(claims[k].id + 1) <= ClaimPosition(l)
        BY <1>1, GapBehind
    <2>3. Front \in Nat
        BY FrontInside
    <2> QED BY <2>1, <2>2, <2>3
<1>6. EndPosition(k) \in Addresses /\ EndPosition(k) < Front
    BY <1>1, <1>4, <1>5 DEF Addresses, PARTITION_COUNT
<1>7. ASSUME NEW l \in 1 .. Len(claims) PROVE EndPosition(k) \notin Span(l)
    <2>1. ClaimPosition(l) \in Nat /\ EndPosition(l) \in Nat /\ ClaimPosition(k) \in Nat
          /\ ClaimPosition(k) <= EndPosition(k)
        BY Places
    <2>2. CASE l = k
        BY <2>1, <2>2 DEF Span
    <2>3. CASE l < k
        <3>1. EndPosition(l) <= ClaimPosition(k)
            BY <1>1, <2>3, ClaimOrder
        <3> QED BY <1>4, <2>1, <3>1 DEF Span
    <2>4. CASE k < l
        BY <1>1, <1>4, <1>5, <2>1, <2>4 DEF Span
    <2> QED BY <1>1, <2>2, <2>3, <2>4
<1>8. ASSUME NEW l \in 1 .. Len(claims), Gap(l) PROVE l = k
    <2>1. claims[l].id = claims[k].id
        BY <1>2, <1>3, <1>8
    <2>2. l <= k /\ k <= l
        BY <1>1, <1>8, <2>1, GapIsLast
    <2> QED BY <1>1, <2>2
<1> QED BY <1>3, <1>4, <1>5, <1>6, <1>7, <1>8

\* The gap is padded by one producer.
LEMMA PlaceInvProduce ==
    ASSUME ClaimInv, LayoutInv, PlaceInv, ClaimsInsideTerm', NEW p \in Producers, Produce(p)
    PROVE  PlaceInv'
<1>1. /\ AppendTypeOK /\ Layout /\ Behind /\ Len(claims) \in Nat
      /\ TermLength \in Nat /\ FrontTerm \in Nat /\ FrontOffset \in Nat
    BY FrontIs, TermLengthType DEF ClaimInv, LayoutInv, PlaceInv, AppendTypeOK
<1>2. \A q \in Producers \ {p} : ppc'[q] = ppc[q] /\ loc'[q] = loc[q]
    BY <1>1, OneProducer
<1>3. ASSUME NEW q \in Producers, ppc'[q] \in Pads, ppc[q] \in Pads, loc'[q] = loc[q] PROVE OwnsGap(q)'
    <2>1. PICK k \in 1 .. Len(claims) : Gap(k) /\ loc[q].off = ClaimEnd(k)
        BY <1>3 DEF PlaceInv, OwnsGap
    <2>2. Gap(k)' /\ k \in 1 .. Len(claims') /\ ClaimEnd(k)' = ClaimEnd(k)
        BY <2>1, GapKept, ClaimsGrow, PositionsKept
    <2> QED BY <1>3, <2>1, <2>2 DEF OwnsGap
<1>4. CASE ~(GetAndAddRawTail(p) /\ ppc'[p] \in Pads)
    <2>1. ppc'[p] \in Pads => ppc[p] \in Pads /\ loc'[p] = loc[p]
        BY <1>1, <1>4, ProduceLabels
    <2>2. \A q \in Producers : ppc'[q] \in Pads => ppc[q] \in Pads /\ loc'[q] = loc[q]
        BY <1>2, <2>1
    <2>3. \A q \in Producers : OwnsGap(q)'
        BY <1>3, <2>2 DEF OwnsGap
    <2>4. OnePads'
        BY <2>2 DEF PlaceInv, OnePads
    <2> QED BY <1>1, <2>3, <2>4, BehindStep DEF PlaceInv
<1>5. CASE GetAndAddRawTail(p) /\ ppc'[p] \in Pads
    <2> DEFINE n == loc[p].len
               L == Len(claims)
    <2>1. /\ ppc[p] = "fetchAdd" /\ n \in Nat
          /\ FrontTerm' = FrontTerm /\ FrontOffset < TermLength
          /\ FrontOffset + n > TermLength /\ FrontOffset' = FrontOffset + n
          /\ claims' = claims /\ loc'[p].off = FrontOffset
        BY <1>5, AddFacts DEF Pads
    <2>2. n <= Window /\ Window \in Nat /\ Window < TermLength
        BY <2>1, FrameLengthsType, TermLengthType DEF LayoutInv, HasLength
    <2>3. FrontOffset > 0 /\ ~FrontFull /\ FrontFull'
        BY <1>1, <2>1, <2>2 DEF FrontFull
    <2>4. claims # <<>> /\ claims[L].id = FrontTerm /\ FrontOffset = ClaimEnd(L)
        BY <1>1, <2>3 DEF Layout, LastClaim
    <2>5. L \in 1 .. L
        <3>1. L # 0
            BY <2>4 DEF ClaimInv, AppendTypeOK
        <3> QED BY <1>1, <3>1
    <2>6. OwnsGap(p)'
        <3>1. PICK l : l = L
            OBVIOUS
        <3>2. ClaimEnd(l)' = ClaimEnd(l)
            BY <3>1, <2>5, PositionsKept
        <3>3. Gap(l)'
            BY <2>1, <2>3, <2>4, <3>1, <3>2 DEF Gap
        <3> QED BY <2>1, <2>4, <2>5, <3>1, <3>2, <3>3 DEF OwnsGap
    <2>7. \A q \in Producers \ {p} : OwnsGap(q)'
        BY <1>2, <1>3 DEF OwnsGap
    <2>8. ASSUME NEW q \in Producers, ppc[q] \in Pads PROVE FALSE
        <3>1. PICK k \in 1 .. Len(claims) : Gap(k)
            BY <2>8 DEF PlaceInv, OwnsGap
        <3>2. /\ TermLength <= Front /\ claims[k].id = 0
            BY <3>1, GapPlace
        <3>3. FrontTerm = 1
            <4> SUFFICES ASSUME FrontTerm = 0 PROVE FALSE
                BY FrontInside
            <4>1. Front = FrontOffset
                BY <1>1, <2>1, FrontIs, FirstIndexes DEF minimum
            <4> QED BY <1>1, <2>1, <3>2, <4>1
        <3>4. FrontTerm' = 1 /\ FrontOffset' > TermLength
            BY <2>1, <3>3
        <3>5. FirstTerms' /\ FrontOffset' \in Nat
            BY <1>1, <2>1, FirstTermsStep
        <3> QED BY <1>1, <3>4, <3>5 DEF FirstTerms
    <2>9. OnePads'
        BY <1>2, <2>8 DEF OnePads
    <2> QED BY <1>1, <2>6, <2>7, <2>9, BehindStep DEF PlaceInv
<1> QED BY <1>4, <1>5
---------------------------------------------------------------------------
(* What the steps of the producers write. *)

\* A producer that writes a frame writes to the words of its claim, which no
\* subscriber has passed.
LEMMA OwnerIs == ClaimInv /\ LayoutInv /\ Behind => \A q \in Producers : ppc[q] \in Writes =>
    /\ loc[q].val \in 1 .. Len(claims) /\ loc[q].val \notin committed
    /\ loc[q].len = claims[loc[q].val].len
    /\ ClaimAddress(q) = ClaimPosition(loc[q].val)
    /\ Frame(q) = Span(loc[q].val)
    /\ minBytesConsumed <= ClaimPosition(loc[q].val)
<1> SUFFICES ASSUME ClaimInv, LayoutInv, Behind, NEW q \in Producers, ppc[q] \in Writes
             PROVE  /\ loc[q].val \in 1 .. Len(claims) /\ loc[q].val \notin committed
                    /\ loc[q].len = claims[loc[q].val].len
                    /\ ClaimAddress(q) = ClaimPosition(loc[q].val)
                    /\ Frame(q) = Span(loc[q].val)
                    /\ minBytesConsumed <= ClaimPosition(loc[q].val)
    OBVIOUS
<1>1. PICK k : k = loc[q].val
    OBVIOUS
<1>2. /\ k \in 1 .. Len(claims) /\ k \notin committed
      /\ loc[q].part = claims[k].part /\ loc[q].off = claims[k].off /\ loc[q].len = claims[k].len
    BY <1>1 DEF LayoutInv, OwnsClaim
<1>3. /\ Address(claims[k].part, claims[k].off) = ClaimPosition(k)
      /\ EndPosition(k) = ClaimPosition(k) + claims[k].len
    BY <1>2, Places
<1>4. ClaimAddress(q) = ClaimPosition(k) /\ Frame(q) = Span(k)
    <2>1. ClaimAddress(q) = ClaimPosition(k)
        BY <1>2, <1>3 DEF ClaimAddress
    <2>2. PICK a \in Nat, n \in Nat : a = ClaimPosition(k) /\ n = claims[k].len
        BY <1>2, Places
    <2>3. Frame(q) = a .. a + n - 1
        BY <1>2, <2>1, <2>2 DEF Frame
    <2>4. Span(k) = a .. (a + n) - 1
        BY <1>3, <2>2 DEF Span
    <2> QED BY <2>1, <2>3, <2>4
<1>5. PICK s \in Subscribers : minBytesConsumed = bytesConsumed[s]
    BY SlowestIs
<1> QED BY <1>1, <1>2, <1>4, <1>5 DEF Behind

\* The same after a step.
LEMMA OwnerIsNext == (ClaimInv /\ LayoutInv /\ Behind => \A q \in Producers : ppc[q] \in Writes =>
    /\ loc[q].val \in 1 .. Len(claims) /\ loc[q].val \notin committed
    /\ loc[q].len = claims[loc[q].val].len
    /\ ClaimAddress(q) = ClaimPosition(loc[q].val)
    /\ Frame(q) = Span(loc[q].val)
    /\ minBytesConsumed <= ClaimPosition(loc[q].val))'
BY OwnerIs, PTL

\* A producer that pads writes to the first word of the gap, and what it writes
\* as its length is the length of the gap.
LEMMA PadderIs == ClaimInv /\ LayoutInv /\ PlaceInv => \A q \in Producers : ppc[q] \in Pads =>
    /\ ClaimAddress(q) = loc[q].off
    /\ \E k \in 1 .. Len(claims) :
          Gap(k) /\ loc[q].off = EndPosition(k) /\ paddingLength(q) = GapLength(k)
<1> SUFFICES ASSUME ClaimInv, LayoutInv, PlaceInv, NEW q \in Producers, ppc[q] \in Pads
             PROVE  /\ ClaimAddress(q) = loc[q].off
                    /\ \E k \in 1 .. Len(claims) :
                         Gap(k) /\ loc[q].off = EndPosition(k) /\ paddingLength(q) = GapLength(k)
    OBVIOUS
<1>1. PICK k \in 1 .. Len(claims) : Gap(k) /\ loc[q].off = ClaimEnd(k)
    BY DEF PlaceInv, OwnsGap
<1>2. EndPosition(k) = ClaimEnd(k) /\ ClaimEnd(k) \in Nat
    BY <1>1, GapPlace
<1>3. loc[q].part = 0 /\ TermLength \in Nat
    BY TermLengthType DEF LayoutInv, FirstTerms
<1>4. capacity(loc[q].part) = TermLength
    BY <1>3 DEF capacity
<1>5. ClaimAddress(q) = loc[q].off
    BY <1>1, <1>2, <1>3 DEF ClaimAddress, Address
<1> QED BY <1>1, <1>2, <1>4, <1>5 DEF paddingLength, GapLength

\* Cleaning stays behind the slowest subscriber.
LEMMA CleansBehind ==
    ASSUME ClaimInv, BackInv, LayoutInv, Behind, NEW p \in Producers, CleanTerm(p)
    PROVE  \A x \in Addresses : x >= minBytesConsumed => mem'[x] = mem[x]
<1> DEFINE c == loc[p].clean
           n == cleanLength(c, loc[p].min)
<1> SUFFICES ASSUME NEW x \in Addresses, x >= minBytesConsumed PROVE mem'[x] = mem[x]
    OBVIOUS
<1>1. /\ ppc[p] = "clean" /\ AppendTypeOK /\ ProducerInv(p)
      /\ mem' = Fill(Address(indexByPosition(c), c % TermLength), n, Zero)
    BY DEF CleanTerm, Goto, ClaimInv
<1>2. c \in Nat /\ loc[p].min \in Nat /\ c < loc[p].min
    <2>1. loc[p] \in Locals
        BY <1>1 DEF AppendTypeOK
    <2> QED BY <1>1, <2>1 DEF Locals, ProducerInv, CleansForward
<1>3. loc[p].min <= minBytesConsumed
    BY <1>1 DEF BackInv, KnowsMin
<1>4. minBytesConsumed \in Nat /\ minBytesConsumed <= Front
    BY SlowestIs DEF Behind
<1>5. Front \in Nat /\ Front <= TermLength + TermLength /\ TermLength \in Nat /\ TermLength > 0
    BY FrontInside, TermLengthType
<1>6. c \in Addresses
    BY <1>2, <1>3, <1>4, <1>5 DEF Addresses, PARTITION_COUNT
<1>7. Address(indexByPosition(c), c % TermLength) = c
    BY <1>6, ReadsAt DEF ReadAddress
<1>8. n \in Int /\ n <= loc[p].min - c
    <2>1. c % TermLength \in Nat
        BY <1>2, <1>5
    <2> QED BY <1>2, <1>5, <2>1 DEF cleanLength, minimum
<1>9. x \in Nat
    BY <1>5 DEF Addresses, PARTITION_COUNT
<1> HIDE DEF n, c
<1>10. x \notin c .. c + n - 1
    BY <1>2, <1>3, <1>4, <1>8, <1>9
<1> QED BY <1>1, <1>7, <1>10 DEF Fill

\* Which action a producer takes depends on where it is.
LEMMA StepsOf ==
    ASSUME NEW p \in Producers, Produce(p)
    PROVE  /\ ppc[p] \in Writes => HeaderWrite(p) \/ PutBS(p) \/ CommitFrameType(p) \/ CommitFrameLength(p)
           /\ ppc[p] \in Pads => PaddingHeader(p) \/ PaddingType(p) \/ PaddingLength(p)
BY DEF Produce, ReadMinBytesConsumed, ReadCleanPosition, CleanTerm, CasCleanPosition,
       ReadActiveTermCount, ReadRawTail, ReadClaimTermCount, GetAndAddRawTail, HeaderWrite,
       PutBS, CommitFrameType, CommitFrameLength, NotifyReader, PaddingHeader, PaddingType,
       PaddingLength, RotateReadRawTail, CasRawTail, CasActiveTermCount, Goto, Return, Writes, Pads

\* Of the words that some subscriber has still to read, a step changes only those
\* of the producer's own claim or the header of its padding.
LEMMA Touches ==
    ASSUME ClaimInv, BackInv, LayoutInv, PlaceInv, NEW p \in Producers, Produce(p),
           NEW x \in Addresses, x >= minBytesConsumed,
           ~(ppc[p] \in Writes /\ x \in Frame(p)), ~(ppc[p] \in Pads /\ x = loc[p].off)
    PROVE  mem'[x] = mem[x]
<1>1. Behind /\ AppendTypeOK /\ mem \in [Addresses -> Words]
    BY DEF PlaceInv, ClaimInv, AppendTypeOK
<1>2. CASE CleanTerm(p)
    BY <1>1, <1>2, CleansBehind
<1>3. CASE HeaderWrite(p) \/ PutBS(p) \/ CommitFrameType(p) \/ CommitFrameLength(p)
    <2>1. ppc[p] \in Writes
        BY <1>3 DEF HeaderWrite, PutBS, CommitFrameType, CommitFrameLength, Goto, Writes
    <2>2. PICK a \in Nat : a = ClaimAddress(p)
        BY <1>1, <2>1, OwnerIs, Places
    <2>3. PICK n \in Nat : n = loc[p].len /\ n >= 2
        BY <1>1, <2>1, OwnerIs, Places
    <2>4. x \notin a .. a + n - 1 /\ x \in Nat
        BY <2>1, <2>2, <2>3, TermLengthType DEF Frame, Addresses, PARTITION_COUNT
    <2>5. x # a /\ x \notin a + 1 .. a + 1 + (n - 1) - 1
        BY <2>3, <2>4
    <2>6. CASE PutBS(p)
        <3>1. mem' = Fill(a + 1, n - 1, Payload(loc[p].val))
            BY <2>2, <2>3, <2>6 DEF PutBS
        <3> QED BY <2>5, <3>1 DEF Fill
    <2>7. CASE HeaderWrite(p) \/ CommitFrameType(p) \/ CommitFrameLength(p)
        BY <1>1, <2>2, <2>5, <2>7 DEF HeaderWrite, CommitFrameType, CommitFrameLength
    <2> QED BY <1>3, <2>6, <2>7
<1>4. CASE PaddingHeader(p) \/ PaddingType(p) \/ PaddingLength(p)
    <2>1. ppc[p] \in Pads
        BY <1>4 DEF PaddingHeader, PaddingType, PaddingLength, Goto, Pads
    <2>2. x # ClaimAddress(p)
        BY <2>1, PadderIs
    <2> QED BY <1>1, <1>4, <2>2 DEF PaddingHeader, PaddingType, PaddingLength
<1> QED BY <1>2, <1>3, <1>4, ProduceVars

\* The words of a claim that is not the producer's own, and the gap of others.
LEMMA OthersUntouched ==
    ASSUME ClaimInv, BackInv, LayoutInv, PlaceInv, NEW p \in Producers, Produce(p),
           NEW k \in 1 .. Len(claims)
    PROVE  /\ minBytesConsumed <= ClaimPosition(k) /\ ~(ppc[p] \in Writes /\ loc[p].val = k) =>
                \A x \in Span(k) : mem'[x] = mem[x]
           /\ Gap(k) /\ minBytesConsumed <= EndPosition(k) /\ ppc[p] \notin Pads =>
                mem'[EndPosition(k)] = mem[EndPosition(k)]
<1>1. Behind /\ minBytesConsumed \in Nat
    BY SlowestIs DEF PlaceInv
<1>2. ASSUME minBytesConsumed <= ClaimPosition(k), ~(ppc[p] \in Writes /\ loc[p].val = k), NEW x \in Span(k)
      PROVE  mem'[x] = mem[x]
    <2>1. x \in Addresses /\ x >= ClaimPosition(k) /\ ClaimPosition(k) \in Nat
        BY <1>2, Places
    <2>2. x >= minBytesConsumed
        BY <1>1, <1>2, <2>1, TermLengthType DEF Addresses, PARTITION_COUNT
    <2>3. ~(ppc[p] \in Writes /\ x \in Frame(p))
        BY <1>1, <1>2, OwnerIs, SpansApart
    <2>4. ~(ppc[p] \in Pads /\ x = loc[p].off)
        BY <1>2, PadderIs, GapPlace
    <2> QED BY <2>1, <2>2, <2>3, <2>4, Touches
<1>3. ASSUME Gap(k), minBytesConsumed <= EndPosition(k), ppc[p] \notin Pads
      PROVE  mem'[EndPosition(k)] = mem[EndPosition(k)]
    <2>1. EndPosition(k) \in Addresses
        BY <1>3, GapPlace
    <2>2. ~(ppc[p] \in Writes /\ EndPosition(k) \in Frame(p))
        BY <1>1, <1>3, OwnerIs, GapPlace
    <2> QED BY <1>3, <2>1, <2>2, Touches
<1> QED BY <1>2, <1>3

\* What a producer writes of its frame: the header ...
LEMMA FrameEffect ==
    ASSUME ClaimInv, LayoutInv, Behind, NEW p \in Producers, NEW a, a = ClaimAddress(p),
           HeaderWrite(p) \/ PutBS(p) \/ CommitFrameType(p) \/ CommitFrameLength(p)
    PROVE  /\ ppc[p] \in Writes /\ loc'[p] = loc[p]
           /\ HeaderWrite(p) => ppc[p] = "header" /\ ppc'[p] = "put" /\ mem'[a] = Header("Empty", -loc[p].len)
           /\ PutBS(p) => ppc[p] = "put" /\ ppc'[p] = "commitType" /\ mem'[a] = mem[a]
           /\ CommitFrameType(p) => /\ ppc[p] = "commitType" /\ ppc'[p] = "commitLength"
                                    /\ mem'[a] = [mem[a] EXCEPT !.tag = "Valid"]
           /\ CommitFrameLength(p) => /\ ppc[p] = "commitLength" /\ ppc'[p] = "notify"
                                      /\ committed' = committed \cup {loc[p].val}
                                      /\ mem'[a] = [mem[a] EXCEPT !.len = loc[p].len]
<1>1. /\ ppc[p] \in Writes /\ loc'[p] = loc[p] /\ p \in DOMAIN ppc
    BY DEF HeaderWrite, PutBS, CommitFrameType, CommitFrameLength, Goto, Writes, ClaimInv, AppendTypeOK
<1>2. PICK n \in Nat : n = loc[p].len /\ n >= 2
    BY <1>1, OwnerIs, Places
<1>3. /\ a \in Nat /\ a \in Addresses /\ mem \in [Addresses -> Words]
    BY <1>1, OwnerIs, Places DEF ClaimInv, AppendTypeOK
<1>5. ASSUME PutBS(p) PROVE ppc[p] = "put" /\ ppc'[p] = "commitType" /\ mem'[a] = mem[a]
    <2>1. mem' = Fill(a + 1, n - 1, Payload(loc[p].val)) /\ ppc[p] = "put" /\ ppc'[p] = "commitType"
        BY <1>1, <1>2, <1>5 DEF PutBS, Goto
    <2>2. a \notin a + 1 .. a + 1 + (n - 1) - 1
        BY <1>2, <1>3
    <2> QED BY <1>3, <2>1, <2>2 DEF Fill
<1>6. ASSUME HeaderWrite(p)
      PROVE  ppc[p] = "header" /\ ppc'[p] = "put" /\ mem'[a] = Header("Empty", -loc[p].len)
    BY <1>1, <1>3, <1>6 DEF HeaderWrite, Goto
<1>7. ASSUME CommitFrameType(p)
      PROVE  ppc[p] = "commitType" /\ ppc'[p] = "commitLength" /\ mem'[a] = [mem[a] EXCEPT !.tag = "Valid"]
    BY <1>1, <1>3, <1>7 DEF CommitFrameType, Goto
<1>8. ASSUME CommitFrameLength(p)
      PROVE  /\ ppc[p] = "commitLength" /\ ppc'[p] = "notify" /\ committed' = committed \cup {loc[p].val}
             /\ mem'[a] = [mem[a] EXCEPT !.len = loc[p].len]
    BY <1>1, <1>3, <1>8 DEF CommitFrameLength, Goto
<1> QED BY <1>1, <1>5, <1>6, <1>7, <1>8

\* ... and the payload.
LEMMA PayloadEffect ==
    ASSUME ClaimInv, LayoutInv, Behind, NEW p \in Producers, NEW x \in Frame(p), x # ClaimAddress(p),
           HeaderWrite(p) \/ PutBS(p) \/ CommitFrameType(p) \/ CommitFrameLength(p)
    PROVE  mem'[x] = IF ppc[p] = "put" THEN Payload(loc[p].val) ELSE mem[x]
<1>1. PICK a : a = ClaimAddress(p)
    OBVIOUS
<1>2. ppc[p] \in Writes
    BY <1>1, FrameEffect
<1>3. PICK n \in Nat : n = loc[p].len /\ n >= 2
    BY <1>2, OwnerIs, Places
<1>4. /\ a \in Nat /\ a \in Addresses /\ mem \in [Addresses -> Words] /\ x \in Addresses
    BY <1>1, <1>2, OwnerIs, Places DEF ClaimInv, AppendTypeOK
<1>5. x \in a .. a + n - 1
    BY <1>1, <1>3 DEF Frame
<1>6. CASE PutBS(p)
    <2>1. mem' = Fill(a + 1, n - 1, Payload(loc[p].val)) /\ ppc[p] = "put"
        BY <1>1, <1>3, <1>6 DEF PutBS, Goto
    <2>2. x \in a + 1 .. a + 1 + (n - 1) - 1
        BY <1>1, <1>3, <1>4, <1>5
    <2> QED BY <1>4, <2>1, <2>2 DEF Fill
<1>7. CASE HeaderWrite(p) \/ CommitFrameType(p) \/ CommitFrameLength(p)
    BY <1>4, <1>7 DEF HeaderWrite, CommitFrameType, CommitFrameLength, Goto
<1> QED BY <1>6, <1>7

\* What a producer writes of its padding.
LEMMA PadEffect ==
    ASSUME ClaimInv, LayoutInv, PlaceInv, NEW p \in Producers, NEW a, a = loc[p].off,
           PaddingHeader(p) \/ PaddingType(p) \/ PaddingLength(p)
    PROVE  /\ ppc[p] \in Pads
           /\ PaddingHeader(p) => /\ ppc[p] = "padHeader" /\ ppc'[p] = "padType" /\ loc'[p] = loc[p]
                                  /\ mem'[a] = Header("Empty", -paddingLength(p))
           /\ PaddingType(p) => /\ ppc[p] = "padType" /\ ppc'[p] = "padLength" /\ loc'[p] = loc[p]
                                /\ mem'[a] = [mem[a] EXCEPT !.tag = "Padding"]
           /\ PaddingLength(p) => /\ ppc[p] = "padLength" /\ ppc'[p] = "rotate"
                                  /\ mem'[a] = [mem[a] EXCEPT !.len = paddingLength(p)]
<1>1. ppc[p] \in Pads /\ p \in DOMAIN ppc /\ mem \in [Addresses -> Words]
    BY DEF PaddingHeader, PaddingType, PaddingLength, Goto, Pads, ClaimInv, AppendTypeOK
<1>2. ClaimAddress(p) = a /\ a \in Addresses
    BY <1>1, PadderIs, GapPlace
<1>3. ASSUME PaddingHeader(p)
      PROVE  /\ ppc[p] = "padHeader" /\ ppc'[p] = "padType" /\ loc'[p] = loc[p]
             /\ mem'[a] = Header("Empty", -paddingLength(p))
    BY <1>1, <1>2, <1>3 DEF PaddingHeader, Goto
<1>4. ASSUME PaddingType(p)
      PROVE  /\ ppc[p] = "padType" /\ ppc'[p] = "padLength" /\ loc'[p] = loc[p]
             /\ mem'[a] = [mem[a] EXCEPT !.tag = "Padding"]
    BY <1>1, <1>2, <1>4 DEF PaddingType, Goto
<1>5. ASSUME PaddingLength(p)
      PROVE  /\ ppc[p] = "padLength" /\ ppc'[p] = "rotate"
             /\ mem'[a] = [mem[a] EXCEPT !.len = paddingLength(p)]
    BY <1>1, <1>2, <1>5 DEF PaddingLength, Goto
<1> QED BY <1>1, <1>3, <1>4, <1>5
---------------------------------------------------------------------------
(* The memory, while no frame has left its term. *)

\* What is committed, by the positions of the words.
LEMMA CommittedIs ==
    ASSUME ClaimInv, LayoutInv, NEW k \in 1 .. Len(claims)
    PROVE  Committed(k) <=> /\ mem[ClaimPosition(k)] = Header("Valid", claims[k].len)
                            /\ \A x \in Span(k) : x # ClaimPosition(k) => mem[x] = Payload(k)
<1>1. PICK a \in Nat, n \in Nat : a = ClaimPosition(k) /\ n = claims[k].len
    BY Places
<1>2. Address(claims[k].part, claims[k].off) = a /\ Span(k) = a .. a + n - 1
    BY <1>1, Places DEF Span
<1>3. ASSUME Committed(k), NEW x \in Span(k), x # a PROVE mem[x] = Payload(k)
    <2>1. x - a \in 1 .. n - 1 /\ a + (x - a) = x
        BY <1>1, <1>2, <1>3
    <2>2. mem[a + (x - a)] = Payload(k)
        BY <1>1, <1>2, <1>3, <2>1 DEF Committed
    <2> QED BY <2>1, <2>2
<1>4. ASSUME \A x \in Span(k) : x # a => mem[x] = Payload(k), NEW j \in 1 .. n - 1
      PROVE  mem[a + j] = Payload(k)
    <2>1. a + j \in a .. a + n - 1 /\ a + j # a
        BY <1>1
    <2> QED BY <1>2, <1>4, <2>1
<1>5. Committed(k) <=> /\ mem[a] = Header("Valid", n)
                       /\ \A j \in 1 .. n - 1 : mem[a + j] = Payload(k)
    BY <1>1, <1>2 DEF Committed
<1> QED BY <1>1, <1>3, <1>4, <1>5

\* The same after a step.
LEMMA CommittedIsNext ==
    ASSUME ClaimInv, LayoutInv, ClaimInv', LayoutInv', NEW k \in 1 .. Len(claims),
           k \in 1 .. Len(claims'), claims'[k] = claims[k], ClaimPosition(k)' = ClaimPosition(k),
           mem'[ClaimPosition(k)] = Header("Valid", claims[k].len),
           \A x \in Span(k) : x # ClaimPosition(k) => mem'[x] = Payload(k)
    PROVE  Committed(k)'
<1>1. PICK a \in Nat, n \in Nat : a = ClaimPosition(k) /\ n = claims[k].len
    BY Places
<1>2. Address(claims[k].part, claims[k].off) = a /\ Span(k) = a .. a + n - 1
    BY <1>1, Places DEF Span
<1>3. ASSUME NEW j \in 1 .. n - 1 PROVE mem'[a + j] = Payload(k)
    <2>1. a + j \in a .. a + n - 1 /\ a + j # a
        BY <1>1
    <2> QED BY <1>1, <1>2, <2>1
<1> QED BY <1>1, <1>2, <1>3 DEF Committed

\* Committed frames stay as they are until they are consumed.
LEMMA UnreadStep ==
    ASSUME ClaimInv, BackInv, LayoutInv, PlaceInv, MemInv, ClaimsInsideTerm', NEW p \in Producers, Produce(p)
    PROVE  UnreadIntact'
<1> SUFFICES ASSUME NEW k \in committed', ClaimPosition(k)' >= minBytesConsumed' PROVE Committed(k)'
    BY DEF UnreadIntact
<1>1. minBytesConsumed' = minBytesConsumed /\ Behind
    BY ProduceVars DEF minBytesConsumed, PlaceInv
<1>2. committed \subseteq 1 .. Len(claims)
    BY DEF LayoutInv, Layout
<1>3. /\ k \in 1 .. Len(claims)
      /\ k \in committed \/ (CommitFrameLength(p) /\ k = loc[p].val /\ ppc[p] \in Writes)
    <2>1. CASE k \in committed
        BY <1>2, <2>1
    <2>2. CASE k \notin committed
        <3>1. CommitFrameLength(p)
            BY <2>2, ProduceVars
        <3>2. ppc[p] \in Writes /\ k = loc[p].val
            BY <2>2, <3>1, FrameEffect, <1>1
        <3> QED BY <1>1, <3>1, <3>2, OwnerIs
    <2> QED BY <2>1, <2>2
<1>4. claims'[k] = claims[k] /\ ClaimPosition(k) >= minBytesConsumed
      /\ k \in 1 .. Len(claims') /\ ClaimPosition(k)' = ClaimPosition(k)
      /\ Address(claims[k].part, claims[k].off) = ClaimPosition(k) /\ ClaimPosition(k) \in Span(k)
    BY <1>1, <1>3, PositionsKept, Places, ClaimsGrow
<1>8. ClaimInv' /\ LayoutInv'
    BY ClaimInvProduce, LayoutProduce
<1>5. SUFFICES /\ mem'[ClaimPosition(k)] = Header("Valid", claims[k].len)
               /\ \A x \in Span(k) : x # ClaimPosition(k) => mem'[x] = Payload(k)
    BY <1>3, <1>4, <1>8, CommittedIsNext
<1>6. CASE k \in committed
    <2>1. Committed(k)
        BY <1>4, <1>6 DEF MemInv, UnreadIntact
    <2>2. /\ mem[ClaimPosition(k)] = Header("Valid", claims[k].len)
          /\ \A x \in Span(k) : x # ClaimPosition(k) => mem[x] = Payload(k)
        BY <1>3, <2>1, CommittedIs
    <2>3. ~(ppc[p] \in Writes /\ loc[p].val = k)
        BY <1>1, <1>6, OwnerIs
    <2>4. \A x \in Span(k) : mem'[x] = mem[x]
        BY <1>3, <1>4, <2>3, OthersUntouched
    <2> QED BY <1>4, <2>2, <2>4
<1>7. CASE CommitFrameLength(p) /\ k = loc[p].val /\ ppc[p] \in Writes
    <2>1. /\ ClaimAddress(p) = ClaimPosition(k) /\ Frame(p) = Span(k) /\ loc[p].len = claims[k].len
        BY <1>1, <1>7, OwnerIs
    <2>2. PICK a : a = ClaimAddress(p)
        OBVIOUS
    <2>3. /\ ppc[p] = "commitLength" /\ mem'[a] = [mem[a] EXCEPT !.len = loc[p].len] /\ ~PutBS(p)
        BY <1>1, <1>7, <2>2, FrameEffect DEF PutBS, Goto
    <2>4. \A x \in Frame(p) : x # a => mem'[x] = mem[x]
        BY <1>1, <1>7, <2>2, <2>3, PayloadEffect
    <2>5. mem[a] = Header("Valid", -loc[p].len)
          /\ \A x \in Frame(p) : x # a => mem[x] = Payload(loc[p].val)
        BY <2>2, <2>3 DEF MemInv, Written, PayloadWritten
    <2>6. mem'[a] = Header("Valid", loc[p].len)
        BY <2>3, <2>5 DEF Header
    <2> QED BY <1>7, <2>1, <2>2, <2>4, <2>5, <2>6
<1> QED BY <1>3, <1>6, <1>7

\* What the header of an uncommitted claim says.
LEMMA UncommittedStep ==
    ASSUME ClaimInv, BackInv, LayoutInv, PlaceInv, MemInv, ClaimsInsideTerm', NEW p \in Producers, Produce(p)
    PROVE  Uncommitted'
<1> DEFINE Headers(n) == {Zero, Header("Empty", -n), Header("Valid", -n)}
<1> SUFFICES ASSUME NEW k \in 1 .. Len(claims'), k \notin committed'
             PROVE  mem'[ClaimPosition(k)'] \in Headers(claims'[k].len)
    BY DEF Uncommitted
<1>1. Behind /\ committed \subseteq committed'
    BY ProduceVars DEF PlaceInv, CommitFrameLength
<1>2. CASE k \notin 1 .. Len(claims)
    <2>1. claims' # claims
        BY <1>2
    <2>2. mem' = mem
        BY <2>1, ProduceVars DEF GetAndAddRawTail
    <2>3. ClaimPosition(k)' = Front /\ Front \in Nat /\ Front \in Addresses
        BY <1>2, FrontGrows, FrontInside
    <2>4. mem[Front] = Zero
        BY <2>3 DEF MemInv, FreeIsZero
    <2> QED BY <2>2, <2>3, <2>4
<1>3. CASE k \in 1 .. Len(claims)
    <2>1. ClaimPosition(k)' = ClaimPosition(k) /\ claims'[k] = claims[k] /\ k \notin committed
          /\ ClaimPosition(k) \in Span(k)
        BY <1>1, <1>3, PositionsKept, Places
    <2>2. mem[ClaimPosition(k)] \in Headers(claims[k].len)
        BY <1>3, <2>1 DEF MemInv, Uncommitted
    <2>3. minBytesConsumed <= ClaimPosition(k)
        <3>1. PICK s \in Subscribers : minBytesConsumed = bytesConsumed[s]
            BY SlowestIs
        <3> QED BY <1>1, <1>3, <2>1, <3>1 DEF Behind
    <2>4. CASE ~(ppc[p] \in Writes /\ loc[p].val = k)
        BY <1>3, <2>1, <2>2, <2>3, <2>4, OthersUntouched
    <2>5. CASE ppc[p] \in Writes /\ loc[p].val = k
        <3>1. PICK a : a = ClaimAddress(p)
            OBVIOUS
        <3>2. a = ClaimPosition(k) /\ loc[p].len = claims[k].len
            BY <1>1, <2>5, <3>1, OwnerIs
        <3>3. HeaderWrite(p) \/ PutBS(p) \/ CommitFrameType(p) \/ CommitFrameLength(p)
            BY <2>5, StepsOf
        <3>4. CASE HeaderWrite(p)
            <4>1. mem'[a] = Header("Empty", -loc[p].len)
                BY <1>1, <3>1, <3>3, <3>4, FrameEffect
            <4> QED BY <2>1, <3>2, <4>1
        <3>5. CASE PutBS(p)
            BY <1>1, <2>1, <2>2, <3>1, <3>2, <3>5, FrameEffect
        <3>6. CASE CommitFrameType(p)
            <4>1. ppc[p] = "commitType" /\ mem'[a] = [mem[a] EXCEPT !.tag = "Valid"]
                BY <1>1, <3>1, <3>6, FrameEffect
            <4>2. mem[a] = Header("Empty", -loc[p].len)
                BY <3>1, <4>1 DEF MemInv, Written
            <4>3. mem'[a] = Header("Valid", -loc[p].len)
                BY <4>1, <4>2 DEF Header
            <4> QED BY <2>1, <3>2, <4>3
        <3>7. CASE CommitFrameLength(p)
            <4>1. loc[p].val \in committed'
                BY <1>1, <3>1, <3>7, FrameEffect
            <4> QED BY <2>5, <4>1
        <3> QED BY <3>3, <3>4, <3>5, <3>6, <3>7
    <2> QED BY <2>4, <2>5
<1> QED BY <1>2, <1>3

\* The words behind the front stay zero.
LEMMA FreeStep ==
    ASSUME ClaimInv, BackInv, LayoutInv, PlaceInv, MemInv, ClaimsInsideTerm', NEW p \in Producers, Produce(p)
    PROVE  FreeIsZero'
<1> SUFFICES ASSUME NEW x \in Addresses, x >= Front' PROVE mem'[x] = Zero
    BY DEF FreeIsZero
<1>1. Front \in Nat /\ Front' \in Nat /\ Front <= Front' /\ Behind
      /\ minBytesConsumed \in Nat /\ minBytesConsumed <= Front
    BY FrontGrows, SlowestIs DEF PlaceInv, Behind
<1>2. x \in Nat /\ x >= Front /\ x >= minBytesConsumed
    BY <1>1, TermLengthType DEF Addresses, PARTITION_COUNT
<1>3. mem[x] = Zero
    BY <1>2 DEF MemInv, FreeIsZero
<1>4. ~(ppc[p] \in Writes /\ x \in Frame(p))
    <2>1. ppc[p] \in Writes => \A y \in Frame(p) : y < Front /\ y \in Addresses
        BY <1>1, OwnerIs, Places
    <2> QED BY <1>1, <1>2, <2>1
<1>5. ~(ppc[p] \in Pads /\ x = loc[p].off)
    <2>1. ppc[p] \in Pads => loc[p].off < Front /\ loc[p].off \in Nat
        BY PadderIs, GapPlace
    <2> QED BY <1>1, <1>2, <2>1
<1> QED BY <1>2, <1>3, <1>4, <1>5, Touches

\* A new claim is of zeroed words, and the frame is written in its order.
LEMMA WrittenStep ==
    ASSUME ClaimInv, BackInv, LayoutInv, PlaceInv, MemInv, ClaimsInsideTerm', NEW p \in Producers, Produce(p)
    PROVE  \A q \in Producers : Written(q)'
<1>1. /\ Behind /\ AppendTypeOK /\ \A q \in Producers \ {p} : ppc'[q] = ppc[q] /\ loc'[q] = loc[q]
    BY OneProducer DEF PlaceInv, ClaimInv
<1>2. ASSUME NEW q \in Producers, q # p PROVE Written(q)'
    <2>1. CASE ppc[q] \notin Writes
        BY <1>1, <1>2, <2>1 DEF Written, Writes
    <2>2. CASE ppc[q] \in Writes
        <3>1. PICK k : k = loc[q].val
            OBVIOUS
        <3>2. /\ k \in 1 .. Len(claims) /\ Frame(q) = Span(k) /\ ClaimAddress(q) = ClaimPosition(k)
              /\ minBytesConsumed <= ClaimPosition(k) /\ ClaimPosition(k) \in Span(k)
            BY <1>1, <2>2, <3>1, OwnerIs, Places
        <3>3. ~(ppc[p] \in Writes /\ loc[p].val = k)
            BY <1>2, <2>2, <3>1 DEF LayoutInv, OwnersDiffer
        <3>4. \A x \in Frame(q) : mem'[x] = mem[x]
            BY <3>2, <3>3, OthersUntouched
        <3>5. /\ ppc'[q] = ppc[q] /\ loc'[q] = loc[q] /\ ClaimAddress(q)' = ClaimAddress(q)
              /\ Frame(q)' = Frame(q) /\ mem'[ClaimAddress(q)] = mem[ClaimAddress(q)]
            BY <1>1, <1>2, <3>2, <3>4 DEF ClaimAddress, Frame
        <3>6. Written(q)
            BY DEF MemInv
        <3> QED BY <3>4, <3>5, <3>6 DEF Written, PayloadWritten
    <2> QED BY <2>1, <2>2
<1>3. CASE ppc'[p] \notin Writes
    BY <1>2, <1>3 DEF Written, Writes
<1>4. CASE ppc'[p] \in Writes /\ GetAndAddRawTail(p)
    <2>1. /\ ppc'[p] = "header" /\ mem' = mem /\ loc'[p].val = Len(claims')
          /\ Len(claims') = Len(claims) + 1
        <3>1. /\ ppc'[p] = "header" /\ mem' = mem /\ loc'[p].val = Len(claims')
              /\ claims' = Append(claims, [id |-> FrontTerm, part |-> indexByTermCount(FrontTerm),
                                           off |-> FrontOffset, len |-> loc[p].len])
            BY <1>4, AddFacts DEF Writes
        <3> QED BY <1>1, <3>1 DEF AppendTypeOK
    <2>2. ClaimInv' /\ LayoutInv' /\ Behind'
        BY <1>1, ClaimInvProduce, LayoutProduce, BehindStep
    <2>3. PICK k : k = loc'[p].val
        OBVIOUS
    <2>4. k \in 1 .. Len(claims') /\ k \notin 1 .. Len(claims)
        BY <1>1, <2>1, <2>3 DEF AppendTypeOK
    <2>5. ClaimAddress(p)' = ClaimPosition(k)' /\ Frame(p)' = Span(k)'
        BY <1>4, <2>2, <2>3, OwnerIsNext
    <2>8. ClaimPosition(k)' = Front /\ Front \in Nat
        BY <2>4, FrontGrows
    <2>6. ASSUME NEW x \in Frame(p)' PROVE mem'[x] = Zero
        <3>1. x \in Addresses /\ x >= ClaimPosition(k)'
            BY <2>2, <2>4, <2>5, <2>6, PlacesNext
        <3> QED BY <2>1, <2>8, <3>1 DEF MemInv, FreeIsZero
    <2>7. Written(p)'
        BY <2>1, <2>6 DEF Written
    <2> QED BY <1>2, <2>7
<1>5. CASE ppc'[p] \in Writes /\ ~GetAndAddRawTail(p)
    <2> SUFFICES Written(p)'
        BY <1>2
    <2>1. /\ HeaderWrite(p) \/ PutBS(p) \/ CommitFrameType(p)
          /\ ppc[p] \in Writes /\ loc'[p] = loc[p]
        BY <1>1, <1>5, ProduceLabels
    <2>2. PICK a : a = ClaimAddress(p)
        OBVIOUS
    <2>3. ClaimAddress(p)' = a /\ Frame(p)' = Frame(p) /\ Written(p) /\ p \in DOMAIN ppc
        BY <1>1, <2>1, <2>2 DEF ClaimAddress, Frame, MemInv, AppendTypeOK
    <2>4. CASE HeaderWrite(p)
        <3>1. HeaderWrite(p) \/ PutBS(p) \/ CommitFrameType(p) \/ CommitFrameLength(p)
            BY <2>4
        <3>2. ppc'[p] = "put" /\ mem'[a] = Header("Empty", -loc[p].len)
            BY <1>1, <2>2, <2>4, <3>1, FrameEffect
        <3>3. mem'[ClaimAddress(p)'] = Header("Empty", -loc'[p].len)
            BY <2>1, <2>3, <3>2
        <3> QED BY <3>2, <3>3 DEF Written
    <2>5. CASE PutBS(p)
        <3>1. HeaderWrite(p) \/ PutBS(p) \/ CommitFrameType(p) \/ CommitFrameLength(p)
            BY <2>5
        <3>2. ppc[p] = "put" /\ ppc'[p] = "commitType" /\ mem'[a] = mem[a]
            BY <1>1, <2>2, <2>5, <3>1, FrameEffect
        <3>3. mem[a] = Header("Empty", -loc[p].len)
            BY <2>2, <2>3, <3>2 DEF Written
        <3>4. \A x \in Frame(p) : x # a => mem'[x] = Payload(loc[p].val)
            BY <1>1, <2>2, <3>1, <3>2, PayloadEffect
        <3>5. PayloadWritten(p)'
            BY <2>1, <2>3, <3>4 DEF PayloadWritten
        <3>6. mem'[ClaimAddress(p)'] = Header("Empty", -loc'[p].len)
            BY <2>1, <2>3, <3>2, <3>3
        <3> QED BY <3>2, <3>5, <3>6 DEF Written
    <2>6. CASE CommitFrameType(p)
        <3>1. HeaderWrite(p) \/ PutBS(p) \/ CommitFrameType(p) \/ CommitFrameLength(p)
            BY <2>6
        <3>2. /\ ppc[p] = "commitType" /\ ppc'[p] = "commitLength"
              /\ mem'[a] = [mem[a] EXCEPT !.tag = "Valid"]
            BY <1>1, <2>2, <2>6, <3>1, FrameEffect
        <3>3. \A x \in Frame(p) : x # a => mem'[x] = mem[x]
            BY <1>1, <2>2, <3>1, <3>2, PayloadEffect
        <3>4. mem[a] = Header("Empty", -loc[p].len) /\ PayloadWritten(p)
            BY <2>2, <2>3, <3>2 DEF Written
        <3>5. mem'[a] = Header("Valid", -loc[p].len)
            BY <3>2, <3>4 DEF Header
        <3>6. PayloadWritten(p)'
            BY <2>1, <2>2, <2>3, <3>3, <3>4 DEF PayloadWritten
        <3>7. mem'[ClaimAddress(p)'] = Header("Valid", -loc'[p].len)
            BY <2>1, <2>3, <3>5
        <3> QED BY <3>2, <3>6, <3>7 DEF Written
    <2> QED BY <2>1, <2>4, <2>5, <2>6
<1> QED BY <1>3, <1>4, <1>5

\* A gap that a step makes is where the next claim would have gone.
LEMMA GapNew ==
    ASSUME ClaimInv, LayoutInv, ClaimsInsideTerm', NEW p \in Producers, Produce(p),
           NEW k \in 1 .. Len(claims'), Gap(k)'
    PROVE  /\ k \in 1 .. Len(claims)
           /\ \/ Gap(k)
              \/ EndPosition(k) = Front
<1>1. /\ Layout /\ Len(claims) \in Nat /\ FrontTerm \in Nat /\ FrontOffset \in Nat /\ TermLength \in Nat
    BY FrontIs, TermLengthType DEF LayoutInv, ClaimInv, AppendTypeOK
<1>2. \A l \in 1 .. Len(claims) : claims'[l] = claims[l] /\ ClaimEnd(l)' = ClaimEnd(l)
    BY PositionsKept
<1>3. \A l \in 1 .. Len(claims) : /\ claims[l].id \in Nat /\ claims[l].id <= FrontTerm
                                  /\ claims[l].part = indexByTermCount(claims[l].id)
    BY <1>1, ClaimGeometry
<1>4. CASE claims' = claims
    <2>1. k \in 1 .. Len(claims) /\ ClaimEnd(k) < TermLength
        BY <1>2, <1>4 DEF Gap
    <2>2. CASE k # Len(claims)
        BY <1>4, <2>1, <2>2 DEF Gap
    <2>3. CASE k = Len(claims) /\ (FrontFull \/ claims[k].id # FrontTerm)
        BY <2>1, <2>3 DEF Gap
    <2>4. CASE k = Len(claims) /\ ~FrontFull /\ claims[k].id = FrontTerm
        <3>1. claims # <<>>
            BY <2>1, <2>4 DEF ClaimInv, AppendTypeOK
        <3>2. FrontOffset = ClaimEnd(k)
            BY <1>1, <1>3, <2>1, <2>4, <3>1 DEF Layout, LastClaim
        <3>3. EndPosition(k) = Start(FrontTerm) + FrontOffset
            BY <1>1, <2>1, <2>4, <3>2, ClaimGeometry
        <3>4. Front = Start(FrontTerm) + FrontOffset
            BY <1>1, <2>1, <3>2, FrontIs DEF minimum
        <3> QED BY <2>1, <3>3, <3>4
    <2> QED BY <2>2, <2>3, <2>4
<1>5. CASE claims' # claims
    <2>1. /\ GetAndAddRawTail(p) /\ FrontTerm' = FrontTerm
          /\ FrontOffset' <= TermLength /\ Len(claims') = Len(claims) + 1
          /\ claims'[Len(claims) + 1] = [id |-> FrontTerm, part |-> indexByTermCount(FrontTerm),
                                            off |-> FrontOffset, len |-> loc[p].len]
        BY <1>5, FrontSteps
    <2>2. FrontOffset' \in Nat
        BY FrontIsNext, ClaimInvProduce
    <2>3. ~FrontFull'
        BY <1>1, <2>1, <2>2 DEF FrontFull
    <2>4. claims'[Len(claims) + 1].id = FrontTerm
        BY <2>1
    <2>5. k # Len(claims) + 1
        BY <2>1, <2>3, <2>4 DEF Gap
    <2>6. k \in 1 .. Len(claims) /\ k # Len(claims')
        BY <1>1, <2>1, <2>5
    <2>7. claims'[k + 1].id # claims[k].id /\ ClaimEnd(k) < TermLength
        BY <1>2, <2>6 DEF Gap
    <2>8. CASE k = Len(claims)
        BY <2>4, <2>6, <2>7, <2>8 DEF Gap
    <2>9. CASE k # Len(claims)
        <3>1. k + 1 \in 1 .. Len(claims)
            BY <1>1, <2>6, <2>9
        <3> QED BY <1>2, <2>6, <2>7, <2>9, <3>1 DEF Gap
    <2> QED BY <2>6, <2>8, <2>9
<1> QED BY <1>4, <1>5

\* A gap holds nothing, or padding.
LEMMA GapsStep ==
    ASSUME ClaimInv, BackInv, LayoutInv, PlaceInv, MemInv, ClaimsInsideTerm', NEW p \in Producers, Produce(p)
    PROVE  GapsKept'
<1> SUFFICES ASSUME NEW k \in 1 .. Len(claims'), Gap(k)', EndPosition(k)' >= minBytesConsumed'
             PROVE  mem'[EndPosition(k)'] \in GapWords(k)'
    BY DEF GapsKept
<1>1. k \in 1 .. Len(claims) /\ (Gap(k) \/ EndPosition(k) = Front)
    BY GapNew
<1>2. /\ EndPosition(k)' = EndPosition(k) /\ GapWords(k)' = GapWords(k)
      /\ minBytesConsumed' = minBytesConsumed /\ minBytesConsumed \in Nat
    BY <1>1, PositionsKept, ProduceVars, SlowestIs DEF GapWords, GapLength, minBytesConsumed
<1>3. EndPosition(k) \in Nat /\ minBytesConsumed <= EndPosition(k)
    BY <1>1, <1>2, Places
<1>4. CASE ~Gap(k)
    <2>1. EndPosition(k) = Front /\ Front \in Addresses /\ Front \in Nat
        BY <1>1, <1>4, FrontInside
    <2>2. mem[Front] = Zero
        BY <2>1 DEF MemInv, FreeIsZero
    <2>3. ~(ppc[p] \in Writes /\ Front \in Frame(p))
        BY <2>1, OwnerIs, Places DEF PlaceInv
    <2>4. ~(ppc[p] \in Pads /\ Front = loc[p].off)
        BY <2>1, PadderIs, GapPlace
    <2>5. mem'[Front] = Zero
        BY <1>3, <2>1, <2>2, <2>3, <2>4, Touches
    <2> QED BY <1>2, <2>1, <2>5 DEF GapWords
<1>5. CASE Gap(k) /\ ppc[p] \notin Pads
    BY <1>1, <1>2, <1>3, <1>5, OthersUntouched DEF MemInv, GapsKept
<1>6. CASE Gap(k) /\ ppc[p] \in Pads
    <2>1. PICK a : a = loc[p].off
        OBVIOUS
    <2>2. a = EndPosition(k) /\ paddingLength(p) = GapLength(k)
        BY <1>1, <1>6, <2>1, PadderIs, GapPlace
    <2>3. Padded(p) /\ minBytesConsumed <= loc[p].off
        BY <1>3, <2>1, <2>2 DEF MemInv
    <2>4. PaddingHeader(p) \/ PaddingType(p) \/ PaddingLength(p)
        BY <1>6, StepsOf
    <2>5. CASE PaddingHeader(p)
        <3>1. mem'[a] = Header("Empty", -paddingLength(p))
            BY <2>1, <2>4, <2>5, PadEffect
        <3> QED BY <1>2, <2>2, <3>1 DEF GapWords
    <2>6. CASE PaddingType(p)
        <3>1. ppc[p] = "padType" /\ mem'[a] = [mem[a] EXCEPT !.tag = "Padding"]
            BY <2>1, <2>6, PadEffect
        <3>2. mem[a] = Header("Empty", -paddingLength(p))
            BY <2>1, <2>3, <3>1 DEF Padded
        <3>3. mem'[a] = Header("Padding", -paddingLength(p))
            BY <3>1, <3>2 DEF Header
        <3> QED BY <1>2, <2>2, <3>3 DEF GapWords
    <2>7. CASE PaddingLength(p)
        <3>1. ppc[p] = "padLength" /\ mem'[a] = [mem[a] EXCEPT !.len = paddingLength(p)]
            BY <2>1, <2>7, PadEffect
        <3>2. mem[a] = Header("Padding", -paddingLength(p))
            BY <2>1, <2>3, <3>1 DEF Padded
        <3>3. mem'[a] = Header("Padding", paddingLength(p))
            BY <3>1, <3>2 DEF Header
        <3> QED BY <1>2, <2>2, <3>3 DEF GapWords
    <2> QED BY <2>4, <2>5, <2>6, <2>7
<1> QED BY <1>4, <1>5, <1>6

\* Padding is written in its order, unless it has been passed.
LEMMA PaddedStep ==
    ASSUME ClaimInv, BackInv, LayoutInv, PlaceInv, MemInv, ClaimsInsideTerm', NEW p \in Producers, Produce(p)
    PROVE  \A q \in Producers : Padded(q)'
<1> SUFFICES ASSUME NEW q \in Producers, minBytesConsumed' <= loc'[q].off, ppc'[q] \in Pads PROVE Padded(q)'
    BY DEF Padded, Pads
<1>1. /\ AppendTypeOK /\ minBytesConsumed' = minBytesConsumed /\ p \in DOMAIN ppc
      /\ \A r \in Producers \ {p} : ppc'[r] = ppc[r] /\ loc'[r] = loc[r]
    BY OneProducer, ProduceVars DEF ClaimInv, AppendTypeOK, minBytesConsumed
<1>2. CASE q # p
    <2>1. ppc'[q] = ppc[q] /\ loc'[q] = loc[q] /\ paddingLength(q)' = paddingLength(q) /\ Padded(q)
        BY <1>1, <1>2 DEF paddingLength, capacity, MemInv
    <2>2. ppc[p] \notin Pads
        BY <1>2, <2>1 DEF PlaceInv, OnePads
    <2>3. PICK k \in 1 .. Len(claims) : Gap(k) /\ loc[q].off = EndPosition(k)
        BY <2>1, PadderIs
    <2>4. mem'[loc[q].off] = mem[loc[q].off]
        BY <1>1, <2>1, <2>2, <2>3, OthersUntouched
    <2> QED BY <1>1, <2>1, <2>4 DEF Padded
<1>3. CASE q = p /\ GetAndAddRawTail(p)
    <2>1. /\ ppc'[p] = "padHeader" /\ mem' = mem /\ loc'[p].off = FrontOffset /\ FrontOffset < TermLength
        BY <1>3, AddFacts DEF Pads
    <2>2. /\ FrontTerm' = FrontTerm /\ FrontOffset + loc[p].len > TermLength
          /\ FrontOffset' = FrontOffset + loc[p].len
        BY <1>3, <2>1, AddFacts
    <2>3. FrontTerm = 0
        <3>1. FirstTerms' /\ FrontTerm \in {0, 1} /\ FrontOffset' \in Nat /\ TermLength \in Nat
            BY FirstTermsStep, FrontInside, ClaimInvProduce, FrontIsNext, TermLengthType
        <3> QED BY <2>2, <3>1 DEF FirstTerms
    <2>4. Front = FrontOffset /\ Front \in Nat /\ Front \in Addresses
        BY <2>1, <2>3, FrontIs, FirstIndexes, FrontInside, TermLengthType DEF minimum
    <2>5. mem'[loc'[p].off] = Zero
        BY <2>1, <2>4 DEF MemInv, FreeIsZero
    <2> QED BY <1>3, <2>1, <2>5 DEF Padded
<1>4. CASE q = p /\ ~GetAndAddRawTail(p)
    <2>1. PICK a : a = loc[p].off
        OBVIOUS
    <2>2. PaddingHeader(p) \/ PaddingType(p)
        BY <1>1, <1>4, ProduceLabels
    <2>3. CASE PaddingHeader(p)
        <3>1. /\ ppc'[p] = "padType" /\ loc'[p] = loc[p] /\ mem'[a] = Header("Empty", -paddingLength(p))
            BY <2>1, <2>3, PadEffect
        <3>2. paddingLength(p)' = paddingLength(p)
            BY <3>1 DEF paddingLength, capacity
        <3> QED BY <1>4, <2>1, <3>1, <3>2 DEF Padded
    <2>4. CASE PaddingType(p)
        <3>1. /\ ppc[p] = "padType" /\ ppc'[p] = "padLength" /\ loc'[p] = loc[p]
              /\ mem'[a] = [mem[a] EXCEPT !.tag = "Padding"]
            BY <2>1, <2>4, PadEffect
        <3>2. paddingLength(p)' = paddingLength(p) /\ minBytesConsumed <= loc[p].off
            BY <1>1, <1>4, <3>1 DEF paddingLength, capacity
        <3>3. mem[a] = Header("Empty", -paddingLength(p))
            BY <2>1, <3>1, <3>2 DEF MemInv, Padded
        <3>4. mem'[a] = Header("Padding", -paddingLength(p))
            BY <3>1, <3>3 DEF Header
        <3> QED BY <1>4, <2>1, <3>1, <3>2, <3>4 DEF Padded
    <2> QED BY <2>2, <2>3, <2>4
<1> QED BY <1>2, <1>3, <1>4

\* Every step of a producer keeps the memory in order.
LEMMA MemInvProduce ==
    ASSUME ClaimInv, BackInv, LayoutInv, PlaceInv, MemInv, ClaimsInsideTerm', NEW p \in Producers, Produce(p)
    PROVE  MemInv'
BY UnreadStep, UncommittedStep, GapsStep, FreeStep, WrittenStep, PaddedStep DEF MemInv

\* The subscribers and the memory initially.
LEMMA MemInvInit == AppendInit => PlaceInv /\ MemInv
<1> SUFFICES ASSUME AppendInit PROVE PlaceInv /\ MemInv
    OBVIOUS
<1>1. claims = <<>> /\ committed = {} /\ \A p \in Producers : ppc[p] = "idle"
    BY DEF AppendInit
<1>2. Front \in Nat
    BY ClaimInvInit, FrontType
<1>3. Behind
    BY <1>1, <1>2 DEF Behind, AppendInit
<1>4. OnePads /\ \A p \in Producers : OwnsGap(p)
    BY <1>1 DEF OnePads, OwnsGap, Pads
<1>5. FreeIsZero
    BY DEF FreeIsZero, AppendInit
<1>6. UnreadIntact /\ Uncommitted /\ GapsKept
    BY <1>1 DEF UnreadIntact, Uncommitted, GapsKept
<1>7. \A p \in Producers : Written(p) /\ Padded(p)
    BY <1>1 DEF Written, Padded
<1> QED BY <1>3, <1>4, <1>5, <1>6, <1>7 DEF PlaceInv, MemInv

\* The properties of the memory follow.
LEMMA MemInvProperties == ClaimInv /\ LayoutInv /\ PlaceInv /\ MemInv => UnreadIntact /\ ClaimsAreClean
<1> SUFFICES ASSUME ClaimInv, LayoutInv, PlaceInv, MemInv, NEW p \in Producers, ppc[p] = "header",
                    NEW j \in 0 .. loc[p].len - 1
             PROVE  mem[ClaimAddress(p) + j] = Zero
    BY DEF MemInv, ClaimsAreClean
<1>1. loc[p].val \in 1 .. Len(claims) /\ ClaimAddress(p) = ClaimPosition(loc[p].val)
      /\ loc[p].len = claims[loc[p].val].len
    BY OwnerIs DEF Writes, PlaceInv
<1>2. ClaimAddress(p) \in Nat /\ loc[p].len \in Nat
    BY <1>1, Places
<1>3. ClaimAddress(p) + j \in Frame(p)
    BY <1>2 DEF Frame
<1> QED BY <1>3 DEF MemInv, Written

---------------------------------------------------------------------------
(* The lengths in memory. *)

MemoryEnd == PARTITION_COUNT * TermLength

(* Whoever trusts the length of a word stays inside the partitions. *)
LengthsInside == \A x \in Addresses : x + mem[x].len <= MemoryEnd

\* Initially no word has a length.
LEMMA LengthsInit == AppendInit => LengthsInside
<1> SUFFICES ASSUME AppendInit, NEW x \in Addresses PROVE x + mem[x].len <= MemoryEnd
    BY DEF LengthsInside
<1>1. mem[x].len = 0
    BY DEF AppendInit, Zero
<1> QED BY <1>1, TermLengthType DEF Addresses, MemoryEnd, PARTITION_COUNT

\* A producer changes lengths only to ones that end inside the memory.
LEMMA LengthsProduce ==
    ASSUME ClaimInv, LayoutInv, PlaceInv, LengthsInside, NEW p \in Producers, Produce(p)
    PROVE  LengthsInside'
<1> SUFFICES ASSUME NEW x \in Addresses PROVE x + mem'[x].len <= MemoryEnd
    BY DEF LengthsInside
<1>1. /\ AppendTypeOK /\ Behind /\ mem \in [Addresses -> Words]
      /\ TermLength \in Nat /\ TermLength > 0 /\ loc[p] \in Locals
    BY TermLengthType DEF ClaimInv, AppendTypeOK, PlaceInv
<1>2. /\ x + mem[x].len <= MemoryEnd /\ mem[x] \in Words /\ mem[x].len \in Int
      /\ x \in Nat /\ x + 0 <= MemoryEnd /\ MemoryEnd \in Nat
    <2>1. mem[x] \in Words
        BY <1>1
    <2> QED BY <1>1, <2>1 DEF LengthsInside, Words, Addresses, MemoryEnd, PARTITION_COUNT
<1>3. ASSUME mem'[x].len = mem[x].len \/ mem'[x].len = 0 PROVE x + mem'[x].len <= MemoryEnd
    BY <1>2, <1>3
<1>4. CASE HeaderWrite(p) \/ PutBS(p) \/ CommitFrameType(p) \/ CommitFrameLength(p)
    <2>1. PICK a : a = ClaimAddress(p)
        OBVIOUS
    <2>2. ppc[p] \in Writes
        BY <1>1, <1>4, <2>1, FrameEffect
    <2>3. PICK k \in 1 .. Len(claims) : a = ClaimPosition(k) /\ loc[p].len = claims[k].len
        BY <1>1, <2>1, <2>2, OwnerIs
    <2>4. /\ a \in Nat /\ loc[p].len \in Nat /\ loc[p].len >= 2 /\ a + loc[p].len <= MemoryEnd
        <3>1. /\ ClaimPosition(k) \in Nat /\ claims[k].len \in Nat /\ claims[k].len >= 2
              /\ EndPosition(k) = ClaimPosition(k) + claims[k].len /\ EndPosition(k) <= Front
            BY Places
        <3>2. Front \in Nat /\ Front <= TermLength + TermLength
            BY FrontInside
        <3> QED BY <1>1, <2>3, <3>1, <3>2 DEF MemoryEnd, PARTITION_COUNT
    <2>5. CASE PutBS(p)
        <3>1. mem'[x] = mem[x] \/ mem'[x] = Payload(loc[p].val)
            BY <2>5 DEF PutBS, Fill
        <3> QED BY <1>3, <3>1 DEF Payload
    <2>6. CASE ~PutBS(p) /\ x # a
        <3>1. mem'[x] = mem[x]
            BY <1>1, <1>4, <2>1, <2>6 DEF HeaderWrite, CommitFrameType, CommitFrameLength
        <3> QED BY <1>3, <3>1
    <2>7. CASE HeaderWrite(p) /\ x = a
        <3>1. mem'[x] = Header("Empty", -loc[p].len)
            BY <1>1, <1>4, <2>1, <2>7, FrameEffect
        <3>2. mem'[x].len = -loc[p].len
            BY <3>1 DEF Header
        <3> QED BY <1>2, <2>4, <3>2
    <2>8. CASE CommitFrameType(p) /\ x = a
        <3>1. mem'[x] = [mem[x] EXCEPT !.tag = "Valid"]
            BY <1>1, <1>4, <2>1, <2>8, FrameEffect
        <3>2. mem'[x].len = mem[x].len
            BY <1>2, <3>1 DEF Words
        <3> QED BY <1>3, <3>2
    <2>9. CASE CommitFrameLength(p) /\ x = a
        <3>1. mem'[x] = [mem[x] EXCEPT !.len = loc[p].len]
            BY <1>1, <1>4, <2>1, <2>9, FrameEffect
        <3>2. mem'[x].len = loc[p].len
            BY <1>2, <3>1 DEF Words
        <3> QED BY <2>4, <2>9, <3>2
    <2> QED BY <1>4, <2>5, <2>6, <2>7, <2>8, <2>9
<1>5. CASE PaddingHeader(p) \/ PaddingType(p) \/ PaddingLength(p)
    <2>1. PICK a : a = loc[p].off
        OBVIOUS
    <2>2. ppc[p] \in Pads
        BY <1>5, <2>1, PadEffect
    <2>3. PICK k \in 1 .. Len(claims) :
            Gap(k) /\ loc[p].off = EndPosition(k) /\ paddingLength(p) = GapLength(k)
        BY <2>2, PadderIs
    <2>4. /\ a \in Nat /\ a = ClaimAddress(p) /\ paddingLength(p) \in Nat /\ a + paddingLength(p) <= MemoryEnd
        <3>1. EndPosition(k) = ClaimEnd(k) /\ ClaimEnd(k) \in Nat /\ ClaimEnd(k) < TermLength
            BY <2>3, GapPlace
        <3>2. a = ClaimAddress(p)
            BY <2>1, <2>2, PadderIs
        <3> QED BY <1>1, <2>1, <2>3, <3>1, <3>2 DEF GapLength, MemoryEnd, PARTITION_COUNT
    <2>5. CASE x # a
        <3>1. mem'[x] = mem[x]
            BY <1>1, <1>5, <2>4, <2>5 DEF PaddingHeader, PaddingType, PaddingLength
        <3> QED BY <1>3, <3>1
    <2>6. CASE PaddingHeader(p) /\ x = a
        <3>1. mem'[x] = Header("Empty", -paddingLength(p))
            BY <1>5, <2>1, <2>6, PadEffect
        <3>2. mem'[x].len = -paddingLength(p)
            BY <3>1 DEF Header
        <3> QED BY <1>2, <2>4, <3>2
    <2>7. CASE PaddingType(p) /\ x = a
        <3>1. mem'[x] = [mem[x] EXCEPT !.tag = "Padding"]
            BY <1>5, <2>1, <2>7, PadEffect
        <3>2. mem'[x].len = mem[x].len
            BY <1>2, <3>1 DEF Words
        <3> QED BY <1>3, <3>2
    <2>8. CASE PaddingLength(p) /\ x = a
        <3>1. mem'[x] = [mem[x] EXCEPT !.len = paddingLength(p)]
            BY <1>5, <2>1, <2>8, PadEffect
        <3>2. mem'[x].len = paddingLength(p)
            BY <1>2, <3>1 DEF Words
        <3> QED BY <2>4, <2>8, <3>2
    <2> QED BY <1>5, <2>5, <2>6, <2>7, <2>8
<1>6. CASE CleanTerm(p)
    <2>1. mem'[x] = mem[x] \/ mem'[x] = Zero
        BY <1>6 DEF CleanTerm, Fill
    <2> QED BY <1>3, <2>1 DEF Zero
<1>7. CASE UNCHANGED mem
    BY <1>2, <1>7
<1> QED BY <1>4, <1>5, <1>6, <1>7, ProduceVars

---------------------------------------------------------------------------
(* What a reader finds, while no frame has left its term. *)

(* A reader that was given d frames is at b: all of them are committed, and  *)
(* it is at the end of the last one or behind the padding that follows it.   *)
AtFrame(d, b) ==
    /\ d <= Len(claims) /\ \A k \in 1 .. d : k \in committed
    /\ d = 0 => b = 0
    /\ d > 0 => b = EndPosition(d) \/ (Gap(d) /\ b = Start(claims[d].id + 1))

\* The address of a header, a gap or the front is where a reader looks for it.
LEMMA WhereRead == ClaimInv /\ LayoutInv =>
    /\ \A k \in 1 .. Len(claims) :
         /\ ReadAddress(ClaimPosition(k)) = ClaimPosition(k)
         /\ Gap(k) => ReadAddress(EndPosition(k)) = EndPosition(k)
    /\ ReadAddress(Front) = Front
BY Places, GapPlace, FrontInside, ReadsAt

\* The word at the front is zero.
LEMMA FrontWord == ClaimInv /\ LayoutInv /\ FreeIsZero => mem[ReadAddress(Front)] = Zero
BY FrontInside, WhereRead DEF FreeIsZero

(* What a subscriber reads next, after d frames: the next claim, the padding *)
(* behind the last one it read, or nothing yet.                              *)
NextClaim(d, b) == d + 1 \in 1 .. Len(claims) /\ b = ClaimPosition(d + 1)
NextPadding(d, b) == d \in 1 .. Len(claims) /\ Gap(d) /\ b = EndPosition(d)
NothingYet(d, b) == d = Len(claims) /\ b = Front

\* A subscriber's position is always one of the three.
LEMMA NextRead == ClaimInv /\ Layout => \A d \in Nat : \A b : AtFrame(d, b) =>
    NextClaim(d, b) \/ NextPadding(d, b) \/ NothingYet(d, b)
<1> SUFFICES ASSUME ClaimInv, Layout, NEW d \in Nat, NEW b, AtFrame(d, b)
             PROVE  NextClaim(d, b) \/ NextPadding(d, b) \/ NothingYet(d, b)
    OBVIOUS
<1> DEFINE L == Len(claims)
<1>1. /\ d <= L /\ L \in Nat
      /\ d = 0 => b = 0
      /\ d > 0 => b = EndPosition(d) \/ (Gap(d) /\ b = Start(claims[d].id + 1))
    BY DEF AtFrame, ClaimInv, AppendTypeOK
<1>2. /\ FrontTerm \in Nat /\ FrontOffset \in Nat /\ TermLength \in Nat /\ TermLength > 0
      /\ Front = Start(FrontTerm) + minimum(FrontOffset, TermLength)
      /\ Start(0) = 0 /\ Start(FrontTerm) \in Nat
      /\ Start(FrontTerm + 1) = Start(FrontTerm) + TermLength
    BY FrontIs, TermLengthType, StartType, SMTT(30)
<1>3. CASE d = 0
    <2>1. CASE claims = <<>>
        <3>1. FrontTerm = 0 /\ FrontOffset = 0 /\ L = 0
            BY <2>1 DEF Layout, LastClaim
        <3>2. Front = 0
            BY <1>2, <3>1 DEF minimum
        <3> QED BY <1>1, <1>3, <3>1, <3>2 DEF NothingYet
    <2>2. CASE claims # <<>>
        <3>1. 1 \in 1 .. L
            BY <1>1, <2>2 DEF ClaimInv, AppendTypeOK
        <3>2. claims[1].id = 0 /\ claims[1].off = 0
            BY <2>2 DEF Layout
        <3>3. ClaimPosition(1) = Start(claims[1].id) + claims[1].off
            BY <3>1, ClaimGeometry
        <3>4. ClaimPosition(1) = 0
            BY <1>2, <3>2, <3>3
        <3> QED BY <1>1, <1>3, <3>1, <3>4 DEF NextClaim
    <2> QED BY <2>1, <2>2
<1>4. CASE d > 0 /\ d < L
    <2>1. d \in 1 .. L - 1 /\ d \in 1 .. L /\ d + 1 \in 1 .. L /\ d # L
        BY <1>1, <1>4
    <2>2. /\ claims[d].id \in Nat /\ ClaimEnd(d) \in Nat /\ ClaimEnd(d) <= TermLength
          /\ EndPosition(d) = Start(claims[d].id) + ClaimEnd(d)
          /\ ClaimPosition(d + 1) = Start(claims[d + 1].id) + claims[d + 1].off
        BY <2>1, ClaimGeometry
    <2>3. Start(claims[d].id) \in Nat /\ Start(claims[d].id + 1) = Start(claims[d].id) + TermLength
        <3>1. claims[d].id \in Nat /\ claims[d].id \in Int
            BY <2>2
        <3> QED BY <3>1, StartType
    <2>4. \/ claims[d+1].id = claims[d].id /\ claims[d+1].off = ClaimEnd(d)
          \/ claims[d+1].id = claims[d].id + 1 /\ claims[d+1].off = 0
        BY <2>1 DEF Layout, Adjacent
    <2>5. CASE b = EndPosition(d)
        <3>1. CASE Gap(d)
            BY <2>1, <2>5, <3>1 DEF NextPadding
        <3>2. CASE ~Gap(d)
            <4>1. ~(ClaimEnd(d) < TermLength) \/ claims[d + 1].id = claims[d].id
                BY <2>1, <3>2 DEF Gap
            <4>2. ClaimPosition(d + 1) = EndPosition(d)
                BY <1>2, <2>2, <2>3, <2>4, <4>1
            <4> QED BY <2>1, <2>5, <4>2 DEF NextClaim
        <3> QED BY <3>1, <3>2
    <2>6. CASE Gap(d) /\ b = Start(claims[d].id + 1)
        <3>1. claims[d + 1].id # claims[d].id
            BY <2>1, <2>6 DEF Gap
        <3>2. ClaimPosition(d + 1) = Start(claims[d].id + 1)
            BY <1>2, <2>2, <2>3, <2>4, <3>1, SMTT(30)
        <3> QED BY <2>1, <2>6, <3>2 DEF NextClaim
    <2> QED BY <1>1, <1>4, <2>5, <2>6
<1>5. CASE d > 0 /\ d = L
    <2>1. d \in 1 .. L /\ claims # <<>>
        BY <1>1, <1>5 DEF ClaimInv, AppendTypeOK
    <2>2. /\ claims[d].id \in Nat /\ ClaimEnd(d) \in Nat /\ ClaimEnd(d) <= TermLength
          /\ EndPosition(d) = Start(claims[d].id) + ClaimEnd(d)
        BY <2>1, ClaimGeometry
    <2>3. Start(claims[d].id) \in Nat /\ Start(claims[d].id + 1) = Start(claims[d].id) + TermLength
        <3>1. claims[d].id \in Nat /\ claims[d].id \in Int
            BY <2>2
        <3> QED BY <3>1, StartType
    <2>4. \/ claims[d].id = FrontTerm /\ (FrontFull \/ FrontOffset = ClaimEnd(d))
          \/ claims[d].id = FrontTerm - 1 /\ FrontOffset = 0
        BY <1>5, <2>1 DEF Layout, LastClaim
    <2>5. ~Gap(d) => ~(ClaimEnd(d) < TermLength) \/ (~FrontFull /\ claims[d].id = FrontTerm)
        BY <1>5, <2>1 DEF Gap
    <2>6. Gap(d) => FrontFull \/ claims[d].id # FrontTerm
        BY <1>5, <2>1 DEF Gap
    <2>7. claims[d].id # FrontTerm => claims[d].id + 1 = FrontTerm /\ FrontOffset = 0
        BY <1>2, <2>2, <2>4
    <2>8. CASE b = EndPosition(d) /\ ~Gap(d)
        <3>1. CASE claims[d].id = FrontTerm /\ FrontFull
            <4>1. minimum(FrontOffset, TermLength) = TermLength
                BY <1>2, <3>1 DEF minimum, FrontFull
            <4>2. ClaimEnd(d) = TermLength
                BY <1>2, <2>2, <2>5, <2>8, <3>1
            <4> QED BY <1>2, <1>5, <2>2, <2>8, <3>1, <4>1, <4>2 DEF NothingYet
        <3>2. CASE claims[d].id = FrontTerm /\ FrontOffset = ClaimEnd(d)
            <4>1. minimum(FrontOffset, TermLength) = FrontOffset
                BY <1>2, <2>2, <3>2 DEF minimum
            <4> QED BY <1>2, <1>5, <2>2, <2>8, <3>2, <4>1 DEF NothingYet
        <3>3. CASE claims[d].id # FrontTerm
            <4>1. minimum(FrontOffset, TermLength) = 0
                BY <1>2, <2>7, <3>3 DEF minimum
            <4>2. ClaimEnd(d) = TermLength
                BY <1>2, <2>2, <2>5, <2>8, <3>3
            <4>3. Front = Start(claims[d].id + 1)
                BY <1>2, <2>7, <3>3, <4>1
            <4> QED BY <1>2, <1>5, <2>2, <2>3, <2>8, <4>2, <4>3 DEF NothingYet
        <3> QED BY <1>2, <2>4, <3>1, <3>2, <3>3
    <2>9. CASE b = EndPosition(d) /\ Gap(d)
        BY <2>1, <2>9 DEF NextPadding
    <2>10. CASE Gap(d) /\ b = Start(claims[d].id + 1)
        <3>1. CASE claims[d].id = FrontTerm
            <4>1. FrontFull
                BY <2>6, <2>10, <3>1
            <4>2. minimum(FrontOffset, TermLength) = TermLength
                BY <1>2, <4>1 DEF minimum, FrontFull
            <4>3. Front = Start(claims[d].id + 1)
                BY <1>2, <3>1, <4>2
            <4> QED BY <1>5, <2>10, <4>3 DEF NothingYet
        <3>2. CASE claims[d].id # FrontTerm
            <4>1. minimum(FrontOffset, TermLength) = 0
                BY <1>2, <2>7, <3>2 DEF minimum
            <4>2. Front = Start(claims[d].id + 1)
                BY <1>2, <2>7, <3>2, <4>1
            <4> QED BY <1>5, <2>10, <4>2 DEF NothingYet
        <3> QED BY <3>1, <3>2
    <2> QED BY <1>1, <1>5, <2>8, <2>9, <2>10
<1> QED BY <1>1, <1>3, <1>4, <1>5

---------------------------------------------------------------------------
(* The producers leave what readers have seen. *)

\* A frame of an unread claim that has a type keeps it.
LEMMA HeaderTag ==
    ASSUME ClaimInv, BackInv, LayoutInv, PlaceInv, MemInv, NEW p \in Producers, Produce(p),
           NEW k \in 1 .. Len(claims), minBytesConsumed <= ClaimPosition(k), NEW h, h = ClaimPosition(k),
           mem[h].tag # "Empty"
    PROVE  mem'[h].tag = mem[h].tag
<1>1. Behind /\ h \in Span(k)
    BY Places DEF PlaceInv
<1>2. CASE ~(ppc[p] \in Writes /\ loc[p].val = k)
    <2>1. mem'[h] = mem[h]
        BY <1>1, <1>2, OthersUntouched
    <2> QED BY <2>1
<1>3. CASE ppc[p] \in Writes /\ loc[p].val = k
    <2>1. h = ClaimAddress(p)
        BY <1>1, <1>3, OwnerIs
    <2>2. HeaderWrite(p) \/ PutBS(p) \/ CommitFrameType(p) \/ CommitFrameLength(p)
        BY <1>3, StepsOf
    <2>3. CASE HeaderWrite(p)
        <3>1. ppc[p] = "header"
            BY <1>1, <2>1, <2>2, <2>3, FrameEffect
        <3>2. h \in Frame(p)
            BY <1>1, <1>3, OwnerIs
        <3>3. mem[h] = Zero
            BY <3>1, <3>2 DEF MemInv, Written
        <3> QED BY <3>3 DEF Zero
    <2>4. CASE PutBS(p)
        <3>1. mem'[h] = mem[h]
            BY <1>1, <2>1, <2>2, <2>4, FrameEffect
        <3> QED BY <3>1
    <2>5. CASE CommitFrameType(p)
        <3>1. ppc[p] = "commitType"
            BY <1>1, <2>1, <2>2, <2>5, FrameEffect
        <3>2. mem[h] = Header("Empty", -loc[p].len)
            BY <2>1, <3>1 DEF MemInv, Written
        <3> QED BY <3>2 DEF Header
    <2>6. CASE CommitFrameLength(p)
        <3>1. ppc[p] = "commitLength" /\ mem'[h] = [mem[h] EXCEPT !.len = loc[p].len]
            BY <1>1, <2>1, <2>2, <2>6, FrameEffect
        <3>2. mem[h] = Header("Valid", -loc[p].len)
            BY <2>1, <3>1 DEF MemInv, Written
        <3> QED BY <3>1, <3>2 DEF Header
    <2> QED BY <2>2, <2>3, <2>4, <2>5, <2>6
<1> QED BY <1>2, <1>3

\* The padding of a gap that has its type keeps it, and finished padding stays.
LEMMA GapTag ==
    ASSUME ClaimInv, BackInv, LayoutInv, PlaceInv, MemInv, NEW p \in Producers, Produce(p),
           NEW k \in 1 .. Len(claims), Gap(k), minBytesConsumed <= EndPosition(k), NEW g, g = EndPosition(k)
    PROVE  /\ mem[g].tag # "Empty" => mem'[g].tag = mem[g].tag
           /\ mem[g] = Header("Padding", GapLength(k)) => mem'[g] = mem[g]
<1>1. CASE ppc[p] \notin Pads
    <2>1. mem'[g] = mem[g]
        BY <1>1, OthersUntouched
    <2> QED BY <2>1
<1>2. CASE ppc[p] \in Pads
    <2>1. PaddingHeader(p) \/ PaddingType(p) \/ PaddingLength(p)
        BY <1>2, StepsOf
    <2>2. g = loc[p].off /\ paddingLength(p) = GapLength(k)
        BY <1>2, PadderIs, GapPlace
    <2>3. Padded(p) /\ minBytesConsumed <= loc[p].off
        BY <2>2 DEF MemInv
    <2>4. CASE PaddingHeader(p)
        <3>1. ppc[p] = "padHeader"
            BY <2>1, <2>2, <2>4, PadEffect
        <3>2. mem[g] = Zero
            BY <2>2, <2>3, <3>1 DEF Padded
        <3> QED BY <3>2 DEF Zero, Header
    <2>5. CASE PaddingType(p)
        <3>1. ppc[p] = "padType"
            BY <2>1, <2>2, <2>5, PadEffect
        <3>2. mem[g] = Header("Empty", -paddingLength(p))
            BY <2>2, <2>3, <3>1 DEF Padded
        <3> QED BY <3>2 DEF Header
    <2>6. CASE PaddingLength(p)
        <3>1. ppc[p] = "padLength" /\ mem'[g] = [mem[g] EXCEPT !.len = paddingLength(p)]
            BY <2>1, <2>2, <2>6, PadEffect
        <3>2. mem[g] = Header("Padding", -GapLength(k))
            BY <2>2, <2>3, <3>1 DEF Padded
        <3>3. GapLength(k) \in Nat /\ GapLength(k) > 0
            BY GapPlace, TermLengthType DEF GapLength
        <3>4. mem[g] # Header("Padding", GapLength(k))
            BY <3>2, <3>3 DEF Header
        <3>5. mem'[g].tag = mem[g].tag
            BY <3>1, <3>2 DEF Header
        <3> QED BY <3>4, <3>5
    <2> QED BY <2>1, <2>4, <2>5, <2>6
<1> QED BY <1>1, <1>2

\* The header a subscriber looks at next keeps its type once it has one.
LEMMA ReadTag ==
    ASSUME ClaimInv, BackInv, LayoutInv, PlaceInv, MemInv, NEW p \in Producers, Produce(p),
           NEW s \in Subscribers, NEW d \in Nat, AtFrame(d, bytesConsumed[s]),
           NEW a, a = ReadAddress(bytesConsumed[s]), mem[a].tag # "Empty"
    PROVE  mem'[a].tag = mem[a].tag
<1>1. Layout /\ FreeIsZero
    BY DEF LayoutInv, MemInv
<1>3. minBytesConsumed <= bytesConsumed[s]
    BY SlowestIs
<1>4. CASE NextClaim(d, bytesConsumed[s])
    <2>1. PICK k \in 1 .. Len(claims) : bytesConsumed[s] = ClaimPosition(k)
        BY <1>4 DEF NextClaim
    <2>2. a = ClaimPosition(k) /\ minBytesConsumed <= ClaimPosition(k)
        BY <1>3, <2>1, WhereRead
    <2> QED BY <2>2, HeaderTag
<1>5. CASE NextPadding(d, bytesConsumed[s])
    <2>1. d \in 1 .. Len(claims) /\ Gap(d) /\ bytesConsumed[s] = EndPosition(d)
        BY <1>5 DEF NextPadding
    <2>2. a = EndPosition(d) /\ minBytesConsumed <= EndPosition(d)
        BY <1>3, <2>1, WhereRead
    <2> QED BY <2>1, <2>2, GapTag
<1>6. CASE NothingYet(d, bytesConsumed[s])
    <2>1. mem[a] = Zero
        BY <1>1, <1>6, FrontWord DEF NothingYet
    <2> QED BY <2>1 DEF Zero
<1> QED BY <1>1, <1>4, <1>5, <1>6, NextRead

\* Commits are not taken back, and the payload of a claim does not change.
LEMMA ContentKept ==
    ASSUME ClaimInv, LayoutInv, NEW p \in Producers, Produce(p)
    PROVE  /\ committed \subseteq committed' /\ committed \subseteq 1 .. Len(claims)
           /\ \A k \in 1 .. Len(claims) : Content(k)' = Content(k) /\ GapLength(k)' = GapLength(k)
<1>1. committed \subseteq committed'
    BY ProduceVars DEF CommitFrameLength
<1>2. committed \subseteq 1 .. Len(claims)
    BY DEF LayoutInv, Layout
<1>3. ASSUME NEW k \in 1 .. Len(claims) PROVE Content(k)' = Content(k) /\ GapLength(k)' = GapLength(k)
    <2>1. claims'[k] = claims[k] /\ ClaimEnd(k)' = ClaimEnd(k)
        BY PositionsKept
    <2> QED BY <2>1 DEF Content, GapLength
<1> QED BY <1>1, <1>2, <1>3

\* The producers leave a reader at the frame it has come to.
LEMMA AtFrameStep ==
    ASSUME ClaimInv, LayoutInv, ClaimsInsideTerm', NEW p \in Producers, Produce(p),
           NEW d \in Nat, NEW b, AtFrame(d, b)
    PROVE  AtFrame(d, b)'
<1>1. Len(claims) \in Nat /\ Len(claims') \in Nat /\ Len(claims) <= Len(claims')
    BY ClaimsGrow
<1>2. d <= Len(claims') /\ (d = 0 => b = 0) /\ \A k \in 1 .. d : k \in committed'
    BY <1>1, ContentKept DEF AtFrame
<1>3. ASSUME d > 0 PROVE b = EndPosition(d)' \/ (Gap(d)' /\ b = Start(claims'[d].id + 1))
    <2>1. d \in 1 .. Len(claims)
        BY <1>1, <1>3 DEF AtFrame
    <2>2. claims'[d] = claims[d] /\ EndPosition(d)' = EndPosition(d)
        BY <2>1, PositionsKept
    <2>3. Gap(d) => Gap(d)'
        BY <2>1, GapKept
    <2> QED BY <1>3, <2>2, <2>3 DEF AtFrame
<1> QED BY <1>2, <1>3 DEF AtFrame, Start

---------------------------------------------------------------------------
(* What readers may do. *)

\* Subscribers that move forward do not move the slowest one back.
LEMMA SlowestGrows ==
    ASSUME ClaimInv, ClaimInv', \A s \in Subscribers : bytesConsumed[s] <= bytesConsumed'[s]
    PROVE  /\ minBytesConsumed \in Nat /\ minBytesConsumed' \in Nat
           /\ minBytesConsumed <= minBytesConsumed'
<1>1. bytesConsumed \in [Subscribers -> Nat] /\ bytesConsumed' \in [Subscribers -> Nat]
    BY DEF ClaimInv, AppendTypeOK
<1>2. PICK f, g : f = bytesConsumed /\ g = bytesConsumed'
    OBVIOUS
<1>3. /\ f \in [Subscribers -> Nat] /\ g \in [Subscribers -> Nat]
      /\ \A s \in Subscribers : f[s] <= g[s]
    BY <1>1, <1>2
<1>4. Slowest(f) \in Nat /\ Slowest(g) \in Nat /\ Slowest(f) <= Slowest(g)
    <2>1. PICK s \in Subscribers : Slowest(g) = g[s]
        BY <1>3, SlowestType
    <2>2. Slowest(f) <= f[s] /\ Slowest(f) \in Nat /\ Slowest(g) \in Nat
        BY <1>3, SlowestType
    <2> QED BY <1>3, <2>1, <2>2
<1>5. minBytesConsumed = Slowest(f) /\ minBytesConsumed' = Slowest(g)
    BY <1>2 DEF minBytesConsumed, Slowest
<1> QED BY <1>4, <1>5

\* Whoever moves a subscriber forward, and not past a frame that is still being
\* written, keeps the producers' invariants.
LEMMA ForwardKeeps ==
    ASSUME ClaimInv, ClaimInv', LayoutInv, PlaceInv, MemInv,
           UNCHANGED <<activeTermCount, rawTail, cleanPosition, mem, ppc, loc, history>>,
           \A s \in Subscribers : bytesConsumed[s] <= bytesConsumed'[s],
           Behind'
    PROVE  LayoutInv' /\ PlaceInv' /\ MemInv'
<1>3. /\ activeTermCount' = activeTermCount /\ rawTail' = rawTail
      /\ mem' = mem /\ ppc' = ppc /\ loc' = loc /\ claims' = claims /\ committed' = committed
    BY DEF history
<1>4. FrontTerm' = FrontTerm
    BY <1>3 DEF FrontTerm, MidRotation
<1>5. FrontOffset' = FrontOffset /\ (FrontFull' <=> FrontFull) /\ Front' = Front
    BY <1>3, <1>4 DEF FrontOffset, FrontFull, Front, TailPosition
<1>6. LayoutInv'
    <2>1. Layout' /\ FirstTerms'
        BY <1>3, <1>4, <1>5 DEF LayoutInv, Layout, LastClaim, Shape, Adjacent, ClaimEnd, FirstTerms
    <2>2. OwnersDiffer' /\ \A q \in Producers : HasLength(q)' /\ OwnsClaim(q)'
        BY <1>3 DEF LayoutInv, OwnersDiffer, HasLength, OwnsClaim
    <2> QED BY <2>1, <2>2 DEF LayoutInv
<1>7. /\ minBytesConsumed \in Nat /\ minBytesConsumed' \in Nat
      /\ minBytesConsumed <= minBytesConsumed'
    BY SlowestGrows
<1>8. PlaceInv'
    <2>1. OnePads'
        BY <1>3 DEF PlaceInv, OnePads
    <2>2. ASSUME NEW q \in Producers PROVE OwnsGap(q)'
        <3>1. OwnsGap(q)
            BY DEF PlaceInv
        <3> QED BY <1>3, <1>4, <1>5, <3>1 DEF OwnsGap, Gap, ClaimEnd
    <2> QED BY <2>1, <2>2 DEF PlaceInv
<1>9. MemInv'
    <2>0. /\ committed \subseteq 1 .. Len(claims)
          /\ \A k \in 1 .. Len(claims) : /\ ClaimPosition(k) \in Nat /\ ClaimPosition(k)' = ClaimPosition(k)
                                         /\ EndPosition(k) \in Nat /\ EndPosition(k)' = EndPosition(k)
        BY <1>3, ClaimGeometry DEF LayoutInv, Layout, ClaimPosition, EndPosition
    <2>1. UnreadIntact'
        <3> SUFFICES ASSUME NEW k \in committed, ClaimPosition(k)' >= minBytesConsumed' PROVE Committed(k)'
            BY <1>3 DEF UnreadIntact
        <3>1. k \in 1 .. Len(claims)
            BY <2>0
        <3>2. ClaimPosition(k) >= minBytesConsumed
            BY <1>7, <2>0, <3>1
        <3>3. Committed(k)
            BY <3>2 DEF MemInv, UnreadIntact
        <3> QED BY <1>3, <3>3 DEF Committed
    <2>2. Uncommitted'
        BY <1>3, <2>0 DEF MemInv, Uncommitted
    <2>3. GapsKept'
        <3> SUFFICES ASSUME NEW k \in 1 .. Len(claims), Gap(k)', EndPosition(k)' >= minBytesConsumed'
                     PROVE  mem'[EndPosition(k)'] \in GapWords(k)'
            BY <1>3 DEF GapsKept
        <3>1. EndPosition(k) >= minBytesConsumed
            BY <1>7, <2>0
        <3>2. Gap(k)
            BY <1>3, <1>4, <1>5 DEF Gap, ClaimEnd
        <3>3. mem[EndPosition(k)] \in GapWords(k)
            BY <3>1, <3>2 DEF MemInv, GapsKept
        <3> QED BY <1>3, <2>0, <3>3 DEF GapWords, GapLength, ClaimEnd
    <2>4. FreeIsZero'
        BY <1>3, <1>5 DEF MemInv, FreeIsZero
    <2>5. ASSUME NEW q \in Producers PROVE Written(q)' /\ Padded(q)'
        <3>1. Written(q) /\ Padded(q)
            BY DEF MemInv
        <3>2. Written(q)'
            BY <1>3, <3>1 DEF Written, PayloadWritten, ClaimAddress, Frame
        <3>3. ppc[q] \in Pads => loc[q].off \in Nat
            BY PadderIs, GapPlace
        <3>4. paddingLength(q)' = paddingLength(q)
            BY <1>3 DEF paddingLength, capacity
        <3>5. ppc[q] \in Pads /\ minBytesConsumed' <= loc[q].off => minBytesConsumed <= loc[q].off
            BY <1>7, <3>3
        <3>6. Padded(q)'
            BY <1>3, <3>1, <3>4, <3>5 DEF Padded, Pads
        <3> QED BY <3>2, <3>6
    <2> QED BY <2>1, <2>2, <2>3, <2>4, <2>5 DEF MemInv
<1> QED BY <1>6, <1>8, <1>9

\* A step that leaves the tails and the claims alone leaves the log as it is.
LEMMA LogKept ==
    ASSUME UNCHANGED <<activeTermCount, rawTail, history>>
    PROVE  /\ FrontTerm' = FrontTerm /\ FrontOffset' = FrontOffset /\ Front' = Front
           /\ (FrontFull' <=> FrontFull)
           /\ \A k : /\ ClaimPosition(k)' = ClaimPosition(k) /\ EndPosition(k)' = EndPosition(k)
                     /\ ClaimEnd(k)' = ClaimEnd(k) /\ (Gap(k)' <=> Gap(k))
                     /\ GapLength(k)' = GapLength(k) /\ Content(k)' = Content(k)
           /\ \A d, b : AtFrame(d, b)' <=> AtFrame(d, b)
<1>1. /\ claims' = claims /\ committed' = committed
      /\ rawTail' = rawTail /\ activeTermCount' = activeTermCount
    BY DEF history
<1>2. FrontTerm' = FrontTerm
    BY <1>1 DEF FrontTerm, MidRotation
<1>3. FrontOffset' = FrontOffset /\ Front' = Front /\ (FrontFull' <=> FrontFull)
    BY <1>1, <1>2 DEF FrontOffset, FrontFull, Front, TailPosition
<1>4. ASSUME NEW k
      PROVE  /\ ClaimPosition(k)' = ClaimPosition(k) /\ EndPosition(k)' = EndPosition(k)
             /\ ClaimEnd(k)' = ClaimEnd(k) /\ (Gap(k)' <=> Gap(k))
             /\ GapLength(k)' = GapLength(k) /\ Content(k)' = Content(k)
    BY <1>1, <1>2, <1>3 DEF ClaimPosition, EndPosition, ClaimEnd, Gap, GapLength, Content
<1>5. ASSUME NEW d, NEW b PROVE AtFrame(d, b)' <=> AtFrame(d, b)
    BY <1>1, <1>4 DEF AtFrame, Start
<1> QED BY <1>2, <1>3, <1>4, <1>5

\* What the word a subscriber reads next says about the frame it begins.
LEMMA FrameFound ==
    ASSUME ClaimInv, LayoutInv, PlaceInv, MemInv,
           NEW s \in Subscribers, NEW b, b = bytesConsumed[s], NEW d \in Nat, AtFrame(d, b),
           NEW w, w = mem[ReadAddress(b)]
    PROVE  /\ w.tag \notin {"Padding", "Empty"} /\ w.len > 0 =>
                NextClaim(d, b) /\ d + 1 \in committed /\ w.len = claims[d + 1].len
           /\ w.tag = "Padding" =>
                NextPadding(d, b) /\ w \in {Header("Padding", -GapLength(d)), Header("Padding", GapLength(d))}
           /\ w.tag = "Padding" /\ w.len >= 0 => w = Header("Padding", GapLength(d))
<1>1. /\ ClaimInv /\ Layout /\ Behind /\ FreeIsZero
      /\ UnreadIntact /\ Uncommitted /\ GapsKept
    BY DEF LayoutInv, PlaceInv, MemInv
<1>2. minBytesConsumed <= b /\ b \in Nat /\ minBytesConsumed \in Nat
    BY <1>1, SlowestIs
<1>3. CASE NextClaim(d, b)
    <2>1. d + 1 \in 1 .. Len(claims) /\ b = ClaimPosition(d + 1)
        BY <1>3 DEF NextClaim
    <2>2. PICK k \in 1 .. Len(claims) : k = d + 1
        BY <2>1
    <2>3. w = mem[ClaimPosition(k)] /\ claims[k].len \in Nat /\ claims[k].len >= 2
        BY <1>1, <2>1, <2>2, WhereRead, ClaimGeometry
    <2>4. CASE k \in committed
        <3>1. ClaimPosition(k) >= minBytesConsumed
            BY <1>2, <2>1, <2>2
        <3>2. w = Header("Valid", claims[k].len)
            BY <1>1, <2>3, <2>4, <3>1, CommittedIs DEF UnreadIntact
        <3> QED BY <1>3, <2>2, <2>4, <3>2 DEF Header
    <2>5. CASE k \notin committed
        <3>1. w \in {Zero, Header("Empty", -claims[k].len), Header("Valid", -claims[k].len)}
            BY <1>1, <2>3, <2>5 DEF Uncommitted
        <3>2. w.tag \in {"Empty", "Valid"} /\ ~(w.len > 0)
            BY <2>3, <3>1 DEF Zero, Header
        <3> QED BY <3>2
    <2> QED BY <2>4, <2>5
<1>4. CASE NextPadding(d, b)
    <2>1. d \in 1 .. Len(claims) /\ Gap(d) /\ b = EndPosition(d)
        BY <1>4 DEF NextPadding
    <2>2. w = mem[EndPosition(d)] /\ EndPosition(d) >= minBytesConsumed
        BY <1>1, <1>2, <2>1, WhereRead
    <2>3. w \in {Zero, Header("Empty", -GapLength(d)), Header("Padding", -GapLength(d)),
                 Header("Padding", GapLength(d))}
        BY <1>1, <2>1, <2>2 DEF GapsKept, GapWords
    <2>4. GapLength(d) \in Nat /\ GapLength(d) > 0
        BY <1>1, <2>1, ClaimGeometry, TermLengthType DEF Gap, GapLength
    <2>5. w.tag \in {"Empty", "Padding"}
        BY <2>3 DEF Zero, Header
    <2>6. w.tag = "Padding" /\ w.len >= 0 => w = Header("Padding", GapLength(d))
        BY <2>3, <2>4 DEF Zero, Header
    <2>7. w.tag = "Padding" => w \in {Header("Padding", -GapLength(d)), Header("Padding", GapLength(d))}
        BY <2>3 DEF Zero, Header
    <2> QED BY <1>4, <2>5, <2>6, <2>7
<1>5. CASE NothingYet(d, b)
    <2>1. w = Zero
        BY <1>1, <1>5, FrontWord DEF NothingYet
    <2> QED BY <2>1 DEF Zero
<1> QED BY <1>1, <1>3, <1>4, <1>5, NextRead

\* A reader that has come to the front was given everything.
LEMMA CaughtUp == ClaimInv /\ Layout => \A d \in Nat : AtFrame(d, Front) => d = Len(claims)
<1> SUFFICES ASSUME ClaimInv, Layout, NEW d \in Nat, AtFrame(d, Front), d # Len(claims) PROVE FALSE
    OBVIOUS
<1>1. PICK b : b = Front
    OBVIOUS
<1>2. NextClaim(d, b) \/ NextPadding(d, b)
    BY <1>1, NextRead DEF NothingYet
<1>3. CASE NextClaim(d, b)
    <2>1. PICK k \in 1 .. Len(claims) : b = ClaimPosition(k)
        BY <1>3 DEF NextClaim
    <2>2. /\ EndPosition(k) = ClaimPosition(k) + claims[k].len /\ EndPosition(k) <= Front
          /\ ClaimPosition(k) \in Nat /\ claims[k].len \in Nat /\ claims[k].len >= 2
        BY ClaimGeometry DEF EndPosition
    <2> QED BY <1>1, <2>1, <2>2
<1>4. CASE NextPadding(d, b)
    <2>1. d \in 1 .. Len(claims) /\ Gap(d) /\ b = EndPosition(d)
        BY <1>4 DEF NextPadding
    <2>2. /\ Start(claims[d].id + 1) = EndPosition(d) + GapLength(d) /\ Start(claims[d].id + 1) <= Front
          /\ GapLength(d) \in Nat /\ GapLength(d) > 0 /\ EndPosition(d) \in Nat
        BY <2>1, GapBehind, ClaimGeometry
    <2> QED BY <1>1, <2>1, <2>2
<1> QED BY <1>2, <1>3, <1>4

=============================================================================
