-------------------------- MODULE JournalMP_proofs --------------------------
(***************************************************************************)
(* What the journal with its racing readers guarantees for every number of *)
(* producers and readers, every term length and every set of frame lengths.*)
(***************************************************************************)
EXTENDS JournalMP, JournalAppend_proofs

(* The local variables of a reader, whatever bytes it has in its hands. *)
ReadLocals(bs) == [offset : Nat, count : Nat, tag : Tags, len : Nat, bs : {bs}]

ReadersOK ==
    /\ rloc = [r \in Readers |-> rloc[r]]
    /\ \A r \in Readers : rloc[r] \in ReadLocals(rloc[r].bs)

(* The inductive invariant: the producers' and the readers' part. *)
Inv == ClaimInv /\ ReadersOK

\* Every step of a reader preserves the invariant: it moves its subscriber's
\* position forward only, by the length of a frame it has read.
LEMMA ReaderStep ==
    ASSUME Inv, NEW r \in Readers, Consume(r)
    PROVE  Inv'
<1>1. ClaimInv /\ AppendTypeOK /\ rloc[r] \in ReadLocals(rloc[r].bs)
      /\ rloc = [q \in Readers |-> rloc[q]]
    BY DEF Inv, ReadersOK, ClaimInv
<1>2. rloc[r].offset \in Nat /\ rloc[r].len \in Nat /\ rloc[r].count \in Nat
    BY <1>1 DEF ReadLocals
<1>3. SUFFICES /\ bytesConsumed' \in [Subscribers -> Nat]
               /\ UNCHANGED <<shared, ppc, loc, history>>
               /\ \E b : \E l \in ReadLocals(b) : rloc' = [rloc EXCEPT ![r] = l]
    <2>1. ClaimInv'
        BY <1>1, <1>3, ClaimInvRead
    <2>2. PICK b, l : l \in ReadLocals(b) /\ rloc' = [rloc EXCEPT ![r] = l]
        BY <1>3
    <2>3. l.bs = b
        BY <2>2 DEF ReadLocals
    <2>4. ReadersOK'
        BY <1>1, <2>2, <2>3 DEF Inv, ReadersOK
    <2> QED BY <2>1, <2>4 DEF Inv
<1>4. NoReadLocals \in ReadLocals(<<>>)
    BY DEF NoReadLocals, ReadLocals, Tags
<1>5. bytesConsumed \in [Subscribers -> Nat]
    BY <1>1 DEF AppendTypeOK
<1>6. SubOf[r] \in Subscribers
    BY ReaderAssumption
<1>7. CASE ReadBytesConsumed(r)
    <2>1. [rloc[r] EXCEPT !.offset = bytesConsumed[SubOf[r]]] \in ReadLocals(rloc[r].bs)
        BY <1>1, <1>5, <1>6 DEF ReadLocals
    <2> QED BY <1>5, <1>7, <2>1 DEF ReadBytesConsumed, appendVars, history
<1>8. CASE ReaderTermCount(r)
    <2>1. [rloc[r] EXCEPT !.count = activeTermCount] \in ReadLocals(rloc[r].bs)
        BY <1>1 DEF ReadLocals, AppendTypeOK
    <2> QED BY <1>5, <1>8, <2>1 DEF ReaderTermCount, appendVars, history
<1>9. CASE ReaderRawTail(r)
    <2>1. [rloc[r] EXCEPT !.count = 0] \in ReadLocals(rloc[r].bs)
        BY <1>1 DEF ReadLocals
    <2> QED BY <1>4, <1>5, <1>9, <2>1 DEF ReaderRawTail, Restart, appendVars, history
<1>10. CASE ReadFrameType(r)
    <2> DEFINE tag == mem[ReadAddress(rloc[r].offset)].tag
    <2>1. tag \in Tags
        BY <1>1, <1>2, ReadWord
    <2>2. [rloc[r] EXCEPT !.tag = tag] \in ReadLocals(rloc[r].bs)
        BY <1>1, <2>1 DEF ReadLocals
    <2> QED BY <1>5, <1>10, <2>2 DEF ReadFrameType, appendVars, history
<1>11. CASE ReadFrameLength(r)
    <2> DEFINE len == mem[ReadAddress(rloc[r].offset)].len
    <2>1. len \in Int
        BY <1>1, <1>2, ReadWord
    <2>2. len >= 0 => [rloc[r] EXCEPT !.len = len] \in ReadLocals(rloc[r].bs)
        BY <1>1, <2>1 DEF ReadLocals
    <2>3. \/ len >= 0 /\ rloc' = [rloc EXCEPT ![r].len = len]
          \/ rloc' = [rloc EXCEPT ![r] = NoReadLocals]
        BY <1>11, <2>1 DEF ReadFrameLength, Restart
    <2> HIDE DEF len
    <2> QED BY <1>4, <1>5, <1>11, <2>2, <2>3 DEF ReadFrameLength, appendVars, history
<1>12. CASE ReadBytes(r)
    <2> DEFINE bs == [k \in 1 .. rloc[r].len - 1 |-> mem[ReadAddress(rloc[r].offset) + k].val]
    <2>1. [rloc[r] EXCEPT !.bs = bs] \in ReadLocals(bs)
        BY <1>1 DEF ReadLocals
    <2>2. rloc' = [rloc EXCEPT ![r] = [rloc[r] EXCEPT !.bs = bs]]
        BY <1>12 DEF ReadBytes
    <2> HIDE DEF bs
    <2> QED BY <1>5, <1>12, <2>1, <2>2 DEF ReadBytes, appendVars, history
<1>13. CASE SkipPadding(r)
    <2>1. bytesConsumed' \in [Subscribers -> Nat]
        BY <1>2, <1>5, <1>6, <1>13 DEF SkipPadding, Advance
    <2>2. rloc' = [rloc EXCEPT ![r] = NoReadLocals]
        BY <1>13 DEF SkipPadding, Restart
    <2> QED BY <1>4, <1>13, <2>1, <2>2 DEF SkipPadding
<1>14. CASE CasBytesConsumed(r)
    <2>1. bytesConsumed' \in [Subscribers -> Nat]
        BY <1>2, <1>5, <1>6, <1>14 DEF CasBytesConsumed, Advance
    <2>2. rloc' = [rloc EXCEPT ![r] = NoReadLocals]
        BY <1>14 DEF CasBytesConsumed, Restart
    <2> QED BY <1>4, <1>14, <2>1, <2>2 DEF CasBytesConsumed
<1> QED BY <1>7, <1>8, <1>9, <1>10, <1>11, <1>12, <1>13, <1>14 DEF Consume

\* Inv is an inductive invariant of the journal with its readers.
LEMMA Invariance == Spec => []Inv
<1>1. Init => Inv
    <2> SUFFICES ASSUME Init PROVE Inv
        OBVIOUS
    <2>1. NoReadLocals \in ReadLocals(<<>>) /\ NoReadLocals.bs = <<>>
        BY DEF NoReadLocals, ReadLocals, Tags
    <2>2. ReadersOK
        BY <2>1 DEF Init, ReadersOK
    <2> QED BY <2>2, ClaimInvInit DEF Init, Inv
<1>2. Inv /\ [Next]_vars => Inv'
    <2> SUFFICES ASSUME Inv, [Next]_vars PROVE Inv'
        OBVIOUS
    <2>1. ASSUME NEW p \in Producers, Produce(p), UNCHANGED readVars PROVE Inv'
        <3>1. ClaimInv'
            BY <2>1, ClaimInvProduce DEF Inv
        <3>2. ReadersOK'
            BY <2>1 DEF Inv, ReadersOK, readVars
        <3> QED BY <3>1, <3>2 DEF Inv
    <2>2. ASSUME NEW r \in Readers, Consume(r) PROVE Inv'
        BY <2>2, ReaderStep
    <2>3. CASE UNCHANGED vars
        <3>1. bytesConsumed' \in [Subscribers -> Nat]
            BY <2>3 DEF Inv, ClaimInv, AppendTypeOK, vars, appendVars
        <3>2. ClaimInv'
            BY <2>3, <3>1, ClaimInvRead DEF Inv, vars, appendVars
        <3>3. ReadersOK'
            BY <2>3 DEF Inv, ReadersOK, vars, readVars
        <3> QED BY <3>2, <3>3 DEF Inv
    <2> QED BY <2>1, <2>2, <2>3 DEF Next
<1> QED BY <1>1, <1>2, PTL DEF Spec

\* The state that producers and readers share stays well formed: every word of
\* the partitions is a word, every tail a term and an offset, every position of
\* a subscriber a natural number, although readers trust the lengths in memory.
THEOREM TypeCorrect == Spec => []AppendTypeOK
<1>1. Inv => AppendTypeOK
    BY DEF Inv, ClaimInv
<1> QED BY <1>1, Invariance, PTL

\* rotateLog is thread safe, as its comment says, for any number of producers
\* that call it late, twice or at once: the partitions hold consecutive terms.
THEOREM RotationThreadSafe == Spec => []TermsInStep
<1>1. Inv => TermsInStep
    BY DEF Inv, ClaimInv
<1> QED BY <1>1, Invariance, PTL

\* The order of the fetch-and-adds is the order of the log, also for claims by
\* producers that slept across rotations: by term and offset no claim begins
\* before the end of an earlier one.  As long as no frame has left its term no
\* two claims share a word either; that is part of MemoryIsSound below.
THEOREM ClaimsTakenInOrder == Spec => []ClaimsOrdered
<1>1. Inv => ClaimsOrdered
    BY DEF Inv, ClaimInv
<1> QED BY <1>1, Invariance, PTL
---------------------------------------------------------------------------
(* Back pressure *)

\* A reader moves its subscriber's position forward or not at all.
LEMMA ReaderForward ==
    ASSUME Inv, NEW r \in Readers, Consume(r)
    PROVE  /\ UNCHANGED <<activeTermCount, rawTail, ppc, loc>>
           /\ \A s \in Subscribers : bytesConsumed[s] <= bytesConsumed'[s]
<1>1. /\ bytesConsumed \in [Subscribers -> Nat] /\ SubOf[r] \in Subscribers
      /\ rloc[r].offset \in Nat /\ rloc[r].len \in Nat
    BY ReaderAssumption DEF Inv, ClaimInv, AppendTypeOK, ReadersOK, ReadLocals
<1>2. CASE UNCHANGED appendVars
    BY <1>1, <1>2 DEF appendVars, shared
<1>3. CASE SkipPadding(r) \/ CasBytesConsumed(r)
    <2>1. UNCHANGED <<activeTermCount, rawTail, ppc, loc>> /\ Advance(r)
        BY <1>3 DEF SkipPadding, CasBytesConsumed, shared
    <2>2. ASSUME NEW s \in Subscribers PROVE bytesConsumed[s] <= bytesConsumed'[s]
        BY <1>1, <2>1 DEF Advance
    <2> QED BY <2>1, <2>2
<1> QED BY <1>2, <1>3 DEF Consume, ReadBytesConsumed, ReaderTermCount, ReaderRawTail,
                          ReadFrameType, ReadFrameLength, ReadBytes

\* BackInv is an inductive invariant of the journal with its readers.
LEMMA BackInvariance == Spec => []BackInv
<1>1. Init => BackInv
    BY BackInvInit DEF Init
<1>2. Inv /\ Inv' /\ BackInv /\ [Next]_vars => BackInv'
    <2> SUFFICES ASSUME Inv, Inv', BackInv, [Next]_vars PROVE BackInv'
        OBVIOUS
    <2>0. ClaimInv /\ ClaimInv'
        BY DEF Inv
    <2>1. ASSUME NEW p \in Producers, Produce(p) PROVE BackInv'
        BY <2>0, <2>1, BackInvProduce
    <2>2. ASSUME NEW r \in Readers, Consume(r) PROVE BackInv'
        BY <2>0, <2>2, ReaderForward, BackInvRead
    <2>3. CASE UNCHANGED vars
        <3>1. \A s \in Subscribers : bytesConsumed[s] <= bytesConsumed'[s]
            BY <2>0, <2>3 DEF ClaimInv, AppendTypeOK, vars, appendVars
        <3>2. UNCHANGED <<activeTermCount, rawTail, ppc, loc>>
            BY <2>3 DEF vars, appendVars, shared
        <3> QED BY <2>0, <3>1, <3>2, BackInvRead
    <2> QED BY <2>1, <2>2, <2>3 DEF Next
<1> QED BY <1>1, <1>2, Invariance, PTL DEF Spec

\* The producers' tail never runs ahead of the slowest subscriber by more than
\* the window and two frames per producer, for any number of producers that
\* sleep between the limit check and their fetch-and-add, across any number of
\* rotations.
THEOREM BackPressureHolds == Spec => []BackPressureBound
<1>1. Inv /\ BackInv => BackPressureBound
    BY BackInvBound DEF Inv
<1> QED BY <1>1, Invariance, BackInvariance, PTL
---------------------------------------------------------------------------
(* The types of the readers' variables.  They hold because the lengths in  *)
(* memory end inside it: a reader copies the bytes that a length says.     *)

ReaderLocals ==
    [offset : Nat, count : Nat, len : Nat,
     tag : {"Empty", "Valid", "Padding", "Data"}, bs : Seq(Nat)]

ReaderLabels == {"offset", "count", "tail", "type", "length", "bytes", "casPadding", "cas"}

Payloads == Seq(Nat)

ReaderTypeOK ==
    /\ rpc \in [Readers -> ReaderLabels]
    /\ rloc \in [Readers -> ReaderLocals]
    /\ delivered \in [Subscribers -> Seq(Payloads)]

(* The length a reader has read ends inside the memory. *)
ReadsInside(r) ==
    rpc[r] = "bytes" => ReadAddress(rloc[r].offset) + rloc[r].len <= MemoryEnd

TypeInv ==
    /\ ClaimInv
    /\ LengthsInside
    /\ ReaderTypeOK
    /\ \A r \in Readers : ReadsInside(r)

\* What a step of a reader has to do to keep the types.
LEMMA ReaderMoves ==
    ASSUME TypeInv, NEW r \in Readers, NEW pc \in ReaderLabels, NEW l \in ReaderLocals,
           rpc' = [rpc EXCEPT ![r] = pc], rloc' = [rloc EXCEPT ![r] = l],
           pc = "bytes" => ReadAddress(l.offset) + l.len <= MemoryEnd,
           delivered' \in [Subscribers -> Seq(Payloads)],
           bytesConsumed' \in [Subscribers -> Nat],
           UNCHANGED <<shared, ppc, loc, history>>
    PROVE  TypeInv'
<1>1. ClaimInv'
    BY ClaimInvRead DEF TypeInv
<1>2. LengthsInside'
    BY DEF TypeInv, LengthsInside, shared
<1>3. rpc \in [Readers -> ReaderLabels] /\ rloc \in [Readers -> ReaderLocals]
    BY DEF TypeInv, ReaderTypeOK
<1>4. ReaderTypeOK'
    BY <1>3 DEF ReaderTypeOK
<1>5. ASSUME NEW q \in Readers PROVE ReadsInside(q)'
    <2>1. CASE q = r
        BY <1>3, <2>1 DEF ReadsInside
    <2>2. CASE q # r
        BY <1>3, <2>2 DEF ReadsInside, TypeInv
    <2> QED BY <2>1, <2>2
<1> QED BY <1>1, <1>2, <1>4, <1>5 DEF TypeInv

\* A step of a reader keeps the types.
LEMMA ReaderTypes ==
    ASSUME TypeInv, NEW r \in Readers, Consume(r)
    PROVE  TypeInv'
<1>1. /\ AppendTypeOK /\ rloc[r] \in ReaderLocals /\ ReadsInside(r) /\ LengthsInside
      /\ delivered \in [Subscribers -> Seq(Payloads)]
      /\ bytesConsumed \in [Subscribers -> Nat] /\ activeTermCount \in Nat
      /\ rpc \in [Readers -> ReaderLabels] /\ rloc \in [Readers -> ReaderLocals]
    BY DEF TypeInv, ReaderTypeOK, ClaimInv, AppendTypeOK
<1>2. rloc[r].offset \in Nat /\ rloc[r].len \in Nat /\ rloc[r].bs \in Payloads
    BY <1>1 DEF ReaderLocals, Payloads
<1>3. NoReadLocals \in ReaderLocals
    BY DEF NoReadLocals, ReaderLocals
<1>4. SubOf[r] \in Subscribers
    BY ReaderAssumption
<1>5. CASE UNCHANGED <<appendVars, delivered>> /\ rpc' = [rpc EXCEPT ![r] = "offset"]
           /\ rloc' = [rloc EXCEPT ![r] = NoReadLocals]
    BY <1>1, <1>3, <1>5, ReaderMoves DEF ReaderLabels, appendVars, history
<1>6. CASE ReadBytesConsumed(r)
    <2>1. [rloc[r] EXCEPT !.offset = bytesConsumed[SubOf[r]]] \in ReaderLocals
        BY <1>1, <1>4 DEF ReaderLocals
    <2>2. /\ rloc' = [rloc EXCEPT ![r] = [rloc[r] EXCEPT !.offset = bytesConsumed[SubOf[r]]]]
          /\ rpc' = [rpc EXCEPT ![r] = "count"] /\ UNCHANGED <<appendVars, delivered>>
        BY <1>6 DEF ReadBytesConsumed, GotoR
    <2> QED BY <1>1, <2>1, <2>2, ReaderMoves DEF ReaderLabels, appendVars, history
<1>7. CASE ReaderTermCount(r)
    <2>1. [rloc[r] EXCEPT !.count = activeTermCount] \in ReaderLocals
        BY <1>1 DEF ReaderLocals
    <2>2. /\ rloc' = [rloc EXCEPT ![r] = [rloc[r] EXCEPT !.count = activeTermCount]]
          /\ rpc' = [rpc EXCEPT ![r] = "tail"] /\ UNCHANGED <<appendVars, delivered>>
        BY <1>7 DEF ReaderTermCount, GotoR
    <2> QED BY <1>1, <2>1, <2>2, ReaderMoves DEF ReaderLabels, appendVars, history
<1>8. CASE ReaderRawTail(r)
    <2>1. [rloc[r] EXCEPT !.count = 0] \in ReaderLocals
        BY <1>1 DEF ReaderLocals
    <2>2. CASE /\ rloc' = [rloc EXCEPT ![r] = [rloc[r] EXCEPT !.count = 0]]
               /\ rpc' = [rpc EXCEPT ![r] = "type"] /\ UNCHANGED <<appendVars, delivered>>
        BY <1>1, <2>1, <2>2, ReaderMoves DEF ReaderLabels, appendVars, history
    <2> QED BY <1>5, <1>8, <2>2 DEF ReaderRawTail, Restart, GotoR
<1>9. CASE ReadFrameType(r)
    <2> DEFINE tag == mem[ReadAddress(rloc[r].offset)].tag
    <2>1. tag \in Tags
        BY <1>1, <1>2, ReadWord
    <2>2. [rloc[r] EXCEPT !.tag = tag] \in ReaderLocals
        BY <1>1, <2>1 DEF ReaderLocals, Tags
    <2>3. /\ rloc' = [rloc EXCEPT ![r] = [rloc[r] EXCEPT !.tag = tag]]
          /\ rpc' = [rpc EXCEPT ![r] = "length"] /\ UNCHANGED <<appendVars, delivered>>
        BY <1>9 DEF ReadFrameType, GotoR
    <2> HIDE DEF tag
    <2> QED BY <1>1, <2>2, <2>3, ReaderMoves DEF ReaderLabels, appendVars, history
<1>10. CASE ReadFrameLength(r)
    <2> DEFINE len == mem[ReadAddress(rloc[r].offset)].len
               l   == [rloc[r] EXCEPT !.len = len]
    <2>1. len \in Int
        BY <1>1, <1>2, ReadWord
    <2>2. ReadAddress(rloc[r].offset) + len <= MemoryEnd
        BY <1>1, <1>2, ReadAddressType DEF LengthsInside
    <2>3. CASE len >= 0 /\ rloc' = [rloc EXCEPT ![r] = l]
               /\ (rpc' = [rpc EXCEPT ![r] = "bytes"] \/ rpc' = [rpc EXCEPT ![r] = "casPadding"])
               /\ UNCHANGED <<appendVars, delivered>>
        <3>0. len \in Nat
            BY <2>1, <2>3
        <3> HIDE DEF len
        <3>1. l \in ReaderLocals
            BY <1>1, <3>0 DEF ReaderLocals
        <3>2. l.offset = rloc[r].offset /\ l.len = len
            BY <1>1 DEF ReaderLocals
        <3>3. ReadAddress(l.offset) + l.len <= MemoryEnd
            BY <3>2, <2>2
        <3> HIDE DEF l
        <3> QED BY <1>1, <2>3, <3>1, <3>3, ReaderMoves DEF ReaderLabels, appendVars, history
    <2>4. \/ len >= 0 /\ rloc' = [rloc EXCEPT ![r] = l]
             /\ (rpc' = [rpc EXCEPT ![r] = "bytes"] \/ rpc' = [rpc EXCEPT ![r] = "casPadding"])
          \/ rloc' = [rloc EXCEPT ![r] = NoReadLocals] /\ rpc' = [rpc EXCEPT ![r] = "offset"]
        BY <1>10, <2>1 DEF ReadFrameLength, Restart, GotoR
    <2>5. UNCHANGED <<appendVars, delivered>>
        BY <1>10 DEF ReadFrameLength
    <2> QED BY <1>5, <2>3, <2>4, <2>5
<1>11. CASE ReadBytes(r)
    <2> DEFINE a  == ReadAddress(rloc[r].offset)
               bs == [k \in 1 .. rloc[r].len - 1 |-> mem[a + k].val]
    <2>1. a \in Addresses /\ a + rloc[r].len <= MemoryEnd
        BY <1>1, <1>2, <1>11, ReadAddressType DEF ReadBytes, GotoR, ReadsInside
    <2>2. \A k \in 1 .. rloc[r].len - 1 : mem[a + k].val \in Nat
        <3>1. TermLength \in Nat
            BY JournalAssumption
        <3>2. ASSUME NEW k \in 1 .. rloc[r].len - 1 PROVE a + k \in Addresses
            BY <3>1, <2>1, <1>2 DEF Addresses, MemoryEnd, PARTITION_COUNT
        <3>3. \A x \in Addresses : mem[x].val \in Nat
            BY <1>1 DEF AppendTypeOK, Words
        <3> QED BY <3>2, <3>3
    <2>3. bs \in Seq(Nat)
        <3>1. rloc[r].len - 1 \in Nat \/ rloc[r].len = 0
            BY <1>2
        <3>2. CASE rloc[r].len = 0
            <4>1. bs = <<>>
                BY <3>2
            <4> HIDE DEF bs
            <4> QED BY <4>1
        <3>3. CASE rloc[r].len - 1 \in Nat
            BY <3>3, <2>2
        <3> QED BY <3>1, <3>2, <3>3
    <2>4. [rloc[r] EXCEPT !.bs = bs] \in ReaderLocals
        BY <1>1, <2>3 DEF ReaderLocals
    <2>5. /\ rloc' = [rloc EXCEPT ![r] = [rloc[r] EXCEPT !.bs = bs]]
          /\ rpc' = [rpc EXCEPT ![r] = "cas"] /\ UNCHANGED <<appendVars, delivered>>
        BY <1>11 DEF ReadBytes, GotoR
    <2> HIDE DEF bs
    <2> QED BY <1>1, <2>4, <2>5, ReaderMoves DEF ReaderLabels, appendVars, history
<1>12. CASE SkipPadding(r) \/ CasBytesConsumed(r)
    <2>1. bytesConsumed' \in [Subscribers -> Nat]
        BY <1>1, <1>2, <1>4, <1>12 DEF SkipPadding, CasBytesConsumed, Advance
    <2>2. delivered' \in [Subscribers -> Seq(Payloads)]
        <3>1. Append(delivered[SubOf[r]], rloc[r].bs) \in Seq(Payloads)
            BY <1>1, <1>2, <1>4
        <3> QED BY <1>1, <1>12, <3>1 DEF SkipPadding, CasBytesConsumed
    <2>3. /\ rloc' = [rloc EXCEPT ![r] = NoReadLocals] /\ rpc' = [rpc EXCEPT ![r] = "offset"]
          /\ UNCHANGED <<shared, ppc, loc, history>>
        BY <1>12 DEF SkipPadding, CasBytesConsumed, Restart, GotoR
    <2> QED BY <1>3, <2>1, <2>2, <2>3, ReaderMoves DEF ReaderLabels
<1> QED BY <1>6, <1>7, <1>8, <1>9, <1>10, <1>11, <1>12 DEF Consume

\* The types hold initially.
LEMMA TypeInvInit ==
    ASSUME Init
    PROVE  TypeInv
<1>1. NoReadLocals \in ReaderLocals /\ "offset" \in ReaderLabels
    BY DEF NoReadLocals, ReaderLocals, ReaderLabels
<1>2. ReaderTypeOK
    BY <1>1 DEF Init, ReaderTypeOK
<1>3. LengthsInside
    BY LengthsInit DEF Init
<1> QED BY <1>2, <1>3, ClaimInvInit DEF Init, TypeInv, ReadsInside

\* The types survive the steps of the producers.
LEMMA TypeInvProduce ==
    ASSUME TypeInv, LayoutInv, PlaceInv, NEW p \in Producers, Produce(p), UNCHANGED readVars
    PROVE  TypeInv'
<1>1. ClaimInv' /\ LengthsInside'
    BY ClaimInvProduce, LengthsProduce DEF TypeInv
<1>2. ReaderTypeOK' /\ \A r \in Readers : ReadsInside(r)'
    BY DEF TypeInv, ReaderTypeOK, ReadsInside, readVars
<1> QED BY <1>1, <1>2 DEF TypeInv

\* The types survive a step that changes nothing.
LEMMA TypeInvStutter ==
    ASSUME TypeInv, UNCHANGED vars
    PROVE  TypeInv'
<1>1. bytesConsumed' \in [Subscribers -> Nat]
    BY DEF TypeInv, ClaimInv, AppendTypeOK, vars, appendVars
<1>2. ClaimInv'
    BY <1>1, ClaimInvRead DEF TypeInv, vars, appendVars
<1>3. LengthsInside'
    BY DEF TypeInv, LengthsInside, vars, appendVars, shared
<1>4. ReaderTypeOK' /\ \A r \in Readers : ReadsInside(r)'
    BY DEF TypeInv, ReaderTypeOK, ReadsInside, vars, readVars
<1> QED BY <1>2, <1>3, <1>4 DEF TypeInv

---------------------------------------------------------------------------
(* What the subscribers are given, while no frame has left its term.        *)

(* A subscriber was given the payloads of the first claims, and is at the   *)
(* end of the last of them or behind the padding that follows it.           *)
Reached(s) ==
    /\ AtFrame(Len(delivered[s]), bytesConsumed[s])
    /\ \A k \in 1 .. Len(delivered[s]) : delivered[s][k] = Content(k)

(* What a reader has seen of the frame at its subscriber's position b, of   *)
(* which d frames have been given: its type, its length, its bytes, or that *)
(* it is padding.                                                           *)
SeesType(r, b) == rpc[r] = "length" /\ rloc[r].tag # "Empty" =>
    mem[ReadAddress(b)].tag = rloc[r].tag
SeesFrame(r, d, b) == rpc[r] \in {"bytes", "cas"} =>
    d + 1 \in committed /\ b = ClaimPosition(d + 1) /\ rloc[r].len = claims[d + 1].len
HasBytes(r, d) == rpc[r] = "cas" => rloc[r].bs = Content(d + 1)
SeesPadding(r, d, b) == rpc[r] = "casPadding" =>
    /\ d > 0 /\ Gap(d) /\ b = EndPosition(d) /\ rloc[r].len = GapLength(d)
    /\ mem[b] = Header("Padding", GapLength(d))
UpToDate(r, d, b) ==
    SeesType(r, b) /\ SeesFrame(r, d, b) /\ HasBytes(r, d) /\ SeesPadding(r, d, b)

(* A reader's offset is its subscriber's position or one it has left, and   *)
(* then its compare-and-swap will fail, whatever it has seen.               *)
Reading(r) == rpc[r] # "offset" =>
    /\ rloc[r].offset <= bytesConsumed[SubOf[r]]
    /\ rloc[r].offset = bytesConsumed[SubOf[r]] =>
          UpToDate(r, Len(delivered[SubOf[r]]), bytesConsumed[SubOf[r]])

ReadInv == (\A s \in Subscribers : Reached(s)) /\ \A r \in Readers : Reading(r)

---------------------------------------------------------------------------
(* The producers leave what readers have seen. *)

\* The producers leave what a subscriber was given.
LEMMA ReachedStep ==
    ASSUME ClaimInv, LayoutInv, ClaimsInsideTerm', NEW p \in Producers, Produce(p), delivered' = delivered,
           delivered \in [Subscribers -> Seq(Payloads)], NEW s \in Subscribers, Reached(s)
    PROVE  Reached(s)'
<1>1. PICK d \in Nat : d = Len(delivered[s])
    OBVIOUS
<1>2. AtFrame(d, bytesConsumed[s]) /\ \A k \in 1 .. d : delivered[s][k] = Content(k)
    BY <1>1 DEF Reached
<1>3. bytesConsumed' = bytesConsumed
    BY ProduceVars
<1>4. AtFrame(d, bytesConsumed[s])'
    BY <1>2, <1>3, AtFrameStep
<1>5. \A k \in 1 .. d : delivered'[s][k] = Content(k)'
    BY <1>2, ContentKept DEF AtFrame
<1> QED BY <1>1, <1>3, <1>4, <1>5 DEF Reached

\* What a reader has seen of the frame its subscriber is to read next stays true
\* while the producers go on.
LEMMA ReadingStep ==
    ASSUME ClaimInv, BackInv, LayoutInv, PlaceInv, MemInv, ReadInv, ClaimsInsideTerm',
           ReaderTypeOK, NEW p \in Producers, Produce(p), UNCHANGED readVars, NEW r \in Readers
    PROVE  Reading(r)'
<1>1. /\ rpc' = rpc /\ rloc' = rloc /\ delivered' = delivered /\ bytesConsumed' = bytesConsumed
      /\ SubOf[r] \in Subscribers /\ delivered \in [Subscribers -> Seq(Payloads)]
    BY ProduceVars, ReaderAssumption DEF readVars, ReaderTypeOK
<1>2. PICK s \in Subscribers : s = SubOf[r]
    BY <1>1
<1>3. PICK d \in Nat : d = Len(delivered[s])
    BY <1>1
<1>4. PICK b : b = bytesConsumed[s]
    OBVIOUS
<1>5. Reached(s) /\ Reading(r) /\ Layout
    BY DEF ReadInv, LayoutInv
<1>6. SUFFICES ASSUME rpc[r] # "offset", rloc[r].offset = b, UpToDate(r, d, b) PROVE UpToDate(r, d, b)'
    BY <1>1, <1>2, <1>3, <1>4, <1>5 DEF Reading
<1>7. SeesType(r, b)'
    <2>1. SUFFICES ASSUME rpc[r] = "length", rloc[r].tag # "Empty"
                   PROVE  mem'[ReadAddress(b)] .tag = rloc[r].tag
        BY <1>1 DEF SeesType, ReadAddress, Address, indexByPosition
    <2>2. mem[ReadAddress(b)].tag = rloc[r].tag
        BY <1>6, <2>1 DEF UpToDate, SeesType
    <2>3. PICK a : a = ReadAddress(bytesConsumed[s])
        OBVIOUS
    <2>4. mem[a].tag = rloc[r].tag
        BY <1>4, <2>2, <2>3
    <2>5. mem'[a].tag = mem[a].tag
        BY <1>1, <1>3, <1>5, <2>1, <2>3, <2>4, ReadTag DEF Reached
    <2> QED BY <1>4, <2>3, <2>4, <2>5
<1>8. SeesFrame(r, d, b)'
    <2>1. SUFFICES ASSUME rpc[r] \in {"bytes", "cas"}
                   PROVE  /\ d + 1 \in committed' /\ b = ClaimPosition(d + 1)'
                          /\ rloc[r].len = claims'[d + 1].len
        BY <1>1 DEF SeesFrame
    <2>2. d + 1 \in committed /\ b = ClaimPosition(d + 1) /\ rloc[r].len = claims[d + 1].len
        BY <1>6, <2>1 DEF UpToDate, SeesFrame
    <2> QED BY <2>2, ContentKept, PositionsKept
<1>9. HasBytes(r, d)'
    <2>1. SUFFICES ASSUME rpc[r] = "cas" PROVE rloc[r].bs = Content(d + 1)'
        BY <1>1 DEF HasBytes
    <2>2. d + 1 \in committed /\ rloc[r].bs = Content(d + 1)
        BY <1>6, <2>1 DEF UpToDate, SeesFrame, HasBytes
    <2> QED BY <2>2, ContentKept
<1>10. SeesPadding(r, d, b)'
    <2>1. SUFFICES ASSUME rpc[r] = "casPadding"
                   PROVE  /\ d > 0 /\ Gap(d)' /\ b = EndPosition(d)' /\ rloc[r].len = GapLength(d)'
                          /\ mem'[b] = Header("Padding", GapLength(d)')
        BY <1>1 DEF SeesPadding, Header
    <2>2. /\ d > 0 /\ Gap(d) /\ b = EndPosition(d) /\ rloc[r].len = GapLength(d)
          /\ mem[b] = Header("Padding", GapLength(d))
        BY <1>6, <2>1 DEF UpToDate, SeesPadding
    <2>3. d \in 1 .. Len(claims)
        BY <1>3, <1>5, <2>2 DEF Reached, AtFrame, ClaimInv, AppendTypeOK
    <2>4. minBytesConsumed <= EndPosition(d)
        BY <1>4, <2>2, SlowestIs
    <2>5. mem'[b] = mem[b]
        BY <2>2, <2>3, <2>4, GapTag
    <2>8. claims'[d] = claims[d] /\ ClaimEnd(d)' = ClaimEnd(d) /\ EndPosition(d)' = EndPosition(d)
        BY <2>3, PositionsKept
    <2>9. Gap(d)' /\ GapLength(d)' = GapLength(d)
        BY <2>2, <2>3, GapKept, ContentKept
    <2> QED BY <2>2, <2>5, <2>8, <2>9
<1> QED BY <1>7, <1>8, <1>9, <1>10 DEF UpToDate

\* The readers' part of the invariant survives the steps of the producers.
LEMMA ReadInvProduce ==
    ASSUME ClaimInv, BackInv, LayoutInv, PlaceInv, MemInv, ReadInv, ClaimsInsideTerm',
           ReaderTypeOK, NEW p \in Producers, Produce(p), UNCHANGED readVars
    PROVE  ReadInv'
<1>1. delivered' = delivered /\ delivered \in [Subscribers -> Seq(Payloads)]
    BY DEF readVars, ReaderTypeOK
<1>2. ASSUME NEW s \in Subscribers PROVE Reached(s)'
    BY <1>1, ReachedStep DEF ReadInv
<1>3. ASSUME NEW r \in Readers PROVE Reading(r)'
    BY ReadingStep
<1> QED BY <1>2, <1>3 DEF ReadInv

---------------------------------------------------------------------------
(* The steps of the readers. *)

(* The invariant of producers and readers but for the types of the readers. *)
StateInv == ClaimInv /\ LayoutInv /\ PlaceInv /\ MemInv /\ ReadInv

\* What a reader has seen is about its own variables only.
LEMMA OthersReading ==
    ASSUME NEW r \in Readers, Reading(r), NEW d, NEW b, UNCHANGED <<shared, history>>,
           rpc'[r] = rpc[r], rloc'[r] = rloc[r], UpToDate(r, d, b)
    PROVE  UpToDate(r, d, b)'
<1>1. /\ mem' = mem /\ claims' = claims /\ committed' = committed
      /\ rawTail' = rawTail /\ activeTermCount' = activeTermCount
    BY DEF shared, history
<1>2. SeesType(r, b)'
    BY <1>1 DEF UpToDate, SeesType, ReadAddress
<1>3. SeesFrame(r, d, b)' /\ HasBytes(r, d)'
    BY <1>1 DEF UpToDate, SeesFrame, HasBytes, ClaimPosition, Content
<1>4. SeesPadding(r, d, b)'
    <2>1. Gap(d)' <=> Gap(d)
        <3>1. FrontTerm' = FrontTerm
            BY <1>1 DEF FrontTerm, MidRotation
        <3>2. FrontFull' <=> FrontFull
            BY <1>1, <3>1 DEF FrontOffset, FrontFull
        <3> QED BY <1>1, <3>1, <3>2 DEF Gap, ClaimEnd
    <2>2. /\ EndPosition(d)' = EndPosition(d) /\ GapLength(d)' = GapLength(d)
          /\ ClaimEnd(d)' = ClaimEnd(d)
        BY <1>1 DEF EndPosition, ClaimPosition, GapLength, ClaimEnd
    <2> QED BY <1>1, <2>1, <2>2 DEF UpToDate, SeesPadding
<1> QED BY <1>2, <1>3, <1>4 DEF UpToDate

\* A step that leaves the shared state alone keeps the invariant if what a reader
\* has learnt in it is true.
LEMMA QuietReader ==
    ASSUME StateInv, UNCHANGED <<appendVars, delivered>>,
           \A q \in Readers : Reading(q)' \/ (rpc'[q] = rpc[q] /\ rloc'[q] = rloc[q])
    PROVE  StateInv'
<1>0. ClaimInv /\ LayoutInv /\ PlaceInv /\ MemInv /\ ReadInv
    BY DEF StateInv
<1>1. /\ UNCHANGED <<shared, ppc, loc, history>> /\ bytesConsumed' = bytesConsumed
      /\ delivered' = delivered
    BY DEF appendVars
<1>2. /\ UNCHANGED <<activeTermCount, rawTail, history>> /\ claims' = claims /\ committed' = committed
    BY <1>1 DEF shared, history
<1>3. /\ Front' = Front
      /\ \A k : /\ ClaimPosition(k)' = ClaimPosition(k) /\ EndPosition(k)' = EndPosition(k)
                /\ ClaimEnd(k)' = ClaimEnd(k) /\ (Gap(k)' <=> Gap(k)) /\ Content(k)' = Content(k)
      /\ \A d, b : AtFrame(d, b)' <=> AtFrame(d, b)
    BY <1>2, LogKept
<1>5. Behind'
    BY <1>0, <1>1, <1>2, <1>3 DEF PlaceInv, Behind
<1>8. bytesConsumed' \in [Subscribers -> Nat] /\ \A s \in Subscribers : bytesConsumed[s] <= bytesConsumed'[s]
    BY <1>0, <1>1 DEF ClaimInv, AppendTypeOK
<1>9. ClaimInv' /\ LayoutInv' /\ PlaceInv' /\ MemInv'
    <2>1. ClaimInv'
        BY <1>0, <1>1, <1>8, ClaimInvRead
    <2> QED BY <1>0, <1>1, <1>5, <1>8, <2>1, ForwardKeeps DEF shared
<1>10. ASSUME NEW s \in Subscribers PROVE Reached(s)'
    <2>1. Reached(s)
        BY <1>0 DEF ReadInv
    <2> QED BY <1>1, <1>3, <2>1 DEF Reached
<1>11. ASSUME NEW q \in Readers PROVE Reading(q)'
    <2>1. CASE Reading(q)'
        BY <2>1
    <2>2. CASE rpc'[q] = rpc[q] /\ rloc'[q] = rloc[q]
        <3>1. Reading(q) /\ rpc'[q] = rpc[q] /\ rloc'[q] = rloc[q]
            BY <1>0, <2>2 DEF ReadInv
        <3>2. PICK d, b : d = Len(delivered[SubOf[q]]) /\ b = bytesConsumed[SubOf[q]]
            OBVIOUS
        <3>3. UpToDate(q, d, b) => UpToDate(q, d, b)'
            BY <1>1, <3>1, OthersReading
        <3> QED BY <1>1, <3>1, <3>2, <3>3 DEF Reading
    <2> QED BY <2>1, <2>2
<1> QED BY <1>9, <1>10, <1>11 DEF StateInv, ReadInv

\* Before a reader has looked at a type it knows nothing yet.
LEMMA NothingSeen ==
    ASSUME NEW r \in Readers, rpc'[r] \in {"offset", "count", "tail", "type"},
           rpc'[r] # "offset" => rloc'[r].offset <= bytesConsumed'[SubOf[r]]
    PROVE  Reading(r)'
<1>1. PICK d, b : d = Len(delivered'[SubOf[r]]) /\ b = bytesConsumed'[SubOf[r]]
    OBVIOUS
<1>2. UpToDate(r, d, b)'
    BY DEF UpToDate, SeesType, SeesFrame, HasBytes, SeesPadding
<1> QED BY <1>1, <1>2 DEF Reading

\* Every step of a reader before its compare-and-swap keeps the invariant.
LEMMA LookingSteps ==
    ASSUME StateInv, ReaderTypeOK, NEW r \in Readers,
           \/ ReadBytesConsumed(r) \/ ReaderTermCount(r) \/ ReaderRawTail(r)
           \/ ReadFrameType(r) \/ ReadFrameLength(r) \/ ReadBytes(r)
    PROVE  StateInv'
<1>1. /\ rpc \in [Readers -> ReaderLabels] /\ rloc \in [Readers -> ReaderLocals]
      /\ delivered \in [Subscribers -> Seq(Payloads)] /\ SubOf[r] \in Subscribers
      /\ rloc[r] \in ReaderLocals
    BY ReaderAssumption DEF ReaderTypeOK
<1>2. /\ Reading(r) /\ ClaimInv /\ bytesConsumed \in [Subscribers -> Nat] /\ Layout
      /\ LayoutInv /\ PlaceInv /\ MemInv
      /\ \A s \in Subscribers : AtFrame(Len(delivered[s]), bytesConsumed[s])
    BY DEF StateInv, ReadInv, Reached, ClaimInv, AppendTypeOK, LayoutInv
<1>3. PICK s \in Subscribers : s = SubOf[r]
    BY <1>1
<1>4. PICK d \in Nat : d = Len(delivered[s])
    BY <1>1
<1>5. PICK b \in Nat : b = bytesConsumed[s]
    BY <1>2
<1>6. UNCHANGED <<appendVars, delivered>>
    BY DEF ReadBytesConsumed, ReaderTermCount, ReaderRawTail, ReadFrameType, ReadFrameLength, ReadBytes
<1>7. \A q \in Readers : q # r => rpc'[q] = rpc[q] /\ rloc'[q] = rloc[q]
    BY <1>1 DEF ReadBytesConsumed, ReaderTermCount, ReaderRawTail, ReadFrameType, ReadFrameLength,
                ReadBytes, Restart, GotoR
<1>8. SUFFICES Reading(r)'
    <2>1. \A q \in Readers : Reading(q)' \/ (rpc'[q] = rpc[q] /\ rloc'[q] = rloc[q])
        BY <1>7, <1>8
    <2> QED BY <1>6, <2>1, QuietReader
<1>9. bytesConsumed' = bytesConsumed /\ delivered' = delivered /\ mem' = mem
      /\ UNCHANGED <<shared, history>>
    BY <1>6 DEF appendVars, shared
<1>10. rpc[r] # "offset" => rloc[r].offset <= b /\ (rloc[r].offset = b => UpToDate(r, d, b))
    BY <1>2, <1>3, <1>4, <1>5 DEF Reading
<1>11. ASSUME rpc'[r] # "offset" => rloc'[r].offset <= b, rloc'[r].offset = b => UpToDate(r, d, b)'
       PROVE  Reading(r)'
    BY <1>3, <1>4, <1>5, <1>9, <1>11 DEF Reading
<1>12. CASE ReadBytesConsumed(r)
    <2>1. rpc'[r] = "count" /\ rloc'[r].offset = bytesConsumed[SubOf[r]]
        BY <1>1, <1>12 DEF ReadBytesConsumed, GotoR, ReaderLocals
    <2> QED BY <1>2, <1>3, <1>5, <1>9, <2>1, NothingSeen
<1>13. CASE ReaderTermCount(r) \/ ReaderRawTail(r)
    <2>1. /\ rpc[r] # "offset" /\ rpc'[r] \in {"offset", "tail", "type"}
          /\ rpc'[r] # "offset" => rloc'[r].offset = rloc[r].offset
        BY <1>1, <1>13 DEF ReaderTermCount, ReaderRawTail, Restart, GotoR, ReaderLocals
    <2> QED BY <1>3, <1>5, <1>9, <1>10, <2>1, NothingSeen
<1>14. CASE ReadFrameType(r)
    <2>1. /\ rpc[r] = "type" /\ rpc'[r] = "length" /\ rloc'[r].offset = rloc[r].offset
          /\ rloc'[r].tag = mem[ReadAddress(rloc[r].offset)].tag
        BY <1>1, <1>14 DEF ReadFrameType, GotoR, ReaderLocals
    <2>2. rloc[r].offset = b => SeesType(r, b)'
        BY <1>9, <2>1 DEF SeesType, ReadAddress
    <2>3. SeesFrame(r, d, b)' /\ HasBytes(r, d)' /\ SeesPadding(r, d, b)'
        BY <2>1 DEF SeesFrame, HasBytes, SeesPadding
    <2> QED BY <1>10, <1>11, <2>1, <2>2, <2>3 DEF UpToDate
<1>15. CASE ReadFrameLength(r)
    <2> DEFINE w == mem[ReadAddress(rloc[r].offset)]
    <2>1. rpc[r] = "length" /\ rloc[r].offset <= b /\ (rloc[r].offset = b => UpToDate(r, d, b))
        BY <1>10, <1>15 DEF ReadFrameLength, Restart, GotoR
    <2>2. \/ rpc'[r] = "offset"
          \/ /\ rloc[r].tag = "Padding" /\ w.len >= 0 /\ rpc'[r] = "casPadding"
             /\ rloc'[r].offset = rloc[r].offset /\ rloc'[r].len = w.len
          \/ /\ rloc[r].tag \notin {"Padding", "Empty"} /\ w.len > 0 /\ rpc'[r] = "bytes"
             /\ rloc'[r].offset = rloc[r].offset /\ rloc'[r].len = w.len
        BY <1>1, <1>15 DEF ReadFrameLength, Restart, GotoR, ReaderLocals
    <2>3. rloc[r].offset = b /\ rloc[r].tag # "Empty" => w.tag = rloc[r].tag
        BY <2>1 DEF UpToDate, SeesType
    <2>4. PICK v : v = mem[ReadAddress(b)]
        OBVIOUS
    <2>5. rloc[r].offset = b => v = w
        BY <2>4
    <2>5a. AtFrame(d, b)
        BY <1>2, <1>4, <1>5
    <2> HIDE DEF w
    <2>6. CASE rpc'[r] = "offset"
        BY <2>6, NothingSeen
    <2>7. CASE /\ rloc[r].tag = "Padding" /\ w.len >= 0 /\ rpc'[r] = "casPadding"
               /\ rloc'[r].offset = rloc[r].offset /\ rloc'[r].len = w.len
        <3>1. SeesType(r, b)' /\ SeesFrame(r, d, b)' /\ HasBytes(r, d)'
            BY <2>7 DEF SeesType, SeesFrame, HasBytes
        <3>2. ASSUME rloc[r].offset = b PROVE SeesPadding(r, d, b)'
            <4>0. v.tag = "Padding" /\ v.len >= 0
                BY <2>3, <2>5, <2>7, <3>2
            <4>1. NextPadding(d, b) /\ v = Header("Padding", GapLength(d))
                BY <1>2, <1>5, <2>4, <2>5a, <4>0, FrameFound
            <4>2. d \in 1 .. Len(claims) /\ Gap(d) /\ b = EndPosition(d)
                BY <4>1 DEF NextPadding
            <4>3. v = mem[b]
                BY <1>2, <2>4, <4>2, WhereRead
            <4>4. rloc'[r].len = GapLength(d)
                BY <2>5, <2>7, <3>2, <4>1 DEF Header
            <4>5. Gap(d)' /\ EndPosition(d)' = EndPosition(d) /\ GapLength(d)' = GapLength(d)
                  /\ claims' = claims /\ ClaimEnd(d)' = ClaimEnd(d)
                <5>1. claims' = claims /\ rawTail' = rawTail /\ activeTermCount' = activeTermCount
                    BY <1>9 DEF shared, history
                <5>2. FrontTerm' = FrontTerm
                    BY <5>1 DEF FrontTerm, MidRotation
                <5>3. FrontFull' <=> FrontFull
                    BY <5>1, <5>2 DEF FrontOffset, FrontFull
                <5> QED BY <4>2, <5>1, <5>2, <5>3 DEF Gap, ClaimEnd, EndPosition, ClaimPosition, GapLength
            <4>6. d > 0
                BY <4>2
            <4> QED BY <1>9, <4>1, <4>2, <4>3, <4>4, <4>5, <4>6 DEF SeesPadding
        <3> QED BY <1>11, <2>1, <2>7, <3>1, <3>2 DEF UpToDate
    <2>8. CASE /\ rloc[r].tag \notin {"Padding", "Empty"} /\ w.len > 0 /\ rpc'[r] = "bytes"
               /\ rloc'[r].offset = rloc[r].offset /\ rloc'[r].len = w.len
        <3>1. SeesType(r, b)' /\ SeesPadding(r, d, b)' /\ HasBytes(r, d)'
            BY <2>8 DEF SeesType, SeesPadding, HasBytes
        <3>2. ASSUME rloc[r].offset = b PROVE SeesFrame(r, d, b)'
            <4>0. v.tag \notin {"Padding", "Empty"} /\ v.len > 0
                BY <2>3, <2>5, <2>8, <3>2
            <4>1. NextClaim(d, b) /\ d + 1 \in committed /\ v.len = claims[d + 1].len
                BY <1>2, <1>5, <2>4, <2>5a, <4>0, FrameFound
            <4>2. claims' = claims /\ committed' = committed
                BY <1>9 DEF history
            <4> QED BY <2>5, <2>8, <3>2, <4>1, <4>2 DEF SeesFrame, NextClaim, ClaimPosition
        <3> QED BY <1>11, <2>1, <2>8, <3>1, <3>2 DEF UpToDate
    <2> QED BY <2>2, <2>6, <2>7, <2>8
<1>16. CASE ReadBytes(r)
    <2>1. /\ rpc[r] = "bytes" /\ rpc'[r] = "cas"
          /\ rloc'[r].offset = rloc[r].offset /\ rloc'[r].len = rloc[r].len
          /\ rloc'[r].bs = [j \in 1 .. rloc[r].len - 1 |-> mem[ReadAddress(rloc[r].offset) + j].val]
        BY <1>1, <1>16 DEF ReadBytes, GotoR, ReaderLocals
    <2>2. SeesType(r, b)' /\ SeesPadding(r, d, b)'
        BY <2>1 DEF SeesType, SeesPadding
    <2>3. ASSUME rloc[r].offset = b PROVE SeesFrame(r, d, b)' /\ HasBytes(r, d)'
        <3>1. d + 1 \in committed /\ b = ClaimPosition(d + 1) /\ rloc[r].len = claims[d + 1].len
            BY <1>10, <2>1, <2>3 DEF UpToDate, SeesFrame
        <3>2. PICK k \in committed : k = d + 1
            BY <3>1
        <3>3. k \in 1 .. Len(claims)
            BY <1>2 DEF Layout
        <3>4. minBytesConsumed <= b /\ minBytesConsumed \in Nat
            BY <1>2, <1>5, SlowestIs
        <3>5. Committed(k)
            BY <3>1, <3>2, <3>4 DEF StateInv, MemInv, UnreadIntact
        <3>6. ReadAddress(b) = Address(claims[k].part, claims[k].off)
            BY <1>2, <3>1, <3>2, <3>3, WhereRead, Places
        <3>7. \A j \in 1 .. claims[k].len - 1 : mem[ReadAddress(b) + j] = Payload(k)
            BY <3>5, <3>6 DEF Committed
        <3>8. \A j \in 1 .. claims[k].len - 1 : mem[ReadAddress(b) + j].val = k
            BY <3>7 DEF Payload
        <3>9. rloc'[r].bs = [j \in 1 .. claims[k].len - 1 |-> k]
            BY <2>1, <2>3, <3>1, <3>2, <3>8
        <3>10. claims' = claims /\ committed' = committed
            BY <1>9 DEF history
        <3>11. SeesFrame(r, d, b)'
            BY <2>1, <3>1, <3>10 DEF SeesFrame, ClaimPosition
        <3>12. HasBytes(r, d)'
            BY <3>2, <3>9, <3>10 DEF HasBytes, Content
        <3> QED BY <3>11, <3>12
    <2> QED BY <1>10, <1>11, <2>1, <2>2, <2>3 DEF UpToDate
<1> QED BY <1>12, <1>13, <1>14, <1>15, <1>16

(* A reader that is done while the others stay where they are. *)
OnlyReader(r) ==
    /\ rpc'[r] = "offset"
    /\ \A q \in Readers : q # r => rpc'[q] = rpc[q] /\ rloc'[q] = rloc[q]
    /\ \A q \in Readers : rloc[q].offset \in Nat

(* No frame that is being written is before n. *)
ClearTo(n) ==
    n <= Front /\ \A k \in 1 .. Len(claims) : k \notin committed => n <= ClaimPosition(k)

(* The other subscribers are given nothing. *)
OthersGivenNothing(s) == \A t \in Subscribers : t # s => delivered'[t] = delivered[t]

\* A subscriber moves forward, to a position no frame before which is still being
\* written.
LEMMA SubscriberMoves ==
    ASSUME StateInv, NEW r \in Readers, NEW s \in Subscribers, s = SubOf[r],
           NEW b \in Nat, b = bytesConsumed[s], NEW n \in Nat, b < n,
           bytesConsumed' = [bytesConsumed EXCEPT ![s] = n],
           UNCHANGED <<shared, ppc, loc, history>>,
           OnlyReader(r), OthersGivenNothing(s), ClearTo(n), Reached(s)'
    PROVE  StateInv'
<1> USE DEF OnlyReader, OthersGivenNothing, ClearTo
<1>0. ClaimInv /\ LayoutInv /\ PlaceInv /\ MemInv /\ ReadInv /\ Behind
    BY DEF StateInv, PlaceInv
<1>1. bytesConsumed \in [Subscribers -> Nat]
    BY <1>0 DEF ClaimInv, AppendTypeOK
<1>2. /\ mem' = mem /\ claims' = claims /\ committed' = committed /\ ppc' = ppc /\ loc' = loc
      /\ rawTail' = rawTail /\ activeTermCount' = activeTermCount
    BY DEF shared, history
<1>3. FrontTerm' = FrontTerm
    BY <1>2 DEF FrontTerm, MidRotation
<1>4. (FrontFull' <=> FrontFull) /\ Front' = Front
    BY <1>2, <1>3 DEF FrontOffset, FrontFull, Front, TailPosition
<1>5. bytesConsumed' \in [Subscribers -> Nat] /\ \A t \in Subscribers : bytesConsumed[t] <= bytesConsumed'[t]
    BY <1>1
<1>6. /\ bytesConsumed'[s] = n /\ \A t \in Subscribers : t # s => bytesConsumed'[t] = bytesConsumed[t]
    BY <1>1
<1>7. \A k : /\ ClaimPosition(k)' = ClaimPosition(k) /\ EndPosition(k)' = EndPosition(k)
             /\ ClaimEnd(k)' = ClaimEnd(k) /\ (Gap(k)' <=> Gap(k))
    BY <1>2, <1>3, <1>4 DEF Gap, ClaimEnd, ClaimPosition, EndPosition
<1>8. Behind'
    <2>1. ASSUME NEW t \in Subscribers
          PROVE  /\ bytesConsumed'[t] <= Front
                 /\ \A k \in 1 .. Len(claims) : k \notin committed => bytesConsumed'[t] <= ClaimPosition(k)
        <3>1. CASE t = s
            BY <1>6, <3>1
        <3>2. CASE t # s
            BY <1>0, <1>6, <3>2 DEF Behind
        <3> QED BY <3>1, <3>2
    <2> QED BY <1>2, <1>4, <1>7, <2>1 DEF Behind
<1>10. ClaimInv' /\ LayoutInv' /\ PlaceInv' /\ MemInv'
    <2>1. ClaimInv'
        BY <1>0, <1>5, ClaimInvRead
    <2> QED BY <1>0, <1>5, <1>8, <2>1, ForwardKeeps DEF shared
<1>11. ASSUME NEW t \in Subscribers PROVE Reached(t)'
    <2>1. CASE t = s
        BY <2>1
    <2>2. CASE t # s
        <3>1. Reached(t) /\ delivered'[t] = delivered[t] /\ bytesConsumed'[t] = bytesConsumed[t]
            BY <1>0, <1>6, <2>2 DEF ReadInv
        <3>2. /\ \A k : Content(k)' = Content(k)
              /\ \A d, c : AtFrame(d, c)' <=> AtFrame(d, c)
            BY <1>2, LogKept DEF history
        <3> QED BY <3>1, <3>2 DEF Reached
    <2> QED BY <2>1, <2>2
<1>12. ASSUME NEW q \in Readers PROVE Reading(q)'
    <2>1. CASE q = r
        BY <2>1, NothingSeen
    <2>2. CASE q # r /\ SubOf[q] = s
        <3>1. rpc[q] # "offset" => rloc[q].offset <= b
            BY <1>0, <2>2 DEF ReadInv, Reading
        <3>2. rpc[q] # "offset" => rloc[q].offset < n
            BY <3>1
        <3>3. rpc[q] # "offset" => rloc[q].offset <= n /\ rloc[q].offset # n
            BY <3>2
        <3> QED BY <1>6, <2>2, <3>3 DEF Reading
    <2>3. CASE q # r /\ SubOf[q] # s
        <3>1. Reading(q) /\ rpc'[q] = rpc[q] /\ rloc'[q] = rloc[q] /\ SubOf[q] \in Subscribers
            BY <1>0, <2>3, ReaderAssumption DEF ReadInv
        <3>2. PICK d, c : d = Len(delivered[SubOf[q]]) /\ c = bytesConsumed[SubOf[q]]
            OBVIOUS
        <3>3. UpToDate(q, d, c) => UpToDate(q, d, c)'
            BY <3>1, OthersReading
        <3>4. delivered'[SubOf[q]] = delivered[SubOf[q]] /\ bytesConsumed'[SubOf[q]] = bytesConsumed[SubOf[q]]
            BY <1>6, <2>3, <3>1
        <3> QED BY <3>1, <3>2, <3>3, <3>4 DEF Reading
    <2> QED BY <2>1, <2>2, <2>3
<1> QED BY <1>10, <1>11, <1>12 DEF StateInv, ReadInv

\* A compare-and-swap that fails changes nothing but the reader.
LEMMA CasFails ==
    ASSUME StateInv, ReaderTypeOK, NEW r \in Readers, SkipPadding(r) \/ CasBytesConsumed(r),
           bytesConsumed[SubOf[r]] # rloc[r].offset
    PROVE  StateInv'
<1>1. rpc \in [Readers -> ReaderLabels] /\ rloc \in [Readers -> ReaderLocals]
    BY DEF ReaderTypeOK
<1>2. UNCHANGED <<appendVars, delivered>>
    BY DEF SkipPadding, CasBytesConsumed, Advance, appendVars
<1>3. rpc'[r] = "offset" /\ \A q \in Readers : q # r => rpc'[q] = rpc[q] /\ rloc'[q] = rloc[q]
    BY <1>1 DEF SkipPadding, CasBytesConsumed, Restart, GotoR
<1>4. Reading(r)'
    BY <1>3, NothingSeen
<1>5. \A q \in Readers : Reading(q)' \/ (rpc'[q] = rpc[q] /\ rloc'[q] = rloc[q])
    BY <1>3, <1>4
<1> QED BY <1>2, <1>5, QuietReader

\* Skipping padding keeps the invariant: whatever is written or claimed behind the
\* gap is in a later term.
LEMMA SkipStep ==
    ASSUME StateInv, ReaderTypeOK, NEW r \in Readers, SkipPadding(r),
           bytesConsumed[SubOf[r]] = rloc[r].offset
    PROVE  StateInv'
<1>0. /\ ClaimInv /\ Layout /\ LayoutInv /\ PlaceInv /\ MemInv /\ Reading(r) /\ Len(claims) \in Nat
    BY DEF StateInv, LayoutInv, ReadInv, ClaimInv, AppendTypeOK
<1>1. /\ rpc \in [Readers -> ReaderLabels] /\ rloc \in [Readers -> ReaderLocals]
      /\ delivered \in [Subscribers -> Seq(Payloads)] /\ bytesConsumed \in [Subscribers -> Nat]
    BY <1>0 DEF ReaderTypeOK, ClaimInv, AppendTypeOK
<1>2. PICK s \in Subscribers : s = SubOf[r]
    BY ReaderAssumption
<1>3. PICK d \in Nat : d = Len(delivered[s])
    BY <1>1
<1>4. PICK b \in Nat : b = bytesConsumed[s]
    BY <1>1
<1>5. Reached(s)
    BY DEF StateInv, ReadInv
<1>6. rpc[r] = "casPadding" /\ rloc[r].offset = b
    BY <1>2, <1>4 DEF SkipPadding, Restart, GotoR
<1>7. /\ d > 0 /\ Gap(d) /\ b = EndPosition(d) /\ rloc[r].len = GapLength(d)
    <2>1. UpToDate(r, d, b)
        BY <1>0, <1>2, <1>3, <1>4, <1>6 DEF Reading
    <2> QED BY <1>6, <2>1 DEF UpToDate, SeesPadding
<1>8. d \in 1 .. Len(claims) /\ \A k \in 1 .. d : k \in committed
    BY <1>0, <1>3, <1>5, <1>7 DEF Reached, AtFrame
<1>9. PICK n \in Nat : n = Start(claims[d].id + 1)
    BY <1>0, <1>7, <1>8, GapBehind
<1>10. n = b + GapLength(d) /\ b < n /\ n <= Front /\ \A l \in 1 .. Len(claims) : d < l => n <= ClaimPosition(l)
    <2>1. /\ n = EndPosition(d) + GapLength(d) /\ GapLength(d) \in Nat /\ GapLength(d) > 0
          /\ n <= Front /\ \A l \in 1 .. Len(claims) : d < l => n <= ClaimPosition(l)
        BY <1>0, <1>7, <1>8, <1>9, GapBehind
    <2> QED BY <1>7, <2>1
<1>11. bytesConsumed' = [bytesConsumed EXCEPT ![s] = n]
    BY <1>2, <1>4, <1>6, <1>7, <1>10 DEF SkipPadding, Advance
<1>12. /\ rpc'[r] = "offset" /\ (\A q \in Readers : q # r => rpc'[q] = rpc[q] /\ rloc'[q] = rloc[q])
       /\ UNCHANGED <<shared, ppc, loc, history>> /\ delivered' = delivered
    BY <1>1 DEF SkipPadding, Restart, GotoR
<1>13. \A q \in Readers : rloc[q].offset \in Nat
    BY <1>1 DEF ReaderLocals
<1>14. ASSUME NEW k \in 1 .. Len(claims), k \notin committed PROVE n <= ClaimPosition(k)
    <2>1. k \notin 1 .. d
        BY <1>8, <1>14
    <2>2. d < k
        BY <1>8, <2>1
    <2> QED BY <1>10, <2>2
<1>16. Reached(s)'
    <2>1. claims' = claims /\ committed' = committed /\ (Gap(d)' <=> Gap(d))
        <3>1. claims' = claims /\ committed' = committed /\ rawTail' = rawTail /\ activeTermCount' = activeTermCount
            BY <1>12 DEF shared, history
        <3>2. FrontTerm' = FrontTerm
            BY <3>1 DEF FrontTerm, MidRotation
        <3>3. FrontFull' <=> FrontFull
            BY <3>1, <3>2 DEF FrontOffset, FrontFull
        <3> QED BY <3>1, <3>2, <3>3 DEF Gap, ClaimEnd
    <2>2. bytesConsumed'[s] = n
        BY <1>1, <1>11
    <2>3. /\ d <= Len(claims) /\ \A k \in 1 .. d : k \in committed /\ delivered[s][k] = Content(k)
        BY <1>3, <1>5 DEF Reached, AtFrame
    <2>4. AtFrame(d, n)'
        BY <1>7, <1>9, <2>1, <2>3 DEF AtFrame, Start
    <2>5. \A k \in 1 .. d : delivered'[s][k] = Content(k)'
        BY <1>12, <2>1, <2>3 DEF Content
    <2> QED BY <1>3, <1>12, <2>2, <2>4, <2>5 DEF Reached
<1>17. OnlyReader(r) /\ OthersGivenNothing(s)
    BY <1>12, <1>13 DEF OnlyReader, OthersGivenNothing
<1>18. ClearTo(n)
    BY <1>10, <1>14 DEF ClearTo
<1>19. b < n /\ UNCHANGED <<shared, ppc, loc, history>>
    BY <1>10, <1>12
<1> QED BY <1>2, <1>4, <1>11, <1>16, <1>17, <1>18, <1>19, SubscriberMoves

\* So does a successful compare-and-swap past a frame.
LEMMA ReadStep ==
    ASSUME StateInv, ReaderTypeOK, NEW r \in Readers, CasBytesConsumed(r),
           bytesConsumed[SubOf[r]] = rloc[r].offset
    PROVE  /\ StateInv'
           /\ \E k \in committed : k = Len(delivered[SubOf[r]]) + 1 /\ rloc[r].bs = Content(k)
<1>0. /\ ClaimInv /\ Layout /\ LayoutInv /\ PlaceInv /\ MemInv /\ Reading(r) /\ Len(claims) \in Nat
      /\ committed \subseteq 1 .. Len(claims)
    <2>1. ClaimInv /\ LayoutInv /\ PlaceInv /\ MemInv /\ ReadInv
        BY DEF StateInv
    <2>2. Layout
        BY <2>1 DEF LayoutInv
    <2>3. committed \subseteq 1 .. Len(claims)
        BY <2>2 DEF Layout
    <2>4. Reading(r)
        BY <2>1 DEF ReadInv
    <2>5. Len(claims) \in Nat
        BY <2>1 DEF ClaimInv, AppendTypeOK
    <2> QED BY <2>1, <2>2, <2>3, <2>4, <2>5
<1>1. /\ rpc \in [Readers -> ReaderLabels] /\ rloc \in [Readers -> ReaderLocals]
      /\ delivered \in [Subscribers -> Seq(Payloads)] /\ bytesConsumed \in [Subscribers -> Nat]
    BY <1>0 DEF ReaderTypeOK, ClaimInv, AppendTypeOK
<1>2. PICK s \in Subscribers : s = SubOf[r]
    BY ReaderAssumption
<1>3. PICK d \in Nat : d = Len(delivered[s])
    BY <1>1
<1>4. PICK b \in Nat : b = bytesConsumed[s]
    BY <1>1
<1>5. Reached(s)
    BY DEF StateInv, ReadInv
<1>6. rpc[r] = "cas" /\ rloc[r].offset = b
    BY <1>2, <1>4 DEF CasBytesConsumed, Restart, GotoR
<1>7. /\ d + 1 \in committed /\ b = ClaimPosition(d + 1) /\ rloc[r].len = claims[d + 1].len
      /\ rloc[r].bs = Content(d + 1)
    <2>1. UpToDate(r, d, b)
        BY <1>0, <1>2, <1>3, <1>4, <1>6 DEF Reading
    <2> QED BY <1>6, <2>1 DEF UpToDate, SeesFrame, HasBytes
<1>8. PICK k \in committed : k = d + 1
    BY <1>7
<1>9. k \in 1 .. Len(claims) /\ \A l \in 1 .. d : l \in committed /\ delivered[s][l] = Content(l)
    BY <1>0, <1>3, <1>5, <1>8 DEF Reached, AtFrame
<1>10. PICK n \in Nat : n = EndPosition(k)
    BY <1>0, <1>9, ClaimGeometry
<1>11. n = b + claims[k].len /\ b < n /\ n <= Front
    <2>1. claims[k].len \in Nat /\ claims[k].len >= 2 /\ EndPosition(k) <= Front
        BY <1>0, <1>9, ClaimGeometry
    <2>2. n = b + claims[k].len
        BY <1>7, <1>8, <1>10 DEF EndPosition
    <2> QED BY <1>10, <2>1, <2>2
<1>12. bytesConsumed' = [bytesConsumed EXCEPT ![s] = n]
    BY <1>2, <1>4, <1>6, <1>7, <1>8, <1>11 DEF CasBytesConsumed, Advance
<1>13. /\ rpc'[r] = "offset" /\ (\A q \in Readers : q # r => rpc'[q] = rpc[q] /\ rloc'[q] = rloc[q])
       /\ UNCHANGED <<shared, ppc, loc, history>>
       /\ delivered' = [delivered EXCEPT ![s] = Append(@, Content(k))]
    BY <1>1, <1>2, <1>7, <1>8 DEF CasBytesConsumed, Restart, GotoR
<1>14. \A q \in Readers : rloc[q].offset \in Nat
    BY <1>1 DEF ReaderLocals
<1>15. ASSUME NEW l \in 1 .. Len(claims), l \notin committed PROVE n <= ClaimPosition(l)
    <2>1. l \notin 1 .. d /\ l # k
        BY <1>9, <1>15
    <2>2. k < l
        BY <1>8, <2>1
    <2> QED BY <1>0, <1>9, <1>10, <2>2, ClaimOrder
<1>17. Reached(s)'
    <2>1. claims' = claims /\ committed' = committed
        BY <1>13 DEF history
    <2>2. bytesConsumed'[s] = n
        BY <1>1, <1>12
    <2>3. delivered'[s] = Append(delivered[s], Content(k)) /\ delivered[s] \in Seq(Payloads)
        BY <1>1, <1>13
    <2>4. /\ Len(delivered'[s]) = k /\ delivered'[s][k] = Content(k)
          /\ \A l \in 1 .. d : delivered'[s][l] = delivered[s][l]
        BY <1>3, <1>8, <2>3
    <2>5. \A l \in 1 .. k : l \in committed /\ delivered'[s][l] = Content(l)
        BY <1>8, <1>9, <2>4
    <2>6. k <= Len(claims) /\ k > 0
        BY <1>9
    <2>7. EndPosition(k)' = n /\ \A l : Content(l)' = Content(l)
        BY <1>10, <2>1 DEF EndPosition, ClaimPosition, Content
    <2> QED BY <2>1, <2>2, <2>4, <2>5, <2>6, <2>7 DEF Reached, AtFrame
<1>18. OnlyReader(r) /\ OthersGivenNothing(s)
    BY <1>1, <1>13, <1>14 DEF OnlyReader, OthersGivenNothing
<1>19. ClearTo(n)
    BY <1>11, <1>15 DEF ClearTo
<1>20. b < n /\ UNCHANGED <<shared, ppc, loc, history>>
    BY <1>11, <1>13
<1>21. StateInv'
    BY <1>2, <1>4, <1>12, <1>17, <1>18, <1>19, <1>20, SubscriberMoves
<1> QED BY <1>2, <1>3, <1>7, <1>8, <1>21

---------------------------------------------------------------------------
(* The invariant of the journal, and what follows from it. *)

(* The invariant of the journal and its readers: what holds as long as no  *)
(* frame has left its term.                                                *)
JournalInv == TypeInv /\ StateInv
InsideInv  == ClaimsInsideTerm => JournalInv

\* The invariant holds initially.
LEMMA JournalInvInit == ASSUME Init PROVE JournalInv
<1>1. AppendInit /\ delivered = [s \in Subscribers |-> <<>>]
      /\ rpc = [r \in Readers |-> "offset"] /\ rloc = [r \in Readers |-> NoReadLocals]
    BY DEF Init
<1>2. ClaimInv /\ LayoutInv /\ PlaceInv /\ MemInv
    BY <1>1, ClaimInvInit, LayoutInitial, MemInvInit
<1>3. TypeInv
    BY TypeInvInit
<1>4. ASSUME NEW s \in Subscribers PROVE Reached(s)
    BY <1>1 DEF Reached, AtFrame, AppendInit
<1>5. ASSUME NEW r \in Readers PROVE Reading(r)
    BY <1>1 DEF Reading
<1> QED BY <1>2, <1>3, <1>4, <1>5 DEF JournalInv, StateInv, ReadInv

\* A producer's step that leaves no frame outside its term keeps the invariant.
LEMMA ProducerKeeps ==
    ASSUME JournalInv, BackInv, ClaimsInsideTerm', NEW p \in Producers, Produce(p), UNCHANGED readVars
    PROVE  JournalInv'
<1>1. TypeInv /\ ReaderTypeOK /\ ClaimInv /\ LayoutInv /\ PlaceInv /\ MemInv /\ ReadInv
    BY DEF JournalInv, StateInv, TypeInv
<1>2. TypeInv' /\ ClaimInv' /\ LayoutInv' /\ PlaceInv'
    BY <1>1, TypeInvProduce, ClaimInvProduce, LayoutProduce, PlaceInvProduce
<1>3. MemInv'
    BY <1>1, MemInvProduce
<1>4. ReadInv'
    BY <1>1, ReadInvProduce
<1> QED BY <1>2, <1>3, <1>4 DEF JournalInv, StateInv

\* A reader's step keeps the invariant.
LEMMA ReaderKeeps ==
    ASSUME JournalInv, NEW r \in Readers, Consume(r)
    PROVE  JournalInv'
<1>1. TypeInv /\ ReaderTypeOK /\ StateInv
    BY DEF JournalInv, TypeInv
<1>2. TypeInv'
    BY <1>1, ReaderTypes
<1>3. CASE \/ ReadBytesConsumed(r) \/ ReaderTermCount(r) \/ ReaderRawTail(r)
           \/ ReadFrameType(r) \/ ReadFrameLength(r) \/ ReadBytes(r)
    BY <1>1, <1>2, <1>3, LookingSteps DEF JournalInv
<1>4. CASE /\ SkipPadding(r) \/ CasBytesConsumed(r)
           /\ bytesConsumed[SubOf[r]] # rloc[r].offset
    BY <1>1, <1>2, <1>4, CasFails DEF JournalInv
<1>5. CASE SkipPadding(r) /\ bytesConsumed[SubOf[r]] = rloc[r].offset
    BY <1>1, <1>2, <1>5, SkipStep DEF JournalInv
<1>6. CASE CasBytesConsumed(r) /\ bytesConsumed[SubOf[r]] = rloc[r].offset
    BY <1>1, <1>2, <1>6, ReadStep DEF JournalInv
<1> QED BY <1>3, <1>4, <1>5, <1>6 DEF Consume

\* Nothing changes, nothing is lost.
LEMMA StutterKeeps ==
    ASSUME JournalInv, UNCHANGED vars
    PROVE  JournalInv'
<1>1. /\ UNCHANGED <<appendVars, delivered>> /\ rpc' = rpc /\ rloc' = rloc
    BY DEF vars, readVars
<1>2. TypeInv'
    BY TypeInvStutter DEF JournalInv
<1>3. StateInv'
    BY <1>1, QuietReader DEF JournalInv
<1> QED BY <1>2, <1>3 DEF JournalInv

\* Readers make no claims.
LEMMA ReaderClaims ==
    ASSUME NEW r \in Readers, Consume(r)
    PROVE  claims' = claims /\ committed' = committed
<1>1. UNCHANGED history
    BY DEF Consume, ReadBytesConsumed, ReaderTermCount, ReaderRawTail, ReadFrameType, ReadFrameLength,
           ReadBytes, SkipPadding, CasBytesConsumed, appendVars
<1> QED BY <1>1 DEF history

\* InsideInv is inductive, given the invariants that hold of every state.
LEMMA InsideInvariance == Spec => []InsideInv
<1>1. Init => InsideInv
    BY JournalInvInit DEF InsideInv
<1>2. Inv /\ BackInv /\ InsideInv /\ [Next]_vars => InsideInv'
    <2> SUFFICES ASSUME Inv, BackInv, InsideInv, [Next]_vars, ClaimsInsideTerm' PROVE JournalInv'
        BY DEF InsideInv
    <2>1. ASSUME NEW p \in Producers, Produce(p), UNCHANGED readVars PROVE JournalInv'
        <3>1. ClaimsInsideTerm
            BY <2>1, InsideBefore DEF Inv
        <3>2. JournalInv
            BY <3>1 DEF InsideInv
        <3> QED BY <2>1, <3>2, ProducerKeeps
    <2>2. ASSUME NEW r \in Readers, Consume(r) PROVE JournalInv'
        <3>1. ClaimsInsideTerm
            BY <2>2, ReaderClaims DEF ClaimsInsideTerm
        <3>2. JournalInv
            BY <3>1 DEF InsideInv
        <3> QED BY <2>2, <3>2, ReaderKeeps
    <2>3. CASE UNCHANGED vars
        <3>1. ClaimsInsideTerm
            BY <2>3 DEF ClaimsInsideTerm, vars, appendVars, history
        <3>2. JournalInv
            BY <3>1 DEF InsideInv
        <3> QED BY <2>3, <3>2, StutterKeeps
    <2> QED BY <2>1, <2>2, <2>3 DEF Next
<1> QED BY <1>1, <1>2, Invariance, BackInvariance, PTL DEF Spec

\* As long as no frame has left its term, for any number of producers and readers:
\* the bytes of a committed frame stay in memory until every subscriber has
\* consumed them, and every frame is written into zeroed words that are nobody
\* else's.
THEOREM MemoryIsSound == Spec => []MemoryInsideTerms
<1>1. InsideInv => MemoryInsideTerms
    BY MemInvProperties DEF InsideInv, JournalInv, StateInv, MemoryInsideTerms
<1> QED BY <1>1, InsideInvariance, PTL

\* As long as no frame has left its term every subscriber is given the payloads
\* of the claims in the order of the claims, each once and whole, however many
\* threads read for it and race on its compare-and-swap, and none before it is
\* committed; and no reader copies bytes from outside the partitions.
THEOREM DeliveryIsSound == Spec => []DeliveredInsideTerms
<1>1. JournalInv => DeliveredInOrder
    BY DEF JournalInv, StateInv, ReadInv, Reached, AtFrame, DeliveredInOrder
<1>2. JournalInv => TypeOK
    BY DEF JournalInv, TypeInv, ClaimInv, ReaderTypeOK, ReaderLocals, ReaderLabels, Payloads, TypeOK
<1>3. InsideInv => DeliveredInsideTerms
    BY <1>1, <1>2 DEF InsideInv, DeliveredInsideTerms
<1> QED BY <1>3, InsideInvariance, PTL

---------------------------------------------------------------------------
(* The journal implements its log. *)

(* The entries a subscriber was given, as the log numbers them. *)
Entries(s) == [k \in 1 .. Len(delivered[s]) |-> delivered[s][k][1]]

\* They are the first entries of the log.
LEMMA EntriesAre == JournalInv => \A s \in Subscribers :
    Len(delivered[s]) \in Nat /\ Entries(s) = [k \in 1 .. Len(delivered[s]) |-> k]
<1> SUFFICES ASSUME JournalInv, NEW s \in Subscribers
             PROVE  Len(delivered[s]) \in Nat /\ Entries(s) = [k \in 1 .. Len(delivered[s]) |-> k]
    OBVIOUS
<1>1. /\ delivered \in [Subscribers -> Seq(Payloads)] /\ ClaimInv /\ Layout /\ Reached(s)
      /\ committed \subseteq 1 .. Len(claims)
    BY DEF JournalInv, TypeInv, ReaderTypeOK, StateInv, LayoutInv, Layout, ReadInv
<1>2. Len(delivered[s]) \in Nat
    BY <1>1
<1>3. ASSUME NEW k \in 1 .. Len(delivered[s]) PROVE delivered[s][k][1] = k
    <2>1. k \in committed /\ delivered[s][k] = Content(k)
        BY <1>1 DEF Reached, AtFrame
    <2>2. claims[k].len \in Nat /\ claims[k].len >= 2
        BY <1>1, <2>1, ClaimGeometry
    <2>3. 1 \in 1 .. claims[k].len - 1
        BY <2>2
    <2> QED BY <2>1, <2>3 DEF Content
<1>4. Entries(s) = [k \in 1 .. Len(delivered[s]) |-> k]
    BY <1>3 DEF Entries
<1> QED BY <1>2, <1>4

\* The same after a step.
LEMMA EntriesAreNext == (JournalInv => \A s \in Subscribers :
    Len(delivered[s]) \in Nat /\ Entries(s) = [k \in 1 .. Len(delivered[s]) |-> k])'
BY EntriesAre, PTL

\* The first numbers, and one more.
LEMMA CountOn ==
    ASSUME NEW n \in Nat
    PROVE  /\ [k \in 1 .. n + 1 |-> k] = Append([k \in 1 .. n |-> k], n + 1)
           /\ Len([k \in 1 .. n |-> k]) = n
<1>1. PICK f : f = [k \in 1 .. n |-> k]
    OBVIOUS
<1>2. f \in Seq(Nat) /\ Len(f) = n
    BY <1>1
<1>3. Append(f, n + 1) = [k \in 1 .. n + 1 |-> IF k = n + 1 THEN n + 1 ELSE f[k]]
    BY <1>2
<1>4. [k \in 1 .. n + 1 |-> IF k = n + 1 THEN n + 1 ELSE f[k]] = [k \in 1 .. n + 1 |-> k]
    BY <1>1
<1> QED BY <1>1, <1>2, <1>3, <1>4

\* A producer's step claims an entry of the log, commits one, or is invisible.
LEMMA ProducerImplements ==
    ASSUME JournalInv, ClaimsInsideTerm', NEW p \in Producers, Produce(p), UNCHANGED readVars
    PROVE  [Log!Next]_<<Len(claims), committed, [s \in Subscribers |-> Entries(s)]>>
<1>1. ClaimInv /\ LayoutInv /\ Len(claims) \in Nat
    BY DEF JournalInv, StateInv, ClaimInv, AppendTypeOK
<1>2. delivered' = delivered
    BY DEF readVars
<1>3. [s \in Subscribers |-> Entries(s)]' = [s \in Subscribers |-> Entries(s)]
    BY <1>2 DEF Entries
<1>4. CASE claims' = claims /\ committed' = committed
    BY <1>3, <1>4
<1>5. CASE claims' # claims
    <2>1. GetAndAddRawTail(p)
        BY <1>5, ProduceVars
    <2>2. Len(claims') = Len(claims) + 1
        BY <1>1, <1>5, FrontSteps
    <2>3. committed' = committed
        BY <2>1 DEF GetAndAddRawTail
    <2> QED BY <1>3, <2>2, <2>3 DEF Log!Next, Log!Claim, Entries
<1>6. CASE committed' # committed
    <2>1. CommitFrameLength(p) /\ ppc[p] \in Writes
        BY <1>1, <1>6, ProduceVars, ProduceLabels DEF ClaimInv
    <2>2. loc[p].val \in 1 .. Len(claims)
        BY <1>1, <2>1 DEF LayoutInv, OwnsClaim
    <2>3. committed' = committed \cup {loc[p].val} /\ claims' = claims
        BY <2>1 DEF CommitFrameLength
    <2> QED BY <1>3, <2>2, <2>3 DEF Log!Next, Log!Commit, Entries
<1> QED BY <1>4, <1>5, <1>6

\* A reader whose compare-and-swap succeeds past a frame reads the next entry of
\* the log; every other step of a reader is invisible.
LEMMA ReaderImplements ==
    ASSUME JournalInv, JournalInv', NEW r \in Readers, Consume(r)
    PROVE  [Log!Next]_<<Len(claims), committed, [s \in Subscribers |-> Entries(s)]>>
<1>2. claims' = claims /\ committed' = committed
    BY ReaderClaims
<1>3. CASE delivered' = delivered
    BY <1>2, <1>3 DEF Entries
<1>4. CASE delivered' # delivered
    <2>1. CasBytesConsumed(r) /\ bytesConsumed[SubOf[r]] = rloc[r].offset
        BY <1>4 DEF Consume, ReadBytesConsumed, ReaderTermCount, ReaderRawTail, ReadFrameType, ReadFrameLength,
           ReadBytes, SkipPadding, CasBytesConsumed, appendVars
    <2>2. PICK t \in Subscribers : t = SubOf[r]
        BY ReaderAssumption
    <2>3. PICK n \in Nat : n = Len(delivered[t])
        BY EntriesAre
    <2>4. n + 1 \in committed
        <3>1. StateInv /\ ReaderTypeOK
            BY DEF JournalInv, TypeInv
        <3> QED BY <2>1, <2>2, <2>3, <3>1, ReadStep
    <2>5. /\ delivered' = [delivered EXCEPT ![t] = Append(@, rloc[r].bs)]
          /\ delivered \in [Subscribers -> Seq(Payloads)] /\ rloc[r].bs \in Payloads
        BY <2>1, <2>2 DEF CasBytesConsumed, JournalInv, TypeInv, ReaderTypeOK, ReaderLocals, Payloads
    <2>6. Len(delivered'[t]) = n + 1 /\ \A s \in Subscribers : s # t => delivered'[s] = delivered[s]
        BY <2>3, <2>5
    <2>7. \A s \in Subscribers : s # t => Entries(s)' = Entries(s)
        BY <2>6 DEF Entries
    <2>8. Entries(t) = [k \in 1 .. n |-> k] /\ Entries(t)' = [k \in 1 .. n + 1 |-> k]
        BY <2>3, <2>6, EntriesAre, EntriesAreNext
    <2>9. Entries(t)' = Append(Entries(t), n + 1) /\ Len(Entries(t)) = n
        BY <2>8, CountOn
    <2> DEFINE read == [s \in Subscribers |-> Entries(s)]
    <2>10. read[t] = Entries(t) /\ read' = [read EXCEPT ![t] = Append(@, n + 1)] /\ Len(read[t]) + 1 = n + 1
        BY <2>7, <2>9
    <2>11. Log!Read(t)
        BY <1>2, <2>4, <2>10 DEF Log!Read, Entries
    <2> QED BY <2>11 DEF Log!Next
<1> QED BY <1>3, <1>4

\* As long as no frame has left its term the journal implements the abstract log:
\* a fetch-and-add that fits claims an entry, writing the frame length commits it,
\* a successful compare-and-swap past a frame reads the next one, and cleaning,
\* padding, rotating, failed claims and lost races are invisible.
THEOREM JournalImplementsLog == Spec => ImplementsLog
<1> DEFINE logVars == <<Len(claims), committed, [s \in Subscribers |-> Entries(s)]>>
<1>1. Init => Log!Init
    BY DEF Init, AppendInit, Log!Init
<1>2. Inv /\ InsideInv /\ InsideInv' /\ [Next]_vars => [ClaimsInsideTerm' => Log!Next]_logVars
    <2> SUFFICES ASSUME Inv, InsideInv, InsideInv', [Next]_vars, ClaimsInsideTerm'
                 PROVE  [Log!Next]_logVars
        OBVIOUS
    <2>1. JournalInv'
        BY DEF InsideInv
    <2>2. CASE UNCHANGED vars
        BY <2>2 DEF vars, appendVars, readVars, history, Entries
    <2>3. ASSUME NEW p \in Producers, Produce(p), UNCHANGED readVars PROVE [Log!Next]_logVars
        <3>1. ClaimsInsideTerm
            BY <2>3, InsideBefore DEF Inv
        <3>2. JournalInv
            BY <3>1 DEF InsideInv
        <3> QED BY <2>3, <3>2, ProducerImplements
    <2>4. ASSUME NEW r \in Readers, Consume(r) PROVE [Log!Next]_logVars
        <3>1. ClaimsInsideTerm
            BY <2>4, ReaderClaims DEF ClaimsInsideTerm
        <3>2. JournalInv
            BY <3>1 DEF InsideInv
        <3> QED BY <2>1, <2>4, <3>2, ReaderImplements
    <2> QED BY <2>2, <2>3, <2>4 DEF Next
<1> QED BY <1>1, <1>2, Invariance, InsideInvariance, PTL DEF Spec, ImplementsLog, Log!vars, Entries
=============================================================================
