--------------------------- MODULE JournalAppend ---------------------------
(***************************************************************************)
(* The shared state of the mmapped journal and its producers: the          *)
(* multi-producer append path Journal.MP.appendBS/appendLBS, one action    *)
(* per access to shared memory.                                            *)
(*                                                                         *)
(* Lengths, offsets and positions are counted in words of 8 bytes          *)
(* (hEADER_LENGTH = fRAME_ALIGNMENT = 8), so a frame is its header word    *)
(* and the words of its payload, and every frame is aligned.  Term ids are *)
(* relative to jInitialTermId.  The payload of a frame is the number of    *)
(* its claim: the order of the successful fetch-and-adds.                  *)
(***************************************************************************)
EXTENDS Integers, Sequences, FiniteSets, FiniteSetsExt

CONSTANTS
    Producers,       \* threads that call appendBS or appendLBS
    Subscribers,     \* the subscribers below maxSub: {"Sub1"} or both
    TermLength,      \* jTermLength, in words
    FrameLengths,    \* lengths of the frames that are appended, in words
    MaxClaims        \* bound: how many frames are ever claimed

ASSUME JournalAssumption ==
    /\ Subscribers \in {{"Sub1"}, {"Sub1", "Sub2"}}
    /\ TermLength \in Nat \ {0} /\ TermLength % 2 = 0
    /\ FrameLengths \subseteq 2 .. (TermLength \div 2)
    /\ FrameLengths # {}
    /\ MaxClaims \in Nat

ASSUME ProducersAssumption == IsFiniteSet(Producers)

VARIABLES
    activeTermCount,  \* metadata: number of rotations so far
    rawTail,          \* metadata: per partition, the packed term id and offset
    cleanPosition,    \* metadata: everything before it has been zeroed
    bytesConsumed,    \* metadata: per subscriber, the position it has read to
    mem,              \* the words of the three partitions, one after the other
    notified,         \* jReadNotifier: is its MVar full?
    ppc,              \* program counter of each producer
    loc,              \* local variables of each producer
    claims,           \* history: the frames claimed, in order
    committed         \* history: the claims whose frame length was written

shared   == <<activeTermCount, rawTail, cleanPosition, mem, notified>>
history  == <<claims, committed>>
appendVars == <<shared, bytesConsumed, ppc, loc, history>>

---------------------------------------------------------------------------
(* Geometry *)

PARTITION_COUNT == 3

Partitions == 0 .. PARTITION_COUNT - 1

indexByTermCount(termCount) == termCount % PARTITION_COUNT

indexByPosition(pos) == (pos \div TermLength) % PARTITION_COUNT

computePosition(termId, termOffset) == termId * TermLength + termOffset

minimum(a, b) == IF a <= b THEN a ELSE b

(* The offset of a raw tail, which failed claims push past the term's end. *)
rawTailTermOffset(rt, termLen) == minimum(rt.off, termLen)

(* The capacity of the term buffer of a partition.  startJournal passes    *)
(* offset + termLength as the length of the slice, so only the buffer of   *)
(* partition 0 ends where its term does; the others reach into the memory  *)
(* behind it.                                                              *)
capacity(i) == (i + 1) * TermLength

(* The address of an offset into the term buffer of a partition. *)
Address(i, off) == i * TermLength + off

Addresses == 0 .. PARTITION_COUNT * TermLength - 1

(* termWindowLength of calculatePositionLimit. *)
Window == TermLength \div 2

---------------------------------------------------------------------------
(* Words: a header word has a tag and a length, a payload word a value.    *)

Zero         == [tag |-> "Empty", len |-> 0, val |-> 0]
Header(t, n) == [tag |-> t, len |-> n, val |-> 0]
Payload(v)   == [tag |-> "Data", len |-> 0, val |-> v]

Words == [tag : {"Empty", "Valid", "Padding", "Data"}, len : Int, val : Nat]

(* mem with the words from address a up to (not including) a + n set to w. *)
Fill(a, n, w) == [x \in Addresses |-> IF x \in a .. a + n - 1 THEN w ELSE mem[x]]

---------------------------------------------------------------------------
(* The local variables of a call.  One that no later step reads is 0 again. *)
NoLocals == [len |-> 0, min |-> 0, clean |-> 0, count |-> 0, id |-> 0,
             part |-> 0, off |-> 0, val |-> 0, tail |-> [id |-> 0, off |-> 0]]

minBytesConsumed == Min({bytesConsumed[s] : s \in Subscribers})

(* allocateJournal and startJournal: partition 0 holds term 0, partitions 1 *)
(* and 2 the terms before it, the notifier starts full.                     *)
AppendInit ==
    /\ activeTermCount = 0
    /\ rawTail = [i \in Partitions |->
                    [id |-> IF i = 0 THEN 0 ELSE i - PARTITION_COUNT, off |-> 0]]
    /\ cleanPosition = 0
    /\ bytesConsumed = [s \in Subscribers |-> 0]
    /\ mem = [a \in Addresses |-> Zero]
    /\ notified = TRUE
    /\ ppc = [p \in Producers |-> "idle"]
    /\ loc = [p \in Producers |-> NoLocals]
    /\ claims = <<>>
    /\ committed = {}

Goto(p, from, to) == ppc[p] = from /\ ppc' = [ppc EXCEPT ![p] = to]

(* The call is over: its local variables are gone. *)
Return(p, from) ==
    /\ Goto(p, from, "idle")
    /\ loc' = [loc EXCEPT ![p] = NoLocals]

InFlight == {p \in Producers : ppc[p] # "idle"}

---------------------------------------------------------------------------
(* tryClaim, its first part: calculatePositionLimit and cleanBufferTo.     *)

(* Both counters of readMinBytesConsumed only grow and pass through every  *)
(* frame boundary, so reading them one after the other yields a minimum    *)
(* they had at some moment: it is one step.                                *)
ReadMinBytesConsumed(p) == \E n \in FrameLengths :
    /\ Len(claims) + Cardinality(InFlight) < MaxClaims
    /\ Goto(p, "idle", "readClean")
    /\ loc' = [loc EXCEPT ![p] = [NoLocals EXCEPT !.len = n, !.min = minBytesConsumed]]
    /\ UNCHANGED <<shared, bytesConsumed, history>>

ReadCleanPosition(p) ==
    LET dirty == /\ indexByPosition(cleanPosition) # indexByPosition(loc[p].min)
                 /\ loc[p].min > cleanPosition
    IN  /\ Goto(p, "readClean", IF dirty THEN "clean" ELSE "termCount")
        /\ loc' = [loc EXCEPT ![p].clean = IF dirty THEN cleanPosition ELSE 0]
        /\ UNCHANGED <<shared, bytesConsumed, history>>

(* How much of the term of `clean` a call cleans: at most up to its end.   *)
cleanLength(clean, position) ==
    minimum(position - clean, TermLength - (clean % TermLength))

(* Mutant: the partition of the consumers' position is cleaned. *)
CleanReadersTerm(p) ==
    LET clean == loc[p].clean
    IN  /\ Goto(p, "clean", "casClean")
        /\ mem' = Fill(Address(indexByPosition(loc[p].min), clean % TermLength),
                       cleanLength(clean, loc[p].min), Zero)
        /\ UNCHANGED <<activeTermCount, rawTail, cleanPosition, notified,
                       bytesConsumed, loc, history>>

CleanTerm(p) ==
    LET clean == loc[p].clean
    IN  /\ Goto(p, "clean", "casClean")
        /\ mem' = Fill(Address(indexByPosition(clean), clean % TermLength),
                       cleanLength(clean, loc[p].min), Zero)
        /\ UNCHANGED <<activeTermCount, rawTail, cleanPosition, notified,
                       bytesConsumed, loc, history>>

CasCleanPosition(p) ==
    LET clean == loc[p].clean
    IN  /\ Goto(p, "casClean", "termCount")
        /\ cleanPosition' = IF cleanPosition = clean
                            THEN clean + cleanLength(clean, loc[p].min)
                            ELSE cleanPosition
        /\ loc' = [loc EXCEPT ![p].clean = 0]
        /\ UNCHANGED <<activeTermCount, rawTail, mem, notified,
                       bytesConsumed, history>>

---------------------------------------------------------------------------
(* tryClaim, its second part: the checks against the limit.                *)

ReadActiveTermCount(p) ==
    /\ Goto(p, "termCount", "rawTail")
    /\ loc' = [loc EXCEPT ![p].count = activeTermCount]
    /\ UNCHANGED <<shared, bytesConsumed, history>>

(* Mutant: the limit is not checked. *)
ReadRawTailNoLimit(p) ==
    LET rt == rawTail[indexByTermCount(loc[p].count)]
    IN  /\ \/ /\ loc[p].count # rt.id
              /\ Return(p, "rawTail")
           \/ /\ loc[p].count = rt.id
              /\ Goto(p, "rawTail", "claimCount")
              /\ loc' = [loc EXCEPT ![p] = [NoLocals EXCEPT !.len = loc[p].len,
                                           !.count = loc[p].count, !.id = rt.id]]
        /\ UNCHANGED <<shared, bytesConsumed, history>>

(* AdminAction when the tail belongs to another term than the count read   *)
(* before it, BackPressure when its position has reached the limit.        *)
ReadRawTail(p) ==
    LET rt       == rawTail[indexByTermCount(loc[p].count)]
        position == computePosition(rt.id, rawTailTermOffset(rt, TermLength))
        limit    == loc[p].min + Window
    IN  /\ \/ /\ loc[p].count # rt.id \/ position >= limit
              /\ Return(p, "rawTail")
           \/ /\ loc[p].count = rt.id /\ position < limit
              /\ Goto(p, "rawTail", "claimCount")
              /\ loc' = [loc EXCEPT ![p] = [NoLocals EXCEPT !.len = loc[p].len,
                                           !.count = loc[p].count, !.id = rt.id]]
        /\ UNCHANGED <<shared, bytesConsumed, history>>

---------------------------------------------------------------------------
(* termAppenderClaim: reads the active term count anew and moves its tail. *)

ReadClaimTermCount(p) ==
    /\ Goto(p, "claimCount", "fetchAdd")
    /\ loc' = [loc EXCEPT ![p].part = indexByTermCount(activeTermCount)]
    /\ UNCHANGED <<shared, bytesConsumed, history>>

(* Mutant: the tail moves by the payload only, not by the whole frame. *)
AddPayloadLength(p) ==
    LET i      == loc[p].part
        n      == loc[p].len
        offset == rawTailTermOffset(rawTail[i], capacity(i))
    IN  /\ offset + n <= capacity(i)
        /\ rawTail' = [rawTail EXCEPT ![i].off = @ + n - 1]
        /\ Goto(p, "fetchAdd", "header")
        /\ claims' = Append(claims, [id |-> rawTail[i].id, part |-> i,
                                     off |-> offset, len |-> n])
        /\ loc' = [loc EXCEPT ![p] = [NoLocals EXCEPT !.len = n, !.part = i,
                                     !.off = offset, !.val = Len(claims')]]
        /\ UNCHANGED <<activeTermCount, cleanPosition, mem, notified,
                       bytesConsumed, committed>>

GetAndAddRawTail(p) ==
    LET i       == loc[p].part
        n       == loc[p].len
        rt      == rawTail[i]
        termLen == capacity(i)
        offset  == rawTailTermOffset(rt, termLen)
        fits    == offset + n <= termLen
    IN  /\ rawTail' = [rawTail EXCEPT ![i].off = @ + n]
        /\ \/ /\ fits
              /\ Goto(p, "fetchAdd", "header")
              /\ claims' = Append(claims, [id |-> rt.id, part |-> i,
                                           off |-> offset, len |-> n])
              /\ loc' = [loc EXCEPT ![p] = [NoLocals EXCEPT !.len = n, !.part = i,
                                           !.off = offset, !.val = Len(claims')]]
           \/ /\ ~fits
              /\ Goto(p, "fetchAdd", IF offset < termLen THEN "padHeader" ELSE "rotate")
              /\ loc' = [loc EXCEPT ![p] = [@ EXCEPT !.len = 0, !.off = offset]]
              /\ UNCHANGED claims
        /\ UNCHANGED <<activeTermCount, cleanPosition, mem, notified,
                       bytesConsumed, committed>>

(* The claimed frame: headerWrite, putBS and commit.  The negative length  *)
(* tells readers that the frame is not committed yet.                      *)
ClaimAddress(p) == Address(loc[p].part, loc[p].off)

(* Mutant: the header already says that the frame is valid. *)
HeaderWriteValid(p) ==
    /\ Goto(p, "header", "put")
    /\ mem' = [mem EXCEPT ![ClaimAddress(p)] = Header("Valid", loc[p].len)]
    /\ UNCHANGED <<activeTermCount, rawTail, cleanPosition, notified,
                   bytesConsumed, loc, history>>

HeaderWrite(p) ==
    /\ Goto(p, "header", "put")
    /\ mem' = [mem EXCEPT ![ClaimAddress(p)] = Header("Empty", -loc[p].len)]
    /\ UNCHANGED <<activeTermCount, rawTail, cleanPosition, notified,
                   bytesConsumed, loc, history>>

PutBS(p) ==
    /\ Goto(p, "put", "commitType")
    /\ mem' = Fill(ClaimAddress(p) + 1, loc[p].len - 1, Payload(loc[p].val))
    /\ UNCHANGED <<activeTermCount, rawTail, cleanPosition, notified,
                   bytesConsumed, loc, history>>

(* Mutant: the frame keeps its type Empty. *)
CommitTypeForgotten(p) ==
    /\ Goto(p, "commitType", "commitLength")
    /\ UNCHANGED <<shared, bytesConsumed, loc, history>>

CommitFrameType(p) ==
    /\ Goto(p, "commitType", "commitLength")
    /\ mem' = [mem EXCEPT ![ClaimAddress(p)].tag = "Valid"]
    /\ UNCHANGED <<activeTermCount, rawTail, cleanPosition, notified,
                   bytesConsumed, loc, history>>

CommitFrameLength(p) ==
    /\ Goto(p, "commitLength", "notify")
    /\ mem' = [mem EXCEPT ![ClaimAddress(p)].len = loc[p].len]
    /\ committed' = committed \cup {loc[p].val}
    /\ UNCHANGED <<activeTermCount, rawTail, cleanPosition, notified,
                   bytesConsumed, loc, claims>>

(* Mutant: commit does not notify. *)
ForgetNotify(p) ==
    /\ Return(p, "notify")
    /\ UNCHANGED <<shared, bytesConsumed, history>>

NotifyReader(p) ==
    /\ Return(p, "notify")
    /\ notified' = TRUE
    /\ UNCHANGED <<activeTermCount, rawTail, cleanPosition, mem,
                   bytesConsumed, history>>

---------------------------------------------------------------------------
(* handleEndOfLogCondition: the first producer past the end of the term    *)
(* fills what is left of it with padding.                                  *)
paddingLength(p) == capacity(loc[p].part) - loc[p].off

PaddingHeader(p) ==
    /\ Goto(p, "padHeader", "padType")
    /\ mem' = [mem EXCEPT ![ClaimAddress(p)] = Header("Empty", -paddingLength(p))]
    /\ UNCHANGED <<activeTermCount, rawTail, cleanPosition, notified,
                   bytesConsumed, loc, history>>

PaddingType(p) ==
    /\ Goto(p, "padType", "padLength")
    /\ mem' = [mem EXCEPT ![ClaimAddress(p)].tag = "Padding"]
    /\ UNCHANGED <<activeTermCount, rawTail, cleanPosition, notified,
                   bytesConsumed, loc, history>>

(* Mutant: the length of the padding stays negative. *)
PaddingLengthForgotten(p) ==
    /\ Goto(p, "padLength", "rotate")
    /\ loc' = [loc EXCEPT ![p].part = 0, ![p].off = 0]
    /\ UNCHANGED <<activeTermCount, rawTail, cleanPosition, mem, notified,
                   bytesConsumed, history>>

PaddingLength(p) ==
    /\ Goto(p, "padLength", "rotate")
    /\ mem' = [mem EXCEPT ![ClaimAddress(p)].len = paddingLength(p)]
    /\ loc' = [loc EXCEPT ![p].part = 0, ![p].off = 0]
    /\ UNCHANGED <<activeTermCount, rawTail, cleanPosition, notified,
                   bytesConsumed, history>>

---------------------------------------------------------------------------
(* rotateLog, with the term count and the term id that tryClaim read: the  *)
(* next partition gets the next term id unless another producer gave it    *)
(* one, then the active term count moves on unless it has already.         *)
nextIndex(p) == indexByTermCount(loc[p].count + 1)

RotateReadRawTail(p) ==
    LET rt == rawTail[nextIndex(p)]
    IN  /\ Goto(p, "rotate",
                IF rt.id = loc[p].id + 1 - PARTITION_COUNT THEN "casTail" ELSE "casCount")
        /\ loc' = [loc EXCEPT ![p].part = 0, ![p].off = 0, ![p].tail = rt]
        /\ UNCHANGED <<shared, bytesConsumed, history>>

CasRawTail(p) ==
    LET i == nextIndex(p)
    IN  /\ \/ /\ rawTail[i] = loc[p].tail
              /\ rawTail' = [rawTail EXCEPT ![i] = [id |-> loc[p].id + 1, off |-> 0]]
              /\ Goto(p, "casTail", "casCount")
           \/ /\ rawTail[i] # loc[p].tail
              /\ Goto(p, "casTail", "rotate")
              /\ UNCHANGED rawTail
        /\ UNCHANGED <<activeTermCount, cleanPosition, mem, notified,
                       bytesConsumed, loc, history>>

(* Mutant: an increment instead of the compare-and-swap. *)
IncrActiveTermCount(p) ==
    /\ Return(p, "casCount")
    /\ activeTermCount' = activeTermCount + 1
    /\ UNCHANGED <<rawTail, cleanPosition, mem, notified, bytesConsumed, history>>

CasActiveTermCount(p) ==
    /\ Return(p, "casCount")
    /\ activeTermCount' = IF activeTermCount = loc[p].count
                          THEN loc[p].count + 1
                          ELSE activeTermCount
    /\ UNCHANGED <<rawTail, cleanPosition, mem, notified, bytesConsumed, history>>

---------------------------------------------------------------------------
Produce(p) ==
    \/ ReadMinBytesConsumed(p) \/ ReadCleanPosition(p)
    \/ CleanTerm(p) \/ CasCleanPosition(p)
    \/ ReadActiveTermCount(p) \/ ReadRawTail(p)
    \/ ReadClaimTermCount(p) \/ GetAndAddRawTail(p)
    \/ HeaderWrite(p) \/ PutBS(p) \/ CommitFrameType(p)
    \/ CommitFrameLength(p) \/ NotifyReader(p)
    \/ PaddingHeader(p) \/ PaddingType(p) \/ PaddingLength(p)
    \/ RotateReadRawTail(p) \/ CasRawTail(p) \/ CasActiveTermCount(p)

---------------------------------------------------------------------------
(* What the readers see of the log. *)

(* The position of the log's end that a reader computes from the active    *)
(* term count c it has read. *)
TailPosition(c) ==
    LET rt == rawTail[indexByTermCount(c)]
    IN  computePosition(rt.id, rawTailTermOffset(rt, TermLength))

ReadAddress(position) == Address(indexByPosition(position), position % TermLength)

ClaimPosition(k) == computePosition(claims[k].id, claims[k].off)

---------------------------------------------------------------------------
(* Properties of the append path, whoever reads. *)

ProducerLabels ==
    {"idle", "readClean", "clean", "casClean", "termCount", "rawTail", "claimCount",
     "fetchAdd", "header", "put", "commitType", "commitLength", "notify",
     "padHeader", "padType", "padLength", "rotate", "casTail", "casCount"}

RawTails == [id : Int, off : Nat]

Locals == [len : Nat, min : Nat, clean : Nat, count : Nat, id : Int,
           part : Partitions, off : Nat, val : Nat, tail : RawTails]

Claims == [id : Int, part : Partitions, off : Nat, len : Nat]

AppendTypeOK ==
    /\ activeTermCount \in Nat
    /\ rawTail \in [Partitions -> RawTails]
    /\ cleanPosition \in Nat
    /\ bytesConsumed \in [Subscribers -> Nat]
    /\ mem \in [Addresses -> Words]
    /\ notified \in BOOLEAN
    /\ ppc \in [Producers -> ProducerLabels]
    /\ loc \in [Producers -> Locals]
    /\ claims \in Seq(Claims)
    /\ committed \in SUBSET Nat

(* The payload of the frame of claim k. *)
Content(k) == [j \in 1 .. claims[k].len - 1 |-> k]

Committed(k) ==
    LET a == Address(claims[k].part, claims[k].off)
    IN  /\ mem[a] = Header("Valid", claims[k].len)
        /\ \A j \in 1 .. claims[k].len - 1 : mem[a + j] = Payload(k)

(* The part of a journal's life that the layout of its buffers serves: no  *)
(* frame has been claimed past the end of its term.  It is over for good   *)
(* with the first frame that is, at the latest when the second term is     *)
(* full, because the buffer of partition 1 does not end there.             *)
ClaimsInsideTerm ==
    \A k \in 1 .. Len(claims) : claims[k].off + claims[k].len <= TermLength

(* The bytes of a committed frame stay in memory, untouched by cleaning, by *)
(* other claims and by padding, until every subscriber has consumed them.   *)
UnreadIntact ==
    \A k \in committed : ClaimPosition(k) >= minBytesConsumed => Committed(k)

(* A producer finds the words it claimed zeroed, so readers cannot take old *)
(* bytes for a new frame.                                                   *)
ClaimsAreClean ==
    \A p \in Producers : ppc[p] = "header" =>
        \A j \in 0 .. loc[p].len - 1 : mem[ClaimAddress(p) + j] = Zero

\* rotateLog is thread safe: the partition of the active term count holds that
\* term, the previous one the term before, and the next one either the term two
\* before or, during a rotation, already the next term.
TermsInStep ==
    LET c == activeTermCount
    IN  /\ rawTail[indexByTermCount(c)].id = c
        /\ rawTail[indexByTermCount(c + 2)].id = c - 1
        /\ rawTail[indexByTermCount(c + 1)].id \in {c - 2, c + 1}

\* The claims follow each other: a later claim is in a later term, or in the
\* same one behind the end of the earlier claim.  Together with ClaimsInsideTerm
\* it means that no two claims share a word of the log.
ClaimsOrdered ==
    \A k, l \in 1 .. Len(claims) : k < l =>
        \/ claims[k].id < claims[l].id
        \/ /\ claims[k].id = claims[l].id
           /\ claims[k].off + claims[k].len <= claims[l].off

\* The tail that the limit is checked against runs ahead of the slowest
\* subscriber by at most the window and two frames per producer: one for which
\* it passed the limit check, and one by which it had already moved the tail of
\* a term that was not active yet, so that no check saw it.
BackPressureBound ==
    TailPosition(activeTermCount)
        < minBytesConsumed + Window + 2 * Cardinality(Producers) * Max(FrameLengths)

\* As long as no frame has left its term, the words of committed frames stay as
\* they were written until every subscriber has consumed them, whatever is
\* cleaned, padded or claimed beside them, and frames are claimed of zeroed words.
MemoryInsideTerms == ClaimsInsideTerm => UnreadIntact /\ ClaimsAreClean
=============================================================================
