----------------------------- MODULE JournalMP -----------------------------
(***************************************************************************)
(* The multi-producer journal with the readers of Journal.MP.readJournal:  *)
(* any number of threads may read for one subscriber, they race on a       *)
(* compare-and-swap of its bytesConsumed.                                  *)
(***************************************************************************)
EXTENDS JournalAppend

CONSTANTS
    Readers,   \* threads that call readJournal
    SubOf      \* the subscriber each of them reads for

ASSUME ReaderAssumption == SubOf \in [Readers -> Subscribers]

VARIABLES
    rpc,       \* program counter of each reader
    rloc,      \* local variables of each reader
    delivered  \* history: per subscriber, what its readers returned

readVars == <<rpc, rloc, delivered>>
vars     == <<appendVars, readVars>>

NoReadLocals == [offset |-> 0, count |-> 0, tag |-> "Empty", len |-> 0, bs |-> <<>>]

Init ==
    /\ AppendInit
    /\ rpc = [r \in Readers |-> "offset"]
    /\ rloc = [r \in Readers |-> NoReadLocals]
    /\ delivered = [s \in Subscribers |-> <<>>]

GotoR(r, from, to) == rpc[r] = from /\ rpc' = [rpc EXCEPT ![r] = to]

(* readJournal returns, or starts over: its local variables are gone. *)
Restart(r, from) ==
    /\ GotoR(r, from, "offset")
    /\ rloc' = [rloc EXCEPT ![r] = NoReadLocals]

---------------------------------------------------------------------------
ReadBytesConsumed(r) ==
    /\ GotoR(r, "offset", "count")
    /\ rloc' = [rloc EXCEPT ![r].offset = bytesConsumed[SubOf[r]]]
    /\ UNCHANGED <<appendVars, delivered>>

ReaderTermCount(r) ==
    /\ GotoR(r, "count", "tail")
    /\ rloc' = [rloc EXCEPT ![r].count = activeTermCount]
    /\ UNCHANGED <<appendVars, delivered>>

(* Nothing to read when the offset is the position of the log's end. *)
ReaderRawTail(r) ==
    /\ \/ /\ rloc[r].offset = TailPosition(rloc[r].count)
          /\ Restart(r, "tail")
       \/ /\ rloc[r].offset # TailPosition(rloc[r].count)
          /\ GotoR(r, "tail", "type")
          /\ rloc' = [rloc EXCEPT ![r].count = 0]
    /\ UNCHANGED <<appendVars, delivered>>

ReadFrameType(r) ==
    /\ GotoR(r, "type", "length")
    /\ rloc' = [rloc EXCEPT ![r].tag = mem[ReadAddress(rloc[r].offset)].tag]
    /\ UNCHANGED <<appendVars, delivered>>

(* A frame of negative length is still being written: try again. *)
ReadFrameLength(r) ==
    LET len == mem[ReadAddress(rloc[r].offset)].len
    IN  /\ \/ /\ rloc[r].tag = "Padding" /\ len >= 0
              /\ GotoR(r, "length", "casPadding")
              /\ rloc' = [rloc EXCEPT ![r].len = len]
           \/ /\ rloc[r].tag \notin {"Padding", "Empty"} /\ len > 0
              /\ GotoR(r, "length", "bytes")
              /\ rloc' = [rloc EXCEPT ![r].len = len]
           \/ /\ IF rloc[r].tag = "Padding" THEN len < 0
                 ELSE len <= 0 \/ rloc[r].tag = "Empty"
              /\ Restart(r, "length")
        /\ UNCHANGED <<appendVars, delivered>>

(* getByteStringAt, before the compare-and-swap. *)
ReadBytes(r) ==
    LET a == ReadAddress(rloc[r].offset)
    IN  /\ GotoR(r, "bytes", "cas")
        /\ rloc' = [rloc EXCEPT ![r].bs =
                      [k \in 1 .. rloc[r].len - 1 |-> mem[a + k].val]]
        /\ UNCHANGED <<appendVars, delivered>>

(* casBytesConsumed, for both kinds of frames. *)
Advance(r) ==
    LET s == SubOf[r]
    IN  bytesConsumed' = IF bytesConsumed[s] = rloc[r].offset
                         THEN [bytesConsumed EXCEPT ![s] = rloc[r].offset + rloc[r].len]
                         ELSE bytesConsumed

SkipPadding(r) ==
    /\ Restart(r, "casPadding")
    /\ Advance(r)
    /\ UNCHANGED <<shared, ppc, loc, history, delivered>>

(* Mutant: a reader returns the bytes although another one was faster. *)
ReturnAnyway(r) ==
    /\ Restart(r, "cas")
    /\ Advance(r)
    /\ delivered' = [delivered EXCEPT ![SubOf[r]] = Append(@, rloc[r].bs)]
    /\ UNCHANGED <<shared, ppc, loc, history>>

(* Only the reader whose compare-and-swap succeeds returns the bytes. *)
CasBytesConsumed(r) ==
    LET s == SubOf[r]
    IN  /\ Restart(r, "cas")
        /\ Advance(r)
        /\ delivered' = IF bytesConsumed[s] = rloc[r].offset
                        THEN [delivered EXCEPT ![s] = Append(@, rloc[r].bs)]
                        ELSE delivered
        /\ UNCHANGED <<shared, ppc, loc, history>>

Consume(r) ==
    \/ ReadBytesConsumed(r) \/ ReaderTermCount(r) \/ ReaderRawTail(r)
    \/ ReadFrameType(r) \/ ReadFrameLength(r) \/ ReadBytes(r)
    \/ SkipPadding(r) \/ CasBytesConsumed(r)

Next ==
    \/ \E p \in Producers : Produce(p) /\ UNCHANGED readVars
    \/ \E r \in Readers : Consume(r)

Spec == Init /\ [][Next]_vars

(* Threads keep running; nobody is obliged to append. *)
Fairness ==
    /\ \A p \in Producers : WF_vars(ppc[p] # "idle" /\ Produce(p) /\ UNCHANGED readVars)
    /\ \A r \in Readers : WF_vars(Consume(r))

FairSpec == Spec /\ Fairness

---------------------------------------------------------------------------
(* Properties *)

\* Every variable stays in its range: the type invariant of the journal.
TypeOK ==
    /\ AppendTypeOK
    /\ rpc \in [Readers -> {"offset", "count", "tail", "type", "length",
                            "bytes", "casPadding", "cas"}]
    /\ rloc \in [Readers -> [offset : Nat, count : Nat, len : Nat,
                             tag : {"Empty", "Valid", "Padding", "Data"}, bs : Seq(Nat)]]
    /\ delivered \in [Subscribers -> Seq(Seq(Nat))]

\* Every subscriber is given the payloads of the claims in the order of the
\* claims, as the FakeJournal of the tests gives them: none lost, none twice,
\* none torn or read from cleaned memory.
DeliveredInOrder ==
    \A s \in Subscribers : \A k \in 1 .. Len(delivered[s]) :
        k \in committed /\ delivered[s][k] = Content(k)

\* As long as no frame has left its term, readers deliver in order, and what they
\* copy lies inside the three partitions, whatever half-written header they take
\* its length from.
DeliveredInsideTerms == ClaimsInsideTerm => TypeOK /\ DeliveredInOrder

\* If no frame ever leaves its term the readers catch up again and again, so a
\* committed entry is eventually delivered to every subscriber: no frame before
\* it, no padding and no rotation keeps the readers from it for ever.
EveryCommitDelivered ==
    []ClaimsInsideTerm =>
        []<>(\A s \in Subscribers, k \in committed : Len(delivered[s]) >= k)

(* The journal as the log it promises. *)
Log == INSTANCE JournalLog WITH
         Subs     <- Subscribers,
         size     <- Len(claims),
         readable <- committed,
         read     <- [s \in Subscribers |->
                        [k \in 1 .. Len(delivered[s]) |-> delivered[s][k][1]]]

\* As long as no frame has left its term the journal implements the log: it
\* begins as the log does, and each of its steps is one of the log's or changes
\* nothing of it.
ImplementsLog == Log!Init /\ [][ClaimsInsideTerm' => Log!Next]_(Log!vars)
=============================================================================
