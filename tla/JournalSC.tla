----------------------------- MODULE JournalSC -----------------------------
(***************************************************************************)
(* The multi-producer journal with the single consumer of                  *)
(* Journal.MP.readManyJournalSC, which reads everything up to the tail it  *)
(* saw and, when there is nothing, sleeps until a producer notifies it.    *)
(* The caller calls it again and again, as the worker of dumblog does.     *)
(***************************************************************************)
EXTENDS JournalAppend

CONSTANTS Modes    \* TRUE: readManyJournalSC, which waits; FALSE: readManyJournalSC'

ASSUME ConsumerAssumption == Modes \subseteq BOOLEAN /\ "Sub1" \in Subscribers

VARIABLES
    cpc,       \* program counter of the consumer
    cloc,      \* its local variables
    processed, \* history: the bytestrings given to `process`
    waits      \* which of the two functions the consumer calls

readVars == <<cpc, cloc, processed, waits>>
vars     == <<appendVars, readVars>>

NoReadLocals == [offset |-> 0, count |-> 0, position |-> 0, old |-> 0,
                 tag |-> "Empty", len |-> 0]

Init ==
    /\ AppendInit
    /\ cpc = "offset"
    /\ cloc = NoReadLocals
    /\ processed = <<>>
    /\ waits \in Modes

GotoC(from, to) == cpc = from /\ cpc' = to

---------------------------------------------------------------------------
ReadBytesConsumed ==
    /\ GotoC("offset", "count")
    /\ cloc' = [cloc EXCEPT !.offset = bytesConsumed["Sub1"]]
    /\ UNCHANGED <<appendVars, processed>>

ReaderTermCount ==
    /\ GotoC("count", "tail")
    /\ cloc' = [cloc EXCEPT !.count = activeTermCount]
    /\ UNCHANGED <<appendVars, processed>>

ReaderRawTail ==
    LET position == TailPosition(cloc.count)
        rt       == rawTail[indexByTermCount(cloc.count)]
    IN  /\ \/ /\ waits /\ cloc.offset = position
              /\ GotoC("tail", "wait")
              /\ cloc' = [cloc EXCEPT !.position = position,
                                      !.old = rawTailTermOffset(rt, TermLength)]
           \/ /\ ~(waits /\ cloc.offset = position)
              /\ GotoC("tail", "go")
              /\ cloc' = [NoReadLocals EXCEPT !.offset = cloc.offset, !.position = position]
        /\ UNCHANGED <<appendVars, processed>>

(* waitForJournalChange compares the tail of the partition that was active *)
(* when the call began with what it was then.                              *)
JournalUnchanged ==
    rawTailTermOffset(rawTail[indexByTermCount(cloc.count)], TermLength) = cloc.old

WaitForJournalChange ==
    /\ \/ /\ JournalUnchanged
          /\ GotoC("wait", "block")
          /\ UNCHANGED cloc
       \/ /\ ~JournalUnchanged
          /\ GotoC("wait", "go")
          /\ cloc' = [cloc EXCEPT !.count = 0, !.old = 0]
    /\ UNCHANGED <<appendVars, processed>>

BlockUntilNotification ==
    /\ notified
    /\ GotoC("block", "wait")
    /\ notified' = FALSE
    /\ UNCHANGED <<activeTermCount, rawTail, cleanPosition, mem, bytesConsumed,
                   ppc, loc, history, cloc, processed>>

(* go: everything up to the position has been read, or the next frame. *)
ReadFrameType ==
    /\ \/ /\ cloc.offset = cloc.position
          /\ GotoC("go", "offset")
          /\ cloc' = NoReadLocals
       \/ /\ cloc.offset # cloc.position
          /\ GotoC("go", "length")
          /\ cloc' = [cloc EXCEPT !.tag = mem[ReadAddress(cloc.offset)].tag]
    /\ UNCHANGED <<appendVars, processed>>

(* Mutant: the sign of the length is ignored for every kind of frame. *)
ReadFrameLengthAbs ==
    LET len == mem[ReadAddress(cloc.offset)].len
    IN  /\ \/ /\ cloc.tag # "Empty"
              /\ GotoC("length", IF cloc.tag = "Padding" THEN "incr" ELSE "process")
              /\ cloc' = [cloc EXCEPT !.len = IF len < 0 THEN -len ELSE len]
           \/ /\ cloc.tag = "Empty"
              /\ GotoC("length", "go")
              /\ UNCHANGED cloc
        /\ UNCHANGED <<appendVars, processed>>

(* A padding frame counts whatever the sign of its length, any other frame *)
(* only once its length is positive.                                       *)
ReadFrameLength ==
    LET len == mem[ReadAddress(cloc.offset)].len
    IN  /\ \/ /\ cloc.tag = "Padding"
              /\ GotoC("length", "incr")
              /\ cloc' = [cloc EXCEPT !.len = IF len < 0 THEN -len ELSE len]
           \/ /\ cloc.tag \notin {"Padding", "Empty"} /\ len > 0
              /\ GotoC("length", "process")
              /\ cloc' = [cloc EXCEPT !.len = len]
           \/ /\ cloc.tag # "Padding" /\ (len <= 0 \/ cloc.tag = "Empty")
              /\ GotoC("length", "go")
              /\ UNCHANGED cloc
        /\ UNCHANGED <<appendVars, processed>>

(* unsafeGetByteStringAt does not copy: `process` reads the buffer itself. *)
ProcessBytes ==
    LET a == ReadAddress(cloc.offset)
    IN  /\ GotoC("process", "incr")
        /\ processed' = Append(processed, [k \in 1 .. cloc.len - 1 |-> mem[a + k].val])
        /\ UNCHANGED <<appendVars, cloc>>

IncrBytesConsumed ==
    /\ GotoC("incr", "go")
    /\ bytesConsumed' = [bytesConsumed EXCEPT !["Sub1"] = @ + cloc.len]
    /\ cloc' = [cloc EXCEPT !.offset = @ + cloc.len, !.tag = "Empty", !.len = 0]
    /\ UNCHANGED <<shared, ppc, loc, history, processed>>

Consume ==
    /\ \/ ReadBytesConsumed \/ ReaderTermCount \/ ReaderRawTail
       \/ WaitForJournalChange \/ BlockUntilNotification
       \/ ReadFrameType \/ ReadFrameLength \/ ProcessBytes \/ IncrBytesConsumed
    /\ UNCHANGED waits

Next ==
    \/ \E p \in Producers : Produce(p) /\ UNCHANGED readVars
    \/ Consume

Spec == Init /\ [][Next]_vars

(* Threads keep running; nobody is obliged to append. *)
Fairness ==
    /\ \A p \in Producers : WF_vars(ppc[p] # "idle" /\ Produce(p) /\ UNCHANGED readVars)
    /\ WF_vars(Consume)

FairSpec == Spec /\ Fairness

---------------------------------------------------------------------------
\* Every variable stays in its range.
TypeOK ==
    /\ AppendTypeOK
    /\ cpc \in {"offset", "count", "tail", "wait", "block", "go", "length",
                "process", "incr"}
    /\ cloc \in [offset : Nat, count : Nat, position : Nat, old : Nat, len : Nat,
                 tag : {"Empty", "Valid", "Padding", "Data"}]
    /\ processed \in Seq(Seq(Nat))
    /\ waits \in Modes

(* The consumer processes the payloads of the claims in their order, each    *)
(* once, whole and committed, although it reads the buffer without copying. *)
ProcessedInOrder ==
    \A k \in 1 .. Len(processed) : k \in committed /\ processed[k] = Content(k)

\* As long as no frame has left its term, no wake-up is lost inside a term: a
\* consumer that sleeps on a tail short of the term's end, with nothing in the
\* notifier and no append under way, has processed every entry of the log.
NoLostWakeup ==
    ClaimsInsideTerm /\ cpc = "block" /\ ~notified /\ InFlight = {} /\ cloc.old < TermLength
        => Len(processed) = Len(claims)

\* If no frame ever leaves its term the consumer catches up again and again, so a
\* committed entry is eventually processed: by a consumer that polls, and by one
\* that waits unless it has gone to sleep on the tail of a term it has read up to
\* the end.
ProcessedUnlessAsleep ==
    []ClaimsInsideTerm =>
        []<>(\/ \A k \in committed : Len(processed) >= k
             \/ waits /\ cpc = "block" /\ cloc.old = TermLength)

\* As long as no frame has left its term, the consumer's variables keep their
\* types, lengths of frames and offsets included, while it reads frames that are
\* half written, and it processes the entries in order.
ConsumerInv == ClaimsInsideTerm => TypeOK /\ ProcessedInOrder
=============================================================================
