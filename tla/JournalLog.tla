----------------------------- MODULE JournalLog -----------------------------
(***************************************************************************)
(* What the journal promises, whatever its memory looks like: entries get  *)
(* a place in one log in the order in which they are claimed, become       *)
(* readable one by one in any order, and every subscriber reads them in    *)
(* the order of the log, each exactly once, none before it is readable.    *)
(* It is the FakeJournal of the journal's tests, for several writers.      *)
(***************************************************************************)
EXTENDS Naturals, Sequences

CONSTANTS Subs     \* the subscribers

VARIABLES
    size,          \* how many entries have been claimed
    readable,      \* the entries that have been committed
    read           \* per subscriber, the entries it has been given

vars == <<size, readable, read>>

Init ==
    /\ size = 0
    /\ readable = {}
    /\ read = [s \in Subs |-> <<>>]

Claim ==
    /\ size' = size + 1
    /\ UNCHANGED <<readable, read>>

Commit == \E e \in 1 .. size :
    /\ readable' = readable \cup {e}
    /\ UNCHANGED <<size, read>>

Read(s) ==
    LET next == Len(read[s]) + 1
    IN  /\ next \in readable
        /\ read' = [read EXCEPT ![s] = Append(@, next)]
        /\ UNCHANGED <<size, readable>>

Next == Claim \/ Commit \/ \E s \in Subs : Read(s)

Spec == Init /\ [][Next]_vars
=============================================================================
