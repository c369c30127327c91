---- MODULE MCJournalMP ----
EXTENDS JournalMP, TLC
CONSTANTS p1, p2, r1, r2
OneSub == {"Sub1"}
AllSub1 == [r \in Readers |-> "Sub1"]

\* The threads of the process: two producers and a reader, or one producer and
\* two readers that race for its frames.
VARIABLE threads
Teams == {{p1, p2, r1}, {p1, r1, r2}}

TeamInit == Init /\ threads \in Teams
TeamNext ==
    /\ \/ \E p \in Producers \cap threads : Produce(p) /\ UNCHANGED readVars
       \/ \E r \in Readers \cap threads : Consume(r)
    /\ UNCHANGED threads
teamVars == <<vars, threads>>

TeamSpec ==
    /\ TeamInit /\ [][TeamNext]_teamVars
    /\ \A p \in Producers : WF_teamVars(/\ p \in threads /\ ppc[p] # "idle" /\ Produce(p)
                                        /\ UNCHANGED <<readVars, threads>>)
    /\ \A r \in Readers : WF_teamVars(r \in threads /\ Consume(r) /\ UNCHANGED threads)
====
