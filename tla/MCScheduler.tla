---- MODULE MCScheduler ----
EXTENDS Scheduler
CONSTANTS a, b, c1, c2
Omission(from, to, at) == [kind |-> "omission", from |-> from, to |-> to, at |-> at]
Crash(from, at) == [kind |-> "crash", from |-> from, to |-> "", at |-> at]
OneClient == <<[from |-> c1, to |-> a, at |-> 0], [from |-> c1, to |-> a, at |-> 2]>>
TwoClients == <<[from |-> c1, to |-> a, at |-> 0], [from |-> c2, to |-> b, at |-> 1],
                [from |-> c1, to |-> a, at |-> 2]>>
NoFaults == {{}}
SomeFaults == {{}, {Crash(a, 2)}, {Omission(c1, a, 1)}, {Omission(a, b, 2), Crash(b, 4)}}
====
