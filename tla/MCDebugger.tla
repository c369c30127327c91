----------------------------- MODULE MCDebugger -----------------------------
(* An instance of Debugger. *)
EXTENDS Debugger

CONSTANTS a, b, c1

Omission(from, to, at) == [kind |-> "omission", from |-> from, to |-> to, at |-> at]
Crash(from, at) == [kind |-> "crash", from |-> from, to |-> "", at |-> at]

MCAgenda == <<[from |-> c1, to |-> a, at |-> 0], [from |-> c1, to |-> a, at |-> 1]>>
MCFaults == {{}, {Crash(a, 2)}, {Omission(c1, a, 1)}, {Omission(c1, a, 2)}}
MCHeap == [f \in Fields |-> "zero"]
=============================================================================
