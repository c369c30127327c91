------------------------------ MODULE Service ------------------------------
(***************************************************************************)
(* Starting and stopping a background service with the command-line tool   *)
(* (cli/cmd): "up" and "down" of the logger; those of the scheduler are    *)
(* the same code.  The pid file says which process is running.  Each       *)
(* command is a process of its own and takes several steps; Shells are the *)
(* terminals that commands are typed into.                                 *)
(***************************************************************************)
EXTENDS Integers, Sequences, FiniteSets

CONSTANTS
    Shells,      \* terminals
    MaxPids,     \* bound: processes started
    MaxCommands  \* bound: commands typed

ASSUME ServiceAssumption == MaxPids \in Nat /\ MaxCommands \in Nat

Pids == 1 .. MaxPids
NoPid == 0
BadPid == -1

VARIABLES
    pidFile,     \* the pid in the pid file, NoPid if there is no file, BadPid if it
                 \* cannot be read as a number
    process,     \* pid -> "none", "running" or "dead"
    command,     \* shell -> the command's next step, "idle" between commands
    pid,         \* shell -> the command's variable pid
    typed,       \* how many commands have been typed
    disturbed    \* history: have two commands run at the same time, or has a pid
                 \* not been written?

shellVars == <<pidFile, command, pid, typed, disturbed>>
service == <<shellVars, process>>

Spare == {p \in Pids : process[p] = "none"}
Running == {p \in Pids : process[p] = "running"}

ServiceInit ==
    /\ pidFile = NoPid
    /\ process = [p \in Pids |-> "none"]
    /\ command = [s \in Shells |-> "idle"]
    /\ pid = [s \in Shells |-> NoPid]
    /\ typed = 0 /\ disturbed = FALSE

Goto(s, step) == command' = [command EXCEPT ![s] = step]

Exit(s) == Goto(s, "idle") /\ pid' = [pid EXCEPT ![s] = NoPid]

Begin(s, step) ==
    /\ command[s] = "idle" /\ typed < MaxCommands
    /\ typed' = typed + 1
    /\ Goto(s, step)
    /\ disturbed' = (disturbed \/ \E t \in Shells : command[t] # "idle")

---------------------------------------------------------------------------
(* Mutant: up does not look at the pid file. *)
UpCheckNothing(s) ==
    /\ Spare # {}
    /\ Begin(s, "start")
    /\ UNCHANGED <<pidFile, process, pid>>

(* up: a pid that can be read means that the service is already running. *)
UpCheck(s) ==
    /\ pidFile \notin Pids /\ Spare # {}
    /\ Begin(s, "start")
    /\ UNCHANGED <<pidFile, process, pid>>

(* The program may fail to start. *)
UpStart(s) ==
    /\ command[s] = "start"
    /\ \/ /\ \E p \in Pids :
                /\ process[p] = "none" /\ \A q \in 1 .. p - 1 : process[q] # "none"
                /\ process' = [process EXCEPT ![p] = "running"]
                /\ pid' = [pid EXCEPT ![s] = p]
          /\ Goto(s, "write")
       \/ Exit(s) /\ UNCHANGED process
    /\ UNCHANGED <<pidFile, typed, disturbed>>

(* The error of WriteFile is ignored; the file is as it was, or truncated. *)
UpWrite(s) ==
    /\ command[s] = "write"
    /\ \/ pidFile' = pid[s] /\ UNCHANGED disturbed
       \/ pidFile' \in {pidFile, BadPid} /\ disturbed' = TRUE
    /\ Exit(s)
    /\ UNCHANGED <<process, typed>>

(* down: read the pid, kill the process, remove the file. *)
DownRead(s) ==
    /\ pidFile \in Pids
    /\ Begin(s, "kill")
    /\ pid' = [pid EXCEPT ![s] = pidFile]
    /\ UNCHANGED <<pidFile, process>>

(* A process that has already finished is an error: the file stays. *)
DownKill(s) ==
    /\ command[s] = "kill"
    /\ IF process[pid[s]] = "running"
       THEN process' = [process EXCEPT ![pid[s]] = "dead"] /\ Goto(s, "remove") /\ UNCHANGED pid
       ELSE Exit(s) /\ UNCHANGED process
    /\ UNCHANGED <<pidFile, typed, disturbed>>

DownRemove(s) ==
    /\ command[s] = "remove"
    /\ pidFile' = NoPid
    /\ Exit(s)
    /\ UNCHANGED <<process, typed, disturbed>>

ServiceNext ==
    \E s \in Shells :
        \/ UpCheck(s) \/ UpStart(s) \/ UpWrite(s)
        \/ DownRead(s) \/ DownKill(s) \/ DownRemove(s)

Die(p) == process' = [process EXCEPT ![p] = "dead"]

---------------------------------------------------------------------------
Busy == \E s \in Shells : command[s] # "idle"

(* As long as commands do not overlap and every pid can be written, the    *)
(* pid file names every process that runs, so that down can stop it, and   *)
(* up starts no second one ("Already running on pid").  A WriteFile that   *)
(* fails leaves a process that no command can stop.                        *)
RunningIsInPidFile == ~ disturbed /\ ~ Busy => Running \subseteq {pidFile}
=============================================================================
