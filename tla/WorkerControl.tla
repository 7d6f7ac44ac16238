---------------------------- MODULE WorkerControl ----------------------------
(***************************************************************************)
(* The commands worker start and worker stop: processes that know of each  *)
(* other through one PID file and signals.  The file is written, read and  *)
(* removed without a lock, and the operating system may give the number of *)
(* a process that has ended to another one.                                *)
(***************************************************************************)
EXTENDS Integers

CONSTANTS
    Workers,    \* worker start commands
    Stoppers,   \* worker stop commands
    Pids,       \* process numbers
    NoPid,      \* no file, or no process
    NoWorker,   \* no start command
    ByNumber    \* "found by its number", see held

ASSUME ControlAssumption == NoPid \notin Pids /\ {NoWorker, ByNumber} \cap Workers = {}

VARIABLES
    file,       \* content of the PID file
    proc,       \* statement each start command is at
    pid,        \* number of its process
    stop,       \* statement each stop command is at
    target,     \* number it has read
    held,       \* process its handle is for, or ByNumber where the system has no handles
    aim         \* the start command whose process had the number when it was read

vars == <<file, proc, pid, stop, target, held, aim>>
commands == <<stop, target, held, aim>>

-----------------------------------------------------------------------------
Alive(w) == proc[w] \notin {"off", "gone"}

\* The process with number n, if there is one.
Owns(w, n) == Alive(w) /\ pid[w] = n

Running(n) == \E w \in Workers : Owns(w, n)

TypeOK ==
    /\ file \in Pids \cup {NoPid}
    /\ proc \in [Workers -> {"off", "launched", "written", "running", "draining",
                             "returned", "gone"}]
    /\ pid \in [Workers -> Pids \cup {NoPid}]
    /\ stop \in [Stoppers -> {"idle", "read", "found", "polling", "dead", "done"}]
    /\ target \in [Stoppers -> Pids \cup {NoPid}]
    /\ held \in [Stoppers -> Workers \cup {NoWorker, ByNumber}]
    /\ aim \in [Stoppers -> Workers \cup {NoWorker}]

Init ==
    /\ file = NoPid
    /\ proc = [w \in Workers |-> "off"]
    /\ pid = [w \in Workers |-> NoPid]
    /\ stop = [s \in Stoppers |-> "idle"]
    /\ target = [s \in Stoppers |-> NoPid]
    /\ held = [s \in Stoppers |-> NoWorker]
    /\ aim = [s \in Stoppers |-> NoWorker]

-----------------------------------------------------------------------------
(* worker start *)

Becomes(w, pc) == proc' = [proc EXCEPT ![w] = pc]

\* The operating system starts the process.
Launch(w) ==
    /\ proc[w] = "off"
    /\ \E n \in Pids : ~Running(n) /\ pid' = [pid EXCEPT ![w] = n]
    /\ Becomes(w, "launched")
    /\ UNCHANGED <<file, commands>>

\* Whatever the file holds is overwritten.
WritePIDFile(w) ==
    /\ proc[w] = "launched"
    /\ file' = pid[w]
    /\ Becomes(w, "written")
    /\ UNCHANGED <<pid, commands>>

\* From signal.Notify on, a signal cancels the context.
CatchSignals(w) ==
    /\ proc[w] = "written"
    /\ Becomes(w, "running")
    /\ UNCHANGED <<file, pid, commands>>

\* What a process does at a signal: before signal.Notify it dies of it.
Signalled(w) ==
    CASE proc[w] \in {"launched", "written"} -> "gone"
      [] proc[w] = "running"                 -> "draining"
      [] OTHER                               -> proc[w]

\* Ctrl-C, or a signal of the system.
Interrupt(w) ==
    /\ Alive(w)
    /\ Becomes(w, Signalled(w))
    /\ UNCHANGED <<file, pid, commands>>

\* Start returns: drained, or, running, with an error.
Return(w) ==
    /\ proc[w] \in {"running", "draining"}
    /\ Becomes(w, "returned")
    /\ UNCHANGED <<file, pid, commands>>

\* The deferred Remove, whoever wrote the file.
RemoveAndExit(w) ==
    /\ proc[w] = "returned"
    /\ file' = NoPid
    /\ Becomes(w, "gone")
    /\ UNCHANGED <<pid, commands>>

\* A crash, or the forced exit 30 s after the signal: the file stays.
Die(w) ==
    /\ Alive(w)
    /\ Becomes(w, "gone")
    /\ UNCHANGED <<file, pid, commands>>

-----------------------------------------------------------------------------
(* worker stop *)

\* w is the process with the number, or there is none.
Has(w, n) == IF Running(n) THEN w \in Workers /\ Owns(w, n) ELSE w = NoWorker

ReadPIDFile(s) ==
    /\ stop[s] = "idle"
    /\ file # NoPid
    /\ target' = [target EXCEPT ![s] = file]
    /\ \E w \in Workers \cup {NoWorker} :
          Has(w, file) /\ aim' = [aim EXCEPT ![s] = w]
    /\ stop' = [stop EXCEPT ![s] = "read"]
    /\ UNCHANGED <<file, proc, pid, held>>

\* os.FindProcess: a handle for the process where the system has them (pidfd), else nothing
\* but the number.
FindProcess(s) ==
    /\ stop[s] = "read"
    /\ \E w \in Workers \cup {NoWorker, ByNumber} :
          /\ w # ByNumber => Has(w, target[s])
          /\ held' = [held EXCEPT ![s] = w]
    /\ stop' = [stop EXCEPT ![s] = "found"]
    /\ UNCHANGED <<file, proc, pid, target, aim>>

\* The process a signal of the command goes to, if there is one.
Reached(s) ==
    {w \in Workers : IF held[s] = ByNumber THEN Owns(w, target[s])
                                           ELSE Alive(w) /\ w = held[s]}

\* Signal(os.Interrupt): it fails if there is no process.
SendInterrupt(s) ==
    /\ stop[s] = "found"
    /\ IF Reached(s) # {}
       THEN /\ proc' = [w \in Workers |-> IF w \in Reached(s) THEN Signalled(w) ELSE proc[w]]
            /\ stop' = [stop EXCEPT ![s] = "polling"]
       ELSE /\ stop' = [stop EXCEPT ![s] = "dead"]
            /\ UNCHANGED proc
    /\ UNCHANGED <<file, pid, target, held, aim>>

\* Variant: the process is not waited for.
EndedAtOnce(s) == TRUE

\* Signal 0 fails.
Ended(s) == Reached(s) = {}

SeeEnded(s) ==
    /\ stop[s] = "polling"
    /\ Ended(s)
    /\ stop' = [stop EXCEPT ![s] = "dead"]
    /\ UNCHANGED <<file, proc, pid, target, held, aim>>

\* Variant: on the timeout the command only gives up.
NobodyKilled(s) == proc

Killed(s) == [w \in Workers |-> IF w \in Reached(s) THEN "gone" ELSE proc[w]]

\* Variant: without the timeout's kill the loop goes on.
PollOn(s) ==
    /\ stop[s] = "polling"
    /\ UNCHANGED vars

\* The timeout of 5 s.
Kill(s) ==
    /\ stop[s] = "polling"
    /\ proc' = Killed(s)
    /\ stop' = [stop EXCEPT ![s] = "dead"]
    /\ UNCHANGED <<file, pid, target, held, aim>>

\* Remove, whoever wrote the file, and the report.
RemovePIDFile(s) ==
    /\ stop[s] = "dead"
    /\ file' = NoPid
    /\ stop' = [stop EXCEPT ![s] = "done"]
    /\ UNCHANGED <<proc, pid, target, held, aim>>

-----------------------------------------------------------------------------
StartStep(w) ==
    \/ Launch(w) \/ WritePIDFile(w) \/ CatchSignals(w) \/ Interrupt(w)
    \/ Return(w) \/ RemoveAndExit(w) \/ Die(w)

StopStep(s) ==
    \/ ReadPIDFile(s) \/ FindProcess(s) \/ SendInterrupt(s)
    \/ SeeEnded(s) \/ Kill(s) \/ RemovePIDFile(s)

Next == (\E w \in Workers : StartStep(w)) \/ (\E s \in Stoppers : StopStep(s))

Spec == Init /\ [][Next]_vars

-----------------------------------------------------------------------------
\* CLI_USAGE.md: stop "stops a running worker pool process by reading its PID".  When a stop
\* command goes on to remove the file and report, the worker that had the number it read
\* is gone, whether the signal, the timeout or something else ended it, and whoever has
\* been given the number since.
StopIsFinal ==
    \A s \in Stoppers :
        stop[s] \in {"dead", "done"} /\ aim[s] # NoWorker => ~Alive(aim[s])

\* worker start "writes the running process ID (PID) to a file to allow stop control".  If no
\* other worker was ever started, the file names this one from its writing to its end:
\* no stop command, and no two of them, remove it too early.
SoleWorkerIsStoppable ==
    \A w \in Workers :
        /\ \A v \in Workers \ {w} : proc[v] = "off"
        /\ proc[w] \in {"written", "running", "draining", "returned"}
        => file = pid[w]

-----------------------------------------------------------------------------
\* A stop command that has read the file goes on: its calls do not block, and its ticker
\* and timeout run.  Nothing is assumed of workers.
Fairness == \A s \in Stoppers : WF_vars(stop[s] # "idle" /\ StopStep(s))

FairSpec == Spec /\ Fairness

\* Every stop command ends, even if the worker hangs in its drain or ignores the signal.
StopEnds == \A s \in Stoppers : stop[s] = "read" ~> stop[s] = "done"
=============================================================================
