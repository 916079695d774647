----------------------------- MODULE PressurePhase -----------------------------
(***************************************************************************)
(* One excitation phase: _run_pressure_phase (controlled_forecast.py).     *)
(* The main thread and one pressure worker per active core meet at a       *)
(* barrier; each worker's native loop raises its start flag, the main      *)
(* thread waits for all flags (with a deadline), measures, and leaves the  *)
(* thread pool, which joins the workers, on every path.                    *)
(***************************************************************************)
EXTENDS Integers, Sequences, FiniteSets

CONSTANT Cores   \* the cores of the excitation role

VARIABLES
    main,    \* where the main thread is in the phase
    active,  \* the cores the current phase requests
    wpc,     \* per core: where its worker is
    flag,    \* per core: native_started
    open,    \* the barrier has released its parties
    raised   \* why the phase raised, or "none"

phase == <<main, active, wpc, flag, open, raised>>

Ended == {"absent", "finished", "failed"}
Working == {"native", "running"}

PhaseInit ==
    /\ main = "outside" /\ active = {} /\ open = FALSE /\ raised = "none"
    /\ wpc = [c \in Cores |-> "absent"]
    /\ flag = [c \in Cores |-> FALSE]

StartPhaseKeepingFlags(cores) ==  \* mutant: the flags of the last phase are used
    /\ main' = "submit" /\ active' = cores /\ open' = FALSE
    /\ wpc' = [c \in Cores |-> "absent"]
    /\ UNCHANGED <<flag, raised>>

\* A phase has a barrier, start flags and a pool of its own.
StartPhase(cores) ==
    /\ main' = "submit" /\ active' = cores /\ open' = FALSE
    /\ wpc' = [c \in Cores |-> "absent"]
    /\ flag' = [c \in Cores |-> FALSE]
    /\ UNCHANGED raised

LeavePhase(why) == main' = "exiting" /\ raised' = why

-----------------------------------------------------------------------------
(* The main thread.                                                        *)

Submit(c) ==
    /\ main = "submit" /\ c \in active /\ wpc[c] = "absent"
    /\ wpc' = [wpc EXCEPT ![c] = "submitted"]
    /\ UNCHANGED <<main, active, flag, open, raised>>

\* The pool cannot start a thread; those it started wait at the barrier.
SubmitFails(c) ==
    /\ main = "submit" /\ c \in active /\ wpc[c] = "absent"
    /\ LeavePhase("thread")
    /\ UNCHANGED <<active, wpc, flag, open>>

MainArrives ==
    /\ main = "submit" /\ \A c \in active : wpc[c] # "absent"
    /\ main' = "barrier"
    /\ open' = (\A c \in active : wpc[c] = "barrier")
    /\ UNCHANGED <<active, wpc, flag, raised>>

MainPasses ==
    /\ main = "barrier" /\ open
    /\ main' = "flags"
    /\ UNCHANGED <<active, wpc, flag, open, raised>>

\* External: the operator interrupts the wait; Barrier.wait does not abort.
Interrupted ==
    /\ main = "barrier" /\ LeavePhase("interrupt")
    /\ UNCHANGED <<active, wpc, flag, open>>

AllStarted ==
    /\ main = "flags" /\ \A c \in active : flag[c]
    /\ main' = "measure"
    /\ UNCHANGED <<active, wpc, flag, open, raised>>

DeadlineOfStarted ==   \* mutant: the deadline is read once the flags are up
    /\ main = "flags" /\ \A c \in active : flag[c]
    /\ LeavePhase("deadline")
    /\ UNCHANGED <<active, wpc, flag, open>>

Deadline ==
    /\ main = "flags" /\ \E c \in active : ~flag[c]
    /\ LeavePhase("deadline")
    /\ UNCHANGED <<active, wpc, flag, open>>

Measure ==
    /\ main = "measure"
    /\ \/ main' = "results" /\ UNCHANGED raised
       \/ LeavePhase("probe")
    /\ UNCHANGED <<active, wpc, flag, open>>

\* future.result() for every worker, and the pool's own join.
Results ==
    /\ main = "results" /\ \A c \in active : wpc[c] \in Ended
    /\ main' = "returned"
    /\ UNCHANGED <<active, wpc, flag, open, raised>>

ExitWithoutJoin ==     \* mutant: shutdown(wait=False)
    /\ main = "exiting"
    /\ main' = "raised"
    /\ UNCHANGED <<active, wpc, flag, open, raised>>

\* ThreadPoolExecutor.__exit__ joins the workers before the exception goes on.
ExitPool ==
    /\ main = "exiting" /\ \A c \in active : wpc[c] \in Ended
    /\ main' = "raised"
    /\ UNCHANGED <<active, wpc, flag, open, raised>>

PhaseStep ==
    \/ \E c \in Cores : Submit(c) \/ SubmitFails(c)
    \/ MainArrives \/ MainPasses \/ Interrupted \/ AllStarted \/ Deadline
    \/ Measure \/ Results \/ ExitPool

-----------------------------------------------------------------------------
(* A worker thread.                                                        *)

Go(c, from, to) == wpc[c] = from /\ wpc' = [wpc EXCEPT ![c] = to]

Arrives(c) ==
    /\ Go(c, "submitted", "barrier")
    /\ open' = (main = "barrier" /\ \A d \in active : wpc'[d] = "barrier")
    /\ UNCHANGED <<main, active, flag, raised>>

Passes(c) ==
    /\ open /\ Go(c, "barrier", "native")
    /\ UNCHANGED <<main, active, flag, open, raised>>

\* The affinity call is refused: the flag is never raised.
NativeFails(c) ==
    /\ Go(c, "native", "failed")
    /\ UNCHANGED <<main, active, flag, open, raised>>

NativeStarts(c) ==
    /\ Go(c, "native", "running")
    /\ flag' = [flag EXCEPT ![c] = TRUE]
    /\ UNCHANGED <<main, active, open, raised>>

\* The duration is over.
NativeEnds(c) ==
    /\ Go(c, "running", "finished")
    /\ UNCHANGED <<main, active, flag, open, raised>>

WorkerStep(c) ==
    Arrives(c) \/ Passes(c) \/ NativeFails(c) \/ NativeStarts(c) \/ NativeEnds(c)

-----------------------------------------------------------------------------

\* The pool joins a worker that waits for a barrier nobody will complete.
\* Meant to follow only from the environment: a thread that cannot be started,
\* or an interrupt.
Stranded ==
    main = "exiting" /\ ~open /\ \E c \in active : wpc[c] \in {"submitted", "barrier"}

\* A block is measured only while every requested worker has entered its native
\* loop in this very phase: barrier, fresh flags and deadline together
\* (controlled_forecast.py:470).
MeasuredUnderPressure ==
    main = "measure" => \A c \in active : wpc[c] \in {"running", "finished"}

=============================================================================
