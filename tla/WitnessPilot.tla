----------------------------- MODULE WitnessPilot -----------------------------
(***************************************************************************)
(* The witness pilot (witness/pilot.py): the main thread takes two native  *)
(* samples while a bpftrace process (witness/observer.py) writes kernel    *)
(* events to a file and a worker thread churns memory during the second    *)
(* sample; afterwards the events are correlated with the sample windows    *)
(* (witness/correlation.py).                                               *)
(*                                                                         *)
(* Three actors run concurrently: the main thread, the worker, and the     *)
(* observer process with the kernel behind it.  Time is counted in units   *)
(* of the 100 us uncertainty's grain, from the readiness line on: an event *)
(* before it is of no sample.  The line is taken to mean that the probes   *)
(* are attached.                                                           *)
(***************************************************************************)
EXTENDS Integers, FiniteSets

CONSTANTS
    Uncertainty,    \* the boundary uncertainty, in units of time
    MaxTime,        \* bound on the clock while samples are taken
    MaxEvents       \* bound on the kernel events of interest

ASSUME PilotAssumption ==
    Uncertainty \in Nat /\ MaxTime \in Nat /\ MaxEvents \in Nat

Threads == {"main", "worker"}
Samples == {0, 1}

VARIABLES
    main,       \* where run_witness_pilot is
    worker,     \* where _positive_control is
    stop, tidReady, churn,  \* the three threading.Event objects
    hooks,      \* tracepoints the kernel has: "all", "some" or "none"
    sudo,       \* use_sudo: the process launched is sudo, bpftrace its child
    obs,        \* the observer process
    readyLine,  \* events.jsonl holds the readiness line
    torn,       \* events.jsonl holds a line that does not parse
    pending,    \* events caught, and not yet written to events.jsonl
    delivered,  \* events with a whole line in events.jsonl
    happened,   \* kernel events of the watched threads
    readable,   \* stop() could read events.jsonl
    failure,    \* BpftraceWitnessObserver._failure, or "none"
    handshake,  \* start() read the readiness line (_ready_kernel_ns is set)
    clock,
    window,     \* per sample: when it started and ended, -1 before
    report      \* status of pilot-report.json and the state of each sample

flags == <<stop, tidReady, churn>>
watched == <<torn, pending, delivered>>
kernel == <<sudo, obs, readyLine, watched, happened, readable>>
pvars == <<main, worker, flags, hooks, kernel, failure, handshake, clock,
           window, report>>

\* "flushed": ended by SIGINT, with what it had caught written.  "exited": ended
\* in any other way.  "orphan": sudo was killed and bpftrace runs on without it.
Running == {"launched", "ready"}
Writing == {"ready", "orphan"}
\* The pilot returned a report, or left with an exception.
PilotOver == {"reported", "raised"}
Sampling(i) == IF i = 0 THEN "baseline" ELSE "control"

PilotInit ==
    /\ main = "load" /\ worker = "absent"
    /\ stop = FALSE /\ tidReady = FALSE /\ churn = FALSE
    /\ hooks \in {"all", "some", "none"}
    /\ sudo \in BOOLEAN
    /\ obs = "absent" /\ readyLine = FALSE /\ torn = FALSE
    /\ pending = {} /\ delivered = {} /\ happened = {} /\ readable = TRUE
    /\ failure = "none" /\ handshake = FALSE /\ clock = 0
    /\ window = [i \in Samples |-> [start |-> -1, end |-> -1]]
    /\ report = [status |-> "none", state |-> [i \in Samples |-> "none"],
                 events |-> [i \in Samples |-> {}]]

-----------------------------------------------------------------------------
(* The worker thread: _positive_control.                                   *)

PublishTid ==
    /\ worker = "new"
    /\ worker' = "waiting" /\ tidReady' = TRUE
    /\ UNCHANGED <<main, stop, churn, hooks, kernel, failure, handshake,
                   clock, window, report>>

\* churn_start.wait(timeout=5) returns when the event is set, or after five
\* seconds: only discovery and the eight seconds of observer.start last so long.
Slow == {"discover", "polling", "reading"} \cup PilotOver

StartChurning ==
    /\ worker = "waiting"
    /\ churn \/ main \in Slow
    /\ worker' = "churning"
    /\ UNCHANGED <<main, flags, hooks, kernel, failure, handshake, clock,
                   window, report>>

EndChurning ==
    /\ worker = "churning" /\ stop
    /\ worker' = "ended"
    /\ UNCHANGED <<main, flags, hooks, kernel, failure, handshake, clock,
                   window, report>>

-----------------------------------------------------------------------------
(* The observer process and the kernel.                                    *)

\* The program loads: its BEGIN block writes the readiness line.
BecomeReady ==
    /\ obs = "launched"
    /\ obs' = "ready" /\ readyLine' = TRUE
    /\ UNCHANGED <<main, worker, flags, hooks, sudo, watched, happened, readable,
                   failure, handshake, clock, window, report>>

\* What was caught is lost, and a line may be cut.
CutShort ==
    pending' = {} /\ torn' \in {torn, TRUE} /\ UNCHANGED delivered

\* The process exits by itself: it may not load, or it dies later.
ObserverExits ==
    /\ obs \in Running \cup {"orphan"} /\ main \notin PilotOver
    /\ obs' = "exited" /\ CutShort
    /\ UNCHANGED <<main, worker, flags, hooks, sudo, readyLine, happened, readable,
                   failure, handshake, clock, window, report>>

Busy(t) == IF t = "worker" THEN worker = "churning"
           ELSE main \in {"baseline", "control"}

\* A watched thread faults or is switched; a running observer catches it, unless
\* it is of a tracepoint that the kernel does not have.
KernelEvent ==
    /\ Cardinality(happened) < MaxEvents
    /\ readyLine /\ main \notin PilotOver
    /\ \E t \in Threads :
          LET e == [tid |-> t, time |-> clock]
          IN  /\ Busy(t)
              /\ happened' = happened \cup {e}
              /\ \/ obs \in Writing /\ pending' = pending \cup {e}
                 \/ (obs \notin Writing \/ hooks # "all") /\ UNCHANGED pending
    /\ UNCHANGED <<main, worker, flags, hooks, sudo, obs, readyLine, torn, delivered,
                   readable, failure, handshake, clock, window, report>>

\* The observer writes a line of what it has caught.
Deliver ==
    /\ obs \in Writing /\ main \notin PilotOver
    /\ \E e \in pending :
          pending' = pending \ {e} /\ delivered' = delivered \cup {e}
    /\ UNCHANGED <<main, worker, flags, hooks, sudo, obs, readyLine, torn, happened,
                   readable, failure, handshake, clock, window, report>>

Tick ==
    /\ clock < MaxTime /\ handshake /\ main \notin PilotOver
    /\ clock' = clock + 1
    /\ UNCHANGED <<main, worker, flags, hooks, kernel, failure, handshake,
                   window, report>>

Abandoned == UNCHANGED <<obs, watched>>  \* mutant: the process is left running

\* _terminate: SIGINT, five seconds, then SIGKILL, which reaches only sudo when
\* there is one.
Terminate ==
    \/ obs \notin Running /\ UNCHANGED <<obs, watched>>
    \/ /\ obs \in Running
       /\ obs' = "flushed"
       /\ delivered' = delivered \cup pending /\ pending' = {} /\ UNCHANGED torn
    \/ obs \in Running /\ ~sudo /\ obs' = "exited" /\ CutShort
    \/ /\ obs \in Running /\ sudo
       /\ obs' = "orphan"
       /\ torn' \in {torn, TRUE} /\ UNCHANGED <<pending, delivered>>

\* _terminate raises: the process may not be signalled (PermissionError), or it
\* has not ended two seconds after SIGKILL (TimeoutExpired).
TerminateRaises ==
    obs \in Running /\ main' = "raised" /\ UNCHANGED <<obs, watched>>

-----------------------------------------------------------------------------
(* stop() and the correlation.                                             *)

StatusIgnoresTorn(isTorn) ==   \* mutant: lines that do not parse are skipped
    CASE failure \in {"observer_unavailable", "permission_denied"} -> "unavailable"
      [] failure = "startup_failure" -> "failed"
      [] failure = "none" /\ hooks # "all" -> "incomplete"
      [] OTHER -> "operational"

SessionStatus(isTorn) ==
    CASE failure \in {"observer_unavailable", "permission_denied"} -> "unavailable"
      [] failure = "startup_failure" -> "failed"
      [] failure = "none" /\ (hooks # "all" \/ isTorn) -> "incomplete"
      [] OTHER -> "operational"

\* Inclusive bounds, expanded by the uncertainty.
Within(e, w) == w.start - Uncertainty <= e.time /\ e.time <= w.end + Uncertainty

Matched(events, w) == {e \in events : Within(e, w)}

SampleState(status, matched) ==
    IF status \in {"unavailable", "failed"} THEN "witness_unavailable"
    ELSE IF ~handshake \/ status = "incomplete" THEN "incomplete_witness"
    ELSE IF matched # {} THEN "witness_event_present"
    ELSE "clean"

PilotStatus(status, events) ==
    CASE status = "operational" /\ events # {} -> "observer_operational"
      [] status = "operational" /\ events = {} -> "observer_operational_no_relevant_events"
      [] status = "incomplete" -> "observer_incomplete"
      [] OTHER -> "observer_unavailable"

-----------------------------------------------------------------------------
(* The main thread: run_witness_pilot.                                     *)

LoadKernel ==
    /\ main = "load"
    /\ \/ main' = "await" /\ worker' = "new" /\ UNCHANGED report
       \/ main' = "reported" /\ UNCHANGED worker
          /\ report' = [report EXCEPT !.status = "observer_unavailable"]
    /\ UNCHANGED <<flags, hooks, kernel, failure, handshake, clock, window>>

\* tid_ready.wait(timeout=5); the join that follows waits three seconds.
AwaitTid ==
    /\ main = "await"
    /\ IF tidReady
       THEN main' = "discover" /\ UNCHANGED <<stop, report>>
       ELSE /\ main' = "reported" /\ stop' = TRUE
            /\ report' = [report EXCEPT !.status = "observer_startup_failed"]
    /\ UNCHANGED <<worker, tidReady, churn, hooks, kernel, failure, handshake,
                   clock, window>>

\* start(): capabilities, then Popen.
StartObserver ==
    /\ main = "discover"
    /\ \/ /\ hooks = "none"
          /\ failure' = "observer_unavailable" /\ main' = "abandon"
          /\ UNCHANGED obs
       \/ /\ hooks # "none"
          /\ failure' = "startup_failure" /\ main' = "abandon"
          /\ UNCHANGED obs
       \/ /\ hooks # "none"
          /\ obs' = "launched" /\ main' = "polling"
          /\ UNCHANGED failure
    /\ UNCHANGED <<worker, flags, hooks, sudo, readyLine, watched, happened, readable,
                   handshake, clock, window, report>>

Poll ==
    /\ main = "polling"
    /\ IF obs = "exited"
       THEN /\ failure' \in {"permission_denied", "startup_failure"}
            /\ main' = "abandon"
       ELSE main' = "reading" /\ UNCHANGED failure
    /\ UNCHANGED <<worker, flags, hooks, kernel, handshake, clock, window,
                   report>>

ReadReady ==
    /\ main = "reading"
    /\ handshake' = readyLine
    /\ main' = IF readyLine THEN "measure" ELSE "polling"
    /\ UNCHANGED <<worker, flags, hooks, kernel, failure, clock, window, report>>

NoDeadline ==                  \* mutant: start() polls for ever
    /\ main = "polling" /\ FALSE
    /\ UNCHANGED pvars

PollTimeout ==
    /\ main = "polling"
    /\ failure' = "startup_failure"
    /\ \/ Terminate /\ main' = "abandon"
       \/ TerminateRaises
    /\ UNCHANGED <<worker, flags, hooks, sudo, readyLine, happened, readable,
                   handshake, clock, window, report>>

\* start() returned False: end the worker, stop the observer, report.
Abandon ==
    /\ main = "abandon"
    /\ stop' = TRUE /\ churn' = TRUE
    /\ \/ /\ Terminate /\ main' = "reported"
          /\ report' = [report EXCEPT !.status =
                IF SessionStatus(torn') = "unavailable" THEN "observer_unavailable"
                ELSE "observer_startup_failed"]
       \/ TerminateRaises /\ UNCHANGED report
    /\ UNCHANGED <<worker, tidReady, hooks, sudo, readyLine, happened, readable,
                   failure, handshake, clock, window>>

BeginSample(i) ==
    /\ main = (IF i = 0 THEN "measure" ELSE "release") /\ window[i].start = -1
    /\ i = 1 => churn
    /\ window' = [window EXCEPT ![i].start = clock]
    /\ main' = Sampling(i)
    /\ UNCHANGED <<worker, flags, hooks, kernel, failure, handshake, clock,
                   report>>

\* After the second sample stop is set whatever happened; the join is bounded.
EndSample(i) ==
    /\ main = Sampling(i)
    /\ window' = [window EXCEPT ![i].end = clock]
    /\ main' = IF i = 0 THEN "release" ELSE "close"
    /\ stop' = (i = 1)
    /\ UNCHANGED <<worker, tidReady, churn, hooks, kernel, failure, handshake,
                   clock, report>>

Release ==
    /\ main = "release" /\ ~churn
    /\ churn' = TRUE
    /\ UNCHANGED <<main, worker, stop, tidReady, hooks, kernel, failure,
                   handshake, clock, window, report>>

\* stop() and correlate_witness.  A file that cannot be read is one of no lines.
Closing ==
    /\ Terminate /\ main' = "reported"
    /\ readable' \in BOOLEAN
    /\ LET lines == IF readable' THEN delivered' ELSE {}
           status == SessionStatus(readable' /\ torn')
           matched == [i \in Samples |->
               IF status \in {"operational", "incomplete"} THEN Matched(lines, window[i])
               ELSE {}]
       IN  report' = [status |-> PilotStatus(status, matched[1]),
                      state |-> [i \in Samples |-> SampleState(status, matched[i])],
                      events |-> matched]

Close ==
    /\ main = "close"
    /\ \/ Closing
       \/ TerminateRaises /\ UNCHANGED <<readable, report>>
    /\ UNCHANGED <<worker, flags, hooks, sudo, readyLine, happened, failure, handshake,
                   clock, window>>

MainStep ==
    \/ LoadKernel \/ AwaitTid \/ StartObserver \/ Poll \/ ReadReady
    \/ PollTimeout \/ Abandon \/ Release \/ Close
    \/ \E i \in Samples : BeginSample(i) \/ EndSample(i)

WorkerStep == PublishTid \/ StartChurning \/ EndChurning

\* The worker of a pilot whose start() raised was never told to stop: it churns
\* until the interpreter ends, of which it is a daemon thread.
WorkerOver == worker \in {"absent", "ended"} \/ (main = "raised" /\ ~stop)

PilotStopped == main \in PilotOver /\ WorkerOver /\ UNCHANGED pvars

PilotNext ==
    \/ MainStep \/ WorkerStep \/ BecomeReady \/ ObserverExits \/ KernelEvent
    \/ Deliver \/ Tick \/ PilotStopped

\* The two threads are scheduled; every wait of the main thread has a timeout,
\* so it is owed nothing by the observer.  PollTimeout is fair on its own: the
\* deadline of start() passes however often the loop goes round.
PilotFairness ==
    /\ WF_pvars(MainStep) /\ SF_pvars(PollTimeout) /\ WF_pvars(WorkerStep)

PilotSpec == PilotInit /\ [][PilotNext]_pvars /\ PilotFairness

-----------------------------------------------------------------------------

\* What the observer is answerable for: every event, when it lasted until it was
\* interrupted and had every tracepoint, and what it had written by then otherwise.
Answerable ==
    IF ~readable THEN {}
    ELSE IF obs = "flushed" /\ hooks = "all" THEN happened ELSE delivered

\* A sample is called clean only when no tracepoint was missing, the handshake was
\* made, no line read was lost to parsing, and no event lies within the uncertainty
\* of the sample's window: none that happened, if the observer lasted until stop()
\* interrupted it and its file was read, and none that was written, if it ended
\* before ("not guessed clean", ADR-014:62).
CleanIsWitnessed ==
    \A i \in Samples : report.state[i] = "clean" =>
        /\ hooks = "all" /\ handshake /\ (readable => ~torn)
        /\ \A e \in Answerable : ~Within(e, window[i])

\* No sample is called clean when an event of a watched thread happened between
\* its start and its end ("telemetry is never silently treated as zero",
\* ADR-014:53): the code says so of a session whose observer ended early too.
TelemetryNeverZero ==
    \A i \in Samples : report.state[i] = "clean" =>
        \A e \in happened : e.time < window[i].start \/ e.time > window[i].end

\* When the report is written, the process that was launched does not run, on
\* every path to a report; what runs on is at most the child of a killed sudo.
ObserverReaped ==
    main = "reported" => obs \notin Running /\ (obs = "orphan" => sudo)

\* The observer is temporary (observer.py:188): none is left when the pilot is over.
ObserverIsTemporary == main \in PilotOver => obs \notin Running \cup {"orphan"}

\* The pilot ends, with a report or an exception, and its worker ends with it,
\* whatever the observer process does or fails to do, and also when the worker had
\* not been released; except for the worker of a start() that raised.
PilotEnds == <>[](main \in PilotOver /\ WorkerOver)

=============================================================================
