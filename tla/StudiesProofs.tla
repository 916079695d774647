----------------------------- MODULE StudiesProofs -----------------------------
(***************************************************************************)
(* Proofs about what is concluded from the evidence: the studies, and the  *)
(* witness pilot that calls a sample clean.  For any constants, but for    *)
(* the magnitudes that FreshStreamsAreNew asks about and the alpha that    *)
(* DetectionsArePositives does.                                            *)
(***************************************************************************)
EXTENDS Studies, WitnessPilot, FiniteSetTheorems, TLAPS

-----------------------------------------------------------------------------
(* Of the witness pilot.                                                   *)

KernelEvents == [tid : Threads, time : Nat]

PilotStatuses ==
    {"none", "observer_unavailable", "observer_startup_failed", "observer_incomplete",
     "observer_operational", "observer_operational_no_relevant_events"}
SampleStates ==
    {"none", "witness_unavailable", "incomplete_witness", "witness_event_present", "clean"}

Reported ==
    [status : PilotStatuses, state : [Samples -> SampleStates],
     events : [Samples -> SUBSET KernelEvents]]

PilotTypeOK ==
    /\ clock \in Nat
    /\ torn \in BOOLEAN /\ readable \in BOOLEAN
    /\ pending \subseteq KernelEvents /\ delivered \subseteq KernelEvents
    /\ happened \subseteq KernelEvents
    /\ window \in [Samples -> [start : Int, end : Int]]
    /\ failure \in {"none", "observer_unavailable", "permission_denied", "startup_failure"}
    /\ report \in Reported

\* The process exists from StartObserver on, and until the pilot gives it up it
\* runs or has ended by itself.
NotYetLaunched == main \in {"load", "await", "discover"} => obs = "absent"
NotYetEnded ==
    /\ obs \in {"absent", "launched", "ready", "exited", "flushed", "orphan"}
    /\ obs \in {"flushed", "orphan"} => main \in {"abandon"} \cup PilotOver

\* No event is of a sample before the readiness line.
NothingBefore == obs \in {"absent", "launched"} => ~readyLine
EventsAfter == ~readyLine => happened = {}

\* What happened is caught or written while the observer lasts, and all of it is
\* written when the observer was interrupted at the end of a session.
Caught ==
    hooks = "all" =>
        /\ obs = "ready" => happened \subseteq pending \cup delivered
        /\ obs = "flushed" /\ main = "reported" /\ failure = "none" =>
               happened \subseteq delivered

\* A pilot that gives start() up has a reason, and no sample is clean for it.
FailureKnown == main = "abandon" => failure # "none"

\* Nothing is said of a sample before the report is written.
SilentBefore == main # "reported" => \A i \in Samples : report.state[i] = "none"

\* Only a sudo that was killed leaves its child behind.
OrphanOfSudo == obs = "orphan" => sudo

\* The file is read once, when the pilot is over.
ReadOnce == main # "reported" => readable

Facts ==
    /\ NotYetLaunched /\ NotYetEnded /\ NothingBefore /\ EventsAfter /\ Caught /\ FailureKnown
    /\ SilentBefore /\ OrphanOfSudo /\ ReadOnce

PilotInv == PilotTypeOK /\ Facts /\ ObserverReaped /\ CleanIsWitnessed

\* What _sample_state needs to say "clean".
LEMMA CleanNeeds ==
    ASSUME PilotTypeOK, NEW isTorn \in BOOLEAN, NEW matched,
           SampleState(SessionStatus(isTorn), matched) = "clean"
    PROVE  /\ ~isTorn /\ hooks = "all" /\ handshake /\ matched = {}
           /\ SessionStatus(isTorn) = "operational" /\ failure = "none"
<1>1. /\ SessionStatus(isTorn) \notin {"unavailable", "failed", "incomplete"}
      /\ handshake /\ matched = {}
  BY DEF SampleState
<1>2. /\ failure \notin {"observer_unavailable", "permission_denied", "startup_failure"}
      /\ SessionStatus(isTorn) = "operational"
      /\ failure = "none" => ~isTorn /\ hooks = "all"
  BY <1>1 DEF SessionStatus
<1>3. QED
  BY <1>1, <1>2 DEF PilotTypeOK

LEMMA StatusType ==
    ASSUME NEW status, NEW events
    PROVE  PilotStatus(status, events) \in PilotStatuses
<1>1. CASE status = "operational"
  BY <1>1 DEF PilotStatus, PilotStatuses
<1>2. CASE status # "operational"
  BY <1>2 DEF PilotStatus, PilotStatuses
<1>3. QED
  BY <1>1, <1>2

LEMMA StateType ==
    ASSUME NEW status, NEW matched
    PROVE  SampleState(status, matched) \in SampleStates
BY DEF SampleState, SampleStates

\* The three ways in which _terminate returns.
LEMMA TerminateEffect ==
    ASSUME PilotInv, Terminate, main \notin PilotOver
    PROVE  /\ obs' \in {"absent", "exited", "flushed", "orphan"}
           /\ torn' \in BOOLEAN
           /\ pending' \subseteq KernelEvents /\ delivered' \subseteq KernelEvents
           /\ obs' = "orphan" => sudo
           /\ obs' = "absent" => obs = "absent"
           /\ obs' = "flushed" /\ main # "abandon" => delivered' = delivered \cup pending
<1>1. CASE obs \notin Running /\ UNCHANGED <<obs, watched>>
  BY <1>1 DEF watched, Running, PilotInv, PilotTypeOK, Facts, NotYetEnded, OrphanOfSudo, PilotOver
<1>2. CASE /\ obs \in Running /\ obs' = "flushed"
           /\ delivered' = delivered \cup pending /\ pending' = {} /\ UNCHANGED torn
  BY <1>2 DEF PilotInv, PilotTypeOK
<1>3. CASE obs \in Running /\ ~sudo /\ obs' = "exited" /\ CutShort
  BY <1>3 DEF CutShort, PilotInv, PilotTypeOK
<1>4. CASE /\ obs \in Running /\ sudo /\ obs' = "orphan"
           /\ torn' \in {torn, TRUE} /\ UNCHANGED <<pending, delivered>>
  BY <1>4 DEF PilotInv, PilotTypeOK
<1>5. QED
  BY <1>1, <1>2, <1>3, <1>4 DEF Terminate

\* Before the report there is nothing a step could make untrue of a sample.
LEMMA BeforeTheReport ==
    ASSUME PilotInv, main # "reported", report'.state = report.state
    PROVE  CleanIsWitnessed' /\ SilentBefore'
BY DEF PilotInv, Facts, SilentBefore, CleanIsWitnessed

\* What concerns neither the main thread nor the observer.
LEMMA QuietKeeps ==
    ASSUME PilotInv, UNCHANGED <<main, hooks, kernel, failure, handshake, window, report>>,
           clock' \in Nat
    PROVE  PilotInv'
<1>1. UNCHANGED <<main, hooks, sudo, obs, readyLine, torn, pending, delivered, happened, readable,
                  failure, handshake, window, report>>
  BY DEF kernel, watched
<1>2. PilotTypeOK' /\ Facts'
  BY <1>1 DEF PilotInv, PilotTypeOK, Facts, NotYetLaunched, NotYetEnded, NothingBefore,
              EventsAfter, Caught, FailureKnown, SilentBefore, OrphanOfSudo, ReadOnce
<1>3. ObserverReaped' /\ CleanIsWitnessed'
  BY <1>1 DEF PilotInv, ObserverReaped, CleanIsWitnessed, Answerable, Within
<1>4. QED
  BY <1>2, <1>3 DEF PilotInv

LEMMA ClosingKeeps ==
    ASSUME PilotInv, main = "close", Closing,
           UNCHANGED <<worker, flags, hooks, sudo, readyLine, happened, failure, handshake,
                       clock, window>>
    PROVE  PilotInv'
<1> DEFINE lines == IF readable' THEN delivered' ELSE {}
           status == SessionStatus(readable' /\ torn')
           matched == [i \in Samples |->
               IF status \in {"operational", "incomplete"} THEN Matched(lines, window[i])
               ELSE {}]
           closing == [status |-> PilotStatus(status, matched[1]),
                       state |-> [i \in Samples |-> SampleState(status, matched[i])],
                       events |-> matched]
<1>1. /\ report' = closing /\ main' = "reported" /\ readable' \in BOOLEAN
      /\ Terminate
  BY DEF Closing
<1>2. /\ obs' \in {"absent", "exited", "flushed", "orphan"}
      /\ torn' \in BOOLEAN
      /\ pending' \subseteq KernelEvents /\ delivered' \subseteq KernelEvents
      /\ obs' = "orphan" => sudo
      /\ obs' = "absent" => obs = "absent"
      /\ obs' = "flushed" => delivered' = delivered \cup pending
  BY <1>1, TerminateEffect DEF PilotOver
<1>3. lines \subseteq KernelEvents
  BY <1>2
<1>4. matched \in [Samples -> SUBSET KernelEvents]
  <2> HIDE DEF lines, status
  <2> QED BY <1>3 DEF Matched
<1>5. /\ PilotStatus(status, matched[1]) \in PilotStatuses
      /\ \A i \in Samples : SampleState(status, matched[i]) \in SampleStates
  BY StatusType, StateType
<1>6. closing \in Reported
  <2> HIDE DEF status, matched
  <2> QED BY <1>4, <1>5 DEF Reported
<1>7. PilotTypeOK'
  BY <1>1, <1>2, <1>6 DEF PilotInv, PilotTypeOK
<1>8. Caught'
  <2> SUFFICES ASSUME hooks = "all", obs' = "flushed"
               PROVE  happened \subseteq delivered'
    BY <1>2 DEF Caught
  <2>1. obs \in Running
    BY <1>1 DEF Terminate, PilotInv, Facts, NotYetEnded, PilotOver
  <2>2. obs = "launched" => happened = {}
    BY DEF PilotInv, Facts, NothingBefore, EventsAfter
  <2>3. obs = "ready" => happened \subseteq pending \cup delivered
    BY DEF PilotInv, Facts, Caught
  <2>4. QED
    BY <1>2, <2>1, <2>2, <2>3 DEF Running
<1>9. Facts'
  BY <1>1, <1>2, <1>8 DEF PilotInv, Facts, NotYetLaunched, NotYetEnded, NothingBefore, EventsAfter,
     FailureKnown, SilentBefore, OrphanOfSudo, ReadOnce, PilotOver
<1>10. CleanIsWitnessed'
  <2> SUFFICES ASSUME NEW i \in Samples, report'.state[i] = "clean"
               PROVE  /\ hooks' = "all" /\ handshake' /\ (readable' => ~torn')
                      /\ \A e \in Answerable' : ~Within(e, window[i])
    BY DEF CleanIsWitnessed, Within
  <2>1. SampleState(status, matched[i]) = "clean"
    <3> HIDE DEF status, matched
    <3> QED BY <1>1
  <2>2. /\ ~(readable' /\ torn') /\ hooks = "all" /\ handshake
        /\ matched[i] = {} /\ status = "operational" /\ failure = "none"
    <3> DEFINE isTorn == readable' /\ torn'
               m == matched[i]
    <3>1. isTorn \in BOOLEAN /\ SampleState(SessionStatus(isTorn), m) = "clean"
      BY <2>1
    <3> HIDE DEF isTorn, m
    <3>2. /\ ~isTorn /\ hooks = "all" /\ handshake /\ m = {}
          /\ SessionStatus(isTorn) = "operational" /\ failure = "none"
      BY <3>1, CleanNeeds DEF PilotInv
    <3>3. QED
      BY <3>2 DEF isTorn, m
  <2>3. \A e \in lines : ~Within(e, window[i])
    <3> HIDE DEF lines, status
    <3> QED BY <2>2 DEF Matched
  <2>4. Answerable' \subseteq lines
    BY <1>1, <1>8, <2>2 DEF Answerable, Caught
  <2>5. QED
    BY <2>2, <2>3, <2>4
<1>11. QED
  BY <1>1, <1>2, <1>7, <1>9, <1>10 DEF PilotInv, ObserverReaped, Running

\* _terminate raised: nothing else has changed of the observer.
LEMMA RaisingKeeps ==
    ASSUME PilotInv, main \notin PilotOver, TerminateRaises,
           UNCHANGED <<hooks, sudo, readyLine, happened, readable, handshake, clock, window, report>>,
           failure' \in {failure, "startup_failure"}
    PROVE  PilotInv'
<1>1. UNCHANGED <<obs, torn, pending, delivered>> /\ main' = "raised"
  BY DEF TerminateRaises, watched
<1>2. PilotTypeOK'
  BY <1>1 DEF PilotInv, PilotTypeOK
<1>3. Facts'
  BY <1>1 DEF PilotInv, Facts, NotYetLaunched, NotYetEnded, NothingBefore, EventsAfter, Caught,
     FailureKnown, SilentBefore, OrphanOfSudo, ReadOnce, PilotOver
<1>4. CleanIsWitnessed'
  BY BeforeTheReport DEF PilotOver
<1>5. QED
  BY <1>1, <1>2, <1>3, <1>4 DEF PilotInv, ObserverReaped

\* An event is caught, or written, only before the pilot is over.
LEMMA EventKeeps == PilotInv /\ (KernelEvent \/ Deliver) => PilotInv'
<1> SUFFICES ASSUME PilotInv, KernelEvent \/ Deliver PROVE PilotInv'
  OBVIOUS
<1>1. /\ UNCHANGED <<main, hooks, sudo, obs, readyLine, torn, readable, failure, handshake,
                     clock, window, report>>
      /\ main \notin PilotOver
  BY DEF KernelEvent, Deliver
<1>2. /\ pending' \subseteq KernelEvents /\ delivered' \subseteq KernelEvents
      /\ happened' \subseteq KernelEvents
      /\ ~readyLine => happened' = happened
      /\ (hooks = "all" /\ obs = "ready") => happened' \subseteq pending' \cup delivered'
  <2>1. CASE KernelEvent
    <3>1. PICK t \in Threads :
            /\ happened' = happened \cup {[tid |-> t, time |-> clock]}
            /\ \/ obs \in Writing /\ pending' = pending \cup {[tid |-> t, time |-> clock]}
               \/ (obs \notin Writing \/ hooks # "all") /\ UNCHANGED pending
      BY <2>1 DEF KernelEvent
    <3>2. readyLine /\ UNCHANGED delivered
      BY <2>1 DEF KernelEvent
    <3>3. [tid |-> t, time |-> clock] \in KernelEvents
      BY DEF KernelEvents, PilotInv, PilotTypeOK
    <3>4. QED
      BY <3>1, <3>2, <3>3 DEF Writing, PilotInv, PilotTypeOK, Facts, Caught
  <2>2. CASE Deliver
    <3>1. PICK e \in pending : pending' = pending \ {e} /\ delivered' = delivered \cup {e}
      BY <2>2 DEF Deliver
    <3>2. UNCHANGED happened
      BY <2>2 DEF Deliver
    <3>3. QED
      BY <3>1, <3>2 DEF PilotInv, PilotTypeOK, Facts, Caught
  <2>3. QED
    BY <2>1, <2>2
<1>3. PilotTypeOK'
  BY <1>1, <1>2 DEF PilotInv, PilotTypeOK
<1>4. Facts'
  BY <1>1, <1>2 DEF PilotInv, Facts, NotYetLaunched, NotYetEnded, NothingBefore, EventsAfter,
     Caught, FailureKnown, SilentBefore, OrphanOfSudo, ReadOnce, PilotOver
<1>5. CleanIsWitnessed'
  BY <1>1, BeforeTheReport DEF PilotOver
<1>6. QED
  BY <1>1, <1>3, <1>4, <1>5 DEF PilotInv, ObserverReaped

LEMMA ObserverKeeps == PilotInv /\ (BecomeReady \/ ObserverExits) => PilotInv'
<1> SUFFICES ASSUME PilotInv, BecomeReady \/ ObserverExits PROVE PilotInv'
  OBVIOUS
<1>1. /\ UNCHANGED <<main, hooks, sudo, happened, readable, failure, handshake, clock, window, report>>
      /\ main # "reported"
  BY DEF BecomeReady, ObserverExits, PilotOver, PilotInv, ObserverReaped, Running
<1>2. \/ /\ obs = "launched" /\ obs' = "ready" /\ readyLine' = TRUE
         /\ UNCHANGED <<torn, pending, delivered>>
      \/ /\ obs \in {"launched", "ready", "orphan"} /\ obs' = "exited"
         /\ pending' = {} /\ torn' \in {torn, TRUE} /\ UNCHANGED <<readyLine, delivered>>
  BY DEF BecomeReady, ObserverExits, CutShort, watched, Running
<1>3. PilotTypeOK'
  BY <1>1, <1>2 DEF PilotInv, PilotTypeOK
<1>4. Facts'
  BY <1>1, <1>2 DEF PilotInv, Facts, NotYetLaunched, NotYetEnded, NothingBefore, EventsAfter,
     Caught, FailureKnown, SilentBefore, OrphanOfSudo, ReadOnce, PilotOver
<1>5. CleanIsWitnessed'
  BY <1>1, BeforeTheReport
<1>6. QED
  BY <1>1, <1>3, <1>4, <1>5 DEF PilotInv, ObserverReaped

\* The steps of start() and of the samples: they leave what the observer has
\* caught alone.
LEMMA StepKeeps ==
    ASSUME PilotInv, main \notin PilotOver, main' # "reported" \/ obs = "absent",
           UNCHANGED <<hooks, sudo, readyLine, watched, happened, readable, clock>>,
           obs' = obs \/ (obs = "absent" /\ obs' = "launched" /\ main' = "polling"),
           main' \in {"load", "await", "discover"} => obs' = "absent",
           main' = "abandon" => failure' # "none",
           obs \in {"flushed", "orphan"} => main' \in {"abandon"} \cup PilotOver,
           failure' \in {"none", "observer_unavailable", "permission_denied", "startup_failure"},
           window' \in [Samples -> [start : Int, end : Int]],
           report' \in Reported, report'.state = report.state
    PROVE  PilotInv'
<1>1. UNCHANGED <<torn, pending, delivered>> /\ main # "reported"
  BY DEF watched, PilotOver
<1>2. PilotTypeOK'
  BY <1>1 DEF PilotInv, PilotTypeOK
<1>3. Facts'
  BY <1>1 DEF PilotInv, Facts, NotYetLaunched, NotYetEnded, NothingBefore, EventsAfter,
     Caught, FailureKnown, SilentBefore, OrphanOfSudo, ReadOnce, PilotOver
<1>4. CleanIsWitnessed'
  BY <1>1, BeforeTheReport
<1>5. QED
  BY <1>2, <1>3, <1>4 DEF PilotInv, ObserverReaped, Running

LEMMA GivingUpKeeps ==
    ASSUME PilotInv, Terminate, main \in {"polling", "abandon"}, failure' # "none",
           main' = "abandon" \/ (main' = "reported" /\ main = "abandon"),
           UNCHANGED <<hooks, sudo, readyLine, happened, readable, handshake, clock, window>>,
           failure' \in {failure, "startup_failure"},
           report' \in Reported, report'.state = report.state
    PROVE  PilotInv'
<1>1. /\ obs' \in {"absent", "exited", "flushed", "orphan"}
      /\ torn' \in BOOLEAN
      /\ pending' \subseteq KernelEvents /\ delivered' \subseteq KernelEvents
      /\ obs' = "orphan" => sudo
      /\ obs' = "absent" => obs = "absent"
  BY TerminateEffect DEF PilotOver
<1>2. PilotTypeOK'
  BY <1>1 DEF PilotInv, PilotTypeOK
<1>3. CleanIsWitnessed' /\ SilentBefore'
  BY BeforeTheReport
<1>4. Facts'
  BY <1>1, <1>3 DEF PilotInv, Facts, NotYetLaunched, NotYetEnded, NothingBefore, EventsAfter,
     Caught, FailureKnown, OrphanOfSudo, ReadOnce, PilotOver
<1>5. QED
  BY <1>1, <1>2, <1>3, <1>4 DEF PilotInv, ObserverReaped, Running

LEMMA MainKeeps == PilotInv /\ MainStep => PilotInv'
<1> SUFFICES ASSUME PilotInv, MainStep PROVE PilotInv'
  OBVIOUS
<1>1. /\ report \in Reported /\ window \in [Samples -> [start : Int, end : Int]]
      /\ failure \in {"none", "observer_unavailable", "permission_denied", "startup_failure"}
      /\ clock \in Int
  BY DEF PilotInv, PilotTypeOK
<1>2. CASE Close
  <2>1. CASE Closing
    BY <1>2, <2>1, ClosingKeeps DEF Close
  <2>2. CASE TerminateRaises /\ UNCHANGED <<readable, report>>
    BY <1>2, <2>2, RaisingKeeps DEF Close, PilotOver
  <2>3. QED
    BY <1>2, <2>1, <2>2 DEF Close
<1>3. CASE LoadKernel
  <2>1. report' \in Reported /\ report'.state = report.state
    BY <1>1, <1>3 DEF LoadKernel, Reported, PilotStatuses
  <2>2. QED
    BY <1>1, <1>3, <2>1, StepKeeps
       DEF LoadKernel, kernel, PilotOver, PilotInv, Facts, NotYetLaunched
<1>4. CASE AwaitTid
  <2>1. report' \in Reported /\ report'.state = report.state
    BY <1>1, <1>4 DEF AwaitTid, Reported, PilotStatuses
  <2>2. QED
    BY <1>1, <1>4, <2>1, StepKeeps
       DEF AwaitTid, kernel, PilotOver, PilotInv, Facts, NotYetLaunched
<1>5. CASE StartObserver
  BY <1>1, <1>5, StepKeeps DEF StartObserver, PilotOver, PilotInv, Facts, NotYetLaunched
<1>6. CASE Poll
  BY <1>1, <1>6, StepKeeps DEF Poll, kernel, PilotOver, PilotInv, Facts, NotYetEnded
<1>7. CASE ReadReady
  BY <1>1, <1>7, StepKeeps DEF ReadReady, kernel, PilotOver, PilotInv, Facts, NotYetEnded
<1>8. CASE PollTimeout
  <2>1. CASE Terminate /\ main' = "abandon"
    BY <1>1, <1>8, <2>1, GivingUpKeeps DEF PollTimeout
  <2>2. CASE TerminateRaises
    BY <1>8, <2>2, RaisingKeeps DEF PollTimeout, PilotOver
  <2>3. QED
    BY <1>8, <2>1, <2>2 DEF PollTimeout
<1>9. CASE Abandon
  <2>1. CASE TerminateRaises /\ UNCHANGED report
    BY <1>9, <2>1, RaisingKeeps DEF Abandon, PilotOver
  <2>2. CASE /\ Terminate /\ main' = "reported"
             /\ report' = [report EXCEPT !.status =
                   IF SessionStatus(torn') = "unavailable" THEN "observer_unavailable"
                   ELSE "observer_startup_failed"]
    <3>1. report' \in Reported /\ report'.state = report.state
      BY <1>1, <2>2 DEF Reported, PilotStatuses
    <3>2. QED
      BY <1>1, <1>9, <2>2, <3>1, GivingUpKeeps DEF Abandon, PilotInv, Facts, FailureKnown
  <2>3. QED
    BY <1>9, <2>1, <2>2 DEF Abandon
<1>10. CASE Release
  BY <1>1, <1>10, StepKeeps DEF Release, kernel, PilotOver, PilotInv, Facts, NotYetEnded
<1>11. ASSUME NEW i \in Samples, BeginSample(i) PROVE PilotInv'
  BY <1>1, <1>11, StepKeeps
     DEF BeginSample, Sampling, Samples, kernel, PilotOver, PilotInv, Facts, NotYetEnded
<1>12. ASSUME NEW i \in Samples, EndSample(i) PROVE PilotInv'
  BY <1>1, <1>12, StepKeeps
     DEF EndSample, Sampling, Samples, kernel, PilotOver, PilotInv, Facts, NotYetEnded
<1>13. QED
  BY <1>2, <1>3, <1>4, <1>5, <1>6, <1>7, <1>8, <1>9, <1>10, <1>11, <1>12 DEF MainStep

LEMMA PilotKeeps == PilotInv /\ [PilotNext]_pvars => PilotInv'
<1> SUFFICES ASSUME PilotInv, [PilotNext]_pvars PROVE PilotInv'
  OBVIOUS
<1>1. CASE MainStep
  BY <1>1, MainKeeps
<1>2. CASE WorkerStep
  BY <1>2, QuietKeeps DEF WorkerStep, PublishTid, StartChurning, EndChurning, PilotInv, PilotTypeOK
<1>3. CASE BecomeReady \/ ObserverExits
  BY <1>3, ObserverKeeps
<1>4. CASE KernelEvent \/ Deliver
  BY <1>4, EventKeeps
<1>5. CASE Tick
  BY <1>5, QuietKeeps DEF Tick, PilotInv, PilotTypeOK
<1>6. CASE UNCHANGED pvars
  BY <1>6, QuietKeeps DEF pvars, PilotInv, PilotTypeOK
<1>7. QED
  BY <1>1, <1>2, <1>3, <1>4, <1>5, <1>6 DEF PilotNext, PilotStopped

LEMMA PilotStarts == PilotInit => PilotInv
<1> SUFFICES ASSUME PilotInit PROVE PilotInv
  OBVIOUS
<1> DEFINE nothing == [status |-> "none", state |-> [i \in Samples |-> "none"],
                       events |-> [i \in Samples |-> {}]]
<1>1. PilotTypeOK
  <2>1. nothing \in Reported
    BY DEF Reported, PilotStatuses, SampleStates
  <2>2. [i \in Samples |-> [start |-> -1, end |-> -1]] \in [Samples -> [start : Int, end : Int]]
    OBVIOUS
  <2>3. QED
    BY <2>1, <2>2 DEF PilotInit, PilotTypeOK
<1>2. Facts
  BY DEF PilotInit, Facts, NotYetLaunched, NotYetEnded, NothingBefore, EventsAfter, Caught,
     FailureKnown, SilentBefore, OrphanOfSudo, ReadOnce
<1>3. QED
  BY <1>1, <1>2 DEF PilotInit, PilotInv, ObserverReaped, CleanIsWitnessed

LEMMA PilotInvHolds == PilotSpec => []PilotInv
BY PilotStarts, PilotKeeps, PTL DEF PilotSpec

\* A sample is called clean only when no tracepoint was missing, the handshake was
\* made, no line read was lost to parsing, and no event that the observer is
\* answerable for lies within the uncertainty of its window: every event that
\* happened, when it lasted until stop() interrupted it and its file was read; for
\* any uncertainty, clock and number of events (witness/correlation.py:45).
THEOREM PilotCleanIsWitnessed == PilotSpec => []CleanIsWitnessed
<1>1. PilotInv => CleanIsWitnessed
  BY DEF PilotInv
<1>2. QED
  BY <1>1, PilotInvHolds, PTL

\* When a report is written the process that was launched does not run any more,
\* and only a sudo that had to be killed leaves bpftrace behind; of a pilot that
\* _terminate makes raise nothing is said (witness/observer.py:317).
THEOREM PilotObserverReaped == PilotSpec => []ObserverReaped
<1>1. PilotInv => ObserverReaped
  BY DEF PilotInv
<1>2. QED
  BY <1>1, PilotInvHolds, PTL
-----------------------------------------------------------------------------
(* Of the store of horizon runs.                                           *)

WriterPoints == {"idle", "check", "write", "flush", "done", "raised", "dead"}

StoreTypeOK ==
    /\ DOMAIN artifacts = Artifacts
    /\ writer \in [Writers -> [at : WriterPoints, step : 0..3, report : Reports \cup {{}}]]

\* A manifest that an invocation wrote: of the report it was begun with.
IsManifest(content) ==
    \E w \in Writers :
        /\ ~Working(w, "idle")
        /\ content = [by |-> w, report |-> writer[w].report]

\* What is on disk, has been read or was loaded as a manifest is one; a report is
\* never chosen twice by an invocation, so it stays one.
ManifestsAreWhole ==
    /\ Parses("manifest") => IsManifest(artifacts["manifest"])
    /\ "manifest" \in DOMAIN reading => IsManifest(reading["manifest"])
    /\ \A run \in loaded : IsManifest(run.manifest) /\ HashesMatch(run)

\* An invocation that flushes is at one of the three files.
FlushesAFile == \A w \in Writers : ~Working(w, "idle") => writer[w].step \in 1..3

StoreInv == StoreTypeOK /\ ManifestsAreWhole /\ FlushesAFile

LEMMA OrderIs == Order[1] = "manifest" /\ Order[2] = "splits" /\ Order[3] = "results"
BY DEF Order

LEMMA ArtifactsAre == Artifacts = {"manifest", "splits", "results"}
BY OrderIs DEF Artifacts

LEMMA MoveEffect ==
    ASSUME StoreTypeOK, NEW w \in Writers, NEW point \in WriterPoints \ {"idle"}, NEW step \in 1..3,
           Move(w, point, step)
    PROVE  /\ writer' \in [Writers -> [at : WriterPoints, step : 0..3, report : Reports \cup {{}}]]
           /\ \A v \in Writers : writer'[v].report = writer[v].report
           /\ \A v \in Writers \ {w} : writer'[v] = writer[v]
           /\ writer'[w].at = point /\ writer'[w].step = step
<1>1. writer' = [writer EXCEPT ![w] = [@ EXCEPT !.at = point, !.step = step]]
  BY DEF Move
<1>2. writer[w] \in [at : WriterPoints, step : 0..3, report : Reports \cup {{}}]
  BY DEF StoreTypeOK
<1>3. 1..3 \subseteq 0..3
  OBVIOUS
<1>4. QED
  BY <1>1, <1>2, <1>3 DEF StoreTypeOK

\* A manifest stays one while an invocation that began keeps its report.
LEMMA ManifestStays ==
    ASSUME \A w \in Writers : ~Working(w, "idle") =>
               ~Working(w, "idle")' /\ writer'[w].report = writer[w].report,
           NEW c, IsManifest(c)
    PROVE  IsManifest(c)'
BY DEF IsManifest

\* A step of an invocation that moves on and leaves the manifest alone, or
\* writes one that parses only when it is its own.
LEMMA WriterMoves ==
    ASSUME StoreInv, NEW w \in Writers, ~Working(w, "idle"),
           NEW point \in WriterPoints \ {"idle"}, NEW step \in 1..3, Move(w, point, step),
           DOMAIN artifacts' = Artifacts, UNCHANGED reader,
           \/ artifacts'["manifest"] = artifacts["manifest"]
           \/ artifacts'["manifest"] = Torn
           \/ artifacts'["manifest"] = [by |-> w, report |-> writer[w].report]
    PROVE  StoreInv'
<1>1. /\ writer' \in [Writers -> [at : WriterPoints, step : 0..3, report : Reports \cup {{}}]]
      /\ \A v \in Writers : writer'[v].report = writer[v].report
      /\ \A v \in Writers \ {w} : writer'[v] = writer[v]
      /\ writer'[w].at = point /\ writer'[w].step = step
  BY MoveEffect DEF StoreInv
<1>2. \A v \in Writers : ~Working(v, "idle") =>
          ~Working(v, "idle")' /\ writer'[v].report = writer[v].report
  BY <1>1 DEF Working
<1>3. \A c : IsManifest(c) => IsManifest(c)'
  BY <1>2, ManifestStays
<1>4. Parses("manifest")' => IsManifest(artifacts["manifest"])'
  <2>1. CASE artifacts'["manifest"] = artifacts["manifest"]
    BY <2>1, <1>3 DEF StoreInv, ManifestsAreWhole, Parses
  <2>2. CASE artifacts'["manifest"] = Torn
    BY <2>2 DEF Parses
  <2>3. CASE artifacts'["manifest"] = [by |-> w, report |-> writer[w].report]
    BY <2>3, <1>1 DEF IsManifest, Working
  <2>4. QED
    BY <2>1, <2>2, <2>3
<1>5. FlushesAFile'
  BY <1>1 DEF StoreInv, FlushesAFile, Working
<1>6. ManifestsAreWhole'
  BY <1>3, <1>4 DEF StoreInv, ManifestsAreWhole, reader, HashesMatch
<1>7. QED
  BY <1>1, <1>5, <1>6 DEF StoreInv, StoreTypeOK

LEMMA WriterKeeps ==
    ASSUME StoreInv, NEW w \in Writers,
           BeginWrite(w) \/ CheckArtifact(w) \/ OpenArtifact(w) \/ FlushArtifact(w) \/ Die(w)
    PROVE  StoreInv'
<1>1. DOMAIN artifacts = Artifacts /\ (~Working(w, "idle") => writer[w].step \in 1..3)
  BY DEF StoreInv, StoreTypeOK, FlushesAFile
<1>2. CASE BeginWrite(w)
  <2>1. PICK r \in Reports :
           writer' = [writer EXCEPT ![w] = [at |-> "check", step |-> 1, report |-> r]]
    BY <1>2 DEF BeginWrite
  <2>2. Working(w, "idle") /\ UNCHANGED <<artifacts, reader>>
    BY <1>2 DEF BeginWrite
  <2>3. writer' \in [Writers -> [at : WriterPoints, step : 0..3, report : Reports \cup {{}}]]
    BY <2>1 DEF StoreInv, StoreTypeOK, WriterPoints
  <2>4. /\ \A v \in Writers \ {w} : writer'[v] = writer[v]
        /\ writer'[w].at = "check" /\ writer'[w].step = 1
    BY <2>1 DEF StoreInv, StoreTypeOK
  <2>5. \A c : IsManifest(c) => IsManifest(c)'
    BY <2>2, <2>4, ManifestStays DEF Working
  <2>6. FlushesAFile'
    BY <2>4 DEF StoreInv, FlushesAFile, Working
  <2>7. ManifestsAreWhole'
    BY <2>2, <2>5 DEF StoreInv, ManifestsAreWhole, reader, Parses, HashesMatch
  <2>8. QED
    BY <2>2, <2>3, <2>6, <2>7 DEF StoreInv, StoreTypeOK
<1>3. ASSUME ~Working(w, "idle"), Advance(w), DOMAIN artifacts' = Artifacts, UNCHANGED reader,
             \/ artifacts'["manifest"] = artifacts["manifest"]
             \/ artifacts'["manifest"] = [by |-> w, report |-> writer[w].report]
      PROVE  StoreInv'
  <2>1. CASE writer[w].step = 3
    BY <2>1, <1>3, WriterMoves DEF Advance, WriterPoints
  <2>2. CASE writer[w].step # 3
    <3>1. writer[w].step + 1 \in 1..3
      BY <2>2, <1>1, <1>3
    <3>2. QED
      BY <2>2, <3>1, <1>3, WriterMoves DEF Advance, WriterPoints
  <2>3. QED
    BY <2>1, <2>2
<1>4. CASE CheckArtifact(w)
  <2>1. ~Working(w, "idle") /\ UNCHANGED <<artifacts, reader>>
    BY <1>4 DEF CheckArtifact, Working
  <2>2. \/ Move(w, "write", writer[w].step) \/ Advance(w) \/ Move(w, "raised", writer[w].step)
    BY <1>4 DEF CheckArtifact
  <2>3. QED
    BY <1>1, <1>3, <2>1, <2>2, WriterMoves DEF WriterPoints
<1>5. CASE OpenArtifact(w)
  <2>1. /\ ~Working(w, "idle") /\ UNCHANGED reader /\ Move(w, "flush", writer[w].step)
        /\ artifacts' = [artifacts EXCEPT ![File(w)] = Torn]
    BY <1>5 DEF OpenArtifact, Working
  <2>2. QED
    BY <1>1, <2>1, WriterMoves, ArtifactsAre DEF WriterPoints
<1>6. CASE FlushArtifact(w)
  <2>1. /\ ~Working(w, "idle") /\ UNCHANGED reader /\ Advance(w)
        /\ artifacts' = [artifacts EXCEPT ![File(w)] = Content(w, File(w))]
    BY <1>6 DEF FlushArtifact, Working
  <2>2. Content(w, "manifest") = [by |-> w, report |-> writer[w].report]
    BY DEF Content
  <2>3. QED
    BY <1>1, <1>3, <2>1, <2>2, ArtifactsAre
<1>7. CASE Die(w)
  <2>1. ~Working(w, "idle") /\ UNCHANGED <<artifacts, reader>> /\ Move(w, "dead", writer[w].step)
    BY <1>7 DEF Die, Working
  <2>2. QED
    BY <1>1, <2>1, WriterMoves DEF WriterPoints
<1>8. QED
  BY <1>2, <1>4, <1>5, <1>6, <1>7

LEMMA ReaderKeeps == StoreInv /\ (ReadArtifact \/ LoadRun) => StoreInv'
<1> SUFFICES ASSUME StoreInv, ReadArtifact \/ LoadRun PROVE StoreInv'
  OBVIOUS
<1>1. UNCHANGED <<artifacts, writer>>
  BY DEF ReadArtifact, LoadRun
<1>2. \A c : IsManifest(c) <=> IsManifest(c)'
  BY <1>1 DEF IsManifest, Working
<1>3. CASE ReadArtifact
  <2> DEFINE file == ReadOrder[Cardinality(DOMAIN reading) + 1]
  <2>1. /\ loaded' = loaded
        /\ reading' = IF Parses(file) THEN Having(file) ELSE NothingRead
    BY <1>3 DEF ReadArtifact
  <2> HIDE DEF file
  <2>2. ASSUME "manifest" \in DOMAIN reading' PROVE IsManifest(reading'["manifest"])
    <3>1. CASE ~Parses(file)
      BY <2>1, <2>2, <3>1 DEF NothingRead
    <3>2. CASE Parses(file) /\ "manifest" \in DOMAIN reading
      BY <2>1, <3>2 DEF Having, Parses, StoreInv, ManifestsAreWhole
    <3>3. CASE Parses(file) /\ "manifest" \notin DOMAIN reading
      BY <2>1, <2>2, <3>3 DEF Having, StoreInv, ManifestsAreWhole
    <3>4. QED
      BY <3>1, <3>2, <3>3
  <2>3. QED
    BY <1>1, <1>2, <2>1, <2>2
    DEF StoreInv, StoreTypeOK, ManifestsAreWhole, FlushesAFile, Parses, HashesMatch, Working
<1>4. CASE LoadRun
  <2>1. /\ "manifest" \in DOMAIN reading /\ reading' = NothingRead
        /\ loaded' = IF HashesMatch(reading) THEN loaded \cup {reading} ELSE loaded
    BY <1>4, ArtifactsAre DEF LoadRun
  <2>2. "manifest" \notin DOMAIN reading'
    BY <2>1 DEF NothingRead
  <2>3. QED
    BY <1>1, <1>2, <2>1, <2>2
    DEF StoreInv, StoreTypeOK, ManifestsAreWhole, FlushesAFile, Parses, HashesMatch, Working
<1>5. QED
  BY <1>3, <1>4

LEMMA StoreKeeps == StoreInv /\ (StoreNext \/ UNCHANGED store) => StoreInv'
<1> SUFFICES ASSUME StoreInv, StoreNext \/ UNCHANGED store PROVE StoreInv'
  OBVIOUS
<1>1. CASE StoreNext
  BY <1>1, WriterKeeps, ReaderKeeps DEF StoreNext
<1>2. CASE UNCHANGED store
  BY <1>2 DEF store, reader, StoreInv, StoreTypeOK, ManifestsAreWhole, IsManifest, FlushesAFile,
              Parses, HashesMatch, Working
<1>3. QED
  BY <1>1, <1>2

LEMMA StoreStarts == StoreInit => StoreInv
<1> SUFFICES ASSUME StoreInit PROVE StoreInv
  OBVIOUS
<1>1. StoreTypeOK
  BY DEF StoreInit, StoreTypeOK, WriterPoints
<1>2. QED
  BY <1>1, ArtifactsAre
  DEF StoreInit, StoreInv, ManifestsAreWhole, FlushesAFile, NothingRead, Parses, Working

\* What loads is the report and the splits of one analysis, the one whose
\* invocation wrote the manifest, for any number of writers and reports
\* (horizon.py:1633).
LEMMA StoreLoads == StoreInv => LoadsAsOneAnalysis
<1> SUFFICES ASSUME StoreInv, NEW run \in loaded
             PROVE  /\ run.results.report = writer[run.manifest.by].report
                    /\ run.splits.splits = SplitsOf[writer[run.manifest.by].report]
  BY DEF LoadsAsOneAnalysis
<1>1. PICK w \in Writers : run.manifest = [by |-> w, report |-> writer[w].report]
  BY DEF StoreInv, ManifestsAreWhole, IsManifest
<1>2. run.manifest.by = w /\ run.manifest.report = writer[w].report
  BY <1>1
<1>3. HashesMatch(run)
  BY DEF StoreInv, ManifestsAreWhole
<1>4. QED
  BY <1>2, <1>3 DEF HashesMatch
-----------------------------------------------------------------------------
(* Of the splits.                                                          *)

LEMMA PartsAre == Range(Parts) = {"train", "validation", "test"}
<1>1. DOMAIN Parts = 1..3
  BY DEF Parts
<1>2. Parts[1] = "train" /\ Parts[2] = "validation" /\ Parts[3] = "test"
  BY DEF Parts
<1>3. QED
  BY <1>1, <1>2 DEF Range

\* The greatest of a number and the least share or window.
LEMMA MaxOfTwo ==
    ASSUME NEW a \in {0, 1}, NEW b \in Int
    PROVE  Max({a, b}) = IF b >= a THEN b ELSE a
<1>1. \E x \in {a, b} : \A y \in {a, b} : x >= y
  <2>1. CASE a >= b
    BY <2>1
  <2>2. CASE b >= a
    BY <2>2
  <2>3. QED
    BY <2>1, <2>2
<1>2. Max({a, b}) \in {a, b} /\ \A y \in {a, b} : Max({a, b}) >= y
  BY <1>1 DEF Max
<1>3. QED
  BY <1>2

\* No session is in two partitions, and each is one of the sessions.
PartitionApart(p) ==
    /\ p["test"] \cap p["train"] = {}
    /\ p["test"] \cap p["validation"] = {}
    /\ p["train"] \cap p["validation"] = {}

\* A cut of a shuffle, at two places within it.
LEMMA CutApart ==
    ASSUME NEW S, NEW order \in Shuffles(S), IsFiniteSet(S),
           NEW a \in Nat, NEW b \in Nat, a + b <= Len(order)
    PROVE  PartitionApart(CutAt(order, a, b))
<1>1. Cardinality(S) \in Nat
  BY FS_CardinalityType
<1>2. /\ order \in [1..Cardinality(S) -> S]
      /\ \A i, j \in 1..Cardinality(S) : i # j => order[i] # order[j]
  BY DEF Shuffles, SetToSeqs
<1>3. order \in Seq(S) /\ Len(order) = Cardinality(S)
  BY <1>1, <1>2
<1> DEFINE n == Len(order)
           Slice(from, to) == {order[i] : i \in from..to}
<1>4. ASSUME NEW from \in 1..(n + 1), NEW to \in 0..n, from <= to + 1
      PROVE  Range(SubSeq(order, from, to)) = Slice(from, to)
  <2>1. /\ DOMAIN SubSeq(order, from, to) = 1..(to - from + 1)
        /\ \A i \in 1..(to - from + 1) : SubSeq(order, from, to)[i] = order[from + i - 1]
    BY <1>3, <1>4
  <2>2. Range(SubSeq(order, from, to)) \subseteq Slice(from, to)
    BY <2>1, <1>4, <1>3 DEF Range
  <2>3. ASSUME NEW i \in from..to PROVE order[i] \in Range(SubSeq(order, from, to))
    <3>1. i - from + 1 \in 1..(to - from + 1) /\ from + (i - from + 1) - 1 = i
      BY <1>4
    <3>2. SubSeq(order, from, to)[i - from + 1] = order[i]
      BY <2>1, <3>1
    <3>3. QED
      BY <2>1, <3>1, <3>2 DEF Range
  <2>4. QED
    BY <2>2, <2>3
<1>5. n \in Nat /\ \A i, j \in 1..n : i # j => order[i] # order[j]
  BY <1>1, <1>2, <1>3
<1>6. /\ Range(SubSeq(order, 1, a)) = Slice(1, a)
      /\ Range(SubSeq(order, a + 1, a + b)) = Slice(a + 1, a + b)
      /\ Range(SubSeq(order, a + b + 1, n)) = Slice(a + b + 1, n)
  <2> HIDE DEF Slice, n
  <2>1. 1 \in 1..(n + 1) /\ a \in 0..n /\ 1 <= a + 1
    BY <1>5, a + b <= n DEF n
  <2>2. a + 1 \in 1..(n + 1) /\ a + b \in 0..n /\ a + 1 <= a + b + 1
    BY <1>5, a + b <= n DEF n
  <2>3. a + b + 1 \in 1..(n + 1) /\ n \in 0..n /\ a + b + 1 <= n + 1
    BY <1>5, a + b <= n DEF n
  <2>4. QED
    BY <1>4, <2>1, <2>2, <2>3
<1>7. /\ Slice(1, a) \cap Slice(a + 1, a + b) = {}
      /\ Slice(1, a) \cap Slice(a + b + 1, n) = {}
      /\ Slice(a + 1, a + b) \cap Slice(a + b + 1, n) = {}
  BY <1>5
<1>8. QED
  <2> HIDE DEF Slice
  <2> QED BY <1>6, <1>7 DEF CutAt, PartitionApart

\* Both session splits cut within the shuffle.
LEMMA SessionSplitsApart ==
    ASSUME NEW S, NEW order \in Shuffles(S), IsFiniteSet(S), Len(order) >= 3
    PROVE  PartitionApart(LatentSplit(order)) /\ PartitionApart(ForecastSplit(order))
<1> DEFINE n == Len(order)
<1>1. n \in Nat /\ n >= 3
  <2>1. Cardinality(S) \in Nat
    BY FS_CardinalityType
  <2>2. order \in [1..Cardinality(S) -> S]
    BY DEF Shuffles, SetToSeqs
  <2>3. QED
    BY <2>1, <2>2
<1>2. PartitionApart(LatentSplit(order))
  <2> DEFINE train == Max({1, (60 * n) \div 100})
             share == Max({1, (20 * n) \div 100})
             rest == Max({1, n - train - 1})
             validation == IF train + share >= n THEN rest ELSE share
  <2> HIDE DEF n
  <2>1. (60 * n) \div 100 \in Int /\ (20 * n) \div 100 \in Int
    BY <1>1
  <2>2. train = IF (60 * n) \div 100 >= 1 THEN (60 * n) \div 100 ELSE 1
    BY <2>1, MaxOfTwo, Zenon
  <2>3. share = IF (20 * n) \div 100 >= 1 THEN (20 * n) \div 100 ELSE 1
    BY <2>1, MaxOfTwo, Zenon
  <2>4. train \in Nat /\ train + 2 <= n
    <3> HIDE DEF train
    <3> QED BY <1>1, <2>1, <2>2
  <2>5. share \in Nat
    <3> HIDE DEF share
    <3> QED BY <1>1, <2>1, <2>3
  <2>6. rest = n - train - 1
    <3> HIDE DEF train
    <3>1. n - train - 1 \in Int /\ n - train - 1 >= 1
      BY <1>1, <2>4
    <3>2. rest = IF n - train - 1 >= 1 THEN n - train - 1 ELSE 1
      BY <3>1, MaxOfTwo, Zenon
    <3>3. QED
      BY <3>1, <3>2
  <2>7. validation \in Nat /\ train + validation <= n
    <3> HIDE DEF train, share, rest
    <3> QED BY <1>1, <2>4, <2>5, <2>6
  <2>8. PartitionApart(CutAt(order, train, validation))
    <3> HIDE DEF train, validation
    <3> QED BY <2>4, <2>7, CutApart DEF n
  <2>9. QED
    BY <2>8 DEF LatentSplit, n
<1>3. PartitionApart(ForecastSplit(order))
  <2> DEFINE train == Max({1, (70 * n + 50) \div 100})
             share == Max({1, (15 * n + 50) \div 100})
  <2> HIDE DEF n
  <2>1. (70 * n + 50) \div 100 \in Int /\ (15 * n + 50) \div 100 \in Int
    BY <1>1
  <2>2. train \in Nat /\ share \in Nat
    <3>1. train = IF (70 * n + 50) \div 100 >= 1 THEN (70 * n + 50) \div 100 ELSE 1
      BY <2>1, MaxOfTwo, Zenon
    <3>2. share = IF (15 * n + 50) \div 100 >= 1 THEN (15 * n + 50) \div 100 ELSE 1
      BY <2>1, MaxOfTwo, Zenon
    <3> HIDE DEF train, share
    <3>3. QED
      BY <2>1, <3>1, <3>2
  <2>3. PartitionApart(CutAt(order, n - 2, 1))
    <3>1. n - 2 \in Nat /\ (n - 2) + 1 <= n
      BY <1>1
    <3>2. QED
      BY <3>1, CutApart DEF n
  <2>4. ASSUME ~(train + share >= n)
        PROVE  PartitionApart(CutAt(order, train, share))
    <3> HIDE DEF train, share
    <3>1. train + share <= n
      BY <1>1, <2>2, <2>4
    <3>2. QED
      BY <2>2, <3>1, CutApart DEF n
  <2>5. QED
    BY <2>3, <2>4 DEF ForecastSplit, n
<1>4. QED
  BY <1>2, <1>3
-----------------------------------------------------------------------------
(* Of the analyses over held-out rows.                                     *)

\* An analysis is its fields.
IsAnalysis(a) == a = [kind |-> a.kind, stage |-> a.stage, usable |-> a.usable, confirm |-> a.confirm]

\* Once the curve's control is fitted, rows of every partition may have reached the
\* model in use and the choice; no score of an ordinary model is taken from them.
Controlled == {"contrast", "choose"}
Over == {"failed", "confirm", "report", "reported"}

\* What reached the model until the last test score, and what it may hold of the
\* development acquisition when it is frozen for the confirmation.
FitSound ==
    /\ analysis.stage = "idle" => fitted = {} /\ chosen = {}
    /\ analysis.stage \notin Over \cup Controlled => fitted \subseteq TrainRows \cup ValidationRows
    /\ analysis.stage = "confirm" => fitted \subseteq Everything
    /\ analysis.stage \notin (Over \ {"confirm"}) \cup Controlled => chosen \subseteq ValidationRows

RowsApart ==
    /\ analysis.stage # "failed" => PartitionApart(partition)
    /\ analysis.confirm \cap analysis.usable = {}

FeatureKinds == SessionKinds \cup {"horizon"}
FeaturesOf == analysis.stage = "features" => analysis.kind \in FeatureKinds

HeldOutInv ==
    /\ IsAnalysis(analysis) /\ FitSound /\ RowsApart /\ FeaturesOf
    /\ HeldOutStaysOut /\ FeaturesEndAtOrigin

LEMMA GotoEffect ==
    ASSUME IsAnalysis(analysis), NEW s, Goto(s)
    PROVE  /\ IsAnalysis(analysis') /\ analysis'.stage = s
           /\ analysis'.kind = analysis.kind /\ analysis'.usable = analysis.usable
           /\ analysis'.confirm = analysis.confirm
BY DEF Goto, IsAnalysis

\* A group that is in two partitions fails the audit.
LEMMA GroupsSplitApart ==
    ASSUME NEW metadata, NEW keys, NEW rows, GroupsApart(metadata, keys, rows)
    PROVE  PartitionApart(ByGroup(metadata, keys, rows))
BY PartsAre DEF GroupsApart, ByGroup, PartitionApart

LEMMA NothingApart == PartitionApart(NoPartition)
BY PartsAre DEF PartitionApart, NoPartition

LEMMA BeginSessionsKeeps == HeldOutInv /\ BeginSessions => HeldOutInv'
<1> SUFFICES ASSUME HeldOutInv, BeginSessions PROVE HeldOutInv'
  OBVIOUS
<1>1. /\ analysis.stage = "idle" /\ UNCHANGED <<fitted, chosen, scores, batch>>
  BY DEF BeginSessions
<1>2. PICK kind \in SessionKinds, sessions \in SessionSets, confirm \in {{}, ConfirmSessions} :
        \E usable \in SUBSET sessions, order \in Shuffles(sessions) :
          /\ analysis' = [kind |-> kind, usable |-> usable, confirm |-> confirm,
                          stage |-> IF Len(order) < 3 THEN "failed" ELSE "features"]
          /\ partition' = IF Len(order) < 3 THEN NoPartition
                          ELSE IF kind = "latent" THEN LatentSplit(order) ELSE ForecastSplit(order)
  BY DEF BeginSessions
<1>3. PICK usable \in SUBSET sessions, order \in Shuffles(sessions) :
          /\ analysis' = [kind |-> kind, usable |-> usable, confirm |-> confirm,
                          stage |-> IF Len(order) < 3 THEN "failed" ELSE "features"]
          /\ partition' = IF Len(order) < 3 THEN NoPartition
                          ELSE IF kind = "latent" THEN LatentSplit(order) ELSE ForecastSplit(order)
  BY <1>2
<1>4. /\ IsAnalysis(analysis') /\ analysis'.stage \in {"failed", "features"}
      /\ analysis'.kind = kind /\ analysis'.usable = usable /\ analysis'.confirm = confirm
      /\ analysis'.stage # "failed" => ~(Len(order) < 3)
  BY <1>3 DEF IsAnalysis
<1>5. IsFiniteSet(sessions) /\ sessions \cap ConfirmSessions = {}
  BY HeldOutAssumption
<1>6. RowsApart'
  <2>1. analysis'.confirm \cap analysis'.usable = {}
    BY <1>2, <1>4, <1>5
  <2>2. ASSUME analysis'.stage # "failed" PROVE PartitionApart(partition')
    <3>1. Len(order) \in Nat
      BY <1>5, FS_CardinalityType DEF Shuffles, SetToSeqs
    <3>2. Len(order) >= 3
      BY <2>2, <1>4, <3>1
    <3>3. QED
      BY <1>3, <1>4, <1>5, <2>2, <3>2, SessionSplitsApart
  <2>3. QED
    BY <2>1, <2>2 DEF RowsApart
<1>7. FitSound'
  BY <1>1, <1>4 DEF HeldOutInv, FitSound, Over, Controlled
<1>8. FeaturesOf'
  BY <1>4 DEF FeaturesOf, FeatureKinds
<1>9. HeldOutStaysOut' /\ FeaturesEndAtOrigin'
  BY <1>1 DEF HeldOutInv, HeldOutStaysOut, FeaturesEndAtOrigin
<1>10. QED
  BY <1>4, <1>6, <1>7, <1>8, <1>9 DEF HeldOutInv

LEMMA BeginGroupsKeeps == HeldOutInv /\ BeginGroups => HeldOutInv'
<1> SUFFICES ASSUME HeldOutInv, BeginGroups PROVE HeldOutInv'
  OBVIOUS
<1>1. /\ analysis.stage = "idle" /\ UNCHANGED <<fitted, chosen, scores, batch>>
  BY DEF BeginGroups
<1>2. HeldOutStaysOut' /\ FeaturesEndAtOrigin'
  BY <1>1 DEF HeldOutInv, HeldOutStaysOut, FeaturesEndAtOrigin
<1>3. ASSUME IsAnalysis(analysis'), analysis'.stage \notin {"idle", "confirm"},
             analysis'.confirm = {},
             analysis'.stage = "features" => analysis'.kind = "horizon",
             analysis'.stage # "failed" => PartitionApart(partition')
      PROVE  HeldOutInv'
  <2>1. FitSound'
    BY <1>1, <1>3 DEF HeldOutInv, FitSound, Over, Controlled
  <2>2. RowsApart' /\ FeaturesOf'
    BY <1>3 DEF RowsApart, FeaturesOf, FeatureKinds
  <2>3. QED
    BY <1>2, <1>3, <2>1, <2>2 DEF HeldOutInv
<1>4. PICK kind \in GroupKinds, metadata \in Metadatas :
        LET keys == LevelKeys(kind, metadata)
            groups == Groups(metadata, keys)
        IN  IF ~Usable(kind, metadata)
            THEN /\ analysis' = [NoAnalysis EXCEPT !.kind = kind, !.stage = "unavailable"]
                 /\ UNCHANGED partition
            ELSE \E order \in Shuffles(groups) :
                LET rows == GroupedSplit(metadata, keys, order)
                    accepted == /\ Populated(rows)
                                /\ CoversOnce(rows, Rows(metadata))
                                /\ GroupsApart(metadata, keys, rows)
                IN  /\ analysis' = [kind |-> kind, usable |-> groups, confirm |-> {},
                                    stage |-> IF ~accepted THEN "failed"
                                              ELSE IF kind = "horizon" THEN "features"
                                              ELSE "fit"]
                    /\ partition' = ByGroup(metadata, keys, rows)
  BY DEF BeginGroups
<1>5. CASE ~Usable(kind, metadata)
  <2>1. /\ analysis' = [NoAnalysis EXCEPT !.kind = kind, !.stage = "unavailable"]
        /\ UNCHANGED partition
    BY <1>4, <1>5
  <2>2. /\ IsAnalysis(analysis') /\ analysis'.stage = "unavailable" /\ analysis'.confirm = {}
    BY <2>1 DEF NoAnalysis, IsAnalysis
  <2>3. PartitionApart(partition')
    BY <1>1, <2>1 DEF HeldOutInv, RowsApart
  <2>4. QED
    BY <1>3, <2>2, <2>3
<1>6. CASE Usable(kind, metadata)
  <2> DEFINE keys == LevelKeys(kind, metadata)
             groups == Groups(metadata, keys)
             Rowed(order) == GroupedSplit(metadata, keys, order)
             Accepted(order) == /\ Populated(Rowed(order))
                                /\ CoversOnce(Rowed(order), Rows(metadata))
                                /\ GroupsApart(metadata, keys, Rowed(order))
  <2>1. PICK order \in Shuffles(groups) :
           /\ analysis' = [kind |-> kind, usable |-> groups, confirm |-> {},
                           stage |-> IF ~Accepted(order) THEN "failed"
                                     ELSE IF kind = "horizon" THEN "features"
                                     ELSE "fit"]
           /\ partition' = ByGroup(metadata, keys, Rowed(order))
    BY <1>4, <1>6
  <2>2. Accepted(order) => GroupsApart(metadata, keys, Rowed(order))
    OBVIOUS
  <2> HIDE DEF Accepted, Rowed, keys, groups
  <2>3. /\ IsAnalysis(analysis') /\ analysis'.confirm = {}
        /\ analysis'.stage \in {"failed", "features", "fit"}
        /\ analysis'.stage = "features" => analysis'.kind = "horizon"
        /\ analysis'.stage # "failed" => Accepted(order)
    BY <2>1 DEF IsAnalysis
  <2>4. analysis'.stage # "failed" => PartitionApart(partition')
    BY <2>1, <2>2, <2>3, GroupsSplitApart
  <2>5. QED
    BY <1>3, <2>3, <2>4
<1>7. QED
  BY <1>5, <1>6
\* What FeaturesEndAtOrigin says of one row.
EndsAtOrigin(row) ==
    /\ ~row.control =>
        /\ \A i \in row.observed \cup row.witnessed : i <= row.origin
        /\ \A i \in row.target : i > row.origin
    /\ row.witnessed \cap row.late = {}
    /\ row.witnessed \cap row.after \subseteq {row.origin}

\* A window of history ends at its origin, and a target lies behind it; a snapshot
\* of an earlier observation is read before the origin's operation ends.
LEMMA RowEndsAtOrigin ==
    ASSUME NEW kind \in FeatureKinds, NEW origin \in Origins, NEW row \in RowsOf(kind, origin)
    PROVE  EndsAtOrigin(row)
<1>1. /\ Length \in Nat \ {0} /\ HistoryLength \in Nat \ {0}
      /\ Ahead \in Nat \ {0} /\ Block \in Nat \ {0}
  BY HeldOutAssumption
<1>2. origin \in Nat
  BY <1>1 DEF Origins
<1>3. \A i \in History(origin) : i \in Int /\ i <= origin
  <2>1. Max({0, origin - HistoryLength + 1}) \in Int
    <3>1. origin - HistoryLength + 1 \in Int
      BY <1>1, <1>2
    <3>2. Max({0, origin - HistoryLength + 1}) =
              IF origin - HistoryLength + 1 >= 0 THEN origin - HistoryLength + 1 ELSE 0
      BY <3>1, MaxOfTwo, Zenon
    <3>3. QED
      BY <3>1, <3>2
  <2> HIDE <1>1
  <2>2. QED
    BY <1>2, <2>1 DEF History
<1>4. \A i \in TargetBlock(origin) : i > origin
  BY <1>1, <1>2 DEF TargetBlock
<1>5. CASE kind = "latent"
  <2>1. PICK late \in SUBSET History(origin), snapshot \in BOOLEAN :
            row = LatentRow(origin, late, snapshot)
    BY <1>5 DEF RowsOf
  <2>2. /\ row.observed = History(origin) /\ row.witnessed = History(origin) \ late
        /\ row.target = TargetBlock(origin) /\ row.origin = origin /\ row.late = late
        /\ row.after = ReadAfter(origin, snapshot)
    BY <2>1 DEF LatentRow, Row, NoBatch, Arrived
  <2>3. ReadAfter(origin, snapshot) \subseteq {origin}
    <3>1. SUFFICES ASSUME NEW i \in History(origin), ReadAt(i, snapshot) > OperationEnd(origin)
                   PROVE  i = origin
      BY DEF ReadAfter
    <3>2. QED
      BY <3>1, <1>2, <1>3 DEF ReadAt, OperationEnd
  <2>4. QED
    BY <2>2, <2>3, <1>3, <1>4 DEF EndsAtOrigin
<1>6. CASE kind = "forecast"
  <2>1. row = ForecastRow(origin)
    BY <1>6 DEF RowsOf
  <2>2. /\ row.observed = History(origin) /\ row.witnessed = {}
        /\ row.target = TargetBlock(origin) /\ row.origin = origin
    BY <2>1 DEF ForecastRow, Row, NoBatch
  <2>3. QED
    BY <2>2, <1>3, <1>4 DEF EndsAtOrigin
<1>7. CASE kind = "horizon"
  <2>1. row = CurveRow(origin) \/ \E other \in Paired : row \in ControlRows(origin, other)
    BY <1>7 DEF RowsOf
  <2>2. CASE row = CurveRow(origin)
    <3>1. /\ row.observed = {origin} /\ row.witnessed = {}
          /\ row.target = {origin + Ahead} /\ row.origin = origin
      BY <2>2 DEF CurveRow, Row, NoBatch
    <3>2. QED
      BY <3>1, <1>1, <1>2 DEF EndsAtOrigin
  <2>3. CASE \E other \in Paired : row \in ControlRows(origin, other)
    <3>1. row.witnessed = {} /\ row.control = TRUE
      BY <2>3 DEF ControlRows, Row, NoBatch
    <3>2. QED
      BY <3>1 DEF EndsAtOrigin
  <2>4. QED
    BY <2>1, <2>2, <2>3
<1>8. QED
  BY <1>5, <1>6, <1>7 DEF FeatureKinds, SessionKinds

\* A step of an analysis that runs keeps its rows and its features.
LEMMA AnalysisMoves ==
    ASSUME HeldOutInv, analysis.stage # "failed", NEW s, Goto(s), UNCHANGED <<partition, batch>>,
           s \notin {"idle", "features"}, FitSound', HeldOutStaysOut'
    PROVE  HeldOutInv'
<1>1. /\ IsAnalysis(analysis') /\ analysis'.stage = s /\ analysis'.usable = analysis.usable
      /\ analysis'.confirm = analysis.confirm
  BY GotoEffect DEF HeldOutInv
<1>2. QED
  BY <1>1 DEF HeldOutInv, RowsApart, FeaturesOf, FeaturesEndAtOrigin

\* The rows of the three partitions are of different groups.
LEMMA RowSetsApart ==
    ASSUME HeldOutInv, analysis.stage # "failed"
    PROVE  /\ partition.test \cap (TrainRows \cup ValidationRows) = {}
           /\ TestRows \subseteq partition.test
           /\ TrainRows \cup ValidationRows \subseteq Everything
BY DEF HeldOutInv, RowsApart, PartitionApart, TrainRows, ValidationRows, TestRows, PartOf,
       Everything

\* Scores on the test rows of what training and validation rows reached.
LEMMA ScoreApart ==
    ASSUME HeldOutInv, analysis.stage # "failed",
           NEW on \in SUBSET partition.test,
           NEW f \in SUBSET (TrainRows \cup ValidationRows),
           NEW c \in SUBSET ValidationRows,
           scores' = scores \cup {ScoreOf("model", on, f, c)}
    PROVE  HeldOutStaysOut'
BY RowSetsApart DEF HeldOutInv, HeldOutStaysOut, ScoreOf

LEMMA FeaturesKeep == HeldOutInv /\ MaterializeFeatures => HeldOutInv'
<1> SUFFICES ASSUME HeldOutInv, MaterializeFeatures PROVE HeldOutInv'
  OBVIOUS
<1>1. /\ analysis.stage = "features" /\ Goto("fit") /\ UNCHANGED <<partition, fitted, chosen, scores>>
  BY DEF MaterializeFeatures
<1>2. /\ IsAnalysis(analysis') /\ analysis'.stage = "fit" /\ analysis'.usable = analysis.usable
      /\ analysis'.confirm = analysis.confirm
  BY <1>1, GotoEffect DEF HeldOutInv
<1>3. FeaturesEndAtOrigin'
  <2>1. PICK o \in Origins : \E row \in RowsOf(analysis.kind, o) :
          batch' = IF InTrajectory(row.target) THEN row ELSE NoBatch
    BY DEF MaterializeFeatures
  <2>2. PICK row \in RowsOf(analysis.kind, o) :
          batch' = IF InTrajectory(row.target) THEN row ELSE NoBatch
    BY <2>1
  <2>3. CASE batch' = NoBatch
    BY <2>3 DEF NoBatch, FeaturesEndAtOrigin
  <2>4. CASE batch' = row
    <3>1. analysis.kind \in FeatureKinds
      BY <1>1 DEF HeldOutInv, FeaturesOf
    <3>2. EndsAtOrigin(row)
      BY <3>1, RowEndsAtOrigin
    <3>3. QED
      BY <2>4, <3>2 DEF FeaturesEndAtOrigin, EndsAtOrigin
  <2>5. QED
    BY <2>2, <2>3, <2>4
<1>4. FitSound'
  BY <1>1, <1>2 DEF HeldOutInv, FitSound, Over, Controlled, TrainRows, ValidationRows, PartOf, Everything
<1>5. QED
  BY <1>1, <1>2, <1>3, <1>4 DEF HeldOutInv, RowsApart, FeaturesOf, HeldOutStaysOut

\* What a step leaves of the rows: they depend on the partition and the usable ones.
LEMMA RowsStay ==
    ASSUME HeldOutInv, NEW s, Goto(s), UNCHANGED partition
    PROVE  /\ analysis'.stage = s
           /\ TrainRows' = TrainRows /\ ValidationRows' = ValidationRows
           /\ Everything' = Everything
<1>1. analysis'.stage = s /\ analysis'.usable = analysis.usable
  BY GotoEffect DEF HeldOutInv
<1>2. QED
  BY <1>1 DEF TrainRows, ValidationRows, Everything, PartOf

Fits == FitLatent \/ FitForecast \/ FitLevel \/ FitCurve
Selects == SelectLatent \/ SelectForecast \/ Refit

LEMMA FitsKeep == HeldOutInv /\ (Fits \/ Selects) => HeldOutInv'
<1> SUFFICES ASSUME HeldOutInv, Fits \/ Selects PROVE HeldOutInv'
  OBVIOUS
<1> USE DEF At
<1>1. /\ analysis.stage \in {"fit", "select", "refit"} /\ UNCHANGED <<partition, scores, batch>>
  BY DEF Fits, Selects, FitLatent, FitForecast, FitLevel, FitCurve, SelectLatent, SelectForecast,
         Refit
<1>2. PICK s \in {"failed", "select", "test", "refit"} :
        /\ Goto(s)
        /\ s # "failed" =>
             /\ fitted' \in {fitted, TrainRows, TrainRows \cup ValidationRows}
             /\ chosen' \in {chosen, {}, ValidationRows}
  <2>1. CASE Fits
    BY <2>1 DEF Fits, FitLatent, FitForecast, FitLevel, FitCurve, Fail
  <2>2. CASE Selects
    BY <2>2 DEF Selects, SelectLatent, SelectForecast, Refit, RefitRows, Fail
  <2>3. QED
    BY <2>1, <2>2
<1>3. /\ analysis'.stage = s /\ TrainRows' = TrainRows /\ ValidationRows' = ValidationRows
  BY <1>1, <1>2, RowsStay
<1>4. FitSound'
  BY <1>1, <1>2, <1>3 DEF HeldOutInv, FitSound, Over, Controlled
<1>5. HeldOutStaysOut'
  BY <1>1 DEF HeldOutInv, HeldOutStaysOut
<1>6. QED
  BY <1>1, <1>2, <1>4, <1>5, AnalysisMoves

Tests == TestLatent \/ TestForecast \/ TestLevel \/ AuditLevel \/ TestCurve \/ Replay

LEMMA TestsKeep == HeldOutInv /\ Tests => HeldOutInv'
<1> SUFFICES ASSUME HeldOutInv, Tests PROVE HeldOutInv'
  OBVIOUS
<1> USE DEF At
<1>1. /\ analysis.stage \in {"test", "audit", "replay"}
      /\ UNCHANGED <<partition, batch>>
  BY DEF Tests, TestLatent, TestForecast, TestLevel, AuditLevel, TestCurve, Replay
<1>2. /\ fitted \subseteq TrainRows \cup ValidationRows
      /\ chosen \subseteq ValidationRows
      /\ TestRows \subseteq partition.test /\ partition.test \subseteq partition.test
      /\ TrainRows \cup ValidationRows \subseteq Everything
  BY <1>1, RowSetsApart DEF HeldOutInv, FitSound, Over, Controlled
<1>3. PICK s \in {"failed", "refreeze", "report", "replay", "audit", "control"} : Goto(s)
  BY DEF Tests, TestLatent, TestForecast, TestLevel, AuditLevel, TestCurve, Replay,
         Fail
<1>4. fitted' \in {fitted, TrainRows} /\ chosen' \in {chosen, ValidationRows}
  BY DEF Tests, TestLatent, TestForecast, TestLevel, AuditLevel, TestCurve, Replay
<1>5. HeldOutStaysOut'
  <2>1. CASE scores' = scores
    BY <2>1 DEF HeldOutInv, HeldOutStaysOut
  <2>2. CASE scores' # scores
    <3>1. PICK on \in {TestRows, partition.test}, f \in {fitted, TrainRows},
               c \in {chosen, {}, ValidationRows} :
             scores' = scores \cup {ScoreOf("model", on, f, c)}
      <4>1. CASE TestLatent \/ TestLevel \/ TestCurve
        BY <4>1 DEF TestLatent, TestLevel, TestCurve, Scored, Score
      <4>2. CASE TestForecast
        BY <4>2, <2>2 DEF TestForecast, Scored, Score
      <4>3. CASE AuditLevel
        BY <4>3 DEF AuditLevel
      <4>4. CASE Replay
        BY <4>4 DEF Replay
      <4>5. QED
        BY <4>1, <4>2, <4>3, <4>4 DEF Tests
    <3>2. QED
      BY <3>1, <1>1, <1>2, ScoreApart
  <2>3. QED
    BY <2>1, <2>2
<1>6. FitSound'
  <2>1. /\ analysis'.stage = s /\ TrainRows' = TrainRows /\ ValidationRows' = ValidationRows
    BY <1>1, <1>3, RowsStay
  <2>2. QED
    BY <1>2, <1>3, <1>4, <2>1 DEF FitSound
<1>7. QED
  BY <1>1, <1>3, <1>5, <1>6, AnalysisMoves

CurveControls == NoControl \/ FitControl \/ ContrastCurve \/ SelectCurve

\* What the curve's control leaves in use is kept out of the scores of ordinary models.
LEMMA ControlsKeep == HeldOutInv /\ CurveControls => HeldOutInv'
<1> SUFFICES ASSUME HeldOutInv, CurveControls PROVE HeldOutInv'
  OBVIOUS
<1> USE DEF At
<1>1. /\ analysis.stage \in {"control", "contrast", "choose"} /\ UNCHANGED <<partition, batch>>
  BY DEF CurveControls, NoControl, FitControl, ContrastCurve, SelectCurve
<1>2. PICK s \in {"failed", "contrast", "choose", "report"} : Goto(s)
  BY DEF CurveControls, NoControl, FitControl, ContrastCurve, SelectCurve, Fail
<1>3. FitSound'
  <2>1. analysis'.stage = s
    BY <1>1, <1>2, RowsStay
  <2>2. QED
    BY <1>2, <2>1 DEF FitSound, Over, Controlled
<1>4. HeldOutStaysOut'
  <2>1. CASE NoControl
    BY <2>1 DEF NoControl, HeldOutInv, HeldOutStaysOut
  <2>2. CASE FitControl
    <3>1. \E f : scores' = scores \cup {ScoreOf("control", TestRows, f, {})}
      BY <2>2 DEF FitControl
    <3>2. QED
      BY <3>1 DEF HeldOutInv, HeldOutStaysOut, ScoreOf
  <2>3. CASE ContrastCurve
    <3>1. scores' = scores \cup {ScoreOf("model", TestRows, TrainRows, ValidationRows)}
      BY <2>3 DEF ContrastCurve
    <3>2. QED
      BY <3>1, <1>1, RowSetsApart, ScoreApart
  <2>4. CASE SelectCurve
    <3>1. \E on, f : scores' = scores \cup {ScoreOf("selected", on, f, chosen)}
      BY <2>4 DEF SelectCurve
    <3>2. QED
      BY <3>1 DEF HeldOutInv, HeldOutStaysOut, ScoreOf
  <2>5. QED
    BY <2>1, <2>2, <2>3, <2>4 DEF CurveControls
<1>5. QED
  BY <1>1, <1>2, <1>3, <1>4, AnalysisMoves

Confirms == RefreezeLatent \/ RefreezeForecast \/ ConfirmLatent \/ ConfirmForecast \/ WriteReport

LEMMA ConfirmsKeep == HeldOutInv /\ Confirms => HeldOutInv'
<1> SUFFICES ASSUME HeldOutInv, Confirms PROVE HeldOutInv'
  OBVIOUS
<1> USE DEF At
<1>1. /\ analysis.stage \in {"refreeze", "confirm", "report"} /\ UNCHANGED <<partition, batch, chosen>>
  BY DEF Confirms, RefreezeLatent, RefreezeForecast, ConfirmLatent, ConfirmForecast, WriteReport
<1>2. PICK s \in {"failed", "confirm", "report", "reported"} : Goto(s)
  BY DEF Confirms, RefreezeLatent, RefreezeForecast, ConfirmLatent, ConfirmForecast, WriteReport,
         Fail
<1>3. /\ analysis.stage # "report" => chosen \subseteq ValidationRows
      /\ TrainRows \cup ValidationRows \subseteq Everything
      /\ analysis.confirm \cap Everything = {}
  BY <1>1, RowSetsApart DEF HeldOutInv, FitSound, Over, Controlled, RowsApart, Everything
<1>4. /\ analysis'.stage = s /\ ValidationRows' = ValidationRows /\ Everything' = Everything
  BY <1>1, <1>2, RowsStay
<1>5. s = "confirm" => fitted' \subseteq Everything /\ analysis.stage = "refreeze"
  <2>1. CASE RefreezeLatent
    BY <2>1 DEF RefreezeLatent
  <2>2. CASE RefreezeForecast
    BY <2>2, <1>3 DEF RefreezeForecast
  <2>3. CASE ConfirmLatent \/ ConfirmForecast \/ WriteReport
    <3>1. analysis'.stage # "confirm"
      <4>1. Goto("failed") \/ Goto("report") \/ Goto("reported")
        BY <2>3 DEF ConfirmLatent, ConfirmForecast, WriteReport, Fail
      <4>2. QED
        BY <4>1, <1>1, RowsStay
    <3>2. QED
      BY <3>1, <1>4
  <2>4. QED
    BY <2>1, <2>2, <2>3 DEF Confirms
<1>6. FitSound'
  BY <1>1, <1>2, <1>3, <1>4, <1>5 DEF FitSound, Over, Controlled
<1>7. HeldOutStaysOut'
  <2>1. CASE scores' = scores
    BY <2>1 DEF HeldOutInv, HeldOutStaysOut
  <2>2. CASE scores' # scores
    <3>1. ConfirmLatent \/ ConfirmForecast
      BY <2>2 DEF Confirms, RefreezeLatent, RefreezeForecast, WriteReport
    <3>2. PICK found \in SUBSET analysis.confirm : scores' = scores \cup {Score(found)}
      BY <2>2, <3>1 DEF ConfirmLatent, ConfirmForecast, Scored
    <3>3. fitted \subseteq Everything
      BY <3>1 DEF ConfirmLatent, ConfirmForecast, HeldOutInv, FitSound
    <3>4. found \cap (fitted \cup chosen) = {}
      <4>1. analysis.stage # "report"
        BY <3>1 DEF ConfirmLatent, ConfirmForecast
      <4>2. QED
        BY <4>1, <1>3, <3>3
    <3>5. QED
      BY <3>2, <3>4 DEF HeldOutInv, HeldOutStaysOut, Score, ScoreOf
  <2>3. QED
    BY <2>1, <2>2
<1>8. QED
  BY <1>1, <1>2, <1>6, <1>7, AnalysisMoves

LEMMA HeldOutKeeps == HeldOutInv /\ (HeldOutNext \/ UNCHANGED heldOut) => HeldOutInv'
<1> SUFFICES ASSUME HeldOutInv, HeldOutNext \/ UNCHANGED heldOut PROVE HeldOutInv'
  OBVIOUS
<1>1. CASE HeldOutNext
  BY <1>1, BeginSessionsKeeps, BeginGroupsKeeps, FeaturesKeep, FitsKeep, TestsKeep, ControlsKeep, ConfirmsKeep
  DEF HeldOutNext, Fits, Selects, Tests, CurveControls, Confirms
<1>2. CASE UNCHANGED heldOut
  BY <1>2 DEF heldOut, HeldOutInv, IsAnalysis, FitSound, RowsApart, FeaturesOf, HeldOutStaysOut,
              FeaturesEndAtOrigin, TrainRows, ValidationRows, PartOf, Everything, PartitionApart
<1>3. QED
  BY <1>1, <1>2

LEMMA HeldOutStarts == HeldOutInit => HeldOutInv
<1> SUFFICES ASSUME HeldOutInit PROVE HeldOutInv
  OBVIOUS
<1>1. /\ analysis = NoAnalysis /\ partition = NoPartition /\ fitted = {} /\ chosen = {}
      /\ scores = {} /\ batch = NoBatch
  BY DEF HeldOutInit
<1>2. IsAnalysis(analysis) /\ FeaturesOf
  BY <1>1 DEF NoAnalysis, IsAnalysis, FeaturesOf
<1>3. FitSound /\ RowsApart
  BY <1>1, NothingApart DEF NoAnalysis, FitSound, RowsApart
<1>4. HeldOutStaysOut /\ FeaturesEndAtOrigin
  BY <1>1 DEF HeldOutStaysOut, FeaturesEndAtOrigin, NoBatch
<1>5. QED
  BY <1>2, <1>3, <1>4 DEF HeldOutInv
-----------------------------------------------------------------------------
(* Of counts of scores.  A count is a fold over a set, which is defined by *)
(* recursion: what is shown of it is shown by taking a least set for which *)
(* it fails.                                                               *)

\* A finite set of integers has a least and a greatest element.
Extremes(S) ==
    /\ \E x \in S : \A y \in S : x <= y
    /\ \E x \in S : \A y \in S : x >= y

LEMMA ExtremesExist ==
    ASSUME NEW S, IsFiniteSet(S), S \subseteq Int, S # {}
    PROVE  Extremes(S)
<1> DEFINE Without == {T \in SUBSET S : T # {} /\ ~Extremes(T)}
<1>1. SUFFICES ASSUME Without # {} PROVE FALSE
  OBVIOUS
<1>2. Without \subseteq FiniteSubsetsOf(S)
  BY FS_FiniteSubsetsOfFinite
<1>3. PICK T \in Without : \A U \in Without : <<U, T>> \notin StrictSubsetOrdering(S)
  <2> HIDE DEF Without
  <2> QED BY <1>1, <1>2, FS_StrictSubsetOrderingWellFounded, WFMin
<1>4. PICK x \in T : TRUE
  OBVIOUS
<1> DEFINE U == T \ {x}
<1>5. U \notin Without
  BY <1>3, <1>4 DEF StrictSubsetOrdering
<1>6. U = {} \/ Extremes(U)
  BY <1>5
<1>7. Extremes(T)
  <2>1. CASE U = {}
    <3>1. T = {x} /\ x \in Int
      BY <2>1, <1>4
    <3>2. QED
      BY <3>1 DEF Extremes
  <2>2. CASE Extremes(U)
    <3>1. T = U \cup {x} /\ U \subseteq Int /\ x \in Int
      BY <1>4
    <3> HIDE DEF U
    <3>2. \E a \in T : \A y \in T : a <= y
      <4>1. PICK a \in U : \A y \in U : a <= y
        BY <2>2 DEF Extremes
      <4>2. CASE a <= x
        BY <3>1, <4>1, <4>2
      <4>3. CASE x <= a
        BY <3>1, <4>1, <4>3
      <4>4. QED
        BY <3>1, <4>1, <4>2, <4>3
    <3>3. \E a \in T : \A y \in T : a >= y
      <4>1. PICK a \in U : \A y \in U : a >= y
        BY <2>2 DEF Extremes
      <4>2. CASE a >= x
        BY <3>1, <4>1, <4>2
      <4>3. CASE x >= a
        BY <3>1, <4>1, <4>3
      <4>4. QED
        BY <3>1, <4>1, <4>2, <4>3
    <3>4. QED
      BY <3>2, <3>3 DEF Extremes
  <2>3. QED
    BY <2>1, <2>2, <1>6
<1>8. QED
  BY <1>3, <1>7

\* The function that SumFunctionOnSet defines on the subsets of a set.
Step(f, g, s) ==
    IF s = {} THEN 0 ELSE f[CHOOSE x \in s : TRUE] + g[s \ {CHOOSE x \in s : TRUE}]
IsIter(f, g, S) == g = [s \in SUBSET S |-> Step(f, g, s)]

LEMMA SumIsIter ==
    ASSUME NEW f, NEW S
    PROVE  SumFunctionOnSet(f, S) = (CHOOSE g : IsIter(f, g, S))[S]
BY DEF SumFunctionOnSet, FoldFunctionOnSet, MapThenFoldSet, IsIter, Step

LEMMA LeastSet ==
    ASSUME NEW S, IsFiniteSet(S), NEW F \in SUBSET SUBSET S, F # {}
    PROVE  \E T \in F : \A U \in SUBSET T : U # T => U \notin F
<1>1. F \subseteq FiniteSubsetsOf(S)
  BY FS_FiniteSubsetsOfFinite
<1>2. PICK T \in F : \A U \in F : <<U, T>> \notin StrictSubsetOrdering(S)
  BY <1>1, FS_StrictSubsetOrderingWellFounded, WFMin
<1>3. ASSUME NEW U \in SUBSET T, U # T PROVE U \notin F
  <2>1. U \in F => <<U, T>> \in StrictSubsetOrdering(S)
    BY <1>3 DEF StrictSubsetOrdering
  <2>2. QED
    BY <1>2, <2>1
<1>4. QED
  BY <1>3

LEMMA IterAgree ==
    ASSUME NEW f, NEW S, IsFiniteSet(S), NEW A \in SUBSET S, NEW B \in SUBSET S,
           NEW g, NEW h, IsIter(f, g, A), IsIter(f, h, B),
           NEW s, s \subseteq A, s \subseteq B
    PROVE  g[s] = h[s]
<1> DEFINE F == {t \in SUBSET S : t \subseteq A /\ t \subseteq B /\ g[t] # h[t]}
<1>1. SUFFICES ASSUME F # {} PROVE FALSE
  OBVIOUS
<1>2. PICK t \in F : \A u \in SUBSET t : u # t => u \notin F
  <2>1. F \in SUBSET SUBSET S
    OBVIOUS
  <2> HIDE DEF F
  <2>2. QED
    BY <1>1, <2>1, LeastSet
<1>3. g[t] = Step(f, g, t) /\ h[t] = Step(f, h, t)
  BY DEF IsIter
<1>4. t # {}
  BY <1>3 DEF Step
<1> DEFINE x == CHOOSE x \in t : TRUE
<1>5. x \in t
  BY <1>4
<1> HIDE DEF x
<1>6. g[t \ {x}] = h[t \ {x}]
  BY <1>2, <1>5
<1>7. QED
  BY <1>3, <1>4, <1>6 DEF Step, x

LEMMA IterExists ==
    ASSUME NEW f, NEW S, IsFiniteSet(S)
    PROVE  \E g : IsIter(f, g, S)
<1> DEFINE F == {t \in SUBSET S : ~\E g : IsIter(f, g, t)}
<1>1. SUFFICES ASSUME F # {} PROVE FALSE
  OBVIOUS
<1>2. PICK t \in F : \A u \in SUBSET t : u # t => u \notin F
  <2>1. F \in SUBSET SUBSET S
    OBVIOUS
  <2> HIDE DEF F
  <2>2. QED
    BY <1>1, <2>1, LeastSet
<1> DEFINE Iter(u) == CHOOSE g : IsIter(f, g, u)
           x(s) == CHOOSE e \in s : TRUE
           h == [s \in SUBSET t |->
                    IF s = {} THEN 0 ELSE f[x(s)] + Iter(s \ {x(s)})[s \ {x(s)}]]
<1>3. ASSUME NEW u \in SUBSET t, u # t PROVE IsIter(f, Iter(u), u)
  <2>1. \E g : IsIter(f, g, u)
    BY <1>2, <1>3
  <2> HIDE DEF IsIter
  <2>2. QED
    BY <2>1
<1>4. ASSUME NEW s \in SUBSET t, s # {} PROVE x(s) \in s
  BY <1>4
<1> HIDE DEF x
<1>5. ASSUME NEW u \in SUBSET t, u # t PROVE h[u] = Iter(u)[u]
  <2>1. CASE u = {}
    <3>1. IsIter(f, Iter(u), u)
      BY <1>3, <1>5
    <3> HIDE DEF Iter
    <3>2. Iter(u)[u] = 0
      BY <2>1, <3>1 DEF IsIter, Step
    <3> USE DEF Iter
    <3>3. QED
      BY <2>1, <1>5, <3>2
  <2>2. CASE u # {}
    <3> DEFINE v == u \ {x(u)}
    <3>1. v \in SUBSET u /\ v # t /\ x(u) \in u
      BY <1>4, <1>5, <2>2
    <3>2. IsIter(f, Iter(u), u) /\ IsIter(f, Iter(v), v)
      BY <3>1, <1>3, <1>5
    <3>3. Iter(u)[u] = f[x(u)] + Iter(u)[v]
      <4> HIDE DEF Iter
      <4> QED BY <2>2, <3>2 DEF IsIter, Step, x
    <3>4. Iter(u)[v] = Iter(v)[v]
      <4>1. u \in SUBSET S /\ v \in SUBSET S /\ v \subseteq u
        BY <3>1
      <4> HIDE DEF Iter, v, F, IsIter
      <4>2. QED
        BY <4>1, <3>2, IterAgree
    <3>5. QED
      BY <2>2, <1>5, <3>3, <3>4
  <2>3. QED
    BY <2>1, <2>2
<1>6. ASSUME NEW s \in SUBSET t PROVE h[s] = Step(f, h, s)
  <2>1. CASE s = {}
    BY <2>1 DEF Step
  <2>2. CASE s # {}
    <3>1. s \ {x(s)} \in SUBSET t /\ s \ {x(s)} # t
      BY <1>4, <2>2
    <3>2. h[s \ {x(s)}] = Iter(s \ {x(s)})[s \ {x(s)}]
      BY <3>1, <1>5
    <3>3. QED
      BY <2>2, <3>2 DEF Step, x
  <2>3. QED
    BY <2>1, <2>2
<1>7. IsIter(f, h, t)
  BY <1>6 DEF IsIter
<1>8. QED
  BY <1>2, <1>7

LEMMA SumEmpty == \A f : SumFunctionOnSet(f, {}) = 0
<1> TAKE f
<1>1. IsIter(f, CHOOSE g : IsIter(f, g, {}), {})
  BY IterExists, FS_EmptySet
<1>2. QED
  BY <1>1, SumIsIter DEF IsIter, Step

LEMMA SumChosen ==
    ASSUME NEW f, NEW S, IsFiniteSet(S), S # {}
    PROVE  \E x \in S : SumFunctionOnSet(f, S) = f[x] + SumFunctionOnSet(f, S \ {x})
<1> DEFINE x == CHOOSE e \in S : TRUE
           g == CHOOSE i : IsIter(f, i, S)
           h == CHOOSE i : IsIter(f, i, S \ {x})
<1>1. x \in S
  OBVIOUS
<1>2. IsFiniteSet(S \ {x})
  BY FS_Subset
<1>3. IsIter(f, g, S) /\ IsIter(f, h, S \ {x})
  <2> HIDE DEF IsIter
  <2> QED BY <1>2, IterExists
<1>4. g[S \ {x}] = h[S \ {x}]
  <2>1. ASSUME NEW B \in SUBSET S, NEW p, NEW q, IsIter(f, p, S), IsIter(f, q, B)
        PROVE  p[B] = q[B]
    <3>1. S \in SUBSET S
      OBVIOUS
    <3>2. QED
      BY <2>1, <3>1, IterAgree
  <2>2. S \ {x} \in SUBSET S
    OBVIOUS
  <2> HIDE DEF g, h, x, IsIter
  <2>3. QED
    BY <1>3, <2>1, <2>2
<1>5. g[S] = f[x] + g[S \ {x}]
  BY <1>3 DEF IsIter, Step
<1>6. SumFunctionOnSet(f, S) = g[S] /\ SumFunctionOnSet(f, S \ {x}) = h[S \ {x}]
  BY SumIsIter
<1>7. QED
  BY <1>1, <1>4, <1>5, <1>6

LEMMA SumNat ==
    ASSUME NEW f, NEW S, IsFiniteSet(S), \A x \in S : f[x] \in Nat
    PROVE  SumFunctionOnSet(f, S) \in Nat
<1> DEFINE F == {t \in SUBSET S : SumFunctionOnSet(f, t) \notin Nat}
<1>1. SUFFICES ASSUME F # {} PROVE FALSE
  OBVIOUS
<1>2. PICK t \in F : \A u \in SUBSET t : u # t => u \notin F
  <2>1. F \in SUBSET SUBSET S
    OBVIOUS
  <2> HIDE DEF F
  <2>2. QED
    BY <1>1, <2>1, LeastSet
<1>3. t # {} /\ IsFiniteSet(t)
  <2>1. SumFunctionOnSet(f, {}) \in Nat
    BY SumEmpty
  <2>2. t # {}
    BY <2>1
  <2>3. QED
    BY <2>2, FS_Subset
<1>4. PICK x \in t : SumFunctionOnSet(f, t) = f[x] + SumFunctionOnSet(f, t \ {x})
  BY <1>3, SumChosen
<1>5. t \ {x} \notin F
  BY <1>2
<1>6. SumFunctionOnSet(f, t \ {x}) \in Nat /\ f[x] \in Nat
  BY <1>5
<1>7. QED
  BY <1>4, <1>6

\* The order of the summands does not matter.
LEMMA SumRemove ==
    ASSUME NEW f, NEW S, IsFiniteSet(S), \A x \in S : f[x] \in Nat, NEW y \in S
    PROVE  SumFunctionOnSet(f, S) = f[y] + SumFunctionOnSet(f, S \ {y})
<1> DEFINE Sum(t) == SumFunctionOnSet(f, t)
           F == {t \in SUBSET S : \E e \in t : Sum(t) # f[e] + Sum(t \ {e})}
<1>1. SUFFICES ASSUME F # {} PROVE FALSE
  OBVIOUS
<1>2. PICK t \in F : \A u \in SUBSET t : u # t => u \notin F
  <2>1. F \in SUBSET SUBSET S
    OBVIOUS
  <2> HIDE DEF F
  <2>2. QED
    BY <1>1, <2>1, LeastSet
<1>3. PICK e \in t : Sum(t) # f[e] + Sum(t \ {e})
  OBVIOUS
<1>4. IsFiniteSet(t)
  BY FS_Subset
<1>5. PICK x \in t : Sum(t) = f[x] + Sum(t \ {x})
  BY <1>3, <1>4, SumChosen
<1>6. x # e
  BY <1>3, <1>5
<1>7. Sum(t \ {x}) = f[e] + Sum(t \ {x, e}) /\ Sum(t \ {e}) = f[x] + Sum(t \ {x, e})
  <2>1. t \ {x} \notin F /\ t \ {e} \notin F
    BY <1>2, <1>3, <1>5
  <2>2. e \in t \ {x} /\ x \in t \ {e}
    BY <1>6
  <2>3. (t \ {x}) \ {e} = t \ {x, e} /\ (t \ {e}) \ {x} = t \ {x, e}
    OBVIOUS
  <2> HIDE DEF Sum
  <2>4. QED
    BY <2>1, <2>2, <2>3
<1>8. Sum(t \ {x, e}) \in Nat /\ f[x] \in Nat /\ f[e] \in Nat
  <2>1. IsFiniteSet(t \ {x, e}) /\ \A z \in t \ {x, e} : f[z] \in Nat
    BY <1>4, FS_Subset
  <2>2. QED
    BY <2>1, SumNat
<1> HIDE DEF Sum
<1>9. QED
  BY <1>3, <1>5, <1>7, <1>8

LEMMA SumUnion ==
    ASSUME NEW f, NEW S, IsFiniteSet(S), \A x \in S : f[x] \in Nat,
           NEW A \in SUBSET S, NEW B \in SUBSET S, A \cap B = {}
    PROVE  SumFunctionOnSet(f, A \cup B) = SumFunctionOnSet(f, A) + SumFunctionOnSet(f, B)
<1> DEFINE Sum(t) == SumFunctionOnSet(f, t)
           F == {t \in SUBSET B : Sum(A \cup t) # Sum(A) + Sum(t)}
<1>1. SUFFICES ASSUME F # {} PROVE FALSE
  OBVIOUS
<1>2. \A t \in SUBSET S : IsFiniteSet(t) /\ Sum(t) \in Nat
  BY FS_Subset, SumNat
<1>3. PICK t \in F : \A u \in SUBSET t : u # t => u \notin F
  <2>1. F \in SUBSET SUBSET S
    OBVIOUS
  <2> HIDE DEF F
  <2>2. QED
    BY <1>1, <2>1, LeastSet
<1>4. t # {}
  <2>1. Sum({}) = 0 /\ Sum(A) \in Nat
    BY SumEmpty, <1>2
  <2>2. Sum(A \cup t) # Sum(A) + Sum(t)
    OBVIOUS
  <2> HIDE DEF Sum, F
  <2>3. ASSUME t = {} PROVE FALSE
    <3>1. A \cup t = A
      BY <2>3
    <3>2. Sum(A) # Sum(A) + Sum({})
      BY <2>2, <2>3, <3>1
    <3>3. QED
      BY <2>1, <3>2
  <2>4. QED
    BY <2>3
<1>5. PICK x \in t : TRUE
  BY <1>4
<1>6. Sum(A \cup t) = f[x] + Sum((A \cup t) \ {x}) /\ Sum(t) = f[x] + Sum(t \ {x})
  <2>1. /\ IsFiniteSet(A \cup t) /\ IsFiniteSet(t) /\ x \in A \cup t
        /\ \A z \in A \cup t : f[z] \in Nat
    BY <1>2
  <2>2. QED
    BY <2>1, SumRemove
<1>7. (A \cup t) \ {x} = A \cup (t \ {x})
  OBVIOUS
<1>8. Sum(A \cup (t \ {x})) = Sum(A) + Sum(t \ {x})
  BY <1>3, <1>5
<1>9. Sum(A) \in Nat /\ Sum(t \ {x}) \in Nat /\ f[x] \in Nat
  <2>1. A \in SUBSET S /\ t \ {x} \in SUBSET S
    OBVIOUS
  <2> HIDE DEF Sum
  <2>2. QED
    BY <1>2, <2>1
<1> HIDE DEF Sum
<1>10. QED
  BY <1>3, <1>6, <1>7, <1>8, <1>9

\* An ensemble counts how often each score occurs.
IsEnsemble(e) == e \in [Scores -> Nat]

LEMMA CountsAdd ==
    ASSUME NEW e, IsEnsemble(e), NEW A \in SUBSET Scores, NEW B \in SUBSET Scores, A \cap B = {}
    PROVE  /\ SumFunctionOnSet(e, A) \in Nat /\ SumFunctionOnSet(e, B) \in Nat
           /\ SumFunctionOnSet(e, A \cup B) = SumFunctionOnSet(e, A) + SumFunctionOnSet(e, B)
<1>1. IsFiniteSet(Scores) /\ \A x \in Scores : e[x] \in Nat
  BY ScoresAssumption DEF IsEnsemble
<1>2. IsFiniteSet(A) /\ IsFiniteSet(B)
  BY <1>1, FS_Subset
<1>3. SumFunctionOnSet(e, A) \in Nat
  BY <1>1, <1>2, SumNat
<1>4. SumFunctionOnSet(e, B) \in Nat
  BY <1>1, <1>2, SumNat
<1>5. SumFunctionOnSet(e, A \cup B) = SumFunctionOnSet(e, A) + SumFunctionOnSet(e, B)
  BY <1>1, SumUnion
<1>6. QED
  BY <1>3, <1>4, <1>5

Below(e, score) == SumFunctionOnSet(e, {s \in Scores : s < score})

\* The scores below one, and those from it on, make up the ensemble.
LEMMA SizeParts ==
    ASSUME NEW e, IsEnsemble(e), NEW x \in Scores
    PROVE  /\ Size(e) \in Nat /\ Below(e, x) \in Nat /\ AtLeast(e, x) \in Nat
           /\ Size(e) = Below(e, x) + AtLeast(e, x)
<1> DEFINE A == {s \in Scores : s < x}
           B == {s \in Scores : s >= x}
<1>1. A \in SUBSET Scores /\ B \in SUBSET Scores /\ A \cap B = {} /\ A \cup B = Scores
  <2>1. \A s \in Scores : s \in Int
    BY ScoresAssumption
  <2>2. QED
    BY <2>1
<1>2. DOMAIN e = Scores
  BY DEF IsEnsemble
<1>3. Size(e) = SumFunctionOnSet(e, A \cup B)
  BY <1>1, <1>2 DEF Size, SumFunction
<1>4. Below(e, x) = SumFunctionOnSet(e, A) /\ AtLeast(e, x) = SumFunctionOnSet(e, B)
  BY DEF Below, AtLeast
<1> HIDE DEF A, B
<1>5. QED
  BY <1>1, <1>3, <1>4, CountsAdd

LEMMA CountsGrow ==
    ASSUME NEW e, IsEnsemble(e), NEW A \in SUBSET Scores, NEW B \in SUBSET A
    PROVE  SumFunctionOnSet(e, B) <= SumFunctionOnSet(e, A)
<1> DEFINE C == A \ B
<1>1. B \in SUBSET Scores /\ C \in SUBSET Scores /\ B \cap C = {} /\ B \cup C = A
  OBVIOUS
<1> HIDE DEF C
<1>2. /\ SumFunctionOnSet(e, A) = SumFunctionOnSet(e, B) + SumFunctionOnSet(e, C)
      /\ SumFunctionOnSet(e, B) \in Nat /\ SumFunctionOnSet(e, C) \in Nat
  BY <1>1, CountsAdd
<1>3. QED
  BY <1>2

\* The score at a position is the first at which the count reaches it.
LEMMA RankedIs ==
    ASSUME NEW e, IsEnsemble(e), NEW p \in Nat, p > 0, p <= Size(e)
    PROVE  /\ Ranked(e, p) \in Scores
           /\ AtMost(e, Ranked(e, p)) >= p
           /\ \A s \in Scores : AtMost(e, s) >= p => Ranked(e, p) <= s
<1> DEFINE R == {s \in Scores : AtMost(e, s) >= p}
<1>1. /\ IsFiniteSet(Scores) /\ Scores \subseteq Int /\ Scores # {}
  BY ScoresAssumption
<1>2. PICK top \in Scores : \A s \in Scores : top >= s
  BY <1>1, ExtremesExist DEF Extremes
<1>3. top \in R
  <2>1. {s \in Scores : s <= top} = Scores
    BY <1>1, <1>2
  <2>2. AtMost(e, top) = Size(e)
    BY <2>1 DEF AtMost, Size, SumFunction, IsEnsemble
  <2>3. QED
    BY <2>2
<1>4. IsFiniteSet(R) /\ R \subseteq Int /\ R # {}
  BY <1>1, <1>3, FS_Subset
<1>5. PICK least \in R : \A s \in R : least <= s
  <2> HIDE DEF R
  <2> QED BY <1>4, ExtremesExist DEF Extremes
<1>6. Ranked(e, p) \in R /\ \A s \in R : Ranked(e, p) <= s
  <2>1. Ranked(e, p) = CHOOSE s \in R : \A t \in R : s <= t
    BY DEF Ranked, Min
  <2> HIDE DEF R
  <2>2. QED
    BY <1>5, <2>1
<1>7. QED
  BY <1>6

\* A score reaches a position when that many are at most as great, and exceeds
\* it when that many are below.
LEMMA RankedBounds ==
    ASSUME NEW e, IsEnsemble(e), NEW p \in Nat, p > 0, p <= Size(e), NEW x \in Scores
    PROVE  x > Ranked(e, p) <=> Below(e, x) >= p
<1> DEFINE q == Ranked(e, p)
           L == {s \in Scores : s < x}
<1>1. q \in Scores /\ AtMost(e, q) >= p /\ \A s \in Scores : AtMost(e, s) >= p => q <= s
  BY RankedIs
<1> HIDE DEF q
<1>2. Scores \subseteq Int /\ IsFiniteSet(Scores)
  BY ScoresAssumption
<1>3. Below(e, x) = SumFunctionOnSet(e, L) /\ Below(e, x) \in Nat
  BY SizeParts DEF Below
<1>4. \A s \in Scores : AtMost(e, s) \in Nat
  <2> TAKE s \in Scores
  <2> DEFINE A == {t \in Scores : t <= s}
  <2>1. A \in SUBSET Scores /\ {} \in SUBSET Scores /\ A \cap {} = {}
    OBVIOUS
  <2>2. AtMost(e, s) = SumFunctionOnSet(e, A)
    BY DEF AtMost
  <2> HIDE DEF A
  <2>3. QED
    BY <2>1, <2>2, CountsAdd
<1>5. ASSUME x > q PROVE Below(e, x) >= p
  <2> DEFINE A == {s \in Scores : s <= q}
  <2>1. \A s \in Scores : s \in Int
    BY <1>2
  <2>2. A \in SUBSET L /\ L \in SUBSET Scores
    BY <1>1, <2>1, <1>5
  <2>3. AtMost(e, q) = SumFunctionOnSet(e, A)
    BY DEF AtMost
  <2> HIDE DEF A, L
  <2>4. AtMost(e, q) <= Below(e, x)
    BY <2>2, <2>3, <1>3, CountsGrow
  <2>5. QED
    BY <2>4, <1>1, <1>3, <1>4
<1>6. ASSUME ~(x > q) PROVE ~(Below(e, x) >= p)
  <2>1. CASE L = {}
    <3>1. Below(e, x) = 0
      BY <2>1, <1>3, SumEmpty
    <3>2. QED
      BY <3>1
  <2>2. CASE L # {}
    <3>1. IsFiniteSet(L) /\ L \subseteq Int
      BY <1>2, FS_Subset
    <3>2. PICK y \in L : \A s \in L : y >= s
      <4> HIDE DEF L
      <4> QED BY <2>2, <3>1, ExtremesExist DEF Extremes
    <3>3. L = {s \in Scores : s <= y} /\ y \in Scores /\ ~(q <= y)
      <4>1. x \in Int /\ q \in Int /\ \A s \in Scores : s \in Int
        BY <1>1, <1>2
      <4>2. \A s \in Scores : s < x <=> s <= y
        BY <3>2, <4>1
      <4>3. L = {s \in Scores : s <= y}
        BY <4>2
      <4>4. y \in Scores /\ y < x
        BY <3>2
      <4>5. ~(q <= y)
        BY <4>1, <4>4, <1>6
      <4>6. QED
        BY <4>3, <4>4, <4>5
    <3>4. Below(e, x) = AtMost(e, y)
      BY <3>3, <1>3 DEF AtMost
    <3>5. ~(AtMost(e, y) >= p)
      BY <3>3, <1>1
    <3>6. QED
      BY <3>4, <3>5
  <2>3. QED
    BY <2>1, <2>2
<1>7. QED
  BY <1>5, <1>6 DEF q

LEMMA MinOfTwo ==
    ASSUME NEW a \in Int, NEW b \in Int
    PROVE  Min({a, b}) = IF a <= b THEN a ELSE b
<1>1. \E x \in {a, b} : \A y \in {a, b} : x <= y
  <2>1. CASE a <= b
    BY <2>1
  <2>2. CASE b <= a
    BY <2>2
  <2>3. QED
    BY <2>1, <2>2
<1>2. Min({a, b}) \in {a, b} /\ \A y \in {a, b} : Min({a, b}) <= y
  BY <1>1 DEF Min
<1>3. QED
  BY <1>2

\* A share of less than one of a positive count.
LEMMA ShareOf ==
    ASSUME NEW n \in Nat, NEW percent \in 1..99
    PROVE  /\ percent * n \in Nat /\ n <= percent * n /\ percent * n <= 99 * n
           /\ (100 - percent) * n = 100 * n - percent * n
<1>1. percent * n \in Nat
  OBVIOUS
<1>2. n <= percent * n
  <2>1. percent * n = n + (percent - 1) * n /\ (percent - 1) * n \in Nat
    OBVIOUS
  <2>2. QED
    BY <2>1
<1>3. percent * n <= 99 * n
  <2>1. 99 * n = percent * n + (99 - percent) * n /\ (99 - percent) * n \in Nat
    OBVIOUS
  <2>2. QED
    BY <2>1, <1>1
<1>4. (100 - percent) * n = 100 * n - percent * n
  OBVIOUS
<1>5. QED
  BY <1>1, <1>2, <1>3, <1>4

\* A score exceeds the order statistic exactly when it is significant.
LEMMA ThresholdAndPValue ==
    ASSUME NEW e, IsEnsemble(e), NEW percent \in 1..99, AlphaSupported(Size(e), percent),
           NEW x \in Scores
    PROVE  Exceeds(x, OrderStatistic(e, percent)) <=> Significant(e, x, percent)
<1> DEFINE n == Size(e)
           M == percent * (n + 1)
           a == M \div 100
           least == AtLeast(e, x)
<1>1. /\ n \in Nat /\ Below(e, x) \in Nat /\ least \in Nat
      /\ n = Below(e, x) + least
  BY SizeParts
<1>2. M \in Nat /\ M <= 99 * (n + 1) /\ 100 <= M
  <2>1. n + 1 \in Nat
    BY <1>1
  <2>2. M \in Nat /\ M <= 99 * (n + 1)
    <3> HIDE DEF n
    <3> QED BY <2>1, ShareOf
  <2>3. QED
    BY <2>2 DEF AlphaSupported
<1>3. Significant(e, x, percent) <=> n > 0 /\ 100 * (least + 1) <= M
  BY DEF Significant
<1>4. OrderStatistic(e, percent) = Ranked(e, n - AllowedExceedances(n, percent))
  BY DEF OrderStatistic
<1>5. AllowedExceedances(n, percent) = Max({0, Min({n - 1, a - 1})})
  BY DEF AllowedExceedances
<1> HIDE DEF n, M, least
<1>6. a \in Nat /\ 1 <= a /\ a <= n /\ (100 * (least + 1) <= M <=> least + 1 <= a)
  BY <1>1, <1>2
<1> HIDE DEF a
<1>7. AllowedExceedances(n, percent) = a - 1
  <2>1. n - 1 \in Int /\ a - 1 \in Int /\ a - 1 <= n - 1 /\ a - 1 >= 0
    BY <1>1, <1>6
  <2>2. Min({n - 1, a - 1}) = a - 1
    <3>1. Min({n - 1, a - 1}) = IF n - 1 <= a - 1 THEN n - 1 ELSE a - 1
      BY <2>1, MinOfTwo
    <3>2. QED
      BY <3>1, <2>1
  <2>3. Max({0, a - 1}) = a - 1
    <3>1. Max({0, a - 1}) = IF a - 1 >= 0 THEN a - 1 ELSE 0
      BY <2>1, MaxOfTwo, Zenon
    <3>2. QED
      BY <3>1, <2>1
  <2>4. QED
    BY <1>5, <2>2, <2>3
<1>8. n - (a - 1) \in Nat /\ n - (a - 1) > 0 /\ n - (a - 1) <= n
  BY <1>1, <1>6
<1>9. x > Ranked(e, n - (a - 1)) <=> Below(e, x) >= n - (a - 1)
  BY <1>8, RankedBounds DEF n
<1>10. Below(e, x) >= n - (a - 1) <=> least + 1 <= a
  BY <1>1, <1>6
<1>11. QED
  BY <1>1, <1>3, <1>4, <1>6, <1>7, <1>9, <1>10 DEF Exceeds

\* A position is reached by every score with that many below it.
LEMMA ReachesRank ==
    ASSUME NEW e, IsEnsemble(e), NEW p \in Nat, p > 0, p <= Size(e), NEW x \in Scores,
           Below(e, x) >= p
    PROVE  Ranked(e, p) \in Nat /\ x \in Nat /\ Ranked(e, p) < x
BY RankedBounds, RankedIs, ScoresAssumption

\* A significant score reaches the interpolated quantile, for an percent of at most one half.
LEMMA SignificantReachesQuantile ==
    ASSUME NEW e, IsEnsemble(e), NEW percent \in 1..50, NEW x \in Scores,
           Significant(e, x, percent)
    PROVE  ReachesQuantile(x, QuantileTimes100(e, percent))
<1> DEFINE n == Size(e)
           place == (n - 1) * (100 - percent)
           lo == place \div 100
           part == place % 100
           below == Ranked(e, lo + 1)
           next == Min({lo + 2, n})
           above == Ranked(e, next)
           under == Below(e, x)
<1>1. /\ n \in Nat /\ under \in Nat /\ AtLeast(e, x) \in Nat
      /\ n = under + AtLeast(e, x)
  BY SizeParts
<1>2. n > 0 /\ 100 * (AtLeast(e, x) + 1) <= percent * (n + 1)
  BY DEF Significant
<1>3. /\ place \in Nat /\ place = 100 * (n - 1) - percent * (n - 1)
      /\ percent * (n + 1) = percent * (n - 1) + 2 * percent
      /\ percent * (n - 1) \in Nat
  <2>1. n - 1 \in Nat /\ percent \in 1..99
    BY <1>1, <1>2
  <2> HIDE DEF n
  <2>2. place = 100 * (n - 1) - percent * (n - 1) /\ percent * (n - 1) <= 99 * (n - 1)
        /\ percent * (n - 1) \in Nat
    BY <2>1, ShareOf
  <2>3. percent * (n + 1) = percent * (n - 1) + 2 * percent
    <3>1. n \in Int /\ percent \in Int
      BY <1>1, <2>1
    <3> HIDE <1>1
    <3>2. QED
      BY <3>1
  <2>4. QED
    BY <2>1, <2>2, <2>3
<1>4. QuantileTimes100(e, percent) = 100 * below + part * (above - below)
  BY DEF QuantileTimes100
<1>5. lo \in Nat /\ part \in 0..99 /\ place = 100 * lo + part
  <2> HIDE DEF place
  <2> QED BY <1>3
<1> HIDE DEF n, place, lo, part, under
<1>6. 100 * under >= place + 100
  BY <1>1, <1>2, <1>3
<1>7. lo + 1 <= under /\ (part > 0 => lo + 2 <= under) /\ under <= n
  BY <1>1, <1>5, <1>6
<1>8. below \in Nat /\ x \in Nat /\ below < x
  BY <1>1, <1>5, <1>7, ReachesRank DEF n, under
<1>9. next = IF lo + 2 <= n THEN lo + 2 ELSE n
  BY <1>1, <1>5, MinOfTwo
<1>10. above \in Nat
  <2>1. next \in Nat /\ next > 0 /\ next <= n
    BY <1>1, <1>2, <1>5, <1>9
  <2> HIDE DEF next
  <2>2. above \in Scores
    BY <2>1, RankedIs DEF n
  <2>3. QED
    BY <2>2, ScoresAssumption
<1>11. part > 0 => above < x
  <2> SUFFICES ASSUME part > 0 PROVE above < x
    OBVIOUS
  <2>1. next = lo + 2 /\ lo + 2 <= under /\ lo + 2 <= n
    BY <1>1, <1>5, <1>7, <1>9
  <2>2. QED
    BY <2>1, <1>5, ReachesRank DEF n, under
<1> HIDE DEF below, above
<1>12. 100 * x >= 100 * below + part * (above - below)
  <2>1. CASE part = 0
    BY <2>1, <1>8, <1>10
  <2>2. CASE part > 0
    <3>1. x - below \in Nat /\ x - above \in Nat /\ 100 - part \in Nat
      BY <2>2, <1>5, <1>8, <1>10, <1>11
    <3>2. part * (x - above) \in Nat /\ (100 - part) * (x - below) \in Nat
      BY <3>1, <1>5
    <3>3. 100 * x - (100 * below + part * (above - below))
             = part * (x - above) + (100 - part) * (x - below)
      BY <1>5, <1>8, <1>10
    <3>4. 100 * x \in Int /\ 100 * below + part * (above - below) \in Int
      BY <1>5, <1>8, <1>10
    <3>5. QED
      BY <3>2, <3>3, <3>4
  <2>3. QED
    BY <2>1, <2>2, <1>5
<1>13. QED
  BY <1>4, <1>12 DEF ReachesQuantile

\* One more score is an ensemble again.
LEMMA EnsembleGrows ==
    /\ IsEnsemble(Empty)
    /\ \A e, x : IsEnsemble(e) /\ x \in Scores => IsEnsemble(With(e, x))
BY DEF IsEnsemble, Empty, With

-----------------------------------------------------------------------------
(* Of the threshold of the sensitivity calibration and of the gate.        *)

\* The threshold is that of the null ensemble, which no later step changes.
ThresholdInv ==
    /\ alpha \in 1..99
    /\ IsEnsemble(null)
    /\ stage \in {"threshold", "fresh", "complete"} => critical = OrderStatistic(null, alpha)

LEMMA ThresholdStarts == SensitivityInit => ThresholdInv
BY EnsembleGrows DEF SensitivityInit, ThresholdInv

LEMMA ThresholdKeeps ==
    ThresholdInv /\ (SensitivityNext \/ UNCHANGED sensitivity) => ThresholdInv'
<1> SUFFICES ASSUME ThresholdInv, SensitivityNext \/ UNCHANGED sensitivity
             PROVE  ThresholdInv'
  OBVIOUS
<1>1. CASE BeginSensitivity
  BY <1>1, SensitivityAssumption DEF BeginSensitivity, ThresholdInv
<1>2. CASE DrawDevelopment
  <2>1. /\ stage = "development" /\ UNCHANGED <<stage, alpha, critical>>
        /\ \/ null' = null
           \/ \E record \in Evaluations(Magnitudes) : null' = With(null, record.null)
    BY <1>2 DEF DrawDevelopment
  <2>2. IsEnsemble(null')
    BY <2>1, EnsembleGrows DEF Evaluations, ThresholdInv
  <2>3. QED
    BY <2>1, <2>2 DEF ThresholdInv
<1>3. CASE FreezeRule
  <2>1. critical' = OrderStatistic(null, alpha) /\ UNCHANGED <<null, alpha>>
    BY <1>3 DEF FreezeRule
  <2>2. QED
    BY <2>1 DEF ThresholdInv
<1>4. CASE BeginFresh \/ DrawFresh \/ ConcludeSensitivity \/ AbandonSensitivity
  <2>1. /\ UNCHANGED <<null, alpha, critical>>
        /\ stage' = "failed" \/ stage \in {"threshold", "fresh"}
    BY <1>4 DEF BeginFresh, DrawFresh, ConcludeSensitivity, AbandonSensitivity, Require
  <2>2. QED
    BY <2>1 DEF ThresholdInv
<1>5. CASE UNCHANGED sensitivity
  BY <1>5 DEF sensitivity, ThresholdInv
<1>6. QED
  BY <1>1, <1>2, <1>3, <1>4, <1>5 DEF SensitivityNext

LEMMA ThresholdDecides == ThresholdInv => ThresholdIsPlusOne
BY ThresholdAndPValue DEF ThresholdInv, ThresholdIsPlusOne

\* A calibration that runs has an ensemble of null scores.
CalibrationInv == "null" \in DOMAIN work /\ IsEnsemble(work.null)

LEMMA BeginsEmpty ==
    \A role, seed, count :
        LET w == Calibration(role, seed, count)
        IN  "null" \in DOMAIN w /\ w.null = Empty
BY DEF Calibration, Idle

LEMMA CalibrationStarts == GateInit => CalibrationInv
BY EnsembleGrows DEF GateInit, CalibrationInv, Idle

LEMMA CalibrationKeeps == CalibrationInv /\ (GateNext \/ UNCHANGED gate) => CalibrationInv'
<1> SUFFICES ASSUME CalibrationInv, GateNext \/ UNCHANGED gate PROVE CalibrationInv'
  OBVIOUS
<1>1. CASE DrawReplicate
  <2>1. PICK found \in Replicate : work' = [work EXCEPT !.null = With(@, found.null)]
    BY <1>1 DEF DrawReplicate
  <2>2. "null" \in DOMAIN work' /\ work'.null = With(work.null, found.null)
    BY <2>1 DEF CalibrationInv
  <2>3. QED
    BY <2>2, EnsembleGrows DEF CalibrationInv, Replicate
<1>2. CASE ValidateReplicate
  <2>1. "null" \in DOMAIN work' /\ work'.null = work.null
    BY <1>2 DEF ValidateReplicate, CalibrationInv
  <2>2. QED
    BY <2>1 DEF CalibrationInv
<1>3. CASE RunPhase0 \/ RunCampaign \/ UNCHANGED gate
  BY <1>3 DEF RunPhase0, RunCampaign, gate, CalibrationInv
<1>4. ASSUME \/ work' = Idle
             \/ \E role, seed, count : work' = Calibration(role, seed, count)
      PROVE  CalibrationInv'
  BY <1>4, BeginsEmpty, EnsembleGrows DEF CalibrationInv, Idle
<1>5. CASE BeginCalibration \/ ConcludeCalibration \/ AbandonCall
  BY <1>4, <1>5 DEF BeginCalibration, ConcludeCalibration, AbandonCall
<1>6. CASE BeginStudy \/ ConcludeCandidate
  <2>1. work' = Idle \/ \E count : work' = Candidate(count)
    BY <1>6 DEF BeginStudy, ConcludeCandidate
  <2>2. QED
    BY <1>4, <2>1 DEF Candidate
<1>7. QED
  BY <1>1, <1>2, <1>3, <1>5, <1>6 DEF GateNext

LEMMA DetectionsDecide ==
    ASSUME GateAlpha <= 50, CalibrationInv
    PROVE  DetectionsArePositives
<1>1. GateAlpha \in 1..50
  BY Phase0Assumption
<1>2. QED
  BY <1>1, SignificantReachesQuantile
  DEF CalibrationInv, DetectionsArePositives, Decision, Positive, Critical
-----------------------------------------------------------------------------
(* Of the seeds of the calibrations.                                       *)

\* Seeds are drawn by arithmetic on one base.  The two kinds of stream meet at a
\* magnitude of 296 cycles, from the hundredth null replicate on, and at two
\* magnitudes that are 269 apart, from the ninetieth replicate on: the hypothesis
\* of the theorem excludes both, for any number of replicates.
MagnitudesApart ==
    \A m, n \in Magnitudes : m < 99734 /\ m # 296 /\ n # m + 269

DevelopmentStreams ==
    UNION {SeedsOf(DevelopmentSeed(r), Magnitudes) : r \in Nat}
FreshStreams ==
    UNION {SeedsOf(FreshSeed(r), Magnitudes) : r \in Nat}

SensitivityInv ==
    /\ round \in Nat
    /\ levels \subseteq Magnitudes
    /\ streams = [development |-> streams.development, fresh |-> streams.fresh]
    /\ streams.development \subseteq DevelopmentStreams
    /\ streams.fresh \subseteq FreshStreams

\* The arithmetic: multiples of 100003 near the distance of the two kinds.
LEMMA NullNearPositive ==
    ASSUME NEW x \in Int, NEW n \in Int, 0 <= n, n < 99734, 100003 * x = 10000004 + n
    PROVE  n = 296
OBVIOUS

LEMMA PositiveNearNull ==
    ASSUME NEW x \in Int, NEW m \in Int, 0 <= m, m < 99734, 100003 * x = 7999998 - m
    PROVE  FALSE
OBVIOUS

LEMMA PositiveNearPositive ==
    ASSUME NEW x \in Int, NEW m \in Int, NEW n \in Int, 0 <= m, m < 99734, 0 <= n, n < 99734,
           100003 * x = 9000001 + n - m
    PROVE  n = m + 269
OBVIOUS

LEMMA SeedsApart ==
    ASSUME NEW r \in Int, NEW q \in Int, NEW m \in Int, NEW n \in Int,
           0 <= m, m < 99734, 0 <= n, n < 99734, n # 296, n # m + 269
    PROVE  /\ 100003 * (r + 1) # 9000001 + 100003 * q
           /\ 100003 * (r + 1) # 9000001 + 100003 * q + 1000003 + n
           /\ 100003 * (r + 1) + 1000003 + m # 9000001 + 100003 * q
           /\ 100003 * (r + 1) + 1000003 + m # 9000001 + 100003 * q + 1000003 + n
<1> DEFINE x == r + 1 - q
<1>1. x \in Int /\ 100003 * (r + 1) = 100003 * x + 100003 * q
  OBVIOUS
<1> HIDE DEF x
<1>2. 100003 * x # 9000001
  BY <1>1
<1>3. 100003 * x # 10000004 + n
  BY <1>1, NullNearPositive
<1>4. 100003 * x # 7999998 - m
  BY <1>1, PositiveNearNull
<1>5. 100003 * x # 9000001 + n - m
  BY <1>1, PositiveNearPositive
<1>6. QED
  BY <1>1, <1>2, <1>3, <1>4, <1>5

LEMMA StreamsApart ==
    ASSUME MagnitudesApart
    PROVE  DevelopmentStreams \cap FreshStreams = {}
<1>1. \A n \in Magnitudes : n \in Int /\ 0 <= n
  BY SensitivityAssumption
<1>2. 0 \in Magnitudes
  BY SensitivityAssumption
<1>3. \A m, n \in Magnitudes : m < 99734 /\ n # 296 /\ n # m + 269
  BY DEF MagnitudesApart
<1>4. ASSUME NEW r \in Nat, NEW q \in Nat, NEW m \in Magnitudes, NEW n \in Magnitudes
      PROVE  /\ DevelopmentSeed(r) # FreshSeed(q)
             /\ DevelopmentSeed(r) # PositiveSeed(FreshSeed(q), n)
             /\ PositiveSeed(DevelopmentSeed(r), m) # FreshSeed(q)
             /\ PositiveSeed(DevelopmentSeed(r), m) # PositiveSeed(FreshSeed(q), n)
  <2>1. /\ m \in Int /\ n \in Int /\ 0 <= m /\ m < 99734 /\ 0 <= n /\ n < 99734
        /\ n # 296 /\ n # m + 269 /\ r \in Int /\ q \in Int
    BY <1>1, <1>3
  <2>2. /\ 100003 * (r + 1) # 9000001 + 100003 * q
        /\ 100003 * (r + 1) # 9000001 + 100003 * q + 1000003 + n
        /\ 100003 * (r + 1) + 1000003 + m # 9000001 + 100003 * q
        /\ 100003 * (r + 1) + 1000003 + m # 9000001 + 100003 * q + 1000003 + n
    BY <2>1, SeedsApart
  <2>3. QED
    BY <2>2 DEF DevelopmentSeed, FreshSeed, PositiveSeed
<1>5. ASSUME NEW s \in DevelopmentStreams, s \in FreshStreams PROVE FALSE
  <2>1. PICK r \in Nat : \/ s = DevelopmentSeed(r)
                        \/ \E m \in Magnitudes : s = PositiveSeed(DevelopmentSeed(r), m)
    BY DEF DevelopmentStreams, SeedsOf
  <2>2. PICK q \in Nat : \/ s = FreshSeed(q)
                        \/ \E n \in Magnitudes : s = PositiveSeed(FreshSeed(q), n)
    BY <1>5 DEF FreshStreams, SeedsOf
  <2>3. QED
    BY <2>1, <2>2, <1>2, <1>4
<1>6. QED
  BY <1>5

LEMMA SeedsGrow ==
    ASSUME NEW S \in SUBSET Magnitudes, NEW r \in Nat
    PROVE  /\ SeedsOf(DevelopmentSeed(r), S) \subseteq DevelopmentStreams
           /\ SeedsOf(FreshSeed(r), S) \subseteq FreshStreams
BY DEF SeedsOf, DevelopmentStreams, FreshStreams
LEMMA ExtremesAre ==
    ASSUME NEW S, IsFiniteSet(S), S \subseteq Int, S # {}
    PROVE  Min(S) \in S /\ Max(S) \in S
BY ExtremesExist DEF Extremes, Min, Max

LEMMA SensitivityStarts == SensitivityInit => SensitivityInv
BY DEF SensitivityInit, SensitivityInv

LEMMA FreezeKeeps == SensitivityInv /\ FreezeRule => levels' \subseteq Magnitudes
<1> SUFFICES ASSUME SensitivityInv, FreezeRule PROVE levels' \subseteq Magnitudes
  OBVIOUS
<1> DEFINE able == {m \in Magnitudes : Qualifies(m)}
           best == IF able = {} THEN 0 ELSE Min(able)
<1>1. levels' = {0, best, Max(Magnitudes)}
  BY DEF FreezeRule
<1>2. IsFiniteSet(able) /\ able \subseteq Magnitudes
  BY SensitivityAssumption, FS_Subset
<1> HIDE DEF able
<1>3. /\ 0 \in Magnitudes /\ Max(Magnitudes) \in Magnitudes
      /\ able # {} => Min(able) \in able
  <2>1. /\ IsFiniteSet(Magnitudes) /\ Magnitudes \subseteq Int /\ 0 \in Magnitudes
        /\ able \subseteq Int
    BY <1>2, SensitivityAssumption
  <2>2. QED
    BY <1>2, <2>1, ExtremesAre
<1>4. QED
  BY <1>1, <1>2, <1>3

\* Every seed drawn is one of its kind: the development rounds draw every
\* magnitude, the fresh ones the levels that the frozen rule names.
LEMMA SensitivityKeeps ==
    SensitivityInv /\ (SensitivityNext \/ UNCHANGED sensitivity) => SensitivityInv'
<1> SUFFICES ASSUME SensitivityInv, SensitivityNext \/ UNCHANGED sensitivity
             PROVE  SensitivityInv'
  OBVIOUS
<1>1. CASE DrawDevelopment
  <2> DEFINE S == IF round < DevReplicates THEN Magnitudes ELSE {}
  <2>1. /\ round' = round + 1 /\ UNCHANGED levels
        /\ streams' = [streams EXCEPT !.development = @ \cup SeedsOf(DevelopmentSeed(round), S)]
    BY <1>1 DEF DrawDevelopment
  <2>2. S \in SUBSET Magnitudes
    OBVIOUS
  <2> HIDE DEF S
  <2>3. SeedsOf(DevelopmentSeed(round), S) \subseteq DevelopmentStreams
    BY <2>2, SeedsGrow DEF SensitivityInv
  <2>4. QED
    BY <2>1, <2>3 DEF SensitivityInv
<1>2. CASE DrawFresh
  <2>1. /\ round' = round + 1 /\ UNCHANGED levels
        /\ streams' = [streams EXCEPT !.fresh = @ \cup SeedsOf(FreshSeed(round), levels)]
    BY <1>2 DEF DrawFresh
  <2>2. SeedsOf(FreshSeed(round), levels) \subseteq FreshStreams
    BY SeedsGrow DEF SensitivityInv
  <2> DEFINE entering == SeedsOf(FreshSeed(round), levels)
  <2>3. streams' = [development |-> streams.development, fresh |-> streams.fresh \cup entering]
    BY <2>1 DEF SensitivityInv
  <2>4. round' \in Nat /\ levels' \subseteq Magnitudes
    BY <2>1 DEF SensitivityInv
  <2> HIDE DEF entering
  <2>5. /\ streams'.development \subseteq DevelopmentStreams
        /\ streams'.fresh \subseteq FreshStreams
        /\ streams' = [development |-> streams'.development, fresh |-> streams'.fresh]
    BY <2>2, <2>3 DEF SensitivityInv, entering
  <2>6. QED
    BY <2>4, <2>5 DEF SensitivityInv
<1>3. CASE FreezeRule
  BY <1>3, FreezeKeeps DEF FreezeRule, SensitivityInv
<1>4. CASE BeginSensitivity \/ BeginFresh \/ ConcludeSensitivity \/ AbandonSensitivity
  BY <1>4 DEF BeginSensitivity, BeginFresh, ConcludeSensitivity, AbandonSensitivity,
              SensitivityInv
<1>5. CASE UNCHANGED sensitivity
  BY <1>5 DEF sensitivity, SensitivityInv
<1>6. QED
  BY <1>1, <1>2, <1>3, <1>4, <1>5 DEF SensitivityNext
-----------------------------------------------------------------------------
(* Of the seeds of the gate.                                               *)

\* The configured seed is that of the calibration itself, and a candidate of a
\* power study has one of its own: the role of the calibration that runs says
\* which seed its streams are drawn from.
Bundled(w) ==
    \/ w.role = "none"
    \/ w.role = FinalRole /\ w.seed = 0
    \/ w.role = CandidateRole /\ w.seed \in Nat /\ w.seed > 0

GateInv ==
    /\ Bundled(work)
    /\ \A s \in drawn.fresh : s[1] = 0 /\ s[2] = "gate-validation"
    /\ \A s \in drawn.development : s[2] = "calibration"
    /\ \A s \in drawn.candidate : s[1] > 0
    /\ DOMAIN drawn = {"development", "candidate", "fresh"}

\* Another candidate is another multiple of 1000003, and none is zero.
LEMMA CandidatesBundled == \A count : Bundled(Candidate(count))
<1> SUFFICES ASSUME NEW count PROVE Bundled(Candidate(count))
  OBVIOUS
<1>1. Cardinality({c \in SampleCounts : c < count}) \in Nat
  BY Phase0Assumption, FS_Subset, FS_CardinalityType
<1>2. CandidateSeed(count) \in Nat /\ CandidateSeed(count) > 0
  BY <1>1 DEF CandidateSeed
<1>3. /\ Candidate(count).role = CandidateRole
      /\ Candidate(count).seed = CandidateSeed(count)
  BY DEF Candidate, Calibration, Idle
<1>4. QED
  BY <1>2, <1>3 DEF Bundled

LEMMA IdleBundled == Bundled(Idle) /\ Bundled(Calibration(FinalRole, 0, 0))
BY DEF Idle, Calibration, Bundled

\* A stream enters the ensemble of its name, or the candidates'.
LEMMA DrawsBundled ==
    ASSUME GateInv, work.role # "none", NEW ensemble \in {"calibration", "gate-validation"},
           NEW replicate, Draws(ensemble, replicate), Bundled(work')
    PROVE  GateInv'
<1> DEFINE stream == Stream(work.seed, ensemble, replicate)
           entered == IF work.role = CandidateRole THEN "candidate"
                      ELSE IF ensemble = "calibration" THEN "development" ELSE "fresh"
<1>1. drawn' = [drawn EXCEPT ![entered] = @ \cup {stream}]
  BY DEF Draws
<1>2. stream[1] = work.seed /\ stream[2] = ensemble
  BY DEF Stream
<1>3. /\ entered = "candidate" => stream[1] > 0
      /\ entered = "development" => stream[2] = "calibration"
      /\ entered = "fresh" => stream[1] = 0 /\ stream[2] = "gate-validation"
      /\ entered \in {"candidate", "development", "fresh"}
  BY <1>2 DEF GateInv, Bundled, FinalRole, CandidateRole
<1> HIDE DEF stream, entered
<1>4. /\ DOMAIN drawn' = DOMAIN drawn
      /\ \A part \in {"candidate", "development", "fresh"} :
            drawn'[part] = IF part = entered THEN drawn[part] \cup {stream} ELSE drawn[part]
  BY <1>1, <1>3 DEF GateInv
<1>5. /\ \A s \in drawn'.fresh : s[1] = 0 /\ s[2] = "gate-validation"
      /\ \A s \in drawn'.development : s[2] = "calibration"
      /\ \A s \in drawn'.candidate : s[1] > 0
  BY <1>3, <1>4 DEF GateInv
<1>6. QED
  BY <1>4, <1>5 DEF GateInv

LEMMA GateStarts == GateInit => GateInv
BY IdleBundled DEF GateInit, GateInv

LEMMA GateKeeps == GateInv /\ (GateNext \/ UNCHANGED gate) => GateInv'
<1> SUFFICES ASSUME GateInv, GateNext \/ UNCHANGED gate PROVE GateInv'
  OBVIOUS
<1>1. CASE DrawReplicate
  <2>1. PICK found \in Replicate : work' = [work EXCEPT !.null = With(@, found.null)]
    BY <1>1 DEF DrawReplicate
  <2>2. work'.role = work.role /\ work'.seed = work.seed
    BY <2>1
  <2>3. Bundled(work')
    BY <2>2 DEF GateInv, Bundled
  <2>4. QED
    BY <1>1, <2>3, DrawsBundled DEF DrawReplicate
<1>2. CASE ValidateReplicate
  <2>1. work'.role = work.role /\ work'.seed = work.seed
    BY <1>2 DEF ValidateReplicate
  <2>2. Bundled(work')
    BY <2>1 DEF GateInv, Bundled
  <2>3. QED
    BY <1>2, <2>2, DrawsBundled DEF ValidateReplicate
<1>3. ASSUME UNCHANGED drawn, Bundled(work')
      PROVE  GateInv'
  BY <1>3 DEF GateInv
<1>4. CASE RunPhase0 \/ RunCampaign \/ UNCHANGED gate
  <2>1. UNCHANGED <<work, drawn>>
    BY <1>4 DEF RunPhase0, RunCampaign, gate
  <2>2. QED
    BY <1>3, <2>1 DEF GateInv
<1>5. CASE BeginCalibration \/ ConcludeCalibration \/ AbandonCall
  BY <1>3, <1>5, IdleBundled DEF BeginCalibration, ConcludeCalibration, AbandonCall
<1>6. CASE BeginStudy \/ ConcludeCandidate
  <2>1. UNCHANGED drawn /\ (work' = Idle \/ \E count : work' = Candidate(count))
    BY <1>6 DEF BeginStudy, ConcludeCandidate
  <2>2. QED
    BY <1>3, <2>1, IdleBundled, CandidatesBundled
<1>7. QED
  BY <1>1, <1>2, <1>4, <1>5, <1>6 DEF GateNext

\* A report is validated on streams that no calibration and no candidate drew.
LEMMA GateStreamsApart ==
    GateInv => drawn.fresh \cap (drawn.development \cup drawn.candidate) = {}
<1> SUFFICES ASSUME GateInv, NEW s \in drawn.fresh,
                    s \in drawn.development \/ s \in drawn.candidate
             PROVE  FALSE
  OBVIOUS
<1>1. s[1] = 0 /\ s[2] = "gate-validation"
  BY DEF GateInv
<1>2. s[2] = "calibration" \/ s[1] > 0
  BY DEF GateInv
<1>3. QED
  BY <1>1, <1>2
-----------------------------------------------------------------------------
(* Of the studies.                                                         *)

StudiesInv ==
    /\ SensitivityInv /\ ThresholdInv
    /\ GateInv /\ CalibrationInv
    /\ HeldOutInv /\ StoreInv

LEMMA StudiesKept == Spec => []StudiesInv
<1>1. Init => StudiesInv
  BY SensitivityStarts, ThresholdStarts, GateStarts, CalibrationStarts, HeldOutStarts, StoreStarts
  DEF Init, StudiesInv
<1>2. StudiesInv /\ [Next]_studies => StudiesInv'
  <2> SUFFICES ASSUME StudiesInv, [Next]_studies PROVE StudiesInv'
    OBVIOUS
  <2>1. /\ SensitivityNext \/ UNCHANGED sensitivity
        /\ GateNext \/ UNCHANGED gate
        /\ HeldOutNext \/ UNCHANGED heldOut
        /\ StoreNext \/ UNCHANGED store
    BY DEF Next, studies
  <2>2. QED
    BY <2>1, SensitivityKeeps, ThresholdKeeps, GateKeeps, CalibrationKeeps, HeldOutKeeps, StoreKeeps
    DEF StudiesInv
<1>3. QED
  BY <1>1, <1>2, PTL DEF Spec

\* What was scored never reached what was fitted: a score over test rows, or
\* over the sessions that confirm, has in it no row that entered the fit or
\* the choice of the model, for every split, session set and metadata
\* (latent_system_state.py, controlled_forecast.py, horizon.py, splits.py).
THEOREM StudiesHeldOutStaysOut == Spec => []HeldOutStaysOut
<1>1. StudiesInv => HeldOutStaysOut
  BY DEF StudiesInv, HeldOutInv
<1>2. QED
  BY <1>1, StudiesKept, PTL

\* The features of a row end at its origin and its target begins after it, and
\* a witness that arrived late is in none, for every length of history, lead
\* and block.
THEOREM StudiesFeaturesEndAtOrigin == Spec => []FeaturesEndAtOrigin
<1>1. StudiesInv => FeaturesEndAtOrigin
  BY DEF StudiesInv, HeldOutInv
<1>2. QED
  BY <1>1, StudiesKept, PTL

\* What a reader loads is one analysis: the report and the splits of the
\* invocation whose manifest it read, whatever other writers did between its
\* reads, for any number of them (horizon.py:1633, horizon.py:1700).
THEOREM StudiesLoadAsOneAnalysis == Spec => []LoadsAsOneAnalysis
<1>1. StudiesInv => LoadsAsOneAnalysis
  BY StoreLoads DEF StudiesInv
<1>2. QED
  BY <1>1, StudiesKept, PTL

\* Neither calibration validates on what it was developed on, for any numbers
\* of replicates, and for magnitudes that the arithmetic of the seeds keeps
\* apart (calibration.py).
THEOREM StudiesFreshStreamsAreNew ==
    ASSUME MagnitudesApart
    PROVE  Spec => []FreshStreamsAreNew
<1>1. StudiesInv => FreshStreamsAreNew
  BY StreamsApart, GateStreamsApart DEF StudiesInv, SensitivityInv, FreshStreamsAreNew
<1>2. QED
  BY <1>1, StudiesKept, PTL

\* The frozen threshold decides as the plus-one p-value does: for any ensemble
\* with any ties, any alpha it is large enough for and any score, the score
\* exceeds the threshold exactly when its p-value is at most alpha
\* (calibration.py, _empirical_null_threshold and empirical_p_value).
THEOREM StudiesThresholdIsPlusOne == Spec => []ThresholdIsPlusOne
<1>1. StudiesInv => ThresholdIsPlusOne
  BY ThresholdDecides DEF StudiesInv
<1>2. QED
  BY <1>1, StudiesKept, PTL

\* A detection by the p-value is a positive by the interpolated quantile, for any
\* number of modes and replicates and any alpha of at most one half: with a
\* greater one a score may be significant and lie below the interpolation
\* between two scores far apart (calibration.py, run_phase0_calibration).
THEOREM StudiesDetectionsArePositives ==
    ASSUME GateAlpha <= 50
    PROVE  Spec => []DetectionsArePositives
<1>1. StudiesInv => DetectionsArePositives
  BY DetectionsDecide DEF StudiesInv
<1>2. QED
  BY <1>1, StudiesKept, PTL

=============================================================================
