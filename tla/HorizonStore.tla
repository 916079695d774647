----------------------------- MODULE HorizonStore -----------------------------
(***************************************************************************)
(* write_horizon_run and load_horizon_run of horizon.py.  Writers share an *)
(* output directory; each artifact is looked up first and written in place *)
(* when it is absent, with no lock between them.                           *)
(***************************************************************************)
EXTENDS Integers, FiniteSets, Sequences

CONSTANTS
    Writers,     \* invocations over one output directory
    Reports,     \* the reports they may persist
    SplitsOf     \* the splits of each report; several may have the same

VARIABLES
    artifacts,   \* content of each file on disk
    writer,      \* where each invocation is, and what it persists
    reading,     \* what load_horizon_run has read so far
    loaded       \* what it has returned

store == <<artifacts, writer, reading, loaded>>
reader == <<reading, loaded>>

Order == <<"manifest", "splits", "results">>
Absent == [state |-> "absent"]
Torn == [state |-> "torn"]

Artifacts == {Order[i] : i \in 1..3}
NothingRead == <<>>

StoreInit ==
    /\ artifacts = [f \in Artifacts |-> Absent]
    /\ writer = [w \in Writers |-> [at |-> "idle", step |-> 0, report |-> {}]]
    /\ reading = NothingRead /\ loaded = {}

Working(w, point) == writer[w].at = point
Move(w, point, step) == writer' = [writer EXCEPT ![w] = [@ EXCEPT !.at = point, !.step = step]]

\* A manifest carries the time of its invocation, so no two are equal; it names
\* the hashes of the report and of the splits.
Content(w, file) ==
    LET report == writer[w].report
    IN  CASE file = "manifest" -> [by |-> w, report |-> report]
          [] file = "splits" -> [splits |-> SplitsOf[report]]
          [] file = "results" -> [report |-> report]

BeginWrite(w) ==
    /\ Working(w, "idle") /\ writer[w].step = 0
    /\ \E report \in Reports :
        writer' = [writer EXCEPT ![w] = [at |-> "check", step |-> 1, report |-> report]]
    /\ UNCHANGED <<artifacts, reader>>

File(w) == Order[writer[w].step]

Advance(w) ==
    IF writer[w].step = 3 THEN Move(w, "done", 3) ELSE Move(w, "check", writer[w].step + 1)

\* _immutable_json: an equal artifact is left, a different or unreadable one raises.
CheckArtifact(w) ==
    /\ Working(w, "check")
    /\ CASE artifacts[File(w)] = Absent -> Move(w, "write", writer[w].step)
         [] artifacts[File(w)] = Content(w, File(w)) -> Advance(w)
         [] OTHER -> Move(w, "raised", writer[w].step)
    /\ UNCHANGED <<artifacts, reader>>

\* path.write_text empties the file before its text arrives.
OpenArtifact(w) ==
    /\ Working(w, "write")
    /\ artifacts' = [artifacts EXCEPT ![File(w)] = Torn]
    /\ Move(w, "flush", writer[w].step)
    /\ UNCHANGED reader

FlushArtifact(w) ==
    /\ Working(w, "flush")
    /\ artifacts' = [artifacts EXCEPT ![File(w)] = Content(w, File(w))]
    /\ Advance(w)
    /\ UNCHANGED reader

Die(w) ==
    /\ writer[w].at \in {"check", "write", "flush"}
    /\ Move(w, "dead", writer[w].step)
    /\ UNCHANGED <<artifacts, reader>>

\* load_horizon_run reads the manifest, the report and the splits one after
\* another while invocations write; a file that is absent or torn raises.
ReadOrder == <<"manifest", "results", "splits">>
Parses(file) == artifacts[file] \notin {Absent, Torn}

Having(file) ==
    [f \in DOMAIN reading \cup {file} |-> IF f = file THEN artifacts[file] ELSE reading[f]]

ReadArtifact ==
    /\ Cardinality(DOMAIN reading) < 3
    /\ LET file == ReadOrder[Cardinality(DOMAIN reading) + 1]
       IN  reading' = IF Parses(file) THEN Having(file) ELSE NothingRead
    /\ UNCHANGED <<artifacts, writer, loaded>>

HashesUnchecked(run) == TRUE
HashesMatch(run) ==
    /\ run.results.report = run.manifest.report
    /\ run.splits.splits = SplitsOf[run.manifest.report]

LoadRun ==
    /\ DOMAIN reading = Artifacts
    /\ loaded' = IF HashesMatch(reading) THEN loaded \cup {reading} ELSE loaded
    /\ reading' = NothingRead
    /\ UNCHANGED <<artifacts, writer>>

StoreNext ==
    \/ \E w \in Writers :
        \/ BeginWrite(w)
        \/ CheckArtifact(w)
        \/ OpenArtifact(w)
        \/ FlushArtifact(w)
        \/ Die(w)
    \/ ReadArtifact
    \/ LoadRun

----------------------------------------------------------------------------

\* What loads is the report and the splits of one analysis, the one whose
\* invocation wrote the manifest, wherever between the writes of two
\* invocations that interleave, or die, the three files are read.
LoadsAsOneAnalysis ==
    \A run \in loaded :
        LET report == writer[run.manifest.by].report
        IN  run.results.report = report /\ run.splits.splits = SplitsOf[report]

=============================================================================
