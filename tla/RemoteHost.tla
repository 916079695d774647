------------------------------ MODULE RemoteHost ------------------------------
(***************************************************************************)
(* The controller's campaigns over reboots (host/client.py) on top of its  *)
(* deployments: reboot_acceptance, and characterize_multiboot with the     *)
(* decision of multiboot.combine_multiboot_reports.  A campaign can be     *)
(* interrupted anywhere and resumed from its manifest.                     *)
(***************************************************************************)
EXTENDS Deployment

CONSTANT Cycles    \* reboots of an acceptance, boots of a campaign

ASSUME CyclesAssumption == Cycles \in Nat \ {0}

VARIABLES
    appliance,  \* --require-appliance
    accepted,   \* acceptance: boots that were verified
    label,      \* the boot id read last, on which the operation continues
    fetched,    \* campaign: metrics.json per local boot directory
    manifest,   \* campaign: the manifest on the controller's disk
    outcome,    \* campaign: the combined decision
    silent      \* the command in flight will not be answered, and has no timeout

campaign == <<appliance, accepted, label, fetched, manifest, outcome>>
vars == <<worker, control, campaign, lastLive, silent>>

NoMetrics == [boot |-> 0, known |-> FALSE, config |-> "none"]
\* What a report says of the observable: its null is stable or not, or the
\* directional contrast failed.
Qualities == {"stable", "unstable", "contrary"}

Init ==
    /\ WorkerInit /\ DeployInit
    /\ appliance = FALSE /\ accepted = <<>> /\ label = 0
    /\ fetched = [i \in 1..Cycles |-> NoMetrics]
    /\ manifest = <<>> /\ outcome = "none" /\ silent = FALSE

Seen == {manifest[i].label : i \in DOMAIN manifest}
Running(name, point) == op = name /\ pc = point
Step(point) == pc' = point /\ UNCHANGED <<op, calls, existing, scope, reset>>

\* reboot(): a transient timer, five seconds away.
RequestReboot ==
    /\ sudo /\ due' = TRUE
    /\ UNCHANGED <<boot, sudo, sys, user, enabled, default, profile, conf, remote>>

TimerFires == due /\ Boot /\ UNCHANGED <<control, campaign>>

AnyVerified ==   \* mutant: any verified answer will do
    Verified(label, appliance) \/ Verified(0, appliance)

\* A fresh connection finds a verified worker on another boot.
Fresh == Verified(label, appliance)

-----------------------------------------------------------------------------
(* reboot_acceptance                                                       *)

BeginAcceptance ==
    /\ Begin("acceptance") /\ pc' = "reboot"
    /\ accepted' = <<boot>> /\ appliance' \in BOOLEAN
    /\ UNCHANGED <<worker, existing, scope, reset, label, fetched, manifest,
                   outcome>>

AcceptanceReboots ==
    /\ Running("acceptance", "reboot")
    /\ label' = boot /\ RequestReboot /\ Step("poll")
    /\ UNCHANGED <<appliance, accepted, fetched, manifest, outcome>>

CycleAccepted ==
    /\ Running("acceptance", "poll") /\ Fresh
    /\ accepted' = Append(accepted, boot)
    /\ IF Len(accepted) = Cycles THEN Ends ELSE Step("reboot")
    /\ UNCHANGED <<worker, appliance, label, fetched, manifest, outcome>>

-----------------------------------------------------------------------------
(* characterize_multiboot                                                  *)

\* A campaign starts without a manifest or resumes one of the same config.
BeginCampaign ==
    /\ Begin("campaign")
    /\ remote' = "frozen" /\ appliance' = FALSE
    /\ pc' = IF Len(manifest) = Cycles THEN "combine" ELSE "label"
    /\ UNCHANGED <<boot, due, sudo, sys, user, enabled, default, profile, conf,
                   existing, scope, reset, accepted, label, fetched, manifest,
                   outcome>>

ReadBoot ==
    /\ Running("campaign", "label")
    /\ label' = boot
    /\ IF boot \in Seen THEN Ends ELSE Step("measure")
    /\ UNCHANGED <<worker, appliance, accepted, fetched, manifest, outcome>>

\* The remote characterization runs on the boot it meets, with the config that
\* lies there, and its metrics are fetched.  It may not know its boot id.
Characterize ==
    /\ Running("campaign", "measure") /\ Step("enter")
    /\ \E known \in BOOLEAN :
           fetched' = [fetched EXCEPT ![Len(manifest) + 1] =
               [boot |-> boot, known |-> known, config |-> remote]]
    /\ UNCHANGED <<worker, appliance, accepted, label, manifest, outcome>>

Entry == [label |-> label]

\* The metrics must name the labelled boot, if they name one; then the manifest
\* is written.
EnterBoot ==
    /\ Running("campaign", "enter")
    /\ LET metrics == fetched[Len(manifest) + 1]
       IN  IF metrics.known /\ metrics.boot # label
           THEN Ends /\ UNCHANGED manifest
           ELSE /\ manifest' = Append(manifest, Entry)
                /\ Step(IF Len(manifest') = Cycles THEN "combine" ELSE "reboot")
    /\ UNCHANGED <<worker, appliance, accepted, label, fetched, outcome>>

CampaignReboots ==
    /\ Running("campaign", "reboot")
    /\ RequestReboot /\ Step("poll")
    /\ UNCHANGED <<appliance, accepted, label, fetched, manifest, outcome>>

NextBootFound ==
    /\ Running("campaign", "poll") /\ Fresh
    /\ IF boot \in Seen THEN Ends ELSE Step("label")
    /\ UNCHANGED <<worker, campaign>>

AgreesWithOthers(report) ==   \* mutant: reports need only agree with each other
    report.known /\ report.config = fetched[1].config

\* combine_multiboot_reports; one report's hash stands for its whole protocol.
Compliant(report) == report.known /\ report.config = "frozen"

DistinctBoots == Cardinality({fetched[i].boot : i \in 1..Cycles}) = Cycles

Decision(quality) ==
    IF \/ \E i \in 1..Cycles : ~Compliant(fetched[i]) \/ quality[i] = "contrary"
       \/ ~DistinctBoots
    THEN "C"
    ELSE IF \E i \in 1..Cycles : quality[i] = "unstable" THEN "B" ELSE "A"

Combine ==
    /\ Running("campaign", "combine")
    /\ outcome' \in {Decision(q) : q \in [1..Cycles -> Qualities]} /\ Ends
    /\ UNCHANGED <<worker, appliance, accepted, label, fetched, manifest>>

-----------------------------------------------------------------------------

NoDeadline ==   \* mutant: a poll is only left by an answer
    /\ op \in {"acceptance", "campaign"} /\ pc # "poll" /\ Ends
    /\ UNCHANGED <<worker, campaign>>

\* Every poll has a deadline, which passes as long as its commands return; a
\* command fails or the operator interrupts.
GivesUp ==
    /\ op \in {"acceptance", "campaign"} /\ Ends
    /\ UNCHANGED <<worker, campaign>>

Deployments ==
    /\ Deploy \/ CommandFails \/ ServiceAction \/ AuthorizeSudo \/ SetHeadless \/ IsolateTarget
       \/ SetDefault
    /\ UNCHANGED campaign

Acceptance == BeginAcceptance \/ AcceptanceReboots \/ CycleAccepted

Campaign ==
    \/ BeginCampaign \/ ReadBoot \/ Characterize \/ EnterBoot
    \/ CampaignReboots \/ NextBootFound \/ Combine

External == WorkerNext /\ UNCHANGED <<control, campaign>>

\* What the controller does, while the commands it waits for come back.
Answered ==
    /\ ~silent /\ UNCHANGED silent
    /\ Deployments \/ Acceptance \/ Campaign \/ GivesUp

\* A worker that goes down under a command, power lost, may leave the connection
\* half open: no command has a timeout, and no deadline is looked at within one.
Unanswered ==
    /\ TimerFires \/ External
    /\ silent' \in {silent} \cup (IF boot' # boot /\ op # "none" THEN {TRUE} ELSE {})

\* Then only the operator ends the operation, if ever.
Interrupted ==
    /\ silent /\ silent' = FALSE
    /\ Ends /\ UNCHANGED <<worker, campaign>>

Next == (Answered \/ Unanswered \/ Interrupted) /\ Remember

\* The controller does not stop inside an operation: a command that is answered or
\* fails lets it go on, or its deadline passes.
Spec ==
    /\ Init /\ [][Next]_vars
    /\ WF_vars(op # "none" /\ Answered /\ Remember)

-----------------------------------------------------------------------------

\* An accepted reboot cycle is a boot of its own: an answer of the machine
\* before it went down, or of a boot already counted, is never taken for the
\* new one (host/client.py:534).
AcceptedBootsDiffer ==
    \A i, j \in DOMAIN accepted : i < j => accepted[i] < accepted[j]

\* A combined outcome that claims an observable rests on one report per boot:
\* each was measured on the boot its manifest entry names, no two on the same,
\* all under the frozen protocol; through interruptions, resumes, reboots nobody
\* asked for and another controller's uploads (host/client.py:1066).
ClaimRestsOnDistinctBoots ==
    outcome \in {"A", "B"} =>
        \A i \in 1..Cycles :
            /\ fetched[i].boot = manifest[i].label
            /\ fetched[i].config = "frozen"
            /\ \A j \in 1..Cycles : i # j => manifest[i].label # manifest[j].label

\* No operation of the controller waits for ever, but for one whose command was in
\* flight when the worker went down (host/client.py:564, host/client.py:51).
OperationsEnd == op # "none" ~> (op = "none" \/ silent)

=============================================================================
