--------------------------- MODULE RemoteHostProofs ---------------------------
(***************************************************************************)
(* The controller and one worker, for any number of calls, boots, cycles   *)
(* and boots of a campaign: one scope, accepted boots that differ, and     *)
(* claims that rest on one report per boot.                                *)
(***************************************************************************)
EXTENDS RemoteHost, TLAPS

\* The actions of the controller and the worker, whether answers come or not.
LEMMA NextIs ==
    [Next]_vars =>
        \/ Deployments \/ Acceptance \/ Campaign \/ GivesUp
        \/ TimerFires \/ External \/ Interrupted
        \/ UNCHANGED vars
BY DEF Next, Answered, Unanswered

-----------------------------------------------------------------------------
(* One scope.                                                              *)

\* While a deployment works on the user scope there is no system unit, and
\* once it has checked the retired fallback there is no user unit.
ScopeInv ==
    /\ enabled \in BOOLEAN
    /\ sys # "absent" => ~UserPresent
    /\ scope = "user" => sys = "absent"
    /\ op = "deploy" => scope \in {"system", "user"}
    /\ op = "deploy" /\ pc \in {"userconf", "userunit"} => scope = "user"
    /\ op = "deploy" /\ pc \in {"copy", "retire", "check", "preserve", "install",
                                "verify"} => scope = "system"
    /\ op = "deploy" /\ pc \in {"preserve", "install", "verify"} => ~UserPresent

LEMMA InitScope == Init => ScopeInv
BY DEF Init, WorkerInit, DeployInit, ScopeInv, UserPresent

\* The worker by itself gains no unit: a boot starts those that are enabled.
LEMMA WorkerKeepsScope ==
    ASSUME ScopeInv, WorkerNext, UNCHANGED control PROVE ScopeInv'
<1>1. CASE Boot
    BY <1>1 DEF Boot, control, ScopeInv, UserPresent
<1>2. CASE SudoExpires
    BY <1>2 DEF SudoExpires, control, ScopeInv, UserPresent
<1>3. CASE OtherUpload
    BY <1>3 DEF OtherUpload, control, ScopeInv, UserPresent
<1> QED BY <1>1, <1>2, <1>3 DEF WorkerNext

\* A unit that may have been disabled is enabled only if it was.
LEMMA MayBeDisabled ==
    ASSUME NEW was \in BOOLEAN, NEW is \in {was, FALSE}
    PROVE  is \in BOOLEAN /\ (is => was)
<1>1. is = was \/ is = FALSE
    BY Zenon
<1>2. CASE is = was
    BY <1>2, Zenon
<1>3. CASE is = FALSE
    BY <1>3
<1> QED BY <1>1, <1>2, <1>3

\* A deployment installs a unit only in the scope it chose, and only when it
\* has seen the other scope retired.
LEMMA DeployKeepsScope ==
    ASSUME ScopeInv, Deploy PROVE ScopeInv'
<1> USE DEF ScopeInv, UserPresent, At, To, worker
<1>1. CASE Bootstrap
    BY <1>1 DEF Bootstrap, Begin, Refused, Mode, SystemPresent
<1>2. CASE StopService
    BY <1>2 DEF StopService, Stopped
<1>3. CASE UploadSource
    BY <1>3 DEF UploadSource
<1>4. CASE CopySystem
    BY <1>4 DEF CopySystem
<1>5. CASE RetireFallback
    <2>1. user' \in {user, "stopped"} BY <1>5 DEF RetireFallback, Stopped
    <2>2. At("retire") /\ To("check") /\ UNCHANGED sys BY <1>5 DEF RetireFallback
    <2>3. enabled' \in BOOLEAN /\ (enabled' => enabled)
        <3>1. enabled' \in {enabled, FALSE} BY <1>5 DEF RetireFallback
        <3>2. enabled \in BOOLEAN OBVIOUS
        <3> QED BY <3>1, <3>2, MayBeDisabled
    <2> QED BY <2>1, <2>2, <2>3
<1>6. CASE CheckFallback
    BY <1>6 DEF CheckFallback, Ends
<1>7. CASE PreserveConfig
    BY <1>7 DEF PreserveConfig
<1>8. CASE InstallRoot
    <2>1. At("install") /\ (Ends \/ To("verify")) /\ UNCHANGED <<user, enabled>>
        BY <1>8 DEF InstallRoot
    <2> QED BY <2>1 DEF Ends
<1>9. CASE VerifyInstall
    BY <1>9 DEF VerifyInstall, Ends
<1>10. CASE UserConfig
    BY <1>10 DEF UserConfig
<1>11. CASE UserUnit
    BY <1>11 DEF UserUnit, Ends
<1> QED
    BY <1>1, <1>2, <1>3, <1>4, <1>5, <1>6, <1>7, <1>8, <1>9, <1>10, <1>11
    DEF Deploy

\* Operations of one command: none of them installs a unit.
LEMMA CallKeepsScope ==
    ASSUME ScopeInv,
           ServiceAction \/ AuthorizeSudo \/ SetHeadless \/ IsolateTarget \/ SetDefault
    PROVE  ScopeInv'
<1> USE DEF ScopeInv, UserPresent, Call
<1>1. CASE ServiceAction
    BY <1>1 DEF ServiceAction, Mode, SystemPresent
<1>2. CASE AuthorizeSudo
    BY <1>2 DEF AuthorizeSudo
<1>3. CASE SetHeadless
    BY <1>3 DEF SetHeadless
<1>4. CASE IsolateTarget
    BY <1>4 DEF IsolateTarget
<1>5. CASE SetDefault
    BY <1>5 DEF SetDefault
<1> QED BY <1>1, <1>2, <1>3, <1>4, <1>5

\* An acceptance or a campaign asks for reboots and uploads, nothing else.
LEMMA MeasuringKeepsScope ==
    ASSUME ScopeInv, Acceptance \/ Campaign \/ GivesUp PROVE ScopeInv'
<1> USE DEF ScopeInv, UserPresent, Running, Step, Ends, worker
<1>1. CASE BeginAcceptance
    BY <1>1 DEF BeginAcceptance, Begin
<1>2. CASE AcceptanceReboots
    BY <1>2 DEF AcceptanceReboots, RequestReboot
<1>3. CASE CycleAccepted
    BY <1>3 DEF CycleAccepted
<1>4. CASE BeginCampaign
    BY <1>4 DEF BeginCampaign, Begin
<1>5. CASE ReadBoot
    BY <1>5 DEF ReadBoot
<1>6. CASE Characterize
    BY <1>6 DEF Characterize
<1>7. CASE EnterBoot
    BY <1>7 DEF EnterBoot
<1>8. CASE CampaignReboots
    BY <1>8 DEF CampaignReboots, RequestReboot
<1>9. CASE NextBootFound
    BY <1>9 DEF NextBootFound
<1>10. CASE Combine
    BY <1>10 DEF Combine
<1>11. CASE GivesUp
    BY <1>11 DEF GivesUp
<1> QED
    BY <1>1, <1>2, <1>3, <1>4, <1>5, <1>6, <1>7, <1>8, <1>9, <1>10, <1>11
    DEF Acceptance, Campaign

LEMMA NextScope == ScopeInv /\ [Next]_vars => ScopeInv'
<1> SUFFICES ASSUME ScopeInv, [Next]_vars PROVE ScopeInv'
    OBVIOUS
<1>1. CASE Deployments
    <2>1. CASE CommandFails
        BY <2>1 DEF CommandFails, Ends, worker, ScopeInv, UserPresent
    <2> QED BY <1>1, <2>1, DeployKeepsScope, CallKeepsScope DEF Deployments
<1>2. CASE Acceptance \/ Campaign \/ GivesUp
    BY <1>2, MeasuringKeepsScope
<1>3. CASE TimerFires \/ External
    BY <1>3, WorkerKeepsScope DEF TimerFires, External, WorkerNext
<1>4. CASE Interrupted
    BY <1>4 DEF Interrupted, Ends, worker, ScopeInv, UserPresent
<1>5. CASE UNCHANGED vars
    BY <1>5 DEF vars, worker, control, ScopeInv, UserPresent
<1> QED BY <1>1, <1>2, <1>3, <1>4, <1>5, NextIs

\* No sequence of deployments, failed deployments, service actions, reboots and
\* lost sudo leaves both scopes present (host/client.py:195).
THEOREM RemoteHostOneScope == Spec => []OneScope
<1>1. ScopeInv => OneScope
    BY DEF ScopeInv, OneScope, Mode, SystemPresent
<1> QED BY <1>1, InitScope, NextScope, PTL DEF Spec

-----------------------------------------------------------------------------
(* Accepted boots.                                                         *)

\* A boot that is polled for is later than every boot accepted so far.
AcceptanceInv ==
    /\ boot \in Nat /\ label \in Nat
    /\ accepted \in Seq(Nat)
    /\ AcceptedBootsDiffer
    /\ \A i \in DOMAIN accepted : accepted[i] <= boot
    /\ op = "acceptance" /\ pc = "poll" =>
           label <= boot /\ \A i \in DOMAIN accepted : accepted[i] <= label

\* Steps that leave the acceptance alone: time goes on, and an operation that
\* is not an acceptance's poll moves.
LEMMA OthersKeepAcceptance ==
    ASSUME AcceptanceInv, UNCHANGED accepted,
           boot' \in Nat, boot' >= boot, label' \in Nat,
           ~(op' = "acceptance" /\ pc' = "poll") \/ UNCHANGED <<op, pc, label>>
    PROVE  AcceptanceInv'
BY DEF AcceptanceInv, AcceptedBootsDiffer

LEMMA NextAcceptance == AcceptanceInv /\ [Next]_vars => AcceptanceInv'
<1> SUFFICES ASSUME AcceptanceInv, [Next]_vars PROVE AcceptanceInv'
    OBVIOUS
<1>0. boot \in Nat /\ label \in Nat BY DEF AcceptanceInv
<1>1. CASE BeginAcceptance
    BY <1>1 DEF BeginAcceptance, Begin, worker, AcceptanceInv, AcceptedBootsDiffer
<1>2. CASE AcceptanceReboots
    BY <1>2 DEF AcceptanceReboots, Running, Step, RequestReboot, AcceptanceInv,
                AcceptedBootsDiffer
<1>3. CASE CycleAccepted
    <2>1. op = "acceptance" /\ pc = "poll" /\ boot # label /\ UNCHANGED <<boot, label>>
        BY <1>3 DEF CycleAccepted, Running, Fresh, Verified, worker
    <2>2. accepted' = Append(accepted, boot) /\ accepted \in Seq(Nat)
        BY <1>3 DEF CycleAccepted, AcceptanceInv
    <2>3. \A i \in DOMAIN accepted : accepted[i] < boot
        BY <1>0, <2>1, <2>2 DEF AcceptanceInv
    <2>4. ~(op' = "acceptance" /\ pc' = "poll")
        BY <1>3 DEF CycleAccepted, Ends, Step
    <2> QED
        BY <1>0, <2>1, <2>2, <2>3, <2>4 DEF AcceptanceInv, AcceptedBootsDiffer
<1>4. CASE Deployments
    <2>1. UNCHANGED <<boot, accepted, label>>
        BY <1>4 DEF Deployments, campaign, worker, Deploy, Bootstrap, StopService,
            UploadSource, CopySystem, RetireFallback, CheckFallback,
            PreserveConfig, InstallRoot, VerifyInstall, UserConfig, UserUnit,
            CommandFails, ServiceAction, AuthorizeSudo, SetHeadless,
            IsolateTarget, SetDefault
    <2>2. op' # "acceptance" \/ UNCHANGED <<op, pc>>
        BY <1>4 DEF Deployments, Deploy, Bootstrap, StopService, UploadSource,
            CopySystem, RetireFallback, CheckFallback, PreserveConfig,
            InstallRoot, VerifyInstall, UserConfig, UserUnit, CommandFails,
            ServiceAction, AuthorizeSudo, SetHeadless, IsolateTarget, SetDefault,
            Call, Begin, At, To, Ends
    <2> QED BY <1>0, <2>1, <2>2, OthersKeepAcceptance
<1>5. CASE Campaign
    <2>1. UNCHANGED <<boot, accepted>> /\ label' \in {boot, label}
        BY <1>5 DEF Campaign, worker, campaign, BeginCampaign, ReadBoot, Characterize,
            EnterBoot, CampaignReboots, NextBootFound, Combine, RequestReboot
    <2>2. op' # "acceptance"
        BY <1>5 DEF Campaign, BeginCampaign, ReadBoot, Characterize, EnterBoot,
            CampaignReboots, NextBootFound, Combine, Begin, Running, Step, Ends
    <2> QED BY <1>0, <2>1, <2>2, OthersKeepAcceptance
<1>6. CASE GivesUp \/ Interrupted
    BY <1>0, <1>6, OthersKeepAcceptance DEF GivesUp, Interrupted, Ends, worker, campaign
<1>7. CASE TimerFires \/ External
    <2>1. boot' \in {boot, boot + 1}
        BY <1>7 DEF TimerFires, External, WorkerNext, Boot, SudoExpires, OtherUpload
    <2>2. UNCHANGED <<op, pc, accepted, label>>
        BY <1>7 DEF TimerFires, External, control, campaign
    <2> QED BY <1>0, <2>1, <2>2, OthersKeepAcceptance
<1>8. CASE UNCHANGED vars
    BY <1>0, <1>8, OthersKeepAcceptance DEF vars, worker, control, campaign
<1> QED
    BY <1>1, <1>2, <1>3, <1>4, <1>5, <1>6, <1>7, <1>8, NextIs DEF Acceptance

LEMMA InitAcceptance == Init => AcceptanceInv
BY DEF Init, WorkerInit, DeployInit, AcceptanceInv, AcceptedBootsDiffer

\* Every accepted cycle is a boot of its own, later than all before it: an
\* answer from before the worker went down is not taken (host/client.py:534).
THEOREM RemoteHostAcceptedBootsDiffer == Spec => []AcceptedBootsDiffer
<1>1. AcceptanceInv => AcceptedBootsDiffer
    BY DEF AcceptanceInv
<1> QED BY <1>1, InitAcceptance, NextAcceptance, PTL DEF Spec

-----------------------------------------------------------------------------
(* Combined claims.                                                        *)

Metrics == [boot : Nat, known : BOOLEAN, config : {"none", "frozen", "other"}]
Entries == [label : Nat]
Claims == {"A", "B"}

\* Every entered boot was labelled once, and a report that knows its boot was
\* measured on the one its entry names; what is entered stays.  Between label
\* and entry the label is new, and a claim is only made of a full manifest.
CampaignInv ==
    /\ boot \in Nat /\ label \in Nat
    /\ remote \in {"none", "frozen", "other"}
    /\ fetched \in [1..Cycles -> Metrics]
    /\ manifest \in Seq(Entries) /\ Len(manifest) <= Cycles
    /\ \A i, j \in 1..Len(manifest) : i # j => manifest[i].label # manifest[j].label
    /\ \A i \in 1..Len(manifest) :
           fetched[i].known => fetched[i].boot = manifest[i].label
    /\ op = "campaign" /\ pc \in {"label", "measure", "enter", "reboot", "poll"} =>
           Len(manifest) < Cycles
    /\ op = "campaign" /\ pc \in {"measure", "enter"} =>
           \A i \in 1..Len(manifest) : manifest[i].label # label
    /\ op = "campaign" /\ pc = "combine" => Len(manifest) = Cycles
    /\ outcome \in Claims =>
           Len(manifest) = Cycles /\ \A i \in 1..Cycles : Compliant(fetched[i])

LEMMA InitCampaign == Init => CampaignInv
BY CyclesAssumption DEF Init, WorkerInit, DeployInit, CampaignInv, NoMetrics,
    Metrics, Entries, Claims

\* Steps of the worker, of a deployment and of an acceptance leave the campaign
\* as it is.
LEMMA OthersKeepCampaign ==
    ASSUME CampaignInv, boot' \in Nat, label' \in Nat,
           remote' \in {"none", "frozen", "other"},
           UNCHANGED <<fetched, manifest, outcome>>,
           op' # "campaign" \/ UNCHANGED <<op, pc, label>>
    PROVE  CampaignInv'
BY DEF CampaignInv, Compliant

LEMMA NextCampaign == CampaignInv /\ [Next]_vars => CampaignInv'
<1> SUFFICES ASSUME CampaignInv, [Next]_vars PROVE CampaignInv'
    OBVIOUS
<1>0. /\ boot \in Nat /\ label \in Nat /\ remote \in {"none", "frozen", "other"}
      /\ manifest \in Seq(Entries) /\ fetched \in [1..Cycles -> Metrics]
    BY DEF CampaignInv
<1>1. CASE BeginCampaign
    BY <1>0, <1>1, CyclesAssumption DEF BeginCampaign, Begin, CampaignInv, Compliant
<1>2. CASE ReadBoot
    <2>1. CASE boot \in Seen
        BY <1>0, <1>2, <2>1, OthersKeepCampaign DEF ReadBoot, Ends, worker
    <2>2. CASE boot \notin Seen
        <3>1. \A i \in 1..Len(manifest) : manifest[i].label # boot
            BY <1>0, <2>2 DEF Seen
        <3> QED
            BY <1>0, <1>2, <2>2, <3>1 DEF ReadBoot, Running, Step, worker,
                CampaignInv, Compliant
    <2> QED BY <2>1, <2>2
<1>3. CASE Characterize
    <2>1. /\ op = "campaign" /\ pc = "measure" /\ pc' = "enter"
          /\ UNCHANGED <<op, boot, label, remote, manifest, outcome>>
        BY <1>3 DEF Characterize, Running, Step, worker
    <2>2. /\ fetched' \in [1..Cycles -> Metrics]
          /\ \A i \in 1..Len(manifest) : fetched'[i] = fetched[i]
        <3>1. PICK known \in BOOLEAN :
                  fetched' = [fetched EXCEPT ![Len(manifest) + 1] =
                      [boot |-> boot, known |-> known, config |-> remote]]
            BY <1>3 DEF Characterize
        <3>2. [boot |-> boot, known |-> known, config |-> remote] \in Metrics
            BY <1>0, <3>1 DEF Metrics
        <3>3. fetched' \in [1..Cycles -> Metrics]
            BY <1>0, <3>1, <3>2
        <3>4. Len(manifest) \in Nat
            BY <1>0
        <3>5. \A i \in 1..Len(manifest) : i # Len(manifest) + 1
            BY <3>4
        <3>6. \A i \in 1..Len(manifest) : i \in 1..Cycles
            BY <1>0, <3>4, CyclesAssumption DEF CampaignInv
        <3> QED BY <1>0, <3>1, <3>3, <3>5, <3>6
    <2>3. outcome \notin Claims
        BY <2>1 DEF CampaignInv
    <2> QED BY <2>1, <2>2, <2>3 DEF CampaignInv, Compliant
<1>4. CASE EnterBoot
    <2>1. /\ op = "campaign" /\ pc = "enter" /\ Len(manifest) < Cycles
          /\ UNCHANGED <<boot, remote, label, fetched, outcome>>
          /\ outcome \notin Claims
        BY <1>4 DEF EnterBoot, Running, worker, CampaignInv
    <2>2. CASE op' # "campaign" /\ UNCHANGED manifest
        BY <1>0, <2>1, <2>2, OthersKeepCampaign
    <2>3. CASE /\ ~(fetched[Len(manifest) + 1].known
                      /\ fetched[Len(manifest) + 1].boot # label)
               /\ manifest' = Append(manifest, Entry)
               /\ op' = op
               /\ pc' = IF Len(manifest') = Cycles THEN "combine" ELSE "reboot"
        <3>1. Entry \in Entries
            BY <1>0 DEF Entry, Entries
        <3>2. /\ manifest' \in Seq(Entries) /\ Len(manifest') = Len(manifest) + 1
              /\ manifest'[Len(manifest) + 1].label = label
              /\ \A i \in 1..Len(manifest) : manifest'[i] = manifest[i]
            BY <1>0, <2>3, <3>1 DEF Entry
        <3>3. \A i \in 1..Len(manifest) : manifest[i].label # label
            BY <2>1 DEF CampaignInv
        <3>4. \A i, j \in 1..Len(manifest') :
                  i # j => manifest'[i].label # manifest'[j].label
            BY <1>0, <3>2, <3>3 DEF CampaignInv
        <3>5. \A i \in 1..Len(manifest') :
                  fetched'[i].known => fetched'[i].boot = manifest'[i].label
            BY <1>0, <2>1, <2>3, <3>2 DEF CampaignInv
        <3>6. Len(manifest') <= Cycles /\ Cycles \in Nat
            BY <1>0, <2>1, <3>2, CyclesAssumption
        <3> QED
            BY <1>0, <2>1, <2>3, <3>2, <3>4, <3>5, <3>6 DEF CampaignInv
    <2> QED BY <1>4, <2>2, <2>3 DEF EnterBoot, Ends, Step, Running
<1>5. CASE CampaignReboots
    BY <1>5 DEF CampaignReboots, Running, Step, RequestReboot, CampaignInv, Compliant
<1>6. CASE NextBootFound
    BY <1>6 DEF NextBootFound, Running, Step, Ends, worker, campaign, CampaignInv,
        Compliant
<1>7. CASE Combine
    <2>1. /\ op = "campaign" /\ pc = "combine" /\ op' = "none"
          /\ UNCHANGED <<boot, remote, label, fetched, manifest>>
        BY <1>7 DEF Combine, Running, Ends, worker
    <2>2. outcome' \in Claims => \A i \in 1..Cycles : Compliant(fetched[i])
        <3>1. PICK q \in [1..Cycles -> Qualities] : outcome' = Decision(q)
            BY <1>7 DEF Combine
        <3>2. CASE \E i \in 1..Cycles : ~Compliant(fetched[i])
            <4>1. Decision(q) = "C"
                BY <3>2 DEF Decision
            <4> QED BY <3>1, <4>1 DEF Claims
        <3> QED BY <3>2
    <2> QED BY <2>1, <2>2 DEF CampaignInv, Compliant
<1>8. CASE Deployments
    <2>1. UNCHANGED <<boot, remote, label, fetched, manifest, outcome>>
        BY <1>8 DEF Deployments, campaign, worker, Deploy, Bootstrap, StopService,
            UploadSource, CopySystem, RetireFallback, CheckFallback,
            PreserveConfig, InstallRoot, VerifyInstall, UserConfig, UserUnit,
            CommandFails, ServiceAction, AuthorizeSudo, SetHeadless,
            IsolateTarget, SetDefault
    <2>2. op' # "campaign" \/ UNCHANGED <<op, pc>>
        BY <1>8 DEF Deployments, Deploy, Bootstrap, StopService, UploadSource,
            CopySystem, RetireFallback, CheckFallback, PreserveConfig,
            InstallRoot, VerifyInstall, UserConfig, UserUnit, CommandFails,
            ServiceAction, AuthorizeSudo, SetHeadless, IsolateTarget, SetDefault,
            Call, Begin, At, To, Ends
    <2> QED BY <1>0, <2>1, <2>2, OthersKeepCampaign
<1>9. CASE Acceptance
    <2>1. /\ UNCHANGED <<boot, remote, fetched, manifest, outcome>>
          /\ label' \in {boot, label}
        BY <1>9 DEF Acceptance, BeginAcceptance, AcceptanceReboots, CycleAccepted,
            RequestReboot, worker
    <2>2. op' # "campaign"
        BY <1>9 DEF Acceptance, BeginAcceptance, AcceptanceReboots, CycleAccepted,
            Begin, Running, Step, Ends
    <2> QED BY <1>0, <2>1, <2>2, OthersKeepCampaign
<1>10. CASE GivesUp \/ Interrupted
    BY <1>0, <1>10, OthersKeepCampaign DEF GivesUp, Interrupted, Ends, worker, campaign
<1>11. CASE TimerFires \/ External
    <2>1. /\ boot' \in {boot, boot + 1} /\ remote' \in {remote, "other"}
          /\ UNCHANGED <<op, pc, label, fetched, manifest, outcome>>
        BY <1>11 DEF TimerFires, External, WorkerNext, Boot, SudoExpires,
            OtherUpload, control, campaign
    <2> QED BY <1>0, <2>1, OthersKeepCampaign
<1>12. CASE UNCHANGED vars
    BY <1>0, <1>12, OthersKeepCampaign DEF vars, worker, control, campaign
<1> QED
    BY <1>1, <1>2, <1>3, <1>4, <1>5, <1>6, <1>7, <1>8, <1>9, <1>10, <1>11, <1>12, NextIs
    DEF Campaign

\* A combined outcome that claims an observable has one report per boot, each
\* measured where its manifest entry says and under the frozen protocol, however
\* the campaign was interrupted and resumed (host/client.py:1066).
THEOREM RemoteHostClaimsRest == Spec => []ClaimRestsOnDistinctBoots
<1>1. CampaignInv => ClaimRestsOnDistinctBoots
    BY DEF CampaignInv, ClaimRestsOnDistinctBoots, Compliant, Claims
<1> QED BY <1>1, InitCampaign, NextCampaign, PTL DEF Spec

-----------------------------------------------------------------------------
(* The operator's configuration.                                           *)

Contents == {"missing", "operator", "example"}

\* Without a reset, the installer runs only after a fallback's configuration was
\* carried over: it finds a system configuration, or none in either scope.  A user
\* unit has a configuration.
ConfInv ==
    /\ conf \in [system : Contents, user : Contents]
    /\ reset \in BOOLEAN
    /\ At("install") /\ ~reset /\ conf.system = "missing" => conf.user = "missing"
    /\ At("userunit") => conf.user # "missing"
    /\ enabled => user # "absent"
    /\ user # "absent" => conf.user # "missing"

\* What was live last is live still, or lies in the user's file until a system
\* unit is installed.
LiveInv ==
    /\ lastLive # "missing"
    /\ Live # "none" => lastLive = Live
    /\ lastLive # "none" /\ sys = "absent" => conf.user = lastLive
    /\ lastLive # "none" /\ sys # "absent" => conf.system # "missing"

Kept ==
    lastLive # "none" /\ Live' # "none" /\ ~(op = "deploy" /\ reset) =>
        Live' = lastLive \/ StaleCopy

LEMMA LiveIs ==
    ASSUME ScopeInv
    PROVE  Live = IF sys # "absent" THEN Written(conf.system)
                  ELSE IF UserPresent THEN Written(conf.user) ELSE "none"
BY DEF ScopeInv, Live, Mode, SystemPresent

LEMMA LiveWillBe ==
    ASSUME ScopeInv'
    PROVE  Live' = IF sys' # "absent" THEN Written(conf'.system)
                   ELSE IF UserPresent' THEN Written(conf'.user) ELSE "none"
BY DEF ScopeInv, Live, Mode, SystemPresent, Written

LEMMA InitConf == Init => ConfInv /\ LiveInv
<1> SUFFICES ASSUME Init PROVE ConfInv /\ LiveInv
    OBVIOUS
<1>1. ConfInv
    BY DEF Init, WorkerInit, DeployInit, ConfInv, Contents, At
<1>2. Live = IF sys # "absent" THEN Written(conf.system)
             ELSE IF UserPresent THEN Written(conf.user) ELSE "none"
    BY InitScope, LiveIs
<1>3. lastLive = Live /\ (conf.system = "missing" <=> sys = "absent")
    BY DEF Init, WorkerInit, DeployInit
<1> QED BY <1>1, <1>2, <1>3 DEF LiveInv, Written

\* A step that leaves both files alone and installs no system unit: the scope that
\* is live may go and come back, and reads the same file.
LEMMA SameFiles ==
    ASSUME ScopeInv, ScopeInv', ConfInv, LiveInv, Remember,
           UNCHANGED conf, sys' = "absent" <=> sys = "absent"
    PROVE  LiveInv' /\ Kept
<1>1. Live' = IF sys # "absent" THEN Written(conf.system)
              ELSE IF UserPresent' THEN Written(conf.user) ELSE "none"
    BY LiveWillBe
<1>2. Live = IF sys # "absent" THEN Written(conf.system)
             ELSE IF UserPresent THEN Written(conf.user) ELSE "none"
    BY LiveIs
<1>3. lastLive' = IF Live' # "none" THEN Live'
                  ELSE IF op = "deploy" /\ reset THEN "none" ELSE lastLive
    BY DEF Remember
<1>4. Live' # "none" /\ lastLive # "none" => Live' = lastLive
    BY <1>1, <1>2 DEF LiveInv, Written
<1>5. LiveInv'
    <2>1. Live' # "none" => lastLive' = Live'
        BY <1>3
    <2>2. lastLive' # "none" /\ sys = "absent" => conf.user = lastLive'
        BY <1>1, <1>3 DEF LiveInv, Written
    <2>3. lastLive' # "none" /\ sys # "absent" => conf.system # "missing"
        BY <1>1, <1>3 DEF LiveInv, Written
    <2>4. lastLive' # "missing"
        BY <1>1, <1>3 DEF LiveInv, Written
    <2> QED BY <2>1, <2>2, <2>3, <2>4 DEF LiveInv
<1> QED BY <1>4, <1>5 DEF Kept

\* What leaves the files alone, and does not reach the installer or the user unit.
LEMMA OthersKeepConf ==
    ASSUME ScopeInv, ScopeInv', ConfInv, LiveInv, Remember,
           UNCHANGED conf, sys' = "absent" <=> sys = "absent", reset' \in BOOLEAN,
           user' = "absent" <=> user = "absent", enabled' => enabled,
           ~At("install")' \/ UNCHANGED <<op, pc, reset>>,
           ~At("userunit")' \/ UNCHANGED <<op, pc, reset>>
    PROVE  ConfInv' /\ LiveInv' /\ Kept
<1>1. LiveInv' /\ Kept
    BY SameFiles
<1>2. ConfInv'
    BY DEF ConfInv, At
<1> QED BY <1>1, <1>2

LEMMA PreserveKeeps ==
    ASSUME ScopeInv, ScopeInv', ConfInv, LiveInv, Remember, PreserveConfig
    PROVE  ConfInv' /\ LiveInv' /\ Kept
<1>1. /\ At("preserve") /\ UNCHANGED <<op, reset, sys, user, enabled>> /\ pc' = "install"
      /\ ~UserPresent /\ ~UserPresent'
    BY DEF PreserveConfig, To, At, ScopeInv, UserPresent
<1>2. CASE ~reset /\ conf.system = "missing" /\ conf.user # "missing"
    <2>1. conf' = [conf EXCEPT !.system = conf.user]
        BY <1>2 DEF PreserveConfig
    <2>2. conf'.system = conf.user /\ conf'.user = conf.user
        BY <2>1 DEF ConfInv
    <2>3. ConfInv'
        BY <1>1, <1>2, <2>1, <2>2 DEF ConfInv, At
    <2>4. Live' = IF sys # "absent" THEN Written(conf.user) ELSE "none"
        BY <1>1, <2>2, LiveWillBe
    <2>5. lastLive' = IF Live' # "none" THEN Live' ELSE lastLive
        BY <1>2 DEF Remember
    <2>6. sys # "absent" => lastLive = "none"
        BY <1>2 DEF LiveInv
    <2>7. LiveInv'
        BY <1>1, <1>2, <2>2, <2>4, <2>5, <2>6 DEF LiveInv, Written
    <2>8. Kept
        BY <2>4, <2>6 DEF Kept
    <2> QED BY <2>3, <2>7, <2>8
<1>3. CASE ~(~reset /\ conf.system = "missing" /\ conf.user # "missing")
    <2>1. UNCHANGED conf
        BY <1>3 DEF PreserveConfig
    <2>2. ConfInv'
        BY <1>1, <1>3, <2>1 DEF ConfInv, At
    <2> QED BY <1>1, <2>1, <2>2, SameFiles
<1> QED BY <1>2, <1>3

\* The system unit goes live on what lies in /etc: the copy of the user's file, or
\* one that was there before.
LEMMA InstallKeeps ==
    ASSUME ScopeInv, ScopeInv', ConfInv, LiveInv, Remember, InstallRoot
    PROVE  ConfInv' /\ LiveInv' /\ Kept
<1> DEFINE initialised == IF conf.system = "missing" \/ reset
                          THEN [conf EXCEPT !.system = "example"] ELSE conf
<1>1. /\ At("install") /\ reset' \in {reset, FALSE} /\ pc' # "install" /\ pc' # "userunit"
      /\ UNCHANGED <<user, enabled>>
      /\ sys' # "absent"
      /\ conf' \in {conf, initialised}
    BY DEF InstallRoot, To, Ends
<1>2. /\ conf'.user = conf.user
      /\ \/ conf'.system = conf.system
         \/ conf'.system = "example" /\ (conf.system = "missing" \/ reset)
      /\ conf' \in [system : Contents, user : Contents]
    BY <1>1 DEF ConfInv, Contents
<1>3. ConfInv'
    BY <1>1, <1>2 DEF ConfInv, At
<1>4. Live' = Written(conf'.system)
    BY <1>1, LiveWillBe
<1>5. op = "deploy"
    BY <1>1 DEF At
<1>6. lastLive' = IF Live' # "none" THEN Live' ELSE IF reset THEN "none" ELSE lastLive
    BY <1>5 DEF Remember
<1>7. ~reset /\ conf.system = "missing" => lastLive = "none"
    BY <1>1 DEF ConfInv, LiveInv
<1>8. LiveInv'
    BY <1>1, <1>2, <1>4, <1>6, <1>7 DEF LiveInv, Written
<1>9. Kept
    <2> SUFFICES ASSUME lastLive # "none", Live' # "none", ~reset PROVE Live' = lastLive \/ StaleCopy
        BY <1>5 DEF Kept
    <2>1. conf.system # "missing" /\ conf'.system = conf.system
        BY <1>2, <1>7
    <2>2. CASE sys = "absent"
        BY <1>4, <2>1, <2>2 DEF StaleCopy, Written
    <2>3. CASE sys # "absent"
        BY <1>4, <2>1, <2>3, LiveIs DEF LiveInv, Written
    <2> QED BY <2>2, <2>3
<1> QED BY <1>3, <1>8, <1>9

LEMMA UserConfigKeeps ==
    ASSUME ScopeInv, ScopeInv', ConfInv, LiveInv, Remember, UserConfig
    PROVE  ConfInv' /\ LiveInv' /\ Kept
<1>1. /\ At("userconf") /\ UNCHANGED <<op, reset, sys, user, enabled>> /\ pc' = "userunit"
      /\ op = "deploy" /\ sys = "absent" /\ UserPresent' = UserPresent
    BY DEF UserConfig, To, At, ScopeInv, UserPresent
<1>2. CASE conf.user = "missing" \/ reset
    <2>1. conf' = [conf EXCEPT !.user = "example"]
        BY <1>2 DEF UserConfig
    <2>2. conf'.user = "example" /\ conf' \in [system : Contents, user : Contents]
        BY <2>1 DEF ConfInv, Contents
    <2>3. ConfInv'
        BY <1>1, <2>2 DEF ConfInv, At
    <2>4. Live' = IF UserPresent THEN "example" ELSE "none"
        BY <1>1, <2>2, LiveWillBe DEF Written
    <2>5. ~reset => ~UserPresent /\ lastLive = "none"
        BY <1>1, <1>2 DEF ConfInv, LiveInv, UserPresent
    <2>6. lastLive' = IF Live' # "none" THEN Live' ELSE IF reset THEN "none" ELSE lastLive
        BY <1>1 DEF Remember
    <2>7. LiveInv'
        BY <1>1, <2>2, <2>4, <2>5, <2>6 DEF LiveInv
    <2>8. Kept
        BY <1>1, <2>5 DEF Kept
    <2> QED BY <2>3, <2>7, <2>8
<1>3. CASE ~(conf.user = "missing" \/ reset)
    <2>1. UNCHANGED conf
        BY <1>3 DEF UserConfig
    <2>2. ConfInv'
        BY <1>1, <1>3, <2>1 DEF ConfInv, At
    <2> QED BY <1>1, <2>1, <2>2, SameFiles
<1> QED BY <1>2, <1>3

LEMMA UserUnitKeeps ==
    ASSUME ScopeInv, ScopeInv', ConfInv, LiveInv, Remember, UserUnit
    PROVE  ConfInv' /\ LiveInv' /\ Kept
<1>1. /\ At("userunit") /\ UNCHANGED <<conf, sys, enabled>> /\ pc' = "none" /\ reset' = FALSE
      /\ user' \in {"active", "stopped"}
    BY DEF UserUnit, Ends
<1>2. ConfInv'
    BY <1>1 DEF ConfInv, At
<1> QED BY <1>1, <1>2, SameFiles

LEMMA DeployKeepsConf ==
    ASSUME ScopeInv, ScopeInv', ConfInv, LiveInv, Remember, Deploy
    PROVE  ConfInv' /\ LiveInv' /\ Kept
<1>0. reset \in BOOLEAN /\ enabled \in BOOLEAN
    BY DEF ConfInv, ScopeInv
<1>1. CASE Bootstrap
    <2>1. /\ UNCHANGED <<conf, sys, user, enabled>> /\ reset' \in BOOLEAN
          /\ pc' = "stop"
        BY <1>1 DEF Bootstrap, worker
    <2> QED BY <2>1, OthersKeepConf DEF At
<1>2. CASE \/ StopService \/ UploadSource \/ CopySystem \/ RetireFallback
           \/ CheckFallback \/ VerifyInstall
    <2>1. /\ UNCHANGED conf /\ reset' \in {reset, FALSE}
          /\ pc' \notin {"install", "userunit"}
        BY <1>2 DEF StopService, UploadSource, CopySystem, RetireFallback,
            CheckFallback, VerifyInstall, To, Ends, worker
    <2>2. /\ sys' = "absent" <=> sys = "absent"
          /\ user' = "absent" <=> user = "absent"
        BY <1>2 DEF StopService, UploadSource, CopySystem, RetireFallback,
            CheckFallback, VerifyInstall, Stopped, worker
    <2>3. enabled' => enabled
        <3>1. enabled' \in {enabled, FALSE}
            BY <1>2 DEF StopService, UploadSource, CopySystem, RetireFallback,
                CheckFallback, VerifyInstall, worker
        <3> QED BY <1>0, <3>1, MayBeDisabled
    <2> QED BY <1>0, <2>1, <2>2, <2>3, OthersKeepConf DEF At
<1> QED
    BY <1>1, <1>2, PreserveKeeps, InstallKeeps, UserConfigKeeps, UserUnitKeeps DEF Deploy

LEMMA NextConf ==
    ASSUME ScopeInv, ScopeInv', ConfInv, LiveInv, [Next]_vars
    PROVE  ConfInv' /\ LiveInv' /\ [Kept]_<<worker, control, lastLive>>
<1>0. reset \in BOOLEAN /\ enabled \in BOOLEAN
    BY DEF ConfInv, ScopeInv
<1>1. CASE UNCHANGED vars
    <2>1. /\ UNCHANGED <<worker, control, lastLive>>
          /\ UNCHANGED <<conf, sys, user, enabled, op, pc, reset, lastLive>>
        BY <1>1 DEF vars, worker, control
    <2>2. LiveInv'
        BY <2>1, LiveIs, LiveWillBe DEF LiveInv, UserPresent
    <2> QED BY <2>1, <2>2 DEF ConfInv, At
<1>2. ASSUME Next PROVE ConfInv' /\ LiveInv' /\ Kept
    <2>0. Remember
        BY <1>2 DEF Next
    <2>1. CASE Deploy
        BY <2>0, <2>1, DeployKeepsConf
    <2>2. CASE CommandFails \/ GivesUp \/ Interrupted
        <3>1. /\ UNCHANGED <<conf, sys, user, enabled>> /\ pc' = "none" /\ reset' = FALSE
            BY <2>2 DEF CommandFails, GivesUp, Interrupted, Ends, worker
        <3> QED BY <2>0, <3>1, OthersKeepConf DEF At
    <2>3. CASE ServiceAction \/ AuthorizeSudo \/ SetHeadless \/ IsolateTarget \/ SetDefault
        <3>1. UNCHANGED <<conf, enabled, op, pc, reset>>
            BY <2>3 DEF ServiceAction, AuthorizeSudo, SetHeadless, IsolateTarget,
                SetDefault, Call
        <3>2. /\ sys' = "absent" <=> sys = "absent"
              /\ user' # "absent" => user # "absent" \/ UserPresent
              /\ user = "absent" /\ enabled => FALSE
              /\ user' = "absent" => user = "absent"
            BY <2>3 DEF ServiceAction, AuthorizeSudo, SetHeadless, IsolateTarget,
                SetDefault, Mode, SystemPresent, ConfInv
        <3>3. user' = "absent" <=> user = "absent"
            BY <3>2 DEF UserPresent
        <3> QED BY <1>0, <2>0, <3>1, <3>2, <3>3, OthersKeepConf
    <2>4. CASE Acceptance \/ Campaign
        <3>1. UNCHANGED <<conf, sys, user, enabled>>
            BY <2>4 DEF Acceptance, Campaign, BeginAcceptance, AcceptanceReboots,
                CycleAccepted, BeginCampaign, ReadBoot, Characterize, EnterBoot,
                CampaignReboots, NextBootFound, Combine, RequestReboot, worker
        <3>2. reset' \in {reset, FALSE} /\ op' # "deploy"
            BY <2>4 DEF Acceptance, Campaign, BeginAcceptance, AcceptanceReboots,
                CycleAccepted, BeginCampaign, ReadBoot, Characterize, EnterBoot,
                CampaignReboots, NextBootFound, Combine, Begin, Running, Step, Ends
        <3> QED BY <1>0, <2>0, <3>1, <3>2, OthersKeepConf DEF At
    <2>5. CASE TimerFires \/ External
        <3>1. UNCHANGED <<conf, enabled, op, pc, reset>>
            BY <2>5 DEF TimerFires, External, WorkerNext, Boot, SudoExpires,
                OtherUpload, control
        <3>2. /\ sys' = "absent" <=> sys = "absent"
              /\ user' = "absent" <=> user = "absent"
            BY <2>5 DEF TimerFires, External, WorkerNext, Boot, SudoExpires, OtherUpload
        <3> QED BY <1>0, <2>0, <3>1, <3>2, OthersKeepConf
    <2> QED
        BY <1>2, <2>1, <2>2, <2>3, <2>4, <2>5, NextIs DEF Deployments, Next, Answered, Unanswered
<1> QED
    BY <1>1, <1>2

\* Through migrations between the scopes, failed and repeated deployments, lost
\* sudo and reboots, the configuration that goes live is the one that was live last,
\* unless a deployment was asked to reset it or a copy lay in /etc already
\* (host/client.py:232).
THEOREM RemoteHostLiveConfigKept == Spec => LiveConfigKept
<1> DEFINE Inv == ScopeInv /\ ConfInv /\ LiveInv
<1>1. Init => Inv
    BY InitScope, InitConf
<1>2. Inv /\ [Next]_vars => Inv'
    BY NextScope, NextConf
<1>3. Inv /\ Inv' /\ [Next]_vars => [Kept]_<<worker, control, lastLive>>
    BY NextConf
<1> QED BY <1>1, <1>2, <1>3, PTL DEF Spec, LiveConfigKept, Kept

=============================================================================
