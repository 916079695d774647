------------------------------ MODULE Deployment ------------------------------
(***************************************************************************)
(* Operations of the controller that change what the worker runs:          *)
(* bootstrap and deploy (with infra/worker03/install-root.sh), the service *)
(* actions and the boot profile.  Any remote command may fail, and between *)
(* two commands the worker may reboot or sudo may expire.                  *)
(***************************************************************************)
EXTENDS WorkerHost

CONSTANT MaxCalls   \* bound: operations the operator starts

VARIABLES
    op,        \* the running operation, or "none"
    pc,        \* its next command
    calls,
    existing,  \* deploy: the management mode bootstrap found
    scope,     \* deploy: the scope it installs
    reset,     \* deploy: --reset-config
    lastLive   \* history: the live configuration, or the last one there was

control == <<op, pc, calls, existing, scope, reset>>

DeployInit ==
    /\ op = "none" /\ pc = "none" /\ calls = 0
    /\ existing = "not-installed" /\ scope = "none" /\ reset = FALSE
    /\ lastLive = Live

Begin(name) == op = "none" /\ calls < MaxCalls /\ calls' = calls + 1 /\ op' = name

\* An operation ends: it returns or raises.
Ends ==
    /\ op' = "none" /\ pc' = "none" /\ UNCHANGED calls
    /\ existing' = "not-installed" /\ scope' = "none" /\ reset' = FALSE

At(point) == op = "deploy" /\ pc = point
To(point) == pc' = point /\ UNCHANGED <<op, calls, existing, scope, reset>>

-----------------------------------------------------------------------------
(* deploy                                                                  *)

Refused == Mode = "invalid-dual-service" \/ (Mode = "system" /\ ~sudo)

Bootstrap ==
    /\ Begin("deploy") /\ ~Refused
    /\ existing' = Mode /\ reset' \in BOOLEAN
    /\ scope' = IF sudo THEN "system" ELSE "user"
    /\ pc' = "stop"
    /\ UNCHANGED worker

\* Best effort: the command's own failure is ignored.
Stopped(unit) == IF unit = "active" THEN {"active", "stopped"} ELSE {unit}

StopService ==
    /\ At("stop") /\ To("upload")
    /\ user' \in IF existing = "user-fallback" THEN Stopped(user) ELSE {user}
    /\ sys' \in IF existing = "system" /\ sudo THEN Stopped(sys) ELSE {sys}
    /\ UNCHANGED <<boot, due, sudo, enabled, default, profile, conf, remote>>

\* The old source is removed, the archive unpacked and installed.
UploadSource ==
    At("upload") /\ To(IF scope = "system" THEN "copy" ELSE "userconf")
    /\ UNCHANGED worker

CopySystem == At("copy") /\ sudo /\ To("retire") /\ UNCHANGED worker

RetireFallback ==
    /\ At("retire") /\ To("check")
    /\ user' \in Stopped(user)
    /\ enabled' \in {enabled, FALSE}
    /\ UNCHANGED <<boot, due, sudo, sys, default, profile, conf, remote>>

FallbackUnchecked ==   \* mutant: the stop is taken to have worked
    At("check") /\ To("preserve") /\ UNCHANGED worker

CheckFallback ==
    /\ At("check")
    /\ IF UserPresent THEN Ends ELSE To("preserve")
    /\ UNCHANGED worker

PreserveNothing ==   \* mutant: the installer initialises the first system config
    At("preserve") /\ To("install") /\ UNCHANGED worker

PreserveConfig ==
    /\ At("preserve") /\ To("install")
    /\ IF ~reset /\ conf.system = "missing" /\ conf.user # "missing"
       THEN sudo /\ conf' = [conf EXCEPT !.system = conf.user]
       ELSE UNCHANGED conf
    /\ UNCHANGED <<boot, due, sudo, sys, user, enabled, default, profile, remote>>

\* install-root.sh under set -e: unit file, configuration, enable --now, status.
InstallRoot ==
    LET initialised == IF conf.system = "missing" \/ reset
                       THEN [conf EXCEPT !.system = "example"] ELSE conf
        loaded == IF sys = "absent" THEN "stopped" ELSE sys
    IN  /\ At("install") /\ sudo
        /\ \/ sys' = loaded /\ conf' \in {conf, initialised} /\ Ends
           \/ sys' = "active" /\ conf' = initialised /\ To("verify")
        /\ UNCHANGED <<boot, due, sudo, user, enabled, default, profile, remote>>

\* It raises unless the system scope is alone with one runner.
VerifyInstall ==
    /\ At("verify")
    /\ Ends
    /\ UNCHANGED worker

UserConfig ==
    /\ At("userconf") /\ To("userunit")
    /\ conf' = IF conf.user = "missing" \/ reset
               THEN [conf EXCEPT !.user = "example"] ELSE conf
    /\ UNCHANGED <<boot, due, sudo, sys, user, enabled, default, profile, remote>>

\* The result says whether the service started; deploy returns either way.
UserUnit ==
    /\ At("userunit") /\ Ends
    /\ user' \in {"active", "stopped"}
    /\ UNCHANGED <<boot, due, sudo, sys, enabled, default, profile, conf, remote>>

Deploy ==
    \/ Bootstrap \/ StopService \/ UploadSource \/ CopySystem \/ RetireFallback
    \/ CheckFallback \/ PreserveConfig \/ InstallRoot \/ VerifyInstall
    \/ UserConfig \/ UserUnit

-----------------------------------------------------------------------------
(* Operations of one command, or whose commands nothing else depends on.   *)

Call == op = "none" /\ calls < MaxCalls /\ calls' = calls + 1
        /\ UNCHANGED <<op, pc, existing, scope, reset>>

\* start, stop and restart go to the scope that is authoritative.
ServiceAction ==
    \E to \in {"active", "stopped"} :
        /\ Call /\ Mode \in {"system", "user-fallback"}
        /\ IF Mode = "system"
           THEN sudo /\ sys' = to /\ UNCHANGED user
           ELSE user' = to /\ UNCHANGED sys
        /\ UNCHANGED <<boot, due, sudo, enabled, default, profile, conf, remote>>

AuthorizeSudo ==
    /\ Call /\ sudo' = TRUE
    /\ UNCHANGED <<boot, due, sys, user, enabled, default, profile, conf, remote>>

\* set_headless: stopping the display manager is best effort, and verified.
SetHeadless ==
    /\ Call /\ sudo
    /\ default' = "multi-user"
    /\ profile' \in IF profile = "graphical" THEN {profile, "multi-user"} ELSE {profile}
    /\ UNCHANGED <<boot, due, sudo, sys, user, enabled, conf, remote>>

IsolateTarget ==
    /\ Call /\ sudo /\ sys # "absent"
    /\ profile' = "sensetrace" /\ sys' = "active"
    /\ UNCHANGED <<boot, due, sudo, user, enabled, default, conf, remote>>

SetDefault ==
    /\ Call /\ sudo /\ default = "multi-user" /\ profile # "graphical"
    /\ default' = "sensetrace"
    /\ UNCHANGED <<boot, due, sudo, sys, user, enabled, profile, conf, remote>>

\* A remote command fails, the connection is lost or the operator interrupts.
CommandFails ==
    op = "deploy" /\ Ends /\ UNCHANGED worker

\* The history: a deployment that resets gives up the configuration there was.
Remember ==
    lastLive' = IF Live' # "none" THEN Live'
                ELSE IF op = "deploy" /\ reset THEN "none" ELSE lastLive

-----------------------------------------------------------------------------

\* "SenseTrace has one authoritative runner scope" (ADR-005): no sequence of
\* deploys, failed deploys, service actions, reboots and lost sudo leaves both
\* scopes present, so two runners never share the worker (host/client.py:195).
OneScope == Mode # "invalid-dual-service"

\* No system unit, and in /etc another configuration than the one in use: what a
\* migration that failed after its copy leaves, once the user scope is reset.
StaleCopy == sys = "absent" /\ conf.system \notin {"missing", lastLive}

\* "preserves an existing one" (ADR-005): through every migration, failure and
\* repetition of deploy that was not told to reset it, the configuration that goes
\* live is the one that was live last, unless a copy lay in /etc already
\* (host/client.py:232, host/client.py:336).
LiveConfigKept ==
    [][lastLive # "none" /\ Live' # "none" /\ ~(op = "deploy" /\ reset) =>
           Live' = lastLive \/ StaleCopy]_<<worker, control, lastLive>>

\* "Deployment initializes a missing configuration and preserves an existing one;
\* replacement requires an explicit reset request" (ADR-005): also when a copy lay
\* in /etc already.
ReplacedOnRequest ==
    [][lastLive # "none" /\ Live' # "none" /\ ~(op = "deploy" /\ reset) =>
           Live' = lastLive]_<<worker, control, lastLive>>

=============================================================================
