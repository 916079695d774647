------------------------------ MODULE WorkerHost ------------------------------
(***************************************************************************)
(* The worker as the controller (host/client.py) sees and changes it over  *)
(* ssh: its boots, the two scopes of the runner service, the live          *)
(* configurations and the boot target.  The installed source trees are not  *)
(* modelled: a command that works on them succeeds or raises.              *)
(***************************************************************************)
EXTENDS Integers, Sequences, FiniteSets

CONSTANT MaxBoot   \* bound: boots of the worker

ASSUME WorkerAssumption == MaxBoot \in Nat \ {0}

VARIABLES
    boot,       \* the boot id
    due,        \* a reboot timer is pending
    sudo,       \* sudo -n succeeds
    sys, user,  \* the two units: "absent", "stopped" or "active"
    enabled,    \* the user unit is enabled
    default,    \* the default boot target
    profile,    \* what runs: only "graphical" has a display manager
    conf,       \* live configuration per scope
    remote      \* the characterization config that was uploaded last

worker == <<boot, due, sudo, sys, user, enabled, default, profile, conf, remote>>

\* service_management: a stopped user unit that is not enabled is not seen.
SystemPresent == sys # "absent"
UserPresent == enabled \/ user = "active"

Mode ==
    CASE SystemPresent /\ UserPresent -> "invalid-dual-service"
      [] SystemPresent /\ ~UserPresent -> "system"
      [] ~SystemPresent /\ UserPresent -> "user-fallback"
      [] OTHER -> "not-installed"

RunnerCount == Cardinality({u \in {"sys", "user"} :
                               (u = "sys" /\ sys = "active")
                               \/ (u = "user" /\ user = "active")})

Written(file) == IF file = "missing" THEN "none" ELSE file

\* The configuration the runner of the authoritative scope reads, if there is one:
\* the system unit reads /etc, the user unit the file in the home directory,
\* whatever lies in the other place.
Live ==
    CASE Mode = "system" -> Written(conf.system)
      [] Mode = "user-fallback" -> Written(conf.user)
      [] OTHER -> "none"

WorkerInit ==
    /\ boot = 1 /\ due = FALSE /\ sudo \in BOOLEAN
    /\ sys \in {"absent", "active"} /\ user \in {"absent", "active"}
    /\ enabled \in BOOLEAN
    /\ sys # "absent" => user # "active" /\ ~enabled
    /\ enabled => user # "absent"
    /\ default \in {"graphical", "sensetrace"} /\ profile = default
    /\ default = "sensetrace" => sys # "absent"
    /\ conf \in [system : {"missing", "operator"}, user : {"missing", "operator"}]
    /\ conf.system = "missing" <=> sys = "absent"
    /\ user # "absent" => conf.user # "missing"
    /\ remote = "none"

\* verify_boot, by an ssh session to the boot it finds.
Verified(expected, appliance) ==
    /\ boot # expected
    /\ Mode \in {"system", "user-fallback"} /\ RunnerCount = 1
    /\ appliance => default = "sensetrace" /\ profile = "sensetrace" /\ Mode = "system"

\* The timer fires, or the worker loses power.  The system unit is enabled and
\* starts, unless it fails; a user unit starts if it is enabled.
Boot ==
    /\ boot < MaxBoot
    /\ boot' = boot + 1 /\ due' = FALSE
    /\ sys' \in IF sys = "absent" THEN {"absent"} ELSE {"active", "stopped"}
    /\ user' = IF user = "absent" THEN "absent"
               ELSE IF enabled THEN "active" ELSE "stopped"
    /\ profile' = default
    /\ UNCHANGED <<sudo, enabled, default, conf, remote>>

\* The sudo credential expires; authorize_sudo renews it.
SudoExpires ==
    /\ sudo /\ sudo' = FALSE
    /\ UNCHANGED <<boot, due, sys, user, enabled, default, profile, conf, remote>>

\* Another controller runs characterize_primitive with a configuration of its
\* own: every upload goes to one path.
OtherUpload ==
    /\ remote # "none" /\ remote' = "other"
    /\ UNCHANGED <<boot, due, sudo, sys, user, enabled, default, profile, conf>>

WorkerNext == Boot \/ SudoExpires \/ OtherUpload

=============================================================================
