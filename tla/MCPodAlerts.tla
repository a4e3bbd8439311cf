---------------------------- MODULE MCPodAlerts ----------------------------
(* PodAlerts with one pod of one container, and what may happen to it.     *)
EXTENDS PodAlerts, TLC

CONSTANTS web,     \* a pod
          app      \* its container

Nobody == {}
Rollouts  == {"open", "pools"}
Upgrades  == {"open", "cgu"}
Reboots   == {"open", "node"}
Errors == {"error"}
AnyEnd == {"exit0", "error"}
OnePod == {web}

App       == {app}
AppOfWeb  == [c \in App |-> web]
OwnMarker == [p \in OnePod |-> App]
=============================================================================
