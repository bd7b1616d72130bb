---------------------------- MODULE MCReloadSync ----------------------------
(***************************************************************************)
(* An instance of ReloadSync for TLC: the two workers of the api container *)
(* and the one of api-canary, which has the pid of one of the others.      *)
(***************************************************************************)
EXTENDS ReloadSync

MCWorkers == {"api1", "api2", "canary1"}
MCHome == [w \in MCWorkers |-> IF w = "canary1" THEN "canary" ELSE "api"]
MCId == [w \in MCWorkers |-> IF w = "api2" THEN "pid-9" ELSE "pid-8"]
MCConfigured ==
    [c \in {"api", "canary"} |-> IF c = "api" THEN "@champion" ELSE "@challenger"]

MCAddresses == {"@champion", "@challenger"}
MCMoving == {"@champion"}
MCVersions == 1..2

AllCalls == Calls

=============================================================================
