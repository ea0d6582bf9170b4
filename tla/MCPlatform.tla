----------------------------- MODULE MCPlatform -----------------------------
(***************************************************************************)
(* Parts that several people, agents and processes change at once, and   *)
(* procedures of several steps that may stop between any two.  They share   *)
(* no row, so one run checks them all: focus says which of them moves, the  *)
(* others rest.                                                             *)
(***************************************************************************)
EXTENDS AgentGateway, MemoryVersions, MemoryJobs, Barriers, AdminGroup, AdminUpgrade,
        Containment, Deployment, Migration, PlatformCommands, ModelRequests, OrganizationChange,
        GraphDefinitions, TLC

CONSTANTS Top, Left, Right, Below, Fresh,   \* units of the organization
          Ann, Bot                          \* who is placed in them

VARIABLE focus

Parts == {"gateway", "versions", "jobs", "barriers", "group", "upgrade",
            "containment", "deployment", "migration", "commands", "calls", "organization",
            "definitions"}

platformVars ==
    <<focus, gatewayVars, memoryVars, memoryJobVars, barrierVars, groupVars, upgradeVars,
      containmentVars, deploymentVars, migrationVars, commandVars, callVars,
      organizationVars, definitionVars>>

(* What rests is in one of its initial states. *)
PlatformInit ==
    /\ focus \in Parts
    /\ GatewayInit
    /\ MemoryVersionsInit /\ (focus # "versions" => versions[1].state = "ACTIVE")
    /\ MemoryJobsInit
    /\ BarriersInit /\ (focus # "barriers" => ~late)
    /\ GroupInit /\ (focus # "group" => member[Platform] = Installed)
    /\ UpgradeInit /\ (focus # "upgrade" => voting = Voters)
    /\ ContainmentInit
    /\ DeploymentInit /\ (focus # "deployment" => target = EmptyTarget)
    /\ MigrationInit
    /\ focus # "migration" =>
         /\ dialect = "statement"
         /\ \A k \in Chain : lineage[k] = "unknown" /\ stepRow[k] = NoRow
    /\ PlatformCommandsInit
    /\ focus # "commands" => command.by = CHOOSE a \in Officials : TRUE
    /\ CallsInit /\ OrganizationInit /\ DefinitionsInit

Rests(part, vars) == focus # part => UNCHANGED vars
PlatformNext ==
    /\ UNCHANGED focus
    /\ Rests("gateway", gatewayVars) /\ Rests("versions", memoryVars)
    /\ Rests("jobs", memoryJobVars) /\ Rests("barriers", barrierVars)
    /\ Rests("group", groupVars) /\ Rests("upgrade", upgradeVars)
    /\ Rests("containment", containmentVars) /\ Rests("deployment", deploymentVars)
    /\ Rests("migration", migrationVars) /\ Rests("commands", commandVars)
    /\ Rests("calls", callVars) /\ Rests("organization", organizationVars)
    /\ Rests("definitions", definitionVars)
    /\ \/ focus = "gateway" /\ GatewayNext
       \/ focus = "versions" /\ MemoryVersionsNext
       \/ focus = "jobs" /\ MemoryJobsNext
       \/ focus = "barriers" /\ BarriersNext
       \/ focus = "group" /\ GroupNext
       \/ focus = "upgrade" /\ UpgradeNext
       \/ focus = "containment" /\ ContainmentNext
       \/ focus = "deployment" /\ DeploymentNext
       \/ focus = "migration" /\ MigrationNext
       \/ focus = "commands" /\ PlatformCommandsNext
       \/ focus = "calls" /\ CallsNext
       \/ focus = "organization" /\ OrganizationNext
       \/ focus = "definitions" /\ DefinitionsNext

PlatformSpec == PlatformInit /\ [][PlatformNext]_platformVars

-----------------------------------------------------------------------------

(* Every row holds what its column admits; what rests is not looked at again. *)
PlatformTypeOK ==
    CASE focus = "gateway" -> GatewayTypeOK [] focus = "versions" -> MemoryVersionsTypeOK
      [] focus = "jobs" -> MemoryJobsTypeOK [] focus = "barriers" -> BarriersTypeOK
      [] focus = "group" -> GroupTypeOK [] focus = "upgrade" -> UpgradeTypeOK
      [] focus = "containment" -> ContainmentTypeOK [] focus = "deployment" -> DeploymentTypeOK
      [] focus = "migration" -> MigrationTypeOK [] focus = "commands" -> PlatformCommandsTypeOK
      [] focus = "calls" -> CallsTypeOK [] focus = "organization" -> OrganizationTypeOK
      [] focus = "definitions" -> DefinitionsTypeOK

(* The people, agents and processes that call are all alike, and so are two *)
(* nodes, two items, and the two seats or members that are not special.     *)
Alike == Permutations(Installs) \cup Permutations(UpgradeNodes)

(* A root with two branches, one of them with a unit of its own.  Each may  *)
(* move under the other, which makes a cycle of both together.              *)
SmallTree == [u \in {Top, Left, Right, Below} |->
                CASE u = Top -> Null [] u = Below -> Left [] OTHER -> Top]
SomeOperations ==
    {[kind |-> "CREATE", target |-> Fresh, parent |-> Right],
     [kind |-> "MOVE", target |-> Left, parent |-> Right],
     [kind |-> "MOVE", target |-> Right, parent |-> Below]}
Homes == [x \in {Ann, Bot} |-> IF x = Ann THEN Left ELSE Below]
Owners == [x \in {Bot} |-> Ann]

(* Weights that validate_weights admits for three voters. *)
ThreeWeights == CHOOSE f \in [Voters -> 2..4] : \A v, w \in Voters : f[v] = f[w] => v = w
SameName == [v \in Voters |-> v]

(* The probe of the first script looks for what its first statement makes,  *)
(* and that find leaves the script out of a run; nothing is looked for of   *)
(* the second, which no find leaves out.                                    *)
FirstTable == [k \in Chain |-> IF k = 1 THEN {1} ELSE {}]
FirstTableIsThere == [k \in Chain |-> IF k = 1 THEN FirstTable ELSE [j \in Chain |-> {}]]
FirstTableLeavesOut == [k \in Chain |-> IF k = 1 THEN {FirstTable} ELSE {}]
=============================================================================
