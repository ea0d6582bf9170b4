--------------------------- MODULE PlatformProofs ----------------------------
(***************************************************************************)
(* The composition of MCPlatform.tla, for every value of the constants: each*)
(* part behaves as its own specification says, whichever part moves, so     *)
(* what is proved of a part holds of the platform.                          *)
(***************************************************************************)
EXTENDS MCPlatform, AdministrationProofs, AgentProofs, DeploymentProofs, MemoryProofs, GovernanceProofs, TLAPS

-----------------------------------------------------------------------------
(* A step of the platform is, of every part, a step of that part or none. *)

LEMMA PartsBegin ==
    PlatformInit => /\ GatewayInit /\ MemoryVersionsInit /\ MemoryJobsInit /\ BarriersInit /\ GroupInit
                    /\ UpgradeInit /\ ContainmentInit /\ DeploymentInit /\ MigrationInit
                    /\ PlatformCommandsInit /\ CallsInit /\ OrganizationInit /\ DefinitionsInit
                    /\ focus \in Parts
BY DEF PlatformInit

LEMMA FocusStays == [PlatformNext]_platformVars => UNCHANGED focus
BY DEF PlatformNext, platformVars

LEMMA AgentsStep ==
    [PlatformNext]_platformVars =>
        [GatewayNext]_gatewayVars /\ [ContainmentNext]_containmentVars /\ [MemoryVersionsNext]_memoryVars
        /\ [MemoryJobsNext]_memoryJobVars
BY DEF PlatformNext, platformVars, Rests

LEMMA AdministrationSteps ==
    [PlatformNext]_platformVars =>
        [BarriersNext]_barrierVars /\ [GroupNext]_groupVars /\ [UpgradeNext]_upgradeVars
        /\ [PlatformCommandsNext]_commandVars
BY DEF PlatformNext, platformVars, Rests

LEMMA InstallersStep ==
    [PlatformNext]_platformVars =>
        [DeploymentNext]_deploymentVars /\ [MigrationNext]_migrationVars
BY DEF PlatformNext, platformVars, Rests

LEMMA GovernedSteps ==
    [PlatformNext]_platformVars =>
        [CallsNext]_callVars /\ [OrganizationNext]_organizationVars /\ [DefinitionsNext]_definitionVars
BY DEF PlatformNext, platformVars, Rests

(* Every part of the platform behaves as its own specification says.         *)
THEOREM EachPartRuns ==
    PlatformSpec => /\ GatewaySpec /\ ContainmentSpec /\ MemoryVersionsSpec /\ MemoryJobsSpec
                    /\ BarriersSpec /\ GroupSpec /\ UpgradeSpec /\ PlatformCommandsSpec
                    /\ DeploymentSpec /\ MigrationSpec
                    /\ CallsSpec /\ OrganizationSpec /\ DefinitionsSpec
                    /\ [](focus \in Parts)
<1>1. PlatformSpec => GatewaySpec /\ ContainmentSpec /\ MemoryVersionsSpec /\ MemoryJobsSpec
  BY PartsBegin, AgentsStep, PTL
     DEF PlatformSpec, GatewaySpec, ContainmentSpec, MemoryVersionsSpec, MemoryJobsSpec
<1>2. PlatformSpec => BarriersSpec /\ GroupSpec /\ UpgradeSpec /\ PlatformCommandsSpec
  BY PartsBegin, AdministrationSteps, PTL
     DEF PlatformSpec, BarriersSpec, GroupSpec, UpgradeSpec, PlatformCommandsSpec
<1>3. PlatformSpec => DeploymentSpec /\ MigrationSpec
  BY PartsBegin, InstallersStep, PTL DEF PlatformSpec, DeploymentSpec, MigrationSpec
<1>4. PlatformSpec => CallsSpec /\ OrganizationSpec /\ DefinitionsSpec
  BY PartsBegin, GovernedSteps, PTL DEF PlatformSpec, CallsSpec, OrganizationSpec, DefinitionsSpec
<1>5. PlatformSpec => [](focus \in Parts)
  <2>1. focus \in Parts /\ [PlatformNext]_platformVars => (focus \in Parts)'
    BY FocusStays
  <2> QED
    BY PartsBegin, <2>1, PTL DEF PlatformSpec
<1> QED
  BY <1>1, <1>2, <1>3, <1>4, <1>5, PTL

(* Every row of every part holds what its column admits, for any people,      *)
(* agents, processes and bounds.                                              *)
THEOREM PlatformKeepsTypes == PlatformSpec => []PlatformTypeOK
<1>1. GatewaySpec => []GatewayTypeOK
  <2>1. GatewayInv => GatewayTypeOK
    BY DEF GatewayInv
  <2> QED
    BY <2>1, GatewayBegins, GatewayStepKeeps, PTL DEF GatewaySpec
<1>2. CallsSpec => []CallsTypeOK
  <2>1. CallsInv => CallsTypeOK
    BY DEF CallsInv
  <2> QED
    BY <2>1, CallsKeep, PTL
<1>3. DefinitionsSpec => []DefinitionsTypeOK
  <2>1. DefinitionsInv => DefinitionsTypeOK
    BY DEF DefinitionsInv
  <2>2. DefinitionsInv /\ [DefinitionsNext]_definitionVars => DefinitionsInv'
    BY StepKeeps
  <2> QED
    BY <2>1, <2>2, InitKnows, PTL DEF DefinitionsSpec
<1>4. /\ focus \in Parts
      /\ GatewayTypeOK /\ ContainmentTypeOK /\ MemoryVersionsTypeOK /\ MemoryJobsTypeOK
      /\ BarriersTypeOK /\ GroupTypeOK /\ UpgradeTypeOK /\ PlatformCommandsTypeOK
      /\ DeploymentTypeOK /\ MigrationTypeOK /\ CallsTypeOK /\ OrganizationTypeOK /\ DefinitionsTypeOK
      => PlatformTypeOK
  BY DEF PlatformTypeOK, Parts
<1>5. PlatformSpec => /\ []GatewayTypeOK /\ []ContainmentTypeOK /\ []MemoryVersionsTypeOK
                      /\ []MemoryJobsTypeOK
  BY EachPartRuns, <1>1, ContainmentTypes, VersionsAreKept, MemoryJobTypes, PTL
<1>6. PlatformSpec => []BarriersTypeOK /\ []GroupTypeOK /\ []UpgradeTypeOK /\ []PlatformCommandsTypeOK
  BY EachPartRuns, BarrierTypes, LeadershipIsSound, RolloutTypes, CommandTypes, PTL
<1>7. PlatformSpec => []DeploymentTypeOK /\ []MigrationTypeOK
  BY EachPartRuns, DeploymentsEndWell, MigrationTypes, PTL
<1>8. PlatformSpec => []CallsTypeOK /\ []OrganizationTypeOK /\ []DefinitionsTypeOK
  BY EachPartRuns, <1>2, <1>3, OrganizationTypesHold, PTL
<1> QED
  BY EachPartRuns, <1>4, <1>5, <1>6, <1>7, <1>8, PTL

(* What is proved of each part holds of the platform: what a call, a process  *)
(* or a whole part does in between never undoes it.                           *)
THEOREM PlatformHolds ==
    PlatformSpec => /\ GatewayHolds /\ []ContainmentHolds
                    /\ []VersionsHold /\ []CompletedJobIsDone /\ MemoryIsLeasedWork
                    /\ []BarrierHolds /\ []LeadershipHolds /\ []RunsOnceAsApproved
                    /\ []DeploymentHolds /\ []JournalHolds
                    /\ ModelCallsHold /\ OrganizationHolds /\ DefinitionsHold
<1>1. PlatformSpec => GatewayHolds /\ []ContainmentHolds
  BY EachPartRuns, GatewayServesMembers, ContainmentKeepsItsOrder, PTL
<1>2. PlatformSpec => []VersionsHold /\ []CompletedJobIsDone /\ MemoryIsLeasedWork
  BY EachPartRuns, VersionsAreKept, CompletedJobsAreDone, JobAndItemsAreLeasedWork, PTL
<1>3. PlatformSpec => []BarrierHolds /\ []LeadershipHolds /\ []RunsOnceAsApproved
  BY EachPartRuns, BarrierIsDecidedOnce, LeadershipIsSound, CommandsRunOnceAsApproved, PTL
<1>4. PlatformSpec => []DeploymentHolds /\ []JournalHolds
  BY EachPartRuns, DeploymentsEndWell, JournalTellsWhatIsThere, PTL
<1>5. PlatformSpec => ModelCallsHold /\ OrganizationHolds /\ DefinitionsHold
  BY EachPartRuns, ModelCallsAreGoverned, OrganizationIsGoverned, DefinitionsKeepTheirWord, PTL
<1> QED
  BY <1>1, <1>2, <1>3, <1>4, <1>5, PTL

(* And so is a rollout, where the group knows its members by the ids that     *)
(* ballots carry, or by ids no agent has.                                     *)
THEOREM PlatformRollsOutGoverned ==
    ASSUME MembersHaveIds
    PROVE  PlatformSpec => []RolloutIsGoverned
<1>1. UpgradeSpec => [](UpgradeTypeOK /\ RolloutIsGoverned)
  BY RolloutStaysGoverned
<1> QED
  BY EachPartRuns, <1>1, PTL
=============================================================================
