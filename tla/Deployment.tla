----------------------------- MODULE Deployment -----------------------------
(***************************************************************************)
(* The bootstrap deployment agent (deployment_orchestrator.py): a run is a *)
(* process that installs or upgrades the platform, keeps a local journal   *)
(* for RESUME and a durable row in the database once the control plane     *)
(* exists, and retires itself at the end.                                  *)
(*                                                                         *)
(* The process can stop after any step: it is killed, or the step raises.  *)
(* The first action of the base plan is the schema script of the PostgreSQL *)
(* package. It begins with DROP statements that commit one by one, and over *)
(* an installed schema it is refused before the first table is dropped.    *)
(* The journal is one file that every save writes whole.                   *)
(***************************************************************************)
EXTENDS Naturals

CONSTANTS
    Installs,       \* deployment runs, by RUN_ID
    BaseActions,    \* actions of the base plan
    Migrations      \* scripts of the release's migration chain

ASSUME DeploymentAssumption ==
    BaseActions \in Nat \ {0} /\ Migrations \in Nat \ {0}

VARIABLES
    journal,    \* per run: the journal file and whether its key is left
    installer,  \* per run: the process
    target,     \* the database
    runRow,     \* per run: status of the CX_DEPLOYMENT_RUNS row
    bootAgent,  \* per run: status of the BOOTSTRAP_DEPLOYMENT_AGENT principal
    raced       \* history: two runs were at the base plan at the same time

deploymentVars == <<journal, installer, target, runRow, bootAgent, raced>>

Modes == {"INITIALIZE", "UPGRADE"}
InstallSteps == {"idle", "preflight", "boundary", "base", "admin", "migrate", "handoff", "native",
          "models", "complete", "retireRun", "retireAgent", "retireJournal"}
NoJournal == [open |-> FALSE, mode |-> "INITIALIZE", boundary |-> FALSE]
Absent == [at |-> "idle", mode |-> "INITIALIZE", resuming |-> FALSE, handedOff |-> FALSE,
         boundary |-> FALSE, done |-> 0]
(* What the schema script has left, the base actions that ended, migrations *)
(* whose objects exist, the initial administrator and the native agents.    *)
(* "part": the script stopped on the way, over a target without a schema;   *)
(* "torn": it was run again over a whole one, which keeps its tables and    *)
(* rows and loses policies, foreign keys, indexes and triggers.             *)
EmptyTarget == [schema |-> "absent", base |-> 0, migrated |-> 0, admin |-> FALSE, native |-> FALSE]
FullPlatform == [schema |-> "whole", base |-> BaseActions, migrated |-> Migrations - 1, admin |-> TRUE,
                 native |-> TRUE]

DeploymentTypeOK ==
    /\ \A r \in Installs :
         /\ journal[r] \in [open : BOOLEAN, mode : Modes, boundary : BOOLEAN]
         /\ installer[r] \in [at : InstallSteps, mode : Modes, resuming : BOOLEAN, handedOff : BOOLEAN,
                              boundary : BOOLEAN, done : 0..BaseActions]
    /\ target \in [schema : {"absent", "part", "whole", "torn"}, base : 0..BaseActions,
                   migrated : 0..Migrations, admin : BOOLEAN, native : BOOLEAN]
    /\ runRow \in [Installs -> {"none", "NATIVE_HANDOFF", "COMPLETED", "RETIRED"}]
    /\ bootAgent \in [Installs -> {"none", "ACTIVE", "RETIRED"}]
    /\ raced \in BOOLEAN

DeploymentInit ==
    /\ journal = [r \in Installs |-> NoJournal]
    /\ installer = [r \in Installs |-> Absent]
    /\ target \in {EmptyTarget, FullPlatform}
    /\ runRow = [r \in Installs |-> "none"]
    /\ bootAgent = [r \in Installs |-> "none"]
    /\ raced = FALSE

GoesTo(r, step) == installer' = [installer EXCEPT ![r].at = step]
Idles(r) == installer' = [installer EXCEPT ![r] = Absent]
OthersBuild(r) == \E q \in Installs \ {r} : installer[q].at = "base"

-----------------------------------------------------------------------------
(* Start and resume *)

(* A new run gets its own journal; nothing is known of the target yet.      *)
StartRun(r) ==
    /\ installer[r].at = "idle" /\ journal[r] = NoJournal /\ runRow[r] = "none"
    /\ \E mode \in Modes :
         /\ journal' = [journal EXCEPT ![r] = [open |-> TRUE, mode |-> mode, boundary |-> FALSE]]
         /\ installer' = [installer EXCEPT ![r] =
              [at |-> "preflight", mode |-> mode, resuming |-> FALSE, handedOff |-> FALSE,
               boundary |-> FALSE, done |-> 0]]
    /\ UNCHANGED <<target, runRow, bootAgent, raced>>

HandedOff(r) == runRow[r] = "NATIVE_HANDOFF"

(* RESUME reads the journal and the durable row, then saves the journal     *)
(* without the recovery boundary, which only memory still has.              *)
ResumeRun(r) ==
    /\ installer[r].at = "idle" /\ journal[r].open
    /\ installer' = [installer EXCEPT ![r] =
         [at |-> "preflight", mode |-> journal[r].mode, resuming |-> TRUE,
          handedOff |-> HandedOff(r), boundary |-> journal[r].boundary, done |-> 0]]
    /\ journal' = [journal EXCEPT ![r].boundary = FALSE]
    /\ UNCHANGED <<target, runRow, bootAgent, raced>>

(* An exception, or the end of the process. *)
InstallerStops(r) ==
    /\ installer[r].at # "idle"
    /\ Idles(r)
    /\ UNCHANGED <<journal, target, runRow, bootAgent, raced>>

IsEmpty == target.schema = "absent" /\ target.migrated = 0
TargetPasses(r) == (installer[r].mode = "INITIALIZE" /\ ~installer[r].resuming) => IsEmpty

CheckTarget(r) ==
    /\ installer[r].at = "preflight"
    /\ IF TargetPasses(r) THEN GoesTo(r, "boundary") ELSE Idles(r)
    /\ UNCHANGED <<journal, target, runRow, bootAgent, raced>>

(* The target was found empty, or the operator answers for the backup: a    *)
(* resumed initialization finds that in the journal it loaded or raises, an *)
(* upgrade may also be given the confirmation again.                        *)
BoundaryHeld(r) == installer[r].resuming => installer[r].boundary

(* Only a run whose row says that it had handed over leaves the base plan   *)
(* out; any other resumed initialization begins with the schema script.     *)
SchemaFound(r) == target.base > 0
SkipsBase(r) == installer[r].handedOff

RecoveryBoundary(r) ==
    /\ installer[r].at = "boundary"
    /\ IF installer[r].mode = "INITIALIZE"
       THEN IF BoundaryHeld(r)
            THEN /\ journal' = [journal EXCEPT ![r].boundary = TRUE]
                 /\ GoesTo(r, IF SkipsBase(r) THEN "admin" ELSE "base")
                 /\ raced' = (raced \/ (~SkipsBase(r) /\ OthersBuild(r)))
            ELSE Idles(r) /\ UNCHANGED <<journal, raced>>
       ELSE \E confirmed \in BOOLEAN :
              IF confirmed \/ (installer[r].resuming /\ installer[r].boundary)
              THEN /\ journal' = [journal EXCEPT ![r].boundary = TRUE]
                   /\ GoesTo(r, "migrate") /\ UNCHANGED raced
              ELSE Idles(r) /\ UNCHANGED <<journal, raced>>
    /\ UNCHANGED <<target, runRow, bootAgent>>

-----------------------------------------------------------------------------
(* Base schema, administrator, migrations *)

(* The schema script creates the schema, or stops on the way and raises.    *)
(* Where there is a schema it stops at a primary key that others depend on, *)
(* after it has dropped what comes before.                                  *)
HasSchema == target.schema \in {"whole", "torn"}
CreateSchema(r) ==
    /\ installer[r].at = "base" /\ installer[r].done = 0
    /\ \/ /\ ~HasSchema
          /\ target' = [target EXCEPT !.schema = "whole", !.base = 1]
          /\ installer' = [installer EXCEPT ![r].done = 1, ![r].at = IF BaseActions = 1 THEN "admin" ELSE @]
       \/ /\ ~HasSchema
          /\ target' = [target EXCEPT !.schema = "part"] /\ Idles(r)
       \/ /\ HasSchema
          /\ target' = [target EXCEPT !.schema = "torn"] /\ Idles(r)
    /\ UNCHANGED <<journal, runRow, bootAgent, raced>>

(* The scripts after it, each of which can be run again. *)
BaseAction(r) ==
    LET k == installer[r].done + 1 IN
    /\ installer[r].at = "base" /\ k > 1
    /\ target' = IF k > target.base THEN [target EXCEPT !.base = k] ELSE target
    /\ installer' = [installer EXCEPT ![r].done = k, ![r].at = IF k = BaseActions THEN "admin" ELSE @]
    /\ UNCHANGED <<journal, runRow, bootAgent, raced>>

(* With the password the seed is replaced, or found replaced with the same; *)
(* without it only a resumed run goes on, if the seed was replaced before.  *)
SetAdmin(r) ==
    /\ installer[r].at = "admin"
    /\ \E password \in BOOLEAN :
         IF installer[r].handedOff \/ ~password
         THEN /\ IF target.admin /\ installer[r].resuming THEN GoesTo(r, "migrate") ELSE Idles(r)
              /\ UNCHANGED target
         ELSE /\ GoesTo(r, "migrate")
              /\ target' = [target EXCEPT !.admin = TRUE]
    /\ UNCHANGED <<journal, runRow, bootAgent, raced>>

(* The chain in order; a script whose objects are there is not run again.   *)
Migrate(r) ==
    /\ installer[r].at = "migrate"
    /\ IF target.migrated < Migrations
       THEN /\ target' = [target EXCEPT !.migrated = @ + 1]
            /\ UNCHANGED installer
       ELSE /\ GoesTo(r, "handoff") /\ UNCHANGED target
    /\ UNCHANGED <<journal, runRow, bootAgent, raced>>

-----------------------------------------------------------------------------
(* Control plane *)

(* _database_record makes sure that the principal exists, whatever its      *)
(* status, and writes the row.                                              *)
Records(r, status) ==
    /\ runRow' = [runRow EXCEPT ![r] = status]
    /\ bootAgent' = [bootAgent EXCEPT ![r] = IF @ = "none" THEN "ACTIVE" ELSE @]

Handoff(r) ==
    /\ installer[r].at = "handoff"
    /\ Records(r, "NATIVE_HANDOFF") /\ GoesTo(r, "native")
    /\ UNCHANGED <<journal, target, raced>>

(* The administrator is adopted as a principal, or the run raises; then the *)
(* native agents and their knowledge are created.                           *)
BootstrapNative(r) ==
    /\ installer[r].at = "native"
    /\ IF target.admin THEN GoesTo(r, "models") /\ target' = [target EXCEPT !.native = TRUE]
       ELSE Idles(r) /\ UNCHANGED target
    /\ UNCHANGED <<journal, runRow, bootAgent, raced>>

ConfigureModels(r) ==
    /\ installer[r].at = "models" /\ GoesTo(r, "complete")
    /\ UNCHANGED <<journal, target, runRow, bootAgent, raced>>

(* The postflight looks at the terminal row of the migration chain. Its     *)
(* other checks, a FAILED row among them, only refuse: the run stops here,  *)
(* as it may anywhere.                                                      *)
PostflightPasses == target.migrated = Migrations

(* The state saved now has the boundary this process held. *)
CompleteRun(r) ==
    /\ installer[r].at = "complete"
    /\ IF PostflightPasses
       THEN /\ journal' = [journal EXCEPT ![r].boundary = TRUE]
            /\ Records(r, "COMPLETED") /\ GoesTo(r, "retireRun")
       ELSE Idles(r) /\ UNCHANGED <<journal, runRow, bootAgent>>
    /\ UNCHANGED <<target, raced>>

AfterRetirement == "retireAgent"
RetireRun(r) ==
    /\ installer[r].at = "retireRun"
    /\ runRow' = [runRow EXCEPT ![r] = "RETIRED"] /\ GoesTo(r, AfterRetirement)
    /\ UNCHANGED <<journal, target, bootAgent, raced>>

RetireAgent(r) ==
    /\ installer[r].at = "retireAgent"
    /\ bootAgent' = [bootAgent EXCEPT ![r] = "RETIRED"] /\ GoesTo(r, "retireJournal")
    /\ UNCHANGED <<journal, target, runRow, raced>>

(* The key is destroyed: the journal cannot be opened again. *)
RetireJournal(r) ==
    /\ installer[r].at = "retireJournal"
    /\ journal' = [journal EXCEPT ![r].open = FALSE] /\ Idles(r)
    /\ UNCHANGED <<target, runRow, bootAgent, raced>>

DeploymentNext ==
    \E r \in Installs :
         \/ StartRun(r) \/ ResumeRun(r) \/ InstallerStops(r)
         \/ CheckTarget(r) \/ RecoveryBoundary(r)
         \/ CreateSchema(r) \/ BaseAction(r) \/ SetAdmin(r) \/ Migrate(r)
         \/ Handoff(r) \/ BootstrapNative(r) \/ ConfigureModels(r) \/ CompleteRun(r)
         \/ RetireRun(r) \/ RetireAgent(r) \/ RetireJournal(r)

DeploymentSpec == DeploymentInit /\ [][DeploymentNext]_deploymentVars

-----------------------------------------------------------------------------
(* Properties *)

Whole == target.base = BaseActions /\ target.migrated = Migrations /\ target.admin /\ target.native

(* A run that reports COMPLETED or RETIRED left every part of the platform: *)
(* no crash, resume, refused step or other run in between lets it skip one. *)
(* The schema script is one step here, so two runs whose base plans overlap *)
(* are left out.                                                            *)
CompletedIsWhole ==
    ~raced => \A r \in Installs : runRow[r] \in {"COMPLETED", "RETIRED"} => Whole

(* Once the journal is closed the deployment agent has no standing          *)
(* credential and its run is closed.                                        *)
ClosedRunIsRetired ==
    \A r \in Installs : ~journal[r].open /\ runRow[r] # "none" =>
        runRow[r] = "RETIRED" /\ bootAgent[r] = "RETIRED"

(* A schema is torn only by an initialization that had not handed over, or  *)
(* had completed without closing, and that run never gets to close: no      *)
(* upgrade, no new run and no run between handoff and completion does it.   *)
UnfinishedRun(r) ==
    journal[r].open /\ journal[r].mode = "INITIALIZE" /\ runRow[r] # "NATIVE_HANDOFF"
TornByUnfinishedRun ==
    target.schema = "torn" => \E r \in Installs : UnfinishedRun(r)

(* What a deployment that says it is over has left behind. *)
DeploymentHolds == CompletedIsWhole /\ ClosedRunIsRetired /\ TornByUnfinishedRun
=============================================================================
