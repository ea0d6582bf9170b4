-------------------------- MODULE GraphDefinitions --------------------------
(***************************************************************************)
(* Versions of one execution graph (graph_definition_api.py): drafted,      *)
(* imported or proposed, compiled, published, aliased, run and retired.     *)
(*                                                                         *)
(* A call reads in some statements and writes in later ones.  Between any  *)
(* two of its transactions other calls may pass, and it may stop there for *)
(* good: its process dies or a statement fails.  A version is named by its *)
(* VERSION_NO.  The topology of a version never changes, so what a compile  *)
(* finds depends on the manifest of the executor its nodes name.            *)
(***************************************************************************)
EXTENDS Integers, FiniteSets

CONSTANTS
    Authors,        \* who calls the service
    MaxVersionNo,   \* bound: rows of GRAPH_VERSIONS beside the first
    MaxPlans,       \* bound: plans ever compiled
    MaxManifests    \* bound: manifests registered for the executor

ASSUME DefinitionsAssumption ==
    MaxVersionNo \in Nat \ {0} /\ MaxPlans \in Nat /\ MaxManifests \in Nat \ {0}

VARIABLES
    manifest,       \* GRAPH_EXECUTOR_REGISTRY: newest manifest of the executor
    graphVersion,   \* GRAPH_VERSIONS: status, DEFINITION_DIGEST, how it came to be
    compiled,       \* GRAPH_COMPILE_PLANS: PLAN_ID and DEFINITION_DIGEST
    plansMade,      \* PLAN_IDs given out
    provenance,     \* GRAPH_DEFINITION_PROVENANCE.TRUST_STATE
    proposed,       \* GRAPH_DYNAMIC_PROPOSALS.STATUS; granted once the approval
                    \* request of a pending one is APPROVED
    aliasOf,        \* GRAPH_ALIASES: the version of the alias
    lastRun,        \* GRAPH_RUNS: version and plan of the Run
    unseen,         \* history: reviewed for publication before its provenance
                    \* or proposal was recorded
    planRaced,      \* history: published while a compile was past its check
    serviceCall     \* per author: what the call has read, and its next step

definitionVars ==
    <<manifest, graphVersion, compiled, plansMade, provenance, proposed, aliasOf, lastRun,
      unseen, planRaced, serviceCall>>

(* Numbered after a first version that is published and left alone.          *)
VersionNos == 1..MaxVersionNo
NoServiceCall == [step |-> "idle"]
NoPlan == [id |-> 0, digest |-> 0]
NoRun == [version |-> 0, plan |-> 0]
NoVersion == [status |-> "none", digest |-> 0, origin |-> "none"]
Runnable == {"PUBLISHED", "DEPRECATED"}

DefinitionsTypeOK ==
    /\ manifest \in 1..MaxManifests
    /\ graphVersion \in [VersionNos ->
           [status : {"none", "DRAFT", "VALIDATED", "PUBLISHED", "DEPRECATED", "ARCHIVED"},
            digest : 0..MaxManifests, origin : {"none", "edit", "import", "propose"}]]
    /\ compiled \in [VersionNos -> [id : 0..MaxPlans, digest : 0..MaxManifests]]
    /\ plansMade \in 0..MaxPlans
    /\ provenance \in [VersionNos -> {"none", "TRUSTED", "UNTRUSTED_DRAFT"}]
    /\ proposed \in [VersionNos -> {"none", "DRAFT", "PENDING_APPROVAL", "granted", "APPROVED"}]
    /\ aliasOf \in 0..MaxVersionNo
    /\ lastRun \in [version : 0..MaxVersionNo, plan : 0..MaxPlans]
    /\ unseen \subseteq VersionNos /\ planRaced \subseteq VersionNos
    /\ \A a \in Authors : serviceCall[a].step \in
           {"idle", "insert", "record", "validate", "plan", "replace", "persist", "review",
            "transition", "alias", "run"}

DefinitionsInit ==
    /\ manifest = 1
    /\ graphVersion = [v \in VersionNos |-> NoVersion]
    /\ compiled = [v \in VersionNos |-> NoPlan] /\ plansMade = 0
    /\ provenance = [v \in VersionNos |-> "none"]
    /\ proposed = [v \in VersionNos |-> "none"]
    /\ aliasOf = 0 /\ lastRun = NoRun
    /\ unseen = {} /\ planRaced = {}
    /\ serviceCall = [a \in Authors |-> NoServiceCall]

StatusOf(v) == graphVersion[v].status
Begins(a, call) == serviceCall[a] = NoServiceCall /\ serviceCall' = [serviceCall EXCEPT ![a] = call]
Continues(a, step) == serviceCall' = [serviceCall EXCEPT ![a].step = step]
Returns(a) == serviceCall' = [serviceCall EXCEPT ![a] = NoServiceCall]

-----------------------------------------------------------------------------

(* register_persisted_manifest replaces the manifest of the executor that the *)
(* nodes of every version name; its digest becomes part of theirs.            *)
RegisterExecutor ==
    /\ manifest < MaxManifests
    /\ manifest' = manifest + 1
    /\ UNCHANGED <<graphVersion, compiled, plansMade, provenance, proposed, aliasOf, lastRun,
                   unseen, planRaced, serviceCall>>

-----------------------------------------------------------------------------
(* Drafts: create_version, import_version, graph_dynamic.create_draft        *)

(* COALESCE(MAX(VERSION_NO), 0) + 1                                          *)
NextNo == Cardinality({v \in VersionNos : StatusOf(v) # "none"}) + 1

CreateVersion(a, origin) ==
    /\ NextNo <= MaxVersionNo
    /\ Begins(a, [step |-> "insert", v |-> NextNo, origin |-> origin])
    /\ UNCHANGED <<manifest, graphVersion, compiled, plansMade, provenance, proposed, aliasOf,
                   lastRun, unseen, planRaced>>

(* What is left of the call once its Draft exists.                            *)
AfterInsert(call) ==
    CASE call.origin = "import" -> [step |-> "record", v |-> call.v]
      [] call.origin = "propose" ->
           [step |-> "validate", v |-> call.v, digest |-> manifest, next |-> "persist"]
      [] OTHER -> NoServiceCall
(* The unique key on GRAPH_ID and VERSION_NO decides; the loser reads again. *)
InsertVersion(a) ==
    LET call == serviceCall[a] IN
    /\ call.step = "insert"
    /\ IF StatusOf(call.v) = "none"
       THEN /\ graphVersion' = [graphVersion EXCEPT ![call.v] =
                 [status |-> "DRAFT", digest |-> 0, origin |-> call.origin]]
            /\ serviceCall' = [serviceCall EXCEPT ![a] = AfterInsert(call)]
       ELSE /\ NextNo <= MaxVersionNo
            /\ serviceCall' = [serviceCall EXCEPT ![a].v = NextNo]
            /\ UNCHANGED graphVersion
    /\ UNCHANGED <<manifest, compiled, plansMade, provenance, proposed, aliasOf, lastRun, unseen,
                   planRaced>>

(* A second transaction, after the Draft exists.                             *)
RecordImport(a, trust) ==
    /\ serviceCall[a].step = "record"
    /\ provenance' = [provenance EXCEPT ![serviceCall[a].v] = trust]
    /\ Returns(a)
    /\ UNCHANGED <<manifest, graphVersion, compiled, plansMade, proposed, aliasOf, lastRun, unseen,
                   planRaced>>

(* After the Draft was compiled; its risk decides the status.                 *)
RecordProposal(a, status) ==
    /\ serviceCall[a].step = "persist"
    /\ proposed' = [proposed EXCEPT ![serviceCall[a].v] = status]
    /\ Returns(a)
    /\ UNCHANGED <<manifest, graphVersion, compiled, plansMade, provenance, aliasOf, lastRun,
                   unseen, planRaced>>

(* The approval service of the Enterprise edition.                           *)
ApproveProposal(v) ==
    /\ proposed[v] = "PENDING_APPROVAL"
    /\ proposed' = [proposed EXCEPT ![v] = "granted"]
    /\ UNCHANGED <<manifest, graphVersion, compiled, plansMade, provenance, aliasOf, lastRun,
                   unseen, planRaced, serviceCall>>

-----------------------------------------------------------------------------
(* compile_version, and what compile_and_publish does after it.  A compile    *)
(* that finds an error returns it and changes nothing.                        *)

Compile(a, v, next) ==
    /\ StatusOf(v) \in {"DRAFT", "VALIDATED"}
    /\ Begins(a, [step |-> "validate", v |-> v, digest |-> manifest, next |-> next])
    /\ UNCHANGED <<manifest, graphVersion, compiled, plansMade, provenance, proposed, aliasOf,
                   lastRun, unseen, planRaced>>

(* Of a version that is no longer a Draft it changes nothing, and goes on.    *)
SetValidationResult(a) ==
    LET call == serviceCall[a] IN
    /\ call.step = "validate"
    /\ graphVersion' =
         IF StatusOf(call.v) = "DRAFT"
         THEN [graphVersion EXCEPT ![call.v].status = "VALIDATED", ![call.v].digest = call.digest]
         ELSE graphVersion
    /\ Continues(a, "plan")
    /\ UNCHANGED <<manifest, compiled, plansMade, provenance, proposed, aliasOf, lastRun, unseen,
                   planRaced>>

Compilable(v, digest) ==
    StatusOf(v) \in {"DRAFT", "VALIDATED"} /\ graphVersion[v].digest = digest
CheckForPlan(a) ==
    LET call == serviceCall[a] IN
    /\ call.step = "plan"
    /\ IF Compilable(call.v, call.digest) THEN Continues(a, "replace") ELSE Returns(a)
    /\ UNCHANGED <<manifest, graphVersion, compiled, plansMade, provenance, proposed, aliasOf,
                   lastRun, unseen, planRaced>>

(* DELETE and INSERT, in the transaction of the check, which locks nothing.   *)
ReplacePlan(a) ==
    LET call == serviceCall[a] IN
    /\ call.step = "replace"
    /\ plansMade < MaxPlans
    /\ plansMade' = plansMade + 1
    /\ compiled' = [compiled EXCEPT ![call.v] = [id |-> plansMade + 1, digest |-> call.digest]]
    /\ IF call.next = "none" THEN Returns(a) ELSE Continues(a, call.next)
    /\ UNCHANGED <<manifest, graphVersion, provenance, proposed, aliasOf, lastRun, unseen,
                   planRaced>>

(* The reads of transition_version before it publishes.  A plan that matches  *)
(* matches for good, so all of them are as of the last.                       *)
HasItsPlan(v) == compiled[v].id # 0 /\ compiled[v].digest = graphVersion[v].digest
Trusted(v) == provenance[v] \in {"none", "TRUSTED"}
Publishable(v) == proposed[v] \in {"none", "DRAFT", "granted"}
NotYetRecorded(v) ==
    \/ graphVersion[v].origin = "import" /\ provenance[v] = "none"
    \/ graphVersion[v].origin = "propose" /\ proposed[v] = "none"
ReviewForPublication(a) ==
    LET v == serviceCall[a].v IN
    /\ serviceCall[a].step = "review"
    /\ IF StatusOf(v) = "VALIDATED" /\ HasItsPlan(v) /\ Trusted(v) /\ Publishable(v)
       THEN /\ serviceCall' = [serviceCall EXCEPT ![a] =
                 [step |-> "transition", v |-> v, seen |-> "VALIDATED", to |-> "PUBLISHED"]]
            /\ proposed' = IF proposed[v] = "granted"
                           THEN [proposed EXCEPT ![v] = "APPROVED"] ELSE proposed
            /\ unseen' = IF NotYetRecorded(v) THEN unseen \cup {v} ELSE unseen
       ELSE Returns(a) /\ UNCHANGED <<proposed, unseen>>
    /\ UNCHANGED <<manifest, graphVersion, compiled, plansMade, provenance, aliasOf, lastRun,
                   planRaced>>

-----------------------------------------------------------------------------
(* Lifecycle, aliases and Runs                                               *)

(* What is_valid_status_transition allows beside publication.                 *)
Retires(old, new) ==
    \/ new = "ARCHIVED" /\ old \in {"DRAFT", "VALIDATED", "PUBLISHED", "DEPRECATED"}
    \/ new = "DEPRECATED" /\ old = "PUBLISHED"
BeginRetirement(a, v, new) ==
    /\ Retires(StatusOf(v), new)
    /\ Begins(a, [step |-> "transition", v |-> v, seen |-> StatusOf(v), to |-> new])
    /\ UNCHANGED <<manifest, graphVersion, compiled, plansMade, provenance, proposed, aliasOf,
                   lastRun, unseen, planRaced>>

(* UPDATE ... WHERE STATUS is what was read; compile_and_publish does not     *)
(* look at the result.                                                        *)
AnyStatus(v, seen) == StatusOf(v) # "none"
StillAs(v, seen) == StatusOf(v) = seen
TransitionVersion(a) ==
    LET call == serviceCall[a] IN
    /\ call.step = "transition"
    /\ graphVersion' = IF StillAs(call.v, call.seen)
                       THEN [graphVersion EXCEPT ![call.v].status = call.to] ELSE graphVersion
    /\ LET racing == \E b \in Authors : serviceCall[b].step = "replace" /\ serviceCall[b].v = call.v
       IN planRaced' = IF racing THEN planRaced \cup {call.v} ELSE planRaced
    /\ Returns(a)
    /\ UNCHANGED <<manifest, compiled, plansMade, provenance, proposed, aliasOf, lastRun,
                   unseen>>

BeginAlias(a, v) ==
    /\ StatusOf(v) \in Runnable
    /\ Begins(a, [step |-> "alias", v |-> v])
    /\ UNCHANGED <<manifest, graphVersion, compiled, plansMade, provenance, proposed, aliasOf,
                   lastRun, unseen, planRaced>>
SetAlias(a) ==
    /\ serviceCall[a].step = "alias"
    /\ aliasOf' = serviceCall[a].v
    /\ Returns(a)
    /\ UNCHANGED <<manifest, graphVersion, compiled, plansMade, provenance, proposed, lastRun,
                   unseen, planRaced>>

(* create_run and migrate_run admit a version with the plan it has now, in a  *)
(* transaction that looks at neither again.                                   *)
BeginRun(a, v) ==
    /\ StatusOf(v) \in Runnable /\ HasItsPlan(v)
    /\ Begins(a, [step |-> "run", v |-> v, plan |-> compiled[v].id])
    /\ UNCHANGED <<manifest, graphVersion, compiled, plansMade, provenance, proposed, aliasOf,
                   lastRun, unseen, planRaced>>
AdmitRun(a) ==
    /\ serviceCall[a].step = "run"
    /\ lastRun' = [version |-> serviceCall[a].v, plan |-> serviceCall[a].plan]
    /\ Returns(a)
    /\ UNCHANGED <<manifest, graphVersion, compiled, plansMade, provenance, proposed, aliasOf,
                   unseen, planRaced>>

(* The process dies, or a statement fails and the call raises.                *)
CallStops(a) ==
    /\ serviceCall[a] # NoServiceCall
    /\ Returns(a)
    /\ UNCHANGED <<manifest, graphVersion, compiled, plansMade, provenance, proposed, aliasOf,
                   lastRun, unseen, planRaced>>

DefinitionsNext ==
    \/ RegisterExecutor
    \/ \E v \in VersionNos : ApproveProposal(v)
    \/ \E a \in Authors :
         \/ \E origin \in {"edit", "import", "propose"} : CreateVersion(a, origin)
         \/ InsertVersion(a)
         \/ \E trust \in {"TRUSTED", "UNTRUSTED_DRAFT"} : RecordImport(a, trust)
         \/ \E status \in {"DRAFT", "PENDING_APPROVAL"} : RecordProposal(a, status)
         \/ \E v \in VersionNos :
              \/ \E next \in {"none", "review"} : Compile(a, v, next)
              \/ \E new \in {"DEPRECATED", "ARCHIVED"} : BeginRetirement(a, v, new)
              \/ BeginAlias(a, v) \/ BeginRun(a, v)
         \/ SetValidationResult(a) \/ CheckForPlan(a) \/ ReplacePlan(a)
         \/ ReviewForPublication(a) \/ TransitionVersion(a)
         \/ SetAlias(a) \/ AdmitRun(a) \/ CallStops(a)

-----------------------------------------------------------------------------
(* A version that Runs may take has the plan of just what was validated,      *)
(* whatever compiles of it overlapped while the manifest changed.             *)
PublishedIsCompiled == \A v \in VersionNos : StatusOf(v) \in Runnable => HasItsPlan(v)

(* What an untrusted import or an unapproved proposal drafted is published   *)
(* only by a call that looked before the second transaction recorded it.     *)
ReviewedBeforePublished ==
    \A v \in VersionNos :
        StatusOf(v) \in Runnable /\ v \notin unseen =>
            Trusted(v) /\ proposed[v] # "PENDING_APPROVAL"

(* An alias and a Run name a version that was published.                      *)
NamesPublished ==
    \A v \in {aliasOf, lastRun.version} \ {0} : StatusOf(v) \in Runnable \cup {"ARCHIVED"}

(* The plan row a Run was admitted with is there, unless a compile was past   *)
(* its check when the version was published: its new plan has another id.     *)
RunKeepsItsPlan ==
    lastRun # NoRun /\ lastRun.version \notin planRaced =>
        compiled[lastRun.version].id = lastRun.plan

(* A version goes through its lifecycle in one direction, is published only   *)
(* from VALIDATED, and keeps its digest from there on: no call that read it   *)
(* earlier takes it back.                                                     *)
Rank(status) ==
    CASE status = "none" -> 0 [] status = "DRAFT" -> 1 [] status = "VALIDATED" -> 2
      [] status = "PUBLISHED" -> 3 [] status = "DEPRECATED" -> 4 [] OTHER -> 5
GoesForward ==
    \A v \in VersionNos :
        LET new == graphVersion'[v] IN
        /\ Rank(new.status) >= Rank(StatusOf(v))
        /\ Rank(StatusOf(v)) >= 2 => new.digest = graphVersion[v].digest
        /\ Rank(StatusOf(v)) < 2 => new.status \notin Runnable

DefinitionsHold ==
    /\ [](PublishedIsCompiled /\ ReviewedBeforePublished /\ NamesPublished /\ RunKeepsItsPlan)
    /\ [][GoesForward]_definitionVars

DefinitionsSpec == DefinitionsInit /\ [][DefinitionsNext]_definitionVars
=============================================================================
