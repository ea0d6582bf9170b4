------------------------------ MODULE Migration ------------------------------
(***************************************************************************)
(* The migration runner (migration_runner.py): a process that applies the  *)
(* scripts of a release in order and keeps a journal row per script in the *)
(* database.  On Oracle and YashanDB a script is run statement by statement *)
(* and every DDL statement commits by itself; on PostgreSQL the script and  *)
(* its APPLIED row are one transaction.                                     *)
(*                                                                         *)
(* A run first selects its scripts by what it finds in the live schema, and *)
(* believes a probe of tables and columns where the journal is in doubt.    *)
(* Neither looks at everything a script makes.                              *)
(*                                                                         *)
(* Nothing keeps two runners from working on the same database, and a      *)
(* runner can be killed, or a statement can fail, at any point.            *)
(***************************************************************************)
EXTENDS Naturals

CONSTANTS
    Runners,        \* processes that run migration_runner.py
    Scripts,        \* length of the release's chain
    Statements,     \* statements of a script
    Probe,          \* per script: the objects, by script, its completeness probe looks for
    Evidence,       \* per script: finds of the selector that leave the script out of a run
    Retried         \* scripts whose unfinished row is closed by the probe alone

Chain == 1..Scripts
All == 1..Statements

(* What is looked for can be less than a script makes, or nothing, and can  *)
(* be what another script makes.                                            *)
ASSUME MigrationAssumption ==
    /\ Scripts \in Nat \ {0} /\ Statements \in Nat \ {0}
    /\ Probe \in [Chain -> [Chain -> SUBSET All]]
    /\ Evidence \in [Chain -> SUBSET [Chain -> SUBSET All]]
    /\ Retried \subseteq Chain

VARIABLES
    dialect,    \* "statement" or "transaction"
    lineage,    \* per script: what this release knows of an older checksum of it
    objects,    \* per script: statements whose objects exist
    stepRow,    \* per script: its row of AI_SCHEMA_MIGRATION_STEPS
    migrator,   \* per runner: selected scripts, script, phase, and next statement
    vouched     \* history: scripts whose row became APPLIED on the probe's word

migrationVars == <<dialect, lineage, objects, stepRow, migrator, vouched>>

NoRow == [sum |-> "none", status |-> "none"]
NotRunning == [at |-> "away", script |-> 1, next |-> 1, chain |-> Chain]
Lineages == {"unknown", "legacy", "repairable", "replayed"}
Phases == {"away", "look", "adopt", "mark", "apply", "record", "fail"}

MigrationTypeOK ==
    /\ dialect \in {"statement", "transaction"}
    /\ lineage \in [Chain -> Lineages]
    /\ objects \in [Chain -> SUBSET All]
    /\ \A k \in Chain : stepRow[k] \in {NoRow} \cup
         [sum : {"old", "new"}, status : {"RUNNING", "FAILED", "APPLIED"}]
    /\ migrator \in [Runners -> [at : Phases, script : Chain, next : 1..Statements + 1,
                               chain : SUBSET Chain]]
    /\ vouched \subseteq Chain

(* A database an earlier release, or a draft of this one, has been to: its  *)
(* rows have another checksum and its scripts may have made fewer objects.  *)
MigrationInit ==
    /\ dialect \in {"statement", "transaction"}
    /\ lineage \in [Chain -> Lineages]
    /\ \E earlier \in 0..Scripts :
         /\ \A k \in Chain : k > earlier => lineage[k] = "unknown"
         /\ stepRow = [k \in Chain |-> IF k <= earlier THEN [sum |-> "old", status |-> "APPLIED"]
                                                     ELSE NoRow]
         /\ \E made \in [Chain -> SUBSET All] :
              objects = [k \in Chain |-> IF k <= earlier THEN made[k] ELSE {}]
    /\ migrator = [r \in Runners |-> NotRunning]
    /\ vouched = {}

Found(what) == \A j \in Chain : what[j] \subseteq objects[j]
Passes(k) == Found(Probe[k])
LeftOut(k) == \E what \in Evidence[k] : Found(what)
Complete(k) == objects[k] = All
AppliedNow(k) == stepRow[k] = [sum |-> "new", status |-> "APPLIED"]
Enters(r, phase) == migrator' = [migrator EXCEPT ![r].at = phase]

(* The end of a script: the next one, or the end of the run. *)
NextScript(r) ==
    migrator' = [migrator EXCEPT ![r] =
                 IF @.script < Scripts
                 THEN [at |-> "look", script |-> @.script + 1, next |-> 1, chain |-> @.chain]
                 ELSE NotRunning]
(* A script that did not pass ends the run. *)
GivesUp(r) == migrator' = [migrator EXCEPT ![r] = NotRunning]
AfterFailure(r) == GivesUp(r)

-----------------------------------------------------------------------------

(* The scripts are selected once, before the first of them. A selector that *)
(* gets no answer keeps its scripts in.                                     *)
StartRunner(r) ==
    /\ migrator[r].at = "away"
    /\ \E unanswered \in SUBSET Chain :
         migrator' = [migrator EXCEPT ![r] =
                      [at |-> "look", script |-> 1, next |-> 1,
                       chain |-> {k \in Chain : k \in unanswered \/ ~LeftOut(k)}]]
    /\ UNCHANGED <<dialect, lineage, objects, stepRow, vouched>>

(* Killed: what is committed stays. *)
RunnerDies(r) ==
    /\ migrator[r].at # "away"
    /\ GivesUp(r)
    /\ UNCHANGED <<dialect, lineage, objects, stepRow, vouched>>

(* An APPLIED row of an older checksum: some scripts are always replayed,   *)
(* some when the probe misses part of them; a known older script the probe  *)
(* finds is adopted; anything else is refused.  A row of this checksum is   *)
(* trusted if the probe passes.  The scripts of Retried are trusted then    *)
(* even if the row says that the script failed or did not end.              *)
Replays(k) == lineage[k] = "replayed" \/ (lineage[k] = "repairable" /\ ~Passes(k))
Adoptable(k) == lineage[k] \in {"legacy", "repairable"} /\ Passes(k)
ClosedByProbe(k) == k \in Retried /\ stepRow[k].sum = "new" /\ Passes(k)
Look(r) ==
    LET k == migrator[r].script IN
        /\ migrator[r].at = "look"
        /\ CASE k \notin migrator[r].chain -> NextScript(r)
             [] k \in migrator[r].chain /\ stepRow[k] = [sum |-> "old", status |-> "APPLIED"] ->
                  IF Replays(k) THEN Enters(r, "mark")
                  ELSE IF Adoptable(k) THEN Enters(r, "adopt") ELSE GivesUp(r)
             [] OTHER ->
                  IF AppliedNow(k) /\ Passes(k) THEN NextScript(r)
                  ELSE IF ClosedByProbe(k) THEN Enters(r, "adopt") ELSE Enters(r, "mark")
        /\ UNCHANGED <<dialect, lineage, objects, stepRow, vouched>>

Writes(r, status) == stepRow' = [stepRow EXCEPT ![migrator[r].script] = [sum |-> "new", status |-> status]]

Adopt(r) ==
    /\ migrator[r].at = "adopt"
    /\ Writes(r, "APPLIED") /\ NextScript(r)
    /\ vouched' = vouched \cup {migrator[r].script}
    /\ UNCHANGED <<dialect, lineage, objects>>

(* The row is committed as RUNNING before the first statement. *)
MarkRunning(r) ==
    /\ migrator[r].at = "mark"
    /\ Writes(r, "RUNNING") /\ Enters(r, "apply")
    /\ UNCHANGED <<dialect, lineage, objects, vouched>>

(* One statement; that its object exists already is not an error, anything *)
(* else that it raises ends the script.                                     *)
Executes(r) == objects' = [objects EXCEPT ![migrator[r].script] = @ \cup {migrator[r].next}]
Advances(r) ==
    migrator' = [migrator EXCEPT ![r] = [at |-> IF @.next = Statements THEN "record" ELSE @.at,
                                         script |-> @.script, next |-> @.next + 1, chain |-> @.chain]]
AfterError(r) == Enters(r, "fail")
ApplyStatement(r) ==
    /\ dialect = "statement" /\ migrator[r].at = "apply"
    /\ \/ Executes(r) /\ Advances(r)
       \/ AfterError(r) /\ UNCHANGED objects
    /\ UNCHANGED <<dialect, lineage, stepRow, vouched>>

RecordApplied(r) ==
    /\ migrator[r].at = "record"
    /\ Writes(r, "APPLIED") /\ NextScript(r)
    /\ UNCHANGED <<dialect, lineage, objects, vouched>>

(* The script and its row in one transaction, or nothing of either. *)
ApplyTransaction(r) ==
    /\ dialect = "transaction" /\ migrator[r].at = "apply"
    /\ \/ /\ objects' = [objects EXCEPT ![migrator[r].script] = All]
          /\ Writes(r, "APPLIED") /\ NextScript(r)
       \/ Enters(r, "fail") /\ UNCHANGED <<objects, stepRow>>
    /\ UNCHANGED <<dialect, lineage, vouched>>

(* The row says FAILED, whatever another runner has written there since. *)
RecordFailure(r) ==
    /\ migrator[r].at = "fail"
    /\ Writes(r, "FAILED") /\ AfterFailure(r)
    /\ UNCHANGED <<dialect, lineage, objects, vouched>>

MigrationNext ==
    \E r \in Runners :
        \/ StartRunner(r) \/ RunnerDies(r) \/ Look(r) \/ Adopt(r) \/ MarkRunning(r)
        \/ ApplyStatement(r) \/ RecordApplied(r) \/ ApplyTransaction(r) \/ RecordFailure(r)

MigrationSpec == MigrationInit /\ [][MigrationNext]_migrationVars

-----------------------------------------------------------------------------
(* Properties *)

(* The journal claims a script of this release only if every statement of   *)
(* it was executed, or on the word of the probe, which still finds what it  *)
(* looked for; however its runners were interrupted, repaired or overlapped.*)
VouchedIsFound == \A k \in vouched : Passes(k)
AppliedIsThere ==
    \A k \in Chain : AppliedNow(k) => Complete(k) \/ k \in vouched

(* A script is accounted for when it was executed, vouched for, or found by *)
(* a selector.                                                              *)
AccountedFor(k) == Complete(k) \/ k \in vouched \/ LeftOut(k)

(* The postflight asks for the terminal script alone: once its row is       *)
(* APPLIED every script before it is accounted for, and a run that follows  *)
(* an interrupted or failed one dropped none of them silently.              *)
TerminalClosesChain ==
    AppliedNow(Scripts) => \A k \in Chain : AccountedFor(k)

(* The journal tells what is there, as far as the probes can see. *)
JournalHolds == VouchedIsFound /\ AppliedIsThere /\ TerminalClosesChain
=============================================================================
