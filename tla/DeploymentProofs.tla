-------------------------- MODULE DeploymentProofs ---------------------------
(***************************************************************************)
(* Installing and migrating a database, for any runners, scripts,          *)
(* statements and runs of the deployment agent: the journal of the         *)
(* migrations tells what is there, and a run that says it ended left a     *)
(* whole platform.                                                         *)
(***************************************************************************)
EXTENDS Migration, Deployment, TLAPS

-----------------------------------------------------------------------------
(* The migration runner *)

(* Objects are only ever added, so what a runner has made, a probe has      *)
(* passed or a selector has found stays so while others work on the same    *)
(* database.  The invariant follows a runner: the scripts before its own    *)
(* are accounted for, what it left out was found, the probe of one it       *)
(* adopts passes, and of its own the statements before the next are         *)
(* executed.                                                                *)

USE MigrationAssumption

(* What the runner behind m knows of the objects. *)
Knows(m) ==
    /\ m.at = "away" => m.script = 1
    /\ m.at \in {"away", "look", "mark"} => m.next = 1
    /\ m.at # "away" => \A k \in Chain : k < m.script => AccountedFor(k)
    /\ m.at # "away" => \A k \in Chain : k \notin m.chain => LeftOut(k)
    /\ m.at = "adopt" => Passes(m.script)
    /\ m.at = "apply" => \A i \in All : i < m.next => i \in objects[m.script]
    /\ m.at = "record" => Complete(m.script)

MigratorsKnow == \A r \in Runners : Knows(migrator[r])

(* A script that is APPLIED now closes the chain up to it. *)
AppliedClosesChain ==
    \A k \in Chain : AppliedNow(k) => \A j \in Chain : j <= k => AccountedFor(j)

Migrators == [at : Phases, script : Chain, next : 1..Statements + 1, chain : SUBSET Chain]
StepRows == [sum : {"none", "old", "new"}, status : {"none", "RUNNING", "FAILED", "APPLIED"}]

MigrationInv ==
    /\ MigrationTypeOK
    /\ stepRow \in [Chain -> StepRows]
    /\ (\A r \in Runners : migrator[r].at = "apply" => migrator[r].next <= Statements)
    /\ MigratorsKnow /\ VouchedIsFound /\ AppliedIsThere /\ AppliedClosesChain

(* A step that only adds objects and vouched scripts. *)
OnlyAdds ==
    /\ objects' \in [Chain -> SUBSET All] /\ \A k \in Chain : objects[k] \subseteq objects'[k]
    /\ vouched' \in SUBSET Chain /\ vouched \subseteq vouched'

LEMMA MigrationBegins == MigrationInit => MigrationInv
<1> SUFFICES ASSUME MigrationInit PROVE MigrationInv
  OBVIOUS
<1>1. PICK earlier \in 0..Scripts :
        /\ stepRow = [k \in Chain |-> IF k <= earlier THEN [sum |-> "old", status |-> "APPLIED"]
                                                    ELSE [sum |-> "none", status |-> "none"]]
        /\ \E made \in [Chain -> SUBSET All] :
             objects = [k \in Chain |-> IF k <= earlier THEN made[k] ELSE {}]
  BY DEF MigrationInit, NoRow
<1>2. /\ migrator = [r \in Runners |-> [at |-> "away", script |-> 1, next |-> 1, chain |-> Chain]]
      /\ vouched = {}
  BY DEF MigrationInit, NotRunning
<1>3. 1 \in Chain /\ 1 \in 1..Statements + 1
  BY DEF Chain
<1>4. stepRow \in [Chain -> StepRows] /\ \A k \in Chain : stepRow[k] \in {NoRow} \cup
         [sum : {"old", "new"}, status : {"RUNNING", "FAILED", "APPLIED"}]
  BY <1>1 DEF StepRows, NoRow
<1>5. objects \in [Chain -> SUBSET All]
  BY <1>1
<1>6. MigrationTypeOK
  <2>1. migrator \in [Runners -> [at : Phases, script : Chain, next : 1..Statements + 1, chain : SUBSET Chain]]
    BY <1>2, <1>3 DEF Phases
  <2> QED BY <1>2, <1>4, <1>5, <2>1 DEF MigrationTypeOK, MigrationInit
<1>7. MigratorsKnow
  BY <1>2 DEF MigratorsKnow, Knows
<1>8. \A k \in Chain : ~AppliedNow(k)
  BY <1>1 DEF AppliedNow
<1> QED BY <1>2, <1>4, <1>6, <1>7, <1>8
        DEF MigrationInv, VouchedIsFound, AppliedIsThere, AppliedClosesChain

(* What was there stays. *)
LEMMA WhatIsThereStays ==
    ASSUME OnlyAdds, NEW k \in Chain
    PROVE  /\ Complete(k) => Complete(k)'
           /\ Passes(k) => Passes(k)'
           /\ LeftOut(k) => LeftOut(k)'
           /\ AccountedFor(k) => AccountedFor(k)'
<1>1. \A what : Found(what) => Found(what)'
  BY DEF Found, OnlyAdds
<1>2. Complete(k) => Complete(k)'
  BY DEF Complete, OnlyAdds
<1>3. Passes(k) => Passes(k)'
  BY DEF Passes, Found, OnlyAdds
<1>4. LeftOut(k) => LeftOut(k)'
  BY <1>1 DEF LeftOut
<1> QED BY <1>2, <1>3, <1>4 DEF AccountedFor, OnlyAdds

(* The step of one runner, and what has to be shown of it. *)
LEMMA RunnerStepKeeps ==
    ASSUME MigrationInv, NEW r \in Runners, NEW m \in Migrators,
           NEW own \in Chain, own = migrator[r].script,
           migrator' = [migrator EXCEPT ![r] = m],
           OnlyAdds, \A k \in vouched' \ vouched : Passes(k),
           UNCHANGED <<dialect, lineage>>,
           m.at = "apply" => m.next <= Statements,
           Knows(m)',
           \/ stepRow' = stepRow
           \/ \E status \in {"RUNNING", "FAILED", "APPLIED"} :
                /\ stepRow' = [stepRow EXCEPT ![migrator[r].script] = [sum |-> "new", status |-> status]]
                /\ status = "APPLIED" =>
                     /\ Complete(own)' \/ own \in vouched'
                     /\ \A j \in Chain : j <= own => AccountedFor(j)'
    PROVE  MigrationInv'
<1>1. migrator' \in [Runners -> Migrators] /\ migrator[r].script \in Chain
  BY DEF MigrationInv, MigrationTypeOK, Migrators
<1>2. \A q \in Runners : migrator'[q] = IF q = r THEN m ELSE migrator[q]
  BY DEF MigrationInv, MigrationTypeOK
<1>3. MigratorsKnow'
  <2> SUFFICES ASSUME NEW q \in Runners PROVE Knows(migrator[q])'
    BY DEF MigratorsKnow
  <2>1. CASE q = r
    <3>1. migrator'[q] = m
      BY <1>2, <2>1
    <3> QED BY <3>1 DEF Knows, Complete, Passes, Found, LeftOut, AccountedFor
  <2>2. CASE q # r
    <3>1. Knows(migrator[q]) /\ migrator[q].script \in Chain
      BY DEF MigrationInv, MigratorsKnow, MigrationTypeOK
    <3>2. migrator'[q] = migrator[q]
      BY <1>2, <2>2
    <3>3. \A k \in Chain : /\ Complete(k) => Complete(k)'
                           /\ Passes(k) => Passes(k)'
                           /\ LeftOut(k) => LeftOut(k)'
                           /\ AccountedFor(k) => AccountedFor(k)'
      BY WhatIsThereStays
    <3>4. objects[migrator[q].script] \subseteq objects'[migrator[q].script]
      BY <3>1 DEF OnlyAdds
    <3> QED BY <3>1, <3>2, <3>3, <3>4 DEF Knows
  <2> QED BY <2>1, <2>2
<1>4. stepRow' \in [Chain -> StepRows] /\ \A k \in Chain : stepRow'[k] \in {NoRow} \cup
         [sum : {"old", "new"}, status : {"RUNNING", "FAILED", "APPLIED"}]
  <2>1. CASE stepRow' = stepRow
    BY <2>1 DEF MigrationInv, MigrationTypeOK
  <2>2. ASSUME NEW status \in {"RUNNING", "FAILED", "APPLIED"},
               stepRow' = [stepRow EXCEPT ![migrator[r].script] = [sum |-> "new", status |-> status]]
        PROVE  stepRow' \in [Chain -> StepRows] /\ \A k \in Chain : stepRow'[k] \in {NoRow} \cup
                 [sum : {"old", "new"}, status : {"RUNNING", "FAILED", "APPLIED"}]
    BY <2>2 DEF MigrationInv, MigrationTypeOK, StepRows
  <2> QED BY <2>1, <2>2
<1>5. ASSUME NEW k \in Chain, AppliedNow(k)'
      PROVE  /\ Complete(k)' \/ k \in vouched'
             /\ \A j \in Chain : j <= k => AccountedFor(j)'
  <2>1. CASE AppliedNow(k)
    <3>1. Complete(k) \/ k \in vouched
      BY <2>1 DEF MigrationInv, AppliedIsThere
    <3>2. \A j \in Chain : j <= k => AccountedFor(j)
      BY <2>1 DEF MigrationInv, AppliedClosesChain
    <3> QED BY <3>1, <3>2, WhatIsThereStays DEF OnlyAdds
  <2>2. CASE ~AppliedNow(k)
    <3>1. stepRow' # stepRow
      BY <1>5, <2>2 DEF AppliedNow
    <3>2. PICK status \in {"RUNNING", "FAILED", "APPLIED"} :
                /\ stepRow' = [stepRow EXCEPT ![migrator[r].script] = [sum |-> "new", status |-> status]]
                /\ status = "APPLIED" =>
                     /\ Complete(own)' \/ own \in vouched'
                     /\ \A j \in Chain : j <= own => AccountedFor(j)'
      BY <3>1
    <3>3. k = own /\ status = "APPLIED"
      BY <1>5, <2>2, <3>2 DEF AppliedNow, MigrationInv
    <3> QED BY <3>2, <3>3
  <2> QED BY <2>1, <2>2
<1>6. MigrationTypeOK'
  BY <1>1, <1>4 DEF MigrationInv, MigrationTypeOK, Migrators, OnlyAdds
<1>7. \A q \in Runners : migrator'[q].at = "apply" => migrator'[q].next <= Statements
  BY <1>2 DEF MigrationInv
<1>8. VouchedIsFound'
  <2>1. \A k \in vouched' : k \in Chain /\ Passes(k)
    BY DEF OnlyAdds, MigrationInv, VouchedIsFound
  <2> QED BY <2>1, WhatIsThereStays DEF VouchedIsFound
<1>9. AppliedIsThere' /\ AppliedClosesChain'
  BY <1>5 DEF AppliedIsThere, AppliedClosesChain
<1> QED BY <1>3, <1>4, <1>6, <1>7, <1>8, <1>9 DEF MigrationInv

-----------------------------------------------------------------------------
(* Where a runner goes. *)

LEMMA MigratorForm ==
    ASSUME MigrationInv, NEW r \in Runners
    PROVE  /\ migrator[r] \in Migrators /\ migrator[r].script \in Chain /\ Knows(migrator[r])
           /\ migrator[r] = [at |-> migrator[r].at, script |-> migrator[r].script, next |-> migrator[r].next,
                             chain |-> migrator[r].chain]
           /\ objects \in [Chain -> SUBSET All] /\ vouched \in SUBSET Chain
BY DEF MigrationInv, MigrationTypeOK, MigratorsKnow, Migrators

LEMMA EntersForm ==
    ASSUME MigrationInv, NEW r \in Runners, NEW phase \in Phases, Enters(r, phase)
    PROVE  \E m \in Migrators : /\ m.at = phase /\ m.script = migrator[r].script /\ m.next = migrator[r].next
                               /\ m.chain = migrator[r].chain
                               /\ migrator' = [migrator EXCEPT ![r] = m]
<1> DEFINE n == [at |-> phase, script |-> migrator[r].script, next |-> migrator[r].next,
                 chain |-> migrator[r].chain]
<1>0. migrator[r] = [at |-> migrator[r].at, script |-> migrator[r].script, next |-> migrator[r].next,
                     chain |-> migrator[r].chain]
  BY MigratorForm
<1>1. [migrator[r] EXCEPT !.at = phase] = n
  BY <1>0
<1>2. migrator' = [migrator EXCEPT ![r] = [migrator[r] EXCEPT !.at = phase]]
  BY DEF Enters
<1>3. /\ n \in Migrators /\ n.at = phase /\ n.script = migrator[r].script /\ n.next = migrator[r].next
      /\ n.chain = migrator[r].chain
  BY MigratorForm DEF Migrators
<1> QED BY <1>1, <1>2, <1>3

LEMMA GivesUpForm ==
    ASSUME MigrationInv, NEW r \in Runners, GivesUp(r)
    PROVE  \E m \in Migrators : /\ m.at # "apply" /\ Knows(m)'
                               /\ migrator' = [migrator EXCEPT ![r] = m]
<1> DEFINE n == [at |-> "away", script |-> 1, next |-> 1, chain |-> Chain]
<1>1. n \in Migrators
  BY DEF Migrators, Phases, Chain
<1>2. PICK m \in Migrators : m = n
  BY <1>1
<1>3. Knows(m)'
  BY <1>2 DEF Knows
<1> QED BY <1>2, <1>3 DEF GivesUp, NotRunning

(* The next script is begun with the one before accounted for. *)
LEMMA NextScriptForm ==
    ASSUME MigrationInv, NEW r \in Runners, NextScript(r), migrator[r].at # "away",
           NEW k \in Chain, k = migrator[r].script, OnlyAdds, AccountedFor(k)'
    PROVE  /\ \E m \in Migrators : /\ m.at # "apply" /\ Knows(m)'
                                  /\ migrator' = [migrator EXCEPT ![r] = m]
           /\ \A j \in Chain : j <= k => AccountedFor(j)'
<1>0. PICK c \in SUBSET Chain : c = migrator[r].chain
  BY MigratorForm DEF Migrators
<1>1. \A j \in Chain : j <= k => AccountedFor(j)'
  <2> SUFFICES ASSUME NEW j \in Chain, j <= k PROVE AccountedFor(j)'
    OBVIOUS
  <2>1. CASE j = k BY <2>1
  <2>2. CASE j # k
    <3>1. j < k BY <2>2 DEF Chain
    <3>2. AccountedFor(j) BY <3>1, MigratorForm DEF Knows
    <3> QED BY <3>2, WhatIsThereStays
  <2> QED BY <2>1, <2>2
<1>2. CASE k < Scripts
  <2>1. [at |-> "look", script |-> k + 1, next |-> 1, chain |-> c] \in Migrators
    BY <1>2 DEF Migrators, Phases, Chain
  <2>2. PICK m \in Migrators : m = [at |-> "look", script |-> k + 1, next |-> 1, chain |-> c]
    BY <2>1
  <2>3. \A j \in Chain : j \notin c => LeftOut(j)'
    BY <1>0, MigratorForm, WhatIsThereStays DEF Knows
  <2>4. \A j \in Chain : j < k + 1 => AccountedFor(j)'
    BY <1>1 DEF Chain
  <2>5. Knows(m)'
    BY <2>2, <2>3, <2>4 DEF Knows
  <2>6. migrator' = [migrator EXCEPT ![r] = m]
    BY <1>0, <1>2, <2>2 DEF NextScript
  <2> QED BY <1>1, <2>2, <2>5, <2>6
<1>3. CASE ~(k < Scripts)
  <2>1. [at |-> "away", script |-> 1, next |-> 1, chain |-> Chain] \in Migrators
    BY DEF Migrators, Phases, Chain
  <2>2. PICK m \in Migrators : m = [at |-> "away", script |-> 1, next |-> 1, chain |-> Chain]
    BY <2>1
  <2>3. Knows(m)'
    BY <2>2 DEF Knows
  <2>4. migrator' = [migrator EXCEPT ![r] = m]
    BY <1>3, <2>2 DEF NextScript, NotRunning
  <2> QED BY <1>1, <2>2, <2>3, <2>4
<1> QED BY <1>2, <1>3

(* A change of place alone. *)
LEMMA WalkKeeps ==
    ASSUME MigrationInv, NEW r \in Runners, UNCHANGED <<dialect, lineage, objects, stepRow, vouched>>,
           \/ GivesUp(r)
           \/ NextScript(r) /\ migrator[r].at # "away" /\ AccountedFor(migrator[r].script)
           \/ \E phase \in {"mark", "fail", "adopt"} :
                /\ Enters(r, phase) /\ migrator[r].at # "away"
                /\ phase = "mark" => migrator[r].at = "look"
                /\ phase = "adopt" => Passes(migrator[r].script)
    PROVE  MigrationInv'
<1>0. OnlyAdds /\ \A k \in vouched' \ vouched : Passes(k)
  BY MigratorForm DEF OnlyAdds
<1>00. PICK own \in Chain : own = migrator[r].script
  BY MigratorForm
<1>1. CASE GivesUp(r)
  <2>1. PICK m \in Migrators : /\ m.at # "apply" /\ Knows(m)'
                               /\ migrator' = [migrator EXCEPT ![r] = m]
    BY <1>1, GivesUpForm
  <2> QED BY <1>0, <1>00, <2>1, RunnerStepKeeps
<1>2. CASE NextScript(r) /\ migrator[r].at # "away" /\ AccountedFor(migrator[r].script)
  <2>1. AccountedFor(own)'
    BY <1>0, <1>00, <1>2, WhatIsThereStays
  <2>2. PICK m \in Migrators : m.at # "apply" /\ Knows(m)' /\ migrator' = [migrator EXCEPT ![r] = m]
    BY <1>0, <1>00, <1>2, <2>1, NextScriptForm
  <2> QED BY <1>0, <1>00, <2>2, RunnerStepKeeps
<1>3. ASSUME NEW phase \in {"mark", "fail", "adopt"}, Enters(r, phase), migrator[r].at # "away",
             phase = "mark" => migrator[r].at = "look", phase = "adopt" => Passes(migrator[r].script)
      PROVE  MigrationInv'
  <2>1. PICK m \in Migrators : /\ m.at = phase /\ m.script = migrator[r].script /\ m.next = migrator[r].next
                               /\ m.chain = migrator[r].chain
                               /\ migrator' = [migrator EXCEPT ![r] = m]
    BY <1>3, EntersForm DEF Phases
  <2>2. Knows(m)
    <3>1. Knows(migrator[r])
      BY MigratorForm
    <3>2. /\ m.at = phase
          /\ m.at = "mark" => m.next = 1
          /\ m.at = "adopt" => Passes(m.script)
      BY <1>3, <2>1, <3>1 DEF Knows
    <3>3. /\ \A k \in Chain : k < m.script => AccountedFor(k)
          /\ \A k \in Chain : k \notin m.chain => LeftOut(k)
      BY <1>3, <2>1, <3>1 DEF Knows
    <3> QED BY <3>2, <3>3 DEF Knows
  <2>3. Knows(m)'
    BY <2>2 DEF Knows, Complete, Passes, Found, LeftOut, AccountedFor
  <2> QED BY <1>0, <1>00, <1>3, <2>1, <2>3, RunnerStepKeeps
<1> QED BY <1>1, <1>2, <1>3

(* A run begins with what its selectors found. *)
LEMMA StartRunnerKeeps ==
    ASSUME MigrationInv, NEW r \in Runners, StartRunner(r)
    PROVE  MigrationInv'
<1>1. PICK unanswered \in SUBSET Chain :
        migrator' = [migrator EXCEPT ![r] =
                     [at |-> "look", script |-> 1, next |-> 1,
                      chain |-> {k \in Chain : k \in unanswered \/ ~LeftOut(k)}]]
  BY DEF StartRunner
<1> DEFINE c == {k \in Chain : k \in unanswered \/ ~LeftOut(k)}
           n == [at |-> "look", script |-> 1, next |-> 1, chain |-> c]
<1>2. n \in Migrators
  BY DEF Migrators, Phases, Chain
<1>3. \A k \in Chain : k \notin c => LeftOut(k)
  OBVIOUS
<1>4. PICK m \in Migrators : m = n
  BY <1>2
<1>5. m.at = "look" /\ m.script = 1 /\ m.next = 1 /\ \A k \in Chain : k \notin m.chain => LeftOut(k)
  BY <1>3, <1>4
<1>6. \A k \in Chain : ~(k < m.script)
  BY <1>5 DEF Chain
<1>7. UNCHANGED <<dialect, lineage, objects, stepRow, vouched>>
  BY DEF StartRunner
<1>8. Knows(m)'
  BY <1>5, <1>6, <1>7 DEF Knows, LeftOut, Found
<1>9. OnlyAdds /\ \A k \in vouched' \ vouched : Passes(k)
  BY <1>7, MigratorForm DEF OnlyAdds
<1>10. migrator' = [migrator EXCEPT ![r] = m]
  BY <1>1, <1>4
<1>11. PICK own \in Chain : own = migrator[r].script
  BY MigratorForm
<1> QED BY <1>5, <1>7, <1>8, <1>9, <1>10, <1>11, RunnerStepKeeps

LEMMA LookKeeps ==
    ASSUME MigrationInv, NEW r \in Runners, Look(r)
    PROVE  MigrationInv'
<1> DEFINE k == migrator[r].script
<1>1. migrator[r].at = "look" /\ UNCHANGED <<dialect, lineage, objects, stepRow, vouched>>
  BY DEF Look
<1>2. \/ GivesUp(r)
      \/ NextScript(r) /\ (k \notin migrator[r].chain \/ AppliedNow(k))
      \/ Enters(r, "mark")
      \/ Enters(r, "adopt") /\ Passes(k)
  BY DEF Look, Adoptable, ClosedByProbe
<1>3. k \notin migrator[r].chain => AccountedFor(k)
  BY <1>1, MigratorForm DEF Knows, AccountedFor
<1>4. AppliedNow(k) => AccountedFor(k)
  BY MigratorForm DEF MigrationInv, AppliedIsThere, AccountedFor
<1> QED BY <1>1, <1>2, <1>3, <1>4, WalkKeeps

(* The row is written when the script is known to be there, or vouched for. *)
LEMMA ClosesKeeps ==
    ASSUME MigrationInv, NEW r \in Runners, migrator[r].at # "away",
           OnlyAdds, \A k \in vouched' \ vouched : Passes(k),
           NEW own \in Chain, own = migrator[r].script, Complete(own)' \/ own \in vouched',
           Writes(r, "APPLIED"), NextScript(r), UNCHANGED <<dialect, lineage>>
    PROVE  MigrationInv'
<1>0. AccountedFor(own)'
  BY DEF AccountedFor
<1>1. PICK m \in Migrators : m.at # "apply" /\ Knows(m)' /\ migrator' = [migrator EXCEPT ![r] = m]
  BY <1>0, NextScriptForm
<1>2. \A j \in Chain : j <= own => AccountedFor(j)'
  BY <1>0, NextScriptForm
<1> QED BY <1>1, <1>2, RunnerStepKeeps DEF Writes

LEMMA MarkKeeps ==
    ASSUME MigrationInv, NEW r \in Runners, MarkRunning(r)
    PROVE  MigrationInv'
<1>1. PICK m \in Migrators : /\ m.at = "apply" /\ m.script = migrator[r].script /\ m.next = migrator[r].next
                             /\ m.chain = migrator[r].chain
                             /\ migrator' = [migrator EXCEPT ![r] = m]
  BY EntersForm DEF MarkRunning, Phases
<1>2. Knows(m) /\ m.next <= Statements
  <2>1. Knows(migrator[r]) /\ migrator[r].at = "mark"
    BY MigratorForm DEF MarkRunning
  <2> QED BY <1>1, <2>1 DEF Knows, All
<1>3. Knows(m)'
  BY <1>2 DEF Knows, Complete, Passes, Found, LeftOut, AccountedFor, MarkRunning
<1>4. /\ OnlyAdds /\ \A k \in vouched' \ vouched : Passes(k)
      /\ stepRow' = [stepRow EXCEPT ![migrator[r].script] = [sum |-> "new", status |-> "RUNNING"]]
      /\ UNCHANGED <<dialect, lineage>>
  BY MigratorForm DEF MarkRunning, Writes, OnlyAdds
<1>5. PICK own \in Chain : own = migrator[r].script
  BY MigratorForm
<1> QED BY <1>1, <1>2, <1>3, <1>4, <1>5, RunnerStepKeeps

LEMMA NextOrBefore ==
    ASSUME NEW i \in Nat, NEW j \in Nat, j < i + 1
    PROVE  j < i \/ j = i
OBVIOUS

LEMMA StatementKeeps ==
    ASSUME MigrationInv, NEW r \in Runners, ApplyStatement(r), Executes(r), Advances(r)
    PROVE  MigrationInv'
<1>0. PICK k \in Chain, i \in 1..Statements + 1, c \in SUBSET Chain :
        k = migrator[r].script /\ i = migrator[r].next /\ c = migrator[r].chain
  BY MigratorForm DEF Migrators
<1> DEFINE place == IF i = Statements THEN "record" ELSE "apply"
<1>1. /\ migrator[r].at = "apply" /\ Knows(migrator[r]) /\ k \in Chain /\ i \in 1..Statements
      /\ c \in SUBSET Chain /\ objects \in [Chain -> SUBSET All]
      /\ UNCHANGED <<dialect, lineage, stepRow, vouched>>
  <2>1. migrator[r] \in Migrators /\ Knows(migrator[r]) /\ objects \in [Chain -> SUBSET All]
    BY MigratorForm
  <2>2. migrator[r].at = "apply" /\ migrator[r].next <= Statements
    BY DEF ApplyStatement, MigrationInv
  <2> QED BY <1>0, <2>1, <2>2 DEF Migrators, ApplyStatement
<1>2. objects' = [objects EXCEPT ![k] = @ \cup {i}]
  BY <1>0 DEF Executes
<1>3. OnlyAdds /\ \A j \in vouched' \ vouched : Passes(j)
  BY <1>1, <1>2, MigratorForm DEF All, OnlyAdds
<1>4. migrator' = [migrator EXCEPT ![r] = [at |-> place, script |-> k, next |-> i + 1, chain |-> c]]
  BY <1>0, <1>1 DEF Advances
<1>5. [at |-> place, script |-> k, next |-> i + 1, chain |-> c] \in Migrators
  BY <1>1 DEF Migrators, Phases
<1>6. PICK m \in Migrators : m = [at |-> place, script |-> k, next |-> i + 1, chain |-> c]
  BY <1>5
<1>7. \A j \in All : j < i + 1 => j \in objects'[k]
  <2>1. \A j \in All : j < i => j \in objects[k]
    <3>1. \A j \in All : j < migrator[r].next => j \in objects[migrator[r].script]
      BY <1>1 DEF Knows
    <3> QED BY <1>0, <3>1
  <2>2. \A j \in All : j < i + 1 => j < i \/ j = i
    <3>1. i \in Nat /\ All \subseteq Nat
      BY <1>1 DEF All
    <3> QED BY <3>1, NextOrBefore
  <2>3. objects'[k] = objects[k] \cup {i}
    BY <1>1, <1>2
  <2> QED BY <2>1, <2>2, <2>3
<1>8. i = Statements => objects'[k] = All
  <2>1. i = Statements => \A j \in All : j \in objects'[k]
    BY <1>7 DEF All
  <2>2. objects'[k] \subseteq All
    BY <1>1, <1>3 DEF OnlyAdds
  <2> QED BY <2>1, <2>2
<1>9. \A j \in Chain : (j < k => AccountedFor(j)') /\ (j \notin c => LeftOut(j)')
  <2>1. \A j \in Chain : (j < k => AccountedFor(j)) /\ (j \notin c => LeftOut(j))
    BY <1>0, <1>1 DEF Knows
  <2> QED BY <1>3, <2>1, WhatIsThereStays
<1>10. /\ m.at = place /\ m.script = k /\ m.next = i + 1 /\ m.chain = c
       /\ place = "record" => i = Statements /\ place # "apply"
       /\ place \in {"record", "apply"}
  BY <1>6
<1>11. Knows(m)'
  BY <1>7, <1>8, <1>9, <1>10 DEF Knows, Complete
<1>12. m.at = "apply" => m.next <= Statements
  BY <1>1, <1>6
<1> QED BY <1>0, <1>1, <1>3, <1>4, <1>6, <1>11, <1>12, RunnerStepKeeps

LEMMA MigrationStepKeeps ==
    ASSUME MigrationInv, [MigrationNext]_migrationVars
    PROVE  MigrationInv'
<1>1. CASE UNCHANGED migrationVars
  BY <1>1 DEF migrationVars, MigrationInv, MigrationTypeOK, MigratorsKnow, Knows, AppliedClosesChain,
              AppliedIsThere, VouchedIsFound, AppliedNow, Complete, Passes, Found, LeftOut, AccountedFor
<1>2. ASSUME NEW r \in Runners, RunnerDies(r) PROVE MigrationInv'
  BY <1>2, WalkKeeps DEF RunnerDies
<1>3. ASSUME NEW r \in Runners, Adopt(r) PROVE MigrationInv'
  <2>0. PICK own \in Chain : own = migrator[r].script
    BY MigratorForm
  <2>1. /\ Knows(migrator[r]) /\ migrator[r].script \in Chain
        /\ objects \in [Chain -> SUBSET All] /\ vouched \in SUBSET Chain
    BY MigratorForm
  <2>2. migrator[r].at = "adopt" /\ Passes(migrator[r].script)
    BY <1>3, <2>1 DEF Adopt, Knows
  <2>3. vouched' = vouched \cup {migrator[r].script} /\ UNCHANGED <<dialect, lineage, objects>>
    BY <1>3 DEF Adopt
  <2>4. OnlyAdds /\ \A k \in vouched' \ vouched : Passes(k)
    BY <2>1, <2>2, <2>3 DEF OnlyAdds
  <2> QED BY <1>3, <2>0, <2>2, <2>3, <2>4, ClosesKeeps DEF Adopt
<1>4. ASSUME NEW r \in Runners, RecordApplied(r) PROVE MigrationInv'
  <2>0. PICK own \in Chain : own = migrator[r].script
    BY MigratorForm
  <2>1. /\ Knows(migrator[r]) /\ objects \in [Chain -> SUBSET All] /\ vouched \in SUBSET Chain
        /\ UNCHANGED <<dialect, lineage, objects, vouched>>
    BY <1>4, MigratorForm DEF RecordApplied
  <2>2. migrator[r].at = "record" /\ objects[migrator[r].script] = All
    BY <1>4, <2>1 DEF RecordApplied, Knows, Complete
  <2>3. Writes(r, "APPLIED") /\ NextScript(r)
    BY <1>4 DEF RecordApplied
  <2>4. OnlyAdds /\ \A k \in vouched' \ vouched : Passes(k)
    BY <2>1 DEF OnlyAdds
  <2>5. Complete(own)'
    BY <2>0, <2>1, <2>2 DEF Complete
  <2> QED BY <2>0, <2>1, <2>2, <2>3, <2>4, <2>5, ClosesKeeps
<1>5. ASSUME NEW r \in Runners, ApplyStatement(r) PROVE MigrationInv'
  <2>1. CASE Executes(r) /\ Advances(r) BY <1>5, <2>1, StatementKeeps
  <2>2. CASE AfterError(r) /\ UNCHANGED objects
    BY <1>5, <2>2, WalkKeeps DEF ApplyStatement, AfterError
  <2> QED BY <1>5, <2>1, <2>2 DEF ApplyStatement
<1>6. ASSUME NEW r \in Runners, ApplyTransaction(r) PROVE MigrationInv'
  <2>1. /\ objects \in [Chain -> SUBSET All] /\ migrator[r].script \in Chain /\ migrator[r].at = "apply"
        /\ vouched \in SUBSET Chain /\ UNCHANGED <<dialect, lineage, vouched>>
    BY <1>6, MigratorForm DEF ApplyTransaction
  <2>2. CASE Enters(r, "fail") /\ UNCHANGED <<objects, stepRow>>
    BY <1>6, <2>1, <2>2, WalkKeeps DEF ApplyTransaction
  <2>3. CASE /\ objects' = [objects EXCEPT ![migrator[r].script] = All]
             /\ Writes(r, "APPLIED") /\ NextScript(r)
    <3>0. PICK own \in Chain : own = migrator[r].script
      BY <2>1
    <3>1. OnlyAdds /\ Complete(own)'
      BY <2>1, <2>3, <3>0 DEF OnlyAdds, Complete
    <3>2. \A k \in vouched' \ vouched : Passes(k)
      BY <2>1
    <3> QED BY <2>1, <2>3, <3>0, <3>1, <3>2, ClosesKeeps
  <2> QED BY <1>6, <2>2, <2>3 DEF ApplyTransaction
<1>7. ASSUME NEW r \in Runners, RecordFailure(r) PROVE MigrationInv'
  <2>1. PICK m \in Migrators : m.at # "apply" /\ Knows(m)' /\ migrator' = [migrator EXCEPT ![r] = m]
    BY <1>7, GivesUpForm DEF RecordFailure, AfterFailure
  <2>2. /\ OnlyAdds /\ \A k \in vouched' \ vouched : Passes(k)
        /\ stepRow' = [stepRow EXCEPT ![migrator[r].script] = [sum |-> "new", status |-> "FAILED"]]
        /\ UNCHANGED <<dialect, lineage>>
    BY <1>7, MigratorForm DEF RecordFailure, Writes, OnlyAdds
  <2>3. PICK own \in Chain : own = migrator[r].script
    BY MigratorForm
  <2> QED BY <2>1, <2>2, <2>3, RunnerStepKeeps
<1> QED BY <1>1, <1>2, <1>3, <1>4, <1>5, <1>6, <1>7, StartRunnerKeeps, LookKeeps, MarkKeeps DEF MigrationNext

LEMMA MigrationKeeps == MigrationSpec => []MigrationInv
<1>1. MigrationInv /\ [MigrationNext]_migrationVars => MigrationInv' BY MigrationStepKeeps
<1> QED BY MigrationBegins, <1>1, PTL DEF MigrationSpec

(* Journal, objects and runners have their types. *)
THEOREM MigrationTypes == MigrationSpec => []MigrationTypeOK
<1>1. MigrationInv => MigrationTypeOK BY DEF MigrationInv
<1> QED BY MigrationKeeps, <1>1, PTL

(* Whatever the probes and selectors look at, the journal claims a script   *)
(* of this release only when all of it was executed or its probe vouched    *)
(* for it, and an APPLIED terminal row means that each script before it was *)
(* executed, vouched for or found by a selector                             *)
(* (migration_runner.py:1955-2137, 2178-2293).                              *)
THEOREM JournalTellsWhatIsThere == MigrationSpec => []JournalHolds
<1>1. MigrationInv => JournalHolds
  <2>1. Scripts \in Chain /\ \A k \in Chain : k <= Scripts
    BY DEF Chain
  <2> QED BY <2>1 DEF MigrationInv, AppliedClosesChain, JournalHolds, TerminalClosesChain
<1> QED BY MigrationKeeps, <1>1, PTL

HIDE MigrationAssumption

-----------------------------------------------------------------------------
(* The deployment agent *)

(* A run is as far as its journal, its row and its agent say.  The target   *)
(* only gains, whoever installs: a script that is refused or stops on the   *)
(* way takes no table, administrator or migration away.  So what a process  *)
(* found or did stays, and a run that completes has a whole platform        *)
(* before it.                                                               *)

SchemaStates == {"absent", "part", "whole", "torn"}
ProcessRow == [at : InstallSteps, mode : Modes, resuming : BOOLEAN, handedOff : BOOLEAN,
               boundary : BOOLEAN, done : 0..BaseActions]
JournalFile == [open : BOOLEAN, mode : Modes, boundary : BOOLEAN]
TargetRow == [schema : SchemaStates, base : 0..BaseActions, migrated : 0..Migrations,
              admin : BOOLEAN, native : BOOLEAN]
RowStatus == {"none", "NATIVE_HANDOFF", "COMPLETED", "RETIRED"}
AgentStatus == {"none", "ACTIVE", "RETIRED"}

(* How far a process is says what its own row and journal are ... *)
RunIsOrderly(r) ==
    /\ installer[r].at # "idle" => journal[r].open /\ journal[r].mode = installer[r].mode
    /\ installer[r].at \in {"preflight", "boundary"} => installer[r].done = 0
    /\ installer[r].at \in {"preflight", "boundary", "base"} =>
         (installer[r].handedOff <=> runRow[r] = "NATIVE_HANDOFF")
    /\ installer[r].at = "base" =>
         installer[r].done < BaseActions /\ ~installer[r].handedOff /\ installer[r].mode = "INITIALIZE"
    /\ installer[r].at = "retireRun" => runRow[r] = "COMPLETED"
    /\ installer[r].at \in {"retireAgent", "retireJournal"} => runRow[r] = "RETIRED"
    /\ installer[r].at = "retireJournal" => bootAgent[r] = "RETIRED"

(* ... and what the target already is.                                      *)
InstallIsOrderly(r) ==
    /\ installer[r].at = "base" => installer[r].done <= target.base
    /\ installer[r].at = "admin" /\ ~installer[r].handedOff => target.base = BaseActions
    /\ installer[r].at \in {"handoff", "native", "models", "complete"} => target.migrated = Migrations
    /\ installer[r].at \in {"models", "complete"} => target.admin /\ target.native
TargetIsOrderly ==
    /\ target.admin => target.base = BaseActions
    /\ ~HasSchema => target.base = 0
EndedIsWhole == \A r \in Installs : runRow[r] \in {"COMPLETED", "RETIRED"} => Whole

(* The run that tore a schema is stopped there whenever it is resumed. *)
StuckRun(r) ==
    /\ UnfinishedRun(r)
    /\ installer[r].at \in {"idle", "preflight", "boundary", "base"}
    /\ installer[r].at = "base" => installer[r].done = 0
TornByStuckRun == target.schema = "torn" => \E r \in Installs : StuckRun(r)

DeploymentInv ==
    /\ DeploymentTypeOK
    /\ journal \in [Installs -> JournalFile] /\ installer \in [Installs -> ProcessRow]
    /\ \A r \in Installs : RunIsOrderly(r) /\ InstallIsOrderly(r)
    /\ TargetIsOrderly /\ EndedIsWhole /\ ClosedRunIsRetired /\ TornByStuckRun

LEMMA DeploymentParts ==
    ASSUME DeploymentInv, NEW r \in Installs
    PROVE  /\ installer[r] \in ProcessRow /\ journal[r] \in JournalFile /\ target \in TargetRow
           /\ runRow \in [Installs -> RowStatus] /\ bootAgent \in [Installs -> AgentStatus]
           /\ raced \in BOOLEAN
           /\ journal \in [Installs -> JournalFile] /\ installer \in [Installs -> ProcessRow]
BY DEF DeploymentInv, DeploymentTypeOK, TargetRow, RowStatus, AgentStatus, SchemaStates

LEMMA TypesHold ==
    ASSUME journal' \in [Installs -> JournalFile], installer' \in [Installs -> ProcessRow], target' \in TargetRow,
           runRow' \in [Installs -> RowStatus], bootAgent' \in [Installs -> AgentStatus], raced' \in BOOLEAN
    PROVE  DeploymentTypeOK'
BY DEF DeploymentTypeOK, JournalFile, ProcessRow, TargetRow, RowStatus, AgentStatus, SchemaStates

LEMMA BoundaryIsWritten ==
    ASSUME NEW f \in JournalFile, NEW b \in BOOLEAN
    PROVE  /\ [f EXCEPT !.boundary = b] \in JournalFile /\ [f EXCEPT !.boundary = b].open = f.open
           /\ [f EXCEPT !.boundary = b].mode = f.mode
BY DEF JournalFile

(* The target gains, and is not torn by this step. *)
TargetGrows ==
    /\ target' \in TargetRow /\ target'.base >= target.base /\ target'.migrated >= target.migrated
    /\ target.admin => target'.admin
    /\ target.native => target'.native
NotTorn == target'.schema = "torn" => target.schema = "torn"

LEMMA SameTargetGrows ==
    ASSUME target \in TargetRow, UNCHANGED target
    PROVE  TargetGrows /\ NotTorn
BY DeploymentAssumption DEF TargetGrows, NotTorn, TargetRow

(* What is true of a target stays true. *)
LEMMA WhatGrewStays ==
    ASSUME target \in TargetRow, TargetGrows
    PROVE  /\ target.base = BaseActions => target'.base = BaseActions
           /\ target.migrated = Migrations => target'.migrated = Migrations
           /\ Whole => Whole'
<1>1. /\ target.base \in 0..BaseActions /\ target'.base \in 0..BaseActions /\ target'.base >= target.base
      /\ target.migrated \in 0..Migrations /\ target'.migrated \in 0..Migrations
      /\ target'.migrated >= target.migrated
      /\ BaseActions \in Nat /\ Migrations \in Nat
  BY DeploymentAssumption DEF TargetGrows, TargetRow
<1>2. /\ target.base = BaseActions => target'.base = BaseActions
      /\ target.migrated = Migrations => target'.migrated = Migrations
  BY <1>1
<1>3. Whole => target'.admin /\ target'.native
  BY DEF Whole, TargetGrows
<1> QED
  BY <1>2, <1>3 DEF Whole

(* One process makes a step. *)
LEMMA OneProcessMoves ==
    ASSUME DeploymentInv, NEW r \in Installs,
           installer' \in [Installs -> ProcessRow], journal' \in [Installs -> JournalFile],
           runRow' \in [Installs -> RowStatus], bootAgent' \in [Installs -> AgentStatus], raced' \in BOOLEAN,
           \A q \in Installs \ {r} : /\ installer'[q] = installer[q] /\ journal'[q] = journal[q]
                                     /\ runRow'[q] = runRow[q] /\ bootAgent'[q] = bootAgent[q],
           TargetGrows, TargetIsOrderly', RunIsOrderly(r)', InstallIsOrderly(r)',
           ~journal'[r].open /\ runRow'[r] # "none" => runRow'[r] = "RETIRED" /\ bootAgent'[r] = "RETIRED",
           runRow'[r] \in {"COMPLETED", "RETIRED"} => runRow[r] \in {"COMPLETED", "RETIRED"} \/ Whole,
           target'.schema = "torn" => \/ target.schema = "torn" /\ (StuckRun(r) => StuckRun(r)')
                                      \/ StuckRun(r)'
    PROVE  DeploymentInv'
<1>0. target \in TargetRow /\ target' \in TargetRow
  BY DeploymentParts DEF TargetGrows
<1>1. DeploymentTypeOK'
  BY <1>0, TypesHold
<1>2. ASSUME NEW q \in Installs PROVE RunIsOrderly(q)'
  BY <1>2 DEF DeploymentInv, RunIsOrderly
<1>3. ClosedRunIsRetired'
  BY DEF DeploymentInv, ClosedRunIsRetired
<1>4. ASSUME NEW q \in Installs \ {r} PROVE InstallIsOrderly(q)'
  <2>1. InstallIsOrderly(q) /\ installer'[q] = installer[q] /\ installer[q] \in ProcessRow
    BY DeploymentParts DEF DeploymentInv
  <2>2. installer[q].done <= target.base => installer[q].done <= target'.base
    <3>1. /\ installer[q].done \in 0..BaseActions /\ target.base \in 0..BaseActions
          /\ target'.base \in 0..BaseActions /\ target'.base >= target.base /\ BaseActions \in Nat
      BY <1>0, <2>1, DeploymentAssumption DEF TargetGrows, TargetRow, ProcessRow
    <3> QED BY <3>1
  <2> QED
    BY <1>0, <2>1, <2>2, WhatGrewStays DEF InstallIsOrderly, TargetGrows
<1>5. EndedIsWhole'
  <2> SUFFICES ASSUME NEW q \in Installs, runRow'[q] \in {"COMPLETED", "RETIRED"} PROVE Whole'
    BY DEF EndedIsWhole
  <2>1. Whole
    BY DEF DeploymentInv, EndedIsWhole
  <2> QED
    BY <1>0, <2>1, WhatGrewStays
<1>6. TornByStuckRun'
  <2> SUFFICES ASSUME target'.schema = "torn", ~StuckRun(r)' PROVE \E q \in Installs : StuckRun(q)'
    BY DEF TornByStuckRun
  <2>1. PICK q \in Installs : StuckRun(q)
    BY DEF DeploymentInv, TornByStuckRun, NotTorn
  <2>2. q # r
    BY <2>1
  <2>3. StuckRun(q)'
    BY <2>1, <2>2 DEF StuckRun, UnfinishedRun
  <2> QED BY <2>3
<1>7. \A q \in Installs : InstallIsOrderly(q)'
  BY <1>4
<1> QED
  BY <1>1, <1>2, <1>3, <1>5, <1>6, <1>7 DEF DeploymentInv

(* A process goes on to another step. *)
LEMMA StepIsTaken ==
    ASSUME DeploymentInv, NEW r \in Installs, NEW step \in InstallSteps, GoesTo(r, step)
    PROVE  /\ installer' \in [Installs -> ProcessRow]
           /\ \A q \in Installs \ {r} : installer'[q] = installer[q]
           /\ installer'[r].at = step /\ installer'[r].done = installer[r].done
           /\ installer'[r].handedOff = installer[r].handedOff /\ installer'[r].mode = installer[r].mode
<1>1. installer \in [Installs -> ProcessRow] /\ installer[r] \in ProcessRow
  BY DEF DeploymentInv
<1> DEFINE row == [at |-> step, mode |-> installer[r].mode, resuming |-> installer[r].resuming,
                   handedOff |-> installer[r].handedOff, boundary |-> installer[r].boundary,
                   done |-> installer[r].done]
<1>2. [installer[r] EXCEPT !.at = step] = row
  BY <1>1 DEF ProcessRow
<1>3. installer' = [installer EXCEPT ![r] = row]
  BY <1>2 DEF GoesTo
<1>4. /\ row \in ProcessRow /\ row.at = step /\ row.done = installer[r].done
      /\ row.handedOff = installer[r].handedOff /\ row.mode = installer[r].mode
  BY <1>1 DEF ProcessRow
<1> HIDE DEF row
<1> QED
  BY <1>1, <1>3, <1>4

LEMMA AbsentIsProcess == Absent \in ProcessRow /\ Absent.at = "idle"
BY DeploymentAssumption DEF Absent, ProcessRow, InstallSteps, Modes

(* The step of a process that leaves its row, its journal's mode and the    *)
(* principal as they are.                                                   *)
LEMMA ProcessSteps ==
    ASSUME DeploymentInv, NEW r \in Installs, installer[r].at # "idle",
           installer' \in [Installs -> ProcessRow], \A q \in Installs \ {r} : installer'[q] = installer[q],
           journal' \in [Installs -> JournalFile], \A q \in Installs \ {r} : journal'[q] = journal[q],
           journal'[r].open, journal'[r].mode = journal[r].mode,
           UNCHANGED <<runRow, bootAgent>>, raced' \in BOOLEAN,
           TargetGrows, NotTorn, TargetIsOrderly', RunIsOrderly(r)', InstallIsOrderly(r)',
           installer[r].at \in {"preflight", "boundary"} =>
               /\ installer'[r].at \in {"idle", "boundary", "base"} \/ ~StuckRun(r)
               /\ installer'[r].at = "base" => installer'[r].done = 0,
           installer[r].at = "base" => installer'[r].at = "idle" \/ ~StuckRun(r)
    PROVE  DeploymentInv'
<1>1. StuckRun(r) => StuckRun(r)'
  BY DEF StuckRun, UnfinishedRun
<1>2. runRow \in [Installs -> RowStatus] /\ bootAgent \in [Installs -> AgentStatus]
  BY DeploymentParts
<1>3. target'.schema = "torn" => target.schema = "torn" /\ (StuckRun(r) => StuckRun(r)')
  BY <1>1 DEF NotTorn
<1>4. runRow'[r] \in {"COMPLETED", "RETIRED"} => runRow[r] \in {"COMPLETED", "RETIRED"}
  OBVIOUS
<1> QED
  BY <1>2, <1>3, <1>4, OneProcessMoves

LEMMA ProcessEnds ==
    ASSUME DeploymentInv, NEW r \in Installs, installer[r].at # "idle", Idles(r),
           UNCHANGED <<journal, target, runRow, bootAgent, raced>>
    PROVE  DeploymentInv'
<1>1. /\ installer' \in [Installs -> ProcessRow] /\ \A q \in Installs \ {r} : installer'[q] = installer[q]
      /\ installer'[r].at = "idle"
  BY AbsentIsProcess DEF DeploymentInv, Idles
<1>2. RunIsOrderly(r)' /\ InstallIsOrderly(r)'
  BY <1>1 DEF RunIsOrderly, InstallIsOrderly
<1>3. journal[r].open
  BY DEF DeploymentInv, RunIsOrderly
<1>4. TargetGrows /\ NotTorn /\ TargetIsOrderly'
  BY DeploymentParts, SameTargetGrows DEF DeploymentInv, TargetIsOrderly, HasSchema
<1> QED
  BY <1>1, <1>2, <1>3, <1>4, ProcessSteps, DeploymentParts

(* A process goes on and leaves the target and its row as they are. *)
LEMMA ProcessGoesOn ==
    ASSUME DeploymentInv, NEW r \in Installs,
           NEW step \in {"boundary", "base", "admin", "migrate", "handoff", "models", "complete"},
           installer[r].at # "idle", installer[r].at # "base", GoesTo(r, step),
           UNCHANGED <<target, runRow, bootAgent>>, raced' \in BOOLEAN,
           journal' \in [Installs -> JournalFile], \A q \in Installs \ {r} : journal'[q] = journal[q],
           journal'[r].open, journal'[r].mode = journal[r].mode, InstallIsOrderly(r)',
           step \in {"boundary", "base"} => installer[r].at \in {"preflight", "boundary"},
           step = "base" => ~installer[r].handedOff /\ installer[r].mode = "INITIALIZE",
           installer[r].at \in {"preflight", "boundary"} => step \in {"boundary", "base"} \/ ~StuckRun(r)
    PROVE  DeploymentInv'
<1>0. step \in InstallSteps
  BY DEF InstallSteps
<1>1. /\ installer' \in [Installs -> ProcessRow] /\ \A q \in Installs \ {r} : installer'[q] = installer[q]
      /\ installer'[r].at = step /\ installer'[r].done = installer[r].done
      /\ installer'[r].handedOff = installer[r].handedOff /\ installer'[r].mode = installer[r].mode
  BY <1>0, StepIsTaken
<1>2. RunIsOrderly(r) /\ BaseActions \in Nat \ {0}
  BY DeploymentAssumption DEF DeploymentInv
<1>3. RunIsOrderly(r)'
  BY <1>1, <1>2 DEF RunIsOrderly
<1>4. TargetGrows /\ NotTorn /\ TargetIsOrderly'
  BY DeploymentParts, SameTargetGrows DEF DeploymentInv, TargetIsOrderly, HasSchema
<1>5. installer[r].at \in {"preflight", "boundary"} => installer'[r].done = 0
  BY <1>1, <1>2 DEF RunIsOrderly
<1> QED
  BY <1>1, <1>3, <1>4, <1>5, ProcessSteps

LEMMA StartsKeep ==
    ASSUME DeploymentInv, NEW r \in Installs, StartRun(r) \/ ResumeRun(r)
    PROVE  DeploymentInv'
<1>0. /\ installer[r].at = "idle" /\ UNCHANGED <<target, runRow, bootAgent, raced>>
      /\ installer[r] \in ProcessRow /\ journal[r] \in JournalFile /\ target \in TargetRow
      /\ journal \in [Installs -> JournalFile] /\ installer \in [Installs -> ProcessRow]
      /\ runRow \in [Installs -> RowStatus] /\ bootAgent \in [Installs -> AgentStatus] /\ raced \in BOOLEAN
  BY DeploymentParts DEF StartRun, ResumeRun
<1>1. PICK row \in ProcessRow, file \in JournalFile :
        /\ row.at = "preflight" /\ row.done = 0 /\ file.open /\ row.mode = file.mode
        /\ (row.handedOff <=> runRow[r] = "NATIVE_HANDOFF")
        /\ journal[r].open => file.mode = journal[r].mode
        /\ installer' = [installer EXCEPT ![r] = row] /\ journal' = [journal EXCEPT ![r] = file]
  <2>1. CASE StartRun(r)
    <3>1. PICK mode \in Modes :
            /\ journal' = [journal EXCEPT ![r] = [open |-> TRUE, mode |-> mode, boundary |-> FALSE]]
            /\ installer' = [installer EXCEPT ![r] =
                 [at |-> "preflight", mode |-> mode, resuming |-> FALSE, handedOff |-> FALSE,
                  boundary |-> FALSE, done |-> 0]]
      BY <2>1 DEF StartRun
    <3>2. /\ [open |-> TRUE, mode |-> mode, boundary |-> FALSE] \in JournalFile
          /\ [at |-> "preflight", mode |-> mode, resuming |-> FALSE, handedOff |-> FALSE,
              boundary |-> FALSE, done |-> 0] \in ProcessRow
      BY DeploymentAssumption DEF JournalFile, ProcessRow, InstallSteps
    <3>3. runRow[r] # "NATIVE_HANDOFF" /\ ~journal[r].open
      BY <2>1 DEF StartRun, NoJournal
    <3> QED
      BY <3>1, <3>2, <3>3
  <2>2. CASE ResumeRun(r)
    <3> DEFINE row == [at |-> "preflight", mode |-> journal[r].mode, resuming |-> TRUE,
                       handedOff |-> HandedOff(r), boundary |-> journal[r].boundary, done |-> 0]
               file == [journal[r] EXCEPT !.boundary = FALSE]
    <3>1. journal[r].open /\ installer' = [installer EXCEPT ![r] = row] /\ journal' = [journal EXCEPT ![r] = file]
      BY <2>2 DEF ResumeRun
    <3>2. file \in JournalFile /\ file.open /\ file.mode = journal[r].mode
      BY <1>0, <3>1, BoundaryIsWritten
    <3>3. /\ journal[r].mode \in Modes /\ journal[r].boundary \in BOOLEAN
          /\ HandedOff(r) \in BOOLEAN /\ 0 \in 0..BaseActions /\ "preflight" \in InstallSteps
      BY <1>0, DeploymentAssumption DEF JournalFile, InstallSteps, HandedOff
    <3>4. row \in ProcessRow /\ row.at = "preflight" /\ row.done = 0 /\ row.mode = journal[r].mode
      BY <3>3 DEF ProcessRow
    <3>5. row.handedOff <=> runRow[r] = "NATIVE_HANDOFF"
      BY DEF HandedOff
    <3> HIDE DEF row, file
    <3> QED
      BY <3>1, <3>2, <3>4, <3>5
  <2> QED
    BY <2>1, <2>2
<1>2. /\ installer' \in [Installs -> ProcessRow] /\ journal' \in [Installs -> JournalFile]
      /\ installer'[r] = row /\ journal'[r] = file
      /\ \A q \in Installs \ {r} : installer'[q] = installer[q] /\ journal'[q] = journal[q]
  BY <1>0, <1>1
<1>3. RunIsOrderly(r)' /\ InstallIsOrderly(r)'
  BY <1>0, <1>1, <1>2 DEF RunIsOrderly, InstallIsOrderly
<1>4. TargetGrows /\ NotTorn /\ TargetIsOrderly'
  BY <1>0, SameTargetGrows DEF DeploymentInv, TargetIsOrderly, HasSchema
<1>5. StuckRun(r) => StuckRun(r)'
  BY <1>0, <1>1, <1>2 DEF StuckRun, UnfinishedRun
<1> QED
  BY <1>0, <1>1, <1>2, <1>3, <1>4, <1>5, OneProcessMoves

LEMMA PreflightKeeps ==
    ASSUME DeploymentInv, NEW r \in Installs, InstallerStops(r) \/ CheckTarget(r) \/ RecoveryBoundary(r)
    PROVE  DeploymentInv'
<1>0. /\ installer[r].at # "idle" /\ UNCHANGED <<target, runRow, bootAgent>>
      /\ journal \in [Installs -> JournalFile] /\ journal[r].open /\ journal[r] \in JournalFile
      /\ installer[r] \in ProcessRow /\ RunIsOrderly(r) /\ raced \in BOOLEAN
  BY DeploymentParts DEF DeploymentInv, RunIsOrderly, InstallerStops, CheckTarget, RecoveryBoundary
<1>1. CASE Idles(r) /\ UNCHANGED <<journal, raced>>
  BY <1>0, <1>1, ProcessEnds
<1>2. CASE CheckTarget(r) /\ GoesTo(r, "boundary")
  <2>1. UNCHANGED <<journal, raced>> /\ installer[r].at = "preflight" /\ "boundary" \in InstallSteps
    BY <1>2 DEF CheckTarget, InstallSteps
  <2>2. InstallIsOrderly(r)'
    BY <1>2, <2>1, StepIsTaken DEF InstallIsOrderly
  <2> QED
    BY <1>0, <1>2, <2>1, <2>2, ProcessGoesOn
<1>3. ASSUME installer[r].at = "boundary", NEW step \in {"admin", "base", "migrate"}, GoesTo(r, step),
             journal' = [journal EXCEPT ![r].boundary = TRUE], raced' \in BOOLEAN,
             step = "admin" => installer[r].handedOff,
             step = "base" => ~installer[r].handedOff /\ installer[r].mode = "INITIALIZE",
             step = "migrate" => installer[r].mode # "INITIALIZE"
      PROVE  DeploymentInv'
  <2>1. /\ journal' \in [Installs -> JournalFile] /\ journal'[r].open /\ journal'[r].mode = journal[r].mode
        /\ \A q \in Installs \ {r} : journal'[q] = journal[q]
    <3> DEFINE file == [journal[r] EXCEPT !.boundary = TRUE]
    <3>1. /\ file \in JournalFile /\ file.open /\ file.mode = journal[r].mode
          /\ journal' = [journal EXCEPT ![r] = file]
      BY <1>0, <1>3, BoundaryIsWritten
    <3> HIDE DEF file
    <3> QED
      BY <1>0, <3>1
  <2>2. step \in InstallSteps
    BY DEF InstallSteps
  <2>3. installer'[r].at = step /\ installer'[r].done = installer[r].done
        /\ installer'[r].handedOff = installer[r].handedOff
    BY <1>3, <2>2, StepIsTaken
  <2>4. installer[r].done = 0 /\ target.base \in Nat
    BY <1>0, <1>3, DeploymentParts, DeploymentAssumption DEF RunIsOrderly, TargetRow
  <2>5. InstallIsOrderly(r)'
    BY <1>0, <1>3, <2>3, <2>4 DEF InstallIsOrderly
  <2>6. StuckRun(r) => step = "base"
    BY <1>0, <1>3 DEF StuckRun, UnfinishedRun, RunIsOrderly
  <2> QED
    BY <1>0, <1>3, <2>1, <2>5, <2>6, ProcessGoesOn
<1>4. CASE RecoveryBoundary(r)
  <2>1. CASE Idles(r) /\ UNCHANGED <<journal, raced>>
    BY <1>1, <2>1
  <2>2. CASE ~(Idles(r) /\ UNCHANGED <<journal, raced>>)
    <3>1. installer[r].at = "boundary" /\ journal' = [journal EXCEPT ![r].boundary = TRUE]
      BY <1>4, <2>2 DEF RecoveryBoundary
    <3>2. raced' = raced \/ raced' = (raced \/ (~SkipsBase(r) /\ OthersBuild(r)))
      BY <1>4, <2>2 DEF RecoveryBoundary
    <3>3. raced' \in BOOLEAN
      BY <1>0, <3>2, Zenon
    <3>4. \E step \in {"admin", "base", "migrate"} :
            /\ GoesTo(r, step) /\ (step = "admin" => installer[r].handedOff)
            /\ step = "base" => ~installer[r].handedOff /\ installer[r].mode = "INITIALIZE"
            /\ step = "migrate" => installer[r].mode # "INITIALIZE"
      BY <1>4, <2>2 DEF RecoveryBoundary, SkipsBase
    <3> QED
      BY <1>3, <3>1, <3>3, <3>4
  <2> QED
    BY <2>1, <2>2
<1> QED
  BY <1>1, <1>2, <1>4 DEF InstallerStops, CheckTarget

-----------------------------------------------------------------------------
(* Fields of the target. *)

LEMMA TargetGains ==
    ASSUME NEW t \in TargetRow
    PROVE  /\ [t EXCEPT !.admin = TRUE] \in TargetRow /\ [t EXCEPT !.admin = TRUE].admin
           /\ [t EXCEPT !.admin = TRUE].base = t.base /\ [t EXCEPT !.admin = TRUE].native = t.native
           /\ [t EXCEPT !.admin = TRUE].migrated = t.migrated /\ [t EXCEPT !.admin = TRUE].schema = t.schema
           /\ [t EXCEPT !.native = TRUE] \in TargetRow /\ [t EXCEPT !.native = TRUE].native
           /\ [t EXCEPT !.native = TRUE].base = t.base /\ [t EXCEPT !.native = TRUE].admin = t.admin
           /\ [t EXCEPT !.native = TRUE].migrated = t.migrated /\ [t EXCEPT !.native = TRUE].schema = t.schema
           /\ t.base \in Nat /\ t.migrated \in Nat
<1>1. t = [schema |-> t.schema, base |-> t.base, migrated |-> t.migrated, admin |-> t.admin, native |-> t.native]
  BY DEF TargetRow
<1>2. /\ [t EXCEPT !.admin = TRUE] \in TargetRow /\ [t EXCEPT !.admin = TRUE].admin
      /\ [t EXCEPT !.admin = TRUE].base = t.base /\ [t EXCEPT !.admin = TRUE].native = t.native
      /\ [t EXCEPT !.admin = TRUE].migrated = t.migrated /\ [t EXCEPT !.admin = TRUE].schema = t.schema
  BY <1>1 DEF TargetRow
<1>3. /\ [t EXCEPT !.native = TRUE] \in TargetRow /\ [t EXCEPT !.native = TRUE].native
      /\ [t EXCEPT !.native = TRUE].base = t.base /\ [t EXCEPT !.native = TRUE].admin = t.admin
      /\ [t EXCEPT !.native = TRUE].migrated = t.migrated /\ [t EXCEPT !.native = TRUE].schema = t.schema
  BY <1>1 DEF TargetRow
<1>4. t.base \in Nat /\ t.migrated \in Nat
  BY DeploymentAssumption DEF TargetRow
<1> QED
  BY <1>2, <1>3, <1>4

(* A step that writes schema, base or migrated alone. *)
LEMMA TargetIsWritten ==
    ASSUME target \in TargetRow, NEW s \in SchemaStates, NEW b \in 0..BaseActions, NEW m \in 0..Migrations,
           b >= target.base, m >= target.migrated,
           target' = [schema |-> s, base |-> b, migrated |-> m, admin |-> target.admin, native |-> target.native]
    PROVE  /\ TargetGrows
           /\ target'.schema = s /\ target'.base = b
           /\ (target'.admin <=> target.admin)
<1>1. target.admin \in BOOLEAN /\ target.native \in BOOLEAN
  BY DEF TargetRow
<1>2. target' \in TargetRow
  BY <1>1 DEF TargetRow
<1>3. /\ target'.schema = s /\ target'.base = b /\ target'.migrated = m
      /\ (target'.admin <=> target.admin) /\ (target'.native <=> target.native)
  OBVIOUS
<1> QED
  BY <1>2, <1>3 DEF TargetGrows

LEMMA TargetFields ==
    ASSUME target \in TargetRow
    PROVE  /\ target.schema \in SchemaStates /\ target.base \in 0..BaseActions /\ target.migrated \in 0..Migrations
           /\ target.base >= target.base /\ target.migrated >= target.migrated
           /\ BaseActions \in Nat \ {0} /\ Migrations \in Nat \ {0}
           /\ target.base \in Nat /\ target.migrated \in Nat
           /\ {"part", "whole", "torn"} \subseteq SchemaStates
BY DeploymentAssumption DEF TargetRow, SchemaStates

-----------------------------------------------------------------------------
(* The base plan. *)

(* A process at the base plan has done k of its actions. *)
BaseGoesOn(r, k) ==
    installer' = [installer EXCEPT ![r].done = k, ![r].at = IF k = BaseActions THEN "admin" ELSE @]

LEMMA BaseStepIsTaken ==
    ASSUME DeploymentInv, NEW r \in Installs, NEW k \in 1..BaseActions, installer[r].at = "base", BaseGoesOn(r, k)
    PROVE  /\ installer' \in [Installs -> ProcessRow] /\ \A q \in Installs \ {r} : installer'[q] = installer[q]
           /\ installer'[r].at = IF k = BaseActions THEN "admin" ELSE "base"
           /\ installer'[r].done = k /\ installer'[r].mode = installer[r].mode
           /\ installer'[r].handedOff = installer[r].handedOff
<1> DEFINE step == IF k = BaseActions THEN "admin" ELSE "base"
           row == [at |-> installer[r].at, mode |-> installer[r].mode, resuming |-> installer[r].resuming,
                   handedOff |-> installer[r].handedOff, boundary |-> installer[r].boundary, done |-> k]
           half == [installer EXCEPT ![r] = row]
           new == [at |-> step, mode |-> installer[r].mode, resuming |-> installer[r].resuming,
                   handedOff |-> installer[r].handedOff, boundary |-> installer[r].boundary, done |-> k]
<1>0. installer \in [Installs -> ProcessRow] /\ installer[r] \in ProcessRow
  BY DeploymentParts
<1>1. [installer EXCEPT ![r].done = k] = half
  <2>1. [installer[r] EXCEPT !.done = k] = row
    BY <1>0 DEF ProcessRow
  <2>2. [installer EXCEPT ![r].done = k] = [installer EXCEPT ![r] = [installer[r] EXCEPT !.done = k]]
    OBVIOUS
  <2> QED
    BY <2>1, <2>2
<1>2. installer' = [[installer EXCEPT ![r].done = k] EXCEPT ![r].at = IF k = BaseActions THEN "admin" ELSE @]
  BY DEF BaseGoesOn
<1>3. installer' = [half EXCEPT ![r].at = IF k = BaseActions THEN "admin" ELSE @]
  <2> HIDE DEF half
  <2> QED
    BY <1>1, <1>2, Zenon
<1>4. [half EXCEPT ![r].at = IF k = BaseActions THEN "admin" ELSE @]
        = [half EXCEPT ![r] = [half[r] EXCEPT !.at = IF k = BaseActions THEN "admin" ELSE half[r].at]]
  OBVIOUS
<1>5. half[r] = row /\ row.at = "base"
  <2>1. row.at = "base"
    OBVIOUS
  <2> HIDE DEF row
  <2> QED
    BY <1>0, <2>1
<1>6. [row EXCEPT !.at = IF k = BaseActions THEN "admin" ELSE "base"] = new
  OBVIOUS
<1>7. [half EXCEPT ![r] = new] = [installer EXCEPT ![r] = new]
  <2> HIDE DEF row, new
  <2> QED
    OBVIOUS
<1>8. installer' = [installer EXCEPT ![r] = new]
  <2> HIDE DEF half, row, new
  <2> QED
    BY <1>3, <1>4, <1>5, <1>6, <1>7, Zenon
<1>9. /\ new \in ProcessRow /\ new.at = step /\ new.done = k
      /\ new.mode = installer[r].mode /\ new.handedOff = installer[r].handedOff
  <2>1. k \in 0..BaseActions /\ step \in InstallSteps
    BY DEF InstallSteps
  <2> HIDE DEF step
  <2> QED
    BY <1>0, <2>1 DEF ProcessRow
<1> HIDE DEF new
<1> QED
  BY <1>0, <1>8, <1>9

(* The next action of the base plan is done. *)
LEMMA BasePlanGrows ==
    ASSUME DeploymentInv, NEW r \in Installs, installer[r].at = "base",
           NEW k \in 1..BaseActions, k = installer[r].done + 1,
           BaseGoesOn(r, k),
           UNCHANGED <<journal, runRow, bootAgent, raced>>,
           TargetGrows, target'.base >= k, target'.admin <=> target.admin,
           target'.schema = target.schema \/ target'.schema = "whole",
           installer[r].done = 0 => target'.schema = "whole"
    PROVE  DeploymentInv'
<1>0. /\ journal[r].open /\ journal \in [Installs -> JournalFile] /\ raced \in BOOLEAN
      /\ runRow \in [Installs -> RowStatus] /\ bootAgent \in [Installs -> AgentStatus]
      /\ RunIsOrderly(r) /\ TargetIsOrderly /\ target \in TargetRow
  BY DeploymentParts DEF DeploymentInv, RunIsOrderly
<1>1. /\ installer' \in [Installs -> ProcessRow] /\ \A q \in Installs \ {r} : installer'[q] = installer[q]
      /\ installer'[r].at = IF k = BaseActions THEN "admin" ELSE "base"
      /\ installer'[r].done = k /\ installer'[r].mode = installer[r].mode
      /\ installer'[r].handedOff = installer[r].handedOff
  BY BaseStepIsTaken
<1>2. BaseActions \in Nat \ {0} /\ target'.base \in 0..BaseActions
  BY DeploymentAssumption DEF TargetGrows, TargetRow
<1>3. RunIsOrderly(r)'
  BY <1>0, <1>1, <1>2 DEF RunIsOrderly
<1>4. InstallIsOrderly(r)'
  BY <1>1, <1>2 DEF InstallIsOrderly
<1>5. TargetIsOrderly'
  <2>1. target.base = BaseActions => target'.base = BaseActions
    BY <1>0, WhatGrewStays
  <2>2. CASE target'.schema = "whole"
    BY <1>0, <2>1, <2>2 DEF TargetIsOrderly, HasSchema
  <2>3. CASE target'.schema # "whole"
    <3>1. /\ installer[r].done # 0 /\ installer[r].done <= target.base /\ target'.schema = target.schema
          /\ installer[r].done \in 0..BaseActions /\ target.base \in 0..BaseActions
      BY <2>3, DeploymentParts DEF DeploymentInv, InstallIsOrderly, ProcessRow, TargetRow
    <3>2. target.base # 0
      BY <1>2, <3>1
    <3>3. HasSchema'
      BY <1>0, <3>1, <3>2 DEF TargetIsOrderly, HasSchema
    <3> QED
      BY <1>0, <2>1, <3>3 DEF TargetIsOrderly
  <2> QED
    BY <2>2, <2>3
<1>6. target'.schema = "torn" => target.schema = "torn" /\ ~StuckRun(r)
  BY DEF StuckRun
<1>7. ~(~journal'[r].open)
  BY <1>0
<1>8. runRow'[r] \in {"COMPLETED", "RETIRED"} => runRow[r] \in {"COMPLETED", "RETIRED"}
  OBVIOUS
<1> QED
  BY <1>0, <1>1, <1>3, <1>4, <1>5, <1>6, <1>7, <1>8, OneProcessMoves

LEMMA CreateSchemaKeeps ==
    ASSUME DeploymentInv, NEW r \in Installs, CreateSchema(r)
    PROVE  DeploymentInv'
<1>0. /\ installer[r].at = "base" /\ installer[r].done = 0 /\ UNCHANGED <<journal, runRow, bootAgent, raced>>
      /\ target \in TargetRow /\ journal[r].open /\ journal \in [Installs -> JournalFile] /\ raced \in BOOLEAN
      /\ runRow \in [Installs -> RowStatus] /\ bootAgent \in [Installs -> AgentStatus]
      /\ RunIsOrderly(r) /\ TargetIsOrderly
  BY DeploymentParts DEF CreateSchema, DeploymentInv, RunIsOrderly
<1>1. CASE /\ ~HasSchema /\ target' = [target EXCEPT !.schema = "whole", !.base = 1]
           /\ installer' = [installer EXCEPT ![r].done = 1, ![r].at = IF BaseActions = 1 THEN "admin" ELSE @]
  <2>1. target.base = 0
    BY <1>0, <1>1 DEF TargetIsOrderly
  <2>2. target' = [schema |-> "whole", base |-> 1, migrated |-> target.migrated,
                   admin |-> target.admin, native |-> target.native]
    BY <1>0, <1>1 DEF TargetRow
  <2>3. /\ "whole" \in SchemaStates /\ 1 \in 0..BaseActions /\ 1 \in 1..BaseActions
        /\ target.migrated \in 0..Migrations /\ target.migrated >= target.migrated
    BY <1>0, TargetFields
  <2>4. 1 >= target.base /\ 1 = installer[r].done + 1
    BY <1>0, <2>1
  <2>5. /\ TargetGrows /\ target'.schema = "whole" /\ target'.base = 1 /\ (target'.admin <=> target.admin)
    BY <1>0, <2>2, <2>3, <2>4, TargetIsWritten
  <2>6. BaseGoesOn(r, 1)
    BY <1>1 DEF BaseGoesOn
  <2> QED
    BY <1>0, <2>3, <2>4, <2>5, <2>6, BasePlanGrows
<1>2. ASSUME NEW s \in {"part", "torn"}, target' = [target EXCEPT !.schema = s], Idles(r),
             s = "part" => ~HasSchema
      PROVE  DeploymentInv'
  <2>1. /\ installer' \in [Installs -> ProcessRow] /\ \A q \in Installs \ {r} : installer'[q] = installer[q]
        /\ installer'[r].at = "idle"
    BY <1>2, AbsentIsProcess DEF DeploymentInv, Idles
  <2>2. target' = [schema |-> s, base |-> target.base, migrated |-> target.migrated,
                   admin |-> target.admin, native |-> target.native]
    BY <1>0, <1>2 DEF TargetRow
  <2>3. s \in SchemaStates
    BY DEF SchemaStates
  <2>4. TargetGrows /\ target'.schema = s /\ target'.base = target.base /\ (target'.admin <=> target.admin)
    <3>1. /\ target.base \in 0..BaseActions /\ target.migrated \in 0..Migrations
          /\ target.base >= target.base /\ target.migrated >= target.migrated
      BY <1>0, TargetFields
    <3> QED
      BY <1>0, <2>2, <2>3, <3>1, TargetIsWritten
  <2>5. RunIsOrderly(r)' /\ InstallIsOrderly(r)' /\ TargetIsOrderly'
    BY <1>0, <1>2, <2>1, <2>4 DEF RunIsOrderly, InstallIsOrderly, TargetIsOrderly, HasSchema
  <2>6. UnfinishedRun(r)
    BY <1>0 DEF UnfinishedRun, RunIsOrderly
  <2>7. StuckRun(r)'
    BY <1>0, <2>1, <2>6 DEF StuckRun, UnfinishedRun
  <2>8. runRow'[r] \in {"COMPLETED", "RETIRED"} => runRow[r] \in {"COMPLETED", "RETIRED"}
    BY <1>0
  <2> QED
    BY <1>0, <2>1, <2>4, <2>5, <2>7, <2>8, OneProcessMoves
<1> QED
  BY <1>1, <1>2 DEF CreateSchema

LEMMA BaseActionKeeps ==
    ASSUME DeploymentInv, NEW r \in Installs, BaseAction(r)
    PROVE  DeploymentInv'
<1>0. /\ installer[r].at = "base" /\ UNCHANGED <<journal, runRow, bootAgent, raced>>
      /\ target \in TargetRow /\ installer[r] \in ProcessRow /\ RunIsOrderly(r)
  BY DeploymentParts DEF BaseAction, DeploymentInv
<1>1. PICK k \in 2..BaseActions :
        /\ k = installer[r].done + 1
        /\ target' = IF k > target.base THEN [target EXCEPT !.base = k] ELSE target
        /\ BaseGoesOn(r, k)
  <2>1. installer[r].done \in 0..BaseActions /\ installer[r].done < BaseActions /\ BaseActions \in Nat
    BY <1>0, DeploymentAssumption DEF RunIsOrderly, ProcessRow
  <2>2. installer[r].done + 1 > 1
    BY DEF BaseAction
  <2>3. installer[r].done + 1 \in 2..BaseActions
    BY <2>1, <2>2
  <2> QED
    BY <2>3 DEF BaseAction, BaseGoesOn
<1>2. k \in 1..BaseActions /\ k \in 0..BaseActions /\ installer[r].done # 0
  BY <1>1, TargetFields DEF ProcessRow
<1>3. PICK b \in 0..BaseActions :
        /\ b >= k /\ b >= target.base
        /\ target' = [schema |-> target.schema, base |-> b, migrated |-> target.migrated,
                      admin |-> target.admin, native |-> target.native]
  <2>1. target = [schema |-> target.schema, base |-> target.base, migrated |-> target.migrated,
                  admin |-> target.admin, native |-> target.native]
    BY <1>0 DEF TargetRow
  <2>2. /\ target.base \in 0..BaseActions /\ target.base >= target.base /\ target.base \in Nat
    BY <1>0, TargetFields
  <2>3. CASE k > target.base
    <3>1. target' = [schema |-> target.schema, base |-> k, migrated |-> target.migrated,
                     admin |-> target.admin, native |-> target.native]
      BY <1>1, <2>1, <2>3
    <3> QED
      BY <1>2, <2>2, <2>3, <3>1
  <2>4. CASE ~(k > target.base)
    BY <1>1, <1>2, <2>1, <2>2, <2>4
  <2> QED
    BY <2>3, <2>4
<1>4. /\ TargetGrows /\ target'.schema = target.schema /\ target'.base >= k
      /\ (target'.admin <=> target.admin)
  BY <1>0, <1>3, TargetFields, TargetIsWritten
<1> QED
  BY <1>0, <1>1, <1>2, <1>4, BasePlanGrows

-----------------------------------------------------------------------------
(* After the base plan: no such run is stuck. *)

LEMMA SetAdminKeeps ==
    ASSUME DeploymentInv, NEW r \in Installs, SetAdmin(r)
    PROVE  DeploymentInv'
<1>0. /\ installer[r].at = "admin" /\ UNCHANGED <<journal, runRow, bootAgent, raced>>
      /\ target \in TargetRow /\ journal[r].open /\ journal \in [Installs -> JournalFile]
      /\ raced \in BOOLEAN /\ RunIsOrderly(r) /\ InstallIsOrderly(r) /\ TargetIsOrderly
  BY DeploymentParts DEF SetAdmin, DeploymentInv, RunIsOrderly
<1>1. CASE Idles(r) /\ UNCHANGED target
  BY <1>0, <1>1, ProcessEnds
<1>2. CASE GoesTo(r, "migrate")
  <2>1. /\ installer' \in [Installs -> ProcessRow] /\ \A q \in Installs \ {r} : installer'[q] = installer[q]
        /\ installer'[r].at = "migrate" /\ installer'[r].mode = installer[r].mode
    BY <1>2, StepIsTaken DEF InstallSteps
  <2>2. RunIsOrderly(r)' /\ InstallIsOrderly(r)'
    BY <1>0, <2>1 DEF RunIsOrderly, InstallIsOrderly
  <2>3. CASE UNCHANGED target
    <3>1. TargetGrows /\ NotTorn /\ TargetIsOrderly'
      BY <1>0, <2>3, SameTargetGrows DEF TargetIsOrderly, HasSchema
    <3> QED
      BY <1>0, <2>1, <2>2, <3>1, ProcessSteps
  <2>4. CASE ~installer[r].handedOff /\ target' = [target EXCEPT !.admin = TRUE]
    <3>1. /\ target' \in TargetRow /\ target'.admin /\ target'.base = target.base
          /\ target'.native = target.native /\ target'.migrated = target.migrated
          /\ target'.schema = target.schema
      BY <1>0, <2>4, TargetGains
    <3>2. TargetIsOrderly'
      BY <1>0, <2>4, <3>1 DEF InstallIsOrderly, TargetIsOrderly, HasSchema
    <3>3. target.base \in Nat /\ target.migrated \in Nat
      BY <1>0, TargetGains
    <3>4. TargetGrows /\ NotTorn
      BY <3>1, <3>3 DEF TargetGrows, NotTorn
    <3> QED
      BY <1>0, <2>1, <2>2, <3>2, <3>4, ProcessSteps
  <2>5. UNCHANGED target \/ (~installer[r].handedOff /\ target' = [target EXCEPT !.admin = TRUE])
    BY DEF SetAdmin
  <2> QED
    BY <2>3, <2>4, <2>5
<1>3. (Idles(r) /\ UNCHANGED target) \/ GoesTo(r, "migrate")
  BY DEF SetAdmin
<1> QED
  BY <1>1, <1>2, <1>3

LEMMA MigrateKeeps ==
    ASSUME DeploymentInv, NEW r \in Installs, Migrate(r)
    PROVE  DeploymentInv'
<1>0. /\ installer[r].at = "migrate" /\ UNCHANGED <<journal, runRow, bootAgent, raced>>
      /\ target \in TargetRow /\ journal[r].open /\ journal \in [Installs -> JournalFile]
      /\ installer \in [Installs -> ProcessRow] /\ raced \in BOOLEAN /\ TargetIsOrderly
      /\ RunIsOrderly(r)
  BY DeploymentParts DEF Migrate, DeploymentInv, RunIsOrderly
<1>1. CASE target.migrated < Migrations
  <2>1. UNCHANGED installer /\ target' = [target EXCEPT !.migrated = @ + 1]
    BY <1>1 DEF Migrate
  <2>2. target' = [schema |-> target.schema, base |-> target.base, migrated |-> target.migrated + 1,
                   admin |-> target.admin, native |-> target.native]
    BY <1>0, <2>1 DEF TargetRow
  <2>3. target.migrated + 1 \in 0..Migrations /\ target.migrated + 1 >= target.migrated
    BY <1>0, <1>1, TargetFields
  <2>4. /\ TargetGrows /\ target'.schema = target.schema /\ target'.base = target.base
        /\ (target'.admin <=> target.admin)
    <3>1. target.schema \in SchemaStates /\ target.base \in 0..BaseActions /\ target.base >= target.base
      BY <1>0, TargetFields
    <3> QED
      BY <1>0, <2>2, <2>3, <3>1, TargetIsWritten
  <2>5. RunIsOrderly(r)' /\ InstallIsOrderly(r)' /\ TargetIsOrderly' /\ NotTorn
    BY <1>0, <2>1, <2>4 DEF RunIsOrderly, InstallIsOrderly, TargetIsOrderly, HasSchema, NotTorn
  <2> QED
    BY <1>0, <2>1, <2>4, <2>5, ProcessSteps
<1>2. CASE ~(target.migrated < Migrations)
  <2>1. GoesTo(r, "handoff") /\ UNCHANGED target
    BY <1>2 DEF Migrate
  <2>2. target.migrated = Migrations
    BY <1>0, <1>2, TargetFields
  <2>3. InstallIsOrderly(r)'
    BY <2>1, <2>2, StepIsTaken DEF InstallIsOrderly, InstallSteps
  <2> QED
    BY <1>0, <2>1, <2>3, ProcessGoesOn
<1> QED
  BY <1>1, <1>2

LEMMA NativeKeeps ==
    ASSUME DeploymentInv, NEW r \in Installs, BootstrapNative(r) \/ ConfigureModels(r)
    PROVE  DeploymentInv'
<1>0. /\ installer[r].at \in {"native", "models"} /\ UNCHANGED <<journal, runRow, bootAgent, raced>>
      /\ target \in TargetRow /\ journal[r].open /\ journal \in [Installs -> JournalFile]
      /\ raced \in BOOLEAN /\ RunIsOrderly(r) /\ InstallIsOrderly(r) /\ TargetIsOrderly
  BY DeploymentParts DEF BootstrapNative, ConfigureModels, DeploymentInv, RunIsOrderly
<1>1. CASE Idles(r) /\ UNCHANGED target
  BY <1>0, <1>1, ProcessEnds
<1>2. CASE ConfigureModels(r)
  <2>1. GoesTo(r, "complete") /\ UNCHANGED target /\ installer[r].at = "models"
    BY <1>2 DEF ConfigureModels
  <2>2. InstallIsOrderly(r)'
    BY <1>0, <2>1, StepIsTaken DEF InstallIsOrderly, InstallSteps
  <2> QED
    BY <1>0, <2>1, <2>2, ProcessGoesOn
<1>3. CASE BootstrapNative(r) /\ target.admin
  <2>1. /\ GoesTo(r, "models") /\ target' = [target EXCEPT !.native = TRUE] /\ installer[r].at = "native"
    BY <1>3 DEF BootstrapNative
  <2>2. /\ target' \in TargetRow /\ target'.native /\ target'.base = target.base
        /\ target'.admin = target.admin /\ target'.migrated = target.migrated /\ target'.schema = target.schema
        /\ target.base \in Nat /\ target.migrated \in Nat
    BY <1>0, <2>1, TargetGains
  <2>3. target'.admin
    BY <1>3, <2>2, Zenon
  <2>4. /\ installer' \in [Installs -> ProcessRow] /\ \A q \in Installs \ {r} : installer'[q] = installer[q]
        /\ installer'[r].at = "models" /\ installer'[r].mode = installer[r].mode
    BY <2>1, StepIsTaken DEF InstallSteps
  <2>5. RunIsOrderly(r)'
    BY <1>0, <2>4 DEF RunIsOrderly
  <2>6. TargetIsOrderly' /\ InstallIsOrderly(r)'
    BY <1>0, <1>3, <2>1, <2>2, <2>3, <2>4 DEF InstallIsOrderly, TargetIsOrderly, HasSchema
  <2>7. TargetGrows /\ NotTorn
    BY <2>2, <2>3 DEF TargetGrows, NotTorn
  <2> QED
    BY <1>0, <2>4, <2>5, <2>6, <2>7, ProcessSteps
<1> QED
  BY <1>1, <1>2, <1>3 DEF BootstrapNative

(* The row of a run moves on. *)
LEMMA RowMoves ==
    ASSUME DeploymentInv, NEW r \in Installs,
           installer[r].at \in {"handoff", "complete", "retireRun", "retireAgent"},
           UNCHANGED <<target, raced>>,
           NEW step \in {"native", "retireRun", "retireAgent", "retireJournal"}, GoesTo(r, step),
           journal' \in [Installs -> JournalFile], \A q \in Installs \ {r} : journal'[q] = journal[q],
           journal'[r].open, journal'[r].mode = journal[r].mode,
           NEW status \in RowStatus, runRow' = [runRow EXCEPT ![r] = status],
           bootAgent' \in [Installs -> AgentStatus], \A q \in Installs \ {r} : bootAgent'[q] = bootAgent[q],
           step = "native" => status \notin {"COMPLETED", "RETIRED"} /\ target.migrated = Migrations,
           step = "retireRun" => status = "COMPLETED",
           step \in {"retireAgent", "retireJournal"} => status = "RETIRED",
           step = "retireJournal" => bootAgent'[r] = "RETIRED",
           status \in {"COMPLETED", "RETIRED"} => runRow[r] \in {"COMPLETED", "RETIRED"} \/ Whole
    PROVE  DeploymentInv'
<1>0. /\ runRow \in [Installs -> RowStatus] /\ target \in TargetRow /\ raced \in BOOLEAN
      /\ step \in InstallSteps /\ RunIsOrderly(r) /\ TargetIsOrderly
  BY DeploymentParts DEF InstallSteps, DeploymentInv
<1>1. /\ installer' \in [Installs -> ProcessRow] /\ \A q \in Installs \ {r} : installer'[q] = installer[q]
      /\ installer'[r].at = step /\ installer'[r].mode = installer[r].mode
  BY <1>0, StepIsTaken
<1>2. /\ runRow' \in [Installs -> RowStatus] /\ runRow'[r] = status
      /\ \A q \in Installs \ {r} : runRow'[q] = runRow[q]
  BY <1>0
<1>3. RunIsOrderly(r)'
  BY <1>0, <1>1, <1>2 DEF RunIsOrderly
<1>4. TargetIsOrderly' /\ InstallIsOrderly(r)'
  BY <1>0, <1>1 DEF InstallIsOrderly, TargetIsOrderly, HasSchema
<1>5. TargetGrows /\ NotTorn
  BY <1>0, SameTargetGrows
<1>6. target'.schema = "torn" => target.schema = "torn" /\ ~StuckRun(r)
  BY <1>5 DEF NotTorn, StuckRun
<1> QED
  BY <1>0, <1>1, <1>2, <1>3, <1>4, <1>5, <1>6, OneProcessMoves

LEMMA RecordKeeps ==
    ASSUME DeploymentInv, NEW r \in Installs, NEW status \in RowStatus, Records(r, status)
    PROVE  /\ runRow' = [runRow EXCEPT ![r] = status]
           /\ bootAgent' \in [Installs -> AgentStatus] /\ \A q \in Installs \ {r} : bootAgent'[q] = bootAgent[q]
BY DeploymentParts DEF Records, AgentStatus

LEMMA HandoffKeeps ==
    ASSUME DeploymentInv, NEW r \in Installs, Handoff(r) \/ CompleteRun(r) \/ RetireRun(r) \/ RetireAgent(r)
    PROVE  DeploymentInv'
<1>0. /\ installer[r].at \in {"handoff", "complete", "retireRun", "retireAgent"}
      /\ UNCHANGED <<target, raced>>
      /\ journal \in [Installs -> JournalFile] /\ journal[r].open /\ journal[r] \in JournalFile
      /\ runRow \in [Installs -> RowStatus] /\ bootAgent \in [Installs -> AgentStatus]
      /\ InstallIsOrderly(r) /\ TargetIsOrderly
  BY DeploymentParts DEF DeploymentInv, RunIsOrderly, Handoff, CompleteRun, RetireRun, RetireAgent
<1>1. CASE Handoff(r)
  <2>1. installer[r].at = "handoff" /\ Records(r, "NATIVE_HANDOFF") /\ GoesTo(r, "native") /\ UNCHANGED journal
    BY <1>1 DEF Handoff
  <2>2. target.migrated = Migrations
    BY <1>0, <2>1 DEF InstallIsOrderly
  <2>3. "NATIVE_HANDOFF" \in RowStatus
    BY DEF RowStatus
  <2>4. /\ runRow' = [runRow EXCEPT ![r] = "NATIVE_HANDOFF"]
        /\ bootAgent' \in [Installs -> AgentStatus] /\ \A q \in Installs \ {r} : bootAgent'[q] = bootAgent[q]
    BY <2>1, <2>3, RecordKeeps
  <2> QED
    BY <1>0, <2>1, <2>2, <2>3, <2>4, RowMoves
<1>2. CASE CompleteRun(r) /\ PostflightPasses
  <2>1. /\ installer[r].at = "complete" /\ Records(r, "COMPLETED") /\ GoesTo(r, "retireRun")
        /\ journal' = [journal EXCEPT ![r].boundary = TRUE]
    BY <1>2 DEF CompleteRun
  <2>2. "COMPLETED" \in RowStatus
    BY DEF RowStatus
  <2>3. /\ runRow' = [runRow EXCEPT ![r] = "COMPLETED"]
        /\ bootAgent' \in [Installs -> AgentStatus] /\ \A q \in Installs \ {r} : bootAgent'[q] = bootAgent[q]
    BY <2>1, <2>2, RecordKeeps
  <2>4. /\ journal' \in [Installs -> JournalFile] /\ journal'[r].open /\ journal'[r].mode = journal[r].mode
        /\ \A q \in Installs \ {r} : journal'[q] = journal[q]
    <3> DEFINE file == [journal[r] EXCEPT !.boundary = TRUE]
    <3>1. /\ file \in JournalFile /\ file.open /\ file.mode = journal[r].mode
          /\ journal' = [journal EXCEPT ![r] = file]
      BY <1>0, <2>1, BoundaryIsWritten
    <3> HIDE DEF file
    <3> QED
      BY <1>0, <3>1
  <2>5. Whole
    BY <1>0, <2>1 DEF InstallIsOrderly, TargetIsOrderly, HasSchema, Whole
  <2> QED
    BY <1>0, <2>1, <2>2, <2>3, <2>4, <2>5, RowMoves
<1>3. CASE CompleteRun(r) /\ ~PostflightPasses
  <2>1. Idles(r) /\ UNCHANGED <<journal, runRow, bootAgent>>
    BY <1>3 DEF CompleteRun
  <2> QED
    BY <1>0, <2>1, ProcessEnds
<1>4. CASE RetireRun(r)
  <2>1. /\ installer[r].at = "retireRun" /\ GoesTo(r, "retireAgent") /\ UNCHANGED <<journal, bootAgent>>
        /\ runRow' = [runRow EXCEPT ![r] = "RETIRED"]
    BY <1>4 DEF RetireRun, AfterRetirement
  <2>2. runRow[r] = "COMPLETED" /\ "RETIRED" \in RowStatus
    BY <2>1 DEF DeploymentInv, RunIsOrderly, RowStatus
  <2> QED
    BY <1>0, <2>1, <2>2, RowMoves
<1>5. CASE RetireAgent(r)
  <2>1. /\ installer[r].at = "retireAgent" /\ GoesTo(r, "retireJournal") /\ UNCHANGED <<journal, runRow>>
        /\ bootAgent' = [bootAgent EXCEPT ![r] = "RETIRED"]
    BY <1>5 DEF RetireAgent
  <2>2. runRow[r] = "RETIRED" /\ "RETIRED" \in RowStatus
    BY <2>1 DEF DeploymentInv, RunIsOrderly, RowStatus
  <2>3. /\ bootAgent' \in [Installs -> AgentStatus] /\ bootAgent'[r] = "RETIRED"
        /\ \A q \in Installs \ {r} : bootAgent'[q] = bootAgent[q]
    BY <1>0, <2>1 DEF AgentStatus
  <2>4. runRow' = [runRow EXCEPT ![r] = "RETIRED"]
    BY <1>0, <2>1, <2>2
  <2> QED
    BY <1>0, <2>1, <2>2, <2>3, <2>4, RowMoves
<1> QED
  BY <1>1, <1>2, <1>3, <1>4, <1>5

LEMMA JournalCloses ==
    ASSUME DeploymentInv, NEW r \in Installs, RetireJournal(r)
    PROVE  DeploymentInv'
<1>0. /\ installer[r].at = "retireJournal" /\ Idles(r) /\ UNCHANGED <<target, runRow, bootAgent, raced>>
      /\ journal' = [journal EXCEPT ![r].open = FALSE]
      /\ journal \in [Installs -> JournalFile] /\ journal[r] \in JournalFile
      /\ target \in TargetRow /\ raced \in BOOLEAN /\ TargetIsOrderly
      /\ runRow \in [Installs -> RowStatus] /\ bootAgent \in [Installs -> AgentStatus]
  BY DeploymentParts DEF RetireJournal, DeploymentInv
<1>1. runRow[r] = "RETIRED" /\ bootAgent[r] = "RETIRED"
  BY <1>0 DEF DeploymentInv, RunIsOrderly
<1>2. /\ installer' \in [Installs -> ProcessRow] /\ \A q \in Installs \ {r} : installer'[q] = installer[q]
      /\ installer'[r].at = "idle"
  BY <1>0, AbsentIsProcess DEF DeploymentInv, Idles
<1>3. /\ journal' \in [Installs -> JournalFile] /\ \A q \in Installs \ {r} : journal'[q] = journal[q]
  <2> DEFINE file == [journal[r] EXCEPT !.open = FALSE]
  <2>1. file \in JournalFile /\ journal' = [journal EXCEPT ![r] = file]
    BY <1>0 DEF JournalFile
  <2> HIDE DEF file
  <2> QED
    BY <1>0, <2>1
<1>4. RunIsOrderly(r)' /\ InstallIsOrderly(r)'
  BY <1>2 DEF RunIsOrderly, InstallIsOrderly
<1>5. TargetGrows /\ NotTorn /\ TargetIsOrderly'
  BY <1>0, SameTargetGrows DEF TargetIsOrderly, HasSchema
<1>6. target'.schema = "torn" => target.schema = "torn" /\ ~StuckRun(r)
  BY <1>0, <1>5 DEF NotTorn, StuckRun
<1> QED
  BY <1>0, <1>1, <1>2, <1>3, <1>4, <1>5, <1>6, OneProcessMoves

LEMMA DeploymentStepKeeps == DeploymentInv /\ [DeploymentNext]_deploymentVars => DeploymentInv'
<1> SUFFICES ASSUME DeploymentInv, [DeploymentNext]_deploymentVars
             PROVE  DeploymentInv'
  OBVIOUS
<1>1. CASE UNCHANGED deploymentVars
  BY <1>1 DEF deploymentVars, DeploymentInv, DeploymentTypeOK, RunIsOrderly, TargetIsOrderly, HasSchema, InstallIsOrderly,
              ClosedRunIsRetired, EndedIsWhole, TornByStuckRun, StuckRun, UnfinishedRun, Whole
<1> QED
  BY <1>1, StartsKeep, PreflightKeeps, CreateSchemaKeeps, BaseActionKeeps, SetAdminKeeps, MigrateKeeps,
     NativeKeeps, HandoffKeeps, JournalCloses
  DEF DeploymentNext

LEMMA DeploymentBegins == DeploymentInit => DeploymentInv
<1> SUFFICES ASSUME DeploymentInit
             PROVE  DeploymentInv
  OBVIOUS
<1>1. /\ journal = [r \in Installs |-> NoJournal] /\ installer = [r \in Installs |-> Absent]
      /\ target \in {EmptyTarget, FullPlatform} /\ runRow = [r \in Installs |-> "none"]
      /\ bootAgent = [r \in Installs |-> "none"] /\ raced = FALSE
  BY DEF DeploymentInit
<1>2. EmptyTarget \in TargetRow /\ FullPlatform \in TargetRow
  BY DeploymentAssumption DEF EmptyTarget, FullPlatform, TargetRow, SchemaStates
<1>3. NoJournal \in JournalFile
  BY DEF NoJournal, JournalFile, Modes
<1>4. /\ journal \in [Installs -> JournalFile] /\ installer \in [Installs -> ProcessRow]
      /\ target \in TargetRow /\ runRow \in [Installs -> RowStatus] /\ bootAgent \in [Installs -> AgentStatus]
  BY <1>1, <1>2, <1>3, AbsentIsProcess DEF RowStatus, AgentStatus
<1>5. DeploymentTypeOK
  BY <1>1, <1>4 DEF DeploymentTypeOK, JournalFile, ProcessRow, TargetRow, RowStatus, AgentStatus, SchemaStates
<1>6. \A r \in Installs : installer[r].at = "idle" /\ runRow[r] = "none"
  BY <1>1, AbsentIsProcess
<1>7. \A r \in Installs : RunIsOrderly(r) /\ InstallIsOrderly(r)
  BY <1>6 DEF RunIsOrderly, InstallIsOrderly
<1>8. TargetIsOrderly /\ TornByStuckRun
  BY <1>1 DEF TargetIsOrderly, HasSchema, TornByStuckRun, EmptyTarget, FullPlatform
<1> QED
  BY <1>4, <1>5, <1>6, <1>7, <1>8 DEF DeploymentInv, EndedIsWhole, ClosedRunIsRetired

(* A run that reports COMPLETED or RETIRED left a whole platform, a closed    *)
(* journal means a retired agent, and only a run that never got to its handoff *)
(* and never closes tears a schema, however often runs are stopped, resumed   *)
(* and overtaken by others.                                                   *)
THEOREM DeploymentsEndWell == DeploymentSpec => [](DeploymentTypeOK /\ DeploymentHolds)
<1>1. DeploymentInv => DeploymentTypeOK /\ DeploymentHolds
  BY DEF DeploymentInv, DeploymentHolds, EndedIsWhole, CompletedIsWhole, TornByStuckRun,
         TornByUnfinishedRun, StuckRun
<1> QED
  BY <1>1, DeploymentBegins, DeploymentStepKeeps, PTL DEF DeploymentSpec
==============================================================================
