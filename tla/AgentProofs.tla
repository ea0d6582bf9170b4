----------------------------- MODULE AgentProofs -----------------------------
(***************************************************************************)
(* Agents and those who contain them, for any officers, instances,         *)
(* messages, commands and cards: quarantine before termination, isolation  *)
(* and two humans before a high-impact command, generations in the order   *)
(* of the commands; no message falls between a fan-out and a backlog, and  *)
(* none goes to an agent that was removed.                                 *)
(***************************************************************************)
EXTENDS Containment, AgentGateway, SequenceTheorems, TLAPS

-----------------------------------------------------------------------------
(* Containment *)

(* A call reads the newest command in one statement and inserts in         *)
(* another.  Commands are never removed and keep state, generation and     *)
(* signers, so what a call has read may be old when it inserts, but it is  *)
(* still there: that is what the invariant says of the calls in flight.    *)

USE ContainmentAssumption

(* There is a quarantine up to generation g. *)
QuarantinedBy(g) ==
    \E j \in DOMAIN commands : commands[j].state = "QUARANTINE" /\ commands[j].gen <= g

(* What a call in flight has read or done. *)
CallKnows(c) ==
    /\ c.stage # "none" /\ c.state \in HighImpact => \E g, h \in c.signers : g # h
    /\ c.stage \in {"read", "revoked"} /\ c.state \in Terminal => QuarantinedBy(c.gen)
    /\ c.stage # "none" => c.gen <= Len(commands)
    /\ c.stage = "revoked" /\ c.state \in HighImpact => agentRow = "REVOKED"

CallsKnow == \A h \in Officers : CallKnows(issue[h])

IssueCalls == {NoIssue} \cup
    [stage : {"approved", "read", "revoked"}, state : Requests, gen : 0..MaxCommands,
     signers : SUBSET Officers]

ContainmentInv ==
    /\ ContainmentTypeOK
    /\ \A i \in DOMAIN commands : commands[i].gen <= i
    /\ CallsKnow /\ ContainmentHolds

LEMMA ContainmentBegins == ContainmentInit => ContainmentInv
<1> SUFFICES ASSUME ContainmentInit PROVE ContainmentInv
  OBVIOUS
<1>1. ContainmentTypeOK
  <2>1. commands \in Seq(Command) /\ Len(commands) <= MaxCommands
    BY DEF ContainmentInit
  <2>2. issue \in [Officers -> {NoIssue}] /\ cards = {} /\ agentRow = "ACTIVE" /\ collided = FALSE
    BY DEF ContainmentInit
  <2> QED BY <2>1, <2>2 DEF ContainmentTypeOK
<1>2. CallsKnow
  BY DEF ContainmentInit, CallsKnow, CallKnows, NoIssue
<1>3. ContainmentHolds
  BY DEF ContainmentInit, ContainmentHolds, QuarantineBeforeTermination, IsolatedBeforeCommand,
         GenerationsOrderCommands
<1> QED BY <1>1, <1>2, <1>3 DEF ContainmentInv, ContainmentInit

LEMMA CommandsForm ==
    ASSUME ContainmentInv
    PROVE  /\ commands \in Seq(Command) /\ Len(commands) \in Nat /\ DOMAIN commands = 1..Len(commands)
           /\ \A i \in DOMAIN commands :
                /\ commands[i] \in Command /\ commands[i].gen \in 1..MaxCommands
                /\ commands[i].gen \in Nat /\ commands[i].gen <= i /\ i \in Nat
<1>1. commands \in Seq(Command)
  BY DEF ContainmentInv, ContainmentTypeOK
<1>2. Len(commands) \in Nat /\ DOMAIN commands = 1..Len(commands)
  BY <1>1
<1>3. \A i \in DOMAIN commands : commands[i] \in Command
  BY <1>1, <1>2, ElementOfSeq
<1>4. \A i \in DOMAIN commands : commands[i].gen <= i
  BY DEF ContainmentInv
<1> QED BY <1>1, <1>2, <1>3, <1>4 DEF Command

-----------------------------------------------------------------------------
(* A step that keeps the commands and does not give the agent its access   *)
(* back: all that is left to show is what the calls know.                  *)
LEMMA IssueStepKeeps ==
    ASSUME ContainmentInv, UNCHANGED <<commands, collided>>,
           agentRow' \in {"ACTIVE", "REVOKED"}, agentRow = "REVOKED" => agentRow' = "REVOKED",
           cards' \subseteq [by : Officers, for : Requests, decided : SUBSET Officers],
           NEW h \in Officers, NEW c \in IssueCalls, issue' = [issue EXCEPT ![h] = c], CallKnows(c)'
    PROVE  ContainmentInv'
<1>1. ContainmentTypeOK'
  BY DEF ContainmentInv, ContainmentTypeOK, IssueCalls
<1>2. ContainmentHolds'
  BY DEF ContainmentInv, ContainmentHolds, QuarantineBeforeTermination, IsolatedBeforeCommand,
         GenerationsOrderCommands
<1>3. ASSUME NEW g \in Officers PROVE CallKnows(issue[g])'
  <2>1. issue'[g] = IF g = h THEN c ELSE issue[g]
    BY DEF ContainmentInv, ContainmentTypeOK
  <2>2. CASE g = h BY <2>1, <2>2 DEF CallKnows, QuarantinedBy
  <2>3. CASE g # h
    <3>1. CallKnows(issue[g]) BY DEF ContainmentInv, CallsKnow
    <3> QED BY <2>1, <2>3, <3>1 DEF CallKnows, QuarantinedBy
  <2> QED BY <2>2, <2>3
<1> QED BY <1>1, <1>2, <1>3 DEF ContainmentInv, CallsKnow

(* A step of the approval alone. *)
LEMMA CardStepKeeps ==
    ASSUME ContainmentInv, UNCHANGED <<commands, agentRow, issue, collided>>,
           cards' \subseteq [by : Officers, for : Requests, decided : SUBSET Officers]
    PROVE  ContainmentInv'
<1>1. ContainmentTypeOK'
  BY DEF ContainmentInv, ContainmentTypeOK
<1>2. ContainmentHolds'
  BY DEF ContainmentInv, ContainmentHolds, QuarantineBeforeTermination, IsolatedBeforeCommand,
         GenerationsOrderCommands
<1>3. CallsKnow'
  BY DEF ContainmentInv, CallsKnow, CallKnows, QuarantinedBy
<1> QED BY <1>1, <1>2, <1>3 DEF ContainmentInv

LEMMA NoIssueKnows == NoIssue \in IssueCalls /\ CallKnows(NoIssue)'
BY DEF NoIssue, IssueCalls, CallKnows

LEMMA IssueForm ==
    ASSUME ContainmentInv, NEW h \in Officers
    PROVE  /\ issue \in [Officers -> IssueCalls] /\ issue[h] \in IssueCalls /\ CallKnows(issue[h])
           /\ issue[h].stage # "none" =>
                /\ issue[h] = [stage |-> issue[h].stage, state |-> issue[h].state,
                               gen |-> issue[h].gen, signers |-> issue[h].signers]
                /\ issue[h].state \in Requests /\ issue[h].gen \in 0..MaxCommands
                /\ issue[h].signers \in SUBSET Officers
BY DEF ContainmentInv, ContainmentTypeOK, IssueCalls, NoIssue, CallsKnow

-----------------------------------------------------------------------------
(* issue_containment *)

LEMMA IssueApprovedKeeps ==
    ASSUME ContainmentInv, NEW h \in Officers, NEW s \in Requests, IssueApproved(h, s)
    PROVE  ContainmentInv'
<1>1. PICK signers \in {{c.by} \cup c.decided : c \in {d \in cards : d.for = s /\ Independent(d)}}
                     \cup {{} : x \in {s} \ HighImpact} :
         issue' = [issue EXCEPT ![h] = [stage |-> "approved", state |-> s, gen |-> 0, signers |-> signers]]
  BY DEF IssueApproved
<1>2. signers \subseteq Officers /\ (s \in HighImpact => \E f, g \in signers : f # g)
  <2>0. \/ s \notin HighImpact /\ signers = {}
        \/ \E c \in cards : Independent(c) /\ signers = {c.by} \cup c.decided
    BY <1>1
  <2>1. CASE s \notin HighImpact /\ signers = {}
    BY <2>1
  <2>2. ASSUME NEW c \in cards, Independent(c), signers = {c.by} \cup c.decided
        PROVE  signers \subseteq Officers /\ \E f, g \in signers : f # g
    <3>1. c.by \in Officers /\ c.decided \subseteq Officers
      BY DEF ContainmentInv, ContainmentTypeOK
    <3>2. c.decided # {} /\ c.by \notin c.decided
      BY <2>2 DEF Independent
    <3> QED BY <2>2, <3>1, <3>2
  <2> QED BY <2>0, <2>1, <2>2
<1>3. PICK c \in IssueCalls : c = [stage |-> "approved", state |-> s, gen |-> 0, signers |-> signers]
  <2>1. 0 \in 0..MaxCommands
    BY ContainmentAssumption
  <2>2. [stage |-> "approved", state |-> s, gen |-> 0, signers |-> signers]
          \in [stage : {"approved", "read", "revoked"}, state : Requests, gen : 0..MaxCommands,
              signers : SUBSET Officers]
    BY <1>2, <2>1
  <2> QED BY <2>2 DEF IssueCalls
<1>4. CallKnows(c)'
  BY <1>2, <1>3, CommandsForm DEF CallKnows, IssueApproved
<1>5. cards \subseteq [by : Officers, for : Requests, decided : SUBSET Officers] /\ agentRow \in {"ACTIVE", "REVOKED"}
  BY DEF ContainmentInv, ContainmentTypeOK
<1> QED BY <1>1, <1>3, <1>4, <1>5, IssueStepKeeps DEF IssueApproved

(* The command that was read proves the quarantine: it is one, or it is a  *)
(* termination that has one before it.                                     *)
LEMMA ReadKeeps ==
    ASSUME ContainmentInv, NEW h \in Officers, IssueRead(h)
    PROVE  ContainmentInv'
<1>1. PICK state, gen :
        /\ Read(h, state, gen)
        /\ \/ state = "OBSERVE" /\ gen = 0
           \/ \E i \in DOMAIN commands : state = commands[i].state /\ gen = commands[i].gen
  BY DEF IssueRead
<1>2. gen \in 0..MaxCommands /\ gen <= Len(commands)
  BY <1>1, CommandsForm DEF ContainmentInv
<1>3. state \in HighImpact => QuarantinedBy(gen)
  <2> SUFFICES ASSUME state \in HighImpact PROVE QuarantinedBy(gen)
    OBVIOUS
  <2>1. PICK i \in DOMAIN commands : state = commands[i].state /\ gen = commands[i].gen
    BY <1>1 DEF HighImpact, Terminal
  <2>2. \A j \in DOMAIN commands : commands[j].gen \in Nat
    BY CommandsForm
  <2>3. CASE state = "QUARANTINE"
    <3>1. commands[i].state = "QUARANTINE" /\ commands[i].gen <= gen
      BY <2>1, <2>2, <2>3
    <3> QED BY <3>1 DEF QuarantinedBy
  <2>4. CASE state \in Terminal
    <3>0. commands[i].state \in Terminal
      BY <2>1, <2>4
    <3>1. PICK j \in DOMAIN commands : commands[j].state = "QUARANTINE" /\ commands[j].gen < gen
      BY <2>1, <3>0 DEF ContainmentInv, ContainmentHolds, QuarantineBeforeTermination
    <3> QED BY <2>1, <2>2, <3>1 DEF QuarantinedBy
  <2> QED BY <2>3, <2>4 DEF HighImpact
<1>4. issue[h].stage = "approved" /\ UNCHANGED <<commands, cards, agentRow, collided>>
  BY DEF IssueRead
<1>5. cards \subseteq [by : Officers, for : Requests, decided : SUBSET Officers] /\ agentRow \in {"ACTIVE", "REVOKED"}
  BY DEF ContainmentInv, ContainmentTypeOK
<1>6. CASE QuarantinePrecedes(state, issue[h].state)
  <2>1. issue' = [issue EXCEPT ![h] = [stage |-> "read", state |-> @.state, gen |-> gen, signers |-> @.signers]]
    BY <1>1, <1>6 DEF Read
  <2>3. PICK c \in IssueCalls : c = [stage |-> "read", state |-> issue[h].state, gen |-> gen, signers |-> issue[h].signers]
    BY <1>2, <1>4, IssueForm DEF IssueCalls
  <2>4. issue' = [issue EXCEPT ![h] = c]
    BY <2>1, <2>3
  <2>5. CallKnows(c)'
    <3>1. CallKnows(issue[h]) BY IssueForm
    <3>2. c.state \in HighImpact => \E f, g \in c.signers : f # g
      BY <1>4, <2>3, <3>1 DEF CallKnows
    <3>3. c.state \in Terminal => QuarantinedBy(gen)
      BY <1>3, <1>6, <2>3 DEF QuarantinePrecedes
    <3> QED BY <1>2, <1>4, <2>3, <3>2, <3>3 DEF CallKnows, QuarantinedBy
  <2> QED BY <1>4, <1>5, <2>4, <2>5, IssueStepKeeps
<1>7. CASE ~QuarantinePrecedes(state, issue[h].state)
  <2>1. issue' = [issue EXCEPT ![h] = NoIssue]
    BY <1>1, <1>7 DEF Read
  <2> QED BY <1>4, <1>5, <2>1, NoIssueKnows, IssueStepKeeps
<1> QED BY <1>6, <1>7

LEMMA RevokeKeeps ==
    ASSUME ContainmentInv, NEW h \in Officers, IssueRevoke(h)
    PROVE  ContainmentInv'
<1>1. /\ issue[h].stage = "read" /\ UNCHANGED <<commands, cards, collided>>
      /\ agentRow' = IF issue[h].state \in HighImpact THEN "REVOKED" ELSE agentRow
      /\ issue' = [issue EXCEPT ![h].stage = "revoked"]
  BY DEF IssueRevoke, Isolated
<1>2. PICK c \in IssueCalls : c = [stage |-> "revoked", state |-> issue[h].state, gen |-> issue[h].gen, signers |-> issue[h].signers]
  BY <1>1, IssueForm DEF IssueCalls
<1>3. issue' = [issue EXCEPT ![h] = c]
  <2>1. issue[h] = [stage |-> "read", state |-> issue[h].state, gen |-> issue[h].gen, signers |-> issue[h].signers]
    BY <1>1, IssueForm
  <2>2. [issue[h] EXCEPT !.stage = "revoked"] = c
    BY <1>2, <2>1
  <2> QED BY <1>1, <2>2
<1>4. CallKnows(c)'
  <2>1. CallKnows(issue[h]) BY IssueForm
  <2> QED BY <1>1, <1>2, <2>1 DEF CallKnows, QuarantinedBy
<1>5. cards' \subseteq [by : Officers, for : Requests, decided : SUBSET Officers]
      /\ agentRow \in {"ACTIVE", "REVOKED"}
  BY <1>1 DEF ContainmentInv, ContainmentTypeOK
<1>6. agentRow' \in {"ACTIVE", "REVOKED"} /\ (agentRow = "REVOKED" => agentRow' = "REVOKED")
  BY <1>1, <1>5
<1> QED BY <1>1, <1>3, <1>4, <1>5, <1>6, IssueStepKeeps

LEMMA InsertKeeps ==
    ASSUME ContainmentInv, NEW h \in Officers, IssueInsert(h)
    PROVE  ContainmentInv'
<1> DEFINE gen == issue[h].gen + 1
           new == [state |-> issue[h].state, gen |-> gen, ack |-> "PENDING", signers |-> issue[h].signers]
           n == Len(commands) + 1
<1>1. /\ issue[h].stage = "revoked" /\ Len(commands) < MaxCommands
      /\ commands' = Append(commands, new)
      /\ collided' = (collided \/ \E i \in DOMAIN commands : commands[i].gen > issue[h].gen)
      /\ issue' = [issue EXCEPT ![h] = NoIssue]
      /\ UNCHANGED <<cards, agentRow>>
  BY DEF IssueInsert, NextGeneration
<1>2. CallKnows(issue[h]) /\ issue[h].state \in Requests /\ issue[h].gen \in Nat
      /\ issue[h].signers \subseteq Officers /\ issue[h].gen <= Len(commands)
  <2>1. CallKnows(issue[h]) /\ issue[h].state \in Requests /\ issue[h].gen \in 0..MaxCommands
        /\ issue[h].signers \in SUBSET Officers
    BY <1>1, IssueForm
  <2> QED BY <1>1, <2>1 DEF CallKnows
<1>3. /\ Len(commands) \in Nat /\ n \in Nat /\ gen \in 1..MaxCommands /\ gen <= n
  BY <1>1, <1>2, CommandsForm
<1>4. new \in Command
  BY <1>2, <1>3 DEF Command
<1>5. /\ commands' \in Seq(Command) /\ Len(commands') = n /\ DOMAIN commands' = 1..n
      /\ commands'[n] = new
      /\ \A i \in DOMAIN commands : i \in DOMAIN commands' /\ i < n /\ commands'[i] = commands[i]
      /\ \A i \in DOMAIN commands' : i \in DOMAIN commands \/ i = n
  <2>1. commands \in Seq(Command) /\ DOMAIN commands = 1..Len(commands)
    BY CommandsForm
  <2> HIDE DEF new
  <2> QED BY <1>1, <1>3, <1>4, <2>1
<1>6. ContainmentTypeOK'
  <2>1. Len(commands') <= MaxCommands
    BY <1>1, <1>3, <1>5
  <2>2. issue' \in [Officers -> IssueCalls]
    BY <1>1, IssueForm, NoIssueKnows
  <2> QED BY <1>1, <1>5, <2>1, <2>2 DEF ContainmentInv, ContainmentTypeOK, IssueCalls
<1>7. \A i \in DOMAIN commands' : commands'[i].gen <= i
  BY <1>3, <1>5, CommandsForm
(* What a call has read is still there. *)
<1>8. ASSUME NEW g, QuarantinedBy(g) PROVE \E j \in DOMAIN commands : /\ j \in DOMAIN commands'
                                            /\ commands'[j] = commands[j]
                                            /\ commands'[j].state = "QUARANTINE" /\ commands'[j].gen <= g
  BY <1>5, <1>8 DEF QuarantinedBy
<1>9. CallsKnow'
  <2> SUFFICES ASSUME NEW g \in Officers PROVE CallKnows(issue[g])'
    BY DEF CallsKnow
  <2>1. issue'[g] = IF g = h THEN NoIssue ELSE issue[g]
    BY <1>1, IssueForm
  <2>2. CASE g = h BY <2>1, <2>2 DEF CallKnows, NoIssue
  <2>3. CASE g # h
    <3>1. CallKnows(issue[g]) /\ issue'[g] = issue[g] BY <2>1, <2>3, IssueForm
    <3>2. QuarantinedBy(issue[g].gen) => QuarantinedBy(issue[g].gen)'
      BY <1>8, <3>1 DEF QuarantinedBy
    <3>3. issue[g].stage # "none" => issue[g].gen <= Len(commands')
      <4>1. issue[g].stage # "none" => issue[g].gen \in 0..MaxCommands
        BY IssueForm
      <4> QED BY <1>3, <1>5, <3>1, <4>1 DEF CallKnows
    <3> QED BY <1>1, <3>1, <3>2, <3>3 DEF CallKnows
  <2> QED BY <2>2, <2>3
(* The new command and the ones before it. *)
<1>10. QuarantineBeforeTermination'
  <2> SUFFICES ASSUME NEW i \in DOMAIN commands', commands'[i].state \in Terminal
               PROVE  \E j \in DOMAIN commands' :
                        commands'[j].state = "QUARANTINE" /\ commands'[j].gen < commands'[i].gen
    BY DEF QuarantineBeforeTermination
  <2>1. CASE i \in DOMAIN commands
    BY <1>5, <2>1 DEF ContainmentInv, ContainmentHolds, QuarantineBeforeTermination
  <2>2. CASE i = n
    <3>1. QuarantinedBy(issue[h].gen)
      BY <1>1, <1>2, <1>5, <2>2 DEF CallKnows
    <3>2. PICK j \in DOMAIN commands : commands[j].state = "QUARANTINE" /\ commands[j].gen <= issue[h].gen
      BY <3>1 DEF QuarantinedBy
    <3>3. commands'[j] = commands[j] /\ j \in DOMAIN commands' /\ commands[j].gen \in Nat
      BY <1>5, CommandsForm
    <3>4. commands[j].gen < gen
      BY <1>2, <3>2, <3>3
    <3> QED BY <1>5, <2>2, <3>2, <3>3, <3>4
  <2> QED BY <1>5, <2>1, <2>2
<1>11. IsolatedBeforeCommand'
  <2> SUFFICES ASSUME NEW i \in DOMAIN commands', commands'[i].state \in HighImpact
               PROVE  agentRow' = "REVOKED" /\ \E f, g \in commands'[i].signers : f # g
    BY DEF IsolatedBeforeCommand
  <2>1. CASE i \in DOMAIN commands
    BY <1>1, <1>5, <2>1 DEF ContainmentInv, ContainmentHolds, IsolatedBeforeCommand
  <2>2. CASE i = n
    BY <1>1, <1>2, <1>5, <2>2 DEF CallKnows
  <2> QED BY <1>5, <2>1, <2>2
<1>12. GenerationsOrderCommands'
  <2> SUFFICES ASSUME ~collided', NEW i \in DOMAIN commands', NEW j \in DOMAIN commands', i < j
               PROVE  commands'[i].gen < commands'[j].gen
    BY DEF GenerationsOrderCommands
  <2>1. ~collided /\ \A k \in DOMAIN commands : ~(commands[k].gen > issue[h].gen)
    BY <1>1
  <2>2. i \in DOMAIN commands
    BY <1>3, <1>5
  <2>3. CASE j \in DOMAIN commands
    BY <1>5, <2>1, <2>2, <2>3 DEF ContainmentInv, ContainmentHolds, GenerationsOrderCommands
  <2>4. CASE j = n
    <3>1. commands[i].gen \in Nat /\ commands[i].gen <= issue[h].gen
      BY <1>2, <2>1, <2>2, CommandsForm
    <3> QED BY <1>2, <1>5, <2>2, <2>4, <3>1
  <2> QED BY <1>5, <2>3, <2>4
<1> QED BY <1>6, <1>7, <1>9, <1>10, <1>11, <1>12 DEF ContainmentInv, ContainmentHolds

(* An answer or an expiry changes the acknowledgement alone. *)
LEMMA AnswerKeeps ==
    ASSUME ContainmentInv, NEW i \in DOMAIN commands, NEW ack \in {"ANSWERED", "EXPIRED"},
           commands' = [commands EXCEPT ![i].ack = ack],
           UNCHANGED <<cards, agentRow, issue, collided>>
    PROVE  ContainmentInv'
<1>1. /\ commands \in Seq(Command) /\ DOMAIN commands = 1..Len(commands) /\ Len(commands) \in Nat
      /\ \A j \in DOMAIN commands : commands[j] \in Command
  BY CommandsForm
<1>2. ASSUME NEW c \in Command
      PROVE  LET d == [c EXCEPT !.ack = ack]
             IN  d \in Command /\ d.state = c.state /\ d.gen = c.gen /\ d.signers = c.signers
  BY DEF Command
<1>3. DOMAIN commands' = DOMAIN commands /\ commands' = [j \in DOMAIN commands |->
        IF j = i THEN [commands[i] EXCEPT !.ack = ack] ELSE commands[j]]
  BY <1>1
<1>4. \A j \in DOMAIN commands : /\ commands'[j] \in Command /\ commands'[j].state = commands[j].state
                                /\ commands'[j].gen = commands[j].gen /\ commands'[j].signers = commands[j].signers
  BY <1>1, <1>2, <1>3
<1>5. commands' \in Seq(Command) /\ Len(commands') = Len(commands)
  BY <1>1, <1>3, <1>4
<1>6. ContainmentTypeOK'
  BY <1>5 DEF ContainmentInv, ContainmentTypeOK
<1>7. CallsKnow'
  BY <1>3, <1>4, <1>5 DEF ContainmentInv, CallsKnow, CallKnows, QuarantinedBy
<1>8. ContainmentHolds'
  BY <1>3, <1>4 DEF ContainmentInv, ContainmentHolds, QuarantineBeforeTermination, IsolatedBeforeCommand,
                    GenerationsOrderCommands
<1>9. \A j \in DOMAIN commands' : commands'[j].gen <= j
  BY <1>3, <1>4 DEF ContainmentInv
<1> QED BY <1>6, <1>7, <1>8, <1>9 DEF ContainmentInv

LEMMA ContainmentStepKeeps ==
    ASSUME ContainmentInv, [ContainmentNext]_containmentVars
    PROVE  ContainmentInv'
<1>0. /\ cards \subseteq [by : Officers, for : Requests, decided : SUBSET Officers]
      /\ agentRow \in {"ACTIVE", "REVOKED"}
  BY DEF ContainmentInv, ContainmentTypeOK
<1>1. CASE UNCHANGED containmentVars
  BY <1>0, <1>1, CardStepKeeps DEF containmentVars
<1>2. ASSUME NEW h \in Officers, NEW s \in Requests, RequestCard(h, s) PROVE ContainmentInv'
  <2>1. cards' \subseteq [by : Officers, for : Requests, decided : SUBSET Officers]
    BY <1>0, <1>2 DEF RequestCard
  <2> QED BY <1>2, <2>1, CardStepKeeps DEF RequestCard
<1>3. ASSUME NEW h \in Officers, NEW c \in cards, DecideContainment(h, c) PROVE ContainmentInv'
  <2>1. [c EXCEPT !.decided = {h}] \in [by : Officers, for : Requests, decided : SUBSET Officers]
    BY <1>0
  <2>2. cards' \subseteq [by : Officers, for : Requests, decided : SUBSET Officers]
    BY <1>0, <1>3, <2>1 DEF DecideContainment
  <2> QED BY <1>3, <2>2, CardStepKeeps DEF DecideContainment
<1>4. ASSUME NEW c \in cards, CardEnds(c) PROVE ContainmentInv'
  <2>1. cards' \subseteq [by : Officers, for : Requests, decided : SUBSET Officers]
    BY <1>0, <1>4 DEF CardEnds
  <2> QED BY <1>4, <2>1, CardStepKeeps DEF CardEnds
<1>5. ASSUME NEW h \in Officers, IssueStops(h) PROVE ContainmentInv'
  BY <1>0, <1>5, NoIssueKnows, IssueStepKeeps DEF IssueStops
<1>6. ASSUME NEW i \in DOMAIN commands, CommandExpires(i) \/ Acknowledge(i) PROVE ContainmentInv'
  BY <1>6, AnswerKeeps DEF CommandExpires, Acknowledge
<1> QED
  BY <1>1, <1>2, <1>3, <1>4, <1>5, <1>6, IssueApprovedKeeps, ReadKeeps, RevokeKeeps,
       InsertKeeps DEF ContainmentNext

LEMMA ContainmentKeeps == ContainmentSpec => []ContainmentInv
<1>1. ContainmentInv /\ [ContainmentNext]_containmentVars => ContainmentInv' BY ContainmentStepKeeps
<1> QED BY ContainmentBegins, <1>1, PTL DEF ContainmentSpec

(* Commands, cards and calls have their types; a generation is never larger *)
(* than the number of commands.                                            *)
THEOREM ContainmentTypes == ContainmentSpec => []ContainmentTypeOK
<1>1. ContainmentInv => ContainmentTypeOK BY DEF ContainmentInv
<1> QED BY ContainmentKeeps, <1>1, PTL

(* Quarantine before termination, isolation and two humans before a         *)
(* high-impact command, generations in order (admin_management.py:555-675, *)
(* containment.py).                                                        *)
THEOREM ContainmentKeepsItsOrder == ContainmentSpec => []ContainmentHolds
<1>1. ContainmentInv => ContainmentHolds BY DEF ContainmentInv
<1> QED BY ContainmentKeeps, <1>1, PTL

HIDE ContainmentAssumption

-----------------------------------------------------------------------------
(* The agent gateway *)

(* A message that is not yet delivered to an instance is still to be       *)
(* listed, on the list of the fan-out, still to be read as backlog, or on  *)
(* the backlog; and an instance that a removal of its agent did not find   *)
(* is on no list and was sent nothing.                                     *)

InstanceRow == [status : {"none", "ACTIVE", "REVOKED"}, lease : BOOLEAN, fence : 1..2, backlog : SUBSET Posts,
                call : {"none", "checked", "created", "backlog", "done"}]
DeliveryRow == [status : {"none", "PENDING", "CLAIMED", "ACKED", "DEAD_LETTER"}, claim : 0..MaxClaims,
                fence : 0..2, visible : BOOLEAN, tries : 0..MaxClaims]
PostRow == [phase : {"none", "stored", "fanout", "done"}, targets : SUBSET Instances]

Inserted(i) == instance[i].status # "none"
InstanceKnows(i) ==
    /\ Inserted(i) <=> instance[i].call \in {"created", "backlog", "done"}
    /\ i \notin lapsed => instance[i].lease

(* Whichever of the fan-out and the backlog is still to read will see the     *)
(* other's row, or has it on its list.                                        *)
Stays(i) == joins = 1 /\ membership /\ principal /\ i \notin lapsed /\ instance[i].status = "ACTIVE"
WillBeDelivered(m, i) ==
    \/ delivery[<<m, i>>].status # "none"
    \/ post[m].phase \in {"none", "stored"}
    \/ post[m].phase = "fanout" /\ i \in post[m].targets
    \/ instance[i].call = "created"
    \/ instance[i].call = "backlog" /\ m \in instance[i].backlog

(* An instance that a removal of its agent did not find has been sent         *)
(* nothing, and is on no list.                                                *)
Overlooked(i) == ~Inserted(i) \/ (instance[i].status = "ACTIVE" /\ ~membership /\ ~removal)
Unserved(m, i) ==
    delivery[<<m, i>>].status = "none" /\ i \notin post[m].targets /\ m \notin instance[i].backlog

RowsAreNew == \A d \in Posts \X Instances : delivery[d].status = "none" => delivery[d] = NoDelivery

GatewayInv ==
    /\ GatewayTypeOK
    /\ removal => ~membership
    /\ \A i \in Instances : InstanceKnows(i)
    /\ RowsAreNew
    /\ \A m \in Posts, i \in Instances : Stays(i) => WillBeDelivered(m, i)
    /\ \A m \in Posts, i \in Instances : Overlooked(i) => Unserved(m, i)

LEMMA GatewayParts ==
    ASSUME GatewayTypeOK
    PROVE  /\ instance \in [Instances -> InstanceRow] /\ post \in [Posts -> PostRow]
           /\ delivery \in [Posts \X Instances -> DeliveryRow]
           /\ joins \in 1..MaxJoins /\ membership \in BOOLEAN /\ removal \in BOOLEAN /\ principal \in BOOLEAN
           /\ lapsed \subseteq Instances
BY DEF GatewayTypeOK, InstanceRow, PostRow, DeliveryRow

LEMMA GatewayTypes ==
    ASSUME instance' \in [Instances -> InstanceRow], post' \in [Posts -> PostRow],
           delivery' \in [Posts \X Instances -> DeliveryRow],
           joins' \in 1..MaxJoins, membership' \in BOOLEAN, removal' \in BOOLEAN, principal' \in BOOLEAN,
           lapsed' \subseteq Instances
    PROVE  GatewayTypeOK'
BY DEF GatewayTypeOK, InstanceRow, PostRow, DeliveryRow

LEMMA GatewayBegins == GatewayInit => GatewayInv
<1> SUFFICES ASSUME GatewayInit PROVE GatewayInv
  OBVIOUS
<1>1. /\ NewInstance \in InstanceRow /\ Unsent \in PostRow /\ NoDelivery \in DeliveryRow
      /\ NewInstance.status = "none" /\ NewInstance.lease /\ NewInstance.backlog = {}
      /\ NewInstance.call = "none"
      /\ Unsent.phase = "none" /\ Unsent.targets = {} /\ NoDelivery.status = "none"
  BY GatewayAssumption DEF NewInstance, Unsent, NoDelivery, InstanceRow, PostRow, DeliveryRow
<1>2. /\ \A i \in Instances : instance[i] = NewInstance
      /\ \A m \in Posts : post[m] = Unsent
      /\ \A d \in Posts \X Instances : delivery[d] = NoDelivery
  BY DEF GatewayInit
<1>3. GatewayTypeOK
  <2>1. /\ instance \in [Instances -> InstanceRow] /\ post \in [Posts -> PostRow]
        /\ delivery \in [Posts \X Instances -> DeliveryRow]
    BY <1>1 DEF GatewayInit
  <2>2. /\ joins \in 1..MaxJoins /\ membership \in BOOLEAN /\ removal \in BOOLEAN /\ principal \in BOOLEAN
        /\ lapsed \subseteq Instances
    <3>1. joins = 1 /\ 1 \in 1..MaxJoins
      BY GatewayAssumption DEF GatewayInit
    <3>2. /\ membership \in BOOLEAN /\ removal \in BOOLEAN /\ principal \in BOOLEAN
          /\ lapsed \subseteq Instances
      BY DEF GatewayInit
    <3> QED
      BY <3>1, <3>2
  <2> QED
    BY <2>1, <2>2 DEF GatewayTypeOK, InstanceRow, PostRow, DeliveryRow
<1>4. RowsAreNew /\ \A i \in Instances : InstanceKnows(i) /\ ~Inserted(i)
  BY <1>1, <1>2 DEF RowsAreNew, InstanceKnows, Inserted
<1>5. \A m \in Posts, i \in Instances : Unserved(m, i) /\ WillBeDelivered(m, i)
  BY <1>1, <1>2 DEF Unserved, WillBeDelivered
<1> QED
  BY <1>3, <1>4, <1>5 DEF GatewayInit, GatewayInv

(* Steps that make no instance, list nobody and deliver nothing new.          *)
LEMMA NothingNew ==
    ASSUME GatewayInv, UNCHANGED <<membership, joins, removal, post>>,
           instance' \in [Instances -> InstanceRow], delivery' \in [Posts \X Instances -> DeliveryRow],
           principal' \in BOOLEAN, principal' => principal, lapsed' \subseteq Instances, lapsed \subseteq lapsed',
           \A i \in Instances :
             /\ instance'[i].call = instance[i].call /\ instance'[i].backlog = instance[i].backlog
             /\ instance'[i].status = "ACTIVE" => instance[i].status = "ACTIVE"
             /\ instance'[i].status = "none" <=> instance[i].status = "none"
             /\ i \notin lapsed' => instance'[i].lease,
           \A d \in Posts \X Instances :
             /\ delivery'[d].status = "none" <=> delivery[d].status = "none"
             /\ delivery'[d].status = "none" => delivery'[d] = delivery[d]
    PROVE  GatewayInv'
<1>1. GatewayTypeOK'
  BY GatewayParts, GatewayTypes DEF GatewayInv
<1>2. (removal => ~membership)' /\ RowsAreNew'
  BY DEF GatewayInv, RowsAreNew, NoDelivery
<1>3. \A i \in Instances : InstanceKnows(i)'
  BY DEF GatewayInv, InstanceKnows, Inserted
<1>4. \A m \in Posts, i \in Instances : Stays(i)' => WillBeDelivered(m, i)'
  <2> SUFFICES ASSUME NEW m \in Posts, NEW i \in Instances, Stays(i)'
               PROVE  WillBeDelivered(m, i)'
    OBVIOUS
  <2>1. Stays(i) /\ <<m, i>> \in Posts \X Instances
    BY DEF Stays
  <2>2. WillBeDelivered(m, i)
    BY <2>1 DEF GatewayInv
  <2> QED
    BY <2>1, <2>2 DEF WillBeDelivered
<1>5. \A m \in Posts, i \in Instances : Overlooked(i)' => Unserved(m, i)'
  <2> SUFFICES ASSUME NEW m \in Posts, NEW i \in Instances, Overlooked(i)'
               PROVE  Unserved(m, i)'
    OBVIOUS
  <2>1. Overlooked(i) /\ <<m, i>> \in Posts \X Instances
    BY DEF Overlooked, Inserted
  <2>2. Unserved(m, i)
    BY <2>1 DEF GatewayInv
  <2> QED
    BY <2>1, <2>2 DEF Unserved
<1> QED
  BY <1>1, <1>2, <1>3, <1>4, <1>5 DEF GatewayInv

LEMMA RevokedRows ==
    ASSUME GatewayInv, NEW selected, NEW i \in Instances
    PROVE  /\ Revoked(selected) \in [Instances -> InstanceRow]
           /\ Revoked(selected)[i].call = instance[i].call /\ Revoked(selected)[i].backlog = instance[i].backlog
           /\ Revoked(selected)[i].lease = instance[i].lease
           /\ Revoked(selected)[i].status = "ACTIVE" => instance[i].status = "ACTIVE" /\ i \notin selected
           /\ Revoked(selected)[i].status = "none" <=> instance[i].status = "none"
<1>1. ASSUME NEW r \in InstanceRow
      PROVE  /\ [r EXCEPT !.status = "REVOKED", !.fence = 2] \in InstanceRow
             /\ [r EXCEPT !.status = "REVOKED", !.fence = 2].status = "REVOKED"
             /\ [r EXCEPT !.status = "REVOKED", !.fence = 2].call = r.call
             /\ [r EXCEPT !.status = "REVOKED", !.fence = 2].backlog = r.backlog
             /\ [r EXCEPT !.status = "REVOKED", !.fence = 2].lease = r.lease
  <2> DEFINE half == [r EXCEPT !.status = "REVOKED"]
             row == [half EXCEPT !.fence = 2]
  <2>1. /\ half \in InstanceRow /\ half.status = "REVOKED" /\ half.call = r.call /\ half.backlog = r.backlog
        /\ half.lease = r.lease
    BY DEF InstanceRow
  <2>2. row = [r EXCEPT !.status = "REVOKED", !.fence = 2]
    OBVIOUS
  <2> HIDE DEF half
  <2>3. /\ row \in InstanceRow /\ row.status = "REVOKED" /\ row.call = r.call /\ row.backlog = r.backlog
        /\ row.lease = r.lease
    BY <2>1 DEF InstanceRow
  <2> HIDE DEF row
  <2> QED
    BY <2>2, <2>3, Zenon
<1>2. \A j \in Instances : instance[j] \in InstanceRow
  BY GatewayParts DEF GatewayInv
<1> QED
  BY <1>1, <1>2 DEF Revoked

LEMMA ReturnedRows ==
    ASSUME GatewayInv, NEW d \in Posts \X Instances
    PROVE  /\ Returned(d) \in DeliveryRow /\ Returned(d).tries = delivery[d].tries
           /\ Returned(d).status = "none" <=> delivery[d].status = "none"
           /\ delivery[d].status = "none" => Returned(d) = delivery[d]
<1>1. delivery[d] \in DeliveryRow
  BY GatewayParts DEF GatewayInv
<1>2. delivery[d].tries \in 0..MaxClaims
  BY <1>1 DEF DeliveryRow
<1>3. CASE delivery[d].status = "CLAIMED"
  <2>1. Returned(d) = [status |-> "PENDING", claim |-> 0, fence |-> 0, visible |-> TRUE, tries |-> delivery[d].tries]
    BY <1>3 DEF Returned, PendingAgain
  <2> QED
    BY <1>2, <1>3, <2>1, GatewayAssumption DEF DeliveryRow
<1>4. CASE delivery[d].status # "CLAIMED"
  BY <1>1, <1>4 DEF Returned
<1> QED
  BY <1>3, <1>4

(* Leases and revocations. *)
LEMMA LeaseStepKeeps ==
    ASSUME GatewayInv,
           \/ \E i \in Instances : LeaseEnds(i) \/ Heartbeat(i) \/ RevokeInstance(i)
           \/ ReclaimNode \/ ReturnClaims \/ Offboard
    PROVE  GatewayInv'
<1>0. /\ instance \in [Instances -> InstanceRow] /\ delivery \in [Posts \X Instances -> DeliveryRow]
      /\ lapsed \subseteq Instances /\ principal \in BOOLEAN
      /\ \A i \in Instances : i \notin lapsed => instance[i].lease
  BY GatewayParts DEF GatewayInv, InstanceKnows
<1>1. ASSUME NEW b \in BOOLEAN, NEW r \in InstanceRow
      PROVE  /\ [r EXCEPT !.lease = b] \in InstanceRow /\ [r EXCEPT !.lease = b].lease = b
             /\ [r EXCEPT !.lease = b].status = r.status /\ [r EXCEPT !.lease = b].call = r.call
             /\ [r EXCEPT !.lease = b].backlog = r.backlog
  BY DEF InstanceRow
<1>2. ASSUME NEW i \in Instances, LeaseEnds(i) \/ Heartbeat(i)
      PROVE  GatewayInv'
  <2>1. PICK b \in BOOLEAN : /\ instance' = [instance EXCEPT ![i] = [instance[i] EXCEPT !.lease = b]]
                             /\ b \/ i \in lapsed'
    <3>1. LeaseEnds(i) => instance' = [instance EXCEPT ![i] = [instance[i] EXCEPT !.lease = FALSE]] /\ i \in lapsed'
      BY <1>0 DEF LeaseEnds
    <3>2. Heartbeat(i) => instance' = [instance EXCEPT ![i] = [instance[i] EXCEPT !.lease = TRUE]]
      BY <1>0 DEF Heartbeat
    <3> QED
      BY <1>2, <3>1, <3>2
  <2>2. /\ UNCHANGED <<membership, joins, removal, principal, post, delivery>>
        /\ lapsed \subseteq lapsed' /\ lapsed' \subseteq Instances
    BY <1>0, <1>2 DEF LeaseEnds, Heartbeat
  <2> DEFINE row == [instance[i] EXCEPT !.lease = b]
  <2>3. /\ row \in InstanceRow /\ row.lease = b /\ row.status = instance[i].status
        /\ row.call = instance[i].call /\ row.backlog = instance[i].backlog
    BY <1>0, <1>1
  <2>4. instance' = [instance EXCEPT ![i] = row]
    BY <2>1
  <2> HIDE DEF row
  <2> QED
    BY <1>0, <2>1, <2>2, <2>3, <2>4, NothingNew
<1>3. ASSUME NEW selected, instance' = Revoked(selected),
             UNCHANGED <<membership, joins, removal, principal, post, delivery, lapsed>>
      PROVE  GatewayInv'
  <2>1. instance' \in [Instances -> InstanceRow] \/ Instances = {}
    BY <1>3, RevokedRows
  <2>2. Instances = {} => instance' \in [Instances -> InstanceRow]
    BY <1>3 DEF Revoked
  <2> QED
    BY <1>0, <1>3, <2>1, <2>2, RevokedRows, NothingNew
<1>4. CASE ReturnClaims
  <2>1. /\ UNCHANGED <<membership, joins, removal, principal, instance, post, lapsed>>
        /\ delivery' = [d \in Posts \X Instances |->
                          IF instance[d[2]].status = "REVOKED" THEN Returned(d) ELSE delivery[d]]
    BY <1>4 DEF ReturnClaims
  <2>2. delivery' \in [Posts \X Instances -> DeliveryRow]
    BY <1>0, <2>1, ReturnedRows
  <2>3. \A d \in Posts \X Instances : /\ delivery'[d].status = "none" <=> delivery[d].status = "none"
                                      /\ delivery'[d].status = "none" => delivery'[d] = delivery[d]
    BY <1>0, <2>1, ReturnedRows
  <2> QED
    BY <1>0, <2>1, <2>2, <2>3, NothingNew
<1>5. CASE Offboard
  <2>1. /\ UNCHANGED <<membership, joins, removal, post, lapsed>> /\ principal' = FALSE
        /\ instance' = Revoked(Instances) /\ delivery' = [d \in Posts \X Instances |-> Returned(d)]
    BY <1>5 DEF Offboard
  <2>2. delivery' \in [Posts \X Instances -> DeliveryRow]
    BY <2>1, ReturnedRows
  <2>3. \A d \in Posts \X Instances : /\ delivery'[d].status = "none" <=> delivery[d].status = "none"
                                      /\ delivery'[d].status = "none" => delivery'[d] = delivery[d]
    BY <2>1, ReturnedRows
  <2>4. instance' \in [Instances -> InstanceRow]
    BY <2>1, RevokedRows DEF Revoked
  <2> QED
    BY <1>0, <2>1, <2>2, <2>3, <2>4, RevokedRows, NothingNew
<1> QED
  BY <1>2, <1>3, <1>4, <1>5 DEF RevokeInstance, ReclaimNode

(* Claims and acknowledgements. *)
LEMMA ClaimStepKeeps ==
    ASSUME GatewayInv, NEW m \in Posts, NEW i \in Instances,
           \/ ClaimDelivery(m, i) \/ VisibilityEnds(m, i)
           \/ \E token \in 1..delivery[<<m, i>>].tries : AcknowledgeDelivery(m, i, token)
    PROVE  GatewayInv' /\ (delivery'[<<m, i>>].tries > delivery[<<m, i>>].tries =>
                             membership \/ removal)
           /\ \A d \in Posts \X Instances : d # <<m, i>> => delivery'[d] = delivery[d]
<1> DEFINE d == <<m, i>>
           old == delivery[d]
<1>0. /\ instance \in [Instances -> InstanceRow] /\ delivery \in [Posts \X Instances -> DeliveryRow]
      /\ d \in Posts \X Instances /\ old \in DeliveryRow
      /\ lapsed \subseteq Instances /\ principal \in BOOLEAN
      /\ \A j \in Instances : j \notin lapsed => instance[j].lease
  BY GatewayParts DEF GatewayInv, InstanceKnows
<1>1. UNCHANGED <<membership, joins, removal, principal, instance, post, lapsed>>
  BY DEF ClaimDelivery, VisibilityEnds, AcknowledgeDelivery
<1>2. ASSUME NEW row \in DeliveryRow, delivery' = [delivery EXCEPT ![d] = row],
             row.status # "none", old.status # "none"
      PROVE  GatewayInv' /\ delivery'[d] = row /\ \A e \in Posts \X Instances : e # d => delivery'[e] = delivery[e]
  <2> HIDE DEF d
  <2>1. delivery' \in [Posts \X Instances -> DeliveryRow]
    BY <1>0, <1>2
  <2>2. delivery'[d] = row /\ \A e \in Posts \X Instances : e # d => delivery'[e] = delivery[e]
    BY <1>0, <1>2
  <2>3. \A e \in Posts \X Instances : /\ delivery'[e].status = "none" <=> delivery[e].status = "none"
                                      /\ delivery'[e].status = "none" => delivery'[e] = delivery[e]
    BY <1>2, <2>2
  <2> QED
    BY <1>0, <1>1, <2>1, <2>2, <2>3, NothingNew
<1>3. /\ old.tries \in 0..MaxClaims /\ old.claim \in 0..MaxClaims /\ old.fence \in 0..2
      /\ old.visible \in BOOLEAN /\ instance[i].fence \in 1..2 /\ MaxClaims \in Nat
      /\ old = [status |-> old.status, claim |-> old.claim, fence |-> old.fence, visible |-> old.visible,
                tries |-> old.tries]
  BY <1>0, GatewayAssumption DEF DeliveryRow, InstanceRow
<1>4. CASE ClaimDelivery(m, i)
  <2> DEFINE row == [status |-> "CLAIMED", claim |-> old.tries + 1, fence |-> instance[i].fence,
                     visible |-> TRUE, tries |-> old.tries + 1]
  <2>1. Claimable(d, i) /\ delivery' = [delivery EXCEPT ![d] = row]
    BY <1>0, <1>4 DEF ClaimDelivery
  <2>2. old.tries < MaxClaims /\ old.status # "none" /\ instance[i].status = "ACTIVE"
    BY <2>1 DEF Claimable, Live
  <2>3. row \in DeliveryRow /\ row.status # "none"
    BY <1>3, <2>2 DEF DeliveryRow
  <2>4. membership \/ removal
    BY <2>2 DEF GatewayInv, Overlooked, Unserved
  <2> HIDE DEF row
  <2> QED
    BY <1>2, <2>1, <2>2, <2>3, <2>4
<1>5. ASSUME NEW row \in DeliveryRow, delivery' = [delivery EXCEPT ![d] = row],
             row.status # "none", old.status # "none", row.tries = old.tries
      PROVE  GatewayInv' /\ delivery'[d].tries = old.tries
             /\ \A e \in Posts \X Instances : e # d => delivery'[e] = delivery[e]
  BY <1>2, <1>5
<1>6. CASE VisibilityEnds(m, i)
  <2> DEFINE row == [old EXCEPT !.visible = FALSE]
  <2>1. old.status = "CLAIMED" /\ delivery' = [delivery EXCEPT ![d] = row]
    BY <1>6 DEF VisibilityEnds
  <2>2. row \in DeliveryRow /\ row.status = old.status /\ row.tries = old.tries
    BY <1>0 DEF DeliveryRow
  <2> HIDE DEF row
  <2>3. GatewayInv' /\ delivery'[d].tries = old.tries
        /\ \A e \in Posts \X Instances : e # d => delivery'[e] = delivery[e]
    BY <1>5, <2>1, <2>2
  <2> QED
    BY <1>3, <2>3
<1>7. CASE \E token \in 1..delivery[<<m, i>>].tries : AcknowledgeDelivery(m, i, token)
  <2>1. PICK success \in BOOLEAN :
          /\ old.status = "CLAIMED"
          /\ delivery' = [delivery EXCEPT ![d] =
               IF success THEN [old EXCEPT !.status = "ACKED"]
               ELSE IF old.tries >= MaxClaims THEN [old EXCEPT !.status = "DEAD_LETTER"]
               ELSE PendingAgain(old.tries)]
    BY <1>7 DEF AcknowledgeDelivery, Held
  <2> DEFINE row == IF success THEN [old EXCEPT !.status = "ACKED"]
               ELSE IF old.tries >= MaxClaims THEN [old EXCEPT !.status = "DEAD_LETTER"]
               ELSE PendingAgain(old.tries)
  <2>2. row \in DeliveryRow /\ row.status # "none" /\ row.tries = old.tries
    <3>1. \A s \in {"ACKED", "DEAD_LETTER"} : /\ [old EXCEPT !.status = s] \in DeliveryRow
                                              /\ [old EXCEPT !.status = s].status = s
                                              /\ [old EXCEPT !.status = s].tries = old.tries
      BY <1>0 DEF DeliveryRow
    <3>2. /\ PendingAgain(old.tries) \in DeliveryRow /\ PendingAgain(old.tries).status = "PENDING"
          /\ PendingAgain(old.tries).tries = old.tries
      BY <1>3 DEF DeliveryRow, PendingAgain
    <3> HIDE DEF old
    <3> QED
      BY <3>1, <3>2
  <2>3. delivery' = [delivery EXCEPT ![d] = row]
    BY <2>1
  <2> HIDE DEF row
  <2>4. GatewayInv' /\ delivery'[d].tries = old.tries
        /\ \A e \in Posts \X Instances : e # d => delivery'[e] = delivery[e]
    BY <1>5, <2>1, <2>2, <2>3
  <2> QED
    BY <1>3, <2>4
<1> QED
  BY <1>4, <1>6, <1>7

(* A row that is enqueued is there afterwards. *)
LEMMA Enqueued ==
    ASSUME GatewayInv, NEW m \in Posts, NEW i \in Instances, EnqueueDelivery(m, i)
    PROVE  /\ delivery' \in [Posts \X Instances -> DeliveryRow] /\ RowsAreNew'
           /\ delivery'[<<m, i>>].status # "none"
           /\ \A e \in Posts \X Instances : /\ e # <<m, i>> => delivery'[e] = delivery[e]
                                            /\ delivery'[e].tries = delivery[e].tries
<1> DEFINE d == <<m, i>>
           row == IF delivery[d] = NoDelivery THEN [delivery[d] EXCEPT !.status = "PENDING"] ELSE delivery[d]
<1>0. /\ delivery \in [Posts \X Instances -> DeliveryRow] /\ d \in Posts \X Instances /\ RowsAreNew
  BY GatewayParts DEF GatewayInv
<1>1. delivery' = [delivery EXCEPT ![d] = row]
  BY DEF EnqueueDelivery
<1>2. row \in DeliveryRow /\ row.status # "none" /\ row.tries = delivery[d].tries
  BY <1>0 DEF RowsAreNew, DeliveryRow, NoDelivery
<1> HIDE DEF row, d
<1>3. delivery' \in [Posts \X Instances -> DeliveryRow]
  BY <1>0, <1>1, <1>2
<1>4. delivery'[d] = row /\ \A e \in Posts \X Instances : e # d => delivery'[e] = delivery[e]
  BY <1>0, <1>1
<1>5. RowsAreNew'
  BY <1>0, <1>2, <1>4 DEF RowsAreNew, NoDelivery
<1> QED
  BY <1>2, <1>3, <1>4, <1>5 DEF d

(* create_instance *)
LEMMA CreateStepKeeps ==
    ASSUME GatewayInv, NEW i \in Instances,
           CheckMembership(i) \/ InsertInstance(i) \/ ReadBacklog(i) \/ EnqueueBacklog(i)
    PROVE  GatewayInv' /\ \A e \in Posts \X Instances : delivery'[e].tries = delivery[e].tries
<1> DEFINE old == instance[i]
<1>0. /\ instance \in [Instances -> InstanceRow] /\ post \in [Posts -> PostRow]
      /\ delivery \in [Posts \X Instances -> DeliveryRow] /\ old \in InstanceRow
      /\ joins \in 1..MaxJoins /\ membership \in BOOLEAN /\ removal \in BOOLEAN /\ principal \in BOOLEAN
      /\ lapsed \subseteq Instances
  BY GatewayParts DEF GatewayInv
<1>1. UNCHANGED <<membership, joins, removal, principal, post, lapsed>>
  BY DEF CheckMembership, InsertInstance, ReadBacklog, EnqueueBacklog
<1>2. /\ old = [status |-> old.status, lease |-> old.lease, fence |-> old.fence, backlog |-> old.backlog,
                call |-> old.call]
      /\ old.status \in {"none", "ACTIVE", "REVOKED"} /\ old.lease \in BOOLEAN /\ old.fence \in 1..2
      /\ old.backlog \in SUBSET Posts /\ old.call \in {"none", "checked", "created", "backlog", "done"}
  BY <1>0 DEF InstanceRow
(* The row that changes, what it is to say, and what becomes of the rest.     *)
<1>3. ASSUME NEW row \in InstanceRow, instance' = [instance EXCEPT ![i] = row],
             row.lease = old.lease,
             row.status # "none" <=> row.call \in {"created", "backlog", "done"},
             RowsAreNew', delivery' \in [Posts \X Instances -> DeliveryRow],
             \A e \in Posts \X Instances : delivery[e].status # "none" => delivery'[e].status # "none",
             \A e \in Posts \X Instances : e[2] # i => delivery'[e] = delivery[e],
             \A m \in Posts : Stays(i)' => WillBeDelivered(m, i)',
             \A m \in Posts : Overlooked(i)' => Unserved(m, i)'
      PROVE  GatewayInv'
  <2>1. instance' \in [Instances -> InstanceRow] /\ instance'[i] = row
        /\ \A j \in Instances : j # i => instance'[j] = instance[j]
    BY <1>0, <1>3
  <2>2. GatewayTypeOK'
    BY <1>0, <1>1, <1>3, <2>1, GatewayTypes
  <2>3. \A j \in Instances : InstanceKnows(j)'
    BY <1>1, <1>3, <2>1 DEF GatewayInv, InstanceKnows, Inserted
  <2>4. ASSUME NEW m \in Posts, NEW j \in Instances, j # i
        PROVE  (Stays(j)' => WillBeDelivered(m, j)') /\ (Overlooked(j)' => Unserved(m, j)')
    <3>1. instance'[j] = instance[j] /\ delivery'[<<m, j>>] = delivery[<<m, j>>]
      BY <1>3, <2>1, <2>4
    <3>2. (Stays(j) => WillBeDelivered(m, j)) /\ (Overlooked(j) => Unserved(m, j))
      BY DEF GatewayInv
    <3> QED
      BY <1>1, <3>1, <3>2 DEF Stays, WillBeDelivered, Overlooked, Unserved, Inserted
  <2>5. \A m \in Posts, j \in Instances : (Stays(j)' => WillBeDelivered(m, j)') /\ (Overlooked(j)' => Unserved(m, j)')
    BY <1>3, <2>4
  <2>6. (removal => ~membership)'
    BY <1>1 DEF GatewayInv
  <2> QED
    BY <1>3, <2>2, <2>3, <2>5, <2>6 DEF GatewayInv
<1>4. CASE CheckMembership(i)
  <2> DEFINE row == [old EXCEPT !.call = "checked"]
  <2>1. /\ row \in InstanceRow /\ row.lease = old.lease /\ row.status = old.status
        /\ row.backlog = old.backlog
    BY <1>0 DEF InstanceRow
  <2>2. /\ instance' = [instance EXCEPT ![i] = row] /\ old.call = "none" /\ UNCHANGED delivery
    BY <1>4 DEF CheckMembership
  <2>3. old.status = "none"
    BY <2>2 DEF GatewayInv, InstanceKnows, Inserted
  <2> HIDE DEF row
  <2>4. instance'[i] = row
    BY <1>0, <2>2
  <2>5. \A m \in Posts : Unserved(m, i)' /\ ~Stays(i)'
    <3> SUFFICES ASSUME NEW m \in Posts PROVE Unserved(m, i)' /\ ~Stays(i)'
      OBVIOUS
    <3>1. Unserved(m, i)
      BY <2>3 DEF GatewayInv, Overlooked, Inserted
    <3> QED
      BY <1>1, <2>1, <2>2, <2>3, <2>4, <3>1 DEF Unserved, Stays
  <2>6. RowsAreNew' /\ row.call = "checked"
    BY <1>0, <1>2, <2>2 DEF GatewayInv, RowsAreNew, row
  <2> QED
    BY <1>0, <1>3, <2>1, <2>2, <2>3, <2>5, <2>6
<1>5. CASE InsertInstance(i)
  <2> DEFINE half == [old EXCEPT !.status = "ACTIVE"]
             row == [half EXCEPT !.call = "created"]
  <2>1. half \in InstanceRow /\ half.lease = old.lease /\ half.status = "ACTIVE" /\ half.backlog = old.backlog
    BY <1>0 DEF InstanceRow
  <2> HIDE DEF half
  <2>2. /\ row \in InstanceRow /\ row.lease = old.lease /\ row.status = "ACTIVE" /\ row.call = "created"
        /\ row.backlog = old.backlog
    BY <2>1 DEF InstanceRow
  <2>3. /\ instance' = [instance EXCEPT ![i] = row] /\ old.call = "checked" /\ UNCHANGED delivery
    BY <1>0, <1>5 DEF InsertInstance, half
  <2>4. old.status = "none"
    BY <2>3 DEF GatewayInv, InstanceKnows, Inserted
  <2> HIDE DEF row
  <2>5. instance'[i] = row
    BY <1>0, <2>3
  <2>6. \A m \in Posts : Unserved(m, i)' /\ WillBeDelivered(m, i)'
    <3> SUFFICES ASSUME NEW m \in Posts PROVE Unserved(m, i)' /\ WillBeDelivered(m, i)'
      OBVIOUS
    <3>1. Unserved(m, i)
      BY <2>4 DEF GatewayInv, Overlooked, Inserted
    <3> QED
      BY <1>1, <2>2, <2>3, <2>5, <3>1 DEF Unserved, WillBeDelivered
  <2> QED
    BY <1>0, <1>3, <2>2, <2>3, <2>6 DEF GatewayInv, RowsAreNew
<1>6. CASE ReadBacklog(i)
  <2> DEFINE half == [old EXCEPT !.call = "backlog"]
             row == [half EXCEPT !.backlog = BacklogOf]
  <2>1. half \in InstanceRow /\ half.lease = old.lease /\ half.status = old.status /\ half.call = "backlog"
    BY <1>0 DEF InstanceRow
  <2> HIDE DEF half
  <2>2. /\ row \in InstanceRow /\ row.lease = old.lease /\ row.status = old.status /\ row.call = "backlog"
        /\ row.backlog = BacklogOf
    BY <2>1 DEF InstanceRow, BacklogOf
  <2>3. /\ instance' = [instance EXCEPT ![i] = row] /\ old.call = "created" /\ UNCHANGED delivery
    BY <1>0, <1>6 DEF ReadBacklog, half
  <2> HIDE DEF row
  <2>4. instance'[i] = row
    BY <1>0, <2>3
  <2>5. ASSUME NEW m \in Posts, Stays(i)'
        PROVE  WillBeDelivered(m, i)'
    <3>1. membership
      BY <1>1, <2>5 DEF Stays
    <3>2. post[m].phase \in {"none", "stored"} \/ m \in BacklogOf
      BY <3>1 DEF BacklogOf, Stored
    <3> QED
      BY <1>1, <2>2, <2>4, <3>2 DEF WillBeDelivered
  <2>6. ASSUME NEW m \in Posts, Overlooked(i)'
        PROVE  Unserved(m, i)'
    <3>1. old.status = "none" \/ (old.status = "ACTIVE" /\ ~membership /\ ~removal)
      BY <1>1, <2>2, <2>4, <2>6 DEF Overlooked, Inserted
    <3>2. Unserved(m, i)
      BY <3>1 DEF GatewayInv, Overlooked, Inserted
    <3>3. ~membership \/ old.status = "none"
      BY <3>1
    <3>4. old.status # "none" \/ old.call \in {"none", "checked"}
      BY <1>0, <2>3, <3>1 DEF GatewayInv, InstanceKnows, Inserted, InstanceRow
    <3> QED
      BY <1>1, <2>2, <2>3, <2>4, <3>2, <3>3, <3>4 DEF Unserved, BacklogOf
  <2>7. RowsAreNew' /\ row.status # "none"
    BY <2>2, <2>3 DEF GatewayInv, RowsAreNew, InstanceKnows, Inserted
  <2> QED
    BY <1>0, <1>3, <2>2, <2>3, <2>5, <2>6, <2>7
<1>7. CASE EnqueueBacklog(i)
  <2>1. old.call = "backlog"
    BY <1>7 DEF EnqueueBacklog
  <2>2. CASE old.backlog = {}
    <3> DEFINE row == [old EXCEPT !.call = "done"]
    <3>1. /\ row \in InstanceRow /\ row.lease = old.lease /\ row.status = old.status /\ row.call = "done"
          /\ row.backlog = old.backlog
      BY <1>0 DEF InstanceRow
    <3>2. instance' = [instance EXCEPT ![i] = row] /\ UNCHANGED delivery
      BY <1>7, <2>2 DEF EnqueueBacklog
    <3> HIDE DEF row
    <3>3. instance'[i] = row
      BY <1>0, <3>2
    <3>4. ASSUME NEW m \in Posts
          PROVE  (Stays(i)' => WillBeDelivered(m, i)') /\ (Overlooked(i)' => Unserved(m, i)')
      <4>1. (Stays(i) => WillBeDelivered(m, i)) /\ (Overlooked(i) => Unserved(m, i))
        BY DEF GatewayInv
      <4> QED
        BY <1>1, <2>1, <2>2, <3>1, <3>2, <3>3, <4>1
           DEF Stays, WillBeDelivered, Overlooked, Unserved, Inserted
    <3>5. RowsAreNew' /\ row.status # "none"
      BY <2>1, <3>1, <3>2 DEF GatewayInv, RowsAreNew, InstanceKnows, Inserted
    <3> QED
      BY <1>0, <1>3, <3>1, <3>2, <3>4, <3>5
  <2>3. CASE old.backlog # {}
    <3>1. PICK m \in old.backlog : EnqueueDelivery(m, i)
                                   /\ instance' = [instance EXCEPT ![i].backlog = @ \ {m}]
      BY <1>7, <2>3 DEF EnqueueBacklog
    <3>2. m \in Posts
      BY <1>2
    <3> DEFINE rest == old.backlog \ {m}
               row == [old EXCEPT !.backlog = rest]
    <3>3. /\ row \in InstanceRow /\ row.lease = old.lease /\ row.status = old.status /\ row.call = old.call
          /\ row.backlog = rest
      BY <1>0 DEF InstanceRow
    <3>4. instance' = [instance EXCEPT ![i] = row]
      BY <3>1
    <3> HIDE DEF row
    <3>5. instance'[i] = row
      BY <1>0, <3>4
    <3>6. /\ delivery' \in [Posts \X Instances -> DeliveryRow] /\ RowsAreNew'
          /\ delivery'[<<m, i>>].status # "none"
          /\ \A e \in Posts \X Instances : /\ e # <<m, i>> => delivery'[e] = delivery[e]
                                           /\ delivery'[e].tries = delivery[e].tries
      BY <3>1, <3>2, Enqueued
    <3>7. \A n \in Posts : n # m => <<n, i>> # <<m, i>> /\ delivery'[<<n, i>>] = delivery[<<n, i>>]
      BY <3>6
    <3>8. ASSUME NEW n \in Posts, Stays(i)'
          PROVE  WillBeDelivered(n, i)'
      <4>1. Stays(i)
        BY <1>1, <3>3, <3>5, <3>8 DEF Stays
      <4>2. WillBeDelivered(n, i)
        BY <4>1 DEF GatewayInv
      <4>3. CASE n = m
        BY <3>6, <4>3 DEF WillBeDelivered
      <4>4. CASE n # m
        BY <1>1, <3>3, <3>5, <3>7, <4>2, <4>4 DEF WillBeDelivered
      <4> QED
        BY <4>3, <4>4
    <3>9. ~Overlooked(i)'
      <4>1. ~Unserved(m, i)
        BY DEF Unserved
      <4>2. ~Overlooked(i)
        BY <3>2, <4>1 DEF GatewayInv
      <4> QED
        BY <1>1, <3>3, <3>5, <4>2 DEF Overlooked, Inserted
    <3>10. /\ \A e \in Posts \X Instances : delivery[e].status # "none" => delivery'[e].status # "none"
           /\ \A e \in Posts \X Instances : e[2] # i => delivery'[e] = delivery[e]
      BY <3>6
    <3>11. row.status # "none" <=> row.call \in {"created", "backlog", "done"}
      BY <2>1, <3>3 DEF GatewayInv, InstanceKnows, Inserted
    <3>12. GatewayInv'
      BY <1>3, <3>3, <3>4, <3>6, <3>8, <3>9, <3>10, <3>11
    <3> QED
      BY <3>6, <3>12
  <2> QED
    BY <2>2, <2>3
<1>8. CheckMembership(i) \/ InsertInstance(i) \/ ReadBacklog(i) => UNCHANGED delivery
  BY DEF CheckMembership, InsertInstance, ReadBacklog
<1> QED
  BY <1>4, <1>5, <1>6, <1>7, <1>8

(* post_channel_message *)
LEMMA PostStepKeeps ==
    ASSUME GatewayInv, NEW m \in Posts, StoreMessage(m) \/ ListInstances(m) \/ FanOut(m)
    PROVE  GatewayInv' /\ \A e \in Posts \X Instances : delivery'[e].tries = delivery[e].tries
<1> DEFINE old == post[m]
<1>0. /\ instance \in [Instances -> InstanceRow] /\ post \in [Posts -> PostRow]
      /\ delivery \in [Posts \X Instances -> DeliveryRow] /\ old \in PostRow
      /\ joins \in 1..MaxJoins /\ membership \in BOOLEAN /\ removal \in BOOLEAN /\ principal \in BOOLEAN
      /\ lapsed \subseteq Instances
  BY GatewayParts DEF GatewayInv
<1>1. UNCHANGED <<membership, joins, removal, principal, instance, lapsed>>
  BY DEF StoreMessage, ListInstances, FanOut
<1>2. ASSUME NEW row \in PostRow, post' = [post EXCEPT ![m] = row],
             RowsAreNew', delivery' \in [Posts \X Instances -> DeliveryRow],
             \A e \in Posts \X Instances : e[1] # m => delivery'[e] = delivery[e],
             \A i \in Instances : Stays(i) => WillBeDelivered(m, i)',
             \A i \in Instances : Overlooked(i) => Unserved(m, i)'
      PROVE  GatewayInv'
  <2>1. post' \in [Posts -> PostRow] /\ \A n \in Posts : n # m => post'[n] = post[n]
    BY <1>0, <1>2
  <2>2. GatewayTypeOK'
    BY <1>0, <1>1, <1>2, <2>1, GatewayTypes
  <2>3. (removal => ~membership)' /\ \A i \in Instances : InstanceKnows(i)'
    BY <1>1 DEF GatewayInv, InstanceKnows, Inserted
  <2>4. ASSUME NEW n \in Posts, NEW i \in Instances, n # m
        PROVE  (Stays(i) => WillBeDelivered(n, i)') /\ (Overlooked(i) => Unserved(n, i)')
    <3>1. post'[n] = post[n] /\ delivery'[<<n, i>>] = delivery[<<n, i>>]
      BY <1>2, <2>1, <2>4
    <3> QED
      BY <1>1, <3>1 DEF GatewayInv, WillBeDelivered, Unserved
  <2>5. \A i \in Instances : (Stays(i)' => Stays(i)) /\ (Overlooked(i)' => Overlooked(i))
    BY <1>1 DEF Stays, Overlooked, Inserted
  <2>6. \A n \in Posts, i \in Instances : (Stays(i)' => WillBeDelivered(n, i)') /\ (Overlooked(i)' => Unserved(n, i)')
    BY <1>2, <2>4, <2>5
  <2> QED
    BY <1>2, <2>2, <2>3, <2>6 DEF GatewayInv
<1>3. old = [phase |-> old.phase, targets |-> old.targets] /\ old.targets \subseteq Instances
  BY <1>0 DEF PostRow
<1>4. CASE StoreMessage(m)
  <2> DEFINE row == [old EXCEPT !.phase = "stored"]
  <2>1. row \in PostRow /\ row.phase = "stored" /\ row.targets = old.targets
    BY <1>0 DEF PostRow
  <2>2. post' = [post EXCEPT ![m] = row] /\ UNCHANGED delivery
    BY <1>4 DEF StoreMessage
  <2> HIDE DEF row
  <2>3. post'[m] = row
    BY <1>0, <2>2
  <2>4. RowsAreNew' /\ delivery' \in [Posts \X Instances -> DeliveryRow]
    BY <1>0, <2>2 DEF GatewayInv, RowsAreNew
  <2>5. \A i \in Instances : WillBeDelivered(m, i)'
    BY <2>1, <2>3 DEF WillBeDelivered
  <2>6. \A i \in Instances : Overlooked(i) => Unserved(m, i)'
    BY <1>1, <2>1, <2>2, <2>3 DEF GatewayInv, Unserved
  <2> QED
    BY <1>2, <2>1, <2>2, <2>4, <2>5, <2>6
<1>5. CASE ListInstances(m)
  <2> DEFINE row == [phase |-> "fanout", targets |-> Targets]
  <2>1. row \in PostRow /\ row.phase = "fanout" /\ row.targets = Targets
    BY DEF PostRow, Targets
  <2>2. post' = [post EXCEPT ![m] = row] /\ UNCHANGED delivery
    BY <1>5 DEF ListInstances
  <2> HIDE DEF row
  <2>3. post'[m] = row
    BY <1>0, <2>2
  <2>4. RowsAreNew' /\ delivery' \in [Posts \X Instances -> DeliveryRow]
    BY <1>0, <2>2 DEF GatewayInv, RowsAreNew
  <2>5. ASSUME NEW i \in Instances, Stays(i) PROVE WillBeDelivered(m, i)'
    <3>1. i \in Targets
      BY <2>5 DEF Stays, Targets, Live, GatewayInv, InstanceKnows
    <3> QED
      BY <2>1, <2>3, <3>1 DEF WillBeDelivered
  <2>6. ASSUME NEW i \in Instances, Overlooked(i) PROVE Unserved(m, i)'
    <3>1. i \notin Targets
      BY <2>6 DEF Overlooked, Targets, Live, Inserted
    <3> QED
      BY <1>1, <2>1, <2>2, <2>3, <2>6, <3>1 DEF GatewayInv, Unserved
  <2> QED
    BY <1>2, <2>1, <2>2, <2>4, <2>5, <2>6
<1>6. CASE FanOut(m)
  <2>0. old.phase = "fanout"
    BY <1>6 DEF FanOut
  <2>1. CASE old.targets = {}
    <3> DEFINE row == [old EXCEPT !.phase = "done"]
    <3>1. row \in PostRow /\ row.phase = "done" /\ row.targets = {}
      BY <1>0, <2>1 DEF PostRow
    <3>2. post' = [post EXCEPT ![m] = row] /\ UNCHANGED delivery
      BY <1>6, <2>1 DEF FanOut
    <3> HIDE DEF row
    <3>3. post'[m] = row
      BY <1>0, <3>2
    <3>4. RowsAreNew' /\ delivery' \in [Posts \X Instances -> DeliveryRow]
      BY <1>0, <3>2 DEF GatewayInv, RowsAreNew
    <3>5. ASSUME NEW i \in Instances, Stays(i) PROVE WillBeDelivered(m, i)'
      <4>1. WillBeDelivered(m, i)
        BY <3>5 DEF GatewayInv
      <4> QED
        BY <1>1, <2>0, <2>1, <3>1, <3>2, <4>1 DEF WillBeDelivered
    <3>6. \A i \in Instances : Overlooked(i) => Unserved(m, i)'
      BY <1>1, <3>1, <3>2, <3>3 DEF GatewayInv, Unserved
    <3> QED
      BY <1>2, <3>1, <3>2, <3>4, <3>5, <3>6
  <2>2. CASE old.targets # {}
    <3>1. PICK i \in old.targets : EnqueueDelivery(m, i) /\ post' = [post EXCEPT ![m].targets = @ \ {i}]
      BY <1>6, <2>2 DEF FanOut
    <3>2. i \in Instances
      BY <1>3
    <3> DEFINE rest == old.targets \ {i}
               row == [old EXCEPT !.targets = rest]
    <3>3. row \in PostRow /\ row.phase = old.phase /\ row.targets = rest
      BY <1>0 DEF PostRow
    <3>4. post' = [post EXCEPT ![m] = row]
      BY <3>1
    <3> HIDE DEF row
    <3>5. post'[m] = row
      BY <1>0, <3>4
    <3>6. /\ delivery' \in [Posts \X Instances -> DeliveryRow] /\ RowsAreNew'
          /\ delivery'[<<m, i>>].status # "none"
          /\ \A e \in Posts \X Instances : /\ e # <<m, i>> => delivery'[e] = delivery[e]
                                           /\ delivery'[e].tries = delivery[e].tries
      BY <3>1, <3>2, Enqueued
    <3>7. \A j \in Instances : j # i => delivery'[<<m, j>>] = delivery[<<m, j>>]
      BY <3>6
    <3>8. ASSUME NEW j \in Instances, Stays(j) PROVE WillBeDelivered(m, j)'
      <4>1. WillBeDelivered(m, j)
        BY <3>8 DEF GatewayInv
      <4>2. CASE j = i
        BY <3>6, <4>2 DEF WillBeDelivered
      <4>3. CASE j # i
        BY <1>1, <3>3, <3>5, <3>7, <4>1, <4>3 DEF WillBeDelivered
      <4> QED
        BY <4>2, <4>3
    <3>9. ASSUME NEW j \in Instances, Overlooked(j) PROVE Unserved(m, j)'
      <4>1. Unserved(m, j)
        BY <3>9 DEF GatewayInv
      <4>2. j # i
        BY <4>1 DEF Unserved
      <4> QED
        BY <1>1, <3>3, <3>5, <3>7, <4>1, <4>2 DEF Unserved
    <3>10. \A e \in Posts \X Instances : e[1] # m => delivery'[e] = delivery[e]
      BY <3>6
    <3>11. GatewayInv'
      BY <1>2, <3>3, <3>4, <3>6, <3>8, <3>9, <3>10
    <3> QED
      BY <3>6, <3>11
  <2> QED
    BY <2>1, <2>2
<1>7. StoreMessage(m) \/ ListInstances(m) => UNCHANGED delivery
  BY DEF StoreMessage, ListInstances
<1> QED
  BY <1>4, <1>5, <1>6, <1>7

(* The agent is added to the channel, or removed from it. *)
LEMMA MemberStepKeeps ==
    ASSUME GatewayInv, AddMember \/ RemoveMember \/ RevokeRemoved
    PROVE  GatewayInv'
<1>0. /\ instance \in [Instances -> InstanceRow] /\ post \in [Posts -> PostRow]
      /\ delivery \in [Posts \X Instances -> DeliveryRow]
      /\ joins \in 1..MaxJoins /\ membership \in BOOLEAN /\ removal \in BOOLEAN /\ principal \in BOOLEAN
      /\ lapsed \subseteq Instances
  BY GatewayParts DEF GatewayInv
<1>1. UNCHANGED <<principal, post, delivery, lapsed>>
  BY DEF AddMember, RemoveMember, RevokeRemoved
<1>2. /\ instance' \in [Instances -> InstanceRow]
      /\ \A i \in Instances :
           /\ instance'[i].call = instance[i].call /\ instance'[i].backlog = instance[i].backlog
           /\ instance'[i].lease = instance[i].lease
           /\ instance'[i].status = "ACTIVE" => instance[i].status = "ACTIVE" /\ ~RevokeRemoved
           /\ instance'[i].status = "none" <=> instance[i].status = "none"
  <2>1. CASE UNCHANGED instance /\ ~RevokeRemoved
    BY <1>0, <2>1
  <2>2. CASE RevokeRemoved
    <3>1. instance' = Revoked(Instances)
      BY <2>2 DEF RevokeRemoved
    <3>2. instance' \in [Instances -> InstanceRow]
      BY <3>1, RevokedRows DEF Revoked
    <3> QED
      BY <3>1, <3>2, RevokedRows
  <2> QED
    BY <2>1, <2>2 DEF AddMember, RemoveMember
<1>3. joins' \in 1..MaxJoins /\ membership' \in BOOLEAN /\ removal' \in BOOLEAN /\ (removal => ~membership)'
  <2>1. CASE AddMember
    <3>1. joins' = joins + 1 /\ joins < MaxJoins /\ membership' = TRUE /\ removal' = removal /\ ~removal
      BY <2>1 DEF AddMember
    <3>2. joins' \in 1..MaxJoins
      BY <1>0, <3>1, GatewayAssumption
    <3> QED
      BY <1>0, <3>1, <3>2
  <2>2. CASE RemoveMember
    BY <1>0, <2>2 DEF RemoveMember
  <2>3. CASE RevokeRemoved
    BY <1>0, <2>3 DEF RevokeRemoved, GatewayInv
  <2> QED
    BY <2>1, <2>2, <2>3
<1>4. GatewayTypeOK'
  BY <1>0, <1>1, <1>2, <1>3, GatewayTypes
<1>5. RowsAreNew' /\ \A i \in Instances : InstanceKnows(i)'
  BY <1>1, <1>2 DEF GatewayInv, RowsAreNew, InstanceKnows, Inserted
<1>6. ~(joins = 1 /\ membership)' \/ (UNCHANGED <<joins, membership>> /\ membership)
  <2>1. AddMember => joins' # 1
    BY <1>0, GatewayAssumption DEF AddMember
  <2>2. RemoveMember => ~membership'
    BY DEF RemoveMember
  <2>3. RevokeRemoved => UNCHANGED <<joins, membership>>
    BY DEF RevokeRemoved
  <2> QED
    BY <2>1, <2>2, <2>3
<1>7. ASSUME NEW m \in Posts, NEW i \in Instances, Stays(i)'
      PROVE  WillBeDelivered(m, i)'
  <2>1. Stays(i)
    BY <1>1, <1>2, <1>6, <1>7 DEF Stays
  <2>2. WillBeDelivered(m, i)
    BY <2>1 DEF GatewayInv
  <2> QED
    BY <1>1, <1>2, <2>2 DEF WillBeDelivered
<1>8. ASSUME NEW m \in Posts, NEW i \in Instances, Overlooked(i)'
      PROVE  Unserved(m, i)'
  <2>1. instance'[i].status = "ACTIVE" => membership' \/ removal'
    <3>1. AddMember => membership'
      BY DEF AddMember
    <3>2. RemoveMember => removal'
      BY DEF RemoveMember
    <3> QED
      BY <1>2, <3>1, <3>2
  <2>2. Overlooked(i)
    BY <1>2, <1>8, <2>1 DEF Overlooked, Inserted
  <2>3. Unserved(m, i)
    BY <2>2 DEF GatewayInv
  <2> QED
    BY <1>1, <1>2, <2>3 DEF Unserved
<1> QED
  BY <1>3, <1>4, <1>5, <1>7, <1>8 DEF GatewayInv

LEMMA GatewayStepKeeps ==
    GatewayInv /\ [GatewayNext]_gatewayVars => GatewayInv' /\ [\A d \in Posts \X Instances :
         delivery'[d].tries > delivery[d].tries => membership \/ removal]_gatewayVars
<1> SUFFICES ASSUME GatewayInv, [GatewayNext]_gatewayVars
             PROVE  GatewayInv' /\ \A d \in Posts \X Instances :
                      delivery'[d].tries > delivery[d].tries => membership \/ removal
  OBVIOUS
<1>0. \A d \in Posts \X Instances : delivery[d].tries \in Nat
  BY GatewayParts, GatewayAssumption DEF GatewayInv, DeliveryRow
<1>1. ASSUME \A d \in Posts \X Instances : delivery'[d].tries = delivery[d].tries
      PROVE  \A d \in Posts \X Instances : delivery'[d].tries > delivery[d].tries => membership \/ removal
  BY <1>0, <1>1
<1>2. CASE UNCHANGED gatewayVars
  <2>1. GatewayInv'
    <3>1. UNCHANGED <<membership, joins, removal, post, instance, delivery, principal, lapsed>>
      BY <1>2 DEF gatewayVars
    <3> QED
      BY <3>1, NothingNew, GatewayParts DEF GatewayInv, InstanceKnows
  <2> QED
    BY <1>1, <1>2, <2>1 DEF gatewayVars
<1>3. ASSUME NEW i \in Instances, CheckMembership(i) \/ InsertInstance(i) \/ ReadBacklog(i) \/ EnqueueBacklog(i)
      PROVE  GatewayInv' /\ \A d \in Posts \X Instances :
               delivery'[d].tries > delivery[d].tries => membership \/ removal
  BY <1>1, <1>3, CreateStepKeeps
<1>4. ASSUME NEW m \in Posts, StoreMessage(m) \/ ListInstances(m) \/ FanOut(m)
      PROVE  GatewayInv' /\ \A d \in Posts \X Instances :
               delivery'[d].tries > delivery[d].tries => membership \/ removal
  BY <1>1, <1>4, PostStepKeeps
<1>5. ASSUME NEW m \in Posts, NEW i \in Instances,
             \/ ClaimDelivery(m, i) \/ VisibilityEnds(m, i)
             \/ \E token \in 1..delivery[<<m, i>>].tries : AcknowledgeDelivery(m, i, token)
      PROVE  GatewayInv' /\ \A d \in Posts \X Instances :
               delivery'[d].tries > delivery[d].tries => membership \/ removal
  <2>1. /\ GatewayInv' /\ (delivery'[<<m, i>>].tries > delivery[<<m, i>>].tries => membership \/ removal)
        /\ \A d \in Posts \X Instances : d # <<m, i>> => delivery'[d] = delivery[d]
    BY <1>5, ClaimStepKeeps
  <2> QED
    BY <1>0, <2>1
<1>6. CASE AddMember \/ RemoveMember \/ RevokeRemoved
  BY <1>1, <1>6, MemberStepKeeps DEF AddMember, RemoveMember, RevokeRemoved
<1>7. CASE \/ \E i \in Instances : LeaseEnds(i) \/ Heartbeat(i) \/ RevokeInstance(i)
           \/ ReclaimNode \/ ReturnClaims \/ Offboard
  <2>1. GatewayInv'
    BY <1>7, LeaseStepKeeps
  <2>2. \A d \in Posts \X Instances : delivery'[d].tries = delivery[d].tries
    <3>1. CASE ReturnClaims
      BY <3>1, ReturnedRows DEF ReturnClaims
    <3>2. CASE Offboard
      BY <3>2, ReturnedRows DEF Offboard
    <3>3. CASE UNCHANGED delivery
      BY <3>3
    <3> QED
      BY <1>7, <3>1, <3>2, <3>3 DEF LeaseEnds, Heartbeat, RevokeInstance, ReclaimNode
  <2> QED
    BY <1>1, <2>1, <2>2
<1> QED
  BY <1>2, <1>3, <1>4, <1>5, <1>6, <1>7 DEF GatewayNext

(* A message posted while an instance is being created reaches it, and none   *)
(* is taken in a channel the agent was removed from: for any instances,       *)
(* messages, claims and joins, however their calls interleave or stop.        *)
THEOREM GatewayServesMembers == GatewaySpec => GatewayHolds
<1>1. GatewayInv => NothingFallsBetween
  BY DEF GatewayInv, NothingFallsBetween, Stays, WillBeDelivered
<1>2. GatewaySpec => []NothingFallsBetween
  BY <1>1, GatewayBegins, GatewayStepKeeps, PTL DEF GatewaySpec
<1>3. GatewaySpec => [][\A d \in Posts \X Instances :
         delivery'[d].tries > delivery[d].tries => membership \/ removal]_gatewayVars
  BY GatewayBegins, GatewayStepKeeps, PTL DEF GatewaySpec
<1> QED
  BY <1>2, <1>3 DEF GatewayHolds, RemovedMemberTakesNothing
==============================================================================
