--------------------------- MODULE MemoryVersions ---------------------------
(***************************************************************************)
(* The versions of a memory family (memory_lifecycle.py).  A version never  *)
(* changes its body; the family names one version as current, and a        *)
(* successor takes that place by a compare-and-set on the version its       *)
(* author had read.  A candidate is a proposed replacement of one version:  *)
(* reviewed, then activated as a successor of that version.  A snapshot     *)
(* pins versions for a Run.                                                 *)
(*                                                                         *)
(* Every transaction runs at READ COMMITTED: what a call read before its    *)
(* transaction, or with a plain SELECT in it, may have changed when it      *)
(* writes.  A call can die between any two of its transactions.             *)
(***************************************************************************)
EXTENDS Naturals, Sequences

CONSTANTS
    Editors,        \* calls that replace, restrict or quarantine the memory
    Candidates,     \* proposals for it
    Reviewers,      \* calls that review a candidate
    Bodies,         \* what a memory can say
    MaxVersions,    \* bound on versions
    MaxPins         \* bound on snapshots

ASSUME MemoryVersionsAssumption ==
    MaxVersions \in Nat \ {0} /\ MaxPins \in Nat /\ "editor" \notin Candidates

VARIABLES
    versions,   \* CX_MEMORY_VERSIONS of the family, in order of number
    current,    \* CURRENT_VERSION_ID
    editor,     \* per editor: the version it read as current, 0 for none
    proposal,   \* per candidate: its row
    review,     \* per reviewer: the candidate it found PENDING and its decision
    activation, \* per candidate: how many calls are where in activate_candidate
    pins        \* the snapshots: version pinned, and state

memoryVars == <<versions, current, editor, proposal, review, activation, pins>>

Numbers == 1..Len(versions)
LifecycleStates == {"ACTIVE", "SUPERSEDED", "ARCHIVED", "QUARANTINED", "UNAVAILABLE"}
ActivationSteps == {"claimed", "made", "failed"}
NoReview == [of |-> "none", decision |-> "none"]
Unproposed == [status |-> "NONE", source |-> 1, body |-> CHOOSE b \in Bodies : TRUE]

MemoryVersionsTypeOK ==
    /\ versions \in Seq([body : Bodies, state : LifecycleStates, made : Candidates \cup {"editor"}])
    /\ current \in Numbers
    /\ editor \in [Editors -> 0..Len(versions)]
    /\ proposal \in [Candidates ->
         [status : {"NONE", "PENDING", "APPROVED", "REJECTED", "ACTIVATING", "ACTIVATED"},
          source : Numbers, body : Bodies]]
    /\ review \in [Reviewers -> {NoReview} \cup
                                [of : Candidates, decision : {"APPROVED", "REJECTED"}]]
    /\ activation \in [Candidates -> [ActivationSteps -> 0..2]]
    /\ pins \in Seq([version : Numbers, state : {"ACTIVE", "REFRESHED"}])

MemoryVersionsInit ==
    /\ \E b \in Bodies, s \in {"ACTIVE", "QUARANTINED"} :
         versions = <<[body |-> b, state |-> s, made |-> "editor"]>>
    /\ current = 1
    /\ editor = [e \in Editors |-> 0]
    /\ proposal = [c \in Candidates |-> Unproposed]
    /\ review = [r \in Reviewers |-> NoReview]
    /\ activation = [c \in Candidates |-> [s \in ActivationSteps |-> 0]]
    /\ pins = <<>>

(* create_successor: the new version and the move of the family's pointer   *)
(* are one transaction, which only commits while the pointer is where its   *)
(* caller saw it.  The replaced version is SUPERSEDED unless it was already *)
(* out of use.                                                              *)
AnyCurrent(expected) == TRUE
StillCurrent(expected) == current = expected
Succeed(expected, body, state, by) ==
    /\ StillCurrent(expected)
    /\ Len(versions) < MaxVersions
    /\ versions' = Append([v \in Numbers |->
                             IF v = expected /\ versions[v].state = "ACTIVE"
                             THEN [versions[v] EXCEPT !.state = "SUPERSEDED"] ELSE versions[v]],
                          [body |-> body, state |-> state, made |-> by])
    /\ current' = Len(versions) + 1

-----------------------------------------------------------------------------
(* Editors *)

ReadFamily(e) ==
    /\ editor[e] = 0
    /\ editor' = [editor EXCEPT ![e] = current]
    /\ UNCHANGED <<versions, current, proposal, review, activation, pins>>

Replace(e) ==
    /\ editor[e] # 0
    /\ \E b \in Bodies : Succeed(editor[e], b, "ACTIVE", "editor")
    /\ editor' = [editor EXCEPT ![e] = 0]
    /\ UNCHANGED <<proposal, review, activation, pins>>

(* mark_unavailable and quarantine_family: a successor with the body of the *)
(* version that was read, under a state that hides it.                      *)
RestrictFamily(e) ==
    /\ editor[e] # 0
    /\ \E s \in {"UNAVAILABLE", "QUARANTINED"} :
         Succeed(editor[e], versions[editor[e]].body, s, "editor")
    /\ editor' = [editor EXCEPT ![e] = 0]
    /\ UNCHANGED <<proposal, review, activation, pins>>

(* A VERSION_CONFLICT, or the death of the call: nothing is written. *)
EditorEnds(e) ==
    /\ editor[e] # 0
    /\ editor' = [editor EXCEPT ![e] = 0]
    /\ UNCHANGED <<versions, current, proposal, review, activation, pins>>

(* archive_version takes any version, current or not, in any state. *)
Archive(v) ==
    /\ versions[v].state # "ARCHIVED"
    /\ versions' = [versions EXCEPT ![v].state = "ARCHIVED"]
    /\ UNCHANGED <<current, editor, proposal, review, activation, pins>>

-----------------------------------------------------------------------------
(* Candidates *)

CreateCandidate(c) ==
    /\ proposal[c].status = "NONE"
    /\ \E v \in Numbers, b \in Bodies :
         proposal' = [proposal EXCEPT ![c] = [status |-> "PENDING", source |-> v, body |-> b]]
    /\ UNCHANGED <<versions, current, editor, review, activation, pins>>

(* review_candidate finds the candidate PENDING with a SELECT that locks    *)
(* nothing, and then sets its status whatever it has become.                *)
ReadCandidate(r, c) ==
    /\ review[r] = NoReview /\ proposal[c].status = "PENDING"
    /\ \E d \in {"APPROVED", "REJECTED"} : review' = [review EXCEPT ![r] = [of |-> c, decision |-> d]]
    /\ UNCHANGED <<versions, current, editor, proposal, activation, pins>>

Review(r) ==
    /\ review[r] # NoReview
    /\ proposal' = [proposal EXCEPT ![review[r].of].status = review[r].decision]
    /\ review' = [review EXCEPT ![r] = NoReview]
    /\ UNCHANGED <<versions, current, editor, activation, pins>>

(* activate_candidate: claim it, make the successor, say so; when making it *)
(* raises, or saying so, hand the candidate back.  A REJECTED written       *)
(* meanwhile stays, and so does the successor.                              *)
Claims(c) == activation[c]["claimed"] + activation[c]["made"] + activation[c]["failed"]
Moves(c, from, to) == activation' = [activation EXCEPT ![c][from] = @ - 1, ![c][to] = @ + 1]
Leaves(c, from) == activation' = [activation EXCEPT ![c][from] = @ - 1]

ClaimCandidate(c) ==
    /\ proposal[c].status = "APPROVED" /\ Claims(c) < 2
    /\ proposal' = [proposal EXCEPT ![c].status = "ACTIVATING"]
    /\ activation' = [activation EXCEPT ![c]["claimed"] = @ + 1]
    /\ UNCHANGED <<versions, current, editor, review, pins>>

MakeSuccessor(c) ==
    /\ activation[c]["claimed"] > 0
    /\ Succeed(proposal[c].source, proposal[c].body, "ACTIVE", c)
    /\ Moves(c, "claimed", "made")
    /\ UNCHANGED <<editor, proposal, review, pins>>

SuccessorFails(c) ==
    /\ activation[c]["claimed"] > 0
    /\ Moves(c, "claimed", "failed")
    /\ UNCHANGED <<versions, current, editor, proposal, review, pins>>

RecordActivated(c) ==
    /\ activation[c]["made"] > 0
    /\ proposal' = [proposal EXCEPT ![c].status = "ACTIVATED"]
    /\ Leaves(c, "made")
    /\ UNCHANGED <<versions, current, editor, review, pins>>

RecordFails(c) ==
    /\ activation[c]["made"] > 0
    /\ Moves(c, "made", "failed")
    /\ UNCHANGED <<versions, current, editor, proposal, review, pins>>

HandBack(c) ==
    /\ activation[c]["failed"] > 0
    /\ proposal' = [proposal EXCEPT ![c].status = IF @ = "ACTIVATING" THEN "APPROVED" ELSE @]
    /\ Leaves(c, "failed")
    /\ UNCHANGED <<versions, current, editor, review, pins>>

ActivationDies(c) ==
    /\ \E from \in {"claimed", "made", "failed"} : activation[c][from] > 0 /\ Leaves(c, from)
    /\ UNCHANGED <<versions, current, editor, proposal, review, pins>>

-----------------------------------------------------------------------------
(* Snapshots *)

(* current_memories: the current version, if it is in ordinary use. *)
Selectable == versions[current].state = "ACTIVE"

CreateSnapshot ==
    /\ Selectable /\ Len(pins) < MaxPins
    /\ pins' = Append(pins, [version |-> current, state |-> "ACTIVE"])
    /\ UNCHANGED <<versions, current, editor, proposal, review, activation>>

RefreshSnapshot(k) ==
    /\ pins[k].state = "ACTIVE" /\ Selectable /\ Len(pins) < MaxPins
    /\ pins' = Append([pins EXCEPT ![k].state = "REFRESHED"],
                      [version |-> current, state |-> "ACTIVE"])
    /\ UNCHANGED <<versions, current, editor, proposal, review, activation>>

(* resolve_snapshot serves a pinned version by the state of that version.   *)
Serves(k) == versions[pins[k].version].state \notin {"QUARANTINED", "UNAVAILABLE", "ARCHIVED"}

MemoryVersionsNext ==
    \/ \E e \in Editors : ReadFamily(e) \/ Replace(e) \/ RestrictFamily(e) \/ EditorEnds(e)
    \/ \E v \in Numbers : Archive(v)
    \/ \E c \in Candidates :
         \/ CreateCandidate(c) \/ ClaimCandidate(c) \/ MakeSuccessor(c) \/ SuccessorFails(c)
         \/ RecordActivated(c) \/ RecordFails(c) \/ HandBack(c) \/ ActivationDies(c)
         \/ \E r \in Reviewers : ReadCandidate(r, c)
    \/ \E r \in Reviewers : Review(r)
    \/ CreateSnapshot
    \/ \E k \in 1..Len(pins) : RefreshSnapshot(k)

MemoryVersionsSpec == MemoryVersionsInit /\ [][MemoryVersionsNext]_memoryVars

-----------------------------------------------------------------------------
(* Properties *)

(* No edit is lost: however many editors and activations worked from the    *)
(* same version, the newest version is the current one and every version    *)
(* before it is out of ordinary use.                                        *)
OneVersionInUse ==
    /\ current = Len(versions)
    /\ \A v \in Numbers : v # current => versions[v].state # "ACTIVE"

(* A candidate becomes at most one version, although a late review can set  *)
(* an activated candidate back to APPROVED and so let it be claimed again,  *)
(* and it is never reported ACTIVATED without that version.                 *)
ActivatedOnce ==
    \A c \in Candidates :
        LET made == {v \in Numbers : versions[v].made = c} IN
            /\ \A v, w \in made : v = w
            /\ proposal[c].status = "ACTIVATED" => made # {}

(* The line of versions, under concurrent edits and activations. *)
VersionsHold == OneVersionInUse /\ ActivatedOnce

(* Resolving a snapshot fails closed for memory under suspicion, pinned or   *)
(* not: while the family is quarantined no snapshot serves what the          *)
(* quarantined version says (docs/memory-lifecycle.md:62-63).                *)
QuarantineReachesPins ==
    versions[current].state = "QUARANTINED" =>
        \A k \in 1..Len(pins) :
            Serves(k) => versions[pins[k].version].body # versions[current].body
=============================================================================
