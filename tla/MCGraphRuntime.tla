--------------------------- MODULE MCGraphRuntime ---------------------------
(***************************************************************************)
(* Small plans and bounds for GraphRuntime.                                *)
(***************************************************************************)
EXTENDS GraphRuntime, TLC

(* Workers are interchangeable, and so are operator sessions. *)
Symmetry == Permutations(Workers) \cup Permutations(Operators)

Step(routes, exit) ==
    [routes |-> routes, exit |-> exit, wait |-> FALSE, timeout |-> FALSE,
     cyclic |-> FALSE, join |-> NoJoin, effect |-> "NONE", maxAttempts |-> 2]

(* One node, entry and exit. *)
SoloNodes == {"a"}
SoloPlan == [n \in SoloNodes |-> Step({{}}, TRUE)]

(* Two nodes in sequence. *)
ChainNodes == {"a", "b"}
ChainPlan == [n \in ChainNodes |->
    IF n = "a" THEN Step({{"b"}}, FALSE) ELSE Step({{}}, TRUE)]

(* A fan-out to two exits. *)
ForkNodes == {"a", "b", "c"}
ForkPlan == [n \in ForkNodes |->
    IF n = "a" THEN Step({{"b", "c"}}, FALSE) ELSE Step({{}}, TRUE)]

(* One node whose effect must not be repeated. *)
UnsafePlan == [n \in SoloNodes |-> [Step({{}}, TRUE) EXCEPT !.effect = "NON_IDEMPOTENT"]]

(* Three branches, two of them waits, one with a deadline, and a quorum. *)
QuorumNodes == {"a", "b", "c", "h", "j"}
QuorumPlan == [n \in QuorumNodes |->
    CASE n = "a" -> Step({{"b", "c", "h"}}, FALSE)
      [] n \in {"b", "h"} -> [Step({{"j"}}, FALSE) EXCEPT !.wait = TRUE, !.timeout = n = "h"]
      [] n = "j" -> [Step({{}}, TRUE) EXCEPT
             !.join = [strategy |-> "QUORUM", expected |-> 3, required |-> 1]]
      [] OTHER   -> Step({{"j"}}, FALSE)]

(* A bounded cycle: b routes back to a or on to the exit z. *)
LoopNodes == {"a", "b", "z"}
LoopPlan == [n \in LoopNodes |->
    CASE n = "a" -> [Step({{"b"}}, FALSE) EXCEPT !.cyclic = TRUE]
      [] n = "b" -> [Step({{"a"}, {"z"}, {}}, FALSE) EXCEPT !.cyclic = TRUE]
      [] OTHER   -> Step({{}}, TRUE)]

CONSTANT Good
LiveSpec == Init /\ [][Next /\ LastFenceIsGood(Good)]_vars /\ FairTo(Good)
=============================================================================
