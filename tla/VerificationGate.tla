-------------------------- MODULE VerificationGate --------------------------
(***************************************************************************)
(* The gate between a measured result and COMPLETED: agents/verifier.py    *)
(* and the static checks of engine/verification.  A script is described by *)
(* the facts its syntax tree shows: what it imports and calls, what its    *)
(* fit calls are given, whether anything splits the data, and whether the  *)
(* feature matrix is a copy of a frame the target was taken from.          *)
(***************************************************************************)
EXTENDS Metrics

Disallowed == {"os", "sys", "subprocess", "socket", "shutil", "requests"}

(* The runner may import these, and still start no process with them.      *)
RunnerModules == {"os", "sys"}

(* ASTSecurityChecker.check_security: a module is named by its root.       *)
AstErrors(script, allowed) ==
  IF ~script.parses THEN {"SyntaxError"}
  ELSE (script.imports \cap (Disallowed \ allowed))
         \cup (script.calls \cap {"eval", "exec", "__import__"})
         \cup {m \in allowed : <<m, "spawn">> \in script.spawns}

(* LeakageDetector.detect_leakage.                                         *)
LeakageErrors(script) ==
  IF ~script.parses THEN {"SyntaxError"}
  ELSE {e \in {"no split"} : script.fits # {} /\ ~script.splits}
         \cup {e \in {"held out"} : "test" \in script.fits}
         \cup {e \in {"full"} : script.splits /\ "full" \in script.fits}
         \cup {e \in {"target kept"} : script.copiesTarget}

(* The script every run executes, as the repository has it.                *)
Runner ==
  [parses |-> TRUE, imports |-> {"os", "sys"}, calls |-> {}, spawns |-> {},
   fits |-> {"train"}, splits |-> TRUE, copiesTarget |-> FALSE]

(* The static checks that ran and failed.  Without metrics the sanity      *)
(* check is skipped, and a skipped check fails nothing.                    *)
StaticFailures(script, metric, score) ==
  {c \in {"ast_security"} : AstErrors(script, RunnerModules) # {}}
    \cup {c \in {"data_leakage"} : LeakageErrors(script) # {}}
    \cup {c \in {"metric_sanity"} : \E s \in score : Insane(metric, s)}

(* What the verifier objects to.  A result measures something only when it *)
(* selected a model.                                                       *)
Failures(result, metric, compare, script) ==
  LET measured == result.selected # {}
      value == IF measured THEN result.score ELSE {}
      baseline == IF measured THEN result.baseline ELSE {}
      scores == UNION {result.comparison[i].score : i \in DOMAIN result.comparison}
      InRange(s) == 0 <= s /\ s <= One
      If(b, name) == IF b THEN {name} ELSE {}
  IN If(value = {}, "not measured")
     \cup If(\E s \in value : ~InRange(s), "out of range")
     \cup If(\E s \in value : InRange(s) /\ \E b \in baseline : ~Dominates(metric, s, b),
             "baseline")
     \cup If(compare /\ result.evaluated < 2, "compared too few")
     \cup If(/\ measured /\ scores # {}
             /\ \E s \in value : IF HigherIsBetter(metric)
                                 THEN s < Max(scores) ELSE s > Max(scores),
             "not the best")
     \cup StaticFailures(script, metric, value)

(* The verdict: abstained when nothing was measured, passed when nothing   *)
(* is objected to.                                                         *)
Verdict(result, metric, compare, script) ==
  LET failures == Failures(result, metric, compare, script)
  IN [abstained |-> "not measured" \in failures, passed |-> failures = {}]

=============================================================================
