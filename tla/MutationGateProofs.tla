------------------------- MODULE MutationGateProofs -------------------------
(***************************************************************************)
(* What the mutation gate promises, for every history of commits and every *)
(* set of scores the tools may report.                                     *)
(***************************************************************************)
EXTENDS MutationGate, TLAPS

\* The steps at which a tool runs or has just run.
ToolSteps == {"python", "mutmut", "count", "typescript", "stryker", "classify"}

\* main runs the tools in the clone only.
CheckoutInv ==
  /\ instrumented = [d \in {"checkout", "clone"} |-> instrumented[d]]
  /\ entry = "main" =>
       /\ instrumented["checkout"] = {}
       /\ pc \in ToolSteps => cwd = "clone"

LEMMA CheckoutInit == Init => CheckoutInv
BY DEF Init, CheckoutInv, ToolSteps

\* Every way out leaves the checkout as it is.
LEMMA ReturnLeavesCheckout ==
  ASSUME CheckoutInv, NEW status, Return(status)
  PROVE  CheckoutInv'
<1>1. instrumented' = [d \in {"checkout", "clone"} |-> instrumented'[d]]
      /\ instrumented'["checkout"] = instrumented["checkout"]
  BY DEF CheckoutInv, Return
<1>2. pc' \notin ToolSteps
  BY DEF Return, ToolSteps
<1> QED BY <1>1, <1>2 DEF CheckoutInv, Return

LEMMA CheckoutStep ==
  ASSUME CheckoutInv, [Next]_vars
  PROVE  CheckoutInv'
<1>1. CASE Diff \/ RefuseDirty \/ Resolve \/ Clone
  BY <1>1, ReturnLeavesCheckout DEF CheckoutInv, Diff, RefuseDirty, Resolve, Clone, Fail, ToolSteps
<1>2. CASE Python
  <2>1. CASE Fail
    BY <2>1, ReturnLeavesCheckout DEF Fail
  <2>2. CASE ~Fail
    <3>1. pc \in ToolSteps /\ pc' \in ToolSteps /\ entry' = entry /\ cwd' = cwd
          /\ instrumented' = [instrumented EXCEPT ![cwd] = @ \cup {"py"}]
      BY <1>2, <2>2 DEF Python, ToolSteps
    <3> QED BY <3>1 DEF CheckoutInv
  <2> QED BY <2>1, <2>2
<1>3. CASE Mutmut
  <2>1. PICK restored \in BOOLEAN :
          instrumented' = [instrumented EXCEPT ![cwd] = IF restored THEN @ \ {"py"} ELSE @]
    BY <1>3 DEF Mutmut
  <2>2. pc \in ToolSteps /\ entry' = entry /\ cwd' = cwd
    BY <1>3 DEF Mutmut, ToolSteps
  <2> QED BY <2>1, <2>2 DEF CheckoutInv
<1>4. CASE Count
  BY <1>4, ReturnLeavesCheckout DEF CheckoutInv, Count, Fail, ToolSteps
<1>5. CASE TypeScript
  <2>1. CASE Fail
    BY <2>1, ReturnLeavesCheckout DEF Fail
  <2>2. CASE ~Fail
    <3>1. pc \in ToolSteps /\ pc' \in ToolSteps /\ entry' = entry /\ cwd' = cwd
          /\ instrumented' = [instrumented EXCEPT ![cwd] = @ \cup {"ts"}]
      BY <1>5, <2>2 DEF TypeScript, ToolSteps
    <3> QED BY <3>1 DEF CheckoutInv
  <2> QED BY <2>1, <2>2
<1>6. CASE Stryker
  <2>1. PICK restored \in BOOLEAN :
          instrumented' = [instrumented EXCEPT ![cwd] = IF restored THEN @ \ {"ts"} ELSE @]
    BY <1>6 DEF Stryker
  <2>2. pc \in ToolSteps /\ entry' = entry /\ cwd' = cwd
    BY <1>6 DEF Stryker, ToolSteps
  <2> QED BY <2>1, <2>2 DEF CheckoutInv
<1>7. CASE Classify
  BY <1>7, ReturnLeavesCheckout DEF Classify, Fail
<1>8. CASE Interrupt
  BY <1>8, ReturnLeavesCheckout DEF CheckoutInv, Interrupt, ToolSteps
<1>9. CASE Developer
  BY <1>9 DEF CheckoutInv, Developer
<1>10. CASE UNCHANGED vars
  BY <1>10 DEF CheckoutInv, vars
<1> QED BY <1>1, <1>2, <1>3, <1>4, <1>5, <1>6, <1>7, <1>8, <1>9, <1>10 DEF Next, Gate

\* Whatever dies or is interrupted, main leaves no rewritten source in the checkout
\* of the developer (main of mutation_gate.py, "Test the committed release in a
\* disposable clone").
THEOREM CheckoutIsLeftAlone == Spec => []CheckoutIsNeverInstrumented
<1>1. CheckoutInv => CheckoutIsNeverInstrumented
  BY DEF CheckoutInv, CheckoutIsNeverInstrumented
<1> QED BY <1>1, CheckoutInit, CheckoutStep, PTL DEF Spec

-----------------------------------------------------------------------------
\* What PassIsEarned says of one language.
Earned(l) ==
  \E r \in counted[l] :
    /\ r.fresh
    /\ r.score.open = 0 /\ Total(r.score) > 0
    /\ r.score.timeout # 0 => l = "ts" /\ r.source = ProvenFor
    /\ 5 * (r.score.killed + r.score.timeout) >= 4 * Total(r.score)

\* The results of a language are of the run the gate is in.
OfThisRun(l) == \A r \in results[l] : r.fresh /\ r.score \in Scores

\* A tool's old results are gone from its start on; a language that has passed is
\* earned before the next one starts; and no pass leaves a target out.
PassInv ==
  /\ results = [l \in Languages |-> results[l]]
  /\ counted = [l \in Languages |-> counted[l]]
  /\ targets \subseteq Languages
  /\ pc \in {"python", "mutmut", "count"} => "py" \in targets
  /\ pc \in {"typescript", "stryker", "classify"} =>
       /\ "ts" \in targets
       /\ "py" \in targets => Earned("py")
  /\ pc = "clone" => targets # {}
  /\ pc = "status" \/ pc = "resolve" => targets # {}
  /\ pc = "diff" => targets = {}
  /\ pc \in {"mutmut", "count"} => OfThisRun("py")
  /\ pc \in {"stryker", "classify"} => OfThisRun("ts")
  /\ exit = "passed" => pc = "over" /\ \A l \in targets : Earned(l)
  /\ pc # "over" => exit = "running"

\* What a score is.
LEMMA ScoresAreCounts ==
  ASSUME NEW s \in Scores
  PROVE  s.killed \in Nat /\ s.survived \in Nat /\ s.timeout \in Nat /\ s.open \in Nat
BY ContentAssumption

\* 80 in 100 is 4 in 5 and leaves no mutant undecided.
LEMMA PythonPassIsEarned ==
  ASSUME NEW r, r.fresh, r.score \in Scores, PythonScorePasses(r.score)
  PROVE  /\ r.score.open = 0 /\ Total(r.score) > 0 /\ r.score.timeout = 0
         /\ 5 * (r.score.killed + r.score.timeout) >= 4 * Total(r.score)
BY ScoresAreCounts DEF PythonScorePasses, Total

LEMMA ReportPassIsEarned ==
  ASSUME NEW r, NEW source, r.fresh, r.score \in Scores, ReportPasses(r, source)
  PROVE  /\ r.score.open = 0 /\ Total(r.score) > 0
         /\ r.score.timeout # 0 => r.source = ProvenFor
         /\ 5 * (r.score.killed + r.score.timeout) >= 4 * Total(r.score)
BY ScoresAreCounts DEF ReportPasses, Total

LEMMA PassInit == Init => PassInv
BY DEF Init, PassInv, Languages

\* Leaving without a pass needs nothing.
LEMMA LeavingIsNoPass ==
  ASSUME PassInv, NEW status, status # "passed", Return(status), UNCHANGED counted
  PROVE  PassInv'
BY DEF PassInv, Return

LEMMA PassStep ==
  ASSUME PassInv, [Next]_vars
  PROVE  PassInv'
<1>f. CASE Fail
  BY <1>f, LeavingIsNoPass DEF Fail
<1>1. CASE Diff /\ ~Fail
  <2>1. CASE Changed(base, head) = {}
    BY <1>1, <2>1 DEF PassInv, Diff, Return
  <2>2. CASE Changed(base, head) # {}
    BY <1>1, <2>2 DEF PassInv, Diff, Changed
  <2> QED BY <2>1, <2>2
<1>2. CASE (RefuseDirty \/ Resolve) /\ ~Fail
  BY <1>2 DEF PassInv, RefuseDirty, Resolve
<1>3. CASE Clone /\ ~Fail
  <2>1. /\ results' = [l \in Languages |-> {}]
        /\ pc' = IF "py" \in targets THEN "python" ELSE "typescript"
        /\ pc = "clone"
        /\ UNCHANGED << targets, counted, exit >>
    BY <1>3 DEF Clone
  <2>2. targets # {} /\ targets \subseteq Languages
    BY <2>1 DEF PassInv
  <2>3. "py" \in targets \/ "ts" \in targets
    BY <2>2 DEF Languages
  <2> QED BY <2>1, <2>2, <2>3 DEF PassInv, Languages
<1>4. CASE Python /\ ~Fail
  <2>1. /\ results' = [results EXCEPT !["py"] = {}]
        /\ pc = "python" /\ pc' = "mutmut"
        /\ UNCHANGED << targets, counted, exit >>
    BY <1>4 DEF Python
  <2> QED BY <2>1 DEF PassInv, Languages, OfThisRun
<1>5. CASE Mutmut
  <2>1. /\ pc = "mutmut" /\ pc' = "count"
        /\ UNCHANGED << targets, counted, exit >>
        /\ \/ \E s \in Scores : results' =
                [results EXCEPT !["py"] = {[score |-> s, source |-> SourceIn(cwd, "py"), fresh |-> TRUE]}]
           \/ results' = results
    BY <1>5 DEF Mutmut
  <2>2. OfThisRun("py") /\ results = [l \in Languages |-> results[l]]
    BY <2>1 DEF PassInv
  <2>3. OfThisRun("py")' /\ results' = [l \in Languages |-> results'[l]]
    BY <2>1, <2>2 DEF OfThisRun, Languages
  <2> QED BY <2>1, <2>3 DEF PassInv
<1>6. CASE Count /\ ~Fail
  <2>1. PICK r \in results["py"] : PythonScorePasses(r.score)
    BY <1>6 DEF Count
  <2>2. counted' = [counted EXCEPT !["py"] = results["py"]]
    BY <1>6 DEF Count
  <2>3. pc = "count" /\ OfThisRun("py") /\ targets \subseteq Languages
    BY <1>6 DEF Count, PassInv
  <2>4. Earned("py")'
    <3>1. r \in counted'["py"]
      BY <2>1, <2>2 DEF PassInv, Languages
    <3>2. r.fresh /\ r.score \in Scores
      BY <2>1, <2>3 DEF OfThisRun
    <3> QED BY <3>1, <3>2, <2>1, PythonPassIsEarned DEF Earned
  <2>5. CASE "ts" \in targets
    <3>1. pc' = "typescript" /\ UNCHANGED << targets, results, exit >>
      BY <1>6, <2>5 DEF Count
    <3> QED BY <3>1, <2>2, <2>3, <2>4, <2>5 DEF PassInv
  <2>6. CASE "ts" \notin targets
    <3>1. pc' = "over" /\ UNCHANGED << targets, results >>
      BY <1>6, <2>6 DEF Count, Return
    <3>2. \A l \in targets' : l = "py"
      BY <3>1, <2>3, <2>6 DEF Languages
    <3> QED BY <3>1, <3>2, <2>2, <2>4 DEF PassInv
  <2> QED BY <2>5, <2>6
<1>7. CASE TypeScript /\ ~Fail
  <2>1. /\ results' = [results EXCEPT !["ts"] = {}]
        /\ pc = "typescript" /\ pc' = "stryker"
        /\ UNCHANGED << targets, counted, exit >>
    BY <1>7 DEF TypeScript
  <2> QED BY <2>1 DEF PassInv, Languages, OfThisRun, Earned
<1>8. CASE Stryker
  <2>1. /\ pc = "stryker" /\ pc' = "classify"
        /\ UNCHANGED << targets, counted, exit >>
        /\ \/ \E s \in Scores : results' =
                [results EXCEPT !["ts"] = {[score |-> s, source |-> SourceIn(cwd, "ts"), fresh |-> TRUE]}]
           \/ results' = results
    BY <1>8 DEF Stryker
  <2>2. OfThisRun("ts") /\ results = [l \in Languages |-> results[l]]
    BY <2>1 DEF PassInv
  <2>3. OfThisRun("ts")' /\ results' = [l \in Languages |-> results'[l]]
    BY <2>1, <2>2 DEF OfThisRun, Languages
  <2> QED BY <2>1, <2>3 DEF PassInv, Earned
<1>9. CASE Classify /\ ~Fail
  <2>1. /\ Accepted /\ Return("passed") /\ pc = "classify"
        /\ counted' = [counted EXCEPT !["ts"] = results["ts"]]
    BY <1>9 DEF Classify
  <2>2. PICK r \in results["ts"] :
          ReportPasses(r, IF "ts" \in instrumented[cwd] THEN "rewritten" ELSE SourceIn(cwd, "ts"))
    BY <2>1 DEF Accepted
  <2>3. r.fresh /\ r.score \in Scores
    BY <2>1, <2>2 DEF PassInv, OfThisRun
  <2>4. Earned("ts")'
    <3>1. r \in counted'["ts"]
      BY <2>1, <2>2 DEF PassInv, Languages
    <3> QED BY <3>1, <2>2, <2>3, ReportPassIsEarned DEF Earned
  <2>5. "py" \in targets => Earned("py")'
    BY <2>1 DEF PassInv, Earned, Languages
  <2> QED BY <2>1, <2>4, <2>5 DEF PassInv, Return, Languages
<1>10. CASE Interrupt
  BY <1>10, LeavingIsNoPass DEF Interrupt, PassInv
<1>11. CASE Developer \/ UNCHANGED vars
  BY <1>11 DEF PassInv, Earned, OfThisRun, Developer, vars
<1> QED BY <1>f, <1>1, <1>2, <1>3, <1>4, <1>5, <1>6, <1>7, <1>8, <1>9, <1>10, <1>11 DEF Next, Gate

\* A gate that passes has fresh and complete results for each language it set out to
\* test, 80% of the mutants detected (python_gate, typescript_gate, classifyReport).
THEOREM PassesAreEarned == Spec => []PassIsEarned
<1>1. PassInv => PassIsEarned
  BY DEF PassInv, PassIsEarned, Earned
<1> QED BY <1>1, PassInit, PassStep, PTL DEF Spec
=============================================================================
