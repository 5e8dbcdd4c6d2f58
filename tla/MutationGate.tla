---------------------------- MODULE MutationGate ----------------------------
(***************************************************************************)
(* scripts/mutation_gate.py: before a push the sources that a branch       *)
(* changes are put through a mutation tool, the Python ones with mutmut,   *)
(* the TypeScript one with Stryker, in a disposable clone of the commit.   *)
(* The tools rewrite sources while they run, may die, may leave a source   *)
(* rewritten, and may leave the results of an earlier run in place.  The   *)
(* developer goes on committing and editing meanwhile.                     *)
(*                                                                         *)
(* The gates of one language are also called directly, in the checkout     *)
(* (entry "python" or "typescript").  A score is counted in mutants:       *)
(* killed, survived, timed out, and open for those that were not decided.  *)
(* "py" stands for the critical Python files, "ts" for verifier.ts.        *)
(***************************************************************************)
EXTENDS Naturals, Sequences

CONSTANTS
  Content,      \* the source of each language in each commit, 1 .. the last
  ProvenFor,    \* the TypeScript source the timeout proofs are for
  Scores        \* what a run may count: [killed, survived, timeout, open]

Languages == {"py", "ts"}
Commits   == 1 .. Len(Content)

ASSUME ContentAssumption ==
  /\ Len(Content) \in Nat \ {0}
  /\ \A c \in Commits : DOMAIN Content[c] = Languages
  /\ Scores \subseteq [{"killed", "survived", "timeout", "open"} -> Nat]

VARIABLES
  head,          \* the commit of the checkout
  base,          \* the commit origin/main names
  dirty,         \* languages with uncommitted edits in the checkout
  mutmut,        \* where mutmut is: on the path, in the checkout's .venv, nowhere
  entry,         \* what was called
  pc,            \* the next step of the gate
  targets,       \* the languages to test
  against,       \* the commit rev-parse resolved the base to
  clone,         \* the commit that was cloned, 0 for no clone
  cwd,           \* the directory the tools run in
  instrumented,  \* languages whose source is rewritten, per directory
  results,       \* .mutmut-cache and mutation.json of that directory
  code,          \* what the tool returned
  counted,       \* the results each language passed with
  exit

developer == << head, base, dirty, mutmut >>
vars == << developer, entry, pc, targets, against, clone, cwd, instrumented,
           results, code, counted, exit >>

-----------------------------------------------------------------------------
(* Sources and scores.  Results are sets of at most one record. *)

Changed(from, to) == {l \in Languages : Content[from][l] # Content[to][l]}

\* The source a directory holds; uncommitted edits make it different from all.
SourceIn(dir, l) ==
  IF dir = "clone" THEN Content[clone][l] ELSE IF l \in dirty THEN "edited" ELSE Content[head][l]

Total(s) == s.killed + s.survived + s.timeout + s.open

\* The results of an earlier run of the first commit.
Stale(l) == [score |-> [killed |-> 1, survived |-> 0, timeout |-> 0, open |-> 0],
             source |-> Content[1][l], fresh |-> FALSE]

\* The end of python_gate: a complete run without timeouts, at least 80% killed.
PythonScorePasses(s) ==
  /\ Total(s) > 0 /\ s.timeout + s.open = 0
  /\ s.killed * 100 >= Total(s) * 80

\* classifyReport: timeouts count when the proofs are for this very source.
ReportPasses(r, source) ==
  /\ r.source = source
  /\ Total(r.score) > 0 /\ r.score.open = 0
  /\ r.score.timeout = 0 \/ source = ProvenFor
  /\ (r.score.killed + r.score.timeout) * 100 >= Total(r.score) * 80

-----------------------------------------------------------------------------
Init ==
  /\ head = 1 /\ base = 1 /\ dirty = {}
  /\ mutmut \in {"path", ".venv", "nowhere"}
  /\ entry \in {"main", "python", "typescript"}
  /\ pc = (IF entry = "main" THEN "diff" ELSE entry)
  /\ targets = CASE entry = "main" -> {} [] entry = "python" -> {"py"} [] entry = "typescript" -> {"ts"}
  /\ against = 0 /\ clone = 0
  /\ cwd = "checkout"
  /\ instrumented = [d \in {"checkout", "clone"} |-> {}]
  /\ results \in {r \in [Languages -> {{}} \cup {{Stale(l)} : l \in Languages}] :
                    \A l \in Languages : r[l] \subseteq {Stale(l)}}
  /\ code = 0
  /\ counted = [l \in Languages |-> {}]
  /\ exit = "running"

\* return: the clone is removed and the directory restored on every way out.
Return(status) ==
  /\ exit' = status /\ pc' = "over"
  /\ cwd' = "checkout" /\ clone' = 0
  /\ instrumented' = [instrumented EXCEPT !["clone"] = {}]
  /\ UNCHANGED << developer, entry, targets, against, results, code >>

Fail == Return("failed") /\ UNCHANGED counted

\* critical_targets.
Diff ==
  /\ pc = "diff"
  /\ IF Changed(base, head) = {} THEN Return("passed") /\ UNCHANGED counted
     ELSE /\ targets' = Changed(base, head) /\ pc' = "status"
          /\ UNCHANGED << developer, entry, against, clone, cwd, instrumented, results, code, counted, exit >>

\* refuse_dirty.
RefuseDirty ==
  /\ pc = "status"
  /\ IF dirty \cap targets # {} THEN Fail
     ELSE /\ pc' = "resolve"
          /\ UNCHANGED << developer, entry, targets, against, clone, cwd, instrumented, results, code, counted, exit >>

Resolve ==
  /\ pc = "resolve"
  /\ against' = base /\ pc' = "clone"
  /\ UNCHANGED << developer, entry, targets, clone, cwd, instrumented, results, code, counted, exit >>

\* Mutant: the tools are run in the checkout.
CloneInPlace ==
  /\ pc = "clone"
  /\ clone' = head /\ UNCHANGED << cwd, results >>
  /\ pc' = IF "py" \in targets THEN "python" ELSE "typescript"
  /\ UNCHANGED << developer, entry, targets, against, instrumented, code, counted, exit >>

\* The clone has what is committed at this moment and nothing that is ignored.
Clone ==
  /\ pc = "clone"
  /\ \/ /\ clone' = head /\ cwd' = "clone"
        /\ results' = [l \in Languages |-> {}]
        /\ pc' = IF "py" \in targets THEN "python" ELSE "typescript"
        /\ UNCHANGED << developer, entry, targets, against, instrumented, code, counted, exit >>
     \/ Fail

\* find_mutmut; relative names are looked up where the tools run.
Found == mutmut = "path" \/ (mutmut = ".venv" /\ cwd = "checkout")

\* Mutant: the results of an earlier run are kept.
PythonKeepsCache ==
  /\ pc = "python"
  /\ IF ~Found THEN Fail
     ELSE /\ instrumented' = [instrumented EXCEPT ![cwd] = @ \cup {"py"}]
          /\ pc' = "mutmut"
          /\ UNCHANGED << developer, entry, targets, against, clone, cwd, results, code, counted, exit >>

\* python_gate up to the start of mutmut.
Python ==
  /\ pc = "python"
  /\ IF ~Found THEN Fail
     ELSE /\ results' = [results EXCEPT !["py"] = {}]
          /\ instrumented' = [instrumented EXCEPT ![cwd] = @ \cup {"py"}]
          /\ pc' = "mutmut"
          /\ UNCHANGED << developer, entry, targets, against, clone, cwd, code, counted, exit >>

\* mutmut ends: with a code it uses after a run or with another, having written
\* results or not; when it dies the source may stay rewritten.
Mutmut ==
  /\ pc = "mutmut"
  /\ \E status \in {0, 2, 8, 10, 1, 4}, restored \in BOOLEAN :
       /\ code' = status
       /\ instrumented' = [instrumented EXCEPT ![cwd] = IF restored THEN @ \ {"py"} ELSE @]
       /\ \/ \E s \in Scores : results' =
               [results EXCEPT !["py"] = {[score |-> s, source |-> SourceIn(cwd, "py"), fresh |-> TRUE]}]
          \/ UNCHANGED results
       /\ pc' = "count"
       /\ UNCHANGED << developer, entry, targets, against, clone, cwd, counted, exit >>

\* The statuses mutmut lists; without a cache there are none, and result-ids
\* may fail.
Count ==
  /\ pc = "count"
  /\ \/ Fail
     \/ /\ code \in {0, 2, 8, 10}
        /\ \E r \in results["py"] : PythonScorePasses(r.score)
        /\ counted' = [counted EXCEPT !["py"] = results["py"]]
        /\ IF "ts" \in targets
           THEN /\ pc' = "typescript"
                /\ UNCHANGED << developer, entry, targets, against, clone, cwd, instrumented, results, code, exit >>
           ELSE Return("passed")

\* typescript_gate up to the start of Stryker: the ordinary tests, which refuse
\* an instrumented source, and the fixtures pass; an old report is removed.
TypeScript ==
  /\ pc = "typescript"
  /\ \/ Fail
     \/ /\ "ts" \notin instrumented[cwd]
        /\ results' = [results EXCEPT !["ts"] = {}]
        /\ instrumented' = [instrumented EXCEPT ![cwd] = @ \cup {"ts"}]
        /\ pc' = "stryker"
        /\ UNCHANGED << developer, entry, targets, against, clone, cwd, code, counted, exit >>

Stryker ==
  /\ pc = "stryker"
  /\ \E status \in {0, 1, 7}, restored \in BOOLEAN :
       /\ code' = status
       /\ instrumented' = [instrumented EXCEPT ![cwd] = IF restored THEN @ \ {"ts"} ELSE @]
       /\ \/ \E s \in Scores : results' =
               [results EXCEPT !["ts"] = {[score |-> s, source |-> SourceIn(cwd, "ts"), fresh |-> TRUE]}]
          \/ UNCHANGED results
       /\ pc' = "classify"
       /\ UNCHANGED << developer, entry, targets, against, clone, cwd, counted, exit >>

\* The report gate reads the source it finds, instrumented or not.
Accepted ==
  /\ code = 0
  /\ \E r \in results["ts"] :
       ReportPasses(r, IF "ts" \in instrumented[cwd] THEN "rewritten" ELSE SourceIn(cwd, "ts"))

\* Mutant: a report that is missing is waited for.
ClassifyWaits ==
  /\ pc = "classify" /\ results["ts"] # {}
  /\ IF Accepted THEN Return("passed") /\ counted' = [counted EXCEPT !["ts"] = results["ts"]]
     ELSE Fail

\* The verdict of the report gate comes before the tool's own, and neither
\* overrides a failure of the other.
Classify ==
  /\ pc = "classify"
  /\ IF Accepted THEN Return("passed") /\ counted' = [counted EXCEPT !["ts"] = results["ts"]]
     ELSE Fail

\* An interrupt unwinds; a kill leaves the clone behind.
Interrupt ==
  /\ exit = "running"
  /\ \/ Return("interrupted") /\ UNCHANGED counted
     \/ /\ exit' = "killed" /\ pc' = "over"
        /\ UNCHANGED << developer, entry, targets, against, clone, cwd, instrumented, results, code, counted >>

Gate ==
  \/ Diff \/ RefuseDirty \/ Resolve \/ Clone
  \/ Python \/ Mutmut \/ Count
  \/ TypeScript \/ Stryker \/ Classify

-----------------------------------------------------------------------------
(* The developer, who leaves a checkout alone in which the tools run. *)

Commit == head + 1 \in Commits /\ head' = head + 1 /\ dirty' = {} /\ UNCHANGED << base, mutmut >>
Edit(l) == dirty' = dirty \cup {l} /\ UNCHANGED << head, base, mutmut >>
Fetch == base < head /\ base' = base + 1 /\ UNCHANGED << head, dirty, mutmut >>

Developer ==
  /\ entry = "main" /\ exit = "running"
  /\ Commit \/ Fetch \/ \E l \in Languages : Edit(l)
  /\ UNCHANGED << entry, pc, targets, against, clone, cwd, instrumented, results, code, counted, exit >>

Next == Gate \/ Interrupt \/ Developer

\* The gate goes on, and its tools, which bound the time of every mutant, end; the
\* developer need not do anything.
Spec == Init /\ [][Next]_vars /\ WF_vars(Gate)

-----------------------------------------------------------------------------
\* A gate that passes has, for every language it set out to test, the results of
\* this very run, decided mutant by mutant and 80% of them detected: no report of an
\* earlier run, no half-finished run and no proof for another source stand in for it.
PassIsEarned ==
  exit = "passed" =>
    \A l \in targets :
      \E r \in counted[l] :
        /\ r.fresh
        /\ r.score.open = 0 /\ Total(r.score) > 0
        /\ r.score.timeout # 0 => l = "ts" /\ r.source = ProvenFor
        /\ 5 * (r.score.killed + r.score.timeout) >= 4 * Total(r.score)

\* Whatever dies or is interrupted at whatever moment, a gate called through main
\* leaves no rewritten source in the developer's checkout.
CheckoutIsNeverInstrumented == entry = "main" => instrumented["checkout"] = {}

\* A gate ends, and every way out but a kill restores the directory and removes
\* the clone.
EndsCleanly == <>(exit # "running" /\ (exit # "killed" => cwd = "checkout" /\ clone = 0))
=============================================================================
