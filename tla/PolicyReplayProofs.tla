------------------------- MODULE PolicyReplayProofs -------------------------
(***************************************************************************)
(* Proofs about the replay command, for all receipts, keys and archives,   *)
(* and whatever happens to the files while it runs.                        *)
(***************************************************************************)
EXTENDS PolicyReplay, ReceiptRulesProofs

Subprocesses == {"version", "build", "eval"}
AfterBinary  == {"copy"} \union Subprocesses
AfterArchive == {"opa"} \union AfterBinary
AfterModule  == {"runtime"} \union AfterArchive
Replaying    == {"rego"} \union AfterModule

(***************************************************************************)
(* The inductive invariant.  What has been compared so far is bound to the *)
(* receipt, and stays bound because it is kept: no part of it mentions the *)
(* files.                                                                  *)
(***************************************************************************)
InstantsAreNumbers ==
  \A r \in disk["receipt"] \union receipt : r.payload.issued_at \in Int

EvidenceIsRead ==
  /\ pc \notin {"keys", "ended"} => keys_doc # {}
  /\ pc \notin {"keys", "receipt", "ended"} => receipt # {} /\ DocumentIsValid(The(keys_doc))

EvidenceIsAuthentic ==
  /\ pc \in {"artifacts"} \union Replaying => EvidenceIsGood(now)
  /\ pc \in {"keys", "receipt", "authenticate"} => opened = {}

DocumentsAreBound ==
  pc \in Replaying =>
    /\ Payload.policy_eval # Absent
    /\ Kept("manifest") = Payload.engine_version /\ Supported(Payload.engine_version)
    /\ Kept("input") = Payload.policy_input
    /\ EditionIsSound(Payload)
    /\ Payload.policy_input.shape_ok /\ Payload.policy_input.fits
    /\ Payload.policy_input.action = Payload.action

ModuleIsBound == pc \in AfterModule => Kept("rego") = Module

ArchiveIsBound ==
  pc \in AfterArchive =>
    LET m == Payload.engine_version
    IN /\ Kept("runtime") = m.runtime
       /\ m.runtime.bundle = m.bundle /\ m.runtime.bundle_key = m.bundle_key
       /\ m.runtime.defects \intersect RuntimeDefects = {}
       /\ m.bundle.module = Module /\ m.bundle.content_ok

BinaryIsBound ==
  pc \in AfterBinary =>
    Kept("opa") = Payload.engine_version.opa /\ Payload.engine_version.platform = Host

DirectoryIsBound ==
  \A d \in directory :
    LET m == Payload.engine_version
    IN /\ d.binary = m.opa
       /\ d.bundle = m.bundle /\ d.bundle_key = m.bundle_key

SignatureIsChecked ==
  pc = "eval" => Payload.engine_version.bundle.signed_by = Payload.engine_version.bundle_key

Bound ==
  /\ DocumentsAreBound /\ ModuleIsBound /\ ArchiveIsBound /\ BinaryIsBound
  /\ DirectoryIsBound /\ SignatureIsChecked

ReplayInv ==
  /\ TypeOK
  /\ InstantsAreNumbers
  /\ EvidenceIsRead
  /\ EvidenceIsAuthentic
  /\ AuthenticatedFirst
  /\ Bound
  /\ OnlyPinnedCodeRuns
  /\ MatchIsEarned

-----------------------------------------------------------------------------
\* The files hold receipts with numbers for instants, also after a change.
LEMMA InstantsStayNumbers ==
  ASSUME InstantsAreNumbers, TypeOK, Next
  PROVE  InstantsAreNumbers'
  BY FilesAssumption
     DEF InstantsAreNumbers, TypeOK, Next, Step, Files, Change, Tick, environment, evidence,
         LoadKeys, LoadReceipt, Authenticate, OpenArtifact, StartReplay, ReadArtifact,
         ReadModule, ReadRuntime, ReadBinary, Copy, Run, RunVersion, RunBuild, RunEval

\* Evidence that is good is good at every later instant.
LEMMA EvidenceStaysGood ==
  ASSUME EvidenceIsGood(now), InstantsAreNumbers, now \in Nat, now' \in Nat, now <= now',
         UNCHANGED << call, keys_doc, receipt >>
  PROVE  EvidenceIsGood(now)'
<1>1. The(receipt).payload.issued_at \in Int
  BY DEF EvidenceIsGood, InstantsAreNumbers, The
<1>2. VerifyReceipt(The(receipt), LoadedKeys(The(keys_doc)), now, {call.workspace}, {call.trusted})
        = Accepted
  BY DEF EvidenceIsGood, AuthenticAt, Verifies
<1>3. VerifyReceipt(The(receipt), LoadedKeys(The(keys_doc)), now', {call.workspace}, {call.trusted})
        = Accepted
  BY <1>1, <1>2, AcceptedLater
<1> QED
  BY <1>3 DEF EvidenceIsGood, AuthenticAt, Verifies

\* The step of any action is of the right type.
LEMMA TypeStays ==
  ASSUME TypeOK, EvidenceIsRead, Next
  PROVE  TypeOK'
<1> USE DEF TypeOK, environment, evidence, history, End, Goto, EndOrGoto, Statuses, Running
<1>1. CASE LoadKeys
  BY <1>1 DEF LoadKeys, Require, Accepted
<1>2. CASE LoadReceipt
  BY <1>2 DEF LoadReceipt, Require, Accepted
<1>3. CASE Authenticate
  BY <1>3 DEF Authenticate, Require, Accepted
<1>4. CASE OpenArtifact
  <2>1. Len(JsonArtifacts) = 3 /\ \A i \in 1 .. 3 : JsonArtifacts[i] \in Artifacts
    BY DEF JsonArtifacts, Artifacts
  <2>2. position' \in 1 .. Len(JsonArtifacts) + 1
    BY <1>4, <2>1 DEF OpenArtifact
  <2>3. JsonArtifacts[position] \in Artifacts
    BY <1>4, <2>1 DEF OpenArtifact
  <2>4. opened' \subseteq Artifacts /\ DOMAIN kept' = Artifacts
    BY <1>4, <2>3 DEF OpenArtifact
  <2>5. /\ pc' \in {"artifacts", "ended"} /\ status' \in Statuses \union {Running}
        /\ status' = Running <=> pc' # "ended"
        /\ directory' = {}
    BY <1>4 DEF OpenArtifact, Require, Accepted
  <2> QED
    BY <1>4, <2>2, <2>4, <2>5 DEF OpenArtifact
<1>5. CASE StartReplay
  BY <1>5 DEF StartReplay, Require, Accepted, CheckManifest, CheckDefinition, CheckInput, ++
<1>6. CASE ReadModule
  BY <1>6 DEF ReadModule, ReadArtifact, Artifacts, Require, Accepted
<1>7. CASE ReadRuntime
  BY <1>7 DEF ReadRuntime, ReadArtifact, Artifacts, Require, Accepted, CheckRuntime, ++
<1>8. CASE ReadBinary
  BY <1>8
     DEF ReadBinary, ReadArtifact, Artifacts, Require, Accepted, CheckBinary, ++, LoopVerdicts
<1>9. CASE Copy
  BY <1>9 DEF Copy, Fail
<1>10. CASE RunVersion
  BY <1>10 DEF RunVersion, Run, Fail
<1>11. CASE RunBuild
  BY <1>11 DEF RunBuild, Run, Fail, Require, Accepted
<1>12. CASE RunEval
  BY <1>12 DEF RunEval, Run, Fail, Require, Accepted, CheckResult, ++
<1>13. CASE Change
  BY <1>13, ReplayClockAssumption DEF Change
<1>14. CASE Tick
  BY <1>14, ReplayClockAssumption DEF Tick
<1> QED
  BY <1>1, <1>2, <1>3, <1>4, <1>5, <1>6, <1>7, <1>8, <1>9, <1>10, <1>11, <1>12, <1>13, <1>14
     DEF Next, Step

\* Only two exceptions leave replay_policy while it reads artifacts.
LEMMA RuntimeRaises ==
  ASSUME NEW a, NEW m, CheckRuntime(a, m) = "invalid"
  PROVE  "manifest_too_deep" \in a.defects
  BY DEF CheckRuntime, Require, Accepted, ++

LEMMA BinaryRaises ==
  ASSUME NEW a, NEW m, NEW loop, CheckBinary(a, m, loop) = "invalid"
  PROVE  a = SymlinkLoop
  BY DEF CheckBinary, Require, Accepted, ++

\* The receipt is authentic whenever an artifact has been opened, and stays so.
LEMMA EvidenceInvStays ==
  ASSUME ReplayInv, Next
  PROVE  EvidenceIsRead' /\ EvidenceIsAuthentic' /\ AuthenticatedFirst'
<1> USE DEF ReplayInv, EvidenceIsRead, EvidenceIsAuthentic, AuthenticatedFirst, environment,
            evidence, history, End, Goto, EndOrGoto, Replaying, AfterModule, AfterArchive,
            AfterBinary, Subprocesses
<1>1. CASE LoadKeys
  BY <1>1 DEF LoadKeys, Require, Accepted
<1>2. CASE LoadReceipt
  BY <1>2 DEF LoadReceipt, Require, Accepted
<1>3. CASE Authenticate
  <2>1. AuthenticAt(now) => EvidenceIsGood(now)'
    BY <1>3 DEF Authenticate, EvidenceIsGood, AuthenticAt
  <2> QED
    BY <1>3, <2>1 DEF Authenticate, Require, Accepted
<1> DEFINE Keeps == UNCHANGED << call, now, keys_doc, receipt >>
<1>4. Keeps => EvidenceIsGood(now)' = EvidenceIsGood(now)
  BY DEF EvidenceIsGood, AuthenticAt
<1>5. CASE OpenArtifact
  <2>1. EvidenceIsGood(now)'
    BY <1>4, <1>5 DEF OpenArtifact
  <2>2. pc' \in {"artifacts", "ended"} /\ status' # "invalid"
    BY <1>5 DEF OpenArtifact, Require, Accepted, TypeOK, Running
  <2>3. UNCHANGED << keys_doc, receipt >>
    BY <1>5 DEF OpenArtifact
  <2> QED
    BY <1>5, <2>1, <2>2, <2>3 DEF EvidenceIsGood
<1>6. CASE StartReplay
  <2>1. EvidenceIsGood(now) /\ AuthenticAt(now)
    BY <1>6 DEF StartReplay, EvidenceIsGood
  <2>2. status' # "invalid"
    BY <1>6, <2>1
       DEF StartReplay, Require, Accepted, CheckManifest, CheckDefinition, CheckInput, ++,
           TypeOK, Running
  <2> QED
    BY <1>4, <1>6, <2>1, <2>2 DEF StartReplay
<1>7. CASE ReadModule
  BY <1>4, <1>7 DEF ReadModule, ReadArtifact, Require, Accepted, TypeOK, Running
<1>8. CASE ReadRuntime
  <2> DEFINE verdict == CheckRuntime(The(disk["runtime"]), Kept("manifest"))
  <2> HIDE DEF verdict
  <2>1. /\ pc = "runtime" /\ pc' \in {"opa", "ended"} /\ Keeps
        /\ status' = "invalid" => verdict = "invalid" /\ disk["runtime"] # {}
    BY <1>8 DEF ReadRuntime, ReadArtifact, Accepted, TypeOK, Running, verdict
  <2>2. kept'["runtime"] = disk["runtime"]
    BY <1>8 DEF ReadRuntime, ReadArtifact, TypeOK, Artifacts
  <2>3. verdict = "invalid" => "manifest_too_deep" \in The(disk["runtime"]).defects
    BY RuntimeRaises DEF verdict
  <2>4. disk["runtime"] # {} => The(disk["runtime"]) \in disk["runtime"]
    BY DEF The
  <2>5. status' = "invalid" => Raises'
    BY <2>1, <2>2, <2>3, <2>4 DEF Raises
  <2> QED
    BY <1>4, <2>1, <2>5
<1>9. CASE ReadBinary
  <2>1. PICK loop \in LoopVerdicts :
          ReadArtifact("opa", CheckBinary(The(disk["opa"]), Kept("manifest"), loop), "copy")
    BY <1>9 DEF ReadBinary
  <2> DEFINE verdict == CheckBinary(The(disk["opa"]), Kept("manifest"), loop)
  <2> HIDE DEF verdict
  <2>2. /\ pc = "opa" /\ pc' \in {"copy", "ended"} /\ Keeps
        /\ status' = "invalid" => verdict = "invalid" /\ disk["opa"] # {}
    BY <2>1 DEF ReadArtifact, Accepted, TypeOK, Running, verdict
  <2>3. kept'["opa"] = disk["opa"]
    BY <2>1 DEF ReadArtifact, TypeOK, Artifacts
  <2>4. verdict = "invalid" => The(disk["opa"]) = SymlinkLoop
    BY BinaryRaises DEF verdict
  <2>5. disk["opa"] # {} => The(disk["opa"]) \in disk["opa"]
    BY DEF The
  <2>6. status' = "invalid" => Raises'
    BY <2>2, <2>3, <2>4, <2>5 DEF Raises
  <2> QED
    BY <1>4, <2>2, <2>6
<1>10. CASE Copy
  BY <1>4, <1>10 DEF Copy, Fail, TypeOK, Running
<1>11. CASE RunVersion
  BY <1>4, <1>11 DEF RunVersion, Run, Fail, TypeOK, Running
<1>12. CASE RunBuild
  BY <1>4, <1>12 DEF RunBuild, Run, Fail, Require, Accepted, TypeOK, Running
<1>13. CASE RunEval
  BY <1>4, <1>13 DEF RunEval, Run, Fail, Require, Accepted, CheckResult, ++
<1>14. CASE Change
  BY <1>4, <1>14 DEF Change, Running
<1>15. CASE Tick
  <2>1. now \in Nat /\ now' \in Nat /\ now <= now'
    BY <1>15, ReplayClockAssumption DEF Tick, TypeOK
  <2>2. EvidenceIsGood(now) => EvidenceIsGood(now)'
    BY <1>15, <2>1, EvidenceStaysGood DEF Tick
  <2> QED
    BY <1>15, <2>2 DEF Tick, Running
<1> QED
  BY <1>1, <1>2, <1>3, <1>5, <1>6, <1>7, <1>8, <1>9, <1>10, <1>11, <1>12, <1>13, <1>14, <1>15
     DEF Next, Step

\* What CheckDefinition accepts is the committed edition, with the policy of
\* the committed input.
LEMMA DefinitionIsSound ==
  ASSUME NEW p, CheckDefinition(p) = Accepted
  PROVE  /\ EditionIsSound(p)
         /\ Kept("input") = p.policy_input
         /\ p.policy_input.shape_ok /\ p.policy_input.fits /\ p.policy_input.action = p.action
<1> DEFINE d == Kept("definition")
           i == Kept("input")
<1>1. /\ d.shape_ok /\ d.agent_id = p.agent_id /\ d = p.definition
      /\ i.shape_ok /\ i.action = p.action /\ d.entries_ok
      /\ SelectsInput(d, i) /\ i.fits /\ i = p.policy_input
  <2> HIDE DEF d, i
  <2>1. CheckDefinition(p) =
          Require(d.shape_ok, "not_checked")
          ++ Require(d.agent_id = p.agent_id, "mismatched")
          ++ Require(d = p.definition, "mismatched")
          ++ Require(i.shape_ok, "not_checked")
          ++ Require(i.action = p.action, "mismatched")
          ++ Require(d.entries_ok, "not_checked")
          ++ Require(SelectsInput(d, i), "mismatched")
          ++ CheckInput(i, p)
    BY DEF CheckDefinition, d, i
  <2> QED
    BY <2>1, AndThenAccepts DEF Require, Accepted, CheckInput
<1>2. EditionIsSound(p)
  <2> HIDE DEF d, i
  <2> QED
    BY <1>1 DEF EditionIsSound, SelectsInput, UniqueActions
<1> QED
  BY <1>1, <1>2

\* What CheckRuntime accepts is the committed archive, whose bundle holds the
\* module that was read.
LEMMA ArchiveIsSound ==
  ASSUME NEW a, NEW m, CheckRuntime(a, m) = Accepted
  PROVE  /\ a = m.runtime
         /\ m.runtime.bundle = m.bundle /\ m.runtime.bundle_key = m.bundle_key
         /\ m.runtime.defects \intersect RuntimeDefects = {}
         /\ m.bundle.module = Kept("rego") /\ m.bundle.content_ok
  BY AndThenAccepts DEF CheckRuntime, Require, Accepted, RuntimeDefects

\* A read replaces what is kept of one artifact only.
LEMMA ReadKeepsOthers ==
  ASSUME NEW f \in Artifacts, TypeOK, kept' = [kept EXCEPT ![f] = disk[f]]
  PROVE  /\ Kept(f)' = The(disk[f])
         /\ \A g \in Artifacts \ {f} : kept'[g] = kept[g]
  BY DEF Kept, TypeOK

\* Every comparison binds one more artifact to the receipt.
LEMMA BoundStays ==
  ASSUME ReplayInv, Next
  PROVE  Bound'
<1> USE DEF ReplayInv, Bound, DocumentsAreBound, ModuleIsBound, ArchiveIsBound, BinaryIsBound,
            DirectoryIsBound, SignatureIsChecked, environment, evidence, history,
            End, Goto, EndOrGoto, Replaying, AfterModule, AfterArchive, AfterBinary, Subprocesses
<1>0. /\ pc \notin Subprocesses => directory = {}
      /\ {"manifest", "input", "rego", "runtime", "opa"} \subseteq Artifacts
  BY DEF TypeOK, Artifacts
<1>1. CASE LoadKeys \/ LoadReceipt \/ Authenticate \/ OpenArtifact
  <2>1. pc' \in {"receipt", "authenticate", "artifacts", "ended"} /\ directory' = {}
    BY <1>0, <1>1 DEF LoadKeys, LoadReceipt, Authenticate, OpenArtifact, Require, Accepted
  <2> QED
    BY <2>1
<1>2. CASE StartReplay
  <2>1. CASE pc' = "ended"
    BY <1>0, <1>2, <2>1 DEF StartReplay
  <2>2. CASE pc' # "ended"
    <3>1. /\ Payload.policy_eval # Absent
          /\ CheckManifest(Payload) = Accepted /\ CheckDefinition(Payload) = Accepted
      BY <1>2, <2>2, AndThenAccepts DEF StartReplay, Accepted, Require
    <3>2. Kept("manifest") = Payload.engine_version /\ Supported(Payload.engine_version)
      BY <3>1, AndThenAccepts DEF CheckManifest, Require, Accepted
    <3>3. /\ EditionIsSound(Payload) /\ Kept("input") = Payload.policy_input
          /\ Payload.policy_input.shape_ok /\ Payload.policy_input.fits
          /\ Payload.policy_input.action = Payload.action
      BY <3>1, DefinitionIsSound
    <3>4. pc' = "rego" /\ directory' = {} /\ UNCHANGED << receipt, kept >>
      BY <1>0, <1>2, <2>2 DEF StartReplay
    <3> QED
      BY <3>1, <3>2, <3>3, <3>4 DEF Payload, Kept
  <2> QED
    BY <2>1, <2>2
<1>3. CASE ReadModule
  <2>1. pc' = "runtime" => disk["rego"] = {Module}
    BY <1>3 DEF ReadModule, ReadArtifact, Require, Accepted
  <2>2. /\ pc = "rego" /\ pc' \in {"runtime", "ended"} /\ directory' = {}
        /\ UNCHANGED receipt
    BY <1>0, <1>3 DEF ReadModule, ReadArtifact, Require, Accepted
  <2>3. /\ kept'["rego"] = disk["rego"]
        /\ kept'["manifest"] = kept["manifest"] /\ kept'["input"] = kept["input"]
    BY <1>0, <1>3, ReadKeepsOthers DEF ReadModule, ReadArtifact, TypeOK
  <2> QED
    BY <2>1, <2>2, <2>3 DEF Payload, Kept, The
<1>4. CASE ReadRuntime
  <2>1. pc' = "opa" => CheckRuntime(The(disk["runtime"]), Kept("manifest")) = Accepted
    BY <1>4 DEF ReadRuntime, ReadArtifact, Accepted
  <2>2. /\ pc = "runtime" /\ directory' = {} /\ UNCHANGED receipt
        /\ pc' \in {"opa", "ended"}
    BY <1>0, <1>4 DEF ReadRuntime, ReadArtifact
  <2>3. /\ kept'["runtime"] = disk["runtime"]
        /\ kept'["manifest"] = kept["manifest"] /\ kept'["input"] = kept["input"]
        /\ kept'["rego"] = kept["rego"]
    BY <1>0, <1>4, ReadKeepsOthers DEF ReadRuntime, ReadArtifact, TypeOK
  <2>4. CASE pc' = "opa"
    <3> DEFINE m == Payload.engine_version
    <3>1. /\ The(disk["runtime"]) = m.runtime
          /\ m.runtime.bundle = m.bundle /\ m.runtime.bundle_key = m.bundle_key
          /\ m.runtime.defects \intersect RuntimeDefects = {}
          /\ m.bundle.module = Module /\ m.bundle.content_ok
      BY <2>1, <2>2, <2>4, ArchiveIsSound
    <3> QED
      BY <2>2, <2>3, <2>4, <3>1 DEF Payload, Kept
  <2> QED
    BY <2>2, <2>4
<1>5. CASE ReadBinary
  <2>1. pc' = "copy" => \E loop \in LoopVerdicts :
                          CheckBinary(The(disk["opa"]), Kept("manifest"), loop) = Accepted
    BY <1>5 DEF ReadBinary, ReadArtifact, Accepted
  <2>2. /\ pc = "opa" /\ directory' = {} /\ UNCHANGED receipt
        /\ pc' \in {"copy", "ended"}
    BY <1>0, <1>5 DEF ReadBinary, ReadArtifact
  <2>3. /\ kept'["opa"] = disk["opa"]
        /\ kept'["manifest"] = kept["manifest"] /\ kept'["input"] = kept["input"]
        /\ kept'["rego"] = kept["rego"] /\ kept'["runtime"] = kept["runtime"]
    BY <1>0, <1>5, ReadKeepsOthers DEF ReadBinary, ReadArtifact, TypeOK
  <2>4. pc' = "copy" => /\ The(disk["opa"]) = Payload.engine_version.opa
                        /\ Payload.engine_version.platform = Host
    BY <2>1, <2>2, AndThenAccepts DEF CheckBinary, Require, Accepted, LoopVerdicts
  <2> QED
    BY <2>2, <2>3, <2>4 DEF Payload, Kept
<1> DEFINE Keeps == UNCHANGED << receipt, kept >>
<1>6. Keeps => Payload' = Payload /\ \A g \in Artifacts : Kept(g)' = Kept(g)
  BY DEF Payload, Kept
<1>7. CASE Copy
  BY <1>0, <1>6, <1>7 DEF Copy, Fail, BinaryCopied, SignedBundle
<1>8. CASE RunVersion
  BY <1>0, <1>6, <1>8 DEF RunVersion, Run, Fail
<1>9. CASE RunBuild
  <2>1. /\ pc = "build" /\ Keeps
        /\ \/ pc' = "ended" /\ directory' = {}
           \/ /\ pc' = "eval" /\ UNCHANGED directory
              /\ The(directory).bundle.signed_by = The(directory).bundle_key
    BY <1>9 DEF RunBuild, Run, Fail, Require, Accepted
  <2>2. The(directory) \in directory
    BY <2>1 DEF TypeOK, The
  <2> QED
    BY <1>0, <1>6, <2>1, <2>2
<1>10. CASE RunEval
  BY <1>0, <1>10 DEF RunEval, Run, Fail
<1>11. CASE Change \/ Tick
  BY <1>0, <1>6, <1>11 DEF Change, Tick
<1> QED
  BY <1>1, <1>2, <1>3, <1>4, <1>5, <1>7, <1>8, <1>9, <1>10, <1>11 DEF Next, Step

\* The command only goes from one state to another while it has not answered.
LEMMA StillRunning == ASSUME TypeOK, Next PROVE status = Running
  BY DEF TypeOK, Running, Next, Step, LoadKeys, LoadReceipt, Authenticate, OpenArtifact,
         StartReplay, ReadArtifact, ReadModule, ReadRuntime, ReadBinary, Copy, Run,
         RunVersion, RunBuild, RunEval, Change, Tick

\* In the subprocesses everything that was pinned has been compared.
LEMMA DirectoryIsPinned ==
  ASSUME ReplayInv, NEW d \in directory
  PROVE  /\ d.binary \in {OpaArtifacts[host] : host \in {Host} \intersect DOMAIN OpaArtifacts}
         /\ d.bundle.module = Module /\ d.bundle.content_ok
<1>1. pc \in Subprocesses
  BY DEF ReplayInv, TypeOK, Subprocesses
<1>2. /\ Supported(Payload.engine_version) /\ Payload.engine_version.platform = Host
      /\ Payload.engine_version.bundle.module = Module
      /\ Payload.engine_version.bundle.content_ok
  BY <1>1 DEF ReplayInv, Bound, DocumentsAreBound, ArchiveIsBound, BinaryIsBound,
              Replaying, AfterModule, AfterArchive, AfterBinary
<1>3. d.binary = Payload.engine_version.opa /\ d.bundle = Payload.engine_version.bundle
  BY DEF ReplayInv, Bound, DirectoryIsBound
<1> QED
  BY <1>2, <1>3 DEF Supported

\* What a step runs is in the directory of the state before it.
LEMMA PinsStay ==
  ASSUME ReplayInv, Next
  PROVE  OnlyPinnedCodeRuns'
<1>1. executed' \subseteq executed \union directory
  BY DEF Next, Step, environment, evidence, history, LoadKeys, LoadReceipt, Authenticate,
         OpenArtifact, StartReplay, ReadArtifact, ReadModule, ReadRuntime, ReadBinary, Copy,
         Run, RunVersion, RunBuild, RunEval, Change, Tick
<1> QED
  BY <1>1, DirectoryIsPinned DEF ReplayInv, OnlyPinnedCodeRuns

\* Only the last subprocess can lead to a match, and then what was evaluated
\* is what the receipt commits to.
LEMMA MatchStaysEarned ==
  ASSUME ReplayInv, Next
  PROVE  MatchIsEarned'
<1> USE DEF End, Goto, EndOrGoto, environment, evidence, history
<1>1. status # "matched"
  BY StillRunning DEF ReplayInv, Running
<1>2. CASE LoadKeys \/ LoadReceipt \/ Authenticate \/ OpenArtifact
  BY <1>1, <1>2 DEF LoadKeys, LoadReceipt, Authenticate, OpenArtifact, Require, Accepted,
                    MatchIsEarned
<1>3. CASE StartReplay
  BY <1>1, <1>3 DEF StartReplay, CheckManifest, CheckDefinition, CheckInput, Require, ++,
                    Accepted, MatchIsEarned
<1>4. CASE ReadModule \/ ReadRuntime \/ ReadBinary
  BY <1>1, <1>4 DEF ReadModule, ReadRuntime, ReadBinary, ReadArtifact, CheckRuntime, CheckBinary,
                    LoopVerdicts, Require, ++, Accepted, MatchIsEarned
<1>5. CASE Copy \/ RunVersion \/ RunBuild \/ Change \/ Tick
  BY <1>1, <1>5 DEF Copy, RunVersion, RunBuild, Run, Fail, Change, Tick, Require, Accepted,
                    MatchIsEarned
<1>6. CASE RunEval
  <2> SUFFICES ASSUME status' = "matched"
               PROVE  /\ EvidenceIsGood(now)' /\ Payload'.policy_eval # Absent
                      /\ Reproduces(Payload')
    BY DEF MatchIsEarned
  <2> DEFINE result == Evaluate(The(directory).bundle.module, Kept("input"))
             m == Payload.engine_version
  <2>a. CheckResult(result) \in {Accepted, "not_checked", "mismatched"}
    BY DEF CheckResult, Require, ++, Accepted
  <2>1. /\ pc = "eval" /\ UNCHANGED << call, now, keys_doc, receipt >>
        /\ CheckResult(result) = Accepted
    <3> DEFINE verdict == CheckResult(result)
    <3>1. /\ pc = "eval" /\ UNCHANGED << call, now, keys_doc, receipt >>
          /\ status' = (IF verdict = Accepted THEN "matched" ELSE verdict) \/ status' = "not_checked"
      BY <1>6 DEF RunEval, Run, Fail
    <3> HIDE DEF verdict
    <3>2. verdict \in {Accepted, "not_checked", "mismatched"}
      BY <2>a DEF verdict
    <3>3. verdict = Accepted
      BY <3>1, <3>2 DEF Accepted
    <3> QED
      BY <3>1, <3>3 DEF verdict
  <2>2. result = Payload.policy_result
    BY <2>1, AndThenAccepts DEF CheckResult, Require, Accepted
  <2>3. The(directory) \in directory
    BY <2>1 DEF ReplayInv, TypeOK, The
  <2>4. The(directory).bundle.module = Module
    BY <2>3, DirectoryIsPinned
  <2>5. Bound /\ pc \in Replaying /\ pc \in AfterModule /\ pc \in AfterArchive /\ pc \in AfterBinary
    BY <2>1 DEF ReplayInv, Replaying, AfterModule, AfterArchive, AfterBinary, Subprocesses
  <2>6. /\ Payload.policy_eval # Absent /\ Supported(m) /\ EditionIsSound(Payload)
        /\ Kept("input") = Payload.policy_input
        /\ Payload.policy_input.shape_ok /\ Payload.policy_input.fits
        /\ Payload.policy_input.action = Payload.action
    BY <2>5 DEF Bound, DocumentsAreBound
  <2>7. EngineIsSound(m)
    BY <2>1, <2>5, <2>6 DEF Bound, ArchiveIsBound, BinaryIsBound, SignatureIsChecked,
                            EngineIsSound, Supported
  <2>8. Reproduces(Payload)
    BY <2>2, <2>4, <2>6, <2>7 DEF Reproduces
  <2>9. EvidenceIsGood(now)' /\ Payload' = Payload
    BY <2>1, <2>5 DEF ReplayInv, EvidenceIsAuthentic, EvidenceIsGood, AuthenticAt, Payload
  <2> QED
    BY <2>6, <2>8, <2>9
<1> QED
  BY <1>2, <1>3, <1>4, <1>5, <1>6 DEF Next, Step

-----------------------------------------------------------------------------
\* The invariant holds at the start, and every step keeps it.
LEMMA ReplayInvInit == Init => ReplayInv
<1> SUFFICES ASSUME Init PROVE ReplayInv
  OBVIOUS
<1>1. TypeOK
  <2>1. 1 \in 1 .. Len(JsonArtifacts) + 1
    <3>1. Len(JsonArtifacts) = 3
      BY DEF JsonArtifacts
    <3> QED
      BY <3>1
  <2>2. /\ now \in StartNow .. MaxNow /\ changes \in 0 .. MaxChanges
    BY ReplayClockAssumption DEF Init
  <2>3. DOMAIN disk = Files /\ DOMAIN kept = Artifacts
    BY FilesAssumption DEF Init
  <2>4. /\ pc = "keys" /\ status = Running /\ directory = {}
        /\ position = 1 /\ opened = {} /\ failed = FALSE /\ call \in Invocations
    BY DEF Init
  <2> QED
    BY <2>1, <2>2, <2>3, <2>4 DEF TypeOK
<1>2. InstantsAreNumbers
  BY FilesAssumption DEF Init, InstantsAreNumbers
<1> QED
  BY <1>1, <1>2
     DEF Init, ReplayInv, EvidenceIsRead, EvidenceIsAuthentic, AuthenticatedFirst, Bound,
         DocumentsAreBound, ModuleIsBound, ArchiveIsBound, BinaryIsBound, DirectoryIsBound,
         SignatureIsChecked, OnlyPinnedCodeRuns, MatchIsEarned, Running,
         Replaying, AfterModule, AfterArchive, AfterBinary, Subprocesses

\* One step per conjunct for Next; a stutter changes nothing it speaks of.
LEMMA ReplayInvStays ==
  ASSUME ReplayInv, [Next]_vars
  PROVE  ReplayInv'
<1>1. CASE Next
  BY <1>1, TypeStays, InstantsStayNumbers, EvidenceInvStays, BoundStays, PinsStay, MatchStaysEarned
     DEF ReplayInv
<1>2. CASE UNCHANGED vars
  <2>1. UNCHANGED << call, now, disk, changes, pc, position, keys_doc, receipt, kept, directory,
                     opened, executed, failed, status >>
    BY <1>2 DEF vars, environment, evidence, history
  <2>2. Payload' = Payload /\ EvidenceIsGood(now)' = EvidenceIsGood(now)
        /\ \A f \in Artifacts : Kept(f)' = Kept(f)
    BY <2>1 DEF Payload, EvidenceIsGood, AuthenticAt, Kept
  <2>3. TypeOK'
    BY <2>1 DEF ReplayInv, TypeOK
  <2>4. InstantsAreNumbers' /\ EvidenceIsRead' /\ EvidenceIsAuthentic' /\ AuthenticatedFirst'
    BY <2>1, <2>2 DEF ReplayInv, InstantsAreNumbers, EvidenceIsRead, EvidenceIsAuthentic,
                      AuthenticatedFirst, Raises
  <2>5. Bound'
    BY <2>1, <2>2 DEF ReplayInv, Bound, DocumentsAreBound, ModuleIsBound, ArchiveIsBound,
                      BinaryIsBound, DirectoryIsBound, SignatureIsChecked, Artifacts
  <2>6. OnlyPinnedCodeRuns' /\ MatchIsEarned'
    BY <2>1, <2>2 DEF ReplayInv, OnlyPinnedCodeRuns, MatchIsEarned
  <2> QED
    BY <2>3, <2>4, <2>5, <2>6 DEF ReplayInv
<1> QED
  BY <1>1, <1>2

\* The inductive invariant holds in every reachable state of replay_policy.
THEOREM ReplayInvariant == Spec => []ReplayInv
  BY ReplayInvInit, ReplayInvStays, PTL DEF Spec

\* The types of the variables; in particular the temporary directory exists
\* only while a subprocess may need it.
THEOREM ReplayTypeCorrect == Spec => []TypeOK
  BY ReplayInvariant, PTL DEF ReplayInv

\* No artifact is opened before the receipt is known to be authentic, and
\* the second verification, at a later instant, agrees with the first.
THEOREM AuthenticFirst == Spec => []AuthenticatedFirst
  BY ReplayInvariant, PTL DEF ReplayInv

\* Whatever happens to the files, only the official binary of this host is
\* run, on the pinned module.
THEOREM PinnedCodeOnly == Spec => []OnlyPinnedCodeRuns
  BY ReplayInvariant, PTL DEF ReplayInv

\* A match says that the receipt is authentic and that what it commits to
\* reproduces its result, however files are replaced meanwhile.
THEOREM MatchesAreEarned == Spec => []MatchIsEarned
  BY ReplayInvariant, PTL DEF ReplayInv

-----------------------------------------------------------------------------
(***************************************************************************)
(* What was read: the JSON artifacts are read one after the other before   *)
(* the replay begins, and while no file changes what is kept is what the   *)
(* files hold.                                                             *)
(***************************************************************************)
Starting ==
  /\ pc = "keys" => receipt = {}
  /\ pc \in {"keys", "receipt", "authenticate"} => position = 1

DocumentsAreRead ==
  pc = "artifacts" =>
    \A i \in 1 .. Len(JsonArtifacts) :
      i < position /\ JsonArtifacts[i] \in call.given
        => JsonArtifacts[i] \in opened /\ kept[JsonArtifacts[i]] # {}

KeptIsOnDisk == changes = 0 => \A f \in opened : kept[f] = disk[f]

ReadsInv ==
  /\ ReplayInv
  /\ Starting
  /\ DocumentsAreRead
  /\ KeptIsOnDisk
  /\ MismatchIsReal
  /\ FaithfulArchiveMatches

LEMMA ReadsInvInit == Init => ReadsInv
  BY ReplayInvInit
     DEF Init, ReadsInv, Starting, DocumentsAreRead, KeptIsOnDisk, MismatchIsReal, FaithfulArchiveMatches,
         Running

\* Artifacts that are the committed ones pass every comparison, when what is
\* committed to reproduces the result.
LEMMA CommittedDocumentsPass ==
  ASSUME NEW p, Reproduces(p),
         kept["manifest"] = {p.engine_version}, kept["definition"] = {p.definition},
         kept["input"] = {p.policy_input}
  PROVE  CheckManifest(p) = Accepted /\ CheckDefinition(p) = Accepted
<1>1. /\ Kept("manifest") = p.engine_version /\ Kept("definition") = p.definition
      /\ Kept("input") = p.policy_input
  BY DEF Kept, The
<1>2. CheckManifest(p) = Accepted
  BY <1>1 DEF CheckManifest, Require, ++, Reproduces, EngineIsSound, Supported
<1>3. /\ p.definition.shape_ok /\ p.definition.agent_id = p.agent_id
      /\ p.definition.entries_ok /\ UniqueActions(p.definition)
      /\ p.policy_input.shape_ok /\ p.policy_input.action = p.action /\ p.policy_input.fits
  BY DEF Reproduces, EditionIsSound, UniqueActions
<1>4. SelectsInput(p.definition, p.policy_input)
  <2> DEFINE d == p.definition
             here == {i \in DOMAIN d.actions : d.actions[i].action = p.action}
  <2>1. {d.actions[i].policy : i \in here} = {p.policy_input.policy}
    BY DEF Reproduces, EditionIsSound
  <2>2. PICK i \in here : d.actions[i].policy = p.policy_input.policy
    BY <2>1
  <2> QED
    BY <1>3, <2>2 DEF SelectsInput
<1>5. CheckDefinition(p) = Accepted
  BY <1>1, <1>3, <1>4 DEF CheckDefinition, CheckInput, Require, ++
<1> QED
  BY <1>2, <1>5

LEMMA CommittedArchivePasses ==
  ASSUME NEW p, Reproduces(p), Kept("rego") = Module
  PROVE  CheckRuntime(p.engine_version.runtime, p.engine_version) = Accepted
  BY DEF CheckRuntime, Require, ++, Reproduces, EngineIsSound, RuntimeDefects

LEMMA CommittedBinaryPasses ==
  ASSUME NEW p, Reproduces(p), NEW loop
  PROVE  CheckBinary(p.engine_version.opa, p.engine_version, loop) = Accepted
  BY BinaryAssumption DEF CheckBinary, Require, ++, Reproduces, EngineIsSound

\* The result a verified receipt records is one the code may compare with.
LEMMA RecordedResultIsSound ==
  ASSUME EvidenceIsGood(now), Payload.policy_eval # Absent
  PROVE  CheckPolicyResult(Payload.policy_result) = Accepted
<1> DEFINE p == Payload
           schema == CheckSchema(p)
<1>2. schema = Accepted
  BY VerifyAccepts DEF EvidenceIsGood, AuthenticAt, Verifies, Payload
<1> HIDE DEF p
<1>3. CheckPolicyEval(p) = Accepted
  BY <1>2, AndThenAccepts DEF CheckSchema
<1>4. p.policy_eval # Absent
  BY DEF p
<1>5. CheckPolicyResult(p.policy_result) = Accepted
  <2> DEFINE result == CheckPolicyResult(p.policy_result)
  <2>1. Require("policy_eval_shape" \notin p.defects, "policy_eval_shape") ++ result
        ++ Require(p.policy_ref # Null, "policy_eval_without_ref") = Accepted
    BY <1>3, <1>4 DEF CheckPolicyEval
  <2> HIDE DEF result
  <2>2. result = Accepted
    BY <2>1, AndThenAccepts
  <2> QED BY <2>2 DEF result
<1> QED
  BY <1>5 DEF p

\* What has been read is opened and kept.
LEMMA ReadsStayRead ==
  ASSUME ReadsInv, Next
  PROVE  DocumentsAreRead' /\ KeptIsOnDisk' /\ Starting'
<1> USE DEF ReadsInv, ReplayInv, TypeOK, environment, evidence, history, End, Goto, EndOrGoto
<1>0. /\ Len(JsonArtifacts) = 3
      /\ \A i, j \in 1 .. 3 : JsonArtifacts[i] = JsonArtifacts[j] => i = j
      /\ \A i \in 1 .. 3 : JsonArtifacts[i] \in Artifacts
  BY DEF JsonArtifacts, Artifacts
<1>1. CASE LoadKeys \/ LoadReceipt \/ Authenticate
  <2>1. opened' = {} /\ pc' # "keys" /\ position' = position
    BY <1>1 DEF LoadKeys, LoadReceipt, Authenticate, EvidenceIsAuthentic, Require, Accepted
  <2>2. position = 1
    BY <1>1 DEF LoadKeys, LoadReceipt, Authenticate, Starting
  <2> QED
    BY <1>0, <2>1, <2>2 DEF DocumentsAreRead, KeptIsOnDisk, Starting
<1>2. CASE OpenArtifact
  <2> DEFINE f == JsonArtifacts[position]
  <2>1. f \in Artifacts /\ position \in 1 .. 3
    BY <1>0, <1>2 DEF OpenArtifact
  <2>2. /\ position' = position + 1 /\ UNCHANGED << call, disk, changes >>
        /\ pc = "artifacts" /\ pc' \notin {"keys", "receipt", "authenticate"}
    BY <1>2 DEF OpenArtifact, Require, Accepted
  <2>3. CASE f \in call.given
    <3>1. /\ opened' = opened \union {f} /\ kept' = [kept EXCEPT ![f] = disk[f]]
          /\ pc' = "artifacts" => disk[f] # {}
      BY <1>2, <2>3 DEF OpenArtifact, Require, Accepted
    <3>2. KeptIsOnDisk'
      BY <2>1, <2>2, <3>1 DEF KeptIsOnDisk
    <3>3. ASSUME pc' = "artifacts", NEW i \in 1 .. 3, i < position', JsonArtifacts[i] \in call'.given
          PROVE  JsonArtifacts[i] \in opened' /\ kept'[JsonArtifacts[i]] # {}
      <4>1. CASE i = position
        BY <2>1, <3>1, <3>3, <4>1
      <4>2. CASE i # position
        <5>1. i < position /\ JsonArtifacts[i] # f /\ JsonArtifacts[i] \in Artifacts
          BY <1>0, <2>1, <2>2, <3>3, <4>2
        <5> QED
          BY <1>0, <2>2, <3>1, <3>3, <5>1 DEF DocumentsAreRead
      <4> QED
        BY <4>1, <4>2
    <3> QED
      BY <1>0, <2>2, <3>2, <3>3 DEF DocumentsAreRead, Starting
  <2>4. CASE f \notin call.given
    <3>1. UNCHANGED << opened, kept, pc >>
      BY <1>2, <2>4 DEF OpenArtifact
    <3>2. KeptIsOnDisk'
      BY <2>2, <3>1 DEF KeptIsOnDisk
    <3>3. ASSUME NEW i \in 1 .. 3, i < position', JsonArtifacts[i] \in call'.given
          PROVE  JsonArtifacts[i] \in opened' /\ kept'[JsonArtifacts[i]] # {}
      <4>1. i < position
        BY <2>1, <2>2, <2>4, <3>3
      <4> QED
        BY <1>0, <2>2, <3>1, <3>3, <4>1 DEF DocumentsAreRead
    <3> QED
      BY <1>0, <2>2, <3>2, <3>3 DEF DocumentsAreRead, Starting
  <2> QED
    BY <2>3, <2>4
<1>3. CASE ReadModule \/ ReadRuntime \/ ReadBinary
  <2>1. PICK f \in {"rego", "runtime", "opa"} :
          /\ opened' = opened \union {f} /\ kept' = [kept EXCEPT ![f] = disk[f]]
          /\ UNCHANGED << disk, changes >>
          /\ pc' \notin {"keys", "receipt", "authenticate", "artifacts"}
    BY <1>3 DEF ReadModule, ReadRuntime, ReadBinary, ReadArtifact
  <2> QED
    BY <2>1 DEF DocumentsAreRead, KeptIsOnDisk, Artifacts, Starting
<1>4. CASE StartReplay \/ Copy \/ RunVersion \/ RunBuild \/ RunEval
  <2>1. /\ pc' \notin {"keys", "receipt", "authenticate", "artifacts"}
        /\ UNCHANGED << disk, changes, opened, kept >>
    BY <1>4 DEF StartReplay, Copy, Run, RunVersion, RunBuild, RunEval, Fail
  <2> QED
    BY <2>1 DEF DocumentsAreRead, KeptIsOnDisk, Starting
<1>5. CASE Change \/ Tick
  <2>1. /\ UNCHANGED << pc, position, call, opened, kept, receipt >>
        /\ changes' = 0 => changes = 0 /\ disk' = disk
    BY <1>5 DEF Change, Tick
  <2> QED
    BY <1>0, <2>1 DEF DocumentsAreRead, KeptIsOnDisk, Starting
<1> QED
  BY <1>1, <1>2, <1>3, <1>4, <1>5 DEF Next, Step

\* A step to "mismatched" shows the difference.
LEMMA MismatchStaysReal ==
  ASSUME ReadsInv, Next
  PROVE  MismatchIsReal'
<1> USE DEF ReadsInv, ReplayInv, TypeOK, environment, evidence, history, End, Goto, EndOrGoto
<1> SUFFICES ASSUME status' = "mismatched"
             PROVE  \/ ~Reproduces(Payload')
                    \/ \E f \in opened' : kept'[f] # {} /\ kept'[f] # {Committed(Payload')[f]}
  BY DEF MismatchIsReal
<1>0. status # "mismatched"
  BY StillRunning DEF Running
<1>1. CASE LoadKeys \/ LoadReceipt \/ Authenticate \/ OpenArtifact
  BY <1>0, <1>1 DEF LoadKeys, LoadReceipt, Authenticate, OpenArtifact, Require, Accepted
<1>2. CASE StartReplay
  <2>1. /\ pc = "artifacts" /\ position > Len(JsonArtifacts) /\ UNCHANGED << opened, kept, receipt >>
        /\ EvidenceIsGood(now)
    BY <1>2 DEF StartReplay, EvidenceIsAuthentic
  <2>2. AuthenticAt(now)
    BY <2>1 DEF EvidenceIsGood
  <2>3. /\ Payload.policy_eval # Absent /\ call.given = Artifacts
        /\ ~(CheckManifest(Payload) = Accepted /\ CheckDefinition(Payload) = Accepted)
    <3> DEFINE manifest == CheckManifest(Payload)
               definition == CheckDefinition(Payload)
    <3> HIDE DEF manifest, definition
    <3> QED
      BY <1>0, <1>2, <2>2 DEF StartReplay, Require, ++, Accepted, manifest, definition
  <2>4. \A f \in {"manifest", "definition", "input"} : f \in opened /\ kept[f] # {}
    <3>1. /\ Len(JsonArtifacts) = 3 /\ JsonArtifacts[1] = "manifest"
          /\ JsonArtifacts[2] = "definition" /\ JsonArtifacts[3] = "input"
      BY DEF JsonArtifacts
    <3> QED
      BY <2>1, <2>3, <3>1 DEF DocumentsAreRead, Artifacts
  <2>5. Payload' = Payload
    BY <2>1 DEF Payload
  <2>6. /\ Committed(Payload)["manifest"] = Payload.engine_version
        /\ Committed(Payload)["definition"] = Payload.definition
        /\ Committed(Payload)["input"] = Payload.policy_input
    BY DEF Committed
  <2>7. CASE \A f \in {"manifest", "definition", "input"} : kept[f] = {Committed(Payload)[f]}
    <3>1. ~Reproduces(Payload)
      BY <2>3, <2>6, <2>7, CommittedDocumentsPass
    <3> QED
      BY <2>5, <3>1
  <2>8. CASE ~ \A f \in {"manifest", "definition", "input"} : kept[f] = {Committed(Payload)[f]}
    BY <2>1, <2>4, <2>5, <2>8
  <2> QED
    BY <2>7, <2>8
<1>3. CASE ReadModule
  <2>1. /\ kept'["rego"] = disk["rego"] /\ "rego" \in opened'
        /\ disk["rego"] # {} /\ disk["rego"] # {Module}
    BY <1>0, <1>3 DEF ReadModule, ReadArtifact, Require, Accepted, Artifacts
  <2> QED
    BY <2>1 DEF Committed
<1>4. CASE ReadRuntime
  <2> DEFINE archive == The(disk["runtime"])
             m == Payload.engine_version
  <2>1. /\ pc = "runtime" /\ kept'["runtime"] = disk["runtime"] /\ "runtime" \in opened'
        /\ disk["runtime"] # {} /\ CheckRuntime(archive, Kept("manifest")) # Accepted
        /\ UNCHANGED receipt
    BY <1>0, <1>4 DEF ReadRuntime, ReadArtifact, Accepted, Artifacts
  <2>2. Kept("manifest") = m /\ Kept("rego") = Module /\ Payload' = Payload
    BY <2>1 DEF Bound, DocumentsAreBound, ModuleIsBound, Replaying, AfterModule, Payload
  <2>3. CASE disk["runtime"] = {m.runtime}
    <3>1. archive = m.runtime
      BY <2>3 DEF The
    <3> QED
      BY <2>1, <2>2, <3>1, CommittedArchivePasses
  <2>4. CASE disk["runtime"] # {m.runtime}
    BY <2>1, <2>2, <2>4 DEF Committed
  <2> QED
    BY <2>3, <2>4
<1>5. CASE ReadBinary
  <2> DEFINE binary == The(disk["opa"])
             m == Payload.engine_version
  <2>1. /\ pc = "opa" /\ kept'["opa"] = disk["opa"] /\ "opa" \in opened' /\ disk["opa"] # {}
        /\ \E loop \in LoopVerdicts : CheckBinary(binary, Kept("manifest"), loop) # Accepted
        /\ UNCHANGED receipt
    BY <1>0, <1>5 DEF ReadBinary, ReadArtifact, Accepted, Artifacts
  <2>2. Kept("manifest") = m /\ Payload' = Payload
    BY <2>1 DEF Bound, DocumentsAreBound, Replaying, AfterModule, AfterArchive, Payload
  <2>3. CASE disk["opa"] = {m.opa}
    <3>1. binary = m.opa
      BY <2>3 DEF The
    <3> QED
      BY <2>1, <2>2, <3>1, CommittedBinaryPasses
  <2>4. CASE disk["opa"] # {m.opa}
    BY <2>1, <2>2, <2>4 DEF Committed
  <2> QED
    BY <2>3, <2>4
<1>6. CASE Copy \/ RunVersion \/ RunBuild \/ Change \/ Tick
  BY <1>0, <1>6 DEF Copy, RunVersion, RunBuild, Run, Fail, Change, Tick, Require, Accepted
<1>7. CASE RunEval
  <2> DEFINE result == Evaluate(The(directory).bundle.module, Kept("input"))
  <2>1. /\ pc = "eval" /\ UNCHANGED receipt
        /\ CheckResult(result) = "mismatched"
    <3> DEFINE verdict == CheckResult(result)
    <3>1. /\ pc = "eval" /\ UNCHANGED receipt
          /\ status' = (IF verdict = Accepted THEN "matched" ELSE verdict) \/ status' = "not_checked"
      BY <1>7 DEF RunEval, Run, Fail
    <3> QED
      BY <3>1
  <2>2. result # Payload.policy_result
    BY <2>1 DEF CheckResult, Require, ++, Accepted
  <2>3. The(directory).bundle.module = Module
    <3>1. The(directory) \in directory
      BY <2>1 DEF The
    <3> QED
      BY <3>1, DirectoryIsPinned
  <2>4. Kept("input") = Payload.policy_input
    BY <2>1 DEF Bound, DocumentsAreBound, Replaying, AfterModule, AfterArchive, AfterBinary,
                Subprocesses
  <2>5. ~Reproduces(Payload)
    BY <2>2, <2>3, <2>4 DEF Reproduces
  <2> QED
    BY <2>1, <2>5 DEF Payload
<1> QED
  BY <1>1, <1>2, <1>3, <1>4, <1>5, <1>6, <1>7 DEF Next, Step

\* Only the last step of an undisturbed replay of a faithful archive ends it,
\* and it ends it with a match.
LEMMA FaithfulStaysMatched ==
  ASSUME ReadsInv, Next
  PROVE  FaithfulArchiveMatches'
<1> USE DEF ReadsInv, ReplayInv, TypeOK, environment, evidence, history, End, Goto, EndOrGoto
<1> SUFFICES ASSUME /\ status' # Running /\ changes' = 0 /\ ~failed'
                    /\ call'.given = Artifacts
                    /\ EvidenceIsGood(StartNow)'
                    /\ Payload'.policy_eval # Absent
                    /\ Reproduces(Payload')
                    /\ \A f \in Artifacts : disk'[f] = {Committed(Payload')[f]}
             PROVE  status' = "matched"
  BY DEF FaithfulArchiveMatches
<1>0. status = Running /\ UNCHANGED call
  BY StillRunning
     DEF Next, Step, LoadKeys, LoadReceipt, Authenticate, OpenArtifact, StartReplay, ReadArtifact,
         ReadModule, ReadRuntime, ReadBinary, Copy, Run, RunVersion, RunBuild, RunEval, Change, Tick
<1> DEFINE m == Payload.engine_version
<1>1. ~Change /\ ~Tick
  BY <1>0 DEF Change, Tick
<1>2. UNCHANGED << now, disk, changes >>
  BY <1>1
     DEF Next, Step, LoadKeys, LoadReceipt, Authenticate, OpenArtifact, StartReplay, ReadArtifact,
         ReadModule, ReadRuntime, ReadBinary, Copy, Run, RunVersion, RunBuild, RunEval
<1>3. ~LoadKeys
  BY <1>0 DEF LoadKeys, Starting, EvidenceIsGood
<1>4. ~LoadReceipt
  BY <1>0 DEF LoadReceipt, EvidenceIsGood, Require, Running, Accepted
<1>5. UNCHANGED << receipt, keys_doc >> /\ Payload' = Payload
  BY <1>1, <1>3, <1>4
     DEF Next, Step, Authenticate, OpenArtifact, StartReplay, ReadArtifact, Payload,
         ReadModule, ReadRuntime, ReadBinary, Copy, Run, RunVersion, RunBuild, RunEval
<1>6. /\ call.given = Artifacts /\ Payload.policy_eval # Absent /\ Reproduces(Payload)
      /\ \A f \in Artifacts : disk[f] = {Committed(Payload)[f]}
      /\ \A f \in opened : kept[f] = {Committed(Payload)[f]}
  BY <1>0, <1>2, <1>5 DEF KeptIsOnDisk
<1>7. EvidenceIsGood(now)
  <2>1. EvidenceIsGood(StartNow)
    BY <1>0, <1>5 DEF EvidenceIsGood, AuthenticAt
  <2>2. VerifyReceipt(The(receipt), LoadedKeys(The(keys_doc)), StartNow, {call.workspace}, {call.trusted})
          = Accepted
    BY <2>1 DEF EvidenceIsGood, AuthenticAt, Verifies
  <2>3. The(receipt).payload.issued_at \in Int
    BY <2>1 DEF EvidenceIsGood, InstantsAreNumbers, The
  <2>4. StartNow \in Nat /\ now \in Nat /\ StartNow <= now
    BY ReplayClockAssumption
  <2>5. VerifyReceipt(The(receipt), LoadedKeys(The(keys_doc)), now, {call.workspace}, {call.trusted})
          = Accepted
    BY <2>2, <2>3, <2>4, AcceptedLater
  <2> QED
    BY <2>1, <2>5 DEF EvidenceIsGood, AuthenticAt, Verifies
<1>8. AuthenticAt(now)
  BY <1>7 DEF EvidenceIsGood
<1>9. ~Authenticate
  BY <1>0, <1>8 DEF Authenticate, Require, Running
<1>10. ~OpenArtifact
  <2>1. Len(JsonArtifacts) = 3 /\ \A i \in 1 .. 3 : JsonArtifacts[i] \in Artifacts
    BY DEF JsonArtifacts, Artifacts
  <2> QED
    BY <1>0, <1>6, <2>1 DEF OpenArtifact, Require, Running
<1>11. ~StartReplay
  <2> SUFFICES ASSUME StartReplay PROVE FALSE
    OBVIOUS
  <2>1. /\ Len(JsonArtifacts) = 3 /\ JsonArtifacts[1] = "manifest"
        /\ JsonArtifacts[2] = "definition" /\ JsonArtifacts[3] = "input"
    BY DEF JsonArtifacts
  <2>2. \A f \in {"manifest", "definition", "input"} : f \in opened
    BY <1>6, <2>1 DEF StartReplay, DocumentsAreRead, Artifacts
  <2>3. /\ kept["manifest"] = {m} /\ kept["definition"] = {Payload.definition}
        /\ kept["input"] = {Payload.policy_input}
    BY <1>6, <2>2 DEF Committed
  <2>4. CheckManifest(Payload) = Accepted /\ CheckDefinition(Payload) = Accepted
    BY <1>6, <2>3, CommittedDocumentsPass
  <2> QED
    BY <1>0, <1>6, <1>8, <2>4 DEF StartReplay, Require, ++, Running
<1>12. ~ReadModule
  BY <1>0, <1>6 DEF ReadModule, ReadArtifact, Require, Running, Committed, Artifacts
<1>13. ~ReadRuntime
  <2> SUFFICES ASSUME ReadRuntime PROVE FALSE
    OBVIOUS
  <2>1. disk["runtime"] = {m.runtime}
    BY <1>6 DEF Committed, Artifacts
  <2>2. Kept("manifest") = m /\ Kept("rego") = Module /\ The(disk["runtime"]) = m.runtime
    BY <2>1 DEF ReadRuntime, ReadArtifact, Bound, DocumentsAreBound, ModuleIsBound, Replaying,
                AfterModule, The
  <2>3. CheckRuntime(The(disk["runtime"]), Kept("manifest")) = Accepted
    BY <1>6, <2>2, CommittedArchivePasses
  <2> QED
    BY <1>0, <2>1, <2>3 DEF ReadRuntime, ReadArtifact, Running
<1>14. ~ReadBinary
  <2> SUFFICES ASSUME ReadBinary PROVE FALSE
    OBVIOUS
  <2>1. disk["opa"] = {m.opa}
    BY <1>6 DEF Committed, Artifacts
  <2>2. Kept("manifest") = m /\ The(disk["opa"]) = m.opa
    BY <2>1 DEF ReadBinary, ReadArtifact, Bound, DocumentsAreBound, Replaying,
                AfterModule, AfterArchive, The
  <2>3. \A loop \in LoopVerdicts : CheckBinary(The(disk["opa"]), Kept("manifest"), loop) = Accepted
    BY <1>6, <2>2, CommittedBinaryPasses
  <2> QED
    BY <1>0, <2>1, <2>3 DEF ReadBinary, ReadArtifact, Running
<1>15. ~Copy /\ ~RunVersion
  BY <1>0 DEF Copy, RunVersion, Run, Fail, Running
<1>16. pc \in Subprocesses => The(directory) \in directory
  BY DEF Subprocesses, The
<1>17. ~RunBuild
  <2> SUFFICES ASSUME RunBuild PROVE FALSE
    OBVIOUS
  <2>1. The(directory).bundle.signed_by = The(directory).bundle_key
    BY <1>6, <1>16 DEF RunBuild, Run, Bound, DirectoryIsBound, Subprocesses, Reproduces, EngineIsSound
  <2> QED
    BY <1>0, <2>1 DEF RunBuild, Run, Fail, Require, Running
<1>18. CASE RunEval
  <2> DEFINE result == Evaluate(The(directory).bundle.module, Kept("input"))
  <2>1. pc = "eval"
    BY <1>18 DEF RunEval, Run
  <2>2. The(directory).bundle.module = Module
    BY <1>16, <2>1, DirectoryIsPinned DEF Subprocesses
  <2>3. Kept("input") = Payload.policy_input
    BY <2>1 DEF Bound, DocumentsAreBound, Replaying, AfterModule, AfterArchive, AfterBinary,
                Subprocesses
  <2>4. result = Payload.policy_result
    BY <1>6, <2>2, <2>3 DEF Reproduces
  <2>5. CheckResult(result) = Accepted
    BY <1>6, <1>7, <2>4, RecordedResultIsSound DEF CheckResult, Require, ++
  <2> QED
    BY <1>18, <2>5 DEF RunEval, Run, Fail
<1> QED
  BY <1>1, <1>3, <1>4, <1>9, <1>10, <1>11, <1>12, <1>13, <1>14, <1>15, <1>17, <1>18 DEF Next, Step

LEMMA ReadsInvStays ==
  ASSUME ReadsInv, [Next]_vars
  PROVE  ReadsInv'
<1>1. CASE Next
  BY <1>1, ReplayInvStays, ReadsStayRead, MismatchStaysReal, FaithfulStaysMatched DEF ReadsInv
<1>2. CASE UNCHANGED vars
  <2>1. UNCHANGED << call, now, disk, changes, pc, position, keys_doc, receipt, kept, directory,
                     opened, executed, failed, status >>
    BY <1>2 DEF vars, environment, evidence, history
  <2>2. ReplayInv'
    BY ReplayInvStays DEF ReadsInv
  <2>3. Payload' = Payload /\ EvidenceIsGood(StartNow)' = EvidenceIsGood(StartNow)
    BY <2>1 DEF Payload, EvidenceIsGood, AuthenticAt
  <2>4. Starting' /\ DocumentsAreRead' /\ KeptIsOnDisk'
    BY <2>1 DEF ReadsInv, Starting, DocumentsAreRead, KeptIsOnDisk
  <2>5. MismatchIsReal'
    BY <2>1, <2>3 DEF ReadsInv, MismatchIsReal
  <2>6. FaithfulArchiveMatches'
    BY <2>1, <2>3 DEF ReadsInv, FaithfulArchiveMatches
  <2> QED
    BY <2>2, <2>4, <2>5, <2>6 DEF ReadsInv
<1> QED
  BY <1>1, <1>2

LEMMA ReadsInvAlways == Spec => []ReadsInv
  BY ReadsInvInit, ReadsInvStays, PTL DEF Spec

\* A mismatch is a difference somebody can be shown: lost files, failing
\* processes and files replaced between two reads never produce one.
THEOREM MismatchesAreReal == Spec => []MismatchIsReal
  BY ReadsInvAlways, PTL DEF ReadsInv

\* The undisturbed replay of a receipt that reproduces, with the complete
\* archive it commits to, can only end in a match.
THEOREM FaithfulArchivesMatch == Spec => []FaithfulArchiveMatches
  BY ReadsInvAlways, PTL DEF ReadsInv
=============================================================================
