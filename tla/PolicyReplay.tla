--------------------------- MODULE PolicyReplay ---------------------------
(***************************************************************************)
(* The allowly-policy-replay command: main and replay_policy of policy.py. *)
(* Each file is read in a step of its own, and files may be replaced, lost *)
(* or restored between any two steps; OPA runs as a subprocess with a      *)
(* timeout, and may fail.                                                  *)
(*                                                                         *)
(* A file is a set of at most one content; it is empty when the file is    *)
(* missing, too large or not the JSON it should be.  A digest is the       *)
(* content it was taken of.  A payload with an evaluation has              *)
(*   agent_id, action   as signed;                                         *)
(*   engine_version     the manifest [schema_ok, platform, opa, runtime,   *)
(*                      bundle, bundle_key];                               *)
(*   definition         (policy_ref.definition_sha256)                     *)
(*                      [shape_ok, agent_id, entries_ok, actions], actions *)
(*                      a sequence of [action, policy];                    *)
(*   policy_input       (policy_eval.input_sha256)                         *)
(*                      [shape_ok, action, policy, fits, context];         *)
(*   policy_result      (policy_eval.result).                              *)
(* A definition of another profile is one of another agent.  A runtime     *)
(* archive is [defects, bundle, bundle_key], a signed bundle               *)
(* [module, content_ok, signed_by].                                        *)
(*                                                                         *)
(* An invocation is [workspace, trusted, fingerprints_ok, given]: the pins *)
(* and the artifacts whose options are present.                            *)
(***************************************************************************)
EXTENDS KeyEntries

CONSTANTS
  Invocations,
  Disks,          \* the files when the command starts
  Replacements,   \* file -> the files it may be replaced by
  OpaArtifacts,   \* platform -> the official binary (OPA_ARTIFACTS)
  Module,         \* the pinned Rego module (MODULE_SHA256)
  Host,           \* _host_platform()
  Evaluate(_, _), \* module, input -> what official OPA answers
  MaxChanges,     \* bound on the changes to files
  StartNow, MaxNow

ASSUME ReplayClockAssumption ==
  StartNow \in Nat /\ MaxNow \in Nat /\ StartNow <= MaxNow /\ MaxChanges \in Nat

JsonArtifacts == << "manifest", "definition", "input" >>
Artifacts     == {"manifest", "definition", "input", "rego", "runtime", "opa"}
Files         == Artifacts \union {"keys", "receipt"}

\* What keeps a runtime archive from being used, and a path to the OPA binary
\* that is a loop of symbolic links.
RuntimeDefects == {"not_tar", "members", "no_bundle", "bundle_not_tar", "manifest_too_deep"}
SymlinkLoop    == "symlink_loop"

\* Instants are numbers.
ASSUME FilesAssumption ==
  /\ \A d \in Disks : DOMAIN d = Files /\ \A r \in d["receipt"] : r.payload.issued_at \in Int
  /\ \A new \in Replacements["receipt"] : \A r \in new : r.payload.issued_at \in Int

\* The path to an official binary is no loop.
ASSUME BinaryAssumption ==
  \A platform \in DOMAIN OpaArtifacts : OpaArtifacts[platform] # SymlinkLoop

\* The status of the report, or invalid (no report, by main's handler or by a
\* traceback): exit statuses 0, 3, 4 and 1.
Running  == "running"
Statuses == {"matched", "mismatched", "not_checked", "invalid"}

VARIABLES
  call, now,
  disk,        \* the files
  changes,     \* how often they have changed
  pc, position,
  keys_doc,    \* what was read: {} or {the key document}, {the receipt}
  receipt,
  kept,        \* artifact -> {} or {the content that was read}
  directory,   \* the temporary directory: {} or {[binary, bundle, bundle_key]}
  opened,      \* history: the artifacts that were opened
  executed,    \* history: the binaries that were run, and on which bundle
  failed,      \* history: a subprocess or the temporary directory has failed
  status       \* Running, or how the command ended

environment == << call, now, disk, changes >>
evidence    == << keys_doc, receipt >>
history     == << opened, executed, failed >>
vars == << environment, pc, position, evidence, kept, directory, history, status >>

Init ==
  /\ call \in Invocations
  /\ now = StartNow
  /\ disk \in Disks
  /\ changes = 0
  /\ pc = "keys"
  /\ position = 1
  /\ keys_doc = {} /\ receipt = {}
  /\ kept = [f \in Artifacts |-> {}]
  /\ directory = {}
  /\ opened = {} /\ executed = {} /\ failed = FALSE
  /\ status = Running

The(S) == CHOOSE x \in S : TRUE

Payload       == The(receipt).payload
Kept(f)       == The(kept[f])
SignedBundle  == Kept("runtime").bundle

\* Mutant: the directory is removed after a match only.
EndLeaving(answer) ==
  /\ pc' = "ended"
  /\ status' = answer
  /\ directory' = IF answer = "matched" THEN {} ELSE directory

\* The command answers; TemporaryDirectory removes what it made.
End(answer) ==
  /\ pc' = "ended"
  /\ status' = answer
  /\ directory' = {}

Goto(label) ==
  /\ pc' = label
  /\ UNCHANGED << directory, status >>

\* A verdict names the status it ends with, or lets the command go on.
EndOrGoto(verdict, label) ==
  IF verdict = Accepted THEN Goto(label) ELSE End(verdict)

-----------------------------------------------------------------------------
(* main: the key document and the receipt. *)

LoadKeys ==
  /\ pc = "keys"
  /\ keys_doc' = disk["keys"]
  /\ EndOrGoto(Require(\E d \in disk["keys"] : d.workspace_id = call.workspace, "invalid"),
               "receipt")
  /\ UNCHANGED << environment, position, receipt, kept, history >>

LoadReceipt ==
  /\ pc = "receipt"
  /\ receipt' = disk["receipt"]
  /\ EndOrGoto(Require(disk["receipt"] # {} /\ DocumentIsValid(The(keys_doc)), "invalid"),
               "authenticate")
  /\ UNCHANGED << environment, position, keys_doc, kept, history >>

\* What every call of replay_policy begins with.
AuthenticAt(t) ==
  /\ call.fingerprints_ok
  /\ Verifies(The(receipt), LoadedKeys(The(keys_doc)), t, {call.workspace}, {call.trusted})

\* Mutant: nothing is verified before the artifacts are at hand.
AuthenticateLater ==
  /\ pc = "authenticate"
  /\ Goto("artifacts")
  /\ UNCHANGED << environment, position, evidence, kept, history >>

\* The call without artifacts.
Authenticate ==
  /\ pc = "authenticate"
  /\ EndOrGoto(Require(AuthenticAt(now), "invalid"), "artifacts")
  /\ UNCHANGED << environment, position, evidence, kept, history >>

\* Mutant: an artifact whose option is absent is looked for again.
OpenArtifactAgain ==
  /\ pc = "artifacts"
  /\ position <= Len(JsonArtifacts)
  /\ LET f == JsonArtifacts[position]
     IN /\ f \in call.given
        /\ opened' = opened \union {f}
        /\ kept' = [kept EXCEPT ![f] = disk[f]]
        /\ EndOrGoto(Require(disk[f] # {}, "not_checked"), "artifacts")
  /\ position' = position + 1
  /\ UNCHANGED << environment, evidence, executed, failed >>

\* One artifact of the dictionary, if its option is present.
OpenArtifact ==
  /\ pc = "artifacts"
  /\ position <= Len(JsonArtifacts)
  /\ LET f == JsonArtifacts[position]
     IN IF f \in call.given
        THEN /\ opened' = opened \union {f}
             /\ kept' = [kept EXCEPT ![f] = disk[f]]
             /\ EndOrGoto(Require(disk[f] # {}, "not_checked"), "artifacts")
        ELSE UNCHANGED << opened, kept, pc, directory, status >>
  /\ position' = position + 1
  /\ UNCHANGED << environment, evidence, executed, failed >>

-----------------------------------------------------------------------------
(* replay_policy with the artifacts. *)

Supported(manifest) ==
  /\ manifest.schema_ok
  /\ manifest.platform \in DOMAIN OpaArtifacts
  /\ manifest.opa = OpaArtifacts[manifest.platform]

CheckManifest(p) ==
  Require(Kept("manifest") = p.engine_version, "mismatched")
  ++ Require(Supported(Kept("manifest")), "not_checked")

UniqueActions(definition) ==
  \A i, j \in DOMAIN definition.actions :
    i # j => definition.actions[i].action # definition.actions[j].action

\* The definition has one policy for the action, and it is that of the input.
SelectsInput(definition, input) ==
  /\ UniqueActions(definition)
  /\ \E i \in DOMAIN definition.actions :
       /\ definition.actions[i].action = input.action
       /\ definition.actions[i].policy = input.policy

\* Mutant: the input is not compared with the digest in the receipt.
CheckInputAny(input, p) == Require(input.fits, "not_checked")

CheckInput(input, p) ==
  Require(input.fits, "not_checked")
  ++ Require(input = p.policy_input, "mismatched")

CheckDefinition(p) ==
  LET definition == Kept("definition")
      input      == Kept("input")
  IN Require(definition.shape_ok, "not_checked")
     ++ Require(definition.agent_id = p.agent_id, "mismatched")
     ++ Require(definition = p.definition, "mismatched")
     ++ Require(input.shape_ok, "not_checked")
     ++ Require(input.action = p.action, "mismatched")
     ++ Require(definition.entries_ok, "not_checked")
     ++ Require(SelectsInput(definition, input), "mismatched")
     ++ CheckInput(input, p)

StartReplay ==
  /\ pc = "artifacts"
  /\ position > Len(JsonArtifacts)
  /\ EndOrGoto(
       Require(AuthenticAt(now), "invalid")
       ++ (IF Payload.policy_eval = Absent \/ call.given # Artifacts
           THEN "not_checked"
           ELSE CheckManifest(Payload) ++ CheckDefinition(Payload)),
       "rego")
  /\ UNCHANGED << environment, position, evidence, kept, history >>

\* Mutant: an artifact that cannot be read counts as a wrong one.
ReadArtifactStrict(f, verdict, next) ==
  /\ pc = f
  /\ opened' = opened \union {f}
  /\ kept' = [kept EXCEPT ![f] = disk[f]]
  /\ EndOrGoto(IF disk[f] = {} THEN "mismatched" ELSE verdict, next)
  /\ UNCHANGED << environment, position, evidence, executed, failed >>

\* _artifact: one read of the whole file, and a verdict on what was read.
ReadArtifact(f, verdict, next) ==
  /\ pc = f
  /\ opened' = opened \union {f}
  /\ kept' = [kept EXCEPT ![f] = disk[f]]
  /\ EndOrGoto(IF disk[f] = {} THEN "not_checked" ELSE verdict, next)
  /\ UNCHANGED << environment, position, evidence, executed, failed >>

ReadModule ==
  ReadArtifact("rego", Require(disk["rego"] = {Module}, "mismatched"), "runtime")

\* RecursionError and, in Python 3.10 to 3.12, the RuntimeError of a strict
\* resolve pass the handlers of replay_policy.
LoopVerdicts == {"invalid", "not_checked"}

\* _runtime_matches, the digests of the two members, and _bundle_matches.
CheckRuntime(archive, manifest) ==
  Require(archive = manifest.runtime, "mismatched")
  ++ Require("not_tar" \notin archive.defects, "not_checked")
  ++ Require("members" \notin archive.defects, "mismatched")
  ++ Require("no_bundle" \notin archive.defects, "not_checked")
  ++ Require(archive.bundle = manifest.bundle /\ archive.bundle_key = manifest.bundle_key,
             "mismatched")
  ++ Require("bundle_not_tar" \notin archive.defects, "not_checked")
  ++ Require("manifest_too_deep" \notin archive.defects, "invalid")
  ++ Require(archive.bundle.content_ok /\ archive.bundle.module = Kept("rego"), "mismatched")

ReadRuntime ==
  ReadArtifact("runtime", CheckRuntime(The(disk["runtime"]), Kept("manifest")), "opa")

CheckBinary(binary, manifest, loop) ==
  Require(binary # SymlinkLoop, loop)
  ++ Require(binary = manifest.opa, "mismatched")
  ++ Require(Host = manifest.platform, "not_checked")

ReadBinary ==
  \E loop \in LoopVerdicts :
    ReadArtifact("opa", CheckBinary(The(disk["opa"]), Kept("manifest"), loop), "copy")

-----------------------------------------------------------------------------
(* The temporary directory and the three subprocesses. *)

Fail ==
  /\ failed' = TRUE
  /\ End("not_checked")

\* Mutant: the file that was checked is copied by its path.
BinaryCopiedByPath == IF disk["opa"] = {} THEN Kept("opa") ELSE The(disk["opa"])

\* binary.write_bytes(binary_bytes)
BinaryCopied == Kept("opa")

Copy ==
  /\ pc = "copy"
  /\ \/ /\ directory' = { [ binary |-> BinaryCopied, bundle |-> SignedBundle,
                            bundle_key |-> Kept("runtime").bundle_key ] }
        /\ pc' = "version"
        /\ UNCHANGED << status, failed >>
     \/ Fail
  /\ UNCHANGED << environment, position, evidence, kept, opened, executed >>

\* A subprocess is run from the directory, and then this is done; or it does
\* not start, exits with an error, prints what cannot be used, or times out.
Run(command, then) ==
  /\ pc = command
  /\ executed' = executed \union directory
  /\ \/ then /\ UNCHANGED failed
     \/ Fail
  /\ UNCHANGED << environment, position, evidence, kept, opened >>

\* The version, commit and platform that opa version prints are the pinned ones.
RunVersion == Run("version", Goto("build"))

\* OPA verifies the bundle's signature before it builds.
RunBuild ==
  LET d == The(directory)
  IN Run("build", EndOrGoto(Require(d.bundle.signed_by = d.bundle_key, "not_checked"), "eval"))

\* Mutant: the answer of a policy none of whose rules applies is no answer.
CheckResultRuled(result) ==
  Require(CheckPolicyResult(result) = Accepted /\ result.rule # Null, "not_checked")
  ++ Require(result = Payload.policy_result, "mismatched")

CheckResult(result) ==
  Require(CheckPolicyResult(result) = Accepted, "not_checked")
  ++ Require(result = Payload.policy_result, "mismatched")

RunEval ==
  Run("eval", End(LET verdict == CheckResult(Evaluate(The(directory).bundle.module, Kept("input")))
                  IN IF verdict = Accepted THEN "matched" ELSE verdict))

-----------------------------------------------------------------------------
\* Another process replaces, removes or restores a file.
Change ==
  /\ status = Running
  /\ changes < MaxChanges
  /\ \E f \in Files : \E new \in Replacements[f] :
       /\ disk[f] # new
       /\ disk' = [disk EXCEPT ![f] = new]
  /\ changes' = changes + 1
  /\ UNCHANGED << call, now, pc, position, evidence, kept, directory, history, status >>

Tick ==
  /\ status = Running
  /\ now < MaxNow
  /\ now' = now + 1
  /\ UNCHANGED << call, disk, changes, pc, position, evidence, kept, directory, history, status >>

Step ==
  \/ LoadKeys \/ LoadReceipt \/ Authenticate \/ OpenArtifact
  \/ StartReplay \/ ReadModule \/ ReadRuntime \/ ReadBinary
  \/ Copy \/ RunVersion \/ RunBuild \/ RunEval

Next == Step \/ Change \/ Tick

\* The process is scheduled, files end, and every subprocess has a timeout.
Spec == Init /\ [][Next]_vars /\ WF_vars(Step)

-----------------------------------------------------------------------------
(* What a receipt commits to, and whether that reproduces its result: said  *)
(* of the payload alone, without files, clock or order of checks.           *)

Committed(p) ==
  [ manifest |-> p.engine_version, definition |-> p.definition, input |-> p.policy_input,
    rego |-> Module, runtime |-> p.engine_version.runtime, opa |-> p.engine_version.opa ]

EngineIsSound(m) ==
  /\ m.schema_ok
  /\ Host \in DOMAIN OpaArtifacts
  /\ m.platform = Host /\ m.opa = OpaArtifacts[Host]
  /\ m.runtime.bundle = m.bundle /\ m.runtime.bundle_key = m.bundle_key
  /\ m.runtime.defects \intersect RuntimeDefects = {}
  /\ m.bundle.module = Module /\ m.bundle.content_ok /\ m.bundle.signed_by = m.bundle_key

\* The edition has the action once, with the policy of the input.
EditionIsSound(p) ==
  LET d == p.definition
      here == {i \in DOMAIN d.actions : d.actions[i].action = p.action}
  IN /\ d.shape_ok /\ d.entries_ok /\ d.agent_id = p.agent_id
     /\ \A i, j \in DOMAIN d.actions : d.actions[i].action = d.actions[j].action => i = j
     /\ {d.actions[i].policy : i \in here} = {p.policy_input.policy}

Reproduces(p) ==
  /\ EngineIsSound(p.engine_version)
  /\ EditionIsSound(p)
  /\ p.policy_input.shape_ok /\ p.policy_input.fits /\ p.policy_input.action = p.action
  /\ Evaluate(Module, p.policy_input) = p.policy_result

EvidenceIsGood(t) ==
  /\ keys_doc # {} /\ receipt # {}
  /\ DocumentIsValid(The(keys_doc))
  /\ AuthenticAt(t)

-----------------------------------------------------------------------------
TypeOK ==
  /\ call \in Invocations
  /\ now \in StartNow .. MaxNow
  /\ DOMAIN disk = Files
  /\ changes \in 0 .. MaxChanges
  /\ pc \in {"keys", "receipt", "authenticate", "artifacts", "rego", "runtime", "opa",
             "copy", "version", "build", "eval", "ended"}
  /\ position \in 1 .. Len(JsonArtifacts) + 1
  /\ DOMAIN kept = Artifacts
  /\ opened \subseteq Artifacts
  /\ failed \in BOOLEAN
  /\ status \in Statuses \union {Running}
  /\ status = Running <=> pc # "ended"
  /\ directory # {} <=> pc \in {"version", "build", "eval"}

\* A match is a statement about the receipt alone: it is authentic, and what
\* it commits to reproduces the result it records, whatever the files were
\* before, between and after the reads (replay_policy, "Authenticate first,
\* then replay only the complete provisional result").
MatchIsEarned ==
  status = "matched" =>
    /\ EvidenceIsGood(now)
    /\ Payload.policy_eval # Absent
    /\ Reproduces(Payload)

\* A mismatch is a difference somebody can be shown: some content that was
\* read is not the committed one, or the receipt does not reproduce.  Lost
\* files, timeouts and failing processes never count as one (replay_policy,
\* "Missing artifacts or unsupported engines return not_checked").
MismatchIsReal ==
  status = "mismatched" =>
    \/ ~Reproduces(Payload)
    \/ \E f \in opened : kept[f] # {} /\ kept[f] # {Committed(Payload)[f]}

\* When nothing interferes, the complete archive of a receipt that reproduces
\* is a match (main).
FaithfulArchiveMatches ==
  /\ status # Running /\ changes = 0 /\ ~failed
  /\ call.given = Artifacts
  /\ EvidenceIsGood(StartNow)
  /\ Payload.policy_eval # Absent
  /\ Reproduces(Payload)
  /\ \A f \in Artifacts : disk[f] = {Committed(Payload)[f]}
  => status = "matched"

\* No artifact is opened before the receipt is known to be authentic, and the
\* second verification, at a later instant, never takes that back: only the
\* two exceptions that pass replay_policy end without a report then (main,
\* "Authenticate receipt evidence before inspecting optional artifacts").
Raises ==
  \/ SymlinkLoop \in kept["opa"]
  \/ \E archive \in kept["runtime"] : "manifest_too_deep" \in archive.defects

AuthenticatedFirst ==
  opened # {} =>
    /\ EvidenceIsGood(now)
    /\ status = "invalid" => Raises

\* Once artifacts are opened there is a report: "Missing inputs/artifacts and
\* unsupported engines return `not_checked`"
\* (spec/profiles/allowly-opa-evaluation-v1.md, Separate replay).
ArtifactsNeverInvalidate == opened # {} => status # "invalid"

\* Only the official binary of this host is run, on a bundle with the pinned
\* module, even if the files change after their digests were compared
\* (replay_policy, "Only checksum-pinned Rego and a fixed query execute").
OnlyPinnedCodeRuns ==
  \A d \in executed :
    /\ d.binary \in {OpaArtifacts[host] : host \in {Host} \intersect DOMAIN OpaArtifacts}
    /\ d.bundle.module = Module /\ d.bundle.content_ok

\* The command ends.
Terminates == <>(status # Running)
===========================================================================
