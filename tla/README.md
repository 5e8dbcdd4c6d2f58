# Allowly receipt format: TLA+ verification project

The repository defines signed *receipts* (flattened JWS, Ed25519) that record
what an authorization service decided, daily *checkpoints* that commit a day's
receipts with a Merkle root, and reference verifiers in Python and TypeScript.
This directory models the verifiers and the tools beside them, checks the models
with TLC and proves the main results with TLAPS.

Paths below are relative to `src/`; `verifier.py` is
`verifiers/python/src/allowly_receipt_format/verifier.py` and `verifier.ts` is
`verifiers/typescript/verifier.ts`.

## 1. Inventory

| Part | State it keeps | Operations | Talks to | Hard behaviour |
|---|---|---|---|---|
| Python receipt verification (`verifier.py`) | none | `decode_receipt`, `verify_receipt` | keys, clock, pinned fingerprints from its caller | order of some forty checks, half-open key windows, clock skew, first-match key lookup |
| Python checkpoints (`verifier.py`) | none | `checkpoint_merkle_root`, `verify_checkpoint` | receipt verification | odd Merkle levels, duplicate members, linked days |
| Key loading (`verifier.py`, `verifier.ts`, browser) | `seen_ids`, `seen_pubs`, `out` | `load_keys_from_json`, `loadKeysFromJson` | produces the key list of everything else | keys compared as texts; in the browser the entries run concurrently over shared sets |
| Python command (`verifier.py`) | counters, `chain`, `verified_by_id`, evidence index | `main`, `_verify_export`, `_verify_checkpoint_evidence`, `_check_chain_invariants` | all of the above, files, the clock | long scans, partial failures, a filter before verification, two passes over evidence, uncaught exceptions |
| Canonical JSON (`verifier.py`, `verifier.ts`) | the stack of a walk | `canonicalize`, `_validate_tree`, `validateTree` | every signature and digest | limits that two walks must agree on, shared and cyclic objects, two orders of names |
| TypeScript verification (`verifier.ts`) | snapshots, local to a call | `verifyReceipt`, `decodeReceipt`, `verifyCheckpoint`, `checkpointMerkleRoot` | WebCrypto promises; the caller runs at each `await` | objects that change between awaits; agreement with Python |
| Browser build (`verifiers/typescript/scripts/build-browser.py`) | none | a text transform of the compiled TypeScript | the above | makes more of the verifier asynchronous |
| SEAL (`seal.py`, `verifier.ts`, `browser/sealJson.ts`) | depth counters and name stacks of the scanners | `verify_seal_json`, `verify_seal_value`, `verifySeal`, `hash_seal_*` | receipt verification | the record is hashed after an await; a text scanned without parsing it; numbers in three readers |
| Policy replay (`policy.py`) | a private temporary directory | `replay_policy`, `main` | OPA processes, artifact files | authenticate before opening anything; artifacts that change; timeouts |
| Evidence, assessments (`evidence.py`, `assessment/`) | none | `evidence_context`, `validate_policy_definition`, `verify_assessment` | canonical JSON, keys | facts that are missing one by one; an envelope and snapshots that change between awaits |
| Mutation gates (`scripts/mutation_gate.py`, `mutation_report_gate.cjs`) | a clone, a cache, a report | `main`, `python_gate`, `typescript_gate` | git, mutmut, Stryker, the developer | stale reports, tools that die with a source rewritten, interrupts |
| Issuer (`scripts/gen_vectors.py`), release workflows (`.github/workflows/`) | the registries | build vectors; publish | external services | check, then publish |

What makes each part correct: a receipt is accepted exactly when the format
says so and by both implementations; a loaded key document is unambiguous and the
same in every build; one value has one canonical text; the command accounts for
every line, never forgets or replaces what it verified, and exits with 0 only when
something was verified and nothing failed; a checkpoint commits exactly one member
set, and linked checkpoints cover different days; an asynchronous verdict is about
the objects the caller passed, and is Python's; a SEAL matches only the record it commits to; a
replay that matches says that the receipt reproduces its result, and has run nothing
but what is pinned; an accepted assessment was signed and rests on the captured source that was
signed; a mutation gate passes on results of its own run only and leaves the
checkout alone.

`PROJECT.json` lists all components with what is left out, and under `hazards`
every place where the code is hard to test, with the properties that cover it.

## 2. Modules

```
ReceiptRules ──┬─ Checkpoints ──┬─ VerifierCli ── VerifierCliProofs, MCVerifierCli
  (operators)  │                │      └ KeyEntries
  │            │                ├─ VerificationRequest  (abstract)
  │            │                └─ AsyncVerification ── MCAsyncVerification
  │            ├─ TsReceiptRules ──┘              └──┬─ TypeScriptProofs
  │            │        └─ VerifierParity ───────────┘── MCVerifierParity
  │            │              └ CanonicalTree
  │            └─ KeyEntries ─┬─ KeyDocument
  │                           │      └─ TsKeyLoading ── KeyDocumentProofs, MCTsKeyLoading
  │                           └─ PolicyReplay ── PolicyReplayProofs, MCPolicyReplay
  └─ ReceiptRulesProofs  (lemmas used by the four proof modules above)

SealNumbers ── SealProfile ── SealProfileProofs, MCSealProfile
                  ├ SealVerification
                  └ SealScanner
Assessments ── AssessmentsProofs, MCAssessments
MutationGate ── MutationGateProofs, MCMutationGate
```

- **ReceiptRules**: `verify_receipt` and everything it calls, as operators that
  return `Accepted` or the label of the rejection. `a ++ b` is "a, and then b
  unless a has rejected", so a definition reads in the order of the code.
- **Checkpoints**: the Merkle tree and `verify_checkpoint`. A hash is the term
  of what was hashed, with the code's domain-separation byte, which makes
  SHA-256 injective. The byte order of leaf hashes is the constant `HashOrder`.
- **KeyEntries**, **KeyDocument**: one entry of a key document, and the loop of
  `load_keys_from_json` with one step per entry. A `public_key` text is a pair of
  the bytes it decodes to and a padding variant, of which only variant 0 is
  canonical: this is what `_b64url_decode` checks by re-encoding.
- **TsKeyLoading** loads, after Python (`Python` is a step of KeyDocument), the same
  document in TypeScript: in Node at once, in the browser as `build-browser.py`
  rewrites the loop, one asynchronous function per entry. `StartEntry` runs one entry
  up to its digest, in document order, over the two shared sets `ids` and `pubs`;
  `entries` are the promises; `MapReturns` ends the mapping and hands them to
  `Promise.all`. `Digest(i)` then completes one in any order, `Edit` is the caller, and
  `Settle` answers with the first rejection while the other digests still run.
- **VerifierCli**: one run of the command. `pc` is the function being executed and
  `position` the next element of its loop; `ok`, `failed`, `skipped`, `total`,
  `chain`, `verified_by_id`, `checkpoints`, `chain_rc`, `checkpoint_rc` and
  `checkpoint_count` are the locals of `main`, `_verify_export` and
  `_verify_checkpoint_evidence`, and `exit` is the status; each path through the loop
  body is an action (`BlankLine`, `UndecodableLine`, `SkipLine`, `VerifyLine`,
  `RejectLine`, `AbortAtLine`), as is each entry of the two evidence passes. The
  clock ticks between steps because `verify_receipt` reads it at every call.
- **TsReceiptRules**: the same rules translated independently from
  `verifier.ts`, with its own order of checks.
- **CanonicalTree**: a payload is a graph of nodes, because an object in memory may
  be shared or contain itself. `walks` holds the explicit stack of `_validate_tree`
  and of `validateTree`, one `Visit` per turn of the loop, with the limits
  `MaxDepth` and `MaxNodes` as parameters; `Text` is the canonical text in tokens,
  node by node (`NodeText`) down to the limit, as `SameValue` is of equality,
  and names are sequences of code points that `Units` turns into UTF-16.
- **VerifierParity**: both verifiers answer for one input, in either order;
  `IsValid` states the format's rules (`spec/receipt-format.md` 3, 6 and 7) as a
  table without any order of checks. Its second subject is the payload alone, where
  both languages walk one graph of CanonicalTree.
- **VerificationRequest**: what an asynchronous caller is promised: one verdict,
  that of the synchronous Python verifier on the objects as they were at the
  call, for one instant between call and answer. The synchronous verdict is the
  parameter `Outcome(o, t)`, which AsyncVerification replaces by Python's rules
  (`PythonVerdict`) with two exceptions: `verifyCheckpoint` rejects key bytes in shared
  memory, and a list of members above the limit.
- **AsyncVerification**: `verifyReceipt` and `verifyCheckpoint` cut at their
  awaits. `own` is what the code has copied, `given` the caller's live objects,
  which `Edit` changes at any step; `pc` is what is awaited. `Refusal` is what the
  snapshots of `verifyCheckpoint` refuse at the call: `validateTree` counts the nodes of
  the whole list of members (`ListNodes`: the list, and four for every envelope) against
  `MaxListNodes`, the 50,000 of `verifier.ts:197`. `KeepsPromise` is
  the refinement `Promise!RequestSpec`, where `Promise` instantiates
  VerificationRequest.
- **SealProfile** is three subjects that share no state. *SealVerification*:
  `_verify_seal`, in one step, and `verifySeal`, in two, the copied receipt in `own`
  and the caller's record read only after the await. *SealScanner*: a JSON text
  grows one character at a time along the grammar (`open`, `expect`) while the bracket
  counter (`raw`), the scan for repeated names (`scan`) and the depth checks see that
  same character. Characters are named by words (`array` and `endArray` are the
  brackets); `ReadToken` is the scan's own reading of a string token, escapes included. *SealNumbers*: a number token is read by the hooks of `seal.py`,
  by `parseSealNumber` and by the browser's `parseNumber`, over a binary floating
  point format whose precision and exponents are parameters.
- **PolicyReplay**: one run of `allowly-policy-replay`, `main` and `replay_policy`
  of `policy.py`, both calls of the latter included. `disk` is what the files hold, `kept` what
  has been read of each artifact, `directory` the temporary directory. Every
  read of a file (`LoadKeys`, `LoadReceipt`, `OpenArtifact`, `ReadModule`,
  `ReadRuntime`, `ReadBinary`), the copy and every subprocess (`RunVersion`,
  `RunBuild`, `RunEval`) is a step, so that `Change` (a file is replaced,
  lost or restored by another process) and `Tick` fall between any two. A file is
  a set of at most one content, empty when it cannot be read as what it should be;
  a digest is the content it was taken of; what official OPA answers is the
  constant `Evaluate`. `opened`, `executed` and `failed` are history.
- **Assessments**: a record is signed from a policy edition, a captured source and
  extracted facts, possibly deviating from an honest one (`Deviants`), and is then
  verified, by Python in one step or by Node in the seven parts between which
  `verify.mjs` awaits WebCrypto, while `Edit` changes what the caller holds. `payload` is
  the record the verifier decodes at the call, `envelope` the one whose text the caller's
  envelope has now, and `signed` the one the signature verifies for: `NodeSignature`
  (line 95) compares `signed` with `envelope` and not with `payload`. `trusted` stands for
  the checks of header, workspace, project and key. Digests are compared as what they are
  digests of; `applied` holds the snapshots the evidence was derived from. The mapping
  snapshot is a constant: its digest is checked, and the request, which is reconstructed
  after evidence was derived, commits to it again.
- **MutationGate**: one run of the gate, a step per command of `main`,
  `python_gate` and `typescript_gate`. `instrumented` and `results` are what is on
  disk per directory and language: sources a tool has rewritten, and its cache or
  report. Tools end with any status, with or without results and with or without
  restoring the source; `Interrupt` unwinds or kills; the developer commits,
  edits and fetches meanwhile.

Data is abstracted to what the rules tell apart: structural defects are members
of a set that the code's checks look for in order, timestamps are ticks (`Day`
and `Skew` are constants), texts are model values, a signature is the key under
which it verifies. Event names use `_` for the code's `.`. What an exception
says is its label only.

## 3. Runs

| Run | States | What it shows |
|---|---|---|
| `key_document` | 19,597 | documents of up to three entries from a set of good and bad ones, in Python and then in Node or the browser: accepted exactly when valid, with the same unambiguous keys |
| `verifier_cli` | 73,818 | exports of up to three lines (receipts, wrappers, a duplicate id, a second grant, a second revocation; forged receipts, one of a retired key, each kind of unreadable line), whole or scoped; evidence of up to three entries beside complete and incomplete exports; all combinations of options with good and bad files; clock 4 to 5 |
| `cli_scoped_evidence` | violation | the empty scope passes the test that keeps scopes and evidence apart |
| `verifier_parity` | 183,797 | six kinds of valid receipts with every pair of 80 faults, a second entry of the key's kid before or after it among them; 12,728 payloads of three nodes within limits of three levels and five nodes |
| `async_verification` | 12,325 | receipts, in Node with changing pins and in the browser with fixed ones, and a checkpoint with two members, a list at the limit, and a predecessor, or with three members, edits of the caller at every await, a clock that passes the skew of the checkpoint |
| `async_browser_trust` | violation | an edit after the call decides the verdict of the browser build |
| `policy_replay` | 77,439 | the archives of 28 receipts, complete, incomplete and wrong, with one artifact replaced at the start and one more change of a file at any step; clock 2 to 3 |
| `policy_replay_raises` | violation | an artifact ends the command without a report |
| `seal_profile` | 69,390 | receipts with up to two faults and records of each kind, changed during the await; every JSON text of two levels with up to three names an object; 2,358 spellings of numbers |
| `assessments` | 3,190,216 | honest records of six editions over five sources and those one deviation away, which are signed so, were signed before or are signed by another key, with two edits of the envelope or the snapshots |
| `assessments_policy` | violation | the edition applied is not the one that was signed |
| `mutation_gate` | 78,068 | the gate called through `main` and directly, three commits, tools that die, an interrupt or kill at any step |

Properties, beside a type invariant where a module has one:

- `KeysAreUnambiguous`, `LoadsExactlyValidDocuments` (KeyDocument): no kid means
  two keys and no key has two windows, though only texts are compared.
  `LoadsTheDocumentOfTheCall`, `ReasonIsPythons` (TsKeyLoading): neither the
  concurrent entries nor the caller's changes make TypeScript load anything else, and
  Node gives Python's reason, the browser too unless that is a fingerprint.
- `Accounting`: every non-blank line that was read is counted once, as ok, failed
  or skipped, `total` is what was not skipped, and `chain` and `verified_by_id`
  hold one element for each receipt counted as ok.
- `VerifiedStaysVerified`: a receipt that was reported OK verifies at every
  later step, however far the clock has moved; `FirstLineWins`: no later line
  replaces it in the index the evidence is verified from.
- `ExitStatusIsMerited`: `Good(call, t)` says without loops, counters or order
  that all the files of a call are good at instant `t`: every line decodes, every
  receipt in scope verifies under an id of its own, a scoped chain has its one
  grant and at most one revocation, all evidence is recomputed, and there is
  something to verify. The command exits with 0 only if the files are good when it
  ends, does exit with 0 if they were good when it started, and exits with 2
  exactly on a usage error. (Between the two instants a receipt of the near future
  may become acceptable, so either answer is right.)
- `LinkedDaysAreDisjoint`: in evidence that was accepted, the checkpoints that a
  checkpoint names, directly or through others, cover strictly earlier days, and
  no receipt is committed twice along such a path.
- `CommitmentIsExact`: the root of an accepted checkpoint is reproduced by the
  receipts its entry names and by no other set of the receipts verified in that
  run.
- `SameAcceptance`, `PythonFollowsTheFormat`: acceptance does not depend on the
  order of checks, nor on the language.
- `TreesAreSound`: the walk visits at most one node more than the limit, accepts
  exactly the small trees (stated over the unfolding of the graph, without a walk),
  and both languages accept the same payloads, but for `1.0`, which only Python can
  tell from `1`. `TextIsOfTheValue`: two payloads have one canonical text exactly
  when they are the same value, whichever language wrote it.
- `KeepsPromise`: the asynchronous verifier implements Python's synchronous one, except
  that it may refuse a checkpoint at the call for shared key bytes or a long list.
- `VerdictIsOfOneInstant`: the result of `verifySeal` is that of `_verify_seal` for
  the receipt of the call and one record the caller held meanwhile, never a mixture.
  `ResultFollowsTheFormat`: what Appendix B says of receipt and record, without an
  order of checks.
- `ScannersFollowTheParser`: outside the grammar's knowledge, the bracket counter
  has the parser's depth and the name scan the parser's names at every character, and
  all readers find the same repeated names and excessive depths. `NumbersAreSound`:
  an accepted number is hashed as written, in whichever spelling, and the readers
  accept the same ones.
- `MatchIsEarned`: a match depends on the receipt alone. `Reproduces(p)` says of
  the payload, without files, clock or order of checks, that its engine, edition
  and input are sound and evaluate to its result; a match implies that, and that
  the receipt is authentic, whatever the files were meanwhile.
- `MismatchIsReal`: a mismatch can be shown, as content that differs from the
  committed one or a receipt that does not reproduce; a lost file, a timeout or a
  process that fails never is one. `FaithfulArchiveMatches` is the converse of
  `MatchIsEarned` for an undisturbed complete archive.
- `AuthenticatedFirst`: no artifact is opened before the receipt is authentic, and
  the second verification by `replay_policy`, at a later instant, never takes that
  back. After the first read only the two exceptions of finding (3) end with status 1.
- `OnlyPinnedCodeRuns`: what is executed was compared with the pins and not
  replaced since.
- `AcceptedIsSigned`: an accepted assessment is the record that a trusted key signed,
  whatever the caller does to its snapshots, if the envelope held it still (or again) when
  its signature was verified. Without this condition it does not hold of Node (see below).
- `FactsRestOnTheSource`: an accepted fact was quoted exactly from a source its
  edition names, with all its sources captured and mapped. `ResultIsDerived`: missing
  evidence gives no result, a derived field is a conjunction of facts and never of
  derived fields, the status is that of a decision of the policy.
  `CommittedSourceIsCited`: the evidence was found in the source that was signed. The
  last is said of records whose request commits to the source they name: of a record
  signed against itself (as in the vector
  `wrong_source_hash_with_consistent_request`, `assessment/generate_vectors.py:104`)
  Node may be shown each of the two sources at its own check.
- `PassIsEarned`: a gate that passes has decided, fresh results for every language
  it set out to test. `CheckoutIsNeverInstrumented`: called through `main` it never
  leaves a rewritten source in the checkout.
- Liveness: `Terminates` (both commands), `Settles` (asynchronous verification, key
  loading), `EndsCleanly` (the mutation gate).

**Why the bounds are enough.** A line of an export interacts with another
through the receipt id, the counters and the one grant of a chain: three lines
reach every pair of them with a third beside it. Three evidence entries make a
link, a fork and a link of a link; checkpoints of none, one and three members
make the empty tree, the single leaf and an odd level, which the code pads with
its last hash. Two faults in a receipt are needed, and
enough, to tell in which order two checks are made. Two keys with touching windows make a rotation; a twin
of the second puts two entries under one kid, in either order; the
skew of one tick and a clock that crosses it make both sides of the boundary.
Three key entries make two digests that complete out of order beside an entry that
is refused at once. `MaxListNodes` is 9: a list of two members is exactly at the limit, and
one of three is over it. In the replay each artifact is read once, so one change after
the start is enough to make every read see another file than the checks before it.
The walks of CanonicalTree compare a depth and a count with their limits; three
levels and five nodes put payloads of three nodes below, at and above both, with sharing that makes
few nodes many, and cycles. A text of two levels returns from an inner object to
the names of the outer one, and a third name can repeat the first over a second; the scanners' states are a
few flags and a stack, so longer strings repeat them. In four-bit floating point
every rounding case of binary64 occurs (exact, halfway, subnormal, overflow, the
largest safe integer), with decimal digits enough for all of them. One deviation of an
assessment is enough to break each check once, and a quote that is not in its source is
tried with one value of each type, as it is refused whatever the value; two edits let the caller change a
snapshot and restore it, which is what a value read twice needs, or the envelope and a
snapshot. Three commits let
the checkout move between two reads of it. Where a property is proved as
well, the theorem has no bounds.

**Fairness.** `VerifierCli`, `PolicyReplay` and `MutationGate` assume weak fairness
of the command's own step: each is one process that is scheduled, reads finite
files, and bounds its subprocesses (`policy.py` passes a timeout to each; the mutation
tools bound the time of every mutant); nothing is assumed of the clock, other
processes or the developer. A timeout is one of the outcomes of `Fail`.
`AsyncVerification` and `TsKeyLoading` assume weak fairness of resuming after an
await: the awaited promises are of WebCrypto and of the module itself, and the event
loop runs what is due; nothing is assumed of the caller or the clock.

`CHECK_DEADLOCK FALSE` is given because all of these programs end.

**Findings.** The four violation runs show: (1) `--authorization-id ""` is a
scope for the loop and no scope for the option check (`verifier.py:1149`); (2) the
browser build reads the pinned fingerprints after an await; (3) a symbolic-link
loop for the OPA binary (before Python 3.13) and a deeply nested bundle manifest
raise exceptions that `replay_policy` does not catch, where `not_checked` is
specified; (4) `assessment/verify.mjs` digests the caller's policy definition, awaits, and
applies what the caller has made of it. None makes a verifier accept a receipt whose
signature it has not checked.

Observed while translating the code, without a run of their own:

- `assessment/verify.mjs` decodes the payload at the call (line 82), awaits the import of the
  key (line 94) and takes the signed bytes from the caller's envelope after that (line 95). A
  caller that puts another text into its envelope meanwhile is handed a record that the
  verified signature does not cover, although "only the signed JWS is authority"
  (`spec/profiles/allowly-assessment-v1.md:34`). The model has these steps (`NodeCall`,
  `NodeSignature`, `Edit`), and `AcceptedIsSigned` is the promise that remains.
- `verifyCheckpoint` takes its snapshot of the members under the limit of 50,000 nodes that
  `spec/receipt-format.md:342` sets for a payload (`verifier.ts:1093`): with four nodes an
  envelope, a day of more than 12,499 receipts is rejected before anything is verified, where
  `verify_checkpoint` of Python has no limit. The model rejects it too (`Refusal`), and
  `KeepsPromise` makes the exception.
- Python compares the workspace before it checks the schema, TypeScript after, so
  that the reasons of a receipt with both faults differ (`CONTRIBUTING.md:26` asks
  for the same reasons).
- Both check a key's active window before the pinned fingerprints, against the
  order of step 7 in `spec/receipt-format.md`.
- `browser/sealJson.ts:34` refuses exponents of more than six digits, which
  `spec/receipt-format.md` (Appendix B.1) does not; `NumbersAreSound` claims agreement
  of the browser below that length only.
- `assessment/evidence.mjs:103` refuses the input descriptions that
  `evidence.py:169` accepts.
- `mutation_gate.py` looks for `.venv/bin/mutmut` relative to the clone it has
  changed to, where it cannot exist (lines 61, 67), and reads HEAD once for the
  diff (line 174) and once more by cloning (line 189): a commit between the two is
  cloned, while the languages to test were chosen before it.

## 4. Proofs

| Theorem | Module | Property |
|---|---|---|
| `TypeCorrect`, `AcceptsExactlyValid`, `Unambiguous` | KeyDocumentProofs | `TypeOK`, `LoadsExactlyValidDocuments`, `KeysAreUnambiguous` |
| `SameDocumentsLoaded`, `SameReasonGiven` | KeyDocumentProofs | `LoadsTheDocumentOfTheCall`, `ReasonIsPythons` |
| `CliTypeCorrect`, `CountsAreRight`, `VerifiedForGood`, `FirstReceiptStays` | VerifierCliProofs | `TypeOK`, `Accounting`, `VerifiedStaysVerified`, `FirstLineWins` |
| `StatusIsMerited`, `LinkedDays`, `CommitmentsAreExact` | VerifierCliProofs | `ExitStatusIsMerited`, `LinkedDaysAreDisjoint`, `CommitmentIsExact` |
| `BothAcceptTheSame`, `PythonAcceptsTheValid` | TypeScriptProofs | `SameAcceptance`, `PythonFollowsTheFormat` |
| `TreesAreSoundAlways`, `TextIsOfTheValueAlways` | TypeScriptProofs | `TreesAreSound`, `TextIsOfTheValue` |
| `AsyncTypeCorrect`, `PromiseIsKept` | TypeScriptProofs | `TypeOK`, `KeepsPromise` |
| `ReplayTypeCorrect`, `AuthenticFirst`, `PinnedCodeOnly`, `MatchesAreEarned` | PolicyReplayProofs | `TypeOK`, `AuthenticatedFirst`, `OnlyPinnedCodeRuns`, `MatchIsEarned` |
| `MismatchesAreReal`, `FaithfulArchivesMatch` | PolicyReplayProofs | `MismatchIsReal`, `FaithfulArchiveMatches` |
| `SealTypeCorrect`, `SealVerdictIsOfOneInstant`, `SealFollowsTheFormat`, `ReadersAgreeOnText` | SealProfileProofs | `TypeOK`, `VerdictIsOfOneInstant`, `ResultFollowsTheFormat`, `ScannersFollowTheParser` |
| `SignedIsAccepted`, `FactsRest`, `SourceIsCited`, `ResultsAreDerived` | AssessmentsProofs | `AcceptedIsSigned`, `FactsRestOnTheSource`, `CommittedSourceIsCited`, `ResultIsDerived` |
| `CheckoutIsLeftAlone`, `PassesAreEarned` | MutationGateProofs | `CheckoutIsNeverInstrumented`, `PassIsEarned` |

They hold for documents and exports of every length, payloads of every shape, every set of invocations,
archives, receipts, records and editions, texts of every depth, every history of
commits, every number of changes to files, documents, snapshots and objects, and every
clock. What they assume of the constants is named in the modules, and TLC evaluates it:

- that instants, lengths and flags are numbers, sequences and Booleans
  (`DayAssumption`, `SkewAssumption`, the clock assumptions, `ListAssumption`, `ReceiptsAssumption`,
  `RequirementAssumption`, `ContentAssumption`, `ScannerAssumption`,
  `DocumentsAssumption`, `BuildsAssumption`, `FilesAssumption`);
- that inputs are of the data model at the head of ReceiptRules (`InputsAssumption`,
  `ObjectsAssumption`, `InvocationsAssumption`; `EvidenceAssumption` within the last
  says that a value that cannot be hashed is not a hexadecimal digest either);
- that a payload has a root, that its nodes lead to nodes of its own, that scalars have
  nothing below, and that the members of an object have different names
  (`PayloadsAssumption`); nothing excludes sharing or cycles. Names are sequences of
  Unicode scalar values: a node with a lone surrogate in a name is one of kind
  `surrogate`, which both languages refuse. No name and no scalar is a structural token,
  which is what the quotes and escapes of `_encode_string` are for;
- that leaf hashes are ordered, and that different receipts of an export have different
  ones (`HashAssumption`: SHA-256 is collision free here);
- that the path of an official OPA binary is no symbolic-link loop
  (`BinaryAssumption`): this is the name of the model for the binary that raises.

`PromiseIsKept` has a hypothesis of its own, `PinsAreFixed`: in the build for browsers
the caller leaves the set of pinned fingerprints alone. The code needs it: without
it the run `async_browser_trust` breaks the promise (finding 2). Nothing is asked of
the caller in Node, or of any other object. What is promised is `Outcome`, with its two
exceptions: a list above `MaxListNodes`, for instance, is rejected whatever Python says of it.
`AcceptedIsSigned` has its condition in the property: the envelope holds the decoded record
when the signature is verified.

The arguments:

- *KeyDocument*: the invariant `LoadInv` says that the entries before `position` have
  been accepted, that `seen_ids` and `seen_pubs` are exactly their texts and `out`
  exactly their keys. At the end that is validity of the whole document; keys
  with distinct texts have distinct bytes because only canonical texts decode.
- *TsKeyLoading*: `CallInv` relates every promise to what Python says of that entry.
  The fingerprint is the last check of an entry (`FingerprintIsLast`), so that the
  sets an entry meets are those of the entries before it, whatever becomes of their
  digests. An entry that Python refused settles as a rejection, one that it passed
  as the same key; so the answer is Python's however the digests are ordered. In Node the
  first rejection is the only one, which gives the reason.
- *VerifierCli*: `CliInv` relates the counters to the number of lines that
  were not blank among those read (`OneMoreLine`), and says that each receipt in
  the index was accepted at an instant not later than the clock. Acceptance is
  monotone in the clock (`AcceptedLater`, from ReceiptRulesProofs: only the check
  for the future reads it), which turns "was accepted" into "is accepted".
  `StatusInv` adds what the two loops know: the lines read so far are good at this
  instant if nothing has failed (`LinesInv`), so are the evidence entries of both passes
  (`EvidenceInv`), and conversely nothing fails where all was good at the start.
  Acceptance of a checkpoint is monotone as well (`CheckpointAcceptedLater`). A
  chain of accepted links then has periods that end before the next begins.
- *Checkpoints*: a root is reproduced by one set of receipts only (`RootCommits`, in
  VerifierCliProofs). Sorted by rank, members without repetition have the same
  leaves in whichever order they come (`LeavesOfTheSet`). A level without repetition
  is determined by the next one, although an odd level is padded, since the
  padding repeats a hash (`NextLevelInjective`); so two trees of one root have the same
  levels from the root down, and the same height, since a leaf is not a node
  (`RootDeterminesLeaves`). Repeated leaves would break this: three leaves have the root
  of the same three with the last one twice. `CheckMembers` and the unique ids of an
  entry exclude them.
- *VerifierParity*: each verifier is shown to accept exactly when a conjunction
  without order holds (`VerifyAccepts` for Python), check by check; the
  conjunctions are the same, and are `IsValid`. `ParityInv` says only that the answers
  are those of the one input.
- *CanonicalTree* (in TypeScriptProofs): what a stack still stands for has to be counted
  although the payload may contain itself. `WeightsExist` gives every node, at every
  depth, a weight: what it and all that is below it in the unfolding count, down to one
  level below the limit, where the walk stops. By `WeightOfRoot` the root weighs what
  the levels hold. `IsBalanced`, the heart of the invariant `IsWalk`, says that the nodes
  visited and the weight of the stack make up the weight of the root: a visit takes one
  entry off and pushes those below, whose order makes no difference to a sum
  (`TotalOfPermuted`; a sum is the size of a set). So an empty stack has visited the
  whole tree, and a count above the limit cannot be that of a small one (`TooMany`). With
  defects in the place of nodes the same balance says that an accepted tree has none,
  and that a refused one has the defect it was refused for (`IsReached`). For
  `SameReason` both walks are shown to run along one sequence of states (`IsTrace`), if
  JavaScript moves no name: `FollowsTrace` is the inductive part, and two walks that
  ended on one trace ended alike (`OneVerdict`).
  `TextIsOfTheValue` compares texts of two nodes whose unfoldings end within the limit, so
  the induction is over levels, from the deepest one up (`RootsTell`): on each level
  the texts of two nodes are equal exactly when the nodes are the same value, and neither
  text goes on where the other ends (`Tells`). The second half is what makes a step go
  through: the items of a list are told apart only if none begins another (`ListedTells`,
  `ChainsTell`), also where one list is longer. For objects both languages have to
  arrive at one order. Code units are a code in which no character begins another
  (`CodeUnitsTell`), so names are totally ordered by them (`NamesAreOrdered`); pairs
  of bytes, high byte first, are in the order of the units (`BytesKeepOrder`); and the place
  of a name depends only on the names that are before it (`SortedAlike`), so equal
  objects are written alike whatever the order in which their members were set.
- *AsyncVerification*: `PromiseInv` says how far the call has come: its list fits and its
  keys are copies (`RefusalIs`), the turns
  before the one awaited are done, and the verdict of the synchronous verifier at
  this instant depends only on what is left. At an answer nothing is left, so it is
  that verdict, now; an edit changes `given`, which is not read again but for the
  pinned fingerprints in the browser. Each action maps to `Request`, `Answer`,
  `ClockTicks` or a stutter of VerificationRequest.
- *PolicyReplay*: `ReplayInv` says, for each `pc`, what has been compared with
  the receipt so far. None of it mentions `disk`: it is about what was kept and
  copied, so a change of a file disturbs nothing. A property such as `MatchIsEarned`
  is not inductive alone because the comparisons that earn a match are spread over
  seven steps. That the receipt is still authentic at a later instant is
  `AcceptedLater` again. `ReadsInv` adds, while nothing has changed, that what was kept
  is what the disk holds, from which an undisturbed complete archive passes
  every comparison, and that a mismatch has its witness at hand.
- *SealProfile*: `CallInv` ties the live objects to those of the call: the copied
  receipt is that of the call, and the record of the moment is one of those held. The
  ordered checks then give the format's conjunction (`VerdictFollowsTheFormat`).
- *SealScanner*: `ScannerInv` carries, beside the property, the scan's stack as the
  image of the parser's, the token being scanned as one that reads as the parser's
  `text`, and the bounds of both. That a token reads the same in both ways is an
  induction along the token, over the function that `ReadToken` is defined by.
- *Assessments*: `HoldsUp(used)` says that the snapshots that were applied hold up
  the record. It mentions the record and not the caller's snapshots, so that no edit
  disturbs it; the properties follow from it at acceptance. They are not
  inductive themselves, since they say nothing of the steps before. `SignatureInv` says
  what `AcceptedIsSigned` says of every step after the verification of the signature, none of which
  looks at the envelope again.
- *MutationGate*: `CheckoutInv` says that through `main` a tool only runs in the
  clone; `PassInv` that a tool's old results are gone from its start on, and that
  Python has earned its pass before TypeScript starts.
- *ReceiptRulesProofs* has the lemmas about `++` and about the checks.

Induction over a number is done with `NumberInduction` (`SetInduction` in
SealProfileProofs): a set that has 0 and, with `i`, also `i + 1` has all numbers, which
follows from the well-foundedness of `<` in the library without a parameter that is an
operator.

**Model-checked only.** Liveness (`Terminates`, `Settles`, `EndsCleanly`), which needs
fairness and ENABLED and is out of the prover's reach. `NumbersAreSound`, which is about
one concrete floating point format and its decimal spellings: the theorem for every
precision would be one of numerical analysis.

## 5. Not modelled

Cryptography (a signature is the key it verifies under, a hash the term it was
computed from), the wording of messages, gzip and file input beyond "read,
rejected with a report, or raising", the CLI's printing, and how JSON libraries
spell strings and integers. Whole parts: pseudonym references (`matches_ref` is one
HMAC of length-prefixed fields, without order or state); the generators of vectors
and the key rotation of an issuer (scripts that run once; what they produce, receipts
on both sides of a rotation included, is the input of the runs); the browser
build's text transform, of which the result is modelled; the release workflows, whose
steps are a hosted service's and whose hazards lie in registries of which the repository
says nothing; test vectors and QA records, which are data.
