------------------------- MODULE SealVerification --------------------------
(***************************************************************************)
(* Verification of a SEAL, a receipt that commits to the hash of a JSON    *)
(* record: _verify_seal of seal.py, which runs without interruption, and   *)
(* verifySeal of verifier.ts, which awaits the verification of the receipt *)
(* and hashes the caller's record only after that.                         *)
(*                                                                         *)
(* A receipt is [verifies, action, decision, agent_id, user_id, profile,   *)
(* record_sha256]: verifies is the answer of verify_receipt, modelled in   *)
(* ReceiptRules and AsyncVerification.  A record is [kind, value, faults]: *)
(* raw JSON in a text (an immutable string) or in bytes, or a parsed       *)
(* value; the faults are what makes it unacceptable.  The hash of a value  *)
(* is the value.                                                           *)
(***************************************************************************)
EXTENDS Naturals, Sequences, FiniteSets

CONSTANTS
  Receipts,      \* the receipts a caller may pass
  Records,       \* the records a caller may pass, or put in the place of one
  MaxHeld        \* bounds the search: the different records held during a call

VARIABLES
  language,      \* whose verifier runs
  given,         \* the caller's objects, now: [workspace, receipt, record]
  called,        \* history: the objects at the call, in a set of at most one
  held,          \* history: the records the caller has held since the call
  own,           \* the receipt verifyReceipt has copied, in a set of at most one
  result         \* what was returned, in a set of at most one

vars == << language, given, called, held, own, result >>

Inputs == [workspace: BOOLEAN, receipt: Receipts, record: Records]

-----------------------------------------------------------------------------
(* Hashing a record. *)

Unacceptable == "unacceptable"
Malformed    == "malformed"

\* What only the text of a record shows; parsing erases it.
TextFaults ==
  {"encoding", "size", "syntax", "duplicate_name", "duplicate_member", "number_token"}

\* What the walk over the parsed value and the canonical form show.
TreeFaults ==
  {"depth", "surrogate", "nonfinite", "unsafe_integer", "unsupported", "canonical_size"}

\* _decode_raw_json, the size, json.loads with _unique_object and the number hooks.
PyTextFaults == TextFaults

\* lossless-json would let such a member pass: namespaceObjectKeysForValidation
\* has looked for repeated names before.
TsTextFaults ==
  {"encoding", "size", "syntax", "number_token"} \cup {"duplicate_name", "duplicate_member"}

Digest(record, textFaults) ==
  LET sought == TreeFaults \cup (IF record.kind = "value" THEN {} ELSE textFaults)
  IN IF record.faults \cap sought = {} THEN record.value ELSE Unacceptable

PyRecordDigest(record) == Digest(record, PyTextFaults)
TsRecordDigest(record) == Digest(record, TsTextFaults)

-----------------------------------------------------------------------------
(* The checks, in their order. *)

Answer(signature, reason) ==
  [ signature |-> signature, matches |-> reason = "none", reason |-> reason ]

NotVerified == Answer(FALSE, "receipt_verification_failed")

\* Mutant: the digest alone decides.
CompareDigests(receipt, digest) ==
  Answer(TRUE, IF digest = receipt.record_sha256 THEN "none" ELSE "record_mismatch")

Compare(receipt, digest) ==
  Answer(TRUE,
    IF ~(receipt.action = "record.seal" /\ receipt.decision = "allow") THEN "not_seal_receipt"
    ELSE IF ~(receipt.agent_id = "allowly.seal" /\ receipt.user_id = "allowly:seal")
         THEN "seal_identity_mismatch"
    ELSE IF receipt.profile # "allowly.seal.jcs-sha256.v1" THEN "seal_profile_mismatch"
    ELSE IF receipt.record_sha256 = Malformed THEN "invalid_record_digest"
    ELSE IF digest = Unacceptable THEN "invalid_record"
    ELSE IF digest # receipt.record_sha256 THEN "record_mismatch"
    ELSE "none")

\* The whole of _verify_seal.
VerifySeal(o) ==
  IF o.workspace /\ o.receipt.verifies
  THEN Compare(o.receipt, PyRecordDigest(o.record))
  ELSE NotVerified

-----------------------------------------------------------------------------
Init ==
  /\ language \in {"python", "typescript"}
  /\ given \in Inputs
  /\ called = {}
  /\ held = {}
  /\ own = {}
  /\ result = {}

Called ==
  /\ called = {}
  /\ called' = {given}
  /\ held' = {given.record}
  /\ UNCHANGED << language, given >>

CallPython ==
  /\ language = "python"
  /\ Called
  /\ result' = {VerifySeal(given)}
  /\ UNCHANGED own

\* Mutant: the receipt is verified but its copy is not what is kept.
CallTypeScriptWhole ==
  /\ language = "typescript"
  /\ Called
  /\ own' = {given}
  /\ UNCHANGED result

\* Up to the await: verifyReceipt has decoded a copy of the receipt.
CallTypeScript ==
  /\ language = "typescript"
  /\ Called
  /\ IF given.workspace
     THEN own' = {given.receipt} /\ UNCHANGED result
     ELSE result' = {NotVerified} /\ UNCHANGED own

\* Mutant: the receipt is read again where the caller left it.
ReceiptAfterAwaitLive == given.receipt

\* What verifyReceipt resolves to.
ReceiptAfterAwait == CHOOSE receipt \in own : TRUE

\* The await ends; the rest runs at once, on the record as it is now.
ReceiptReady ==
  /\ own # {} /\ result = {}
  /\ result' = {IF ReceiptAfterAwait.verifies
                THEN Compare(ReceiptAfterAwait, TsRecordDigest(given.record))
                ELSE NotVerified}
  /\ UNCHANGED << language, given, called, held, own >>

\* The caller runs during the await.  A string does not change.
Edit ==
  /\ own # {} /\ result = {}
  /\ \E receipt \in Receipts, record \in Records :
       /\ record.kind = given.record.kind
       /\ record.kind = "text" => record = given.record
       /\ given' = [given EXCEPT !.receipt = receipt, !.record = record]
       /\ held' = held \cup {record}
       /\ Cardinality(held') <= MaxHeld
  /\ UNCHANGED << language, called, own, result >>

Next == CallPython \/ CallTypeScript \/ ReceiptReady \/ Edit

Spec == Init /\ [][Next]_vars

-----------------------------------------------------------------------------
Reasons ==
  {"none", "receipt_verification_failed", "not_seal_receipt", "seal_identity_mismatch",
   "seal_profile_mismatch", "invalid_record_digest", "invalid_record", "record_mismatch"}

Results == [signature: BOOLEAN, matches: BOOLEAN, reason: Reasons]

\* Which kind of value each variable holds; at most one call and one result.
TypeOK ==
  /\ language \in {"python", "typescript"}
  /\ given \in Inputs
  /\ called = {} \/ \E o \in Inputs : called = {o}
  /\ held \subseteq Records
  /\ own = {} \/ \E receipt \in Receipts : own = {receipt}
  /\ result = {} \/ \E r \in Results : result = {r}

\* Whatever the caller does meanwhile, the result is what _verify_seal of
\* seal.py returns for the receipt of the call and one record that the caller
\* held between call and answer: never for a mixture.
VerdictIsOfOneInstant ==
  \A r \in result, o \in called :
    \E record \in held : r = VerifySeal([o EXCEPT !.record = record])

\* What Appendix B of the format calls a SEAL of a record, without an order.
IsSealOf(receipt, record) ==
  /\ receipt.verifies
  /\ << receipt.action, receipt.decision >> = << "record.seal", "allow" >>
  /\ << receipt.agent_id, receipt.user_id >> = << "allowly.seal", "allowly:seal" >>
  /\ receipt.profile = "allowly.seal.jcs-sha256.v1"
  /\ record.kind # "value" => record.faults \cap TextFaults = {}
  /\ record.faults \cap TreeFaults = {}
  /\ record.value = receipt.record_sha256

\* The result keeps the signature apart from the match (B.3), a match was one at
\* some instant of the call, and a SEAL of every record held is found to match.
ResultFollowsTheFormat ==
  \A r \in result, o \in called :
    LET sealOf(record) == o.workspace /\ IsSealOf(o.receipt, record)
    IN /\ r.signature <=> o.workspace /\ o.receipt.verifies
       /\ r.matches <=> r.reason = "none"
       /\ r.matches => \E record \in held : sealOf(record)
       /\ (\A record \in held : sealOf(record)) => r.matches
=============================================================================
