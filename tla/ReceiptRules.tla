--------------------------- MODULE ReceiptRules ---------------------------
(***************************************************************************)
(* The rules of verifiers/python/.../verifier.py that decide one receipt:  *)
(* decode_receipt, verify_receipt and the checks they call, as operators.  *)
(* A check returns Accepted or the label of the rejection it raises; the   *)
(* order of the code is kept, and ++ below is "and then".                  *)
(*                                                                         *)
(* Data.  A receipt is a record                                            *)
(*   jws     the set of structural defects of the flattened JWS, from      *)
(*           JwsOrder (empty: protected, payload, signature all decode);   *)
(*   kid     the protected header's kid;                                   *)
(*   signer  the public key under which the signature verifies over the    *)
(*           exact segments, or NoSigner: Ed25519 is a function of them;   *)
(*   payload the decoded evidence, whose own shape defects are in          *)
(*           payload.defects and whose timestamps are numbers of ticks,    *)
(*           or Unparseable.                                               *)
(* A published key is [key_id, defects, bytes, active_from, active_until]; *)
(* an optional timestamp (null in the code) is a set of at most one number.*)
(***************************************************************************)
EXTENDS Integers, Sequences, FiniteSets

CONSTANTS
  Day,   \* ticks in timedelta(days=1)
  Skew   \* ticks in MAX_FUTURE_SKEW

ASSUME DayAssumption  == Day \in Nat \ {0}
ASSUME SkewAssumption == Skew \in Nat

Accepted    == "accepted"
Null        == "null"          \* JSON null, Python None
Absent      == "absent"        \* a member the object does not have
NotString   == "not_a_string"  \* an action or event of another JSON type
NoRoot      == << >>           \* a null previous_merkle_root
NoSigner    == "no_signer"
Unparseable == -1              \* a string _parse_rfc3339 rejects
SpecVersion == "5"

ActionDecisions == {"allow", "deny", "confirm", "escalate"}

EventDecisions ==
  [ authorization_create |-> {"authorization_granted"},
    authorization_revoke |-> {"authorization_revoked"},
    budget_settle        |-> {"budget_settled"},
    confirmation_resolve |-> {"confirmation_approved", "confirmation_rejected"},
    escalation_resolve   |-> {"escalation_approved", "escalation_rejected"},
    receipt_checkpoint   |-> {"receipt_set_committed"} ]

Events             == DOMAIN EventDecisions
LifecycleEvents    == {"authorization_create", "authorization_revoke"}
EventOnlyDecisions == UNION {EventDecisions[e] : e \in Events}

(***************************************************************************)
(* A check returns Accepted or what it rejects.  a ++ b runs a and then,   *)
(* unless a has rejected, b.                                               *)
(***************************************************************************)
a ++ b == IF a = Accepted THEN b ELSE a

Require(condition, rejection) == IF condition THEN Accepted ELSE rejection

\* A loop that runs one check per element and stops at the first rejection.
FirstRejection(checks) ==
  IF \A i \in DOMAIN checks : checks[i] = Accepted
  THEN Accepted
  ELSE checks[CHOOSE i \in DOMAIN checks :
                /\ checks[i] # Accepted
                /\ \A j \in DOMAIN checks : j < i => checks[j] = Accepted]

\* The first defect of a set in the order in which the code looks for them.
FirstDefect(order, defects) ==
  FirstRejection([i \in DOMAIN order |->
    IF order[i] \in defects THEN order[i] ELSE Accepted])

-----------------------------------------------------------------------------
(* _jws_parts: the envelope and its two JSON segments. *)

JwsOrder ==
  << "not_object", "wrong_members", "not_strings", "too_large",
     "header_undecodable", "payload_undecodable", "signature_undecodable",
     "header_members", "alg_or_typ", "kid", "signature_length",
     "payload_not_object", "header_tree", "payload_tree" >>

JwsParts(r) == FirstDefect(JwsOrder, r.jws)

CheckVersion(p) == Require(p.schema_version = SpecVersion, "schema_version")

-----------------------------------------------------------------------------
(* _check_schema and the shapes of policy_ref and policy_eval. *)

SchemaOrder ==
  << "unknown_fields", "missing_fields", "string_field", "nullable_string_field",
     "context_type", "policy_ref_shape", "engine_version" >>

\* Whom a result is addressed to; a member: id of legal length is one value.
ResultTarget(decision) ==
  CASE decision = "confirm"  -> "agent_owner"
    [] decision = "escalate" -> "member"
    [] OTHER                 -> Null

\* _check_policy_result: the provisional result of the replayed policy.
CheckPolicyResult(v) ==
  Require("result_members" \notin v.defects, "result_members")
  ++ Require("result_profile" \notin v.defects, "result_profile")
  ++ Require(v.decision \in ActionDecisions, "result_decision")
  ++ Require(v.target = ResultTarget(v.decision), "result_target")
  ++ Require("result_rule" \notin v.defects, "result_rule")
  ++ Require("result_fields" \notin v.defects, "result_fields")
  ++ Require(v.rule = Null => v.fields = {}, "result_fields_without_rule")

\* _check_policy_eval, with the last lines of _check_schema: a receipt that
\* carries an evaluation names the policy edition that was evaluated.
CheckPolicyEval(p) ==
  IF p.policy_eval = Absent
  THEN Accepted
  ELSE Require("policy_eval_shape" \notin p.defects, "policy_eval_shape")
       ++ CheckPolicyResult(p.policy_result)
       ++ Require(p.policy_ref # Null, "policy_eval_without_ref")

CheckSchema(p) ==
  FirstDefect(SchemaOrder, p.defects)
  ++ CheckPolicyEval(p)

\* decode_receipt: strict decoding without verification.
DecodeReceipt(r) ==
  JwsParts(r)
  ++ CheckVersion(r.payload)
  ++ CheckSchema(r.payload)

-----------------------------------------------------------------------------
(* Receipt kind and pairing. *)

IsEvent(p)      == p.event # Absent
IsCheckpoint(p) == p.event = "receipt_checkpoint"

CheckKind(p) ==
  Require(p.action = Absent \/ p.event = Absent, "both_kinds")
  ++ Require(p.action # Absent \/ p.event # Absent, "no_kind")

\* _check_checkpoint_context: one UTC day, committed after it has ended.
CheckCheckpointContext(c, issued_at) ==
  Require("context_members" \notin c.defects, "context_members")
  ++ Require(c.period_start # Unparseable, "period_start")
  ++ Require(c.period_end # Unparseable, "period_end")
  ++ Require(issued_at # Unparseable, "issued_at")
  ++ Require(c.period_end > c.period_start, "period_order")
  ++ Require(c.period_start % Day = 0 /\ c.period_end = c.period_start + Day,
             "period_not_a_day")
  ++ Require(issued_at >= c.period_end, "checkpoint_before_period_end")
  ++ Require("receipt_count" \notin c.defects, "receipt_count")
  ++ Require("merkle_root" \notin c.defects, "merkle_root")
  ++ Require((c.previous_id = Null) = (c.previous_root = NoRoot), "previous_pair")
  ++ Require("previous_id" \notin c.defects, "previous_id")
  ++ Require("previous_root" \notin c.defects, "previous_root")

\* What an event is about: a checkpoint stands outside every authorization.
CheckSubject(p) ==
  IF IsCheckpoint(p)
  THEN Require(p.authorization_id = Null, "checkpoint_authorization")
       ++ Require(p.resource = Null, "checkpoint_resource")
       ++ CheckCheckpointContext(p.context, p.issued_at)
  ELSE Require(p.authorization_id # Null, "event_authorization")

CheckEvent(p) ==
  Require(p.event # NotString, "event_type")
  ++ Require(p.event \in Events, "unknown_event")
  ++ Require(p.decision \in EventDecisions[p.event], "event_decision")
  ++ CheckSubject(p)
  ++ Require(p.event \in LifecycleEvents => p.resource = Null, "lifecycle_resource")
  ++ Require(p.policy_eval = Absent, "event_policy_eval")

CheckAction(p) ==
  Require(p.action # NotString, "action_type")
  ++ Require(p.decision \notin EventOnlyDecisions, "event_only_decision")
  ++ Require(p.decision \in ActionDecisions, "action_decision")

\* Which receipts name a policy edition.
CheckPolicyPairing(p) ==
  IF IsEvent(p)
  THEN IF IsCheckpoint(p)
       THEN Require(p.policy_ref = Null, "checkpoint_policy_ref")
       ELSE Require(p.policy_ref # Null, "event_policy_ref")
  ELSE IF p.authorization_id = Null
       THEN Require(p.policy_ref = Null, "unresolved_policy_ref")
       ELSE Require(p.policy_ref # Null \/ p.action = "record_seal",
                    "governed_policy_ref")

CheckPairing(p) ==
  CheckKind(p)
  ++ (IF IsEvent(p) THEN CheckEvent(p) ELSE CheckAction(p))
  ++ CheckPolicyPairing(p)

CheckIssuedAt(p, now) ==
  Require(p.issued_at # Unparseable, "issued_at")
  ++ Require(p.issued_at <= now + Skew, "issued_in_future")

-----------------------------------------------------------------------------
(* _find_key: the first entry with the header's kid is the only candidate; *)
(* an entry before it that is no PublicKey at all ends the search.         *)

KeyOrder == << "not_a_key", "bytes_type", "key_alg", "key_length",
               "active_from", "active_until" >>

StopsSearch(key, kid) == "not_a_key" \in key.defects \/ key.key_id = kid

Candidate(keys, kid) ==
  CHOOSE i \in DOMAIN keys :
    /\ StopsSearch(keys[i], kid)
    /\ \A j \in DOMAIN keys : StopsSearch(keys[j], kid) => i <= j

\* Mutant: the instant of retirement still counts as active.
CheckKeyThroughRetirement(key, t) ==
  FirstDefect(KeyOrder, key.defects)
  ++ Require(\A u \in key.active_until : key.active_from < u, "empty_window")
  ++ Require(key.active_from <= t, "not_yet_active")
  ++ Require(\A u \in key.active_until : t <= u, "retired")

CheckKey(key, t) ==
  FirstDefect(KeyOrder, key.defects)
  ++ Require(\A u \in key.active_until : key.active_from < u, "empty_window")
  ++ Require(key.active_from <= t, "not_yet_active")
  ++ Require(\A u \in key.active_until : t < u, "retired")

FindKey(keys, kid, t) ==
  IF \E i \in DOMAIN keys : StopsSearch(keys[i], kid)
  THEN CheckKey(keys[Candidate(keys, kid)], t)
  ELSE "unknown_key"

\* trusted is {} when the caller pins nothing, else a set holding the set of
\* pinned fingerprints; a fingerprint is the public key itself (SHA-256 is
\* collision free here).
CheckTrusted(key, trusted) ==
  Require(\A pins \in trusted : key.bytes \in pins, "untrusted_key")

CheckSignature(r, key) == Require(r.signer = key.bytes, "signature_mismatch")

CheckKeyAndSignature(r, keys, trusted) ==
  FindKey(keys, r.kid, r.payload.issued_at)
  ++ CheckTrusted(keys[Candidate(keys, r.kid)], trusted)
  ++ CheckSignature(r, keys[Candidate(keys, r.kid)])

\* workspace is {} when the caller expects none, else {the expected id}.
CheckWorkspace(p, workspace) ==
  Require(\A w \in workspace : p.workspace_id = w, "workspace_mismatch")

\* verify_receipt, in the order of its statements.
VerifyReceipt(r, keys, now, workspace, trusted) ==
  JwsParts(r)
  ++ Require(now # Unparseable, "now")
  ++ CheckVersion(r.payload)
  ++ CheckWorkspace(r.payload, workspace)
  ++ CheckSchema(r.payload)
  ++ CheckPairing(r.payload)
  ++ CheckIssuedAt(r.payload, now)
  ++ CheckKeyAndSignature(r, keys, trusted)

Verifies(r, keys, now, workspace, trusted) ==
  VerifyReceipt(r, keys, now, workspace, trusted) = Accepted

-----------------------------------------------------------------------------
(* The data model: instants are ticks since the first year, and a part has *)
(* no defects but those its checks look for.                               *)

Instants == Nat \union {Unparseable}

\* An id that cannot be looked up in a dictionary is no receipt_id.
IsContext(c) ==
  /\ c.period_start \in Instants /\ c.period_end \in Instants
  /\ c.defects \subseteq {"context_members", "receipt_count", "merkle_root", "previous_id",
                          "previous_root", "previous_id_unhashable"}
  /\ "previous_id_unhashable" \in c.defects => "previous_id" \in c.defects

IsPayload(p) ==
  /\ p.issued_at \in Instants
  /\ IsContext(p.context)
  /\ p.defects \subseteq {SchemaOrder[i] : i \in DOMAIN SchemaOrder} \union {"policy_eval_shape"}
  /\ "policy_eval_shape" \in p.defects => p.policy_eval # Absent
  /\ p.policy_result.defects
       \subseteq {"result_members", "result_profile", "result_rule", "result_fields"}

IsReceipt(r) == r.jws \subseteq {JwsOrder[i] : i \in DOMAIN JwsOrder} /\ IsPayload(r.payload)

IsKeyList(keys) ==
  /\ Len(keys) \in Nat
  /\ keys = [i \in 1 .. Len(keys) |->
               [ key_id |-> keys[i].key_id, defects |-> keys[i].defects, bytes |-> keys[i].bytes,
                 active_from |-> keys[i].active_from, active_until |-> keys[i].active_until ]]
  /\ \A i \in DOMAIN keys :
       /\ keys[i].defects \subseteq {KeyOrder[j] : j \in DOMAIN KeyOrder}
       /\ keys[i].active_from \in Instants /\ keys[i].active_until \subseteq Instants
=============================================================================
