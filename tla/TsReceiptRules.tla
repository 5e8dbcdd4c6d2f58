--------------------------- MODULE TsReceiptRules ---------------------------
(***************************************************************************)
(* verifyReceipt, decodeReceipt and findKey of the second reference        *)
(* implementation, verifiers/typescript/verifier.ts, over the same data    *)
(* and the same labels as ReceiptRules.  The checks of one receipt are     *)
(* translated again from the TypeScript; only the order of its structural  *)
(* checks is data.                                                         *)
(***************************************************************************)
EXTENDS ReceiptRules

\* jwsParts decodes and checks one segment after the other.
TsJwsOrder ==
  << "not_object", "wrong_members", "not_strings", "too_large",
     "header_undecodable", "header_tree", "header_members", "alg_or_typ", "kid",
     "signature_undecodable", "signature_length",
     "payload_undecodable", "payload_tree", "payload_not_object" >>

TsSchemaOrder ==
  << "unknown_fields", "missing_fields", "string_field", "nullable_string_field",
     "context_type", "policy_ref_shape", "engine_version" >>

TsKeyOrder == << "not_a_key", "key_alg", "bytes_type", "key_length",
                 "active_from", "active_until" >>

TsValidTarget(result) ==
  \/ result.decision \in {"allow", "deny"} /\ result.target = Null
  \/ result.decision = "confirm" /\ result.target = "agent_owner"
  \/ result.decision = "escalate" /\ result.target = "member"

TsCheckPolicyEval(p) ==
  LET result == p.policy_result
  IN Require("policy_eval_shape" \notin p.defects, "policy_eval_shape")
     ++ FirstDefect(<< "result_members", "result_profile" >>, result.defects)
     ++ Require(result.decision \in ActionDecisions, "result_decision")
     ++ Require(TsValidTarget(result), "result_target")
     ++ FirstDefect(<< "result_rule", "result_fields" >>, result.defects)
     ++ Require(~(result.rule = Null /\ result.fields # {}), "result_fields_without_rule")

TsCheckSchema(p) ==
  FirstDefect(TsSchemaOrder, p.defects)
  ++ (IF p.policy_eval = Absent
      THEN Accepted
      ELSE TsCheckPolicyEval(p)
           ++ Require(p.policy_ref # Null, "policy_eval_without_ref"))

\* jwsParts, which is all of decodeReceipt, checks the version and the schema.
TsJwsParts(r) ==
  FirstDefect(TsJwsOrder, r.jws)
  ++ Require(r.payload.schema_version = SpecVersion, "schema_version")
  ++ TsCheckSchema(r.payload)

TsCheckCheckpointContext(c, issuedAt) ==
  Require("context_members" \notin c.defects, "context_members")
  ++ Require(c.period_start # Unparseable, "period_start")
  ++ Require(c.period_end # Unparseable, "period_end")
  ++ Require(issuedAt # Unparseable, "issued_at")
  ++ Require(~(c.period_end <= c.period_start), "period_order")
  ++ Require(c.period_start % Day = 0 /\ c.period_end - c.period_start = Day,
             "period_not_a_day")
  ++ Require(~(issuedAt < c.period_end), "checkpoint_before_period_end")
  ++ FirstDefect(<< "receipt_count", "merkle_root" >>, c.defects)
  ++ Require(c.previous_id = Null <=> c.previous_root = NoRoot, "previous_pair")
  ++ FirstDefect(<< "previous_id", "previous_root" >>, c.defects)

TsCheckEvent(p) ==
  Require(p.event # NotString, "event_type")
  ++ Require(p.event \in DOMAIN EventDecisions, "unknown_event")
  ++ Require(p.decision \in EventDecisions[p.event], "event_decision")
  ++ (IF p.event = "receipt_checkpoint"
      THEN Require(p.authorization_id = Null, "checkpoint_authorization")
           ++ Require(p.resource = Null, "checkpoint_resource")
           ++ TsCheckCheckpointContext(p.context, p.issued_at)
      ELSE Require(p.authorization_id # Null, "event_authorization"))
  ++ Require(p.event \notin LifecycleEvents \/ p.resource = Null, "lifecycle_resource")
  ++ Require(p.policy_eval = Absent, "event_policy_eval")

TsCheckAction(p) ==
  Require(p.action # NotString, "action_type")
  ++ Require(p.decision \notin EventOnlyDecisions, "event_only_decision")
  ++ Require(p.decision \in ActionDecisions, "action_decision")

\* Mutant: a governed action may leave its policy edition out.
TsCheckPolicyRefLax(p) ==
  IF p.event = "receipt_checkpoint"
  THEN Require(p.policy_ref = Null, "checkpoint_policy_ref")
  ELSE IF p.event # Absent
  THEN Require(p.policy_ref # Null, "event_policy_ref")
  ELSE Require(p.authorization_id # Null \/ p.policy_ref = Null, "unresolved_policy_ref")

TsCheckPolicyRef(p) ==
  IF p.event = "receipt_checkpoint"
  THEN Require(p.policy_ref = Null, "checkpoint_policy_ref")
  ELSE IF p.event # Absent
  THEN Require(p.policy_ref # Null, "event_policy_ref")
  ELSE Require(p.authorization_id # Null \/ p.policy_ref = Null, "unresolved_policy_ref")
       ++ Require(p.authorization_id = Null \/ p.policy_ref # Null \/ p.action = "record_seal",
                  "governed_policy_ref")

\* findKey: the first entry that has the kid, or that is no object.
TsFindKey(keys, kid, issuedAt) ==
  LET hits == {i \in DOMAIN keys : StopsSearch(keys[i], kid)}
      key  == keys[CHOOSE i \in hits : \A j \in hits : i <= j]
  IN IF hits = {}
     THEN "unknown_key"
     ELSE FirstDefect(TsKeyOrder, key.defects)
          ++ Require(\A u \in key.active_until : ~(u <= key.active_from), "empty_window")
          ++ Require(~(issuedAt < key.active_from), "not_yet_active")
          ++ Require(\A u \in key.active_until : ~(issuedAt >= u), "retired")

\* verifyReceipt until it has its key: all of it reads the arguments at once.
TsUntilKey(r, keys, now, workspace) ==
  LET p == r.payload
  IN TsJwsParts(r)
     ++ Require(now # Unparseable, "now")
     ++ Require(\A w \in workspace : p.workspace_id = w, "workspace_mismatch")
     ++ Require(~(p.action # Absent /\ p.event # Absent), "both_kinds")
     ++ Require(~(p.action = Absent /\ p.event = Absent), "no_kind")
     ++ (IF p.event # Absent THEN TsCheckEvent(p) ELSE TsCheckAction(p))
     ++ TsCheckPolicyRef(p)
     ++ Require(p.issued_at # Unparseable, "issued_at")
     ++ Require(~(p.issued_at > now + Skew), "issued_in_future")
     ++ TsFindKey(keys, r.kid, p.issued_at)

TsCheckTrusted(key, trusted) ==
  Require(\A pins \in trusted : key.bytes \in pins, "untrusted_key")

TsCheckSignature(r, key) == Require(r.signer = key.bytes, "signature_mismatch")

TsVerifyReceipt(r, keys, now, workspace, trusted) ==
  TsUntilKey(r, keys, now, workspace)
  ++ TsCheckTrusted(keys[Candidate(keys, r.kid)], trusted)
  ++ TsCheckSignature(r, keys[Candidate(keys, r.kid)])
=============================================================================
