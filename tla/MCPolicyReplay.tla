-------------------------- MODULE MCPolicyReplay --------------------------
(***************************************************************************)
(* A linux host with the key k1 of workspace w1.  Receipts that reproduce, *)
(* and receipts whose commitments fail in one way each; the archive of a   *)
(* receipt with at most one artifact replaced, and further changes while   *)
(* the command runs.                                                       *)
(***************************************************************************)
EXTENDS PolicyReplay

MCOpaArtifacts == [linux |-> "opa_linux", darwin |-> "opa_darwin"]

MCResult(decision) ==
  [defects |-> {}, decision |-> decision, target |-> Null, rule |-> Null, fields |-> {}]

\* The pinned module follows the policy and denies large amounts.
MCEvaluate(module, input) ==
  MCResult(IF module = "module" /\ input.policy = "allowing" /\ input.context = "small"
           THEN "allow" ELSE "deny")

mBundle  == [module |-> "module", content_ok |-> TRUE, signed_by |-> "release"]
mArchive == [defects |-> {}, bundle |-> mBundle, bundle_key |-> "release"]
mGood    == [ schema_ok |-> TRUE, platform |-> "linux", opa |-> "opa_linux",
              runtime |-> mArchive, bundle |-> mBundle, bundle_key |-> "release" ]
dGood    == [ shape_ok |-> TRUE, agent_id |-> "agent", entries_ok |-> TRUE,
              actions |-> << [action |-> "read", policy |-> "denying"],
                             [action |-> "send", policy |-> "allowing"] >> ]
iGood    == [ shape_ok |-> TRUE, action |-> "send", policy |-> "allowing", fits |-> TRUE,
              context |-> "small" ]
iLarge   == [iGood EXCEPT !.context = "large"]

MCPayload ==
  [ defects |-> {}, schema_version |-> "5", receipt_id |-> "r1", workspace_id |-> "w1",
    issued_at |-> 1, decision |-> "allow", action |-> "send", event |-> Absent,
    authorization_id |-> "a", resource |-> Null, context |-> Null, policy_ref |-> "edition",
    policy_eval |-> "present", policy_result |-> MCResult("allow"), agent_id |-> "agent",
    engine_version |-> mGood, definition |-> dGood, policy_input |-> iGood ]

MCSigned(payload) == [jws |-> {}, kid |-> "k1", signer |-> "p1", payload |-> payload]

\* Manifests no replay can be done with, or whose archive is not what it says.
MCManifests ==
  { [mGood EXCEPT !.schema_ok = FALSE],
    [mGood EXCEPT !.platform = "darwin"], [mGood EXCEPT !.platform = "plan9"],
    [mGood EXCEPT !.platform = "darwin", !.opa = "opa_darwin"],
    [mGood EXCEPT !.bundle_key = "other"] }
  \union {[mGood EXCEPT !.runtime.defects = {defect}] :
            defect \in RuntimeDefects}
  \union {[mGood EXCEPT !.runtime.bundle = b, !.bundle = b] :
            b \in { [mBundle EXCEPT !.module = "other_module"],
                    [mBundle EXCEPT !.content_ok = FALSE],
                    [mBundle EXCEPT !.signed_by = "nobody"] }}

MCDefinitions ==
  { [dGood EXCEPT !.shape_ok = FALSE], [dGood EXCEPT !.entries_ok = FALSE],
    [dGood EXCEPT !.agent_id = "other_agent"],
    [dGood EXCEPT !.actions[1].action = "send"], [dGood EXCEPT !.actions[2].action = "erase"],
    [dGood EXCEPT !.actions[2].policy = "denying"] }

MCInputs ==
  { iLarge, [iGood EXCEPT !.shape_ok = FALSE], [iGood EXCEPT !.fits = FALSE],
    [iGood EXCEPT !.action = "read"] }

\* Receipts that reproduce or record another result, from the near future, forged.
MCReceipts ==
  { MCSigned(MCPayload), MCSigned([MCPayload EXCEPT !.policy_result = MCResult("deny")]),
    MCSigned([MCPayload EXCEPT !.issued_at = 4]),
    [MCSigned(MCPayload) EXCEPT !.signer = NoSigner] }

\* Receipts without an evaluation, and with commitments that do not fit.
MCOddReceipts ==
  { MCSigned(p) : p \in
      {[MCPayload EXCEPT !.policy_eval = Absent]}
      \union {[MCPayload EXCEPT !.engine_version = m] : m \in MCManifests}
      \union {[MCPayload EXCEPT !.definition = d] : d \in MCDefinitions}
      \union {[MCPayload EXCEPT !.policy_input = i] : i \in MCInputs} }

MCKeys(workspace, from) ==
  [ shape_ok |-> TRUE, workspace_id |-> workspace,
    keys |-> << [ key_id |-> "k1", defects |-> {}, public_key |-> [bytes |-> "p1", pad |-> 0],
                  active_from |-> from, active_until |-> {}, fingerprint |-> NoFingerprint ] >> ]

MCDiskOf(r) ==
  [f \in Files |->
     CASE f = "keys"    -> {MCKeys("w1", 0)}
       [] f = "receipt" -> {r}
       [] OTHER         -> {Committed(r.payload)[f]}]

MCReplacements ==
  [f \in Files |->
     CASE f = "keys"       -> {{}, {MCKeys("w1", 0)}, {MCKeys("w2", 0)}, {MCKeys("w1", Unparseable)}}
       [] f = "receipt"    -> {{}, {MCSigned(MCPayload)}}
       [] f = "manifest"   -> {{}, {mGood}, {[mGood EXCEPT !.platform = "darwin"]}}
       [] f = "definition" -> {{}, {dGood}, {[dGood EXCEPT !.actions[2].policy = "denying"]}}
       [] f = "input"      -> {{}, {iGood}, {iLarge}}
       [] f = "rego"       -> {{}, {"module"}, {"other_module"}}
       [] f = "runtime"    -> {{}, {mArchive}, {[mArchive EXCEPT !.bundle_key = "other"]}}
       [] f = "opa"        -> {{}, {"opa_linux"}, {"opa_darwin"}, {SymlinkLoop}}]

MCBigSet ==
  {MCDiskOf(r) : r \in MCReceipts \union MCOddReceipts}
  \union UNION {{[MCDiskOf(r) EXCEPT ![f] = c] : c \in MCReplacements[f]} :
                   r \in MCReceipts, f \in Files}
MCDisks == MCBigSet

MCInvocation(pins, ok, given) ==
  [workspace |-> "w1", trusted |-> pins, fingerprints_ok |-> ok, given |-> given]

MCInvocations ==
  { MCInvocation({"p1"}, TRUE, Artifacts), MCInvocation({"p1"}, TRUE, Artifacts \ {"definition"}),
    MCInvocation({"p1"}, TRUE, Artifacts \ {"rego"}), MCInvocation({"p2"}, TRUE, Artifacts),
    MCInvocation({"p1"}, FALSE, Artifacts) }
=============================================================================
