--------------------------- MODULE MCVerifierCli ---------------------------
(***************************************************************************)
(* A day is two ticks.  Workspace w1 publishes key k1, active over [0, 4), *)
(* and its successor k2, active from 4; the command starts at 4, so that   *)
(* what is issued at 5 is within the skew of one tick and what is issued   *)
(* at 6 is not, until the clock has advanced.                              *)
(***************************************************************************)
EXTENDS VerifierCli

MCContext(start, root, count, prev, prevroot, defects) ==
  [ defects |-> defects, period_start |-> start, period_end |-> start + 2,
    receipt_count |-> count, merkle_root |-> root,
    previous_id |-> prev, previous_root |-> prevroot ]

NoContext == MCContext(0, NoRoot, 0, Null, NoRoot, {})
NoResult  == [defects |-> {}, decision |-> "allow", target |-> Null, rule |-> Null, fields |-> {}]

MCPayload(id, issued, auth, action, event, decision, context) ==
  [ defects |-> {}, schema_version |-> "5", receipt_id |-> id, workspace_id |-> "w1",
    issued_at |-> issued, decision |-> decision, action |-> action, event |-> event,
    authorization_id |-> auth, resource |-> Null, context |-> context,
    policy_ref |-> IF auth = Null THEN Null ELSE "edition",
    policy_eval |-> Absent, policy_result |-> NoResult ]

MCSigned(kid, signer, payload) ==
  [jws |-> {}, kid |-> kid, signer |-> signer, payload |-> payload]

\* The issuer signs with the key that is active.
MCIssued(id, issued, auth, action, event, decision) ==
  LET payload == MCPayload(id, issued, auth, action, event, decision, NoContext)
  IN IF issued < 4 THEN MCSigned("k1", "p1", payload) ELSE MCSigned("k2", "p2", payload)

rCreate == MCIssued("r1", 1, "a", Absent, "authorization_create", "authorization_granted")
rAllow  == MCIssued("r2", 2, "a", "send", Absent, "allow")
rRevoke == MCIssued("r3", 3, "a", Absent, "authorization_revoke", "authorization_revoked")
rDeny   == MCIssued("r4", 2, Null, "send", Absent, "deny")
rOther  == MCIssued("r5", 6, "b", Absent, "authorization_create", "authorization_granted")
\* The authorization created, and revoked, a second time.
rCreateAgain == MCIssued("r9", 3, "a", Absent, "authorization_create", "authorization_granted")
rRevokeAgain == MCIssued("r10", 3, "a", Absent, "authorization_revoke", "authorization_revoked")
\* Signed like rAllow, and carrying its receipt_id.
rAgain  == MCIssued("r2", 3, "a", "send", Absent, "deny")
\* Altered after signing; stamped when k1 had been retired; not decodable.
rForged  == [rAllow EXCEPT !.signer = NoSigner, !.payload.receipt_id = "r6"]
rRetired == MCSigned("k1", "p1", MCPayload("r7", 4, "a", "send", Absent, "allow", NoContext))
rWrapper == [rCreate EXCEPT !.jws = {"wrong_members"}]
\* Belongs to the authorization whose id is the empty string.
rEmptyId == MCIssued("r8", 1, "", "send", Absent, "allow")

MCHashOrder(r) ==
  LET order == << rRevoke, rCreate, rOther, rAllow, rDeny, rEmptyId, rCreateAgain,
                  rRevokeAgain, rAgain, rForged, rRetired, rWrapper >>
  IN CHOOSE i \in DOMAIN order : order[i] = r

-----------------------------------------------------------------------------
MCCheckpoint(id, start, members, prev, prevroot) ==
  LET payload == [MCPayload(id, start + 2, Null, Absent, "receipt_checkpoint",
                    "receipt_set_committed",
                    MCContext(start, CheckpointMerkleRoot(members), Len(members),
                              prev, prevroot, {})) EXCEPT !.policy_ref = Null]
  IN IF start + 2 < 4 THEN MCSigned("k1", "p1", payload) ELSE MCSigned("k2", "p2", payload)

RootOf(checkpoint) == checkpoint.payload.context.merkle_root

c0 == MCCheckpoint("c0", 0, << rCreate >>, Null, NoRoot)
c1 == MCCheckpoint("c1", 2, << rAllow, rRevoke, rDeny >>, "c0", RootOf(c0))
c2 == MCCheckpoint("c2", 4, << >>, "c1", RootOf(c1))
\* A second checkpoint of the first day that names the first as its previous;
\* a wrong previous root; a previous_checkpoint_id that is an array.
cSameDay == MCCheckpoint("c3", 0, << rCreate >>, "c0", RootOf(c0))
cBadLink == MCCheckpoint("c4", 4, << >>, "c1", RootOf(c0))
cArray   == [c2 EXCEPT !.payload.context.defects = {"previous_id", "previous_id_unhashable"}]

MCEntryOf(checkpoint, ids) ==
  [fields_ok |-> TRUE, checkpoint |-> checkpoint, ids_ok |-> TRUE, member_receipt_ids |-> ids]

\* Entries that matter to other entries, and entries that only fail alone.
MCLinkedEntries ==
  { MCEntryOf(c0, << "r1" >>), MCEntryOf(c1, << "r2", "r3", "r4" >>),
    MCEntryOf(c1, << "r2", "r3", "r1" >>), MCEntryOf(c2, << >>),
    MCEntryOf(cSameDay, << "r1" >>), MCEntryOf(cBadLink, << >>), MCEntryOf(cArray, << >>) }

MCLoneEntries ==
  { MCEntryOf(c1, << "r4", "r2", "r3" >>), MCEntryOf(c1, << "r2", "r4" >>),
    MCEntryOf(c1, << "r2", "r3", "r3" >>), MCEntryOf(c1, << "r2", "r3", "r11" >>),
    MCEntryOf(rDeny, << >>),
    [MCEntryOf(c0, << "r1" >>) EXCEPT !.fields_ok = FALSE],
    [MCEntryOf(c0, << "r1" >>) EXCEPT !.ids_ok = FALSE] }

MCEvidenceEntries == MCLinkedEntries \union MCLoneEntries

MCEvidenceFile(entries) ==
  [read |-> "parsed", version_ok |-> TRUE, entries_ok |-> TRUE, entries |-> entries]

-----------------------------------------------------------------------------
MCKey(id, bytes, from, until) ==
  [ key_id |-> id, defects |-> {}, public_key |-> [bytes |-> bytes, pad |-> 0],
    active_from |-> from, active_until |-> until, fingerprint |-> NoFingerprint ]

MCDocument(workspace, entries) ==
  [ read |-> "parsed",
    document |-> [shape_ok |-> TRUE, workspace_id |-> workspace, keys |-> entries] ]

MCKeyFile == MCDocument("w1", << MCKey("k1", "p1", 0, {4}), MCKey("k2", "p2", 4, {}) >>)

MCKeyFiles ==
  { MCKeyFile, MCDocument("w2", << MCKey("k1", "p1", 0, {4}) >>),
    MCDocument("w1", << MCKey("k1", "p1", 0, {}), MCKey("k1", "p2", 4, {}) >>),
    [MCKeyFile EXCEPT !.read = "reported"] }

MCLine(r) == [form |-> "object", object |-> r, nested |-> {}]

\* What a line may do to the lines beside it, and lines that only fail alone.
MCLines ==
  {MCLine(r) : r \in {rCreate, rCreateAgain, rRevoke, rRevokeAgain, rAllow, rAgain, rOther}}
    \union {[form |-> "object", object |-> rWrapper, nested |-> {rRevoke}]}
    \union {[form |-> f, object |-> rWrapper, nested |-> {}] : f \in {"blank", "raised"}}

MCFailingLines ==
  {MCLine(rForged), MCLine(rRetired)}
    \union {[form |-> f, object |-> rWrapper, nested |-> {}] :
              f \in {"not_json", "not_object", "object"}}

MCCall(lines, authorization, evidence) ==
  [ export |-> TRUE, paths |-> 1, fingerprints_ok |-> TRUE, trusted |-> {"p1", "p2"},
    workspace |-> "w1", authorization |-> authorization, keys |-> MCKeyFile,
    receipt |-> [read |-> "parsed", receipt |-> rAllow], lines |-> lines,
    evidence |-> evidence ]

MCUpTo(n, S) == UNION {[1 .. k -> S] : k \in 0 .. n}

\* Exports of up to three lines, whole or scoped to authorization a.
MCExports ==
  {MCCall(lines, authorization, {}) :
     lines \in MCUpTo(3, MCLines) \union MCUpTo(2, MCLines \union MCFailingLines),
     authorization \in {{}, {"a"}}}

\* Every combination of options, with good and bad files.
MCOptions ==
  { [MCCall(<< MCLine(r) >>, authorization, evidence) EXCEPT
       !.export = export, !.paths = paths, !.fingerprints_ok = fp, !.trusted = trusted,
       !.keys = file, !.receipt = [read |-> read, receipt |-> r]] :
      r \in {rCreate, rEmptyId, rOther, rForged}, export \in BOOLEAN, paths \in {1, 2},
      fp \in BOOLEAN, trusted \in {{"p1"}, {"p1", "p2"}},
      authorization \in {{}, {""}, {"a"}}, evidence \in {{}, {MCEvidenceFile(<< >>)}},
      file \in MCKeyFiles, read \in Reads }

MCCalls == {c : c \in MCExports \union MCOptions}

\* Evidence of up to three entries beside an export of the receipts it names,
\* and beside one that lacks the last; evidence files that cannot be used.
MCNamedLines == << MCLine(rCreate), MCLine(rAllow), MCLine(rRevoke), MCLine(rDeny) >>

MCEvidenceCalls ==
  {MCCall(MCNamedLines, {}, {MCEvidenceFile(es)}) :
     es \in MCUpTo(3, MCLinkedEntries) \union MCUpTo(2, MCEvidenceEntries)}
  \union {MCCall(SubSeq(MCNamedLines, 1, n), {}, {MCEvidenceFile(es)}) :
            n \in 0 .. 3, es \in MCUpTo(1, MCEvidenceEntries)}
  \union {MCCall(MCNamedLines, {}, {[MCEvidenceFile(<< >>) EXCEPT !.read = read,
            !.version_ok = version, !.entries_ok = entries]}) :
            read \in Reads, version \in BOOLEAN, entries \in BOOLEAN}

MCAllCalls == MCCalls \union MCEvidenceCalls

MCInvocations == MCAllCalls

\* The smallest scoped call with evidence: the scope is the empty id.
MCScopedInvocations ==
  {MCCall(<< MCLine(r) >>, authorization, evidence) :
     r \in {rEmptyId, rCreate, rOther}, authorization \in {{}, {""}, {"a"}},
     evidence \in {{}, {MCEvidenceFile(<< >>)}, {MCEvidenceFile(<< MCEntryOf(c0, << >>) >>)}}}
=============================================================================
