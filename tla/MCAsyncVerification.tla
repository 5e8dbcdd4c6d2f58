------------------------ MODULE MCAsyncVerification ------------------------
(***************************************************************************)
(* A checkpoint of the day [2, 4) with two members and the checkpoint of   *)
(* the day before, at a time when the checkpoint is still ahead of the     *)
(* skew; every object of the call may be exchanged for one that would have *)
(* been accepted, or rejected, for another reason.  A list of two is at    *)
(* the limit for lists, and a checkpoint of three members is over it.      *)
(***************************************************************************)
EXTENDS AsyncVerification

MCContext(start, root, count, prev, prevroot) ==
  [ defects |-> {}, period_start |-> start, period_end |-> start + 2,
    receipt_count |-> count, merkle_root |-> root,
    previous_id |-> prev, previous_root |-> prevroot ]

MCPayload(id, issued, auth, action, event, decision, context) ==
  [ defects |-> {}, schema_version |-> "5", receipt_id |-> id, workspace_id |-> "w1",
    issued_at |-> issued, decision |-> decision, action |-> action, event |-> event,
    authorization_id |-> auth, resource |-> Null, context |-> context,
    policy_ref |-> IF auth = Null THEN Null ELSE "edition", policy_eval |-> Absent,
    policy_result |-> [ defects |-> {}, decision |-> "allow", target |-> Null,
                        rule |-> Null, fields |-> {} ] ]

\* Key k1 is active over [0, 4), its successor k2 from 4.
MCSigned(payload) ==
  IF payload.issued_at < 4
  THEN [jws |-> {}, kid |-> "k1", signer |-> "p1", payload |-> payload]
  ELSE [jws |-> {}, kid |-> "k2", signer |-> "p2", payload |-> payload]

MCActionAt(id, issued) ==
  MCSigned(MCPayload(id, issued, "a", "send", Absent, "allow",
                     MCContext(0, NoRoot, 0, Null, NoRoot)))

r1 == MCActionAt("r1", 1)
r2 == MCActionAt("r2", 2)
r3 == MCActionAt("r3", 3)
r4 == MCActionAt("r4", 3)
rForged == [r3 EXCEPT !.signer = NoSigner]
rBroken == [r3 EXCEPT !.payload.defects = {"unknown_fields"}]

MCHashOrder(r) ==
  CASE ReceiptId(r) = "r1" -> 2 [] ReceiptId(r) = "r2" -> 3 [] ReceiptId(r) = "r4" -> 4
    [] OTHER -> 1

MCCheckpoint(id, issued, start, members, prev, prevroot) ==
  MCSigned(MCPayload(id, issued, Null, Absent, "receipt_checkpoint", "receipt_set_committed",
    MCContext(start, CheckpointMerkleRoot(members), Len(members), prev, prevroot)))

c0 == MCCheckpoint("c0", 2, 0, << r1 >>, Null, NoRoot)
c1 == MCCheckpoint("c1", 5, 2, << r2, r3 >>, "c0", c0.payload.context.merkle_root)
cLarge == MCCheckpoint("c1", 5, 2, << r2, r3, r4 >>, "c0", c0.payload.context.merkle_root)

-----------------------------------------------------------------------------
MCKey(id, bytes, from, until) ==
  [key_id |-> id, defects |-> {}, bytes |-> bytes, active_from |-> from, active_until |-> until]

MCKeys == << MCKey("k1", "p1", 0, {4}), MCKey("k2", "p2", 4, {}) >>

MCBase(kind, build, shared) ==
  [ kind |-> kind, build |-> build, shared |-> shared, receipt |-> c1,
    members |-> IF kind = "checkpoint" THEN << r2, r3 >> ELSE << >>,
    previous |-> IF kind = "checkpoint" THEN {c0} ELSE {},
    keys |-> MCKeys, workspace |-> {"w1"}, now |-> {}, trusted |-> {{"p1", "p2"}} ]

MCCallEdits(o) ==
  {o}
  \union {[o EXCEPT !.receipt = r] : r \in {r2, [c1 EXCEPT !.signer = NoSigner]}}
  \union {[o EXCEPT !.keys = << MCKeys[1], MCKey("k2", "p9", 4, {}) >>],
          [o EXCEPT !.keys = << MCKey("k1", "p1", 0, {3}), MCKeys[2] >>]}
  \union {[o EXCEPT !.workspace = w] : w \in {{}, {"w2"}}}
  \union {[o EXCEPT !.now = n] : n \in {{3}, {4}}}
  \union {[o EXCEPT !.trusted = t] : t \in {{}, {{"p1"}}}}

MCEvidenceEdits(o) ==
  {[o EXCEPT !.members = ms] :
     ms \in {<< >>, << r2 >>, << r3, r2 >>, << r2, r2 >>, << r2, rForged >>, << r2, rBroken >>,
             << r2, c1 >>, << r1, r3 >>}}
  \union {[o EXCEPT !.previous = p] : p \in {{}, {r1}, {c1}, {[c0 EXCEPT !.payload.receipt_id = "cx"]}}}
  \union {[o EXCEPT !.receipt = c] :
            c \in {[c1 EXCEPT !.payload.context.previous_root = << 2 >>],
                   MCCheckpoint("c1", 5, 2, << >>, Null, NoRoot)}}

\* The same day with a third receipt, its checkpoint in order.
MCLargeDay(build) ==
  [MCBase("checkpoint", build, FALSE) EXCEPT !.receipt = cLarge, !.members = << r2, r3, r4 >>]

MCCallsOf(kind, build, shared) ==
  LET o == MCBase(kind, build, shared)
  IN MCCallEdits(o) \union IF kind = "checkpoint" THEN MCEvidenceEdits(o) ELSE {}

MCSafeObjects ==
  {o : o \in
    MCCallsOf("receipt", "node", FALSE) \union MCCallsOf("receipt", "node", TRUE)
    \union MCCallsOf("checkpoint", "node", FALSE) \union MCCallsOf("checkpoint", "browser", FALSE)
    \union {MCBase("checkpoint", "node", TRUE), [MCBase("checkpoint", "node", TRUE) EXCEPT
              !.keys = << MCKeys[1], MCKey("k2", "p9", 4, {}) >>]}
    \union {MCLargeDay(build) : build \in {"node", "browser"}}
    \union {[MCBase("checkpoint", "node", FALSE) EXCEPT !.members = << r2, r3, r4 >>]}}

\* In a browser the fingerprint is awaited; the set of pins is left alone.
MCPinnedBrowser ==
  {o \in MCCallsOf("receipt", "browser", FALSE) : o.trusted = {{"p1", "p2"}}}

MCObjects == MCSafeObjects \union MCPinnedBrowser

\* One receipt in a browser; only the set of pinned fingerprints is edited.
MCBrowserObjects ==
  {[MCBase("receipt", "browser", FALSE) EXCEPT !.trusted = t] : t \in {{{"p1"}}, {{"p1", "p2"}}}}
=============================================================================
