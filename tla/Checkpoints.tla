---------------------------- MODULE Checkpoints ----------------------------
(***************************************************************************)
(* Daily checkpoints: checkpoint_merkle_root and verify_checkpoint of      *)
(* verifier.py.  A hash is a term: the domain-separation byte the code     *)
(* prepends and what it hashes, so that two hashes are equal exactly when  *)
(* the same bytes were hashed (SHA-256 is collision free here).            *)
(***************************************************************************)
EXTENDS ReceiptRules, TLC

CONSTANT HashOrder(_)   \* the receipt's place in the byte order of leaf hashes

LeafHash(r)       == << 0, r >>
NodeHash(l, r)    == << 1, l, r >>
EmptyHash         == << 2 >>

\* Mutant: the odd hash out is dropped.
PaddedDropped(level) == level

\* An odd level is padded with its last hash, then paired.
Padded(level) ==
  IF Len(level) % 2 = 1 THEN Append(level, level[Len(level)]) ELSE level

NextLevel(level) ==
  LET padded == Padded(level)
  IN [i \in 1 .. Len(padded) \div 2 |-> NodeHash(padded[2 * i - 1], padded[2 * i])]

\* The members whose leaf hash is sorted before that of member i.
SortedBefore(members, i) ==
  {j \in DOMAIN members :
     \/ HashOrder(members[j]) < HashOrder(members[i])
     \/ HashOrder(members[j]) = HashOrder(members[i]) /\ j < i}

\* sorted(leaves): the k-th is the one that k - 1 are sorted before.
SortedLeaves(members) ==
  [k \in DOMAIN members |->
     LeafHash(members[CHOOSE i \in DOMAIN members : Cardinality(SortedBefore(members, i)) = k - 1])]

\* The while loop: levels[k] is the level after k rounds, and a level of one
\* hash is left alone, so Len(leaves) rounds are always enough.
TreeRoot(leaves) ==
  IF leaves = << >>
  THEN EmptyHash
  ELSE LET levels[k \in 0 .. Len(leaves)] ==
             IF k = 0 THEN leaves
             ELSE IF Len(levels[k - 1]) = 1 THEN levels[k - 1]
             ELSE NextLevel(levels[k - 1])
       IN levels[Len(leaves)][1]

ReceiptId(r) == r.payload.receipt_id

\* The loop over the members: each decodes and brings a new receipt_id.
CheckMember(members, i) ==
  DecodeReceipt(members[i])
  ++ Require(\A j \in 1 .. i - 1 : ReceiptId(members[j]) # ReceiptId(members[i]),
             "duplicate_member")

CheckMembers(members) ==
  FirstRejection([i \in DOMAIN members |-> CheckMember(members, i)])

\* checkpoint_merkle_root, for members CheckMembers accepts.
CheckpointMerkleRoot(members) == TreeRoot(SortedLeaves(members))

-----------------------------------------------------------------------------
(* verify_checkpoint. *)

InPeriod(context, t) == context.period_start <= t /\ t < context.period_end

VerifyMember(context, r, keys, now, workspace, trusted) ==
  VerifyReceipt(r, keys, now, workspace, trusted)
  ++ Require(~IsCheckpoint(r.payload), "checkpoint_member")
  ++ Require(InPeriod(context, r.payload.issued_at), "member_outside_period")

\* Mutant: the periods of linked checkpoints are not compared.
VerifyLinkAnyPeriod(context, prior, keys, now, workspace, trusted) ==
  VerifyReceipt(prior, keys, now, workspace, trusted)
  ++ Require(IsCheckpoint(prior.payload), "previous_not_checkpoint")
  ++ Require(context.previous_id = ReceiptId(prior), "previous_id_mismatch")
  ++ Require(context.previous_root = prior.payload.context.merkle_root,
             "previous_root_mismatch")

\* period_end and period_start are compared as strings in the code; in the
\* fixed-width UTC profile that is the order of the instants.
VerifyLink(context, prior, keys, now, workspace, trusted) ==
  VerifyReceipt(prior, keys, now, workspace, trusted)
  ++ Require(IsCheckpoint(prior.payload), "previous_not_checkpoint")
  ++ Require(context.previous_id = ReceiptId(prior), "previous_id_mismatch")
  ++ Require(context.previous_root = prior.payload.context.merkle_root,
             "previous_root_mismatch")
  ++ Require(prior.payload.context.period_end <= context.period_start,
             "periods_overlap")

\* previous is {} when the caller supplies no earlier checkpoint, else {it}.
VerifyCheckpoint(checkpoint, members, keys, now, workspace, trusted, previous) ==
  LET context == checkpoint.payload.context
  IN VerifyReceipt(checkpoint, keys, now, workspace, trusted)
     ++ Require(IsCheckpoint(checkpoint.payload), "not_a_checkpoint")
     ++ FirstRejection([i \in DOMAIN members |->
          VerifyMember(context, members[i], keys, now, workspace, trusted)])
     ++ Require(context.receipt_count = Len(members), "count_mismatch")
     ++ CheckMembers(members)
     ++ Require(context.merkle_root = CheckpointMerkleRoot(members), "root_mismatch")
     ++ (IF previous = {}
         THEN Accepted
         ELSE VerifyLink(context, CHOOSE r \in previous : TRUE,
                         keys, now, workspace, trusted))
=============================================================================
