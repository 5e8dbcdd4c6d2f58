------------------------- MODULE AsyncVerification -------------------------
(***************************************************************************)
(* verifyReceipt and verifyCheckpoint of verifiers/typescript/verifier.ts  *)
(* as the asynchronous functions they are: between two awaits the caller   *)
(* runs, and may change every object it passed.  One step runs up to the   *)
(* next await; in the build for browsers the fingerprint of the key is     *)
(* awaited too.                                                            *)
(*                                                                         *)
(* The caller's objects are                                                *)
(*   [kind, build, receipt, members, previous, keys, shared, workspace,    *)
(*    now, trusted]                                                        *)
(* for a call of the given kind in the given build; shared says that the   *)
(* key bytes lie in a SharedArrayBuffer, which structuredClone does not    *)
(* copy.                                                                   *)
(***************************************************************************)
EXTENDS Checkpoints, TsReceiptRules

CONSTANTS
  Objects,            \* what the caller's objects may hold
  StartNow, MaxNow,   \* the bounds of the clock
  MaxListNodes        \* MAX_PAYLOAD_NODES, where a list of receipts is measured by it

ASSUME ListAssumption == MaxListNodes \in Nat

ASSUME ClockAssumption == StartNow \in Nat /\ MaxNow \in Nat /\ StartNow <= MaxNow

\* Receipts and keys are of the data model of ReceiptRules; there is at most one
\* previous checkpoint, and a time given as opts.now is a number.
ASSUME ObjectsAssumption ==
  \A o \in Objects :
    /\ o.kind \in {"receipt", "checkpoint"} /\ o.build \in {"node", "browser"}
    /\ o.shared \in BOOLEAN
    /\ IsReceipt(o.receipt)
    /\ Len(o.members) \in Nat /\ DOMAIN o.members = 1 .. Len(o.members)
    /\ \A i \in DOMAIN o.members : IsReceipt(o.members[i])
    /\ \A r \in o.previous : IsReceipt(r) /\ o.previous = {r}
    /\ IsKeyList(o.keys)
    /\ o.now \subseteq Instants

Pending  == "pending"
Rejected == "rejected"
NoCall   == [clock |-> StartNow, objects |-> {}]

VARIABLES
  given,     \* the caller's objects, now
  called,    \* history: the objects at the call, and the clock then
  own,       \* what the function copied at the call, in a set of at most one
  pc,        \* idle, or what is awaited, or settled
  at,        \* whose turn it is: 0 the receipt, 1.. the members, then the previous
  key,       \* the copy findKey returned, in a set of at most one
  clock,
  verdict

vars == << given, called, own, pc, at, key, clock, verdict >>

Init ==
  /\ given \in Objects
  /\ called = NoCall
  /\ own = {}
  /\ pc = "idle"
  /\ at = 0
  /\ key = {}
  /\ clock = StartNow
  /\ verdict = Pending

-----------------------------------------------------------------------------
(* What the function reads. *)

The(S) == CHOOSE x \in S : TRUE

\* opts.now, or the clock at each use of it.
NowOf(o) == IF o.now = {} THEN clock ELSE The(o.now)

\* Only the bytes of a key can be shared; the rest of it has been cloned.
KeysSeen(o) ==
  IF o.shared
  THEN [i \in DOMAIN o.keys |-> [o.keys[i] EXCEPT !.bytes = given.keys[i].bytes]]
  ELSE o.keys

\* Mutant: the set of pinned fingerprints is the caller's own.
TrustedSeenLive(o) == given.trusted

\* verifyCheckpoint copies the set into receiptOptions; verifyReceipt reads
\* the set it was passed.
TrustedSeen(o) == IF o.kind = "checkpoint" THEN o.trusted ELSE given.trusted

ReceiptAt(o, k) ==
  CASE k = 0                  -> o.receipt
    [] k \in DOMAIN o.members -> o.members[k]
    [] OTHER                  -> The(o.previous)

-----------------------------------------------------------------------------
(* One receipt: what runs before the first await, and after each. *)

Settle(outcome) == pc' = "settled" /\ verdict' = outcome

\* The synchronous start of verifyReceipt for the receipt whose turn k is.
Begin(o, k) ==
  LET r         == ReceiptAt(o, k)
      keys      == KeysSeen(o)
      candidate == keys[Candidate(keys, r.kid)]
      outcome   == TsUntilKey(r, keys, NowOf(o), o.workspace)
                   ++ (IF o.build = "browser"
                       THEN Accepted
                       ELSE TsCheckTrusted(candidate, TrustedSeen(o)))
  IN /\ at' = k
     /\ IF outcome = Accepted
        THEN /\ key' = {candidate}
             /\ pc' = IF o.build = "browser" THEN "fingerprint" ELSE "signature"
             /\ UNCHANGED verdict
        ELSE Settle(outcome) /\ UNCHANGED key

\* The nodes validateTree counts in a list of receipts: the list, and in it an
\* object and three strings for every envelope.  (A member that is no envelope
\* counts other nodes; it is refused with the list or in its turn.)
EnvelopeNodes == 4

ListNodes(members) == 1 + EnvelopeNodes * Len(members)

ListFits(o) == ListNodes(o.members) <= MaxListNodes

\* What the snapshots of verifyCheckpoint refuse before anything is verified.
\* verifyReceipt clones neither a list nor the bytes of a key.
Refusal(o) ==
  IF o.kind = "checkpoint"
  THEN Require(ListFits(o), "too_many_nodes") ++ Require(~o.shared, "shared_key_bytes")
  ELSE Accepted

\* The call: the snapshots, and at once the first receipt.
Call ==
  /\ pc = "idle"
  /\ called' = [clock |-> clock, objects |-> {given}]
  /\ own' = {given}
  /\ IF Refusal(given) = Accepted
     THEN Begin(given, 0)
     ELSE Settle(Refusal(given)) /\ UNCHANGED << at, key >>
  /\ UNCHANGED << given, clock >>

FingerprintReady ==
  /\ pc = "fingerprint"
  /\ LET outcome == TsCheckTrusted(The(key), TrustedSeen(The(own)))
     IN IF outcome = Accepted
        THEN pc' = "signature" /\ UNCHANGED verdict
        ELSE Settle(outcome)
  /\ UNCHANGED << given, called, own, at, key, clock >>

\* importJWK and compactVerify: verifyReceipt returns.
SignatureReady ==
  /\ pc = "signature"
  /\ LET outcome == TsCheckSignature(ReceiptAt(The(own), at), The(key))
     IN IF outcome # Accepted \/ The(own).kind = "receipt"
        THEN Settle(outcome)
        ELSE pc' = "returned" /\ UNCHANGED verdict
  /\ UNCHANGED << given, called, own, at, key, clock >>

-----------------------------------------------------------------------------
(* verifyCheckpoint goes on with the receipt that has been verified. *)

ContextOf(o) == o.receipt.payload.context

\* What it asks of the receipt whose turn k is, once that has verified.
TsCheckRole(o, k) ==
  LET p       == ReceiptAt(o, k).payload
      context == ContextOf(o)
  IN CASE k = 0 -> Require(p.event = "receipt_checkpoint", "not_a_checkpoint")
       [] k \in DOMAIN o.members ->
            Require(p.event # "receipt_checkpoint", "checkpoint_member")
            ++ Require(~(p.issued_at < context.period_start \/ p.issued_at >= context.period_end),
                       "member_outside_period")
       [] OTHER ->
            Require(p.event = "receipt_checkpoint", "previous_not_checkpoint")
            ++ Require(context.previous_id = p.receipt_id, "previous_id_mismatch")
            ++ Require(context.previous_root = p.context.merkle_root, "previous_root_mismatch")
            ++ Require(~(p.context.period_end > context.period_start), "periods_overlap")

\* The count, and the part of checkpointMerkleRoot that runs before its await.
TsCheckCount(o) ==
  Require(ContextOf(o).receipt_count = Len(o.members), "count_mismatch")
  ++ FirstRejection([i \in DOMAIN o.members |->
       TsJwsParts(o.members[i])
       ++ Require(\A j \in 1 .. i - 1 : ReceiptId(o.members[j]) # ReceiptId(o.members[i]),
                  "duplicate_member")])

\* Mutant: the loop takes the same receipt again.
ReturnedAgain ==
  /\ pc = "returned"
  /\ Begin(The(own), at)
  /\ UNCHANGED << given, called, own, clock >>

Returned ==
  /\ pc = "returned"
  /\ LET o    == The(own)
         role == TsCheckRole(o, at)
     IN CASE role # Accepted        -> Settle(role) /\ UNCHANGED << at, key >>
          [] at < Len(o.members) /\ role = Accepted -> Begin(o, at + 1)
          [] at = Len(o.members) /\ role = Accepted ->
               /\ IF TsCheckCount(o) = Accepted
                  THEN pc' = "root" /\ UNCHANGED verdict
                  ELSE Settle(TsCheckCount(o))
               /\ UNCHANGED << at, key >>
          [] OTHER                  -> Settle(Accepted) /\ UNCHANGED << at, key >>
  /\ UNCHANGED << given, called, own, clock >>

\* Mutant: the function returns while it has no verdict.
RootReadyUnsettled ==
  /\ pc = "root"
  /\ pc' = "settled"
  /\ UNCHANGED << given, called, own, at, key, clock, verdict >>

\* The hashes of the tree are there; the previous checkpoint is next.
RootReady ==
  /\ pc = "root"
  /\ LET o    == The(own)
         root == Require(ContextOf(o).merkle_root = CheckpointMerkleRoot(o.members),
                         "root_mismatch")
     IN IF root = Accepted /\ o.previous # {}
        THEN Begin(o, Len(o.members) + 1)
        ELSE Settle(root) /\ UNCHANGED << at, key >>
  /\ UNCHANGED << given, called, own, clock >>

-----------------------------------------------------------------------------
(* The caller. *)

\* Between two steps of the function the caller assigns to one of the things it
\* passed, and may do so any number of times.
Edit ==
  /\ pc # "settled"
  /\ given' \in {o \in Objects :
       /\ Cardinality({f \in DOMAIN given : o[f] # given[f]}) = 1
       /\ o.kind = given.kind /\ o.build = given.build /\ o.shared = given.shared
       /\ DOMAIN o.keys = DOMAIN given.keys}
  /\ UNCHANGED << called, own, pc, at, key, clock, verdict >>

Tick ==
  /\ clock < MaxNow
  /\ clock' = clock + 1
  /\ UNCHANGED << given, called, own, pc, at, key, verdict >>

Resumes ==
  /\ UNCHANGED << given, clock >>
  /\ FingerprintReady \/ SignatureReady \/ Returned \/ RootReady

Next ==
  \/ Call
  \/ FingerprintReady \/ SignatureReady \/ Returned \/ RootReady
  \/ Edit
  \/ Tick

\* Every awaited promise is one of WebCrypto or of this module, and the event
\* loop runs what is due however long the caller goes on editing.
Spec == Init /\ [][Next]_vars /\ WF_vars(Resumes)

-----------------------------------------------------------------------------
(* Type correctness: a verdict is there exactly when the promise is settled, *)
(* and whatever is awaited, its key is one of the call's.                    *)
TypeOK ==
  /\ given \in Objects
  /\ pc \in {"idle", "fingerprint", "signature", "returned", "root", "settled"}
  /\ clock \in StartNow .. MaxNow
  /\ own \subseteq Objects /\ Cardinality(own) = IF pc = "idle" THEN 0 ELSE 1
  /\ \A o \in own : at \in 0 .. Len(o.members) + Cardinality(o.previous)
  /\ pc \in {"fingerprint", "signature"} => Cardinality(key) = 1
  /\ (pc = "settled") = (verdict # Pending)

\* The verdict of the Python verifier on unchanging objects at one instant.
PythonVerdict(o, t) ==
  LET now == IF o.now = {} THEN t ELSE The(o.now)
  IN IF o.kind = "receipt"
     THEN VerifyReceipt(o.receipt, o.keys, now, o.workspace, o.trusted)
     ELSE VerifyCheckpoint(o.receipt, o.members, o.keys, now, o.workspace,
                           o.trusted, o.previous)

\* What the call promises: Python's verdict, with two exceptions that are
\* verifyCheckpoint's own.  It refuses key bytes in shared memory, which cannot
\* be copied atomically, and a list of more than MaxListNodes nodes, whatever Python
\* says of it.  (A list at the limit has Python's verdict.)
Outcome(o, t) ==
  IF o.kind = "checkpoint" /\ (o.shared \/ ~ListFits(o))
  THEN Rejected
  ELSE IF PythonVerdict(o, t) = Accepted THEN Accepted ELSE Rejected

\* The promise of the call is kept although the caller edits its objects and
\* the clock moves: CHANGELOG.md, "snapshot receipts and key documents before
\* asynchronous verification".
Promise == INSTANCE VerificationRequest WITH
  verdict <- IF verdict \in {Pending, Accepted} THEN verdict ELSE Rejected

KeepsPromise == Promise!RequestSpec

\* Every call settles, however long the evidence.
Settles == (pc # "idle") ~> (pc = "settled")
=============================================================================
