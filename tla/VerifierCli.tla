---------------------------- MODULE VerifierCli ----------------------------
(***************************************************************************)
(* The verify-receipt command: main, _verify_export,                       *)
(* _verify_checkpoint_evidence and _check_chain_invariants of verifier.py. *)
(* One run of the command reads its files once; the clock, which every     *)
(* verification reads anew, may advance between any two steps.             *)
(*                                                                         *)
(* An invocation is the record                                             *)
(*   export         whether --export names a file;                         *)
(*   paths          the number of positional arguments;                    *)
(*   fingerprints_ok, trusted   the pinned fingerprints;                   *)
(*   workspace      --workspace-id;                                        *)
(*   authorization  --authorization-id: {} or {its value, possibly ""};    *)
(*   keys           [read, document]: the key file;                        *)
(*   receipt        [read, receipt]: the receipt file of single mode;      *)
(*   lines          the export: [form, object, nested], see LineForms;     *)
(*   evidence       {} or {the --checkpoint-evidence file}:                *)
(*                  [read, version_ok, entries_ok, entries], an entry is   *)
(*                  [fields_ok, checkpoint, ids_ok, member_receipt_ids].   *)
(* read says how reading a file ends, see Reads.                           *)
(***************************************************************************)
EXTENDS Checkpoints, KeyEntries, SequencesExt

CONSTANTS
  Invocations,   \* the ways the command may be called
  StartNow,      \* the clock when it starts
  MaxNow         \* bound: the clock stops here

ASSUME ClockAssumption == StartNow \in Nat /\ MaxNow \in Nat /\ StartNow <= MaxNow

\* _extract_receipt: the object of a wrapper's receipt member, or the object.
ExtractReceipt(line) ==
  IF line.nested = {} THEN line.object ELSE CHOOSE r \in line.nested : TRUE

ExportedReceipts(c) == {ExtractReceipt(c.lines[i]) : i \in DOMAIN c.lines}

\* The checkpoints of evidence have instants for their periods, and what cannot
\* be looked up is no receipt_id.
EvidenceAssumption(e) ==
  /\ Len(e.entries) \in Nat /\ DOMAIN e.entries = 1 .. Len(e.entries)
  /\ \A k \in DOMAIN e.entries :
       LET ids     == e.entries[k].member_receipt_ids
           payload == e.entries[k].checkpoint.payload
       IN /\ Len(ids) \in Nat /\ DOMAIN ids = 1 .. Len(ids)
          /\ {payload.issued_at, payload.context.period_start, payload.context.period_end}
               \subseteq Int
          /\ "previous_id_unhashable" \in payload.context.defects
               => "previous_id" \in payload.context.defects

\* Key files hold documents, exports are sequences of lines, instants are numbers.
ASSUME InvocationsAssumption ==
  \A c \in Invocations :
    /\ c.keys.document \in DocumentType
    /\ Len(c.lines) \in Nat /\ DOMAIN c.lines = 1 .. Len(c.lines)
    /\ \A r \in ExportedReceipts(c) : r.payload.issued_at \in Int
    /\ \A r \in {c.receipt.receipt} : r.payload.issued_at \in Int
    /\ \A e, f \in c.evidence : e = f
    /\ \A e \in c.evidence : EvidenceAssumption(e)

\* Leaf hashes are compared as bytes, and different receipts have different ones.
ASSUME HashAssumption ==
  \A c \in Invocations : \A r, s \in ExportedReceipts(c) :
    HashOrder(r) \in Int /\ (HashOrder(r) = HashOrder(s) => r = s)

\* "reported": an error the code catches; "raised": one it does not, such as
\* a UnicodeDecodeError, which ends the interpreter with status 1.
Reads == {"parsed", "reported", "raised"}

LineForms == {"blank", "not_json", "not_object", "object", "raised"}

Running == -1   \* exit while the command runs

VARIABLES
  call,               \* the invocation
  now,                \* datetime.now(timezone.utc)
  pc,                 \* the function being executed
  keys,               \* the loaded public keys
  position,           \* the next element of the loop being executed
  ok, failed, skipped, total,
  chain,              \* payloads of the verified receipts, in order
  verified_by_id,     \* receipt_id -> verified receipt
  checkpoints,        \* receipt_id -> checkpoint of the evidence
  chain_rc, checkpoint_rc, checkpoint_count,
  exit                \* the exit status, or Running

counters == << ok, failed, skipped, total >>
results  == << chain, verified_by_id, checkpoints >>
codes    == << chain_rc, checkpoint_rc, checkpoint_count >>
vars     == << call, now, pc, keys, position, counters, results, codes, exit >>

Init ==
  /\ call \in Invocations
  /\ now = StartNow
  /\ pc = "main"
  /\ keys = << >>
  /\ position = 1
  /\ ok = 0 /\ failed = 0 /\ skipped = 0 /\ total = 0
  /\ chain = << >>
  /\ verified_by_id = << >>
  /\ checkpoints = << >>
  /\ chain_rc = 0 /\ checkpoint_rc = 0 /\ checkpoint_count = 0
  /\ exit = Running

\* Call verify_receipt, verify_checkpoint as the command does.
Verdict(r) == VerifyReceipt(r, keys, now, {call.workspace}, {call.trusted})

\* dict[key] = value, which replaces what was filed under key.
Put(dict, key, value) ==
  [k \in DOMAIN dict \union {key} |-> IF k = key THEN value ELSE dict[k]]

Exit(status) == pc' = "exited" /\ exit' = status

-----------------------------------------------------------------------------
(* main *)

Truthy(argument) == \E value \in argument : value # ""

UsageError(c) ==
  \/ ~c.fingerprints_ok
  \/ /\ c.export
     /\ c.paths # 1 \/ (Truthy(c.authorization) /\ c.evidence # {})
  \/ /\ ~c.export
     /\ Truthy(c.authorization) \/ c.evidence # {} \/ c.paths # 2

ParseArguments ==
  /\ pc = "main"
  /\ IF UsageError(call)
     THEN Exit(2)
     ELSE pc' = "load_keys" /\ exit' = exit
  /\ UNCHANGED << call, now, keys, position, counters, results, codes >>

KeysLoad(c) ==
  /\ c.keys.read = "parsed"
  /\ DocumentIsValid(c.keys.document)
  /\ c.keys.document.workspace_id = c.workspace

LoadKeys ==
  /\ pc = "load_keys"
  /\ KeysLoad(call)
  /\ keys' = LoadedKeys(call.keys.document)
  /\ pc' = IF call.export THEN "export" ELSE "single"
  /\ UNCHANGED << call, now, position, counters, results, codes, exit >>

RejectKeys ==
  /\ pc = "load_keys"
  /\ ~KeysLoad(call)
  /\ Exit(1)
  /\ UNCHANGED << call, now, keys, position, counters, results, codes >>

VerifySingle ==
  /\ pc = "single"
  /\ Exit(IF call.receipt.read = "parsed" /\ Verdict(call.receipt.receipt) = Accepted
          THEN 0 ELSE 1)
  /\ UNCHANGED << call, now, keys, position, counters, results, codes >>

-----------------------------------------------------------------------------
(* _verify_export: the loop over the lines. *)

Line == call.lines[position]

Receipt == ExtractReceipt(Line)

AtLine ==
  /\ pc = "export"
  /\ position <= Len(call.lines)
  /\ position' = position + 1
  /\ UNCHANGED << call, now, keys, checkpoints, codes >>

Decodes(line) == line.form = "object" /\ DecodeReceipt(ExtractReceipt(line)) = Accepted

InScope(c, r) == \A id \in c.authorization : r.payload.authorization_id = id

\* Mutant: the blank line is not passed.
BlankLineStays ==
  /\ pc = "export" /\ position <= Len(call.lines)
  /\ Line.form = "blank"
  /\ UNCHANGED vars

BlankLine ==
  /\ AtLine
  /\ Line.form = "blank"
  /\ UNCHANGED << pc, counters, chain, verified_by_id, exit >>

\* An exception none of the handlers names ends the command.
AbortAtLine ==
  /\ AtLine
  /\ Line.form = "raised"
  /\ Exit(1)
  /\ UNCHANGED << counters, chain, verified_by_id >>

UndecodableLine ==
  /\ AtLine
  /\ Line.form \in {"not_json", "not_object", "object"}
  /\ ~Decodes(Line)
  /\ total' = total + 1
  /\ failed' = failed + 1
  /\ UNCHANGED << pc, ok, skipped, chain, verified_by_id, exit >>

\* Mutant: a receipt of another authorization is counted before it is skipped.
SkipLineCounted ==
  /\ AtLine
  /\ Decodes(Line)
  /\ ~InScope(call, Receipt)
  /\ skipped' = skipped + 1
  /\ total' = total + 1
  /\ UNCHANGED << pc, ok, failed, chain, verified_by_id, exit >>

\* The filter comes after decoding and before verification.
SkipLine ==
  /\ AtLine
  /\ Decodes(Line)
  /\ ~InScope(call, Receipt)
  /\ skipped' = skipped + 1
  /\ UNCHANGED << pc, ok, failed, total, chain, verified_by_id, exit >>

\* Mutants: the receipt is decoded and filed but not verified; a duplicate
\* receipt_id is not looked for.
LineVerdictDecodesOnly ==
  Require(ReceiptId(Receipt) \notin DOMAIN verified_by_id, "duplicate_receipt_id")

LineVerdictRepeats == Verdict(Receipt)

LineVerdict ==
  Verdict(Receipt)
  ++ Require(ReceiptId(Receipt) \notin DOMAIN verified_by_id, "duplicate_receipt_id")

VerifyLine ==
  /\ AtLine
  /\ Decodes(Line)
  /\ InScope(call, Receipt)
  /\ LineVerdict = Accepted
  /\ total' = total + 1
  /\ ok' = ok + 1
  /\ chain' = Append(chain, Receipt.payload)
  /\ verified_by_id' = Put(verified_by_id, ReceiptId(Receipt), Receipt)
  /\ UNCHANGED << pc, failed, skipped, exit >>

RejectLine ==
  /\ AtLine
  /\ Decodes(Line)
  /\ InScope(call, Receipt)
  /\ LineVerdict # Accepted
  /\ total' = total + 1
  /\ failed' = failed + 1
  /\ UNCHANGED << pc, ok, skipped, chain, verified_by_id, exit >>

\* _check_chain_invariants: how many of the chain's receipts are such events.
CountEvents(event) == Cardinality({i \in DOMAIN chain : chain[i].event = event})

\* Mutant: any number of creations will do.
CheckChainInvariantsLoose ==
  IF /\ CountEvents("authorization_create") >= 1
     /\ CountEvents("authorization_revoke") <= 1
  THEN 0 ELSE 1

CheckChainInvariants ==
  IF /\ CountEvents("authorization_create") = 1
     /\ CountEvents("authorization_revoke") <= 1
  THEN 0 ELSE 1

\* Mutant: the evidence loop starts at zero.
EndOfExportFromZero ==
  /\ pc = "export"
  /\ position > Len(call.lines)
  /\ chain_rc' = IF call.authorization = {} THEN 0 ELSE CheckChainInvariants
  /\ pc' = IF call.evidence = {} THEN "summary" ELSE "evidence"
  /\ position' = 0
  /\ UNCHANGED << call, now, keys, counters, results, checkpoint_rc, checkpoint_count, exit >>

EndOfExport ==
  /\ pc = "export"
  /\ position > Len(call.lines)
  /\ chain_rc' = IF call.authorization = {} THEN 0 ELSE CheckChainInvariants
  /\ pc' = IF call.evidence = {} THEN "summary" ELSE "evidence"
  /\ position' = 1
  /\ UNCHANGED << call, now, keys, counters, results, checkpoint_rc, checkpoint_count, exit >>

-----------------------------------------------------------------------------
(* _verify_checkpoint_evidence: one pass that indexes the checkpoints, one  *)
(* that verifies them.                                                      *)

Evidence == CHOOSE e \in call.evidence : TRUE
Entry    == Evidence.entries[position]

\* The except clause of the function: status 1, no checkpoint counted.
FailEvidence ==
  /\ checkpoint_rc' = 1
  /\ checkpoint_count' = 0
  /\ pc' = "summary"
  /\ UNCHANGED << position, checkpoints, exit >>

Abort ==
  /\ Exit(1)
  /\ UNCHANGED << position, checkpoints, checkpoint_rc, checkpoint_count >>

InEvidence == UNCHANGED << call, now, keys, counters, chain, verified_by_id, chain_rc >>

OpenEvidence ==
  /\ pc = "evidence"
  /\ \/ /\ Evidence.read = "raised"
        /\ Abort
     \/ /\ \/ Evidence.read = "reported"
           \/ Evidence.read = "parsed" /\ ~(Evidence.version_ok /\ Evidence.entries_ok)
        /\ FailEvidence
     \/ /\ Evidence.read = "parsed" /\ Evidence.version_ok /\ Evidence.entries_ok
        /\ pc' = "index"
        /\ UNCHANGED << position, checkpoints, checkpoint_rc, checkpoint_count, exit >>
  /\ InEvidence

IndexVerdict ==
  Require(Entry.fields_ok, "entry_fields")
  ++ DecodeReceipt(Entry.checkpoint)
  ++ Require(ReceiptId(Entry.checkpoint) \notin DOMAIN checkpoints, "duplicate_checkpoint")

IndexCheckpoint ==
  /\ pc = "index"
  /\ position <= Len(Evidence.entries)
  /\ \/ /\ IndexVerdict = Accepted
        /\ checkpoints' = Put(checkpoints, ReceiptId(Entry.checkpoint), Entry.checkpoint)
        /\ position' = position + 1
        /\ UNCHANGED << pc, checkpoint_rc, checkpoint_count, exit >>
     \/ /\ IndexVerdict # Accepted
        /\ FailEvidence
  /\ InEvidence

EndOfIndex ==
  /\ pc = "index"
  /\ position > Len(Evidence.entries)
  /\ pc' = "checkpoints"
  /\ position' = 1
  /\ UNCHANGED << checkpoints, checkpoint_rc, checkpoint_count, exit >>
  /\ InEvidence

IsUnique(s) == \A i, j \in DOMAIN s : i # j => s[i] # s[j]

MemberIdsVerdict(entry, present) ==
  Require(entry.ids_ok /\ IsUnique(entry.member_receipt_ids), "member_receipt_ids")
  ++ Require(\A i \in DOMAIN entry.member_receipt_ids :
               entry.member_receipt_ids[i] \in present, "member_missing")

\* checkpoints.get(previous_id): the entry the context names, if it is here.
\* Mutant: the previous checkpoint is never handed over.
PreviousForgotten(c, index) == {}

Previous(c, index) ==
  {index[id] : id \in {c.payload.context.previous_id} \cap DOMAIN index}

\* A previous_checkpoint_id that is an array or an object cannot be looked up:
\* the TypeError of dict.get is not caught.
LookupRaises(c) == "previous_id_unhashable" \in c.payload.context.defects

Members(entry, index) ==
  [i \in DOMAIN entry.member_receipt_ids |-> index[entry.member_receipt_ids[i]]]

EntryCheckpointVerdict ==
  VerifyCheckpoint(Entry.checkpoint, Members(Entry, verified_by_id), keys, now,
                   {call.workspace}, {call.trusted}, Previous(Entry.checkpoint, checkpoints))

VerifyEntry ==
  LET ids == MemberIdsVerdict(Entry, DOMAIN verified_by_id)
  IN /\ pc = "checkpoints"
     /\ position <= Len(Evidence.entries)
     /\ \/ ids # Accepted /\ FailEvidence
        \/ ids = Accepted /\ LookupRaises(Entry.checkpoint) /\ Abort
        \/ /\ ids = Accepted /\ ~LookupRaises(Entry.checkpoint)
           /\ IF EntryCheckpointVerdict = Accepted
              THEN /\ position' = position + 1
                   /\ UNCHANGED << pc, checkpoints, checkpoint_rc, checkpoint_count, exit >>
              ELSE FailEvidence
     /\ InEvidence

EndOfEvidence ==
  /\ pc = "checkpoints"
  /\ position > Len(Evidence.entries)
  /\ checkpoint_count' = Len(Evidence.entries)
  /\ pc' = "summary"
  /\ UNCHANGED << position, checkpoints, checkpoint_rc, exit >>
  /\ InEvidence

-----------------------------------------------------------------------------
Summary ==
  /\ pc = "summary"
  /\ Exit(IF \/ total = 0 /\ checkpoint_count = 0
             \/ failed # 0 \/ chain_rc # 0 \/ checkpoint_rc # 0
          THEN 1 ELSE 0)
  /\ UNCHANGED << call, now, keys, position, counters, results, codes >>

\* The clock of the machine; each verification reads it again.
Tick ==
  /\ exit = Running
  /\ now < MaxNow
  /\ now' = now + 1
  /\ UNCHANGED << call, pc, keys, position, counters, results, codes, exit >>

Step ==
  \/ ParseArguments \/ LoadKeys \/ RejectKeys \/ VerifySingle
  \/ BlankLine \/ AbortAtLine \/ UndecodableLine \/ SkipLine \/ VerifyLine \/ RejectLine
  \/ EndOfExport
  \/ OpenEvidence \/ IndexCheckpoint \/ EndOfIndex \/ VerifyEntry \/ EndOfEvidence
  \/ Summary

Next == Step \/ Tick

Spec == Init /\ [][Next]_vars

\* A process that is not killed keeps executing.
FairSpec == Spec /\ WF_vars(Step)

-----------------------------------------------------------------------------
(* What the command answers, said without its loops, accumulators and order *)
(* of visits: whether the files given to it are good at time t.             *)

Checked(c) ==
  {i \in DOMAIN c.lines : Decodes(c.lines[i]) /\ InScope(c, ExtractReceipt(c.lines[i]))}

CheckedIds(c) == {ReceiptId(ExtractReceipt(c.lines[i])) : i \in Checked(c)}

CheckedReceipt(c, id) ==
  ExtractReceipt(c.lines[CHOOSE i \in Checked(c) : ReceiptId(ExtractReceipt(c.lines[i])) = id])

GoodLines(c, t) ==
  LET loaded == LoadedKeys(c.keys.document)
      receipt(i) == ExtractReceipt(c.lines[i])
      about(event) == {i \in Checked(c) : receipt(i).payload.event = event}
  IN /\ \A i \in DOMAIN c.lines : c.lines[i].form = "blank" \/ Decodes(c.lines[i])
     /\ \A i \in Checked(c) :
          Verifies(receipt(i), loaded, t, {c.workspace}, {c.trusted})
     /\ \A i, j \in Checked(c) : i # j => ReceiptId(receipt(i)) # ReceiptId(receipt(j))
     /\ c.authorization # {} =>
          /\ Cardinality(about("authorization_create")) = 1
          /\ Cardinality(about("authorization_revoke")) \in {0, 1}

GoodEvidence(c, e, t) ==
  LET id(k) == ReceiptId(e.entries[k].checkpoint)
      named(k) == {e.entries[l].checkpoint : l \in
                     {m \in DOMAIN e.entries :
                        id(m) = e.entries[k].checkpoint.payload.context.previous_id}}
      members(k) == [i \in DOMAIN e.entries[k].member_receipt_ids |->
                       CheckedReceipt(c, e.entries[k].member_receipt_ids[i])]
  IN /\ e.read = "parsed" /\ e.version_ok /\ e.entries_ok
     /\ \A k, l \in DOMAIN e.entries : k # l => id(k) # id(l)
     /\ \A k \in DOMAIN e.entries :
          /\ e.entries[k].fields_ok /\ e.entries[k].ids_ok
          /\ IsUnique(e.entries[k].member_receipt_ids)
          /\ \A i \in DOMAIN e.entries[k].member_receipt_ids :
               e.entries[k].member_receipt_ids[i] \in CheckedIds(c)
          /\ VerifyCheckpoint(e.entries[k].checkpoint, members(k),
               LoadedKeys(c.keys.document), t, {c.workspace}, {c.trusted}, named(k))
             = Accepted

Good(c, t) ==
  /\ ~UsageError(c)
  /\ KeysLoad(c)
  /\ ~c.export =>
       /\ c.receipt.read = "parsed"
       /\ Verifies(c.receipt.receipt, LoadedKeys(c.keys.document), t,
                   {c.workspace}, {c.trusted})
  /\ c.export =>
       /\ GoodLines(c, t)
       /\ \A e \in c.evidence : GoodEvidence(c, e, t)
       /\ Checked(c) # {} \/ \E e \in c.evidence : Len(e.entries) > 0

-----------------------------------------------------------------------------
TypeOK ==
  /\ call \in Invocations
  /\ now \in StartNow .. MaxNow
  /\ pc \in {"main", "load_keys", "single", "export", "evidence", "index",
             "checkpoints", "summary", "exited"}
  /\ keys \in Seq(KeyType)
  /\ position \in Nat \ {0}
  /\ ok \in Nat /\ failed \in Nat /\ skipped \in Nat /\ total \in Nat
  /\ chain \in Seq({r.payload : r \in ExportedReceipts(call)})
  /\ \A id \in DOMAIN verified_by_id : verified_by_id[id] \in ExportedReceipts(call)
  /\ chain_rc \in {0, 1} /\ checkpoint_rc \in {0, 1} /\ checkpoint_count \in Nat
  /\ exit \in {Running, 0, 1, 2}

\* Every line that is not blank is counted once, as ok, failed or skipped, and
\* the chain and the index hold as many receipts as were counted as ok: what the
\* exit status rests on (_verify_export).
Accounting ==
  /\ total = ok + failed
  /\ pc = "export" =>
       total + skipped = Cardinality({i \in 1 .. position - 1 : call.lines[i].form # "blank"})
  /\ Len(chain) = ok
  /\ Cardinality(DOMAIN verified_by_id) = ok

\* A receipt the command has reported OK is one that verifies now, however far
\* the clock has moved since and whatever lines came after it, and it is
\* filed under its own id (_verify_export hands verified_by_id to
\* verify_checkpoint as the signed receipts).
VerifiedStaysVerified ==
  \A id \in DOMAIN verified_by_id :
    /\ Verdict(verified_by_id[id]) = Accepted
    /\ ReceiptId(verified_by_id[id]) = id
    /\ InScope(call, verified_by_id[id])

\* A later line with the same receipt_id never replaces a verified receipt.
FirstLineWins ==
  [][\A id \in DOMAIN verified_by_id :
       id \in DOMAIN verified_by_id' /\ verified_by_id'[id] = verified_by_id[id]]_vars

\* Status 0 is earned, and withheld only for a reason: the command exits 0 only
\* if its files are good when it ends, whatever their order, and must exit 0 if
\* they were good when it began (python/README.md,
\* "0 valid, 1 invalid evidence/checkpoint/chain, 2 command-line usage error").
ExitStatusIsMerited ==
  exit # Running =>
    /\ exit = 0 => Good(call, now)
    /\ Good(call, StartNow) => exit = 0
    /\ exit = 2 <=> UsageError(call)

\* The entries of the evidence that entry k rests on: those the links lead to
\* from k, which every set closed under the links has that has the first.
Ancestors(e, k) ==
  LET named(m) == {l \in DOMAIN e.entries :
                     ReceiptId(e.entries[l].checkpoint)
                       = e.entries[m].checkpoint.payload.context.previous_id}
      closed == {S \in SUBSET DOMAIN e.entries :
                   named(k) \subseteq S /\ \A m \in S : named(m) \subseteq S}
  IN {l \in DOMAIN e.entries : \A S \in closed : l \in S}

\* When the evidence is accepted, the links of its checkpoints lead strictly
\* back in time, so that they end, and no receipt is committed twice along
\* them (verify_checkpoint, previous_checkpoint).
LinkedDaysAreDisjoint ==
  exit = 0 =>
    \A e \in call.evidence :
      \A k \in DOMAIN e.entries : \A l \in Ancestors(e, k) :
        LET earlier == e.entries[l]
            later   == e.entries[k]
        IN /\ earlier.checkpoint.payload.context.period_end
                <= later.checkpoint.payload.context.period_start
           /\ \A i \in DOMAIN earlier.member_receipt_ids :
                \A j \in DOMAIN later.member_receipt_ids :
                  earlier.member_receipt_ids[i] # later.member_receipt_ids[j]

\* An accepted checkpoint commits exactly the receipts its entry names: with
\* any one of them left out, or any other receipt of the export added or
\* put in its place, the committed root is not reproduced (verify_checkpoint).
CommitmentIsExact ==
  exit = 0 =>
    \A e \in call.evidence : \A k \in DOMAIN e.entries :
      LET entry == e.entries[k]
          named == {entry.member_receipt_ids[i] : i \in DOMAIN entry.member_receipt_ids}
      IN \A ids \in SUBSET DOMAIN verified_by_id :
           (CheckpointMerkleRoot([i \in 1 .. Cardinality(ids) |->
              verified_by_id[SetToSeq(ids)[i]]])
              = entry.checkpoint.payload.context.merkle_root)
           <=> ids = named

\* A scoped export and checkpoint evidence exclude each other (main:
\* "--checkpoint-evidence cannot be used with an authorization-scoped export").
ScopedExportTakesNoEvidence ==
  pc = "export" => call.authorization = {} \/ call.evidence = {}

\* The command ends, whatever its files hold.
Terminates == <>(exit # Running)
=============================================================================
