-------------------------- MODULE VerifierCliProofs --------------------------
(***************************************************************************)
(* Proofs about one run of verify-receipt, for every export, key document, *)
(* evidence file and option, and for every pace of the clock.              *)
(***************************************************************************)
EXTENDS VerifierCli, ReceiptRulesProofs, FiniteSetTheorems

NotBlank(k) == {i \in 1 .. k : call.lines[i].form # "blank"}

(***************************************************************************)
(* The inductive invariant.  Nothing is counted before the export is read; *)
(* what is verified was verified with the keys and the clock of an earlier *)
(* state, which the rules carry over to this one.                          *)
(***************************************************************************)
NothingCountedBefore ==
  pc \in {"main", "load_keys", "single"} =>
    /\ position = 1
    /\ ok = 0 /\ failed = 0 /\ skipped = 0 /\ total = 0
    /\ chain = << >>
    /\ verified_by_id = << >>

EvidenceIsGiven == pc \in {"evidence", "index", "checkpoints"} => call.evidence # {}

CliInv ==
  /\ TypeOK
  /\ EvidenceIsGiven
  /\ NothingCountedBefore
  /\ Accounting
  /\ IsFiniteSet(DOMAIN verified_by_id)
  /\ VerifiedStaysVerified

-----------------------------------------------------------------------------
\* Reading one more line that is not blank adds one to their number; reading a
\* blank one adds none.
LEMMA OneMoreLine ==
  ASSUME NEW k \in Nat
  PROVE  /\ IsFiniteSet(NotBlank(k)) /\ Cardinality(NotBlank(k)) \in Nat
         /\ Cardinality(NotBlank(k + 1)) =
              IF call.lines[k + 1].form = "blank"
              THEN Cardinality(NotBlank(k)) ELSE Cardinality(NotBlank(k)) + 1
<1>1. IsFiniteSet(NotBlank(k)) /\ Cardinality(NotBlank(k)) \in Nat
  <2>1. IsFiniteSet(1 .. k)
    BY FS_Interval
  <2>2. NotBlank(k) \subseteq 1 .. k
    BY DEF NotBlank
  <2> QED
    BY <2>1, <2>2, FS_Subset, FS_CardinalityType
<1>2. k + 1 \notin NotBlank(k)
  BY DEF NotBlank
<1>3. CASE call.lines[k + 1].form = "blank"
  <2>1. NotBlank(k + 1) = NotBlank(k)
    BY <1>3 DEF NotBlank
  <2> QED
    BY <1>1, <1>3, <2>1
<1>4. CASE call.lines[k + 1].form # "blank"
  <2>1. NotBlank(k + 1) = NotBlank(k) \union {k + 1}
    BY <1>4 DEF NotBlank
  <2> QED
    BY <1>1, <1>2, <1>4, <2>1, FS_AddElement
<1> QED
  BY <1>3, <1>4

-----------------------------------------------------------------------------
\* Before main runs nothing is counted.
LEMMA CliInvInit == Init => CliInv
<1> SUFFICES ASSUME Init PROVE CliInv
  OBVIOUS
<1>1. TypeOK
  BY ClockAssumption DEF Init, TypeOK, Running
<1>2. IsFiniteSet(DOMAIN verified_by_id) /\ Cardinality(DOMAIN verified_by_id) = 0
  BY FS_EmptySet DEF Init
<1> QED
  BY <1>1, <1>2 DEF Init, CliInv, EvidenceIsGiven, NothingCountedBefore, Accounting, VerifiedStaysVerified

\* A step outside the loop over the lines, which neither counts nor verifies.
LEMMA NothingCounted ==
  ASSUME CliInv, TypeOK',
         UNCHANGED << call, now, keys, counters, chain, verified_by_id >>,
         pc' # "export",
         pc' \in {"main", "load_keys", "single"} =>
           pc \in {"main", "load_keys", "single"} /\ position' = position,
         EvidenceIsGiven'
  PROVE  CliInv'
<1>1. NothingCountedBefore' /\ Accounting'
  BY DEF CliInv, NothingCountedBefore, Accounting, counters
<1>2. IsFiniteSet(DOMAIN verified_by_id)' /\ VerifiedStaysVerified'
  BY DEF CliInv, VerifiedStaysVerified, Verdict, InScope
<1> QED
  BY <1>1, <1>2 DEF CliInv

\* The steps of _verify_checkpoint_evidence and of the summary.
LEMMA EvidenceKeepsInv ==
  ASSUME CliInv,
         OpenEvidence \/ IndexCheckpoint \/ EndOfIndex \/ VerifyEntry \/ EndOfEvidence
           \/ Summary \/ EndOfExport
  PROVE  CliInv'
<1> USE DEF Exit, InEvidence, FailEvidence, Abort, counters, results, codes, Running
<1>1. CASE OpenEvidence
  <2>1. TypeOK'
    BY <1>1 DEF OpenEvidence, CliInv, TypeOK
  <2> QED
    BY <1>1, <2>1, NothingCounted DEF OpenEvidence, CliInv, EvidenceIsGiven
<1>2. CASE IndexCheckpoint
  <2>1. TypeOK'
    BY <1>2 DEF IndexCheckpoint, CliInv, TypeOK
  <2> QED
    BY <1>2, <2>1, NothingCounted DEF IndexCheckpoint, CliInv, EvidenceIsGiven
<1>3. CASE EndOfIndex
  <2>1. TypeOK'
    BY <1>3 DEF EndOfIndex, CliInv, TypeOK
  <2> QED
    BY <1>3, <2>1, NothingCounted DEF EndOfIndex, CliInv, EvidenceIsGiven
<1>4. CASE VerifyEntry
  <2>1. TypeOK'
    BY <1>4 DEF VerifyEntry, CliInv, TypeOK
  <2> QED
    BY <1>4, <2>1, NothingCounted DEF VerifyEntry, CliInv, EvidenceIsGiven
<1>5. CASE EndOfEvidence
  <2>1. Len(Evidence.entries) \in Nat
    <3>1. call.evidence # {}
      BY <1>5 DEF EndOfEvidence, CliInv, EvidenceIsGiven
    <3>2. Evidence \in call.evidence
      BY <3>1 DEF Evidence
    <3> QED
      BY <3>2, InvocationsAssumption DEF CliInv, TypeOK
  <2>2. TypeOK'
    BY <1>5, <2>1 DEF EndOfEvidence, CliInv, TypeOK
  <2> QED
    BY <1>5, <2>2, NothingCounted DEF EndOfEvidence, CliInv, EvidenceIsGiven
<1>6. CASE Summary
  <2>1. TypeOK'
    BY <1>6 DEF Summary, CliInv, TypeOK
  <2> QED
    BY <1>6, <2>1, NothingCounted DEF Summary, CliInv, EvidenceIsGiven
<1>7. CASE EndOfExport
  <2>1. TypeOK'
    BY <1>7 DEF EndOfExport, CheckChainInvariants, CliInv, TypeOK
  <2> QED
    BY <1>7, <2>1, NothingCounted DEF EndOfExport, CliInv, EvidenceIsGiven
<1> QED
  BY <1>1, <1>2, <1>3, <1>4, <1>5, <1>6, <1>7

\* The steps of main.
LEMMA MainKeepsInv ==
  ASSUME CliInv, ParseArguments \/ LoadKeys \/ RejectKeys \/ VerifySingle
  PROVE  CliInv'
<1> USE DEF Exit, counters, results, codes, Running
<1>1. CASE ParseArguments
  <2>1. TypeOK'
    BY <1>1 DEF ParseArguments, CliInv, TypeOK
  <2> QED
    BY <1>1, <2>1, NothingCounted DEF ParseArguments, CliInv, EvidenceIsGiven
<1>2. CASE LoadKeys
  <2>1. keys' \in Seq(KeyType)
    <3>1. call.keys.document \in DocumentType
      BY InvocationsAssumption DEF CliInv, TypeOK
    <3>2. call.keys.document.keys \in Seq(Entries)
      BY <3>1 DEF DocumentType
    <3>3. \A e \in Entries : LoadedKey(e) \in KeyType
      BY DEF Entries, Texts, LoadedKey, KeyType
    <3> QED
      BY <1>2, <3>2, <3>3 DEF LoadKeys, LoadedKeys
  <2>2. TypeOK'
    BY <1>2, <2>1 DEF LoadKeys, CliInv, TypeOK
  <2>3. NothingCountedBefore'
    BY <1>2 DEF LoadKeys, CliInv, NothingCountedBefore
  <2>4. Accounting'
    <3>1. {i \in 1 .. position' - 1 : call'.lines[i].form # "blank"} = {}
      BY <1>2 DEF LoadKeys, CliInv, NothingCountedBefore
    <3> QED
      BY <1>2, <3>1, FS_EmptySet DEF LoadKeys, CliInv, NothingCountedBefore, Accounting
  <2>5. IsFiniteSet(DOMAIN verified_by_id)' /\ VerifiedStaysVerified'
    BY <1>2, FS_EmptySet
       DEF LoadKeys, CliInv, NothingCountedBefore, VerifiedStaysVerified
  <2> QED
    BY <1>2, <2>2, <2>3, <2>4, <2>5 DEF LoadKeys, CliInv, EvidenceIsGiven
<1>3. CASE RejectKeys
  <2>1. TypeOK'
    BY <1>3 DEF RejectKeys, CliInv, TypeOK
  <2> QED
    BY <1>3, <2>1, NothingCounted DEF RejectKeys, CliInv, EvidenceIsGiven
<1>4. CASE VerifySingle
  <2>1. TypeOK'
    BY <1>4 DEF VerifySingle, CliInv, TypeOK
  <2> QED
    BY <1>4, <2>1, NothingCounted DEF VerifySingle, CliInv, EvidenceIsGiven
<1> QED
  BY <1>1, <1>2, <1>3, <1>4

\* The clock: what was verified stays verified.
LEMMA TickKeepsInv ==
  ASSUME CliInv, Tick
  PROVE  CliInv'
<1> USE DEF counters, results, codes
<1>1. TypeOK'
  BY ClockAssumption DEF Tick, CliInv, TypeOK
<1>2. NothingCountedBefore' /\ Accounting' /\ IsFiniteSet(DOMAIN verified_by_id)'
      /\ EvidenceIsGiven'
  BY DEF Tick, CliInv, NothingCountedBefore, Accounting, EvidenceIsGiven
<1>3. VerifiedStaysVerified'
  <2> SUFFICES ASSUME NEW id \in DOMAIN verified_by_id
               PROVE  VerifyReceipt(verified_by_id[id], keys, now', {call.workspace},
                                    {call.trusted}) = Accepted
    BY DEF Tick, CliInv, VerifiedStaysVerified, Verdict, InScope
  <2>1. verified_by_id[id].payload.issued_at \in Int
    BY InvocationsAssumption DEF CliInv, TypeOK
  <2>2. now \in Nat /\ now' \in Nat /\ now <= now'
    BY ClockAssumption DEF Tick, CliInv, TypeOK
  <2> QED
    BY <2>1, <2>2, AcceptedLater DEF CliInv, VerifiedStaysVerified, Verdict
<1> QED
  BY <1>1, <1>2, <1>3 DEF CliInv

-----------------------------------------------------------------------------
\* A line that is not verified: whatever is counted, it is counted as failed or
\* skipped, and a line that is not blank is counted.
LEMMA UnverifiedLine ==
  ASSUME CliInv, AtLine, pc' \in {"export", "exited"},
         UNCHANGED << ok, chain, verified_by_id >>,
         exit' \in {exit, 1},
         \/ /\ UNCHANGED << failed, skipped, total >>
            /\ Line.form = "blank" \/ pc' = "exited"
         \/ /\ Line.form # "blank"
            /\ \/ failed' = failed + 1 /\ total' = total + 1 /\ skipped' = skipped
               \/ skipped' = skipped + 1 /\ UNCHANGED << failed, total >>
  PROVE  CliInv'
<1> USE DEF codes, Running
<1>1. /\ pc = "export" /\ position' = position + 1
      /\ UNCHANGED << call, now, keys, checkpoints, codes >>
  BY DEF AtLine
<1>2. TypeOK'
  BY <1>1 DEF CliInv, TypeOK
<1>3. Accounting'
  <2> DEFINE k == position - 1
  <2>1. k \in Nat /\ k + 1 = position /\ position' - 1 = k + 1
    BY <1>1 DEF CliInv, TypeOK
  <2>2. /\ Cardinality(NotBlank(k)) \in Nat
        /\ Cardinality(NotBlank(k + 1)) =
              IF call.lines[k + 1].form = "blank"
              THEN Cardinality(NotBlank(k)) ELSE Cardinality(NotBlank(k)) + 1
    BY <2>1, OneMoreLine
  <2>3. total + skipped = Cardinality(NotBlank(k))
    BY <1>1 DEF CliInv, Accounting, NotBlank
  <2>4. pc' = "export" => total' + skipped' = Cardinality(NotBlank(k + 1))
    BY <2>1, <2>2, <2>3 DEF CliInv, TypeOK, Line
  <2>5. total' = ok' + failed'
    BY DEF CliInv, TypeOK, Accounting
  <2>6. NotBlank(k + 1) = {i \in 1 .. position' - 1 : call'.lines[i].form # "blank"}
    BY <1>1, <2>1 DEF NotBlank
  <2> QED
    BY <2>4, <2>5, <2>6 DEF CliInv, Accounting
<1>4. VerifiedStaysVerified' /\ IsFiniteSet(DOMAIN verified_by_id)'
  BY <1>1 DEF CliInv, VerifiedStaysVerified, Verdict, InScope
<1> QED
  BY <1>2, <1>3, <1>4 DEF CliInv, NothingCountedBefore, EvidenceIsGiven

\* A line that is verified enters every account at once.
LEMMA VerifiedLine ==
  ASSUME CliInv, VerifyLine
  PROVE  /\ CliInv'
         /\ \A id \in DOMAIN verified_by_id :
              id \in DOMAIN verified_by_id' /\ verified_by_id'[id] = verified_by_id[id]
<1> USE DEF codes, Running
<1> DEFINE new == ReceiptId(Receipt)
<1>1. /\ pc = "export" /\ pc' = pc /\ exit' = exit /\ position' = position + 1
      /\ position <= Len(call.lines)
      /\ UNCHANGED << call, now, keys, checkpoints, codes, failed, skipped >>
      /\ total' = total + 1 /\ ok' = ok + 1
      /\ chain' = Append(chain, Receipt.payload)
      /\ verified_by_id' = Put(verified_by_id, new, Receipt)
      /\ Line.form = "object"
      /\ InScope(call, Receipt)
  BY DEF VerifyLine, AtLine, Decodes
<1>2. Verdict(Receipt) = Accepted /\ new \notin DOMAIN verified_by_id
  <2> DEFINE verdict == Verdict(Receipt)
             isNew   == new \notin DOMAIN verified_by_id
  <2>1. verdict ++ Require(isNew, "duplicate_receipt_id") = Accepted
    BY DEF VerifyLine, LineVerdict
  <2>2. isNew \in BOOLEAN /\ "duplicate_receipt_id" # Accepted
    BY DEF Accepted
  <2> HIDE DEF verdict, isNew
  <2>3. verdict = Accepted /\ isNew
    BY <2>1, <2>2, AndThenAccepts, RequireAccepts
  <2> QED
    BY <2>3 DEF verdict, isNew
<1>3. Receipt \in ExportedReceipts(call)
  <2>1. position \in DOMAIN call.lines
    BY <1>1, InvocationsAssumption DEF CliInv, TypeOK
  <2> QED
    BY <2>1 DEF ExportedReceipts, Receipt, Line
<1> HIDE DEF new
<1>4. /\ DOMAIN verified_by_id' = DOMAIN verified_by_id \union {new}
      /\ verified_by_id'[new] = Receipt
      /\ \A id \in DOMAIN verified_by_id : verified_by_id'[id] = verified_by_id[id]
  BY <1>1, <1>2 DEF Put
<1>5. TypeOK'
  <2>1. chain' \in Seq({r.payload : r \in ExportedReceipts(call')})
    BY <1>1, <1>3 DEF CliInv, TypeOK
  <2>2. \A id \in DOMAIN verified_by_id' : verified_by_id'[id] \in ExportedReceipts(call')
    BY <1>1, <1>3, <1>4 DEF CliInv, TypeOK
  <2> QED
    BY <1>1, <2>1, <2>2 DEF CliInv, TypeOK
<1>6. IsFiniteSet(DOMAIN verified_by_id') /\ Cardinality(DOMAIN verified_by_id') = ok'
  BY <1>1, <1>2, <1>4, FS_AddElement DEF CliInv, TypeOK, Accounting
<1>7. Accounting'
  <2> DEFINE k == position - 1
  <2>1. k \in Nat /\ k + 1 = position /\ position' - 1 = k + 1
    BY <1>1 DEF CliInv, TypeOK
  <2>2. /\ Cardinality(NotBlank(k)) \in Nat
        /\ Cardinality(NotBlank(k + 1)) = Cardinality(NotBlank(k)) + 1
    BY <1>1, <2>1, OneMoreLine DEF Line
  <2>3. total + skipped = Cardinality(NotBlank(k))
    BY <1>1 DEF CliInv, Accounting, NotBlank
  <2>4. total' + skipped' = Cardinality(NotBlank(k + 1))
    BY <1>1, <2>2, <2>3 DEF CliInv, TypeOK
  <2>5. total' = ok' + failed' /\ Len(chain') = ok'
    BY <1>1 DEF CliInv, TypeOK, Accounting
  <2>6. NotBlank(k + 1) = {i \in 1 .. position' - 1 : call'.lines[i].form # "blank"}
    BY <1>1, <2>1 DEF NotBlank
  <2> QED
    BY <1>6, <2>4, <2>5, <2>6 DEF Accounting
<1>8. VerifiedStaysVerified'
  <2> DEFINE Holds(r) == VerifyReceipt(r, keys, now, {call.workspace}, {call.trusted}) = Accepted
  <2>1. Holds(Receipt) /\ ReceiptId(Receipt) = new /\ InScope(call, Receipt)
    BY <1>1, <1>2 DEF Verdict, new
  <2>2. \A id \in DOMAIN verified_by_id :
          /\ Holds(verified_by_id[id])
          /\ ReceiptId(verified_by_id[id]) = id
          /\ InScope(call, verified_by_id[id])
    BY DEF CliInv, VerifiedStaysVerified, Verdict
  <2>3. /\ keys' = keys /\ now' = now /\ call' = call
    BY <1>1
  <2> HIDE DEF Holds
  <2>4. \A id \in DOMAIN verified_by_id' :
          /\ Holds(verified_by_id'[id])
          /\ ReceiptId(verified_by_id'[id]) = id
          /\ InScope(call, verified_by_id'[id])
    BY <1>4, <2>1, <2>2
  <2> QED
    BY <2>3, <2>4 DEF Holds, VerifiedStaysVerified, Verdict
<1> QED
  BY <1>1, <1>4, <1>5, <1>6, <1>7, <1>8 DEF CliInv, NothingCountedBefore, EvidenceIsGiven

\* The lines that are not verified.
LEMMA OtherLines ==
  ASSUME CliInv, BlankLine \/ AbortAtLine \/ UndecodableLine \/ SkipLine \/ RejectLine
  PROVE  CliInv' /\ UNCHANGED verified_by_id
<1> USE DEF counters, Exit
<1>1. CASE BlankLine
  BY <1>1, UnverifiedLine DEF BlankLine, AtLine
<1>2. CASE AbortAtLine
  BY <1>2, UnverifiedLine DEF AbortAtLine, AtLine
<1>3. CASE UndecodableLine
  BY <1>3, UnverifiedLine DEF UndecodableLine, AtLine
<1>4. CASE SkipLine
  BY <1>4, UnverifiedLine DEF SkipLine, AtLine, Decodes
<1>5. CASE RejectLine
  BY <1>5, UnverifiedLine DEF RejectLine, AtLine, Decodes
<1> QED
  BY <1>1, <1>2, <1>3, <1>4, <1>5

\* Every step keeps the invariant, and keeps what is filed under an id.
LEMMA CliInvNext ==
  ASSUME CliInv, [Next]_vars
  PROVE  /\ CliInv'
         /\ \A id \in DOMAIN verified_by_id :
              id \in DOMAIN verified_by_id' /\ verified_by_id'[id] = verified_by_id[id]
<1>1. CASE ParseArguments \/ LoadKeys \/ RejectKeys \/ VerifySingle
  <2>1. UNCHANGED verified_by_id
    BY <1>1 DEF ParseArguments, LoadKeys, RejectKeys, VerifySingle, results
  <2> QED
    BY <1>1, <2>1, MainKeepsInv
<1>2. CASE OpenEvidence \/ IndexCheckpoint \/ EndOfIndex \/ VerifyEntry \/ EndOfEvidence
             \/ Summary \/ EndOfExport
  <2>1. UNCHANGED verified_by_id
    BY <1>2 DEF OpenEvidence, IndexCheckpoint, EndOfIndex, VerifyEntry, EndOfEvidence,
                Summary, EndOfExport, InEvidence, results
  <2> QED
    BY <1>2, <2>1, EvidenceKeepsInv
<1>3. CASE BlankLine \/ AbortAtLine \/ UndecodableLine \/ SkipLine \/ RejectLine
  BY <1>3, OtherLines
<1>4. CASE VerifyLine
  BY <1>4, VerifiedLine
<1>5. CASE Tick
  <2>1. UNCHANGED verified_by_id
    BY <1>5 DEF Tick, results
  <2> QED
    BY <1>5, <2>1, TickKeepsInv
<1>6. CASE UNCHANGED vars
  <2>1. UNCHANGED << call, now, pc, keys, position, counters, results, codes, exit >>
    BY <1>6 DEF vars
  <2> QED
    BY <2>1 DEF counters, results, codes, CliInv, TypeOK, EvidenceIsGiven,
                NothingCountedBefore, Accounting, VerifiedStaysVerified, Verdict, InScope
<1> QED
  BY <1>1, <1>2, <1>3, <1>4, <1>5, <1>6 DEF Next, Step

\* The invariant holds throughout a run of the command.
LEMMA CliInvAlways == Spec => []CliInv
<1>1. CliInv /\ [Next]_vars => CliInv'
  BY CliInvNext
<1> QED
  BY CliInvInit, <1>1, PTL DEF Spec

-----------------------------------------------------------------------------
\* Type correctness of the command, for every invocation.
THEOREM CliTypeCorrect == Spec => []TypeOK
<1>1. CliInv => TypeOK
  BY DEF CliInv
<1> QED
  BY <1>1, CliInvAlways, PTL

\* However long the export and whatever its lines, each line that is not blank
\* is counted once and the chain and the index hold as many receipts as were verified.
THEOREM CountsAreRight == Spec => []Accounting
<1>1. CliInv => Accounting
  BY DEF CliInv
<1> QED
  BY <1>1, CliInvAlways, PTL

\* What has been reported OK never ceases to verify while the command runs.
THEOREM VerifiedForGood == Spec => []VerifiedStaysVerified
<1>1. CliInv => VerifiedStaysVerified
  BY DEF CliInv
<1> QED
  BY <1>1, CliInvAlways, PTL

\* A receipt_id names the same receipt from the line that verified to the end.
THEOREM FirstReceiptStays == Spec => FirstLineWins
<1>1. CliInv /\ [Next]_vars =>
        [\A id \in DOMAIN verified_by_id :
           id \in DOMAIN verified_by_id' /\ verified_by_id'[id] = verified_by_id[id]]_vars
  BY CliInvNext
<1> QED
  BY <1>1, CliInvAlways, PTL DEF Spec, FirstLineWins

-----------------------------------------------------------------------------
(***************************************************************************)
(* The exit status.  The invariant says of each loop what is known of the  *)
(* first n elements: while nothing has failed, everything Good asks of     *)
(* them; and nothing fails if the files were good when the command began.  *)
(***************************************************************************)
Of(i) == ExtractReceipt(call.lines[i])

Taken(n) == {i \in Checked(call) : i <= n}

Bearing(n, event) == {i \in Taken(n) : Of(i).payload.event = event}

LinesAreSound(n) ==
  /\ \A i \in DOMAIN call.lines :
       i <= n => call.lines[i].form = "blank" \/ Decodes(call.lines[i])
  /\ \A i \in Taken(n) : /\ ReceiptId(Of(i)) \in DOMAIN verified_by_id
                         /\ verified_by_id[ReceiptId(Of(i))] = Of(i)
  /\ \A i, j \in Taken(n) : i # j => ReceiptId(Of(i)) # ReceiptId(Of(j))
  /\ \A event \in LifecycleEvents : CountEvents(event) = Cardinality(Bearing(n, event))
  /\ total = 0 <=> Taken(n) = {}

LinesAreTaken(n) ==
  /\ \A id \in DOMAIN verified_by_id : \E i \in Taken(n) : verified_by_id[id] = Of(i)
  /\ failed = 0 => LinesAreSound(n)
  /\ GoodLines(call, StartNow) => failed = 0

ChainIsJudged ==
  failed = 0 =>
    (chain_rc = 0 <=>
       (call.authorization # {} =>
          /\ CountEvents("authorization_create") = 1
          /\ CountEvents("authorization_revoke") <= 1))

EntryId(k) == ReceiptId(Evidence.entries[k].checkpoint)

EntriesAreIndexed(n) ==
  /\ Evidence.read = "parsed" /\ Evidence.version_ok /\ Evidence.entries_ok
  /\ \A k \in DOMAIN Evidence.entries :
       k <= n => /\ Evidence.entries[k].fields_ok
                 /\ EntryId(k) \in DOMAIN checkpoints
                 /\ checkpoints[EntryId(k)] = Evidence.entries[k].checkpoint
  /\ \A id \in DOMAIN checkpoints : \E k \in DOMAIN Evidence.entries : k <= n /\ id = EntryId(k)
  /\ \A k, l \in DOMAIN Evidence.entries : k <= n /\ l <= n /\ k # l => EntryId(k) # EntryId(l)

EntryHolds(entry) ==
  /\ entry.ids_ok /\ IsUnique(entry.member_receipt_ids)
  /\ \A i \in DOMAIN entry.member_receipt_ids :
       entry.member_receipt_ids[i] \in DOMAIN verified_by_id
  /\ VerifyCheckpoint(entry.checkpoint, Members(entry, verified_by_id), keys, now,
                      {call.workspace}, {call.trusted}, Previous(entry.checkpoint, checkpoints))
       = Accepted

EntriesHold(n) ==
  \A k \in DOMAIN Evidence.entries : k <= n => EntryHolds(Evidence.entries[k])

\* What main has established.
MainIsDone ==
  /\ pc = "exited" <=> exit # Running
  /\ pc \notin {"main", "exited"} => ~UsageError(call)
  /\ pc \notin {"main", "load_keys", "exited"} =>
       KeysLoad(call) /\ keys = LoadedKeys(call.keys.document)
  /\ pc = "single" => ~call.export
  /\ pc \in {"export", "evidence", "index", "checkpoints", "summary"} => call.export

LinesInv ==
  /\ pc = "export" => LinesAreTaken(position - 1)
  /\ pc \in {"evidence", "index", "checkpoints", "summary"} =>
       LinesAreTaken(Len(call.lines)) /\ ChainIsJudged

EvidenceInv ==
  /\ pc \in {"main", "load_keys", "single", "export", "evidence"} =>
       checkpoints = << >>
  /\ pc \in {"main", "load_keys", "single", "export", "evidence", "index", "checkpoints"} =>
       checkpoint_rc = 0 /\ checkpoint_count = 0
  /\ pc = "evidence" => position = 1
  /\ pc = "index" => EntriesAreIndexed(position - 1)
  /\ pc = "checkpoints" => EntriesAreIndexed(Len(Evidence.entries)) /\ EntriesHold(position - 1)
  /\ pc = "summary" =>
       /\ call.evidence = {} => checkpoint_rc = 0 /\ checkpoint_count = 0
       /\ call.evidence # {} =>
            /\ checkpoint_rc = 0 =>
                 /\ EntriesAreIndexed(Len(Evidence.entries)) /\ EntriesHold(Len(Evidence.entries))
                 /\ checkpoint_count = Len(Evidence.entries)
            /\ GoodLines(call, StartNow) /\ GoodEvidence(call, Evidence, StartNow) =>
                 checkpoint_rc = 0

StatusInv == CliInv /\ MainIsDone /\ LinesInv /\ EvidenceInv /\ ExitStatusIsMerited

-----------------------------------------------------------------------------
\* verify_checkpoint accepts when each of its checks does.
LEMMA CheckpointAccepts ==
  ASSUME NEW c, NEW members, NEW n \in Nat, DOMAIN members = 1 .. n,
         NEW ks, NEW t, NEW w, NEW trust, NEW previous
  PROVE  (VerifyCheckpoint(c, members, ks, t, w, trust, previous) = Accepted) <=>
           /\ VerifyReceipt(c, ks, t, w, trust) = Accepted
           /\ IsCheckpoint(c.payload)
           /\ \A i \in 1 .. n :
                /\ VerifyReceipt(members[i], ks, t, w, trust) = Accepted
                /\ ~IsCheckpoint(members[i].payload)
                /\ InPeriod(c.payload.context, members[i].payload.issued_at)
           /\ c.payload.context.receipt_count = Len(members)
           /\ CheckMembers(members) = Accepted
           /\ c.payload.context.merkle_root = CheckpointMerkleRoot(members)
           /\ previous # {} =>
                VerifyLink(c.payload.context, CHOOSE r \in previous : TRUE, ks, t, w, trust)
                  = Accepted
<1> DEFINE context == c.payload.context
           verdicts == [i \in DOMAIN members |-> VerifyMember(context, members[i], ks, t, w, trust)]
           receipt == VerifyReceipt(c, ks, t, w, trust)
           kind == Require(IsCheckpoint(c.payload), "not_a_checkpoint")
           each == FirstRejection(verdicts)
           count == Require(context.receipt_count = Len(members), "count_mismatch")
           unique == CheckMembers(members)
           root == Require(context.merkle_root = CheckpointMerkleRoot(members), "root_mismatch")
           link == IF previous = {} THEN Accepted
                   ELSE VerifyLink(context, CHOOSE r \in previous : TRUE, ks, t, w, trust)
<1>1. VerifyCheckpoint(c, members, ks, t, w, trust, previous)
        = receipt ++ kind ++ each ++ count ++ unique ++ root ++ link
  BY DEF VerifyCheckpoint
<1>2. (receipt ++ kind ++ each ++ count ++ unique ++ root ++ link = Accepted) <=>
        /\ receipt = Accepted /\ kind = Accepted /\ each = Accepted /\ count = Accepted
        /\ unique = Accepted /\ root = Accepted /\ link = Accepted
  <2> HIDE DEF receipt, kind, each, count, unique, root, link
  <2> QED
    BY AndThenAccepts
<1>3. /\ kind = Accepted <=> IsCheckpoint(c.payload)
      /\ count = Accepted <=> context.receipt_count = Len(members)
      /\ root = Accepted <=> context.merkle_root = CheckpointMerkleRoot(members)
  BY DEF Require, Accepted
<1>4. each = Accepted <=> \A i \in 1 .. n : verdicts[i] = Accepted
  <2>1. DOMAIN verdicts = 1 .. n
    OBVIOUS
  <2> HIDE DEF verdicts
  <2> QED
    BY <2>1, FirstRejectionAccepts
<1>5. ASSUME NEW i \in 1 .. n
      PROVE  verdicts[i] = Accepted <=>
               /\ VerifyReceipt(members[i], ks, t, w, trust) = Accepted
               /\ ~IsCheckpoint(members[i].payload)
               /\ InPeriod(context, members[i].payload.issued_at)
  <2> DEFINE own == VerifyReceipt(members[i], ks, t, w, trust)
             other == Require(~IsCheckpoint(members[i].payload), "checkpoint_member")
             inside == Require(InPeriod(context, members[i].payload.issued_at), "member_outside_period")
  <2>1. verdicts[i] = own ++ other ++ inside
    BY DEF VerifyMember
  <2>2. (own ++ other ++ inside = Accepted) <=> own = Accepted /\ other = Accepted /\ inside = Accepted
    <3> HIDE DEF own, other, inside
    <3> QED BY AndThenAccepts
  <2>3. /\ other = Accepted <=> ~IsCheckpoint(members[i].payload)
        /\ inside = Accepted <=> InPeriod(context, members[i].payload.issued_at)
    BY DEF Require, Accepted
  <2> HIDE DEF verdicts
  <2> QED
    BY <2>1, <2>2, <2>3
<1>6. link = Accepted <=>
        (previous # {} =>
           VerifyLink(context, CHOOSE r \in previous : TRUE, ks, t, w, trust) = Accepted)
  OBVIOUS
<1> HIDE DEF receipt, kind, each, count, unique, root, link, verdicts
<1>7. receipt = Accepted <=> VerifyReceipt(c, ks, t, w, trust) = Accepted
  BY DEF receipt
<1>8. unique = Accepted <=> CheckMembers(members) = Accepted
  BY DEF unique
<1> QED
  BY <1>1, <1>2, <1>3, <1>4, <1>5, <1>6, <1>7, <1>8

LEMMA CheckpointVerifies ==
  ASSUME NEW c, NEW members, NEW n \in Nat, DOMAIN members = 1 .. n,
         NEW ks, NEW t, NEW w, NEW trust, NEW previous,
         VerifyCheckpoint(c, members, ks, t, w, trust, previous) = Accepted
  PROVE  VerifyReceipt(c, ks, t, w, trust) = Accepted /\ IsCheckpoint(c.payload)
  BY CheckpointAccepts

LEMMA MembersVerify ==
  ASSUME NEW c, NEW members, NEW n \in Nat, DOMAIN members = 1 .. n,
         NEW ks, NEW t, NEW w, NEW trust, NEW previous,
         VerifyCheckpoint(c, members, ks, t, w, trust, previous) = Accepted,
         NEW i \in 1 .. n
  PROVE  VerifyReceipt(members[i], ks, t, w, trust) = Accepted
  BY CheckpointAccepts

\* The one previous checkpoint handed over is compared with the context.
LEMMA CheckpointIsLinked ==
  ASSUME NEW c, NEW members, NEW n \in Nat, DOMAIN members = 1 .. n,
         NEW ks, NEW t, NEW w, NEW trust, NEW previous, NEW prior, previous = {prior},
         VerifyCheckpoint(c, members, ks, t, w, trust, previous) = Accepted
  PROVE  VerifyLink(c.payload.context, prior, ks, t, w, trust) = Accepted
<1>1. VerifyLink(c.payload.context, CHOOSE r \in previous : TRUE, ks, t, w, trust) = Accepted
  BY CheckpointAccepts
<1>2. (CHOOSE r \in previous : TRUE) = prior
  OBVIOUS
<1> QED
  BY <1>1, <1>2

\* The previous checkpoint is accepted when it verifies and fits the context.
LEMMA LinkAccepts ==
  ASSUME NEW context, NEW prior, NEW ks, NEW t, NEW w, NEW trust
  PROVE  (VerifyLink(context, prior, ks, t, w, trust) = Accepted) <=>
           /\ VerifyReceipt(prior, ks, t, w, trust) = Accepted
           /\ IsCheckpoint(prior.payload)
           /\ context.previous_id = ReceiptId(prior)
           /\ context.previous_root = prior.payload.context.merkle_root
           /\ prior.payload.context.period_end <= context.period_start
<1> DEFINE own == VerifyReceipt(prior, ks, t, w, trust)
           kind == Require(IsCheckpoint(prior.payload), "previous_not_checkpoint")
           id == Require(context.previous_id = ReceiptId(prior), "previous_id_mismatch")
           root == Require(context.previous_root = prior.payload.context.merkle_root,
                           "previous_root_mismatch")
           period == Require(prior.payload.context.period_end <= context.period_start,
                             "periods_overlap")
<1>1. VerifyLink(context, prior, ks, t, w, trust) = own ++ kind ++ id ++ root ++ period
  BY DEF VerifyLink
<1>2. (own ++ kind ++ id ++ root ++ period = Accepted) <=>
        own = Accepted /\ kind = Accepted /\ id = Accepted /\ root = Accepted /\ period = Accepted
  <2> HIDE DEF own, kind, id, root, period
  <2> QED BY AndThenAccepts
<1>3. /\ kind = Accepted <=> IsCheckpoint(prior.payload)
      /\ id = Accepted <=> context.previous_id = ReceiptId(prior)
      /\ root = Accepted <=> context.previous_root = prior.payload.context.merkle_root
      /\ period = Accepted <=> prior.payload.context.period_end <= context.period_start
  BY DEF Require, Accepted
<1> QED
  BY <1>1, <1>2, <1>3

\* What verify_checkpoint accepts it accepts at any later time.
LEMMA CheckpointAcceptedLater ==
  ASSUME NEW c, NEW members, NEW n \in Nat, DOMAIN members = 1 .. n,
         NEW ks, NEW t \in Nat, NEW u \in Nat, t <= u, NEW w, NEW trust, NEW previous,
         c.payload.issued_at \in Int,
         \A i \in 1 .. n : members[i].payload.issued_at \in Int,
         \A r \in previous : r.payload.issued_at \in Int,
         VerifyCheckpoint(c, members, ks, t, w, trust, previous) = Accepted
  PROVE  VerifyCheckpoint(c, members, ks, u, w, trust, previous) = Accepted
<1> DEFINE prior == CHOOSE r \in previous : TRUE
<1>1. previous # {} => prior \in previous
  OBVIOUS
<1> HIDE DEF prior
<1>2. /\ VerifyReceipt(c, ks, u, w, trust) = Accepted
      /\ \A i \in 1 .. n : VerifyReceipt(members[i], ks, u, w, trust) = Accepted
  <2>1. VerifyReceipt(c, ks, t, w, trust) = Accepted
    BY CheckpointVerifies
  <2>2. VerifyReceipt(c, ks, u, w, trust) = Accepted
    BY <2>1, AcceptedLater
  <2>3. ASSUME NEW i \in 1 .. n PROVE VerifyReceipt(members[i], ks, u, w, trust) = Accepted
    <3>1. VerifyReceipt(members[i], ks, t, w, trust) = Accepted
      BY MembersVerify
    <3>2. members[i].payload.issued_at \in Int
      BY <2>3
    <3> QED
      BY <3>1, <3>2, AcceptedLater
  <2> QED
    BY <2>2, <2>3
<1>3. previous # {} => VerifyLink(c.payload.context, prior, ks, t, w, trust) = Accepted
  BY CheckpointAccepts DEF prior
<1>4. previous # {} => VerifyLink(c.payload.context, prior, ks, u, w, trust) = Accepted
  <2> SUFFICES ASSUME previous # {} PROVE VerifyLink(c.payload.context, prior, ks, u, w, trust) = Accepted
    OBVIOUS
  <2>1. VerifyReceipt(prior, ks, u, w, trust) = Accepted
    BY <1>1, <1>3, LinkAccepts, AcceptedLater
  <2> QED
    BY <1>3, <2>1, LinkAccepts
<1> QED
  BY <1>2, <1>4, CheckpointAccepts DEF prior

\* An accepted checkpoint receipt has a period that does not end before it
\* begins, and names its previous checkpoint by what can be a receipt_id.
LEMMA CheckpointContext ==
  ASSUME NEW c, NEW ks, NEW t, NEW w, NEW trust, IsCheckpoint(c.payload),
         VerifyReceipt(c, ks, t, w, trust) = Accepted
  PROVE  /\ "previous_id" \notin c.payload.context.defects
         /\ c.payload.context.period_end > c.payload.context.period_start
<1> DEFINE p == c.payload
           context == CheckCheckpointContext(p.context, p.issued_at)
<1>1. CheckPairing(p) = Accepted
  BY VerifyAccepts
<1>2. IsEvent(p)
  BY DEF IsEvent, IsCheckpoint, Absent
<1>3. CheckEvent(p) = Accepted
  <2> DEFINE event == CheckEvent(p)
  <2>1. CheckPairing(p) = CheckKind(p) ++ event ++ CheckPolicyPairing(p)
    BY <1>2 DEF CheckPairing
  <2> HIDE DEF event
  <2>2. event = Accepted
    BY <1>1, <2>1, AndThenAccepts
  <2> QED BY <2>2 DEF event
<1>4. CheckSubject(p) = Accepted
  <2> DEFINE subject == CheckSubject(p)
  <2> HIDE DEF subject
  <2>1. subject = Accepted
    BY <1>3, AndThenAccepts DEF CheckEvent, subject
  <2> QED BY <2>1 DEF subject
<1>5. context = Accepted
  <2> HIDE DEF context
  <2> QED
    BY <1>4, AndThenAccepts DEF CheckSubject, context
<1> QED
  BY <1>5, AndThenAccepts DEF CheckCheckpointContext, Require, Accepted

-----------------------------------------------------------------------------
\* What the assumptions say of the invocation at hand.
LEMMA CallIsSound ==
  ASSUME TypeOK
  PROVE  /\ Len(call.lines) \in Nat /\ DOMAIN call.lines = 1 .. Len(call.lines)
         /\ \A i \in DOMAIN call.lines : Of(i).payload.issued_at \in Int
         /\ call.receipt.receipt.payload.issued_at \in Int
         /\ now \in Nat /\ StartNow \in Nat /\ StartNow <= now
  BY InvocationsAssumption, ClockAssumption DEF TypeOK, Of, ExportedReceipts

\* What is known of the first n lines depends on the line counters alone.
LEMMA LinesStayTaken ==
  ASSUME UNCHANGED << call, chain, verified_by_id, failed, total >>,
         NEW n, position' - 1 = n, LinesAreTaken(n)
  PROVE  LinesAreTaken(position - 1)'
<1>1. Taken(position - 1)' = Taken(n)
  BY DEF Taken
<1>2. (\A i : Of(i)' = Of(i)) /\ (\A event : CountEvents(event)' = CountEvents(event))
  BY DEF Of, CountEvents
<1>3. \A event : Bearing(position - 1, event)' = Bearing(n, event)
  BY <1>1 DEF Bearing, Of
<1> QED
  BY <1>1, <1>2, <1>3 DEF LinesAreTaken, LinesAreSound

\* The steps of main.
LEMMA MainKeepsStatus ==
  ASSUME StatusInv, ParseArguments \/ LoadKeys \/ RejectKeys \/ VerifySingle
  PROVE  MainIsDone' /\ LinesInv' /\ EvidenceInv' /\ ExitStatusIsMerited'
<1> USE DEF StatusInv, Exit, counters, results, codes, Running, MainIsDone, LinesInv, EvidenceInv
<1>0. TypeOK /\ NothingCountedBefore
  BY DEF CliInv
<1>1. CASE ParseArguments
  <2>1. CASE UsageError(call)
    BY <1>1, <2>1 DEF ParseArguments, ExitStatusIsMerited, Good
  <2>2. CASE ~UsageError(call)
    BY <1>1, <2>2 DEF ParseArguments, ExitStatusIsMerited
  <2> QED
    BY <2>1, <2>2
<1>2. CASE LoadKeys
  <2>1. /\ pc = "load_keys" /\ KeysLoad(call) /\ keys' = LoadedKeys(call.keys.document)
        /\ pc' = IF call.export THEN "export" ELSE "single"
        /\ UNCHANGED << call, position, exit, failed, total, chain, verified_by_id, checkpoints,
                        checkpoint_rc, checkpoint_count >>
    BY <1>2 DEF LoadKeys
  <2>2. position = 1 /\ failed = 0 /\ total = 0 /\ chain = << >> /\ verified_by_id = << >>
    BY <1>0, <2>1 DEF NothingCountedBefore
  <2>3. Taken(0) = {} /\ \A event : Bearing(0, event) = {}
    BY <1>0, CallIsSound DEF Taken, Bearing, Checked
  <2>4. \A event : CountEvents(event) = Cardinality({})
    BY <2>2 DEF CountEvents
  <2>5. LinesAreTaken(0)
    <3>1. \A i \in DOMAIN call.lines : ~(i <= 0)
      BY <1>0, CallIsSound
    <3>2. LinesAreSound(0)
      BY <2>2, <2>3, <2>4, <3>1 DEF LinesAreSound
    <3> QED
      BY <2>2, <3>2 DEF LinesAreTaken
  <2>6. pc' = "export" => LinesAreTaken(position - 1)'
    BY <2>1, <2>2, <2>5, LinesStayTaken
  <2> QED
    BY <2>1, <2>2, <2>6 DEF ExitStatusIsMerited
<1>3. CASE RejectKeys
  BY <1>3 DEF RejectKeys, ExitStatusIsMerited, Good
<1>4. CASE VerifySingle
  <2> DEFINE r == call.receipt.receipt
             Holds(t) == VerifyReceipt(r, LoadedKeys(call.keys.document), t, {call.workspace},
                                       {call.trusted}) = Accepted
  <2>1. /\ ~UsageError(call) /\ KeysLoad(call) /\ ~call.export
        /\ keys = LoadedKeys(call.keys.document)
    BY <1>4 DEF VerifySingle
  <2>2. /\ pc' = "exited" /\ UNCHANGED << call, now >>
        /\ exit' = IF call.receipt.read = "parsed" /\ Holds(now) THEN 0 ELSE 1
    BY <1>4, <2>1 DEF VerifySingle, Verdict
  <2>3. Holds(StartNow) => Holds(now)
    BY <1>0, CallIsSound, AcceptedLater
  <2>4. \A t : Good(call, t) <=> call.receipt.read = "parsed" /\ Holds(t)
    BY <2>1 DEF Good, Verifies
  <2> HIDE DEF Holds
  <2> QED
    BY <2>1, <2>2, <2>3, <2>4 DEF ExitStatusIsMerited
<1> QED
  BY <1>1, <1>2, <1>3, <1>4

\* A line that is not among those to verify leaves nothing to be shown, and one
\* that fails cannot be part of a good export.
LEMMA LineNotTaken ==
  ASSUME TypeOK, LinesAreTaken(position - 1), position <= Len(call.lines), position' = position + 1,
         UNCHANGED << call, chain, verified_by_id >>,
         \/ /\ UNCHANGED << failed, total >>
            /\ position \notin Checked(call)
            /\ Line.form = "blank" \/ Decodes(Line)
         \/ /\ failed' = failed + 1 /\ ~GoodLines(call, StartNow)
  PROVE  LinesAreTaken(position - 1)'
<1>1. position \in Nat \ {0} /\ position' - 1 = position /\ failed \in Nat /\ DOMAIN call.lines = 1 .. Len(call.lines)
  BY CallIsSound DEF TypeOK
<1>2. Taken(position - 1) \subseteq Taken(position)
  BY <1>1 DEF Taken, Checked
<1>3. CASE failed' = failed + 1 /\ ~GoodLines(call, StartNow)
  <2>1. failed' # 0
    BY <1>1, <1>3
  <2>2. \A id \in DOMAIN verified_by_id : \E i \in Taken(position) : verified_by_id[id] = Of(i)
    BY <1>2 DEF LinesAreTaken
  <2>3. Taken(position - 1)' = Taken(position) /\ (\A i : Of(i)' = Of(i))
    BY <1>1 DEF Taken, Of
  <2> QED
    BY <1>3, <2>1, <2>2, <2>3 DEF LinesAreTaken
<1>4. CASE /\ UNCHANGED << failed, total >> /\ position \notin Checked(call)
           /\ Line.form = "blank" \/ Decodes(Line)
  <2>1. Taken(position) = Taken(position - 1)
    BY <1>1, <1>4 DEF Taken, Checked
  <2>2. \A event : Bearing(position, event) = Bearing(position - 1, event)
    BY <2>1 DEF Bearing
  <2>3. \A i \in DOMAIN call.lines : i <= position => i <= position - 1 \/ i = position
    BY <1>1
  <2>4. LinesAreTaken(position)
    <3>1. ASSUME failed = 0 PROVE LinesAreSound(position)
      <4>1. LinesAreSound(position - 1)
        BY <3>1 DEF LinesAreTaken
      <4> QED
        BY <1>4, <2>1, <2>2, <2>3, <4>1 DEF LinesAreSound, Line
    <3> QED
      BY <2>1, <3>1 DEF LinesAreTaken
  <2> QED
    BY <1>1, <1>4, <2>4, LinesStayTaken
<1> QED
  BY <1>3, <1>4

\* The verified receipt enters the chain and the index, and with it one more
\* line is among those Good speaks of.
LEMMA LineTaken ==
  ASSUME StatusInv, VerifyLine
  PROVE  LinesAreTaken(position - 1)'
<1> DEFINE n == position
           new == ReceiptId(Receipt)
<1>1. /\ pc = "export" /\ position <= Len(call.lines) /\ position' = position + 1
      /\ Decodes(Line) /\ InScope(call, Receipt)
      /\ total' = total + 1 /\ UNCHANGED << call, failed >>
      /\ chain' = Append(chain, Receipt.payload)
      /\ verified_by_id' = Put(verified_by_id, new, Receipt)
  BY DEF VerifyLine, AtLine
<1>2. new \notin DOMAIN verified_by_id
  BY AndThenAccepts DEF VerifyLine, LineVerdict, Require, Accepted
<1>3. TypeOK /\ LinesAreTaken(n - 1)
  BY <1>1 DEF StatusInv, CliInv, LinesInv
<1>4. /\ n \in Nat \ {0} /\ total \in Nat /\ position' - 1 = n
      /\ DOMAIN call.lines = 1 .. Len(call.lines) /\ n \in DOMAIN call.lines
      /\ Len(call.lines) \in Nat
  BY <1>1, <1>3, CallIsSound DEF TypeOK
<1>5. Receipt = Of(n) /\ n \in Checked(call)
  BY <1>1, <1>4 DEF Receipt, Line, Of, Checked
<1>6. Taken(n) = Taken(n - 1) \union {n} /\ n \notin Taken(n - 1)
  BY <1>4, <1>5 DEF Taken, Checked
<1>7. /\ DOMAIN verified_by_id' = DOMAIN verified_by_id \union {new}
      /\ verified_by_id'[new] = Of(n)
      /\ \A id \in DOMAIN verified_by_id : verified_by_id'[id] = verified_by_id[id]
  BY <1>1, <1>2, <1>5 DEF Put
<1>8. \A id \in DOMAIN verified_by_id' : \E i \in Taken(n) : verified_by_id'[id] = Of(i)
  BY <1>3, <1>6, <1>7 DEF LinesAreTaken
<1>9. ASSUME failed = 0
      PROVE  /\ \A i \in DOMAIN call.lines :
                  i <= n => call.lines[i].form = "blank" \/ Decodes(call.lines[i])
             /\ \A i \in Taken(n) : /\ ReceiptId(Of(i)) \in DOMAIN verified_by_id'
                                    /\ verified_by_id'[ReceiptId(Of(i))] = Of(i)
             /\ \A i, j \in Taken(n) : i # j => ReceiptId(Of(i)) # ReceiptId(Of(j))
             /\ \A event \in LifecycleEvents : CountEvents(event)' = Cardinality(Bearing(n, event))
  <2>1. LinesAreSound(n - 1)
    BY <1>3, <1>9 DEF LinesAreTaken
  <2>2. \A i \in DOMAIN call.lines :
          i <= n => call.lines[i].form = "blank" \/ Decodes(call.lines[i])
    BY <1>1, <1>4, <2>1 DEF LinesAreSound, Line
  <2>3. \A i \in Taken(n) : /\ ReceiptId(Of(i)) \in DOMAIN verified_by_id'
                            /\ verified_by_id'[ReceiptId(Of(i))] = Of(i)
    BY <1>5, <1>6, <1>7, <2>1 DEF LinesAreSound
  <2>4. \A i, j \in Taken(n) : i # j => ReceiptId(Of(i)) # ReceiptId(Of(j))
    BY <1>2, <1>5, <1>6, <2>1 DEF LinesAreSound
  <2>5. ASSUME NEW event \in LifecycleEvents
        PROVE  CountEvents(event)' = Cardinality(Bearing(n, event))
    <3> DEFINE counted == {i \in DOMAIN chain : chain[i].event = event}
               before == Bearing(n - 1, event)
               next == Len(chain) + 1
    <3>1. Len(chain) \in Nat /\ DOMAIN chain = 1 .. Len(chain)
      BY <1>3 DEF TypeOK
    <3>2. /\ DOMAIN chain' = 1 .. next /\ chain'[next] = Of(n).payload
          /\ \A i \in 1 .. Len(chain) : chain'[i] = chain[i]
      BY <1>1, <1>3, <1>5, <3>1 DEF TypeOK
    <3>3. IsFiniteSet(counted) /\ next \notin counted
      <4>1. counted \subseteq 1 .. Len(chain) /\ next \notin 1 .. Len(chain)
        BY <3>1
      <4>2. IsFiniteSet(1 .. Len(chain))
        BY <3>1, FS_Interval
      <4> HIDE DEF counted, next
      <4> QED
        BY <4>1, <4>2, FS_Subset
    <3>4. IsFiniteSet(before) /\ n \notin before
      <4>1. before \subseteq 1 .. Len(call.lines)
        BY <1>4 DEF Bearing, Taken, Checked
      <4>2. n \notin before
        BY <1>6 DEF Bearing
      <4>3. IsFiniteSet(1 .. Len(call.lines))
        BY <1>4, FS_Interval
      <4> HIDE DEF before
      <4> QED
        BY <4>1, <4>2, <4>3, FS_Subset
    <3>5. Cardinality(counted) = Cardinality(before)
      BY <2>1 DEF LinesAreSound, CountEvents
    <3>6. CASE Of(n).payload.event = event
      <4>1. {i \in DOMAIN chain' : chain'[i].event = event} = counted \union {next}
        BY <3>1, <3>2, <3>6
      <4>2. Bearing(n, event) = before \union {n}
        BY <1>6, <3>6 DEF Bearing
      <4> HIDE DEF counted, before, next
      <4>3. /\ Cardinality(counted \union {next}) = Cardinality(counted) + 1
            /\ Cardinality(before \union {n}) = Cardinality(before) + 1
        BY <3>3, <3>4, FS_AddElement
      <4> QED
        BY <3>5, <4>1, <4>2, <4>3 DEF CountEvents
    <3>7. CASE Of(n).payload.event # event
      <4>1. {i \in DOMAIN chain' : chain'[i].event = event} = counted
        BY <3>1, <3>2, <3>7
      <4>2. Bearing(n, event) = before
        BY <1>6, <3>7 DEF Bearing
      <4> QED
        BY <3>5, <4>1, <4>2 DEF CountEvents
    <3> QED
      BY <3>6, <3>7
  <2> QED
    BY <2>2, <2>3, <2>4, <2>5
<1>10. /\ Taken(position - 1)' = Taken(n) /\ (\A i : Of(i)' = Of(i))
       /\ \A event : Bearing(position - 1, event)' = Bearing(n, event)
  <2>1. Taken(position - 1)' = Taken(n) /\ (\A i : Of(i)' = Of(i))
    BY <1>1, <1>4 DEF Taken, Of
  <2> QED
    BY <2>1 DEF Bearing
<1>11. total' # 0 /\ Taken(n) # {}
  BY <1>1, <1>4, <1>6
<1>12. failed = 0 => LinesAreSound(position - 1)'
  BY <1>1, <1>4, <1>9, <1>10, <1>11 DEF LinesAreSound
<1>13. GoodLines(call, StartNow) => failed = 0
  BY <1>3 DEF LinesAreTaken
<1> QED
  BY <1>1, <1>8, <1>10, <1>12, <1>13 DEF LinesAreTaken

\* A rejected line keeps the export from being good, also at the start.
LEMMA RejectedLineIsBad ==
  ASSUME StatusInv, RejectLine
  PROVE  ~GoodLines(call, StartNow)
<1> DEFINE n == position
           id == ReceiptId(Receipt)
<1>1. /\ pc = "export" /\ position <= Len(call.lines) /\ LineVerdict # Accepted
      /\ Decodes(Line) /\ InScope(call, Receipt)
  BY DEF RejectLine, AtLine
<1>2. TypeOK /\ VerifiedStaysVerified /\ LinesAreTaken(n - 1)
      /\ keys = LoadedKeys(call.keys.document)
  BY <1>1 DEF StatusInv, CliInv, LinesInv, MainIsDone
<1>3. n \in Nat \ {0} /\ n \in DOMAIN call.lines
  BY <1>1, <1>2, CallIsSound DEF TypeOK
<1>4. Receipt = Of(n) /\ n \in Checked(call)
  BY <1>1, <1>3 DEF Receipt, Line, Of, Checked
<1> SUFFICES ASSUME GoodLines(call, StartNow) PROVE FALSE
  OBVIOUS
<1>5. Verdict(Receipt) = Accepted
  <2>1. VerifyReceipt(Of(n), keys, StartNow, {call.workspace}, {call.trusted}) = Accepted
    BY <1>2, <1>4 DEF GoodLines, Verifies, Of
  <2>2. Of(n).payload.issued_at \in Int
    BY <1>2, <1>3, CallIsSound
  <2>3. VerifyReceipt(Of(n), keys, now, {call.workspace}, {call.trusted}) = Accepted
    BY <1>2, <2>1, <2>2, AcceptedLater, CallIsSound
  <2> QED
    BY <1>4, <2>3 DEF Verdict
<1>6. id \in DOMAIN verified_by_id
  BY <1>1, <1>5 DEF LineVerdict, Require, ++
<1>7. PICK i \in Taken(n - 1) : verified_by_id[id] = Of(i)
  BY <1>2, <1>6 DEF LinesAreTaken
<1>8. ReceiptId(Of(i)) = ReceiptId(Of(n)) /\ i # n /\ i \in Checked(call)
  BY <1>2, <1>3, <1>4, <1>6, <1>7 DEF VerifiedStaysVerified, Taken, Checked
<1> QED
  BY <1>4, <1>8 DEF GoodLines, Of

\* The steps of the loop over the lines, and its end.
LEMMA LinesKeepStatus ==
  ASSUME StatusInv,
         BlankLine \/ AbortAtLine \/ UndecodableLine \/ SkipLine \/ VerifyLine \/ RejectLine
  PROVE  MainIsDone' /\ LinesInv' /\ EvidenceInv' /\ ExitStatusIsMerited'
<1>0. /\ TypeOK /\ LinesAreTaken(position - 1) /\ exit = Running
      /\ pc = "export" /\ position <= Len(call.lines) /\ position' = position + 1
      /\ UNCHANGED << call, now, keys, checkpoints, chain_rc, checkpoint_rc, checkpoint_count >>
  BY DEF StatusInv, CliInv, LinesInv, MainIsDone, codes,
         BlankLine, AbortAtLine, UndecodableLine, SkipLine, VerifyLine, RejectLine, AtLine
<1>1. position \in DOMAIN call.lines
  BY <1>0, CallIsSound DEF TypeOK
<1>2. ASSUME pc' = "export", exit' = exit, LinesAreTaken(position - 1)'
      PROVE  MainIsDone' /\ LinesInv' /\ EvidenceInv' /\ ExitStatusIsMerited'
  BY <1>0, <1>2 DEF StatusInv, MainIsDone, LinesInv, EvidenceInv, ExitStatusIsMerited, Running
<1>3. CASE BlankLine
  <2>1. position \notin Checked(call)
    BY <1>3 DEF BlankLine, Checked, Decodes, Line
  <2>2. LinesAreTaken(position - 1)'
    BY <1>0, <1>3, <2>1, LineNotTaken DEF BlankLine, counters
  <2> QED
    BY <1>0, <1>2, <1>3, <2>2 DEF BlankLine
<1>4. CASE AbortAtLine
  <2>1. ~GoodLines(call, StartNow)
    BY <1>1, <1>4 DEF AbortAtLine, GoodLines, Decodes, Line
  <2>2. pc' = "exited" /\ exit' = 1 /\ call' = call /\ call.export /\ ~UsageError(call)
    BY <1>0, <1>4 DEF AbortAtLine, Exit, StatusInv, MainIsDone
  <2>3. ExitStatusIsMerited'
    BY <2>1, <2>2 DEF ExitStatusIsMerited, Good
  <2> QED
    BY <2>2, <2>3 DEF MainIsDone, LinesInv, EvidenceInv, Running
<1>5. CASE UndecodableLine
  <2>1. ~GoodLines(call, StartNow)
    BY <1>1, <1>5 DEF UndecodableLine, GoodLines, Line
  <2>2. LinesAreTaken(position - 1)'
    BY <1>0, <1>5, <2>1, LineNotTaken DEF UndecodableLine
  <2> QED
    BY <1>0, <1>2, <1>5, <2>2 DEF UndecodableLine
<1>6. CASE SkipLine
  <2>1. position \notin Checked(call)
    BY <1>6 DEF SkipLine, Checked, Receipt, Line
  <2>2. LinesAreTaken(position - 1)'
    BY <1>0, <1>6, <2>1, LineNotTaken DEF SkipLine
  <2> QED
    BY <1>0, <1>2, <1>6, <2>2 DEF SkipLine
<1>7. CASE VerifyLine
  BY <1>0, <1>2, <1>7, LineTaken DEF VerifyLine
<1>8. CASE RejectLine
  <2>1. LinesAreTaken(position - 1)'
    BY <1>0, <1>8, RejectedLineIsBad, LineNotTaken DEF RejectLine
  <2> QED
    BY <1>0, <1>2, <1>8, <2>1 DEF RejectLine
<1> QED
  BY <1>3, <1>4, <1>5, <1>6, <1>7, <1>8

-----------------------------------------------------------------------------
\* All lines are read: those taken are those to verify.
LEMMA AllTaken ==
  ASSUME TypeOK
  PROVE  /\ Taken(Len(call.lines)) = Checked(call)
         /\ \A n \in Nat : n >= Len(call.lines) => Taken(n) = Checked(call)
  BY CallIsSound DEF Taken, Checked

LEMMA AllLinesStayTaken ==
  ASSUME UNCHANGED << call, chain, verified_by_id, failed, total, chain_rc >>,
         LinesAreTaken(Len(call.lines)), ChainIsJudged
  PROVE  LinesAreTaken(Len(call.lines))' /\ ChainIsJudged'
<1> DEFINE n == Len(call.lines)
<1>1. n' = n /\ Taken(n)' = Taken(n)
  BY DEF Taken
<1>2. (\A i : Of(i)' = Of(i)) /\ (\A event : CountEvents(event)' = CountEvents(event))
  BY DEF Of, CountEvents
<1>3. \A event : Bearing(n, event)' = Bearing(n, event)
  BY <1>1 DEF Bearing, Of
<1>4. LinesAreTaken(n)'
  <2> HIDE DEF n
  <2> QED
    BY <1>1, <1>2, <1>3 DEF LinesAreTaken, LinesAreSound, n
<1> QED
  BY <1>2, <1>4 DEF ChainIsJudged

LEMMA EndOfExportKeepsStatus ==
  ASSUME StatusInv, EndOfExport
  PROVE  MainIsDone' /\ LinesInv' /\ EvidenceInv' /\ ExitStatusIsMerited'
<1> DEFINE n == Len(call.lines)
<1>1. /\ pc = "export" /\ position > n /\ position' = 1
      /\ chain_rc' = IF call.authorization = {} THEN 0 ELSE CheckChainInvariants
      /\ pc' = IF call.evidence = {} THEN "summary" ELSE "evidence"
      /\ UNCHANGED << call, now, keys, ok, failed, skipped, total, chain, verified_by_id,
                      checkpoints, checkpoint_rc, checkpoint_count, exit >>
  BY DEF EndOfExport, counters, results
<1>2. TypeOK /\ LinesAreTaken(position - 1) /\ n \in Nat /\ position \in Nat
      /\ DOMAIN call.lines = 1 .. n
  BY <1>1, CallIsSound DEF StatusInv, CliInv, LinesInv, TypeOK
<1>3. Taken(n) = Taken(position - 1) /\ \A event : Bearing(n, event) = Bearing(position - 1, event)
  <2>1. Taken(n) = Taken(position - 1)
    BY <1>1, <1>2, AllTaken
  <2> QED
    BY <2>1 DEF Bearing
<1>4. LinesAreTaken(n)
  <2>1. failed = 0 => LinesAreSound(n)
    BY <1>1, <1>2, <1>3 DEF LinesAreTaken, LinesAreSound
  <2> QED
    BY <1>2, <1>3, <2>1 DEF LinesAreTaken
<1>5. LinesAreTaken(Len(call.lines))'
  <2>1. n' = n /\ Taken(n)' = Taken(n) /\ (\A i : Of(i)' = Of(i))
    BY <1>1 DEF Taken, Of
  <2>2. \A event : Bearing(n, event)' = Bearing(n, event) /\ CountEvents(event)' = CountEvents(event)
    BY <1>1, <2>1 DEF Bearing, CountEvents
  <2> HIDE DEF n
  <2>3. LinesAreTaken(n)'
    BY <1>1, <1>4, <2>1, <2>2 DEF LinesAreTaken, LinesAreSound
  <2> QED
    BY <2>3 DEF n
<1>6. ChainIsJudged'
  BY <1>1 DEF ChainIsJudged, CheckChainInvariants, CountEvents
<1> QED
  BY <1>1, <1>5, <1>6
     DEF StatusInv, MainIsDone, LinesInv, EvidenceInv, ExitStatusIsMerited, Running

-----------------------------------------------------------------------------
(* GoodEvidence with names for what it defines locally. *)

NamedBy(e, k) ==
  {e.entries[l].checkpoint : l \in
     {m \in DOMAIN e.entries :
        ReceiptId(e.entries[m].checkpoint) = e.entries[k].checkpoint.payload.context.previous_id}}

CheckedMembers(c, e, k) ==
  [i \in DOMAIN e.entries[k].member_receipt_ids |->
     CheckedReceipt(c, e.entries[k].member_receipt_ids[i])]

GoodEntry(c, e, k, t) ==
  /\ e.entries[k].fields_ok /\ e.entries[k].ids_ok
  /\ IsUnique(e.entries[k].member_receipt_ids)
  /\ \A i \in DOMAIN e.entries[k].member_receipt_ids :
       e.entries[k].member_receipt_ids[i] \in CheckedIds(c)
  /\ VerifyCheckpoint(e.entries[k].checkpoint, CheckedMembers(c, e, k),
       LoadedKeys(c.keys.document), t, {c.workspace}, {c.trusted}, NamedBy(e, k))
     = Accepted

LEMMA GoodEvidenceByEntries ==
  ASSUME NEW c, NEW e, NEW t
  PROVE  GoodEvidence(c, e, t) <=>
           /\ e.read = "parsed" /\ e.version_ok /\ e.entries_ok
           /\ \A k, l \in DOMAIN e.entries :
                k # l => ReceiptId(e.entries[k].checkpoint) # ReceiptId(e.entries[l].checkpoint)
           /\ \A k \in DOMAIN e.entries : GoodEntry(c, e, k, t)
  BY DEF GoodEvidence, GoodEntry, CheckedMembers, NamedBy

\* The one evidence file, when there is one.
LEMMA EvidenceIsSound ==
  ASSUME TypeOK, call.evidence # {}
  PROVE  /\ Evidence \in call.evidence /\ \A e \in call.evidence : e = Evidence
         /\ Len(Evidence.entries) \in Nat /\ DOMAIN Evidence.entries = 1 .. Len(Evidence.entries)
         /\ \A k \in DOMAIN Evidence.entries :
              /\ Len(Evidence.entries[k].member_receipt_ids) \in Nat
              /\ DOMAIN Evidence.entries[k].member_receipt_ids
                   = 1 .. Len(Evidence.entries[k].member_receipt_ids)
              /\ Evidence.entries[k].checkpoint.payload.issued_at \in Int
              /\ Evidence.entries[k].checkpoint.payload.context.period_start \in Int
              /\ Evidence.entries[k].checkpoint.payload.context.period_end \in Int
              /\ "previous_id_unhashable" \in Evidence.entries[k].checkpoint.payload.context.defects
                   => "previous_id" \in Evidence.entries[k].checkpoint.payload.context.defects
<1>1. Evidence \in call.evidence
  BY DEF Evidence
<1>2. EvidenceAssumption(Evidence) /\ \A e \in call.evidence : e = Evidence
  BY <1>1, InvocationsAssumption DEF TypeOK
<1> QED
  BY <1>1, <1>2 DEF EvidenceAssumption

\* What the accumulators hold is what Good speaks of: the index of the export
\* is the checked receipts, the index of the evidence its checkpoints.
LEMMA IndexesMirror ==
  ASSUME TypeOK, VerifiedStaysVerified, failed = 0, LinesAreTaken(Len(call.lines))
  PROVE  /\ CheckedIds(call) = DOMAIN verified_by_id
         /\ \A id \in CheckedIds(call) : CheckedReceipt(call, id) = verified_by_id[id]
<1>1. Taken(Len(call.lines)) = Checked(call) /\ LinesAreSound(Len(call.lines))
  BY AllTaken DEF LinesAreTaken
<1>2. CheckedIds(call) \subseteq DOMAIN verified_by_id
  BY <1>1 DEF CheckedIds, LinesAreSound, Of
<1>3. DOMAIN verified_by_id \subseteq CheckedIds(call)
  BY <1>1 DEF CheckedIds, LinesAreTaken, Of, VerifiedStaysVerified
<1>4. ASSUME NEW id \in CheckedIds(call)
      PROVE  CheckedReceipt(call, id) = verified_by_id[id]
  <2> DEFINE i == CHOOSE i \in Checked(call) : ReceiptId(ExtractReceipt(call.lines[i])) = id
  <2>1. \E j \in Checked(call) : ReceiptId(ExtractReceipt(call.lines[j])) = id
    BY DEF CheckedIds
  <2>2. i \in Checked(call) /\ ReceiptId(ExtractReceipt(call.lines[i])) = id
    BY <2>1
  <2> HIDE DEF i
  <2>3. verified_by_id[id] = ExtractReceipt(call.lines[i])
    BY <1>1, <2>2 DEF LinesAreSound, Of
  <2> QED
    BY <2>3 DEF CheckedReceipt, i
<1> QED
  BY <1>2, <1>3, <1>4

LEMMA PreviousMirrors ==
  ASSUME TypeOK, call.evidence # {}, EntriesAreIndexed(Len(Evidence.entries)),
         NEW k \in DOMAIN Evidence.entries
  PROVE  Previous(Evidence.entries[k].checkpoint, checkpoints) = NamedBy(Evidence, k)
<1> DEFINE e == Evidence
           prev == e.entries[k].checkpoint.payload.context.previous_id
           A == Previous(e.entries[k].checkpoint, checkpoints)
           B == NamedBy(e, k)
<1>1. \A l \in DOMAIN e.entries :
        /\ EntryId(l) \in DOMAIN checkpoints /\ checkpoints[EntryId(l)] = e.entries[l].checkpoint
  BY EvidenceIsSound DEF EntriesAreIndexed
<1>2. \A id \in DOMAIN checkpoints : \E l \in DOMAIN e.entries : id = EntryId(l)
  BY DEF EntriesAreIndexed
<1>3. ASSUME NEW r \in A PROVE r \in B
  <2>1. prev \in DOMAIN checkpoints /\ r = checkpoints[prev]
    BY <1>3 DEF Previous
  <2>2. PICK l \in DOMAIN e.entries : prev = EntryId(l)
    BY <1>2, <2>1
  <2> QED
    BY <1>1, <2>1, <2>2 DEF NamedBy, EntryId
<1>4. ASSUME NEW r \in B PROVE r \in A
  <2>1. PICK l \in DOMAIN e.entries : EntryId(l) = prev /\ r = e.entries[l].checkpoint
    BY <1>4 DEF NamedBy, EntryId
  <2> QED
    BY <1>1, <2>1 DEF Previous
<1> HIDE DEF A, B
<1>5. A = B
  BY <1>3, <1>4
<1> QED
  BY <1>5 DEF A, B

\* The entry the loop accepts is a good entry, and the other way around.
LEMMA EntriesMirror ==
  ASSUME TypeOK, VerifiedStaysVerified, failed = 0, LinesAreTaken(Len(call.lines)),
         call.evidence # {}, EntriesAreIndexed(Len(Evidence.entries)),
         keys = LoadedKeys(call.keys.document),
         NEW k \in DOMAIN Evidence.entries
  PROVE  EntryHolds(Evidence.entries[k]) <=> GoodEntry(call, Evidence, k, now)
<1> DEFINE entry == Evidence.entries[k]
           ids == entry.member_receipt_ids
<1>1. entry.fields_ok
  BY EvidenceIsSound DEF EntriesAreIndexed
<1>2. /\ CheckedIds(call) = DOMAIN verified_by_id
      /\ \A id \in CheckedIds(call) : CheckedReceipt(call, id) = verified_by_id[id]
  BY IndexesMirror
<1>3. (\A i \in DOMAIN ids : ids[i] \in CheckedIds(call)) =>
        Members(entry, verified_by_id) = CheckedMembers(call, Evidence, k)
  BY <1>2 DEF Members, CheckedMembers
<1>4. Previous(entry.checkpoint, checkpoints) = NamedBy(Evidence, k)
  BY PreviousMirrors
<1> QED
  BY <1>1, <1>2, <1>3, <1>4 DEF EntryHolds, GoodEntry

\* The checkpoint of a good entry verifies.
LEMMA GoodEntryVerifies ==
  ASSUME TypeOK, call.evidence # {}, NEW k \in DOMAIN Evidence.entries, NEW t,
         GoodEntry(call, Evidence, k, t)
  PROVE  /\ VerifyReceipt(Evidence.entries[k].checkpoint, LoadedKeys(call.keys.document), t,
                          {call.workspace}, {call.trusted}) = Accepted
         /\ IsCheckpoint(Evidence.entries[k].checkpoint.payload)
<1> DEFINE members == CheckedMembers(call, Evidence, k)
           n == Len(Evidence.entries[k].member_receipt_ids)
           c == Evidence.entries[k].checkpoint
<1>1. n \in Nat /\ DOMAIN members = 1 .. n
  BY EvidenceIsSound DEF CheckedMembers
<1>2. VerifyCheckpoint(c, members, LoadedKeys(call.keys.document), t, {call.workspace},
                       {call.trusted}, NamedBy(Evidence, k)) = Accepted
  BY DEF GoodEntry
<1> HIDE DEF members, n, c
<1>3. VerifyReceipt(c, LoadedKeys(call.keys.document), t, {call.workspace}, {call.trusted}) = Accepted
      /\ IsCheckpoint(c.payload)
  BY <1>1, <1>2, CheckpointVerifies
<1> QED
  BY <1>3 DEF c

\* The members of an entry are receipts of the export, issued at an instant.
LEMMA MembersAreDated ==
  ASSUME TypeOK, NEW id \in CheckedIds(call)
  PROVE  CheckedReceipt(call, id).payload.issued_at \in Int
<1> DEFINE line == CHOOSE j \in Checked(call) : ReceiptId(ExtractReceipt(call.lines[j])) = id
<1>1. line \in Checked(call)
  BY DEF CheckedIds
<1>2. CheckedReceipt(call, id) = Of(line) /\ line \in DOMAIN call.lines
  BY <1>1 DEF CheckedReceipt, Of, Checked
<1> QED
  BY <1>2, CallIsSound

\* A good entry stays good.
LEMMA GoodEntryLater ==
  ASSUME TypeOK, call.evidence # {}, NEW k \in DOMAIN Evidence.entries,
         GoodEntry(call, Evidence, k, StartNow)
  PROVE  GoodEntry(call, Evidence, k, now)
<1> DEFINE members == CheckedMembers(call, Evidence, k)
           n == Len(Evidence.entries[k].member_receipt_ids)
           previous == NamedBy(Evidence, k)
           c == Evidence.entries[k].checkpoint
<1>1. n \in Nat /\ DOMAIN members = 1 .. n
  BY EvidenceIsSound DEF CheckedMembers
<1>2. \A i \in 1 .. n : members[i].payload.issued_at \in Int
  BY <1>1, MembersAreDated DEF GoodEntry, CheckedMembers
<1>3. c.payload.issued_at \in Int /\ \A r \in previous : r.payload.issued_at \in Int
  BY EvidenceIsSound DEF NamedBy
<1>4. now \in Nat /\ StartNow \in Nat /\ StartNow <= now
  BY CallIsSound
<1>5. VerifyCheckpoint(c, members, LoadedKeys(call.keys.document), StartNow,
                       {call.workspace}, {call.trusted}, previous) = Accepted
  BY DEF GoodEntry
<1> HIDE DEF members, n, previous, c
<1>6. VerifyCheckpoint(c, members, LoadedKeys(call.keys.document), now,
                       {call.workspace}, {call.trusted}, previous) = Accepted
  BY <1>1, <1>2, <1>3, <1>4, <1>5, CheckpointAcceptedLater
<1> QED
  BY <1>6 DEF GoodEntry, members, previous, c

-----------------------------------------------------------------------------
\* What the steps of the evidence loops have in common: the lines are judged,
\* and when a check fails the files were not good.
LEMMA InEvidenceKeeps ==
  ASSUME StatusInv, InEvidence, pc \in {"evidence", "index", "checkpoints"},
         pc' \in {"index", "checkpoints", "summary"}, exit' = exit, EvidenceInv'
  PROVE  MainIsDone' /\ LinesInv' /\ EvidenceInv' /\ ExitStatusIsMerited'
<1>1. UNCHANGED << call, now, keys, failed, total, chain, verified_by_id, chain_rc >>
  BY DEF InEvidence, counters
<1>2. LinesInv'
  BY <1>1, AllLinesStayTaken DEF StatusInv, LinesInv
<1> QED
  BY <1>1, <1>2 DEF StatusInv, MainIsDone, ExitStatusIsMerited, Running

LEMMA AbortIsMerited ==
  ASSUME StatusInv, InEvidence, pc \in {"evidence", "index", "checkpoints"}, Abort,
         ~GoodLines(call, StartNow) \/ ~GoodEvidence(call, Evidence, StartNow)
  PROVE  MainIsDone' /\ LinesInv' /\ EvidenceInv' /\ ExitStatusIsMerited'
<1>1. pc' = "exited" /\ exit' = 1 /\ call' = call
  BY DEF Abort, Exit, InEvidence
<1>2. call.export /\ ~UsageError(call) /\ Evidence \in call.evidence
  BY EvidenceIsSound DEF StatusInv, CliInv, MainIsDone, EvidenceIsGiven
<1>3. ~Good(call, StartNow)
  BY <1>2 DEF Good
<1> QED
  BY <1>1, <1>2, <1>3 DEF MainIsDone, LinesInv, EvidenceInv, ExitStatusIsMerited, Running

LEMMA FailIsMerited ==
  ASSUME StatusInv, InEvidence, pc \in {"evidence", "index", "checkpoints"}, FailEvidence,
         ~GoodLines(call, StartNow) \/ ~GoodEvidence(call, Evidence, StartNow)
  PROVE  MainIsDone' /\ LinesInv' /\ EvidenceInv' /\ ExitStatusIsMerited'
<1>1. pc' = "summary" /\ exit' = exit /\ checkpoint_rc' = 1 /\ call' = call
  BY DEF FailEvidence, InEvidence
<1>2. call.evidence # {} /\ Evidence' = Evidence
  BY <1>1 DEF StatusInv, CliInv, EvidenceIsGiven, Evidence
<1>3. EvidenceInv'
  BY <1>1, <1>2 DEF EvidenceInv
<1> QED
  BY <1>1, <1>3, InEvidenceKeeps

LEMMA OpenKeepsStatus ==
  ASSUME StatusInv, OpenEvidence
  PROVE  MainIsDone' /\ LinesInv' /\ EvidenceInv' /\ ExitStatusIsMerited'
<1>1. pc = "evidence" /\ InEvidence
  BY DEF OpenEvidence
<1>2. CASE /\ Abort /\ Evidence.read = "raised"
  BY <1>1, <1>2, AbortIsMerited DEF GoodEvidence
<1>3. CASE /\ FailEvidence
           /\ \/ Evidence.read = "reported"
              \/ Evidence.read = "parsed" /\ ~(Evidence.version_ok /\ Evidence.entries_ok)
  BY <1>1, <1>3, FailIsMerited DEF GoodEvidence
<1>4. CASE /\ Evidence.read = "parsed" /\ Evidence.version_ok /\ Evidence.entries_ok
           /\ pc' = "index"
           /\ UNCHANGED << position, checkpoints, checkpoint_rc, checkpoint_count, exit >>
  <2>1. /\ position = 1 /\ checkpoints = << >> /\ checkpoint_rc = 0 /\ checkpoint_count = 0
        /\ TypeOK /\ call.evidence # {}
    BY <1>1 DEF StatusInv, CliInv, EvidenceIsGiven, EvidenceInv
  <2>2. Evidence' = Evidence
    BY <1>1 DEF Evidence, InEvidence
  <2>3. \A k \in DOMAIN Evidence.entries : ~(k <= position' - 1)
    BY <1>4, <2>1, EvidenceIsSound
  <2>4. EntriesAreIndexed(position - 1)'
    BY <1>4, <2>1, <2>2, <2>3 DEF EntriesAreIndexed
  <2>5. EvidenceInv'
    BY <1>4, <2>1, <2>4 DEF EvidenceInv
  <2> QED
    BY <1>1, <1>4, <2>5, InEvidenceKeeps
<1> QED
  BY <1>2, <1>3, <1>4 DEF OpenEvidence

\* The first pass: an entry is indexed unless it could not be part of good
\* evidence.
LEMMA IndexKeepsStatus ==
  ASSUME StatusInv, IndexCheckpoint
  PROVE  MainIsDone' /\ LinesInv' /\ EvidenceInv' /\ ExitStatusIsMerited'
<1> DEFINE n == position
           e == Evidence
           new == EntryId(n)
<1>1. pc = "index" /\ InEvidence /\ n <= Len(e.entries)
  BY DEF IndexCheckpoint
<1>2. /\ TypeOK /\ call.evidence # {} /\ EntriesAreIndexed(n - 1)
      /\ checkpoint_rc = 0 /\ checkpoint_count = 0 /\ e' = e
      /\ n \in Nat \ {0}
  BY <1>1 DEF StatusInv, CliInv, EvidenceIsGiven, EvidenceInv, TypeOK, Evidence, InEvidence
<1>3. n \in DOMAIN e.entries /\ DOMAIN e.entries = 1 .. Len(e.entries)
  BY <1>1, <1>2, EvidenceIsSound
<1>4. (IndexVerdict = Accepted) <=>
        /\ e.entries[n].fields_ok /\ DecodeReceipt(e.entries[n].checkpoint) = Accepted
        /\ new \notin DOMAIN checkpoints
  <2> DEFINE fields == Require(Entry.fields_ok, "entry_fields")
             decode == DecodeReceipt(Entry.checkpoint)
             once == Require(ReceiptId(Entry.checkpoint) \notin DOMAIN checkpoints,
                             "duplicate_checkpoint")
  <2>1. IndexVerdict = fields ++ decode ++ once
    BY DEF IndexVerdict
  <2>2. (fields ++ decode ++ once = Accepted) <=>
          fields = Accepted /\ decode = Accepted /\ once = Accepted
    <3> HIDE DEF fields, decode, once
    <3> QED BY AndThenAccepts
  <2>3. Entry = e.entries[n]
    BY DEF Entry
  <2>4. /\ fields = Accepted <=> Entry.fields_ok
        /\ once = Accepted <=> ReceiptId(Entry.checkpoint) \notin DOMAIN checkpoints
    BY DEF Require, Accepted
  <2> QED
    BY <2>1, <2>2, <2>3, <2>4 DEF EntryId
<1>5. CASE IndexVerdict = Accepted
  <2>1. /\ checkpoints' = Put(checkpoints, new, e.entries[n].checkpoint)
        /\ position' = n + 1 /\ UNCHANGED << pc, checkpoint_rc, checkpoint_count, exit >>
    BY <1>5 DEF IndexCheckpoint, Entry, EntryId
  <2>2. /\ DOMAIN checkpoints' = DOMAIN checkpoints \union {new}
        /\ checkpoints'[new] = e.entries[n].checkpoint /\ new \notin DOMAIN checkpoints
        /\ \A id \in DOMAIN checkpoints : checkpoints'[id] = checkpoints[id]
    BY <1>4, <1>5, <2>1 DEF Put
  <2>3. \A k \in DOMAIN e.entries : k <= n => k <= n - 1 \/ k = n
    BY <1>2, <1>3
  <2>4. \A k : EntryId(k)' = EntryId(k)
    BY <1>2 DEF EntryId
  <2>5. /\ \A k \in DOMAIN e.entries :
             k <= n => /\ e.entries[k].fields_ok
                       /\ EntryId(k) \in DOMAIN checkpoints'
                       /\ checkpoints'[EntryId(k)] = e.entries[k].checkpoint
        /\ \A id \in DOMAIN checkpoints' : \E k \in DOMAIN e.entries : k <= n /\ id = EntryId(k)
    BY <1>2, <1>3, <1>4, <1>5, <2>2, <2>3 DEF EntriesAreIndexed
  <2>6. \A k, l \in DOMAIN e.entries : k <= n /\ l <= n /\ k # l => EntryId(k) # EntryId(l)
    BY <1>2, <2>2, <2>3 DEF EntriesAreIndexed
  <2>7. position' - 1 = n
    BY <1>2, <2>1
  <2>8. EntriesAreIndexed(position - 1)'
    BY <1>2, <2>4, <2>5, <2>6, <2>7 DEF EntriesAreIndexed
  <2>9. EvidenceInv'
    BY <1>1, <1>2, <2>1, <2>8 DEF EvidenceInv
  <2> QED
    BY <1>1, <2>1, <2>9, InEvidenceKeeps
<1>6. CASE IndexVerdict # Accepted
  <2>1. FailEvidence
    BY <1>6 DEF IndexCheckpoint
  <2>2. ~GoodEvidence(call, e, StartNow)
    <3> SUFFICES ASSUME GoodEvidence(call, e, StartNow) PROVE FALSE
      OBVIOUS
    <3>1. GoodEntry(call, e, n, StartNow)
      BY <1>3, GoodEvidenceByEntries
    <3>2. VerifyReceipt(e.entries[n].checkpoint, LoadedKeys(call.keys.document), StartNow,
                        {call.workspace}, {call.trusted}) = Accepted
      BY <1>2, <1>3, <3>1, GoodEntryVerifies
    <3>3. DecodeReceipt(e.entries[n].checkpoint) = Accepted
      BY <3>2, VerifyAccepts, AndThenAccepts DEF DecodeReceipt
    <3>4. new \in DOMAIN checkpoints
      BY <1>4, <1>6, <3>1, <3>3 DEF GoodEntry
    <3>5. PICK k \in DOMAIN e.entries : k <= n - 1 /\ new = EntryId(k)
      BY <1>2, <3>4 DEF EntriesAreIndexed
    <3>6. k # n
      BY <1>2, <1>3, <3>5
    <3> QED
      BY <1>3, <3>5, <3>6, GoodEvidenceByEntries DEF EntryId
  <2> QED
    BY <1>1, <2>1, <2>2, FailIsMerited
<1> QED
  BY <1>5, <1>6

LEMMA EndOfIndexKeepsStatus ==
  ASSUME StatusInv, EndOfIndex
  PROVE  MainIsDone' /\ LinesInv' /\ EvidenceInv' /\ ExitStatusIsMerited'
<1> DEFINE e == Evidence
           n == Len(e.entries)
<1>1. /\ pc = "index" /\ InEvidence /\ position > n /\ pc' = "checkpoints" /\ position' = 1
      /\ UNCHANGED << checkpoints, checkpoint_rc, checkpoint_count, exit >>
  BY DEF EndOfIndex
<1>2. /\ TypeOK /\ call.evidence # {} /\ EntriesAreIndexed(position - 1)
      /\ checkpoint_rc = 0 /\ checkpoint_count = 0 /\ e' = e /\ position \in Nat
  BY <1>1 DEF StatusInv, CliInv, EvidenceIsGiven, EvidenceInv, TypeOK, Evidence, InEvidence
<1>3. n \in Nat /\ DOMAIN e.entries = 1 .. n
  BY <1>2, EvidenceIsSound
<1>4. \A k \in DOMAIN e.entries : k <= n /\ k <= position - 1 /\ ~(k <= position' - 1)
  BY <1>1, <1>2, <1>3
<1>5. \A k : EntryId(k)' = EntryId(k)
  BY <1>2 DEF EntryId
<1>6. EntriesAreIndexed(Len(Evidence.entries))'
  BY <1>1, <1>2, <1>4, <1>5 DEF EntriesAreIndexed
<1>7. EntriesHold(position - 1)'
  BY <1>2, <1>4 DEF EntriesHold
<1>8. EvidenceInv'
  BY <1>1, <1>2, <1>6, <1>7 DEF EvidenceInv
<1> QED
  BY <1>1, <1>8, InEvidenceKeeps

\* The second pass finds no fault with the entries of good evidence.
LEMMA GoodEntryPasses ==
  ASSUME StatusInv, pc = "checkpoints", NEW k \in DOMAIN Evidence.entries,
         GoodLines(call, StartNow), GoodEvidence(call, Evidence, StartNow)
  PROVE  EntryHolds(Evidence.entries[k]) /\ ~LookupRaises(Evidence.entries[k].checkpoint)
<1>1. /\ TypeOK /\ VerifiedStaysVerified /\ LinesAreTaken(Len(call.lines)) /\ failed = 0
      /\ call.evidence # {} /\ EntriesAreIndexed(Len(Evidence.entries))
      /\ keys = LoadedKeys(call.keys.document)
  BY DEF StatusInv, CliInv, EvidenceIsGiven, LinesInv, EvidenceInv, MainIsDone, LinesAreTaken
<1>2. GoodEntry(call, Evidence, k, StartNow)
  BY GoodEvidenceByEntries
<1>3. GoodEntry(call, Evidence, k, now)
  BY <1>1, <1>2, GoodEntryLater
<1>4. EntryHolds(Evidence.entries[k])
  BY <1>1, <1>3, EntriesMirror
<1>5. ~LookupRaises(Evidence.entries[k].checkpoint)
  <2>1. "previous_id" \notin Evidence.entries[k].checkpoint.payload.context.defects
    BY <1>1, <1>2, GoodEntryVerifies, CheckpointContext
  <2> QED
    BY <1>1, <2>1, EvidenceIsSound DEF LookupRaises
<1> QED
  BY <1>4, <1>5

LEMMA VerifyEntryKeepsStatus ==
  ASSUME StatusInv, VerifyEntry
  PROVE  MainIsDone' /\ LinesInv' /\ EvidenceInv' /\ ExitStatusIsMerited'
<1> DEFINE n == position
           ids == MemberIdsVerdict(Entry, DOMAIN verified_by_id)
<1>1. /\ pc = "checkpoints" /\ InEvidence /\ n <= Len(Evidence.entries)
      /\ TypeOK /\ call.evidence # {} /\ n \in Nat \ {0}
      /\ EntriesAreIndexed(Len(Evidence.entries)) /\ EntriesHold(n - 1)
      /\ checkpoint_rc = 0 /\ checkpoint_count = 0
  BY DEF VerifyEntry, StatusInv, CliInv, EvidenceIsGiven, EvidenceInv, TypeOK
<1>2. n \in DOMAIN Evidence.entries /\ DOMAIN Evidence.entries = 1 .. Len(Evidence.entries)
      /\ Entry = Evidence.entries[n]
  BY <1>1, EvidenceIsSound DEF Entry
<1>3. ids = Accepted <=>
        /\ Entry.ids_ok /\ IsUnique(Entry.member_receipt_ids)
        /\ \A i \in DOMAIN Entry.member_receipt_ids :
             Entry.member_receipt_ids[i] \in DOMAIN verified_by_id
  BY DEF MemberIdsVerdict, Require, ++, Accepted
<1>4. EntryHolds(Entry) <=> ids = Accepted /\ EntryCheckpointVerdict = Accepted
  <2> HIDE DEF ids
  <2> QED
    BY <1>3 DEF EntryHolds, EntryCheckpointVerdict
<1>5. CASE ~EntryHolds(Entry) \/ LookupRaises(Entry.checkpoint)
  <2>1. ~GoodLines(call, StartNow) \/ ~GoodEvidence(call, Evidence, StartNow)
    BY <1>1, <1>2, <1>5, GoodEntryPasses
  <2>2. FailEvidence \/ Abort
    <3> HIDE DEF ids
    <3> QED BY <1>4, <1>5 DEF VerifyEntry, ids
  <2> QED
    BY <1>1, <2>1, <2>2, FailIsMerited, AbortIsMerited
<1>6. CASE EntryHolds(Entry) /\ ~LookupRaises(Entry.checkpoint)
  <2>1. /\ position' = n + 1
        /\ UNCHANGED << pc, checkpoints, checkpoint_rc, checkpoint_count, exit >>
        /\ UNCHANGED << call, now, keys, verified_by_id >>
    <3> HIDE DEF ids
    <3> QED BY <1>4, <1>6 DEF VerifyEntry, InEvidence, ids
  <2>2. Evidence' = Evidence /\ position' - 1 = n
    BY <1>1, <2>1 DEF Evidence
  <2>3. \A k \in DOMAIN Evidence.entries : k <= n => EntryHolds(Evidence.entries[k])
    BY <1>1, <1>2, <1>6 DEF EntriesHold
  <2>4. \A k \in DOMAIN Evidence.entries :
          EntryHolds(Evidence.entries[k]) => EntryHolds(Evidence.entries[k])'
    BY <2>1, <2>2 DEF EntryHolds
  <2>5. EntriesHold(position - 1)'
    BY <2>2, <2>3, <2>4 DEF EntriesHold
  <2>6. EntriesAreIndexed(Len(Evidence.entries))'
    BY <1>1, <2>1, <2>2 DEF EntriesAreIndexed, EntryId
  <2>7. EvidenceInv'
    BY <1>1, <2>1, <2>5, <2>6 DEF EvidenceInv
  <2> QED
    BY <1>1, <2>1, <2>7, InEvidenceKeeps
<1> QED
  BY <1>5, <1>6

LEMMA EndOfEvidenceKeepsStatus ==
  ASSUME StatusInv, EndOfEvidence
  PROVE  MainIsDone' /\ LinesInv' /\ EvidenceInv' /\ ExitStatusIsMerited'
<1> DEFINE e == Evidence
           n == Len(e.entries)
<1>1. /\ pc = "checkpoints" /\ InEvidence /\ position > n /\ pc' = "summary"
      /\ checkpoint_count' = n
      /\ UNCHANGED << position, checkpoints, checkpoint_rc, exit >>
      /\ UNCHANGED << call, now, keys, verified_by_id >>
  BY DEF EndOfEvidence, InEvidence
<1>2. /\ TypeOK /\ call.evidence # {} /\ EntriesAreIndexed(n) /\ EntriesHold(position - 1)
      /\ checkpoint_rc = 0 /\ e' = e /\ position \in Nat
  BY <1>1 DEF StatusInv, CliInv, EvidenceIsGiven, EvidenceInv, TypeOK, Evidence
<1>3. \A k \in DOMAIN e.entries : k <= position - 1
  BY <1>1, <1>2, EvidenceIsSound
<1>4. \A k \in DOMAIN e.entries : EntryHolds(e.entries[k])'
  BY <1>1, <1>2, <1>3 DEF EntriesHold, EntryHolds
<1>5. EntriesHold(Len(Evidence.entries))'
  BY <1>2, <1>4 DEF EntriesHold
<1>6. EntriesAreIndexed(Len(Evidence.entries))'
  BY <1>1, <1>2 DEF EntriesAreIndexed, EntryId
<1>7. EvidenceInv'
  BY <1>1, <1>2, <1>5, <1>6 DEF EvidenceInv
<1> QED
  BY <1>1, <1>7, InEvidenceKeeps

-----------------------------------------------------------------------------
\* While nothing has failed, the lines read are good at this instant.
LEMMA LinesAreGoodNow ==
  ASSUME TypeOK, VerifiedStaysVerified, failed = 0, chain_rc = 0, ChainIsJudged,
         LinesAreTaken(Len(call.lines)), keys = LoadedKeys(call.keys.document)
  PROVE  GoodLines(call, now) /\ (total = 0 <=> Checked(call) = {})
<1>1. Taken(Len(call.lines)) = Checked(call) /\ LinesAreSound(Len(call.lines))
  BY AllTaken DEF LinesAreTaken
<1>2. \A i \in DOMAIN call.lines : call.lines[i].form = "blank" \/ Decodes(call.lines[i])
  BY <1>1, CallIsSound DEF LinesAreSound
<1>3. \A i \in Checked(call) :
        Verifies(Of(i), LoadedKeys(call.keys.document), now, {call.workspace}, {call.trusted})
  BY <1>1 DEF LinesAreSound, VerifiedStaysVerified, Verdict, Verifies
<1>4. \A i, j \in Checked(call) : i # j => ReceiptId(Of(i)) # ReceiptId(Of(j))
  BY <1>1 DEF LinesAreSound
<1> DEFINE about(event) == {i \in Checked(call) : Of(i).payload.event = event}
<1>5. \A event \in LifecycleEvents : Cardinality(about(event)) = CountEvents(event)
  BY <1>1 DEF LinesAreSound, Bearing
<1>6. \A event : Cardinality(about(event)) \in Nat
  <2> SUFFICES ASSUME NEW event PROVE Cardinality(about(event)) \in Nat
    OBVIOUS
  <2>0. Len(call.lines) \in Nat
    BY CallIsSound
  <2>1. IsFiniteSet(1 .. Len(call.lines))
    BY <2>0, FS_Interval
  <2>2. about(event) \subseteq 1 .. Len(call.lines)
    BY CallIsSound DEF Checked
  <2> HIDE DEF about
  <2> QED
    BY <2>1, <2>2, FS_Subset, FS_CardinalityType
<1>7. call.authorization # {} =>
        /\ Cardinality(about("authorization_create")) = 1
        /\ Cardinality(about("authorization_revoke")) \in {0, 1}
  <2> HIDE DEF about
  <2> QED
    BY <1>5, <1>6 DEF ChainIsJudged, LifecycleEvents
<1> QED
  BY <1>1, <1>2, <1>3, <1>4, <1>7 DEF GoodLines, Of, LinesAreSound

\* The status the summary ends with.
LEMMA SummaryKeepsStatus ==
  ASSUME StatusInv, Summary
  PROVE  MainIsDone' /\ LinesInv' /\ EvidenceInv' /\ ExitStatusIsMerited'
<1> DEFINE Faultless == /\ total # 0 \/ checkpoint_count # 0
                        /\ failed = 0 /\ chain_rc = 0 /\ checkpoint_rc = 0
<1>1. /\ pc = "summary" /\ pc' = "exited" /\ exit' = IF Faultless THEN 0 ELSE 1
      /\ UNCHANGED << call, now >>
  BY DEF Summary, Exit
<1>2. /\ TypeOK /\ VerifiedStaysVerified
      /\ call.export /\ ~UsageError(call) /\ KeysLoad(call)
      /\ keys = LoadedKeys(call.keys.document)
      /\ LinesAreTaken(Len(call.lines)) /\ ChainIsJudged
  BY <1>1 DEF StatusInv, CliInv, MainIsDone, LinesInv
<1>3. EvidenceInv
  BY DEF StatusInv
<1>4. ASSUME Faultless PROVE Good(call, now)
  <2>1. GoodLines(call, now) /\ (total = 0 <=> Checked(call) = {})
    BY <1>2, <1>4, LinesAreGoodNow
  <2>2. CASE call.evidence = {}
    <3>1. checkpoint_count = 0
      BY <1>1, <1>3, <2>2 DEF EvidenceInv
    <3> QED
      BY <1>2, <1>4, <2>1, <2>2, <3>1 DEF Good
  <2>3. CASE call.evidence # {}
    <3>1. /\ EntriesAreIndexed(Len(Evidence.entries)) /\ EntriesHold(Len(Evidence.entries))
          /\ checkpoint_count = Len(Evidence.entries)
      BY <1>1, <1>3, <1>4, <2>3 DEF EvidenceInv
    <3>2. /\ Evidence \in call.evidence /\ \A e \in call.evidence : e = Evidence
          /\ Len(Evidence.entries) \in Nat
          /\ \A k \in DOMAIN Evidence.entries : k <= Len(Evidence.entries)
      BY <1>2, <2>3, EvidenceIsSound
    <3>3. \A k \in DOMAIN Evidence.entries : GoodEntry(call, Evidence, k, now)
      BY <1>2, <1>4, <2>3, <3>1, <3>2, EntriesMirror DEF EntriesHold
    <3>4. /\ Evidence.read = "parsed" /\ Evidence.version_ok /\ Evidence.entries_ok
          /\ \A k, l \in DOMAIN Evidence.entries :
               k # l => ReceiptId(Evidence.entries[k].checkpoint)
                          # ReceiptId(Evidence.entries[l].checkpoint)
      BY <3>1, <3>2 DEF EntriesAreIndexed, EntryId
    <3>5. GoodEvidence(call, Evidence, now)
      BY <3>3, <3>4, GoodEvidenceByEntries
    <3>6. Checked(call) # {} \/ Len(Evidence.entries) > 0
      BY <1>4, <2>1, <3>1, <3>2
    <3> QED
      BY <1>2, <2>1, <3>2, <3>5, <3>6 DEF Good
  <2> QED
    BY <2>2, <2>3
<1>5. ASSUME Good(call, StartNow) PROVE Faultless
  <2>1. /\ GoodLines(call, StartNow) /\ \A e \in call.evidence : GoodEvidence(call, e, StartNow)
        /\ Checked(call) # {} \/ \E e \in call.evidence : Len(e.entries) > 0
    BY <1>2, <1>5 DEF Good
  <2>2. failed = 0
    BY <1>2, <2>1 DEF LinesAreTaken
  <2>3. Taken(Len(call.lines)) = Checked(call) /\ LinesAreSound(Len(call.lines))
    BY <1>2, <2>2, AllTaken DEF LinesAreTaken
  <2>4. \A event \in LifecycleEvents :
          CountEvents(event) = Cardinality({i \in Checked(call) : Of(i).payload.event = event})
    BY <2>3 DEF LinesAreSound, Bearing
  <2>5. chain_rc = 0
    BY <1>2, <2>1, <2>2, <2>4 DEF ChainIsJudged, GoodLines, LifecycleEvents, Of
  <2>6. checkpoint_rc = 0 /\ (call.evidence # {} => checkpoint_count = Len(Evidence.entries))
    <3>1. call.evidence # {} => GoodEvidence(call, Evidence, StartNow)
      BY <1>2, <2>1, EvidenceIsSound
    <3> QED
      BY <1>1, <1>3, <2>1, <3>1 DEF EvidenceInv
  <2>7. total # 0 \/ checkpoint_count # 0
    <3>1. CASE Checked(call) # {}
      BY <2>3, <3>1 DEF LinesAreSound
    <3>2. CASE \E e \in call.evidence : Len(e.entries) > 0
      <4>1. call.evidence # {}
        BY <3>2
      <4>2. Len(Evidence.entries) > 0 /\ Len(Evidence.entries) \in Nat
        BY <1>2, <3>2, <4>1, EvidenceIsSound
      <4> QED
        BY <2>6, <4>1, <4>2
    <3> QED
      BY <2>1, <3>1, <3>2
  <2> QED
    BY <2>2, <2>5, <2>6, <2>7
<1>6. ExitStatusIsMerited'
  <2> HIDE DEF Faultless
  <2> QED
    BY <1>1, <1>2, <1>4, <1>5 DEF ExitStatusIsMerited
<1> QED
  BY <1>1, <1>6 DEF MainIsDone, LinesInv, EvidenceInv, Running

\* The clock: entries that hold go on holding.
LEMMA EntryHoldsLater ==
  ASSUME TypeOK, call.evidence # {}, EntriesAreIndexed(Len(Evidence.entries)),
         NEW k \in DOMAIN Evidence.entries, EntryHolds(Evidence.entries[k]),
         now' \in Nat, now <= now', UNCHANGED << call, keys, verified_by_id, checkpoints >>
  PROVE  EntryHolds(Evidence.entries[k])'
<1> DEFINE entry == Evidence.entries[k]
           c == entry.checkpoint
           members == Members(entry, verified_by_id)
           n == Len(entry.member_receipt_ids)
           previous == Previous(c, checkpoints)
<1>1. n \in Nat /\ DOMAIN members = 1 .. n
  BY EvidenceIsSound DEF Members
<1>2. \A i \in 1 .. n : members[i].payload.issued_at \in Int
  <2>1. \A id \in DOMAIN verified_by_id : verified_by_id[id].payload.issued_at \in Int
    BY InvocationsAssumption DEF TypeOK
  <2> QED
    BY <1>1, <2>1, EvidenceIsSound DEF EntryHolds, Members
<1>3. c.payload.issued_at \in Int /\ \A r \in previous : r.payload.issued_at \in Int
  <2>1. \A id \in DOMAIN checkpoints : \E l \in DOMAIN Evidence.entries :
          checkpoints[id] = Evidence.entries[l].checkpoint
    BY EvidenceIsSound DEF EntriesAreIndexed
  <2> QED
    BY <2>1, EvidenceIsSound DEF Previous
<1>4. VerifyCheckpoint(c, members, keys, now, {call.workspace}, {call.trusted}, previous) = Accepted
  BY DEF EntryHolds
<1>5. now \in Nat
  BY CallIsSound
<1>6. VerifyCheckpoint(c, members, keys, now', {call.workspace}, {call.trusted}, previous) = Accepted
  <2> HIDE DEF members, n, previous, c
  <2> QED
    BY <1>1, <1>2, <1>3, <1>4, <1>5, CheckpointAcceptedLater
<1>7. Evidence' = Evidence
  BY DEF Evidence
<1> QED
  BY <1>6, <1>7 DEF EntryHolds

LEMMA TickKeepsStatus ==
  ASSUME StatusInv, Tick
  PROVE  MainIsDone' /\ LinesInv' /\ EvidenceInv' /\ ExitStatusIsMerited'
<1>1. /\ exit = Running /\ now' = now + 1
      /\ UNCHANGED << call, pc, keys, position, failed, total, chain, verified_by_id, checkpoints,
                      chain_rc, checkpoint_rc, checkpoint_count, exit >>
  BY DEF Tick, counters, results, codes
<1>2. TypeOK /\ now \in Nat /\ now' \in Nat /\ now <= now'
  BY <1>1, CallIsSound DEF StatusInv, CliInv
<1>3. MainIsDone' /\ ExitStatusIsMerited'
  BY <1>1 DEF StatusInv, MainIsDone, ExitStatusIsMerited
<1>4. LinesInv'
  <2>1. pc = "export" => LinesAreTaken(position - 1)'
    BY <1>1, LinesStayTaken DEF StatusInv, LinesInv
  <2> QED
    BY <1>1, <2>1, AllLinesStayTaken DEF StatusInv, LinesInv
<1>5. EvidenceInv'
  <2>1. Evidence' = Evidence /\ \A k : EntryId(k)' = EntryId(k)
    BY <1>1 DEF Evidence, EntryId
  <2>2. ASSUME NEW n, call.evidence # {}, EntriesAreIndexed(Len(Evidence.entries)), EntriesHold(n)
        PROVE  \A k \in DOMAIN Evidence.entries : k <= n => EntryHolds(Evidence.entries[k])'
    BY <1>1, <1>2, <2>2, EntryHoldsLater DEF EntriesHold
  <2>3. pc = "index" => EntriesAreIndexed(position - 1)'
    BY <1>1, <2>1 DEF StatusInv, EvidenceInv, EntriesAreIndexed
  <2>4. EntriesAreIndexed(Len(Evidence.entries)) => EntriesAreIndexed(Len(Evidence.entries))'
    BY <1>1, <2>1 DEF EntriesAreIndexed
  <2>5. pc = "checkpoints" => EntriesHold(position - 1)'
    <3> SUFFICES ASSUME pc = "checkpoints" PROVE EntriesHold(position - 1)'
      OBVIOUS
    <3>1. /\ call.evidence # {} /\ EntriesAreIndexed(Len(Evidence.entries))
          /\ EntriesHold(position - 1)
      BY DEF StatusInv, CliInv, EvidenceIsGiven, EvidenceInv
    <3> QED
      BY <1>1, <2>1, <2>2, <3>1 DEF EntriesHold
  <2>6. pc = "summary" /\ call.evidence # {} /\ checkpoint_rc = 0 =>
          EntriesHold(Len(Evidence.entries))'
    <3> SUFFICES ASSUME pc = "summary", call.evidence # {}, checkpoint_rc = 0
                 PROVE  EntriesHold(Len(Evidence.entries))'
      OBVIOUS
    <3>1. EntriesAreIndexed(Len(Evidence.entries)) /\ EntriesHold(Len(Evidence.entries))
      BY DEF StatusInv, EvidenceInv
    <3> QED
      BY <1>1, <2>1, <2>2, <3>1 DEF EntriesHold
  <2> QED
    BY <1>1, <2>1, <2>3, <2>4, <2>5, <2>6 DEF StatusInv, EvidenceInv
<1> QED
  BY <1>3, <1>4, <1>5

\* Every step keeps the invariant; a stutter changes nothing it speaks of.
LEMMA StatusInvNext ==
  ASSUME StatusInv, [Next]_vars
  PROVE  StatusInv'
<1>1. CliInv'
  BY CliInvNext DEF StatusInv
<1>2. CASE Next
  <2>1. MainIsDone' /\ LinesInv' /\ EvidenceInv' /\ ExitStatusIsMerited'
    BY <1>2, MainKeepsStatus, LinesKeepStatus, EndOfExportKeepsStatus, OpenKeepsStatus,
       IndexKeepsStatus, EndOfIndexKeepsStatus, VerifyEntryKeepsStatus, EndOfEvidenceKeepsStatus,
       SummaryKeepsStatus, TickKeepsStatus
       DEF Next, Step
  <2> QED
    BY <1>1, <2>1 DEF StatusInv
<1>3. CASE UNCHANGED vars
  <2>1. UNCHANGED << call, now, pc, keys, position, failed, total, chain, verified_by_id, checkpoints,
                     chain_rc, checkpoint_rc, checkpoint_count, exit >>
    BY <1>3 DEF vars, counters, results, codes
  <2>2. MainIsDone' /\ ExitStatusIsMerited'
    BY <2>1 DEF StatusInv, MainIsDone, ExitStatusIsMerited
  <2>3. LinesInv'
    <3>1. pc = "export" => LinesAreTaken(position - 1)'
      BY <2>1, LinesStayTaken DEF StatusInv, LinesInv
    <3> QED
      BY <2>1, <3>1, AllLinesStayTaken DEF StatusInv, LinesInv
  <2>4. EvidenceInv'
    <3>1. Evidence' = Evidence /\ (\A k : EntryId(k)' = EntryId(k))
          /\ \A entry : EntryHolds(entry)' = EntryHolds(entry)
      BY <2>1 DEF Evidence, EntryId, EntryHolds
    <3>2. /\ EntriesAreIndexed(position - 1)' = EntriesAreIndexed(position - 1)
          /\ EntriesAreIndexed(Len(Evidence.entries))' = EntriesAreIndexed(Len(Evidence.entries))
      BY <2>1, <3>1 DEF EntriesAreIndexed
    <3>3. /\ EntriesHold(position - 1)' = EntriesHold(position - 1)
          /\ EntriesHold(Len(Evidence.entries))' = EntriesHold(Len(Evidence.entries))
      BY <2>1, <3>1 DEF EntriesHold
    <3> QED
      BY <2>1, <3>1, <3>2, <3>3 DEF StatusInv, EvidenceInv
  <2> QED
    BY <1>1, <2>2, <2>3, <2>4 DEF StatusInv
<1> QED
  BY <1>2, <1>3

LEMMA StatusInvAlways == Spec => []StatusInv
<1>1. Init => StatusInv
  <2>1. Init => CliInv
    BY CliInvInit
  <2> QED
    BY <2>1 DEF Init, StatusInv, MainIsDone, LinesInv, EvidenceInv, ExitStatusIsMerited, Running
<1>2. StatusInv /\ [Next]_vars => StatusInv'
  BY StatusInvNext
<1> QED
  BY <1>1, <1>2, PTL DEF Spec

\* The exit status answers for the files: 0 only if they are good when the
\* command ends, 0 whenever they were good when it began, 2 for its usage.
THEOREM StatusIsMerited == Spec => []ExitStatusIsMerited
<1>1. StatusInv => ExitStatusIsMerited
  BY DEF StatusInv
<1> QED
  BY <1>1, StatusInvAlways, PTL

-----------------------------------------------------------------------------
(***************************************************************************)
(* The linked checkpoints.  Each link leads to a period that has ended     *)
(* when the next begins, and a period ends after it begins: the entries    *)
(* that end before entry k begins are closed under the links.              *)
(***************************************************************************)
Start(k) == Evidence.entries[k].checkpoint.payload.context.period_start
End(k)   == Evidence.entries[k].checkpoint.payload.context.period_end

IsLink(l, k) == EntryId(l) = Evidence.entries[k].checkpoint.payload.context.previous_id

\* What is known of an entry that is accepted.
LEMMA PeriodsOfEntries ==
  ASSUME TypeOK, call.evidence # {}, GoodEvidence(call, Evidence, now),
         NEW k \in DOMAIN Evidence.entries
  PROVE  /\ Start(k) \in Int /\ End(k) \in Int /\ Start(k) < End(k)
         /\ \A i \in DOMAIN Evidence.entries[k].member_receipt_ids :
              LET member == CheckedReceipt(call, Evidence.entries[k].member_receipt_ids[i])
              IN /\ member.payload.issued_at \in Int
                 /\ Start(k) <= member.payload.issued_at /\ member.payload.issued_at < End(k)
         /\ \A l \in DOMAIN Evidence.entries : IsLink(l, k) => End(l) <= Start(k)
<1> DEFINE members == CheckedMembers(call, Evidence, k)
           n == Len(Evidence.entries[k].member_receipt_ids)
           c == Evidence.entries[k].checkpoint
           ks == LoadedKeys(call.keys.document)
           named == NamedBy(Evidence, k)
<1>1. GoodEntry(call, Evidence, k, now)
  BY GoodEvidenceByEntries
<1>2. Start(k) \in Int /\ End(k) \in Int /\ n \in Nat /\ DOMAIN members = 1 .. n
  BY EvidenceIsSound DEF Start, End, CheckedMembers
<1>3. VerifyCheckpoint(c, members, ks, now, {call.workspace}, {call.trusted}, named) = Accepted
  BY <1>1 DEF GoodEntry
<1>4. Start(k) < End(k)
  BY <1>1, <1>2, GoodEntryVerifies, CheckpointContext DEF Start, End
<1>5. \A i \in 1 .. n : InPeriod(c.payload.context, members[i].payload.issued_at)
  <2> HIDE DEF members, n, c, ks, named
  <2> QED
    BY <1>2, <1>3, CheckpointAccepts
<1>6. ASSUME NEW i \in DOMAIN Evidence.entries[k].member_receipt_ids
      PROVE  LET member == CheckedReceipt(call, Evidence.entries[k].member_receipt_ids[i])
             IN /\ member.payload.issued_at \in Int
                /\ Start(k) <= member.payload.issued_at /\ member.payload.issued_at < End(k)
  <2>1. i \in 1 .. n /\ Evidence.entries[k].member_receipt_ids[i] \in CheckedIds(call)
    BY <1>1, EvidenceIsSound DEF GoodEntry
  <2>2. members[i] = CheckedReceipt(call, Evidence.entries[k].member_receipt_ids[i])
    BY DEF CheckedMembers
  <2>3. InPeriod(c.payload.context, members[i].payload.issued_at)
    BY <1>5, <2>1
  <2> QED
    BY <2>1, <2>2, <2>3, MembersAreDated DEF InPeriod, Start, End
<1>7. ASSUME NEW l \in DOMAIN Evidence.entries, IsLink(l, k)
      PROVE  End(l) <= Start(k)
  <2>1. \A m \in DOMAIN Evidence.entries : m # l => EntryId(m) # EntryId(l)
    BY GoodEvidenceByEntries DEF EntryId
  <2>2. named = {Evidence.entries[l].checkpoint}
    BY <1>7, <2>1 DEF NamedBy, IsLink, EntryId
  <2> DEFINE prior == Evidence.entries[l].checkpoint
             w == {call.workspace}
             trust == {call.trusted}
  <2>3. VerifyLink(c.payload.context, prior, ks, now, w, trust) = Accepted
    <3> HIDE DEF prior, members, n, c, ks, named, w, trust
    <3>1. VerifyCheckpoint(c, members, ks, now, w, trust, named) = Accepted
      BY <1>3 DEF w, trust
    <3>2. named = {prior}
      BY <2>2 DEF prior
    <3>3. n \in Nat /\ DOMAIN members = 1 .. n
      BY <1>2
    <3> QED BY <3>1, <3>2, <3>3, CheckpointIsLinked
  <2>4. prior.payload.context.period_end <= c.payload.context.period_start
    <3> HIDE DEF prior, c, ks, w, trust
    <3> QED BY <2>3, LinkAccepts
  <2> QED
    BY <2>4 DEF Start, End
<1> QED
  BY <1>2, <1>4, <1>6, <1>7

\* The links lead back in time.
LEMMA AncestorsEndBefore ==
  ASSUME TypeOK, call.evidence # {}, GoodEvidence(call, Evidence, now),
         NEW k \in DOMAIN Evidence.entries, NEW l \in Ancestors(Evidence, k)
  PROVE  l \in DOMAIN Evidence.entries /\ End(l) <= Start(k)
<1> DEFINE named(m) == {j \in DOMAIN Evidence.entries :
                          ReceiptId(Evidence.entries[j].checkpoint)
                            = Evidence.entries[m].checkpoint.payload.context.previous_id}
           closed == {S \in SUBSET DOMAIN Evidence.entries :
                        named(k) \subseteq S /\ \A m \in S : named(m) \subseteq S}
           before == {m \in DOMAIN Evidence.entries : End(m) <= Start(k)}
<1>1. \A m \in DOMAIN Evidence.entries : \A j \in named(m) : End(j) <= Start(m)
  <2>1. \A m \in DOMAIN Evidence.entries : \A j \in named(m) : IsLink(j, m)
    BY DEF IsLink, EntryId
  <2> QED
    BY <2>1, PeriodsOfEntries
<1>2. \A m \in DOMAIN Evidence.entries :
        Start(m) \in Int /\ End(m) \in Int /\ Start(m) < End(m)
  BY PeriodsOfEntries
<1>3. named(k) \subseteq before
  BY <1>1
<1>4. ASSUME NEW m \in before, NEW j \in named(m) PROVE j \in before
  BY <1>1, <1>2, <1>4
<1>5. before \in closed
  BY <1>3, <1>4
<1>6. Ancestors(Evidence, k) = {j \in DOMAIN Evidence.entries : \A S \in closed : j \in S}
  BY DEF Ancestors
<1>7. l \in DOMAIN Evidence.entries /\ l \in before
  <2> HIDE DEF closed, before
  <2> QED BY <1>5, <1>6
<1> QED
  BY <1>7

\* Accepted evidence has no cycle of links and commits no receipt twice along
\* them, whatever the number of checkpoints and the order of the entries.
THEOREM LinkedDays == Spec => []LinkedDaysAreDisjoint
<1>1. ASSUME TypeOK, ExitStatusIsMerited, exit = 0,
             NEW e \in call.evidence, NEW k \in DOMAIN e.entries, NEW l, l \in Ancestors(e, k)
      PROVE  /\ e.entries[l].checkpoint.payload.context.period_end
                  <= e.entries[k].checkpoint.payload.context.period_start
             /\ \A i \in DOMAIN e.entries[l].member_receipt_ids :
                  \A j \in DOMAIN e.entries[k].member_receipt_ids :
                    e.entries[l].member_receipt_ids[i] # e.entries[k].member_receipt_ids[j]
  <2>1. Good(call, now)
    BY <1>1 DEF ExitStatusIsMerited, Running
  <2>2. call.evidence # {} /\ e = Evidence
    BY EvidenceIsSound, <1>1
  <2>3. GoodEvidence(call, Evidence, now)
    BY <2>1, <2>2 DEF Good, UsageError
  <2>4. l \in DOMAIN Evidence.entries /\ End(l) <= Start(k)
    BY <1>1, <2>2, <2>3, AncestorsEndBefore
  <2>5. ASSUME NEW i \in DOMAIN Evidence.entries[l].member_receipt_ids,
               NEW j \in DOMAIN Evidence.entries[k].member_receipt_ids,
               Evidence.entries[l].member_receipt_ids[i] = Evidence.entries[k].member_receipt_ids[j]
        PROVE  FALSE
    <3> DEFINE at == CheckedReceipt(call, Evidence.entries[l].member_receipt_ids[i]).payload.issued_at
    <3>1. at \in Int /\ at < End(l) /\ End(l) \in Int
      BY <1>1, <2>2, <2>3, <2>4, PeriodsOfEntries
    <3>2. Start(k) <= at /\ Start(k) \in Int
      BY <1>1, <2>2, <2>3, <2>5, PeriodsOfEntries
    <3> HIDE DEF at
    <3> QED
      BY <2>4, <3>1, <3>2
  <2> QED
    BY <2>2, <2>4, <2>5 DEF Start, End
<1>2. StatusInv => LinkedDaysAreDisjoint
  BY <1>1 DEF StatusInv, CliInv, LinkedDaysAreDisjoint
<1> QED
  BY <1>2, StatusInvAlways, PTL

(***************************************************************************)
(* The Merkle tree.  A level is a sequence of one or more hashes without   *)
(* repetition: an odd level is padded with its last hash, so that only     *)
(* without repetition can the padding be told from a hash.                 *)
(***************************************************************************)
IsLevel(x) ==
  /\ Len(x) \in Nat \ {0} /\ DOMAIN x = 1 .. Len(x)
  /\ x \in Seq({x[i] : i \in 1 .. Len(x)})
  /\ IsInjective(x)

\* What is defined on 1 .. n is a sequence of length n.
LEMMA SequenceOf ==
  ASSUME NEW n \in Nat, NEW x, x = [i \in 1 .. n |-> x[i]]
  PROVE  /\ Len(x) = n /\ DOMAIN x = 1 .. n
         /\ x \in Seq({x[i] : i \in 1 .. n})
<1> DEFINE T == {x[i] : i \in 1 .. n}
<1>1. x \in [1 .. n -> T]
  OBVIOUS
<1> HIDE DEF T
<1>2. x \in Seq(T)
  BY <1>1
<1>3. Len(x) \in Nat /\ DOMAIN x = 1 .. Len(x)
  BY <1>2
<1>4. 1 .. Len(x) = 1 .. n
  BY <1>1, <1>3
<1>5. Len(x) = n
  BY <1>3, <1>4
<1> QED
  BY <1>2, <1>5, <1>1 DEF T

\* A number that is not odd is twice its half.
LEMMA Half ==
  ASSUME NEW n \in Nat, n > 1
  PROVE  LET m == (n + 1) \div 2
         IN m \in Nat \ {0} /\ m < n /\ n \in {2 * m - 1, 2 * m} /\ (n % 2 = 1 <=> n = 2 * m - 1)
<1>1. CASE n % 2 = 1
  BY <1>1
<1>2. CASE n % 2 # 1
  BY <1>2
<1> QED
  BY <1>1, <1>2

\* The hashes of the next level.
LEMMA NextLevelIs ==
  ASSUME NEW x, IsLevel(x), Len(x) > 1
  PROVE  LET m == (Len(x) + 1) \div 2
             z == NextLevel(x)
         IN /\ m \in Nat \ {0} /\ m < Len(x) /\ Len(x) \in {2 * m - 1, 2 * m}
            /\ Len(z) = m /\ DOMAIN z = 1 .. m
            /\ z \in Seq({z[i] : i \in 1 .. m})
            /\ \A i \in 1 .. m :
                 z[i] = << 1, x[2 * i - 1], IF 2 * i <= Len(x) THEN x[2 * i] ELSE x[2 * i - 1] >>
<1> DEFINE n == Len(x)
           m == (n + 1) \div 2
           T == {x[i] : i \in 1 .. n}
           p == Padded(x)
           z == NextLevel(x)
<1>1. n \in Nat /\ n > 1 /\ x \in Seq(T) /\ x[n] \in T
  BY DEF IsLevel
<1>2. m \in Nat \ {0} /\ m < n /\ n \in {2 * m - 1, 2 * m} /\ (n % 2 = 1 <=> n = 2 * m - 1)
  BY <1>1, Half
<1>3. /\ Len(p) = 2 * m
      /\ \A i \in 1 .. n : p[i] = x[i]
      /\ n = 2 * m - 1 => p[2 * m] = x[n]
  <2>1. CASE n = 2 * m - 1
    <3>1. p = Append(x, x[n])
      BY <1>2, <2>1 DEF Padded
    <3> HIDE DEF T, m, p
    <3> QED
      BY <1>1, <1>2, <2>1, <3>1
  <2>2. CASE n = 2 * m
    <3>1. p = x
      BY <1>2, <2>2 DEF Padded
    <3> QED
      BY <1>2, <2>2, <3>1
  <2> QED
    BY <1>2, <2>1, <2>2
<1>4. Len(p) \div 2 = m
  BY <1>2, <1>3
<1>5. z = [i \in 1 .. m |-> << 1, p[2 * i - 1], p[2 * i] >>]
  <2> HIDE DEF m
  <2> QED
    BY <1>4 DEF NextLevel, NodeHash
<1> HIDE DEF z, m, p, n
<1>6. Len(z) = m /\ DOMAIN z = 1 .. m /\ z \in Seq({z[i] : i \in 1 .. m})
  BY <1>2, <1>5, SequenceOf
<1>7. ASSUME NEW i \in 1 .. m
      PROVE  z[i] = << 1, x[2 * i - 1], IF 2 * i <= n THEN x[2 * i] ELSE x[2 * i - 1] >>
  <2>1. 2 * i - 1 \in 1 .. n /\ p[2 * i - 1] = x[2 * i - 1]
    <3>1. 2 * i - 1 \in 1 .. n
      <4>1. \A a, b, l \in Nat : l \in {2 * a - 1, 2 * a} /\ b \in 1 .. a => 2 * b - 1 \in 1 .. l
        OBVIOUS
      <4> QED
        BY <1>1, <1>2, <4>1
    <3> QED
      BY <1>3, <3>1
  <2>2. CASE 2 * i <= n
    <3>1. 2 * i \in 1 .. n
      BY <1>1, <2>2
    <3> QED
      BY <1>3, <1>5, <2>1, <2>2, <3>1
  <2>3. CASE ~ (2 * i <= n)
    <3>1. n = 2 * m - 1 /\ i = m
      BY <1>1, <1>2, <2>3
    <3> QED
      BY <1>3, <1>5, <2>1, <2>3, <3>1
  <2> QED
    BY <2>2, <2>3
<1> QED
  BY <1>2, <1>6, <1>7 DEF z, m, n

\* It is a level again, of node hashes.
LEMMA NextIsLevel ==
  ASSUME NEW x, IsLevel(x), Len(x) > 1
  PROVE  /\ IsLevel(NextLevel(x)) /\ Len(NextLevel(x)) < Len(x)
         /\ \A i \in DOMAIN NextLevel(x) : NextLevel(x)[i][1] = 1
<1> DEFINE n == Len(x)
           m == (n + 1) \div 2
           z == NextLevel(x)
<1>1. /\ m \in Nat \ {0} /\ m < n /\ n \in {2 * m - 1, 2 * m}
      /\ Len(z) = m /\ DOMAIN z = 1 .. m
      /\ z \in Seq({z[i] : i \in 1 .. m})
      /\ \A i \in 1 .. m :
           z[i] = << 1, x[2 * i - 1], IF 2 * i <= n THEN x[2 * i] ELSE x[2 * i - 1] >>
  BY NextLevelIs
<1>2. n \in Nat /\ DOMAIN x = 1 .. n /\ \A i, j \in 1 .. n : x[i] = x[j] => i = j
  BY DEF IsLevel, IsInjective
<1> HIDE DEF z, m, n
<1>3. ASSUME NEW i \in 1 .. m, NEW j \in 1 .. m, z[i] = z[j]
      PROVE  i = j
  <2>1. x[2 * i - 1] = x[2 * j - 1]
    BY <1>1, <1>3, SMTT(25)
  <2>2. 2 * i - 1 \in 1 .. n /\ 2 * j - 1 \in 1 .. n
    BY <1>1, <1>2
  <2>3. 2 * i - 1 = 2 * j - 1
    BY <1>2, <2>1, <2>2
  <2> QED
    BY <2>3
<1>4. IsLevel(z)
  <2>1. IsInjective(z)
    BY <1>1, <1>3 DEF IsInjective
  <2> QED
    BY <1>1, <2>1 DEF IsLevel
<1>5. \A i \in 1 .. m : z[i][1] = 1
  BY <1>1
<1> QED
  BY <1>1, <1>4, <1>5 DEF z, n

\* It determines the level it was made from.
LEMMA NextLevelInjective ==
  ASSUME NEW x, NEW y, IsLevel(x), IsLevel(y), Len(x) > 1, Len(y) > 1,
         NextLevel(x) = NextLevel(y)
  PROVE  x = y
<1> DEFINE n == Len(x)
           m == (n + 1) \div 2
           z == NextLevel(x)
           k == Len(y)
           l == (k + 1) \div 2
<1>1. /\ m \in Nat \ {0} /\ m < n /\ n \in {2 * m - 1, 2 * m}
      /\ Len(z) = m
      /\ \A i \in 1 .. m :
           z[i] = << 1, x[2 * i - 1], IF 2 * i <= n THEN x[2 * i] ELSE x[2 * i - 1] >>
  BY NextLevelIs
<1>2. /\ l \in Nat \ {0} /\ l < k /\ k \in {2 * l - 1, 2 * l}
      /\ Len(z) = l
      /\ \A i \in 1 .. l :
           z[i] = << 1, y[2 * i - 1], IF 2 * i <= k THEN y[2 * i] ELSE y[2 * i - 1] >>
  BY NextLevelIs
<1>3. /\ n \in Nat /\ DOMAIN x = 1 .. n /\ (\A i, j \in 1 .. n : x[i] = x[j] => i = j)
      /\ k \in Nat /\ DOMAIN y = 1 .. k /\ (\A i, j \in 1 .. k : y[i] = y[j] => i = j)
  BY DEF IsLevel, IsInjective
<1>4. x = [i \in 1 .. n |-> x[i]] /\ y = [i \in 1 .. k |-> y[i]]
  <2>1. \A S, s : s \in Seq(S) => s = [i \in 1 .. Len(s) |-> s[i]]
    OBVIOUS
  <2> QED
    BY <2>1 DEF IsLevel
<1> HIDE DEF z, m, n, l, k
<1>5. l = m
  BY <1>1, <1>2
<1>6. ASSUME NEW i \in 1 .. m
      PROVE  /\ x[2 * i - 1] = y[2 * i - 1]
             /\ 2 * i <= n /\ 2 * i <= k => x[2 * i] = y[2 * i]
             /\ 2 * i <= n => 2 * i <= k
             /\ 2 * i <= k => 2 * i <= n
  <2>1. /\ x[2 * i - 1] = y[2 * i - 1]
        /\ (IF 2 * i <= n THEN x[2 * i] ELSE x[2 * i - 1])
             = (IF 2 * i <= k THEN y[2 * i] ELSE y[2 * i - 1])
    <3> DEFINE right(s, len) == IF 2 * i <= len THEN s[2 * i] ELSE s[2 * i - 1]
    <3>1. z[i] = << 1, x[2 * i - 1], right(x, n) >>
      BY <1>1
    <3>2. z[i] = << 1, y[2 * i - 1], right(y, k) >>
      BY <1>2, <1>5
    <3>3. x[2 * i - 1] = y[2 * i - 1] /\ right(x, n) = right(y, k)
      <4> HIDE DEF right
      <4> QED
        BY <3>1, <3>2
    <3> QED
      BY <3>3
  <2>2. ASSUME 2 * i <= n, ~ (2 * i <= k) PROVE FALSE
    <3>1. x[2 * i] = x[2 * i - 1]
      BY <2>1, <2>2
    <3>2. 2 * i \in 1 .. n /\ 2 * i - 1 \in 1 .. n /\ 2 * i # 2 * i - 1
      BY <1>3, <2>2
    <3> QED
      BY <1>3, <3>1, <3>2
  <2>3. ASSUME 2 * i <= k, ~ (2 * i <= n) PROVE FALSE
    <3>1. y[2 * i] = y[2 * i - 1]
      BY <2>1, <2>3
    <3>2. 2 * i \in 1 .. k /\ 2 * i - 1 \in 1 .. k /\ 2 * i # 2 * i - 1
      BY <1>3, <2>3
    <3> QED
      BY <1>3, <3>1, <3>2
  <2> QED
    BY <2>1, <2>2, <2>3
<1>7. n = k
  <2>1. 2 * m <= n <=> 2 * m <= k
    BY <1>1, <1>6
  <2> QED
    BY <1>1, <1>2, <1>5, <2>1
<1>8. ASSUME NEW i \in 1 .. n
      PROVE  x[i] = y[i]
  <2> DEFINE h == (i + 1) \div 2
  <2>1. h \in 1 .. m /\ i \in {2 * h - 1, 2 * h}
    BY <1>1, <1>3
  <2> HIDE DEF h
  <2>2. CASE i = 2 * h - 1
    BY <1>6, <2>1, <2>2
  <2>3. CASE i = 2 * h
    <3>1. 2 * h <= n /\ 2 * h <= k
      BY <1>3, <1>7, <2>3
    <3> QED
      BY <1>6, <2>1, <2>3, <3>1
  <2> QED
    BY <2>1, <2>2, <2>3
<1> QED
  BY <1>4, <1>7, <1>8

\* One round of the loop, and the levels after each of n rounds.
Round(x) == IF Len(x) = 1 THEN x ELSE NextLevel(x)

AreLevels(g, x, n) == g = [k \in 0 .. n |-> IF k = 0 THEN x ELSE Round(g[k - 1])]

\* The recursive function of TreeRoot is what its definition says: a partial one
\* exists for every number of rounds.
LEMMA LevelsExist ==
  ASSUME NEW x, NEW n \in Nat
  PROVE  \E g : AreLevels(g, x, n)
<1> DEFINE S == {k \in Nat : \E g : AreLevels(g, x, k)}
<1>1. 0 \in S
  <2>1. AreLevels([k \in 0 .. 0 |-> x], x, 0)
    BY DEF AreLevels
  <2> QED
    BY <2>1
<1>2. ASSUME NEW i \in 0 .. n - 1, i \in S
      PROVE  i + 1 \in S
  <2>1. PICK g : AreLevels(g, x, i)
    BY <1>2
  <2> DEFINE h == [k \in 0 .. i + 1 |-> IF k = i + 1 THEN Round(g[i]) ELSE g[k]]
  <2>2. i \in Nat /\ i + 1 \in Nat
    OBVIOUS
  <2>3. ASSUME NEW k \in 0 .. i + 1
        PROVE  h[k] = IF k = 0 THEN x ELSE Round(h[k - 1])
    <3>1. \A j \in 0 .. i : h[j] = g[j]
      BY <2>2
    <3>2. \A j \in 0 .. i : g[j] = IF j = 0 THEN x ELSE Round(g[j - 1])
      BY <2>1 DEF AreLevels
    <3>3. h[i + 1] = Round(g[i])
      BY <2>2
    <3> HIDE DEF h
    <3>4. CASE k = i + 1
      BY <2>2, <3>1, <3>3, <3>4
    <3>5. CASE k # i + 1
      <4>1. k \in 0 .. i /\ (k # 0 => k - 1 \in 0 .. i)
        BY <2>2, <3>5
      <4> QED
        BY <3>1, <3>2, <4>1
    <3> QED
      BY <3>4, <3>5
  <2>4. AreLevels(h, x, i + 1)
    <3>1. h = [k \in 0 .. i + 1 |-> h[k]]
      OBVIOUS
    <3> HIDE DEF h
    <3> QED
      BY <2>3, <3>1 DEF AreLevels
  <2> QED
    BY <2>2, <2>4
<1> HIDE DEF S
<1>3. 0 .. n \subseteq S
  BY <1>1, <1>2, NumberInduction
<1> QED
  BY <1>3 DEF S

\* The root is the first hash of the level after as many rounds as leaves.
LEMMA TreeRootIs ==
  ASSUME NEW x, IsLevel(x)
  PROVE  \E g : AreLevels(g, x, Len(x)) /\ TreeRoot(x) = g[Len(x)][1]
<1> DEFINE Body(g) == [k \in 0 .. Len(x) |->
                         IF k = 0 THEN x
                         ELSE IF Len(g[k - 1]) = 1 THEN g[k - 1] ELSE NextLevel(g[k - 1])]
           levels == CHOOSE g : g = Body(g)
<1>1. \A g : AreLevels(g, x, Len(x)) <=> g = Body(g)
  BY DEF AreLevels, Round
<1>2. Len(x) \in Nat /\ x # << >>
  BY DEF IsLevel
<1>3. levels = Body(levels)
  <2>1. \E g : g = Body(g)
    BY <1>1, <1>2, LevelsExist
  <2> HIDE DEF Body
  <2> QED
    BY <2>1
<1>4. TreeRoot(x) = levels[Len(x)][1]
  BY <1>2 DEF TreeRoot
<1> HIDE DEF levels
<1> QED
  BY <1>1, <1>3, <1>4

\* Every level is one, and shorter than the level before until it has one hash.
LEMMA LevelsShrink ==
  ASSUME NEW x, IsLevel(x), NEW g, AreLevels(g, x, Len(x)), NEW k \in 0 .. Len(x)
  PROVE  /\ IsLevel(g[k])
         /\ Len(g[k]) = 1 \/ Len(g[k]) <= Len(x) - k
<1> DEFINE n == Len(x)
           Shrunk(i) == IsLevel(g[i]) /\ (Len(g[i]) = 1 \/ Len(g[i]) <= n - i)
           S == {i \in Nat : i <= n => Shrunk(i)}
<1>1. n \in Nat
  BY DEF IsLevel
<1>2. g[0] = x /\ \A i \in 1 .. n : g[i] = Round(g[i - 1])
  BY <1>1 DEF AreLevels
<1>3. 0 \in S
  BY <1>1, <1>2
<1>4. ASSUME NEW i \in 0 .. n - 1, i \in S
      PROVE  i + 1 \in S
  <2>1. i \in Nat /\ i + 1 \in 1 .. n /\ i + 1 - 1 = i /\ Shrunk(i) /\ Len(g[i]) \in Nat \ {0}
    BY <1>1, <1>4 DEF IsLevel
  <2>2. g[i + 1] = Round(g[i])
    BY <1>2, <2>1
  <2>3. CASE Len(g[i]) = 1
    BY <2>1, <2>2, <2>3 DEF Round
  <2>4. CASE Len(g[i]) # 1
    <3>1. g[i + 1] = NextLevel(g[i])
      BY <2>2, <2>4 DEF Round
    <3>2. IsLevel(g[i + 1]) /\ Len(g[i + 1]) < Len(g[i])
      <4>1. IsLevel(g[i]) /\ Len(g[i]) > 1
        <5>1. \A l \in Nat \ {0} : l # 1 => l > 1
          OBVIOUS
        <5> QED
          BY <2>1, <2>4, <5>1
      <4> QED
        BY <3>1, <4>1, NextIsLevel
    <3>3. Len(g[i + 1]) \in Nat
      BY <3>2 DEF IsLevel
    <3>4. Len(g[i + 1]) <= n - (i + 1)
      BY <1>1, <2>1, <2>4, <3>2, <3>3
    <3> QED
      BY <2>1, <3>2, <3>4
  <2> QED
    BY <2>3, <2>4
<1>5. k \in S
  <2> HIDE DEF S
  <2>1. 0 .. n \subseteq S
    BY <1>1, <1>3, <1>4, NumberInduction
  <2> QED
    BY <2>1
<1> QED
  BY <1>1, <1>5

\* The height of the tree: the first level of one hash, which is the root.
LEMMA Height ==
  ASSUME NEW x, IsLevel(x), NEW g, AreLevels(g, x, Len(x))
  PROVE  \E h \in 0 .. Len(x) :
           /\ g[h] = g[Len(x)] /\ Len(g[h]) = 1
           /\ \A k \in 1 .. h : Len(g[k - 1]) > 1 /\ g[k] = NextLevel(g[k - 1])
<1> DEFINE n == Len(x)
           Single == {k \in 0 .. n : Len(g[k]) = 1}
<1>1. n \in Nat \ {0}
  BY DEF IsLevel
<1>2. \A i \in 1 .. n : g[i] = Round(g[i - 1])
  BY <1>1 DEF AreLevels
<1>3. \A k \in 0 .. n : Len(g[k]) \in Nat \ {0} /\ (Len(g[k]) = 1 \/ Len(g[k]) <= n - k)
  BY LevelsShrink DEF IsLevel
<1>4. n \in Single
  BY <1>1, <1>3
<1>5. PICK h \in Single : \A k \in Single : h <= k
  <2>1. Single \subseteq Nat
    BY <1>1
  <2> HIDE DEF Single
  <2> QED
    BY <1>4, <2>1, LeastNumber
<1>6. h \in 0 .. n /\ Len(g[h]) = 1
  OBVIOUS
<1>7. ASSUME NEW k \in 1 .. h
      PROVE  Len(g[k - 1]) > 1 /\ g[k] = NextLevel(g[k - 1])
  <2>1. k \in 1 .. n /\ k - 1 \in 0 .. n /\ ~ (h <= k - 1)
    BY <1>1, <1>6
  <2>2. k - 1 \notin Single
    BY <1>5, <2>1
  <2>3. Len(g[k - 1]) # 1
    BY <2>1, <2>2
  <2>4. Len(g[k - 1]) > 1
    <3>1. \A l \in Nat \ {0} : l # 1 => l > 1
      OBVIOUS
    <3> QED
      BY <1>3, <2>1, <2>3, <3>1
  <2> QED
    BY <1>2, <2>1, <2>3, <2>4 DEF Round
<1>8. g[h] = g[n]
  <2> DEFINE S == {i \in Nat : h <= i /\ i <= n => g[i] = g[h]}
  <2>1. 0 \in S
    BY <1>6
  <2>2. ASSUME NEW i \in 0 .. n - 1, i \in S
        PROVE  i + 1 \in S
    <3>1. i \in Nat /\ i + 1 \in 1 .. n /\ i + 1 - 1 = i
      BY <1>1
    <3>2. CASE h <= i
      <4>1. g[i] = g[h]
        BY <2>2, <3>1, <3>2, <1>1
      <4>2. g[i + 1] = g[i]
        BY <1>2, <1>6, <3>1, <4>1 DEF Round
      <4> QED
        BY <3>1, <4>1, <4>2
    <3>3. CASE ~ (h <= i)
      BY <1>6, <3>1, <3>3
    <3> QED
      BY <3>2, <3>3
  <2>3. n \in S
    <3> HIDE DEF S
    <3>1. 0 .. n \subseteq S
      BY <1>1, <2>1, <2>2, NumberInduction
    <3> QED
      BY <1>1, <3>1
  <2> QED
    BY <1>1, <1>6, <2>3
<1> QED
  BY <1>6, <1>7, <1>8

\* A tree that has leaves does not have the root of the empty one.
LEMMA RootIsNoEmptyHash ==
  ASSUME NEW x, IsLevel(x), \A i \in DOMAIN x : x[i][1] = 0
  PROVE  TreeRoot(x) # EmptyHash
<1>1. PICK g : AreLevels(g, x, Len(x)) /\ TreeRoot(x) = g[Len(x)][1]
  BY TreeRootIs
<1>2. PICK h \in 0 .. Len(x) :
        /\ g[h] = g[Len(x)]
        /\ \A k \in 1 .. h : Len(g[k - 1]) > 1 /\ g[k] = NextLevel(g[k - 1])
  BY <1>1, Height, ZenonT(30)
<1>3. Len(x) \in Nat /\ 1 \in DOMAIN x /\ g[0] = x
  BY <1>1 DEF IsLevel, AreLevels
<1>4. CASE h = 0
  BY <1>1, <1>2, <1>3, <1>4 DEF EmptyHash
<1>5. CASE h # 0
  <2>1. h \in 1 .. h /\ h - 1 \in 0 .. Len(x) /\ h \in 0 .. Len(x)
    BY <1>3, <1>5
  <2>2. IsLevel(g[h - 1]) /\ IsLevel(g[h])
    BY <1>1, <2>1, LevelsShrink
  <2>3. g[h][1][1] = 1
    <3>1. 1 \in DOMAIN g[h]
      BY <2>2 DEF IsLevel
    <3> QED
      BY <1>2, <2>1, <2>2, <3>1, NextIsLevel
  <2> QED
    BY <1>1, <1>2, <2>3 DEF EmptyHash
<1> QED
  BY <1>4, <1>5

\* Leaves without repetition are determined by the root of their tree: going
\* down, equal levels were made from equal levels, and leaves are no nodes.
LEMMA RootDeterminesLeaves ==
  ASSUME NEW x, NEW y, IsLevel(x), IsLevel(y),
         \A i \in DOMAIN x : x[i][1] = 0, \A i \in DOMAIN y : y[i][1] = 0,
         TreeRoot(x) = TreeRoot(y)
  PROVE  x = y
<1>1. PICK g : AreLevels(g, x, Len(x)) /\ TreeRoot(x) = g[Len(x)][1]
  BY TreeRootIs
<1>2. PICK f : AreLevels(f, y, Len(y)) /\ TreeRoot(y) = f[Len(y)][1]
  BY TreeRootIs
<1>3. PICK h \in 0 .. Len(x) :
        /\ g[h] = g[Len(x)] /\ Len(g[h]) = 1
        /\ \A k \in 1 .. h : Len(g[k - 1]) > 1 /\ g[k] = NextLevel(g[k - 1])
  BY <1>1, Height
<1>4. PICK e \in 0 .. Len(y) :
        /\ f[e] = f[Len(y)] /\ Len(f[e]) = 1
        /\ \A k \in 1 .. e : Len(f[k - 1]) > 1 /\ f[k] = NextLevel(f[k - 1])
  BY <1>2, Height
<1>5. /\ Len(x) \in Nat /\ Len(y) \in Nat /\ h \in Nat /\ e \in Nat
      /\ g[0] = x /\ f[0] = y
      /\ \A k \in 0 .. h : IsLevel(g[k])
      /\ \A k \in 0 .. e : IsLevel(f[k])
  <2>1. Len(x) \in Nat /\ Len(y) \in Nat
    BY DEF IsLevel
  <2>2. g[0] = x /\ f[0] = y
    BY <1>1, <1>2, <2>1 DEF AreLevels
  <2>3. \A k \in 0 .. Len(x) : IsLevel(g[k])
    BY <1>1, LevelsShrink
  <2>4. \A k \in 0 .. Len(y) : IsLevel(f[k])
    BY <1>2, LevelsShrink
  <2> QED
    BY <2>1, <2>2, <2>3, <2>4
<1>6. g[h] = f[e]
  <2>1. g[h][1] = f[e][1]
    BY <1>1, <1>2, <1>3, <1>4
  <2>2. IsLevel(g[h]) /\ IsLevel(f[e])
    BY <1>5
  <2>3. \A S, s : s \in Seq(S) => s = [i \in 1 .. Len(s) |-> s[i]]
    OBVIOUS
  <2>4. g[h] = [i \in 1 .. 1 |-> g[h][i]] /\ f[e] = [i \in 1 .. 1 |-> f[e][i]]
    BY <1>3, <1>4, <2>2, <2>3 DEF IsLevel
  <2>5. \A i \in 1 .. 1 : i = 1
    OBVIOUS
  <2> QED
    BY <2>1, <2>4, <2>5
<1> DEFINE S == {j \in Nat : j <= h /\ j <= e => g[h - j] = f[e - j]}
<1>7. ASSUME NEW j \in Nat, j <= h, j <= e
      PROVE  g[h - j] = f[e - j]
  <2>1. 0 \in S
    BY <1>5, <1>6
  <2>2. ASSUME NEW i \in 0 .. j - 1, i \in S
        PROVE  i + 1 \in S
    <3> DEFINE k == h - i
               l == e - i
    <3>1. /\ i \in Nat /\ i <= h /\ i <= e
          /\ k \in 1 .. h /\ l \in 1 .. e /\ k - 1 \in 0 .. h /\ l - 1 \in 0 .. e
          /\ h - (i + 1) = k - 1 /\ e - (i + 1) = l - 1
      BY <1>5, <1>7
    <3>2. g[k] = f[l]
      BY <2>2, <3>1
    <3> HIDE DEF k, l
    <3>3. NextLevel(g[k - 1]) = NextLevel(f[l - 1]) /\ Len(g[k - 1]) > 1 /\ Len(f[l - 1]) > 1
      BY <1>3, <1>4, <3>1, <3>2
    <3>4. g[k - 1] = f[l - 1]
      BY <1>5, <3>1, <3>3, NextLevelInjective
    <3> QED
      BY <3>1, <3>4
  <2>3. j \in S
    <3> HIDE DEF S
    <3>1. 0 .. j \subseteq S
      BY <2>1, <2>2, NumberInduction
    <3> QED
      BY <3>1
  <2> QED
    BY <1>7, <2>3
<1>8. ASSUME NEW k \in 1 .. h PROVE g[k][1][1] = 1
  <2>1. k - 1 \in 0 .. h /\ IsLevel(g[k - 1]) /\ IsLevel(g[k])
    BY <1>5
  <2>2. 1 \in DOMAIN g[k]
    BY <2>1 DEF IsLevel
  <2> QED
    BY <1>3, <2>1, <2>2, NextIsLevel
<1>9. ASSUME NEW k \in 1 .. e PROVE f[k][1][1] = 1
  <2>1. k - 1 \in 0 .. e /\ IsLevel(f[k - 1]) /\ IsLevel(f[k])
    BY <1>5
  <2>2. 1 \in DOMAIN f[k]
    BY <2>1 DEF IsLevel
  <2> QED
    BY <1>4, <2>1, <2>2, NextIsLevel
<1>10. x[1][1] = 0 /\ y[1][1] = 0
  BY DEF IsLevel
<1>11. h = e
  <2>1. ~ (h < e)
    <3> SUFFICES ASSUME h < e PROVE FALSE
      OBVIOUS
    <3>1. g[0] = f[e - h] /\ e - h \in 1 .. e
      BY <1>5, <1>7
    <3> QED
      BY <1>5, <1>9, <1>10, <3>1
  <2>2. ~ (e < h)
    <3> SUFFICES ASSUME e < h PROVE FALSE
      OBVIOUS
    <3>1. g[h - e] = f[0] /\ h - e \in 1 .. h
      BY <1>5, <1>7
    <3> QED
      BY <1>5, <1>8, <1>10, <3>1
  <2> QED
    BY <1>5, <2>1, <2>2
<1>12. g[h - h] = f[e - e]
  BY <1>5, <1>7, <1>11
<1> QED
  BY <1>5, <1>12

(***************************************************************************)
(* The sorted leaves.  Members are of a set R within which leaf hashes are *)
(* compared; the rank of a member is the number of those sorted before it. *)
(***************************************************************************)
IsOrdered(R) ==
  \A r, s \in R : HashOrder(r) \in Int /\ (HashOrder(r) = HashOrder(s) => r = s)

Rank(m, i) == Cardinality(SortedBefore(m, i))

AreMembers(m, n, R) ==
  n \in Nat /\ DOMAIN m = 1 .. n /\ \A i \in 1 .. n : m[i] \in R

\* An element that is in a finite set and not in a subset makes it larger.
LEMMA LargerSet ==
  ASSUME NEW S, IsFiniteSet(S), NEW T, T \subseteq S, NEW a \in S, a \notin T
  PROVE  IsFiniteSet(T) /\ Cardinality(T) \in Nat /\ Cardinality(T) < Cardinality(S)
<1>1. IsFiniteSet(T) /\ Cardinality(T) <= Cardinality(S) /\ (Cardinality(S) = Cardinality(T) => S = T)
  BY FS_Subset
<1>2. Cardinality(T) \in Nat /\ Cardinality(S) \in Nat
  BY <1>1, FS_CardinalityType
<1> QED
  BY <1>1, <1>2

\* Ranks are different, and below the number of members.
LEMMA RankIs ==
  ASSUME NEW R, IsOrdered(R), NEW n, NEW m, AreMembers(m, n, R),
         NEW i \in 1 .. n
  PROVE  /\ IsFiniteSet(SortedBefore(m, i))
         /\ Rank(m, i) \in 0 .. n - 1
         /\ \A j \in 1 .. n : i \in SortedBefore(m, j) => Rank(m, i) < Rank(m, j)
         /\ \A j \in 1 .. n : Rank(m, i) = Rank(m, j) => i = j
<1>0. n \in Nat /\ DOMAIN m = 1 .. n /\ \A j \in 1 .. n : m[j] \in R
  BY DEF AreMembers
<1>1. IsFiniteSet(1 .. n) /\ Cardinality(1 .. n) = n
  BY <1>0, FS_Interval
<1>2. \A j \in 1 .. n : SortedBefore(m, j) \subseteq 1 .. n
  BY <1>0 DEF SortedBefore
<1>3. i \notin SortedBefore(m, i)
  <2>1. m[i] \in R /\ HashOrder(m[i]) \in Int
    BY <1>0 DEF IsOrdered
  <2> QED
    BY <1>0, <2>1 DEF SortedBefore
<1>4. IsFiniteSet(SortedBefore(m, i)) /\ Rank(m, i) \in 0 .. n - 1
  <2>1. /\ IsFiniteSet(SortedBefore(m, i)) /\ Cardinality(SortedBefore(m, i)) \in Nat
        /\ Cardinality(SortedBefore(m, i)) < Cardinality(1 .. n)
    BY <1>1, <1>2, <1>3, LargerSet
  <2> QED
    BY <1>0, <1>1, <2>1 DEF Rank
<1>5. ASSUME NEW j \in 1 .. n, NEW k \in 1 .. n, j \in SortedBefore(m, k)
      PROVE  Rank(m, j) < Rank(m, k)
  <2>1. m[j] \in R /\ m[k] \in R /\ HashOrder(m[j]) \in Int /\ HashOrder(m[k]) \in Int
    BY <1>0 DEF IsOrdered
  <2>2. j \notin SortedBefore(m, j)
    BY <1>0, <2>1 DEF SortedBefore
  <2>3. ASSUME NEW l \in SortedBefore(m, j) PROVE l \in SortedBefore(m, k)
    <3>1. l \in 1 .. n /\ HashOrder(m[l]) \in Int
      <4>1. l \in 1 .. n /\ m[l] \in R
        BY <1>0, <1>2, <2>3
      <4> QED
        BY <4>1 DEF IsOrdered
    <3> QED
      BY <1>0, <1>5, <2>1, <2>3, <3>1 DEF SortedBefore
  <2>4. IsFiniteSet(SortedBefore(m, k))
    BY <1>1, <1>2, FS_Subset
  <2>5. Cardinality(SortedBefore(m, j)) < Cardinality(SortedBefore(m, k))
    BY <1>5, <2>2, <2>3, <2>4, LargerSet
  <2> QED
    BY <2>5 DEF Rank
<1>6. ASSUME NEW j \in 1 .. n, Rank(m, i) = Rank(m, j)
      PROVE  i = j
  <2>1. \A k \in {i, j} : HashOrder(m[k]) \in Int
    BY <1>0 DEF IsOrdered
  <2>2. i = j \/ i \in SortedBefore(m, j) \/ j \in SortedBefore(m, i)
    BY <1>0, <2>1 DEF SortedBefore
  <2>3. i \notin SortedBefore(m, j) /\ j \notin SortedBefore(m, i)
    <3>1. ~ (Rank(m, i) < Rank(m, j)) /\ ~ (Rank(m, j) < Rank(m, i))
      BY <1>4, <1>6
    <3> QED
      BY <1>5, <3>1
  <2> QED
    BY <2>2, <2>3
<1> QED
  BY <1>4, <1>5, <1>6

\* Every place is taken: n members have n ranks below n.
LEMMA PlacesAreTaken ==
  ASSUME NEW R, IsOrdered(R), NEW n, NEW m, AreMembers(m, n, R),
         NEW k \in 1 .. n
  PROVE  \E i \in 1 .. n : Rank(m, i) = k - 1
<1> SUFFICES ASSUME \A i \in 1 .. n : Rank(m, i) # k - 1 PROVE FALSE
  OBVIOUS
<1> DEFINE T == (0 .. n - 1) \ {k - 1}
           f == [i \in 1 .. n |-> Rank(m, i)]
<1>0. n \in Nat
  BY DEF AreMembers
<1>1. IsFiniteSet(1 .. n) /\ Cardinality(1 .. n) = n
  BY <1>0, FS_Interval
<1>2. IsFiniteSet(T) /\ Cardinality(T) < n
  <2> DEFINE U == 0 .. n - 1
  <2>1. IsFiniteSet(U) /\ Cardinality(U) = n
    <3>1. n - 1 \in Int /\ (0 > n - 1 => n = 0) /\ n - 1 - 0 + 1 = n
      BY <1>0
    <3>2. /\ IsFiniteSet(0 .. n - 1)
          /\ Cardinality(0 .. n - 1) = IF 0 > n - 1 THEN 0 ELSE n - 1 - 0 + 1
      BY <3>1, FS_Interval
    <3> QED
      BY <3>1, <3>2
  <2>2. k - 1 \in U
    BY <1>0
  <2> HIDE DEF U
  <2>3. IsFiniteSet(U \ {k - 1}) /\ Cardinality(U \ {k - 1}) = n - 1
    BY <2>1, <2>2, FS_RemoveElement
  <2> QED
    BY <1>0, <2>3 DEF U
<1>3. f \in [1 .. n -> T]
  <2>1. ASSUME NEW i \in 1 .. n PROVE Rank(m, i) \in 0 .. n - 1
    BY RankIs
  <2> QED
    BY <2>1
<1> HIDE DEF T
<1>4. \E i, j \in 1 .. n : i # j /\ f[i] = f[j]
  <2> HIDE DEF f
  <2> QED
    BY <1>1, <1>2, <1>3, FS_PigeonHole
<1>5. PICK i \in 1 .. n, j \in 1 .. n : i # j /\ Rank(m, i) = Rank(m, j)
  BY <1>4
<1>6. i = j
  BY <1>5, RankIs
<1> QED
  BY <1>5, <1>6

\* The leaves are as many as the members.
LEMMA LeavesAreSequence ==
  ASSUME NEW R, NEW n, NEW m, AreMembers(m, n, R)
  PROVE  /\ SortedLeaves(m) = [k \in 1 .. n |-> SortedLeaves(m)[k]]
         /\ Len(SortedLeaves(m)) = n
         /\ SortedLeaves(m) \in Seq({SortedLeaves(m)[k] : k \in 1 .. n})
<1> DEFINE s == SortedLeaves(m)
<1>1. n \in Nat /\ s = [k \in 1 .. n |-> s[k]]
  BY DEF SortedLeaves, AreMembers
<1> HIDE DEF s
<1>2. Len(s) = n /\ s \in Seq({s[k] : k \in 1 .. n})
  BY <1>1, SequenceOf
<1> QED
  BY <1>1, <1>2 DEF s

\* The k-th leaf is that of the member of rank k - 1.
LEMMA LeafIs ==
  ASSUME NEW R, IsOrdered(R), NEW n, NEW m, AreMembers(m, n, R), NEW k \in 1 .. n
  PROVE  \E i \in 1 .. n : Rank(m, i) = k - 1 /\ SortedLeaves(m)[k] = << 0, m[i] >>
<1> DEFINE at == CHOOSE i \in 1 .. n : Rank(m, i) = k - 1
<1>1. SortedLeaves(m)[k] = << 0, m[at] >>
  BY DEF SortedLeaves, LeafHash, Rank, AreMembers
<1>2. at \in 1 .. n /\ Rank(m, at) = k - 1
  <2>1. \E i \in 1 .. n : Rank(m, i) = k - 1
    BY PlacesAreTaken
  <2> QED
    BY <2>1
<1> HIDE DEF at
<1> QED
  BY <1>1, <1>2

\* Every member has its leaf.
LEMMA LeafOf ==
  ASSUME NEW R, IsOrdered(R), NEW n, NEW m, AreMembers(m, n, R), NEW i \in 1 .. n
  PROVE  /\ Rank(m, i) + 1 \in 1 .. n
         /\ SortedLeaves(m)[Rank(m, i) + 1] = << 0, m[i] >>
<1> DEFINE k == Rank(m, i) + 1
<1>1. k \in 1 .. n /\ k - 1 = Rank(m, i)
  <2>1. n \in Nat /\ Rank(m, i) \in 0 .. n - 1
    BY RankIs DEF AreMembers
  <2> QED
    BY <2>1
<1> HIDE DEF k
<1>2. PICK j \in 1 .. n : Rank(m, j) = k - 1 /\ SortedLeaves(m)[k] = << 0, m[j] >>
  BY <1>1, LeafIs
<1>3. i = j
  <2>1. Rank(m, i) = Rank(m, j)
    BY <1>1, <1>2
  <2> QED
    BY <2>1, RankIs
<1> QED
  BY <1>1, <1>2, <1>3 DEF k

\* Members without repetition have leaves without repetition.
LEMMA LeavesAreALevel ==
  ASSUME NEW R, IsOrdered(R), NEW n, n # 0, NEW m, AreMembers(m, n, R), IsInjective(m)
  PROVE  /\ IsLevel(SortedLeaves(m))
         /\ \A k \in DOMAIN SortedLeaves(m) : SortedLeaves(m)[k][1] = 0
<1> DEFINE s == SortedLeaves(m)
<1>0. n \in Nat /\ DOMAIN m = 1 .. n
  BY DEF AreMembers
<1>1. ASSUME NEW k \in 1 .. n
      PROVE  \E i \in 1 .. n : Rank(m, i) = k - 1 /\ s[k] = << 0, m[i] >>
  BY LeafIs
<1>2. Len(s) = n /\ DOMAIN s = 1 .. n /\ s \in Seq({s[k] : k \in 1 .. n})
  <2>1. s = [k \in 1 .. n |-> s[k]] /\ Len(s) = n /\ s \in Seq({s[k] : k \in 1 .. n})
    BY LeavesAreSequence
  <2> HIDE DEF s
  <2> QED
    BY <2>1
<1> HIDE DEF s
<1>3. ASSUME NEW k \in 1 .. n, NEW l \in 1 .. n, s[k] = s[l]
      PROVE  k = l
  <2>1. PICK i \in 1 .. n : Rank(m, i) = k - 1 /\ s[k] = << 0, m[i] >>
    BY <1>1
  <2>2. PICK j \in 1 .. n : Rank(m, j) = l - 1 /\ s[l] = << 0, m[j] >>
    BY <1>1
  <2>3. i = j
    <3>1. m[i] = m[j]
      <4>1. << 0, m[i] >> = << 0, m[j] >>
        BY <1>3, <2>1, <2>2
      <4> QED
        BY <4>1
    <3> QED
      BY <1>0, <3>1 DEF IsInjective
  <2>4. k - 1 = l - 1
    BY <2>1, <2>2, <2>3
  <2> QED
    BY <2>4
<1>4. IsLevel(s)
  <2>1. IsInjective(s)
    BY <1>2, <1>3 DEF IsInjective
  <2> QED
    BY <1>0, <1>2, <2>1 DEF IsLevel
<1>5. \A k \in 1 .. n : s[k][1] = 0
  BY <1>1
<1> QED
  BY <1>2, <1>4, <1>5 DEF s

\* The rank of a member without repetition is how many receipts have a smaller
\* leaf hash, whatever the order of the members.
LEMMA RankCounts ==
  ASSUME NEW R, IsOrdered(R), NEW n, NEW m, AreMembers(m, n, R), IsInjective(m), NEW i \in 1 .. n
  PROVE  Rank(m, i) =
           Cardinality({r \in {m[j] : j \in 1 .. n} : HashOrder(r) < HashOrder(m[i])})
<1> DEFINE B == SortedBefore(m, i)
           T == {r \in {m[j] : j \in 1 .. n} : HashOrder(r) < HashOrder(m[i])}
           f == [j \in B |-> m[j]]
<1>0. n \in Nat /\ DOMAIN m = 1 .. n /\ \A j \in 1 .. n : m[j] \in R
  BY DEF AreMembers
<1>1. B = {j \in 1 .. n : HashOrder(m[j]) < HashOrder(m[i])}
  <2>1. ASSUME NEW j \in 1 .. n, HashOrder(m[j]) = HashOrder(m[i]) PROVE ~ (j < i)
    <3>1. m[j] = m[i]
      <4>1. m[j] \in R /\ m[i] \in R
        BY <1>0
      <4> QED
        BY <2>1, <4>1 DEF IsOrdered
    <3>2. j = i
      BY <1>0, <3>1 DEF IsInjective
    <3> QED
      BY <3>2
  <2> QED
    BY <1>0, <2>1 DEF SortedBefore
<1>2. f \in [B -> T]
  BY <1>1
<1>3. \A j, k \in B : f[j] = f[k] => j = k
  BY <1>0, <1>1 DEF IsInjective
<1>4. \A r \in T : \E j \in B : f[j] = r
  BY <1>1
<1>5. IsFiniteSet(B)
  BY RankIs
<1> HIDE DEF B, T, f
<1>6. ExistsBijection(B, T)
  <2>1. f \in Injection(B, T)
    BY <1>2, <1>3 DEF Injection, IsInjective
  <2>2. f \in Surjection(B, T)
    BY <1>2, <1>4 DEF Surjection
  <2> QED
    BY <2>1, <2>2 DEF ExistsBijection, Bijection
<1>7. Cardinality(T) = Cardinality(B)
  BY <1>5, <1>6, FS_Bijection
<1> QED
  BY <1>7 DEF Rank, B, T

\* As many members as receipts.
LEMMA AsManyMembers ==
  ASSUME NEW n \in Nat, NEW m, DOMAIN m = 1 .. n, IsInjective(m)
  PROVE  IsFiniteSet({m[i] : i \in 1 .. n}) /\ Cardinality({m[i] : i \in 1 .. n}) = n
<1> DEFINE B == 1 .. n
           T == {m[i] : i \in 1 .. n}
           f == [i \in 1 .. n |-> m[i]]
<1>1. f \in Injection(B, T)
  BY DEF Injection, IsInjective
<1>2. f \in Surjection(B, T)
  BY DEF Surjection
<1>3. IsFiniteSet(B) /\ Cardinality(B) = n
  BY FS_Interval
<1> HIDE DEF B, T, f
<1>4. ExistsBijection(B, T)
  BY <1>1, <1>2 DEF ExistsBijection, Bijection
<1>5. IsFiniteSet(T) /\ Cardinality(T) = n
  BY <1>3, <1>4, FS_Bijection
<1> QED
  BY <1>5 DEF T

\* The same receipts give the same leaves, in whichever order they are handed over.
LEMMA LeavesOfTheSet ==
  ASSUME NEW R, IsOrdered(R),
         NEW n, NEW x, AreMembers(x, n, R), IsInjective(x),
         NEW k, NEW y, AreMembers(y, k, R), IsInjective(y),
         {x[i] : i \in 1 .. n} = {y[i] : i \in 1 .. k}
  PROVE  SortedLeaves(x) = SortedLeaves(y)
<1> DEFINE T == {x[i] : i \in 1 .. n}
           below(r) == Cardinality({s \in T : HashOrder(s) < HashOrder(r)})
<1>0. n \in Nat /\ k \in Nat /\ DOMAIN x = 1 .. n /\ DOMAIN y = 1 .. k
  BY DEF AreMembers
<1>1. n = k
  <2>1. Cardinality({x[i] : i \in 1 .. n}) = n
    BY <1>0, AsManyMembers
  <2>2. Cardinality({y[i] : i \in 1 .. k}) = k
    BY <1>0, AsManyMembers
  <2> QED
    BY <2>1, <2>2
<1>2. ASSUME NEW i \in 1 .. n PROVE Rank(x, i) = below(x[i])
  BY RankCounts
<1>3. ASSUME NEW i \in 1 .. k PROVE Rank(y, i) = below(y[i])
  <2>1. Rank(y, i) =
          Cardinality({r \in {y[j] : j \in 1 .. k} : HashOrder(r) < HashOrder(y[i])})
    BY RankCounts
  <2> QED
    BY <2>1
<1> HIDE DEF below
<1>4. ASSUME NEW j \in 1 .. n
      PROVE  SortedLeaves(x)[j] = SortedLeaves(y)[j]
  <2>1. PICK i \in 1 .. n : Rank(x, i) = j - 1 /\ SortedLeaves(x)[j] = << 0, x[i] >>
    BY LeafIs
  <2>2. PICK l \in 1 .. k : y[l] = x[i]
    OBVIOUS
  <2>3. Rank(y, l) = j - 1
    <3>1. Rank(x, i) = below(x[i]) /\ Rank(y, l) = below(y[l])
      BY <1>2, <1>3
    <3> QED
      BY <2>1, <2>2, <3>1
  <2>4. SortedLeaves(y)[Rank(y, l) + 1] = << 0, y[l] >>
    BY LeafOf
  <2>5. Rank(y, l) + 1 = j
    BY <2>3
  <2> QED
    BY <2>1, <2>2, <2>4, <2>5
<1>5. SortedLeaves(x) = [j \in 1 .. n |-> SortedLeaves(x)[j]]
  BY LeavesAreSequence
<1>6. SortedLeaves(y) = [j \in 1 .. n |-> SortedLeaves(y)[j]]
  BY <1>1, LeavesAreSequence
<1> QED
  BY <1>4, <1>5, <1>6

\* The root commits the set of the members: members without repetition have the
\* same root exactly when they are the same receipts (checkpoint_merkle_root).
LEMMA RootCommits ==
  ASSUME NEW R, IsOrdered(R),
         NEW n, NEW x, AreMembers(x, n, R), IsInjective(x),
         NEW k, NEW y, AreMembers(y, k, R), IsInjective(y)
  PROVE  CheckpointMerkleRoot(x) = CheckpointMerkleRoot(y)
           <=> Range(x) = Range(y)
<1> DEFINE s == SortedLeaves(x)
           t == SortedLeaves(y)
<1>0. n \in Nat /\ k \in Nat /\ DOMAIN x = 1 .. n /\ DOMAIN y = 1 .. k
  BY DEF AreMembers
<1>10. Range(x) = {x[i] : i \in 1 .. n} /\ Range(y) = {y[i] : i \in 1 .. k}
  BY <1>0 DEF Range
<1>1. /\ \A j \in 1 .. n : \E i \in 1 .. n : s[j] = << 0, x[i] >>
      /\ \A i \in 1 .. n : \E j \in 1 .. n : s[j] = << 0, x[i] >>
  <2>1. ASSUME NEW j \in 1 .. n PROVE \E i \in 1 .. n : s[j] = << 0, x[i] >>
    BY LeafIs
  <2>2. ASSUME NEW i \in 1 .. n PROVE \E j \in 1 .. n : s[j] = << 0, x[i] >>
    BY LeafOf
  <2> QED
    BY <2>1, <2>2
<1>2. /\ \A j \in 1 .. k : \E i \in 1 .. k : t[j] = << 0, y[i] >>
      /\ \A i \in 1 .. k : \E j \in 1 .. k : t[j] = << 0, y[i] >>
  <2>1. ASSUME NEW j \in 1 .. k PROVE \E i \in 1 .. k : t[j] = << 0, y[i] >>
    BY LeafIs
  <2>2. ASSUME NEW i \in 1 .. k PROVE \E j \in 1 .. k : t[j] = << 0, y[i] >>
    BY LeafOf
  <2> QED
    BY <2>1, <2>2
<1>7. /\ Len(s) = n /\ s = [j \in 1 .. n |-> s[j]]
      /\ Len(t) = k /\ t = [j \in 1 .. k |-> t[j]]
  BY LeavesAreSequence
<1>3. CheckpointMerkleRoot(x) = TreeRoot(s) /\ CheckpointMerkleRoot(y) = TreeRoot(t)
  BY DEF CheckpointMerkleRoot
<1>4. n # 0 => IsLevel(s) /\ \A j \in DOMAIN s : s[j][1] = 0
  BY LeavesAreALevel
<1>5. k # 0 => IsLevel(t) /\ \A j \in DOMAIN t : t[j][1] = 0
  BY LeavesAreALevel
<1>6. ASSUME {x[i] : i \in 1 .. n} = {y[i] : i \in 1 .. k}
      PROVE  s = t
  BY <1>6, LeavesOfTheSet
<1> HIDE DEF s, t
<1>8. ASSUME TreeRoot(s) = TreeRoot(t)
      PROVE  s = t
  <2>1. CASE n # 0 /\ k # 0
    BY <1>4, <1>5, <1>8, <2>1, RootDeterminesLeaves
  <2>2. CASE n = 0 /\ k = 0
    <3>1. s = << >> /\ t = << >>
      BY <1>7, <2>2
    <3> QED
      BY <3>1
  <2>3. CASE n # 0 /\ k = 0
    <3>1. TreeRoot(s) # EmptyHash
      BY <1>4, <2>3, RootIsNoEmptyHash
    <3>2. TreeRoot(t) = EmptyHash
      <4>1. t = << >>
        BY <1>7, <2>3
      <4> QED
        BY <4>1 DEF TreeRoot
    <3> QED
      BY <1>8, <3>1, <3>2
  <2>4. CASE n = 0 /\ k # 0
    <3>1. TreeRoot(t) # EmptyHash
      BY <1>5, <2>4, RootIsNoEmptyHash
    <3>2. TreeRoot(s) = EmptyHash
      <4>1. s = << >>
        BY <1>7, <2>4
      <4> QED
        BY <4>1 DEF TreeRoot
    <3> QED
      BY <1>8, <3>1, <3>2
  <2> QED
    BY <2>1, <2>2, <2>3, <2>4
<1>9. ASSUME s = t
      PROVE  {x[i] : i \in 1 .. n} = {y[i] : i \in 1 .. k}
  <2>1. n = k
    BY <1>7, <1>9
  <2>2. ASSUME NEW i \in 1 .. n PROVE \E l \in 1 .. k : x[i] = y[l]
    <3>1. PICK j \in 1 .. n : s[j] = << 0, x[i] >>
      BY <1>1
    <3>2. PICK l \in 1 .. k : t[j] = << 0, y[l] >>
      BY <1>2, <2>1
    <3> QED
      BY <1>9, <3>1, <3>2
  <2>3. ASSUME NEW l \in 1 .. k PROVE \E i \in 1 .. n : y[l] = x[i]
    <3>1. PICK j \in 1 .. k : t[j] = << 0, y[l] >>
      BY <1>2
    <3>2. PICK i \in 1 .. n : s[j] = << 0, x[i] >>
      BY <1>1, <2>1
    <3> QED
      BY <1>9, <3>1, <3>2
  <2> QED
    BY <2>2, <2>3
<1> QED
  BY <1>3, <1>6, <1>8, <1>9, <1>10

-----------------------------------------------------------------------------
(* What the checkpoints of the evidence commit. *)

\* SetToSeq lists a finite set, each element once.
LEMMA SetToSeqLists ==
  ASSUME NEW S, IsFiniteSet(S)
  PROVE  LET q == SetToSeq(S)
             n == Cardinality(S)
         IN /\ n \in Nat /\ DOMAIN q = 1 .. n
            /\ \A i \in 1 .. n : q[i] \in S
            /\ \A i, j \in 1 .. n : q[i] = q[j] => i = j
            /\ \A a \in S : \E i \in 1 .. n : q[i] = a
<1> DEFINE q == SetToSeq(S)
           n == Cardinality(S)
<1>1. n \in Nat /\ ExistsBijection(1 .. n, S)
  BY FS_CardinalityType
<1>2. q \in [1 .. n -> S] /\ IsInjective(q)
  <2>1. \E f \in [1 .. n -> S] : IsInjective(f)
    BY <1>1 DEF ExistsBijection, Bijection, Injection
  <2> QED
    BY <2>1 DEF SetToSeq
<1> HIDE DEF q
<1>3. \A i, j \in 1 .. n : q[i] = q[j] => i = j
  BY <1>2 DEF IsInjective
<1>4. ASSUME NEW a \in S
      PROVE  \E i \in 1 .. n : q[i] = a
  <2> SUFFICES ASSUME \A i \in 1 .. n : q[i] # a PROVE FALSE
    OBVIOUS
  <2> DEFINE T == S \ {a}
  <2>1. IsFiniteSet(T) /\ Cardinality(T) = n - 1
    BY FS_RemoveElement
  <2>2. q \in [1 .. n -> T]
    BY <1>2
  <2>3. IsFiniteSet(1 .. n) /\ Cardinality(1 .. n) = n
    BY <1>1, FS_Interval
  <2> HIDE DEF T, n
  <2>4. Cardinality(T) < Cardinality(1 .. n)
    BY <1>1, <2>1, <2>3
  <2>5. \E i, j \in 1 .. n : i # j /\ q[i] = q[j]
    BY <2>1, <2>2, <2>3, <2>4, FS_PigeonHole
  <2> QED
    BY <1>3, <2>5
<1> QED
  BY <1>1, <1>2, <1>3, <1>4 DEF q

\* The receipts of a sequence of different ids are members without repetition.
LEMMA VerifiedAreMembers ==
  ASSUME TypeOK, \A id \in DOMAIN verified_by_id : ReceiptId(verified_by_id[id]) = id,
         NEW n \in Nat, NEW q, DOMAIN q = 1 .. n,
         \A i \in 1 .. n : q[i] \in DOMAIN verified_by_id,
         \A i, j \in 1 .. n : q[i] = q[j] => i = j
  PROVE  LET m == [i \in 1 .. n |-> verified_by_id[q[i]]]
         IN AreMembers(m, n, ExportedReceipts(call)) /\ IsInjective(m)
<1> DEFINE m == [i \in 1 .. n |-> verified_by_id[q[i]]]
<1>1. \A i \in 1 .. n : m[i] \in ExportedReceipts(call)
  BY DEF TypeOK
<1>2. ASSUME NEW i \in 1 .. n, NEW j \in 1 .. n, m[i] = m[j]
      PROVE  i = j
  <2>1. verified_by_id[q[i]] = verified_by_id[q[j]]
    BY <1>2
  <2>2. q[i] = q[j]
    BY <2>1
  <2> QED
    BY <2>2
<1>3. DOMAIN m = 1 .. n
  OBVIOUS
<1> HIDE DEF m
<1>4. AreMembers(m, n, ExportedReceipts(call)) /\ IsInjective(m)
  BY <1>1, <1>2, <1>3 DEF AreMembers, IsInjective
<1> QED
  BY <1>4 DEF m

\* An accepted checkpoint carries the root of its members.
LEMMA RootIsReproduced ==
  ASSUME NEW c, NEW members, NEW n \in Nat, DOMAIN members = 1 .. n,
         NEW ks, NEW t, NEW w, NEW trust, NEW previous,
         VerifyCheckpoint(c, members, ks, t, w, trust, previous) = Accepted
  PROVE  c.payload.context.merkle_root = CheckpointMerkleRoot(members)
  BY CheckpointAccepts

\* A root that the members of an entry reproduce is reproduced by no other set
\* of verified receipts.
LEMMA EntryCommits ==
  ASSUME TypeOK, IsFiniteSet(DOMAIN verified_by_id),
         \A id \in DOMAIN verified_by_id : ReceiptId(verified_by_id[id]) = id,
         NEW entry, NEW n \in Nat, DOMAIN entry.member_receipt_ids = 1 .. n,
         IsUnique(entry.member_receipt_ids),
         \A i \in 1 .. n : entry.member_receipt_ids[i] \in DOMAIN verified_by_id,
         entry.checkpoint.payload.context.merkle_root
           = CheckpointMerkleRoot(Members(entry, verified_by_id)),
         NEW ids \in SUBSET DOMAIN verified_by_id
  PROVE  (CheckpointMerkleRoot([i \in 1 .. Cardinality(ids) |->
             verified_by_id[SetToSeq(ids)[i]]])
            = entry.checkpoint.payload.context.merkle_root)
         <=> ids = {entry.member_receipt_ids[i] : i \in DOMAIN entry.member_receipt_ids}
<1> DEFINE named == entry.member_receipt_ids
           q == SetToSeq(ids)
           k == Cardinality(ids)
           x == [i \in 1 .. k |-> verified_by_id[q[i]]]
           y == [i \in 1 .. n |-> verified_by_id[named[i]]]
           R == ExportedReceipts(call)
<1>1. IsFiniteSet(ids)
  BY FS_Subset
<1>2. /\ k \in Nat /\ DOMAIN q = 1 .. k
      /\ \A i \in 1 .. k : q[i] \in ids
      /\ \A i, j \in 1 .. k : q[i] = q[j] => i = j
      /\ \A a \in ids : \E i \in 1 .. k : q[i] = a
  BY <1>1, SetToSeqLists
<1>3. \A i, j \in 1 .. n : named[i] = named[j] => i = j
  BY DEF IsUnique
<1>4. Members(entry, verified_by_id) = y
  BY DEF Members
<1>5. IsOrdered(R)
  BY HashAssumption DEF TypeOK, IsOrdered
<1> HIDE DEF R, k, q
<1>6. AreMembers(x, k, R) /\ IsInjective(x)
  BY <1>2, VerifiedAreMembers DEF R
<1>7. AreMembers(y, n, R) /\ IsInjective(y)
  BY <1>3, VerifiedAreMembers DEF R
<1>8. (CheckpointMerkleRoot(x) = CheckpointMerkleRoot(y))
        <=> {x[i] : i \in 1 .. k} = {y[i] : i \in 1 .. n}
  <2> HIDE DEF x, y
  <2>1. (CheckpointMerkleRoot(x) = CheckpointMerkleRoot(y)) <=> Range(x) = Range(y)
    BY <1>5, <1>6, <1>7, RootCommits
  <2>2. DOMAIN x = 1 .. k /\ DOMAIN y = 1 .. n
    BY <1>6, <1>7 DEF AreMembers
  <2> QED
    BY <2>1, <2>2 DEF Range
<1>9. {x[i] : i \in 1 .. k} = {verified_by_id[id] : id \in ids}
  BY <1>2
<1>10. {y[i] : i \in 1 .. n} = {verified_by_id[id] : id \in {named[i] : i \in 1 .. n}}
  OBVIOUS
<1>11. ASSUME NEW S \in SUBSET DOMAIN verified_by_id, NEW T \in SUBSET DOMAIN verified_by_id,
              {verified_by_id[id] : id \in S} = {verified_by_id[id] : id \in T}
       PROVE  S \subseteq T
  <2> SUFFICES ASSUME NEW a \in S PROVE a \in T
    OBVIOUS
  <2>1. PICK b \in T : verified_by_id[a] = verified_by_id[b]
    BY <1>11
  <2>2. a = b
    BY <2>1
  <2> QED
    BY <2>2
<1>12. {x[i] : i \in 1 .. k} = {y[i] : i \in 1 .. n} <=> ids = {named[i] : i \in 1 .. n}
  <2> DEFINE M == {named[i] : i \in 1 .. n}
  <2>1. M \in SUBSET DOMAIN verified_by_id
    OBVIOUS
  <2> HIDE DEF M
  <2>2. {verified_by_id[id] : id \in ids} = {verified_by_id[id] : id \in M} <=> ids = M
    BY <1>11, <2>1
  <2> QED
    BY <1>9, <1>10, <2>2 DEF M
<1>13. entry.checkpoint.payload.context.merkle_root = CheckpointMerkleRoot(y)
  BY <1>4
<1> QED
  BY <1>8, <1>12, <1>13 DEF k, q

\* The summary answers 0 only after every entry has been accepted.
LEMMA SummaryCommits ==
  ASSUME StatusInv, Summary
  PROVE  CommitmentIsExact'
<1> SUFFICES ASSUME exit' = 0, NEW e \in call.evidence, NEW j \in DOMAIN e.entries
             PROVE  LET entry == e.entries[j]
                        named == {entry.member_receipt_ids[i] : i \in DOMAIN entry.member_receipt_ids}
                    IN \A ids \in SUBSET DOMAIN verified_by_id :
                         (CheckpointMerkleRoot([i \in 1 .. Cardinality(ids) |->
                            verified_by_id[SetToSeq(ids)[i]]])
                            = entry.checkpoint.payload.context.merkle_root)
                         <=> ids = named
  BY DEF Summary, results, CommitmentIsExact
<1>1. /\ TypeOK /\ IsFiniteSet(DOMAIN verified_by_id)
      /\ \A id \in DOMAIN verified_by_id : ReceiptId(verified_by_id[id]) = id
  BY DEF StatusInv, CliInv, VerifiedStaysVerified
<1>2. pc = "summary" /\ checkpoint_rc = 0
  BY DEF Summary, Exit
<1>3. e = Evidence /\ EvidenceAssumption(e)
  BY <1>1, InvocationsAssumption DEF TypeOK, Evidence
<1> DEFINE entry == e.entries[j]
           n == Len(entry.member_receipt_ids)
<1>4. /\ Len(e.entries) \in Nat /\ j \in 1 .. Len(e.entries)
      /\ n \in Nat /\ DOMAIN entry.member_receipt_ids = 1 .. n
  BY <1>3 DEF EvidenceAssumption
<1>5. EntryHolds(entry)
  BY <1>2, <1>3, <1>4 DEF StatusInv, EvidenceInv, EntriesHold
<1>6. /\ IsUnique(entry.member_receipt_ids)
      /\ \A i \in 1 .. n : entry.member_receipt_ids[i] \in DOMAIN verified_by_id
      /\ VerifyCheckpoint(entry.checkpoint, Members(entry, verified_by_id), keys, now,
                          {call.workspace}, {call.trusted}, Previous(entry.checkpoint, checkpoints))
           = Accepted
  BY <1>4, <1>5 DEF EntryHolds
<1>7. entry.checkpoint.payload.context.merkle_root
        = CheckpointMerkleRoot(Members(entry, verified_by_id))
  <2>1. DOMAIN Members(entry, verified_by_id) = 1 .. n
    BY <1>4 DEF Members
  <2> DEFINE members == Members(entry, verified_by_id)
  <2> HIDE DEF entry, n, members
  <2>2. members = Members(entry, verified_by_id)
    BY DEF members
  <2>3. entry.checkpoint.payload.context.merkle_root = CheckpointMerkleRoot(members)
    BY <1>4, <1>6, <2>1, <2>2, RootIsReproduced
  <2> QED
    BY <2>2, <2>3
<1> HIDE DEF entry, n
<1>8. ASSUME NEW ids \in SUBSET DOMAIN verified_by_id
      PROVE  (CheckpointMerkleRoot([i \in 1 .. Cardinality(ids) |->
                verified_by_id[SetToSeq(ids)[i]]])
                = entry.checkpoint.payload.context.merkle_root)
             <=> ids = {entry.member_receipt_ids[i] : i \in DOMAIN entry.member_receipt_ids}
  BY <1>1, <1>4, <1>6, <1>7, EntryCommits
<1> QED
  BY <1>8 DEF entry

\* A checkpoint that the command accepts commits its members and nothing else.
THEOREM CommitmentsAreExact == Spec => []CommitmentIsExact
<1>1. Init => CommitmentIsExact
  BY DEF Init, CommitmentIsExact, Running
<1>2. StatusInv /\ CommitmentIsExact /\ [Next]_vars => CommitmentIsExact'
  <2> SUFFICES ASSUME StatusInv, CommitmentIsExact, [Next]_vars PROVE CommitmentIsExact'
    OBVIOUS
  <2>1. CASE Summary
    BY <2>1, SummaryCommits
  <2>2. CASE VerifySingle
    <3>1. call' = call /\ call.evidence = {}
      BY <2>2 DEF VerifySingle, StatusInv, MainIsDone, UsageError
    <3> QED
      BY <3>1 DEF CommitmentIsExact
  <2>3. CASE exit' # 0
    BY <2>3 DEF CommitmentIsExact
  <2>4. CASE exit = 0
    <3>1. pc = "exited"
      BY <2>4 DEF StatusInv, MainIsDone, Running
    <3>2. UNCHANGED vars
      BY <2>4, <3>1 DEF Next, Step, Tick, ParseArguments, LoadKeys, RejectKeys, VerifySingle, AtLine,
           BlankLine, AbortAtLine, UndecodableLine, SkipLine, VerifyLine, RejectLine, EndOfExport,
           OpenEvidence, IndexCheckpoint, EndOfIndex, VerifyEntry, EndOfEvidence, Summary, Running
    <3> QED
      BY <3>2 DEF CommitmentIsExact, vars, results
  <2>5. exit' # 0 \/ exit = 0 \/ Summary \/ VerifySingle
    BY DEF Next, Step, Tick, ParseArguments, LoadKeys, RejectKeys, AtLine,
           BlankLine, AbortAtLine, UndecodableLine, SkipLine, VerifyLine, RejectLine, EndOfExport,
           OpenEvidence, IndexCheckpoint, EndOfIndex, VerifyEntry, EndOfEvidence, Exit, Abort,
           FailEvidence, vars
  <2> QED
    BY <2>1, <2>2, <2>3, <2>4, <2>5
<1> QED
  BY <1>1, <1>2, StatusInvAlways, PTL DEF Spec
=============================================================================
