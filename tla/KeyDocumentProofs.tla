------------------------- MODULE KeyDocumentProofs -------------------------
(***************************************************************************)
(* Proofs about the key loading loop of Python, and about the concurrent   *)
(* one of TypeScript that follows it: what they accept, for documents of   *)
(* every length and every content.                                         *)
(***************************************************************************)
EXTENDS TsKeyLoading, ReceiptRulesProofs

\* The entries the loop has passed.
Passed == 1 .. position - 1

(***************************************************************************)
(* The inductive invariant: the passed entries are well formed, distinct   *)
(* in id and in text, mirrored in out and in the two sets; a rejection     *)
(* names a real fault of the document.                                     *)
(***************************************************************************)
PassedAreGood ==
  /\ \A i \in Passed : EntryIsWellFormed(document.keys[i])
  /\ \A i, j \in Passed :
       i # j => /\ document.keys[i].key_id # document.keys[j].key_id
                /\ document.keys[i].public_key # document.keys[j].public_key

LocalsMirrorPassed ==
  /\ DOMAIN out = Passed
  /\ \A i \in Passed : out[i] = LoadedKey(document.keys[i])
  /\ seen_ids = {document.keys[i].key_id : i \in Passed}
  /\ seen_pubs = {document.keys[i].public_key : i \in Passed}

VerdictIsRight ==
  /\ verdict = Accepted => document.shape_ok /\ position = Len(document.keys) + 1
  /\ verdict \notin {Running, Accepted} => ~DocumentIsValid(document)

LoadInv == TypeOK /\ PassedAreGood /\ LocalsMirrorPassed /\ VerdictIsRight

-----------------------------------------------------------------------------
\* One entry passes exactly when it is well formed and its id and its text
\* are new (the body of the loop in load_keys_from_json).
LEMMA EntryPasses ==
  ASSUME NEW e \in Entries, NEW known, NEW texts
  PROVE  (CheckEntry(e, known, texts) = Accepted)
           <=> /\ EntryIsWellFormed(e)
               /\ e.key_id \notin known
               /\ e.public_key \notin texts
<1> DEFINE shape == FirstDefect(EntryOrder, e.defects)
<1>1. (shape = Accepted) <=> (\A i \in 1 .. 4 : EntryOrder[i] \notin e.defects)
  <2>1. DOMAIN EntryOrder = 1 .. 4 /\ \A i \in 1 .. 4 : EntryOrder[i] # Accepted
    BY DEF EntryOrder, Accepted
  <2> HIDE DEF shape
  <2> QED BY <2>1, FirstDefectAccepts DEF shape
<1>2. e.defects = {} <=> /\ \A i \in 1 .. 4 : EntryOrder[i] \notin e.defects
                         /\ "alphabet" \notin e.defects
                         /\ "length" \notin e.defects
  <2>1. e.defects \subseteq EntryDefects
    BY DEF Entries
  <2>2. EntryDefects = {"entry_not_object", "entry_field_type", "entry_alg",
                        "active_until_type", "alphabet", "length"}
    BY DEF EntryDefects, EntryOrder
  <2> QED
    BY <2>1, <2>2 DEF EntryOrder
<1>3. CheckEntryText(e) = Accepted
        <=> /\ "alphabet" \notin e.defects
            /\ e.public_key.pad = 0
            /\ "length" \notin e.defects
            /\ e.active_from # Unparseable
            /\ Unparseable \notin e.active_until
            /\ e.fingerprint \in {NoFingerprint, e.public_key.bytes}
  BY DEF CheckEntryText, DecodesCanonically, ++, Require, Accepted
<1> HIDE DEF shape
<1>4. CheckEntry(e, known, texts) = Accepted
        <=> /\ shape = Accepted
            /\ e.key_id \notin known
            /\ e.public_key \notin texts
            /\ CheckEntryText(e) = Accepted
  BY DEF CheckEntry, ++, Require, Accepted, shape
<1> QED
  BY <1>1, <1>2, <1>3, <1>4 DEF EntryIsWellFormed

\* Every rejection of an entry is one of the labels of EntryRejections.
LEMMA EntryVerdictType ==
  ASSUME NEW e, NEW known, NEW texts
  PROVE  CheckEntry(e, known, texts) \in {Accepted} \union EntryRejections
<1> DEFINE shape == FirstDefect(EntryOrder, e.defects)
<1>1. shape \in {Accepted} \union EntryRejections
  <2>1. DOMAIN EntryOrder = 1 .. 4 /\ \A i \in 1 .. 4 : EntryOrder[i] # Accepted
    BY DEF EntryOrder, Accepted
  <2>2. \/ shape = Accepted
        \/ \E i \in 1 .. 4 : shape = EntryOrder[i]
    <3> HIDE DEF shape
    <3> QED BY <2>1, FirstDefectAccepts DEF shape
  <2> HIDE DEF shape
  <2> QED BY <2>1, <2>2 DEF EntryRejections
<1> HIDE DEF shape
<1>2. CheckEntryText(e) \in {Accepted} \union EntryRejections
  BY DEF CheckEntryText, ++, Require, EntryRejections
<1> QED
  BY <1>1, <1>2 DEF CheckEntry, ++, Require, EntryRejections, shape

\* In the invariant's terms: the entry at hand is judged against the passed
\* ones, so that a rejected entry refutes the whole document.
LEMMA EntryVerdictMeaning ==
  ASSUME LoadInv, InLoop
  PROVE  /\ position \in 1 .. Len(document.keys)
         /\ document.keys[position] \in Entries
         /\ (EntryVerdict = Accepted)
              <=> /\ EntryIsWellFormed(document.keys[position])
                  /\ \A i \in Passed :
                       /\ document.keys[i].key_id # document.keys[position].key_id
                       /\ document.keys[i].public_key # document.keys[position].public_key
         /\ EntryVerdict \in {Accepted} \union EntryRejections
<1>1. document.keys \in Seq(Entries)
  BY DocumentsAssumption DEF LoadInv, TypeOK, DocumentType
<1>2. position \in 1 .. Len(document.keys) /\ document.keys[position] \in Entries
  BY <1>1 DEF LoadInv, TypeOK, InLoop
<1>3. EntryVerdict \in {Accepted} \union EntryRejections
  BY <1>2, EntryVerdictType DEF EntryVerdict
<1> QED
  BY <1>2, <1>3, EntryPasses DEF LoadInv, LocalsMirrorPassed, EntryVerdict

-----------------------------------------------------------------------------
\* Before the first entry nothing has passed.
LEMMA LoadInvInit == Init => LoadInv
<1> SUFFICES ASSUME Init PROVE LoadInv
  OBVIOUS
<1>1. document.keys \in Seq(Entries)
  BY DocumentsAssumption DEF Init, DocumentType
<1>2. Passed = {}
  BY DEF Init, Passed
<1>3. TypeOK
  <2>1. position \in 1 .. Len(document.keys) + 1
    BY <1>1 DEF Init
  <2>2. out \in Seq(KeyType)
    BY DEF Init
  <2>3. seen_ids \subseteq STRING /\ seen_pubs \subseteq Texts
    BY DEF Init
  <2> QED
    BY <2>1, <2>2, <2>3 DEF Init, TypeOK
<1> QED
  BY <1>2, <1>3 DEF Init, LoadInv, PassedAreGood, LocalsMirrorPassed,
                    VerdictIsRight, Running, Accepted

\* Each step of the loop keeps the invariant.
LEMMA LoadInvNext == LoadInv /\ [Next]_vars => LoadInv'
<1> SUFFICES ASSUME LoadInv, [Next]_vars PROVE LoadInv'
  OBVIOUS
<1> USE DEF LoadInv
<1>1. CASE RejectDocument
  <2>1. TypeOK'
    BY <1>1 DEF RejectDocument, TypeOK
  <2>2. PassedAreGood' /\ LocalsMirrorPassed'
    BY <1>1 DEF RejectDocument, PassedAreGood, LocalsMirrorPassed, Passed
  <2>3. VerdictIsRight'
    BY <1>1 DEF RejectDocument, VerdictIsRight, DocumentIsValid, Accepted, Running
  <2> QED
    BY <2>1, <2>2, <2>3
<1>2. CASE LoadEntry
  <2> DEFINE e == document.keys[position]
  <2>1. InLoop /\ EntryVerdict = Accepted
    BY <1>2 DEF LoadEntry
  <2>2. /\ position \in 1 .. Len(document.keys)
        /\ e \in Entries
        /\ EntryIsWellFormed(e)
        /\ \A i \in Passed : /\ document.keys[i].key_id # e.key_id
                             /\ document.keys[i].public_key # e.public_key
    BY <2>1, EntryVerdictMeaning
  <2>3. document.keys \in Seq(Entries)
    BY DocumentsAssumption DEF TypeOK, DocumentType
  <2>4. /\ position' = position + 1 /\ document' = document /\ verdict' = verdict
        /\ out' = Append(out, LoadedKey(e))
        /\ seen_ids' = seen_ids \union {e.key_id}
        /\ seen_pubs' = seen_pubs \union {e.public_key}
    BY <1>2 DEF LoadEntry
  <2>5. Passed' = Passed \union {position} /\ position \notin Passed
    BY <2>2, <2>4 DEF Passed
  <2>6. TypeOK'
    <3>1. LoadedKey(e) \in KeyType
      BY <2>2 DEF LoadedKey, KeyType, Entries, Texts
    <3>2. out' \in Seq(KeyType)
      BY <2>4, <3>1 DEF TypeOK
    <3>3. seen_ids' \subseteq STRING /\ seen_pubs' \subseteq Texts
      BY <2>2, <2>4 DEF TypeOK, Entries
    <3>4. position' \in 1 .. Len(document'.keys) + 1
      BY <2>2, <2>3, <2>4
    <3> QED
      BY <2>4, <3>2, <3>3, <3>4 DEF TypeOK
  <2>7. PassedAreGood'
    BY <2>2, <2>4, <2>5 DEF PassedAreGood
  <2>8. LocalsMirrorPassed'
    <3>1. out \in Seq(KeyType) /\ Len(out) = position - 1
      BY <2>2 DEF TypeOK, LocalsMirrorPassed, Passed
    <3>2. DOMAIN out' = Passed' /\ \A i \in Passed' : out'[i] = LoadedKey(document'.keys[i])
      BY <2>2, <2>4, <2>5, <3>1 DEF LocalsMirrorPassed, Passed
    <3>3. /\ seen_ids' = {document'.keys[i].key_id : i \in Passed'}
          /\ seen_pubs' = {document'.keys[i].public_key : i \in Passed'}
      BY <2>4, <2>5 DEF LocalsMirrorPassed
    <3> QED
      BY <3>2, <3>3 DEF LocalsMirrorPassed
  <2>9. VerdictIsRight'
    BY <2>1, <2>4 DEF InLoop, VerdictIsRight, Running, Accepted
  <2> QED
    BY <2>6, <2>7, <2>8, <2>9
<1>3. CASE RejectEntry
  <2>1. InLoop /\ EntryVerdict # Accepted
    BY <1>3 DEF RejectEntry
  <2>2. TypeOK'
    BY <1>3, <2>1, EntryVerdictMeaning DEF RejectEntry, TypeOK
  <2>3. PassedAreGood' /\ LocalsMirrorPassed'
    BY <1>3 DEF RejectEntry, PassedAreGood, LocalsMirrorPassed, Passed
  <2>4. ~DocumentIsValid(document)
    <3>1. position \in 1 .. Len(document.keys) /\ document.keys \in Seq(Entries)
      BY <2>1, EntryVerdictMeaning, DocumentsAssumption DEF TypeOK, DocumentType
    <3>2. ~EntryIsWellFormed(document.keys[position])
          \/ \E i \in Passed : \/ document.keys[i].key_id = document.keys[position].key_id
                               \/ document.keys[i].public_key = document.keys[position].public_key
      BY <2>1, EntryVerdictMeaning
    <3> QED
      BY <3>1, <3>2 DEF DocumentIsValid, Passed
  <2>5. VerdictIsRight'
    BY <1>3, <2>1, <2>4 DEF RejectEntry, VerdictIsRight
  <2> QED
    BY <2>2, <2>3, <2>5
<1>4. CASE Return
  <2>1. TypeOK'
    BY <1>4 DEF Return, TypeOK
  <2>2. PassedAreGood' /\ LocalsMirrorPassed'
    BY <1>4 DEF Return, PassedAreGood, LocalsMirrorPassed, Passed
  <2>3. document.keys \in Seq(Entries)
    BY DocumentsAssumption DEF TypeOK, DocumentType
  <2>4. VerdictIsRight'
    BY <1>4, <2>3 DEF Return, VerdictIsRight, TypeOK
  <2> QED
    BY <2>1, <2>2, <2>4
<1>5. CASE UNCHANGED vars
  BY <1>5 DEF vars, TypeOK, PassedAreGood, LocalsMirrorPassed, VerdictIsRight, Passed
<1> QED
  BY <1>1, <1>2, <1>3, <1>4, <1>5 DEF Next

\* The invariant holds throughout.
LEMMA LoadInvAlways == Spec => []LoadInv
  BY LoadInvInit, LoadInvNext, PTL DEF Spec

-----------------------------------------------------------------------------
\* Type correctness of the loading loop, for every document.
THEOREM TypeCorrect == Spec => []TypeOK
<1>1. LoadInv => TypeOK
  BY DEF LoadInv
<1> QED
  BY <1>1, LoadInvAlways, PTL

\* In the invariant's terms: once the loop has ended, the verdict is the document's.
LEMMA LoadInvLoads == LoadInv => LoadsExactlyValidDocuments
<1> SUFFICES ASSUME LoadInv, verdict # Running
             PROVE  /\ (verdict = Accepted) = DocumentIsValid(document)
                    /\ verdict = Accepted => out = LoadedKeys(document)
  BY DEF LoadsExactlyValidDocuments
<1>1. document.keys \in Seq(Entries)
  BY DocumentsAssumption DEF LoadInv, TypeOK, DocumentType
<1>2. CASE verdict # Accepted
  BY <1>2 DEF LoadInv, VerdictIsRight, DocumentIsValid
<1>3. CASE verdict = Accepted
  <2>1. document.shape_ok /\ Passed = DOMAIN document.keys
    BY <1>1, <1>3 DEF LoadInv, VerdictIsRight, Passed
  <2>2. DocumentIsValid(document)
    <3>1. \A i \in DOMAIN document.keys : document.keys[i].public_key \in Texts
      <4>1. \A i \in DOMAIN document.keys : document.keys[i] \in Entries
        BY <1>1
      <4>2. \A e \in Entries : e.public_key \in Texts
        BY DEF Entries
      <4> QED
        BY <4>1, <4>2
    <3>2. \A i \in DOMAIN document.keys : document.keys[i].public_key.pad = 0
      BY <2>1 DEF LoadInv, PassedAreGood, EntryIsWellFormed
    <3>3. \A s, t \in Texts : s.pad = t.pad /\ s.bytes = t.bytes => s = t
      BY DEF Texts
    <3> QED
      BY <2>1, <3>1, <3>2, <3>3 DEF LoadInv, PassedAreGood, DocumentIsValid
  <2>3. out = LoadedKeys(document)
    BY <2>1 DEF LoadInv, TypeOK, LocalsMirrorPassed, LoadedKeys
  <2> QED
    BY <1>3, <2>2, <2>3
<1> QED
  BY <1>2, <1>3

\* load_keys_from_json accepts a document of any length exactly when every
\* entry is well formed and no id and no public key appears twice.
THEOREM AcceptsExactlyValid == Spec => []LoadsExactlyValidDocuments
  BY LoadInvLoads, LoadInvAlways, PTL

\* Whatever document was loaded, a kid selects one key and no public key has
\* two windows.
THEOREM Unambiguous == Spec => []KeysAreUnambiguous
<1>1. LoadsExactlyValidDocuments => KeysAreUnambiguous
  <2> SUFFICES ASSUME LoadsExactlyValidDocuments, verdict = Accepted,
                      NEW i \in DOMAIN out, NEW j \in DOMAIN out, i # j
               PROVE  out[i].key_id # out[j].key_id /\ out[i].bytes # out[j].bytes
    BY DEF KeysAreUnambiguous
  <2>1. DocumentIsValid(document) /\ out = LoadedKeys(document)
    <3>1. verdict # Running
      BY DEF Accepted, Running
    <3> QED
      BY <3>1, Zenon DEF LoadsExactlyValidDocuments
  <2>2. i \in DOMAIN document.keys /\ j \in DOMAIN document.keys
    BY <2>1 DEF LoadedKeys
  <2>3. out[i] = LoadedKey(document.keys[i]) /\ out[j] = LoadedKey(document.keys[j])
    BY <2>1, <2>2 DEF LoadedKeys
  <2> QED
    BY <2>1, <2>2, <2>3 DEF DocumentIsValid, LoadedKey
<1> QED
  BY <1>1, AcceptsExactlyValid, PTL

-----------------------------------------------------------------------------
(* TypeScript's call, and its invariant beside that of Python's loop.      *)

\* A refusal is of the document's shape, or of the entry at hand.
VerdictIsOfTheEntry ==
  verdict \notin {Running, Accepted} =>
    \/ ~document.shape_ok /\ verdict = "document_shape"
    \/ /\ document.shape_ok /\ position \in 1 .. Len(document.keys)
       /\ EntryVerdict # Accepted /\ verdict = EntryVerdict

\* The TypeScript call comes after Python's, and the document is the caller's until
\* the first await.
StagesFollow ==
  /\ build \in {"node", "browser"}
  /\ stage \in {"mapping", "awaiting"}
  /\ turn \in 1 .. Len(document.keys) + 1
  /\ DOMAIN entries = 1 .. Len(document.keys)
  /\ verdict = Running => stage = "mapping" /\ turn = 1 /\ answer = Running
  /\ stage = "mapping" => live = document
  /\ stage = "awaiting" => document.shape_ok /\ turn = Len(document.keys) + 1

\* Until the entry that Python refuses is reached, the shared sets hold what Python's
\* loop had seen when it came to the same entry.
SetsMirrorStarted ==
  turn <= position =>
    /\ ids = {document.keys[i].key_id : i \in 1 .. turn - 1}
    /\ pubs = {document.keys[i].public_key : i \in 1 .. turn - 1}

\* What Python passed is loaded, or will be when its digest is there.
PassedAreLoaded ==
  \A i \in 1 .. turn - 1 :
    i < position =>
      /\ entries[i].key = LoadedKey(document.keys[i])
      /\ \/ entries[i].state = Accepted
         \/ /\ entries[i].state = Pending /\ build = "browser"
            /\ entries[i].printed = entries[i].key.bytes

\* What Python refused is refused for the same reason, or will be when its digest is
\* there; and in Node at once.
RefusedIsRefused ==
  verdict # Accepted /\ position < turn =>
    /\ \/ entries[position].state = verdict
       \/ /\ build = "browser" /\ verdict = "fingerprint_mismatch"
          /\ entries[position].state = Pending
          /\ entries[position].printed # entries[position].key.bytes
    /\ build = "node" => answer # Running

\* Once map has returned, a rejection settles the result.
OpenIsUnrejected == stage = "awaiting" /\ answer = Running => Rejected(entries) = {}

AnswerIsRight ==
  /\ LoadsTheDocumentOfTheCall
  /\ ReasonIsPythons

CallInv ==
  /\ VerdictIsOfTheEntry /\ StagesFollow /\ SetsMirrorStarted
  /\ PassedAreLoaded /\ RefusedIsRefused /\ OpenIsUnrejected /\ AnswerIsRight

-----------------------------------------------------------------------------
\* The fingerprint is the last thing that an entry is checked for, so that all the
\* other checks can run before the digest is awaited.
LEMMA FingerprintIsLast ==
  ASSUME NEW e \in Entries, NEW known, NEW texts
  PROVE  CheckEntry(e, known, texts)
           = CheckEntry(Unprinted(e), known, texts)
             ++ Require(e.fingerprint \in {NoFingerprint, e.public_key.bytes},
                        "fingerprint_mismatch")
<1> DEFINE u == Unprinted(e)
           shape == FirstDefect(EntryOrder, e.defects)
<1>1. /\ u.key_id = e.key_id /\ u.defects = e.defects /\ u.public_key = e.public_key
      /\ u.active_from = e.active_from /\ u.active_until = e.active_until
      /\ u.fingerprint = NoFingerprint
  BY DEF Unprinted, Entries
<1>2. CheckEntryText(e)
        = CheckEntryText(u) ++ Require(e.fingerprint \in {NoFingerprint, e.public_key.bytes},
                                       "fingerprint_mismatch")
  <2> HIDE DEF u
  <2> QED
    BY <1>1 DEF CheckEntryText, DecodesCanonically, ++, Require, Accepted
<1>3. CheckEntry(u, known, texts)
        = shape ++ Require(e.key_id \notin known, "duplicate_key_id")
          ++ Require(e.public_key \notin texts, "duplicate_public_key")
          ++ CheckEntryText(u)
  <2> HIDE DEF u
  <2> QED
    BY <1>1 DEF CheckEntry
<1>4. CheckEntry(e, known, texts)
        = shape ++ Require(e.key_id \notin known, "duplicate_key_id")
          ++ Require(e.public_key \notin texts, "duplicate_public_key")
          ++ CheckEntryText(e)
  BY DEF CheckEntry
<1> HIDE DEF u, shape
<1> QED
  BY <1>2, <1>3, <1>4 DEF ++, Require, Accepted, u

\* Among some indices one is the earliest.
LEMMA EarliestIsLeast ==
  ASSUME NEW s \in SUBSET Nat, s # {}
  PROVE  Earliest(s) \in s /\ \A j \in s : Earliest(s) <= j
  BY LeastNumber DEF Earliest

\* What the verdict is when the loop has ended.
LEMMA VerdictFacts ==
  ASSUME LoadInv, VerdictIsOfTheEntry, verdict # Running
  PROVE  /\ document.keys \in Seq(Entries) /\ Len(document.keys) \in Nat
         /\ position \in 1 .. Len(document.keys) + 1
         /\ verdict # Pending
         /\ (verdict = Accepted) = DocumentIsValid(document)
         /\ verdict = Accepted => /\ document.shape_ok
                                  /\ position = Len(document.keys) + 1
                                  /\ out = LoadedKeys(document)
         /\ verdict # Accepted /\ document.shape_ok => position \in 1 .. Len(document.keys)
<1>1. document.keys \in Seq(Entries)
  BY DocumentsAssumption DEF LoadInv, TypeOK, DocumentType
<1>2. verdict # Pending
  BY DEF LoadInv, TypeOK, Pending, Running, Accepted, EntryRejections, EntryOrder
<1>3. Len(document.keys) \in Nat
  BY <1>1
<1>4. LoadsExactlyValidDocuments
  BY LoadInvLoads
<1> QED
  BY <1>1, <1>2, <1>3, <1>4 DEF LoadInv, TypeOK, VerdictIsRight, VerdictIsOfTheEntry,
                                LoadsExactlyValidDocuments

\* Promise.all over what became of the entries: it is rejected or fulfilled as
\* Python's loop was.
LEMMA SettleIsRight ==
  ASSUME LoadInv, VerdictIsOfTheEntry, verdict # Running, document.shape_ok,
         NEW after, DOMAIN after = 1 .. Len(document.keys),
         \A i \in 1 .. Len(document.keys) :
           i < position => /\ after[i].key = LoadedKey(document.keys[i])
                           /\ after[i].state \in {Accepted, Pending},
         verdict # Accepted =>
           \/ after[position].state = verdict
           \/ /\ build = "browser" /\ verdict = "fingerprint_mismatch"
              /\ after[position].state = Pending,
         Settle(after)
  PROVE  /\ answer' # Running =>
              /\ (answer' = Accepted) = (verdict = Accepted)
              /\ answer' = Accepted => loaded' = out
              /\ answer' = verdict \/ (build = "browser" /\ verdict = "fingerprint_mismatch")
         /\ answer' = Running => Rejected(after) = {}
<1>0. /\ document.keys \in Seq(Entries) /\ Len(document.keys) \in Nat
      /\ position \in 1 .. Len(document.keys) + 1
      /\ verdict # Pending
      /\ verdict = Accepted => /\ position = Len(document.keys) + 1
                               /\ out = LoadedKeys(document)
      /\ verdict # Accepted => position \in 1 .. Len(document.keys)
  BY VerdictFacts
<1>1. Pending # Accepted /\ Running # Accepted
  BY DEF Pending, Accepted, Running
<1>2. CASE Rejected(after) # {}
  <2> DEFINE k == Earliest(Rejected(after))
  <2>1. k \in Rejected(after) /\ \A j \in Rejected(after) : k <= j
    <3>1. Rejected(after) \in SUBSET Nat
      BY <1>0 DEF Rejected
    <3> QED
      BY <1>2, <3>1, EarliestIsLeast
  <2>2. answer' = after[k].state
    BY <1>2 DEF Settle
  <2>3. /\ k \in 1 .. Len(document.keys)
        /\ after[k].state \notin {Accepted, Pending, Running}
        /\ \A j \in 1 .. Len(document.keys) :
             after[j].state \notin {Accepted, Pending, Running} => k <= j
    BY <2>1 DEF Rejected
  <2> HIDE DEF k
  <2>4. verdict # Accepted
    BY <1>0, <2>3
  <2>5. after[position].state = verdict => k = position
    BY <1>0, <2>3, <2>4
  <2> QED
    BY <2>2, <2>3, <2>4, <2>5
<1>3. CASE Rejected(after) = {} /\ \A i \in DOMAIN after : after[i].state = Accepted
  <2>1. answer' = Accepted /\ loaded' = [i \in DOMAIN after |-> after[i].key]
    BY <1>3 DEF Settle
  <2>2. verdict = Accepted
    BY <1>0, <1>1, <1>3
  <2>3. loaded' = out
    BY <1>0, <2>1, <2>2 DEF LoadedKeys
  <2> QED
    BY <1>1, <2>1, <2>2, <2>3
<1>4. CASE Rejected(after) = {} /\ ~ \A i \in DOMAIN after : after[i].state = Accepted
  BY <1>4 DEF Settle
<1> QED
  BY <1>2, <1>3, <1>4

-----------------------------------------------------------------------------
\* Before the TypeScript call has begun there is nothing to say of it.
LEMMA CallInvInit == LoadingInit => CallInv
<1> SUFFICES ASSUME LoadingInit PROVE CallInv
  OBVIOUS
<1>1. /\ verdict = Running /\ answer = Running /\ stage = "mapping" /\ turn = 1
      /\ ids = {} /\ pubs = {} /\ live = document /\ position = 1 /\ build \in {"node", "browser"}
  BY BuildsAssumption DEF LoadingInit, Init
<1>2. document.keys \in Seq(Entries)
  BY DocumentsAssumption DEF LoadingInit, Init, DocumentType
<1>3. DOMAIN entries = 1 .. Len(document.keys)
  BY <1>2, <1>1 DEF LoadingInit
<1>4. VerdictIsOfTheEntry
  BY <1>1 DEF VerdictIsOfTheEntry
<1>5. StagesFollow
  <2>1. Len(document.keys) \in Nat
    BY <1>2
  <2>2. turn \in 1 .. Len(document.keys) + 1
    BY <1>1, <2>1
  <2> QED
    BY <1>1, <1>3, <2>2 DEF StagesFollow
<1>6. SetsMirrorStarted
  <2>1. 1 .. turn - 1 = {}
    BY <1>1
  <2> QED
    BY <1>1, <2>1 DEF SetsMirrorStarted
<1>7. PassedAreLoaded /\ RefusedIsRefused /\ OpenIsUnrejected
  BY <1>1 DEF PassedAreLoaded, RefusedIsRefused, OpenIsUnrejected
<1>8. AnswerIsRight
  BY <1>1 DEF AnswerIsRight, LoadsTheDocumentOfTheCall, ReasonIsPythons
<1> QED
  BY <1>4, <1>5, <1>6, <1>7, <1>8 DEF CallInv

\* Python's loop is its own, whatever TypeScript does.
LEMMA LoadInvLoading == LoadInv /\ [LoadingNext]_loadingVars => LoadInv'
<1> SUFFICES ASSUME LoadInv, [LoadingNext]_loadingVars PROVE LoadInv'
  OBVIOUS
<1>1. [Next]_vars
  BY DEF LoadingNext, Python, TypeScript, RefuseDocument, StartEntry, MapReturns, Digest, Edit,
         loadingVars
<1> QED
  BY <1>1, LoadInvNext

\* While Python's loop runs, the call is not begun; its last step fixes the verdict.
LEMMA PythonKeepsCallInv ==
  ASSUME LoadInv, CallInv, Python
  PROVE  CallInv'
<1>1. verdict = Running
  BY DEF Python, Next, RejectDocument, LoadEntry, RejectEntry, InLoop, Return
<1>2. /\ answer = Running /\ stage = "mapping" /\ turn = 1
      /\ UNCHANGED << build, live, stage, turn, ids, pubs, entries, answer, loaded >>
      /\ document' = document
  BY <1>1 DEF CallInv, StagesFollow, Python, tsVars,
              Next, RejectDocument, LoadEntry, RejectEntry, Return
<1>3. document.keys \in Seq(Entries) /\ Len(document.keys) \in Nat
  BY DocumentsAssumption DEF LoadInv, TypeOK, DocumentType
<1>4. VerdictIsOfTheEntry'
  <2>1. CASE RejectDocument
    BY <2>1 DEF RejectDocument, VerdictIsOfTheEntry
  <2>2. CASE LoadEntry
    BY <1>1, <2>2 DEF LoadEntry, VerdictIsOfTheEntry
  <2>3. CASE RejectEntry
    <3>1. /\ InLoop /\ EntryVerdict # Accepted /\ verdict' = EntryVerdict
          /\ EntryVerdict' = EntryVerdict /\ position' = position
      BY <2>3 DEF RejectEntry, EntryVerdict
    <3>2. position \in 1 .. Len(document.keys)
      BY <3>1, EntryVerdictMeaning
    <3> QED
      BY <1>2, <3>1, <3>2 DEF InLoop, VerdictIsOfTheEntry
  <2>4. CASE Return
    BY <2>4 DEF Return, VerdictIsOfTheEntry
  <2> QED
    BY <2>1, <2>2, <2>3, <2>4 DEF Python, Next
<1>5. StagesFollow'
  BY <1>2 DEF CallInv, StagesFollow
<1>6. SetsMirrorStarted'
  <2>1. ids = {} /\ pubs = {}
    <3>1. 1 .. turn - 1 = {} /\ turn <= position
      BY <1>2, <1>3 DEF LoadInv, TypeOK
    <3> QED
      BY <3>1 DEF CallInv, SetsMirrorStarted
  <2>2. 1 .. turn' - 1 = {}
    BY <1>2
  <2> QED
    BY <1>2, <2>1, <2>2 DEF SetsMirrorStarted
<1>7. PassedAreLoaded'
  BY <1>2 DEF PassedAreLoaded
<1>8. RefusedIsRefused'
  <2>1. position \in Nat /\ position >= 1 /\ position' \in {position, position + 1}
    BY <1>3 DEF LoadInv, TypeOK, Python, Next, RejectDocument, LoadEntry, RejectEntry, Return
  <2> QED
    BY <1>2, <2>1 DEF RefusedIsRefused
<1>9. OpenIsUnrejected' /\ AnswerIsRight'
  BY <1>2 DEF OpenIsUnrejected, AnswerIsRight, LoadsTheDocumentOfTheCall, ReasonIsPythons
<1> QED
  BY <1>4, <1>5, <1>6, <1>7, <1>8, <1>9 DEF CallInv

\* The test before the loop is Python's.
LEMMA RefusalKeepsCallInv ==
  ASSUME LoadInv, CallInv, RefuseDocument
  PROVE  CallInv'
<1>1. /\ stage = "mapping" /\ verdict # Running /\ answer = Running /\ ~ live.shape_ok
      /\ answer' = "document_shape"
      /\ UNCHANGED << vars, build, live, stage, turn, ids, pubs, entries, loaded >>
  BY DEF RefuseDocument, Mapping
<1>2. ~ document.shape_ok
  BY <1>1 DEF CallInv, StagesFollow
<1>3. verdict = "document_shape" /\ (verdict = Accepted) = DocumentIsValid(document)
  BY <1>1, <1>2, VerdictFacts DEF CallInv, VerdictIsOfTheEntry
<1>4. /\ VerdictIsOfTheEntry' /\ SetsMirrorStarted' /\ PassedAreLoaded'
      /\ StagesFollow' /\ OpenIsUnrejected'
  BY <1>1 DEF CallInv, VerdictIsOfTheEntry, SetsMirrorStarted, PassedAreLoaded, StagesFollow,
              OpenIsUnrejected, EntryVerdict, vars, Running
<1>5. RefusedIsRefused'
  BY <1>1 DEF CallInv, RefusedIsRefused, vars, Running
<1>6. AnswerIsRight'
  <2>1. UNCHANGED << document, verdict, build >>
    BY <1>1 DEF vars
  <2>2. verdict # Accepted
    BY <1>3 DEF Accepted
  <2> QED
    BY <1>1, <1>3, <2>1, <2>2 DEF AnswerIsRight, LoadsTheDocumentOfTheCall, ReasonIsPythons
<1> QED
  BY <1>4, <1>5, <1>6 DEF CallInv

\* An entry is started as Python's loop judges it, up to the fingerprint that the
\* browser does not know yet.
LEMMA StartedMeaning ==
  ASSUME LoadInv, CallInv, Mapping, live.shape_ok, turn <= Len(live.keys)
  PROVE  /\ live = document /\ document.shape_ok
         /\ turn \in 1 .. Len(document.keys)
         /\ document.keys[turn] \in Entries
         /\ turn < position =>
              /\ Enters(document.keys[turn])
              /\ UpToAwait(document.keys[turn]) = Accepted
              /\ EntryIsWellFormed(document.keys[turn])
         /\ turn = position =>
              /\ verdict \notin {Running, Accepted}
              /\ \/ UpToAwait(document.keys[turn]) = verdict
                 \/ /\ build = "browser" /\ verdict = "fingerprint_mismatch"
                    /\ UpToAwait(document.keys[turn]) = Accepted
                    /\ document.keys[turn].fingerprint
                         \notin {NoFingerprint, document.keys[turn].public_key.bytes}
<1> DEFINE e == document.keys[turn]
           f == Require(e.fingerprint \in {NoFingerprint, e.public_key.bytes}, "fingerprint_mismatch")
           upto == CheckEntry(Unprinted(e), ids, pubs)
<1>1. live = document /\ verdict # Running
  BY DEF CallInv, StagesFollow, Mapping
<1>2. document.keys \in Seq(Entries) /\ Len(document.keys) \in Nat
  BY DocumentsAssumption DEF LoadInv, TypeOK, DocumentType
<1>3. turn \in 1 .. Len(document.keys) /\ e \in Entries
  BY <1>1, <1>2 DEF CallInv, StagesFollow
<1>4. CheckEntry(e, ids, pubs) = upto ++ f
  <2> HIDE DEF e
  <2> QED
    BY <1>3, FingerprintIsLast
<1>5. build \in {"node", "browser"}
  BY DEF CallInv, StagesFollow
<1>6. UpToAwait(e) = IF build = "node" THEN CheckEntry(e, ids, pubs) ELSE upto
  BY DEF UpToAwait
<1>7. ASSUME turn < position
      PROVE  Enters(e) /\ UpToAwait(e) = Accepted /\ EntryIsWellFormed(e)
  <2>1. turn \in Passed /\ \A i \in 1 .. turn - 1 : i \in Passed /\ i # turn
    BY <1>2, <1>3, <1>7 DEF LoadInv, TypeOK, Passed
  <2>2. e.key_id \notin ids /\ e.public_key \notin pubs
    <3>1. /\ ids = {document.keys[i].key_id : i \in 1 .. turn - 1}
          /\ pubs = {document.keys[i].public_key : i \in 1 .. turn - 1}
      <4>1. turn <= position
        BY <1>2, <1>3, <1>7 DEF LoadInv, TypeOK
      <4> QED
        BY <4>1 DEF CallInv, SetsMirrorStarted
    <3> QED
      BY <2>1, <3>1 DEF LoadInv, PassedAreGood
  <2>3. EntryIsWellFormed(e)
    BY <2>1 DEF LoadInv, PassedAreGood
  <2>4. CheckEntry(e, ids, pubs) = Accepted
    <3> HIDE DEF e
    <3> QED
      BY <1>3, <2>2, <2>3, EntryPasses
  <2>5. FirstDefect(EntryOrder, e.defects) = Accepted
    <3> HIDE DEF e
    <3> QED
      BY <2>4 DEF CheckEntry, ++
  <2>6. upto = Accepted
    <3> HIDE DEF upto, f
    <3> QED
      BY <1>4, <2>4 DEF ++
  <2> QED
    BY <1>6, <2>2, <2>3, <2>4, <2>5, <2>6 DEF Enters
<1>8. ASSUME turn = position
      PROVE  /\ verdict \notin {Running, Accepted}
             /\ \/ UpToAwait(e) = verdict
                \/ /\ build = "browser" /\ verdict = "fingerprint_mismatch"
                   /\ UpToAwait(e) = Accepted
                   /\ e.fingerprint \notin {NoFingerprint, e.public_key.bytes}
  <2>1. verdict \notin {Running, Accepted}
    BY <1>1, <1>2, <1>3, <1>8, VerdictFacts DEF CallInv
  <2>2. verdict = CheckEntry(e, seen_ids, seen_pubs)
    BY <1>1, <1>8, <2>1 DEF CallInv, VerdictIsOfTheEntry, EntryVerdict
  <2>3. ids = seen_ids /\ pubs = seen_pubs
    <3>1. turn <= position
      BY <1>3, <1>8
    <3> QED
      BY <1>8, <3>1 DEF CallInv, SetsMirrorStarted, LoadInv, LocalsMirrorPassed, Passed
  <2>4. verdict = upto ++ f
    BY <1>4, <2>2, <2>3
  <2>5. \/ upto = verdict
        \/ /\ upto = Accepted /\ verdict = "fingerprint_mismatch"
           /\ e.fingerprint \notin {NoFingerprint, e.public_key.bytes}
    <3> HIDE DEF upto, e
    <3> QED
      BY <2>1, <2>4 DEF ++, Require
  <2>6. CheckEntry(e, ids, pubs) = verdict
    BY <2>2, <2>3
  <2> HIDE DEF upto, e
  <2> QED
    BY <1>5, <1>6, <2>1, <2>5, <2>6
<1> QED
  BY <1>1, <1>3, <1>7, <1>8

\* An entry that Python passed is loaded or waits for its own fingerprint; the one it
\* refused is refused, or waits for another's; and those after it run only in the
\* browser.
LEMMA StartKeepsCallInv ==
  ASSUME LoadInv, CallInv, StartEntry
  PROVE  CallInv'
<1> DEFINE e == document.keys[turn]
<1>1. Mapping /\ live.shape_ok /\ turn <= Len(live.keys) /\ stage = "mapping"
  BY DEF StartEntry, Mapping
<1>2. /\ live = document /\ document.shape_ok
      /\ turn \in 1 .. Len(document.keys)
      /\ e \in Entries
  BY <1>1, StartedMeaning
<1>3. /\ document.keys \in Seq(Entries) /\ Len(document.keys) \in Nat
      /\ position \in 1 .. Len(document.keys) + 1
      /\ verdict \notin {Running, Pending}
      /\ (verdict = Accepted) = DocumentIsValid(document)
      /\ verdict = Accepted => position = Len(document.keys) + 1
  BY <1>1, VerdictFacts DEF CallInv, Mapping
<1>4. /\ ids' = IF Enters(e) THEN ids \union {e.key_id} ELSE ids
      /\ pubs' = IF Enters(e) THEN pubs \union {e.public_key} ELSE pubs
      /\ entries' = [entries EXCEPT ![turn] = Started(e)]
      /\ answer' = IF build = "node" /\ UpToAwait(e) # Accepted THEN UpToAwait(e) ELSE answer
      /\ turn' = turn + 1
      /\ UNCHANGED << document, position, out, seen_ids, seen_pubs, verdict >>
      /\ UNCHANGED << build, live, stage, loaded >>
  BY <1>2 DEF StartEntry, vars
<1>5. /\ DOMAIN entries = 1 .. Len(document.keys) /\ answer = Running
      /\ build \in {"node", "browser"}
  BY <1>1 DEF CallInv, StagesFollow, Mapping
<1>6. /\ DOMAIN entries' = DOMAIN entries
      /\ entries'[turn] = Started(e)
      /\ \A i \in 1 .. turn - 1 : entries'[i] = entries[i]
  BY <1>2, <1>4, <1>5
<1>7. /\ turn < position => /\ Enters(e) /\ UpToAwait(e) = Accepted
                            /\ EntryIsWellFormed(e)
      /\ turn = position => /\ verdict \notin {Running, Accepted}
                            /\ \/ UpToAwait(e) = verdict
                               \/ /\ build = "browser" /\ verdict = "fingerprint_mismatch"
                                  /\ UpToAwait(e) = Accepted
                                  /\ e.fingerprint \notin {NoFingerprint, e.public_key.bytes}
  BY <1>1, StartedMeaning
<1>8. position < turn => build = "browser"
  <2>1. position < turn => verdict # Accepted
    BY <1>2, <1>3
  <2> QED
    BY <1>5, <2>1 DEF CallInv, RefusedIsRefused
<1>9. LoadedKey(e).bytes = e.public_key.bytes
  BY DEF LoadedKey
<1> HIDE DEF e
<1>10. VerdictIsOfTheEntry'
  BY <1>4 DEF CallInv, VerdictIsOfTheEntry, EntryVerdict
<1>11. StagesFollow'
  <2>1. turn' \in 1 .. Len(document'.keys) + 1
    BY <1>2, <1>3, <1>4
  <2>2. DOMAIN entries' = 1 .. Len(document'.keys)
    BY <1>4, <1>5, <1>6
  <2> QED
    BY <1>1, <1>3, <1>4, <2>1, <2>2 DEF CallInv, StagesFollow
<1>12. SetsMirrorStarted'
  <2> SUFFICES ASSUME turn' <= position'
               PROVE  /\ ids' = {document'.keys[i].key_id : i \in 1 .. turn' - 1}
                      /\ pubs' = {document'.keys[i].public_key : i \in 1 .. turn' - 1}
    BY DEF SetsMirrorStarted
  <2>1. turn < position /\ turn <= position
    BY <1>2, <1>3, <1>4
  <2>2. 1 .. turn' - 1 = (1 .. turn - 1) \union {turn}
    BY <1>2, <1>3, <1>4
  <2>3. ids' = ids \union {e.key_id} /\ pubs' = pubs \union {e.public_key}
    BY <1>4, <1>7, <2>1
  <2>4. /\ ids = {document.keys[i].key_id : i \in 1 .. turn - 1}
        /\ pubs = {document.keys[i].public_key : i \in 1 .. turn - 1}
    BY <2>1 DEF CallInv, SetsMirrorStarted
  <2> QED
    BY <1>4, <2>2, <2>3, <2>4 DEF e
<1>13. PassedAreLoaded'
  <2> SUFFICES ASSUME NEW i \in 1 .. turn' - 1, i < position'
               PROVE  /\ entries'[i].key = LoadedKey(document'.keys[i])
                      /\ \/ entries'[i].state = Accepted
                         \/ /\ entries'[i].state = Pending /\ build' = "browser"
                            /\ entries'[i].printed = entries'[i].key.bytes
    BY DEF PassedAreLoaded
  <2>1. CASE i = turn
    <3>1. turn < position
      BY <1>4, <2>1
    <3>2. /\ Started(e).key = LoadedKey(e)
          /\ \/ Started(e).state = Accepted
             \/ /\ Started(e).state = Pending /\ build = "browser"
                /\ e.fingerprint # NoFingerprint
          /\ Started(e).printed = e.fingerprint
      BY <1>7, <3>1 DEF Started
    <3>3. e.fingerprint \in {NoFingerprint, e.public_key.bytes}
      BY <1>7, <3>1 DEF EntryIsWellFormed
    <3> QED
      BY <1>4, <1>6, <1>9, <2>1, <3>2, <3>3 DEF e
  <2>2. CASE i # turn
    <3>1. i \in 1 .. turn - 1 /\ i < position
      BY <1>2, <1>4, <2>2
    <3>2. entries'[i] = entries[i]
      BY <1>6, <3>1
    <3> QED
      BY <1>4, <3>1, <3>2 DEF CallInv, PassedAreLoaded
  <2> QED
    BY <2>1, <2>2
<1>14. RefusedIsRefused'
  <2> SUFFICES ASSUME verdict # Accepted, position < turn + 1
               PROVE  /\ \/ entries'[position].state = verdict
                         \/ /\ build = "browser" /\ verdict = "fingerprint_mismatch"
                            /\ entries'[position].state = Pending
                            /\ entries'[position].printed # entries'[position].key.bytes
                      /\ build = "node" => answer' # Running
    BY <1>4 DEF RefusedIsRefused
  <2>1. CASE turn = position
    <3>1. CASE UpToAwait(e) = verdict
      <4>1. Started(e).state = verdict
        BY <1>7, <2>1, <3>1 DEF Started
      <4>2. build = "node" => answer' = verdict
        BY <1>4, <1>7, <2>1, <3>1
      <4> QED
        BY <1>3, <1>6, <2>1, <4>1, <4>2
    <3>2. CASE /\ build = "browser" /\ verdict = "fingerprint_mismatch"
               /\ UpToAwait(e) = Accepted
               /\ e.fingerprint \notin {NoFingerprint, e.public_key.bytes}
      <4>1. /\ Started(e).state = Pending /\ Started(e).printed = e.fingerprint
            /\ Started(e).key = LoadedKey(e)
        BY <3>2 DEF Started
      <4> QED
        BY <1>6, <1>9, <2>1, <3>2, <4>1
    <3> QED
      BY <1>7, <2>1, <3>1, <3>2
  <2>2. CASE turn # position
    <3>1. position \in 1 .. turn - 1 /\ position < turn
      BY <1>2, <1>3, <2>2
    <3>2. entries'[position] = entries[position]
      BY <1>6, <3>1
    <3> QED
      BY <1>8, <3>1, <3>2 DEF CallInv, RefusedIsRefused
  <2> QED
    BY <2>1, <2>2
<1>15. OpenIsUnrejected'
  BY <1>1, <1>4 DEF OpenIsUnrejected
<1>16. AnswerIsRight'
  <2>1. answer' = Running \/ (answer' = verdict /\ verdict # Accepted)
    <3>1. CASE turn < position
      BY <1>4, <1>5, <1>7, <3>1
    <3>2. CASE turn = position
      BY <1>4, <1>5, <1>7, <3>2
    <3>3. CASE position < turn
      BY <1>4, <1>5, <1>8, <3>3
    <3> QED
      BY <1>2, <1>3, <3>1, <3>2, <3>3
  <2> QED
    BY <1>3, <1>4, <2>1 DEF AnswerIsRight, LoadsTheDocumentOfTheCall, ReasonIsPythons
<1> QED
  BY <1>10, <1>11, <1>12, <1>13, <1>14, <1>15, <1>16 DEF CallInv

\* What every entry amounts to when all are started.
LEMMA AllStarted ==
  ASSUME LoadInv, CallInv, verdict # Running, document.shape_ok,
         turn = Len(document.keys) + 1
  PROVE  /\ \A i \in 1 .. Len(document.keys) :
              i < position => /\ entries[i].key = LoadedKey(document.keys[i])
                              /\ entries[i].state \in {Accepted, Pending}
         /\ verdict # Accepted =>
              /\ position \in 1 .. Len(document.keys) /\ position < turn
              /\ \/ entries[position].state = verdict
                 \/ /\ build = "browser" /\ verdict = "fingerprint_mismatch"
                    /\ entries[position].state = Pending
<1>1. /\ Len(document.keys) \in Nat
      /\ verdict # Accepted => position \in 1 .. Len(document.keys)
  BY VerdictFacts DEF CallInv
<1>2. 1 .. turn - 1 = 1 .. Len(document.keys)
  BY <1>1
<1>3. verdict # Accepted => position < turn
  BY <1>1
<1>4. \A i \in 1 .. Len(document.keys) :
        i < position => /\ entries[i].key = LoadedKey(document.keys[i])
                        /\ entries[i].state \in {Accepted, Pending}
  BY <1>2 DEF CallInv, PassedAreLoaded
<1> QED
  BY <1>1, <1>3, <1>4 DEF CallInv, RefusedIsRefused

\* An answer that agrees with the verdict is right.
LEMMA AgreementIsRight ==
  ASSUME LoadInv, CallInv, verdict # Running, UNCHANGED << vars, build >>,
         answer' # Running =>
           /\ (answer' = Accepted) = (verdict = Accepted)
           /\ answer' = Accepted => loaded' = out
           /\ answer' = verdict \/ (build = "browser" /\ verdict = "fingerprint_mismatch")
  PROVE  AnswerIsRight'
<1>1. (verdict = Accepted) = DocumentIsValid(document)
  BY VerdictFacts DEF CallInv
<1>2. UNCHANGED << document, out, verdict, build >>
  BY DEF vars
<1> QED
  BY <1>1, <1>2 DEF AnswerIsRight, LoadsTheDocumentOfTheCall, ReasonIsPythons

\* When map returns, Promise.all has Python's answer, unless a digest is awaited.
LEMMA MapKeepsCallInv ==
  ASSUME LoadInv, CallInv, MapReturns
  PROVE  CallInv'
<1>1. /\ stage = "mapping" /\ verdict # Running /\ live = document /\ document.shape_ok
      /\ turn > Len(document.keys) /\ turn \in 1 .. Len(document.keys) + 1
      /\ DOMAIN entries = 1 .. Len(document.keys)
      /\ stage' = "awaiting" /\ Settle(entries)
      /\ UNCHANGED << vars, build, live, turn, ids, pubs, entries >>
  BY DEF CallInv, StagesFollow, MapReturns, Mapping
<1>2. Len(document.keys) \in Nat /\ position \in 1 .. Len(document.keys) + 1
      /\ turn = Len(document.keys) + 1
  BY <1>1, VerdictFacts DEF CallInv
<1>3. /\ answer' # Running =>
           /\ (answer' = Accepted) = (verdict = Accepted)
           /\ answer' = Accepted => loaded' = out
           /\ answer' = verdict \/ (build = "browser" /\ verdict = "fingerprint_mismatch")
      /\ answer' = Running => Rejected(entries) = {}
  BY <1>1, <1>2, AllStarted, SettleIsRight DEF CallInv
<1>4. VerdictIsOfTheEntry' /\ SetsMirrorStarted' /\ PassedAreLoaded'
  BY <1>1 DEF CallInv, VerdictIsOfTheEntry, SetsMirrorStarted, PassedAreLoaded, EntryVerdict, vars
<1>5. StagesFollow'
  BY <1>1, <1>2 DEF CallInv, StagesFollow, vars
<1>6. RefusedIsRefused'
  <2>1. build = "node" => verdict = Accepted
    <3>1. verdict # Accepted => position < turn
      BY <1>1, <1>2, AllStarted
    <3>2. answer = Running
      BY DEF MapReturns, Mapping
    <3> QED
      BY <3>1, <3>2 DEF CallInv, RefusedIsRefused
  <2> QED
    BY <1>1, <2>1 DEF CallInv, RefusedIsRefused, vars
<1>7. OpenIsUnrejected'
  <2>1. entries' = entries /\ Rejected(entries)' = Rejected(entries)
    BY <1>1 DEF Rejected
  <2> QED
    BY <1>3, <2>1 DEF OpenIsUnrejected
<1>8. AnswerIsRight'
  BY <1>1, <1>3, AgreementIsRight
<1> QED
  BY <1>4, <1>5, <1>6, <1>7, <1>8 DEF CallInv

\* A digest says of its entry what Python said, and settles the call if that was the
\* last thing it waited for.
LEMMA DigestKeepsCallInv ==
  ASSUME LoadInv, CallInv, NEW k \in DOMAIN entries, Digest(k)
  PROVE  CallInv'
<1>1. /\ stage = "awaiting" /\ entries[k].state = Pending
      /\ entries' = [entries EXCEPT ![k].state =
                       IF entries[k].printed = entries[k].key.bytes
                       THEN Accepted ELSE "fingerprint_mismatch"]
      /\ UNCHANGED << vars, build, live, stage, turn, ids, pubs >>
  BY DEF Digest, Awaited
<1>2. /\ verdict # Running /\ document.shape_ok /\ turn = Len(document.keys) + 1
      /\ DOMAIN entries = 1 .. Len(document.keys)
  BY <1>1 DEF CallInv, StagesFollow
<1>3. /\ Len(document.keys) \in Nat /\ position \in 1 .. Len(document.keys) + 1
      /\ verdict # Pending
  BY <1>2, VerdictFacts DEF CallInv
<1>4. /\ DOMAIN entries' = 1 .. Len(document.keys)
      /\ entries'[k].key = entries[k].key /\ entries'[k].printed = entries[k].printed
      /\ entries[k].printed = entries[k].key.bytes => entries'[k].state = Accepted
      /\ entries[k].printed # entries[k].key.bytes => entries'[k].state = "fingerprint_mismatch"
      /\ \A i \in DOMAIN entries : i # k => entries'[i] = entries[i]
  BY <1>1, <1>2
<1>5. VerdictIsOfTheEntry' /\ SetsMirrorStarted'
  BY <1>1 DEF CallInv, VerdictIsOfTheEntry, SetsMirrorStarted, EntryVerdict, vars
<1>6. StagesFollow'
  BY <1>1, <1>2, <1>4 DEF CallInv, StagesFollow, vars
<1>7. PassedAreLoaded'
  <2> SUFFICES ASSUME NEW i \in 1 .. turn - 1, i < position
               PROVE  /\ entries'[i].key = LoadedKey(document.keys[i])
                      /\ \/ entries'[i].state = Accepted
                         \/ /\ entries'[i].state = Pending /\ build = "browser"
                            /\ entries'[i].printed = entries'[i].key.bytes
    BY <1>1 DEF PassedAreLoaded, vars
  <2>1. /\ entries[i].key = LoadedKey(document.keys[i])
        /\ \/ entries[i].state = Accepted
           \/ /\ entries[i].state = Pending /\ build = "browser"
              /\ entries[i].printed = entries[i].key.bytes
    BY DEF CallInv, PassedAreLoaded
  <2>2. i \in DOMAIN entries
    BY <1>2, <1>3
  <2>3. Pending # Accepted
    BY DEF Pending, Accepted
  <2> QED
    BY <1>1, <1>4, <2>1, <2>2, <2>3
<1>8. RefusedIsRefused'
  <2> SUFFICES ASSUME verdict # Accepted, position < turn
               PROVE  /\ \/ entries'[position].state = verdict
                         \/ /\ build = "browser" /\ verdict = "fingerprint_mismatch"
                            /\ entries'[position].state = Pending
                            /\ entries'[position].printed # entries'[position].key.bytes
                      /\ build = "node" => answer' # Running
    BY <1>1 DEF RefusedIsRefused, vars
  <2>1. /\ \/ entries[position].state = verdict
           \/ /\ build = "browser" /\ verdict = "fingerprint_mismatch"
              /\ entries[position].state = Pending
              /\ entries[position].printed # entries[position].key.bytes
        /\ build = "node" => answer # Running
    BY DEF CallInv, RefusedIsRefused
  <2>2. answer # Running => answer' # Running
    BY DEF Digest
  <2>3. position \in DOMAIN entries
    BY <1>2, <1>3
  <2> QED
    BY <1>1, <1>3, <1>4, <2>1, <2>2, <2>3
<1>9. ASSUME answer = Running
      PROVE  /\ answer' # Running =>
                  /\ (answer' = Accepted) = (verdict = Accepted)
                  /\ answer' = Accepted => loaded' = out
                  /\ answer' = verdict \/ (build = "browser" /\ verdict = "fingerprint_mismatch")
             /\ answer' = Running => Rejected(entries') = {}
  <2>1. Settle(entries')
    BY <1>9 DEF Digest
  <2>2. \A i \in 1 .. Len(document.keys) :
          i < position => /\ entries'[i].key = LoadedKey(document.keys[i])
                          /\ entries'[i].state \in {Accepted, Pending}
    <3>1. 1 .. turn' - 1 = 1 .. Len(document.keys) /\ position' = position /\ document' = document
      BY <1>1, <1>2, <1>3 DEF vars
    <3> QED
      BY <1>7, <3>1 DEF PassedAreLoaded
  <2>3. verdict # Accepted =>
          \/ entries'[position].state = verdict
          \/ /\ build = "browser" /\ verdict = "fingerprint_mismatch"
             /\ entries'[position].state = Pending
    <3>1. verdict # Accepted => position < turn
      BY <1>2, AllStarted
    <3>2. UNCHANGED << position, turn, verdict, build >>
      BY <1>1 DEF vars
    <3> QED
      BY <1>8, <3>1, <3>2 DEF RefusedIsRefused
  <2> QED
    BY <1>2, <1>4, <2>1, <2>2, <2>3, SettleIsRight DEF CallInv
<1>10. OpenIsUnrejected'
  <2>1. answer # Running => answer' # Running
    BY DEF Digest
  <2>2. Rejected(entries)' = Rejected(entries')
    BY DEF Rejected
  <2> QED
    BY <1>9, <2>1, <2>2 DEF OpenIsUnrejected
<1>11. AnswerIsRight'
  <2>1. CASE answer = Running
    BY <1>1, <1>2, <1>9, <2>1, AgreementIsRight
  <2>2. CASE answer # Running
    <3>1. UNCHANGED << answer, loaded, document, out, verdict, build >>
      BY <1>1, <2>2 DEF Digest, vars
    <3> QED
      BY <3>1 DEF CallInv, AnswerIsRight, LoadsTheDocumentOfTheCall, ReasonIsPythons
  <2> QED
    BY <2>1, <2>2
<1> QED
  BY <1>5, <1>6, <1>7, <1>8, <1>10, <1>11 DEF CallInv

\* Once a digest is awaited nothing reads the caller's document.
LEMMA EditKeepsCallInv ==
  ASSUME LoadInv, CallInv, Edit
  PROVE  CallInv'
<1>1. /\ stage = "awaiting"
      /\ UNCHANGED << vars, build, stage, turn, ids, pubs, entries, answer, loaded >>
  BY DEF Edit, Awaited
<1>2. VerdictIsOfTheEntry' /\ SetsMirrorStarted' /\ PassedAreLoaded' /\ RefusedIsRefused'
  BY <1>1 DEF CallInv, VerdictIsOfTheEntry, SetsMirrorStarted, PassedAreLoaded,
              RefusedIsRefused, EntryVerdict, vars
<1>3. StagesFollow'
  BY <1>1 DEF CallInv, StagesFollow, vars
<1>4. OpenIsUnrejected'
  BY <1>1 DEF CallInv, OpenIsUnrejected, Rejected
<1>5. AnswerIsRight'
  BY <1>1 DEF CallInv, AnswerIsRight, LoadsTheDocumentOfTheCall, ReasonIsPythons, vars
<1> QED
  BY <1>2, <1>3, <1>4, <1>5 DEF CallInv

\* Both invariants hold throughout a call.
LEMMA CallInvAlways == LoadingSpec => [](LoadInv /\ CallInv)
<1>1. LoadingInit => LoadInv /\ CallInv
  <2>1. LoadingInit => Init
    BY DEF LoadingInit
  <2> QED
    BY <2>1, LoadInvInit, CallInvInit
<1>2. LoadInv /\ CallInv /\ [LoadingNext]_loadingVars => (LoadInv /\ CallInv)'
  <2> SUFFICES ASSUME LoadInv, CallInv, [LoadingNext]_loadingVars PROVE LoadInv' /\ CallInv'
    OBVIOUS
  <2>1. LoadInv'
    BY LoadInvLoading
  <2>2. CASE UNCHANGED loadingVars
    <3>1. UNCHANGED << vars, build, live, stage, turn, ids, pubs, entries, answer, loaded >>
      BY <2>2 DEF loadingVars, tsVars
    <3>2. VerdictIsOfTheEntry' /\ SetsMirrorStarted' /\ PassedAreLoaded' /\ RefusedIsRefused'
      BY <3>1 DEF CallInv, VerdictIsOfTheEntry, SetsMirrorStarted, PassedAreLoaded,
                  RefusedIsRefused, EntryVerdict, vars
    <3>3. StagesFollow'
      BY <3>1 DEF CallInv, StagesFollow, vars
    <3>4. OpenIsUnrejected'
      BY <3>1 DEF CallInv, OpenIsUnrejected, Rejected
    <3>5. AnswerIsRight'
      BY <3>1 DEF CallInv, AnswerIsRight, LoadsTheDocumentOfTheCall, ReasonIsPythons, vars
    <3> QED
      BY <2>1, <3>2, <3>3, <3>4, <3>5 DEF CallInv
  <2> QED
    BY <2>1, <2>2, PythonKeepsCallInv, RefusalKeepsCallInv, StartKeepsCallInv, MapKeepsCallInv,
       DigestKeepsCallInv, EditKeepsCallInv DEF LoadingNext, TypeScript
<1> QED
  BY <1>1, <1>2, PTL DEF LoadingSpec

\* Node and the browser load exactly the documents that Python loads, with its keys,
\* for documents of every length, every order of the digests and every edit.
THEOREM SameDocumentsLoaded == LoadingSpec => []LoadsTheDocumentOfTheCall
<1>1. CallInv => LoadsTheDocumentOfTheCall
  BY DEF CallInv, AnswerIsRight
<1> QED
  BY <1>1, CallInvAlways, PTL

\* And a refusal has Python's reason, but for a fingerprint in the browser.
THEOREM SameReasonGiven == LoadingSpec => []ReasonIsPythons
<1>1. CallInv => ReasonIsPythons
  BY DEF CallInv, AnswerIsRight
<1> QED
  BY <1>1, CallInvAlways, PTL
=============================================================================
