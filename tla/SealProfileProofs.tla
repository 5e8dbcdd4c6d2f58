------------------------- MODULE SealProfileProofs -------------------------
(***************************************************************************)
(* The verdict of a SEAL, for every set of receipts and records and every  *)
(* number of changes that the caller makes during the await.               *)
(***************************************************************************)
EXTENDS SealProfile, Sequences, FiniteSetTheorems, WellFoundedInduction, TLAPS

\* The readers of a text look for the same faults.
LEMMA SameDigests ==
  ASSUME NEW record
  PROVE  Verification!PyRecordDigest(record) = Verification!TsRecordDigest(record)
<1>1. Verification!PyTextFaults = Verification!TsTextFaults
  BY DEF Verification!PyTextFaults, Verification!TsTextFaults, Verification!TextFaults
<1> QED BY <1>1 DEF Verification!PyRecordDigest, Verification!TsRecordDigest

\* The answer for a verified receipt is a match exactly when all the checks hold.
LEMMA MatchIsAllChecks ==
  ASSUME NEW receipt, NEW digest
  PROVE  LET answer == Verification!Compare(receipt, digest)
         IN /\ answer.signature = TRUE
            /\ answer.matches <=> answer.reason = "none"
            /\ answer.matches <=>
                 /\ receipt.action = "record.seal" /\ receipt.decision = "allow"
                 /\ receipt.agent_id = "allowly.seal" /\ receipt.user_id = "allowly:seal"
                 /\ receipt.profile = "allowly.seal.jcs-sha256.v1"
                 /\ receipt.record_sha256 # Verification!Malformed
                 /\ digest # Verification!Unacceptable
                 /\ digest = receipt.record_sha256
BY DEF Verification!Compare, Verification!Answer

-----------------------------------------------------------------------------
\* What is known of a call: the objects of the call, the receipt that was copied, and
\* a result for one of the records held since.
CallInv ==
  /\ given \in Verification!Inputs
  /\ held \subseteq Records
  /\ called = {} => own = {} /\ result = {}
  /\ called # {} =>
       \E o \in Verification!Inputs :
         /\ called = {o} /\ given.workspace = o.workspace
         /\ own # {} => own = {o.receipt} /\ o.workspace
         /\ given.record \in held
         /\ \A r \in result : \E record \in held :
              r = Verification!VerifySeal([o EXCEPT !.record = record])

LEMMA CallInit == Init => CallInv
BY DEF Init, CallInv, Verification!Init

\* The verdict for another record.
LEMMA VerdictForRecord ==
  ASSUME NEW o \in Verification!Inputs, NEW record
  PROVE  Verification!VerifySeal([o EXCEPT !.record = record]) =
           IF o.workspace /\ o.receipt.verifies
           THEN Verification!Compare(o.receipt, Verification!TsRecordDigest(record))
           ELSE Verification!NotVerified
BY SameDigests DEF Verification!VerifySeal, Verification!Inputs

LEMMA CallStep ==
  ASSUME CallInv, [Next]_vars
  PROVE  CallInv'
<1>1. CASE Verification!CallPython
  <2>1. /\ called = {} /\ called' = {given} /\ held' = {given.record} /\ given' = given
        /\ own = {} /\ own' = own /\ result' = {Verification!VerifySeal(given)}
    BY <1>1 DEF Verification!CallPython, Verification!Called, CallInv
  <2>2. /\ given \in Verification!Inputs /\ given.record \in Records
        /\ [given EXCEPT !.record = given.record] = given
    BY DEF CallInv, Verification!Inputs
  <2> QED BY <2>1, <2>2 DEF CallInv
<1>2. CASE Verification!CallTypeScript
  <2>1. /\ called = {} /\ called' = {given} /\ held' = {given.record} /\ given' = given
        /\ own = {} /\ result = {}
        /\ IF given.workspace THEN own' = {given.receipt} /\ result' = result
           ELSE result' = {Verification!NotVerified} /\ own' = own
    BY <1>2 DEF Verification!CallTypeScript, Verification!Called, CallInv
  <2>2. given \in Verification!Inputs /\ given.record \in Records
    BY DEF CallInv, Verification!Inputs
  <2>3. given.workspace = FALSE =>
          Verification!NotVerified = Verification!VerifySeal([given EXCEPT !.record = given.record])
    BY <2>2, VerdictForRecord
  <2>4. given.workspace \in BOOLEAN
    BY <2>2 DEF Verification!Inputs
  <2> QED BY <2>1, <2>2, <2>3, <2>4 DEF CallInv
<1>3. CASE Verification!ReceiptReady
  <2>1. own # {} /\ UNCHANGED << given, called, held, own >>
    BY <1>3 DEF Verification!ReceiptReady
  <2>2. PICK o \in Verification!Inputs :
          /\ called = {o} /\ given.workspace = o.workspace
          /\ own = {o.receipt} /\ o.workspace /\ given.record \in held
    BY <2>1 DEF CallInv
  <2>3. Verification!ReceiptAfterAwait = o.receipt
    BY <2>2 DEF Verification!ReceiptAfterAwait
  <2>4. result' = {Verification!VerifySeal([o EXCEPT !.record = given.record])}
    BY <1>3, <2>2, <2>3, VerdictForRecord DEF Verification!ReceiptReady
  <2> QED BY <2>1, <2>2, <2>4 DEF CallInv
<1>4. CASE Verification!Edit
  <2>1. PICK receipt \in Receipts, record \in Records :
          /\ given' = [given EXCEPT !.receipt = receipt, !.record = record]
          /\ held' = held \cup {record}
          /\ result = {} /\ own # {} /\ UNCHANGED << called, own, result >>
    BY <1>4 DEF Verification!Edit
  <2>2. given' \in Verification!Inputs /\ given'.record = record /\ given'.workspace = given.workspace
    BY <2>1 DEF CallInv, Verification!Inputs
  <2> QED BY <2>1, <2>2 DEF CallInv
<1>5. CASE UNCHANGED sealVars
  BY <1>5 DEF CallInv, sealVars
<1> QED BY <1>1, <1>2, <1>3, <1>4, <1>5 DEF Next, Verify, Scan, Parse, Verification!Next, vars

LEMMA CallInvariance == Spec => []CallInv
BY CallInit, CallStep, PTL DEF Spec

\* verifySeal returns what _verify_seal returns for the receipt of the call and one
\* record that the caller has held meanwhile, however often it changes both.
THEOREM SealVerdictIsOfOneInstant == Spec => []VerdictIsOfOneInstant
<1>1. CallInv => VerdictIsOfOneInstant
  BY DEF CallInv, VerdictIsOfOneInstant, Verification!VerdictIsOfOneInstant
<1> QED BY <1>1, CallInvariance, PTL

-----------------------------------------------------------------------------
\* A digest is the record, unless the record has one of the faults.
LEMMA DigestOfSound ==
  ASSUME NEW record \in Records
  PROVE  /\ Verification!TsRecordDigest(record) \in {record.value, Verification!Unacceptable}
         /\ Verification!TsRecordDigest(record) = record.value <=>
              /\ record.kind # "value" => record.faults \cap Verification!TextFaults = {}
              /\ record.faults \cap Verification!TreeFaults = {}
<1>1. Verification!TsTextFaults = Verification!TextFaults
  BY DEF Verification!TsTextFaults, Verification!TextFaults
<1>2. record.value # Verification!Unacceptable
  BY ReceiptsAssumption DEF Verification!Unacceptable
<1> QED BY <1>1, <1>2 DEF Verification!TsRecordDigest, Verification!Digest

\* The checks in their order say what the format says without one.
LEMMA VerdictFollowsTheFormat ==
  ASSUME NEW o \in Verification!Inputs, NEW record \in Records
  PROVE  LET r == Verification!VerifySeal([o EXCEPT !.record = record])
         IN /\ r.signature <=> o.workspace /\ o.receipt.verifies
            /\ r.matches <=> r.reason = "none"
            /\ r.matches <=> o.workspace /\ Verification!IsSealOf(o.receipt, record)
<1>1. o.workspace \in BOOLEAN /\ o.receipt.verifies \in BOOLEAN
  BY ReceiptsAssumption DEF Verification!Inputs
<1>2. CASE ~(o.workspace /\ o.receipt.verifies)
  <2>1. Verification!VerifySeal([o EXCEPT !.record = record]) = Verification!NotVerified
    BY <1>2, VerdictForRecord
  <2> QED BY <1>1, <1>2, <2>1 DEF Verification!NotVerified, Verification!Answer, Verification!IsSealOf
<1>3. CASE o.workspace /\ o.receipt.verifies
  <2> PICK digest : digest = Verification!TsRecordDigest(record)
    OBVIOUS
  <2>1. Verification!VerifySeal([o EXCEPT !.record = record]) = Verification!Compare(o.receipt, digest)
    BY <1>3, VerdictForRecord
  <2>2. record.value # Verification!Unacceptable /\ record.value # Verification!Malformed
    BY ReceiptsAssumption DEF Verification!Unacceptable, Verification!Malformed
  <2>3. Verification!IsSealOf(o.receipt, record) <=>
          /\ o.receipt.action = "record.seal" /\ o.receipt.decision = "allow"
          /\ o.receipt.agent_id = "allowly.seal" /\ o.receipt.user_id = "allowly:seal"
          /\ o.receipt.profile = "allowly.seal.jcs-sha256.v1"
          /\ digest = record.value /\ record.value = o.receipt.record_sha256
    BY <1>3, DigestOfSound DEF Verification!IsSealOf
  <2>4. PICK answer : answer = Verification!Compare(o.receipt, digest)
    OBVIOUS
  <2>5. /\ answer.signature = TRUE
        /\ answer.matches <=> answer.reason = "none"
        /\ answer.matches <=>
             /\ o.receipt.action = "record.seal" /\ o.receipt.decision = "allow"
             /\ o.receipt.agent_id = "allowly.seal" /\ o.receipt.user_id = "allowly:seal"
             /\ o.receipt.profile = "allowly.seal.jcs-sha256.v1"
             /\ o.receipt.record_sha256 # Verification!Malformed
             /\ digest # Verification!Unacceptable
             /\ digest = o.receipt.record_sha256
    BY <2>4, MatchIsAllChecks, ZenonT(30)
  <2>6. digest = record.value \/ digest = Verification!Unacceptable
    BY DigestOfSound
  <2>7. answer.matches <=> Verification!IsSealOf(o.receipt, record)
    BY <2>2, <2>3, <2>5, <2>6
  <2> QED BY <1>3, <2>1, <2>4, <2>5, <2>7
<1> QED BY <1>2, <1>3

\* The result keeps the signature apart from the match, a match was a SEAL of a record
\* held during the call, and a SEAL of all of them matches (Appendix B of the format).
THEOREM SealFollowsTheFormat == Spec => []ResultFollowsTheFormat
<1>1. CallInv => ResultFollowsTheFormat
  <2> SUFFICES ASSUME CallInv, NEW r \in result, NEW o \in called
               PROVE  /\ r.signature <=> o.workspace /\ o.receipt.verifies
                      /\ r.matches <=> r.reason = "none"
                      /\ r.matches => \E record \in held :
                                        o.workspace /\ Verification!IsSealOf(o.receipt, record)
                      /\ (\A record \in held : o.workspace /\ Verification!IsSealOf(o.receipt, record))
                           => r.matches
    BY DEF ResultFollowsTheFormat, Verification!ResultFollowsTheFormat
  <2>1. o \in Verification!Inputs
    BY DEF CallInv
  <2>2. PICK record \in held : r = Verification!VerifySeal([o EXCEPT !.record = record])
    BY DEF CallInv
  <2>3. record \in Records
    BY DEF CallInv
  <2> QED BY <2>1, <2>2, <2>3, VerdictFollowsTheFormat
<1> QED BY <1>1, CallInvariance, PTL

-----------------------------------------------------------------------------
(* The readers of a text.                                                  *)

\* The characters of strings, and the strings.
Chars == Scanner!Letters \cup Scanner!Escapes
Words == Seq(Chars)

InWord   == expect \in {"string", "nameString", "stringEscape", "nameEscape"}
InEscape == expect \in {"stringEscape", "nameEscape"}
InNames  == expect \in {"name", "firstName", "colon", "nameString", "nameEscape"}
Top      == open[Len(open)]

IsObject(containers, i) == containers[i].kind = "object"

\* How many objects there are among the first containers.
Level(containers, n) == Cardinality(Scanner!Objects(containers, n))

RawType  == [depth : Int, inString : BOOLEAN, escaped : BOOLEAN]
ScanType == [keys : Seq(SUBSET Words), inString : BOOLEAN, escaped : BOOLEAN,
             token : Words, whole : SUBSET Words]

ScanTypes ==
  /\ open \in Seq([kind : {"array", "object"}, names : Seq(Words)])
  /\ expect \in {"value", "first", "name", "firstName", "colon", "separator", "string",
                 "nameString", "stringEscape", "nameEscape", "end", "refused"}
  /\ text \in Words
  /\ raw \in RawType
  /\ scan \in ScanType
  /\ tooDeep \subseteq {"raw", "tree", "browser"}
  /\ repeated \subseteq Scanner!Readers

\* The parser's own state.
Grammar ==
  /\ expect = "first" => open # << >> /\ ~IsObject(open, Len(open))
  /\ InNames => open # << >> /\ IsObject(open, Len(open))
  /\ expect = "separator" => open # << >>
  /\ expect = "end" => open = << >>
  /\ \A i \in DOMAIN open : ~IsObject(open, i) => open[i].names = << >>

\* The bounds of the search.
Bounds ==
  /\ \A i \in DOMAIN open : Len(open[i].names) <= MaxNames
  /\ expect = "firstName" => Top.names = << >>
  /\ expect \in {"name", "nameString", "nameEscape"} => Len(Top.names) < MaxNames
  /\ expect = "colon" => Top.names # << >>
  /\ Len(text) <= MaxLetters
  /\ InEscape => Len(text) < MaxLetters
  /\ Len(open) <= MaxDepth + 1
  /\ expect # "refused" => Len(open) <= MaxDepth

\* The scan for names is in a string when the parser is, has read of it what the
\* parser has, and remembers the name before a colon.
ScanFollowsTheParser ==
  expect # "refused" =>
    /\ scan.inString = InWord
    /\ scan.escaped = InEscape
    /\ InWord => Scanner!ReadToken(scan.token) = [text |-> text, escaped |-> InEscape]
    /\ ~InWord => scan.token = << >> /\ text = << >>
    /\ expect = "colon" => scan.whole = {Top.names[Len(Top.names)]}

\* The names of the i-th container that the scan for names has.
Written(i) ==
  IF expect = "colon" /\ i = Len(open) THEN Scanner!Front(open[i].names) ELSE open[i].names

NamesKept ==
  expect # "refused" =>
    /\ Len(scan.keys) = Level(open, Len(open))
    /\ \A i \in DOMAIN open :
         IsObject(open, i) => scan.keys[Level(open, i)] = Scanner!Range(Written(i))

\* While an object with a repeated name is open, the browser has found it, and Python
\* finds it when the object ends; TypeScript finds a name at its colon.
Repeats(i) == ~Scanner!Unique(open[i].names)
LastRepeats ==
  \E k \in DOMAIN Top.names : k # Len(Top.names) /\ Top.names[k] = Top.names[Len(Top.names)]

RepeatsAreKnown ==
  expect # "refused" =>
    /\ (\E i \in DOMAIN open : Repeats(i)) => "browser" \in repeated
    /\ "python" \in repeated => "browser" \in repeated
    /\ "typescript" \in repeated => "browser" \in repeated
    /\ "browser" \in repeated =>
         /\ "python" \in repeated \/ \E i \in DOMAIN open : Repeats(i)
         /\ "typescript" \in repeated \/ (expect = "colon" /\ LastRepeats)

ScannerInv ==
  /\ ScanTypes /\ Grammar /\ Bounds
  /\ Scanner!CounterFollowsTheParser /\ ScanFollowsTheParser /\ NamesKept
  /\ RepeatsAreKnown /\ Scanner!DepthIsLimitedAlike

-----------------------------------------------------------------------------
\* Induction, over a set in the place of a property.
LEMMA SetInduction ==
  ASSUME NEW S, NEW n \in Nat, 0 \in S, \A i \in 0 .. n - 1 : i \in S => i + 1 \in S
  PROVE  0 .. n \subseteq S
<1> DEFINE bad == {i \in 0 .. n : i \notin S}
           below == OpToRel(<, Nat)
<1>1. CASE bad = {}
  BY <1>1
<1>2. CASE bad # {}
  <2>1. \E m \in bad : \A k \in bad : ~ (<<k, m>> \in below)
    <3>1. bad \subseteq Nat
      OBVIOUS
    <3> HIDE DEF bad, below
    <3>2. IsWellFoundedOn(below, Nat)
      BY NatLessThanWellFounded DEF below
    <3> QED
      BY <1>2, <3>1, <3>2, WFMin
  <2>2. \A k, m \in Nat : k < m => <<k, m>> \in below
    BY DEF OpToRel
  <2>3. PICK m \in bad : \A k \in bad : ~ (<<k, m>> \in below)
    BY <2>1
  <2>4. m # 0 /\ m \in 1 .. n
    <3>1. m \in 0 .. n /\ m \notin S
      OBVIOUS
    <3>2. m # 0
      BY <3>1
    <3> QED
      BY <3>1, <3>2
  <2>5. m - 1 \in Nat /\ m \in Nat /\ m - 1 < m /\ m - 1 \in 0 .. n - 1 /\ m - 1 + 1 = m
    BY <2>4
  <2>6. m - 1 \notin bad
    <3>1. <<m - 1, m>> \in below
      <4> HIDE DEF below, bad
      <4> QED
        BY <2>2, <2>5
    <3> HIDE DEF below, bad
    <3> QED
      BY <2>3, <3>1
  <2>7. m - 1 \in S
    BY <2>5, <2>6
  <2>8. m \in S
    BY <2>5, <2>7
  <2> QED
    BY <2>3, <2>8
<1> QED
  BY <1>1, <1>2

Start == [text |-> << >>, escaped |-> FALSE]

\* The recursive function of ReadToken is what its definition says, for tokens of
\* every length: a partial one exists for every prefix.
LEMMA ReadingExists ==
  ASSUME NEW word \in Words
  PROVE  \E g : g = [n \in 0 .. Len(word) |->
                       IF n = 0 THEN Start ELSE Scanner!ReadOn(g[n - 1], word[n])]
<1> DEFINE Part(g, k) == g = [n \in 0 .. k |->
                                IF n = 0 THEN Start ELSE Scanner!ReadOn(g[n - 1], word[n])]
           S == {k \in Nat : \E g : Part(g, k)}
<1>1. Len(word) \in Nat
  BY DEF Words
<1>2. 0 \in S
  <2>1. Part([n \in 0 .. 0 |-> Start], 0)
    OBVIOUS
  <2> QED
    BY <2>1
<1>3. ASSUME NEW i \in 0 .. Len(word) - 1, i \in S
      PROVE  i + 1 \in S
  <2>1. PICK g : Part(g, i)
    BY <1>3
  <2> DEFINE h == [n \in 0 .. i + 1 |->
                     IF n = i + 1 THEN Scanner!ReadOn(g[i], word[i + 1]) ELSE g[n]]
  <2>2. i \in Nat /\ i + 1 \in Nat
    BY <1>1
  <2>3. DOMAIN h = 0 .. i + 1
    OBVIOUS
  <2>4. \A n \in 0 .. i + 1 :
          h[n] = IF n = 0 THEN Start ELSE Scanner!ReadOn(h[n - 1], word[n])
    <3> SUFFICES ASSUME NEW n \in 0 .. i + 1
                 PROVE  h[n] = IF n = 0 THEN Start ELSE Scanner!ReadOn(h[n - 1], word[n])
      OBVIOUS
    <3>1. \A j \in 0 .. i : h[j] = g[j]
      BY <2>2
    <3>2. \A j \in 0 .. i : g[j] = IF j = 0 THEN Start ELSE Scanner!ReadOn(g[j - 1], word[j])
      BY <2>1
    <3>3. h[i + 1] = Scanner!ReadOn(g[i], word[i + 1])
      BY <2>2
    <3> HIDE DEF h
    <3>4. CASE n = i + 1
      BY <2>2, <3>1, <3>3, <3>4
    <3>5. CASE n # i + 1
      <4>1. n \in 0 .. i /\ (n # 0 => n - 1 \in 0 .. i)
        BY <2>2, <3>5
      <4> QED
        BY <3>1, <3>2, <4>1
    <3> QED
      BY <3>4, <3>5
  <2>5. Part(h, i + 1)
    <3>1. h = [n \in 0 .. i + 1 |-> h[n]]
      OBVIOUS
    <3> HIDE DEF h
    <3> QED
      BY <2>4, <3>1
  <2> QED
    BY <2>2, <2>5
<1>4. Len(word) \in S
  <2> HIDE DEF S
  <2>1. 0 .. Len(word) \subseteq S
    BY <1>1, <1>2, <1>3, SetInduction
  <2> QED
    BY <1>1, <2>1
<1> QED
  BY <1>4

\* What a token is read as: the last value of a function with the recursion's values.
LEMMA ReadingOf ==
  ASSUME NEW word \in Words
  PROVE  \E g : /\ g = [n \in 0 .. Len(word) |->
                          IF n = 0 THEN Start ELSE Scanner!ReadOn(g[n - 1], word[n])]
                /\ Scanner!ReadToken(word) = g[Len(word)]
<1> DEFINE Body(g) == [n \in 0 .. Len(word) |->
                         IF n = 0 THEN Start ELSE Scanner!ReadOn(g[n - 1], word[n])]
           read == CHOOSE g : g = Body(g)
<1>1. read = Body(read)
  <2>1. \E g : g = Body(g)
    BY ReadingExists
  <2> HIDE DEF Body
  <2> QED
    BY <2>1
<1>2. Scanner!ReadToken(word) = read[Len(word)]
  BY DEF Scanner!ReadToken, Start
<1> HIDE DEF read
<1> QED
  BY <1>1, <1>2

\* Nothing is read of an empty token, and of a longer one what the next character adds.
LEMMA ReadNothing == Scanner!ReadToken(<< >>) = Start
<1>1. << >> \in Words /\ Len(<< >>) = 0
  BY DEF Words
<1> QED
  BY <1>1, ReadingOf

LEMMA ReadMore ==
  ASSUME NEW word \in Words, NEW c \in Chars
  PROVE  Scanner!ReadToken(Append(word, c)) = Scanner!ReadOn(Scanner!ReadToken(word), c)
<1> DEFINE n == Len(word)
           longer == Append(word, c)
<1>1. /\ n \in Nat /\ longer \in Words /\ Len(longer) = n + 1
      /\ \A i \in 1 .. n : longer[i] = word[i]
      /\ longer[n + 1] = c
  BY DEF Words
<1>2. PICK g : /\ g = [i \in 0 .. n |->
                         IF i = 0 THEN Start ELSE Scanner!ReadOn(g[i - 1], word[i])]
               /\ Scanner!ReadToken(word) = g[n]
  BY ReadingOf
<1>3. PICK h : /\ h = [i \in 0 .. n + 1 |->
                         IF i = 0 THEN Start ELSE Scanner!ReadOn(h[i - 1], longer[i])]
               /\ Scanner!ReadToken(longer) = h[n + 1]
  BY <1>1, ReadingOf
<1> HIDE DEF longer, n
<1> DEFINE S == {i \in Nat : i <= n => g[i] = h[i]}
<1>4. 0 \in S
  <2>1. g[0] = Start /\ h[0] = Start
    BY <1>1, <1>2, <1>3
  <2> QED
    BY <2>1
<1>5. ASSUME NEW i \in 0 .. n - 1, i \in S
      PROVE  i + 1 \in S
  <2>1. i \in Nat /\ i + 1 \in 1 .. n /\ i + 1 # 0 /\ i + 1 - 1 = i /\ g[i] = h[i]
    BY <1>1, <1>5
  <2>2. g[i + 1] = Scanner!ReadOn(g[i], word[i + 1])
    BY <1>1, <1>2, <2>1
  <2>3. h[i + 1] = Scanner!ReadOn(h[i], longer[i + 1])
    BY <1>1, <1>3, <2>1
  <2> QED
    BY <1>1, <2>1, <2>2, <2>3
<1>6. g[n] = h[n]
  <2>1. n \in S
    <3> HIDE DEF S
    <3>1. 0 .. n \subseteq S
      BY <1>1, <1>4, <1>5, SetInduction
    <3> QED
      BY <1>1, <3>1
  <2> QED
    BY <1>1, <2>1
<1>7. h[n + 1] = Scanner!ReadOn(h[n], longer[n + 1])
  BY <1>1, <1>3
<1> QED
  BY <1>1, <1>2, <1>3, <1>6, <1>7 DEF longer

-----------------------------------------------------------------------------
LEMMA ObjectsAre ==
  ASSUME NEW containers, NEW n
  PROVE  Scanner!Objects(containers, n) = {i \in 1 .. n : IsObject(containers, i)}
BY DEF Scanner!Objects, IsObject

LEMMA LevelType ==
  ASSUME NEW containers, NEW n \in Nat
  PROVE  /\ IsFiniteSet(Scanner!Objects(containers, n))
         /\ Level(containers, n) \in Nat
<1>1. IsFiniteSet(1 .. n)
  BY FS_Interval
<1>2. Scanner!Objects(containers, n) \subseteq 1 .. n
  BY DEF Scanner!Objects
<1>3. IsFiniteSet(Scanner!Objects(containers, n))
  BY <1>1, <1>2, FS_Subset
<1> QED
  BY <1>3, FS_CardinalityType DEF Level

\* Only the containers counted matter.
LEMMA LevelSame ==
  ASSUME NEW containers, NEW others, NEW n \in Nat,
         \A i \in 1 .. n : containers[i].kind = others[i].kind
  PROVE  /\ Scanner!Objects(containers, n) = Scanner!Objects(others, n)
         /\ Level(containers, n) = Level(others, n)
BY DEF Scanner!Objects, Level

LEMMA LevelsSame ==
  ASSUME NEW containers, NEW others, NEW n \in Nat,
         \A i \in 1 .. n : containers[i] = others[i]
  PROVE  \A m \in 0 .. n : Level(containers, m) = Level(others, m) /\ Level(others, m) \in Nat
<1> TAKE m \in 0 .. n
<1>1. m \in Nat /\ \A i \in 1 .. m : containers[i].kind = others[i].kind
  OBVIOUS
<1> QED
  BY <1>1, LevelSame, LevelType

\* One more container counts if it is an object.
LEMMA LevelStep ==
  ASSUME NEW containers, NEW n \in Nat
  PROVE  Level(containers, n + 1) =
           Level(containers, n) + (IF IsObject(containers, n + 1) THEN 1 ELSE 0)
<1> DEFINE before == Scanner!Objects(containers, n)
           after  == Scanner!Objects(containers, n + 1)
<1>1. IsFiniteSet(before) /\ Cardinality(before) \in Nat
  BY LevelType DEF Level
<1>2. CASE IsObject(containers, n + 1)
  <2>1. after = before \cup {n + 1} /\ n + 1 \notin before
    BY <1>2, ObjectsAre
  <2> HIDE DEF before, after
  <2>2. Cardinality(after) = Cardinality(before) + 1
    BY <1>1, <2>1, FS_AddElement
  <2> QED
    BY <1>2, <2>2 DEF Level, before, after
<1>3. CASE ~ IsObject(containers, n + 1)
  <2>1. after = before
    <3>1. /\ before = {i \in 1 .. n : IsObject(containers, i)}
          /\ after = {i \in 1 .. n + 1 : IsObject(containers, i)}
      BY ObjectsAre
    <3>2. \A i : i \in 1 .. n + 1 <=> i \in 1 .. n \/ i = n + 1
      OBVIOUS
    <3> HIDE DEF before, after
    <3> QED
      BY <1>3, <3>1, <3>2
  <2> HIDE DEF before, after
  <2> QED
    BY <1>1, <1>3, <2>1 DEF Level, before, after
<1> QED
  BY <1>2, <1>3

\* The objects inside one another have different levels, from one.
LEMMA LevelGrows ==
  ASSUME NEW containers, NEW n \in Nat, NEW i \in 1 .. n, IsObject(containers, i)
  PROVE  /\ Level(containers, i) \in 1 .. Level(containers, n)
         /\ \A j \in i + 1 .. n :
              IsObject(containers, j) => Level(containers, i) < Level(containers, j)
<1>1. i \in 1 .. n /\ i \in Nat /\ IsObject(containers, i)
  OBVIOUS
<1>2. ASSUME NEW k \in Nat, NEW m \in Nat, k <= m
      PROVE  Level(containers, k) <= Level(containers, m)
  <2>1. Scanner!Objects(containers, k) \subseteq Scanner!Objects(containers, m)
    BY <1>2, ObjectsAre
  <2>2. IsFiniteSet(Scanner!Objects(containers, m))
    BY LevelType
  <2> QED
    BY <2>1, <2>2, FS_Subset DEF Level
<1>3. ASSUME NEW j \in Nat, j > 0, IsObject(containers, j)
      PROVE  Level(containers, j) = Level(containers, j - 1) + 1
  <2>1. j - 1 \in Nat /\ (j - 1) + 1 = j
    BY <1>3
  <2> QED
    BY <1>3, <2>1, LevelStep
<1>4. Level(containers, i) \in 1 .. Level(containers, n)
  <2>1. Level(containers, i) = Level(containers, i - 1) + 1 /\ i - 1 \in Nat
    BY <1>1, <1>3
  <2>2. Level(containers, i - 1) \in Nat /\ Level(containers, i) \in Nat /\ Level(containers, n) \in Nat
    BY <1>1, <2>1, LevelType
  <2>3. Level(containers, i) <= Level(containers, n)
    BY <1>1, <1>2
  <2> QED
    BY <2>1, <2>2, <2>3
<1>5. ASSUME NEW j \in i + 1 .. n, IsObject(containers, j)
      PROVE  Level(containers, i) < Level(containers, j)
  <2>1. j \in Nat /\ j > 0 /\ IsObject(containers, j) /\ j - 1 \in Nat /\ i <= j - 1
    BY <1>1, <1>5
  <2>2. Level(containers, j) = Level(containers, j - 1) + 1
    BY <1>3, <2>1
  <2>3. Level(containers, i) <= Level(containers, j - 1)
    BY <1>1, <1>2, <2>1
  <2>4. Level(containers, i) \in Nat /\ Level(containers, j - 1) \in Nat
    BY <1>1, <2>1, LevelType
  <2> QED
    BY <2>2, <2>3, <2>4
<1> QED
  BY <1>4, <1>5

-----------------------------------------------------------------------------
\* The scan for names, character by character: within a string,
LEMMA ScanWithin ==
  ASSUME NEW s \in ScanType, NEW c \in Chars, s.inString = TRUE, s.escaped = TRUE \/ c # Scanner!Quote
  PROVE  /\ Scanner!NameScan(s, c) \in ScanType
         /\ Scanner!NameScan(s, c).inString = TRUE
         /\ Scanner!NameScan(s, c).keys = s.keys
         /\ Scanner!NameScan(s, c).token = Append(s.token, c)
         /\ Scanner!NameScan(s, c).escaped =
              IF s.escaped = FALSE /\ c = Scanner!Backslash THEN TRUE ELSE FALSE
<1>1. Scanner!NameScan(s, c) = [s EXCEPT !.escaped = ~@ /\ c = Scanner!Backslash,
                                         !.token = Append(@, c)]
  BY DEF Scanner!NameScan, ScanType
<1>2. Append(s.token, c) \in Words
  BY DEF ScanType, Words
<1> QED
  BY <1>1, <1>2 DEF ScanType

\* at its end,
LEMMA ScanEnds ==
  ASSUME NEW s \in ScanType, s.inString = TRUE, s.escaped = FALSE,
         Scanner!Decode(s.token) \in Words
  PROVE  LET next == Scanner!NameScan(s, Scanner!Quote)
         IN /\ next \in ScanType
            /\ next.inString = FALSE /\ next.escaped = FALSE
            /\ next.keys = s.keys /\ next.token = << >>
            /\ next.whole = {Scanner!Decode(s.token)}
<1>1. Scanner!NameScan(s, Scanner!Quote) =
        [s EXCEPT !.inString = FALSE, !.whole = {Scanner!Decode(s.token)}, !.token = << >>]
  BY DEF Scanner!NameScan, ScanType
<1>2. << >> \in Words
  BY DEF Words
<1> QED
  BY <1>1, <1>2 DEF ScanType

\* and outside.
LEMMA ScanOutside ==
  ASSUME NEW s \in ScanType, NEW c, s.inString = FALSE, c # "space"
  PROVE  /\ Scanner!NameScan(s, c).inString = IF c = Scanner!Quote THEN TRUE ELSE FALSE
         /\ Scanner!NameScan(s, c).escaped = s.escaped
         /\ Scanner!NameScan(s, c).token = s.token
         /\ Scanner!NameScan(s, c).whole = {}
         /\ Scanner!NameScan(s, c).keys \in Seq(SUBSET Words) => Scanner!NameScan(s, c) \in ScanType
         /\ c = "object" => Scanner!NameScan(s, c).keys = Append(s.keys, {})
         /\ c = "endObject" => Scanner!NameScan(s, c).keys = Scanner!Front(s.keys)
         /\ c = "colon" => Scanner!NameScan(s, c).keys =
                             [s.keys EXCEPT ![Len(s.keys)] = @ \cup s.whole]
         /\ c \notin {"object", "endObject", "colon"} =>
              Scanner!NameScan(s, c).keys = s.keys /\ Scanner!NameScan(s, c) \in ScanType
<1> DEFINE keys == CASE c = "object" -> Append(s.keys, {})
                     [] c = "endObject" -> Scanner!Front(s.keys)
                     [] c = "colon" -> [s.keys EXCEPT ![Len(s.keys)] = @ \cup s.whole]
                     [] OTHER -> s.keys
           next == [s EXCEPT !.inString = (c = Scanner!Quote), !.whole = {}, !.keys = keys]
<1>1. Scanner!NameScan(s, c) = next
  BY DEF Scanner!NameScan, ScanType
<1>2. /\ c = "object" => keys = Append(s.keys, {})
      /\ c = "endObject" => keys = Scanner!Front(s.keys)
      /\ c = "colon" => keys = [s.keys EXCEPT ![Len(s.keys)] = @ \cup s.whole]
      /\ c \notin {"object", "endObject", "colon"} => keys = s.keys
  OBVIOUS
<1>3. s.keys \in Seq(SUBSET Words)
  BY DEF ScanType
<1> HIDE DEF keys
<1>4. /\ next.inString = IF c = Scanner!Quote THEN TRUE ELSE FALSE
      /\ next.escaped = s.escaped
      /\ next.token = s.token /\ next.whole = {} /\ next.keys = keys
      /\ next.keys \in Seq(SUBSET Words) => next \in ScanType
  BY DEF ScanType
<1> HIDE DEF next
<1> QED
  BY <1>1, <1>2, <1>3, <1>4

-----------------------------------------------------------------------------
\* Where the readers stand.
LEMMA ReadersFollow ==
  ASSUME ScannerInv, expect # "refused"
  PROVE  /\ raw \in RawType /\ raw.depth = Len(open) /\ raw.depth \in Nat
         /\ scan \in ScanType /\ scan.token \in Words /\ scan.keys \in Seq(SUBSET Words)
         /\ text \in Words
         /\ InWord => raw.inString = TRUE /\ scan.inString = TRUE
         /\ ~InWord => /\ raw.inString = FALSE /\ raw.escaped = FALSE
                       /\ scan.inString = FALSE /\ scan.escaped = FALSE
                       /\ scan.token = << >> /\ text = << >>
         /\ InEscape => /\ InWord /\ raw.escaped = TRUE /\ scan.escaped = TRUE
                        /\ Scanner!ReadToken(scan.token) = [text |-> text, escaped |-> TRUE]
         /\ ~InEscape => raw.escaped = FALSE /\ scan.escaped = FALSE
         /\ InWord /\ ~InEscape =>
              Scanner!ReadToken(scan.token) = [text |-> text, escaped |-> FALSE]
<1>1. raw \in RawType /\ scan \in ScanType /\ text \in Words /\ Len(open) \in Nat
  BY DEF ScannerInv, ScanTypes
<1>2. /\ raw.depth = Len(open)
      /\ raw.inString <=> InWord
      /\ raw.escaped <=> InEscape
  BY DEF ScannerInv, Scanner!CounterFollowsTheParser, InWord, InEscape
<1>3. /\ scan.inString = InWord /\ scan.escaped = InEscape
      /\ InWord => Scanner!ReadToken(scan.token) = [text |-> text, escaped |-> InEscape]
      /\ ~InWord => scan.token = << >> /\ text = << >>
  BY Zenon DEF ScannerInv, ScanFollowsTheParser
<1>4. InEscape => InWord
  BY DEF InEscape, InWord
<1>5. scan.token \in Words /\ scan.keys \in Seq(SUBSET Words)
  BY <1>1 DEF ScanType
<1>6. raw.inString \in BOOLEAN /\ raw.escaped \in BOOLEAN
  BY <1>1 DEF RawType
<1>7. /\ InEscape => InEscape = TRUE
      /\ ~InEscape => InEscape = FALSE
      /\ InWord => InWord = TRUE
      /\ ~InWord => InWord = FALSE
  BY DEF InEscape, InWord
<1> QED
  BY <1>1, <1>2, <1>3, <1>4, <1>5, <1>6, <1>7

\* A character of a string: the readers go on with it.
LEMMA WithinWord ==
  ASSUME ScannerInv, expect # "refused", InWord, NEW c \in Chars,
         InEscape \/ c # Scanner!Quote, Scanner!Scanned(c)
  PROVE  /\ raw' \in RawType /\ raw'.depth = raw.depth /\ raw'.inString = TRUE
         /\ scan' \in ScanType /\ scan'.inString = TRUE /\ scan'.keys = scan.keys
         /\ ~InEscape /\ c = Scanner!Backslash =>
              /\ raw'.escaped = TRUE /\ scan'.escaped = TRUE
              /\ Scanner!ReadToken(scan'.token) = [text |-> text, escaped |-> TRUE]
         /\ ~InEscape /\ c # Scanner!Backslash =>
              /\ raw'.escaped = FALSE /\ scan'.escaped = FALSE
              /\ Scanner!ReadToken(scan'.token) = [text |-> Append(text, c), escaped |-> FALSE]
         /\ InEscape =>
              /\ raw'.escaped = FALSE /\ scan'.escaped = FALSE
              /\ Scanner!ReadToken(scan'.token)
                   = [text |-> Append(text, Scanner!Unescaped(c)), escaped |-> FALSE]
<1>1. /\ raw \in RawType /\ raw.inString = TRUE
      /\ scan \in ScanType /\ scan.inString = TRUE
      /\ scan.token \in Words
  BY ReadersFollow
<1>2. raw' = [raw EXCEPT !.escaped = ~@ /\ c = Scanner!Backslash,
                         !.inString = raw.escaped \/ c # Scanner!Quote]
  BY <1>1 DEF Scanner!Scanned, Scanner!RawScan
<1>3. scan' = Scanner!NameScan(scan, c)
  BY DEF Scanner!Scanned
<1>4. /\ raw.escaped = TRUE \/ c # Scanner!Quote
      /\ scan.escaped = TRUE \/ c # Scanner!Quote
  BY ReadersFollow
<1>5. /\ raw' \in RawType /\ raw'.depth = raw.depth /\ raw'.inString = TRUE
      /\ raw'.escaped = IF raw.escaped = FALSE /\ c = Scanner!Backslash THEN TRUE ELSE FALSE
  BY <1>1, <1>2, <1>4 DEF RawType
<1>6. /\ scan' \in ScanType /\ scan'.inString = TRUE /\ scan'.keys = scan.keys
      /\ scan'.token = Append(scan.token, c)
      /\ scan'.escaped = IF scan.escaped = FALSE /\ c = Scanner!Backslash THEN TRUE ELSE FALSE
  BY <1>1, <1>3, <1>4, ScanWithin
<1>7. Scanner!ReadToken(scan'.token) = Scanner!ReadOn(Scanner!ReadToken(scan.token), c)
  BY <1>1, <1>6, ReadMore
<1>8. CASE InEscape
  <2>1. Scanner!ReadToken(scan.token) = [text |-> text, escaped |-> TRUE]
    BY <1>8, ReadersFollow
  <2>2. Scanner!ReadToken(scan'.token)
          = [text |-> Append(text, Scanner!Unescaped(c)), escaped |-> FALSE]
    BY <1>7, <2>1 DEF Scanner!ReadOn
  <2>3. raw.escaped = TRUE /\ scan.escaped = TRUE
    BY <1>8, ReadersFollow
  <2> QED
    BY <1>5, <1>6, <1>8, <2>2, <2>3
<1>9. CASE ~InEscape
  <2>1. Scanner!ReadToken(scan.token) = [text |-> text, escaped |-> FALSE]
    BY <1>9, ReadersFollow
  <2>2. /\ c = Scanner!Backslash =>
             Scanner!ReadToken(scan'.token) = [text |-> text, escaped |-> TRUE]
        /\ c # Scanner!Backslash =>
             Scanner!ReadToken(scan'.token) = [text |-> Append(text, c), escaped |-> FALSE]
    BY <1>7, <2>1 DEF Scanner!ReadOn
  <2>3. raw.escaped = FALSE /\ scan.escaped = FALSE
    BY <1>9, ReadersFollow
  <2> QED
    BY <1>5, <1>6, <1>9, <2>2, <2>3
<1> QED
  BY <1>8, <1>9

\* The end of a string: the scan for names has the text of the parser.
LEMMA EndOfWord ==
  ASSUME ScannerInv, expect # "refused", InWord, ~InEscape, Scanner!Scanned(Scanner!Quote)
  PROVE  /\ raw' \in RawType /\ raw'.depth = raw.depth
         /\ raw'.inString = FALSE /\ raw'.escaped = FALSE
         /\ scan' \in ScanType /\ scan'.inString = FALSE /\ scan'.escaped = FALSE
         /\ scan'.keys = scan.keys /\ scan'.token = << >> /\ scan'.whole = {text}
<1>1. raw \in RawType /\ raw.inString = TRUE /\ raw.escaped = FALSE
  BY ReadersFollow
<1>2. /\ scan \in ScanType /\ scan.inString = TRUE /\ scan.escaped = FALSE
      /\ text \in Words
  BY ReadersFollow
<1>3. Scanner!ReadToken(scan.token) = [text |-> text, escaped |-> FALSE]
  BY ReadersFollow
<1>4. raw' = [raw EXCEPT !.escaped = FALSE, !.inString = FALSE]
  BY <1>1 DEF Scanner!Scanned, Scanner!RawScan, Scanner!Quote, Scanner!Backslash, RawType
<1>5. scan' = Scanner!NameScan(scan, Scanner!Quote)
  BY DEF Scanner!Scanned
<1>6. Scanner!Decode(scan.token) = text
  BY <1>3 DEF Scanner!Decode
<1> QED
  BY <1>1, <1>2, <1>4, <1>5, <1>6, ScanEnds DEF RawType

\* A character that is not in a string.
LEMMA OutsideWord ==
  ASSUME ScannerInv, expect # "refused", ~InWord, NEW c, c # "space", Scanner!Scanned(c)
  PROVE  /\ raw' \in RawType /\ raw'.escaped = FALSE
         /\ raw'.inString = IF c = Scanner!Quote THEN TRUE ELSE FALSE
         /\ raw'.depth = IF c \in {"array", "object"} THEN raw.depth + 1
                         ELSE IF c \in {"endArray", "endObject"} THEN raw.depth - 1
                         ELSE raw.depth
         /\ scan'.inString = (IF c = Scanner!Quote THEN TRUE ELSE FALSE)
         /\ scan'.escaped = FALSE /\ scan'.token = << >> /\ scan'.whole = {}
         /\ scan'.keys \in Seq(SUBSET Words) => scan' \in ScanType
         /\ c = "object" => scan'.keys = Append(scan.keys, {})
         /\ c = "endObject" => scan'.keys = Scanner!Front(scan.keys)
         /\ c = "colon" => scan'.keys = [scan.keys EXCEPT ![Len(scan.keys)] = @ \cup scan.whole]
         /\ c \notin {"object", "endObject", "colon"} =>
              scan'.keys = scan.keys /\ scan' \in ScanType
<1>1. raw \in RawType /\ raw.inString = FALSE /\ raw.escaped = FALSE
  BY ReadersFollow
<1>2. /\ scan \in ScanType /\ scan.inString = FALSE /\ scan.escaped = FALSE
      /\ scan.token = << >>
  BY ReadersFollow
<1>3. raw' = IF c = Scanner!Quote THEN [raw EXCEPT !.inString = TRUE]
             ELSE IF c \in {"array", "object"} THEN [raw EXCEPT !.depth = @ + 1]
             ELSE IF c \in {"endArray", "endObject"} THEN [raw EXCEPT !.depth = @ - 1]
             ELSE raw
  BY <1>1 DEF Scanner!Scanned, Scanner!RawScan
<1>4. Scanner!Quote \notin {"array", "object", "endArray", "endObject"}
  BY DEF Scanner!Quote
<1>5. /\ raw' \in RawType /\ raw'.escaped = FALSE
      /\ raw'.inString = IF c = Scanner!Quote THEN TRUE ELSE FALSE
      /\ raw'.depth = IF c \in {"array", "object"} THEN raw.depth + 1
                      ELSE IF c \in {"endArray", "endObject"} THEN raw.depth - 1
                      ELSE raw.depth
  <2>1. CASE c = Scanner!Quote
    BY <1>1, <1>3, <1>4, <2>1 DEF RawType
  <2>2. CASE c # Scanner!Quote /\ c \in {"array", "object"}
    <3>1. raw' = [raw EXCEPT !.depth = raw.depth + 1] /\ raw.depth + 1 \in Int
      BY <1>1, <1>3, <2>2 DEF RawType
    <3>2. /\ raw' \in RawType /\ raw'.escaped = FALSE /\ raw'.inString = FALSE
          /\ raw'.depth = raw.depth + 1
      BY <1>1, <3>1 DEF RawType
    <3> QED
      BY <2>2, <3>2
  <2>3. CASE c # Scanner!Quote /\ c \in {"endArray", "endObject"}
    <3>1. raw' = [raw EXCEPT !.depth = raw.depth - 1] /\ raw.depth - 1 \in Int
      BY <1>1, <1>3, <2>3 DEF RawType
    <3>2. /\ raw' \in RawType /\ raw'.escaped = FALSE /\ raw'.inString = FALSE
          /\ raw'.depth = raw.depth - 1
      BY <1>1, <3>1 DEF RawType
    <3> QED
      BY <2>3, <3>2
  <2>4. CASE c \notin {Scanner!Quote, "array", "object", "endArray", "endObject"}
    BY <1>1, <1>3, <2>4 DEF RawType
  <2> QED
    BY <2>1, <2>2, <2>3, <2>4
<1>6. scan' = Scanner!NameScan(scan, c)
  BY DEF Scanner!Scanned
<1>7. /\ scan'.inString = (IF c = Scanner!Quote THEN TRUE ELSE FALSE)
      /\ scan'.escaped = FALSE /\ scan'.token = << >> /\ scan'.whole = {}
      /\ scan'.keys \in Seq(SUBSET Words) => scan' \in ScanType
  BY <1>2, <1>6, ScanOutside
<1>8. /\ c = "object" => scan'.keys = Append(scan.keys, {})
      /\ c = "endObject" => scan'.keys = Scanner!Front(scan.keys)
      /\ c = "colon" => scan'.keys = [scan.keys EXCEPT ![Len(scan.keys)] = @ \cup scan.whole]
      /\ c \notin {"object", "endObject", "colon"} =>
           scan'.keys = scan.keys /\ scan' \in ScanType
  BY <1>2, <1>6, ScanOutside
<1> QED
  BY <1>5, <1>7, <1>8

\* A value begins: the three limits on depth are the same one.
LEMMA DeepAtMeans ==
  ASSUME ScannerInv, NEW c
  PROVE  /\ Scanner!DeepAt(c) \subseteq {"raw", "tree", "browser"}
         /\ Scanner!DeepAt(c) \cap {"raw", "tree"} # {} <=> "browser" \in Scanner!DeepAt(c)
         /\ Scanner!DeepAt(c) = {} <=> Len(open) < MaxDepth
<1>1. Len(open) \in Nat /\ raw.depth = Len(open) /\ MaxDepth \in Nat
  BY ScannerAssumption DEF ScannerInv, ScanTypes, Scanner!CounterFollowsTheParser
<1>2. CASE Len(open) < MaxDepth
  <2>1. Scanner!DeepAt(c) = {}
    BY <1>1, <1>2 DEF Scanner!DeepAt, Scanner!BrowserRefusesDepth
  <2> QED
    BY <1>2, <2>1
<1>3. CASE ~(Len(open) < MaxDepth)
  <2>1. /\ "tree" \in Scanner!DeepAt(c) /\ "browser" \in Scanner!DeepAt(c)
        /\ Scanner!DeepAt(c) \subseteq {"raw", "tree", "browser"}
    BY <1>1, <1>3 DEF Scanner!DeepAt, Scanner!BrowserRefusesDepth
  <2> QED
    BY <1>3, <2>1
<1> QED
  BY <1>2, <1>3

-----------------------------------------------------------------------------
\* A sequence without its last element.
LEMMA FrontFacts ==
  ASSUME NEW S, NEW s \in Seq(S), s # << >>
  PROVE  /\ Len(s) \in Nat /\ Len(s) > 0 /\ Len(s) \in DOMAIN s
         /\ Scanner!Front(s) \in Seq(S) /\ Len(Scanner!Front(s)) = Len(s) - 1
         /\ \A i \in 1 .. Len(s) - 1 : Scanner!Front(s)[i] = s[i]
         /\ Scanner!Last(s) = s[Len(s)] /\ Scanner!Last(s) \in S
<1>1. Len(s) \in Nat /\ DOMAIN s = 1 .. Len(s) /\ \A i \in 1 .. Len(s) : s[i] \in S
  OBVIOUS
<1>2. Len(s) # 0
  OBVIOUS
<1>3. Len(s) \in 1 .. Len(s) /\ Len(s) - 1 \in Nat
  BY <1>1, <1>2
<1>4. /\ SubSeq(s, 1, Len(s) - 1) \in Seq(S)
      /\ Len(SubSeq(s, 1, Len(s) - 1)) = Len(s) - 1
      /\ \A i \in 1 .. Len(s) - 1 : SubSeq(s, 1, Len(s) - 1)[i] = s[i]
  BY <1>1, <1>3
<1> QED
  BY <1>1, <1>3, <1>4 DEF Scanner!Front, Scanner!Last

\* The elements of a sequence, one by one.
LEMMA RangeAppend ==
  ASSUME NEW S, NEW s \in Seq(S), NEW x \in S
  PROVE  /\ Append(s, x) \in Seq(S)
         /\ Scanner!Range(Append(s, x)) = Scanner!Range(s) \cup {x}
         /\ Scanner!Front(Append(s, x)) = s
<1>1. /\ Append(s, x) \in Seq(S) /\ Len(Append(s, x)) = Len(s) + 1
      /\ Append(s, x)[Len(s) + 1] = x
      /\ \A i \in 1 .. Len(s) : Append(s, x)[i] = s[i]
  OBVIOUS
<1>2. Scanner!Range(Append(s, x)) = Scanner!Range(s) \cup {x}
  <2>1. Scanner!Range(s) = {s[i] : i \in 1 .. Len(s)}
    BY DEF Scanner!Range
  <2>2. Scanner!Range(Append(s, x)) = {Append(s, x)[i] : i \in 1 .. Len(s) + 1}
    BY <1>1 DEF Scanner!Range
  <2>3. \A i : i \in 1 .. Len(s) + 1 <=> i \in 1 .. Len(s) \/ i = Len(s) + 1
    OBVIOUS
  <2> QED
    BY <1>1, <2>1, <2>2, <2>3
<1>3. Scanner!Front(Append(s, x)) = s
  BY <1>1 DEF Scanner!Front
<1> QED
  BY <1>1, <1>2, <1>3

LEMMA RangeFront ==
  ASSUME NEW S, NEW s \in Seq(S), s # << >>
  PROVE  Scanner!Range(s) = Scanner!Range(Scanner!Front(s)) \cup {s[Len(s)]}
<1>1. /\ Len(s) \in Nat /\ Len(s) > 0 /\ s = Append(Scanner!Front(s), s[Len(s)])
      /\ Scanner!Front(s) \in Seq(S) /\ s[Len(s)] \in S
  BY FrontFacts
<1>2. PICK front \in Seq(S), x \in S : front = Scanner!Front(s) /\ x = s[Len(s)]
  BY <1>1
<1>3. s = Append(front, x)
  BY <1>1, <1>2
<1> QED
  BY <1>2, <1>3, RangeAppend

\* A name repeats when it is there already.
LEMMA UniqueAppend ==
  ASSUME NEW S, NEW s \in Seq(S), NEW x \in S
  PROVE  Scanner!Unique(Append(s, x)) <=> Scanner!Unique(s) /\ x \notin Scanner!Range(s)
<1>1. /\ DOMAIN Append(s, x) = 1 .. Len(s) + 1 /\ DOMAIN s = 1 .. Len(s) /\ Len(s) \in Nat
      /\ Append(s, x)[Len(s) + 1] = x
      /\ \A i \in 1 .. Len(s) : Append(s, x)[i] = s[i] /\ i \in 1 .. Len(s) + 1 /\ i # Len(s) + 1
  OBVIOUS
<1>2. x \in Scanner!Range(s) <=> \E i \in 1 .. Len(s) : s[i] = x
  BY <1>1 DEF Scanner!Range
<1>3. ASSUME Scanner!Unique(Append(s, x))
      PROVE  Scanner!Unique(s) /\ x \notin Scanner!Range(s)
  BY <1>1, <1>2, <1>3 DEF Scanner!Unique
<1>4. ASSUME Scanner!Unique(s), x \notin Scanner!Range(s)
      PROVE  Scanner!Unique(Append(s, x))
  <2> SUFFICES ASSUME NEW i \in 1 .. Len(s) + 1, NEW j \in 1 .. Len(s) + 1,
                      Append(s, x)[i] = Append(s, x)[j]
               PROVE  i = j
    BY <1>1 DEF Scanner!Unique
  <2>1. (i \in 1 .. Len(s) \/ i = Len(s) + 1) /\ (j \in 1 .. Len(s) \/ j = Len(s) + 1)
    BY <1>1
  <2> QED
    BY <1>1, <1>2, <1>4, <2>1 DEF Scanner!Unique
<1> QED
  BY <1>3, <1>4

-----------------------------------------------------------------------------
\* What a step that touches neither the containers nor the names leaves true.
LEMMA NamesStay ==
  ASSUME ScannerInv, expect # "refused", expect # "colon", expect' # "colon",
         open' = open, scan'.keys = scan.keys
  PROVE  NamesKept'
BY DEF ScannerInv, NamesKept, Written

LEMMA RepeatsStay ==
  ASSUME ScannerInv, expect # "refused", expect # "colon",
         open' = open, repeated' = repeated
  PROVE  RepeatsAreKnown'
BY DEF ScannerInv, RepeatsAreKnown, Repeats

\* A step outside strings that leaves the counter at the depth of the parser.
LEMMA ReadersStayInStep ==
  ASSUME ScannerInv, expect # "refused", ~InWord, NEW c, c # "space", Scanner!Scanned(c),
         text' = text, raw'.depth = Len(open'), expect' # "colon", ~InEscape',
         expect' # "refused" => (InWord' <=> c = Scanner!Quote)
  PROVE  Scanner!CounterFollowsTheParser' /\ ScanFollowsTheParser'
<1>1. /\ raw'.escaped = FALSE /\ scan'.escaped = FALSE
      /\ raw'.inString = IF c = Scanner!Quote THEN TRUE ELSE FALSE
      /\ scan'.inString = IF c = Scanner!Quote THEN TRUE ELSE FALSE
      /\ scan'.token = << >>
  BY OutsideWord
<1>2. text' = << >>
  BY ReadersFollow
<1>3. Scanner!CounterFollowsTheParser'
  BY <1>1 DEF Scanner!CounterFollowsTheParser, InWord, InEscape
<1>4. ASSUME expect' # "refused"
      PROVE  /\ scan'.inString = InWord' /\ scan'.escaped = InEscape'
             /\ InWord' => Scanner!ReadToken(scan'.token) = [text |-> text', escaped |-> InEscape']
             /\ ~InWord' => scan'.token = << >> /\ text' = << >>
             /\ expect' = "colon" => scan'.whole = {Top'.names[Len(Top'.names)]}
  <2>1. InEscape' = FALSE
    BY DEF InEscape
  <2>2. scan'.inString = InWord'
    <3>1. (InWord' => InWord' = TRUE) /\ (~InWord' => InWord' = FALSE)
      BY DEF InWord
    <3> QED
      BY <1>1, <1>4, <3>1
  <2>3. Scanner!ReadToken(scan'.token) = [text |-> text', escaped |-> FALSE]
    <3>1. scan'.token = << >>
      BY <1>1
    <3> QED
      BY <3>1, <1>2, ReadNothing DEF Start
  <2>4. InWord' => Scanner!ReadToken(scan'.token) = [text |-> text', escaped |-> InEscape']
    BY Zenon, <2>1, <2>3
  <2>5. scan'.escaped = InEscape'
    BY <1>1, <2>1
  <2> QED
    BY <1>1, <1>2, <2>2, <2>4, <2>5
<1>5. ScanFollowsTheParser'
  BY Zenon, <1>4 DEF ScanFollowsTheParser
<1> QED
  BY <1>3, <1>5

\* A number or a literal.
LEMMA ScalarStep ==
  ASSUME ScannerInv, Scanner!Scalar
  PROVE  ScannerInv'
<1>1. /\ expect \in {"value", "first"} /\ Scanner!Scanned("digit")
      /\ tooDeep' = Scanner!DeepAt("digit")
      /\ expect' = IF Scanner!DeepAt("digit") = {} THEN Scanner!AfterValue(open) ELSE "refused"
      /\ open' = open /\ text' = text /\ repeated' = repeated
  BY DEF Scanner!Scalar, Scanner!StartsValue
<1>2. expect # "refused" /\ expect # "colon" /\ ~InWord
  BY <1>1 DEF InWord
<1>3. expect' = IF Len(open) < MaxDepth THEN (IF open = << >> THEN "end" ELSE "separator")
                ELSE "refused"
  BY <1>1, DeepAtMeans DEF Scanner!AfterValue
<1>4. expect' \in {"end", "separator", "refused"}
  BY <1>3
<1>5. ~InWord' /\ ~InEscape' /\ ~InNames' /\ expect' # "colon"
  BY <1>4 DEF InWord, InEscape, InNames
<1>6. raw' \in RawType /\ raw'.depth = Len(open') /\ scan'.keys = scan.keys /\ scan' \in ScanType
  <2>1. "digit" \notin {"space", "array", "object", "endArray", "endObject", "colon"}
    OBVIOUS
  <2> PICK c : c = "digit"
    OBVIOUS
  <2>2. c \notin {"space", "array", "object", "endArray", "endObject", "colon"} /\ Scanner!Scanned(c)
    BY <1>1
  <2>3. /\ raw' \in RawType /\ raw'.depth = raw.depth
        /\ scan'.keys = scan.keys /\ scan' \in ScanType
    BY <1>2, <2>2, OutsideWord
  <2> QED
    BY <1>1, <1>2, <2>3, ReadersFollow
<1>7. ScanTypes'
  BY <1>1, <1>4, <1>6, DeepAtMeans DEF ScannerInv, ScanTypes
<1>8. Grammar'
  BY <1>1, <1>3, <1>5 DEF ScannerInv, Grammar
<1>9. Bounds'
  BY <1>1, <1>2, <1>3, <1>5 DEF ScannerInv, Bounds
<1>10. Scanner!CounterFollowsTheParser' /\ ScanFollowsTheParser'
  <2>1. "digit" # Scanner!Quote /\ "digit" # "space"
    BY DEF Scanner!Quote
  <2> QED
    BY <1>1, <1>2, <1>5, <1>6, <2>1, ReadersStayInStep
<1>11. NamesKept' /\ RepeatsAreKnown'
  BY <1>1, <1>2, <1>5, <1>6, NamesStay, RepeatsStay
<1>12. Scanner!DepthIsLimitedAlike'
  BY <1>1, DeepAtMeans DEF Scanner!DepthIsLimitedAlike
<1> QED
  BY <1>7, <1>8, <1>9, <1>10, <1>11, <1>12 DEF ScannerInv


\* A bracket opens a container without names.
LEMMA OpenStep ==
  ASSUME ScannerInv, NEW c \in {"array", "object"}, Scanner!Open(c)
  PROVE  ScannerInv'
<1> DEFINE one == [kind |-> c, names |-> << >>]
           n   == Len(open)
<1>1. /\ expect \in {"value", "first"} /\ Scanner!Scanned(c)
      /\ tooDeep' = Scanner!DeepAt(c)
      /\ open' = Append(open, one)
      /\ expect' = IF Scanner!DeepAt(c) # {} THEN "refused"
                   ELSE IF c = "array" THEN "first" ELSE "firstName"
      /\ text' = text /\ repeated' = repeated
  BY DEF Scanner!Open, Scanner!StartsValue
<1>2. expect # "refused" /\ expect # "colon" /\ ~InWord /\ ~InEscape
  BY <1>1 DEF InWord, InEscape
<1>3. expect' = IF n < MaxDepth THEN (IF c = "array" THEN "first" ELSE "firstName") ELSE "refused"
  BY <1>1, DeepAtMeans
<1>4. /\ expect' \in {"first", "firstName", "refused"}
      /\ expect' # "refused" => n < MaxDepth
      /\ expect' = "first" => c = "array"
      /\ expect' = "firstName" => c = "object"
  BY <1>3
<1>5. ~InWord' /\ ~InEscape' /\ expect' # "colon" /\ (InNames' => expect' = "firstName")
  BY <1>4 DEF InWord, InEscape, InNames
<1>6. open \in Seq([kind : {"array", "object"}, names : Seq(Words)])
  BY DEF ScannerInv, ScanTypes
<1>7. /\ n \in Nat /\ Len(open') = n + 1 /\ open' # << >>
      /\ open'[n + 1] = one /\ \A i \in 1 .. n : open'[i] = open[i]
      /\ DOMAIN open' = 1 .. n + 1 /\ DOMAIN open = 1 .. n
      /\ open' \in Seq([kind : {"array", "object"}, names : Seq(Words)])
      /\ one.kind = c /\ one.names = << >>
  BY <1>1, <1>6
<1>8. \A i : i \in 1 .. n + 1 <=> i \in 1 .. n \/ i = n + 1
  BY <1>7
<1> HIDE DEF one, n
<1>9. /\ raw' \in RawType /\ raw'.depth = Len(open') /\ scan' \in ScanType
      /\ c = "object" => scan'.keys = Append(scan.keys, {})
      /\ c = "array" => scan'.keys = scan.keys
  <2>1. raw' \in RawType /\ raw'.depth = raw.depth + 1
    BY <1>1, <1>2, OutsideWord
  <2>2. scan.keys \in Seq(SUBSET Words) /\ raw.depth = n
    BY <1>2, ReadersFollow DEF n
  <2>3. /\ c = "object" => scan'.keys = Append(scan.keys, {})
        /\ c = "array" => scan'.keys = scan.keys
        /\ scan'.keys \in Seq(SUBSET Words) => scan' \in ScanType
    BY <1>1, <1>2, OutsideWord
  <2>4. scan'.keys \in Seq(SUBSET Words)
    BY <2>2, <2>3, SMTT(25)
  <2> QED
    BY <1>7, <2>1, <2>2, <2>3, <2>4
<1>10. ScanTypes'
  BY <1>1, <1>4, <1>7, <1>9, DeepAtMeans DEF ScannerInv, ScanTypes
<1>11. Grammar'
  <2>1. \A i \in DOMAIN open' : ~IsObject(open', i) => open'[i].names = << >>
    BY <1>7, <1>8 DEF ScannerInv, Grammar, IsObject
  <2>2. expect' = "first" => ~IsObject(open', Len(open'))
    BY <1>4, <1>7 DEF IsObject
  <2>3. expect' = "firstName" => IsObject(open', Len(open'))
    BY <1>4, <1>7 DEF IsObject
  <2> QED
    BY <1>4, <1>5, <1>7, <2>1, <2>2, <2>3 DEF Grammar
<1>12. Bounds'
  <2>1. MaxNames \in Nat /\ MaxDepth \in Nat
    BY ScannerAssumption
  <2>2. \A i \in DOMAIN open' : Len(open'[i].names) <= MaxNames
    BY <1>7, <1>8, <2>1 DEF ScannerInv, Bounds
  <2>3. expect' = "firstName" => Top'.names = << >>
    BY <1>7 DEF Top
  <2>4. Len(open') <= MaxDepth + 1 /\ (expect' # "refused" => Len(open') <= MaxDepth)
    BY <1>2, <1>4, <1>7, <2>1 DEF ScannerInv, Bounds, n
  <2>5. Len(text') <= MaxLetters
    BY <1>1 DEF ScannerInv, Bounds
  <2> QED
    BY <1>4, <1>5, <2>2, <2>3, <2>4, <2>5 DEF Bounds
<1>13. Scanner!CounterFollowsTheParser' /\ ScanFollowsTheParser'
  <2>1. c # Scanner!Quote /\ c # "space"
    BY DEF Scanner!Quote
  <2> QED
    BY <1>1, <1>2, <1>5, <1>9, <2>1, ReadersStayInStep
<1>14. NamesKept'
  <2>1. /\ Len(scan.keys) = Level(open, n)
        /\ \A i \in 1 .. n : IsObject(open, i) =>
             scan.keys[Level(open, i)] = Scanner!Range(open[i].names)
    BY <1>2, <1>7 DEF ScannerInv, NamesKept, Written, n
  <2>2. scan.keys \in Seq(SUBSET Words)
    BY <1>2, ReadersFollow
  <2>3. /\ Level(open', n) = Level(open, n) /\ Level(open, n) \in Nat
        /\ \A i \in 1 .. n : Level(open', i) = Level(open, i)
    <3>1. \A m \in 0 .. n : Level(open', m) = Level(open, m) /\ Level(open, m) \in Nat
      BY <1>7, LevelsSame
    <3> QED
      BY <1>7, <3>1
  <2>4. Level(open', n + 1) = Level(open, n) + (IF IsObject(open', n + 1) THEN 1 ELSE 0)
    BY <1>7, <2>3, LevelStep
  <2>5. IsObject(open', n + 1) <=> c = "object"
    BY <1>7 DEF IsObject
  <2>6. \A i \in 1 .. n : IsObject(open, i) => Level(open, i) \in 1 .. Level(open, n)
    BY <1>7, LevelGrows
  <2>7. Len(scan'.keys) = Level(open', n + 1)
    BY <1>9, <2>1, <2>2, <2>3, <2>4, <2>5
  <2>8. ASSUME NEW i \in 1 .. n + 1, IsObject(open', i)
        PROVE  scan'.keys[Level(open', i)] = Scanner!Range(open'[i].names)
    <3>1. CASE i \in 1 .. n
      <4>1. IsObject(open, i)
        BY <1>7, <2>8, <3>1 DEF IsObject
      <4>2. scan'.keys[Level(open, i)] = scan.keys[Level(open, i)]
        BY <1>9, <2>1, <2>2, <2>6, <3>1, <4>1
      <4> QED
        BY <1>7, <2>1, <2>3, <3>1, <4>1, <4>2
    <3>2. CASE i = n + 1
      <4>1. Scanner!Range(<< >>) = {}
        BY DEF Scanner!Range
      <4>2. scan'.keys[Level(open', n + 1)] = {}
        BY <1>9, <2>1, <2>2, <2>3, <2>4, <2>5, <2>8, <3>2
      <4> QED
        BY <1>7, <3>2, <4>1, <4>2
    <3> QED
      BY <1>8, <2>8, <3>1, <3>2
  <2> QED
    BY <1>5, <1>7, <2>7, <2>8 DEF NamesKept, Written
<1>15. RepeatsAreKnown'
  <2>1. \A i \in 1 .. n : Scanner!Unique(open'[i].names) <=> Scanner!Unique(open[i].names)
    BY <1>7
  <2>2. Scanner!Unique(open'[n + 1].names)
    BY <1>7 DEF Scanner!Unique
  <2>3. (\E i \in DOMAIN open' : ~Scanner!Unique(open'[i].names))
          <=> (\E i \in DOMAIN open : ~Scanner!Unique(open[i].names))
    BY <1>7, <1>8, <2>1, <2>2
  <2> QED
    BY <1>1, <1>2, <2>3 DEF ScannerInv, RepeatsAreKnown, Repeats
<1>16. Scanner!DepthIsLimitedAlike'
  BY <1>1, DeepAtMeans DEF Scanner!DepthIsLimitedAlike
<1> QED
  BY <1>10, <1>11, <1>12, <1>13, <1>14, <1>15, <1>16 DEF ScannerInv


\* A bracket closes the innermost container.
LEMMA CloseStep ==
  ASSUME ScannerInv, Scanner!Close
  PROVE  ScannerInv'
<1> DEFINE n == Len(open)
           c == IF IsObject(open, n) THEN "endObject" ELSE "endArray"
<1>1. /\ expect \in {"first", "firstName", "separator"}
      /\ open' = Scanner!Front(open)
      /\ expect' = IF open' = << >> THEN "end" ELSE "separator"
      /\ text' = text /\ tooDeep' = tooDeep
  BY DEF Scanner!Close, Scanner!AfterValue
<1>2. expect # "refused" /\ expect # "colon" /\ ~InWord /\ ~InEscape
  BY <1>1 DEF InWord, InEscape
<1>3. open \in Seq([kind : {"array", "object"}, names : Seq(Words)])
  BY DEF ScannerInv, ScanTypes
<1>4. open # << >>
  BY <1>1 DEF ScannerInv, Grammar, InNames
<1>5. /\ n \in Nat /\ n > 0 /\ n \in DOMAIN open /\ DOMAIN open = 1 .. n
      /\ open' \in Seq([kind : {"array", "object"}, names : Seq(Words)])
      /\ Len(open') = n - 1 /\ DOMAIN open' = 1 .. n - 1
      /\ \A i \in 1 .. n - 1 : open'[i] = open[i] /\ i \in 1 .. n /\ i # n
      /\ Scanner!Last(open) = open[n]
      /\ open[n].kind \in {"array", "object"}
  <2>1. /\ n \in Nat /\ n > 0 /\ n \in DOMAIN open
        /\ open' \in Seq([kind : {"array", "object"}, names : Seq(Words)])
        /\ Len(open') = n - 1
        /\ \A i \in 1 .. n - 1 : open'[i] = open[i]
        /\ Scanner!Last(open) = open[n]
    <3> DEFINE Containers == [kind : {"array", "object"}, names : Seq(Words)]
    <3>1. open \in Seq(Containers)
      BY <1>3
    <3> HIDE DEF Containers
    <3>2. /\ n \in Nat /\ n > 0 /\ n \in DOMAIN open
          /\ Scanner!Front(open) \in Seq(Containers) /\ Len(Scanner!Front(open)) = n - 1
          /\ \A i \in 1 .. n - 1 : Scanner!Front(open)[i] = open[i]
          /\ Scanner!Last(open) = open[n]
      BY <1>4, <3>1, FrontFacts
    <3> QED
      BY <1>1, <3>2 DEF Containers
  <2>2. DOMAIN open = 1 .. n
    BY <1>3
  <2> HIDE DEF n
  <2>3. DOMAIN open' = 1 .. n - 1
    BY <2>1
  <2>4. \A i \in 1 .. n - 1 : i \in 1 .. n /\ i # n
    BY <2>1
  <2>5. open[n].kind \in {"array", "object"}
    <3> DEFINE Containers == [kind : {"array", "object"}, names : Seq(Words)]
    <3>1. open \in Seq(Containers)
      BY <1>3
    <3> HIDE DEF Containers
    <3>2. open[n] \in Containers
      BY <2>1, <3>1
    <3> QED
      BY <3>2 DEF Containers
  <2> QED
    BY <2>1, <2>2, <2>3, <2>4, <2>5
<1> HIDE DEF n
<1>6. \A i : i \in 1 .. n <=> i \in 1 .. n - 1 \/ i = n
  <2>1. n \in Nat /\ n > 0
    BY <1>5
  <2> QED
    BY <2>1
<1>7. /\ Scanner!Scanned(c)
      /\ repeated' = IF Scanner!Unique(open[n].names) THEN repeated ELSE repeated \cup {"python"}
  BY <1>5 DEF Scanner!Close, IsObject
<1>8. /\ c \in {"endArray", "endObject"} /\ c # Scanner!Quote
      /\ c = "endObject" <=> IsObject(open, n)
  BY DEF Scanner!Quote
<1> HIDE DEF c
<1>9. ~InWord' /\ ~InEscape' /\ expect' \notin {"colon", "refused", "first"} /\ ~InNames'
  BY <1>1 DEF InWord, InEscape, InNames
<1>10. /\ Len(scan.keys) = Level(open, n)
       /\ \A i \in 1 .. n : IsObject(open, i) =>
            scan.keys[Level(open, i)] = Scanner!Range(open[i].names)
  BY <1>2, <1>5 DEF ScannerInv, NamesKept, Written, n
<1>11. /\ Level(open, n - 1) \in Nat /\ n - 1 \in Nat
       /\ Level(open, n) = Level(open, n - 1) + (IF IsObject(open, n) THEN 1 ELSE 0)
  <2>1. n - 1 \in Nat /\ (n - 1) + 1 = n
    BY <1>5
  <2> QED
    BY <2>1, LevelStep, LevelType
<1>12. scan.keys \in Seq(SUBSET Words) /\ raw.depth = n
  BY <1>2, ReadersFollow DEF n
<1>13. /\ scan'.keys \in Seq(SUBSET Words) /\ Len(scan'.keys) = Level(open, n - 1)
       /\ \A i \in 1 .. Level(open, n - 1) : scan'.keys[i] = scan.keys[i]
  <2>1. /\ c = "endObject" => scan'.keys = Scanner!Front(scan.keys)
        /\ c # "endObject" => scan'.keys = scan.keys
    BY <1>2, <1>7, <1>8, OutsideWord
  <2>2. CASE IsObject(open, n)
    <3>1. Len(scan.keys) = Level(open, n - 1) + 1 /\ scan.keys # << >>
      BY <1>10, <1>11, <2>2
    <3> QED
      <4> PICK keys \in Seq(SUBSET Words) : keys = scan.keys
        BY <1>12
      <4>1. /\ Scanner!Front(keys) \in Seq(SUBSET Words) /\ Len(Scanner!Front(keys)) = Len(keys) - 1
            /\ \A i \in 1 .. Len(keys) - 1 : Scanner!Front(keys)[i] = keys[i]
        BY <3>1, FrontFacts
      <4>2. scan'.keys = Scanner!Front(keys) /\ Len(keys) - 1 = Level(open, n - 1)
        BY <1>8, <1>11, <2>1, <2>2, <3>1
      <4> QED
        BY <4>1, <4>2
  <2>3. CASE ~IsObject(open, n)
    BY <1>8, <1>10, <1>11, <1>12, <2>1, <2>3
  <2> QED
    BY <2>2, <2>3
<1>14. raw' \in RawType /\ raw'.depth = Len(open') /\ scan' \in ScanType
  <2>1. raw' \in RawType /\ raw'.depth = raw.depth - 1
    BY <1>2, <1>7, <1>8, OutsideWord
  <2>2. scan'.keys \in Seq(SUBSET Words) => scan' \in ScanType
    BY <1>2, <1>7, <1>8, OutsideWord
  <2> QED
    BY <1>5, <1>12, <1>13, <2>1, <2>2
<1>15. ScanTypes'
  <2>1. repeated' \subseteq Scanner!Readers
    BY <1>7 DEF ScannerInv, ScanTypes, Scanner!Readers
  <2> QED
    BY <1>1, <1>5, <1>14, <2>1 DEF ScannerInv, ScanTypes
<1>16. Grammar'
  <2>1. \A i \in DOMAIN open' : ~IsObject(open', i) => open'[i].names = << >>
    BY <1>5 DEF ScannerInv, Grammar, IsObject
  <2> QED
    BY <1>1, <1>9, <2>1 DEF Grammar
<1>17. Bounds'
  <2>1. MaxDepth \in Nat
    BY ScannerAssumption
  <2>2. \A i \in DOMAIN open' : Len(open'[i].names) <= MaxNames
    BY <1>5 DEF ScannerInv, Bounds
  <2>3. Len(open') <= MaxDepth
    <3>1. n <= MaxDepth
      BY <1>2 DEF ScannerInv, Bounds, n
    <3>2. n \in Nat /\ Len(open') = n - 1
      BY <1>5
    <3> QED
      BY <2>1, <3>1, <3>2
  <2>4. expect' \notin {"firstName", "name", "nameString", "nameEscape", "colon"}
    BY <1>1
  <2> QED
    BY <1>1, <1>5, <1>9, <2>1, <2>2, <2>3, <2>4 DEF ScannerInv, Bounds
<1>18. Scanner!CounterFollowsTheParser' /\ ScanFollowsTheParser'
  BY <1>1, <1>2, <1>7, <1>8, <1>9, <1>14, ReadersStayInStep
<1>19. NamesKept'
  <2>1. \A m \in 0 .. n - 1 : Level(open', m) = Level(open, m) /\ Level(open, m) \in Nat
    <3> PICK k \in Nat : k = n - 1
      BY <1>11
    <3>1. \A i \in 1 .. k : open'[i] = open[i]
      BY <1>5
    <3> QED
      BY <3>1, LevelsSame
  <2>2. Len(scan'.keys) = Level(open', n - 1)
    BY <1>11, <1>13, <2>1
  <2>3. ASSUME NEW i \in 1 .. n - 1, IsObject(open', i)
        PROVE  scan'.keys[Level(open', i)] = Scanner!Range(open'[i].names)
    <3>1. IsObject(open, i) /\ Level(open', i) = Level(open, i)
      BY <1>5, <2>1, <2>3 DEF IsObject
    <3>2. Level(open, i) \in 1 .. Level(open, n - 1)
      BY <1>11, <3>1, LevelGrows
    <3> QED
      BY <1>5, <1>10, <1>13, <3>1, <3>2
  <2> QED
    BY <1>5, <1>9, <2>2, <2>3 DEF NamesKept, Written
<1>20. RepeatsAreKnown'
  <2>1. \A i \in 1 .. n - 1 : Scanner!Unique(open'[i].names) <=> Scanner!Unique(open[i].names)
    BY <1>5
  <2>2. (\E i \in DOMAIN open : ~Scanner!Unique(open[i].names))
          <=> \/ \E i \in DOMAIN open' : ~Scanner!Unique(open'[i].names)
              \/ ~Scanner!Unique(open[n].names)
    BY <1>5, <1>6, <2>1
  <2> QED
    BY <1>2, <1>7, <1>9, <2>2 DEF ScannerInv, RepeatsAreKnown, Repeats
<1>21. Scanner!DepthIsLimitedAlike'
  BY <1>1 DEF ScannerInv, Scanner!DepthIsLimitedAlike
<1> QED
  BY <1>15, <1>16, <1>17, <1>18, <1>19, <1>20, <1>21 DEF ScannerInv


\* Another value, or another name.
LEMMA CommaStep ==
  ASSUME ScannerInv, Scanner!Comma
  PROVE  ScannerInv'
<1>1. /\ expect = "separator" /\ Scanner!Scanned("comma")
      /\ open' = open /\ text' = text /\ tooDeep' = tooDeep /\ repeated' = repeated
  BY DEF Scanner!Comma
<1>2. expect # "refused" /\ expect # "colon" /\ ~InWord
  BY <1>1 DEF InWord
<1>3. /\ open # << >> /\ Scanner!Last(open) = Top
      /\ Top.kind \in {"array", "object"}
      /\ (Top.kind = "array" <=> ~IsObject(open, Len(open)))
  <2> DEFINE Containers == [kind : {"array", "object"}, names : Seq(Words)]
  <2>1. open # << >>
    BY <1>1 DEF ScannerInv, Grammar
  <2>2. open \in Seq(Containers)
    BY DEF ScannerInv, ScanTypes
  <2> HIDE DEF Containers
  <2>3. Scanner!Last(open) = Top /\ Top \in Containers
    BY <2>1, <2>2, FrontFacts DEF Top
  <2> USE DEF Containers
  <2>4. Top.kind \in {"array", "object"}
    BY <2>3
  <2> QED
    BY <2>1, <2>3, <2>4 DEF IsObject, Top
<1>4. /\ expect' \in {"value", "name"}
      /\ expect' = "name" => IsObject(open, Len(open)) /\ Len(Top.names) < MaxNames
  BY <1>3 DEF Scanner!Comma
<1>5. ~InWord' /\ ~InEscape' /\ expect' # "colon" /\ (InNames' => expect' = "name")
  BY <1>4 DEF InWord, InEscape, InNames
<1>6. raw' \in RawType /\ raw'.depth = Len(open') /\ scan'.keys = scan.keys /\ scan' \in ScanType
  <2> PICK c : c = "comma"
    OBVIOUS
  <2>1. /\ c \notin {"space", "array", "object", "endArray", "endObject", "colon"}
        /\ Scanner!Scanned(c)
    BY <1>1
  <2>2. /\ raw' \in RawType /\ raw'.depth = raw.depth
        /\ scan'.keys = scan.keys /\ scan' \in ScanType
    BY <1>2, <2>1, OutsideWord
  <2> QED
    BY <1>1, <1>2, <2>2, ReadersFollow
<1>7. ScanTypes'
  BY <1>1, <1>4, <1>6 DEF ScannerInv, ScanTypes
<1>8. Grammar'
  BY <1>1, <1>3, <1>4, <1>5 DEF ScannerInv, Grammar
<1>9. Bounds'
  BY <1>1, <1>2, <1>4, <1>5 DEF ScannerInv, Bounds, Top
<1>10. Scanner!CounterFollowsTheParser' /\ ScanFollowsTheParser'
  <2>1. "comma" # Scanner!Quote /\ "comma" # "space"
    BY DEF Scanner!Quote
  <2> QED
    BY <1>1, <1>2, <1>5, <1>6, <2>1, ReadersStayInStep
<1>11. NamesKept' /\ RepeatsAreKnown'
  BY <1>1, <1>2, <1>5, <1>6, NamesStay, RepeatsStay
<1>12. Scanner!DepthIsLimitedAlike'
  BY <1>1 DEF ScannerInv, Scanner!DepthIsLimitedAlike
<1> QED
  BY <1>7, <1>8, <1>9, <1>10, <1>11, <1>12 DEF ScannerInv

\* Space, which no reader minds.
LEMMA SpaceStep ==
  ASSUME ScannerInv, Scanner!Space
  PROVE  ScannerInv'
<1>1. /\ expect # "refused" /\ ~InWord /\ Scanner!Scanned("space")
      /\ open' = open /\ expect' = expect /\ text' = text
      /\ tooDeep' = tooDeep /\ repeated' = repeated
  BY DEF Scanner!Space, InWord
<1>2. raw' = raw
  <2>1. "space" \notin {Scanner!Quote, "array", "object", "endArray", "endObject"}
    BY DEF Scanner!Quote
  <2>2. raw.inString = FALSE
    BY <1>1, ReadersFollow
  <2> QED
    BY <1>1, <2>1, <2>2 DEF Scanner!Scanned, Scanner!RawScan
<1>3. scan' = scan
  <2>1. scan.inString = FALSE
    BY <1>1, ReadersFollow
  <2> QED
    BY <1>1, <2>1 DEF Scanner!Scanned, Scanner!NameScan
<1> QED
  BY <1>1, <1>2, <1>3
  DEF ScannerInv, ScanTypes, Grammar, Bounds, Scanner!CounterFollowsTheParser,
      ScanFollowsTheParser, NamesKept, RepeatsAreKnown, Scanner!DepthIsLimitedAlike,
      InWord, InEscape, InNames, Top, Written, Repeats, LastRepeats

\* A string begins, a value or a name.
LEMMA StringBeginsStep ==
  ASSUME ScannerInv, Scanner!StringBegins
  PROVE  ScannerInv'
<1> DEFINE c == Scanner!Quote
<1>1. /\ Scanner!Scanned(c) /\ open' = open /\ text' = text /\ repeated' = repeated
      /\ \/ /\ expect \in {"value", "first"} /\ tooDeep' = Scanner!DeepAt(c)
            /\ expect' = IF Scanner!DeepAt(c) = {} THEN "string" ELSE "refused"
         \/ expect \in {"name", "firstName"} /\ expect' = "nameString" /\ tooDeep' = tooDeep
  BY DEF Scanner!StringBegins, Scanner!StartsValue
<1>2. expect \in {"value", "first", "name", "firstName"} /\ expect' \in {"string", "nameString", "refused"}
  BY <1>1
<1>3. expect # "refused" /\ expect # "colon" /\ ~InWord
  BY <1>2 DEF InWord
<1>4. /\ ~InEscape' /\ expect' # "colon" /\ (expect' # "refused" => InWord')
      /\ InNames' => expect' = "nameString"
  BY <1>2 DEF InWord, InEscape, InNames
<1>5. expect' = "nameString" => InNames /\ expect \in {"name", "firstName"}
  BY <1>1 DEF InNames
<1>6. c \notin {"space", "array", "object", "endArray", "endObject", "colon"}
  BY DEF Scanner!Quote
<1> HIDE DEF c
<1>7. raw' \in RawType /\ raw'.depth = Len(open') /\ scan'.keys = scan.keys /\ scan' \in ScanType
  <2>1. /\ raw' \in RawType /\ raw'.depth = raw.depth
        /\ scan'.keys = scan.keys /\ scan' \in ScanType
    BY <1>1, <1>3, <1>6, OutsideWord
  <2> QED
    BY <1>1, <1>3, <2>1, ReadersFollow
<1>8. ScanTypes'
  <2>1. tooDeep' \subseteq {"raw", "tree", "browser"}
    BY <1>1, DeepAtMeans DEF ScannerInv, ScanTypes
  <2> QED
    BY <1>1, <1>2, <1>7, <2>1 DEF ScannerInv, ScanTypes
<1>9. Grammar'
  BY <1>1, <1>2, <1>4, <1>5 DEF ScannerInv, Grammar
<1>10. Bounds'
  <2>1. expect' = "nameString" => Len(Top.names) < MaxNames
    <3>1. Len(<< >>) = 0 /\ MaxNames \in Nat /\ MaxNames # 0
      BY ScannerAssumption
    <3> QED
      BY <1>5, <3>1 DEF ScannerInv, Bounds
  <2> QED
    BY <1>1, <1>2, <1>3, <1>4, <2>1 DEF ScannerInv, Bounds, Top
<1>11. Scanner!CounterFollowsTheParser' /\ ScanFollowsTheParser'
  <2>1. c = Scanner!Quote
    BY DEF c
  <2> QED
    BY <1>1, <1>3, <1>4, <1>6, <1>7, <2>1, ReadersStayInStep
<1>12. NamesKept' /\ RepeatsAreKnown'
  BY <1>1, <1>3, <1>4, <1>7, NamesStay, RepeatsStay
<1>13. Scanner!DepthIsLimitedAlike'
  BY <1>1, DeepAtMeans DEF ScannerInv, Scanner!DepthIsLimitedAlike
<1> QED
  BY <1>8, <1>9, <1>10, <1>11, <1>12, <1>13 DEF ScannerInv


\* A character of a string.
LEMMA WordStep ==
  ASSUME ScannerInv, InWord, NEW c \in Chars, InEscape \/ c # Scanner!Quote, Scanner!Scanned(c),
         open' = open, tooDeep' = tooDeep, repeated' = repeated,
         expect' \in {"string", "nameString", "stringEscape", "nameEscape"},
         expect' \in {"nameString", "nameEscape"} <=> expect \in {"nameString", "nameEscape"},
         InEscape' <=> ~InEscape /\ c = Scanner!Backslash,
         text' \in Words, Len(text') <= MaxLetters, InEscape' => Len(text') < MaxLetters,
         text' = IF InEscape THEN Append(text, Scanner!Unescaped(c))
                 ELSE IF c = Scanner!Backslash THEN text
                 ELSE Append(text, c)
  PROVE  ScannerInv'
<1>1. expect # "refused" /\ expect # "colon"
  BY DEF InWord
<1>2. /\ InWord' /\ expect' \notin {"refused", "colon", "first", "separator", "end", "firstName", "name"}
      /\ InWord' = TRUE
  BY DEF InWord
<1>3. /\ raw' \in RawType /\ raw'.depth = raw.depth /\ raw'.inString = TRUE
      /\ scan' \in ScanType /\ scan'.inString = TRUE /\ scan'.keys = scan.keys
  BY <1>1, WithinWord
<1>4. /\ InEscape' => /\ raw'.escaped = TRUE /\ scan'.escaped = TRUE
                      /\ Scanner!ReadToken(scan'.token) = [text |-> text', escaped |-> TRUE]
      /\ ~InEscape' => /\ raw'.escaped = FALSE /\ scan'.escaped = FALSE
                       /\ Scanner!ReadToken(scan'.token) = [text |-> text', escaped |-> FALSE]
  BY <1>1, WithinWord
<1>5. raw'.depth = Len(open')
  BY <1>1, <1>3, ReadersFollow
<1>6. ScanTypes'
  BY <1>3 DEF ScannerInv, ScanTypes
<1>7. Grammar'
  <2>1. InNames' => InNames
    BY <1>2 DEF InNames
  <2> QED
    BY <1>2, <2>1 DEF ScannerInv, Grammar
<1>8. Bounds'
  BY <1>1, <1>2 DEF ScannerInv, Bounds, Top
<1>9. Scanner!CounterFollowsTheParser'
  BY <1>3, <1>4, <1>5 DEF Scanner!CounterFollowsTheParser, InEscape
<1>10. ScanFollowsTheParser'
  <2>1. /\ InEscape' => InEscape' = TRUE
        /\ ~InEscape' => InEscape' = FALSE
    BY DEF InEscape
  <2>2. scan'.inString = InWord'
    BY <1>2, <1>3
  <2>3. scan'.escaped = InEscape'
    BY <1>4, <2>1
  <2>4. Scanner!ReadToken(scan'.token) = [text |-> text', escaped |-> InEscape']
    <3>1. CASE InEscape'
      BY <1>4, <2>1, <3>1
    <3>2. CASE ~InEscape'
      BY <1>4, <2>1, <3>2
    <3> QED
      BY <3>1, <3>2
  <2>5. expect' # "colon"
    BY <1>2
  <2> QED
    BY Zenon, <1>2, <2>2, <2>3, <2>4, <2>5 DEF ScanFollowsTheParser
<1>11. NamesKept' /\ RepeatsAreKnown'
  BY <1>1, <1>2, <1>3, NamesStay, RepeatsStay
<1>12. Scanner!DepthIsLimitedAlike'
  BY DEF ScannerInv, Scanner!DepthIsLimitedAlike
<1> QED
  BY <1>6, <1>7, <1>8, <1>9, <1>10, <1>11, <1>12 DEF ScannerInv

LEMMA LetterStep ==
  ASSUME ScannerInv, NEW c \in Scanner!Letters, Scanner!Letter(c)
  PROVE  ScannerInv'
<1>1. /\ expect \in {"string", "nameString"} /\ Len(text) < MaxLetters
      /\ text' = Append(text, c) /\ Scanner!Scanned(c)
      /\ open' = open /\ expect' = expect /\ tooDeep' = tooDeep /\ repeated' = repeated
  BY DEF Scanner!Letter
<1>2. InWord /\ ~InEscape /\ ~InEscape'
  BY <1>1 DEF InWord, InEscape
<1>3. c \in Chars /\ c # Scanner!Quote /\ c # Scanner!Backslash
  BY DEF Chars, Scanner!Letters, Scanner!Quote, Scanner!Backslash
<1>4. text' \in Words /\ Len(text') <= MaxLetters
  <2>1. text \in Seq(Chars) /\ MaxLetters \in Nat
    BY ScannerAssumption DEF ScannerInv, ScanTypes, Words
  <2> QED
    BY <1>1, <1>3, <2>1 DEF Words
<1> QED
  BY <1>1, <1>2, <1>3, <1>4, WordStep

LEMMA EscapeBeginsStep ==
  ASSUME ScannerInv, Scanner!EscapeBegins
  PROVE  ScannerInv'
<1>1. /\ expect \in {"string", "nameString"} /\ Len(text) < MaxLetters
      /\ text' = text /\ Scanner!Scanned(Scanner!Backslash)
      /\ open' = open /\ tooDeep' = tooDeep /\ repeated' = repeated
      /\ expect' = IF expect = "string" THEN "stringEscape" ELSE "nameEscape"
  BY DEF Scanner!EscapeBegins
<1>2. InWord /\ ~InEscape /\ InEscape' /\ text' \in Words
  BY <1>1 DEF InWord, InEscape, ScannerInv, ScanTypes
<1>3. Scanner!Backslash \in Chars /\ Scanner!Backslash # Scanner!Quote
  BY DEF Chars, Scanner!Escapes, Scanner!Quote, Scanner!Backslash
<1>4. Len(text) <= MaxLetters
  BY DEF ScannerInv, Bounds
<1> QED
  BY <1>1, <1>2, <1>3, <1>4, WordStep

LEMMA EscapeEndsStep ==
  ASSUME ScannerInv, NEW c \in Scanner!Escapes, Scanner!EscapeEnds(c)
  PROVE  ScannerInv'
<1>1. /\ expect \in {"stringEscape", "nameEscape"}
      /\ text' = Append(text, Scanner!Unescaped(c)) /\ Scanner!Scanned(c)
      /\ open' = open /\ tooDeep' = tooDeep /\ repeated' = repeated
      /\ expect' = IF expect = "stringEscape" THEN "string" ELSE "nameString"
  BY DEF Scanner!EscapeEnds
<1>2. InWord /\ InEscape /\ ~InEscape'
  BY <1>1 DEF InWord, InEscape
<1>3. c \in Chars /\ Scanner!Unescaped(c) \in Chars
  BY DEF Chars, Scanner!Letters, Scanner!Escapes, Scanner!Unescaped
<1>4. text' \in Words /\ Len(text') <= MaxLetters
  <2>1. text \in Seq(Chars) /\ MaxLetters \in Nat
    BY ScannerAssumption DEF ScannerInv, ScanTypes, Words
  <2>2. Len(text) < MaxLetters
    BY <1>2 DEF ScannerInv, Bounds
  <2> QED
    BY <1>1, <1>3, <2>1, <2>2 DEF Words
<1> QED
  BY <1>1, <1>2, <1>3, <1>4, WordStep


\* What the end of a string leaves to be shown.
LEMMA AfterWord ==
  ASSUME ScannerInv, InWord, ~InEscape, Scanner!Scanned(Scanner!Quote),
         text' = << >>, expect' \in {"end", "separator", "colon"}, Len(open') = Len(open),
         expect' = "colon" => Top'.names[Len(Top'.names)] = text
  PROVE  /\ raw' \in RawType /\ scan' \in ScanType /\ scan'.keys = scan.keys
         /\ Scanner!CounterFollowsTheParser' /\ ScanFollowsTheParser'
<1>1. expect # "refused"
  BY DEF InWord
<1>2. /\ raw' \in RawType /\ raw'.depth = raw.depth
      /\ raw'.inString = FALSE /\ raw'.escaped = FALSE
      /\ scan' \in ScanType /\ scan'.inString = FALSE /\ scan'.escaped = FALSE
      /\ scan'.keys = scan.keys /\ scan'.token = << >> /\ scan'.whole = {text}
  BY <1>1, EndOfWord
<1>3. InWord' = FALSE /\ InEscape' = FALSE
  BY DEF InWord, InEscape
<1>4. raw'.depth = Len(open')
  BY <1>1, <1>2, ReadersFollow
<1>5. Scanner!CounterFollowsTheParser'
  BY <1>2, <1>3, <1>4 DEF Scanner!CounterFollowsTheParser, InWord, InEscape
<1>6. /\ scan'.inString = InWord' /\ scan'.escaped = InEscape' /\ ~InWord'
      /\ scan'.token = << >> /\ text' = << >>
      /\ expect' = "colon" => scan'.whole = {Top'.names[Len(Top'.names)]}
  BY <1>2, <1>3
<1>7. ScanFollowsTheParser'
  BY Zenon, <1>6 DEF ScanFollowsTheParser
<1> QED
  BY <1>2, <1>5, <1>7

LEMMA ValueEndsStep ==
  ASSUME ScannerInv, Scanner!StringEnds, expect = "string"
  PROVE  ScannerInv'
<1>1. /\ expect' = (IF open = << >> THEN "end" ELSE "separator")
      /\ Scanner!Scanned(Scanner!Quote) /\ text' = << >>
      /\ open' = open /\ tooDeep' = tooDeep /\ repeated' = repeated
  BY DEF Scanner!StringEnds, Scanner!AfterValue
<1>2. /\ InWord /\ ~InEscape /\ ~InNames' /\ ~InEscape'
      /\ expect' \notin {"refused", "colon", "first", "firstName", "name", "nameString", "nameEscape"}
      /\ expect' \in {"end", "separator"}
  BY <1>1 DEF InWord, InEscape, InNames
<1>3. /\ raw' \in RawType /\ scan' \in ScanType /\ scan'.keys = scan.keys
      /\ Scanner!CounterFollowsTheParser' /\ ScanFollowsTheParser'
  BY <1>1, <1>2, AfterWord
<1>4. ScanTypes'
  <2>1. << >> \in Words
    BY DEF Words
  <2> QED
    BY <1>1, <1>2, <1>3, <2>1 DEF ScannerInv, ScanTypes
<1>5. Grammar'
  BY <1>1, <1>2 DEF ScannerInv, Grammar
<1>6. Bounds'
  <2>1. Len(<< >>) <= MaxLetters
    BY ScannerAssumption
  <2> QED
    BY <1>1, <1>2, <2>1 DEF ScannerInv, Bounds
<1>7. NamesKept' /\ RepeatsAreKnown'
  BY <1>1, <1>2, <1>3, NamesStay, RepeatsStay
<1>8. Scanner!DepthIsLimitedAlike'
  BY <1>1 DEF ScannerInv, Scanner!DepthIsLimitedAlike
<1> QED
  BY <1>3, <1>4, <1>5, <1>6, <1>7, <1>8 DEF ScannerInv

\* The innermost object has one more name.
LEMMA NameEndsStep ==
  ASSUME ScannerInv, Scanner!StringEnds, expect = "nameString"
  PROVE  ScannerInv'
<1> DEFINE n == Len(open)
           Containers == [kind : {"array", "object"}, names : Seq(Words)]
           named == [open[n] EXCEPT !.names = Append(open[n].names, text)]
<1>1. /\ expect' = "colon" /\ Scanner!Scanned(Scanner!Quote) /\ text' = << >>
      /\ open' = [open EXCEPT ![n] = named] /\ tooDeep' = tooDeep
      /\ repeated' = IF text \in Scanner!Range(Scanner!Last(open).names)
                     THEN repeated \cup {"browser"} ELSE repeated
  BY DEF Scanner!StringEnds
<1>2. /\ InWord /\ ~InEscape /\ InNames /\ ~InEscape' /\ ~InWord'
  BY <1>1 DEF InWord, InEscape, InNames
<1>3. open \in Seq(Containers) /\ text \in Words
  BY DEF ScannerInv, ScanTypes
<1>4. open # << >> /\ IsObject(open, n)
  BY <1>2 DEF ScannerInv, Grammar
<1> HIDE DEF Containers, named
<1>5. /\ n \in Nat /\ n > 0 /\ n \in DOMAIN open /\ DOMAIN open = 1 .. n
      /\ open[n] \in Containers /\ Scanner!Last(open) = open[n]
  <2>1. /\ n \in Nat /\ n > 0 /\ n \in DOMAIN open
        /\ Scanner!Last(open) = open[n] /\ Scanner!Last(open) \in Containers
    BY <1>3, <1>4, FrontFacts
  <2>2. DOMAIN open = 1 .. n
    BY <1>3
  <2> QED
    BY <2>1, <2>2
<1>6. open[n].names \in Seq(Words) /\ open[n].kind = "object"
  BY <1>4, <1>5 DEF Containers, IsObject
<1>7. named \in Containers /\ named.kind = "object" /\ named.names = Append(open[n].names, text)
  <2>1. Append(open[n].names, text) \in Seq(Words)
    BY <1>3, <1>6, RangeAppend
  <2>2. open[n] \in [kind : {"array", "object"}, names : Seq(Words)]
    BY <1>5 DEF Containers
  <2> PICK container \in [kind : {"array", "object"}, names : Seq(Words)], longer \in Seq(Words) :
        container = open[n] /\ longer = Append(open[n].names, text)
    BY <2>1, <2>2
  <2>3. named = [container EXCEPT !.names = longer]
    BY DEF named
  <2>4. named \in [kind : {"array", "object"}, names : Seq(Words)]
        /\ named.kind = container.kind /\ named.names = longer
    BY <2>3
  <2> QED
    BY <1>6, <2>4 DEF Containers
<1>8. /\ open' \in Seq(Containers) /\ Len(open') = n /\ DOMAIN open' = 1 .. n
      /\ open'[n] = named /\ \A i \in 1 .. n : i # n => open'[i] = open[i]
  <2>1. Len(open) = n
    OBVIOUS
  <2>2. open' = [open EXCEPT ![n] = named]
    BY <1>1
  <2> HIDE DEF n
  <2> QED
    BY <1>3, <1>5, <1>7, <2>1, <2>2
<1> HIDE DEF n
<1>9. /\ Top' = named /\ Top = open[n] /\ Len(open) = n
  BY <1>8 DEF Top, n
<1>10. /\ Append(open[n].names, text) \in Seq(Words)
       /\ Len(named.names) = Len(open[n].names) + 1
       /\ named.names[Len(named.names)] = text /\ named.names # << >>
       /\ Scanner!Front(named.names) = open[n].names
  <2>1. Scanner!Front(named.names) = open[n].names
    BY <1>3, <1>6, <1>7, RangeAppend
  <2> QED
    BY <1>3, <1>6, <1>7, <2>1
<1>11. /\ raw' \in RawType /\ scan' \in ScanType /\ scan'.keys = scan.keys
       /\ Scanner!CounterFollowsTheParser' /\ ScanFollowsTheParser'
  BY <1>1, <1>2, <1>8, <1>9, <1>10, AfterWord
<1>12. ScanTypes'
  <2>1. << >> \in Words
    BY DEF Words
  <2>2. repeated' \subseteq Scanner!Readers
    BY <1>1 DEF ScannerInv, ScanTypes, Scanner!Readers
  <2>3. open' \in Seq([kind : {"array", "object"}, names : Seq(Words)])
    BY <1>8 DEF Containers
  <2> QED
    BY <1>1, <1>11, <2>1, <2>2, <2>3 DEF ScannerInv, ScanTypes
<1>13. Grammar'
  <2>1. \A i \in DOMAIN open' : ~IsObject(open', i) => open'[i].names = << >>
    BY <1>5, <1>7, <1>8 DEF ScannerInv, Grammar, IsObject
  <2>2. open' # << >> /\ IsObject(open', Len(open'))
    BY <1>5, <1>7, <1>8 DEF IsObject
  <2> QED
    BY <1>1, <2>1, <2>2 DEF Grammar
<1>14. Bounds'
  <2>1. Len(<< >>) <= MaxLetters /\ MaxNames \in Nat
    BY ScannerAssumption
  <2>2. Len(open[n].names) < MaxNames /\ Len(open[n].names) \in Nat
    BY <1>6, <1>9 DEF ScannerInv, Bounds
  <2>3. \A i \in DOMAIN open' : Len(open'[i].names) <= MaxNames
    BY <1>5, <1>7, <1>8, <1>10, <2>1, <2>2 DEF ScannerInv, Bounds
  <2>4. Len(open) <= MaxDepth + 1 /\ Len(open) <= MaxDepth
    BY <1>2 DEF ScannerInv, Bounds
  <2> QED
    BY <1>1, <1>2, <1>8, <1>9, <1>10, <2>1, <2>3, <2>4 DEF Bounds
<1>15. NamesKept'
  <2>1. /\ Len(scan.keys) = Level(open, n)
        /\ \A i \in 1 .. n : IsObject(open, i) =>
             scan.keys[Level(open, i)] = Scanner!Range(open[i].names)
    BY <1>5, <1>9 DEF ScannerInv, NamesKept, Written
  <2>2. \A i \in 1 .. n : Level(open', i) = Level(open, i)
    <3>1. \A i \in 1 .. n : open'[i].kind = open[i].kind
      BY <1>6, <1>7, <1>8
    <3> TAKE i \in 1 .. n
    <3>2. i \in Nat /\ \A j \in 1 .. i : open'[j].kind = open[j].kind
      BY <1>5, <3>1
    <3> QED
      BY <3>2, LevelSame
  <2>3. n \in 1 .. n
    BY <1>5
  <2>4. \A i \in 1 .. n : IsObject(open', i) <=> IsObject(open, i)
    BY <1>6, <1>7, <1>8 DEF IsObject
  <2>5. \A i \in 1 .. n : Written(i)' = open[i].names
    BY <1>1, <1>7, <1>8, <1>10 DEF Written
  <2>6. Len(scan'.keys) = Level(open', Len(open'))
    BY <1>8, <1>11, <2>1, <2>2, <2>3
  <2> QED
    BY <1>8, <1>11, <2>1, <2>2, <2>4, <2>5, <2>6 DEF NamesKept
<1>16. RepeatsAreKnown'
  <2>1. Scanner!Unique(named.names) <=>
          Scanner!Unique(open[n].names) /\ text \notin Scanner!Range(open[n].names)
    BY <1>3, <1>6, <1>7, UniqueAppend
  <2>2. /\ \A i \in 1 .. n : i # n =>
             (Scanner!Unique(open'[i].names) <=> Scanner!Unique(open[i].names))
        /\ Scanner!Unique(open'[n].names) <=>
             Scanner!Unique(open[n].names) /\ text \notin Scanner!Range(open[n].names)
    BY <1>8, <2>1
  <2>3. n \in DOMAIN open /\ DOMAIN open' = DOMAIN open /\ DOMAIN open = 1 .. n
    BY <1>5, <1>8
  <2>4. (\E i \in DOMAIN open' : Repeats(i)')
          <=> (\E i \in DOMAIN open : Repeats(i)) \/ text \in Scanner!Range(open[n].names)
    BY <2>2, <2>3 DEF Repeats
  <2>5. text \in Scanner!Range(open[n].names) => LastRepeats'
    <3> SUFFICES ASSUME text \in Scanner!Range(open[n].names)
                 PROVE  LastRepeats'
      OBVIOUS
    <3>1. PICK k \in DOMAIN open[n].names : open[n].names[k] = text
      BY DEF Scanner!Range
    <3>2. k \in DOMAIN named.names /\ k # Len(named.names) /\ named.names[k] = text
      BY <1>3, <1>6, <1>7, <3>1
    <3> QED
      BY <1>9, <1>10, <3>2 DEF LastRepeats
  <2>6. repeated' = IF text \in Scanner!Range(open[n].names)
                    THEN repeated \cup {"browser"} ELSE repeated
    BY <1>1, <1>5
  <2>7. /\ (\E i \in DOMAIN open : Repeats(i)) => "browser" \in repeated
        /\ "python" \in repeated => "browser" \in repeated
        /\ "typescript" \in repeated => "browser" \in repeated
        /\ "browser" \in repeated =>
             /\ "python" \in repeated \/ \E i \in DOMAIN open : Repeats(i)
             /\ "typescript" \in repeated
    BY DEF ScannerInv, RepeatsAreKnown
  <2> QED
    BY <1>1, <2>4, <2>5, <2>6, <2>7 DEF RepeatsAreKnown
<1>17. Scanner!DepthIsLimitedAlike'
  BY <1>1 DEF ScannerInv, Scanner!DepthIsLimitedAlike
<1> QED
  BY <1>11, <1>12, <1>13, <1>14, <1>15, <1>16, <1>17 DEF ScannerInv

\* The scan for names takes the name before the colon.
LEMMA ColonStep ==
  ASSUME ScannerInv, Scanner!Colon
  PROVE  ScannerInv'
<1> DEFINE n == Len(open)
           names == open[n].names
           Containers == [kind : {"array", "object"}, names : Seq(Words)]
<1>1. /\ expect = "colon" /\ expect' = "value" /\ Scanner!Scanned("colon")
      /\ repeated' = IF scan.whole \cap Scanner!Last(scan.keys) = {} THEN repeated
                     ELSE repeated \cup {"typescript"}
      /\ open' = open /\ text' = text /\ tooDeep' = tooDeep
  BY DEF Scanner!Colon
<1>2. /\ expect # "refused" /\ ~InWord /\ ~InEscape /\ InNames
      /\ ~InWord' /\ ~InEscape' /\ ~InNames'
  BY <1>1 DEF InWord, InEscape, InNames
<1>3. /\ open \in Seq(Containers) /\ open # << >> /\ IsObject(open, n)
      /\ names # << >>
  BY <1>1, <1>2 DEF ScannerInv, ScanTypes, Grammar, Bounds, Top
<1> HIDE DEF Containers
<1>4. /\ n \in Nat /\ n \in 1 .. n /\ DOMAIN open = 1 .. n /\ open[n] \in Containers
      /\ Len(open) = n /\ Top = open[n]
  BY <1>3, FrontFacts DEF Top
<1>5. names \in Seq(Words)
  BY <1>4 DEF Containers
<1> HIDE DEF n
<1>6. /\ Len(scan.keys) = Level(open, n) /\ Level(open, n) \in Nat /\ Level(open, n) > 0
      /\ scan.keys[Level(open, n)] = Scanner!Range(Scanner!Front(names))
      /\ scan.whole = {names[Len(names)]}
      /\ scan.keys \in Seq(SUBSET Words)
  <2>1. Level(open, n) \in 1 .. Level(open, n) /\ Level(open, n) \in Nat
    BY <1>3, <1>4, LevelGrows, LevelType
  <2>2. /\ Len(scan.keys) = Level(open, n)
        /\ scan.keys[Level(open, n)] = Scanner!Range(Scanner!Front(names))
    BY <1>1, <1>3, <1>4 DEF ScannerInv, NamesKept, Written
  <2>3. scan.whole = {names[Len(names)]}
    BY <1>1, <1>4 DEF ScannerInv, ScanFollowsTheParser
  <2>4. scan.keys \in Seq(SUBSET Words)
    BY <1>2, ReadersFollow
  <2> QED
    BY <2>1, <2>2, <2>3, <2>4
<1>7. Scanner!Last(scan.keys) = Scanner!Range(Scanner!Front(names))
  BY <1>6 DEF Scanner!Last
<1>8. /\ Len(names) \in DOMAIN names /\ names[Len(names)] \in Words
      /\ Scanner!Front(names) \in Seq(Words) /\ Len(Scanner!Front(names)) = Len(names) - 1
      /\ \A k \in 1 .. Len(names) - 1 : Scanner!Front(names)[k] = names[k]
      /\ Scanner!Range(names) = Scanner!Range(Scanner!Front(names)) \cup {names[Len(names)]}
  BY <1>3, <1>5, FrontFacts, RangeFront
<1>9. scan'.keys = [scan.keys EXCEPT ![Level(open, n)] = Scanner!Range(names)]
  <2>1. scan'.keys = [scan.keys EXCEPT ![Len(scan.keys)] = scan.keys[Len(scan.keys)] \cup scan.whole]
    <3>1. "colon" # "space"
      OBVIOUS
    <3> QED
      BY <1>1, <1>2, <3>1, OutsideWord
  <2>2. scan.keys[Len(scan.keys)] \cup scan.whole = Scanner!Range(names)
    BY <1>6, <1>8
  <2> QED
    BY <1>6, <2>1, <2>2
<1>10. Scanner!Range(names) \in SUBSET Words
  BY <1>5 DEF Scanner!Range
<1>11. scan'.keys \in Seq(SUBSET Words) /\ Len(scan'.keys) = Level(open, n)
  BY <1>6, <1>9, <1>10
<1>12. raw' \in RawType /\ raw'.depth = Len(open') /\ scan' \in ScanType
  <2> PICK c : c = "colon"
    OBVIOUS
  <2>1. c \notin {"space", "array", "object", "endArray", "endObject"} /\ Scanner!Scanned(c)
    BY <1>1
  <2>2. raw' \in RawType /\ raw'.depth = raw.depth /\ scan' \in ScanType
    BY <1>2, <1>11, <2>1, OutsideWord
  <2> QED
    BY <1>1, <1>2, <2>2, ReadersFollow
<1>13. ScanTypes'
  <2>1. repeated' \subseteq Scanner!Readers
    BY <1>1 DEF ScannerInv, ScanTypes, Scanner!Readers
  <2> QED
    BY <1>1, <1>12, <2>1 DEF ScannerInv, ScanTypes
<1>14. Grammar'
  BY <1>1, <1>2 DEF ScannerInv, Grammar
<1>15. Bounds'
  BY <1>1, <1>2 DEF ScannerInv, Bounds
<1>16. Scanner!CounterFollowsTheParser' /\ ScanFollowsTheParser'
  <2>1. "colon" # Scanner!Quote /\ "colon" # "space"
    BY DEF Scanner!Quote
  <2> QED
    BY <1>1, <1>2, <1>12, <2>1, ReadersStayInStep
<1>17. NamesKept'
  <2>1. ASSUME NEW i \in 1 .. n, IsObject(open, i)
        PROVE  scan'.keys[Level(open, i)] = Scanner!Range(open[i].names)
    <3>1. Level(open, i) \in 1 .. Level(open, n)
      BY <1>4, <2>1, LevelGrows
    <3>2. CASE i = n
      BY <1>6, <1>9, <3>1, <3>2
    <3>3. CASE i # n
      <4>1. n \in i + 1 .. n
        BY <1>4, <3>3
      <4>2. Level(open, i) < Level(open, n)
        BY <1>3, <1>4, <2>1, <4>1, LevelGrows
      <4>3. scan.keys[Level(open, i)] = Scanner!Range(open[i].names)
        BY <1>2, <1>4, <2>1, <3>3 DEF ScannerInv, NamesKept, Written
      <4> QED
        BY <1>6, <1>9, <3>1, <4>2, <4>3
    <3> QED
      BY <3>2, <3>3
  <2> QED
    BY <1>1, <1>4, <1>11, <2>1 DEF NamesKept, Written
<1>18. RepeatsAreKnown'
  <2>1. scan.whole \cap Scanner!Last(scan.keys) # {} <=> LastRepeats
    <3>1. scan.whole \cap Scanner!Last(scan.keys) # {}
            <=> names[Len(names)] \in Scanner!Range(Scanner!Front(names))
      BY <1>6, <1>7
    <3>2. names[Len(names)] \in Scanner!Range(Scanner!Front(names))
            <=> \E k \in 1 .. Len(names) - 1 : names[k] = names[Len(names)]
      BY <1>8 DEF Scanner!Range
    <3>3. \A k : k \in 1 .. Len(names) - 1 <=> k \in DOMAIN names /\ k # Len(names)
      BY <1>5, <1>8
    <3> QED
      BY <1>4, <3>1, <3>2, <3>3 DEF LastRepeats
  <2>2. LastRepeats => \E i \in DOMAIN open : Repeats(i)
    <3>1. LastRepeats => Repeats(n)
      BY <1>4, <1>8 DEF LastRepeats, Repeats, Scanner!Unique
    <3> QED
      BY <1>4, <3>1
  <2>3. /\ (\E i \in DOMAIN open : Repeats(i)) => "browser" \in repeated
        /\ "python" \in repeated => "browser" \in repeated
        /\ "typescript" \in repeated => "browser" \in repeated
        /\ "browser" \in repeated =>
             /\ "python" \in repeated \/ \E i \in DOMAIN open : Repeats(i)
             /\ "typescript" \in repeated \/ LastRepeats
    BY <1>2 DEF ScannerInv, RepeatsAreKnown
  <2>4. \A i \in DOMAIN open : Repeats(i)' <=> Repeats(i)
    BY <1>1 DEF Repeats
  <2> QED
    BY <1>1, <2>1, <2>2, <2>3, <2>4 DEF RepeatsAreKnown
<1>19. Scanner!DepthIsLimitedAlike'
  BY <1>1 DEF ScannerInv, Scanner!DepthIsLimitedAlike
<1> QED
  BY <1>13, <1>14, <1>15, <1>16, <1>17, <1>18, <1>19 DEF ScannerInv


-----------------------------------------------------------------------------
LEMMA ScannerInit == Init => ScannerInv
<1> SUFFICES ASSUME Init
             PROVE  ScannerInv
  OBVIOUS
<1>1. /\ open = << >> /\ expect = "value" /\ text = << >>
      /\ raw = [depth |-> 0, inString |-> FALSE, escaped |-> FALSE]
      /\ scan = [keys |-> << >>, inString |-> FALSE, escaped |-> FALSE, token |-> << >>, whole |-> {}]
      /\ tooDeep = {} /\ repeated = {}
  BY DEF Init, Scanner!Init
<1>2. Len(open) = 0 /\ DOMAIN open = {} /\ open \in Seq([kind : {"array", "object"}, names : Seq(Words)])
  BY <1>1
<1>3. /\ InWord = FALSE /\ InEscape = FALSE /\ InNames = FALSE
  BY <1>1 DEF InWord, InEscape, InNames
<1>4. ScanTypes
  <2>1. << >> \in Words
    BY DEF Words
  <2>2. raw \in RawType
    BY <1>1 DEF RawType
  <2>3. scan \in ScanType
    BY <1>1, <2>1 DEF ScanType
  <2> QED
    BY <1>1, <1>2, <2>1, <2>2, <2>3 DEF ScanTypes
<1>5. Grammar
  BY <1>1, <1>2, <1>3 DEF Grammar
<1>6. Bounds
  BY <1>1, <1>2, <1>3, ScannerAssumption DEF Bounds
<1>7. Scanner!CounterFollowsTheParser
  BY <1>1, <1>2 DEF Scanner!CounterFollowsTheParser
<1>8. ScanFollowsTheParser
  BY <1>1, <1>3 DEF ScanFollowsTheParser
<1>9. NamesKept
  <2>1. Scanner!Objects(open, 0) = {}
    BY DEF Scanner!Objects
  <2>2. Level(open, 0) = 0
    BY <2>1, FS_EmptySet DEF Level
  <2>3. Len(scan.keys) = 0
    BY <1>1
  <2> QED
    BY <1>2, <2>2, <2>3 DEF NamesKept
<1>10. RepeatsAreKnown
  BY <1>1, <1>2 DEF RepeatsAreKnown
<1>11. Scanner!DepthIsLimitedAlike
  BY <1>1 DEF Scanner!DepthIsLimitedAlike
<1> QED
  BY <1>4, <1>5, <1>6, <1>7, <1>8, <1>9, <1>10, <1>11 DEF ScannerInv

\* Where nothing is read.
LEMMA ScannerIdle ==
  ASSUME ScannerInv, UNCHANGED textVars
  PROVE  ScannerInv'
<1>1. /\ open' = open /\ expect' = expect /\ text' = text /\ raw' = raw /\ scan' = scan
      /\ tooDeep' = tooDeep /\ repeated' = repeated
  BY DEF textVars
<1> QED
  BY <1>1
  DEF ScannerInv, ScanTypes, Grammar, Bounds, Scanner!CounterFollowsTheParser,
      ScanFollowsTheParser, NamesKept, RepeatsAreKnown, Scanner!DepthIsLimitedAlike,
      InWord, InEscape, InNames, Top, Written, Repeats, LastRepeats

LEMMA ScannerStep ==
  ASSUME ScannerInv, [Next]_vars
  PROVE  ScannerInv'
<1>1. ASSUME Scanner!Next
      PROVE  ScannerInv'
  <2>1. CASE Scanner!StringEnds
    <3>1. expect \in {"string", "nameString"}
      BY <2>1 DEF Scanner!StringEnds
    <3> QED
      BY <2>1, <3>1, ValueEndsStep, NameEndsStep
  <2> QED
    BY <1>1, <2>1, ScalarStep, OpenStep, CloseStep, CommaStep, ColonStep, SpaceStep,
       StringBeginsStep, LetterStep, EscapeBeginsStep, EscapeEndsStep
    DEF Scanner!Next
<1>2. CASE UNCHANGED textVars
  BY <1>2, ScannerIdle
<1> QED
  BY <1>1, <1>2 DEF Next, Verify, Scan, Parse, vars

LEMMA ScannerInvariance == Spec => []ScannerInv
BY ScannerInit, ScannerStep, PTL DEF Spec

\* At every character of every text, whatever the limits: the bracket counter stands
\* where the parser does, the scan for names has the names of every open object, a text
\* that ends has its repeated names found by all three readers or by none, and the three
\* checks of the depth refuse together.
THEOREM ReadersAgreeOnText == Spec => []ScannersFollowTheParser
<1>1. ASSUME ScannerInv
      PROVE  Scanner!NamesFollowTheParser
  <2> SUFFICES ASSUME expect # "refused"
               PROVE  /\ Len(scan.keys) = Level(open, Len(open))
                      /\ \A i \in Scanner!Objects(open, Len(open)) :
                           scan.keys[Level(open, i)] = Scanner!Range(Written(i))
    <3>1. \A i : Scanner!Cardinality(Scanner!Objects(open, i)) = Level(open, i)
      BY DEF Scanner!Cardinality, Cardinality, Level
    <3> QED
      BY <3>1 DEF Scanner!NamesFollowTheParser, Written
  <2>1. Len(open) \in Nat /\ DOMAIN open = 1 .. Len(open)
    BY <1>1 DEF ScannerInv, ScanTypes
  <2>2. \A i \in Scanner!Objects(open, Len(open)) : i \in DOMAIN open /\ IsObject(open, i)
    BY <2>1, ObjectsAre
  <2> QED
    BY <1>1, <2>2 DEF ScannerInv, NamesKept
<1>2. ASSUME ScannerInv
      PROVE  Scanner!RepeatsAreFoundAlike
  <2> SUFFICES ASSUME expect = "end"
               PROVE  repeated = {} \/ repeated = Scanner!Readers
    BY DEF Scanner!RepeatsAreFoundAlike
  <2>1. DOMAIN open = {}
    BY <1>2 DEF ScannerInv, Grammar
  <2>2. /\ "python" \in repeated <=> "browser" \in repeated
        /\ "typescript" \in repeated <=> "browser" \in repeated
    BY <1>2, <2>1 DEF ScannerInv, RepeatsAreKnown
  <2>3. repeated \subseteq {"python", "typescript", "browser"}
    BY <1>2 DEF ScannerInv, ScanTypes, Scanner!Readers
  <2> QED
    BY <2>2, <2>3 DEF Scanner!Readers
<1>3. ScannerInv => ScannersFollowTheParser
  BY <1>1, <1>2 DEF ScannerInv, ScannersFollowTheParser
<1> QED
  BY <1>3, ScannerInvariance, PTL

-----------------------------------------------------------------------------
(* Types.                                                                  *)

\* The answers are results.
LEMMA AnswersAreResults ==
  /\ Verification!NotVerified \in Verification!Results
  /\ \A receipt, digest : Verification!Compare(receipt, digest) \in Verification!Results
<1>1. \A reason \in Verification!Reasons, signature \in BOOLEAN :
        Verification!Answer(signature, reason) \in Verification!Results
  BY DEF Verification!Answer, Verification!Results
<1>2. "receipt_verification_failed" \in Verification!Reasons
  BY DEF Verification!Reasons
<1>3. ASSUME NEW receipt, NEW digest
      PROVE  Verification!Compare(receipt, digest) \in Verification!Results
  <2>1. PICK reason : Verification!Compare(receipt, digest) = Verification!Answer(TRUE, reason)
                      /\ reason \in Verification!Reasons
    BY DEF Verification!Compare, Verification!Reasons
  <2> QED
    BY <1>1, <2>1
<1> QED
  BY <1>1, <1>2, <1>3 DEF Verification!NotVerified

LEMMA VerificationTypes == Spec => []Verification!TypeOK
<1>1. Init => Verification!TypeOK
  BY DEF Init, Verification!Init, Verification!TypeOK
<1>2. ASSUME Verification!TypeOK, [Next]_vars
      PROVE  Verification!TypeOK'
  <2> USE DEF Verification!TypeOK
  <2>1. CASE Verification!CallPython
    <3>1. Verification!VerifySeal(given) \in Verification!Results
      BY AnswersAreResults DEF Verification!VerifySeal
    <3>2. given.record \in Records
      BY <1>2 DEF Verification!Inputs
    <3> QED
      BY <1>2, <2>1, <3>1, <3>2 DEF Verification!CallPython, Verification!Called
  <2>2. CASE Verification!CallTypeScript
    <3>1. given.record \in Records /\ given.receipt \in Receipts
      BY <1>2 DEF Verification!Inputs
    <3> QED
      BY <1>2, <2>2, <3>1, AnswersAreResults DEF Verification!CallTypeScript, Verification!Called
  <2>3. CASE Verification!ReceiptReady
    <3>1. \E r \in Verification!Results : result' = {r}
      BY <2>3, AnswersAreResults DEF Verification!ReceiptReady
    <3> QED
      BY <1>2, <2>3, <3>1 DEF Verification!ReceiptReady
  <2>4. CASE Verification!Edit
    <3>1. PICK receipt \in Receipts, record \in Records :
            /\ given' = [given EXCEPT !.receipt = receipt, !.record = record]
            /\ held' = held \cup {record} /\ UNCHANGED << language, called, own, result >>
      BY <2>4 DEF Verification!Edit
    <3>2. given' \in Verification!Inputs
      BY <1>2, <3>1 DEF Verification!Inputs
    <3> QED
      BY <1>2, <3>1, <3>2
  <2>5. CASE UNCHANGED sealVars
    BY <1>2, <2>5 DEF sealVars
  <2> QED
    BY <1>2, <2>1, <2>2, <2>3, <2>4, <2>5
    DEF Next, Verify, Scan, Parse, Verification!Next, vars
<1> QED
  BY <1>1, <1>2, PTL DEF Spec

LEMMA NumberTypes == Spec => []NumberTypeOK
<1>1. Init => NumberTypeOK
  BY FS_EmptySet DEF Init, NumberInit, NumberTypeOK
<1>2. ASSUME NumberTypeOK, [Next]_vars
      PROVE  NumberTypeOK'
  <2>1. CASE NumberNext
    <3>1. PICK t \in Tokens : token' = {t} /\ accepted' = AcceptedBy(t)
      BY <2>1 DEF NumberNext, Read
    <3>2. accepted' \subseteq Readers
      BY <3>1 DEF AcceptedBy
    <3>3. Cardinality(token') = 1
      BY <3>1, FS_Singleton
    <3> QED
      BY <3>1, <3>2, <3>3 DEF NumberTypeOK
  <2>2. CASE UNCHANGED numberVars
    BY <1>2, <2>2 DEF NumberTypeOK, numberVars
  <2> QED
    BY <1>2, <2>1, <2>2 DEF Next, Verify, Scan, Parse, vars
<1> QED
  BY <1>1, <1>2, PTL DEF Spec

\* The parts keep their types: what a call returns, the state of the parser and its
\* scanners, and the readers that accept a number.
THEOREM SealTypeCorrect == Spec => []TypeOK
<1>1. ASSUME ScannerInv
      PROVE  Scanner!TypeOK
  <2>1. \A i \in DOMAIN open : open[i].kind \in {"array", "object"}
    <3> DEFINE Containers == [kind : {"array", "object"}, names : Seq(Words)]
    <3>1. open \in Seq(Containers)
      BY <1>1 DEF ScannerInv, ScanTypes
    <3> HIDE DEF Containers
    <3>2. \A i \in DOMAIN open : open[i] \in Containers
      BY <3>1
    <3> QED
      BY <3>2 DEF Containers
  <2>2. raw.depth \in Nat
    BY <1>1 DEF ScannerInv, ScanTypes, Scanner!CounterFollowsTheParser
  <2> QED
    BY <1>1, <2>1, <2>2 DEF ScannerInv, ScanTypes, Bounds, Scanner!TypeOK
<1>2. Spec => []Scanner!TypeOK
  BY <1>1, ScannerInvariance, PTL
<1>3. TypeOK <=> Verification!TypeOK /\ Scanner!TypeOK /\ NumberTypeOK
  BY DEF TypeOK
<1> QED
  BY <1>2, <1>3, VerificationTypes, NumberTypes, PTL
=============================================================================
