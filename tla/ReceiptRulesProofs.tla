------------------------- MODULE ReceiptRulesProofs -------------------------
(***************************************************************************)
(* Facts about the operators of ReceiptRules that the proofs about the     *)
(* components rest on.                                                     *)
(***************************************************************************)
EXTENDS ReceiptRules, WellFoundedInduction, TLAPS

\* A set of numbers that is not empty has a least one.
LEMMA LeastNumber ==
  ASSUME NEW S, S \subseteq Nat, S # {}
  PROVE  \E m \in S : \A k \in S : m <= k
<1> DEFINE below == OpToRel(<, Nat)
<1>1. \E m \in S : \A k \in S : ~ (<<k, m>> \in below)
  <2>1. IsWellFoundedOn(below, Nat)
    BY NatLessThanWellFounded DEF below
  <2> HIDE DEF below
  <2> QED
    BY <2>1, WFMin
<1>2. \A k, m \in Nat : k < m => <<k, m>> \in below
  BY DEF OpToRel
<1> HIDE DEF below
<1>3. PICK m \in S : \A k \in S : ~ (<<k, m>> \in below)
  BY <1>1
<1>4. ASSUME NEW k \in S PROVE m <= k
  <2>1. ~ (k < m)
    BY <1>2, <1>3
  <2> QED
    BY <2>1
<1> QED
  BY <1>4

\* Induction, over a set in the place of a property.
LEMMA NumberInduction ==
  ASSUME NEW S, NEW n \in Nat, 0 \in S, \A i \in 0 .. n - 1 : i \in S => i + 1 \in S
  PROVE  0 .. n \subseteq S
<1> DEFINE bad == {i \in 0 .. n : i \notin S}
<1> SUFFICES ASSUME bad # {} PROVE FALSE
  OBVIOUS
<1>1. bad \subseteq Nat
  OBVIOUS
<1>2. PICK m \in bad : \A k \in bad : m <= k
  <2> HIDE DEF bad
  <2> QED
    BY <1>1, LeastNumber
<1>3. m \in 0 .. n /\ m \notin S /\ m # 0
  OBVIOUS
<1>4. m - 1 \in 0 .. n - 1 /\ m - 1 + 1 = m /\ ~ (m <= m - 1)
  BY <1>3
<1>5. m - 1 \in S
  BY <1>2, <1>4
<1> QED
  BY <1>3, <1>4, <1>5

\* A chain of checks accepts when each of them does (the code's sequence of
\* "if ...: raise").
LEMMA AndThenAccepts ==
  ASSUME NEW a, NEW b
  PROVE  (a ++ b = Accepted) <=> (a = Accepted /\ b = Accepted)
  BY DEF ++, Accepted

\* A required condition is accepted exactly when it holds, provided that the
\* rejection has a label of its own.
LEMMA RequireAccepts ==
  ASSUME NEW condition \in BOOLEAN, NEW rejection, rejection # Accepted
  PROVE  (Require(condition, rejection) = Accepted) <=> condition
  BY DEF Require

\* A loop of checks accepts when every element is accepted: if one is not,
\* there is a first one, and its rejection is returned.
LEMMA FirstRejectionAccepts ==
  ASSUME NEW checks, NEW n \in Nat, DOMAIN checks = 1 .. n
  PROVE  /\ (FirstRejection(checks) = Accepted)
              <=> (\A i \in DOMAIN checks : checks[i] = Accepted)
         /\ \/ FirstRejection(checks) = Accepted
            \/ \E i \in DOMAIN checks : FirstRejection(checks) = checks[i]
<1> DEFINE bad == {i \in DOMAIN checks : checks[i] # Accepted}
           First(i) == /\ checks[i] # Accepted
                       /\ \A j \in DOMAIN checks : j < i => checks[j] = Accepted
<1>1. CASE bad = {}
  BY <1>1 DEF FirstRejection
<1>2. CASE bad # {}
  <2>1. PICK m \in bad : \A k \in bad : m <= k
    <3>1. bad \subseteq Nat
      OBVIOUS
    <3> HIDE DEF bad
    <3> QED
      BY <1>2, <3>1, LeastNumber
  <2>4. First(m) /\ m \in DOMAIN checks
    <3>1. ASSUME NEW j \in DOMAIN checks, j < m
          PROVE  checks[j] = Accepted
      <4>1. ~ (m <= j)
        BY <3>1
      <4> QED
        BY <2>1, <4>1
    <3> QED
      BY <2>1, <3>1
  <2>5. First(CHOOSE i \in DOMAIN checks : First(i))
    BY <2>4
  <2>6. ~ \A i \in DOMAIN checks : checks[i] = Accepted
    BY <1>2
  <2> QED
    BY <2>5, <2>6 DEF FirstRejection
<1> QED
  BY <1>1, <1>2

\* A list of structural checks accepts when none of its defects is present.
LEMMA FirstDefectAccepts ==
  ASSUME NEW order, NEW n \in Nat, DOMAIN order = 1 .. n,
         \A i \in 1 .. n : order[i] # Accepted,
         NEW defects
  PROVE  /\ (FirstDefect(order, defects) = Accepted)
              <=> (\A i \in 1 .. n : order[i] \notin defects)
         /\ \/ FirstDefect(order, defects) = Accepted
            \/ \E i \in 1 .. n : FirstDefect(order, defects) = order[i]
<1> DEFINE checks == [i \in DOMAIN order |->
                        IF order[i] \in defects THEN order[i] ELSE Accepted]
<1>1. DOMAIN checks = 1 .. n
  OBVIOUS
<1>2. /\ (FirstRejection(checks) = Accepted)
           <=> (\A i \in DOMAIN checks : checks[i] = Accepted)
      /\ \/ FirstRejection(checks) = Accepted
         \/ \E i \in DOMAIN checks : FirstRejection(checks) = checks[i]
  <2> HIDE DEF checks
  <2> QED BY <1>1, FirstRejectionAccepts
<1>3. \A i \in 1 .. n : /\ checks[i] = Accepted <=> order[i] \notin defects
                         /\ checks[i] \in {order[i], Accepted}
  OBVIOUS
<1> QED
  BY <1>1, <1>2, <1>3 DEF FirstDefect

\* verify_receipt accepts when each of its checks does.
LEMMA VerifyAccepts ==
  ASSUME NEW r, NEW ks, NEW t, NEW w, NEW trust
  PROVE  (VerifyReceipt(r, ks, t, w, trust) = Accepted) <=>
           /\ JwsParts(r) = Accepted /\ t # Unparseable
           /\ CheckVersion(r.payload) = Accepted /\ CheckWorkspace(r.payload, w) = Accepted
           /\ CheckSchema(r.payload) = Accepted /\ CheckPairing(r.payload) = Accepted
           /\ CheckIssuedAt(r.payload, t) = Accepted
           /\ CheckKeyAndSignature(r, ks, trust) = Accepted
<1> DEFINE jws     == JwsParts(r)
           clock   == Require(t # Unparseable, "now")
           version == CheckVersion(r.payload)
           wsp     == CheckWorkspace(r.payload, w)
           schema  == CheckSchema(r.payload)
           pairing == CheckPairing(r.payload)
           issued  == CheckIssuedAt(r.payload, t)
           sig     == CheckKeyAndSignature(r, ks, trust)
<1>1. VerifyReceipt(r, ks, t, w, trust)
        = jws ++ clock ++ version ++ wsp ++ schema ++ pairing ++ issued ++ sig
  BY DEF VerifyReceipt
<1>2. clock = Accepted <=> t # Unparseable
  BY DEF Require, Accepted
<1>3. (jws ++ clock ++ version ++ wsp ++ schema ++ pairing ++ issued ++ sig = Accepted) <=>
        /\ jws = Accepted /\ clock = Accepted /\ version = Accepted /\ wsp = Accepted
        /\ schema = Accepted /\ pairing = Accepted /\ issued = Accepted /\ sig = Accepted
  <2> HIDE DEF jws, clock, version, wsp, schema, pairing, issued, sig
  <2> QED
    BY AndThenAccepts
<1> QED
  BY <1>1, <1>2, <1>3

\* What the rules accept they accept at any later time: the clock is only
\* compared with issued_at from above (verify_receipt, MAX_FUTURE_SKEW).
LEMMA AcceptedLater ==
  ASSUME NEW r, NEW ks, NEW w, NEW trust, NEW t \in Nat, NEW u \in Nat, t <= u,
         r.payload.issued_at \in Int,
         VerifyReceipt(r, ks, t, w, trust) = Accepted
  PROVE  VerifyReceipt(r, ks, u, w, trust) = Accepted
<1>1. CheckIssuedAt(r.payload, t) = Accepted
  BY VerifyAccepts
<1>2. r.payload.issued_at # Unparseable /\ r.payload.issued_at <= t + Skew
  BY <1>1 DEF CheckIssuedAt, Require, ++, Accepted
<1>3. CheckIssuedAt(r.payload, u) = Accepted
  BY <1>2, SkewAssumption DEF CheckIssuedAt, Require, ++
<1> QED
  BY <1>3, VerifyAccepts DEF Unparseable
=============================================================================
