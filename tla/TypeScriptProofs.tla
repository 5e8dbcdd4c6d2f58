--------------------------- MODULE TypeScriptProofs ---------------------------
(***************************************************************************)
(* Proofs about the TypeScript implementation: it accepts the receipts     *)
(* that the Python one accepts, which are those the format calls valid,    *)
(* it keeps its promise while its caller goes on editing, and it walks and *)
(* writes a payload as the Python one does.                                *)
(***************************************************************************)
EXTENDS AsyncVerification, VerifierParity, ReceiptRulesProofs, FiniteSetTheorems

\* Two defects looked for in a list.
LEMMA TwoDefects ==
  ASSUME NEW a, NEW b, a # Accepted, b # Accepted, NEW defects
  PROVE  (FirstDefect(<< a, b >>, defects) = Accepted) <=> a \notin defects /\ b \notin defects
<1> DEFINE order == << a, b >>
<1>1. DOMAIN order = 1 .. 2 /\ order[1] = a /\ order[2] = b
  OBVIOUS
<1> HIDE DEF order
<1>2. \A i \in 1 .. 2 : order[i] # Accepted
  BY <1>1
<1>3. (FirstDefect(order, defects) = Accepted) <=> \A i \in 1 .. 2 : order[i] \notin defects
  BY <1>1, <1>2, FirstDefectAccepts
<1> QED
  BY <1>1, <1>3 DEF order

\* The defects of the envelope, of the schema and of a key: the languages look
\* for the same ones, in different orders.
LEMMA SameDefects ==
  ASSUME NEW defects
  PROVE  /\ FirstDefect(TsJwsOrder, defects) = Accepted <=> FirstDefect(JwsOrder, defects) = Accepted
         /\ FirstDefect(TsSchemaOrder, defects) = Accepted
              <=> FirstDefect(SchemaOrder, defects) = Accepted
         /\ FirstDefect(TsKeyOrder, defects) = Accepted <=> FirstDefect(KeyOrder, defects) = Accepted
<1>1. /\ DOMAIN JwsOrder = 1 .. 14 /\ \A i \in 1 .. 14 : JwsOrder[i] # Accepted
      /\ DOMAIN TsJwsOrder = 1 .. 14 /\ \A i \in 1 .. 14 : TsJwsOrder[i] # Accepted
  BY DEF JwsOrder, TsJwsOrder, Accepted
<1>2. /\ DOMAIN KeyOrder = 1 .. 6 /\ \A i \in 1 .. 6 : KeyOrder[i] # Accepted
      /\ DOMAIN TsKeyOrder = 1 .. 6 /\ \A i \in 1 .. 6 : TsKeyOrder[i] # Accepted
  BY DEF KeyOrder, TsKeyOrder, Accepted
<1>3. /\ FirstDefect(TsJwsOrder, defects) = Accepted
           <=> \A i \in 1 .. 14 : TsJwsOrder[i] \notin defects
      /\ FirstDefect(JwsOrder, defects) = Accepted
           <=> \A i \in 1 .. 14 : JwsOrder[i] \notin defects
  BY <1>1, FirstDefectAccepts
<1>4. /\ FirstDefect(TsKeyOrder, defects) = Accepted
           <=> \A i \in 1 .. 6 : TsKeyOrder[i] \notin defects
      /\ FirstDefect(KeyOrder, defects) = Accepted
           <=> \A i \in 1 .. 6 : KeyOrder[i] \notin defects
  BY <1>2, FirstDefectAccepts
<1>5. (\A i \in 1 .. 14 : TsJwsOrder[i] \notin defects)
        <=> (\A i \in 1 .. 14 : JwsOrder[i] \notin defects)
  BY DEF JwsOrder, TsJwsOrder
<1>6. (\A i \in 1 .. 6 : TsKeyOrder[i] \notin defects)
        <=> (\A i \in 1 .. 6 : KeyOrder[i] \notin defects)
  BY DEF KeyOrder, TsKeyOrder
<1>7. TsSchemaOrder = SchemaOrder
  BY DEF TsSchemaOrder, SchemaOrder
<1> QED
  BY <1>3, <1>4, <1>5, <1>6, <1>7

\* _check_policy_eval and its counterpart.
LEMMA SamePolicyEval ==
  ASSUME NEW p
  PROVE  CheckSchema(p) = Accepted <=> TsCheckSchema(p) = Accepted
<1> DEFINE v == p.policy_result
           profile == FirstDefect(<< "result_members", "result_profile" >>, v.defects)
           rule == FirstDefect(<< "result_rule", "result_fields" >>, v.defects)
           shape == FirstDefect(SchemaOrder, p.defects)
           tsshape == FirstDefect(TsSchemaOrder, p.defects)
<1>1. /\ profile = Accepted <=> "result_members" \notin v.defects /\ "result_profile" \notin v.defects
      /\ rule = Accepted <=> "result_rule" \notin v.defects /\ "result_fields" \notin v.defects
  BY TwoDefects DEF Accepted
<1>2. shape = Accepted <=> tsshape = Accepted
  BY SameDefects
<1>3. CheckPolicyResult(v) = Accepted <=>
        /\ "result_members" \notin v.defects /\ "result_profile" \notin v.defects
        /\ v.decision \in ActionDecisions /\ v.target = ResultTarget(v.decision)
        /\ "result_rule" \notin v.defects /\ "result_fields" \notin v.defects
        /\ v.rule = Null => v.fields = {}
  BY DEF CheckPolicyResult, ++, Require, Accepted
<1>4. v.decision \in ActionDecisions => (v.target = ResultTarget(v.decision) <=> TsValidTarget(v))
  BY DEF ActionDecisions, ResultTarget, TsValidTarget, Null
<1> HIDE DEF profile, rule, shape, tsshape
<1>5. TsCheckPolicyEval(p) = Accepted <=>
        /\ "policy_eval_shape" \notin p.defects /\ profile = Accepted
        /\ v.decision \in ActionDecisions /\ TsValidTarget(v)
        /\ rule = Accepted
        /\ ~(v.rule = Null /\ v.fields # {})
  <2>1. TsCheckPolicyEval(p) =
          Require("policy_eval_shape" \notin p.defects, "policy_eval_shape") ++ profile
          ++ Require(v.decision \in ActionDecisions, "result_decision")
          ++ Require(TsValidTarget(v), "result_target")
          ++ rule ++ Require(~(v.rule = Null /\ v.fields # {}), "result_fields_without_rule")
    BY DEF TsCheckPolicyEval, profile, rule
  <2> HIDE DEF v
  <2> QED
    BY <2>1 DEF ++, Require, Accepted
<1>6. TsCheckPolicyEval(p) = Accepted <=>
        "policy_eval_shape" \notin p.defects /\ CheckPolicyResult(v) = Accepted
  BY <1>1, <1>3, <1>4, <1>5
<1>7. CheckSchema(p) = Accepted <=>
        /\ shape = Accepted
        /\ p.policy_eval # Absent =>
             /\ "policy_eval_shape" \notin p.defects /\ CheckPolicyResult(v) = Accepted
             /\ p.policy_ref # Null
  <2> DEFINE result == CheckPolicyResult(v)
  <2> HIDE DEF result
  <2>1. CheckPolicyEval(p) = Accepted <=>
          (p.policy_eval # Absent =>
             "policy_eval_shape" \notin p.defects /\ result = Accepted /\ p.policy_ref # Null)
    BY DEF CheckPolicyEval, ++, Require, Accepted, result
  <2> QED
    BY <2>1, AndThenAccepts DEF CheckSchema, shape, result
<1>8. TsCheckSchema(p) = Accepted <=>
        /\ tsshape = Accepted
        /\ p.policy_eval # Absent => TsCheckPolicyEval(p) = Accepted /\ p.policy_ref # Null
  <2> DEFINE result == TsCheckPolicyEval(p)
             eval == IF p.policy_eval = Absent THEN Accepted
                     ELSE result ++ Require(p.policy_ref # Null, "policy_eval_without_ref")
  <2>1. TsCheckSchema(p) = tsshape ++ eval
    BY DEF TsCheckSchema, tsshape
  <2> HIDE DEF result
  <2>2. eval = Accepted <=> (p.policy_eval # Absent => result = Accepted /\ p.policy_ref # Null)
    BY DEF ++, Require, Accepted
  <2> HIDE DEF eval
  <2> QED
    BY <2>1, <2>2, AndThenAccepts DEF result
<1> QED
  BY <1>2, <1>6, <1>7, <1>8

\* jwsParts decodes what decode_receipt decodes.
LEMMA SameDecoding ==
  ASSUME NEW r
  PROVE  TsJwsParts(r) = Accepted <=>
           JwsParts(r) = Accepted /\ CheckVersion(r.payload) = Accepted
             /\ CheckSchema(r.payload) = Accepted
<1> DEFINE jws == FirstDefect(TsJwsOrder, r.jws)
           version == CheckVersion(r.payload)
           schema == TsCheckSchema(r.payload)
<1>1. TsJwsParts(r) = jws ++ version ++ schema
  BY DEF TsJwsParts, CheckVersion
<1>2. jws = Accepted <=> JwsParts(r) = Accepted
  BY SameDefects DEF JwsParts
<1>3. schema = Accepted <=> CheckSchema(r.payload) = Accepted
  BY SamePolicyEval
<1> HIDE DEF jws, version, schema
<1>4. (jws ++ version ++ schema = Accepted) <=> jws = Accepted /\ version = Accepted /\ schema = Accepted
  BY AndThenAccepts
<1> QED
  BY <1>1, <1>2, <1>3, <1>4 DEF version

LEMMA DecodingAccepts ==
  ASSUME NEW r
  PROVE  DecodeReceipt(r) = Accepted <=> TsJwsParts(r) = Accepted
<1> DEFINE jws == JwsParts(r)
           version == CheckVersion(r.payload)
           schema == CheckSchema(r.payload)
<1>1. DecodeReceipt(r) = jws ++ version ++ schema
  BY DEF DecodeReceipt
<1>2. (jws ++ version ++ schema = Accepted) <=> jws = Accepted /\ version = Accepted /\ schema = Accepted
  <2> HIDE DEF jws, version, schema
  <2> QED BY AndThenAccepts
<1> QED
  BY <1>1, <1>2, SameDecoding

-----------------------------------------------------------------------------
\* The context of a checkpoint, without an order of checks.
LEMMA ContextAccepts ==
  ASSUME NEW c, NEW t
  PROVE  CheckCheckpointContext(c, t) = Accepted <=>
           /\ c.defects \cap {"context_members", "receipt_count", "merkle_root", "previous_id",
                              "previous_root"} = {}
           /\ c.period_start # Unparseable /\ c.period_end # Unparseable /\ t # Unparseable
           /\ c.period_end > c.period_start
           /\ c.period_start % Day = 0 /\ c.period_end = c.period_start + Day
           /\ t >= c.period_end
           /\ (c.previous_id = Null) = (c.previous_root = NoRoot)
<1> DEFINE order == c.period_end > c.period_start
           day == c.period_start % Day = 0 /\ c.period_end = c.period_start + Day
           over == t >= c.period_end
           pair == (c.previous_id = Null) = (c.previous_root = NoRoot)
<1>1. CheckCheckpointContext(c, t) =
        Require("context_members" \notin c.defects, "context_members")
        ++ Require(c.period_start # Unparseable, "period_start")
        ++ Require(c.period_end # Unparseable, "period_end")
        ++ Require(t # Unparseable, "issued_at")
        ++ Require(order, "period_order") ++ Require(day, "period_not_a_day")
        ++ Require(over, "checkpoint_before_period_end")
        ++ Require("receipt_count" \notin c.defects, "receipt_count")
        ++ Require("merkle_root" \notin c.defects, "merkle_root")
        ++ Require(pair, "previous_pair")
        ++ Require("previous_id" \notin c.defects, "previous_id")
        ++ Require("previous_root" \notin c.defects, "previous_root")
  BY DEF CheckCheckpointContext
<1> HIDE DEF order, day, over, pair
<1>2. CheckCheckpointContext(c, t) = Accepted <=>
        /\ "context_members" \notin c.defects
        /\ c.period_start # Unparseable /\ c.period_end # Unparseable /\ t # Unparseable
        /\ order /\ day /\ over
        /\ "receipt_count" \notin c.defects /\ "merkle_root" \notin c.defects
        /\ pair
        /\ "previous_id" \notin c.defects /\ "previous_root" \notin c.defects
  BY <1>1, ZenonT(30) DEF ++, Require, Accepted
<1> QED
  BY <1>2 DEF order, day, over, pair

LEMMA SameContext ==
  ASSUME NEW c, NEW t \in Instants, c.period_start \in Instants, c.period_end \in Instants
  PROVE  TsCheckCheckpointContext(c, t) = Accepted <=> CheckCheckpointContext(c, t) = Accepted
<1> DEFINE order == ~(c.period_end <= c.period_start)
           day == c.period_start % Day = 0 /\ c.period_end - c.period_start = Day
           over == ~(t < c.period_end)
           pair == c.previous_id = Null <=> c.previous_root = NoRoot
           counts == FirstDefect(<< "receipt_count", "merkle_root" >>, c.defects)
           links == FirstDefect(<< "previous_id", "previous_root" >>, c.defects)
<1>1. TsCheckCheckpointContext(c, t) =
        Require("context_members" \notin c.defects, "context_members")
        ++ Require(c.period_start # Unparseable, "period_start")
        ++ Require(c.period_end # Unparseable, "period_end")
        ++ Require(t # Unparseable, "issued_at")
        ++ Require(order, "period_order") ++ Require(day, "period_not_a_day")
        ++ Require(over, "checkpoint_before_period_end")
        ++ counts ++ Require(pair, "previous_pair") ++ links
  BY DEF TsCheckCheckpointContext
<1>2. /\ counts = Accepted <=> "receipt_count" \notin c.defects /\ "merkle_root" \notin c.defects
      /\ links = Accepted <=> "previous_id" \notin c.defects /\ "previous_root" \notin c.defects
  BY TwoDefects DEF Accepted
<1>3. /\ order <=> c.period_end > c.period_start
      /\ day <=> c.period_start % Day = 0 /\ c.period_end = c.period_start + Day
      /\ over <=> t >= c.period_end
      /\ pair <=> ((c.previous_id = Null) = (c.previous_root = NoRoot))
  BY DayAssumption DEF Instants, Unparseable
<1> HIDE DEF order, day, over, pair, counts, links
<1>4. TsCheckCheckpointContext(c, t) = Accepted <=>
        /\ "context_members" \notin c.defects
        /\ c.period_start # Unparseable /\ c.period_end # Unparseable /\ t # Unparseable
        /\ order /\ day /\ over /\ counts = Accepted /\ pair /\ links = Accepted
  BY <1>1 DEF ++, Require, Accepted
<1> QED
  BY <1>2, <1>3, <1>4, ContextAccepts

\* What an event must be, in both languages.
LEMMA SameEvent ==
  ASSUME NEW p, p.issued_at \in Instants,
         p.context.period_start \in Instants, p.context.period_end \in Instants
  PROVE  TsCheckEvent(p) = Accepted <=> CheckEvent(p) = Accepted
<1> DEFINE context == CheckCheckpointContext(p.context, p.issued_at)
           tscontext == TsCheckCheckpointContext(p.context, p.issued_at)
           about == CheckSubject(p)
           tsabout == IF p.event = "receipt_checkpoint"
                        THEN Require(p.authorization_id = Null, "checkpoint_authorization")
                             ++ Require(p.resource = Null, "checkpoint_resource") ++ tscontext
                        ELSE Require(p.authorization_id # Null, "event_authorization")
<1>1. tscontext = Accepted <=> context = Accepted
  BY SameContext
<1>2. about = Accepted <=> tsabout = Accepted
  <2> HIDE DEF context, tscontext
  <2>1. about = IF p.event = "receipt_checkpoint"
                  THEN Require(p.authorization_id = Null, "checkpoint_authorization")
                       ++ Require(p.resource = Null, "checkpoint_resource") ++ context
                  ELSE Require(p.authorization_id # Null, "event_authorization")
    BY DEF CheckSubject, IsCheckpoint, context
  <2> HIDE DEF about
  <2> QED
    BY <1>1, <2>1 DEF ++, Require, Accepted
<1>3. TsCheckEvent(p) =
        Require(p.event # NotString, "event_type")
        ++ Require(p.event \in DOMAIN EventDecisions, "unknown_event")
        ++ Require(p.decision \in EventDecisions[p.event], "event_decision")
        ++ tsabout
        ++ Require(p.event \notin LifecycleEvents \/ p.resource = Null, "lifecycle_resource")
        ++ Require(p.policy_eval = Absent, "event_policy_eval")
  BY DEF TsCheckEvent
<1>4. CheckEvent(p) =
        Require(p.event # NotString, "event_type")
        ++ Require(p.event \in DOMAIN EventDecisions, "unknown_event")
        ++ Require(p.decision \in EventDecisions[p.event], "event_decision")
        ++ about
        ++ Require(p.event \in LifecycleEvents => p.resource = Null, "lifecycle_resource")
        ++ Require(p.policy_eval = Absent, "event_policy_eval")
  BY DEF CheckEvent, Events
<1> HIDE DEF about, tsabout
<1>5. TsCheckEvent(p) = Accepted <=>
        /\ p.event # NotString /\ p.event \in DOMAIN EventDecisions
        /\ p.decision \in EventDecisions[p.event] /\ tsabout = Accepted
        /\ p.event \notin LifecycleEvents \/ p.resource = Null
        /\ p.policy_eval = Absent
  BY <1>3 DEF ++, Require, Accepted
<1>6. CheckEvent(p) = Accepted <=>
        /\ p.event # NotString /\ p.event \in DOMAIN EventDecisions
        /\ p.decision \in EventDecisions[p.event] /\ about = Accepted
        /\ p.event \in LifecycleEvents => p.resource = Null
        /\ p.policy_eval = Absent
  BY <1>4 DEF ++, Require, Accepted
<1> QED
  BY <1>2, <1>5, <1>6

\* The kind of a receipt and what goes with it.
LEMMA SamePairing ==
  ASSUME NEW p, p.issued_at \in Instants,
         p.context.period_start \in Instants, p.context.period_end \in Instants
  PROVE  CheckPairing(p) = Accepted <=>
           /\ ~(p.action # Absent /\ p.event # Absent) /\ ~(p.action = Absent /\ p.event = Absent)
           /\ (IF p.event # Absent THEN TsCheckEvent(p) ELSE TsCheckAction(p)) = Accepted
           /\ TsCheckPolicyRef(p) = Accepted
<1> DEFINE event == CheckEvent(p)
           action == CheckAction(p)
           branch == IF IsEvent(p) THEN event ELSE action
           policy == CheckPolicyPairing(p)
<1>1. event = Accepted <=> TsCheckEvent(p) = Accepted
  BY SameEvent
<1>2. action = TsCheckAction(p)
  BY DEF CheckAction, TsCheckAction
<1>3. policy = Accepted <=> TsCheckPolicyRef(p) = Accepted
  BY DEF CheckPolicyPairing, TsCheckPolicyRef, IsEvent, IsCheckpoint, ++, Require, Accepted, Absent
<1>4. CheckPairing(p) = CheckKind(p) ++ branch ++ policy
  BY DEF CheckPairing
<1>5. IsEvent(p) <=> p.event # Absent
  BY DEF IsEvent
<1> HIDE DEF event, action, policy
<1>6. branch = Accepted <=> (IF p.event # Absent THEN TsCheckEvent(p) ELSE TsCheckAction(p)) = Accepted
  BY <1>1, <1>2, <1>5
<1> HIDE DEF branch
<1>7. CheckKind(p) = Accepted <=>
        ~(p.action # Absent /\ p.event # Absent) /\ ~(p.action = Absent /\ p.event = Absent)
  BY DEF CheckKind, ++, Require, Accepted
<1> QED
  BY <1>3, <1>4, <1>6, <1>7, AndThenAccepts

-----------------------------------------------------------------------------
\* An entry that ends the search for a kid is the first one exactly if it is the
\* candidate; if there is one, there is a first one.
LEMMA CandidateIsFirst ==
  ASSUME NEW ks, NEW n \in Nat, DOMAIN ks = 1 .. n, NEW kid, NEW k \in 1 .. n, StopsSearch(ks[k], kid)
  PROVE  /\ Candidate(ks, kid) \in 1 .. n /\ StopsSearch(ks[Candidate(ks, kid)], kid)
         /\ \A j \in 1 .. n : StopsSearch(ks[j], kid) => Candidate(ks, kid) <= j
         /\ (CHOOSE i \in {j \in DOMAIN ks : StopsSearch(ks[j], kid)} :
               \A j \in {m \in DOMAIN ks : StopsSearch(ks[m], kid)} : i <= j) = Candidate(ks, kid)
<1> DEFINE hits == {j \in DOMAIN ks : StopsSearch(ks[j], kid)}
           First(i) == i \in hits /\ \A j \in hits : i <= j
           c == Candidate(ks, kid)
           d == CHOOSE i \in hits : \A j \in hits : i <= j
<1>1. PICK m \in hits : \A j \in hits : m <= j
  <2>1. hits \subseteq Nat /\ hits # {}
    OBVIOUS
  <2> HIDE DEF hits
  <2> QED
    BY <2>1, LeastNumber
<1>4. First(m)
  BY <1>1
<1>5. First(d)
  <2>1. \E i \in hits : \A j \in hits : i <= j
    BY <1>4
  <2> HIDE DEF hits
  <2> QED
    BY <2>1
<1>6. First(c)
  <2> DEFINE P(i) == /\ StopsSearch(ks[i], kid)
                     /\ \A j \in DOMAIN ks : StopsSearch(ks[j], kid) => i <= j
  <2>1. c = CHOOSE i \in DOMAIN ks : P(i)
    BY DEF Candidate
  <2>2. m \in DOMAIN ks /\ P(m)
    BY <1>4
  <2>3. c \in DOMAIN ks /\ P(c)
    <3> HIDE DEF P, c
    <3> QED BY <2>1, <2>2
  <2> HIDE DEF c
  <2> QED
    BY <2>3
<1>7. c = d
  <2>1. c \in Nat /\ d \in Nat /\ c <= d /\ d <= c
    <3> HIDE DEF c, d
    <3> QED BY <1>5, <1>6
  <2> HIDE DEF c, d
  <2> QED
    BY <2>1
<1>8. d = CHOOSE i \in {j \in DOMAIN ks : StopsSearch(ks[j], kid)} :
               \A j \in {m1 \in DOMAIN ks : StopsSearch(ks[m1], kid)} : i <= j
  OBVIOUS
<1> HIDE DEF c, d
<1> QED
  BY <1>6, <1>7, <1>8 DEF c

\* findKey and _find_key take the same key.
LEMMA SameKey ==
  ASSUME NEW ks, IsKeyList(ks), NEW kid, NEW t \in Instants
  PROVE  TsFindKey(ks, kid, t) = Accepted <=> FindKey(ks, kid, t) = Accepted
<1> DEFINE n == Len(ks)
           hits == {j \in DOMAIN ks : StopsSearch(ks[j], kid)}
           c == Candidate(ks, kid)
           d == CHOOSE i \in hits : \A j \in hits : i <= j
<1>1. n \in Nat /\ DOMAIN ks = 1 .. n
  BY DEF IsKeyList
<1>2. CASE hits = {}
  BY <1>2 DEF TsFindKey, FindKey
<1>3. CASE hits # {}
  <2>1. PICK k \in 1 .. n : StopsSearch(ks[k], kid)
    BY <1>1, <1>3
  <2>2. c \in 1 .. n /\ d = c
    BY <1>1, <2>1, CandidateIsFirst
  <2> DEFINE entry == ks[c]
             shape == FirstDefect(KeyOrder, entry.defects)
             tsshape == FirstDefect(TsKeyOrder, entry.defects)
  <2>3. shape = Accepted <=> tsshape = Accepted
    BY SameDefects
  <2>4. entry.active_from \in Int /\ entry.active_until \subseteq Int /\ t \in Int
    BY <1>1, <2>2 DEF IsKeyList, Instants, Unparseable
  <2>5. FindKey(ks, kid, t) = CheckKey(entry, t)
    BY <1>1, <2>1 DEF FindKey
  <2>6. TsFindKey(ks, kid, t) =
          tsshape
          ++ Require(\A u \in ks[d].active_until : ~(u <= ks[d].active_from), "empty_window")
          ++ Require(~(t < ks[d].active_from), "not_yet_active")
          ++ Require(\A u \in ks[d].active_until : ~(t >= u), "retired")
    BY <1>3, <2>2 DEF TsFindKey
  <2>7. CheckKey(entry, t) =
          shape ++ Require(\A u \in entry.active_until : entry.active_from < u, "empty_window")
          ++ Require(entry.active_from <= t, "not_yet_active")
          ++ Require(\A u \in entry.active_until : t < u, "retired")
    BY DEF CheckKey
  <2> HIDE DEF shape, tsshape, c, d
  <2>8. CheckKey(entry, t) = Accepted <=>
          /\ shape = Accepted /\ (\A u \in entry.active_until : entry.active_from < u)
          /\ entry.active_from <= t /\ \A u \in entry.active_until : t < u
    BY <2>7 DEF ++, Require, Accepted
  <2>9. TsFindKey(ks, kid, t) = Accepted <=>
          /\ tsshape = Accepted /\ (\A u \in entry.active_until : ~(u <= entry.active_from))
          /\ ~(t < entry.active_from) /\ \A u \in entry.active_until : ~(t >= u)
    BY <2>2, <2>6 DEF ++, Require, Accepted
  <2> HIDE DEF entry
  <2>10. /\ (\A u \in entry.active_until : entry.active_from < u)
              <=> (\A u \in entry.active_until : ~(u <= entry.active_from))
         /\ entry.active_from <= t <=> ~(t < entry.active_from)
         /\ (\A u \in entry.active_until : t < u) <=> (\A u \in entry.active_until : ~(t >= u))
    BY <2>4
  <2> QED
    BY <2>3, <2>5, <2>8, <2>9, <2>10
<1> QED
  BY <1>2, <1>3

-----------------------------------------------------------------------------
\* verifyReceipt until it has its key asks what verify_receipt asks before it
\* looks at the pinned keys and the signature.
LEMMA UntilKeyAccepts ==
  ASSUME NEW r, IsReceipt(r), NEW ks, IsKeyList(ks), NEW t \in Instants, NEW w
  PROVE  TsUntilKey(r, ks, t, w) = Accepted <=>
           /\ JwsParts(r) = Accepted /\ t # Unparseable
           /\ CheckVersion(r.payload) = Accepted /\ CheckWorkspace(r.payload, w) = Accepted
           /\ CheckSchema(r.payload) = Accepted /\ CheckPairing(r.payload) = Accepted
           /\ CheckIssuedAt(r.payload, t) = Accepted
           /\ FindKey(ks, r.kid, r.payload.issued_at) = Accepted
<1> DEFINE p     == r.payload
           parts == TsJwsParts(r)
           kind  == ~(p.action # Absent /\ p.event # Absent)
           some  == ~(p.action = Absent /\ p.event = Absent)
           here  == \A v \in w : p.workspace_id = v
           rules == IF p.event # Absent THEN TsCheckEvent(p) ELSE TsCheckAction(p)
           ref   == TsCheckPolicyRef(p)
           early == ~(p.issued_at > t + Skew)
           found == TsFindKey(ks, r.kid, p.issued_at)
<1>1. TsUntilKey(r, ks, t, w) =
        parts ++ Require(t # Unparseable, "now") ++ Require(here, "workspace_mismatch")
        ++ Require(kind, "both_kinds") ++ Require(some, "no_kind") ++ rules ++ ref
        ++ Require(p.issued_at # Unparseable, "issued_at") ++ Require(early, "issued_in_future")
        ++ found
  BY DEF TsUntilKey
<1>2. /\ p.issued_at \in Instants
      /\ p.context.period_start \in Instants /\ p.context.period_end \in Instants
  BY DEF IsReceipt, IsPayload, IsContext
<1>3. CheckPairing(p) = Accepted <=> kind /\ some /\ rules = Accepted /\ ref = Accepted
  BY <1>2, SamePairing
<1>4. found = Accepted <=> FindKey(ks, r.kid, p.issued_at) = Accepted
  BY <1>2, SameKey
<1>5. CheckIssuedAt(p, t) = Accepted <=> p.issued_at # Unparseable /\ early
  <2>1. p.issued_at \in Int /\ t \in Int /\ Skew \in Int
    BY <1>2, SkewAssumption DEF Instants, Unparseable
  <2>2. p.issued_at <= t + Skew <=> early
    <3> HIDE DEF p
    <3> QED BY <2>1
  <2> QED
    BY <2>2 DEF CheckIssuedAt, ++, Require, Accepted
<1>6. CheckWorkspace(p, w) = Accepted <=> here
  BY DEF CheckWorkspace, Require, Accepted
<1>7. parts = Accepted <=> JwsParts(r) = Accepted /\ CheckVersion(p) = Accepted
                             /\ CheckSchema(p) = Accepted
  BY SameDecoding
<1> HIDE DEF p, parts, kind, some, here, rules, ref, early, found
<1>8. TsUntilKey(r, ks, t, w) = Accepted <=>
        /\ parts = Accepted /\ t # Unparseable /\ here /\ kind /\ some /\ rules = Accepted
        /\ ref = Accepted /\ p.issued_at # Unparseable /\ early /\ found = Accepted
  BY <1>1 DEF ++, Require, Accepted
<1>9. TsUntilKey(r, ks, t, w) = Accepted <=>
        /\ JwsParts(r) = Accepted /\ t # Unparseable
        /\ CheckVersion(p) = Accepted /\ CheckWorkspace(p, w) = Accepted
        /\ CheckSchema(p) = Accepted /\ CheckPairing(p) = Accepted
        /\ CheckIssuedAt(p, t) = Accepted
        /\ FindKey(ks, r.kid, p.issued_at) = Accepted
  BY <1>3, <1>4, <1>5, <1>6, <1>7, <1>8
<1> QED
  BY <1>9 DEF p

\* The two accept the same receipts: what is left of either is whether the key
\* is pinned and made the signature.
LEMMA VerdictsAgree ==
  ASSUME NEW r, IsReceipt(r), NEW ks, IsKeyList(ks), NEW t \in Instants, NEW w, NEW pinned
  PROVE  /\ VerifyReceipt(r, ks, t, w, pinned) = Accepted <=>
              /\ TsUntilKey(r, ks, t, w) = Accepted
              /\ TsCheckTrusted(ks[Candidate(ks, r.kid)], pinned) = Accepted
              /\ TsCheckSignature(r, ks[Candidate(ks, r.kid)]) = Accepted
         /\ TsVerifyReceipt(r, ks, t, w, pinned) = Accepted
              <=> VerifyReceipt(r, ks, t, w, pinned) = Accepted
<1> DEFINE entry == ks[Candidate(ks, r.kid)]
           trust == TsCheckTrusted(entry, pinned)
           signed == TsCheckSignature(r, entry)
           find == FindKey(ks, r.kid, r.payload.issued_at)
           until == TsUntilKey(r, ks, t, w)
<1>1. CheckKeyAndSignature(r, ks, pinned) = find ++ trust ++ signed
  BY DEF CheckKeyAndSignature, CheckTrusted, TsCheckTrusted, CheckSignature, TsCheckSignature
<1>2. CheckKeyAndSignature(r, ks, pinned) = Accepted
        <=> find = Accepted /\ trust = Accepted /\ signed = Accepted
  <2> HIDE DEF find, trust, signed
  <2> QED BY <1>1, AndThenAccepts
<1>3. TsVerifyReceipt(r, ks, t, w, pinned) = until ++ trust ++ signed
  BY DEF TsVerifyReceipt
<1>4. TsVerifyReceipt(r, ks, t, w, pinned) = Accepted
        <=> until = Accepted /\ trust = Accepted /\ signed = Accepted
  <2> HIDE DEF until, trust, signed
  <2> QED BY <1>3, AndThenAccepts
<1>5. VerifyReceipt(r, ks, t, w, pinned) = Accepted
        <=> until = Accepted /\ trust = Accepted /\ signed = Accepted
  BY <1>2, VerifyAccepts, UntilKeyAccepts
<1> QED
  BY <1>4, <1>5

-----------------------------------------------------------------------------
(* VerifierParity. *)

\* What has been answered is what the implementation says of the input, which
\* is a receipt of the data model; of a payload nothing is answered.
ParityInv ==
  /\ subject = "receipt" => input \in Inputs
  /\ subject # "receipt" => python = Unanswered /\ typescript = Unanswered
  /\ python # Unanswered =>
       python = VerifyReceipt(input.receipt, input.keys, input.now, input.workspace, input.trusted)
  /\ typescript # Unanswered =>
       typescript =
         TsVerifyReceipt(input.receipt, input.keys, input.now, input.workspace, input.trusted)

LEMMA AnswersAreOfTheInput == ParitySpec => []ParityInv
<1>1. ParityInit => ParityInv
  BY DEF ParityInit, ParityInv
<1>2. ParityInv /\ [ParityNext]_parityVars => ParityInv'
  <2> SUFFICES ASSUME ParityInv, [ParityNext]_parityVars PROVE ParityInv'
    OBVIOUS
  <2>1. CASE PythonAnswers
    BY <2>1 DEF ParityInv, PythonAnswers
  <2>2. CASE TypeScriptAnswers
    BY <2>2 DEF ParityInv, TypeScriptAnswers
  <2>3. CASE Walk
    BY <2>3 DEF ParityInv, Walk, receiptVars
  <2>4. CASE UNCHANGED parityVars
    BY <2>4 DEF ParityInv, parityVars, receiptVars
  <2> QED
    BY <2>1, <2>2, <2>3, <2>4 DEF ParityNext
<1> QED
  BY <1>1, <1>2, PTL DEF ParitySpec

\* A receipt is valid for both implementations or for neither, whatever its
\* faults, the keys, the clock and the options (verify_receipt, verifyReceipt).
THEOREM BothAcceptTheSame == ParitySpec => []SameAcceptance
<1>1. ParityInv => SameAcceptance
  BY InputsAssumption, VerdictsAgree DEF ParityInv, SameAcceptance, BothAnswered
<1> QED
  BY <1>1, AnswersAreOfTheInput, PTL

-----------------------------------------------------------------------------
(* The rules of the format, part by part. *)

\* The shape: a part of the data model in which no defect is found has none.
LEMMA ShapeAccepts ==
  ASSUME NEW r, IsReceipt(r)
  PROVE  /\ JwsParts(r) = Accepted <=> r.jws = {}
         /\ FirstDefect(SchemaOrder, r.payload.defects) = Accepted
              /\ "policy_eval_shape" \notin r.payload.defects
              <=> r.payload.defects = {}
         /\ CheckVersion(r.payload) = Accepted <=> r.payload.schema_version = "5"
<1> DEFINE p == r.payload
<1>1. /\ DOMAIN JwsOrder = 1 .. 14 /\ \A i \in 1 .. 14 : JwsOrder[i] # Accepted
      /\ DOMAIN SchemaOrder = 1 .. 7 /\ \A i \in 1 .. 7 : SchemaOrder[i] # Accepted
  BY DEF JwsOrder, SchemaOrder, Accepted
<1>2. /\ r.jws \subseteq {JwsOrder[i] : i \in 1 .. 14}
      /\ p.defects \subseteq {SchemaOrder[i] : i \in 1 .. 7} \union {"policy_eval_shape"}
  BY <1>1 DEF IsReceipt, IsPayload
<1>3. JwsParts(r) = Accepted <=> \A i \in 1 .. 14 : JwsOrder[i] \notin r.jws
  BY <1>1, FirstDefectAccepts DEF JwsParts
<1>4. FirstDefect(SchemaOrder, p.defects) = Accepted
        <=> \A i \in 1 .. 7 : SchemaOrder[i] \notin p.defects
  BY <1>1, FirstDefectAccepts
<1>5. CheckVersion(p) = Accepted <=> p.schema_version = "5"
  BY DEF CheckVersion, SpecVersion, Require, Accepted
<1> HIDE DEF p
<1>6. (\A i \in 1 .. 14 : JwsOrder[i] \notin r.jws) <=> r.jws = {}
  BY <1>2
<1>7. (\A i \in 1 .. 7 : SchemaOrder[i] \notin p.defects) /\ "policy_eval_shape" \notin p.defects
        <=> p.defects = {}
  BY <1>2
<1> QED
  BY <1>3, <1>4, <1>5, <1>6, <1>7 DEF p

\* The provisional result of a replayed policy.
LEMMA ResultAccepts ==
  ASSUME NEW v,
         v.defects \subseteq {"result_members", "result_profile", "result_rule", "result_fields"}
  PROVE  CheckPolicyResult(v) = Accepted <=>
           /\ v.defects = {}
           /\ << v.decision, v.target >> \in
                { << "allow", Null >>, << "deny", Null >>,
                  << "confirm", "agent_owner" >>, << "escalate", "member" >> }
           /\ v.rule = Null => v.fields = {}
<1>1. CheckPolicyResult(v) = Accepted <=>
        /\ "result_members" \notin v.defects /\ "result_profile" \notin v.defects
        /\ v.decision \in ActionDecisions /\ v.target = ResultTarget(v.decision)
        /\ "result_rule" \notin v.defects /\ "result_fields" \notin v.defects
        /\ v.rule = Null => v.fields = {}
  BY DEF CheckPolicyResult, ++, Require, Accepted
<1>2. v.decision \in ActionDecisions /\ v.target = ResultTarget(v.decision) <=>
        << v.decision, v.target >> \in
          { << "allow", Null >>, << "deny", Null >>,
            << "confirm", "agent_owner" >>, << "escalate", "member" >> }
  BY DEF ActionDecisions, ResultTarget, Null
<1>3. v.defects = {} <=>
        /\ "result_members" \notin v.defects /\ "result_profile" \notin v.defects
        /\ "result_rule" \notin v.defects /\ "result_fields" \notin v.defects
  OBVIOUS
<1> QED
  BY <1>1, <1>2, <1>3

\* The shape of a payload and what an evaluation reports.
LEMMA SchemaAccepts ==
  ASSUME NEW r, IsReceipt(r)
  PROVE  CheckSchema(r.payload) = Accepted <=>
           /\ r.payload.defects = {}
           /\ r.payload.policy_eval # Absent =>
                /\ r.payload.policy_ref # Null
                /\ CheckPolicyResult(r.payload.policy_result) = Accepted
<1> DEFINE p == r.payload
           shape == FirstDefect(SchemaOrder, p.defects)
           result == CheckPolicyResult(p.policy_result)
           eval == IF p.policy_eval = Absent THEN Accepted
                   ELSE Require("policy_eval_shape" \notin p.defects, "policy_eval_shape")
                        ++ result ++ Require(p.policy_ref # Null, "policy_eval_without_ref")
<1>1. CheckSchema(p) = shape ++ eval
  BY DEF CheckSchema, CheckPolicyEval
<1>2. shape = Accepted /\ "policy_eval_shape" \notin p.defects <=> p.defects = {}
  BY ShapeAccepts
<1>3. "policy_eval_shape" \in p.defects => p.policy_eval # Absent
  BY DEF IsReceipt, IsPayload
<1> HIDE DEF p, shape, result
<1>4. eval = Accepted <=>
        (p.policy_eval # Absent =>
           "policy_eval_shape" \notin p.defects /\ result = Accepted /\ p.policy_ref # Null)
  BY DEF ++, Require, Accepted
<1> HIDE DEF eval
<1>5. CheckSchema(p) = Accepted <=> shape = Accepted /\ eval = Accepted
  BY <1>1, AndThenAccepts
<1>6. CheckSchema(p) = Accepted <=>
        /\ p.defects = {}
        /\ p.policy_eval # Absent => p.policy_ref # Null /\ result = Accepted
  BY <1>2, <1>3, <1>4, <1>5
<1> QED
  BY <1>6 DEF p, result

\* A period that starts at a multiple of the day and lasts a day, and is over.
LEMMA WholeDays ==
  ASSUME NEW t \in Instants, NEW start \in Instants, NEW end \in Instants
  PROVE  /\ start # Unparseable /\ end # Unparseable /\ t # Unparseable /\ end > start
         /\ start % Day = 0 /\ end = start + Day /\ t >= end
         <=> \E d \in 0 .. t : start = d * Day /\ end = (d + 1) * Day /\ (d + 1) * Day <= t
<1>1. Day \in Nat \ {0}
  BY DayAssumption
<1>2. ASSUME start # Unparseable, end # Unparseable, t # Unparseable, end > start,
             start % Day = 0, end = start + Day, t >= end
      PROVE  \E d \in 0 .. t : start = d * Day /\ end = (d + 1) * Day /\ (d + 1) * Day <= t
  <2> DEFINE d == start \div Day
  <2>1. start \in Nat /\ end \in Nat /\ t \in Nat
    BY <1>2 DEF Instants
  <2>2. d \in Nat /\ d <= start /\ start = d * Day
    BY <1>1, <1>2, <2>1
  <2> HIDE DEF d
  <2>3. end = (d + 1) * Day
    BY <1>1, <1>2, <2>2
  <2>4. d \in 0 .. t
    BY <1>1, <1>2, <2>1, <2>2
  <2> QED
    BY <1>2, <2>2, <2>3, <2>4
<1>3. ASSUME NEW d \in 0 .. t,
             start = d * Day, end = (d + 1) * Day, (d + 1) * Day <= t
      PROVE  /\ start # Unparseable /\ end # Unparseable /\ t # Unparseable /\ end > start
             /\ start % Day = 0 /\ end = start + Day /\ t >= end
  <2>1. d \in Nat /\ t \in Int
    BY DEF Instants, Unparseable
  <2>2. start % Day = 0 /\ end = start + Day /\ start \in Nat
    BY <1>1, <1>3, <2>1
  <2> QED
    BY <1>1, <1>3, <2>1, <2>2 DEF Unparseable
<1> QED
  BY <1>2, <1>3

\* A checkpoint's context.
LEMMA CheckpointAccepts ==
  ASSUME NEW p, IsPayload(p), p.event = "receipt_checkpoint"
  PROVE  CheckCheckpointContext(p.context, p.issued_at) = Accepted <=> CheckpointIsValid(p)
<1> DEFINE c == p.context
           t == p.issued_at
<1>1. /\ t \in Instants /\ c.period_start \in Instants /\ c.period_end \in Instants
      /\ c.defects \subseteq {"context_members", "receipt_count", "merkle_root", "previous_id",
                              "previous_root", "previous_id_unhashable"}
      /\ "previous_id_unhashable" \in c.defects => "previous_id" \in c.defects
  BY DEF IsPayload, IsContext
<1>2. CheckpointIsValid(p) <=>
        /\ c.defects = {}
        /\ \E d \in 0 .. t :
             c.period_start = d * Day /\ c.period_end = (d + 1) * Day /\ (d + 1) * Day <= t
        /\ c.previous_id = Null <=> c.previous_root = NoRoot
  BY DEF CheckpointIsValid
<1>3. CheckCheckpointContext(c, t) = Accepted <=>
        /\ c.defects \cap {"context_members", "receipt_count", "merkle_root", "previous_id",
                           "previous_root"} = {}
        /\ c.period_start # Unparseable /\ c.period_end # Unparseable /\ t # Unparseable
        /\ c.period_end > c.period_start
        /\ c.period_start % Day = 0 /\ c.period_end = c.period_start + Day
        /\ t >= c.period_end
        /\ (c.previous_id = Null) = (c.previous_root = NoRoot)
  BY ContextAccepts
<1> HIDE DEF c, t
<1>4. c.defects \cap {"context_members", "receipt_count", "merkle_root", "previous_id",
                      "previous_root"} = {} <=> c.defects = {}
  BY <1>1
<1>5. CheckCheckpointContext(c, t) = Accepted <=> CheckpointIsValid(p)
  BY <1>1, <1>2, <1>3, <1>4, WholeDays
<1> QED
  BY <1>5 DEF c, t

\* What a checkpoint and any other event must be.
LEMMA EventAccepts ==
  ASSUME NEW p, IsPayload(p)
  PROVE  CheckEvent(p) = Accepted <=>
           /\ \/ p.event = "authorization_create" /\ p.decision = "authorization_granted"
              \/ p.event = "authorization_revoke" /\ p.decision = "authorization_revoked"
              \/ p.event = "budget_settle" /\ p.decision = "budget_settled"
              \/ /\ p.event = "confirmation_resolve"
                 /\ p.decision \in {"confirmation_approved", "confirmation_rejected"}
              \/ /\ p.event = "escalation_resolve"
                 /\ p.decision \in {"escalation_approved", "escalation_rejected"}
              \/ p.event = "receipt_checkpoint" /\ p.decision = "receipt_set_committed"
           /\ (p.authorization_id = Null) = (p.event = "receipt_checkpoint")
           /\ p.event \in {"authorization_create", "authorization_revoke", "receipt_checkpoint"}
                => p.resource = Null
           /\ p.policy_eval = Absent
           /\ CheckpointIsValid(p)
<1> DEFINE context == CheckCheckpointContext(p.context, p.issued_at)
           about == CheckSubject(p)
           Table == \/ p.event = "authorization_create" /\ p.decision = "authorization_granted"
                    \/ p.event = "authorization_revoke" /\ p.decision = "authorization_revoked"
                    \/ p.event = "budget_settle" /\ p.decision = "budget_settled"
                    \/ /\ p.event = "confirmation_resolve"
                       /\ p.decision \in {"confirmation_approved", "confirmation_rejected"}
                    \/ /\ p.event = "escalation_resolve"
                       /\ p.decision \in {"escalation_approved", "escalation_rejected"}
                    \/ p.event = "receipt_checkpoint" /\ p.decision = "receipt_set_committed"
<1>1. p.event = "receipt_checkpoint" => (context = Accepted <=> CheckpointIsValid(p))
  BY CheckpointAccepts
<1>2. p.event # "receipt_checkpoint" => CheckpointIsValid(p)
  BY DEF CheckpointIsValid
<1>3. about = IF p.event = "receipt_checkpoint"
                THEN Require(p.authorization_id = Null, "checkpoint_authorization")
                     ++ Require(p.resource = Null, "checkpoint_resource") ++ context
                ELSE Require(p.authorization_id # Null, "event_authorization")
  BY DEF CheckSubject, IsCheckpoint
<1>4. CheckEvent(p) =
        Require(p.event # NotString, "event_type")
        ++ Require(p.event \in Events, "unknown_event")
        ++ Require(p.decision \in EventDecisions[p.event], "event_decision")
        ++ about
        ++ Require(p.event \in LifecycleEvents => p.resource = Null, "lifecycle_resource")
        ++ Require(p.policy_eval = Absent, "event_policy_eval")
  BY DEF CheckEvent
<1> HIDE DEF context, about
<1>5. CheckEvent(p) = Accepted <=>
        /\ p.event # NotString /\ p.event \in Events
        /\ p.decision \in EventDecisions[p.event] /\ about = Accepted
        /\ p.event \in LifecycleEvents => p.resource = Null
        /\ p.policy_eval = Absent
  BY <1>4 DEF ++, Require, Accepted
<1>6. about = Accepted <=>
        IF p.event = "receipt_checkpoint"
        THEN p.authorization_id = Null /\ p.resource = Null /\ context = Accepted
        ELSE p.authorization_id # Null
  BY <1>3 DEF ++, Require, Accepted
<1>7. p.event # NotString /\ p.event \in Events /\ p.decision \in EventDecisions[p.event] <=> Table
  BY DEF Events, EventDecisions, NotString
<1> HIDE DEF Table
<1>8. CheckEvent(p) = Accepted <=>
        /\ Table
        /\ (p.authorization_id = Null) = (p.event = "receipt_checkpoint")
        /\ p.event \in {"authorization_create", "authorization_revoke", "receipt_checkpoint"}
             => p.resource = Null
        /\ p.policy_eval = Absent
        /\ CheckpointIsValid(p)
  BY <1>1, <1>2, <1>5, <1>6, <1>7 DEF LifecycleEvents
<1> QED
  BY <1>8 DEF Table

\* The kind, the policy edition and the period, in any order.
LEMMA PairingAccepts ==
  ASSUME NEW p, IsPayload(p)
  PROVE  CheckPairing(p) = Accepted <=>
           /\ KindIsValid(p) /\ CheckpointIsValid(p)
           /\ p.authorization_id = Null => p.policy_ref = Null
           /\ p.authorization_id # Null => p.policy_ref # Null \/ p.action = "record_seal"
<1> DEFINE kind == CheckKind(p)
           event == CheckEvent(p)
           action == CheckAction(p)
           branch == IF IsEvent(p) THEN event ELSE action
           policy == CheckPolicyPairing(p)
<1>1. CheckPairing(p) = kind ++ branch ++ policy
  BY DEF CheckPairing
<1>2. kind = Accepted <=> (p.action = Absent \/ p.event = Absent)
                            /\ (p.action # Absent \/ p.event # Absent)
  BY DEF CheckKind, ++, Require, Accepted
<1>3. action = Accepted <=>
        p.action # NotString /\ p.decision \in {"allow", "deny", "confirm", "escalate"}
  BY DEF CheckAction, ActionDecisions, EventOnlyDecisions, Events, EventDecisions,
         ++, Require, Accepted
<1>4. policy = Accepted <=>
        IF IsEvent(p)
        THEN IF IsCheckpoint(p) THEN p.policy_ref = Null ELSE p.policy_ref # Null
        ELSE IF p.authorization_id = Null THEN p.policy_ref = Null
             ELSE p.policy_ref # Null \/ p.action = "record_seal"
  BY DEF CheckPolicyPairing, Require, Accepted
<1> HIDE DEF kind, event, action, policy
<1>5. CheckPairing(p) = Accepted <=> kind = Accepted /\ branch = Accepted /\ policy = Accepted
  <2> HIDE DEF branch
  <2> QED BY <1>1, AndThenAccepts
<1>6. CASE p.event = Absent
  <2>1. ~IsEvent(p) /\ CheckpointIsValid(p)
    BY <1>6 DEF IsEvent, CheckpointIsValid, Absent
  <2>2. KindIsValid(p) <=> p.action \notin {Absent, NotString}
                             /\ p.decision \in {"allow", "deny", "confirm", "escalate"}
    BY <1>6 DEF KindIsValid, Absent
  <2> QED
    BY <1>2, <1>3, <1>4, <1>5, <1>6, <2>1, <2>2
<1>7. CASE p.event # Absent
  <2>1. IsEvent(p) /\ (IsCheckpoint(p) <=> p.event = "receipt_checkpoint")
    BY <1>7 DEF IsEvent, IsCheckpoint
  <2>2. event = Accepted /\ p.action = Absent <=>
          KindIsValid(p) /\ CheckpointIsValid(p) /\ p.action = Absent
    BY <1>7, EventAccepts DEF KindIsValid, event
  <2>3. KindIsValid(p) => p.action = Absent
    BY <1>7 DEF KindIsValid
  <2>4. KindIsValid(p) => (p.authorization_id = Null <=> p.event = "receipt_checkpoint")
    BY <1>7 DEF KindIsValid
  <2>5. Absent # "record_seal"
    BY DEF Absent
  <2> QED
    BY <1>2, <1>4, <1>5, <1>7, <2>1, <2>2, <2>3, <2>4, <2>5
<1> QED
  BY <1>6, <1>7

\* The key the kid means is the only one that can have made the signature.
LEMMA SignatureAccepts ==
  ASSUME NEW in, IsReceipt(in.receipt), IsKeyList(in.keys)
  PROVE  CheckKeyAndSignature(in.receipt, in.keys, in.trusted) = Accepted
           <=> SignatureIsValid(in)
<1> DEFINE r == in.receipt
           ks == in.keys
           n == Len(ks)
           t == r.payload.issued_at
           c == Candidate(ks, r.kid)
           Good(i) == /\ ks[i].defects = {} /\ ks[i].active_from <= t
                      /\ \A u \in ks[i].active_until : t < u
                      /\ \A pins \in in.trusted : ks[i].bytes \in pins
                      /\ r.signer = ks[i].bytes
<1>1. n \in Nat /\ DOMAIN ks = 1 .. n /\ t \in Int
  BY DEF IsKeyList, IsReceipt, IsPayload, Instants, Unparseable
<1>2. \A i \in 1 .. n :
        /\ ks[i].defects \subseteq {KeyOrder[j] : j \in 1 .. 6}
        /\ ks[i].active_from \in Int /\ \A u \in ks[i].active_until : u \in Int
  BY <1>1, SMTT(25) DEF IsKeyList, Instants, Unparseable, KeyOrder
<1>3. \A i \in 1 .. n : CheckKey(ks[i], t) = Accepted <=>
        /\ ks[i].defects = {}
        /\ ks[i].active_from <= t /\ \A u \in ks[i].active_until : t < u
  <2> SUFFICES ASSUME NEW i \in 1 .. n
               PROVE  CheckKey(ks[i], t) = Accepted <=>
                        /\ ks[i].defects = {}
                        /\ ks[i].active_from <= t /\ \A u \in ks[i].active_until : t < u
    OBVIOUS
  <2> DEFINE entry == ks[i]
             shape == FirstDefect(KeyOrder, entry.defects)
  <2>1. DOMAIN KeyOrder = 1 .. 6 /\ \A j \in 1 .. 6 : KeyOrder[j] # Accepted
    BY DEF KeyOrder, Accepted
  <2>2. shape = Accepted <=> \A j \in 1 .. 6 : KeyOrder[j] \notin entry.defects
    BY <2>1, FirstDefectAccepts
  <2>3. shape = Accepted <=> entry.defects = {}
    BY <1>2, <2>2
  <2>4. CheckKey(entry, t) =
          shape ++ Require(\A u \in entry.active_until : entry.active_from < u, "empty_window")
          ++ Require(entry.active_from <= t, "not_yet_active")
          ++ Require(\A u \in entry.active_until : t < u, "retired")
    BY DEF CheckKey
  <2>5. entry.active_from \in Int /\ \A u \in entry.active_until : u \in Int
    BY <1>2
  <2> HIDE DEF shape, entry, t
  <2>6. CheckKey(entry, t) = Accepted <=>
          /\ shape = Accepted /\ (\A u \in entry.active_until : entry.active_from < u)
          /\ entry.active_from <= t /\ \A u \in entry.active_until : t < u
    BY <2>4 DEF ++, Require, Accepted
  <2>7. CheckKey(entry, t) = Accepted <=>
          /\ entry.defects = {}
          /\ entry.active_from <= t /\ \A u \in entry.active_until : t < u
    BY <1>1, <2>3, <2>5, <2>6
  <2> QED
    BY <2>7 DEF entry
<1>4. CheckKeyAndSignature(r, ks, in.trusted) = Accepted <=>
        /\ FindKey(ks, r.kid, t) = Accepted
        /\ \A pins \in in.trusted : ks[c].bytes \in pins
        /\ r.signer = ks[c].bytes
  BY DEF CheckKeyAndSignature, CheckTrusted, CheckSignature, ++, Require, Accepted
<1>5. SignatureIsValid(in) <=>
        \E i \in 1 .. n : /\ \A j \in 1 .. i - 1 : ~StopsSearch(ks[j], r.kid)
                          /\ ks[i].key_id = r.kid /\ Good(i)
  BY <1>1 DEF SignatureIsValid
<1>6. CASE \A i \in 1 .. n : ~StopsSearch(ks[i], r.kid)
  <2>1. FindKey(ks, r.kid, t) # Accepted
    BY <1>1, <1>6 DEF FindKey, Accepted
  <2>2. ~ SignatureIsValid(in)
    BY <1>5, <1>6 DEF StopsSearch
  <2> QED
    BY <1>4, <2>1, <2>2
<1>7. CASE \E i \in 1 .. n : StopsSearch(ks[i], r.kid)
  <2>1. PICK k \in 1 .. n : StopsSearch(ks[k], r.kid)
    BY <1>7
  <2>2. /\ c \in 1 .. n /\ StopsSearch(ks[c], r.kid)
        /\ \A j \in 1 .. n : StopsSearch(ks[j], r.kid) => c <= j
    BY <1>1, <2>1, CandidateIsFirst
  <2>3. FindKey(ks, r.kid, t) = CheckKey(ks[c], t)
    BY <1>1, <2>1 DEF FindKey
  <2> HIDE DEF c
  <2>4. CheckKeyAndSignature(r, ks, in.trusted) = Accepted <=> Good(c)
    BY <1>3, <1>4, <2>2, <2>3
  <2> HIDE DEF Good, n
  <2>5. ASSUME Good(c) PROVE SignatureIsValid(in)
    <3>1. ks[c].key_id = r.kid
      BY <2>2, <2>5 DEF StopsSearch, Good
    <3>2. \A j \in 1 .. c - 1 : ~StopsSearch(ks[j], r.kid)
      BY <1>1, <2>2
    <3> QED
      BY <1>5, <2>2, <2>5, <3>1, <3>2
  <2>6. ASSUME SignatureIsValid(in) PROVE Good(c)
    <3>1. PICK i \in 1 .. n : /\ \A j \in 1 .. i - 1 : ~StopsSearch(ks[j], r.kid)
                              /\ ks[i].key_id = r.kid /\ Good(i)
      BY <1>5, <2>6
    <3>2. c <= i
      BY <2>2, <3>1 DEF StopsSearch
    <3>3. ~ (c \in 1 .. i - 1)
      BY <2>2, <3>1
    <3>4. c = i
      BY <1>1, <2>2, <3>2, <3>3
    <3> QED
      BY <3>1, <3>4
  <2> QED
    BY <2>4, <2>5, <2>6
<1> QED
  BY <1>6, <1>7

LEMMA FormatAccepts ==
  ASSUME NEW in, IsReceipt(in.receipt), IsKeyList(in.keys), in.now \in Instants
  PROVE  VerifyReceipt(in.receipt, in.keys, in.now, in.workspace, in.trusted) = Accepted
           <=> IsValid(in)
<1> DEFINE r == in.receipt
           p == r.payload
           v == p.policy_result
           Here == \A w \in in.workspace : p.workspace_id = w
           Result == /\ v.defects = {}
                     /\ << v.decision, v.target >> \in
                          { << "allow", Null >>, << "deny", Null >>,
                            << "confirm", "agent_owner" >>, << "escalate", "member" >> }
                     /\ v.rule = Null => v.fields = {}
           Edition == /\ p.authorization_id = Null => p.policy_ref = Null
                      /\ p.authorization_id # Null
                           => p.policy_ref # Null \/ p.action = "record_seal"
<1>1. IsPayload(p) /\ p.issued_at \in Instants
  BY DEF IsReceipt, IsPayload
<1>2. /\ JwsParts(r) = Accepted <=> r.jws = {}
      /\ CheckVersion(p) = Accepted <=> p.schema_version = "5"
  BY ShapeAccepts
<1>3. CheckSchema(p) = Accepted <=>
        p.defects = {} /\ (p.policy_eval # Absent => p.policy_ref # Null /\ Result)
  <2>1. CheckPolicyResult(v) = Accepted <=> Result
    BY <1>1, ResultAccepts DEF IsPayload
  <2> QED
    BY <2>1, SchemaAccepts
<1>4. CheckPairing(p) = Accepted <=> KindIsValid(p) /\ CheckpointIsValid(p) /\ Edition
  BY <1>1, PairingAccepts
<1>5. CheckIssuedAt(p, in.now) = Accepted
        <=> p.issued_at # Unparseable /\ p.issued_at <= in.now + Skew
  BY DEF CheckIssuedAt, ++, Require, Accepted
<1>6. CheckWorkspace(p, in.workspace) = Accepted <=> Here
  BY DEF CheckWorkspace, Require, Accepted
<1>7. CheckKeyAndSignature(r, in.keys, in.trusted) = Accepted <=> SignatureIsValid(in)
  BY SignatureAccepts
<1>8. PolicyIsValid(p) <=> Edition /\ (p.policy_eval # Absent => p.policy_ref # Null /\ Result)
  BY DEF PolicyIsValid
<1>9. IsValid(in) <=>
        /\ r.jws = {} /\ p.defects = {} /\ p.schema_version = "5"
        /\ KindIsValid(p) /\ PolicyIsValid(p) /\ CheckpointIsValid(p)
        /\ p.issued_at # Unparseable /\ in.now # Unparseable /\ p.issued_at <= in.now + Skew
        /\ Here /\ SignatureIsValid(in)
  BY DEF IsValid, ShapeIsValid
<1>10. VerifyReceipt(r, in.keys, in.now, in.workspace, in.trusted) = Accepted <=>
         /\ JwsParts(r) = Accepted /\ in.now # Unparseable
         /\ CheckVersion(p) = Accepted /\ CheckWorkspace(p, in.workspace) = Accepted
         /\ CheckSchema(p) = Accepted /\ CheckPairing(p) = Accepted
         /\ CheckIssuedAt(p, in.now) = Accepted
         /\ CheckKeyAndSignature(r, in.keys, in.trusted) = Accepted
  BY VerifyAccepts
<1> HIDE DEF p, Here, Result, Edition
<1> QED
  BY <1>2, <1>3, <1>4, <1>5, <1>6, <1>7, <1>8, <1>9, <1>10

\* verify_receipt accepts exactly the receipts that receipt-format.md calls
\* valid, whatever the combination of faults, the keys, the clock and the pins.
THEOREM PythonAcceptsTheValid == ParitySpec => []PythonFollowsTheFormat
<1>1. ParityInv => PythonFollowsTheFormat
  BY InputsAssumption, FormatAccepts DEF ParityInv, PythonFollowsTheFormat
<1> QED
  BY <1>1, AnswersAreOfTheInput, PTL

-----------------------------------------------------------------------------
(* AsyncVerification: types, and that every label is a verdict. *)

\* What o's turn k asks at the instant t, and what the turns ask of each other.
NowAt(o, t) == IF o.now = {} THEN t ELSE The(o.now)

LastTurn(o) == Len(o.members) + Cardinality(o.previous)

HasKey(o, k, t) == TsUntilKey(ReceiptAt(o, k), o.keys, NowAt(o, t), o.workspace) = Accepted

KeyOf(o, k) == o.keys[Candidate(o.keys, ReceiptAt(o, k).kid)]

IsPinned(o, k) == TsCheckTrusted(KeyOf(o, k), o.trusted) = Accepted

TurnVerifies(o, k, t) == Verifies(ReceiptAt(o, k), o.keys, NowAt(o, t), o.workspace, o.trusted)

TurnIsDone(o, k, t) == TurnVerifies(o, k, t) /\ TsCheckRole(o, k) = Accepted

RootMatches(o) == ContextOf(o).merkle_root = CheckpointMerkleRoot(o.members)

TypeInv ==
  /\ given \in Objects
  /\ pc \in {"idle", "fingerprint", "signature", "returned", "root", "settled"}
  /\ clock \in StartNow .. MaxNow
  /\ pc = "idle" => own = {} /\ at = 0 /\ called = NoCall
  /\ pc # "idle" => \E o \in Objects : own = {o} /\ at \in 0 .. LastTurn(o)
  /\ pc \in {"fingerprint", "signature"} => \E entry \in key : key = {entry}
  /\ (pc = "settled") = (verdict # Pending)

\* No check is called "pending".
LEMMA NotPending ==
  /\ Accepted # Pending
  /\ \A a, b : a # Pending /\ b # Pending => a ++ b # Pending
  /\ \A c, x : x # Pending => Require(c, x) # Pending
  BY DEF Accepted, Pending, ++, Require

LEMMA DefectIsNotPending ==
  ASSUME NEW order, NEW n \in Nat, DOMAIN order = 1 .. n,
         \A i \in 1 .. n : order[i] # Accepted /\ order[i] # Pending, NEW defects
  PROVE  FirstDefect(order, defects) # Pending
  BY FirstDefectAccepts, NotPending

LEMMA PartsAreNotPending ==
  ASSUME NEW r
  PROVE  TsJwsParts(r) # Pending
<1> DEFINE v == r.payload.policy_result
           jws == FirstDefect(TsJwsOrder, r.jws)
           shape == FirstDefect(TsSchemaOrder, r.payload.defects)
           profile == FirstDefect(<< "result_members", "result_profile" >>, v.defects)
           rule == FirstDefect(<< "result_rule", "result_fields" >>, v.defects)
           eval == TsCheckPolicyEval(r.payload)
           schema == TsCheckSchema(r.payload)
<1>1. /\ DOMAIN TsJwsOrder = 1 .. 14
      /\ \A i \in 1 .. 14 : TsJwsOrder[i] # Accepted /\ TsJwsOrder[i] # Pending
      /\ DOMAIN TsSchemaOrder = 1 .. 7
      /\ \A i \in 1 .. 7 : TsSchemaOrder[i] # Accepted /\ TsSchemaOrder[i] # Pending
  BY DEF TsJwsOrder, TsSchemaOrder, Accepted, Pending
<1>2. jws # Pending /\ shape # Pending
  BY <1>1, DefectIsNotPending
<1>3. profile # Pending
  <2> DEFINE order == << "result_members", "result_profile" >>
  <2>1. DOMAIN order = 1 .. 2 /\ \A i \in 1 .. 2 : order[i] # Accepted /\ order[i] # Pending
    BY DEF Accepted, Pending
  <2> HIDE DEF order
  <2>2. FirstDefect(order, v.defects) # Pending
    BY <2>1, DefectIsNotPending
  <2> QED
    BY <2>2 DEF order
<1>4. rule # Pending
  <2> DEFINE order == << "result_rule", "result_fields" >>
  <2>1. DOMAIN order = 1 .. 2 /\ \A i \in 1 .. 2 : order[i] # Accepted /\ order[i] # Pending
    BY DEF Accepted, Pending
  <2> HIDE DEF order
  <2>2. FirstDefect(order, v.defects) # Pending
    BY <2>1, DefectIsNotPending
  <2> QED
    BY <2>2 DEF order
<1>5. eval # Pending
  <2>1. eval =
          Require("policy_eval_shape" \notin r.payload.defects, "policy_eval_shape") ++ profile
          ++ Require(v.decision \in ActionDecisions, "result_decision")
          ++ Require(TsValidTarget(v), "result_target")
          ++ rule ++ Require(~(v.rule = Null /\ v.fields # {}), "result_fields_without_rule")
    BY DEF TsCheckPolicyEval
  <2> HIDE DEF eval, profile, rule, v
  <2> QED
    BY <1>3, <1>4, <2>1 DEF Pending, Accepted, ++, Require
<1>6. schema # Pending
  <2>1. schema = shape ++ (IF r.payload.policy_eval = Absent THEN Accepted
                           ELSE eval ++ Require(r.payload.policy_ref # Null,
                                                "policy_eval_without_ref"))
    BY DEF TsCheckSchema
  <2> HIDE DEF schema, shape, eval
  <2> QED
    BY <1>2, <1>5, <2>1 DEF Pending, Accepted, ++, Require
<1>7. TsJwsParts(r) = jws ++ Require(r.payload.schema_version = SpecVersion, "schema_version")
                      ++ schema
  BY DEF TsJwsParts
<1> HIDE DEF jws, schema
<1> QED
  BY <1>2, <1>6, <1>7 DEF Pending, Accepted, ++, Require

LEMMA EventIsNotPending ==
  ASSUME NEW p
  PROVE  TsCheckEvent(p) # Pending
<1> DEFINE c == p.context
           counts == FirstDefect(<< "receipt_count", "merkle_root" >>, c.defects)
           links == FirstDefect(<< "previous_id", "previous_root" >>, c.defects)
           context == TsCheckCheckpointContext(c, p.issued_at)
           about == IF p.event = "receipt_checkpoint"
                      THEN Require(p.authorization_id = Null, "checkpoint_authorization")
                           ++ Require(p.resource = Null, "checkpoint_resource") ++ context
                      ELSE Require(p.authorization_id # Null, "event_authorization")
<1>1. counts # Pending
  <2> DEFINE order == << "receipt_count", "merkle_root" >>
  <2>1. DOMAIN order = 1 .. 2 /\ \A i \in 1 .. 2 : order[i] # Accepted /\ order[i] # Pending
    BY DEF Accepted, Pending
  <2> HIDE DEF order
  <2>2. FirstDefect(order, c.defects) # Pending
    BY <2>1, DefectIsNotPending
  <2> QED
    BY <2>2 DEF order
<1>2. links # Pending
  <2> DEFINE order == << "previous_id", "previous_root" >>
  <2>1. DOMAIN order = 1 .. 2 /\ \A i \in 1 .. 2 : order[i] # Accepted /\ order[i] # Pending
    BY DEF Accepted, Pending
  <2> HIDE DEF order
  <2>2. FirstDefect(order, c.defects) # Pending
    BY <2>1, DefectIsNotPending
  <2> QED
    BY <2>2 DEF order
<1>3. context # Pending
  <2> DEFINE order == ~(c.period_end <= c.period_start)
             day == c.period_start % Day = 0 /\ c.period_end - c.period_start = Day
             over == ~(p.issued_at < c.period_end)
             pair == c.previous_id = Null <=> c.previous_root = NoRoot
  <2>1. context =
          Require("context_members" \notin c.defects, "context_members")
          ++ Require(c.period_start # Unparseable, "period_start")
          ++ Require(c.period_end # Unparseable, "period_end")
          ++ Require(p.issued_at # Unparseable, "issued_at")
          ++ Require(order, "period_order") ++ Require(day, "period_not_a_day")
          ++ Require(over, "checkpoint_before_period_end")
          ++ counts ++ Require(pair, "previous_pair") ++ links
    BY DEF TsCheckCheckpointContext
  <2> HIDE DEF order, day, over, pair, counts, links, context, c
  <2> QED
    BY <1>1, <1>2, <2>1 DEF Pending, Accepted, ++, Require
<1>4. about # Pending
  <2> HIDE DEF context
  <2> QED
    BY <1>3 DEF Pending, Accepted, ++, Require
<1>5. TsCheckEvent(p) =
        Require(p.event # NotString, "event_type")
        ++ Require(p.event \in DOMAIN EventDecisions, "unknown_event")
        ++ Require(p.decision \in EventDecisions[p.event], "event_decision")
        ++ about
        ++ Require(p.event \notin LifecycleEvents \/ p.resource = Null, "lifecycle_resource")
        ++ Require(p.policy_eval = Absent, "event_policy_eval")
  BY DEF TsCheckEvent
<1> HIDE DEF about
<1> QED
  BY <1>4, <1>5 DEF Pending, Accepted, ++, Require

LEMMA KeySearchIsNotPending ==
  ASSUME NEW ks, NEW kid, NEW t
  PROVE  TsFindKey(ks, kid, t) # Pending
<1> DEFINE hits == {i \in DOMAIN ks : StopsSearch(ks[i], kid)}
           entry == ks[CHOOSE i \in hits : \A j \in hits : i <= j]
           shape == FirstDefect(TsKeyOrder, entry.defects)
           window == \A u \in entry.active_until : ~(u <= entry.active_from)
           begun == ~(t < entry.active_from)
           lasts == \A u \in entry.active_until : ~(t >= u)
<1>1. TsFindKey(ks, kid, t) =
        IF hits = {} THEN "unknown_key"
        ELSE shape ++ Require(window, "empty_window") ++ Require(begun, "not_yet_active")
             ++ Require(lasts, "retired")
  BY DEF TsFindKey
<1>2. shape # Pending
  <2>1. DOMAIN TsKeyOrder = 1 .. 6
        /\ \A i \in 1 .. 6 : TsKeyOrder[i] # Accepted /\ TsKeyOrder[i] # Pending
    BY DEF TsKeyOrder, Accepted, Pending
  <2> QED
    BY <2>1, DefectIsNotPending
<1> HIDE DEF hits, entry, shape, window, begun, lasts
<1> QED
  BY <1>1, <1>2 DEF Pending, Accepted, ++, Require

LEMMA UntilKeyIsNotPending ==
  ASSUME NEW r, NEW ks, NEW t, NEW w
  PROVE  TsUntilKey(r, ks, t, w) # Pending
<1> DEFINE p     == r.payload
           parts == TsJwsParts(r)
           here  == \A v \in w : p.workspace_id = v
           event == TsCheckEvent(p)
           action == TsCheckAction(p)
           rules == IF p.event # Absent THEN event ELSE action
           ref   == TsCheckPolicyRef(p)
           early == ~(p.issued_at > t + Skew)
           found == TsFindKey(ks, r.kid, p.issued_at)
<1>1. TsUntilKey(r, ks, t, w) =
        parts ++ Require(t # Unparseable, "now") ++ Require(here, "workspace_mismatch")
        ++ Require(~(p.action # Absent /\ p.event # Absent), "both_kinds")
        ++ Require(~(p.action = Absent /\ p.event = Absent), "no_kind") ++ rules ++ ref
        ++ Require(p.issued_at # Unparseable, "issued_at") ++ Require(early, "issued_in_future")
        ++ found
  BY DEF TsUntilKey
<1>2. action # Pending
  BY DEF TsCheckAction, Pending, Accepted, ++, Require
<1>3. ref # Pending
  BY DEF TsCheckPolicyRef, Pending, Accepted, ++, Require
<1>4. parts # Pending /\ event # Pending /\ found # Pending
  BY PartsAreNotPending, EventIsNotPending, KeySearchIsNotPending
<1> HIDE DEF p, parts, here, event, action, ref, early, found
<1>5. rules # Pending
  BY <1>2, <1>4
<1> HIDE DEF rules
<1> QED
  BY <1>1, <1>3, <1>4, <1>5 DEF Pending, Accepted, ++, Require

LEMMA RoleIsNotPending ==
  ASSUME NEW o, NEW n \in Nat, DOMAIN o.members = 1 .. n, NEW k
  PROVE  TsCheckRole(o, k) # Pending
<1> DEFINE p == ReceiptAt(o, k).payload
           c == ContextOf(o)
           outside == p.issued_at < c.period_start \/ p.issued_at >= c.period_end
           later == p.context.period_end > c.period_start
           first == Require(p.event = "receipt_checkpoint", "not_a_checkpoint")
           member == Require(p.event # "receipt_checkpoint", "checkpoint_member")
                       ++ Require(~outside, "member_outside_period")
           prior == Require(p.event = "receipt_checkpoint", "previous_not_checkpoint")
                      ++ Require(c.previous_id = p.receipt_id, "previous_id_mismatch")
                      ++ Require(c.previous_root = p.context.merkle_root, "previous_root_mismatch")
                      ++ Require(~later, "periods_overlap")
<1>1. TsCheckRole(o, k) = IF k = 0 THEN first ELSE IF k \in DOMAIN o.members THEN member ELSE prior
  BY DEF TsCheckRole
<1> HIDE DEF p, c, outside, later
<1>2. first # Pending /\ member # Pending /\ prior # Pending
  BY DEF Pending, Accepted, ++, Require
<1> QED
  BY <1>1, <1>2

LEMMA CountIsNotPending ==
  ASSUME NEW o, NEW n \in Nat, DOMAIN o.members = 1 .. n
  PROVE  TsCheckCount(o) # Pending
<1> DEFINE New(i) == \A j \in 1 .. i - 1 : ReceiptId(o.members[j]) # ReceiptId(o.members[i])
           Check(i) == TsJwsParts(o.members[i]) ++ Require(New(i), "duplicate_member")
           checks == [i \in DOMAIN o.members |-> Check(i)]
           loop == FirstRejection(checks)
<1>1. \A i \in 1 .. n : Check(i) # Pending
  <2> SUFFICES ASSUME NEW i \in 1 .. n PROVE Check(i) # Pending
    OBVIOUS
  <2> DEFINE parts == TsJwsParts(o.members[i])
  <2>1. parts # Pending
    BY PartsAreNotPending
  <2>2. Check(i) = parts ++ Require(New(i), "duplicate_member")
    OBVIOUS
  <2> HIDE DEF parts, New, Check
  <2> QED
    BY <2>1, <2>2 DEF Pending, Accepted, ++, Require
<1>2. DOMAIN checks = 1 .. n /\ \A i \in 1 .. n : checks[i] # Pending
  <2> HIDE DEF Check
  <2> QED BY <1>1
<1>3. loop # Pending
  <2> HIDE DEF checks
  <2> QED BY <1>2, FirstRejectionAccepts, NotPending
<1>4. TsCheckCount(o) =
        Require(ContextOf(o).receipt_count = Len(o.members), "count_mismatch") ++ loop
  BY DEF TsCheckCount
<1> HIDE DEF loop
<1> QED
  BY <1>3, <1>4 DEF Pending, Accepted, ++, Require

LEMMA TheOne == \A x : The({x}) = x
  BY DEF The

\* The turns of a call.
LEMMA TurnsOf ==
  ASSUME NEW o \in Objects
  PROVE  /\ Len(o.members) \in Nat /\ DOMAIN o.members = 1 .. Len(o.members)
         /\ LastTurn(o) = IF o.previous = {} THEN Len(o.members) ELSE Len(o.members) + 1
         /\ LastTurn(o) \in Nat
         /\ \A k \in 0 .. LastTurn(o) : IsReceipt(ReceiptAt(o, k))
<1>1. /\ Len(o.members) \in Nat /\ DOMAIN o.members = 1 .. Len(o.members)
      /\ IsReceipt(o.receipt)
      /\ \A i \in DOMAIN o.members : IsReceipt(o.members[i])
      /\ \A r \in o.previous : IsReceipt(r) /\ o.previous = {r}
  BY ObjectsAssumption
<1>2. CASE o.previous = {}
  <2>1. Cardinality(o.previous) = 0
    BY <1>2, FS_EmptySet
  <2>2. LastTurn(o) = Len(o.members)
    BY <1>1, <2>1 DEF LastTurn
  <2> QED
    BY <1>1, <1>2, <2>2 DEF ReceiptAt
<1>3. CASE o.previous # {}
  <2>1. PICK r : r \in o.previous
    BY <1>3
  <2>2. IsReceipt(r) /\ o.previous = {r}
    BY <1>1, <2>1
  <2>3. Cardinality({r}) = 1
    BY FS_Singleton
  <2>4. LastTurn(o) = Len(o.members) + 1
    BY <1>1, <2>2, <2>3 DEF LastTurn
  <2>5. The(o.previous) = r
    BY <2>2, TheOne
  <2> QED
    BY <1>1, <1>3, <2>2, <2>4, <2>5 DEF ReceiptAt
<1> QED
  BY <1>2, <1>3

\* The synchronous start of verifyReceipt: it has a key or it settles.
LEMMA BeginSettlesOrHasKey ==
  ASSUME NEW o, NEW k, Begin(o, k)
  PROVE  /\ at' = k
         /\ \/ /\ pc' \in {"fingerprint", "signature"} /\ verdict' = verdict
               /\ \E entry \in key' : key' = {entry}
            \/ pc' = "settled" /\ verdict' # Pending
<1> DEFINE r == ReceiptAt(o, k)
           ks == KeysSeen(o)
           entry == ks[Candidate(ks, r.kid)]
           until == TsUntilKey(r, ks, NowOf(o), o.workspace)
           pinned == TsCheckTrusted(entry, TrustedSeen(o))
           outcome == until ++ (IF o.build = "browser" THEN Accepted ELSE pinned)
<1>1. /\ at' = k
      /\ IF outcome = Accepted
         THEN /\ key' = {entry}
              /\ pc' = IF o.build = "browser" THEN "fingerprint" ELSE "signature"
              /\ UNCHANGED verdict
         ELSE pc' = "settled" /\ verdict' = outcome /\ UNCHANGED key
  BY DEF Begin, Settle
<1>2. until # Pending
  BY UntilKeyIsNotPending
<1>3. pinned # Pending
  BY DEF TsCheckTrusted, Pending, Accepted, Require
<1> HIDE DEF r, ks, entry, until, pinned
<1>4. outcome # Pending
  BY <1>2, <1>3 DEF ++, Accepted, Pending
<1> HIDE DEF outcome
<1> QED
  BY <1>1, <1>4

\* What the snapshots of verifyCheckpoint refuse, and that it is a verdict.
LEMMA RefusalIs ==
  ASSUME NEW o
  PROVE  /\ Refusal(o) # Pending
         /\ Refusal(o) = Accepted <=> (o.kind = "checkpoint" => ~o.shared /\ ListFits(o))
<1> DEFINE fits == ListFits(o)
<1>1. Refusal(o) = IF o.kind = "checkpoint"
                   THEN Require(fits, "too_many_nodes") ++ Require(~o.shared, "shared_key_bytes")
                   ELSE Accepted
  BY DEF Refusal
<1> HIDE DEF fits
<1>2. /\ Refusal(o) # Pending
      /\ Refusal(o) = Accepted <=> (o.kind = "checkpoint" => ~o.shared /\ fits)
  BY <1>1 DEF Pending, Accepted, ++, Require
<1> QED
  BY <1>2 DEF fits

LEMMA TypesAreKept == Spec => []TypeInv
<1>1. Init => TypeInv
  BY ClockAssumption DEF Init, TypeInv
<1>2. TypeInv /\ [Next]_vars => TypeInv'
  <2> SUFFICES ASSUME TypeInv, [Next]_vars PROVE TypeInv'
    OBVIOUS
  <2> USE DEF TypeInv
  <2>1. CASE Call
    <3>1. given \in Objects /\ own' = {given} /\ given' = given /\ clock' = clock
      BY <2>1 DEF Call
    <3>2. 0 \in 0 .. LastTurn(given)
      BY TurnsOf
    <3>3. CASE Refusal(given) # Accepted
      <4>1. pc' = "settled" /\ verdict' = Refusal(given) /\ at' = at /\ at = 0
        BY <2>1, <3>3 DEF Call, Settle
      <4> QED
        BY <3>1, <3>2, <4>1, RefusalIs
    <3>4. CASE Refusal(given) = Accepted
      <4>1. Begin(given, 0)
        BY <2>1, <3>4 DEF Call
      <4>2. verdict = Pending
        BY <2>1 DEF Call
      <4> QED
        BY <3>1, <3>2, <4>1, <4>2, BeginSettlesOrHasKey
    <3> QED
      BY <3>3, <3>4
  <2>2. CASE FingerprintReady
    <3>1. PICK o \in Objects : own = {o} /\ at \in 0 .. LastTurn(o)
      BY <2>2 DEF FingerprintReady
    <3> DEFINE outcome == TsCheckTrusted(The(key), TrustedSeen(The(own)))
    <3>2. outcome # Pending
      BY DEF TsCheckTrusted, Require, Pending, Accepted
    <3>3. /\ \/ pc' = "signature" /\ verdict' = verdict
             \/ pc' = "settled" /\ verdict' = outcome
          /\ UNCHANGED << given, called, own, at, key, clock >> /\ pc = "fingerprint"
      BY <2>2 DEF FingerprintReady, Settle
    <3> HIDE DEF outcome
    <3> QED
      BY <3>1, <3>2, <3>3
  <2>3. CASE SignatureReady
    <3>1. PICK o \in Objects : own = {o} /\ at \in 0 .. LastTurn(o)
      BY <2>3 DEF SignatureReady
    <3> DEFINE outcome == TsCheckSignature(ReceiptAt(The(own), at), The(key))
    <3>2. outcome # Pending
      BY DEF TsCheckSignature, Require, Pending, Accepted
    <3>3. /\ \/ pc' = "returned" /\ verdict' = verdict
             \/ pc' = "settled" /\ verdict' = outcome
          /\ UNCHANGED << given, called, own, at, key, clock >> /\ pc = "signature"
      BY <2>3 DEF SignatureReady, Settle
    <3> HIDE DEF outcome
    <3> QED
      BY <3>1, <3>2, <3>3
  <2>4. CASE Returned
    <3>1. PICK o \in Objects : own = {o} /\ at \in 0 .. LastTurn(o)
      BY <2>4 DEF Returned
    <3>2. The(own) = o
      BY <3>1, TheOne
    <3>3. /\ Len(o.members) \in Nat /\ DOMAIN o.members = 1 .. Len(o.members)
          /\ LastTurn(o) \in Nat /\ Len(o.members) <= LastTurn(o)
      BY TurnsOf
    <3> DEFINE role == TsCheckRole(o, at)
               counted == TsCheckCount(o)
    <3>4. role # Pending /\ counted # Pending
      BY <3>3, RoleIsNotPending, CountIsNotPending
    <3>5. /\ UNCHANGED << given, called, own, clock >> /\ pc = "returned"
          /\ \/ pc' = "settled" /\ verdict' = role /\ role # Accepted /\ at' = at
             \/ at < Len(o.members) /\ Begin(o, at + 1)
             \/ pc' = "root" /\ verdict' = verdict /\ at' = at
             \/ pc' = "settled" /\ verdict' = counted /\ at' = at
             \/ pc' = "settled" /\ verdict' = Accepted /\ at' = at
      <4> HIDE DEF role, counted
      <4> QED
        BY <2>4, <3>2, <3>1, <3>3 DEF Returned, Settle, role, counted
    <3>6. CASE at < Len(o.members) /\ Begin(o, at + 1)
      <4>1. at' = at + 1 /\ at + 1 \in 0 .. LastTurn(o)
        BY <3>1, <3>3, <3>6, BeginSettlesOrHasKey
      <4> QED
        BY <3>1, <3>5, <3>6, <4>1, BeginSettlesOrHasKey
    <3> HIDE DEF role, counted
    <3>7. Accepted # Pending
      BY NotPending
    <3> QED
      BY <3>1, <3>4, <3>5, <3>6, <3>7
  <2>5. CASE RootReady
    <3>1. PICK o \in Objects : own = {o} /\ at \in 0 .. LastTurn(o)
      BY <2>5 DEF RootReady
    <3>2. The(own) = o
      BY <3>1, TheOne
    <3>3. Len(o.members) \in Nat /\ LastTurn(o) \in Nat
          /\ (o.previous # {} => LastTurn(o) = Len(o.members) + 1)
      BY TurnsOf
    <3> DEFINE root == Require(ContextOf(o).merkle_root = CheckpointMerkleRoot(o.members),
                               "root_mismatch")
    <3>4. root # Pending
      BY DEF Require, Pending, Accepted
    <3>5. /\ UNCHANGED << given, called, own, clock >> /\ pc = "root"
          /\ \/ o.previous # {} /\ Begin(o, Len(o.members) + 1)
             \/ pc' = "settled" /\ verdict' = root /\ at' = at
      BY <2>5, <3>2 DEF RootReady, Settle
    <3>6. CASE o.previous # {} /\ Begin(o, Len(o.members) + 1)
      <4>1. at' = Len(o.members) + 1 /\ Len(o.members) + 1 \in 0 .. LastTurn(o)
        BY <3>3, <3>6, BeginSettlesOrHasKey
      <4> QED
        BY <3>1, <3>5, <3>6, <4>1, BeginSettlesOrHasKey
    <3> HIDE DEF root
    <3> QED
      BY <3>1, <3>4, <3>5, <3>6
  <2>6. CASE Edit
    BY <2>6 DEF Edit
  <2>7. CASE Tick
    <3>1. clock' \in StartNow .. MaxNow
      BY <2>7, ClockAssumption DEF Tick
    <3>2. UNCHANGED << given, called, own, pc, at, key, verdict >>
      BY <2>7 DEF Tick
    <3> QED
      BY <3>1, <3>2
  <2>8. CASE UNCHANGED vars
    BY <2>8 DEF vars
  <2> QED
    BY <2>1, <2>2, <2>3, <2>4, <2>5, <2>6, <2>7, <2>8 DEF Next
<1> QED
  BY <1>1, <1>2, PTL DEF Spec

\* A verdict is there exactly when the promise is settled, and whatever is
\* awaited, it is about one of the call's receipts and one of its keys.
THEOREM AsyncTypeCorrect == Spec => []TypeOK
<1>1. TypeInv => TypeOK
  <2> SUFFICES ASSUME TypeInv PROVE TypeOK
    OBVIOUS
  <2>1. \A x : Cardinality({x}) = 1
    BY FS_Singleton
  <2>2. CASE pc = "idle"
    <3>1. own = {} /\ Cardinality(own) = 0
      BY <2>2, FS_EmptySet DEF TypeInv
    <3> QED
      BY <2>2, <3>1 DEF TypeInv, TypeOK
  <2>3. CASE pc # "idle"
    <3>1. PICK o \in Objects : own = {o} /\ at \in 0 .. LastTurn(o)
      BY <2>3 DEF TypeInv
    <3>2. Cardinality(own) = 1
      BY <2>1, <3>1
    <3>3. pc \in {"fingerprint", "signature"} => Cardinality(key) = 1
      BY <2>1 DEF TypeInv
    <3> QED
      BY <2>3, <3>1, <3>2, <3>3 DEF TypeInv, TypeOK, LastTurn
  <2> QED
    BY <2>2, <2>3
<1> QED
  BY <1>1, TypesAreKept, PTL

-----------------------------------------------------------------------------
(* AsyncVerification keeps the promise of VerificationRequest. *)

\* The caller leaves the set of pinned fingerprints of verifyReceipt alone where
\* it is read after an await: in the build for browsers.  (The run
\* async_browser_trust shows that the promise is broken without this.)
PinsAreFixed ==
  \A o, p \in Objects :
    o.kind = "receipt" /\ o.build = "browser" /\ p.kind = o.kind /\ p.build = o.build
      => p.trusted = o.trusted

\* How far the call on o has come: the turns behind it are done, at this instant
\* too, and what is awaited is the next thing that could reject.
Progress(o) ==
  /\ o.kind = "checkpoint" => ~o.shared /\ ListFits(o)
  /\ o.kind = "receipt" => at = 0
  /\ at \in 0 .. LastTurn(o)
  /\ \A j \in 0 .. at - 1 : TurnIsDone(o, j, clock)
  /\ at > Len(o.members) => TsCheckCount(o) = Accepted /\ RootMatches(o)
  /\ pc = "fingerprint" => o.build = "browser"
  /\ pc \in {"fingerprint", "signature"} => key = {KeyOf(o, at)} /\ HasKey(o, at, clock)
  /\ pc = "signature" => IsPinned(o, at)
  /\ pc \in {"returned", "root"} => o.kind = "checkpoint" /\ TurnVerifies(o, at, clock)
  /\ pc = "root" => /\ at = Len(o.members) /\ TsCheckRole(o, at) = Accepted
                    /\ TsCheckCount(o) = Accepted

CallOf(o) ==
  /\ own = {o}
  /\ called = [clock |-> called.clock, objects |-> {o}]
  /\ called.clock \in StartNow .. clock
  /\ given.kind = o.kind /\ given.build = o.build

PromiseInv ==
  pc # "idle" => \E o \in Objects : CallOf(o) /\ (pc # "settled" => Progress(o))

LEMMA NowIsAnInstant ==
  ASSUME NEW o \in Objects, NEW t \in Nat
  PROVE  NowAt(o, t) \in Instants
<1>1. CASE o.now = {}
  BY <1>1 DEF NowAt, Instants
<1>2. CASE o.now # {}
  <2>1. The(o.now) \in o.now
    BY <1>2 DEF The
  <2> QED
    BY <1>2, <2>1, ObjectsAssumption DEF NowAt
<1> QED
  BY <1>1, <1>2

\* What verifyReceipt has found when it has the key, and what is left then.
LEMMA TurnVerifiesIf ==
  ASSUME NEW o \in Objects, NEW k \in 0 .. LastTurn(o), NEW t \in Nat
  PROVE  TurnVerifies(o, k, t) <=>
           /\ HasKey(o, k, t) /\ IsPinned(o, k)
           /\ TsCheckSignature(ReceiptAt(o, k), KeyOf(o, k)) = Accepted
<1>1. IsReceipt(ReceiptAt(o, k)) /\ IsKeyList(o.keys) /\ NowAt(o, t) \in Instants
  BY TurnsOf, NowIsAnInstant, ObjectsAssumption
<1> QED
  BY <1>1, VerdictsAgree DEF TurnVerifies, Verifies, HasKey, IsPinned, KeyOf

\* Time takes nothing back.
LEMMA LaterToo ==
  ASSUME NEW o \in Objects, NEW k \in 0 .. LastTurn(o), NEW t \in Nat, NEW u \in Nat, t <= u
  PROVE  /\ TurnVerifies(o, k, t) => TurnVerifies(o, k, u)
         /\ HasKey(o, k, t) => HasKey(o, k, u)
<1> DEFINE r == ReceiptAt(o, k)
<1>1. IsReceipt(r) /\ IsKeyList(o.keys) /\ NowAt(o, t) \in Instants /\ NowAt(o, u) \in Instants
  BY TurnsOf, NowIsAnInstant, ObjectsAssumption
<1>2. r.payload.issued_at \in Int
  BY <1>1 DEF IsReceipt, IsPayload, Instants, Unparseable
<1>3. CASE o.now # {}
  <2>1. NowAt(o, t) = NowAt(o, u)
    BY <1>3 DEF NowAt
  <2> QED
    BY <2>1 DEF TurnVerifies, HasKey
<1>4. CASE o.now = {}
  <2>1. NowAt(o, t) = t /\ NowAt(o, u) = u
    BY <1>4 DEF NowAt
  <2>2. TurnVerifies(o, k, t) => TurnVerifies(o, k, u)
    BY <1>2, <2>1, AcceptedLater DEF TurnVerifies, Verifies
  <2>3. CheckIssuedAt(r.payload, t) = Accepted => CheckIssuedAt(r.payload, u) = Accepted
    BY <1>2, SkewAssumption DEF CheckIssuedAt, ++, Require, Accepted
  <2>4. u # Unparseable
    BY DEF Unparseable
  <2>5. HasKey(o, k, t) => HasKey(o, k, u)
    BY <1>1, <2>1, <2>3, <2>4, UntilKeyAccepts DEF HasKey
  <2> QED
    BY <2>2, <2>5
<1> QED
  BY <1>3, <1>4

\* verifyReceipt begins with the caller's objects as they are, or with the
\* copies of verifyCheckpoint, which hold no shared bytes.
LEMMA BeginLooksAtTheCall ==
  ASSUME NEW o \in Objects, NEW k \in 0 .. LastTurn(o), clock \in Nat, Begin(o, k),
         o = given \/ (o.kind = "checkpoint" /\ ~o.shared)
  PROVE  /\ at' = k
         /\ \/ /\ pc' = IF o.build = "browser" THEN "fingerprint" ELSE "signature"
               /\ verdict' = verdict
               /\ key' = {KeyOf(o, k)} /\ HasKey(o, k, clock)
               /\ pc' = "signature" => IsPinned(o, k)
            \/ /\ pc' = "settled" /\ verdict' \notin {Pending, Accepted}
               /\ ~ TurnVerifies(o, k, clock)
<1> DEFINE r == ReceiptAt(o, k)
           ks == KeysSeen(o)
           trust == TrustedSeen(o)
<1>1. o.shared \in BOOLEAN /\ IsKeyList(o.keys)
  BY ObjectsAssumption
<1>2. ks = o.keys
  <2>1. CASE ~o.shared
    BY <2>1 DEF KeysSeen
  <2>2. CASE o.shared
    <3>1. o = given
      BY <2>2
    <3>2. ks = [i \in DOMAIN o.keys |-> [o.keys[i] EXCEPT !.bytes = o.keys[i].bytes]]
      BY <2>2, <3>1 DEF KeysSeen
    <3> DEFINE n == Len(o.keys)
               Entry(i) == [ key_id |-> o.keys[i].key_id, defects |-> o.keys[i].defects,
                             bytes |-> o.keys[i].bytes, active_from |-> o.keys[i].active_from,
                             active_until |-> o.keys[i].active_until ]
    <3>3. o.keys = [i \in 1 .. n |-> Entry(i)] /\ DOMAIN o.keys = 1 .. n
      BY <1>1 DEF IsKeyList
    <3>4. \A i \in 1 .. n : o.keys[i] = Entry(i)
      <4> HIDE DEF Entry, n
      <4> QED BY <3>3
    <3>5. \A i \in 1 .. n : [o.keys[i] EXCEPT !.bytes = o.keys[i].bytes] = o.keys[i]
      BY <3>4
    <3> HIDE DEF Entry, n, ks
    <3> QED
      BY <3>2, <3>3, <3>5
  <2> QED
    BY <1>1, <2>1, <2>2
<1>3. trust = o.trusted
  BY DEF TrustedSeen
<1>4. NowOf(o) = NowAt(o, clock)
  BY DEF NowOf, NowAt
<1> DEFINE entry == ks[Candidate(ks, r.kid)]
           until == TsUntilKey(r, ks, NowOf(o), o.workspace)
           pinned == TsCheckTrusted(entry, trust)
           outcome == until ++ (IF o.build = "browser" THEN Accepted ELSE pinned)
<1>5. /\ at' = k
      /\ IF outcome = Accepted
         THEN /\ key' = {entry}
              /\ pc' = IF o.build = "browser" THEN "fingerprint" ELSE "signature"
              /\ UNCHANGED verdict
         ELSE pc' = "settled" /\ verdict' = outcome /\ UNCHANGED key
  BY DEF Begin, Settle
<1>6. /\ entry = KeyOf(o, k)
      /\ until = Accepted <=> HasKey(o, k, clock)
      /\ pinned = Accepted <=> IsPinned(o, k)
  BY <1>2, <1>3, <1>4 DEF KeyOf, HasKey, IsPinned
<1>7. until # Pending /\ pinned # Pending
  <2>1. until # Pending
    BY UntilKeyIsNotPending
  <2>2. pinned # Pending
    BY DEF TsCheckTrusted, Pending, Accepted, Require
  <2> QED
    BY <2>1, <2>2
<1>8. TurnVerifies(o, k, clock) => HasKey(o, k, clock) /\ IsPinned(o, k)
  BY TurnVerifiesIf
<1> HIDE DEF entry, until, pinned
<1>9. /\ outcome # Pending
      /\ outcome = Accepted <=>
           HasKey(o, k, clock) /\ (o.build # "browser" => IsPinned(o, k))
  BY <1>6, <1>7 DEF ++, Accepted, Pending
<1> HIDE DEF outcome
<1>10. CASE outcome = Accepted
  BY <1>5, <1>6, <1>9, <1>10
<1>11. CASE outcome # Accepted
  BY <1>5, <1>8, <1>9, <1>11
<1> QED
  BY <1>10, <1>11

\* The verdict of verify_checkpoint on a receipt, by the turns of verifyCheckpoint.
LEMMA FirstTurnIs ==
  ASSUME NEW o \in Objects
  PROVE  TsCheckRole(o, 0) = Accepted <=> IsCheckpoint(o.receipt.payload)
<1>1. DOMAIN o.members = 1 .. Len(o.members) /\ Len(o.members) \in Nat
  BY TurnsOf
<1>2. TsCheckRole(o, 0) = Require(o.receipt.payload.event = "receipt_checkpoint", "not_a_checkpoint")
  BY <1>1 DEF TsCheckRole, ReceiptAt
<1> QED
  BY <1>2 DEF IsCheckpoint, Require, Accepted

LEMMA MemberTurnIs ==
  ASSUME NEW o \in Objects, NEW k \in 1 .. Len(o.members), NEW t \in Nat
  PROVE  VerifyMember(ContextOf(o), o.members[k], o.keys, NowAt(o, t), o.workspace, o.trusted)
           = Accepted <=> TurnIsDone(o, k, t)
<1> DEFINE r == o.members[k]
           p == r.payload
           c == ContextOf(o)
           verify == VerifyReceipt(r, o.keys, NowAt(o, t), o.workspace, o.trusted)
<1>1. DOMAIN o.members = 1 .. Len(o.members) /\ Len(o.members) \in Nat /\ k # 0
  BY TurnsOf
<1>2. ReceiptAt(o, k) = r
  BY <1>1 DEF ReceiptAt
<1>3. TsCheckRole(o, k) =
        Require(p.event # "receipt_checkpoint", "checkpoint_member")
        ++ Require(~(p.issued_at < c.period_start \/ p.issued_at >= c.period_end),
                   "member_outside_period")
  BY <1>1, <1>2 DEF TsCheckRole
<1>4. VerifyMember(c, r, o.keys, NowAt(o, t), o.workspace, o.trusted) =
        verify ++ Require(~IsCheckpoint(p), "checkpoint_member")
        ++ Require(InPeriod(c, p.issued_at), "member_outside_period")
  BY DEF VerifyMember
<1>5. p.issued_at \in Int /\ c.period_start \in Int /\ c.period_end \in Int
  BY <1>1, ObjectsAssumption
     DEF IsReceipt, IsPayload, IsContext, Instants, Unparseable, ContextOf
<1>6. InPeriod(c, p.issued_at) <=> ~(p.issued_at < c.period_start \/ p.issued_at >= c.period_end)
  <2> HIDE DEF p, c
  <2> QED BY <1>5 DEF InPeriod
<1>7. IsCheckpoint(p) <=> p.event = "receipt_checkpoint"
  BY DEF IsCheckpoint
<1>8. TurnVerifies(o, k, t) <=> verify = Accepted
  BY <1>2 DEF TurnVerifies, Verifies
<1> HIDE DEF verify, p, c
<1>9. TsCheckRole(o, k) = Accepted <=> ~IsCheckpoint(p) /\ InPeriod(c, p.issued_at)
  BY <1>3, <1>6, <1>7 DEF ++, Require, Accepted
<1>10. VerifyMember(c, r, o.keys, NowAt(o, t), o.workspace, o.trusted) = Accepted <=>
         verify = Accepted /\ ~IsCheckpoint(p) /\ InPeriod(c, p.issued_at)
  BY <1>4 DEF ++, Require, Accepted
<1> QED
  BY <1>8, <1>9, <1>10 DEF TurnIsDone, c

LEMMA LastTurnIs ==
  ASSUME NEW o \in Objects, NEW r, o.previous = {r}, NEW t \in Nat
  PROVE  VerifyLink(ContextOf(o), r, o.keys, NowAt(o, t), o.workspace, o.trusted)
           = Accepted <=> TurnIsDone(o, Len(o.members) + 1, t)
<1> DEFINE k == Len(o.members) + 1
           p == r.payload
           c == ContextOf(o)
           verify == VerifyReceipt(r, o.keys, NowAt(o, t), o.workspace, o.trusted)
<1>1. DOMAIN o.members = 1 .. Len(o.members) /\ Len(o.members) \in Nat /\ k # 0
      /\ k \notin DOMAIN o.members
  BY TurnsOf
<1>2. ReceiptAt(o, k) = r
  BY <1>1, TheOne DEF ReceiptAt
<1>3. TsCheckRole(o, k) =
        Require(p.event = "receipt_checkpoint", "previous_not_checkpoint")
        ++ Require(c.previous_id = p.receipt_id, "previous_id_mismatch")
        ++ Require(c.previous_root = p.context.merkle_root, "previous_root_mismatch")
        ++ Require(~(p.context.period_end > c.period_start), "periods_overlap")
  <2> HIDE DEF k
  <2> QED BY <1>1, <1>2 DEF TsCheckRole
<1>4. VerifyLink(c, r, o.keys, NowAt(o, t), o.workspace, o.trusted) =
        verify ++ Require(IsCheckpoint(p), "previous_not_checkpoint")
        ++ Require(c.previous_id = ReceiptId(r), "previous_id_mismatch")
        ++ Require(c.previous_root = p.context.merkle_root, "previous_root_mismatch")
        ++ Require(p.context.period_end <= c.period_start, "periods_overlap")
  BY DEF VerifyLink
<1>5. p.context.period_end \in Int /\ c.period_start \in Int
  BY ObjectsAssumption
     DEF IsReceipt, IsPayload, IsContext, Instants, Unparseable, ContextOf
<1>6. ~(p.context.period_end > c.period_start) <=> p.context.period_end <= c.period_start
  <2> HIDE DEF p, c
  <2> QED BY <1>5
<1>7. (IsCheckpoint(p) <=> p.event = "receipt_checkpoint") /\ ReceiptId(r) = p.receipt_id
  BY DEF IsCheckpoint, ReceiptId
<1>8. TurnVerifies(o, k, t) <=> verify = Accepted
  BY <1>2 DEF TurnVerifies, Verifies
<1> DEFINE linked == /\ c.previous_id = p.receipt_id
                     /\ c.previous_root = p.context.merkle_root
                     /\ p.context.period_end <= c.period_start
<1> HIDE DEF verify, p, c, k
<1>9. TsCheckRole(o, k) = Accepted <=> IsCheckpoint(p) /\ linked
  BY <1>3, <1>6, <1>7 DEF ++, Require, Accepted
<1>10. VerifyLink(c, r, o.keys, NowAt(o, t), o.workspace, o.trusted) = Accepted <=>
         verify = Accepted /\ IsCheckpoint(p) /\ linked
  BY <1>4, <1>7 DEF ++, Require, Accepted
<1> QED
  BY <1>8, <1>9, <1>10 DEF TurnIsDone, c, k

LEMMA CountIs ==
  ASSUME NEW o \in Objects
  PROVE  TsCheckCount(o) = Accepted <=>
           ContextOf(o).receipt_count = Len(o.members) /\ CheckMembers(o.members) = Accepted
<1> DEFINE n == Len(o.members)
           New(i) == \A j \in 1 .. i - 1 : ReceiptId(o.members[j]) # ReceiptId(o.members[i])
           Parts(i) == TsJwsParts(o.members[i])
           Decoded(i) == DecodeReceipt(o.members[i])
           tschecks == [i \in DOMAIN o.members |->
                          Parts(i) ++ Require(New(i), "duplicate_member")]
           checks == [i \in DOMAIN o.members |->
                        Decoded(i) ++ Require(New(i), "duplicate_member")]
<1>1. n \in Nat /\ DOMAIN o.members = 1 .. n
  BY TurnsOf
<1>2. /\ TsCheckCount(o) = Require(ContextOf(o).receipt_count = n, "count_mismatch")
                           ++ FirstRejection(tschecks)
      /\ CheckMembers(o.members) = FirstRejection(checks)
  BY DEF TsCheckCount, CheckMembers, CheckMember
<1>3. \A i : Parts(i) = Accepted <=> Decoded(i) = Accepted
  BY DecodingAccepts
<1> HIDE DEF New, Parts, Decoded, n
<1>4. DOMAIN tschecks = 1 .. n /\ DOMAIN checks = 1 .. n
      /\ \A i \in 1 .. n : tschecks[i] = Accepted <=> checks[i] = Accepted
  BY <1>1, <1>3 DEF ++, Require, Accepted
<1> HIDE DEF tschecks, checks
<1>5. FirstRejection(tschecks) = Accepted <=> FirstRejection(checks) = Accepted
  BY <1>1, <1>4, FirstRejectionAccepts
<1>6. Require(ContextOf(o).receipt_count = n, "count_mismatch") = Accepted
        <=> ContextOf(o).receipt_count = n
  BY DEF Require, Accepted
<1> QED
  BY <1>2, <1>5, <1>6, AndThenAccepts DEF n

\* The synchronous verdict is accepted when every turn is.
LEMMA OutcomeIs ==
  ASSUME NEW o \in Objects, NEW t \in Nat
  PROVE  /\ Outcome(o, t) \in {Accepted, Rejected}
         /\ o.kind = "receipt" => (Outcome(o, t) = Accepted <=> TurnVerifies(o, 0, t))
         /\ o.kind = "checkpoint" =>
              (Outcome(o, t) = Accepted <=>
                 /\ ~o.shared /\ ListFits(o)
                 /\ \A k \in 0 .. LastTurn(o) : TurnIsDone(o, k, t)
                 /\ TsCheckCount(o) = Accepted /\ RootMatches(o))
<1> DEFINE now == NowAt(o, t)
           receipt == VerifyReceipt(o.receipt, o.keys, now, o.workspace, o.trusted)
           checkpoint == VerifyCheckpoint(o.receipt, o.members, o.keys, now, o.workspace,
                                          o.trusted, o.previous)
           n == Len(o.members)
<1>1. /\ Outcome(o, t) \in {Accepted, Rejected}
      /\ o.kind = "receipt" => (Outcome(o, t) = Accepted <=> receipt = Accepted)
      /\ o.kind = "checkpoint" =>
           (Outcome(o, t) = Accepted <=> ~o.shared /\ ListFits(o) /\ checkpoint = Accepted)
  <2>1. /\ PythonVerdict(o, t) = IF o.kind = "receipt" THEN receipt ELSE checkpoint
        /\ Outcome(o, t) = IF o.kind = "checkpoint" /\ (o.shared \/ ~ListFits(o))
                           THEN Rejected
                           ELSE IF PythonVerdict(o, t) = Accepted THEN Accepted ELSE Rejected
    BY DEF Outcome, PythonVerdict, NowAt
  <2> HIDE DEF receipt, checkpoint
  <2> QED
    BY <2>1 DEF Accepted, Rejected
<1>2. n \in Nat /\ DOMAIN o.members = 1 .. n
      /\ LastTurn(o) = IF o.previous = {} THEN n ELSE n + 1
  BY TurnsOf
<1>3. TurnVerifies(o, 0, t) <=> receipt = Accepted
  BY <1>2 DEF TurnVerifies, Verifies, ReceiptAt
<1> DEFINE Member(i) == VerifyMember(ContextOf(o), o.members[i], o.keys, now, o.workspace, o.trusted)
           loop == [i \in DOMAIN o.members |-> Member(i)]
           count == ContextOf(o).receipt_count = n
           decode == CheckMembers(o.members)
           link == IF o.previous = {} THEN Accepted
                   ELSE VerifyLink(ContextOf(o), CHOOSE r \in o.previous : TRUE,
                                   o.keys, now, o.workspace, o.trusted)
           kind == IsCheckpoint(o.receipt.payload)
<1>4. checkpoint =
        receipt ++ Require(kind, "not_a_checkpoint") ++ FirstRejection(loop)
        ++ Require(count, "count_mismatch") ++ decode
        ++ Require(RootMatches(o), "root_mismatch") ++ link
  BY DEF VerifyCheckpoint, ContextOf, RootMatches
<1>5. FirstRejection(loop) = Accepted <=> \A i \in 1 .. n : TurnIsDone(o, i, t)
  <2>1. \A i \in 1 .. n : Member(i) = Accepted <=> TurnIsDone(o, i, t)
    BY MemberTurnIs
  <2> HIDE DEF Member, n
  <2>2. DOMAIN loop = 1 .. n /\ \A i \in 1 .. n : loop[i] = Accepted <=> TurnIsDone(o, i, t)
    BY <1>2, <2>1
  <2> HIDE DEF loop
  <2> QED
    BY <1>2, <2>2, FirstRejectionAccepts
<1>6. link = Accepted <=> (o.previous # {} => TurnIsDone(o, n + 1, t))
  <2>1. CASE o.previous = {}
    BY <2>1
  <2>2. CASE o.previous # {}
    <3>1. PICK r : r \in o.previous /\ o.previous = {r}
      BY <2>2, ObjectsAssumption
    <3>2. link = VerifyLink(ContextOf(o), r, o.keys, now, o.workspace, o.trusted)
      BY <2>2, <3>1
    <3> QED
      BY <2>2, <3>1, <3>2, LastTurnIs
  <2> QED
    BY <2>1, <2>2
<1>7. TurnIsDone(o, 0, t) <=> receipt = Accepted /\ kind
  BY <1>3, FirstTurnIs DEF TurnIsDone
<1>8. TsCheckCount(o) = Accepted <=> count /\ decode = Accepted
  BY CountIs
<1> DEFINE members == FirstRejection(loop)
           root == RootMatches(o)
<1>9. checkpoint =
        receipt ++ Require(kind, "not_a_checkpoint") ++ members
        ++ Require(count, "count_mismatch") ++ decode ++ Require(root, "root_mismatch") ++ link
  BY <1>4
<1> HIDE DEF receipt, checkpoint, loop, members, count, decode, link, kind, root, n
<1>10. checkpoint = Accepted <=>
         /\ receipt = Accepted /\ kind /\ members = Accepted /\ count
         /\ decode = Accepted /\ root /\ link = Accepted
  BY <1>9 DEF ++, Require, Accepted
<1>11. (\A k \in 0 .. LastTurn(o) : TurnIsDone(o, k, t)) <=>
         /\ TurnIsDone(o, 0, t) /\ \A i \in 1 .. n : TurnIsDone(o, i, t)
         /\ o.previous # {} => TurnIsDone(o, n + 1, t)
  <2>1. 0 .. LastTurn(o) = {0} \union (1 .. n) \union (IF o.previous = {} THEN {} ELSE {n + 1})
    BY <1>2
  <2> QED
    BY <2>1
<1>12. checkpoint = Accepted <=>
         /\ \A k \in 0 .. LastTurn(o) : TurnIsDone(o, k, t)
         /\ TsCheckCount(o) = Accepted /\ root
  BY <1>5, <1>6, <1>7, <1>8, <1>10, <1>11 DEF members
<1> QED
  BY <1>1, <1>3, <1>12 DEF root

\* The verdict as the caller of the promise sees it.
Told == IF verdict \in {Pending, Accepted} THEN verdict ELSE Rejected

LEMMA BeginsTheTurn ==
  ASSUME NEW o \in Objects, NEW k \in 0 .. LastTurn(o), clock \in Nat, clock' = clock, Begin(o, k),
         o = given \/ (o.kind = "checkpoint" /\ ~o.shared),
         o.kind = "checkpoint" => ~o.shared /\ ListFits(o),
         o.kind = "receipt" => k = 0,
         \A j \in 0 .. k - 1 : TurnIsDone(o, j, clock),
         k > Len(o.members) => TsCheckCount(o) = Accepted /\ RootMatches(o)
  PROVE  \/ Progress(o)' /\ pc' \in {"fingerprint", "signature"} /\ verdict' = verdict
         \/ pc' = "settled" /\ verdict' \notin {Pending, Accepted} /\ Outcome(o, clock) = Rejected
<1>1. /\ at' = k
      /\ \/ /\ pc' = IF o.build = "browser" THEN "fingerprint" ELSE "signature"
            /\ verdict' = verdict
            /\ key' = {KeyOf(o, k)} /\ HasKey(o, k, clock)
            /\ pc' = "signature" => IsPinned(o, k)
         \/ /\ pc' = "settled" /\ verdict' \notin {Pending, Accepted}
            /\ ~ TurnVerifies(o, k, clock)
  BY BeginLooksAtTheCall
<1>2. CASE /\ pc' = IF o.build = "browser" THEN "fingerprint" ELSE "signature"
           /\ verdict' = verdict
           /\ key' = {KeyOf(o, k)} /\ HasKey(o, k, clock)
           /\ pc' = "signature" => IsPinned(o, k)
  <2>1. Progress(o)'
    BY <1>1, <1>2 DEF Progress
  <2> QED
    BY <1>2, <2>1
<1>3. CASE /\ pc' = "settled" /\ verdict' \notin {Pending, Accepted}
           /\ ~ TurnVerifies(o, k, clock)
  <2>1. o.kind \in {"receipt", "checkpoint"}
    BY ObjectsAssumption
  <2>2. Outcome(o, clock) # Accepted
    BY <1>3, <2>1, OutcomeIs DEF TurnIsDone
  <2>3. Outcome(o, clock) = Rejected
    BY <2>2, OutcomeIs
  <2> QED
    BY <1>3, <2>3
<1> QED
  BY <1>1, <1>2, <1>3

\* A verdict that is given while the objects of the call are o.
LEMMA AnswerIsOfTheCall ==
  ASSUME NEW o \in Objects, CallOf(o), StartNow \in Nat, clock \in Nat, verdict = Pending,
         called' = called, clock' = clock, Told' = Outcome(o, clock)
  PROVE  Promise!Answer
<1>1. o \in called.objects /\ clock \in called.clock .. clock
  BY DEF CallOf
<1>2. Told = Pending
  BY DEF Told
<1>3. \E p \in called.objects, t \in called.clock .. clock : Told' = Outcome(p, t)
  BY <1>1
<1> QED
  BY <1>2, <1>3 DEF Promise!Answer, Promise!Pending, Pending, Told

LEMMA CallRequests ==
  ASSUME TypeInv, PromiseInv, Call
  PROVE  PromiseInv' /\ \E o \in Objects : Promise!Request(o)
<1>0. PICK o \in Objects : o = given
  BY DEF TypeInv
<1>1. /\ clock \in Nat /\ StartNow \in Nat /\ StartNow <= clock
      /\ at = 0 /\ called = NoCall /\ verdict = Pending /\ pc = "idle"
  BY ClockAssumption DEF TypeInv, Call
<1>2. /\ called' = [clock |-> clock, objects |-> {o}] /\ own' = {o}
      /\ given' = o /\ clock' = clock
  BY <1>0 DEF Call
<1>3. CallOf(o)'
  BY <1>1, <1>2 DEF CallOf
<1>4. 0 \in 0 .. LastTurn(o) /\ o.kind \in {"receipt", "checkpoint"}
      /\ Len(o.members) \in Nat
  BY <1>1, TurnsOf, ObjectsAssumption
<1>5. \/ Progress(o)' /\ pc' \in {"fingerprint", "signature"} /\ verdict' = verdict
      \/ pc' = "settled" /\ verdict' \notin {Pending, Accepted} /\ Outcome(o, clock) = Rejected
  <2>1. CASE Refusal(o) # Accepted
    <3>1. pc' = "settled" /\ verdict' = Refusal(o)
      BY <1>0, <2>1 DEF Call, Settle
    <3>2. Outcome(o, clock) # Accepted
      BY <1>1, <2>1, RefusalIs, OutcomeIs
    <3>3. Outcome(o, clock) = Rejected
      BY <1>1, <3>2, OutcomeIs
    <3> QED
      BY <2>1, <3>1, <3>3, RefusalIs
  <2>2. CASE Refusal(o) = Accepted
    <3>1. Begin(o, 0)
      BY <1>0, <2>2 DEF Call
    <3>2. o.kind = "checkpoint" => ~o.shared /\ ListFits(o)
      BY <2>2, RefusalIs
    <3> QED
      BY <1>0, <1>1, <1>2, <1>4, <3>1, <3>2, BeginsTheTurn
  <2> QED
    BY <2>1, <2>2
<1>6. PromiseInv'
  BY <1>1, <1>3, <1>5 DEF PromiseInv
<1>7. Told' = Told \/ Told' = Outcome(o, clock)
  BY <1>5 DEF Told
<1>8. Promise!Request(o)
  BY <1>1, <1>2, <1>7 DEF Promise!Request, Promise!NoCall, NoCall, Told, Promise!Pending
<1> QED
  BY <1>6, <1>8

\* What every step after the call starts from.
LEMMA DuringTheCall ==
  ASSUME TypeInv, PromiseInv, pc \in {"fingerprint", "signature", "returned", "root"}
  PROVE  /\ clock \in Nat /\ StartNow \in Nat /\ verdict = Pending
         /\ \E o \in Objects : CallOf(o) /\ Progress(o) /\ The(own) = o
<1>1. clock \in Nat /\ StartNow \in Nat /\ verdict = Pending
  BY ClockAssumption DEF TypeInv
<1>2. PICK o \in Objects : CallOf(o) /\ Progress(o)
  BY DEF PromiseInv
<1>3. The(own) = o
  BY <1>2, TheOne DEF CallOf
<1> QED
  BY <1>1, <1>2, <1>3

LEMMA FingerprintKeepsPromise ==
  ASSUME PinsAreFixed, TypeInv, PromiseInv, FingerprintReady
  PROVE  PromiseInv' /\ (Promise!Answer \/ UNCHANGED << called, clock, Told >>)
<1>1. pc = "fingerprint" /\ UNCHANGED << given, called, own, at, key, clock >>
  BY DEF FingerprintReady
<1>2. PICK o \in Objects : CallOf(o) /\ Progress(o) /\ The(own) = o
  BY <1>1, DuringTheCall
<1>3. clock \in Nat /\ StartNow \in Nat /\ verdict = Pending
  BY <1>1, DuringTheCall
<1>4. /\ at \in 0 .. LastTurn(o) /\ key = {KeyOf(o, at)} /\ o.build = "browser"
      /\ o.kind = "receipt" => at = 0
      /\ o.kind \in {"receipt", "checkpoint"}
  BY <1>1, <1>2, ObjectsAssumption DEF Progress
<1>5. TrustedSeen(o) = o.trusted
  <2>1. given \in Objects /\ given.kind = o.kind /\ given.build = o.build
    BY <1>2 DEF TypeInv, CallOf
  <2> QED
    BY <1>4, <2>1 DEF TrustedSeen, PinsAreFixed
<1> DEFINE outcome == TsCheckTrusted(KeyOf(o, at), o.trusted)
<1>6. \/ outcome = Accepted /\ pc' = "signature" /\ verdict' = verdict
      \/ outcome # Accepted /\ pc' = "settled" /\ verdict' = outcome
  BY <1>2, <1>4, <1>5, TheOne DEF FingerprintReady, Settle
<1>7. (outcome = Accepted <=> IsPinned(o, at)) /\ outcome # Pending
  BY DEF IsPinned, TsCheckTrusted, Require, Pending, Accepted
<1> HIDE DEF outcome
<1>8. CallOf(o)'
  BY <1>1, <1>2 DEF CallOf
<1>9. CASE outcome = Accepted
  <2>1. Progress(o)'
    BY <1>1, <1>2, <1>6, <1>7, <1>9 DEF Progress
  <2> QED
    BY <1>1, <1>6, <1>8, <1>9, <2>1 DEF PromiseInv, Told
<1>10. CASE outcome # Accepted
  <2>1. ~ TurnVerifies(o, at, clock)
    BY <1>3, <1>4, <1>7, <1>10, TurnVerifiesIf
  <2>2. Outcome(o, clock) = Rejected
    BY <1>3, <1>4, <2>1, OutcomeIs DEF TurnIsDone
  <2>3. Told' = Rejected
    BY <1>6, <1>7, <1>10 DEF Told
  <2>4. Promise!Answer
    BY <1>1, <1>2, <1>3, <2>2, <2>3, AnswerIsOfTheCall
  <2>5. PromiseInv'
    BY <1>6, <1>8, <1>10 DEF PromiseInv
  <2> QED
    BY <2>4, <2>5
<1> QED
  BY <1>9, <1>10

LEMMA SignatureKeepsPromise ==
  ASSUME TypeInv, PromiseInv, SignatureReady
  PROVE  PromiseInv' /\ (Promise!Answer \/ UNCHANGED << called, clock, Told >>)
<1>1. pc = "signature" /\ UNCHANGED << given, called, own, at, key, clock >>
  BY DEF SignatureReady
<1>2. PICK o \in Objects : CallOf(o) /\ Progress(o) /\ The(own) = o
  BY <1>1, DuringTheCall
<1>3. clock \in Nat /\ StartNow \in Nat /\ verdict = Pending
  BY <1>1, DuringTheCall
<1>4. /\ at \in 0 .. LastTurn(o) /\ key = {KeyOf(o, at)}
      /\ HasKey(o, at, clock) /\ IsPinned(o, at)
      /\ o.kind = "receipt" => at = 0
      /\ o.kind \in {"receipt", "checkpoint"}
  BY <1>1, <1>2, ObjectsAssumption DEF Progress
<1> DEFINE outcome == TsCheckSignature(ReceiptAt(o, at), KeyOf(o, at))
<1>5. IF outcome # Accepted \/ o.kind = "receipt"
      THEN pc' = "settled" /\ verdict' = outcome
      ELSE pc' = "returned" /\ verdict' = verdict
  <2>1. The(key) = KeyOf(o, at)
    BY <1>4, TheOne
  <2> HIDE DEF outcome
  <2> QED
    BY <1>2, <2>1 DEF SignatureReady, Settle, outcome
<1>6. (TurnVerifies(o, at, clock) <=> outcome = Accepted) /\ outcome # Pending
  <2>1. outcome # Pending
    BY DEF TsCheckSignature, Require, Pending, Accepted
  <2> QED
    BY <1>3, <1>4, <2>1, TurnVerifiesIf
<1> HIDE DEF outcome
<1>7. CallOf(o)'
  BY <1>1, <1>2 DEF CallOf
<1>8. CASE outcome = Accepted /\ o.kind # "receipt"
  <2>1. Progress(o)'
    BY <1>1, <1>2, <1>4, <1>5, <1>6, <1>8 DEF Progress
  <2> QED
    BY <1>1, <1>5, <1>7, <1>8, <2>1 DEF PromiseInv, Told
<1>9. CASE outcome # Accepted \/ o.kind = "receipt"
  <2>1. Outcome(o, clock) = IF outcome = Accepted THEN Accepted ELSE Rejected
    <3>1. Outcome(o, clock) = Accepted <=> outcome = Accepted
      BY <1>3, <1>4, <1>6, <1>9, OutcomeIs DEF TurnIsDone
    <3> QED
      BY <1>3, <3>1, OutcomeIs
  <2>2. Told' = Outcome(o, clock)
    BY <1>5, <1>6, <1>9, <2>1 DEF Told
  <2>3. Promise!Answer
    BY <1>1, <1>2, <1>3, <2>2, AnswerIsOfTheCall
  <2>4. PromiseInv'
    BY <1>5, <1>7, <1>9 DEF PromiseInv
  <2> QED
    BY <2>3, <2>4
<1> QED
  BY <1>8, <1>9

\* The next receipt of verifyCheckpoint begins: the step after the await does not
\* settle, or settles with what the synchronous verifier would say.
LEMMA NextTurnKeepsPromise ==
  ASSUME TypeInv, NEW o \in Objects, CallOf(o), NEW k \in 0 .. LastTurn(o), Begin(o, k),
         UNCHANGED << given, called, own, clock >>, verdict = Pending, pc # "idle",
         o.kind = "checkpoint", ~o.shared, ListFits(o),
         \A j \in 0 .. k - 1 : TurnIsDone(o, j, clock),
         k > Len(o.members) => TsCheckCount(o) = Accepted /\ RootMatches(o)
  PROVE  PromiseInv' /\ (Promise!Answer \/ UNCHANGED << called, clock, Told >>)
<1>1. clock \in Nat /\ StartNow \in Nat
  BY ClockAssumption DEF TypeInv
<1>2. CallOf(o)'
  BY DEF CallOf
<1>3. \/ Progress(o)' /\ pc' \in {"fingerprint", "signature"} /\ verdict' = verdict
      \/ pc' = "settled" /\ verdict' \notin {Pending, Accepted} /\ Outcome(o, clock) = Rejected
  BY <1>1, BeginsTheTurn
<1>4. PromiseInv'
  BY <1>2, <1>3 DEF PromiseInv
<1>5. CASE verdict' = verdict
  BY <1>4, <1>5 DEF Told
<1>6. CASE verdict' \notin {Pending, Accepted} /\ Outcome(o, clock) = Rejected
  <2>1. Told' = Outcome(o, clock)
    BY <1>6 DEF Told
  <2> QED
    BY <1>1, <1>4, <2>1, AnswerIsOfTheCall
<1> QED
  BY <1>3, <1>5, <1>6

LEMMA ReturnedKeepsPromise ==
  ASSUME TypeInv, PromiseInv, Returned
  PROVE  PromiseInv' /\ (Promise!Answer \/ UNCHANGED << called, clock, Told >>)
<1>1. pc = "returned" /\ UNCHANGED << given, called, own, clock >>
  BY DEF Returned
<1>2. PICK o \in Objects : CallOf(o) /\ Progress(o) /\ The(own) = o
  BY <1>1, DuringTheCall
<1>3. clock \in Nat /\ StartNow \in Nat /\ verdict = Pending
  BY <1>1, DuringTheCall
<1>4. /\ at \in 0 .. LastTurn(o) /\ o.kind = "checkpoint" /\ ~o.shared /\ ListFits(o)
      /\ TurnVerifies(o, at, clock)
      /\ \A j \in 0 .. at - 1 : TurnIsDone(o, j, clock)
      /\ at > Len(o.members) => TsCheckCount(o) = Accepted /\ RootMatches(o)
  BY <1>1, <1>2 DEF Progress
<1>5. /\ Len(o.members) \in Nat /\ DOMAIN o.members = 1 .. Len(o.members)
      /\ LastTurn(o) \in Nat /\ LastTurn(o) \in {Len(o.members), Len(o.members) + 1}
  BY TurnsOf
<1> DEFINE role == TsCheckRole(o, at)
           counted == TsCheckCount(o)
<1>6. role # Pending /\ counted # Pending
  BY <1>5, RoleIsNotPending, CountIsNotPending
<1>7. CallOf(o)'
  BY <1>1, <1>2 DEF CallOf
<1>8. \/ role # Accepted /\ pc' = "settled" /\ verdict' = role
      \/ role = Accepted /\ at < Len(o.members) /\ Begin(o, at + 1)
      \/ /\ role = Accepted /\ at = Len(o.members) /\ counted = Accepted
         /\ pc' = "root" /\ verdict' = verdict /\ at' = at /\ key' = key
      \/ /\ role = Accepted /\ at = Len(o.members) /\ counted # Accepted
         /\ pc' = "settled" /\ verdict' = counted
      \/ /\ role = Accepted /\ at > Len(o.members)
         /\ pc' = "settled" /\ verdict' = Accepted
  <2> HIDE DEF role, counted
  <2> QED
    BY <1>2, <1>4, <1>5 DEF Returned, Settle, role, counted
<1>9. role = Accepted => \A j \in 0 .. at : TurnIsDone(o, j, clock)
  BY <1>4, <1>5 DEF TurnIsDone
<1> HIDE DEF role, counted
<1>10. CASE role # Accepted /\ pc' = "settled" /\ verdict' = role
  <2>1. Outcome(o, clock) = Rejected
    BY <1>3, <1>4, <1>10, OutcomeIs DEF TurnIsDone, role
  <2>2. Told' = Outcome(o, clock)
    BY <1>6, <1>10, <2>1 DEF Told
  <2>3. Promise!Answer
    BY <1>1, <1>2, <1>3, <2>2, AnswerIsOfTheCall
  <2> QED
    BY <1>7, <1>10, <2>3 DEF PromiseInv
<1>11. CASE role = Accepted /\ at < Len(o.members) /\ Begin(o, at + 1)
  <2>1. at + 1 \in 0 .. LastTurn(o) /\ ~(at + 1 > Len(o.members))
    BY <1>4, <1>5, <1>11
  <2>2. \A j \in 0 .. (at + 1) - 1 : TurnIsDone(o, j, clock)
    BY <1>4, <1>9, <1>11
  <2>3. PICK k \in 0 .. LastTurn(o) : k = at + 1
    BY <2>1
  <2>4. Begin(o, k)
    BY <1>11, <2>3
  <2> QED
    BY <1>1, <1>2, <1>3, <1>4, <2>1, <2>2, <2>3, <2>4, NextTurnKeepsPromise
<1>12. CASE /\ role = Accepted /\ at = Len(o.members) /\ counted = Accepted
            /\ pc' = "root" /\ verdict' = verdict /\ at' = at /\ key' = key
  <2>1. Progress(o)'
    BY <1>1, <1>2, <1>4, <1>12 DEF Progress, role, counted
  <2> QED
    BY <1>1, <1>7, <1>12, <2>1 DEF PromiseInv, Told
<1>13. CASE /\ role = Accepted /\ at = Len(o.members) /\ counted # Accepted
            /\ pc' = "settled" /\ verdict' = counted
  <2>1. Outcome(o, clock) = Rejected
    BY <1>3, <1>4, <1>13, OutcomeIs DEF counted
  <2>2. Told' = Outcome(o, clock)
    BY <1>6, <1>13, <2>1 DEF Told
  <2>3. Promise!Answer
    BY <1>1, <1>2, <1>3, <2>2, AnswerIsOfTheCall
  <2> QED
    BY <1>7, <1>13, <2>3 DEF PromiseInv
<1>14. CASE /\ role = Accepted /\ at > Len(o.members)
            /\ pc' = "settled" /\ verdict' = Accepted
  <2>1. at = LastTurn(o)
    BY <1>4, <1>5, <1>14
  <2>2. \A k \in 0 .. LastTurn(o) : TurnIsDone(o, k, clock)
    BY <1>9, <1>14, <2>1
  <2>3. Outcome(o, clock) = Accepted
    BY <1>3, <1>4, <1>14, <2>2, OutcomeIs
  <2>4. Told' = Outcome(o, clock)
    BY <1>14, <2>3 DEF Told
  <2>5. Promise!Answer
    BY <1>1, <1>2, <1>3, <2>4, AnswerIsOfTheCall
  <2> QED
    BY <1>7, <1>14, <2>5 DEF PromiseInv
<1> QED
  BY <1>8, <1>10, <1>11, <1>12, <1>13, <1>14

LEMMA RootKeepsPromise ==
  ASSUME TypeInv, PromiseInv, RootReady
  PROVE  PromiseInv' /\ (Promise!Answer \/ UNCHANGED << called, clock, Told >>)
<1>1. pc = "root" /\ UNCHANGED << given, called, own, clock >>
  BY DEF RootReady
<1>2. PICK o \in Objects : CallOf(o) /\ Progress(o) /\ The(own) = o
  BY <1>1, DuringTheCall
<1>3. clock \in Nat /\ StartNow \in Nat /\ verdict = Pending
  BY <1>1, DuringTheCall
<1>4. /\ at = Len(o.members) /\ o.kind = "checkpoint" /\ ~o.shared /\ ListFits(o)
      /\ TsCheckCount(o) = Accepted
      /\ TurnVerifies(o, at, clock) /\ TsCheckRole(o, at) = Accepted
      /\ \A j \in 0 .. at - 1 : TurnIsDone(o, j, clock)
  BY <1>1, <1>2 DEF Progress
<1>5. /\ Len(o.members) \in Nat
      /\ LastTurn(o) = IF o.previous = {} THEN Len(o.members) ELSE Len(o.members) + 1
  BY TurnsOf
<1>6. \A j \in 0 .. Len(o.members) : TurnIsDone(o, j, clock)
  BY <1>4, <1>5 DEF TurnIsDone
<1> DEFINE root == Require(ContextOf(o).merkle_root = CheckpointMerkleRoot(o.members),
                           "root_mismatch")
<1>7. (root = Accepted <=> RootMatches(o)) /\ root # Pending
  BY DEF RootMatches, Require, Pending, Accepted
<1>8. IF root = Accepted /\ o.previous # {}
      THEN Begin(o, Len(o.members) + 1)
      ELSE pc' = "settled" /\ verdict' = root
  BY <1>2 DEF RootReady, Settle
<1> HIDE DEF root
<1>9. CallOf(o)'
  BY <1>1, <1>2 DEF CallOf
<1>10. CASE root = Accepted /\ o.previous # {}
  <2>1. PICK k \in 0 .. LastTurn(o) : k = Len(o.members) + 1
    BY <1>5, <1>10
  <2>2. Begin(o, k) /\ \A j \in 0 .. k - 1 : TurnIsDone(o, j, clock)
    BY <1>5, <1>6, <1>8, <1>10, <2>1
  <2> QED
    BY <1>1, <1>2, <1>3, <1>4, <1>7, <1>10, <2>2, NextTurnKeepsPromise
<1>11. CASE ~(root = Accepted /\ o.previous # {})
  <2>1. Outcome(o, clock) = IF root = Accepted THEN Accepted ELSE Rejected
    <3>1. Outcome(o, clock) = Accepted <=> root = Accepted
      BY <1>3, <1>4, <1>5, <1>6, <1>7, <1>11, OutcomeIs
    <3> QED
      BY <1>3, <3>1, OutcomeIs
  <2>2. Told' = Outcome(o, clock)
    BY <1>7, <1>8, <1>11, <2>1 DEF Told
  <2>3. Promise!Answer
    BY <1>1, <1>2, <1>3, <2>2, AnswerIsOfTheCall
  <2> QED
    BY <1>8, <1>9, <1>11, <2>3 DEF PromiseInv
<1> QED
  BY <1>10, <1>11

\* The clock and the caller's edits.
LEMMA WorldKeepsPromise ==
  ASSUME TypeInv, PromiseInv
  PROVE  /\ Edit => PromiseInv' /\ UNCHANGED << called, clock, Told >>
         /\ Tick => PromiseInv' /\ Promise!ClockTicks
<1>1. ASSUME Edit PROVE PromiseInv' /\ UNCHANGED << called, clock, Told >>
  <2>1. /\ UNCHANGED << called, own, pc, at, key, clock, verdict >>
        /\ given'.kind = given.kind /\ given'.build = given.build
    BY <1>1 DEF Edit
  <2>2. ASSUME pc # "idle" PROVE PromiseInv'
    <3>1. PICK o \in Objects : CallOf(o) /\ (pc # "settled" => Progress(o))
      BY <2>2 DEF PromiseInv
    <3>2. CallOf(o)' /\ (pc # "settled" => Progress(o)')
      BY <2>1, <3>1 DEF CallOf, Progress
    <3> QED
      BY <2>1, <3>2 DEF PromiseInv
  <2> QED
    BY <2>1, <2>2 DEF PromiseInv, Told
<1>2. ASSUME Tick PROVE PromiseInv' /\ Promise!ClockTicks
  <2>1. /\ UNCHANGED << given, called, own, pc, at, key, verdict >>
        /\ clock < MaxNow /\ clock' = clock + 1 /\ clock \in Nat /\ StartNow \in Nat
    BY <1>2, ClockAssumption DEF Tick, TypeInv
  <2>2. ASSUME pc # "idle" PROVE PromiseInv'
    <3>1. PICK o \in Objects : CallOf(o) /\ (pc # "settled" => Progress(o))
      BY <2>2 DEF PromiseInv
    <3>2. CallOf(o)'
      BY <2>1, <3>1 DEF CallOf
    <3>3. ASSUME Progress(o) PROVE Progress(o)'
      <4>1. at \in 0 .. LastTurn(o) /\ LastTurn(o) \in Nat
        BY <3>3, TurnsOf DEF Progress
      <4>2. \A k \in 0 .. LastTurn(o) :
              /\ TurnVerifies(o, k, clock) => TurnVerifies(o, k, clock + 1)
              /\ HasKey(o, k, clock) => HasKey(o, k, clock + 1)
        BY <2>1, LaterToo
      <4>3. \A j \in 0 .. at - 1 : TurnIsDone(o, j, clock + 1)
        BY <3>3, <4>1, <4>2 DEF Progress, TurnIsDone
      <4> QED
        BY <2>1, <3>3, <4>1, <4>2, <4>3 DEF Progress
    <3> QED
      BY <2>1, <3>1, <3>2, <3>3 DEF PromiseInv
  <2>3. Promise!ClockTicks
    BY <2>1 DEF Promise!ClockTicks
  <2> QED
    BY <2>1, <2>2, <2>3 DEF PromiseInv
<1> QED
  BY <1>1, <1>2

\* The promise of the call is kept although the caller edits its objects and the
\* clock moves: at most one verdict, that of Python for the objects as they were at the
\* call and one instant between the call and the answer, unless verifyCheckpoint refuses
\* the call for its shared key bytes or the length of its list of members.
THEOREM PromiseIsKept ==
  ASSUME PinsAreFixed
  PROVE  Spec => KeepsPromise
<1>1. Init => PromiseInv /\ Promise!RequestInit
  BY DEF Init, PromiseInv, Promise!RequestInit, Promise!NoCall, NoCall, Promise!Pending, Pending
<1>2. TypeInv /\ PromiseInv /\ [Next]_vars
        => PromiseInv' /\ [Promise!RequestNext]_Promise!requestVars
  <2> SUFFICES ASSUME TypeInv, PromiseInv, [Next]_vars
               PROVE  PromiseInv' /\ [Promise!RequestNext]_Promise!requestVars
    OBVIOUS
  <2>1. UNCHANGED << called, clock, Told >> => UNCHANGED Promise!requestVars
    BY DEF Promise!requestVars, Told
  <2>2. CASE Call
    BY <2>2, CallRequests DEF Promise!RequestNext
  <2>3. CASE FingerprintReady
    BY <2>1, <2>3, FingerprintKeepsPromise DEF Promise!RequestNext
  <2>4. CASE SignatureReady
    BY <2>1, <2>4, SignatureKeepsPromise DEF Promise!RequestNext
  <2>5. CASE Returned
    BY <2>1, <2>5, ReturnedKeepsPromise DEF Promise!RequestNext
  <2>6. CASE RootReady
    BY <2>1, <2>6, RootKeepsPromise DEF Promise!RequestNext
  <2>7. CASE Edit
    BY <2>1, <2>7, WorldKeepsPromise
  <2>8. CASE Tick
    BY <2>8, WorldKeepsPromise DEF Promise!RequestNext
  <2>9. CASE UNCHANGED vars
    <3>1. PromiseInv' = PromiseInv
      BY <2>9 DEF vars, PromiseInv, CallOf, Progress
    <3>2. UNCHANGED << called, clock, Told >>
      BY <2>9 DEF vars, Told
    <3> QED
      BY <2>1, <3>1, <3>2
  <2> QED
    BY <2>2, <2>3, <2>4, <2>5, <2>6, <2>7, <2>8, <2>9 DEF Next
<1> QED
  BY <1>1, <1>2, TypesAreKept, PTL DEF Spec, KeepsPromise, Promise!RequestSpec

-----------------------------------------------------------------------------
(***************************************************************************)
(* VerifierParity, the walks of a payload: TreesAreSound.  What the stack  *)
(* still stands for is counted by weights: the weight of a node, at a      *)
(* depth, is what it and all that is below it in the unfolding of the      *)
(* payload count.  A visit takes a node off the stack and pushes those     *)
(* below, so that the nodes visited and the weight of the stack always     *)
(* make up the weight of the root.                                         *)
(*                                                                         *)
(* Sums along a sequence.  A sum is the size of a set, so that it does not *)
(* depend on the order in which it is taken.                               *)
(***************************************************************************)
Cells(v) == {p \in (DOMAIN v) \X Nat : p[2] < v[p[1]]}
Total(v) == Cardinality(Cells(v))

\* What one entry adds to a sum.
LEMMA OneEntry ==
  ASSUME NEW i, NEW c \in Nat
  PROVE  LET S == {p \in {i} \X Nat : p[2] < c} IN IsFiniteSet(S) /\ Cardinality(S) = c
<1> DEFINE S == {p \in {i} \X Nat : p[2] < c}
           B == 0 .. c - 1
           f == [x \in B |-> << i, x >>]
<1>1. IsFiniteSet(B) /\ Cardinality(B) = c
  BY FS_Interval
<1>2. f \in Bijection(B, S)
  <2>1. f \in [B -> S]
    OBVIOUS
  <2>2. \A x, y \in B : f[x] = f[y] => x = y
    OBVIOUS
  <2>3. \A p \in S : \E x \in B : f[x] = p
    <3> SUFFICES ASSUME NEW p \in S PROVE \E x \in B : f[x] = p
      OBVIOUS
    <3>1. p[1] = i /\ p[2] \in B /\ p = << p[1], p[2] >>
      OBVIOUS
    <3>2. f[p[2]] = p
      BY <3>1
    <3> QED
      BY <3>1, <3>2
  <2> HIDE DEF f, B, S
  <2> QED
    BY <2>1, <2>2, <2>3 DEF Bijection, Injection, Surjection, IsInjective
<1>3. ExistsBijection(B, S)
  BY <1>2 DEF ExistsBijection
<1> HIDE DEF B, S
<1> QED
  BY <1>1, <1>3, FS_Bijection DEF S

\* The sum of one entry more.
LEMMA TotalOfMore ==
  ASSUME NEW v, NEW u, NEW i, i \notin DOMAIN v, DOMAIN u = (DOMAIN v) \cup {i},
         \A j \in DOMAIN v : u[j] = v[j], u[i] \in Nat, IsFiniteSet(Cells(v))
  PROVE  IsFiniteSet(Cells(u)) /\ Total(u) = Total(v) + u[i]
<1> DEFINE N == {p \in {i} \X Nat : p[2] < u[i]}
<1>1. IsFiniteSet(N) /\ Cardinality(N) = u[i]
  BY OneEntry
<1>2. Cells(u) = Cells(v) \cup N
  BY DEF Cells
<1>3. Cells(v) \cap N = {}
  BY DEF Cells
<1> HIDE DEF N
<1>4. Cardinality(Cells(v) \cup N) = Cardinality(Cells(v)) + Cardinality(N) - Cardinality(Cells(v) \cap N)
  BY <1>1, FS_Union
<1>5. Cardinality(Cells(v) \cap N) = 0
  BY <1>3, FS_EmptySet
<1>6. IsFiniteSet(Cells(v) \cup N) /\ Cardinality(Cells(v)) \in Nat
  BY <1>1, FS_Union, FS_CardinalityType
<1> QED
  BY <1>1, <1>2, <1>4, <1>5, <1>6 DEF Total

\* The set a sum counts is finite, and the sum is a number.
LEMMA TotalType ==
  ASSUME NEW n \in Nat, NEW v \in [1 .. n -> Nat]
  PROVE  IsFiniteSet(Cells(v)) /\ Total(v) \in Nat
<1> DEFINE S == {k \in Nat : \A u \in [1 .. k -> Nat] : IsFiniteSet(Cells(u))}
<1>1. 0 \in S
  <2>1. ASSUME NEW u \in [1 .. 0 -> Nat]
        PROVE  IsFiniteSet(Cells(u))
    <3>1. Cells(u) = {}
      BY DEF Cells
    <3> QED
      BY <3>1, FS_EmptySet
  <2> QED
    BY <2>1
<1>2. ASSUME NEW k \in 0 .. n - 1, k \in S
      PROVE  k + 1 \in S
  <2>0. k \in Nat /\ k + 1 \in Nat
    OBVIOUS
  <2>1. ASSUME NEW u \in [1 .. k + 1 -> Nat]
        PROVE  IsFiniteSet(Cells(u))
    <3> DEFINE t == [i \in 1 .. k |-> u[i]]
    <3>1. /\ t \in [1 .. k -> Nat] /\ DOMAIN t = 1 .. k /\ k + 1 \notin DOMAIN t
          /\ DOMAIN u = (DOMAIN t) \cup {k + 1}
          /\ u[k + 1] \in Nat /\ \A i \in DOMAIN t : u[i] = t[i]
      BY <2>0
    <3> HIDE DEF t
    <3>2. IsFiniteSet(Cells(t))
      BY <1>2, <3>1
    <3> QED
      BY <3>1, <3>2, TotalOfMore
  <2> QED
    BY <2>0, <2>1
<1> HIDE DEF S
<1>3. 0 .. n \subseteq S
  BY <1>1, <1>2, NumberInduction
<1>4. n \in S
  BY <1>3
<1>5. IsFiniteSet(Cells(v))
  BY <1>4 DEF S
<1> QED
  BY <1>5, FS_CardinalityType DEF Total

\* The sum of no entries.
LEMMA TotalOfNone ==
  ASSUME NEW v \in [1 .. 0 -> Nat]
  PROVE  Total(v) = 0
<1>1. Cells(v) = {}
  BY DEF Cells
<1> QED
  BY <1>1, FS_EmptySet DEF Total

\* The sum up to the next entry.
LEMMA TotalStep ==
  ASSUME NEW n \in Nat, NEW u \in [1 .. n -> Nat], NEW v \in [1 .. n + 1 -> Nat],
         \A i \in 1 .. n : v[i] = u[i]
  PROVE  Total(v) = Total(u) + v[n + 1]
<1>1. /\ n + 1 \notin DOMAIN u /\ DOMAIN v = (DOMAIN u) \cup {n + 1}
      /\ v[n + 1] \in Nat /\ \A i \in DOMAIN u : v[i] = u[i]
  OBVIOUS
<1>2. IsFiniteSet(Cells(u))
  BY TotalType
<1> QED
  BY <1>1, <1>2, TotalOfMore

\* Each of the numbers up to n, once.
IsOrder(pi, n) ==
  /\ pi \in [1 .. n -> 1 .. n]
  /\ \A i, j \in 1 .. n : pi[i] = pi[j] => i = j
  /\ \A j \in 1 .. n : \E i \in 1 .. n : pi[i] = j

\* A sum does not depend on the order of the entries.
LEMMA TotalOfPermuted ==
  ASSUME NEW n \in Nat, NEW u \in [1 .. n -> Nat], NEW v \in [1 .. n -> Nat], NEW pi, IsOrder(pi, n),
         \A i \in 1 .. n : v[i] = u[pi[i]]
  PROVE  Total(v) = Total(u)
<1>0. /\ pi \in [1 .. n -> 1 .. n]
      /\ \A i, j \in 1 .. n : pi[i] = pi[j] => i = j
      /\ \A j \in 1 .. n : \E i \in 1 .. n : pi[i] = j
  BY DEF IsOrder
<1> DEFINE f == [p \in Cells(v) |-> << pi[p[1]], p[2] >>]
<1>1. \A p \in Cells(v) : p[1] \in 1 .. n /\ p[2] \in Nat /\ p = << p[1], p[2] >> /\ p[2] < v[p[1]]
  BY DEF Cells
<1>2. \A i \in 1 .. n, x \in Nat : x < u[i] => << i, x >> \in Cells(u)
  BY DEF Cells
<1>3. \A i \in 1 .. n, x \in Nat : x < v[i] => << i, x >> \in Cells(v)
  BY DEF Cells
<1>4. \A p \in Cells(u) : p[1] \in 1 .. n /\ p[2] \in Nat /\ p = << p[1], p[2] >> /\ p[2] < u[p[1]]
  BY DEF Cells
<1>5. f \in [Cells(v) -> Cells(u)]
  <2>1. ASSUME NEW p \in Cells(v) PROVE << pi[p[1]], p[2] >> \in Cells(u)
    BY <1>0, <1>1, <1>2
  <2> QED
    BY <2>1
<1>6. ASSUME NEW p \in Cells(v), NEW q \in Cells(v), f[p] = f[q]
      PROVE  p = q
  <2>1. pi[p[1]] = pi[q[1]] /\ p[2] = q[2]
    BY <1>6
  <2>2. p[1] = q[1]
    BY <1>0, <1>1, <2>1
  <2>3. p = << p[1], p[2] >> /\ q = << q[1], q[2] >>
    BY <1>1
  <2> QED
    BY <2>1, <2>2, <2>3
<1>7. ASSUME NEW q \in Cells(u)
      PROVE  \E p \in Cells(v) : f[p] = q
  <2>1. PICK i \in 1 .. n : pi[i] = q[1]
    BY <1>0, <1>4
  <2>2. << i, q[2] >> \in Cells(v)
    BY <1>3, <1>4, <2>1
  <2>3. f[<< i, q[2] >>] = q
    BY <1>4, <2>1, <2>2
  <2> QED
    BY <2>2, <2>3
<1> HIDE DEF f
<1>8. ExistsBijection(Cells(v), Cells(u))
  BY <1>5, <1>6, <1>7 DEF ExistsBijection, Bijection, Injection, Surjection, IsInjective
<1>9. IsFiniteSet(Cells(v)) /\ IsFiniteSet(Cells(u))
  BY TotalType
<1> QED
  BY <1>8, <1>9, FS_Bijection DEF Total

\* The sum of the first k entries.
Upto(v, k) == Total([i \in 1 .. k |-> v[i]])

\* They begin with nothing, end with the whole and grow entry by entry.
LEMMA UptoIs ==
  ASSUME NEW n \in Nat, NEW v \in [1 .. n -> Nat]
  PROVE  /\ Upto(v, 0) = 0
         /\ Upto(v, n) = Total(v)
         /\ \A k \in 0 .. n : Upto(v, k) \in Nat
         /\ \A k \in 1 .. n : Upto(v, k) = Upto(v, k - 1) + v[k]
<1> DEFINE h(k) == [i \in 1 .. k |-> v[i]]
<1>1. ASSUME NEW k \in 0 .. n
      PROVE  k \in Nat /\ h(k) \in [1 .. k -> Nat] /\ \A i \in 1 .. k : h(k)[i] = v[i]
  OBVIOUS
<1>2. h(n) = v
  OBVIOUS
<1>3. \A k \in 0 .. n : Upto(v, k) = Total(h(k))
  BY DEF Upto
<1> HIDE DEF h
<1>4. Upto(v, 0) = 0
  BY <1>1, <1>3, TotalOfNone
<1>5. Upto(v, n) = Total(v)
  BY <1>2, <1>3
<1>6. ASSUME NEW k \in 0 .. n PROVE Upto(v, k) \in Nat
  BY <1>1, <1>3, TotalType
<1>7. ASSUME NEW k \in 1 .. n PROVE Upto(v, k) = Upto(v, k - 1) + v[k]
  <2> DEFINE j == k - 1
  <2>1. j \in Nat /\ j \in 0 .. n /\ k = j + 1 /\ k \in 0 .. n
    OBVIOUS
  <2> HIDE DEF j
  <2>2. h(j) \in [1 .. j -> Nat] /\ h(j + 1) \in [1 .. j + 1 -> Nat]
    BY <1>1, <2>1
  <2>3. \A i \in 1 .. j : h(j + 1)[i] = h(j)[i]
    BY <1>1, <2>1
  <2>4. Total(h(j + 1)) = Total(h(j)) + h(j + 1)[j + 1]
    BY <2>1, <2>2, <2>3, TotalStep
  <2>5. h(j + 1)[j + 1] = v[k]
    BY <1>1, <2>1
  <2>6. Upto(v, k) = Upto(v, j) + v[k]
    BY <1>3, <2>1, <2>4, <2>5
  <2> QED
    BY <2>6 DEF j
<1> QED
  BY <1>4, <1>5, <1>6, <1>7

\* What grows by the entries has grown by their sum.
LEMMA GrowsByTotal ==
  ASSUME NEW n \in Nat, NEW v \in [1 .. n -> Nat], NEW G, \A k \in 0 .. n : G[k] \in Nat,
         \A k \in 1 .. n : G[k] = G[k - 1] + v[k]
  PROVE  G[n] = G[0] + Total(v)
<1> DEFINE S == {k \in 0 .. n : G[k] = G[0] + Upto(v, k)}
<1>1. 0 \in S
  BY UptoIs
<1>2. ASSUME NEW i \in 0 .. n - 1, i \in S
      PROVE  i + 1 \in S
  <2>1. i + 1 \in 1 .. n /\ i + 1 - 1 = i /\ i \in 0 .. n /\ i + 1 \in 0 .. n
    OBVIOUS
  <2> DEFINE j == i + 1
  <2>2. j \in 1 .. n /\ j - 1 = i
    BY <2>1
  <2> HIDE DEF j
  <2>3. G[j] = G[j - 1] + v[j] /\ Upto(v, j) = Upto(v, j - 1) + v[j]
    BY <2>2, UptoIs
  <2>4. G[i + 1] = G[i] + v[i + 1] /\ Upto(v, i + 1) = Upto(v, i) + v[i + 1]
    BY <2>3, <2>2 DEF j
  <2>5. G[i] \in Nat /\ G[0] \in Nat /\ Upto(v, i) \in Nat /\ v[i + 1] \in Nat
    BY <2>1, UptoIs, SMTT(25)
  <2>6. G[i] = G[0] + Upto(v, i)
    BY <1>2
  <2> QED
    BY <2>1, <2>4, <2>5, <2>6
<1> HIDE DEF S
<1>3. 0 .. n \subseteq S
  BY <1>1, <1>2, NumberInduction
<1>4. n \in S
  BY <1>3
<1>5. G[n] = G[0] + Upto(v, n)
  BY <1>4 DEF S
<1> QED
  BY <1>5, UptoIs

\* The sum of two.
LEMMA TotalOfBoth ==
  ASSUME NEW n \in Nat, NEW u \in [1 .. n -> Nat], NEW v \in [1 .. n -> Nat], NEW w \in [1 .. n -> Nat],
         \A i \in 1 .. n : w[i] = u[i] + v[i]
  PROVE  Total(w) = Total(u) + Total(v)
<1> DEFINE G == [k \in 0 .. n |-> Upto(u, k) + Upto(v, k)]
<1>1. \A k \in 0 .. n : Upto(u, k) \in Nat /\ Upto(v, k) \in Nat
  BY UptoIs
<1>2. \A k \in 0 .. n : G[k] = Upto(u, k) + Upto(v, k) /\ G[k] \in Nat
  BY <1>1
<1> HIDE DEF G
<1>3. ASSUME NEW k \in 1 .. n PROVE G[k] = G[k - 1] + w[k]
  <2>1. k - 1 \in 0 .. n /\ k \in 0 .. n
    OBVIOUS
  <2>2. Upto(u, k) = Upto(u, k - 1) + u[k] /\ Upto(v, k) = Upto(v, k - 1) + v[k]
    BY UptoIs
  <2>3. u[k] \in Nat /\ v[k] \in Nat /\ w[k] = u[k] + v[k]
    OBVIOUS
  <2>4. \A a, b, c, d \in Nat : (a + c) + (b + d) = (a + b) + (c + d)
    OBVIOUS
  <2>5. /\ G[k] = Upto(u, k) + Upto(v, k) /\ G[k - 1] = Upto(u, k - 1) + Upto(v, k - 1)
        /\ Upto(u, k - 1) \in Nat /\ Upto(v, k - 1) \in Nat
    BY <1>1, <1>2, <2>1
  <2> QED
    BY <2>2, <2>3, <2>4, <2>5
<1>4. G[n] = G[0] + Total(w)
  BY <1>2, <1>3, GrowsByTotal
<1>5. G[0] = 0 /\ G[n] = Total(u) + Total(v)
  <2>1. 0 \in 0 .. n /\ n \in 0 .. n
    OBVIOUS
  <2>2. Upto(u, 0) = 0 /\ Upto(v, 0) = 0 /\ Upto(u, n) = Total(u) /\ Upto(v, n) = Total(v)
    BY UptoIs
  <2> QED
    BY <1>2, <2>1, <2>2
<1>6. Total(w) \in Nat
  BY TotalType
<1> QED
  BY <1>4, <1>5, <1>6

\* The sum of one sequence after another.
LEMMA TotalOfChain ==
  ASSUME NEW m \in Nat, NEW n \in Nat, NEW u \in [1 .. m -> Nat], NEW v \in [1 .. n -> Nat],
         NEW w \in [1 .. m + n -> Nat],
         \A i \in 1 .. m : w[i] = u[i], \A i \in 1 .. n : w[m + i] = v[i]
  PROVE  Total(w) = Total(u) + Total(v)
<1> DEFINE G == [k \in 0 .. n |-> Upto(w, m + k)]
<1>0. m + n \in Nat /\ 0 \in 0 .. n /\ n \in 0 .. n /\ m + 0 = m
  OBVIOUS
<1>1. \A k \in 0 .. m + n : Upto(w, k) \in Nat
  BY <1>0, UptoIs
<1>2. \A k \in 0 .. n : G[k] = Upto(w, m + k) /\ G[k] \in Nat
  BY <1>1
<1> HIDE DEF G
<1>3. ASSUME NEW k \in 1 .. n PROVE G[k] = G[k - 1] + v[k]
  <2>1. k - 1 \in 0 .. n /\ k \in 0 .. n /\ m + k \in 1 .. m + n /\ (m + k) - 1 = m + (k - 1)
    OBVIOUS
  <2>2. Upto(w, m + k) = Upto(w, m + k - 1) + w[m + k]
    BY <1>0, <2>1, UptoIs
  <2> QED
    BY <1>2, <2>1, <2>2
<1>4. G[n] = G[0] + Total(v)
  BY <1>2, <1>3, GrowsByTotal
<1>5. G[n] = Total(w)
  BY <1>0, <1>2, UptoIs
<1>6. G[0] = Total(u)
  <2>1. [i \in 1 .. m |-> w[i]] = u
    OBVIOUS
  <2> QED
    BY <1>0, <1>2, <2>1 DEF Upto
<1> QED
  BY <1>4, <1>5, <1>6

\* No entry is more than the sum; the sum is zero when every entry is.
LEMMA TotalBounds ==
  ASSUME NEW n \in Nat, NEW v \in [1 .. n -> Nat]
  PROVE  /\ \A i \in 1 .. n : v[i] <= Total(v)
         /\ Total(v) = 0 <=> \A i \in 1 .. n : v[i] = 0
<1>1. IsFiniteSet(Cells(v)) /\ Total(v) \in Nat
  BY TotalType
<1>2. ASSUME NEW i \in 1 .. n PROVE v[i] <= Total(v)
  <2> DEFINE C == {p \in {i} \X Nat : p[2] < v[i]}
  <2>1. IsFiniteSet(C) /\ Cardinality(C) = v[i]
    BY OneEntry
  <2>2. C \subseteq Cells(v)
    BY DEF Cells
  <2> HIDE DEF C
  <2> QED
    BY <1>1, <2>1, <2>2, FS_Subset DEF Total
<1>3. ASSUME \A i \in 1 .. n : v[i] = 0 PROVE Total(v) = 0
  <2>1. Cells(v) = {}
    BY <1>3 DEF Cells
  <2> QED
    BY <2>1, FS_EmptySet DEF Total
<1>4. ASSUME Total(v) = 0, NEW i \in 1 .. n PROVE v[i] = 0
  <2>1. v[i] <= 0 /\ v[i] \in Nat
    BY <1>2, <1>4
  <2> QED
    BY <2>1
<1> QED
  BY <1>2, <1>3, <1>4

\* The sum of ones.
LEMMA TotalOfOnes ==
  ASSUME NEW n \in Nat, NEW v \in [1 .. n -> Nat], \A i \in 1 .. n : v[i] = 1
  PROVE  Total(v) = n
<1> DEFINE G == [k \in 0 .. n |-> k]
<1>1. \A k \in 0 .. n : G[k] = k /\ G[k] \in Nat
  OBVIOUS
<1> HIDE DEF G
<1>2. \A k \in 1 .. n : G[k] = G[k - 1] + v[k]
  BY <1>1
<1>3. G[n] = G[0] + Total(v)
  BY <1>1, <1>2, GrowsByTotal
<1> QED
  BY <1>1, <1>3, TotalType

\* The sum of a function over the elements of a sequence.
Over(s, f) == Total([i \in DOMAIN s |-> f[s[i]]])

\* What such a sum adds up is a sequence of numbers.
LEMMA OverShape ==
  ASSUME NEW S, NEW s \in Seq(S), NEW f \in [S -> Nat]
  PROVE  [i \in DOMAIN s |-> f[s[i]]] \in [1 .. Len(s) -> Nat] /\ Len(s) \in Nat
  OBVIOUS

\* Such a sum is a number.
LEMMA OverType ==
  ASSUME NEW S, NEW s \in Seq(S), NEW f \in [S -> Nat]
  PROVE  Over(s, f) \in Nat
<1> DEFINE v == [i \in DOMAIN s |-> f[s[i]]]
<1>1. v \in [1 .. Len(s) -> Nat] /\ Len(s) \in Nat
  BY OverShape
<1>2. Over(s, f) = Total(v)
  BY DEF Over
<1> HIDE DEF v
<1> QED
  BY <1>1, <1>2, TotalType

\* Over nothing it is zero.
LEMMA OverOfNone ==
  ASSUME NEW f
  PROVE  Over(<< >>, f) = 0
<1> DEFINE v == [i \in DOMAIN << >> |-> f[(<< >>)[i]]]
<1>1. v \in [1 .. 0 -> Nat]
  OBVIOUS
<1> HIDE DEF v
<1>2. Total(v) = 0
  BY <1>1, TotalOfNone
<1> QED
  BY <1>2 DEF Over, v

\* Over one element it is the value of that element.
LEMMA OverOfOne ==
  ASSUME NEW S, NEW x \in S, NEW f \in [S -> Nat]
  PROVE  Over(<< x >>, f) = f[x]
<1> DEFINE v == [i \in DOMAIN << x >> |-> f[(<< x >>)[i]]]
           u == [i \in 1 .. 0 |-> 0]
<1>1. u \in [1 .. 0 -> Nat] /\ v \in [1 .. 0 + 1 -> Nat] /\ v[0 + 1] = f[x] /\ f[x] \in Nat
  OBVIOUS
<1>2. \A i \in 1 .. 0 : v[i] = u[i]
  OBVIOUS
<1> HIDE DEF v, u
<1>3. Total(v) = Total(u) + v[0 + 1] /\ Total(u) = 0
  BY <1>1, <1>2, TotalStep, TotalOfNone
<1> QED
  BY <1>1, <1>3 DEF Over, v

\* Over one sequence after another it is the sum of both.
LEMMA OverOfChain ==
  ASSUME NEW S, NEW s \in Seq(S), NEW t \in Seq(S), NEW f \in [S -> Nat]
  PROVE  s \o t \in Seq(S) /\ Over(s \o t, f) = Over(s, f) + Over(t, f)
<1> DEFINE m == Len(s)
           n == Len(t)
           u == [i \in DOMAIN s |-> f[s[i]]]
           v == [i \in DOMAIN t |-> f[t[i]]]
           w == [i \in DOMAIN (s \o t) |-> f[(s \o t)[i]]]
<1>1. s \o t \in Seq(S) /\ m \in Nat /\ n \in Nat /\ Len(s \o t) = m + n
  OBVIOUS
<1>2. DOMAIN s = 1 .. m /\ DOMAIN t = 1 .. n /\ DOMAIN (s \o t) = 1 .. m + n
  BY <1>1
<1>3. \A i \in 1 .. m : (s \o t)[i] = s[i] /\ s[i] \in S /\ i \in 1 .. m + n
  BY <1>1
<1>4. \A i \in 1 .. n : (s \o t)[m + i] = t[i] /\ t[i] \in S /\ m + i \in 1 .. m + n
  BY <1>1
<1>5. u \in [1 .. m -> Nat] /\ v \in [1 .. n -> Nat] /\ w \in [1 .. m + n -> Nat]
  BY <1>1, OverShape
<1>6. \A i \in 1 .. m : w[i] = u[i]
  BY <1>2, <1>3
<1>7. \A i \in 1 .. n : w[m + i] = v[i]
  BY <1>2, <1>4
<1>8. Over(s \o t, f) = Total(w) /\ Over(s, f) = Total(u) /\ Over(t, f) = Total(v)
  BY DEF Over
<1> HIDE DEF m, n, u, v, w
<1>9. Total(w) = Total(u) + Total(v)
  BY <1>1, <1>5, <1>6, <1>7, TotalOfChain
<1> QED
  BY <1>1, <1>8, <1>9

\* No value in it is more than the sum; it is zero when every value is.
LEMMA OverBounds ==
  ASSUME NEW S, NEW s \in Seq(S), NEW f \in [S -> Nat]
  PROVE  /\ \A i \in DOMAIN s : f[s[i]] <= Over(s, f)
         /\ Over(s, f) = 0 <=> \A i \in DOMAIN s : f[s[i]] = 0
<1> DEFINE v == [i \in DOMAIN s |-> f[s[i]]]
<1>1. v \in [1 .. Len(s) -> Nat] /\ Len(s) \in Nat
  BY OverShape
<1>2. DOMAIN s = 1 .. Len(s) /\ \A i \in DOMAIN s : v[i] = f[s[i]]
  OBVIOUS
<1>3. Over(s, f) = Total(v)
  BY DEF Over
<1> HIDE DEF v
<1>4. /\ \A i \in 1 .. Len(s) : v[i] <= Total(v)
      /\ Total(v) = 0 <=> \A i \in 1 .. Len(s) : v[i] = 0
  BY <1>1, TotalBounds
<1> QED
  BY <1>2, <1>3, <1>4

\* The sum of ones is the length.
LEMMA OverOfOnes ==
  ASSUME NEW S, NEW s \in Seq(S), NEW f \in [S -> Nat], \A x \in S : f[x] = 1
  PROVE  Over(s, f) = Len(s)
<1> DEFINE v == [i \in DOMAIN s |-> f[s[i]]]
<1>1. v \in [1 .. Len(s) -> Nat] /\ Len(s) \in Nat
  BY OverShape
<1>2. \A i \in 1 .. Len(s) : v[i] = 1
  OBVIOUS
<1>3. Over(s, f) = Total(v)
  BY DEF Over
<1> HIDE DEF v
<1> QED
  BY <1>1, <1>2, <1>3, TotalOfOnes

-----------------------------------------------------------------------------
\* A recursive function on 0 .. n is there.
IsRecursion(g, S, a, n, step) ==
  g \in [0 .. n -> S] /\ g[0] = a /\ \A k \in 1 .. n : g[k] = step[<< k, g[k - 1] >>]

\* By induction on how far it is defined.
LEMMA RecursionExists ==
  ASSUME NEW S, NEW a \in S, NEW n \in Nat, NEW step \in [(1 .. n) \X S -> S]
  PROVE  \E g : IsRecursion(g, S, a, n, step)
<1> DEFINE T == {k \in 0 .. n : \E g : IsRecursion(g, S, a, k, step)}
<1>1. 0 \in T
  <2> DEFINE g == [k \in 0 .. 0 |-> a]
  <2>1. g \in [0 .. 0 -> S] /\ g[0] = a /\ 1 .. 0 = {} /\ 0 \in 0 .. n
    OBVIOUS
  <2> HIDE DEF g
  <2>2. IsRecursion(g, S, a, 0, step)
    BY <2>1 DEF IsRecursion
  <2> QED
    BY <2>1, <2>2
<1>2. ASSUME NEW i \in 0 .. n - 1, i \in T
      PROVE  i + 1 \in T
  <2>1. PICK g : IsRecursion(g, S, a, i, step)
    BY <1>2
  <2> DEFINE h == [k \in 0 .. i + 1 |-> IF k = i + 1 THEN step[<< i + 1, g[i] >>] ELSE g[k]]
  <2>2. i \in Nat /\ i + 1 \in 0 .. n /\ i + 1 \in 1 .. n /\ i \in 0 .. i /\ 0 \in 0 .. i
    OBVIOUS
  <2>3. (\A k \in 0 .. i : h[k] = g[k]) /\ h[i + 1] = step[<< i + 1, g[i] >>]
    BY <2>2
  <2>4. (\A k \in 0 .. i : g[k] \in S) /\ g[0] = a /\ \A k \in 1 .. i : g[k] = step[<< k, g[k - 1] >>]
    BY <2>1 DEF IsRecursion
  <2>5. step[<< i + 1, g[i] >>] \in S
    BY <2>2, <2>4
  <2>6. h \in [0 .. i + 1 -> S]
    BY <2>2, <2>4, <2>5
  <2> HIDE DEF h
  <2>7. ASSUME NEW k \in 1 .. i + 1 PROVE h[k] = step[<< k, h[k - 1] >>]
    <3>1. CASE k = i + 1
      <4>1. k - 1 = i
        BY <2>2, <3>1
      <4> QED
        BY <2>2, <2>3, <3>1, <4>1
    <3>2. CASE k # i + 1
      <4>1. k \in 1 .. i /\ k \in 0 .. i /\ k - 1 \in 0 .. i
        BY <2>2, <3>2
      <4> QED
        BY <2>3, <2>4, <4>1
    <3> QED
      BY <3>1, <3>2
  <2>8. h[0] = a
    BY <2>2, <2>3, <2>4
  <2>9. IsRecursion(h, S, a, i + 1, step)
    BY <2>6, <2>7, <2>8 DEF IsRecursion
  <2> QED
    BY <2>2, <2>9
<1> HIDE DEF T
<1>3. 0 .. n \subseteq T
  BY <1>1, <1>2, NumberInduction
<1>4. n \in T
  BY <1>3
<1> QED
  BY <1>4 DEF T

\* FlattenSeq is what its definition says.
IsFlattening(g, S, n, ss) ==
  /\ g \in [0 .. n -> Seq(S)] /\ g[0] = << >>
  /\ \A k \in 1 .. n : g[k] = g[k - 1] \o ss[k]

\* The definition by recursion has a solution, and FlattenSeq is it.
LEMMA FlattenIs ==
  ASSUME NEW S, NEW n \in Nat, NEW ss \in [1 .. n -> Seq(S)]
  PROVE  \E g : IsFlattening(g, S, n, ss) /\ Payload!FlattenSeq(ss) = g[n]
<1>0. ss \in Seq(Seq(S)) /\ Len(ss) = n /\ DOMAIN ss = 1 .. n
  OBVIOUS
<1>1. CASE n = 0
  <2> DEFINE g == [k \in 0 .. 0 |-> << >>]
  <2>1. g \in [0 .. 0 -> Seq(S)] /\ g[0] = << >> /\ 1 .. 0 = {}
    OBVIOUS
  <2> HIDE DEF g
  <2>2. IsFlattening(g, S, n, ss)
    BY <1>1, <2>1 DEF IsFlattening
  <2>3. Payload!FlattenSeq(ss) = ss
    BY <1>0, <1>1 DEF Payload!FlattenSeq
  <2>4. ss = << >>
    BY <1>0, <1>1
  <2> QED
    BY <1>1, <2>1, <2>2, <2>3, <2>4
<1>2. CASE n # 0
  <2> DEFINE Body(f) == [i \in 1 .. Len(ss) |-> IF i = 1 THEN ss[i] ELSE f[i - 1] \o ss[i]]
             flat == CHOOSE f : f = Body(f)
             step == [p \in (1 .. n) \X Seq(S) |-> p[2] \o ss[p[1]]]
  <2>1. \E f : f = Body(f)
    <3>1. step \in [(1 .. n) \X Seq(S) -> Seq(S)] /\ << >> \in Seq(S)
      OBVIOUS
    <3>2. \A k \in 1 .. n, x \in Seq(S) : step[<< k, x >>] = x \o ss[k]
      OBVIOUS
    <3> HIDE DEF step
    <3>3. PICK g : IsRecursion(g, Seq(S), << >>, n, step)
      BY <3>1, RecursionExists
    <3>4. g[0] = << >> /\ (\A k \in 0 .. n : g[k] \in Seq(S)) /\ \A k \in 1 .. n : g[k] = step[<< k, g[k - 1] >>]
      BY <3>3 DEF IsRecursion
    <3>5. ASSUME NEW k \in 1 .. n
          PROVE  g[k] = IF k = 1 THEN ss[k] ELSE g[k - 1] \o ss[k]
      <4>1. k - 1 \in 0 .. n /\ ss[k] \in Seq(S)
        OBVIOUS
      <4>2. g[k] = g[k - 1] \o ss[k]
        BY <3>2, <3>4, <4>1
      <4>3. CASE k = 1
        <5>1. << >> \o ss[k] = ss[k] /\ k - 1 = 0
          BY <4>1, <4>3
        <5> QED
          BY <3>4, <4>2, <4>3, <5>1
      <4> QED
        BY <4>2, <4>3
    <3> DEFINE f == [k \in 1 .. n |-> g[k]]
    <3>6. f = [i \in 1 .. n |-> IF i = 1 THEN ss[i] ELSE f[i - 1] \o ss[i]]
      <4>1. \A i \in 1 .. n : i # 1 => i - 1 \in 1 .. n
        OBVIOUS
      <4>2. \A i \in 1 .. n : f[i] = g[i]
        OBVIOUS
      <4>3. \A i \in 1 .. n : f[i] = IF i = 1 THEN ss[i] ELSE f[i - 1] \o ss[i]
        BY <3>5, <4>1, <4>2
      <4>4. f = [i \in 1 .. n |-> f[i]]
        OBVIOUS
      <4> HIDE DEF f
      <4> QED
        BY <4>3, <4>4
    <3> HIDE DEF f
    <3> QED
      BY <1>0, <3>6
  <2>2. flat = Body(flat)
    <3> HIDE DEF Body
    <3> QED
      BY <2>1
  <2>3. Payload!FlattenSeq(ss) = flat[n]
    BY <1>0, <1>2 DEF Payload!FlattenSeq
  <2>4. \A i \in 1 .. n : flat[i] = IF i = 1 THEN ss[i] ELSE flat[i - 1] \o ss[i]
    BY <1>0, <2>2
  <2> HIDE DEF flat, Body
  <2> DEFINE T == {k \in 0 .. n : k = 0 \/ flat[k] \in Seq(S)}
  <2>5. 0 \in T
    OBVIOUS
  <2>6. ASSUME NEW i \in 0 .. n - 1, i \in T PROVE i + 1 \in T
    <3>1. i + 1 \in 1 .. n /\ i + 1 \in 0 .. n /\ (i + 1) - 1 = i /\ (i # 0 => i + 1 # 1) /\ ss[i + 1] \in Seq(S)
      OBVIOUS
    <3>2. flat[i + 1] = IF i + 1 = 1 THEN ss[i + 1] ELSE flat[i] \o ss[i + 1]
      BY <2>4, <3>1
    <3>3. flat[i + 1] \in Seq(S)
      BY <2>6, <3>1, <3>2
    <3> QED
      BY <3>1, <3>3
  <2>7. 0 .. n \subseteq T
    <3> HIDE DEF T
    <3> QED
      BY <2>5, <2>6, NumberInduction
  <2>8. \A k \in 1 .. n : flat[k] \in Seq(S)
    BY <2>7
  <2> DEFINE g == [k \in 0 .. n |-> IF k = 0 THEN << >> ELSE flat[k]]
  <2>9. g \in [0 .. n -> Seq(S)] /\ g[0] = << >> /\ \A k \in 1 .. n : g[k] = flat[k]
    BY <2>8
  <2> HIDE DEF g
  <2>10. ASSUME NEW k \in 1 .. n PROVE g[k] = g[k - 1] \o ss[k]
    <3>1. ss[k] \in Seq(S) /\ (k # 1 => k - 1 \in 1 .. n)
      OBVIOUS
    <3>2. CASE k = 1
      <4>1. << >> \o ss[k] = ss[k] /\ k - 1 = 0
        BY <3>1, <3>2
      <4> QED
        BY <2>4, <2>9, <3>2, <4>1
    <3>3. CASE k # 1
      BY <2>4, <2>9, <3>1, <3>3
    <3> QED
      BY <3>2, <3>3
  <2>11. IsFlattening(g, S, n, ss)
    BY <2>9, <2>10 DEF IsFlattening
  <2>12. g[n] = flat[n]
    BY <1>2, <2>9
  <2> QED
    BY <2>3, <2>11, <2>12
<1> QED
  BY <1>1, <1>2

\* The sum over sequences one after another is the sum of their sums.
AreSums(v, n, ss, f, S) ==
  /\ n \in Nat /\ ss \in [1 .. n -> Seq(S)] /\ f \in [S -> Nat]
  /\ v \in [1 .. n -> Nat] /\ \A k \in 1 .. n : v[k] = Over(ss[k], f)

\* By what FlattenSeq adds in each of its steps.
LEMMA OverOfFlattened ==
  ASSUME NEW S, NEW n, NEW ss, NEW f, NEW v, AreSums(v, n, ss, f, S)
  PROVE  Payload!FlattenSeq(ss) \in Seq(S) /\ Over(Payload!FlattenSeq(ss), f) = Total(v)
<1>0. /\ n \in Nat /\ ss \in [1 .. n -> Seq(S)] /\ f \in [S -> Nat]
      /\ v \in [1 .. n -> Nat] /\ \A k \in 1 .. n : v[k] = Over(ss[k], f)
  BY DEF AreSums
<1>1. PICK g : IsFlattening(g, S, n, ss) /\ Payload!FlattenSeq(ss) = g[n]
  BY <1>0, FlattenIs
<1>2. (\A k \in 0 .. n : g[k] \in Seq(S)) /\ g[0] = << >> /\ \A k \in 1 .. n : g[k] = g[k - 1] \o ss[k]
  BY <1>0, <1>1 DEF IsFlattening
<1> DEFINE G == [k \in 0 .. n |-> Over(g[k], f)]
<1>3. \A k \in 0 .. n : G[k] = Over(g[k], f)
  OBVIOUS
<1> HIDE DEF G
<1>4. ASSUME NEW k \in 0 .. n PROVE G[k] \in Nat
  <2>1. g[k] \in Seq(S) /\ f \in [S -> Nat] /\ G[k] = Over(g[k], f)
    BY <1>0, <1>2, <1>3
  <2> QED
    BY <2>1, OverType
<1>5. ASSUME NEW k \in 1 .. n PROVE G[k] = G[k - 1] + v[k]
  <2>1. k - 1 \in 0 .. n /\ k \in 0 .. n /\ ss[k] \in Seq(S) /\ f \in [S -> Nat]
    BY <1>0
  <2>2. g[k - 1] \in Seq(S) /\ g[k] = g[k - 1] \o ss[k]
    BY <1>2, <2>1
  <2>3. Over(g[k - 1] \o ss[k], f) = Over(g[k - 1], f) + Over(ss[k], f)
    BY <2>1, <2>2, OverOfChain
  <2> QED
    BY <1>0, <1>3, <2>1, <2>2, <2>3
<1>6. G[n] = G[0] + Total(v)
  BY <1>0, <1>4, <1>5, GrowsByTotal
<1>7. G[0] = 0 /\ G[n] = Over(g[n], f) /\ g[n] \in Seq(S)
  BY <1>0, <1>2, <1>3, OverOfNone
<1>8. Total(v) \in Nat
  BY <1>0, TotalType
<1> QED
  BY <1>1, <1>6, <1>7, <1>8

\* What occurs in sequences one after another is what occurs in one of them.
Occurs(x, s) == \E i \in DOMAIN s : s[i] = x

\* Whether something occurs is whether its occurrences add up to more than zero.
LEMMA OccursOver ==
  ASSUME NEW S, NEW s \in Seq(S), NEW x
  PROVE  Occurs(x, s) <=> Over(s, [y \in S |-> IF y = x THEN 1 ELSE 0]) # 0
<1> DEFINE f == [y \in S |-> IF y = x THEN 1 ELSE 0]
<1>1. f \in [S -> Nat] /\ \A y \in S : f[y] = 0 <=> y # x
  OBVIOUS
<1>2. \A i \in DOMAIN s : s[i] \in S
  OBVIOUS
<1> HIDE DEF f
<1>3. Over(s, f) = 0 <=> \A i \in DOMAIN s : f[s[i]] = 0
  BY <1>1, OverBounds
<1>4. Occurs(x, s) <=> Over(s, f) # 0
  BY <1>1, <1>2, <1>3 DEF Occurs
<1> QED
  BY <1>4 DEF f

\* By the sums of its occurrences.
LEMMA OccursInFlattened ==
  ASSUME NEW S, NEW n \in Nat, NEW ss \in [1 .. n -> Seq(S)], NEW x
  PROVE  Occurs(x, Payload!FlattenSeq(ss)) <=> \E k \in 1 .. n : Occurs(x, ss[k])
<1> DEFINE f == [y \in S |-> IF y = x THEN 1 ELSE 0]
           v == [k \in 1 .. n |-> Over(ss[k], f)]
<1>1. f \in [S -> Nat] /\ \A k \in 1 .. n : ss[k] \in Seq(S)
  OBVIOUS
<1>2. \A s \in Seq(S) : Occurs(x, s) <=> Over(s, f) # 0
  BY OccursOver
<1> HIDE DEF f
<1>3. ASSUME NEW k \in 1 .. n PROVE Over(ss[k], f) \in Nat
  BY <1>1, OverType
<1>4. v \in [1 .. n -> Nat] /\ \A k \in 1 .. n : v[k] = Over(ss[k], f)
  BY <1>3
<1> HIDE DEF v
<1>5. Payload!FlattenSeq(ss) \in Seq(S) /\ Over(Payload!FlattenSeq(ss), f) = Total(v)
  <2>1. AreSums(v, n, ss, f, S)
    BY <1>1, <1>4 DEF AreSums
  <2> QED
    BY <2>1, OverOfFlattened
<1>6. Total(v) = 0 <=> \A k \in 1 .. n : v[k] = 0
  BY <1>4, TotalBounds
<1> QED
  BY <1>1, <1>2, <1>4, <1>5, <1>6

-----------------------------------------------------------------------------
(* The order in which members are pushed. *)

\* How many entries are less than the i-th.
Lower(t, i) == {j \in DOMAIN t : t[j] < t[i]}

IsInjection(t, n) == t \in [1 .. n -> Nat] /\ \A i, j \in 1 .. n : t[i] = t[j] => i = j

\* A set within another one that has an element more.
LEMMA SmallerSet ==
  ASSUME NEW S, IsFiniteSet(S), NEW T, T \subseteq S, NEW a \in S, a \notin T
  PROVE  IsFiniteSet(T) /\ Cardinality(T) \in Nat /\ Cardinality(T) < Cardinality(S)
<1>1. IsFiniteSet(T) /\ Cardinality(T) <= Cardinality(S) /\ (Cardinality(S) = Cardinality(T) => S = T)
  BY FS_Subset
<1>2. Cardinality(T) \in Nat /\ Cardinality(S) \in Nat
  BY <1>1, FS_CardinalityType
<1> QED
  BY <1>1, <1>2

\* A rank is less than the number of entries, and ascends with the entry.
LEMMA LowerIs ==
  ASSUME NEW n \in Nat, NEW t, IsInjection(t, n), NEW i \in 1 .. n
  PROVE  /\ Cardinality(Lower(t, i)) \in 0 .. n - 1
         /\ \A j \in 1 .. n : t[j] < t[i] => Cardinality(Lower(t, j)) < Cardinality(Lower(t, i))
<1>0. DOMAIN t = 1 .. n /\ (\A j \in 1 .. n : t[j] \in Nat) /\ \A j, k \in 1 .. n : t[j] = t[k] => j = k
  BY DEF IsInjection
<1>1. IsFiniteSet(1 .. n) /\ Cardinality(1 .. n) = n
  BY FS_Interval
<1>2. \A j \in 1 .. n : Lower(t, j) \subseteq 1 .. n /\ j \notin Lower(t, j)
  BY <1>0 DEF Lower
<1>3. Cardinality(Lower(t, i)) \in 0 .. n - 1
  <2>1. Cardinality(Lower(t, i)) \in Nat /\ Cardinality(Lower(t, i)) < Cardinality(1 .. n)
    BY <1>1, <1>2, SmallerSet
  <2> QED
    BY <1>1, <2>1
<1>4. ASSUME NEW j \in 1 .. n, t[j] < t[i]
      PROVE  Cardinality(Lower(t, j)) < Cardinality(Lower(t, i))
  <2>1. j \in Lower(t, i) /\ j \notin Lower(t, j)
    BY <1>0, <1>2, <1>4 DEF Lower
  <2>2. ASSUME NEW k \in Lower(t, j) PROVE k \in Lower(t, i)
    <3>1. k \in 1 .. n /\ t[k] < t[j]
      BY <1>0, <2>2 DEF Lower
    <3>2. t[k] \in Nat /\ t[j] \in Nat /\ t[i] \in Nat
      BY <1>0, <3>1
    <3>3. t[k] < t[i]
      BY <1>4, <3>1, <3>2
    <3> QED
      BY <1>0, <3>1, <3>3 DEF Lower
  <2>3. IsFiniteSet(Lower(t, i))
    BY <1>1, <1>2, FS_Subset
  <2> QED
    BY <2>1, <2>2, <2>3, SmallerSet
<1> QED
  BY <1>3, <1>4

\* Different entries have different ranks.
LEMMA RanksDiffer ==
  ASSUME NEW n \in Nat, NEW t, IsInjection(t, n), NEW i \in 1 .. n, NEW j \in 1 .. n,
         Cardinality(Lower(t, i)) = Cardinality(Lower(t, j))
  PROVE  i = j
<1>1. t[i] \in Nat /\ t[j] \in Nat /\ (t[i] = t[j] => i = j)
  BY DEF IsInjection
<1>2. Cardinality(Lower(t, i)) \in 0 .. n - 1 /\ Cardinality(Lower(t, j)) \in 0 .. n - 1
  BY LowerIs
<1>3. ~ (t[i] < t[j]) /\ ~ (t[j] < t[i])
  <2>1. t[i] < t[j] => Cardinality(Lower(t, i)) < Cardinality(Lower(t, j))
    BY LowerIs
  <2>2. t[j] < t[i] => Cardinality(Lower(t, j)) < Cardinality(Lower(t, i))
    BY LowerIs
  <2> QED
    BY <1>2, <2>1, <2>2
<1> QED
  BY <1>1, <1>3

\* As many numbers from zero as places.
LEMMA PlacesFromZero ==
  ASSUME NEW n \in Nat
  PROVE  IsFiniteSet(0 .. n - 1) /\ Cardinality(0 .. n - 1) = n
  BY FS_Interval

\* Every rank is taken.
LEMMA RanksAreTaken ==
  ASSUME NEW n \in Nat, NEW t, IsInjection(t, n), NEW k \in 1 .. n
  PROVE  \E i \in 1 .. n : Cardinality(Lower(t, i)) = k - 1
<1> SUFFICES ASSUME \A i \in 1 .. n : Cardinality(Lower(t, i)) # k - 1 PROVE FALSE
  OBVIOUS
<1> DEFINE T == (0 .. n - 1) \ {k - 1}
           f == [i \in 1 .. n |-> Cardinality(Lower(t, i))]
<1>1. IsFiniteSet(1 .. n) /\ Cardinality(1 .. n) = n
  BY FS_Interval
<1>2. IsFiniteSet(T) /\ Cardinality(T) < n
  <2> DEFINE U == 0 .. n - 1
  <2>1. IsFiniteSet(U) /\ Cardinality(U) = n
    BY PlacesFromZero
  <2>2. k - 1 \in U
    OBVIOUS
  <2> HIDE DEF U
  <2>3. IsFiniteSet(U \ {k - 1}) /\ Cardinality(U \ {k - 1}) = n - 1
    BY <2>1, <2>2, FS_RemoveElement
  <2> QED
    BY <2>3 DEF U
<1>3. f \in [1 .. n -> T]
  <2>1. ASSUME NEW i \in 1 .. n PROVE Cardinality(Lower(t, i)) \in 0 .. n - 1
    BY LowerIs
  <2> QED
    BY <2>1
<1> HIDE DEF T
<1>4. \E i, j \in 1 .. n : i # j /\ f[i] = f[j]
  <2> HIDE DEF f
  <2> QED
    BY <1>1, <1>2, <1>3, FS_PigeonHole
<1>5. PICK i \in 1 .. n, j \in 1 .. n : i # j /\ Cardinality(Lower(t, i)) = Cardinality(Lower(t, j))
  BY <1>4
<1>6. i = j
  BY <1>5, RanksDiffer
<1> QED
  BY <1>5, <1>6

\* The nodes of a payload.
IsNode(n, S) ==
  /\ n.kids \in Seq(S)
  /\ n.kind = "object" =>
       /\ DOMAIN n.names = DOMAIN n.kids
       /\ \A i, j \in DOMAIN n.names : n.names[i] = n.names[j] => i = j

Turns(n) == [i \in DOMAIN n.kids |-> Payload!Turn(n, i)]

\* The turns of the members of an object differ: they have different names.
LEMMA TurnsDiffer ==
  ASSUME NEW S, NEW n, IsNode(n, S), n.kind = "object", Len(IndexNames) \in Nat,
         DOMAIN IndexNames = 1 .. Len(IndexNames)
  PROVE  IsInjection(Turns(n), Len(n.kids))
<1> DEFINE t == Turns(n)
           k == Len(n.kids)
           x == Len(IndexNames)
           isIndex(i) == \E j \in DOMAIN IndexNames : IndexNames[j] = n.names[i]
<1>1. k \in Nat /\ DOMAIN n.kids = 1 .. k /\ DOMAIN n.names = 1 .. k
  BY DEF IsNode
<1>2. \A i, j \in 1 .. k : n.names[i] = n.names[j] => i = j
  BY <1>1 DEF IsNode
<1>3. ASSUME NEW i \in 1 .. k
      PROVE  /\ isIndex(i) => t[i] \in 1 .. x /\ IndexNames[t[i]] = n.names[i]
             /\ ~isIndex(i) => t[i] = x + i
  <2>1. t[i] = Payload!Turn(n, i)
    BY <1>1 DEF Turns
  <2> HIDE DEF t
  <2> QED
    BY <2>1 DEF Payload!Turn
<1> HIDE DEF t, k
<1>4. ASSUME NEW i \in 1 .. k PROVE t[i] \in Nat
  BY <1>1, <1>3
<1>5. ASSUME NEW i \in 1 .. k, NEW j \in 1 .. k, t[i] = t[j] PROVE i = j
  <2>1. CASE isIndex(i) /\ isIndex(j)
    BY <1>2, <1>3, <1>5, <2>1
  <2>2. CASE isIndex(i) /\ ~isIndex(j)
    BY <1>1, <1>3, <1>5, <2>2
  <2>3. CASE ~isIndex(i) /\ isIndex(j)
    BY <1>1, <1>3, <1>5, <2>3
  <2>4. CASE ~isIndex(i) /\ ~isIndex(j)
    BY <1>1, <1>3, <1>5, <2>4
  <2> QED
    BY <2>1, <2>2, <2>3, <2>4
<1>6. t \in [1 .. k -> Nat]
  BY <1>1, <1>4 DEF t, Turns
<1>7. IsInjection(t, k)
  BY <1>5, <1>6 DEF IsInjection
<1> QED
  BY <1>7 DEF t, k

\* The instance counts alike.
LEMMA SameCardinality ==
  ASSUME NEW S
  PROVE  Payload!Cardinality(S) = Cardinality(S)
  BY DEF Payload!Cardinality, Cardinality

\* Arranged puts every place once, the ranks ascending.
LEMMA ArrangedIs ==
  ASSUME NEW k \in Nat, NEW t, IsInjection(t, k), NEW before, DOMAIN before = 1 .. k,
         \A i \in 1 .. k : before[i] = Lower(t, i)
  PROVE  /\ IsOrder(Payload!Arranged(before), k)
         /\ \A j \in 1 .. k : Cardinality(Lower(t, Payload!Arranged(before)[j])) = j - 1
<1> DEFINE who(j) == CHOOSE i \in 1 .. k : Cardinality(Lower(t, i)) = j - 1
           pi == Payload!Arranged(before)
<1>1. ASSUME NEW j \in 1 .. k
      PROVE  who(j) \in 1 .. k /\ Cardinality(Lower(t, who(j))) = j - 1
  <2>1. \E i \in 1 .. k : Cardinality(Lower(t, i)) = j - 1
    BY RanksAreTaken
  <2> QED
    BY <2>1
<1>2. ASSUME NEW j \in 1 .. k
      PROVE  who(j) = CHOOSE i \in DOMAIN before : Payload!Cardinality(before[i]) = j - 1
  <2>1. \A i \in DOMAIN before : (Payload!Cardinality(before[i]) = j - 1) <=> Cardinality(Lower(t, i)) = j - 1
    BY SameCardinality, Zenon
  <2> QED
    BY <2>1, Zenon
<1>3. pi = [j \in DOMAIN before |-> CHOOSE i \in DOMAIN before : Payload!Cardinality(before[i]) = j - 1]
  BY DEF Payload!Arranged
<1>4. pi = [j \in 1 .. k |-> who(j)]
  BY <1>2, <1>3, Zenon
<1> HIDE DEF who
<1>5. pi \in [1 .. k -> 1 .. k] /\ \A j \in 1 .. k : pi[j] = who(j)
  BY <1>1, <1>4
<1> HIDE DEF pi
<1>6. ASSUME NEW i \in 1 .. k, NEW j \in 1 .. k, pi[i] = pi[j] PROVE i = j
  <2>1. i - 1 = j - 1
    BY <1>1, <1>5, <1>6
  <2> QED
    BY <2>1
<1>7. ASSUME NEW j \in 1 .. k PROVE \E i \in 1 .. k : pi[i] = j
  <2> DEFINE r == Cardinality(Lower(t, j))
  <2>1. r \in 0 .. k - 1
    BY LowerIs
  <2>2. r + 1 \in 1 .. k /\ (r + 1) - 1 = r
    BY <2>1
  <2>3. who(r + 1) \in 1 .. k /\ Cardinality(Lower(t, who(r + 1))) = Cardinality(Lower(t, j))
    BY <1>1, <2>2
  <2> HIDE DEF r
  <2>4. who(r + 1) = j
    BY <2>3, RanksDiffer
  <2> QED
    BY <1>5, <2>2, <2>4
<1>8. IsOrder(pi, k)
  BY <1>5, <1>6, <1>7 DEF IsOrder
<1>9. \A j \in 1 .. k : Cardinality(Lower(t, pi[j])) = j - 1
  BY <1>1, <1>5
<1> QED
  BY <1>8, <1>9 DEF pi

\* The values are pushed in some order, each once.
IsReordered(s, t, pi) ==
  IsOrder(pi, Len(t)) /\ DOMAIN s = 1 .. Len(t) /\ \A j \in 1 .. Len(t) : s[j] = t[pi[j]]

\* JavaScript pushes the values of an object by their turn.
LEMMA KidsByTurn ==
  ASSUME NEW S, NEW n, IsNode(n, S), NEW l, l # "python", n.kind = "object", Len(IndexNames) \in Nat,
         DOMAIN IndexNames = 1 .. Len(IndexNames)
  PROVE  \E pi : /\ IsReordered(Payload!Kids(l, n), n.kids, pi)
                 /\ \A j \in 1 .. Len(n.kids) : Cardinality(Lower(Turns(n), pi[j])) = j - 1
<1> DEFINE k == Len(n.kids)
           t == Turns(n)
           before == [i \in DOMAIN n.kids |->
                        {j \in DOMAIN n.kids : Payload!Turn(n, j) < Payload!Turn(n, i)}]
           pi == Payload!Arranged(before)
<1>1. k \in Nat /\ DOMAIN n.kids = 1 .. k
  BY DEF IsNode
<1>2. IsInjection(t, k)
  BY TurnsDiffer
<1>3. DOMAIN before = 1 .. k /\ \A i \in 1 .. k : before[i] = Lower(t, i)
  BY <1>1 DEF Lower, Turns
<1>4. Payload!Kids(l, n) = [j \in DOMAIN n.kids |-> n.kids[pi[j]]]
  BY DEF Payload!Kids
<1> HIDE DEF t, before, k
<1>5. IsOrder(pi, k) /\ \A j \in 1 .. k : Cardinality(Lower(t, pi[j])) = j - 1
  BY <1>1, <1>2, <1>3, ArrangedIs
<1> HIDE DEF pi
<1>6. DOMAIN Payload!Kids(l, n) = 1 .. k /\ \A j \in 1 .. k : Payload!Kids(l, n)[j] = n.kids[pi[j]]
  BY <1>1, <1>4
<1>7. IsReordered(Payload!Kids(l, n), n.kids, pi)
  BY <1>5, <1>6 DEF IsReordered, k
<1> QED
  BY <1>5, <1>7 DEF t, k

\* Either language pushes every value once: Python as they are, JavaScript by turn.
LEMMA KidsAreOrdered ==
  ASSUME NEW S, NEW n, IsNode(n, S), NEW l, Len(IndexNames) \in Nat,
         DOMAIN IndexNames = 1 .. Len(IndexNames)
  PROVE  \E pi : IsReordered(Payload!Kids(l, n), n.kids, pi)
<1>1. Len(n.kids) \in Nat /\ DOMAIN n.kids = 1 .. Len(n.kids)
  BY DEF IsNode
<1>2. CASE l = "python" \/ n.kind # "object"
  <2> DEFINE pi == [j \in 1 .. Len(n.kids) |-> j]
  <2>1. IsOrder(pi, Len(n.kids))
    BY DEF IsOrder
  <2>2. \A j \in 1 .. Len(n.kids) : n.kids[j] = n.kids[pi[j]]
    OBVIOUS
  <2>3. Payload!Kids(l, n) = n.kids
    BY <1>2 DEF Payload!Kids
  <2> QED
    BY <1>1, <2>1, <2>2, <2>3 DEF IsReordered
<1>3. CASE l # "python" /\ n.kind = "object"
  BY <1>3, KidsByTurn
<1> QED
  BY <1>2, <1>3

-----------------------------------------------------------------------------
(* The levels of a payload. *)

Depths == 1 .. MaxDepth + 1

IsGraph(g) == 1 \in DOMAIN g /\ \A m \in DOMAIN g : IsNode(g[m], DOMAIN g)

\* What the assumption says of a payload.
LEMMA PayloadsAre ==
  /\ MaxDepth \in Nat /\ MaxNodes \in Nat /\ Len(IndexNames) \in Nat
  /\ DOMAIN IndexNames = 1 .. Len(IndexNames)
  /\ \A g \in Graphs : IsGraph(g)
<1>1. IndexNames \in Seq(DOMAIN CodePoints)
  BY PayloadsAssumption
<1>2. Len(IndexNames) \in Nat /\ DOMAIN IndexNames = 1 .. Len(IndexNames)
  BY <1>1
<1>3. \A g \in Graphs : IsGraph(g)
  BY PayloadsAssumption DEF IsGraph, IsNode
<1> QED
  BY <1>2, <1>3, PayloadsAssumption

\* The nodes below those of a level.
Below(g, s) == Payload!FlattenSeq([i \in DOMAIN s |-> g[s[i]].kids])

\* Levels of a node of a payload.
LevelsFrom(g, r) ==
  LET level[d \in 1 .. MaxDepth + 1] ==
        IF d = 1 THEN << r >> ELSE Payload!FlattenSeq([i \in DOMAIN level[d - 1] |-> g[level[d - 1][i]].kids])
  IN level

LevelsOf(g) == LevelsFrom(g, 1)

\* They are the Levels of CanonicalTree.
LEMMA LevelsOfGraph ==
  /\ \A r : Payload!Levels(r) = LevelsFrom(graph, r)
  /\ Payload!Levels(1) = LevelsOf(graph)
  BY DEF Payload!Levels, LevelsFrom, LevelsOf

\* The nodes below are nodes.
LEMMA BelowIs ==
  ASSUME NEW g, IsGraph(g), NEW s \in Seq(DOMAIN g)
  PROVE  /\ Below(g, s) \in Seq(DOMAIN g)
         /\ \A i \in DOMAIN s : \A x : Occurs(x, g[s[i]].kids) => Occurs(x, Below(g, s))
<1> DEFINE S == DOMAIN g
           ss == [i \in DOMAIN s |-> g[s[i]].kids]
           n == Len(s)
<1>1. n \in Nat /\ DOMAIN s = 1 .. n /\ \A i \in 1 .. n : s[i] \in S
  OBVIOUS
<1>2. \A i \in 1 .. n : g[s[i]].kids \in Seq(S)
  BY <1>1 DEF IsGraph, IsNode
<1>3. ss \in [1 .. n -> Seq(S)] /\ \A i \in 1 .. n : ss[i] = g[s[i]].kids
  BY <1>1, <1>2
<1>4. Below(g, s) = Payload!FlattenSeq(ss)
  BY DEF Below
<1> HIDE DEF ss, n, S
<1>5. PICK f : IsFlattening(f, S, n, ss) /\ Payload!FlattenSeq(ss) = f[n]
  BY <1>1, <1>3, FlattenIs
<1>6. Payload!FlattenSeq(ss) \in Seq(S)
  BY <1>1, <1>5 DEF IsFlattening
<1>7. ASSUME NEW i \in DOMAIN s, NEW x, Occurs(x, g[s[i]].kids)
      PROVE  Occurs(x, Below(g, s))
  <2>1. Occurs(x, ss[i]) /\ i \in 1 .. n
    BY <1>1, <1>3, <1>7
  <2>2. Occurs(x, Payload!FlattenSeq(ss)) <=> \E k \in 1 .. n : Occurs(x, ss[k])
    BY <1>1, <1>3, OccursInFlattened
  <2> QED
    BY <1>4, <2>1, <2>2
<1> QED
  BY <1>4, <1>6, <1>7 DEF S

IsUnfoldingFrom(level, g, r) ==
  /\ level \in [Depths -> Seq(DOMAIN g)]
  /\ level[1] = << r >>
  /\ \A d \in 1 .. MaxDepth : level[d + 1] = Below(g, level[d])

\* Levels are what their recursive definition says: the root, then what is below.
LEMMA LevelsFromAre ==
  ASSUME NEW g, IsGraph(g), NEW r \in DOMAIN g, MaxDepth \in Nat
  PROVE  IsUnfoldingFrom(LevelsFrom(g, r), g, r)
<1> DEFINE D == MaxDepth + 1
           S == Seq(DOMAIN g)
           Body(f) == [d \in 1 .. MaxDepth + 1 |->
                         IF d = 1 THEN << r >>
                         ELSE Payload!FlattenSeq([i \in DOMAIN f[d - 1] |-> g[f[d - 1][i]].kids])]
           level == CHOOSE f : f = Body(f)
           step == [p \in (1 .. MaxDepth) \X S |-> Below(g, p[2])]
<1>1. << r >> \in S
  OBVIOUS
<1>2. step \in [(1 .. MaxDepth) \X S -> S]
  BY BelowIs
<1>3. \A d \in 1 .. MaxDepth, x \in S : step[<< d, x >>] = Below(g, x)
  OBVIOUS
<1> HIDE DEF step, S
<1>4. PICK h : IsRecursion(h, S, << r >>, MaxDepth, step)
  BY <1>1, <1>2, RecursionExists
<1>5. /\ \A d \in 0 .. MaxDepth : h[d] \in S
      /\ h[0] = << r >>
      /\ \A d \in 1 .. MaxDepth : h[d] = step[<< d, h[d - 1] >>]
  BY <1>4 DEF IsRecursion
<1> DEFINE f == [d \in 1 .. MaxDepth + 1 |-> h[d - 1]]
<1>6. \A d \in 1 .. MaxDepth + 1 : f[d] = h[d - 1]
  OBVIOUS
<1>7. ASSUME NEW d \in 1 .. MaxDepth + 1
      PROVE  f[d] = IF d = 1 THEN << r >>
                    ELSE Payload!FlattenSeq([i \in DOMAIN f[d - 1] |-> g[f[d - 1][i]].kids])
  <2> HIDE DEF f
  <2>1. CASE d = 1
    BY <1>5, <1>6, <2>1
  <2>2. CASE d # 1
    <3>1. d - 1 \in 1 .. MaxDepth /\ d - 1 \in 1 .. MaxDepth + 1 /\ (d - 1) - 1 \in 0 .. MaxDepth
      BY <2>2
    <3>2. h[d - 1] = Below(g, h[(d - 1) - 1]) /\ f[d - 1] = h[(d - 1) - 1]
      BY <1>3, <1>5, <1>6, <3>1
    <3>3. f[d] = Below(g, f[d - 1])
      BY <1>6, <3>2
    <3> QED
      BY <2>2, <3>3 DEF Below
  <2> QED
    BY <2>1, <2>2
<1>8. f = Body(f)
  <2>1. f = [d \in 1 .. MaxDepth + 1 |-> f[d]]
    OBVIOUS
  <2> HIDE DEF f
  <2> QED
    BY <1>7, <2>1, Zenon
<1>9. level = Body(level)
  <2>1. \E e : e = Body(e)
    BY <1>8
  <2> HIDE DEF Body
  <2> QED
    BY <2>1
<1>10. LevelsFrom(g, r) = level
  BY DEF LevelsFrom
<1> HIDE DEF level, f
<1>11. /\ DOMAIN level = Depths
       /\ level[1] = << r >>
  BY <1>9 DEF Depths
<1>12. ASSUME NEW d \in 1 .. MaxDepth
       PROVE  level[d + 1] = Below(g, level[d])
  <2>1. d + 1 \in 1 .. MaxDepth + 1 /\ d + 1 # 1 /\ (d + 1) - 1 = d
    OBVIOUS
  <2>2. level[d + 1] = Payload!FlattenSeq([i \in DOMAIN level[(d + 1) - 1] |-> g[level[(d + 1) - 1][i]].kids])
    BY <1>9, <2>1
  <2> QED
    BY <2>1, <2>2 DEF Below
<1> DEFINE T == {k \in 0 .. MaxDepth : level[k + 1] \in S}
<1>13. 0 \in T
  BY <1>1, <1>11
<1>14. ASSUME NEW k \in 0 .. MaxDepth - 1, k \in T PROVE k + 1 \in T
  <2>1. k + 1 \in 1 .. MaxDepth /\ k + 1 \in 0 .. MaxDepth
    OBVIOUS
  <2>2. level[(k + 1) + 1] = Below(g, level[k + 1]) /\ level[k + 1] \in S
    BY <1>12, <1>14, <2>1
  <2>3. Below(g, level[k + 1]) \in S
    BY <2>2, BelowIs DEF S
  <2> QED
    BY <2>1, <2>2, <2>3
<1>15. 0 .. MaxDepth \subseteq T
  <2> HIDE DEF T
  <2> QED
    BY <1>13, <1>14, NumberInduction
<1>16. ASSUME NEW d \in Depths PROVE level[d] \in S
  <2>1. d - 1 \in 0 .. MaxDepth /\ (d - 1) + 1 = d
    BY DEF Depths
  <2>2. d - 1 \in T
    BY <1>15, <2>1
  <2> QED
    BY <2>1, <2>2
<1>17. level = [d \in Depths |-> level[d]]
  BY <1>9 DEF Depths
<1>18. level \in [Depths -> S]
  BY <1>16, <1>17
<1> QED
  BY <1>10, <1>11, <1>12, <1>18 DEF IsUnfoldingFrom, S

IsUnfolding(level, g) == IsUnfoldingFrom(level, g, 1)

\* From the root.
LEMMA LevelsAre ==
  ASSUME NEW g, IsGraph(g), MaxDepth \in Nat
  PROVE  IsUnfolding(LevelsOf(g), g)
<1>1. 1 \in DOMAIN g
  BY DEF IsGraph
<1> QED
  BY <1>1, LevelsFromAre DEF IsUnfolding, LevelsOf

-----------------------------------------------------------------------------
(* Weights: what a node, at a depth, and all that is below it count. *)

IsMeasure(w, g) == \A d \in Depths : w[d] \in [DOMAIN g -> Nat]

IsWeights(W, w, g) ==
  /\ \A d \in Depths : W[d] \in [DOMAIN g -> Nat]
  /\ W[MaxDepth + 1] = w[MaxDepth + 1]
  /\ \A d \in 1 .. MaxDepth, m \in DOMAIN g : W[d][m] = w[d][m] + Over(g[m].kids, W[d + 1])

\* Every measure of nodes has weights, from the deepest level up.
LEMMA WeightsExist ==
  ASSUME NEW g, IsGraph(g), MaxDepth \in Nat, NEW w, IsMeasure(w, g)
  PROVE  \E W : IsWeights(W, w, g)
<1> DEFINE D == MaxDepth + 1
           S == [DOMAIN g -> Nat]
           sum(d, x) == [m \in DOMAIN g |-> w[d][m] + Over(g[m].kids, x)]
           step == [p \in (1 .. MaxDepth) \X S |-> sum(D - p[1], p[2])]
<1>0. \A d \in Depths : w[d] \in S
  BY DEF IsMeasure
<1>1. ASSUME NEW d \in Depths, NEW x \in S
      PROVE  sum(d, x) \in S
  <2>1. ASSUME NEW m \in DOMAIN g PROVE w[d][m] + Over(g[m].kids, x) \in Nat
    <3>1. g[m].kids \in Seq(DOMAIN g)
      BY DEF IsGraph, IsNode
    <3>2. Over(g[m].kids, x) \in Nat
      BY <3>1, OverType
    <3>3. w[d][m] \in Nat
      BY <1>0
    <3> QED
      BY <3>2, <3>3
  <2> QED
    BY <2>1
<1>2. \A x \in S, d \in Depths, m \in DOMAIN g : sum(d, x)[m] = w[d][m] + Over(g[m].kids, x)
  OBVIOUS
<1> HIDE DEF sum, S
<1>3. \A k \in 1 .. MaxDepth : D - k \in Depths /\ D - k \in 1 .. MaxDepth
  BY DEF Depths
<1>4. D \in Depths
  BY DEF Depths
<1>5. step \in [(1 .. MaxDepth) \X S -> S]
  BY <1>1, <1>3
<1>6. \A k \in 1 .. MaxDepth, x \in S : step[<< k, x >>] = sum(D - k, x)
  OBVIOUS
<1> HIDE DEF step
<1>7. PICK h : IsRecursion(h, S, w[D], MaxDepth, step)
  BY <1>0, <1>4, <1>5, RecursionExists
<1>8. /\ \A k \in 0 .. MaxDepth : h[k] \in S
      /\ h[0] = w[D]
      /\ \A k \in 1 .. MaxDepth : h[k] = step[<< k, h[k - 1] >>]
  BY <1>7 DEF IsRecursion
<1> DEFINE W == [d \in Depths |-> h[D - d]]
<1>9. \A d \in Depths : D - d \in 0 .. MaxDepth /\ W[d] = h[D - d]
  BY DEF Depths
<1> HIDE DEF W
<1>10. \A d \in Depths : W[d] \in S
  BY <1>8, <1>9
<1>11. W[D] = w[D]
  <2>1. D - D = 0
    OBVIOUS
  <2> QED
    BY <1>4, <1>8, <1>9, <2>1
<1>12. ASSUME NEW d \in 1 .. MaxDepth, NEW m \in DOMAIN g
       PROVE  W[d][m] = w[d][m] + Over(g[m].kids, W[d + 1])
  <2>1. /\ D - d \in 1 .. MaxDepth /\ d \in Depths /\ d + 1 \in Depths
        /\ D - (d + 1) = (D - d) - 1 /\ D - (D - d) = d
    BY DEF Depths
  <2>2. W[d] = h[D - d] /\ W[d + 1] = h[(D - d) - 1] /\ W[d + 1] \in S
    BY <1>9, <1>10, <2>1
  <2>3. h[D - d] = step[<< D - d, h[(D - d) - 1] >>]
    BY <1>8, <2>1
  <2>4. step[<< D - d, W[d + 1] >>] = sum(D - (D - d), W[d + 1])
    BY <1>6, <2>1, <2>2
  <2>5. W[d] = sum(d, W[d + 1])
    BY <2>1, <2>2, <2>3, <2>4
  <2> QED
    BY <1>2, <2>1, <2>2, <2>5
<1>13. IsWeights(W, w, g)
  BY <1>10, <1>11, <1>12 DEF IsWeights, S
<1> QED
  BY <1>13

\* A sequence without elements is the empty one.
LEMMA NothingIsEmpty ==
  ASSUME NEW S, NEW s \in Seq(S), \A i \in DOMAIN s : FALSE
  PROVE  s = << >>
<1>1. Len(s) \in Nat /\ DOMAIN s = 1 .. Len(s)
  OBVIOUS
<1>2. \A k \in Nat : k # 0 => 1 \in 1 .. k
  OBVIOUS
<1>3. Len(s) = 0
  BY <1>1, <1>2
<1> QED
  BY <1>3

\* What a level weighs is what its nodes measure and what the next level weighs.
LEMMA LevelWeighs ==
  ASSUME NEW g, IsGraph(g), NEW level, IsUnfolding(level, g), NEW w, IsMeasure(w, g),
         NEW W, IsWeights(W, w, g), MaxDepth \in Nat, NEW d \in 1 .. MaxDepth
  PROVE  Over(level[d], W[d]) = Over(level[d], w[d]) + Over(level[d + 1], W[d + 1])
<1> DEFINE S == DOMAIN g
           s == level[d]
           n == Len(s)
           ss == [i \in DOMAIN s |-> g[s[i]].kids]
           u == [i \in DOMAIN s |-> w[d][s[i]]]
           x == [i \in DOMAIN s |-> W[d][s[i]]]
           v == [i \in DOMAIN s |-> Over(g[s[i]].kids, W[d + 1])]
<1>1. d \in Depths /\ d + 1 \in Depths
  BY DEF Depths
<1>2. s \in Seq(S) /\ w[d] \in [S -> Nat] /\ W[d] \in [S -> Nat] /\ W[d + 1] \in [S -> Nat]
  BY <1>1 DEF IsUnfolding, IsUnfoldingFrom, IsMeasure, IsWeights
<1>3. n \in Nat /\ DOMAIN s = 1 .. n /\ \A i \in 1 .. n : s[i] \in S
  BY <1>2, SMTT(25)
<1>4. \A m \in S : g[m].kids \in Seq(S)
  BY DEF IsGraph, IsNode
<1>5. \A m \in S : W[d][m] = w[d][m] + Over(g[m].kids, W[d + 1])
  BY DEF IsWeights
<1>6. Payload!FlattenSeq(ss) = level[d + 1]
  BY DEF IsUnfolding, IsUnfoldingFrom, Below
<1>7. Over(s, w[d]) = Total(u) /\ Over(s, W[d]) = Total(x)
  BY DEF Over
<1> HIDE DEF s, n, S
<1>8. ss \in [1 .. n -> Seq(S)] /\ \A i \in 1 .. n : ss[i] = g[s[i]].kids
  BY <1>3, <1>4
<1>9. ASSUME NEW m \in S PROVE Over(g[m].kids, W[d + 1]) \in Nat
  BY <1>2, <1>4, OverType
<1>10. /\ u \in [1 .. n -> Nat] /\ x \in [1 .. n -> Nat] /\ v \in [1 .. n -> Nat]
       /\ \A i \in 1 .. n : x[i] = u[i] + v[i]
  <2>1. \A i \in 1 .. n : /\ w[d][s[i]] \in Nat /\ W[d][s[i]] \in Nat /\ Over(g[s[i]].kids, W[d + 1]) \in Nat
                          /\ W[d][s[i]] = w[d][s[i]] + Over(g[s[i]].kids, W[d + 1])
    BY <1>2, <1>3, <1>5, <1>9
  <2> QED
    BY <1>3, <2>1
<1>11. AreSums(v, n, ss, W[d + 1], S)
  BY <1>2, <1>3, <1>8, <1>10 DEF AreSums
<1> HIDE DEF u, x, v, ss
<1>12. Total(x) = Total(u) + Total(v)
  BY <1>3, <1>10, TotalOfBoth
<1>13. Over(Payload!FlattenSeq(ss), W[d + 1]) = Total(v)
  BY <1>11, OverOfFlattened
<1> QED
  BY <1>6, <1>7, <1>12, <1>13 DEF s

\* The weight of the root is the measure of all levels.
LEMMA WeightOfRoot ==
  ASSUME NEW g, IsGraph(g), NEW level, IsUnfolding(level, g), NEW w, IsMeasure(w, g),
         NEW W, IsWeights(W, w, g), MaxDepth \in Nat
  PROVE  \E v \in [Depths -> Nat] :
           W[1][1] = Total(v) /\ \A d \in Depths : v[d] = Over(level[d], w[d])
<1> DEFINE S == DOMAIN g
           D == MaxDepth + 1
           v == [d \in Depths |-> Over(level[d], w[d])]
           R == [d \in Depths |-> Over(level[d], W[d])]
<1>1. \A d \in Depths : level[d] \in Seq(S) /\ w[d] \in [S -> Nat] /\ W[d] \in [S -> Nat]
  BY DEF IsUnfolding, IsUnfoldingFrom, IsMeasure, IsWeights
<1>2. ASSUME NEW d \in Depths PROVE Over(level[d], w[d]) \in Nat
  BY <1>1, OverType
<1>3. ASSUME NEW d \in Depths PROVE Over(level[d], W[d]) \in Nat
  BY <1>1, OverType
<1>4. /\ v \in [1 .. D -> Nat] /\ R \in [1 .. D -> Nat]
      /\ \A d \in Depths : v[d] = Over(level[d], w[d]) /\ R[d] = Over(level[d], W[d])
  BY <1>2, <1>3 DEF Depths
<1> HIDE DEF v, R
<1>5. D \in Nat /\ 1 \in Depths /\ D \in Depths
  BY DEF Depths
<1>6. ASSUME NEW d \in 1 .. MaxDepth PROVE R[d] = v[d] + R[d + 1]
  <2>1. d \in Depths /\ d + 1 \in Depths
    BY DEF Depths
  <2> QED
    BY <1>4, <2>1, LevelWeighs
<1>7. R[D] = v[D]
  BY <1>4, <1>5 DEF IsWeights
<1>8. R[1] = W[1][1]
  <2>1. level[1] = << 1 >> /\ 1 \in S
    BY DEF IsUnfolding, IsUnfoldingFrom, IsGraph
  <2>2. Over(<< 1 >>, W[1]) = W[1][1]
    BY <1>1, <1>5, <2>1, OverOfOne
  <2> QED
    BY <1>4, <1>5, <2>1, <2>2
<1> DEFINE T == {k \in 0 .. MaxDepth : Upto(v, k) + R[k + 1] = R[1]}
<1>9. 0 \in T
  <2>1. Upto(v, 0) = 0
    BY <1>4, <1>5, UptoIs
  <2>2. R[0 + 1] = R[1] /\ R[1] \in Nat
    BY <1>4
  <2> QED
    BY <2>1, <2>2
<1>10. ASSUME NEW k \in 0 .. MaxDepth - 1, k \in T
       PROVE  k + 1 \in T
  <2> DEFINE j == k + 1
  <2>1. j \in 1 .. MaxDepth /\ j \in 1 .. D /\ j + 1 \in 1 .. D /\ j - 1 = k /\ k \in 0 .. D /\ j \in 0 .. D
    OBVIOUS
  <2>2. Upto(v, k) + R[j] = R[1]
    BY <1>10
  <2> HIDE DEF j, D
  <2>3. Upto(v, j) = Upto(v, j - 1) + v[j]
    BY <1>4, <1>5, <2>1, UptoIs
  <2>4. R[j] = v[j] + R[j + 1]
    BY <1>6, <2>1
  <2>5. v[j] \in Nat /\ R[j + 1] \in Nat
    BY <1>4, <2>1
  <2>6. Upto(v, k) \in Nat
    BY <1>4, <1>5, <2>1, UptoIs
  <2>7. Upto(v, j) + R[j + 1] = R[1]
    BY <2>1, <2>2, <2>3, <2>4, <2>5, <2>6
  <2>8. j \in 0 .. MaxDepth
    BY <2>1
  <2> QED
    BY <2>7, <2>8 DEF j
<1> HIDE DEF T
<1>11. 0 .. MaxDepth \subseteq T
  BY <1>9, <1>10, NumberInduction
<1>12. Upto(v, MaxDepth) + R[D] = R[1]
  BY <1>11 DEF T
<1>13. Total(v) = Upto(v, D) /\ Upto(v, D) = Upto(v, D - 1) + v[D]
  <2>1. D \in 1 .. D
    BY <1>5
  <2> HIDE DEF D
  <2> QED
    BY <1>4, <1>5, <2>1, UptoIs
<1>14. D - 1 = MaxDepth
  OBVIOUS
<1>15. W[1][1] = Total(v)
  BY <1>7, <1>8, <1>12, <1>13, <1>14
<1> QED
  BY <1>4, <1>15 DEF Depths

\* Levels is a sequence of levels.
LEMMA LevelsAreSequence ==
  ASSUME NEW g, NEW level, IsUnfolding(level, g), MaxDepth \in Nat
  PROVE  level \in [1 .. MaxDepth + 1 -> Seq(DOMAIN g)] /\ MaxDepth + 1 \in Nat
  BY DEF IsUnfolding, IsUnfoldingFrom, Depths

-----------------------------------------------------------------------------
(* Two measures: every node is one, and a node that is refused is one.     *)

Ones(g) == [d \in Depths |-> [m \in DOMAIN g |-> 1]]

Refused(l, g) ==
  [d \in Depths |-> [m \in DOMAIN g |->
     IF d > MaxDepth \/ Payload!Defect(l, g[m]) # Payload!Running THEN 1 ELSE 0]]

\* Both are measures.
LEMMA TheseAreMeasures ==
  ASSUME NEW g, NEW l
  PROVE  IsMeasure(Ones(g), g) /\ IsMeasure(Refused(l, g), g)
  BY DEF IsMeasure, Ones, Refused

\* The root's weight of ones is the number of nodes, a shared one counted wherever it occurs.
LEMMA WeightOfOnes ==
  ASSUME NEW g, IsGraph(g), MaxDepth \in Nat, NEW W, IsWeights(W, Ones(g), g)
  PROVE  W[1][1] = Len(Payload!FlattenSeq(LevelsOf(g)))
<1> DEFINE S == DOMAIN g
           level == LevelsOf(g)
           f == [m \in DOMAIN g |-> 1]
           D == MaxDepth + 1
<1>1. IsUnfolding(level, g)
  BY LevelsAre
<1> HIDE DEF level
<1>2. level \in [1 .. D -> Seq(S)] /\ D \in Nat
  BY <1>1, LevelsAreSequence
<1>3. PICK v \in [Depths -> Nat] :
        W[1][1] = Total(v) /\ \A d \in Depths : v[d] = Over(level[d], Ones(g)[d])
  BY <1>1, TheseAreMeasures, WeightOfRoot
<1>4. \A d \in Depths : Ones(g)[d] = f
  BY DEF Ones
<1>5. f \in [S -> Nat] /\ \A m \in S : f[m] = 1
  OBVIOUS
<1> HIDE DEF f
<1>6. AreSums(v, D, level, f, S)
  BY <1>2, <1>3, <1>4, <1>5 DEF AreSums, Depths
<1> HIDE DEF S, D
<1>7. Payload!FlattenSeq(level) \in Seq(S) /\ Over(Payload!FlattenSeq(level), f) = Total(v)
  BY <1>6, OverOfFlattened
<1>8. Over(Payload!FlattenSeq(level), f) = Len(Payload!FlattenSeq(level))
  BY <1>5, <1>7, OverOfOnes
<1> QED
  BY <1>3, <1>7, <1>8 DEF level

IsSound(l, g) ==
  \A i \in DOMAIN Payload!FlattenSeq(LevelsOf(g)) :
    Payload!Defect(l, g[Payload!FlattenSeq(LevelsOf(g))[i]]) = Payload!Running

\* Nothing is refused exactly when nothing is too deep and no node has a defect.
LEMMA WeightOfRefused ==
  ASSUME NEW g, IsGraph(g), MaxDepth \in Nat, NEW l, NEW W, IsWeights(W, Refused(l, g), g)
  PROVE  W[1][1] = 0 => LevelsOf(g)[MaxDepth + 1] = << >> /\ IsSound(l, g)
<1> DEFINE S == DOMAIN g
           level == LevelsOf(g)
           D == MaxDepth + 1
<1> SUFFICES ASSUME W[1][1] = 0
             PROVE  level[MaxDepth + 1] = << >> /\ IsSound(l, g)
  OBVIOUS
<1>1. IsUnfolding(level, g)
  BY LevelsAre
<1>2. IsSound(l, g) <=> \A i \in DOMAIN Payload!FlattenSeq(level) :
             Payload!Defect(l, g[Payload!FlattenSeq(level)[i]]) = Payload!Running
  BY DEF IsSound
<1> HIDE DEF level
<1>3. level \in [1 .. D -> Seq(S)] /\ D \in Nat
  BY <1>1, LevelsAreSequence
<1>4. PICK v \in [Depths -> Nat] :
        W[1][1] = Total(v) /\ \A d \in Depths : v[d] = Over(level[d], Refused(l, g)[d])
  BY <1>1, TheseAreMeasures, WeightOfRoot
<1>5. \A d \in Depths : v[d] = 0
  <2>1. v \in [1 .. D -> Nat] /\ Total(v) = 0
    BY <1>4 DEF Depths
  <2> HIDE DEF D
  <2>2. \A d \in 1 .. D : v[d] = 0
    BY <1>3, <2>1, TotalBounds
  <2> QED
    BY <2>2 DEF Depths, D
<1>6. ASSUME NEW d \in Depths, NEW i \in DOMAIN level[d]
      PROVE  d <= MaxDepth /\ Payload!Defect(l, g[level[d][i]]) = Payload!Running
  <2>1. level[d] \in Seq(S) /\ level[d][i] \in S
    BY <1>3 DEF Depths
  <2>2. Refused(l, g)[d] \in [S -> Nat] /\ Over(level[d], Refused(l, g)[d]) = 0
    BY <1>4, <1>5, TheseAreMeasures DEF IsMeasure
  <2>3. Refused(l, g)[d][level[d][i]] = 0
    BY <2>1, <2>2, OverBounds
  <2>4. Refused(l, g)[d][level[d][i]] =
          IF d > MaxDepth \/ Payload!Defect(l, g[level[d][i]]) # Payload!Running THEN 1 ELSE 0
    BY <2>1 DEF Refused
  <2>5. d \in Nat
    BY DEF Depths
  <2> QED
    BY <2>3, <2>4, <2>5
<1>7. level[MaxDepth + 1] = << >>
  <2>1. MaxDepth + 1 \in Depths /\ ~(MaxDepth + 1 <= MaxDepth)
    BY DEF Depths
  <2>2. \A i \in DOMAIN level[MaxDepth + 1] : FALSE
    BY <1>6, <2>1
  <2>3. level[MaxDepth + 1] \in Seq(S)
    BY <1>3, <2>1 DEF Depths
  <2> HIDE DEF level
  <2> QED
    BY <2>2, <2>3, NothingIsEmpty
<1>8. ASSUME NEW i \in DOMAIN Payload!FlattenSeq(level)
      PROVE  Payload!Defect(l, g[Payload!FlattenSeq(level)[i]]) = Payload!Running
  <2> DEFINE x == Payload!FlattenSeq(level)[i]
  <2>1. Occurs(x, Payload!FlattenSeq(level))
    BY DEF Occurs
  <2> HIDE DEF x, D, S
  <2>2. PICK d \in 1 .. D : Occurs(x, level[d])
    BY <1>3, <2>1, OccursInFlattened
  <2>3. PICK j \in DOMAIN level[d] : level[d][j] = x
    BY <2>2 DEF Occurs
  <2>4. d \in Depths
    BY <2>2 DEF Depths, D
  <2>5. Payload!Defect(l, g[level[d][j]]) = Payload!Running
    BY <1>6, <2>3, <2>4
  <2> QED
    BY <2>3, <2>5 DEF x
<1> QED
  BY <1>2, <1>7, <1>8

-----------------------------------------------------------------------------
(* One visit. *)

\* The second of two sequences, one after the other.
LEMMA SecondPart ==
  ASSUME NEW S, NEW s \in Seq(S), NEW t \in Seq(S)
  PROVE  \A k \in 1 .. Len(t) : (s \o t)[Len(s) + k] = t[k]
<1>1. s \o t \in Seq(S) /\ Len(s) \in Nat /\ Len(t) \in Nat /\ Len(s \o t) = Len(s) + Len(t)
  OBVIOUS
<1> QED
  BY <1>1

\* What follows a sequence is next.
LEMMA NextIs ==
  ASSUME NEW S, NEW f \in Seq(S), NEW x \in S
  PROVE  (f \o << x >>)[Len(f) + 1] = x
<1> DEFINE y == << x >>
<1>1. y \in Seq(S) /\ Len(y) = 1 /\ y[1] = x
  OBVIOUS
<1> HIDE DEF y
<1>2. \A k \in 1 .. Len(y) : (f \o y)[Len(f) + k] = y[k]
  BY <1>1, SecondPart
<1>3. 1 \in 1 .. Len(y)
  BY <1>1
<1> QED
  BY <1>1, <1>2, <1>3 DEF y

\* The last of a sequence and those before.
LEMMA FrontIs ==
  ASSUME NEW S, NEW s \in Seq(S), s # << >>
  PROVE  /\ Payload!Front(s) \in Seq(S) /\ Payload!Last(s) \in S
         /\ Len(s) \in DOMAIN s /\ Payload!Last(s) = s[Len(s)]
         /\ s = Payload!Front(s) \o << Payload!Last(s) >>
         /\ \A i \in DOMAIN Payload!Front(s) : i \in DOMAIN s /\ Payload!Front(s)[i] = s[i]
<1> DEFINE f == Payload!Front(s)
           x == Payload!Last(s)
           m == Len(s)
<1>1. m \in Nat /\ DOMAIN s = 1 .. m /\ \A i \in 1 .. m : s[i] \in S
  OBVIOUS
<1>2. m # 0
  OBVIOUS
<1>3. f = SubSeq(s, 1, m - 1) /\ x = s[m]
  BY DEF Payload!Front, Payload!Last
<1>4. m \in 1 .. m /\ m - 1 \in Nat /\ m - 1 \in 0 .. m
  BY <1>1, <1>2
<1>5. f = [i \in 1 .. m - 1 |-> s[i]]
  BY <1>1, <1>3, <1>4
<1> HIDE DEF f, x, m
<1>6. f \in Seq(S) /\ Len(f) = m - 1 /\ DOMAIN f = 1 .. m - 1 /\ x \in S
  BY <1>1, <1>3, <1>4, <1>5
<1>7. \A i \in 1 .. m - 1 : i \in 1 .. m /\ f[i] = s[i]
  BY <1>1, <1>5
<1>8. s = f \o << x >>
  <2> DEFINE t == f \o << x >>
  <2>1. t \in Seq(S) /\ Len(t) = m /\ DOMAIN t = 1 .. m
    BY <1>1, <1>4, <1>6
  <2>2. \A i \in 1 .. m : t[i] = s[i]
    <3>1. \A i \in 1 .. m - 1 : t[i] = s[i]
      BY <1>6, <1>7
    <3>2. t[m] = s[m]
      <4>1. Len(f) + 1 = m
        BY <1>1, <1>6
      <4>2. t[Len(f) + 1] = x
        BY <1>6, NextIs
      <4> QED
        BY <1>3, <4>1, <4>2
    <3>3. \A i \in 1 .. m : i \in 1 .. m - 1 \/ i = m
      BY <1>1
    <3> QED
      BY <3>1, <3>2, <3>3
  <2>3. t = [i \in 1 .. m |-> t[i]] /\ s = [i \in 1 .. m |-> s[i]]
    BY <1>1, <2>1
  <2> HIDE DEF t
  <2>4. t = s
    BY <2>2, <2>3
  <2> QED
    BY <2>4 DEF t
<1> QED
  BY <1>1, <1>3, <1>4, <1>6, <1>7, <1>8 DEF f, x, m

Entries(g) == [node : DOMAIN g, depth : Depths]

\* What an entry of the stack weighs.
EntryWeight(g, W) == [e \in Entries(g) |-> W[e.depth][e.node]]

\* What a visit pushes.
Pushed(g, l, e) ==
  [i \in DOMAIN Payload!Kids(l, g[e.node]) |-> [node |-> Payload!Kids(l, g[e.node])[i], depth |-> e.depth + 1]]

\* What a visit pushes are entries one level deeper, of nodes below.
LEMMA PushedAre ==
  ASSUME NEW g, IsGraph(g), NEW l, NEW e, e.node \in DOMAIN g, NEW D, e.depth + 1 \in D
  PROVE  /\ Pushed(g, l, e) \in Seq([node : DOMAIN g, depth : D])
         /\ \A i \in DOMAIN Pushed(g, l, e) : /\ Pushed(g, l, e)[i].depth = e.depth + 1
                                              /\ Occurs(Pushed(g, l, e)[i].node, g[e.node].kids)
<1> DEFINE S == DOMAIN g
           n == g[e.node]
           k == Len(n.kids)
           p == Pushed(g, l, e)
<1>1. IsNode(n, S)
  BY DEF IsGraph
<1>2. k \in Nat /\ DOMAIN n.kids = 1 .. k /\ \A i \in 1 .. k : n.kids[i] \in S
  BY <1>1 DEF IsNode
<1>3. PICK pi : IsReordered(Payload!Kids(l, n), n.kids, pi)
  BY <1>1, PayloadsAre, KidsAreOrdered
<1>4. \A i \in 1 .. k : pi[i] \in 1 .. k
  BY <1>3 DEF IsReordered, IsOrder
<1>5. p = [i \in 1 .. k |-> [node |-> n.kids[pi[i]], depth |-> e.depth + 1]]
  <2>1. DOMAIN Payload!Kids(l, n) = 1 .. k /\ \A i \in 1 .. k : Payload!Kids(l, n)[i] = n.kids[pi[i]]
    BY <1>3 DEF IsReordered
  <2>2. p = [i \in DOMAIN Payload!Kids(l, n) |-> [node |-> Payload!Kids(l, n)[i], depth |-> e.depth + 1]]
    BY DEF Pushed
  <2> HIDE DEF p, n, k
  <2> QED
    BY <2>1, <2>2
<1> DEFINE E == [node : S, depth : D]
<1> HIDE DEF p, n, k, S
<1>7. p \in Seq(E) /\ DOMAIN p = 1 .. k
  <2>1. ASSUME NEW i \in 1 .. k PROVE [node |-> n.kids[pi[i]], depth |-> e.depth + 1] \in E
    BY <1>2, <1>4
  <2> HIDE DEF E
  <2> QED
    BY <1>2, <1>5, <2>1
<1>8. ASSUME NEW i \in 1 .. k PROVE p[i].depth = e.depth + 1 /\ p[i].node = n.kids[pi[i]]
  BY <1>5
<1>9. ASSUME NEW i \in 1 .. k PROVE Occurs(p[i].node, n.kids)
  BY <1>2, <1>4, <1>8 DEF Occurs
<1> QED
  BY <1>7, <1>8, <1>9 DEF p, n, S

\* It weighs what is below the visited node, in whatever order it is pushed.
LEMMA PushedWeighs ==
  ASSUME NEW g, IsGraph(g), NEW l, NEW e, e.node \in DOMAIN g, e.depth \in 1 .. MaxDepth, MaxDepth \in Nat,
         NEW w, NEW W, IsWeights(W, w, g)
  PROVE  Over(Pushed(g, l, e), EntryWeight(g, W)) = Over(g[e.node].kids, W[e.depth + 1])
<1> DEFINE S == DOMAIN g
           n == g[e.node]
           k == Len(n.kids)
           p == Pushed(g, l, e)
           h == W[e.depth + 1]
           u == [i \in DOMAIN n.kids |-> h[n.kids[i]]]
           v == [i \in DOMAIN p |-> EntryWeight(g, W)[p[i]]]
<1>1. IsNode(n, S)
  BY DEF IsGraph
<1>2. k \in Nat /\ DOMAIN n.kids = 1 .. k /\ \A i \in 1 .. k : n.kids[i] \in S
  BY <1>1 DEF IsNode
<1>3. PICK pi : IsReordered(Payload!Kids(l, n), n.kids, pi)
  BY <1>1, PayloadsAre, KidsAreOrdered
<1>4. \A i \in 1 .. k : pi[i] \in 1 .. k
  BY <1>3 DEF IsReordered, IsOrder
<1>5. e.depth + 1 \in Depths /\ h \in [S -> Nat]
  BY DEF Depths, IsWeights
<1>6. /\ DOMAIN p = 1 .. k
      /\ \A i \in 1 .. k : p[i] = [node |-> n.kids[pi[i]], depth |-> e.depth + 1]
  <2>1. DOMAIN Payload!Kids(l, n) = 1 .. k /\ \A i \in 1 .. k : Payload!Kids(l, n)[i] = n.kids[pi[i]]
    BY <1>3 DEF IsReordered
  <2>2. p = [i \in DOMAIN Payload!Kids(l, n) |-> [node |-> Payload!Kids(l, n)[i], depth |-> e.depth + 1]]
    BY DEF Pushed
  <2> HIDE DEF p, n, k
  <2> QED
    BY <2>1, <2>2
<1>7. ASSUME NEW i \in 1 .. k
      PROVE  EntryWeight(g, W)[p[i]] = h[n.kids[pi[i]]]
  <2>0. n.kids[pi[i]] \in S
    BY <1>2, <1>4
  <2>1. p[i] \in Entries(g) /\ p[i].depth = e.depth + 1 /\ p[i].node = n.kids[pi[i]]
    <3> HIDE DEF n, k, p, h
    <3> QED
      BY <1>5, <1>6, <2>0 DEF Entries
  <2> QED
    BY <2>1 DEF EntryWeight
<1>8. Over(n.kids, h) = Total(u) /\ Over(p, EntryWeight(g, W)) = Total(v)
  BY DEF Over
<1> HIDE DEF n, k, p, h, S
<1>9. ASSUME NEW i \in 1 .. k
      PROVE  /\ n.kids[i] \in S /\ h[n.kids[i]] \in Nat
             /\ n.kids[pi[i]] \in S /\ h[n.kids[pi[i]]] \in Nat
  BY <1>2, <1>4, <1>5
<1>10. u \in [1 .. k -> Nat] /\ \A i \in 1 .. k : u[i] = h[n.kids[i]]
  BY <1>2, <1>9
<1>11. v \in [1 .. k -> Nat] /\ \A i \in 1 .. k : v[i] = h[n.kids[pi[i]]]
  BY <1>6, <1>7, <1>9
<1> HIDE DEF u, v
<1>12. \A i \in 1 .. k : v[i] = u[pi[i]]
  BY <1>4, <1>10, <1>11
<1>13. Total(v) = Total(u)
  <2>1. IsOrder(pi, k)
    BY <1>3 DEF IsReordered, k
  <2> QED
    BY <1>2, <1>10, <1>11, <1>12, <2>1, TotalOfPermuted
<1> QED
  BY <1>8, <1>13 DEF n, p, h

\* What the stack weighs loses by a visit what the visited node measures.
LEMMA VisitWeighs ==
  ASSUME NEW g, IsGraph(g), NEW l, NEW s \in Seq(Entries(g)), s # << >>, MaxDepth \in Nat,
         Payload!Last(s).depth \in 1 .. MaxDepth,
         NEW w, IsMeasure(w, g), NEW W, IsWeights(W, w, g)
  PROVE  /\ Payload!Front(s) \o Pushed(g, l, Payload!Last(s)) \in Seq(Entries(g))
         /\ Over(s, EntryWeight(g, W)) =
              w[Payload!Last(s).depth][Payload!Last(s).node]
                + Over(Payload!Front(s) \o Pushed(g, l, Payload!Last(s)), EntryWeight(g, W))
<1> DEFINE E == Entries(g)
           f == EntryWeight(g, W)
           t == Payload!Front(s)
           e == Payload!Last(s)
           p == Pushed(g, l, e)
<1>1. t \in Seq(E) /\ e \in E /\ s = t \o << e >>
  BY FrontIs
<1>2. f \in [E -> Nat]
  <2>1. \A x \in E : x.depth \in Depths /\ x.node \in DOMAIN g
    BY DEF Entries
  <2>2. ASSUME NEW x \in E PROVE W[x.depth][x.node] \in Nat
    BY <2>1 DEF IsWeights
  <2> QED
    BY <2>2 DEF EntryWeight
<1>3. e.node \in DOMAIN g /\ e.depth \in 1 .. MaxDepth
  BY <1>1 DEF Entries
<1>4. f[e] = W[e.depth][e.node]
  BY <1>1 DEF EntryWeight
<1>5. W[e.depth][e.node] = w[e.depth][e.node] + Over(g[e.node].kids, W[e.depth + 1])
  BY <1>3 DEF IsWeights
<1> HIDE DEF t, e
<1>6. p \in Seq(E)
  <2>1. e.depth + 1 \in Depths
    BY <1>3 DEF Depths
  <2> QED
    BY <1>3, <2>1, PushedAre DEF Entries
<1>7. Over(p, f) = Over(g[e.node].kids, W[e.depth + 1])
  BY <1>3, PushedWeighs
<1> HIDE DEF E, f, p
<1>8. Over(t \o << e >>, f) = Over(t, f) + Over(<< e >>, f)
  <2> DEFINE y == << e >>
  <2>1. y \in Seq(E)
    BY <1>1
  <2> HIDE DEF y
  <2>2. Over(t \o y, f) = Over(t, f) + Over(y, f)
    BY <1>1, <1>2, <2>1, OverOfChain
  <2> QED
    BY <2>2 DEF y
<1>9. Over(<< e >>, f) = f[e]
  BY <1>1, <1>2, OverOfOne
<1>10. t \o p \in Seq(E) /\ Over(t \o p, f) = Over(t, f) + Over(p, f)
  BY <1>1, <1>2, <1>6, OverOfChain
<1>11. Over(t, f) \in Nat
  BY <1>1, <1>2, OverType
<1>12. Over(p, f) \in Nat
  BY <1>2, <1>6, OverType
<1>13. w[e.depth][e.node] \in Nat
  <2>1. e.depth \in Depths
    BY <1>3 DEF Depths
  <2> QED
    BY <1>3, <2>1 DEF IsMeasure
<1>14. \A a, b, c \in Nat : a + (b + c) = b + (a + c)
  OBVIOUS
<1>15. Over(s, f) = w[e.depth][e.node] + Over(t \o p, f)
  BY <1>1, <1>4, <1>5, <1>7, <1>8, <1>9, <1>10, <1>11, <1>12, <1>13, <1>14
<1> QED
  BY <1>10, <1>15 DEF E, f, t, e, p

-----------------------------------------------------------------------------
(* What is true of a walk. *)

Defects == {"number", "unsafe", "surrogate"}

IsSmall(g) ==
  LevelsOf(g)[MaxDepth + 1] = << >> /\ Len(Payload!FlattenSeq(LevelsOf(g))) <= MaxNodes

AnyEntries(g) == [node : DOMAIN g, depth : 0 .. MaxDepth + 2]

\* What has been visited and what the stack still stands for is the whole.
IsBalanced(g, l, nodes, stack) ==
  /\ \A W : IsWeights(W, Ones(g), g) => nodes + Over(stack, EntryWeight(g, W)) = W[1][1]
  /\ \A W : IsWeights(W, Refused(l, g), g) => Over(stack, EntryWeight(g, W)) = W[1][1]

\* The stack has nodes of the levels that it says.
IsReached(g, stack) ==
  \A i \in DOMAIN stack : Occurs(stack[i].node, LevelsOf(g)[stack[i].depth])

IsUnderWay(g, l, w) ==
  /\ w.nodes \in 0 .. MaxNodes
  /\ w.stack \in Seq(Entries(g))
  /\ IsReached(g, w.stack)
  /\ IsBalanced(g, l, w.nodes, w.stack)

HasDefect(g, l, defect) ==
  \E i \in DOMAIN Payload!FlattenSeq(LevelsOf(g)) :
    Payload!Defect(l, g[Payload!FlattenSeq(LevelsOf(g))[i]]) = defect

IsWalk(g, l, w) ==
  /\ w.verdict \in {Payload!Running, Payload!Accepted, "depth", "nodes"} \cup Defects
  /\ w.nodes \in 0 .. MaxNodes + 1
  /\ w.stack \in Seq(AnyEntries(g))
  /\ w.verdict = Payload!Running => IsUnderWay(g, l, w)
  /\ w.verdict = Payload!Accepted => IsSmall(g) /\ IsSound(l, g) /\ w.stack = << >>
  /\ w.verdict \in {"depth", "nodes"} => ~IsSmall(g)
  /\ w.verdict \in Defects => HasDefect(g, l, w.verdict)

FirstWalk == [stack |-> << [node |-> 1, depth |-> 1] >>, nodes |-> 0, verdict |-> Payload!Running]

\* A walk after a visit.
Visited(g, l, w) ==
  LET e     == Payload!Last(w.stack)
      limit == Payload!Limit(l, e.depth, w.nodes + 1)
  IN [nodes   |-> w.nodes + 1,
      verdict |-> IF limit # Payload!Running THEN limit ELSE Payload!Defect(l, g[e.node]),
      stack   |-> Payload!Front(w.stack) \o Pushed(g, l, e)]

\* An element of a level is one of all levels.
LEMMA OccursInLevels ==
  ASSUME NEW g, IsGraph(g), MaxDepth \in Nat, NEW d \in Depths, NEW x, Occurs(x, LevelsOf(g)[d])
  PROVE  Occurs(x, Payload!FlattenSeq(LevelsOf(g)))
<1> DEFINE D == MaxDepth + 1
           S == DOMAIN g
           level == LevelsOf(g)
<1>1. level \in [1 .. D -> Seq(S)] /\ D \in Nat
  BY LevelsAre, LevelsAreSequence
<1>2. d \in 1 .. D
  BY DEF Depths
<1> HIDE DEF level, D, S
<1>3. Occurs(x, Payload!FlattenSeq(level)) <=> \E k \in 1 .. D : Occurs(x, level[k])
  BY <1>1, OccursInFlattened
<1> QED
  BY <1>2, <1>3 DEF level

\* A node has one defect or none.
LEMMA DefectIs ==
  ASSUME NEW l, NEW n
  PROVE  Payload!Defect(l, n) \in {Payload!Running} \cup Defects
  BY DEF Payload!Defect, Payload!Running, Defects

\* When a limit is exceeded, and which.
LEMMA LimitIs ==
  ASSUME NEW l, NEW depth \in Nat, NEW count \in Nat, MaxDepth \in Nat, MaxNodes \in Nat
  PROVE  \/ Payload!Limit(l, depth, count) = "depth" /\ depth > MaxDepth
         \/ Payload!Limit(l, depth, count) = "nodes" /\ count > MaxNodes /\ depth <= MaxDepth
         \/ Payload!Limit(l, depth, count) = Payload!Running /\ depth <= MaxDepth /\ count <= MaxNodes
  BY DEF Payload!Limit, Payload!Running

\* The entries within the levels are entries.
LEMMA EntriesAre ==
  ASSUME NEW g, MaxDepth \in Nat, NEW s \in Seq(Entries(g))
  PROVE  s \in Seq(AnyEntries(g))
<1>1. Len(s) \in Nat /\ DOMAIN s = 1 .. Len(s) /\ \A i \in 1 .. Len(s) : s[i] \in Entries(g)
  OBVIOUS
<1>2. \A e \in Entries(g) : e \in AnyEntries(g)
  BY DEF Entries, AnyEntries, Depths
<1>3. s = [i \in 1 .. Len(s) |-> s[i]]
  BY <1>1
<1> QED
  BY <1>1, <1>2, <1>3

\* A walk starts with the root.
LEMMA FirstWalkIs ==
  ASSUME NEW g, IsGraph(g), NEW l, MaxDepth \in Nat, MaxNodes \in Nat
  PROVE  IsWalk(g, l, FirstWalk)
<1> DEFINE e == [node |-> 1, depth |-> 1]
           E == Entries(g)
           s == << e >>
<1>1. e \in E /\ e.depth = 1 /\ e.node = 1 /\ 1 \in DOMAIN g
  BY DEF Entries, Depths, IsGraph
<1>2. FirstWalk.stack = s /\ FirstWalk.nodes = 0 /\ FirstWalk.verdict = Payload!Running
  BY DEF FirstWalk
<1>3. s \in Seq(E) /\ DOMAIN s = {1} /\ s[1] = e
  BY <1>1
<1>4. ASSUME NEW W, NEW w, IsWeights(W, w, g)
      PROVE  Over(s, EntryWeight(g, W)) = W[1][1]
  <2>1. \A x \in E : x.depth \in Depths /\ x.node \in DOMAIN g
    BY DEF Entries
  <2>2. ASSUME NEW x \in E PROVE W[x.depth][x.node] \in Nat
    BY <1>4, <2>1 DEF IsWeights
  <2>3. EntryWeight(g, W) \in [E -> Nat] /\ EntryWeight(g, W)[e] = W[1][1]
    BY <1>1, <2>2 DEF EntryWeight
  <2> HIDE DEF e, E
  <2> QED
    BY <1>1, <2>3, OverOfOne
<1>5. IsReached(g, s)
  <2>1. LevelsOf(g)[1] = << 1 >>
    BY LevelsAre DEF IsUnfolding, IsUnfoldingFrom
  <2>2. Occurs(1, << 1 >>)
    BY DEF Occurs
  <2> HIDE DEF s, e
  <2> QED
    BY <1>1, <1>3, <2>1, <2>2 DEF IsReached
<1> HIDE DEF s, e, E
<1>6. ASSUME NEW W, IsWeights(W, Ones(g), g)
      PROVE  0 + Over(s, EntryWeight(g, W)) = W[1][1]
  <2>1. Over(s, EntryWeight(g, W)) = W[1][1]
    BY <1>4, <1>6
  <2>2. 1 \in Depths
    BY DEF Depths
  <2>3. W[1][1] \in Nat
    BY <1>1, <1>6, <2>2 DEF IsWeights
  <2> QED
    BY <2>1, <2>3
<1>7. IsBalanced(g, l, 0, s)
  BY <1>4, <1>6 DEF IsBalanced
<1>8. IsUnderWay(g, l, FirstWalk)
  BY <1>2, <1>3, <1>5, <1>7 DEF IsUnderWay, E
<1>9. FirstWalk.stack \in Seq(AnyEntries(g))
  BY <1>2, <1>3, EntriesAre DEF E
<1>10. Payload!Running \notin {Payload!Accepted, "depth", "nodes"} \cup Defects
  BY DEF Payload!Running, Payload!Accepted, Defects
<1> QED
  BY <1>2, <1>8, <1>9, <1>10 DEF IsWalk

\* The top of the stack of a walk under way, and what is known of it.
LEMMA TopIs ==
  ASSUME NEW g, IsGraph(g), NEW l, NEW w, IsUnderWay(g, l, w), w.stack # << >>, MaxDepth \in Nat
  PROVE  LET e == Payload!Last(w.stack)
         IN /\ e \in Entries(g) /\ e.node \in DOMAIN g /\ e.depth \in Depths
            /\ Occurs(e.node, LevelsOf(g)[e.depth])
            /\ Payload!Front(w.stack) \in Seq(Entries(g))
            /\ IsReached(g, Payload!Front(w.stack))
<1> DEFINE e == Payload!Last(w.stack)
           E == Entries(g)
           t == Payload!Front(w.stack)
<1>1. w.stack \in Seq(E) /\ IsReached(g, w.stack)
  BY DEF IsUnderWay
<1>2. /\ t \in Seq(E) /\ e \in E
      /\ Len(w.stack) \in DOMAIN w.stack /\ e = w.stack[Len(w.stack)]
      /\ \A i \in DOMAIN t : i \in DOMAIN w.stack /\ t[i] = w.stack[i]
  <2> HIDE DEF E
  <2> QED
    BY <1>1, FrontIs
<1>3. e.node \in DOMAIN g /\ e.depth \in Depths
  BY <1>2 DEF Entries
<1> HIDE DEF e, t
<1>4. Occurs(e.node, LevelsOf(g)[e.depth])
  BY <1>1, <1>2 DEF IsReached
<1>5. IsReached(g, t)
  BY <1>1, <1>2 DEF IsReached
<1> QED
  BY <1>2, <1>3, <1>4, <1>5 DEF e, t

\* What is pushed is of the next level.
LEMMA PushedAreReached ==
  ASSUME NEW g, IsGraph(g), NEW l, NEW e, e.node \in DOMAIN g, e.depth \in 1 .. MaxDepth, MaxDepth \in Nat,
         Occurs(e.node, LevelsOf(g)[e.depth])
  PROVE  IsReached(g, Pushed(g, l, e))
<1> DEFINE p == Pushed(g, l, e)
           d == e.depth
           level == LevelsOf(g)
<1>1. d + 1 \in Depths /\ d \in Depths
  BY DEF Depths
<1>2. \A i \in DOMAIN p : p[i].depth = d + 1 /\ Occurs(p[i].node, g[e.node].kids)
  BY <1>1, PushedAre
<1>3. level[d + 1] = Below(g, level[d]) /\ level[d] \in Seq(DOMAIN g)
  BY <1>1, LevelsAre DEF IsUnfolding, IsUnfoldingFrom
<1>4. PICK j \in DOMAIN level[d] : level[d][j] = e.node
  BY DEF Occurs
<1>5. \A x : Occurs(x, g[e.node].kids) => Occurs(x, level[d + 1])
  <2> HIDE DEF level, d
  <2>1. \A i \in DOMAIN level[d] : \A x : Occurs(x, g[level[d][i]].kids) => Occurs(x, Below(g, level[d]))
    BY <1>3, BelowIs
  <2> QED
    BY <1>3, <1>4, <2>1
<1> HIDE DEF p, level, d
<1>6. IsReached(g, p)
  BY <1>2, <1>5 DEF IsReached, level
<1> QED
  BY <1>6 DEF p

\* A sequence after another, all reached.
LEMMA ReachedChain ==
  ASSUME NEW g, NEW S, NEW s \in Seq(S), NEW t \in Seq(S), IsReached(g, s), IsReached(g, t)
  PROVE  IsReached(g, s \o t)
<1> DEFINE m == Len(s)
           n == Len(t)
<1>1. m \in Nat /\ n \in Nat /\ DOMAIN s = 1 .. m /\ DOMAIN t = 1 .. n
  OBVIOUS
<1>2. s \o t \in Seq(S) /\ DOMAIN (s \o t) = 1 .. m + n
  OBVIOUS
<1>3. \A i \in 1 .. m : (s \o t)[i] = s[i]
  OBVIOUS
<1>4. \A k \in 1 .. n : (s \o t)[m + k] = t[k]
  BY SecondPart
<1> HIDE DEF m, n
<1>5. ASSUME NEW i \in 1 .. m + n
      PROVE  Occurs((s \o t)[i].node, LevelsOf(g)[(s \o t)[i].depth])
  <2>1. CASE i \in 1 .. m
    BY <1>1, <1>3, <2>1 DEF IsReached
  <2>2. CASE i \notin 1 .. m
    <3>1. i - m \in 1 .. n /\ m + (i - m) = i
      BY <1>1, <2>2
    <3>2. (s \o t)[m + (i - m)] = t[i - m]
      BY <1>4, <3>1
    <3>3. (s \o t)[i] = t[i - m] /\ i - m \in DOMAIN t
      BY <1>1, <3>1, <3>2
    <3> QED
      BY <3>3 DEF IsReached
  <2> QED
    BY <2>1, <2>2
<1> QED
  BY <1>2, <1>5 DEF IsReached

\* A visit within the limits, of a node without a defect, keeps the balance.
LEMMA VisitBalances ==
  ASSUME NEW g, IsGraph(g), NEW l, NEW w, IsUnderWay(g, l, w), w.stack # << >>, MaxDepth \in Nat, MaxNodes \in Nat,
         Payload!Last(w.stack).depth <= MaxDepth,
         Payload!Defect(l, g[Payload!Last(w.stack).node]) = Payload!Running
  PROVE  IsBalanced(g, l, w.nodes + 1, Payload!Front(w.stack) \o Pushed(g, l, Payload!Last(w.stack)))
<1> DEFINE e == Payload!Last(w.stack)
           E == Entries(g)
           s == Payload!Front(w.stack) \o Pushed(g, l, e)
<1>1. w.stack \in Seq(E) /\ w.nodes \in Nat
  BY DEF IsUnderWay
<1>2. e.node \in DOMAIN g /\ e.depth \in 1 .. MaxDepth
  BY TopIs DEF Depths
<1>3. e.depth \in Depths
  BY <1>2 DEF Depths
<1>4. ASSUME NEW v, IsMeasure(v, g), NEW W, IsWeights(W, v, g)
      PROVE  /\ Over(w.stack, EntryWeight(g, W)) = v[e.depth][e.node] + Over(s, EntryWeight(g, W))
             /\ Over(s, EntryWeight(g, W)) \in Nat
  <2>1. /\ s \in Seq(E)
        /\ Over(w.stack, EntryWeight(g, W)) = v[e.depth][e.node] + Over(s, EntryWeight(g, W))
    BY <1>1, <1>2, <1>4, VisitWeighs
  <2>2. \A x \in E : x.depth \in Depths /\ x.node \in DOMAIN g
    BY DEF Entries
  <2>3. ASSUME NEW x \in E PROVE W[x.depth][x.node] \in Nat
    BY <1>4, <2>2 DEF IsWeights
  <2>4. EntryWeight(g, W) \in [E -> Nat]
    BY <2>3 DEF EntryWeight
  <2> HIDE DEF s, E, e
  <2>5. Over(s, EntryWeight(g, W)) \in Nat
    BY <2>1, <2>4, OverType
  <2> QED
    BY <2>1, <2>5
<1> HIDE DEF s, E
<1>5. Ones(g)[e.depth][e.node] = 1
  BY <1>2, <1>3 DEF Ones
<1>6. Refused(l, g)[e.depth][e.node] = 0
  <2>1. ~(e.depth > MaxDepth)
    BY <1>2
  <2> QED
    BY <1>2, <1>3, <2>1 DEF Refused
<1> HIDE DEF e
<1>7. ASSUME NEW W, IsWeights(W, Ones(g), g)
      PROVE  w.nodes + 1 + Over(s, EntryWeight(g, W)) = W[1][1]
  <2>1. w.nodes + Over(w.stack, EntryWeight(g, W)) = W[1][1]
    BY <1>7 DEF IsUnderWay, IsBalanced
  <2>2. Over(w.stack, EntryWeight(g, W)) = 1 + Over(s, EntryWeight(g, W)) /\ Over(s, EntryWeight(g, W)) \in Nat
    BY <1>4, <1>5, <1>7, TheseAreMeasures
  <2> QED
    BY <1>1, <2>1, <2>2, SMTT(25)
<1>8. ASSUME NEW W, IsWeights(W, Refused(l, g), g)
      PROVE  Over(s, EntryWeight(g, W)) = W[1][1]
  <2>1. Over(w.stack, EntryWeight(g, W)) = W[1][1]
    BY <1>8 DEF IsUnderWay, IsBalanced
  <2>2. Over(w.stack, EntryWeight(g, W)) = 0 + Over(s, EntryWeight(g, W)) /\ Over(s, EntryWeight(g, W)) \in Nat
    BY <1>4, <1>6, <1>8, TheseAreMeasures
  <2> QED
    BY <2>1, <2>2
<1>9. IsBalanced(g, l, w.nodes + 1, s)
  BY <1>7, <1>8 DEF IsBalanced
<1> QED
  BY <1>9 DEF s, e

\* A visit of one node too many: the payload is not small.
LEMMA TooMany ==
  ASSUME NEW g, IsGraph(g), NEW l, NEW w, IsUnderWay(g, l, w), w.stack # << >>, MaxDepth \in Nat, MaxNodes \in Nat,
         Payload!Last(w.stack).depth <= MaxDepth, w.nodes + 1 > MaxNodes
  PROVE  ~IsSmall(g)
<1> DEFINE e == Payload!Last(w.stack)
           E == Entries(g)
           s == Payload!Front(w.stack) \o Pushed(g, l, e)
<1>0. PICK W : IsWeights(W, Ones(g), g)
  BY TheseAreMeasures, WeightsExist
<1> DEFINE f == EntryWeight(g, W)
<1>1. w.stack \in Seq(E) /\ w.nodes \in Nat
  BY DEF IsUnderWay
<1>2. e.node \in DOMAIN g /\ e.depth \in 1 .. MaxDepth
  BY TopIs DEF Depths
<1>3. e.depth \in Depths
  BY <1>2 DEF Depths
<1>4. s \in Seq(E) /\ Over(w.stack, f) = Ones(g)[e.depth][e.node] + Over(s, f)
  <2>1. ASSUME NEW v, IsMeasure(v, g), IsWeights(W, v, g)
        PROVE  s \in Seq(E) /\ Over(w.stack, f) = v[e.depth][e.node] + Over(s, f)
    BY <1>1, <1>2, <2>1, VisitWeighs
  <2> HIDE DEF s, E, f, e
  <2> QED
    BY <1>0, <2>1, TheseAreMeasures
<1>5. Ones(g)[e.depth][e.node] = 1
  BY <1>2, <1>3 DEF Ones
<1>6. f \in [E -> Nat]
  <2>1. \A x \in E : x.depth \in Depths /\ x.node \in DOMAIN g
    BY DEF Entries
  <2>2. ASSUME NEW x \in E PROVE W[x.depth][x.node] \in Nat
    BY <1>0, <2>1 DEF IsWeights
  <2> QED
    BY <2>2 DEF EntryWeight
<1>7. w.nodes + Over(w.stack, f) = W[1][1]
  BY <1>0 DEF IsUnderWay, IsBalanced
<1> HIDE DEF f, s, E, e
<1>8. Over(s, f) \in Nat
  BY <1>4, <1>6, OverType
<1>9. W[1][1] = Len(Payload!FlattenSeq(LevelsOf(g)))
  BY <1>0, WeightOfOnes
<1>10. Len(Payload!FlattenSeq(LevelsOf(g))) = w.nodes + 1 + Over(s, f)
  BY <1>1, <1>4, <1>5, <1>7, <1>8, <1>9
<1>11. \A a, b \in Nat : a + 1 > MaxNodes => ~(a + 1 + b <= MaxNodes)
  OBVIOUS
<1>12. ~(Len(Payload!FlattenSeq(LevelsOf(g))) <= MaxNodes)
  BY <1>1, <1>8, <1>10, <1>11
<1> QED
  BY <1>12 DEF IsSmall

\* A visit keeps what is true of a walk.
LEMMA VisitKeeps ==
  ASSUME NEW g, IsGraph(g), NEW l, NEW w, IsWalk(g, l, w), w.verdict = Payload!Running, w.stack # << >>,
         MaxDepth \in Nat, MaxNodes \in Nat
  PROVE  IsWalk(g, l, Visited(g, l, w))
<1> DEFINE e == Payload!Last(w.stack)
           E == Entries(g)
           A == AnyEntries(g)
           t == Payload!Front(w.stack)
           p == Pushed(g, l, e)
           limit == Payload!Limit(l, e.depth, w.nodes + 1)
           defect == Payload!Defect(l, g[e.node])
           v == Visited(g, l, w)
<1>0. IsUnderWay(g, l, w)
  BY DEF IsWalk
<1>1. w.nodes \in 0 .. MaxNodes /\ w.nodes + 1 \in 0 .. MaxNodes + 1
  BY <1>0 DEF IsUnderWay
<1>2. /\ e.node \in DOMAIN g /\ e.depth \in Depths /\ Occurs(e.node, LevelsOf(g)[e.depth])
      /\ t \in Seq(E) /\ IsReached(g, t)
  BY <1>0, TopIs
<1>3. e.depth \in Nat /\ e.depth \in 1 .. MaxDepth + 1 /\ e.depth + 1 \in 0 .. MaxDepth + 2
  BY <1>2 DEF Depths
<1>4. /\ v.nodes = w.nodes + 1
      /\ v.verdict = IF limit # Payload!Running THEN limit ELSE defect
      /\ v.stack = t \o p
  BY DEF Visited
<1>5. \/ limit = "depth" /\ e.depth > MaxDepth
      \/ limit = "nodes" /\ w.nodes + 1 > MaxNodes /\ e.depth <= MaxDepth
      \/ limit = Payload!Running /\ e.depth <= MaxDepth /\ w.nodes + 1 <= MaxNodes
  BY <1>1, <1>3, LimitIs
<1>6. defect \in {Payload!Running} \cup Defects
  BY DefectIs
<1>6a. e.depth <= MaxDepth /\ defect = Payload!Running => IsBalanced(g, l, w.nodes + 1, t \o p)
  BY <1>0, VisitBalances
<1>6b. e.depth <= MaxDepth /\ w.nodes + 1 > MaxNodes => ~IsSmall(g)
  BY <1>0, TooMany
<1>6c. e.depth <= MaxDepth => p \in Seq(E) /\ IsReached(g, p)
  <2>1. e.depth <= MaxDepth => e.depth \in 1 .. MaxDepth /\ e.depth + 1 \in Depths
    BY <1>3 DEF Depths
  <2> QED
    BY <1>2, <2>1, PushedAre, PushedAreReached DEF Entries
<1>7. v.stack \in Seq(A)
  <2>1. p \in Seq(A)
    BY <1>2, <1>3, PushedAre DEF AnyEntries
  <2>2. t \in Seq(A)
    BY <1>2, EntriesAre
  <2> HIDE DEF A, p, t, v
  <2> QED
    BY <1>4, <2>1, <2>2
<1> HIDE DEF limit, defect, v, e, t, p, E, A
<1>8. /\ Payload!Running \notin {Payload!Accepted, "depth", "nodes"} \cup Defects
      /\ Payload!Accepted \notin {"depth", "nodes"} \cup Defects
      /\ "depth" \notin Defects /\ "nodes" \notin Defects
  BY DEF Payload!Running, Payload!Accepted, Defects
<1>9. CASE limit = "depth"
  <2>1. v.verdict = "depth" /\ e.depth > MaxDepth
    BY <1>4, <1>5, <1>8, <1>9
  <2>2. e.depth = MaxDepth + 1
    BY <1>3, <2>1
  <2>3. LevelsOf(g)[MaxDepth + 1] # << >>
    BY <1>2, <2>2 DEF Occurs
  <2>4. ~IsSmall(g)
    BY <2>3 DEF IsSmall
  <2>5. IsWalk(g, l, v)
    BY <1>1, <1>4, <1>7, <1>8, <2>1, <2>4 DEF IsWalk, A
  <2> QED
    BY <2>5 DEF v
<1>10. CASE limit = "nodes"
  <2>1. v.verdict = "nodes" /\ w.nodes + 1 > MaxNodes /\ e.depth <= MaxDepth
    BY <1>4, <1>5, <1>8, <1>10
  <2>2. IsWalk(g, l, v)
    BY <1>1, <1>4, <1>6b, <1>7, <1>8, <2>1 DEF IsWalk, A
  <2> QED
    BY <2>2 DEF v
<1>11. CASE limit = Payload!Running /\ defect # Payload!Running
  <2>1. v.verdict = defect /\ defect \in Defects
    BY <1>4, <1>6, <1>11
  <2>2. Occurs(e.node, Payload!FlattenSeq(LevelsOf(g)))
    BY <1>2, OccursInLevels
  <2>3. HasDefect(g, l, defect)
    BY <2>2 DEF Occurs, HasDefect, defect
  <2>4. IsWalk(g, l, v)
    BY <1>1, <1>4, <1>7, <1>8, <2>1, <2>3 DEF IsWalk, A
  <2> QED
    BY <2>4 DEF v
<1>12. CASE limit = Payload!Running /\ defect = Payload!Running
  <2>1. v.verdict = Payload!Running /\ e.depth <= MaxDepth /\ w.nodes + 1 <= MaxNodes
    BY <1>4, <1>5, <1>8, <1>12
  <2>2. v.nodes \in 0 .. MaxNodes
    BY <1>1, <1>4, <2>1
  <2>3. v.stack \in Seq(E)
    BY <1>2, <1>4, <1>6c, <2>1
  <2>4. IsReached(g, v.stack)
    BY <1>2, <1>4, <1>6c, <2>1, ReachedChain
  <2>5. IsBalanced(g, l, v.nodes, v.stack)
    BY <1>4, <1>6a, <1>12, <2>1
  <2>6. IsUnderWay(g, l, v)
    BY <2>2, <2>3, <2>4, <2>5 DEF IsUnderWay, E
  <2>7. IsWalk(g, l, v)
    BY <1>1, <1>4, <1>7, <1>8, <2>1, <2>6 DEF IsWalk, A
  <2> QED
    BY <2>7 DEF v
<1> QED
  BY <1>5, <1>9, <1>10, <1>11, <1>12

\* A walk that comes to an end accepts what it should.
LEMMA FinishKeeps ==
  ASSUME NEW g, IsGraph(g), NEW l, NEW w, IsWalk(g, l, w), w.verdict = Payload!Running, w.stack = << >>,
         MaxDepth \in Nat, MaxNodes \in Nat,
         NEW v, v.verdict = Payload!Accepted, v.stack = w.stack, v.nodes = w.nodes
  PROVE  IsWalk(g, l, v)
<1>0. IsUnderWay(g, l, w)
  BY DEF IsWalk
<1>1. PICK W : IsWeights(W, Ones(g), g)
  BY TheseAreMeasures, WeightsExist
<1>2. PICK X : IsWeights(X, Refused(l, g), g)
  BY TheseAreMeasures, WeightsExist
<1>3. Over(w.stack, EntryWeight(g, W)) = 0 /\ Over(w.stack, EntryWeight(g, X)) = 0
  BY OverOfNone
<1>4. w.nodes \in 0 .. MaxNodes /\ w.nodes + 0 = W[1][1] /\ 0 = X[1][1]
  BY <1>0, <1>1, <1>2, <1>3 DEF IsUnderWay, IsBalanced
<1>5. W[1][1] = Len(Payload!FlattenSeq(LevelsOf(g)))
  BY <1>1, WeightOfOnes
<1>6. LevelsOf(g)[MaxDepth + 1] = << >> /\ IsSound(l, g)
  BY <1>2, <1>4, WeightOfRefused
<1>7. IsSmall(g)
  BY <1>4, <1>5, <1>6 DEF IsSmall
<1>8. /\ Payload!Accepted \notin {"depth", "nodes"} \cup Defects
      /\ Payload!Accepted # Payload!Running
  BY DEF Payload!Running, Payload!Accepted, Defects
<1>9. v.nodes \in 0 .. MaxNodes + 1 /\ v.stack \in Seq(AnyEntries(g))
  BY <1>4 DEF IsWalk
<1> QED
  BY <1>6, <1>7, <1>8, <1>9 DEF IsWalk

\* What an ended walk has said is true of the payload.
LEMMA EndedWalkIs ==
  ASSUME NEW g, NEW l, NEW w, IsWalk(g, l, w), w.verdict # Payload!Running
  PROVE  /\ (w.verdict = Payload!Accepted) <=> (IsSmall(g) /\ IsSound(l, g))
         /\ IsSmall(g) /\ w.verdict # Payload!Accepted => HasDefect(g, l, w.verdict) /\ w.verdict \in Defects
<1>1. \/ w.verdict = Payload!Accepted
      \/ w.verdict \in {"depth", "nodes"}
      \/ w.verdict \in Defects /\ HasDefect(g, l, w.verdict)
  BY DEF IsWalk
<1>2. Payload!Running \notin Defects
  BY DEF Payload!Running, Defects
<1>3. CASE w.verdict = Payload!Accepted
  BY <1>3 DEF IsWalk
<1>4. CASE w.verdict \in {"depth", "nodes"}
  <2>1. ~IsSmall(g)
    BY <1>4 DEF IsWalk
  <2>2. w.verdict # Payload!Accepted
    BY <1>4 DEF Payload!Accepted
  <2> QED
    BY <2>1, <2>2
<1>5. CASE w.verdict \in Defects /\ HasDefect(g, l, w.verdict)
  <2>1. w.verdict # Payload!Accepted
    BY <1>5 DEF Payload!Accepted, Defects
  <2>2. ~IsSound(l, g)
    BY <1>2, <1>5 DEF HasDefect, IsSound
  <2> QED
    BY <1>5, <2>1, <2>2
<1> QED
  BY <1>1, <1>3, <1>4, <1>5

-----------------------------------------------------------------------------
(* The same steps in both languages. *)

\* No number that only Python tells from an integer, no index name that JavaScript moves.
IsPlain(g) ==
  \A m \in DOMAIN g :
    /\ g[m].kind # "integral"
    /\ \A i \in DOMAIN g[m].names, k \in DOMAIN IndexNames : i > 1 => g[m].names[i] # IndexNames[k]

\* The turns of a plain object ascend.
LEMMA PlainTurns ==
  ASSUME NEW g, IsGraph(g), IsPlain(g), NEW m \in DOMAIN g, g[m].kind = "object",
         NEW i \in 1 .. Len(g[m].kids)
  PROVE  Lower(Turns(g[m]), i) = 1 .. i - 1
<1> DEFINE n == g[m]
           k == Len(n.kids)
           x == Len(IndexNames)
           t == Turns(n)
           isIndex(j) == \E y \in DOMAIN IndexNames : IndexNames[y] = n.names[j]
<1>0. x \in Nat /\ DOMAIN IndexNames = 1 .. x
  BY PayloadsAre
<1>1. IsNode(n, DOMAIN g)
  BY DEF IsGraph
<1>2. k \in Nat /\ DOMAIN n.kids = 1 .. k /\ DOMAIN n.names = 1 .. k
  BY <1>1 DEF IsNode
<1>3. \A j \in 1 .. k : j > 1 => ~isIndex(j)
  BY <1>2 DEF IsPlain
<1> HIDE DEF n, k
<1>4. DOMAIN t = 1 .. k /\ \A j \in 1 .. k : t[j] = Payload!Turn(n, j)
  BY <1>2 DEF Turns
<1> HIDE DEF t
<1>5. \A j \in 1 .. k : ~isIndex(j) => t[j] = x + j
  BY <1>4 DEF Payload!Turn
<1>6. \A j \in 1 .. k : isIndex(j) => t[j] \in 1 .. x
  <2>1. ASSUME NEW j \in 1 .. k, isIndex(j) PROVE t[j] \in 1 .. x
    BY <1>0, <1>4, <2>1 DEF Payload!Turn
  <2> QED
    BY <2>1
<1> HIDE DEF isIndex
<1>7. ASSUME NEW a \in 1 .. k, NEW b \in 1 .. k, a < b PROVE t[a] < t[b]
  <2>1. t[b] = x + b
    BY <1>2, <1>3, <1>5, <1>7
  <2>2. t[a] = x + a \/ t[a] \in 1 .. x
    BY <1>5, <1>6
  <2> QED
    BY <1>0, <1>2, <1>7, <2>1, <2>2
<1>8. \A a \in 1 .. k : t[a] \in Nat
  BY <1>0, <1>2, <1>5, <1>6
<1>9. i \in 1 .. k
  BY DEF k, n
<1>10. ASSUME NEW a \in 1 .. k PROVE t[a] < t[i] <=> a < i
  <2>1. CASE a < i
    BY <1>7, <1>9, <2>1
  <2>2. CASE a = i
    BY <1>8, <1>9, <2>2
  <2>3. CASE i < a
    BY <1>7, <1>8, <1>9, <2>3
  <2> QED
    BY <1>2, <1>9, <2>1, <2>2, <2>3
<1>11. Lower(t, i) = {a \in 1 .. k : t[a] < t[i]}
  BY <1>4 DEF Lower
<1>12. Lower(t, i) = 1 .. i - 1
  <2>1. {a \in 1 .. k : t[a] < t[i]} = {a \in 1 .. k : a < i}
    BY <1>10
  <2>2. {a \in 1 .. k : a < i} = 1 .. i - 1
    BY <1>2, <1>9
  <2> QED
    BY <1>11, <2>1, <2>2
<1> QED
  BY <1>12 DEF t, n

\* The languages push the same values, and find the same defects.
LEMMA PlainKids ==
  ASSUME NEW g, IsGraph(g), IsPlain(g), NEW m \in DOMAIN g, NEW l
  PROVE  /\ Payload!Kids(l, g[m]) = g[m].kids
         /\ Payload!Defect(l, g[m]) = Payload!Defect("python", g[m])
<1> DEFINE n == g[m]
           k == Len(n.kids)
<1>1. IsNode(n, DOMAIN g) /\ n.kind # "integral"
  BY DEF IsGraph, IsPlain
<1>2. k \in Nat /\ n.kids = [j \in 1 .. k |-> n.kids[j]]
  BY <1>1 DEF IsNode
<1>3. Payload!Defect(l, n) = Payload!Defect("python", n)
  BY <1>1 DEF Payload!Defect
<1>4. CASE l = "python" \/ n.kind # "object"
  BY <1>3, <1>4 DEF Payload!Kids
<1>5. CASE l # "python" /\ n.kind = "object"
  <2>1. PICK pi : /\ IsReordered(Payload!Kids(l, n), n.kids, pi)
                  /\ \A j \in 1 .. Len(n.kids) : Cardinality(Lower(Turns(n), pi[j])) = j - 1
    BY <1>1, <1>5, PayloadsAre, KidsByTurn
  <2>2. \A j \in 1 .. k : pi[j] \in 1 .. k
    BY <2>1 DEF IsReordered, IsOrder
  <2>3. ASSUME NEW j \in 1 .. k PROVE pi[j] = j
    <3>1. pi[j] \in 1 .. k
      BY <2>2
    <3>2. Lower(Turns(n), pi[j]) = 1 .. pi[j] - 1
      BY <1>5, <3>1, PlainTurns
    <3>3. pi[j] - 1 \in Nat
      BY <3>1
    <3>4. Cardinality(1 .. pi[j] - 1) = pi[j] - 1
      BY <3>3, FS_Interval
    <3>5. pi[j] - 1 = j - 1
      BY <2>1, <3>2, <3>4
    <3> QED
      BY <1>2, <3>1, <3>5
  <2>4. DOMAIN Payload!Kids(l, n) = 1 .. k /\ \A j \in 1 .. k : Payload!Kids(l, n)[j] = n.kids[j]
    BY <2>1, <2>3 DEF IsReordered
  <2>5. Payload!Kids(l, n) = [j \in DOMAIN Payload!Kids(l, n) |-> Payload!Kids(l, n)[j]]
    BY <1>5 DEF Payload!Kids
  <2> HIDE DEF n, k
  <2>6. Payload!Kids(l, n) = n.kids
    BY <1>2, <2>4, <2>5
  <2> QED
    BY <1>3, <2>6 DEF n
<1> QED
  BY <1>4, <1>5

\* A visit of a plain payload is the same in both languages.
LEMMA PlainVisit ==
  ASSUME NEW g, IsGraph(g), IsPlain(g), NEW l, NEW w, Payload!Last(w.stack).node \in DOMAIN g
  PROVE  Visited(g, l, w) = Visited(g, "python", w)
<1> DEFINE e == Payload!Last(w.stack)
           n == g[e.node]
<1>1. /\ Payload!Kids(l, n) = n.kids /\ Payload!Kids("python", n) = n.kids
      /\ Payload!Defect(l, n) = Payload!Defect("python", n)
  BY PlainKids
<1>2. Pushed(g, l, e) = Pushed(g, "python", e)
  BY <1>1 DEF Pushed
<1>3. Payload!Limit(l, e.depth, w.nodes + 1) = Payload!Limit("python", e.depth, w.nodes + 1)
  BY DEF Payload!Limit
<1> HIDE DEF e, n
<1> QED
  BY <1>1, <1>2, <1>3 DEF Visited, e, n

\* The states of a walk, one after each visit.
IsTrace(T, g) ==
  /\ T[0] = FirstWalk
  /\ \A k \in 1 .. MaxNodes + 1 : T[k - 1].stack # << >> => T[k] = Visited(g, "python", T[k - 1])

\* There is such a trace of every payload.
LEMMA TraceExists ==
  ASSUME NEW g, IsGraph(g), MaxDepth \in Nat, MaxNodes \in Nat
  PROVE  \E T : IsTrace(T, g)
<1> DEFINE E == [node : DOMAIN g, depth : Nat]
           V == {Payload!Running, "depth", "nodes"} \cup Defects
           S == [stack : Seq(E), nodes : Nat, verdict : V]
           N == MaxNodes + 1
           step == [p \in (1 .. N) \X S |->
                      IF p[2].stack = << >> THEN p[2] ELSE Visited(g, "python", p[2])]
<1>1. FirstWalk \in S
  <2>1. [node |-> 1, depth |-> 1] \in E
    BY DEF IsGraph
  <2>2. << [node |-> 1, depth |-> 1] >> \in Seq(E)
    BY <2>1
  <2> HIDE DEF E
  <2> QED
    BY <2>2 DEF FirstWalk
<1>2. ASSUME NEW s \in S, s.stack # << >> PROVE Visited(g, "python", s) \in S
  <2> DEFINE e == Payload!Last(s.stack)
             t == Payload!Front(s.stack)
             p == Pushed(g, "python", e)
             limit == Payload!Limit("python", e.depth, s.nodes + 1)
             defect == Payload!Defect("python", g[e.node])
             outcome == IF limit # Payload!Running THEN limit ELSE defect
             stack == t \o p
  <2>1. s.stack \in Seq(E) /\ s.nodes \in Nat
    OBVIOUS
  <2>2. t \in Seq(E) /\ e \in E
    <3> HIDE DEF E
    <3> QED
      BY <1>2, <2>1, FrontIs
  <2>3. e.node \in DOMAIN g /\ e.depth \in Nat /\ e.depth + 1 \in Nat /\ s.nodes + 1 \in Nat
    BY <2>1, <2>2
  <2>4. p \in Seq(E)
    BY <2>3, PushedAre
  <2>5. limit \in V
    BY <2>3, LimitIs
  <2>6. defect \in V
    BY DefectIs
  <2> HIDE DEF E, V, e, t, p, limit, defect
  <2>7. stack \in Seq(E) /\ outcome \in V
    BY <2>2, <2>4, <2>5, <2>6
  <2>8. Visited(g, "python", s) = [nodes |-> s.nodes + 1, verdict |-> outcome, stack |-> stack]
    BY DEF Visited, e, t, p, limit, defect
  <2> HIDE DEF outcome, stack
  <2> QED
    BY <2>3, <2>7, <2>8
<1> HIDE DEF S
<1>3. step \in [(1 .. N) \X S -> S]
  BY <1>2
<1>4. \A k \in 1 .. N, s \in S : s.stack # << >> => step[<< k, s >>] = Visited(g, "python", s)
  OBVIOUS
<1> HIDE DEF step
<1>5. N \in Nat
  OBVIOUS
<1> HIDE DEF N
<1>6. PICK T : IsRecursion(T, S, FirstWalk, N, step)
  BY <1>1, <1>3, <1>5, RecursionExists
<1>7. ASSUME NEW k \in 1 .. N, T[k - 1].stack # << >>
      PROVE  T[k] = Visited(g, "python", T[k - 1])
  <2>1. k - 1 \in 0 .. N
    BY <1>5
  <2>2. T[k - 1] \in S /\ T[k] = step[<< k, T[k - 1] >>]
    BY <1>6, <2>1 DEF IsRecursion
  <2> QED
    BY <1>4, <1>7, <2>2
<1>8. T[0] = FirstWalk
  BY <1>6 DEF IsRecursion
<1> QED
  BY <1>7, <1>8 DEF IsTrace, N

\* A walk is on the trace.
IsOnTrace(T, w) ==
  /\ \A k \in 0 .. w.nodes - 1 : T[k].verdict = Payload!Running /\ T[k].stack # << >>
  /\ IF w.verdict = Payload!Accepted
     THEN T[w.nodes].verdict = Payload!Running /\ T[w.nodes].stack = << >>
     ELSE T[w.nodes].verdict = w.verdict /\ T[w.nodes].stack = w.stack /\ T[w.nodes].nodes = w.nodes

FollowsTrace(g, w) == IsPlain(g) => \A T : IsTrace(T, g) => IsOnTrace(T, w)

\* Every walk starts on the trace.
LEMMA FirstFollows ==
  ASSUME NEW g
  PROVE  FollowsTrace(g, FirstWalk)
<1> SUFFICES ASSUME NEW T, IsTrace(T, g) PROVE IsOnTrace(T, FirstWalk)
  BY DEF FollowsTrace
<1>1. T[0] = FirstWalk
  BY DEF IsTrace
<1>2. FirstWalk.nodes = 0 /\ FirstWalk.verdict = Payload!Running
  BY DEF FirstWalk
<1>3. 0 .. 0 - 1 = {} /\ Payload!Running # Payload!Accepted
  BY DEF Payload!Running, Payload!Accepted
<1> QED
  BY <1>1, <1>2, <1>3 DEF IsOnTrace

\* A visit stays on the trace.
LEMMA VisitFollows ==
  ASSUME NEW g, IsGraph(g), NEW l, NEW w, IsWalk(g, l, w), w.verdict = Payload!Running, w.stack # << >>,
         FollowsTrace(g, w), MaxDepth \in Nat, MaxNodes \in Nat
  PROVE  FollowsTrace(g, Visited(g, l, w))
<1> SUFFICES ASSUME IsPlain(g), NEW T, IsTrace(T, g) PROVE IsOnTrace(T, Visited(g, l, w))
  BY DEF FollowsTrace
<1> DEFINE v == Visited(g, l, w)
           n == w.nodes
<1>1. IsUnderWay(g, l, w) /\ n \in 0 .. MaxNodes
  BY DEF IsWalk, IsUnderWay
<1>2. n + 1 \in 1 .. MaxNodes + 1 /\ (n + 1) - 1 = n
  BY <1>1
<1>3. IsOnTrace(T, w)
  BY DEF FollowsTrace
<1>4. Payload!Running # Payload!Accepted /\ Payload!Accepted \notin {"depth", "nodes"} \cup Defects
  BY DEF Payload!Running, Payload!Accepted, Defects
<1>5. T[n].verdict = Payload!Running /\ T[n].stack = w.stack /\ T[n].nodes = n
  BY <1>3, <1>4 DEF IsOnTrace
<1>6. T[n + 1] = Visited(g, "python", T[n])
  BY <1>2, <1>5 DEF IsTrace
<1>7. Visited(g, "python", T[n]) = Visited(g, "python", w)
  BY <1>5 DEF Visited
<1>8. Payload!Last(w.stack).node \in DOMAIN g
  BY <1>1, TopIs
<1>9. T[n + 1] = v
  BY <1>6, <1>7, <1>8, PlainVisit
<1>10. v.nodes = n + 1
  BY DEF Visited
<1>11. v.verdict # Payload!Accepted
  <2>1. IsWalk(g, l, v)
    BY VisitKeeps
  <2> DEFINE e == Payload!Last(w.stack)
             limit == Payload!Limit(l, e.depth, n + 1)
             defect == Payload!Defect(l, g[e.node])
  <2>2. v.verdict = IF limit # Payload!Running THEN limit ELSE defect
    BY DEF Visited
  <2>3. defect \in {Payload!Running} \cup Defects
    BY DefectIs
  <2>4. limit \in {Payload!Running, "depth", "nodes"}
    BY DEF Payload!Limit
  <2> HIDE DEF limit, defect, v
  <2> QED
    BY <1>4, <2>2, <2>3, <2>4
<1> HIDE DEF v
<1>12. ASSUME NEW k \in 0 .. v.nodes - 1 PROVE T[k].verdict = Payload!Running /\ T[k].stack # << >>
  <2>1. k \in 0 .. n - 1 \/ k = n
    BY <1>1, <1>10
  <2> QED
    BY <1>3, <1>5, <2>1 DEF IsOnTrace
<1>13. IsOnTrace(T, v)
  BY <1>9, <1>10, <1>11, <1>12 DEF IsOnTrace
<1> QED
  BY <1>13 DEF v

\* So does the end of a walk.
LEMMA FinishFollows ==
  ASSUME NEW g, NEW w, w.verdict = Payload!Running, w.stack = << >>, FollowsTrace(g, w),
         NEW v, v.verdict = Payload!Accepted, v.nodes = w.nodes
  PROVE  FollowsTrace(g, v)
<1> SUFFICES ASSUME IsPlain(g), NEW T, IsTrace(T, g) PROVE IsOnTrace(T, v)
  BY DEF FollowsTrace
<1>1. IsOnTrace(T, w)
  BY DEF FollowsTrace
<1>2. Payload!Running # Payload!Accepted
  BY DEF Payload!Running, Payload!Accepted
<1> QED
  BY <1>1, <1>2 DEF IsOnTrace

\* Two ended walks on one trace have one verdict.
LEMMA OneVerdict ==
  ASSUME NEW T, NEW v, NEW w, IsOnTrace(T, v), IsOnTrace(T, w), v.nodes \in Nat, w.nodes \in Nat,
         v.verdict # Payload!Running, w.verdict # Payload!Running
  PROVE  v.verdict = w.verdict
<1>1. ASSUME NEW a, NEW b, IsOnTrace(T, a), IsOnTrace(T, b), a.nodes \in Nat, b.nodes \in Nat,
             a.verdict # Payload!Running, a.nodes < b.nodes
      PROVE  FALSE
  <2>1. a.nodes \in 0 .. b.nodes - 1
    BY <1>1
  <2>2. T[a.nodes].verdict = Payload!Running /\ T[a.nodes].stack # << >>
    BY <1>1, <2>1 DEF IsOnTrace
  <2> QED
    BY <1>1, <2>2 DEF IsOnTrace
<1>2. ~(v.nodes < w.nodes) /\ ~(w.nodes < v.nodes)
  BY <1>1
<1>3. v.nodes = w.nodes
  BY <1>2
<1>4. Payload!Running # Payload!Accepted
  BY DEF Payload!Running, Payload!Accepted
<1> QED
  BY <1>3, <1>4 DEF IsOnTrace

-----------------------------------------------------------------------------
(* The theorem. *)

AnyWalk(g) ==
  [stack   : Seq(AnyEntries(g)),
   nodes   : 0 .. MaxNodes + 1,
   verdict : {Payload!Running, Payload!Accepted, "depth", "nodes"} \cup Defects]

WalksAre(g, ws) ==
  /\ ws \in [Payload!Languages -> AnyWalk(g)]
  /\ \A l \in Payload!Languages : IsWalk(g, l, ws[l]) /\ FollowsTrace(g, ws[l])

\* The inductive invariant of the walks.
WalksInv ==
  /\ subject \in {"receipt", "payload"}
  /\ subject = "receipt" => walks = Payload!FirstWalks
  /\ subject = "payload" => graph \in Graphs /\ WalksAre(graph, walks)

\* A new walk in the place of one language's is again one.
LEMMA WalkReplaced ==
  ASSUME NEW g, NEW ws, WalksAre(g, ws), NEW l \in Payload!Languages, NEW v, v \in AnyWalk(g),
         IsWalk(g, l, v), FollowsTrace(g, v)
  PROVE  WalksAre(g, [ws EXCEPT ![l] = v])
  BY DEF WalksAre

\* A walk after a visit is a record of the same kind.
LEMMA WalkIsRecord ==
  ASSUME NEW g, NEW l, NEW w, w \in AnyWalk(g), w.verdict = Payload!Running, IsGraph(g),
         IsWalk(g, l, w), w.stack # << >>, MaxDepth \in Nat, MaxNodes \in Nat
  PROVE  Visited(g, l, w) \in AnyWalk(g)
<1>1. IsWalk(g, l, Visited(g, l, w))
  BY VisitKeeps
<1> DEFINE v == Visited(g, l, w)
<1>2. v = [nodes |-> v.nodes, verdict |-> v.verdict, stack |-> v.stack]
  BY DEF Visited
<1> HIDE DEF v
<1>3. /\ v.stack \in Seq(AnyEntries(g)) /\ v.nodes \in 0 .. MaxNodes + 1
      /\ v.verdict \in {Payload!Running, Payload!Accepted, "depth", "nodes"} \cup Defects
  BY <1>1 DEF IsWalk, v
<1> QED
  BY <1>2, <1>3 DEF AnyWalk, v

\* At the start of both walks.
LEMMA FirstWalksAre ==
  ASSUME NEW g, IsGraph(g), MaxDepth \in Nat, MaxNodes \in Nat
  PROVE  WalksAre(g, Payload!FirstWalks)
<1>1. ASSUME NEW l \in Payload!Languages
      PROVE  Payload!FirstWalks[l] = FirstWalk
  BY DEF Payload!FirstWalks, FirstWalk
<1>2. DOMAIN Payload!FirstWalks = Payload!Languages
  BY DEF Payload!FirstWalks
<1>3. Payload!FirstWalks = [l \in Payload!Languages |-> FirstWalk]
  BY DEF Payload!FirstWalks, FirstWalk
<1>4. IsWalk(g, "python", FirstWalk)
  BY FirstWalkIs
<1>5. FirstWalk = [stack |-> FirstWalk.stack, nodes |-> FirstWalk.nodes, verdict |-> FirstWalk.verdict]
  BY DEF FirstWalk
<1>6. FirstWalk \in AnyWalk(g)
  BY <1>4, <1>5 DEF IsWalk, AnyWalk
<1>7. \A l \in Payload!Languages : IsWalk(g, l, FirstWalk) /\ FollowsTrace(g, FirstWalk)
  BY FirstWalkIs, FirstFollows
<1> QED
  BY <1>1, <1>3, <1>6, <1>7 DEF WalksAre

\* A visit of either language keeps what is true of the walks.
LEMMA WalksVisit ==
  ASSUME WalksInv, subject = "payload", NEW l \in Payload!Languages, Payload!Visit(l)
  PROVE  WalksAre(graph, walks')
<1> DEFINE w == walks[l]
           v == Visited(graph, l, w)
<1>1. MaxDepth \in Nat /\ MaxNodes \in Nat /\ IsGraph(graph) /\ WalksAre(graph, walks)
  BY PayloadsAre DEF WalksInv
<1>2. w \in AnyWalk(graph) /\ IsWalk(graph, l, w) /\ FollowsTrace(graph, w)
  BY <1>1 DEF WalksAre
<1>3. w.verdict = Payload!Running /\ w.stack # << >>
  BY DEF Payload!Visit
<1>4. walks' = [walks EXCEPT ![l] = v]
  BY DEF Payload!Visit, Visited, Pushed
<1>5. v \in AnyWalk(graph)
  BY <1>1, <1>2, <1>3, WalkIsRecord
<1>6. IsWalk(graph, l, v) /\ FollowsTrace(graph, v)
  BY <1>1, <1>2, <1>3, VisitKeeps, VisitFollows
<1> HIDE DEF v, w
<1> QED
  BY <1>1, <1>4, <1>5, <1>6, WalkReplaced

\* So does the end of a walk.
LEMMA WalksFinish ==
  ASSUME WalksInv, subject = "payload", NEW l \in Payload!Languages, Payload!Finish(l)
  PROVE  WalksAre(graph, walks')
<1> DEFINE w == walks[l]
           v == [w EXCEPT !.verdict = Payload!Accepted]
<1>1. MaxDepth \in Nat /\ MaxNodes \in Nat /\ IsGraph(graph) /\ WalksAre(graph, walks)
  BY PayloadsAre DEF WalksInv
<1>2. w \in AnyWalk(graph) /\ IsWalk(graph, l, w) /\ FollowsTrace(graph, w)
  BY <1>1 DEF WalksAre
<1>3. w.verdict = Payload!Running /\ w.stack = << >>
  BY DEF Payload!Finish
<1>4. walks' = [walks EXCEPT ![l] = v]
  BY DEF Payload!Finish
<1>5. v.verdict = Payload!Accepted /\ v.stack = w.stack /\ v.nodes = w.nodes /\ v \in AnyWalk(graph)
  BY <1>2 DEF AnyWalk
<1> HIDE DEF v, w
<1>6. IsWalk(graph, l, v) /\ FollowsTrace(graph, v)
  BY <1>1, <1>2, <1>3, <1>5, FinishKeeps, FinishFollows
<1> QED
  BY <1>1, <1>4, <1>5, <1>6, WalkReplaced

\* In every state of every behaviour.
LEMMA WalksInvHolds == ParitySpec => []WalksInv
<1>1. ParityInit => WalksInv
  <2> SUFFICES ASSUME ParityInit PROVE WalksInv
    OBVIOUS
  <2>1. MaxDepth \in Nat /\ MaxNodes \in Nat /\ \A g \in Graphs : IsGraph(g)
    BY PayloadsAre
  <2>2. ASSUME graph \in Graphs PROVE WalksAre(graph, Payload!FirstWalks)
    BY <2>1, <2>2, FirstWalksAre
  <2> QED
    BY <2>2 DEF ParityInit, WalksInv
<1>2. WalksInv /\ [ParityNext]_parityVars => WalksInv'
  <2> SUFFICES ASSUME WalksInv, [ParityNext]_parityVars PROVE WalksInv'
    OBVIOUS
  <2>1. CASE UNCHANGED << subject, payloadVars >>
    BY <2>1 DEF WalksInv, payloadVars
  <2>2. CASE Walk
    <3>1. subject = "payload" /\ subject' = subject /\ graph' = graph
      BY <2>2 DEF Walk, Payload!Next, Payload!Visit, Payload!Finish
    <3>2. \E l \in Payload!Languages : Payload!Visit(l) \/ Payload!Finish(l)
      BY <2>2 DEF Walk, Payload!Next, Payload!Languages
    <3>3. WalksAre(graph, walks')
      BY <3>1, <3>2, WalksVisit, WalksFinish
    <3> QED
      BY <3>1, <3>3 DEF WalksInv
  <2>3. CASE UNCHANGED parityVars
    BY <2>1, <2>3 DEF parityVars
  <2> QED
    BY <2>1, <2>2, <2>3 DEF ParityNext, PythonAnswers, TypeScriptAnswers
<1> QED
  BY <1>1, <1>2, PTL DEF ParitySpec

-----------------------------------------------------------------------------
\* What CanonicalTree says of its payload, said of any.
LEMMA SmallAndSound ==
  /\ Payload!IsSmallTree(1) <=> IsSmall(graph)
  /\ \A l : Payload!Sound(l, 1) <=> IsSound(l, graph)
  BY LevelsOfGraph DEF Payload!IsSmallTree, IsSmall, Payload!Sound, IsSound

\* Where a receipt is given, no walk has begun.
LEMMA WalksOfReceipt ==
  ASSUME walks = Payload!FirstWalks, MaxNodes \in Nat, MaxDepth \in Nat
  PROVE  TreesAreSound
<1>1. \A l \in Payload!Languages : walks[l] = FirstWalk
  BY DEF Payload!FirstWalks, FirstWalk
<1>2. /\ FirstWalk.nodes = 0 /\ FirstWalk.verdict = Payload!Running
      /\ DOMAIN FirstWalk.stack = {1} /\ FirstWalk.stack[1].depth = 1
  BY DEF FirstWalk
<1>3. "python" \in Payload!Languages /\ \A l \in Payload!Languages : ~Payload!Ended(l)
  BY <1>1, <1>2 DEF Payload!Ended, Payload!Languages
<1>4. Payload!WorkIsBounded
  BY <1>1, <1>2 DEF Payload!WorkIsBounded
<1>5. Payload!AcceptsExactlySmallTrees /\ Payload!SameTrees /\ Payload!SameReason
  BY <1>3 DEF Payload!AcceptsExactlySmallTrees, Payload!SameTrees, Payload!SameReason
<1> QED
  BY <1>4, <1>5 DEF TreesAreSound

\* The work of a walk is bounded.
LEMMA WalksAreBounded ==
  ASSUME WalksAre(graph, walks), MaxNodes \in Nat, MaxDepth \in Nat
  PROVE  Payload!WorkIsBounded
<1> SUFFICES ASSUME NEW l \in Payload!Languages
             PROVE  /\ walks[l].verdict \in {Payload!Running, Payload!Accepted, "depth", "nodes",
                                          "number", "unsafe", "surrogate"}
                    /\ walks[l].nodes <= MaxNodes + 1
                    /\ \A i \in DOMAIN walks[l].stack : walks[l].stack[i].depth <= MaxDepth + 2
  BY DEF Payload!WorkIsBounded
<1>1. /\ walks[l].verdict \in {Payload!Running, Payload!Accepted, "depth", "nodes"} \cup Defects
      /\ walks[l].nodes \in 0 .. MaxNodes + 1
      /\ walks[l].stack \in Seq(AnyEntries(graph))
  BY DEF WalksAre, IsWalk
<1>2. \A i \in DOMAIN walks[l].stack : walks[l].stack[i] \in AnyEntries(graph)
  BY <1>1
<1>3. \A e \in AnyEntries(graph) : e.depth <= MaxDepth + 2
  BY DEF AnyEntries
<1> QED
  BY <1>1, <1>2, <1>3 DEF Defects

\* A payload that is small, but refused by one language only, has what only Python refuses.
LEMMA RefusedByOne ==
  ASSUME NEW g, IsGraph(g), MaxDepth \in Nat,
         NEW v, NEW w, IsWalk(g, "python", v), IsWalk(g, "typescript", w),
         v.verdict # Payload!Running, w.verdict # Payload!Running,
         ~(v.verdict = Payload!Accepted <=> w.verdict = Payload!Accepted)
  PROVE  v.verdict = "number" /\ \E m \in DOMAIN g : g[m].kind = "integral"
<1> DEFINE s == Payload!FlattenSeq(LevelsOf(g))
           D == MaxDepth + 1
           S == DOMAIN g
           level == LevelsOf(g)
<1>1. /\ v.verdict = Payload!Accepted <=> IsSmall(g) /\ IsSound("python", g)
      /\ IsSmall(g) /\ v.verdict # Payload!Accepted
           => HasDefect(g, "python", v.verdict) /\ v.verdict \in Defects
      /\ w.verdict = Payload!Accepted <=> IsSmall(g) /\ IsSound("typescript", g)
  BY EndedWalkIs
<1>2. \A n : Payload!Defect("python", n) = Payload!Running
               => Payload!Defect("typescript", n) = Payload!Running
  BY DEF Payload!Defect, Payload!Running
<1>3. \A n : /\ Payload!Defect("python", n) # Payload!Running
             /\ Payload!Defect("typescript", n) = Payload!Running
             => Payload!Defect("python", n) = "number" /\ n.kind = "integral"
  BY DEF Payload!Defect, Payload!Running
<1>4. IsSound("python", g) => IsSound("typescript", g)
  BY <1>2 DEF IsSound
<1>5. IsSmall(g) /\ IsSound("typescript", g) /\ HasDefect(g, "python", v.verdict) /\ v.verdict \in Defects
  BY <1>1, <1>4
<1>6. PICK i \in DOMAIN s : Payload!Defect("python", g[s[i]]) = v.verdict
  BY <1>5 DEF HasDefect
<1>7. v.verdict # Payload!Running /\ Payload!Defect("typescript", g[s[i]]) = Payload!Running
  BY <1>5, <1>6 DEF IsSound
<1>8. v.verdict = "number" /\ g[s[i]].kind = "integral"
  BY <1>3, <1>6, <1>7
<1>9. s[i] \in S
  <2>1. level \in [1 .. D -> Seq(S)] /\ D \in Nat
    BY LevelsAre, LevelsAreSequence
  <2> HIDE DEF level, D, S
  <2>2. PICK f : IsFlattening(f, S, D, level) /\ Payload!FlattenSeq(level) = f[D]
    BY <2>1, FlattenIs
  <2>3. s \in Seq(S)
    BY <2>1, <2>2 DEF IsFlattening, level
  <2> HIDE DEF s
  <2> QED
    BY <2>3
<1> QED
  BY <1>8, <1>9

\* What is true of the walks makes the trees sound.
LEMMA WalksOfPayload ==
  ASSUME WalksAre(graph, walks), IsGraph(graph), MaxNodes \in Nat, MaxDepth \in Nat
  PROVE  TreesAreSound
<1>1. "python" \in Payload!Languages /\ "typescript" \in Payload!Languages
  BY DEF Payload!Languages
<1>2. \A l \in Payload!Languages : IsWalk(graph, l, walks[l]) /\ FollowsTrace(graph, walks[l])
  BY DEF WalksAre
<1>3. Payload!WorkIsBounded
  BY WalksAreBounded
<1>4. Payload!AcceptsExactlySmallTrees
  <2>1. ASSUME NEW l \in Payload!Languages, Payload!Ended(l)
        PROVE  (walks[l].verdict = Payload!Accepted) = (Payload!IsSmallTree(1) /\ Payload!Sound(l, 1))
    <3>1. walks[l].verdict # Payload!Running
      BY <2>1 DEF Payload!Ended
    <3>2. walks[l].verdict = Payload!Accepted <=> IsSmall(graph) /\ IsSound(l, graph)
      BY <1>2, <3>1, EndedWalkIs
    <3>3. Payload!IsSmallTree(1) /\ Payload!Sound(l, 1) <=> IsSmall(graph) /\ IsSound(l, graph)
      BY SmallAndSound
    <3>4. Payload!IsSmallTree(1) \in BOOLEAN /\ Payload!Sound(l, 1) \in BOOLEAN
      BY DEF Payload!IsSmallTree, Payload!Sound
    <3> QED
      BY <3>2, <3>3, <3>4
  <2> QED
    BY <2>1 DEF Payload!AcceptsExactlySmallTrees
<1>5. Payload!SameTrees
  <2> SUFFICES ASSUME \A l \in Payload!Languages : Payload!Ended(l),
                      ~(walks["python"].verdict = Payload!Accepted
                          <=> walks["typescript"].verdict = Payload!Accepted)
               PROVE  walks["python"].verdict = "number" /\ \E m \in DOMAIN graph : graph[m].kind = "integral"
    BY DEF Payload!SameTrees
  <2>1. walks["python"].verdict # Payload!Running /\ walks["typescript"].verdict # Payload!Running
    BY <1>1 DEF Payload!Ended
  <2> QED
    BY <1>1, <1>2, <2>1, RefusedByOne
<1>6. Payload!SameReason
  <2> SUFFICES ASSUME \A l \in Payload!Languages : Payload!Ended(l), IsPlain(graph)
               PROVE  walks["python"].verdict = walks["typescript"].verdict
    BY DEF Payload!SameReason, IsPlain
  <2>1. walks["python"].verdict # Payload!Running /\ walks["typescript"].verdict # Payload!Running
    BY <1>1 DEF Payload!Ended
  <2>2. PICK T : IsTrace(T, graph)
    BY TraceExists
  <2>3. IsOnTrace(T, walks["python"]) /\ IsOnTrace(T, walks["typescript"])
    BY <1>1, <1>2, <2>2 DEF FollowsTrace
  <2>4. \A n \in 0 .. MaxNodes + 1 : n \in Nat
    OBVIOUS
  <2>5. walks["python"].nodes \in Nat /\ walks["typescript"].nodes \in Nat
    BY <1>1, <1>2, <2>4 DEF IsWalk
  <2> QED
    BY <2>1, <2>3, <2>5, OneVerdict
<1> QED
  BY <1>3, <1>4, <1>5, <1>6 DEF TreesAreSound

\* Both canonicalizers accept exactly the trees within the limits, the same ones and with
\* the same reason otherwise, in bounded work: payloads of any shape, limits of any size.
THEOREM TreesAreSoundAlways == ParitySpec => []TreesAreSound
<1>1. WalksInv => TreesAreSound
  BY PayloadsAre, WalksOfReceipt, WalksOfPayload DEF WalksInv
<1> QED
  BY <1>1, WalksInvHolds, PTL

-----------------------------------------------------------------------------
(* The order of names. *)

\* A sequence of numbers as a function: a number more than each, and zero after the last.
Continued(s) == [i \in Nat \ {0} |-> IF i \in DOMAIN s THEN s[i] + 1 ELSE 0]

\* Where f is less than g for the first time.
FirstLess(f, g, i) == f[i] < g[i] /\ \A j \in 1 .. i - 1 : f[j] = g[j]

\* It is a function of numbers.
LEMMA PaddedIs ==
  ASSUME NEW s \in Seq(Nat), NEW i \in Nat \ {0}
  PROVE  /\ Continued(s)[i] \in Nat
         /\ i <= Len(s) => Continued(s)[i] = s[i] + 1 /\ Continued(s)[i] > 0 /\ s[i] \in Nat
         /\ i > Len(s) => Continued(s)[i] = 0
<1>1. Len(s) \in Nat /\ DOMAIN s = 1 .. Len(s) /\ \A j \in 1 .. Len(s) : s[j] \in Nat
  OBVIOUS
<1>2. Continued(s)[i] = IF i \in DOMAIN s THEN s[i] + 1 ELSE 0
  BY DEF Continued
<1> QED
  BY <1>1, <1>2

\* Nothing is lost by that.
LEMMA PaddedTells ==
  ASSUME NEW s \in Seq(Nat), NEW t \in Seq(Nat), \A i \in Nat \ {0} : Continued(s)[i] = Continued(t)[i]
  PROVE  s = t
<1>1. Len(s) \in Nat /\ Len(t) \in Nat
  OBVIOUS
<1>2. ~(Len(s) < Len(t)) /\ ~(Len(t) < Len(s))
  <2>1. ASSUME NEW u \in Seq(Nat), NEW v \in Seq(Nat), Len(u) < Len(v),
               \A i \in Nat \ {0} : Continued(u)[i] = Continued(v)[i]
        PROVE  FALSE
    <3>1. Len(v) \in Nat \ {0} /\ Len(v) > Len(u) /\ Len(v) <= Len(v)
      BY <2>1
    <3>2. Continued(u)[Len(v)] = 0 /\ Continued(v)[Len(v)] > 0
      BY <3>1, PaddedIs
    <3> QED
      BY <2>1, <3>1, <3>2
  <2> QED
    BY <2>1
<1>3. Len(s) = Len(t)
  BY <1>1, <1>2
<1>4. ASSUME NEW i \in 1 .. Len(s) PROVE s[i] = t[i]
  <2>1. i \in Nat \ {0} /\ i <= Len(s) /\ i <= Len(t)
    BY <1>3
  <2>2. Continued(s)[i] = s[i] + 1 /\ Continued(t)[i] = t[i] + 1 /\ s[i] \in Nat /\ t[i] \in Nat
    BY <2>1, PaddedIs
  <2> QED
    BY <2>1, <2>2
<1> QED
  BY <1>3, <1>4

\* LexicallyBefore is to be less at the first difference.
LEMMA LexicallyBeforeIs ==
  ASSUME NEW s \in Seq(Nat), NEW t \in Seq(Nat)
  PROVE  Payload!LexicallyBefore(s, t) <=> \E i \in Nat \ {0} : FirstLess(Continued(s), Continued(t), i)
<1>1. Len(s) \in Nat /\ Len(t) \in Nat /\ DOMAIN s = 1 .. Len(s) /\ DOMAIN t = 1 .. Len(t)
  OBVIOUS
<1>2. Payload!IsStrictPrefix(s, t) <=> Len(s) < Len(t) /\ \A j \in 1 .. Len(s) : s[j] = t[j]
  <2> DEFINE equal == SubSeq(s, 1, Len(s)) = SubSeq(t, 1, Len(s))
             same == \A j \in 1 .. Len(s) : s[j] = t[j]
             m == Len(s)
             n == Len(t)
  <2>1. ASSUME m <= n
        PROVE  equal <=> same
    <3>1. /\ SubSeq(s, 1, Len(s)) = [j \in 1 .. Len(s) |-> s[j]]
          /\ SubSeq(t, 1, Len(s)) = [j \in 1 .. Len(s) |-> t[j]]
      BY <1>1, <2>1
    <3> QED
      BY <3>1
  <2>2. m = n /\ same => s = t
    OBVIOUS
  <2>3. Payload!IsStrictPrefix(s, t) <=> m <= n /\ equal /\ s # t
    BY DEF Payload!IsStrictPrefix, Payload!IsPrefix
  <2>4. m < n => s # t
    BY <1>1
  <2>5. m \in Nat /\ n \in Nat
    BY <1>1
  <2> HIDE DEF equal, same, m, n
  <2>6. Payload!IsStrictPrefix(s, t) <=> m < n /\ same
    BY <2>1, <2>2, <2>3, <2>4, <2>5
  <2> QED
    BY <2>6 DEF same, m, n
<1>3. Payload!LexicallyBefore(s, t) <=>
        \/ Len(s) < Len(t) /\ \A j \in 1 .. Len(s) : s[j] = t[j]
        \/ \E i \in 1 .. Len(s) : i <= Len(t) /\ s[i] < t[i] /\ \A j \in 1 .. i - 1 : s[j] = t[j]
  <2>1. \A i : i \in DOMAIN s \cap DOMAIN t <=> i \in 1 .. Len(s) /\ i <= Len(t)
    BY <1>1
  <2>2. Payload!LexicallyBefore(s, t) <=>
          \/ Payload!IsStrictPrefix(s, t)
          \/ \E i \in DOMAIN s \cap DOMAIN t : s[i] < t[i] /\ \A j \in 1 .. i - 1 : s[j] = t[j]
    BY DEF Payload!LexicallyBefore
  <2> QED
    BY <1>2, <2>1, <2>2, Zenon
<1>4. ASSUME Payload!LexicallyBefore(s, t) PROVE \E i \in Nat \ {0} : FirstLess(Continued(s), Continued(t), i)
  <2>1. CASE Len(s) < Len(t) /\ \A j \in 1 .. Len(s) : s[j] = t[j]
    <3> DEFINE i == Len(s) + 1
    <3>1. i \in Nat \ {0} /\ i > Len(s) /\ i <= Len(t) /\ i - 1 = Len(s)
      BY <1>1, <2>1
    <3>2. Continued(s)[i] = 0 /\ Continued(t)[i] > 0
      BY <3>1, PaddedIs
    <3>3. ASSUME NEW j \in 1 .. i - 1 PROVE Continued(s)[j] = Continued(t)[j]
      <4>1. j \in Nat \ {0} /\ j <= Len(s) /\ j <= Len(t) /\ s[j] = t[j]
        BY <1>1, <2>1, <3>1
      <4> QED
        BY <4>1, PaddedIs
    <3> HIDE DEF i
    <3> QED
      BY <3>1, <3>2, <3>3 DEF FirstLess
  <2>2. CASE \E i \in 1 .. Len(s) : i <= Len(t) /\ s[i] < t[i] /\ \A j \in 1 .. i - 1 : s[j] = t[j]
    <3>1. PICK i \in 1 .. Len(s) : i <= Len(t) /\ s[i] < t[i] /\ \A j \in 1 .. i - 1 : s[j] = t[j]
      BY <2>2
    <3>2. ASSUME NEW j \in 1 .. i
          PROVE  /\ j \in Nat \ {0}
                 /\ Continued(s)[j] = s[j] + 1 /\ Continued(t)[j] = t[j] + 1 /\ s[j] \in Nat /\ t[j] \in Nat
      <4>1. j \in Nat \ {0} /\ j <= Len(s) /\ j <= Len(t)
        BY <1>1, <3>1
      <4> QED
        BY <4>1, PaddedIs
    <3>3. i \in Nat \ {0} /\ i \in 1 .. i
      BY <1>1
    <3>4. Continued(s)[i] < Continued(t)[i]
      BY <3>1, <3>2, <3>3
    <3>5. \A j \in 1 .. i - 1 : j \in 1 .. i
      BY <3>3
    <3>6. \A j \in 1 .. i - 1 : Continued(s)[j] = Continued(t)[j]
      BY <3>1, <3>2, <3>5
    <3> QED
      BY <3>3, <3>4, <3>6 DEF FirstLess
  <2> QED
    BY <1>3, <1>4, <2>1, <2>2
<1>5. ASSUME NEW i \in Nat \ {0}, FirstLess(Continued(s), Continued(t), i) PROVE Payload!LexicallyBefore(s, t)
  <2>1. Continued(s)[i] < Continued(t)[i] /\ \A j \in 1 .. i - 1 : Continued(s)[j] = Continued(t)[j]
    BY <1>5 DEF FirstLess
  <2>2. i <= Len(t)
    <3>1. Continued(s)[i] \in Nat /\ (i > Len(t) => Continued(t)[i] = 0)
      BY PaddedIs
    <3> QED
      BY <1>1, <2>1, <3>1
  <2>3. ASSUME NEW j \in 1 .. i - 1, j <= Len(s) PROVE s[j] = t[j]
    <3>1. j \in Nat \ {0} /\ j <= Len(t)
      BY <1>1, <2>2
    <3>2. Continued(s)[j] = s[j] + 1 /\ Continued(t)[j] = t[j] + 1 /\ s[j] \in Nat /\ t[j] \in Nat
      BY <2>3, <3>1, PaddedIs
    <3> QED
      BY <2>1, <3>2, SMTT(25)
  <2>4. CASE i <= Len(s)
    <3>1. i \in 1 .. Len(s) /\ \A j \in 1 .. i - 1 : j <= Len(s)
      BY <1>1, <2>4
    <3>2. Continued(s)[i] = s[i] + 1 /\ Continued(t)[i] = t[i] + 1 /\ s[i] \in Nat /\ t[i] \in Nat
      BY <2>2, <2>4, PaddedIs
    <3>3. s[i] < t[i]
      BY <2>1, <3>2
    <3>4. \A j \in 1 .. i - 1 : s[j] = t[j]
      BY <2>3, <3>1
    <3> QED
      BY <1>3, <2>2, <3>1, <3>3, <3>4
  <2>5. CASE Len(s) < i
    <3>1. Len(s) < Len(t) /\ \A j \in 1 .. Len(s) : j \in 1 .. i - 1 /\ j <= Len(s)
      BY <1>1, <2>2, <2>5
    <3> QED
      BY <1>3, <2>3, <3>1
  <2> QED
    BY <1>1, <2>4, <2>5
<1> QED
  BY <1>4, <1>5

\* It is a strict order of all sequences.
LEMMA LexicallyBeforeOrders ==
  ASSUME NEW s \in Seq(Nat), NEW t \in Seq(Nat), NEW u \in Seq(Nat)
  PROVE  /\ ~Payload!LexicallyBefore(s, s)
         /\ Payload!LexicallyBefore(s, t) /\ Payload!LexicallyBefore(t, u) => Payload!LexicallyBefore(s, u)
         /\ s # t => Payload!LexicallyBefore(s, t) \/ Payload!LexicallyBefore(t, s)
<1>0. \A i \in Nat \ {0} : Continued(s)[i] \in Nat /\ Continued(t)[i] \in Nat /\ Continued(u)[i] \in Nat
  BY PaddedIs
<1>1. ~Payload!LexicallyBefore(s, s)
  <2>1. ASSUME NEW i \in Nat \ {0}, FirstLess(Continued(s), Continued(s), i) PROVE FALSE
    BY <1>0, <2>1 DEF FirstLess
  <2> QED
    BY <2>1, LexicallyBeforeIs
<1>2. ASSUME Payload!LexicallyBefore(s, t), Payload!LexicallyBefore(t, u) PROVE Payload!LexicallyBefore(s, u)
  <2>1. PICK i \in Nat \ {0} : FirstLess(Continued(s), Continued(t), i)
    BY <1>2, LexicallyBeforeIs
  <2>2. PICK j \in Nat \ {0} : FirstLess(Continued(t), Continued(u), j)
    BY <1>2, LexicallyBeforeIs
  <2>3. \E k \in Nat \ {0} : FirstLess(Continued(s), Continued(u), k)
    <3> DEFINE f == Continued(s)
               g == Continued(t)
               h == Continued(u)
    <3>1. f[i] < g[i] /\ \A m \in 1 .. i - 1 : f[m] = g[m]
      BY <2>1 DEF FirstLess
    <3>2. g[j] < h[j] /\ \A m \in 1 .. j - 1 : g[m] = h[m]
      BY <2>2 DEF FirstLess
    <3>3. /\ f[i] \in Nat /\ g[i] \in Nat /\ h[i] \in Nat
          /\ f[j] \in Nat /\ g[j] \in Nat /\ h[j] \in Nat
      BY <1>0
    <3> HIDE DEF f, g, h
    <3>4. CASE i < j
      <4>1. i \in 1 .. j - 1 /\ \A m \in 1 .. i - 1 : m \in 1 .. j - 1
        BY <3>4
      <4>2. f[i] < h[i] /\ \A m \in 1 .. i - 1 : f[m] = h[m]
        BY <3>1, <3>2, <4>1
      <4> QED
        BY <4>2 DEF FirstLess, f, h
    <3>5. CASE j < i
      <4>1. j \in 1 .. i - 1 /\ \A m \in 1 .. j - 1 : m \in 1 .. i - 1
        BY <3>5
      <4>2. f[j] < h[j] /\ \A m \in 1 .. j - 1 : f[m] = h[m]
        BY <3>1, <3>2, <4>1
      <4> QED
        BY <4>2 DEF FirstLess, f, h
    <3>6. CASE i = j
      <4>1. f[i] < h[i] /\ \A m \in 1 .. i - 1 : f[m] = h[m]
        BY <3>1, <3>2, <3>3, <3>6
      <4> QED
        BY <4>1 DEF FirstLess, f, h
    <3>7. i < j \/ j < i \/ i = j
      OBVIOUS
    <3> QED
      BY <3>4, <3>5, <3>6, <3>7
  <2> QED
    BY <2>3, LexicallyBeforeIs
<1>3. ASSUME s # t PROVE Payload!LexicallyBefore(s, t) \/ Payload!LexicallyBefore(t, s)
  <2> DEFINE D == {i \in Nat \ {0} : Continued(s)[i] # Continued(t)[i]}
  <2>1. D \subseteq Nat /\ D # {}
    BY <1>3, PaddedTells
  <2>2. PICK i \in D : \A k \in D : i <= k
    <3> HIDE DEF D
    <3> QED
      BY <2>1, LeastNumber
  <2>3. i \in Nat \ {0} /\ Continued(s)[i] # Continued(t)[i]
    OBVIOUS
  <2>4. ASSUME NEW j \in 1 .. i - 1 PROVE Continued(s)[j] = Continued(t)[j]
    <3>1. j \in Nat \ {0} /\ ~(i <= j)
      BY <2>3
    <3> QED
      BY <2>2, <3>1
  <2>5. Continued(s)[i] < Continued(t)[i] \/ Continued(t)[i] < Continued(s)[i]
    BY <1>0, <2>3
  <2>6. FirstLess(Continued(s), Continued(t), i) \/ FirstLess(Continued(t), Continued(s), i)
    BY <2>4, <2>5 DEF FirstLess
  <2> QED
    BY <2>3, <2>6, LexicallyBeforeIs
<1> QED
  BY <1>1, <1>2, <1>3

-----------------------------------------------------------------------------
(* Sequences one after another are told apart if no piece begins another. *)

Compatible(a, b) == \A i \in DOMAIN a \cap DOMAIN b : a[i] = b[i]

\* Neither goes on where the other ends.
PrefixFree(a, b) == Compatible(a, b) => a = b

ArePrefixFree(x, m, y, n) == \A i \in 1 .. m : i <= n => PrefixFree(x[i], y[i])

\* The pieces ss one after another, up to each of them.
IsChain(f, S, n, ss) ==
  /\ n \in Nat
  /\ \A k \in 0 .. n : f[k] \in Seq(S)
  /\ f[0] = << >>
  /\ \A k \in 1 .. n : ss[k] \in Seq(S) /\ f[k] = f[k - 1] \o ss[k]

\* FlattenSeq chains.
LEMMA FlattenChains ==
  ASSUME NEW S, NEW n \in Nat, NEW ss \in [1 .. n -> Seq(S)]
  PROVE  \E f : IsChain(f, S, n, ss) /\ Payload!FlattenSeq(ss) = f[n]
<1>1. PICK f : IsFlattening(f, S, n, ss) /\ Payload!FlattenSeq(ss) = f[n]
  BY FlattenIs
<1>2. f \in [0 .. n -> Seq(S)] /\ f[0] = << >> /\ \A k \in 1 .. n : f[k] = f[k - 1] \o ss[k]
  BY <1>1 DEF IsFlattening
<1>3. (\A k \in 0 .. n : f[k] \in Seq(S)) /\ \A k \in 1 .. n : ss[k] \in Seq(S)
  BY <1>2
<1>4. IsChain(f, S, n, ss)
  BY <1>2, <1>3 DEF IsChain
<1> QED
  BY <1>1, <1>4

\* One sequence before another.
LEMMA ChainedIs ==
  ASSUME NEW S, NEW a \in Seq(S), NEW b \in Seq(S)
  PROVE  /\ a \o b \in Seq(S) /\ Len(a) \in Nat /\ Len(b) \in Nat /\ Len(a \o b) = Len(a) + Len(b)
         /\ DOMAIN a = 1 .. Len(a) /\ DOMAIN b = 1 .. Len(b) /\ DOMAIN (a \o b) = 1 .. Len(a) + Len(b)
         /\ \A i \in 1 .. Len(a) : (a \o b)[i] = a[i]
         /\ \A i \in 1 .. Len(b) : (a \o b)[Len(a) + i] = b[i]
  OBVIOUS

\* Where a piece is found in the whole.
LEMMA PieceIsAt ==
  ASSUME NEW S, NEW n, NEW ss, NEW f, IsChain(f, S, n, ss), NEW k \in 1 .. n, NEW i \in 1 .. Len(ss[k])
  PROVE  Len(f[k - 1]) + i \in 1 .. Len(f[n]) /\ f[n][Len(f[k - 1]) + i] = ss[k][i]
<1> DEFINE p == Len(f[k - 1]) + i
           J == {j \in 0 .. n - k : p \in 1 .. Len(f[k + j]) /\ f[k + j][p] = ss[k][i]}
<1>0. n \in Nat /\ n - k \in Nat
  BY DEF IsChain
<1>1. /\ \A j \in 0 .. n : f[j] \in Seq(S)
      /\ \A j \in 1 .. n : f[j] = f[j - 1] \o ss[j] /\ ss[j] \in Seq(S)
  BY DEF IsChain
<1>2. 0 \in J
  <2>1. k - 1 \in 0 .. n /\ k + 0 = k
    BY <1>0
  <2>2. f[k - 1] \in Seq(S) /\ f[k] = f[k - 1] \o ss[k] /\ ss[k] \in Seq(S)
    BY <1>1, <2>1
  <2> DEFINE a == f[k - 1]
             b == ss[k]
  <2>3. /\ Len(a) \in Nat /\ Len(b) \in Nat /\ Len(a \o b) = Len(a) + Len(b)
        /\ (a \o b)[Len(a) + i] = b[i] /\ Len(a) + i \in 1 .. Len(a) + Len(b)
    <3>1. a \in Seq(S) /\ b \in Seq(S) /\ i \in 1 .. Len(b)
      BY <2>2
    <3> HIDE DEF a, b
    <3> QED
      BY <3>1, ChainedIs
  <2>5. p \in 1 .. Len(f[k]) /\ f[k][p] = ss[k][i]
    BY <2>2, <2>3
  <2> QED
    BY <1>0, <2>1, <2>5
<1>3. ASSUME NEW j \in 0 .. (n - k) - 1, j \in J PROVE j + 1 \in J
  <2>1. j + 1 \in 0 .. n - k /\ k + j \in 0 .. n /\ k + (j + 1) \in 1 .. n /\ (k + (j + 1)) - 1 = k + j
    BY <1>0
  <2> DEFINE a == f[k + j]
             b == ss[k + (j + 1)]
             c == f[k + (j + 1)]
  <2>2. a \in Seq(S) /\ c = a \o b /\ b \in Seq(S)
    BY <1>1, <2>1
  <2>3. p \in 1 .. Len(a) /\ a[p] = ss[k][i]
    BY <1>3
  <2> HIDE DEF p, a, b, c
  <2>4. p \in 1 .. Len(a) + Len(b) /\ (a \o b)[p] = a[p] /\ Len(a \o b) = Len(a) + Len(b)
    <3>1. /\ Len(a) \in Nat /\ Len(b) \in Nat /\ Len(a \o b) = Len(a) + Len(b)
          /\ \A q \in 1 .. Len(a) : (a \o b)[q] = a[q]
      BY <2>2, ChainedIs
    <3> QED
      BY <2>3, <3>1
  <2>5. p \in 1 .. Len(c) /\ c[p] = ss[k][i]
    BY <2>2, <2>3, <2>4
  <2> QED
    BY <2>1, <2>5 DEF c
<1> HIDE DEF J
<1>5. n - k \in J
  <2>1. 0 .. n - k \subseteq J
    BY <1>0, <1>2, <1>3, NumberInduction
  <2> QED
    BY <1>0, <2>1
<1>6. k + (n - k) = n
  BY <1>0
<1> QED
  BY <1>5, <1>6 DEF J

\* What two chains share, their pieces share.
LEMMA PiecesAgree ==
  ASSUME NEW S, NEW m, NEW n, NEW x, NEW y, NEW f, NEW g, IsChain(f, S, m, x), IsChain(g, S, n, y),
         ArePrefixFree(x, m, y, n), Compatible(f[m], g[n])
  PROVE  \A i \in 1 .. m : i <= n => x[i] = y[i] /\ f[i] = g[i]
<1> DEFINE N == IF m <= n THEN m ELSE n
           K == {k \in 0 .. N : f[k] = g[k] /\ (k > 0 => x[k] = y[k])}
<1>0. m \in Nat /\ n \in Nat
  BY DEF IsChain
<1>00. N \in Nat /\ N <= m /\ N <= n /\ \A i \in 1 .. m : i <= n => i \in 0 .. N
  BY <1>0
<1>1. /\ \A j \in 0 .. m : f[j] \in Seq(S)
      /\ \A j \in 1 .. m : f[j] = f[j - 1] \o x[j] /\ x[j] \in Seq(S)
      /\ f[0] = << >>
  BY DEF IsChain
<1>2. /\ \A j \in 0 .. n : g[j] \in Seq(S)
      /\ \A j \in 1 .. n : g[j] = g[j - 1] \o y[j] /\ y[j] \in Seq(S)
      /\ g[0] = << >>
  BY DEF IsChain
<1> HIDE DEF N
<1>3. 0 \in K
  BY <1>00, <1>1, <1>2
<1>4. ASSUME NEW k \in 0 .. N - 1, k \in K PROVE k + 1 \in K
  <2> DEFINE j == k + 1
  <2>1. j \in 1 .. m /\ j \in 1 .. n /\ j - 1 = k /\ j <= n /\ j \in 0 .. N
    BY <1>0, <1>00
  <2>2. f[k] = g[k]
    BY <1>4
  <2> HIDE DEF j
  <2>3. x[j] \in Seq(S) /\ y[j] \in Seq(S) /\ f[j] = f[k] \o x[j] /\ g[j] = g[k] \o y[j]
    BY <1>1, <1>2, <2>1
  <2>4. f[m] \in Seq(S) /\ g[n] \in Seq(S)
    BY <1>0, <1>1, <1>2
  <2>5. ASSUME NEW i \in DOMAIN x[j] \cap DOMAIN y[j] PROVE x[j][i] = y[j][i]
    <3>1. i \in 1 .. Len(x[j]) /\ i \in 1 .. Len(y[j])
      BY <2>3
    <3>2. Len(f[j - 1]) + i \in 1 .. Len(f[m]) /\ f[m][Len(f[j - 1]) + i] = x[j][i]
      BY <2>1, <3>1, PieceIsAt, IsChain(f, S, m, x), SMTT(25)
    <3>3. Len(g[j - 1]) + i \in 1 .. Len(g[n]) /\ g[n][Len(g[j - 1]) + i] = y[j][i]
      BY <2>1, <3>1, PieceIsAt, IsChain(g, S, n, y), SMTT(25)
    <3>4. Len(f[j - 1]) = Len(g[j - 1])
      BY <2>1, <2>2
    <3>5. DOMAIN f[m] = 1 .. Len(f[m]) /\ DOMAIN g[n] = 1 .. Len(g[n])
      BY <2>4
    <3> QED
      BY <3>2, <3>3, <3>4, <3>5 DEF Compatible
  <2>6. x[j] = y[j]
    BY <2>1, <2>5 DEF Compatible, PrefixFree, ArePrefixFree
  <2>7. f[j] = g[j]
    BY <2>2, <2>3, <2>6
  <2> QED
    BY <2>1, <2>6, <2>7 DEF j
<1> HIDE DEF K
<1>5. 0 .. N \subseteq K
  BY <1>00, <1>3, <1>4, NumberInduction
<1> SUFFICES ASSUME NEW i \in 1 .. m, i <= n PROVE x[i] = y[i] /\ f[i] = g[i]
  OBVIOUS
<1>6. i \in 0 .. N /\ i > 0
  BY <1>00
<1>7. i \in K
  BY <1>5, <1>6
<1> QED
  BY <1>6, <1>7 DEF K

\* A piece more.
IsExtended(g, tt, f, ss, S, n, c) ==
  /\ IsChain(g, S, n + 1, tt) /\ g[n + 1] = f[n] \o c
  /\ tt[n + 1] = c /\ \A k \in 1 .. n : tt[k] = ss[k]

\* There is one more link.
LEMMA ChainExtended ==
  ASSUME NEW S, NEW n, NEW ss, NEW f, IsChain(f, S, n, ss), NEW c \in Seq(S)
  PROVE  \E g, tt : IsExtended(g, tt, f, ss, S, n, c)
<1> DEFINE g == [k \in 0 .. n + 1 |-> IF k = n + 1 THEN f[n] \o c ELSE f[k]]
           tt == [k \in 1 .. n + 1 |-> IF k = n + 1 THEN c ELSE ss[k]]
<1>1. n \in Nat /\ n + 1 \in Nat /\ n \in 0 .. n /\ n + 1 \in 1 .. n + 1 /\ n + 1 \in 0 .. n + 1
  BY DEF IsChain
<1>2. /\ \A k \in 0 .. n : f[k] \in Seq(S)
      /\ f[0] = << >>
      /\ \A k \in 1 .. n : ss[k] \in Seq(S) /\ f[k] = f[k - 1] \o ss[k]
  BY DEF IsChain
<1>3. g[n + 1] = f[n] \o c /\ tt[n + 1] = c
  BY <1>1
<1>4. \A k \in 0 .. n : g[k] = f[k]
  BY <1>1
<1>5. \A k \in 1 .. n : tt[k] = ss[k]
  BY <1>1
<1>6. f[n] \o c \in Seq(S)
  BY <1>1, <1>2
<1> HIDE DEF g, tt
<1>7. ASSUME NEW k \in 0 .. n + 1 PROVE g[k] \in Seq(S)
  <2>1. k \in 0 .. n \/ k = n + 1
    BY <1>1
  <2> QED
    BY <1>2, <1>3, <1>4, <1>6, <2>1
<1>8. ASSUME NEW k \in 1 .. n + 1 PROVE tt[k] \in Seq(S) /\ g[k] = g[k - 1] \o tt[k]
  <2>1. (k \in 1 .. n /\ k \in 0 .. n /\ k - 1 \in 0 .. n) \/ (k = n + 1 /\ k - 1 = n)
    BY <1>1
  <2> QED
    BY <1>1, <1>2, <1>3, <1>4, <1>5, <2>1
<1>9. g[0] = << >>
  BY <1>1, <1>2, <1>4
<1>10. IsChain(g, S, n + 1, tt)
  BY <1>1, <1>7, <1>8, <1>9 DEF IsChain
<1> QED
  BY <1>3, <1>5, <1>10 DEF IsExtended

AreNotEmpty(ss, n) == \A i \in 1 .. n : ss[i] # << >>

\* What is chained after a piece that is not empty is longer.
LEMMA ChainGrows ==
  ASSUME NEW S, NEW n, NEW ss, NEW f, IsChain(f, S, n, ss), AreNotEmpty(ss, n), NEW k \in 0 .. n, k < n
  PROVE  f[k] # f[n]
<1>1. n \in Nat /\ k + 1 \in 1 .. n /\ (k + 1) - 1 = k /\ k \in 0 .. n /\ n \in 0 .. n
  BY DEF IsChain
<1>2. /\ f[k] \in Seq(S) /\ f[n] \in Seq(S)
      /\ ss[k + 1] \in Seq(S) /\ ss[k + 1] # << >>
  BY <1>1 DEF IsChain, AreNotEmpty
<1>3. 1 \in 1 .. Len(ss[k + 1])
  BY <1>2
<1>4. Len(f[(k + 1) - 1]) + 1 \in 1 .. Len(f[n])
  BY <1>1, <1>3, PieceIsAt, IsChain(f, S, n, ss)
<1>5. Len(f[k]) + 1 \in 1 .. Len(f[n]) /\ Len(f[k]) \in Nat
  BY <1>1, <1>2, <1>4
<1> QED
  BY <1>5

\* Equal chains of pieces that are not empty have the same pieces.
LEMMA ChainsTell ==
  ASSUME NEW S, NEW m, NEW n, NEW x, NEW y, NEW f, NEW g, IsChain(f, S, m, x), IsChain(g, S, n, y),
         ArePrefixFree(x, m, y, n), AreNotEmpty(x, m), AreNotEmpty(y, n), f[m] = g[n]
  PROVE  m = n /\ \A i \in 1 .. m : x[i] = y[i]
<1>0. m \in Nat /\ n \in Nat /\ f[0] = << >> /\ g[0] = << >>
  BY DEF IsChain
<1>1. Compatible(f[m], g[n])
  BY DEF Compatible
<1>2. \A i \in 1 .. m : i <= n => x[i] = y[i] /\ f[i] = g[i]
  BY <1>1, PiecesAgree, IsChain(f, S, m, x), IsChain(g, S, n, y), ArePrefixFree(x, m, y, n)
<1>3. ~(m < n)
  <2> SUFFICES ASSUME m < n PROVE FALSE
    OBVIOUS
  <2>1. m \in 0 .. n
    BY <1>0
  <2>2. f[m] = g[m]
    <3>1. CASE m = 0
      BY <1>0, <3>1
    <3>2. CASE m # 0
      <4>1. m \in 1 .. m /\ m <= n
        BY <1>0, <3>2
      <4> QED
        BY <1>2, <4>1
    <3> QED
      BY <3>1, <3>2
  <2>3. g[m] # g[n]
    BY <2>1, ChainGrows, IsChain(g, S, n, y), AreNotEmpty(y, n)
  <2> QED
    BY <2>2, <2>3
<1>4. ~(n < m)
  <2> SUFFICES ASSUME n < m PROVE FALSE
    OBVIOUS
  <2>1. n \in 0 .. m
    BY <1>0
  <2>2. f[n] = g[n]
    <3>1. CASE n = 0
      BY <1>0, <3>1
    <3>2. CASE n # 0
      <4>1. n \in 1 .. m /\ n <= n
        BY <1>0, <3>2
      <4> QED
        BY <1>2, <4>1
    <3> QED
      BY <3>1, <3>2
  <2>3. f[n] # f[m]
    BY <2>1, ChainGrows, IsChain(f, S, m, x), AreNotEmpty(x, m)
  <2> QED
    BY <2>2, <2>3
<1>5. m = n
  BY <1>0, <1>3, <1>4
<1>6. ASSUME NEW i \in 1 .. m PROVE x[i] = y[i]
  <2>1. i <= n
    BY <1>0, <1>5
  <2> QED
    BY <1>2, <2>1
<1> QED
  BY <1>5, <1>6

\* Prefix-free after the same beginning.
LEMMA SameBeginning ==
  ASSUME NEW S, NEW h \in Seq(S), NEW a \in Seq(S), NEW b \in Seq(S), Compatible(h \o a, h \o b)
  PROVE  Compatible(a, b)
<1> SUFFICES ASSUME NEW i \in DOMAIN a \cap DOMAIN b PROVE a[i] = b[i]
  BY DEF Compatible
<1> DEFINE p == h \o a
           q == h \o b
           j == Len(h) + i
<1>1. i \in 1 .. Len(a) /\ i \in 1 .. Len(b) /\ Len(h) \in Nat /\ Len(a) \in Nat /\ Len(b) \in Nat
  OBVIOUS
<1>2. DOMAIN p = 1 .. Len(h) + Len(a) /\ p[j] = a[i]
  BY <1>1, ChainedIs
<1>3. DOMAIN q = 1 .. Len(h) + Len(b) /\ q[j] = b[i]
  BY <1>1, ChainedIs
<1>4. j \in 1 .. Len(h) + Len(a) /\ j \in 1 .. Len(h) + Len(b)
  BY <1>1
<1> HIDE DEF p, q, j
<1>5. j \in DOMAIN p \cap DOMAIN q
  BY <1>2, <1>3, <1>4
<1>6. p[j] = q[j]
  BY <1>5 DEF Compatible, p, q
<1> QED
  BY <1>2, <1>3, <1>6

\* Sequences with different first elements share nothing.
LEMMA FirstDiffers ==
  ASSUME NEW S, NEW a \in Seq(S), NEW b \in Seq(S), a # << >>, b # << >>, a[1] # b[1]
  PROVE  ~Compatible(a, b)
<1>1. 1 \in DOMAIN a /\ 1 \in DOMAIN b
  OBVIOUS
<1> QED
  BY <1>1 DEF Compatible

-----------------------------------------------------------------------------
(* UTF-16. *)

\* What a scalar value beyond the basic plane is written with.
High(n) == 55296 + (n - 65536) \div 1024
Low(n)  == 56320 + ((n - 65536) % 1024)

IsBasic(n)     == n < 65536
IsSurrogate(n) == n \in 55296 .. 57343

\* They are surrogates, and nothing is lost.
LEMMA SurrogatesAre ==
  ASSUME NEW n, Payload!IsScalarValue(n), ~IsBasic(n), NEW k, Payload!IsScalarValue(k), ~IsBasic(k)
  PROVE  /\ High(n) \in Nat /\ Low(n) \in Nat /\ IsSurrogate(High(n))
         /\ High(n) = High(k) /\ Low(n) = Low(k) => n = k
<1> DEFINE p == n - 65536
           q == k - 65536
<1>1. /\ n \in Nat /\ n \div 65536 <= 16 /\ n >= 65536
      /\ k \in Nat /\ k \div 65536 <= 16 /\ k >= 65536
  BY SMT DEF Payload!IsScalarValue, IsBasic
<1>2. p \in Nat /\ p \div 65536 <= 15 /\ n = p + 65536 /\ q \in Nat /\ k = q + 65536
  BY <1>1, SMT
<1>3. /\ High(n) = 55296 + p \div 1024 /\ Low(n) = 56320 + (p % 1024)
      /\ High(k) = 55296 + q \div 1024 /\ Low(k) = 56320 + (q % 1024)
  BY SMT DEF High, Low
<1> HIDE DEF p, q
<1>4. p \div 1024 \in 0 .. 1023 /\ p % 1024 \in 0 .. 1023 /\ q \div 1024 \in Nat /\ q % 1024 \in Nat
  BY <1>2, SMT
<1>5. High(n) \in 55296 .. 56319 /\ High(n) \in Nat /\ Low(n) \in Nat
  <2> DEFINE u == p \div 1024
             v == p % 1024
  <2>1. u \in 0 .. 1023 /\ v \in 0 .. 1023 /\ High(n) = 55296 + u /\ Low(n) = 56320 + v
    BY <1>3, <1>4, SMT
  <2> HIDE DEF u, v
  <2> QED
    BY <2>1, SMT
<1>6. IsSurrogate(High(n))
  BY <1>5, SMT DEF IsSurrogate
<1>7. ASSUME High(n) = High(k), Low(n) = Low(k) PROVE n = k
  <2>1. p \div 1024 = q \div 1024 /\ p % 1024 = q % 1024
    BY <1>3, <1>4, <1>7, SMTT(25)
  <2>2. p = 1024 * (p \div 1024) + (p % 1024) /\ q = 1024 * (q \div 1024) + (q % 1024)
    BY <1>2, SMT
  <2>3. p = q
    BY <2>1, <2>2, SMT
  <2> QED
    BY <1>2, <2>3, SMT
<1> QED
  BY <1>5, <1>6, <1>7

\* A scalar value is one unit, itself and no surrogate, or two.
LEMMA OneOrTwo ==
  ASSUME NEW n, Payload!IsScalarValue(n)
  PROVE  /\ n \in Nat /\ ~IsSurrogate(n)
         /\ IsBasic(n) => Payload!Units(n) = << n >>
         /\ ~IsBasic(n) => Payload!Units(n) = << High(n), Low(n) >>
<1>1. n \in Nat /\ ~IsSurrogate(n)
  BY SMT DEF Payload!IsScalarValue, IsSurrogate
<1>2. Payload!Units(n) = IF n < 65536 THEN << n >> ELSE << High(n), Low(n) >>
  BY SMT DEF Payload!Units, High, Low
<1>3. IsBasic(n) => Payload!Units(n) = << n >>
  BY <1>2, SMT DEF IsBasic
<1>4. ~IsBasic(n) => Payload!Units(n) = << High(n), Low(n) >>
  BY <1>2, SMT DEF IsBasic
<1> QED
  BY <1>1, <1>3, <1>4

\* Units of scalar values do not go on where others end.
LEMMA UnitsAre ==
  ASSUME NEW c, Payload!IsScalarValue(c), NEW d, Payload!IsScalarValue(d)
  PROVE  /\ Payload!Units(c) \in Seq(Nat) /\ Payload!Units(c) # << >>
         /\ PrefixFree(Payload!Units(c), Payload!Units(d))
         /\ Payload!Units(c) = Payload!Units(d) => c = d
<1> DEFINE x == Payload!Units(c)
           y == Payload!Units(d)
<1>4. /\ c \in Nat /\ ~IsSurrogate(c)
      /\ IsBasic(c) => x = << c >>
      /\ ~IsBasic(c) => x = << High(c), Low(c) >> /\ High(c) \in Nat /\ Low(c) \in Nat /\ IsSurrogate(High(c))
  BY OneOrTwo, SurrogatesAre
<1>5. /\ d \in Nat /\ ~IsSurrogate(d)
      /\ IsBasic(d) => y = << d >>
      /\ ~IsBasic(d) => y = << High(d), Low(d) >> /\ High(d) \in Nat /\ Low(d) \in Nat /\ IsSurrogate(High(d))
  BY OneOrTwo, SurrogatesAre
<1>6. ~IsBasic(c) /\ ~IsBasic(d) /\ High(c) = High(d) /\ Low(c) = Low(d) => c = d
  BY SurrogatesAre
<1> HIDE DEF x, y
<1>7. x \in Seq(Nat) /\ x # << >> 
  <2>1. CASE IsBasic(c)
    <3>1. x = << c >> /\ c \in Nat
      BY <1>4, <2>1
    <3> QED
      BY <3>1
  <2>2. CASE ~IsBasic(c)
    <3>1. High(c) \in Nat /\ Low(c) \in Nat /\ x = << High(c), Low(c) >>
      BY <1>4, <2>2
    <3> QED
      BY <3>1
  <2> QED
    BY <2>1, <2>2
<1>8. Compatible(x, y) => x = y
  <2> SUFFICES ASSUME Compatible(x, y) PROVE x = y
    OBVIOUS
  <2>1. CASE IsBasic(c) /\ IsBasic(d)
    <3>1. x = << c >> /\ y = << d >> /\ 1 \in DOMAIN x \cap DOMAIN y
      BY <1>4, <1>5, <2>1
    <3>2. x[1] = y[1]
      BY <3>1 DEF Compatible
    <3> QED
      BY <3>1, <3>2
  <2>2. CASE IsBasic(c) /\ ~IsBasic(d)
    <3>1. x = << c >> /\ y = << High(d), Low(d) >> /\ 1 \in DOMAIN x \cap DOMAIN y
      BY <1>4, <1>5, <2>2
    <3>2. x[1] = y[1]
      BY <3>1 DEF Compatible
    <3>3. c = High(d)
      BY <3>1, <3>2
    <3> QED
      BY <1>4, <1>5, <2>2, <3>3
  <2>3. CASE ~IsBasic(c) /\ IsBasic(d)
    <3>1. y = << d >> /\ x = << High(c), Low(c) >> /\ 1 \in DOMAIN x \cap DOMAIN y
      BY <1>4, <1>5, <2>3
    <3>2. x[1] = y[1]
      BY <3>1 DEF Compatible
    <3>3. d = High(c)
      BY <3>1, <3>2
    <3> QED
      BY <1>4, <1>5, <2>3, <3>3
  <2>4. CASE ~IsBasic(c) /\ ~IsBasic(d)
    <3>1. x = << High(c), Low(c) >> /\ y = << High(d), Low(d) >>
      BY <1>4, <1>5, <2>4
    <3>2. 1 \in DOMAIN x \cap DOMAIN y /\ 2 \in DOMAIN x \cap DOMAIN y
      BY <3>1
    <3>3. x[1] = y[1] /\ x[2] = y[2]
      BY <3>2 DEF Compatible
    <3> QED
      BY <3>1, <3>3
  <2> QED
    BY <2>1, <2>2, <2>3, <2>4
<1>9. x = y => c = d
  <2> SUFFICES ASSUME x = y PROVE c = d
    OBVIOUS
  <2>1. CASE IsBasic(c) /\ IsBasic(d)
    BY <1>4, <1>5, <2>1
  <2>2. CASE IsBasic(c) /\ ~IsBasic(d)
    BY <1>4, <1>5, <2>2
  <2>3. CASE ~IsBasic(c) /\ IsBasic(d)
    BY <1>4, <1>5, <2>3
  <2>4. CASE ~IsBasic(c) /\ ~IsBasic(d)
    <3>1. High(c) = High(d) /\ Low(c) = Low(d)
      BY <1>4, <1>5, <2>4
    <3> QED
      BY <1>6, <2>4, <3>1
  <2> QED
    BY <2>1, <2>2, <2>3, <2>4
<1> QED
  BY <1>7, <1>8, <1>9 DEF x, y, PrefixFree

\* Names are sequences of scalar values, told apart by them.
LEMMA NamesAre ==
  ASSUME NEW a \in DOMAIN CodePoints, NEW b \in DOMAIN CodePoints
  PROVE  /\ CodePoints[a] \in Seq(Nat)
         /\ \A i \in DOMAIN CodePoints[a] : Payload!IsScalarValue(CodePoints[a][i])
         /\ CodePoints[a] = CodePoints[b] => a = b
  BY PayloadsAssumption

UnitsOf(a) == [i \in DOMAIN CodePoints[a] |-> Payload!Units(CodePoints[a][i])]

\* The code units of a name are the chain of those of its scalar values.
LEMMA UnitsChain ==
  ASSUME NEW a \in DOMAIN CodePoints
  PROVE  \E f : /\ IsChain(f, Nat, Len(CodePoints[a]), UnitsOf(a))
                /\ Payload!CodeUnits(a) = f[Len(CodePoints[a])]
                /\ AreNotEmpty(UnitsOf(a), Len(CodePoints[a]))
<1> DEFINE n == Len(CodePoints[a])
           ss == UnitsOf(a)
<1>1. n \in Nat /\ DOMAIN CodePoints[a] = 1 .. n /\ \A i \in 1 .. n : Payload!IsScalarValue(CodePoints[a][i])
  BY NamesAre
<1>2. \A i \in 1 .. n : Payload!Units(CodePoints[a][i]) \in Seq(Nat) /\ Payload!Units(CodePoints[a][i]) # << >>
  BY <1>1, UnitsAre
<1>3. ss \in [1 .. n -> Seq(Nat)] /\ \A i \in 1 .. n : ss[i] # << >>
  BY <1>1, <1>2 DEF UnitsOf
<1>4. Payload!CodeUnits(a) = Payload!FlattenSeq(ss)
  BY DEF Payload!CodeUnits, UnitsOf
<1> HIDE DEF n, ss
<1>5. PICK f : IsChain(f, Nat, n, ss) /\ Payload!FlattenSeq(ss) = f[n]
  BY <1>1, <1>3, FlattenChains
<1>6. AreNotEmpty(ss, n)
  BY <1>3 DEF AreNotEmpty
<1> QED
  BY <1>4, <1>5, <1>6 DEF n, ss

\* They tell names apart.
LEMMA CodeUnitsTell ==
  ASSUME NEW a \in DOMAIN CodePoints, NEW b \in DOMAIN CodePoints
  PROVE  /\ Payload!CodeUnits(a) \in Seq(Nat)
         /\ Payload!CodeUnits(a) = Payload!CodeUnits(b) => a = b
<1> DEFINE m == Len(CodePoints[a])
           n == Len(CodePoints[b])
           x == UnitsOf(a)
           y == UnitsOf(b)
<1>1. /\ m \in Nat /\ DOMAIN CodePoints[a] = 1 .. m
      /\ \A i \in 1 .. m : Payload!IsScalarValue(CodePoints[a][i])
      /\ n \in Nat /\ DOMAIN CodePoints[b] = 1 .. n
      /\ \A i \in 1 .. n : Payload!IsScalarValue(CodePoints[b][i])
  BY NamesAre
<1>2. /\ \A i \in 1 .. m : x[i] = Payload!Units(CodePoints[a][i])
      /\ \A i \in 1 .. n : y[i] = Payload!Units(CodePoints[b][i])
  BY <1>1 DEF UnitsOf
<1>3. CodePoints[a] \in Seq(Nat) /\ CodePoints[b] \in Seq(Nat) /\ (CodePoints[a] = CodePoints[b] => a = b)
  BY NamesAre
<1>4. PICK f : IsChain(f, Nat, m, x) /\ Payload!CodeUnits(a) = f[m] /\ AreNotEmpty(x, m)
  BY UnitsChain
<1>5. PICK g : IsChain(g, Nat, n, y) /\ Payload!CodeUnits(b) = g[n] /\ AreNotEmpty(y, n)
  BY UnitsChain
<1>6. Payload!CodeUnits(a) \in Seq(Nat)
  <2>1. m \in 0 .. m
    BY <1>1
  <2> QED
    BY <1>4, <2>1 DEF IsChain
<1> SUFFICES ASSUME Payload!CodeUnits(a) = Payload!CodeUnits(b) PROVE a = b
  BY <1>6
<1> HIDE DEF m, n, x, y
<1>7. ArePrefixFree(x, m, y, n)
  <2>1. ASSUME NEW i \in 1 .. m, i <= n PROVE PrefixFree(x[i], y[i])
    <3>1. i \in 1 .. n
      BY <1>1, <2>1
    <3> QED
      BY <1>1, <1>2, <3>1, UnitsAre
  <2> QED
    BY <2>1 DEF ArePrefixFree
<1>8. f[m] = g[n]
  BY <1>4, <1>5
<1>9. m = n /\ \A i \in 1 .. m : x[i] = y[i]
  BY <1>4, <1>5, <1>7, <1>8, ChainsTell
<1>10. \A i \in 1 .. m : CodePoints[a][i] = CodePoints[b][i]
  BY <1>1, <1>2, <1>9, UnitsAre
<1>11. CodePoints[a] = CodePoints[b]
  <2> DEFINE p == CodePoints[a]
             q == CodePoints[b]
  <2>1. p \in Seq(Nat) /\ q \in Seq(Nat) /\ Len(p) = Len(q) /\ \A i \in 1 .. Len(p) : p[i] = q[i]
    BY <1>3, <1>9, <1>10 DEF m, n
  <2> HIDE DEF p, q
  <2>2. p = q
    BY <2>1
  <2> QED
    BY <2>2 DEF p, q
<1> QED
  BY <1>3, <1>11

-----------------------------------------------------------------------------
(* The bytes of UTF-16 are in the order of its units. *)

PairsOf(s) == [i \in DOMAIN s |-> << s[i] \div 256, s[i] % 256 >>]
BytesOf(s) == Payload!FlattenSeq(PairsOf(s))

\* Two bytes a unit.
LEMMA BytesAre ==
  ASSUME NEW s \in Seq(Nat)
  PROVE  /\ BytesOf(s) \in Seq(Nat) /\ Len(BytesOf(s)) = 2 * Len(s)
         /\ \A i \in 1 .. Len(s) : BytesOf(s)[2 * i - 1] = s[i] \div 256 /\ BytesOf(s)[2 * i] = s[i] % 256
<1> DEFINE n == Len(s)
           ss == PairsOf(s)
<1>1. n \in Nat /\ DOMAIN s = 1 .. n /\ \A i \in 1 .. n : s[i] \in Nat
  OBVIOUS
<1>2. ASSUME NEW i \in 1 .. n
      PROVE  ss[i] = << s[i] \div 256, s[i] % 256 >> /\ s[i] \div 256 \in Nat /\ s[i] % 256 \in Nat
  BY <1>1 DEF PairsOf
<1>3. DOMAIN ss = 1 .. n
  BY <1>1 DEF PairsOf
<1> HIDE DEF n, ss
<1>4. ASSUME NEW i \in 1 .. n
      PROVE  /\ ss[i] \in Seq(Nat) /\ Len(ss[i]) = 2 /\ ss[i][1] = s[i] \div 256 /\ ss[i][2] = s[i] % 256
             /\ 1 \in 1 .. Len(ss[i]) /\ 2 \in 1 .. Len(ss[i])
  <2> DEFINE a == s[i] \div 256
             b == s[i] % 256
  <2>1. ss[i] = << a, b >> /\ a \in Nat /\ b \in Nat
    BY <1>2
  <2> HIDE DEF a, b
  <2>2. ss[i] \in Seq(Nat) /\ Len(ss[i]) = 2 /\ ss[i][1] = a /\ ss[i][2] = b
    BY <2>1
  <2> QED
    BY <2>2 DEF a, b
<1>5. ss \in [1 .. n -> Seq(Nat)]
  <2>1. ss = [i \in 1 .. n |-> ss[i]]
    BY <1>3 DEF ss, PairsOf
  <2> QED
    BY <1>4, <2>1
<1>6. PICK f : IsChain(f, Nat, n, ss) /\ Payload!FlattenSeq(ss) = f[n]
  BY <1>1, <1>5, FlattenChains
<1>7. /\ \A k \in 0 .. n : f[k] \in Seq(Nat)
      /\ f[0] = << >>
      /\ \A k \in 1 .. n : f[k] = f[k - 1] \o ss[k]
  BY <1>6 DEF IsChain
<1> DEFINE K == {k \in 0 .. n : Len(f[k]) = 2 * k}
<1>8. 0 \in K
  BY <1>1, <1>7
<1>9. ASSUME NEW k \in 0 .. n - 1, k \in K PROVE k + 1 \in K
  <2>1. k + 1 \in 1 .. n /\ (k + 1) - 1 = k /\ k \in 0 .. n /\ k + 1 \in 0 .. n /\ 2 * (k + 1) = 2 * k + 2
    BY <1>1
  <2>2. f[k + 1] = f[k] \o ss[k + 1] /\ f[k] \in Seq(Nat) /\ ss[k + 1] \in Seq(Nat) /\ Len(ss[k + 1]) = 2
    BY <1>4, <1>7, <2>1, ZenonT(30)
  <2>3. Len(f[k + 1]) = Len(f[k]) + 2
    <3> DEFINE a == f[k]
               b == ss[k + 1]
               c == f[k + 1]
    <3>1. a \in Seq(Nat) /\ b \in Seq(Nat) /\ c = a \o b /\ Len(b) = 2
      BY <2>2
    <3> HIDE DEF a, b, c
    <3>2. Len(a \o b) = Len(a) + Len(b)
      BY <3>1, ChainedIs, ZenonT(30)
    <3>3. Len(c) = Len(a) + 2
      BY <3>1, <3>2
    <3> QED
      BY <3>3 DEF a, c
  <2>4. Len(f[k]) = 2 * k
    BY <1>9
  <2> QED
    BY <2>1, <2>3, <2>4
<1>10. 0 .. n \subseteq K
  <2> HIDE DEF K
  <2> QED
    BY <1>1, <1>8, <1>9, NumberInduction
<1>11. \A k \in 0 .. n : Len(f[k]) = 2 * k
  BY <1>10
<1> HIDE DEF K
<1>12. BytesOf(s) = f[n] /\ n \in 0 .. n
  BY <1>1, <1>6 DEF BytesOf, ss
<1>13. ASSUME NEW i \in 1 .. n PROVE f[n][2 * i - 1] = s[i] \div 256 /\ f[n][2 * i] = s[i] % 256
  <2>1. i - 1 \in 0 .. n /\ 2 * (i - 1) + 1 = 2 * i - 1 /\ 2 * (i - 1) + 2 = 2 * i
    BY <1>1
  <2>2. Len(f[i - 1]) = 2 * (i - 1)
    BY <1>11, <2>1
  <2>3. f[n][Len(f[i - 1]) + 1] = ss[i][1]
    BY <1>4, <1>6, PieceIsAt, SMTT(25)
  <2>4. f[n][Len(f[i - 1]) + 2] = ss[i][2]
    BY <1>4, <1>6, PieceIsAt
  <2> QED
    BY <1>4, <2>1, <2>2, <2>3, <2>4
<1> QED
  BY <1>7, <1>11, <1>12, <1>13 DEF n

\* The bytes, padded.
LEMMA PaddedBytes ==
  ASSUME NEW s \in Seq(Nat), NEW k \in Nat \ {0}
  PROVE  /\ Continued(s)[k] \in Nat
         /\ k <= Len(s) => /\ Continued(BytesOf(s))[2 * k - 1] = (s[k] \div 256) + 1
                           /\ Continued(BytesOf(s))[2 * k] = (s[k] % 256) + 1
                           /\ Continued(s)[k] = s[k] + 1 /\ s[k] \in Nat
         /\ k > Len(s) => /\ Continued(BytesOf(s))[2 * k - 1] = 0 /\ Continued(BytesOf(s))[2 * k] = 0
                          /\ Continued(s)[k] = 0
<1> DEFINE b == BytesOf(s)
<1>1. b \in Seq(Nat) /\ Len(b) = 2 * Len(s) /\ Len(s) \in Nat
  BY BytesAre
<1>2. 2 * k - 1 \in Nat \ {0} /\ 2 * k \in Nat \ {0}
  OBVIOUS
<1>3. \A i \in 1 .. Len(s) : b[2 * i - 1] = s[i] \div 256 /\ b[2 * i] = s[i] % 256
  BY BytesAre
<1>4. /\ Continued(s)[k] \in Nat
      /\ k <= Len(s) => Continued(s)[k] = s[k] + 1 /\ s[k] \in Nat
      /\ k > Len(s) => Continued(s)[k] = 0
  BY PaddedIs
<1> HIDE DEF b
<1>5. \A i \in Nat \ {0} : /\ i <= Len(b) => Continued(b)[i] = b[i] + 1
                           /\ i > Len(b) => Continued(b)[i] = 0
  BY <1>1, PaddedIs
<1>6. CASE k <= Len(s)
  <2>1. 2 * k - 1 <= Len(b) /\ 2 * k <= Len(b) /\ k \in 1 .. Len(s) /\ ~(k > Len(s))
    BY <1>1, <1>6
  <2>2. b[2 * k - 1] = s[k] \div 256 /\ b[2 * k] = s[k] % 256
    BY <1>3, <2>1
  <2>3. Continued(b)[2 * k - 1] = b[2 * k - 1] + 1 /\ Continued(b)[2 * k] = b[2 * k] + 1
    BY <1>2, <1>5, <2>1
  <2> QED
    BY <1>4, <2>1, <2>2, <2>3 DEF b
<1>7. CASE k > Len(s)
  <2>1. 2 * k - 1 > Len(b) /\ 2 * k > Len(b) /\ ~(k <= Len(s))
    BY <1>1, <1>7
  <2>2. Continued(b)[2 * k - 1] = 0 /\ Continued(b)[2 * k] = 0
    BY <1>2, <1>5, <2>1
  <2> QED
    BY <1>4, <2>1, <2>2 DEF b
<1> QED
  BY <1>1, <1>6, <1>7

\* A number is in the order of its high and its low byte.
LEMMA BytesCompare ==
  ASSUME NEW a \in Nat, NEW b \in Nat, a < b
  PROVE  a \div 256 < b \div 256 \/ (a \div 256 = b \div 256 /\ a % 256 < b % 256)
<1>1. /\ a = 256 * (a \div 256) + (a % 256) /\ a \div 256 \in Nat /\ a % 256 \in 0 .. 255
      /\ b = 256 * (b \div 256) + (b % 256) /\ b \div 256 \in Nat /\ b % 256 \in 0 .. 255
  OBVIOUS
<1> DEFINE p == a \div 256
           q == a % 256
           x == b \div 256
           y == b % 256
<1>2. /\ a = 256 * p + q /\ p \in Nat /\ q \in 0 .. 255
      /\ b = 256 * x + y /\ x \in Nat /\ y \in 0 .. 255
  BY <1>1
<1> HIDE DEF p, q, x, y
<1>3. p < x \/ (p = x /\ q < y)
  BY <1>2
<1> QED
  BY <1>3 DEF p, q, x, y

\* The two bytes of a place are equal, or in order, if the units are.
LEMMA PlaceOfBytes ==
  ASSUME NEW s \in Seq(Nat), NEW t \in Seq(Nat), NEW k \in Nat \ {0}
  PROVE  /\ Continued(s)[k] = Continued(t)[k] =>
              /\ Continued(BytesOf(s))[2 * k - 1] = Continued(BytesOf(t))[2 * k - 1]
              /\ Continued(BytesOf(s))[2 * k] = Continued(BytesOf(t))[2 * k]
         /\ Continued(s)[k] < Continued(t)[k] =>
              \/ Continued(BytesOf(s))[2 * k - 1] < Continued(BytesOf(t))[2 * k - 1]
              \/ /\ Continued(BytesOf(s))[2 * k - 1] = Continued(BytesOf(t))[2 * k - 1]
                 /\ Continued(BytesOf(s))[2 * k] < Continued(BytesOf(t))[2 * k]
<1> DEFINE ps == Continued(s)[k]
           pt == Continued(t)[k]
           sh == Continued(BytesOf(s))[2 * k - 1]
           sl == Continued(BytesOf(s))[2 * k]
           th == Continued(BytesOf(t))[2 * k - 1]
           tl == Continued(BytesOf(t))[2 * k]
           a == s[k]
           b == t[k]
<1>1. /\ k <= Len(s) => sh = (a \div 256) + 1 /\ sl = (a % 256) + 1 /\ ps = a + 1 /\ a \in Nat
      /\ k > Len(s) => sh = 0 /\ sl = 0 /\ ps = 0
      /\ Len(s) \in Nat /\ ps \in Nat
  BY PaddedBytes
<1>2. /\ k <= Len(t) => th = (b \div 256) + 1 /\ tl = (b % 256) + 1 /\ pt = b + 1 /\ b \in Nat
      /\ k > Len(t) => th = 0 /\ tl = 0 /\ pt = 0
      /\ Len(t) \in Nat /\ pt \in Nat
  BY PaddedBytes
<1> HIDE DEF ps, pt, sh, sl, th, tl, a, b
<1>3. CASE k <= Len(s) /\ k <= Len(t)
  <2> DEFINE ah == a \div 256
             al == a % 256
             bh == b \div 256
             bl == b % 256
  <2>1. a \in Nat /\ b \in Nat /\ ps = a + 1 /\ pt = b + 1
    BY <1>1, <1>2, <1>3
  <2>2. sh = ah + 1 /\ sl = al + 1 /\ th = bh + 1 /\ tl = bl + 1
    BY <1>1, <1>2, <1>3
  <2>3. ah \in Nat /\ al \in Nat /\ bh \in Nat /\ bl \in Nat
    BY <2>1
  <2>4. a < b => ah < bh \/ (ah = bh /\ al < bl)
    BY <2>1, BytesCompare
  <2>5. a = b => ah = bh /\ al = bl
    OBVIOUS
  <2> HIDE DEF ah, al, bh, bl
  <2>6. (ps = pt => a = b) /\ (ps < pt => a < b)
    BY <2>1
  <2>7. ps = pt => sh = th /\ sl = tl
    BY <2>2, <2>5, <2>6
  <2>8. ps < pt => sh < th \/ (sh = th /\ sl < tl)
    BY <2>2, <2>3, <2>4, <2>6
  <2> QED
    BY <2>7, <2>8 DEF ps, pt, sh, sl, th, tl
<1>4. CASE k <= Len(s) /\ k > Len(t)
  <2>1. a \in Nat /\ ps = a + 1 /\ pt = 0
    BY <1>1, <1>2, <1>4
  <2>2. ps # pt /\ ~(ps < pt)
    BY <2>1
  <2> QED
    BY <2>2 DEF ps, pt
<1>5. CASE k > Len(s) /\ k <= Len(t)
  <2>1. b \in Nat /\ ps = 0 /\ pt = b + 1 /\ sh = 0 /\ th = (b \div 256) + 1
    BY <1>1, <1>2, <1>5
  <2>2. ps # pt /\ sh < th
    BY <2>1
  <2> QED
    BY <2>2 DEF ps, pt, sh, th
<1>6. CASE k > Len(s) /\ k > Len(t)
  <2>1. ps = 0 /\ pt = 0 /\ sh = 0 /\ th = 0 /\ sl = 0 /\ tl = 0
    BY <1>1, <1>2, <1>6
  <2> QED
    BY <2>1 DEF ps, pt, sh, sl, th, tl
<1> QED
  BY <1>1, <1>2, <1>3, <1>4, <1>5, <1>6

\* So the bytes are in order if the units are.
LEMMA BytesKeepOrder ==
  ASSUME NEW s \in Seq(Nat), NEW t \in Seq(Nat), Payload!LexicallyBefore(s, t)
  PROVE  Payload!LexicallyBefore(BytesOf(s), BytesOf(t))
<1> DEFINE f == Continued(s)
           g == Continued(t)
           p == Continued(BytesOf(s))
           q == Continued(BytesOf(t))
<1>1. PICK k \in Nat \ {0} : FirstLess(f, g, k)
  BY LexicallyBeforeIs
<1>2. f[k] < g[k] /\ \A j \in 1 .. k - 1 : f[j] = g[j]
  BY <1>1 DEF FirstLess
<1>3. \A j \in Nat \ {0} :
        /\ f[j] = g[j] => p[2 * j - 1] = q[2 * j - 1] /\ p[2 * j] = q[2 * j]
        /\ f[j] < g[j] => p[2 * j - 1] < q[2 * j - 1] \/ (p[2 * j - 1] = q[2 * j - 1] /\ p[2 * j] < q[2 * j])
  BY PlaceOfBytes
<1>4. BytesOf(s) \in Seq(Nat) /\ BytesOf(t) \in Seq(Nat)
  BY BytesAre
<1> HIDE DEF f, g, p, q
<1>5. ASSUME NEW i \in 1 .. 2 * k - 2 PROVE p[i] = q[i]
  <2>1. PICK j \in 1 .. k - 1 : i = 2 * j - 1 \/ i = 2 * j
    <3> DEFINE j == (i + 1) \div 2
    <3>1. j \in 1 .. k - 1 /\ (i = 2 * j - 1 \/ i = 2 * j)
      OBVIOUS
    <3> QED
      BY <3>1
  <2>2. j \in Nat \ {0} /\ f[j] = g[j]
    BY <1>2
  <2> QED
    BY <1>3, <2>1, <2>2
<1>6. CASE p[2 * k - 1] < q[2 * k - 1]
  <2> DEFINE i == 2 * k - 1
  <2>1. i \in Nat \ {0} /\ i - 1 = 2 * k - 2
    OBVIOUS
  <2>2. FirstLess(p, q, i)
    BY <1>5, <1>6, <2>1 DEF FirstLess
  <2> QED
    BY <1>4, <2>1, <2>2, LexicallyBeforeIs DEF p, q
<1>7. CASE p[2 * k - 1] = q[2 * k - 1] /\ p[2 * k] < q[2 * k]
  <2> DEFINE i == 2 * k
  <2>1. i \in Nat \ {0} /\ \A j \in 1 .. i - 1 : j \in 1 .. 2 * k - 2 \/ j = 2 * k - 1
    OBVIOUS
  <2>2. \A j \in 1 .. i - 1 : p[j] = q[j]
    BY <1>5, <1>7, <2>1
  <2>3. FirstLess(p, q, i)
    BY <1>7, <2>2 DEF FirstLess
  <2> QED
    BY <1>4, <2>1, <2>3, LexicallyBeforeIs DEF p, q
<1> QED
  BY <1>2, <1>3, <1>6, <1>7

\* Both languages have the same order of names.
LEMMA SameOrder ==
  ASSUME NEW a \in DOMAIN CodePoints, NEW b \in DOMAIN CodePoints, NEW l
  PROVE  Payload!Before(l, a, b) <=> Payload!LexicallyBefore(Payload!CodeUnits(a), Payload!CodeUnits(b))
<1> DEFINE s == Payload!CodeUnits(a)
           t == Payload!CodeUnits(b)
<1>1. s \in Seq(Nat) /\ t \in Seq(Nat)
  BY CodeUnitsTell
<1>2. Payload!UnitBytes(a) = BytesOf(s) /\ Payload!UnitBytes(b) = BytesOf(t)
  BY DEF Payload!UnitBytes, BytesOf, PairsOf
<1>3. Payload!Before(l, a, b) <=> IF l = "python" THEN Payload!LexicallyBefore(BytesOf(s), BytesOf(t))
                                  ELSE Payload!LexicallyBefore(s, t)
  BY <1>2 DEF Payload!Before
<1> HIDE DEF s, t
<1>4. BytesOf(s) \in Seq(Nat) /\ BytesOf(t) \in Seq(Nat)
  BY <1>1, BytesAre
<1>5. Payload!LexicallyBefore(s, t) => Payload!LexicallyBefore(BytesOf(s), BytesOf(t))
  BY <1>1, BytesKeepOrder
<1>6. ASSUME Payload!LexicallyBefore(BytesOf(s), BytesOf(t)), ~Payload!LexicallyBefore(s, t)
      PROVE  FALSE
  <2>1. CASE s = t
    BY <1>4, <1>6, <2>1, LexicallyBeforeOrders
  <2>2. CASE s # t
    <3>1. Payload!LexicallyBefore(t, s)
      BY <1>1, <1>6, <2>2, LexicallyBeforeOrders
    <3>2. Payload!LexicallyBefore(BytesOf(t), BytesOf(s))
      BY <1>1, <3>1, BytesKeepOrder
    <3> QED
      BY <1>4, <1>6, <3>2, LexicallyBeforeOrders
  <2> QED
    BY <2>1, <2>2
<1>7. Payload!LexicallyBefore(BytesOf(s), BytesOf(t)) <=> Payload!LexicallyBefore(s, t)
  BY <1>5, <1>6
<1> QED
  BY <1>3, <1>7 DEF s, t

-----------------------------------------------------------------------------
(* The members of an object in the order of their names. *)

NameBefore(a, b) == Payload!LexicallyBefore(Payload!CodeUnits(a), Payload!CodeUnits(b))

\* It is a strict order of the names.
LEMMA NamesAreOrdered ==
  ASSUME NEW a \in DOMAIN CodePoints, NEW b \in DOMAIN CodePoints, NEW c \in DOMAIN CodePoints
  PROVE  /\ ~NameBefore(a, a)
         /\ NameBefore(a, b) /\ NameBefore(b, c) => NameBefore(a, c)
         /\ a # b => NameBefore(a, b) \/ NameBefore(b, a)
<1> DEFINE s == Payload!CodeUnits(a)
           t == Payload!CodeUnits(b)
           u == Payload!CodeUnits(c)
<1>1. s \in Seq(Nat) /\ t \in Seq(Nat) /\ u \in Seq(Nat) /\ (a # b => s # t)
  BY CodeUnitsTell
<1> HIDE DEF s, t, u
<1>2. /\ ~Payload!LexicallyBefore(s, s)
      /\ Payload!LexicallyBefore(s, t) /\ Payload!LexicallyBefore(t, u) => Payload!LexicallyBefore(s, u)
      /\ s # t => Payload!LexicallyBefore(s, t) \/ Payload!LexicallyBefore(t, s)
  BY <1>1, LexicallyBeforeOrders
<1> QED
  BY <1>1, <1>2 DEF s, t, u, NameBefore

Earlier(N, a) == {b \in N : NameBefore(b, a)}

\* The rank of a name among others tells it.
LEMMA EarlierTells ==
  ASSUME NEW N, IsFiniteSet(N), N \subseteq DOMAIN CodePoints, NEW a \in N, NEW b \in N
  PROVE  /\ Cardinality(Earlier(N, a)) \in Nat
         /\ NameBefore(a, b) <=> Cardinality(Earlier(N, a)) < Cardinality(Earlier(N, b))
         /\ Cardinality(Earlier(N, a)) = Cardinality(Earlier(N, b)) => a = b
<1>1. \A c \in N : Earlier(N, c) \subseteq N /\ IsFiniteSet(Earlier(N, c)) /\ Cardinality(Earlier(N, c)) \in Nat
  <2>1. ASSUME NEW c \in N PROVE IsFiniteSet(Earlier(N, c)) /\ Earlier(N, c) \subseteq N
    <3>1. Earlier(N, c) \subseteq N
      BY DEF Earlier
    <3> QED
      BY <3>1, FS_Subset
  <2> QED
    BY <2>1, FS_CardinalityType
<1>2. ASSUME NEW c \in N, NEW d \in N, NameBefore(c, d)
      PROVE  Cardinality(Earlier(N, c)) < Cardinality(Earlier(N, d))
  <2>1. c \in Earlier(N, d) /\ c \notin Earlier(N, c)
    BY <1>2, NamesAreOrdered DEF Earlier
  <2>2. ASSUME NEW e \in Earlier(N, c) PROVE e \in Earlier(N, d)
    <3>1. e \in N /\ NameBefore(e, c)
      BY DEF Earlier
    <3>2. NameBefore(e, d)
      BY <1>2, <3>1, NamesAreOrdered
    <3> QED
      BY <3>1, <3>2 DEF Earlier
  <2>3. IsFiniteSet(Earlier(N, d)) /\ Earlier(N, c) \subseteq Earlier(N, d)
    BY <1>1, <2>2
  <2> QED
    BY <2>1, <2>3, SmallerSet
<1>3. a \in DOMAIN CodePoints /\ b \in DOMAIN CodePoints
  OBVIOUS
<1>4. a # b => NameBefore(a, b) \/ NameBefore(b, a)
  BY <1>3, NamesAreOrdered
<1>5. /\ NameBefore(a, b) => Cardinality(Earlier(N, a)) < Cardinality(Earlier(N, b))
      /\ NameBefore(b, a) => Cardinality(Earlier(N, b)) < Cardinality(Earlier(N, a))
  BY <1>2
<1>6. Cardinality(Earlier(N, a)) \in Nat /\ Cardinality(Earlier(N, b)) \in Nat
  BY <1>1
<1> QED
  BY <1>4, <1>5, <1>6

IsNamed(n) ==
  /\ n.names \in Seq(DOMAIN CodePoints)
  /\ \A i, j \in DOMAIN n.names : n.names[i] = n.names[j] => i = j

NamesOf(n) == {n.names[i] : i \in DOMAIN n.names}

\* As many indices as names.
LEMMA IndicesOfNames ==
  ASSUME NEW n, IsNamed(n), NEW I, I \subseteq DOMAIN n.names,
         NEW N, \A a : a \in N <=> \E i \in I : n.names[i] = a
  PROVE  IsFiniteSet(N) /\ Cardinality(N) = Cardinality(I)
<1> DEFINE f == [i \in I |-> n.names[i]]
<1>1. IsFiniteSet(I)
  <2>1. n.names \in Seq(DOMAIN CodePoints)
    BY DEF IsNamed
  <2>2. Len(n.names) \in Nat /\ DOMAIN n.names = 1 .. Len(n.names)
    BY <2>1
  <2>3. IsFiniteSet(1 .. Len(n.names))
    BY <2>2, FS_Interval
  <2> QED
    BY <2>2, <2>3, FS_Subset
<1>2. \A i \in I : f[i] = n.names[i] /\ f[i] \in N
  OBVIOUS
<1>3. \A a \in N : \E i \in I : f[i] = a
  OBVIOUS
<1>4. \A i, j \in I : f[i] = f[j] => i = j
  BY DEF IsNamed
<1>5. f \in [I -> N]
  OBVIOUS
<1> HIDE DEF f
<1>6. f \in Surjection(I, N)
  BY <1>3, <1>5 DEF Surjection
<1>7. f \in Injection(I, N)
  BY <1>4, <1>5 DEF Injection, IsInjective
<1> QED
  BY <1>1, <1>6, <1>7, FS_Surjection

Ranks(n) == [i \in DOMAIN n.names |-> Cardinality(Earlier(NamesOf(n), n.names[i]))]

\* The rank of a name is how many come before it.
LEMMA RanksAre ==
  ASSUME NEW n, IsNamed(n)
  PROVE  /\ IsFiniteSet(NamesOf(n)) /\ Cardinality(NamesOf(n)) = Len(n.names)
         /\ NamesOf(n) \subseteq DOMAIN CodePoints
         /\ IsInjection(Ranks(n), Len(n.names))
         /\ \A i \in DOMAIN n.names :
              /\ Lower(Ranks(n), i) = {k \in DOMAIN n.names : NameBefore(n.names[k], n.names[i])}
              /\ Cardinality(Lower(Ranks(n), i)) = Ranks(n)[i]
<1> DEFINE N == NamesOf(n)
           k == Len(n.names)
           t == Ranks(n)
<1>1. n.names \in Seq(DOMAIN CodePoints) /\ \A i, j \in DOMAIN n.names : n.names[i] = n.names[j] => i = j
  BY DEF IsNamed
<1>2. k \in Nat /\ DOMAIN n.names = 1 .. k /\ \A i \in 1 .. k : n.names[i] \in DOMAIN CodePoints
  BY <1>1
<1>3. \A a : a \in N <=> \E i \in 1 .. k : n.names[i] = a
  BY <1>2 DEF NamesOf
<1>4. N \subseteq DOMAIN CodePoints
  BY <1>2, <1>3
<1>5. IsFiniteSet(N) /\ Cardinality(N) = k
  <2>1. IsFiniteSet(N) /\ Cardinality(N) = Cardinality(1 .. k)
    <3> DEFINE I == 1 .. k
    <3>1. I \subseteq DOMAIN n.names /\ \A a : a \in N <=> \E i \in I : n.names[i] = a
      BY <1>2, <1>3
    <3> HIDE DEF I, N, k
    <3>2. IsFiniteSet(N) /\ Cardinality(N) = Cardinality(I)
      BY <3>1, IndicesOfNames
    <3> QED
      BY <3>2 DEF I
  <2>2. Cardinality(1 .. k) = k
    BY <1>2, FS_Interval
  <2> QED
    BY <2>1, <2>2
<1>6. \A i \in 1 .. k : t[i] = Cardinality(Earlier(N, n.names[i]))
  BY <1>2 DEF Ranks
<1>7. DOMAIN t = 1 .. k
  BY <1>2 DEF Ranks
<1>8. t = [i \in 1 .. k |-> t[i]]
  BY <1>2 DEF Ranks
<1> HIDE DEF N, k, t
<1>9. ASSUME NEW i \in 1 .. k, NEW j \in 1 .. k
      PROVE  /\ t[i] \in Nat
             /\ NameBefore(n.names[j], n.names[i]) <=> t[j] < t[i]
             /\ t[i] = t[j] => i = j
  <2>1. n.names[i] \in N /\ n.names[j] \in N
    BY <1>3
  <2>2. /\ Cardinality(Earlier(N, n.names[i])) \in Nat
        /\ NameBefore(n.names[j], n.names[i]) <=>
             Cardinality(Earlier(N, n.names[j])) < Cardinality(Earlier(N, n.names[i]))
        /\ Cardinality(Earlier(N, n.names[i])) = Cardinality(Earlier(N, n.names[j])) => n.names[i] = n.names[j]
    BY <1>4, <1>5, <2>1, EarlierTells
  <2> QED
    BY <1>1, <1>2, <1>6, <2>2
<1>10. IsInjection(t, k)
  BY <1>8, <1>9 DEF IsInjection
<1>11. ASSUME NEW i \in 1 .. k
       PROVE  Lower(t, i) = {j \in 1 .. k : NameBefore(n.names[j], n.names[i])}
  BY <1>7, <1>9 DEF Lower
<1>12. ASSUME NEW i \in 1 .. k PROVE Cardinality(Lower(t, i)) = t[i]
  <2> DEFINE I == Lower(t, i)
             E == Earlier(N, n.names[i])
  <2>1. I \subseteq DOMAIN n.names
    BY <1>2, <1>11
  <2>2. \A a : a \in E <=> \E j \in I : n.names[j] = a
    BY <1>3, <1>11 DEF Earlier
  <2> HIDE DEF I, E
  <2>3. Cardinality(E) = Cardinality(I)
    BY <2>1, <2>2, IndicesOfNames
  <2> QED
    BY <1>6, <2>3 DEF I, E
<1> QED
  BY <1>2, <1>4, <1>5, <1>10, <1>11, <1>12 DEF N, k, t

\* Every language sorts the members by the rank of their names.
LEMMA SortedIs ==
  ASSUME NEW n, IsNamed(n), NEW l
  PROVE  /\ IsOrder(Payload!Sorted(l, n), Len(n.names))
         /\ \A j \in 1 .. Len(n.names) :
              Cardinality(Earlier(NamesOf(n), n.names[Payload!Sorted(l, n)[j]])) = j - 1
<1> DEFINE k == Len(n.names)
           t == Ranks(n)
           before == [i \in DOMAIN n.names |->
                        {j \in DOMAIN n.names : Payload!Before(l, n.names[j], n.names[i])}]
           pi == Payload!Arranged(before)
<1>1. n.names \in Seq(DOMAIN CodePoints)
  BY DEF IsNamed
<1>2. k \in Nat /\ DOMAIN n.names = 1 .. k /\ \A i \in 1 .. k : n.names[i] \in DOMAIN CodePoints
  BY <1>1
<1>3. /\ IsInjection(t, k)
      /\ \A i \in 1 .. k : /\ Lower(t, i) = {j \in 1 .. k : NameBefore(n.names[j], n.names[i])}
                           /\ Cardinality(Lower(t, i)) = t[i]
  BY <1>2, RanksAre
<1>4. \A i, j \in 1 .. k : Payload!Before(l, n.names[j], n.names[i]) <=> NameBefore(n.names[j], n.names[i])
  BY <1>2, SameOrder DEF NameBefore
<1>5. DOMAIN before = 1 .. k /\ \A i \in 1 .. k : before[i] = Lower(t, i)
  <2>1. DOMAIN before = 1 .. k
    BY <1>2
  <2>2. ASSUME NEW i \in 1 .. k PROVE before[i] = Lower(t, i)
    <3>1. before[i] = {j \in 1 .. k : Payload!Before(l, n.names[j], n.names[i])}
      BY <1>2
    <3> HIDE DEF before, t
    <3> QED
      BY <1>3, <1>4, <3>1
  <2> QED
    BY <2>1, <2>2
<1>6. Payload!Sorted(l, n) = pi
  BY DEF Payload!Sorted
<1>7. \A i \in 1 .. k : t[i] = Cardinality(Earlier(NamesOf(n), n.names[i]))
  BY <1>2 DEF Ranks
<1> HIDE DEF before, t, k
<1>8. IsOrder(pi, k) /\ \A j \in 1 .. k : Cardinality(Lower(t, pi[j])) = j - 1
  BY <1>2, <1>3, <1>5, ArrangedIs
<1> HIDE DEF pi
<1>9. \A j \in 1 .. k : pi[j] \in 1 .. k
  BY <1>8 DEF IsOrder
<1> QED
  BY <1>3, <1>6, <1>7, <1>8, <1>9 DEF k

\* The j-th.
LEMMA SortedAt ==
  ASSUME NEW n, IsNamed(n), NEW l, NEW j \in 1 .. Len(n.names)
  PROVE  /\ Payload!Sorted(l, n)[j] \in 1 .. Len(n.names)
         /\ Cardinality(Earlier(NamesOf(n), n.names[Payload!Sorted(l, n)[j]])) = j - 1
<1>1. /\ IsOrder(Payload!Sorted(l, n), Len(n.names))
      /\ \A i \in 1 .. Len(n.names) :
           Cardinality(Earlier(NamesOf(n), n.names[Payload!Sorted(l, n)[i]])) = i - 1
  BY SortedIs
<1>2. Payload!Sorted(l, n)[j] \in 1 .. Len(n.names)
  BY <1>1 DEF IsOrder
<1> QED
  BY <1>1, <1>2

AreNamedAlike(m, n) ==
  IsNamed(m) /\ IsNamed(n) /\ Len(m.names) = Len(n.names) /\ NamesOf(m) \subseteq NamesOf(n)

\* Objects with the same names have them in the same places.
LEMMA SortedAlike ==
  ASSUME NEW m, NEW n, AreNamedAlike(m, n), NEW l, NEW k, NEW i \in 1 .. Len(m.names)
  PROVE  m.names[Payload!Sorted(l, m)[i]] = n.names[Payload!Sorted(k, n)[i]]
<1> /\ IsNamed(m) /\ IsNamed(n) /\ Len(m.names) = Len(n.names) /\ NamesOf(m) \subseteq NamesOf(n)
  BY DEF AreNamedAlike
<1> DEFINE N == NamesOf(n)
<1>1. /\ IsFiniteSet(N) /\ Cardinality(N) = Len(n.names) /\ N \subseteq DOMAIN CodePoints
      /\ Cardinality(NamesOf(m)) = Len(m.names)
  BY RanksAre
<1>2. NamesOf(m) = N
  BY <1>1, FS_Subset
<1>3. DOMAIN m.names = 1 .. Len(m.names) /\ DOMAIN n.names = 1 .. Len(n.names)
  BY DEF IsNamed
<1> DEFINE p == Payload!Sorted(l, m)[i]
           q == Payload!Sorted(k, n)[i]
<1>4. p \in 1 .. Len(m.names) /\ Cardinality(Earlier(NamesOf(m), m.names[p])) = i - 1
  BY SortedAt
<1>5. q \in 1 .. Len(n.names) /\ Cardinality(Earlier(N, n.names[q])) = i - 1
  <2>1. i \in 1 .. Len(n.names)
    OBVIOUS
  <2> QED
    BY <2>1, SortedAt
<1> HIDE DEF p, q
<1>6. m.names[p] \in N /\ n.names[q] \in N
  BY <1>2, <1>3, <1>4, <1>5 DEF NamesOf
<1>7. m.names[p] = n.names[q]
  <2>1. Cardinality(Earlier(N, m.names[p])) = Cardinality(Earlier(N, n.names[q]))
    BY <1>2, <1>4, <1>5
  <2> HIDE DEF N
  <2> QED
    BY <1>1, <1>6, <2>1, EarlierTells
<1> QED
  BY <1>7 DEF p, q

-----------------------------------------------------------------------------
(* The text of a list tells its items. *)

Separator == << "value_separator" >>

\* Texts of which none starts with the end of the list.
IsItems(x, n, S, close) ==
  /\ n \in Nat /\ x \in [1 .. n -> Seq(S)]
  /\ \A i \in 1 .. n : x[i] # << >> /\ x[i][1] # close

Piece(x, i) == IF i = 1 THEN x[i] ELSE Separator \o x[i]

\* What is written of an item.
LEMMA PieceIs ==
  ASSUME NEW S, NEW n, NEW x, NEW close, IsItems(x, n, S, close), "value_separator" \in S,
         "value_separator" # close, NEW i \in 1 .. n
  PROVE  /\ Piece(x, i) \in Seq(S) /\ Piece(x, i) # << >> /\ Piece(x, i)[1] # close
         /\ x[i] \in Seq(S)
<1>1. x[i] \in Seq(S) /\ x[i] # << >> /\ x[i][1] # close
  BY DEF IsItems
<1>2. CASE i = 1
  BY <1>1, <1>2 DEF Piece
<1>3. CASE i # 1
  <2> DEFINE a == x[i]
             h == Separator
  <2>1. h \in Seq(S) /\ Len(h) = 1 /\ h[1] = "value_separator" /\ a \in Seq(S)
    BY <1>1 DEF Separator
  <2> HIDE DEF a, h
  <2>2. h \o a \in Seq(S) /\ (h \o a)[1] = h[1] /\ h \o a # << >>
    <3>1. h \o a \in Seq(S) /\ (h \o a)[1] = h[1] /\ Len(h \o a) = Len(h) + Len(a) /\ Len(a) \in Nat
      BY <2>1, ChainedIs
    <3> QED
      BY <2>1, <3>1
  <2>3. Piece(x, i) = h \o a
    BY <1>3 DEF Piece, h, a
  <2> QED
    BY <1>1, <2>1, <2>2, <2>3
<1> QED
  BY <1>2, <1>3

\* Pieces are as different as items.
LEMMA PiecesDiffer ==
  ASSUME NEW S, NEW x, NEW y, NEW i, x[i] \in Seq(S), y[i] \in Seq(S), PrefixFree(x[i], y[i])
  PROVE  /\ PrefixFree(Piece(x, i), Piece(y, i))
         /\ Piece(x, i) = Piece(y, i) => x[i] = y[i]
<1>1. CASE i = 1
  BY <1>1 DEF Piece
<1>2. CASE i # 1
  <2> DEFINE a == x[i]
             b == y[i]
             h == Separator
             T == S \cup {"value_separator"}
  <2>1. h \in Seq(T) /\ a \in Seq(T) /\ b \in Seq(T)
    BY DEF Separator
  <2>2. Piece(x, i) = h \o a /\ Piece(y, i) = h \o b
    BY <1>2 DEF Piece
  <2> HIDE DEF h, T, a, b
  <2>3. PrefixFree(a, b)
    BY DEF a, b
  <2>4. Compatible(h \o a, h \o b) => a = b
    BY <2>1, <2>3, SameBeginning DEF PrefixFree
  <2>5. h \o a = h \o b => Compatible(h \o a, h \o b)
    BY DEF Compatible
  <2> QED
    BY <2>2, <2>4, <2>5 DEF PrefixFree, a, b
<1> QED
  BY <1>1, <1>2

\* One after another, and again.
LEMMA Associates ==
  ASSUME NEW S, NEW a \in Seq(S), NEW b \in Seq(S), NEW c \in Seq(S)
  PROVE  (a \o b) \o c = a \o (b \o c)
  OBVIOUS

IsListed(f, p, x, n, S, open, close) ==
  /\ IsChain(f, S, n + 1, p) /\ Payload!Listed(open, x, close) = << open >> \o f[n + 1]
  /\ p[n + 1] = << close >> /\ \A i \in 1 .. n : p[i] = Piece(x, i)

\* A list is the chain of its pieces and the end.
LEMMA ListedChain ==
  ASSUME NEW S, NEW n, NEW x, NEW open \in S, NEW close \in S, IsItems(x, n, S, close),
         "value_separator" \in S, "value_separator" # close
  PROVE  /\ Payload!Listed(open, x, close) \in Seq(S)
         /\ \E f, p : IsListed(f, p, x, n, S, open, close)
<1> DEFINE q == [i \in DOMAIN x |-> IF i = 1 THEN x[i] ELSE << "value_separator" >> \o x[i]]
           e == << close >>
           o == << open >>
<1>1. n \in Nat /\ DOMAIN x = 1 .. n
  BY DEF IsItems
<1>2. \A i \in 1 .. n : q[i] = Piece(x, i)
  BY <1>1 DEF Piece, Separator
<1>3. \A i \in 1 .. n : Piece(x, i) \in Seq(S)
  BY PieceIs
<1>4. q = [i \in 1 .. n |-> q[i]]
  BY <1>1
<1>5. Payload!Listed(open, x, close) = (o \o Payload!FlattenSeq(q)) \o e
  BY DEF Payload!Listed
<1>6. e \in Seq(S) /\ o \in Seq(S)
  OBVIOUS
<1> HIDE DEF q, e, o
<1>7. q \in [1 .. n -> Seq(S)]
  BY <1>2, <1>3, <1>4
<1>8. PICK h : IsChain(h, S, n, q) /\ Payload!FlattenSeq(q) = h[n]
  BY <1>1, <1>7, FlattenChains
<1>9. PICK f, p : /\ IsChain(f, S, n + 1, p) /\ f[n + 1] = h[n] \o e
                  /\ p[n + 1] = e /\ \A i \in 1 .. n : p[i] = q[i]
  <2>1. PICK f, p : IsExtended(f, p, h, q, S, n, e)
    BY <1>6, <1>8, ChainExtended
  <2> QED
    BY <2>1 DEF IsExtended
<1>10. h[n] \in Seq(S)
  <2>1. n \in 0 .. n
    BY <1>1
  <2> QED
    BY <1>8, <2>1 DEF IsChain
<1>11. Payload!Listed(open, x, close) = o \o (h[n] \o e)
  <2> DEFINE a == h[n]
  <2>1. a \in Seq(S) /\ Payload!Listed(open, x, close) = (o \o a) \o e
    BY <1>5, <1>8, <1>10
  <2> HIDE DEF a
  <2>2. (o \o a) \o e = o \o (a \o e)
    BY <1>6, <2>1, Associates
  <2> QED
    BY <2>1, <2>2 DEF a
<1>12. o \o (h[n] \o e) \in Seq(S)
  <2>1. h[n] \o e \in Seq(S)
    BY <1>6, <1>10, ChainedIs
  <2> QED
    BY <1>6, <2>1, ChainedIs
<1>13. \A i \in 1 .. n : p[i] = Piece(x, i)
  BY <1>2, <1>9
<1> QED
  BY <1>9, <1>11, <1>12, <1>13 DEF e, o, IsListed

\* Lists of which neither goes on where the other ends have the same items.
LEMMA ListedTells ==
  ASSUME NEW S, NEW m, NEW n, NEW x, NEW y, NEW open \in S, NEW close \in S,
         IsItems(x, m, S, close), IsItems(y, n, S, close), ArePrefixFree(x, m, y, n),
         "value_separator" \in S, "value_separator" # close,
         Compatible(Payload!Listed(open, x, close), Payload!Listed(open, y, close))
  PROVE  m = n /\ x = y
<1>1. m \in Nat /\ n \in Nat /\ x \in [1 .. m -> Seq(S)] /\ y \in [1 .. n -> Seq(S)]
  BY DEF IsItems
<1>2. PICK f, p : /\ IsChain(f, S, m + 1, p) /\ Payload!Listed(open, x, close) = << open >> \o f[m + 1]
                  /\ p[m + 1] = << close >> /\ \A i \in 1 .. m : p[i] = Piece(x, i)
  <2>1. PICK f, p : IsListed(f, p, x, m, S, open, close)
    BY ListedChain, IsItems(x, m, S, close)
  <2> QED
    BY <2>1 DEF IsListed
<1>3. PICK g, q : /\ IsChain(g, S, n + 1, q) /\ Payload!Listed(open, y, close) = << open >> \o g[n + 1]
                  /\ q[n + 1] = << close >> /\ \A i \in 1 .. n : q[i] = Piece(y, i)
  <2>1. PICK g, q : IsListed(g, q, y, n, S, open, close)
    BY ListedChain, IsItems(y, n, S, close)
  <2> QED
    BY <2>1 DEF IsListed
<1>4. Compatible(f[m + 1], g[n + 1])
  <2> DEFINE a == f[m + 1]
             b == g[n + 1]
             o == << open >>
  <2>1. m + 1 \in 0 .. m + 1 /\ n + 1 \in 0 .. n + 1
    BY <1>1
  <2>2. a \in Seq(S) /\ b \in Seq(S)
    BY <1>2, <1>3, <2>1 DEF IsChain
  <2>3. o \in Seq(S) /\ Compatible(o \o a, o \o b)
    BY <1>2, <1>3
  <2> HIDE DEF a, b, o
  <2>4. Compatible(a, b)
    BY <2>2, <2>3, SameBeginning
  <2> QED
    BY <2>4 DEF a, b
<1>5. << close >> \in Seq(S) /\ << close >> # << >> /\ << close >>[1] = close
  OBVIOUS
<1>6. ASSUME NEW i \in 1 .. n
      PROVE  ~Compatible(<< close >>, q[i]) /\ << close >> # q[i]
  <2> DEFINE e == << close >>
  <2>1. q[i] \in Seq(S) /\ q[i] # << >> /\ q[i][1] # close
    BY <1>3, PieceIs, IsItems(y, n, S, close)
  <2>2. e \in Seq(S) /\ e # << >> /\ e[1] = close
    OBVIOUS
  <2> HIDE DEF e
  <2>3. ~Compatible(e, q[i])
    BY <2>1, <2>2, FirstDiffers
  <2> QED
    BY <2>1, <2>2, <2>3 DEF e
<1>7. ASSUME NEW i \in 1 .. m
      PROVE  ~Compatible(p[i], << close >>) /\ p[i] # << close >>
  <2> DEFINE e == << close >>
  <2>1. p[i] \in Seq(S) /\ p[i] # << >> /\ p[i][1] # close
    BY <1>2, PieceIs, IsItems(x, m, S, close)
  <2>2. e \in Seq(S) /\ e # << >> /\ e[1] = close
    OBVIOUS
  <2> HIDE DEF e
  <2>3. ~Compatible(p[i], e)
    BY <2>1, <2>2, FirstDiffers
  <2> QED
    BY <2>1, <2>2, <2>3 DEF e
<1>8. ASSUME NEW i \in 1 .. m, i <= n
      PROVE  PrefixFree(p[i], q[i]) /\ (p[i] = q[i] => x[i] = y[i])
  <2>1. i \in 1 .. n
    BY <1>1, <1>8
  <2>2. x[i] \in Seq(S) /\ y[i] \in Seq(S)
    BY <1>1, <2>1
  <2>3. PrefixFree(x[i], y[i])
    BY <1>8 DEF ArePrefixFree
  <2>4. p[i] = Piece(x, i) /\ q[i] = Piece(y, i)
    BY <1>2, <1>3, <2>1
  <2>5. PrefixFree(Piece(x, i), Piece(y, i)) /\ (Piece(x, i) = Piece(y, i) => x[i] = y[i])
    BY <2>2, <2>3, PiecesDiffer
  <2> QED
    BY <2>4, <2>5
<1>9. ArePrefixFree(p, m + 1, q, n + 1)
  <2> SUFFICES ASSUME NEW i \in 1 .. m + 1, i <= n + 1 PROVE PrefixFree(p[i], q[i])
    BY DEF ArePrefixFree
  <2>1. CASE i \in 1 .. m /\ i <= n
    BY <1>8, <2>1
  <2>2. CASE i \in 1 .. m /\ i = n + 1
    <3>1. q[i] = << close >>
      BY <1>3, <2>2
    <3> QED
      BY <1>7, <2>2, <3>1 DEF PrefixFree
  <2>3. CASE i = m + 1 /\ i \in 1 .. n
    <3>1. p[i] = << close >>
      BY <1>2, <2>3
    <3> QED
      BY <1>6, <2>3, <3>1 DEF PrefixFree
  <2>4. CASE i = m + 1 /\ i = n + 1
    <3>1. p[i] = q[i]
      BY <1>2, <1>3, <2>4
    <3> QED
      BY <3>1 DEF PrefixFree
  <2>5. \/ i \in 1 .. m /\ i <= n
        \/ i \in 1 .. m /\ i = n + 1
        \/ i = m + 1 /\ i \in 1 .. n
        \/ i = m + 1 /\ i = n + 1
    BY <1>1
  <2> QED
    BY <2>1, <2>2, <2>3, <2>4, <2>5
<1>10. \A i \in 1 .. m + 1 : i <= n + 1 => p[i] = q[i] /\ f[i] = g[i]
  BY <1>2, <1>3, <1>4, <1>9, PiecesAgree
<1>11. ~(m < n)
  <2> SUFFICES ASSUME m < n PROVE FALSE
    OBVIOUS
  <2>1. m + 1 \in 1 .. m + 1 /\ m + 1 <= n + 1 /\ m + 1 \in 1 .. n
    BY <1>1
  <2>2. p[m + 1] = q[m + 1] /\ p[m + 1] = << close >>
    BY <1>2, <1>10, <2>1
  <2> QED
    BY <1>6, <2>1, <2>2
<1>12. ~(n < m)
  <2> SUFFICES ASSUME n < m PROVE FALSE
    OBVIOUS
  <2>1. n + 1 \in 1 .. m + 1 /\ n + 1 <= n + 1 /\ n + 1 \in 1 .. m
    BY <1>1
  <2>2. p[n + 1] = q[n + 1] /\ q[n + 1] = << close >>
    BY <1>3, <1>10, <2>1
  <2> QED
    BY <1>7, <2>1, <2>2
<1>13. m = n
  BY <1>1, <1>11, <1>12
<1>14. ASSUME NEW i \in 1 .. m PROVE x[i] = y[i]
  <2>1. i <= n /\ i \in 1 .. m + 1 /\ i <= n + 1
    BY <1>1, <1>13
  <2> QED
    BY <1>8, <1>10, <2>1
<1>15. x = y
  BY <1>1, <1>13, <1>14
<1> QED
  BY <1>13, <1>15

-----------------------------------------------------------------------------
(* The text of a node tells the node, if the texts of those below do.      *)

IsPayloadNode(n, S) ==
  /\ IsNode(n, S) /\ n.kind \notin Payload!Structural
  /\ n.kind = "object" => IsNamed(n)
  /\ n.kind \notin {"array", "object"} => n.kids = << >>

\* A set of tokens that has what may be in the text of a node.
HasTokens(n, T) ==
  /\ Payload!Structural \subseteq T /\ DOMAIN CodePoints \subseteq T
  /\ n.kind \in T /\ "integer" \in T

ItemsOf(n, below) == [i \in DOMAIN n.kids |-> below[n.kids[i]]]

MemberText(n, below, i) == << n.names[i], "name_separator" >> \o below[n.kids[i]]

MembersOf(l, n, below) == [j \in DOMAIN Payload!Sorted(l, n) |-> MemberText(n, below, Payload!Sorted(l, n)[j])]

\* The three forms.
LEMMA NodeTextIs ==
  ASSUME NEW l, NEW n, NEW below
  PROVE  /\ n.kind = "array" =>
              Payload!NodeText(l, n, below) = Payload!Listed("begin_array", ItemsOf(n, below), "end_array")
         /\ n.kind = "object" =>
              Payload!NodeText(l, n, below) = Payload!Listed("begin_object", MembersOf(l, n, below), "end_object")
         /\ n.kind \notin {"array", "object"} => Payload!NodeText(l, n, below) = << Payload!ValueKind(n) >>
<1>1. "array" # "object"
  OBVIOUS
<1>2. CASE n.kind = "array"
  BY <1>1, <1>2, Zenon DEF Payload!NodeText, ItemsOf
<1>3. CASE n.kind = "object"
  BY <1>1, <1>3, Zenon DEF Payload!NodeText, MembersOf, MemberText
<1>4. CASE n.kind \notin {"array", "object"}
  <2>1. n.kind # "array" /\ n.kind # "object"
    BY <1>4
  <2> QED
    BY <2>1, Zenon DEF Payload!NodeText
<1> QED
  BY <1>1, <1>2, <1>3, <1>4

Opens(text, S, token) == text \in Seq(S) /\ text # << >> /\ text[1] = token

AreTexts(x, n, S) == n \in Nat /\ x \in [1 .. n -> Seq(S)]

\* A list of sequences is a sequence that begins with its first token.
LEMMA ListedType ==
  ASSUME NEW S, NEW n, NEW x, AreTexts(x, n, S), NEW open \in S, NEW close \in S,
         "value_separator" \in S
  PROVE  Opens(Payload!Listed(open, x, close), S, open)
<1> DEFINE q == [i \in DOMAIN x |-> IF i = 1 THEN x[i] ELSE << "value_separator" >> \o x[i]]
           e == << close >>
           o == << open >>
           sep == << "value_separator" >>
<1>1. e \in Seq(S) /\ o \in Seq(S) /\ sep \in Seq(S) /\ Len(o) = 1 /\ o[1] = open /\ Len(e) = 1
  OBVIOUS
<1>0. n \in Nat /\ x \in [1 .. n -> Seq(S)]
  BY DEF AreTexts
<1>2. \A i \in 1 .. n : x[i] \in Seq(S)
  BY <1>0
<1>3. Payload!Listed(open, x, close) = (o \o Payload!FlattenSeq(q)) \o e
  BY DEF Payload!Listed
<1>4. q = [i \in 1 .. n |-> IF i = 1 THEN x[i] ELSE sep \o x[i]]
  BY <1>0
<1> HIDE DEF q, e, o, sep
<1>5. \A i \in 1 .. n : sep \o x[i] \in Seq(S)
  BY <1>1, <1>2, ChainedIs
<1>6. q \in [1 .. n -> Seq(S)]
  BY <1>2, <1>4, <1>5
<1>7. PICK h : IsChain(h, S, n, q) /\ Payload!FlattenSeq(q) = h[n]
  BY <1>0, <1>6, FlattenChains
<1> DEFINE a == Payload!FlattenSeq(q)
<1>8. a \in Seq(S)
  <2>1. n \in 0 .. n
    BY <1>0
  <2> QED
    BY <1>7, <2>1 DEF IsChain
<1> HIDE DEF a
<1>9. /\ o \o a \in Seq(S) /\ Len(o \o a) = 1 + Len(a) /\ Len(a) \in Nat /\ (o \o a)[1] = open
  BY <1>1, <1>8, ChainedIs
<1> DEFINE b == o \o a
<1>10. b \in Seq(S) /\ 1 \in 1 .. Len(b) /\ b[1] = open /\ Len(b) \in Nat
  BY <1>9
<1> HIDE DEF b
<1>11. b \o e \in Seq(S) /\ (b \o e)[1] = b[1] /\ Len(b \o e) = Len(b) + 1
  <2>1. /\ b \o e \in Seq(S) /\ Len(b \o e) = Len(b) + Len(e)
        /\ \A i \in 1 .. Len(b) : (b \o e)[i] = b[i]
    BY <1>1, <1>10, ChainedIs, ZenonT(30)
  <2> QED
    BY <1>1, <1>10, <2>1
<1>12. b \o e # << >>
  BY <1>10, <1>11
<1> QED
  BY <1>3, <1>10, <1>11, <1>12 DEF b, a, Opens

\* The beginning of a sequence and what follows.
LEMMA BeginsWith ==
  ASSUME NEW S, NEW a \in Seq(S), NEW b \in Seq(S), a # << >>
  PROVE  a \o b \in Seq(S) /\ a \o b # << >> /\ (a \o b)[1] = a[1]
<1>1. /\ a \o b \in Seq(S) /\ Len(a \o b) = Len(a) + Len(b) /\ Len(a) \in Nat /\ Len(b) \in Nat
      /\ \A i \in 1 .. Len(a) : (a \o b)[i] = a[i]
  BY ChainedIs
<1>2. 1 \in 1 .. Len(a)
  OBVIOUS
<1>3. Len(a \o b) # 0
  BY <1>1, <1>2
<1> QED
  BY <1>1, <1>2, <1>3

\* What is written of a member.
LEMMA MemberTextIs ==
  ASSUME NEW U, NEW T, NEW n, IsPayloadNode(n, U), n.kind = "object", HasTokens(n, T),
         NEW below \in [U -> Seq(T)], NEW i \in DOMAIN n.names
  PROVE  /\ i \in DOMAIN n.kids /\ n.kids[i] \in U /\ below[n.kids[i]] \in Seq(T)
         /\ << n.names[i], "name_separator" >> \in Seq(T)
         /\ MemberText(n, below, i) \in Seq(T) /\ MemberText(n, below, i) # << >>
         /\ MemberText(n, below, i)[1] = n.names[i] /\ n.names[i] \in DOMAIN CodePoints
<1> DEFINE h == << n.names[i], "name_separator" >>
           a == below[n.kids[i]]
<1>1. DOMAIN n.names = DOMAIN n.kids /\ n.kids \in Seq(U) /\ n.names \in Seq(DOMAIN CodePoints)
  BY DEF IsPayloadNode, IsNode, IsNamed
<1>2. i \in DOMAIN n.kids /\ n.kids[i] \in U /\ n.names[i] \in DOMAIN CodePoints
  BY <1>1
<1>3. a \in Seq(T)
  BY <1>2
<1>4. "name_separator" \in T /\ n.names[i] \in T
  BY <1>2 DEF HasTokens, Payload!Structural
<1>5. h \in Seq(T) /\ h # << >> /\ h[1] = n.names[i]
  BY <1>4
<1>6. MemberText(n, below, i) = h \o a
  BY DEF MemberText
<1> HIDE DEF h, a
<1>8. h \o a \in Seq(T) /\ h \o a # << >> /\ (h \o a)[1] = h[1]
  BY <1>3, <1>5, BeginsWith
<1> QED
  BY <1>2, <1>3, <1>5, <1>6, <1>8 DEF h, a

IsObject(n, f, U, T) == IsPayloadNode(n, U) /\ n.kind = "object" /\ HasTokens(n, T) /\ f \in [U -> Seq(T)]

AreMembers(n, f, l, T) ==
  /\ Len(n.names) \in Nat /\ DOMAIN n.names = 1 .. Len(n.names) /\ Len(n.kids) = Len(n.names)
  /\ MembersOf(l, n, f) \in [1 .. Len(n.names) -> Seq(T)]
  /\ \A j \in 1 .. Len(n.names) :
       /\ Payload!Sorted(l, n)[j] \in 1 .. Len(n.names)
       /\ MembersOf(l, n, f)[j] = MemberText(n, f, Payload!Sorted(l, n)[j])
  /\ \A i \in 1 .. Len(n.names) : \E j \in 1 .. Len(n.names) : Payload!Sorted(l, n)[j] = i

\* The members are written in the order of their names.
LEMMA MembersAre ==
  ASSUME NEW U, NEW T, NEW n, NEW below, IsObject(n, below, U, T), NEW l
  PROVE  AreMembers(n, below, l, T)
<1> IsPayloadNode(n, U) /\ n.kind = "object" /\ HasTokens(n, T) /\ below \in [U -> Seq(T)]
  BY DEF IsObject
<1> DEFINE k == Len(n.names)
           s == Payload!Sorted(l, n)
           x == MembersOf(l, n, below)
<1>1. IsNamed(n) /\ n.names \in Seq(DOMAIN CodePoints) /\ n.kids \in Seq(U) /\ DOMAIN n.names = DOMAIN n.kids
  BY DEF IsPayloadNode, IsNamed, IsNode
<1>2. k \in Nat /\ DOMAIN n.names = 1 .. k /\ Len(n.kids) = k
  BY <1>1
<1>3. IsOrder(s, k)
  BY <1>1, SortedIs
<1>4. s \in [1 .. k -> 1 .. k] /\ \A i \in 1 .. k : \E j \in 1 .. k : s[j] = i
  BY <1>3 DEF IsOrder
<1>5. x = [j \in DOMAIN s |-> MemberText(n, below, s[j])]
  BY DEF MembersOf
<1> HIDE DEF k, s, x
<1>6. \A j \in 1 .. k : s[j] \in 1 .. k /\ x[j] = MemberText(n, below, s[j])
  BY <1>4, <1>5
<1>7. \A i \in 1 .. k : MemberText(n, below, i) \in Seq(T)
  BY <1>2, MemberTextIs
<1>8. x = [j \in 1 .. k |-> x[j]]
  BY <1>4, <1>5
<1>9. x \in [1 .. k -> Seq(T)]
  BY <1>6, <1>7, <1>8
<1> QED
  BY <1>2, <1>4, <1>6, <1>9 DEF k, s, x, AreMembers

\* No text of a node is empty, or starts with the end of a list.
IsStart(a) == a # << >> /\ a[1] # "end_array" /\ a[1] # "end_object"

\* How the text of a node starts.
LEMMA NodeTextType ==
  ASSUME NEW U, NEW T, NEW n, IsPayloadNode(n, U), HasTokens(n, T), NEW below \in [U -> Seq(T)], NEW l
  PROVE  /\ Payload!NodeText(l, n, below) \in Seq(T) /\ Payload!NodeText(l, n, below) # << >>
         /\ n.kind = "array" => Payload!NodeText(l, n, below)[1] = "begin_array"
         /\ n.kind = "object" => Payload!NodeText(l, n, below)[1] = "begin_object"
         /\ n.kind \notin {"array", "object"} =>
              /\ Payload!NodeText(l, n, below) = << Payload!ValueKind(n) >>
              /\ Payload!NodeText(l, n, below)[1] = Payload!ValueKind(n)
              /\ Payload!ValueKind(n) \notin Payload!Structural
         /\ IsStart(Payload!NodeText(l, n, below))
<1> DEFINE text == Payload!NodeText(l, n, below)
<1>1. /\ "begin_array" \in T /\ "end_array" \in T /\ "begin_object" \in T /\ "end_object" \in T
      /\ "value_separator" \in T
  BY DEF HasTokens, Payload!Structural
<1>2. CASE n.kind = "array"
  <2> DEFINE x == ItemsOf(n, below)
             k == Len(n.kids)
  <2>1. n.kids \in Seq(U)
    BY DEF IsPayloadNode, IsNode
  <2>2. k \in Nat /\ DOMAIN n.kids = 1 .. k /\ \A i \in 1 .. k : n.kids[i] \in U
    BY <2>1
  <2>3. AreTexts(x, k, T)
    BY <2>2 DEF ItemsOf, AreTexts
  <2>4. text = Payload!Listed("begin_array", x, "end_array")
    BY <1>2, NodeTextIs
  <2> HIDE DEF x, k, text
  <2>5. text \in Seq(T) /\ text # << >> /\ text[1] = "begin_array"
    <3> DEFINE open == "begin_array"
               close == "end_array"
    <3>1. open \in T /\ close \in T /\ text = Payload!Listed(open, x, close)
      BY <1>1, <2>4
    <3> HIDE DEF open, close
    <3>2. Opens(text, T, open)
      BY <1>1, <2>3, <3>1, ListedType
    <3> QED
      BY <3>2 DEF open, Opens
  <2> QED
    BY <1>2, <2>5 DEF text, IsStart
<1>3. CASE n.kind = "object"
  <2> DEFINE x == MembersOf(l, n, below)
             k == Len(n.names)
  <2>1. AreTexts(x, k, T)
    <3>1. AreMembers(n, below, l, T)
      BY <1>3, MembersAre DEF IsObject
    <3> QED
      BY <3>1 DEF AreMembers, AreTexts
  <2>2. text = Payload!Listed("begin_object", x, "end_object")
    BY <1>3, NodeTextIs
  <2> HIDE DEF x, k, text
  <2>3. text \in Seq(T) /\ text # << >> /\ text[1] = "begin_object"
    <3> DEFINE open == "begin_object"
               close == "end_object"
    <3>1. open \in T /\ close \in T /\ text = Payload!Listed(open, x, close)
      BY <1>1, <2>2
    <3> HIDE DEF open, close
    <3>2. Opens(text, T, open)
      BY <1>1, <2>1, <3>1, ListedType
    <3> QED
      BY <3>2 DEF open, Opens
  <2> QED
    BY <1>3, <2>3 DEF text, IsStart
<1>4. CASE n.kind \notin {"array", "object"}
  <2>1. text = << Payload!ValueKind(n) >>
    BY <1>4, NodeTextIs
  <2>2. Payload!ValueKind(n) \in T /\ Payload!ValueKind(n) \notin Payload!Structural
    <3>1. n.kind \in T /\ "integer" \in T /\ n.kind \notin Payload!Structural
      BY DEF HasTokens, IsPayloadNode
    <3>2. "integer" \notin Payload!Structural
      BY DEF Payload!Structural
    <3> QED
      BY <3>1, <3>2 DEF Payload!ValueKind
  <2>3. Payload!ValueKind(n) # "end_array" /\ Payload!ValueKind(n) # "end_object"
    BY <2>2 DEF Payload!Structural
  <2> HIDE DEF text
  <2>4. text \in Seq(T) /\ text # << >> /\ text[1] = Payload!ValueKind(n)
    BY <2>1, <2>2
  <2> QED
    BY <1>4, <2>1, <2>2, <2>3, <2>4 DEF text, IsStart
<1> QED
  BY <1>2, <1>3, <1>4

-----------------------------------------------------------------------------
(* Two nodes. *)

KidsStart(n, f) == \A i \in DOMAIN n.kids : IsStart(f[n.kids[i]])

\* The texts of what is below one node and another tell whether it is the same.
KidsTell(m, n, f, g, R) ==
  \A i \in DOMAIN m.kids, j \in DOMAIN n.kids :
    /\ PrefixFree(f[m.kids[i]], g[n.kids[j]])
    /\ f[m.kids[i]] = g[n.kids[j]] <=> << m.kids[i], n.kids[j] >> \in R

\* The texts a and b do not go on where the other ends, and are equal if p.
Tells(a, b, p) == PrefixFree(a, b) /\ (a = b <=> p)

\* Lists tell their items.
LEMMA ListsTell ==
  ASSUME NEW S, NEW m, NEW n, NEW x, NEW y, NEW open \in S, NEW close \in S,
         IsItems(x, m, S, close), IsItems(y, n, S, close), ArePrefixFree(x, m, y, n),
         "value_separator" \in S, "value_separator" # close
  PROVE  Tells(Payload!Listed(open, x, close), Payload!Listed(open, y, close), x = y)
<1> DEFINE a == Payload!Listed(open, x, close)
           b == Payload!Listed(open, y, close)
<1>1. ASSUME Compatible(a, b) PROVE x = y
  BY <1>1, ListedTells, IsItems(x, m, S, close), IsItems(y, n, S, close), ArePrefixFree(x, m, y, n)
<1>2. x = y => a = b
  OBVIOUS
<1> HIDE DEF a, b
<1>3. a = b => Compatible(a, b)
  BY DEF Compatible
<1>4. Tells(a, b, x = y)
  BY <1>1, <1>2, <1>3 DEF Tells, PrefixFree
<1> QED
  BY <1>4 DEF a, b

IsNodes(m, n, U, T) ==
  /\ IsPayloadNode(m, U) /\ IsPayloadNode(n, U) /\ HasTokens(m, T) /\ HasTokens(n, T)
  /\ m.kind # "integral" /\ n.kind # "integral"

\* The tokens of a list.
LEMMA ListTokens ==
  ASSUME NEW n, NEW T, HasTokens(n, T)
  PROVE  /\ "begin_array" \in T /\ "end_array" \in T /\ "begin_object" \in T /\ "end_object" \in T
         /\ "value_separator" \in T /\ "value_separator" # "end_array" /\ "value_separator" # "end_object"
  BY DEF HasTokens, Payload!Structural

\* Arrays are the same if what is below is, in order.
LEMMA ArraysTell ==
  ASSUME NEW U, NEW T, NEW m, NEW n, IsNodes(m, n, U, T), m.kind = "array", n.kind = "array",
         NEW f \in [U -> Seq(T)], NEW g \in [U -> Seq(T)], NEW R,
         KidsStart(m, f), KidsStart(n, g), KidsTell(m, n, f, g, R), NEW l, NEW k
  PROVE  Tells(Payload!NodeText(l, m, f), Payload!NodeText(k, n, g), Payload!SameNode(m, n, R))
<1> DEFINE x == ItemsOf(m, f)
           y == ItemsOf(n, g)
           p == Len(m.kids)
           q == Len(n.kids)
           open == "begin_array"
           close == "end_array"
<1>1. m.kids \in Seq(U) /\ n.kids \in Seq(U)
  BY DEF IsNodes, IsPayloadNode, IsNode
<1>2. /\ p \in Nat /\ DOMAIN m.kids = 1 .. p /\ (\A i \in 1 .. p : m.kids[i] \in U)
      /\ q \in Nat /\ DOMAIN n.kids = 1 .. q /\ \A i \in 1 .. q : n.kids[i] \in U
  BY <1>1
<1>3. /\ x = [i \in 1 .. p |-> f[m.kids[i]]]
      /\ y = [i \in 1 .. q |-> g[n.kids[i]]]
  BY <1>2 DEF ItemsOf
<1>4. /\ Payload!NodeText(l, m, f) = Payload!Listed(open, x, close)
      /\ Payload!NodeText(k, n, g) = Payload!Listed(open, y, close)
  BY NodeTextIs
<1>5. "value_separator" \in T /\ "value_separator" # close /\ open \in T /\ close \in T
  BY ListTokens DEF IsNodes
<1>6. /\ \A i \in 1 .. p : f[m.kids[i]] # << >> /\ f[m.kids[i]][1] # close
      /\ \A i \in 1 .. q : g[n.kids[i]] # << >> /\ g[n.kids[i]][1] # close
  BY <1>2 DEF KidsStart, IsStart
<1> HIDE DEF x, y, p, q, open, close
<1>7. IsItems(x, p, T, close)
  BY <1>2, <1>3, <1>6 DEF IsItems
<1>8. IsItems(y, q, T, close)
  BY <1>2, <1>3, <1>6 DEF IsItems
<1>9. \A i \in 1 .. p, j \in 1 .. q :
        PrefixFree(f[m.kids[i]], g[n.kids[j]]) /\ (f[m.kids[i]] = g[n.kids[j]] <=> << m.kids[i], n.kids[j] >> \in R)
  BY <1>2 DEF KidsTell
<1>10. ArePrefixFree(x, p, y, q)
  <2> SUFFICES ASSUME NEW i \in 1 .. p, i <= q PROVE PrefixFree(x[i], y[i])
    BY DEF ArePrefixFree
  <2>1. i \in 1 .. q
    BY <1>2
  <2>2. x[i] = f[m.kids[i]] /\ y[i] = g[n.kids[i]]
    BY <1>3, <2>1
  <2> QED
    BY <1>9, <2>1, <2>2
<1>11. Tells(Payload!Listed(open, x, close), Payload!Listed(open, y, close), x = y)
  BY <1>5, <1>7, <1>8, <1>10, ListsTell
<1>12. x = y <=> p = q /\ \A i \in 1 .. p : << m.kids[i], n.kids[i] >> \in R
  <2>1. ASSUME x = y PROVE p = q
    <3>1. DOMAIN x = 1 .. p /\ DOMAIN y = 1 .. q
      BY <1>3
    <3> QED
      BY <1>2, <2>1, <3>1
  <2>2. ASSUME p = q PROVE x = y <=> \A i \in 1 .. p : << m.kids[i], n.kids[i] >> \in R
    <3>1. x = y <=> \A i \in 1 .. p : f[m.kids[i]] = g[n.kids[i]]
      BY <1>3, <2>2
    <3>2. \A i \in 1 .. p : f[m.kids[i]] = g[n.kids[i]] <=> << m.kids[i], n.kids[i] >> \in R
      BY <1>9, <2>2
    <3> QED
      BY <3>1, <3>2
  <2> QED
    BY <2>1, <2>2
<1>13. Payload!SameNode(m, n, R) <=> p = q /\ \A i \in 1 .. p : << m.kids[i], n.kids[i] >> \in R
  <2>1. Payload!ValueKind(m) = Payload!ValueKind(n)
    BY DEF Payload!ValueKind
  <2>2. m.kind # "object"
    OBVIOUS
  <2>3. Payload!SameNode(m, n, R) <=>
          /\ Payload!ValueKind(m) = Payload!ValueKind(n) /\ Len(m.kids) = Len(n.kids)
          /\ \A i \in DOMAIN m.kids : << m.kids[i], n.kids[i] >> \in R
    BY <2>2, Zenon DEF Payload!SameNode
  <2> QED
    BY <1>2, <2>1, <2>3 DEF p, q
<1>14. Payload!SameNode(m, n, R) <=> x = y
  BY <1>12, <1>13
<1> QED
  BY <1>4, <1>11, <1>14 DEF Tells

IsMember(n, f, i, T) ==
  /\ i \in DOMAIN n.kids /\ f[n.kids[i]] \in Seq(T) /\ << n.names[i], "name_separator" >> \in Seq(T)
  /\ MemberText(n, f, i) \in Seq(T) /\ MemberText(n, f, i) # << >>
  /\ MemberText(n, f, i)[1] = n.names[i]

\* A member of an object, and what is written of it.
LEMMA MembersOfObject ==
  ASSUME NEW U, NEW T, NEW n, NEW f, IsObject(n, f, U, T), NEW i, i \in DOMAIN n.names
  PROVE  IsMember(n, f, i, T)
<1>1. IsPayloadNode(n, U) /\ n.kind = "object" /\ HasTokens(n, T) /\ f \in [U -> Seq(T)]
  BY DEF IsObject
<1> QED
  BY <1>1, MemberTextIs DEF IsMember

\* The texts of members tell name and value.
LEMMA MembersTell ==
  ASSUME NEW U, NEW T, NEW m, NEW n, IsNodes(m, n, U, T), m.kind = "object", n.kind = "object",
         NEW f \in [U -> Seq(T)], NEW g \in [U -> Seq(T)], NEW R, KidsTell(m, n, f, g, R),
         NEW i \in DOMAIN m.names, NEW j \in DOMAIN n.names
  PROVE  Tells(MemberText(m, f, i), MemberText(n, g, j),
               m.names[i] = n.names[j] /\ << m.kids[i], n.kids[j] >> \in R)
<1> DEFINE a == f[m.kids[i]]
           b == g[n.kids[j]]
           c == << m.names[i], "name_separator" >>
           d == << n.names[j], "name_separator" >>
<1>1. IsPayloadNode(m, U) /\ IsPayloadNode(n, U) /\ HasTokens(m, T) /\ HasTokens(n, T)
  BY DEF IsNodes
<1> IsObject(m, f, U, T) /\ IsObject(n, g, U, T)
  BY <1>1 DEF IsObject
<1> IsMember(m, f, i, T) /\ IsMember(n, g, j, T)
  BY MembersOfObject
<1>2. /\ i \in DOMAIN m.kids /\ a \in Seq(T) /\ c \in Seq(T) /\ MemberText(m, f, i) \in Seq(T)
      /\ MemberText(m, f, i) # << >> /\ MemberText(m, f, i)[1] = m.names[i]
  BY DEF IsMember
<1>3. /\ j \in DOMAIN n.kids /\ b \in Seq(T) /\ d \in Seq(T) /\ MemberText(n, g, j) \in Seq(T)
      /\ MemberText(n, g, j) # << >> /\ MemberText(n, g, j)[1] = n.names[j]
  BY DEF IsMember
<1>4. PrefixFree(a, b) /\ (a = b <=> << m.kids[i], n.kids[j] >> \in R)
  BY <1>2, <1>3 DEF KidsTell
<1>5. MemberText(m, f, i) = c \o a /\ MemberText(n, g, j) = d \o b
  BY DEF MemberText
<1>6. m.names[i] = n.names[j] => c = d
  OBVIOUS
<1>7. CASE m.names[i] = n.names[j]
  <2> HIDE DEF a, b, c, d
  <2>1. c = d
    BY <1>6, <1>7
  <2>2. Compatible(c \o a, c \o b) => a = b
    BY <1>2, <1>3, <1>4, SameBeginning DEF PrefixFree
  <2>3. c \o a = c \o b => Compatible(c \o a, c \o b)
    BY DEF Compatible
  <2> QED
    BY <1>4, <1>5, <1>7, <2>1, <2>2, <2>3 DEF Tells, PrefixFree
<1>8. CASE m.names[i] # n.names[j]
  <2> DEFINE x == MemberText(m, f, i)
             y == MemberText(n, g, j)
  <2> HIDE DEF x, y
  <2>1. ~Compatible(x, y)
    BY <1>2, <1>3, <1>8, FirstDiffers DEF x, y
  <2>2. x = y => Compatible(x, y)
    BY DEF Compatible
  <2> QED
    BY <1>8, <2>1, <2>2 DEF Tells, PrefixFree, x, y
<1> QED
  BY <1>7, <1>8

\* The members of an object are items of a list.
LEMMA MembersAreItems ==
  ASSUME NEW U, NEW T, NEW n, IsPayloadNode(n, U), n.kind = "object", HasTokens(n, T),
         NEW f \in [U -> Seq(T)], NEW l
  PROVE  IsItems(MembersOf(l, n, f), Len(n.names), T, "end_object")
<1> DEFINE x == MembersOf(l, n, f)
           s == Payload!Sorted(l, n)
           k == Len(n.names)
<1>1. /\ k \in Nat /\ DOMAIN n.names = 1 .. k /\ x \in [1 .. k -> Seq(T)]
      /\ \A j \in 1 .. k : s[j] \in 1 .. k /\ x[j] = MemberText(n, f, s[j])
  <2>1. AreMembers(n, f, l, T)
    BY MembersAre DEF IsObject
  <2> QED
    BY <2>1 DEF AreMembers
<1>2. "end_object" \notin DOMAIN CodePoints
  BY PayloadsAssumption DEF Payload!Structural
<1>3. ASSUME NEW i \in 1 .. k
      PROVE  /\ MemberText(n, f, i) # << >> /\ MemberText(n, f, i)[1] = n.names[i]
             /\ n.names[i] \in DOMAIN CodePoints
  BY <1>1, MemberTextIs
<1> HIDE DEF x, s, k
<1>4. ASSUME NEW j \in 1 .. k PROVE x[j] # << >> /\ x[j][1] # "end_object"
  <2>1. s[j] \in 1 .. k /\ x[j] = MemberText(n, f, s[j])
    BY <1>1
  <2> QED
    BY <1>2, <1>3, <2>1
<1>5. IsItems(x, k, T, "end_object")
  BY <1>1, <1>4 DEF IsItems
<1> QED
  BY <1>5 DEF x, k

\* Objects are the same if they have the same members, in any order.
LEMMA ObjectsTell ==
  ASSUME NEW U, NEW T, NEW m, NEW n, IsNodes(m, n, U, T), m.kind = "object", n.kind = "object",
         NEW f \in [U -> Seq(T)], NEW g \in [U -> Seq(T)], NEW R,
         KidsTell(m, n, f, g, R), NEW l, NEW k
  PROVE  Tells(Payload!NodeText(l, m, f), Payload!NodeText(k, n, g), Payload!SameNode(m, n, R))
<1> DEFINE x == MembersOf(l, m, f)
           y == MembersOf(k, n, g)
           p == Len(m.names)
           q == Len(n.names)
           s == Payload!Sorted(l, m)
           t == Payload!Sorted(k, n)
           open == "begin_object"
           close == "end_object"
<1>1. IsPayloadNode(m, U) /\ IsPayloadNode(n, U) /\ HasTokens(m, T) /\ HasTokens(n, T)
  BY DEF IsNodes
<1> IsObject(m, f, U, T) /\ IsObject(n, g, U, T)
  BY <1>1 DEF IsObject
<1> AreMembers(m, f, l, T) /\ AreMembers(n, g, k, T)
  BY MembersAre
<1>2. /\ p \in Nat /\ DOMAIN m.names = 1 .. p /\ Len(m.kids) = p /\ x \in [1 .. p -> Seq(T)]
      /\ \A j \in 1 .. p : s[j] \in 1 .. p /\ x[j] = MemberText(m, f, s[j])
      /\ \A i \in 1 .. p : \E j \in 1 .. p : s[j] = i
  BY DEF AreMembers
<1>3. /\ q \in Nat /\ DOMAIN n.names = 1 .. q /\ Len(n.kids) = q /\ y \in [1 .. q -> Seq(T)]
      /\ \A j \in 1 .. q : t[j] \in 1 .. q /\ y[j] = MemberText(n, g, t[j])
  BY DEF AreMembers
<1>4. /\ Payload!NodeText(l, m, f) = Payload!Listed(open, x, close)
      /\ Payload!NodeText(k, n, g) = Payload!Listed(open, y, close)
  BY NodeTextIs
<1>5. "value_separator" \in T /\ "value_separator" # close /\ open \in T /\ close \in T
  BY <1>1, ListTokens
<1>6. IsItems(x, p, T, close) /\ IsItems(y, q, T, close)
  BY <1>1, MembersAreItems
<1>7. ASSUME NEW i \in 1 .. p, NEW j \in 1 .. q
      PROVE  Tells(MemberText(m, f, i), MemberText(n, g, j),
                   m.names[i] = n.names[j] /\ << m.kids[i], n.kids[j] >> \in R)
  BY <1>2, <1>3, MembersTell
<1> HIDE DEF x, y, p, q, s, t, open, close
<1>8. ArePrefixFree(x, p, y, q)
  <2> SUFFICES ASSUME NEW i \in 1 .. p, i <= q PROVE PrefixFree(x[i], y[i])
    BY DEF ArePrefixFree
  <2>1. i \in 1 .. q
    BY <1>2, <1>3
  <2>2. s[i] \in 1 .. p /\ t[i] \in 1 .. q /\ x[i] = MemberText(m, f, s[i]) /\ y[i] = MemberText(n, g, t[i])
    BY <1>2, <1>3, <2>1
  <2>3. Tells(MemberText(m, f, s[i]), MemberText(n, g, t[i]),
              m.names[s[i]] = n.names[t[i]] /\ << m.kids[s[i]], n.kids[t[i]] >> \in R)
    BY <1>7, <2>2
  <2> QED
    BY <2>2, <2>3 DEF Tells
<1>9. Tells(Payload!Listed(open, x, close), Payload!Listed(open, y, close), x = y)
  BY <1>5, <1>6, <1>8, ListsTell
<1> DEFINE same(i, j) == m.names[i] = n.names[j] /\ << m.kids[i], n.kids[j] >> \in R
<1>10. ASSUME NEW i \in 1 .. p, NEW j \in 1 .. q
       PROVE  MemberText(m, f, i) = MemberText(n, g, j) <=> same(i, j)
  BY <1>7 DEF Tells
<1>11. Payload!SameNode(m, n, R) <=> p = q /\ \A i \in 1 .. p : \E j \in 1 .. q : same(i, j)
  <2>1. Payload!ValueKind(m) = Payload!ValueKind(n)
    BY DEF Payload!ValueKind
  <2>2. Payload!SameNode(m, n, R) <=>
          /\ Payload!ValueKind(m) = Payload!ValueKind(n) /\ Len(m.kids) = Len(n.kids)
          /\ \A i \in DOMAIN m.names : \E j \in DOMAIN n.names : same(i, j)
    BY Zenon DEF Payload!SameNode
  <2> HIDE DEF same
  <2> QED
    BY <1>2, <1>3, <2>1, <2>2
<1> HIDE DEF same
<1>12. ASSUME x = y PROVE p = q /\ \A i \in 1 .. p : \E j \in 1 .. q : same(i, j)
  <2>1. DOMAIN x = 1 .. p /\ DOMAIN y = 1 .. q
    BY <1>2, <1>3
  <2>2. p = q
    BY <1>2, <1>3, <1>12, <2>1
  <2>3. ASSUME NEW i \in 1 .. p PROVE \E j \in 1 .. q : same(i, j)
    <3>1. PICK j \in 1 .. p : s[j] = i
      BY <1>2
    <3>2. x[j] = MemberText(m, f, i) /\ y[j] = MemberText(n, g, t[j]) /\ t[j] \in 1 .. q
      BY <1>2, <1>3, <2>2, <3>1
    <3>3. same(i, t[j])
      BY <1>10, <1>12, <3>2
    <3> QED
      BY <3>2, <3>3
  <2> QED
    BY <2>2, <2>3
<1>13. ASSUME p = q, \A i \in 1 .. p : \E j \in 1 .. q : same(i, j) PROVE x = y
  <2>1. NamesOf(m) \subseteq NamesOf(n)
    <3> SUFFICES ASSUME NEW a \in NamesOf(m) PROVE a \in NamesOf(n)
      OBVIOUS
    <3>1. PICK i \in 1 .. p : a = m.names[i]
      BY <1>2 DEF NamesOf
    <3>2. PICK j \in 1 .. q : same(i, j)
      BY <1>13
    <3>3. j \in DOMAIN n.names /\ n.names[j] = a
      BY <1>3, <3>1, <3>2 DEF same
    <3> QED
      BY <3>3 DEF NamesOf
  <2>2. IsNamed(m) /\ IsNamed(n)
    BY <1>1 DEF IsPayloadNode
  <2>3. Len(m.names) = Len(n.names)
    BY <1>13 DEF p, q
  <2>4. \A j \in 1 .. p : m.names[s[j]] = n.names[t[j]]
    <3>1. AreNamedAlike(m, n)
      BY <2>1, <2>2, <2>3 DEF AreNamedAlike
    <3>2. \A j \in 1 .. Len(m.names) :
            m.names[Payload!Sorted(l, m)[j]] = n.names[Payload!Sorted(k, n)[j]]
      BY <3>1, SortedAlike
    <3> QED
      BY <3>2 DEF p, s, t
  <2>5. \A i, j \in 1 .. q : n.names[i] = n.names[j] => i = j
    BY <1>3, <2>2 DEF IsNamed
  <2>6. ASSUME NEW j \in 1 .. p PROVE x[j] = y[j]
    <3>1. s[j] \in 1 .. p /\ t[j] \in 1 .. q /\ x[j] = MemberText(m, f, s[j]) /\ y[j] = MemberText(n, g, t[j])
      BY <1>2, <1>3, <1>13
    <3>2. PICK i \in 1 .. q : same(s[j], i)
      BY <1>13, <3>1
    <3>3. n.names[i] = n.names[t[j]]
      BY <2>4, <3>2 DEF same
    <3>4. i = t[j]
      BY <2>5, <3>1, <3>3
    <3> QED
      BY <1>10, <3>1, <3>2, <3>4
  <2> QED
    BY <1>2, <1>3, <1>13, <2>6
<1>14. Payload!SameNode(m, n, R) <=> x = y
  BY <1>11, <1>12, <1>13
<1> QED
  BY <1>4, <1>9, <1>14 DEF Tells

AreNodesBelow(m, n, f, g, U, T, R) ==
  /\ IsNodes(m, n, U, T) /\ f \in [U -> Seq(T)] /\ g \in [U -> Seq(T)]
  /\ KidsStart(m, f) /\ KidsStart(n, g) /\ KidsTell(m, n, f, g, R)

\* The first token of a node's text.
StartOf(n) ==
  CASE n.kind = "array"  -> "begin_array"
    [] n.kind = "object" -> "begin_object"
    [] OTHER             -> n.kind

\* The text of a node starts with it.
LEMMA NodeTextStarts ==
  ASSUME NEW U, NEW T, NEW n, IsPayloadNode(n, U), HasTokens(n, T), n.kind # "integral",
         NEW f \in [U -> Seq(T)], NEW l
  PROVE  Opens(Payload!NodeText(l, n, f), T, StartOf(n))
<1> DEFINE text == Payload!NodeText(l, n, f)
<1>1. text \in Seq(T) /\ text # << >>
  BY NodeTextType
<1>2. n.kind = "array" => text[1] = "begin_array"
  BY NodeTextType
<1>3. n.kind = "object" => text[1] = "begin_object"
  BY NodeTextType
<1>4. n.kind \notin {"array", "object"} => text[1] = n.kind
  BY NodeTextType DEF Payload!ValueKind
<1>5. text[1] = StartOf(n)
  <2> HIDE DEF text
  <2> QED
    BY <1>2, <1>3, <1>4 DEF StartOf
<1> QED
  BY <1>1, <1>5 DEF Opens

\* Nodes of different kinds start differently.
LEMMA KindsTell ==
  ASSUME NEW U, NEW T, NEW m, NEW n, IsNodes(m, n, U, T), m.kind # n.kind,
         NEW f \in [U -> Seq(T)], NEW g \in [U -> Seq(T)], NEW R, NEW l, NEW k
  PROVE  Tells(Payload!NodeText(l, m, f), Payload!NodeText(k, n, g), Payload!SameNode(m, n, R))
<1> DEFINE a == Payload!NodeText(l, m, f)
           b == Payload!NodeText(k, n, g)
<1>1. /\ IsPayloadNode(m, U) /\ IsPayloadNode(n, U) /\ HasTokens(m, T) /\ HasTokens(n, T)
      /\ m.kind # "integral" /\ n.kind # "integral"
  BY DEF IsNodes
<1>2. Opens(a, T, StartOf(m)) /\ Opens(b, T, StartOf(n))
  BY <1>1, NodeTextStarts
<1>3. StartOf(m) # StartOf(n)
  <2>1. m.kind \notin Payload!Structural /\ n.kind \notin Payload!Structural
    BY <1>1 DEF IsPayloadNode
  <2>2. /\ m.kind # "begin_array" /\ m.kind # "begin_object"
        /\ n.kind # "begin_array" /\ n.kind # "begin_object"
    BY <2>1 DEF Payload!Structural
  <2> QED
    BY <2>2 DEF StartOf
<1>4. ~Payload!SameNode(m, n, R)
  BY <1>1 DEF Payload!SameNode, Payload!ValueKind
<1> HIDE DEF a, b
<1>5. ~Compatible(a, b)
  BY <1>2, <1>3, FirstDiffers DEF Opens
<1>6. a = b => Compatible(a, b)
  BY DEF Compatible
<1> QED
  BY <1>4, <1>5, <1>6 DEF Tells, PrefixFree, a, b

\* The texts of nodes tell whether they are the same, if those of what is below do.
LEMMA NodesTell ==
  ASSUME NEW U, NEW T, NEW m, NEW n, NEW f, NEW g, NEW R, AreNodesBelow(m, n, f, g, U, T, R), NEW l, NEW k
  PROVE  Tells(Payload!NodeText(l, m, f), Payload!NodeText(k, n, g), Payload!SameNode(m, n, R))
<1>1. /\ IsNodes(m, n, U, T) /\ f \in [U -> Seq(T)] /\ g \in [U -> Seq(T)]
      /\ KidsStart(m, f) /\ KidsStart(n, g) /\ KidsTell(m, n, f, g, R)
  BY DEF AreNodesBelow
<1>2. CASE m.kind # n.kind
  BY <1>1, <1>2, KindsTell
<1>3. CASE m.kind = "array" /\ n.kind = "array"
  BY <1>1, <1>3, ArraysTell
<1>4. CASE m.kind = "object" /\ n.kind = "object"
  BY <1>1, <1>4, ObjectsTell
<1>5. CASE m.kind = n.kind /\ m.kind \notin {"array", "object"}
  <2> DEFINE a == Payload!NodeText(l, m, f)
             b == Payload!NodeText(k, n, g)
  <2>1. a = << Payload!ValueKind(m) >> /\ b = << Payload!ValueKind(n) >>
    BY <1>5, NodeTextIs
  <2>2. Payload!ValueKind(m) = Payload!ValueKind(n)
    BY <1>5 DEF Payload!ValueKind
  <2>3. m.kids = << >> /\ n.kids = << >>
    BY <1>1, <1>5 DEF IsNodes, IsPayloadNode
  <2>4. m.kind # "object" /\ DOMAIN m.kids = {}
    BY <1>5, <2>3
  <2>5. Payload!SameNode(m, n, R)
    BY <2>2, <2>3, <2>4 DEF Payload!SameNode
  <2>6. a = b
    BY <2>1, <2>2
  <2> QED
    BY <2>5, <2>6 DEF Tells, PrefixFree
<1> QED
  BY <1>2, <1>3, <1>4, <1>5

-----------------------------------------------------------------------------
(* The texts of a payload, depth by depth. *)

Tokens(g) == Payload!Structural \cup DOMAIN CodePoints \cup {"integer"} \cup {g[m].kind : m \in DOMAIN g}

IsPayloadGraph(g) ==
  /\ IsGraph(g)
  /\ \A m \in DOMAIN g : IsPayloadNode(g[m], DOMAIN g) /\ HasTokens(g[m], Tokens(g))

\* What the assumption says of the nodes.
LEMMA PayloadNodesAre == \A g \in Graphs : IsPayloadGraph(g)
<1> SUFFICES ASSUME NEW g \in Graphs PROVE IsPayloadGraph(g)
  OBVIOUS
<1>1. IsGraph(g)
  BY PayloadsAre
<1>2. ASSUME NEW m \in DOMAIN g PROVE IsPayloadNode(g[m], DOMAIN g)
  <2>1. IsNode(g[m], DOMAIN g)
    BY <1>1 DEF IsGraph
  <2>2. g[m].kind \notin Payload!Structural
    BY PayloadsAssumption
  <2>3. g[m].kind = "object" => IsNamed(g[m])
    BY PayloadsAssumption DEF IsNamed
  <2>4. g[m].kind \notin {"array", "object"} => g[m].kids = << >>
    BY PayloadsAssumption
  <2> QED
    BY <2>1, <2>2, <2>3, <2>4 DEF IsPayloadNode
<1>3. ASSUME NEW m \in DOMAIN g PROVE HasTokens(g[m], Tokens(g))
  BY DEF HasTokens, Tokens
<1> QED
  BY <1>1, <1>2, <1>3 DEF IsPayloadGraph

\* A function that is defined by recursion stays where its steps lead.
LEMMA RecursionStays ==
  ASSUME NEW S, NEW n \in Nat, NEW step \in [(1 .. n) \X S -> S], NEW f, f[0] \in S,
         \A d \in 1 .. n : f[d - 1] \in S => f[d] = step[<< d, f[d - 1] >>]
  PROVE  \A d \in 0 .. n : f[d] \in S
<1> DEFINE T == {d \in 0 .. n : f[d] \in S}
<1>1. 0 \in T
  OBVIOUS
<1>2. ASSUME NEW i \in 0 .. n - 1, i \in T PROVE i + 1 \in T
  <2>1. i + 1 \in 1 .. n /\ (i + 1) - 1 = i /\ i + 1 \in 0 .. n /\ f[i] \in S
    BY <1>2
  <2>2. f[i + 1] = step[<< i + 1, f[i] >>]
    BY <2>1
  <2>3. << i + 1, f[i] >> \in (1 .. n) \X S
    BY <2>1
  <2> QED
    BY <2>1, <2>2, <2>3
<1>3. 0 .. n \subseteq T
  <2> HIDE DEF T
  <2> QED
    BY <1>1, <1>2, NumberInduction
<1> QED
  BY <1>3

\* The texts of CanonicalTree, of a language and a payload.
TextsFrom(l, g) ==
  LET text[d \in 0 .. MaxDepth] ==
        IF d = 0 THEN [m \in DOMAIN g |-> << >>]
        ELSE [m \in DOMAIN g |-> Payload!NodeText(l, g[m], text[d - 1])]
  IN text

SamesFrom(g) ==
  LET pairs == (DOMAIN g) \X (DOMAIN g)
      same[d \in 0 .. MaxDepth] ==
        IF d = 0 THEN pairs ELSE {p \in pairs : Payload!SameNode(g[p[1]], g[p[2]], same[d - 1])}
  IN same

\* They are the Text and the SameValue of CanonicalTree.
LEMMA TextsOfGraph ==
  /\ \A l, r : Payload!Text(l, r) = TextsFrom(l, graph)[MaxDepth][r]
  /\ \A a, b : Payload!SameValue(a, b) = (<< a, b >> \in SamesFrom(graph)[MaxDepth])
<1>1. \A l, r : Payload!Text(l, r) = TextsFrom(l, graph)[MaxDepth][r]
  BY Zenon DEF Payload!Text, TextsFrom
<1>2. \A a, b : Payload!SameValue(a, b) = (<< a, b >> \in SamesFrom(graph)[MaxDepth])
  BY Zenon DEF Payload!SameValue, SamesFrom
<1> QED
  BY <1>1, <1>2

AreTextsOf(text, l, g) ==
  /\ \A d \in 0 .. MaxDepth : text[d] \in [DOMAIN g -> Seq(Tokens(g))]
  /\ \A d \in 1 .. MaxDepth, m \in DOMAIN g : text[d][m] = Payload!NodeText(l, g[m], text[d - 1])

\* They are what their recursive definition says.
LEMMA TextsAre ==
  ASSUME NEW g, IsPayloadGraph(g), NEW l, MaxDepth \in Nat
  PROVE  AreTextsOf(TextsFrom(l, g), l, g)
<1> DEFINE U == DOMAIN g
           S == [U -> Seq(Tokens(g))]
           none == [m \in U |-> << >>]
           next(x) == [m \in U |-> Payload!NodeText(l, g[m], x)]
           Body(f) == [d \in 0 .. MaxDepth |->
                         IF d = 0 THEN [m \in DOMAIN g |-> << >>]
                         ELSE [m \in DOMAIN g |-> Payload!NodeText(l, g[m], f[d - 1])]]
           text == CHOOSE f : f = Body(f)
           step == [p \in (1 .. MaxDepth) \X S |-> next(p[2])]
<1>1. none \in S
  OBVIOUS
<1>2. ASSUME NEW x \in S PROVE next(x) \in S
  <2>1. \A m \in U : IsPayloadNode(g[m], U) /\ HasTokens(g[m], Tokens(g))
    BY DEF IsPayloadGraph
  <2>2. \A m \in U : Payload!NodeText(l, g[m], x) \in Seq(Tokens(g))
    BY <2>1, NodeTextType
  <2> QED
    BY <2>2
<1>3. \A x : \A m \in U : next(x)[m] = Payload!NodeText(l, g[m], x)
  OBVIOUS
<1> HIDE DEF S, next
<1>5. step \in [(1 .. MaxDepth) \X S -> S]
  BY <1>2
<1>6. \A d \in 1 .. MaxDepth, x \in S : step[<< d, x >>] = next(x)
  OBVIOUS
<1> HIDE DEF step
<1>7. PICK h : IsRecursion(h, S, none, MaxDepth, step)
  BY <1>1, <1>5, RecursionExists
<1>8. /\ h \in [0 .. MaxDepth -> S] /\ h[0] = none
      /\ \A d \in 1 .. MaxDepth : h[d] = next(h[d - 1])
  <2>1. /\ h \in [0 .. MaxDepth -> S] /\ h[0] = none
        /\ \A d \in 1 .. MaxDepth : h[d] = step[<< d, h[d - 1] >>]
    BY <1>7 DEF IsRecursion
  <2>2. \A d \in 1 .. MaxDepth : d - 1 \in 0 .. MaxDepth
    OBVIOUS
  <2> QED
    BY <1>6, <2>1, <2>2
<1>9. h = Body(h)
  <2>1. ASSUME NEW d \in 0 .. MaxDepth
        PROVE  h[d] = IF d = 0 THEN [m \in DOMAIN g |-> << >>]
                      ELSE [m \in DOMAIN g |-> Payload!NodeText(l, g[m], h[d - 1])]
    <3>1. CASE d = 0
      BY <1>8, <3>1
    <3>2. CASE d # 0
      <4>1. d \in 1 .. MaxDepth
        BY <3>2
      <4>2. h[d] = next(h[d - 1])
        BY <1>8, <4>1
      <4> QED
        BY <3>2, <4>2, Zenon DEF next
    <3> QED
      BY <3>1, <3>2
  <2>2. h = [d \in 0 .. MaxDepth |-> h[d]]
    BY <1>8
  <2> QED
    BY <2>1, <2>2, Zenon
<1>10. text = Body(text)
  <2>1. \E e : e = Body(e)
    BY <1>9
  <2> HIDE DEF Body
  <2> QED
    BY <2>1
<1>11. TextsFrom(l, g) = text
  BY Zenon DEF TextsFrom
<1> HIDE DEF text
<1>12. text[0] = none /\ \A d \in 1 .. MaxDepth : text[d] = next(text[d - 1])
  <2>1. 0 \in 0 .. MaxDepth
    OBVIOUS
  <2>2. text[0] = none
    BY <1>10, <2>1
  <2>3. ASSUME NEW d \in 1 .. MaxDepth PROVE text[d] = next(text[d - 1])
    <3>1. d \in 0 .. MaxDepth /\ d # 0
      OBVIOUS
    <3>2. text[d] = Body(text)[d]
      BY <1>10
    <3>3. Body(text)[d] = [m \in DOMAIN g |-> Payload!NodeText(l, g[m], text[d - 1])]
      BY <3>1
    <3> HIDE DEF Body
    <3> QED
      BY <3>2, <3>3 DEF next
  <2> QED
    BY <2>2, <2>3
<1> HIDE DEF Body, none
<1>13. \A d \in 0 .. MaxDepth : text[d] \in S
  <2>1. \A d \in 1 .. MaxDepth : text[d - 1] \in S => text[d] = step[<< d, text[d - 1] >>]
    BY <1>6, <1>12
  <2>2. text[0] \in S
    BY <1>1, <1>12
  <2> QED
    BY <1>5, <2>1, <2>2, RecursionStays
<1>14. \A d \in 1 .. MaxDepth, m \in U : text[d][m] = Payload!NodeText(l, g[m], text[d - 1])
  BY <1>3, <1>12
<1> QED
  BY <1>11, <1>13, <1>14 DEF AreTextsOf, S

AreSames(same, g) ==
  \A d \in 1 .. MaxDepth, x \in DOMAIN g, y \in DOMAIN g :
    << x, y >> \in same[d] <=> Payload!SameNode(g[x], g[y], same[d - 1])

\* So are the pairs of equal values.
LEMMA SamesAre ==
  ASSUME NEW g, MaxDepth \in Nat
  PROVE  AreSames(SamesFrom(g), g)
<1> DEFINE U == (DOMAIN g) \X (DOMAIN g)
           S == SUBSET U
           next(x) == {p \in U : Payload!SameNode(g[p[1]], g[p[2]], x)}
           Body(f) == [d \in 0 .. MaxDepth |->
                         IF d = 0 THEN U ELSE {p \in U : Payload!SameNode(g[p[1]], g[p[2]], f[d - 1])}]
           same == CHOOSE f : f = Body(f)
           step == [p \in (1 .. MaxDepth) \X S |-> next(p[2])]
<1>1. U \in S
  OBVIOUS
<1>2. ASSUME NEW x \in S PROVE next(x) \in S
  OBVIOUS
<1>3. \A x : \A a \in DOMAIN g, b \in DOMAIN g : << a, b >> \in next(x) <=> Payload!SameNode(g[a], g[b], x)
  OBVIOUS
<1> HIDE DEF S, next
<1>5. step \in [(1 .. MaxDepth) \X S -> S]
  BY <1>2
<1>6. \A d \in 1 .. MaxDepth, x \in S : step[<< d, x >>] = next(x)
  OBVIOUS
<1> HIDE DEF step
<1>7. PICK h : IsRecursion(h, S, U, MaxDepth, step)
  BY <1>1, <1>5, RecursionExists
<1>8. /\ h \in [0 .. MaxDepth -> S] /\ h[0] = U
      /\ \A d \in 1 .. MaxDepth : h[d] = next(h[d - 1])
  <2>1. /\ h \in [0 .. MaxDepth -> S] /\ h[0] = U
        /\ \A d \in 1 .. MaxDepth : h[d] = step[<< d, h[d - 1] >>]
    BY <1>7 DEF IsRecursion
  <2>2. \A d \in 1 .. MaxDepth : d - 1 \in 0 .. MaxDepth
    OBVIOUS
  <2> QED
    BY <1>6, <2>1, <2>2
<1>9. h = Body(h)
  <2>1. ASSUME NEW d \in 0 .. MaxDepth
        PROVE  h[d] = IF d = 0 THEN U ELSE {p \in U : Payload!SameNode(g[p[1]], g[p[2]], h[d - 1])}
    <3>1. CASE d = 0
      BY <1>8, <3>1
    <3>2. CASE d # 0
      <4>1. d \in 1 .. MaxDepth
        BY <3>2
      <4>2. h[d] = next(h[d - 1])
        BY <1>8, <4>1
      <4> QED
        BY <3>2, <4>2, Zenon DEF next
    <3> QED
      BY <3>1, <3>2
  <2>2. h = [d \in 0 .. MaxDepth |-> h[d]]
    BY <1>8
  <2> QED
    BY <2>1, <2>2, Zenon
<1>10. same = Body(same)
  <2>1. \E e : e = Body(e)
    BY <1>9
  <2> HIDE DEF Body
  <2> QED
    BY <2>1
<1>11. SamesFrom(g) = same
  BY Zenon DEF SamesFrom
<1> HIDE DEF same
<1>12. ASSUME NEW d \in 1 .. MaxDepth PROVE same[d] = next(same[d - 1])
  <2>1. d \in 0 .. MaxDepth /\ d # 0
    OBVIOUS
  <2>2. same[d] = Body(same)[d]
    BY <1>10
  <2>3. Body(same)[d] = {p \in U : Payload!SameNode(g[p[1]], g[p[2]], same[d - 1])}
    BY <2>1
  <2> HIDE DEF Body
  <2> QED
    BY <2>2, <2>3 DEF next
<1> HIDE DEF Body
<1>13. \A d \in 1 .. MaxDepth, x \in DOMAIN g, y \in DOMAIN g :
         << x, y >> \in same[d] <=> Payload!SameNode(g[x], g[y], same[d - 1])
  <2> SUFFICES ASSUME NEW d \in 1 .. MaxDepth, NEW x \in DOMAIN g, NEW y \in DOMAIN g
               PROVE  << x, y >> \in same[d] <=> Payload!SameNode(g[x], g[y], same[d - 1])
    OBVIOUS
  <2> DEFINE R == same[d - 1]
  <2>1. << x, y >> \in next(R) <=> Payload!SameNode(g[x], g[y], R)
    BY <1>3
  <2> QED
    BY <1>12, <2>1
<1> QED
  BY <1>11, <1>13 DEF AreSames

-----------------------------------------------------------------------------
(* Two payloads, or two nodes of one, from the deepest level up. *)

\* What an unfolding has: levels that end, and no number that only Python can tell.
IsUnfolded(level, g, r) ==
  /\ IsUnfoldingFrom(level, g, r) /\ level[MaxDepth + 1] = << >>
  /\ \A d \in Depths, x \in DOMAIN g : Occurs(x, level[d]) => g[x].kind # "integral"

\* The texts of depth d start as texts do, d levels above the end.
Start(text, level, g, d) ==
  \A x \in DOMAIN g : Occurs(x, level[MaxDepth + 1 - d]) => IsStart(text[d][x])

\* They tell, d levels above the end, which nodes are the same.
Tell(s, t, same, a, b, g, d) ==
  \A x \in DOMAIN g, y \in DOMAIN g :
    Occurs(x, a[MaxDepth + 1 - d]) /\ Occurs(y, b[MaxDepth + 1 - d]) =>
      Tells(s[d][x], t[d][y], << x, y >> \in same[d])

\* What is below a node of a level is on the next.
LEMMA KidsOccur ==
  ASSUME NEW g, IsGraph(g), NEW r, NEW level, IsUnfoldingFrom(level, g, r),
         NEW d \in 1 .. MaxDepth, MaxDepth \in Nat, NEW x, Occurs(x, level[d]),
         NEW i \in DOMAIN g[x].kids
  PROVE  Occurs(g[x].kids[i], level[d + 1])
<1>1. level[d + 1] = Below(g, level[d]) /\ level[d] \in Seq(DOMAIN g)
  BY DEF IsUnfoldingFrom, Depths
<1>2. PICK j \in DOMAIN level[d] : level[d][j] = x
  BY DEF Occurs
<1>3. Occurs(g[x].kids[i], g[x].kids)
  BY DEF Occurs
<1> DEFINE s == level[d]
           z == g[x].kids[i]
<1> HIDE DEF s, z
<1>4. \A k \in DOMAIN s : \A w : Occurs(w, g[s[k]].kids) => Occurs(w, Below(g, s))
  BY <1>1, BelowIs DEF s
<1>5. j \in DOMAIN s /\ s[j] = x /\ Occurs(z, g[x].kids)
  BY <1>2, <1>3 DEF s, z
<1>6. Occurs(z, Below(g, s))
  BY <1>4, <1>5
<1> QED
  BY <1>1, <1>6 DEF s, z

\* Texts start as texts do, one level further up.
LEMMA StartAgain ==
  ASSUME NEW g, IsPayloadGraph(g), NEW l, NEW text, AreTextsOf(text, l, g), MaxDepth \in Nat,
         NEW level, NEW d \in 1 .. MaxDepth
  PROVE  Start(text, level, g, d)
<1> SUFFICES ASSUME NEW x \in DOMAIN g PROVE IsStart(text[d][x])
  BY DEF Start
<1>1. IsPayloadNode(g[x], DOMAIN g) /\ HasTokens(g[x], Tokens(g))
  BY DEF IsPayloadGraph
<1>2. d - 1 \in 0 .. MaxDepth
  OBVIOUS
<1>3. /\ text[d - 1] \in [DOMAIN g -> Seq(Tokens(g))]
      /\ text[d][x] = Payload!NodeText(l, g[x], text[d - 1])
  BY <1>2 DEF AreTextsOf
<1> DEFINE f == text[d - 1]
<1> HIDE DEF f
<1>4. IsStart(Payload!NodeText(l, g[x], f))
  BY <1>1, <1>3, NodeTextType DEF f
<1> QED
  BY <1>3, <1>4 DEF f

\* At the end there is nothing to tell.
LEMMA TellAtTheEnd ==
  ASSUME NEW level, level[MaxDepth + 1] = << >>, MaxDepth \in Nat, NEW g, NEW text
  PROVE  Start(text, level, g, 0) /\ \A s, t, same, b : Tell(s, t, same, level, b, g, 0)
<1>1. (MaxDepth + 1) - 0 = MaxDepth + 1
  OBVIOUS
<1>2. \A x : ~Occurs(x, level[MaxDepth + 1])
  BY DEF Occurs
<1> QED
  BY <1>1, <1>2 DEF Start, Tell

\* What is known of the texts of two payloads.
ArePairs(s, t, same, a, b, g, l, k, r, q) ==
  /\ IsPayloadGraph(g) /\ IsUnfolded(a, g, r) /\ IsUnfolded(b, g, q)
  /\ AreTextsOf(s, l, g) /\ AreTextsOf(t, k, g) /\ AreSames(same, g)

\* One level up, by NodesTell.
LEMMA TellAgain ==
  ASSUME MaxDepth \in Nat, NEW s, NEW t, NEW same, NEW a, NEW b, NEW g, NEW l, NEW k, NEW r, NEW q,
         ArePairs(s, t, same, a, b, g, l, k, r, q),
         NEW d \in 0 .. MaxDepth - 1, Start(s, a, g, d), Start(t, b, g, d), Tell(s, t, same, a, b, g, d)
  PROVE  Tell(s, t, same, a, b, g, d + 1)
<1> DEFINE e == MaxDepth - d
<1>1. /\ e \in 1 .. MaxDepth /\ (MaxDepth + 1) - (d + 1) = e /\ e + 1 = (MaxDepth + 1) - d
      /\ d + 1 \in 1 .. MaxDepth /\ (d + 1) - 1 = d /\ d \in 0 .. MaxDepth /\ e \in Depths
  BY DEF Depths
<1> HIDE DEF e
<1>2. /\ IsPayloadGraph(g) /\ IsGraph(g) /\ IsUnfoldingFrom(a, g, r) /\ IsUnfoldingFrom(b, g, q)
      /\ AreTextsOf(s, l, g) /\ AreTextsOf(t, k, g) /\ AreSames(same, g)
  BY DEF ArePairs, IsUnfolded, IsPayloadGraph
<1> SUFFICES ASSUME NEW x \in DOMAIN g, NEW y \in DOMAIN g, Occurs(x, a[e]), Occurs(y, b[e])
             PROVE  Tells(s[d + 1][x], t[d + 1][y], << x, y >> \in same[d + 1])
  BY <1>1 DEF Tell
<1> DEFINE m == g[x]
           n == g[y]
           U == DOMAIN g
           T == Tokens(g)
           f == s[d]
           h == t[d]
           R == same[d]
<1>3. IsNodes(m, n, U, T)
  <2>1. IsPayloadNode(m, U) /\ IsPayloadNode(n, U) /\ HasTokens(m, T) /\ HasTokens(n, T)
    BY <1>2 DEF IsPayloadGraph
  <2>2. m.kind # "integral" /\ n.kind # "integral"
    BY <1>1 DEF ArePairs, IsUnfolded
  <2> QED
    BY <2>1, <2>2 DEF IsNodes
<1>4. f \in [U -> Seq(T)] /\ h \in [U -> Seq(T)]
  BY <1>1, <1>2 DEF AreTextsOf
<1>5. m.kids \in Seq(U) /\ n.kids \in Seq(U)
  BY <1>2 DEF IsGraph, IsNode
<1>6. ASSUME NEW i \in DOMAIN m.kids
      PROVE  m.kids[i] \in U /\ Occurs(m.kids[i], a[(MaxDepth + 1) - d])
  <2>1. Occurs(m.kids[i], a[e + 1])
    BY <1>1, <1>2, KidsOccur
  <2> QED
    BY <1>1, <1>5, <2>1
<1>7. ASSUME NEW j \in DOMAIN n.kids
      PROVE  n.kids[j] \in U /\ Occurs(n.kids[j], b[(MaxDepth + 1) - d])
  <2>1. Occurs(n.kids[j], b[e + 1])
    BY <1>1, <1>2, KidsOccur
  <2> QED
    BY <1>1, <1>5, <2>1
<1>8. /\ s[d + 1][x] = Payload!NodeText(l, m, f)
      /\ t[d + 1][y] = Payload!NodeText(k, n, h)
      /\ << x, y >> \in same[d + 1] <=> Payload!SameNode(m, n, R)
  <2>1. s[d + 1][x] = Payload!NodeText(l, m, s[(d + 1) - 1])
    BY <1>1, <1>2 DEF AreTextsOf
  <2>2. t[d + 1][y] = Payload!NodeText(k, n, t[(d + 1) - 1])
    BY <1>1, <1>2 DEF AreTextsOf
  <2>3. << x, y >> \in same[d + 1] <=> Payload!SameNode(m, n, same[(d + 1) - 1])
    BY <1>1, <1>2 DEF AreSames
  <2> QED
    BY <1>1, <2>1, <2>2, <2>3
<1> HIDE DEF m, n, U, T, f, h, R
<1>9. KidsStart(m, f)
  <2> SUFFICES ASSUME NEW i \in DOMAIN m.kids PROVE IsStart(f[m.kids[i]])
    BY DEF KidsStart
  <2> QED
    BY <1>6 DEF Start, f, U
<1>10. KidsStart(n, h)
  <2> SUFFICES ASSUME NEW j \in DOMAIN n.kids PROVE IsStart(h[n.kids[j]])
    BY DEF KidsStart
  <2> QED
    BY <1>7 DEF Start, h, U
<1>11. KidsTell(m, n, f, h, R)
  <2> SUFFICES ASSUME NEW i \in DOMAIN m.kids, NEW j \in DOMAIN n.kids
               PROVE  Tells(f[m.kids[i]], h[n.kids[j]], << m.kids[i], n.kids[j] >> \in R)
    BY DEF KidsTell, Tells
  <2> DEFINE u == m.kids[i]
             v == n.kids[j]
  <2>1. /\ u \in U /\ Occurs(u, a[(MaxDepth + 1) - d])
        /\ v \in U /\ Occurs(v, b[(MaxDepth + 1) - d])
    BY <1>6, <1>7
  <2> HIDE DEF u, v
  <2>2. Tells(s[d][u], t[d][v], << u, v >> \in same[d])
    BY <2>1 DEF Tell, U
  <2> QED
    BY <2>2 DEF f, h, R, u, v
<1>12. AreNodesBelow(m, n, f, h, U, T, R)
  BY <1>3, <1>4, <1>9, <1>10, <1>11 DEF AreNodesBelow
<1>13. Tells(Payload!NodeText(l, m, f), Payload!NodeText(k, n, h), Payload!SameNode(m, n, R))
  BY <1>12, NodesTell
<1> QED
  BY <1>8, <1>13 DEF Tells

\* The texts of two roots tell whether they are the same value.
LEMMA RootsTell ==
  ASSUME MaxDepth \in Nat, NEW s, NEW t, NEW same, NEW a, NEW b, NEW g, NEW l, NEW k,
         NEW r \in DOMAIN g, NEW q \in DOMAIN g, ArePairs(s, t, same, a, b, g, l, k, r, q)
  PROVE  s[MaxDepth][r] = t[MaxDepth][q] <=> << r, q >> \in same[MaxDepth]
<1> DEFINE S == {d \in 0 .. MaxDepth :
                   Start(s, a, g, d) /\ Start(t, b, g, d) /\ Tell(s, t, same, a, b, g, d)}
<1>1. /\ IsPayloadGraph(g) /\ a[MaxDepth + 1] = << >> /\ b[MaxDepth + 1] = << >>
      /\ a[1] = << r >> /\ b[1] = << q >> /\ AreTextsOf(s, l, g) /\ AreTextsOf(t, k, g)
  BY DEF ArePairs, IsUnfolded, IsUnfoldingFrom
<1>2. 0 \in S
  <2>1. Start(s, a, g, 0) /\ Tell(s, t, same, a, b, g, 0)
    BY <1>1, TellAtTheEnd
  <2>2. Start(t, b, g, 0)
    BY <1>1, TellAtTheEnd
  <2> QED
    BY <2>1, <2>2
<1>3. ASSUME NEW d \in 0 .. MaxDepth - 1, d \in S PROVE d + 1 \in S
  <2>1. d + 1 \in 1 .. MaxDepth /\ d + 1 \in 0 .. MaxDepth
    OBVIOUS
  <2>2. Start(s, a, g, d + 1) /\ Start(t, b, g, d + 1)
    BY <1>1, <2>1, StartAgain
  <2>3. Tell(s, t, same, a, b, g, d + 1)
    BY <1>3, TellAgain
  <2> QED
    BY <2>1, <2>2, <2>3
<1>4. 0 .. MaxDepth \subseteq S
  <2> HIDE DEF S
  <2> QED
    BY <1>2, <1>3, NumberInduction
<1>5. Tell(s, t, same, a, b, g, MaxDepth)
  BY <1>4
<1>6. (MaxDepth + 1) - MaxDepth = 1
  OBVIOUS
<1>7. Occurs(r, a[1]) /\ Occurs(q, b[1])
  <2>1. \A x : 1 \in DOMAIN << x >> /\ << x >>[1] = x
    OBVIOUS
  <2>2. \A x : Occurs(x, << x >>)
    BY <2>1, Zenon DEF Occurs
  <2> QED
    BY <1>1, <2>2
<1>8. Tells(s[MaxDepth][r], t[MaxDepth][q], << r, q >> \in same[MaxDepth])
  BY <1>5, <1>6, <1>7 DEF Tell
<1> QED
  BY <1>8 DEF Tells

-----------------------------------------------------------------------------
(* TextIsOfTheValue. *)

\* Levels that Python's walk finds sound have no 1.0.
LEMMA SoundUnfolds ==
  ASSUME NEW g, IsGraph(g), MaxDepth \in Nat, NEW r \in DOMAIN g,
         LevelsFrom(g, r)[MaxDepth + 1] = << >>,
         \A i \in DOMAIN Payload!FlattenSeq(LevelsFrom(g, r)) :
           Payload!Defect("python", g[Payload!FlattenSeq(LevelsFrom(g, r))[i]]) = Payload!Running
  PROVE  IsUnfolded(LevelsFrom(g, r), g, r)
<1> DEFINE level == LevelsFrom(g, r)
           D == MaxDepth + 1
           S == DOMAIN g
           all == Payload!FlattenSeq(level)
<1>1. IsUnfoldingFrom(level, g, r)
  BY LevelsFromAre
<1>2. level \in [1 .. D -> Seq(S)] /\ D \in Nat /\ level[MaxDepth + 1] = << >>
  BY <1>1 DEF IsUnfoldingFrom, Depths
<1>3. \A i \in DOMAIN all : Payload!Defect("python", g[all[i]]) = Payload!Running
  OBVIOUS
<1>4. all = Payload!FlattenSeq(level)
  OBVIOUS
<1> HIDE DEF level, S, D, all
<1>5. ASSUME NEW d \in Depths, NEW x \in DOMAIN g, Occurs(x, level[d]) PROVE g[x].kind # "integral"
  <2>1. d \in 1 .. D
    BY DEF Depths, D
  <2>2. Occurs(x, Payload!FlattenSeq(level)) <=> \E k \in 1 .. D : Occurs(x, level[k])
    BY <1>2, OccursInFlattened
  <2>3. Occurs(x, all)
    BY <1>4, <1>5, <2>1, <2>2
  <2>4. PICK i \in DOMAIN all : all[i] = x
    BY <2>3 DEF Occurs
  <2>5. Payload!Defect("python", g[x]) = Payload!Running
    BY <1>3, <2>4
  <2> QED
    BY <2>5 DEF Payload!Defect, Payload!Running
<1>6. IsUnfolded(level, g, r)
  BY <1>1, <1>2, <1>5 DEF IsUnfolded
<1> QED
  BY <1>6 DEF level

\* Of the nodes of a payload that both languages have accepted.
LEMMA TextsTell ==
  ASSUME graph \in Graphs, WalksAre(graph, walks),
         \A l \in Payload!Languages : walks[l].verdict = Payload!Accepted,
         NEW node \in DOMAIN graph, Payload!IsSmallTree(node),
         \A l \in Payload!Languages : Payload!Sound(l, node)
  PROVE  Payload!Text("python", 1) = Payload!Text("typescript", node) <=> Payload!SameValue(1, node)
<1> DEFINE a == LevelsFrom(graph, 1)
           b == LevelsFrom(graph, node)
           s == TextsFrom("python", graph)
           t == TextsFrom("typescript", graph)
           same == SamesFrom(graph)
<1>1. MaxDepth \in Nat /\ IsGraph(graph) /\ IsPayloadGraph(graph) /\ 1 \in DOMAIN graph
  BY PayloadsAre, PayloadNodesAre DEF IsGraph
<1>2. "python" \in Payload!Languages
  BY DEF Payload!Languages
<1>3. IsUnfolded(a, graph, 1)
  <2>1. IsSmall(graph) /\ IsSound("python", graph)
    BY <1>2 DEF WalksAre, IsWalk
  <2>2. a[MaxDepth + 1] = << >>
    BY <2>1 DEF IsSmall, LevelsOf
  <2>3. \A i \in DOMAIN Payload!FlattenSeq(a) :
          Payload!Defect("python", graph[Payload!FlattenSeq(a)[i]]) = Payload!Running
    BY <2>1 DEF IsSound, LevelsOf
  <2> QED
    BY <1>1, <2>2, <2>3, SoundUnfolds
<1>4. IsUnfolded(b, graph, node)
  <2>1. Payload!Levels(node) = b
    BY LevelsOfGraph
  <2>2. b[MaxDepth + 1] = << >>
    BY <2>1 DEF Payload!IsSmallTree
  <2>3. Payload!Sound("python", node)
    BY <1>2
  <2>4. \A i \in DOMAIN Payload!FlattenSeq(b) :
          Payload!Defect("python", graph[Payload!FlattenSeq(b)[i]]) = Payload!Running
    BY <2>1, <2>3 DEF Payload!Sound
  <2> QED
    BY <1>1, <2>2, <2>4, SoundUnfolds
<1>5. AreTextsOf(s, "python", graph) /\ AreTextsOf(t, "typescript", graph) /\ AreSames(same, graph)
  BY <1>1, TextsAre, SamesAre
<1>6. /\ Payload!Text("python", 1) = s[MaxDepth][1]
      /\ Payload!Text("typescript", node) = t[MaxDepth][node]
      /\ Payload!SameValue(1, node) <=> << 1, node >> \in same[MaxDepth]
  BY TextsOfGraph
<1> HIDE DEF a, b, s, t, same
<1>7. ArePairs(s, t, same, a, b, graph, "python", "typescript", 1, node)
  BY <1>1, <1>3, <1>4, <1>5 DEF ArePairs
<1>8. s[MaxDepth][1] = t[MaxDepth][node] <=> << 1, node >> \in same[MaxDepth]
  BY <1>1, <1>7, RootsTell
<1> QED
  BY <1>6, <1>8

\* Equal payloads, and only they, have one canonical text in both languages, whatever
\* the payload, the names and the limits are (_encode_value and stringify).
THEOREM TextIsOfTheValueAlways == ParitySpec => []TextIsOfTheValue
<1>1. WalksInv => TextIsOfTheValue
  <2> SUFFICES ASSUME WalksInv, \A l \in Payload!Languages : walks[l].verdict = Payload!Accepted,
                      NEW node \in DOMAIN graph, Payload!IsSmallTree(node),
                      \A l \in Payload!Languages : Payload!Sound(l, node)
               PROVE  (Payload!Text("python", 1) = Payload!Text("typescript", node)) = Payload!SameValue(1, node)
    BY Zenon DEF TextIsOfTheValue, Payload!TextIsOfTheValue
  <2>1. subject # "receipt"
    <3>1. "python" \in Payload!Languages /\ Payload!Running # Payload!Accepted
      BY DEF Payload!Languages, Payload!Running, Payload!Accepted
    <3>2. walks = Payload!FirstWalks => walks["python"].verdict = Payload!Running
      BY <3>1 DEF Payload!FirstWalks
    <3> QED
      BY <3>1, <3>2 DEF WalksInv
  <2>2. graph \in Graphs /\ WalksAre(graph, walks)
    BY <2>1 DEF WalksInv
  <2>3. Payload!Text("python", 1) = Payload!Text("typescript", node) <=> Payload!SameValue(1, node)
    BY <2>2, TextsTell
  <2>4. Payload!SameValue(1, node) \in BOOLEAN
    <3>1. Payload!SameValue(1, node) = (<< 1, node >> \in SamesFrom(graph)[MaxDepth])
      BY TextsOfGraph, Zenon
    <3>2. (<< 1, node >> \in SamesFrom(graph)[MaxDepth]) \in BOOLEAN
      OBVIOUS
    <3> QED
      BY <3>1, <3>2, Zenon
  <2> QED
    BY <2>3, <2>4
<1> QED
  BY <1>1, WalksInvHolds, PTL
=============================================================================
