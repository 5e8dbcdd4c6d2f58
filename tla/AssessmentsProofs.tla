------------------------- MODULE AssessmentsProofs -------------------------
(***************************************************************************)
(* What an accepted assessment rests on, for every set of policy editions  *)
(* and sources, every record however far from an honest one, and every     *)
(* number of edits while the verifier awaits the cryptography.             *)
(***************************************************************************)
EXTENDS Assessments, TLAPS

\* The snapshots that were applied hold up the record on their own: a fact about the
\* record alone, which no edit can disturb.
HoldsUp(used) ==
  /\ used.definition \in Definitions
  /\ HasOneEntry(used.definition)
  /\ EvidencePart(Entry(used.definition), used.content)

\* The parts of a record.
Parts == {"action", "definition", "content", "facts", "missing", "context",
          "evaluation", "status", "request"}

\* What the checks so far have established.
AssessmentInv ==
  /\ definition \in Definitions
  /\ edits \in Nat
  /\ DOMAIN payload = Parts
  /\ \A r, s \in payload.evaluation : r = s
  /\ pc \in {"captured", "derived", "committed"} => \E d : d = definition /\ HasOneEntry(d)
  /\ pc \in {"derived", "committed", "accepted"} => \E used : applied = {used} /\ HoldsUp(used)
  /\ pc = "committed" => \E d : InputPart(Entry(d)) /\ (edits = 0 => d = definition)
  /\ pc = "accepted" => \E d : ResultPart(Entry(d)) /\ (edits = 0 => InputPart(Entry(d)))

-----------------------------------------------------------------------------
LEMMA EntryIsOne ==
  ASSUME NEW d, HasOneEntry(d)
  PROVE  \E i \in DOMAIN d : Entry(d) = d[i]
<1>1. \E i \in DOMAIN d : d[i].action = payload.action
  BY DEF HasOneEntry, Entries
<1> QED BY <1>1 DEF Entry

\* An honest record has one result at most.
LEMMA HonestHasOneResult ==
  ASSUME NEW d, NEW e, NEW text, NEW facts, NEW rule, NEW choice, NEW p,
         p = Honest(d, e, text, facts, rule, choice)
  PROVE  DOMAIN p = Parts /\ \A r, s \in p.evaluation : r = s
BY DEF Honest, Parts

LEMMA AssessmentInit == Init => AssessmentInv
<1> SUFFICES ASSUME Init PROVE AssessmentInv
  OBVIOUS
<1>1. DOMAIN payload = Parts /\ \A r, s \in payload.evaluation : r = s
  <2>1. \E d, e, text, facts, rule, choice : payload = Honest(d, e, text, facts, rule, choice)
    BY DEF Init
  <2> QED BY <2>1, HonestHasOneResult
<1>2. definition \in Definitions /\ edits = 0 /\ pc = "signed"
  BY DEF Init
<1> QED BY <1>1, <1>2 DEF AssessmentInv

\* A deviation changes one part of the record and leaves at most one result in it.
LEMMA DeviateKeepsOneResult ==
  ASSUME AssessmentInv, Deviate
  PROVE  DOMAIN payload' = Parts /\ \A r, s \in payload'.evaluation : r = s
<1>1. DOMAIN payload = Parts /\ \A r, s \in payload.evaluation : r = s
  BY DEF AssessmentInv
<1>2. PICK p, text : p \in Deviants /\
        (payload' = p \/ payload' = [p EXCEPT !.request = RequestOf(p, text)])
  BY DEF Deviate
<1>3. \E part, value :
        /\ part \in Parts /\ p = With(part, value)
        /\ part = "evaluation" => value = {} \/ \E result : value = {result}
  <2>1. \/ \E part \in Parts \ {"evaluation"} : \E value : p = With(part, value)
        \/ p = With("evaluation", {}) \/ \E result : p = With("evaluation", {result})
    <3>1. CASE p \in UNION {{With("facts", [payload.facts EXCEPT ![f] = fact]) : fact \in FactChoices} :
                              f \in DOMAIN payload.facts}
      BY <3>1 DEF Parts
    <3>2. CASE \/ p \in {With("missing", names) : names \in SUBSET DOMAIN payload.facts}
               \/ p \in {With("context", [payload.context EXCEPT ![f] = "false"]) : f \in DOMAIN payload.context}
               \/ p \in {With("context", << >>), With("evaluation", {})}
      BY <3>2 DEF Parts
    <3>3. CASE \/ p \in {With("status", s) :
                          s \in {"violation_detected", "no_violation_found", "insufficient_evidence"}}
               \/ p \in {With("definition", d) : d \in Definitions}
               \/ p \in {With("content", t) : t \in Contents}
      BY <3>3 DEF Parts
    <3>4. CASE p \in UNION {{With("evaluation", {[result EXCEPT !.decision = decision]}) :
                               decision \in {"allow", "deny"}} : result \in payload.evaluation}
      BY <3>4
    <3> QED BY <1>2, <3>1, <3>2, <3>3, <3>4 DEF Deviants
  <2> QED BY <2>1 DEF Parts
<1>4. DOMAIN p = Parts /\ \A r, s \in p.evaluation : r = s
  BY <1>1, <1>3 DEF Parts, With
<1> QED BY <1>2, <1>4 DEF Parts

-----------------------------------------------------------------------------
\* What a check has found of a record stays so: the record does not change.
LEMMA RecordStays ==
  ASSUME UNCHANGED payload, NEW d, NEW text, NEW used
  PROVE  /\ HasOneEntry(d) => HasOneEntry(d)'
         /\ HoldsUp(used) => HoldsUp(used)'
         /\ InputPart(Entry(d)) => InputPart(Entry(d))'
         /\ ResultPart(Entry(d)) => ResultPart(Entry(d))'
<1>1. \A c : (HasOneEntry(c) => HasOneEntry(c)') /\ Entry(c)' = Entry(c)
  BY DEF HasOneEntry, Entries, Entry
<1>2. \A e, t : (EvidencePart(e, t) => EvidencePart(e, t)')
  BY DEF EvidencePart
<1>3. \A e : (InputPart(e) => InputPart(e)') /\ (ResultPart(e) => ResultPart(e)')
  BY DEF InputPart, ResultPart
<1> QED BY <1>1, <1>2, <1>3 DEF HoldsUp

\* Each step of the verifier adds what it has checked.
LEMMA AssessmentStep ==
  ASSUME AssessmentInv, [Next]_vars
  PROVE  AssessmentInv'
<1>0. definition \in Definitions /\ edits \in Nat /\ DOMAIN payload = Parts
      /\ \A r, s \in payload.evaluation : r = s
  BY DEF AssessmentInv
<1> PICK d, text : d = definition /\ text = content
  OBVIOUS
<1>1. CASE Deviate
  <2>1. pc' = "signed" /\ UNCHANGED << definition, edits >>
    BY <1>1 DEF Deviate
  <2> QED BY <1>0, <1>1, <2>1, DeviateKeepsOneResult DEF AssessmentInv
<1>r. CASE pc' = "refused" /\ UNCHANGED << definition, edits, payload >>
  BY <1>0, <1>r DEF AssessmentInv
<1>2. CASE VerifyPython /\ pc' # "refused"
  <2>1. /\ HasOneEntry(d) /\ EvidencePart(Entry(d), text)
        /\ InputPart(Entry(d)) /\ ResultPart(Entry(d))
        /\ applied' = {[definition |-> d, content |-> text]}
        /\ pc' = "accepted" /\ UNCHANGED << definition, payload, edits >>
    BY <1>2 DEF VerifyPython, Go, Selected, Record
  <2>2. HoldsUp([definition |-> d, content |-> text])
    BY <1>0, <2>1 DEF HoldsUp
  <2>3. HoldsUp([definition |-> d, content |-> text])' /\ InputPart(Entry(d))' /\ ResultPart(Entry(d))'
    BY <2>1, <2>2, RecordStays
  <2> QED BY <1>0, <2>1, <2>3 DEF AssessmentInv
<1>3. CASE (NodeCall \/ NodeSignature \/ NodeDefinition) /\ pc' # "refused"
  <2>1. pc' \in {"called", "verified", "bound"} /\ UNCHANGED << definition, payload, edits >>
    BY <1>3 DEF NodeCall, NodeSignature, NodeDefinition, Go, Record
  <2> QED BY <1>0, <2>1 DEF AssessmentInv
<1>4. CASE NodeSource /\ pc' # "refused"
  <2>1. HasOneEntry(d) /\ pc' = "captured" /\ UNCHANGED << definition, payload, edits >>
    BY <1>4 DEF NodeSource, Go, Selected, Record
  <2> QED BY <1>0, <2>1, RecordStays DEF AssessmentInv
<1>5. CASE NodeEvidence /\ pc' # "refused"
  <2>1. /\ EvidencePart(Entry(d), text)
        /\ applied' = {[definition |-> d, content |-> text]}
        /\ pc' = "derived" /\ UNCHANGED << definition, payload, edits >>
    BY <1>5 DEF NodeEvidence, Go, Record
  <2>2. HasOneEntry(d)
    BY <1>5 DEF NodeEvidence, AssessmentInv
  <2>3. HoldsUp([definition |-> d, content |-> text])
    BY <1>0, <2>1, <2>2 DEF HoldsUp
  <2> QED BY <1>0, <2>1, <2>2, <2>3, RecordStays DEF AssessmentInv
<1>6. CASE NodeInput /\ pc' # "refused"
  <2>1. InputPart(Entry(d)) /\ pc = "derived" /\ pc' = "committed"
        /\ UNCHANGED << definition, payload, edits, applied >>
    BY <1>6 DEF NodeInput, Go, Record
  <2>2. PICK used : applied = {used} /\ HoldsUp(used)
    BY <2>1 DEF AssessmentInv
  <2>3. HasOneEntry(d)
    BY <2>1 DEF AssessmentInv
  <2> QED BY <1>0, <2>1, <2>2, <2>3, RecordStays DEF AssessmentInv
<1>7. CASE NodeResult /\ pc' # "refused"
  <2>1. ResultPart(Entry(d)) /\ pc = "committed" /\ pc' = "accepted"
        /\ UNCHANGED << definition, payload, edits, applied >>
    BY <1>7 DEF NodeResult, Go, Record
  <2>2. PICK used : applied = {used} /\ HoldsUp(used)
    BY <2>1 DEF AssessmentInv
  <2>3. edits = 0 => InputPart(Entry(d))
    BY <2>1 DEF AssessmentInv
  <2> QED BY <1>0, <2>1, <2>2, <2>3, RecordStays DEF AssessmentInv
<1>8. CASE Edit
  <2>1. /\ edits' = edits + 1 /\ edits' # 0
        /\ definition' \in Definitions
        /\ definition' = definition \/ \E c : definition' = c /\ HasOneEntry(c)
        /\ UNCHANGED << payload, pc, applied >>
    BY <1>0, <1>8 DEF Edit
  <2>2. pc \in {"captured", "derived", "committed"} => \E c : definition' = c /\ HasOneEntry(c)
    BY <2>1 DEF AssessmentInv
  <2>3. pc \in {"derived", "committed"} => \E used : applied = {used} /\ HoldsUp(used)
    BY DEF AssessmentInv
  <2>4. pc = "committed" => \E c : InputPart(Entry(c))
    BY DEF AssessmentInv
  <2>5. pc # "accepted"
    BY <1>8 DEF Edit, Undecided
  <2>6. pc' \in {"captured", "derived", "committed"} => \E c : definition' = c /\ HasOneEntry(c)'
    BY <2>1, <2>2, RecordStays
  <2>7. pc' \in {"derived", "committed"} => \E used : applied' = {used} /\ HoldsUp(used)'
    BY <2>1, <2>3, RecordStays
  <2>8. pc' = "committed" => \E c : InputPart(Entry(c))'
    BY <2>1, <2>4, RecordStays
  <2> QED BY <1>0, <2>1, <2>5, <2>6, <2>7, <2>8 DEF AssessmentInv
<1>9. CASE UNCHANGED vars
  <2>1. UNCHANGED << definition, payload, pc, applied, edits >>
    BY <1>9 DEF vars
  <2>2. pc \in {"captured", "derived", "committed"} => HasOneEntry(d)
    BY DEF AssessmentInv
  <2>3. pc' \in {"captured", "derived", "committed"} => \E c : c = definition' /\ HasOneEntry(c)'
    BY <2>1, <2>2, RecordStays
  <2>4. pc' \in {"derived", "committed", "accepted"} => \E used : applied' = {used} /\ HoldsUp(used)'
    BY <2>1, RecordStays DEF AssessmentInv
  <2>5. pc' = "committed" => \E c : InputPart(Entry(c))' /\ (edits' = 0 => c = definition')
    BY <2>1, RecordStays DEF AssessmentInv
  <2>6. pc' = "accepted" => \E c : ResultPart(Entry(c))' /\ (edits' = 0 => InputPart(Entry(c))')
    BY <2>1, RecordStays DEF AssessmentInv
  <2> QED BY <1>0, <2>1, <2>3, <2>4, <2>5, <2>6 DEF AssessmentInv
<1>10. ASSUME \/ VerifyPython \/ NodeCall \/ NodeSignature \/ NodeDefinition
              \/ NodeSource \/ NodeEvidence \/ NodeInput \/ NodeResult
       PROVE  UNCHANGED << definition, edits, payload >>
  BY <1>10 DEF VerifyPython, NodeCall, NodeSignature, NodeDefinition,
               NodeSource, NodeEvidence, NodeInput, NodeResult, Record
<1>11. CASE VerifyPython \/ NodeCall \/ NodeSignature \/ NodeDefinition
  BY <1>11, <1>10, <1>r, <1>2, <1>3
<1>12. CASE NodeSource \/ NodeEvidence \/ NodeInput \/ NodeResult
  BY <1>12, <1>10, <1>r, <1>4, <1>5, <1>6, <1>7
<1> QED BY <1>1, <1>8, <1>9, <1>11, <1>12 DEF Next

LEMMA Invariance == Spec => []AssessmentInv
BY AssessmentInit, AssessmentStep, PTL DEF Spec

-----------------------------------------------------------------------------
\* What the edition and the source hold up.
LEMMA HeldUpFacts ==
  ASSUME NEW used, HoldsUp(used), NEW f \in DOMAIN payload.facts, NEW fact \in payload.facts[f]
  PROVE  LET r == Entry(used.definition).evidence[f]
         IN /\ fact.exact /\ fact.field \in r.of
            /\ r.of \cup r.empties \subseteq DOMAIN used.content
            /\ r.of \cup r.empties \subseteq Mapped
            /\ r.form = "domain" => fact.value = "external.example" /\ used.content[fact.field] = "mailbox"
<1> PICK e, q : e = Entry(used.definition) /\ q = e.evidence[f]
  OBVIOUS
<1>1. EvidenceHolds(e, used.content, payload)
  BY DEF HoldsUp, EvidencePart
<1>2. f \in Direct(e) /\ FactValid(e, f, used.content, fact)
  BY <1>1 DEF EvidenceHolds
<1>3. q.of \cup q.empties \subseteq Mapped
  BY <1>1, <1>2 DEF EvidenceHolds
<1>4. f \in DOMAIN e.evidence /\ q.form # "all_of"
  BY <1>2 DEF Direct
<1>5. /\ q.form \in {"sources", "domain", "all_of"}
      /\ q.form = "domain" => \E s \in q.of : q.of = {s}
      /\ q.form # "domain" => q.empties = {}
  <2>1. used.definition \in Definitions /\ \E i \in DOMAIN used.definition : e = used.definition[i]
    BY EntryIsOne DEF HoldsUp
  <2> QED BY <2>1, <1>4, RequirementAssumption
<1>6. fact.exact /\ fact.field \in q.of /\ fact.field \in DOMAIN used.content
  BY <1>2 DEF FactValid
<1>7. CASE q.form = "domain"
  <2>1. fact.value \in Domain(used.content, q)
    BY <1>2, <1>7 DEF FactValid
  <2>2. /\ fact.value = "external.example"
        /\ \E s \in q.of : s \in DOMAIN used.content /\ used.content[s] = "mailbox"
        /\ \A s \in q.empties : s \in DOMAIN used.content
    BY <2>1 DEF Domain
  <2>3. \A s \in q.of : s = fact.field
    BY <1>5, <1>6, <1>7
  <2> QED BY <1>3, <1>6, <2>2, <2>3
<1>8. CASE q.form # "domain"
  <2>1. q.form = "sources" => q.of \subseteq DOMAIN used.content
    BY <1>2 DEF FactValid
  <2> QED BY <1>3, <1>4, <1>5, <1>6, <1>8, <2>1
<1> QED BY <1>7, <1>8

\* Every accepted fact was quoted exactly from a source the edition names for it, and
\* all the sources it was to be extracted from were captured and mapped, in both
\* languages and whatever the caller edits (evidence_context, evidenceContext).
THEOREM FactsRest == Spec => []FactsRestOnTheSource
<1>1. AssessmentInv => FactsRestOnTheSource
  <2> SUFFICES ASSUME AssessmentInv, pc = "accepted",
                      NEW used \in applied, NEW f \in DOMAIN payload.facts, NEW fact \in payload.facts[f]
               PROVE  LET r == Entry(used.definition).evidence[f]
                      IN /\ fact.exact /\ fact.field \in r.of
                         /\ r.of \cup r.empties \subseteq DOMAIN used.content
                         /\ r.of \cup r.empties \subseteq Mapped
                         /\ r.form = "domain" => fact.value = "external.example"
                                                /\ used.content[fact.field] = "mailbox"
    BY DEF FactsRestOnTheSource
  <2>1. HoldsUp(used)
    BY DEF AssessmentInv
  <2> QED BY <2>1, HeldUpFacts
<1> QED BY <1>1, Invariance, PTL

\* The evidence of an accepted record that is not signed against itself was found in
\* the source it was signed for, also when the caller edits the snapshots between the
\* digest of the source and the digest of the request (validatePayload).
THEOREM SourceIsCited == Spec => []CommittedSourceIsCited
<1>1. AssessmentInv => CommittedSourceIsCited
  <2> SUFFICES ASSUME AssessmentInv, pc = "accepted", payload.request.snapshot = payload.content,
                      NEW used \in applied
               PROVE  used.content = payload.content
    BY DEF CommittedSourceIsCited
  <2>1. payload.request = RequestOf(payload, used.content)
    BY DEF AssessmentInv, HoldsUp, EvidencePart
  <2> QED BY <2>1 DEF RequestOf
<1> QED BY <1>1, Invariance, PTL

-----------------------------------------------------------------------------
LEMMA AbsenceIsInsufficient ==
  ASSUME AssessmentInv
  PROVE  MissingIsInsufficient
<1> SUFFICES ASSUME pc = "accepted"
             PROVE  /\ Missing(payload.facts) # {} <=> payload.status = "insufficient_evidence"
                    /\ Missing(payload.facts) # {} => payload.context = << >> /\ payload.evaluation = {}
  BY DEF MissingIsInsufficient
<1>1. PICK used : HoldsUp(used)
  BY DEF AssessmentInv
<1>2. payload.missing = Missing(payload.facts)
  BY <1>1 DEF HoldsUp, EvidencePart, EvidenceHolds
<1>3. Missing(payload.facts) # {} => payload.context = << >>
  <2>1. payload.context = ContextOf(Entry(used.definition), payload.facts)
    BY <1>1 DEF HoldsUp, EvidencePart
  <2> QED BY <2>1 DEF ContextOf
<1>4. PICK d : ResultPart(Entry(d))
  BY DEF AssessmentInv
<1>5. \A decision : Status(decision) # "insufficient_evidence"
  BY DEF Status
<1> QED BY <1>2, <1>3, <1>4, <1>5 DEF ResultPart

LEMMA ConjunctionsAreOfFacts ==
  ASSUME AssessmentInv
  PROVE  DerivedFromFacts
<1> SUFFICES ASSUME pc = "accepted", payload.missing = {}, NEW used \in applied,
                    NEW f \in DOMAIN Entry(used.definition).evidence,
                    Entry(used.definition).evidence[f].form = "all_of"
             PROVE  LET e == Entry(used.definition)
                    IN /\ e.evidence[f].of \subseteq DOMAIN payload.facts
                       /\ payload.context[f] = "true" <=>
                            \A g \in e.evidence[f].of : \A fact \in payload.facts[g] : fact.value = "true"
  BY DEF DerivedFromFacts
<1> PICK e : e = Entry(used.definition)
  OBVIOUS
<1>1. EvidenceHolds(e, used.content, payload) /\ payload.context = ContextOf(e, payload.facts)
  BY DEF AssessmentInv, HoldsUp, EvidencePart
<1>2. e.evidence[f].of \subseteq DOMAIN payload.facts
  BY <1>1 DEF EvidenceHolds, EvidenceValid
<1>3. f \notin Direct(e)
  BY DEF Direct
<1>4. payload.context[f] = IF \A g \in e.evidence[f].of :
                                 g \in DOMAIN payload.facts /\ \A fact \in payload.facts[g] : fact.value = "true"
                           THEN "true" ELSE "false"
  BY <1>1, <1>3 DEF ContextOf, EvidenceHolds
<1> QED BY <1>2, <1>4

LEMMA StatusFollowsDecision ==
  ASSUME AssessmentInv
  PROVE  StatusIsTheDecision
<1> SUFFICES ASSUME pc = "accepted", payload.missing = {}
             PROVE  \E result \in payload.evaluation :
                      /\ payload.status = "violation_detected" <=> result.decision = "deny"
                      /\ edits = 0 => \E choice \in ChosenBy(result.policy, result.rule) :
                                        /\ choice.decision = result.decision
                                        /\ result.fields = [g \in choice.on |-> payload.context[g]]
  BY DEF StatusIsTheDecision
<1>1. PICK d : ResultPart(Entry(d)) /\ (edits = 0 => InputPart(Entry(d)))
  BY DEF AssessmentInv
<1>2. PICK result \in payload.evaluation :
        /\ \E choice \in ChosenBy(Entry(d), result.rule) :
             /\ result.decision = choice.decision
             /\ result.fields = [g \in choice.on |-> payload.context[g]]
        /\ payload.status = Status(result.decision)
  BY <1>1 DEF ResultPart
<1>3. payload.status = "violation_detected" <=> result.decision = "deny"
  BY <1>2 DEF Status
<1>4. edits = 0 => result.policy = Policy(Entry(d))
  BY <1>1, <1>2 DEF InputPart, AssessmentInv
<1>5. ChosenBy(Policy(Entry(d)), result.rule) = ChosenBy(Entry(d), result.rule)
  BY DEF ChosenBy, Policy
<1> QED BY <1>2, <1>3, <1>4, <1>5

\* What an accepted record says follows from its facts: missing evidence gives no
\* result, a derived field is the conjunction of facts, and the status that of a
\* decision of the policy (validate_payload, validatePayload).
THEOREM ResultsAreDerived == Spec => []ResultIsDerived
<1>1. AssessmentInv => ResultIsDerived
  BY AbsenceIsInsufficient, ConjunctionsAreOfFacts, StatusFollowsDecision DEF ResultIsDerived
<1> QED BY <1>1, Invariance, PTL

-----------------------------------------------------------------------------
\* The checks that follow the signature change neither the envelope nor the record: what
\* was verified stays verified.
SignatureInv ==
  /\ pc \in Undecided \cup {"signed", "accepted", "refused"}
  /\ pc \in Undecided \cup {"accepted"} => trusted
  /\ pc \in (Undecided \ {"called"}) \cup {"accepted"} /\ envelope = payload => signed = payload

\* A record is accepted only under a trusted key, and only if it was signed or if the caller
\* has exchanged the text in the envelope between the call and the verification of the
\* signature, however its snapshots are edited (verify_assessment, verifyAssessment).
THEOREM SignedIsAccepted == Spec => []AcceptedIsSigned
<1>1. Init => SignatureInv
  BY DEF Init, SignatureInv, Undecided
<1>2. ASSUME SignatureInv, [Next]_vars PROVE SignatureInv'
  <2>1. CASE Deviate
    BY <1>2, <2>1 DEF SignatureInv, Deviate, Undecided
  <2>2. CASE VerifyPython
    BY <1>2, <2>2 DEF SignatureInv, VerifyPython, Go, Record, Undecided
  <2>3. CASE NodeCall
    BY <1>2, <2>3 DEF SignatureInv, NodeCall, Go, Record, Undecided
  <2>4. CASE NodeSignature
    BY <1>2, <2>4 DEF SignatureInv, NodeSignature, Go, Record, Undecided
  <2>5. CASE NodeDefinition \/ NodeSource \/ NodeEvidence \/ NodeInput \/ NodeResult
    BY <1>2, <2>5 DEF SignatureInv, NodeDefinition, NodeSource, NodeEvidence,
                      NodeInput, NodeResult, Go, Record, Undecided
  <2>6. CASE Edit
    BY <1>2, <2>6 DEF SignatureInv, Edit, Undecided
  <2>7. CASE UNCHANGED vars
    BY <1>2, <2>7 DEF SignatureInv, vars
  <2> QED BY <1>2, <2>1, <2>2, <2>3, <2>4, <2>5, <2>6, <2>7 DEF Next
<1>3. SignatureInv => AcceptedIsSigned
  BY DEF SignatureInv, AcceptedIsSigned
<1> QED BY <1>1, <1>2, <1>3, PTL DEF Spec
=============================================================================
