---------------------------- MODULE Assessments ----------------------------
(***************************************************************************)
(* Observe assessments: a service extracts facts from a captured source as *)
(* a policy edition demands, derives the context, records the result and   *)
(* signs it; assessment/verify.py and verify.mjs check the record against  *)
(* the snapshots they are given.  Digests are compared as the values they  *)
(* are digests of.  Node's cryptography is asynchronous: the caller may    *)
(* edit the envelope and the snapshots, which are not copied, while the    *)
(* verifier awaits it.                                                     *)
(*                                                                         *)
(* A requirement is [form, of, empties]: the sources a field is extracted  *)
(* from, the source of a domain and those to be empty, or the fields a     *)
(* conjunction is of.  A fact is a set of at most one [value, field,       *)
(* exact]: the field its citation names and whether the quote is there.    *)
(* Sets of at most one stand for values that may be absent.  A record and  *)
(* the text of it in an envelope are not told apart; signed is the record  *)
(* that the signature in the envelope verifies for.  Types, sizes and      *)
(* identifiers are left out.                                               *)
(***************************************************************************)
EXTENDS Naturals, Sequences, SequencesExt

CONSTANTS
  Languages,     \* of "python" and "node"
  Definitions,   \* policy editions: sequences of action entries
  Contents,      \* captured sources: functions from names to texts
  Mapped,        \* the sources the mapping names
  MaxDeviations, \* bound: how far a record is from an honest one
  MaxEdits       \* bound: edits of the caller during a verification

\* What validate_policy_definition has checked of the form of a requirement.
ASSUME RequirementAssumption ==
  \A d \in Definitions : \A i \in DOMAIN d : \A f \in DOMAIN d[i].evidence :
    LET r == d[i].evidence[f]
    IN /\ r.form \in {"sources", "domain", "all_of"}
       /\ r.form = "domain" => \E s \in r.of : r.of = {s}
       /\ r.form # "domain" => r.empties = {}

VARIABLES
  language, definition, content,   \* the call and the caller's snapshots
  envelope, signed, trusted,       \* the record in the caller's envelope, the one that
                                   \* was signed, and whether key, time, workspace and
                                   \* project are as the caller trusts them
  payload,                         \* the record the verifier has decoded
  pc, applied,                     \* the verifier; the snapshots it applied
  deviations, edits

vars == << language, definition, content, envelope, signed, trusted, payload,
           pc, applied, deviations, edits >>

-----------------------------------------------------------------------------
(* evidence.py and evidence.mjs *)

Direct(entry) == {f \in DOMAIN entry.evidence : entry.evidence[f].form # "all_of"}

\* Mutant: a conjunction may be of any fields.
EvidenceValidChains(entry) ==
  /\ DOMAIN entry.evidence = DOMAIN entry.fields
  /\ \A f \in DOMAIN entry.evidence : entry.evidence[f].of # {}

\* validate_evidence.
EvidenceValid(entry) ==
  /\ DOMAIN entry.evidence = DOMAIN entry.fields
  /\ \A f \in DOMAIN entry.evidence :
       LET r == entry.evidence[f]
       IN /\ r.of # {}
          /\ r.form = "domain" => entry.fields[f] = "string" /\ r.of \cap r.empties = {}
          /\ r.form = "all_of" =>
               /\ entry.fields[f] = "boolean"
               /\ \A g \in r.of : g \in Direct(entry) /\ entry.fields[g] = "boolean"

\* domain_value: of one mailbox, the other recipients captured and empty.
Domain(text, r) ==
  IF (\E s \in r.of : s \in DOMAIN text /\ text[s] = "mailbox")
     /\ \A s \in r.empties : s \in DOMAIN text /\ text[s] = ""
  THEN {"external.example"} ELSE {}

Typed(value, kind) == IF kind = "boolean" THEN value \in {"true", "false"} ELSE value \notin {"true", "false"}

\* Mutant: what a fact rests on need not have been captured.
FactValidUncaptured(entry, f, text, fact) ==
  LET r == entry.evidence[f]
  IN /\ Typed(fact.value, entry.fields[f])
     /\ fact.field \in r.of \cap DOMAIN text /\ fact.exact

\* One present fact in evidence_context.
FactValid(entry, f, text, fact) ==
  LET r == entry.evidence[f]
  IN /\ Typed(fact.value, entry.fields[f])
     /\ r.form = "sources" => r.of \subseteq DOMAIN text
     /\ fact.field \in r.of \cap DOMAIN text /\ fact.exact
     /\ r.form = "domain" => fact.value \in Domain(text, r)

Missing(facts) == {f \in DOMAIN facts : facts[f] = {}}

\* evidence_context raises unless this holds.
EvidenceHolds(entry, text, p) ==
  /\ EvidenceValid(entry)
  /\ UNION {entry.evidence[f].of \cup entry.evidence[f].empties : f \in Direct(entry)} \subseteq Mapped
  /\ DOMAIN text \subseteq Mapped
  /\ DOMAIN p.facts = Direct(entry)
  /\ p.missing = Missing(p.facts)
  /\ \A f \in DOMAIN p.facts : \A fact \in p.facts[f] : FactValid(entry, f, text, fact)

\* The context evidence_context returns: nothing when anything is missing.
ContextOf(entry, facts) ==
  LET value(f) == IF f \in Direct(entry) THEN (CHOOSE fact \in facts[f] : TRUE).value
                  ELSE IF \A g \in entry.evidence[f].of :
                             g \in DOMAIN facts /\ \A fact \in facts[g] : fact.value = "true"
                       THEN "true" ELSE "false"
  IN [f \in IF Missing(facts) = {} THEN DOMAIN entry.evidence ELSE {} |-> value(f)]

NoRepeats(s) == \A i, j \in DOMAIN s : s[i] = s[j] => i = j

\* validate_policy_definition; verify.mjs knows no input descriptions.
DefinitionValid(d) ==
  /\ NoRepeats([i \in DOMAIN d |-> d[i].action])
  /\ NoRepeats(FlattenSeq([i \in DOMAIN d |-> d[i].grants]))
  /\ \A i \in DOMAIN d :
       /\ d[i].evidence # << >> => EvidenceValid(d[i])
       /\ d[i].described => language = "python"
       /\ NoRepeats([r \in DOMAIN d[i].rules |-> d[i].rules[r].id])
       /\ \A r \in DOMAIN d[i].rules : d[i].rules[r].on \subseteq DOMAIN d[i].fields

-----------------------------------------------------------------------------
(* Records. *)

Entries(d, action) == {i \in DOMAIN d : d[i].action = action}
Policy(e) == [fields |-> e.fields, rules |-> e.rules, decision |-> e.decision]
Status(decision) == IF decision = "deny" THEN "violation_detected" ELSE "no_violation_found"

\* The rules of the policy with that id; the policy itself when there is none.
ChosenBy(e, rule) ==
  IF rule = {} THEN {[decision |-> e.decision, on |-> {}]}
  ELSE {[decision |-> e.rules[i].decision, on |-> e.rules[i].on] :
          i \in {j \in DOMAIN e.rules : e.rules[j].id \in rule}}

\* commit and request_document.
RequestOf(p, text) ==
  [definition |-> p.definition, source |-> p.content, facts |-> p.facts, missing |-> p.missing,
   snapshot |-> text]

\* An honest record of these facts, the recorded result being any of the policy's.
Honest(d, e, text, facts, rule, choice) ==
  LET complete == Missing(facts) = {}
      context  == ContextOf(e, facts)
      p == [action |-> e.action, definition |-> d, content |-> text,
            facts |-> facts, missing |-> Missing(facts), context |-> context,
            evaluation |-> IF complete
                           THEN {[policy |-> Policy(e), context |-> context, rule |-> rule,
                                  decision |-> choice.decision,
                                  fields |-> [f \in choice.on |-> context[f]]]}
                           ELSE {},
            status |-> IF complete THEN Status(choice.decision) ELSE "insufficient_evidence",
            request |-> << >>]
  IN [p EXCEPT !.request = RequestOf(p, text)]

Values == {"true", "false", "external.example", "internal.example"}
Quoted(v, s, x) == {[value |-> v, field |-> s, exact |-> x]}
FactChoices ==
  {{}} \cup {Quoted(v, s, TRUE) : v \in Values, s \in Mapped}
       \cup {Quoted(v, s, FALSE) : v \in {"true", "external.example"}, s \in Mapped}

Init ==
  /\ language \in Languages
  /\ definition \in Definitions /\ content \in Contents
  /\ \E i \in DOMAIN definition :
       LET e == definition[i]
       IN /\ EvidenceValid(e)
          /\ \E facts \in [Direct(e) -> FactChoices] : \E rule \in {{}} \cup {{e.rules[r].id} : r \in DOMAIN e.rules} :
               /\ \A f \in Direct(e) : \A fact \in facts[f] : FactValid(e, f, content, fact)
               /\ Missing(facts) # {} => rule = {}
               /\ \E choice \in ChosenBy(e, rule) : payload = Honest(definition, e, content, facts, rule, choice)
  /\ envelope = payload /\ signed = payload /\ trusted = TRUE
  /\ pc = "signed" /\ applied = {} /\ deviations = 0 /\ edits = 0

With(part, value) == [payload EXCEPT ![part] = value]

\* The records that differ from this one in one part.
Deviants ==
  (UNION {{With("facts", [payload.facts EXCEPT ![f] = fact]) : fact \in FactChoices} :
            f \in DOMAIN payload.facts})
  \cup {With("missing", names) : names \in SUBSET DOMAIN payload.facts}
  \cup {With("context", [payload.context EXCEPT ![f] = "false"]) : f \in DOMAIN payload.context}
  \cup {With("context", << >>), With("evaluation", {})}
  \cup {With("status", s) : s \in {"violation_detected", "no_violation_found", "insufficient_evidence"}}
  \cup {With("definition", d) : d \in Definitions}
  \cup {With("content", text) : text \in Contents}
  \cup (UNION {{With("evaluation", {[result EXCEPT !.decision = decision]}) :
                  decision \in {"allow", "deny"}} : result \in payload.evaluation})

\* A record deviates from an honest one, with or without its request made to agree,
\* with the source it names or with the one that was captured: before it is signed, by
\* a key that is trusted or by another, or when it has been signed.
Deviate ==
  /\ pc = "signed" /\ deviations < MaxDeviations
  /\ deviations' = deviations + 1
  /\ \E p \in Deviants :
       \/ payload' = p
       \/ \E text \in {p.content, content} : payload' = [p EXCEPT !.request = RequestOf(p, text)]
  /\ envelope' = payload'
  /\ \/ signed' = payload' /\ trusted' \in BOOLEAN
     \/ UNCHANGED << signed, trusted >>
  /\ UNCHANGED << language, definition, content, pc, applied, edits >>

-----------------------------------------------------------------------------
(* validate_payload, in the parts between which verify.mjs awaits a digest. *)

Bound(d) == payload.definition = d
Observable(e) ==
  /\ e.evidence # << >> /\ ~e.guarded /\ e.grants = << >>
  /\ e.decision \in {"allow", "deny"}
  /\ \A i \in DOMAIN e.rules : e.rules[i].decision \in {"allow", "deny"}

\* The one entry for the action of the record.
HasOneEntry(d) == \E i \in DOMAIN d : Entries(d, payload.action) = {i}
Entry(d) == d[CHOOSE i \in DOMAIN d : d[i].action = payload.action]

Selected(d) == HasOneEntry(d) /\ Observable(Entry(d))

\* Mutant: the request is not reconstructed from the snapshots.
EvidencePartUnbound(e, text) ==
  /\ EvidenceHolds(e, text, payload)
  /\ payload.context = ContextOf(e, payload.facts)

\* From evidence_context to the request commitment.
EvidencePart(e, text) ==
  /\ EvidenceHolds(e, text, payload)
  /\ payload.context = ContextOf(e, payload.facts)
  /\ payload.request = RequestOf(payload, text)

\* The commitment of the recorded result.
InputPart(e) ==
  payload.missing = {} =>
    \E result \in payload.evaluation : result.policy = Policy(e) /\ result.context = payload.context

\* The recorded result: of the one rule it names, or of the policy.
ResultPart(e) ==
  IF payload.missing # {} THEN payload.evaluation = {} /\ payload.status = "insufficient_evidence"
  ELSE \E result \in payload.evaluation :
         /\ \E choice \in ChosenBy(e, result.rule) :
              /\ result.decision = choice.decision
              /\ choice.on \subseteq DOMAIN payload.context
              /\ result.fields = [f \in choice.on |-> payload.context[f]]
         /\ payload.status = Status(result.decision)

Go(test, next) == pc' = IF test THEN next ELSE "refused"

Record == << envelope, signed, trusted, payload >>

\* verify_assessment of Python, without a pause.
VerifyPython ==
  /\ pc = "signed" /\ language = "python"
  /\ Go(/\ trusted /\ signed = payload
        /\ DefinitionValid(definition) /\ Bound(definition) /\ Selected(definition)
        /\ payload.content = content
        /\ EvidencePart(Entry(definition), content)
        /\ InputPart(Entry(definition)) /\ ResultPart(Entry(definition)), "accepted")
  /\ applied' = {[definition |-> definition, content |-> content]}
  /\ UNCHANGED << language, definition, content, Record, deviations, edits >>

\* verifyAssessment up to the import of the key: the record is decoded, and the bytes of
\* the signature are taken from the envelope.
NodeCall ==
  /\ pc = "signed" /\ language = "node"
  /\ Go(trusted, "called")
  /\ UNCHANGED << language, definition, content, Record, applied, deviations, edits >>

\* Mutant: the verification of the signature is not awaited, and a promise is true.
NodeSignatureUnawaited ==
  /\ pc = "called"
  /\ Go(TRUE, "verified")
  /\ UNCHANGED << language, definition, content, Record, applied, deviations, edits >>

\* The signed bytes are those of the envelope as it is after the import of the key.
NodeSignature ==
  /\ pc = "called"
  /\ Go(signed = envelope, "verified")
  /\ UNCHANGED << language, definition, content, Record, applied, deviations, edits >>

\* validatePayload up to the digest of the definition, which is of this moment.
NodeDefinition ==
  /\ pc = "verified"
  /\ Go(DefinitionValid(definition) /\ Bound(definition), "bound")
  /\ UNCHANGED << language, definition, content, Record, applied, deviations, edits >>

\* The selected action, and the digest of the source.
NodeSource ==
  /\ pc = "bound"
  /\ Go(Selected(definition) /\ payload.content = content, "captured")
  /\ UNCHANGED << language, definition, content, Record, applied, deviations, edits >>

NodeEvidence ==
  /\ pc = "captured"
  /\ Go(EvidencePart(Entry(definition), content), "derived")
  /\ applied' = {[definition |-> definition, content |-> content]}
  /\ UNCHANGED << language, definition, content, Record, deviations, edits >>

NodeInput ==
  /\ pc = "derived"
  /\ Go(InputPart(Entry(definition)), "committed")
  /\ UNCHANGED << language, definition, content, Record, applied, deviations, edits >>

NodeResult ==
  /\ pc = "committed"
  /\ Go(ResultPart(Entry(definition)), "accepted")
  /\ UNCHANGED << language, definition, content, Record, applied, deviations, edits >>

Undecided == {"called", "verified", "bound", "captured", "derived", "committed"}

\* The caller puts the text of another record in the envelope, which is read no more when
\* the signature is there; or it edits a snapshot in place and keeps the action, which
\* is the same before the signature is there as right after it; the source is read
\* from the selection of the action to the derivation of the evidence.
Edit ==
  /\ edits < MaxEdits
  /\ edits' = edits + 1
  /\ \/ pc = "called" /\ envelope' \in {payload, signed} /\ UNCHANGED << definition, content >>
     \/ /\ pc \in Undecided \ {"called"} /\ UNCHANGED envelope
        /\ \/ \E d \in Definitions \ {definition} : HasOneEntry(d) /\ definition' = d /\ UNCHANGED content
           \/ pc \in {"bound", "captured"} /\ content' \in Contents \ {content} /\ UNCHANGED definition
  /\ UNCHANGED << language, signed, trusted, payload, pc, applied, deviations >>

Next ==
  \/ Deviate \/ VerifyPython
  \/ NodeCall \/ NodeSignature
  \/ NodeDefinition \/ NodeSource \/ NodeEvidence \/ NodeInput \/ NodeResult
  \/ Edit

Spec == Init /\ [][Next]_vars

-----------------------------------------------------------------------------
\* An accepted record was signed by a trusted key, also when the caller changes the
\* snapshots: of an envelope that held this record when its signature was verified, which
\* is every one that the caller leaves alone.  (verifyAssessment returns the record that it
\* decoded before it awaited the import of the key, while the signature it then verifies
\* is over the text in the envelope of that moment.)
AcceptedIsSigned ==
  pc = "accepted" => trusted /\ (envelope = payload => signed = payload)

\* An accepted assessment that misses any direct evidence, whatever the other facts
\* are, says so: no context, no result, and only then "insufficient_evidence".
MissingIsInsufficient ==
  pc = "accepted" =>
    LET missing == Missing(payload.facts) # {}
    IN /\ missing <=> payload.status = "insufficient_evidence"
       /\ missing => payload.context = << >> /\ payload.evaluation = {}

\* Accepted facts rest on the sources they were to rest on: all of them captured and
\* mapped, quoted exactly, and a domain recomputed.
FactsRestOnTheSource ==
  pc = "accepted" =>
    \A used \in applied : \A f \in DOMAIN payload.facts : \A fact \in payload.facts[f] :
      LET r == Entry(used.definition).evidence[f]
      IN /\ fact.exact /\ fact.field \in r.of
         /\ r.of \cup r.empties \subseteq DOMAIN used.content
         /\ r.of \cup r.empties \subseteq Mapped
         /\ r.form = "domain" => fact.value = "external.example" /\ used.content[fact.field] = "mailbox"

\* A derived field of an accepted assessment is the conjunction of facts, never of
\* fields that are themselves derived: it has one value in whatever order it is
\* computed.
DerivedFromFacts ==
  pc = "accepted" /\ payload.missing = {} =>
    \A used \in applied : LET e == Entry(used.definition) IN
      \A f \in DOMAIN e.evidence : e.evidence[f].form = "all_of" =>
        /\ e.evidence[f].of \subseteq DOMAIN payload.facts
        /\ payload.context[f] = "true" <=>
             \A g \in e.evidence[f].of : \A fact \in payload.facts[g] : fact.value = "true"

\* The status that is accepted is that of the recorded decision, and the decision
\* that of a rule of the policy, or of the policy when no rule matched, which the
\* caller may disturb by its edits alone.
StatusIsTheDecision ==
  pc = "accepted" /\ payload.missing = {} =>
    \E result \in payload.evaluation :
      /\ payload.status = "violation_detected" <=> result.decision = "deny"
      /\ edits = 0 => \E choice \in ChosenBy(result.policy, result.rule) :
                        /\ choice.decision = result.decision
                        /\ result.fields = [f \in choice.on |-> payload.context[f]]

\* What is accepted follows from the facts: their absence, the context and the status.
ResultIsDerived == MissingIsInsufficient /\ DerivedFromFacts /\ StatusIsTheDecision

\* The evidence was found in the source that was signed, also when the caller changes
\* the snapshot while the verifier awaits: of a record whose request is of its own
\* source, which is every one that is not signed against itself.
CommittedSourceIsCited ==
  pc = "accepted" /\ payload.request.snapshot = payload.content =>
    \A used \in applied : used.content = payload.content

\* spec/profiles/allowly-assessment-v1.md: the evidence was derived under the edition
\* that was signed.
CommittedPolicyIsApplied ==
  pc = "accepted" => \A used \in applied : used.definition = payload.definition
=============================================================================
