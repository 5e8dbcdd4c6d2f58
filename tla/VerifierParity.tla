--------------------------- MODULE VerifierParity ---------------------------
(***************************************************************************)
(* The two reference implementations given the same receipt, keys, clock   *)
(* and options, in either order, and what they answer; or the same payload *)
(* to canonicalise.  The receipts of the first part have their payloads    *)
(* abstracted and the payloads of the second are of no receipt: the parts  *)
(* share no state, and a behaviour is of one of them.                      *)
(***************************************************************************)
EXTENDS TsReceiptRules

CONSTANTS
  Inputs,        \* [receipt, keys, now, workspace, trusted]
  Graphs, CodePoints, IndexNames, MaxDepth, MaxNodes   \* those of CanonicalTree

Unanswered == "unanswered"

\* The receipts and keys are of the data model of ReceiptRules.
ASSUME InputsAssumption ==
  \A in \in Inputs :
    /\ IsReceipt(in.receipt)
    /\ IsKeyList(in.keys)
    /\ in.now \in Instants

VARIABLES
  subject,                     \* what the two are given: a receipt or a payload
  input, python, typescript,   \* the receipt and the answers
  graph, walks                 \* the payload and its walks, see CanonicalTree

receiptVars == << input, python, typescript >>
payloadVars == << graph, walks >>
parityVars == << subject, receiptVars, payloadVars >>

Payload == INSTANCE CanonicalTree

\* Names are sequences of Unicode scalar values, told apart by them.  A payload has a root,
\* its nodes lead to nodes of its own, the members of an object have different names, and
\* scalars have nothing below.  No name and no scalar is taken for structure in a text.
ASSUME PayloadsAssumption ==
  /\ MaxDepth \in Nat /\ MaxNodes \in Nat
  /\ IndexNames \in Seq(DOMAIN CodePoints)
  /\ Payload!Structural \cap DOMAIN CodePoints = {}
  /\ \A a \in DOMAIN CodePoints :
       /\ CodePoints[a] \in Seq(Nat)
       /\ \A i \in DOMAIN CodePoints[a] : Payload!IsScalarValue(CodePoints[a][i])
       /\ \A b \in DOMAIN CodePoints : CodePoints[a] = CodePoints[b] => a = b
  /\ \A g \in Graphs :
       /\ 1 \in DOMAIN g
       /\ \A m \in DOMAIN g :
            /\ g[m].kids \in Seq(DOMAIN g)
            /\ g[m].kind \notin Payload!Structural
            /\ g[m].kind = "object" =>
                 /\ g[m].names \in Seq(DOMAIN CodePoints)
                 /\ DOMAIN g[m].names = DOMAIN g[m].kids
                 /\ \A i, j \in DOMAIN g[m].names : g[m].names[i] = g[m].names[j] => i = j
            /\ g[m].kind \notin {"array", "object"} => g[m].kids = << >>

SomeInput == CHOOSE in \in Inputs : TRUE
SomeGraph == CHOOSE g \in Graphs : TRUE

ParityInit ==
  /\ \/ subject = "receipt" /\ input \in Inputs /\ graph = SomeGraph
     \/ subject = "payload" /\ graph \in Graphs /\ input = SomeInput
  /\ python = Unanswered
  /\ typescript = Unanswered
  /\ walks = Payload!FirstWalks

PythonAnswers ==
  /\ subject = "receipt" /\ python = Unanswered
  /\ python' = VerifyReceipt(input.receipt, input.keys, input.now, input.workspace, input.trusted)
  /\ UNCHANGED << subject, input, typescript, payloadVars >>

TypeScriptAnswers ==
  /\ subject = "receipt" /\ typescript = Unanswered
  /\ typescript' =
       TsVerifyReceipt(input.receipt, input.keys, input.now, input.workspace, input.trusted)
  /\ UNCHANGED << subject, input, python, payloadVars >>

\* canonicalize of either, one turn of its walk at a time.
Walk == subject = "payload" /\ Payload!Next /\ UNCHANGED << subject, receiptVars >>

ParityNext == PythonAnswers \/ TypeScriptAnswers \/ Walk

ParitySpec == ParityInit /\ [][ParityNext]_parityVars

BothAnswered == python # Unanswered /\ typescript # Unanswered

-----------------------------------------------------------------------------
\* A receipt is valid for both implementations or for neither (README of
\* verifiers/: the two verifiers run the same vectors).
SameAcceptance == BothAnswered => (python = Accepted <=> typescript = Accepted)

(***************************************************************************)
(* receipt-format.md 3 and 7 as a table: what a valid receipt is, without  *)
(* any order of checks.                                                    *)
(***************************************************************************)
ShapeIsValid(r) ==
  r.jws = {} /\ r.payload.defects = {} /\ r.payload.schema_version = "5"

KindIsValid(p) ==
  \/ /\ p.action \notin {Absent, NotString} /\ p.event = Absent
     /\ p.decision \in {"allow", "deny", "confirm", "escalate"}
  \/ /\ p.action = Absent
     /\ \/ p.event = "authorization_create" /\ p.decision = "authorization_granted"
        \/ p.event = "authorization_revoke" /\ p.decision = "authorization_revoked"
        \/ p.event = "budget_settle" /\ p.decision = "budget_settled"
        \/ /\ p.event = "confirmation_resolve"
           /\ p.decision \in {"confirmation_approved", "confirmation_rejected"}
        \/ /\ p.event = "escalation_resolve"
           /\ p.decision \in {"escalation_approved", "escalation_rejected"}
        \/ p.event = "receipt_checkpoint" /\ p.decision = "receipt_set_committed"
     /\ (p.authorization_id = Null) = (p.event = "receipt_checkpoint")
     /\ p.event \in {"authorization_create", "authorization_revoke", "receipt_checkpoint"}
          => p.resource = Null
     /\ p.policy_eval = Absent

\* 3.6: who names a policy edition, and what an evaluation reports.
PolicyIsValid(p) ==
  /\ p.authorization_id = Null => p.policy_ref = Null
  /\ p.authorization_id # Null => p.policy_ref # Null \/ p.action = "record_seal"
  /\ p.policy_eval # Absent =>
       /\ p.policy_ref # Null
       /\ p.policy_result.defects = {}
       /\ << p.policy_result.decision, p.policy_result.target >> \in
            { << "allow", Null >>, << "deny", Null >>,
              << "confirm", "agent_owner" >>, << "escalate", "member" >> }
       /\ p.policy_result.rule = Null => p.policy_result.fields = {}

\* 3.7: a checkpoint commits one whole day that is over.
CheckpointIsValid(p) ==
  p.event = "receipt_checkpoint" =>
    /\ p.context.defects = {}
    /\ \E d \in 0 .. p.issued_at :
         /\ p.context.period_start = d * Day
         /\ p.context.period_end = (d + 1) * Day
         /\ (d + 1) * Day <= p.issued_at
    /\ p.context.previous_id = Null <=> p.context.previous_root = NoRoot

\* 6 and 7: one key is meant by the kid, pinned, active at issued_at, and made
\* the signature.
SignatureIsValid(in) ==
  LET r == in.receipt
  IN \E i \in DOMAIN in.keys :
       /\ \A j \in 1 .. i - 1 : ~StopsSearch(in.keys[j], r.kid)
       /\ in.keys[i].key_id = r.kid /\ in.keys[i].defects = {}
       /\ in.keys[i].active_from <= r.payload.issued_at
       /\ \A u \in in.keys[i].active_until : r.payload.issued_at < u
       /\ \A pins \in in.trusted : in.keys[i].bytes \in pins
       /\ r.signer = in.keys[i].bytes

IsValid(in) ==
  LET p == in.receipt.payload
  IN /\ ShapeIsValid(in.receipt)
     /\ KindIsValid(p) /\ PolicyIsValid(p) /\ CheckpointIsValid(p)
     /\ p.issued_at # Unparseable /\ in.now # Unparseable /\ p.issued_at <= in.now + Skew
     /\ \A w \in in.workspace : p.workspace_id = w
     /\ SignatureIsValid(in)

\* The Python verifier accepts exactly what the format's rules call valid,
\* whatever the combination of faults.
PythonFollowsTheFormat ==
  python # Unanswered => (python = Accepted <=> IsValid(input))

\* Both languages walk a payload alike: each accepts exactly the trees within the
\* limits, they accept the same ones, for the same reason if not, and neither does
\* more work on a payload of any shape, cyclic ones included, than the limit allows.
TreesAreSound ==
  /\ Payload!WorkIsBounded
  /\ Payload!AcceptsExactlySmallTrees
  /\ Payload!SameTrees
  /\ Payload!SameReason

\* Equal payloads, and only they, have one canonical text in both languages: a
\* signature of one never verifies for another (_encode_value and stringify).
TextIsOfTheValue == Payload!TextIsOfTheValue
=============================================================================
