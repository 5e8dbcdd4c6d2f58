-------------------------- MODULE MCVerifierParity --------------------------
(***************************************************************************)
(* Valid receipts of every kind, each with every pair of faults: a pair    *)
(* shows which of the two an implementation reports.                       *)
(***************************************************************************)
EXTENDS VerifierParity

CONSTANTS
  MCBases,   \* the valid inputs the faults are put into
  MCFaults   \* the faults, two of which are put into each

MCContext == [ defects |-> {}, period_start |-> 2, period_end |-> 4, receipt_count |-> 0,
               merkle_root |-> << 2 >>, previous_id |-> "c0", previous_root |-> << 2 >> ]

MCResult == [ defects |-> {}, decision |-> "confirm", target |-> "agent_owner",
              rule |-> Null, fields |-> {} ]

MCKeyOf(id, bytes, from, until) ==
  [key_id |-> id, defects |-> {}, bytes |-> bytes, active_from |-> from, active_until |-> until]

MCInput(payload) ==
  [ receipt |-> [jws |-> {}, kid |-> "k1", signer |-> "p1", payload |-> payload],
    keys |-> << MCKeyOf("k0", "p0", 0, {4}), MCKeyOf("k1", "p1", 4, {7}) >>,
    now |-> 4, workspace |-> {"w1"}, trusted |-> {{"p0", "p1"}} ]

MCPayloadOf(action, event, decision) ==
  [ defects |-> {}, schema_version |-> "5", receipt_id |-> "r", workspace_id |-> "w1",
    issued_at |-> 5, decision |-> decision, action |-> action, event |-> event,
    authorization_id |-> "a", resource |-> Null, context |-> MCContext,
    policy_ref |-> "edition", policy_eval |-> Absent, policy_result |-> MCResult ]

MCAction     == [MCPayloadOf("send", Absent, "confirm") EXCEPT !.policy_eval = "present"]
MCSeal       == [MCPayloadOf("record_seal", Absent, "allow") EXCEPT !.policy_ref = Null]
MCUnresolved == [MCSeal EXCEPT !.action = "send", !.decision = "deny",
                               !.authorization_id = Null, !.resource = "thing"]
MCGrant      == MCPayloadOf(Absent, "authorization_create", "authorization_granted")
MCSettle     == [MCPayloadOf(Absent, "budget_settle", "budget_settled")
                   EXCEPT !.resource = "thing"]
MCCheckpoint == [MCPayloadOf(Absent, "receipt_checkpoint", "receipt_set_committed")
                   EXCEPT !.authorization_id = Null, !.policy_ref = Null]

MCEveryBase == {MCAction, MCSeal, MCUnresolved, MCGrant, MCSettle, MCCheckpoint}

-----------------------------------------------------------------------------
(* A fault is << where, what >> or << where, field, value >>. *)

MCEveryFault ==
  ({"jws"} \X {JwsOrder[i] : i \in DOMAIN JwsOrder})
  \union ({"payload"} \X {SchemaOrder[i] : i \in DOMAIN SchemaOrder})
  \union {<< "policy_eval", "policy_eval_shape" >>}
  \union ({"result"} \X {"result_members", "result_profile", "result_rule", "result_fields"})
  \union ({"context"} \X {"context_members", "receipt_count", "merkle_root", "previous_id",
                          "previous_root"})
  \union ({"key"} \X {KeyOrder[i] : i \in DOMAIN KeyOrder})
  \union { << "field", "schema_version", "4" >>, << "field", "workspace_id", "w2" >>,
           << "field", "issued_at", Unparseable >>, << "field", "issued_at", 3 >>,
           << "field", "issued_at", 6 >>,
           << "field", "decision", "allow" >>, << "field", "decision", "receipt_set_committed" >>,
           << "field", "decision", "perhaps" >>, << "field", "action", Absent >>,
           << "field", "action", NotString >>, << "field", "action", "send" >>,
           << "field", "event", Absent >>, << "field", "event", NotString >>,
           << "field", "event", "unheard_of" >>, << "field", "event", "receipt_checkpoint" >>,
           << "field", "event", "authorization_revoke" >>,
           << "field", "authorization_id", Null >>, << "field", "authorization_id", "a" >>,
           << "field", "resource", "thing" >>, << "field", "policy_ref", Null >>,
           << "field", "policy_ref", "edition" >>, << "field", "policy_eval", "present" >>,
           << "policy_result", "decision", "perhaps" >>, << "policy_result", "target", Null >>,
           << "policy_result", "fields", {"amount"} >>, << "policy_result", "rule", "r1" >>,
           << "span", "period_start", Unparseable >>, << "span", "period_end", Unparseable >>,
           << "span", "period_start", 3 >>, << "span", "period_start", 4 >>,
           << "span", "period_end", 6 >>,
           << "link", "previous_id", Null >>, << "link", "previous_root", NoRoot >>,
           << "window", "active_from", 6 >>, << "window", "active_until", {} >>,
           << "window", "active_until", {5} >>, << "window", "active_until", {4} >>,
           << "option", "now", Unparseable >>, << "option", "now", 3 >>, << "option", "now", 5 >>,
           << "option", "workspace", {} >>, << "option", "trusted", {} >>,
           << "option", "trusted", {{"p0"}} >>, << "wire", "kid", "k9" >>,
           << "wire", "signer", "p0" >>, << "wire", "signer", NoSigner >>,
           << "twin", "before" >>, << "twin", "after" >> }

\* Another entry of the kid k1, with other bytes, before or after the second key.
MCTwin(keys, place) ==
  LET n == IF place = "before" THEN 1 ELSE 2
  IN SubSeq(keys, 1, n) \o << MCKeyOf("k1", "p9", 4, {7}) >> \o SubSeq(keys, n + 1, Len(keys))

MCWith(fault, in) ==
  CASE fault[1] = "jws"     -> [in EXCEPT !.receipt.jws = @ \union {fault[2]}]
    [] fault[1] = "payload" -> [in EXCEPT !.receipt.payload.defects = @ \union {fault[2]}]
    [] fault[1] = "policy_eval" ->
         [in EXCEPT !.receipt.payload.policy_eval = "present",
                    !.receipt.payload.defects = @ \union {fault[2]}]
    [] fault[1] = "result"  -> [in EXCEPT !.receipt.payload.policy_result.defects = @ \union {fault[2]}]
    [] fault[1] = "context" -> [in EXCEPT !.receipt.payload.context.defects = @ \union {fault[2]}]
    [] fault[1] = "key"     -> [in EXCEPT !.keys[2].defects = @ \union {fault[2]}]
    [] fault[1] = "field"   -> [in EXCEPT !.receipt.payload[fault[2]] = fault[3]]
    [] fault[1] = "policy_result" -> [in EXCEPT !.receipt.payload.policy_result[fault[2]] = fault[3]]
    [] fault[1] \in {"span", "link"} -> [in EXCEPT !.receipt.payload.context[fault[2]] = fault[3]]
    [] fault[1] = "window"  -> [in EXCEPT !.keys[2][fault[2]] = fault[3]]
    [] fault[1] = "option"  -> [in EXCEPT ![fault[2]] = fault[3]]
    [] fault[1] = "wire"    -> [in EXCEPT !.receipt[fault[2]] = fault[3]]
    [] fault[1] = "twin"    -> [in EXCEPT !.keys = MCTwin(@, fault[2])]

MCAllInputs ==
  {MCWith(f, MCWith(g, MCInput(base))) : f \in MCFaults, g \in MCFaults, base \in MCBases}
  \union {MCInput(base) : base \in MCBases}

MCInputs == MCAllInputs

-----------------------------------------------------------------------------
(* Payloads: graphs of three nodes: a root, a second container or scalar, and  *)
(* a third that may point back at the root.  Three names: an array index, one  *)
(* after the surrogates and one that needs a pair of them.                     *)

MCCodePoints == [two |-> << 50 >>, private |-> << 57344 >>, astral |-> << 65536 >>]
MCIndexNames == << "two" >>

Scalar(kind) == [kind |-> kind, names |-> << >>, kids |-> << >>]
ArrayOf(kids) == [kind |-> "array", names |-> << >>, kids |-> kids]
ObjectOf(names, kids) == [kind |-> "object", names |-> names, kids |-> kids]

MCPairs == {<< a, b >> : a \in DOMAIN MCCodePoints, b \in DOMAIN MCCodePoints} \ {<< a, a >> : a \in DOMAIN MCCodePoints}
MCArrays == {ArrayOf(<< >>)} \cup {ArrayOf(<< i >>) : i \in 1 .. 3} \cup {ArrayOf(<< i, j >>) : i, j \in 1 .. 3}
MCObjects == {ObjectOf(pair, << i, j >>) : pair \in MCPairs, i, j \in 2 .. 3}
MCScalars == {Scalar(k) : k \in {"integer", "integral", "fraction", "unsafe", "surrogate", "string"}}

MCAllGraphs ==
  {<< a, b, c >> : a \in MCArrays \cup MCObjects, b \in MCArrays \cup MCObjects \cup MCScalars,
                   c \in MCScalars \cup {ArrayOf(<< 1 >>), ArrayOf(<< >>)}}

MCGraphs == MCAllGraphs
=============================================================================
