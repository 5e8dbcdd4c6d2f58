--------------------------- MODULE MCSealProfile ---------------------------
EXTENDS SealProfile

(***************************************************************************)
(* A SEAL of the value "paid" and receipts that differ from it in one or   *)
(* two members; records of each kind, faultless or with one fault.         *)
(***************************************************************************)

MCMalformed == "malformed"   \* Malformed of SealVerification

MCSeal ==
  [ verifies |-> TRUE, action |-> "record.seal", decision |-> "allow",
    agent_id |-> "allowly.seal", user_id |-> "allowly:seal",
    profile |-> "allowly.seal.jcs-sha256.v1", record_sha256 |-> "paid" ]

MCOne ==
  { [MCSeal EXCEPT !.verifies = FALSE], [MCSeal EXCEPT !.action = "send"],
    [MCSeal EXCEPT !.decision = "deny"], [MCSeal EXCEPT !.agent_id = "someone"],
    [MCSeal EXCEPT !.user_id = "someone"], [MCSeal EXCEPT !.profile = "other"],
    [MCSeal EXCEPT !.record_sha256 = MCMalformed],
    [MCSeal EXCEPT !.record_sha256 = "void"] }

\* Two faults of a receipt at a time tell the order of the checks.
MCReceipts ==
  {MCSeal} \cup MCOne \cup
  { [MCSeal EXCEPT !.decision = "deny", !.agent_id = "someone"],
    [MCSeal EXCEPT !.agent_id = "someone", !.profile = "other"],
    [MCSeal EXCEPT !.profile = "other", !.record_sha256 = MCMalformed] }

MCFaults == {{}, {"syntax"}, {"duplicate_member"}, {"depth"}}

MCRecords ==
  { r \in [kind: {"text", "bytes", "value"}, value: {"paid", "void"}, faults: MCFaults] :
      r.kind = "value" => r.faults \notin {{"syntax"}} }

-----------------------------------------------------------------------------
(***************************************************************************)
(* Four bits of precision, numbers from 1/8 to 120: every significand up   *)
(* to 130 with up to two digits after the point, exponents -2 to 2, and a  *)
(* long exponent that as many digits after the point make up for.          *)
(***************************************************************************)

MCLeastExponent == -3

MCShapes == ((0 .. 2) \X (-2 .. 2)) \cup {<< 9, 10 >>, << 10, 10 >>}

MCToken(n, f, e, plain) == [significand |-> n, fraction |-> f, exponent |-> e, plain |-> plain]

MCAllTokens ==
  { MCToken(n, s[1], s[2], FALSE) : n \in 0 .. 130, s \in MCShapes }
  \cup { MCToken(n, 0, 0, TRUE) : n \in 0 .. 130 }

MCTokens == MCAllTokens
=============================================================================
