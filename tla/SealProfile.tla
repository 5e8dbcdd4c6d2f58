----------------------------- MODULE SealProfile -----------------------------
(***************************************************************************)
(* The SEAL profile: verifying a receipt against a record, scanning the    *)
(* text of a record, and reading the numbers in it.  verify_seal_json does *)
(* them one inside the other: SealVerification takes of the text the       *)
(* faults that are found in it, SealScanner and SealNumbers show how they  *)
(* are found.  The parts share no state; a behaviour is of one of them.    *)
(***************************************************************************)
EXTENDS SealNumbers

CONSTANTS
  Receipts, Records, MaxHeld,                  \* those of SealVerification
  MaxDepth, MaxNames, MaxLetters               \* those of SealScanner

ASSUME ScannerAssumption ==
  MaxDepth \in Nat \ {0} /\ MaxNames \in Nat \ {0} /\ MaxLetters \in Nat

ASSUME ReceiptsAssumption ==
  /\ \A receipt \in Receipts : receipt.verifies \in BOOLEAN
  /\ \A record \in Records : record.value \notin {"unacceptable", "malformed"}

VARIABLES
  subject,                                           \* the part that runs
  language, given, called, held, own, result,        \* SealVerification
  open, expect, text, raw, scan, tooDeep, repeated   \* SealScanner

sealVars   == << language, given, called, held, own, result >>
textVars   == << open, expect, text, raw, scan, tooDeep, repeated >>
vars       == << subject, sealVars, textVars, numberVars >>

Verification == INSTANCE SealVerification
Scanner      == INSTANCE SealScanner

-----------------------------------------------------------------------------
SomeInput == CHOOSE o \in Verification!Inputs : TRUE

Init ==
  /\ subject \in {"seal", "text", "number"}
  /\ Verification!Init
  /\ subject # "seal" => language = "python" /\ given = SomeInput
  /\ Scanner!Init
  /\ NumberInit

Verify == subject = "seal" /\ Verification!Next /\ UNCHANGED << subject, textVars, numberVars >>
Scan   == subject = "text" /\ Scanner!Next /\ UNCHANGED << subject, sealVars, numberVars >>
Parse  == subject = "number" /\ NumberNext /\ UNCHANGED << subject, sealVars, textVars >>

Next == Verify \/ Scan \/ Parse

Spec == Init /\ [][Next]_vars

-----------------------------------------------------------------------------
\* The types of the parts.
TypeOK == Verification!TypeOK /\ Scanner!TypeOK /\ NumberTypeOK

\* The result of verifySeal is that of _verify_seal for the receipt of the call and
\* one record the caller held meanwhile, although the record is read after an await.
VerdictIsOfOneInstant == Verification!VerdictIsOfOneInstant

\* The result is what Appendix B of the format says of receipt and record.
ResultFollowsTheFormat == Verification!ResultFollowsTheFormat

\* The readers of a text that do not parse it stay in step with the one that does,
\* and all of them find the same repeated names and the same depths too great.
ScannersFollowTheParser ==
  /\ Scanner!CounterFollowsTheParser
  /\ Scanner!NamesFollowTheParser
  /\ Scanner!RepeatsAreFoundAlike
  /\ Scanner!DepthIsLimitedAlike

\* A number that is accepted is hashed as it was written, in whichever spelling it
\* was; Python, TypeScript and, for exponents of ordinary length, the browser accept
\* the same ones.
NumbersAreSound ==
  /\ NoNumberIsChanged
  /\ SpellingDoesNotMatter
  /\ SameNumbersAccepted
  /\ BrowserAgreesOnShortExponents
=============================================================================
