---------------------------- MODULE SealNumbers ----------------------------
(***************************************************************************)
(* Which numbers a SEAL record may contain: the number hooks of seal.py,   *)
(* parseSealNumber of verifier.ts and parseNumber of browser/sealJson.ts.  *)
(* A number is acceptable when the binary floating point number nearest to *)
(* it stands for no other decimal; the three make this test differently.   *)
(*                                                                         *)
(* The floating point format is that of IEEE 754 with Precision bits and   *)
(* exponents LeastExponent .. GreatestExponent, so 2^Precision - 1 is the  *)
(* largest safe integer (binary64: 53, -1074, 971).  A token is            *)
(*   [significand, fraction, exponent, plain]                              *)
(* for significand * 10^(exponent - fraction), fraction being the digits   *)
(* written after the point; plain when it has neither point nor exponent.  *)
(* Signs are left out.  Quantities are integers in units of 10^-Places.    *)
(***************************************************************************)
EXTENDS Integers, FiniteSets, FiniteSetsExt, Functions

CONSTANTS
  Precision, LeastExponent, GreatestExponent,
  MaxExponentDigits,   \* the digits of an exponent the browser reads (6)
  Tokens,              \* the number tokens of a record
  Places               \* decimals, enough for the tokens and the binary fractions

ASSUME FormatAssumption ==
  /\ Precision \in Nat \ {0}
  /\ LeastExponent \in Int
  /\ GreatestExponent \in Nat
  /\ Places > -LeastExponent

VARIABLES
  token,       \* what was read last, in a set of at most one
  accepted     \* the readers that accept it

numberVars == << token, accepted >>

-----------------------------------------------------------------------------
(* Decimals and binary floating point. *)

Unit    == 10 ^ Places
MaxSafe == (2 ^ Precision - 1) * Unit

Value(t) == t.significand * 10 ^ (t.exponent - t.fraction + Places)

\* The finite numbers m * 2^e, and the next one, which overflow stands for.
Scaled(m, e) == IF e < 0 THEN (m * Unit) \div 2 ^ (-e) ELSE m * Unit * 2 ^ e
Subnormals == { [mantissa |-> m, exponent |-> LeastExponent] : m \in 0 .. 2 ^ Precision - 1 }
Normals    == { [mantissa |-> m, exponent |-> e] :
                  m \in 2 ^ (Precision - 1) .. 2 ^ Precision - 1,
                  e \in LeastExponent + 1 .. GreatestExponent }
Infinity   == [mantissa |-> 2 ^ Precision, exponent |-> GreatestExponent]
Doubles    == Subnormals \cup Normals
Size(d)    == Scaled(d.mantissa, d.exponent)
Zero       == [mantissa |-> 0, exponent |-> LeastExponent]

Distance(a, b) == IF a < b THEN b - a ELSE a - b

\* float and Number: the nearest, of two the even one; overflow to infinity.
Nearest(x) ==
  IF x >= Size(Infinity) THEN Infinity
  ELSE LET least == Min({Distance(x, Size(d)) : d \in Doubles \cup {Infinity}})
           close == {d \in Doubles \cup {Infinity} : Distance(x, Size(d)) = least}
       IN CHOOSE d \in close : Cardinality(close) = 1 \/ d.mantissa % 2 = 0

IsInteger(d) == Size(d) % Unit = 0

\* repr and String: the shortest decimal that Nearest maps to d, of several
\* the closest to d.
Shortest(d) ==
  LET hits(j) ==
        LET k == Size(d) \div 10 ^ j
        IN { x \in {k * 10 ^ j, (k + 1) * 10 ^ j} : x # 0 /\ Nearest(x) = d }
      j == Max({ i \in 0 .. Places + 3 : hits(i) # {} })
      least == Min({Distance(x, Size(d)) : x \in hits(j)})
      close == {x \in hits(j) : Distance(x, Size(d)) = least}
  IN IF d = Zero THEN 0
     ELSE CHOOSE x \in close : Cardinality(close) = 1 \/ (x \div 10 ^ j) % 2 = 0

\* Both functions, computed once.
NearestOf  == [x \in {Value(t) : t \in Tokens} |-> Nearest(x)]
ShortestOf == [d \in {NearestOf[x] : x \in DOMAIN NearestOf} \ {Infinity} |-> Shortest(d)]

\* The digits of a decimal without leading and trailing zeros.
SignificantDigits(x) ==
  IF x = 0 THEN 0 ELSE x \div 10 ^ Max({ j \in 0 .. Places + 4 : x % 10 ^ j = 0 })

-----------------------------------------------------------------------------
(* The three readers. *)

\* _parse_integer.
PyInteger(t) == Value(t) <= MaxSafe

\* Mutant: a fraction is rounded silently.
PyFloatRounded(t) ==
  LET d == NearestOf[Value(t)]
  IN /\ d # Infinity
     /\ d = Zero => t.significand = 0
     /\ ~(IsInteger(d) /\ Size(d) > MaxSafe)

\* _parse_float.
PyFloat(t) ==
  LET d == NearestOf[Value(t)]
  IN /\ d # Infinity
     /\ \/ d = Zero /\ t.significand = 0
        \/ /\ d # Zero
           /\ ~(IsInteger(d) /\ Size(d) > MaxSafe)
           /\ Value(t) = ShortestOf[d]

PythonAccepts(t) == IF t.plain THEN PyInteger(t) ELSE PyFloat(t)

\* parseSealNumber.  isSafeNumber compares digits, not exponents.
TypeScriptAccepts(t) ==
  LET d == NearestOf[Value(t)]
  IN /\ d # Infinity
     /\ ~(d = Zero /\ t.significand # 0)
     /\ ~(IsInteger(d) /\ Size(d) > MaxSafe)
     /\ d # Zero => SignificantDigits(Value(t)) = SignificantDigits(ShortestOf[d])

\* normalizedDecimal refuses a long exponent of a number that is not zero.
Normalizes(t) ==
  t.significand = 0 \/ Distance(t.exponent, 0) < 10 ^ MaxExponentDigits

\* parseNumber; sameDecimalValue compares digits and exponents.
BrowserAccepts(t) ==
  LET d == NearestOf[Value(t)]
  IN /\ d # Infinity
     /\ ~(IsInteger(d) /\ Size(d) > MaxSafe)
     /\ Normalizes(t)
     /\ Value(t) = ShortestOf[d]

-----------------------------------------------------------------------------
Readers == {"python", "typescript", "browser"}

NumberInit == token = {} /\ accepted = {}

\* The readers that accept the token.
AcceptedBy(t) ==
  { r \in Readers : \/ r = "python" /\ PythonAccepts(t)
                    \/ r = "typescript" /\ TypeScriptAccepts(t)
                    \/ r = "browser" /\ BrowserAccepts(t) }

\* A number of the record is read; what came before does not matter.
Read(t) == token = {} /\ token' = {t} /\ accepted' = AcceptedBy(t)

NumberNext == \E t \in Tokens : Read(t)

NumberSpec == NumberInit /\ [][NumberNext]_numberVars

-----------------------------------------------------------------------------
\* One token at a time, and the readers that accept it.
NumberTypeOK == token \subseteq Tokens /\ Cardinality(token) <= 1 /\ accepted \subseteq Readers

\* Python's comparison of exact decimals and TypeScript's comparison of digits
\* accept the same tokens.
SameNumbersAccepted == "python" \in accepted <=> "typescript" \in accepted

\* The number that is hashed, the double's shortest decimal, is the one that was
\* written: records with different numbers never share a digest.
NoNumberIsChanged ==
  \A t \in token : accepted # {} => Value(t) = ShortestOf[NearestOf[Value(t)]]

\* Acceptance does not depend on the spelling: 1, 1.0 and 1e0 are accepted alike,
\* although integers and fractions take different paths.
SpellingDoesNotMatter ==
  \A t \in token : \A u \in Tokens :
    Value(u) = Value(t) =>
      /\ PythonAccepts(u) <=> "python" \in accepted
      /\ TypeScriptAccepts(u) <=> "typescript" \in accepted

\* Numbers with an exponent of ordinary length are accepted by the browser when
\* the verifiers accept them.
BrowserAgreesOnShortExponents ==
  \A t \in token : Normalizes(t) => ("browser" \in accepted <=> "python" \in accepted)
=============================================================================
