---------------------------- MODULE SealScanner ----------------------------
(***************************************************************************)
(* The text of a SEAL record is read several times.  Python and TypeScript *)
(* count brackets before they parse; TypeScript scans the text once more   *)
(* for repeated names, without parsing; the depth of the tree is checked   *)
(* after parsing.  The browser does all of it in one recursive descent.    *)
(* Here the text grows a character at a time along the JSON grammar while  *)
(* every reader sees that character.  Texts outside the grammar are left   *)
(* out: all readers refuse them, with one reason or another.               *)
(*                                                                         *)
(* A character is named by a word: array and object open what they name,   *)
(* endArray and endObject close it; digit stands for a number or a literal.*)
(* Those of strings are a letter, a bracket and three escapes: those of    *)
(* the quote and the backslash, and u, a second spelling of the letter.    *)
(***************************************************************************)
EXTENDS Integers, Sequences, SequencesExt

CONSTANTS
  MaxDepth,     \* SEAL_MAX_DEPTH
  MaxNames,     \* bound: the names of an object
  MaxLetters    \* bound: the decoded length of a string

VARIABLES
  open,      \* the parser: the containers around the next character
  expect,    \* what the grammar allows next
  text,      \* the decoded characters of the string being read
  raw,       \* the bracket counter
  scan,      \* the scan for repeated names
  tooDeep,   \* the checks that found the text too deep
  repeated   \* the readers that found a repeated name

vars == << open, expect, text, raw, scan, tooDeep, repeated >>

Quote     == "quote"
Backslash == "backslash"
Letters   == {"a", "endArray"}
Escapes   == {Quote, Backslash, "u"}
Unescaped(c) == IF c = "u" THEN "a" ELSE c

-----------------------------------------------------------------------------
(* The scanners, one character at a time. *)

Readers == {"python", "typescript", "browser"}

\* Mutant: a backslash always escapes, also when it is escaped itself.
RawScanEscapes(s, c) ==
  IF s.inString
  THEN [s EXCEPT !.escaped = (c = Backslash), !.inString = s.escaped \/ c # Quote]
  ELSE IF c = Quote THEN [s EXCEPT !.inString = TRUE]
  ELSE IF c \in {"array", "object"} THEN [s EXCEPT !.depth = @ + 1]
  ELSE IF c \in {"endArray", "endObject"} THEN [s EXCEPT !.depth = @ - 1]
  ELSE s

\* _check_raw_depth and checkRawSealDepth.
RawScan(s, c) ==
  IF s.inString
  THEN [s EXCEPT !.escaped = ~@ /\ c = Backslash, !.inString = s.escaped \/ c # Quote]
  ELSE IF c = Quote THEN [s EXCEPT !.inString = TRUE]
  ELSE IF c \in {"array", "object"} THEN [s EXCEPT !.depth = @ + 1]
  ELSE IF c \in {"endArray", "endObject"} THEN [s EXCEPT !.depth = @ - 1]
  ELSE s

\* JSON.parse of a string token: what is read of it, and whether an escape is begun.
ReadOn(read, c) ==
  IF read.escaped THEN [text |-> Append(read.text, Unescaped(c)), escaped |-> FALSE]
  ELSE IF c = Backslash THEN [text |-> read.text, escaped |-> TRUE]
  ELSE [text |-> Append(read.text, c), escaped |-> FALSE]

ReadToken(token) ==
  LET read[n \in 0 .. Len(token)] ==
        IF n = 0 THEN [text |-> << >>, escaped |-> FALSE] ELSE ReadOn(read[n - 1], token[n])
  IN read[Len(token)]

Decode(token) == ReadToken(token).text

\* namespaceObjectKeysForValidation: a string followed by a colon is a name.
\* whole is the string just read, in a set of at most one.
NameScan(s, c) ==
  CASE s.inString /\ (s.escaped \/ c # Quote) ->
         [s EXCEPT !.escaped = ~@ /\ c = Backslash, !.token = Append(@, c)]
    [] s.inString /\ ~s.escaped /\ c = Quote ->
         [s EXCEPT !.inString = FALSE, !.whole = {Decode(s.token)}, !.token = << >>]
    [] ~s.inString /\ c = "space" -> s
    [] ~s.inString /\ c # "space" -> [s EXCEPT
         !.inString = (c = Quote), !.whole = {},
         !.keys = CASE c = "object" -> Append(s.keys, {})
                    [] c = "endObject" -> Front(s.keys)
                    [] c = "colon" -> [s.keys EXCEPT ![Len(s.keys)] = @ \cup s.whole]
                    [] OTHER -> s.keys]

Scanned(c) == raw' = RawScan(raw, c) /\ scan' = NameScan(scan, c)

-----------------------------------------------------------------------------
(* Depth and names. *)

\* parseValue: the outermost value has depth zero.
BrowserRefusesDepth == Len(open) >= MaxDepth

\* A value begins: _validate_seal_tree gives the outermost value depth one, and
\* the bracket counter raises at a bracket.
DeepAt(c) ==
  (IF c \in {"array", "object"} /\ ~raw.inString /\ raw.depth + 1 > MaxDepth THEN {"raw"} ELSE {})
  \cup (IF Len(open) + 1 > MaxDepth THEN {"tree"} ELSE {})
  \cup (IF BrowserRefusesDepth THEN {"browser"} ELSE {})

\* _unique_object.
Unique(names) == \A i, j \in DOMAIN names : names[i] = names[j] => i = j

-----------------------------------------------------------------------------
(* The grammar. *)

Init ==
  /\ open = << >> /\ expect = "value" /\ text = << >>
  /\ raw = [depth |-> 0, inString |-> FALSE, escaped |-> FALSE]
  /\ scan = [keys |-> << >>, inString |-> FALSE, escaped |-> FALSE, token |-> << >>, whole |-> {}]
  /\ tooDeep = {} /\ repeated = {}

AfterValue(containers) == IF containers = << >> THEN "end" ELSE "separator"
StartsValue == expect \in {"value", "first"}

\* A number or a literal.
Scalar ==
  /\ StartsValue
  /\ tooDeep' = DeepAt("digit")
  /\ expect' = IF DeepAt("digit") = {} THEN AfterValue(open) ELSE "refused"
  /\ Scanned("digit")
  /\ UNCHANGED << open, text, repeated >>

Open(c) ==
  /\ StartsValue
  /\ tooDeep' = DeepAt(c)
  /\ open' = Append(open, [kind |-> c, names |-> << >>])
  /\ expect' = IF DeepAt(c) # {} THEN "refused" ELSE IF c = "array" THEN "first" ELSE "firstName"
  /\ Scanned(c)
  /\ UNCHANGED << text, repeated >>

\* The hook that looks for repeated names runs when an object ends.
Close ==
  /\ expect \in {"first", "firstName", "separator"}
  /\ open' = Front(open)
  /\ expect' = AfterValue(open')
  /\ repeated' = IF Unique(Last(open).names) THEN repeated ELSE repeated \cup {"python"}
  /\ Scanned(IF Last(open).kind = "array" THEN "endArray" ELSE "endObject")
  /\ UNCHANGED << text, tooDeep >>

Comma ==
  /\ expect = "separator"
  /\ expect' = IF Last(open).kind = "array" THEN "value" ELSE "name"
  /\ Last(open).kind = "object" => Len(Last(open).names) < MaxNames
  /\ Scanned("comma")
  /\ UNCHANGED << open, text, tooDeep, repeated >>

Colon ==
  /\ expect = "colon"
  /\ expect' = "value"
  /\ repeated' = IF scan.whole \cap Last(scan.keys) = {} THEN repeated
                 ELSE repeated \cup {"typescript"}
  /\ Scanned("colon")
  /\ UNCHANGED << open, text, tooDeep >>

Space ==
  /\ expect \notin {"string", "stringEscape", "nameString", "nameEscape", "refused"}
  /\ Scanned("space")
  /\ UNCHANGED << open, expect, text, tooDeep, repeated >>

StringBegins ==
  /\ \/ StartsValue /\ tooDeep' = DeepAt(Quote)
        /\ expect' = IF DeepAt(Quote) = {} THEN "string" ELSE "refused"
     \/ expect \in {"name", "firstName"} /\ expect' = "nameString" /\ UNCHANGED tooDeep
  /\ Scanned(Quote)
  /\ UNCHANGED << open, text, repeated >>

Letter(c) ==
  /\ expect \in {"string", "nameString"} /\ Len(text) < MaxLetters
  /\ text' = Append(text, c)
  /\ Scanned(c)
  /\ UNCHANGED << open, expect, tooDeep, repeated >>

EscapeBegins ==
  /\ expect \in {"string", "nameString"} /\ Len(text) < MaxLetters
  /\ expect' = IF expect = "string" THEN "stringEscape" ELSE "nameEscape"
  /\ Scanned(Backslash)
  /\ UNCHANGED << open, text, tooDeep, repeated >>

EscapeEnds(c) ==
  /\ expect \in {"stringEscape", "nameEscape"}
  /\ expect' = IF expect = "stringEscape" THEN "string" ELSE "nameString"
  /\ text' = Append(text, Unescaped(c))
  /\ Scanned(c)
  /\ UNCHANGED << open, tooDeep, repeated >>

\* parseObject of the browser looks for the name as soon as it is read.
StringEnds ==
  /\ \/ expect = "string" /\ expect' = AfterValue(open) /\ UNCHANGED << open, repeated >>
     \/ /\ expect = "nameString" /\ expect' = "colon"
        /\ open' = [open EXCEPT ![Len(open)].names = Append(@, text)]
        /\ repeated' = IF text \in Range(Last(open).names) THEN repeated \cup {"browser"}
                       ELSE repeated
  /\ text' = << >>
  /\ Scanned(Quote)
  /\ UNCHANGED tooDeep

Next ==
  \/ Scalar \/ Close \/ Comma \/ Colon \/ Space
  \/ StringBegins \/ EscapeBegins \/ StringEnds
  \/ \E c \in {"array", "object"} : Open(c)
  \/ \E c \in Letters : Letter(c)
  \/ \E c \in Escapes : EscapeEnds(c)

Spec == Init /\ [][Next]_vars

-----------------------------------------------------------------------------
\* One type invariant of the parser, the scanners and what they found.
TypeOK ==
  /\ \A i \in DOMAIN open : open[i].kind \in {"array", "object"} /\ Len(open[i].names) <= MaxNames
  /\ Len(open) <= MaxDepth + 1 /\ Len(text) <= MaxLetters
  /\ expect \in {"value", "first", "name", "firstName", "colon", "separator", "string",
                 "nameString", "stringEscape", "nameEscape", "end", "refused"}
  /\ raw.depth \in Nat
  /\ tooDeep \subseteq {"raw", "tree", "browser"} /\ repeated \subseteq Readers

\* The bracket counter, which does not parse, stands at the depth the parser is
\* at, whatever strings and escapes went before, and knows when it is in a string.
CounterFollowsTheParser ==
  /\ raw.depth = Len(open)
  /\ expect # "refused" =>
       (raw.inString <=> expect \in {"string", "nameString", "stringEscape", "nameEscape"})
  /\ raw.escaped <=> expect \in {"stringEscape", "nameEscape"}

\* The objects among the first n containers.
Objects(containers, n) == {i \in 1 .. n : containers[i].kind = "object"}

\* The scan for names keeps, for every open object, exactly the decoded names of
\* that object, escapes resolved, and no string that is a value.
NamesFollowTheParser ==
  LET level(i) == Cardinality(Objects(open, i))
      written(i) == IF expect = "colon" /\ i = Len(open) THEN Front(open[i].names) ELSE open[i].names
  IN expect # "refused" =>
       /\ Len(scan.keys) = level(Len(open))
       /\ \A i \in Objects(open, Len(open)) : scan.keys[level(i)] = Range(written(i))

\* A repeated name is found by all three readers or by none, at whatever depth it
\* is and however it is spelled.
RepeatsAreFoundAlike == expect = "end" => repeated \in {{}, Readers}

\* The limit on depth is one limit: the bracket counter and the tree check of the
\* verifiers refuse together what the browser refuses on the way down.
DepthIsLimitedAlike == tooDeep \cap {"raw", "tree"} # {} <=> "browser" \in tooDeep
=============================================================================
