--------------------------- MODULE CanonicalTree ---------------------------
(***************************************************************************)
(* canonicalize of verifier.py and verifier.ts: the walk that bounds depth *)
(* and size before anything recursive runs (_validate_tree, validateTree), *)
(* and the canonical text.  A payload is an object in memory and need not  *)
(* be a tree: objects may be shared, or contain themselves.                *)
(*                                                                         *)
(* A node is [kind, names, kids]: the kind of a scalar, "array" or         *)
(* "object"; the names of an object in the order they were set, and the    *)
(* nodes below.  The root is node 1.  verifier.ts walks twice, before and  *)
(* after structuredClone, which keeps sharing and cycles: the second walk  *)
(* is the first again.                                                     *)
(***************************************************************************)
EXTENDS Naturals, Sequences, FiniteSets, SequencesExt

CONSTANTS
  Graphs,        \* sequences of nodes
  CodePoints,    \* the names: functions from names to sequences of code points
  IndexNames,    \* the names that JavaScript takes for array indices, in order
  MaxDepth,      \* MAX_PAYLOAD_DEPTH
  MaxNodes       \* MAX_PAYLOAD_NODES

VARIABLES
  graph,
  walks    \* of each language: [stack, nodes, verdict]

vars == << graph, walks >>

Languages == {"python", "typescript"}
Running   == "running"
Accepted  == "accepted"

FirstWalks ==
  [l \in Languages |-> [stack |-> << [node |-> 1, depth |-> 1] >>, nodes |-> 0, verdict |-> Running]]

Init == graph \in Graphs /\ walks = FirstWalks

-----------------------------------------------------------------------------
\* The order of places, given those before each: the j-th place has j - 1 before it.
Arranged(before) ==
  [j \in DOMAIN before |-> CHOOSE i \in DOMAIN before : Cardinality(before[i]) = j - 1]

\* When JavaScript comes to the i-th name of an object: index names are first.
Turn(n, i) ==
  IF \E k \in DOMAIN IndexNames : IndexNames[k] = n.names[i]
  THEN CHOOSE k \in DOMAIN IndexNames : IndexNames[k] = n.names[i]
  ELSE Len(IndexNames) + i

\* The values of an object as they are pushed.
Kids(l, n) ==
  IF l = "python" \/ n.kind # "object" THEN n.kids
  ELSE LET turns == Arranged([i \in DOMAIN n.kids |-> {k \in DOMAIN n.kids : Turn(n, k) < Turn(n, i)}])
       IN [j \in DOMAIN n.kids |-> n.kids[turns[j]]]

\* What a node is refused for: Python has 1.0 apart from 1, JavaScript has not.
Defect(l, n) ==
  CASE n.kind = "fraction" -> "number"
    [] n.kind = "integral" /\ l = "python" -> "number"
    [] n.kind = "unsafe" -> "unsafe"
    [] n.kind = "surrogate" -> "surrogate"
    [] OTHER -> Running

\* Mutant: the limit of the depth is exclusive.
LimitShallow(l, depth, count) ==
  IF depth >= MaxDepth THEN "depth" ELSE IF count > MaxNodes THEN "nodes" ELSE Running

Limit(l, depth, count) ==
  IF depth > MaxDepth THEN "depth" ELSE IF count > MaxNodes THEN "nodes" ELSE Running

\* One turn of the loop.
Visit(l) ==
  /\ walks[l].verdict = Running /\ walks[l].stack # << >>
  /\ LET top   == Last(walks[l].stack)
         n     == graph[top.node]
         kids  == Kids(l, n)
         limit == Limit(l, top.depth, walks[l].nodes + 1)
     IN walks' = [walks EXCEPT ![l] =
                    [nodes   |-> @.nodes + 1,
                     verdict |-> IF limit # Running THEN limit ELSE Defect(l, n),
                     stack   |-> Front(@.stack) \o [i \in DOMAIN kids |-> [node |-> kids[i], depth |-> top.depth + 1]]]]
  /\ UNCHANGED graph

Finish(l) ==
  /\ walks[l].verdict = Running /\ walks[l].stack = << >>
  /\ walks' = [walks EXCEPT ![l].verdict = Accepted]
  /\ UNCHANGED graph

\* The two languages walk on their own; their order does not matter.
Next == 
  \/ Visit("python") \/ Finish("python")
  \/ walks["python"].verdict # Running /\ (Visit("typescript") \/ Finish("typescript"))

Spec == Init /\ [][Next]_vars

-----------------------------------------------------------------------------
(* The text. *)

\* Unicode's code points, in 17 planes, but for the surrogates.
IsScalarValue(c) == c \in Nat /\ c \div 65536 <= 16 /\ c \notin 55296 .. 57343

Units(c) == IF c < 65536 THEN << c >> ELSE << 55296 + (c - 65536) \div 1024, 56320 + ((c - 65536) % 1024) >>
CodeUnits(name)  == FlattenSeq([i \in DOMAIN CodePoints[name] |-> Units(CodePoints[name][i])])
UnitBytes(name)  == FlattenSeq([i \in DOMAIN CodeUnits(name) |->
                                  << CodeUnits(name)[i] \div 256, CodeUnits(name)[i] % 256 >>])

LexicallyBefore(s, t) ==
  \/ IsStrictPrefix(s, t)
  \/ \E i \in DOMAIN s \cap DOMAIN t : s[i] < t[i] /\ \A j \in 1 .. i - 1 : s[j] = t[j]

\* Mutant: Python compares strings, which is by code point.
BeforeByPoints(l, a, b) ==
  IF l = "python" THEN LexicallyBefore(CodePoints[a], CodePoints[b])
  ELSE LexicallyBefore(CodeUnits(a), CodeUnits(b))

\* _utf16_sort_key compares the bytes of UTF-16; JavaScript compares its code units.
Before(l, a, b) ==
  IF l = "python" THEN LexicallyBefore(UnitBytes(a), UnitBytes(b))
  ELSE LexicallyBefore(CodeUnits(a), CodeUnits(b))

\* The members of an object as they are written.
Sorted(l, n) ==
  Arranged([i \in DOMAIN n.names |-> {k \in DOMAIN n.names : Before(l, n.names[k], n.names[i])}])

\* The tokens that are neither a name nor a scalar, as RFC 8259 calls them.
Structural ==
  {"begin_array", "end_array", "begin_object", "end_object", "name_separator", "value_separator"}

Listed(open, texts, close) ==
  << open >>
    \o FlattenSeq([i \in DOMAIN texts |->
                     IF i = 1 THEN texts[i] ELSE << "value_separator" >> \o texts[i]])
    \o << close >>

\* As a value, 1.0 is 1.
ValueKind(n) == IF n.kind = "integral" THEN "integer" ELSE n.kind

\* The canonical text of a node, in tokens, given that of the nodes below.
NodeText(l, n, below) ==
  LET sorted == Sorted(l, n)
  IN CASE n.kind = "array" ->
            Listed("begin_array", [i \in DOMAIN n.kids |-> below[n.kids[i]]], "end_array")
       [] n.kind = "object" ->
            Listed("begin_object",
                   [j \in DOMAIN sorted |->
                      << n.names[sorted[j]], "name_separator" >> \o below[n.kids[sorted[j]]]],
                   "end_object")
       [] OTHER -> << ValueKind(n) >>

\* The text down to a depth.
Text(l, node) ==
  LET text[d \in 0 .. MaxDepth] ==
        IF d = 0 THEN [m \in DOMAIN graph |-> << >>]
        ELSE [m \in DOMAIN graph |-> NodeText(l, graph[m], text[d - 1])]
  IN text[MaxDepth][node]

-----------------------------------------------------------------------------
(* What a payload is, without the walk. *)

\* The nodes of the unfolding of a node, by depth.
Levels(node) ==
  LET level[d \in 1 .. MaxDepth + 1] ==
        IF d = 1 THEN << node >> ELSE FlattenSeq([i \in DOMAIN level[d - 1] |-> graph[level[d - 1][i]].kids])
  IN level

IsSmallTree(node) ==
  LET levels == Levels(node)
  IN levels[MaxDepth + 1] = << >> /\ Len(FlattenSeq(levels)) <= MaxNodes

Sound(l, node) ==
  LET nodes == FlattenSeq(Levels(node)) IN \A i \in DOMAIN nodes : Defect(l, graph[nodes[i]]) = Running

\* Nodes are alike if what is below them is: members in any order.
SameNode(m, n, below) ==
  /\ ValueKind(m) = ValueKind(n) /\ Len(m.kids) = Len(n.kids)
  /\ IF m.kind = "object"
     THEN \A i \in DOMAIN m.names : \E j \in DOMAIN n.names :
            m.names[i] = n.names[j] /\ << m.kids[i], n.kids[j] >> \in below
     ELSE \A i \in DOMAIN m.kids : << m.kids[i], n.kids[i] >> \in below

\* Equality of JSON values.
SameValue(a, b) ==
  LET pairs == (DOMAIN graph) \X (DOMAIN graph)
      same[d \in 0 .. MaxDepth] ==
        IF d = 0 THEN pairs ELSE {p \in pairs : SameNode(graph[p[1]], graph[p[2]], same[d - 1])}
  IN << a, b >> \in same[MaxDepth]

Ended(l) == walks[l].verdict # Running

\* The verdicts, and the work: a payload of any shape, also one that contains itself, is
\* refused after one visit more than the limit at the latest.
WorkIsBounded ==
  \A l \in Languages :
    /\ walks[l].verdict \in {Running, Accepted, "depth", "nodes", "number", "unsafe", "surrogate"}
    /\ walks[l].nodes <= MaxNodes + 1
    /\ \A i \in DOMAIN walks[l].stack : walks[l].stack[i].depth <= MaxDepth + 2

\* The walk accepts exactly what is a tree of at most MAX_PAYLOAD_DEPTH levels and
\* MAX_PAYLOAD_NODES nodes, a shared object counted wherever it occurs, without a
\* value the format excludes: both limits are inclusive.
AcceptsExactlySmallTrees ==
  \A l \in Languages : Ended(l) => (walks[l].verdict = Accepted) = (IsSmallTree(1) /\ Sound(l, 1))

\* The languages accept the same payloads, but for a number that only Python can tell
\* from an integer (spec/receipt-format.md 4.2, rules 1 and 6).
SameTrees ==
  (\A l \in Languages : Ended(l)) =>
    \/ (walks["python"].verdict = Accepted) = (walks["typescript"].verdict = Accepted)
    \/ walks["python"].verdict = "number" /\ \E m \in DOMAIN graph : graph[m].kind = "integral"

\* They also give the same reason, unless JavaScript has moved an index name.
SameReason ==
  (\A l \in Languages : Ended(l)) =>
    \/ walks["python"].verdict = walks["typescript"].verdict
    \/ \E m \in DOMAIN graph :
         \/ graph[m].kind = "integral"
         \/ \E i \in DOMAIN graph[m].names, k \in DOMAIN IndexNames : i > 1 /\ graph[m].names[i] = IndexNames[k]

\* Two payloads have one canonical text exactly when they are the same value, whichever
\* language wrote the text: a signature of one never verifies for the other, and the
\* order in which members were set does not matter.
TextIsOfTheValue ==
  (\A l \in Languages : walks[l].verdict = Accepted) =>
    \A node \in DOMAIN graph :
      IsSmallTree(node) /\ (\A l \in Languages : Sound(l, node)) =>
        (Text("python", 1) = Text("typescript", node)) = SameValue(1, node)
=============================================================================
