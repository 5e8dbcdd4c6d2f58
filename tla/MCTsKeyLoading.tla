--------------------------- MODULE MCTsKeyLoading ---------------------------
(* Documents of up to two entries over three ids, three keys and two texts per *)
(* key, with every way an entry can be malformed and with right and wrong      *)
(* fingerprints; and documents of three entries where the third tells whether  *)
(* the loop, or the promises, went on after the second.                        *)
EXTENDS TsKeyLoading

CONSTANTS MCIds, MCBytes

MCEntry(id, bytes, pad, defects, from, until, fp) ==
  [ key_id |-> id, defects |-> defects, public_key |-> [bytes |-> bytes, pad |-> pad],
    active_from |-> from, active_until |-> until, fingerprint |-> fp ]

MCWellShaped ==
  {MCEntry(id, b, pad, {}, 0, {}, NoFingerprint) : id \in MCIds, b \in MCBytes, pad \in {0, 1}}

MCPrinted ==
  {MCEntry(id, b, 0, {}, 0, {}, fp) : id \in {"k1", "k2"}, b \in {"p1", "p2"}, fp \in {"p1", "p2"}}

\* One entry with each remaining field varied, one field at a time.
MCVariants ==
  {MCEntry("k1", "p1", 0, {d}, 0, {}, NoFingerprint) : d \in EntryDefects}
  \union {MCEntry("k1", "p1", 0, {}, Unparseable, {}, NoFingerprint),
          MCEntry("k1", "p1", 0, {}, 0, {Unparseable}, NoFingerprint),
          MCEntry("k1", "p1", 0, {}, 0, {2}, NoFingerprint),
          MCEntry("k1", "p1", 0, {"entry_alg"}, 0, {}, "p1"),
          MCEntry("k2", "p1", 0, {}, Unparseable, {}, "p1")}

MCEntries == MCWellShaped \union MCPrinted \union MCVariants

\* Of three entries: right and wrong fingerprints, duplicates, a second text.
MCThree ==
  {MCEntry("k1", "p1", 0, {}, 0, {}, "p1"), MCEntry("k2", "p2", 0, {}, 0, {}, "p1"),
   MCEntry("k2", "p2", 0, {}, 0, {}, "p2"), MCEntry("k3", "p3", 0, {}, 0, {}, "p3"),
   MCEntry("k3", "p3", 0, {"entry_alg"}, 0, {}, "p3"), MCEntry("k3", "p1", 1, {}, 0, {}, NoFingerprint),
   MCEntry("k1", "p3", 0, {}, 0, {}, NoFingerprint)}

MCReplacements == {MCEntry("k3", "p3", 0, {}, 0, {}, "p3"), MCEntry("k1", "p2", 0, {"length"}, 0, {}, "p1")}

MCAllDocuments ==
  [ shape_ok : {TRUE}, workspace_id : {"w1"},
    keys : UNION {[1 .. n -> MCEntries] : n \in 0 .. 2} \union [1 .. 3 -> MCThree] ]
  \union [shape_ok : {FALSE}, workspace_id : {"w1"}, keys : [1 .. 1 -> MCEntries]]

MCDocuments == MCAllDocuments
=============================================================================
