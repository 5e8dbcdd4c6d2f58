---------------------------- MODULE KeyDocument ----------------------------
(***************************************************************************)
(* load_keys_from_json of verifier.py: one pass over the published keys,   *)
(* with the set of key ids and the set of public_key strings seen so far.  *)
(***************************************************************************)
EXTENDS KeyEntries

CONSTANT Documents   \* the documents that may be loaded

ASSUME DocumentsAssumption == Documents \subseteq DocumentType

Running == "running"

VARIABLES
  document,   \* the argument
  position,   \* the next entry of the loop
  out,        \* the keys loaded so far
  seen_ids,
  seen_pubs,
  verdict     \* Running, Accepted, or the rejection raised

vars == << document, position, out, seen_ids, seen_pubs, verdict >>

Init ==
  /\ document \in Documents
  /\ position = 1
  /\ out = << >>
  /\ seen_ids = {}
  /\ seen_pubs = {}
  /\ verdict = Running

\* The test before the loop.
RejectDocument ==
  /\ verdict = Running
  /\ ~document.shape_ok
  /\ verdict' = "document_shape"
  /\ UNCHANGED << document, position, out, seen_ids, seen_pubs >>

EntryVerdict == CheckEntry(document.keys[position], seen_ids, seen_pubs)

InLoop ==
  /\ verdict = Running
  /\ document.shape_ok
  /\ position <= Len(document.keys)

LoadEntry ==
  /\ InLoop
  /\ EntryVerdict = Accepted
  /\ LET e == document.keys[position]
     IN /\ seen_ids' = seen_ids \union {e.key_id}
        /\ seen_pubs' = seen_pubs \union {e.public_key}
        /\ out' = Append(out, LoadedKey(e))
  /\ position' = position + 1
  /\ UNCHANGED << document, verdict >>

\* Mutant: the entry after the rejected one is passed over.
RejectEntryGoesOn ==
  /\ InLoop
  /\ EntryVerdict # Accepted
  /\ verdict' = EntryVerdict
  /\ position' = position + 2
  /\ UNCHANGED << document, out, seen_ids, seen_pubs >>

\* The exception leaves the function, and with it the locals.
RejectEntry ==
  /\ InLoop
  /\ EntryVerdict # Accepted
  /\ verdict' = EntryVerdict
  /\ UNCHANGED << document, position, out, seen_ids, seen_pubs >>

Return ==
  /\ verdict = Running
  /\ document.shape_ok
  /\ position > Len(document.keys)
  /\ verdict' = Accepted
  /\ UNCHANGED << document, position, out, seen_ids, seen_pubs >>

Next == RejectDocument \/ LoadEntry \/ RejectEntry \/ Return

Spec == Init /\ [][Next]_vars

-----------------------------------------------------------------------------
TypeOK ==
  /\ document \in Documents
  /\ position \in 1 .. Len(document.keys) + 1
  /\ out \in Seq(KeyType)
  /\ seen_ids \subseteq STRING
  /\ seen_pubs \subseteq Texts
  /\ verdict \in {Running, Accepted, "document_shape"} \union EntryRejections

\* A loaded document names every key id once and every public key once, so
\* that a kid selects one entry and no key has two windows.  The loop only
\* compares texts: it is the canonical decoding that makes this true of the
\* keys themselves (load_keys_from_json, "so key lookup is unambiguous and
\* one public key cannot carry conflicting active windows").
KeysAreUnambiguous ==
  verdict = Accepted =>
    \A i, j \in DOMAIN out :
      i # j => out[i].key_id # out[j].key_id /\ out[i].bytes # out[j].bytes

\* The pass accepts exactly the valid documents, whatever the order of their
\* entries, and returns every entry in document order (load_keys_from_json).
LoadsExactlyValidDocuments ==
  verdict # Running =>
    /\ (verdict = Accepted) = DocumentIsValid(document)
    /\ verdict = Accepted => out = LoadedKeys(document)
=============================================================================
