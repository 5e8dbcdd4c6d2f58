---------------------------- MODULE KeyEntries ----------------------------
(***************************************************************************)
(* The published key document of load_keys_from_json (verifier.py): its    *)
(* entries, the checks of one entry, and the keys a document loads.        *)
(*                                                                         *)
(* A document is [shape_ok, workspace_id, keys]; an entry is               *)
(*   [key_id, defects, public_key, active_from, active_until, fingerprint] *)
(* where public_key is a base64url text [bytes, pad]: the bytes it decodes *)
(* to and the value of the unused bits of its last character, which is 0   *)
(* in the one canonical text of those bytes.                               *)
(***************************************************************************)
EXTENDS ReceiptRules

NoFingerprint == "no_fingerprint"   \* the optional field is absent

\* What is looked at before the duplicate checks, and after them.
EntryOrder == << "entry_not_object", "entry_field_type", "entry_alg", "active_until_type" >>

\* Mutant: any text that decodes is taken.
DecodesAnyhow(text) == TRUE

\* _b64url_decode: decode, encode again and compare.
DecodesCanonically(text) == text.pad = 0

\* Mutant: the published fingerprint is not compared with the key.
CheckEntryTextUnprinted(e) ==
  Require("alphabet" \notin e.defects, "public_key_not_base64url")
  ++ Require(DecodesCanonically(e.public_key), "public_key_not_canonical")
  ++ Require("length" \notin e.defects, "public_key_length")
  ++ Require(e.active_from # Unparseable, "active_from")
  ++ Require(Unparseable \notin e.active_until, "active_until")

CheckEntryText(e) ==
  Require("alphabet" \notin e.defects, "public_key_not_base64url")
  ++ Require(DecodesCanonically(e.public_key), "public_key_not_canonical")
  ++ Require("length" \notin e.defects, "public_key_length")
  ++ Require(e.active_from # Unparseable, "active_from")
  ++ Require(Unparseable \notin e.active_until, "active_until")
  ++ Require(e.fingerprint \in {NoFingerprint, e.public_key.bytes},
             "fingerprint_mismatch")

CheckEntry(e, ids, pubs) ==
  FirstDefect(EntryOrder, e.defects)
  ++ Require(e.key_id \notin ids, "duplicate_key_id")
  ++ Require(e.public_key \notin pubs, "duplicate_public_key")
  ++ CheckEntryText(e)

EntryRejections ==
  {EntryOrder[i] : i \in DOMAIN EntryOrder} \union
  { "duplicate_key_id", "duplicate_public_key", "public_key_not_base64url",
    "public_key_not_canonical", "public_key_length", "active_from",
    "active_until", "fingerprint_mismatch" }

\* The PublicKey an accepted entry becomes.
LoadedKey(e) ==
  [ key_id |-> e.key_id, defects |-> {}, bytes |-> e.public_key.bytes,
    active_from |-> e.active_from, active_until |-> e.active_until ]

-----------------------------------------------------------------------------
(* The document's rules without the loop (receipt-format.md 6 and 10.1).   *)

EntryIsWellFormed(e) ==
  /\ e.defects = {}
  /\ e.public_key.pad = 0
  /\ e.active_from # Unparseable
  /\ Unparseable \notin e.active_until
  /\ e.fingerprint \in {NoFingerprint, e.public_key.bytes}

DocumentIsValid(doc) ==
  /\ doc.shape_ok
  /\ \A i \in DOMAIN doc.keys : EntryIsWellFormed(doc.keys[i])
  /\ \A i, j \in DOMAIN doc.keys :
       i # j => /\ doc.keys[i].key_id # doc.keys[j].key_id
                /\ doc.keys[i].public_key.bytes # doc.keys[j].public_key.bytes

LoadedKeys(doc) == [i \in DOMAIN doc.keys |-> LoadedKey(doc.keys[i])]

-----------------------------------------------------------------------------
EntryDefects == {EntryOrder[i] : i \in DOMAIN EntryOrder} \union {"alphabet", "length"}

Texts == [bytes : STRING, pad : Nat]

Entries ==
  [ key_id : STRING, defects : SUBSET EntryDefects,
    public_key : Texts,
    active_from : Int, active_until : SUBSET Int, fingerprint : STRING ]

KeyType ==
  [ key_id : STRING, defects : SUBSET STRING, bytes : STRING,
    active_from : Int, active_until : SUBSET Int ]

DocumentType == [shape_ok : BOOLEAN, workspace_id : STRING, keys : Seq(Entries)]
=============================================================================
