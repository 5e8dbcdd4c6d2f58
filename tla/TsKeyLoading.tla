---------------------------- MODULE TsKeyLoading ----------------------------
(***************************************************************************)
(* Both languages load one document: load_keys_from_json of verifier.py,   *)
(* which is KeyDocument, and then loadKeysFromJson of verifier.ts, or what *)
(* build-browser.py makes of it: an asynchronous function per entry, over  *)
(* the two shared sets, under Promise.all.  One step starts one entry, and *)
(* all of them run up to their await before anything else does; the        *)
(* digests then complete in any order, while the caller may change the     *)
(* document.  The checks of an entry are those of KeyEntries.              *)
(***************************************************************************)
EXTENDS KeyDocument

CONSTANTS
  Builds,      \* of "node" and "browser"
  Replacements, \* what the caller may put in the place of an entry
  MaxEdits     \* bound: changes of the document while the digests run

ASSUME BuildsAssumption == Builds \subseteq {"node", "browser"}

VARIABLES
  build,
  live,       \* the caller's document; the one of the call is document
  stage,      \* mapping, and awaiting once map has returned
  turn,       \* the next entry that map calls its function for
  ids, pubs,  \* seenIds and seenPubs
  entries,    \* what became of each entry's promise
  answer,     \* Running until the result is settled
  loaded,     \* the keys it is settled with
  edits

tsVars == << build, live, stage, turn, ids, pubs, entries, answer, loaded, edits >>
loadingVars == << vars, tsVars >>

Pending == "pending"

\* An entry is [state, key, printed]: Pending, Accepted or a rejection; the key, and
\* the published fingerprint that was read before the digest was awaited.
NotReached == [state |-> Running, key |-> << >>, printed |-> NoFingerprint]

-----------------------------------------------------------------------------
LoadingInit ==
  /\ Init
  /\ build \in Builds
  /\ live = document
  /\ stage = "mapping" /\ turn = 1 /\ ids = {} /\ pubs = {}
  /\ entries = [i \in DOMAIN live.keys |-> NotReached]
  /\ answer = Running /\ loaded = << >> /\ edits = 0

\* load_keys_from_json, which nothing interrupts.
Python == Next /\ UNCHANGED tsVars

Mapping == stage = "mapping" /\ verdict # Running /\ answer = Running

\* The test before the loop.
RefuseDocument ==
  /\ Mapping /\ ~live.shape_ok
  /\ answer' = "document_shape"
  /\ UNCHANGED << vars, build, live, stage, turn, ids, pubs, entries, loaded, edits >>

\* The entry up to the fingerprint, which compares with itself.
Unprinted(e) == [e EXCEPT !.fingerprint = NoFingerprint]

\* In Node the digest is there at once; in the browser it is awaited.
UpToAwait(e) == CheckEntry(IF build = "node" THEN e ELSE Unprinted(e), ids, pubs)

\* The entry has passed the duplicate tests: its id and text are in the sets, and
\* stay there when the text is then refused.
Enters(e) ==
  FirstDefect(EntryOrder, e.defects) = Accepted /\ e.key_id \notin ids /\ e.public_key \notin pubs

Started(e) ==
  [state   |-> IF UpToAwait(e) = Accepted /\ build = "browser" /\ e.fingerprint # NoFingerprint
               THEN Pending ELSE UpToAwait(e),
   key     |-> IF UpToAwait(e) = Accepted THEN LoadedKey(e) ELSE << >>,
   printed |-> e.fingerprint]

\* A refused entry ends map in Node; in the browser it does not keep the others
\* from running.
StartEntry ==
  /\ Mapping /\ live.shape_ok /\ turn <= Len(live.keys)
  /\ LET e == live.keys[turn]
     IN /\ ids' = IF Enters(e) THEN ids \union {e.key_id} ELSE ids
        /\ pubs' = IF Enters(e) THEN pubs \union {e.public_key} ELSE pubs
        /\ entries' = [entries EXCEPT ![turn] = Started(e)]
        /\ answer' = IF build = "node" /\ UpToAwait(e) # Accepted THEN UpToAwait(e) ELSE answer
  /\ turn' = turn + 1
  /\ UNCHANGED << vars, build, live, stage, loaded, edits >>

Rejected(after) == {i \in DOMAIN after : after[i].state \notin {Accepted, Pending, Running}}
Earliest(s) == CHOOSE i \in s : \A j \in s : i <= j

\* Mutant: the last rejection is the result.
SettleLast(after) ==
  /\ answer' =
       IF Rejected(after) # {}
       THEN after[CHOOSE i \in Rejected(after) : \A j \in Rejected(after) : j <= i].state
       ELSE IF \A i \in DOMAIN after : after[i].state = Accepted THEN Accepted ELSE Running
  /\ loaded' = IF answer' = Accepted THEN [i \in DOMAIN after |-> after[i].key] ELSE << >>

\* Promise.all: rejected with the first rejection, fulfilled with all values.
Settle(after) ==
  /\ answer' =
       IF Rejected(after) # {} THEN after[Earliest(Rejected(after))].state
       ELSE IF \A i \in DOMAIN after : after[i].state = Accepted THEN Accepted ELSE Running
  /\ loaded' = IF answer' = Accepted THEN [i \in DOMAIN after |-> after[i].key] ELSE << >>

MapReturns ==
  /\ Mapping /\ live.shape_ok /\ turn > Len(live.keys)
  /\ stage' = "awaiting"
  /\ Settle(entries)
  /\ UNCHANGED << vars, build, live, turn, ids, pubs, entries, edits >>

Awaited(i) == stage = "awaiting" /\ i \in DOMAIN entries /\ entries[i].state = Pending

\* Mutant: key and fingerprint are read again after the await.
DigestOfNow(i) ==
  /\ Awaited(i) /\ i \in DOMAIN live.keys
  /\ entries' = [entries EXCEPT ![i] =
                   [state |-> IF live.keys[i].fingerprint \in {NoFingerprint, live.keys[i].public_key.bytes}
                              THEN Accepted ELSE "fingerprint_mismatch",
                    key |-> LoadedKey(live.keys[i]), printed |-> entries[i].printed]]
  /\ IF answer = Running THEN Settle(entries') ELSE UNCHANGED << answer, loaded >>
  /\ UNCHANGED << vars, build, live, stage, turn, ids, pubs, edits >>

\* Mutant: only the digest of the first entry is waited for.
DigestFirst(i) ==
  /\ i = 1 /\ Awaited(i)
  /\ entries' = [entries EXCEPT ![i].state =
                   IF entries[i].printed = entries[i].key.bytes THEN Accepted ELSE "fingerprint_mismatch"]
  /\ IF answer = Running THEN Settle(entries') ELSE UNCHANGED << answer, loaded >>
  /\ UNCHANGED << vars, build, live, stage, turn, ids, pubs, edits >>

\* A digest completes; what was read before the await is compared.
Digest(i) ==
  /\ Awaited(i)
  /\ entries' = [entries EXCEPT ![i].state =
                   IF entries[i].printed = entries[i].key.bytes THEN Accepted ELSE "fingerprint_mismatch"]
  /\ IF answer = Running THEN Settle(entries') ELSE UNCHANGED << answer, loaded >>
  /\ UNCHANGED << vars, build, live, stage, turn, ids, pubs, edits >>

\* The caller replaces an entry of its document while the digests run.
Edit ==
  /\ edits < MaxEdits /\ answer = Running
  /\ \E i \in DOMAIN entries : Awaited(i)
  /\ \E i \in DOMAIN live.keys, e \in Replacements : live' = [live EXCEPT !.keys[i] = e]
  /\ edits' = edits + 1
  /\ UNCHANGED << vars, build, stage, turn, ids, pubs, entries, answer, loaded >>

TypeScript ==
  \/ RefuseDocument \/ StartEntry \/ MapReturns
  \/ \E i \in DOMAIN entries : Digest(i)

LoadingNext == Python \/ TypeScript \/ Edit

\* Python's loop goes on, and so does the event loop: the call is made, and WebCrypto
\* completes every digest it was given.
LoadingSpec ==
  LoadingInit /\ [][LoadingNext]_loadingVars
  /\ WF_loadingVars(Python) /\ WF_loadingVars(TypeScript)

-----------------------------------------------------------------------------
\* Neither the concurrent entries over two shared sets nor a caller that changes its
\* document changes the result: Node and the browser load exactly the documents that
\* Python loads, which are those that are valid by the rules of the format, and the
\* keys of the document of the call in its order, and a later digest changes nothing.
LoadsTheDocumentOfTheCall ==
  answer # Running =>
    /\ (answer = Accepted) = (verdict = Accepted)
    /\ (answer = Accepted) = DocumentIsValid(document)
    /\ answer = Accepted => loaded = out

\* Node gives the reason that Python gives, and the browser gives it unless it is a
\* fingerprint, which it only learns later than it sees every other defect
\* (CONTRIBUTING.md, "consistent rejection reasons across implementations").
ReasonIsPythons ==
  answer # Running =>
    \/ answer = verdict
    \/ build = "browser" /\ verdict = "fingerprint_mismatch"

\* Every call is answered, also one that is refused while digests are out, and once
\* answered stays so.
Settles == <>[](answer # Running)
=============================================================================
