---------------------------- MODULE IndexManager ----------------------------
(***************************************************************************)
(* storage/index_manager.py: the forward indexes of one collection as      *)
(* values.  A SortedDict {key: [doc_id, ...]} is the set of its postings   *)
(* <<key, id>>: no key has an empty list and no list has an id twice.      *)
(*                                                                         *)
(* A document is taken to be the same before it is written and after it    *)
(* was read back, as the Validator's model_dump(mode="json") makes it: a   *)
(* raw datetime would have one key when it is inserted and another one     *)
(* when it is read (utils/serialization.py).                               *)
(***************************************************************************)
EXTENDS DocumentLog

CONSTANTS
  NIdx,     \* how many index specs the collection has
  Keys,     \* the encoded keys
  KeyOf     \* KeyOf[k][doc]: the key of doc in index k (_make_key, _encode_key)

Specs == 1 .. NIdx

ASSUME NIdxAssumption == NIdx \in Nat \ {0}
ASSUME KeyOfAssumption == KeyOf \in [Specs -> [Docs -> Keys]]

Postings == SUBSET (Keys \X Ids)

NoPostings == [k \in Specs |-> {}]

AddToIndexes(ix, id, doc) ==
  [k \in Specs |-> ix[k] \cup {<<KeyOf[k][doc], id>>}]

RemoveFromIndexes(ix, id, doc) ==
  [k \in Specs |-> ix[k] \ {<<KeyOf[k][doc], id>>}]

OnInsert(ix, id, doc) == AddToIndexes(ix, id, doc)

\* Mutant of OnUpdate: the keys of the old document stay.
OnUpdateAdds(ix, id, old, doc) == AddToIndexes(ix, id, doc)

\* old = NoDoc: the previous document is not known
OnUpdate(ix, id, old, doc) ==
  AddToIndexes(IF old = NoDoc THEN ix ELSE RemoveFromIndexes(ix, id, old), id, doc)

\* Mutant of OnDelete: the keys of the deleted document stay.
OnDeleteForgets(ix, id, old) == ix

OnDelete(ix, id, old) ==
  IF old = NoDoc THEN ix ELSE RemoveFromIndexes(ix, id, old)

\* Mutant of Rebuild: the postings the wrong way round.
RebuildReversed(documents) ==
  [k \in Specs |-> {<<documents[i].id, KeyOf[k][documents[i].doc]>> :
                      i \in DOMAIN documents}]

\* rebuild(documents), documents a list as scan() yields it
Rebuild(documents) ==
  [k \in Specs |-> {<<KeyOf[k][documents[i].doc], documents[i].id>> :
                      i \in DOMAIN documents}]

\* The keys under which lookup() finds id in one index ...
KeysFor(postings, id) == {key \in Keys : <<key, id>> \in postings}

\* ... and those under which the full scan finds it that the engine's lookup()
\* makes where there is no index.
ProperKeys(k, doc) == IF doc = NoDoc THEN {} ELSE {KeyOf[k][doc]}
=============================================================================
