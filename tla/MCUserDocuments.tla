-------------------------- MODULE MCUserDocuments --------------------------
(***************************************************************************)
(* Instances of UserDocuments for TLC.                                     *)
(***************************************************************************)
EXTENDS UserDocuments, TLC

Alike == Permutations(Request) \cup Permutations(Pod) \cup Permutations(Word)
            \cup Permutations(Spelling)

(* A field of the form left empty, with one entry, and with a word in two spellings. *)
Twice == {list \in Value \X Value : list[1] # list[2] /\ Folded(list[1]) = Folded(list[2])}
MCFormList == {<<>>} \cup {<<v>> : v \in Value} \cup Twice
=============================================================================
