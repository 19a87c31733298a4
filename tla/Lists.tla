-------------------------------- MODULE Lists -------------------------------
(* A list comprehension with a condition, which every service of the       *)
(* repository that filters uses.                                           *)
EXTENDS Sequences, SequencesExt

\* [x for x in list if x in kept], duplicates and order included.
Keep(list, kept) ==
  FoldLeft(LAMBDA done, x : IF x \in kept THEN Append(done, x) ELSE done, <<>>, list)
=============================================================================
