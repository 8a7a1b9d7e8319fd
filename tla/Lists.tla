------------------------------- MODULE Lists -------------------------------
(* Choosing from lists. *)
EXTENDS Nil, Naturals, SequencesExt

\* The first entry of a list that is in a set, None if there is none.
FirstIn(list, set) ==
  LET i == SelectInSeq(list, LAMBDA x : x \in set)
  IN  IF i = 0 THEN None ELSE list[i]

\* The entries of a list that are in a set, in their order.
Among(list, set) ==
  LET kept[n \in 0 .. Len(list)] ==
        IF n = 0 THEN <<>>
        ELSE IF list[n] \in set THEN Append(kept[n - 1], list[n])
        ELSE kept[n - 1]
  IN  kept[Len(list)]
============================================================================
