--------------------------------- MODULE Lists ---------------------------------
(* A list filtered by a loop, as the code filters member lists and MySQL rows.  *)
EXTENDS Integers, Sequences

\* The elements of s that are in S, in their order: kept[n] is what the loop has kept
\* of the first n.
Select(s, S) ==
    LET kept[n \in 0..Len(s)] ==
          IF n = 0 THEN <<>>
          ELSE IF s[n] \in S THEN Append(kept[n - 1], s[n]) ELSE kept[n - 1]
    IN kept[Len(s)]

===============================================================================
