------------------------------ MODULE Filters ------------------------------
(* What the code does with `filter`: some elements of a sequence, in their    *)
(* order. A recursive function, because SelectSeq is closed to the provers.   *)
EXTENDS Naturals, Sequences

Only(s, those) ==
  LET upTo[n \in 0..Len(s)] ==
        IF n = 0 THEN <<>>
        ELSE IF s[n] \in those THEN Append(upTo[n - 1], s[n]) ELSE upTo[n - 1]
  IN upTo[Len(s)]
=============================================================================
