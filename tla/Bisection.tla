------------------------------- MODULE Bisection -------------------------------
(***************************************************************************)
(* std::lower_bound, by which both processes find a pin by its number and  *)
(* a frame buffer by its key: the bisection of a range that is taken to be *)
(* sorted.                                                                 *)
(***************************************************************************)
EXTENDS Integers, Sequences

\* from[len][first]: where the search of len elements after the first ones ends.
\* The result is an index of keys, or the one after its end.
LowerBound(keys, key) ==
    LET from[len \in 0..Len(keys)] ==
          [first \in 0..(Len(keys) - len) |->
              IF len = 0 THEN first
              ELSE LET half == len \div 2 IN
                   IF keys[first + half + 1] < key THEN from[len - half - 1][first + half + 1]
                   ELSE from[half][first]]
    IN from[Len(keys)][0] + 1
===============================================================================
