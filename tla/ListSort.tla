------------------------------ MODULE ListSort ------------------------------
(***************************************************************************)
(* The merge sort of lists in lemon.c.  What the comparison says of two    *)
(* elements is a set: the pairs of which it says that the first is not     *)
(* greater.  set, which is here as long as it need be, has LISTSIZE lists  *)
(* in the code, for half a billion elements.                               *)
(***************************************************************************)
EXTENDS Integers, SequencesExt

RECURSIVE merge(_, _, _)
merge(a, b, cmp) ==
    IF a = <<>> THEN b
    ELSE IF b = <<>> THEN a
    ELSE IF <<Head(a), Head(b)>> \in cmp THEN <<Head(a)>> \o merge(Tail(a), b, cmp)
    ELSE <<Head(b)>> \o merge(a, Tail(b), cmp)

(* One more element: lists of growing length are merged until one is empty *)
Carried(set, ep, cmp) ==
    LET free == {i \in DOMAIN set : set[i] = <<>>} \cup {Len(set) + 1}
        least == CHOOSE i \in free : \A j \in free : i <= j
    IN  [i \in 1..least - 1 |-> <<>>]
            \o <<FoldLeft(LAMBDA merged, list : merge(merged, list, cmp), <<ep>>, SubSeq(set, 1, least - 1))>>
            \o SubSeq(set, least + 1, Len(set))

msort(list, cmp) ==
    FoldLeft(LAMBDA ep, sorted : merge(sorted, ep, cmp), <<>>,
             FoldLeft(LAMBDA set, ep : Carried(set, ep, cmp), <<>>, list))
=============================================================================
