--------------------------- MODULE MCGetDocument ---------------------------
(***************************************************************************)
(* GetDocument with a document of three bytes, PUT requests that write one *)
(* or four, and every list of one or two ranges with positions up to 3.    *)
(***************************************************************************)
EXTENDS GetDocument, TLC

CONSTANTS w1, w2

MCSize == [b \in Bodies |-> IF b = Initial THEN 3 ELSE IF b = w1 THEN 1 ELSE 4]

Items == [from : {Open} \cup 0 .. 3, to : {Open} \cup 0 .. 3]
Item(from, to) == [from |-> from, to |-> to]

\* The whole document; a suffix; two ranges of it; one that lies within the
\* longest body only.
MCRangeLists ==
  { <<>>, <<Item(Open, 2)>>, <<Item(2, 2), Item(0, 0)>>, <<Item(0, 3)>> }

\* Besides, three ranges of which two overlap, touch or contain each other.
MCLoneRangeLists ==
  ( {<<i>> : i \in Items} \cup {<<i, j>> : i, j \in Items}
    \cup {<<Item(a, b), Item(c, d), Item(2, 2)>> : a, b, c, d \in 0 .. 2} )
  \ MCRangeLists
=============================================================================
