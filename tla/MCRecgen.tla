------------------------------ MODULE MCRecgen ------------------------------
(* Small outputs of valgen, and requests, for Predictions. *)
EXTENDS Predictions

L(a, b, s, o) == [x |-> a, y |-> b, slope |-> s, offset |-> o]
R(u, e, r)    == [userId |-> u, eltid |-> e, rating |-> r]

(* Five elements; slope 1 is the most frequent and all buckets are filled. *)
FullFile ==
    [num_elts |-> 5, num_people |-> 3,
     lines |-> <<L(1,2,10,0), L(1,3,12,0), L(1,4,10,-3), L(2,3,9,0), L(2,4,10,5), L(3,4,7,2)>>,
     big_rat |-> <<R(1,1,10), R(1,2,20), R(1,5,3), R(2,2,30), R(2,3,8), R(2,4,1), R(3,1,32), R(3,3,16)>>]

(* Ids without lines as x, as y and as both. *)
GapFile ==
    [num_elts |-> 5, num_people |-> 2,
     lines |-> <<L(1,3,10,0), L(1,4,10,4), L(3,4,6,4)>>,
     big_rat |-> <<R(1,1,5), R(1,3,20), R(2,2,9), R(2,4,31), R(2,5,1)>>]

(* A single line, without the special values. *)
OneLine ==
    [num_elts |-> 4, num_people |-> 1, lines |-> <<L(2,3,8,-1)>>,
     big_rat |-> <<R(1,1,7), R(1,2,7), R(1,3,7), R(1,4,7)>>]

(* Six elements and every pair valgen can write. *)
WideFile ==
    [num_elts |-> 6, num_people |-> 2,
     lines |-> <<L(1,2,10,0), L(1,3,10,0), L(1,4,11,0), L(1,5,10,-2), L(2,3,10,0), L(2,4,12,0),
                 L(2,5,9,3), L(3,4,8,0), L(3,5,10,1), L(4,5,-4,0)>>,
     big_rat |-> <<R(1,1,10), R(1,3,20), R(1,6,3), R(2,2,32), R(2,4,1), R(2,5,8)>>]

(* All buckets of the slopes are filled and hardly one of the offsets. *)
FewOffsets ==
    [num_elts |-> 5, num_people |-> 1,
     lines |-> <<L(1,2,10,0), L(1,3,12,3), L(1,4,10,0), L(2,3,9,0), L(2,4,10,0), L(3,4,7,0)>>,
     big_rat |-> <<R(1,1,10), R(1,2,7), R(1,3,20), R(1,4,1), R(1,5,32)>>]

NoLine == [OneLine EXCEPT !.lines = <<>>]

(* Values that a signed char does not hold, and none of the special ones. *)
FarFile ==
    [num_elts |-> 4, num_people |-> 2,
     lines |-> <<L(1,2,12,-40), L(1,3,140,-128), L(2,3,-3,200)>>,
     big_rat |-> <<R(1,1,4), R(1,3,9), R(2,2,30), R(2,4,2)>>]

MCFiles == {FarFile, FullFile, GapFile, OneLine, NoLine, WideFile, FewOffsets}
MCLeftovers == {[start |-> 0, stop |-> 0], [start |-> -20, stop |-> 20]}

E(e, r) == [elt |-> e, rating |-> r]
MCRequests ==
    {[kind |-> "json", ratings |-> s, pop |-> p] :
        s \in {<<>>, <<E(1, 30)>>, <<E(3, 12), E(1, 2), E(4, 25)>>}, p \in {0, 1, 2}}
    \cup {[kind |-> "json", ratings |-> s, pop |-> 2] :
              s \in {<<E(0, 30), E(2, 9)>>, <<E(2, 1), E(9, 1)>>, <<E(1, 0)>>}}
    \cup {[kind |-> "recs", person |-> p, pop |-> 2] : p \in 0..4}
    \cup {[kind |-> "single", protocol |-> "json", person |-> p, target |-> t] :
              p \in 0..4, t \in {0, 2, 3, 5, 6}}
    \cup {[kind |-> "single", protocol |-> "protobuf", person |-> p, target |-> t] :
              p \in {2, 4}, t \in {0, 3}}
=============================================================================
