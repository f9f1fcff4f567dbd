------------------------- MODULE QuickSort_proofs -------------------------
(***************************************************************************)
(* Why quicksort_iterative() sorts, with any pivot and although it throws  *)
(* its stack away when that is full.                                       *)
(*                                                                         *)
(* A place k is a cut when no element from k on belongs before one in      *)
(* front of k.  left, len and all ends on the stack are cuts, and what is  *)
(* in front of left is in order; forgetting cuts costs time, never order.  *)
(* Between two swaps the elements from left to right are not above the     *)
(* pivot and those from len to the end of the range not below it, and one  *)
(* of each side, or the pivot itself, stops the scans.                     *)
(***************************************************************************)
EXTENDS QuickSort, SequenceTheorems, WellFoundedInduction, TLAPS

\* The number of elements: the end of the outermost range.
Size   == IF stack = <<>> THEN len ELSE stack[1]
Places == 0..Size-1
Top    == stack[Len(stack)]

IsEntry(e) == e.x \in Int /\ e.y \in Int

Cut(k) == \A i, j \in Places : i < k /\ k <= j => ~Before(array[j], array[i])

SortTypes ==
    /\ left \in Nat /\ len \in Nat /\ right \in Int /\ stack \in Seq(Nat)
    /\ sorting \in {"off", "outer", "parting"}
    /\ array = [k \in Places |-> array[k]]
    /\ \A k \in Places : IsEntry(array[k])

\* The ends on the stack.
Nested ==
    /\ \A i, j \in 1..Len(stack) : i <= j => stack[j] <= stack[i]
    /\ \A i \in 1..Len(stack) : len <= stack[i] /\ Cut(stack[i])

\* What is finished.
Finished ==
    /\ Cut(left)
    /\ \A i, j \in Places : i < j /\ j < left => ~Before(array[j], array[i])

AtHead == left <= len /\ Cut(len)

\* Between two swaps: the sides are made up so far.
Sides ==
    /\ stack # <<>> /\ left + 1 < Top
    /\ IsEntry(pivot)
    /\ left <= right + 1 /\ right < len /\ len <= Top
    /\ \A k \in left..right : ~Before(pivot, array[k])
    /\ \A k \in len..Top-1 : ~Before(array[k], pivot)
    /\ \/ right = left - 1 /\ len = Top /\ \E k \in left..Top-1 : array[k] = pivot
       \/ left <= right /\ len < Top

\* The invariant of the sort.
SortInv ==
    /\ SortTypes /\ Nested /\ Finished
    /\ sorting = "outer" => AtHead
    /\ sorting = "parting" => Sides
-----------------------------------------------------------------------------

\* valence_cmp() is a total preorder: an element below another is below any
\* third, or the third is below the other.
LEMMA BeforeSplits ==
    ASSUME NEW a, NEW b, NEW c, IsEntry(a), IsEntry(b), IsEntry(c), Before(a, b)
    PROVE  Before(a, c) \/ Before(c, b)
  BY DEF IsEntry, Before

LEMMA BeforeIsStrict ==
    ASSUME NEW a, NEW b, IsEntry(a), IsEntry(b)
    PROVE  ~Before(a, a) /\ (Before(a, b) => ~Before(b, a))
  BY DEF IsEntry, Before

\* The scan upwards cannot pass the pivot or the side above, nor the scan
\* downwards the pivot or the side below: there is an element that stops it.
LEMMA StopsExist ==
    ASSUME SortInv, sorting = "parting"
    PROVE  /\ \E k \in Places : right < k /\ k < Top /\ ~Before(array[k], pivot)
           /\ \E k \in Places : left <= k /\ k < len /\ ~Before(pivot, array[k])
<1>1. /\ left \in Nat /\ len \in Nat /\ right \in Int /\ stack \in Seq(Nat)
      /\ \A k \in Places : IsEntry(array[k])
      /\ Sides
  BY DEF SortInv, SortTypes
<1>2. Top \in Nat /\ Size \in Nat /\ Top <= Size
  <2>1. stack # <<>> /\ Len(stack) \in 1..Len(stack) /\ 1 \in 1..Len(stack)
    BY <1>1 DEF Sides
  <2>2. stack[Len(stack)] <= stack[1]
    BY <2>1 DEF SortInv, Nested
  <2> QED  BY <1>1, <2>1, <2>2 DEF Top, Size
<1>3. CASE right = left - 1 /\ len = Top /\ \E k \in left..Top-1 : array[k] = pivot
  <2>1. PICK k \in left..Top-1 : array[k] = pivot
    BY <1>3
  <2>2. k \in Places /\ right < k /\ k < Top /\ left <= k /\ k < len
    BY <1>1, <1>2, <1>3, <2>1 DEF Places
  <2>3. ~Before(pivot, pivot)
    BY <1>1, BeforeIsStrict DEF Sides
  <2> QED  BY <2>1, <2>2, <2>3
<1>4. CASE left <= right /\ len < Top
  <2>1. len \in Places /\ right < len /\ ~Before(array[len], pivot)
    BY <1>1, <1>2, <1>4 DEF Sides, Places
  <2>2. right \in Places /\ right < len /\ ~Before(pivot, array[right])
    BY <1>1, <1>2, <1>4 DEF Sides, Places
  <2> QED  BY <1>1, <1>4, <2>1, <2>2
<1> QED  BY <1>1, <1>3, <1>4 DEF Sides

\* Where the scans stop is inside the range being sorted.
LEMMA StopsInside ==
    ASSUME SortInv, sorting = "parting",
           NEW r \in Places, NEW l \in Places, UpStop(r), DownStop(l)
    PROVE  left <= r /\ r < Top /\ left <= l /\ l < len
<1>1. left \in Nat /\ len \in Nat /\ right \in Int /\ r \in Int /\ l \in Int /\ left <= right + 1
  BY DEF SortInv, SortTypes, Sides, Places
<1>2. PICK k \in Places : right < k /\ k < Top /\ ~Before(array[k], pivot)
  BY StopsExist
<1>3. PICK m \in Places : left <= m /\ m < len /\ ~Before(pivot, array[m])
  BY StopsExist
<1>4. k \in Int /\ m \in Int
  BY DEF Places
<1>5. r <= k
  BY <1>1, <1>2, <1>4 DEF UpStop
<1>6. m <= l
  BY <1>1, <1>3, <1>4 DEF DownStop
<1>7. Top \in Int
  <2>1. stack \in Seq(Nat) /\ stack # <<>>
    BY DEF SortInv, SortTypes, Sides
  <2> QED  BY <2>1 DEF Top
<1> QED  BY <1>1, <1>2, <1>3, <1>4, <1>5, <1>6, <1>7 DEF UpStop, DownStop
-----------------------------------------------------------------------------
(* The steps. *)

\* A partition of a range is a cut of the whole array.
LEMMA PartIsCut ==
    ASSUME SortInv, sorting = "parting", NEW c \in Nat, left <= c, c <= Top,
           \A k \in left..c-1 : ~Before(pivot, array[k]),
           \A k \in c..Top-1 : ~Before(array[k], pivot)
    PROVE  Cut(c)
<1> SUFFICES ASSUME NEW i \in Places, NEW j \in Places, i < c, c <= j
             PROVE  ~Before(array[j], array[i])
  BY DEF Cut
<1>1. left \in Nat /\ Top \in Nat /\ i \in Int /\ j \in Int /\ Cut(left) /\ Cut(Top)
  <2>1. stack \in Seq(Nat) /\ stack # <<>> /\ Len(stack) \in 1..Len(stack)
    BY DEF SortInv, SortTypes, Sides
  <2>2. Top \in Nat /\ Cut(Top)
    BY <2>1 DEF SortInv, Nested, Top
  <2> QED  BY <2>2 DEF SortInv, SortTypes, Finished, Places
<1>2. CASE i < left
  BY <1>1, <1>2 DEF Cut
<1>3. CASE Top <= j
  BY <1>1, <1>3 DEF Cut
<1>4. CASE left <= i /\ j < Top
  <2>1. ~Before(pivot, array[i]) /\ ~Before(array[j], pivot)
    BY <1>1, <1>4
  <2>2. IsEntry(pivot) /\ IsEntry(array[i]) /\ IsEntry(array[j])
    BY DEF SortInv, SortTypes, Sides
  <2> QED  BY <2>1, <2>2, BeforeSplits
<1> QED  BY <1>1, <1>2, <1>3, <1>4

LEMMA AppendFacts ==
    ASSUME NEW s \in Seq(Nat), NEW e \in Nat, NEW t, t = Append(s, e)
    PROVE  /\ t \in Seq(Nat) /\ t # <<>> /\ Len(s) \in Nat
           /\ Len(t) = Len(s) + 1 /\ t[Len(t)] = e
           /\ \A i \in 1..Len(s) : t[i] = s[i] /\ s[i] \in Nat
           /\ \A i \in 1..Len(t) : i \in 1..Len(s) \/ i = Len(t)
           /\ t[1] = IF s = <<>> THEN e ELSE s[1]
<1>1. /\ t \in Seq(Nat) /\ Len(s) \in Nat
      /\ Len(t) = Len(s) + 1 /\ t[Len(s) + 1] = e
      /\ \A i \in 1..Len(s) : t[i] = s[i] /\ s[i] \in Nat
  OBVIOUS
<1>2. t # <<>>
  BY <1>1
<1>3. CASE s = <<>>
  BY <1>1, <1>2, <1>3
<1>4. CASE s # <<>>
  BY <1>1, <1>2, <1>4
<1> QED  BY <1>3, <1>4

\* Pick: the range and its cuts stay or, with a full stack, become all that
\* is right of left.
LEMMA PickKeepsSortInv ==
    ASSUME SortInv, Pick PROVE SortInv' /\ Size' = Size
<1> DEFINE full == Len(stack) = MaxStack
           end  == IF full THEN stack[1] ELSE len
           base == IF full THEN <<>> ELSE stack
<1>1. /\ left \in Nat /\ len \in Nat /\ stack \in Seq(Nat)
      /\ \A k \in Places : IsEntry(array[k])
      /\ array = [k \in Places |-> array[k]]
      /\ sorting = "outer" /\ AtHead
  BY DEF SortInv, SortTypes, Pick
<1>2. /\ len' = end /\ left' = left /\ array' = array /\ right' = left - 1
      /\ stack' = Append(base, end)
      /\ sorting' = "parting" /\ left + 1 < len
      /\ \E k \in left..end-1 : pivot' = array[k]
  BY DEF Pick
<1>3. base \in Seq(Nat) /\ (full => stack # <<>>)
  BY <1>1, QuickSortAssumption
<1>4. end \in Nat /\ len <= end /\ end <= Size /\ Cut(end) /\ Size \in Nat
      /\ Size = (IF base = <<>> THEN end ELSE base[1])
  <2>1. CASE full
    <3>1. 1 \in 1..Len(stack) /\ stack # <<>>
      BY <1>1, <1>3, <2>1
    <3> QED  BY <1>1, <2>1, <3>1 DEF SortInv, Nested, Size
  <2>2. CASE ~full
    <3>1. CASE stack = <<>>
      BY <1>1, <2>2, <3>1 DEF AtHead, Size
    <3>2. CASE stack # <<>>
      <4>1. 1 \in 1..Len(stack)
        BY <1>1, <3>2
      <4> QED  BY <1>1, <2>2, <3>2, <4>1 DEF AtHead, SortInv, Nested, Size
    <3> QED  BY <3>1, <3>2
  <2> QED  BY <2>1, <2>2
<1>5. /\ \A i, j \in 1..Len(base) : i <= j => base[j] <= base[i]
      /\ \A i \in 1..Len(base) : end <= base[i] /\ Cut(base[i])
  <2>1. CASE full
    BY <2>1
  <2>2. CASE ~full
    BY <2>2 DEF SortInv, Nested
  <2> QED  BY <2>1, <2>2
<1> HIDE DEF full, end, base
<1>6. /\ stack' \in Seq(Nat) /\ stack' # <<>> /\ Len(base) \in Nat
      /\ Len(stack') = Len(base) + 1 /\ stack'[Len(stack')] = end
      /\ \A i \in 1..Len(base) : stack'[i] = base[i] /\ base[i] \in Nat
      /\ \A i \in 1..Len(stack') : i \in 1..Len(base) \/ i = Len(stack')
      /\ stack'[1] = IF base = <<>> THEN end ELSE base[1]
  <2>1. base \in Seq(Nat) /\ end \in Nat /\ stack' = Append(base, end)
    BY <1>2, <1>3, <1>4
  <2> QED  BY <2>1, AppendFacts
<1>7. Size' = Size /\ Places' = Places /\ Top' = end
  BY <1>4, <1>6 DEF Size, Places, Top
<1>8. SortTypes'
  BY <1>1, <1>2, <1>4, <1>6, <1>7 DEF SortTypes
<1>9. Nested'
  <2>1. ASSUME NEW i \in 1..Len(stack'), NEW j \in 1..Len(stack'), i <= j
        PROVE  stack'[j] <= stack'[i]
    BY <1>4, <1>5, <1>6, <2>1
  <2>2. ASSUME NEW i \in 1..Len(stack')
        PROVE  len' <= stack'[i] /\ Cut(stack'[i])
    BY <1>2, <1>4, <1>5, <1>6, <2>2
  <2> QED  BY <1>2, <1>7, <2>1, <2>2 DEF Nested, Cut
<1>10. Finished'
  BY <1>2, <1>7 DEF SortInv, Finished, Cut
<1>11. Sides'
  <2>1. PICK k \in left..end-1 : pivot' = array[k]
    BY <1>2
  <2>2. k \in Places
    BY <1>1, <1>4, <2>1 DEF Places
  <2> QED  BY <1>1, <1>2, <1>4, <1>6, <1>7, <2>1, <2>2 DEF Sides
<1> QED  BY <1>2, <1>7, <1>8, <1>9, <1>10, <1>11 DEF SortInv

\* What the two scans have passed.
LEMMA Passed ==
    ASSUME right \in Int, len \in Int, NEW r \in Int, NEW l \in Int, UpStop(r), DownStop(l)
    PROVE  /\ right < r /\ ~Before(array[r], pivot)
           /\ \A k \in Int : right < k /\ k < r => Before(array[k], pivot)
           /\ l < len /\ ~Before(pivot, array[l])
           /\ \A k \in Int : l < k /\ k < len => Before(pivot, array[k])
<1>1. \A k \in Int : right < k /\ k < r => k \in right+1..r-1
  OBVIOUS
<1>2. \A k \in Int : l < k /\ k < len => k \in l+1..len-1
  OBVIOUS
<1> QED  BY <1>1, <1>2 DEF UpStop, DownStop

\* Swap moves two elements within the range, each to the side it belongs to.
LEMMA SwapKeepsSortInv ==
    ASSUME SortInv, Swap PROVE SortInv' /\ Size' = Size
<1>a. array = [k \in Places |-> array[k]]
  BY DEF SortInv, SortTypes
<1>1. PICK r \in DOMAIN array, l \in DOMAIN array :
          /\ UpStop(r) /\ DownStop(l) /\ r < l
          /\ array' = [array EXCEPT ![r] = array[l], ![l] = array[r]]
          /\ right' = r /\ len' = l
  BY DEF Swap
<1>2. /\ left \in Nat /\ len \in Nat /\ right \in Int /\ stack \in Seq(Nat)
      /\ \A k \in Places : IsEntry(array[k])
      /\ sorting = "parting" /\ Sides
      /\ left' = left /\ stack' = stack /\ pivot' = pivot /\ sorting' = sorting
  BY DEF SortInv, SortTypes, Swap
<1>b. /\ left' = left /\ stack' = stack /\ pivot' = pivot /\ sorting' = sorting
      /\ right' = r /\ len' = l
  BY <1>1, <1>2
<1>3. r \in Places /\ l \in Places /\ r \in Int /\ l \in Int
  <2>1. DOMAIN array = Places
    BY <1>a
  <2> QED  BY <1>1, <2>1 DEF Places
<1>p. /\ right < r /\ ~Before(array[r], pivot)
      /\ \A k \in Int : right < k /\ k < r => Before(array[k], pivot)
      /\ l < len /\ ~Before(pivot, array[l])
      /\ \A k \in Int : l < k /\ k < len => Before(pivot, array[k])
  <2>1. right \in Int /\ len \in Int /\ r \in Int /\ l \in Int
    BY <1>2, <1>3
  <2>2. UpStop(r) /\ DownStop(l)
    BY <1>1
  <2> QED  BY <2>1, <2>2, Passed
<1>4. left <= r /\ r < Top /\ left <= l /\ l < len
  BY <1>1, <1>2, <1>3, StopsInside
<1>5. Size' = Size /\ Places' = Places /\ Top' = Top /\ Top \in Nat
  <2>1. stack # <<>> /\ Len(stack) \in 1..Len(stack)
    BY <1>2 DEF Sides
  <2> QED  BY <1>2, <2>1 DEF Size, Places, Top
<1>6. /\ array' = [k \in Places |-> array'[k]]
      /\ array'[r] = array[l] /\ array'[l] = array[r]
      /\ \A k \in Places : k # r /\ k # l => array'[k] = array[k]
  BY <1>a, <1>1, <1>2, <1>3
<1>7. SortTypes'
  <2>1. \A k \in Places : IsEntry(array'[k])
    <3>1. ASSUME NEW k \in Places PROVE \E m \in Places : array'[k] = array[m]
      BY <1>3, <1>6
    <3> QED  BY <1>2, <3>1
  <2>2. r \in Int /\ l \in Nat
    BY <1>2, <1>3, <1>4
  <2> QED  BY <1>b, <1>2, <1>5, <1>6, <2>1, <2>2 DEF SortTypes
<1>8. ASSUME NEW c \in Nat, c <= left \/ Top <= c, Cut(c)
      PROVE  Cut(c)'
  <2> SUFFICES ASSUME NEW i \in Places, NEW j \in Places, i < c, c <= j
               PROVE  ~Before(array'[j], array'[i])
    BY <1>5 DEF Cut
  <2>1. i \in Int /\ j \in Int
    BY DEF Places
  <2>2. PICK a \in Places : array'[i] = array[a] /\ a < c
    BY <1>2, <1>3, <1>4, <1>5, <1>6, <1>8, <2>1 DEF Sides
  <2>3. PICK b \in Places : array'[j] = array[b] /\ c <= b
    BY <1>2, <1>3, <1>4, <1>5, <1>6, <1>8, <2>1 DEF Sides
  <2> QED  BY <1>8, <2>2, <2>3 DEF Cut
<1>9. Nested'
  <2>1. \A i \in 1..Len(stack) : stack[i] \in Nat /\ Top <= stack[i] /\ Cut(stack[i])
    <3>1. Len(stack) \in 1..Len(stack)
      BY <1>2 DEF Sides
    <3> QED  BY <1>2, <3>1 DEF SortInv, Nested, Top
  <2>2. \A i \in 1..Len(stack) : Cut(stack[i])'
    <3>1. SUFFICES ASSUME NEW i \in 1..Len(stack) PROVE Cut(stack[i])'
      OBVIOUS
    <3>2. \A c \in Nat : Top <= c /\ Cut(c) => Cut(c)'
      BY <1>8
    <3> QED  BY <1>2, <2>1, <3>2 DEF Cut
  <2>3. l <= Top
    BY <1>2, <1>3, <1>4, <1>5 DEF Sides
  <2>4. \A i, j \in 1..Len(stack) : i <= j => stack[j] <= stack[i]
    BY DEF SortInv, Nested
  <2>5. \A i \in 1..Len(stack) : l <= stack[i]
    BY <1>3, <1>5, <2>1, <2>3
  <2> QED  BY <1>b, <1>5, <2>2, <2>4, <2>5 DEF Nested, Cut
<1>10. Finished'
  <2>1. Cut(left)'
    <3>1. Cut(left)
      BY DEF SortInv, Finished
    <3>2. \A c \in Nat : c <= left /\ Cut(c) => Cut(c)'
      BY <1>8
    <3> QED  BY <1>2, <3>1, <3>2 DEF Cut
  <2>2. ASSUME NEW i \in Places, NEW j \in Places, i < j, j < left
        PROVE  ~Before(array'[j], array'[i])
    <3>1. i \in Int /\ j \in Int
      BY DEF Places
    <3>2. array'[i] = array[i] /\ array'[j] = array[j]
      BY <1>2, <1>3, <1>4, <1>6, <2>2, <3>1
    <3> QED  BY <2>2, <3>2 DEF SortInv, Finished
  <2> QED  BY <1>2, <1>5, <2>1, <2>2 DEF Finished
<1>11. Sides'
  <2>1. /\ IsEntry(pivot)
        /\ \A k \in left..right : ~Before(pivot, array[k])
        /\ \A k \in len..Top-1 : ~Before(array[k], pivot)
        /\ stack # <<>> /\ left + 1 < Top /\ left <= right + 1 /\ len <= Top
    BY <1>2 DEF Sides
  <2>2. Top <= Size /\ Size \in Nat
    <3>1. 1 \in 1..Len(stack) /\ Len(stack) \in 1..Len(stack)
      BY <1>2, <2>1
    <3> QED  BY <1>2, <2>1, <3>1 DEF SortInv, Nested, Size, Top
  <2>3. \A k \in left..Top-1 : k \in Places
    BY <1>2, <1>5, <2>2 DEF Places
  <2>4. ASSUME NEW k \in left..r PROVE ~Before(pivot, array'[k])
    <3>1. k \in Int /\ left <= k /\ k <= r /\ k \in Places /\ k # l
      BY <1>1, <1>2, <1>3, <1>4, <1>5, <2>3
    <3>2. CASE k = r
      BY <1>6, <1>p, <3>2
    <3>3. CASE k <= right
      <4>1. k # r
        BY <1>p, <1>2, <1>3, <3>1, <3>3
      <4>2. k \in left..right
        BY <1>2, <1>3, <3>1, <3>3
      <4> QED  BY <1>6, <2>1, <3>1, <4>1, <4>2
    <3>4. CASE right < k /\ k < r
      <4>1. Before(array[k], pivot)
        BY <1>p, <3>1, <3>4
      <4>2. IsEntry(array[k])
        BY <1>2, <3>1
      <4>3. k # r /\ k # l
        BY <3>1, <3>4, <1>3
      <4> QED  BY <1>6, <2>1, <3>1, <4>1, <4>2, <4>3, BeforeIsStrict
    <3> QED  BY <1>2, <1>3, <3>1, <3>2, <3>3, <3>4
  <2>5. ASSUME NEW k \in l..Top-1 PROVE ~Before(array'[k], pivot)
    <3>1. k \in Int /\ l <= k /\ k < Top /\ k \in Places /\ k # r
      BY <1>1, <1>2, <1>3, <1>4, <1>5, <2>3
    <3>2. CASE k = l
      BY <1>6, <1>p, <3>2
    <3>3. CASE len <= k
      <4>1. k # l
        BY <1>p, <1>2, <1>3, <3>1, <3>3
      <4>2. k \in len..Top-1
        BY <1>2, <1>3, <1>5, <3>1, <3>3
      <4> QED  BY <1>6, <2>1, <3>1, <4>1, <4>2
    <3>4. CASE l < k /\ k < len
      <4>1. Before(pivot, array[k])
        BY <1>p, <3>1, <3>4
      <4>2. IsEntry(array[k])
        BY <1>2, <3>1
      <4>3. k # r /\ k # l
        BY <3>1, <3>4, <1>3
      <4> QED  BY <1>6, <2>1, <3>1, <4>1, <4>2, <4>3, BeforeIsStrict
    <3> QED  BY <1>2, <1>3, <3>1, <3>2, <3>3, <3>4
  <2>6. l < Top
    BY <1>2, <1>3, <1>4, <1>5, <2>1
  <2>7. left <= r + 1 /\ r < l /\ l <= Top /\ left <= r
    BY <1>1, <1>2, <1>3, <1>4, <1>5, <2>6
  <2> QED  BY <1>b, <1>5, <2>1, <2>4, <2>5, <2>6, <2>7 DEF Sides
<1> QED  BY <1>2, <1>5, <1>7, <1>9, <1>10, <1>11 DEF SortInv

\* Parted: the sides meet, and len becomes the cut between them.
LEMMA PartedKeepsSortInv ==
    ASSUME SortInv, Parted PROVE SortInv' /\ Size' = Size
<1>a. array = [k \in Places |-> array[k]]
  BY DEF SortInv, SortTypes
<1>1. PICK r \in DOMAIN array, l \in DOMAIN array :
          /\ UpStop(r) /\ DownStop(l) /\ r >= l
          /\ right' = r /\ len' = l + 1
  BY DEF Parted
<1>2. /\ left \in Nat /\ len \in Nat /\ right \in Int /\ stack \in Seq(Nat)
      /\ \A k \in Places : IsEntry(array[k])
      /\ sorting = "parting" /\ Sides
      /\ left' = left /\ stack' = stack /\ array' = array /\ sorting' = "outer"
  BY DEF SortInv, SortTypes, Parted
<1>3. r \in Places /\ l \in Places /\ r \in Int /\ l \in Nat
  <2>1. DOMAIN array = Places
    BY <1>a
  <2> QED  BY <1>1, <2>1 DEF Places
<1>p. /\ right < r /\ ~Before(array[r], pivot)
      /\ \A k \in Int : right < k /\ k < r => Before(array[k], pivot)
      /\ l < len /\ ~Before(pivot, array[l])
      /\ \A k \in Int : l < k /\ k < len => Before(pivot, array[k])
  <2>1. right \in Int /\ len \in Int /\ r \in Int /\ l \in Int
    BY <1>2, <1>3
  <2>2. UpStop(r) /\ DownStop(l)
    BY <1>1
  <2> QED  BY <2>1, <2>2, Passed
<1>4. left <= r /\ r < Top /\ left <= l /\ l < len
  BY <1>1, <1>2, <1>3, StopsInside
<1>5. Size' = Size /\ Places' = Places /\ Top \in Nat /\ Top <= Size /\ Size \in Nat
  <2>1. stack # <<>> /\ Len(stack) \in 1..Len(stack) /\ 1 \in 1..Len(stack)
    BY <1>2 DEF Sides
  <2> QED  BY <1>2, <2>1 DEF SortInv, Nested, Size, Places, Top
<1>6. /\ IsEntry(pivot) /\ len <= Top
      /\ \A k \in left..right : ~Before(pivot, array[k])
      /\ \A k \in len..Top-1 : ~Before(array[k], pivot)
  BY <1>2 DEF Sides
<1>7. \A k \in left..Top-1 : k \in Int /\ k \in Places /\ IsEntry(array[k])
  BY <1>2, <1>5 DEF Places
<1>8. ASSUME NEW k \in Int, left <= k, k <= l PROVE ~Before(pivot, array[k])
  <2>1. IsEntry(array[k])
    BY <1>3, <1>4, <1>5, <1>6, <1>7, <1>8, <1>2
  <2>2. CASE k = l
    BY <1>p, <2>2
  <2>3. CASE k <= right
    <3>1. k \in left..right
      BY <1>2, <1>8, <2>3
    <3> QED  BY <1>6, <3>1
  <2>4. CASE right < k /\ k < l
    <3>1. Before(array[k], pivot)
      BY <1>1, <1>3, <1>p, <2>4
    <3> QED  BY <1>6, <2>1, <3>1, BeforeIsStrict
  <2> QED  BY <1>2, <1>3, <1>8, <2>2, <2>3, <2>4
<1>9. ASSUME NEW k \in Int, l + 1 <= k, k < Top PROVE ~Before(array[k], pivot)
  <2>1. IsEntry(array[k])
    BY <1>3, <1>4, <1>5, <1>7, <1>9, <1>2
  <2>2. CASE len <= k
    <3>1. k \in len..Top-1
      BY <1>2, <1>5, <1>9, <2>2
    <3> QED  BY <1>6, <3>1
  <2>3. CASE k < len
    <3>1. Before(pivot, array[k])
      BY <1>3, <1>p, <1>9, <2>3
    <3> QED  BY <1>6, <2>1, <3>1, BeforeIsStrict
  <2> QED  BY <1>2, <1>9, <2>2, <2>3
<1>10. Cut(l + 1)
  <2>1. l + 1 \in Nat /\ left <= l + 1 /\ l + 1 <= Top
    BY <1>2, <1>3, <1>4, <1>5, <1>6
  <2>2. \A k \in left..(l + 1)-1 : k \in Int /\ left <= k /\ k <= l
    BY <1>2, <1>3
  <2>3. \A k \in l+1..Top-1 : k \in Int /\ l + 1 <= k /\ k < Top
    BY <1>3, <1>5
  <2>4. \A k \in left..(l + 1)-1 : ~Before(pivot, array[k])
    BY <1>8, <2>2
  <2>5. \A k \in l+1..Top-1 : ~Before(array[k], pivot)
    BY <1>9, <2>3
  <2> QED  BY <1>2, <2>1, <2>4, <2>5, PartIsCut
<1>11. SortTypes'
  BY <1>a, <1>1, <1>2, <1>3, <1>5 DEF SortTypes
<1>12. Nested'
  <2>1. \A i \in 1..Len(stack) : stack[i] \in Nat /\ Top <= stack[i]
    <3>1. Len(stack) \in 1..Len(stack)
      BY <1>2 DEF Sides
    <3> QED  BY <1>2, <3>1 DEF SortInv, Nested, Top
  <2> QED  BY <1>1, <1>2, <1>3, <1>4, <1>5, <1>6, <2>1 DEF SortInv, Nested, Cut
<1>13. Finished'
  BY <1>2, <1>5 DEF SortInv, Finished, Cut
<1>14. AtHead'
  BY <1>1, <1>2, <1>3, <1>4, <1>5, <1>10 DEF AtHead, Cut
<1> QED  BY <1>2, <1>5, <1>11, <1>12, <1>13, <1>14 DEF SortInv

\* With one element between two cuts, all in front of the second is in order.
LEMMA OneInOrder ==
    ASSUME SortInv, sorting = "outer", left + 1 >= len
    PROVE  \A i, j \in Places : i < j /\ j < len => ~Before(array[j], array[i])
  BY DEF SortInv, SortTypes, Finished, AtHead, Cut, Places

\* Unstack: the range is finished, and the next one begins where it ends.
LEMMA UnstackKeepsSortInv ==
    ASSUME SortInv, Unstack PROVE SortInv' /\ Size' = Size
<1>a. array = [k \in Places |-> array[k]]
  BY DEF SortInv, SortTypes
<1>1. /\ left \in Nat /\ len \in Nat /\ right \in Int /\ stack \in Seq(Nat)
      /\ \A k \in Places : IsEntry(array[k])
      /\ sorting = "outer" /\ AtHead
  BY DEF SortInv, SortTypes, Unstack
<1>2. /\ left + 1 >= len /\ stack # <<>>
      /\ left' = len /\ len' = Top
      /\ stack' = SubSeq(stack, 1, Len(stack) - 1)
      /\ array' = array /\ right' = right /\ sorting' = sorting
  BY DEF Unstack, Top
<1>3. /\ Len(stack) \in 1..Len(stack) /\ 1 \in 1..Len(stack) /\ Top \in Nat
      /\ stack' \in Seq(Nat) /\ Len(stack') = Len(stack) - 1
      /\ \A i \in 1..Len(stack') : stack'[i] = stack[i] /\ i \in 1..Len(stack)
  <2>1. Len(stack) \in 1..Len(stack) /\ 1 \in 1..Len(stack) /\ Top \in Nat
    BY <1>1, <1>2 DEF Top
  <2>2. Len(stack) - 1 \in Int /\ 1 \in Int /\ \A i \in 1..Len(stack) - 1 : stack[i] \in Nat
    BY <1>1, <2>1
  <2>3. /\ SubSeq(stack, 1, Len(stack) - 1) \in Seq(Nat)
        /\ Len(SubSeq(stack, 1, Len(stack) - 1)) =
              IF 1 <= Len(stack) - 1 THEN (Len(stack) - 1) - 1 + 1 ELSE 0
        /\ \A i \in 1..(Len(stack) - 1) - 1 + 1 :
              SubSeq(stack, 1, Len(stack) - 1)[i] = stack[1 + i - 1]
    BY <2>2, SubSeqProperties
  <2>4. /\ Len(SubSeq(stack, 1, Len(stack) - 1)) = Len(stack) - 1
        /\ \A i \in 1..Len(stack) - 1 : SubSeq(stack, 1, Len(stack) - 1)[i] = stack[i]
    <3>1. Len(stack) \in Nat
      BY <1>1
    <3>2. ASSUME NEW n, NEW a, a = (IF 1 <= n - 1 THEN (n - 1) - 1 + 1 ELSE 0), n \in 1..n
          PROVE  a = n - 1
      BY <3>2
    <3>4. Len(SubSeq(stack, 1, Len(stack) - 1)) = Len(stack) - 1
      BY <2>1, <2>3, <3>2, Zenon
    <3>3. \A i \in 1..Len(stack) - 1 : 1 + i - 1 = i /\ i \in 1..(Len(stack) - 1) - 1 + 1
      BY <3>1
    <3> QED  BY <2>3, <3>4, <3>3
  <2>5. \A i \in 1..Len(stack) - 1 : i \in 1..Len(stack)
    BY <2>1
  <2> QED  BY <1>2, <2>1, <2>3, <2>4, <2>5
<1>4. Size' = Size /\ Places' = Places
  <2>1. CASE Len(stack) = 1
    <3>1. stack' = <<>>
      BY <1>3, <2>1
    <3> QED  BY <1>2, <2>1, <3>1 DEF Size, Places, Top
  <2>2. CASE Len(stack) # 1
    <3>1. stack' # <<>> /\ 1 \in 1..Len(stack')
      BY <1>3, <2>2
    <3> QED  BY <1>2, <1>3, <3>1 DEF Size, Places
  <2> QED  BY <2>1, <2>2
<1>5. /\ \A i, j \in 1..Len(stack) : i <= j => stack[j] <= stack[i]
      /\ \A i \in 1..Len(stack) : len <= stack[i] /\ Cut(stack[i])
  BY DEF SortInv, Nested
<1>6. SortTypes'
  BY <1>a, <1>1, <1>2, <1>3, <1>4 DEF SortTypes
<1>7. Nested'
  BY <1>2, <1>3, <1>4, <1>5 DEF Nested, Cut, Top
<1>8. Finished'
  <2>1. Cut(len)
    BY <1>1 DEF AtHead
  <2> QED  BY <1>1, <1>2, <1>4, <2>1, OneInOrder DEF Finished, Cut
<1>9. AtHead'
  BY <1>2, <1>3, <1>4, <1>5 DEF AtHead, Cut, Top
<1> QED  BY <1>1, <1>2, <1>4, <1>6, <1>7, <1>8, <1>9 DEF SortInv
-----------------------------------------------------------------------------
(* What the sort keeps, and its beginning and its end. *)

Key(e)    == <<e.x, e.y>>
KeySet    == {Key(array[k]) : k \in Places}
Different == \A j, k \in Places : j # k => Key(array[j]) # Key(array[k])

LEMMA SwapKeepsKeys ==
    ASSUME SortInv, Swap
    PROVE  KeySet' = KeySet /\ (Different => Different')
<1>1. PICK r \in DOMAIN array, l \in DOMAIN array :
          r < l /\ array' = [array EXCEPT ![r] = array[l], ![l] = array[r]]
  BY DEF Swap
<1>2. array = [k \in Places |-> array[k]]
  BY DEF SortInv, SortTypes
<1>3. r \in Places /\ l \in Places /\ r # l
  <2>1. DOMAIN array = Places
    BY <1>2
  <2> QED  BY <1>1, <2>1 DEF Places
<1>4. Places' = Places
  BY SwapKeepsSortInv DEF Places
<1> DEFINE from == [k \in Places |-> IF k = r THEN l ELSE IF k = l THEN r ELSE k]
<1>5. /\ array'[r] = array[l] /\ array'[l] = array[r]
      /\ \A k \in Places : k # r /\ k # l => array'[k] = array[k]
  BY <1>1, <1>2, <1>3
<1>6. \A k \in Places : from[k] \in Places /\ array'[k] = array[from[k]]
  BY <1>3, <1>5
<1>7. \A k \in Places : from[from[k]] = k
  BY <1>3
<1> HIDE DEF from
<1>8. \A k \in Places : array'[from[k]] = array[k]
  BY <1>6, <1>7
<1>9. KeySet' = KeySet
  <2>1. KeySet' = {Key(array'[k]) : k \in Places}
    BY <1>4 DEF KeySet, Key
  <2> QED  BY <1>6, <1>8, <2>1 DEF KeySet
<1>10. ASSUME Different PROVE Different'
  <2>1. ASSUME NEW j \in Places, NEW k \in Places, j # k
        PROVE  Key(array'[j]) # Key(array'[k])
    <3>1. from[j] # from[k]
      BY <1>7, <2>1
    <3> QED  BY <1>6, <1>10, <3>1 DEF Different
  <2> QED  BY <1>4, <2>1 DEF Different, Key
<1> QED  BY <1>9, <1>10

\* Every step keeps the invariant, and swaps keep what is sorted.
LEMMA StepKeepsSort ==
    ASSUME SortInv, SortStep
    PROVE  SortInv' /\ Size' = Size /\ KeySet' = KeySet /\ (Different => Different')
<1>1. ASSUME UNCHANGED array, Size' = Size
      PROVE  KeySet' = KeySet /\ (Different => Different')
  BY <1>1 DEF KeySet, Different, Places, Key
<1>2. CASE Pick
  BY <1>1, <1>2, PickKeepsSortInv DEF Pick
<1>3. CASE Swap
  BY <1>3, SwapKeepsSortInv, SwapKeepsKeys
<1>4. CASE Parted
  BY <1>1, <1>4, PartedKeepsSortInv DEF Parted
<1>5. CASE Unstack
  BY <1>1, <1>5, UnstackKeepsSortInv DEF Unstack
<1> QED  BY <1>2, <1>3, <1>4, <1>5 DEF SortStep

LEMMA BeginHasSortInv ==
    ASSUME NEW n \in Nat, BeginSort(n), right \in Int,
           array = [k \in 0..n-1 |-> array[k]], \A k \in 0..n-1 : IsEntry(array[k])
    PROVE  SortInv' /\ Size' = n /\ sorting' = "outer"
<1>1. /\ left' = 0 /\ len' = n /\ stack' = <<>> /\ sorting' = "outer"
      /\ array' = array /\ right' = right
  BY DEF BeginSort
<1>2. Size' = n /\ Places' = 0..n-1
  BY <1>1 DEF Size, Places
<1>3. SortTypes'
  <2>1. <<>> \in Seq(Nat)
    OBVIOUS
  <2> QED  BY <1>1, <1>2, <2>1 DEF SortTypes
<1>4. Nested' /\ Finished' /\ AtHead'
  BY <1>1, <1>2 DEF Nested, Finished, AtHead, Cut
<1> QED  BY <1>1, <1>2, <1>3, <1>4 DEF SortInv

LEMMA EndIsSorted ==
    ASSUME SortInv, EndSort
    PROVE  \A i, j \in Places : i < j => ~Before(array[j], array[i])
<1>1. sorting = "outer" /\ left + 1 >= len /\ stack = <<>>
  BY DEF EndSort
<1>2. len \in Nat /\ Places = 0..len-1
  BY <1>1 DEF Size, Places, SortInv, SortTypes
<1>3. \A j \in Places : j < len
  BY <1>2
<1> QED  BY <1>1, <1>3, OneInOrder
-----------------------------------------------------------------------------
(* The variables stay within the array. *)

Within(n) ==
    /\ left \in 0..n /\ len \in 0..n /\ right \in -1..n
    /\ stack \in Seq(Nat) /\ Len(stack) <= MaxStack /\ \A i \in 1..Len(stack) : stack[i] \in 0..n
    /\ sorting \in {"off", "outer", "parting"}

LEMMA PopFacts ==
    ASSUME NEW s \in Seq(Nat), s # <<>>, NEW t, t = SubSeq(s, 1, Len(s) - 1)
    PROVE  /\ t \in Seq(Nat) /\ Len(s) \in 1..Len(s) /\ Len(t) = Len(s) - 1
           /\ \A i \in 1..Len(t) : t[i] = s[i] /\ i \in 1..Len(s)
<1>1. Len(s) \in Nat /\ Len(s) >= 1 /\ \A i \in 1..Len(s) : s[i] \in Nat
  OBVIOUS
<1> DEFINE n == Len(s) - 1
<1>2. n \in Nat /\ 1 \in Int /\ \A i \in 1..n : i \in 1..Len(s)
  BY <1>1
<1>3. \A i \in 1..n : s[i] \in Nat
  BY <1>1, <1>2
<1>4. /\ SubSeq(s, 1, n) \in Seq(Nat)
      /\ Len(SubSeq(s, 1, n)) = IF 1 <= n THEN n - 1 + 1 ELSE 0
      /\ \A i \in 1..n - 1 + 1 : SubSeq(s, 1, n)[i] = s[1 + i - 1]
  <2> HIDE DEF n
  <2>1. n \in Int
    BY <1>2
  <2> QED  BY <1>2, <1>3, <2>1, SubSeqProperties
<1>5. t = SubSeq(s, 1, n)
  OBVIOUS
<1>6. n = Len(s) - 1
  OBVIOUS
<1> HIDE DEF n
<1>7. Len(t) = n
  BY <1>2, <1>4, <1>5
<1>8. \A i \in 1..n : 1 + i - 1 = i /\ i \in 1..n - 1 + 1
  BY <1>2
<1>9. \A i \in 1..n : t[i] = s[i]
  BY <1>4, <1>5, <1>8
<1> QED  BY <1>1, <1>2, <1>4, <1>5, <1>6, <1>7, <1>9

LEMMA StepStaysWithin ==
    ASSUME SortInv, SortStep, NEW n \in Nat, n = Size, Within(n)
    PROVE  Within(n)'
<1>1. /\ left \in 0..n /\ len \in 0..n /\ right \in -1..n
      /\ stack \in Seq(Nat) /\ Len(stack) <= MaxStack /\ \A i \in 1..Len(stack) : stack[i] \in 0..n
      /\ DOMAIN array = 0..n-1 /\ MaxStack \in Nat \ {0} /\ Len(stack) \in Nat
  BY QuickSortAssumption DEF Within, SortInv, SortTypes, Places
<1>2. CASE Pick
  <2> DEFINE full == Len(stack) = MaxStack
             end  == IF full THEN stack[1] ELSE len
             base == IF full THEN <<>> ELSE stack
  <2>1. /\ stack' = Append(base, end) /\ len' = end /\ right' = left - 1 /\ left' = left
        /\ sorting' = "parting"
    BY <1>2 DEF Pick
  <2>2. end \in 0..n /\ end \in Nat
    BY <1>1
  <2>3. base \in Seq(Nat) /\ Len(base) \in Nat /\ Len(base) + 1 <= MaxStack
        /\ \A i \in 1..Len(base) : base[i] \in 0..n
    <3>1. CASE full
      <4>1. base = <<>>
        BY <3>1
      <4> HIDE DEF base, full
      <4> QED  BY <1>1, <4>1
    <3>2. CASE ~full
      <4>1. base = stack /\ Len(stack) # MaxStack
        BY <3>2
      <4> HIDE DEF base, full
      <4> QED  BY <1>1, <4>1
    <3> QED  BY <3>1, <3>2
  <2> HIDE DEF end, base
  <2>4. stack' \in Seq(Nat) /\ Len(stack') = Len(base) + 1
    BY <2>1, <2>2, <2>3, AppendFacts
  <2>5. \A i \in 1..Len(stack') : stack'[i] \in 0..n
    <3>1. /\ stack'[Len(stack')] = end
          /\ \A i \in 1..Len(base) : stack'[i] = base[i]
          /\ \A i \in 1..Len(stack') : i \in 1..Len(base) \/ i = Len(stack')
      BY <2>1, <2>2, <2>3, AppendFacts
    <3> QED  BY <2>2, <2>3, <3>1
  <2> QED  BY <1>1, <2>1, <2>2, <2>3, <2>4, <2>5 DEF Within
<1>3. CASE Swap
  <2>1. PICK r, l \in 0..n-1 : right' = r /\ len' = l
    BY <1>1, <1>3 DEF Swap
  <2>2. UNCHANGED <<left, stack, sorting>>
    BY <1>3 DEF Swap
  <2> QED  BY <1>1, <2>1, <2>2 DEF Within
<1>4. CASE Parted
  <2>1. PICK r, l \in 0..n-1 : right' = r /\ len' = l + 1
    BY <1>1, <1>4 DEF Parted
  <2>2. UNCHANGED <<left, stack>> /\ sorting' = "outer"
    BY <1>4 DEF Parted
  <2> QED  BY <1>1, <2>1, <2>2 DEF Within
<1>5. CASE Unstack
  <2>1. /\ stack # <<>> /\ left' = len /\ len' = stack[Len(stack)]
        /\ stack' = SubSeq(stack, 1, Len(stack) - 1) /\ UNCHANGED <<right, sorting>>
    BY <1>5 DEF Unstack
  <2>3. /\ stack' \in Seq(Nat) /\ Len(stack) \in 1..Len(stack) /\ Len(stack') = Len(stack) - 1
        /\ \A i \in 1..Len(stack') : stack'[i] = stack[i] /\ i \in 1..Len(stack)
    BY <1>1, <2>1, PopFacts
  <2>2. len' \in 0..n
    BY <1>1, <2>1, <2>3
  <2> QED  BY <1>1, <2>1, <2>2, <2>3 DEF Within
<1> QED  BY <1>2, <1>3, <1>4, <1>5 DEF SortStep
-----------------------------------------------------------------------------
(* The scans stop. *)

LEMMA MinExists ==
    ASSUME NEW T, T \subseteq Nat, T # {}
    PROVE  \E m \in T : \A k \in T : m <= k
<1>1. \E m \in T : \A k \in T : ~(<<k, m>> \in OpToRel(<, Nat))
  BY WFMin, NatLessThanWellFounded
<1>2. \E m \in T : \A k \in T : ~(k < m)
  BY <1>1, Zenon DEF OpToRel
<1> QED  BY <1>2

LEMMA MaxExists ==
    ASSUME NEW n \in Nat, NEW T, \A k \in T : k \in Nat /\ k < n, T # {}
    PROVE  \E m \in T : \A k \in T : k <= m
<1> DEFINE U == {n - 1 - k : k \in T}
<1>1. U \subseteq Nat /\ U # {}
  OBVIOUS
<1>2. PICK u \in U : \A v \in U : u <= v
  BY <1>1, MinExists
<1>3. PICK m \in T : u = n - 1 - m
  BY <1>2
<1>4. \A k \in T : n - 1 - m <= n - 1 - k
  BY <1>2, <1>3
<1> QED  BY <1>4

LEMMA InvScansStop == ASSUME SortInv PROVE ScansStop
<1> SUFFICES ASSUME sorting = "parting"
             PROVE  /\ \E r \in left..Top-1 : UpStop(r)
                    /\ \E l \in left..Top-1 : DownStop(l)
  BY DEF ScansStop, Top
<1>1. left \in Nat /\ len \in Nat /\ right \in Int /\ Sides
  BY DEF SortInv, SortTypes
<1>2. Top \in Nat /\ Size \in Nat /\ Top <= Size
  <2>1. stack # <<>> /\ stack \in Seq(Nat)
    BY <1>1 DEF Sides, SortInv, SortTypes
  <2>2. Len(stack) \in 1..Len(stack) /\ 1 \in 1..Len(stack)
    BY <2>1
  <2>3. stack[Len(stack)] <= stack[1]
    BY <2>2 DEF SortInv, Nested
  <2> QED  BY <2>1, <2>2, <2>3 DEF Top, Size
<1>3. left <= right + 1 /\ right < len /\ len <= Top
  BY <1>1 DEF Sides
<1>4. \E r \in left..Top-1 : UpStop(r)
  <2> DEFINE T == {k \in Places : right < k /\ k < Top /\ ~Before(array[k], pivot)}
  <2>1. T \subseteq Nat /\ T # {}
    BY StopsExist DEF Places
  <2>2. PICK r \in T : \A k \in T : r <= k
    BY <2>1, MinExists
  <2>3. r \in Places /\ r \in Nat /\ right < r /\ r < Top /\ ~Before(array[r], pivot)
    BY <2>1, <2>2
  <2>4. ASSUME NEW k \in right+1..r-1 PROVE Before(array[k], pivot)
    <3>1. k \in Places /\ right < k /\ k < Top /\ ~(r <= k)
      BY <1>1, <1>2, <1>3, <2>3 DEF Places
    <3> QED  BY <2>2, <3>1
  <2>5. r \in left..Top-1
    BY <1>1, <1>2, <1>3, <2>3
  <2>6. UpStop(r)
    BY <1>1, <2>3, <2>4 DEF UpStop
  <2> QED  BY <2>5, <2>6
<1>5. \E l \in left..Top-1 : DownStop(l)
  <2> DEFINE T == {k \in Places : left <= k /\ k < len /\ ~Before(pivot, array[k])}
  <2>1. T # {} /\ \A k \in T : k \in Nat /\ k < len
    BY StopsExist DEF Places
  <2>2. PICK l \in T : \A k \in T : k <= l
    BY <1>1, <2>1, MaxExists
  <2>3. l \in Places /\ l \in Nat /\ left <= l /\ l < len /\ ~Before(pivot, array[l])
    BY <2>1, <2>2
  <2>4. ASSUME NEW k \in l+1..len-1 PROVE Before(pivot, array[k])
    <3>1. k \in Places /\ left <= k /\ k < len /\ ~(k <= l)
      BY <1>1, <1>2, <1>3, <2>3 DEF Places
    <3> QED  BY <2>2, <3>1
  <2>5. l \in left..Top-1
    BY <1>1, <1>2, <1>3, <2>3
  <2>6. DownStop(l)
    BY <1>1, <2>3, <2>4 DEF DownStop
  <2> QED  BY <2>5, <2>6
<1> QED  BY <1>4, <1>5
=============================================================================
