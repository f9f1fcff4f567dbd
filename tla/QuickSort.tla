----------------------------- MODULE QuickSort -----------------------------
(***************************************************************************)
(* quicksort_iterative() of src/recgen/big_mem.c, which orders the copied  *)
(* valences by (y, x) to make the "differently sorted" store.  It is a     *)
(* quicksort without recursion: a bounded stack holds the right ends of    *)
(* the ranges still to sort and is thrown away when it is full.            *)
(* Indices count from 0 as in the source.  src/valgen/big_rat.c has the    *)
(* same function for the ratings.                                          *)
(***************************************************************************)
EXTENDS Integers, Sequences

CONSTANT MaxStack          \* MAX_STACK

ASSUME QuickSortAssumption == MaxStack \in Nat \ {0}

VARIABLES
    array,     \* g_bb_ds_temp
    left,      \* everything before it is in its final place
    len,       \* end of the range being sorted
    right,     \* the walker of the partitioning
    stack,     \* right ends of the ranges to sort later, the nearest last
    pivot,
    sorting    \* "off", "outer": at the head of the loop, "parting": between two swaps

sortVars == <<array, left, len, right, stack, pivot, sorting>>

\* valence_cmp() < 0: by the second element, then by the first.
Before(a, b) == a.y < b.y \/ (a.y = b.y /\ a.x < b.x)

SortInit ==
    /\ array = <<>> /\ left = 0 /\ len = 0 /\ right = 0
    /\ stack = <<>> /\ pivot = <<>> /\ sorting = "off"

\* The call with the first n elements of the array.
BeginSort(n) ==
    /\ sorting = "off"
    /\ left' = 0 /\ len' = n /\ stack' = <<>>
    /\ sorting' = "outer"
    /\ UNCHANGED <<array, right, pivot>>

\* Mutant: a full stack is emptied, but the range stays.
Pick_KeepsLen ==
    /\ sorting = "outer"
    /\ left + 1 < len
    /\ \E k \in left..len-1 : pivot' = array[k]
    /\ stack' = Append(IF Len(stack) = MaxStack THEN <<>> ELSE stack, len)
    /\ right' = left - 1
    /\ sorting' = "parting"
    /\ UNCHANGED <<array, left, len>>

\* A range of two or more: note its end, choose any element of it as the
\* pivot.  A full stack is emptied, and the sort goes on with everything
\* right of left.
Pick ==
    /\ sorting = "outer"
    /\ left + 1 < len
    /\ LET full == Len(stack) = MaxStack
           end  == IF full THEN stack[1] ELSE len
       IN /\ \E k \in left..end-1 : pivot' = array[k]
          /\ stack' = Append(IF full THEN <<>> ELSE stack, end)
          /\ len' = end
    /\ right' = left - 1
    /\ sorting' = "parting"
    /\ UNCHANGED <<array, left>>

\* Mutant: the walk up does not stop at the pivot itself.
UpStop_PastEqual(r) == r > right /\ Before(pivot, array[r])
                                 /\ \A k \in right+1..r-1 : ~Before(pivot, array[k])

\* The two inner loops.
UpStop(r) == r > right /\ ~Before(array[r], pivot)
                         /\ \A k \in right+1..r-1 : Before(array[k], pivot)
DownStop(l) == l < len /\ ~Before(pivot, array[l])
                       /\ \A k \in l+1..len-1 : Before(pivot, array[k])

Swap ==
    /\ sorting = "parting"
    /\ \E r \in DOMAIN array, l \in DOMAIN array :
          /\ UpStop(r) /\ DownStop(l) /\ r < l
          /\ array' = [array EXCEPT ![r] = array[l], ![l] = array[r]]
          /\ right' = r /\ len' = l
    /\ UNCHANGED <<left, stack, pivot, sorting>>

\* The partition point; len++ is the step of the loop around.
Parted ==
    /\ sorting = "parting"
    /\ \E r \in DOMAIN array, l \in DOMAIN array :
          /\ UpStop(r) /\ DownStop(l) /\ r >= l
          /\ right' = r /\ len' = l + 1
    /\ sorting' = "outer"
    /\ UNCHANGED <<array, left, stack, pivot>>

\* Mutant: the last element of the sorted part is taken for done twice.
Unstack_Skips ==
    /\ sorting = "outer"
    /\ left + 1 >= len
    /\ stack # <<>>
    /\ left' = len + 1
    /\ len' = stack[Len(stack)]
    /\ stack' = SubSeq(stack, 1, Len(stack) - 1)
    /\ UNCHANGED <<array, right, pivot, sorting>>

\* A range of one is sorted: go on with the next on the stack.
Unstack ==
    /\ sorting = "outer"
    /\ left + 1 >= len
    /\ stack # <<>>
    /\ left' = len
    /\ len' = stack[Len(stack)]
    /\ stack' = SubSeq(stack, 1, Len(stack) - 1)
    /\ UNCHANGED <<array, right, pivot, sorting>>

SortStep == Pick \/ Swap \/ Parted \/ Unstack

\* The stack is empty: the function returns, the array is copied and freed.
EndSort ==
    /\ sorting = "outer"
    /\ left + 1 >= len
    /\ stack = <<>>
    /\ sorting' = "off"
    /\ left' = 0 /\ len' = 0 /\ right' = 0 /\ pivot' = <<>>
    /\ UNCHANGED <<array, stack>>
-----------------------------------------------------------------------------

\* The loops that look for something to swap have no bound: each of them
\* finds an element that stops it inside the range being sorted.
ScansStop ==
    sorting = "parting" =>
        /\ \E r \in left..stack[Len(stack)]-1 : UpStop(r)
        /\ \E l \in left..stack[Len(stack)]-1 : DownStop(l)
=============================================================================
