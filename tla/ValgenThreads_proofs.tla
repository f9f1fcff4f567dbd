------------------------ MODULE ValgenThreads_proofs ------------------------
(***************************************************************************)
(* Proofs about ValgenThreads, for any number of threads, any thresholds   *)
(* and any ratings that IsLoad admits.                                     *)
(***************************************************************************)
EXTENDS ValgenThreads, FiniteSetTheorems, SequenceTheorems, WellFoundedInduction, TLAPS

-----------------------------------------------------------------------------
(* Numbers: the quotient, and the ranges of the threads. *)

LEMMA Quotient ==
    ASSUME NEW a \in Nat, NEW b \in Nat \ {0}
    PROVE  /\ a \div b \in Nat
           /\ b * (a \div b) <= a
           /\ a < b * (a \div b) + b
  OBVIOUS

LEMMA Multiples ==
    ASSUME NEW a \in Nat, NEW b \in Nat, NEW c \in Nat, a <= b
    PROVE  a * c <= b * c
  OBVIOUS

(* Every set of naturals has a first member, which FirstIn gives. *)
LEMMA First ==
    ASSUME NEW S, S \subseteq Nat, S # {}
    PROVE  FirstIn(S) \in S /\ \A j \in S : FirstIn(S) <= j
<1>1. \E i \in S : \A j \in S : ~(<<j, i>> \in OpToRel(<, Nat))
  BY NatLessThanWellFounded, WFMin
<1>2. PICK i \in S : \A j \in S : ~(<<j, i>> \in OpToRel(<, Nat))
  BY <1>1
<1>3. \A j \in S : ~(j < i)
  BY <1>2 DEF OpToRel
<1>4. \A j \in S : i <= j
  BY <1>3
<1> QED
  BY <1>4 DEF FirstIn

LEMMA ConstantTypes ==
    /\ NTHREADS \in Nat \ {0} /\ RATINGS_THRESH \in Nat /\ MAX_RATN_FOR_VALGEN \in Nat
    /\ MaxRuns \in Nat
    /\ Threads \subseteq Nat
    /\ \A f \in Loads : IsLoad(f)
  BY ValgenAssumption DEF Threads

LEMMA RangeTypes ==
    ASSUME load \in Loads
    PROVE  /\ load.num_elts \in Nat \ {0}
           /\ EltsPerThread \in Nat
           /\ NTHREADS * EltsPerThread <= load.num_elts
           /\ load.num_elts < NTHREADS * EltsPerThread + NTHREADS
           /\ \A t \in Threads : StartElt(t) \in Nat \ {0} /\ EndElt(t) \in Nat
<1>1. load.num_elts \in Nat \ {0}
  BY ConstantTypes DEF IsLoad
<1>2. NTHREADS \in Nat \ {0}
  BY ConstantTypes
<1>3. /\ EltsPerThread \in Nat
      /\ NTHREADS * EltsPerThread <= load.num_elts
      /\ load.num_elts < NTHREADS * EltsPerThread + NTHREADS
  BY <1>1, <1>2, Quotient DEF EltsPerThread
<1>4. ASSUME NEW t \in Threads PROVE StartElt(t) \in Nat \ {0} /\ EndElt(t) \in Nat
  BY <1>1, <1>2, <1>3 DEF StartElt, EndElt, Threads
<1> QED
  BY <1>1, <1>3, <1>4

(* A range starts where the range before it ends; the last ends the elements. *)
LEMMA Ranges ==
    ASSUME load \in Loads
    PROVE  /\ StartElt(0) = 1
           /\ \A t \in Threads : StartElt(t) <= EndElt(t) /\ EndElt(t) <= load.num_elts + 1
           /\ \A t \in Threads : t + 1 \in Threads => EndElt(t) = StartElt(t + 1)
           /\ \A t \in Threads : t + 1 \notin Threads => EndElt(t) = load.num_elts + 1
           /\ \A s, t \in Threads : s < t => EndElt(s) <= StartElt(t)
<1> DEFINE e == EltsPerThread
           n == load.num_elts
<1>1. /\ n \in Nat \ {0} /\ e \in Nat /\ NTHREADS * e <= n
      /\ NTHREADS \in Nat \ {0}
  BY RangeTypes, ConstantTypes
<1>2. \A t : StartElt(t) = t * e + 1
  BY DEF StartElt
<1>3. \A t : EndElt(t) = IF t = NTHREADS - 1 THEN n + 1 ELSE StartElt(t) + e
  BY DEF EndElt
<1> HIDE DEF e, n
<1>next. \A t \in Nat : (t + 1) * e = t * e + e /\ t * e \in Nat
  BY <1>1
<1>4. StartElt(0) = 1
  BY <1>1, <1>2
<1>5. ASSUME NEW t \in Nat, t < NTHREADS PROVE t * e + e <= n
  <2>1. t * e + e = (t + 1) * e
    BY <1>next
  <2>2. (t + 1) * e <= NTHREADS * e
    BY <1>1, <1>5, Multiples
  <2> QED
    BY <1>1, <2>1, <2>2
<1>6. ASSUME NEW t \in Threads PROVE StartElt(t) <= EndElt(t) /\ EndElt(t) <= n + 1
  BY <1>1, <1>2, <1>3, <1>5 DEF Threads
<1>7. ASSUME NEW t \in Threads, t + 1 \in Threads PROVE EndElt(t) = StartElt(t + 1)
  BY <1>1, <1>2, <1>3, <1>7, <1>next DEF Threads
<1>8. ASSUME NEW t \in Threads, t + 1 \notin Threads PROVE EndElt(t) = n + 1
  BY <1>1, <1>3, <1>8 DEF Threads
<1>9. ASSUME NEW s \in Threads, NEW t \in Threads, s < t PROVE EndElt(s) <= StartElt(t)
  <2>1. EndElt(s) = (s + 1) * e + 1
    BY <1>1, <1>2, <1>3, <1>9, <1>next DEF Threads
  <2>2. (s + 1) * e <= t * e
    BY <1>1, <1>9, Multiples DEF Threads
  <2> QED
    BY <1>1, <1>2, <2>1, <2>2 DEF Threads
<1> QED
  BY <1>4, <1>6, <1>7, <1>8, <1>9 DEF n

(* Every element is in the range of one thread and of no other. *)
LEMMA Cover ==
    ASSUME load \in Loads
    PROVE  ExactCover
<1> DEFINE e == EltsPerThread
           n == load.num_elts
           z == NTHREADS - 1
<1>1. /\ n \in Nat \ {0} /\ e \in Nat
      /\ NTHREADS \in Nat \ {0} /\ z \in Nat /\ z \in Threads
  BY RangeTypes, ConstantTypes DEF Threads
<1>2. \A t : StartElt(t) = t * e + 1
  BY DEF StartElt
<1>3. \A t : EndElt(t) = IF t = z THEN n + 1 ELSE StartElt(t) + e
  BY DEF EndElt
<1>4. \A t \in Threads : StartElt(t) \in Nat /\ EndElt(t) \in Nat
  BY RangeTypes
<1>5. \A s, t \in Threads : s < t => EndElt(s) <= StartElt(t)
  BY Ranges
<1> HIDE DEF e, n, z
<1> SUFFICES ASSUME NEW x \in 1..n
             PROVE  \E t \in Threads : Owns(t, x) /\ \A s \in Threads : Owns(s, x) => s = t
  BY DEF ExactCover, n
<1>6. \E t \in Threads : Owns(t, x)
  <2>1. CASE StartElt(z) <= x
    BY <1>1, <1>3, <2>1 DEF Owns
  <2>2. CASE x < StartElt(z)
    <3>1. x - 1 < z * e /\ z * e \in Nat /\ x - 1 \in Nat
      BY <1>1, <1>2, <2>2
    <3>2. e \in Nat \ {0}
      BY <1>1, <3>1
    <3> DEFINE t == (x - 1) \div e
    <3>3. t \in Nat /\ e * t <= x - 1 /\ x - 1 < e * t + e
      BY <3>1, <3>2, Quotient
    <3>4. t < z
      BY <1>1, <3>1, <3>2, <3>3
    <3>5. t \in Threads
      BY <1>1, <3>3, <3>4 DEF Threads, z
    <3> HIDE DEF t
    <3>6. StartElt(t) = e * t + 1 /\ EndElt(t) = e * t + 1 + e
      <4>1. t * e = e * t
        BY <1>1, <3>3
      <4>2. t # z
        BY <1>1, <3>3, <3>4
      <4> QED
        BY <1>2, <1>3, <4>1, <4>2
    <3>7. Owns(t, x)
      BY <3>2, <3>3, <3>6 DEF Owns
    <3> QED
      BY <3>5, <3>7
  <2> QED
    BY <1>1, <1>4, <2>1, <2>2
<1>7. ASSUME NEW s \in Threads, NEW t \in Threads, Owns(s, x), Owns(t, x)
      PROVE  s = t
  <2>1. s \in Int /\ t \in Int
    BY ConstantTypes
  <2> QED
    BY <1>4, <1>5, <1>7, <2>1 DEF Owns
<1> QED
  BY <1>6, <1>7

-----------------------------------------------------------------------------
(* The sorted ratings. *)

LEMMA RatingTypes ==
    ASSUME load \in Loads
    PROVE  /\ NumRatings \in Nat
           /\ Len(load.brds) = NumRatings
           /\ \A i \in 1..NumRatings :
                /\ load.br[i].userId \in Nat \ {0} /\ load.br[i].eltid \in Nat \ {0}
                /\ load.brds[i].userId \in Nat \ {0} /\ load.brds[i].eltid \in 1..load.num_elts
           /\ \A x \in 1..load.num_elts : \E i \in 1..NumRatings : load.brds[i].eltid = x
<1>1. /\ load.br \in Seq(Rating) /\ load.brds \in Seq(Rating)
      /\ Len(load.br) = Len(load.brds)
      /\ {load.brds[i].eltid : i \in 1..Len(load.brds)} = 1..load.num_elts
  BY ConstantTypes DEF IsLoad
<1>2. Len(load.br) \in Nat
  BY <1>1
<1>3. \A i \in 1..NumRatings : load.br[i] \in Rating /\ load.brds[i] \in Rating
  BY <1>1, <1>2 DEF NumRatings
<1> QED
  BY <1>1, <1>2, <1>3 DEF NumRatings, Rating

LEMMA BothSorted ==
    ASSUME load \in Loads, NEW i \in 1..NumRatings, NEW j \in 1..NumRatings, i <= j
    PROVE  /\ load.br[i].userId <= load.br[j].userId
           /\ load.br[i].userId = load.br[j].userId => load.br[i].eltid <= load.br[j].eltid
           /\ load.brds[i].eltid <= load.brds[j].eltid
<1>1. /\ load.br[i].userId \in Nat /\ load.br[i].eltid \in Nat /\ load.brds[i].eltid \in Nat
      /\ load.br[j].userId \in Nat /\ load.br[j].eltid \in Nat /\ load.brds[j].eltid \in Nat
      /\ NumRatings \in Nat
  BY RatingTypes
<1>2. CASE i = j
  BY <1>1, <1>2
<1>3. CASE i < j
  <2>1. ByUser(load.br[i], load.br[j]) /\ ByElt(load.brds[i], load.brds[j])
    BY <1>3, ConstantTypes DEF IsLoad, NumRatings
  <2> QED
    BY <1>1, <2>1 DEF ByUser, ByElt
<1> QED
  BY <1>1, <1>2, <1>3

(* A person in brds is in br. *)
LEMMA SameRatings ==
    ASSUME load \in Loads, NEW i \in 1..NumRatings
    PROVE  \E k \in 1..NumRatings : load.br[k] = load.brds[i]
<1> DEFINE r == load.brds[i]
           B == {k \in DOMAIN load.br : load.br[k] = r}
           D == {k \in DOMAIN load.brds : load.brds[k] = r}
<1>1. NumRatings \in Nat /\ Len(load.brds) = NumRatings
  BY RatingTypes
<1>2. load.br \in Seq(Rating) /\ load.brds \in Seq(Rating)
  BY ConstantTypes DEF IsLoad
<1>3. DOMAIN load.br = 1..NumRatings /\ DOMAIN load.brds = 1..NumRatings
  BY <1>1, <1>2 DEF NumRatings
<1>4. Cardinality(B) = Cardinality(D)
  <2>1. IsLoad(load)
    BY ConstantTypes
  <2>2. \A h \in DOMAIN load.brds :
          Cardinality({k \in DOMAIN load.br : load.br[k] = load.brds[h]})
            = Cardinality({k \in DOMAIN load.brds : load.brds[k] = load.brds[h]})
    BY <2>1, Zenon DEF IsLoad
  <2>3. i \in DOMAIN load.brds
    BY <1>3
  <2> QED
    BY <2>2, <2>3, Zenon
<1>5. IsFiniteSet(1..NumRatings)
  BY <1>1, FS_Interval
<1>6. IsFiniteSet(B) /\ IsFiniteSet(D)
  BY <1>3, <1>5, FS_Subset
<1>7. i \in D
  BY <1>3
<1>8. Cardinality(D) # 0
  BY <1>6, <1>7, FS_EmptySet
<1>9. B # {}
  BY <1>4, <1>6, <1>8, FS_EmptySet
<1> QED
  BY <1>3, <1>9

(* The rows of x in brds are those from FirstOf(x) to before AfterOf(x). *)
AfterOf(x) == IF x = load.num_elts THEN NumRatings + 1 ELSE FirstOf(x + 1)

LEMMA FirstRowOf ==
    ASSUME load \in Loads, NEW x \in 1..load.num_elts
    PROVE  /\ FirstOf(x) \in 1..NumRatings
           /\ load.brds[FirstOf(x)].eltid = x
           /\ \A i \in 1..NumRatings : load.brds[i].eltid = x => FirstOf(x) <= i
<1> DEFINE S == {i \in 1..NumRatings : load.brds[i].eltid = x}
<1>1. S \subseteq Nat
  OBVIOUS
<1>2. S # {}
  BY RatingTypes
<1>3. FirstOf(x) \in S /\ \A j \in S : FirstOf(x) <= j
  BY <1>1, <1>2, First DEF FirstOf
<1> QED
  BY <1>3

LEMMA RowsOf ==
    ASSUME load \in Loads, NEW x \in 1..load.num_elts, NEW i \in 1..NumRatings
    PROVE  /\ load.brds[i].eltid < x <=> i < FirstOf(x)
           /\ load.brds[i].eltid = x <=> FirstOf(x) <= i /\ i < AfterOf(x)
<1>1. /\ load.num_elts \in Nat /\ NumRatings \in Nat
      /\ \A k \in 1..NumRatings : load.brds[k].eltid \in 1..load.num_elts
  BY RangeTypes, RatingTypes
<1>2. ASSUME NEW y \in 1..load.num_elts
      PROVE  /\ FirstOf(y) \in 1..NumRatings
             /\ load.brds[i].eltid < y <=> i < FirstOf(y)
  <2>1. /\ FirstOf(y) \in 1..NumRatings /\ load.brds[FirstOf(y)].eltid = y
        /\ load.brds[i].eltid = y => FirstOf(y) <= i
    BY FirstRowOf
  <2>2. i <= FirstOf(y) => load.brds[i].eltid <= y
    BY <2>1, BothSorted
  <2>3. FirstOf(y) <= i => y <= load.brds[i].eltid
    BY <2>1, BothSorted
  <2> QED
    BY <1>1, <2>1, <2>2, <2>3
<1>3. load.brds[i].eltid < x <=> i < FirstOf(x)
  BY <1>2
<1>4. CASE x = load.num_elts
  BY <1>1, <1>2, <1>4 DEF AfterOf
<1>5. CASE x # load.num_elts
  <2>1. x + 1 \in 1..load.num_elts
    BY <1>1, <1>5
  <2>2. AfterOf(x) = FirstOf(x + 1)
    BY <1>5 DEF AfterOf
  <2>3. load.brds[i].eltid < x + 1 <=> i < FirstOf(x + 1)
    BY <1>2, <2>1
  <2> QED
    BY <1>1, <1>2, <2>1, <2>2, <2>3
<1> QED
  BY <1>3, <1>4, <1>5

-----------------------------------------------------------------------------
(* The walks of build_pairs(). *)

(* A walker that has not passed x goes to x's rows, and then past them. *)
LEMMA WalkOver ==
    ASSUME load \in Loads, NEW x \in 1..load.num_elts,
           NEW w \in 1..(NumRatings + 1), w <= FirstOf(x)
    PROVE  /\ CaughtUp(w, x) = FirstOf(x)
           /\ Rows(w, x) = FirstOf(x)..(AfterOf(x) - 1)
           /\ Walked(w, x) = AfterOf(x)
           /\ AfterOf(x) \in 1..(NumRatings + 1)
<1> DEFINE S == {i \in w..(NumRatings + 1) : i <= NumRatings => load.brds[i].eltid >= x}
<1>1. /\ NumRatings \in Nat /\ load.num_elts \in Nat /\ FirstOf(x) \in 1..NumRatings
      /\ \A i \in 1..NumRatings : load.brds[i].eltid \in Nat
  BY RatingTypes, RangeTypes, FirstRowOf
<1>2. \A i \in 1..NumRatings : load.brds[i].eltid < x <=> i < FirstOf(x)
  BY RowsOf
<1>3. CaughtUp(w, x) = FirstOf(x)
  <2>1. FirstOf(x) \in S
    BY <1>1, <1>2
  <2>2. \A j \in S : FirstOf(x) <= j
    BY <1>1, <1>2
  <2>3. S \subseteq Nat
    BY <1>1
  <2>4. FirstIn(S) \in S /\ \A j \in S : FirstIn(S) <= j
    BY <2>1, <2>3, First
  <2> HIDE DEF S
  <2>5. FirstIn(S) = FirstOf(x)
    <3>1. FirstIn(S) \in Nat
      BY <2>3, <2>4, Zenon
    <3>2. FirstOf(x) \in Nat
      BY <1>1
    <3>3. FirstIn(S) <= FirstOf(x) /\ FirstOf(x) <= FirstIn(S)
      BY <2>1, <2>2, <2>4, Zenon
    <3> QED
      BY <3>1, <3>2, <3>3
  <2> USE DEF S
  <2> QED
    BY <2>5 DEF CaughtUp
<1>4. FirstOf(x) < AfterOf(x) /\ AfterOf(x) \in 1..(NumRatings + 1)
  <2>1. CASE x = load.num_elts
    BY <1>1, <2>1 DEF AfterOf
  <2>2. CASE x # load.num_elts
    <3>1. AfterOf(x) = FirstOf(x + 1) /\ x + 1 \in 1..load.num_elts
      BY <1>1, <2>2 DEF AfterOf
    <3>2. FirstOf(x + 1) \in 1..NumRatings /\ load.brds[FirstOf(x + 1)].eltid = x + 1
      BY <3>1, FirstRowOf
    <3>3. load.brds[FirstOf(x)].eltid < x + 1 <=> FirstOf(x) < FirstOf(x + 1)
      BY <1>1, <3>1, RowsOf
    <3> QED
      BY <1>1, <3>1, <3>2, <3>3, FirstRowOf
  <2> QED
    BY <2>1, <2>2
<1>5. \A i \in 1..NumRatings : load.brds[i].eltid = x <=> FirstOf(x) <= i /\ i < AfterOf(x)
  BY RowsOf
<1>6. Rows(w, x) = FirstOf(x)..(AfterOf(x) - 1)
  <2>1. Rows(w, x) = {i \in FirstOf(x)..NumRatings :
                        \A h \in FirstOf(x)..i : load.brds[h].eltid = x}
    BY <1>3 DEF Rows
  <2>2. ASSUME NEW i \in FirstOf(x)..NumRatings
        PROVE  (\A h \in FirstOf(x)..i : load.brds[h].eltid = x) <=> i < AfterOf(x)
    BY <1>1, <1>4, <1>5
  <2> QED
    BY <1>1, <1>4, <2>1, <2>2
<1>7. Cardinality(Rows(w, x)) = AfterOf(x) - FirstOf(x)
  <2>1. FirstOf(x) \in Int /\ AfterOf(x) - 1 \in Int /\ ~(FirstOf(x) > AfterOf(x) - 1)
    BY <1>1, <1>4
  <2>2. Cardinality(FirstOf(x)..(AfterOf(x) - 1)) = (AfterOf(x) - 1) - FirstOf(x) + 1
    BY <2>1, FS_Interval
  <2> QED
    BY <1>1, <1>4, <1>6, <2>2
<1>8. Walked(w, x) = AfterOf(x)
  BY <1>1, <1>3, <1>4, <1>7 DEF Walked
<1> QED
  BY <1>3, <1>4, <1>6, <1>8

(* For a person who rated x, the second walk finds the ratings past x. *)
LEMMA UserWalk ==
    ASSUME load \in Loads, NEW i \in 1..NumRatings, NEW k \in 1..NumRatings
    PROVE  LET u == load.brds[i].userId
               x == load.brds[i].eltid
           IN  k \in UserRows(u, x) /\ load.br[k].eltid # x
                 <=> load.br[k].userId = u /\ x < load.br[k].eltid
<1> DEFINE u == load.brds[i].userId
           x == load.brds[i].eltid
           U == {h \in 1..NumRatings : load.br[h].userId = u}
           S == {h \in BrIndex(u)..NumRatings : load.br[h].eltid > x \/ h = NumRatings}
           s == SecondRow(u, x)
<1>1. /\ NumRatings \in Nat /\ u \in Nat /\ x \in Nat
      /\ \A h \in 1..NumRatings : load.br[h].userId \in Nat /\ load.br[h].eltid \in Nat
  BY RatingTypes, RangeTypes
<1>2. PICK c \in 1..NumRatings : load.br[c] = load.brds[i]
  BY SameRatings
<1>3. c \in U /\ U \subseteq Nat
  BY <1>2
<1>4. BrIndex(u) \in U /\ \A h \in U : BrIndex(u) <= h
  BY <1>3, First DEF BrIndex
<1>5. NumRatings \in S /\ S \subseteq Nat
  BY <1>1, <1>4
<1>6. s \in S /\ \A h \in S : s <= h
  BY <1>5, First DEF SecondRow
<1>7. UserRows(u, x) = {h \in s..NumRatings : \A g \in s..h : load.br[g].userId = u}
  BY DEF UserRows
<1> HIDE DEF s
<1>8. s \in 1..NumRatings /\ BrIndex(u) <= s /\ (load.br[s].eltid > x \/ s = NumRatings)
  BY <1>1, <1>4, <1>6
<1>9. ASSUME load.br[k].userId = u, x < load.br[k].eltid
      PROVE  k \in UserRows(u, x) /\ load.br[k].eltid # x
  <2>1. k \in S
    BY <1>1, <1>4, <1>9
  <2>2. s <= k
    BY <1>6, <2>1
  <2>3. ASSUME NEW g \in s..k PROVE load.br[g].userId = u
    <3>1. g \in 1..NumRatings /\ BrIndex(u) <= g /\ g <= k /\ BrIndex(u) \in 1..NumRatings
      BY <1>1, <1>4, <1>8
    <3>2. load.br[BrIndex(u)].userId <= load.br[g].userId
      BY <3>1, BothSorted
    <3>3. load.br[g].userId <= load.br[k].userId
      BY <3>1, BothSorted
    <3> QED
      BY <1>1, <1>4, <1>9, <3>1, <3>2, <3>3
  <2> QED
    BY <1>1, <1>7, <1>8, <1>9, <2>2, <2>3
<1>10. ASSUME k \in UserRows(u, x), load.br[k].eltid # x
       PROVE  load.br[k].userId = u /\ x < load.br[k].eltid
  <2>1. s <= k /\ \A g \in s..k : load.br[g].userId = u
    BY <1>7, <1>10
  <2>2. load.br[k].userId = u /\ load.br[s].userId = u
    BY <1>1, <1>8, <2>1
  <2>3. CASE load.br[s].eltid > x
    <3>1. load.br[s].eltid <= load.br[k].eltid
      BY <1>8, <2>1, <2>2, BothSorted
    <3> QED
      BY <1>1, <1>8, <2>2, <2>3, <3>1
  <2>4. CASE s = NumRatings
    <3>1. k = s /\ c <= s
      BY <1>1, <1>8, <2>1, <2>4
    <3>2. load.br[c].eltid <= load.br[s].eltid
      BY <1>2, <1>8, <2>2, <3>1, BothSorted
    <3> QED
      BY <1>1, <1>2, <1>10, <2>2, <3>1, <3>2
  <2> QED
    BY <1>8, <2>3, <2>4
<1> QED
  BY <1>9, <1>10

(* What build_pairs() finds is what the pair has in common. *)
LEMMA PairsFound ==
    ASSUME load \in Loads, NEW x \in 1..load.num_elts, NEW y \in Nat,
           NEW w \in 1..(NumRatings + 1), w <= FirstOf(x)
    PROVE  {p \in Pairs(w, x) : load.br[p[2]].eltid = y}
             = IF x < y THEN CommonRatings(x, y) ELSE {}
<1> DEFINE Found == {p \in Pairs(w, x) : load.br[p[2]].eltid = y}
<1>1. /\ NumRatings \in Nat /\ load.num_elts \in Nat /\ FirstOf(x) \in 1..NumRatings
  BY RatingTypes, RangeTypes, FirstRowOf
<1>2. Rows(w, x) = {i \in 1..NumRatings : load.brds[i].eltid = x}
  <2>1. Rows(w, x) = FirstOf(x)..(AfterOf(x) - 1) /\ AfterOf(x) \in 1..(NumRatings + 1)
    BY WalkOver
  <2>2. \A i \in 1..NumRatings : load.brds[i].eltid = x <=> FirstOf(x) <= i /\ i < AfterOf(x)
    BY RowsOf
  <2> QED
    BY <1>1, <2>1, <2>2
<1>3. ASSUME NEW i \in 1..NumRatings, load.brds[i].eltid = x, NEW k
      PROVE  k \in UserRows(load.brds[i].userId, x) /\ load.br[k].eltid # x
               <=> k \in 1..NumRatings /\ load.br[k].userId = load.brds[i].userId
                     /\ x < load.br[k].eltid
  <2>1. ASSUME k \in UserRows(load.brds[i].userId, x) PROVE k \in 1..NumRatings
    <3> DEFINE u == load.brds[i].userId
               U == {h \in 1..NumRatings : load.br[h].userId = u}
               S == {h \in BrIndex(u)..NumRatings : load.br[h].eltid > x \/ h = NumRatings}
    <3>1. U \subseteq Nat /\ U # {}
      BY SameRatings
    <3>2. BrIndex(u) \in 1..NumRatings
      BY <3>1, First DEF BrIndex
    <3>3. S \subseteq Nat /\ S # {}
      BY <1>1, <3>2
    <3>4. SecondRow(u, x) \in 1..NumRatings
      <4>1. SecondRow(u, x) \in S
        BY <3>3, First DEF SecondRow
      <4> QED
        BY <1>1, <3>2, <4>1
    <3> QED
      BY <1>1, <2>1, <3>4 DEF UserRows
  <2> QED
    BY <1>3, <2>1, UserWalk
<1>4. ASSUME NEW p
      PROVE  p \in Found <=> x < y /\ p \in CommonRatings(x, y)
  <2>1. ASSUME p \in Found PROVE x < y /\ p \in CommonRatings(x, y)
    <3>1. PICK i \in Rows(w, x) :
            \E k \in UserRows(load.brds[i].userId, x) :
                p = <<i, k>> /\ load.br[k].eltid # x
      BY <2>1 DEF Pairs
    <3>2. PICK k \in UserRows(load.brds[i].userId, x) :
                p = <<i, k>> /\ load.br[k].eltid # x
      BY <3>1
    <3>3. i \in 1..NumRatings /\ load.brds[i].eltid = x
      BY <1>2
    <3>4. k \in 1..NumRatings /\ load.br[k].userId = load.brds[i].userId /\ x < load.br[k].eltid
      BY <1>3, <3>2, <3>3
    <3>5. p[1] = i /\ p[2] = k
      BY <3>2
    <3>6. load.br[k].eltid = y
      BY <2>1, <3>5
    <3>7. p \in (1..NumRatings) \X (1..NumRatings)
      BY <3>2, <3>3, <3>4
    <3> QED
      BY <3>3, <3>4, <3>5, <3>6, <3>7 DEF CommonRatings
  <2>2. ASSUME x < y, p \in CommonRatings(x, y) PROVE p \in Found
    <3>1. PICK i \in 1..NumRatings, k \in 1..NumRatings : p = <<i, k>>
      BY <2>2 DEF CommonRatings
    <3>2. p[1] = i /\ p[2] = k
      BY <3>1
    <3>3. /\ load.brds[i].eltid = x /\ load.br[k].eltid = y
          /\ load.brds[i].userId = load.br[k].userId
      BY <2>2, <3>2 DEF CommonRatings
    <3>4. k \in UserRows(load.brds[i].userId, x) /\ load.br[k].eltid # x
      BY <1>3, <2>2, <3>3
    <3>5. i \in Rows(w, x)
      BY <1>2, <3>3
    <3>6. p \in Pairs(w, x)
      BY <3>1, <3>4, <3>5 DEF Pairs
    <3> QED
      BY <3>2, <3>3, <3>6
  <2> QED
    BY <2>1, <2>2
<1> QED
  BY <1>4

LEMMA LinesAreValences ==
    ASSUME load \in Loads, NEW x \in 1..load.num_elts,
           NEW w \in 1..(NumRatings + 1), w <= FirstOf(x)
    PROVE  Lines(w, x) = Valences(x)
<1> DEFINE Y == 1..(load.num_elts - 1)
<1>1. /\ load.num_elts \in Nat /\ MAX_RATN_FOR_VALGEN \in Nat /\ RATINGS_THRESH \in Nat
  BY RangeTypes, ConstantTypes
<1>2. \A n : Stored(n) = AtMost(n, MAX_RATN_FOR_VALGEN)
  BY DEF Stored, AtMost
<1>3. ASSUME NEW y \in Y, x < y PROVE NumRat(w, x, y) = NumCommon(x, y)
  <2>1. {p \in Pairs(w, x) : load.br[p[2]].eltid = y} = CommonRatings(x, y)
    BY <1>3, PairsFound
  <2> QED
    BY <1>2, <2>1 DEF NumRat, NumCommon
<1>4. ASSUME NEW y \in Y, ~(x < y) PROVE NumRat(w, x, y) = 0
  <2>1. {p \in Pairs(w, x) : load.br[p[2]].eltid = y} = {}
    BY <1>4, PairsFound
  <2>2. NumRat(w, x, y) = Stored(0)
    BY <2>1, FS_EmptySet DEF NumRat
  <2> QED
    BY <1>1, <2>2 DEF Stored
<1>5. ASSUME NEW y \in Y
      PROVE  NumRat(w, x, y) > RATINGS_THRESH /\ <<x, y>> \in load.confident <=> IsValence(x, y)
  BY <1>1, <1>3, <1>4 DEF IsValence
<1>6. \A y \in Y : IsValence(x, y) => NumRat(w, x, y) = NumCommon(x, y)
  BY <1>3 DEF IsValence
<1>7. Lines(w, x) = {<<y, NumRat(w, x, y)>> : y \in {y \in Y : IsValence(x, y)}}
  BY <1>5 DEF Lines
<1>8. {<<y, NumRat(w, x, y)>> : y \in {y \in Y : IsValence(x, y)}}
        = {<<y, NumCommon(x, y)>> : y \in {y \in Y : IsValence(x, y)}}
  BY <1>6
<1> QED
  BY <1>7, <1>8 DEF Valences

-----------------------------------------------------------------------------
(* Types: a block is a finite set of lines. *)

LEMMA ValencesType ==
    ASSUME load \in Loads, NEW x \in 1..load.num_elts
    PROVE  Valences(x) \in {S \in SUBSET (Nat \X Nat) : IsFiniteSet(S)}
<1> DEFINE Y == {y \in 1..(load.num_elts - 1) : IsValence(x, y)}
           f == [y \in Y |-> <<y, NumCommon(x, y)>>]
<1>1. load.num_elts \in Nat \ {0} /\ NumRatings \in Nat /\ MAX_RATN_FOR_VALGEN \in Nat
  BY RangeTypes, RatingTypes, ConstantTypes
<1>2. ASSUME NEW y PROVE NumCommon(x, y) \in Nat
  <2>1. IsFiniteSet((1..NumRatings) \X (1..NumRatings))
    <3>1. IsFiniteSet(1..NumRatings)
      BY <1>1, FS_Interval
    <3> QED
      BY <3>1, FS_Product
  <2>2. CommonRatings(x, y) \subseteq (1..NumRatings) \X (1..NumRatings)
    BY DEF CommonRatings
  <2>3. IsFiniteSet(CommonRatings(x, y))
    BY <2>1, <2>2, FS_Subset
  <2>4. Cardinality(CommonRatings(x, y)) \in Nat
    BY <2>3, FS_CardinalityType
  <2> QED
    BY <1>1, <2>4 DEF NumCommon, AtMost
<1>3. IsFiniteSet(Y)
  <2>1. IsFiniteSet(1..(load.num_elts - 1))
    BY <1>1, FS_Interval
  <2> QED
    BY <2>1, FS_Subset
<1>4. Valences(x) = {<<y, NumCommon(x, y)>> : y \in Y}
  BY DEF Valences
<1>5. f \in Surjection(Y, Valences(x))
  BY <1>4 DEF Surjection
<1>6. IsFiniteSet(Valences(x))
  BY <1>3, <1>5, FS_Surjection
<1>7. Valences(x) \subseteq Nat \X Nat
  BY <1>2, <1>4
<1> QED
  BY <1>6, <1>7

LEMMA LinesAreFinite ==
    ASSUME NEW blocks \in Seq(BlockType)
    PROVE  Cardinality(FileLines(blocks)) \in Nat
<1> DEFINE Of(i) == {<<i, l>> : l \in blocks[i].lines}
           All == {Of(i) : i \in 1..Len(blocks)}
           g == [i \in 1..Len(blocks) |-> Of(i)]
<1>1. ASSUME NEW i \in 1..Len(blocks) PROVE IsFiniteSet(Of(i))
  <2> DEFINE f == [l \in blocks[i].lines |-> <<i, l>>]
  <2>1. blocks[i] \in BlockType
    OBVIOUS
  <2>2. IsFiniteSet(blocks[i].lines)
    BY <2>1 DEF BlockType
  <2>3. f \in Surjection(blocks[i].lines, Of(i))
    BY DEF Surjection
  <2> QED
    BY <2>2, <2>3, FS_Surjection
<1>2. IsFiniteSet(All)
  <2>1. IsFiniteSet(1..Len(blocks))
    BY FS_Interval
  <2>2. g \in Surjection(1..Len(blocks), All)
    BY DEF Surjection
  <2> QED
    BY <2>1, <2>2, FS_Surjection
<1>3. \A T \in All : IsFiniteSet(T)
  BY <1>1
<1>4. IsFiniteSet(UNION All)
  BY <1>2, <1>3, FS_UNION
<1>5. FileLines(blocks) = UNION All
  BY DEF FileLines
<1> QED
  BY <1>4, <1>5, FS_CardinalityType

(* Nothing about the load changes while the load does not. *)
LEMMA SameLoad ==
    ASSUME load' = load
    PROVE  /\ NumRatings' = NumRatings
           /\ \A t : StartElt(t)' = StartElt(t)
           /\ \A t : EndElt(t)' = EndElt(t)
           /\ \A x : FirstOf(x)' = FirstOf(x)
           /\ \A x : Valences(x)' = Valences(x)
<1>1. NumRatings' = NumRatings
  BY DEF NumRatings
<1>2. EltsPerThread' = EltsPerThread
  BY DEF EltsPerThread
<1>3. ASSUME NEW t PROVE StartElt(t)' = StartElt(t) /\ EndElt(t)' = EndElt(t)
  BY <1>2 DEF StartElt, EndElt
<1>4. ASSUME NEW x PROVE FirstOf(x)' = FirstOf(x)
  BY DEF FirstOf, FirstIn, NumRatings
<1>5. ASSUME NEW x, NEW y PROVE CommonRatings(x, y)' = CommonRatings(x, y)
  BY DEF CommonRatings, NumRatings
<1>6. ASSUME NEW x, NEW y
      PROVE  NumCommon(x, y)' = NumCommon(x, y) /\ IsValence(x, y)' = IsValence(x, y)
  BY <1>5 DEF NumCommon, IsValence
<1>7. ASSUME NEW x PROVE Valences(x)' = Valences(x)
  BY <1>6 DEF Valences
<1> QED
  BY <1>1, <1>3, <1>4, <1>7

(***************************************************************************)
(* Where the threads are: in their ranges, and no walker past the ratings  *)
(* of the x that comes next.                                               *)
(***************************************************************************)
Positions ==
    phase = "threads" =>
        \A t \in Threads :
            /\ StartElt(t) <= el1[t] /\ el1[t] <= EndElt(t)
            /\ el1[t] < EndElt(t) => walker[t] <= FirstOf(el1[t])

(* The block that a thread appends is the right one. *)
Good(x) == [x |-> x, lines |-> Valences(x)]

LEMMA ComputedBlock ==
    ASSUME TypeOK, Positions, NEW t \in Threads, phase = "threads", el1[t] < EndElt(t)
    PROVE  /\ el1[t] \in 1..load.num_elts
           /\ Block(walker[t], el1[t]) = Good(el1[t])
           /\ Good(el1[t]) \in BlockType
           /\ Walked(walker[t], el1[t]) \in 1..(NumRatings + 1)
           /\ el1[t] + 1 <= load.num_elts => Walked(walker[t], el1[t]) = FirstOf(el1[t] + 1)
<1>1. load \in Loads /\ el1[t] \in 1..(load.num_elts + 1) /\ walker[t] \in 1..(NumRatings + 1)
  BY DEF TypeOK
<1>2. load.num_elts \in Nat \ {0} /\ EndElt(t) \in Nat /\ EndElt(t) <= load.num_elts + 1
  BY <1>1, RangeTypes, Ranges
<1>3. el1[t] \in 1..load.num_elts
  BY <1>1, <1>2
<1>4. walker[t] <= FirstOf(el1[t])
  BY DEF Positions
<1>5. Lines(walker[t], el1[t]) = Valences(el1[t])
  BY <1>1, <1>3, <1>4, LinesAreValences
<1>6. Valences(el1[t]) \in {S \in SUBSET (Nat \X Nat) : IsFiniteSet(S)}
  BY <1>1, <1>3, ValencesType
<1>7. Good(el1[t]) \in BlockType
  BY <1>3, <1>6 DEF Good, BlockType
<1>8. /\ Walked(walker[t], el1[t]) = AfterOf(el1[t])
      /\ AfterOf(el1[t]) \in 1..(NumRatings + 1)
  BY <1>1, <1>3, <1>4, WalkOver
<1> QED
  BY <1>2, <1>3, <1>5, <1>7, <1>8 DEF Block, Good, AfterOf

-----------------------------------------------------------------------------
(* What is known of the next state's load, which Start chooses. *)

LoadFacts ==
    /\ load.num_elts \in Nat \ {0} /\ NumRatings \in Nat
    /\ \A t \in Threads : StartElt(t) \in Nat \ {0} /\ EndElt(t) \in Nat
    /\ \A t \in Threads : StartElt(t) <= EndElt(t) /\ EndElt(t) <= load.num_elts + 1
    /\ \A x \in 1..load.num_elts : FirstOf(x) \in Nat \ {0}

LEMMA LoadHasFacts == load \in Loads => LoadFacts
  BY RangeTypes, RatingTypes, Ranges, FirstRowOf DEF LoadFacts

LEMMA NextLoadHasFacts == (load \in Loads)' => LoadFacts'
  BY LoadHasFacts, PTL

(* Types and positions are one inductive invariant. *)

TypeInv == TypeOK /\ Positions

LEMMA TypeInvInit == Init => TypeInv
<1> SUFFICES ASSUME Init PROVE TypeInv
  OBVIOUS
<1>1. load \in Loads
  BY DEF Init
<1>2. load.num_elts \in Nat \ {0} /\ NumRatings \in Nat
  BY <1>1, RangeTypes, RatingTypes
<1>3. TypeOK
  BY <1>1, <1>2, ConstantTypes DEF Init, TypeOK
<1> QED
  BY <1>3 DEF Init, TypeInv, Positions

LEMMA StartTypeInv == ASSUME TypeInv, Start PROVE TypeInv'
<1>1. load' \in Loads
  BY DEF Start
<1>2. /\ load'.num_elts \in Nat \ {0} /\ NumRatings' \in Nat
      /\ \A t \in Threads : StartElt(t)' \in Nat \ {0} /\ EndElt(t)' \in Nat
      /\ \A t \in Threads : StartElt(t)' <= EndElt(t)' /\ EndElt(t)' <= load'.num_elts + 1
      /\ \A x \in 1..load'.num_elts : FirstOf(x)' \in Nat \ {0}
  BY <1>1, NextLoadHasFacts DEF LoadFacts, Threads
<1>3. el1' = [t \in Threads |-> StartElt(t)'] /\ walker' = [t \in Threads |-> 1]
  BY DEF Start
<1>4. el1' \in [Threads -> 1..(load'.num_elts + 1)]
  BY <1>2, <1>3
<1>5. walker' \in [Threads -> 1..(NumRatings' + 1)]
  <2>1. 1 \in 1..(NumRatings' + 1)
    <3>1. NumRatings' \in Nat
      BY <1>2
    <3>2. \A r \in Nat : 1 \in 1..(r + 1)
      OBVIOUS
    <3> QED
      BY <3>1, <3>2
  <2> QED
    BY <1>3, <2>1
<1>6. /\ phase' = "threads" /\ valences' \in Seq(BlockType) /\ numConfident' \in Nat
      /\ runs' \in 0..MaxRuns /\ clean' \in BOOLEAN
      /\ parts' \in [Threads -> Seq(BlockType)] /\ joined' \in 0..NTHREADS
  BY ConstantTypes DEF Start, TypeInv, TypeOK
<1>7. TypeOK'
  BY <1>1, <1>4, <1>5, <1>6 DEF TypeOK, Threads
<1>8. ASSUME NEW t \in Threads, (el1[t] < EndElt(t))' PROVE (walker[t] <= FirstOf(el1[t]))'
  <2>1. el1'[t] \in 1..load'.num_elts
    BY <1>2, <1>4, <1>8
  <2>2. FirstOf(el1[t])' \in Nat \ {0}
    BY <1>2, <2>1
  <2> QED
    BY <1>3, <2>2
<1>9. Positions'
  BY <1>2, <1>3, <1>8 DEF Positions, Threads
<1> QED
  BY <1>7, <1>9 DEF TypeInv

LEMMA ComputeTypeInv ==
    ASSUME TypeInv, NEW t \in Threads, Compute(t) PROVE TypeInv'
<1>1. load' = load /\ phase = "threads" /\ el1[t] < EndElt(t)
  BY DEF Compute
<1>2. /\ el1[t] \in 1..load.num_elts
      /\ Block(walker[t], el1[t]) \in BlockType
      /\ Walked(walker[t], el1[t]) \in 1..(NumRatings + 1)
      /\ el1[t] + 1 <= load.num_elts => Walked(walker[t], el1[t]) = FirstOf(el1[t] + 1)
  BY <1>1, ComputedBlock DEF TypeInv
<1>3. /\ load \in Loads /\ load.num_elts \in Nat \ {0} /\ NumRatings \in Nat
      /\ \A s \in Threads : EndElt(s) \in Nat /\ EndElt(s) <= load.num_elts + 1
      /\ \A s \in Threads : StartElt(s) \in Nat
  BY RangeTypes, RatingTypes, Ranges DEF TypeInv, TypeOK
<1>4. /\ NumRatings' = NumRatings
      /\ \A s : StartElt(s)' = StartElt(s)
      /\ \A s : EndElt(s)' = EndElt(s)
      /\ \A x : FirstOf(x)' = FirstOf(x)
  BY <1>1, SameLoad
<1>5. /\ el1 \in [Threads -> 1..(load.num_elts + 1)]
      /\ walker \in [Threads -> 1..(NumRatings + 1)]
      /\ parts \in [Threads -> Seq(BlockType)]
  BY DEF TypeInv, TypeOK
<1>6. /\ el1' = [el1 EXCEPT ![t] = el1[t] + 1]
      /\ walker' = [walker EXCEPT ![t] = Walked(walker[t], el1[t])]
      /\ parts' = [parts EXCEPT ![t] = Append(parts[t], Block(walker[t], el1[t]))]
  BY DEF Compute
<1>7. el1' \in [Threads -> 1..(load.num_elts + 1)]
  BY <1>2, <1>3, <1>5, <1>6
<1>8. walker' \in [Threads -> 1..(NumRatings + 1)]
  BY <1>2, <1>5, <1>6
<1>9. parts' \in [Threads -> Seq(BlockType)]
  <2>1. Append(parts[t], Block(walker[t], el1[t])) \in Seq(BlockType)
    BY <1>2, <1>5, AppendProperties
  <2> QED
    BY <1>5, <1>6, <2>1
<1>10. TypeOK'
  BY <1>1, <1>4, <1>7, <1>8, <1>9 DEF TypeInv, TypeOK, Compute
<1>11. ASSUME NEW s \in Threads
       PROVE  /\ StartElt(s) <= el1'[s] /\ el1'[s] <= EndElt(s)
              /\ el1'[s] < EndElt(s) => walker'[s] <= FirstOf(el1'[s])
  <2>1. CASE s = t
    <3>1. el1'[s] = el1[t] + 1 /\ walker'[s] = Walked(walker[t], el1[t])
      BY <1>5, <1>6, <2>1
    <3>2. StartElt(t) <= el1[t]
      BY <1>1 DEF TypeInv, Positions
    <3>3. StartElt(s) <= el1'[s] /\ el1'[s] <= EndElt(s)
      BY <1>1, <1>2, <1>3, <2>1, <3>1, <3>2
    <3>4. ASSUME el1'[s] < EndElt(s) PROVE walker'[s] <= FirstOf(el1'[s])
      BY <1>2, <1>3, <2>1, <3>1, <3>4
    <3> QED
      BY <3>3, <3>4
  <2>2. CASE s # t
    BY <1>1, <1>5, <1>6, <2>2 DEF TypeInv, Positions
  <2> QED
    BY <2>1, <2>2
<1>12. Positions'
  BY <1>4, <1>11 DEF Positions
<1> QED
  BY <1>10, <1>12 DEF TypeInv

(* The other steps leave the load and the threads' places alone. *)
LEMMA RestTypeInv ==
    ASSUME TypeInv, Main \/ Die \/ UNCHANGED vars PROVE TypeInv'
<1>1. UNCHANGED <<load, el1, walker, clean, runs>> /\ (phase' = "threads" => phase = "threads")
  BY DEF Main, Join, Cat, Remove, Count, Die, vars
<1>2. /\ NumRatings' = NumRatings
      /\ \A s : StartElt(s)' = StartElt(s)
      /\ \A s : EndElt(s)' = EndElt(s)
      /\ \A x : FirstOf(x)' = FirstOf(x)
  BY <1>1, SameLoad
<1>3. Positions'
  BY <1>1, <1>2 DEF TypeInv, Positions
<1>4. /\ valences \in Seq(BlockType) /\ joined \in 0..NTHREADS /\ numConfident \in Nat
      /\ parts \in [Threads -> Seq(BlockType)] /\ NTHREADS \in Nat \ {0}
  BY ConstantTypes DEF TypeInv, TypeOK
<1>5. <<>> \in Seq(BlockType)
  OBVIOUS
<1>6. valences' \in Seq(BlockType) /\ joined' \in 0..NTHREADS
  <2>1. CASE Join
    BY <1>4, <1>5, <2>1 DEF Join
  <2>2. CASE Cat
    <3>1. joined \in Threads
      BY <1>4, <2>2 DEF Cat, Threads
    <3>2. valences \o parts[joined] \in Seq(BlockType)
      BY <1>4, <3>1, ConcatProperties
    <3> QED
      BY <1>4, <2>2, <3>2 DEF Cat
  <2>3. CASE ~Join /\ ~Cat
    BY <1>4, <2>3 DEF Main, Remove, Count, Die, vars
  <2> QED
    BY <2>1, <2>2, <2>3
<1>7. parts' \in [Threads -> Seq(BlockType)]
  <2>1. CASE Remove
    BY <1>5, <2>1 DEF Remove
  <2>2. CASE Die
    <3>1. TornBlock \in BlockType
      BY FS_EmptySet DEF TornBlock, BlockType
    <3>2. PICK torn \in SUBSET {t \in Threads : phase = "threads" /\ el1[t] < EndElt(t)} :
            parts' = [t \in Threads |->
                        IF t \in torn THEN Append(parts[t], TornBlock) ELSE parts[t]]
      BY <2>2 DEF Die
    <3>3. \A t \in Threads : Append(parts[t], TornBlock) \in Seq(BlockType)
      BY <1>4, <3>1, AppendProperties
    <3> QED
      BY <1>4, <3>2, <3>3
  <2>3. CASE ~Remove /\ ~Die
    BY <1>4, <2>3 DEF Main, Join, Cat, Count, vars
  <2> QED
    BY <2>1, <2>2, <2>3
<1>8. numConfident' \in Nat
  <2>1. CASE Count
    BY <1>4, <2>1, LinesAreFinite DEF Count
  <2>2. CASE ~Count
    BY <1>4, <2>2 DEF Main, Join, Cat, Remove, Die, vars
  <2> QED
    BY <2>1, <2>2
<1>9. phase' \in {"off", "threads", "cat", "count", "done", "dead"}
  BY DEF TypeInv, TypeOK, Main, Join, Cat, Remove, Count, Die, vars
<1>10. TypeOK'
  BY <1>1, <1>2, <1>6, <1>7, <1>8, <1>9 DEF TypeInv, TypeOK
<1> QED
  BY <1>3, <1>10 DEF TypeInv

LEMMA TypeInvStep == TypeInv /\ [Next]_vars => TypeInv'
  BY StartTypeInv, ComputeTypeInv, RestTypeInv DEF Next

THEOREM ValgenTypeCorrect == Spec => []TypeOK
<1>1. TypeInv => TypeOK
  BY DEF TypeInv
<1> QED
  BY <1>1, TypeInvInit, TypeInvStep, PTL DEF Spec

(* The catch-up walk of a thread never passes the ratings it looks for. *)
THEOREM WalksStop == Spec => []CatchUpStops
<1>1. TypeInv => CatchUpStops
  BY DEF TypeInv, Positions, CatchUpStops
<1> QED
  BY <1>1, TypeInvInit, TypeInvStep, PTL DEF Spec

-----------------------------------------------------------------------------
(***************************************************************************)
(* In a run that found no file of a dead one: the blocks a thread has      *)
(* written are those of its range so far, and what cat has copied are the  *)
(* blocks up to where the range of the next thread starts.                 *)
(***************************************************************************)
NextStart(k) == IF k \in Threads THEN StartElt(k) ELSE load.num_elts + 1

JoinedAtEnd == phase = "cat" => \A t \in Threads : el1[t] = EndElt(t)

PartsExact ==
    clean /\ phase \in {"threads", "cat"} =>
        \A t \in Threads :
            /\ Len(parts[t]) = el1[t] - StartElt(t)
            /\ \A i \in 1..Len(parts[t]) : parts[t][i] = Good(StartElt(t) + i - 1)

CopiedExact ==
    clean /\ phase = "cat" =>
        /\ Len(valences) = NextStart(joined) - 1
        /\ \A i \in 1..Len(valences) : valences[i] = Good(i)

FileExact ==
    Merged => /\ Len(valences) = load.num_elts
              /\ \A i \in 1..load.num_elts : valences[i] = Good(i)

ContentInv == TypeInv /\ JoinedAtEnd /\ PartsExact /\ CopiedExact /\ FileExact

LEMMA ContentInvInit == Init => ContentInv
  BY TypeInvInit DEF Init, ContentInv, JoinedAtEnd, PartsExact, CopiedExact, FileExact, Merged

LEMMA SameGood ==
    ASSUME load' = load
    PROVE  /\ \A x : Good(x)' = Good(x)
           /\ \A k : NextStart(k)' = NextStart(k)
  BY SameLoad DEF Good, NextStart, Threads

LEMMA StartContent == ASSUME ContentInv, Start PROVE ContentInv'
<1>1. TypeInv'
  BY StartTypeInv DEF ContentInv
<1>2. phase' = "threads" /\ parts' = parts /\ el1' = [t \in Threads |-> StartElt(t)']
      /\ (clean' <=> parts = [t \in Threads |-> <<>>]) /\ load' \in Loads
  BY DEF Start
<1>3. \A t \in Threads : StartElt(t)' \in Nat
  BY <1>2, NextLoadHasFacts DEF LoadFacts, Threads
<1>4. ASSUME clean', NEW t \in Threads
      PROVE  /\ Len(parts'[t]) = el1'[t] - StartElt(t)'
             /\ \A i \in 1..Len(parts'[t]) : parts'[t][i] = Good(StartElt(t) + i - 1)'
  <2>1. parts'[t] = <<>> /\ el1'[t] = StartElt(t)'
    BY <1>2, <1>4
  <2>2. Len(parts'[t]) = 0
    BY <2>1
  <2>3. el1'[t] - StartElt(t)' = 0
    BY <1>3, <2>1
  <2> QED
    BY <2>2, <2>3
<1>5. PartsExact'
  BY <1>4 DEF PartsExact, Threads
<1> QED
  BY <1>1, <1>2, <1>5 DEF ContentInv, JoinedAtEnd, CopiedExact, FileExact, Merged

LEMMA ComputeContent ==
    ASSUME ContentInv, NEW t \in Threads, Compute(t) PROVE ContentInv'
<1>1. TypeInv'
  BY ComputeTypeInv DEF ContentInv
<1>2. /\ load' = load /\ phase = "threads" /\ phase' = "threads" /\ clean' = clean
      /\ el1[t] < EndElt(t)
      /\ parts' = [parts EXCEPT ![t] = Append(parts[t], Block(walker[t], el1[t]))]
      /\ el1' = [el1 EXCEPT ![t] = el1[t] + 1]
  BY DEF Compute
<1>3. /\ el1[t] \in 1..load.num_elts
      /\ Block(walker[t], el1[t]) = Good(el1[t])
      /\ Good(el1[t]) \in BlockType
  BY <1>2, ComputedBlock DEF ContentInv, TypeInv
<1>4. /\ parts \in [Threads -> Seq(BlockType)]
      /\ el1 \in [Threads -> 1..(load.num_elts + 1)]
      /\ load \in Loads
  BY DEF ContentInv, TypeInv, TypeOK
<1>5. \A s \in Threads : StartElt(s) \in Nat
  BY <1>4, RangeTypes
<1>6. \A s : StartElt(s)' = StartElt(s)
  BY <1>2, SameLoad
<1>7. \A x : Good(x)' = Good(x)
  BY <1>2, SameGood
<1>8. ASSUME clean, NEW s \in Threads
      PROVE  /\ Len(parts'[s]) = el1'[s] - StartElt(s)
             /\ \A i \in 1..Len(parts'[s]) : parts'[s][i] = Good(StartElt(s) + i - 1)
  <2>1. /\ Len(parts[s]) = el1[s] - StartElt(s)
        /\ \A i \in 1..Len(parts[s]) : parts[s][i] = Good(StartElt(s) + i - 1)
    BY <1>2, <1>8 DEF ContentInv, PartsExact
  <2>2. CASE s = t
    <3>1. parts'[s] = Append(parts[t], Good(el1[t])) /\ el1'[s] = el1[t] + 1
      BY <1>2, <1>3, <1>4, <2>2
    <3>2. parts[t] \in Seq(BlockType)
      BY <1>4
    <3>3. /\ Len(parts'[s]) = Len(parts[t]) + 1
          /\ \A i \in 1..Len(parts[t]) : parts'[s][i] = parts[t][i]
          /\ parts'[s][Len(parts[t]) + 1] = Good(el1[t])
      BY <1>3, <3>1, <3>2, AppendProperties
    <3>4. StartElt(t) + (Len(parts[t]) + 1) - 1 = el1[t] /\ Len(parts[t]) \in Nat
      BY <1>3, <1>5, <2>1, <2>2, <3>2
    <3>5. ASSUME NEW i \in 1..Len(parts'[s])
          PROVE  parts'[s][i] = Good(StartElt(s) + i - 1)
      <4>1. CASE i \in 1..Len(parts[t])
        BY <2>1, <2>2, <3>3, <4>1
      <4>2. CASE i = Len(parts[t]) + 1
        BY <2>2, <3>3, <3>4, <4>2
      <4> QED
        BY <3>3, <3>4, <4>1, <4>2
    <3>6. Len(parts'[s]) = el1'[s] - StartElt(s)
      BY <1>3, <1>5, <2>1, <2>2, <3>1, <3>3
    <3> QED
      BY <3>5, <3>6
  <2>3. CASE s # t
    BY <1>2, <1>4, <2>1, <2>3
  <2> QED
    BY <2>2, <2>3
<1>9. PartsExact'
  BY <1>2, <1>6, <1>7, <1>8 DEF PartsExact
<1> QED
  BY <1>1, <1>2, <1>9 DEF ContentInv, JoinedAtEnd, CopiedExact, FileExact, Merged

LEMMA JoinContent == ASSUME ContentInv, Join PROVE ContentInv'
<1>1. TypeInv'
  BY RestTypeInv DEF ContentInv, Main
<1>2. /\ UNCHANGED <<load, el1, parts, clean>> /\ phase = "threads" /\ phase' = "cat"
      /\ joined' = 0 /\ valences' = <<>>
      /\ \A t \in Threads : el1[t] >= EndElt(t)
  BY DEF Join
<1>3. load \in Loads /\ el1 \in [Threads -> 1..(load.num_elts + 1)]
  BY DEF ContentInv, TypeInv, TypeOK
<1>4. load.num_elts \in Nat /\ \A t \in Threads : EndElt(t) \in Nat /\ el1[t] <= EndElt(t)
  BY <1>2, <1>3, RangeTypes DEF ContentInv, TypeInv, Positions
<1>5. \A t \in Threads : el1[t] = EndElt(t)
  BY <1>2, <1>3, <1>4
<1>6. JoinedAtEnd'
  BY <1>2, <1>5, SameLoad DEF JoinedAtEnd
<1>7. PartsExact'
  BY <1>2, SameLoad, SameGood DEF ContentInv, PartsExact
<1>8. NextStart(0) = 1
  BY <1>3, ConstantTypes, Ranges DEF NextStart, Threads
<1>9. Len(valences') = 0
  BY <1>2
<1>10. CopiedExact'
  BY <1>2, <1>8, <1>9, SameGood DEF CopiedExact
<1> QED
  BY <1>1, <1>2, <1>6, <1>7, <1>10 DEF ContentInv, FileExact, Merged

LEMMA CatContent == ASSUME ContentInv, Cat PROVE ContentInv'
<1>1. TypeInv'
  BY RestTypeInv DEF ContentInv, Main
<1>2. /\ UNCHANGED <<load, el1, parts, clean, phase>> /\ phase = "cat"
      /\ joined < NTHREADS /\ joined' = joined + 1 /\ valences' = valences \o parts[joined]
  BY DEF Cat
<1>3. /\ load \in Loads /\ joined \in 0..NTHREADS /\ NTHREADS \in Nat
      /\ valences \in Seq(BlockType) /\ parts \in [Threads -> Seq(BlockType)]
  BY ConstantTypes DEF ContentInv, TypeInv, TypeOK
<1>4. joined \in Threads
  BY <1>2, <1>3 DEF Threads
<1>5. /\ load.num_elts \in Nat /\ StartElt(joined) \in Nat \ {0} /\ EndElt(joined) \in Nat
      /\ StartElt(joined) <= EndElt(joined)
  BY <1>3, <1>4, RangeTypes, Ranges
<1>6. EndElt(joined) = NextStart(joined + 1)
  BY <1>3, <1>4, Ranges DEF NextStart
<1>7. JoinedAtEnd' /\ PartsExact'
  BY <1>2, SameLoad, SameGood DEF ContentInv, JoinedAtEnd, PartsExact
<1>8. ASSUME clean
      PROVE  /\ Len(valences') = NextStart(joined + 1) - 1
             /\ \A i \in 1..Len(valences') : valences'[i] = Good(i)
  <2> DEFINE p == parts[joined]
             v == valences
             b == StartElt(joined)
  <2>1. p \in Seq(BlockType) /\ v \in Seq(BlockType) /\ valences' = v \o p
    BY <1>2, <1>3, <1>4
  <2>2. Len(v) = b - 1 /\ \A i \in 1..Len(v) : v[i] = Good(i)
    BY <1>2, <1>4, <1>8 DEF ContentInv, CopiedExact, NextStart
  <2>3. Len(p) = EndElt(joined) - b /\ \A i \in 1..Len(p) : p[i] = Good(b + i - 1)
    BY <1>2, <1>4, <1>8 DEF ContentInv, JoinedAtEnd, PartsExact
  <2> HIDE DEF p, v, b
  <2>4. /\ Len(v \o p) = Len(v) + Len(p)
        /\ \A i \in 1..(Len(v) + Len(p)) :
              (v \o p)[i] = IF i <= Len(v) THEN v[i] ELSE p[i - Len(v)]
    BY <2>1, ConcatProperties
  <2>5. Len(v) \in Nat /\ Len(p) \in Nat /\ b \in Nat \ {0}
    BY <1>5, <2>1 DEF b
  <2>6. Len(valences') = NextStart(joined + 1) - 1
    BY <1>5, <1>6, <2>1, <2>2, <2>3, <2>4, <2>5
  <2>7. ASSUME NEW i \in 1..Len(valences') PROVE valences'[i] = Good(i)
    <3>1. i \in 1..(Len(v) + Len(p)) /\ i \in Nat
      BY <2>1, <2>4, <2>5
    <3>2. CASE i <= Len(v)
      <4>1. i \in 1..Len(v)
        BY <2>5, <3>1, <3>2
      <4> QED
        BY <2>1, <2>2, <2>4, <3>1, <3>2, <4>1
    <3>3. CASE ~(i <= Len(v))
      <4>1. i - Len(v) \in 1..Len(p) /\ b + (i - Len(v)) - 1 = i
        BY <2>2, <2>5, <3>1, <3>3
      <4>2. valences'[i] = p[i - Len(v)]
        BY <2>1, <2>4, <3>1, <3>3
      <4>3. p[i - Len(v)] = Good(b + (i - Len(v)) - 1)
        BY <2>3, <4>1
      <4> QED
        BY <4>1, <4>2, <4>3
    <3> QED
      BY <3>2, <3>3
  <2> QED
    BY <2>6, <2>7
<1>9. CopiedExact'
  BY <1>2, <1>8, SameGood DEF CopiedExact
<1> QED
  BY <1>1, <1>2, <1>7, <1>9 DEF ContentInv, FileExact, Merged

LEMMA RestContent ==
    ASSUME ContentInv, Remove \/ Count \/ Die \/ UNCHANGED vars PROVE ContentInv'
<1>1. TypeInv'
  BY RestTypeInv DEF ContentInv, Main
<1>2. UNCHANGED <<load, el1, clean, valences>>
  BY DEF Remove, Count, Die, vars
<1>3. CASE Remove
  <2>1. phase = "cat" /\ phase' = "count" /\ joined = NTHREADS
    BY <1>3 DEF Remove
  <2>2. NextStart(joined) = load.num_elts + 1 /\ load.num_elts \in Nat
    <3>1. joined \notin Threads /\ load \in Loads
      BY <2>1, ConstantTypes DEF Threads, ContentInv, TypeInv, TypeOK
    <3> QED
      BY <3>1, RangeTypes DEF NextStart
  <2>3. clean => /\ Len(valences) = load.num_elts
                 /\ \A i \in 1..load.num_elts : valences[i] = Good(i)
    BY <2>1, <2>2 DEF ContentInv, CopiedExact
  <2>4. FileExact'
    BY <1>2, <2>3, SameGood DEF FileExact, Merged
  <2> QED
    BY <1>1, <2>1, <2>4 DEF ContentInv, JoinedAtEnd, PartsExact, CopiedExact
<1>4. CASE Count
  <2>1. phase = "count" /\ phase' = "done"
    BY <1>4 DEF Count
  <2>2. FileExact'
    BY <1>2, <2>1, SameGood DEF ContentInv, FileExact, Merged
  <2> QED
    BY <1>1, <2>1, <2>2 DEF ContentInv, JoinedAtEnd, PartsExact, CopiedExact
<1>5. CASE Die
  <2>1. phase' = "dead"
    BY <1>5 DEF Die
  <2> QED
    BY <1>1, <2>1 DEF ContentInv, JoinedAtEnd, PartsExact, CopiedExact, FileExact, Merged
<1>6. CASE UNCHANGED vars
  <2>1. UNCHANGED <<phase, parts, joined>>
    BY <1>6 DEF vars
  <2> QED
    BY <1>1, <1>2, <2>1, SameLoad, SameGood
    DEF ContentInv, JoinedAtEnd, PartsExact, CopiedExact, FileExact, Merged
<1> QED
  BY <1>3, <1>4, <1>5, <1>6

LEMMA ContentInvStep == ContentInv /\ [Next]_vars => ContentInv'
  BY StartContent, ComputeContent, JoinContent, CatContent, RestContent DEF Next, Main

(* valences.out has a block for every x, in order. *)
THEOREM FileIsInOrder == Spec => []MergedInOrder
<1>1. ContentInv => MergedInOrder
  <2> SUFFICES ASSUME ContentInv, Merged
               PROVE  /\ Len(valences) = load.num_elts
                      /\ \A e \in 1..load.num_elts : valences[e].x = e
    BY DEF MergedInOrder
  <2>1. Len(valences) = load.num_elts /\ \A e \in 1..load.num_elts : valences[e] = Good(e)
    BY DEF ContentInv, FileExact
  <2>2. \A e : Good(e).x = e
    BY DEF Good
  <2> QED
    BY <2>1, <2>2
<1> QED
  BY <1>1, ContentInvInit, ContentInvStep, PTL DEF Spec

(* The block of x has the valences of x: the walks find what they should. *)
THEOREM FileIsExact == Spec => []MergedIsExact
<1>1. ContentInv => MergedIsExact
  <2> SUFFICES ASSUME ContentInv, Merged
               PROVE  \A e \in 1..load.num_elts : valences[e].lines = Valences(e)
    BY DEF MergedIsExact
  <2>1. \A e \in 1..load.num_elts : valences[e] = Good(e)
    BY DEF ContentInv, FileExact
  <2>2. \A e : Good(e).lines = Valences(e)
    BY DEF Good
  <2> QED
    BY <2>1, <2>2
<1> QED
  BY <1>1, ContentInvInit, ContentInvStep, PTL DEF Spec

-----------------------------------------------------------------------------
(* What wc counts are the pairs that are valences: one line for each. *)

Counted == phase = "done" => numConfident = Cardinality(FileLines(valences))

ValencePairs == {p \in (1..load.num_elts) \X (1..(load.num_elts - 1)) : IsValence(p[1], p[2])}

LEMMA LinesArePairs ==
    ASSUME load \in Loads, Len(valences) = load.num_elts,
           \A i \in 1..load.num_elts : valences[i] = Good(i)
    PROVE  Cardinality(FileLines(valences)) = Cardinality(ValencePairs)
<1> DEFINE N == load.num_elts
           lineOf(p) == <<p[1], <<p[2], NumCommon(p[1], p[2])>>>>
           f == [p \in ValencePairs |-> lineOf(p)]
<1>1. \A i \in 1..N : valences[i].lines = Valences(i)
  <2>1. \A e : Good(e).lines = Valences(e)
    BY DEF Good
  <2> QED
    BY <2>1
<1>2. ASSUME NEW p \in ValencePairs PROVE lineOf(p) \in FileLines(valences)
  <2>1. /\ p = <<p[1], p[2]>> /\ p[1] \in 1..N /\ p[2] \in 1..(N - 1)
        /\ IsValence(p[1], p[2])
    BY DEF ValencePairs
  <2>2. <<p[2], NumCommon(p[1], p[2])>> \in Valences(p[1])
    BY <2>1 DEF Valences
  <2>3. <<p[2], NumCommon(p[1], p[2])>> \in valences[p[1]].lines
    BY <1>1, <2>1, <2>2
  <2>4. p[1] \in 1..Len(valences)
    BY <2>1
  <2> QED
    BY <2>3, <2>4 DEF FileLines
<1>3. ASSUME NEW l \in FileLines(valences) PROVE \E p \in ValencePairs : lineOf(p) = l
  <2>1. PICK i \in 1..N : \E k \in valences[i].lines : l = <<i, k>>
    BY <1>3 DEF FileLines
  <2>2. PICK k \in Valences(i) : l = <<i, k>>
    BY <1>1, <2>1
  <2>3. PICK y \in 1..(N - 1) : IsValence(i, y) /\ k = <<y, NumCommon(i, y)>>
    BY <2>2 DEF Valences
  <2>4. <<i, y>> \in ValencePairs
    BY <2>1, <2>3 DEF ValencePairs
  <2>5. lineOf(<<i, y>>) = l
    BY <2>2, <2>3
  <2> QED
    BY <2>4, <2>5
<1>4. ASSUME NEW p \in ValencePairs, NEW q \in ValencePairs, lineOf(p) = lineOf(q) PROVE p = q
  <2>1. p[1] = q[1] /\ p[2] = q[2]
    BY <1>4
  <2>2. p = <<p[1], p[2]>> /\ q = <<q[1], q[2]>>
    BY DEF ValencePairs
  <2> QED
    BY <2>1, <2>2
<1> HIDE DEF lineOf
<1>5. f \in Bijection(ValencePairs, FileLines(valences))
  <2>1. f \in Injection(ValencePairs, FileLines(valences))
    BY <1>2, <1>4 DEF Injection, IsInjective
  <2>2. f \in Surjection(ValencePairs, FileLines(valences))
    BY <1>2, <1>3 DEF Surjection
  <2> QED
    BY <2>1, <2>2 DEF Bijection
<1>6. IsFiniteSet(ValencePairs)
  <2>1. load.num_elts \in Nat
    BY RangeTypes
  <2>2. IsFiniteSet(1..load.num_elts) /\ IsFiniteSet(1..(load.num_elts - 1))
    BY <2>1, FS_Interval
  <2>3. IsFiniteSet((1..load.num_elts) \X (1..(load.num_elts - 1)))
    BY <2>2, FS_Product
  <2> QED
    BY <2>3, FS_Subset DEF ValencePairs
<1>7. ExistsBijection(ValencePairs, FileLines(valences))
  BY <1>5, Zenon DEF ExistsBijection
<1> QED
  BY <1>6, <1>7, FS_Bijection

(* num_confident_valences.out is the number of valences there are, whatever *)
(* the order in which the threads found them.                               *)
THEOREM CountMatchesFile == Spec => []CountIsExact
<1>1. Init => Counted
  BY DEF Init, Counted
<1>2. Counted /\ [Next]_vars => Counted'
  <2> SUFFICES ASSUME Counted, [Next]_vars PROVE Counted'
    OBVIOUS
  <2>1. CASE Count
    <3>1. valences' = valences /\ numConfident' = Cardinality(FileLines(valences))
      BY <2>1 DEF Count
    <3>2. FileLines(valences)' = FileLines(valences)
      BY <3>1 DEF FileLines
    <3> QED
      BY <3>1, <3>2 DEF Counted
  <2>2. CASE UNCHANGED vars
    BY <2>2 DEF vars, Counted, FileLines
  <2>3. CASE Start \/ (\E t \in Threads : Compute(t)) \/ Join \/ Cat \/ Remove \/ Die
    <3>1. phase' # "done"
      BY <2>3 DEF Start, Compute, Join, Cat, Remove, Die
    <3> QED
      BY <3>1 DEF Counted
  <2> QED
    BY <2>1, <2>2, <2>3 DEF Next, Main
<1>3. ASSUME ContentInv, Counted, clean, phase = "done"
      PROVE  numConfident = Cardinality(ValencePairs)
  <2>1. /\ load \in Loads /\ Len(valences) = load.num_elts
        /\ \A i \in 1..load.num_elts : valences[i] = Good(i)
    BY <1>3 DEF ContentInv, TypeInv, TypeOK, FileExact, Merged
  <2>2. Cardinality(FileLines(valences)) = Cardinality(ValencePairs)
    BY <2>1, LinesArePairs
  <2> QED
    BY <1>3, <2>2 DEF Counted
<1>4. ContentInv /\ Counted => CountIsExact
  BY <1>3 DEF CountIsExact, ValencePairs
<1> QED
  BY <1>1, <1>2, <1>4, ContentInvInit, ContentInvStep, PTL DEF Spec

(* Every element belongs to the range of one thread (main.c:112-123). *)
THEOREM EveryElementHasOneThread == Spec => []ExactCover
<1>1. Init => load \in Loads
  BY DEF Init
<1>2. load \in Loads /\ [Next]_vars => (load \in Loads)'
  BY DEF Next, vars, Start, Compute, Main, Join, Cat, Remove, Count, Die
<1>3. load \in Loads => ExactCover
  BY Cover
<1> QED
  BY <1>1, <1>2, <1>3, PTL DEF Spec
=============================================================================
