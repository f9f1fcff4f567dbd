------------------------- MODULE Predictions_proofs -------------------------
(***************************************************************************)
(* Requests leave the store alone, so that what ValenceStore_proofs says   *)
(* of it holds while recgen serves.  PickInv follows the walk over the     *)
(* sorted working set, TallyInv the tally, rating by rating.               *)
(***************************************************************************)
EXTENDS Predictions, ValenceStore_proofs, FiniteSetTheorems

LEMMA ServeLeavesStore == Serve => UNCHANGED <<storeVars, sortVars>>
<1>1. ASSUME NEW q \in Requests, AskRecs(q) \/ AskSingle(q) PROVE UNCHANGED <<storeVars, sortVars>>
  BY <1>1 DEF AskRecs, AskSingle, Begin
<1>2. Tally \/ Composite \/ Rank \/ Pick1 \/ Picked \/ Single => UNCHANGED <<storeVars, sortVars>>
  BY DEF Tally, Composite, Rank, Pick1, Picked, Single
<1>3. Strays \/ Serialize \/ SerializeNull \/ Reply => UNCHANGED <<storeVars, sortVars>>
  BY DEF Strays, Serialize, SerializeNull, Reply
<1> QED  BY <1>1, <1>2, <1>3 DEF Serve

LEMMA PredictionsKeepStore == PredSpec => StoreSpec
<1>1. PredInit => StoreInit
  BY DEF PredInit
<1>2. [PredNext]_<<storeVars, sortVars, predVars>> => [StoreNext]_<<storeVars, sortVars>>
  BY ServeLeavesStore DEF PredNext, Store
<1> QED  BY <1>1, <1>2, PTL DEF PredSpec, StoreSpec

\* The inner loops of the sort, which have no bound of their own, are stopped
\* inside the range being sorted: for every file, every stack size and every
\* choice of pivots.
THEOREM ScansAlwaysStop == PredSpec => []ScansStop
  BY PredictionsKeepStore, CopyInvAlways, CopyStops, PTL

\* The sort loses no valence and doubles none, and what it hands on is in
\* ascending order, although it forgets its stack when that is full.  The ids
\* have to fit the bits that SETELT keeps.
THEOREM SortsInFull ==
    ASSUME IdsFit PROVE PredSpec => []SortedCopy
<1>1. CopyInv => SortedCopy
  BY CopySorts
<1> QED  BY <1>1, PredictionsKeepStore, CopyInvAlways, PTL

\* Every array has the entries that its program allocates, one less for the
\* indexes of recgen -d, and the walkers of the sort stay inside, through every
\* program, export and import, whatever the file.
THEOREM StoreTypesAlways == PredSpec => []StoreTypeOK
  BY PredictionsKeepStore, TypesAlways, TypesAreOK, PTL

\* While recgen serves, both indexes lead to all valences of an id and to no
\* others, whatever the file and however the copy was sorted.
THEOREM IndexesAreExact ==
    ASSUME IdsFit PROVE PredSpec => []FoundAsInFile
  BY PredictionsKeepStore, StoreAlways, PTL

\* While recgen serves, the two tables of so_compressed.out fit their sixteen
\* entries; of the tenths as the signed chars of the first pass hold them,
\* slope 1 and offset 0 are read back exactly where the code keeps their bucket
\* apart, and other slopes as a value among those of the bucket.
THEOREM FourBitsAreEnough ==
    ASSUME IdsFit PROVE PredSpec => []FourBitsSuffice
  BY PredictionsKeepStore, CodesAlways, PTL
-----------------------------------------------------------------------------
(* The walk over the sorted working set.                                     *)

\* sorted has every element once, none behind a worse one.
Ranked ==
    /\ \A k \in Elts : sorted[k] \in Elts
    /\ \A j, k \in Elts : j # k => sorted[j] # sorted[k]
    /\ \A e \in Elts : \E k \in Elts : sorted[k] = e
    /\ \A j, k \in Elts : j < k => ~Better(sorted[k], sorted[j])

\* rs are the recommendations of the wanted elements among the first n of the
\* sorted ones; pos says where each comes from.
ArePicks(rs, pos, n) ==
    /\ pos \in [1..Len(rs) -> 1..n]
    /\ \A i, j \in 1..Len(rs) : i < j => pos[i] < pos[j]
    /\ \A i \in 1..Len(rs) : rs[i] = Rec(sorted[pos[i]]) /\ Wanted(sorted[pos[i]])
    /\ \A k \in 1..n : Wanted(sorted[k]) => \E i \in 1..Len(rs) : pos[i] = k

Picking ==
    /\ Ranked
    /\ ws_walker \in 1..file.num_elts + 1
    /\ recs \in Seq({Rec(e) : e \in Elts}) /\ Len(recs) <= RECS_BUCKET_SIZE
    /\ \E pos : ArePicks(recs, pos, ws_walker - 1)

PicksAnswered == doing \in {"serialize", "send"} /\ request.kind # "single" /\ recs # <<>>

\* The inductive invariant.
PickInv ==
    /\ file \in Files
    /\ doing \in {"idle", "tally", "rank", "single"} => recs = <<>>
    /\ doing = "single" => request.kind = "single"
    /\ doing \in {"pick", "overrun"} \/ PicksAnswered => Picking
    /\ doing = "overrun" => ws_walker > file.num_elts /\ Len(recs) < RECS_BUCKET_SIZE
    /\ PicksAnswered => Len(recs) = RECS_BUCKET_SIZE
    /\ doing = "send" => answer = Serialized(request, recs)

LEMMA EltsFacts ==
    ASSUME file \in Files
    PROVE  /\ file.num_elts \in Nat /\ Elts = 1..file.num_elts
           /\ IsFiniteSet(Elts) /\ Cardinality(Elts) = file.num_elts
<1>1. file.num_elts \in Nat /\ Elts = 1..file.num_elts
  BY FileFacts DEF Elts
<1> QED  BY <1>1, FS_Interval

LEMMA RankingHasAll ==
    ASSUME file \in Files, NEW s \in SetToSeqs(Elts)
    PROVE  /\ \A k \in Elts : s[k] \in Elts
           /\ \A j, k \in Elts : j # k => s[j] # s[k]
           /\ \A e \in Elts : \E k \in Elts : s[k] = e
<1>1. file.num_elts \in Nat /\ Elts = 1..file.num_elts /\ IsFiniteSet(Elts) /\ Cardinality(Elts) = file.num_elts
  BY EltsFacts
<1>2. s \in [Elts -> Elts] /\ \A j, k \in Elts : j # k => s[j] # s[k]
  BY <1>1 DEF SetToSeqs
<1>3. s \in Injection(Elts, Elts)
  BY <1>2 DEF Injection, IsInjective
<1>4. s \in Surjection(Elts, Elts)
  BY <1>1, <1>3, FS_Injection
<1> QED  BY <1>2, <1>4 DEF Surjection

\* What is unchanged with the working set and the request.
LEMMA SamePicks ==
    ASSUME UNCHANGED <<file, request, workingset, sorted>>
    PROVE  /\ Elts' = Elts /\ Ranked' = Ranked /\ {Rec(e) : e \in Elts}' = {Rec(e) : e \in Elts}
           /\ \A rs, pos, n : ArePicks(rs, pos, n)' = ArePicks(rs, pos, n)
           /\ \A e : Wanted(e)' = Wanted(e) /\ Rec(e)' = Rec(e)
<1>1. Elts' = Elts /\ \A d, e : Better(d, e)' = Better(d, e)
  BY DEF Elts, Better
<1>2. \A e : Rec(e)' = Rec(e)
  BY DEF Rec
<1>3. \A e : Wanted(e)' = Wanted(e)
  <2>1. \A e : TimesRated(e)' = TimesRated(e)
    BY DEF TimesRated
  <2>2. \A d, e : PopsBefore(d, e)' = PopsBefore(d, e)
    BY <2>1 DEF PopsBefore
  <2>3. \A e : Pop(e)' = Pop(e)
    BY <1>1, <2>2 DEF Pop, PopOfRank
  <2> QED  BY <2>3 DEF Wanted, TargetPop
<1> QED  BY <1>1, <1>2, <1>3 DEF Ranked, ArePicks

LEMMA SamePicking ==
    ASSUME UNCHANGED <<file, request, workingset, sorted, recs, ws_walker>>, Picking PROVE Picking'
<1>1. Elts' = Elts /\ Ranked' = Ranked /\ {Rec(e) : e \in Elts}' = {Rec(e) : e \in Elts}
  BY SamePicks
<1>2. PICK pos : ArePicks(recs, pos, ws_walker - 1)
  BY DEF Picking
<1>3. ArePicks(recs, pos, ws_walker - 1)'
  <2>1. \A rs, p, n : ArePicks(rs, p, n)' = ArePicks(rs, p, n)
    BY SamePicks
  <2>2. recs' = recs /\ ws_walker' - 1 = ws_walker - 1
    OBVIOUS
  <2> QED  BY <1>2, <2>1, <2>2
<1> QED  BY <1>1, <1>3 DEF Picking

LEMMA SameAnswer ==
    ASSUME request' = request
    PROVE  \A list : Serialized(request, list)' = Serialized(request, list)
  BY DEF Serialized, Shown, Scaled, IsJson

\* The walk begins.
LEMMA RankBegins ==
    ASSUME PickInv, Rank PROVE Picking'
<1>1. /\ doing = "rank" /\ recs = <<>> /\ recs' = <<>> /\ ws_walker' = 1 /\ file \in Files /\ file' = file
      /\ request' = request /\ workingset' = workingset
  BY DEF PickInv, Rank, storeVars
<1>2. PICK s \in SetToSeqs(Elts) : (\A j, k \in Elts : j < k => ~Better(s[k], s[j])) /\ sorted' = s
  BY DEF Rank
<1>3. /\ \A k \in Elts : s[k] \in Elts
      /\ \A j, k \in Elts : j # k => s[j] # s[k]
      /\ \A e \in Elts : \E k \in Elts : s[k] = e
  BY <1>1, RankingHasAll
<1>4. Elts' = Elts /\ \A d, e : Better(d, e)' = Better(d, e)
  BY <1>1 DEF Elts, Better
<1>5. Ranked'
  BY <1>2, <1>3, <1>4 DEF Ranked
<1>6. ArePicks(<<>>, [i \in 1..0 |-> 0], 0)'
  <2>1. Len(<<>>) = 0 /\ 1..0 = {}
    OBVIOUS
  <2> QED  BY <2>1 DEF ArePicks
<1>7. file.num_elts \in Nat /\ RECS_BUCKET_SIZE \in Nat
  BY <1>1, EltsFacts, PredictionsAssumption
<1>8. /\ ws_walker' - 1 = 0 /\ ws_walker' \in 1..file'.num_elts + 1
      /\ recs' \in Seq({Rec(e) : e \in Elts}') /\ Len(recs') <= RECS_BUCKET_SIZE
  BY <1>1, <1>7
<1>9. \E pos : ArePicks(recs, pos, ws_walker - 1)'
  BY <1>1, <1>6, <1>8
<1> QED  BY <1>5, <1>8, <1>9 DEF Picking

\* One more element is looked at.
LEMMA PicksGrow ==
    ASSUME NEW n \in Nat, NEW rs, NEW S, rs \in Seq(S), NEW pos, ArePicks(rs, pos, n), Rec(sorted[n+1]) \in S
    PROVE  /\ Wanted(sorted[n+1]) => \E p : ArePicks(Append(rs, Rec(sorted[n+1])), p, n + 1)
           /\ ~Wanted(sorted[n+1]) => ArePicks(rs, pos, n + 1)
<1>1. /\ Len(rs) \in Nat /\ pos \in [1..Len(rs) -> 1..n]
      /\ \A i, j \in 1..Len(rs) : i < j => pos[i] < pos[j]
      /\ \A i \in 1..Len(rs) : rs[i] = Rec(sorted[pos[i]]) /\ Wanted(sorted[pos[i]])
      /\ \A k \in 1..n : Wanted(sorted[k]) => \E i \in 1..Len(rs) : pos[i] = k
  BY DEF ArePicks
<1> DEFINE m == Len(rs)
<1>2. 1..n \subseteq 1..n+1 /\ \A k \in 1..n+1 : k = n + 1 \/ k \in 1..n
  OBVIOUS
<1>3. ASSUME ~Wanted(sorted[n+1]) PROVE ArePicks(rs, pos, n + 1)
  <2>1. pos \in [1..m -> 1..n+1]
    BY <1>1, <1>2
  <2>2. \A k \in 1..n+1 : Wanted(sorted[k]) => \E i \in 1..m : pos[i] = k
    BY <1>1, <1>2, <1>3
  <2> QED  BY <1>1, <2>1, <2>2 DEF ArePicks
<1>4. ASSUME Wanted(sorted[n+1]) PROVE \E p : ArePicks(Append(rs, Rec(sorted[n+1])), p, n + 1)
  <2> DEFINE more == Append(rs, Rec(sorted[n+1]))
             p == [i \in 1..m+1 |-> IF i = m + 1 THEN n + 1 ELSE pos[i]]
  <2>1. /\ Len(more) = m + 1 /\ more[m+1] = Rec(sorted[n+1])
        /\ \A i \in 1..m : more[i] = rs[i]
    OBVIOUS
  <2>2. \A i \in 1..m+1 : i = m + 1 \/ i \in 1..m
    <3>1. m \in Nat
      BY <1>1
    <3> HIDE DEF m
    <3> QED  BY <3>1
  <2>3. p[m+1] = n + 1 /\ \A i \in 1..m : p[i] = pos[i] /\ i \in 1..m+1
    BY <1>1
  <2>4. p \in [1..m+1 -> 1..n+1]
    BY <1>1, <1>2
  <2> HIDE DEF more, p, m
  <2>5. \A i \in 1..m+1 : more[i] = Rec(sorted[p[i]]) /\ Wanted(sorted[p[i]])
    BY <1>1, <1>4, <2>1, <2>2, <2>3 DEF m
  <2>6. \A i, j \in 1..m+1 : i < j => p[i] < p[j]
    <3> SUFFICES ASSUME NEW i \in 1..m+1, NEW j \in 1..m+1, i < j PROVE p[i] < p[j]
      OBVIOUS
    <3>1. m \in Nat /\ i \in 1..m /\ p[i] = pos[i] /\ pos[i] \in 1..n
      BY <1>1, <2>3 DEF m
    <3>2. CASE j = m + 1
      BY <2>3, <3>1, <3>2
    <3>3. CASE j \in 1..m
      BY <1>1, <2>3, <3>1, <3>3 DEF m
    <3> QED  BY <2>2, <3>2, <3>3
  <2>7. ASSUME NEW k \in 1..n+1, Wanted(sorted[k]) PROVE \E i \in 1..m+1 : p[i] = k
    <3>1. CASE k = n + 1
      <4>1. m + 1 \in 1..m+1
        BY <1>1 DEF m
      <4> QED  BY <2>3, <3>1, <4>1
    <3>2. CASE k \in 1..n
      <4>1. PICK i \in 1..m : pos[i] = k
        BY <1>1, <2>7, <3>2 DEF m
      <4> QED  BY <2>3, <4>1
    <3> QED  BY <1>2, <3>1, <3>2
  <2>8. ArePicks(more, p, n + 1)
    BY <2>1, <2>4, <2>5, <2>6, <2>7 DEF ArePicks
  <2> QED  BY <2>8 DEF more
<1> QED  BY <1>3, <1>4

LEMMA Pick1Keeps ==
    ASSUME PickInv, Pick1, doing' = "pick" PROVE Picking'
<1> DEFINE n == ws_walker - 1
           S == {Rec(e) : e \in Elts}
           e == sorted[ws_walker]
<1>1. /\ doing = "pick" /\ Len(recs) < RECS_BUCKET_SIZE /\ file \in Files /\ Picking
      /\ UNCHANGED <<file, request, workingset, sorted>>
      /\ ~(ws_walker > file.num_elts) /\ ws_walker' = ws_walker + 1
      /\ recs' = IF Wanted(e) THEN Append(recs, Rec(e)) ELSE recs
  BY DEF PickInv, Pick1, storeVars
<1>2. /\ file.num_elts \in Nat /\ RECS_BUCKET_SIZE \in Nat /\ Elts = 1..file.num_elts
  BY <1>1, EltsFacts, PredictionsAssumption
<1>3. /\ ws_walker \in 1..file.num_elts /\ n \in Nat /\ n + 1 = ws_walker /\ ws_walker' - 1 = n + 1
      /\ ws_walker' \in 1..file.num_elts + 1
  BY <1>1, <1>2 DEF Picking
<1>4. e \in Elts /\ Rec(e) \in S
  <2>1. e \in Elts
    BY <1>1, <1>2, <1>3 DEF Picking, Ranked
  <2> QED  BY <2>1
<1>5. recs \in Seq(S) /\ Ranked
  BY <1>1 DEF Picking
<1>6. PICK pos : ArePicks(recs, pos, n)
  BY <1>1 DEF Picking
<1>7. Elts' = Elts /\ Ranked' = Ranked /\ S' = S
  BY <1>1, SamePicks
<1>8. \A rs, p, k : ArePicks(rs, p, k)' = ArePicks(rs, p, k)
  BY <1>1, SamePicks
<1>9. e = sorted[n+1]
  BY <1>3
<1> HIDE DEF n, S, e
<1>10. recs' \in Seq(S) /\ Len(recs') <= RECS_BUCKET_SIZE
  BY <1>1, <1>2, <1>4, <1>5
<1>11. \E p : ArePicks(recs', p, n + 1)
  <2>1. /\ Wanted(e) => \E p : ArePicks(Append(recs, Rec(e)), p, n + 1)
        /\ ~Wanted(e) => ArePicks(recs, pos, n + 1)
    BY <1>3, <1>4, <1>5, <1>6, <1>9, PicksGrow
  <2> QED  BY <1>1, <2>1
<1>12. PICK p : ArePicks(recs', p, n + 1)
  BY <1>11
<1>13. ArePicks(recs, p, ws_walker - 1)'
  BY <1>3, <1>8, <1>12
<1> QED  BY <1>1, <1>3, <1>5, <1>7, <1>10, <1>13 DEF Picking, S

LEMMA StoreKeepsFile == [StoreNext]_<<storeVars, sortVars>> => file' = file
  BY FileStays

LEMMA NextKeepsPickInv ==
    ASSUME PickInv, [PredNext]_<<storeVars, sortVars, predVars>> PROVE PickInv'
<1>1. CASE Store \/ UNCHANGED <<storeVars, sortVars, predVars>>
  <2>1. UNCHANGED <<file, request, rated, workingset, sorted, ws_walker, recs, answer, doing>>
    BY <1>1, StoreKeepsFile DEF Store, predVars, storeVars
  <2>2. Picking => Picking'
    BY <2>1, SamePicking
  <2>3. \A list : Serialized(request, list)' = Serialized(request, list)
    BY <2>1, SameAnswer
  <2> QED  BY <2>1, <2>2, <2>3 DEF PickInv, PicksAnswered
<1>2. ASSUME NEW q \in Requests, AskRecs(q) \/ AskSingle(q) PROVE PickInv'
  <2>1. /\ file' = file /\ doing = "idle" /\ recs = <<>>
        /\ \/ doing' = "tally" /\ recs' = recs
           \/ doing' = "serialize" /\ recs' = <<>>
           \/ doing' = "serialize" /\ request'.kind = "single"
           \/ doing' = "astray"
    BY <1>2 DEF PickInv, AskRecs, AskSingle, Begin, Predict, NoPrediction, Astray, storeVars
  <2> QED  BY <2>1 DEF PickInv, PicksAnswered
<1>3. CASE Tally \/ Composite
  <2>1. /\ file' = file /\ doing = "tally" /\ recs' = recs /\ request' = request
        /\ \/ doing' \in {"tally", "rank"}
           \/ doing' = "single" /\ request.kind = "single"
    BY <1>3 DEF Tally, Composite, storeVars
  <2> QED  BY <2>1 DEF PickInv, PicksAnswered
<1>4. CASE Rank
  <2>1. file' = file /\ doing' = "pick"
    BY <1>4 DEF Rank, storeVars
  <2> QED  BY <1>4, <2>1, RankBegins DEF PickInv, PicksAnswered
<1>5. CASE Pick1
  <2>1. file' = file /\ doing = "pick" /\ Len(recs) < RECS_BUCKET_SIZE
    BY <1>5 DEF Pick1, storeVars
  <2>2. CASE doing' = "pick"
    BY <1>5, <2>1, <2>2, Pick1Keeps DEF PickInv, PicksAnswered
  <2>3. CASE doing' # "pick"
    <3>1. /\ doing' = "overrun" /\ ws_walker > file.num_elts
          /\ UNCHANGED <<file, request, workingset, sorted, recs, ws_walker>>
      BY <1>5, <2>1, <2>3 DEF Pick1, storeVars
    <3>2. Picking'
      BY <2>1, <3>1, SamePicking DEF PickInv
    <3> QED  BY <2>1, <3>1, <3>2 DEF PickInv, PicksAnswered
  <2> QED  BY <2>2, <2>3
<1>6. CASE Picked
  <2>1. /\ UNCHANGED <<file, request, workingset, sorted, recs, ws_walker>>
        /\ doing = "pick" /\ doing' = "serialize" /\ Len(recs) = RECS_BUCKET_SIZE
    BY <1>6 DEF Picked, storeVars
  <2>2. Picking'
    BY <2>1, SamePicking DEF PickInv
  <2> QED  BY <2>1, <2>2 DEF PickInv, PicksAnswered
<1>7. CASE Single
  <2>1. file' = file /\ request' = request /\ doing = "single" /\ doing' = "serialize"
    BY <1>7 DEF Single, storeVars
  <2> QED  BY <2>1 DEF PickInv, PicksAnswered
<1>8. CASE Reply
  <2>1. file' = file /\ doing' = "idle" /\ recs' = <<>>
    BY <1>8 DEF Reply, storeVars
  <2> QED  BY <2>1 DEF PickInv, PicksAnswered
<1>9. CASE Strays \/ SerializeNull
  <2>1. file' = file /\ doing' \in {"astray", "crashed"}
    BY <1>9 DEF Strays, Astray, SerializeNull, storeVars
  <2> QED  BY <2>1 DEF PickInv, PicksAnswered
<1>10. CASE Serialize
  <2>1. /\ UNCHANGED <<file, request, workingset, sorted, recs, ws_walker>>
        /\ doing = "serialize" /\ doing' = "send" /\ answer' = Serialized(request, recs)
    BY <1>10 DEF Serialize, storeVars
  <2>2. Picking => Picking'
    BY <2>1, SamePicking
  <2>3. \A list : Serialized(request, list)' = Serialized(request, list)
    BY <2>1, SameAnswer
  <2> QED  BY <2>1, <2>2, <2>3 DEF PickInv, PicksAnswered
<1> QED  BY <1>1, <1>2, <1>3, <1>4, <1>5, <1>6, <1>7, <1>8, <1>9, <1>10 DEF PredNext, Serve

\* As many different elements as recommendations.
Chosen(m) == {recs[k].elt : k \in 1..m}

LEMMA PicksDiffer ==
    ASSUME file \in Files, Picking, NEW m \in 0..Len(recs)
    PROVE  IsFiniteSet(Chosen(m)) /\ Cardinality(Chosen(m)) = m
<1> DEFINE chosen == Chosen(m)
           f == [i \in 1..m |-> recs[i].elt]
<1>1. PICK pos : ArePicks(recs, pos, ws_walker - 1)
  BY DEF Picking
<1>2. recs \in Seq({Rec(e) : e \in Elts}) /\ 1..m \subseteq 1..Len(recs) /\ m \in Nat
  BY DEF Picking
<1>3. \A i, j \in 1..m : i # j => recs[i].elt # recs[j].elt
  <2> SUFFICES ASSUME NEW i \in 1..m, NEW j \in 1..m, i # j PROVE recs[i].elt # recs[j].elt
    OBVIOUS
  <2>1. recs[i].elt = sorted[pos[i]] /\ recs[j].elt = sorted[pos[j]]
    <3>1. recs[i] = Rec(sorted[pos[i]]) /\ recs[j] = Rec(sorted[pos[j]])
      BY <1>1, <1>2 DEF ArePicks
    <3>2. \A e : Rec(e).elt = e
      BY DEF Rec
    <3> QED  BY <3>1, <3>2
  <2>2. 1..ws_walker - 1 \subseteq Elts
    BY EltsFacts DEF Picking
  <2>3. pos[i] \in 1..ws_walker - 1 /\ pos[j] \in 1..ws_walker - 1
    BY <1>1, <1>2 DEF ArePicks
  <2>4. pos[i] # pos[j]
    <3>1. i < j \/ j < i
      BY <1>2
    <3>2. i < j => pos[i] < pos[j]
      BY <1>1, <1>2 DEF ArePicks
    <3>3. j < i => pos[j] < pos[i]
      BY <1>1, <1>2 DEF ArePicks
    <3> QED  BY <2>3, <3>1, <3>2, <3>3
  <2>5. pos[i] \in Elts /\ pos[j] \in Elts
    BY <2>2, <2>3
  <2> QED  BY <2>1, <2>4, <2>5 DEF Picking, Ranked
<1>4. f \in Bijection(1..m, chosen)
  <2>1. f \in [1..m -> chosen] /\ \A i \in 1..m : f[i] = recs[i].elt
    BY <1>2 DEF Chosen
  <2>2. \A e \in chosen : \E i \in 1..m : f[i] = e
    BY <1>2, <2>1 DEF Chosen
  <2> HIDE DEF f, chosen
  <2>3. DOMAIN f = 1..m
    BY <2>1
  <2>4. IsInjective(f)
    BY <1>3, <2>1, <2>3 DEF IsInjective
  <2> QED  BY <2>1, <2>2, <2>4 DEF Bijection, Injection, Surjection
<1> HIDE DEF f, chosen
<1>5. IsFiniteSet(1..m) /\ Cardinality(1..m) = m
  BY <1>2, FS_Interval
<1>6. ExistsBijection(1..m, chosen)
  BY <1>4 DEF ExistsBijection
<1>7. IsFiniteSet(chosen) /\ Cardinality(chosen) = m
  BY <1>5, <1>6, FS_Bijection
<1> QED  BY <1>7 DEF chosen

\* What of the picks is known when the walk ends at n.
LEMMA PicksAreBest ==
    ASSUME file \in Files, Picking
    PROVE  /\ \A k \in DOMAIN recs : Pop(recs[k].elt) <= TargetPop /\ recs[k] = Rec(recs[k].elt)
           /\ \A j, k \in DOMAIN recs : j < k => ~Better(recs[k].elt, recs[j].elt)
           /\ \A e \in Elts \ Chosen(Len(recs)) : Pop(e) <= TargetPop =>
                 \A k \in DOMAIN recs : ~Better(e, recs[k].elt)
           /\ ws_walker > file.num_elts => {e \in Elts : Pop(e) <= TargetPop} \subseteq Chosen(Len(recs))
<1> DEFINE chosen == Chosen(Len(recs))
           n == ws_walker - 1
<1>1. PICK pos : ArePicks(recs, pos, n)
  BY DEF Picking
<1>2. /\ DOMAIN recs = 1..Len(recs) /\ Elts = 1..file.num_elts /\ file.num_elts \in Nat
      /\ n \in Nat /\ 1..n \subseteq Elts /\ ws_walker = n + 1
  BY EltsFacts DEF Picking
<1> HIDE DEF n
<1>3. \A k \in DOMAIN recs : /\ pos[k] \in 1..n /\ pos[k] \in Elts /\ recs[k].elt = sorted[pos[k]]
                             /\ Wanted(recs[k].elt) /\ recs[k] = Rec(recs[k].elt)
  <2> SUFFICES ASSUME NEW k \in DOMAIN recs
               PROVE  /\ pos[k] \in 1..n /\ pos[k] \in Elts /\ recs[k].elt = sorted[pos[k]]
                      /\ Wanted(recs[k].elt) /\ recs[k] = Rec(recs[k].elt)
    OBVIOUS
  <2>1. recs[k] = Rec(sorted[pos[k]]) /\ Wanted(sorted[pos[k]]) /\ pos[k] \in 1..n
    BY <1>1, <1>2 DEF ArePicks
  <2>2. Rec(sorted[pos[k]]).elt = sorted[pos[k]]
    BY DEF Rec
  <2> QED  BY <1>2, <2>1, <2>2
<1>4. \A j, k \in DOMAIN recs : j < k => ~Better(recs[k].elt, recs[j].elt)
  <2> SUFFICES ASSUME NEW j \in DOMAIN recs, NEW k \in DOMAIN recs, j < k
               PROVE  ~Better(recs[k].elt, recs[j].elt)
    OBVIOUS
  <2>1. pos[j] < pos[k]
    BY <1>1, <1>2 DEF ArePicks
  <2>2. ~Better(sorted[pos[k]], sorted[pos[j]])
    BY <1>3, <2>1 DEF Picking, Ranked
  <2> QED  BY <1>3, <2>2
<1>5. ASSUME NEW e \in Elts, e \notin chosen, Wanted(e) PROVE \E k \in Elts : sorted[k] = e /\ k > n
  <2>1. PICK k \in Elts : sorted[k] = e
    BY DEF Picking, Ranked
  <2>2. ASSUME k \in 1..n PROVE FALSE
    <3>1. PICK i \in 1..Len(recs) : pos[i] = k
      BY <1>1, <1>5, <2>1, <2>2 DEF ArePicks
    <3>2. recs[i].elt = e /\ i \in DOMAIN recs
      BY <1>2, <1>3, <2>1, <3>1
    <3>3. e \in chosen
      BY <1>2, <3>2 DEF Chosen
    <3> QED  BY <1>5, <3>3
  <2>3. k > n
    BY <1>2, <2>2
  <2> QED  BY <2>1, <2>3
<1> HIDE DEF chosen
<1>6. \A e \in Elts \ chosen : Wanted(e) => \A k \in DOMAIN recs : ~Better(e, recs[k].elt)
  <2> SUFFICES ASSUME NEW e \in Elts, e \notin chosen, Wanted(e), NEW k \in DOMAIN recs
               PROVE  ~Better(e, recs[k].elt)
    OBVIOUS
  <2>1. PICK p \in Elts : sorted[p] = e /\ p > n
    BY <1>5
  <2>2. pos[k] \in Elts /\ pos[k] < p /\ recs[k].elt = sorted[pos[k]]
    BY <1>2, <1>3, <2>1
  <2>3. ~Better(sorted[p], sorted[pos[k]])
    BY <2>2 DEF Picking, Ranked
  <2> QED  BY <2>1, <2>2, <2>3
<1>7. ASSUME ws_walker > file.num_elts, NEW e \in Elts, Wanted(e) PROVE e \in chosen
  <2>1. CASE e \notin chosen
    <3>1. PICK k \in Elts : k > n
      BY <1>5, <1>7, <2>1
    <3> QED  BY <1>2, <1>7, <3>1
  <2> QED  BY <2>1
<1>8. /\ \A k \in DOMAIN recs : Pop(recs[k].elt) <= TargetPop /\ recs[k] = Rec(recs[k].elt)
      /\ \A e \in Elts \ chosen : Pop(e) <= TargetPop => \A k \in DOMAIN recs : ~Better(e, recs[k].elt)
      /\ ws_walker > file.num_elts => {e \in Elts : Pop(e) <= TargetPop} \subseteq chosen
  BY <1>3, <1>6, <1>7 DEF Wanted
<1> QED  BY <1>4, <1>8 DEF chosen

\* What is sent of a list.
LEMMA AnswerIs ==
    ASSUME NEW q, NEW S, NEW list \in Seq(S), NEW size \in 0..Len(list),
           size = IF q.kind = "json" /\ list # <<>> THEN num_recs_to_make ELSE Len(list)
    PROVE  /\ Len(Serialized(q, list)) = size /\ DOMAIN Serialized(q, list) = 1..size
           /\ \A k \in 1..size : /\ Serialized(q, list)[k].elt = list[k].elt
                                 /\ Serialized(q, list)[k].rating = Shown(q, list[k].rating)
<1> DEFINE sent(k) == [elt |-> list[k].elt, rating |-> Shown(q, list[k].rating)]
<1>1. Serialized(q, list) = [k \in 1..size |-> sent(k)]
  BY DEF Serialized
<1>2. size \in Nat
  OBVIOUS
<1>3. \A k \in 1..size : sent(k).elt = list[k].elt /\ sent(k).rating = Shown(q, list[k].rating)
  OBVIOUS
<1> HIDE DEF sent
<1>4. Len([k \in 1..size |-> sent(k)]) = size
  BY <1>2
<1> QED  BY <1>1, <1>3, <1>4

LEMMA NothingSent == \A q : Serialized(q, <<>>) = <<>>
<1> SUFFICES ASSUME NEW q PROVE Serialized(q, <<>>) = <<>>
  OBVIOUS
<1>1. Serialized(q, <<>>) = [k \in 1..0 |-> [elt |-> <<>>[k].elt, rating |-> Shown(q, <<>>[k].rating)]]
  BY DEF Serialized
<1> HIDE DEF Shown
<1> QED  BY <1>1

\* The beginning of the picks is sent.
LEMMA AnswerIsBest ==
    ASSUME PickInv, doing = "send", request.kind # "single", answer # <<>>
    PROVE  /\ Picking /\ Len(recs) = RECS_BUCKET_SIZE /\ AnswerSize \in 0..Len(recs)
           /\ Len(answer) = AnswerSize /\ DOMAIN answer = 1..AnswerSize
           /\ \A k \in 1..AnswerSize : /\ k \in DOMAIN recs /\ answer[k].elt = recs[k].elt
                                       /\ answer[k].rating = Shown(request, recs[k].rating)
<1>1. answer = Serialized(request, recs)
  BY DEF PickInv
<1>2. recs # <<>>
  BY <1>1, NothingSent
<1>3. Picking /\ Len(recs) = RECS_BUCKET_SIZE
  BY <1>2 DEF PickInv, PicksAnswered
<1>4. /\ recs \in Seq({Rec(e) : e \in Elts}) /\ DOMAIN recs = 1..Len(recs)
      /\ AnswerSize \in 0..Len(recs) /\ 1..AnswerSize \subseteq 1..Len(recs)
  <2>1. recs \in Seq({Rec(e) : e \in Elts})
    BY <1>3 DEF Picking
  <2>2. RECS_BUCKET_SIZE \in Nat /\ num_recs_to_make \in 1..RECS_BUCKET_SIZE
    BY PredictionsAssumption
  <2>3. AnswerSize \in 1..RECS_BUCKET_SIZE \/ AnswerSize = RECS_BUCKET_SIZE
    BY <2>2 DEF AnswerSize
  <2>4. DOMAIN recs = 1..Len(recs)
    BY <2>1
  <2>5. AnswerSize \in 0..RECS_BUCKET_SIZE /\ 1..AnswerSize \subseteq 1..RECS_BUCKET_SIZE
    BY <2>2, <2>3
  <2> QED  BY <1>3, <2>1, <2>4, <2>5
<1>5. AnswerSize = IF request.kind = "json" /\ recs # <<>> THEN num_recs_to_make ELSE Len(recs)
  BY <1>2, <1>3 DEF AnswerSize
<1> DEFINE size == AnswerSize
<1> HIDE DEF size
<1>6. /\ Len(answer) = size /\ DOMAIN answer = 1..size
      /\ \A k \in 1..size : answer[k].elt = recs[k].elt /\ answer[k].rating = Shown(request, recs[k].rating)
  <2>1. size \in 0..Len(recs) /\ size = IF request.kind = "json" /\ recs # <<>> THEN num_recs_to_make ELSE Len(recs)
    BY <1>4, <1>5 DEF size
  <2> DEFINE S == {Rec(e) : e \in Elts}
  <2>2. recs \in Seq(S)
    BY <1>4
  <2> HIDE DEF S
  <2> QED  BY <1>1, <2>1, <2>2, AnswerIs
<1> QED  BY <1>3, <1>4, <1>6 DEF size

LEMMA PicksAreRight == PickInv => RecsAreBest
<1> SUFFICES ASSUME PickInv PROVE RecsAreBest
  OBVIOUS
<1> DEFINE all == Chosen(Len(recs))
           chosen == {answer[k].elt : k \in DOMAIN answer}
           wanted == {e \in Elts : Pop(e) <= TargetPop}
<1>1. file \in Files /\ RECS_BUCKET_SIZE \in Nat
  BY PredictionsAssumption DEF PickInv
<1>2. ASSUME Picking
      PROVE  /\ \A k \in DOMAIN recs : Pop(recs[k].elt) <= TargetPop /\ recs[k] = Rec(recs[k].elt)
             /\ \A j, k \in DOMAIN recs : j < k => ~Better(recs[k].elt, recs[j].elt)
             /\ \A e \in Elts \ all : Pop(e) <= TargetPop => \A k \in DOMAIN recs : ~Better(e, recs[k].elt)
             /\ ws_walker > file.num_elts => wanted \subseteq all
  BY <1>1, <1>2, PicksAreBest
<1> HIDE DEF all, chosen, wanted
<1>3. ASSUME doing = "overrun" PROVE ~Enough
  <2>1. Picking /\ ws_walker > file.num_elts /\ Len(recs) < RECS_BUCKET_SIZE
    BY <1>3 DEF PickInv
  <2>2. Len(recs) \in Nat
    BY <2>1 DEF Picking
  <2>3. IsFiniteSet(all) /\ Cardinality(all) = Len(recs) /\ wanted \subseteq all
    <3>1. Len(recs) \in 0..Len(recs)
      BY <2>2
    <3> QED  BY <1>1, <1>2, <2>1, <3>1, PicksDiffer DEF all
  <2>4. Cardinality(wanted) <= Len(recs)
    BY <2>3, FS_Subset
  <2>5. IsFiniteSet(wanted) /\ Cardinality(wanted) \in Nat
    BY <2>3, FS_Subset, FS_CardinalityType
  <2>6. ~(Cardinality(wanted) >= RECS_BUCKET_SIZE)
    BY <1>1, <2>1, <2>2, <2>4, <2>5
  <2> QED  BY <2>6 DEF Enough, wanted
<1>4. ASSUME doing = "send", request.kind # "single", answer # <<>>
      PROVE  /\ Len(answer) = AnswerSize /\ Cardinality(chosen) = AnswerSize
             /\ \A k \in DOMAIN answer : Pop(answer[k].elt) <= TargetPop
             /\ \A j, k \in DOMAIN answer : j < k => ~Better(answer[k].elt, answer[j].elt)
             /\ \A e \in Elts \ chosen : Pop(e) <= TargetPop =>
                   \A k \in DOMAIN answer : ~Better(e, answer[k].elt)
             /\ \A k \in DOMAIN answer : answer[k].rating = Shown(request, Rec(answer[k].elt).rating)
  <2> DEFINE size == AnswerSize
  <2>1. /\ Picking /\ Len(recs) = RECS_BUCKET_SIZE /\ size \in 0..Len(recs)
        /\ Len(answer) = size /\ DOMAIN answer = 1..size
        /\ \A k \in 1..size : /\ k \in DOMAIN recs /\ answer[k].elt = recs[k].elt
                              /\ answer[k].rating = Shown(request, recs[k].rating)
    BY <1>4, AnswerIsBest
  <2> HIDE DEF size
  <2>2. chosen = Chosen(size)
    <3>1. \A k \in 1..size : answer[k].elt = recs[k].elt
      BY <2>1
    <3>2. {answer[k].elt : k \in 1..size} = {recs[k].elt : k \in 1..size}
      BY <3>1
    <3> QED  BY <2>1, <3>2 DEF chosen, Chosen
  <2>3. Cardinality(chosen) = size
    BY <1>1, <2>1, <2>2, PicksDiffer
  <2>4. \A k \in 1..size : /\ Pop(answer[k].elt) <= TargetPop
                           /\ answer[k].rating = Shown(request, Rec(answer[k].elt).rating)
    <3> SUFFICES ASSUME NEW k \in 1..size
                 PROVE  /\ Pop(answer[k].elt) <= TargetPop
                        /\ answer[k].rating = Shown(request, Rec(answer[k].elt).rating)
      OBVIOUS
    <3>1. k \in DOMAIN recs /\ answer[k].elt = recs[k].elt /\ answer[k].rating = Shown(request, recs[k].rating)
      BY <2>1
    <3>2. Pop(recs[k].elt) <= TargetPop /\ recs[k] = Rec(recs[k].elt)
      BY <1>2, <2>1, <3>1
    <3>3. recs[k].rating = Rec(answer[k].elt).rating
      BY <3>1, <3>2
    <3> QED  BY <3>1, <3>2, <3>3
  <2>5. \A j, k \in 1..size : j < k => ~Better(answer[k].elt, answer[j].elt)
    BY <1>2, <2>1
  <2>6. ASSUME NEW e \in Elts, e \notin chosen, Pop(e) <= TargetPop, NEW k \in 1..size
        PROVE  ~Better(e, answer[k].elt)
    <3>1. k \in DOMAIN recs /\ answer[k].elt = recs[k].elt
      BY <2>1
    <3>2. CASE e \notin all
      BY <1>2, <2>1, <2>6, <3>1, <3>2
    <3>3. CASE e \in all
      <4>1. PICK j \in 1..Len(recs) : recs[j].elt = e
        BY <3>3 DEF all, Chosen
      <4>2. j \notin 1..size
        BY <2>2, <2>6, <4>1 DEF Chosen
      <4>3. k < j /\ j \in DOMAIN recs
        <5>1. recs \in Seq({Rec(d) : d \in Elts})
          BY <2>1 DEF Picking
        <5>2. DOMAIN recs = 1..Len(recs) /\ Len(recs) \in Nat
          BY <5>1
        <5> QED  BY <2>1, <4>2, <5>2
      <4> QED  BY <1>2, <2>1, <3>1, <4>1, <4>3
    <3> QED  BY <3>2, <3>3
  <2> QED  BY <2>1, <2>3, <2>4, <2>5, <2>6 DEF size
<1> QED  BY <1>3, <1>4 DEF RecsAreBest, chosen

LEMMA PickInvAlways == PredSpec => []PickInv
<1>1. PredInit => PickInv
  BY DEF PredInit, StoreInit, PickInv, PicksAnswered
<1>2. PickInv /\ [PredNext]_<<storeVars, sortVars, predVars>> => PickInv'
  BY NextKeepsPickInv
<1> QED  BY <1>1, <1>2, PTL DEF PredSpec

\* What is sent for a request for recommendations are AnswerSize different
\* elements of the target popularity, best first, with none better left out,
\* each with its prediction on the output scale, whatever the predictions and
\* however qsort() settles ties; in JSON they are the first num_recs_to_make
\* of the RECS_BUCKET_SIZE that were picked.  The walk leaves the working set
\* only when there are too few such elements.
THEOREM RecommendsTheBest == PredSpec => []RecsAreBest
  BY PickInvAlways, PicksAreRight, PTL
-----------------------------------------------------------------------------
(* What one rating says of an element: the entries found in the two stores   *)
(* are those of the lines that pair the two.                                 *)

PairsOf(u, e) == {k \in DOMAIN lines : lines[k].x = u /\ lines[k].y = e}

\* A sum over at most one element.
LEMMA SumOfFew ==
    ASSUME NEW fun
    PROVE  /\ SumOver(fun, {}) = 0
           /\ \A a : fun[a] \in Int => SumOver(fun, {a}) = fun[a]
<1>1. IsFiniteSet({}) /\ \A x \in {} : fun[x] \in Int
  BY FS_EmptySet
<1>2. SumOver(fun, {}) = 0
  BY <1>1, SumPick
<1>3. ASSUME NEW a, fun[a] \in Int PROVE SumOver(fun, {a}) = fun[a]
  <2>1. IsFiniteSet({a}) /\ (\A x \in {a} : fun[x] \in Int) /\ {a} \ {a} = {} /\ a \in {a}
    BY <1>3, FS_Singleton
  <2>2. SumOver(fun, {a}) = fun[a] + SumOver(fun, {a} \ {a})
    BY <2>1, SumTakesOut
  <2>3. SumOver(fun, {a}) = fun[a] + 0
    BY <1>2, <2>1, <2>2
  <2> QED  BY <1>3, <2>3
<1> QED  BY <1>2, <1>3

LEMMA GainOfFew ==
    ASSUME NEW e, NEW entries, NEW rates
    PROVE  /\ HitsIn(entries, e) = {} => Gain(e, entries, rates) = [accum |-> 0, count |-> 0]
           /\ \A v : OnlyHit(entries, e, v) /\ rates[v.so] \in Int =>
                        Gain(e, entries, rates) = [accum |-> rates[v.so], count |-> 1]
<1> DEFINE hits == HitsIn(entries, e)
           fun == [k \in hits |-> rates[entries[k].so]]
<1>1. Gain(e, entries, rates) = [accum |-> SumOver(fun, hits), count |-> Cardinality(hits)]
  <2>1. Gain(e, entries, rates) = [accum |-> SumFunction(fun), count |-> Cardinality(hits)]
    BY DEF Gain, HitsIn
  <2>2. SumFunction(fun) = SumOver(fun, DOMAIN fun) /\ DOMAIN fun = hits
    BY SumUnfolds
  <2> QED  BY <2>1, <2>2
<1>2. ASSUME hits = {} PROVE Gain(e, entries, rates) = [accum |-> 0, count |-> 0]
  <2>1. SumOver(fun, {}) = 0 /\ Cardinality({}) = 0
    BY SumOfFew, FS_EmptySet
  <2> HIDE DEF fun
  <2> QED  BY <1>1, <1>2, <2>1
<1>3. ASSUME NEW v, OnlyHit(entries, e, v), rates[v.so] \in Int
      PROVE  Gain(e, entries, rates) = [accum |-> rates[v.so], count |-> 1]
  <2>1. PICK k \in DOMAIN entries : hits = {k} /\ entries[k] = v
    BY <1>3 DEF OnlyHit
  <2>2. fun[k] = rates[v.so]
    BY <2>1
  <2> HIDE DEF fun, hits
  <2>3. SumOver(fun, {k}) = rates[v.so] /\ Cardinality({k}) = 1
    BY <1>3, <2>2, SumOfFew, FS_Singleton
  <2> QED  BY <1>1, <2>1, <2>3
<1> QED  BY <1>2, <1>3

LEMMA PlaceIs ==
    ASSUME file \in Files, NEW k \in 1..ncv PROVE PlaceByY(k) = YPlace(k)
<1> DEFINE l == lines[k]
           key(j) == <<lines[j].y, lines[j].x>>
           S == {j \in DOMAIN lines : Before(lines[j], lines[k])}
           T == {q \in YPairs : Smaller(q, key(k))}
           f == [j \in S |-> key(j)]
<1>1. lines \in Seq(Line) /\ ncv \in Nat /\ DOMAIN lines = 1..ncv
  BY FileFacts
<1>2. \A j \in 1..ncv : Before(lines[j], lines[k]) <=> Smaller(key(j), key(k))
  BY DEF Before, Smaller
<1>3. YPairs = {key(j) : j \in 1..ncv}
  BY <1>1 DEF YPairs, Range
<1>4. \A i, j \in 1..ncv : key(i) = key(j) => i = j
  BY LinesDiffer
<1>5. S \subseteq 1..ncv /\ IsFiniteSet(S)
  <2>1. IsFiniteSet(1..ncv)
    <3>1. 1 \in Int /\ ncv \in Int
      BY <1>1
    <3> QED  BY <3>1, FS_Interval
  <2> QED  BY <1>1, <2>1, FS_Subset
<1>6. \A j \in S : key(j) \in T
  BY <1>1, <1>2, <1>3
<1>7. \A q \in T : \E j \in S : q = key(j)
  <2> SUFFICES ASSUME NEW q \in T PROVE \E j \in S : q = key(j)
    OBVIOUS
  <2>1. PICK j \in 1..ncv : q = key(j)
    BY <1>3
  <2>2. Smaller(key(j), key(k))
    BY <2>1
  <2> QED  BY <1>1, <1>2, <2>1, <2>2
<1> HIDE DEF S, T, key
<1>8. f \in Bijection(S, T)
  <2>1. f \in [S -> T] /\ DOMAIN f = S /\ \A j \in S : f[j] = key(j)
    BY <1>6
  <2> HIDE DEF f
  <2>2. IsInjective(f)
    BY <1>4, <1>5, <2>1 DEF IsInjective
  <2>3. \A q \in T : \E j \in S : f[j] = q
    BY <1>7, <2>1
  <2> QED  BY <2>1, <2>2, <2>3 DEF Bijection, Injection, Surjection
<1>9. ExistsBijection(S, T)
  BY <1>8 DEF ExistsBijection
<1>10. Cardinality(T) = Cardinality(S)
  BY <1>5, <1>9, FS_Bijection
<1> QED  BY <1>10 DEF PlaceByY, YPlace, RankIn, S, T, key

\* The store of the live recgen, as the requests need it.
StoreServes ==
    /\ file \in Files /\ bind_seg \in Bind(Ids) /\ bind_seg_ds \in Bind(Ids)
    /\ StoreOf(bb, bind_seg, XPairs, ncv, file.num_elts, Ids)
    /\ StoreOf(bb_ds, bind_seg_ds, YPairs, ncv, file.num_elts, Ids)
    /\ BeastFits(bb, ncv) /\ DsFits(bb_ds, ncv)
    /\ tiny \in TinyTables

LEMMA ServesWhenLive ==
    ASSUME CopyInv, StoreTypes, StoreInv, CodesInv, step = "live" PROVE StoreServes
  BY DEF CopyInv, StoreTypes, StoreInv, CodesInv, StoreServes

LEMMA BoundedIsInt == ASSUME NEW a \in Int PROVE Bounded(a) \in Int
<1>1. \A x, y \in Int : Min({x, y}) \in {x, y} /\ Max({x, y}) \in {x, y}
  <2> SUFFICES ASSUME NEW x \in Int, NEW y \in Int PROVE Min({x, y}) \in {x, y} /\ Max({x, y}) \in {x, y}
    OBVIOUS
  <2>1. (\E i \in {x, y} : \A j \in {x, y} : i <= j) /\ (\E i \in {x, y} : \A j \in {x, y} : i >= j)
    <3>1. CASE x <= y
      BY <3>1
    <3>2. CASE y <= x
      BY <3>2
    <3> QED  BY <3>1, <3>2
  <2> QED  BY <2>1 DEF Min, Max
<1>2. Min({320, a}) \in Int
  BY <1>1
<1>3. \A y \in Int : Max({10, y}) \in Int
  BY <1>1
<1>4. Max({10, Min({320, a})}) \in Int
  BY <1>2, <1>3
<1> QED  BY <1>4 DEF Bounded

\* What a code says of a rating is a number.
LEMMA RatesAreNumbers ==
    ASSUME tiny \in TinyTables, NEW so, NEW l, CodeFits(so, l), NEW r \in Int
    PROVE  PcryOf(r)[so] \in Int /\ PcrxOf(r)[so] \in Int
<1>1. /\ DOMAIN tiny.slopes = 0..NumBuckets-1 /\ DOMAIN tiny.offsets = 0..NumBuckets-1
      /\ \A k \in 0..NumBuckets-1 : tiny.slopes[k] \in Int /\ tiny.offsets[k] \in Int
  BY DEF TinyTables
<1>2. PICK s \in 0..NumBuckets-1, o \in 0..NumBuckets-1 : so = [s |-> s, o |-> o]
  BY NumbersFit DEF CodeFits, CodeOf
<1>3. so \in Codings /\ so.s = s /\ so.o = o
  BY <1>1, <1>2 DEF Codings
<1> DEFINE m == tiny.slopes[s]
           b == tiny.offsets[o]
<1>4. m \in Int /\ b \in Int
  BY <1>1
<1>5. PcryOf(r)[so] = Pcry(m, b, r) /\ PcrxOf(r)[so] = Pcrx(m, b, r)
  BY <1>3 DEF PcryOf, PcrxOf
<1> HIDE DEF m, b
<1>6. Pcry(m, b, r) \in Int
  <2>1. r * m + b \in Int
    BY <1>4
  <2> QED  BY <2>1, BoundedIsInt DEF Pcry
<1>7. Pcrx(m, b, r) \in Int
  <2>1. 10 * (10 * r - b) \in Int
    BY <1>4
  <2>2. (IF m = 0 THEN 0 ELSE RoundDiv(10 * (10 * r - b), m)) \in Int
    <3> HIDE DEF RoundDiv
    <3> QED  BY <1>4, <2>1, RoundDivInt
  <2> QED  BY <2>2, BoundedIsInt DEF Pcrx
<1> QED  BY <1>5, <1>6, <1>7

\* At most one line is of a pair.
LEMMA PairsAreFew ==
    ASSUME file \in Files, NEW u, NEW e
    PROVE  \/ PairsOf(u, e) = {} /\ <<u, e>> \notin XPairs /\ <<e, u>> \notin YPairs
           \/ \E k \in 1..ncv : /\ PairsOf(u, e) = {k} /\ lines[k].x = u /\ lines[k].y = e
                                /\ <<u, e>> \in XPairs /\ <<e, u>> \in YPairs
<1>1. DOMAIN lines = 1..ncv
  BY FileFacts
<1>2. \A k \in 1..ncv : lines[k] \in Range(lines)
  BY <1>1 DEF Range
<1>3. CASE \E k \in 1..ncv : lines[k].x = u /\ lines[k].y = e
  <2>1. PICK k \in 1..ncv : lines[k].x = u /\ lines[k].y = e
    BY <1>3
  <2>2. PairsOf(u, e) = {k}
    BY <1>1, <2>1, LinesDiffer DEF PairsOf
  <2>3. <<u, e>> \in XPairs /\ <<e, u>> \in YPairs
    BY <1>2, <2>1 DEF XPairs, YPairs
  <2> QED  BY <2>1, <2>2, <2>3
<1>4. CASE ~\E k \in 1..ncv : lines[k].x = u /\ lines[k].y = e
  <2>1. PairsOf(u, e) = {}
    BY <1>1, <1>4 DEF PairsOf
  <2>2. \A l \in Range(lines) : ~(l.x = u /\ l.y = e)
    BY <1>1, <1>4 DEF Range
  <2>3. <<u, e>> \notin XPairs /\ <<e, u>> \notin YPairs
    BY <2>2 DEF XPairs, YPairs
  <2> QED  BY <2>1, <2>3
<1> QED  BY <1>3, <1>4

\* What the file says of a pair.
AsX(u, e, r) == [count |-> Cardinality(PairsOf(u, e)),
                 accum |-> SumFunction([k \in PairsOf(u, e) |-> PcryOf(r)[bb[k-1].so]])]
AsY(u, e, r) == [count |-> Cardinality(PairsOf(e, u)),
                 accum |-> SumFunction([k \in PairsOf(e, u) |-> PcrxOf(r)[bb_ds[PlaceByY(k)].so]])]

LEMMA OpinionsAre ==
    ASSUME NEW u, NEW e, NEW r
    PROVE  Opinions(u, e, r) = [count |-> AsX(u, e, r).count + AsY(u, e, r).count,
                                accum |-> AsX(u, e, r).accum + AsY(u, e, r).accum]
<1>1. {k \in DOMAIN lines : lines[k].y = u /\ lines[k].x = e} = PairsOf(e, u)
  BY DEF PairsOf
<1> QED  BY <1>1 DEF Opinions, AsX, AsY, PairsOf

LEMMA AsXIs ==
    ASSUME StoreServes, NEW u \in Ids, NEW e, NEW r \in Int
    PROVE  /\ Gain(e, Found(bb, bind_seg, u), PcryOf(r)) = AsX(u, e, r)
           /\ AsX(u, e, r).count \in Nat /\ AsX(u, e, r).accum \in Int
           /\ PairsOf(u, e) = {} => AsX(u, e, r).count = 0 /\ AsX(u, e, r).accum = 0
<1> DEFINE found == Found(bb, bind_seg, u)
           fun == [k \in PairsOf(u, e) |-> PcryOf(r)[bb[k-1].so]]
<1>1. /\ file \in Files /\ ncv \in Nat /\ bind_seg \in Bind(Ids)
      /\ StoreOf(bb, bind_seg, XPairs, ncv, file.num_elts, Ids)
  BY FileFacts DEF StoreServes
<1>2. /\ <<u, e>> \in XPairs => OnlyHit(found, e, bb[RankIn(XPairs, <<u, e>>)])
      /\ <<u, e>> \notin XPairs => HitsIn(found, e) = {}
  BY <1>1, Hits
<1>3. AsX(u, e, r) = [count |-> Cardinality(PairsOf(u, e)), accum |-> SumOver(fun, PairsOf(u, e))]
  BY SumUnfolds DEF AsX
<1> HIDE DEF found
<1>4. CASE PairsOf(u, e) = {} /\ <<u, e>> \notin XPairs
  <2>1. Gain(e, found, PcryOf(r)) = [accum |-> 0, count |-> 0]
    BY <1>2, <1>4, GainOfFew
  <2>2. SumOver(fun, {}) = 0 /\ Cardinality({}) = 0
    BY SumOfFew, FS_EmptySet
  <2> HIDE DEF fun
  <2>3. AsX(u, e, r) = [count |-> 0, accum |-> 0]
    BY <1>3, <1>4, <2>2
  <2> QED  BY <2>1, <2>3 DEF found
<1>5. CASE \E k \in 1..ncv : /\ PairsOf(u, e) = {k} /\ lines[k].x = u /\ lines[k].y = e /\ <<u, e>> \in XPairs
  <2>1. PICK k \in 1..ncv : PairsOf(u, e) = {k} /\ lines[k].x = u /\ lines[k].y = e /\ <<u, e>> \in XPairs
    BY <1>5
  <2>2. RankIn(XPairs, <<u, e>>) = k - 1
    BY <1>1, <2>1, LineRank
  <2> DEFINE v == bb[k-1]
             a == PcryOf(r)[v.so]
  <2>3. OnlyHit(found, e, v)
    BY <1>2, <2>1, <2>2
  <2>4. CodeFits(v.so, lines[k])
    BY <1>1, <2>1 DEF StoreServes, BeastFits
  <2>5. a \in Int
    <3>1. tiny \in TinyTables
      BY DEF StoreServes
    <3> QED  BY <2>4, <3>1, RatesAreNumbers
  <2>6. fun[k] = a
    BY <2>1
  <2>7. Gain(e, found, PcryOf(r)) = [accum |-> a, count |-> 1]
    BY <2>3, <2>5, GainOfFew
  <2> HIDE DEF fun, a
  <2>8. SumOver(fun, {k}) = a /\ Cardinality({k}) = 1
    BY <2>5, <2>6, SumOfFew, FS_Singleton
  <2>9. AsX(u, e, r) = [count |-> 1, accum |-> a]
    BY <1>3, <2>1, <2>8
  <2>10. PairsOf(u, e) # {}
    BY <2>1
  <2> QED  BY <2>5, <2>7, <2>9, <2>10 DEF found
<1>6. \/ PairsOf(u, e) = {} /\ <<u, e>> \notin XPairs
      \/ \E k \in 1..ncv : /\ PairsOf(u, e) = {k} /\ lines[k].x = u /\ lines[k].y = e /\ <<u, e>> \in XPairs
  BY <1>1, PairsAreFew
<1> HIDE DEF fun
<1> QED  BY <1>4, <1>5, <1>6

LEMMA AsYIs ==
    ASSUME StoreServes, NEW u \in Ids, NEW e, NEW r \in Int
    PROVE  /\ Gain(e, Found(bb_ds, bind_seg_ds, u), PcrxOf(r)) = AsY(u, e, r)
           /\ AsY(u, e, r).count \in Nat /\ AsY(u, e, r).accum \in Int
           /\ PairsOf(e, u) = {} => AsY(u, e, r).count = 0 /\ AsY(u, e, r).accum = 0
<1> DEFINE found == Found(bb_ds, bind_seg_ds, u)
           fun == [k \in PairsOf(e, u) |-> PcrxOf(r)[bb_ds[PlaceByY(k)].so]]
<1>1. /\ file \in Files /\ ncv \in Nat /\ bind_seg_ds \in Bind(Ids)
      /\ StoreOf(bb_ds, bind_seg_ds, YPairs, ncv, file.num_elts, Ids)
  BY FileFacts DEF StoreServes
<1>2. /\ <<u, e>> \in YPairs => OnlyHit(found, e, bb_ds[RankIn(YPairs, <<u, e>>)])
      /\ <<u, e>> \notin YPairs => HitsIn(found, e) = {}
  BY <1>1, Hits
<1>3. AsY(u, e, r) = [count |-> Cardinality(PairsOf(e, u)), accum |-> SumOver(fun, PairsOf(e, u))]
  BY SumUnfolds DEF AsY
<1> HIDE DEF found
<1>4. CASE PairsOf(e, u) = {} /\ <<u, e>> \notin YPairs
  <2>1. Gain(e, found, PcrxOf(r)) = [accum |-> 0, count |-> 0]
    BY <1>2, <1>4, GainOfFew
  <2>2. SumOver(fun, {}) = 0 /\ Cardinality({}) = 0
    BY SumOfFew, FS_EmptySet
  <2> HIDE DEF fun
  <2>3. AsY(u, e, r) = [count |-> 0, accum |-> 0]
    BY <1>3, <1>4, <2>2
  <2> QED  BY <2>1, <2>3 DEF found
<1>5. CASE \E k \in 1..ncv : /\ PairsOf(e, u) = {k} /\ lines[k].x = e /\ lines[k].y = u /\ <<u, e>> \in YPairs
  <2>1. PICK k \in 1..ncv : PairsOf(e, u) = {k} /\ lines[k].x = e /\ lines[k].y = u /\ <<u, e>> \in YPairs
    BY <1>5
  <2>2. RankIn(YPairs, <<u, e>>) = YPlace(k) /\ PlaceByY(k) = YPlace(k)
    BY <1>1, <2>1, PlaceIs DEF YPlace
  <2> DEFINE v == bb_ds[YPlace(k)]
             a == PcrxOf(r)[v.so]
  <2>3. OnlyHit(found, e, v)
    BY <1>2, <2>1, <2>2
  <2>4. CodeFits(v.so, lines[k])
    <3>1. YPlace(k) \in 0..ncv-1
      BY <1>1, YPlaceIs DEF StoreOf
    <3> QED  BY <2>1, <3>1 DEF StoreServes, DsFits
  <2>5. a \in Int
    <3>1. tiny \in TinyTables
      BY DEF StoreServes
    <3> QED  BY <2>4, <3>1, RatesAreNumbers
  <2>6. fun[k] = a
    BY <2>1, <2>2
  <2>7. Gain(e, found, PcrxOf(r)) = [accum |-> a, count |-> 1]
    BY <2>3, <2>5, GainOfFew
  <2> HIDE DEF fun, a
  <2>8. SumOver(fun, {k}) = a /\ Cardinality({k}) = 1
    BY <2>5, <2>6, SumOfFew, FS_Singleton
  <2>9. AsY(u, e, r) = [count |-> 1, accum |-> a]
    BY <1>3, <2>1, <2>8
  <2>10. PairsOf(e, u) # {}
    BY <2>1
  <2> QED  BY <2>5, <2>7, <2>9, <2>10 DEF found
<1>6. \/ PairsOf(e, u) = {} /\ <<u, e>> \notin YPairs
      \/ \E k \in 1..ncv : /\ PairsOf(e, u) = {k} /\ lines[k].x = e /\ lines[k].y = u /\ <<u, e>> \in YPairs
  BY <1>1, PairsAreFew
<1> HIDE DEF fun
<1> QED  BY <1>4, <1>5, <1>6

\* The stores say of a pair what the file says, and nothing of an element
\* with itself.
LEMMA HeardIsOpinions ==
    ASSUME StoreServes, NEW u \in Ids, NEW e, NEW r \in Int
    PROVE  /\ Heard(e, u, r).count = Opinions(u, e, r).count /\ Heard(e, u, r).accum = Opinions(u, e, r).accum
           /\ Opinions(u, e, r).count \in Nat /\ Opinions(u, e, r).accum \in Int
           /\ e = u => Opinions(u, e, r).count = 0 /\ Opinions(u, e, r).accum = 0
<1> DEFINE x == AsX(u, e, r)
           y == AsY(u, e, r)
<1>1. /\ Gain(e, Found(bb, bind_seg, u), PcryOf(r)) = x /\ x.count \in Nat /\ x.accum \in Int
      /\ Gain(e, Found(bb_ds, bind_seg_ds, u), PcrxOf(r)) = y /\ y.count \in Nat /\ y.accum \in Int
  BY AsXIs, AsYIs
<1>2. Opinions(u, e, r) = [count |-> x.count + y.count, accum |-> x.accum + y.accum]
  BY OpinionsAre
<1>3. Heard(e, u, r) = [accum |-> y.accum + x.accum, count |-> y.count + x.count]
  BY <1>1 DEF Heard
<1>4. ASSUME e = u PROVE x.count = 0 /\ x.accum = 0 /\ y.count = 0 /\ y.accum = 0
  <2>1. PairsOf(u, u) = {}
    <3>1. DOMAIN lines = 1..ncv /\ \A k \in 1..ncv : lines[k].x # lines[k].y
      <4>1. file \in Files
        BY DEF StoreServes
      <4>2. \A k \in 1..ncv : lines[k].x \in Int /\ lines[k].x < lines[k].y
        <5>1. \A j \in 0..ncv-1 : lines[j+1].x \in Nat /\ lines[j+1].x < lines[j+1].y
          BY <4>1, LineFacts
        <5>2. \A k \in 1..ncv : k - 1 \in 0..ncv-1 /\ (k - 1) + 1 = k
          BY <4>1, FileFacts
        <5> QED  BY <5>1, <5>2
      <4> QED  BY <4>1, <4>2, FileFacts
    <3> QED  BY <3>1 DEF PairsOf
  <2> QED  BY <1>4, <2>1, AsXIs, AsYIs
<1> HIDE DEF x, y
<1> QED  BY <1>1, <1>2, <1>3, <1>4

-----------------------------------------------------------------------------
(* What the ratings say together.                                            *)

\* What the rating number k says of element e.
Said(e, k) == Opinions(rated[k].elt, e, rated[k].rating)

Ratings == [elt : Nat, rating : Nat]
Rated   == rated \in Seq(Ratings)

\* The ratings that tally() does not go astray with.
Heeded     == {k \in DOMAIN rated : Known(rated[k])}
HeedsTo(n) == 1..n \subseteq Heeded

\* The first n ratings are counted in.
Tallied(n) == \A e \in Elts : /\ workingset[e].count = Total(e, 1..n).count
                              /\ workingset[e].accum = Total(e, 1..n).accum

Predicted(e) == Average(Total(e, DOMAIN rated))

\* An answer to a single request that is about an element.
AnsweredSingle ==
    doing \in {"serialize", "send"} /\ request.kind = "single" /\ recs # <<>> /\ request.target \in Elts

\* The inductive invariant of the tally, given what holds of the store.
TallyInv ==
    /\ doing # "idle" => step = "live"
    /\ doing = "tally" =>
          Rated /\ ws_walker \in 1..Len(rated)+1 /\ HeedsTo(ws_walker - 1) /\ Tallied(ws_walker - 1)
    /\ doing \in {"rank", "pick", "overrun"} => request.kind # "single"
    /\ doing = "single" =>
          Rated /\ HeedsTo(Len(rated)) /\ \A e \in Elts : workingset[e].rating = Predicted(e)
    /\ AnsweredSingle =>
          /\ Rated /\ HeedsTo(Len(rated))
          /\ recs = <<[elt |-> request.target, rating |-> RoundDiv(Predicted(request.target), 10)]>>

\* A sequence and what it is made of.
LEMMA SeqFacts ==
    ASSUME NEW S, NEW s \in Seq(S)
    PROVE  /\ DOMAIN s = 1..Len(s) /\ Len(s) \in Nat
           /\ \A k \in DOMAIN s : s[k] \in S
           /\ \A n \in Int : n <= Len(s) => SubSeq(s, 1, n) \in Seq(S)
<1>1. DOMAIN s = 1..Len(s) /\ Len(s) \in Nat /\ \A k \in 1..Len(s) : s[k] \in S
  OBVIOUS
<1>2. ASSUME NEW n \in Int, n <= Len(s) PROVE SubSeq(s, 1, n) \in Seq(S)
  <2>1. SubSeq(s, 1, n) = [i \in 1..n |-> s[i]]
    BY <1>1, <1>2
  <2> QED  BY <1>1, <1>2
<1> QED  BY <1>1, <1>2

LEMMA SeqFrom ==
    ASSUME NEW S, NEW m \in Nat, NEW s \in [1..m -> S]
    PROVE  s \in Seq(S)
  OBVIOUS

LEMMA RatedFacts ==
    ASSUME StoreServes, Rated
    PROVE  /\ IsFiniteSet(DOMAIN rated) /\ DOMAIN rated = 1..Len(rated) /\ Len(rated) \in Nat
           /\ IsFiniteSet(Heeded) /\ Heeded \subseteq DOMAIN rated
           /\ \A k \in Heeded : rated[k].elt \in Ids /\ rated[k].rating \in Int
<1>1. DOMAIN rated = 1..Len(rated) /\ Len(rated) \in Nat
  BY SeqFacts DEF Rated
<1>2. \A k \in Heeded : rated[k].elt \in Ids /\ rated[k].rating \in Int
  BY DEF Heeded, Known
<1>3. Heeded \subseteq DOMAIN rated
  BY DEF Heeded
<1>4. IsFiniteSet(1..Len(rated))
  <2>1. 1 \in Int /\ Len(rated) \in Int
    BY <1>1
  <2> QED  BY <2>1, FS_Interval
<1>5. IsFiniteSet(Heeded)
  BY <1>1, <1>3, <1>4, FS_Subset
<1> QED  BY <1>1, <1>2, <1>3, <1>4, <1>5

LEMMA SaidFacts ==
    ASSUME StoreServes, Rated, NEW e, NEW k \in Heeded
    PROVE  /\ Said(e, k).count \in Nat /\ Said(e, k).accum \in Int
           /\ Heard(e, rated[k].elt, rated[k].rating).count = Said(e, k).count
           /\ Heard(e, rated[k].elt, rated[k].rating).accum = Said(e, k).accum
           /\ rated[k].elt = e => Said(e, k).count = 0 /\ Said(e, k).accum = 0
<1>1. rated[k].elt \in Ids /\ rated[k].rating \in Int
  BY RatedFacts
<1> QED  BY <1>1, HeardIsOpinions DEF Said

Counted(e, S) == SumOver([k \in S |-> Said(e, k).count], S)
Added(e, S)   == SumOver([k \in S |-> Said(e, k).accum], S)

LEMMA TotalIs ==
    ASSUME NEW e, NEW S PROVE Total(e, S) = [count |-> Counted(e, S), accum |-> Added(e, S)]
<1>1. Total(e, S) = [count |-> SumFunction([k \in S |-> Said(e, k).count]),
                     accum |-> SumFunction([k \in S |-> Said(e, k).accum])]
  BY DEF Total, Said
<1> QED  BY <1>1, SumUnfolds DEF Counted, Added

\* The ratings can be counted in any order.
LEMMA TotalTakesOut ==
    ASSUME StoreServes, Rated, NEW e, NEW S \in SUBSET Heeded
    PROVE  /\ Total(e, S).count \in Int /\ Total(e, S).accum \in Int
           /\ \A k \in S : /\ Total(e, S).count = Said(e, k).count + Total(e, S \ {k}).count
                           /\ Total(e, S).accum = Said(e, k).accum + Total(e, S \ {k}).accum
           /\ S = {} => Total(e, S).count = 0 /\ Total(e, S).accum = 0
<1> DEFINE c(T) == [k \in T |-> Said(e, k).count]
           a(T) == [k \in T |-> Said(e, k).accum]
<1>1. \A T \in SUBSET S : /\ IsFiniteSet(T)
                          /\ \A k \in T : /\ c(T)[k] \in Int /\ c(T)[k] = Said(e, k).count
                                          /\ a(T)[k] \in Int /\ a(T)[k] = Said(e, k).accum
  <2>1. \A k \in S : Said(e, k).count \in Int /\ Said(e, k).accum \in Int
    BY SaidFacts
  <2>2. \A T \in SUBSET S : IsFiniteSet(T)
    <3>1. IsFiniteSet(Heeded)
      BY RatedFacts
    <3> QED  BY <3>1, FS_Subset
  <2> QED  BY <2>1, <2>2
<1>2. \A T : Total(e, T).count = SumOver(c(T), T) /\ Total(e, T).accum = SumOver(a(T), T)
  BY TotalIs DEF Counted, Added
<1> HIDE DEF c, a
<1>3. /\ SumOver(c(S), S) \in Int /\ SumOver(a(S), S) \in Int
      /\ S = {} => SumOver(c(S), S) = 0 /\ SumOver(a(S), S) = 0
  BY <1>1, SumPick
<1>4. ASSUME NEW k \in S
      PROVE  /\ SumOver(c(S), S) = Said(e, k).count + SumOver(c(S \ {k}), S \ {k})
             /\ SumOver(a(S), S) = Said(e, k).accum + SumOver(a(S \ {k}), S \ {k})
  <2> DEFINE T == S \ {k}
  <2>1. /\ SumOver(c(S), S) = c(S)[k] + SumOver(c(S), T)
        /\ SumOver(a(S), S) = a(S)[k] + SumOver(a(S), T)
    BY <1>1, SumTakesOut
  <2>2. T \in SUBSET S /\ S \in SUBSET S
    OBVIOUS
  <2>3. IsFiniteSet(T) /\ \A j \in T : /\ c(S)[j] \in Int /\ c(T)[j] = c(S)[j]
                                       /\ a(S)[j] \in Int /\ a(T)[j] = a(S)[j]
    BY <1>1, <2>2
  <2> HIDE DEF T
  <2>4. SumOver(c(S), T) = SumOver(c(T), T) /\ SumOver(a(S), T) = SumOver(a(T), T)
    BY <2>3, SumSame
  <2> QED  BY <1>1, <2>1, <2>2, <2>4 DEF T
<1> QED  BY <1>2, <1>3, <1>4

\* The ratings of an element say nothing of the element.
LEMMA OwnRatingIsSilent ==
    ASSUME StoreServes, Rated, HeedsTo(Len(rated)), NEW e
    PROVE  Predicted(e) = Average(Total(e, {k \in DOMAIN rated : rated[k].elt # e}))
<1> DEFINE others == {k \in DOMAIN rated : rated[k].elt # e}
           Same(T) == Total(e, T) = Total(e, others)
           Bad == {T \in SUBSET DOMAIN rated : others \subseteq T /\ ~Same(T)}
<1>0. DOMAIN rated = Heeded
  BY RatedFacts DEF HeedsTo
<1>1. \A T \in SUBSET DOMAIN rated : IsFiniteSet(T)
  <2>1. IsFiniteSet(DOMAIN rated)
    BY RatedFacts
  <2> QED  BY <2>1, FS_Subset
<1>2. ASSUME Bad # {} PROVE FALSE
  <2>1. \A T \in Bad : IsFiniteSet(T)
    BY <1>1
  <2> HIDE DEF Same
  <2>2. PICK T \in Bad : \A U \in Bad : Cardinality(T) <= Cardinality(U)
    <3> HIDE DEF Bad
    <3> QED  BY <1>2, <2>1, FewestExist
  <2>3. PICK k \in T : k \in DOMAIN rated /\ k \notin others
    <3>1. T # others
      BY DEF Same
    <3> QED  BY <3>1
  <2> DEFINE U == T \ {k}
  <2>4. U \in SUBSET DOMAIN rated /\ others \subseteq U
    BY <2>3
  <2>5. Same(U)
    <3>1. Cardinality(T) \in Nat /\ Cardinality(U) = Cardinality(T) - 1
      BY <2>1, Fewer
    <3> HIDE DEF U
    <3>2. U \notin Bad
      BY <2>2, <3>1
    <3> QED  BY <2>4, <3>2
  <2>6. Said(e, k).count = 0 /\ Said(e, k).accum = 0
    BY <1>0, <2>3, SaidFacts
  <2>7. Total(e, T).count = Total(e, U).count /\ Total(e, T).accum = Total(e, U).accum
    <3>1. /\ Total(e, T).count = Said(e, k).count + Total(e, U).count
          /\ Total(e, T).accum = Said(e, k).accum + Total(e, U).accum
      BY <1>0, TotalTakesOut
    <3>2. Total(e, U).count \in Int /\ Total(e, U).accum \in Int
      BY <1>0, <2>4, TotalTakesOut
    <3> QED  BY <2>6, <3>1, <3>2
  <2>8. Total(e, T) = Total(e, U)
    <3>1. \A V : Total(e, V) = [count |-> Counted(e, V), accum |-> Added(e, V)]
      BY TotalIs
    <3> QED  BY <2>7, <3>1
  <2> QED  BY <2>5, <2>8 DEF Same
<1>3. Same(DOMAIN rated)
  BY <1>2
<1> QED  BY <1>3 DEF Predicted

LEMMA SameTotals ==
    ASSUME UNCHANGED <<file, bb, bb_ds, tiny, rated>>
    PROVE  /\ Elts' = Elts /\ Rated' = Rated /\ Heeded' = Heeded /\ \A n : HeedsTo(n)' = HeedsTo(n)
           /\ \A e, S : Total(e, S)' = Total(e, S)
           /\ \A e : Predicted(e)' = Predicted(e)
<1>1. lines' = lines /\ Elts' = Elts
  BY DEF lines, Elts
<1>2. Rated' = Rated /\ Heeded' = Heeded /\ \A n : HeedsTo(n)' = HeedsTo(n)
  BY DEF Rated, Ratings, HeedsTo, Heeded, Known, Ids
<1>3. \A r : PcryOf(r)' = PcryOf(r) /\ PcrxOf(r)' = PcrxOf(r)
  BY DEF PcryOf, PcrxOf, Codings
<1>4. \A k : PlaceByY(k)' = PlaceByY(k)
  BY <1>1 DEF PlaceByY
<1>5. \A u, e, r : Opinions(u, e, r)' = Opinions(u, e, r)
  BY <1>1, <1>3, <1>4 DEF Opinions
<1>6. \A e, S : Total(e, S)' = Total(e, S)
  BY <1>5 DEF Total
<1>7. \A e : Predicted(e)' = Predicted(e)
  BY <1>6 DEF Predicted
<1> QED  BY <1>1, <1>2, <1>6, <1>7

LEMMA LimitedIs == ASSUME NEW n \in Int PROVE Limited(n) \in Int /\ Limited(n) <= n
<1>1. MAX_RATS_PER_PERSON \in Int
  BY PredictionsAssumption
<1>2. ASSUME NEW m \in Int PROVE Min({n, m}) \in Int /\ Min({n, m}) <= n
  <2>1. \E i \in {n, m} : \A j \in {n, m} : i <= j
    <3>1. CASE n <= m
      BY <3>1
    <3>2. CASE m <= n
      BY <3>2
    <3> QED  BY <3>1, <3>2
  <2>2. Min({n, m}) \in {n, m} /\ \A j \in {n, m} : Min({n, m}) <= j
    BY <2>1 DEF Min
  <2> QED  BY <2>2
<1> QED  BY <1>1, <1>2 DEF Limited

\* The ratings of a person are there, and no more than those are read.
LEMMA PersonsRatings ==
    ASSUME file \in Files, NEW p \in 0..file.num_people, NEW n, n = Limited(NumRats(p))
    PROVE  RatingsOf(p, n) \in Seq(Ratings)
<1> DEFINE rats == file.big_rat
           R == [userId : Nat \ {0}, eltid : 1..file.num_elts, rating : 1..32]
           of(q) == {k \in DOMAIN rats : rats[k].userId = q}
<1>1. /\ IsRatings(file) /\ file.num_people \in Nat
      /\ rats \in Seq(R)
      /\ {rats[k].userId : k \in DOMAIN rats} = 1..file.num_people
  BY PredictionsAssumption DEF IsRatings
<1> HIDE DEF R
<1>2. DOMAIN rats = 1..Len(rats) /\ Len(rats) \in Nat /\ \A k \in DOMAIN rats : rats[k] \in R
  BY <1>1, SeqFacts
<1>3. ASSUME NEW q \in 1..file.num_people PROVE BigRatIndex(q) \in 0..Len(rats)-1
  <2>1. of(q) # {} /\ of(q) \subseteq 1..Len(rats) /\ of(q) \subseteq Nat
    <3>1. \E k \in DOMAIN rats : q = rats[k].userId
      <4>1. q \in {rats[k].userId : k \in DOMAIN rats}
        BY <1>1
      <4> QED  BY <4>1
    <3> QED  BY <1>2, <3>1
  <2> HIDE DEF of
  <2>2. \E i \in of(q) : \A j \in of(q) : i <= j
    BY <2>1, MinExists
  <2>3. Min(of(q)) \in of(q)
    BY <2>2 DEF Min
  <2>4. Min(of(q)) \in 1..Len(rats)
    BY <2>1, <2>3
  <2>5. BigRatIndex(q) = Min(of(q)) - 1
    <3>1. q # 0
      BY <1>1
    <3> QED  BY <3>1 DEF BigRatIndex, of
  <2> QED  BY <1>2, <2>4, <2>5
<1> DEFINE from == BigRatIndex(p)
<1>4. from \in 0..Len(rats)
  <2>1. CASE p = 0
    BY <1>2, <2>1 DEF BigRatIndex
  <2>2. CASE p \in 1..file.num_people
    <3>1. from \in 0..Len(rats)-1
      BY <1>3, <2>2
    <3> QED  BY <1>2, <3>1
  <2> QED  BY <1>1, <2>1, <2>2
<1>5. NumRats(p) \in Int /\ from + NumRats(p) <= Len(rats)
  <2> DEFINE end == IF p # file.num_people THEN BigRatIndex(p + 1) ELSE Len(rats)
  <2>1. end \in Int /\ end <= Len(rats)
    <3>1. CASE p # file.num_people
      <4>1. p + 1 \in 1..file.num_people
        BY <1>1, <3>1
      <4>2. BigRatIndex(p + 1) \in 0..Len(rats)-1
        BY <1>3, <4>1
      <4> QED  BY <1>2, <3>1, <4>2
    <3>2. CASE p = file.num_people
      BY <1>2, <3>2
    <3> QED  BY <3>1, <3>2
  <2>2. NumRats(p) = end - from
    BY DEF NumRats
  <2> HIDE DEF end, from
  <2> QED  BY <1>2, <1>4, <2>1, <2>2
<1>6. n \in Int /\ n <= NumRats(p)
  BY <1>5, LimitedIs
<1> HIDE DEF from
<1>7. ASSUME NEW k \in 1..n
      PROVE  [elt |-> rats[from + k].eltid, rating |-> rats[from + k].rating] \in Ratings
  <2>1. from + k \in 1..Len(rats)
    BY <1>2, <1>4, <1>5, <1>6
  <2>2. rats[from + k] \in R
    BY <1>2, <2>1
  <2>3. \A r \in R : [elt |-> r.eltid, rating |-> r.rating] \in Ratings
    BY DEF R, Ratings
  <2> QED  BY <2>2, <2>3
<1>8. PICK m \in Nat : 1..n = 1..m
  <2>1. CASE n \in Nat
    BY <2>1
  <2>2. CASE n < 0
    <3>1. 1..n = 1..0
      BY <1>6, <2>2
    <3> QED  BY <3>1
  <2> QED  BY <1>6, <2>1, <2>2
<1>9. RatingsOf(p, n) = [k \in 1..m |-> [elt |-> rats[from + k].eltid, rating |-> rats[from + k].rating]]
  BY <1>8 DEF RatingsOf, from
<1>10. RatingsOf(p, n) \in [1..m -> Ratings]
  <2> DEFINE g(k) == [elt |-> rats[from + k].eltid, rating |-> rats[from + k].rating]
  <2>1. \A k \in 1..m : g(k) \in Ratings
    BY <1>7, <1>8
  <2>2. RatingsOf(p, n) = [k \in 1..m |-> g(k)]
    BY <1>9
  <2> HIDE DEF g
  <2> QED  BY <2>1, <2>2
<1> QED  BY <1>10, SeqFrom

\* The ratings that come with a request.
LEMMA RequestsRatings ==
    ASSUME NEW q \in Requests, q.kind = "json", NEW n, n = Limited(Len(q.ratings))
    PROVE  SubSeq(q.ratings, 1, n) \in Seq(Ratings)
<1>1. q.ratings \in Seq(Ratings)
  BY PredictionsAssumption DEF IsRequest, Ratings
<1>2. n \in Int /\ n <= Len(q.ratings)
  <2>1. Len(q.ratings) \in Int
    BY <1>1, SeqFacts
  <2> QED  BY <2>1, LimitedIs
<1> QED  BY <1>1, <1>2, SeqFacts

LEMMA StoreStops == step = "live" => ~StoreNext
  BY DEF StoreNext, Refuse, FirstPass, ReadLine, ExportBeast, SortCopy, Wrecked, Sort, Sorted, CopyValence,
         ExportDs, Load

LEMMA ServeLeavesAll == Serve => UNCHANGED <<file, step, bb, bb_ds, tiny>>
  BY ServeLeavesStore DEF storeVars

LEMMA TotalOfNone == \A e : Total(e, {}).count = 0 /\ Total(e, {}).accum = 0
<1> SUFFICES ASSUME NEW e PROVE Total(e, {}).count = 0 /\ Total(e, {}).accum = 0
  OBVIOUS
<1>1. \A f, S : S = {} => SumOver(f, S) = 0
  BY SumOfFew
<1>2. Counted(e, {}) = 0 /\ Added(e, {}) = 0
  BY <1>1 DEF Counted, Added
<1>3. Total(e, {}) = [count |-> 0, accum |-> 0]
  BY <1>2, TotalIs
<1> QED  BY <1>3

\* Nothing is counted in yet.
LEMMA PredictBegins ==
    ASSUME StoreServes, NEW ratings \in Seq(Ratings), NEW q, Predict(q, ratings),
           UNCHANGED <<file, bb, bb_ds, tiny>>
    PROVE  Rated' /\ ws_walker' \in 1..Len(rated')+1 /\ HeedsTo(ws_walker - 1)' /\ Tallied(ws_walker - 1)'
<1>1. rated' = ratings /\ workingset' = EmptySet /\ ws_walker' = 1
  BY DEF Predict
<1>2. Elts' = Elts /\ Ratings' = Ratings
  BY DEF Elts, Ratings
<1>3. Rated' /\ Len(rated') \in Nat
  <2>1. Len(ratings) \in Nat
    BY SeqFacts
  <2> QED  BY <1>1, <1>2, <2>1 DEF Rated
<1>4. (\A e : Total(e, {}).count = 0 /\ Total(e, {}).accum = 0)'
  BY TotalOfNone, PTL
<1>5. 1..0 = {} /\ ws_walker' - 1 = 0
  BY <1>1
<1>6. Tallied(ws_walker - 1)'
  BY <1>1, <1>2, <1>4, <1>5 DEF Tallied, EmptySet
<1>7. HeedsTo(ws_walker - 1)'
  BY <1>5 DEF HeedsTo
<1> QED  BY <1>1, <1>3, <1>6, <1>7

\* One rating more.
LEMMA TallyKeeps ==
    ASSUME StoreServes, TallyInv, Tally
    PROVE  Rated' /\ ws_walker' \in 1..Len(rated')+1 /\ HeedsTo(ws_walker - 1)' /\ Tallied(ws_walker - 1)'
<1> DEFINE n == ws_walker
<1>1. /\ Rated /\ n \in 1..Len(rated) /\ HeedsTo(n - 1) /\ Tallied(n - 1) /\ ws_walker' = n + 1 /\ rated' = rated
  <2>1. Rated /\ n \in 1..Len(rated)+1 /\ n <= Len(rated) /\ HeedsTo(n - 1) /\ Tallied(n - 1)
    BY DEF TallyInv, Tally
  <2>2. Len(rated) \in Nat
    BY <2>1, RatedFacts
  <2>3. n \in 1..Len(rated)
    BY <2>1, <2>2
  <2> QED  BY <2>1, <2>3 DEF Tally
<1>2. UNCHANGED <<file, bb, bb_ds, tiny, rated>>
  BY <1>1, ServeLeavesAll DEF Serve
<1>3. Elts' = Elts /\ Rated' = Rated /\ \A e, S : Total(e, S)' = Total(e, S)
  BY <1>2, SameTotals
<1>4. n \in Heeded /\ 1..n \subseteq Heeded /\ (1..n) \ {n} = 1..n-1 /\ n \in 1..n
  <2>1. n \in Heeded
    BY <1>1, RatedFacts DEF Heeded, Tally
  <2>2. 1..n-1 \subseteq Heeded
    BY <1>1 DEF HeedsTo
  <2>3. n \in Nat \ {0}
    <3>1. Len(rated) \in Nat
      BY <1>1, RatedFacts
    <3> QED  BY <1>1, <3>1
  <2> HIDE DEF n
  <2> QED  BY <2>1, <2>2, <2>3
<1>5. ASSUME NEW e \in Elts
      PROVE  workingset'[e].count = Total(e, 1..n).count /\ workingset'[e].accum = Total(e, 1..n).accum
  <2> DEFINE gain == Heard(e, rated[n].elt, rated[n].rating)
  <2>1. /\ workingset'[e].count = workingset[e].count + gain.count
        /\ workingset'[e].accum = workingset[e].accum + gain.accum
    <3> HIDE DEF Heard
    <3> QED  BY DEF Tally
  <2>2. gain.count = Said(e, n).count /\ gain.accum = Said(e, n).accum
        /\ Said(e, n).count \in Int /\ Said(e, n).accum \in Int
    BY <1>1, <1>4, SaidFacts
  <2> HIDE DEF gain
  <2>3. workingset[e].count = Total(e, 1..n-1).count /\ workingset[e].accum = Total(e, 1..n-1).accum
    BY <1>1 DEF Tallied
  <2>4. /\ Total(e, 1..n).count = Said(e, n).count + Total(e, (1..n) \ {n}).count
        /\ Total(e, 1..n).accum = Said(e, n).accum + Total(e, (1..n) \ {n}).accum
    <3> DEFINE W == 1..n
    <3>1. Rated /\ W \in SUBSET Heeded /\ n \in W
      BY <1>1, <1>4
    <3> HIDE DEF n, W
    <3>2. /\ Total(e, W).count = Said(e, n).count + Total(e, W \ {n}).count
          /\ Total(e, W).accum = Said(e, n).accum + Total(e, W \ {n}).accum
      BY <3>1, TotalTakesOut
    <3> QED  BY <3>2 DEF W
  <2>5. Total(e, 1..n-1).count \in Int /\ Total(e, 1..n-1).accum \in Int
    <3> DEFINE U == 1..n-1
    <3>1. Rated /\ U \in SUBSET Heeded
      BY <1>1, <1>4
    <3> HIDE DEF U
    <3>2. Total(e, U).count \in Int /\ Total(e, U).accum \in Int
      BY <3>1, TotalTakesOut
    <3> QED  BY <3>2 DEF U
  <2>6. /\ Total(e, 1..n).count = Said(e, n).count + Total(e, 1..n-1).count
        /\ Total(e, 1..n).accum = Said(e, n).accum + Total(e, 1..n-1).accum
    BY <1>4, <2>4
  <2> HIDE DEF n
  <2> QED  BY <2>1, <2>2, <2>3, <2>5, <2>6
<1>6. ws_walker' - 1 = n /\ ws_walker' \in 1..Len(rated')+1
  <2>1. Len(rated) \in Nat
    BY <1>1, RatedFacts
  <2> QED  BY <1>1, <2>1
<1>7. Tallied(ws_walker - 1)'
  BY <1>3, <1>5, <1>6 DEF Tallied
<1>8. HeedsTo(ws_walker - 1)'
  <2>1. 1..n \subseteq Heeded /\ Heeded' = Heeded
    BY <1>2, <1>4, SameTotals
  <2>2. 1..(ws_walker' - 1) \subseteq Heeded'
    BY <1>6, <2>1
  <2> QED  BY <2>2 DEF HeedsTo
<1> QED  BY <1>1, <1>3, <1>6, <1>7, <1>8

LEMMA CompositeEnds ==
    ASSUME StoreServes, TallyInv, Composite
    PROVE  Rated' /\ HeedsTo(Len(rated))' /\ \A e \in Elts' : workingset'[e].rating = Predicted(e)'
<1>1. /\ Rated /\ ws_walker \in 1..Len(rated)+1 /\ ws_walker > Len(rated)
      /\ HeedsTo(ws_walker - 1) /\ Tallied(ws_walker - 1)
      /\ rated' = rated
  BY DEF TallyInv, Composite
<1>2. ws_walker - 1 = Len(rated) /\ DOMAIN rated = 1..Len(rated)
  BY <1>1, RatedFacts
<1>3. UNCHANGED <<file, bb, bb_ds, tiny, rated>>
  BY <1>1, ServeLeavesAll DEF Serve
<1>4. Elts' = Elts /\ Rated' = Rated /\ \A e : Predicted(e)' = Predicted(e)
  BY <1>3, SameTotals
<1>5. ASSUME NEW e \in Elts PROVE workingset'[e].rating = Predicted(e)
  <2>1. workingset'[e].rating = Average(workingset[e])
    BY DEF Composite
  <2>2. workingset[e].count = Total(e, DOMAIN rated).count /\ workingset[e].accum = Total(e, DOMAIN rated).accum
    BY <1>1, <1>2 DEF Tallied
  <2>3. Average(workingset[e]) = Average(Total(e, DOMAIN rated))
    BY <2>2 DEF Average
  <2> QED  BY <2>1, <2>3 DEF Predicted
<1>6. HeedsTo(Len(rated))'
  <2>1. \A n : HeedsTo(n)' = HeedsTo(n)
    BY <1>3, SameTotals
  <2> QED  BY <1>1, <1>2, <2>1
<1> QED  BY <1>1, <1>4, <1>5, <1>6

LEMMA NextKeepsTallyInv ==
    ASSUME step = "live" => StoreServes, TallyInv, [PredNext]_<<storeVars, sortVars, predVars>> PROVE TallyInv'
<1>1. CASE UNCHANGED <<storeVars, sortVars, predVars>>
  <2>1. UNCHANGED <<file, bb, bb_ds, tiny, step, request, rated, workingset, ws_walker, recs, doing>>
    BY <1>1 DEF storeVars, predVars
  <2>2. Elts' = Elts /\ Rated' = Rated /\ \A e, S : Total(e, S)' = Total(e, S)
    BY <2>1, SameTotals
  <2>6. \A n : HeedsTo(n)' = HeedsTo(n)
    BY <2>1, SameTotals
  <2>3. \A e : Predicted(e)' = Predicted(e)
    BY <2>1, SameTotals
  <2>4. Tallied(ws_walker - 1)' <=> Tallied(ws_walker - 1)
    BY <2>1, <2>2 DEF Tallied
  <2>5. AnsweredSingle' <=> AnsweredSingle
    BY <2>1, <2>2 DEF AnsweredSingle
  <2>7. HeedsTo(ws_walker - 1)' = HeedsTo(ws_walker - 1) /\ HeedsTo(Len(rated))' = HeedsTo(Len(rated))
    BY <2>1, <2>6
  <2> QED  BY <2>1, <2>2, <2>3, <2>4, <2>5, <2>7 DEF TallyInv
<1>2. CASE Store
  <2>1. doing = "idle" /\ doing' = doing
    BY <1>2, StoreStops DEF Store, TallyInv, predVars
  <2> QED  BY <2>1 DEF TallyInv, AnsweredSingle
<1>3. ASSUME NEW q \in Requests, AskRecs(q) \/ AskSingle(q) PROVE TallyInv'
  <2>0. step = "live" /\ step' = "live" /\ StoreServes /\ request' = q /\ UNCHANGED <<file, bb, bb_ds, tiny>>
    <3>1. Serve
      BY <1>3 DEF Serve
    <3> QED  BY <1>3, <3>1, ServeLeavesAll DEF AskRecs, AskSingle, Begin
  <2>1. \/ \E ratings \in Seq(Ratings) : Predict(q, ratings)
        \/ NoPrediction(<<>>) \/ Astray
        \/ NoPrediction(NoRecs) /\ q.target = 0
    <3>1. CASE AskRecs(q) /\ q.kind = "json"
      <4> DEFINE n == Limited(Len(q.ratings))
      <4>1. SubSeq(q.ratings, 1, n) \in Seq(Ratings)
        BY <3>1, RequestsRatings
      <4> QED  BY <3>1, <4>1 DEF AskRecs
    <3>2. CASE q.kind # "json"
      <4>1. q.person \in Nat /\ file.num_people \in Nat
        BY <2>0, <3>2, PredictionsAssumption DEF IsRequest, IsRatings, StoreServes
      <4>2. CASE q.person > file.num_people
        BY <1>3, <3>2, <4>2 DEF AskRecs, AskSingle
      <4>3. CASE ~(q.person > file.num_people)
        <5> DEFINE n == Limited(NumRats(q.person))
        <5>1. q.person \in 0..file.num_people
          BY <4>1, <4>3
        <5>2. RatingsOf(q.person, n) \in Seq(Ratings)
          BY <2>0, <5>1, PersonsRatings DEF StoreServes
        <5> QED  BY <1>3, <3>2, <4>3, <5>2 DEF AskRecs, AskSingle
      <4> QED  BY <4>2, <4>3
    <3>3. CASE AskSingle(q)
      BY <3>2, <3>3 DEF AskSingle
    <3> QED  BY <1>3, <3>1, <3>2, <3>3
  <2>2. CASE \E ratings \in Seq(Ratings) : Predict(q, ratings)
    <3>1. Rated' /\ ws_walker' \in 1..Len(rated')+1 /\ HeedsTo(ws_walker - 1)' /\ Tallied(ws_walker - 1)'
      BY <2>0, <2>2, PredictBegins
    <3>2. doing' = "tally"
      BY <2>2 DEF Predict
    <3> QED  BY <2>0, <3>1, <3>2 DEF TallyInv, AnsweredSingle
  <2>3. CASE NoPrediction(<<>>) \/ Astray \/ (NoPrediction(NoRecs) /\ q.target = 0)
    <3>1. \/ doing' = "serialize" /\ (recs' = <<>> \/ request'.target = 0)
          \/ doing' = "astray"
      BY <2>0, <2>3 DEF NoPrediction, Astray
    <3>2. 0 \notin Elts'
      BY DEF Elts
    <3> QED  BY <2>0, <3>1, <3>2 DEF TallyInv, AnsweredSingle
  <2> QED  BY <2>1, <2>2, <2>3
<1>4. CASE Tally
  <2>1. step = "live" /\ step' = "live" /\ doing' = "tally"
    BY <1>4, ServeLeavesAll DEF Serve, Tally, TallyInv
  <2>2. Rated' /\ ws_walker' \in 1..Len(rated')+1 /\ HeedsTo(ws_walker - 1)' /\ Tallied(ws_walker - 1)'
    BY <1>4, <2>1, TallyKeeps
  <2> QED  BY <2>1, <2>2 DEF TallyInv, AnsweredSingle
<1>5. CASE Composite
  <2>1. /\ step = "live" /\ step' = "live" /\ request' = request
        /\ doing' = IF request.kind = "single" THEN "single" ELSE "rank"
    BY <1>5, ServeLeavesAll DEF Serve, Composite, TallyInv
  <2>2. Rated' /\ HeedsTo(Len(rated))' /\ \A e \in Elts' : workingset'[e].rating = Predicted(e)'
    BY <1>5, <2>1, CompositeEnds
  <2> QED  BY <2>1, <2>2 DEF TallyInv, AnsweredSingle
<1>6. CASE Rank \/ Pick1 \/ Picked
  <2>1. /\ step = "live" /\ step' = "live" /\ request' = request /\ request.kind # "single"
        /\ doing' \in {"pick", "overrun", "serialize"}
    BY <1>6, ServeLeavesAll DEF Serve, Rank, Pick1, Picked, TallyInv
  <2> QED  BY <2>1 DEF TallyInv, AnsweredSingle
<1>7. CASE Single
  <2>1. /\ step = "live" /\ step' = "live" /\ UNCHANGED <<file, bb, bb_ds, tiny, rated, request>>
        /\ Rated /\ HeedsTo(Len(rated)) /\ \A e \in Elts : workingset[e].rating = Predicted(e)
        /\ doing' = "serialize"
    BY <1>7, ServeLeavesAll DEF Serve, Single, TallyInv
  <2>2. Elts' = Elts /\ Rated' = Rated /\ \A e : Predicted(e)' = Predicted(e)
    BY <2>1, SameTotals
  <2>4. HeedsTo(Len(rated))'
    <3>1. \A n : HeedsTo(n)' = HeedsTo(n)
      BY <2>1, SameTotals
    <3> QED  BY <2>1, <3>1
  <2>3. ASSUME request.target \in Elts
        PROVE  recs' = <<[elt |-> request.target, rating |-> RoundDiv(Predicted(request.target), 10)]>>
    <3>1. recs' = <<Rec(request.target)>>
      BY <1>7, <2>3 DEF Single
    <3>2. workingset[request.target].rating = Predicted(request.target)
      BY <2>1, <2>3
    <3> QED  BY <3>1, <3>2 DEF Rec
  <2> QED  BY <2>1, <2>2, <2>3, <2>4 DEF TallyInv, AnsweredSingle
<1>8. CASE Reply
  <2>1. doing' = "idle"
    BY <1>8 DEF Reply
  <2> QED  BY <2>1 DEF TallyInv, AnsweredSingle
<1>9. CASE Strays \/ SerializeNull
  <2>1. step = "live" /\ step' = "live" /\ doing' \in {"astray", "crashed"}
    BY <1>9, ServeLeavesAll DEF Serve, Strays, Astray, SerializeNull, TallyInv
  <2> QED  BY <2>1 DEF TallyInv, AnsweredSingle
<1>10. CASE Serialize
  <2>1. /\ step = "live" /\ step' = "live" /\ UNCHANGED <<file, bb, bb_ds, tiny, rated, request, recs>>
        /\ doing = "serialize" /\ doing' = "send"
    BY <1>10, ServeLeavesAll DEF Serve, Serialize, TallyInv
  <2>2. Elts' = Elts /\ Rated' = Rated /\ \A e : Predicted(e)' = Predicted(e)
    BY <2>1, SameTotals
  <2>3. HeedsTo(Len(rated))' = HeedsTo(Len(rated))
    <3>1. \A n : HeedsTo(n)' = HeedsTo(n)
      BY <2>1, SameTotals
    <3> QED  BY <2>1, <3>1
  <2>4. AnsweredSingle' <=> AnsweredSingle
    BY <2>1, <2>2 DEF AnsweredSingle
  <2> QED  BY <2>1, <2>2, <2>3, <2>4 DEF TallyInv
<1> QED  BY <1>1, <1>2, <1>3, <1>4, <1>5, <1>6, <1>7, <1>8, <1>9, <1>10 DEF PredNext, Serve

LEMMA TallyIsExact == ASSUME StoreServes, TallyInv PROVE TallyExact
<1> SUFFICES ASSUME doing = "tally", ws_walker > Len(rated)
             PROVE  \A e \in Elts : /\ workingset[e].count = Total(e, DOMAIN rated).count
                                    /\ workingset[e].accum = Total(e, DOMAIN rated).accum
  BY DEF TallyExact
<1>1. Rated /\ ws_walker \in 1..Len(rated)+1 /\ Tallied(ws_walker - 1)
  BY DEF TallyInv
<1>2. ws_walker - 1 = Len(rated) /\ DOMAIN rated = 1..Len(rated)
  BY <1>1, RatedFacts
<1> QED  BY <1>1, <1>2 DEF Tallied

\* The list of one is sent as a whole.
LEMMA OneIsSent ==
    ASSUME NEW q, q.kind = "single", NEW r
    PROVE  Serialized(q, <<r>>) = <<[elt |-> r.elt, rating |-> Shown(q, r.rating)]>>
<1>1. Serialized(q, <<r>>) = [k \in 1..1 |-> [elt |-> <<r>>[k].elt, rating |-> Shown(q, <<r>>[k].rating)]]
  BY DEF Serialized
<1>2. \A k \in 1..1 : <<r>>[k] = r
  OBVIOUS
<1> HIDE DEF Shown
<1>3. Serialized(q, <<r>>) = [k \in 1..1 |-> [elt |-> r.elt, rating |-> Shown(q, r.rating)]]
  BY <1>1, <1>2
<1>4. \A v : [k \in 1..1 |-> v] = <<v>>
  OBVIOUS
<1> QED  BY <1>3, <1>4

LEMMA SingleIsAsAsked == ASSUME StoreServes, TallyInv, PickInv PROVE SingleAsAsked
<1> DEFINE target == request.target
           others == {k \in DOMAIN rated : rated[k].elt # target}
           prediction == RoundDiv(Average(Total(target, others)), 10)
<1>1. SUFFICES ASSUME doing = "send", request.kind = "single", answer # <<>>, target \in Elts
               PROVE  answer = <<[elt |-> target, rating |-> Shown(request, prediction)]>>
  BY DEF SingleAsAsked
<1>2. answer = Serialized(request, recs) /\ recs # <<>>
  BY <1>1, NothingSent DEF PickInv
<1>3. /\ Rated /\ HeedsTo(Len(rated))
      /\ recs = <<[elt |-> target, rating |-> RoundDiv(Predicted(target), 10)]>>
  BY <1>1, <1>2 DEF TallyInv, AnsweredSingle
<1>4. Predicted(target) = Average(Total(target, others))
  BY <1>3, OwnRatingIsSilent
<1>5. recs = <<[elt |-> target, rating |-> prediction]>>
  BY <1>3, <1>4
<1> HIDE DEF target, prediction
<1> DEFINE r == [elt |-> target, rating |-> prediction]
<1>6. r.elt = target /\ r.rating = prediction
  OBVIOUS
<1> HIDE DEF r
<1>7. answer = <<[elt |-> r.elt, rating |-> Shown(request, r.rating)]>>
  BY <1>1, <1>2, <1>5, OneIsSent DEF r
<1> QED  BY <1>6, <1>7

LEMMA TallyInvAlways ==
    ASSUME IdsFit PROVE PredSpec => []((step = "live" => StoreServes) /\ TallyInv)
<1>1. PredInit => TallyInv
  BY DEF PredInit, TallyInv, AnsweredSingle
<1>2. CopyInv /\ StoreTypes /\ StoreInv /\ CodesInv => (step = "live" => StoreServes)
  BY ServesWhenLive
<1>3. (step = "live" => StoreServes) /\ TallyInv /\ [PredNext]_<<storeVars, sortVars, predVars>> => TallyInv'
  BY NextKeepsTallyInv
<1>4. StoreSpec => [](CopyInv /\ StoreTypes /\ StoreInv /\ CodesInv)
  BY StoreInvAlways
<1> QED  BY <1>1, <1>2, <1>3, <1>4, PredictionsKeepStore, PTL DEF PredSpec

\* When the loop of tally() is through, the sum and the number kept for every
\* element are those over all lines of valences.out that pair the element with
\* a rated one, each once: through the first pass, both stores and their
\* indexes, and whichever of the two the pair is found in.
THEOREM TalliesEveryLineOnce ==
    ASSUME IdsFit PROVE PredSpec => []TallyExact
<1>1. (step = "live" => StoreServes) /\ TallyInv => TallyExact
  <2>1. TallyInv /\ doing = "tally" => step = "live"
    BY DEF TallyInv
  <2>2. doing # "tally" => TallyExact
    BY DEF TallyExact
  <2> QED  BY <2>1, <2>2, TallyIsExact
<1> QED  BY <1>1, TallyInvAlways, PTL

\* The answer of internal_singlerec() is about the element asked for, and is
\* the prediction from the other ratings of the person, although the loop that
\* should take out the person's rating of the target takes out nothing.
THEOREM SinglesIgnoreOwnRating ==
    ASSUME IdsFit PROVE PredSpec => []SingleAsAsked
<1>1. (step = "live" => StoreServes) /\ TallyInv /\ PickInv => SingleAsAsked
  <2>1. TallyInv /\ doing = "send" => step = "live"
    BY DEF TallyInv
  <2>2. doing # "send" => SingleAsAsked
    BY DEF SingleAsAsked
  <2> QED  BY <2>1, <2>2, SingleIsAsAsked
<1> QED  BY <1>1, TallyInvAlways, PickInvAlways, PTL
=============================================================================
