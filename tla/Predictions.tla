---------------------------- MODULE Predictions ----------------------------
(***************************************************************************)
(* Requests to a live recgen: recs() and internal_singlerec() of           *)
(* src/recgen/main.c collect the ratings of a person, predictions() of     *)
(* src/recgen/predictions.c turns them into predictions for the elements   *)
(* by means of the valence store.  The ratings by person and the           *)
(* popularities are what valgen exports (src/valgen/big_rat.c).            *)
(*                                                                         *)
(* One request is handled at a time and nothing changes beside it; the     *)
(* reload of the store is the subject of ValenceReload.  What a request    *)
(* brings is used unchecked: where that leads out of the arrays, recgen is *)
(* "astray" and nothing more is said of it.                                *)
(***************************************************************************)
EXTENDS ValenceStore

CONSTANTS
    Requests,            \* see IsRequest
    RECS_BUCKET_SIZE,    \* 20: how many recommendations are made
    num_recs_to_make,    \* 5: how many of them JSON answers have
    g_output_scale,      \* 5: recommendations are from 1 to this
    MAX_RATS_PER_PERSON, \* 1000
    NUM_G_POP_GROUPS     \* 7, also HIGHEST_POP_NUMBER

\* With valences.out come the ratings sorted by person, of persons 1, 2, ...
IsRatings(f) ==
    /\ f.num_people \in Nat
    /\ f.big_rat \in Seq([userId : Nat \ {0}, eltid : 1..f.num_elts, rating : 1..32])
    /\ {f.big_rat[k].userId : k \in DOMAIN f.big_rat} = 1..f.num_people
    /\ \A j, k \in DOMAIN f.big_rat : j < k => f.big_rat[j].userId <= f.big_rat[k].userId
    /\ {f.big_rat[k].eltid : k \in DOMAIN f.big_rat} = 1..f.num_elts

\* JSON requests for recommendations bring the ratings along, protobuf ones name
\* a person; a single one, in either protocol, names an element as well.  Which
\* protocol it is, is settled when recgen is started.
IsRequest(q) ==
    \/ q.kind = "json" /\ q.ratings \in Seq([elt : Nat, rating : Nat]) /\ q.pop \in 0..255
    \/ q.kind = "recs" /\ q.person \in Nat /\ q.pop \in 0..255
    \/ q.kind = "single" /\ q.protocol \in {"json", "protobuf"} /\ q.person \in Nat /\ q.target \in Nat
IsJson(q) == \/ q.kind = "json"
             \/ q.kind = "single" /\ q.protocol = "json"

ASSUME PredictionsAssumption ==
    /\ \A f \in Files : IsRatings(f)
    /\ \A q \in Requests : IsRequest(q)
    /\ {RECS_BUCKET_SIZE, MAX_RATS_PER_PERSON, NUM_G_POP_GROUPS, g_output_scale} \subseteq Nat \ {0}
    /\ num_recs_to_make \in 1..RECS_BUCKET_SIZE

VARIABLES
    request,     \* the request in hand, or None
    rated,       \* its ratings
    workingset,  \* g_workingset: what is known of each element
    sorted,      \* the elements in the order of the sorted working set
    ws_walker,   \* loop index, over rated and then over sorted
    recs,        \* the recommendations being made
    answer,      \* what the serializer makes of them
    doing        \* "idle", "tally", "rank", "pick", "single", "serialize", "send",
                 \* "overrun", "astray", "crashed"

predVars == <<request, rated, workingset, sorted, ws_walker, recs, answer, doing>>

Elts == 1..file.num_elts

\* br_index: where the ratings of a person start; there is an entry 0.
BigRatIndex(p) ==
    IF p = 0 THEN 0 ELSE Min({k \in DOMAIN file.big_rat : file.big_rat[k].userId = p}) - 1
NumRats(p) ==
    (IF p # file.num_people THEN BigRatIndex(p + 1) ELSE Len(file.big_rat)) - BigRatIndex(p)
RatingsOf(p, n) ==
    [k \in 1..n |-> [elt    |-> file.big_rat[BigRatIndex(p) + k].eltid,
                     rating |-> file.big_rat[BigRatIndex(p) + k].rating]]
Limited(n) == Min({n, MAX_RATS_PER_PERSON})

\* The popularity that valgen writes for the element with the given rank, the
\* most often rated one first; a number above 9 is written as a character
\* that is read back as 0.
PopOfRank(rank) ==
    LET num_per_group == file.num_elts \div NUM_G_POP_GROUPS
        cur_pop == IF num_per_group = 0 THEN 2 ELSE 1 + (rank - 1) \div num_per_group
    IN IF cur_pop <= 9 THEN cur_pop ELSE 0
TimesRated(e) == Cardinality({k \in DOMAIN file.big_rat : file.big_rat[k].eltid = e})
PopsBefore(d, e) == \/ TimesRated(d) > TimesRated(e)
                    \/ TimesRated(d) = TimesRated(e) /\ d < e
Pop(e) == PopOfRank(1 + Cardinality({d \in Elts : PopsBefore(d, e)}))

PredInit ==
    /\ StoreInit
    /\ request = None /\ rated = <<>> /\ workingset = None /\ sorted = <<>>
    /\ ws_walker = 1 /\ recs = <<>> /\ answer = <<>> /\ doing = "idle"

Store == StoreNext /\ UNCHANGED predVars

EmptySet == [e \in Elts |-> [accum |-> 0, count |-> 0, rating |-> -1]]
NoRecs   == <<[elt |-> 0, rating |-> 0]>>

\* The ratings are there: predictions() is called.
Predict(q, ratings) ==
    /\ rated' = ratings
    /\ workingset' = EmptySet /\ ws_walker' = 1
    /\ doing' = "tally"
    /\ UNCHANGED <<recs, sorted>>

\* There is nothing to predict.
NoPrediction(made) ==
    /\ recs' = made /\ doing' = "serialize"
    /\ UNCHANGED <<rated, workingset, sorted, ws_walker>>

\* An array is read outside of its bounds.
Astray ==
    /\ doing' = "astray"
    /\ UNCHANGED <<rated, workingset, sorted, ws_walker, recs>>

Begin(q) ==
    /\ step = "live" /\ doing = "idle"
    /\ request' = q
    /\ UNCHANGED <<answer, storeVars, sortVars>>

\* recs() with the ratings of the request, or with those of a person.  Only the
\* deserializer for protobuf looks for unknown persons.
AskRecs(q) ==
    /\ q.kind \in {"json", "recs"}
    /\ Begin(q)
    /\ IF q.kind = "recs" /\ q.person > file.num_people THEN NoPrediction(<<>>)
       ELSE LET num_rats == Limited(IF q.kind = "json" THEN Len(q.ratings) ELSE NumRats(q.person))
            IN IF num_rats = 0 THEN NoPrediction(<<>>)
               ELSE Predict(q, IF q.kind = "json" THEN SubSeq(q.ratings, 1, num_rats)
                               ELSE RatingsOf(q.person, num_rats))

\* internal_singlerec().  A person whose ratings start at index 0 counts as
\* unknown.  The loop that is to leave out the rating of the target compares
\* the target with entries that are still zero, so it leaves out all of them
\* if the target is 0 and none otherwise.
AskSingle(q) ==
    /\ q.kind = "single"
    /\ Begin(q)
    /\ IF q.person > file.num_people THEN IF IsJson(q) THEN Astray ELSE NoPrediction(<<>>)
       ELSE IF BigRatIndex(q.person) = 0 THEN NoPrediction(<<>>)
       ELSE IF q.target = 0 THEN NoPrediction(NoRecs)
       ELSE Predict(q, RatingsOf(q.person, Limited(NumRats(q.person))))

\* What one rating says of element e: the valences with the rated element as
\* y predict x, those with it as x predict y.
Gain(e, entries, rates) ==
    LET hits == {k \in DOMAIN entries : entries[k].elt = e}
    IN [accum |-> SumFunction([k \in hits |-> rates[entries[k].so]]), count |-> Cardinality(hits)]

\* What each pair of buckets makes of a rating r: pcry and pcrx.
Codings == [s : DOMAIN tiny.slopes, o : DOMAIN tiny.offsets]
PcryOf(r) == [so \in Codings |-> Pcry(tiny.slopes[so.s], tiny.offsets[so.o], r)]
PcrxOf(r) == [so \in Codings |-> Pcrx(tiny.slopes[so.s], tiny.offsets[so.o], r)]

\* Mutant: the valences with the rated element as y are forgotten.
Heard_AsXOnly(e, u, r) == Gain(e, Found(bb, bind_seg, u), PcryOf(r))

Heard(e, u, r) ==
    LET gx == Gain(e, Found(bb_ds, bind_seg_ds, u), PcrxOf(r))
        gy == Gain(e, Found(bb, bind_seg, u), PcryOf(r))
    IN [accum |-> gx.accum + gy.accum, count |-> gx.count + gy.count]

\* The rating in hand is one that the indexes and the tables have entries for.
Known(r) == r.elt \in Ids /\ r.rating \in 1..32

\* Otherwise tally() goes astray; with the last id it may, since it looks for
\* the next element with valences behind the entry.
Strays ==
    /\ doing = "tally" /\ ws_walker <= Len(rated)
    /\ ~Known(rated[ws_walker]) \/ rated[ws_walker].elt = file.num_elts
    /\ Astray
    /\ UNCHANGED <<request, answer, storeVars, sortVars>>

\* One turn of the loop of tally().
Tally ==
    /\ doing = "tally" /\ ws_walker <= Len(rated)
    /\ Known(rated[ws_walker])
    /\ workingset' = [e \in Elts |->
         LET gain == Heard(e, rated[ws_walker].elt, rated[ws_walker].rating)
         IN [accum  |-> workingset[e].accum + gain.accum,
             count  |-> workingset[e].count + gain.count,
             rating |-> workingset[e].rating]]
    /\ ws_walker' = ws_walker + 1
    /\ UNCHANGED <<request, rated, sorted, recs, answer, doing, storeVars, sortVars>>

\* composite(): the average, or -10 without any valence.
Average(w) == IF w.count < 1 THEN -10 ELSE RoundDiv(w.accum, w.count)

Composite ==
    /\ doing = "tally" /\ ws_walker > Len(rated)
    /\ workingset' = [e \in Elts |-> [accum |-> workingset[e].accum, count |-> workingset[e].count,
                                      rating |-> Average(workingset[e])]]
    /\ doing' = IF request.kind = "single" THEN "single" ELSE "rank"
    /\ UNCHANGED <<request, rated, sorted, ws_walker, recs, answer, storeVars, sortVars>>

\* predcmp() puts d before e.
Better(d, e) ==
    \/ workingset[d].rating > workingset[e].rating
    \/ workingset[d].rating = workingset[e].rating /\ workingset[d].count > workingset[e].count

\* qsort(): in any order where predcmp() has no preference.
Rank ==
    /\ doing = "rank"
    /\ \E s \in SetToSeqs(Elts) :
          /\ \A j, k \in Elts : j < k => ~Better(s[k], s[j])
          /\ sorted' = s
    /\ ws_walker' = 1 /\ doing' = "pick"
    /\ UNCHANGED <<request, rated, workingset, recs, answer, storeVars, sortVars>>

\* The target popularity after the clean-up.
TargetPop == IF request.pop \in 1..NUM_G_POP_GROUPS THEN request.pop ELSE 1
Rec(e)    == [elt |-> e, rating |-> RoundDiv(workingset[e].rating, 10)]

\* Mutant: only the popularity group asked for.
Wanted_Equal(e) == Pop(e) = TargetPop

Wanted(e) == Pop(e) <= TargetPop

\* One turn of the loop that copies the best elements of the target popularity;
\* it ends when there are enough, not where the working set ends.
Pick1 ==
    /\ doing = "pick" /\ Len(recs) < RECS_BUCKET_SIZE
    /\ IF ws_walker > file.num_elts
       THEN doing' = "overrun" /\ UNCHANGED <<recs, ws_walker>>
       ELSE /\ recs' = IF Wanted(sorted[ws_walker])
                       THEN Append(recs, Rec(sorted[ws_walker])) ELSE recs
            /\ ws_walker' = ws_walker + 1
            /\ UNCHANGED doing
    /\ UNCHANGED <<request, rated, workingset, sorted, answer, storeVars, sortVars>>

Picked ==
    /\ doing = "pick" /\ Len(recs) = RECS_BUCKET_SIZE
    /\ doing' = "serialize"
    /\ UNCHANGED <<request, rated, workingset, sorted, ws_walker, recs, answer, storeVars, sortVars>>

\* Mutant: the target is not moved to the head.
Single_Head ==
    /\ doing = "single"
    /\ recs' = <<Rec(1)>>
    /\ doing' = "serialize"
    /\ UNCHANGED <<request, rated, workingset, sorted, ws_walker, answer, storeVars, sortVars>>

\* find_single() moves the target to the head; a target that is not found
\* leaves the first element there.
Single ==
    /\ doing = "single"
    /\ recs' = <<Rec(IF request.target \in Elts THEN request.target ELSE 1)>>
    /\ doing' = "serialize"
    /\ UNCHANGED <<request, rated, workingset, sorted, ws_walker, answer, storeVars, sortVars>>

\* From 32 ratings to the output scale.  A 0 is to become a 1; the serializer for
\* a single protobuf recommendation does that to the rating and not to the result.
Scaled(rating) == RoundDiv(g_output_scale * rating, 32)
Shown(q, rating) ==
    IF Scaled(rating) = 0 /\ (IsJson(q) \/ q.kind # "single") THEN 1 ELSE Scaled(rating)

\* Without recommendations a JSON answer has nothing but the status.
Serialized(q, list) ==
    LET size == IF q.kind = "json" /\ list # <<>> THEN num_recs_to_make ELSE Len(list)
    IN [k \in 1..size |-> [elt |-> list[k].elt, rating |-> Shown(q, list[k].rating)]]

Serialize ==
    /\ doing = "serialize" /\ (IsJson(request) \/ recs # <<>>)
    /\ answer' = Serialized(request, recs)
    /\ doing' = "send"
    /\ UNCHANGED <<request, rated, workingset, sorted, ws_walker, recs, storeVars, sortVars>>

\* The protobuf serializers read the recommendations without looking whether
\* there are any.
SerializeNull ==
    /\ doing = "serialize" /\ ~IsJson(request) /\ recs = <<>>
    /\ doing' = "crashed"
    /\ UNCHANGED <<request, rated, workingset, sorted, ws_walker, recs, answer, storeVars, sortVars>>

Reply ==
    /\ doing = "send"
    /\ request' = None /\ rated' = <<>> /\ workingset' = None /\ sorted' = <<>>
    /\ ws_walker' = 1 /\ recs' = <<>> /\ answer' = <<>> /\ doing' = "idle"
    /\ UNCHANGED <<storeVars, sortVars>>

Serve ==
    \/ \E q \in Requests : AskRecs(q) \/ AskSingle(q)
    \/ Strays \/ Tally \/ Composite \/ Rank \/ Pick1 \/ Picked \/ Single
    \/ Serialize \/ SerializeNull \/ Reply

PredNext == Store \/ Serve
PredSpec == PredInit /\ [][PredNext]_<<storeVars, sortVars, predVars>>
-----------------------------------------------------------------------------

\* Where a line of valences.out is in bb_ds.
PlaceByY(k) == Cardinality({j \in DOMAIN lines : Before(lines[j], lines[k])})

\* What one rating says of element e according to valences.out, read from the
\* lines themselves: how many predictions, and their sum.
Opinions(u, e, r) ==
    LET asX == {k \in DOMAIN lines : lines[k].x = u /\ lines[k].y = e}
        asY == {k \in DOMAIN lines : lines[k].y = u /\ lines[k].x = e}
    IN [count |-> Cardinality(asX) + Cardinality(asY),
        accum |-> SumFunction([k \in asX |-> PcryOf(r)[bb[k-1].so]])
                  + SumFunction([k \in asY |-> PcrxOf(r)[bb_ds[PlaceByY(k)].so]])]

\* What these of the ratings say together.
Total(e, which) ==
    LET opinion(k) == Opinions(rated[k].elt, e, rated[k].rating)
    IN [count |-> SumFunction([k \in which |-> opinion(k).count]),
        accum |-> SumFunction([k \in which |-> opinion(k).accum])]

\* After tally(), the sum and the number for every element are those over all
\* lines of valences.out that pair the element with a rated one, each once.
TallyExact ==
    (doing = "tally" /\ ws_walker > Len(rated)) =>
        \A e \in Elts : /\ workingset[e].count = Total(e, DOMAIN rated).count
                        /\ workingset[e].accum = Total(e, DOMAIN rated).accum

Enough == Cardinality({e \in Elts : Pop(e) <= TargetPop}) >= RECS_BUCKET_SIZE

\* How many recommendations an answer has that has any.
AnswerSize == IF request.kind = "json" THEN num_recs_to_make ELSE RECS_BUCKET_SIZE

\* The recommendations sent are as many as the protocol has, different elements
\* of the target popularity, best first, and no better one was left out; each has
\* its prediction on the output scale.  (README.md promises "the top 20", the
\* RECS_BUCKET_SIZE that are made; JSON, the default, has num_recs_to_make of
\* them.)  The walk over the working set leaves it
\* only if there are fewer such elements than recommendations to make.
RecsAreBest ==
    /\ doing = "overrun" => ~Enough
    /\ (doing = "send" /\ request.kind # "single" /\ answer # <<>>) =>
        LET chosen == {answer[k].elt : k \in DOMAIN answer}
        IN /\ Len(answer) = AnswerSize /\ Cardinality(chosen) = AnswerSize
           /\ \A k \in DOMAIN answer : Pop(answer[k].elt) <= TargetPop
           /\ \A j, k \in DOMAIN answer : j < k => ~Better(answer[k].elt, answer[j].elt)
           /\ \A e \in Elts \ chosen : Pop(e) <= TargetPop =>
                 \A k \in DOMAIN answer : ~Better(e, answer[k].elt)
           /\ \A k \in DOMAIN answer : answer[k].rating = Shown(request, Rec(answer[k].elt).rating)

\* A single recommendation is about the element asked for, and what the person
\* said of that element has no influence on it.
SingleAsAsked ==
    (doing = "send" /\ request.kind = "single" /\ answer # <<>> /\ request.target \in Elts) =>
        LET others     == {k \in DOMAIN rated : rated[k].elt # request.target}
            prediction == RoundDiv(Average(Total(request.target, others)), 10)
        IN answer = <<[elt |-> request.target, rating |-> Shown(request, prediction)]>>
=============================================================================
