--------------------------- MODULE ValgenThreads ---------------------------
(***************************************************************************)
(* valgen: NTHREADS threads compute the valences (x, y) from the ratings,  *)
(* each for its own range of x, append them to a file of their own, and    *)
(* main() puts the files together in valences.out (src/valgen/main.c,      *)
(* src/valgen/precursors.c).                                               *)
(*                                                                         *)
(* recgen needs valences.out sorted by x, then y, every pair once: it      *)
(* walks the file and notes where each x starts.  Nothing sorts the file,  *)
(* so the order has to come out of the ranges of the threads, of the walks *)
(* they do over the sorted ratings and of the order of cat.                *)
(*                                                                         *)
(* A block is what one call of buildValences() appends: the lines of one   *)
(* x, in ascending y.  A line is <<y, num_rat>>: slope, offset and         *)
(* correlation come from the same rating pairs as num_rat.  The threads    *)
(* share nothing they write, so an x is one step.  Positions in br and     *)
(* brds count from 1.                                                      *)
(***************************************************************************)
EXTENDS Naturals, Sequences, FiniteSets

CONSTANTS
    NTHREADS,             \* 16 in valgen.h
    RATINGS_THRESH,       \* 3 in valgen.h
    MAX_RATN_FOR_VALGEN,  \* 48 in valgen.h
    Loads,                \* what main() has in memory when it starts the threads
    MaxRuns               \* bound: runs of valgen in the same working directory

Rating == [userId : Nat \ {0}, eltid : Nat \ {0}]

(* ratingcmp() and ratingcmpDS() do not find a after b. *)
ByUser(a, b) == a.userId < b.userId \/ (a.userId = b.userId /\ a.eltid <= b.eltid)
ByElt(a, b) == a.eltid < b.eltid \/ (a.eltid = b.eltid /\ a.userId <= b.userId)

(***************************************************************************)
(* load_config_file() counts the element ids of the ratings file, which    *)
(* have to be 1..num_elts; big_rat_pull_from_flat_file() sorts its ratings *)
(* twice.  A person may rate an element many times ("todo: ensure          *)
(* non-redundancy").  confident are the pairs whose correlation passes the *)
(* test of buildValences().                                                *)
(***************************************************************************)
IsLoad(f) ==
    /\ f.num_elts \in Nat \ {0}
    /\ f.br \in Seq(Rating) /\ f.brds \in Seq(Rating)
    /\ Len(f.br) = Len(f.brds)
    /\ \A i \in DOMAIN f.brds :
          Cardinality({k \in DOMAIN f.br : f.br[k] = f.brds[i]})
            = Cardinality({k \in DOMAIN f.brds : f.brds[k] = f.brds[i]})
    /\ \A i, j \in 1..Len(f.br) :
          i < j => ByUser(f.br[i], f.br[j]) /\ ByElt(f.brds[i], f.brds[j])
    /\ {f.brds[i].eltid : i \in 1..Len(f.brds)} = 1..f.num_elts
    /\ f.confident \subseteq Nat \X Nat

ASSUME ValgenAssumption ==
    /\ NTHREADS \in Nat \ {0}
    /\ RATINGS_THRESH \in Nat /\ MAX_RATN_FOR_VALGEN \in Nat
    /\ MaxRuns \in Nat
    /\ \A f \in Loads : IsLoad(f)

VARIABLES
    phase,         \* where main() is
    load,          \* BE.num_elts, br, brds, and what the correlations will say
    el1,           \* the next x of each thread
    walker,        \* g_brds_walker
    parts,         \* the blocks of each valences.outN
    joined,        \* how many of them cat has copied
    valences,      \* the blocks of valences.out
    numConfident,  \* num_confident_valences.out
    clean,         \* history: did this run find no valences.outN of a dead one?
    runs           \* history: runs started

vars == <<phase, load, el1, walker, parts, joined, valences, numConfident, clean, runs>>

Threads == 0..(NTHREADS - 1)

NumRatings == Len(load.br)

FirstIn(S) == CHOOSE i \in S : \A j \in S : i <= j
-----------------------------------------------------------------------------
(* The range of thread t, end exclusive. *)

EltsPerThread == load.num_elts \div NTHREADS

StartElt_FromZero(t) == t * EltsPerThread
StartElt(t) == t * EltsPerThread + 1

EndElt_Even(t) == StartElt(t) + EltsPerThread
EndElt(t) == IF t = NTHREADS - 1 THEN load.num_elts + 1 ELSE StartElt(t) + EltsPerThread

(* build_pairs() for x, the thread's walker being at w in brds. *)

CaughtUp(w, x) ==
    FirstIn({i \in w..(NumRatings + 1) : i <= NumRatings => load.brds[i].eltid >= x})

Rows(w, x) ==
    LET first == CaughtUp(w, x)
    IN  {i \in first..NumRatings : \A h \in first..i : load.brds[h].eltid = x}

Walked_TooFar(w, x) == CaughtUp(w, x) + Cardinality(Rows(w, x)) + 1
Walked(w, x) == CaughtUp(w, x) + Cardinality(Rows(w, x))

BrIndex(user) == FirstIn({k \in 1..NumRatings : load.br[k].userId = user})

(* The first row of the user that is past x, or one of a later user. *)
SecondRow_First(user, x) == BrIndex(user)
SecondRow(user, x) ==
    FirstIn({k \in BrIndex(user)..NumRatings : load.br[k].eltid > x \/ k = NumRatings})

UserRows(user, x) ==
    LET first == SecondRow(user, x)
    IN  {k \in first..NumRatings : \A h \in first..k : load.br[h].userId = user}

(* The (row of brds, row of br) pairs that the walk from w finds for x. *)
Pairs(w, x) ==
    UNION {{<<i, k>> : k \in {k \in UserRows(load.brds[i].userId, x) : load.br[k].eltid # x}} :
            i \in Rows(w, x)}

Stored_All(n) == n
Stored(n) == IF n < MAX_RATN_FOR_VALGEN THEN n ELSE MAX_RATN_FOR_VALGEN

NumRat(w, x, y) == Stored(Cardinality({p \in Pairs(w, x) : load.br[p[2]].eltid = y}))

(* buildValences(): its loops end before y = num_elts. *)
Lines(w, x) ==
    {<<y, NumRat(w, x, y)>> : y \in
        {y \in 1..(load.num_elts - 1) :
            NumRat(w, x, y) > RATINGS_THRESH /\ <<x, y>> \in load.confident}}

Block(w, x) == [x |-> x, lines |-> Lines(w, x)]

TornBlock == [x |-> 0, lines |-> {}]  \* what is left of a block when valgen dies
-----------------------------------------------------------------------------
Init ==
    /\ phase = "off"
    /\ load \in Loads
    /\ el1 = [t \in Threads |-> 1]
    /\ walker = [t \in Threads |-> 1]
    /\ parts = [t \in Threads |-> <<>>]
    /\ joined = 0
    /\ valences = <<>>
    /\ numConfident = 0
    /\ clean = TRUE
    /\ runs = 0

(* main() up to pthread_create(): load_config_file() removes the old output *)
(* when it sees that the ratings file is a new one, and not the files of    *)
(* the threads.                                                             *)
Start ==
    /\ phase \in {"off", "done", "dead"} /\ runs < MaxRuns
    /\ load' \in Loads
    /\ phase' = "threads"
    /\ el1' = [t \in Threads |-> StartElt(t)']
    /\ walker' = [t \in Threads |-> 1]
    /\ \E removed \in {load' # load, FALSE} :
          /\ valences' = IF removed THEN <<>> ELSE valences
          /\ numConfident' = IF removed THEN 0 ELSE numConfident
    /\ clean' = (parts = [t \in Threads |-> <<>>])
    /\ runs' = runs + 1
    /\ UNCHANGED <<parts, joined>>

(* One turn of the loop of partial_elements(). *)
Compute_Stays(t) ==
    /\ phase = "threads" /\ el1[t] < EndElt(t)
    /\ walker' = [walker EXCEPT ![t] = Walked(@, el1[t])]
    /\ UNCHANGED <<phase, load, el1, parts, joined, valences, numConfident, clean, runs>>

Compute(t) ==
    /\ phase = "threads" /\ el1[t] < EndElt(t)
    /\ parts' = [parts EXCEPT ![t] = Append(@, Block(walker[t], el1[t]))]
    /\ walker' = [walker EXCEPT ![t] = Walked(@, el1[t])]
    /\ el1' = [el1 EXCEPT ![t] = @ + 1]
    /\ UNCHANGED <<phase, load, joined, valences, numConfident, clean, runs>>

(* pthread_join() of every thread; the shell then truncates valences.out. *)
Join ==
    /\ phase = "threads"
    /\ \A t \in Threads : el1[t] >= EndElt(t)
    /\ phase' = "cat"
    /\ joined' = 0
    /\ valences' = <<>>
    /\ UNCHANGED <<load, el1, walker, parts, numConfident, clean, runs>>

Cat ==
    /\ phase = "cat" /\ joined < NTHREADS
    /\ valences' = valences \o parts[joined]
    /\ joined' = joined + 1
    /\ UNCHANGED <<phase, load, el1, walker, parts, numConfident, clean, runs>>

Remove ==
    /\ phase = "cat" /\ joined = NTHREADS
    /\ parts' = [t \in Threads |-> <<>>]
    /\ phase' = "count"
    /\ UNCHANGED <<load, el1, walker, joined, valences, numConfident, clean, runs>>

(* The lines of a file of blocks. *)
FileLines(blocks) ==
    UNION {{<<i, l>> : l \in blocks[i].lines} : i \in 1..Len(blocks)}

Count ==
    /\ phase = "count"
    /\ numConfident' = Cardinality(FileLines(valences))
    /\ phase' = "done"
    /\ UNCHANGED <<load, el1, walker, parts, joined, valences, clean, runs>>

(* valgen is stopped, or a thread meets an error and calls exit(): what the *)
(* threads had written stays, the last blocks perhaps in part.              *)
Die ==
    /\ phase \in {"threads", "cat", "count"}
    /\ phase' = "dead"
    /\ \E torn \in SUBSET {t \in Threads : phase = "threads" /\ el1[t] < EndElt(t)} :
          parts' = [t \in Threads |->
                      IF t \in torn THEN Append(parts[t], TornBlock) ELSE parts[t]]
    /\ UNCHANGED <<load, el1, walker, joined, valences, numConfident, clean, runs>>

Main == Join \/ Cat \/ Remove \/ Count

Next == Start \/ (\E t \in Threads : Compute(t)) \/ Main \/ Die

Fairness == WF_vars(Main) /\ \A t \in Threads : WF_vars(Compute(t))

Spec == Init /\ [][Next]_vars

FairSpec == Spec /\ Fairness
-----------------------------------------------------------------------------
BlockType == [x : Nat, lines : {S \in SUBSET (Nat \X Nat) : IsFiniteSet(S)}]

TypeOK ==
    /\ phase \in {"off", "threads", "cat", "count", "done", "dead"}
    /\ load \in Loads
    /\ el1 \in [Threads -> 1..(load.num_elts + 1)]
    /\ walker \in [Threads -> 1..(NumRatings + 1)]
    /\ parts \in [Threads -> Seq(BlockType)]
    /\ joined \in 0..NTHREADS
    /\ valences \in Seq(BlockType)
    /\ numConfident \in Nat
    /\ clean \in BOOLEAN
    /\ runs \in 0..MaxRuns

(***************************************************************************)
(* The ranges of the threads share the elements out: every x belongs to    *)
(* exactly one thread, whether or not NTHREADS divides num_elts, and also  *)
(* when there are fewer elements than threads (main.c:112-123, 245).       *)
(***************************************************************************)
Owns(t, x) == StartElt(t) <= x /\ x < EndElt(t)

ExactCover ==
    \A x \in 1..load.num_elts :
        \E t \in Threads : Owns(t, x) /\ \A s \in Threads : Owns(s, x) => s = t

(* The walk "while (brds[...].eltid < x)" (precursors.c:75) has no bound of *)
(* its own: it always meets a rating that ends it, and that is x's first.   *)
FirstOf(x) == FirstIn({i \in 1..NumRatings : load.brds[i].eltid = x})

CatchUpStops ==
    phase = "threads" =>
        \A t \in Threads : el1[t] < EndElt(t) => walker[t] <= FirstOf(el1[t])

Merged == clean /\ phase \in {"count", "done"}

(* Where recgen reads it, valences.out has every x once, in ascending order. *)
MergedInOrder ==
    Merged => /\ Len(valences) = load.num_elts
              /\ \A x \in 1..load.num_elts : valences[x].x = x

(***************************************************************************)
(* What the walks are for, said without them: the ratings of x and y that  *)
(* one person gave ("find all the x, y for each user", precursors.c:67),   *)
(* no more than MAX_RATN_FOR_VALGEN of them; a valence is confident and    *)
(* has more than RATINGS_THRESH.                                           *)
(***************************************************************************)
CommonRatings(x, y) ==
    {p \in (1..NumRatings) \X (1..NumRatings) :
        /\ load.brds[p[1]].eltid = x /\ load.br[p[2]].eltid = y
        /\ load.brds[p[1]].userId = load.br[p[2]].userId}

AtMost(n, max) == IF n < max THEN n ELSE max

NumCommon(x, y) == AtMost(Cardinality(CommonRatings(x, y)), MAX_RATN_FOR_VALGEN)

IsValence(x, y) ==
    x < y /\ NumCommon(x, y) > RATINGS_THRESH /\ <<x, y>> \in load.confident

(* The pairs that valgen considers: it never gets to y = num_elts. *)
Valences(x) ==
    {<<y, NumCommon(x, y)>> : y \in {y \in 1..(load.num_elts - 1) : IsValence(x, y)}}

MergedIsExact ==
    Merged => \A x \in 1..load.num_elts : valences[x].lines = Valences(x)

(* num_confident_valences.out, which recgen asserts against the lines of    *)
(* valences.out (big_mem.c:517), is the number of valences there are.       *)
CountIsExact ==
    clean /\ phase = "done" =>
        numConfident = Cardinality({p \in (1..load.num_elts) \X (1..(load.num_elts - 1)) :
                                      IsValence(p[1], p[2])})

(* "the (uR, y) valences where y goes from uR+1 to NUM_ELTS"               *)
(* (predictions.c:180): the last element has its valences too.             *)
LastElementPaired ==
    Merged => \A x \in 1..load.num_elts :
        IsValence(x, load.num_elts) =>
            \E l \in valences[x].lines : l[1] = load.num_elts

(* A run ends, with its output or dead. *)
Finishes == phase = "threads" ~> phase \in {"done", "dead"}
=============================================================================
