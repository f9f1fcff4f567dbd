--------------------------- MODULE ValenceStore ---------------------------
(***************************************************************************)
(* The valence store of recgen (src/recgen/big_mem.c) on its way from      *)
(* valences.out to memory.  "recgen -c" reads the file into bb, indexed by *)
(* x; "recgen -d" reads it again, sorts it by y into bb_ds, indexed by y;  *)
(* each exports its arrays, and the live recgen ("-b") loads them all.     *)
(*                                                                         *)
(* bind_seg[x] says where the valences of x start in bb and how many there *)
(* are.  Indices count from 0.  A valence is [elt, so]: the other element  *)
(* and the numbers of the buckets of its slope and its offset.             *)
(***************************************************************************)
EXTENDS QuickSort, SlopeBuckets

CONSTANTS
    Files,     \* what valgen leaves behind: number of elements and valences.out
    EltIds     \* how many ids the bits that SETELT keeps tell apart: 2^20

\* A line of valences.out; slope and offset are in tenths, rounded.
Line == [x : Nat \ {0}, y : Nat \ {0}, slope : Int, offset : Int]

\* valgen writes every pair once, ordered by x and then y, and none with the
\* last element (MergedInOrder, MergedIsExact and LastElementPaired of
\* ValgenThreads).
IsFile(f) ==
    /\ f.num_elts \in Nat \ {0}
    /\ f.lines \in Seq(Line)
    /\ \A i \in DOMAIN f.lines : f.lines[i].x < f.lines[i].y /\ f.lines[i].y < f.num_elts
    /\ \A i, j \in DOMAIN f.lines : i < j =>
          \/ f.lines[i].x < f.lines[j].x
          \/ f.lines[i].x = f.lines[j].x /\ f.lines[i].y < f.lines[j].y

ASSUME ValenceStoreAssumption ==
    /\ EltIds \in Nat \ {0}
    /\ NumBuckets \in Nat \ {0, 1, 2}
    /\ \A f \in Files : IsFile(f)

VARIABLES
    file,          \* the working directory after valgen
    disk,          \* the valence cache directory
    prog,          \* which recgen runs: "-c", "-d", "-b", or "failed"
    step,          \* where it is
    at,            \* g_valence_count, the loop over the valences
    few,           \* g_slopes and g_offsets: bucket numbers of the values
    bb, bind_seg,  \* g_bb, g_bind_seg
    bb_ds, bind_seg_ds,
    tiny           \* g_tiny_slopes and g_tiny_offsets of the live recgen

NoOffset == -1     \* UINT64_MAX
NoFile   == <<>>
None     == <<>>

storeVars == <<file, disk, prog, step, at, few, bb, bind_seg, bb_ds, bind_seg_ds, tiny>>

\* The rounded tenths are cast to a signed char, in which they may wrap.
SignedChar(v) == ((v + 128) % 256) - 128
Tiny(l) == [x |-> l.x, y |-> l.y, slope |-> SignedChar(l.slope), offset |-> SignedChar(l.offset)]

lines == [k \in DOMAIN file.lines |-> Tiny(file.lines[k])]
ncv   == Len(lines)     \* num_confident_valences.out

\* The entries of an index, from 0 to the last id; create_ds() allocates one
\* less than load_beast() does, and the files have one less as well.
Ids    == 0..file.num_elts
Stored == 0..file.num_elts-1
Cleared(ids) == [id \in ids |-> [offset |-> NoOffset, count |-> 0]]

SetElt(id) == id % EltIds

StoreInit ==
    /\ file \in Files
    /\ disk = [so |-> NoFile, bb |-> NoFile, seg |-> NoFile, ds |-> NoFile, seg_ds |-> NoFile]
    /\ prog = "-c" /\ step = "start" /\ at = 0
    /\ few = None /\ bb = None /\ bind_seg = None
    /\ bb_ds = None /\ bind_seg_ds = None
    /\ tiny = [slopes  |-> [k \in 0..NumBuckets-1 |-> 0], offsets |-> [k \in 0..NumBuckets-1 |-> 0]]
    /\ SortInit

\* load_beast() makes sure there are valences; recgen exits.
Refuse ==
    /\ prog = "-c" /\ step = "start" /\ ncv = 0
    /\ prog' = "failed"
    /\ UNCHANGED <<file, disk, step, at, few, bb, bind_seg, bb_ds, bind_seg_ds, tiny, sortVars>>

\* The numbers of the buckets of slopes and of offsets, and the two lines of
\* so_compressed.out.  Ties in frequency are settled by qsort(), the same way
\* whenever the input is the same.  The loop that clears the index goes through
\* Ids: in "-d" the last entry is not part of the array.
FirstPass ==
    /\ prog \in {"-c", "-d"} /\ step = "start" /\ ncv > 0
    /\ \E leftover \in Leftovers :
         LET slopes  == Counts([k \in DOMAIN lines |-> lines[k].slope])
             offsets == Counts([k \in DOMAIN lines |-> lines[k].offset])
             bs == Boundaries(slopes, SpecialSlope, DefaultBoundaries(ncv), ncv)
             bo == Boundaries(offsets, SpecialOffset, bs, ncv)
             first  == Entering(leftover, 0)
             second == Entering(leftover, LastShare(Ladder(slopes, SpecialSlope)))
             slopeBuckets  == Buckets(Ladder(slopes, SpecialSlope), bs, ncv, first)
             offsetBuckets == Buckets(Ladder(offsets, SpecialOffset), bo, ncv, second)
             taken(v, count) == /\ SpecialSlope \in DOMAIN slopes
                                /\ v = CHOOSE w \in MostFrequent(count) : TRUE
         IN /\ few' = [s |-> [v \in DOMAIN slopes |->
                                Fewbit(v, taken(v, slopes), slopes, SpecialSlope, slopeBuckets, first)],
                       o |-> [v \in DOMAIN offsets |->
                                Fewbit(v, taken(v, offsets), offsets, SpecialOffset, offsetBuckets, second)]]
            /\ disk' = [disk EXCEPT !.so = [slopes  |-> SoLine(slopes, SpecialSlope, slopeBuckets),
                                            offsets |-> SoLine(offsets, SpecialOffset, offsetBuckets)]]
    /\ bind_seg' = Cleared(IF prog = "-c" THEN Ids ELSE Stored)
    /\ at' = 0 /\ step' = "fill"
    /\ UNCHANGED <<file, prog, bb, bb_ds, bind_seg_ds, tiny, sortVars>>

\* Mutant: the start is noted for every valence.
Indexed_Always(seg, id, previous) ==
    [seg EXCEPT ![id] = [offset |-> at, count |-> seg[id].count + 1]]

\* What the loops over the valences do with an index: note the position at
\* where the id changes, and count.
Indexed(seg, id, previous) ==
    [seg EXCEPT ![id] = [offset |-> IF id = previous THEN seg[id].offset ELSE at,
                         count  |-> seg[id].count + 1]]

Extended(a, v) == [k \in 0..at |-> IF k = at THEN v ELSE a[k]]

\* The second pass: one line into bb, or with its x into bb_ds_temp.
ReadLine ==
    /\ prog \in {"-c", "-d"} /\ step = "fill" /\ at < ncv
    /\ LET l  == lines[at+1]
           so == [s |-> few.s[l.slope], o |-> few.o[l.offset]]
       IN /\ bind_seg' = Indexed(bind_seg, l.x, IF at = 0 THEN 0 ELSE lines[at].x)
          /\ IF prog = "-c"
             THEN bb' = Extended(bb, [elt |-> SetElt(l.y), so |-> so]) /\ UNCHANGED array
             ELSE array' = Extended(array, [x |-> l.x, y |-> SetElt(l.y), so |-> so]) /\ UNCHANGED bb
    /\ at' = at + 1
    /\ UNCHANGED <<file, disk, prog, step, few, bb_ds, bind_seg_ds, tiny,
                   left, len, right, stack, pivot, sorting>>

\* The files have num_elts entries, for the ids up to num_elts - 1.
Exported(seg) == [id \in Stored |-> seg[id]]

\* export_beast(); the memory goes with the process, and the script goes on.
ExportBeast ==
    /\ prog = "-c" /\ step = "fill" /\ at = ncv
    /\ disk' = [disk EXCEPT !.bb = bb, !.seg = Exported(bind_seg)]
    /\ prog' = "-d" /\ step' = "start" /\ at' = 0
    /\ bb' = None /\ bind_seg' = None /\ few' = None
    /\ UNCHANGED <<file, bb_ds, bind_seg_ds, tiny, sortVars>>

\* What "-d" wrote behind the ends of its two indexes belongs to malloc(), which
\* may notice and end the program, at the latest with the buffers freed.
Wrecked ==
    /\ prog = "-d" /\ step \in {"fill", "copy"} /\ at \in {0, ncv}
    /\ prog' = "failed"
    /\ UNCHANGED <<file, disk, step, at, few, bb, bind_seg, bb_ds, bind_seg_ds, tiny, sortVars>>

\* populate_ds() clears the other index, again with an entry too many, and sorts
\* the copy,
SortCopy ==
    /\ prog = "-d" /\ step = "fill" /\ at = ncv
    /\ BeginSort(ncv)
    /\ bind_seg_ds' = Cleared(Stored)
    /\ step' = "sort"
    /\ UNCHANGED <<file, disk, prog, at, few, bb, bind_seg, bb_ds, tiny>>

Sort == prog = "-d" /\ step = "sort" /\ SortStep /\ UNCHANGED storeVars

\* and allocates bb_ds and the index anew, this time all zero,
Sorted ==
    /\ prog = "-d" /\ step = "sort" /\ EndSort
    /\ step' = "copy" /\ at' = 0
    /\ bind_seg_ds' = [id \in Stored |-> [offset |-> 0, count |-> 0]]
    /\ UNCHANGED <<file, disk, prog, few, bb, bind_seg, bb_ds, tiny>>

\* to copy the valences one by one.
CopyValence ==
    /\ prog = "-d" /\ step = "copy" /\ at < ncv
    /\ bb_ds' = Extended(bb_ds, [elt |-> array[at].x, so |-> array[at].so])
    /\ bind_seg_ds' = Indexed(bind_seg_ds, array[at].y, IF at = 0 THEN 0 ELSE array[at-1].y)
    /\ at' = at + 1
    /\ UNCHANGED <<file, disk, prog, step, few, bb, bind_seg, tiny, sortVars>>

\* export_ds().
ExportDs ==
    /\ prog = "-d" /\ step = "copy" /\ at = ncv
    /\ disk' = [disk EXCEPT !.ds = bb_ds, !.seg_ds = bind_seg_ds]
    /\ prog' = "-b" /\ step' = "start" /\ at' = 0
    /\ bb_ds' = None /\ bind_seg' = None /\ bind_seg_ds' = None /\ few' = None
    /\ array' = None
    /\ UNCHANGED <<file, bb, tiny, left, len, right, stack, pivot, sorting>>

\* The live recgen; the indexes have num_elts + 1 entries, the last one 0.
Imported(seg) == [id \in Ids |-> IF id < file.num_elts THEN seg[id] ELSE [offset |-> 0, count |-> 0]]
ReadTokens(table, tokens) ==
    [k \in DOMAIN table |-> IF k < Len(tokens) THEN tokens[k+1] ELSE table[k]]

Load ==
    /\ prog = "-b" /\ step = "start"
    /\ tiny' = [slopes  |-> ReadTokens(tiny.slopes, disk.so.slopes),
                offsets |-> ReadTokens(tiny.offsets, disk.so.offsets)]
    /\ bb' = disk.bb /\ bind_seg' = Imported(disk.seg)
    /\ bb_ds' = disk.ds /\ bind_seg_ds' = Imported(disk.seg_ds)
    /\ step' = "live"
    /\ UNCHANGED <<file, disk, prog, at, few, sortVars>>

StoreNext ==
    \/ Refuse \/ FirstPass \/ ReadLine \/ ExportBeast \/ Wrecked
    \/ SortCopy \/ Sort \/ Sorted \/ CopyValence \/ ExportDs \/ Load

StoreSpec == StoreInit /\ [][StoreNext]_<<storeVars, sortVars>>

-----------------------------------------------------------------------------

Bind(domain) == [domain -> [offset : Nat \cup {NoOffset}, count : Nat]]

\* Every index has the entries that its program allocates, "-d" one less than
\* the others, and what is written to it are counts and positions; the walkers
\* and the stack of the sort stay inside the array that is sorted.
StoreTypeOK ==
    /\ file \in Files
    /\ prog \in {"-c", "-d", "-b", "failed"}
    /\ step \in {"start", "fill", "sort", "copy", "live"}
    /\ at \in 0..ncv
    /\ prog \in {"-c", "-b"} => bind_seg \in Bind(Ids) \cup {None} /\ bind_seg_ds \in Bind(Ids) \cup {None}
    /\ prog = "-d" => bind_seg \in Bind(Stored) \cup {None} /\ bind_seg_ds \in Bind(Stored) \cup {None}
    /\ sorting \in {"off", "outer", "parting"}
    /\ left \in 0..ncv /\ len \in 0..ncv /\ right \in -1..ncv
    /\ Len(stack) <= MaxStack /\ Range(stack) \subseteq 0..ncv

\* Sorting, with any pivots and however often the stack overflows, loses no
\* valence, doubles none, and leaves them in ascending order.
SortedCopy ==
    /\ step \in {"sort", "copy"} =>
          /\ DOMAIN array = 0..ncv-1
          /\ {<<array[k].x, array[k].y>> : k \in DOMAIN array}
                = {<<l.x, SetElt(l.y)>> : l \in Range(lines)}
    /\ step = "copy" =>
          \A j, k \in DOMAIN array : j < k => Before(array[j], array[k])

\* What a reader gets through an index.
Found(store, seg, id) ==
    IF seg[id].offset = NoOffset THEN <<>>
    ELSE [k \in 1..seg[id].count |-> store[seg[id].offset + k - 1]]

\* The entries are those of these elements, one for each, in ascending order.
EntriesOf(entries, elts) ==
    /\ {entries[k].elt : k \in DOMAIN entries} = elts
    /\ \A j, k \in DOMAIN entries : j < k => entries[j].elt < entries[k].elt

\* In the live recgen the entries found for an id as x, and as y, are those of
\* the lines of valences.out with that x or y, all of them and in order; this
\* includes ids without lines, the last id, and indexes that were exported
\* one entry short.
FoundAsInFile ==
    step = "live" =>
        \A id \in Ids :
          /\ EntriesOf(Found(bb, bind_seg, id), {l.y : l \in {l \in Range(lines) : l.x = id}})
          /\ EntriesOf(Found(bb_ds, bind_seg_ds, id), {l.x : l \in {l \in Range(lines) : l.y = id}})

\* The bucket numbers of a line in both copies.
Codes(l) ==
    {Found(bb, bind_seg, l.x)[k].so : k \in {k \in 1..bind_seg[l.x].count : Found(bb, bind_seg, l.x)[k].elt = l.y}}
    \cup
    {Found(bb_ds, bind_seg_ds, l.y)[k].so :
        k \in {k \in 1..bind_seg_ds[l.y].count : Found(bb_ds, bind_seg_ds, l.y)[k].elt = l.x}}

StrictlyMostFrequent(v, values) ==
    v \in Range(values) /\
    \A w \in Range(values) \ {v} : Counts(values)[w] < Counts(values)[v]
Slopes  == [k \in DOMAIN lines |-> lines[k].slope]
Offsets == [k \in DOMAIN lines |-> lines[k].offset]

\* There are never more buckets than four bits number, so that the lines of
\* so_compressed.out fit the tables of the live recgen.
BucketsFit ==
    disk.so # NoFile => /\ Len(disk.so.slopes) <= NumBuckets
                        /\ Len(disk.so.offsets) <= NumBuckets

SlopeCodes(l) == {c.s : c \in Codes(l)}
Sharing(s)    == {m.slope : m \in {m \in Range(lines) : s \in SlopeCodes(m)}}

\* This is about the values as a signed char holds them, which are those of
\* valences.out unless they are beyond 12.7, where they wrap.
\* When slope 1 is the most frequent slope and all buckets are filled, both
\* copies number a line's slope alike, and the live recgen reads slope 1
\* exactly, and every other slope as a value among the slopes that share its
\* bucket, between which there is no other. (The offsets' numbers may differ
\* in the copies: their buckets need not all be filled, and "recgen -c" and
\* "recgen -d" compare with different leftovers.)
SlopesStayClose ==
    (StrictlyMostFrequent(SpecialSlope, Slopes) /\ Len(disk.so.slopes) = NumBuckets) =>
        \A l \in Range(lines) : \E s \in SlopeCodes(l) :
          /\ SlopeCodes(l) = {s}
          /\ l.slope = SpecialSlope =>
                Sharing(s) = {SpecialSlope} /\ tiny.slopes[s] = SpecialSlope
          /\ l.slope # SpecialSlope =>
                /\ tiny.slopes[s] \in Min(Sharing(s))..Max(Sharing(s))
                /\ \A v \in Range(Slopes) \ {SpecialSlope} :
                      v \in Min(Sharing(s))..Max(Sharing(s)) => v \in Sharing(s)

\* Each offset 0 is read back as 0 when 0 is the most frequent offset and
\* slope 1 occurs; where only the former holds the code does not keep the
\* bucket of offset 0 apart.
OffsetZeroIsExact ==
    (SpecialSlope \in Range(Slopes) /\ StrictlyMostFrequent(SpecialOffset, Offsets)) =>
        \A l \in Range(lines) :
            l.offset = SpecialOffset =>
                \A c \in Codes(l) : tiny.offsets[c.o] = SpecialOffset

\* What four bits promise: the tables fit, and what the live recgen reads is
\* the signed char that was compressed, or close to it.
FourBitsSuffice == BucketsFit /\ (step = "live" => SlopesStayClose /\ OffsetZeroIsExact)
=============================================================================
