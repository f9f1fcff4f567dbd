------------------------ MODULE ValenceStore_proofs ------------------------
(***************************************************************************)
(* The valences on their way from valences.out to the live recgen, for any *)
(* file, any stack of the sort and any pivots.                             *)
(*                                                                         *)
(* CopyInv follows the valences through the sort of QuickSort_proofs to    *)
(* the copy; StoreInv adds what the two indexes say of the two stores, and *)
(* keeps that through the exports and the import.                          *)
(***************************************************************************)
EXTENDS ValenceStore, QuickSort_proofs, FiniteSetTheorems

\* What "recgen -d" has read so far.
Copied ==
    at > 0 => /\ array = [k \in 0..at-1 |-> array[k]]
              /\ \A k \in 0..at-1 : /\ array[k].x = lines[k+1].x
                                    /\ array[k].y = SetElt(lines[k+1].y)

AllKeys == {<<l.x, SetElt(l.y)>> : l \in Range(lines)}

SortedInFull == /\ DOMAIN array = 0..ncv-1
                /\ {Key(array[k]) : k \in 0..ncv-1} = AllKeys
                /\ \A j, k \in 0..ncv-1 : j < k => ~Before(array[k], array[j])

\* The ids of the elements have the bits that SETELT keeps.
IdsFit == \A f \in Files : f.num_elts <= EltIds

DifferentKeys == IdsFit => \A j, k \in 0..ncv-1 : j # k => Key(array[j]) # Key(array[k])

\* The inductive invariant.
CopyInv ==
    /\ file \in Files
    /\ step \in {"start", "fill", "sort", "copy", "live"}
    /\ at \in 0..ncv
    /\ right \in Int
    /\ step # "sort" => sorting = "off"
    /\ step \in {"fill", "sort", "copy"} => ncv > 0
    /\ (step = "fill" /\ prog = "-d") => Copied
    /\ step = "sort" => /\ SortInv /\ Size = ncv /\ sorting # "off"
                        /\ KeySet = AllKeys /\ DifferentKeys
    /\ step = "copy" => SortedInFull /\ DifferentKeys
-----------------------------------------------------------------------------

\* Compressed, a line is still a line, with the same two elements.
LEMMA TinyLine ==
    ASSUME NEW l \in Line PROVE Tiny(l) \in Line /\ Tiny(l).x = l.x /\ Tiny(l).y = l.y
<1>1. \A v \in Int : SignedChar(v) \in Int
  BY DEF SignedChar
<1>2. l.slope \in Int /\ l.offset \in Int /\ l.x \in Nat \ {0} /\ l.y \in Nat \ {0}
  BY DEF Line
<1>3. SignedChar(l.slope) \in Int /\ SignedChar(l.offset) \in Int
  BY <1>1, <1>2
<1> QED  BY <1>2, <1>3 DEF Tiny, Line

LEMMA FileLines ==
    ASSUME file \in Files
    PROVE  /\ lines \in Seq(Line) /\ ncv \in Nat /\ DOMAIN lines = 1..ncv
           /\ file.num_elts \in Nat
           /\ \A i \in 1..ncv : lines[i] \in Line /\ lines[i].x < lines[i].y /\ lines[i].y < file.num_elts
           /\ \A i, j \in 1..ncv : i < j =>
                 \/ lines[i].x < lines[j].x
                 \/ lines[i].x = lines[j].x /\ lines[i].y < lines[j].y
<1> DEFINE raw == file.lines
<1>1. IsFile(file)
  BY ValenceStoreAssumption
<1>2. raw \in Seq(Line) /\ Len(raw) \in Nat /\ DOMAIN raw = 1..Len(raw)
  BY <1>1 DEF IsFile
<1>3. \A i \in 1..Len(raw) : raw[i] \in Line
  BY <1>2
<1>4. lines = [k \in 1..Len(raw) |-> Tiny(raw[k])]
  BY <1>2 DEF lines
<1>5. /\ \A i \in 1..Len(raw) : raw[i].x < raw[i].y /\ raw[i].y < file.num_elts
      /\ \A i, j \in 1..Len(raw) : i < j =>
            \/ raw[i].x < raw[j].x
            \/ raw[i].x = raw[j].x /\ raw[i].y < raw[j].y
  BY <1>1, <1>2 DEF IsFile
<1> HIDE DEF raw
<1>6. \A i \in 1..Len(raw) : lines[i] \in Line /\ lines[i].x = raw[i].x /\ lines[i].y = raw[i].y
  BY <1>3, <1>4, TinyLine
<1>7. lines \in Seq(Line) /\ Len(lines) = Len(raw)
  BY <1>2, <1>4, <1>6
<1> QED  BY <1>1, <1>2, <1>4, <1>5, <1>6, <1>7 DEF IsFile, ncv

LEMMA FileFacts ==
    ASSUME file \in Files
    PROVE  /\ lines \in Seq(Line) /\ ncv \in Nat /\ DOMAIN lines = 1..ncv
           /\ file.num_elts \in Nat
           /\ \A i \in 1..ncv : lines[i].x \in Nat /\ lines[i].y \in Nat /\ lines[i].y < file.num_elts
           /\ \A i, j \in 1..ncv : i < j =>
                 \/ lines[i].x < lines[j].x
                 \/ lines[i].x = lines[j].x /\ lines[i].y < lines[j].y
  BY FileLines DEF Line

LEMMA SetEltKeeps ==
    ASSUME NEW y \in Nat PROVE SetElt(y) \in Nat /\ (y < EltIds => SetElt(y) = y)
  BY ValenceStoreAssumption DEF SetElt

LEMMA KeysAreNumbers ==
    ASSUME file \in Files PROVE \A p \in AllKeys : p[1] \in Nat /\ p[2] \in Nat
<1>1. DOMAIN lines = 1..ncv /\ \A i \in 1..ncv : lines[i].x \in Nat /\ lines[i].y \in Nat
  BY FileFacts
<1>2. \A l \in Range(lines) : l.x \in Nat /\ l.y \in Nat
  BY <1>1 DEF Range
<1>3. \A l \in Range(lines) : SetElt(l.y) \in Nat
  BY <1>2, SetEltKeeps
<1> QED  BY <1>2, <1>3 DEF AllKeys

\* A copy in file order has all keys, and different ones if the ids fit.
LEMMA CopiedKeys ==
    ASSUME file \in Files, Copied, at = ncv, ncv > 0
    PROVE  /\ array = [k \in 0..ncv-1 |-> array[k]]
           /\ \A k \in 0..ncv-1 : IsEntry(array[k])
           /\ {Key(array[k]) : k \in 0..ncv-1} = AllKeys
           /\ DifferentKeys
<1>1. /\ lines \in Seq(Line) /\ ncv \in Nat /\ DOMAIN lines = 1..ncv
      /\ file.num_elts \in Nat
      /\ \A i \in 1..ncv : lines[i].x \in Nat /\ lines[i].y \in Nat /\ lines[i].y < file.num_elts
  BY FileFacts
<1>2. array = [k \in 0..ncv-1 |-> array[k]]
  BY DEF Copied
<1>3. \A k \in 0..ncv-1 : array[k].x = lines[k+1].x /\ array[k].y = SetElt(lines[k+1].y)
  BY <1>1 DEF Copied
<1>4. \A k \in 0..ncv-1 : k + 1 \in 1..ncv
  BY <1>1
<1>5. \A i \in 1..ncv : i - 1 \in 0..ncv-1 /\ (i - 1) + 1 = i
  BY <1>1
<1>6. \A k \in 0..ncv-1 : IsEntry(array[k])
  <2> SUFFICES ASSUME NEW k \in 0..ncv-1 PROVE IsEntry(array[k])
    OBVIOUS
  <2>1. lines[k+1].x \in Nat /\ lines[k+1].y \in Nat
    BY <1>1, <1>4
  <2>2. SetElt(lines[k+1].y) \in Nat
    BY <2>1, SetEltKeeps
  <2>3. array[k].x \in Nat /\ array[k].y \in Nat
    BY <1>3, <2>1, <2>2, Zenon
  <2> QED  BY <2>3 DEF IsEntry
<1>7. \A k \in 0..ncv-1 : Key(array[k]) = <<lines[k+1].x, SetElt(lines[k+1].y)>>
  BY <1>3 DEF Key
<1>8. {Key(array[k]) : k \in 0..ncv-1} = AllKeys
  <2>1. Range(lines) = {lines[i] : i \in 1..ncv}
    BY <1>1 DEF Range
  <2>2. AllKeys = {<<lines[i].x, SetElt(lines[i].y)>> : i \in 1..ncv}
    BY <2>1 DEF AllKeys
  <2> QED  BY <1>4, <1>5, <1>7, <2>2
<1>9. DifferentKeys
  <2> SUFFICES ASSUME IdsFit, NEW j \in 0..ncv-1, NEW k \in 0..ncv-1, j < k
               PROVE  Key(array[j]) # Key(array[k])
    BY DEF DifferentKeys
  <2>1. file.num_elts <= EltIds
    BY DEF IdsFit
  <2>2. /\ SetElt(lines[j+1].y) = lines[j+1].y
        /\ SetElt(lines[k+1].y) = lines[k+1].y
    <3>1. EltIds \in Nat
      BY ValenceStoreAssumption
    <3>2. \A i \in 1..ncv : lines[i].y \in Nat /\ lines[i].y < EltIds
      BY <1>1, <2>1, <3>1
    <3>3. \A i \in 1..ncv : SetElt(lines[i].y) = lines[i].y
      BY <3>2, SetEltKeeps
    <3> QED  BY <1>4, <3>3
  <2>3. lines[j+1].x < lines[k+1].x \/ lines[j+1].y < lines[k+1].y
    BY <1>1, <1>4, FileFacts
  <2> QED  BY <1>1, <1>4, <1>7, <2>2, <2>3
<1> QED  BY <1>2, <1>6, <1>8, <1>9
-----------------------------------------------------------------------------
(* The steps of the store. *)

LEMMA ReadLineKeeps == ASSUME CopyInv, ReadLine PROVE CopyInv'
<1>1. ncv \in Nat /\ at \in Nat /\ file' = file /\ ncv' = ncv /\ lines' = lines
  BY FileFacts DEF CopyInv, ReadLine, ncv, lines
<1>2. at' = at + 1 /\ at < ncv /\ step = "fill" /\ step' = step /\ prog' = prog
      /\ right' = right /\ sorting' = sorting
  BY DEF ReadLine
<1>3. ASSUME prog = "-d" PROVE Copied'
  <2>1. PICK v : v = [x |-> lines[at+1].x, y |-> SetElt(lines[at+1].y),
                      so |-> [s |-> few.s[lines[at+1].slope], o |-> few.o[lines[at+1].offset]]]
    OBVIOUS
  <2>2. array' = [k \in 0..at |-> IF k = at THEN v ELSE array[k]]
    BY <1>3, <2>1 DEF ReadLine, Extended
  <2>3. \A k \in 0..at : array'[k] = IF k = at THEN v ELSE array[k]
    BY <2>2
  <2>4. array' = [k \in 0..at |-> array'[k]]
    BY <2>2
  <2>5. at' - 1 = at
    BY <1>1, <1>2
  <2>6. v.x = lines[at+1].x /\ v.y = SetElt(lines[at+1].y)
    BY <2>1
  <2>7. \A k \in 0..at : k # at => at > 0 /\ k \in 0..at-1
    BY <1>1
  <2>8. \A k \in 0..at : k # at => array[k].x = lines[k+1].x /\ array[k].y = SetElt(lines[k+1].y)
    BY <1>2, <1>3, <2>7 DEF CopyInv, Copied
  <2>9. \A k \in 0..at : array'[k].x = lines[k+1].x /\ array'[k].y = SetElt(lines[k+1].y)
    BY <2>3, <2>6, <2>8
  <2>10. (array = [k \in 0..at-1 |-> array[k]])' /\ lines' = lines
    BY <1>1, <2>4, <2>5
  <2>11. (\A k \in 0..at-1 : array[k].x = lines[k+1].x /\ array[k].y = SetElt(lines[k+1].y))'
    BY <2>5, <2>9, <2>10 DEF SetElt
  <2> QED  BY <2>10, <2>11 DEF Copied
<1> QED  BY <1>1, <1>2, <1>3 DEF CopyInv

LEMMA SortCopyKeeps == ASSUME CopyInv, SortCopy PROVE CopyInv'
<1>1. /\ file' = file /\ at' = at /\ prog' = prog /\ step' = "sort"
      /\ BeginSort(ncv) /\ array' = array /\ right' = right
      /\ step = "fill" /\ prog = "-d" /\ at = ncv
  BY DEF SortCopy, BeginSort
<1>2. file \in Files /\ ncv > 0 /\ Copied /\ right \in Int /\ ncv \in Nat
  BY <1>1, FileFacts DEF CopyInv
<1>3. SortInv' /\ Size' = ncv /\ sorting' = "outer"
  BY <1>1, <1>2, CopiedKeys, BeginHasSortInv
<1>4. ncv' = ncv /\ lines' = lines /\ AllKeys' = AllKeys
  BY <1>1 DEF ncv, lines, AllKeys, SetElt
<1>5. KeySet' = AllKeys' /\ DifferentKeys'
  <2>1. {Key(array[k]) : k \in 0..ncv-1} = AllKeys /\ DifferentKeys
    BY <1>1, <1>2, CopiedKeys
  <2> QED  BY <1>1, <1>3, <1>4, <2>1 DEF KeySet, Key, Places, DifferentKeys
<1> QED  BY <1>1, <1>2, <1>3, <1>4, <1>5 DEF CopyInv

LEMMA SortKeeps == ASSUME CopyInv, Sort PROVE CopyInv'
<1>1. /\ file' = file /\ at' = at /\ prog' = prog /\ step' = "sort"
      /\ SortStep /\ step = "sort"
  BY DEF Sort, storeVars
<1>2. SortInv /\ Size = ncv /\ KeySet = AllKeys /\ DifferentKeys /\ file \in Files /\ at \in 0..ncv /\ ncv > 0
  BY <1>1 DEF CopyInv
<1>3. SortInv' /\ Size' = Size /\ KeySet' = KeySet /\ (Different => Different')
  BY <1>1, <1>2, StepKeepsSort
<1>4. ncv' = ncv /\ lines' = lines /\ AllKeys' = AllKeys
  BY <1>1 DEF ncv, lines, AllKeys, SetElt
<1>5. DifferentKeys'
  BY <1>2, <1>3, <1>4 DEF DifferentKeys, Different, Places, Key
<1>6. sorting' # "off"
  BY <1>1 DEF SortStep, Pick, Swap, Parted, Unstack
<1> QED  BY <1>1, <1>2, <1>3, <1>4, <1>5, <1>6 DEF CopyInv, SortInv, SortTypes

LEMMA SortedKeeps == ASSUME CopyInv, Sorted PROVE CopyInv'
<1>1. /\ file' = file /\ prog' = prog /\ step' = "copy" /\ at' = 0
      /\ EndSort /\ step = "sort" /\ array' = array /\ sorting' = "off" /\ right' = 0
  BY DEF Sorted, EndSort
<1>2. SortInv /\ Size = ncv /\ KeySet = AllKeys /\ DifferentKeys /\ file \in Files /\ ncv > 0 /\ ncv \in Nat
  BY <1>1, FileFacts DEF CopyInv
<1>3. \A i, j \in Places : i < j => ~Before(array[j], array[i])
  BY <1>1, <1>2, EndIsSorted
<1>4. ncv' = ncv /\ lines' = lines /\ AllKeys' = AllKeys
  BY <1>1 DEF ncv, lines, AllKeys, SetElt
<1>5. DOMAIN array = Places
  BY <1>2 DEF SortInv, SortTypes
<1>6. SortedInFull'
  BY <1>1, <1>2, <1>3, <1>4, <1>5 DEF SortedInFull, KeySet, Key, Places, Before
<1>7. DifferentKeys'
  BY <1>1, <1>2, <1>4 DEF DifferentKeys, Key
<1> QED  BY <1>1, <1>2, <1>4, <1>6, <1>7 DEF CopyInv

LEMMA CopyValenceKeeps == ASSUME CopyInv, CopyValence PROVE CopyInv'
<1>1. /\ file' = file /\ prog' = prog /\ step = "copy" /\ step' = "copy"
      /\ at' = at + 1 /\ at < ncv /\ UNCHANGED sortVars
  BY DEF CopyValence
<1>2. ncv' = ncv /\ lines' = lines /\ AllKeys' = AllKeys /\ ncv \in Nat
  BY <1>1, FileFacts DEF CopyInv, ncv, lines, AllKeys, SetElt
<1>3. SortedInFull' /\ DifferentKeys'
  BY <1>1, <1>2 DEF CopyInv, SortedInFull, DifferentKeys, Key, Before, sortVars
<1> QED  BY <1>1, <1>2, <1>3 DEF CopyInv, sortVars

\* A step that does nothing to the copy.
LEMMA OthersKeep ==
    ASSUME CopyInv, Refuse \/ FirstPass \/ ExportBeast \/ Wrecked \/ ExportDs \/ Load
    PROVE  CopyInv'
<1>1. ncv \in Nat /\ file' = file /\ ncv' = ncv
  BY FileFacts DEF CopyInv, ncv, lines, Refuse, FirstPass, ExportBeast, Wrecked, ExportDs, Load
<1>2. CASE Refuse
  BY <1>1, <1>2 DEF Refuse, CopyInv, sortVars
<1>3. CASE FirstPass
  <2>1. /\ at' = 0 /\ step' = "fill" /\ ncv > 0 /\ UNCHANGED sortVars /\ step = "start"
    BY <1>3 DEF FirstPass
  <2>2. Copied'
    BY <2>1 DEF Copied
  <2> QED  BY <1>1, <2>1, <2>2 DEF CopyInv, sortVars
<1>4. CASE ExportBeast
  BY <1>1, <1>4 DEF ExportBeast, CopyInv, sortVars
<1>5. CASE ExportDs
  BY <1>1, <1>5 DEF ExportDs, CopyInv
<1>6. CASE Load
  BY <1>1, <1>6 DEF Load, CopyInv, sortVars
<1>7. CASE Wrecked
  <2>1. /\ prog' = "failed" /\ UNCHANGED <<step, at, array, left, len, right, stack, pivot, sorting>>
        /\ step \in {"fill", "copy"}
    BY <1>7 DEF Wrecked, sortVars
  <2>2. lines' = lines /\ AllKeys' = AllKeys
    BY <1>1 DEF lines, AllKeys, SetElt
  <2>3. SortedInFull' = SortedInFull /\ DifferentKeys' = DifferentKeys
    BY <1>1, <2>1, <2>2 DEF SortedInFull, DifferentKeys, Key, Before
  <2>4. step' \in {"fill", "copy"} /\ prog' = "failed"
    BY <2>1
  <2> QED  BY <1>1, <2>1, <2>3, <2>4 DEF CopyInv
<1> QED  BY <1>2, <1>3, <1>4, <1>5, <1>6, <1>7

LEMMA IdleKeeps ==
    ASSUME CopyInv, UNCHANGED <<storeVars, sortVars>> PROVE CopyInv'
<1>1. /\ file' = file /\ prog' = prog /\ step' = step /\ at' = at
      /\ array' = array /\ left' = left /\ len' = len /\ right' = right
      /\ stack' = stack /\ pivot' = pivot /\ sorting' = sorting
  BY DEF storeVars, sortVars
<1>2. ncv' = ncv /\ lines' = lines /\ AllKeys' = AllKeys
  BY <1>1 DEF ncv, lines, AllKeys, SetElt
<1>3. Copied' = Copied /\ SortedInFull' = SortedInFull /\ DifferentKeys' = DifferentKeys
  BY <1>1, <1>2 DEF Copied, SortedInFull, DifferentKeys, Key, Before, SetElt
<1>4. Size' = Size /\ Places' = Places /\ Top' = Top /\ KeySet' = KeySet
  BY <1>1 DEF Size, Places, Top, KeySet, Key
<1>5. SortInv' = SortInv
  BY <1>1, <1>4 DEF SortInv, SortTypes, Nested, Finished, AtHead, Sides, Cut, Before, IsEntry
<1> QED  BY <1>1, <1>2, <1>3, <1>4, <1>5 DEF CopyInv

-----------------------------------------------------------------------------

LEMMA InitHasCopyInv == StoreInit => CopyInv
<1> SUFFICES ASSUME StoreInit PROVE CopyInv
  OBVIOUS
<1>1. file \in Files /\ step = "start" /\ at = 0 /\ sorting = "off" /\ right = 0
  BY DEF StoreInit, SortInit
<1> QED  BY <1>1, FileFacts DEF CopyInv

LEMMA NextKeepsCopyInv == CopyInv /\ [StoreNext]_<<storeVars, sortVars>> => CopyInv'
  BY OthersKeep, ReadLineKeeps, SortCopyKeeps, SortKeeps, SortedKeeps, CopyValenceKeeps, IdleKeeps DEF StoreNext

LEMMA CopyInvAlways == StoreSpec => []CopyInv
  BY InitHasCopyInv, NextKeepsCopyInv, PTL DEF StoreSpec

-----------------------------------------------------------------------------
(* What the invariant of the copy is for. *)

LEMMA CopyStops == CopyInv => ScansStop
<1>1. CopyInv /\ step = "sort" => ScansStop
  BY InvScansStop DEF CopyInv
<1>2. CopyInv /\ step # "sort" => ScansStop
  BY DEF CopyInv, ScansStop
<1> QED  BY <1>1, <1>2

LEMMA CopySorts == ASSUME IdsFit, CopyInv PROVE SortedCopy
<1>1. CASE step = "sort"
  <2>1. SortInv /\ Size = ncv /\ KeySet = AllKeys
    BY <1>1 DEF CopyInv
  <2>2. DOMAIN array = 0..ncv-1
    BY <2>1 DEF SortInv, SortTypes, Places
  <2>3. {<<array[k].x, array[k].y>> : k \in DOMAIN array} = AllKeys
    BY <2>1, <2>2 DEF KeySet, Key, Places
  <2> QED  BY <1>1, <2>2, <2>3 DEF SortedCopy, AllKeys
<1>2. CASE step = "copy"
  <2>1. SortedInFull /\ DifferentKeys
    BY <1>2 DEF CopyInv
  <2>2. DOMAIN array = 0..ncv-1
    BY <2>1 DEF SortedInFull
  <2>3. {<<array[k].x, array[k].y>> : k \in DOMAIN array} = AllKeys
    BY <2>1, <2>2 DEF SortedInFull, Key
  <2>4. \A k \in 0..ncv-1 : IsEntry(array[k])
    <3>1. \A k \in 0..ncv-1 : Key(array[k]) \in AllKeys
      BY <2>1 DEF SortedInFull
    <3>2. \A p \in AllKeys : p[1] \in Nat /\ p[2] \in Nat
      BY KeysAreNumbers DEF CopyInv
    <3>3. \A k \in 0..ncv-1 : Key(array[k])[1] = array[k].x /\ Key(array[k])[2] = array[k].y
      BY DEF Key
    <3>4. \A k \in 0..ncv-1 : Key(array[k])[1] \in Nat /\ Key(array[k])[2] \in Nat
      BY <3>1, <3>2
    <3>5. \A k \in 0..ncv-1 : array[k].x \in Nat /\ array[k].y \in Nat
      BY <3>3, <3>4
    <3> QED  BY <3>5 DEF IsEntry
  <2>5. \A j, k \in 0..ncv-1 : j < k => Before(array[j], array[k])
    <3> SUFFICES ASSUME NEW j \in 0..ncv-1, NEW k \in 0..ncv-1, j < k
                 PROVE  Before(array[j], array[k])
      OBVIOUS
    <3>1. ~Before(array[k], array[j])
      BY <2>1 DEF SortedInFull
    <3>2. j # k
      BY FileFacts DEF CopyInv
    <3>3. Key(array[j]) # Key(array[k])
      BY <2>1, <3>2 DEF DifferentKeys
    <3>4. array[j].x # array[k].x \/ array[j].y # array[k].y
      BY <3>3, Zenon DEF Key
    <3> QED  BY <2>4, <3>1, <3>4 DEF IsEntry, Before
  <2> QED  BY <1>2, <2>2, <2>3, <2>5 DEF SortedCopy, AllKeys
<1> QED  BY <1>1, <1>2 DEF SortedCopy
-----------------------------------------------------------------------------
(* Types.  The indexes are read and written within their bounds: ids are     *)
(* below num_elts, also those that SETELT has cut off.                       *)

IsDisk(d) == d = [so |-> d.so, bb |-> d.bb, seg |-> d.seg, ds |-> d.ds, seg_ds |-> d.seg_ds]

StoreTypes ==
    /\ Within(ncv) /\ IsDisk(disk)
    /\ prog \in {"-c", "-d", "-b", "failed"}
    /\ step \in {"sort", "copy"} => prog \in {"-d", "failed"}
    /\ step = "live" => prog = "-b"
    /\ prog = "-b" => step \in {"start", "live"}
    /\ prog = "-c" => step \in {"start", "fill"}
    /\ step = "start" => bind_seg = None
    /\ (step = "fill" /\ prog = "-c") => bind_seg \in Bind(Ids)
    /\ (step \in {"fill", "sort", "copy"} /\ prog = "-d") => bind_seg \in Bind(Stored)
    /\ step \in {"start", "fill"} => bind_seg_ds = None
    /\ step \in {"sort", "copy"} => bind_seg_ds \in Bind(Stored)
    /\ step = "live" => bind_seg \in Bind(Ids) /\ bind_seg_ds \in Bind(Ids)
    /\ prog \in {"-d", "-b"} => disk.seg \in Bind(Stored)
    /\ prog = "-b" => disk.seg_ds \in Bind(Stored)

LEMMA IdsFacts ==
    ASSUME file \in Files
    PROVE  /\ file.num_elts \in Nat /\ Ids = 0..file.num_elts
           /\ Stored = 0..file.num_elts-1 /\ Stored \subseteq Ids
           /\ \A id \in Ids : id \in Stored <=> id < file.num_elts
  BY FileFacts DEF Ids, Stored

\* The files that are written are written, and the others stay.
LEMMA PutSo ==
    ASSUME IsDisk(disk), NEW v, disk' = [disk EXCEPT !.so = v]
    PROVE  /\ IsDisk(disk)' /\ disk'.so = v /\ disk'.bb = disk.bb /\ disk'.seg = disk.seg
           /\ disk'.ds = disk.ds /\ disk'.seg_ds = disk.seg_ds
<1>1. disk' = [so |-> v, bb |-> disk.bb, seg |-> disk.seg, ds |-> disk.ds, seg_ds |-> disk.seg_ds]
  BY DEF IsDisk
<1> QED  BY <1>1 DEF IsDisk

LEMMA PutBeast ==
    ASSUME IsDisk(disk), NEW v, NEW w, disk' = [disk EXCEPT !.bb = v, !.seg = w]
    PROVE  IsDisk(disk)' /\ disk'.so = disk.so /\ disk'.bb = v /\ disk'.seg = w
<1> DEFINE e == [disk EXCEPT !.bb = v]
<1>1. e = [so |-> disk.so, bb |-> v, seg |-> disk.seg, ds |-> disk.ds, seg_ds |-> disk.seg_ds]
  BY DEF IsDisk
<1>2. disk' = [e EXCEPT !.seg = w]
  OBVIOUS
<1> HIDE DEF e
<1>3. disk' = [so |-> e.so, bb |-> e.bb, seg |-> w, ds |-> e.ds, seg_ds |-> e.seg_ds]
  BY <1>1, <1>2
<1>4. e.so = disk.so /\ e.bb = v
  BY <1>1
<1> QED  BY <1>3, <1>4 DEF IsDisk

LEMMA PutDs ==
    ASSUME IsDisk(disk), NEW v, NEW w, disk' = [disk EXCEPT !.ds = v, !.seg_ds = w]
    PROVE  /\ IsDisk(disk)' /\ disk'.so = disk.so /\ disk'.bb = disk.bb /\ disk'.seg = disk.seg
           /\ disk'.ds = v /\ disk'.seg_ds = w
<1> DEFINE e == [disk EXCEPT !.ds = v]
<1>1. e = [so |-> disk.so, bb |-> disk.bb, seg |-> disk.seg, ds |-> v, seg_ds |-> disk.seg_ds]
  BY DEF IsDisk
<1>2. disk' = [e EXCEPT !.seg_ds = w]
  OBVIOUS
<1> HIDE DEF e
<1>3. disk' = [so |-> e.so, bb |-> e.bb, seg |-> e.seg, ds |-> e.ds, seg_ds |-> w]
  BY <1>1, <1>2
<1>4. e.so = disk.so /\ e.bb = disk.bb /\ e.seg = disk.seg /\ e.ds = v
  BY <1>1
<1> QED  BY <1>3, <1>4 DEF IsDisk

LEMMA IndexedType ==
    ASSUME NEW S, NEW seg \in Bind(S), NEW id \in S, NEW previous, at \in Nat
    PROVE  Indexed(seg, id, previous) \in Bind(S)
<1>1. seg[id].count \in Nat /\ seg[id].offset \in Nat \cup {NoOffset}
  BY DEF Bind
<1>2. PICK e : e = [offset |-> IF id = previous THEN seg[id].offset ELSE at, count |-> seg[id].count + 1]
  OBVIOUS
<1>3. e \in [offset : Nat \cup {NoOffset}, count : Nat]
  BY <1>1, <1>2
<1>4. Indexed(seg, id, previous) = [seg EXCEPT ![id] = e]
  BY <1>2 DEF Indexed
<1> QED  BY <1>3, <1>4 DEF Bind

\* The y of a copied valence is an id of the index.
LEMMA CopyIds ==
    ASSUME file \in Files, SortedInFull, NEW k \in 0..ncv-1
    PROVE  array[k].y \in Stored /\ array[k].x \in Nat
<1>1. Key(array[k]) \in AllKeys
  BY DEF SortedInFull
<1>2. PICK l \in Range(lines) : Key(array[k]) = <<l.x, SetElt(l.y)>>
  BY <1>1 DEF AllKeys
<1>3. /\ lines \in Seq(Line) /\ DOMAIN lines = 1..ncv /\ file.num_elts \in Nat
      /\ \A i \in 1..ncv : lines[i].x \in Nat /\ lines[i].y \in Nat /\ lines[i].y < file.num_elts
  BY FileFacts
<1>4. l.y \in Nat /\ l.y < file.num_elts /\ l.x \in Nat
  BY <1>2, <1>3 DEF Range
<1>5. SetElt(l.y) \in Nat /\ SetElt(l.y) <= l.y
  BY <1>4, ValenceStoreAssumption DEF SetElt
<1>6. array[k].x = l.x /\ array[k].y = SetElt(l.y)
  BY <1>2 DEF Key
<1>7. array[k].y \in 0..file.num_elts-1
  BY <1>3, <1>4, <1>5, <1>6
<1> QED  BY <1>4, <1>6, <1>7 DEF Stored

LEMMA SameFile ==
    ASSUME file' = file
    PROVE  /\ lines' = lines /\ ncv' = ncv /\ Ids' = Ids /\ Stored' = Stored /\ AllKeys' = AllKeys
  BY DEF lines, ncv, Ids, Stored, AllKeys, SetElt

\* A cleared index has a start and a count for each of its ids.
LEMMA ClearedType ==
    ASSUME NEW ids PROVE Cleared(ids) \in Bind(ids) /\ \A id \in ids : Cleared(ids)[id].count = 0
<1>1. [offset |-> NoOffset, count |-> 0] \in [offset : Nat \cup {NoOffset}, count : Nat]
  OBVIOUS
<1> QED  BY <1>1 DEF Cleared, Bind

\* No step writes valences.out.
LEMMA FileStays ==
    ASSUME [StoreNext]_<<storeVars, sortVars>> PROVE file' = file
  BY DEF StoreNext, Refuse, FirstPass, ReadLine, ExportBeast, Wrecked, SortCopy, Sort, Sorted, CopyValence,
         ExportDs, Load, storeVars

LEMMA InitHasStoreTypes == StoreInit => StoreTypes
<1> SUFFICES ASSUME StoreInit PROVE StoreTypes
  OBVIOUS
<1>1. file \in Files
  BY DEF StoreInit
<1>2. Within(ncv)
  <2>1. <<>> \in Seq(Nat) /\ Len(<<>>) = 0 /\ ncv \in Nat /\ MaxStack \in Nat
    BY <1>1, FileFacts, QuickSortAssumption
  <2>2. left = 0 /\ len = 0 /\ right = 0 /\ stack = <<>> /\ sorting = "off"
    BY DEF StoreInit, SortInit
  <2> QED  BY <2>1, <2>2 DEF Within
<1>3. prog = "-c" /\ step = "start" /\ bind_seg = None /\ bind_seg_ds = None
  BY DEF StoreInit
<1>4. IsDisk(disk)
  BY DEF StoreInit, IsDisk
<1> QED  BY <1>2, <1>3, <1>4 DEF StoreTypes

\* A step that does not sort.
LEMMA StaysWithin ==
    ASSUME CopyInv, Within(ncv), file' = file,
           \/ UNCHANGED <<left, len, right, stack, sorting>>
           \/ BeginSort(ncv) \/ EndSort
    PROVE  Within(ncv)'
<1>1. ncv \in Nat /\ ncv' = ncv /\ <<>> \in Seq(Nat) /\ Len(<<>>) = 0 /\ MaxStack \in Nat
  BY SameFile, FileFacts, QuickSortAssumption DEF CopyInv
<1>2. CASE UNCHANGED <<left, len, right, stack, sorting>>
  BY <1>1, <1>2 DEF Within
<1>3. CASE BeginSort(ncv)
  <2>1. left' = 0 /\ len' = ncv /\ stack' = <<>> /\ sorting' = "outer" /\ right' = right
    BY <1>3 DEF BeginSort
  <2> QED  BY <1>1, <2>1 DEF Within
<1>4. CASE EndSort
  <2>1. left' = 0 /\ len' = 0 /\ stack' = <<>> /\ sorting' = "off" /\ right' = 0
    BY <1>4 DEF EndSort
  <2> QED  BY <1>1, <2>1 DEF Within
<1> QED  BY <1>2, <1>3, <1>4

LEMMA NextKeepsStoreTypes ==
    ASSUME CopyInv, StoreTypes, [StoreNext]_<<storeVars, sortVars>> PROVE StoreTypes'
<1>1. file \in Files /\ at \in 0..ncv /\ at \in Nat /\ ncv \in Nat
  BY FileFacts DEF CopyInv
<1>2. file' = file
  BY FileStays
<1>3. ncv' = ncv /\ Ids' = Ids /\ Stored' = Stored
  BY <1>2, SameFile
<1>4. /\ file.num_elts \in Nat /\ Ids = 0..file.num_elts
      /\ Stored = 0..file.num_elts-1 /\ Stored \subseteq Ids
      /\ \A id \in Ids : id \in Stored <=> id < file.num_elts
  BY <1>1, IdsFacts
<1>a. IsDisk(disk)
  BY DEF StoreTypes
<1>5. Within(ncv)'
  <2>1. CASE Sort
    <3>1. SortInv /\ Size = ncv /\ SortStep
      BY <2>1 DEF Sort, CopyInv
    <3>2. ASSUME NEW n \in Nat, n = ncv PROVE Within(n)'
      BY <3>1, <3>2, StepStaysWithin DEF StoreTypes
    <3>3. \A n \in Nat : n = ncv => Within(n)'
      BY <3>2
    <3> QED  BY <1>1, <1>3, <3>3 DEF Within
  <2>2. CASE ~Sort
    <3>1. \/ UNCHANGED <<left, len, right, stack, sorting>>
          \/ BeginSort(ncv) \/ EndSort
      BY <2>2 DEF StoreNext, Refuse, FirstPass, ReadLine, ExportBeast, Wrecked, SortCopy, Sorted, CopyValence,
                  ExportDs, Load, storeVars, sortVars
    <3> QED  BY <1>2, <3>1, StaysWithin DEF StoreTypes
  <2> QED  BY <2>1, <2>2
<1>6. CASE Refuse \/ Wrecked \/ Sort \/ UNCHANGED <<storeVars, sortVars>>
  <2>1. /\ UNCHANGED <<disk, step, bind_seg, bind_seg_ds>>
        /\ \/ UNCHANGED prog
           \/ prog = "-c" /\ step = "start" /\ prog' = "failed"
           \/ prog = "-d" /\ prog' = "failed"
    BY <1>6 DEF Refuse, Wrecked, Sort, storeVars
  <2> QED  BY <1>2, <1>3, <1>5, <2>1 DEF StoreTypes
<1>14. CASE SortCopy
  <2>1. /\ UNCHANGED <<disk, bind_seg>> /\ bind_seg_ds' = Cleared(Stored)
        /\ prog = "-d" /\ step = "fill" /\ prog' = "-d" /\ step' = "sort"
    BY <1>14 DEF SortCopy
  <2>2. bind_seg_ds' \in Bind(Stored)
    BY <2>1, ClearedType
  <2> QED  BY <1>2, <1>3, <1>5, <2>1, <2>2 DEF StoreTypes
<1>7. CASE FirstPass
  <2>1. /\ prog \in {"-c", "-d"} /\ step = "start" /\ step' = "fill" /\ prog' = prog
        /\ bind_seg' = Cleared(IF prog = "-c" THEN Ids ELSE Stored)
        /\ bind_seg_ds' = bind_seg_ds
    BY <1>7 DEF FirstPass
  <2>2. /\ prog = "-c" => bind_seg' \in Bind(Ids)
        /\ prog = "-d" => bind_seg' \in Bind(Stored)
    BY <2>1, ClearedType
  <2>3. IsDisk(disk)' /\ disk'.seg = disk.seg /\ disk'.seg_ds = disk.seg_ds
    <3>1. PICK v : disk' = [disk EXCEPT !.so = v]
      BY <1>7, Zenon DEF FirstPass
    <3> QED  BY <1>a, <3>1, PutSo
  <2> QED  BY <1>2, <1>3, <1>5, <2>1, <2>2, <2>3 DEF StoreTypes
<1>8. CASE ReadLine
  <2>1. /\ step = "fill" /\ at < ncv /\ UNCHANGED <<prog, step, disk, bind_seg_ds>>
        /\ bind_seg' = Indexed(bind_seg, lines[at+1].x, IF at = 0 THEN 0 ELSE lines[at].x)
    BY <1>8 DEF ReadLine
  <2>2. lines[at+1].x \in Ids /\ lines[at+1].x \in Stored
    <3>1. at + 1 \in 1..ncv
      BY <1>1, <2>1
    <3>2. \A i \in 1..ncv : lines[i].x \in Nat /\ lines[i].y \in Nat /\ lines[i].x < lines[i].y
                             /\ lines[i].y < file.num_elts
      BY <1>1, FileLines, FileFacts
    <3> QED  BY <1>4, <3>1, <3>2
  <2>3. /\ prog = "-c" => bind_seg' \in Bind(Ids)
        /\ prog = "-d" => bind_seg' \in Bind(Stored)
    BY <1>1, <2>1, <2>2, IndexedType DEF StoreTypes
  <2> QED  BY <1>2, <1>3, <1>5, <2>1, <2>3 DEF StoreTypes
<1>9. CASE ExportBeast
  <2>1. /\ prog' = "-d" /\ step' = "start" /\ bind_seg' = None /\ UNCHANGED bind_seg_ds
        /\ step = "fill" /\ prog = "-c"
    BY <1>9 DEF ExportBeast
  <2>2. IsDisk(disk)' /\ disk'.seg \in Bind(Stored)
    <3>1. disk' = [disk EXCEPT !.bb = bb, !.seg = Exported(bind_seg)]
      BY <1>9 DEF ExportBeast
    <3>2. IsDisk(disk)' /\ disk'.seg = Exported(bind_seg)
      BY <1>a, <3>1, PutBeast
    <3>3. Exported(bind_seg) \in Bind(Stored)
      BY <1>4, <2>1 DEF Exported, Bind, StoreTypes
    <3> QED  BY <3>2, <3>3
  <2> QED  BY <1>2, <1>3, <1>5, <2>1, <2>2 DEF StoreTypes
<1>10. CASE Sorted
  <2>1. /\ step = "sort" /\ step' = "copy" /\ UNCHANGED <<prog, disk, bind_seg>>
        /\ bind_seg_ds' = [id \in Stored |-> [offset |-> 0, count |-> 0]]
    BY <1>10 DEF Sorted
  <2>2. bind_seg_ds' \in Bind(Stored)
    BY <1>4, <2>1 DEF Bind
  <2> QED  BY <1>2, <1>3, <1>5, <2>1, <2>2 DEF StoreTypes
<1>11. CASE CopyValence
  <2>1. /\ step = "copy" /\ at < ncv /\ UNCHANGED <<prog, step, disk, bind_seg>>
        /\ bind_seg_ds' = Indexed(bind_seg_ds, array[at].y, IF at = 0 THEN 0 ELSE array[at-1].y)
    BY <1>11 DEF CopyValence
  <2>2. array[at].y \in Stored
    <3>1. SortedInFull /\ at \in 0..ncv-1
      BY <1>1, <2>1 DEF CopyInv
    <3> QED  BY <1>1, <3>1, CopyIds
  <2>3. bind_seg_ds' \in Bind(Stored)
    BY <1>1, <2>1, <2>2, IndexedType DEF StoreTypes
  <2> QED  BY <1>2, <1>3, <1>5, <2>1, <2>3 DEF StoreTypes
<1>12. CASE ExportDs
  <2>1. /\ step = "copy" /\ prog = "-d" /\ prog' = "-b" /\ step' = "start"
        /\ bind_seg' = None /\ bind_seg_ds' = None
        /\ disk' = [disk EXCEPT !.ds = bb_ds, !.seg_ds = bind_seg_ds]
    BY <1>12 DEF ExportDs
  <2>2. IsDisk(disk)' /\ disk'.seg = disk.seg /\ disk'.seg_ds = bind_seg_ds
    BY <1>a, <2>1, PutDs
  <2> QED  BY <1>2, <1>3, <1>5, <2>1, <2>2 DEF StoreTypes
<1>13. CASE Load
  <2>1. /\ prog = "-b" /\ step' = "live" /\ UNCHANGED <<prog, disk>>
        /\ bind_seg' = Imported(disk.seg) /\ bind_seg_ds' = Imported(disk.seg_ds)
    BY <1>13 DEF Load
  <2>2. ASSUME NEW seg \in Bind(Stored) PROVE Imported(seg) \in Bind(Ids)
    <3>1. \A id \in Ids : IF id < file.num_elts THEN seg[id] \in [offset : Nat \cup {NoOffset}, count : Nat]
                          ELSE [offset |-> 0, count |-> 0] \in [offset : Nat \cup {NoOffset}, count : Nat]
      BY <1>4 DEF Bind
    <3> QED  BY <3>1 DEF Imported, Bind
  <2> QED  BY <1>2, <1>3, <1>5, <2>1, <2>2 DEF StoreTypes
<1> QED  BY <1>6, <1>7, <1>8, <1>9, <1>10, <1>11, <1>12, <1>13, <1>14 DEF StoreNext

LEMMA TypesAlways == StoreSpec => [](CopyInv /\ StoreTypes)
  BY InitHasCopyInv, InitHasStoreTypes, NextKeepsCopyInv, NextKeepsStoreTypes, PTL DEF StoreSpec

LEMMA TypesAreOK == CopyInv /\ StoreTypes => StoreTypeOK
<1> SUFFICES ASSUME CopyInv, StoreTypes PROVE StoreTypeOK
  OBVIOUS
<1>1. Range(stack) \subseteq 0..ncv
  <2>1. stack \in Seq(Nat) /\ \A i \in 1..Len(stack) : stack[i] \in 0..ncv
    BY DEF StoreTypes, Within
  <2>2. DOMAIN stack = 1..Len(stack)
    BY <2>1
  <2> QED  BY <2>1, <2>2 DEF Range
<1>2. /\ prog \in {"-c", "-b"} => bind_seg \in Bind(Ids) \cup {None} /\ bind_seg_ds \in Bind(Ids) \cup {None}
      /\ prog = "-d" => bind_seg \in Bind(Stored) \cup {None} /\ bind_seg_ds \in Bind(Stored) \cup {None}
  BY DEF StoreTypes, CopyInv
<1> QED  BY <1>1, <1>2 DEF StoreTypeOK, CopyInv, StoreTypes, Within
-----------------------------------------------------------------------------
(* What is found through an index.  The entries of an id are at places next  *)
(* to one another, because the valences come in the order of their ids.      *)

Segment(e, places) ==
    IF e.count = 0 THEN places = {}
    ELSE e.offset \in Nat /\ places = e.offset..e.offset + e.count - 1

\* Of the first n places, those with this id.
PlacesIn(key, n, id) == {k \in 0..n-1 : key[k] = id}

\* One more valence: its id is the one before, whose places end here, or new.
LEMMA IndexedGrows ==
    ASSUME NEW S, NEW seg \in Bind(S), at \in Nat, NEW key,
           \A k \in 0..at : key[k] \in Nat \ {0},
           \A j, k \in 0..at : j <= k => key[j] <= key[k],
           key[at] \in S,
           \A id \in S : Segment(seg[id], PlacesIn(key, at, id))
    PROVE  \A id \in S : Segment(Indexed(seg, key[at], IF at = 0 THEN 0 ELSE key[at-1])[id],
                                 PlacesIn(key, at + 1, id))
<1> DEFINE previous == IF at = 0 THEN 0 ELSE key[at-1]
           new == Indexed(seg, key[at], previous)
           old(id) == PlacesIn(key, at, id)
           now(id) == PlacesIn(key, at + 1, id)
<1>0. /\ \A id : old(id) = {k \in 0..at-1 : key[k] = id}
      /\ \A id : now(id) = {k \in 0..at : key[k] = id}
  <2>1. (at + 1) - 1 = at
    OBVIOUS
  <2> QED  BY <2>1 DEF PlacesIn
<1>1. /\ DOMAIN seg = S
      /\ \A id \in S : seg[id].count \in Nat /\ seg[id].offset \in Nat \cup {NoOffset}
  BY DEF Bind
<1>2. \A id \in S : id # key[at] => new[id] = seg[id]
  BY <1>1 DEF Indexed
<1>3. /\ new[key[at]].offset = IF key[at] = previous THEN seg[key[at]].offset ELSE at
      /\ new[key[at]].count = seg[key[at]].count + 1
  BY <1>1 DEF Indexed
<1>4. ASSUME NEW id, id # key[at] PROVE now(id) = old(id)
  <2>1. \A k \in 0..at : k # at => k \in 0..at-1
    OBVIOUS
  <2>2. 0..at-1 \subseteq 0..at
    OBVIOUS
  <2>3. old(id) = {k \in 0..at-1 : key[k] = id} /\ now(id) = {k \in 0..at : key[k] = id}
    BY <1>0
  <2> HIDE DEF old, now
  <2> QED  BY <1>4, <2>1, <2>2, <2>3
<1>5. now(key[at]) = old(key[at]) \cup {at}
  BY <1>0
<1>6. ASSUME NEW id \in S, id # key[at] PROVE Segment(new[id], now(id))
  BY <1>2, <1>4, <1>6
<1>7. Segment(new[key[at]], now(key[at]))
  <2> DEFINE e == seg[key[at]]
  <2>1. Segment(e, old(key[at])) /\ e.count \in Nat /\ e.offset \in Nat \cup {NoOffset}
    BY <1>1
  <2>2. CASE key[at] = previous
    <3>1. at > 0 /\ key[at-1] = key[at] /\ at - 1 \in 0..at-1
      BY <2>2
    <3>2. at - 1 \in old(key[at]) /\ \A k \in old(key[at]) : k <= at - 1
      BY <1>0, <3>1
    <3>3. e.count # 0 /\ e.offset \in Nat /\ old(key[at]) = e.offset..e.offset + e.count - 1
      BY <2>1, <3>2 DEF Segment
    <3> HIDE DEF old, e, new, now
    <3>4. at - 1 >= e.offset /\ at - 1 <= e.offset + e.count - 1
      BY <2>1, <3>2, <3>3
    <3>5. e.offset + e.count - 1 \in old(key[at])
      BY <2>1, <3>3
    <3>6. e.offset + e.count - 1 = at - 1
      BY <2>1, <3>2, <3>3, <3>4, <3>5
    <3>7. now(key[at]) = e.offset..at
      BY <1>5, <2>1, <3>3, <3>4, <3>6
    <3>8. new[key[at]].offset = e.offset /\ new[key[at]].count = e.count + 1
      BY <1>3, <2>2 DEF e
    <3>9. e.offset + (e.count + 1) - 1 = at /\ e.count + 1 # 0
      BY <2>1, <3>3, <3>6
    <3> QED  BY <3>3, <3>7, <3>8, <3>9 DEF Segment
  <2>3. CASE key[at] # previous
    <3>1. old(key[at]) = {}
      <4>1. ASSUME NEW k \in 0..at-1, key[k] = key[at] PROVE FALSE
        <5>1. at > 0 /\ previous = key[at-1] /\ at - 1 \in 0..at /\ k \in 0..at /\ k <= at - 1 /\ at - 1 <= at
          BY <4>1
        <5>2. key[k] <= key[at-1] /\ key[at-1] <= key[at]
          BY <5>1
        <5>3. key[at-1] \in Nat /\ key[k] \in Nat
          BY <5>1
        <5> QED  BY <2>3, <4>1, <5>1, <5>2, <5>3
      <4> QED  BY <1>0, <4>1
    <3>2. e.count = 0
      <4> HIDE DEF old, e
      <4>1. CASE e.count # 0
        <5>1. e.offset \in Nat /\ old(key[at]) = e.offset..e.offset + e.count - 1
          BY <2>1, <4>1 DEF Segment
        <5>2. e.offset \in old(key[at])
          BY <2>1, <4>1, <5>1
        <5> QED  BY <3>1, <5>2
      <4> QED  BY <4>1
    <3>3. new[key[at]].offset = at /\ new[key[at]].count = 1
      BY <1>3, <2>3, <3>2
    <3> HIDE DEF old, e, new, now
    <3>4. now(key[at]) = at..at + 1 - 1
      BY <1>5, <3>1
    <3> QED  BY <3>3, <3>4 DEF Segment
  <2> QED  BY <2>2, <2>3
<1> QED  BY <1>6, <1>7

\* The places of a segment are read one after the other.
ReadsPlaces(f, store, e, places) ==
    /\ DOMAIN f = 1..e.count
    /\ \A k \in 1..e.count : /\ f[k] = store[e.offset + k - 1]
                             /\ e.offset + k - 1 \in places
                             /\ e.offset \in Nat
    /\ \A p \in places : \E k \in 1..e.count : p = e.offset + k - 1

LEMMA FoundIs ==
    ASSUME NEW store, NEW seg, NEW id, NEW places,
           seg[id].count \in Nat, Segment(seg[id], places)
    PROVE  ReadsPlaces(Found(store, seg, id), store, seg[id], places)
<1>1. CASE seg[id].count = 0
  <2>1. places = {} /\ 1..seg[id].count = {}
    BY <1>1 DEF Segment
  <2>2. Found(store, seg, id) = <<>> \/ Found(store, seg, id) = [k \in {} |-> store[seg[id].offset + k - 1]]
    BY <2>1 DEF Found
  <2> QED  BY <2>1, <2>2 DEF ReadsPlaces
<1>2. CASE seg[id].count # 0
  <2>1. seg[id].offset \in Nat /\ places = seg[id].offset..seg[id].offset + seg[id].count - 1
    BY <1>2 DEF Segment
  <2>2. Found(store, seg, id) = [k \in 1..seg[id].count |-> store[seg[id].offset + k - 1]]
    BY <2>1 DEF Found, NoOffset
  <2>3. ASSUME NEW p \in places PROVE \E k \in 1..seg[id].count : p = seg[id].offset + k - 1
    <3>1. p - seg[id].offset + 1 \in 1..seg[id].count /\ p = seg[id].offset + (p - seg[id].offset + 1) - 1
      BY <2>1
    <3> QED  BY <3>1
  <2> QED  BY <2>1, <2>2, <2>3 DEF ReadsPlaces
<1> QED  BY <1>1, <1>2

\* These places of the store hold these elements in ascending order.
Holds(store, places, elts) ==
    /\ \A p \in places : store[p].elt \in elts
    /\ \A e \in elts : \E p \in places : store[p].elt = e
    /\ \A p, q \in places : p < q => store[p].elt < store[q].elt

LEMMA FoundEntries ==
    ASSUME NEW store, NEW seg, NEW id, NEW places, NEW elts,
           seg[id].count \in Nat, Segment(seg[id], places),
           Holds(store, places, elts)
    PROVE  EntriesOf(Found(store, seg, id), elts)
<1> DEFINE n == seg[id].count
           f == Found(store, seg, id)
           off == seg[id].offset
<1>1. /\ DOMAIN f = 1..n /\ n \in Nat
      /\ \A k \in 1..n : f[k] = store[off + k - 1] /\ off + k - 1 \in places /\ off \in Nat
      /\ \A p \in places : \E k \in 1..n : p = off + k - 1
  <2>1. ReadsPlaces(f, store, seg[id], places)
    BY FoundIs
  <2> HIDE DEF f
  <2> QED  BY <2>1 DEF ReadsPlaces
<1> HIDE DEF n, f, off
<1>2. {f[k].elt : k \in DOMAIN f} = elts
  <2>1. \A k \in DOMAIN f : f[k].elt \in elts
    BY <1>1 DEF Holds
  <2>2. ASSUME NEW p \in places PROVE store[p].elt \in {f[k].elt : k \in DOMAIN f}
    <3>1. PICK k \in 1..n : p = off + k - 1
      BY <1>1
    <3>2. f[k].elt = store[p].elt /\ k \in DOMAIN f
      BY <1>1, <3>1
    <3> QED  BY <3>2
  <2>3. ASSUME NEW e \in elts PROVE e \in {f[k].elt : k \in DOMAIN f}
    <3>1. PICK p \in places : store[p].elt = e
      BY DEF Holds
    <3> QED  BY <2>2, <3>1
  <2> QED  BY <2>1, <2>3
<1>3. ASSUME NEW j \in 1..n, NEW k \in 1..n, j < k PROVE f[j].elt < f[k].elt
  <2>1. off + j - 1 < off + k - 1
    BY <1>1, <1>3
  <2> QED  BY <1>1, <2>1 DEF Holds
<1>4. \A j, k \in DOMAIN f : j < k => f[j].elt < f[k].elt
  BY <1>1, <1>3
<1> QED  BY <1>2, <1>4 DEF EntriesOf, f

\* Of n valences the first elements lie in major and the others in minor, in
\* order; together they are these pairs.
OrderedAs(major, minor, pairs, n, elts) ==
    /\ {<<major[k], minor[k]>> : k \in 0..n-1} = pairs
    /\ \A k \in 0..n-1 : major[k] \in Nat \ {0} /\ major[k] < elts /\ minor[k] \in Nat
    /\ \A j, k \in 0..n-1 : j < k => major[j] < major[k] \/ (major[j] = major[k] /\ minor[j] < minor[k])

\* The first n places of a store hold the other elements, and the index of
\* these ids leads to them.
Indexes(store, seg, major, minor, n, ids) ==
    /\ \A k \in 0..n-1 : store[k].elt = minor[k]
    /\ \A id \in ids : Segment(seg[id], PlacesIn(major, n, id))

StoreOf(store, seg, pairs, n, elts, ids) ==
    \E major, minor : OrderedAs(major, minor, pairs, n, elts) /\ Indexes(store, seg, major, minor, n, ids)

LEMMA NothingIndexed ==
    ASSUME NEW store, NEW seg, NEW major, NEW minor, NEW ids, \A id \in ids : seg[id].count = 0
    PROVE  Indexes(store, seg, major, minor, 0, ids)
<1>1. 0..0-1 = {}
  OBVIOUS
<1>2. \A id : PlacesIn(major, 0, id) = {}
  BY <1>1 DEF PlacesIn
<1> QED  BY <1>1, <1>2 DEF Indexes, Segment

\* One more valence in the store and in its index.
LEMMA IndexesGrow ==
    ASSUME NEW n \in Nat, at \in 0..n-1, NEW ids, NEW seg \in Bind(ids), NEW store, NEW v,
           NEW major, NEW minor, NEW pairs, NEW elts, OrderedAs(major, minor, pairs, n, elts),
           Indexes(store, seg, major, minor, at, ids), v.elt = minor[at], major[at] \in ids
    PROVE  Indexes(Extended(store, v), Indexed(seg, major[at], IF at = 0 THEN 0 ELSE major[at-1]),
                   major, minor, at + 1, ids)
<1>1. at \in Nat /\ 0..(at + 1)-1 = 0..at
  OBVIOUS
<1>2. \A k \in 0..at : major[k] \in Nat \ {0}
  BY <1>1 DEF OrderedAs
<1>3. \A j, k \in 0..at : j <= k => major[j] <= major[k]
  <2> SUFFICES ASSUME NEW j \in 0..at, NEW k \in 0..at, j <= k PROVE major[j] <= major[k]
    OBVIOUS
  <2>1. j \in 0..n-1 /\ k \in 0..n-1 /\ (j < k \/ j = k)
    OBVIOUS
  <2>2. j < k => major[j] < major[k] \/ major[j] = major[k]
    BY <2>1 DEF OrderedAs
  <2> QED  BY <1>2, <2>1, <2>2
<1>4. \A id \in ids : Segment(Indexed(seg, major[at], IF at = 0 THEN 0 ELSE major[at-1])[id],
                              PlacesIn(major, at + 1, id))
  <2>1. \A id \in ids : Segment(seg[id], PlacesIn(major, at, id))
    BY DEF Indexes
  <2> QED  BY <1>1, <1>2, <1>3, <2>1, IndexedGrows
<1>5. \A k \in 0..at : Extended(store, v)[k].elt = minor[k]
  <2>1. \A k \in 0..at : Extended(store, v)[k] = IF k = at THEN v ELSE store[k]
    BY DEF Extended
  <2>2. \A k \in 0..at : k # at => k \in 0..at-1
    BY <1>1
  <2> QED  BY <2>1, <2>2 DEF Indexes
<1> QED  BY <1>1, <1>4, <1>5 DEF Indexes

\* The index in the file has one entry less; the import adds an empty one,
\* for an id that no pair has.
LEMMA ExportKeeps ==
    ASSUME file \in Files, NEW store, NEW seg, NEW major, NEW minor, NEW n,
           Indexes(store, seg, major, minor, n, Ids)
    PROVE  Indexes(store, Exported(seg), major, minor, n, Stored)
<1>1. /\ Stored = 0..file.num_elts-1 /\ Stored \subseteq Ids
  BY IdsFacts
<1>2. \A id \in Stored : Exported(seg)[id] = seg[id]
  BY <1>1 DEF Exported
<1> QED  BY <1>1, <1>2 DEF Indexes

LEMMA ImportKeeps ==
    ASSUME file \in Files, NEW store, NEW seg, NEW pairs, NEW n,
           StoreOf(store, seg, pairs, n, file.num_elts, Stored)
    PROVE  StoreOf(store, Imported(seg), pairs, n, file.num_elts, Ids)
<1>1. PICK major, minor : /\ OrderedAs(major, minor, pairs, n, file.num_elts)
                          /\ Indexes(store, seg, major, minor, n, Stored)
  BY DEF StoreOf
<1>2. /\ file.num_elts \in Nat
      /\ \A id \in Ids : id \in Stored <=> id < file.num_elts
  BY IdsFacts
<1>3. ASSUME NEW id \in Ids PROVE Segment(Imported(seg)[id], PlacesIn(major, n, id))
  <2>1. Imported(seg)[id] = IF id < file.num_elts THEN seg[id] ELSE [offset |-> 0, count |-> 0]
    BY DEF Imported
  <2>2. CASE id < file.num_elts
    <3>1. Segment(seg[id], PlacesIn(major, n, id))
      BY <1>1, <1>2, <2>2 DEF Indexes
    <3> QED  BY <2>1, <2>2, <3>1
  <2>3. CASE ~(id < file.num_elts)
    <3>1. Imported(seg)[id].count = 0
      BY <2>1, <2>3
    <3>2. PlacesIn(major, n, id) = {}
      <4>1. \A k \in 0..n-1 : major[k] # id
        BY <1>1, <2>3 DEF OrderedAs
      <4> QED  BY <4>1 DEF PlacesIn
    <3> QED  BY <3>1, <3>2 DEF Segment
  <2> QED  BY <2>2, <2>3
<1>4. Indexes(store, Imported(seg), major, minor, n, Ids)
  BY <1>1, <1>3 DEF Indexes
<1> QED  BY <1>1, <1>4 DEF StoreOf

\* What such a store holds is what is found in it.
LEMMA StoreIsFound ==
    ASSUME NEW store, NEW seg, NEW pairs, NEW n \in Nat, NEW elts, NEW id \in Ids,
           seg \in Bind(Ids), StoreOf(store, seg, pairs, n, elts, Ids)
    PROVE  EntriesOf(Found(store, seg, id), {p[2] : p \in {p \in pairs : p[1] = id}})
<1>1. PICK major, minor : /\ OrderedAs(major, minor, pairs, n, elts)
                          /\ Indexes(store, seg, major, minor, n, Ids)
  BY DEF StoreOf
<1> DEFINE places == PlacesIn(major, n, id)
           found == {p[2] : p \in {p \in pairs : p[1] = id}}
<1>2. seg[id].count \in Nat
  BY DEF Bind
<1>3. Segment(seg[id], places)
  BY <1>1 DEF Indexes
<1>4. places \subseteq 0..n-1 /\ \A k \in places : major[k] = id /\ store[k].elt = minor[k]
  BY <1>1 DEF PlacesIn, Indexes
<1>5. \A j, k \in places : j < k => store[j].elt < store[k].elt
  <2> SUFFICES ASSUME NEW j \in places, NEW k \in places, j < k PROVE store[j].elt < store[k].elt
    OBVIOUS
  <2>1. j \in 0..n-1 /\ k \in 0..n-1 /\ major[j] = id /\ major[k] = id
    BY <1>4
  <2>2. major[j] \in Nat /\ (major[j] < major[k] \/ (major[j] = major[k] /\ minor[j] < minor[k]))
    BY <1>1, <2>1 DEF OrderedAs
  <2>3. minor[j] < minor[k]
    BY <2>1, <2>2
  <2> QED  BY <1>4, <2>3
<1>6. /\ \A k \in places : store[k].elt \in found
      /\ \A e \in found : \E k \in places : store[k].elt = e
  <2>1. pairs = {<<major[k], minor[k]>> : k \in 0..n-1}
    BY <1>1 DEF OrderedAs
  <2>2. ASSUME NEW k \in places PROVE store[k].elt \in found
    <3>1. <<major[k], minor[k]>> \in pairs /\ major[k] = id /\ store[k].elt = minor[k]
      BY <1>4, <2>1
    <3>2. PICK p \in pairs : p = <<major[k], minor[k]>>
      BY <3>1
    <3>3. p[1] = id /\ p[2] = store[k].elt
      BY <3>1, <3>2
    <3> QED  BY <3>3
  <2>3. ASSUME NEW p \in pairs, p[1] = id PROVE \E k \in places : store[k].elt = p[2]
    <3>1. PICK k \in 0..n-1 : p = <<major[k], minor[k]>>
      BY <2>1
    <3>2. major[k] = id /\ p[2] = minor[k]
      BY <2>3, <3>1
    <3>3. k \in places
      BY <3>2 DEF PlacesIn
    <3> QED  BY <1>4, <3>2, <3>3
  <2> QED  BY <2>2, <2>3
<1> HIDE DEF places, found
<1>7. Holds(store, places, found)
  BY <1>5, <1>6 DEF Holds
<1>8. EntriesOf(Found(store, seg, id), found)
  BY <1>2, <1>3, <1>7, FoundEntries
<1> QED  BY <1>8 DEF found
-----------------------------------------------------------------------------
(* Both stores and both indexes, from the file to the live recgen.           *)

XPairs == {<<l.x, l.y>> : l \in Range(lines)}
YPairs == {<<l.y, l.x>> : l \in Range(lines)}

LineX == [k \in 0..ncv-1 |-> lines[k+1].x]
LineY == [k \in 0..ncv-1 |-> lines[k+1].y]
CopyX == [k \in 0..ncv-1 |-> array[k].x]
CopyY == [k \in 0..ncv-1 |-> array[k].y]

StoreInv ==
    /\ (step = "fill" /\ prog = "-c") => Indexes(bb, bind_seg, LineX, LineY, at, Ids)
    /\ step = "copy" => Indexes(bb_ds, bind_seg_ds, CopyY, CopyX, at, Stored)
    /\ prog \in {"-d", "-b"} =>
          StoreOf(disk.bb, disk.seg, XPairs, ncv, file.num_elts, Stored)
    /\ prog = "-b" =>
          StoreOf(disk.ds, disk.seg_ds, YPairs, ncv, file.num_elts, Stored)
    /\ step = "live" => /\ StoreOf(bb, bind_seg, XPairs, ncv, file.num_elts, Ids)
                        /\ StoreOf(bb_ds, bind_seg_ds, YPairs, ncv, file.num_elts, Ids)

\* The lines as a function from the places of the store.
LEMMA LineFacts ==
    ASSUME file \in Files
    PROVE  /\ ncv \in Nat /\ file.num_elts \in Nat
           /\ \A k \in 0..ncv-1 : /\ k + 1 \in 1..ncv /\ lines[k+1] \in Range(lines)
                                  /\ LineX[k] = lines[k+1].x /\ LineY[k] = lines[k+1].y
                                  /\ lines[k+1].x \in Nat \ {0} /\ lines[k+1].y \in Nat \ {0}
                                  /\ lines[k+1].x < lines[k+1].y /\ lines[k+1].y < file.num_elts
           /\ \A l \in Range(lines) : \E k \in 0..ncv-1 : l = lines[k+1]
<1>1. lines \in Seq(Line) /\ ncv \in Nat /\ DOMAIN lines = 1..ncv /\ file.num_elts \in Nat
  BY FileFacts
<1>2. \A i \in 1..ncv : lines[i] \in Line /\ lines[i].x < lines[i].y /\ lines[i].y < file.num_elts
  BY FileLines
<1>3. \A k \in 0..ncv-1 : k + 1 \in 1..ncv
  BY <1>1
<1>4. \A k \in 0..ncv-1 : LineX[k] = lines[k+1].x /\ LineY[k] = lines[k+1].y
  BY DEF LineX, LineY
<1>5. Range(lines) = {lines[i] : i \in 1..ncv}
  BY <1>1 DEF Range
<1>6. ASSUME NEW l \in Range(lines) PROVE \E k \in 0..ncv-1 : l = lines[k+1]
  <2>1. PICK i \in 1..ncv : l = lines[i]
    BY <1>5
  <2>2. i - 1 \in 0..ncv-1 /\ (i - 1) + 1 = i
    BY <1>1
  <2> QED  BY <2>1, <2>2
<1> QED  BY <1>1, <1>2, <1>3, <1>4, <1>5, <1>6 DEF Line

LEMMA LinesOrdered ==
    ASSUME file \in Files PROVE OrderedAs(LineX, LineY, XPairs, ncv, file.num_elts)
<1>1. {<<LineX[k], LineY[k]>> : k \in 0..ncv-1} = XPairs
  BY LineFacts DEF XPairs
<1>2. \A k \in 0..ncv-1 : LineX[k] \in Nat \ {0} /\ LineX[k] < file.num_elts /\ LineY[k] \in Nat
  BY LineFacts
<1>3. \A j, k \in 0..ncv-1 : j < k => LineX[j] < LineX[k] \/ (LineX[j] = LineX[k] /\ LineY[j] < LineY[k])
  <2> SUFFICES ASSUME NEW j \in 0..ncv-1, NEW k \in 0..ncv-1, j < k
               PROVE  LineX[j] < LineX[k] \/ (LineX[j] = LineX[k] /\ LineY[j] < LineY[k])
    OBVIOUS
  <2>1. j + 1 \in 1..ncv /\ k + 1 \in 1..ncv /\ j + 1 < k + 1
    BY LineFacts
  <2>2. \/ lines[j+1].x < lines[k+1].x
        \/ lines[j+1].x = lines[k+1].x /\ lines[j+1].y < lines[k+1].y
    BY <2>1, FileFacts
  <2> QED  BY <2>2, LineFacts
<1> QED  BY <1>1, <1>2, <1>3 DEF OrderedAs

LEMMA EltsFit ==
    ASSUME IdsFit, file \in Files PROVE \A l \in Range(lines) : SetElt(l.y) = l.y
<1>1. file.num_elts <= EltIds /\ EltIds \in Nat /\ file.num_elts \in Nat
  BY FileFacts, ValenceStoreAssumption DEF IdsFit
<1>2. ASSUME NEW l \in Range(lines) PROVE SetElt(l.y) = l.y
  <2>1. l.y \in Nat /\ l.y < file.num_elts
    BY LineFacts
  <2> QED  BY <1>1, <2>1, SetEltKeeps
<1> QED  BY <1>2

LEMMA CopyOrdered ==
    ASSUME IdsFit, CopyInv, step = "copy" PROVE OrderedAs(CopyY, CopyX, YPairs, ncv, file.num_elts)
<1>1. file \in Files /\ SortedInFull /\ ncv \in Nat /\ file.num_elts \in Nat
  BY FileFacts DEF CopyInv
<1>2. \A k \in 0..ncv-1 : CopyX[k] = array[k].x /\ CopyY[k] = array[k].y
  BY DEF CopyX, CopyY
<1>3. \A k \in 0..ncv-1 : \E l \in Range(lines) : array[k].x = l.x /\ array[k].y = l.y
  <2> SUFFICES ASSUME NEW k \in 0..ncv-1 PROVE \E l \in Range(lines) : array[k].x = l.x /\ array[k].y = l.y
    OBVIOUS
  <2>1. Key(array[k]) \in AllKeys
    BY <1>1 DEF SortedInFull
  <2>2. PICK l \in Range(lines) : Key(array[k]) = <<l.x, SetElt(l.y)>>
    BY <2>1 DEF AllKeys
  <2> QED  BY <1>1, <2>2, EltsFit DEF Key
<1>4. \A l \in Range(lines) : \E k \in 0..ncv-1 : array[k].x = l.x /\ array[k].y = l.y
  <2> SUFFICES ASSUME NEW l \in Range(lines) PROVE \E k \in 0..ncv-1 : array[k].x = l.x /\ array[k].y = l.y
    OBVIOUS
  <2>1. <<l.x, SetElt(l.y)>> \in {Key(array[k]) : k \in 0..ncv-1}
    BY <1>1 DEF SortedInFull, AllKeys
  <2>2. PICK k \in 0..ncv-1 : Key(array[k]) = <<l.x, SetElt(l.y)>>
    BY <2>1
  <2> QED  BY <1>1, <2>2, EltsFit DEF Key
<1>5. {<<CopyY[k], CopyX[k]>> : k \in 0..ncv-1} = YPairs
  BY <1>2, <1>3, <1>4 DEF YPairs
<1>6. \A l \in Range(lines) : l.x \in Nat /\ l.y \in Nat \ {0} /\ l.y < file.num_elts
  BY <1>1, LineFacts
<1>7. \A k \in 0..ncv-1 : CopyY[k] \in Nat \ {0} /\ CopyY[k] < file.num_elts /\ CopyX[k] \in Nat
  BY <1>2, <1>3, <1>6
<1>8. \A j, k \in 0..ncv-1 : j < k => CopyY[j] < CopyY[k] \/ (CopyY[j] = CopyY[k] /\ CopyX[j] < CopyX[k])
  <2>1. \A j, k \in 0..ncv-1 : j < k => Before(array[j], array[k])
    <3>1. SortedCopy /\ DOMAIN array = 0..ncv-1
      BY <1>1, CopySorts DEF SortedInFull
    <3> QED  BY <3>1 DEF SortedCopy
  <2> QED  BY <1>2, <2>1 DEF Before
<1> QED  BY <1>5, <1>7, <1>8 DEF OrderedAs

LEMMA SameLines ==
    ASSUME file' = file
    PROVE  /\ LineX' = LineX /\ LineY' = LineY /\ XPairs' = XPairs /\ YPairs' = YPairs
           /\ ncv' = ncv /\ Ids' = Ids /\ Stored' = Stored
           /\ file'.num_elts = file.num_elts
           /\ array' = array => CopyX' = CopyX /\ CopyY' = CopyY
  BY DEF LineX, LineY, XPairs, YPairs, CopyX, CopyY, lines, ncv, Ids, Stored

LEMMA NextKeepsStoreInv ==
    ASSUME IdsFit, CopyInv, StoreTypes, StoreInv, [StoreNext]_<<storeVars, sortVars>> PROVE StoreInv'
<1> DEFINE elts == file.num_elts
           cut == Stored
<1>1. file \in Files /\ at \in 0..ncv /\ at \in Nat /\ ncv \in Nat /\ elts \in Nat
  BY FileFacts DEF CopyInv
<1>2. file' = file
  BY FileStays
<1>3. /\ LineX' = LineX /\ LineY' = LineY /\ XPairs' = XPairs /\ YPairs' = YPairs
      /\ ncv' = ncv /\ Ids' = Ids /\ cut' = cut /\ elts' = elts
      /\ array' = array => CopyX' = CopyX /\ CopyY' = CopyY
  BY <1>2, SameLines
<1>4. OrderedAs(LineX, LineY, XPairs, ncv, elts)
  BY <1>1, LinesOrdered
<1>5. prog \in {"-c", "-d", "-b", "failed"} /\ IsDisk(disk)
  BY DEF StoreTypes
<1> HIDE DEF elts, cut
<1>14. CASE SortCopy
  <2>1. /\ UNCHANGED <<disk, at, bb, bind_seg, bb_ds>>
        /\ prog = "-d" /\ step = "fill" /\ prog' = "-d" /\ step' = "sort"
    BY <1>14 DEF SortCopy
  <2> QED  BY <1>3, <2>1 DEF StoreInv, elts, cut
<1>6. CASE Refuse \/ Wrecked \/ Sort \/ UNCHANGED <<storeVars, sortVars>>
  <2>1. /\ UNCHANGED <<disk, step, at, bb, bind_seg, bb_ds, bind_seg_ds>>
        /\ \/ UNCHANGED prog /\ (step = "sort" \/ array' = array)
           \/ prog = "-c" /\ step = "start" /\ prog' = "failed"
           \/ prog = "-d" /\ step \in {"fill", "copy"} /\ prog' = "failed" /\ array' = array
    BY <1>6 DEF Refuse, Wrecked, Sort, storeVars, sortVars
  <2> QED  BY <1>3, <2>1 DEF StoreInv, elts, cut
<1>7. CASE FirstPass
  <2>1. /\ prog \in {"-c", "-d"} /\ step = "start" /\ step' = "fill" /\ prog' = prog /\ at' = 0
        /\ prog = "-c" => bind_seg' = Cleared(Ids)
    BY <1>7 DEF FirstPass
  <2>2. disk'.bb = disk.bb /\ disk'.seg = disk.seg
    <3>1. PICK v : disk' = [disk EXCEPT !.so = v]
      BY <1>7, Zenon DEF FirstPass
    <3> QED  BY <1>5, <3>1, PutSo
  <2>3. prog = "-c" => Indexes(bb', bind_seg', LineX, LineY, 0, Ids)
    <3>1. \A id \in Ids : Cleared(Ids)[id].count = 0
      BY ClearedType
    <3>2. Indexes(bb', Cleared(Ids), LineX, LineY, 0, Ids)
      BY <3>1, NothingIndexed
    <3> QED  BY <2>1, <3>2
  <2> QED  BY <1>3, <2>1, <2>2, <2>3 DEF StoreInv, elts, cut
<1>8. CASE ReadLine
  <2>1. step = "fill" /\ at < ncv /\ at \in 0..ncv-1 /\ at' = at + 1 /\ UNCHANGED <<prog, step, disk>>
    BY <1>1, <1>8 DEF ReadLine
  <2>2. ASSUME prog = "-c" PROVE Indexes(bb', bind_seg', LineX, LineY, at + 1, Ids)
    <3>1. bind_seg' = Indexed(bind_seg, LineX[at], IF at = 0 THEN 0 ELSE LineX[at-1])
      <4>1. bind_seg' = Indexed(bind_seg, lines[at+1].x, IF at = 0 THEN 0 ELSE lines[at].x)
        BY <1>8 DEF ReadLine
      <4>2. lines[at+1].x = LineX[at]
        BY <1>1, <2>1, LineFacts
      <4>3. CASE at = 0
        BY <4>1, <4>2, <4>3
      <4>4. CASE at # 0
        <5>1. at - 1 \in 0..ncv-1 /\ (at - 1) + 1 = at
          BY <1>1, <2>1, <4>4
        <5>2. LineX[at-1] = lines[at].x
          BY <1>1, <5>1, LineFacts
        <5> QED  BY <4>1, <4>2, <4>4, <5>2
      <4> QED  BY <4>3, <4>4
    <3>2. PICK v : bb' = Extended(bb, v) /\ v.elt = LineY[at]
      <4>1. PICK so : bb' = Extended(bb, [elt |-> SetElt(lines[at+1].y), so |-> so])
        BY <1>8, <2>2, Zenon DEF ReadLine
      <4>2. lines[at+1] \in Range(lines) /\ LineY[at] = lines[at+1].y
        BY <1>1, <2>1, LineFacts
      <4>3. SetElt(lines[at+1].y) = LineY[at]
        BY <1>1, <4>2, EltsFit
      <4> QED  BY <4>1, <4>3
    <3>3. LineX[at] \in Ids
      <4>1. LineX[at] \in Nat /\ LineX[at] < elts
        BY <1>4, <2>1 DEF OrderedAs
      <4> QED  BY <1>1, <4>1 DEF Ids, elts
    <3>4. Indexes(bb, bind_seg, LineX, LineY, at, Ids) /\ bind_seg \in Bind(Ids)
      BY <2>1, <2>2 DEF StoreInv, StoreTypes
    <3> QED  BY <1>1, <1>4, <2>1, <3>1, <3>2, <3>3, <3>4, IndexesGrow
  <2> QED  BY <1>3, <2>1, <2>2 DEF StoreInv, elts, cut
<1>9. CASE ExportBeast
  <2>1. /\ prog = "-c" /\ step = "fill" /\ at = ncv /\ prog' = "-d" /\ step' = "start"
        /\ disk' = [disk EXCEPT !.bb = bb, !.seg = Exported(bind_seg)]
    BY <1>9 DEF ExportBeast
  <2>2. disk'.bb = bb /\ disk'.seg = Exported(bind_seg)
    BY <1>5, <2>1, PutBeast
  <2>3. Indexes(bb, Exported(bind_seg), LineX, LineY, ncv, cut)
    <3>1. Indexes(bb, bind_seg, LineX, LineY, ncv, Ids)
      BY <2>1 DEF StoreInv
    <3> QED  BY <1>1, <3>1, ExportKeeps DEF cut
  <2>4. StoreOf(disk'.bb, disk'.seg, XPairs, ncv, elts, cut)
    BY <1>4, <2>2, <2>3 DEF StoreOf
  <2> QED  BY <1>3, <2>1, <2>4 DEF StoreInv, elts, cut
<1>10. CASE Sorted
  <2>1. /\ step' = "copy" /\ at' = 0 /\ prog' = prog /\ disk' = disk /\ prog = "-d"
        /\ bind_seg_ds' = [id \in cut |-> [offset |-> 0, count |-> 0]]
    BY <1>10 DEF Sorted, cut
  <2>2. Indexes(bb_ds', bind_seg_ds', CopyY', CopyX', 0, cut)
    <3>1. \A id \in cut : bind_seg_ds'[id].count = 0
      BY <2>1
    <3> QED  BY <3>1, NothingIndexed
  <2> QED  BY <1>3, <2>1, <2>2 DEF StoreInv, elts, cut
<1>11. CASE CopyValence
  <2>1. /\ step = "copy" /\ at < ncv /\ at \in 0..ncv-1 /\ at' = at + 1
        /\ UNCHANGED <<prog, step, disk, array>>
        /\ bb_ds' = Extended(bb_ds, [elt |-> array[at].x, so |-> array[at].so])
        /\ bind_seg_ds' = Indexed(bind_seg_ds, array[at].y, IF at = 0 THEN 0 ELSE array[at-1].y)
    BY <1>1, <1>11 DEF CopyValence, sortVars
  <2>2. OrderedAs(CopyY, CopyX, YPairs, ncv, elts)
    BY <2>1, CopyOrdered DEF elts
  <2>3. CopyY[at] = array[at].y /\ CopyX[at] = array[at].x
    BY <2>1 DEF CopyX, CopyY
  <2>4. bind_seg_ds' = Indexed(bind_seg_ds, CopyY[at], IF at = 0 THEN 0 ELSE CopyY[at-1])
    <3>1. CASE at = 0
      BY <2>1, <2>3, <3>1
    <3>2. CASE at # 0
      <4>1. at - 1 \in 0..ncv-1
        BY <1>1, <2>1, <3>2
      <4>2. CopyY[at-1] = array[at-1].y
        BY <4>1 DEF CopyY
      <4> QED  BY <2>1, <2>3, <3>2, <4>2
    <3> QED  BY <3>1, <3>2
  <2>5. CopyY[at] \in cut
    <3>1. CopyY[at] \in Nat /\ CopyY[at] < elts
      BY <2>1, <2>2 DEF OrderedAs
    <3> QED  BY <1>1, <3>1 DEF cut, elts, Stored
  <2>6. Indexes(bb_ds, bind_seg_ds, CopyY, CopyX, at, cut) /\ bind_seg_ds \in Bind(cut)
    BY <2>1 DEF StoreInv, StoreTypes, cut
  <2>7. PICK v : bb_ds' = Extended(bb_ds, v) /\ v.elt = CopyX[at]
    BY <2>1, <2>3
  <2>8. Indexes(bb_ds', bind_seg_ds', CopyY, CopyX, at + 1, cut)
    BY <1>1, <2>1, <2>2, <2>4, <2>5, <2>6, <2>7, IndexesGrow
  <2> QED  BY <1>3, <2>1, <2>8 DEF StoreInv, elts, cut
<1>12. CASE ExportDs
  <2>1. /\ step = "copy" /\ at = ncv /\ prog = "-d" /\ prog' = "-b" /\ step' = "start"
        /\ disk' = [disk EXCEPT !.ds = bb_ds, !.seg_ds = bind_seg_ds]
    BY <1>12 DEF ExportDs
  <2>2. disk'.bb = disk.bb /\ disk'.seg = disk.seg /\ disk'.ds = bb_ds /\ disk'.seg_ds = bind_seg_ds
    BY <1>5, <2>1, PutDs
  <2>3. StoreOf(disk'.ds, disk'.seg_ds, YPairs, ncv, elts, cut)
    <3>1. OrderedAs(CopyY, CopyX, YPairs, ncv, elts)
      BY <2>1, CopyOrdered DEF elts
    <3>2. Indexes(bb_ds, bind_seg_ds, CopyY, CopyX, ncv, cut)
      BY <2>1 DEF StoreInv, cut
    <3> QED  BY <2>2, <3>1, <3>2 DEF StoreOf
  <2> QED  BY <1>3, <2>1, <2>2, <2>3 DEF StoreInv, elts, cut
<1>13. CASE Load
  <2>1. /\ prog = "-b" /\ step' = "live" /\ UNCHANGED <<prog, disk>>
        /\ bb' = disk.bb /\ bind_seg' = Imported(disk.seg)
        /\ bb_ds' = disk.ds /\ bind_seg_ds' = Imported(disk.seg_ds)
    BY <1>13 DEF Load
  <2>2. /\ StoreOf(disk.bb, disk.seg, XPairs, ncv, elts, cut)
        /\ StoreOf(disk.ds, disk.seg_ds, YPairs, ncv, elts, cut)
    BY <2>1 DEF StoreInv, elts, cut
  <2>3. /\ StoreOf(disk.bb, Imported(disk.seg), XPairs, ncv, elts, Ids)
        /\ StoreOf(disk.ds, Imported(disk.seg_ds), YPairs, ncv, elts, Ids)
    BY <1>1, <2>2, ImportKeeps DEF elts, cut
  <2> QED  BY <1>3, <2>1, <2>2, <2>3 DEF StoreInv, elts, cut
<1> QED  BY <1>6, <1>7, <1>8, <1>9, <1>10, <1>11, <1>12, <1>13, <1>14 DEF StoreNext

LEMMA StoreIsExact ==
    ASSUME CopyInv, StoreTypes, StoreInv PROVE FoundAsInFile
<1> SUFFICES ASSUME step = "live", NEW id \in Ids
             PROVE  /\ EntriesOf(Found(bb, bind_seg, id), {l.y : l \in {l \in Range(lines) : l.x = id}})
                    /\ EntriesOf(Found(bb_ds, bind_seg_ds, id), {l.x : l \in {l \in Range(lines) : l.y = id}})
  BY DEF FoundAsInFile
<1>1. ncv \in Nat /\ bind_seg \in Bind(Ids) /\ bind_seg_ds \in Bind(Ids)
  <2>1. file \in Files
    BY DEF CopyInv
  <2> QED  BY <2>1, FileFacts DEF StoreTypes
<1>2. /\ StoreOf(bb, bind_seg, XPairs, ncv, file.num_elts, Ids)
      /\ StoreOf(bb_ds, bind_seg_ds, YPairs, ncv, file.num_elts, Ids)
  BY DEF StoreInv
<1>3. /\ EntriesOf(Found(bb, bind_seg, id), {p[2] : p \in {p \in XPairs : p[1] = id}})
      /\ EntriesOf(Found(bb_ds, bind_seg_ds, id), {p[2] : p \in {p \in YPairs : p[1] = id}})
  BY <1>1, <1>2, StoreIsFound
<1>4. {p[2] : p \in {p \in XPairs : p[1] = id}} = {l.y : l \in {l \in Range(lines) : l.x = id}}
  <2>1. \A p \in XPairs : \E l \in Range(lines) : p[1] = l.x /\ p[2] = l.y
    BY DEF XPairs
  <2>2. \A l \in Range(lines) : \E p \in XPairs : p[1] = l.x /\ p[2] = l.y
    <3>1. \A l \in Range(lines) : <<l.x, l.y>> \in XPairs
      BY DEF XPairs
    <3> QED  BY <3>1
  <2> QED  BY <2>1, <2>2
<1>5. {p[2] : p \in {p \in YPairs : p[1] = id}} = {l.x : l \in {l \in Range(lines) : l.y = id}}
  <2>1. \A p \in YPairs : \E l \in Range(lines) : p[1] = l.y /\ p[2] = l.x
    BY DEF YPairs
  <2>2. \A l \in Range(lines) : \E p \in YPairs : p[1] = l.y /\ p[2] = l.x
    <3>1. \A l \in Range(lines) : <<l.y, l.x>> \in YPairs
      BY DEF YPairs
    <3> QED  BY <3>1
  <2> QED  BY <2>1, <2>2
<1> QED  BY <1>3, <1>4, <1>5

LEMMA StoreAlways ==
    ASSUME IdsFit PROVE StoreSpec => []FoundAsInFile
<1>1. StoreInit => StoreInv
  BY DEF StoreInit, StoreInv
<1>2. CopyInv /\ StoreTypes /\ StoreInv /\ [StoreNext]_<<storeVars, sortVars>> => StoreInv'
  BY NextKeepsStoreInv
<1>3. CopyInv /\ StoreTypes /\ StoreInv => FoundAsInFile
  BY StoreIsExact
<1> QED  BY <1>1, <1>2, <1>3, TypesAlways, PTL DEF StoreSpec
-----------------------------------------------------------------------------
(* Sums.  SumFunction takes the elements of the domain out one by one, in an *)
(* order nobody knows; the sum does not depend on it.                        *)

PickOf(s) == CHOOSE x \in s : TRUE

\* What the sum takes from the elements s, if g is what it takes from fewer.
SumTurn(fun, g, s) == IF s = {} THEN 0 ELSE fun[PickOf(s)] + g[s \ {PickOf(s)}]

IsSum(g, fun, S) == g = [s \in SUBSET S |-> SumTurn(fun, g, s)]
SumOver(fun, S) == (CHOOSE g : IsSum(g, fun, S))[S]

LEMMA SumUnfolds == ASSUME NEW fun PROVE SumFunction(fun) = SumOver(fun, DOMAIN fun)
  BY DEF SumFunction, SumFunctionOnSet, FoldFunctionOnSet, MapThenFoldSet, SumOver, IsSum, SumTurn, PickOf

LEMMA PickIsIn == ASSUME NEW s, s # {} PROVE PickOf(s) \in s
  BY DEF PickOf

LEMMA Fewer ==
    ASSUME NEW s, IsFiniteSet(s), NEW x \in s
    PROVE  /\ IsFiniteSet(s \ {x}) /\ Cardinality(s) \in Nat \ {0}
           /\ Cardinality(s \ {x}) = Cardinality(s) - 1
<1>1. IsFiniteSet(s \ {x}) /\ Cardinality(s \ {x}) = Cardinality(s) - 1
  BY FS_RemoveElement
<1>2. Cardinality(s) \in Nat /\ Cardinality(s \ {x}) \in Nat
  BY <1>1, FS_CardinalityType
<1> QED  BY <1>1, <1>2

\* A set of finite sets has one with the fewest elements.
LEMMA FewestExist ==
    ASSUME NEW Bad, Bad # {}, \A T \in Bad : IsFiniteSet(T)
    PROVE  \E T \in Bad : \A U \in Bad : Cardinality(T) <= Cardinality(U)
<1> DEFINE sizes == {Cardinality(T) : T \in Bad}
<1>1. sizes \subseteq Nat /\ sizes # {}
  BY FS_CardinalityType
<1>2. PICK m \in sizes : \A k \in sizes : m <= k
  BY <1>1, MinExists
<1> QED  BY <1>2

\* The sums of all subsets with up to n elements.
SumUpTo(g, fun, S, n) ==
    /\ g = [s \in {s \in SUBSET S : Cardinality(s) <= n} |-> SumTurn(fun, g, s)]
    /\ \A s \in SUBSET S : Cardinality(s) <= n => g[s] \in Int

LEMMA SumUpToExists ==
    ASSUME NEW fun, NEW S, IsFiniteSet(S), \A x \in S : fun[x] \in Int, NEW n \in Nat
    PROVE  \E g : SumUpTo(g, fun, S, n)
<1>0. \A s \in SUBSET S : IsFiniteSet(s) /\ Cardinality(s) \in Nat
  BY FS_Subset, FS_CardinalityType
<1> DEFINE Bad == {k \in Nat : ~\E g : SumUpTo(g, fun, S, k)}
<1>1. ASSUME Bad # {} PROVE FALSE
  <2>1. Bad \subseteq Nat
    OBVIOUS
  <2>2. PICK m \in Bad : \A k \in Bad : m <= k
    BY <1>1, <2>1, MinExists
  <2> DEFINE D == {s \in SUBSET S : Cardinality(s) <= m}
  <2>3. CASE m = 0
    <3>1. D = {{}}
      <4>1. \A s \in SUBSET S : Cardinality(s) <= 0 <=> s = {}
        BY <1>0, FS_EmptySet
      <4> QED  BY <2>3, <4>1
    <3> DEFINE g == [s \in D |-> 0]
    <3>2. g = [s \in D |-> SumTurn(fun, g, s)] /\ \A s \in D : g[s] \in Int
      BY <3>1 DEF SumTurn
    <3>3. SumUpTo(g, fun, S, m)
      BY <3>2 DEF SumUpTo
    <3> QED  BY <3>3
  <2>4. CASE m # 0
    <3>1. m - 1 \in Nat /\ m - 1 \notin Bad
      BY <2>2, <2>4
    <3>2. PICK g : SumUpTo(g, fun, S, m - 1)
      BY <3>1
    <3> DEFINE h == [s \in D |-> SumTurn(fun, g, s)]
    <3>3. ASSUME NEW s \in SUBSET S, Cardinality(s) <= m - 1
          PROVE  h[s] = g[s] /\ h[s] \in Int
      <4>1. g[s] = SumTurn(fun, g, s) /\ g[s] \in Int
        BY <3>2, <3>3 DEF SumUpTo
      <4>2. s \in D
        BY <1>0, <3>3
      <4> QED  BY <4>1, <4>2
    <3>4. ASSUME NEW s \in D, s # {}
          PROVE  /\ PickOf(s) \in S /\ s \ {PickOf(s)} \in SUBSET S
                 /\ Cardinality(s \ {PickOf(s)}) <= m - 1
      <4>1. PickOf(s) \in s /\ IsFiniteSet(s) /\ Cardinality(s) \in Nat
        BY <1>0, <3>4, PickIsIn
      <4>2. Cardinality(s \ {PickOf(s)}) = Cardinality(s) - 1
        BY <4>1, Fewer
      <4> QED  BY <4>1, <4>2
    <3> HIDE DEF h
    <3>5. \A s \in D : SumTurn(fun, g, s) = SumTurn(fun, h, s)
      BY <3>3, <3>4 DEF SumTurn
    <3>6. h = [s \in D |-> SumTurn(fun, h, s)]
      BY <3>5 DEF h
    <3>7. \A s \in D : h[s] \in Int
      <4> SUFFICES ASSUME NEW s \in D PROVE SumTurn(fun, h, s) \in Int
        BY <3>6
      <4> QED  BY <3>3, <3>4 DEF SumTurn
    <3>8. SumUpTo(h, fun, S, m)
      BY <3>6, <3>7 DEF SumUpTo
    <3> QED  BY <3>8
  <2> QED  BY <2>3, <2>4
<1> QED  BY <1>1

LEMMA SumExists ==
    ASSUME NEW fun, NEW S, IsFiniteSet(S), \A x \in S : fun[x] \in Int
    PROVE  \E g : IsSum(g, fun, S) /\ \A s \in SUBSET S : g[s] \in Int
<1>1. Cardinality(S) \in Nat /\ \A s \in SUBSET S : Cardinality(s) <= Cardinality(S)
  BY FS_Subset, FS_CardinalityType
<1>2. PICK g : SumUpTo(g, fun, S, Cardinality(S))
  BY <1>1, SumUpToExists
<1>3. {s \in SUBSET S : Cardinality(s) <= Cardinality(S)} = SUBSET S
  BY <1>1
<1> QED  BY <1>1, <1>2, <1>3 DEF SumUpTo, IsSum

\* Two ways of summing agree where both sum and the terms are the same.
LEMMA SumIsUnique ==
    ASSUME NEW f, NEW g, NEW fun, NEW gun, NEW S, NEW T, NEW U, IsFiniteSet(S), IsFiniteSet(T),
           IsSum(f, fun, S), IsSum(g, gun, T), U \subseteq S, U \subseteq T,
           \A x \in U : fun[x] = gun[x]
    PROVE  f[U] = g[U]
<1> DEFINE Bad == {s \in SUBSET U : f[s] # g[s]}
<1>1. ASSUME Bad # {} PROVE FALSE
  <2>1. \A s \in Bad : IsFiniteSet(s)
    BY FS_Subset
  <2>2. PICK s \in Bad : \A t \in Bad : Cardinality(s) <= Cardinality(t)
    BY <1>1, <2>1, FewestExist
  <2>3. f[s] = SumTurn(fun, f, s) /\ g[s] = SumTurn(gun, g, s)
    BY DEF IsSum
  <2>4. CASE s = {}
    BY <2>3, <2>4 DEF SumTurn
  <2>5. CASE s # {}
    <3>1. PickOf(s) \in s /\ PickOf(s) \in U /\ s \ {PickOf(s)} \in SUBSET U
      BY <2>5, PickIsIn
    <3>2. /\ Cardinality(s) \in Nat \ {0} /\ Cardinality(s \ {PickOf(s)}) = Cardinality(s) - 1
      BY <2>1, <3>1, Fewer
    <3>3. s \ {PickOf(s)} \notin Bad
      BY <2>2, <3>2
    <3>4. f[s \ {PickOf(s)}] = g[s \ {PickOf(s)}]
      BY <3>1, <3>3
    <3>5. SumTurn(fun, f, s) = SumTurn(gun, g, s)
      BY <2>5, <3>1, <3>4 DEF SumTurn
    <3> QED  BY <2>3, <3>5
  <2> QED  BY <2>4, <2>5
<1> QED  BY <1>1

LEMMA SumFacts ==
    ASSUME NEW fun, NEW S, IsFiniteSet(S), \A x \in S : fun[x] \in Int
    PROVE  \E g : /\ IsSum(g, fun, S) /\ \A s \in SUBSET S : g[s] \in Int
                  /\ SumOver(fun, S) = g[S]
<1>1. \E g : IsSum(g, fun, S)
  BY SumExists
<1> DEFINE g == CHOOSE g : IsSum(g, fun, S)
<1>2. IsSum(g, fun, S)
  BY <1>1
<1>3. PICK h : IsSum(h, fun, S) /\ \A s \in SUBSET S : h[s] \in Int
  BY SumExists
<1> HIDE DEF g
<1>4. \A s \in SUBSET S : g[s] = h[s]
  BY <1>2, <1>3, SumIsUnique
<1>5. SumOver(fun, S) = g[S]
  BY DEF SumOver, g
<1> QED  BY <1>2, <1>3, <1>4, <1>5

LEMMA SumSame ==
    ASSUME NEW fun, NEW gun, NEW S, IsFiniteSet(S), \A x \in S : fun[x] \in Int /\ gun[x] = fun[x]
    PROVE  SumOver(fun, S) = SumOver(gun, S)
<1>1. PICK f : IsSum(f, fun, S) /\ SumOver(fun, S) = f[S]
  BY SumFacts
<1>2. PICK g : IsSum(g, gun, S) /\ SumOver(gun, S) = g[S]
  BY SumFacts
<1>3. f[S] = g[S]
  BY <1>1, <1>2, SumIsUnique
<1> QED  BY <1>1, <1>2, <1>3

LEMMA SumPick ==
    ASSUME NEW fun, NEW S, IsFiniteSet(S), \A x \in S : fun[x] \in Int
    PROVE  /\ SumOver(fun, S) \in Int
           /\ S = {} => SumOver(fun, S) = 0
           /\ S # {} => SumOver(fun, S) = fun[PickOf(S)] + SumOver(fun, S \ {PickOf(S)})
<1>1. PICK f : IsSum(f, fun, S) /\ (\A s \in SUBSET S : f[s] \in Int) /\ SumOver(fun, S) = f[S]
  BY SumFacts
<1>2. f[S] = SumTurn(fun, f, S)
  BY <1>1 DEF IsSum
<1>3. ASSUME S # {} PROVE SumOver(fun, S) = fun[PickOf(S)] + SumOver(fun, S \ {PickOf(S)})
  <2> DEFINE T == S \ {PickOf(S)}
  <2>1. IsFiniteSet(T) /\ T \subseteq S
    BY FS_Subset
  <2>2. PICK g : IsSum(g, fun, T) /\ SumOver(fun, T) = g[T]
    BY <2>1, SumFacts
  <2>3. f[T] = g[T]
    BY <1>1, <2>1, <2>2, SumIsUnique
  <2> QED  BY <1>1, <1>2, <1>3, <2>2, <2>3 DEF SumTurn
<1>4. S = {} => SumOver(fun, S) = 0
  BY <1>1, <1>2 DEF SumTurn
<1> QED  BY <1>1, <1>3, <1>4

\* Any element can be taken out first.
LEMMA SumTakesOut ==
    ASSUME NEW fun, NEW S, IsFiniteSet(S), \A x \in S : fun[x] \in Int, NEW x \in S
    PROVE  SumOver(fun, S) = fun[x] + SumOver(fun, S \ {x})
<1> DEFINE Fine(T) == \A z \in T : SumOver(fun, T) = fun[z] + SumOver(fun, T \ {z})
           Bad == {T \in SUBSET S : ~Fine(T)}
<1>1. \A T \in SUBSET S : IsFiniteSet(T)
  BY FS_Subset
<1>2. ASSUME Bad # {} PROVE FALSE
  <2>1. \A T \in Bad : IsFiniteSet(T)
    BY <1>1
  <2> HIDE DEF Fine
  <2>2. PICK T \in Bad : \A U \in Bad : Cardinality(T) <= Cardinality(U)
    BY <1>2, <2>1, FewestExist
  <2>3. PICK z \in T : SumOver(fun, T) # fun[z] + SumOver(fun, T \ {z})
    BY DEF Fine
  <2> DEFINE y == PickOf(T)
             U == T \ {y}
             V == T \ {z}
  <2>4. y \in T /\ T \in SUBSET S /\ IsFiniteSet(T)
    BY <1>1, PickIsIn
  <2>5. SumOver(fun, T) = fun[y] + SumOver(fun, U)
    BY <2>4, SumPick
  <2>6. y # z
    BY <2>3, <2>5
  <2>7. Fine(U) /\ Fine(V)
    <3>1. /\ Cardinality(T) \in Nat /\ Cardinality(U) = Cardinality(T) - 1
          /\ Cardinality(V) = Cardinality(T) - 1
      BY <2>4, Fewer
    <3> HIDE DEF U, V
    <3>2. U \notin Bad /\ V \notin Bad
      BY <2>2, <3>1
    <3> QED  BY <2>4, <3>2 DEF U, V
  <2>8. SumOver(fun, U) = fun[z] + SumOver(fun, U \ {z})
    BY <2>6, <2>7 DEF Fine
  <2>9. SumOver(fun, V) = fun[y] + SumOver(fun, V \ {y})
    BY <2>4, <2>6, <2>7 DEF Fine
  <2>10. U \ {z} = V \ {y}
    OBVIOUS
  <2>11. IsFiniteSet(U \ {z}) /\ U \ {z} \subseteq S
    BY <1>1, <2>4
  <2>12. SumOver(fun, U \ {z}) \in Int /\ fun[y] \in Int /\ fun[z] \in Int
    BY <2>4, <2>11, SumPick
  <2> HIDE DEF U, V, y
  <2>13. fun[y] + SumOver(fun, U) = fun[z] + SumOver(fun, V)
    <3>1. PICK c \in Int : c = SumOver(fun, U \ {z})
      BY <2>12
    <3>2. SumOver(fun, U) = fun[z] + c /\ SumOver(fun, V) = fun[y] + c
      BY <2>8, <2>9, <2>10, <3>1
    <3> QED  BY <2>12, <3>2
  <2> QED  BY <2>3, <2>5, <2>13 DEF V
<1>3. Fine(S)
  BY <1>2
<1> QED  BY <1>3
-----------------------------------------------------------------------------
(* The buckets of the slopes and of the offsets.                             *)

LEMMA RoundDivInt ==
    ASSUME NEW a \in Int, NEW b \in Int, b # 0 PROVE RoundDiv(a, b) \in Int
<1> DEFINE abs(i) == IF i < 0 THEN -i ELSE i
           half(p, q) == (2 * p + q) \div (2 * q)
<1>1. abs(a) \in Int /\ abs(b) \in Int /\ 2 * abs(b) > 0
  OBVIOUS
<1>2. half(abs(a), abs(b)) \in Int
  <2> HIDE DEF abs
  <2>1. ASSUME NEW p \in Int, NEW q \in Int, q > 0 PROVE p \div q \in Int
    BY <2>1
  <2>2. 2 * abs(a) + abs(b) \in Int /\ 2 * abs(b) \in Int
    BY <1>1
  <2> QED  BY <1>1, <2>1, <2>2
<1>3. RoundDiv(a, b) = IF (a >= 0) = (b > 0) THEN half(abs(a), abs(b)) ELSE -half(abs(a), abs(b))
  BY DEF RoundDiv
<1> HIDE DEF half, abs
<1> QED  BY <1>2, <1>3

\* A list of n values.
AreValues(values, n) == values = [k \in 1..n |-> values[k]] /\ \A k \in 1..n : values[k] \in Int

LEMMA CountFacts ==
    ASSUME NEW n \in Nat, NEW values, AreValues(values, n)
    PROVE  /\ DOMAIN Counts(values) = Range(values)
           /\ IsFiniteSet(Range(values)) /\ Range(values) \subseteq Int
           /\ \A v \in Range(values) : /\ Counts(values)[v] = Cardinality({i \in 1..n : values[i] = v})
                                       /\ Counts(values)[v] \in Nat \ {0}
<1>1. DOMAIN values = 1..n /\ Range(values) = {values[k] : k \in 1..n}
  BY DEF AreValues, Range
<1>2. IsFiniteSet(1..n)
  BY FS_Interval
<1>3. IsFiniteSet(Range(values))
  <2>1. values \in Surjection(1..n, Range(values))
    <3>1. values \in [1..n -> Range(values)]
      BY <1>1 DEF AreValues
    <3>2. \A v \in Range(values) : \E k \in 1..n : values[k] = v
      BY <1>1
    <3> QED  BY <3>1, <3>2 DEF Surjection
  <2> QED  BY <1>2, <2>1, FS_Surjection
<1>4. ASSUME NEW v \in Range(values)
      PROVE  /\ Counts(values)[v] = Cardinality({i \in 1..n : values[i] = v})
             /\ Counts(values)[v] \in Nat \ {0}
  <2> DEFINE places == {i \in 1..n : values[i] = v}
  <2>1. Counts(values)[v] = Cardinality(places)
    BY <1>1, <1>4 DEF Counts
  <2>2. IsFiniteSet(places)
    BY <1>2, FS_Subset
  <2>3. places # {}
    BY <1>1
  <2>4. Cardinality(places) \in Nat /\ Cardinality(places) # 0
    BY <2>2, <2>3, FS_EmptySet, FS_CardinalityType
  <2> QED  BY <2>1, <2>4
<1>5. DOMAIN Counts(values) = Range(values)
  BY DEF Counts
<1>6. Range(values) \subseteq Int
  BY <1>1 DEF AreValues
<1> QED  BY <1>3, <1>4, <1>5, <1>6

\* How many of the numbers V are above v.
Above(V, v) == Cardinality({w \in V : w > v})

LEMMA AboveFacts ==
    ASSUME NEW V, IsFiniteSet(V), V \subseteq Int
    PROVE  /\ \A v \in V : Above(V, v) \in 0..Cardinality(V)-1
           /\ \A v, w \in V : v < w => Above(V, w) < Above(V, v)
           /\ \A i \in 0..Cardinality(V)-1 : \E v \in V : Above(V, v) = i
<1>0. Cardinality(V) \in Nat
  BY FS_CardinalityType
<1> DEFINE up(v) == {w \in V : w > v}
<1>1. ASSUME NEW v \in V PROVE IsFiniteSet(up(v)) /\ Cardinality(up(v)) \in Nat /\ v \notin up(v)
  <2>1. up(v) \subseteq V
    OBVIOUS
  <2>2. v \notin up(v)
    <3>1. v \in Int
      OBVIOUS
    <3> QED  BY <3>1
  <2> QED  BY <2>1, <2>2, FS_Subset, FS_CardinalityType
<1>2. ASSUME NEW v \in V, NEW w \in V, v < w PROVE Cardinality(up(w)) < Cardinality(up(v))
  <2>1. up(w) \cup {w} \subseteq up(v)
    <3>1. v \in Int /\ w \in Int
      OBVIOUS
    <3>2. \A x \in V : x > w => x > v
      BY <1>2, <3>1
    <3> QED  BY <1>2, <3>2
  <2>2. IsFiniteSet(up(w) \cup {w}) /\ Cardinality(up(w) \cup {w}) = Cardinality(up(w)) + 1
    BY <1>1, FS_AddElement
  <2>3. Cardinality(up(w) \cup {w}) <= Cardinality(up(v))
    BY <1>1, <2>1, FS_Subset
  <2> HIDE DEF up
  <2> QED  BY <1>1, <2>2, <2>3
<1>3. ASSUME NEW v \in V PROVE Cardinality(up(v)) \in 0..Cardinality(V)-1
  <2>1. up(v) \subseteq V /\ up(v) # V
    BY <1>1
  <2>2. Cardinality(up(v)) <= Cardinality(V) /\ Cardinality(up(v)) # Cardinality(V)
    BY <2>1, FS_Subset
  <2> HIDE DEF up
  <2> QED  BY <1>0, <1>1, <2>2
<1> DEFINE rank == [v \in V |-> Cardinality(up(v))]
           R == 0..Cardinality(V)-1
<1>4. rank \in Injection(V, R)
  <2>1. rank \in [V -> R]
    BY <1>3
  <2>2. ASSUME NEW v \in V, NEW w \in V, rank[v] = rank[w] PROVE v = w
    <3>1. v \in Int /\ w \in Int
      OBVIOUS
    <3>2. Cardinality(up(v)) = Cardinality(up(w)) /\ Cardinality(up(v)) \in Nat
      BY <1>1, <2>2
    <3>3. (v < w => Cardinality(up(w)) < Cardinality(up(v))) /\ (w < v => Cardinality(up(v)) < Cardinality(up(w)))
      BY <1>2
    <3> HIDE DEF up
    <3>4. ~(v < w) /\ ~(w < v)
      BY <3>2, <3>3
    <3> QED  BY <3>1, <3>4
  <2> HIDE DEF rank
  <2> QED  BY <2>1, <2>2 DEF Injection, IsInjective
<1>5. IsFiniteSet(R) /\ Cardinality(R) = Cardinality(V)
  BY <1>0, FS_Interval
<1>6. rank \in Surjection(V, R)
  <2> HIDE DEF rank, R
  <2> QED  BY <1>4, <1>5, FS_Injection
<1>7. \A i \in R : \E v \in V : Cardinality(up(v)) = i
  BY <1>6 DEF Surjection
<1> QED  BY <1>2, <1>3, <1>7 DEF Above

Entry == [guy : Int, count : Nat]
Rest(count, special) == DOMAIN count \ {special}

\* The values without the special one, each once and in descending order, and
\* then perhaps an entry of 0.
LEMMA LadderFacts ==
    ASSUME NEW count, IsFiniteSet(DOMAIN count), DOMAIN count \subseteq Int,
           \A v \in DOMAIN count : count[v] \in Nat, NEW special
    PROVE  LET ladder == Ladder(count, special)
               R == Cardinality(Rest(count, special))
           IN /\ R \in Nat /\ ladder \in Seq(Entry)
              /\ Len(ladder) = IF special \in DOMAIN count THEN R + 1 ELSE R
              /\ \A i \in 1..R : ladder[i].guy \in Rest(count, special) /\ ladder[i].count = count[ladder[i].guy]
              /\ \A i, j \in 1..R : i < j => ladder[i].guy > ladder[j].guy
              /\ \A v \in Rest(count, special) : \E i \in 1..R : ladder[i].guy = v
              /\ special \in DOMAIN count => ladder[R+1] = [guy |-> 0, count |-> 0]
<1> DEFINE V == Rest(count, special)
           R == Cardinality(V)
           rest == [i \in 1..R |-> CHOOSE v \in V : Above(V, v) = i - 1]
           front == [i \in 1..R |-> [guy |-> rest[i], count |-> count[rest[i]]]]
           back == IF special \in DOMAIN count THEN <<[guy |-> 0, count |-> 0]>> ELSE <<>>
           ladder == Ladder(count, special)
<1>1. IsFiniteSet(V) /\ V \subseteq Int /\ V \subseteq DOMAIN count /\ R \in Nat
  BY FS_Subset, FS_CardinalityType DEF Rest
<1>2. ladder = front \o back
  <2>1. DOMAIN rest = 1..R
    OBVIOUS
  <2> QED  BY <2>1 DEF Ladder, Rest, Above
<1>3. ASSUME NEW i \in 1..R PROVE rest[i] \in V /\ Above(V, rest[i]) = i - 1
  <2>1. i - 1 \in 0..R-1
    BY <1>1
  <2>2. \E v \in V : Above(V, v) = i - 1
    BY <1>1, <2>1, AboveFacts
  <2>3. rest[i] = CHOOSE v \in V : Above(V, v) = i - 1
    OBVIOUS
  <2> QED  BY <2>2, <2>3
<1>4. ASSUME NEW i \in 1..R, NEW j \in 1..R, i < j PROVE rest[i] > rest[j]
  <2>1. rest[i] \in Int /\ rest[j] \in Int /\ rest[i] \in V /\ rest[j] \in V
    BY <1>1, <1>3
  <2>2. Above(V, rest[i]) = i - 1 /\ Above(V, rest[j]) = j - 1
    BY <1>3
  <2>3. rest[i] < rest[j] => Above(V, rest[j]) < Above(V, rest[i])
    BY <1>1, <2>1, AboveFacts
  <2> HIDE DEF rest
  <2>4. i \in Int /\ j \in Int
    BY <1>1
  <2>5. CASE rest[i] = rest[j]
    BY <1>4, <2>2, <2>4, <2>5
  <2>6. CASE rest[i] < rest[j]
    BY <1>4, <2>2, <2>3, <2>4, <2>6
  <2> QED  BY <2>1, <2>5, <2>6
<1>5. ASSUME NEW v \in V PROVE \E i \in 1..R : rest[i] = v
  <2>1. Above(V, v) \in 0..R-1
    BY <1>1, AboveFacts
  <2>2. PICK i \in 1..R : Above(V, v) = i - 1
    <3> HIDE DEF R
    <3>1. Above(V, v) + 1 \in 1..R /\ Above(V, v) = (Above(V, v) + 1) - 1
      BY <1>1, <2>1
    <3> QED  BY <3>1
  <2>3. rest[i] \in V /\ Above(V, rest[i]) = Above(V, v)
    BY <1>3, <2>2
  <2>4. rest[i] \in Int /\ v \in Int /\ Above(V, v) \in Int
    BY <1>1, <2>1, <2>3
  <2>5. rest[i] < v => Above(V, v) < Above(V, rest[i])
    BY <1>1, <2>3, AboveFacts
  <2>6. v < rest[i] => Above(V, rest[i]) < Above(V, v)
    BY <1>1, <2>3, AboveFacts
  <2> HIDE DEF rest
  <2>7. rest[i] = v
    BY <2>3, <2>4, <2>5, <2>6
  <2> QED  BY <2>7
<1>6. front \in Seq(Entry) /\ Len(front) = R /\ back \in Seq(Entry)
  <2>1. \A i \in 1..R : [guy |-> rest[i], count |-> count[rest[i]]] \in Entry
    BY <1>1, <1>3 DEF Entry
  <2>2. [guy |-> 0, count |-> 0] \in Entry
    BY DEF Entry
  <2> HIDE DEF R, rest
  <2> QED  BY <1>1, <2>1, <2>2
<1>7. Len(back) = IF special \in DOMAIN count THEN 1 ELSE 0
  OBVIOUS
<1>8. \A i \in 1..R : front[i].guy = rest[i] /\ front[i].count = count[rest[i]]
  OBVIOUS
<1>9. special \in DOMAIN count => back[1] = [guy |-> 0, count |-> 0]
  OBVIOUS
<1> HIDE DEF front, back, R, rest
<1>10. /\ ladder \in Seq(Entry) /\ Len(ladder) = R + Len(back)
       /\ \A i \in 1..R : ladder[i] = front[i]
       /\ special \in DOMAIN count => ladder[R+1] = back[1]
  <2> HIDE DEF ladder
  <2>1. /\ ladder \in Seq(Entry) /\ Len(ladder) = Len(front) + Len(back)
        /\ \A i \in 1..Len(front) + Len(back) :
              ladder[i] = IF i <= Len(front) THEN front[i] ELSE back[i - Len(front)]
    BY <1>2, <1>6, ConcatProperties
  <2>2. Len(back) \in Nat /\ Len(front) = R
    BY <1>6
  <2>3. \A i \in 1..R : i \in 1..R + Len(back) /\ i <= R
    BY <1>1, <2>2
  <2>4. \A i \in 1..R : ladder[i] = front[i]
    BY <2>1, <2>2, <2>3
  <2>5. ASSUME special \in DOMAIN count PROVE ladder[R+1] = back[1]
    <3>1. R + 1 \in 1..R + Len(back) /\ ~(R + 1 <= R) /\ (R + 1) - R = 1
      BY <1>1, <1>7, <2>5
    <3> QED  BY <2>1, <2>2, <3>1
  <2> QED  BY <2>1, <2>2, <2>4, <2>5
<1> HIDE DEF V, ladder
<1>11. /\ R \in Nat /\ ladder \in Seq(Entry)
       /\ Len(ladder) = IF special \in DOMAIN count THEN R + 1 ELSE R
       /\ \A i \in 1..R : ladder[i].guy \in V /\ ladder[i].count = count[ladder[i].guy]
       /\ \A i, j \in 1..R : i < j => ladder[i].guy > ladder[j].guy
       /\ \A v \in V : \E i \in 1..R : ladder[i].guy = v
       /\ special \in DOMAIN count => ladder[R+1] = [guy |-> 0, count |-> 0]
  <2>1. Len(ladder) = IF special \in DOMAIN count THEN R + 1 ELSE R
    BY <1>1, <1>7, <1>10
  <2>2. \A i \in 1..R : ladder[i].guy = rest[i] /\ ladder[i].count = count[rest[i]]
    BY <1>8, <1>10
  <2>3. \A i \in 1..R : ladder[i].guy \in V /\ ladder[i].count = count[ladder[i].guy]
    BY <1>3, <2>2
  <2>4. \A i, j \in 1..R : i < j => ladder[i].guy > ladder[j].guy
    BY <1>4, <2>2
  <2>5. \A v \in V : \E i \in 1..R : ladder[i].guy = v
    BY <1>5, <2>2
  <2> QED  BY <1>1, <1>9, <1>10, <2>1, <2>3, <2>4, <2>5
<1> QED  BY <1>11 DEF ladder, R, V

\* The loop over the ladder, turn by turn.
FirstTurn(b) == [cume |-> 0, next |-> b.inc, from |-> 1, buckets |-> <<>>]

Share(ladder, i)          == 20 * NumBuckets * ladder[i].count
Crossed(ladder, s, i)     == s.cume + Share(ladder, i) > s.next \/ i = Len(ladder)
LastTurn(b, s)            == LastBucket(s.buckets) \/ s.next >= b.tot - b.inc
Turn(ladder, b, n, leftover, s, i) ==
    IF Crossed(ladder, s, i)
    THEN [cume    |-> s.cume + Share(ladder, i),
          next    |-> IF LastTurn(b, s) THEN Unreachable(n) ELSE s.next + b.inc,
          from    |-> i,
          buckets |-> Append(s.buckets, Bucket(ladder, s.from, i, Later(leftover, Len(s.buckets))))]
    ELSE [s EXCEPT !.cume = @ + Share(ladder, i)]

AreTurns(t, ladder, b, n, leftover, m) ==
    t = [i \in 0..m |-> IF i = 0 THEN FirstTurn(b) ELSE Turn(ladder, b, n, leftover, t[i-1], i)]

LEMMA BucketsUnfold ==
    ASSUME NEW ladder, NEW b, NEW n, NEW leftover
    PROVE  Buckets(ladder, b, n, leftover)
              = (CHOOSE t : AreTurns(t, ladder, b, n, leftover, Len(ladder)))[Len(ladder)].buckets
  BY DEF Buckets, AreTurns, Turn, FirstTurn, Share, Crossed, LastTurn

LEMMA TurnsExist ==
    ASSUME NEW ladder, NEW b, NEW n, NEW leftover, NEW l \in Nat
    PROVE  \E t : AreTurns(t, ladder, b, n, leftover, l)
<1> DEFINE Bad == {m \in Nat : ~\E t : AreTurns(t, ladder, b, n, leftover, m)}
<1>1. ASSUME Bad # {} PROVE FALSE
  <2>1. Bad \subseteq Nat
    OBVIOUS
  <2>2. PICK m \in Bad : \A k \in Bad : m <= k
    BY <1>1, <2>1, MinExists
  <2>3. CASE m = 0
    <3> DEFINE t == [i \in 0..0 |-> FirstTurn(b)]
    <3>1. AreTurns(t, ladder, b, n, leftover, 0)
      <4>1. \A i \in 0..0 : i = 0
        OBVIOUS
      <4> QED  BY <4>1 DEF AreTurns
    <3> QED  BY <2>3, <3>1
  <2>4. CASE m # 0
    <3>1. m - 1 \in Nat /\ m - 1 \notin Bad
      BY <2>2, <2>4
    <3>2. PICK t : AreTurns(t, ladder, b, n, leftover, m - 1)
      BY <3>1
    <3> DEFINE u == [i \in 0..m |-> IF i = 0 THEN FirstTurn(b) ELSE Turn(ladder, b, n, leftover, t[i-1], i)]
    <3>3. \A i \in 0..m-1 : i \in 0..m /\ u[i] = t[i]
      BY <3>1, <3>2 DEF AreTurns
    <3>4. \A i \in 0..m : i # 0 => i - 1 \in 0..m-1
      BY <3>1
    <3>5. \A i \in 0..m : u[i] = IF i = 0 THEN FirstTurn(b) ELSE Turn(ladder, b, n, leftover, t[i-1], i)
      OBVIOUS
    <3> HIDE DEF u
    <3>6. \A i \in 0..m : i # 0 => Turn(ladder, b, n, leftover, t[i-1], i) = Turn(ladder, b, n, leftover, u[i-1], i)
      BY <3>3, <3>4
    <3>7. u = [i \in 0..m |-> IF i = 0 THEN FirstTurn(b) ELSE Turn(ladder, b, n, leftover, u[i-1], i)]
      BY <3>6 DEF u
    <3> QED  BY <3>7 DEF AreTurns
  <2> QED  BY <2>3, <2>4
<1> QED  BY <1>1

\* The buckets bs cover the ladder up to e[Len(bs)] without gaps.
CutAt(bs, e, ladder, leftover) ==
    /\ e \in [0..Len(bs) -> 1..Len(ladder)] /\ e[0] = 1
    /\ \A k \in 1..Len(bs) : /\ e[k-1] <= e[k] /\ (k > 1 => e[k-1] < e[k])
                             /\ bs[k] = Bucket(ladder, e[k-1], e[k], Later(leftover, k - 1))

BucketsOf(ladder, leftover) ==
    {Bucket(ladder, f, i, Later(leftover, d)) : f \in 1..Len(ladder), i \in 1..Len(ladder), d \in Nat}

\* After the entry i; w says how many values the entries up to it stand for.
TurnOK(s, i, ladder, n, w, leftover) ==
    /\ s = [cume |-> s.cume, next |-> s.next, from |-> s.from, buckets |-> s.buckets]
    /\ s.cume = 20 * NumBuckets * w[i]
    /\ s.buckets \in Seq(BucketsOf(ladder, leftover))
    /\ Len(s.buckets) <= NumBuckets - 1
    /\ i < Len(ladder) => /\ Len(s.buckets) <= NumBuckets - 2
                          /\ Len(s.buckets) = NumBuckets - 2 => s.next = Unreachable(n)
    /\ \E e : /\ CutAt(s.buckets, e, ladder, leftover) /\ s.from = e[Len(s.buckets)]
              /\ s.from <= i \/ (i = 0 /\ Len(s.buckets) = 0)
              /\ i = Len(ladder) => s.from = i

\* w adds up the counts of the ladder, to at most n.
AddsUp(w, ladder, n) ==
    /\ w \in [0..Len(ladder) -> 0..n] /\ w[0] = 0
    /\ \A i \in 1..Len(ladder) : w[i] = w[i-1] + ladder[i].count

LEMMA CutGrows ==
    ASSUME NEW ladder \in Seq(Entry), NEW leftover, NEW X, NEW bs \in Seq(X), NEW i \in 1..Len(ladder),
           NEW e, CutAt(bs, e, ladder, leftover),
           e[Len(bs)] <= i, Len(bs) > 0 => e[Len(bs)] < i
    PROVE  CutAt(Append(bs, Bucket(ladder, e[Len(bs)], i, Later(leftover, Len(bs)))),
                 [k \in 0..Len(bs)+1 |-> IF k = Len(bs) + 1 THEN i ELSE e[k]], ladder, leftover)
<1> DEFINE m == Len(bs)
           L == Len(ladder)
           B == Bucket(ladder, e[m], i, Later(leftover, m))
           new == Append(bs, B)
           f == [k \in 0..m+1 |-> IF k = m + 1 THEN i ELSE e[k]]
<1>1. m \in Nat /\ e \in [0..m -> 1..L]
  BY DEF CutAt
<1> HIDE DEF B
<1>2. Len(new) = m + 1 /\ new[m+1] = B /\ \A k \in 1..m : new[k] = bs[k]
  <2>1. bs \in Seq(X \cup {B}) /\ B \in X \cup {B}
    OBVIOUS
  <2> QED  BY <2>1
<1> HIDE DEF new
<1>3. f[m+1] = i /\ (\A k \in 0..m : f[k] = e[k]) /\ f \in [0..m+1 -> 1..L]
  BY <1>1
<1> HIDE DEF f, m, L
<1>4. f[0] = 1
  <2>1. 0 \in 0..m /\ e[0] = 1
    BY <1>1 DEF CutAt
  <2> QED  BY <1>3, <2>1
<1>5. ASSUME NEW k \in 1..m+1
      PROVE  /\ f[k-1] <= f[k] /\ (k > 1 => f[k-1] < f[k])
             /\ new[k] = Bucket(ladder, f[k-1], f[k], Later(leftover, k - 1))
  <2>1. CASE k = m + 1
    <3>1. k - 1 = m /\ m \in 0..m /\ (k > 1 => m > 0)
      BY <1>1, <2>1
    <3>2. f[k-1] = e[m] /\ f[k] = i
      BY <1>3, <2>1, <3>1
    <3> QED  BY <1>2, <2>1, <3>1, <3>2 DEF B, m
  <2>2. CASE k # m + 1
    <3>1. k \in 1..m /\ k - 1 \in 0..m /\ k \in 0..m
      BY <1>1, <2>2
    <3>2. f[k-1] = e[k-1] /\ f[k] = e[k] /\ new[k] = bs[k]
      BY <1>2, <1>3, <3>1
    <3> QED  BY <3>1, <3>2 DEF CutAt, m
  <2> QED  BY <2>1, <2>2
<1>6. CutAt(new, f, ladder, leftover)
  BY <1>2, <1>3, <1>4, <1>5 DEF CutAt, L
<1> QED  BY <1>6 DEF new, f, B, m

LEMMA TurnKeeps ==
    ASSUME NumBuckets \in Nat \ {0, 1, 2}, NEW ladder \in Seq(Entry), NEW n \in Nat, NEW w, AddsUp(w, ladder, n),
           NEW b, NEW leftover, NEW i \in 1..Len(ladder), NEW s, TurnOK(s, i - 1, ladder, n, w, leftover)
    PROVE  TurnOK(Turn(ladder, b, n, leftover, s, i), i, ladder, n, w, leftover)
<1> DEFINE m == Len(s.buckets)
           L == Len(ladder)
           new == Turn(ladder, b, n, leftover, s, i)
           B == Bucket(ladder, s.from, i, Later(leftover, m))
<1>1. L \in Nat /\ i \in Nat /\ i - 1 < L /\ i - 1 \in 0..L /\ i \in 0..L
  OBVIOUS
<1>2. /\ s = [cume |-> s.cume, next |-> s.next, from |-> s.from, buckets |-> s.buckets]
      /\ s.buckets \in Seq(BucketsOf(ladder, leftover)) /\ m \in Nat
      /\ m <= NumBuckets - 2 /\ (m = NumBuckets - 2 => s.next = Unreachable(n))
  BY <1>1 DEF TurnOK
<1>3. PICK e : /\ CutAt(s.buckets, e, ladder, leftover) /\ s.from = e[m]
               /\ s.from <= i - 1 \/ (i - 1 = 0 /\ m = 0)
  BY DEF TurnOK
<1>4. s.cume + Share(ladder, i) = 20 * NumBuckets * w[i]
  <2>1. w[i] = w[i-1] + ladder[i].count /\ w[i-1] \in Int /\ w[i] \in Int
    BY <1>1 DEF AddsUp
  <2>2. ladder[i].count \in Int
    <3>1. ladder[i] \in Entry
      OBVIOUS
    <3> QED  BY <3>1 DEF Entry
  <2>3. s.cume = 20 * NumBuckets * w[i-1]
    BY DEF TurnOK
  <2>4. PICK c \in Int, x \in Int, y \in Int : c = ladder[i].count /\ x = w[i-1] /\ y = w[i]
    BY <2>1, <2>2
  <2>5. s.cume = 20 * NumBuckets * x /\ Share(ladder, i) = 20 * NumBuckets * c /\ y = x + c
    BY <2>1, <2>3, <2>4 DEF Share
  <2>6. 20 * NumBuckets * x + 20 * NumBuckets * c = 20 * NumBuckets * (x + c)
    BY <2>4
  <2> QED  BY <2>4, <2>5, <2>6
<1>5. i < L /\ s.next = Unreachable(n) => ~Crossed(ladder, s, i)
  <2>1. w[i] \in 0..n
    BY <1>1 DEF AddsUp
  <2>2. PICK y \in 0..n : y = w[i]
    BY <2>1
  <2>3. NumBuckets * y <= NumBuckets * n /\ NumBuckets * n >= 0 /\ NumBuckets * y \in Int /\ NumBuckets * n \in Int
    BY <2>2
  <2>4. Unreachable(n) = 40 * (NumBuckets * n) /\ 20 * NumBuckets * w[i] = 20 * (NumBuckets * y)
    BY <2>2 DEF Unreachable, Whole
  <2>5. ~(20 * NumBuckets * w[i] > Unreachable(n))
    BY <2>3, <2>4
  <2> QED  BY <1>1, <1>4, <2>5 DEF Crossed
<1>6. CASE ~Crossed(ladder, s, i)
  <2>1. i # L
    BY <1>6 DEF Crossed
  <2>2. new = [s EXCEPT !.cume = s.cume + Share(ladder, i)]
    BY <1>6 DEF Turn
  <2>3. new = [cume |-> s.cume + Share(ladder, i), next |-> s.next, from |-> s.from, buckets |-> s.buckets]
    BY <1>2, <2>2
  <2> HIDE DEF new
  <2>4. /\ new.cume = s.cume + Share(ladder, i) /\ new.next = s.next /\ new.from = s.from
        /\ new.buckets = s.buckets
    BY <2>3
  <2>5. s.from <= i
    <3>1. e[m] \in Int
      BY <1>2, <1>3 DEF CutAt
    <3>2. CASE i - 1 = 0 /\ m = 0
      BY <1>1, <1>3, <3>2 DEF CutAt
    <3>3. CASE s.from <= i - 1
      BY <1>1, <1>3, <3>1, <3>3
    <3> QED  BY <1>3, <3>2, <3>3
  <2>6. \E g : /\ CutAt(new.buckets, g, ladder, leftover) /\ new.from = g[Len(new.buckets)]
               /\ new.from <= i \/ (i = 0 /\ Len(new.buckets) = 0)
               /\ i = Len(ladder) => new.from = i
    BY <1>3, <2>1, <2>4, <2>5
  <2>7. /\ new.cume = 20 * NumBuckets * w[i] /\ new.buckets \in Seq(BucketsOf(ladder, leftover))
        /\ Len(new.buckets) <= NumBuckets - 2
        /\ Len(new.buckets) = NumBuckets - 2 => new.next = Unreachable(n)
    BY <1>2, <1>4, <2>4
  <2>8. Len(new.buckets) <= NumBuckets - 1
    BY <1>2, <2>4
  <2>9. new = [cume |-> new.cume, next |-> new.next, from |-> new.from, buckets |-> new.buckets]
    BY <2>3, <2>4
  <2> HIDE DEF m, L
  <2>10. TurnOK(new, i, ladder, n, w, leftover)
    BY <2>6, <2>7, <2>8, <2>9 DEF TurnOK
  <2> QED  BY <2>10 DEF new
<1>7. CASE Crossed(ladder, s, i)
  <2>1. new = [cume |-> s.cume + Share(ladder, i),
               next |-> IF LastTurn(b, s) THEN Unreachable(n) ELSE s.next + b.inc,
               from |-> i, buckets |-> Append(s.buckets, B)]
    BY <1>7 DEF Turn
  <2> HIDE DEF new
  <2>2. /\ new.cume = s.cume + Share(ladder, i) /\ new.from = i /\ new.buckets = Append(s.buckets, B)
        /\ new.next = IF LastTurn(b, s) THEN Unreachable(n) ELSE s.next + b.inc
        /\ new = [cume |-> new.cume, next |-> new.next, from |-> new.from, buckets |-> new.buckets]
    BY <2>1
  <2>3. e \in [0..m -> 1..L] /\ s.from \in 1..L
    BY <1>2, <1>3 DEF CutAt
  <2>4. B \in BucketsOf(ladder, leftover)
    BY <1>2, <2>3 DEF BucketsOf
  <2> HIDE DEF B
  <2>5. /\ new.buckets \in Seq(BucketsOf(ladder, leftover)) /\ Len(new.buckets) = m + 1
        /\ new.buckets[m+1] = B /\ \A k \in 1..m : new.buckets[k] = s.buckets[k]
    BY <1>2, <2>2, <2>4
  <2>6. m + 1 <= NumBuckets - 1
    BY <1>2
  <2>7. ASSUME i < L
        PROVE  m + 1 <= NumBuckets - 2 /\ (m + 1 = NumBuckets - 2 => new.next = Unreachable(n))
    <3>1. m # NumBuckets - 2
      BY <1>2, <1>5, <1>7, <2>7
    <3>2. m + 1 = NumBuckets - 2 => LastTurn(b, s)
      BY DEF LastTurn, LastBucket
    <3> HIDE DEF m
    <3> QED  BY <1>2, <2>2, <3>1, <3>2
  <2> DEFINE f == [k \in 0..m+1 |-> IF k = m + 1 THEN i ELSE e[k]]
  <2>8. f[m+1] = i /\ (\A k \in 0..m : f[k] = e[k]) /\ f \in [0..m+1 -> 1..L]
    BY <1>2, <2>3
  <2>9. s.from <= i /\ (m > 0 => s.from < i)
    <3>1. CASE i - 1 = 0 /\ m = 0
      BY <1>1, <1>3, <3>1 DEF CutAt
    <3>2. CASE s.from <= i - 1
      BY <1>1, <2>3, <3>2
    <3> QED  BY <1>3, <3>1, <3>2
  <2>10. CutAt(new.buckets, f, ladder, leftover)
    <3>1. e[m] <= i /\ (m > 0 => e[m] < i) /\ B = Bucket(ladder, e[m], i, Later(leftover, m))
      BY <1>3, <2>9 DEF B
    <3> QED  BY <1>2, <1>3, <2>2, <3>1, CutGrows
  <2>11. \E g : /\ CutAt(new.buckets, g, ladder, leftover) /\ new.from = g[Len(new.buckets)]
                /\ new.from <= i \/ (i = 0 /\ Len(new.buckets) = 0)
                /\ i = Len(ladder) => new.from = i
    <3>1. new.from = f[Len(new.buckets)] /\ new.from <= i
      BY <1>1, <2>2, <2>5, <2>8
    <3> HIDE DEF f
    <3> QED  BY <2>2, <2>10, <3>1
  <2>12. new.cume = 20 * NumBuckets * w[i]
    BY <1>4, <2>2
  <2>13. /\ i < Len(ladder) => /\ Len(new.buckets) <= NumBuckets - 2
                               /\ Len(new.buckets) = NumBuckets - 2 => new.next = Unreachable(n)
         /\ Len(new.buckets) <= NumBuckets - 1
    <3> HIDE DEF f
    <3> QED  BY <2>5, <2>6, <2>7
  <2>14. /\ new.buckets \in Seq(BucketsOf(ladder, leftover))
         /\ new = [cume |-> new.cume, next |-> new.next, from |-> new.from, buckets |-> new.buckets]
    BY <2>2, <2>5
  <2> HIDE DEF f, m
  <2>15. TurnOK(new, i, ladder, n, w, leftover)
    BY <2>11, <2>12, <2>13, <2>14 DEF TurnOK
  <2> QED  BY <2>15 DEF new
<1> QED  BY <1>6, <1>7

LEMMA FirstTurnOK ==
    ASSUME NEW ladder \in Seq(Entry), Len(ladder) > 0, NEW n, NEW w, AddsUp(w, ladder, n), NEW b, NEW leftover,
           NumBuckets \in Nat \ {0, 1, 2}
    PROVE  /\ TurnOK(FirstTurn(b), 0, ladder, n, w, leftover)
           /\ CutAt(FirstTurn(b).buckets, [k \in 0..0 |-> 1], ladder, leftover)
<1> DEFINE e == [k \in 0..0 |-> 1]
           s == FirstTurn(b)
<1>1. /\ s.cume = 0 /\ s.from = 1 /\ s.buckets = <<>>
      /\ s = [cume |-> s.cume, next |-> s.next, from |-> s.from, buckets |-> s.buckets]
  BY DEF FirstTurn
<1> HIDE DEF s
<1>2. Len(s.buckets) = 0 /\ s.buckets \in Seq(BucketsOf(ladder, leftover))
  BY <1>1
<1>3. e[0] = 1 /\ e \in [0..0 -> 1..Len(ladder)]
  OBVIOUS
<1> HIDE DEF e
<1>4. CutAt(s.buckets, e, ladder, leftover)
  BY <1>2, <1>3 DEF CutAt
<1>5. \E g : /\ CutAt(s.buckets, g, ladder, leftover) /\ s.from = g[Len(s.buckets)]
             /\ s.from <= 0 \/ (0 = 0 /\ Len(s.buckets) = 0)
             /\ 0 = Len(ladder) => s.from = 0
  BY <1>1, <1>2, <1>3, <1>4
<1>6. s.cume = 20 * NumBuckets * w[0]
  BY <1>1 DEF AddsUp
<1>7. TurnOK(s, 0, ladder, n, w, leftover)
  BY <1>1, <1>2, <1>5, <1>6 DEF TurnOK
<1> QED  BY <1>4, <1>7 DEF s, e

LEMMA BucketsFacts ==
    ASSUME NumBuckets \in Nat \ {0, 1, 2}, NEW ladder \in Seq(Entry), NEW n \in Nat, NEW w, AddsUp(w, ladder, n),
           NEW b, NEW leftover
    PROVE  LET bs == Buckets(ladder, b, n, leftover)
           IN /\ bs \in Seq(BucketsOf(ladder, leftover)) /\ Len(bs) <= NumBuckets - 1
              /\ Len(ladder) > 0 => \E e : CutAt(bs, e, ladder, leftover) /\ e[Len(bs)] = Len(ladder)
<1> DEFINE L == Len(ladder)
           t == CHOOSE t : AreTurns(t, ladder, b, n, leftover, L)
           bs == Buckets(ladder, b, n, leftover)
<1>1. L \in Nat /\ bs = t[L].buckets
  BY BucketsUnfold
<1>2. AreTurns(t, ladder, b, n, leftover, L)
  BY <1>1, TurnsExist
<1> HIDE DEF t, bs
<1>3. t[0] = FirstTurn(b) /\ \A i \in 1..L : t[i] = Turn(ladder, b, n, leftover, t[i-1], i)
  <2>1. 0 \in 0..L /\ \A i \in 1..L : i \in 0..L /\ i # 0
    BY <1>1
  <2> QED  BY <1>2, <2>1 DEF AreTurns
<1>4. CASE L = 0
  <2>1. bs = <<>>
    BY <1>1, <1>3, <1>4 DEF FirstTurn
  <2>2. bs \in Seq(BucketsOf(ladder, leftover)) /\ Len(bs) = 0
    BY <2>1
  <2> QED  BY <1>4, <2>2 DEF bs
<1>5. CASE L # 0
  <2>1. TurnOK(t[0], 0, ladder, n, w, leftover)
    BY <1>1, <1>3, <1>5, FirstTurnOK
  <2> DEFINE Bad == {i \in 0..L : ~TurnOK(t[i], i, ladder, n, w, leftover)}
  <2>2. ASSUME Bad # {} PROVE FALSE
    <3>1. Bad \subseteq Nat
      OBVIOUS
    <3>2. PICK i \in Bad : \A k \in Bad : i <= k
      BY <2>2, <3>1, MinExists
    <3>3. i # 0
      BY <2>1
    <3>4. i \in 1..L /\ i - 1 \in 0..L /\ ~(i <= i - 1)
      BY <1>1, <3>3
    <3>5. TurnOK(t[i-1], i - 1, ladder, n, w, leftover)
      BY <3>2, <3>4
    <3>6. TurnOK(t[i], i, ladder, n, w, leftover)
      <4>1. t[i] = Turn(ladder, b, n, leftover, t[i-1], i)
        BY <1>3, <3>4
      <4>2. TurnOK(Turn(ladder, b, n, leftover, t[i-1], i), i, ladder, n, w, leftover)
        BY <3>4, <3>5, TurnKeeps
      <4> QED  BY <4>1, <4>2
    <3> QED  BY <3>6
  <2>3. TurnOK(t[L], L, ladder, n, w, leftover)
    BY <1>1, <2>2
  <2>4. PICK e : CutAt(bs, e, ladder, leftover) /\ t[L].from = e[Len(bs)] /\ t[L].from = L
    BY <1>1, <2>3 DEF TurnOK
  <2>5. bs \in Seq(BucketsOf(ladder, leftover)) /\ Len(bs) <= NumBuckets - 1
    BY <1>1, <2>3 DEF TurnOK
  <2> QED  BY <2>4, <2>5 DEF bs
<1> QED  BY <1>4, <1>5

\* The counts of a ladder add up.
LEMMA LadderAddsUp ==
    ASSUME NEW n \in Nat, NEW values, AreValues(values, n), NEW special
    PROVE  \E w : AddsUp(w, Ladder(Counts(values), special), n)
<1> DEFINE count == Counts(values)
           ladder == Ladder(count, special)
           L == Len(ladder)
           R == Cardinality(Rest(count, special))
           before(i) == {m \in 1..n : \E j \in 1..R : j <= i /\ values[m] = ladder[j].guy}
           w == [i \in 0..L |-> Cardinality(before(i))]
<1>1. /\ DOMAIN count = Range(values)
      /\ IsFiniteSet(Range(values)) /\ Range(values) \subseteq Int
      /\ \A v \in Range(values) : /\ count[v] = Cardinality({i \in 1..n : values[i] = v})
                                  /\ count[v] \in Nat \ {0}
  BY CountFacts
<1>2. /\ R \in Nat /\ ladder \in Seq(Entry)
      /\ L = IF special \in DOMAIN count THEN R + 1 ELSE R
      /\ \A i \in 1..R : ladder[i].guy \in Rest(count, special) /\ ladder[i].count = count[ladder[i].guy]
      /\ \A i, j \in 1..R : i < j => ladder[i].guy > ladder[j].guy
      /\ special \in DOMAIN count => ladder[R+1] = [guy |-> 0, count |-> 0]
  <2> HIDE DEF count
  <2>1. IsFiniteSet(DOMAIN count) /\ DOMAIN count \subseteq Int /\ \A v \in DOMAIN count : count[v] \in Nat
    BY <1>1
  <2> QED  BY <2>1, LadderFacts
<1> HIDE DEF count, ladder, R
<1>3. IsFiniteSet(1..n) /\ Cardinality(1..n) = n
  BY FS_Interval
<1>4. \A i : IsFiniteSet(before(i)) /\ Cardinality(before(i)) \in 0..n
  <2> SUFFICES ASSUME NEW i PROVE IsFiniteSet(before(i)) /\ Cardinality(before(i)) \in 0..n
    OBVIOUS
  <2>1. before(i) \subseteq 1..n
    OBVIOUS
  <2> HIDE DEF before
  <2>2. IsFiniteSet(before(i)) /\ Cardinality(before(i)) <= n /\ Cardinality(before(i)) \in Nat
    BY <1>3, <2>1, FS_Subset, FS_CardinalityType
  <2> QED  BY <2>2
<1>5. before(0) = {}
  OBVIOUS
<1>6. ASSUME NEW i \in 1..L PROVE Cardinality(before(i)) = Cardinality(before(i-1)) + ladder[i].count
  <2>1. i \in Nat /\ (i \in 1..R \/ (i = R + 1 /\ special \in DOMAIN count))
    BY <1>2
  <2>2. CASE i \in 1..R
    <3> DEFINE here == {m \in 1..n : values[m] = ladder[i].guy}
    <3>1. before(i) = before(i-1) \cup here
      <4>1. \A j \in 1..R : j <= i <=> j <= i - 1 \/ j = i
        BY <2>1
      <4> QED  BY <2>2, <4>1
    <3>2. before(i-1) \cap here = {}
      <4>1. ASSUME NEW m \in before(i-1), m \in here PROVE FALSE
        <5>1. PICK j \in 1..R : j <= i - 1 /\ values[m] = ladder[j].guy
          OBVIOUS
        <5>2. j < i /\ ladder[j].guy = ladder[i].guy
          BY <2>1, <4>1, <5>1
        <5>3. ladder[j].guy > ladder[i].guy
          BY <1>2, <2>2, <5>2
        <5>4. ladder[j].guy \in Int
          BY <1>1, <1>2 DEF Rest
        <5> QED  BY <5>2, <5>3, <5>4
      <4> QED  BY <4>1
    <3>3. ladder[i].count = Cardinality(here)
      <4>1. ladder[i].guy \in Range(values) /\ ladder[i].count = count[ladder[i].guy]
        BY <1>1, <1>2, <2>2 DEF Rest
      <4> QED  BY <1>1, <4>1
    <3>4. IsFiniteSet(here) /\ Cardinality(here) \in Nat
      BY <1>3, FS_Subset, FS_CardinalityType
    <3> HIDE DEF before, here
    <3>5. Cardinality(before(i)) = Cardinality(before(i-1)) + Cardinality(here) - Cardinality(before(i-1) \cap here)
      BY <1>4, <3>1, <3>4, FS_Union
    <3>6. Cardinality(before(i-1) \cap here) = 0
      BY <3>2, FS_EmptySet
    <3>7. Cardinality(before(i-1)) \in Int
      BY <1>4
    <3> QED  BY <3>3, <3>4, <3>5, <3>6, <3>7
  <2>3. CASE i = R + 1 /\ special \in DOMAIN count
    <3>1. ladder[i].count = 0
      BY <1>2, <2>3
    <3>2. before(i) = before(i-1)
      <4>1. \A j \in 1..R : j <= i /\ j <= i - 1
        BY <1>2, <2>3
      <4> QED  BY <4>1
    <3> HIDE DEF before
    <3>3. Cardinality(before(i-1)) \in Int
      BY <1>4
    <3> QED  BY <3>1, <3>2, <3>3
  <2> QED  BY <2>1, <2>2, <2>3
<1> HIDE DEF before
<1>7. L \in Nat
  BY <1>2
<1>8. w \in [0..L -> 0..n] /\ w[0] = 0
  BY <1>4, <1>5, <1>7, FS_EmptySet
<1>9. \A i \in 1..L : w[i] = w[i-1] + ladder[i].count
  <2>1. \A i \in 1..L : i \in 0..L /\ i - 1 \in 0..L
    BY <1>7
  <2> QED  BY <1>6, <2>1
<1>10. AddsUp(w, ladder, n)
  <2> HIDE DEF w
  <2> QED  BY <1>8, <1>9 DEF AddsUp
<1> HIDE DEF w
<1> QED  BY <1>10 DEF ladder, count

\* A sum of products with positive weights lies between the least and the
\* greatest factor times the weights.
LEMMA SumBetween ==
    ASSUME NEW c, NEW p, NEW g, NEW S, IsFiniteSet(S), NEW lo \in Int, NEW hi \in Int,
           \A x \in S : c[x] \in Nat \ {0} /\ g[x] \in lo..hi /\ p[x] = c[x] * g[x]
    PROVE  /\ SumOver(c, S) \in Nat /\ SumOver(p, S) \in Int
           /\ S # {} => SumOver(c, S) > 0
           /\ lo * SumOver(c, S) <= SumOver(p, S) /\ SumOver(p, S) <= hi * SumOver(c, S)
<1> DEFINE Fine(T) == /\ SumOver(c, T) \in Nat /\ SumOver(p, T) \in Int
                      /\ T # {} => SumOver(c, T) > 0
                      /\ lo * SumOver(c, T) <= SumOver(p, T) /\ SumOver(p, T) <= hi * SumOver(c, T)
           Bad == {T \in SUBSET S : ~Fine(T)}
<1>1. \A x \in S : c[x] \in Int /\ p[x] \in Int
  <2> SUFFICES ASSUME NEW x \in S PROVE c[x] \in Int /\ p[x] \in Int
    OBVIOUS
  <2>1. PICK i \in Int, j \in Int : i = c[x] /\ j = g[x]
    OBVIOUS
  <2>2. i * j \in Int
    OBVIOUS
  <2> QED  BY <2>1, <2>2
<1>2. \A T \in SUBSET S : IsFiniteSet(T)
  BY FS_Subset
<1>3. ASSUME Bad # {} PROVE FALSE
  <2>1. PICK T \in Bad : \A U \in Bad : Cardinality(T) <= Cardinality(U)
    <3>1. \A U \in Bad : IsFiniteSet(U)
      BY <1>2
    <3> HIDE DEF Bad
    <3> QED  BY <1>3, <3>1, FewestExist
  <2>2. T \subseteq S /\ IsFiniteSet(T) /\ \A x \in T : c[x] \in Int /\ p[x] \in Int
    BY <1>1, <1>2
  <2>3. T # {}
    <3>1. ASSUME T = {} PROVE Fine(T)
      <4>1. SumOver(c, T) = 0 /\ SumOver(p, T) = 0
        BY <2>2, <3>1, SumPick
      <4> QED  BY <3>1, <4>1
    <3> QED  BY <3>1
  <2> DEFINE x == PickOf(T)
             U == T \ {x}
  <2>4. x \in T
    BY <2>3, PickIsIn
  <2> HIDE DEF x
  <2>5. Fine(U)
    <3>1. U \in SUBSET S
      BY <2>2
    <3>2. ~(Cardinality(T) <= Cardinality(U))
      <4>1. Cardinality(T) \in Nat \ {0} /\ Cardinality(U) = Cardinality(T) - 1
        BY <2>2, <2>4, Fewer
      <4> QED  BY <4>1
    <3> HIDE DEF Fine, U
    <3> QED  BY <2>1, <3>1, <3>2
  <2>6. SumOver(c, T) = c[x] + SumOver(c, U) /\ SumOver(p, T) = p[x] + SumOver(p, U)
    BY <2>2, <2>3, SumPick DEF x
  <2>7. Fine(T)
    <3>1. PICK i \in Nat \ {0}, j \in lo..hi : i = c[x] /\ j = g[x] /\ p[x] = i * j
      BY <2>2, <2>4
    <3>2. PICK a \in Nat, b \in Int : /\ a = SumOver(c, U) /\ b = SumOver(p, U)
                                      /\ lo * a <= b /\ b <= hi * a
      BY <2>5
    <3>3. SumOver(c, T) = i + a /\ SumOver(p, T) = i * j + b
      BY <2>6, <3>1, <3>2
    <3>4. lo * i <= i * j /\ i * j <= hi * i /\ i * j \in Int /\ lo * i \in Int /\ hi * i \in Int
      OBVIOUS
    <3>5. lo * (i + a) = lo * i + lo * a /\ hi * (i + a) = hi * i + hi * a /\ lo * a \in Int /\ hi * a \in Int
      OBVIOUS
    <3>6. lo * (i + a) <= i * j + b /\ i * j + b <= hi * (i + a)
      <4> PICK k \in Int, la \in Int, ha \in Int, l \in Int, h \in Int :
             k = i * j /\ la = lo * a /\ ha = hi * a /\ l = lo * i /\ h = hi * i
        BY <3>4, <3>5
      <4>1. lo * (i + a) = l + la /\ hi * (i + a) = h + ha
        BY <3>5
      <4>2. l <= k /\ k <= h /\ la <= b /\ b <= ha
        BY <3>2, <3>4
      <4>3. l + la <= k + b /\ k + b <= h + ha
        BY <4>2
      <4> QED  BY <4>1, <4>3
    <3> HIDE DEF U
    <3> QED  BY <3>3, <3>4, <3>6
  <2> QED  BY <2>7
<1> QED  BY <1>3

\* The rounded quotient too.
LEMMA RoundDivBetween ==
    ASSUME NEW a \in Int, NEW b \in Nat, b > 0, NEW lo \in Int, NEW hi \in Int, lo * b <= a, a <= hi * b
    PROVE  RoundDiv(a, b) \in lo..hi
<1> DEFINE abs(i) == IF i < 0 THEN -i ELSE i
           q == (2 * abs(a) + b) \div (2 * b)
<1>1. abs(a) \in Nat /\ abs(b) = b
  OBVIOUS
<1>2. RoundDiv(a, b) = IF a >= 0 THEN q ELSE -q
  BY DEF RoundDiv
<1>3. ASSUME NEW n \in Nat PROVE (2 * n + b) \div (2 * b) \in Nat
                                 /\ 2 * b * ((2 * n + b) \div (2 * b)) <= 2 * n + b
                                 /\ 2 * n + b < 2 * b * ((2 * n + b) \div (2 * b)) + 2 * b
  OBVIOUS
<1>4. PICK n \in Nat : n = abs(a)
  BY <1>1
<1>5. PICK k \in Nat : k = q /\ 2 * (b * k) <= 2 * n + b /\ 2 * n + b < 2 * (b * k) + 2 * b
  BY <1>3, <1>4
<1> HIDE DEF q
<1>6. CASE a >= 0
  <2>1. n = a /\ n <= hi * b /\ lo * b <= n
    BY <1>4, <1>6
  <2>2. k <= hi
    <3>1. CASE k >= hi + 1
      <4>1. b * k >= b * (hi + 1) /\ b * (hi + 1) = hi * b + b /\ b * k \in Int /\ hi * b \in Int
        BY <3>1
      <4> QED  BY <1>5, <2>1, <4>1
    <3> QED  BY <3>1
  <2>3. k >= lo
    <3>1. CASE k + 1 <= lo
      <4>1. b * (k + 1) <= lo * b /\ b * (k + 1) = b * k + b /\ b * k \in Int /\ lo * b \in Int
        BY <3>1
      <4> QED  BY <1>5, <2>1, <4>1
    <3> QED  BY <3>1
  <2> QED  BY <1>2, <1>5, <1>6, <2>2, <2>3
<1>7. CASE a < 0
  <2>1. n = -a /\ n <= (-lo) * b /\ (-hi) * b <= n
    <3>1. (-lo) * b = -(lo * b) /\ (-hi) * b = -(hi * b) /\ lo * b \in Int /\ hi * b \in Int
      OBVIOUS
    <3>2. n = -a
      BY <1>4, <1>7
    <3> QED  BY <3>1, <3>2
  <2>2. k <= -lo
    <3>1. CASE k >= -lo + 1
      <4>1. b * k >= b * (-lo + 1) /\ b * (-lo + 1) = (-lo) * b + b /\ b * k \in Int /\ (-lo) * b \in Int
        BY <3>1
      <4> QED  BY <1>5, <2>1, <4>1
    <3> QED  BY <3>1
  <2>3. k >= -hi
    <3>1. CASE k + 1 <= -hi
      <4>1. b * (k + 1) <= (-hi) * b /\ b * (k + 1) = b * k + b /\ b * k \in Int /\ (-hi) * b \in Int
        BY <3>1
      <4> QED  BY <1>5, <2>1, <4>1
    <3> QED  BY <3>1
  <2> QED  BY <1>2, <1>5, <1>7, <2>2, <2>3
<1> QED  BY <1>6, <1>7

\* The first r entries are values in descending order, and one more may follow.
Descends(ladder, r) ==
    /\ r \in Nat /\ ladder \in Seq(Entry) /\ Len(ladder) \in {r, r + 1}
    /\ \A i \in 1..r : ladder[i].count > 0
    /\ \A i, j \in 1..r : i < j => ladder[i].guy > ladder[j].guy

LEMMA LadderDescends ==
    ASSUME NEW n \in Nat, NEW values, AreValues(values, n), NEW special
    PROVE  LET count == Counts(values)
           IN Descends(Ladder(count, special), Cardinality(Rest(count, special)))
<1> DEFINE count == Counts(values)
           ladder == Ladder(count, special)
           r == Cardinality(Rest(count, special))
<1>1. /\ IsFiniteSet(DOMAIN count) /\ DOMAIN count \subseteq Int
      /\ \A v \in DOMAIN count : count[v] \in Nat \ {0}
  BY CountFacts
<1> HIDE DEF count
<1>2. /\ r \in Nat /\ ladder \in Seq(Entry)
      /\ Len(ladder) = IF special \in DOMAIN count THEN r + 1 ELSE r
      /\ \A i \in 1..r : ladder[i].guy \in Rest(count, special) /\ ladder[i].count = count[ladder[i].guy]
      /\ \A i, j \in 1..r : i < j => ladder[i].guy > ladder[j].guy
  <2>1. \A v \in DOMAIN count : count[v] \in Nat
    BY <1>1
  <2> QED  BY <1>1, <2>1, LadderFacts
<1> HIDE DEF ladder, r
<1>3. \A i \in 1..r : ladder[i].count > 0
  <2>1. Rest(count, special) \subseteq DOMAIN count
    BY DEF Rest
  <2> QED  BY <1>1, <1>2, <2>1
<1>4. Descends(ladder, r)
  BY <1>2, <1>3 DEF Descends
<1> QED  BY <1>4 DEF count, ladder, r

\* What a loop enters with counts until the first bucket is closed.
LEMMA LaterShare ==
    ASSUME NEW entry, NEW share, NEW closed
    PROVE  Later(Entering(entry, share), closed).share = IF closed = 0 THEN share ELSE 0
<1> DEFINE before == Entering(entry, share)
           kept == IF closed = 0 THEN before.share ELSE 0
<1>1. before = [start |-> entry.start, stop |-> entry.stop, share |-> share]
  BY DEF Entering
<1>2. before.share = share
  BY <1>1
<1>3. Later(before, closed) = [before EXCEPT !.share = kept]
  BY DEF Later
<1> HIDE DEF before, kept
<1>4. [before EXCEPT !.share = kept].share = kept
  BY <1>1
<1> QED  BY <1>2, <1>3, <1>4 DEF before, kept

\* The value of a bucket lies between those of the entries in it, unless the
\* loop entered with a share; then it is still a number.
LEMMA BucketValue ==
    ASSUME NEW ladder, NEW r, Descends(ladder, r), NEW from \in Nat \ {0}, NEW i \in Nat,
           from <= i, i <= Len(ladder), NEW leftover, leftover.share \in Nat
    PROVE  LET value == Bucket(ladder, from, i, leftover).value
           IN /\ value \in Int
              /\ from < i /\ leftover.share = 0 => value \in ladder[i-1].guy..ladder[from].guy
<1> DEFINE S == from..i-1
           counts == [j \in S |-> ladder[j].count]
           products == [j \in S |-> ladder[j].count * ladder[j].guy]
           guys == [j \in S |-> ladder[j].guy]
           value == Bucket(ladder, from, i, leftover).value
<1>1. value = IF from = i THEN 0 ELSE RoundDiv(SumFunction(products), leftover.share + SumFunction(counts))
  BY DEF Bucket
<1>2. CASE from = i
  BY <1>1, <1>2
<1>3. CASE from # i
  <2>1. r \in Nat /\ i - 1 <= r /\ S \subseteq 1..r /\ from \in S /\ i - 1 \in S
    BY <1>3 DEF Descends
  <2>2. \A j \in 1..r : ladder[j].guy \in Int /\ ladder[j].count \in Nat \ {0}
    <3>1. \A j \in 1..r : ladder[j] \in Entry
      BY DEF Descends
    <3> QED  BY <3>1 DEF Entry, Descends
  <2> DEFINE lo == ladder[i-1].guy
             hi == ladder[from].guy
  <2>3. lo \in Int /\ hi \in Int
    BY <2>1, <2>2
  <2>4. \A j \in S : ladder[j].guy \in lo..hi
    <3> SUFFICES ASSUME NEW j \in S PROVE ladder[j].guy \in lo..hi
      OBVIOUS
    <3>1. j \in 1..r /\ i - 1 \in 1..r /\ from \in 1..r /\ (j = i - 1 \/ j < i - 1) /\ (j = from \/ from < j)
      BY <2>1
    <3>2. (j < i - 1 => ladder[j].guy > lo) /\ (from < j => hi > ladder[j].guy)
      BY <3>1 DEF Descends
    <3>3. ladder[j].guy \in Int
      BY <2>2, <3>1
    <3> QED  BY <2>3, <3>1, <3>2, <3>3
  <2>5. IsFiniteSet(S) /\ S # {}
    <3>1. from \in Int /\ i - 1 \in Int
      OBVIOUS
    <3>2. IsFiniteSet(S)
      BY <3>1, FS_Interval
    <3> QED  BY <2>1, <3>2
  <2>6. \A j \in S : counts[j] \in Nat \ {0} /\ guys[j] \in lo..hi /\ products[j] = counts[j] * guys[j]
    BY <2>1, <2>2, <2>4
  <2>7. SumFunction(counts) = SumOver(counts, S) /\ SumFunction(products) = SumOver(products, S)
    <3>1. DOMAIN counts = S /\ DOMAIN products = S
      OBVIOUS
    <3> HIDE DEF counts, products
    <3> QED  BY <3>1, SumUnfolds
  <2> HIDE DEF counts, products, guys, S, lo, hi, value
  <2>8. /\ SumOver(counts, S) \in Nat /\ SumOver(products, S) \in Int /\ SumOver(counts, S) > 0
        /\ lo * SumOver(counts, S) <= SumOver(products, S) /\ SumOver(products, S) <= hi * SumOver(counts, S)
    BY <2>3, <2>5, <2>6, SumBetween
  <2>9. RoundDiv(SumOver(products, S), SumOver(counts, S)) \in lo..hi
    BY <2>3, <2>8, RoundDivBetween
  <2>10. leftover.share = 0 => value \in lo..hi
    BY <1>1, <1>3, <2>7, <2>8, <2>9
  <2>11. value \in Int
    <3>1. leftover.share + SumOver(counts, S) \in Int /\ leftover.share + SumOver(counts, S) # 0
      BY <2>8
    <3> QED  BY <1>1, <1>3, <2>7, <2>8, <3>1, RoundDivInt
  <2> QED  BY <2>10, <2>11 DEF value, lo, hi
<1> QED  BY <1>2, <1>3

\* Whatever is left over, the buckets are cut at the same entries.
TurnsFor(ladder, b, n, leftover) == CHOOSE t : AreTurns(t, ladder, b, n, leftover, Len(ladder))

SameCut(e, ladder, b, n, befores) ==
    \A leftover \in befores :
       LET bs == Buckets(ladder, b, n, leftover)
       IN CutAt(bs, e, ladder, leftover) /\ e[Len(bs)] = Len(ladder)

LEMMA SameCuts ==
    ASSUME NumBuckets \in Nat \ {0, 1, 2}, NEW ladder \in Seq(Entry), Len(ladder) > 0,
           NEW n \in Nat, NEW w, AddsUp(w, ladder, n), NEW b, NEW befores
    PROVE  \E e : SameCut(e, ladder, b, n, befores)
<1> DEFINE L == Len(ladder)
           t(lo) == TurnsFor(ladder, b, n, lo)
           SameAs(i, e, m, cume, next) ==
             \A lo \in befores :
                LET s == t(lo)[i]
                IN /\ TurnOK(s, i, ladder, n, w, lo) /\ CutAt(s.buckets, e, ladder, lo)
                   /\ Len(s.buckets) = m /\ s.from = e[m] /\ s.cume = cume /\ s.next = next
           Same(i) == \E e, m, cume, next : SameAs(i, e, m, cume, next)
<1>1. L \in Nat
  OBVIOUS
<1>2. \A lo : /\ t(lo)[0] = FirstTurn(b)
              /\ \A i \in 1..L : t(lo)[i] = Turn(ladder, b, n, lo, t(lo)[i-1], i)
              /\ Buckets(ladder, b, n, lo) = t(lo)[L].buckets
  <2> SUFFICES ASSUME NEW lo
               PROVE  /\ t(lo)[0] = FirstTurn(b)
                      /\ \A i \in 1..L : t(lo)[i] = Turn(ladder, b, n, lo, t(lo)[i-1], i)
                      /\ Buckets(ladder, b, n, lo) = t(lo)[L].buckets
    OBVIOUS
  <2>1. AreTurns(t(lo), ladder, b, n, lo, L)
    BY <1>1, TurnsExist DEF TurnsFor
  <2>2. 0 \in 0..L /\ \A i \in 1..L : i \in 0..L /\ i # 0
    BY <1>1
  <2>3. Buckets(ladder, b, n, lo) = t(lo)[L].buckets
    BY BucketsUnfold DEF TurnsFor
  <2> HIDE DEF t
  <2> QED  BY <2>1, <2>2, <2>3 DEF AreTurns
<1> HIDE DEF t
<1>3. Same(0)
  <2> DEFINE e == [k \in 0..0 |-> 1]
  <2>1. ASSUME NEW lo PROVE /\ TurnOK(t(lo)[0], 0, ladder, n, w, lo) /\ CutAt(t(lo)[0].buckets, e, ladder, lo)
                            /\ Len(t(lo)[0].buckets) = 0 /\ t(lo)[0].from = e[0]
                            /\ t(lo)[0].cume = 0 /\ t(lo)[0].next = b.inc
    <3>1. t(lo)[0] = FirstTurn(b)
      BY <1>2
    <3>2. TurnOK(FirstTurn(b), 0, ladder, n, w, lo) /\ CutAt(FirstTurn(b).buckets, e, ladder, lo)
      BY FirstTurnOK
    <3>3. /\ FirstTurn(b).cume = 0 /\ FirstTurn(b).from = 1 /\ FirstTurn(b).next = b.inc
          /\ Len(FirstTurn(b).buckets) = 0
      BY DEF FirstTurn
    <3> QED  BY <3>1, <3>2, <3>3
  <2> HIDE DEF e
  <2>2. SameAs(0, e, 0, 0, b.inc)
    BY <2>1
  <2> HIDE DEF SameAs
  <2> QED  BY <2>2
<1>4. ASSUME NEW i \in 1..L, Same(i - 1) PROVE Same(i)
  <2>1. PICK e, m, cume, next : SameAs(i - 1, e, m, cume, next)
    BY <1>4
  <2> DEFINE old(lo) == t(lo)[i-1]
             new(lo) == t(lo)[i]
             crossed == cume + Share(ladder, i) > next \/ i = L
             last == m + 1 = NumBuckets - 2 \/ next >= b.tot - b.inc
             f == [k \in 0..m+1 |-> IF k = m + 1 THEN i ELSE e[k]]
  <2>2. ASSUME NEW lo \in befores
        PROVE  /\ TurnOK(old(lo), i - 1, ladder, n, w, lo) /\ CutAt(old(lo).buckets, e, ladder, lo)
               /\ Len(old(lo).buckets) = m /\ old(lo).from = e[m] /\ old(lo).cume = cume /\ old(lo).next = next
               /\ new(lo) = Turn(ladder, b, n, lo, old(lo), i)
    <3>1. new(lo) = Turn(ladder, b, n, lo, old(lo), i)
      BY <1>2
    <3> HIDE DEF new
    <3> QED  BY <2>1, <3>1 DEF SameAs
  <2> HIDE DEF old, new
  <2>3. ASSUME NEW lo \in befores
        PROVE  /\ Crossed(ladder, old(lo), i) <=> crossed
               /\ LastTurn(b, old(lo)) <=> last
               /\ TurnOK(new(lo), i, ladder, n, w, lo)
               /\ old(lo) = [cume |-> cume, next |-> next, from |-> e[m], buckets |-> old(lo).buckets]
               /\ e[m] <= i /\ (m > 0 => e[m] < i)
               /\ old(lo).buckets \in Seq(BucketsOf(ladder, lo))
    <3>1. Crossed(ladder, old(lo), i) <=> crossed
      BY <2>2 DEF Crossed
    <3>2. LastTurn(b, old(lo)) <=> last
      BY <2>2 DEF LastTurn, LastBucket
    <3>3. TurnOK(new(lo), i, ladder, n, w, lo)
      BY <2>2, TurnKeeps
    <3>4. /\ old(lo) = [cume |-> old(lo).cume, next |-> old(lo).next, from |-> old(lo).from, buckets |-> old(lo).buckets]
          /\ old(lo).from <= i - 1 \/ (i - 1 = 0 /\ Len(old(lo).buckets) = 0)
          /\ old(lo).buckets \in Seq(BucketsOf(ladder, lo))
      BY <2>2 DEF TurnOK
    <3>5. e[m] <= i - 1 \/ (i = 1 /\ m = 0 /\ e[m] = 1)
      BY <2>2, <3>4 DEF CutAt
    <3>6. e[m] \in Int
      BY <2>2 DEF CutAt
    <3> QED  BY <2>2, <3>1, <3>2, <3>3, <3>4, <3>5, <3>6
  <2>4. CASE ~crossed
    <3>1. ASSUME NEW lo \in befores
          PROVE  /\ new(lo).buckets = old(lo).buckets /\ new(lo).from = e[m]
                 /\ new(lo).cume = cume + Share(ladder, i) /\ new(lo).next = next
      <4>1. new(lo) = [old(lo) EXCEPT !.cume = cume + Share(ladder, i)]
        BY <2>2, <2>3, <2>4 DEF Turn
      <4>2. new(lo) = [cume |-> cume + Share(ladder, i), next |-> next, from |-> e[m], buckets |-> old(lo).buckets]
        BY <2>3, <4>1
      <4> QED  BY <4>2
    <3>2. SameAs(i, e, m, cume + Share(ladder, i), next)
      BY <2>2, <2>3, <3>1 DEF new
    <3> HIDE DEF SameAs
    <3> QED  BY <3>2
  <2>5. CASE crossed
    <3> DEFINE after == IF last THEN Unreachable(n) ELSE next + b.inc
               B(lo) == Bucket(ladder, e[m], i, Later(lo, m))
    <3>1. ASSUME NEW lo \in befores
          PROVE  /\ new(lo).buckets = Append(old(lo).buckets, B(lo)) /\ new(lo).from = i
                 /\ new(lo).cume = cume + Share(ladder, i) /\ new(lo).next = after
      <4>1. new(lo) = [cume |-> cume + Share(ladder, i), next |-> after, from |-> i,
                       buckets |-> Append(old(lo).buckets, B(lo))]
        BY <2>2, <2>3, <2>5 DEF Turn
      <4> QED  BY <4>1
    <3>2. ASSUME NEW lo \in befores
          PROVE  CutAt(new(lo).buckets, f, ladder, lo) /\ Len(new(lo).buckets) = m + 1 /\ f[m+1] = i
      <4>1. CutAt(new(lo).buckets, f, ladder, lo)
        <5>1. PICK bs : bs = old(lo).buckets
          OBVIOUS
        <5>2. bs \in Seq(BucketsOf(ladder, lo)) /\ CutAt(bs, e, ladder, lo) /\ Len(bs) = m
          BY <2>2, <2>3, <5>1
        <5>3. e[Len(bs)] <= i /\ (Len(bs) > 0 => e[Len(bs)] < i) /\ ladder \in Seq(Entry) /\ i \in 1..Len(ladder)
          BY <2>3, <5>2
        <5> HIDE DEF f, B
        <5>4. CutAt(Append(bs, Bucket(ladder, e[Len(bs)], i, Later(lo, Len(bs)))),
                    [k \in 0..Len(bs)+1 |-> IF k = Len(bs) + 1 THEN i ELSE e[k]], ladder, lo)
          BY <5>2, <5>3, CutGrows
        <5> QED  BY <3>1, <5>1, <5>2, <5>4 DEF f, B
      <4>2. m \in Nat
        BY <2>2, <2>3
      <4>3. Len(Append(old(lo).buckets, B(lo))) = m + 1
        <5>1. old(lo).buckets \in Seq(BucketsOf(ladder, lo) \cup {B(lo)}) /\ B(lo) \in BucketsOf(ladder, lo) \cup {B(lo)}
          BY <2>3
        <5> HIDE DEF B
        <5> QED  BY <2>2, <5>1
      <4> QED  BY <3>1, <4>1, <4>2, <4>3
    <3> HIDE DEF f, after
    <3>3. SameAs(i, f, m + 1, cume + Share(ladder, i), after)
      BY <2>3, <3>1, <3>2 DEF new
    <3> HIDE DEF SameAs
    <3> QED  BY <3>3
  <2> QED  BY <2>4, <2>5
<1> DEFINE Bad == {i \in 0..L : ~Same(i)}
<1>5. ASSUME Bad # {} PROVE FALSE
  <2>1. Bad \subseteq Nat
    OBVIOUS
  <2>2. PICK i \in Bad : \A k \in Bad : i <= k
    <3> HIDE DEF Bad
    <3> QED  BY <1>5, <2>1, MinExists
  <2>3. i \in 0..L /\ ~Same(i)
    OBVIOUS
  <2> HIDE DEF Same
  <2>4. i # 0
    BY <1>3, <2>3
  <2>5. i \in 1..L /\ i - 1 \in 0..L /\ ~(i <= i - 1)
    BY <1>1, <2>3, <2>4
  <2>6. Same(i - 1)
    BY <2>2, <2>5
  <2> QED  BY <1>4, <2>3, <2>5, <2>6
<1>6. Same(L)
  <2> HIDE DEF Same
  <2> QED  BY <1>1, <1>5
<1>7. PICK e : \A lo \in befores : /\ TurnOK(t(lo)[L], L, ladder, n, w, lo)
                                     /\ CutAt(t(lo)[L].buckets, e, ladder, lo)
                                     /\ t(lo)[L].from = e[Len(t(lo)[L].buckets)]
  BY <1>6
<1>8. \A lo \in befores : t(lo)[L].from = L
  BY <1>7 DEF TurnOK
<1>9. SameCut(e, ladder, b, n, befores)
  BY <1>2, <1>7, <1>8 DEF SameCut
<1> QED  BY <1>9

LEMMA MaxIs ==
    ASSUME NEW n \in Nat, NEW T, T \subseteq 1..n
    PROVE  /\ T # {} => Max(T) \in T
           /\ \A k \in T : (\A j \in T : j <= k) => Max(T) = k
<1>1. ASSUME T # {} PROVE \E k \in T : \A j \in T : k >= j
  <2> DEFINE below == {n - j : j \in T}
  <2>1. below \subseteq Nat /\ below # {}
    <3>1. \A j \in T : n - j \in Nat
      OBVIOUS
    <3> QED  BY <1>1, <3>1
  <2>2. PICK m \in below : \A i \in below : m <= i
    BY <2>1, MinExists
  <2>3. PICK k \in T : m = n - k
    BY <2>2
  <2>4. ASSUME NEW j \in T PROVE k >= j
    <3>1. n - k <= n - j /\ k \in Int /\ j \in Int
      BY <2>2, <2>3
    <3> QED  BY <3>1
  <2> QED  BY <2>4
<1>2. T # {} => Max(T) \in T /\ \A j \in T : Max(T) >= j
  BY <1>1 DEF Max
<1>3. ASSUME NEW k \in T, \A j \in T : j <= k PROVE Max(T) = k
  <2>1. T # {} /\ Max(T) \in T
    BY <1>2
  <2>2. Max(T) >= k /\ Max(T) <= k
    <3> HIDE DEF Max
    <3> QED  BY <1>2, <1>3, <2>1
  <2>3. \A j \in T : j \in Int
    OBVIOUS
  <2>4. Max(T) \in Int /\ k \in Int
    BY <2>1, <2>3
  <2> QED  BY <2>2, <2>4
<1> QED  BY <1>2, <1>3

LEMMA BucketEnds ==
    ASSUME NEW ladder, NEW from, NEW i, NEW leftover
    PROVE  /\ Bucket(ladder, from, i, leftover).stop = ladder[from].guy
           /\ i # 1 => Bucket(ladder, from, i, leftover).start = ladder[i-1].guy
  BY DEF Bucket

LEMMA FewbitInRange ==
    ASSUME NumBuckets \in Nat \ {0, 1, 2}, NEW v, NEW first, NEW count, NEW special, NEW bs, NEW leftover
    PROVE  /\ Fewbit(v, first, count, special, bs, leftover) \in 0..NumBuckets-1
           /\ first => Fewbit(v, first, count, special, bs, leftover) = 0
<1> DEFINE shift == IF special \in DOMAIN count THEN 1 ELSE 0
           entry(j) == IF j <= Len(bs) THEN bs[j] ELSE leftover
           matches == {j \in 1..NumBuckets - shift : v \in entry(j).start..entry(j).stop}
<1>1. Fewbit(v, first, count, special, bs, leftover) = IF first \/ matches = {} THEN 0 ELSE Max(matches) - 1 + shift
  BY DEF Fewbit
<1>2. matches \subseteq 1..NumBuckets - shift /\ NumBuckets - shift \in Nat /\ shift \in {0, 1}
  OBVIOUS
<1> HIDE DEF matches, shift
<1>3. matches # {} => Max(matches) \in 1..NumBuckets - shift
  BY <1>2, MaxIs
<1> QED  BY <1>1, <1>2, <1>3

\* Cuts are in ascending order, and every entry but the last is between two.
LEMMA CutsAscend ==
    ASSUME NEW ladder \in Seq(Entry), NEW bs, Len(bs) \in Nat, NEW leftover, NEW e, CutAt(bs, e, ladder, leftover)
    PROVE  \A j, k \in 0..Len(bs) : j <= k => e[j] <= e[k]
<1> DEFINE m == Len(bs)
<1>1. e \in [0..m -> 1..Len(ladder)] /\ \A k \in 1..m : e[k-1] <= e[k]
  BY DEF CutAt
<1>2. \A k \in 0..m : e[k] \in Int
  BY <1>1
<1> HIDE DEF m
<1> SUFFICES ASSUME NEW j \in 0..m PROVE \A k \in 0..m : j <= k => e[j] <= e[k]
  BY DEF m
<1> DEFINE Bad == {k \in 0..m : j <= k /\ ~(e[j] <= e[k])}
<1>3. ASSUME Bad # {} PROVE FALSE
  <2>1. Bad \subseteq Nat
    OBVIOUS
  <2>2. PICK k \in Bad : \A i \in Bad : k <= i
    BY <1>3, <2>1, MinExists
  <2>3. k # j
    BY <1>2
  <2>4. k \in 1..m /\ k - 1 \in 0..m /\ j <= k - 1 /\ ~(k <= k - 1)
    BY <2>3, m \in Nat DEF m
  <2>5. e[j] <= e[k-1]
    BY <2>2, <2>4
  <2>6. e[k-1] <= e[k] /\ e[k-1] \in Int /\ e[k] \in Int /\ e[j] \in Int
    BY <1>1, <1>2, <2>4
  <2>7. e[j] <= e[k]
    BY <2>5, <2>6
  <2> QED  BY <2>7
<1> QED  BY <1>3

LEMMA BetweenCuts ==
    ASSUME NEW ladder \in Seq(Entry), NEW bs, Len(bs) \in Nat, NEW leftover, NEW e, CutAt(bs, e, ladder, leftover),
           NEW i \in Nat, i > 0, i < e[Len(bs)]
    PROVE  \E k \in 1..Len(bs) : e[k-1] <= i /\ i < e[k]
<1> DEFINE m == Len(bs)
           After == {k \in 0..m : i < e[k]}
<1>1. e \in [0..m -> 1..Len(ladder)] /\ e[0] = 1
  BY DEF CutAt
<1>2. After \subseteq Nat /\ After # {}
  OBVIOUS
<1>3. PICK k \in After : \A j \in After : k <= j
  BY <1>2, MinExists
<1>4. k # 0
  BY <1>1
<1>5. k \in 1..m /\ k - 1 \in 0..m /\ k - 1 \notin After
  BY <1>3, <1>4
<1>6. e[k-1] \in Int
  BY <1>1, <1>5
<1>7. e[k-1] <= i /\ i < e[k]
  BY <1>5, <1>6
<1> QED  BY <1>5, <1>7

\* With all buckets filled a value gets the number of the bucket it is in, and
\* the value of that bucket lies between those in it.
LEMMA NumberIs ==
    ASSUME NumBuckets \in Nat \ {0, 1, 2}, NEW ladder, NEW r, Descends(ladder, r), Len(ladder) = r + 1,
           NEW count, NEW special \in DOMAIN count, NEW entry,
           NEW bs, NEW e, CutAt(bs, e, ladder, Entering(entry, 0)), e[Len(bs)] = r + 1, Len(bs) = NumBuckets - 1,
           NEW i \in 1..r, NEW k \in 1..NumBuckets-1, e[k-1] <= i, i < e[k]
    PROVE  /\ Fewbit(ladder[i].guy, FALSE, count, special, bs, Entering(entry, 0)) = k
           /\ bs[k].value \in ladder[e[k]-1].guy..ladder[e[k-1]].guy
<1> DEFINE leftover == Entering(entry, 0)
           m == NumBuckets - 1
           v == ladder[i].guy
           at_j(j) == IF j <= Len(bs) THEN bs[j] ELSE leftover
           matches == {j \in 1..NumBuckets - 1 : v \in at_j(j).start..at_j(j).stop}
<1>1. r \in Nat /\ m \in Nat /\ ladder \in Seq(Entry) /\ e \in [0..m -> 1..r+1]
  BY DEF Descends, CutAt
<1>12. \A d : Later(leftover, d).share = 0
  BY LaterShare
<1>13. CutAt(bs, e, ladder, leftover)
  OBVIOUS
<1> HIDE DEF leftover
<1>2. \A j \in 1..r : ladder[j].guy \in Int
  <2>1. \A j \in 1..r : ladder[j] \in Entry
    BY DEF Descends
  <2> QED  BY <2>1 DEF Entry
<1>3. \A j \in 1..m : /\ bs[j] = Bucket(ladder, e[j-1], e[j], Later(leftover, j - 1))
                      /\ j - 1 \in 0..m /\ j \in 0..m /\ e[j-1] \in 1..r+1 /\ e[j] \in 1..r+1
                      /\ j > 1 => e[j-1] < e[j]
  <2>1. \A j \in 1..m : j - 1 \in 0..m /\ j \in 0..m
    BY <1>1
  <2> QED  BY <1>1, <1>13, <2>1 DEF CutAt
<1>4. \A j \in 1..m : /\ bs[j].stop = ladder[e[j-1]].guy
                      /\ e[j] # 1 => bs[j].start = ladder[e[j]-1].guy
  <2> SUFFICES ASSUME NEW j \in 1..m
               PROVE  bs[j].stop = ladder[e[j-1]].guy /\ (e[j] # 1 => bs[j].start = ladder[e[j]-1].guy)
    OBVIOUS
  <2>1. bs[j] = Bucket(ladder, e[j-1], e[j], Later(leftover, j - 1))
    BY <1>3
  <2> QED  BY <2>1, BucketEnds
<1>5. e[k-1] \in 1..r /\ e[k] # 1 /\ e[k] - 1 \in 1..r /\ k \in 1..m
  BY <1>1, <1>3
<1>6. k \in matches
  <2>1. ladder[e[k]-1].guy <= v
    <3>1. e[k] - 1 = i \/ i < e[k] - 1
      BY <1>1, <1>3
    <3>2. ladder[e[k]-1].guy = v \/ v > ladder[e[k]-1].guy
      BY <1>5, <3>1 DEF Descends
    <3> QED  BY <1>2, <1>5, <3>2
  <2>2. v <= ladder[e[k-1]].guy
    <3>1. e[k-1] = i \/ e[k-1] < i
      BY <1>5
    <3>2. ladder[e[k-1]].guy = v \/ ladder[e[k-1]].guy > v
      BY <1>5, <3>1 DEF Descends
    <3> QED  BY <1>2, <1>5, <3>2
  <2>3. bs[k].start = ladder[e[k]-1].guy /\ bs[k].stop = ladder[e[k-1]].guy /\ v \in Int
    BY <1>2, <1>4, <1>5
  <2>4. v \in bs[k].start..bs[k].stop
    BY <1>2, <1>5, <2>1, <2>2, <2>3
  <2> QED  BY <2>4
<1>7. ASSUME NEW j \in matches PROVE j <= k
  <2>1. CASE j > k
    <3>1. j \in 1..m /\ v \in bs[j].start..bs[j].stop /\ j > 1
      BY <2>1
    <3>2. e[k] <= e[j-1]
      <4>1. k \in 0..Len(bs) /\ j - 1 \in 0..Len(bs) /\ k <= j - 1 /\ Len(bs) \in Nat
        BY <2>1, <3>1
      <4> QED  BY <1>1, <1>13, <4>1, CutsAscend
    <3>3. e[j-1] \in 1..r /\ i < e[j-1]
      <4>1. e[j-1] < e[j] /\ e[j] \in 1..r+1 /\ e[j-1] \in 1..r+1 /\ e[k] \in 1..r+1
        BY <1>3, <3>1
      <4> QED  BY <1>1, <3>2, <4>1
    <3>4. bs[j].stop = ladder[e[j-1]].guy /\ v > ladder[e[j-1]].guy
      BY <1>4, <3>1, <3>3 DEF Descends
    <3>5. v <= bs[j].stop
      BY <3>1
    <3> QED  BY <1>2, <3>3, <3>4, <3>5
  <2> QED  BY <2>1
<1>8. Fewbit(v, FALSE, count, special, bs, leftover) = IF matches = {} THEN 0 ELSE Max(matches) - 1 + 1
  BY DEF Fewbit
<1>9. Max(matches) = k
  <2>1. matches \subseteq 1..m
    OBVIOUS
  <2> HIDE DEF matches, m
  <2> QED  BY <1>1, <1>6, <1>7, <2>1, MaxIs
<1>10. bs[k].value \in ladder[e[k]-1].guy..ladder[e[k-1]].guy
  <2>1. bs[k] = Bucket(ladder, e[k-1], e[k], Later(leftover, k - 1))
    BY <1>3
  <2>2. e[k-1] \in 1..r+1 /\ e[k] \in 1..r+1
    BY <1>3
  <2>3. PICK f \in Nat \ {0}, l \in Nat : f = e[k-1] /\ l = e[k] /\ f <= i /\ i < l /\ l <= r + 1
    BY <1>1, <2>2
  <2>4. Bucket(ladder, f, l, Later(leftover, k - 1)).value \in ladder[l-1].guy..ladder[f].guy
    <3>1. f <= l /\ f < l /\ l <= Len(ladder)
      BY <2>3
    <3>2. PICK later : later = Later(leftover, k - 1)
      OBVIOUS
    <3>3. later.share = 0 /\ later.share \in Nat
      BY <1>12, <3>2
    <3>4. Bucket(ladder, f, l, later).value \in ladder[l-1].guy..ladder[f].guy
      BY <3>1, <3>3, BucketValue
    <3> QED  BY <3>2, <3>4
  <2>5. bs[k] = Bucket(ladder, f, l, Later(leftover, k - 1))
    BY <2>1, <2>3, Zenon
  <2>6. bs[k].value \in ladder[l-1].guy..ladder[f].guy
    BY <2>4, <2>5
  <2>7. l - 1 = e[k] - 1 /\ f = e[k-1]
    BY <2>3
  <2> QED  BY <2>6, <2>7, Zenon
<1>11. matches # {} /\ k - 1 + 1 = k
  BY <1>6
<1> HIDE DEF matches
<1> QED  BY <1>8, <1>9, <1>10, <1>11 DEF leftover

-----------------------------------------------------------------------------
(* Where the valence of a line lies in a store: as many valences lie before  *)
(* it as there are pairs before its own.                                     *)

Smaller(q, p) == q[1] < p[1] \/ (q[1] = p[1] /\ q[2] < p[2])
RankIn(pairs, p) == Cardinality({q \in pairs : Smaller(q, p)})

LEMMA RankIs ==
    ASSUME NEW major, NEW minor, NEW pairs, NEW n \in Nat, NEW elts,
           OrderedAs(major, minor, pairs, n, elts), NEW p \in 0..n-1
    PROVE  RankIn(pairs, <<major[p], minor[p]>>) = p
<1> DEFINE pairAt(k) == <<major[k], minor[k]>>
           before == {q \in pairs : Smaller(q, pairAt(p))}
           f == [k \in 0..p-1 |-> pairAt(k)]
<1>1. /\ pairs = {pairAt(k) : k \in 0..n-1}
      /\ \A j, k \in 0..n-1 : j < k => Smaller(pairAt(j), pairAt(k))
      /\ \A k \in 0..n-1 : pairAt(k)[1] \in Int /\ pairAt(k)[2] \in Int
  BY DEF OrderedAs, Smaller
<1>2. \A j, k \in 0..n-1 : Smaller(pairAt(j), pairAt(k)) => ~Smaller(pairAt(k), pairAt(j)) /\ pairAt(j) # pairAt(k)
  BY <1>1 DEF Smaller
<1>3. p \in Nat /\ 0..p-1 \subseteq 0..n-1 /\ \A k \in 0..n-1 : k < p \/ k = p \/ p < k
  OBVIOUS
<1> HIDE DEF pairAt
<1>4. ASSUME NEW j \in 0..n-1, NEW k \in 0..n-1, j # k PROVE pairAt(j) # pairAt(k)
  <2>1. j < k \/ k < j
    BY <1>4
  <2> QED  BY <1>1, <1>2, <2>1
<1>5. \A k \in 0..p-1 : k \in 0..n-1 /\ Smaller(pairAt(k), pairAt(p))
  BY <1>1, <1>3
<1>6. ASSUME NEW q \in before PROVE \E k \in 0..p-1 : q = pairAt(k)
  <2>1. PICK k \in 0..n-1 : q = pairAt(k)
    BY <1>1
  <2>2. Smaller(pairAt(k), pairAt(p))
    BY <2>1
  <2>3. k < p
    <3>1. ~Smaller(pairAt(p), pairAt(k)) /\ pairAt(k) # pairAt(p)
      BY <1>2, <2>2
    <3>2. ~(p < k)
      BY <1>1, <3>1
    <3> QED  BY <1>3, <3>1, <3>2
  <2>4. k \in 0..p-1
    BY <2>3
  <2> QED  BY <2>1, <2>4
<1>7. f \in Bijection(0..p-1, before)
  <2>1. f \in [0..p-1 -> before]
    BY <1>1, <1>5
  <2>2. \A j, k \in 0..p-1 : f[j] = f[k] => j = k
    BY <1>3, <1>4
  <2>3. \A q \in before : \E k \in 0..p-1 : f[k] = q
    BY <1>6
  <2> HIDE DEF f, before
  <2> QED  BY <2>1, <2>2, <2>3 DEF Bijection, Injection, Surjection, IsInjective
<1>8. ExistsBijection(0..p-1, before)
  BY <1>7 DEF ExistsBijection
<1>9. IsFiniteSet(0..p-1) /\ Cardinality(0..p-1) = p
  <2>1. 0 \in Int /\ p - 1 \in Int
    OBVIOUS
  <2>2. /\ IsFiniteSet(0..p-1)
        /\ Cardinality(0..p-1) = IF 0 > p - 1 THEN 0 ELSE p - 1 - 0 + 1
    BY <2>1, FS_Interval
  <2> QED  BY <1>3, <2>2
<1>10. Cardinality(before) = p
  BY <1>8, <1>9, FS_Bijection
<1> QED  BY <1>10 DEF RankIn, before, pairAt

\* Where the valences of a line are looked for.
YPlace(k) == RankIn(YPairs, <<lines[k].y, lines[k].x>>)

LEMMA LineRank ==
    ASSUME file \in Files, NEW k \in 1..ncv PROVE RankIn(XPairs, <<lines[k].x, lines[k].y>>) = k - 1
<1>1. ncv \in Nat /\ k - 1 \in 0..ncv-1 /\ (k - 1) + 1 = k
  BY LineFacts
<1>2. LineX[k-1] = lines[k].x /\ LineY[k-1] = lines[k].y
  BY <1>1, LineFacts
<1>3. OrderedAs(LineX, LineY, XPairs, ncv, file.num_elts)
  BY LinesOrdered
<1>4. \A p \in 0..ncv-1 : RankIn(XPairs, <<LineX[p], LineY[p]>>) = p
  BY <1>1, <1>3, RankIs
<1> QED  BY <1>1, <1>2, <1>4

LEMMA XPlaceIs ==
    ASSUME file \in Files, NEW major, NEW minor, OrderedAs(major, minor, XPairs, ncv, file.num_elts),
           NEW k \in 1..ncv
    PROVE  /\ k - 1 \in 0..ncv-1 /\ major[k-1] = lines[k].x /\ minor[k-1] = lines[k].y
           /\ \A p \in 0..ncv-1 : major[p] = lines[k].x /\ minor[p] = lines[k].y => p = k - 1
<1>1. ncv \in Nat /\ k - 1 \in 0..ncv-1 /\ (k - 1) + 1 = k
  BY LineFacts
<1>2. LineX[k-1] = lines[k].x /\ LineY[k-1] = lines[k].y
  BY <1>1, LineFacts
<1>3. RankIn(XPairs, <<lines[k].x, lines[k].y>>) = k - 1
  BY LineRank
<1>4. \A p \in 0..ncv-1 : major[p] = lines[k].x /\ minor[p] = lines[k].y => p = k - 1
  <2>1. \A p \in 0..ncv-1 : RankIn(XPairs, <<major[p], minor[p]>>) = p
    BY <1>1, RankIs
  <2>2. ASSUME NEW p \in 0..ncv-1, major[p] = lines[k].x, minor[p] = lines[k].y PROVE p = k - 1
    <3>1. <<major[p], minor[p]>> = <<lines[k].x, lines[k].y>>
      BY <2>2
    <3> QED  BY <1>3, <2>1, <3>1
  <2> QED  BY <2>2
<1>5. \E p \in 0..ncv-1 : major[p] = lines[k].x /\ minor[p] = lines[k].y
  <2>1. <<LineX[k-1], LineY[k-1]>> \in XPairs
    BY <1>1, <1>2, LineFacts DEF XPairs
  <2>2. PICK p \in 0..ncv-1 : <<LineX[k-1], LineY[k-1]>> = <<major[p], minor[p]>>
    BY <2>1 DEF OrderedAs
  <2> QED  BY <1>2, <2>2
<1> QED  BY <1>1, <1>4, <1>5

LEMMA YPlaceIs ==
    ASSUME file \in Files, NEW major, NEW minor, OrderedAs(major, minor, YPairs, ncv, file.num_elts),
           NEW k \in 1..ncv
    PROVE  /\ YPlace(k) \in 0..ncv-1 /\ major[YPlace(k)] = lines[k].y /\ minor[YPlace(k)] = lines[k].x
           /\ \A p \in 0..ncv-1 : major[p] = lines[k].y /\ minor[p] = lines[k].x => p = YPlace(k)
<1>1. ncv \in Nat /\ k - 1 \in 0..ncv-1 /\ (k - 1) + 1 = k
  BY LineFacts
<1>2. \A p \in 0..ncv-1 : major[p] = lines[k].y /\ minor[p] = lines[k].x => p = YPlace(k)
  <2>1. \A p \in 0..ncv-1 : RankIn(YPairs, <<major[p], minor[p]>>) = p
    BY <1>1, RankIs
  <2>2. ASSUME NEW p \in 0..ncv-1, major[p] = lines[k].y, minor[p] = lines[k].x PROVE p = YPlace(k)
    <3>1. <<major[p], minor[p]>> = <<lines[k].y, lines[k].x>>
      BY <2>2
    <3> QED  BY <2>1, <3>1 DEF YPlace
  <2> QED  BY <2>2
<1>3. \E p \in 0..ncv-1 : major[p] = lines[k].y /\ minor[p] = lines[k].x
  <2>1. <<lines[k].y, lines[k].x>> \in YPairs
    BY <1>1, LineFacts DEF YPairs
  <2>2. PICK p \in 0..ncv-1 : <<lines[k].y, lines[k].x>> = <<major[p], minor[p]>>
    BY <2>1 DEF OrderedAs
  <2> QED  BY <2>2
<1> QED  BY <1>2, <1>3

\* No two lines are of the same pair.
LEMMA LinesDiffer ==
    ASSUME file \in Files, NEW j \in 1..ncv, NEW k \in 1..ncv, lines[j].x = lines[k].x, lines[j].y = lines[k].y
    PROVE  j = k
<1>1. OrderedAs(LineX, LineY, XPairs, ncv, file.num_elts)
  BY LinesOrdered
<1>2. j - 1 \in 0..ncv-1 /\ LineX[j-1] = lines[j].x /\ LineY[j-1] = lines[j].y
  BY <1>1, XPlaceIs
<1>3. j - 1 = k - 1
  BY <1>1, <1>2, XPlaceIs
<1>4. ncv \in Nat
  BY LineFacts
<1> QED  BY <1>3, <1>4

-----------------------------------------------------------------------------
(* The numbers of the buckets, from the first pass to the live recgen.  Each *)
(* pass may find something else in the entries it does not fill.             *)

SlopeCounts  == Counts(Slopes)
OffsetCounts == Counts(Offsets)
SlopeShares  == Boundaries(SlopeCounts, SpecialSlope, DefaultBoundaries(ncv), ncv)
OffsetShares == Boundaries(OffsetCounts, SpecialOffset, SlopeShares, ncv)

\* The loop over the offsets enters with the share of the last of the slopes.
SlopeStart(leftover)  == Entering(leftover, 0)
OffsetStart(leftover) == Entering(leftover, LastShare(Ladder(SlopeCounts, SpecialSlope)))

SlopeBucketsOf(leftover)  == Buckets(Ladder(SlopeCounts, SpecialSlope), SlopeShares, ncv, SlopeStart(leftover))
OffsetBucketsOf(leftover) == Buckets(Ladder(OffsetCounts, SpecialOffset), OffsetShares, ncv, OffsetStart(leftover))

TakenFirst(v, count) == /\ SpecialSlope \in DOMAIN SlopeCounts
                        /\ v = CHOOSE w \in MostFrequent(count) : TRUE
SlopeNumber(v, leftover) ==
    Fewbit(v, TakenFirst(v, SlopeCounts), SlopeCounts, SpecialSlope, SlopeBucketsOf(leftover), SlopeStart(leftover))
OffsetNumber(v, leftover) ==
    Fewbit(v, TakenFirst(v, OffsetCounts), OffsetCounts, SpecialOffset, OffsetBucketsOf(leftover), OffsetStart(leftover))

FewOf(leftover) == [s |-> [v \in DOMAIN SlopeCounts |-> SlopeNumber(v, leftover)],
                    o |-> [v \in DOMAIN OffsetCounts |-> OffsetNumber(v, leftover)]]
TokensOf(leftover) == [slopes  |-> SoLine(SlopeCounts, SpecialSlope, SlopeBucketsOf(leftover)),
                       offsets |-> SoLine(OffsetCounts, SpecialOffset, OffsetBucketsOf(leftover))]
CodeOf(l, leftover) == [s |-> SlopeNumber(l.slope, leftover), o |-> OffsetNumber(l.offset, leftover)]

\* Some pass made this code of the line.
CodeFits(so, l) == \E leftover \in Leftovers : so = CodeOf(l, leftover)

LEMMA FirstPassIs ==
    ASSUME FirstPass
    PROVE  \E leftover \in Leftovers : /\ few' = FewOf(leftover)
                                       /\ disk' = [disk EXCEPT !.so = TokensOf(leftover)]
<1>1. PICK leftover \in Leftovers :
         /\ few' = [s |-> [v \in DOMAIN SlopeCounts |-> SlopeNumber(v, leftover)],
                    o |-> [v \in DOMAIN OffsetCounts |-> OffsetNumber(v, leftover)]]
         /\ disk' = [disk EXCEPT !.so = [slopes  |-> SoLine(SlopeCounts, SpecialSlope, SlopeBucketsOf(leftover)),
                                         offsets |-> SoLine(OffsetCounts, SpecialOffset, OffsetBucketsOf(leftover))]]
  BY DEF FirstPass, SlopeCounts, OffsetCounts, Slopes, Offsets, SlopeShares, OffsetShares, SlopeBucketsOf,
         OffsetBucketsOf, TakenFirst, SlopeNumber, OffsetNumber, SlopeStart, OffsetStart
<1> QED  BY <1>1 DEF FewOf, TokensOf

LEMMA ValuesOfLines ==
    ASSUME file \in Files
    PROVE  /\ ncv \in Nat /\ AreValues(Slopes, ncv) /\ AreValues(Offsets, ncv)
           /\ \A l \in Range(lines) : l.slope \in DOMAIN SlopeCounts /\ l.offset \in DOMAIN OffsetCounts
<1>1. lines \in Seq(Line) /\ ncv \in Nat /\ DOMAIN lines = 1..ncv
  BY FileFacts
<1>2. \A k \in 1..ncv : lines[k].slope \in Int /\ lines[k].offset \in Int
  <2>1. \A k \in 1..ncv : lines[k] \in Line
    BY <1>1
  <2> QED  BY <2>1 DEF Line
<1>3. /\ Slopes = [k \in 1..ncv |-> lines[k].slope] /\ Offsets = [k \in 1..ncv |-> lines[k].offset]
  BY <1>1 DEF Slopes, Offsets
<1>4. AreValues(Slopes, ncv) /\ AreValues(Offsets, ncv)
  BY <1>2, <1>3 DEF AreValues
<1>5. DOMAIN SlopeCounts = Range(Slopes) /\ DOMAIN OffsetCounts = Range(Offsets)
  BY <1>1, <1>4, CountFacts DEF SlopeCounts, OffsetCounts
<1>6. ASSUME NEW l \in Range(lines) PROVE l.slope \in Range(Slopes) /\ l.offset \in Range(Offsets)
  <2>1. PICK k \in 1..ncv : l = lines[k]
    BY <1>1 DEF Range
  <2>2. k \in DOMAIN Slopes /\ k \in DOMAIN Offsets /\ Slopes[k] = l.slope /\ Offsets[k] = l.offset
    BY <1>3, <2>1
  <2> QED  BY <2>2 DEF Range
<1> QED  BY <1>1, <1>4, <1>5, <1>6

\* Both numbers are among those of four bits.
LEMMA NumbersFit ==
    ASSUME NEW v, NEW leftover
    PROVE  SlopeNumber(v, leftover) \in 0..NumBuckets-1 /\ OffsetNumber(v, leftover) \in 0..NumBuckets-1
  BY FewbitInRange, ValenceStoreAssumption DEF SlopeNumber, OffsetNumber

\* A line of so_compressed.out is a sequence of at most as many numbers.
LEMMA SoLineFits ==
    ASSUME NEW n \in Nat, NEW values, AreValues(values, n), NEW special \in Int, NEW b,
           NEW entry, NEW share \in Nat, NEW leftover, leftover = Entering(entry, share)
    PROVE  LET count == Counts(values)
               bs == Buckets(Ladder(count, special), b, n, leftover)
               tokens == SoLine(count, special, bs)
           IN /\ tokens \in Seq(Int) /\ Len(tokens) <= NumBuckets
              /\ special \in DOMAIN count =>
                    /\ Len(tokens) = Len(bs) + 1 /\ tokens[1] = special
                    /\ \A k \in 1..Len(bs) : tokens[k+1] = bs[k].value
<1> DEFINE count == Counts(values)
           ladder == Ladder(count, special)
           bs == Buckets(ladder, b, n, leftover)
           tokens == SoLine(count, special, bs)
           front == IF special \in DOMAIN count THEN <<special>> ELSE <<>>
           back == [k \in DOMAIN bs |-> bs[k].value]
<1>0. NumBuckets \in Nat \ {0, 1, 2}
  BY ValenceStoreAssumption
<1>1. PICK r : Descends(ladder, r)
  BY LadderDescends
<1>2. PICK w : AddsUp(w, ladder, n)
  BY LadderAddsUp
<1> HIDE DEF ladder
<1>3. ladder \in Seq(Entry)
  BY <1>1 DEF Descends
<1>4. bs \in Seq(BucketsOf(ladder, leftover)) /\ Len(bs) <= NumBuckets - 1
      /\ (Len(ladder) > 0 => \E e : CutAt(bs, e, ladder, leftover))
  BY <1>0, <1>2, <1>3, BucketsFacts
<1> HIDE DEF bs
<1>5. DOMAIN bs = 1..Len(bs) /\ Len(bs) \in Nat
  BY <1>4
<1>6. ASSUME NEW k \in 1..Len(bs) PROVE bs[k].value \in Int
  <2>1. Len(ladder) > 0
    <3>1. bs[k] \in BucketsOf(ladder, leftover)
      BY <1>4, <1>6
    <3>2. 1..Len(ladder) # {}
      BY <3>1 DEF BucketsOf
    <3>3. Len(ladder) \in Nat
      BY <1>3
    <3> QED  BY <3>2, <3>3
  <2>2. PICK e : CutAt(bs, e, ladder, leftover)
    BY <1>4, <2>1
  <2>3. k - 1 \in 0..Len(bs) /\ k \in 0..Len(bs)
    BY <1>5
  <2>4. e[k-1] \in 1..Len(ladder) /\ e[k] \in 1..Len(ladder) /\ e[k-1] <= e[k]
        /\ bs[k] = Bucket(ladder, e[k-1], e[k], Later(leftover, k - 1))
    BY <2>2, <2>3 DEF CutAt
  <2>5. Len(ladder) \in Nat
    BY <1>3
  <2>6. PICK f \in Nat \ {0}, i \in Nat : f = e[k-1] /\ i = e[k] /\ f <= i /\ i <= Len(ladder)
    BY <2>4, <2>5
  <2>7. PICK later : later = Later(leftover, k - 1)
    OBVIOUS
  <2>8. later.share \in Nat
    BY <2>7, LaterShare
  <2>9. Bucket(ladder, f, i, later).value \in Int
    BY <1>1, <2>6, <2>8, BucketValue
  <2> QED  BY <2>4, <2>6, <2>7, <2>9
<1>7. back \in Seq(Int) /\ Len(back) = Len(bs) /\ \A k \in 1..Len(bs) : back[k] = bs[k].value
  BY <1>5, <1>6
<1> HIDE DEF back
<1>8. /\ front \in Seq(Int) /\ Len(front) = IF special \in DOMAIN count THEN 1 ELSE 0
      /\ special \in DOMAIN count => front[1] = special
  OBVIOUS
<1> HIDE DEF front
<1>9. tokens = front \o back
  BY DEF SoLine, front, back
<1> HIDE DEF tokens, count
<1>10. /\ tokens \in Seq(Int) /\ Len(tokens) = Len(front) + Len(back)
       /\ \A i \in 1..Len(front)+Len(back) :
             tokens[i] = IF i <= Len(front) THEN front[i] ELSE back[i - Len(front)]
  BY <1>7, <1>8, <1>9, ConcatProperties
<1>11. Len(tokens) <= NumBuckets
  BY <1>0, <1>4, <1>5, <1>7, <1>8, <1>10
<1>12. ASSUME special \in DOMAIN count
       PROVE  /\ Len(tokens) = Len(bs) + 1 /\ tokens[1] = special
              /\ \A k \in 1..Len(bs) : tokens[k+1] = bs[k].value
  <2>1. Len(front) = 1
    BY <1>8, <1>12
  <2>2. tokens[1] = front[1] /\ \A k \in 1..Len(back) : tokens[k+1] = back[k]
    <3>1. Len(back) \in Nat /\ \A k \in 1..Len(back) : k + 1 \in 1..1+Len(back) /\ ~(k + 1 <= 1) /\ k + 1 - 1 = k
      BY <1>5, <1>7
    <3>2. 1 \in 1..1+Len(back)
      BY <3>1
    <3> QED  BY <1>10, <2>1, <3>1, <3>2
  <2> QED  BY <1>5, <1>7, <1>8, <1>10, <1>12, <2>1, <2>2
<1>13. tokens \in Seq(Int) /\ Len(tokens) <= NumBuckets
  BY <1>10, <1>11
<1> QED  BY <1>12, <1>13 DEF tokens, count, bs, ladder

TinyTables == [slopes : [0..NumBuckets-1 -> Int], offsets : [0..NumBuckets-1 -> Int]]

EntryFits(a)     == \E l \in Range(lines) : a.x = l.x /\ a.y = SetElt(l.y) /\ CodeFits(a.so, l)
BeastFits(store, n) == \A k \in 1..ncv : k <= n => CodeFits(store[k-1].so, lines[k])
DsFits(store, n)    == \A k \in 1..ncv : YPlace(k) \in 0..n-1 => CodeFits(store[YPlace(k)].so, lines[k])
AreTokens(tokens)   == ncv > 0 /\ \E leftover \in Leftovers : tokens = TokensOf(leftover)
IsRead(table, tokens) == \A k \in 0..NumBuckets-1 : k < Len(tokens) => table[k] = tokens[k+1]

CodesInv ==
    /\ step = "fill" => \E leftover \in Leftovers : few = FewOf(leftover)
    /\ disk.so = NoFile \/ AreTokens(disk.so)
    /\ (step # "start" \/ prog \in {"-d", "-b"}) => AreTokens(disk.so)
    /\ (step = "fill" /\ prog = "-c") => BeastFits(bb, at)
    /\ prog \in {"-d", "-b"} => BeastFits(disk.bb, ncv)
    /\ (step = "fill" /\ prog = "-d") => \A k \in 0..at-1 : EntryFits(array[k])
    /\ step \in {"sort", "copy"} => \A k \in 0..ncv-1 : EntryFits(array[k])
    /\ step = "copy" => DsFits(bb_ds, at)
    /\ prog = "-b" => DsFits(disk.ds, ncv)
    /\ step = "live" => /\ BeastFits(bb, ncv) /\ DsFits(bb_ds, ncv)
                        /\ IsRead(tiny.slopes, disk.so.slopes) /\ IsRead(tiny.offsets, disk.so.offsets)
    /\ tiny \in TinyTables

LEMMA SameCodes ==
    ASSUME file' = file
    PROVE  /\ ncv' = ncv /\ lines' = lines
           /\ \A a : EntryFits(a)' <=> EntryFits(a)
           /\ \A store, n : (BeastFits(store, n)' <=> BeastFits(store, n)) /\ (DsFits(store, n)' <=> DsFits(store, n))
           /\ \A tokens : AreTokens(tokens)' <=> AreTokens(tokens)
           /\ \A leftover : FewOf(leftover)' = FewOf(leftover)
<1>1. lines' = lines /\ ncv' = ncv
  BY DEF lines, ncv
<1>2. /\ SlopeCounts' = SlopeCounts /\ OffsetCounts' = OffsetCounts
      /\ SlopeShares' = SlopeShares /\ OffsetShares' = OffsetShares
  BY <1>1 DEF SlopeCounts, OffsetCounts, Slopes, Offsets, SlopeShares, OffsetShares
<1>3. \A leftover : /\ SlopeBucketsOf(leftover)' = SlopeBucketsOf(leftover)
                    /\ OffsetBucketsOf(leftover)' = OffsetBucketsOf(leftover)
  BY <1>1, <1>2 DEF SlopeBucketsOf, OffsetBucketsOf, SlopeStart, OffsetStart
<1>4. \A v, leftover : /\ SlopeNumber(v, leftover)' = SlopeNumber(v, leftover)
                       /\ OffsetNumber(v, leftover)' = OffsetNumber(v, leftover)
  BY <1>2, <1>3 DEF SlopeNumber, OffsetNumber, TakenFirst, SlopeStart, OffsetStart
<1>5. /\ \A leftover : FewOf(leftover)' = FewOf(leftover) /\ TokensOf(leftover)' = TokensOf(leftover)
      /\ \A l, leftover : CodeOf(l, leftover)' = CodeOf(l, leftover)
  BY <1>2, <1>3, <1>4 DEF FewOf, TokensOf, CodeOf
<1>6. \A so, l : CodeFits(so, l)' <=> CodeFits(so, l)
  BY <1>5 DEF CodeFits
<1>7. \A k : YPlace(k)' = YPlace(k)
  BY <1>1 DEF YPlace, YPairs, RankIn, Smaller
<1>8. \A tokens : AreTokens(tokens)' <=> AreTokens(tokens)
  BY <1>1, <1>5 DEF AreTokens
<1>9. \A a : EntryFits(a)' <=> EntryFits(a)
  BY <1>1, <1>6 DEF EntryFits, SetElt
<1>10. \A store, n : (BeastFits(store, n)' <=> BeastFits(store, n)) /\ (DsFits(store, n)' <=> DsFits(store, n))
  BY <1>1, <1>6, <1>7 DEF BeastFits, DsFits
<1> QED  BY <1>1, <1>5, <1>8, <1>9, <1>10

\* What a line's values were counted as is its code.
LEMMA FewIsCode ==
    ASSUME file \in Files, NEW leftover \in Leftovers, few = FewOf(leftover), NEW l \in Range(lines)
    PROVE  CodeFits([s |-> few.s[l.slope], o |-> few.o[l.offset]], l)
<1>1. l.slope \in DOMAIN SlopeCounts /\ l.offset \in DOMAIN OffsetCounts
  BY ValuesOfLines
<1>2. few.s[l.slope] = SlopeNumber(l.slope, leftover) /\ few.o[l.offset] = OffsetNumber(l.offset, leftover)
  BY <1>1 DEF FewOf
<1> QED  BY <1>2 DEF CodeFits, CodeOf

\* There is an entry of the slopes, and with it a share.
LEMMA SlopesLeaveAShare ==
    ASSUME file \in Files, ncv > 0 PROVE LastShare(Ladder(SlopeCounts, SpecialSlope)) \in Nat
<1> DEFINE ladder == Ladder(SlopeCounts, SpecialSlope)
           R == Cardinality(Rest(SlopeCounts, SpecialSlope))
<1>1. ncv \in Nat /\ AreValues(Slopes, ncv)
  BY ValuesOfLines
<1>2. /\ DOMAIN SlopeCounts = Range(Slopes) /\ IsFiniteSet(Range(Slopes)) /\ Range(Slopes) \subseteq Int
      /\ \A v \in Range(Slopes) : SlopeCounts[v] \in Nat
  BY <1>1, CountFacts DEF SlopeCounts
<1>3. Range(Slopes) # {}
  <2>1. 1 \in DOMAIN Slopes
    BY <1>1 DEF AreValues
  <2> QED  BY <2>1 DEF Range
<1>4. /\ R \in Nat /\ ladder \in Seq(Entry)
      /\ Len(ladder) = IF SpecialSlope \in DOMAIN SlopeCounts THEN R + 1 ELSE R
  BY <1>2, LadderFacts
<1>5. SpecialSlope \notin DOMAIN SlopeCounts => R # 0
  <2>1. ASSUME SpecialSlope \notin DOMAIN SlopeCounts PROVE Rest(SlopeCounts, SpecialSlope) = Range(Slopes)
    BY <1>2, <2>1 DEF Rest
  <2> QED  BY <1>2, <1>3, <2>1, FS_EmptySet
<1> HIDE DEF ladder, R
<1>6. Len(ladder) \in 1..Len(ladder)
  BY <1>4, <1>5
<1>7. ladder[Len(ladder)] \in Entry
  BY <1>4, <1>6
<1> QED  BY <1>7 DEF LastShare, Entry, ladder

LEMMA TokensAreNumbers ==
    ASSUME file \in Files, NEW tokens, AreTokens(tokens)
    PROVE  /\ tokens.slopes \in Seq(Int) /\ Len(tokens.slopes) <= NumBuckets
           /\ tokens.offsets \in Seq(Int) /\ Len(tokens.offsets) <= NumBuckets
<1>1. PICK leftover \in Leftovers : tokens = TokensOf(leftover) /\ ncv > 0
  BY DEF AreTokens
<1>2. /\ tokens.slopes = SoLine(SlopeCounts, SpecialSlope, SlopeBucketsOf(leftover))
      /\ tokens.offsets = SoLine(OffsetCounts, SpecialOffset, OffsetBucketsOf(leftover))
  BY <1>1 DEF TokensOf
<1>3. SpecialSlope \in Int /\ SpecialOffset \in Int /\ ncv \in Nat /\ AreValues(Slopes, ncv) /\ AreValues(Offsets, ncv)
  BY ValuesOfLines DEF SpecialSlope, SpecialOffset
<1>4. tokens.slopes \in Seq(Int) /\ Len(tokens.slopes) <= NumBuckets
  BY <1>2, <1>3, SoLineFits DEF SlopeCounts, SlopeBucketsOf, SlopeStart
<1>5. tokens.offsets \in Seq(Int) /\ Len(tokens.offsets) <= NumBuckets
  <2>1. LastShare(Ladder(SlopeCounts, SpecialSlope)) \in Nat
    BY <1>1, SlopesLeaveAShare
  <2> QED  BY <1>2, <1>3, <2>1, SoLineFits DEF OffsetCounts, OffsetBucketsOf, OffsetStart
<1> QED  BY <1>4, <1>5

LEMMA ReadTable ==
    ASSUME NEW table \in [0..NumBuckets-1 -> Int], NEW tokens \in Seq(Int)
    PROVE  ReadTokens(table, tokens) \in [0..NumBuckets-1 -> Int] /\ IsRead(ReadTokens(table, tokens), tokens)
<1>1. ReadTokens(table, tokens)
         = [k \in 0..NumBuckets-1 |-> IF k < Len(tokens) THEN tokens[k+1] ELSE table[k]]
  BY DEF ReadTokens
<1>2. \A k \in 0..NumBuckets-1 : k < Len(tokens) => tokens[k+1] \in Int
  <2>1. Len(tokens) \in Nat /\ \A i \in 1..Len(tokens) : tokens[i] \in Int
    OBVIOUS
  <2>2. \A k \in 0..NumBuckets-1 : k < Len(tokens) => k + 1 \in 1..Len(tokens)
    BY <2>1
  <2> QED  BY <2>1, <2>2
<1> QED  BY <1>1, <1>2 DEF IsRead

\* The sort moves entries, and takes none from elsewhere.
LEMMA SortMoves ==
    ASSUME SortInv, SortStep
    PROVE  \A k \in Places : \E j \in Places : array'[k] = array[j]
<1>1. CASE UNCHANGED array
  BY <1>1
<1>2. CASE Swap
  <2>1. PICK r \in DOMAIN array, l \in DOMAIN array :
            r < l /\ array' = [array EXCEPT ![r] = array[l], ![l] = array[r]]
    BY <1>2 DEF Swap
  <2>2. DOMAIN array = Places
    BY DEF SortInv, SortTypes
  <2>3. \A k \in Places : array'[k] = IF k = l THEN array[r] ELSE IF k = r THEN array[l] ELSE array[k]
    BY <2>1, <2>2
  <2> QED  BY <2>1, <2>2, <2>3
<1> QED  BY <1>1, <1>2 DEF SortStep, Pick, Parted, Unstack

LEMMA ReadLineCodes ==
    ASSUME CopyInv, StoreTypes, CodesInv, ReadLine
    PROVE  /\ prog = "-c" => BeastFits(bb', at + 1)
           /\ prog = "-d" => \A k \in 0..at : EntryFits(array'[k])
<1>1. step = "fill" /\ at < ncv /\ at \in Nat /\ ncv \in Nat /\ file \in Files /\ at \in 0..ncv-1
  BY FileFacts DEF CopyInv, ReadLine
<1> DEFINE l == lines[at+1]
           so == [s |-> few.s[l.slope], o |-> few.o[l.offset]]
<1>2. l \in Range(lines)
  BY <1>1, LineFacts
<1>3. CodeFits(so, l)
  <2>1. PICK leftover \in Leftovers : few = FewOf(leftover)
    BY <1>1 DEF CodesInv
  <2> HIDE DEF l
  <2> QED  BY <1>1, <1>2, <2>1, FewIsCode
<1> HIDE DEF so
<1>4. ASSUME prog = "-c" PROVE BeastFits(bb', at + 1)
  <2>1. bb' = Extended(bb, [elt |-> SetElt(l.y), so |-> so])
    BY <1>4 DEF ReadLine, so
  <2>2. \A k \in 0..at : bb'[k] = IF k = at THEN [elt |-> SetElt(l.y), so |-> so] ELSE bb[k]
    BY <2>1 DEF Extended
  <2>3. ASSUME NEW k \in 1..ncv, k <= at + 1 PROVE CodeFits(bb'[k-1].so, lines[k])
    <3>1. k - 1 \in 0..at /\ (k = at + 1 \/ k <= at)
      BY <1>1, <2>3
    <3>2. CASE k = at + 1
      <4>1. k - 1 = at
        BY <1>1, <3>2
      <4>2. bb'[k-1].so = so
        BY <2>2, <3>1, <4>1
      <4> QED  BY <1>3, <3>2, <4>2
    <3>3. CASE k # at + 1
      <4>1. k <= at /\ k - 1 # at
        BY <1>1, <3>1, <3>3
      <4>2. bb'[k-1] = bb[k-1]
        BY <2>2, <3>1, <4>1
      <4>3. BeastFits(bb, at)
        BY <1>1, <1>4 DEF CodesInv
      <4> QED  BY <4>1, <4>2, <4>3 DEF BeastFits
    <3> QED  BY <3>2, <3>3
  <2> QED  BY <2>3 DEF BeastFits
<1>5. ASSUME prog = "-d" PROVE \A k \in 0..at : EntryFits(array'[k])
  <2> DEFINE v == [x |-> l.x, y |-> SetElt(l.y), so |-> so]
  <2>1. array' = Extended(array, v)
    BY <1>5 DEF ReadLine, so
  <2>2. \A k \in 0..at : array'[k] = IF k = at THEN v ELSE array[k]
    BY <2>1 DEF Extended
  <2>3. EntryFits(v)
    <3>1. v.x = l.x /\ v.y = SetElt(l.y) /\ v.so = so
      OBVIOUS
    <3> HIDE DEF v, l
    <3> QED  BY <1>2, <1>3, <3>1 DEF EntryFits
  <2>4. \A k \in 0..at-1 : EntryFits(array[k])
    BY <1>1, <1>5 DEF CodesInv
  <2>5. \A k \in 0..at : k # at => k \in 0..at-1
    BY <1>1
  <2> HIDE DEF v
  <2> QED  BY <2>2, <2>3, <2>4, <2>5
<1> QED  BY <1>4, <1>5

LEMMA CopyValenceCodes ==
    ASSUME IdsFit, CopyInv, StoreTypes, CodesInv, CopyValence
    PROVE  DsFits(bb_ds', at + 1)
<1>1. step = "copy" /\ at < ncv /\ at \in Nat /\ ncv \in Nat /\ file \in Files /\ at \in 0..ncv-1
  BY FileFacts DEF CopyInv, CopyValence
<1>2. OrderedAs(CopyY, CopyX, YPairs, ncv, file.num_elts)
  BY <1>1, CopyOrdered
<1> DEFINE v == [elt |-> array[at].x, so |-> array[at].so]
<1>3. bb_ds' = Extended(bb_ds, v)
  BY DEF CopyValence
<1>4. \A k \in 0..at : bb_ds'[k] = IF k = at THEN v ELSE bb_ds[k]
  BY <1>3 DEF Extended
<1>5. DsFits(bb_ds, at) /\ EntryFits(array[at])
  BY <1>1 DEF CodesInv
<1>6. ASSUME NEW k \in 1..ncv, YPlace(k) = at PROVE CodeFits(array[at].so, lines[k])
  <2>1. CopyY[at] = lines[k].y /\ CopyX[at] = lines[k].x
    BY <1>1, <1>2, <1>6, YPlaceIs
  <2>2. array[at].y = lines[k].y /\ array[at].x = lines[k].x
    BY <1>1, <2>1 DEF CopyX, CopyY
  <2>3. PICK l \in Range(lines) : array[at].x = l.x /\ array[at].y = SetElt(l.y) /\ CodeFits(array[at].so, l)
    BY <1>5 DEF EntryFits
  <2>4. SetElt(l.y) = l.y
    BY <1>1, EltsFit
  <2>5. PICK i \in 0..ncv-1 : l = lines[i+1]
    BY <1>1, LineFacts
  <2>6. i + 1 \in 1..ncv
    BY <1>1
  <2>7. k = i + 1
    BY <1>1, <2>2, <2>3, <2>4, <2>5, <2>6, LinesDiffer
  <2> QED  BY <2>3, <2>5, <2>7
<1>7. ASSUME NEW k \in 1..ncv, YPlace(k) \in 0..(at+1)-1 PROVE CodeFits(bb_ds'[YPlace(k)].so, lines[k])
  <2>2. YPlace(k) \in 0..at
    BY <1>1, <1>7
  <2>3. CASE YPlace(k) = at
    BY <1>4, <1>6, <2>2, <2>3
  <2>4. CASE YPlace(k) # at
    <3>1. YPlace(k) \in 0..at-1
      BY <1>1, <2>2, <2>4
    <3>2. bb_ds'[YPlace(k)] = bb_ds[YPlace(k)]
      BY <1>4, <2>2, <2>4
    <3> QED  BY <1>5, <3>1, <3>2 DEF DsFits
  <2> QED  BY <2>3, <2>4
<1> QED  BY <1>7 DEF DsFits

LEMMA NextKeepsCodesInv ==
    ASSUME IdsFit, CopyInv, StoreTypes, CodesInv, [StoreNext]_<<storeVars, sortVars>> PROVE CodesInv'
<1>1. file \in Files /\ at \in 0..ncv /\ at \in Nat /\ ncv \in Nat
  BY FileFacts DEF CopyInv
<1>2. file' = file
  BY FileStays
<1>3. /\ ncv' = ncv /\ lines' = lines
      /\ \A a : EntryFits(a)' <=> EntryFits(a)
      /\ \A store, n : (BeastFits(store, n)' <=> BeastFits(store, n)) /\ (DsFits(store, n)' <=> DsFits(store, n))
      /\ \A tokens : AreTokens(tokens)' <=> AreTokens(tokens)
      /\ \A leftover : FewOf(leftover)' = FewOf(leftover)
  BY <1>2, SameCodes
<1>4. prog \in {"-c", "-d", "-b", "failed"} /\ IsDisk(disk) /\ (step \in {"sort", "copy"} => prog \in {"-d", "failed"})
      /\ (step = "live" => prog = "-b") /\ (prog = "-b" => step \in {"start", "live"})
  BY DEF StoreTypes
<1>5. CASE Refuse \/ Wrecked \/ UNCHANGED <<storeVars, sortVars>>
  <2>1. /\ UNCHANGED <<disk, step, at, few, bb, bb_ds, tiny, array>>
        /\ \/ prog' = prog
           \/ prog = "-c" /\ prog' = "failed" /\ step = "start"
           \/ prog = "-d" /\ prog' = "failed"
    BY <1>5 DEF Refuse, Wrecked, storeVars, sortVars
  <2> QED  BY <1>3, <2>1 DEF CodesInv, IsRead, TinyTables
<1>6. CASE FirstPass
  <2>1. /\ prog \in {"-c", "-d"} /\ step = "start" /\ step' = "fill" /\ prog' = prog /\ at' = 0 /\ tiny' = tiny
        /\ ncv > 0
    BY <1>6 DEF FirstPass
  <2>2. PICK leftover \in Leftovers : few' = FewOf(leftover) /\ disk' = [disk EXCEPT !.so = TokensOf(leftover)]
    BY <1>6, FirstPassIs
  <2>3. disk'.so = TokensOf(leftover) /\ disk'.bb = disk.bb
    BY <1>4, <2>2, PutSo
  <2>4. AreTokens(disk'.so)
    BY <2>1, <2>3 DEF AreTokens
  <2>5. BeastFits(bb', 0) /\ 0..0-1 = {}
    BY <1>1 DEF BeastFits
  <2> QED  BY <1>3, <2>1, <2>2, <2>3, <2>4, <2>5 DEF CodesInv, TinyTables
<1>7. CASE ReadLine
  <2>1. /\ step = "fill" /\ at' = at + 1 /\ UNCHANGED <<prog, step, disk, few, bb_ds, tiny>>
        /\ at' - 1 = at
    BY <1>1, <1>7 DEF ReadLine
  <2>2. /\ prog = "-c" => BeastFits(bb', at + 1)
        /\ prog = "-d" => \A k \in 0..at : EntryFits(array'[k])
    BY <1>7, ReadLineCodes
  <2> QED  BY <1>3, <1>4, <2>1, <2>2 DEF CodesInv, TinyTables
<1>8. CASE ExportBeast
  <2>1. /\ prog = "-c" /\ step = "fill" /\ at = ncv /\ prog' = "-d" /\ step' = "start" /\ tiny' = tiny
        /\ disk' = [disk EXCEPT !.bb = bb, !.seg = Exported(bind_seg)]
    BY <1>8 DEF ExportBeast
  <2>2. disk'.bb = bb /\ disk'.so = disk.so
    BY <1>4, <2>1, PutBeast
  <2> QED  BY <1>3, <2>1, <2>2 DEF CodesInv, TinyTables
<1>9. CASE SortCopy
  <2>1. /\ prog = "-d" /\ step = "fill" /\ at = ncv /\ step' = "sort" /\ UNCHANGED <<prog, disk, tiny, array>>
    BY <1>9 DEF SortCopy, BeginSort
  <2> QED  BY <1>3, <2>1 DEF CodesInv, TinyTables
<1>10. CASE Sort
  <2>1. step = "sort" /\ SortStep /\ UNCHANGED <<step, prog, disk, tiny>>
    BY <1>10 DEF Sort, storeVars
  <2>2. SortInv /\ Places = 0..ncv-1
    BY <2>1 DEF CopyInv, Places
  <2>3. \A k \in 0..ncv-1 : EntryFits(array[k])
    BY <2>1 DEF CodesInv
  <2>4. \A k \in 0..ncv-1 : EntryFits(array'[k])
    <3>1. \A k \in 0..ncv-1 : \E j \in 0..ncv-1 : array'[k] = array[j]
      BY <2>1, <2>2, SortMoves
    <3> QED  BY <2>3, <3>1
  <2> QED  BY <1>3, <1>4, <2>1, <2>4 DEF CodesInv, TinyTables
<1>11. CASE Sorted
  <2>1. step = "sort" /\ step' = "copy" /\ at' = 0 /\ UNCHANGED <<prog, disk, tiny, array>>
    BY <1>11 DEF Sorted, EndSort
  <2>2. DsFits(bb_ds', 0)
    <3>1. 0..0-1 = {}
      OBVIOUS
    <3> QED  BY <3>1 DEF DsFits
  <2> QED  BY <1>3, <1>4, <2>1, <2>2 DEF CodesInv, TinyTables
<1>12. CASE CopyValence
  <2>1. step = "copy" /\ at' = at + 1 /\ UNCHANGED <<prog, step, disk, tiny, array>>
    BY <1>12 DEF CopyValence, sortVars
  <2>2. DsFits(bb_ds', at + 1)
    BY <1>12, CopyValenceCodes
  <2> QED  BY <1>3, <1>4, <2>1, <2>2 DEF CodesInv, TinyTables
<1>13. CASE ExportDs
  <2>1. /\ step = "copy" /\ at = ncv /\ prog = "-d" /\ prog' = "-b" /\ step' = "start" /\ tiny' = tiny
        /\ disk' = [disk EXCEPT !.ds = bb_ds, !.seg_ds = bind_seg_ds]
    BY <1>13 DEF ExportDs
  <2>2. disk'.bb = disk.bb /\ disk'.ds = bb_ds /\ disk'.so = disk.so
    BY <1>4, <2>1, PutDs
  <2> QED  BY <1>3, <1>4, <2>1, <2>2 DEF CodesInv, TinyTables
<1>14. CASE Load
  <2>1. /\ prog = "-b" /\ step' = "live" /\ UNCHANGED <<prog, disk>>
        /\ bb' = disk.bb /\ bb_ds' = disk.ds
        /\ tiny' = [slopes |-> ReadTokens(tiny.slopes, disk.so.slopes),
                    offsets |-> ReadTokens(tiny.offsets, disk.so.offsets)]
    BY <1>14 DEF Load
  <2>2. AreTokens(disk.so) /\ tiny \in TinyTables /\ BeastFits(disk.bb, ncv) /\ DsFits(disk.ds, ncv)
    BY <2>1 DEF CodesInv
  <2>3. disk.so.slopes \in Seq(Int) /\ disk.so.offsets \in Seq(Int)
    BY <1>1, <2>2, TokensAreNumbers
  <2>4. /\ ReadTokens(tiny.slopes, disk.so.slopes) \in [0..NumBuckets-1 -> Int]
        /\ IsRead(ReadTokens(tiny.slopes, disk.so.slopes), disk.so.slopes)
        /\ ReadTokens(tiny.offsets, disk.so.offsets) \in [0..NumBuckets-1 -> Int]
        /\ IsRead(ReadTokens(tiny.offsets, disk.so.offsets), disk.so.offsets)
    <3>1. tiny.slopes \in [0..NumBuckets-1 -> Int] /\ tiny.offsets \in [0..NumBuckets-1 -> Int]
      BY <2>2 DEF TinyTables
    <3> QED  BY <2>3, <3>1, ReadTable
  <2>5. /\ tiny' \in TinyTables
        /\ IsRead(tiny'.slopes, disk.so.slopes) /\ IsRead(tiny'.offsets, disk.so.offsets)
    BY <2>1, <2>4 DEF TinyTables
  <2> QED  BY <1>3, <2>1, <2>2, <2>5 DEF CodesInv, TinyTables, IsRead
<1> QED  BY <1>5, <1>6, <1>7, <1>8, <1>9, <1>10, <1>11, <1>12, <1>13, <1>14 DEF StoreNext

LEMMA InitHasCodesInv == StoreInit => CodesInv
<1> SUFFICES ASSUME StoreInit PROVE CodesInv
  OBVIOUS
<1>1. prog = "-c" /\ step = "start" /\ disk.so = NoFile
  BY DEF StoreInit
<1>2. tiny \in TinyTables
  BY DEF StoreInit, TinyTables
<1> QED  BY <1>1, <1>2 DEF CodesInv

HitsIn(found, e)     == {k \in DOMAIN found : found[k].elt = e}
OnlyHit(found, e, v) == \E k \in DOMAIN found : HitsIn(found, e) = {k} /\ found[k] = v

\* In the entries found for an id there is one for the pair of the id and the
\* element, from the place of the pair in the store, and no other.
LEMMA Hits ==
    ASSUME NEW n \in Nat, NEW pairs, NEW elts, NEW store, NEW seg \in Bind(Ids),
           StoreOf(store, seg, pairs, n, elts, Ids), NEW id \in Ids, NEW e
    PROVE  /\ DOMAIN Found(store, seg, id) = 1..seg[id].count
           /\ <<id, e>> \in pairs =>
                 OnlyHit(Found(store, seg, id), e, store[RankIn(pairs, <<id, e>>)])
           /\ <<id, e>> \notin pairs => HitsIn(Found(store, seg, id), e) = {}
<1> DEFINE found == Found(store, seg, id)
           c == seg[id].count
           off == seg[id].offset
           hits == HitsIn(found, e)
<1>0. PICK major, minor : OrderedAs(major, minor, pairs, n, elts) /\ Indexes(store, seg, major, minor, n, Ids)
  BY DEF StoreOf
<1> DEFINE places == PlacesIn(major, n, id)
<1>1. ReadsPlaces(found, store, seg[id], places)
  <2>1. Segment(seg[id], places)
    BY <1>0 DEF Indexes
  <2>2. seg[id].count \in Nat
    BY DEF Bind
  <2> HIDE DEF places
  <2> QED  BY <2>1, <2>2, FoundIs
<1> HIDE DEF found
<1>2. /\ DOMAIN found = 1..c
      /\ \A k \in 1..c : found[k] = store[off + k - 1] /\ off + k - 1 \in places /\ off \in Nat
      /\ \A p \in places : \E k \in 1..c : p = off + k - 1
  BY <1>1 DEF ReadsPlaces
<1>3. \A p \in places : p \in 0..n-1 /\ major[p] = id /\ store[p].elt = minor[p]
  BY <1>0 DEF PlacesIn, Indexes
<1>4. \A p \in 0..n-1 : major[p] = id => p \in places
  BY DEF PlacesIn
<1>5. \A p \in 0..n-1 : /\ major[p] = id /\ minor[p] = e => p = RankIn(pairs, <<id, e>>)
                        /\ <<major[p], minor[p]>> \in pairs
  <2> SUFFICES ASSUME NEW p \in 0..n-1
               PROVE  /\ major[p] = id /\ minor[p] = e => p = RankIn(pairs, <<id, e>>)
                      /\ <<major[p], minor[p]>> \in pairs
    OBVIOUS
  <2>1. RankIn(pairs, <<major[p], minor[p]>>) = p
    BY <1>0, RankIs
  <2>2. <<major[p], minor[p]>> \in pairs
    BY <1>0 DEF OrderedAs
  <2> QED  BY <2>1, <2>2
<1> HIDE DEF places, off
<1>6. ASSUME NEW k \in hits
      PROVE  \E p \in 0..n-1 : /\ major[p] = id /\ minor[p] = e /\ p = off + k - 1
                               /\ k \in 1..c /\ off \in Nat
  <2>1. k \in 1..c /\ found[k].elt = e
    BY <1>2 DEF HitsIn
  <2> QED  BY <1>2, <1>3, <2>1
<1>7. ASSUME <<id, e>> \in pairs
      PROVE  OnlyHit(found, e, store[RankIn(pairs, <<id, e>>)])
  <2>0. PICK p \in 0..n-1 : major[p] = id /\ minor[p] = e
    <3>1. PICK p \in 0..n-1 : <<id, e>> = <<major[p], minor[p]>>
      BY <1>0, <1>7 DEF OrderedAs
    <3> QED  BY <3>1
  <2>1. PICK k \in 1..c : p = off + k - 1
    BY <1>2, <1>4, <2>0
  <2>2. found[k] = store[p] /\ store[p].elt = e /\ off \in Nat
    BY <1>2, <1>3, <1>4, <2>0, <2>1
  <2>3. ASSUME NEW j \in hits PROVE j = k
    <3>1. PICK q \in 0..n-1 : major[q] = id /\ minor[q] = e /\ q = off + j - 1 /\ j \in 1..c
      BY <1>6
    <3>2. q = p
      BY <1>5, <2>0, <3>1
    <3> QED  BY <2>1, <2>2, <3>1, <3>2
  <2>4. k \in DOMAIN found /\ k \in hits
    BY <1>2, <2>2 DEF HitsIn
  <2>5. hits = {k}
    BY <2>3, <2>4
  <2>6. p = RankIn(pairs, <<id, e>>)
    BY <1>5, <2>0
  <2> QED  BY <2>2, <2>4, <2>5, <2>6 DEF OnlyHit
<1>8. ASSUME <<id, e>> \notin pairs PROVE hits = {}
  BY <1>5, <1>6, <1>8
<1> QED  BY <1>2, <1>7, <1>8 DEF found

\* A line is found once in each copy.
LEMMA LineHits ==
    ASSUME file \in Files, bind_seg \in Bind(Ids), bind_seg_ds \in Bind(Ids),
           StoreOf(bb, bind_seg, XPairs, ncv, file.num_elts, Ids),
           StoreOf(bb_ds, bind_seg_ds, YPairs, ncv, file.num_elts, Ids), NEW k \in 1..ncv
    PROVE  LET l == lines[k]
           IN /\ DOMAIN Found(bb, bind_seg, l.x) = 1..bind_seg[l.x].count
              /\ DOMAIN Found(bb_ds, bind_seg_ds, l.y) = 1..bind_seg_ds[l.y].count
              /\ OnlyHit(Found(bb, bind_seg, l.x), l.y, bb[k-1])
              /\ OnlyHit(Found(bb_ds, bind_seg_ds, l.y), l.x, bb_ds[YPlace(k)])
<1> DEFINE l == lines[k]
<1>1. ncv \in Nat /\ l \in Range(lines) /\ l.x \in Ids /\ l.y \in Ids
  <2>1. l.x < l.y /\ l.y < file.num_elts /\ l.x \in Nat /\ l.y \in Nat /\ file.num_elts \in Nat
    BY FileLines, FileFacts
  <2>2. DOMAIN lines = 1..ncv /\ ncv \in Nat
    BY FileFacts
  <2> QED  BY <2>1, <2>2 DEF Ids, Range
<1>2. <<l.x, l.y>> \in XPairs /\ <<l.y, l.x>> \in YPairs
  BY <1>1 DEF XPairs, YPairs
<1>3. RankIn(XPairs, <<l.x, l.y>>) = k - 1 /\ RankIn(YPairs, <<l.y, l.x>>) = YPlace(k)
  BY LineRank DEF YPlace
<1> HIDE DEF l
<1>4. DOMAIN Found(bb, bind_seg, l.x) = 1..bind_seg[l.x].count /\ OnlyHit(Found(bb, bind_seg, l.x), l.y, bb[k-1])
  BY <1>1, <1>2, <1>3, Hits
<1>5. /\ DOMAIN Found(bb_ds, bind_seg_ds, l.y) = 1..bind_seg_ds[l.y].count
      /\ OnlyHit(Found(bb_ds, bind_seg_ds, l.y), l.x, bb_ds[YPlace(k)])
  BY <1>1, <1>2, <1>3, Hits
<1> QED  BY <1>4, <1>5 DEF l

LEMMA CodesAre ==
    ASSUME CopyInv, StoreTypes, StoreInv, step = "live", NEW k \in 1..ncv
    PROVE  Codes(lines[k]) = {bb[k-1].so, bb_ds[YPlace(k)].so}
<1> DEFINE l == lines[k]
           inX == Found(bb, bind_seg, l.x)
           inY == Found(bb_ds, bind_seg_ds, l.y)
<1>1. /\ file \in Files /\ bind_seg \in Bind(Ids) /\ bind_seg_ds \in Bind(Ids)
      /\ StoreOf(bb, bind_seg, XPairs, ncv, file.num_elts, Ids)
      /\ StoreOf(bb_ds, bind_seg_ds, YPairs, ncv, file.num_elts, Ids)
  BY DEF CopyInv, StoreTypes, StoreInv
<1>2. /\ DOMAIN inX = 1..bind_seg[l.x].count /\ DOMAIN inY = 1..bind_seg_ds[l.y].count
      /\ OnlyHit(inX, l.y, bb[k-1]) /\ OnlyHit(inY, l.x, bb_ds[YPlace(k)])
  BY <1>1, LineHits
<1>3. Codes(l) = {inX[i].so : i \in {i \in 1..bind_seg[l.x].count : inX[i].elt = l.y}}
                 \cup {inY[i].so : i \in {i \in 1..bind_seg_ds[l.y].count : inY[i].elt = l.x}}
  BY DEF Codes
<1> HIDE DEF inX, inY, l
<1>4. {inX[i].so : i \in {i \in 1..bind_seg[l.x].count : inX[i].elt = l.y}} = {bb[k-1].so}
  BY <1>2 DEF OnlyHit, HitsIn
<1>5. {inY[i].so : i \in {i \in 1..bind_seg_ds[l.y].count : inY[i].elt = l.x}} = {bb_ds[YPlace(k)].so}
  BY <1>2 DEF OnlyHit, HitsIn
<1>6. Codes(l) = {bb[k-1].so, bb_ds[YPlace(k)].so}
  BY <1>3, <1>4, <1>5
<1> QED  BY <1>6 DEF l

\* All codes of a line were made by some pass.
LEMMA CodesFit ==
    ASSUME CopyInv, StoreTypes, StoreInv, CodesInv, step = "live", NEW l \in Range(lines)
    PROVE  Codes(l) # {} /\ \A c \in Codes(l) : CodeFits(c, l)
<1>1. file \in Files /\ ncv \in Nat /\ DOMAIN lines = 1..ncv
  BY FileFacts DEF CopyInv
<1>2. PICK k \in 1..ncv : l = lines[k]
  BY <1>1 DEF Range
<1>3. Codes(l) = {bb[k-1].so, bb_ds[YPlace(k)].so}
  BY <1>2, CodesAre
<1>4. CodeFits(bb[k-1].so, l)
  BY <1>1, <1>2 DEF CodesInv, BeastFits
<1>5. CodeFits(bb_ds[YPlace(k)].so, l)
  <2>1. YPlace(k) \in 0..ncv-1
    <3>1. StoreOf(bb_ds, bind_seg_ds, YPairs, ncv, file.num_elts, Ids)
      BY DEF StoreInv
    <3> QED  BY <1>1, <3>1, YPlaceIs DEF StoreOf
  <2> QED  BY <1>2, <2>1 DEF CodesInv, DsFits
<1> QED  BY <1>3, <1>4, <1>5

LEMMA TheMostFrequent ==
    ASSUME NEW n \in Nat, NEW values, AreValues(values, n), NEW special, StrictlyMostFrequent(special, values)
    PROVE  /\ special \in DOMAIN Counts(values)
           /\ \A v : v = (CHOOSE w \in MostFrequent(Counts(values)) : TRUE) <=> v = special
<1> DEFINE count == Counts(values)
<1>1. /\ DOMAIN count = Range(values)
      /\ \A v \in DOMAIN count : count[v] \in Nat
  BY CountFacts
<1>2. special \in DOMAIN count /\ \A w \in DOMAIN count : w # special => count[w] < count[special]
  BY <1>1 DEF StrictlyMostFrequent
<1> HIDE DEF count
<1>3. special \in MostFrequent(count)
  <2>1. \A w \in DOMAIN count : count[w] <= count[special]
    <3> SUFFICES ASSUME NEW w \in DOMAIN count PROVE count[w] <= count[special]
      OBVIOUS
    <3>1. count[w] \in Nat /\ count[special] \in Nat
      BY <1>1, <1>2
    <3> QED  BY <1>2, <3>1
  <2> QED  BY <1>2, <2>1 DEF MostFrequent
<1>4. ASSUME NEW v \in MostFrequent(count) PROVE v = special
  <2>1. v \in DOMAIN count /\ count[special] <= count[v] /\ count[v] \in Nat /\ count[special] \in Nat
    BY <1>1, <1>2 DEF MostFrequent
  <2> QED  BY <1>2, <2>1
<1>5. (CHOOSE w \in MostFrequent(count) : TRUE) = special
  BY <1>3, <1>4
<1> QED  BY <1>2, <1>5 DEF count

LEMMA TokensFit ==
    ASSUME CopyInv, CodesInv PROVE BucketsFit
<1>1. file \in Files
  BY DEF CopyInv
<1>2. ASSUME disk.so # NoFile PROVE Len(disk.so.slopes) <= NumBuckets /\ Len(disk.so.offsets) <= NumBuckets
  <2>1. AreTokens(disk.so)
    BY <1>2 DEF CodesInv
  <2> QED  BY <1>1, <2>1, TokensAreNumbers
<1> QED  BY <1>2 DEF BucketsFit

\* What is taken for the special value is stored as number 0, and the first
\* number of the line is that value.
LEMMA ZeroIsExact ==
    ASSUME CopyInv, StoreTypes, StoreInv, CodesInv, step = "live" PROVE OffsetZeroIsExact
<1>1. file \in Files /\ AreTokens(disk.so) /\ IsRead(tiny.offsets, disk.so.offsets)
  BY DEF CopyInv, CodesInv, StoreTypes
<1>2. ncv \in Nat /\ AreValues(Slopes, ncv) /\ AreValues(Offsets, ncv)
  BY <1>1, ValuesOfLines
<1> SUFFICES ASSUME SpecialSlope \in Range(Slopes), StrictlyMostFrequent(SpecialOffset, Offsets),
                    NEW l \in Range(lines), l.offset = SpecialOffset, NEW c \in Codes(l)
             PROVE  tiny.offsets[c.o] = SpecialOffset
  BY DEF OffsetZeroIsExact
<1>3. SpecialSlope \in DOMAIN SlopeCounts
  BY <1>2, CountFacts DEF SlopeCounts
<1>4. SpecialOffset \in DOMAIN OffsetCounts /\ TakenFirst(SpecialOffset, OffsetCounts)
  BY <1>2, <1>3, TheMostFrequent DEF OffsetCounts, TakenFirst
<1>5. c.o = 0
  <2>1. PICK leftover \in Leftovers : c = CodeOf(l, leftover)
    <3>1. CodeFits(c, l)
      BY CodesFit
    <3> QED  BY <3>1 DEF CodeFits
  <2>2. c.o = OffsetNumber(SpecialOffset, leftover)
    BY <2>1 DEF CodeOf
  <2>3. OffsetNumber(SpecialOffset, leftover) = 0
    BY <1>4, FewbitInRange, ValenceStoreAssumption DEF OffsetNumber
  <2> QED  BY <2>2, <2>3
<1>6. Len(disk.so.offsets) > 0 /\ disk.so.offsets[1] = SpecialOffset
  <2>0. LastShare(Ladder(SlopeCounts, SpecialSlope)) \in Nat
    BY <1>1, SlopesLeaveAShare DEF AreTokens
  <2>1. PICK leftover \in Leftovers : disk.so = TokensOf(leftover)
    BY <1>1 DEF AreTokens
  <2> DEFINE tokens == SoLine(OffsetCounts, SpecialOffset, OffsetBucketsOf(leftover))
  <2>2. disk.so.offsets = tokens
    BY <2>1 DEF TokensOf
  <2>3. SpecialOffset \in Int
    BY DEF SpecialOffset
  <2>4. Len(tokens) = Len(OffsetBucketsOf(leftover)) + 1 /\ tokens[1] = SpecialOffset
    BY <1>2, <1>4, <2>0, <2>3, SoLineFits DEF OffsetCounts, OffsetBucketsOf, OffsetStart
  <2>5. tokens \in Seq(Int)
    BY <1>2, <2>0, <2>3, SoLineFits DEF OffsetCounts, OffsetBucketsOf, OffsetStart
  <2>6. Len(tokens) > 0
    <3>1. Len(OffsetBucketsOf(leftover)) \in Nat
      <4>1. PICK w : AddsUp(w, Ladder(OffsetCounts, SpecialOffset), ncv)
        BY <1>2, LadderAddsUp DEF OffsetCounts
      <4>2. Ladder(OffsetCounts, SpecialOffset) \in Seq(Entry)
        BY <1>2, LadderDescends DEF OffsetCounts, Descends
      <4>3. OffsetBucketsOf(leftover)
               \in Seq(BucketsOf(Ladder(OffsetCounts, SpecialOffset), OffsetStart(leftover)))
        BY <1>2, <4>1, <4>2, BucketsFacts, ValenceStoreAssumption DEF OffsetBucketsOf
      <4> QED  BY <4>3
    <3> HIDE DEF tokens
    <3> QED  BY <2>4, <3>1
  <2> QED  BY <2>2, <2>4, <2>6
<1>7. 0 \in 0..NumBuckets-1
  BY ValenceStoreAssumption
<1>8. tiny.offsets[0] = disk.so.offsets[0+1]
  BY <1>1, <1>6, <1>7 DEF IsRead
<1> QED  BY <1>5, <1>6, <1>8

\* All buckets of the slopes are filled: the r entries of the ladder are cut
\* at e into runs, whose numbers the slopes get in every pass.
SlopeLadder == Ladder(SlopeCounts, SpecialSlope)
InRun(e, k, i) == e[k-1] <= i /\ i < e[k]
Filled(e, r) ==
    /\ Descends(SlopeLadder, r)
    /\ \A v \in DOMAIN SlopeCounts : v # SpecialSlope => \E i \in 1..r : SlopeLadder[i].guy = v
    /\ \A i \in 1..r : SlopeLadder[i].guy \in DOMAIN SlopeCounts /\ SlopeLadder[i].guy # SpecialSlope
    /\ e \in [0..NumBuckets-1 -> 1..r+1]
    /\ \A i \in 1..r : \E k \in 1..NumBuckets-1 : InRun(e, k, i)
    /\ \A i \in 1..r, k \in 1..NumBuckets-1 : InRun(e, k, i) =>
          \A leftover \in Leftovers :
             /\ Fewbit(SlopeLadder[i].guy, FALSE, SlopeCounts, SpecialSlope, SlopeBucketsOf(leftover),
                       SlopeStart(leftover)) = k
             /\ SlopeBucketsOf(leftover)[k].value \in SlopeLadder[e[k]-1].guy..SlopeLadder[e[k-1]].guy

LEMMA FilledWhenAllAre ==
    ASSUME file \in Files, SpecialSlope \in DOMAIN SlopeCounts, NEW some \in Leftovers,
           Len(SlopeBucketsOf(some)) = NumBuckets - 1
    PROVE  \E e, r : Filled(e, r)
<1> DEFINE ladder == SlopeLadder
           r == Cardinality(Rest(SlopeCounts, SpecialSlope))
           bs(leftover) == SlopeBucketsOf(leftover)
           m == NumBuckets - 1
<1>1. ncv \in Nat /\ AreValues(Slopes, ncv) /\ NumBuckets \in Nat \ {0, 1, 2}
  BY ValuesOfLines, ValenceStoreAssumption
<1>2. Descends(ladder, r)
  BY <1>1, LadderDescends DEF SlopeCounts, SlopeLadder
<1>3. /\ Len(ladder) = r + 1 /\ r \in Nat /\ ladder \in Seq(Entry)
      /\ \A v \in Rest(SlopeCounts, SpecialSlope) : \E i \in 1..r : ladder[i].guy = v
      /\ \A i \in 1..r : ladder[i].guy \in Rest(SlopeCounts, SpecialSlope)
  <2>1. /\ IsFiniteSet(DOMAIN SlopeCounts) /\ DOMAIN SlopeCounts \subseteq Int
        /\ \A v \in DOMAIN SlopeCounts : SlopeCounts[v] \in Nat
    <3>1. /\ DOMAIN SlopeCounts = Range(Slopes) /\ IsFiniteSet(Range(Slopes)) /\ Range(Slopes) \subseteq Int
          /\ \A v \in Range(Slopes) : SlopeCounts[v] \in Nat \ {0}
      BY <1>1, CountFacts DEF SlopeCounts
    <3> QED  BY <3>1
  <2>2. SpecialSlope \in DOMAIN SlopeCounts
    OBVIOUS
  <2> DEFINE l == Ladder(SlopeCounts, SpecialSlope)
  <2>3. /\ r \in Nat /\ l \in Seq(Entry) /\ Len(l) = IF SpecialSlope \in DOMAIN SlopeCounts THEN r + 1 ELSE r
        /\ \A i \in 1..r : l[i].guy \in Rest(SlopeCounts, SpecialSlope)
        /\ \A v \in Rest(SlopeCounts, SpecialSlope) : \E i \in 1..r : l[i].guy = v
    BY <2>1, LadderFacts
  <2> QED  BY <2>2, <2>3 DEF SlopeLadder
<1>4. PICK w : AddsUp(w, ladder, ncv)
  BY <1>1, LadderAddsUp DEF SlopeCounts, SlopeLadder
<1> HIDE DEF ladder, r
<1>5. \A leftover : bs(leftover) = Buckets(ladder, SlopeShares, ncv, SlopeStart(leftover))
  BY DEF SlopeBucketsOf, ladder, SlopeLadder
<1>6. Len(ladder) > 0
  BY <1>3
<1>7. PICK e : \A leftover \in Leftovers : /\ CutAt(bs(leftover), e, ladder, SlopeStart(leftover))
                                           /\ e[Len(bs(leftover))] = Len(ladder)
  <2> DEFINE befores == {SlopeStart(leftover) : leftover \in Leftovers}
  <2>1. PICK e : SameCut(e, ladder, SlopeShares, ncv, befores)
    <3> HIDE DEF befores
    <3> QED  BY <1>1, <1>3, <1>4, <1>6, SameCuts
  <2>2. \A leftover \in Leftovers : /\ CutAt(bs(leftover), e, ladder, SlopeStart(leftover))
                                    /\ e[Len(bs(leftover))] = Len(ladder)
    BY <1>5, <2>1 DEF SameCut
  <2> QED  BY <2>2
<1> HIDE DEF bs
<1>8. e \in [0..m -> 1..r+1]
  BY <1>3, <1>7 DEF CutAt, bs
<1>9. \A leftover \in Leftovers : Len(bs(leftover)) = m
  <2> SUFFICES ASSUME NEW leftover \in Leftovers PROVE Len(bs(leftover)) = m
    OBVIOUS
  <2>1. bs(leftover) \in Seq(BucketsOf(ladder, SlopeStart(leftover)))
    BY <1>1, <1>3, <1>4, <1>5, BucketsFacts
  <2>2. Len(bs(leftover)) \in Nat
    BY <2>1
  <2>3. DOMAIN e = 0..Len(bs(leftover)) /\ DOMAIN e = 0..m
    BY <1>7, <1>8 DEF CutAt
  <2>4. m \in Nat
    BY <1>1
  <2> QED  BY <2>2, <2>3, <2>4
<1>10. ASSUME NEW i \in 1..r PROVE \E k \in 1..m : InRun(e, k, i)
  <2>1. CutAt(bs(some), e, ladder, SlopeStart(some)) /\ e[Len(bs(some))] = r + 1 /\ Len(bs(some)) = m /\ m \in Nat
    BY <1>1, <1>3, <1>7, <1>9
  <2>2. i \in Nat /\ i > 0 /\ i < e[Len(bs(some))]
    BY <1>3, <2>1
  <2>3. \E k \in 1..Len(bs(some)) : e[k-1] <= i /\ i < e[k]
    BY <1>3, <2>1, <2>2, BetweenCuts
  <2> QED  BY <2>1, <2>3 DEF InRun
<1>11. ASSUME NEW i \in 1..r, NEW k \in 1..m, InRun(e, k, i), NEW leftover \in Leftovers
       PROVE  /\ Fewbit(ladder[i].guy, FALSE, SlopeCounts, SpecialSlope, bs(leftover), SlopeStart(leftover)) = k
              /\ bs(leftover)[k].value \in ladder[e[k]-1].guy..ladder[e[k-1]].guy
  <2>1. /\ CutAt(bs(leftover), e, ladder, SlopeStart(leftover)) /\ e[Len(bs(leftover))] = r + 1
        /\ Len(bs(leftover)) = NumBuckets - 1 /\ e[k-1] <= i /\ i < e[k]
    BY <1>3, <1>7, <1>9, <1>11 DEF InRun
  <2>2. PICK filled : filled = bs(leftover)
    OBVIOUS
  <2>3. CutAt(filled, e, ladder, Entering(leftover, 0)) /\ e[Len(filled)] = r + 1 /\ Len(filled) = NumBuckets - 1
    BY <2>1, <2>2 DEF SlopeStart
  <2>4. k \in 1..NumBuckets-1
    OBVIOUS
  <2> HIDE DEF m
  <2>5. /\ Fewbit(ladder[i].guy, FALSE, SlopeCounts, SpecialSlope, filled, Entering(leftover, 0)) = k
        /\ filled[k].value \in ladder[e[k]-1].guy..ladder[e[k-1]].guy
    BY <1>1, <1>2, <1>3, <2>1, <2>3, <2>4, NumberIs
  <2> QED  BY <2>2, <2>5 DEF SlopeStart
<1>12. /\ \A v \in DOMAIN SlopeCounts : v # SpecialSlope => \E i \in 1..r : ladder[i].guy = v
       /\ \A i \in 1..r : ladder[i].guy \in DOMAIN SlopeCounts /\ ladder[i].guy # SpecialSlope
  BY <1>3 DEF Rest
<1>13. Filled(e, r)
  BY <1>2, <1>8, <1>10, <1>11, <1>12 DEF Filled, ladder, bs
<1> QED  BY <1>13

\* A run of the ladder holds the values between its ends, and no others.
Run(e, r, k) == {SlopeLadder[i].guy : i \in {i \in 1..r : InRun(e, k, i)}}

LEMMA RunEnds ==
    ASSUME NEW e, NEW r, Filled(e, r), NEW j \in 1..r, NEW k \in 1..NumBuckets-1, InRun(e, k, j)
    PROVE  /\ Max(Run(e, r, k)) = SlopeLadder[e[k-1]].guy /\ Min(Run(e, r, k)) = SlopeLadder[e[k]-1].guy
           /\ \A i \in 1..r : SlopeLadder[i].guy \in Min(Run(e, r, k))..Max(Run(e, r, k))
                                 => SlopeLadder[i].guy \in Run(e, r, k)
<1> DEFINE guy(i) == SlopeLadder[i].guy
           run == {guy(i) : i \in {i \in 1..r : InRun(e, k, i)}}
           f == e[k-1]
           l == e[k] - 1
<1>1. r \in Nat /\ \A i \in 1..r : guy(i) \in Int
  <2>1. r \in Nat /\ SlopeLadder \in Seq(Entry) /\ Len(SlopeLadder) \in {r, r+1}
    BY DEF Filled, Descends
  <2>2. \A i \in 1..r : SlopeLadder[i] \in Entry
    BY <2>1
  <2> QED  BY <2>1, <2>2 DEF Entry
<1>2. \A a, b \in 1..r : a < b => guy(a) > guy(b)
  BY DEF Filled, Descends
<1>3. e[k-1] \in 1..r+1 /\ e[k] \in 1..r+1
  <2>1. k - 1 \in 0..NumBuckets-1 /\ k \in 0..NumBuckets-1
    BY ValenceStoreAssumption
  <2> QED  BY <2>1 DEF Filled
<1>4. f \in 1..r /\ l \in 1..r /\ f <= j /\ j <= l /\ \A i \in 1..r : InRun(e, k, i) <=> f <= i /\ i <= l
  BY <1>1, <1>3 DEF InRun
<1> HIDE DEF f, l, guy
<1>5. ASSUME NEW a \in 1..r, NEW b \in 1..r, a <= b PROVE guy(b) <= guy(a)
  <2>1. a < b \/ a = b
    BY <1>1, <1>5
  <2>2. guy(a) > guy(b) \/ guy(a) = guy(b)
    BY <1>2, <2>1
  <2> QED  BY <1>1, <2>2
<1>6. guy(f) \in run /\ guy(l) \in run /\ \A v \in run : v \in Int /\ v <= guy(f) /\ guy(l) <= v
  <2>1. InRun(e, k, f) /\ InRun(e, k, l)
    BY <1>1, <1>4
  <2>2. \A i \in 1..r : InRun(e, k, i) => guy(i) <= guy(f) /\ guy(l) <= guy(i)
    BY <1>4, <1>5
  <2> QED  BY <1>1, <1>4, <2>1, <2>2
<1>7. \A i \in 1..r : guy(i) \in guy(l)..guy(f) => guy(i) \in run
  <2> SUFFICES ASSUME NEW i \in 1..r, guy(i) \in guy(l)..guy(f) PROVE InRun(e, k, i)
    OBVIOUS
  <2>1. guy(i) \in Int /\ guy(f) \in Int /\ guy(l) \in Int
    BY <1>1, <1>4
  <2>2. ~(i < f) /\ ~(l < i)
    BY <1>2, <1>4, <2>1
  <2> QED  BY <1>1, <1>4, <2>2
<1> HIDE DEF run
<1>8. Max(run) = guy(f) /\ Min(run) = guy(l)
  <2>1. \A v \in run : (\A w \in run : v >= w) => v = guy(f)
    BY <1>6
  <2>2. \A v \in run : (\A w \in run : v =< w) => v = guy(l)
    BY <1>6
  <2>3. \A w \in run : guy(f) >= w /\ guy(l) =< w
    BY <1>1, <1>4, <1>6
  <2> QED  BY <1>6, <2>1, <2>2, <2>3 DEF Max, Min
<1>9. Run(e, r, k) = run
  BY DEF Run, run, guy
<1> QED  BY <1>7, <1>8, <1>9 DEF guy, f, l

LEMMA SlopeCodeIs ==
    ASSUME CopyInv, StoreTypes, StoreInv, CodesInv, step = "live", NEW l \in Range(lines), NEW k,
           \A leftover \in Leftovers : SlopeNumber(l.slope, leftover) = k
    PROVE  SlopeCodes(l) = {k}
<1>1. Codes(l) # {} /\ \A c \in Codes(l) : CodeFits(c, l)
  BY CodesFit
<1>2. \A c \in Codes(l) : c.s = k
  BY <1>1 DEF CodeFits, CodeOf
<1> QED  BY <1>1, <1>2 DEF SlopeCodes

LEMMA SlopesAreClose ==
    ASSUME CopyInv, StoreTypes, StoreInv, CodesInv, step = "live" PROVE SlopesStayClose
<1> SUFFICES ASSUME StrictlyMostFrequent(SpecialSlope, Slopes), Len(disk.so.slopes) = NumBuckets,
                    NEW l \in Range(lines)
             PROVE  \E s \in SlopeCodes(l) :
                      /\ SlopeCodes(l) = {s}
                      /\ l.slope = SpecialSlope =>
                            Sharing(s) = {SpecialSlope} /\ tiny.slopes[s] = SpecialSlope
                      /\ l.slope # SpecialSlope =>
                            /\ tiny.slopes[s] \in Min(Sharing(s))..Max(Sharing(s))
                            /\ \A v \in Range(Slopes) \ {SpecialSlope} :
                                  v \in Min(Sharing(s))..Max(Sharing(s)) => v \in Sharing(s)
  BY DEF SlopesStayClose
<1>1. /\ file \in Files /\ ncv \in Nat /\ AreValues(Slopes, ncv) /\ NumBuckets \in Nat \ {0, 1, 2}
      /\ DOMAIN SlopeCounts = Range(Slopes)
      /\ \A m \in Range(lines) : m.slope \in DOMAIN SlopeCounts
  <2>1. file \in Files
    BY DEF CopyInv
  <2>2. ncv \in Nat /\ AreValues(Slopes, ncv) /\ \A m \in Range(lines) : m.slope \in DOMAIN SlopeCounts
    BY <2>1, ValuesOfLines
  <2> QED  BY <2>1, <2>2, CountFacts, ValenceStoreAssumption DEF SlopeCounts
<1>2. SpecialSlope \in DOMAIN SlopeCounts /\ \A v : TakenFirst(v, SlopeCounts) <=> v = SpecialSlope
  BY <1>1, TheMostFrequent DEF SlopeCounts, TakenFirst
<1>3. \A v \in Range(Slopes) : \E m \in Range(lines) : m.slope = v
  BY DEF Slopes, Range
<1>4. PICK some \in Leftovers : /\ disk.so.slopes[1] = SpecialSlope
                                /\ Len(SlopeBucketsOf(some)) = NumBuckets - 1
                                /\ \A k \in 1..NumBuckets-1 : disk.so.slopes[k+1] = SlopeBucketsOf(some)[k].value
  <2>1. PICK some \in Leftovers : disk.so = TokensOf(some)
    BY DEF CodesInv, AreTokens
  <2> DEFINE bs == SlopeBucketsOf(some)
             tokens == SoLine(SlopeCounts, SpecialSlope, bs)
  <2>2. disk.so.slopes = tokens
    BY <2>1 DEF TokensOf
  <2>3. SpecialSlope \in Int
    BY DEF SpecialSlope
  <2>4. /\ Len(tokens) = Len(bs) + 1 /\ tokens[1] = SpecialSlope
        /\ \A k \in 1..Len(bs) : tokens[k+1] = bs[k].value
    <3> DEFINE start == SlopeStart(some)
    <3>1. start = Entering(some, 0) /\ 0 \in Nat /\ SpecialSlope \in DOMAIN Counts(Slopes)
      BY <1>2 DEF SlopeStart, SlopeCounts
    <3>2. bs = Buckets(Ladder(Counts(Slopes), SpecialSlope), SlopeShares, ncv, start)
      BY DEF SlopeBucketsOf, SlopeCounts
    <3>3. tokens = SoLine(Counts(Slopes), SpecialSlope, bs)
      BY DEF SlopeCounts
    <3> HIDE DEF start, bs, tokens
    <3> QED  BY <1>1, <2>3, <3>1, <3>2, <3>3, SoLineFits
  <2>5. Len(bs) \in Nat
    <3>1. PICK w : AddsUp(w, SlopeLadder, ncv)
      BY <1>1, LadderAddsUp DEF SlopeCounts, SlopeLadder
    <3>2. SlopeLadder \in Seq(Entry)
      BY <1>1, LadderDescends DEF SlopeCounts, SlopeLadder, Descends
    <3>3. bs \in Seq(BucketsOf(SlopeLadder, SlopeStart(some)))
      BY <1>1, <3>1, <3>2, BucketsFacts DEF SlopeBucketsOf, SlopeLadder
    <3> QED  BY <3>3
  <2> HIDE DEF bs, tokens
  <2>6. Len(bs) = NumBuckets - 1
    BY <1>1, <2>2, <2>4, <2>5
  <2> QED  BY <2>2, <2>4, <2>6 DEF bs
<1>5. PICK e, r : Filled(e, r)
  BY <1>1, <1>2, <1>4, FilledWhenAllAre
<1>6. ASSUME NEW m \in Range(lines), m.slope = SpecialSlope PROVE SlopeCodes(m) = {0}
  <2>1. \A leftover \in Leftovers : SlopeNumber(m.slope, leftover) = 0
    BY <1>1, <1>2, <1>6, FewbitInRange DEF SlopeNumber
  <2> QED  BY <2>1, SlopeCodeIs
<1>7. ASSUME NEW m \in Range(lines), NEW i \in 1..r, m.slope = SlopeLadder[i].guy,
             NEW k \in 1..NumBuckets-1, InRun(e, k, i)
      PROVE  SlopeCodes(m) = {k}
  <2>1. ASSUME NEW leftover \in Leftovers PROVE SlopeNumber(m.slope, leftover) = k
    <3>1. Fewbit(m.slope, FALSE, SlopeCounts, SpecialSlope, SlopeBucketsOf(leftover), SlopeStart(leftover)) = k
      BY <1>5, <1>7 DEF Filled
    <3>2. TakenFirst(m.slope, SlopeCounts) = FALSE
      <4>1. m.slope # SpecialSlope
        BY <1>5, <1>7 DEF Filled
      <4> QED  BY <1>2, <4>1 DEF TakenFirst
    <3> QED  BY <3>1, <3>2 DEF SlopeNumber
  <2> QED  BY <2>1, SlopeCodeIs
<1>8. ASSUME NEW m \in Range(lines), m.slope # SpecialSlope
      PROVE  \E i \in 1..r, k \in 1..NumBuckets-1 : /\ m.slope = SlopeLadder[i].guy /\ InRun(e, k, i)
                                                    /\ SlopeCodes(m) = {k}
  <2>1. PICK i \in 1..r : SlopeLadder[i].guy = m.slope
    BY <1>1, <1>5, <1>8 DEF Filled
  <2>2. PICK k \in 1..NumBuckets-1 : InRun(e, k, i)
    BY <1>5 DEF Filled
  <2> QED  BY <1>7, <2>1, <2>2
<1>9. IsRead(tiny.slopes, disk.so.slopes)
  BY DEF CodesInv
<1>10. CASE l.slope = SpecialSlope
  <2>1. SlopeCodes(l) = {0}
    BY <1>6, <1>10
  <2>2. Sharing(0) = {SpecialSlope}
    <3>1. ASSUME NEW m \in Range(lines), 0 \in SlopeCodes(m) PROVE m.slope = SpecialSlope
      <4>1. \A k \in 1..NumBuckets-1 : k # 0
        OBVIOUS
      <4> QED  BY <1>8, <3>1, <4>1
    <3> QED  BY <1>10, <2>1, <3>1 DEF Sharing
  <2>3. tiny.slopes[0] = SpecialSlope
    <3>1. 0 \in 0..NumBuckets-1 /\ 0 < Len(disk.so.slopes) /\ 0 + 1 = 1
      BY <1>1
    <3>2. tiny.slopes[0] = disk.so.slopes[0+1]
      BY <1>9, <3>1 DEF IsRead
    <3> QED  BY <1>4, <3>1, <3>2
  <2> QED  BY <1>10, <2>1, <2>2, <2>3
<1>11. CASE l.slope # SpecialSlope
  <2>1. PICK j \in 1..r, k \in 1..NumBuckets-1 : /\ l.slope = SlopeLadder[j].guy /\ InRun(e, k, j)
                                                 /\ SlopeCodes(l) = {k}
    BY <1>8, <1>11
  <2> DEFINE run == Run(e, r, k)
  <2>2. Sharing(k) = run
    <3>1. ASSUME NEW m \in Range(lines), k \in SlopeCodes(m) PROVE m.slope \in run
      <4>1. m.slope # SpecialSlope
        BY <1>6, <3>1
      <4>2. PICK i \in 1..r, n \in 1..NumBuckets-1 : /\ m.slope = SlopeLadder[i].guy /\ InRun(e, n, i)
                                                     /\ SlopeCodes(m) = {n}
        BY <1>8, <4>1
      <4>3. n = k
        BY <3>1, <4>2
      <4> QED  BY <4>2, <4>3 DEF Run
    <3>2. ASSUME NEW i \in 1..r, InRun(e, k, i) PROVE \E m \in Range(lines) : m.slope = SlopeLadder[i].guy /\ k \in SlopeCodes(m)
      <4>1. PICK m \in Range(lines) : m.slope = SlopeLadder[i].guy
        BY <1>1, <1>3, <1>5 DEF Filled
      <4> QED  BY <1>7, <3>2, <4>1
    <3>3. run \subseteq Sharing(k)
      BY <3>2 DEF Sharing, Run
    <3>4. Sharing(k) \subseteq run
      <4> HIDE DEF run
      <4> QED  BY <3>1 DEF Sharing
    <3> QED  BY <3>3, <3>4
  <2> HIDE DEF run
  <2>3. /\ Max(run) = SlopeLadder[e[k-1]].guy /\ Min(run) = SlopeLadder[e[k]-1].guy
        /\ \A i \in 1..r : SlopeLadder[i].guy \in Min(run)..Max(run) => SlopeLadder[i].guy \in run
    BY <1>5, <2>1, RunEnds DEF run
  <2>4. tiny.slopes[k] \in Min(run)..Max(run)
    <3>1. k \in 0..NumBuckets-1 /\ k < Len(disk.so.slopes)
      BY <1>1
    <3>2. tiny.slopes[k] = disk.so.slopes[k+1]
      BY <1>9, <3>1 DEF IsRead
    <3>3. tiny.slopes[k] = SlopeBucketsOf(some)[k].value
      BY <1>4, <3>2
    <3>4. SlopeBucketsOf(some)[k].value \in SlopeLadder[e[k]-1].guy..SlopeLadder[e[k-1]].guy
      BY <1>5, <2>1 DEF Filled
    <3> QED  BY <2>3, <3>3, <3>4
  <2>5. \A v \in Range(Slopes) \ {SpecialSlope} : v \in Min(run)..Max(run) => v \in run
    <3>1. \A v \in Range(Slopes) \ {SpecialSlope} : \E i \in 1..r : SlopeLadder[i].guy = v
      BY <1>1, <1>5 DEF Filled
    <3> QED  BY <2>3, <3>1
  <2> QED  BY <1>11, <2>1, <2>2, <2>4, <2>5
<1> QED  BY <1>10, <1>11

LEMMA FourBitsAre ==
    ASSUME CopyInv, StoreTypes, StoreInv, CodesInv PROVE FourBitsSuffice
  BY TokensFit, ZeroIsExact, SlopesAreClose DEF FourBitsSuffice

\* All that holds of the store together.
LEMMA StoreInvAlways ==
    ASSUME IdsFit PROVE StoreSpec => [](CopyInv /\ StoreTypes /\ StoreInv /\ CodesInv)
<1>1. StoreInit => StoreInv /\ CodesInv
  BY InitHasCodesInv DEF StoreInit, StoreInv
<1>2. CopyInv /\ StoreTypes /\ StoreInv /\ [StoreNext]_<<storeVars, sortVars>> => StoreInv'
  BY NextKeepsStoreInv
<1>3. CopyInv /\ StoreTypes /\ CodesInv /\ [StoreNext]_<<storeVars, sortVars>> => CodesInv'
  BY NextKeepsCodesInv
<1> QED  BY <1>1, <1>2, <1>3, TypesAlways, PTL DEF StoreSpec

LEMMA CodesAlways ==
    ASSUME IdsFit PROVE StoreSpec => []FourBitsSuffice
<1>1. CopyInv /\ StoreTypes /\ StoreInv /\ CodesInv => FourBitsSuffice
  BY FourBitsAre
<1> QED  BY <1>1, StoreInvAlways, PTL
=============================================================================
