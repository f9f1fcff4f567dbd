---------------------------- MODULE ConfigCache ----------------------------
(***************************************************************************)
(* load_config_file() of src/lib/config.c, which every program calls at    *)
(* its start.  It counts the people, elements and ratings of ratings.out,  *)
(* keeps the numbers in rmetacache.txt beside the modification time of     *)
(* ratings.out, and when that time is another than the one it kept removes *)
(* everything that was computed from the old ratings.                      *)
(*                                                                         *)
(* A working directory has ratings (or NoFile), the second mtime of its   *)
(* last change, rmeta (what rmetacache.txt says), valences, bb and ds (the *)
(* ratings that valences.out and the two caches come from).                *)
(***************************************************************************)
EXTENDS Integers, Sequences, FiniteSets

CONSTANT NoFile    \* in the place of the contents of a file that is not there

\* compare(), count_unique(), parse_integers(): the first two columns.
Counted(ratings) ==
    [num_people  |-> Cardinality({ratings[k].person : k \in DOMAIN ratings}),
     num_elts    |-> Cardinality({ratings[k].elt : k \in DOMAIN ratings}),
     num_ratings |-> Len(ratings)]

\* Mutant: the file is there, so it is used.
UseCache_Always(dir) == dir.rmeta # NoFile

\* The first line of rmetacache.txt is ctime() of the modification time.
UseCache(dir) == dir.rmeta # NoFile /\ dir.rmeta.mtime = dir.mtime

\* Without ratings.out the caller is ratgen, and nothing is done.
Kept(dir) == dir.ratings = NoFile \/ UseCache(dir)

\* Otherwise rmetacache.txt is opened, which empties it (it has no time then, as
\* if it were not there); the lines counted; the time and the numbers written;
Emptied(dir)  == [dir EXCEPT !.rmeta = NoFile]
Recorded(dir) == [dir EXCEPT !.rmeta = [mtime |-> dir.mtime, be |-> Counted(dir.ratings)]]

\* and only then what comes from the old ratings is removed.
Removed(dir) == [dir EXCEPT !.valences = NoFile, !.bb = NoFile, !.ds = NoFile]

\* The directory and the BE of a program after the call.
LoadConfig(dir) ==
    [dir |-> IF Kept(dir) THEN dir ELSE Removed(Recorded(dir)),
     be  |-> IF dir.ratings = NoFile THEN Counted(<<>>)
             ELSE IF UseCache(dir) THEN dir.rmeta.be ELSE Counted(dir.ratings)]
=============================================================================
