-------------------------- MODULE Pipeline_proofs --------------------------
(***************************************************************************)
(* Why a saved event is in the input once, and why recgen serves what the  *)
(* ratings say, for any input, events, and deaths of programs.             *)
(*                                                                         *)
(* Events.  The ids in the input and in the events file are those that     *)
(* were saved.  While a pass runs, the events file holds only events that  *)
(* are in the input already, or late ones: so it may be removed.  From its *)
(* removal to the next append it holds none that is in the input.          *)
(*                                                                         *)
(* Caches.  What has the time of ratings.out in rmetacache.txt comes from  *)
(* these ratings, until they change; and they have another time then,      *)
(* unless the second was too short.  Only between the writing of           *)
(* rmetacache.txt and the removal of what is old it may be otherwise: while*)
(* a starting recgen is there, or after a program died there.              *)
(*                                                                         *)
(* Ratings.  Lines of the beginning have all their fields, so ratgen finds *)
(* every event in them; the pairs of a person and an element are ordered,  *)
(* each has its place in the file, and the table of thresholds is 32nds    *)
(* but for one.                                                            *)
(***************************************************************************)
EXTENDS Pipeline, FiniteSetTheorems, SequenceTheorems, FunctionTheorems, NaturalsInduction, WellFoundedInduction, TLAPS

\* NoFile is nothing that a program writes.
NoFileApart ==
    /\ \A s \in Seq(Lines), junk \in Junk : RatingsFile(s, junk) # NoFile
    /\ \A m, be : [mtime |-> m, be |-> be] # NoFile

IsDir(d) == d = [ratings |-> d.ratings, mtime |-> d.mtime, rmeta |-> d.rmeta,
                 valences |-> d.valences, bb |-> d.bb, ds |-> d.ds]

Files ==
    /\ ratings_gen \in BOOLEAN /\ reused \in BOOLEAN /\ pc \in Steps
    /\ IsDir(dir)
    /\ events \in Seq(Lines)
    /\ ~ratings_gen => dir.ratings \in Seq(Lines)
    /\ pc = "ratgen" => ratings_gen
    /\ bmh_events \in Seq(Lines) \cup {NoFile}
    /\ fp \in {"closed", "linked", "removed"}
    /\ fp = "linked" => bmh_events # NoFile
    /\ got \in 0..Len(Feed) /\ ram \in Seq(1..got) /\ saved \in Seq(1..got)
-----------------------------------------------------------------------------
(* Caches. *)

\* What is in a directory with the time of its ratings.
CacheOK(d, short, loose) ==
    /\ d.mtime \in Nat
    /\ d.rmeta # NoFile => d.rmeta.mtime \in Nat /\ d.rmeta.mtime <= d.mtime
    /\ (~short /\ UseCache(d)) => d.rmeta.be = Counted(d.ratings)
    /\ (~short /\ ~loose /\ UseCache(d)) => {d.valences, d.bb, d.ds} \subseteq {NoFile, d.ratings}

\* rmetacache.txt may have been written and nothing removed.
Loose == halfway \/ recgen = "counted"

CacheInv ==
    /\ Files /\ hasty \in BOOLEAN /\ halfway \in BOOLEAN
    /\ CacheOK(dir, hasty, Loose)
    /\ ServesCurrent

LEMMA NoFileIsNone ==
    NoFile \notin Seq(Lines) /\ NoFile # <<>>
<1>1. <<>> \in Seq(Lines)
  OBVIOUS
<1> QED  BY <1>1, PipelineAssumption

\* A directory after one of its fields has another value.
LEMMA PutRatings ==
    ASSUME NEW d, IsDir(d), NEW v
    PROVE  LET e == [d EXCEPT !.ratings = v] IN
           /\ IsDir(e) /\ e.ratings = v /\ e.mtime = d.mtime /\ e.rmeta = d.rmeta
           /\ e.valences = d.valences /\ e.bb = d.bb /\ e.ds = d.ds
<1>1. [d EXCEPT !.ratings = v] = [ratings |-> v, mtime |-> d.mtime, rmeta |-> d.rmeta, valences |-> d.valences, bb |-> d.bb, ds |-> d.ds]
  BY DEF IsDir
<1> QED  BY <1>1 DEF IsDir

LEMMA PutMtime ==
    ASSUME NEW d, IsDir(d), NEW v
    PROVE  LET e == [d EXCEPT !.mtime = v] IN
           /\ IsDir(e) /\ e.ratings = d.ratings /\ e.mtime = v /\ e.rmeta = d.rmeta
           /\ e.valences = d.valences /\ e.bb = d.bb /\ e.ds = d.ds
<1>1. [d EXCEPT !.mtime = v] = [ratings |-> d.ratings, mtime |-> v, rmeta |-> d.rmeta, valences |-> d.valences, bb |-> d.bb, ds |-> d.ds]
  BY DEF IsDir
<1> QED  BY <1>1 DEF IsDir

LEMMA PutRmeta ==
    ASSUME NEW d, IsDir(d), NEW v
    PROVE  LET e == [d EXCEPT !.rmeta = v] IN
           /\ IsDir(e) /\ e.ratings = d.ratings /\ e.mtime = d.mtime /\ e.rmeta = v
           /\ e.valences = d.valences /\ e.bb = d.bb /\ e.ds = d.ds
<1>1. [d EXCEPT !.rmeta = v] = [ratings |-> d.ratings, mtime |-> d.mtime, rmeta |-> v, valences |-> d.valences, bb |-> d.bb, ds |-> d.ds]
  BY DEF IsDir
<1> QED  BY <1>1 DEF IsDir

LEMMA PutValences ==
    ASSUME NEW d, IsDir(d), NEW v
    PROVE  LET e == [d EXCEPT !.valences = v] IN
           /\ IsDir(e) /\ e.ratings = d.ratings /\ e.mtime = d.mtime /\ e.rmeta = d.rmeta
           /\ e.valences = v /\ e.bb = d.bb /\ e.ds = d.ds
<1>1. [d EXCEPT !.valences = v] = [ratings |-> d.ratings, mtime |-> d.mtime, rmeta |-> d.rmeta, valences |-> v, bb |-> d.bb, ds |-> d.ds]
  BY DEF IsDir
<1> QED  BY <1>1 DEF IsDir

LEMMA PutBb ==
    ASSUME NEW d, IsDir(d), NEW v
    PROVE  LET e == [d EXCEPT !.bb = v] IN
           /\ IsDir(e) /\ e.ratings = d.ratings /\ e.mtime = d.mtime /\ e.rmeta = d.rmeta
           /\ e.valences = d.valences /\ e.bb = v /\ e.ds = d.ds
<1>1. [d EXCEPT !.bb = v] = [ratings |-> d.ratings, mtime |-> d.mtime, rmeta |-> d.rmeta, valences |-> d.valences, bb |-> v, ds |-> d.ds]
  BY DEF IsDir
<1> QED  BY <1>1 DEF IsDir

LEMMA PutDs ==
    ASSUME NEW d, IsDir(d), NEW v
    PROVE  LET e == [d EXCEPT !.ds = v] IN
           /\ IsDir(e) /\ e.ratings = d.ratings /\ e.mtime = d.mtime /\ e.rmeta = d.rmeta
           /\ e.valences = d.valences /\ e.bb = d.bb /\ e.ds = v
<1>1. [d EXCEPT !.ds = v] = [ratings |-> d.ratings, mtime |-> d.mtime, rmeta |-> d.rmeta, valences |-> d.valences, bb |-> d.bb, ds |-> v]
  BY DEF IsDir
<1> QED  BY <1>1 DEF IsDir

LEMMA NewRatingsFacts ==
    ASSUME NEW d, IsDir(d), NEW r, WriteRatings(d, r)
    PROVE  \E tick \in BOOLEAN :
              /\ IsDir(dir') /\ dir'.ratings = r /\ dir'.rmeta = d.rmeta
              /\ dir'.mtime = IF tick THEN d.mtime + 1 ELSE d.mtime
              /\ hasty' = (hasty \/ ~tick)
<1>1. PICK tick \in BOOLEAN : /\ dir' = [d EXCEPT !.ratings = r, !.mtime = IF tick THEN @ + 1 ELSE @]
                              /\ hasty' = (hasty \/ ~tick)
  BY DEF WriteRatings
<1> DEFINE m == IF tick THEN d.mtime + 1 ELSE d.mtime
           a == [d EXCEPT !.ratings = r]
           e == [a EXCEPT !.mtime = m]
<1>2. dir' = [d EXCEPT !.ratings = r, !.mtime = m]
  BY <1>1
<1> HIDE DEF m
<1>3. dir' = e
  BY <1>2
<1>4. IsDir(a) /\ a.ratings = r /\ a.rmeta = d.rmeta
  BY PutRatings
<1> HIDE DEF a
<1>5. IsDir(e) /\ e.ratings = a.ratings /\ e.mtime = m /\ e.rmeta = a.rmeta
  BY <1>4, PutMtime
<1> HIDE DEF e
<1>6. IsDir(dir') /\ dir'.ratings = r /\ dir'.rmeta = d.rmeta /\ dir'.mtime = m
  BY <1>3, <1>4, <1>5
<1> QED  BY <1>1, <1>6 DEF m

LEMMA EmptiedFacts ==
    ASSUME NEW d, IsDir(d)
    PROVE  LET e == Emptied(d) IN
           /\ IsDir(e) /\ e.ratings = d.ratings /\ e.mtime = d.mtime /\ e.rmeta = NoFile
           /\ e.valences = d.valences /\ e.bb = d.bb /\ e.ds = d.ds
BY PutRmeta DEF Emptied

LEMMA RecordedFacts ==
    ASSUME NEW d, IsDir(d)
    PROVE  LET e == Recorded(d) IN
           /\ IsDir(e) /\ e.ratings = d.ratings /\ e.mtime = d.mtime
           /\ e.rmeta = [mtime |-> d.mtime, be |-> Counted(d.ratings)]
           /\ e.valences = d.valences /\ e.bb = d.bb /\ e.ds = d.ds
<1> DEFINE m == [mtime |-> d.mtime, be |-> Counted(d.ratings)]
<1>1. Recorded(d) = [d EXCEPT !.rmeta = m]
  BY DEF Recorded
<1> HIDE DEF m
<1>2. LET e == [d EXCEPT !.rmeta = m] IN
      /\ IsDir(e) /\ e.ratings = d.ratings /\ e.mtime = d.mtime /\ e.rmeta = m
      /\ e.valences = d.valences /\ e.bb = d.bb /\ e.ds = d.ds
  BY PutRmeta
<1> QED  BY <1>1, <1>2 DEF m

LEMMA RemovedFacts ==
    ASSUME NEW d, IsDir(d)
    PROVE  LET e == Removed(d) IN
           /\ IsDir(e) /\ e.ratings = d.ratings /\ e.mtime = d.mtime /\ e.rmeta = d.rmeta
           /\ e.valences = NoFile /\ e.bb = NoFile /\ e.ds = NoFile
<1> DEFINE b == [d EXCEPT !.valences = NoFile]
           c == [b EXCEPT !.bb = NoFile]
           e == [c EXCEPT !.ds = NoFile]
<1>1. Removed(d) = e
  BY DEF Removed
<1>2. /\ IsDir(b) /\ b.ratings = d.ratings /\ b.mtime = d.mtime /\ b.rmeta = d.rmeta
      /\ b.valences = NoFile
  BY PutValences
<1> HIDE DEF b
<1>3. /\ IsDir(c) /\ c.ratings = b.ratings /\ c.mtime = b.mtime /\ c.rmeta = b.rmeta
      /\ c.valences = b.valences /\ c.bb = NoFile
  BY <1>2, PutBb
<1> HIDE DEF c
<1>4. /\ IsDir(e) /\ e.ratings = c.ratings /\ e.mtime = c.mtime /\ e.rmeta = c.rmeta
      /\ e.valences = c.valences /\ e.bb = c.bb /\ e.ds = NoFile
  BY <1>3, PutDs
<1> HIDE DEF e
<1> QED  BY <1>1, <1>2, <1>3, <1>4

LEMMA LoadConfigFacts ==
    ASSUME NEW d, IsDir(d)
    PROVE  LET e == LoadConfig(d).dir IN
           /\ IsDir(e) /\ e.ratings = d.ratings /\ e.mtime = d.mtime
           /\ \/ e = d
              \/ /\ e.rmeta = [mtime |-> d.mtime, be |-> Counted(d.ratings)]
                 /\ e.valences = NoFile /\ e.bb = NoFile /\ e.ds = NoFile
<1> DEFINE r == Recorded(d)
<1>1. LoadConfig(d).dir = IF Kept(d) THEN d ELSE Removed(r)
  BY DEF LoadConfig
<1>2. /\ IsDir(r) /\ r.ratings = d.ratings /\ r.mtime = d.mtime
      /\ r.rmeta = [mtime |-> d.mtime, be |-> Counted(d.ratings)]
  BY RecordedFacts
<1> HIDE DEF r
<1> QED  BY <1>1, <1>2, RemovedFacts

\* A program that dies in load_config_file() leaves the ratings and their time.
LEMMA DiesLoadingFacts ==
    ASSUME IsDir(dir), DiesLoading
    PROVE  /\ hasty' = hasty /\ IsDir(dir') /\ dir'.ratings = dir.ratings /\ dir'.mtime = dir.mtime
           /\ \/ halfway' = halfway /\ (dir' = dir \/ dir' = Emptied(dir))
              \/ halfway' = TRUE /\ dir' = Recorded(dir)
<1>1. \/ halfway' = halfway /\ (dir' = dir \/ dir' = Emptied(dir))
      \/ halfway' = TRUE /\ dir' = Recorded(dir)
  BY DEF DiesLoading
<1>2. hasty' = hasty
  BY DEF DiesLoading
<1> QED  BY <1>1, <1>2, EmptiedFacts, RecordedFacts

LEMMA CachedFacts ==
    ASSUME NEW d, IsDir(d), NEW v
    PROVE  LET e == Cached(d, v) IN
           /\ IsDir(e) /\ e.ratings = d.ratings /\ e.mtime = d.mtime /\ e.rmeta = d.rmeta
           /\ e.valences = d.valences /\ e.bb \in {d.bb, v} /\ e.ds = d.ds
<1> DEFINE e == Cached(d, v)
<1>1. e = d \/ e = [d EXCEPT !.bb = v]
  BY DEF Cached
<1> HIDE DEF e
<1>2. CASE e = d
  BY <1>2 DEF e
<1>3. CASE e = [d EXCEPT !.bb = v]
  <2>1. /\ IsDir(e) /\ e.ratings = d.ratings /\ e.mtime = d.mtime /\ e.rmeta = d.rmeta
        /\ e.valences = d.valences /\ e.bb = v /\ e.ds = d.ds
    BY <1>3, PutBb
  <2> QED  BY <2>1 DEF e
<1> QED  BY <1>1, <1>2, <1>3

LEMMA CachedDSFacts ==
    ASSUME NEW d, IsDir(d), NEW v
    PROVE  LET e == CachedDS(d, v) IN
           /\ IsDir(e) /\ e.ratings = d.ratings /\ e.mtime = d.mtime /\ e.rmeta = d.rmeta
           /\ e.valences = d.valences /\ e.bb = d.bb /\ e.ds \in {d.ds, v}
<1> DEFINE e == CachedDS(d, v)
<1>1. e = d \/ e = [d EXCEPT !.ds = v]
  BY DEF CachedDS
<1> HIDE DEF e
<1>2. CASE e = d
  BY <1>2 DEF e
<1>3. CASE e = [d EXCEPT !.ds = v]
  <2>1. /\ IsDir(e) /\ e.ratings = d.ratings /\ e.mtime = d.mtime /\ e.rmeta = d.rmeta
        /\ e.valences = d.valences /\ e.bb = d.bb /\ e.ds = v
    BY <1>3, PutDs
  <2> QED  BY <2>1 DEF e
<1> QED  BY <1>1, <1>2, <1>3

BaseLines == [id : {0}, person : Nat \ {0}, elt : Nat \ {0}, rating : 1..32, comma : {FALSE}]

LEMMA BaseIsLines ==
    /\ Base \in Seq(BaseLines) /\ Base \in Seq(Lines)
    /\ \A k \in 1..Len(Base) : Base[k].id = 0
<1>1. Base \in Seq(BaseLines)
  BY PipelineAssumption, Zenon DEF BaseLines
<1>2. BaseLines \subseteq Lines
  <2> SUFFICES ASSUME NEW b \in BaseLines PROVE b \in Lines
    OBVIOUS
  <2>1. b.comma \in BOOLEAN
    BY DEF BaseLines
  <2>2. /\ b = [id |-> b.id, person |-> b.person, elt |-> b.elt, rating |-> b.rating, comma |-> b.comma]
        /\ b.id \in Nat /\ b.person \in Nat \ {0} /\ b.elt \in Nat \ {0} /\ b.rating \in 0..32
    BY DEF BaseLines
  <2> QED  BY <2>1, <2>2, Zenon DEF Lines
<1>3. \A k \in 1..Len(Base) : Base[k] \in BaseLines
  BY <1>1
<1>4. \A l \in BaseLines : l.id = 0
  BY DEF BaseLines
<1> QED  BY <1>1, <1>2, <1>3, <1>4

LEMMA FeedIsFinite == Len(Feed) \in Nat
<1> DEFINE feed == [person : {Base[k].person : k \in DOMAIN Base}, elt : {Base[k].elt : k \in DOMAIN Base}]
<1>1. Feed \in Seq(feed)
  BY PipelineAssumption, Zenon
<1> HIDE DEF feed
<1> QED  BY <1>1

LEMMA EventLineIsLine ==
    ASSUME NEW n \in 1..Len(Feed)
    PROVE  EventLine(n) \in Lines /\ EventLine(n).id = n /\ n \in Nat
<1> DEFINE people == {Base[k].person : k \in DOMAIN Base}
           elts   == {Base[k].elt : k \in DOMAIN Base}
           feed   == [person : people, elt : elts]
<1>1. ASSUME NEW k \in DOMAIN Base
      PROVE  Base[k].person \in Nat \ {0} /\ Base[k].elt \in Nat \ {0}
  <2>1. Base[k] \in BaseLines
    BY BaseIsLines
  <2> QED  BY <2>1 DEF BaseLines
<1>2. people \subseteq Nat \ {0} /\ elts \subseteq Nat \ {0}
  BY <1>1
<1>3. Feed \in Seq(feed)
  BY PipelineAssumption, Zenon
<1> HIDE DEF people, elts, feed
<1>4. Feed[n] \in feed /\ n \in Nat
  BY <1>3
<1>5. Feed[n].person \in Nat \ {0} /\ Feed[n].elt \in Nat \ {0}
  BY <1>2, <1>4 DEF feed
<1> QED  BY <1>4, <1>5 DEF EventLine, Lines

LEMMA EventLinesAreLines ==
    ASSUME NEW g \in 0..Len(Feed), NEW r \in Seq(1..g)
    PROVE  /\ [k \in DOMAIN r |-> EventLine(r[k])] \in Seq(Lines)
           /\ Len([k \in DOMAIN r |-> EventLine(r[k])]) = Len(r)
<1>1. \A k \in 1..Len(r) : EventLine(r[k]) \in Lines
  <2> TAKE k \in 1..Len(r)
  <2>1. r[k] \in 1..Len(Feed)
    BY FeedIsFinite
  <2> QED  BY <2>1, EventLineIsLine
<1>2. DOMAIN r = 1..Len(r) /\ Len(r) \in Nat
  OBVIOUS
<1> QED  BY <1>1, <1>2

LEMMA FilesInit == Init => Files
<1> SUFFICES ASSUME Init PROVE Files
  OBVIOUS
<1>1. Base \in Seq(Lines)
  BY BaseIsLines
<1>2. IsDir(dir) /\ (~ratings_gen => dir.ratings \in Seq(Lines))
  BY <1>1 DEF Init, IsDir
<1>3. events \in Seq(Lines) /\ <<>> \in Seq(1..0)
  BY <1>1 DEF Init
<1>4. got = 0 /\ ram = <<>> /\ saved = <<>> /\ Len(Feed) \in Nat
  BY PipelineAssumption DEF Init
<1>5. got \in 0..Len(Feed) /\ ram \in Seq(1..got) /\ saved \in Seq(1..got)
  BY <1>3, <1>4
<1> QED  BY <1>2, <1>3, <1>5 DEF Init, Files, Steps

Programs == Program \/ RatgenDies \/ ValgenDies \/ RecgenCDies \/ RecgenDDies

\* What each program leaves in the directory: with d, the one it finds after it
\* has read its configuration.
LEMMA ProgramFacts ==
    ASSUME Files, Programs
    PROVE  LET d == LoadConfig(dir).dir IN
           /\ ProgramOnly
           /\ \/ DiesLoading
              \/ /\ pc = "ratgen" /\ halfway' = halfway
                 /\ \E r : /\ WriteRatings(d, r)
                           /\ \/ r = <<>>
                              \/ \E junk \in Junk : r = RatingsFile(events, junk)
              \/ /\ UNCHANGED <<hasty, halfway>>
                 /\ IsDir(dir') /\ dir'.ratings = d.ratings /\ dir'.mtime = d.mtime /\ dir'.rmeta = d.rmeta
                 /\ {dir'.valences, dir'.bb, dir'.ds} \subseteq {d.valences, d.bb, d.ds, d.ratings, NoFile}
           /\ pc = "ratgen" => pc' = "valgen"
           /\ pc' \in {"valgen", "recgen -c", "recgen -d", "recgen -b"}
<1> DEFINE d == LoadConfig(dir).dir
           Leaves(e) == /\ IsDir(e) /\ e.ratings = d.ratings /\ e.mtime = d.mtime /\ e.rmeta = d.rmeta
                        /\ {e.valences, e.bb, e.ds} \subseteq {d.valences, d.bb, d.ds, d.ratings, NoFile}
           Wrote == \E r : /\ WriteRatings(d, r)
                           /\ r = <<>> \/ \E junk \in Junk : r = RatingsFile(events, junk)
<1>1. IsDir(d)
  BY LoadConfigFacts DEF Files
<1>2. Leaves(d)
  BY <1>1
<1>3. \A v \in {d.ratings, NoFile} : Leaves([d EXCEPT !.valences = v])
  BY <1>1, PutValences
<1>4. \A v \in {d.valences, NoFile} : Leaves(Cached(d, v)) /\ Leaves(CachedDS(d, v))
  BY <1>1, CachedFacts, CachedDSFacts
<1>5. ASSUME RunRatgen
      PROVE  Wrote /\ pc = "ratgen" /\ pc' = "valgen" /\ halfway' = halfway /\ ProgramOnly
  <2>1. PICK junk \in Junk : \E r \in RatgenResults(events, junk) : WriteRatings(d, r)
    BY <1>5 DEF RunRatgen
  <2>2. PICK r \in RatgenResults(events, junk) : WriteRatings(d, r)
    BY <2>1
  <2> HIDE DEF d
  <2>3. r = RatingsFile(events, junk) \/ r = <<>>
    BY DEF RatgenResults
  <2>4. Wrote
    BY <2>2, <2>3
  <2> QED  BY <1>5, <2>4 DEF RunRatgen, Goto
<1>6. ASSUME RatgenDies
      PROVE  /\ DiesLoading \/ (Wrote /\ halfway' = halfway)
             /\ pc = "ratgen" /\ pc' = "valgen" /\ ProgramOnly
  BY <1>6 DEF RatgenDies, Goto
<1>7. ASSUME RunValgen
      PROVE  /\ Leaves(dir') /\ UNCHANGED <<hasty, halfway>>
             /\ pc = "valgen" /\ pc' = "recgen -c" /\ ProgramOnly
  <2>1. dir' = d \/ dir' = [d EXCEPT !.valences = d.ratings]
    BY <1>7 DEF RunValgen
  <2>2. Leaves(dir')
    <3> HIDE DEF Leaves, d
    <3> QED  BY <1>2, <1>3, <2>1
  <2> QED  BY <1>7, <2>2 DEF RunValgen, Goto
<1>8. ASSUME ValgenDies
      PROVE  /\ DiesLoading \/ (Leaves(dir') /\ UNCHANGED <<hasty, halfway>>)
             /\ pc = "valgen" /\ pc' = "recgen -c" /\ ProgramOnly
  <2>1. DiesLoading \/ (UNCHANGED <<hasty, halfway>> /\ (dir' = d \/ dir' = [d EXCEPT !.valences = NoFile]))
    BY <1>8 DEF ValgenDies, DiesWith
  <2>2. DiesLoading \/ (Leaves(dir') /\ UNCHANGED <<hasty, halfway>>)
    <3> HIDE DEF Leaves, d
    <3> QED  BY <1>2, <1>3, <2>1
  <2> QED  BY <1>8, <2>2 DEF ValgenDies, Goto
<1>9. ASSUME RunRecgenC \/ RunRecgenD
      PROVE  /\ Leaves(dir') /\ UNCHANGED <<hasty, halfway>>
             /\ pc # "ratgen" /\ pc' \in {"recgen -d", "recgen -b"} /\ ProgramOnly
  <2>1. dir' = Cached(d, d.valences) \/ dir' = CachedDS(d, d.valences)
    BY <1>9 DEF RunRecgenC, RunRecgenD
  <2>2. Leaves(dir')
    <3> HIDE DEF Leaves, d
    <3> QED  BY <1>4, <2>1
  <2> QED  BY <1>9, <2>2 DEF RunRecgenC, RunRecgenD, Goto
<1>10. ASSUME RecgenCDies \/ RecgenDDies
       PROVE  /\ DiesLoading \/ (Leaves(dir') /\ UNCHANGED <<hasty, halfway>>)
              /\ pc # "ratgen" /\ pc' \in {"recgen -d", "recgen -b"} /\ ProgramOnly
  <2>1. \/ DiesLoading
        \/ UNCHANGED <<hasty, halfway>> /\ (dir' = d \/ dir' = Cached(d, NoFile) \/ dir' = CachedDS(d, NoFile))
    BY <1>10 DEF RecgenCDies, RecgenDDies, DiesWith
  <2>2. DiesLoading \/ (Leaves(dir') /\ UNCHANGED <<hasty, halfway>>)
    <3> HIDE DEF Leaves, d
    <3> QED  BY <1>2, <1>4, <2>1
  <2> QED  BY <1>10, <2>2 DEF RecgenCDies, RecgenDDies, Goto
<1> HIDE DEF Leaves, Wrote
<1>11. /\ ProgramOnly
       /\ \/ DiesLoading
          \/ pc = "ratgen" /\ halfway' = halfway /\ Wrote
          \/ UNCHANGED <<hasty, halfway>> /\ Leaves(dir')
       /\ pc = "ratgen" => pc' = "valgen"
       /\ pc' \in {"valgen", "recgen -c", "recgen -d", "recgen -b"}
  BY <1>5, <1>6, <1>7, <1>8, <1>9, <1>10 DEF Programs, Program
<1> QED  BY <1>11 DEF Leaves, Wrote

\* The programs of a pass write to the directory only.
LEMMA FilesProgram ==
    ASSUME Files, Programs
    PROVE  Files' /\ (dir'.ratings = dir.ratings \/ ratings_gen)
<1> DEFINE d == LoadConfig(dir).dir
<1>1. IsDir(dir) /\ IsDir(d) /\ d.ratings = dir.ratings
  BY LoadConfigFacts DEF Files
<1> HIDE DEF d
<1>2. /\ ProgramOnly /\ pc' \in {"valgen", "recgen -c", "recgen -d", "recgen -b"}
      /\ \/ DiesLoading
         \/ pc = "ratgen" /\ \E r : WriteRatings(d, r)
         \/ IsDir(dir') /\ dir'.ratings = d.ratings
  BY ProgramFacts DEF d
<1>3. IsDir(dir') /\ (dir'.ratings = dir.ratings \/ ratings_gen)
  <2>1. CASE DiesLoading
    BY <1>1, <2>1, DiesLoadingFacts
  <2>2. CASE pc = "ratgen" /\ \E r : WriteRatings(d, r)
    <3>1. PICK r : WriteRatings(d, r)
      BY <2>2
    <3>2. IsDir(dir')
      BY <1>1, <3>1, NewRatingsFacts
    <3> QED  BY <2>2, <3>2 DEF Files
  <2>3. CASE IsDir(dir') /\ dir'.ratings = d.ratings
    BY <1>1, <2>3
  <2> QED  BY <1>2, <2>1, <2>2, <2>3
<1> QED  BY <1>2, <1>3 DEF Files, ProgramOnly, recgenVars, Steps

LEMMA FilesScript ==
    ASSUME Files, Script
    PROVE  Files'
<1>1. CASE RemoveEvents
  BY <1>1 DEF RemoveEvents, ScriptOnly, Goto, Files, Steps
<1>2. CASE SignalRecgen
  <2>1. UNCHANGED <<ram, fp>> \/ (ram' = <<>> /\ fp' = "closed")
    BY <1>2 DEF SignalRecgen, Gone
  <2>2. <<>> \in Seq(1..got)
    OBVIOUS
  <2>3. /\ UNCHANGED <<ratings_gen, reused, dir, events, bmh_events, got, saved>>
        /\ pc = "signal" /\ pc' = "wait"
    BY <1>2 DEF SignalRecgen, ScriptOnly, Goto, fileVars
  <2> QED  BY <2>1, <2>2, <2>3 DEF Files, Steps
<1>3. CASE StartRecgen
  <2>1. <<>> \in Seq(1..got)
    OBVIOUS
  <2> QED  BY <1>3, <2>1 DEF StartRecgen, ScriptOnly, Goto, Files, Steps, fileVars
<1>4. CASE AddEvents
  <2>1. /\ bmh_events \in Seq(Lines) /\ pc' = "processed"
        /\ UNCHANGED <<ratings_gen, reused, bmh_events, recgenVars, saved>>
    BY <1>4 DEF AddEvents, Files, Goto
  <2>2. events' \in Seq(Lines)
    BY <1>4, <2>1 DEF AddEvents, Files
  <2>3. IsDir(dir') /\ (~ratings_gen => dir'.ratings \in Seq(Lines))
    <3>1. CASE ratings_gen \/ bmh_events = <<>>
      BY <1>4, <3>1 DEF AddEvents, Files
    <3>2. CASE ~(ratings_gen \/ bmh_events = <<>>)
      <4> DEFINE r == dir.ratings \o bmh_events
      <4>0. WriteRatings(dir, r)
        BY <1>4, <3>2 DEF AddEvents
      <4> HIDE DEF r
      <4>1. IsDir(dir)
        BY DEF Files
      <4>2. IsDir(dir') /\ dir'.ratings = r
        BY <4>0, <4>1, NewRatingsFacts
      <4>3. dir.ratings \in Seq(Lines)
        BY <3>2 DEF Files
      <4>4. r \in Seq(Lines)
        BY <2>1, <4>3 DEF r
      <4> QED  BY <4>2, <4>4
    <3> QED  BY <3>1, <3>2
  <2> QED  BY <2>1, <2>2, <2>3 DEF Files, Steps, recgenVars
<1>5. CASE AddProcessed
  BY <1>5 DEF AddProcessed, ScriptOnly, Goto, Files, Steps, recgenVars
<1> QED  BY <1>1, <1>2, <1>3, <1>4, <1>5 DEF Script

LEMMA FilesRecgen ==
    ASSUME Files, Recgen \/ Receive \/ RecgenDies
    PROVE  Files'
<1>0. <<>> \in Seq(1..got)
  OBVIOUS
<1>1. CASE CountRatings \/ Invalidate
  <2>1. dir' = dir \/ dir' = Recorded(dir) \/ dir' = Removed(dir)
    BY <1>1 DEF CountRatings, Invalidate
  <2>2. IsDir(dir') /\ dir'.ratings = dir.ratings
    BY <2>1, RecordedFacts, RemovedFacts DEF Files
  <2>3. UNCHANGED <<bmh_events, got, ram, fp, saved, ratings_gen, events, reused, pc>>
    BY <1>1 DEF CountRatings, Invalidate, RecgenOnly, scriptVars
  <2> QED  BY <2>2, <2>3 DEF Files
<1>2. CASE Started \/ Reload
  <2>1. UNCHANGED <<dir, bmh_events, got, saved, ratings_gen, events, reused, pc>>
    BY <1>2 DEF Started, Reload, RecgenOnly, scriptVars
  <2>2. UNCHANGED <<ram, fp>> \/ (ram' = <<>> /\ fp' = "closed")
    BY <1>2 DEF Started, Reload, LoadStore, Gone
  <2> QED  BY <1>0, <2>1, <2>2 DEF Files
<1>3. CASE OpenEvents
  <2>1. <<>> \in Seq(Lines) /\ <<>> # NoFile
    BY NoFileIsNone
  <2> QED  BY <1>3, <2>1 DEF OpenEvents, RecgenOnly, scriptVars, Files
<1>4. CASE WriteEvents
  <2> DEFINE lines == [k \in DOMAIN ram |-> EventLine(ram[k])]
  <2>1. lines \in Seq(Lines)
    BY EventLinesAreLines DEF Files
  <2>2. bmh_events' = IF fp = "removed" THEN bmh_events ELSE bmh_events \o lines
    BY <1>4 DEF WriteEvents
  <2> HIDE DEF lines
  <2>3. fp = "removed" \/ bmh_events \in Seq(Lines)
    BY <1>4 DEF WriteEvents, Files
  <2>4. bmh_events' \in Seq(Lines) \cup {NoFile}
    BY <2>1, <2>2, <2>3 DEF Files
  <2>5. /\ saved' = saved \o ram /\ ram' = <<>> /\ fp' = "closed"
        /\ UNCHANGED <<dir, got, ratings_gen, events, reused, pc>>
    BY <1>4 DEF WriteEvents, RecgenOnly, scriptVars
  <2>6. saved' \in Seq(1..got)
    BY <2>5 DEF Files
  <2> QED  BY <1>0, <2>4, <2>5, <2>6 DEF Files
<1>5. CASE Receive
  <2>1. /\ got < Len(Feed) /\ got' = got + 1 /\ ram' = Append(ram, got + 1)
        /\ UNCHANGED <<dir, saved, bmh_events, fp, ratings_gen, events, reused, pc>>
    BY <1>5 DEF Receive, RecgenOnly, scriptVars
  <2>2. Len(Feed) \in Nat
    BY PipelineAssumption
  <2>3. got' \in 0..Len(Feed) /\ 1..got \subseteq 1..got' /\ got + 1 \in 1..got'
    BY <2>1, <2>2 DEF Files
  <2>4. ram \in Seq(1..got') /\ saved \in Seq(1..got')
    BY <2>3 DEF Files
  <2>5. ram' \in Seq(1..got')
    BY <2>1, <2>3, <2>4
  <2> QED  BY <2>1, <2>3, <2>4, <2>5 DEF Files
<1>6. CASE RecgenDies
  BY <1>0, <1>6 DEF RecgenDies, Gone, RecgenOnly, scriptVars, Files
<1> QED  BY <1>1, <1>2, <1>3, <1>4, <1>5, <1>6 DEF Recgen

LEMMA FilesStep ==
    ASSUME Files, [Next]_vars
    PROVE  Files'
<1>1. CASE UNCHANGED vars
  BY <1>1 DEF Files, vars, scriptVars, fileVars, recgenVars, history
<1> QED  BY <1>1, FilesProgram, FilesScript, FilesRecgen DEF Next, Faults, Programs

-----------------------------------------------------------------------------
(* Caches. *)

LEMMA CacheInit == Init => CacheInv
<1> SUFFICES ASSUME Init PROVE CacheInv
  OBVIOUS
<1>1. dir.mtime = 0 /\ dir.rmeta = NoFile /\ hasty = FALSE /\ halfway = FALSE /\ recgen = "none"
  BY DEF Init
<1>2. CacheOK(dir, hasty, Loose)
  BY <1>1 DEF CacheOK, UseCache
<1>3. ServesCurrent
  BY <1>1 DEF ServesCurrent, ServesAllRatings
<1> QED  BY <1>1, <1>2, <1>3, FilesInit DEF CacheInv

\* A program that has read its configuration has a directory that is checked.
LEMMA LoadedIsOK ==
    ASSUME NoFileApart, NEW d, NEW short, NEW loose, IsDir(d), CacheOK(d, short, loose)
    PROVE  CacheOK(LoadConfig(d).dir, short, loose)
<1> DEFINE e == LoadConfig(d).dir
           m == [mtime |-> d.mtime, be |-> Counted(d.ratings)]
<1>1. /\ e.ratings = d.ratings /\ e.mtime = d.mtime
      /\ e = d \/ (e.rmeta = m /\ e.valences = NoFile /\ e.bb = NoFile /\ e.ds = NoFile)
  BY LoadConfigFacts
<1>2. m # NoFile /\ m.mtime = d.mtime /\ m.be = Counted(d.ratings)
  BY DEF NoFileApart
<1> HIDE DEF e, m
<1>3. CacheOK(e, short, loose)
  BY <1>1, <1>2 DEF CacheOK
<1> QED  BY <1>3 DEF e

LEMMA RecordedIsOK ==
    ASSUME NoFileApart, NEW d, NEW short, NEW loose, IsDir(d), CacheOK(d, short, loose)
    PROVE  CacheOK(Recorded(d), short, TRUE)
<1> DEFINE e == Recorded(d)
           m == [mtime |-> d.mtime, be |-> Counted(d.ratings)]
<1>1. e.ratings = d.ratings /\ e.mtime = d.mtime /\ e.rmeta = m
  BY RecordedFacts
<1>2. m # NoFile /\ m.mtime = d.mtime /\ m.be = Counted(d.ratings)
  BY DEF NoFileApart
<1> HIDE DEF e, m
<1>3. CacheOK(e, short, TRUE)
  BY <1>1, <1>2 DEF CacheOK
<1> QED  BY <1>3 DEF e

\* What a program computes from what belongs to the ratings does so too.
LEMMA PutIsOK ==
    ASSUME NEW d, NEW e, NEW short, NEW loose, CacheOK(d, short, loose),
           e.ratings = d.ratings, e.mtime = d.mtime, e.rmeta = d.rmeta,
           {e.valences, e.bb, e.ds} \subseteq {d.valences, d.bb, d.ds, d.ratings, NoFile}
    PROVE  CacheOK(e, short, loose)
<1>1. UseCache(e) <=> UseCache(d)
  BY DEF UseCache
<1> QED  BY <1>1 DEF CacheOK

\* Where nothing that comes from ratings is left, nothing is old.
LEMMA RemovedIsOK ==
    ASSUME NEW d, NEW short, NEW loose, NEW less, IsDir(d), CacheOK(d, short, loose)
    PROVE  CacheOK(Removed(d), short, less)
<1> DEFINE e == Removed(d)
<1>1. /\ e.ratings = d.ratings /\ e.mtime = d.mtime /\ e.rmeta = d.rmeta
      /\ e.valences = NoFile /\ e.bb = NoFile /\ e.ds = NoFile
  BY RemovedFacts
<1> HIDE DEF e
<1>2. UseCache(e) <=> UseCache(d)
  BY <1>1 DEF UseCache
<1>3. CacheOK(e, short, less)
  BY <1>1, <1>2 DEF CacheOK
<1> QED  BY <1>3 DEF e

\* New ratings have a new time, or the second was too short.
LEMMA WriteRatingsOK ==
    ASSUME NEW d, IsDir(d), NEW r, NEW loose, CacheOK(d, hasty, loose), hasty \in BOOLEAN, WriteRatings(d, r)
    PROVE  CacheOK(dir', hasty', loose) /\ dir'.ratings = r /\ hasty' \in BOOLEAN
<1>1. PICK tick \in BOOLEAN :
         /\ dir'.ratings = r /\ dir'.rmeta = d.rmeta
         /\ dir'.mtime = IF tick THEN d.mtime + 1 ELSE d.mtime
         /\ hasty' = (hasty \/ ~tick)
  BY NewRatingsFacts
<1>2. d.mtime \in Nat /\ (d.rmeta # NoFile => d.rmeta.mtime \in Nat /\ d.rmeta.mtime <= d.mtime)
  BY DEF CacheOK
<1>3. dir'.mtime \in Nat /\ d.mtime <= dir'.mtime /\ (tick => d.mtime < dir'.mtime)
  BY <1>1, <1>2
<1>4. ASSUME tick, dir'.rmeta # NoFile
      PROVE  dir'.rmeta.mtime # dir'.mtime
  BY <1>1, <1>2, <1>3, <1>4
<1>5. hasty' \/ ~UseCache(dir')
  BY <1>1, <1>4 DEF UseCache
<1>6. dir'.rmeta # NoFile => dir'.rmeta.mtime \in Nat /\ dir'.rmeta.mtime <= dir'.mtime
  BY <1>1, <1>2, <1>3
<1> QED  BY <1>1, <1>3, <1>5, <1>6 DEF CacheOK

\* A death in load_config_file() may leave old valences under a new time: then
\* it is remembered.
LEMMA CacheDies ==
    ASSUME NoFileApart, CacheInv, DiesLoading, recgen' = recgen
    PROVE  CacheOK(dir', hasty', Loose') /\ hasty' = hasty /\ halfway' \in BOOLEAN
<1>1. IsDir(dir) /\ CacheOK(dir, hasty, Loose) /\ halfway \in BOOLEAN
  BY DEF CacheInv, Files
<1>2. /\ hasty' = hasty
      /\ \/ halfway' = halfway /\ (dir' = dir \/ dir' = Emptied(dir))
         \/ halfway' = TRUE /\ dir' = Recorded(dir)
  BY <1>1, DiesLoadingFacts
<1>3. CASE halfway' = halfway /\ dir' = dir
  BY <1>1, <1>2, <1>3 DEF Loose
<1>4. CASE halfway' = halfway /\ dir' = Emptied(dir)
  <2> DEFINE e == Emptied(dir)
  <2>1. e.mtime = dir.mtime /\ e.rmeta = NoFile
    BY <1>1, EmptiedFacts
  <2> HIDE DEF e
  <2>2. CacheOK(e, hasty, Loose)
    BY <1>1, <2>1 DEF CacheOK, UseCache
  <2>3. dir' = e /\ Loose' = Loose
    BY <1>4 DEF Loose, e
  <2> QED  BY <1>1, <1>2, <1>4, <2>2, <2>3
<1>5. CASE halfway' = TRUE /\ dir' = Recorded(dir)
  <2>1. CacheOK(dir', hasty, TRUE)
    BY <1>1, <1>5, RecordedIsOK
  <2>2. Loose' = TRUE
    BY <1>5 DEF Loose
  <2> QED  BY <1>2, <1>5, <2>1, <2>2
<1> QED  BY <1>2, <1>3, <1>4, <1>5

LEMMA CacheProgram ==
    ASSUME NoFileApart, CacheInv, Programs
    PROVE  CacheInv'
<1> DEFINE d == LoadConfig(dir).dir
<1>1. /\ IsDir(d) /\ CacheOK(d, hasty, Loose) /\ hasty \in BOOLEAN /\ halfway \in BOOLEAN
  <2>1. IsDir(dir) /\ CacheOK(dir, hasty, Loose) /\ hasty \in BOOLEAN /\ halfway \in BOOLEAN
    BY DEF CacheInv, Files
  <2> QED  BY <2>1, LoadConfigFacts, LoadedIsOK
<1>2. /\ recgen' = recgen /\ pc' # "wait"
      /\ \/ DiesLoading
         \/ halfway' = halfway /\ \E r : WriteRatings(d, r)
         \/ /\ UNCHANGED <<hasty, halfway>>
            /\ dir'.ratings = d.ratings /\ dir'.mtime = d.mtime /\ dir'.rmeta = d.rmeta
            /\ {dir'.valences, dir'.bb, dir'.ds} \subseteq {d.valences, d.bb, d.ds, d.ratings, NoFile}
  <2>1. Files
    BY DEF CacheInv
  <2> QED  BY <2>1, ProgramFacts DEF ProgramOnly, recgenVars
<1> HIDE DEF d
<1>3. CacheOK(dir', hasty', Loose') /\ hasty' \in BOOLEAN /\ halfway' \in BOOLEAN
  <2>1. CASE DiesLoading
    BY <1>1, <1>2, <2>1, CacheDies
  <2>2. ASSUME halfway' = halfway, NEW r, WriteRatings(d, r)
        PROVE  CacheOK(dir', hasty', Loose') /\ hasty' \in BOOLEAN
    <3>1. CacheOK(dir', hasty', Loose) /\ hasty' \in BOOLEAN
      BY <1>1, <2>2, WriteRatingsOK
    <3>2. Loose' = Loose
      BY <1>2, <2>2 DEF Loose
    <3> QED  BY <3>1, <3>2
  <2>3. CASE /\ UNCHANGED <<hasty, halfway>>
             /\ dir'.ratings = d.ratings /\ dir'.mtime = d.mtime /\ dir'.rmeta = d.rmeta
             /\ {dir'.valences, dir'.bb, dir'.ds} \subseteq {d.valences, d.bb, d.ds, d.ratings, NoFile}
    <3>1. CacheOK(dir', hasty, Loose)
      BY <1>1, <2>3, PutIsOK
    <3>2. Loose' = Loose /\ hasty' = hasty
      BY <1>2, <2>3 DEF Loose
    <3> QED  BY <1>1, <2>3, <3>1, <3>2
  <2> QED  BY <1>1, <1>2, <2>1, <2>2, <2>3
<1>4. Files'
  BY FilesProgram DEF CacheInv
<1>5. ServesCurrent'
  BY <1>2 DEF ServesCurrent, ServesAllRatings
<1> QED  BY <1>3, <1>4, <1>5 DEF CacheInv

\* recgen ends, or a new one takes its place: if it had written rmetacache.txt
\* and removed nothing, that is remembered.
LEMMA GoneIsLoose ==
    ASSUME halfway \in BOOLEAN, recgen' # "counted", halfway' = (halfway \/ recgen = "counted")
    PROVE  Loose' = Loose /\ halfway' \in BOOLEAN
BY DEF Loose

LEMMA CacheScript ==
    ASSUME CacheInv, Script
    PROVE  CacheInv'
<1>0. Files' /\ hasty \in BOOLEAN /\ halfway \in BOOLEAN /\ IsDir(dir) /\ CacheOK(dir, hasty, Loose)
  BY FilesScript DEF CacheInv, Files
<1>1. CASE RemoveEvents \/ AddProcessed
  <2>1. UNCHANGED <<dir, hasty, halfway, recgen>> /\ pc' # "wait"
    BY <1>1 DEF RemoveEvents, AddProcessed, ScriptOnly, Goto, recgenVars
  <2>2. Loose' = Loose
    BY <2>1 DEF Loose
  <2> QED  BY <1>0, <2>1, <2>2 DEF CacheInv, ServesCurrent, ServesAllRatings
<1>2. CASE StartRecgen
  <2>1. UNCHANGED <<dir, hasty>> /\ recgen' = "starting" /\ halfway' = (halfway \/ recgen = "counted")
    BY <1>2 DEF StartRecgen, ScriptOnly, fileVars
  <2>2. Loose' = Loose /\ halfway' \in BOOLEAN
    BY <1>0, <2>1, GoneIsLoose
  <2> QED  BY <1>0, <2>1, <2>2 DEF CacheInv, ServesCurrent, ServesAllRatings
<1>3. CASE SignalRecgen
  <2>1. UNCHANGED <<dir, hasty>>
    BY <1>3 DEF SignalRecgen, ScriptOnly, fileVars
  <2>2. CASE Gone
    <3>1. recgen' = "none" /\ halfway' = (halfway \/ recgen = "counted")
      BY <2>2 DEF Gone
    <3>2. Loose' = Loose /\ halfway' \in BOOLEAN
      BY <1>0, <3>1, GoneIsLoose
    <3> QED  BY <1>0, <2>1, <3>1, <3>2 DEF CacheInv, ServesCurrent, ServesAllRatings
  <2>3. CASE usr1' = (recgen # "none") /\ UNCHANGED <<recgen, halfway>>
    <3>1. Loose' = Loose /\ (recgen' = "up" => usr1')
      BY <2>3 DEF Loose
    <3> QED  BY <1>0, <2>1, <2>3, <3>1 DEF CacheInv, ServesCurrent, ServesAllRatings
  <2> QED  BY <1>3, <2>2, <2>3 DEF SignalRecgen
<1>4. CASE AddEvents
  <2>1. pc' = "processed" /\ UNCHANGED <<recgen, halfway>>
    BY <1>4 DEF AddEvents, Goto, recgenVars
  <2>2. Loose' = Loose
    BY <2>1 DEF Loose
  <2>3. CacheOK(dir', hasty', Loose) /\ hasty' \in BOOLEAN
    <3>1. CASE UNCHANGED <<dir, hasty>>
      BY <1>0, <3>1
    <3>2. CASE WriteRatings(dir, dir.ratings \o bmh_events)
      <4> DEFINE r == dir.ratings \o bmh_events
      <4>1. WriteRatings(dir, r)
        BY <3>2
      <4> HIDE DEF r
      <4> QED  BY <1>0, <4>1, WriteRatingsOK
    <3> QED  BY <1>4, <3>1, <3>2 DEF AddEvents
  <2>4. ServesCurrent'
    BY <2>1 DEF ServesCurrent, ServesAllRatings
  <2> QED  BY <1>0, <2>1, <2>2, <2>3, <2>4 DEF CacheInv
<1> QED  BY <1>1, <1>2, <1>3, <1>4 DEF Script

\* Whatever it loads under the time of the ratings comes from them.
LEMMA LoadStoreServes ==
    ASSUME CacheOK(dir, hasty, FALSE), UseCache(dir), LoadStore, recgen' = "up", ~hasty
    PROVE  served' = [bb |-> dir.ratings, ds |-> dir.ratings]
<1>1. dir.bb \in {NoFile, dir.ratings} /\ dir.ds \in {NoFile, dir.ratings}
  BY DEF CacheOK
<1>2. NoFile \notin {dir.bb, dir.ds}
  BY DEF LoadStore, Gone
<1>3. served' = [bb |-> dir.bb, ds |-> dir.ds]
  BY DEF LoadStore, Gone
<1> QED  BY <1>1, <1>2, <1>3

LEMMA CacheRecgen ==
    ASSUME NoFileApart, CacheInv, Recgen \/ Receive \/ RecgenDies
    PROVE  CacheInv'
<1>0. /\ Files' /\ hasty \in BOOLEAN /\ halfway \in BOOLEAN /\ IsDir(dir)
      /\ CacheOK(dir, hasty, Loose) /\ ServesCurrent
  BY FilesRecgen DEF CacheInv, Files
<1>1. UNCHANGED <<pc, hasty>>
  BY DEF Recgen, CountRatings, Invalidate, Started, Reload, OpenEvents, WriteEvents, Receive, RecgenDies,
         RecgenOnly, scriptVars
<1>2. CASE CountRatings
  <2>1. /\ recgen = "starting" /\ halfway' = halfway
        /\ \/ recgen' = "loading" /\ dir' = dir
           \/ recgen' = "counted" /\ dir' = Recorded(dir)
    BY <1>2 DEF CountRatings
  <2>2. CASE recgen' = "loading" /\ dir' = dir
    <3>1. Loose' = Loose
      BY <2>1, <2>2 DEF Loose
    <3> QED  BY <1>0, <1>1, <2>1, <2>2, <3>1 DEF CacheInv, ServesCurrent, ServesAllRatings
  <2>3. CASE recgen' = "counted" /\ dir' = Recorded(dir)
    <3>1. CacheOK(dir', hasty, TRUE)
      BY <1>0, <2>3, RecordedIsOK
    <3>2. Loose' = TRUE
      BY <2>3 DEF Loose
    <3> QED  BY <1>0, <1>1, <2>1, <2>3, <3>1, <3>2 DEF CacheInv, ServesCurrent, ServesAllRatings
  <2> QED  BY <2>1, <2>2, <2>3
<1>3. CASE Invalidate
  <2>1. recgen' = "loading" /\ dir' = Removed(dir) /\ halfway' = halfway
    BY <1>3 DEF Invalidate
  <2>2. CacheOK(dir', hasty, Loose')
    BY <1>0, <2>1, RemovedIsOK
  <2> QED  BY <1>0, <1>1, <2>1, <2>2 DEF CacheInv, ServesCurrent, ServesAllRatings
<1>4. CASE Started \/ Reload
  <2>1. LoadStore /\ dir' = dir /\ recgen # "counted"
    BY <1>4 DEF Started, Reload
  <2>2. recgen' # "counted" /\ halfway' = (halfway \/ recgen = "counted")
    BY <1>0, <2>1 DEF LoadStore, Gone
  <2>3. Loose' = Loose /\ halfway' \in BOOLEAN
    BY <1>0, <2>2, GoneIsLoose
  <2>4. ServesCurrent'
    <3> SUFFICES ASSUME ~halfway', recgen' = "up", ~hasty', UseCache(dir')
                 PROVE  served' = [bb |-> dir'.ratings, ds |-> dir'.ratings]
      BY DEF ServesCurrent, ServesAllRatings
    <3>1. Loose = FALSE
      BY <2>1, <2>2 DEF Loose
    <3>2. UseCache(dir)
      BY <2>1
    <3>3. CacheOK(dir, hasty, FALSE)
      BY <1>0, <3>1
    <3> QED  BY <1>1, <2>1, <3>2, <3>3, LoadStoreServes
  <2> QED  BY <1>0, <1>1, <2>1, <2>3, <2>4 DEF CacheInv
<1>5. CASE OpenEvents \/ WriteEvents \/ Receive
  <2>1. UNCHANGED <<dir, recgen, usr1, served, halfway>>
    BY <1>5 DEF OpenEvents, WriteEvents, Receive
  <2>2. ServesCurrent' /\ Loose' = Loose
    BY <1>0, <1>1, <2>1 DEF ServesCurrent, ServesAllRatings, Loose
  <2> QED  BY <1>0, <1>1, <2>1, <2>2 DEF CacheInv
<1>6. CASE RecgenDies
  <2>1. dir' = dir /\ recgen' = "none" /\ halfway' = (halfway \/ recgen = "counted")
    BY <1>6 DEF RecgenDies, Gone
  <2>2. Loose' = Loose /\ halfway' \in BOOLEAN
    BY <1>0, <2>1, GoneIsLoose
  <2> QED  BY <1>0, <1>1, <2>1, <2>2 DEF CacheInv, ServesCurrent, ServesAllRatings
<1> QED  BY <1>2, <1>3, <1>4, <1>5, <1>6 DEF Recgen

LEMMA CacheAlways ==
    ASSUME NoFileApart
    PROVE  Spec => []CacheInv
<1>1. ASSUME CacheInv, [Next]_vars
      PROVE  CacheInv'
  <2>1. CASE UNCHANGED vars
    <3>1. UNCHANGED <<dir, hasty, halfway, pc, recgen, usr1, served>> /\ Files'
      BY <1>1, <2>1, FilesStep DEF CacheInv, vars, scriptVars, fileVars, recgenVars, history
    <3> QED  BY <1>1, <3>1 DEF CacheInv, ServesCurrent, ServesAllRatings, Loose
  <2> QED  BY <1>1, <2>1, CacheProgram, CacheScript, CacheRecgen DEF Next, Faults, Programs
<1> QED  BY <1>1, CacheInit, PTL DEF Spec

\* The numbers in rmetacache.txt with the time of ratings.out are those of its
\* lines (load_config_file() of src/lib/config.c), unless ratings.out changed
\* twice within a second.
THEOREM CountsCurrentTheorem ==
    ASSUME NoFileApart
    PROVE  Spec => []CountsCurrent
<1>1. CacheInv => CountsCurrent
  BY DEF CacheInv, CacheOK, CountsCurrent
<1> QED  BY <1>1, CacheAlways, PTL

\* While the script waits and rmetacache.txt has the time of ratings.out, recgen
\* serves the valences of all ratings, whatever program died before, but for one
\* that had written rmetacache.txt and not yet removed what was old.
THEOREM ServesCurrentTheorem ==
    ASSUME NoFileApart
    PROVE  Spec => []ServesCurrent
<1>1. CacheInv => ServesCurrent
  BY DEF CacheInv
<1> QED  BY <1>1, CacheAlways, PTL

-----------------------------------------------------------------------------
(* Events. *)

Once(s) == \A j, k \in 1..Len(s) : s[j].id = s[k].id /\ s[j].id # 0 => j = k

Account ==
    /\ Range(saved) \subseteq Waiting \cup IdsOf(Input) \cup late
    /\ Waiting \cup IdsOf(Input) \subseteq Range(saved)
    /\ \A j, k \in 1..Len(ram) : ram[j] = ram[k] => j = k
    /\ Range(ram) \cap Range(saved) = {}
    /\ bmh_events # NoFile => Once(bmh_events)
    /\ pc # "wait" => Waiting \subseteq IdsOf(Input) \cup late
    /\ ~reused => /\ Once(Input)
                  /\ pc \in {"signal", "wait"} => Waiting \cap IdsOf(Input) = {}

AccountInv == Files /\ Account

LEMMA IdsOfLines ==
    ASSUME NEW s \in Seq(Lines)
    PROVE  IdsOf(s) = {s[k].id : k \in 1..Len(s)} \ {0}
<1>1. ASSUME NEW k \in 1..Len(s)
      PROVE  "id" \in DOMAIN s[k]
  <2>1. s[k] \in Lines
    OBVIOUS
  <2> QED  BY <2>1 DEF Lines
<1>2. DOMAIN s = 1..Len(s)
  OBVIOUS
<1>3. {k \in DOMAIN s : "id" \in DOMAIN s[k]} = 1..Len(s)
  BY <1>1, <1>2, Zenon
<1> QED  BY <1>3 DEF IdsOf

LEMMA IdsOfConcat ==
    ASSUME NEW s \in Seq(Lines), NEW t \in Seq(Lines)
    PROVE  /\ IdsOf(s \o t) = IdsOf(s) \cup IdsOf(t)
           /\ (Once(s) /\ Once(t) /\ IdsOf(s) \cap IdsOf(t) = {}) => Once(s \o t)
<1> DEFINE st == s \o t
<1>1. /\ st \in Seq(Lines) /\ Len(st) = Len(s) + Len(t) /\ Len(s) \in Nat /\ Len(t) \in Nat
      /\ \A k \in 1..Len(s) : st[k] = s[k]
      /\ \A k \in 1..Len(t) : st[Len(s) + k] = t[k]
  OBVIOUS
<1> HIDE DEF st
<1>2. /\ IdsOf(st) = {st[k].id : k \in 1..Len(st)} \ {0}
      /\ IdsOf(s) = {s[k].id : k \in 1..Len(s)} \ {0}
      /\ IdsOf(t) = {t[k].id : k \in 1..Len(t)} \ {0}
  BY <1>1, IdsOfLines
<1>3. ASSUME NEW k \in 1..Len(st)
      PROVE  \/ k \in 1..Len(s) /\ st[k] = s[k]
             \/ k - Len(s) \in 1..Len(t) /\ st[k] = t[k - Len(s)]
  <2>1. CASE k <= Len(s)
    BY <1>1, <2>1
  <2>2. CASE k > Len(s)
    <3>1. k - Len(s) \in 1..Len(t) /\ Len(s) + (k - Len(s)) = k
      BY <1>1, <2>2
    <3> QED  BY <1>1, <3>1
  <2> QED  BY <1>1, <2>1, <2>2
<1>4. IdsOf(st) \subseteq IdsOf(s) \cup IdsOf(t)
  BY <1>2, <1>3
<1>5. IdsOf(s) \subseteq IdsOf(st)
  <2>1. \A k \in 1..Len(s) : k \in 1..Len(st)
    BY <1>1
  <2> QED  BY <1>1, <1>2, <2>1
<1>6. IdsOf(t) \subseteq IdsOf(st)
  <2>1. \A k \in 1..Len(t) : Len(s) + k \in 1..Len(st)
    BY <1>1
  <2> QED  BY <1>1, <1>2, <2>1
<1>7. ASSUME Once(s), Once(t), IdsOf(s) \cap IdsOf(t) = {},
             NEW j \in 1..Len(st), NEW k \in 1..Len(st), st[j].id = st[k].id, st[j].id # 0
      PROVE  j = k
  <2>1. CASE j \in 1..Len(s) /\ st[j] = s[j] /\ k \in 1..Len(s) /\ st[k] = s[k]
    BY <1>7, <2>1 DEF Once
  <2>2. CASE /\ j - Len(s) \in 1..Len(t) /\ st[j] = t[j - Len(s)]
             /\ k - Len(s) \in 1..Len(t) /\ st[k] = t[k - Len(s)]
    <3>1. j - Len(s) = k - Len(s)
      BY <1>7, <2>2 DEF Once
    <3> QED  BY <1>1, <3>1
  <2>3. CASE /\ j \in 1..Len(s) /\ st[j] = s[j]
             /\ k - Len(s) \in 1..Len(t) /\ st[k] = t[k - Len(s)]
    BY <1>2, <1>7, <2>3
  <2>4. CASE /\ j - Len(s) \in 1..Len(t) /\ st[j] = t[j - Len(s)]
             /\ k \in 1..Len(s) /\ st[k] = s[k]
    BY <1>2, <1>7, <2>4
  <2> QED  BY <1>3, <2>1, <2>2, <2>3, <2>4
<1>8. (Once(s) /\ Once(t) /\ IdsOf(s) \cap IdsOf(t) = {}) => Once(st)
  BY <1>7 DEF Once
<1> QED  BY <1>4, <1>5, <1>6, <1>8 DEF st

LEMMA IdsOfEvents ==
    ASSUME NEW g \in 0..Len(Feed), NEW r \in Seq(1..g)
    PROVE  LET lines == [k \in DOMAIN r |-> EventLine(r[k])] IN
           /\ IdsOf(lines) = Range(r)
           /\ (\A j, k \in 1..Len(r) : r[j] = r[k] => j = k) => Once(lines)
<1> DEFINE lines == [k \in DOMAIN r |-> EventLine(r[k])]
<1>1. lines \in Seq(Lines) /\ Len(lines) = Len(r)
  BY EventLinesAreLines
<1>2. ASSUME NEW k \in 1..Len(r)
      PROVE  lines[k].id = r[k] /\ r[k] # 0
  <2>1. r[k] \in 1..Len(Feed) /\ r[k] # 0 /\ k \in DOMAIN r
    BY FeedIsFinite
  <2>2. lines[k] = EventLine(r[k])
    BY <2>1
  <2> HIDE DEF lines
  <2> QED  BY <2>1, <2>2, EventLineIsLine
<1> HIDE DEF lines
<1>3. IdsOf(lines) = {lines[k].id : k \in 1..Len(r)} \ {0}
  <2>1. lines \in Seq(Lines)
    BY <1>1
  <2>2. IdsOf(lines) = {lines[k].id : k \in 1..Len(lines)} \ {0}
    BY <2>1, IdsOfLines
  <2> QED  BY <1>1, <2>2
<1>4. Range(r) = {r[k] : k \in 1..Len(r)}
  BY DEF Range
<1>5. IdsOf(lines) = Range(r)
  <2>1. {lines[k].id : k \in 1..Len(r)} = {r[k] : k \in 1..Len(r)}
    BY <1>2
  <2>2. 0 \notin {r[k] : k \in 1..Len(r)}
    BY <1>2
  <2> QED  BY <1>3, <1>4, <2>1, <2>2
<1>6. (\A j, k \in 1..Len(r) : r[j] = r[k] => j = k) => Once(lines)
  <2> SUFFICES ASSUME \A j, k \in 1..Len(r) : r[j] = r[k] => j = k,
                      NEW j \in 1..Len(r), NEW k \in 1..Len(r), lines[j].id = lines[k].id
               PROVE  j = k
    BY <1>1 DEF Once
  <2>1. lines[j].id = r[j] /\ lines[k].id = r[k]
    BY <1>2
  <2>2. r[j] = r[k]
    BY <2>1
  <2> QED  BY <2>2
<1> QED  BY <1>5, <1>6 DEF lines

LEMMA RangeConcat ==
    ASSUME NEW g, NEW s \in Seq(g), NEW t \in Seq(g)
    PROVE  Range(s \o t) = Range(s) \cup Range(t)
<1> DEFINE st == s \o t
<1>1. /\ st \in Seq(g) /\ Len(st) = Len(s) + Len(t) /\ Len(s) \in Nat /\ Len(t) \in Nat
      /\ \A k \in 1..Len(s) : st[k] = s[k]
      /\ \A k \in 1..Len(t) : st[Len(s) + k] = t[k]
  OBVIOUS
<1> HIDE DEF st
<1>2. /\ Range(st) = {st[k] : k \in 1..Len(st)}
      /\ Range(s) = {s[k] : k \in 1..Len(s)}
      /\ Range(t) = {t[k] : k \in 1..Len(t)}
  <2>1. DOMAIN st = 1..Len(st) /\ DOMAIN s = 1..Len(s) /\ DOMAIN t = 1..Len(t)
    BY <1>1
  <2> QED  BY <2>1 DEF Range
<1>3. ASSUME NEW k \in 1..Len(st)
      PROVE  st[k] \in Range(s) \cup Range(t)
  <2>1. CASE k <= Len(s)
    BY <1>1, <1>2, <2>1
  <2>2. CASE k > Len(s)
    <3>1. k - Len(s) \in 1..Len(t) /\ Len(s) + (k - Len(s)) = k
      BY <1>1, <2>2
    <3> QED  BY <1>1, <1>2, <3>1
  <2> QED  BY <1>1, <2>1, <2>2
<1>4. (\A k \in 1..Len(s) : k \in 1..Len(st)) /\ (\A k \in 1..Len(t) : Len(s) + k \in 1..Len(st))
  BY <1>1
<1>5. Range(s) \subseteq Range(st) /\ Range(t) \subseteq Range(st)
  BY <1>1, <1>2, <1>4
<1> QED  BY <1>2, <1>3, <1>5 DEF st

LEMMA InputIsLines ==
    ASSUME Files
    PROVE  Input \in Seq(Lines) /\ (bmh_events # NoFile => bmh_events \in Seq(Lines))
BY DEF Files, Input

LEMMA AccountInit == Init => AccountInv
<1> SUFFICES ASSUME Init PROVE AccountInv
  OBVIOUS
<1>1. Files
  BY FilesInit
<1>2. Input = Base
  BY DEF Init, Input
<1>3. /\ saved = <<>> /\ late = {} /\ ram = <<>> /\ bmh_events = NoFile
      /\ pc \in {"ratgen", "valgen"}
  BY DEF Init
<1>4. IdsOf(Base) = {}
  <2>1. IdsOf(Base) = {Base[k].id : k \in 1..Len(Base)} \ {0}
    BY BaseIsLines, IdsOfLines
  <2> QED  BY <2>1, BaseIsLines
<1>5. Once(Base)
  BY BaseIsLines DEF Once
<1>6. Waiting = {} /\ Range(saved) = {} /\ Range(ram) = {}
  BY <1>3 DEF Waiting, Range
<1> QED  BY <1>1, <1>2, <1>3, <1>4, <1>5, <1>6 DEF AccountInv, Account

\* A step that leaves the input and the files of the events alone, and at most
\* clears the buffer of recgen.
LEMMA AccountKept ==
    ASSUME Account, UNCHANGED <<Input, bmh_events, saved, late>>,
           ram' = ram \/ ram' = <<>>,
           reused \in BOOLEAN, reused' \in BOOLEAN, reused => reused',
           pc' # "wait" => pc # "wait",
           (~reused' /\ pc' \in {"signal", "wait"}) => (bmh_events = NoFile \/ pc \in {"signal", "wait"})
    PROVE  Account'
<1>1. UNCHANGED Waiting
  BY DEF Waiting
<1>2. /\ \A j, k \in 1..Len(ram') : ram'[j] = ram'[k] => j = k
      /\ Range(ram') \cap Range(saved) = {}
  <2>1. CASE ram' = ram
    BY <2>1 DEF Account
  <2>2. CASE ram' = <<>>
    BY <2>2 DEF Range
  <2> QED  BY <2>1, <2>2
<1>3. (~reused' /\ pc' \in {"signal", "wait"}) => Waiting \cap IdsOf(Input) = {}
  BY DEF Account, Waiting
<1>4. /\ Range(saved) \subseteq Waiting \cup IdsOf(Input) \cup late
      /\ Waiting \cup IdsOf(Input) \subseteq Range(saved)
      /\ bmh_events # NoFile => Once(bmh_events)
      /\ pc' # "wait" => Waiting \subseteq IdsOf(Input) \cup late
      /\ ~reused' => Once(Input)
  BY DEF Account
<1> QED  BY <1>1, <1>2, <1>3, <1>4 DEF Account

LEMMA AccountProgram ==
    ASSUME AccountInv, Programs
    PROVE  Account'
<1>1. /\ UNCHANGED <<bmh_events, saved, late, ram, reused, events, ratings_gen>>
      /\ dir'.ratings = dir.ratings \/ ratings_gen
  <2>1. ProgramOnly
    BY DEF Programs, Program, RunRatgen, RatgenDies, RunValgen, ValgenDies, RunRecgenC, RunRecgenD, RecgenCDies, RecgenDDies
  <2> QED  BY <2>1, FilesProgram DEF ProgramOnly, recgenVars, AccountInv
<1>2. UNCHANGED Input
  BY <1>1 DEF Input
<1>3. pc # "wait" /\ pc' \notin {"signal", "wait"}
  BY DEF Programs, Program, RunRatgen, RatgenDies, RunValgen, ValgenDies, RunRecgenC, RunRecgenD, RecgenCDies, RecgenDDies, Goto
<1>4. Account /\ reused \in BOOLEAN
  BY DEF AccountInv, Files
<1> QED  BY <1>1, <1>2, <1>3, <1>4, AccountKept

\* The file is removed when its events are in the input.
LEMMA AccountRemove ==
    ASSUME AccountInv, RemoveEvents
    PROVE  Account'
<1>1. /\ UNCHANGED <<saved, late, ram, reused, events, ratings_gen, dir>>
      /\ bmh_events' = NoFile /\ pc = "recgen -b"
  BY DEF RemoveEvents, ScriptOnly
<1>2. Input' = Input /\ Waiting' = {}
  BY <1>1 DEF Input, Waiting
<1>3. /\ Range(saved) \subseteq IdsOf(Input) \cup late
      /\ IdsOf(Input) \subseteq Range(saved)
  BY <1>1 DEF AccountInv, Account
<1>4. /\ \A j, k \in 1..Len(ram) : ram[j] = ram[k] => j = k
      /\ Range(ram) \cap Range(saved) = {}
      /\ ~reused => Once(Input)
  BY DEF AccountInv, Account
<1> QED  BY <1>1, <1>2, <1>3, <1>4 DEF Account

\* All of its events are added to the input, which has none of them, unless
\* recgen was started beside the file.
LEMMA AccountAdd ==
    ASSUME AccountInv, AddEvents
    PROVE  Account'
<1>1. /\ UNCHANGED <<saved, late, ram, reused, bmh_events, ratings_gen>>
      /\ bmh_events # NoFile /\ pc = "wait" /\ pc' = "processed"
  BY DEF AddEvents, recgenVars, Goto
<1>2. Input \in Seq(Lines) /\ bmh_events \in Seq(Lines)
  BY <1>1, InputIsLines DEF AccountInv
<1>3. Input' = Input \o bmh_events
  <2>1. CASE ratings_gen
    BY <1>1, <2>1 DEF AddEvents, Input
  <2>2. CASE ~ratings_gen /\ bmh_events = <<>>
    BY <1>1, <1>2, <2>2 DEF AddEvents, Input
  <2>3. CASE ~ratings_gen /\ bmh_events # <<>>
    <3> DEFINE r == dir.ratings \o bmh_events
    <3>1. WriteRatings(dir, r) /\ IsDir(dir)
      BY <2>3 DEF AddEvents, AccountInv, Files
    <3> HIDE DEF r
    <3>2. dir'.ratings = r
      BY <3>1, NewRatingsFacts
    <3> QED  BY <1>1, <2>3, <3>2 DEF Input, r
  <2> QED  BY <1>1, <2>1, <2>2, <2>3 DEF AccountInv, Files
<1>4. Waiting = IdsOf(bmh_events) /\ Waiting' = Waiting
  BY <1>1 DEF Waiting
<1>5. /\ IdsOf(Input') = IdsOf(Input) \cup Waiting
      /\ (Once(Input) /\ Once(bmh_events) /\ IdsOf(Input) \cap Waiting = {}) => Once(Input')
  BY <1>2, <1>3, <1>4, IdsOfConcat
<1>6. /\ Range(saved) \subseteq Waiting \cup IdsOf(Input) \cup late
      /\ Waiting \cup IdsOf(Input) \subseteq Range(saved)
      /\ \A j, k \in 1..Len(ram) : ram[j] = ram[k] => j = k
      /\ Range(ram) \cap Range(saved) = {}
      /\ Once(bmh_events)
      /\ ~reused => Once(Input) /\ Waiting \cap IdsOf(Input) = {}
  BY <1>1 DEF AccountInv, Account
<1> HIDE DEF Input, Waiting
<1> QED  BY <1>1, <1>4, <1>5, <1>6 DEF Account

LEMMA AccountScript ==
    ASSUME AccountInv, Script
    PROVE  Account'
<1>0. Account /\ reused \in BOOLEAN
  BY DEF AccountInv, Files
<1>1. CASE SignalRecgen
  <2>1. /\ UNCHANGED <<bmh_events, saved, late, reused, events, ratings_gen, dir>>
        /\ pc = "signal" /\ pc' = "wait" /\ (ram' = ram \/ ram' = <<>>)
    BY <1>1 DEF SignalRecgen, Gone, ScriptOnly, fileVars, Goto
  <2>2. UNCHANGED Input
    BY <2>1 DEF Input
  <2> QED  BY <1>0, <2>1, <2>2, AccountKept
<1>2. CASE StartRecgen
  <2>1. /\ UNCHANGED <<bmh_events, saved, late, events, ratings_gen, dir>> /\ ram' = <<>>
        /\ reused' = (reused \/ bmh_events # NoFile)
        /\ pc = "recgen -b" /\ pc' = "wait"
    BY <1>2 DEF StartRecgen, ScriptOnly, fileVars, Goto
  <2>2. UNCHANGED Input
    BY <2>1 DEF Input
  <2> QED  BY <1>0, <2>1, <2>2, AccountKept
<1>3. CASE AddProcessed
  <2>1. /\ UNCHANGED <<bmh_events, saved, late, ram, reused, events, ratings_gen, dir>>
        /\ pc = "processed" /\ pc' \in {"ratgen", "valgen"}
    BY <1>3 DEF AddProcessed, ScriptOnly, recgenVars, Goto
  <2>2. UNCHANGED Input
    BY <2>1 DEF Input
  <2> QED  BY <1>0, <2>1, <2>2, AccountKept
<1> QED  BY <1>1, <1>2, <1>3, AccountRemove, AccountAdd DEF Script

\* The buffer has events that are nowhere yet; they go to the end of the file, or
\* they are late.
LEMMA AccountWrite ==
    ASSUME AccountInv, WriteEvents
    PROVE  Account'
<1> DEFINE lines == [k \in DOMAIN ram |-> EventLine(ram[k])]
<1>1. /\ UNCHANGED <<events, ratings_gen, dir, pc, reused>>
      /\ saved' = saved \o ram /\ ram' = <<>>
      /\ late' = IF fp = "removed" \/ pc # "wait" THEN late \cup Range(ram) ELSE late
      /\ bmh_events' = IF fp = "removed" THEN bmh_events ELSE bmh_events \o lines
  BY DEF WriteEvents, RecgenOnly, scriptVars
<1>2. /\ got \in 0..Len(Feed) /\ ram \in Seq(1..got) /\ saved \in Seq(1..got)
      /\ fp # "removed" => bmh_events # NoFile
  BY DEF WriteEvents, AccountInv, Files
<1>3. Range(saved') = Range(saved) \cup Range(ram)
  BY <1>1, <1>2, RangeConcat
<1>4. Input' = Input
  BY <1>1 DEF Input
<1>5. /\ Range(saved) \subseteq Waiting \cup IdsOf(Input) \cup late
      /\ Waiting \cup IdsOf(Input) \subseteq Range(saved)
      /\ \A j, k \in 1..Len(ram) : ram[j] = ram[k] => j = k
      /\ Range(ram) \cap Range(saved) = {}
      /\ bmh_events # NoFile => Once(bmh_events)
      /\ pc # "wait" => Waiting \subseteq IdsOf(Input) \cup late
      /\ ~reused => /\ Once(Input)
                    /\ pc \in {"signal", "wait"} => Waiting \cap IdsOf(Input) = {}
  BY DEF AccountInv, Account
<1>6. Len(ram') = 0 /\ Range(ram') = {}
  BY <1>1 DEF Range
<1>7. lines \in Seq(Lines) /\ IdsOf(lines) = Range(ram) /\ Once(lines)
  BY <1>2, <1>5, EventLinesAreLines, IdsOfEvents
<1> HIDE DEF lines
<1>8. CASE fp = "removed"
  <2>1. bmh_events' = bmh_events /\ late' = late \cup Range(ram)
    BY <1>1, <1>8
  <2>2. Waiting' = Waiting
    BY <2>1 DEF Waiting
  <2> HIDE DEF Input, Waiting
  <2>3. /\ Range(saved') \subseteq Waiting \cup IdsOf(Input) \cup late'
        /\ Waiting \cup IdsOf(Input) \subseteq Range(saved')
        /\ pc # "wait" => Waiting \subseteq IdsOf(Input) \cup late'
    BY <1>3, <1>5, <2>1
  <2>4. \A j, k \in 1..Len(ram') : ram'[j] = ram'[k] => j = k
    BY <1>6
  <2>5. UNCHANGED <<bmh_events, pc, reused>>
    BY <1>1, <2>1
  <2> QED  BY <1>4, <1>5, <1>6, <2>2, <2>3, <2>4, <2>5 DEF Account
<1>9. CASE fp # "removed"
  <2>1. /\ bmh_events # NoFile /\ bmh_events' = bmh_events \o lines
        /\ bmh_events \in Seq(Lines)
    BY <1>1, <1>2, <1>9, InputIsLines DEF AccountInv
  <2>2. Waiting = IdsOf(bmh_events) /\ bmh_events' # NoFile
    <3>1. bmh_events \o lines \in Seq(Lines)
      BY <1>7, <2>1
    <3> QED  BY <2>1, <3>1, NoFileIsNone DEF Waiting
  <2>3. /\ Waiting' = Waiting \cup Range(ram)
        /\ Waiting \cap Range(ram) = {} => Once(bmh_events')
    BY <1>5, <1>7, <2>1, <2>2, IdsOfConcat DEF Waiting
  <2>4. late \subseteq late' /\ (pc # "wait" => Range(ram) \subseteq late')
    BY <1>1
  <2> HIDE DEF Input, Waiting
  <2>5. /\ Waiting \cap Range(ram) = {}
        /\ IdsOf(Input) \cap Range(ram) = {}
    BY <1>5
  <2>6. /\ Range(saved') \subseteq Waiting' \cup IdsOf(Input) \cup late'
        /\ Waiting' \cup IdsOf(Input) \subseteq Range(saved')
        /\ pc # "wait" => Waiting' \subseteq IdsOf(Input) \cup late'
    BY <1>3, <1>5, <2>3, <2>4
  <2>7. ~reused => /\ Once(Input)
                   /\ pc \in {"signal", "wait"} => Waiting' \cap IdsOf(Input) = {}
    BY <1>5, <2>3, <2>5
  <2>8. Once(bmh_events')
    BY <2>3, <2>5
  <2> QED  BY <1>1, <1>4, <1>6, <2>6, <2>7, <2>8 DEF Account
<1> QED  BY <1>8, <1>9

LEMMA AccountReceive ==
    ASSUME AccountInv, Receive
    PROVE  Account'
<1>1. /\ UNCHANGED <<bmh_events, saved, late, reused, events, ratings_gen, dir, pc>>
      /\ got' = got + 1 /\ ram' = Append(ram, got + 1)
  BY DEF Receive, RecgenOnly, scriptVars
<1>2. got \in Nat /\ ram \in Seq(1..got) /\ saved \in Seq(1..got)
  BY DEF AccountInv, Files
<1>3. UNCHANGED <<Input, Waiting>>
  BY <1>1 DEF Input, Waiting
<1>4. /\ Range(saved) \subseteq Waiting \cup IdsOf(Input) \cup late
      /\ Waiting \cup IdsOf(Input) \subseteq Range(saved)
      /\ \A j, k \in 1..Len(ram) : ram[j] = ram[k] => j = k
      /\ Range(ram) \cap Range(saved) = {}
      /\ bmh_events # NoFile => Once(bmh_events)
      /\ pc # "wait" => Waiting \subseteq IdsOf(Input) \cup late
      /\ ~reused => /\ Once(Input)
                    /\ pc \in {"signal", "wait"} => Waiting \cap IdsOf(Input) = {}
  BY DEF AccountInv, Account
<1>5. got + 1 \notin Range(ram) /\ got + 1 \notin Range(saved)
  <2>1. \A n \in 1..got : n # got + 1
    BY <1>2
  <2>2. Range(ram) \subseteq 1..got /\ Range(saved) \subseteq 1..got
    BY <1>2 DEF Range
  <2> QED  BY <2>1, <2>2
<1>6. Range(ram') = Range(ram) \cup {got + 1}
  <2>1. /\ Len(ram') = Len(ram) + 1 /\ Len(ram) \in Nat /\ DOMAIN ram' = 1..Len(ram')
        /\ DOMAIN ram = 1..Len(ram)
        /\ \A k \in 1..Len(ram) : ram'[k] = ram[k]
        /\ ram'[Len(ram) + 1] = got + 1
    BY <1>1, <1>2
  <2>2. 1..Len(ram') = (1..Len(ram)) \cup {Len(ram) + 1}
    BY <2>1
  <2> QED  BY <2>1, <2>2 DEF Range
<1>7. \A j, k \in 1..Len(ram') : ram'[j] = ram'[k] => j = k
  <2> SUFFICES ASSUME NEW j \in 1..Len(ram'), NEW k \in 1..Len(ram'), ram'[j] = ram'[k]
               PROVE  j = k
    OBVIOUS
  <2>1. /\ Len(ram') = Len(ram) + 1 /\ Len(ram) \in Nat
        /\ \A l \in 1..Len(ram) : ram'[l] = ram[l]
        /\ ram'[Len(ram) + 1] = got + 1
    BY <1>1, <1>2
  <2>2. j \in 1..Len(ram) \/ j = Len(ram) + 1
    BY <2>1
  <2>3. k \in 1..Len(ram) \/ k = Len(ram) + 1
    BY <2>1
  <2>4. \A l \in 1..Len(ram) : ram[l] # got + 1
    BY <1>2
  <2> QED  BY <1>4, <2>1, <2>2, <2>3, <2>4
<1>8. Range(ram') \cap Range(saved) = {}
  BY <1>4, <1>5, <1>6
<1> HIDE DEF Input, Waiting
<1> QED  BY <1>1, <1>3, <1>4, <1>7, <1>8 DEF Account

LEMMA AccountRecgen ==
    ASSUME AccountInv, Recgen \/ Receive \/ RecgenDies
    PROVE  Account'
<1>0. Account /\ reused \in BOOLEAN
  BY DEF AccountInv, Files
<1>1. CASE CountRatings \/ Invalidate \/ Started \/ Reload \/ RecgenDies
  <2>1. /\ UNCHANGED <<bmh_events, saved, late, reused, events, ratings_gen, pc>>
        /\ ram' = ram \/ ram' = <<>>
    BY <1>1 DEF CountRatings, Invalidate, Started, Reload, RecgenDies, RecgenOnly, scriptVars, LoadStore, Gone
  <2>2. dir'.ratings = dir.ratings
    BY <1>1, RecordedFacts, RemovedFacts DEF CountRatings, Invalidate, Started, Reload, RecgenDies, AccountInv, Files
  <2>3. UNCHANGED Input
    BY <2>1, <2>2 DEF Input
  <2> QED  BY <1>0, <2>1, <2>3, AccountKept
<1>2. CASE OpenEvents
  <2>1. /\ UNCHANGED <<saved, late, ram, reused, events, ratings_gen, dir, pc>>
        /\ bmh_events' = IF bmh_events = NoFile THEN <<>> ELSE bmh_events
    BY <1>2 DEF OpenEvents, RecgenOnly, scriptVars
  <2>2. IdsOf(<<>>) = {} /\ Once(<<>>)
    <3>1. <<>> \in Seq(Lines) /\ Len(<<>>) = 0
      OBVIOUS
    <3>2. IdsOf(<<>>) = {<<>>[k].id : k \in 1..Len(<<>>)} \ {0}
      BY <3>1, IdsOfLines
    <3> QED  BY <3>1, <3>2 DEF Once
  <2>3. UNCHANGED Waiting
    <3>1. CASE bmh_events = NoFile
      BY <2>1, <2>2, <3>1, NoFileIsNone DEF Waiting
    <3>2. CASE bmh_events # NoFile
      BY <2>1, <3>2 DEF Waiting
    <3> QED  BY <3>1, <3>2
  <2>4. bmh_events' # NoFile => Once(bmh_events')
    BY <1>0, <2>1, <2>2 DEF Account
  <2>5. UNCHANGED Input
    BY <2>1 DEF Input
  <2> HIDE DEF Input, Waiting
  <2> QED  BY <1>0, <2>1, <2>3, <2>4, <2>5 DEF Account
<1> QED  BY <1>1, <1>2, AccountWrite, AccountReceive DEF Recgen

LEMMA AccountAlways == Spec => []AccountInv
<1>1. ASSUME AccountInv, [Next]_vars
      PROVE  AccountInv'
  <2>1. Files'
    BY <1>1, FilesStep DEF AccountInv
  <2>2. CASE UNCHANGED vars
    <3>1. UNCHANGED <<ratings_gen, pc, dir, events, bmh_events, ram, saved, late, reused>>
      BY <2>2 DEF vars, scriptVars, fileVars, recgenVars, history
    <3>2. UNCHANGED <<Input, Waiting>>
      BY <3>1 DEF Input, Waiting
    <3> HIDE DEF Input, Waiting
    <3> QED  BY <1>1, <2>1, <3>1, <3>2 DEF AccountInv, Account
  <2>3. CASE Next
    <3>1. Account'
      BY <1>1, <2>3, AccountProgram, AccountScript, AccountRecgen DEF Next, Faults, Programs
    <3> QED  BY <2>1, <3>1 DEF AccountInv
  <2> QED  BY <1>1, <2>2, <2>3
<1> QED  BY <1>1, AccountInit, PTL DEF Spec

\* An event that recgen wrote to the events file is in the input of the loop or
\* in the file, unless it is late; and it is there twice only if recgen was
\* started beside a file that was left (src/bemorehuman).
THEOREM SavedCountOnceTheorem == Spec => []SavedCountOnce
<1>1. ASSUME AccountInv
      PROVE  SavedCountOnce
  <2>1. Range(saved) \subseteq Waiting \cup IdsOf(Input) \cup late /\ (~reused => Once(Input))
    BY <1>1 DEF AccountInv, Account
  <2>2. DOMAIN Input = 1..Len(Input)
    BY <1>1, InputIsLines DEF AccountInv
  <2> HIDE DEF Input, Waiting
  <2> QED  BY <2>1, <2>2 DEF SavedCountOnce, Once
<1> QED  BY <1>1, AccountAlways, PTL
-----------------------------------------------------------------------------
(* Ratings. *)

\* What ratgen makes of events that are all complete: R are the pairs that
\* occur, ev the events.
Keys == [personid : Nat, eltid : Nat]
Freq(ev, e) == Cardinality({k \in DOMAIN ev : ev[k] = e})
Rank(R, e) == Cardinality({d \in R : EventBefore(d, e)})
Entry(R, j) == CHOOSE e \in R : Rank(R, e) = j - 1
Highest(R, ev, p) == Max({Freq(ev, e) : e \in {d \in R : d.personid = p}})
FileOf(R, ev) ==
    [j \in 1..Cardinality(R) |->
        [person |-> Entry(R, j).personid, elt |-> Entry(R, j).eltid,
         rating |-> RatingOf(Freq(ev, Entry(R, j)), Highest(R, ev, Entry(R, j).personid))]]

Complete(lines) == \A k \in DOMAIN lines : lines[k].comma = FALSE
Key(p, e) == [personid |-> p, eltid |-> e]
KeysOf(lines) == [k \in DOMAIN lines |-> Key(lines[k].person, lines[k].elt)]

LEMMA KeyIs ==
    ASSUME NEW e \in Keys, NEW p, NEW i
    PROVE  /\ e.personid \in Nat /\ e.eltid \in Nat
           /\ Key(p, i).personid = p /\ Key(p, i).eltid = i
           /\ e.personid = p /\ e.eltid = i <=> e = Key(p, i)
  BY DEF Keys, Key

LEMMA RatingsFileIs ==
    ASSUME NEW lines \in Seq(Lines), Complete(lines), NEW junk
    PROVE  /\ RatingsFile(lines, junk) = FileOf(Range(KeysOf(lines)), KeysOf(lines))
           /\ KeysOf(lines) \in [1..Len(lines) -> Keys] /\ Len(lines) \in Nat
<1> DEFINE ev == [k \in DOMAIN lines |-> Tokens(lines[k], junk)]
           R == {e \in Range(ev) : e.eltid # 0}
<1>1. ASSUME NEW k \in DOMAIN lines
      PROVE  /\ Tokens(lines[k], junk) = Key(lines[k].person, lines[k].elt)
             /\ Key(lines[k].person, lines[k].elt) \in Keys
             /\ Key(lines[k].person, lines[k].elt).eltid # 0
  <2>1. lines[k] \in Lines
    OBVIOUS
  <2>2. lines[k].person \in Nat /\ lines[k].elt \in Nat /\ lines[k].elt # 0
    BY <2>1 DEF Lines
  <2>3. lines[k].comma = FALSE
    BY DEF Complete
  <2> QED  BY <2>2, <2>3 DEF Tokens, Key, Keys
<1>2. ev = KeysOf(lines)
  BY <1>1 DEF KeysOf
<1>3. RatingsFile(lines, junk) = FileOf(R, ev)
  BY DEF RatingsFile, FileOf, Entry, Rank, Freq, Highest
<1>4. DOMAIN lines = 1..Len(lines) /\ Len(lines) \in Nat
  OBVIOUS
<1>5. KeysOf(lines) \in [1..Len(lines) -> Keys]
  BY <1>1, <1>4 DEF KeysOf
<1>6. \A e \in Range(KeysOf(lines)) : e.eltid # 0
  BY <1>1 DEF Range, KeysOf
<1> HIDE DEF ev
<1>7. R = Range(KeysOf(lines))
  BY <1>2, <1>6
<1> HIDE DEF R
<1> QED  BY <1>2, <1>3, <1>4, <1>5, <1>7

LEMMA BeforeIsOrder ==
    ASSUME NEW a \in Keys, NEW b \in Keys, NEW c \in Keys
    PROVE  /\ ~EventBefore(a, a)
           /\ (EventBefore(a, b) /\ EventBefore(b, c)) => EventBefore(a, c)
           /\ a = b \/ EventBefore(a, b) \/ EventBefore(b, a)
<1>1. /\ a = [personid |-> a.personid, eltid |-> a.eltid] /\ a.personid \in Nat /\ a.eltid \in Nat
      /\ b = [personid |-> b.personid, eltid |-> b.eltid] /\ b.personid \in Nat /\ b.eltid \in Nat
      /\ c = [personid |-> c.personid, eltid |-> c.eltid] /\ c.personid \in Nat /\ c.eltid \in Nat
  BY DEF Keys
<1>2. ~EventBefore(a, a)
  BY <1>1 DEF EventBefore
<1>3. (EventBefore(a, b) /\ EventBefore(b, c)) => EventBefore(a, c)
  BY <1>1 DEF EventBefore
<1>4. a = b \/ EventBefore(a, b) \/ EventBefore(b, a)
  <2>1. a.personid = b.personid /\ a.eltid = b.eltid => a = b
    BY <1>1
  <2> QED  BY <1>1, <2>1 DEF EventBefore
<1> QED  BY <1>2, <1>3, <1>4

\* Every entry has a place of its own.
LEMMA EntriesAre ==
    ASSUME NEW R, IsFiniteSet(R), R \subseteq Keys
    PROVE  /\ Cardinality(R) \in Nat
           /\ \A j \in 1..Cardinality(R) : Entry(R, j) \in R
           /\ \A e \in R : \E j \in 1..Cardinality(R) : /\ Entry(R, j) = e
                                                        /\ \A i \in 1..Cardinality(R) : Entry(R, i) = e => i = j
<1>0. Cardinality(R) \in Nat
  BY FS_CardinalityType
<1> DEFINE below(e) == {d \in R : EventBefore(d, e)}
           rank == [e \in R |-> Cardinality(below(e))]
           T == 0..Cardinality(R)-1
<1>1. ASSUME NEW e \in R PROVE IsFiniteSet(below(e)) /\ Cardinality(below(e)) \in Nat /\ e \notin below(e)
  <2>1. below(e) \subseteq R
    OBVIOUS
  <2>2. e \notin below(e)
    BY BeforeIsOrder
  <2> QED  BY <2>1, <2>2, FS_Subset, FS_CardinalityType
<1>2. ASSUME NEW d \in R, NEW e \in R, EventBefore(d, e)
      PROVE  Cardinality(below(d)) < Cardinality(below(e))
  <2>1. \A c \in R : EventBefore(c, d) => EventBefore(c, e)
    BY <1>2, BeforeIsOrder
  <2>2. below(d) \cup {d} \subseteq below(e)
    BY <1>2, <2>1
  <2>3. IsFiniteSet(below(d) \cup {d}) /\ Cardinality(below(d) \cup {d}) = Cardinality(below(d)) + 1
    BY <1>1, FS_AddElement
  <2>4. Cardinality(below(d) \cup {d}) <= Cardinality(below(e))
    BY <1>1, <2>2, FS_Subset
  <2> HIDE DEF below
  <2> QED  BY <1>1, <2>3, <2>4
<1>3. ASSUME NEW e \in R PROVE Cardinality(below(e)) \in T
  <2>1. below(e) \subseteq R /\ below(e) # R
    BY <1>1
  <2>2. Cardinality(below(e)) <= Cardinality(R) /\ Cardinality(below(e)) # Cardinality(R)
    BY <2>1, FS_Subset
  <2> HIDE DEF below
  <2> QED  BY <1>0, <1>1, <2>2
<1>4. rank \in Injection(R, T)
  <2>1. rank \in [R -> T]
    BY <1>3
  <2>2. ASSUME NEW d \in R, NEW e \in R, rank[d] = rank[e] PROVE d = e
    <3>1. Cardinality(below(d)) = Cardinality(below(e)) /\ Cardinality(below(d)) \in Nat
      BY <1>1, <2>2
    <3>2. /\ EventBefore(d, e) => Cardinality(below(d)) < Cardinality(below(e))
          /\ EventBefore(e, d) => Cardinality(below(e)) < Cardinality(below(d))
      BY <1>2
    <3> HIDE DEF below
    <3>3. ~EventBefore(d, e) /\ ~EventBefore(e, d)
      BY <3>1, <3>2
    <3> QED  BY <3>3, BeforeIsOrder
  <2> HIDE DEF rank
  <2> QED  BY <2>1, <2>2 DEF Injection, IsInjective
<1>5. IsFiniteSet(T) /\ Cardinality(T) = Cardinality(R)
  BY <1>0, FS_Interval
<1>6. rank \in Surjection(R, T)
  <2> HIDE DEF rank, T
  <2> QED  BY <1>4, <1>5, FS_Injection
<1>7. \A e \in R : rank[e] = Rank(R, e)
  BY DEF Rank
<1> HIDE DEF rank
<1>8. /\ \A e \in R : Rank(R, e) \in T
      /\ \A i \in T : \E e \in R : Rank(R, e) = i
      /\ \A d, e \in R : Rank(R, d) = Rank(R, e) => d = e
  BY <1>4, <1>6, <1>7 DEF Injection, IsInjective, Surjection
<1>9. \A j \in 1..Cardinality(R) : j - 1 \in T
  BY <1>0
<1>10. \A j \in 1..Cardinality(R) : Entry(R, j) \in R /\ Rank(R, Entry(R, j)) = j - 1
  <2> TAKE j \in 1..Cardinality(R)
  <2>1. \E e \in R : Rank(R, e) = j - 1
    BY <1>8, <1>9
  <2> QED  BY <2>1 DEF Entry
<1>11. ASSUME NEW e \in R
       PROVE  \E j \in 1..Cardinality(R) : /\ Entry(R, j) = e
                                           /\ \A i \in 1..Cardinality(R) : Entry(R, i) = e => i = j
  <2> DEFINE j == Rank(R, e) + 1
  <2>1. j \in 1..Cardinality(R) /\ j - 1 = Rank(R, e)
    BY <1>0, <1>8
  <2>2. Entry(R, j) = e
    BY <1>8, <1>10, <2>1
  <2>3. \A i \in 1..Cardinality(R) : Entry(R, i) = e => i - 1 = j - 1
    BY <1>10, <2>1
  <2> HIDE DEF j
  <2>4. \A i \in 1..Cardinality(R) : Entry(R, i) = e => i = j
    BY <1>0, <2>1, <2>3
  <2> QED  BY <2>1, <2>2, <2>4
<1> QED  BY <1>0, <1>10, <1>11

\* The thresholds, but for number 26, are steps of 1/32; the last is above 1.
LEMMA RatingIs ==
    ASSUME NEW m \in Nat, NEW c \in 1..m, ~Odd(c, m)
    PROVE  RatingOf(c, m) = CountsAs(c, m)
<1> DEFINE q == (32 * c) \div m
           S == {k \in 1..32 : c * 100000 < Threshold(k) * m}
<1>1. m > 0 /\ c \in Nat /\ c > 0 /\ c <= m
  OBVIOUS
<1>2. q \in Nat /\ q * m <= 32 * c /\ 32 * c < q * m + m
  <2>1. PICK x \in Nat : x = 32 * c
    BY <1>1
  <2>2. q = x \div m
    BY <2>1
  <2> HIDE DEF q
  <2>3. q \in Nat /\ x = (m * q) + (x % m) /\ x % m \in 0..m-1
    BY <1>1, <2>1, <2>2
  <2>4. m * q = q * m /\ q * m \in Int
    BY <1>1, <2>3
  <2> QED  BY <1>1, <2>1, <2>3, <2>4
<1> HIDE DEF q
<1>3. ASSUME NEW k \in 1..31 PROVE c * 100000 < (k * 3125) * m <=> q < k
  <2>1. (k * 3125) * m = 3125 * (k * m) /\ k * m \in Int /\ q * m \in Int
    BY <1>1, <1>2
  <2>2. c * 100000 < (k * 3125) * m <=> 32 * c < k * m
    BY <1>1, <2>1
  <2>3. q < k => q * m + m <= k * m
    <3>1. q < k => (q + 1) * m <= k * m
      BY <1>1, <1>2
    <3>2. (q + 1) * m = q * m + m
      BY <1>1, <1>2
    <3> QED  BY <3>1, <3>2
  <2>4. k <= q => k * m <= q * m
    BY <1>1, <1>2
  <2> QED  BY <1>1, <1>2, <2>1, <2>2, <2>3, <2>4
<1>4. ASSUME NEW k \in 1..31 PROVE k \in S <=> q < k
  <2>1. CASE k # 26
    <3>1. Threshold(k) = k * 3125
      BY <2>1 DEF Threshold
    <3> QED  BY <1>3, <3>1
  <2>2. CASE k = 26
    <3>1. Threshold(k) = 81520
      BY <2>2 DEF Threshold
    <3>2. c * 100000 < 81520 * m <=> c * 100000 < (26 * 3125) * m
      BY <1>1 DEF Odd
    <3> QED  BY <1>3, <2>2, <3>1, <3>2
  <2> QED  BY <2>1, <2>2
<1>5. 32 \in S
  <2>1. Threshold(32) = 101000
    BY DEF Threshold
  <2>2. c * 100000 < 101000 * m
    BY <1>1
  <2> QED  BY <2>1, <2>2
<1>6. \A k \in S : k \in 1..31 \/ k = 32
  OBVIOUS
<1> HIDE DEF S
<1> DEFINE r == IF q + 1 < 32 THEN q + 1 ELSE 32
<1>7. r \in S /\ \A k \in S : r <= k
  BY <1>2, <1>4, <1>5, <1>6
<1>8. Min(S) = r
  <2>1. \A k \in S : (\A j \in S : k =< j) => k = r
    <3>1. S \subseteq Int /\ r \in Int
      BY <1>2, <1>6
    <3> HIDE DEF r
    <3> QED  BY <1>7, <3>1
  <2> HIDE DEF r
  <2> QED  BY <1>7, <2>1 DEF Min
<1>9. Min({32, q + 1}) = r
  <2> DEFINE U == {32, q + 1}
  <2>1. r \in U /\ \A k \in U : r <= k /\ k \in Int
    BY <1>2
  <2>2. \A k \in U : (\A j \in U : k =< j) => k = r
    BY <2>1
  <2> HIDE DEF r, U
  <2>3. Min(U) = r
    BY <2>1, <2>2 DEF Min
  <2> QED  BY <2>3 DEF U
<1> QED  BY <1>8, <1>9 DEF RatingOf, CountsAs, S, q

LEMMA TimesAre ==
    ASSUME NEW lines \in Seq(Lines)
    PROVE  /\ \A p, e : /\ Times(lines, p, e) = Freq(KeysOf(lines), Key(p, e))
                        /\ Times(lines, p, e) \in 0..Len(lines)
                        /\ Times(lines, p, e) = 0 <=> Key(p, e) \notin Range(KeysOf(lines))
<1> SUFFICES ASSUME NEW p, NEW e
             PROVE  /\ Times(lines, p, e) = Freq(KeysOf(lines), Key(p, e))
                    /\ Times(lines, p, e) \in 0..Len(lines)
                    /\ Times(lines, p, e) = 0 <=> Key(p, e) \notin Range(KeysOf(lines))
  OBVIOUS
<1> DEFINE at == Found(lines, p, e)
<1>1. DOMAIN KeysOf(lines) = DOMAIN lines /\ \A k \in DOMAIN lines : KeysOf(lines)[k] = Key(lines[k].person, lines[k].elt)
  BY DEF KeysOf
<1>2. \A k \in DOMAIN lines : KeysOf(lines)[k] = Key(p, e) <=> lines[k].person = p /\ lines[k].elt = e
  BY <1>1 DEF Key
<1>3. at = {k \in DOMAIN KeysOf(lines) : KeysOf(lines)[k] = Key(p, e)}
  BY <1>1, <1>2 DEF Found
<1>4. Times(lines, p, e) = Freq(KeysOf(lines), Key(p, e))
  BY <1>3 DEF Times, Freq
<1>5. DOMAIN lines = 1..Len(lines) /\ Len(lines) \in Nat
  OBVIOUS
<1>6. IsFiniteSet(at) /\ Cardinality(at) \in 0..Len(lines)
  <2>1. IsFiniteSet(1..Len(lines)) /\ Cardinality(1..Len(lines)) = Len(lines)
    BY <1>5, FS_Interval
  <2>2. at \subseteq 1..Len(lines)
    BY <1>5 DEF Found
  <2> HIDE DEF at
  <2>3. IsFiniteSet(at) /\ Cardinality(at) <= Cardinality(1..Len(lines)) /\ Cardinality(at) \in Nat
    BY <2>1, <2>2, FS_Subset, FS_CardinalityType
  <2> QED  BY <1>5, <2>1, <2>3
<1>7. Cardinality(at) = 0 <=> at = {}
  <2> HIDE DEF at
  <2> QED  BY <1>6, FS_EmptySet
<1>8. at = {} <=> Key(p, e) \notin Range(KeysOf(lines))
  <2>1. at = {} <=> \A k \in DOMAIN lines : KeysOf(lines)[k] # Key(p, e)
    BY <1>2 DEF Found
  <2> HIDE DEF at
  <2> QED  BY <1>1, <2>1 DEF Range
<1> QED  BY <1>4, <1>6, <1>7, <1>8 DEF Times

\* The element a person had most events about is one of its own.
LEMMA MostIs ==
    ASSUME NEW lines \in Seq(Lines), NEW i \in DOMAIN lines, NEW p, p = lines[i].person
    PROVE  /\ Highest(Range(KeysOf(lines)), KeysOf(lines), p) = Most(lines, p)
           /\ Most(lines, p) \in Nat /\ Times(lines, p, lines[i].elt) \in 1..Most(lines, p)
<1> DEFINE n == Len(lines)
           ev == KeysOf(lines)
           t(k) == Times(lines, p, lines[k].elt)
           T == {Freq(ev, e) : e \in {d \in Range(ev) : d.personid = p}}
           U == {t(k) : k \in DOMAIN lines}
<1>1. n \in Nat /\ DOMAIN ev = DOMAIN lines /\ \A k \in DOMAIN lines : ev[k] = Key(lines[k].person, lines[k].elt)
  BY DEF KeysOf
<1>2. \A k \in DOMAIN lines : /\ t(k) \in 0..n
                              /\ lines[k].person = p => t(k) = Freq(ev, ev[k]) /\ t(k) # 0
                              /\ t(k) = 0 \/ \E j \in DOMAIN lines : lines[j].person = p /\ lines[j].elt = lines[k].elt
  <2> SUFFICES ASSUME NEW k \in DOMAIN lines
               PROVE  /\ t(k) \in 0..n
                      /\ lines[k].person = p => t(k) = Freq(ev, ev[k]) /\ t(k) # 0
                      /\ t(k) = 0 \/ \E j \in DOMAIN lines : lines[j].person = p /\ lines[j].elt = lines[k].elt
    OBVIOUS
  <2>1. t(k) \in 0..n /\ t(k) = Freq(ev, Key(p, lines[k].elt)) /\ (t(k) = 0 <=> Key(p, lines[k].elt) \notin Range(ev))
    BY TimesAre
  <2>2. ev[k] \in Range(ev)
    BY <1>1 DEF Range
  <2>3. ASSUME Key(p, lines[k].elt) \in Range(ev)
        PROVE  \E j \in DOMAIN lines : lines[j].person = p /\ lines[j].elt = lines[k].elt
    <3>1. PICK j \in DOMAIN lines : Key(lines[j].person, lines[j].elt) = Key(p, lines[k].elt)
      BY <1>1, <2>3 DEF Range
    <3> QED  BY <3>1 DEF Key
  <2> QED  BY <1>1, <2>1, <2>2, <2>3
<1>3. \A j, k \in DOMAIN lines : lines[j].elt = lines[k].elt => t(j) = t(k)
  OBVIOUS
<1>4. T = {t(k) : k \in {k \in DOMAIN lines : lines[k].person = p}}
  <2>1. \A k \in DOMAIN lines : ev[k].personid = lines[k].person
    BY <1>1 DEF Key
  <2>2. ASSUME NEW k \in DOMAIN lines, lines[k].person = p PROVE t(k) \in T
    <3>1. ev[k] \in Range(ev) /\ ev[k].personid = p
      BY <1>1, <2>1, <2>2 DEF Range
    <3>2. t(k) = Freq(ev, ev[k])
      BY <1>2, <2>2
    <3> HIDE DEF t, ev
    <3> QED  BY <3>1, <3>2
  <2>3. ASSUME NEW e \in Range(ev), e.personid = p PROVE \E k \in DOMAIN lines : lines[k].person = p /\ Freq(ev, e) = t(k)
    <3>1. PICK k \in DOMAIN lines : e = ev[k]
      BY <1>1 DEF Range
    <3> HIDE DEF t, ev
    <3> QED  BY <1>2, <2>1, <2>3, <3>1
  <2> HIDE DEF t, ev
  <2> QED  BY <2>2, <2>3
<1> HIDE DEF ev, t
<1>5. i \in DOMAIN lines /\ t(i) \in T
  BY <1>4
<1>6. \A u \in T : u \in 0..n /\ u # 0
  <2> SUFFICES ASSUME NEW u \in T PROVE u \in 0..n /\ u # 0
    OBVIOUS
  <2>1. PICK k \in {k \in DOMAIN lines : lines[k].person = p} : u = t(k)
    BY <1>4
  <2> HIDE DEF T
  <2> QED  BY <1>2, <2>1
<1>7. PICK m \in T : \A u \in T : m >= u
  <2> DEFINE V == {n - u : u \in T}
  <2>1. \A u \in T : u \in Int /\ n - u \in Nat
    BY <1>1, <1>6
  <2> HIDE DEF T
  <2>2. V \subseteq Nat /\ V # {}
    BY <1>5, <2>1
  <2>3. PICK v \in V : \A w \in V : ~(<<w, v>> \in OpToRel(<, Nat))
    <3> HIDE DEF V
    <3> QED  BY <2>2, WFMin, NatLessThanWellFounded
  <2>4. PICK m \in T : v = n - m
    OBVIOUS
  <2>5. ASSUME NEW u \in T PROVE m >= u
    <3>1. ~(n - u < n - m)
      <4>1. n - u \in V /\ n - u \in Nat /\ n - m \in Nat
        BY <2>1
      <4>2. ~(<<n - u, n - m>> \in OpToRel(<, Nat))
        BY <2>3, <2>4, <4>1
      <4> QED  BY <4>1, <4>2, Zenon DEF OpToRel
    <3> QED  BY <1>1, <2>1, <3>1
  <2> QED  BY <2>5
<1>8. T \subseteq U /\ \A u \in U : u \in Int /\ (u \in T \/ u = 0)
  <2>1. ASSUME NEW k \in DOMAIN lines PROVE t(k) \in Int /\ (t(k) \in T \/ t(k) = 0)
    <3>1. CASE t(k) # 0
      <4>1. PICK j \in DOMAIN lines : lines[j].person = p /\ lines[j].elt = lines[k].elt
        BY <1>2, <3>1
      <4>2. t(j) \in T /\ t(j) = t(k)
        BY <1>3, <1>4, <4>1
      <4> QED  BY <1>2, <4>2
    <3> QED  BY <1>2, <3>1
  <2> QED  BY <1>4, <2>1
<1> HIDE DEF T, U
<1>9. Max(T) = m
  <2>1. \A v \in T : (\A u \in T : v >= u) => v = m
    BY <1>7, <1>6
  <2> QED  BY <1>7, <2>1 DEF Max
<1>10. Max(U) = m
  <2>1. \A u \in U : m >= u
    BY <1>7, <1>6, <1>8
  <2>2. \A v \in U : (\A u \in U : v >= u) => v = m
    BY <1>7, <1>6, <1>8, <2>1
  <2> QED  BY <1>7, <1>8, <2>1, <2>2 DEF Max
<1>11. Most(lines, p) = Max(U) /\ Highest(Range(ev), ev, p) = Max(T)
  BY DEF Most, Highest, U, T, t
<1>12. t(i) \in 1..m
  BY <1>5, <1>7, <1>6
<1> QED  BY <1>7, <1>6, <1>9, <1>10, <1>11, <1>12 DEF t, ev

LEMMA FileFollowsCounts ==
    ASSUME NEW lines \in Seq(Lines), Complete(lines), NEW junk, NEW k \in DOMAIN lines, NEW file,
           file = RatingsFile(lines, junk), NEW p, p = lines[k].person, NEW e, e = lines[k].elt
    PROVE  /\ Cardinality(Found(file, p, e)) = 1
           /\ \/ Odd(Times(lines, p, e), Most(lines, p))
              \/ \A j \in Found(file, p, e) : file[j].rating = CountsAs(Times(lines, p, e), Most(lines, p))
<1> DEFINE ev == KeysOf(lines)
           R == Range(ev)
           N == Cardinality(R)
<1>1. file = FileOf(R, ev) /\ ev \in [1..Len(lines) -> Keys] /\ Len(lines) \in Nat
  BY RatingsFileIs
<1>2. IsFiniteSet(R) /\ R \subseteq Keys
  <2>1. IsFiniteSet(1..Len(lines))
    BY <1>1, FS_Interval
  <2>2. ev \in Surjection(1..Len(lines), R)
    <3> HIDE DEF ev
    <3>1. R \subseteq Keys /\ DOMAIN ev = 1..Len(lines)
      BY <1>1 DEF Range
    <3>2. ev \in [1..Len(lines) -> R]
      BY <1>1, <3>1 DEF Range
    <3>3. \A r \in R : \E i \in 1..Len(lines) : ev[i] = r
      BY <3>1 DEF Range
    <3> QED  BY <3>2, <3>3 DEF Surjection
  <2>3. R \subseteq Keys
    <3> HIDE DEF ev
    <3> QED  BY <1>1 DEF Range
  <2> HIDE DEF R
  <2> QED  BY <2>1, <2>2, <2>3, FS_Surjection
<1>3. Key(p, e) \in R
  <2>1. DOMAIN ev = DOMAIN lines /\ ev[k] = Key(p, e)
    BY DEF KeysOf
  <2> HIDE DEF ev
  <2> QED  BY <2>1 DEF Range
<1> HIDE DEF ev, R
<1>4. /\ N \in Nat
      /\ \A i \in 1..N : Entry(R, i) \in R
      /\ \E j \in 1..N : Entry(R, j) = Key(p, e) /\ \A i \in 1..N : Entry(R, i) = Key(p, e) => i = j
  BY <1>2, <1>3, EntriesAre
<1>5. PICK j \in 1..N : Entry(R, j) = Key(p, e) /\ \A i \in 1..N : Entry(R, i) = Key(p, e) => i = j
  BY <1>4
<1>6. /\ DOMAIN file = 1..N
      /\ \A i \in 1..N : /\ file[i].person = Entry(R, i).personid /\ file[i].elt = Entry(R, i).eltid
                         /\ file[i].rating = RatingOf(Freq(ev, Entry(R, i)), Highest(R, ev, Entry(R, i).personid))
  BY <1>1 DEF FileOf
<1>7. \A i \in 1..N : file[i].person = p /\ file[i].elt = e <=> i = j
  <2> SUFFICES ASSUME NEW i \in 1..N PROVE file[i].person = p /\ file[i].elt = e <=> Entry(R, i) = Key(p, e)
    BY <1>5
  <2>1. Entry(R, i) \in Keys
    BY <1>2, <1>4
  <2>2. Entry(R, i).personid = p /\ Entry(R, i).eltid = e <=> Entry(R, i) = Key(p, e)
    BY <2>1, KeyIs
  <2> QED  BY <1>6, <2>2
<1>8. Found(file, p, e) = {j}
  <2> HIDE DEF N
  <2> QED  BY <1>5, <1>6, <1>7 DEF Found
<1>9. file[j].rating = RatingOf(Times(lines, p, e), Most(lines, p))
  <2>1. Key(p, e).personid = p
    BY DEF Key
  <2>2. file[j].rating = RatingOf(Freq(ev, Key(p, e)), Highest(R, ev, p))
    BY <1>5, <1>6, <2>1
  <2>3. Freq(ev, Key(p, e)) = Times(lines, p, e)
    BY TimesAre DEF ev
  <2>4. Highest(R, ev, p) = Most(lines, p)
    BY MostIs DEF ev, R
  <2> QED  BY <2>2, <2>3, <2>4
<1>10. Most(lines, p) \in Nat /\ Times(lines, p, e) \in 1..Most(lines, p)
  BY MostIs
<1>11. Odd(Times(lines, p, e), Most(lines, p)) \/ file[j].rating = CountsAs(Times(lines, p, e), Most(lines, p))
  BY <1>9, <1>10, RatingIs
<1> QED  BY <1>8, <1>11, FS_Singleton

\* Lines of the beginning have tabs only; and ratings.out, when valgen is about
\* to read it and nothing died, is what ratgen made of the events.
Plain(lines) == \A k \in DOMAIN lines : lines[k].id = 0 => lines[k].comma = FALSE
FromEvents(ratings) == \E junk \in Junk : ratings \in RatgenResults(events, junk)

RatedInv ==
    /\ Files /\ faults \in Nat
    /\ Plain(events)
    /\ bmh_events # NoFile => Plain(bmh_events)
    /\ (pc = "valgen" /\ ratings_gen /\ faults = 0) => FromEvents(dir.ratings)

LEMMA PlainConcat ==
    ASSUME NEW s \in Seq(Lines), NEW t \in Seq(Lines), Plain(s), Plain(t)
    PROVE  Plain(s \o t)
<1> DEFINE st == s \o t
<1>1. /\ DOMAIN st = 1..Len(s)+Len(t) /\ Len(s) \in Nat /\ Len(t) \in Nat
      /\ DOMAIN s = 1..Len(s) /\ DOMAIN t = 1..Len(t)
      /\ \A k \in 1..Len(s) + Len(t) : st[k] = IF k <= Len(s) THEN s[k] ELSE t[k - Len(s)]
  OBVIOUS
<1> HIDE DEF st
<1>2. ASSUME NEW k \in DOMAIN st, st[k].id = 0 PROVE st[k].comma = FALSE
  <2>1. CASE k <= Len(s)
    <3>1. k \in DOMAIN s /\ st[k] = s[k]
      BY <1>1, <2>1
    <3> QED  BY <1>2, <3>1 DEF Plain
  <2>2. CASE ~(k <= Len(s))
    <3>1. k - Len(s) \in DOMAIN t /\ st[k] = t[k - Len(s)]
      BY <1>1, <2>2
    <3> QED  BY <1>2, <3>1 DEF Plain
  <2> QED  BY <2>1, <2>2
<1> QED  BY <1>2 DEF Plain, st

LEMMA PlainEvents ==
    ASSUME NEW g \in 0..Len(Feed), NEW r \in Seq(1..g)
    PROVE  Plain([k \in DOMAIN r |-> EventLine(r[k])])
<1>1. \A k \in DOMAIN r : EventLine(r[k]).id # 0
  <2> TAKE k \in DOMAIN r
  <2>1. r[k] \in 1..Len(Feed)
    BY FeedIsFinite
  <2> QED  BY <2>1 DEF EventLine
<1> QED  BY <1>1 DEF Plain

LEMMA RatedInit == Init => RatedInv
<1> SUFFICES ASSUME Init PROVE RatedInv
  OBVIOUS
<1>1. Plain(Base) /\ Plain(<<>>)
  <2>1. \A k \in DOMAIN Base : Base[k] \in BaseLines
    BY BaseIsLines
  <2>2. \A l \in BaseLines : l.comma = FALSE
    BY DEF BaseLines
  <2>3. Plain(Base)
    BY <2>1, <2>2 DEF Plain
  <2> QED  BY <2>3 DEF Plain
<1> QED  BY <1>1, FilesInit DEF Init, RatedInv

LEMMA RatedProgram ==
    ASSUME RatedInv, Programs
    PROVE  RatedInv'
<1> DEFINE d == LoadConfig(dir).dir
<1>1. Files' /\ UNCHANGED <<events, bmh_events>>
  <2>1. ProgramOnly
    BY DEF Programs, Program, RunRatgen, RatgenDies, RunValgen, ValgenDies, RunRecgenC, RunRecgenD, RecgenCDies, RecgenDDies
  <2> QED  BY <2>1, FilesProgram DEF RatedInv, ProgramOnly
<1>2. IsDir(d)
  BY LoadConfigFacts DEF RatedInv, Files
<1> HIDE DEF d
<1>3. CASE RunRatgen
  <2>1. PICK junk \in Junk : \E r \in RatgenResults(events, junk) : WriteRatings(d, r)
    BY <1>3 DEF RunRatgen, d
  <2>2. PICK r \in RatgenResults(events, junk) : WriteRatings(d, r)
    BY <2>1
  <2>5. dir'.ratings = r
    BY <1>2, <2>2, NewRatingsFacts
  <2>3. FromEvents(dir.ratings)'
    BY <1>1, <2>2, <2>5 DEF FromEvents
  <2>4. faults' = faults
    BY <1>3 DEF RunRatgen
  <2> QED  BY <1>1, <2>3, <2>4 DEF RatedInv
<1>4. CASE RatgenDies \/ ValgenDies \/ RecgenCDies \/ RecgenDDies
  <2>1. Fault
    BY <1>4 DEF RatgenDies, ValgenDies, RecgenCDies, RecgenDDies, DiesLoading, DiesWith
  <2>2. faults' = faults + 1
    BY <2>1 DEF Fault
  <2> QED  BY <1>1, <2>2 DEF RatedInv
<1>5. CASE RunValgen \/ RunRecgenC \/ RunRecgenD
  <2>1. faults' = faults /\ pc' # "valgen"
    BY <1>5 DEF RunValgen, RunRecgenC, RunRecgenD, Goto
  <2> QED  BY <1>1, <2>1 DEF RatedInv
<1> QED  BY <1>3, <1>4, <1>5 DEF Programs, Program

LEMMA RatedScript ==
    ASSUME RatedInv, Script
    PROVE  RatedInv'
<1>1. Files' /\ UNCHANGED <<faults, ratings_gen>> /\ (pc' = "valgen" => ~ratings_gen)
  <2>1. Files'
    BY FilesScript DEF RatedInv
  <2>2. UNCHANGED <<faults, ratings_gen>> /\ (pc' = "valgen" => ~ratings_gen)
    BY DEF Script, RemoveEvents, SignalRecgen, StartRecgen, AddEvents, AddProcessed, ScriptOnly, Goto
  <2> QED  BY <2>1, <2>2
<1>2. Plain(events)' /\ (bmh_events' # NoFile => Plain(bmh_events)')
  <2>1. CASE AddEvents
    <3>1. /\ bmh_events' = bmh_events /\ bmh_events # NoFile
          /\ events' = IF ratings_gen THEN events \o bmh_events ELSE events
      BY <2>1 DEF AddEvents
    <3>2. Plain(events) /\ Plain(bmh_events) /\ events \in Seq(Lines) /\ bmh_events \in Seq(Lines)
      BY <3>1 DEF RatedInv, Files
    <3>3. Plain(events \o bmh_events)
      BY <3>2, PlainConcat
    <3> QED  BY <3>1, <3>2, <3>3
  <2>2. CASE ~AddEvents
    <3>1. events' = events /\ bmh_events' \in {bmh_events, NoFile}
      BY <2>2 DEF Script, RemoveEvents, SignalRecgen, StartRecgen, AddProcessed, fileVars
    <3> QED  BY <3>1 DEF RatedInv
  <2> QED  BY <2>1, <2>2
<1> QED  BY <1>1, <1>2 DEF RatedInv

LEMMA RatedRecgen ==
    ASSUME RatedInv, Recgen \/ Receive \/ RecgenDies
    PROVE  RatedInv'
<1>1. Files' /\ UNCHANGED <<events, pc, ratings_gen>>
  <2>1. Files'
    BY FilesRecgen DEF RatedInv
  <2>2. UNCHANGED <<events, pc, ratings_gen>>
    BY DEF Recgen, CountRatings, Invalidate, Started, Reload, OpenEvents, WriteEvents, Receive, RecgenDies,
           RecgenOnly, scriptVars
  <2> QED  BY <2>1, <2>2
<1>2. dir'.ratings = dir.ratings
  <2>1. dir' = dir \/ dir' = Recorded(dir) \/ dir' = Removed(dir)
    BY DEF Recgen, CountRatings, Invalidate, Started, Reload, OpenEvents, WriteEvents, Receive, RecgenDies
  <2> QED  BY <2>1, RecordedFacts, RemovedFacts DEF RatedInv, Files
<1>3. faults' = faults \/ faults' = faults + 1
  BY DEF Recgen, CountRatings, Invalidate, Started, Reload, OpenEvents, WriteEvents, Receive, RecgenDies, Fault
<1>4. bmh_events' # NoFile => Plain(bmh_events)'
  <2>1. CASE OpenEvents
    <3>1. Plain(<<>>)
      BY DEF Plain
    <3> QED  BY <2>1, <3>1 DEF OpenEvents, RatedInv
  <2>2. CASE WriteEvents
    <3> DEFINE new == [k \in DOMAIN ram |-> EventLine(ram[k])]
    <3>1. Plain(new) /\ new \in Seq(Lines)
      BY PlainEvents, EventLinesAreLines DEF RatedInv, Files
    <3>2. bmh_events' = IF fp = "removed" THEN bmh_events ELSE bmh_events \o new
      BY <2>2 DEF WriteEvents
    <3> HIDE DEF new
    <3>3. fp # "removed" => bmh_events # NoFile /\ bmh_events \in Seq(Lines)
      BY <2>2 DEF WriteEvents, RatedInv, Files
    <3>4. fp # "removed" => Plain(bmh_events \o new)
      BY <3>1, <3>3, PlainConcat DEF RatedInv
    <3> QED  BY <3>2, <3>4 DEF RatedInv
  <2>3. CASE ~OpenEvents /\ ~WriteEvents
    <3>1. bmh_events' = bmh_events
      BY <2>3 DEF Recgen, CountRatings, Invalidate, Started, Reload, Receive, RecgenDies
    <3> QED  BY <3>1 DEF RatedInv
  <2> QED  BY <2>1, <2>2, <2>3
<1>5. (pc' = "valgen" /\ ratings_gen' /\ faults' = 0) => FromEvents(dir.ratings)'
  <2>1. FromEvents(dir.ratings) => FromEvents(dir.ratings)'
    BY <1>1, <1>2 DEF FromEvents
  <2>2. faults' = 0 => faults = 0
    BY <1>3 DEF RatedInv
  <2> QED  BY <1>1, <2>1, <2>2 DEF RatedInv
<1> QED  BY <1>1, <1>3, <1>4, <1>5 DEF RatedInv

LEMMA RatedAlways == Spec => []RatedInv
<1>1. ASSUME RatedInv, [Next]_vars PROVE RatedInv'
  <2>1. CASE UNCHANGED vars
    <3>1. Files'
      BY <1>1, FilesStep DEF RatedInv
    <3> QED  BY <1>1, <2>1, <3>1 DEF RatedInv, FromEvents, Plain, vars, scriptVars, fileVars, recgenVars, history
  <2>2. CASE Next
    BY <1>1, <2>2, RatedProgram, RatedScript, RatedRecgen DEF Next, Faults, Programs
  <2> QED  BY <1>1, <2>1, <2>2
<1> QED  BY <1>1, RatedInit, PTL DEF Spec

\* After ratgen and before valgen reads its file, unless a program died or
\* events with commas are in the input: the file has one rating for each pair of
\* a person and an element in events.txt, the number of 32nds that the count
\* reaches of the person's highest count, but where the table has its odd value
\* (src/ratgen/main.c).
THEOREM RatingsFollowCountsTheorem == Spec => []RatingsFollowCounts
<1>1. ASSUME RatedInv PROVE RatingsFollowCounts
  <2> SUFFICES ASSUME pc = "valgen", ratings_gen, faults = 0, IdsOf(events) = {}, NEW k \in DOMAIN events
               PROVE  RatedAsCounted(events, events[k].person, events[k].elt)
    BY DEF RatingsFollowCounts
  <2>1. events \in Seq(Lines) /\ DOMAIN events = 1..Len(events)
    BY <1>1 DEF RatedInv, Files
  <2>2. \A j \in DOMAIN events : events[j].id = 0
    BY <2>1, IdsOfLines
  <2>3. Complete(events)
    BY <1>1, <2>2 DEF RatedInv, Plain, Complete
  <2>4. PICK junk \in Junk : dir.ratings = RatingsFile(events, junk)
    <3>1. PICK junk \in Junk : dir.ratings \in RatgenResults(events, junk)
      BY <1>1 DEF RatedInv, FromEvents
    <3>2. \A j \in DOMAIN events : events[j].elt # 0
      <4>1. \A j \in DOMAIN events : events[j] \in Lines
        BY <2>1
      <4>2. \A l \in Lines : l.elt # 0
        BY DEF Lines
      <4> QED  BY <4>1, <4>2
    <3>3. \A j \in DOMAIN events : Tokens(events[j], junk).eltid # 0
      BY <2>3, <3>2 DEF Complete, Tokens
    <3>4. dir.ratings = RatingsFile(events, junk)
      BY <3>1, <3>3 DEF RatgenResults
    <3> QED  BY <3>4
  <2> QED  BY <2>1, <2>3, <2>4, FileFollowsCounts DEF RatedAsCounted
<1> QED  BY <1>1, RatedAlways, PTL
=============================================================================
