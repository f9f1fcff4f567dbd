------------------------------ MODULE Pipeline ------------------------------
(***************************************************************************)
(* The loop of the bemorehuman script with the programs it runs, beside a  *)
(* live recgen that saves events for the next pass.                        *)
(*                                                                         *)
(* With -r the input of the loop is events.txt and ratgen makes ratings.out*)
(* of it; without, it is ratings.out itself.  The script adds the bmh      *)
(* events file to the input, removes it in the next pass and signals       *)
(* recgen, or starts recgen anew and leaves the file there.  What recgen   *)
(* does with events and signals in detail is in EventBuffer and            *)
(* ValenceReload; here it has one worker.                                  *)
(***************************************************************************)
EXTENDS ConfigCache, Ratgen

CONSTANTS
    Base,                   \* the lines of the input at the beginning
    Feed,                   \* the events that people send to recgen, in order
    EVENTS_TO_PERSIST_MAX,
    Junk,                   \* what a field that malloc() returned may hold
    Barren,                 \* ratings of which no pair of elements gets a valence
    MaxPasses,              \* bound: passes after the first
    MaxFaults               \* bound: programs that die

\* id is 0 for the lines of the beginning and otherwise the number of the event.
Lines == [id : Nat, person : Nat \ {0}, elt : Nat \ {0}, rating : 0..32, comma : BOOLEAN]
EventLine(n) == [id |-> n, person |-> Feed[n].person, elt |-> Feed[n].elt, rating |-> 0, comma |-> TRUE]

ASSUME PipelineAssumption ==
    /\ Base \in Seq([id : {0}, person : Nat \ {0}, elt : Nat \ {0}, rating : 1..32, comma : {FALSE}])
    /\ Base # <<>>
    /\ Feed \in Seq([person : {Base[k].person : k \in DOMAIN Base}, elt : {Base[k].elt : k \in DOMAIN Base}])
    /\ EVENTS_TO_PERSIST_MAX \in Nat \ {0}
    /\ Junk \subseteq Nat /\ Junk # {}
    /\ NoFile \notin Seq(Lines)
    /\ MaxPasses \in Nat /\ MaxFaults \in Nat

VARIABLES
    ratings_gen,   \* -r was given
    pc,            \* where the script is
    dir,           \* the working directory, see ConfigCache
    events,        \* events.txt
    bmh_events,    \* BMH_EVENTS_FILE
    all_processed, \* bmh_events_processed.txt
    recgen,        \* the live recgen: "none", "starting", "counted", "loading", "up"
    ram,           \* its g_events_to_persist
    fp,            \* "closed", or the events file it has open: "linked", "removed"
    usr1,          \* SIGUSR1 is pending
    served,        \* the ratings behind the valences it has loaded
    got,           \* number of events received
    passes, faults,
    \* history
    saved,         \* the events written, in order
    late,          \* those written outside the wait, or to a file already removed
    reused,        \* recgen was started with an events file there
    hasty,         \* ratings.out changed twice within a second
    halfway,       \* a program died with rmetacache.txt written and nothing removed
    overtaken      \* a pass began before the recgen just started was up

scriptVars == <<pc, passes>>
fileVars   == <<dir, events, bmh_events, all_processed>>
recgenVars == <<recgen, ram, fp, usr1, served, got>>
history    == <<saved, late, reused, hasty, halfway, overtaken>>
vars == <<ratings_gen, scriptVars, fileVars, recgenVars, faults, history>>

Goto(step) == pc' = step

Init ==
    /\ ratings_gen \in BOOLEAN
    /\ pc = IF ratings_gen THEN "ratgen" ELSE "valgen"
    /\ events = IF ratings_gen THEN Base ELSE <<>>
    /\ dir = [ratings |-> IF ratings_gen THEN NoFile ELSE Base, mtime |-> 0, rmeta |-> NoFile,
              valences |-> NoFile, bb |-> NoFile, ds |-> NoFile]
    /\ bmh_events = NoFile /\ all_processed = <<>>
    /\ recgen = "none" /\ ram = <<>> /\ fp = "closed" /\ usr1 = FALSE /\ served = NoFile
    /\ got = 0 /\ passes = 0 /\ faults = 0
    /\ saved = <<>> /\ late = {} /\ reused = FALSE /\ hasty = FALSE
    /\ halfway = FALSE /\ overtaken = FALSE

-----------------------------------------------------------------------------
(* The programs of a pass. *)

\* ratings.out gets new contents, perhaps in the second of its last change.
WriteRatings(d, ratings) ==
    \E tick \in IF d.ratings = NoFile THEN {TRUE} ELSE BOOLEAN :
        /\ dir' = [d EXCEPT !.ratings = ratings, !.mtime = IF tick THEN @ + 1 ELSE @]
        /\ hasty' = (hasty \/ ~tick)

Fault == faults < MaxFaults /\ faults' = faults + 1

ProgramOnly == UNCHANGED <<ratings_gen, passes, events, bmh_events, all_processed, recgenVars,
                           saved, late, reused, overtaken>>

\* A program dies in load_config_file(): before it opens rmetacache.txt, while
\* it counts, or before it removes what is old.
DiesLoading ==
    /\ Fault /\ UNCHANGED hasty
    /\ \/ dir' \in {dir, IF Kept(dir) THEN dir ELSE Emptied(dir)} /\ UNCHANGED halfway
       \/ ~Kept(dir) /\ dir' = Recorded(dir) /\ halfway' = TRUE

RunRatgen ==
    /\ pc = "ratgen" /\ Goto("valgen")
    /\ \E junk \in Junk : \E ratings \in RatgenResults(events, junk) :
          WriteRatings(LoadConfig(dir).dir, ratings)
    /\ UNCHANGED <<faults, halfway>> /\ ProgramOnly

\* It dies with ratings.out truncated.
RatgenDies ==
    /\ pc = "ratgen" /\ Goto("valgen")
    /\ \/ DiesLoading
       \/ Fault /\ WriteRatings(LoadConfig(dir).dir, <<>>) /\ UNCHANGED halfway
    /\ ProgramOnly

\* valgen gives up on ids that are not in sequence and on more ratings than
\* were counted.
Acceptable(ratings, be) ==
    /\ ratings \notin {NoFile, <<>>}
    /\ \A k \in DOMAIN ratings : ratings[k].elt <= be.num_elts /\ ratings[k].person <= be.num_people + 1
    /\ Len(ratings) <= be.num_ratings

\* Of barren ratings valences.out is there and empty.
RunValgen ==
    /\ pc = "valgen" /\ Goto("recgen -c")
    /\ LET config == LoadConfig(dir)
       IN dir' = IF Acceptable(config.dir.ratings, config.be)
                 THEN [config.dir EXCEPT !.valences = config.dir.ratings] ELSE config.dir
    /\ UNCHANGED <<faults, hasty, halfway>> /\ ProgramOnly

\* A program has read its configuration and leaves or dies with one of dirs.
DiesWith(dirs) == Fault /\ dir' \in dirs /\ UNCHANGED <<hasty, halfway>>

\* Before it has merged its threads' files, or while it does.
ValgenDies ==
    /\ pc = "valgen" /\ Goto("recgen -c")
    /\ LET d == LoadConfig(dir).dir
       IN DiesLoading \/ DiesWith({d, [d EXCEPT !.valences = NoFile]})
    /\ ProgramOnly

\* recgen -c and recgen -d exit without valences or with none; the old cache
\* stays.
Cached(d, bb) == IF d.valences \in Barren \cup {NoFile} THEN d ELSE [d EXCEPT !.bb = bb]
CachedDS(d, ds) == IF d.valences \in Barren \cup {NoFile} THEN d ELSE [d EXCEPT !.ds = ds]

RunRecgenC ==
    /\ pc = "recgen -c" /\ Goto("recgen -d")
    /\ LET d == LoadConfig(dir).dir IN dir' = Cached(d, d.valences)
    /\ UNCHANGED <<faults, hasty, halfway>> /\ ProgramOnly

RunRecgenD ==
    /\ pc = "recgen -d" /\ Goto("recgen -b")
    /\ LET d == LoadConfig(dir).dir IN dir' = CachedDS(d, d.valences)
    /\ UNCHANGED <<faults, hasty, halfway>> /\ ProgramOnly

\* A cache cut short cannot be loaded: it is as if there were none.
RecgenCDies ==
    /\ pc = "recgen -c" /\ Goto("recgen -d")
    /\ LET d == LoadConfig(dir).dir
       IN DiesLoading \/ DiesWith({d, Cached(d, NoFile)})
    /\ ProgramOnly

RecgenDDies ==
    /\ pc = "recgen -d" /\ Goto("recgen -b")
    /\ LET d == LoadConfig(dir).dir
       IN DiesLoading \/ DiesWith({d, CachedDS(d, NoFile)})
    /\ ProgramOnly
-----------------------------------------------------------------------------
(* The script. *)

ScriptOnly == UNCHANGED <<ratings_gen, faults, hasty, saved, late, overtaken>>

\* What the live recgen leaves when it ends.
Gone ==
    /\ recgen' = "none" /\ ram' = <<>> /\ fp' = "closed" /\ usr1' = FALSE
    /\ halfway' = (halfway \/ recgen = "counted")

\* Mutant: the events file is left for the next pass.
RemoveEvents_Not ==
    /\ pc = "recgen -b" /\ bmh_events # NoFile /\ recgen # "none"
    /\ Goto("signal")
    /\ UNCHANGED <<passes, dir, events, bmh_events, all_processed, recgenVars, reused, halfway>> /\ ScriptOnly

\* recgen has the events file open: the rest goes to a file without a name.
RemoveEvents ==
    /\ pc = "recgen -b" /\ bmh_events # NoFile /\ recgen # "none"
    /\ Goto("signal")
    /\ bmh_events' = NoFile
    /\ fp' = IF fp = "linked" THEN "removed" ELSE fp
    /\ UNCHANGED <<passes, dir, events, all_processed, recgen, ram, usr1, served, got, reused, halfway>> /\ ScriptOnly

\* Mutant: the signal is not sent.
SignalRecgen_Not ==
    /\ pc = "signal" /\ Goto("wait")
    /\ UNCHANGED <<passes, fileVars, recgenVars, reused, halfway>> /\ ScriptOnly

\* A recgen that has not registered its handler yet is ended by the signal.
SignalRecgen ==
    /\ pc = "signal" /\ Goto("wait")
    /\ IF recgen \in {"starting", "counted"}
       THEN Gone
       ELSE usr1' = (recgen # "none") /\ UNCHANGED <<recgen, ram, fp, halfway>>
    /\ UNCHANGED <<passes, fileVars, served, got, reused>> /\ ScriptOnly

\* No events file or no recgen: whatever recgen is left is killed and a new
\* one started.
StartRecgen ==
    /\ pc = "recgen -b" /\ (bmh_events = NoFile \/ recgen = "none")
    /\ Goto("wait")
    /\ recgen' = "starting" /\ ram' = <<>> /\ fp' = "closed" /\ usr1' = FALSE
    /\ halfway' = (halfway \/ recgen = "counted")
    /\ reused' = (reused \/ bmh_events # NoFile)
    /\ UNCHANGED <<passes, fileVars, served, got>> /\ ScriptOnly

\* Mutant: the file is only read when it has lines by now, else the script goes on.
AddEvents_Nothing ==
    /\ pc = "wait" /\ bmh_events # NoFile /\ passes < MaxPasses
    /\ passes' = passes + 1
    /\ Goto("processed")
    /\ UNCHANGED <<ratings_gen, dir, events, bmh_events, all_processed, recgenVars, faults, history>>

\* There is an events file: it is added to the input,
AddEvents ==
    /\ pc = "wait" /\ bmh_events # NoFile /\ passes < MaxPasses
    /\ passes' = passes + 1
    /\ Goto("processed")
    /\ IF ratings_gen \/ bmh_events = <<>>
       THEN UNCHANGED <<dir, hasty>> ELSE WriteRatings(dir, dir.ratings \o bmh_events)
    /\ events' = IF ratings_gen THEN events \o bmh_events ELSE events
    /\ overtaken' = (overtaken \/ recgen \in {"starting", "counted", "loading"})
    /\ UNCHANGED <<ratings_gen, bmh_events, all_processed, recgenVars, faults, saved, late, reused, halfway>>

\* and, as it is by now, to the processed ones.
AddProcessed ==
    /\ pc = "processed"
    /\ Goto(IF ratings_gen THEN "ratgen" ELSE "valgen")
    /\ all_processed' = all_processed \o bmh_events
    /\ UNCHANGED <<passes, dir, events, bmh_events, recgenVars, reused, halfway>> /\ ScriptOnly

-----------------------------------------------------------------------------
(* The live recgen. *)

RecgenOnly == UNCHANGED <<ratings_gen, scriptVars, events, all_processed, reused, hasty, overtaken>>

\* load_config_file() of the live recgen, beside the script: rmetacache.txt is
\* written,
CountRatings ==
    /\ recgen = "starting"
    /\ IF Kept(dir) THEN recgen' = "loading" /\ UNCHANGED dir
                    ELSE recgen' = "counted" /\ dir' = Recorded(dir)
    /\ UNCHANGED <<bmh_events, ram, fp, usr1, served, got, faults, saved, late, halfway>> /\ RecgenOnly

\* and what is there by now removed.  Then the handler is registered.
Invalidate ==
    /\ recgen = "counted" /\ recgen' = "loading"
    /\ dir' = Removed(dir)
    /\ UNCHANGED <<bmh_events, ram, fp, usr1, served, got, faults, saved, late, halfway>> /\ RecgenOnly

\* The structures of the store; recgen exits if it cannot load them or if
\* there are no valences.
LoadStore ==
    IF NoFile \in {dir.bb, dir.ds} \/ dir.valences \in Barren
    THEN Gone /\ UNCHANGED served
    ELSE /\ recgen' = "up" /\ served' = [bb |-> dir.bb, ds |-> dir.ds] /\ usr1' = FALSE
         /\ UNCHANGED <<ram, fp, halfway>>

Started ==
    /\ recgen = "loading"
    /\ LoadStore
    /\ UNCHANGED <<dir, bmh_events, got, faults, saved, late>> /\ RecgenOnly

Reload ==
    /\ recgen = "up" /\ usr1
    /\ LoadStore
    /\ UNCHANGED <<dir, bmh_events, got, faults, saved, late>> /\ RecgenOnly

Receive ==
    /\ recgen = "up" /\ got < Len(Feed) /\ Len(ram) < EVENTS_TO_PERSIST_MAX
    /\ got' = got + 1 /\ ram' = Append(ram, got')
    /\ UNCHANGED <<dir, bmh_events, recgen, fp, usr1, served, faults, saved, late, halfway>> /\ RecgenOnly

\* fopen() makes the file, so that the script may find it empty.
OpenEvents ==
    /\ recgen = "up" /\ Len(ram) = EVENTS_TO_PERSIST_MAX /\ fp = "closed"
    /\ fp' = "linked"
    /\ bmh_events' = IF bmh_events = NoFile THEN <<>> ELSE bmh_events
    /\ UNCHANGED <<dir, recgen, ram, usr1, served, got, faults, saved, late, halfway>> /\ RecgenOnly

WriteEvents ==
    /\ recgen = "up" /\ fp # "closed"
    /\ bmh_events' = IF fp = "removed" THEN bmh_events
                     ELSE bmh_events \o [k \in DOMAIN ram |-> EventLine(ram[k])]
    /\ saved' = saved \o ram
    /\ late' = IF fp = "removed" \/ pc # "wait" THEN late \cup Range(ram) ELSE late
    /\ ram' = <<>> /\ fp' = "closed"
    /\ UNCHANGED <<dir, recgen, usr1, served, got, faults, halfway>> /\ RecgenOnly

RecgenDies ==
    /\ recgen # "none" /\ Fault
    /\ Gone
    /\ UNCHANGED <<dir, bmh_events, served, got, saved, late>> /\ RecgenOnly

Program == RunRatgen \/ RunValgen \/ RunRecgenC \/ RunRecgenD
Script  == RemoveEvents \/ SignalRecgen \/ StartRecgen \/ AddEvents \/ AddProcessed
Recgen  == CountRatings \/ Invalidate \/ Started \/ Reload \/ OpenEvents \/ WriteEvents
Faults  == RatgenDies \/ ValgenDies \/ RecgenCDies \/ RecgenDDies \/ RecgenDies

Next == Program \/ Script \/ Recgen \/ Receive \/ Faults

Steps == {"ratgen", "valgen", "recgen -c", "recgen -d", "recgen -b", "signal", "wait", "processed"}

\* The script and its programs stay nowhere but at the wait, and there only
\* without an events file; recgen answers its signal and completes what it has
\* begun.  Nothing is assumed of the people who send events.
GoOn == pc # "wait" /\ pc' \in Steps \ {pc}
Spec == Init /\ [][Next]_vars /\ WF_pc(GoOn) /\ WF_vars(AddEvents)
             /\ WF_vars(CountRatings \/ Invalidate \/ Started \/ Reload) /\ WF_vars(OpenEvents \/ WriteEvents)

-----------------------------------------------------------------------------

IdsOf(lines) == {lines[k].id : k \in {k \in DOMAIN lines : "id" \in DOMAIN lines[k]}} \ {0}
Input == IF ratings_gen THEN events ELSE dir.ratings
Waiting == IF bmh_events = NoFile THEN {} ELSE IdsOf(bmh_events)

\* An event that recgen wrote to the file is in the file or in the input,
\* whoever dies when, unless it was written in the time between cat and rm; and
\* it is in the input twice only if recgen was started anew while there was an
\* events file.
SavedCountOnce ==
    /\ Range(saved) \subseteq Waiting \cup IdsOf(Input) \cup late
    /\ \A j, k \in DOMAIN Input :
          (j # k /\ Input[j].id = Input[k].id /\ Input[j].id # 0) => reused

\* The numbers a program finds in rmetacache.txt are those of ratings.out,
\* unless ratings.out changed twice within a second.
CountsCurrent ==
    (dir.rmeta # NoFile /\ UseCache(dir) /\ ~hasty) => dir.rmeta.be = Counted(dir.ratings)

\* While the script waits with nothing pending and rmetacache.txt has the time
\* of ratings.out, recgen serves the valences of all ratings, if ratings.out was
\* not changed twice within a second: load_config_file() is to remove what is
\* old ("We could be in a bad place if recgen called us, and we set num_elts
\* based on new ratings file, but valences are old.  Invalidate (remove)
\* valences.out").
ServesAllRatings ==
    (pc = "wait" /\ recgen = "up" /\ ~usr1 /\ ~hasty /\ UseCache(dir)) =>
        served = [bb |-> dir.ratings, ds |-> dir.ratings]

\* So it is, whatever other programs died where, unless one died after it had
\* written rmetacache.txt and before it had removed what is old.
ServesCurrent == ~halfway => ServesAllRatings

Found(file, p, e) == {k \in DOMAIN file : file[k].person = p /\ file[k].elt = e}
Times(lines, p, e) == Cardinality(Found(lines, p, e))
Most(lines, p) == Max({Times(lines, p, lines[k].elt) : k \in DOMAIN lines})
Odd(c, m) == 8125 * m <= 10000 * c /\ 10000 * c < 8152 * m
CountsAs(c, m) == Min({32, (32 * c) \div m + 1})

RatedAsCounted(lines, p, e) ==
    /\ Cardinality(Found(dir.ratings, p, e)) = 1
    /\ \/ Odd(Times(lines, p, e), Most(lines, p))
       \/ \A j \in Found(dir.ratings, p, e) :
             dir.ratings[j].rating = CountsAs(Times(lines, p, e), Most(lines, p))

\* ratgen gives every person one rating per element: the number of 32nds its
\* count reaches of the highest count, where the code's table of thresholds
\* has no odd value.
RatingsFollowCounts ==
    (pc = "valgen" /\ ratings_gen /\ faults = 0 /\ IdsOf(events) = {}) =>
        \A k \in DOMAIN events : RatedAsCounted(events, events[k].person, events[k].elt)

\* Every event written while the script waits gets into the input, and what is
\* in ratings.out into the valences that recgen serves, if no program dies,
\* no second is too short, no pass overtakes a recgen that is just starting and
\* the ratings do not become barren.
SavedAreServed ==
    \A n \in 1..Len(Feed) :
        /\ (n \in Range(saved) \ late) ~> (n \in IdsOf(Input) \/ passes = MaxPasses)
        /\ (~ratings_gen /\ n \in IdsOf(dir.ratings))
              ~> (\/ faults > 0 \/ hasty \/ overtaken \/ passes = MaxPasses
                  \/ dir.ratings \in Barren
                  \/ served # NoFile /\ n \in IdsOf(served.bb) \cap IdsOf(served.ds))

\* With -r every event in events.txt becomes a rating.
EventsAreRead ==
    (pc = "valgen" /\ ratings_gen /\ faults = 0) =>
        \A k \in DOMAIN events : \E j \in DOMAIN dir.ratings :
            dir.ratings[j].person = events[k].person /\ dir.ratings[j].elt = events[k].elt
=============================================================================
