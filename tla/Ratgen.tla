------------------------------- MODULE Ratgen -------------------------------
(***************************************************************************)
(* ratgen (src/ratgen/main.c) turns events, of which a person may have     *)
(* many about one element, into ratings from 1 to 32: how often the person *)
(* had an event about the element, relative to the element with most.      *)
(*                                                                         *)
(* A line of a file is a record with the ids and the fields it has.        *)
(***************************************************************************)
EXTENDS Integers, FiniteSets, SequencesExt, FiniteSetsExt

\* g_ratio_thresh, times 100000: steps of 1/32 but for number 26, which is
\* 0.8152, and the last, which is 1.01.
Threshold(k) == CASE k = 32 -> 101000 [] k = 26 -> 81520 [] OTHER -> k * 3125

\* Mutant: a ratio equal to a threshold belongs to the band below.
RatingOf_Closed(event_count, max_event_count) ==
    Min({k \in 1..32 : event_count * 100000 <= Threshold(k) * max_event_count} \cup {32})

RatingOf(event_count, max_event_count) ==
    Min({k \in 1..32 : event_count * 100000 < Threshold(k) * max_event_count})

\* The events as strtok() finds them.  The delimiter is a tab only: of a line
\* with a comma the number in front of it is the person, and the element stays
\* what malloc() left there.
Tokens(line, junk) ==
    [personid |-> line.person, eltid |-> IF line.comma THEN junk ELSE line.elt]

EventBefore(a, b) == a.personid < b.personid \/ (a.personid = b.personid /\ a.eltid < b.eltid)

\* main(): the events are sorted, the equal ones of each person counted and
\* rated.  The walk over a person's events starts with element 0 as the current
\* one and freq_ind -1, so events about element 0, the first of a person, open
\* no entry: they are counted in freqs[-1].
RatingsFile(lines, junk) ==
    LET events  == [k \in DOMAIN lines |-> Tokens(lines[k], junk)]
        rated   == {e \in Range(events) : e.eltid # 0}
        entry(j) == CHOOSE e \in rated : Cardinality({d \in rated : EventBefore(d, e)}) = j - 1
        freq(e) == Cardinality({k \in DOMAIN events : events[k] = e})
        max_event_count(p) == Max({freq(e) : e \in {d \in rated : d.personid = p}})
    IN [j \in 1..Cardinality(rated) |->
          [person |-> entry(j).personid, elt |-> entry(j).eltid,
           rating |-> RatingOf(freq(entry(j)), max_event_count(entry(j).personid))]]

\* What ratgen leaves.  freqs[-1] is in the header of the block: free() may end
\* the program there, with nothing written yet, or not notice.
RatgenResults(lines, junk) ==
    {RatingsFile(lines, junk)}
    \cup {<<>> : k \in {k \in DOMAIN lines : Tokens(lines[k], junk).eltid = 0}}
=============================================================================
