------------------------------ MODULE EventLog ------------------------------
(***************************************************************************)
(* What recgen's event service promises, without its threads and its       *)
(* buffer (src/recgen/main.c, event()): accepted events form one log in    *)
(* the order they were accepted.  A prefix of the log is saved in the bmh  *)
(* events file; the unsaved rest never exceeds Capacity, is saved all at   *)
(* once when it reaches Capacity, and is what dies with the process.       *)
(*                                                                         *)
(* An event is known by the number of the request that carried it; its two *)
(* fields are kept apart because the code stores them one after the other. *)
(***************************************************************************)
EXTENDS Naturals, Sequences

CONSTANTS
    Capacity,   \* EVENTS_TO_PERSIST_MAX, at least 1
    Requests    \* the numbers of the requests (positive), in order of arrival

VARIABLES log, saved

logVars == <<log, saved>>

EventOf(n) == [personid |-> n, eltid |-> n]

(* Request n is later than every event of sequence s. *)
LaterThan(n, s) == \A i \in 1..Len(s) : s[i].personid < n

Init == log = <<>> /\ saved = 0

Record(n) ==
    /\ Len(log) - saved < Capacity
    /\ LaterThan(n, log)
    /\ log' = Append(log, EventOf(n))
    /\ UNCHANGED saved

Save ==
    /\ Len(log) - saved = Capacity
    /\ saved' = Len(log)
    /\ UNCHANGED log

Lose ==
    /\ log' = SubSeq(log, 1, saved)
    /\ UNCHANGED saved

Next == (\E n \in Requests : Record(n)) \/ Save \/ Lose

Spec == Init /\ [][Next]_logVars
=============================================================================
