---------------------------- MODULE RequestQueue ----------------------------
(***************************************************************************)
(* What hum (src/recgen/hum.c) promises to its clients: they are served    *)
(* one at a time in the order in which they connected, each gets one       *)
(* answer or sees its connection closed, and an answer to a known request  *)
(* is never another client's.  If what makes the answers dies in the       *)
(* middle of one, that one may be junk.                                    *)
(***************************************************************************)
EXTENDS Sequences

CONSTANTS Clients

VARIABLES
    known,      \* the clients that ask for a uri that recgen serves
    queue, outcome,
    torn        \* the clients whose answer broke off

Init == known \subseteq Clients /\ torn = {} /\ queue = <<>> /\ outcome = [c \in Clients |-> "none"]

Arrive(c) ==
    /\ outcome[c] = "none" /\ \A k \in DOMAIN queue : queue[k] # c
    /\ queue' = Append(queue, c)
    /\ UNCHANGED <<known, outcome, torn>>

Refuse(c) ==
    /\ outcome[c] = "none" /\ \A k \in DOMAIN queue : queue[k] # c
    /\ outcome' = [outcome EXCEPT ![c] = "closed"]
    /\ UNCHANGED <<known, queue, torn>>

Results(c) == {"closed", "empty", c} \cup (IF c \in known THEN {} ELSE Clients)
                                      \cup (IF c \in known \ torn THEN {} ELSE {"junk"})

Finish ==
    /\ queue # <<>>
    /\ \E r \in Results(queue[1]) : outcome' = [outcome EXCEPT ![queue[1]] = r]
    /\ queue' = Tail(queue)
    /\ UNCHANGED <<known, torn>>

\* The answer to the first breaks off.
Tear ==
    /\ queue # <<>>
    /\ torn' = torn \cup {queue[1]}
    /\ UNCHANGED <<known, queue, outcome>>

\* hum dies: all connections are closed.
CloseAll ==
    /\ outcome' = [c \in Clients |-> IF \E k \in DOMAIN queue : queue[k] = c THEN "closed" ELSE outcome[c]]
    /\ queue' = <<>>
    /\ UNCHANGED <<known, torn>>

Next == (\E c \in Clients : Arrive(c) \/ Refuse(c)) \/ Finish \/ Tear \/ CloseAll

Spec == Init /\ [][Next]_<<known, queue, outcome, torn>>
=============================================================================
