----------------------------- MODULE MCPipeline -----------------------------
(* Two people, three elements; the events are new ratings, and with the    *)
(* first two of them no pair of elements has a valence.                    *)
EXTENDS Pipeline

B(p, e, r) == [id |-> 0, person |-> p, elt |-> e, rating |-> r, comma |-> FALSE]
MCBase == <<B(2, 1, 4), B(1, 1, 32), B(2, 3, 9), B(1, 1, 7), B(1, 2, 20), B(2, 1, 3)>>
MCFeed == <<[person |-> 1, elt |-> 2], [person |-> 2, elt |-> 2], [person |-> 1, elt |-> 3]>>
MCBarren == {MCBase \o <<EventLine(1), EventLine(2)>>}
=============================================================================
