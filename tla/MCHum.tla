------------------------------- MODULE MCHum -------------------------------
(* Hum for TLC: two clients, one in hand while the other waits or both       *)
(* waiting, and every shape of request that hum or recgen treats differently. *)
EXTENDS Hum

Request(kind, uri, length, first) ==
    [kind |-> kind, uri |-> uri, length |-> length, first |-> first, data |-> "good"]

\* 4 is the longest body that fits into a buffer of 6, 5 the shortest that does not.
MCShapes == {Request("post", "known", 4, 4), Request("post", "known", 3, 1),
             Request("post", "unknown", 0, 2), Request("post", "known", 5, 1),
             Request("other", "unknown", 0, 0), Request("broken", "known", 0, 0),
             Request("post", "known", -1, 1), Request("post", "long", 1, 1),
             [Request("post", "known", 1, 1) EXCEPT !.data = "bad"]}
=============================================================================
