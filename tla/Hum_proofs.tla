---------------------------- MODULE Hum_proofs ----------------------------
(***************************************************************************)
(* Why hum and recgen understand each other, for any number of clients,    *)
(* any requests, and any deaths.                                           *)
(*                                                                         *)
(* As long as both ends of a connection are open, what hum has written is  *)
(* what recgen has read and what is under way; so recgen never waits for   *)
(* something that hum will not send, and closes the connection only after  *)
(* it has read everything.  hum opens the next connection only when the    *)
(* last one is over at both ends, unless it was killed.                    *)
(***************************************************************************)
EXTENDS Hum, SequenceTheorems, TLAPS

Known(c) == shape[c].uri = "known"
Writing  == {"uri_type", "uri_length", "uri", "post_type", "post_length", "post"}
Serving  == Writing \cup {"dispatch"} \cup Answering
Answered == Clients \cup {"closed", "empty", "junk"}
Words    == Clients \cup {"junk", "type", "length"}

HumTypes ==
    /\ shape \in [Clients -> Shapes]
    /\ outcome \in [Clients -> Answered \cup {"none"}]
    /\ handled \in [Clients -> Nat]
    /\ backlog \in Seq(Clients) /\ client_fd \in Clients \cup {"none"}
    /\ total \in Nat /\ kills \in Nat
    /\ conn \in Clients \cup {"none"} /\ out \in Clients \cup {"junk"}
    /\ humKilled \subseteq Clients /\ torn \subseteq Clients /\ recgenExited \subseteq Clients
    /\ sockfd \in BOOLEAN
    /\ to_recgen \in Seq(Writing) /\ to_hum \in Seq(Words)
    /\ hum \in {"accept", "head", "body", "connect", "looping", "down"} \cup Writing \cup Waiting
    /\ recgen \in {"accept", "load", "bind", "down"} \cup Serving
    /\ link \in {"none", "pending", "open"}

\* A client has one place in the queue, and a result when it has left it.
Queueing ==
    /\ client_fd = "none" <=> hum \in {"accept", "looping", "down"}
    /\ client_fd # "none" => outcome[client_fd] = "none"
    /\ \A k \in 1..Len(backlog) : outcome[backlog[k]] = "none" /\ backlog[k] # client_fd
    /\ \A j, k \in 1..Len(backlog) : j # k => backlog[j] # backlog[k]

\* The two ends of the connection.
Linked ==
    /\ link = "open" <=> recgen \in Serving
    /\ link = "pending" => recgen = "accept"
    /\ link # "none" => conn # "none" /\ (sockfd \/ conn \in humKilled)
    /\ sockfd <=> hum \in Writing \cup Waiting
    /\ sockfd => conn = client_fd
    /\ hum \in {"accept", "head", "body", "connect", "looping"} => link = "none"
    /\ recgen = "post" => shape[conn].length # 0
    /\ recgen \in {"dispatch"} \cup Answering => shape[conn].length >= 0 \/ ~sockfd
    /\ RecgenSurvivesHum
    /\ humKilled # {} => kills > 0

\* How many parts hum has written and recgen has read.
All(c) == IF shape[c].length = 0 THEN 5 ELSE 6
Place(part) ==
    IF part = "uri_type" THEN 0 ELSE IF part = "uri_length" THEN 1 ELSE IF part = "uri" THEN 2
    ELSE IF part = "post_type" THEN 3 ELSE IF part = "post_length" THEN 4 ELSE 5
Written   == IF hum \in Writing THEN Place(hum) ELSE All(conn)
ReadSoFar == IF recgen = "accept" THEN 0 ELSE IF recgen \in Writing THEN Place(recgen) ELSE All(conn)

\* What hum sends of a content whose length it gave as negative, nobody knows.
Certain == hum \in Writing \/ shape[conn].length >= 0
Counted == (sockfd /\ link # "none" /\ Certain) => ReadSoFar + Len(to_recgen) = Written

\* A request is handled once, and its answer stays with its connection.
Answers ==
    /\ \A c \in Clients : (outcome[c] = "none" /\ ~(sockfd /\ c = conn)) => handled[c] = 0
    /\ (link # "none" /\ ~sockfd) => outcome[conn] # "none"
    /\ (link # "none" /\ recgen \notin Answering) => handled[conn] = 0
    /\ (recgen \in Answering /\ Known(conn)) => out = conn /\ handled[conn] = 1
    /\ OwnAnswer

\* How many of the three parts of the answer recgen has written, and how many
\* hum has read: those between are under way.  A content is the last of three.
Pieces(place) == IF place = "answer_length" THEN 1 ELSE IF place = "answer_content" THEN 2 ELSE 0
Made  == Pieces(recgen)
Got   == Pieces(hum)
Given == Got + Len(to_hum)

Halves ==
    /\ (sockfd /\ link # "none") => Given = Made
    /\ (sockfd /\ link = "none") => Given = 0 \/ Given = 3 \/ (Given < 3 /\ conn \in torn)
    /\ (sockfd /\ Given = 3) =>
           /\ to_hum[Len(to_hum)] \in Clients \cup {"junk"}
           /\ Known(conn) => to_hum[Len(to_hum)] = conn /\ handled[conn] = 1

\* Nobody left, nothing was killed, and every request is one hum can take.
Calm == gone = {} /\ kills = 0 /\ \A c \in Clients : Harmless(shape[c])

Alive ==
    /\ hum = "body" => total = shape[client_fd].first \/ total = Whole(shape[client_fd])
    /\ Calm => /\ recgen \notin {"down", "load"} /\ hum \notin {"down", "looping"}
               /\ hum \in Writing => link # "none"
               /\ (hum = "wait" /\ link = "none") => to_recgen = <<>>

HumInv == HumTypes /\ Queueing /\ Linked /\ Counted /\ Answers /\ Halves /\ Alive
-----------------------------------------------------------------------------

LEMMA PartsFacts ==
    /\ Range(Parts) = Writing
    /\ After("uri_type") = "uri_length" /\ After("uri_length") = "uri" /\ After("uri") = "post_type"
    /\ After("post_type") = "post_length" /\ After("post_length") = "post"
<1>1. /\ Parts[1] = "uri_type" /\ Parts[2] = "uri_length" /\ Parts[3] = "uri"
      /\ Parts[4] = "post_type" /\ Parts[5] = "post_length" /\ Parts[6] = "post"
      /\ DOMAIN Parts = 1..6
  BY DEF Parts
<1>2. Range(Parts) = {Parts[k] : k \in 1..6}
  BY <1>1 DEF Range
<1>3. Range(Parts) = Writing
  <2>1. \A k \in 1..6 : k = 1 \/ k = 2 \/ k = 3 \/ k = 4 \/ k = 5 \/ k = 6
    OBVIOUS
  <2>2. 1 \in 1..6 /\ 2 \in 1..6 /\ 3 \in 1..6 /\ 4 \in 1..6 /\ 5 \in 1..6 /\ 6 \in 1..6
    OBVIOUS
  <2>3. \A p : p \in Range(Parts) => p \in Writing
    BY <1>1, <1>2, <2>1, Zenon DEF Writing
  <2>4. \A p : p \in Writing => p \in Range(Parts)
    BY <1>1, <1>2, <2>2, Zenon DEF Writing
  <2> QED  BY <2>3, <2>4, Zenon
<1>4. ASSUME NEW n \in 1..5, NEW p, p = Parts[n] PROVE After(p) = Parts[n + 1]
  <2> DEFINE k == CHOOSE k \in 1..5 : Parts[k] = p
  <2>1. k \in 1..5 /\ Parts[k] = p
    BY <1>4
  <2>2. k = n
    <3> HIDE DEF k
    <3>1. k = 1 \/ k = 2 \/ k = 3 \/ k = 4 \/ k = 5
      BY <2>1
    <3>2. n = 1 \/ n = 2 \/ n = 3 \/ n = 4 \/ n = 5
      OBVIOUS
    <3>3. Parts[k] = Parts[n]
      BY <1>4, <2>1
    <3> QED  BY <1>1, <3>1, <3>2, <3>3
  <2> QED  BY <2>2 DEF After
<1>5. /\ After(Parts[1]) = Parts[2] /\ After(Parts[2]) = Parts[3] /\ After(Parts[3]) = Parts[4]
      /\ After(Parts[4]) = Parts[5] /\ After(Parts[5]) = Parts[6]
  <2>1. /\ 1 \in 1..5 /\ 2 \in 1..5 /\ 3 \in 1..5 /\ 4 \in 1..5 /\ 5 \in 1..5
        /\ 1 + 1 = 2 /\ 2 + 1 = 3 /\ 3 + 1 = 4 /\ 4 + 1 = 5 /\ 5 + 1 = 6
    OBVIOUS
  <2>2. /\ After(Parts[1]) = Parts[1 + 1] /\ After(Parts[2]) = Parts[2 + 1] /\ After(Parts[3]) = Parts[3 + 1]
        /\ After(Parts[4]) = Parts[4 + 1] /\ After(Parts[5]) = Parts[5 + 1]
    BY <1>4, <2>1, Zenon
  <2> QED  BY <2>1, <2>2, Zenon
<1> QED  BY <1>1, <1>3, <1>5, Zenon

LEMMA ShapeFacts ==
    ASSUME HumTypes, NEW c \in Clients
    PROVE  /\ IsShape(shape[c]) /\ shape[c].length \in Int /\ All(c) \in {5, 6}
           /\ shape[c].first \in Nat /\ shape[c].first <= HUM_BUFFER_SIZE - 2
           /\ Whole(shape[c]) \in Nat /\ HUM_BUFFER_SIZE \in Nat
<1>1. shape[c] \in Shapes
  BY DEF HumTypes
<1> QED  BY <1>1, HumAssumption DEF IsShape, All, Whole

LEMMA NamesDiffer ==
    \A c \in Clients : c # "none" /\ c # "closed" /\ c # "empty" /\ c # "junk" /\ c # "type" /\ c # "length"
  BY HumAssumption

\* Where a part is in the order of parts.
LEMMA PlaceFacts ==
    /\ Place("uri_type") = 0 /\ Place("uri_length") = 1 /\ Place("uri") = 2
    /\ Place("post_type") = 3 /\ Place("post_length") = 4 /\ Place("post") = 5
  BY DEF Place

LEMMA PlaceRange == \A p : Place(p) \in 0..5
  BY DEF Place

LEMMA OnlyPost == \A p \in Writing : Place(p) = 5 => p = "post"
<1>1. \A p \in Writing : p = "uri_type" \/ p = "uri_length" \/ p = "uri" \/ p = "post_type" \/ p = "post_length" \/ p = "post"
  BY DEF Writing
<1>2. 0 # 5 /\ 1 # 5 /\ 2 # 5 /\ 3 # 5 /\ 4 # 5
  OBVIOUS
<1> QED  BY <1>1, <1>2, PlaceFacts, Zenon

LEMMA NextPlace == \A p \in Writing : p # "post" => After(p) \in Writing /\ Place(After(p)) = Place(p) + 1
<1>1. \A p \in Writing : p = "uri_type" \/ p = "uri_length" \/ p = "uri" \/ p = "post_type" \/ p = "post_length" \/ p = "post"
  BY DEF Writing
<1>2. \A p \in Writing : p # "post" => After(p) \in Writing
  BY <1>1, PartsFacts, Zenon DEF Writing
<1>3. 0 + 1 = 1 /\ 1 + 1 = 2 /\ 2 + 1 = 3 /\ 3 + 1 = 4 /\ 4 + 1 = 5
  OBVIOUS
<1>4. \A p \in Writing : p # "post" => Place(After(p)) = Place(p) + 1
  BY <1>1, <1>3, PartsFacts, PlaceFacts, Zenon
<1> QED  BY <1>2, <1>4

\* At a part, there is something left.
LEMMA PositionFacts ==
    /\ hum \in Writing => Written \in 0..5
    /\ recgen \in Writing => ReadSoFar \in 0..5
    /\ (recgen \in Writing /\ (recgen = "post" => shape[conn].length # 0)) => ReadSoFar # All(conn)
    /\ Written \in Nat /\ ReadSoFar \in Nat
<1>1. \A p : Place(p) \in 0..5 /\ Place(p) \in Nat
  BY PlaceRange
<1>2. All(conn) \in Nat /\ 0 \in Nat
  BY DEF All
<1>3. Written \in Nat /\ ReadSoFar \in Nat
  BY <1>1, <1>2, Zenon DEF Written, ReadSoFar
<1>4. hum \in Writing => Written \in 0..5
  BY <1>1 DEF Written
<1>5. recgen \in Writing => ReadSoFar = Place(recgen)
  BY DEF ReadSoFar, Writing
<1>6. ASSUME recgen \in Writing, recgen = "post" => shape[conn].length # 0 PROVE ReadSoFar # All(conn)
  <2>1. CASE recgen = "post"
    <3>1. ReadSoFar = 5
      BY <1>5, <1>6, <2>1, PlaceFacts
    <3>2. All(conn) = 6
      BY <1>6, <2>1 DEF All
    <3> QED  BY <3>1, <3>2
  <2>2. CASE recgen # "post"
    <3>1. Place(recgen) # 5 /\ Place(recgen) \in 0..5
      BY <1>1, <1>6, <2>2, OnlyPost
    <3>2. All(conn) \in {5, 6}
      BY DEF All
    <3> QED  BY <1>5, <1>6, <3>1, <3>2
  <2> QED  BY <2>1, <2>2
<1> QED  BY <1>1, <1>3, <1>4, <1>5, <1>6

\* The parts of the answer that are written and read.
LEMMA PieceRange ==
    /\ Made \in Nat /\ Made <= 2 /\ Got \in Nat /\ Got <= 2
    /\ recgen \notin {"answer_length", "answer_content"} => Made = 0
    /\ hum \notin {"answer_length", "answer_content"} => Got = 0
    /\ recgen = "answer_length" => Made = 1
    /\ recgen = "answer_content" => Made = 2
    /\ hum = "answer_length" => Got = 1
    /\ hum = "answer_content" => Got = 2
<1>1. Made \in Nat /\ Made <= 2
  BY DEF Pieces, Made
<1>2. Got \in Nat /\ Got <= 2
  BY DEF Pieces, Got
<1>3. recgen \notin {"answer_length", "answer_content"} => Made = 0
  BY Zenon DEF Pieces, Made
<1>4. hum \notin {"answer_length", "answer_content"} => Got = 0
  BY Zenon DEF Pieces, Got
<1>5. (recgen = "answer_length" => Made = 1) /\ (recgen = "answer_content" => Made = 2)
  BY Zenon DEF Pieces, Made
<1>6. (hum = "answer_length" => Got = 1) /\ (hum = "answer_content" => Got = 2)
  BY Zenon DEF Pieces, Got
<1> QED  BY <1>1, <1>2, <1>3, <1>4, <1>5, <1>6, Zenon

LEMMA PieceRangeNext ==
    /\ Made' \in Nat /\ Made' <= 2 /\ Got' \in Nat /\ Got' <= 2
    /\ recgen' \notin {"answer_length", "answer_content"} => Made' = 0
    /\ hum' \notin {"answer_length", "answer_content"} => Got' = 0
    /\ recgen' = "answer_length" => Made' = 1
    /\ recgen' = "answer_content" => Made' = 2
    /\ hum' = "answer_length" => Got' = 1
    /\ hum' = "answer_content" => Got' = 2
<1>1. Made' \in Nat /\ Made' <= 2
  BY DEF Pieces, Made
<1>2. Got' \in Nat /\ Got' <= 2
  BY DEF Pieces, Got
<1>3. recgen' \notin {"answer_length", "answer_content"} => Made' = 0
  BY Zenon DEF Pieces, Made
<1>4. hum' \notin {"answer_length", "answer_content"} => Got' = 0
  BY Zenon DEF Pieces, Got
<1>5. (recgen' = "answer_length" => Made' = 1) /\ (recgen' = "answer_content" => Made' = 2)
  BY Zenon DEF Pieces, Made
<1>6. (hum' = "answer_length" => Got' = 1) /\ (hum' = "answer_content" => Got' = 2)
  BY Zenon DEF Pieces, Got
<1> QED  BY <1>1, <1>2, <1>3, <1>4, <1>5, <1>6, Zenon

LEMMA PiecesStay == (UNCHANGED recgen => Made' = Made) /\ (UNCHANGED hum => Got' = Got)
  BY DEF Made, Got

LEMMA CountsStay ==
    UNCHANGED <<shape, hum, recgen, conn>> => Written' = Written /\ ReadSoFar' = ReadSoFar /\ (Certain' <=> Certain)
  BY DEF Written, ReadSoFar, Certain, All, Place

\* The answer does not move.
LEMMA HalvesStay ==
    ASSUME Halves, UNCHANGED <<shape, sockfd, link, conn, to_hum, handled, torn>>, Made' = Made, Got' = Got
    PROVE  Halves'
  BY DEF Halves, Given, Known

LEMMA HalvesClosed == ASSUME ~sockfd' PROVE Halves'
  BY DEF Halves

\* Who is in the queue.
LEMMA QueueRange ==
    ASSUME HumTypes
    PROVE  \A c \in Clients : c \in Range(Queue) <=>
               c = client_fd \/ \E k \in 1..Len(backlog) : backlog[k] = c
<1> SUFFICES ASSUME NEW c \in Clients
             PROVE  c \in Range(Queue) <=>
                       c = client_fd \/ \E k \in 1..Len(backlog) : backlog[k] = c
  OBVIOUS
<1>1. backlog \in Seq(Clients) /\ DOMAIN backlog = 1..Len(backlog) /\ Len(backlog) \in Nat /\ c # "none"
  BY NamesDiffer DEF HumTypes
<1>2. CASE client_fd = "none"
  <2>1. Queue = backlog
    BY <1>1, <1>2 DEF Queue
  <2> QED  BY <1>1, <1>2, <2>1 DEF Range
<1>3. CASE client_fd # "none"
  <2>1. Queue = <<client_fd>> \o backlog
    BY <1>3 DEF Queue
  <2>2. /\ DOMAIN Queue = 1..Len(backlog) + 1 /\ Queue[1] = client_fd
        /\ \A k \in 1..Len(backlog) : Queue[k + 1] = backlog[k]
    BY <1>1, <1>3, <2>1 DEF HumTypes
  <2>3. Range(Queue) = {Queue[k] : k \in 1..Len(backlog) + 1}
    BY <2>2 DEF Range
  <2>4. \A k \in 1..Len(backlog) : k + 1 \in 1..Len(backlog) + 1
    BY <1>1
  <2>5. \A k \in 1..Len(backlog) + 1 : k = 1 \/ (k - 1 \in 1..Len(backlog) /\ (k - 1) + 1 = k)
    BY <1>1
  <2>6. 1 \in 1..Len(backlog) + 1
    BY <1>1
  <2>7. ASSUME c \in Range(Queue) PROVE c = client_fd \/ \E k \in 1..Len(backlog) : backlog[k] = c
    <3>1. PICK k \in 1..Len(backlog) + 1 : Queue[k] = c
      BY <2>3, <2>7
    <3>2. CASE k = 1
      BY <2>2, <3>1, <3>2
    <3>3. CASE k - 1 \in 1..Len(backlog) /\ (k - 1) + 1 = k
      BY <2>2, <3>1, <3>3
    <3> QED  BY <2>5, <3>2, <3>3
  <2>8. c = client_fd => c \in Range(Queue)
    BY <2>2, <2>3, <2>6
  <2>9. ASSUME NEW k \in 1..Len(backlog), backlog[k] = c PROVE c \in Range(Queue)
    BY <2>2, <2>3, <2>4, <2>9
  <2> QED  BY <2>7, <2>8, <2>9
<1> QED  BY <1>2, <1>3
-----------------------------------------------------------------------------
(* Clients. *)

LEMMA ConnectKeeps == ASSUME HumInv, NEW c \in Clients, ConnectToHum(c) PROVE HumInv'
<1>1. HumTypes /\ Queueing /\ Linked /\ Counted /\ Answers /\ Halves /\ Alive
  BY DEF HumInv
<1>2. /\ UNCHANGED <<sent, gone, shape, hum, client_fd, total, sockfd, to_recgen, to_hum, link,
                     conn, recgen, out, handled, kills, humKilled, torn, recgenExited>>
      /\ outcome[c] = "none" /\ c \notin Range(Queue)
      /\ \/ hum = "down" /\ outcome' = [outcome EXCEPT ![c] = "closed"] /\ backlog' = backlog
         \/ backlog' = Append(backlog, c) /\ outcome' = outcome
  BY DEF ConnectToHum, ClientOnly, sockVars, recgenVars, history
<1>3. c # client_fd /\ \A k \in 1..Len(backlog) : backlog[k] # c
  BY <1>1, <1>2, QueueRange
<1>4. HumTypes'
  <2>1. backlog' \in Seq(Clients) /\ outcome' \in [Clients -> Answered \cup {"none"}]
    <3>1. backlog \in Seq(Clients) /\ outcome \in [Clients -> Answered \cup {"none"}]
      BY <1>1 DEF HumTypes
    <3>2. "closed" \in Answered \cup {"none"}
      BY DEF Answered
    <3> QED  BY <1>2, <3>1, <3>2
  <2> QED  BY <1>1, <1>2, <2>1 DEF HumTypes
<1>5. Queueing'
  <2>1. CASE backlog' = backlog /\ outcome' = [outcome EXCEPT ![c] = "closed"]
    BY <1>1, <1>2, <1>3, <2>1 DEF Queueing, HumTypes
  <2>2. CASE backlog' = Append(backlog, c) /\ outcome' = outcome
    BY <1>1, <1>2, <1>3, <2>2 DEF Queueing, HumTypes
  <2> QED  BY <1>2, <2>1, <2>2
<1>6. Linked'
  BY <1>1, <1>2 DEF Linked, RecgenSurvivesHum
<1>7. Counted'
  BY <1>1, <1>2, CountsStay DEF Counted
<1>8. Answers'
  <2>1. \A d \in Clients : outcome'[d] = outcome[d] \/ (d = c /\ outcome'[d] = "closed")
    BY <1>1, <1>2 DEF HumTypes
  <2>2. link # "none" => conn \in Clients
    BY <1>1 DEF Linked, HumTypes
  <2>3. UNCHANGED <<shape, sockfd, to_hum, link, conn, recgen, out, handled, torn>>
    BY <1>2
  <2>4. OwnAnswer'
    BY <1>1, <2>1, <2>3, NamesDiffer DEF Answers, OwnAnswer
  <2> QED  BY <1>1, <2>1, <2>2, <2>3, <2>4 DEF Answers, Known
<1>9. Halves'
  BY <1>1, <1>2, HalvesStay, PiecesStay
<1>10. Alive'
  BY <1>1, <1>2 DEF Alive, Calm
<1> QED  BY <1>4, <1>5, <1>6, <1>7, <1>8, <1>9, <1>10 DEF HumInv

LEMMA SendOrLeaveKeeps == ASSUME HumInv, NEW c \in Clients, Send(c) \/ Leave(c) PROVE HumInv'
<1>1. HumTypes /\ Queueing /\ Linked /\ Counted /\ Answers /\ Halves /\ Alive
  BY DEF HumInv
<1>2. /\ UNCHANGED <<shape, outcome, backlog, hum, client_fd, total, sockfd, to_recgen, to_hum, link,
                     conn, recgen, out, handled, kills, humKilled, torn, recgenExited>>
      /\ gone' = {} => gone = {}
  BY DEF Send, Leave, ClientOnly, sockVars, recgenVars, history
<1>3. HumTypes' /\ Queueing'
  BY <1>1, <1>2 DEF HumTypes, Queueing
<1>4. Linked' /\ Counted'
  BY <1>1, <1>2, CountsStay DEF Linked, Counted, RecgenSurvivesHum
<1>5. Answers' /\ Halves' /\ Alive'
  BY <1>1, <1>2, HalvesStay DEF Answers, OwnAnswer, Known, Alive, Calm, Made, Got
<1> QED  BY <1>3, <1>4, <1>5 DEF HumInv
-----------------------------------------------------------------------------
(* hum. *)

\* hum has read a piece of the answer, or not.
Taken == UNCHANGED to_hum \/ (to_hum # <<>> /\ to_hum' = Tail(to_hum))

LEMMA TakenFacts == ASSUME HumTypes, Taken PROVE to_hum' \in Seq(Words)
<1>1. to_hum \in Seq(Words)
  BY DEF HumTypes
<1> QED  BY <1>1 DEF Taken

\* All connections of hum are closed: on a live connection to recgen only when
\* hum is killed.
LEMMA CloseAllKeeps ==
    ASSUME HumInv,
           outcome' = [c \in Clients |-> IF c \in Range(Queue) THEN "closed" ELSE outcome[c]],
           backlog' = <<>>, client_fd' = "none", total' = 0, sockfd' = FALSE,
           NEW h \in {"accept", "down"}, hum' = h, h = "accept" => link = "none",
           recgen' = recgen \/ (recgen = "load" /\ recgen' = "bind"),
           Taken, UNCHANGED <<shape, gone, conn, link, to_recgen, out, handled, torn, recgenExited>>,
           humKilled' \subseteq Clients, humKilled \subseteq humKilled',
           kills' \in Nat, humKilled' # {} => kills' > 0,
           link # "none" => conn \in humKilled', ~Calm'
    PROVE  HumInv'
<1>1. HumTypes /\ Queueing /\ Linked /\ Counted /\ Answers /\ Halves /\ Alive
  BY DEF HumInv
<1>2. /\ outcome' \in [Clients -> Answered \cup {"none"}]
      /\ \A c \in Clients : outcome'[c] = "closed" \/ (outcome'[c] = outcome[c] /\ c # client_fd)
  <2>1. \A c \in Clients : outcome[c] \in Answered \cup {"none"}
    BY <1>1 DEF HumTypes
  <2>2. "closed" \in Answered
    BY DEF Answered
  <2>3. \A c \in Clients : c = client_fd => c \in Range(Queue)
    BY <1>1, QueueRange
  <2> QED  BY <2>1, <2>2, <2>3
<1>3. recgen = "load" => link = "none"
  BY <1>1 DEF Linked, Serving, Writing, Answering, HumTypes
<1>4. HumTypes'
  <2>1. backlog' \in Seq(Clients)
    OBVIOUS
  <2>2. /\ recgen' \in {"accept", "load", "bind", "down"} \cup Serving
        /\ hum' \in {"accept", "head", "body", "connect", "looping", "down"} \cup Writing \cup Waiting
    BY <1>1 DEF HumTypes
  <2> QED  BY <1>1, <1>2, <2>1, <2>2, TakenFacts DEF HumTypes
<1>5. Queueing'
  BY DEF Queueing
<1>6. Linked'
  <2>1. RecgenSurvivesHum'
    BY <1>1 DEF Linked, RecgenSurvivesHum
  <2>2. hum' \notin Writing \cup Waiting
    BY DEF Writing, Waiting
  <2> QED  BY <1>1, <1>3, <2>1, <2>2 DEF Linked, Writing, Serving, Answering
<1>7. Counted'
  BY DEF Counted
<1>8. Answers'
  <2>1. OwnAnswer'
    BY <1>1, <1>2, NamesDiffer DEF Answers, OwnAnswer
  <2>2. \A c \in Clients : outcome'[c] = "none" => handled[c] = 0
    BY <1>1, <1>2 DEF Answers, Linked
  <2>3. link # "none" => outcome'[conn] # "none"
    <3>1. link # "none" => conn \in Clients
      BY <1>1 DEF Linked, HumTypes
    <3> QED  BY <1>1, <1>2, <3>1 DEF Answers, Linked
  <2>4. link # "none" => recgen' = recgen
    BY <1>3
  <2>5. /\ (link # "none" /\ recgen \notin Answering) => handled[conn] = 0
        /\ (recgen \in Answering /\ Known(conn)) => out = conn /\ handled[conn] = 1
    BY <1>1 DEF Answers
  <2>6. recgen' \in Answering => recgen' = recgen
    BY DEF Answering
  <2> QED  BY <2>1, <2>2, <2>3, <2>4, <2>5, <2>6 DEF Answers, Known
<1>9. Halves' /\ Alive'
  BY HalvesClosed DEF Alive
<1> QED  BY <1>4, <1>5, <1>6, <1>7, <1>8, <1>9 DEF HumInv

LEMMA HumEndsKeeps ==
    ASSUME HumInv, HumEnds,
           Taken, UNCHANGED <<shape, gone, conn, link, to_recgen, recgen, out, handled, torn, recgenExited>>,
           humKilled' \subseteq Clients, humKilled \subseteq humKilled',
           kills' \in Nat, humKilled' # {} => kills' > 0,
           link # "none" => conn \in humKilled', ~Calm'
    PROVE  HumInv'
<1>1. /\ outcome' = [c \in Clients |-> IF c \in Range(Queue) THEN "closed" ELSE outcome[c]]
      /\ backlog' = <<>> /\ client_fd' = "none" /\ total' = 0 /\ sockfd' = FALSE /\ hum' = "down"
  BY DEF HumEnds
<1> QED  BY <1>1, CloseAllKeeps

\* The client in hand is done with.
LEMMA DoneKeeps ==
    ASSUME HumInv, client_fd # "none", link = "none",
           NEW answer \in Answered,
           Known(client_fd) => \/ answer \in {"closed", "empty"}
                               \/ answer = client_fd /\ handled[client_fd] = 1
                               \/ answer = "junk" /\ client_fd \in torn,
           NEW h \in {"accept", "looping"}, h = "looping" => ~Calm,
           outcome' = [outcome EXCEPT ![client_fd] = answer],
           hum' = h, client_fd' = "none", total' = 0, sockfd' = FALSE,
           Taken, UNCHANGED <<shape, gone, backlog, conn, link, to_recgen, recgen, out, handled,
                              kills, humKilled, torn, recgenExited>>
    PROVE  HumInv'
<1>1. HumTypes /\ Queueing /\ Linked /\ Counted /\ Answers /\ Halves /\ Alive
  BY DEF HumInv
<1>2. client_fd \in Clients /\ outcome \in [Clients -> Answered \cup {"none"}]
  BY <1>1 DEF HumTypes
<1>3. /\ outcome' \in [Clients -> Answered \cup {"none"}]
      /\ outcome'[client_fd] = answer /\ answer # "none"
      /\ \A c \in Clients : c # client_fd => outcome'[c] = outcome[c]
  <2>1. answer # "none"
    BY NamesDiffer DEF Answered
  <2> QED  BY <1>2, <2>1
<1>4. HumTypes'
  BY <1>1, <1>3, TakenFacts DEF HumTypes
<1>5. Queueing'
  <2>1. \A k \in 1..Len(backlog) : backlog[k] \in Clients
    BY <1>1 DEF HumTypes
  <2>2. \A k \in 1..Len(backlog) : outcome'[backlog[k]] = "none" /\ backlog[k] # "none"
    BY <1>1, <1>3, <2>1, NamesDiffer DEF Queueing
  <2> QED  BY <1>1, <2>2 DEF Queueing
<1>6. Linked'
  BY <1>1 DEF Linked, Writing, Waiting, RecgenSurvivesHum
<1>7. Counted'
  BY DEF Counted
<1>8. Answers'
  <2>1. OwnAnswer'
    BY <1>1, <1>3, NamesDiffer DEF Answers, OwnAnswer, Known
  <2>2. \A c \in Clients : outcome'[c] = "none" => handled[c] = 0
    BY <1>1, <1>3 DEF Answers, Linked
  <2> QED  BY <1>1, <2>1, <2>2 DEF Answers, Known
<1>9. Halves' /\ Alive'
  BY <1>1, HalvesClosed DEF Alive, Calm, Writing
<1> QED  BY <1>4, <1>5, <1>6, <1>7, <1>8, <1>9 DEF HumInv

LEMMA FinishKeeps ==
    ASSUME HumInv, client_fd # "none", link = "none", NEW answer \in Answered,
           Known(client_fd) => \/ answer \in {"closed", "empty"}
                               \/ answer = client_fd /\ handled[client_fd] = 1
                               \/ answer = "junk" /\ client_fd \in torn,
           Finish(answer),
           Taken, UNCHANGED <<shape, gone, conn, link, to_recgen, recgen, out, handled,
                              kills, humKilled, torn, recgenExited>>
    PROVE  HumInv'
<1>1. /\ outcome' = [outcome EXCEPT ![client_fd] = answer]
      /\ hum' = "accept" /\ client_fd' = "none" /\ total' = 0 /\ sockfd' = FALSE /\ backlog' = backlog
  BY DEF Finish
<1> QED  BY <1>1, DoneKeeps

LEMMA AcceptClientKeeps == ASSUME HumInv, AcceptClient PROVE HumInv'
<1>1. HumTypes /\ Queueing /\ Linked /\ Counted /\ Answers /\ Halves /\ Alive
  BY DEF HumInv
<1>2. /\ hum = "accept" /\ backlog # <<>> /\ hum' = "head"
      /\ client_fd' = Head(backlog) /\ backlog' = Tail(backlog)
      /\ UNCHANGED <<shape, gone, outcome, total, sockfd, to_recgen, to_hum, link, conn,
                     recgen, out, handled, kills, humKilled, torn, recgenExited>>
  BY DEF AcceptClient, HumOnly, clientVars, sockVars, recgenVars, history
<1>3. /\ client_fd' = backlog[1] /\ backlog[1] \in Clients /\ Len(backlog) \in Nat /\ Len(backlog) > 0
      /\ backlog' \in Seq(Clients) /\ Len(backlog') = Len(backlog) - 1
      /\ \A k \in 1..Len(backlog') : backlog'[k] = backlog[k + 1]
  BY <1>1, <1>2 DEF HumTypes
<1>4. HumTypes'
  BY <1>1, <1>2, <1>3 DEF HumTypes
<1>5. Queueing'
  <2>1. \A k \in 1..Len(backlog') : k + 1 \in 1..Len(backlog) /\ k + 1 # 1
    BY <1>3
  <2>2. 1 \in 1..Len(backlog)
    BY <1>3
  <2>3. \A k \in 1..Len(backlog') : outcome[backlog'[k]] = "none" /\ backlog'[k] # client_fd'
    BY <1>1, <1>3, <2>1, <2>2 DEF Queueing
  <2>4. \A j, k \in 1..Len(backlog') : j # k => backlog'[j] # backlog'[k]
    <3>1. \A j, k \in 1..Len(backlog') : j # k => j + 1 # k + 1
      BY <1>3
    <3> QED  BY <1>1, <1>3, <2>1, <3>1 DEF Queueing
  <2>5. outcome[client_fd'] = "none" /\ client_fd' # "none"
    BY <1>1, <1>3, <2>2, NamesDiffer DEF Queueing
  <2> QED  BY <1>2, <2>3, <2>4, <2>5 DEF Queueing
<1>6. Linked'
  BY <1>1, <1>2 DEF Linked, Writing, Waiting, RecgenSurvivesHum
<1>7. Counted'
  BY <1>1, <1>2 DEF Counted, Linked
<1>8. Answers'
  BY <1>1, <1>2 DEF Answers, OwnAnswer, Known
<1>9. Halves' /\ Alive'
  BY <1>1, <1>2, <1>6, HalvesClosed DEF Alive, Calm, Writing, Linked, Waiting
<1> QED  BY <1>4, <1>5, <1>6, <1>7, <1>8, <1>9 DEF HumInv

\* hum reads on from the client: nothing is open to recgen.
LEMMA ReadOnKeeps ==
    ASSUME HumInv, client_fd # "none", link = "none", ~sockfd,
           NEW h \in {"body", "connect"}, hum' = h, hum \in {"head", "body"},
           total' \in Nat, h = "body" => total' = shape[client_fd].first \/ total' = Whole(shape[client_fd]),
           UNCHANGED <<shape, gone, outcome, backlog, client_fd, sockfd, to_recgen, to_hum, link, conn,
                       recgen, out, handled, kills, humKilled, torn, recgenExited>>
    PROVE  HumInv'
<1>1. HumTypes /\ Queueing /\ Linked /\ Counted /\ Answers /\ Halves /\ Alive
  BY DEF HumInv
<1>2. HumTypes' /\ Queueing'
  BY <1>1 DEF HumTypes, Queueing
<1>3. Linked' /\ Counted'
  BY <1>1 DEF Linked, Counted, Writing, Waiting, RecgenSurvivesHum
<1>4. Answers'
  BY <1>1 DEF Answers, OwnAnswer, Known
<1>5. Halves' /\ Alive'
  BY <1>1, HalvesClosed DEF Alive, Calm, Writing
<1> QED  BY <1>2, <1>3, <1>4, <1>5 DEF HumInv

\* Before it connects, hum has nothing open.
LEMMA NotConnected ==
    ASSUME HumInv, hum \in {"head", "body", "connect"}
    PROVE  /\ client_fd # "none" /\ client_fd \in Clients /\ link = "none" /\ ~sockfd
           /\ humKilled \subseteq Clients /\ kills \in Nat /\ (humKilled # {} => kills > 0)
  BY DEF HumInv, HumTypes, Queueing, Linked, Writing, Waiting

LEMMA ReadHeadKeeps == ASSUME HumInv, ReadHead PROVE HumInv'
<1>1. /\ hum = "head"
      /\ UNCHANGED <<shape, sent, gone, to_recgen, to_hum, link, conn,
                     recgen, out, handled, kills, humKilled, torn, recgenExited>>
  BY DEF ReadHead, HumOnly, clientVars, recgenVars, history
<1>2. /\ client_fd # "none" /\ client_fd \in Clients /\ link = "none" /\ ~sockfd
      /\ humKilled \subseteq Clients /\ kills \in Nat /\ (humKilled # {} => kills > 0)
  BY <1>1, NotConnected
<1>3. Finish("closed") => HumInv'
  <2>1. "closed" \in Answered
    BY DEF Answered
  <2> QED  BY <1>1, <1>2, <2>1, FinishKeeps DEF Taken
<1>4. (HumEnds /\ ~Calm') => HumInv'
  BY <1>1, <1>2, HumEndsKeeps DEF Taken
<1>5. client_fd \in gone => ~Calm'
  BY <1>1 DEF Calm
<1>6. shape[client_fd].kind = "broken" => ~Calm'
  BY <1>1, <1>2 DEF Calm, Harmless
<1>7. ASSUME total' = (IF sent[client_fd] = "all" THEN Whole(shape[client_fd]) ELSE shape[client_fd].first),
             hum' = "body", UNCHANGED <<outcome, backlog, client_fd, sockfd>>
      PROVE  HumInv'
  <2>1. total' \in Nat /\ (total' = shape[client_fd].first \/ total' = Whole(shape[client_fd]))
    BY <1>2, <1>7, ShapeFacts DEF HumInv
  <2> QED  BY <1>1, <1>2, <1>7, <2>1, ReadOnKeeps
<1> QED  BY <1>3, <1>4, <1>5, <1>6, <1>7 DEF ReadHead

LEMMA ReadBodyKeeps == ASSUME HumInv, ReadBody PROVE HumInv'
<1>1. /\ hum = "body"
      /\ UNCHANGED <<shape, gone, to_recgen, to_hum, link, conn,
                     recgen, out, handled, kills, humKilled, torn, recgenExited>>
  BY DEF ReadBody, HumOnly, clientVars, recgenVars, history
<1>2. /\ client_fd # "none" /\ client_fd \in Clients /\ link = "none" /\ ~sockfd
      /\ humKilled \subseteq Clients /\ kills \in Nat /\ (humKilled # {} => kills > 0)
  BY <1>1, NotConnected
<1>3. CASE client_fd \in gone /\ HumEnds
  <2>1. ~Calm'
    BY <1>1, <1>3 DEF Calm
  <2> QED  BY <1>1, <1>2, <1>3, <2>1, HumEndsKeeps DEF Taken
<1>4. CASE total' = Whole(shape[client_fd]) /\ UNCHANGED <<outcome, backlog, hum, client_fd, sockfd>>
  <2>1. total' \in Nat
    BY <1>2, <1>4, ShapeFacts DEF HumInv
  <2> QED  BY <1>1, <1>2, <1>4, <2>1, ReadOnKeeps
<1> QED  BY <1>3, <1>4 DEF ReadBody

LEMMA BodyReadKeeps == ASSUME HumInv, BodyRead PROVE HumInv'
<1>1. /\ hum = "body" /\ total >= shape[client_fd].length
      /\ UNCHANGED <<shape, gone, to_recgen, to_hum, link, conn,
                     recgen, out, handled, kills, humKilled, torn, recgenExited>>
  BY DEF BodyRead, HumOnly, clientVars, recgenVars, history
<1>2. /\ client_fd # "none" /\ client_fd \in Clients /\ link = "none" /\ ~sockfd
      /\ humKilled \subseteq Clients /\ kills \in Nat /\ (humKilled # {} => kills > 0)
  BY <1>1, NotConnected
<1>3. CASE (total >= HUM_BUFFER_SIZE - 1 \/ shape[client_fd].length < 0) /\ HumEnds
  <2>1. /\ total = shape[client_fd].first \/ total = Whole(shape[client_fd])
        /\ shape[client_fd].length \in Int /\ shape[client_fd].first \in Nat
        /\ shape[client_fd].first <= HUM_BUFFER_SIZE - 2 /\ HUM_BUFFER_SIZE \in Nat
    BY <1>1, <1>2, ShapeFacts DEF HumInv, Alive
  <2>2. ~Harmless(shape[client_fd])
    BY <1>3, <2>1 DEF Harmless, Whole
  <2>3. ~Calm'
    BY <1>1, <1>2, <2>2 DEF Calm
  <2> QED  BY <1>1, <1>2, <1>3, <2>3, HumEndsKeeps DEF Taken
<1>4. CASE hum' = "connect" /\ UNCHANGED <<outcome, backlog, client_fd, total, sockfd>>
  <2>1. total' \in Nat
    BY <1>4 DEF HumInv, HumTypes
  <2> QED  BY <1>1, <1>2, <1>4, <2>1, ReadOnKeeps
<1> QED  BY <1>3, <1>4 DEF BodyRead

\* A new connection: the last one is over, and nothing is under way.
LEMMA ConnectToRecgenKeeps == ASSUME HumInv, ConnectToRecgen PROVE HumInv'
<1>0. HumTypes /\ Queueing /\ Linked /\ Counted /\ Answers /\ Halves /\ Alive
  BY DEF HumInv
<1>1. /\ hum = "connect"
      /\ UNCHANGED <<shape, gone, recgen, out, handled, kills, humKilled, torn, recgenExited>>
  BY DEF ConnectToRecgen, HumOnly, clientVars, recgenVars, history
<1>2. /\ client_fd # "none" /\ client_fd \in Clients /\ link = "none" /\ ~sockfd
  BY <1>1, NotConnected
<1>3. CASE Finish("closed") /\ UNCHANGED <<to_recgen, to_hum, link, conn>>
  <2>1. "closed" \in Answered
    BY DEF Answered
  <2> QED  BY <1>1, <1>2, <1>3, <2>1, FinishKeeps DEF Taken
<1>4. CASE /\ Listening /\ sockfd' = TRUE /\ link' = "pending" /\ conn' = client_fd
           /\ to_recgen' = <<>> /\ to_hum' = <<>>
           /\ hum' = "uri_type" /\ UNCHANGED <<outcome, backlog, client_fd, total>>
  <2>1. recgen = "accept"
    BY <1>0, <1>2, <1>4 DEF Listening, Linked, HumTypes
  <2>2. HumTypes'
    <3>1. to_recgen' \in Seq(Writing) /\ to_hum' \in Seq(Words) /\ hum' \in Writing
      <4>1. to_recgen' = <<>> /\ to_hum' = <<>> /\ hum' = "uri_type"
        BY <1>4
      <4>2. <<>> \in Seq(Writing) /\ <<>> \in Seq(Words)
        OBVIOUS
      <4>3. "uri_type" \in Writing
        BY DEF Writing
      <4> QED  BY <4>1, <4>2, <4>3, Zenon
    <3>2. /\ conn' \in Clients /\ sockfd' \in BOOLEAN /\ link' \in {"none", "pending", "open"}
          /\ UNCHANGED <<outcome, backlog, client_fd, total>>
      BY <1>2, <1>4
    <3> QED  BY <1>0, <1>1, <3>1, <3>2 DEF HumTypes
  <2>3. Queueing'
    BY <1>0, <1>1, <1>2, <1>4 DEF Queueing
  <2>4. Linked'
    BY <1>0, <1>1, <1>2, <1>4, <2>1 DEF Linked, Writing, Serving, Answering, RecgenSurvivesHum
  <2>5. Counted'
    <3>1. Written' = 0 /\ ReadSoFar' = 0 /\ to_recgen' = <<>> /\ Len(<<>>) = 0
      BY <1>1, <1>4, <2>1 DEF Written, ReadSoFar, Place, Writing
    <3> QED  BY <3>1 DEF Counted
  <2>6. Answers'
    <3>1. handled[client_fd] = 0
      BY <1>0, <1>2 DEF Queueing, Answers
    <3> QED  BY <1>0, <1>1, <1>2, <1>4, <2>1, <3>1 DEF Answers, OwnAnswer, Known, Answering
  <2>7. Alive'
    BY <1>0, <1>1, <1>4, <2>1 DEF Alive, Calm, Writing
  <2>8. Halves'
    <3>1. Given' = 0 /\ Made' = 0 /\ link' # "none"
      <4>1. Got' = 0 /\ Made' = 0
        BY <1>1, <1>4, <2>1, PieceRange, PieceRangeNext, PiecesStay
      <4>2. Len(to_hum') = 0
        BY <1>4
      <4> QED  BY <1>4, <4>1, <4>2 DEF Given
    <3> QED  BY <3>1 DEF Halves
  <2> QED  BY <2>2, <2>3, <2>4, <2>5, <2>6, <2>7, <2>8 DEF HumInv
<1> QED  BY <1>3, <1>4 DEF ConnectToRecgen

\* hum writes a part, and recgen has it to read.
LEMMA WritePartKeeps == ASSUME HumInv, WritePart PROVE HumInv'
<1>0. HumTypes /\ Queueing /\ Linked /\ Counted /\ Answers /\ Halves /\ Alive
  BY DEF HumInv
<1>1. /\ hum \in Writing
      /\ UNCHANGED <<shape, gone, to_hum, link, conn, recgen, out, handled, kills, humKilled, torn, recgenExited>>
  BY PartsFacts DEF WritePart, HumOnly, clientVars, recgenVars, history
<1>2. CASE link = "none" /\ HumEnds /\ UNCHANGED to_recgen
  <2>1. ~Calm'
    BY <1>0, <1>1, <1>2 DEF Alive, Calm
  <2>2. humKilled \subseteq Clients /\ kills \in Nat /\ (humKilled # {} => kills > 0)
    BY <1>0 DEF HumTypes, Linked
  <2> QED  BY <1>1, <1>2, <2>1, <2>2, HumEndsKeeps DEF Taken
<1>3. CASE /\ link # "none"
           /\ \/ (hum = "post" => shape[client_fd].length # 0) /\ to_recgen' = Append(to_recgen, hum)
              \/ hum = "post" /\ shape[client_fd].length <= 0 /\ UNCHANGED to_recgen
           /\ hum' = IF hum = "post" THEN "wait" ELSE After(hum)
           /\ UNCHANGED <<outcome, backlog, client_fd, total, sockfd>>
  <2>1. sockfd /\ conn = client_fd /\ conn \in Clients /\ shape[conn].length \in Int
    <3>1. sockfd /\ conn = client_fd /\ conn \in Clients
      BY <1>0, <1>1, <1>3 DEF Linked, HumTypes
    <3> QED  BY <1>0, <3>1, ShapeFacts
  <2>2. /\ to_recgen \in Seq(Writing) /\ Len(to_recgen) \in Nat
        /\ to_recgen' \in Seq(Writing)
        /\ Len(to_recgen') = Len(to_recgen) + 1 \/ (hum = "post" /\ Len(to_recgen') = Len(to_recgen))
        /\ (hum = "post" /\ shape[conn].length = 0) => Len(to_recgen') = Len(to_recgen)
        /\ (hum = "post" /\ shape[conn].length > 0) => Len(to_recgen') = Len(to_recgen) + 1
    <3>1. to_recgen \in Seq(Writing)
      BY <1>0 DEF HumTypes
    <3>2. CASE (hum = "post" => shape[client_fd].length # 0) /\ to_recgen' = Append(to_recgen, hum)
      BY <1>1, <2>1, <3>1, <3>2
    <3>3. CASE hum = "post" /\ shape[client_fd].length <= 0 /\ UNCHANGED to_recgen
      BY <2>1, <3>1, <3>3
    <3> QED  BY <1>3, <3>2, <3>3
  <2>3. /\ hum = "post" => hum' = "wait"
        /\ hum # "post" => hum' \in Writing /\ Place(hum') = Place(hum) + 1
    BY <1>1, <1>3, NextPlace
  <2>4. hum' \in Writing \cup {"wait"}
    BY <1>1, <2>3
  <2>5. HumTypes'
    BY <1>0, <1>1, <1>3, <2>2, <2>4 DEF HumTypes, Waiting
  <2>6. Queueing'
    BY <1>0, <1>1, <1>3, <2>4 DEF Queueing, Writing
  <2>7. Linked'
    BY <1>0, <1>1, <1>3, <2>1, <2>4 DEF Linked, Writing, Waiting, RecgenSurvivesHum
  <2>8. Counted'
    <3> SUFFICES ASSUME Certain' PROVE ReadSoFar' + Len(to_recgen') = Written'
      BY DEF Counted
    <3>1. ReadSoFar + Len(to_recgen) = Written
      BY <1>0, <1>1, <1>3, <2>1 DEF Counted, Certain
    <3>2. ReadSoFar' = ReadSoFar
      BY <1>1 DEF ReadSoFar, All, Place
    <3>3. ReadSoFar \in Nat /\ Written \in Nat /\ Written = Place(hum) /\ Place(hum) \in 0..5
      BY <1>1, PositionFacts, PlaceRange DEF Written
    <3>4. CASE hum # "post"
      <4>1. Written' = Written + 1
        BY <2>3, <3>3, <3>4 DEF Written, Place
      <4> QED  BY <2>2, <3>1, <3>2, <3>3, <3>4, <4>1
    <3>5. CASE hum = "post"
      <4>1. "wait" \notin Writing
        BY DEF Writing
      <4>2. shape[conn].length >= 0
        BY <1>1, <2>3, <3>5, <4>1 DEF Certain
      <4>3. Written = 5 /\ Written' = All(conn)
        <5>1. hum' \notin Writing
          BY <2>3, <3>5, <4>1
        <5>2. Place(hum) = 5
          BY <3>5, PlaceFacts
        <5>3. UNCHANGED <<shape, conn>>
          BY <1>1
        <5> QED  BY <3>3, <5>1, <5>2, <5>3 DEF Written, All
      <4>4. (shape[conn].length = 0 => All(conn) = 5) /\ (shape[conn].length # 0 => All(conn) = 6)
        BY DEF All
      <4>5. CASE shape[conn].length = 0
        BY <2>2, <3>1, <3>2, <3>3, <3>5, <4>3, <4>4, <4>5
      <4>6. CASE shape[conn].length > 0
        BY <2>2, <3>1, <3>2, <3>3, <3>5, <4>3, <4>4, <4>6
      <4> QED  BY <2>1, <4>2, <4>5, <4>6
    <3> QED  BY <3>4, <3>5
  <2>9. Answers'
    BY <1>0, <1>1, <1>3 DEF Answers, OwnAnswer, Known
  <2>10. Halves'
    <3>1. Got' = 0 /\ Got = 0 /\ Made' = Made
      BY <1>1, <2>4, PieceRange, PieceRangeNext, PiecesStay DEF Writing
    <3> QED  BY <1>0, <1>1, <1>3, <3>1, HalvesStay
  <2>11. Alive'
    BY <1>0, <1>1, <1>3, <2>4 DEF Alive, Calm, Writing
  <2> QED  BY <2>5, <2>6, <2>7, <2>8, <2>9, <2>10, <2>11 DEF HumInv
<1> QED  BY <1>2, <1>3 DEF WritePart

\* When hum reads the content, recgen has closed the connection, and the content
\* is that of the answer; where it is missing, recgen was killed.
LEMMA ContentIs ==
    ASSUME HumInv, hum = "answer_content", to_hum # <<>>
    PROVE  /\ link = "none" /\ Head(to_hum) \in Answered
           /\ Known(client_fd) => Head(to_hum) = client_fd /\ handled[client_fd] = 1
<1>0. HumTypes /\ Linked /\ Halves
  BY DEF HumInv
<1>1. sockfd /\ conn = client_fd
  BY <1>0 DEF Linked, Writing, Waiting
<1>2. to_hum \in Seq(Words) /\ Len(to_hum) \in Nat /\ Len(to_hum) > 0
  BY <1>0 DEF HumTypes
<1>3. Given = 2 + Len(to_hum) /\ Made <= 2 /\ Made \in Nat
  BY PieceRange DEF Given
<1>4. link = "none" /\ Len(to_hum) = 1 /\ Given = 3
  <2>0. Len(to_hum) \in Nat /\ Len(to_hum) > 0
    BY <1>2
  <2>1. Given # Made /\ Given # 0 /\ ~(Given < 3)
    BY <1>3, <2>0
  <2>2. link = "none"
    BY <1>0, <1>1, <2>1 DEF Halves
  <2>3. Given = 3
    BY <1>0, <1>1, <2>1, <2>2 DEF Halves
  <2>4. Len(to_hum) = 1
    <3>1. \A n \in Nat : 2 + n = 3 => n = 1
      OBVIOUS
    <3> QED  BY <1>3, <2>0, <2>3, <3>1, Zenon
  <2> QED  BY <2>2, <2>3, <2>4
<1>5. Head(to_hum) = to_hum[Len(to_hum)]
  BY <1>2, <1>4
<1> QED  BY <1>0, <1>1, <1>4, <1>5 DEF Halves, Answered

LEMMA MissingIs ==
    ASSUME HumInv, hum \in Waiting, hum # "wait", to_hum = <<>>, link = "none"
    PROVE  client_fd \in torn
<1>0. Linked /\ Halves
  BY DEF HumInv
<1>1. sockfd /\ conn = client_fd
  BY <1>0 DEF Linked
<1>2. Len(to_hum) = 0 /\ (Got = 1 \/ Got = 2)
  BY PieceRange DEF Waiting
<1>3. Given = 1 \/ Given = 2
  BY <1>2 DEF Given
<1> QED  BY <1>0, <1>1, <1>3 DEF Halves

LEMMA ReadAnswerKeeps == ASSUME HumInv, ReadAnswer PROVE HumInv'
<1>0. HumTypes /\ Queueing /\ Linked /\ Counted /\ Answers /\ Halves /\ Alive
  BY DEF HumInv
<1>1. /\ hum \in Waiting
      /\ UNCHANGED <<shape, gone, to_recgen, link, conn, recgen, out, handled,
                     kills, humKilled, torn, recgenExited>>
  BY DEF ReadAnswer, HumOnly, clientVars, recgenVars, history
<1>2. sockfd /\ conn = client_fd /\ client_fd # "none" /\ client_fd \in Clients
  BY <1>0, <1>1 DEF Linked, Queueing, HumTypes, Writing, Waiting
<1>3. to_hum \in Seq(Words) /\ Len(to_hum) \in Nat
  BY <1>0 DEF HumTypes
<1>4. \A answer \in Answered :
         (/\ link = "none" /\ Taken
          /\ Known(client_fd) => \/ answer \in {"closed", "empty"}
                                 \/ answer = client_fd /\ handled[client_fd] = 1
                                 \/ answer = "junk" /\ client_fd \in torn
          /\ Respond(answer)) => HumInv'
  <2> SUFFICES ASSUME NEW answer \in Answered, link = "none", Taken,
                      Known(client_fd) => \/ answer \in {"closed", "empty"}
                                          \/ answer = client_fd /\ handled[client_fd] = 1
                                          \/ answer = "junk" /\ client_fd \in torn,
                      Respond(answer)
               PROVE  HumInv'
    OBVIOUS
  <2>1. CASE Finish(answer)
    BY <1>1, <1>2, <2>1, FinishKeeps
  <2>2. CASE client_fd \in gone /\ HumEnds
    <3>1. ~Calm'
      BY <1>1, <2>2 DEF Calm
    <3>2. humKilled \subseteq Clients /\ kills \in Nat /\ (humKilled # {} => kills > 0)
      BY <1>0 DEF HumTypes, Linked
    <3> QED  BY <1>1, <1>2, <2>2, <3>1, <3>2, HumEndsKeeps
  <2> QED  BY <2>1, <2>2 DEF Respond
<1>5. "closed" \in Answered /\ "empty" \in Answered /\ "junk" \in Answered
  BY DEF Answered
<1>6. CASE to_hum # <<>> /\ to_hum' = Tail(to_hum)
  <2>1. /\ to_hum' \in Seq(Words) /\ Len(to_hum') = Len(to_hum) - 1 /\ Len(to_hum) > 0
        /\ \A k \in 1..Len(to_hum') : to_hum'[k] = to_hum[k + 1]
    BY <1>3, <1>6
  <2>2. CASE /\ \/ hum = "wait" /\ hum' = "answer_length"
                \/ hum = "answer_length" /\ hum' = "answer_content"
             /\ UNCHANGED <<outcome, backlog, client_fd, total, sockfd>>
    <3>0. hum \notin Writing /\ hum' \in Waiting /\ hum' \notin Writing
      BY <2>2 DEF Waiting, Writing
    <3>1. HumTypes' /\ Queueing'
      BY <1>0, <1>1, <2>1, <2>2, <3>0 DEF HumTypes, Queueing
    <3>2. Linked'
      BY <1>0, <1>1, <2>2, <3>0 DEF Linked, RecgenSurvivesHum
    <3>3. Counted'
      BY <1>0, <1>1, <2>2, <3>0 DEF Counted, Certain, Written, ReadSoFar, All, Place
    <3>4. Answers'
      BY <1>0, <1>1, <2>2 DEF Answers, OwnAnswer, Known
    <3>5. Halves'
      <4>1. Got' = Got + 1 /\ Got \in Nat
        BY <2>2, PieceRange, PieceRangeNext, PiecesStay
      <4>2. Given' = Given /\ Given \in Nat /\ Given = Got + Len(to_hum)
        BY <1>3, <2>1, <4>1 DEF Given
      <4>3. Made' = Made
        BY <1>1 DEF Made
      <4>4. Given = 3 => Len(to_hum) > 1
        BY <1>3, <2>2, <4>2, PieceRange, PieceRangeNext, PiecesStay
      <4>5. Given = 3 => to_hum'[Len(to_hum')] = to_hum[Len(to_hum)]
        <5> SUFFICES ASSUME Given = 3 PROVE to_hum'[Len(to_hum')] = to_hum[Len(to_hum)]
          OBVIOUS
        <5>1. Len(to_hum') \in 1..Len(to_hum') /\ Len(to_hum') + 1 = Len(to_hum)
          BY <1>3, <2>1, <4>4
        <5> QED  BY <2>1, <5>1
      <4> QED  BY <1>0, <1>1, <2>2, <4>2, <4>3, <4>5 DEF Halves, Known
    <3>6. Alive'
      BY <1>0, <1>1, <2>2, <3>0 DEF Alive, Calm
    <3> QED  BY <3>1, <3>2, <3>3, <3>4, <3>5, <3>6 DEF HumInv
  <2>3. CASE hum = "answer_content" /\ Respond(Head(to_hum))
    <3>1. /\ link = "none" /\ Head(to_hum) \in Answered
          /\ Known(client_fd) => Head(to_hum) = client_fd /\ handled[client_fd] = 1
      BY <1>6, <2>3, ContentIs
    <3> QED  BY <1>4, <1>6, <2>3, <3>1 DEF Taken
  <2> QED  BY <1>6, <2>2, <2>3 DEF ReadAnswer
<1>7. CASE to_hum = <<>> /\ link = "none" /\ UNCHANGED to_hum
  <2>1. CASE Respond("empty")
    BY <1>4, <1>5, <1>7, <2>1 DEF Taken
  <2>2. CASE hum # "wait" /\ Respond("junk")
    <3>1. client_fd \in torn
      BY <1>1, <1>7, <2>2, MissingIs
    <3> QED  BY <1>4, <1>5, <1>7, <2>2, <3>1 DEF Taken
  <2>3. CASE /\ hum = "wait" /\ to_recgen # <<>> /\ outcome' = [outcome EXCEPT ![client_fd] = "closed"]
             /\ hum' = "looping" /\ client_fd' = "none" /\ total' = 0 /\ sockfd' = FALSE
             /\ UNCHANGED backlog
    <3>1. ~Calm
      BY <1>0, <1>7, <2>3 DEF Alive
    <3> QED  BY <1>1, <1>2, <1>5, <1>7, <2>3, <3>1, DoneKeeps DEF Taken
  <2> QED  BY <1>7, <2>1, <2>2, <2>3 DEF ReadAnswer
<1> QED  BY <1>6, <1>7 DEF ReadAnswer
-----------------------------------------------------------------------------
(* recgen. *)

\* What a step of recgen leaves alone.
LEMMA QueueStays ==
    ASSUME Queueing, UNCHANGED <<outcome, backlog, hum, client_fd>>
    PROVE  Queueing'
  BY DEF Queueing

LEMMA AcceptHumKeeps == ASSUME HumInv, AcceptHum PROVE HumInv'
<1>0. HumTypes /\ Queueing /\ Linked /\ Counted /\ Answers /\ Halves /\ Alive
  BY DEF HumInv
<1>1. /\ recgen = "accept" /\ link = "pending" /\ link' = "open" /\ recgen' = "uri_type"
      /\ UNCHANGED <<shape, gone, outcome, backlog, hum, client_fd, total, sockfd, to_recgen, to_hum,
                     conn, out, handled, kills, humKilled, torn, recgenExited>>
  BY DEF AcceptHum, RecgenOnly, clientVars, humVars
<1>2. recgen' \in Writing /\ recgen' \in Serving /\ recgen' \notin Answering
  BY <1>1 DEF Serving, Writing, Answering
<1>3. HumTypes'
  BY <1>0, <1>1, <1>2 DEF HumTypes
<1>4. Linked'
  BY <1>0, <1>1, <1>2 DEF Linked, RecgenSurvivesHum
<1>5. Counted'
  <2>1. ReadSoFar' = ReadSoFar /\ Written' = Written /\ (Certain' <=> Certain)
    BY <1>1, <1>2 DEF ReadSoFar, Written, Certain, All, Place
  <2> QED  BY <1>0, <1>1, <2>1 DEF Counted
<1>6. Answers'
  BY <1>0, <1>1, <1>2 DEF Answers, OwnAnswer, Known, Answering
<1>7. Halves'
  <2>1. Made = 0 /\ Made' = 0 /\ Given' = Given
    BY <1>1, PieceRange, PieceRangeNext, PiecesStay DEF Given
  <2>2. sockfd => Given = 0
    BY <1>0, <1>1, <2>1 DEF Halves
  <2> QED  BY <1>1, <2>1, <2>2 DEF Halves
<1>8. Alive'
  BY <1>0, <1>1 DEF Alive, Calm
<1> QED  BY <1>0, <1>1, <1>3, <1>4, <1>5, <1>6, <1>7, <1>8, QueueStays DEF HumInv

\* recgen ends, or leaves the connection: with nothing left to do for a hum that
\* is there.
LEMMA LeavesKeeps ==
    ASSUME HumInv, link # "none", link' = "none",
           NEW r \in {"accept", "down"}, recgen' = r,
           out' \in Clients \cup {"junk"}, to_hum' \in Seq(Words), to_recgen' \in Seq(Writing),
           UNCHANGED <<shape, gone, outcome, backlog, hum, client_fd, total, sockfd,
                       conn, handled, humKilled>>,
           kills' \in Nat, kills' >= kills, torn' \subseteq Clients, torn \subseteq torn',
           recgenExited' \subseteq recgenExited \cup {conn},
           recgenExited' # recgenExited => conn \in humKilled \/ ~Sound(shape[conn]),
           Halves',
           Calm' => r = "accept",
           (Calm' /\ sockfd) => hum \in Waiting /\ (hum = "wait" => to_recgen' = <<>>)
    PROVE  HumInv'
<1>0. HumTypes /\ Queueing /\ Linked /\ Counted /\ Answers /\ Halves /\ Alive
  BY DEF HumInv
<1>1. HumTypes'
  <2>1. conn \in Clients
    BY <1>0 DEF Linked, HumTypes
  <2> QED  BY <1>0, <2>1 DEF HumTypes
<1>2. Linked'
  <2>1. humKilled # {} => kills' > 0
    BY <1>0 DEF Linked, HumTypes
  <2>2. RecgenSurvivesHum'
    BY <1>0 DEF Linked, RecgenSurvivesHum
  <2>3. r \notin Serving /\ r # "post" /\ r \notin {"dispatch"} \cup Answering
    BY DEF Serving, Writing, Answering
  <2> QED  BY <1>0, <2>1, <2>2, <2>3 DEF Linked
<1>3. Counted'
  BY DEF Counted
<1>4. Answers'
  BY <1>0 DEF Answers, OwnAnswer, Known, Answering
<1>5. Alive'
  <2>1. Calm' => Calm
    <3>1. kills' = 0 => kills = 0
      BY <1>0 DEF HumTypes
    <3> QED  BY <3>1 DEF Calm
  <2>2. hum \in Writing => sockfd /\ hum \notin Waiting
    BY <1>0 DEF Linked, Writing, Waiting
  <2>3. hum = "wait" => sockfd
    BY <1>0 DEF Linked, Waiting
  <2> QED  BY <1>0, <2>1, <2>2, <2>3 DEF Alive
<1> QED  BY <1>0, <1>1, <1>2, <1>3, <1>4, <1>5, QueueStays DEF HumInv

\* As long as recgen has not begun to answer, nothing of an answer is under way.
LEMMA NoneGiven ==
    ASSUME Halves, HumTypes, sockfd, link # "none", recgen \notin {"answer_length", "answer_content"},
           UNCHANGED <<shape, sockfd, hum, conn, to_hum, handled>>, link' = "none"
    PROVE  Halves' /\ hum \notin {"answer_length", "answer_content"}
<1>1. Made = 0 /\ Given = 0
  BY PieceRange, PieceRangeNext, PiecesStay DEF Halves
<1>2. Len(to_hum) \in Nat /\ Got \in Nat
  BY PieceRange, PieceRangeNext, PiecesStay DEF HumTypes
<1>3. Got = 0
  BY <1>1, <1>2 DEF Given
<1>4. Given' = 0
  BY <1>1 DEF Given, Got
<1>5. hum \notin {"answer_length", "answer_content"}
  BY <1>3, PieceRange, PieceRangeNext, PiecesStay
<1> QED  BY <1>4, <1>5 DEF Halves

LEMMA ReadPartKeeps == ASSUME HumInv, ReadPart PROVE HumInv'
<1>0. HumTypes /\ Queueing /\ Linked /\ Counted /\ Answers /\ Halves /\ Alive
  BY DEF HumInv
<1>1. /\ recgen \in Writing
      /\ UNCHANGED <<shape, gone, outcome, backlog, hum, client_fd, total, sockfd, to_hum,
                     conn, handled, kills, humKilled, torn>>
  BY PartsFacts DEF ReadPart, RecgenOnly, clientVars, humVars
<1>2. link = "open" /\ conn \in Clients /\ recgen \notin Answering /\ recgen \in Serving
  BY <1>0, <1>1 DEF Linked, Serving, HumTypes, Writing, Answering
<1>3. /\ kills' \in Nat /\ kills' >= kills /\ torn' \subseteq Clients /\ out \in Clients \cup {"junk"}
      /\ to_hum' \in Seq(Words) /\ to_recgen \in Seq(Writing) /\ shape[conn].length \in Int
  <2>1. shape[conn].length \in Int
    BY <1>0, <1>2, ShapeFacts
  <2> QED  BY <1>0, <1>1, <2>1 DEF HumTypes
<1>h. link' = "none" => Halves'
  <2>1. CASE sockfd
    BY <1>0, <1>1, <1>2, <2>1, NoneGiven DEF Answering
  <2>2. CASE ~sockfd
    BY <1>1, <2>2, HalvesClosed
  <2> QED  BY <2>1, <2>2
<1>4. CASE to_recgen # <<>> /\ to_recgen' = Tail(to_recgen) /\ ~(recgen = "post" /\ Excess) /\ GoesOn(Following(recgen))
  <2>0. recgen' = Following(recgen) /\ UNCHANGED <<link, out, recgenExited>>
    BY <1>4 DEF GoesOn
  <2>1. /\ to_recgen' \in Seq(Writing)
        /\ Len(to_recgen) \in Nat /\ Len(to_recgen') = Len(to_recgen) - 1
    BY <1>3, <1>4
  <2>2. /\ (recgen # "post" /\ ~(recgen = "post_length" /\ shape[conn].length = 0))
               => recgen' \in Writing /\ Place(recgen') = Place(recgen) + 1
        /\ (recgen = "post_length" /\ shape[conn].length = 0) => recgen' = "dispatch"
        /\ recgen = "post" => recgen' = "dispatch"
        /\ recgen' = "post" => recgen = "post_length"
    <3>1. recgen # "post" => After(recgen) \in Writing /\ Place(After(recgen)) = Place(recgen) + 1
      BY <1>1, NextPlace
    <3>2. (recgen # "post" /\ After(recgen) = "post") => recgen = "post_length"
      BY <1>1, PartsFacts DEF Writing
    <3> QED  BY <2>0, <3>1, <3>2 DEF Following
  <2>3. recgen' \in Writing \cup {"dispatch"} /\ recgen' \notin Answering /\ "dispatch" \notin Writing
    BY <1>1, <2>2 DEF Writing, Answering
  <2>4. recgen' = "post" => shape[conn].length # 0
    BY <2>2 DEF Writing
  <2>5. recgen' = "dispatch" => shape[conn].length >= 0
    <3>1. recgen' = "dispatch" => recgen = "post" \/ (recgen = "post_length" /\ shape[conn].length = 0)
      BY <2>2, <2>3
    <3>2. recgen = "post" => shape[conn].length >= 0
      BY <1>3, <1>4 DEF Excess
    <3> QED  BY <3>1, <3>2
  <2>6. HumTypes'
    BY <1>0, <1>1, <2>0, <2>1, <2>3 DEF HumTypes, Serving
  <2>7. Linked'
    BY <1>0, <1>1, <1>2, <2>0, <2>3, <2>4, <2>5 DEF Linked, Serving, RecgenSurvivesHum
  <2>8. ReadSoFar' = ReadSoFar + 1 /\ ReadSoFar \in Nat
    <3>1. ReadSoFar = Place(recgen) /\ Place(recgen) \in 0..5
      BY <1>1, PlaceRange DEF ReadSoFar, Writing
    <3>2. recgen' # "accept" /\ "dispatch" # "accept"
      BY <2>3 DEF Writing
    <3>3. CASE recgen' \in Writing
      <4>1. ReadSoFar' = Place(recgen')
        BY <3>2, <3>3 DEF ReadSoFar, Place
      <4>2. Place(recgen') = Place(recgen) + 1
        BY <2>2, <2>3, <3>3
      <4> QED  BY <3>1, <4>1, <4>2
    <3>4. CASE recgen' = "dispatch"
      <4>1. ReadSoFar' = All(conn)
        BY <1>1, <2>3, <3>4 DEF ReadSoFar, All
      <4>2. \/ recgen = "post"
            \/ recgen = "post_length" /\ shape[conn].length = 0
        BY <2>2, <2>3, <3>4
      <4>3. recgen = "post" => shape[conn].length # 0
        BY <1>0 DEF Linked
      <4>4. CASE recgen = "post"
        <5>1. Place(recgen) = 5
          BY <4>4, PlaceFacts
        <5>2. All(conn) = 6
          BY <4>3, <4>4 DEF All
        <5> QED  BY <3>1, <4>1, <5>1, <5>2
      <4>5. CASE recgen = "post_length" /\ shape[conn].length = 0
        <5>1. Place(recgen) = 4
          BY <4>5, PlaceFacts
        <5>2. All(conn) = 5
          BY <4>5 DEF All
        <5> QED  BY <3>1, <4>1, <5>1, <5>2
      <4> QED  BY <4>2, <4>4, <4>5
    <3> QED  BY <2>3, <3>3, <3>4
  <2>9. Counted'
    <3>1. Written' = Written /\ (Certain' <=> Certain)
      BY <1>1 DEF Written, Certain, All, Place
    <3>2. (sockfd /\ Certain) => ReadSoFar + Len(to_recgen) = Written
      BY <1>0, <1>2 DEF Counted
    <3> QED  BY <1>1, <2>1, <2>8, <3>1, <3>2 DEF Counted
  <2>10. Answers'
    BY <1>0, <1>1, <1>2, <2>0, <2>3 DEF Answers, OwnAnswer, Known
  <2>11. Halves'
    <3>1. Made = 0 /\ Made' = 0
      BY <1>2, <2>3, PieceRange, PieceRangeNext, PiecesStay DEF Answering
    <3> QED  BY <1>0, <1>1, <2>0, <3>1, HalvesStay DEF Got
  <2>12. Alive'
    BY <1>0, <1>1, <1>2, <2>0, <2>3 DEF Alive, Calm, Writing
  <2> QED  BY <1>0, <1>1, <2>6, <2>7, <2>9, <2>10, <2>11, <2>12, QueueStays DEF HumInv
<1>5. CASE to_recgen # <<>> /\ to_recgen' = Tail(to_recgen) /\ Excess /\ RecgenExits
  <2>1. ~Sound(shape[conn])
    BY <1>3, <1>5 DEF Excess, Sound
  <2>2. ~Calm'
    BY <1>1, <1>2, <2>1 DEF Calm, Harmless
  <2>3. /\ recgen' = "down" /\ link' = "none" /\ out' = "junk" /\ recgenExited' = recgenExited \cup {conn}
        /\ to_recgen' \in Seq(Writing)
    BY <1>3, <1>5 DEF RecgenExits, RecgenEnds
  <2> QED  BY <1>h, <1>1, <1>2, <1>3, <2>1, <2>2, <2>3, LeavesKeeps
<1>6. CASE to_recgen = <<>> /\ ~sockfd /\ UNCHANGED to_recgen
  <2>1. conn \in humKilled /\ ~Calm'
    BY <1>0, <1>1, <1>2, <1>6 DEF Linked, Calm, HumTypes
  <2>2. CASE CloseLink
    <3>1. recgen' = "accept" /\ link' = "none" /\ UNCHANGED <<out, recgenExited>>
      BY <2>2 DEF CloseLink
    <3> QED  BY <1>h, <1>1, <1>2, <1>3, <1>6, <2>1, <3>1, LeavesKeeps
  <2>3. CASE RecgenExits
    <3>1. recgen' = "down" /\ link' = "none" /\ out' = "junk" /\ recgenExited' = recgenExited \cup {conn}
      BY <2>3 DEF RecgenExits, RecgenEnds
    <3> QED  BY <1>h, <1>1, <1>2, <1>3, <1>6, <2>1, <3>1, LeavesKeeps
  <2>4. CASE recgen = "uri_length" /\ GoesOn("post_type")
    <3>1. /\ recgen' = "post_type" /\ UNCHANGED <<link, out, recgenExited>>
          /\ recgen' \in Writing /\ recgen' \in Serving /\ recgen' \notin Answering /\ recgen' # "dispatch"
      BY <2>4 DEF GoesOn, Writing, Serving, Answering
    <3>2. HumTypes'
      BY <1>0, <1>1, <1>6, <3>1 DEF HumTypes
    <3>3. Linked'
      BY <1>0, <1>1, <1>2, <3>1 DEF Linked, RecgenSurvivesHum
    <3>4. Counted'
      BY <1>1, <1>6 DEF Counted
    <3>5. Answers'
      BY <1>0, <1>1, <1>2, <3>1 DEF Answers, OwnAnswer, Known
    <3>6. Halves' /\ Alive'
      BY <1>0, <1>1, <1>2, <1>6, <2>1, HalvesClosed DEF Alive
    <3> QED  BY <1>0, <1>1, <3>2, <3>3, <3>4, <3>5, <3>6, QueueStays DEF HumInv
  <2> QED  BY <1>6, <2>2, <2>3, <2>4 DEF ReadPart
<1> QED  BY <1>4, <1>5, <1>6 DEF ReadPart

LEMMA DispatchKeeps == ASSUME HumInv, Dispatch PROVE HumInv'
<1>0. HumTypes /\ Queueing /\ Linked /\ Counted /\ Answers /\ Halves /\ Alive
  BY DEF HumInv
<1>1. /\ recgen = "dispatch"
      /\ UNCHANGED <<shape, gone, outcome, backlog, hum, client_fd, total, sockfd, to_recgen, to_hum,
                     conn, kills, humKilled, torn>>
  BY DEF Dispatch, RecgenOnly, clientVars, humVars
<1>2. recgen \notin Answering /\ recgen \in Serving /\ recgen \notin Writing
  BY <1>1 DEF Answering, Serving, Writing
<1>3. link = "open" /\ conn \in Clients /\ handled[conn] = 0
  BY <1>0, <1>2 DEF Linked, HumTypes, Answers
<1>4. CASE /\ recgen' = "answer" /\ UNCHANGED <<link, recgenExited>>
           /\ IF shape[conn].uri = "known"
              THEN out' = conn /\ handled' = [handled EXCEPT ![conn] = @ + 1]
              ELSE UNCHANGED <<out, handled>>
  <2>1. /\ handled' \in [Clients -> Nat] /\ out' \in Clients \cup {"junk"}
        /\ \A c \in Clients : c # conn => handled'[c] = handled[c]
        /\ Known(conn) => out' = conn /\ handled'[conn] = 1
        /\ ~Known(conn) => handled'[conn] = 0
    <3>1. handled \in [Clients -> Nat] /\ out \in Clients \cup {"junk"}
      BY <1>0 DEF HumTypes
    <3> QED  BY <1>3, <1>4, <3>1 DEF Known
  <2>2. recgen' \in Answering /\ recgen' \in Serving /\ recgen' \notin Writing /\ recgen' # "dispatch"
        /\ recgen' \notin {"accept", "down", "load", "post"}
    BY <1>4 DEF Answering, Serving, Writing
  <2>3. recgen' = "answer" /\ UNCHANGED <<link, recgenExited>>
    BY <1>4
  <2>4. HumTypes'
    BY <1>0, <1>1, <2>1, <2>2, <2>3 DEF HumTypes
  <2>5. Linked'
    BY <1>0, <1>1, <1>2, <2>2, <2>3 DEF Linked, RecgenSurvivesHum
  <2>6. Counted'
    <3>1. ReadSoFar' = ReadSoFar /\ Written' = Written /\ (Certain' <=> Certain)
      BY <1>1, <1>2, <2>2 DEF ReadSoFar, Written, Certain, All, Place
    <3> QED  BY <1>0, <1>1, <2>3, <3>1 DEF Counted
  <2>7. Answers'
    <3>1. OwnAnswer'
      <4>1. outcome[conn] # conn \/ ~Known(conn)
        BY <1>0, <1>3 DEF Answers, OwnAnswer, Known
      <4> QED  BY <1>0, <1>1, <1>3, <2>1, <4>1 DEF Answers, OwnAnswer, Known
    <3>2. \A c \in Clients : (outcome[c] = "none" /\ ~(sockfd /\ c = conn)) => handled'[c] = 0
      BY <1>0, <1>3, <2>1 DEF Answers
    <3>3. ~sockfd => outcome[conn] # "none"
      BY <1>0, <1>3 DEF Answers
    <3> QED  BY <1>1, <1>3, <2>1, <2>2, <2>3, <3>1, <3>2, <3>3 DEF Answers, Known
  <2>8. Halves'
    <3>1. Made = 0 /\ Made' = 0 /\ Given' = Given
      BY <1>1, <2>3, PieceRange, PieceRangeNext, PiecesStay DEF Given
    <3>2. sockfd => Given = 0
      BY <1>0, <1>3, <3>1 DEF Halves
    <3> QED  BY <1>1, <1>3, <2>3, <3>1, <3>2 DEF Halves
  <2>9. Alive'
    BY <1>0, <1>1, <2>2, <2>3 DEF Alive, Calm
  <2> QED  BY <1>0, <1>1, <2>4, <2>5, <2>6, <2>7, <2>8, <2>9, QueueStays DEF HumInv
<1>5. CASE shape[conn].data = "bad" /\ RecgenExits /\ UNCHANGED handled
  <2>1. ~Sound(shape[conn])
    BY <1>5 DEF Sound
  <2>2. ~Calm'
    BY <1>1, <1>3, <2>1 DEF Calm, Harmless
  <2>3. recgen' = "down" /\ link' = "none" /\ out' = "junk" /\ recgenExited' = recgenExited \cup {conn}
    BY <1>5 DEF RecgenExits, RecgenEnds
  <2>4. /\ kills' \in Nat /\ kills' >= kills /\ torn' \subseteq Clients
        /\ to_hum' \in Seq(Words) /\ to_recgen' \in Seq(Writing)
    BY <1>0, <1>1 DEF HumTypes
  <2>5. Halves'
    <3>1. CASE sockfd
      BY <1>0, <1>1, <1>3, <1>5, <2>3, <3>1, NoneGiven
    <3>2. CASE ~sockfd
      BY <1>1, <3>2, HalvesClosed
    <3> QED  BY <3>1, <3>2
  <2> QED  BY <1>1, <1>3, <1>5, <2>1, <2>2, <2>3, <2>4, <2>5, LeavesKeeps
<1> QED  BY <1>4, <1>5 DEF Dispatch

\* When recgen answers, it has read all that hum has to write.
LEMMA AllRead ==
    ASSUME HumInv, recgen \in Answering, sockfd, shape[conn].length # 0
    PROVE  hum \in Waiting /\ to_recgen = <<>>
<1>0. HumTypes /\ Linked /\ Counted
  BY DEF HumInv
<1>1. link = "open" /\ conn \in Clients /\ recgen \notin Writing /\ recgen # "accept"
  BY <1>0 DEF Linked, Serving, Answering, Writing, HumTypes
<1>2. Certain /\ ReadSoFar = All(conn)
  BY <1>0, <1>1 DEF Linked, Certain, ReadSoFar
<1>3. All(conn) + Len(to_recgen) = Written
  BY <1>0, <1>1, <1>2 DEF Counted
<1>4. Len(to_recgen) \in Nat /\ to_recgen \in Seq(Writing)
  BY <1>0 DEF HumTypes
<1>5. All(conn) = 6 /\ (hum \in Writing => Written = Place(hum) /\ Place(hum) \in 0..5)
  <2>1. All(conn) = 6
    BY DEF All
  <2>2. Place(hum) \in 0..5
    BY PlaceRange
  <2> QED  BY <2>1, <2>2 DEF Written
<1>6. hum \in Writing \cup Waiting
  BY <1>0 DEF Linked
<1>7. CASE hum \in Writing
  BY <1>3, <1>4, <1>5, <1>7
<1>8. CASE hum \notin Writing
  <2>1. Written = All(conn)
    BY <1>8 DEF Written
  <2>2. Len(to_recgen) = 0
    BY <1>3, <1>4, <1>5, <2>1
  <2> QED  BY <1>4, <1>6, <1>8, <2>2
<1> QED  BY <1>7, <1>8

LEMMA WriteAnswerKeeps == ASSUME HumInv, WriteAnswer PROVE HumInv'
<1>0. HumTypes /\ Queueing /\ Linked /\ Counted /\ Answers /\ Halves /\ Alive
  BY DEF HumInv
<1>1. /\ recgen \in Answering
      /\ UNCHANGED <<shape, gone, outcome, backlog, hum, client_fd, total, sockfd, to_recgen,
                     conn, handled, kills, humKilled, torn>>
  BY DEF WriteAnswer, RecgenOnly, clientVars, humVars, Answering
<1>2. link = "open" /\ conn \in Clients /\ recgen \in Serving
  BY <1>0, <1>1 DEF Linked, Serving, HumTypes
<1>3. /\ kills' \in Nat /\ kills' >= kills /\ torn' \subseteq Clients /\ out \in Clients \cup {"junk"}
      /\ to_hum \in Seq(Words) /\ Len(to_hum) \in Nat /\ to_recgen' \in Seq(Writing)
      /\ "junk" \in Words /\ "type" \in Words /\ "length" \in Words /\ out \in Words
  BY <1>0, <1>1 DEF HumTypes, Words
<1>4. ~sockfd => conn \in humKilled /\ ~Calm'
  BY <1>0, <1>1, <1>2 DEF Linked, Calm, HumTypes
<1>5. (Calm' /\ sockfd) => hum \in Waiting /\ (hum = "wait" => to_recgen' = <<>>)
  <2>1. Calm' => shape[conn].length # 0
    BY <1>1, <1>2 DEF Calm, Harmless
  <2> QED  BY <1>1, <2>1, AllRead
<1>6. (sockfd => Given = Made) /\ Got \in Nat
  BY <1>0, <1>2, PieceRange, PieceRangeNext, PiecesStay DEF Halves
<1>7. CASE recgen = "answer" /\ CloseLink /\ UNCHANGED to_hum
  <2>1. recgen' = "accept" /\ link' = "none" /\ UNCHANGED <<out, recgenExited>>
    BY <1>7 DEF CloseLink
  <2>2. Halves'
    <3>1. CASE sockfd
      BY <1>0, <1>1, <1>2, <1>7, <2>1, <3>1, NoneGiven
    <3>2. CASE ~sockfd
      BY <1>1, <3>2, HalvesClosed
    <3> QED  BY <3>1, <3>2
  <2> QED  BY <1>1, <1>2, <1>3, <1>5, <1>7, <2>1, <2>2, LeavesKeeps
<1>8. CASE sockfd /\ recgen = "answer_content" /\ to_hum' = Append(to_hum, out) /\ CloseLink
  <2>1. recgen' = "accept" /\ link' = "none" /\ UNCHANGED <<out, recgenExited>>
    BY <1>8 DEF CloseLink
  <2>2. /\ to_hum' \in Seq(Words) /\ Len(to_hum') = Len(to_hum) + 1 /\ to_hum'[Len(to_hum')] = out
    BY <1>3, <1>8
  <2>3. Given' = 3
    <3>1. Given = 2 /\ Given = Got + Len(to_hum) /\ Got' = Got
      BY <1>1, <1>6, <1>8, PieceRange, PieceRangeNext, PiecesStay DEF Given
    <3> QED  BY <1>3, <1>6, <2>2, <3>1 DEF Given
  <2>4. Known(conn) => out = conn /\ handled[conn] = 1
    BY <1>0, <1>1 DEF Answers
  <2>5. Halves'
    BY <1>1, <1>3, <2>1, <2>2, <2>3, <2>4 DEF Halves, Known
  <2> QED  BY <1>1, <1>2, <1>3, <1>5, <1>8, <2>1, <2>2, <2>5, LeavesKeeps
<1>9. CASE ~sockfd /\ RecgenExits /\ UNCHANGED to_hum
  <2>1. recgen' = "down" /\ link' = "none" /\ out' = "junk" /\ recgenExited' = recgenExited \cup {conn}
    BY <1>9 DEF RecgenExits, RecgenEnds
  <2> QED  BY <1>1, <1>2, <1>3, <1>4, <1>9, <2>1, HalvesClosed, LeavesKeeps
<1>10. CASE /\ sockfd
            /\ \/ recgen = "answer" /\ to_hum' = Append(to_hum, "type") /\ GoesOn("answer_length")
               \/ recgen = "answer_length" /\ to_hum' = Append(to_hum, "length") /\ GoesOn("answer_content")
  <2>1. /\ recgen' \in Answering /\ UNCHANGED <<link, out, recgenExited>>
        /\ Made' = Made + 1 /\ Made \in Nat
    <3>1. recgen' \in Answering /\ UNCHANGED <<link, out, recgenExited>>
      BY <1>10 DEF GoesOn, Answering
    <3>0. \/ recgen = "answer" /\ recgen' = "answer_length"
          \/ recgen = "answer_length" /\ recgen' = "answer_content"
      BY <1>10, Zenon DEF GoesOn
    <3>2. (Made = 0 /\ Made' = 1) \/ (Made = 1 /\ Made' = 2)
      BY <3>0, PieceRange, PieceRangeNext
    <3> QED  BY <3>1, <3>2
  <2>2. /\ recgen' \in Serving /\ recgen' \notin Writing /\ recgen \notin Writing
        /\ recgen' \notin {"accept", "down", "load", "post"} /\ recgen # "accept"
    BY <1>1, <2>1 DEF Answering, Serving, Writing
  <2>3. to_hum' \in Seq(Words) /\ Len(to_hum') = Len(to_hum) + 1
    <3>1. to_hum' = Append(to_hum, "type") \/ to_hum' = Append(to_hum, "length")
      BY <1>10
    <3>2. to_hum \in Seq(Words) /\ "type" \in Words /\ "length" \in Words
      BY <1>3
    <3> QED  BY <3>1, <3>2
  <2>4. HumTypes'
    BY <1>0, <1>1, <2>1, <2>2, <2>3 DEF HumTypes
  <2>5. Linked'
    BY <1>0, <1>1, <1>2, <2>1, <2>2 DEF Linked, RecgenSurvivesHum
  <2>6. Counted'
    <3>1. ReadSoFar' = ReadSoFar /\ Written' = Written /\ (Certain' <=> Certain)
      BY <1>1, <2>2 DEF ReadSoFar, Written, Certain, All, Place
    <3> QED  BY <1>0, <1>1, <2>1, <3>1 DEF Counted
  <2>7. Answers'
    BY <1>0, <1>1, <1>2, <2>1 DEF Answers, OwnAnswer, Known
  <2>8. Halves'
    <3>1. Given = Made /\ Made' < 3 /\ Got' = Got
      BY <1>1, <1>6, <1>10, PieceRange, PieceRangeNext, PiecesStay DEF GoesOn
    <3>2. Given' = Made'
      BY <1>3, <1>6, <2>1, <2>3, <3>1 DEF Given
    <3> QED  BY <1>1, <1>2, <2>1, <3>1, <3>2 DEF Halves
  <2>9. Alive'
    BY <1>0, <1>1, <1>2, <2>1, <2>2 DEF Alive, Calm
  <2> QED  BY <1>0, <1>1, <2>4, <2>5, <2>6, <2>7, <2>8, <2>9, QueueStays DEF HumInv
<1> QED  BY <1>7, <1>8, <1>9, <1>10 DEF WriteAnswer
-----------------------------------------------------------------------------
(* Death and start. *)

LEMMA HumKilledKeeps == ASSUME HumInv, HumKilled PROVE HumInv'
<1>0. HumTypes /\ Linked /\ Queueing
  BY DEF HumInv
<1>1. /\ HumEnds /\ kills' = kills + 1
      /\ humKilled' = IF sockfd THEN humKilled \cup {client_fd} ELSE humKilled
      /\ UNCHANGED <<shape, gone, conn, link, to_recgen, to_hum, recgen, out, handled, torn, recgenExited>>
  BY DEF HumKilled, Kill, clientVars, recgenVars
<1>2. kills' \in Nat /\ kills' > 0 /\ ~Calm'
  BY <1>0, <1>1 DEF Calm, HumTypes
<1>3. humKilled' \subseteq Clients /\ humKilled \subseteq humKilled' /\ (link # "none" => conn \in humKilled')
  <2>1. sockfd => client_fd = conn /\ client_fd \in Clients
    BY <1>0 DEF Linked, Queueing, HumTypes, Writing, Waiting
  <2> QED  BY <1>0, <1>1, <2>1 DEF Linked, HumTypes
<1> QED  BY <1>1, <1>2, <1>3, HumEndsKeeps DEF Taken

\* The answer that recgen was writing stays a half.
LEMMA RecgenKilledKeeps == ASSUME HumInv, RecgenKilled PROVE HumInv'
<1>0. HumTypes /\ Queueing /\ Linked /\ Counted /\ Answers /\ Halves /\ Alive
  BY DEF HumInv
<1>1. /\ recgen' = "down" /\ link' = "none" /\ out' = "junk" /\ kills' = kills + 1
      /\ torn' = IF sockfd /\ recgen \in {"answer_length", "answer_content"} THEN torn \cup {conn} ELSE torn
      /\ UNCHANGED <<shape, gone, outcome, backlog, hum, client_fd, total, sockfd, to_recgen, to_hum,
                     conn, handled, humKilled, recgenExited>>
  BY DEF RecgenKilled, RecgenEnds, Kill, clientVars, humVars
<1>2. kills' \in Nat /\ kills' > 0 /\ ~Calm'
  BY <1>0, <1>1 DEF Calm, HumTypes
<1>3. torn' \subseteq Clients /\ torn \subseteq torn'
  <2>1. recgen \in {"answer_length", "answer_content"} => conn \in Clients
    BY <1>0 DEF Linked, Serving, Answering, HumTypes
  <2> QED  BY <1>0, <1>1, <2>1 DEF HumTypes
<1>4. HumTypes'
  BY <1>0, <1>1, <1>2, <1>3 DEF HumTypes
<1>5. Linked'
  BY <1>0, <1>1, <1>2 DEF Linked, Serving, Writing, Answering, RecgenSurvivesHum
<1>6. Counted'
  BY <1>1 DEF Counted
<1>7. Answers'
  BY <1>0, <1>1, <1>3 DEF Answers, OwnAnswer, Known, Answering
<1>8. Halves'
  <2>1. CASE ~sockfd
    BY <1>1, <2>1, HalvesClosed
  <2>2. CASE sockfd /\ link = "none"
    <3>1. Given' = Given
      BY <1>1 DEF Given, Got
    <3> QED  BY <1>0, <1>1, <1>3, <2>2, <3>1 DEF Halves, Known
  <2>3. CASE sockfd /\ link # "none" /\ recgen \in {"answer_length", "answer_content"}
    <3>1. Given' = Made /\ Made \in {1, 2}
      BY <1>0, <1>1, <2>3, PieceRange, PieceRangeNext, PiecesStay DEF Halves, Given
    <3> QED  BY <1>1, <2>3, <3>1 DEF Halves
  <2>4. CASE sockfd /\ link # "none" /\ recgen \notin {"answer_length", "answer_content"}
    BY <1>0, <1>1, <2>4, NoneGiven
  <2> QED  BY <2>1, <2>2, <2>3, <2>4
<1>9. Alive'
  BY <1>0, <1>1, <1>2 DEF Alive
<1> QED  BY <1>0, <1>1, <1>4, <1>5, <1>6, <1>7, <1>8, <1>9, QueueStays DEF HumInv

\* A new recgen, until it listens, with or without a new hum.
LEMMA StartRecgenKeeps == ASSUME HumInv, StartRecgen \/ Bind PROVE HumInv'
<1>0. HumTypes /\ Queueing /\ Linked /\ Counted /\ Answers /\ Halves /\ Alive
  BY DEF HumInv
<1>1. /\ (recgen = "down" /\ recgen' = "load") \/ (recgen = "bind" /\ recgen' = "accept")
      /\ UNCHANGED <<shape, gone, outcome, backlog, hum, client_fd, total, sockfd, to_recgen, to_hum,
                     link, conn, out, handled, kills, humKilled, torn, recgenExited>>
  BY DEF StartRecgen, Bind, clientVars, humVars, sockVars, history
<1>2. /\ recgen \notin Serving /\ recgen' \notin Serving /\ recgen' \notin Answering /\ recgen' # "post"
      /\ recgen' # "dispatch"
  BY <1>1 DEF Serving, Writing, Answering
<1>3. link = "none"
  BY <1>0, <1>1, <1>2 DEF Linked, HumTypes
<1>4. HumTypes'
  BY <1>0, <1>1 DEF HumTypes
<1>5. Linked'
  BY <1>0, <1>1, <1>2, <1>3 DEF Linked, RecgenSurvivesHum
<1>6. Counted'
  BY <1>1, <1>3 DEF Counted
<1>7. Answers'
  BY <1>0, <1>1, <1>2, <1>3 DEF Answers, OwnAnswer, Known
<1>8. Halves'
  BY <1>0, <1>1, <1>3 DEF Halves, Given, Got, Known
<1>9. Alive'
  BY <1>0, <1>1, <1>3 DEF Alive, Calm
<1> QED  BY <1>0, <1>1, <1>4, <1>5, <1>6, <1>7, <1>8, <1>9, QueueStays DEF HumInv

LEMMA SpawnHumKeeps == ASSUME HumInv, SpawnHum PROVE HumInv'
<1>0. HumTypes /\ Queueing /\ Linked /\ Counted /\ Answers /\ Halves /\ Alive
  BY DEF HumInv
<1>1. /\ recgen = "load" /\ recgen' = "bind"
      /\ outcome' = [c \in Clients |-> IF c \in Range(Queue) THEN "closed" ELSE outcome[c]]
      /\ backlog' = <<>> /\ client_fd' = "none" /\ total' = 0 /\ sockfd' = FALSE
      /\ hum' = "accept" \/ hum' = "down"
      /\ UNCHANGED <<shape, gone, conn, link, to_recgen, to_hum, out, handled, kills, humKilled, torn, recgenExited>>
  BY DEF SpawnHum, clientVars, history
<1>2. link = "none"
  BY <1>0, <1>1 DEF Linked, Serving, Writing, Answering, HumTypes
<1>3. ~Calm' /\ humKilled \subseteq Clients /\ kills \in Nat /\ (humKilled # {} => kills > 0)
  BY <1>0, <1>1 DEF Linked, HumTypes, Alive, Calm
<1> QED  BY <1>1, <1>2, <1>3, CloseAllKeeps DEF Taken
-----------------------------------------------------------------------------

LEMMA InitHasHumInv == Init => HumInv
<1> SUFFICES ASSUME Init PROVE HumInv
  OBVIOUS
<1>1. HumTypes
  <2>1. /\ backlog \in Seq(Clients) /\ to_recgen \in Seq(Writing) /\ to_hum \in Seq(Words)
    BY DEF Init
  <2>2. /\ shape \in [Clients -> Shapes] /\ outcome \in [Clients -> Answered \cup {"none"}]
        /\ handled \in [Clients -> Nat]
    BY DEF Init
  <2>3. /\ client_fd = "none" /\ total = 0 /\ kills = 0 /\ conn = "none" /\ out = "junk"
        /\ sockfd = FALSE /\ humKilled = {} /\ torn = {} /\ recgenExited = {}
        /\ hum = "accept" /\ recgen = "bind" /\ link = "none"
    BY DEF Init
  <2> QED  BY <2>1, <2>2, <2>3 DEF HumTypes
<1>2. Queueing /\ Linked /\ Counted
  BY DEF Init, Queueing, Linked, Counted, Serving, Writing, Waiting, Answering, RecgenSurvivesHum
<1>3. Answers
  BY NamesDiffer DEF Init, Answers, OwnAnswer, Known, Answering
<1>4. Halves /\ Alive
  BY DEF Init, Halves, Alive, Writing
<1> QED  BY <1>1, <1>2, <1>3, <1>4 DEF HumInv

LEMMA NextKeepsHumInv == HumInv /\ [Next]_vars => HumInv'
<1> SUFFICES ASSUME HumInv, [Next]_vars PROVE HumInv'
  OBVIOUS
<1>1. ASSUME NEW c \in Clients, ConnectToHum(c) \/ Send(c) \/ Leave(c) PROVE HumInv'
  BY <1>1, ConnectKeeps, SendOrLeaveKeeps
<1>2. CASE HumStep
  BY <1>2, AcceptClientKeeps, ReadHeadKeeps, ReadBodyKeeps, BodyReadKeeps, ConnectToRecgenKeeps,
     WritePartKeeps, ReadAnswerKeeps DEF HumStep
<1>3. CASE RecgenStep
  BY <1>3, SpawnHumKeeps, StartRecgenKeeps, AcceptHumKeeps, ReadPartKeeps, DispatchKeeps,
     WriteAnswerKeeps DEF RecgenStep
<1>4. CASE HumKilled \/ RecgenKilled \/ StartRecgen
  BY <1>4, HumKilledKeeps, RecgenKilledKeeps, StartRecgenKeeps
<1>5. CASE UNCHANGED vars
  <2>1. UNCHANGED <<shape, gone, outcome, backlog, hum, client_fd, total, sockfd, to_recgen, to_hum,
                    link, conn, recgen, out, handled, kills, humKilled, torn, recgenExited>>
    BY <1>5 DEF vars, clientVars, humVars, sockVars, recgenVars, history
  <2>2. HumTypes /\ Queueing /\ Linked /\ Counted /\ Answers /\ Halves /\ Alive
    BY DEF HumInv
  <2>3. HumTypes' /\ Queueing' /\ Linked'
    BY <2>1, <2>2, QueueStays DEF HumTypes, Linked, RecgenSurvivesHum
  <2>4. Counted'
    BY <2>1, <2>2, CountsStay DEF Counted
  <2>5. Answers' /\ Halves' /\ Alive'
    BY <2>1, <2>2, HalvesStay DEF Answers, OwnAnswer, Known, Alive, Calm, Made, Got
  <2> QED  BY <2>3, <2>4, <2>5 DEF HumInv
<1> QED  BY <1>1, <1>2, <1>3, <1>4, <1>5 DEF Next

LEMMA HumInvAlways == Spec => []HumInv
BY InitHasHumInv, NextKeepsHumInv, PTL DEF Spec

\* An answer to a known request is that client's own, made in one handling
\* (start_hum_worker() and hum's transaction with it).
THEOREM AnswersAreOwn == Spec => []OwnAnswer
<1>1. HumInv => OwnAnswer
  BY DEF HumInv, Answers
<1> QED  BY <1>1, HumInvAlways, PTL

\* recgen ends by itself only on the connection of a client with a request that
\* is not sound, or of one whose hum was killed (start_hum_worker()).
THEOREM RecgenOutlivesHum == Spec => []RecgenSurvivesHum
<1>1. HumInv => RecgenSurvivesHum
  BY DEF HumInv, Linked, RecgenSurvivesHum
<1> QED  BY <1>1, HumInvAlways, PTL

\* hum and recgen never wait for each other: while hum waits, recgen has all it
\* needs for the answer (the reads and writes on the socket at both ends).
THEOREM NoMutualWait == Spec => []OwesAnswer
<1>1. HumInv => OwesAnswer
  <2> SUFFICES ASSUME HumInv, hum \in Waiting, link # "none", Sound(shape[client_fd])
               PROVE  /\ recgen = "accept" => link = "pending"
                      /\ recgen \in Range(Parts) => to_recgen # <<>>
                      /\ (hum # "wait" /\ to_hum = <<>>) => recgen = hum
    BY DEF OwesAnswer
  <2>0. HumTypes /\ Linked /\ Counted /\ Halves
    BY DEF HumInv
  <2>1. sockfd /\ conn = client_fd /\ hum \notin Writing
    BY <2>0 DEF Linked, Waiting, Writing
  <2>2. recgen = "accept" => link = "pending"
    BY <2>0 DEF Linked, HumTypes, Serving, Writing, Answering
  <2>3. ASSUME recgen \in Range(Parts) PROVE to_recgen # <<>>
    <3>1. ReadSoFar + Len(to_recgen) = All(conn)
      BY <2>0, <2>1 DEF Counted, Written, Certain, Sound
    <3>2. recgen \in Writing
      BY <2>3, PartsFacts
    <3>3. ReadSoFar \in Nat /\ ReadSoFar # All(conn)
      BY <2>0, <3>2, PositionFacts DEF Linked
    <3>4. to_recgen = <<>> => Len(to_recgen) = 0
      OBVIOUS
    <3> QED  BY <3>1, <3>3, <3>4
  <2>4. ASSUME hum # "wait", to_hum = <<>> PROVE recgen = hum
    <3>1. Len(to_hum) = 0 /\ Given = Made
      BY <2>0, <2>1, <2>4 DEF Halves
    <3>2. Got = Made /\ Got \in Nat
      BY <3>1, PieceRange, PieceRangeNext, PiecesStay DEF Given
    <3>3. Got = 1 \/ Got = 2
      BY <2>4, PieceRange, PieceRangeNext, PiecesStay DEF Waiting
    <3>4. recgen \in {"answer_length", "answer_content"} /\ hum \in {"answer_length", "answer_content"}
      BY <2>4, <3>2, <3>3, PieceRange, PieceRangeNext, PiecesStay DEF Waiting
    <3> QED  BY <3>2, <3>4, PieceRange, PieceRangeNext, PiecesStay
  <2> QED  BY <2>2, <2>3, <2>4
<1> QED  BY <1>1, HumInvAlways, PTL

\* Complete requests that fit, from clients that stay, do not end hum (its
\* exits and the signals it does not handle).
THEOREM HumStaysUp == Spec => []HumLives
<1>1. HumInv => HumLives
  BY DEF HumInv, Alive, Calm, HumLives
<1> QED  BY <1>1, HumInvAlways, PTL
-----------------------------------------------------------------------------
(* hum implements RequestQueue. *)

KnownOnes == {c \in Clients : shape[c].uri = "known"}
Serves    == [Service!Next]_<<KnownOnes, Queue, outcome, torn>>

LEMMA QueueIs ==
    ASSUME HumTypes
    PROVE  /\ client_fd = "none" => Queue = backlog
           /\ client_fd # "none" => Queue # <<>> /\ Queue[1] = client_fd /\ Tail(Queue) = backlog
           /\ Queue \in Seq(Clients)
           /\ \A c \in Clients : c \in Range(Queue) <=> \E k \in DOMAIN Queue : Queue[k] = c
<1>1. backlog \in Seq(Clients) /\ client_fd \in Clients \cup {"none"}
  BY DEF HumTypes
<1>2. CASE client_fd = "none"
  <2>1. Queue = backlog
    BY <1>2 DEF Queue
  <2> QED  BY <1>1, <1>2, <2>1 DEF Range
<1>3. CASE client_fd # "none"
  <2>1. Queue = <<client_fd>> \o backlog
    BY <1>3 DEF Queue
  <2>2. /\ Queue \in Seq(Clients) /\ Len(Queue) = Len(backlog) + 1 /\ Len(backlog) \in Nat
        /\ Queue[1] = client_fd
        /\ \A k \in 1..Len(backlog) : Queue[k + 1] = backlog[k]
    BY <1>1, <1>3, <2>1
  <2>3. Queue # <<>>
    BY <2>2
  <2>4. /\ Tail(Queue) \in Seq(Clients) /\ Len(Tail(Queue)) = Len(backlog)
        /\ \A k \in 1..Len(backlog) : Tail(Queue)[k] = Queue[k + 1]
    BY <2>2, <2>3
  <2>5. Tail(Queue) = backlog
    BY <1>1, <2>2, <2>4
  <2> QED  BY <1>3, <2>2, <2>3, <2>5 DEF Range
<1> QED  BY <1>2, <1>3

\* A step that changes nobody's place is none of RequestQueue.
LEMMA StuttersServe ==
    ASSUME UNCHANGED <<shape, outcome, client_fd, backlog, torn>> PROVE Serves
  BY DEF Serves, KnownOnes, Queue

LEMMA EndServes ==
    ASSUME HumTypes, UNCHANGED <<shape, torn>>, backlog' = <<>>, client_fd' = "none",
           outcome' = [c \in Clients |-> IF c \in Range(Queue) THEN "closed" ELSE outcome[c]]
    PROVE  Serves
<1>1. Queue' = <<>> /\ KnownOnes' = KnownOnes
  BY DEF Queue, KnownOnes
<1>2. outcome' = [c \in Clients |-> IF \E k \in DOMAIN Queue : Queue[k] = c THEN "closed" ELSE outcome[c]]
  BY QueueIs
<1> QED  BY <1>1, <1>2 DEF Serves, Service!Next, Service!CloseAll, KnownOnes

LEMMA FinishServes ==
    ASSUME HumTypes, client_fd # "none", UNCHANGED <<shape, backlog, torn>>, client_fd' = "none",
           NEW answer \in Answered,
           Known(client_fd) => answer \in {"closed", "empty", client_fd} \/ (answer = "junk" /\ client_fd \in torn),
           outcome' = [outcome EXCEPT ![client_fd] = answer]
    PROVE  Serves
<1>1. Queue' = backlog /\ KnownOnes' = KnownOnes
  BY DEF Queue, KnownOnes
<1>2. Queue # <<>> /\ Queue[1] = client_fd /\ Tail(Queue) = backlog
  BY QueueIs
<1>3. client_fd \in Clients
  BY DEF HumTypes
<1>4. answer \in Service!Results(client_fd)
  <2>1. client_fd \in KnownOnes <=> Known(client_fd)
    BY <1>3 DEF KnownOnes, Known
  <2>2. answer \in Clients \cup {"closed", "empty", "junk"}
    BY DEF Answered
  <2> QED  BY <1>3, <2>1, <2>2 DEF Service!Results, KnownOnes
<1> QED  BY <1>1, <1>2, <1>4 DEF Serves, Service!Next, Service!Finish, KnownOnes

LEMMA ConnectServes == ASSUME HumTypes, NEW c \in Clients, ConnectToHum(c) PROVE Serves
<1>1. /\ UNCHANGED <<shape, client_fd, torn>> /\ outcome[c] = "none" /\ c \notin Range(Queue)
      /\ \/ outcome' = [outcome EXCEPT ![c] = "closed"] /\ backlog' = backlog
         \/ backlog' = Append(backlog, c) /\ outcome' = outcome
  BY DEF ConnectToHum, ClientOnly, history
<1>2. \A k \in DOMAIN Queue : Queue[k] # c
  BY <1>1, QueueIs
<1>3. KnownOnes' = KnownOnes
  BY <1>1 DEF KnownOnes
<1>4. CASE outcome' = [outcome EXCEPT ![c] = "closed"] /\ backlog' = backlog
  <2>1. Queue' = Queue
    BY <1>1, <1>4 DEF Queue
  <2>2. Service!Refuse(c)
    BY <1>1, <1>2, <1>3, <1>4, <2>1 DEF Service!Refuse, KnownOnes
  <2> QED  BY <2>2 DEF Serves, Service!Next
<1>5. CASE backlog' = Append(backlog, c) /\ outcome' = outcome
  <2>1. Queue' = Append(Queue, c)
    <3>1. backlog \in Seq(Clients)
      BY DEF HumTypes
    <3>2. CASE client_fd = "none"
      BY <1>1, <1>5, <3>2 DEF Queue
    <3>3. CASE client_fd # "none"
      <4>1. Queue = <<client_fd>> \o backlog /\ Queue' = <<client_fd>> \o Append(backlog, c)
        BY <1>1, <1>5, <3>3 DEF Queue
      <4>2. client_fd \in Clients
        BY <3>3 DEF HumTypes
      <4> QED  BY <3>1, <4>1, <4>2
    <3> QED  BY <3>2, <3>3
  <2>2. Service!Arrive(c)
    BY <1>1, <1>2, <1>3, <1>5, <2>1 DEF Service!Arrive, KnownOnes
  <2> QED  BY <2>2 DEF Serves, Service!Next
<1> QED  BY <1>1, <1>4, <1>5

LEMMA HumServes == ASSUME HumInv, HumStep PROVE Serves
<1>0. HumTypes /\ Queueing
  BY DEF HumInv
<1>1. UNCHANGED <<shape, torn>>
  BY DEF HumStep, AcceptClient, ReadHead, ReadBody, BodyRead, ConnectToRecgen, WritePart, ReadAnswer,
         HumOnly, clientVars, history
<1>2. HumEnds => Serves
  BY <1>0, <1>1, EndServes DEF HumEnds
<1>3. \A a \in {"closed", "empty"} : a \in Answered
  BY DEF Answered
<1>4. ASSUME hum \notin {"accept", "looping", "down"}, NEW a \in {"closed", "empty"}, Finish(a) PROVE Serves
  <2>1. client_fd # "none"
    BY <1>0, <1>4 DEF Queueing
  <2> QED  BY <1>0, <1>1, <1>3, <1>4, <2>1, FinishServes DEF Finish
<1>5. CASE AcceptClient
  <2>1. /\ client_fd = "none" /\ client_fd' = Head(backlog) /\ backlog' = Tail(backlog) /\ backlog # <<>>
        /\ UNCHANGED outcome
    BY <1>0, <1>5 DEF AcceptClient, Queueing
  <2>2. Queue' = Queue
    <3>1. backlog \in Seq(Clients) /\ Head(backlog) \in Clients /\ backlog = <<Head(backlog)>> \o Tail(backlog)
      BY <1>0, <2>1 DEF HumTypes
    <3>2. Queue = backlog
      BY <2>1 DEF Queue
    <3>3. Queue' = <<Head(backlog)>> \o Tail(backlog)
      BY <2>1, <3>1, NamesDiffer DEF Queue
    <3> QED  BY <3>1, <3>2, <3>3
  <2> QED  BY <1>1, <2>1, <2>2 DEF Serves, KnownOnes
<1>6. CASE ReadHead \/ ReadBody \/ BodyRead \/ ConnectToRecgen \/ WritePart
  <2>1. \/ HumEnds \/ (hum \in {"head", "connect"} /\ Finish("closed"))
        \/ UNCHANGED <<outcome, backlog, client_fd>>
    BY <1>6 DEF ReadHead, ReadBody, BodyRead, ConnectToRecgen, WritePart
  <2> QED  BY <1>1, <1>2, <1>4, <2>1, StuttersServe
<1>7. CASE ReadAnswer
  <2>0. hum \in Waiting
    BY <1>7 DEF ReadAnswer
  <2>1. client_fd # "none" /\ hum \notin {"accept", "looping", "down"}
    BY <1>0, <2>0 DEF Queueing, Waiting
  <2>2. ASSUME NEW a \in {"closed", "empty"}, Respond(a) PROVE Serves
    BY <1>2, <1>4, <2>1, <2>2 DEF Respond
  <2>3. ASSUME NEW a \in Answered, Respond(a),
               Known(client_fd) => a = client_fd \/ (a = "junk" /\ client_fd \in torn)
        PROVE  Serves
    <3>1. Finish(a) => Serves
      BY <1>0, <1>1, <2>1, <2>3, FinishServes DEF Finish
    <3> QED  BY <1>2, <2>3, <3>1 DEF Respond
  <2>4. CASE UNCHANGED <<outcome, backlog, client_fd>>
    BY <1>1, <2>4, StuttersServe
  <2>5. CASE hum = "answer_content" /\ to_hum # <<>> /\ Respond(Head(to_hum))
    BY <2>3, <2>5, ContentIs
  <2>6. CASE to_hum = <<>> /\ link = "none" /\ hum # "wait" /\ Respond("junk")
    <3>1. client_fd \in torn /\ "junk" \in Answered
      BY <2>0, <2>6, MissingIs DEF Answered
    <3> QED  BY <2>3, <2>6, <3>1
  <2>7. CASE outcome' = [outcome EXCEPT ![client_fd] = "closed"] /\ client_fd' = "none" /\ UNCHANGED backlog
    BY <1>0, <1>1, <1>3, <2>1, <2>7, FinishServes
  <2> QED  BY <1>7, <2>2, <2>4, <2>5, <2>6, <2>7 DEF ReadAnswer
<1> QED  BY <1>5, <1>6, <1>7 DEF HumStep

LEMMA NextServes == ASSUME HumInv, [Next]_vars PROVE Serves
<1>0. HumTypes
  BY DEF HumInv
<1>1. ASSUME NEW c \in Clients, ConnectToHum(c) \/ Send(c) \/ Leave(c) PROVE Serves
  <2>1. Send(c) \/ Leave(c) => UNCHANGED <<shape, outcome, client_fd, backlog, torn>>
    BY DEF Send, Leave, ClientOnly, history
  <2> QED  BY <1>0, <1>1, <2>1, ConnectServes, StuttersServe
<1>2. CASE SpawnHum \/ HumKilled
  BY <1>0, <1>2, EndServes DEF SpawnHum, HumKilled, HumEnds, clientVars, history
<1>3. CASE Bind \/ AcceptHum \/ ReadPart \/ Dispatch \/ WriteAnswer \/ StartRecgen \/ UNCHANGED vars
  <2>1. UNCHANGED <<shape, outcome, client_fd, backlog, torn>>
    BY <1>3 DEF Bind, AcceptHum, ReadPart, Dispatch, WriteAnswer, StartRecgen,
                RecgenOnly, vars, clientVars, humVars, history
  <2> QED  BY <2>1, StuttersServe
<1>4. CASE RecgenKilled
  <2>1. /\ UNCHANGED <<shape, outcome, client_fd, backlog>>
        /\ torn' = IF sockfd /\ recgen \in {"answer_length", "answer_content"} THEN torn \cup {conn} ELSE torn
    BY <1>4 DEF RecgenKilled, clientVars, humVars
  <2>2. CASE torn' = torn
    BY <2>1, <2>2, StuttersServe
  <2>3. CASE sockfd /\ torn' = torn \cup {conn}
    <3>1. conn = client_fd /\ client_fd # "none"
      BY <2>3 DEF HumInv, Linked, Queueing, Writing, Waiting
    <3>2. Queue # <<>> /\ Queue[1] = client_fd
      BY <1>0, <3>1, QueueIs
    <3>3. Queue' = Queue /\ KnownOnes' = KnownOnes
      BY <2>1 DEF Queue, KnownOnes
    <3>4. Service!Tear
      BY <2>1, <2>3, <3>1, <3>2, <3>3 DEF Service!Tear, KnownOnes
    <3> QED  BY <3>4 DEF Serves, Service!Next
  <2> QED  BY <2>1, <2>2, <2>3
<1> QED  BY <1>1, <1>2, <1>3, <1>4, HumServes DEF Next, RecgenStep

-----------------------------------------------------------------------------
(* What is in the connection is a part of what hum writes, in that order. *)

ClientTypes == sent \in [Clients -> {"nothing", "head", "all"}] /\ gone \subseteq Clients

Ordered ==
    \E r, w \in 0..6 :
        /\ r <= w /\ to_recgen = SubSeq(Parts, r + 1, w)
        /\ (sockfd /\ link # "none" /\ hum \in Writing) => w = Written

LEMMA RunsOfParts ==
    ASSUME NEW r \in 0..6, NEW w \in 0..6, r <= w
    PROVE  /\ Len(SubSeq(Parts, r + 1, w)) = w - r
           /\ r = w => SubSeq(Parts, r + 1, w) = <<>>
           /\ w < 6 => Append(SubSeq(Parts, r + 1, w), Parts[w + 1]) = SubSeq(Parts, r + 1, w + 1)
           /\ r < w => Tail(SubSeq(Parts, r + 1, w)) = SubSeq(Parts, r + 1 + 1, w)
<1>1. Len(Parts) = 6 /\ Parts \in Seq(Writing)
  BY DEF Parts, Writing
<1>b. \A i \in 1..6 : Parts[i] \in Writing
  <2>1. DOMAIN Parts = 1..6
    BY DEF Parts
  <2> QED  BY <2>1, PartsFacts DEF Range
<1> DEFINE run(m, n) == SubSeq(Parts, m, n)
<1>2. ASSUME NEW m \in 1..7, NEW n \in 0..6, m <= n + 1
      PROVE  run(m, n) \in Seq(Writing) /\ Len(run(m, n)) = n - m + 1
             /\ \A k \in 1..n - m + 1 : run(m, n)[k] = Parts[m + k - 1]
  <2>1. \A i \in m..n : Parts[i] \in Writing
    <3>1. \A i \in m..n : i \in 1..6
      OBVIOUS
    <3> QED  BY <1>b, <3>1
  <2>2. m \in Int /\ n \in Int
    OBVIOUS
  <2>3. /\ run(m, n) \in Seq(Writing)
        /\ Len(run(m, n)) = IF m <= n THEN n - m + 1 ELSE 0
        /\ \A i \in 1..n - m + 1 : run(m, n)[i] = Parts[m + i - 1]
    BY <2>1, <2>2, SubSeqProperties
  <2> HIDE DEF run
  <2> QED  BY <1>2, <2>3
<1> HIDE DEF run
<1>3. /\ run(r + 1, w) \in Seq(Writing) /\ Len(run(r + 1, w)) = w - r
      /\ \A k \in 1..w - r : run(r + 1, w)[k] = Parts[r + k]
  <2>1. r + 1 \in 1..7 /\ r + 1 <= w + 1 /\ w - (r + 1) + 1 = w - r
    OBVIOUS
  <2>2. \A k \in 1..w - r : (r + 1) + k - 1 = r + k
    OBVIOUS
  <2>3. /\ run(r + 1, w) \in Seq(Writing) /\ Len(run(r + 1, w)) = w - (r + 1) + 1
        /\ \A k \in 1..w - (r + 1) + 1 : run(r + 1, w)[k] = Parts[(r + 1) + k - 1]
    BY <1>2, <2>1, Zenon
  <2> QED  BY <2>1, <2>2, <2>3
<1>4. ASSUME w < 6 PROVE Append(run(r + 1, w), Parts[w + 1]) = run(r + 1, w + 1)
  <2>1. /\ run(r + 1, w + 1) \in Seq(Writing) /\ Len(run(r + 1, w + 1)) = w + 1 - r
        /\ \A k \in 1..w + 1 - r : run(r + 1, w + 1)[k] = Parts[r + k]
    <3> USE <1>4
    <3>1. r + 1 \in 1..7 /\ w + 1 \in 0..6 /\ r + 1 <= (w + 1) + 1 /\ (w + 1) - (r + 1) + 1 = w + 1 - r
      BY <1>4
    <3>2. \A k \in 1..w + 1 - r : (r + 1) + k - 1 = r + k
      OBVIOUS
    <3>3. /\ run(r + 1, w + 1) \in Seq(Writing) /\ Len(run(r + 1, w + 1)) = (w + 1) - (r + 1) + 1
          /\ \A k \in 1..(w + 1) - (r + 1) + 1 : run(r + 1, w + 1)[k] = Parts[(r + 1) + k - 1]
      BY <1>2, <3>1, Zenon
    <3> QED  BY <3>1, <3>2, <3>3
  <2>2. Parts[w + 1] \in Writing
    <3>1. w + 1 \in 1..6
      BY <1>4
    <3> QED  BY <1>b, <3>1
  <2> DEFINE longer == Append(run(r + 1, w), Parts[w + 1])
  <2>3. /\ longer \in Seq(Writing) /\ Len(longer) = w - r + 1
        /\ \A k \in 1..w - r : longer[k] = run(r + 1, w)[k]
        /\ longer[w - r + 1] = Parts[w + 1]
    BY <1>3, <2>2
  <2> HIDE DEF longer
  <2>4. /\ \A k \in 1..w + 1 - r : k \in 1..w - r \/ k = w - r + 1
        /\ w + 1 - r = w - r + 1 /\ r + (w - r + 1) = w + 1
    OBVIOUS
  <2>5. \A k \in 1..w + 1 - r : longer[k] = Parts[r + k]
    BY <1>3, <2>3, <2>4
  <2>6. longer = run(r + 1, w + 1)
    BY <2>1, <2>3, <2>4, <2>5
  <2> QED  BY <2>6 DEF longer
<1>5. ASSUME r < w PROVE Tail(run(r + 1, w)) = run(r + 1 + 1, w)
  <2>1. /\ run(r + 1 + 1, w) \in Seq(Writing) /\ Len(run(r + 1 + 1, w)) = w - r - 1
        /\ \A k \in 1..w - r - 1 : run(r + 1 + 1, w)[k] = Parts[r + 1 + k]
    <3>1. r + 1 + 1 \in 1..7 /\ r + 1 + 1 <= w + 1 /\ w - (r + 1 + 1) + 1 = w - r - 1
      BY <1>5
    <3>2. \A k \in 1..w - r - 1 : (r + 1 + 1) + k - 1 = r + 1 + k
      OBVIOUS
    <3>3. /\ run(r + 1 + 1, w) \in Seq(Writing) /\ Len(run(r + 1 + 1, w)) = w - (r + 1 + 1) + 1
          /\ \A k \in 1..w - (r + 1 + 1) + 1 : run(r + 1 + 1, w)[k] = Parts[(r + 1 + 1) + k - 1]
      BY <1>2, <3>1, Zenon
    <3> QED  BY <3>1, <3>2, <3>3
  <2> DEFINE shorter == Tail(run(r + 1, w))
  <2>2. /\ shorter \in Seq(Writing) /\ Len(shorter) = w - r - 1
        /\ \A k \in 1..w - r - 1 : shorter[k] = run(r + 1, w)[k + 1]
    <3>1. run(r + 1, w) # <<>> /\ Len(run(r + 1, w)) > 0
      BY <1>3, <1>5
    <3> QED  BY <1>3, <3>1
  <2> HIDE DEF shorter
  <2>3. \A k \in 1..w - r - 1 : k + 1 \in 1..w - r /\ r + (k + 1) = r + 1 + k
    BY <1>5
  <2>4. \A k \in 1..w - r - 1 : shorter[k] = Parts[r + 1 + k]
    BY <1>3, <2>2, <2>3
  <2>5. shorter = run(r + 1 + 1, w)
    BY <2>1, <2>2, <2>4
  <2> QED  BY <2>5 DEF shorter
<1>6. r = w => run(r + 1, w) = <<>>
  BY <1>3
<1> QED  BY <1>3, <1>4, <1>5, <1>6 DEF run

LEMMA OrderedIf ==
    ASSUME NEW r \in 0..6, NEW w \in 0..6, r <= w, to_recgen' = SubSeq(Parts, r + 1, w),
           (sockfd' /\ link' # "none" /\ hum' \in Writing) => w = Written'
    PROVE  Ordered'
BY DEF Ordered

LEMMA SameRun ==
    ASSUME Ordered, UNCHANGED to_recgen,
           (sockfd' /\ link' # "none" /\ hum' \in Writing) => sockfd /\ link # "none" /\ UNCHANGED hum
    PROVE  Ordered'
<1>1. PICK r, w \in 0..6 :
          /\ r <= w /\ to_recgen = SubSeq(Parts, r + 1, w)
          /\ (sockfd /\ link # "none" /\ hum \in Writing) => w = Written
  BY DEF Ordered
<1>2. (sockfd' /\ link' # "none" /\ hum' \in Writing) => w = Written'
  BY <1>1 DEF Written, Place
<1> QED  BY <1>1, <1>2, OrderedIf

\* The part at which hum is comes next.
LEMMA PartAtPlace == \A p \in Writing : Parts[Place(p) + 1] = p
<1>1. /\ Parts[0 + 1] = "uri_type" /\ Parts[1 + 1] = "uri_length" /\ Parts[2 + 1] = "uri"
      /\ Parts[3 + 1] = "post_type" /\ Parts[4 + 1] = "post_length" /\ Parts[5 + 1] = "post"
  BY DEF Parts
<1> QED  BY <1>1, PlaceFacts, Zenon DEF Writing

LEMMA NextKeepsOrdered == ASSUME HumInv, Ordered, [Next]_vars PROVE Ordered'
<1>1. HumTypes /\ Queueing /\ Linked /\ Counted
  BY DEF HumInv
<1>2. ASSUME HumEnds, UNCHANGED to_recgen PROVE Ordered'
  BY <1>2, SameRun DEF HumEnds
<1>3. ASSUME NEW answer, Finish(answer), UNCHANGED to_recgen PROVE Ordered'
  BY <1>3, SameRun DEF Finish
<1>4. CASE AcceptClient \/ ReadHead \/ ReadBody \/ BodyRead \/ ReadAnswer
  <2>1. UNCHANGED to_recgen
    BY <1>4 DEF AcceptClient, ReadHead, ReadBody, BodyRead, ReadAnswer, sockVars
  <2>2. sockfd' => hum' \notin Writing
    <3>1. CASE AcceptClient \/ ReadHead \/ ReadBody \/ BodyRead
      <4>1. ~sockfd
        BY <1>1, <3>1 DEF AcceptClient, ReadHead, ReadBody, BodyRead, Linked, Writing, Waiting
      <4>2. ~sockfd'
        BY <3>1, <4>1 DEF AcceptClient, ReadHead, ReadBody, BodyRead, HumEnds, Finish, sockVars
      <4> QED  BY <4>2
    <3>2. CASE ReadAnswer
      BY <3>2 DEF ReadAnswer, Respond, HumEnds, Finish, Writing
    <3> QED  BY <1>4, <3>1, <3>2
  <2> QED  BY <2>1, <2>2, SameRun
<1>5. CASE ConnectToRecgen
  <2>1. CASE Listening
    <3>1. to_recgen' = <<>> /\ hum' = "uri_type"
      BY <1>5, <2>1 DEF ConnectToRecgen
    <3>2. Written' = 0
      BY <3>1 DEF Written, Writing, Place
    <3>3. 0 \in 0..6 /\ 0 <= 0
      OBVIOUS
    <3>4. to_recgen' = SubSeq(Parts, 0 + 1, 0)
      BY <3>1, <3>3, RunsOfParts
    <3> QED  BY <3>2, <3>3, <3>4, OrderedIf
  <2> QED  BY <1>3, <1>5, <2>1 DEF ConnectToRecgen
<1>6. CASE WritePart /\ link # "none"
  <2>1. /\ hum \in Writing /\ sockfd
        /\ to_recgen' = Append(to_recgen, hum) \/ (hum = "post" /\ UNCHANGED to_recgen)
        /\ hum' = IF hum = "post" THEN "wait" ELSE After(hum)
    BY <1>1, <1>6, PartsFacts DEF WritePart, Linked
  <2>2. PICK r, w \in 0..6 : r <= w /\ to_recgen = SubSeq(Parts, r + 1, w) /\ w = Written
    BY <1>6, <2>1 DEF Ordered
  <2>3. w = Place(hum) /\ w \in 0..5 /\ hum = Parts[w + 1]
    <3>1. w = Place(hum)
      BY <2>1, <2>2 DEF Written
    <3>2. Place(hum) \in 0..5
      BY PlaceRange
    <3> QED  BY <2>1, <3>1, <3>2, PartAtPlace
  <2>4. hum' \in Writing => Written' = w + 1
    <3>1. hum' \in Writing => hum # "post" /\ hum' = After(hum)
      BY <2>1 DEF Writing
    <3>2. hum' \in Writing => Place(hum') = Place(hum) + 1
      BY <2>1, <3>1, NextPlace
    <3>3. hum' \in Writing => Written' = Place(hum')
      BY DEF Written, Place
    <3> QED  BY <2>3, <3>2, <3>3
  <2>5. CASE to_recgen' = Append(to_recgen, hum)
    <3>1. to_recgen' = SubSeq(Parts, r + 1, w + 1)
      BY <2>2, <2>3, <2>5, RunsOfParts
    <3>2. w + 1 \in 0..6 /\ r <= w + 1
      BY <2>2, <2>3
    <3> QED  BY <2>4, <3>1, <3>2, OrderedIf
  <2>6. CASE hum = "post" /\ UNCHANGED to_recgen
    <3>1. hum' \notin Writing
      BY <2>1, <2>6 DEF Writing
    <3> QED  BY <2>6, <3>1, SameRun
  <2> QED  BY <2>1, <2>5, <2>6
<1>7. CASE WritePart /\ link = "none"
  BY <1>2, <1>7 DEF WritePart
<1>8. CASE ReadPart
  <2>1. /\ UNCHANGED <<hum, sockfd>> /\ (link' = link \/ link' = "none")
        /\ \/ to_recgen # <<>> /\ to_recgen' = Tail(to_recgen)
           \/ UNCHANGED to_recgen
    BY <1>8 DEF ReadPart, RecgenOnly, humVars, RecgenExits, RecgenEnds, CloseLink, GoesOn
  <2>2. CASE UNCHANGED to_recgen
    BY <2>1, <2>2, SameRun
  <2>3. CASE to_recgen # <<>> /\ to_recgen' = Tail(to_recgen)
    <3>1. PICK r, w \in 0..6 :
              /\ r <= w /\ to_recgen = SubSeq(Parts, r + 1, w)
              /\ (sockfd /\ link # "none" /\ hum \in Writing) => w = Written
      BY DEF Ordered
    <3>2. r < w
      BY <2>3, <3>1, RunsOfParts
    <3>3. to_recgen' = SubSeq(Parts, (r + 1) + 1, w)
      BY <2>3, <3>1, <3>2, RunsOfParts
    <3>4. (sockfd' /\ link' # "none" /\ hum' \in Writing) => w = Written'
      BY <2>1, <3>1 DEF Written, Place
    <3>5. r + 1 \in 0..6 /\ r + 1 <= w
      BY <3>2
    <3> QED  BY <3>3, <3>4, <3>5, OrderedIf
  <2> QED  BY <2>1, <2>2, <2>3
<1>9. CASE AcceptHum \/ Dispatch \/ WriteAnswer \/ Bind \/ StartRecgen \/ RecgenKilled \/ UNCHANGED vars
  <2>1. UNCHANGED <<hum, sockfd, to_recgen>>
    BY <1>9 DEF AcceptHum, Dispatch, WriteAnswer, Bind, StartRecgen, RecgenKilled, RecgenOnly, vars,
                humVars, sockVars
  <2>2. link' # "none" => link # "none"
    BY <1>9 DEF AcceptHum, Dispatch, WriteAnswer, Bind, StartRecgen, RecgenKilled, RecgenExits, RecgenEnds,
                CloseLink, GoesOn, vars, sockVars
  <2> QED  BY <2>1, <2>2, SameRun
<1>10. CASE SpawnHum \/ HumKilled
  BY <1>10, SameRun DEF SpawnHum, HumKilled, HumEnds
<1>11. ASSUME NEW c \in Clients, ConnectToHum(c) \/ Send(c) \/ Leave(c) PROVE Ordered'
  <2>1. UNCHANGED <<hum, sockfd, to_recgen, link>>
    BY <1>11 DEF ConnectToHum, Send, Leave, ClientOnly, sockVars
  <2> QED  BY <2>1, SameRun
<1> QED  BY <1>4, <1>5, <1>6, <1>7, <1>8, <1>9, <1>10, <1>11 DEF Next, HumStep, RecgenStep

LEMMA NextKeepsClientTypes == ASSUME HumInv, ClientTypes, [Next]_vars PROVE ClientTypes'
<1>1. ASSUME NEW c \in Clients, Send(c) PROVE ClientTypes'
  BY <1>1 DEF Send, ClientOnly, ClientTypes
<1>2. ASSUME NEW c \in Clients, Leave(c) PROVE ClientTypes'
  BY <1>2 DEF Leave, ClientOnly, ClientTypes
<1>3. ASSUME NEW c \in Clients, ConnectToHum(c) PROVE ClientTypes'
  BY <1>3 DEF ConnectToHum, ClientTypes
<1>4. CASE HumStep
  BY <1>4 DEF HumStep, AcceptClient, ReadHead, ReadBody, BodyRead, ConnectToRecgen, WritePart, ReadAnswer,
              HumOnly, clientVars, ClientTypes
<1>5. CASE RecgenStep
  BY <1>5 DEF RecgenStep, SpawnHum, Bind, AcceptHum, ReadPart, Dispatch, WriteAnswer, RecgenOnly,
              clientVars, ClientTypes
<1>6. CASE HumKilled \/ RecgenKilled \/ StartRecgen \/ UNCHANGED vars
  BY <1>6 DEF HumKilled, RecgenKilled, StartRecgen, vars, clientVars, ClientTypes
<1> QED  BY <1>1, <1>2, <1>3, <1>4, <1>5, <1>6 DEF Next

\* In the queue every client has one place.
LEMMA QueueInjective == ASSUME HumTypes, Queueing PROVE IsInjective(Queue)
<1>1. backlog \in Seq(Clients) /\ DOMAIN backlog = 1..Len(backlog) /\ Len(backlog) \in Nat
  BY DEF HumTypes
<1>2. CASE client_fd = "none"
  <2>1. Queue = backlog
    BY <1>1, <1>2 DEF Queue
  <2> QED  BY <1>1, <2>1 DEF IsInjective, Queueing
<1>3. CASE client_fd # "none"
  <2>1. Queue = <<client_fd>> \o backlog
    BY <1>3 DEF Queue
  <2>2. /\ DOMAIN Queue = 1..Len(backlog) + 1 /\ Queue[1] = client_fd
        /\ \A k \in 1..Len(backlog) : Queue[k + 1] = backlog[k]
    BY <1>1, <1>3, <2>1 DEF HumTypes
  <2>3. \A k \in 1..Len(backlog) + 1 : k = 1 \/ (k - 1 \in 1..Len(backlog) /\ (k - 1) + 1 = k)
    BY <1>1
  <2>4. ASSUME NEW j \in 1..Len(backlog) + 1, NEW k \in 1..Len(backlog) + 1, Queue[j] = Queue[k]
        PROVE  j = k
    <3>1. j # 1 => Queue[j] = backlog[j - 1] /\ j - 1 \in 1..Len(backlog)
      BY <2>2, <2>3
    <3>2. k # 1 => Queue[k] = backlog[k - 1] /\ k - 1 \in 1..Len(backlog)
      BY <2>2, <2>3
    <3>3. CASE j # 1 /\ k # 1
      <4>1. backlog[j - 1] = backlog[k - 1]
        BY <2>4, <3>1, <3>2, <3>3
      <4>2. j - 1 = k - 1
        BY <3>1, <3>2, <3>3, <4>1 DEF Queueing
      <4> QED  BY <4>2
    <3>4. CASE j = 1 \/ k = 1
      BY <2>2, <2>4, <3>1, <3>2, <3>4 DEF Queueing
    <3> QED  BY <3>3, <3>4
  <2> QED  BY <2>2, <2>4 DEF IsInjective
<1> QED  BY <1>2, <1>3

\* Types, and what is in the connection: a run of the parts that hum writes,
\* with both programs where that run begins and ends.
THEOREM HumTypesAlways == Spec => []HumTypeOK
<1>1. Init => ClientTypes /\ Ordered
  <2>1. ASSUME Init PROVE ClientTypes
    BY <2>1 DEF Init, ClientTypes
  <2>2. ASSUME Init PROVE Ordered
    <3>1. 0 \in 0..6 /\ 0 <= 0
      OBVIOUS
    <3>2. to_recgen = SubSeq(Parts, 0 + 1, 0) /\ ~sockfd
      BY <2>2, <3>1, RunsOfParts DEF Init
    <3> QED  BY <3>1, <3>2 DEF Ordered
  <2> QED  BY <2>1, <2>2
<1>2. HumInv /\ ClientTypes /\ Ordered /\ [Next]_vars => ClientTypes' /\ Ordered'
  BY NextKeepsOrdered, NextKeepsClientTypes
<1>3. ASSUME HumInv, ClientTypes, Ordered PROVE HumTypeOK
  <2>1. HumTypes /\ Queueing /\ Linked
    BY <1>3 DEF HumInv
  <2>2. \A c \in Range(Queue) : outcome[c] = "none"
    <3>1. \A c \in Clients : c \in Range(Queue) => outcome[c] = "none"
      BY <2>1, QueueRange, NamesDiffer DEF Queueing
    <3>2. Range(Queue) \subseteq Clients
      <4>1. backlog \in Seq(Clients)
        BY <2>1 DEF HumTypes
      <4>2. Queue \in Seq(Clients)
        BY <2>1, <4>1 DEF HumTypes, Queue
      <4> QED  BY <4>2 DEF Range
    <3> QED  BY <3>1, <3>2
  <2>3. \E r, w \in 0..6 : r <= w /\ to_recgen = SubSeq(Parts, r + 1, w)
    BY <1>3 DEF Ordered
  <2>4. IsInjective(Queue)
    BY <2>1, QueueInjective
  <2>5. /\ hum \in {"accept", "head", "body", "connect", "looping", "down"} \cup Range(Parts) \cup Waiting
        /\ recgen \in {"accept", "dispatch", "load", "bind", "down"} \cup Range(Parts) \cup Answering
        /\ outcome \in [Clients -> Clients \cup {"none", "closed", "empty", "junk"}]
    <3>1. Answered \cup {"none"} = Clients \cup {"none", "closed", "empty", "junk"}
      BY DEF Answered
    <3>2. {"accept", "load", "bind", "down"} \cup Serving
            = {"accept", "dispatch", "load", "bind", "down"} \cup Writing \cup Answering
      BY Zenon DEF Serving
    <3> QED  BY <2>1, <3>1, <3>2, PartsFacts DEF HumTypes
  <2>6. /\ client_fd = "none" <=> hum \in {"accept", "looping", "down"}
        /\ sockfd <=> hum \in Range(Parts) \cup Waiting
        /\ link = "open" <=> recgen \in Range(Parts) \cup {"dispatch"} \cup Answering
        /\ sockfd => conn = client_fd
    BY <2>1, PartsFacts DEF Queueing, Linked, Serving
  <2>7. shape \in [Clients -> Shapes]
    BY <2>1 DEF HumTypes
  <2> QED  BY <1>3, <2>2, <2>3, <2>4, <2>5, <2>6, <2>7 DEF HumTypeOK, ClientTypes
<1> QED  BY <1>1, <1>2, <1>3, HumInvAlways, PTL DEF Spec

\* hum serves its clients in order, each with one result (main() of hum.c).
THEOREM HumImplementsRequestQueue == Spec => ServesInOrder
<1>1. Init => Service!Init
  BY DEF Init, Service!Init, Queue
<1>2. HumInv /\ [Next]_vars => [Service!Next]_<<{c \in Clients : shape[c].uri = "known"}, Queue, outcome, torn>>
  BY NextServes DEF Serves, KnownOnes
<1> QED  BY <1>1, <1>2, HumInvAlways, PTL DEF Spec, ServesInOrder, Service!Spec
=============================================================================
