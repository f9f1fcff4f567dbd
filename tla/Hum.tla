-------------------------------- MODULE Hum --------------------------------
(***************************************************************************)
(* hum (src/recgen/hum.c), the web server that comes with bemorehuman, and *)
(* the worker of recgen it talks to (start_hum_worker() of                 *)
(* src/recgen/main.c), with the start of both.  hum handles one client     *)
(* after the other; for each POST it connects to recgen, writes two        *)
(* records (the uri and the data) and waits for one record.  A record is   *)
(* written and read in three pieces: its type, its length, its content.    *)
(*                                                                         *)
(* Clients may be slow or leave; both processes may die, by their own      *)
(* exits, by SIGPIPE, or killed.  The answer to a client is its name.      *)
(***************************************************************************)
EXTENDS Integers, Sequences, SequencesExt

CONSTANTS
    Clients,           \* each makes one request
    Shapes,            \* what requests look like
    HUM_BUFFER_SIZE,
    MaxKills           \* bound: processes killed from outside

\* kind: "post", another method, or a head that hum cannot read: without a
\* length, or not in one piece.  uri: "long" is more than recgen has room for.
\* length: what the head says of the body.  first: how much of the body comes
\* with the head, in one read.  data: "bad" if a handler does not survive it.
IsShape(s) ==
    /\ s.kind \in {"post", "other", "broken"} /\ s.uri \in {"known", "unknown", "long"}
    /\ s.length \in Int /\ s.first \in 0..HUM_BUFFER_SIZE - 2
    /\ s.data \in {"good", "bad"}

ASSUME HumAssumption ==
    /\ \A s \in Shapes : IsShape(s)
    /\ HUM_BUFFER_SIZE \in Nat /\ MaxKills \in Nat
    /\ Clients \cap {"none", "closed", "empty", "junk", "type", "length"} = {}

VARIABLES
    shape,      \* the request of each client
    sent,       \* what it has sent of it: "nothing", "head", "all"
    gone,       \* the clients that closed their end before the answer
    outcome,    \* "none", "closed", "empty", "junk", or the client whose answer it got
    backlog,    \* connections hum has not accepted
    hum,        \* where hum is
    client_fd,  \* the client in hand, or "none"
    total,      \* bytes of the body read
    sockfd,     \* hum's end of the connection to recgen is open
    to_recgen, to_hum,    \* what is in the connection
    recgen,     \* where recgen is
    link,       \* recgen's end: "none", "pending", "open"
    conn,       \* the client on whose behalf the connection was made
    out,        \* record_out, which keeps what it had: "junk" or a client
    handled,    \* how often each request was handled
    kills,         \* history: processes killed,
    humKilled,     \* clients in hand, with recgen on the line, when hum was killed,
    torn,          \* clients whose answer was half written when recgen was killed,
    recgenExited   \* clients on whose connection recgen ended by itself

clientVars == <<shape, sent, gone>>
humVars    == <<outcome, backlog, hum, client_fd, total>>
sockVars   == <<sockfd, to_recgen, to_hum, link, conn>>
recgenVars == <<recgen, out, handled>>
history    == <<kills, humKilled, torn, recgenExited>>
vars == <<clientVars, humVars, sockVars, recgenVars, history>>

Parts     == <<"uri_type", "uri_length", "uri", "post_type", "post_length", "post">>
Answering == {"answer", "answer_length", "answer_content"}
Waiting   == {"wait", "answer_length", "answer_content"}
After(part) == Parts[(CHOOSE k \in 1..5 : Parts[k] = part) + 1]

\* The body as a whole; more than the head says may come with the head.
Whole(s) == IF s.first < s.length THEN s.length ELSE s.first

\* What hum and recgen take for granted of a request.
Sound(s) == s.length >= 0 /\ s.uri # "long" /\ s.data = "good"

Init ==
    /\ shape \in [Clients -> Shapes]
    /\ sent = [c \in Clients |-> "nothing"] /\ gone = {}
    /\ outcome = [c \in Clients |-> "none"] /\ backlog = <<>>
    /\ hum = "accept" /\ client_fd = "none" /\ total = 0
    /\ sockfd = FALSE /\ to_recgen = <<>> /\ to_hum = <<>>
    /\ recgen = "bind" /\ link = "none" /\ conn = "none" /\ out = "junk"
    /\ handled = [c \in Clients |-> 0]
    /\ kills = 0 /\ humKilled = {} /\ torn = {} /\ recgenExited = {}

Queue == (IF client_fd = "none" THEN <<>> ELSE <<client_fd>>) \o backlog

-----------------------------------------------------------------------------
(* Clients. *)

ClientOnly == UNCHANGED <<shape, hum, client_fd, total, sockVars, recgenVars, history>>

ConnectToHum(c) ==
    /\ outcome[c] = "none" /\ c \notin Range(Queue)
    /\ IF hum = "down"
       THEN outcome' = [outcome EXCEPT ![c] = "closed"] /\ UNCHANGED backlog
       ELSE backlog' = Append(backlog, c) /\ UNCHANGED outcome
    /\ UNCHANGED <<sent, gone>> /\ ClientOnly

\* The head, with as much of the body as comes along, and the rest.
Send(c) ==
    /\ c \in Range(Queue) \ gone /\ sent[c] # "all"
    /\ sent' = [sent EXCEPT ![c] = IF @ = "nothing" /\ shape[c].first < shape[c].length
                                   THEN "head" ELSE "all"]
    /\ UNCHANGED <<outcome, backlog, gone>> /\ ClientOnly

Leave(c) ==
    /\ c \in Range(Queue) \ gone
    /\ gone' = gone \cup {c}
    /\ UNCHANGED <<outcome, backlog, sent>> /\ ClientOnly

-----------------------------------------------------------------------------
(* hum. *)

HumOnly == UNCHANGED <<clientVars, recgenVars, history>>

\* hum ends; all its descriptors are closed.
HumEnds ==
    /\ outcome' = [c \in Clients |-> IF c \in Range(Queue) THEN "closed" ELSE outcome[c]]
    /\ backlog' = <<>> /\ hum' = "down" /\ client_fd' = "none" /\ total' = 0
    /\ sockfd' = FALSE

\* The client is done with, with an answer or without.
Finish(answer) ==
    /\ outcome' = [outcome EXCEPT ![client_fd] = answer]
    /\ hum' = "accept" /\ client_fd' = "none" /\ total' = 0
    /\ sockfd' = FALSE
    /\ UNCHANGED backlog

\* Mutant: the latest connection first.
AcceptClient_Last ==
    /\ hum = "accept" /\ backlog # <<>>
    /\ client_fd' = Last(backlog) /\ backlog' = Front(backlog) /\ hum' = "head"
    /\ UNCHANGED <<outcome, total, sockVars>> /\ HumOnly

AcceptClient ==
    /\ hum = "accept" /\ backlog # <<>>
    /\ client_fd' = Head(backlog) /\ backlog' = Tail(backlog) /\ hum' = "head"
    /\ UNCHANGED <<outcome, total, sockVars>> /\ HumOnly

\* A client that left may have reset the connection, and hum exits on a failed
\* read.  If it sent nothing before, the method is the one of some request
\* before, and if that is POST the missing length is looked up at NULL.
ReadHead ==
    /\ hum = "head"
    /\ \/ /\ client_fd \in gone
          /\ HumEnds \/ (sent[client_fd] = "nothing" /\ Finish("closed"))
       \/ /\ sent[client_fd] # "nothing" /\ shape[client_fd].kind = "other"
          /\ Finish("closed")
       \/ /\ sent[client_fd] # "nothing" /\ shape[client_fd].kind = "broken"
          /\ HumEnds
       \/ /\ sent[client_fd] # "nothing" /\ shape[client_fd].kind = "post"
          /\ total' = IF sent[client_fd] = "all" THEN Whole(shape[client_fd]) ELSE shape[client_fd].first
          /\ hum' = "body"
          /\ UNCHANGED <<outcome, backlog, client_fd, sockfd>>
    /\ UNCHANGED <<to_recgen, to_hum, link, conn>> /\ HumOnly

\* If the client closed its end, read() gives 0 for ever and the loop goes round;
\* if it reset the connection, hum exits.
ReadBody ==
    /\ hum = "body" /\ total < shape[client_fd].length
    /\ \/ /\ sent[client_fd] = "all" /\ total' = Whole(shape[client_fd])
          /\ UNCHANGED <<outcome, backlog, hum, client_fd, sockfd>>
       \/ client_fd \in gone /\ HumEnds
    /\ UNCHANGED <<to_recgen, to_hum, link, conn>> /\ HumOnly

\* Mutant: off by one.
BodyRead_Strict ==
    /\ hum = "body" /\ total >= shape[client_fd].length
    /\ \/ (total >= HUM_BUFFER_SIZE - 2 \/ shape[client_fd].length < 0) /\ HumEnds
       \/ /\ total < HUM_BUFFER_SIZE - 2
          /\ hum' = "connect" /\ UNCHANGED <<outcome, backlog, client_fd, total, sockfd>>
    /\ UNCHANGED <<to_recgen, to_hum, link, conn>> /\ HumOnly

\* The digits of a negative length may not fit where hum writes them.
BodyRead ==
    /\ hum = "body" /\ total >= shape[client_fd].length
    /\ \/ (total >= HUM_BUFFER_SIZE - 1 \/ shape[client_fd].length < 0) /\ HumEnds
       \/ /\ total < HUM_BUFFER_SIZE - 1
          /\ hum' = "connect" /\ UNCHANGED <<outcome, backlog, client_fd, total, sockfd>>
    /\ UNCHANGED <<to_recgen, to_hum, link, conn>> /\ HumOnly

Listening == recgen \notin {"down", "load", "bind"}

ConnectToRecgen ==
    /\ hum = "connect"
    /\ IF Listening
       THEN /\ sockfd' = TRUE /\ link' = "pending" /\ conn' = client_fd
            /\ to_recgen' = <<>> /\ to_hum' = <<>>
            /\ hum' = "uri_type" /\ UNCHANGED <<outcome, backlog, client_fd, total>>
       ELSE Finish("closed") /\ UNCHANGED <<to_recgen, to_hum, link, conn>>
    /\ HumOnly

\* Without a reader the write is a SIGPIPE, which hum does not handle.  A negative
\* length is written as 32 bits without a sign, and so many bytes of the buffer
\* are to follow: the write fails, or sends something else than it said.
WritePart ==
    /\ hum \in Range(Parts)
    /\ IF link = "none"
       THEN HumEnds /\ UNCHANGED to_recgen
       ELSE /\ \/ (hum = "post" => shape[client_fd].length # 0) /\ to_recgen' = Append(to_recgen, hum)
               \/ hum = "post" /\ shape[client_fd].length <= 0 /\ UNCHANGED to_recgen
            /\ hum' = IF hum = "post" THEN "wait" ELSE After(hum)
            /\ UNCHANGED <<outcome, backlog, client_fd, total, sockfd>>
    /\ UNCHANGED <<to_hum, link, conn>> /\ HumOnly

\* Mutant: hum gives up at once.
ReadAnswer_Hasty ==
    /\ hum = "wait"
    /\ Finish("empty")
    /\ UNCHANGED <<to_recgen, to_hum, link, conn>> /\ HumOnly

\* Writing to a client that reset the connection is a SIGPIPE.
Respond(answer) == Finish(answer) \/ (client_fd \in gone /\ HumEnds)

\* The answer, or the end of file without one; when recgen ended with a part
\* unread the read fails, the descriptors are closed, and the loop, which has no
\* exit for it, goes on reading.  Nobody looks whether the reads of length and
\* content succeed: what they leave is the length of the request and its uri.
ReadAnswer ==
    /\ hum \in Waiting
    /\ \/ /\ to_hum # <<>> /\ to_hum' = Tail(to_hum)
          /\ \/ hum = "wait" /\ hum' = "answer_length" /\ UNCHANGED <<outcome, backlog, client_fd, total, sockfd>>
             \/ hum = "answer_length" /\ hum' = "answer_content"
                /\ UNCHANGED <<outcome, backlog, client_fd, total, sockfd>>
             \/ hum = "answer_content" /\ Respond(Head(to_hum))
       \/ /\ to_hum = <<>> /\ link = "none" /\ UNCHANGED to_hum
          /\ \/ hum = "wait" /\ to_recgen = <<>> /\ Respond("empty")
             \/ /\ hum = "wait" /\ to_recgen # <<>>
                /\ outcome' = [outcome EXCEPT ![client_fd] = "closed"]
                /\ hum' = "looping" /\ client_fd' = "none" /\ total' = 0 /\ sockfd' = FALSE
                /\ UNCHANGED backlog
             \/ hum = "answer_length" /\ shape[client_fd].length = 0 /\ Respond("empty")
             \/ hum = "answer_length" /\ shape[client_fd].length # 0 /\ Respond("junk")
             \/ hum = "answer_content" /\ Respond("junk")
    /\ UNCHANGED <<to_recgen, link, conn>> /\ HumOnly

-----------------------------------------------------------------------------
(* The worker of recgen.  The signal to reload interrupts it, the only       *)
(* thread of this build, and it goes on afterwards: here, a pause.           *)

RecgenOnly == UNCHANGED <<clientVars, humVars, sockfd, conn, kills, humKilled, torn>>

RecgenEnds  == recgen' = "down" /\ link' = "none" /\ out' = "junk"
RecgenExits == RecgenEnds /\ recgenExited' = recgenExited \cup {conn}
CloseLink   == recgen' = "accept" /\ link' = "none" /\ UNCHANGED <<out, recgenExited>>
GoesOn(to)  == recgen' = to /\ UNCHANGED <<link, out, recgenExited>>

AcceptHum ==
    /\ recgen = "accept" /\ link = "pending"
    /\ link' = "open" /\ recgen' = "uri_type"
    /\ UNCHANGED <<to_recgen, to_hum, out, handled, recgenExited>> /\ RecgenOnly

Following(part) == IF part = "post_length" /\ shape[conn].length = 0 THEN "dispatch"
                   ELSE IF part = "post" THEN "dispatch" ELSE After(part)

\* A uri that is too long is written over what lies behind its array.  A length
\* that was negative is more than the record holds and more than ever comes: the
\* read fails, or brings another number of bytes, and recgen exits.
Excess ==
    \/ recgen = "uri" /\ shape[conn].uri = "long"
    \/ recgen \in {"post_length", "post"} /\ shape[conn].length < 0

\* Mutant: a content of length 0 is waited for.
ReadPart_ExpectsContent ==
    /\ recgen \in Range(Parts)
    /\ \/ /\ to_recgen # <<>> /\ to_recgen' = Tail(to_recgen)
          /\ \/ ~(recgen = "post" /\ Excess)
                /\ GoesOn(IF recgen = "post" THEN "dispatch" ELSE After(recgen))
             \/ Excess /\ RecgenExits
       \/ /\ to_recgen = <<>> /\ ~sockfd /\ UNCHANGED to_recgen
          /\ \/ recgen \in {"uri_type", "post_type"} /\ CloseLink
             \/ recgen \notin {"uri_type", "post_type"} /\ RecgenExits
             \/ recgen = "uri_length" /\ GoesOn("post_type")
    /\ UNCHANGED <<to_hum, handled>> /\ RecgenOnly

\* One part of a record; a content of length 0 needs no read.  At the end of file
\* in place of a type the connection is closed, in place of a content recgen
\* exits.  Nobody looks whether the read of a length succeeds: the length is then
\* that of the record before, and at the first of them that may be 0.
ReadPart ==
    /\ recgen \in Range(Parts)
    /\ \/ /\ to_recgen # <<>> /\ to_recgen' = Tail(to_recgen)
          /\ \/ ~(recgen = "post" /\ Excess) /\ GoesOn(Following(recgen))
             \/ Excess /\ RecgenExits
       \/ /\ to_recgen = <<>> /\ ~sockfd /\ UNCHANGED to_recgen
          /\ \/ recgen \in {"uri_type", "post_type"} /\ CloseLink
             \/ recgen \notin {"uri_type", "post_type"} /\ RecgenExits
             \/ recgen = "uri_length" /\ GoesOn("post_type")
    /\ UNCHANGED <<to_hum, handled>> /\ RecgenOnly

\* Mutant: a handler that returns early leaves the record alone.
Dispatch_KeepsOut ==
    /\ recgen = "dispatch"
    /\ \/ /\ recgen' = "answer" /\ UNCHANGED <<link, recgenExited>>
          /\ \E early \in BOOLEAN :
               IF shape[conn].uri = "known" /\ ~early
               THEN out' = conn /\ handled' = [handled EXCEPT ![conn] = @ + 1]
               ELSE UNCHANGED <<out, handled>>
       \/ shape[conn].uri = "known" /\ shape[conn].data = "bad" /\ RecgenExits /\ UNCHANGED handled
    /\ UNCHANGED <<to_recgen, to_hum>> /\ RecgenOnly

\* Each handler sets the record, unless it dies of the data: of ids that nobody
\* checks, or of too many predictions.  For a uri without a handler the record
\* stays as it is.
Dispatch ==
    /\ recgen = "dispatch"
    /\ \/ /\ recgen' = "answer" /\ UNCHANGED <<link, recgenExited>>
          /\ IF shape[conn].uri = "known"
             THEN out' = conn /\ handled' = [handled EXCEPT ![conn] = @ + 1]
             ELSE UNCHANGED <<out, handled>>
       \/ shape[conn].uri = "known" /\ shape[conn].data = "bad" /\ RecgenExits /\ UNCHANGED handled
    /\ UNCHANGED <<to_recgen, to_hum>> /\ RecgenOnly

\* Mutant: the connection is closed only when something was written.
WriteAnswer_KeepsOpen ==
    /\ \/ recgen = "answer" /\ GoesOn("accept") /\ UNCHANGED to_hum
       \/ sockfd /\ recgen = "answer" /\ to_hum' = Append(to_hum, "type") /\ GoesOn("answer_length")
       \/ sockfd /\ recgen = "answer_length" /\ to_hum' = Append(to_hum, "length") /\ GoesOn("answer_content")
       \/ sockfd /\ recgen = "answer_content" /\ to_hum' = Append(to_hum, out) /\ CloseLink
       \/ ~sockfd /\ recgen \in Answering /\ RecgenExits /\ UNCHANGED to_hum
    /\ UNCHANGED <<to_recgen, handled>> /\ RecgenOnly

\* Nothing is written of an answer of length 0, or of junk that does not look
\* like one; a write to a hum that has ended is a SIGPIPE.
WriteAnswer ==
    /\ \/ recgen = "answer" /\ CloseLink /\ UNCHANGED to_hum
       \/ sockfd /\ recgen = "answer" /\ to_hum' = Append(to_hum, "type") /\ GoesOn("answer_length")
       \/ sockfd /\ recgen = "answer_length" /\ to_hum' = Append(to_hum, "length") /\ GoesOn("answer_content")
       \/ sockfd /\ recgen = "answer_content" /\ to_hum' = Append(to_hum, out) /\ CloseLink
       \/ ~sockfd /\ recgen \in Answering /\ RecgenExits /\ UNCHANGED to_hum
    /\ UNCHANGED <<to_recgen, handled>> /\ RecgenOnly

-----------------------------------------------------------------------------
(* Death and start. *)

Kill == kills < MaxKills /\ kills' = kills + 1

HumKilled ==
    /\ hum # "down" /\ Kill /\ HumEnds
    /\ humKilled' = IF sockfd THEN humKilled \cup {client_fd} ELSE humKilled
    /\ UNCHANGED <<clientVars, to_recgen, to_hum, link, conn, recgenVars, torn, recgenExited>>

RecgenKilled ==
    /\ recgen # "down" /\ Kill /\ RecgenEnds
    /\ torn' = IF sockfd /\ recgen \in {"answer_length", "answer_content"} THEN torn \cup {conn} ELSE torn
    /\ UNCHANGED <<clientVars, humVars, sockfd, to_recgen, to_hum, conn, handled, humKilled, recgenExited>>

\* The script starts recgen anew.  Loading ends before hum is touched.
StartRecgen ==
    /\ recgen = "down" /\ recgen' = "load"
    /\ UNCHANGED <<clientVars, humVars, sockVars, out, handled, history>>

\* killall hum, and a new hum.  It takes its port without SO_REUSEADDR: bind()
\* fails, and it exits, if the port has connections that linger.
SpawnHum ==
    /\ recgen = "load" /\ recgen' = "bind"
    /\ outcome' = [c \in Clients |-> IF c \in Range(Queue) THEN "closed" ELSE outcome[c]]
    /\ backlog' = <<>> /\ client_fd' = "none" /\ total' = 0 /\ sockfd' = FALSE
    /\ \/ hum' = "accept"
       \/ (\E c \in Clients : outcome'[c] # "none") /\ hum' = "down"
    /\ UNCHANGED <<clientVars, to_recgen, to_hum, link, conn, out, handled, history>>

Bind ==
    /\ recgen = "bind" /\ recgen' = "accept"
    /\ UNCHANGED <<clientVars, humVars, sockVars, out, handled, history>>

HumStep == AcceptClient \/ ReadHead \/ ReadBody \/ BodyRead \/ ConnectToRecgen \/ WritePart \/ ReadAnswer

RecgenStep == SpawnHum \/ Bind \/ AcceptHum \/ ReadPart \/ Dispatch \/ WriteAnswer

Next ==
    \/ \E c \in Clients : ConnectToHum(c) \/ Send(c) \/ Leave(c)
    \/ HumStep \/ RecgenStep
    \/ HumKilled \/ RecgenKilled \/ StartRecgen

\* Each process runs when it can, and a client that stays sends its request.
\* Nobody needs to start recgen.
Fairness == WF_vars(HumStep) /\ WF_vars(RecgenStep) /\ \A c \in Clients : WF_vars(Send(c))

Spec == Init /\ [][Next]_vars /\ Fairness

-----------------------------------------------------------------------------
(* Properties. *)

\* Types, and what the positions of the two programs say of the connection.
HumTypeOK ==
    /\ shape \in [Clients -> Shapes] /\ sent \in [Clients -> {"nothing", "head", "all"}]
    /\ gone \subseteq Clients
    /\ outcome \in [Clients -> Clients \cup {"none", "closed", "empty", "junk"}]
    /\ hum \in {"accept", "head", "body", "connect", "looping", "down"} \cup Range(Parts) \cup Waiting
    /\ recgen \in {"accept", "dispatch", "load", "bind", "down"} \cup Range(Parts) \cup Answering
    /\ IsInjective(Queue) /\ \A c \in Range(Queue) : outcome[c] = "none"
    /\ client_fd = "none" <=> hum \in {"accept", "looping", "down"}
    /\ sockfd <=> hum \in Range(Parts) \cup Waiting
    /\ link = "open" <=> recgen \in Range(Parts) \cup {"dispatch"} \cup Answering
    /\ sockfd => conn = client_fd
    /\ \E read, written \in 0..6 : read <= written /\ to_recgen = SubSeq(Parts, read + 1, written)

\* A client that asks for a uri that recgen serves gets the answer to its own
\* request, made in one handling of it, or none; junk only if recgen was killed
\* between the writes of its answer.
OwnAnswer ==
    \A c \in Clients : shape[c].uri = "known" =>
        /\ outcome[c] \in {"none", "closed", "empty", c} \/ (outcome[c] = "junk" /\ c \in torn)
        /\ outcome[c] = c => handled[c] = 1

\* recgen reads a record in pieces and exits when a content falls short, and a
\* write to a hum that is gone ends it.  No client with a sound request and no
\* exit of hum itself makes either happen: hum ends only between connections.
RecgenSurvivesHum == \A c \in recgenExited : c \in humKilled \/ ~Sound(shape[c])

\* While hum waits for the answer to a sound request, recgen has it still to
\* make or to write, and has all it needs for that: the two never wait for each
\* other.
OwesAnswer ==
    (hum \in Waiting /\ link # "none" /\ Sound(shape[client_fd])) =>
        /\ recgen = "accept" => link = "pending"
        /\ recgen \in Range(Parts) => to_recgen # <<>>
        /\ (hum # "wait" /\ to_hum = <<>>) => recgen = hum

Harmless(s) == Sound(s) /\ s.kind # "broken" /\ s.length > 0 /\ s.length < HUM_BUFFER_SIZE - 1

\* With clients that stay and send complete requests with a body that fits, and
\* nothing killed, hum stays up.
HumLives ==
    (gone = {} /\ kills = 0 /\ \A c \in Clients : Harmless(shape[c])) => hum \notin {"down", "looping"}

Service == INSTANCE RequestQueue WITH
    queue <- Queue, known <- {c \in Clients : shape[c].uri = "known"}

\* hum serves its clients in order, each with one result, as RequestQueue says.
ServesInOrder == Service!Spec

\* If nobody leaves, nothing is killed, and all requests are sound, every client
\* that connects is answered or sees its connection closed.
Served ==
    [](gone = {} /\ kills = 0 /\ \A c \in Clients : Sound(shape[c])) =>
        \A c \in Clients : (c \in Range(Queue)) ~> (outcome[c] # "none")
=============================================================================
