---------------------------- MODULE EventBuffer ----------------------------
(***************************************************************************)
(* recgen's event service: event() of src/recgen/main.c, run by the worker *)
(* loops of the same file.  The hum build has one worker, the FastCGI      *)
(* build starts two threads that share g_event_counter and                 *)
(* g_events_to_persist with no lock.                                       *)
(*                                                                         *)
(* One action per access to the shared globals or to the events file.  The *)
(* accesses are plain C: where the source reads g_event_counter again, the *)
(* build may read memory or keep the value it already holds in a register  *)
(* (idx), so each such read is a choice between the two.                   *)
(*                                                                         *)
(* Request number n stands for the decoded POST data; an accepted event    *)
(* has n in both of its fields, so a record with two different numbers is  *)
(* one that mixes two requests.                                            *)
(***************************************************************************)
EXTENDS Naturals, Sequences, FiniteSets

CONSTANTS
    Workers,                \* start_hum_worker, or the start_fcgi_worker threads
    EVENTS_TO_PERSIST_MAX,  \* 100 in recgen.h
    MaxRequests,            \* bound: requests that ever arrive
    Overlap,                \* may a request arrive while another is being handled?
    DiskFull                \* may the write of a batch fail half way?

ASSUME EventBufferAssumption ==
    /\ Workers # {} /\ IsFiniteSet(Workers)
    /\ EVENTS_TO_PERSIST_MAX \in Nat \ {0}
    /\ MaxRequests \in Nat
    /\ Overlap \in BOOLEAN /\ DiskFull \in BOOLEAN

VARIABLES
    pc,       \* where each worker is in event()
    req,      \* the request each worker handles
    idx,      \* the value of g_event_counter a worker holds in a register
    out,      \* stdio buffer of a worker's FILE: lines written, not yet flushed
    slots,    \* g_events_to_persist
    counter,  \* g_event_counter
    file,     \* every line ever appended to BE.bmh_events_file
    arrived,  \* history: number of requests that arrived
    acked,    \* history: requests answered "ok"
    lost      \* history: answered requests that died with a process

vars == <<pc, req, idx, out, slots, counter, file, arrived, acked, lost>>

Slots == 0..(EVENTS_TO_PERSIST_MAX - 1)

NoEvent == [personid |-> 0, eltid |-> 0]

Event == [personid : Nat, eltid : Nat]

Steps == {"idle", "person", "elt", "count", "test",
          "open", "write", "close", "reset", "reply"}

Ids(s) == {s[i].personid : i \in DOMAIN s}

(* Events accepted and not yet appended to the file. *)
Buffered ==
    IF \E w \in Workers : pc[w] = "reset"
    THEN <<>>
    ELSE [i \in 1..counter |->
            IF i - 1 \in Slots THEN slots[i - 1] ELSE NoEvent]

Goto(w, step) == pc' = [pc EXCEPT ![w] = step]
-----------------------------------------------------------------------------
Init ==
    /\ pc = [w \in Workers |-> "idle"]
    /\ req = [w \in Workers |-> 0]
    /\ idx = [w \in Workers |-> 0]
    /\ out = [w \in Workers |-> <<>>]
    /\ slots = [i \in Slots |-> NoEvent]
    /\ counter = 0
    /\ file = <<>>
    /\ arrived = 0
    /\ acked = {} /\ lost = {}

MayArrive(w) ==
    /\ pc[w] = "idle"
    /\ Overlap \/ \A v \in Workers : pc[v] = "idle"
    /\ arrived < MaxRequests

(* A request that decodes and names a known person and element. *)
Accept(w) ==
    /\ MayArrive(w)
    /\ arrived' = arrived + 1
    /\ req' = [req EXCEPT ![w] = arrived + 1]
    /\ Goto(w, "person")
    /\ UNCHANGED <<idx, out, slots, counter, file, acked, lost>>

(* One that does not: answered with an error, shared state untouched. *)
Reject(w) ==
    /\ MayArrive(w)
    /\ arrived' = arrived + 1
    /\ UNCHANGED <<pc, req, idx, out, slots, counter, file, acked, lost>>

(* An assignment to g_events_to_persist[c]; past the array it hits other memory. *)
Store(c, e) == slots' = IF c \in Slots THEN [slots EXCEPT ![c] = e] ELSE slots

StorePerson(w) ==
    /\ pc[w] = "person"
    /\ idx' = [idx EXCEPT ![w] = counter]
    /\ Store(counter, [personid |-> req[w], eltid |-> slots[counter].eltid])
    /\ Goto(w, "elt")
    /\ UNCHANGED <<req, out, counter, file, arrived, acked, lost>>

StoreElt(w) ==
    /\ pc[w] = "elt"
    /\ \E c \in {idx[w], counter} :
          /\ idx' = [idx EXCEPT ![w] = c]
          /\ Store(c, [personid |-> slots[c].personid, eltid |-> req[w]])
    /\ Goto(w, "count")
    /\ UNCHANGED <<req, out, counter, file, arrived, acked, lost>>

(* g_event_counter++ is a load and a store, not one atomic step. *)
Count(w) ==
    /\ pc[w] = "count"
    /\ \E c \in {idx[w], counter} :
          /\ counter' = c + 1
          /\ idx' = [idx EXCEPT ![w] = c + 1]
    /\ Goto(w, "test")
    /\ UNCHANGED <<req, out, slots, file, arrived, acked, lost>>

(* Are we ready to persist now? *)
ReadyToPersist_Early(c) == c + 1 = EVENTS_TO_PERSIST_MAX
ReadyToPersist_Late(c) == c > EVENTS_TO_PERSIST_MAX
ReadyToPersist(c) == c = EVENTS_TO_PERSIST_MAX

Test(w) ==
    /\ pc[w] = "test"
    /\ \E c \in {idx[w], counter} : Goto(w, IF ReadyToPersist(c) THEN "open" ELSE "reply")
    /\ UNCHANGED <<req, idx, out, slots, counter, file, arrived, acked, lost>>

Open(w) ==
    /\ pc[w] = "open"
    /\ out' = [out EXCEPT ![w] = <<>>]
    /\ Goto(w, "write")
    /\ UNCHANGED <<req, idx, slots, counter, file, arrived, acked, lost>>

(* The test of the loop that prints line number i (from 0) of the batch. *)
MoreLines_Short(i) == i + 1 < counter
MoreLines(i) == i < counter

Write(w) ==
    LET i == Len(out[w]) IN
    /\ pc[w] = "write"
    /\ IF MoreLines(i)
       THEN /\ out' = [out EXCEPT ![w] =
                          Append(@, IF i \in Slots THEN slots[i] ELSE NoEvent)]
            /\ UNCHANGED pc
       ELSE /\ Goto(w, "close")
            /\ UNCHANGED out
    /\ UNCHANGED <<req, idx, slots, counter, file, arrived, acked, lost>>

(* The file after lines s are written to it: it is opened with "a", not "w". *)
Appended(s) == file \o s

(* fclose() flushes the batch; neither its result nor fwrite()'s is read. *)
Close(w) ==
    /\ pc[w] = "close"
    /\ \E n \in (IF DiskFull THEN 0..Len(out[w]) ELSE {Len(out[w])}) :
          file' = Appended(SubSeq(out[w], 1, n))
    /\ Goto(w, "reset")
    /\ UNCHANGED <<req, idx, out, slots, counter, arrived, acked, lost>>

Reset_Missing(w) ==
    /\ pc[w] = "reset"
    /\ Goto(w, "reply")
    /\ UNCHANGED <<req, idx, out, slots, counter, file, arrived, acked, lost>>

Reset_MinusOne(w) ==
    /\ pc[w] = "reset"
    /\ counter' = 0 - 1
    /\ Goto(w, "reply")
    /\ UNCHANGED <<req, idx, out, slots, file, arrived, acked, lost>>

Reset(w) ==
    /\ pc[w] = "reset"
    /\ counter' = 0
    /\ Goto(w, "reply")
    /\ UNCHANGED <<req, idx, out, slots, file, arrived, acked, lost>>

Reply(w) ==
    /\ pc[w] = "reply"
    /\ acked' = acked \cup {req[w]}
    /\ Goto(w, "idle")
    /\ UNCHANGED <<req, idx, out, slots, counter, file, arrived, lost>>

(* The process ends and its successor starts with zeroed globals. *)
Restart ==
    /\ pc' = [w \in Workers |-> "idle"]
    /\ req' = [w \in Workers |-> 0]
    /\ idx' = [w \in Workers |-> 0]
    /\ out' = [w \in Workers |-> <<>>]
    /\ slots' = [i \in Slots |-> NoEvent]
    /\ counter' = 0
    /\ lost' = acked \ Ids(file)
    /\ UNCHANGED <<file, arrived, acked>>

(* kill -s KILL by the bemorehuman script, or an exit()/abort() elsewhere. *)
Killed == Restart

(* fopen() of the events file fails: exit(1) in the middle of the request. *)
OpenFails(w) == pc[w] = "open" /\ Restart

Step(w) ==
    \/ StorePerson(w) \/ StoreElt(w) \/ Count(w) \/ Test(w)
    \/ Open(w) \/ Write(w) \/ Close(w) \/ Reset(w) \/ Reply(w)

Next ==
    \/ \E w \in Workers : Accept(w) \/ Reject(w) \/ Step(w) \/ OpenFails(w)
    \/ Killed

(* The scheduler runs every worker that has an instruction to execute. *)
Fairness == \A w \in Workers : WF_vars(Step(w))

Spec == Init /\ [][Next]_vars

FairSpec == Spec /\ Fairness
-----------------------------------------------------------------------------
TypeOK ==
    /\ pc \in [Workers -> Steps]
    /\ req \in [Workers -> 0..MaxRequests]
    /\ idx \in [Workers -> Nat]
    /\ out \in [Workers -> Seq(Event)]
    /\ slots \in [Slots -> Event]
    /\ counter \in Nat
    /\ file \in Seq(Event)
    /\ arrived \in 0..MaxRequests
    /\ acked \subseteq 0..MaxRequests
    /\ lost \subseteq acked

(* The ids in the first counter slots: what the next batch will save. *)
InRam == {slots[i].personid : i \in Slots \cap 0..(counter - 1)}

(***************************************************************************)
(* "how many incoming events to store in RAM before persisting to disk?"   *)
(* (recgen.h:91): never more than EVENTS_TO_PERSIST_MAX are in RAM, and    *)
(* the buffer is full only while some worker is on its way to empty it.    *)
(***************************************************************************)
RamBound == counter <= EVENTS_TO_PERSIST_MAX

FullOnlyWhileFlushing ==
    counter = EVENTS_TO_PERSIST_MAX =>
        \E w \in Workers : pc[w] \in {"test", "open", "write", "close", "reset"}

(* "output: success or failure" (main.c:770): an event answered with "ok"  *)
(* is in the file or still in RAM, or died with a process.                 *)
AckedHeld == acked \subseteq Ids(file) \cup InRam \cup lost

(* What a death can cost: fewer than EVENTS_TO_PERSIST_MAX answered events. *)
AtRisk == acked \ (Ids(file) \cup lost)

LossBound == Cardinality(AtRisk) < EVENTS_TO_PERSIST_MAX

(* No file line mixes the fields of two requests or comes from no request. *)
WholeLines ==
    \A i \in 1..Len(file) :
        file[i].personid = file[i].eltid /\ file[i].personid \in 1..arrived

(* Events are saved once and in the order they were accepted, across every *)
(* batch and every death of the process ("MUST be "a" and not "w"", 847).  *)
OnceInOrder ==
    LET log == file \o Buffered IN
    \A i, j \in 1..Len(log) : i < j => log[i].personid < log[j].personid

(***************************************************************************)
(* The service implements EventLog: the file followed by the buffer is its *)
(* log, the file is the saved part.                                        *)
(***************************************************************************)
Log == INSTANCE EventLog WITH
    Capacity <- EVENTS_TO_PERSIST_MAX,
    Requests <- 1..MaxRequests,
    log      <- file \o Buffered,
    saved    <- Len(file)

ImplementsEventLog == Log!Spec

(* A full buffer is saved and emptied, or the process dies, eventually. *)
FullIsFlushed == counter = EVENTS_TO_PERSIST_MAX ~> counter = 0
=============================================================================
