------------------------- MODULE EventBuffer_proofs -------------------------
(***************************************************************************)
(* Proofs about EventBuffer, for every number of workers, every            *)
(* EVENTS_TO_PERSIST_MAX and every number of requests.                     *)
(***************************************************************************)
EXTENDS EventBuffer, FiniteSetTheorems, TLAPS

(* The use the code is safe under: requests handled one at a time (always  *)
(* so in the hum build, which has one worker), and no failing write.       *)
SerialUse ==
    /\ ~Overlap \/ \A v, w \in Workers : v = w
    /\ ~DiskFull

Full == EVENTS_TO_PERSIST_MAX

Before == {"person", "elt", "count"}           \* event not yet in the buffer
Unsaved == {"test", "open", "write", "close"}  \* in the buffer, in its last slot
Flushing == {"open", "write", "close", "reset"}

InBuffer == 0..(counter - 1)

-----------------------------------------------------------------------------
(* The inductive invariant, in parts. *)

OneBusy == \A v, w \in Workers : pc[v] # "idle" /\ pc[w] # "idle" => v = w

Counted ==
    /\ counter <= Full
    /\ (\A w \in Workers : pc[w] = "idle") => counter < Full
    /\ \A w \in Workers :
          /\ pc[w] \in Before \cup {"reply"} => counter < Full
          /\ pc[w] \in Flushing => counter = Full
          /\ pc[w] \in {"elt", "count", "test"} => idx[w] = counter
          /\ pc[w] \in Unsaved => counter > 0

(* The buffer and the file hold whole events of requests that arrived. *)
WholeEvents ==
    /\ \A j \in InBuffer : slots[j].personid = slots[j].eltid
                        /\ slots[j].personid \in 1..arrived
    /\ WholeLines

(* The file, then the buffer, then the request in hand: always ascending. *)
Ascending ==
    /\ \A i, j \in 1..Len(file) : i < j => file[i].personid < file[j].personid
    /\ \A i, j \in InBuffer : i < j => slots[i].personid < slots[j].personid
    /\ (\A w \in Workers : pc[w] # "reset") =>
          \A i \in 1..Len(file), j \in InBuffer :
              file[i].personid < slots[j].personid
    /\ \A w \in Workers : pc[w] \in Before =>
          /\ \A i \in 1..Len(file) : file[i].personid < req[w]
          /\ \A j \in InBuffer : slots[j].personid < req[w]

(* What a worker has stored, and written, so far. *)
Stored ==
    \A w \in Workers :
       /\ pc[w] # "idle" => req[w] \in 1..arrived
       /\ pc[w] \in {"elt", "count"} => slots[counter].personid = req[w]
       /\ pc[w] = "count" => slots[counter].eltid = req[w]
       /\ pc[w] \in Unsaved => slots[counter - 1].personid = req[w]
       /\ pc[w] \in {"write", "close"} =>
             /\ Len(out[w]) <= counter
             /\ \A i \in 1..Len(out[w]) : out[w][i] = slots[i - 1]
       /\ pc[w] = "close" => Len(out[w]) = counter

(* Answered events are held, and the one in hand is not answered yet. *)
Held ==
    /\ AckedHeld
    /\ acked \subseteq 1..arrived
    /\ \A w \in Workers :
          /\ pc[w] # "idle" => \A a \in acked : a < req[w]
          /\ pc[w] \in {"reset", "reply"} => req[w] \in Ids(file) \cup InRam
          /\ pc[w] = "reset" => InRam \subseteq Ids(file)

IInv == TypeOK /\ OneBusy /\ Counted /\ WholeEvents /\ Ascending /\ Stored /\ Held
-----------------------------------------------------------------------------
LEMMA ConstantFacts ==
    /\ Full \in Nat /\ Full > 0
    /\ MaxRequests \in Nat
    /\ NoEvent \in Event
    /\ EVENTS_TO_PERSIST_MAX = Full
BY EventBufferAssumption DEF NoEvent, Event, Full

(***************************************************************************)
(* Every variable keeps its type, whatever the workers' interleaving and   *)
(* whatever the disk does (the globals of recgen/main.c 45-47 and the      *)
(* locals of event()).                                                     *)
(***************************************************************************)
THEOREM TypeCorrect == Spec => []TypeOK
<1>1. Init => TypeOK
  BY ConstantFacts DEF Init, TypeOK, Steps
<1>2. TypeOK /\ [Next]_vars => TypeOK'
  <2> SUFFICES ASSUME TypeOK, [Next]_vars PROVE TypeOK'
    OBVIOUS
  <2> USE ConstantFacts
  <2>1. ASSUME NEW w \in Workers, Accept(w) PROVE TypeOK'
    BY <2>1 DEF TypeOK, Accept, MayArrive, Goto, Steps
  <2>2. ASSUME NEW w \in Workers, Reject(w) PROVE TypeOK'
    BY <2>2 DEF TypeOK, Reject, MayArrive
  <2>3. ASSUME NEW w \in Workers, StorePerson(w) PROVE TypeOK'
    BY <2>3 DEF TypeOK, StorePerson, Store, Goto, Steps, Event
  <2>4. ASSUME NEW w \in Workers, StoreElt(w) PROVE TypeOK'
    BY <2>4 DEF TypeOK, StoreElt, Store, Goto, Steps, Event
  <2>5. ASSUME NEW w \in Workers, Count(w) PROVE TypeOK'
    BY <2>5 DEF TypeOK, Count, Goto, Steps
  <2>6. ASSUME NEW w \in Workers, Test(w) PROVE TypeOK'
    BY <2>6 DEF TypeOK, Test, ReadyToPersist, Goto, Steps
  <2>7. ASSUME NEW w \in Workers, Open(w) PROVE TypeOK'
    BY <2>7 DEF TypeOK, Open, Goto, Steps
  <2>8. ASSUME NEW w \in Workers, Write(w) PROVE TypeOK'
    <3> DEFINE i == Len(out[w])
               e == IF i \in Slots THEN slots[i] ELSE NoEvent
    <3>1. CASE i < counter
      <4>1. e \in Event
        BY ConstantFacts DEF TypeOK
      <4>2. Append(out[w], e) \in Seq(Event)
        BY <4>1 DEF TypeOK
      <4>3. out' = [out EXCEPT ![w] = Append(out[w], e)] /\ pc' = pc
        BY <2>8, <3>1 DEF Write, MoreLines
      <4> QED
        BY <2>8, <4>2, <4>3 DEF TypeOK, Write, MoreLines
    <3>2. CASE ~(i < counter)
      BY <2>8, <3>2 DEF TypeOK, Write, MoreLines, Goto, Steps
    <3> QED
      BY <3>1, <3>2
  <2>9. ASSUME NEW w \in Workers, Close(w) PROVE TypeOK'
    BY <2>9 DEF TypeOK, Close, Appended, Goto, Steps
  <2>10. ASSUME NEW w \in Workers, Reset(w) PROVE TypeOK'
    BY <2>10 DEF TypeOK, Reset, Goto, Steps
  <2>11. ASSUME NEW w \in Workers, Reply(w) PROVE TypeOK'
    BY <2>11 DEF TypeOK, Reply, Goto, Steps
  <2>12. ASSUME Restart PROVE TypeOK'
    BY <2>12 DEF TypeOK, Restart, Steps
  <2>13. CASE UNCHANGED vars
    BY <2>13 DEF TypeOK, vars
  <2> QED
    BY <2>1, <2>2, <2>3, <2>4, <2>5, <2>6, <2>7, <2>8, <2>9, <2>10, <2>11,
       <2>12, <2>13 DEF Next, Step, OpenFails, Killed
<1> QED
  BY <1>1, <1>2, PTL DEF Spec
-----------------------------------------------------------------------------
(* Used one at a time, the workers other than the busy one are idle. *)
LEMMA OthersIdle ==
    ASSUME IInv, NEW w \in Workers, pc[w] # "idle"
    PROVE  \A v \in Workers : v # w => pc[v] = "idle"
BY DEF IInv, OneBusy

LEMMA InitIInv == Init => IInv
<1> SUFFICES ASSUME Init PROVE IInv
  OBVIOUS
<1>1. counter = 0 /\ file = <<>> /\ acked = {} /\ \A w \in Workers : pc[w] = "idle"
  BY DEF Init
<1>2. TypeOK
  BY ConstantFacts DEF Init, TypeOK, Steps
<1>3. OneBusy /\ Counted
  BY <1>1, ConstantFacts DEF OneBusy, Counted, Before, Flushing, Unsaved
<1>4. WholeEvents /\ Ascending
  BY <1>1 DEF WholeEvents, WholeLines, Ascending, InBuffer, Before
<1>5. Stored /\ Held
  BY <1>1 DEF Stored, Held, AckedHeld, Unsaved
<1> QED
  BY <1>2, <1>3, <1>4, <1>5 DEF IInv

LEMMA AcceptStep ==
    ASSUME SerialUse, IInv, TypeOK', NEW w \in Workers, Accept(w)
    PROVE  IInv'
<1> USE ConstantFacts DEF IInv, Accept, MayArrive, Goto, Before, Unsaved, Flushing, InBuffer
<1>1. \A v \in Workers : pc[v] = "idle" /\ (v # w => pc'[v] = "idle")
  BY DEF SerialUse, TypeOK
<1>2. pc'[w] = "person" /\ req'[w] = arrived + 1 /\ arrived' = arrived + 1
  BY DEF TypeOK
<1>3. OneBusy' /\ Counted'
  BY <1>1, <1>2 DEF OneBusy, Counted, TypeOK
<1>4. WholeEvents'
  BY DEF WholeEvents, WholeLines, TypeOK
<1>5. Ascending'
  BY <1>1, <1>2 DEF Ascending, WholeEvents, WholeLines, TypeOK
<1>6. Stored'
  BY <1>1, <1>2 DEF Stored, TypeOK
<1>7. Held'
  BY <1>1, <1>2 DEF Held, AckedHeld, InRam, Ids, TypeOK
<1> QED
  BY <1>3, <1>4, <1>5, <1>6, <1>7

LEMMA RejectStep ==
    ASSUME IInv, TypeOK', NEW w \in Workers, Reject(w)
    PROVE  IInv'
<1> USE DEF IInv, Reject, InBuffer
<1>1. arrived' = arrived + 1 /\ arrived \in Nat
  BY DEF TypeOK
<1>2. OneBusy' /\ Counted' /\ Ascending'
  BY DEF OneBusy, Counted, Ascending
<1>3. WholeEvents' /\ Stored'
  BY <1>1 DEF WholeEvents, WholeLines, Stored, TypeOK
<1>4. acked \subseteq 1..arrived'
  BY <1>1 DEF Held
<1>5. Held'
  BY <1>4 DEF Held, AckedHeld, InRam, Ids
<1> QED
  BY <1>2, <1>3, <1>5

LEMMA StorePersonStep ==
    ASSUME IInv, TypeOK', NEW w \in Workers, StorePerson(w)
    PROVE  IInv'
<1> USE ConstantFacts DEF IInv, StorePerson, Store, Goto, Before, Unsaved, Flushing, InBuffer
<1>1. \A v \in Workers : v # w => pc[v] = "idle" /\ pc'[v] = "idle"
  BY OthersIdle DEF TypeOK
<1>2. pc'[w] = "elt" /\ idx'[w] = counter
  BY DEF TypeOK
<1>3. counter \in Slots
  BY DEF Counted, TypeOK, Slots, Full
<1>4. slots'[counter].personid = req[w]
  BY <1>3 DEF TypeOK
<1>5. \A j \in Slots : j # counter => slots'[j] = slots[j]
  BY <1>3 DEF TypeOK
<1>6. InBuffer \subseteq Slots /\ counter \notin InBuffer
  BY <1>3 DEF TypeOK, Slots
<1>7. OneBusy' /\ Counted'
  BY <1>1, <1>2 DEF OneBusy, Counted, TypeOK
<1>8. WholeEvents'
  BY <1>5, <1>6 DEF WholeEvents, WholeLines, TypeOK
<1>9. Ascending'
  BY <1>1, <1>2, <1>5, <1>6 DEF Ascending, TypeOK
<1>10. Stored'
  BY <1>1, <1>2, <1>4 DEF Stored, TypeOK
<1>11. InRam' = InRam
  BY <1>5, <1>6 DEF InRam, TypeOK
<1>12. Held'
  BY <1>1, <1>2, <1>11 DEF Held, AckedHeld, Ids, TypeOK
<1> QED
  BY <1>7, <1>8, <1>9, <1>10, <1>12

LEMMA StoreEltStep ==
    ASSUME IInv, TypeOK', NEW w \in Workers, StoreElt(w)
    PROVE  IInv'
<1> USE ConstantFacts DEF IInv, Store, Goto, Before, Unsaved, Flushing, InBuffer
<1>1. \A v \in Workers : v # w => pc[v] = "idle" /\ pc'[v] = "idle"
  BY OthersIdle DEF TypeOK, StoreElt
<1>2. pc[w] = "elt" /\ pc'[w] = "count" /\ idx[w] = counter
  BY DEF TypeOK, StoreElt, Counted
<1>3. counter \in Slots
  BY <1>2 DEF Counted, TypeOK, Slots, Full
<1>4. /\ slots' = [slots EXCEPT ![counter] =
                      [personid |-> slots[counter].personid, eltid |-> req[w]]]
      /\ idx' = [idx EXCEPT ![w] = counter]
  BY <1>2, <1>3 DEF StoreElt
<1>5. slots'[counter].personid = req[w] /\ slots'[counter].eltid = req[w]
  BY <1>2, <1>3, <1>4 DEF TypeOK, Stored
<1>6. InBuffer \subseteq Slots /\ counter \notin InBuffer
  BY <1>3 DEF TypeOK, Slots
<1>7. \A j \in InBuffer : slots'[j] = slots[j]
  BY <1>4, <1>6 DEF TypeOK
<1>8. UNCHANGED <<req, out, counter, file, arrived, acked, lost>>
  BY DEF StoreElt
<1>9. OneBusy' /\ Counted'
  BY <1>1, <1>2, <1>4, <1>8 DEF OneBusy, Counted, TypeOK
<1>10. WholeEvents'
  BY <1>6, <1>7, <1>8 DEF WholeEvents, WholeLines, TypeOK
<1>11. Ascending'
  BY <1>1, <1>2, <1>7, <1>8 DEF Ascending
<1>12. Stored'
  BY <1>1, <1>2, <1>5, <1>8 DEF Stored, TypeOK
<1>13. InRam' = InRam
  BY <1>6, <1>7, <1>8 DEF InRam, TypeOK
<1>14. Held'
  BY <1>1, <1>2, <1>8, <1>13 DEF Held, AckedHeld, Ids, TypeOK
<1> QED
  BY <1>9, <1>10, <1>11, <1>12, <1>14

(* The step that puts the event into the buffer: the slot was complete. *)
LEMMA CountStep ==
    ASSUME IInv, TypeOK', NEW w \in Workers, Count(w)
    PROVE  IInv'
<1> USE ConstantFacts DEF IInv, Goto, Before, Unsaved, Flushing, InBuffer
<1>1. \A v \in Workers : v # w => pc[v] = "idle" /\ pc'[v] = "idle"
  BY OthersIdle DEF TypeOK, Count
<1>2. pc[w] = "count" /\ pc'[w] = "test" /\ idx[w] = counter
  BY DEF TypeOK, Count, Counted
<1>3. counter' = counter + 1 /\ idx' = [idx EXCEPT ![w] = counter + 1]
  BY <1>2 DEF Count
<1>4. UNCHANGED <<req, out, slots, file, arrived, acked, lost>>
  BY DEF Count
<1>5. counter \in Nat /\ counter < Full /\ counter \in Slots
  BY <1>2 DEF Counted, TypeOK, Slots, Full
<1>6. OneBusy' /\ Counted'
  BY <1>1, <1>2, <1>3, <1>5 DEF OneBusy, Counted, TypeOK
<1>7. InBuffer' = InBuffer \cup {counter}
  BY <1>3, <1>5
<1>8. /\ slots[counter].personid = req[w] /\ slots[counter].eltid = req[w]
      /\ req[w] \in 1..arrived
  BY <1>2 DEF Stored
<1>9. WholeEvents'
  BY <1>4, <1>7, <1>8 DEF WholeEvents, WholeLines, TypeOK
<1>10. Ascending'
  <2>1. \A i, j \in 1..Len(file) : i < j => file[i].personid < file[j].personid
    BY DEF Ascending
  <2>2. \A i \in InBuffer : slots[i].personid < slots[counter].personid
    BY <1>2, <1>8 DEF Ascending
  <2>3. \A i, j \in InBuffer' : i < j => slots[i].personid < slots[j].personid
    BY <1>5, <1>7, <2>2 DEF Ascending
  <2>4. \A i \in 1..Len(file), j \in InBuffer' :
           file[i].personid < slots[j].personid
    BY <1>1, <1>2, <1>7, <1>8 DEF Ascending
  <2> QED
    BY <1>1, <1>2, <1>4, <2>1, <2>3, <2>4 DEF Ascending
<1>11. Stored'
  BY <1>1, <1>2, <1>3, <1>4, <1>5, <1>8 DEF Stored, TypeOK
<1>12. InRam' = InRam \cup {req[w]}
  BY <1>4, <1>5, <1>7, <1>8 DEF InRam
<1>13. Held'
  BY <1>1, <1>2, <1>4, <1>12 DEF Held, AckedHeld, Ids, TypeOK
<1> QED
  BY <1>6, <1>9, <1>10, <1>11, <1>13

LEMMA TestStep ==
    ASSUME IInv, TypeOK', NEW w \in Workers, Test(w)
    PROVE  IInv'
<1> USE ConstantFacts DEF IInv, Goto, Before, Unsaved, Flushing, InBuffer
<1>1. \A v \in Workers : v # w => pc[v] = "idle" /\ pc'[v] = "idle"
  BY OthersIdle DEF TypeOK, Test, ReadyToPersist
<1>2. /\ pc[w] = "test" /\ idx[w] = counter
      /\ pc'[w] = IF counter = Full THEN "open" ELSE "reply"
  BY DEF TypeOK, Test, ReadyToPersist, Counted
<1>3. UNCHANGED <<req, idx, out, slots, counter, file, arrived, acked, lost>>
  BY DEF Test, ReadyToPersist
<1>9. counter > 0 /\ (counter = Full \/ counter < Full)
  BY <1>2 DEF Counted, TypeOK
<1>4. OneBusy' /\ Counted'
  BY <1>1, <1>2, <1>3, <1>9 DEF OneBusy, Counted
<1>5. WholeEvents' /\ Ascending'
  BY <1>1, <1>2, <1>3 DEF WholeEvents, WholeLines, Ascending
<1>6. Stored'
  BY <1>1, <1>2, <1>3 DEF Stored
<1>7. req[w] \in InRam
  <2>1. counter - 1 \in Slots \cap 0..(counter - 1)
    BY <1>9 DEF Counted, TypeOK, Slots, Full
  <2> QED
    BY <1>2, <2>1 DEF Stored, InRam
<1>8. Held'
  BY <1>1, <1>2, <1>3, <1>7 DEF Held, AckedHeld, InRam, Ids
<1> QED
  BY <1>4, <1>5, <1>6, <1>8

LEMMA OpenStep ==
    ASSUME IInv, TypeOK', NEW w \in Workers, Open(w)
    PROVE  IInv'
<1> USE ConstantFacts DEF IInv, Open, Goto, Before, Unsaved, Flushing, InBuffer
<1>1. \A v \in Workers : v # w => pc[v] = "idle" /\ pc'[v] = "idle"
  BY OthersIdle DEF TypeOK
<1>2. pc'[w] = "write" /\ out'[w] = <<>>
  BY DEF TypeOK
<1>3. OneBusy' /\ Counted' /\ WholeEvents' /\ Ascending'
  BY <1>1, <1>2 DEF OneBusy, Counted, WholeEvents, WholeLines, Ascending, TypeOK
<1>4. Stored'
  BY <1>1, <1>2 DEF Stored, TypeOK
<1>5. Held'
  BY <1>1, <1>2 DEF Held, AckedHeld, InRam, Ids
<1> QED
  BY <1>3, <1>4, <1>5

LEMMA WriteStep ==
    ASSUME IInv, TypeOK', NEW w \in Workers, Write(w)
    PROVE  IInv'
<1> USE ConstantFacts DEF IInv, Goto, Before, Unsaved, Flushing, InBuffer
<1> DEFINE i == Len(out[w])
<1>1. \A v \in Workers : v # w => pc[v] = "idle" /\ pc'[v] = "idle"
  BY OthersIdle DEF TypeOK, Write, MoreLines
<1>2. pc[w] = "write" /\ counter = Full /\ counter > 0
  BY DEF Write, MoreLines, Counted
<1>3. UNCHANGED <<req, idx, slots, counter, file, arrived, acked, lost>>
  BY DEF Write, MoreLines
<1>4. pc'[w] \in {"write", "close"}
  BY <1>2 DEF TypeOK, Write, MoreLines
<1>5. OneBusy' /\ Counted' /\ WholeEvents' /\ Ascending'
  BY <1>1, <1>2, <1>3, <1>4
     DEF OneBusy, Counted, WholeEvents, WholeLines, Ascending
<1>6. Stored'
  <2>1. out[w] \in Seq(Event) /\ i \in Nat /\ i <= counter
    BY <1>2 DEF TypeOK, Stored
  <2>2. CASE i < counter
    <3>1. i \in Slots
      BY <1>2, <2>1, <2>2 DEF Slots, TypeOK, Full
    <3>2. pc' = pc /\ out' = [out EXCEPT ![w] = Append(out[w], slots[i])]
      BY <2>2, <3>1 DEF Write, MoreLines
    <3>3. out'[w] = Append(out[w], slots[i]) /\ slots[i] \in Event
      BY <3>1, <3>2 DEF TypeOK
    <3>4. Len(out'[w]) = i + 1 /\ \A k \in 1..(i + 1) : out'[w][k] = slots[k - 1]
      BY <1>2, <2>1, <3>3 DEF Stored
    <3> QED
      BY <1>1, <1>2, <1>3, <2>1, <2>2, <3>2, <3>4 DEF Stored, TypeOK
  <2>3. CASE ~(i < counter)
    <3>1. out' = out /\ pc'[w] = "close" /\ i = counter
      BY <1>2, <2>1, <2>3 DEF Write, MoreLines, TypeOK
    <3> QED
      BY <1>1, <1>2, <1>3, <3>1 DEF Stored
  <2> QED
    BY <2>2, <2>3
<1>7. Held'
  BY <1>1, <1>2, <1>3, <1>4 DEF Held, AckedHeld, InRam, Ids
<1> QED
  BY <1>5, <1>6, <1>7

(* The step that saves: the batch is the buffer, every slot of it, in order. *)
LEMMA CloseStep ==
    ASSUME SerialUse, IInv, TypeOK', NEW w \in Workers, Close(w)
    PROVE  IInv'
<1> USE ConstantFacts DEF IInv, Goto, Before, Unsaved, Flushing, InBuffer
<1> DEFINE n == Len(file)
<1>1. \A v \in Workers : v # w => pc[v] = "idle" /\ pc'[v] = "idle"
  BY OthersIdle DEF TypeOK, Close, Appended
<1>2. /\ pc[w] = "close" /\ pc'[w] = "reset"
      /\ counter = Full /\ counter > 0 /\ counter \in Nat
      /\ Len(out[w]) = counter /\ out[w] \in Seq(Event) /\ file \in Seq(Event)
  BY DEF Close, Appended, Counted, Stored, TypeOK
<1>3. UNCHANGED <<req, idx, out, slots, counter, arrived, acked, lost>>
  BY DEF Close, Appended
<1>4. file' = file \o out[w]
  <2>1. file' = file \o SubSeq(out[w], 1, Len(out[w]))
    BY DEF SerialUse, Close, Appended
  <2>2. SubSeq(out[w], 1, Len(out[w])) = out[w]
    BY <1>2
  <2> QED
    BY <2>1, <2>2
<1>5. /\ Len(file') = n + counter
      /\ \A i \in 1..n : file'[i] = file[i]
      /\ \A i \in (n + 1)..(n + counter) :
            i - n - 1 \in InBuffer /\ file'[i] = slots[i - n - 1]
  BY <1>2, <1>4 DEF Stored
<1>6. OneBusy' /\ Counted'
  BY <1>1, <1>2, <1>3 DEF OneBusy, Counted
<1>7. WholeEvents'
  <2>1. \A i \in 1..Len(file') : i \in 1..n \/ i \in (n + 1)..(n + counter)
    BY <1>2, <1>5
  <2> QED
    BY <1>3, <1>5, <2>1 DEF WholeEvents, WholeLines
<1>8. Ascending'
  <2>1. \A i, j \in 1..Len(file') : i < j => file'[i].personid < file'[j].personid
    <3> SUFFICES ASSUME NEW i \in 1..Len(file'), NEW j \in 1..Len(file'), i < j
                 PROVE  file'[i].personid < file'[j].personid
      OBVIOUS
    <3>1. CASE j <= n
      BY <1>2, <1>5, <3>1 DEF Ascending
    <3>2. CASE i <= n /\ j > n
      <4>1. i \in 1..n /\ j - n - 1 \in InBuffer
        BY <1>2, <1>5, <3>2
      <4>2. file[i].personid < slots[j - n - 1].personid
        BY <1>1, <1>2, <4>1 DEF Ascending
      <4> QED
        BY <1>2, <1>5, <3>2, <4>1, <4>2
    <3>3. CASE i > n
      <4>1. i - n - 1 \in InBuffer /\ j - n - 1 \in InBuffer
        BY <1>2, <1>5, <3>3
      <4>2. slots[i - n - 1].personid < slots[j - n - 1].personid
        BY <1>2, <4>1 DEF Ascending
      <4>3. i \in (n + 1)..(n + counter) /\ j \in (n + 1)..(n + counter)
        BY <1>2, <1>5, <3>3
      <4> QED
        BY <1>5, <4>2, <4>3
    <3> QED
      BY <1>2, <3>1, <3>2, <3>3
  <2> QED
    BY <1>1, <1>2, <1>3, <2>1 DEF Ascending
<1>9. Stored'
  BY <1>1, <1>2, <1>3 DEF Stored
<1>10. InRam' = InRam /\ InRam \subseteq Ids(file') /\ Ids(file) \subseteq Ids(file')
  <2>1. \A j \in InBuffer : n + 1 + j \in DOMAIN file' /\ file'[n + 1 + j] = slots[j]
    BY <1>2, <1>4, <1>5
  <2>2. InRam \subseteq Ids(file')
    BY <2>1 DEF InRam, Ids
  <2>3. \A i \in DOMAIN file : i \in DOMAIN file' /\ file'[i] = file[i]
    BY <1>2, <1>4, <1>5
  <2> QED
    BY <1>3, <2>2, <2>3 DEF InRam, Ids
<1>11. req[w] \in InRam
  <2>1. counter - 1 \in Slots \cap 0..(counter - 1)
    BY <1>2 DEF Slots, Full
  <2> QED
    BY <1>2, <2>1 DEF Stored, InRam
<1>12. Held'
  BY <1>1, <1>2, <1>3, <1>10, <1>11 DEF Held, AckedHeld
<1> QED
  BY <1>6, <1>7, <1>8, <1>9, <1>12

LEMMA ResetStep ==
    ASSUME IInv, TypeOK', NEW w \in Workers, Reset(w)
    PROVE  IInv'
<1> USE ConstantFacts DEF IInv, Goto, Before, Unsaved, Flushing, InBuffer
<1>1. \A v \in Workers : v # w => pc[v] = "idle" /\ pc'[v] = "idle"
  BY OthersIdle DEF TypeOK, Reset
<1>2. pc[w] = "reset" /\ pc'[w] = "reply" /\ counter' = 0
  BY DEF Reset, TypeOK
<1>3. UNCHANGED <<req, idx, out, slots, file, arrived, acked, lost>>
  BY DEF Reset
<1>4. OneBusy' /\ Counted' /\ WholeEvents' /\ Ascending'
  BY <1>1, <1>2, <1>3 DEF OneBusy, Counted, WholeEvents, WholeLines, Ascending
<1>5. Stored'
  BY <1>1, <1>2, <1>3 DEF Stored
<1>6. Held'
  BY <1>1, <1>2, <1>3 DEF Held, AckedHeld, Ids
<1> QED
  BY <1>4, <1>5, <1>6

LEMMA ReplyStep ==
    ASSUME IInv, TypeOK', NEW w \in Workers, Reply(w)
    PROVE  IInv'
<1> USE ConstantFacts DEF IInv, Goto, Before, Unsaved, Flushing, InBuffer
<1>1. \A v \in Workers : pc'[v] = "idle"
  BY OthersIdle DEF TypeOK, Reply
<1>2. pc[w] = "reply" /\ acked' = acked \cup {req[w]}
  BY DEF Reply
<1>3. UNCHANGED <<req, idx, out, slots, counter, file, arrived, lost>>
  BY DEF Reply
<1>4. \A v \in Workers : pc[v] # "reset"
  BY <1>2, OthersIdle
<1>5. OneBusy' /\ Counted' /\ WholeEvents' /\ Ascending'
  BY <1>1, <1>2, <1>3, <1>4
     DEF OneBusy, Counted, WholeEvents, WholeLines, Ascending
<1>6. Stored'
  BY <1>1 DEF Stored
<1>7. InRam' = InRam /\ Ids(file)' = Ids(file)
  BY <1>3 DEF InRam, Ids
<1>8. req[w] \in 1..arrived /\ req[w] \in Ids(file) \cup InRam
  BY <1>2 DEF Stored, Held
<1>9. Held'
  BY <1>1, <1>2, <1>3, <1>7, <1>8 DEF Held, AckedHeld
<1> QED
  BY <1>5, <1>6, <1>9

LEMMA RestartStep ==
    ASSUME IInv, TypeOK', Restart
    PROVE  IInv'
<1> USE ConstantFacts DEF IInv, Before, Unsaved, Flushing, InBuffer
<1>1. counter' = 0 /\ \A v \in Workers : pc'[v] = "idle"
  BY DEF Restart
<1>2. lost' = acked \ Ids(file) /\ UNCHANGED <<file, arrived, acked>>
  BY DEF Restart
<1>3. OneBusy' /\ Counted' /\ WholeEvents' /\ Ascending' /\ Stored'
  BY <1>1, <1>2
     DEF OneBusy, Counted, WholeEvents, WholeLines, Ascending, Stored
<1>4. Held'
  BY <1>1, <1>2 DEF Held, AckedHeld, Ids
<1> QED
  BY <1>3, <1>4

-----------------------------------------------------------------------------
(* The invariant holds of every behavior of a service used serially. *)
LEMMA Invariance == ASSUME SerialUse PROVE Spec => []IInv
<1>1. IInv /\ [Next]_vars /\ TypeOK' => IInv'
  <2> SUFFICES ASSUME IInv, [Next]_vars, TypeOK' PROVE IInv'
    OBVIOUS
  <2>1. ASSUME NEW w \in Workers, Accept(w) PROVE IInv'
    BY <2>1, AcceptStep
  <2>2. ASSUME NEW w \in Workers, Reject(w) PROVE IInv'
    BY <2>2, RejectStep
  <2>3. ASSUME NEW w \in Workers, Step(w) PROVE IInv'
    BY <2>3, StorePersonStep, StoreEltStep, CountStep, TestStep, OpenStep,
       WriteStep, CloseStep, ResetStep, ReplyStep DEF Step
  <2>4. ASSUME Restart PROVE IInv'
    BY <2>4, RestartStep
  <2>5. CASE UNCHANGED vars
    <3>1. TypeOK' /\ OneBusy' /\ Counted' /\ WholeEvents'
      BY <2>5 DEF IInv, vars, OneBusy, Counted, WholeEvents, WholeLines, InBuffer
    <3>2. Ascending'
      BY <2>5 DEF IInv, vars, Ascending, InBuffer
    <3>3. Stored'
      BY <2>5 DEF IInv, vars, Stored
    <3>4. Held'
      BY <2>5 DEF IInv, vars, Held, AckedHeld, InRam, Ids
    <3> QED
      BY <3>1, <3>2, <3>3, <3>4 DEF IInv
  <2> QED
    BY <2>1, <2>2, <2>3, <2>4, <2>5 DEF Next, OpenFails, Killed
<1> QED
  BY <1>1, InitIInv, TypeCorrect, PTL DEF Spec

(***************************************************************************)
(* The buffer never holds more than EVENTS_TO_PERSIST_MAX events           *)
(* (recgen.h:91) and is full only while its flush is under way             *)
(* (main.c:842).                                                           *)
(***************************************************************************)
THEOREM BufferIsBounded ==
    ASSUME SerialUse PROVE Spec => [](RamBound /\ FullOnlyWhileFlushing)
<1>1. IInv => RamBound /\ FullOnlyWhileFlushing
  <2> SUFFICES ASSUME IInv PROVE RamBound /\ FullOnlyWhileFlushing
    OBVIOUS
  <2>1. counter <= Full /\ Full \in Nat /\ counter \in Nat
    BY ConstantFacts DEF IInv, Counted, TypeOK
  <2>2. counter = Full => \E w \in Workers : pc[w] \notin Before \cup {"reply", "idle"}
    <3>1. counter = Full => \E w \in Workers : pc[w] # "idle"
      BY <2>1 DEF IInv, Counted
    <3> QED
      BY <2>1, <3>1 DEF IInv, Counted
  <2>3. \A w \in Workers : pc[w] \in Steps
    BY DEF IInv, TypeOK
  <2> QED
    BY <2>1, <2>2, <2>3 DEF RamBound, FullOnlyWhileFlushing, Full, Before, Steps
<1> QED
  BY <1>1, Invariance, PTL

(***************************************************************************)
(* No event answered "ok" is forgotten (main.c:770): it is in the file, in *)
(* the buffer, or died with a process; and one death costs fewer than      *)
(* EVENTS_TO_PERSIST_MAX of them.                                          *)
(***************************************************************************)
THEOREM AnsweredEventsAreHeld ==
    ASSUME SerialUse PROVE Spec => [](AckedHeld /\ LossBound)
<1>1. IInv => AckedHeld
  BY DEF IInv, Held
<1>2. IInv => LossBound
  <2> SUFFICES ASSUME IInv PROVE LossBound
    OBVIOUS
  <2> USE ConstantFacts
  <2>1. AtRisk \subseteq InRam /\ counter <= Full /\ counter \in Nat
    BY DEF IInv, Held, AckedHeld, AtRisk, Counted, TypeOK
  <2> DEFINE Id(j) == slots[j].personid
             Img(k) == {Id(j) : j \in 0..(k - 1)}
  <2>2. ASSUME NEW k \in Nat
        PROVE  IsFiniteSet(Img(k)) /\ Cardinality(Img(k)) <= k
    <3>1. IsFiniteSet(0..(k - 1)) /\ Cardinality(0..(k - 1)) = k
      BY FS_Interval
    <3>2. [j \in 0..(k - 1) |-> Id(j)] \in Surjection(0..(k - 1), Img(k))
      BY DEF Surjection
    <3> QED
      BY <3>1, <3>2, FS_Surjection
  <2>3. \E k \in Nat : k < Full /\ AtRisk \subseteq Img(k)
    <3>1. CASE counter < Full
      <4>1. InRam \subseteq Img(counter)
        BY DEF InRam
      <4> QED
        BY <2>1, <3>1, <4>1
    <3>2. CASE counter = Full
      <4>1. PICK w \in Workers : pc[w] # "idle"
        BY <2>1, <3>2 DEF IInv, Counted
      <4>2. pc[w] \in Unsaved \/ pc[w] = "reset"
        BY <2>1, <3>2, <4>1 DEF IInv, Counted, TypeOK, Before, Unsaved, Steps
      <4>3. CASE pc[w] = "reset"
        <5>1. AtRisk = {}
          BY <2>1, <4>3 DEF IInv, Held, AtRisk
        <5> QED
          BY <5>1
      <4>4. CASE pc[w] \in Unsaved
        <5>1. Id(counter - 1) = req[w] /\ req[w] \notin acked
          BY <4>1, <4>4 DEF IInv, Stored, Held, TypeOK
        <5>2. AtRisk \subseteq Img(counter - 1)
          <6> SUFFICES ASSUME NEW a \in AtRisk PROVE a \in Img(counter - 1)
            OBVIOUS
          <6>1. PICK j \in Slots \cap 0..(counter - 1) : a = Id(j)
            BY <2>1 DEF InRam
          <6>2. j # counter - 1
            BY <5>1, <6>1 DEF AtRisk
          <6>3. j \in 0..(counter - 1 - 1)
            BY <2>1, <6>1, <6>2
          <6> QED
            BY <6>1, <6>3
        <5> QED
          BY <2>1, <3>2, <5>2
      <4> QED
        BY <4>2, <4>3, <4>4
    <3> QED
      BY <2>1, <3>1, <3>2
  <2>4. PICK k \in Nat : k < Full /\ AtRisk \subseteq Img(k)
    BY <2>3
  <2>5. IsFiniteSet(AtRisk) /\ Cardinality(AtRisk) <= Cardinality(Img(k))
    BY <2>2, <2>4, FS_Subset
  <2> HIDE DEF Img
  <2>6. Cardinality(AtRisk) \in Nat /\ Cardinality(Img(k)) \in Nat
    BY <2>2, <2>5, FS_CardinalityType
  <2> QED
    BY <2>2, <2>4, <2>5, <2>6 DEF LossBound, Full
<1> QED
  BY <1>1, <1>2, Invariance, PTL

-----------------------------------------------------------------------------
(* The buffer as a sequence: the first counter slots, none during a reset. *)
Saving == \E w \in Workers : pc[w] = "reset"

BufferShape ==
    /\ file \in Seq(Event) /\ Buffered \in Seq(Event)
    /\ Saving => Buffered = <<>>
    /\ ~Saving => /\ Len(Buffered) = counter
                  /\ \A i \in 1..counter :
                        i - 1 \in InBuffer /\ Buffered[i] = slots[i - 1]

LEMMA BufferedShape == IInv => BufferShape
<1> SUFFICES ASSUME IInv PROVE BufferShape
  OBVIOUS
<1> USE ConstantFacts DEF IInv, BufferShape
<1>1. \A i \in 1..counter : i - 1 \in Slots /\ i - 1 \in InBuffer
  BY DEF Counted, TypeOK, Slots, Full, InBuffer
<1>2. CASE Saving
  BY <1>2 DEF Buffered, Saving, TypeOK
<1>3. CASE ~Saving
  <2>1. Buffered = [i \in 1..counter |-> slots[i - 1]]
    BY <1>1, <1>3 DEF Buffered, Saving
  <2>2. \A i \in 1..counter : slots[i - 1] \in Event
    BY <1>1 DEF TypeOK
  <2> QED
    BY <1>1, <1>3, <2>1, <2>2 DEF TypeOK
<1> QED
  BY <1>2, <1>3

LEMMA BufferedShapeNext == IInv' => BufferShape'
BY BufferedShape, PTL

(***************************************************************************)
(* Every accepted event is written once, whole, and in the order of        *)
(* acceptance, over any number of batches and deaths (main.c:836-869).     *)
(***************************************************************************)
THEOREM EventsAreWholeAndInOrder ==
    ASSUME SerialUse PROVE Spec => [](WholeLines /\ OnceInOrder)
<1>1. IInv => WholeLines
  BY DEF IInv, WholeEvents
<1>2. IInv => OnceInOrder
  <2> SUFFICES ASSUME IInv PROVE OnceInOrder
    OBVIOUS
  <2> DEFINE n == Len(file)
             m == Len(Buffered)
             log == file \o Buffered
  <2>1. /\ n \in Nat /\ m \in Nat /\ Len(log) = n + m
        /\ \A i \in 1..n : log[i] = file[i]
        /\ \A i \in (n + 1)..(n + m) : log[i] = Buffered[i - n]
    BY BufferedShape DEF BufferShape
  <2> SUFFICES ASSUME NEW i \in 1..(n + m), NEW j \in 1..(n + m), i < j
               PROVE  log[i].personid < log[j].personid
    BY <2>1 DEF OnceInOrder
  <2>2. CASE j <= n
    BY <2>1, <2>2 DEF IInv, Ascending
  <2>3. CASE j > n
    <3>1. m # 0 /\ j - n \in 1..m
      BY <2>1, <2>3
    <3>2. ~Saving /\ m = counter
      BY <3>1, BufferedShape DEF BufferShape
    <3>3. log[j] = slots[j - n - 1] /\ j - n - 1 \in InBuffer
      BY <2>1, <2>3, <3>1, <3>2, BufferedShape DEF BufferShape
    <3>4. CASE i <= n
      BY <2>1, <3>2, <3>3, <3>4 DEF IInv, Ascending, Saving
    <3>5. CASE i > n
      <4>1. log[i] = slots[i - n - 1] /\ i - n - 1 \in InBuffer
        BY <2>1, <3>2, <3>5, BufferedShape DEF BufferShape
      <4> QED
        BY <2>1, <3>3, <4>1 DEF IInv, Ascending, InBuffer, TypeOK
    <3> QED
      BY <2>1, <3>4, <3>5
  <2> QED
    BY <2>1, <2>2, <2>3
<1> QED
  BY <1>1, <1>2, Invariance, PTL

(* Two states with the same file and the same buffered events, same log. *)
LEMMA SameBuffered ==
    ASSUME IInv, IInv', Saving' = Saving, counter' = counter,
           \A j \in InBuffer : slots'[j] = slots[j]
    PROVE  Buffered' = Buffered
<1>1. CASE Saving
  BY <1>1, BufferedShape DEF BufferShape, Buffered, Saving
<1>2. CASE ~Saving
  <2>1. \A i \in 1..counter : i - 1 \in Slots /\ i - 1 \in InBuffer
    BY ConstantFacts DEF IInv, Counted, TypeOK, Slots, Full, InBuffer
  <2>2. Buffered = [i \in 1..counter |-> slots[i - 1]]
    BY <1>2, <2>1 DEF Buffered, Saving
  <2>3. Buffered' = [i \in 1..counter |-> slots'[i - 1]]
    BY <1>2, <2>1 DEF Buffered, Saving
  <2> QED
    BY <2>1, <2>2, <2>3
<1> QED
  BY <1>1, <1>2

(* Steps that leave the file and the buffered events alone are stutters. *)
LEMMA LocalStep ==
    ASSUME IInv, IInv', NEW w \in Workers,
           \/ Accept(w) \/ Reject(w) \/ StorePerson(w) \/ StoreElt(w)
           \/ Test(w) \/ Open(w) \/ Write(w) \/ Reply(w)
    PROVE  Buffered' = Buffered /\ file' = file
<1> USE DEF IInv, Goto
<1>1. file' = file /\ counter' = counter
  BY DEF Accept, Reject, StorePerson, StoreElt, Test, ReadyToPersist, Open, Write, MoreLines, Reply
<1>2. Saving' = Saving
  BY DEF Accept, Reject, StorePerson, StoreElt, Test, ReadyToPersist, Open,
         Write, MoreLines, Reply, Saving,
         TypeOK, MayArrive
<1>3. \A j \in InBuffer : slots'[j] = slots[j]
  <2>1. InBuffer \subseteq Slots /\ counter \notin InBuffer
    BY ConstantFacts DEF Counted, TypeOK, Slots, Full, InBuffer
  <2>2. CASE StoreElt(w)
    <3>1. idx[w] = counter
      BY <2>2 DEF StoreElt, Counted
    <3> QED
      BY <2>1, <2>2, <3>1 DEF StoreElt, Store, TypeOK
  <2>3. CASE StorePerson(w)
    BY <2>1, <2>3 DEF StorePerson, Store, TypeOK
  <2> QED
    BY <2>2, <2>3 DEF Accept, Reject, Test, ReadyToPersist, Open, Write, MoreLines, Reply
<1> QED
  BY <1>1, <1>2, <1>3, SameBuffered

(* Counting an event in is EventLog's Record. *)
LEMMA CountRecords ==
    ASSUME IInv, IInv', NEW w \in Workers, Count(w)
    PROVE  Log!Record(req[w])
<1> USE ConstantFacts DEF IInv, Goto
<1>1. /\ pc[w] = "count" /\ idx[w] = counter
      /\ counter < Full /\ counter \in Nat
      /\ slots[counter] = Log!EventOf(req[w])
  <2>1. pc[w] = "count" /\ idx[w] = counter /\ counter < Full /\ counter \in Nat
    BY DEF Count, Counted, TypeOK, Before
  <2>2. slots[counter].personid = req[w] /\ slots[counter].eltid = req[w]
    BY <2>1 DEF Stored
  <2>3. slots[counter] \in Event
    BY <2>1 DEF TypeOK, Slots, Full
  <2> QED
    BY <2>1, <2>2, <2>3 DEF Event, Log!EventOf
<1>2. counter' = counter + 1 /\ slots' = slots /\ file' = file
  BY <1>1 DEF Count
<1>3. ~Saving /\ ~Saving'
  BY <1>1, OthersIdle DEF Saving, Count, TypeOK
<1>4. /\ Len(Buffered) = counter /\ Buffered \in Seq(Event)
      /\ \A i \in 1..counter : Buffered[i] = slots[i - 1]
      /\ file \in Seq(Event)
  BY <1>3, BufferedShape DEF BufferShape
<1>9. /\ Len(Buffered') = counter + 1 /\ Buffered' \in Seq(Event)
      /\ \A i \in 1..(counter + 1) : Buffered'[i] = slots[i - 1]
  BY <1>2, <1>3, BufferedShapeNext DEF BufferShape
<1>5. Buffered' = Append(Buffered, Log!EventOf(req[w]))
  BY <1>1, <1>4, <1>9
<1>6. (file \o Buffered)' = Append(file \o Buffered, Log!EventOf(req[w]))
  BY <1>2, <1>4, <1>5, BufferedShape DEF BufferShape
<1>7. Len(file \o Buffered) - Len(file) < EVENTS_TO_PERSIST_MAX
  BY <1>1, <1>4, BufferedShape DEF BufferShape, Full
<1>8. Log!LaterThan(req[w], file \o Buffered)
  <2>1. /\ \A i \in 1..Len(file) : file[i].personid < req[w]
        /\ \A j \in InBuffer : slots[j].personid < req[w]
    BY <1>1 DEF Ascending, Before
  <2>2. \A i \in 1..counter : i - 1 \in InBuffer
    BY <1>1 DEF InBuffer
  <2> DEFINE n == Len(file)
  <2>3. /\ n \in Nat /\ Len(file \o Buffered) = n + counter
        /\ \A i \in 1..n : (file \o Buffered)[i] = file[i]
        /\ \A i \in (n + 1)..(n + counter) : (file \o Buffered)[i] = slots[i - n - 1]
    BY <1>1, <1>4
  <2>4. \A i \in (n + 1)..(n + counter) : i - n - 1 \in InBuffer
    BY <1>1, <2>3 DEF InBuffer
  <2>5. \A i \in 1..(n + counter) : i \in 1..n \/ i \in (n + 1)..(n + counter)
    BY <1>1, <2>3
  <2> QED
    BY <2>1, <2>3, <2>4, <2>5 DEF Log!LaterThan
<1> QED
  BY <1>2, <1>6, <1>7, <1>8 DEF Log!Record

(* Closing the file is EventLog's Save. *)
LEMMA CloseSaves ==
    ASSUME SerialUse, IInv, IInv', NEW w \in Workers, Close(w)
    PROVE  Log!Save
<1> USE ConstantFacts DEF IInv, Goto
<1>1. /\ pc[w] = "close" /\ counter = Full /\ counter \in Nat
      /\ Len(out[w]) = counter /\ out[w] \in Seq(Event)
      /\ \A i \in 1..counter : out[w][i] = slots[i - 1]
  BY DEF Close, Appended, Counted, Stored, TypeOK, Flushing
<1>2. file' = file \o out[w]
  <2>1. file' = file \o SubSeq(out[w], 1, Len(out[w]))
    BY DEF SerialUse, Close, Appended
  <2>2. SubSeq(out[w], 1, Len(out[w])) = out[w]
    BY <1>1
  <2> QED
    BY <2>1, <2>2
<1>3. ~Saving /\ Saving'
  BY <1>1, OthersIdle DEF Saving, Close, Appended, TypeOK
<1>4. Buffered = out[w] /\ Buffered' = <<>>
  <2>1. /\ Len(Buffered) = counter /\ Buffered \in Seq(Event)
        /\ \A i \in 1..counter : Buffered[i] = slots[i - 1]
    BY <1>3, BufferedShape DEF BufferShape
  <2>2. Buffered = out[w]
    BY <1>1, <2>1
  <2> QED
    BY <1>3, <2>2, BufferedShapeNext DEF BufferShape
<1>5. (file \o Buffered)' = file \o Buffered
  BY <1>1, <1>2, <1>4, BufferedShape DEF BufferShape
<1>6. Len(file \o Buffered) - Len(file) = EVENTS_TO_PERSIST_MAX
  BY <1>1, <1>4, BufferedShape DEF BufferShape, Full
<1>7. Len(file') = Len(file \o Buffered)
  BY <1>2, <1>4
<1> QED
  BY <1>5, <1>6, <1>7 DEF Log!Save

LEMMA RestartLoses == ASSUME IInv, IInv', Restart PROVE Log!Lose
<1>1. Buffered' = <<>> /\ file' = file
  <2>1. counter' = 0 /\ file' = file
    BY DEF Restart
  <2> QED
    BY <2>1, BufferedShapeNext DEF BufferShape
<1>2. file \in Seq(Event) /\ Buffered \in Seq(Event)
  BY BufferedShape DEF BufferShape
<1>3. (file \o Buffered)' = SubSeq(file \o Buffered, 1, Len(file))
  BY <1>1, <1>2
<1> QED
  BY <1>1, <1>3 DEF Log!Lose

LEMMA ResetStutters ==
    ASSUME IInv, IInv', NEW w \in Workers, Reset(w)
    PROVE  Buffered' = Buffered /\ file' = file
<1>1. Saving /\ counter' = 0 /\ file' = file
  BY DEF Reset, Saving
<1>2. Buffered = <<>>
  BY <1>1, BufferedShape DEF BufferShape
<1>3. Buffered' = <<>>
  BY <1>1, BufferedShapeNext DEF BufferShape
<1> QED
  BY <1>1, <1>2, <1>3

(***************************************************************************)
(* Used serially, the event service implements EventLog: all that its      *)
(* callers and the script can observe is one ordered log, saved a full     *)
(* batch at a time, that loses only its unsaved end when the process dies. *)
(***************************************************************************)
THEOREM ServiceImplementsEventLog ==
    ASSUME SerialUse PROVE Spec => ImplementsEventLog
<1>1. Init => Log!Init
  <2> SUFFICES ASSUME Init PROVE Log!Init
    OBVIOUS
  <2>1. file = <<>> /\ Buffered = <<>>
    BY InitIInv, BufferedShape DEF BufferShape, Init
  <2> QED
    BY <2>1 DEF Log!Init
<1>2. IInv /\ IInv' /\ [Next]_vars => [Log!Next]_(Log!logVars)
  <2> SUFFICES ASSUME IInv, IInv', [Next]_vars PROVE [Log!Next]_(Log!logVars)
    OBVIOUS
  <2>1. ASSUME Buffered' = Buffered, file' = file
        PROVE  UNCHANGED Log!logVars
    BY <2>1 DEF Log!logVars
  <2>2. ASSUME NEW w \in Workers, Accept(w) \/ Reject(w) \/ Step(w)
        PROVE  [Log!Next]_(Log!logVars)
    <3>1. CASE Count(w)
      <4>1. req[w] \in 1..MaxRequests
        BY <3>1, ConstantFacts DEF IInv, Stored, TypeOK, Count
      <4> QED
        BY <3>1, <4>1, CountRecords DEF Log!Next
    <3>2. CASE Close(w)
      BY <3>2, CloseSaves DEF Log!Next
    <3>3. CASE Reset(w)
      BY <2>1, <3>3, ResetStutters
    <3> QED
      BY <2>1, <2>2, <3>1, <3>2, <3>3, LocalStep DEF Step
  <2>3. CASE Restart
    BY <2>3, RestartLoses DEF Log!Next
  <2>4. CASE UNCHANGED vars
    <3>1. Buffered' = Buffered /\ file' = file
      BY <2>4 DEF vars, Buffered
    <3> QED
      BY <2>1, <3>1
  <2> QED
    BY <2>2, <2>3, <2>4 DEF Next, OpenFails, Killed
<1> QED
  BY <1>1, <1>2, Invariance, PTL DEF Spec, ImplementsEventLog, Log!Spec
=============================================================================
