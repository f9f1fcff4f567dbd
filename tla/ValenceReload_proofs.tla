------------------------ MODULE ValenceReload_proofs ------------------------
(***************************************************************************)
(* Proofs about ValenceReload, for every set of threads and every number   *)
(* of passes of the script.                                                *)
(***************************************************************************)
EXTENDS ValenceReload, TLAPS

-----------------------------------------------------------------------------
(* The inductive invariants, in parts. *)

(* The steps from which a handler still has part p to load. *)
ToLoad(p) ==
    CASE p = "ncv" -> {"log", "raise", "ncv"}
      [] p = "so"  -> {"log", "raise", "ncv", "free_beast", "so"}
      [] p = "bb"  -> {"log", "raise", "ncv", "free_beast", "so", "bb"}
      [] p = "ds"  -> {"log", "raise", "ncv", "free_beast", "so", "bb", "ds"}
      [] p = "ratings" ->
            {"log", "raise", "ncv", "free_beast", "so", "bb", "ds",
             "free_ratings", "ratings"}
      [] p = "pop" ->
            {"log", "raise", "ncv", "free_beast", "so", "bb", "ds",
             "free_ratings", "ratings", "free_pop", "pop"}

(* Outside a pass the files are those of the last pass. *)
FilesCurrent == ~writing => \A p \in Parts : disk[p] = gen

(* Whatever a reload has not replaced yet, some handler will. *)
CurrentOrToLoad ==
    alive /\ ~writing /\ ~pending =>
        \A p \in Parts : mem[p] = gen \/ \E t \in Threads : reload[t] \in ToLoad(p)

(* The steps at which part p is freed and not yet loaded. *)
Filling(p) ==
    CASE p = "ncv" -> {}
      [] p = "so"  -> {}
      [] p = "bb"  -> {"so", "bb"}
      [] p = "ds"  -> {"so", "bb", "ds"}
      [] p = "ratings" -> {"ratings"}
      [] p = "pop" -> {"pop"}

WholeOrFilling ==
    alive => \A p \in Parts : mem[p] # 0 \/ \E t \in Threads : reload[t] \in Filling(p)

(* The uses in which two handlers never run at the same time. *)
OneAtATime == Patient \/ \A s, t \in Threads : s = t

OneReload ==
    /\ \A s, t \in Threads : reload[s] # "off" /\ reload[t] # "off" => s = t
    /\ Patient /\ (writing \/ pending) => \A t \in Threads : reload[t] = "off"
    /\ Patient /\ writing => ~pending

FlagUp == \A t \in Threads : reload[t] \notin {"off", "log", "raise"} => flag

(* With Patient and Quiet, no request is past the wait loop during a reload. *)
NoneInHand ==
    /\ pending \/ (\E t \in Threads : reload[t] \in {"log", "raise"}) =>
          \A w \in Workers : pc[w] = "idle"
    /\ (\E t \in Threads : reload[t] # "off") =>
          \A w \in Workers : pc[w] \in {"idle", "wait"}

(* From predictions()'s leashes to the serializer's last look through its own. *)
InPredictions == {"pcr", "tally", "rank", "serialize", "show"}

PointersHeld ==
    /\ alive /\ (\A t \in Threads :
                    reload[t] \notin {"ratings", "free_pop", "pop", "leash"}) =>
          <<Main, "ratings">> \in leashed
    /\ \A w \in Workers :
          alive /\ pc[w] \in InPredictions =>
             \A p \in {"bb", "ds", "pop"} : <<w, p>> \in leashed
-----------------------------------------------------------------------------
(* Types. *)

USE ValenceReloadAssumption

LEMMA AllOff ==
  /\ [t \in Threads |-> "off"] \in [Threads -> ReloadSteps]
  /\ [w \in Workers |-> "idle"] \in [Workers -> RequestSteps]
  BY DEF ReloadSteps, RequestSteps

LEMMA AllParts == \A g \in Generations : [p \in Parts |-> g] \in [Parts -> Generations]
  OBVIOUS

LEMMA InitType == Init => TypeOK
<1> SUFFICES ASSUME Init PROVE TypeOK
  OBVIOUS
<1>1. leashed \subseteq ({Main} \cup Workers) \X Parts
  BY DEF Init, Parts
<1>2. disk \in [Parts -> Generations] /\ mem \in [Parts -> Generations]
  BY AllParts DEF Init, Generations
<1>3. reload \in [Threads -> ReloadSteps] /\ pc \in [Workers -> RequestSteps]
  BY AllOff DEF Init
<1>4. mem["ncv"] # 0 /\ mem["so"] # 0
  BY DEF Init, Parts
<1>5. gen \in 1..MaxGeneration /\ pcr \in Generations
  BY DEF Init, Generations
<1> QED
  BY <1>1, <1>2, <1>3, <1>4, <1>5 DEF Init, TypeOK

LEMMA IdleType ==
  ASSUME Idle
  PROVE  /\ pcr' \in Generations
         /\ flag' \in BOOLEAN /\ pending' \in BOOLEAN
         /\ reload' \in [Threads -> ReloadSteps]
         /\ pc' \in [Workers -> RequestSteps]
<1>1. reload' \in [Threads -> ReloadSteps] /\ pc' \in [Workers -> RequestSteps]
  BY AllOff DEF Idle
<1>2. pcr' = 0 /\ flag' = FALSE /\ pending' = FALSE
  BY DEF Idle
<1>3. 0 \in Generations
  BY DEF Generations
<1> QED
  BY <1>1, <1>2, <1>3

LEMMA DieType == TypeOK /\ Die => TypeOK'
<1> SUFFICES ASSUME TypeOK, Die PROVE TypeOK'
  OBVIOUS
<1>1. mem' \in [Parts -> Generations]
  BY AllParts DEF Die, Generations
<1>2. leashed' \subseteq ({Main} \cup Workers) \X Parts
  BY DEF Die
<1>3. Idle /\ alive' = FALSE /\ UNCHANGED <<gen, disk, writing>>
  BY DEF Die, scriptVars
<1> QED
  BY <1>1, <1>2, <1>3, IdleType DEF TypeOK

LEMMA FreshType ==
  ASSUME TypeOK, Fresh
  PROVE  /\ mem' \in [Parts -> Generations]
         /\ leashed' \subseteq ({Main} \cup Workers) \X Parts
         /\ alive'
         /\ \A p \in Parts : mem'[p] = gen /\ mem'[p] # 0
<1>1. gen \in 1..MaxGeneration /\ gen \in Generations
  BY DEF TypeOK, Generations
<1>2. mem' \in [Parts -> Generations]
  BY <1>1, AllParts DEF Fresh
<1>3. leashed' \subseteq ({Main} \cup Workers) \X Parts
  BY DEF Fresh, Parts
<1> QED
  BY <1>1, <1>2, <1>3 DEF Fresh

LEMMA ScriptType ==
  ASSUME TypeOK,
         BeginPass \/ Signal \/ StartRecgen \/ \E p \in Parts : Truncate(p) \/ Complete(p)
  PROVE  TypeOK'
<1>1. CASE BeginPass
  BY <1>1 DEF TypeOK, BeginPass, processVars, Generations
<1>2. CASE Signal
  BY <1>2 DEF TypeOK, Signal
<1>3. CASE StartRecgen
  <2>1. Fresh /\ Idle /\ writing' = FALSE /\ UNCHANGED <<gen, disk>>
    BY <1>3 DEF StartRecgen
  <2>2. alive' = TRUE /\ mem'["ncv"] # 0 /\ mem'["so"] # 0
    BY <2>1, FreshType DEF Fresh, Parts
  <2> QED
    BY <2>1, <2>2, FreshType, IdleType DEF TypeOK
<1>4. CASE \E p \in Parts : Truncate(p)
  BY <1>4 DEF TypeOK, Truncate, processVars, Generations
<1>5. CASE \E p \in Parts : Complete(p)
  BY <1>5 DEF TypeOK, Complete, processVars, Generations
<1> QED  BY <1>1, <1>2, <1>3, <1>4, <1>5

LEMMA AfterType == \A step \in ReloadSteps : After(step) \in ReloadSteps
  BY DEF After, Order, ReloadSteps

(* A step of a handler moves one thread to the next step. *)
LEMMA HandlerAtType ==
  ASSUME TypeOK, NEW t \in Threads, NEW step \in ReloadSteps, HandlerAt(t, step)
  PROVE  reload' \in [Threads -> ReloadSteps]
  BY AfterType DEF HandlerAt, TypeOK

LEMMA HandlerType ==
  ASSUME TypeOK, NEW t \in Threads, Deliver(t) \/ Handler(t)
  PROVE  TypeOK'
<1> USE DEF scriptVars
<1>1. CASE Deliver(t)
  BY <1>1, HandlerAtType DEF TypeOK, Deliver, ReloadSteps
<1>2. CASE Log(t)
  BY <1>2, HandlerAtType DEF TypeOK, Log, ReloadSteps
<1>3. CASE RaiseFlag(t)
  BY <1>3, HandlerAtType DEF TypeOK, RaiseFlag, ReloadSteps
<1>4. ASSUME NEW p \in {"ncv", "so"}, LoadTable(t, p)
      PROVE  TypeOK'
  <2>1. CASE Die
    BY <2>1, DieType
  <2>2. CASE ~Die
    BY <1>4, <2>2, HandlerAtType DEF TypeOK, LoadTable, ReloadSteps, Parts, Generations
  <2> QED  BY <2>1, <2>2
<1>5. ASSUME NEW blocks, NEW step \in ReloadSteps, Free(t, blocks, step),
             "ncv" \notin blocks, "so" \notin blocks
      PROVE  TypeOK'
  BY <1>5, HandlerAtType DEF TypeOK, Free, Parts, Generations
<1>6. ASSUME NEW p \in {"bb", "ds", "ratings", "pop"}, Load(t, p)
      PROVE  TypeOK'
  <2>1. CASE Die
    BY <2>1, DieType
  <2>2. CASE ~Die
    BY <1>6, <2>2, HandlerAtType DEF TypeOK, Load, ReloadSteps, Parts, Generations
  <2> QED  BY <2>1, <2>2
<1>7. CASE Leash(t)
  BY <1>7, HandlerAtType DEF TypeOK, Leash, ReloadSteps, Parts
<1>8. CASE LowerFlag(t)
  BY <1>8, HandlerAtType DEF TypeOK, LowerFlag, ReloadSteps
<1> QED
  BY <1>1, <1>2, <1>3, <1>4, <1>5, <1>6, <1>7, <1>8 DEF Handler, ReloadSteps

LEMMA RequestType ==
  ASSUME TypeOK, NEW w \in Workers, Accept(w) \/ Serve(w)
  PROVE  TypeOK'
<1> USE DEF scriptVars, RequestAt, RequestSteps, TypeOK
<1>1. CASE Accept(w)
  BY <1>1 DEF Accept
<1>2. CASE \/ StopWaiting(w) \/ CopyRatings(w) \/ Tally(w) \/ Rank(w)
           \/ Show(w)
  BY <1>2 DEF StopWaiting, CopyRatings, Tally, Rank, Show
<1>3. CASE TakeLeashes(w) \/ Serialize(w)
  BY <1>3 DEF TakeLeashes, Serialize, Parts
<1>4. CASE CreatePcrs(w)
  BY <1>4 DEF CreatePcrs, Parts
<1>5. CASE Reply(w)
  BY <1>5 DEF Reply
<1> QED  BY <1>1, <1>2, <1>3, <1>4, <1>5 DEF Serve

LEMMA NextType == TypeOK /\ [Next]_vars => TypeOK'
<1> SUFFICES ASSUME TypeOK, [Next]_vars PROVE TypeOK'
  OBVIOUS
<1>1. CASE UNCHANGED vars
  BY <1>1 DEF vars, TypeOK
<1> QED
  BY <1>1, ScriptType, HandlerType, RequestType DEF Next

(***************************************************************************)
(* Every variable keeps its type in every behavior; the tables that are    *)
(* never freed hold some generation as long as recgen lives.               *)
(***************************************************************************)
THEOREM ReloadTypeCorrect == Spec => []TypeOK
  BY InitType, NextType, PTL DEF Spec

-----------------------------------------------------------------------------
(* No reload is lost. *)

LEMMA FilesCurrentKept ==
  ASSUME TypeOK, FilesCurrent, [Next]_vars
  PROVE  FilesCurrent'
<1> USE DEF FilesCurrent, scriptVars
<1>1. CASE UNCHANGED <<gen, disk, writing>>
  BY <1>1
<1>2. CASE BeginPass
  BY <1>2 DEF BeginPass
<1>3. CASE Signal \/ StartRecgen
  BY <1>3 DEF Signal, StartRecgen, Published
<1>4. ASSUME NEW p \in Parts, Truncate(p) \/ Complete(p) PROVE FilesCurrent'
  BY <1>4 DEF Truncate, Complete
<1>5. ASSUME NEW t \in Threads, Deliver(t) \/ Handler(t)
      PROVE  UNCHANGED <<gen, disk, writing>>
  BY <1>5 DEF Deliver, Handler, Log, RaiseFlag, LoadTable, Free, Load, Die,
     Leash, LowerFlag
<1>6. ASSUME NEW w \in Workers, Accept(w) \/ Serve(w)
      PROVE  UNCHANGED <<gen, disk, writing>>
  BY <1>6 DEF Accept, Serve, StopWaiting, CopyRatings, TakeLeashes, CreatePcrs,
     Tally, Rank, Serialize, Show, Reply
<1>7. UNCHANGED vars => UNCHANGED <<gen, disk, writing>>
  BY DEF vars
<1> QED
  BY <1>1, <1>2, <1>3, <1>4, <1>5, <1>6, <1>7 DEF Next

(* A handler passes a part only by loading it. *)
LEMMA OrderLoads ==
  \A p \in Parts, step \in ReloadSteps \ {"off"} :
     step # p => After(step) \in ToLoad(p) \/ step \notin ToLoad(p)
  BY DEF Parts, ReloadSteps, After, Order, ToLoad

LEMMA HandlerKeepsCurrent ==
  ASSUME TypeOK, FilesCurrent, CurrentOrToLoad,
         NEW t \in Threads, NEW step \in ReloadSteps \ {"off"}, HandlerAt(t, step),
         UNCHANGED <<gen, writing, pending, alive>>,
         \A p \in Parts :
            \/ After(step) \in ToLoad(p)
            \/ mem'[p] = mem[p] /\ step # p
            \/ ~writing => mem'[p] = disk[p]
  PROVE  CurrentOrToLoad'
<1> SUFFICES ASSUME alive, ~writing, ~pending, NEW p \in Parts
             PROVE  mem'[p] = gen \/ \E s \in Threads : reload'[s] \in ToLoad(p)
  BY DEF CurrentOrToLoad
<1>1. reload[t] = step /\ reload'[t] = After(step)
  BY DEF HandlerAt, TypeOK
<1>2. \A s \in Threads : s # t => reload'[s] = reload[s]
  BY DEF HandlerAt, TypeOK
<1>3. disk[p] = gen
  BY DEF FilesCurrent
<1>4. mem[p] = gen \/ \E s \in Threads : reload[s] \in ToLoad(p)
  BY DEF CurrentOrToLoad
<1> QED
  BY <1>1, <1>2, <1>3, <1>4, OrderLoads

LEMMA CurrentKept ==
  ASSUME TypeOK, FilesCurrent, CurrentOrToLoad, [Next]_vars
  PROVE  CurrentOrToLoad'
<1> USE DEF scriptVars
<1>1. CASE UNCHANGED <<gen, writing, alive, mem, pending, reload>>
  BY <1>1 DEF CurrentOrToLoad
<1>2. CASE BeginPass
  BY <1>2 DEF BeginPass, CurrentOrToLoad
<1>3. CASE Signal
  BY <1>3 DEF Signal, CurrentOrToLoad
<1>4. CASE StartRecgen
  <2>1. \A p \in Parts : mem'[p] = gen'
    BY <1>4, FreshType DEF StartRecgen
  <2> QED
    BY <2>1 DEF CurrentOrToLoad
<1>5. ASSUME NEW p \in Parts, Truncate(p) \/ Complete(p) PROVE CurrentOrToLoad'
  BY <1>5 DEF Truncate, Complete, processVars, CurrentOrToLoad
<1>6. ASSUME NEW t \in Threads, Deliver(t) PROVE CurrentOrToLoad'
  <2>1. reload'[t] = "log"
    BY <1>6 DEF Deliver, HandlerAt, TypeOK, After, Order
  <2>2. \A p \in Parts : "log" \in ToLoad(p)
    BY DEF Parts, ToLoad
  <2> QED
    BY <2>1, <2>2 DEF CurrentOrToLoad
<1>7. CASE Die
  BY <1>7 DEF Die, CurrentOrToLoad
<1>8. ASSUME NEW t \in Threads, Handler(t), ~Die PROVE CurrentOrToLoad'
  <2>1. CASE Log(t) \/ RaiseFlag(t) \/ Leash(t) \/ LowerFlag(t)
    <3>1. PICK step \in {"log", "raise", "leash", "lower"} : HandlerAt(t, step)
      BY <2>1 DEF Log, RaiseFlag, Leash, LowerFlag
    <3>2. UNCHANGED <<gen, writing, pending, alive, mem>>
      BY <2>1 DEF Log, RaiseFlag, Leash, LowerFlag
    <3>3. step \in ReloadSteps \ {"off"} /\ \A p \in Parts : step # p
      BY DEF ReloadSteps, Parts
    <3> QED
      BY <3>1, <3>2, <3>3, HandlerKeepsCurrent
  <2>2. ASSUME NEW q \in Parts, LoadTable(t, q) \/ Load(t, q) PROVE CurrentOrToLoad'
    <3>1. HandlerAt(t, q) /\ UNCHANGED <<gen, writing, pending, alive>>
      BY <1>8, <2>2 DEF LoadTable, Load
    <3>2. \A p \in Parts : p # q => mem'[p] = mem[p]
      BY <1>8, <2>2 DEF LoadTable, Load, TypeOK
    <3>3. ~writing => disk[q] # 0
      BY DEF FilesCurrent, TypeOK
    <3>4. ~writing => mem'[q] = disk[q]
      BY <1>8, <2>2, <3>3 DEF LoadTable, Load, TypeOK
    <3>5. q \in ReloadSteps \ {"off"}
      BY DEF ReloadSteps, Parts
    <3> QED
      BY <3>1, <3>2, <3>4, <3>5, HandlerKeepsCurrent
  <2>3. ASSUME NEW step \in {"free_beast", "free_ratings", "free_pop"},
               NEW blocks, Free(t, blocks, step),
               \A p \in Parts : p \in blocks => After(step) \in ToLoad(p)
        PROVE  CurrentOrToLoad'
    <3>1. HandlerAt(t, step) /\ UNCHANGED <<gen, writing, pending, alive>>
      BY <2>3 DEF Free
    <3>2. \A p \in Parts : p \notin blocks => mem'[p] = mem[p]
      BY <2>3 DEF Free
    <3>3. step \in ReloadSteps \ {"off"} /\ \A p \in Parts : step # p
      BY DEF ReloadSteps, Parts
    <3> QED
      BY <2>3, <3>1, <3>2, <3>3, HandlerKeepsCurrent
  <2>4. /\ \A p \in {"bb", "ds"} : After("free_beast") \in ToLoad(p)
        /\ After("free_ratings") \in ToLoad("ratings")
        /\ After("free_pop") \in ToLoad("pop")
    BY DEF After, Order, ToLoad
  <2> QED
    BY <1>8, <2>1, <2>2, <2>3, <2>4 DEF Handler, Parts
<1>9. ASSUME NEW w \in Workers, Accept(w) \/ Serve(w) PROVE CurrentOrToLoad'
  BY <1>1, <1>9 DEF Accept, Serve, StopWaiting, CopyRatings, TakeLeashes, CreatePcrs,
     Tally, Rank, Serialize, Show, Reply
<1>10. UNCHANGED vars => UNCHANGED <<gen, writing, alive, mem, pending, reload>>
  BY DEF vars
<1> QED
  BY <1>1, <1>2, <1>3, <1>4, <1>5, <1>6, <1>7, <1>8, <1>9, <1>10 DEF Next

(***************************************************************************)
(* However signals merge, handlers overlap and files change under them:    *)
(* when every handler is done and no pass is under way, all that recgen    *)
(* holds is of the last generation.                                        *)
(***************************************************************************)
THEOREM NoReloadIsLost == Spec => []SettledIsCurrent
<1> DEFINE Inv == TypeOK /\ FilesCurrent /\ CurrentOrToLoad
<1>1. Init => Inv
  <2>1. Init => \A p \in Parts : disk[p] = gen /\ mem[p] = gen
    BY DEF Init
  <2> QED
    BY <2>1, InitType DEF FilesCurrent, CurrentOrToLoad
<1>2. Inv /\ [Next]_vars => Inv'
  BY NextType, FilesCurrentKept, CurrentKept
<1>3. Inv => SettledIsCurrent
  <2>1. \A p \in Parts : "off" \notin ToLoad(p)
    BY DEF Parts, ToLoad
  <2> QED
    BY <2>1 DEF CurrentOrToLoad, SettledIsCurrent, Settled, Reloading
<1> QED
  BY <1>1, <1>2, <1>3, PTL DEF Spec

-----------------------------------------------------------------------------
(* The flag covers a reload. *)

(* Every step of a handler is a HandlerAt of the step it stands at, or a death. *)
LEMMA HandlerMoves ==
  ASSUME NEW t \in Threads, Handler(t), ~Die
  PROVE  \E step \in ReloadSteps \ {"off"} : HandlerAt(t, step)
  BY DEF Handler, Log, RaiseFlag, LoadTable, Free, Load, Leash, LowerFlag, ReloadSteps

LEMMA HandlerFrame ==
  ASSUME NEW t \in Threads, Handler(t), ~Die
  PROVE  UNCHANGED <<gen, disk, writing, alive, pcr, pending, pc>>
  BY DEF Handler, Log, RaiseFlag, LoadTable, Free, Load, Leash, LowerFlag, scriptVars

LEMMA RequestFrame ==
  ASSUME NEW w \in Workers, Accept(w) \/ Serve(w)
  PROVE  UNCHANGED <<gen, disk, writing, alive, mem, flag, pending, reload>>
  BY DEF Accept, Serve, StopWaiting, CopyRatings, TakeLeashes, CreatePcrs,
     Tally, Rank, Serialize, Show, Reply, scriptVars

LEMMA IdleOff == Idle => /\ \A t \in Threads : reload'[t] = "off"
                         /\ \A w \in Workers : pc'[w] = "idle"
                         /\ ~pending'
  BY DEF Idle

LEMMA OneReloadKept ==
  ASSUME OneAtATime, TypeOK, OneReload, [Next]_vars
  PROVE  OneReload'
<1> USE DEF OneReload
<1>1. CASE UNCHANGED <<writing, pending, reload>>
  BY <1>1
<1>2. CASE BeginPass
  BY <1>2 DEF BeginPass, processVars, Settled, Reloading
<1>3. CASE Signal
  BY <1>3 DEF Signal, Published
<1>4. CASE Idle
  BY <1>4, IdleOff
<1>5. ASSUME NEW t \in Threads, Deliver(t) PROVE OneReload'
  <2>1. \A s \in Threads : s # t => reload'[s] = reload[s]
    BY <1>5 DEF Deliver, HandlerAt, TypeOK
  <2>2. UNCHANGED writing /\ pending /\ ~pending'
    BY <1>5 DEF Deliver, scriptVars
  <2> QED
    BY <2>1, <2>2 DEF OneAtATime
<1>6. ASSUME NEW t \in Threads, Handler(t), ~Die PROVE OneReload'
  <2>1. PICK step \in ReloadSteps \ {"off"} : HandlerAt(t, step)
    BY <1>6, HandlerMoves
  <2>2. reload[t] # "off" /\ \A s \in Threads : s # t => reload'[s] = reload[s]
    BY <2>1 DEF HandlerAt, TypeOK
  <2>3. UNCHANGED <<writing, pending>>
    BY <1>6, HandlerFrame
  <2> QED
    BY <2>2, <2>3
<1>7. \A p \in Parts : Truncate(p) \/ Complete(p) => UNCHANGED <<writing, pending, reload>>
  BY DEF Truncate, Complete, processVars
<1>8. StartRecgen \/ Die => Idle
  BY DEF StartRecgen, Die
<1>9. UNCHANGED vars => UNCHANGED <<writing, pending, reload>>
  BY DEF vars
<1> QED
  BY <1>1, <1>2, <1>3, <1>4, <1>5, <1>6, <1>7, <1>8, <1>9, RequestFrame DEF Next

LEMMA FlagUpKept ==
  ASSUME TypeOK, OneReload, FlagUp, [Next]_vars
  PROVE  FlagUp'
<1> USE DEF FlagUp
<1>1. CASE UNCHANGED <<flag, reload>>
  BY <1>1
<1>2. CASE Idle
  BY <1>2, IdleOff
<1>3. ASSUME NEW t \in Threads, NEW step \in {"off", "log"}, HandlerAt(t, step),
             UNCHANGED flag
      PROVE  FlagUp'
  BY <1>3 DEF HandlerAt, TypeOK, After, Order
<1>4. ASSUME NEW t \in Threads, RaiseFlag(t) PROVE FlagUp'
  BY <1>4 DEF RaiseFlag
<1>5. ASSUME NEW t \in Threads, LowerFlag(t) PROVE FlagUp'
  BY <1>5 DEF LowerFlag, HandlerAt, OneReload, TypeOK, After, Order
<1>6. ASSUME NEW t \in Threads, NEW step \in ReloadSteps \ {"off", "log", "raise"},
             HandlerAt(t, step), UNCHANGED flag
      PROVE  FlagUp'
  BY <1>6 DEF HandlerAt, TypeOK
<1>7. ASSUME NEW t \in Threads, Deliver(t) \/ Handler(t), ~Die PROVE FlagUp'
  <2>1. CASE Deliver(t) \/ Log(t)
    BY <1>3, <2>1 DEF Deliver, Log
  <2>2. CASE \/ \E p \in {"ncv", "so"} : LoadTable(t, p)
             \/ \E p \in {"bb", "ds", "ratings", "pop"} : Load(t, p)
             \/ \E blocks : \E step \in {"free_beast", "free_ratings", "free_pop"} :
                   Free(t, blocks, step)
             \/ Leash(t)
    BY <1>6, <1>7, <2>2 DEF LoadTable, Load, Free, Leash, ReloadSteps
  <2> QED
    BY <1>4, <1>5, <1>7, <2>1, <2>2 DEF Handler
<1>8. BeginPass \/ Signal \/ (\E p \in Parts : Truncate(p) \/ Complete(p))
        => UNCHANGED <<flag, reload>>
  BY DEF BeginPass, Signal, Truncate, Complete, processVars
<1>9. StartRecgen \/ Die => Idle
  BY DEF StartRecgen, Die
<1>10. UNCHANGED vars => UNCHANGED <<flag, reload>>
  BY DEF vars
<1> QED
  BY <1>1, <1>2, <1>4, <1>7, <1>8, <1>9, <1>10, RequestFrame DEF Next

(* A handler leaves the filling of a part only by loading it. *)
LEMMA OrderFills ==
  \A p \in Parts, step \in ReloadSteps \ {"off"} :
     step # p => After(step) \in Filling(p) \/ step \notin Filling(p)
  BY DEF Parts, ReloadSteps, After, Order, Filling

LEMMA HandlerKeepsWhole ==
  ASSUME TypeOK, WholeOrFilling,
         NEW t \in Threads, NEW step \in ReloadSteps \ {"off"}, HandlerAt(t, step),
         UNCHANGED alive,
         \A p \in Parts :
            \/ After(step) \in Filling(p)
            \/ mem'[p] = mem[p] /\ step # p
            \/ mem[p] # 0 /\ mem'[p] = mem[p]
            \/ mem'[p] # 0
  PROVE  WholeOrFilling'
<1> SUFFICES ASSUME alive, NEW p \in Parts
             PROVE  mem'[p] # 0 \/ \E s \in Threads : reload'[s] \in Filling(p)
  BY DEF WholeOrFilling
<1>1. reload[t] = step /\ reload'[t] = After(step)
  BY DEF HandlerAt, TypeOK
<1>2. \A s \in Threads : s # t => reload'[s] = reload[s]
  BY DEF HandlerAt, TypeOK
<1>3. mem[p] # 0 \/ \E s \in Threads : reload[s] \in Filling(p)
  BY DEF WholeOrFilling
<1> QED
  BY <1>1, <1>2, <1>3, OrderFills

LEMMA WholeKept ==
  ASSUME TypeOK, WholeOrFilling, [Next]_vars
  PROVE  WholeOrFilling'
<1>1. CASE UNCHANGED <<alive, mem, reload>>
  BY <1>1 DEF WholeOrFilling
<1>2. CASE Die
  BY <1>2 DEF Die, WholeOrFilling
<1>3. CASE StartRecgen
  <2>1. \A p \in Parts : mem'[p] # 0
    BY <1>3, FreshType DEF StartRecgen
  <2> QED
    BY <2>1 DEF WholeOrFilling
<1>4. ASSUME NEW t \in Threads, Deliver(t) PROVE WholeOrFilling'
  <2>1. reload[t] = "off" /\ \A p \in Parts : "off" \notin Filling(p)
    BY <1>4 DEF Deliver, HandlerAt, Parts, Filling
  <2>2. UNCHANGED <<alive, mem>> /\ \A s \in Threads : s # t => reload'[s] = reload[s]
    BY <1>4 DEF Deliver, HandlerAt, TypeOK
  <2> QED
    BY <2>1, <2>2 DEF WholeOrFilling
<1>5. ASSUME NEW t \in Threads, Handler(t), ~Die PROVE WholeOrFilling'
  <2>1. CASE Log(t) \/ RaiseFlag(t) \/ Leash(t) \/ LowerFlag(t)
    <3>1. PICK step \in {"log", "raise", "leash", "lower"} : HandlerAt(t, step)
      BY <2>1 DEF Log, RaiseFlag, Leash, LowerFlag
    <3>2. UNCHANGED <<alive, mem>>
      BY <2>1 DEF Log, RaiseFlag, Leash, LowerFlag
    <3>3. step \in ReloadSteps \ {"off"} /\ \A p \in Parts : step # p
      BY DEF ReloadSteps, Parts
    <3> QED
      BY <3>1, <3>2, <3>3, HandlerKeepsWhole
  <2>2. ASSUME NEW q \in {"ncv", "so"}, LoadTable(t, q) PROVE WholeOrFilling'
    <3>1. HandlerAt(t, q) /\ UNCHANGED alive
      BY <1>5, <2>2 DEF LoadTable
    <3>2. \A p \in Parts : p # q => mem'[p] = mem[p]
      BY <1>5, <2>2 DEF LoadTable, TypeOK
    <3>3. alive => mem[q] # 0
      BY DEF TypeOK
    <3>4. alive => mem'[q] # 0
      BY <1>5, <2>2, <3>3 DEF LoadTable, TypeOK, Parts
    <3>5. q \in ReloadSteps \ {"off"}
      BY DEF ReloadSteps
    <3>6. CASE ~alive
      BY <3>1, <3>6 DEF WholeOrFilling
    <3> QED
      BY <3>1, <3>2, <3>4, <3>5, <3>6, HandlerKeepsWhole
  <2>3. ASSUME NEW q \in Parts, Load(t, q) PROVE WholeOrFilling'
    <3>1. HandlerAt(t, q) /\ UNCHANGED alive
      BY <1>5, <2>3 DEF Load
    <3>2. \A p \in Parts : p # q => mem'[p] = mem[p]
      BY <1>5, <2>3 DEF Load, TypeOK
    <3>3. mem'[q] # 0
      BY <1>5, <2>3 DEF Load, TypeOK
    <3>4. q \in ReloadSteps \ {"off"}
      BY DEF ReloadSteps, Parts
    <3> QED
      BY <3>1, <3>2, <3>3, <3>4, HandlerKeepsWhole
  <2>4. ASSUME NEW step \in {"free_beast", "free_ratings", "free_pop"},
               NEW blocks, Free(t, blocks, step),
               \A p \in Parts : p \in blocks => After(step) \in Filling(p)
        PROVE  WholeOrFilling'
    <3>1. HandlerAt(t, step) /\ UNCHANGED alive
      BY <2>4 DEF Free
    <3>2. \A p \in Parts : p \notin blocks => mem'[p] = mem[p]
      BY <2>4 DEF Free
    <3>3. step \in ReloadSteps \ {"off"} /\ \A p \in Parts : step # p
      BY DEF ReloadSteps, Parts
    <3> QED
      BY <2>4, <3>1, <3>2, <3>3, HandlerKeepsWhole
  <2>5. /\ \A p \in {"bb", "ds"} : After("free_beast") \in Filling(p)
        /\ After("free_ratings") \in Filling("ratings")
        /\ After("free_pop") \in Filling("pop")
    BY DEF After, Order, Filling
  <2> QED
    BY <1>5, <2>1, <2>2, <2>3, <2>4, <2>5 DEF Handler, Parts
<1>6. BeginPass \/ Signal \/ (\E p \in Parts : Truncate(p) \/ Complete(p))
        => UNCHANGED <<alive, mem, reload>>
  BY DEF BeginPass, Signal, Truncate, Complete, processVars
<1>7. UNCHANGED vars => UNCHANGED <<alive, mem, reload>>
  BY DEF vars
<1> QED
  BY <1>1, <1>2, <1>3, <1>4, <1>5, <1>6, <1>7, RequestFrame DEF Next

LEMMA InitReload ==
  Init => OneReload /\ FlagUp /\ WholeOrFilling /\ NoneInHand /\ PointersHeld
  BY DEF Init, OneReload, FlagUp, WholeOrFilling, NoneInHand, PointersHeld,
     InPredictions

(* Whoever fills a part has raised the flag. *)
LEMMA FillingSteps ==
  \A p \in Parts : {"off", "log", "raise"} \cap Filling(p) = {}
  BY DEF Parts, Filling

(***************************************************************************)
(* As long as two reloads never overlap, no structure is freed or being    *)
(* filled while the flag is down.                                          *)
(***************************************************************************)
THEOREM FlagCoversReload ==
  ASSUME OneAtATime
  PROVE  Spec => []FlagCovers
<1> DEFINE Inv == TypeOK /\ OneReload /\ FlagUp /\ WholeOrFilling
<1>1. Init => Inv
  BY InitType, InitReload
<1>2. Inv /\ [Next]_vars => Inv'
  BY NextType, OneReloadKept, FlagUpKept, WholeKept
<1>3. Inv => FlagCovers
  BY FillingSteps DEF FlagUp, WholeOrFilling, FlagCovers
<1> QED
  BY <1>1, <1>2, <1>3, PTL DEF Spec

(***************************************************************************)
(* With a single thread, the hum build, a request never takes a pointer to *)
(* a structure that is being filled.                                       *)
(***************************************************************************)
THEOREM OneThreadLeashesWhole ==
  ASSUME \A s, t \in Threads : s = t
  PROVE  Spec => []LeashedWhole
<1> DEFINE Inv == TypeOK /\ WholeOrFilling
<1>1. Init => Inv
  BY InitType, InitReload
<1>2. Inv /\ [Next]_vars => Inv'
  BY NextType, WholeKept
<1>3. Inv => LeashedWhole
  <2> SUFFICES ASSUME Inv, NEW w \in Workers, Running(w), NEW p \in Takes(w)
               PROVE  mem[p] # 0
    BY DEF LeashedWhole
  <2>0. p \in Parts
    BY DEF Takes, Parts
  <2>1. \A t \in Threads : reload[t] = "off"
    BY DEF Running, Threads
  <2> QED
    BY <2>0, <2>1, FillingSteps DEF Running, WholeOrFilling
<1> QED
  BY <1>1, <1>2, <1>3, PTL DEF Spec

-----------------------------------------------------------------------------
(* A quiet reload is safe. *)

LEMMA NoneInHandKept ==
  ASSUME Patient, Quiet, TypeOK, OneReload, FlagUp, NoneInHand, [Next]_vars
  PROVE  NoneInHand'
<1> USE DEF NoneInHand
<1>1. CASE UNCHANGED <<pending, reload, pc>>
  BY <1>1
<1>2. CASE Idle
  BY <1>2, IdleOff
<1>3. CASE Signal
  BY <1>3 DEF Signal, Published
<1>4. ASSUME NEW t \in Threads, Deliver(t) PROVE NoneInHand'
  BY <1>4 DEF Deliver, scriptVars
<1>5. ASSUME NEW t \in Threads, Handler(t), ~Die PROVE NoneInHand'
  <2>1. PICK step \in ReloadSteps \ {"off"} : HandlerAt(t, step)
    BY <1>5, HandlerMoves
  <2>2. reload[t] = step /\ \A s \in Threads : s # t => reload'[s] = reload[s]
    BY <2>1 DEF HandlerAt, TypeOK
  <2>3. reload'[t] \in {"log", "raise"} => step = "log"
    BY <2>1, <2>2 DEF HandlerAt, After, Order, ReloadSteps, TypeOK
  <2>4. UNCHANGED <<pending, pc>>
    BY <1>5, HandlerFrame
  <2> QED
    BY <2>2, <2>3, <2>4
<1>6. ASSUME NEW w \in Workers, Accept(w) PROVE NoneInHand'
  <2>1. UNCHANGED <<pending, reload>> /\ ~pending
    BY <1>6 DEF Accept
  <2>2. \A t \in Threads : reload[t] \notin {"log", "raise"}
    BY <1>6 DEF Accept
  <2>3. pc'[w] = "wait" /\ \A v \in Workers : v # w => pc'[v] = pc[v]
    BY <1>6 DEF Accept, RequestAt, TypeOK
  <2> QED
    BY <2>1, <2>2, <2>3
<1>7. ASSUME NEW w \in Workers, Serve(w) PROVE NoneInHand'
  <2>1. pc[w] # "idle" /\ UNCHANGED <<pending, reload>>
    BY <1>7, RequestFrame DEF Serve, StopWaiting, CopyRatings, TakeLeashes,
       CreatePcrs, Tally, Rank, Serialize, Show, Reply, RequestAt
  <2>2. pc[w] = "wait" => ~flag
    BY <1>7 DEF Serve, StopWaiting, CopyRatings, TakeLeashes, CreatePcrs, Tally,
       Rank, Serialize, Show, Reply, RequestAt
  <2>3. \A t \in Threads : reload[t] = "off"
    BY <2>1, <2>2 DEF FlagUp
  <2> QED
    BY <2>1, <2>3
<1>8. BeginPass \/ (\E p \in Parts : Truncate(p) \/ Complete(p))
        => UNCHANGED <<pending, reload, pc>>
  BY DEF BeginPass, Truncate, Complete, processVars
<1>9. StartRecgen \/ Die => Idle
  BY DEF StartRecgen, Die
<1>10. UNCHANGED vars => UNCHANGED <<pending, reload, pc>>
  BY DEF vars
<1> QED
  BY <1>1, <1>2, <1>3, <1>4, <1>5, <1>6, <1>7, <1>8, <1>9, <1>10 DEF Next

(* The steps of a handler at which main.c's pointers to the ratings dangle. *)
RatingsGone == {"ratings", "free_pop", "pop", "leash"}

LEMMA PointersHeldKept ==
  ASSUME Patient, Quiet, TypeOK, OneReload, NoneInHand, PointersHeld, [Next]_vars
  PROVE  PointersHeld'
<1> USE DEF PointersHeld, RatingsGone
<1>1. CASE UNCHANGED <<alive, leashed, reload, pc>>
  BY <1>1
<1>2. CASE Die
  BY <1>2 DEF Die
<1>3. CASE StartRecgen
  BY <1>3, IdleOff DEF StartRecgen, Fresh, InPredictions
<1>4. ASSUME NEW t \in Threads, NEW step \in ReloadSteps, HandlerAt(t, step),
             UNCHANGED <<alive, pc, leashed>>, step # "leash"
      PROVE  PointersHeld'
  <2>1. reload[t] = step /\ reload'[t] = After(step)
    BY <1>4 DEF HandlerAt, TypeOK
  <2>2. \A s \in Threads : s # t => reload'[s] = reload[s]
    BY <1>4 DEF HandlerAt, TypeOK
  <2>3. step \in RatingsGone => After(step) \in RatingsGone
    BY <1>4 DEF After, Order
  <2> QED
    BY <1>4, <2>1, <2>2, <2>3
<1>5. ASSUME NEW t \in Threads, Leash(t) PROVE PointersHeld'
  BY <1>5 DEF Leash, scriptVars
<1>6. ASSUME NEW t \in Threads, NEW blocks,
             NEW step \in {"free_beast", "free_ratings", "free_pop"}, Free(t, blocks, step),
             "ratings" \in blocks => step = "free_ratings"
      PROVE  PointersHeld'
  <2>1. reload[t] = step /\ reload'[t] = After(step)
    BY <1>6 DEF Free, HandlerAt, TypeOK, ReloadSteps
  <2>2. \A s \in Threads : s # t => reload'[s] = reload[s]
    BY <1>6 DEF Free, HandlerAt, TypeOK
  <2>3. \A w \in Workers : pc'[w] \in {"idle", "wait"}
    BY <1>6, <2>1 DEF Free, NoneInHand
  <2>4. step # "free_beast" => After(step) \in RatingsGone
    BY DEF After, Order
  <2>5. "ratings" \notin blocks =>
           (<<Main, "ratings">> \in leashed => <<Main, "ratings">> \in leashed')
    BY <1>6 DEF Free
  <2>6. UNCHANGED alive
    BY <1>6 DEF Free
  <2>7. CASE step = "free_beast"
    BY <1>6, <2>1, <2>2, <2>3, <2>5, <2>6, <2>7 DEF InPredictions
  <2> QED
    BY <2>1, <2>3, <2>4, <2>7 DEF InPredictions
<1>7. ASSUME NEW t \in Threads, Deliver(t) \/ Handler(t), ~Die PROVE PointersHeld'
  <2>1. CASE Deliver(t) \/ Log(t) \/ RaiseFlag(t) \/ LowerFlag(t)
    BY <1>4, <2>1 DEF Deliver, Log, RaiseFlag, LowerFlag, ReloadSteps
  <2>2. CASE \/ \E p \in {"ncv", "so"} : LoadTable(t, p)
             \/ \E p \in {"bb", "ds", "ratings", "pop"} : Load(t, p)
    BY <1>4, <1>7, <2>2 DEF LoadTable, Load, ReloadSteps
  <2> QED
    BY <1>5, <1>6, <1>7, <2>1, <2>2 DEF Handler
<1>8. ASSUME NEW w \in Workers,
             Accept(w) \/ StopWaiting(w) \/ CopyRatings(w) \/ CreatePcrs(w)
                \/ Tally(w) \/ Rank(w) \/ Show(w)
      PROVE  PointersHeld'
  <2>1. UNCHANGED <<alive, leashed, reload>>
    BY <1>8 DEF Accept, StopWaiting, CopyRatings, CreatePcrs, Tally, Rank, Show
  <2>2. \A v \in Workers : v # w => pc'[v] = pc[v]
    BY <1>8 DEF Accept, StopWaiting, CopyRatings, CreatePcrs, Tally, Rank, Show,
       RequestAt, TypeOK
  <2>3. pc'[w] \in InPredictions => pc[w] \in InPredictions
    BY <1>8 DEF Accept, StopWaiting, CopyRatings, CreatePcrs, Tally, Rank, Show,
       RequestAt, TypeOK, InPredictions
  <2> QED
    BY <2>1, <2>2, <2>3
<1>9. ASSUME NEW w \in Workers, TakeLeashes(w) PROVE PointersHeld'
  BY <1>9 DEF TakeLeashes, RequestAt, TypeOK, InPredictions
<1>9a. ASSUME NEW w \in Workers, Serialize(w) PROVE PointersHeld'
  <2>1. UNCHANGED <<alive, reload>> /\ leashed \subseteq leashed'
    BY <1>9a DEF Serialize
  <2>2. \A v \in Workers : v # w => pc'[v] = pc[v]
    BY <1>9a DEF Serialize, RequestAt, TypeOK
  <2>3. pc[w] \in InPredictions
    BY <1>9a DEF Serialize, RequestAt, InPredictions
  <2> QED
    BY <2>1, <2>2, <2>3
<1>10. ASSUME NEW w \in Workers, Reply(w) PROVE PointersHeld'
  <2>1. Main # w
    OBVIOUS
  <2>2. \A v \in Workers, p \in Parts :
           v # w => (<<v, p>> \in leashed => <<v, p>> \in leashed')
    BY <1>10 DEF Reply
  <2>3. <<Main, "ratings">> \in leashed => <<Main, "ratings">> \in leashed'
    BY <1>10, <2>1 DEF Reply
  <2>4. UNCHANGED <<alive, reload>>
    BY <1>10 DEF Reply
  <2>5. pc'[w] = "idle" /\ \A v \in Workers : v # w => pc'[v] = pc[v]
    BY <1>10 DEF Reply, RequestAt, TypeOK
  <2> QED
    BY <2>2, <2>3, <2>4, <2>5 DEF Parts, InPredictions
<1>11. BeginPass \/ Signal \/ (\E p \in Parts : Truncate(p) \/ Complete(p))
        => UNCHANGED <<alive, leashed, reload, pc>>
  BY DEF BeginPass, Signal, Truncate, Complete, processVars
<1>12. UNCHANGED vars => UNCHANGED <<alive, leashed, reload, pc>>
  BY DEF vars
<1> QED
  BY <1>1, <1>2, <1>3, <1>7, <1>8, <1>9, <1>9a, <1>10, <1>11, <1>12 DEF Next, Serve

(***************************************************************************)
(* When no request is in hand from the signal to the raised flag, and a    *)
(* pass starts only after a reload, no worker ever reads through a pointer *)
(* to a freed block or takes one to a block that is being filled, in the   *)
(* hum and in the FastCGI build.                                           *)
(***************************************************************************)
THEOREM QuietReloadIsSafe ==
  ASSUME Patient, Quiet
  PROVE  Spec => [](NoDangling /\ LeashedWhole)
<1> DEFINE Inv == /\ TypeOK /\ OneReload /\ FlagUp /\ WholeOrFilling
                  /\ NoneInHand /\ PointersHeld
<1>1. Init => Inv
  BY InitType, InitReload
<1>2. Inv /\ [Next]_vars => Inv'
  BY NextType, OneReloadKept, FlagUpKept, WholeKept, NoneInHandKept,
     PointersHeldKept DEF OneAtATime
<1>3. Inv => NoDangling
  <2> SUFFICES ASSUME Inv, NEW w \in Workers, alive
               PROVE  Reads(w) \subseteq leashed
    BY DEF NoDangling, Running
  <2>1. CASE pc[w] = "ratings"
    <3>1. \A t \in Threads : reload[t] = "off"
      BY <2>1 DEF NoneInHand
    <3> QED
      BY <2>1, <3>1 DEF PointersHeld, Reads
  <2>2. CASE pc[w] \in {"tally", "rank", "show"}
    BY <2>2 DEF PointersHeld, InPredictions, Reads
  <2> QED
    BY <2>1, <2>2 DEF Reads
<1>4. Inv => LeashedWhole
  <2> SUFFICES ASSUME Inv, NEW w \in Workers, Running(w), NEW p \in Takes(w)
               PROVE  mem[p] # 0
    BY DEF LeashedWhole
  <2>1. pc[w] \in {"leash", "serialize"} /\ p \in Parts
    BY DEF Takes, Parts
  <2>2. \A t \in Threads : reload[t] = "off"
    BY <2>1 DEF NoneInHand
  <2> QED
    BY <2>1, <2>2, FillingSteps DEF Running, WholeOrFilling
<1> QED
  BY <1>1, <1>2, <1>3, <1>4, PTL DEF Spec
=============================================================================
