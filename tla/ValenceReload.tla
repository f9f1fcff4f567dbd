--------------------------- MODULE ValenceReload ---------------------------
(***************************************************************************)
(* The reload of recgen's valence caches while recgen serves requests.     *)
(*                                                                         *)
(* The bemorehuman script rewrites the files that hold the valences, the   *)
(* ratings and the popularities, then sends SIGUSR1 to the live recgen.    *)
(* sig_handler() (src/recgen/main.c) runs on any thread of recgen that     *)
(* does not have the signal blocked; it raises wait_for_valence_reload,    *)
(* frees and loads every structure (initialize_structures(), big_mem.c)    *)
(* and lowers the flag.  A thread is suspended while it runs the handler,  *)
(* and has the signal blocked until the handler returns.                   *)
(*                                                                         *)
(* A structure or a file is known by its generation: the number of the     *)
(* pass of the script's loop that computed it.  Generation 0 in a file is  *)
(* one absent or being rewritten, in memory one freed or being filled.     *)
(* The elements and the people stay the same from pass to pass (event()    *)
(* rejects the others).  The ratings grow in number with every pass; how   *)
(* many of them recgen reads is left out.                                  *)
(***************************************************************************)
EXTENDS Naturals, FiniteSets

CONSTANTS
    Workers,        \* the threads that serve requests
    OtherThreads,   \* threads that only run handlers: main() in pthread_join
    MaxGeneration,  \* bound: passes of the script's loop
    Patient,        \* does the script start a pass only after a reload is over?
    Quiet           \* is no request in hand from the signal to the raised flag?

Threads == Workers \cup OtherThreads

(* Holder of main.c's g_big_rat and g_big_rat_index, beside the workers. *)
Main == "main.c"

ASSUME ValenceReloadAssumption ==
    /\ Workers # {} /\ Workers \cap OtherThreads = {} /\ Main \notin Workers
    /\ MaxGeneration \in Nat \ {0}
    /\ Patient \in BOOLEAN /\ Quiet \in BOOLEAN

(* num_confident_valences.out, so_compressed.out, bb*.bin, bb_ds*.bin,     *)
(* big_rat*.bin and pop.out, and what recgen loads them into.              *)
Parts == {"ncv", "so", "bb", "ds", "ratings", "pop"}

VARIABLES
    (* the script *)
    gen,      \* the pass the script's loop is in
    disk,     \* generation of each file
    writing,  \* TRUE from the start of a pass until its signal or its new recgen
    (* the recgen process *)
    alive,    \* is there a recgen?
    mem,      \* generation of each structure
    leashed,  \* <<h, p>>: holder h has a pointer to the current block of p
    pcr,      \* generation of the slopes behind pcrx and pcry, 0 if none yet
    flag,     \* wait_for_valence_reload
    pending,  \* a SIGUSR1 not yet delivered; a second one merges with it
    reload,   \* where each thread is in sig_handler()
    pc        \* where each worker is in a request for recommendations

scriptVars == <<gen, disk, writing>>
vars == <<gen, disk, writing, alive, mem, leashed, pcr, flag, pending,
          reload, pc>>

Generations == 0..MaxGeneration

ReloadSteps == {"off", "log", "raise", "ncv", "free_beast", "so", "bb", "ds",
                "free_ratings", "ratings", "free_pop", "pop", "leash", "lower"}

RequestSteps == {"idle", "wait", "ratings", "leash", "pcr", "tally", "rank",
                 "serialize", "show", "libc"}

Running(t) == alive /\ reload[t] = "off"

Reloading == {t \in Threads : reload[t] # "off"}

Settled == ~pending /\ Reloading = {}
-----------------------------------------------------------------------------
Fresh ==  \* a recgen that has just loaded everything and entered its worker loops
    /\ mem' = [p \in Parts |-> gen]
    /\ leashed' = {<<Main, "ratings">>}
    /\ alive' = TRUE

Idle ==
    /\ pcr' = 0
    /\ flag' = FALSE
    /\ pending' = FALSE
    /\ reload' = [t \in Threads |-> "off"]
    /\ pc' = [w \in Workers |-> "idle"]

(* assert() or exit() in the middle of a reload. *)
Die ==
    /\ alive' = FALSE
    /\ mem' = [p \in Parts |-> 0]
    /\ leashed' = {}
    /\ Idle
    /\ UNCHANGED scriptVars

Init ==
    /\ gen = 1
    /\ disk = [p \in Parts |-> 1]
    /\ writing = FALSE
    /\ alive = TRUE
    /\ mem = [p \in Parts |-> 1]
    /\ leashed = {<<Main, "ratings">>}
    /\ pcr = 0
    /\ flag = FALSE
    /\ pending = FALSE
    /\ reload = [t \in Threads |-> "off"]
    /\ pc = [w \in Workers |-> "idle"]
-----------------------------------------------------------------------------
(* The script's loop. *)

processVars == <<alive, mem, leashed, pcr, flag, pending, reload, pc>>

BeginPass ==
    /\ ~writing /\ gen < MaxGeneration
    /\ Patient => Settled
    /\ gen' = gen + 1
    /\ writing' = TRUE
    /\ UNCHANGED <<disk, processVars>>

(* valgen, recgen -c and recgen -d run one after the other. *)
WrittenBefore(p) ==
    CASE p \in {"ratings", "pop"} -> {}
      [] p = "ncv"                -> {"ratings", "pop"}
      [] p \in {"so", "bb"}       -> {"ratings", "pop", "ncv"}
      [] p = "ds"                 -> {"ratings", "pop", "ncv", "so", "bb"}

(* fopen(p, "w"), or the removal of the stale caches by load_config_file(). *)
Truncate(p) ==
    /\ writing /\ disk[p] \notin {0, gen}
    /\ \A q \in WrittenBefore(p) : disk[q] = gen
    /\ disk' = [disk EXCEPT ![p] = 0]
    /\ UNCHANGED <<gen, writing, processVars>>

Complete(p) ==
    /\ writing /\ disk[p] = 0
    /\ disk' = [disk EXCEPT ![p] = gen]
    /\ UNCHANGED <<gen, writing, processVars>>

Published == writing /\ \A p \in Parts : disk[p] = gen

(* There is a live recgen and an events file: kill -s USR1. *)
Signal ==
    /\ Published /\ alive
    /\ Quiet => \A w \in Workers : pc[w] = "idle"
    /\ pending' = TRUE
    /\ writing' = FALSE
    /\ UNCHANGED <<gen, disk, alive, mem, leashed, pcr, flag, reload, pc>>

(* Otherwise: kill -s KILL what lingers, recgen -b. *)
StartRecgen ==
    /\ Published
    /\ Fresh /\ Idle
    /\ writing' = FALSE
    /\ UNCHANGED <<gen, disk>>
-----------------------------------------------------------------------------
(* sig_handler() on thread t. *)

Order ==
    [off |-> "log", log |-> "raise", raise |-> "ncv", ncv |-> "free_beast",
     free_beast |-> "so", so |-> "bb", bb |-> "ds", ds |-> "free_ratings",
     free_ratings |-> "ratings", ratings |-> "free_pop", free_pop |-> "pop",
     pop |-> "leash", leash |-> "lower", lower |-> "off"]

After_NoFlag(step) == IF step = "log" THEN "ncv" ELSE Order[step]
After_NoNcv(step) == IF step = "raise" THEN "free_beast" ELSE Order[step]
After_NoPop(step) == IF step = "free_pop" THEN "leash" ELSE Order[step]
After_NoLeash(step) == IF step = "pop" THEN "lower" ELSE Order[step]
After_NoLower(step) == IF step = "leash" THEN "off" ELSE Order[step]
After(step) == Order[step]

HandlerAt(t, step) ==
    /\ reload[t] = step
    /\ reload' = [reload EXCEPT ![t] = After(step)]

(* The kernel picks one of the threads that do not run the handler already. *)
Deliver(t) ==
    /\ alive /\ pending
    /\ HandlerAt(t, "off")
    /\ pending' = FALSE
    /\ UNCHANGED <<scriptVars, alive, mem, leashed, pcr, flag, pc>>

(* syslog() waits for the lock that a thread inside the C library holds, also *)
(* when that thread is the one the handler has suspended.                    *)
Log(t) ==
    /\ HandlerAt(t, "log")
    /\ \A w \in Workers : pc[w] # "libc"
    /\ UNCHANGED <<scriptVars, alive, mem, leashed, pcr, flag, pending, pc>>

RaiseFlag(t) ==
    /\ HandlerAt(t, "raise")
    /\ flag' = TRUE
    /\ UNCHANGED <<scriptVars, alive, mem, leashed, pcr, pending, pc>>

(* populate_ncv(), load_so_compressed(): an empty file changes nothing, an *)
(* absent one ends the process.                                            *)
LoadTable_Clears(t, p) ==
    /\ HandlerAt(t, p)
    /\ mem' = [mem EXCEPT ![p] = disk[p]]
    /\ UNCHANGED <<scriptVars, alive, leashed, pcr, flag, pending, pc>>

LoadTable(t, p) ==
    \/ /\ HandlerAt(t, p)
       /\ mem' = [mem EXCEPT ![p] = IF disk[p] = 0 THEN @ ELSE disk[p]]
       /\ UNCHANGED <<scriptVars, alive, leashed, pcr, flag, pending, pc>>
    \/ reload[t] = p /\ disk[p] = 0 /\ Die

(* free() and calloc(); the workers' pointers to the old blocks now dangle. *)
Free(t, blocks, step) ==
    /\ HandlerAt(t, step)
    /\ mem' = [p \in Parts |-> IF p \in blocks THEN 0 ELSE mem[p]]
    /\ leashed' = {l \in leashed : l[2] \notin blocks}
    /\ UNCHANGED <<scriptVars, alive, pcr, flag, pending, pc>>

(* fread() of as many items as expected, checked by assert(), or the loop of *)
(* pop_load(), checked by its row count.  A file in the middle of its        *)
(* rewriting may hold enough items; pop.out has to hold all its rows.        *)
MayFit(p) == disk[p] # 0 \/ p # "pop"
MayFallShort(p) == disk[p] = 0 \/ (p \in {"bb", "ds"} /\ disk[p] # mem["ncv"])

Load(t, p) ==
    \/ /\ HandlerAt(t, p)
       /\ MayFit(p)
       /\ mem' = [mem EXCEPT ![p] = IF disk[p] = 0 THEN gen ELSE disk[p]]
       /\ UNCHANGED <<scriptVars, alive, leashed, pcr, flag, pending, pc>>
    \/ reload[t] = p /\ MayFallShort(p) /\ Die

(* main.c's own pointers to the ratings are renewed at the very end. *)
Leash(t) ==
    /\ HandlerAt(t, "leash")
    /\ leashed' = leashed \cup {<<Main, "ratings">>}
    /\ UNCHANGED <<scriptVars, alive, mem, pcr, flag, pending, pc>>

LowerFlag_DropsPending(t) ==
    /\ HandlerAt(t, "lower")
    /\ flag' = FALSE
    /\ pending' = FALSE
    /\ UNCHANGED <<scriptVars, alive, mem, leashed, pcr, pc>>

LowerFlag(t) ==
    /\ HandlerAt(t, "lower")
    /\ flag' = FALSE
    /\ UNCHANGED <<scriptVars, alive, mem, leashed, pcr, pending, pc>>

Handler(t) ==
    \/ Log(t) \/ RaiseFlag(t)
    \/ LoadTable(t, "ncv")
    \/ Free(t, {"bb", "ds"}, "free_beast")
    \/ LoadTable(t, "so")
    \/ Load(t, "bb") \/ Load(t, "ds")
    \/ Free(t, {"ratings"}, "free_ratings")
    \/ Load(t, "ratings")
    \/ Free(t, {"pop"}, "free_pop")
    \/ Load(t, "pop")
    \/ Leash(t) \/ LowerFlag(t)
-----------------------------------------------------------------------------
(* A request for recommendations on worker w. *)

RequestAt(w, from, to) ==
    /\ Running(w)
    /\ pc[w] = from
    /\ pc' = [pc EXCEPT ![w] = to]

Accept(w) ==
    /\ RequestAt(w, "idle", "wait")
    /\ Quiet => ~pending /\ \A t \in Threads : reload[t] \notin {"log", "raise"}
    /\ UNCHANGED <<scriptVars, alive, mem, leashed, pcr, flag, pending, reload>>

(* The exit of the loop "while (wait_for_valence_reload)". *)
StopWaiting(w) ==
    /\ RequestAt(w, "wait", "ratings")
    /\ ~flag
    /\ UNCHANGED <<scriptVars, alive, mem, leashed, pcr, flag, pending, reload>>

(* recs() and internal_singlerec() copy the person's ratings. *)
CopyRatings(w) ==
    /\ RequestAt(w, "ratings", "leash")
    /\ UNCHANGED <<scriptVars, alive, mem, leashed, pcr, flag, pending, reload>>

(* predictions() *)
TakeLeashes(w) ==
    /\ RequestAt(w, "leash", "pcr")
    /\ leashed' = leashed \cup {<<w, p>> : p \in {"bb", "ds", "pop"}}
    /\ UNCHANGED <<scriptVars, alive, mem, pcr, flag, pending, reload>>

CreatePcrs(w) ==
    /\ RequestAt(w, "pcr", "tally")
    /\ pcr' = IF pcr = 0 THEN mem["so"] ELSE pcr
    /\ UNCHANGED <<scriptVars, alive, mem, leashed, flag, pending, reload>>

Tally(w) ==
    /\ RequestAt(w, "tally", "rank")
    /\ UNCHANGED <<scriptVars, alive, mem, leashed, pcr, flag, pending, reload>>

(* The ranking reads the popularities, *)
Rank(w) ==
    /\ RequestAt(w, "rank", "serialize")
    /\ UNCHANGED <<scriptVars, alive, mem, leashed, pcr, flag, pending, reload>>

(* and so does the serializer, through a pointer of its own. *)
Serialize(w) ==
    /\ RequestAt(w, "serialize", "show")
    /\ leashed' = leashed \cup {<<w, "pop">>}
    /\ UNCHANGED <<scriptVars, alive, mem, pcr, flag, pending, reload>>

(* Then the request is in syslog() and free(), where it holds their locks or *)
(* waits for a worker that does.                                             *)
Show(w) ==
    /\ RequestAt(w, "show", "libc")
    /\ UNCHANGED <<scriptVars, alive, mem, leashed, pcr, flag, pending, reload>>

Reply(w) ==
    /\ RequestAt(w, "libc", "idle")
    /\ leashed' = {l \in leashed : l[1] # w}
    /\ UNCHANGED <<scriptVars, alive, mem, pcr, flag, pending, reload>>

Serve(w) ==
    \/ StopWaiting(w) \/ CopyRatings(w) \/ TakeLeashes(w)
    \/ CreatePcrs(w) \/ Tally(w) \/ Rank(w)
    \/ Serialize(w) \/ Show(w) \/ Reply(w)

Next ==
    \/ BeginPass \/ Signal \/ StartRecgen
    \/ \E p \in Parts : Truncate(p) \/ Complete(p)
    \/ \E t \in Threads : Deliver(t) \/ Handler(t)
    \/ \E w \in Workers : Accept(w) \/ Serve(w)

(* The kernel delivers a signal and runs the threads that can run. *)
Fairness ==
    /\ WF_vars(\E t \in Threads : Deliver(t))
    /\ \A t \in Threads : WF_vars(Handler(t))
    /\ \A w \in Workers : WF_vars(Serve(w))

Spec == Init /\ [][Next]_vars

FairSpec == Spec /\ Fairness
-----------------------------------------------------------------------------
TypeOK ==
    /\ gen \in 1..MaxGeneration
    /\ disk \in [Parts -> Generations]
    /\ writing \in BOOLEAN /\ alive \in BOOLEAN
    /\ mem \in [Parts -> Generations]
    /\ leashed \subseteq ({Main} \cup Workers) \X Parts
    /\ pcr \in Generations
    /\ flag \in BOOLEAN /\ pending \in BOOLEAN
    /\ reload \in [Threads -> ReloadSteps]
    /\ pc \in [Workers -> RequestSteps]
    /\ alive => mem["ncv"] # 0 /\ mem["so"] # 0

(* What the next step of a worker reads through a pointer. *)
Reads(w) ==
    CASE pc[w] = "ratings" -> {<<Main, "ratings">>}
      [] pc[w] = "tally"   -> {<<w, "bb">>, <<w, "ds">>}
      [] pc[w] \in {"rank", "show"} -> {<<w, "pop">>}
      [] OTHER             -> {}

(* The structures it gets a pointer to. *)
Takes(w) ==
    CASE pc[w] = "leash"     -> {"bb", "ds", "pop"}
      [] pc[w] = "serialize" -> {"pop"}
      [] OTHER               -> {}

(***************************************************************************)
(* "Block all threads from accessing beast and beast ds" (main.c:1198): no *)
(* worker reads through a pointer to a block that the reload has freed.    *)
(***************************************************************************)
NoDangling == \A w \in Workers : Running(w) => Reads(w) \subseteq leashed

(* "Elsewhere, we're already blocking the access to g_bb, so we don't need *)
(* to worry about that here" (big_mem.c:1264): no worker gets its pointers *)
(* to structures that the reload is filling.                               *)
LeashedWhole ==
    \A w \in Workers : Running(w) => \A p \in Takes(w) : mem[p] # 0

(* "Unblock other threads from accessing beast and beast ds" (main.c:1204) *)
(* comes when the structures are whole: while one is not, the flag is up.  *)
FlagCovers == alive /\ (\E p \in Parts : mem[p] = 0) => flag

(***************************************************************************)
(* After a reload, and whatever signals merged and whatever files changed  *)
(* under it, recgen has the generation the last pass of the script wrote.  *)
(***************************************************************************)
SettledIsCurrent ==
    alive /\ Settled /\ ~writing => \A p \in Parts : mem[p] = gen

(* "Only need to do this once per valence load" (predictions.c:274): the    *)
(* tables that tally() looks ratings up in come from the loaded slopes.     *)
PcrFresh ==
    \A w \in Workers : Running(w) /\ pc[w] = "tally" => pcr = mem["so"]

(* A signalled generation is loaded, or a newer one, and no assertion on    *)
(* what was read (big_mem.c:279) ends the service on the way.               *)
SignalServed ==
    \A g \in 1..MaxGeneration :
        pending /\ gen = g ~> alive /\ \A p \in Parts : mem[p] >= g

(* A request that came during a reload gets its answer. *)
WaitersAnswered == \A w \in Workers : pc[w] = "wait" ~> pc[w] = "idle"
=============================================================================
