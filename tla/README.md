# A TLA+ verification of bemorehuman

bemorehuman is a recommender in C. People rate elements; `valgen` turns the
ratings into *valences* (a linear relation between the ratings of two elements);
`recgen` holds the valences in memory and answers requests, over FastCGI or
through the web server `hum`; the `bemorehuman` script runs the programs in a
loop and feeds the events that recgen collects back into the ratings.
Line numbers are those of the sources under `src/`.

## 1. Inventory

| Part | State | Operations | What is hard | Modelled by |
|---|---|---|---|---|
| Event service, `recgen/main.c` 767-892 | `g_event_counter`, `g_events_to_persist` (46-49), the bmh events file | `event()`: decode, store, count, persist a full buffer, answer | two FastCGI threads share the buffer without a lock; the process may be killed with events in RAM | `EventBuffer` |
| Valence reload, `recgen/main.c` 1116-1207, `big_mem.c` 1094-1402 | the structures (ncv, so, bb, ds, ratings, pop), `wait_for_valence_reload`, pointers ("leashes") into the structures, `pcr_created` | `sig_handler()` frees and loads everything while requests run | a handler on a worker's thread or beside it, freed memory, signals that merge or overlap, files rewritten while they are read | `ValenceReload` |
| valgen threads, `valgen/main.c`, `precursors.c` | `br`, `brds`, `br_index`, `g_brds_walker`, `valences.outN`, `valences.out` | threads compute an x at a time; `cat`, `rm`, count | nothing sorts the output, so its order rests on ranges and walks; unbounded walks; a run that dies leaves files that are appended to | `ValgenThreads` |
| Ratings store, `valgen/big_rat.c` | `g_big_rat`, `g_big_rat_ds`, `g_pop` | read, sort twice, popularity groups, export | ids and counts at their limits | in part: `ValgenThreads`, `Predictions`, `Pipeline` |
| Valence store, `recgen/big_mem.c` 68-1090 | `g_bb`, `g_bb_ds`, `g_bind_seg`, buckets of slopes and offsets | two passes over `valences.out`, sort, export, load | indexes of starts and counts, with and without an entry for the last id, values in signed chars and in four-bit buckets, an iterative quicksort that throws its stack away | `ValenceStore`, `SlopeBuckets`, `QuickSort` |
| Predictions, `recgen/predictions.c`, and the request handlers, `recgen/main.c` 440-760 | pcr tables, working set | `tally`, `composite`, `predictions`, `find_single`; `recs`, `internal_singlerec` and the serializers | two stores with two indexes, a filter loop without a bound, a filter applied before what it filters is there, ids nobody checks, two constants for the size of an answer | `Predictions` |
| hum, `recgen/hum.c`, and the worker it talks to, `recgen/main.c` 972-1111 | one client, one connection; `record_out` | accept, read, forward two records, wait for one, answer | reads and writes in pieces that block at both ends or fail unseen, exits and signals on either side, a record that is never initialised | `Hum` |
| Script, `bemorehuman` | the events files, a PID | ratgen, valgen, recgen -c, -d, USR1 or a new recgen, wait, append | hand-over of a file with a live recgen; exit statuses are not read | `Pipeline` |
| ratgen, `ratgen/main.c` | counts of events | counts to 32 ratings | bands of a ratio; the delimiter | `Ratgen` |
| Caches, `lib/config.c` | `BE`, `rmetacache.txt` | detect a new ratings file, remove what came from the old one | staleness by modification time; the new time is noted before the old files are removed | `ConfigCache` |
| test-accuracy, helpers, yyjson, protobuf, build files | - | offline, stateless, vendored or generated | - | section 5 |

How they interact: the script runs the programs one after the other, which
exchange files in the working directory; it signals the live recgen with
SIGUSR1, or starts one; recgen hands events back by appending to the bmh events
file that the script waits for. hum and recgen talk over a socket, and a new
recgen kills and starts hum.

What makes each part correct: *events* - every event answered "ok" is saved
whole, once and in order, or was in RAM at a death; *reload* - no request reads
freed or half-filled memory, every announced generation is loaded, the service
survives; *valgen* - `valences.out` is sorted, complete and exact and its count
agrees; *store* - lookups give what `valences.out` has, whichever index they go
through; *predictions* - the average over the valences of the person's ratings,
ranked, and the best of them sent on the scale that was asked for; *hum* - every
accepted client is answered or closed, with its own answer, and no client takes
recgen from the others by a request that is sound; *pipeline* - a saved event enters the
ratings once and reaches the served valences. `PROJECT.json` lists the hazards
line by line with the properties that watch each of them.

## 2. The modules

| Module | Models | Role |
|---|---|---|
| `EventLog` | one ordered log, saved a buffer at a time, its unsaved end lost at a death | abstract specification |
| `EventBuffer` | `event()` and the workers' loops | implements `EventLog` |
| `ValenceReload` | script, `sig_handler()`, `initialize_structures()` and the workers' requests | detailed specification |
| `ValgenThreads`, `MCValgen` | `partial_elements()`, `build_pairs()`, `buildValences()`, `main()` of valgen; small ratings | detailed specification |
| `QuickSort` | `quicksort_iterative()` with any pivots | algorithm, a state machine |
| `SlopeBuckets` | the first pass of `pull_from_files()`, `create_pcrs()` | algorithm, operators |
| `ValenceStore` | recgen -c, -d and the load of the live one | extends the two above |
| `Predictions`, `MCRecgen` | requests to the live recgen; small files and requests | extends `ValenceStore` |
| `ConfigCache`, `Ratgen` | `load_config_file()`; `main()` of ratgen | operators |
| `Pipeline`, `MCPipeline` | the loop of the script, its programs, a live recgen that saves events | composes the two above with the script and recgen |
| `RequestQueue` | clients served in order, each with one result | abstract specification |
| `Hum`, `MCHum` | hum and the worker of recgen; two clients | implements `RequestQueue` |
| `EventBuffer_proofs`, `ValenceReload_proofs`, `ValgenThreads_proofs`, `QuickSort_proofs`, `ValenceStore_proofs`, `Predictions_proofs`, `Hum_proofs`, `Pipeline_proofs` | | proofs |

How the parts share out the system: `ValgenThreads` shows what `valences.out` is;
`IsFile` of `ValenceStore` assumes just that and shows what the live recgen has
of it; `Predictions` shows what a request makes of it. `ValenceReload` has the
same structures as generations only, and asks when they may be replaced.
`EventBuffer` has the memory behind `event()`; `Pipeline` the file it writes to
and where the events go from there.

### EventBuffer

One action is one access to the shared globals or to the file: `StorePerson`
and `StoreElt` (837, 838), `Count` (839), `Test` (842), `Open`, `Write`,
`Close` (844-866), `Reset` (868), `Reply`. The accesses are plain C without atomics,
so wherever the source names `g_event_counter` again the model may use the
value in a register (`idx`) or the one in memory. `Accept` and `Reject` stand
for everything before: a request that names a known person and element, or one
answered with an error. `Killed` is the script's `kill -KILL`, `OpenFails` the
exit of line 853. An event is the number of its request, kept in both fields so
that a line mixing two requests shows. `Overlap` says whether requests are
handled at the same time; it is FALSE for the hum build, which has one worker.
`DiskFull` lets `Close` write only a part; the results of `fwrite` and
`fclose` are not read (864, 866). It is FALSE in the runs.

### ValenceReload

Structures and files are *generations*: the pass of the script that computed
them; 0 is freed, being filled or being rewritten. `BeginPass`, `Truncate`,
`Complete`, `Signal`, `StartRecgen` are the script and the programs it runs;
`Deliver` is the kernel; `Log` ... `LowerFlag` are the handler of one thread in
the order of `After`; `Accept` ... `Reply` a request. A thread is suspended while it runs
the handler (`Running`), so in the hum build the handler interrupts the worker
itself, and in the FastCGI build it may also run on another worker or on
`main()` in `pthread_join`. `leashed` is the set of pointers to current
blocks: `Free` takes away those to the old ones, and a worker whose next read
is not in it reads freed memory. A load that meets a file being rewritten may
fit by accident or fall short of the count that is asserted (`Die`). A request
takes its pointers to the store and the popularities in `predictions()`
(`TakeLeashes`), and the serializer one more to the popularities (`Serialize`,
`Show`).
`Patient`: the script starts a pass only after a reload is over. `Quiet`: no
request is in hand from the signal to the raised flag. Neither is ensured by the code;
they name the conditions under which it is safe.

### ValgenThreads

`load` is what `main()` has in memory before it starts the threads: `num_elts`, the
ratings in both orders, and which pairs would pass the test of the correlation
(floating point, an input). `Compute(t)` is one turn of the loop of
`partial_elements()`: threads write nothing they share, so a whole x is one
step. The loops of `build_pairs()` are operators on positions: `CaughtUp` (75),
`Rows` (79), `SecondRow` (94), `UserRows` (100), and `Lines` is
`buildValences()` with its bounds (329, 336). `Join`, `Cat`, `Remove`, `Count`
are the end of `main()`. `Die` is a kill or the `exit()` of a thread, which leaves the
files of the threads behind, the last blocks perhaps torn; `Start` may be a later run in the same
directory, on the same or other ratings. Positions count from 1 where C counts
from 0.

### QuickSort, SlopeBuckets, ValenceStore

The sort of `populate_ds()` is not a textbook quicksort: its stack has 128 entries
(`MaxStack`), and when it is full the code sets `stack_pos = 0` and forgets the
ranges (113). `QuickSort` has a step per turn of the outer loop (`Pick`, any
element as pivot where the code takes a random one), per pair of scans
with its swap (`Swap`, `Parted`), and `Unstack`. The scans themselves (119, 120)
have no bound; `UpStop` and `DownStop` say where they come to rest, and
`ScansStop` that this is inside the range.

`SlopeBuckets` is the arithmetic of the first pass: values are counted, the
special one (slope 1, offset 0) gets a bucket of its own, the others are dealt
out so that the buckets weigh about the same; averages go to
`so_compressed.out` and the number of the bucket, four bits, into the store.
Percentages are whole numbers in a common unit. What the code reads of entries
it never filled, or in front of an array, is `Leftovers`. The share that the last
bucket of the slopes leaves in `bucket_percent_total` is carried over into the
first of the offsets (`Entering`, `LastShare`).

`ValenceStore` is three runs of recgen on one directory. `FirstPass`, `ReadLine`
and `ExportBeast` are `recgen -c`; the same two, `SortCopy`, `Sort`, `Sorted`,
`CopyValence` and `ExportDs` are `recgen -d`; `Load` is the live one. The arrays
and indexes count from 0 as in C, the indexes are exported one entry short and
loaded into one that is longer, both as in the code, and element ids lose the
bits that SETELT does not keep. A line's slope and offset are what the cast to a
signed char leaves of them (`Tiny`). `recgen -d` has indexes without an entry for
the last id (`Stored`, from `create_ds()`), and clears that entry all the same: what
it damages so may end it at the next call of `malloc()` or `free()` (`Wrecked`); the
other programs have the entry (`Ids`, from `load_beast()`). `Refuse` is the exit
without valences.

### Predictions

`AskRecs` and `AskSingle` are `recs()` and `internal_singlerec()` up to the call of
`predictions()`: which ratings they hand over, and who is refused. The first
person's ratings start at index 0, which `internal_singlerec()` takes for
unknown (492), and its filter for the target compares with entries that are
filled afterwards (537); both are as in the code. Ids in a JSON request are used
unchecked, as is the person of a single-item one; where that leaves the arrays, and
where `tally()` may look for the next element behind an index, the request is
"astray" (`Strays`) and no more is said of it. `Tally` is one rated element,
looked up in both stores; `Composite`, `Rank` (any order that `predcmp()` admits),
`Pick1` (one turn of the loop of line 317, which has no bound of its own:
"overrun" is its walk past the working set), `Single`, `Serialize` and `Reply` follow.
Of the two protocols the model has what they keep of the recommendations, `num_recs_to_make`
or `RECS_BUCKET_SIZE`, the output scale with its mending of 0, and that the serializers for
protobuf read recommendations that are not there (`SerializeNull`, "crashed"). A
prediction from a pair of buckets is the formula that `create_pcrs()` tabulates.

### Ratgen, ConfigCache, Pipeline

`Ratgen` turns counts of events into ratings with the thresholds of the source,
of which number 26 is .8152 and not 26/32. Its delimiter is a tab: the element
of a line with a comma is whatever `malloc()` left (`Junk`). `ConfigCache` is what
every program does first: read `rmetacache.txt` if its time is that of
`ratings.out`, to the second, otherwise open it for writing (`Emptied`), count, write
the new time (`Recorded`) and only then remove `valences.out` and the caches
(`Removed`).

In `Pipeline` a file is the ratings it was made from. `pc` goes through the
script: the programs of a pass, each of which begins with `LoadConfig`, as a whole
or up to a death in it (`DiesLoading`),
`RemoveEvents` and `SignalRecgen`, or `StartRecgen` (which leaves the events file
where it is), the wait, and `AddEvents` (`cat`) and `AddProcessed`. recgen opens
(`OpenEvents`) and writes (`WriteEvents`) the events file in two steps, at any
point of the script's loop; a file removed in between has no name any more (`fp`).
`RatgenDies`, `ValgenDies`, `RecgenCDies`, `RecgenDDies` and `RecgenDies` are programs
that die; the script goes on, since it reads no exit status. The live recgen starts beside the script
(`CountRatings`, `Invalidate`, `Started`), which may signal it before it has a handler, and
end it so, or begin the next pass before it is up (`overtaken`). Ratings may be such that no
pair of elements gets a valence (`Barren`). A program may change `ratings.out` twice within a
second (`hasty`), and one may die with the new time noted and the old files still there
(`halfway`).
Once recgen is dead and there is no events file, the script waits for ever.

### RequestQueue, Hum

hum handles one client after the other. `AcceptClient`, `ReadHead`, `ReadBody`,
`BodyRead` are its loop up to the complete request; `ConnectToRecgen`,
`WritePart` and `ReadAnswer` its transaction with recgen: two records, each a
type, a length and a content, and one record back, each written and read in these
three pieces. The worker of recgen
is `AcceptHum`, `ReadPart`, `Dispatch`, `WriteAnswer`. A part on its way is an
entry of `to_recgen` or `to_hum`; the content of an answer is the name of the
client it was made for, or "junk" for what the uninitialised `record_out` holds, or
hum's record when it reads the end of file in place of the rest of an answer. The
exits that a client or the other process can bring about are there: a failed read or write, a head that hum cannot
read, a body as long as the buffer, a record that falls short, SIGPIPE on
either side, and the loop of hum that has no exit for a failed read
("looping"). Requests may be unsound (`Sound`): with a negative length, which hum
sends as 32 bits without a sign and then writes no such content; with a uri that does not
fit into recgen's 256 bytes; with data that a handler does not survive (the requests that
`Predictions` calls astray, crashed or overrun). `SpawnHum` is a new recgen's `killall hum` and its new hum, which may fail to bind.
Nobody starts hum again when it dies alone. `Send` and `Leave` are clients that
are slow or go away; `Shapes` are the requests that hum treats differently.

## 3. What the runs check

Passing runs:

| Run | Instance | Distinct states | Shows |
|---|---|---|---|
| `events_one_at_a_time` | 2 workers taking turns, buffer of 3, 7 requests | 27 623 | bounded buffer (`RamBound`), nothing answered is lost but by a death (`AckedHeld`), lines once and in order (`OnceInOrder`), implementation of `EventLog`, a full buffer is written (`FullIsFlushed`) |
| `hum_reload` | 1 worker, 3 generations, no assumption on timing | 40 425 | no pointer to a structure being filled (`LeashedWhole`), no announced generation is missed (`SettledIsCurrent`) |
| `fcgi_quiet_reload` | 2 workers and `main()`, 2 generations, `Patient`, `Quiet` | 3 165 | nothing freed is read (`NoDangling`), the flag covers the reload (`FlagCovers`), every signal is served by a recgen that is alive (`SignalServed`), those who wait for the flag are answered (`WaitersAnswered`) |
| `valgen` | 2 threads, 1-5 elements, 2 people, up to 11 ratings (some repeated), 2 runs | 30 594 | every element has one thread (`ExactCover`), walks stop (`CatchUpStops`), `valences.out` is sorted and exact (`MergedInOrder`, `MergedIsExact`), so is its count (`CountIsExact`), and valgen ends (`Finishes`) |
| `recgen_data` | 7 outputs of valgen, stack of 2, 4 buckets, 46 requests, 2 of 3 recommendations sent in JSON, output scale 5 | 23 007 | the sort stops and sorts (`ScansStop`, `SortedCopy`), lookups find the lines of the file (`FoundAsInFile`), the tables fit and stay close to the signed chars (`FourBitsSuffice`), the tally is the sum over the lines (`TallyExact`), the best are recommended and sent (`RecsAreBest`), a single answer is about its target alone (`SingleAsAsked`) |
| `pipeline` | 2 people, 3 elements, 3 events, 2 further passes, 2 deaths | 620 054 | saved events are in the input once (`SavedCountOnce`), caches belong to the ratings (`CountsCurrent`), recgen serves all ratings but for one kind of death (`ServesCurrent`), ratings follow the counts (`RatingsFollowCounts`), and saved events get through (`SavedAreServed`) |
| `hum` | 2 clients, 9 shapes of request, 1 kill | 1 419 682 | own answers only, junk only from a recgen killed in the middle of one (`OwnAnswer`), sound requests do not end recgen (`RecgenSurvivesHum`) and lead to no mutual wait (`OwesAnswer`), hum lives on good requests (`HumLives`), implementation of `RequestQueue` (`ServesInOrder`), every client gets a result if all requests are sound (`Served`) |

Runs that TLC must find violated, each a disagreement of the code with its own
text (quoted under `findings` in `PROJECT.json`):

| Run | Property | What happens |
|---|---|---|
| `fcgi_events_bound` | `RamBound` | two threads step over the limit, nothing is persisted again |
| `hum_reload_dangling` | `NoDangling` | a request in hand at the signal goes on with freed memory |
| `hum_reload_pcr` | `PcrFresh` | the pcr tables stay those of the first load |
| `valgen_last_element` | `LastElementPaired` | the element with the highest id never gets a valence |
| `implicit_events` | `EventsAreRead` | with -r the script appends recgen's comma-separated events to a file that ratgen splits at tabs |

The models also have the following, where the code falls short of its own texts and no run
is there for it alone; the passing properties name each as their exception, or begin
behind it.

- The README promises "an ordered list of the top 20" (`README.md` 64); recgen makes
  `RECS_BUCKET_SIZE` = 20 recommendations, and JSON, the default, sends
  `num_recs_to_make` = 5 of them (`main.c` 52, 99). `RecsAreBest` has the size of each protocol.
- A single recommendation is to be "-1 or 1..g_output_scale" (`main.c` 439); the
  protobuf serializer mends a 0 in the rating and not in the answer (308, 309). `Shown`.
- Refused requests have answers of their own (`main.c` 40, 42); the protobuf serializers read
  recommendations that are not there (283, 308). `SerializeNull`.
- "256 is max size b/c we compress slopes/offsets down to signed 8-bit" (`big_mem.c` 404);
  tenths beyond 127 wrap (469, 471, 933, 935), and ratings from 1 to 32 allow offsets up to 31.
  `Tiny`; `FourBitsSuffice` is about what the signed chars have become.
- "+1 b/c indexing starts at 1" (`big_mem.c` 1284) is missing in `create_ds()` (1428, 1436), and the
  loops that clear the indexes (364, 146) write one entry behind them. `Stored`, `Wrecked`.
- `load_config_file()` is to "Invalidate (remove) valences.out, valence_cache" when the ratings are
  new (`lib/config.c` 354); a program that ends between its note of the new time (443) and the
  removals (498) leaves old valences that all later programs take for current. `halfway`.
- "Everything's ok and we need to send the response data" (`hum.c` 330) is what hum takes from the
  first byte: recgen killed in the middle of an answer (`main.c` 1099-1101) makes it send what its
  record held before, the uri of the request. `torn`.

Bounds and why they suffice. *Events*: a buffer of 3 separates first, middle and
last slot; 7 requests fill it twice and leave one over; deaths are unbounded in
number. *Reload*: two generations are one reload, three are two that can
overlap; two workers and one other thread give a handler every place it can run.
*valgen*: with two threads, one element is fewer
than threads, 3 and 5 leave a remainder, 2 divides evenly; repeated ratings
exceed `MAX_RATN_FOR_VALGEN` = 4; `RATINGS_THRESH` = 1 makes both outcomes of the
test occur; the pair (1, 3) is never confident; two runs are a run and one after its death.
*recgen_data*: the files have ids without lines as x, as y and as both, a single
line, every pair there can be, no line at all, more and fewer slopes than
buckets, all buckets of the slopes filled beside few offsets (`FewOffsets`), and
values that a signed char does not hold (`FarFile`); a stack of 2 overflows with ten valences; the requests include people,
elements, ratings and targets that do not exist, an empty set of ratings, more ratings than the
limit, and a popularity with too few elements (the overrun); a scale of 5 has ratings
that become 0.
*pipeline*: `EVENTS_TO_PERSIST_MAX` = 1 writes at each event, the moments that
matter to the script; two further passes are one that adds events and one that
computes with them; two deaths, each of any program of the model, in `load_config_file()` before
the counting, during it and before the removals, and behind it before its output, in it, or, for
recgen, at any step. The events go to ratings of which one is barren. *hum*: with two clients one is
in hand while the other waits, or both wait; 4 is the longest body that fits
into a buffer of 6 and 5 the shortest that does not; one kill of either process
between any two of its reads and writes. No symmetry is used. What section 4 proves has none of these bounds.

Conditions. Some properties hold only in circumstances the code does not ensure;
each names them. `MergedInOrder`, `MergedIsExact` and `CountIsExact` speak of runs
that found no `valences.outN` of a dead one (`clean`): the code opens those with
"a" (`precursors.c` 314) and removes no leftovers. `SavedCountOnce` excepts events written
between `cat` and `rm` (`late`) and a recgen started anew with an events file
there (`reused`); `CountsCurrent` and `ServesCurrent` a second that was too short (`hasty`),
the latter also a program that ended between noting the new time and removing the old files
(`halfway`); `SavedAreServed` besides a pass that overtook a starting recgen (`overtaken`) and barren ratings.
The reload is safe in the FastCGI build for `Patient` and `Quiet` only: with two
handlers at once the first to end lowers the flag for both, a pass that starts during a
reload may end recgen at an assertion, and after a reload with more ratings the
index points past the ratings read at the start (`BE.num_ratings`, not modelled).
`SlopesStayClose` and `OffsetZeroIsExact` (parts of `FourBitsSuffice`) are for special values that are the
most frequent: the code takes the most frequent value for the special one. And
`SlopesStayClose` is about slopes only, and only when all their buckets are
filled: where some are not, `recgen -c` and `recgen -d` compare a value with
entries that were never written, and may number it differently in the two stores.
The buckets of the offsets start from the boundaries the slopes left and need not
be filled even if those of the slopes are; this came out in the attempt to prove the
property of both. `FourBitsSuffice` begins at the signed chars. `TallyExact`,
`RecsAreBest` and `SingleAsAsked` are about requests that stay inside the arrays; what becomes
of the others is undefined. `RecgenSurvivesHum`, `OwesAnswer`, `HumLives` and `Served` name
sound requests. With others a client alone can end recgen, or make hum and recgen wait for each other
for ever: a negative Content-Length, a uri of 256 bytes, an element that does not exist or a
popularity with too few elements is enough. What the properties show is that this does not come
about in any other way, least of all by the end of hum or by clients that are slow or leave.

Fairness. Events: weak fairness of each worker's next instruction: they are
operating system threads that nothing blocks (the model has no lock). Reload: weak fairness of delivering
a pending signal, of the handler and of a request's steps; nothing is assumed
of the script or of new requests. valgen: weak fairness of each thread and of
`main()`; not of `Start` and `Die`. Pipeline: the script and its programs go on, `cat` follows when the file
is there, recgen starts, answers its signal and completes a write it has begun;
nobody has to send events. Hum: each of the two processes takes its next step
when it can, and a client that stays sends its request; nobody has to start
recgen again. `recgen_data` has no liveness: one request at a time runs through
loops whose ends are safety properties.

`CHECK_DEADLOCK FALSE` where the bounds on passes and runs are reached, all
clients are served, or recgen is dead, and the system rightly stops.

## 4. What is proved

All proofs are checked by TLAPS for every value of the constants that satisfies
the modules' assumptions (named `...Assumption`). Every safety invariant and
every refinement that a passing run checks is stated by a theorem; where a theorem
has a further hypothesis, it is named below.

**Events** (`EventBuffer_proofs`). `TypeCorrect` needs no more. The others assume
`SerialUse`: no overlap or one worker, no failing write. They rest on one inductive invariant `IInv`: at most
one worker is busy (`OneBusy`); the counter is below the limit except between the test and the
reset (`Counted`); slots below the counter hold whole events (`WholeEvents`); file, buffer and
request in hand ascend (`Ascending`); a worker's register, stored fields and written
lines agree with the globals (`Stored`); answered events are in file or RAM and
the one in hand is newer (`Held`). `RamBound` alone is not inductive: that the
count is not already at the limit when an event comes needs `Counted`, whose
step needs `OneBusy` and `Stored`. From `IInv` follow `BufferIsBounded`,
`AnsweredEventsAreHeld` (with the bound on what a death costs, by mapping the slots
onto the ids that are only in RAM), `EventsAreWholeAndInOrder` and
`ServiceImplementsEventLog`: every step is a `Record`, `Save`, `Lose` or a stutter
of the log made of the file followed by the buffer.

**Reload** (`ValenceReload_proofs`). `ReloadTypeCorrect`. `NoReloadIsLost`
(`SettledIsCurrent`), without any assumption on timing, from `FilesCurrent` and
`CurrentOrToLoad`: between passes, with no signal pending, each structure is current or some handler still
has it before itself. `FlagCoversReload` for uses with one handler at a time
(`OneReload`, `FlagUp`, `WholeOrFilling`). `OneThreadLeashesWhole`, where the
suspended worker cannot run. `QuietReloadIsSafe` (`NoDangling` and
`LeashedWhole`) for `Patient` and `Quiet`, adding `NoneInHand` (during a reload requests
wait) and `PointersHeld` (from the pointers that `predictions()` takes to the serializer's last
look, they lead to current blocks).

**valgen** (`ValgenThreads_proofs`). `EveryElementHasOneThread` is arithmetic on
quotients. `ValgenTypeCorrect` and `WalksStop` rest on `Positions`: a walker is
at the first rating of its thread's next x, or before it when the thread has
done nothing yet; that each walk ends at the first rating of x + 1 is proved from
the sorting and from every element having a rating. `FileIsInOrder` and
`FileIsExact` rest on `ContentInv`: a thread's file has the exact blocks from
its start to its next x (`PartsExact`), `valences.out` those of the copied
threads (`CopiedExact`), and consecutive ranges meet. The walks are shown to
find exactly the pairs of the definition `CommonRatings`, through a bijection
of the rating pairs. That the input is sorted both ways with the same ratings
is the assumption `IsLoad` on `Loads`; TLC evaluates it on the loads of the run.
`CountMatchesFile` (`CountIsExact`) takes the lines of the merged file, by
`FileIsExact` those of the definition, and maps them one to one onto the pairs that are valences.

**Sort** (`QuickSort_proofs`, `ValenceStore_proofs`). That nothing is lost when the
stack is thrown away rests on *cuts*: a place is a cut when no element behind it
belongs in front of it. `left`, `len` and all ends on the stack are cuts, and
what lies in front of `left` is finished (`Nested`, `Finished`); forgetting cuts
costs time, never order. Between two swaps everything on the left of the two
scans is not above the pivot and everything on their right not below it, and
each side has an element that stops the other's scan. `SortInv` of these parts is inductive, and the set of
pairs of ids does not change. `ValenceStore_proofs` follows the valences from the
file through the sort to the copy (`CopyInv`): `ScansAlwaysStop` needs no
assumption; `SortsInFull` (`SortedCopy`) assumes `IdsFit`, that ids fit the bits
of SETELT, without which two valences may become the same.

**Store** (`ValenceStore_proofs`). The theorems about the live store are in
`Predictions_proofs`, which first shows that requests leave the store alone. They rest on
four inductive invariants, one upon the other. `CopyInv` is above. `StoreTypes` has the
domains of arrays and indexes at each step of the three programs, as each allocates them: in
`recgen -d` the indexes have no entry for the last id;
`StoreTypesAlways` follows without an assumption. `StoreInv` says at each turn
of the two fill loops that the index has the start and the number of the places
filled so far with each id (`Indexes`), and of a full store that a lookup reads
the places of an id, in order, and no others (`StoreOf`); the export that is one
entry short and the import into the longer array keep this, because the
entry that is lost, or never was there, has no valences. From it `IndexesAreExact` (`FoundAsInFile`).
`CodesInv` follows the four-bit numbers from the first pass through the sort and
the files to the live store. `FourBitsAreEnough` (`FourBitsSuffice`) needs besides
what the first pass computes: the values form a strictly descending ladder without gaps
(`Descends`), the buckets cut it into consecutive runs, each of which ends behind
the one before (`CutAt`), wherever the leftovers stand (`SameCut`), an average lies between the
ends of its run, and a number is the last bucket whose ends enclose the value. It speaks of the
values after the cast to a signed char, not of the lines'. Both assume `IdsFit`.

**Predictions** (`Predictions_proofs`). `RecommendsTheBest` (`RecsAreBest`), with no
assumption: `PickInv` says that the walk has taken all elements of the target
popularity that it has passed, that the sorted working set holds each element once, and that an
answer is what its protocol makes of the twenty that were picked (`Serialized`); the best
`num_recs_to_make` of these are the best of all (`PicksAreBest`, `PicksDiffer`). For
`TalliesEveryLineOnce` (`TallyExact`) and `SinglesIgnoreOwnRating` (`SingleAsAsked`)
the invariant is `TallyInv`: after k ratings each sum and number is that over the lines
that pair the element with one of the first k rated ones. Each step is one term of
a sum, which needs what the indexes find (`StoreInv`), that two elements share at most one line,
which is found in one of the stores only, and that no line pairs an element with itself,
so that a person's own rating of an element says nothing of it. Both assume `IdsFit`, and speak of
requests that stay inside the arrays: of one that is "astray" there is nothing to say.

**hum** (`Hum_proofs`). One inductive invariant `HumInv` for any clients, requests and
deaths. `Counted` is its heart: as long as hum's end of a live connection is open, the parts hum has
written are those recgen has read and those under way, unless the length hum sent is negative.
`Halves` is the same for the three pieces of the answer: those recgen has written are those hum
has read and those under way, a content comes with the third, and if the connection is gone with
only some of them there, recgen was killed between two writes (`torn`). `Linked` says what the
position of each program tells of its end, and that a connection outlives hum's
end only if hum was killed; `Answers` that a request is handled once, and that an
answer stays with the connection it was made for, of which there is one at a
time; `Queueing` that a client has one place; `Alive` what holds while nobody
left and nothing was killed. From it follow `AnswersAreOwn`, `RecgenOutlivesHum`,
`NoMutualWait`, `HumStaysUp`, and `HumImplementsRequestQueue`: each step is an
`Arrive`, `Refuse`, `Finish`, `Tear`, `CloseAll` or a stutter of `RequestQueue`. A client whose
answer was torn may get junk; the theorems say that no other client with a known uri does. That
recgen is not ended, and that the two do not wait for each other, is for sound requests
only (`Sound`): others do both.
`HumTypesAlways` (`HumTypeOK`) is more than types: what is on the connection at any moment is a
run of the parts of the two records, in the order hum writes them.
`OwesAnswer` is far from inductive by itself: that recgen has something to read
needs the count of parts, the length of the body at both ends, and that hum
never connects while an old connection is alive.

**Pipeline** (`Pipeline_proofs`), for any input, events and deaths of programs. For
`SavedCountOnce` the invariant is `Account`: what is in the input and the events file is exactly
what was saved (late events aside), the buffer of recgen has what is in neither; outside the wait
the file has nothing that is not in the input, so that it may be removed; and
from its removal to the next append it has nothing that is, so that appending counts nothing
twice (unless recgen was started beside it). For `CountsCurrent` and
`ServesCurrent` it is `CacheOK`, that whatever stands beside an `rmetacache.txt` with the
time of `ratings.out` comes from these ratings, kept by each program that may die
in the middle, except in `load_config_file()` between the new time and the removal of the
old files (`Loose`), and `Checked`, that from valgen's end to the next append the time is this
one. Both theorems assume `NoFileApart`: the mark of a missing file differs from
what a program writes. For `RatingsFollowCounts` it is `RatedInv`: the lines of the
beginning have all their fields, and what valgen finds is what ratgen made of the
events, if nothing died. The rest is about `RatingsFile`: the pairs of ids are ordered and
so numbered without gaps (`EntriesAre`), the highest count of a person is that of
an element of its own (`MostIs`), and the first threshold above a ratio is the
next 32nd (`RatingIs`), but for number 26.

Sums and the recursive functions of `SlopeBuckets` are within reach although
induction over data is not: a lemma that fails for some set or number fails for
a smallest one (`MinExists`, `FewestExist`), which is then shown not to fail.

Only model-checked: the liveness properties (`FullIsFlushed`, `SignalServed`,
`WaitersAnswered`, `Finishes`, `SavedAreServed`, `Served`), since the provers have
neither fairness nor ENABLED. `NoDangling` and `RamBound` without their
conditions, `PcrFresh`, `LastElementPaired` and `EventsAreRead` do not hold.

## 5. What is not modelled

- Floating point (`linefit`, `spearman`): which pairs are confident, and their
  slopes and offsets, are inputs.
- JSON, protobuf and HTTP as texts: a request is a record, and one that cannot be
  read is a shape of its own; of the two protocols the models have what they keep of an answer.
- What the program does after it has read or written outside an array: the request is then
  "astray", "crashed" or "overrun", `recgen -d` `Wrecked`, and its behaviour is not followed.
- The start of recgen in `ValenceReload` is one step: a signal between the
  registration of the handler (`main.c` 1221) and the end of the first load is not seen.
- The read of `brds[num_ratings]` one past the end (`precursors.c` 79) is modelled as
  finding no x; the reads of ratgen behind its last event are left out,
  as is the write of `freqs[-1]` for an element 0 (ratgen `main.c` 281).
- The reading of the configuration file (`lib/config.c`): its values are constants.
- The line-by-line reading of ratings in `big_rat.c`, with its fixed-size fields;
  which files it refuses is in `Pipeline` (`Acceptable`).
- The number of ratings read by a reload (`BE.num_ratings`), see section 3.
- The fallbacks of the store for machines with little memory.
- `test-accuracy`, an offline client; the helpers without state; yyjson
  (vendored), `recgen.pb-c.c` (generated), and the build files and input scripts.

## 6. What could come next

- A refinement of the store by an abstract one, the set of valences of a
  generation, which would join `ValenceReload` and `ValenceStore`.
- A module of the ratings store that reads a file line by line.

## 7. Running it

    tlc -config EventBufferSerial.cfg EventBuffer
    tlc -config ReloadHum.cfg ValenceReload
    tlc -config ReloadFcgi.cfg ValenceReload
    tlc -config Valgen.cfg MCValgen
    tlc -config Recgen.cfg MCRecgen
    tlc -config Pipeline.cfg MCPipeline
    tlc -config Hum.cfg MCHum
    tlapm EventBuffer_proofs.tla

and likewise for the other modules of proofs. The configurations of the violated
runs are `EventBufferRaceRamBound.cfg`, `ReloadHumDangling.cfg`, `ReloadPcr.cfg`,
`ValgenLastElement.cfg` (with `MCValgen`) and `ImplicitEvents.cfg` (with
`MCPipeline`). `PROJECT.json` names the module and the configuration of every run, the mutant that shows
each property can fail, and the source lines of every definition.
