# Formal models of dSpaceX

dSpaceX explores ensembles of designs: a C++ server loads datasets, computes the
Morse-Smale decomposition of a field over the samples and answers a browser
client over web sockets. This directory holds TLA+ modules of the parts whose
correctness depends on state, order and failure, the TLC configurations that
check them on small instances, and TLAPS proofs of what can be shown for every
instance.

## The system

| part | source | state | operations | interacts with |
| --- | --- | --- | --- | --- |
| Controller | `server/Controller.cpp` | dataset, its id, analysis and its key, distance matrix | 19 command handlers, `maybeLoadDataset`, `maybeProcessData` | called by the transport, one message at a time; loads datasets, runs analyses |
| Dataset, loader, models | `lib/dspacex`, `lib/pmodels` | fields, geometry, embeddings, models per field and level | load from YAML, accessors, model evaluation | owned by the Controller |
| HDProcessor | `lib/hdprocess` | results per persistence level, a global reference point | analysis of a field, level by level | drives the Morse-Smale complex |
| Morse-Smale complex | `lib/morsesmale/NNMSComplex.h` | gradient, extrema, merge chain, persistence map, crystals | constructor, `mergePersistence`, `getPartitions`, accessors | nearest neighbours from `lib/metrics`, `lib/utils/Heap.h` |
| Nearest neighbours, heap, shortest paths | `lib/metrics/Distance.h`, `lib/utils`, `lib/graph/GraphAlgorithms.h`, `lib/dimred/Isomap.h` | elements and the two index arrays of a heap; keys, paths | `findKNN`, `dijkstra`, `all_pairs_dijkstra`, the operations of the heap | called by the complex and by the layouts |
| Web socket transport | `lib/serverlib` | poll list, sessions by descriptor, record of the text sessions | accept, handshake, frames, close, poll | hands commands to the Controller; one thread serves all sessions |
| Server main | `server/server.cpp` | - | make the controller, start the server, wait | starts the thread of the transport |
| Client RPC | `client/src/data/client.js` | sockets, message index, callbacks by message | connect, one method per command | events to the application |
| Application, panels, windows | `client/src` | selected dataset, field, level, fetched data | user input, answers | fetch through the RPC, share the server's single cache |

What is hard in it: every client shares one Controller that holds one dataset and
one analysis; loading and analysing fail at many points, and what is left in the
members decides what the next request may reuse; the merge hierarchy is built by
draining a map that is written while it is drained, and every level is obtained
by replaying it; the transport serves a list that it changes while it goes through
it; the browser fires overlapping requests and reads its own state
after each answer. The hazards are listed one by one, with their lines, in
`PROJECT.json`.

## The modules

### Controller

`Controller.tla` models `server/Controller.cpp`. A handler is one action, as
libwebsockets runs handlers to completion on one thread. The members are one
record `m`; `server` is `"down"` once the process has died; `reply` is the last
request with what was sent back, so that a property can relate an answer to its
question. A piece of a handler ends with one of three flows: it returns, throws a
`std::exception`, which `handleText` catches without replying, or takes the
process down (a null dereference, an index out of range, a thrown `const char *`).
`maybeLoadDataset` and `maybeProcessData` return the set of ways they can end,
each with the members it leaves. Argument checks come in the code's order: where a
handler verifies the field name against the dataset of an *earlier* request, so
does the action.

Sample data is abstracted to provenance. An analysis is the record of the dataset,
category, field name, neighbour count and distance matrix it was computed from;
`rewritten` remembers which fields an analysis has normalised in place. The
contents of images, regressions and layouts are left out; failures while they are
made are outcomes of the action. Without geometry of its own a dataset is analysed
over the matrix in `m_currentDistanceMatrix`: that of another dataset, which need not
fit the values (`Dies`), or one never assigned, whose zero columns cannot give the
three eigenvalues the layout asks for (`MetricMDS.h:51`), so that no analysis comes of
it. `fetchKNeighbors` asks `findKNN` for the request's k without comparing it with the
number of samples (`SampleCount`): more than there are are taken from an empty heap,
which writes before its arrays, and the handler returns or takes the process down.

### NNMSComplex and HDProcessor

`NNMSComplex.tla` models the constructor of the complex and its public operations,
one action per loop body: gradient, paths (start, follow, end), the persistence of
neighbouring extrema, then the recursion (`PopMerge`, `FollowChain`, and one of
`Discard`, `Postpone`, `Merge`), the replay in `mergePersistence` (`PopReplay`,
`FollowChain`, `ReplayMerge`), the compression of the chains and `mergeCrystals`.
An extremum is its kind and its sample in place of a running number, and a crystal
its pair of extrema; orders that depend on the numbers (which of two pairs with
one persistence the map keeps) are reproduced by `Before`. Values are integers, and
slopes are compared by cross-multiplication. Ties between slopes are resolved
either way, as they depend on the order of the loop.

The fields are those `addNoise` and the smoothing leave behind: any field with
different values (`NNMSComplexAssumption`). Smoothing can in principle make two
values equal again; such fields are outside the model. The neighbour lists are
given, without the sample itself.

`HDProcessor.tla` adds the loop of `processOnMetric`: where the levels start, and
for each a merge followed by a reading of partitions and crystals. It EXTENDS
`NNMSComplex` and shares its variables.

### Client

`Client.tla` models `client/src/data/client.js` with those who call it: the
connection dialog and the listeners of the application. An action is one task of
the browser's event loop, together with the microtasks that run before the next.
`page` holds the members of the three objects; each attempt to connect has its own
pair of sockets and its own traffic, as `connect()` replaces the sockets and leaves
the former ones open with their handlers attached. Handlers look at the sockets the
client holds *now*, whichever socket reported, so that the same action is right for
a current and for a former attempt. A promise records the command that was answered
when it was resolved. The server is reduced to `handleText`: it answers in order, or
not at all when a handler throws (listing the datasets never does).

`RemoteCall.tla` is the abstract specification of it: calls that are made, handled
at most once, and resolved at most once, by the answer given to them; what is under
way may be lost. It knows no ids, callbacks, sockets or order. `Client` implements
it under the mapping `Calls`: the calls are the promises, and those requested and
answered are the ones the messages on any socket are about.

### Panels

`Panels.tla` models what the page and one of its windows show: the choice in the
dataset panel, `Application.onDatasetChange`, the decomposition panel with its
category, field and level, and the curves in the Morse-Smale window. The commands
of a connection are handled and answered in order, so `wire`, one queue, stands for
server and network; what a task of the page asks is appended, and `Answer` runs
everything that waited for the oldest command. After an awaited answer the code
reads its state anew, and so do `PersistenceFetched` and `LevelFetched`. Windows are
numbered: an answer for a panel that is no longer mounted goes on with the state it
had (`former`). The server keeps the dataset it has loaded and verifies field names
as `Controller` does. `refused` remembers whether it refused a field that the
dataset asked about has. The two commands of the Morse-Smale window, for curves and for
extrema, are sent together and waited for together, and are one command here.

### Transport

`Transport.tla` models what stands between the sockets and `handleText`: one round
of `libwebsocket_service` after the other, on the one thread of the server.
`fds` and `fdsCount` are the list that is given to `poll()`, in its order and with
the events of places out of use, as the code reads and copies both; `n` is the entry
that is served, 0 between two rounds. `Poll` fills in the events; each of the actions
of `Service` serves the entry at `n` and goes on to the next one with an event *in
the list as it is then*: `CloseSession` moves the later entries up, so that the one
after is passed over until the next round, and `Accept` adds one in a place that may
still hold the events of a former session. `wsi` and `nClient` are the record of
the text sessions that `callback_ui_text` keeps, with an allocation that may fail.
A session is its descriptor, and the lowest free number is given to the next, as the
operating system does. The peers may send, close, or be lost at any time; a frame is
a handshake for one of the two protocols, a command or a close frame. `recv` takes
one or more of the frames that have come, as they may arrive together, and
`HandleFrames` is what becomes of them. A close frame with a payload ends the session;
one without (a plain `close()` of a page) is never seen to be complete, and the session
stays until the connection goes. Accepted sockets are left blocking, so that an answer
for which there is no room keeps the thread in `send()`: `sending` holds the number of
frames in hand from `SendBlocks` to `SendReturns`, and meanwhile only the peers act.
`send()` returns when the peer has read, or with an error, which nobody minds, when it
has left. The short answer to a handshake always has room. A handler
that lets an exception pass ends the process (`HandlerThrows`); what `handleText`
makes of a command is in `Controller`. `main` is `server.cpp`: it starts the thread
or gives up, and then waits for a flag that nothing clears.

Left out: SSL, extensions, plain HTTP requests, `POLLOUT` (`parsers.c:1532`
asks for it when the socket is full after a `send()`, but nothing is left to be sent),
a closing handshake begun by the server and its timeout (nothing closes a session
from that side), the broadcast sockets (nothing broadcasts; they hold places in the
list and are never ready), and clean-up, which is not reached.

### PriorityQueue, MinHeap and Searches

`PriorityQueue.tla` is what the users of the heap count on: every element has a key,
some are in the queue, the one taken out is one of the smallest, and the key of one
that is still in may fall. `MinHeap.tla` is `lib/utils/Heap.h` and `MinHeap.h`: the
elements by place, the index of an element at its place and the place of an index,
`heapify`, the exchanges, and the three operations the program uses. An
operation starts a sift (`sift`), and each level of it, in either direction, is a step of
its own; `extractRoot` and the others wait for it. `MinHeap` implements `PriorityQueue`
(`ImplementsQueue`): its queue is what lies before the end of the heap.

`Searches.tla` EXTENDS it with the two that use it. A search is of a row of distances
(`findKNN`: build a heap, take out k + 1) or of a graph of neighbours
(`dijkstra`, once from every node: take out the nearest, relax its neighbours), and
one iteration of its loop is one action. The heap's variables are the heap of the
search at hand, and every step of a search uses it as `MinHeap` allows (`UsesHeap`).
`Infinity` is the largest number of the type, and `Plus` what the code computes
beyond it. A search of neighbours is asked for by the complex, whose constructor takes
no more of them than there are points, or by `fetchKNeighbors`, which takes the number
its client sent (`caller`, `Columns`). A heap that is asked for an element when it is
empty ends the model there (`Overrun`).

`Heap::insert`, `MaxHeap`, `floydWarshall` and `KNNNeighborhood` are not called by
the server and are left out.

## What is checked

Each run of the check is a `.cfg`; "violation" runs each show one place where the
code does not do what one of its comments says.

| run | instance | shows |
| --- | --- | --- |
| `controller` | 2 datasets, one of them with 3 samples, 2 field names, 3 or 4 neighbours, 2 levels; one dataset without geometry; one name that is both parameter and quantity of interest | after any sequence of requests and failures: members belong together, answers made from an analysis are of the dataset, name and count asked for, levels of models are in range |
| `current_id` | same | finding: after a failed load the id names a dataset that is not there |
| `category` | same | finding: the category is not part of the cache key |
| `geometry` | same | finding: an exception is constructed and not thrown; the distance matrix of another dataset's analysis is used |
| `hdprocessor` | 6 samples on a ring, all orders of six values (up to half a turn), 3 shapes of neighbour lists | samples climb to real extrema, merging climbs, every level has one extremum less, levels are nested, no merge is lost in the recursion, the analysis ends |
| `neighbours_joined` | same | finding: pairs with equal persistence overwrite each other, so neighbours below the level stay apart |
| `client` | 2 attempts to connect, 2 commands besides those of `onConnect` | answers resolve their own promises, also late and on former sockets; no answer lacks its callback; the dialog and the application see a connection that is up; ids, callbacks and connections implement `RemoteCall` |
| `promises_settle` | 1 attempt, 2 commands | finding: promises stay pending |
| `panels` | 2 datasets, 2 fields, 6 inputs, 1 command without an answer | the page is complete and of the dataset chosen last, the window is of that dataset, and in the end crystals, announced decomposition and curves are those of the panel |
| `scene` | same | finding: curves of two decompositions in one scene |
| `transport` | a list with room for the listener and 2 sessions, 3 connections, 4 frames, 2 failures | the list holds every open session once, the record of sessions is right as long as memory lasts, no session ends without a cause, and every session is served and ended in spite of the entries passed over and of peers that read late, unless one never does |
| `searches` | 5 points: lengths 0, 1, 3 or infinite from the first, 1 or infinite from each to the next (2048 matrices), 3 or 6 neighbours asked for, by the complex or by a client | the heap stays a priority queue and is used as one, neighbours are the nearest and as many as asked for, lengths are those of the shortest paths, both searches end; only a client can ask an empty heap for more |

Why the bounds are enough. The Controller compares ids, names and counts for
equality only, so two of each already give every pattern of agreement between what
is cached and what is asked; of the two numbers of neighbours one is that of the
samples and one is more; the maximal levels (1 and 0) and the models' levels
(0, 1 and 2) give a model index that is negative, in range and out of range.
`MCView` merges states that differ only in the request of a reply without data,
which no action or property reads. Six samples on a ring carry up to three maxima
and three minima, each the neighbour of the other two, the least with which a pair
is postponed and one is discarded because its ends were merged by way of a third;
the values 1 to 32 make differences of values coincide only when they share a
sample, the case that occurs in real fields, and which the violation uses.
Two attempts to connect give a former and a current pair of sockets; a third would
be former to both in the same way. Two commands and the lists asked for by
`onConnect` make answers overlap on one socket and arrive late on another. In
`transport` two sessions are the least with which closing one moves the other up and
is not the last, three connections are one more than the list has room for, so that
one is refused or uses a descriptor again; four frames are a handshake and three more, or two of
each, so that one send can block with another frame in hand; two failures are an
allocation lost and what follows from it. In `searches` five points make a heap of
three levels, with a left and a right child that are both candidates and a parent
with one child; the six asked for are more than there are; and with two ways to most
points keys fall once or twice before they are taken out. In
`panels` the shortest way to two overlapping decompositions takes four inputs
(dataset, window, field, level), and the refusal of a listed field six; one more
input (7 million states) shows nothing else. The fields are chosen so that a
category may lack the field, and a field the level, that the panel still has. One
unanswered command is what the properties make an exception of, so that more add
nothing. Every action of the models occurs.

`CHECK_DEADLOCK FALSE` is used where the system may stop: after the process has
died, after the analysis is complete, and when the user does nothing more.

Fairness. `HDSpec` and `Spec` of `Searches` assume weak fairness of the next step: the
computations are loops of one thread that nothing blocks. `Transport` assumes it of
the steps of the thread while it is not waiting in `send()` (`Poll \/ Service`), as
`serverThread` begins a round every 50 ms for as long as the process lives, and of the
return of a `send()` whose peer has left, which the operating system sees to. Of a peer
that stays nothing is assumed, not even that it ever reads: `EveryoneServed` says what
becomes of the others if the thread is not held by one such peer for ever. Nor is
it assumed that a session is served *within* a round. `Spec` of the Controller has
none, since no client need ever send a request, and neither has `Panels`, whose properties are about the states
in which nothing is under way. `Client` assumes that an attempt to open a socket ends
one way or the other, as the browser's time limit sees to, that the server handles
what has arrived (no other page holds its thread for ever, see `Transport`) and that
answers are delivered unless the socket closes. Nothing
is assumed of the user, nor that a connection ever fails.

Every property has a mutant of the code that violates it; the mutants are defined
beside what they change and marked as such.

## What is proved

`ControllerProofs.tla`, `NNMSComplexProofs.tla`, `HDProcessorProofs.tla`,
`ClientProofs.tla`, `PanelsProofs.tla`, `TransportProofs.tla`, `MinHeapProofs.tla` and
`SearchesProofs.tla` prove for all values of the constants, under the named assumptions
of the modules alone, every invariant, action property and refinement that the passing
runs check:

* Controller: all eight invariants of the run. The inductive invariant (`IInv`)
  adds what holds between an analysis and the reply made from it, and that the
  matrix, once assigned, is of a dataset. It is needed because
  `AnalysisAnswersRequest` follows from the early return of `maybeProcessData` only
  if the key in the members is the key of the analysis in memory. The proof goes by
  the outcome of `maybeLoadDataset`, then of `maybeProcessData`, then of the reading
  of the result, and has one lemma per handler.
* NNMSComplex: types, `ExtremaAreExtremal`, `MergeClimbs`, `EverySampleInCrystal`
  and `NoMergeOverwritten`. The invariant adds that the sample a path has come to
  is at least as significant as all it passed (`PathClimbs`), that the gradient
  climbs, and that merging is closed over the extrema found. `NoMergeOverwritten`
  rests on `Drained`: everything merged lies below the entry in hand, and that below
  everything still in the map, which a postponement keeps as it only ever raises a
  persistence.
* HDProcessor: that the loop over the levels uses the complex by its operations alone
  (`LevelsAreCalls`: what is proved of the complex holds of it), types, that every level
  has one extremum less than the one before (`LevelsMergeOne`) and that the levels are
  nested (`Nested`), for any finite number of samples, any values whose differences stay
  below `Top` and any neighbours. The recursion is where this is decided. What it records
  is a forest (`Recorded`): an extremum points to the one it was merged to, which is more
  significant (`MergesClimb`), and is in no merge recorded later (`MergedOnce`). Hence
  replaying the first entries by persistence, with the chains followed anew, gives the
  first part of the same forest (`Replayed`), in which as many extrema are merged as there
  are entries below the level (`BelowCounts`, `MergingCounts`). The persistence of a
  level may lie anywhere between two entries: levels are numbered from above, and
  the one asked for, counted down from the number of entries, gives a set of entries with
  one more than the level before (`LevelsGrow`). Compression ends each chain at its root
  without changing it (`ForestShortened`, `ShortenedEnds`). Two extrema with one root at
  one level have one at the next: of those without, the last merged could not be
  without (`Coarser`). So the crystals, pairs of roots, only ever grow together.
* Client: types, `AnswersOwnCommand`, `CallbackKept`, `OpenEndsConnecting` and,
  beyond what the run checks, that the application is connected only while some text
  socket is open (`ConnectedMeansAlive`), for any number of connections and commands.
  The invariant
  says that the promises come in the order of their ids, so that a callback is found
  under the number of its promise (`Callbacks`, `CallsOK`), and that what is under
  way on any socket is of pending promises that have their callback (`Carried`),
  nothing being under way twice (`Once`, `Apart`): resolving one promise then takes
  the callback from no other message. Messages are only on open sockets, which is
  why a socket that closes loses no more than its own; sockets not made yet are
  unused (`Unused`), so that a command after an answer has a socket to go to; and
  the dialog listens as long as it is connecting. The lemmas on sequences
  (`Shortened`, `Lengthened`) carry all this over a message that goes or comes.
* Client implements RemoteCall (`Implements`): under the same invariant every step
  of the client maps to a step of the calls or to none. `Once` makes the handling of
  a message the handling of its command for good, and `Callbacks` makes the promise
  that is resolved the one the message is about.
* Panels: types, `FieldsComplete`, `WindowOfCurrentDataset` and `LastDatasetShown`, for
  any datasets, fields and levels, any number of inputs and any command that gets no
  answer. The invariant is about the order of the queue: the fields of a dataset are
  known or wait before its embeddings (`FieldsAhead`), and the dataset chosen last is
  the last that is asked for, then the last whose embeddings are, then the one shown
  (`LastChosen`). A command of a window names the window that asked and, if that
  window is still there, the dataset shown (`WireOK`). `Follows` says how a step changes
  the queue, and one lemma for each part carries that part over it. Assumed are that
  datasets list finitely many fields, that there is a field and a category for
  quantities of interest, and that null is no object (`NoneAssumption`).
* Panels settle (`SettledAlways`): a second invariant (`SInv`) on top of the first. Of the
  commands of one kind that a window sent, only the last counts. As long as the field
  chosen is one of the dataset's, the last request for its levels is for that field; when
  none is left, the panel has the levels of that field, and the last request for a level
  is for the one it shows; when none of those is left either, crystals and announced
  decomposition are of it (`PanelFollows`), whatever the answers before did to them. What is
  announced is drawn, or on its way to be (`SceneFollows`). A failed answer breaks this
  only if the server refused what the dataset has, as level and field of the last request
  are in range (`RefusalSettles`).
* Transport: types, `PolledOnce`, `RecordOfSessions` and `ClosedForCause`, for any room in the list and any number of connections and failures. The invariant
  states the list as a one-to-one listing of the listener and the open sessions
  (`ListOf`), which the lemmas on `AddFd` and `RemoveFd` keep; the record likewise
  (`RecordOf`), which `Compacted` keeps; and that all established text sessions are on
  record unless memory failed (`AllOnRecord`), without which the count, which falls in
  any case, would cut off the last entry. For `ClosedForCause` it adds what the events
  of an entry still to be served say of its session (`EventsInv`), and that frames in
  hand while the thread waits are still in the inbox (`InHand`).
* MinHeap: types, that the index arrays are inverse to each other and to the elements
  (`StaysInverse`), the order of the heap (`StaysInOrder`), and that the heap implements
  `PriorityQueue` (`HeapIsQueue`), for any number of elements. The invariant says
  that in the middle of a sift order is broken at one place only, and that the key
  above that place is no greater than the keys below it, so that an exchange mends what
  it leaves behind; while the heap is built the order holds from the place reached on.
  That the root is a least key follows by taking the first place that has a
  smaller one.
* Searches: types, `UsesHeap`, `NeighboursNearest`, `EnoughNeighbours` (the neighbours of
  a row and what is left in its heap are always all the points, `Counted`), and that the keys in the heap are the
  lengths found so far (`KeysStayPaths`), for any matrix of lengths. The invariant says that
  what was settled is no farther than anything in the heap, and that what was taken
  last is the farthest of it, so that an extremum already taken out is never asked to
  change its key.
* Searches find shortest paths (`PathsAreShortest`), for any symmetric matrix with zeros on
  its diagonal, sums cut off at `Infinity`. The reference `Within` gives the lengths of
  shortest paths of so many edges. The invariant (`PathsSoFar`) says that a length
  found is of some path of no more edges than nodes were taken out (`Within` is no
  longer), and that edges from settled nodes are relaxed. In the end all are, and of
  the numbers of edges with which `Within` would undercut a row that no edge makes
  shorter there is no first (`NoShorter`). Complete rows are symmetric, as the way back
  is as long (`Symmetric`), so that `embedAdj` loses nothing when it mirrors the matrix.
  That the recursive function `Within` has values at all is `WithinRows`.

Only model-checked: liveness (`StaysUp` of the client, `EveryoneServed` of the transport,
`SearchesEnd` and `Terminates` of the computations), as the provers know neither fairness
nor `ENABLED`. The six statements of the runs that expect a violation are false and cannot
be proved. No module has a `RECURSIVE` operator, and no proof uses induction over data:
where one would, it takes the first, the last or the least counterexample
(`RootIsLeast` in `MinHeap`, `Coarser` in `HDProcessor`, paths in `Searches`), which exists
because there are finitely many places, keys or edges.

## Findings

1. `Controller.cpp:1088` - the test of the id is passed after a failed load, and
   the handler dereferences a null dataset (`CurrentIdMeansLoaded`).
2. `Controller.cpp:1153` - a parameter and a quantity of interest of one name share
   a cache entry (`CategoryAnswersRequest`).
3. `Controller.cpp:1203` - the exception for a dataset without geometry is constructed
   and not thrown: it is analysed over the matrix that an analysis of another dataset
   has left behind (`AnalysisOfOwnGeometry`).
4. `NNMSComplex.h:528` - merges are lost when persistences are equal
   (`NeighboursJoined`).
5. `client.js:483` - nothing settles the promise of a command that is not answered
   (`PromisesSettle`).
6. `morseSmaleWindow.js:81` - the scene is reset too early when answers overlap
   (`SceneShowsOne`).

Seen in the models, and not judged by a run because no document says what should
happen: a socket that closes without an error before the other opens leaves the
dialog connecting (`client.js:509`); a field is looked up in the dataset of the
request before, and refused although the one asked for has it (`Controller.cpp:258`,
`refused` in `Panels`); a session that could not be recorded for want of memory is
counted out all the same, so that the record is one short of those that are open; when
all are gone the count is -1, and as no bytes are then asked for and refused, nothing
later is ever recorded (`server.c:374`). One peer that stays and does not read its
answer stops the server for everybody (`parsers.c:1460`). A close frame without a payload
is read but neither answered nor followed by the end of its session, which lasts until the
connection goes (`parsers.c:723`). `fetchKNeighbors` asks for
more neighbours than there are (`Controller.cpp:226`). `server.c` reallocates its table of servers
(line 476) and destroys contexts under their threads (line 512), but the program
starts one server and never comes to the clean-up.

## Not modelled

Floating-point numerics (embeddings, regression, model evaluation, kernel
statistics), file parsing, rendering, the legacy viewer and command line tools.
Their results do not influence control except by failing, which the models
allow at each point where it can happen. Most lines of the repository are vendored
libraries (libigl, boost, jsoncpp, lodepng, yaml-cpp), whose code the server calls
for numbers and formats only; the parts that carry the program's own state are the
ones above.

## What is left

1. Picking in the Morse-Smale window (`fetchCrystalPartition` answers of whatever
   analysis came last), and two pages that share a server.
2. `HDProcessor` - several analyses in one process, with `globalMin` and `extsOrig`
   of the alignment of layouts.
3. The filters, histograms and embedding windows of the client.
