------------------------------- MODULE Panels -------------------------------
(***************************************************************************)
(* What the page shows while answers are under way: the dataset chosen     *)
(* (datasetPanel.js, Application.onDatasetChange), the field, level and    *)
(* crystals of a window's decomposition (decompositionPanel.js,            *)
(* windowPanel.js) and the curves drawn of it (morseSmaleWindow.js).       *)
(*                                                                         *)
(* The commands of one connection are handled and answered in the order    *)
(* sent, so that a single queue stands for the server and the network.  An *)
(* action is a task of the event loop: an input of the user, or an answer  *)
(* with everything that waited for it.                                     *)
(***************************************************************************)
EXTENDS Naturals, FiniteSets, SequencesExt

CONSTANTS
    None,           \* nothing chosen: '' or null
    Undefined,      \* what an answer that carries an error has for a level
    Dataset, Category, Field,
    Listed,         \* per dataset, the <<category, field>> pairs it has
    MaxLevel,       \* per field, its last persistence level; the first is 0
    MaxChanges,     \* bound: inputs of the user
    MaxUnanswered   \* bound: commands whose handler throws

ASSUME ConstantsAssumption ==
    /\ None \notin Dataset /\ None \notin Category /\ None \notin Field
    /\ None \notin Nat /\ Undefined \notin Nat /\ Undefined # None
    /\ "qoi" \in Category /\ Field # {}
    /\ Listed \in [Dataset -> SUBSET (Category \X Field)]
    /\ \A d \in Dataset : IsFiniteSet(Listed[d])
    /\ MaxLevel \in [Field -> Nat]
    /\ MaxChanges \in Nat /\ MaxUnanswered \in Nat

VARIABLES
    datasetPanel,  \* its choice, and the dataset it describes
    application,   \* the dataset shown, the call of onDatasetChange that
                   \* fetched its fields, and whether there is a window
    collected,     \* per call of onDatasetChange, the fields fetched
    panel,         \* the window's decomposition panel
    decomposition, \* the window's decomposition, as announced by its panel
    scene,         \* the analyses whose curves the window has drawn
    instance,      \* windows made so far
    former,        \* what the panels of the windows removed go on asking for
    wire,          \* the commands not yet answered
    unanswered,    \* the commands that never will be
    refused,       \* has the server refused a field its dataset has?
    loaded,        \* the dataset the server has in memory
    changes        \* inputs of the user so far

vars == <<datasetPanel, application, collected, panel, decomposition, scene,
          instance, former, wire, unanswered, refused, loaded, changes>>
window == <<panel, decomposition, scene>>
windows == <<instance, former>>
server == <<unanswered, refused, loaded>>

Level == UNION {0 .. MaxLevel[f] : f \in Field}

Request ==
    [kind : {"fetchDataset", "fetchField", "fetchEmbeddingsList",
             "fetchMorseSmalePersistence", "fetchMorseSmalePersistenceLevel",
             "fetchMorseSmaleRegression"},
     origin : Nat,   \* the call of onDatasetChange or the window that asks
     dataset : Dataset, category : Category \cup {None},
     field : Field \cup {None}, level : Level \cup {None}]

NewPanel ==
    [mode |-> "Morse-Smale", category |-> "qoi", field |-> None,
     maxPersistence |-> None, persistenceLevel |-> None, crystals |-> None]

Init ==
    /\ datasetPanel = [datasetName |-> None, dataset |-> None]
    /\ application = [currentDataset |-> None, call |-> 0, windows |-> 0]
    /\ collected = <<>>
    /\ panel = NewPanel /\ decomposition = None /\ scene = {}
    /\ instance = 0 /\ former = <<>> /\ wire = <<>>
    /\ unanswered = {} /\ refused = FALSE /\ loaded = None
    /\ changes = 0

-----------------------------------------------------------------------------
(* The dataset.                                                            *)

Change == changes < MaxChanges /\ changes' = changes + 1

Ask(kind, origin, d, c, f, l) ==
    [kind |-> kind, origin |-> origin, dataset |-> d, category |-> c,
     field |-> f, level |-> l]

\* handleDatasetChange.
ChooseDataset(d) ==
    /\ Change /\ d # datasetPanel.datasetName
    /\ datasetPanel' = [datasetPanel EXCEPT !.datasetName = d]
    /\ wire' = Append(wire, Ask("fetchDataset", 0, d, None, None, None))
    /\ UNCHANGED <<application, collected, window, windows, server>>

\* onDatasetChange(null) throws: the application keeps its dataset.
ChooseNoDataset ==
    /\ Change /\ datasetPanel.datasetName # None
    /\ datasetPanel' = [datasetName |-> None, dataset |-> None]
    /\ UNCHANGED <<application, collected, window, windows, wire,
                   server>>

FetchFields(call, d) ==
    SetToSeq({Ask("fetchField", call, d, x[1], x[2], None) : x \in Listed[d]})

FetchEmbeddings(call, d) ==
    <<Ask("fetchEmbeddingsList", call, d, None, None, None)>>

\* Mutant: the embeddings are asked for first.
onDatasetChangeEmbeddingsFirst(d) ==
    LET call == Len(collected) + 1
    IN  /\ collected' = Append(collected, {})
        /\ wire' = Tail(wire) \o FetchEmbeddings(call, d)
                              \o FetchFields(call, d)

\* Mutant: a dataset that is shown already is not fetched again.
onDatasetChangeIfNew(d) ==
    LET call == Len(collected) + 1
    IN  IF d = application.currentDataset
        THEN wire' = Tail(wire) /\ UNCHANGED collected
        ELSE /\ collected' = Append(collected, {})
             /\ wire' = Tail(wire) \o FetchFields(call, d)
                                   \o FetchEmbeddings(call, d)

\* The answers to the fields are pushed into arrays nobody waits for; only the
\* list of embeddings, asked for last, is waited for.
onDatasetChange(d) ==
    LET call == Len(collected) + 1
    IN  /\ collected' = Append(collected, {})
        /\ wire' = Tail(wire) \o FetchFields(call, d)
                              \o FetchEmbeddings(call, d)

DatasetFetched(r) ==
    /\ r.kind = "fetchDataset"
    /\ datasetPanel' = [datasetPanel EXCEPT !.dataset = r.dataset]
    /\ onDatasetChange(r.dataset)
    /\ UNCHANGED <<application, window, windows>>

FieldFetched(r) ==
    /\ r.kind = "fetchField"
    /\ collected' = [collected EXCEPT ![r.origin] = @ \cup
                        {<<r.category, r.field>>}]
    /\ wire' = Tail(wire)
    /\ UNCHANGED <<datasetPanel, application, window, windows>>

\* Mutant: the windows stay.
EmbeddingsFetchedKeepingWindows(r) ==
    /\ r.kind = "fetchEmbeddingsList"
    /\ application' = [application EXCEPT !.currentDataset = r.dataset,
                                          !.call = r.origin]
    /\ wire' = Tail(wire)
    /\ UNCHANGED <<datasetPanel, collected, window, windows>>

\* The dataset is shown from here on, without windows.
EmbeddingsFetched(r) ==
    /\ r.kind = "fetchEmbeddingsList"
    /\ application' = [currentDataset |-> r.dataset, call |-> r.origin,
                       windows |-> 0]
    /\ former' =
        IF application.windows = 0 THEN former
        ELSE Append(former, [dataset |-> application.currentDataset,
                             category |-> panel.category,
                             field |-> panel.field])
    /\ panel' = NewPanel /\ decomposition' = None /\ scene' = {}
    /\ wire' = Tail(wire)
    /\ UNCHANGED <<datasetPanel, collected, instance>>

-----------------------------------------------------------------------------
(* The window.                                                             *)

AddWindow ==
    /\ Change /\ application.currentDataset # None /\ application.windows = 0
    /\ application' = [application EXCEPT !.windows = 1]
    /\ instance' = instance + 1
    /\ UNCHANGED <<datasetPanel, collected, former, window, wire, server>>

AskAnalysis(kind, p, l) ==
    Ask(kind, instance, application.currentDataset, p.category, p.field, l)

decompositionConfigValid(p) ==
    p.mode # "Morse-Smale" \/ (p.category # None /\ p.field # None)

fetchDecomposition(p) ==
    <<AskAnalysis("fetchMorseSmalePersistence", p, None)>>

\* Mutant: a change of category alone is overlooked.
componentDidUpdateOfField(old, p) ==
    IF /\ <<old.mode, old.field>> # <<p.mode, p.field>>
       /\ decompositionConfigValid(p)
    THEN fetchDecomposition(p) ELSE <<>>

\* The commands sent when the panel has changed from old to p.
componentDidUpdate(old, p) ==
    IF /\ <<old.mode, old.category, old.field>> #
          <<p.mode, p.category, p.field>>
       /\ decompositionConfigValid(p)
    THEN fetchDecomposition(p) ELSE <<>>

ChangePanel(p) ==
    /\ Change /\ application.windows = 1
    /\ p # panel /\ panel' = p
    /\ UNCHANGED <<datasetPanel, application, collected, decomposition, scene,
                   windows, server>>

\* The handler asks for the decomposition with the state before the change, and
\* componentDidUpdate asks for it again.
ChangeToMorseSmale ==
    /\ panel.mode # "Morse-Smale"
    /\ ChangePanel([panel EXCEPT !.mode = "Morse-Smale"])
    /\ wire' = wire \o fetchDecomposition(panel)
                    \o componentDidUpdate(panel, panel')

ChangeToSharedGP ==
    /\ panel.mode # "Shared-GP"
    /\ ChangePanel([panel EXCEPT !.mode = "Shared-GP",
                        !.maxPersistence = None, !.crystals = None])
    /\ wire' = wire \o componentDidUpdate(panel, panel')

\* The field is kept: it need not be one of the category.
ChangeCategory(c) ==
    /\ ChangePanel([panel EXCEPT !.category = c])
    /\ wire' = wire \o componentDidUpdate(panel, panel')

\* The menu lists the dataset's fields of the category.
ChangeField(f) ==
    /\ application.windows = 1 /\ panel.category # None
    /\ f = None \/ <<panel.category, f>> \in Listed[application.currentDataset]
    /\ ChangePanel([panel EXCEPT !.field = f])
    /\ wire' = wire \o componentDidUpdate(panel, panel')

\* Mutant: the level is sent as it is.
ParsedLevelAsItIs(l) == l

\* parseInt makes NaN of an undefined level, JSON null, and the server 0.
ParsedLevel(l) == IF l = Undefined THEN 0 ELSE l

\* What updateDataModel sends, and the panel it leaves.
LevelAsked(p, l) ==
    IF l = None THEN <<>>
    ELSE <<AskAnalysis("fetchMorseSmalePersistenceLevel", p, ParsedLevel(l))>>
AfterLevel(p, l) ==
    IF l = None THEN [p EXCEPT !.crystals = None] ELSE p

\* By the menu, or by the slider when it is released.
ChangeLevel(l) ==
    /\ panel.maxPersistence \in Nat
    /\ l = None \/ l \in 0 .. panel.maxPersistence
    /\ l # panel.persistenceLevel
    /\ ChangePanel(AfterLevel([panel EXCEPT !.persistenceLevel = l], l))
    /\ wire' = wire \o LevelAsked(panel, l)

-----------------------------------------------------------------------------
(* The server (Controller.cpp) and the answers about analyses.             *)

\* The field is looked up in the dataset in memory, then the dataset asked for
\* is loaded.
verifyFieldname(r) == loaded # None /\ <<r.category, r.field>> \in Listed[loaded]

Analysis == {"fetchMorseSmalePersistence", "fetchMorseSmalePersistenceLevel",
             "fetchMorseSmaleRegression"}

LevelInvalid(r) == r.level # None /\ r.level > MaxLevel[r.field]

Succeeds(r) ==
    r.kind \in Analysis =>
        /\ verifyFieldname(r)
        /\ <<r.category, r.field>> \in Listed[r.dataset]
        /\ ~LevelInvalid(r)

Fails(r) ==
    /\ r.kind \in Analysis
    /\ \/ ~verifyFieldname(r)
       \/ <<r.category, r.field>> \in Listed[r.dataset] /\ LevelInvalid(r)

Analysed(r) == [dataset |-> r.dataset, category |-> r.category,
                field |-> r.field, level |-> r.level]

IsMounted(r) == application.windows = 1 /\ r.origin = instance

\* A panel that is no longer mounted goes on with the state it had: it asks for
\* the level.  Its setState does nothing, and what it announces reaches nobody.
UnmountedFetched(r, max) ==
    /\ r.kind \in Analysis /\ ~IsMounted(r)
    /\ wire' = Tail(wire) \o
        IF r.kind = "fetchMorseSmalePersistence"
        THEN LET p == former[r.origin]
             IN  <<Ask("fetchMorseSmalePersistenceLevel", r.origin, p.dataset,
                       p.category, p.field, ParsedLevel(max))>>
        ELSE <<>>
    /\ UNCHANGED <<datasetPanel, application, collected, window, windows>>

\* The panel takes the last level, and asks for it with the category and the
\* field it has by now.
PersistenceFetched(r, max) ==
    /\ r.kind = "fetchMorseSmalePersistence"
    /\ panel' = [panel EXCEPT !.maxPersistence = max,
                              !.persistenceLevel = max]
    /\ wire' = Tail(wire) \o LevelAsked(panel', max)
    /\ UNCHANGED <<decomposition, scene>>

\* The window draws a decomposition that differs from the one before: it clears
\* the scene and asks for the curves.
Redraw ==
    IF decomposition' # decomposition
    THEN /\ scene' = {}
         /\ wire' = Append(Tail(wire),
                Ask("fetchMorseSmaleRegression", instance,
                    decomposition'.dataset, decomposition'.category,
                    decomposition'.field, decomposition'.level))
    ELSE wire' = Tail(wire) /\ UNCHANGED scene

\* The panel announces the dataset and the level of the answer with the
\* category and the field it has by now.
LevelFetched(r) ==
    /\ r.kind = "fetchMorseSmalePersistenceLevel"
    /\ panel' = [panel EXCEPT !.crystals = Analysed(r)]
    /\ decomposition' = [mode |-> panel.mode, dataset |-> r.dataset,
                         category |-> panel.category, field |-> panel.field,
                         level |-> r.level]
    /\ Redraw

\* The curves are added to what the scene has, with the extrema: the window asks for
\* the two together and waits for both, and they are one command here.
RegressionFetched(r) ==
    /\ r.kind = "fetchMorseSmaleRegression"
    /\ scene' = scene \cup {Analysed(r)}
    /\ wire' = Tail(wire)
    /\ UNCHANGED <<panel, decomposition>>

AnalysisFetched(r) ==
    /\ IsMounted(r)
    /\ \/ PersistenceFetched(r, MaxLevel[r.field])
       \/ LevelFetched(r)
       \/ RegressionFetched(r)
    /\ UNCHANGED <<datasetPanel, application, collected, windows>>

Unnoticed ==
    /\ wire' = Tail(wire)
    /\ UNCHANGED <<datasetPanel, application, collected, window, windows>>

\* An answer about an analysis that carries an error: the panel's levels become
\* undefined; elsewhere the callback throws before it does anything.
ErrorFetched(r) ==
    \/ /\ IsMounted(r) /\ PersistenceFetched(r, Undefined)
       /\ UNCHANGED <<datasetPanel, application, collected, windows>>
    \/ /\ IsMounted(r) /\ r.kind # "fetchMorseSmalePersistence"
       /\ Unnoticed
    \/ UnmountedFetched(r, Undefined)

Answer ==
    /\ wire # <<>>
    /\ LET r == Head(wire)
       IN  \/ /\ Succeeds(r) /\ loaded' = r.dataset /\ UNCHANGED refused
              /\ \/ DatasetFetched(r) \/ FieldFetched(r)
                 \/ EmbeddingsFetched(r) \/ AnalysisFetched(r)
                 \/ UnmountedFetched(r, MaxLevel[r.field])
           \/ /\ Fails(r) /\ ErrorFetched(r)
              /\ loaded' = IF verifyFieldname(r) THEN r.dataset ELSE loaded
              /\ refused' = (refused \/
                    /\ <<r.category, r.field>> \in Listed[r.dataset]
                    /\ ~LevelInvalid(r))
    /\ UNCHANGED <<unanswered, changes>>

\* handleText answers nothing when a handler throws, before or after the load.
\* (What a load that fails leaves in the server is the Controller's matter.)
NoAnswer ==
    /\ wire # <<>>
    /\ Cardinality(unanswered) < MaxUnanswered
    /\ ~Fails(Head(wire))
    /\ unanswered' = unanswered \cup {Head(wire)}
    /\ loaded' \in {loaded, Head(wire).dataset}
    /\ Unnoticed /\ UNCHANGED <<refused, changes>>

Next ==
    \/ \E d \in Dataset : ChooseDataset(d)
    \/ ChooseNoDataset
    \/ AddWindow
    \/ ChangeToMorseSmale \/ ChangeToSharedGP
    \/ \E c \in Category \cup {None} : ChangeCategory(c)
    \/ \E f \in Field \cup {None} : ChangeField(f)
    \/ \E l \in Level \cup {None} : ChangeLevel(l)
    \/ Answer \/ NoAnswer

Spec == Init /\ [][Next]_vars

-----------------------------------------------------------------------------
(* Properties.                                                             *)

Of(d, c, f, l) == [dataset |-> d, category |-> c, field |-> f, level |-> l]
AnalysisType ==
    [dataset : Dataset, category : Category, field : Field, level : Level]
DecompositionType ==
    [mode : {"Morse-Smale", "Shared-GP"}, dataset : Dataset,
     category : Category \cup {None}, field : Field \cup {None}, level : Level]

\* null is not an object.
ASSUME NoneAssumption == None \notin DecompositionType

TypeOK ==
    /\ datasetPanel \in [datasetName : Dataset \cup {None},
                        dataset : Dataset \cup {None}]
    /\ application \in [currentDataset : Dataset \cup {None}, call : Nat,
                       windows : {0, 1}]
    /\ application.call <= Len(collected)
    /\ collected \in Seq(SUBSET (Category \X Field))
    /\ panel \in
        [mode : {"Morse-Smale", "Shared-GP"}, category : Category \cup {None},
         field : Field \cup {None},
         maxPersistence : Level \cup {None, Undefined},
         persistenceLevel : Level \cup {None, Undefined},
         crystals : AnalysisType \cup {None}]
    /\ scene \subseteq AnalysisType
    /\ wire \in Seq(Request)
    /\ former \in Seq([dataset : Dataset, category : Category \cup {None},
                       field : Field \cup {None}])
    /\ Len(former) + application.windows = instance
    /\ loaded \in Dataset \cup {None}

\* getParameters and getQois return before any answer has come.  A dataset is
\* shown with all its fields nevertheless, because the list of embeddings is
\* asked for after them, unless the server did not answer for one.
FieldsComplete ==
    application.call # 0 =>
        \A x \in Listed[application.currentDataset] :
            \/ x \in collected[application.call]
            \/ \E r \in unanswered :
                /\ r.kind = "fetchField" /\ r.origin = application.call
                /\ <<r.category, r.field>> = x

\* Answers about a dataset that was shown before do not reach the windows of
\* the one that is shown.
WindowOfCurrentDataset ==
    /\ decomposition # None =>
            decomposition.dataset = application.currentDataset
    /\ panel.crystals # None =>
            panel.crystals.dataset = application.currentDataset
    /\ \A a \in scene : a.dataset = application.currentDataset

Quiet == wire = <<>> /\ unanswered = {}

\* Whatever was chosen in quick succession, the dataset shown is in the end
\* the one chosen last.
LastDatasetShown ==
    Quiet /\ datasetPanel.datasetName # None =>
        /\ datasetPanel.dataset = datasetPanel.datasetName
        /\ application.currentDataset = datasetPanel.datasetName

\* However the answers and the user's choices interleave, with categories that
\* do not have the field, levels that the new field does not have and commands
\* sent twice: in the end, unless the server refused a field that the dataset
\* has, the crystals, the announced decomposition and the curves are those of
\* the field and the level that the panel shows.
Settled ==
    LET d == application.currentDataset
        chosen == Of(d, panel.category, panel.field, panel.persistenceLevel)
    IN  /\ Quiet /\ ~refused /\ application.windows = 1
        /\ <<panel.category, panel.field>> \in Listed[d]
        /\ panel.persistenceLevel # None
        => /\ panel.crystals = chosen
           /\ decomposition = [mode |-> panel.mode, dataset |-> d,
                               category |-> panel.category,
                               field |-> panel.field,
                               level |-> panel.persistenceLevel]
           /\ chosen \in scene

-----------------------------------------------------------------------------
(* What the code does not do.                                              *)

\* resetScene: "Resets the scene when there is new data by removing the old
\* scene children".  The curves in a scene are those of one decomposition.
SceneShowsOne == Cardinality(scene) <= 1
=============================================================================
