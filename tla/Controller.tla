----------------------------- MODULE Controller -----------------------------
(***************************************************************************)
(* The dSpaceX server's Controller (server/Controller.cpp): one object,    *)
(* shared by every connected client, whose handlers run one at a time on   *)
(* the transport's thread.  It holds the dataset loaded last and the       *)
(* Morse-Smale analysis computed last, and every handler decides from      *)
(* those members what it may reuse.                                        *)
(*                                                                         *)
(* A handler is one action: it starts from the members m, chains           *)
(* maybeLoadDataset and maybeProcessData where the code calls them, and    *)
(* ends in a reply, in an exception handleText swallows (no reply), or in  *)
(* the death of the process.  Sample data is abstracted to its provenance: *)
(* a complex is the record of what it was computed from.                   *)
(***************************************************************************)
EXTENDS Integers

CONSTANTS
    Dataset,         \* indices into m_availableDatasets
    Field,           \* names of parameters and quantities of interest
    K,               \* neighbour counts the clients ask for
    Null,            \* a null pointer
    ParameterNames,  \* per dataset, the design parameters its config lists
    QoiNames,        \* per dataset, its quantities of interest
    HasGeometry,     \* per dataset, whether it has distances or samples, of
                     \* three samples at least (the dimensions of the layout)
    SampleCount,     \* per dataset, the columns of its distances, 0 without
    Level,           \* persistence levels the clients ask for
    MaxLevel,        \* per dataset, category and field, the top level found
    ModelLevels,     \* per dataset and field, the levels of its models
    EmbeddingCount   \* per dataset, the number of its embeddings

Category == {"parameter", "qoi"}

\* An analysis, by what it was computed from: geometry is the dataset whose
\* distance matrix was used.
Complex == [dataset: Dataset, category: Category, fieldname: Field, k: K,
            geometry: Dataset]

ASSUME ControllerAssumption ==
    /\ Dataset \subseteq Nat
    /\ K \subseteq Nat
    /\ Null \notin Dataset \cup Complex
    /\ ParameterNames \in [Dataset -> SUBSET Field]
    /\ QoiNames \in [Dataset -> SUBSET Field]
    /\ HasGeometry \in [Dataset -> BOOLEAN]
    /\ SampleCount \in [Dataset -> Nat]
    /\ \A d \in Dataset : SampleCount[d] > 0 => HasGeometry[d]
    /\ Level \subseteq Nat
    /\ MaxLevel \in [Dataset -> [Category -> [Field -> Nat]]]
    /\ ModelLevels \in [Dataset -> [Field -> Nat]]
    /\ EmbeddingCount \in [Dataset -> Nat]

VARIABLES
    m,       \* the Controller's members
    server,  \* "up", or "down" once the process has died
    reply    \* the request handled last and what was sent back

vars == <<m, server, reply>>

-----------------------------------------------------------------------------
(* The members, and what may be sent back.                                 *)

AnyId == Dataset \cup {-1}
AnyK == K \cup {-1}
AnyCategory == Category \cup {"invalid"}

NoField == "none"

Members == [m_currentDatasetId: AnyId,
            m_currentDataset: Dataset \cup {Null},
            m_currentField: Field \cup {NoField},
            m_currentKNN: AnyK,
            m_currentVizData: Complex \cup {Null},
            m_currentTopoData: Complex \cup {Null},
            m_currentDistanceMatrix: Dataset \cup {Null},
            rewritten: SUBSET (Category \X Field)]

FieldNames(d, category) ==
    IF category = "qoi" THEN QoiNames[d] ELSE ParameterNames[d]

getMaxPersistenceLevel(complex) ==
    MaxLevel[complex.dataset][complex.category][complex.fieldname]

Result == [kind: {"none", "error", "message"}]
          \cup [kind: {"dataset"}, dataset: Dataset]
          \cup [kind: {"values"}, dataset: Dataset, category: Category,
                fieldname: Field, asLoaded: BOOLEAN]
          \cup [kind: {"complex"}, complex: Complex]
          \cup [kind: {"images"}, complex: Complex, modelLevel: Int]

NoResult == [kind |-> "none"]
SendError == [kind |-> "error"]
Message == [kind |-> "message"]

\* The commands configureCommandHandlers has a handler for, and none yet.
Command == {"", "fetchDatasetList", "fetchDataset", "fetchKNeighbors",
            "fetchMorseSmalePersistence", "fetchMorseSmalePersistenceLevel",
            "fetchMorseSmaleCrystal", "fetchMorseSmaleDecomposition",
            "fetchSingleEmbedding", "fetchMorseSmaleRegression",
            "fetchMorseSmaleExtrema", "fetchCrystalPartition",
            "fetchEmbeddingsList", "fetchParameter", "fetchQoi",
            "fetchThumbnails", "fetchImageForLatentSpaceCoord_Shapeodds",
            "fetchNImagesForCrystal_Shapeodds",
            "fetchAllImagesForCrystal_Shapeodds",
            "fetchAllForLatentSpaceUsingSharedGP"}

Request == [command: Command, datasetId: AnyId, category: AnyCategory,
            fieldname: Field \cup {NoField}, k: AnyK, level: Level \cup {0}]

-----------------------------------------------------------------------------
(* How a piece of a handler ends: it returns, throws a std::exception,     *)
(* which handleText catches, or takes the process down (a null dereference,*)
(* an index out of range, an exception handleText does not catch).         *)

Returns(s) == [m |-> s, flow |-> "returns"]
Throws(s) == [m |-> s, flow |-> "throws"]
Dies(s) == [m |-> s, flow |-> "dies"]

\* Mutant: the analysis is not released.
ReleasedButAnalysis(s) == [s EXCEPT !.m_currentDataset = Null, !.rewritten = {}]

\* What maybeLoadDataset releases before it loads, the key of the analysis but
\* for its neighbour count excepted.
Released(s) == [s EXCEPT !.m_currentDataset = Null,
                         !.m_currentVizData = Null,
                         !.m_currentTopoData = Null,
                         !.m_currentKNN = -1,
                         !.rewritten = {}]

\* Mutants: an id past the list loads whatever lies there; the id of the new
\* dataset is not recorded.
loadDatasetUnchecked(s, datasetId) ==
    {Throws(s), Dies(s), Returns([s EXCEPT !.m_currentDataset = datasetId,
                                           !.m_currentDatasetId = datasetId])}
loadDatasetWithoutId(s, datasetId) ==
    {Throws(s), Dies(s)}
    \cup {Returns([s EXCEPT !.m_currentDataset = d]) :
                d \in Dataset \cap {datasetId}}

\* Any load can fail.  The file readers also throw character strings, which
\* nothing on the way up catches.
loadDataset(s, datasetId) ==
    {Throws(s), Dies(s)}
    \cup (IF datasetId \in Dataset
          THEN {Returns([s EXCEPT !.m_currentDataset = datasetId,
                                  !.m_currentDatasetId = datasetId])}
          ELSE {})

\* Mutant: any loaded dataset will do.
maybeLoadAnyDataset(s, datasetId) ==
    IF datasetId = s.m_currentDatasetId \/ s.m_currentDataset # Null
    THEN {Returns(s)}
    ELSE loadDataset(Released(s), datasetId)

\* The id is recorded last, so that a loader that throws leaves the old id
\* beside no dataset.
maybeLoadDataset(s, datasetId) ==
    IF datasetId = s.m_currentDatasetId
    THEN {Returns(s)}
    ELSE loadDataset(Released(s), datasetId)

\* Mutant: both branches search the parameters.
getFieldvaluesOfParameters(s, category, fieldname) ==
    fieldname \in FieldNames(s.m_currentDataset, "parameter")

\* Whether the loaded dataset has values of that name in that category.
getFieldvalues(s, category, fieldname) ==
    fieldname \in FieldNames(s.m_currentDataset, category)

\* Mutant: the neighbour count is left out of the key.
IsProcessedByName(s, fieldname, k) ==
    s.m_currentKNN # -1 /\ s.m_currentField = fieldname

\* The key an analysis is reused by.
IsProcessed(s, fieldname, k) ==
    k = s.m_currentKNN /\ s.m_currentField = fieldname

\* Mutant: m_currentTopoData is not released.
KeyedButTopoData(s, category, fieldname, k) ==
    [s EXCEPT !.m_currentField = fieldname,
              !.m_currentKNN = k,
              !.m_currentVizData = Null,
              !.m_currentDistanceMatrix =
                  IF HasGeometry[s.m_currentDataset]
                  THEN s.m_currentDataset ELSE @,
              !.rewritten = @ \cup {<<category, fieldname>>}]

\* The members once the new key is recorded and the old analysis released.
\* Without geometry the matrix stays what it was, that of an earlier dataset or
\* never assigned (Null); processing rescales the field's values and adds noise
\* to them in the dataset's memory.
Keyed(s, category, fieldname, k) ==
    [s EXCEPT !.m_currentField = fieldname,
              !.m_currentKNN = k,
              !.m_currentVizData = Null,
              !.m_currentTopoData = Null,
              !.m_currentDistanceMatrix =
                  IF HasGeometry[s.m_currentDataset]
                  THEN s.m_currentDataset ELSE @,
              !.rewritten = @ \cup {<<category, fieldname>>}]

\* A thrown character string is caught here and leaves the new key beside no
\* analysis; std::exceptions pass, from the computation or between the two
\* allocations.  A matrix of another dataset need not fit the values; one that was
\* never assigned has no columns, of which the layout asks three eigenvalues, and
\* no analysis comes of it.
maybeProcessData(o, category, fieldname, k) ==
    LET s == o.m
        keyed == Keyed(s, category, fieldname, k)
        complex == [dataset |-> s.m_currentDataset, category |-> category,
                    fieldname |-> fieldname, k |-> k,
                    geometry |-> keyed.m_currentDistanceMatrix]
        half == [keyed EXCEPT !.m_currentVizData = complex]
        whole == [half EXCEPT !.m_currentTopoData = complex]
    IN  IF o.flow # "returns" \/ IsProcessed(s, fieldname, k)
        THEN {o}
        ELSE IF ~getFieldvalues(s, category, fieldname)
        THEN {Dies(s)}          \* minCoeff() of the empty map
        ELSE {Returns(keyed), Throws(keyed)}
             \cup (IF complex.geometry # Null
                   THEN {Returns(whole), Throws(half)} ELSE {})
             \cup (IF complex.geometry # complex.dataset
                   THEN {Dies(keyed)} ELSE {})

\* The use of m_currentDataset or of m_currentTopoData.
UseDataset(o) ==
    IF o.flow = "returns" /\ o.m.m_currentDataset = Null THEN Dies(o.m) ELSE o
UseTopoData(o) ==
    IF o.flow = "returns" /\ o.m.m_currentTopoData = Null THEN Dies(o.m) ELSE o

\* handleText: the reply goes out only if the command returns.
Finish(request, o, result) ==
    /\ m' = o.m
    /\ server' = IF o.flow = "dies" THEN "down" ELSE server
    /\ reply' = [request |-> request,
                 result |-> IF o.flow = "returns" THEN result ELSE NoResult]

ToRequest(command, d, category, fieldname, k, level) ==
    [command |-> command, datasetId |-> d, category |-> category,
     fieldname |-> fieldname, k |-> k, level |-> level]

-----------------------------------------------------------------------------
(* Handlers that touch no member, or only the loaded dataset.              *)

fetchDatasetList ==
    Finish(ToRequest("fetchDatasetList", -1, "invalid", NoField, -1, 0),
           Returns(m), Message)

fetchAllForLatentSpaceUsingSharedGP(d) ==
    Finish(ToRequest("fetchAllForLatentSpaceUsingSharedGP", d, "invalid",
                     NoField, -1, 0),
           Returns(m), IF d = -1 THEN SendError ELSE Message)

fetchImageForLatentSpaceCoord_Shapeodds ==
    Finish(ToRequest("fetchImageForLatentSpaceCoord_Shapeodds", -1, "invalid",
                     NoField, -1, 0),
           Returns(m), Message)

\* Load the dataset and describe it.
DescribeDataset(request) ==
    \E l \in maybeLoadDataset(m, request.datasetId) :
        LET o == UseDataset(l)
        IN  Finish(request, o, [kind |-> "dataset",
                                dataset |-> o.m.m_currentDataset])

fetchDataset(d) ==
    LET request == ToRequest("fetchDataset", d, "invalid", NoField, -1, 0)
    IN  \/ d = -1 /\ Finish(request, Returns(m), SendError)
        \/ d # -1 /\ DescribeDataset(request)

fetchThumbnails(d) ==
    LET request == ToRequest("fetchThumbnails", d, "invalid", NoField, -1, 0)
    IN  \/ d = -1 /\ Finish(request, Returns(m), SendError)
        \/ d # -1 /\ DescribeDataset(request)

\* The id is tested, and then used all the same.
fetchEmbeddingsList(d) ==
    DescribeDataset(
        ToRequest("fetchEmbeddingsList", d, "invalid", NoField, -1, 0))

\* findKNN is asked for k neighbours of each sample, however many there are: more
\* than all are taken from an empty heap, which writes before its arrays.
findKNN(o, k) ==
    IF o.flow = "returns" /\ SampleCount[o.m.m_currentDataset] \in 1 .. k - 1
    THEN {o, Dies(o.m)}
    ELSE {o}

\* The neighbour graph is built from whatever dataset is loaded.
fetchKNeighbors(d, k) ==
    LET request == ToRequest("fetchKNeighbors", d, "invalid", NoField, k, 0)
    IN  \/ /\ d = -1 \/ k = -1
           /\ Finish(request, Returns(m), SendError)
        \/ /\ d # -1 /\ k # -1
           /\ \E o \in findKNN(UseDataset(Returns(m)), k) :
                 Finish(request, o, [kind |-> "dataset",
                                     dataset |-> o.m.m_currentDataset])

\* The values of a field, through a map laid over the dataset's own memory,
\* which maybeProcessData may have rewritten.
SendFieldvalues(request, category) ==
    \E l \in maybeLoadDataset(m, request.datasetId) :
        LET o == UseDataset(l)
            s == o.m
        IN  Finish(request, o,
                IF getFieldvalues(s, category, request.fieldname)
                THEN [kind |-> "values", dataset |-> s.m_currentDataset,
                      category |-> category, fieldname |-> request.fieldname,
                      asLoaded |-> <<category, request.fieldname>>
                                        \notin s.rewritten]
                ELSE SendError)

fetchParameter(d, fieldname) ==
    LET request == ToRequest("fetchParameter", d, "parameter", fieldname, -1, 0)
    IN  \/ d = -1 /\ Finish(request, Returns(m), SendError)
        \/ d # -1 /\ SendFieldvalues(request, "parameter")

fetchQoi(d, fieldname) ==
    LET request == ToRequest("fetchQoi", d, "qoi", fieldname, -1, 0)
    IN  \/ d = -1 /\ Finish(request, Returns(m), SendError)
        \/ d # -1 /\ SendFieldvalues(request, "qoi")

-----------------------------------------------------------------------------
(* Handlers that ask for an analysis.  The arguments are tested first, and *)
(* the field name against the dataset loaded before this request.          *)

ArgumentsInvalid(request) ==
    \/ request.datasetId = -1
    \/ request.k = -1
    \/ request.category \notin Category

verifyFieldname(s, category, fieldname) ==
    fieldname \in FieldNames(s.m_currentDataset, category)

LevelInvalid(s, level) == level > getMaxPersistenceLevel(s.m_currentTopoData)

\* The end of such a handler: end says what its own reading of the analysis
\* comes to, a result ("reads"), an error, or an index out of range ("dies").
ReadAnalysis(request, o, checksLevel, end) ==
    \/ /\ o.flow # "returns"
       /\ Finish(request, o, NoResult)
    \/ /\ o.flow = "returns"
       /\ checksLevel /\ LevelInvalid(o.m, request.level)
       /\ Finish(request, o, SendError)
    \/ /\ o.flow = "returns"
       /\ ~(checksLevel /\ LevelInvalid(o.m, request.level))
       /\ Finish(request,
                 IF end = "dies" THEN Dies(o.m) ELSE o,
                 IF end = "error" THEN SendError
                 ELSE [kind |-> "complex", complex |-> o.m.m_currentTopoData])

FetchAnalysis(request, checksLevel, ends) ==
    \/ /\ ArgumentsInvalid(request)
       /\ Finish(request, Returns(m), SendError)
    \/ /\ ~ArgumentsInvalid(request)
       /\ m.m_currentDataset = Null
       /\ Finish(request, Dies(m), NoResult)
    \/ /\ ~ArgumentsInvalid(request)
       /\ m.m_currentDataset # Null
       /\ ~verifyFieldname(m, request.category, request.fieldname)
       /\ Finish(request, Returns(m), SendError)
    \/ /\ ~ArgumentsInvalid(request)
       /\ m.m_currentDataset # Null
       /\ verifyFieldname(m, request.category, request.fieldname)
       /\ \E l \in maybeLoadDataset(m, request.datasetId) :
          \E p \in maybeProcessData(l, request.category, request.fieldname,
                                    request.k) :
          \E end \in ends :
             ReadAnalysis(request, UseTopoData(p), checksLevel, end)

fetchMorseSmalePersistence(d, category, fieldname, k) ==
    FetchAnalysis(ToRequest("fetchMorseSmalePersistence", d, category,
                            fieldname, k, 0), FALSE, {"reads"})

fetchMorseSmaleDecomposition(d, category, fieldname, k) ==
    FetchAnalysis(ToRequest("fetchMorseSmaleDecomposition", d, category,
                            fieldname, k, 0), FALSE, {"reads"})

fetchMorseSmalePersistenceLevel(d, category, fieldname, k, level) ==
    FetchAnalysis(ToRequest("fetchMorseSmalePersistenceLevel", d, category,
                            fieldname, k, level), TRUE, {"reads"})

fetchMorseSmaleCrystal(d, category, fieldname, k, level) ==
    FetchAnalysis(ToRequest("fetchMorseSmaleCrystal", d, category,
                            fieldname, k, level), TRUE, {"reads", "error"})

fetchMorseSmaleRegression(d, category, fieldname, k, level) ==
    FetchAnalysis(ToRequest("fetchMorseSmaleRegression", d, category,
                            fieldname, k, level), TRUE, {"reads"})

fetchMorseSmaleExtrema(d, category, fieldname, k, level) ==
    FetchAnalysis(ToRequest("fetchMorseSmaleExtrema", d, category,
                            fieldname, k, level), TRUE, {"reads"})

\* An embedding id is tested for its sign only.
fetchSingleEmbedding(d, category, fieldname, k, level, embeddingId) ==
    LET known == d \notin Dataset \/ EmbeddingCount[d] = 0
                    \/ embeddingId < EmbeddingCount[d]
    IN  FetchAnalysis(ToRequest("fetchSingleEmbedding", d, category,
                                fieldname, k, level), TRUE,
                      IF known THEN {"reads"} ELSE {"dies"})

-----------------------------------------------------------------------------
(* Handlers that read the analysis left by an earlier request.             *)

fetchCrystalPartition(d, level) ==
    LET request == ToRequest("fetchCrystalPartition", d, "invalid", NoField,
                             -1, level)
    IN  \/ d = -1 /\ Finish(request, Returns(m), SendError)
        \/ d # -1 /\ ReadAnalysis(request, UseTopoData(Returns(m)), TRUE,
                                  "reads")

\* Which of a model's levels belongs to a level of the analysis in use: the
\* models were learned for the top levels only.
getPersistenceLevelIdx(level, complex, numPersistenceLevels) ==
    level - (getMaxPersistenceLevel(complex) - numPersistenceLevels + 1)

\* Mutant: a negative level is compared as a signed one.
hasModelSigned(persistence, levels) == persistence < levels

\* Whether a complex with that many levels has models at this one; a negative
\* level is a huge unsigned one.
hasModel(persistence, levels) == persistence \in 0 .. levels - 1

\* What the images of a crystal are made from, by flow: the crystal's samples
\* (originals), one of the models' levels, or an exception.
OriginalSampleImages(s, request) ==
    LET images == [kind |-> "images", complex |-> s.m_currentTopoData,
                   modelLevel |-> -1]
    IN  {<<"returns", images>>, <<"throws", NoResult>>}
        \cup (IF getFieldvalues(s, request.category, request.fieldname)
              THEN {} ELSE {<<"dies", NoResult>>})

ModelImages(s, request) ==
    LET levels == ModelLevels[s.m_currentDataset][request.fieldname]
        idx == getPersistenceLevelIdx(request.level, s.m_currentTopoData,
                                      levels)
    IN  {<<"throws", NoResult>>}
        \cup (IF hasModel(idx, levels)
              THEN {<<"returns", [kind |-> "images",
                                  complex |-> s.m_currentTopoData,
                                  modelLevel |-> idx]>>}
                   \cup (IF getFieldvalues(s, request.category,
                                            request.fieldname)
                         THEN {} ELSE {<<"dies", NoResult>>})
              ELSE {})

HasModelLevel(s, request) ==
    LET levels == ModelLevels[s.m_currentDataset][request.fieldname]
    IN  /\ levels > 0
        /\ getPersistenceLevelIdx(request.level, s.m_currentTopoData,
                                  levels) >= 0

\* Without a model for this level the crystal's own samples are shown, by the
\* handler that falls back on them.
Images(s, request, fallsBack) ==
    IF fallsBack /\ ~HasModelLevel(s, request)
    THEN OriginalSampleImages(s, request)
    ELSE ModelImages(s, request)

\* The image handlers load, test the category, use the analysis whatever it is
\* of, and test the level.
FetchImages(request, fallsBack) ==
    \/ /\ request.datasetId = -1
       /\ Finish(request, Returns(m), SendError)
    \/ /\ request.datasetId # -1
       /\ \E l \in maybeLoadDataset(m, request.datasetId) :
             \/ /\ l.flow = "returns" /\ request.category \notin Category
                /\ Finish(request, l, SendError)
             \/ /\ l.flow = "returns" => request.category \in Category
                /\ UseTopoData(l).flow # "returns"
                /\ Finish(request, UseTopoData(l), NoResult)
             \/ /\ UseTopoData(l).flow = "returns"
                /\ request.category \in Category
                /\ LevelInvalid(l.m, request.level)
                /\ Finish(request, l, SendError)
             \/ /\ UseTopoData(l).flow = "returns"
                /\ request.category \in Category
                /\ ~LevelInvalid(l.m, request.level)
                /\ \E i \in Images(l.m, request, fallsBack) :
                      Finish(request, [m |-> l.m, flow |-> i[1]], i[2])

fetchAllImagesForCrystal_Shapeodds(d, category, fieldname, level) ==
    FetchImages(ToRequest("fetchAllImagesForCrystal_Shapeodds", d, category,
                          fieldname, -1, level), FALSE)

\* With showOrig set this handler is the one above, for levels with a model.
fetchNImagesForCrystal_Shapeodds(d, category, fieldname, level) ==
    FetchImages(ToRequest("fetchNImagesForCrystal_Shapeodds", d, category,
                          fieldname, -1, level), TRUE)

-----------------------------------------------------------------------------
Init ==
    /\ m = [m_currentDatasetId |-> -1,
            m_currentDataset |-> Null,
            m_currentField |-> NoField,
            m_currentKNN |-> -1,
            m_currentVizData |-> Null,
            m_currentTopoData |-> Null,
            m_currentDistanceMatrix |-> Null,
            rewritten |-> {}]
    /\ server = "up"
    /\ reply = [request |-> ToRequest("", -1, "invalid", NoField, -1, 0),
                result |-> NoResult]

\* handleText: any client's next command; an unknown one is answered with
\* its id alone, as fetchDatasetList is here.
handleText ==
    /\ server = "up"
    /\ \/ fetchDatasetList
       \/ fetchImageForLatentSpaceCoord_Shapeodds
       \/ \E d \in AnyId :
            \/ fetchAllForLatentSpaceUsingSharedGP(d)
            \/ fetchDataset(d)
            \/ fetchThumbnails(d)
            \/ fetchEmbeddingsList(d)
            \/ \E k \in AnyK : fetchKNeighbors(d, k)
            \/ \E f \in Field : fetchParameter(d, f) \/ fetchQoi(d, f)
            \/ \E level \in Level : fetchCrystalPartition(d, level)
            \/ \E c \in AnyCategory, f \in Field :
                 \/ \E level \in Level :
                      \/ fetchNImagesForCrystal_Shapeodds(d, c, f, level)
                      \/ fetchAllImagesForCrystal_Shapeodds(d, c, f, level)
                 \/ \E k \in AnyK :
                      \/ fetchMorseSmalePersistence(d, c, f, k)
                      \/ fetchMorseSmaleDecomposition(d, c, f, k)
                      \/ \E level \in Level :
                           \/ fetchMorseSmalePersistenceLevel(d, c, f, k, level)
                           \/ fetchMorseSmaleCrystal(d, c, f, k, level)
                           \/ fetchMorseSmaleRegression(d, c, f, k, level)
                           \/ fetchMorseSmaleExtrema(d, c, f, k, level)
                           \/ \E e \in 0 .. 1 :
                                fetchSingleEmbedding(d, c, f, k, level, e)

Next == handleText

Spec == Init /\ [][Next]_vars

-----------------------------------------------------------------------------
(* Properties.                                                             *)

\* Every member and every reply has its type.
TypeOK ==
    /\ m \in Members
    /\ server \in {"up", "down"}
    /\ reply \in [request : Request, result : Result]

\* A dataset held in memory is the one m_currentDatasetId names, although
\* a load releases the one and assigns the other in separate statements with
\* a loader that may throw between them (maybeLoadDataset).
LoadedDatasetIsCurrent ==
    m.m_currentDataset # Null =>
        m.m_currentDataset = m.m_currentDatasetId

\* The analysis in memory is of the dataset in memory and of the field name
\* and neighbour count recorded as its key: what the early return of
\* maybeProcessData relies on, across loads, failures and other handlers.
AnalysisMatchesKey ==
    m.m_currentVizData # Null =>
        /\ m.m_currentVizData.dataset = m.m_currentDataset
        /\ m.m_currentVizData.fieldname = m.m_currentField
        /\ m.m_currentVizData.k = m.m_currentKNN

\* m_currentTopoData, built over the object m_currentVizData points to, never
\* outlives it and is never of another analysis (LegacyTopologyDataImpl keeps
\* the bare pointer).
TopoDataIsOfVizData ==
    m.m_currentTopoData # Null => m.m_currentTopoData = m.m_currentVizData

\* Although a field name is verified against the dataset that was loaded
\* before the request, no analysis is ever made of a field that its own
\* dataset does not list.
AnalysisOfListedField ==
    m.m_currentVizData # Null =>
        m.m_currentVizData.fieldname \in
            FieldNames(m.m_currentVizData.dataset, m.m_currentVizData.category)

\* Every answer made from an analysis that the handler itself asked for is of
\* the dataset, field name and neighbour count of the request, whatever other
\* clients asked for before.
AnalysisAnswersRequest ==
    /\ reply.result.kind = "complex"
    /\ reply.request.command # "fetchCrystalPartition"
    => /\ reply.result.complex.dataset = reply.request.datasetId
       /\ reply.result.complex.fieldname = reply.request.fieldname
       /\ reply.result.complex.k = reply.request.k

\* Every answer about a dataset, the values of a field or the images of a
\* crystal is about the dataset of the request; fetchKNeighbors, which loads
\* nothing, is the exception.
DatasetAnswersRequest ==
    /\ reply.result.kind \in {"dataset", "values"} =>
        \/ reply.result.dataset = reply.request.datasetId
        \/ reply.request.command = "fetchKNeighbors"
    /\ reply.result.kind = "images" =>
        reply.result.complex.dataset = reply.request.datasetId

\* Images made by a model come from a level the models of the requested field
\* have, even when the analysis in use is of another field with more or fewer
\* levels (getPersistenceLevelIdx subtracts one's levels from the other's).
ModelLevelInRange ==
    reply.result.kind = "images" /\ reply.result.modelLevel # -1 =>
        reply.result.modelLevel \in
            0 .. ModelLevels[reply.request.datasetId]
                            [reply.request.fieldname] - 1

\* maybeLoadDataset: "Checks if the requested dataset is loaded."  What its
\* test of the id takes for granted: the dataset with that id is in memory.
CurrentIdMeansLoaded ==
    server = "up" /\ m.m_currentDatasetId # -1 =>
        m.m_currentDataset = m.m_currentDatasetId

\* maybeProcessData: "category is design parameter or qoi / fieldname is the
\* element of the given category to process".  An answer made from an analysis
\* the handler asked for is of the requested category.
CategoryAnswersRequest ==
    /\ reply.result.kind = "complex"
    /\ reply.request.command # "fetchCrystalPartition"
    => reply.result.complex.category = reply.request.category

\* maybeProcessData: "No distance matrix or samplesMatrix available."  An
\* analysis is computed over the geometry of its own dataset, and not over the
\* matrix that an analysis of another dataset has left behind.
AnalysisOfOwnGeometry ==
    m.m_currentTopoData # Null =>
        m.m_currentTopoData.geometry = m.m_currentTopoData.dataset
=============================================================================
