-------------------------- MODULE ControllerProofs --------------------------
(***************************************************************************)
(* What holds of the Controller for every set of datasets, fields,         *)
(* neighbour counts and levels.  The inductive invariant speaks of the     *)
(* members alone (GoodMembers); what a reply says of its request follows   *)
(* from the members it was read from, handler by handler.                  *)
(***************************************************************************)
EXTENDS Controller, TLAPS

\* The members are consistent: the four invariants about m as one predicate of
\* a record of members, which holds between the parts of a handler as well.
GoodMembers(s) ==
    /\ s \in Members
    /\ s.m_currentDataset # Null =>
          s.m_currentDataset = s.m_currentDatasetId
    /\ s.m_currentVizData # Null =>
          /\ s.m_currentVizData.dataset = s.m_currentDataset
          /\ s.m_currentVizData.fieldname = s.m_currentField
          /\ s.m_currentVizData.k = s.m_currentKNN
          /\ s.m_currentVizData.fieldname \in
                FieldNames(s.m_currentVizData.dataset,
                           s.m_currentVizData.category)
    /\ s.m_currentTopoData # Null => s.m_currentTopoData = s.m_currentVizData

Flow == {"returns", "throws", "dies"}
Outcome == [m: Members, flow: Flow]

\* maybeLoadDataset leaves consistent members however it ends, and when it
\* returns, the dataset in memory, if there is one, is the requested one.
LEMMA LoadKeepsGood ==
    ASSUME NEW s, GoodMembers(s), NEW d \in AnyId,
           NEW o \in maybeLoadDataset(s, d)
    PROVE  /\ o \in Outcome
           /\ GoodMembers(o.m)
           /\ o.flow = "returns" /\ o.m.m_currentDataset # Null =>
                 o.m.m_currentDataset = d
           /\ o.flow = "returns" /\ s.m_currentDataset # Null =>
                 o.m.m_currentDataset # Null
<1> DEFINE freed == Released(s)
           loaded == [freed EXCEPT !.m_currentDataset = d,
                                   !.m_currentDatasetId = d]
<1>1. s \in Members
  BY DEF GoodMembers
<1>2. freed \in Members /\ GoodMembers(freed)
  BY <1>1 DEF Released, Members, GoodMembers, AnyK
<1>2a. freed.m_currentVizData = Null /\ freed.m_currentTopoData = Null
  BY <1>1 DEF Released, Members
<1>3. d \in Dataset => loaded \in Members /\ GoodMembers(loaded)
                          /\ loaded.m_currentDataset = d
  <2> HIDE DEF freed
  <2> QED
    BY <1>2, <1>2a DEF Members, GoodMembers
<1>4. CASE d = s.m_currentDatasetId
  <2>1. o = Returns(s)
    BY <1>4 DEF maybeLoadDataset
  <2> QED
    BY <2>1, <1>1, <1>4 DEF Returns, Outcome, Flow, GoodMembers
<1>5. CASE d # s.m_currentDatasetId
  <2>1. \/ o = Throws(freed)
        \/ o = Dies(freed)
        \/ d \in Dataset /\ o = Returns(loaded)
    BY <1>5 DEF maybeLoadDataset, loadDataset
  <2>2. d \in Dataset => d # Null
    BY ControllerAssumption
  <2> HIDE DEF freed, loaded
  <2>3. CASE o = Throws(freed)
    BY <2>3, <1>2 DEF Throws, Outcome, Flow
  <2>4. CASE o = Dies(freed)
    BY <2>4, <1>2 DEF Dies, Outcome, Flow
  <2>5. CASE d \in Dataset /\ o = Returns(loaded)
    BY <2>2, <2>5, <1>3 DEF Returns, Outcome, Flow
  <2> QED
    BY <2>1, <2>3, <2>4, <2>5
<1> QED
  BY <1>4, <1>5

\* maybeProcessData, called on a loaded dataset, leaves consistent members
\* however it ends; when it returns with an analysis, that is of the dataset,
\* field name and neighbour count asked for, computed or reused.
LEMMA ProcessKeepsGood ==
    ASSUME NEW o \in Outcome, GoodMembers(o.m),
           o.flow = "returns" => o.m.m_currentDataset # Null,
           NEW category \in Category, NEW f \in Field, NEW k \in K,
           NEW p \in maybeProcessData(o, category, f, k)
    PROVE  /\ p \in Outcome
           /\ GoodMembers(p.m)
           /\ p.m.m_currentDataset = o.m.m_currentDataset
           /\ p.flow = "returns" /\ p.m.m_currentTopoData # Null =>
                /\ o.flow = "returns"
                /\ p.m.m_currentTopoData.dataset = o.m.m_currentDataset
                /\ p.m.m_currentTopoData.fieldname = f
                /\ p.m.m_currentTopoData.k = k
<1> DEFINE s == o.m
           keyed == Keyed(s, category, f, k)
           complex == [dataset |-> s.m_currentDataset, category |-> category,
                       fieldname |-> f, k |-> k,
                       geometry |-> keyed.m_currentDistanceMatrix]
           half == [keyed EXCEPT !.m_currentVizData = complex]
           whole == [half EXCEPT !.m_currentTopoData = complex]
<1>1. s \in Members
  BY DEF Outcome
<1>2. CASE o.flow # "returns" \/ (k = s.m_currentKNN /\ s.m_currentField = f)
  <2>1. p = o
    BY <1>2 DEF maybeProcessData, IsProcessed
  <2>2. s.m_currentTopoData # Null =>
            /\ s.m_currentTopoData.dataset = s.m_currentDataset
            /\ s.m_currentTopoData.fieldname = s.m_currentField
            /\ s.m_currentTopoData.k = s.m_currentKNN
    BY DEF GoodMembers
  <2> QED
    BY <2>1, <2>2, <1>2
<1>3. CASE /\ o.flow = "returns"
           /\ ~(k = s.m_currentKNN /\ s.m_currentField = f)
           /\ f \notin FieldNames(s.m_currentDataset, category)
  <2>1. p = Dies(s)
    BY <1>3 DEF maybeProcessData, IsProcessed, getFieldvalues
  <2> QED
    BY <2>1, <1>1 DEF Dies, Outcome, Flow
<1>4. CASE /\ o.flow = "returns"
           /\ ~(k = s.m_currentKNN /\ s.m_currentField = f)
           /\ f \in FieldNames(s.m_currentDataset, category)
  <2>1. s.m_currentDataset \in Dataset
    BY <1>1, <1>4 DEF Members
  <2>2. \/ p = Returns(keyed) \/ p = Throws(keyed) \/ p = Dies(keyed)
        \/ /\ keyed.m_currentDistanceMatrix # Null
           /\ p = Returns(whole) \/ p = Throws(half)
    <3>1. p \in {Returns(keyed), Throws(keyed)}
                   \cup (IF complex.geometry # Null
                         THEN {Returns(whole), Throws(half)} ELSE {})
                   \cup (IF complex.geometry # complex.dataset
                         THEN {Dies(keyed)} ELSE {})
      BY <1>4, Zenon DEF maybeProcessData, IsProcessed, getFieldvalues
    <3>2. complex.geometry = keyed.m_currentDistanceMatrix
      OBVIOUS
    <3> HIDE DEF keyed, complex, half, whole
    <3> QED
      BY <3>1, <3>2
  <2>3. /\ keyed \in Members
        /\ keyed.m_currentDataset = s.m_currentDataset
        /\ keyed.m_currentDatasetId = s.m_currentDatasetId
        /\ keyed.m_currentVizData = Null
        /\ keyed.m_currentTopoData = Null
        /\ keyed.m_currentField = f
        /\ keyed.m_currentKNN = k
    <3>1. s.rewritten \cup {<<category, f>>} \in SUBSET (Category \X Field)
      BY <1>1 DEF Members
    <3>2. (IF HasGeometry[s.m_currentDataset] THEN s.m_currentDataset
           ELSE s.m_currentDistanceMatrix) \in Dataset \cup {Null}
      BY <1>1, <2>1 DEF Members
    <3> HIDE DEF s
    <3> QED
      BY <1>1, <3>1, <3>2 DEF Keyed, Members, AnyK
  <2> HIDE DEF keyed
  <2>4. /\ keyed.m_currentDistanceMatrix # Null => complex \in Complex
        /\ complex.dataset = s.m_currentDataset
        /\ complex.category = category
        /\ complex.fieldname = f
        /\ complex.k = k
    BY <2>1, <2>3 DEF Complex, Members
  <2> HIDE DEF complex
  <2>5. GoodMembers(keyed)
    BY <2>3 DEF GoodMembers
  <2>6. complex \in Complex =>
          /\ half \in Members /\ GoodMembers(half)
          /\ half.m_currentDataset = s.m_currentDataset
    BY <2>3, <2>4, <1>4 DEF GoodMembers, Members
  <2>7. complex \in Complex =>
          /\ whole \in Members /\ GoodMembers(whole)
          /\ whole.m_currentDataset = s.m_currentDataset
          /\ whole.m_currentTopoData = complex
    BY <2>3, <2>4, <1>4 DEF GoodMembers, Members
  <2> HIDE DEF half, whole
  <2>8. CASE complex \in Complex /\ p = Returns(whole)
    BY <2>8, <2>4, <2>7, <1>4 DEF Returns, Outcome, Flow
  <2>9. CASE p = Returns(keyed)
    BY <2>9, <2>3, <2>5, <1>4 DEF Returns, Outcome, Flow
  <2>10. CASE p = Throws(keyed) \/ p = Dies(keyed)
    BY <2>10, <2>3, <2>5 DEF Throws, Dies, Outcome, Flow
  <2>11. CASE complex \in Complex /\ p = Throws(half)
    BY <2>11, <2>6 DEF Throws, Outcome, Flow
  <2> QED
    BY <2>2, <2>4, <2>8, <2>9, <2>10, <2>11
<1> QED
  BY <1>2, <1>3, <1>4

-----------------------------------------------------------------------------
(* Replies.                                                                *)

\* What every reply says truly of its request.
GoodReply(r) ==
    /\ r \in [request : Request, result : Result]
    /\ /\ r.result.kind = "complex"
       /\ r.request.command # "fetchCrystalPartition"
       => /\ r.result.complex.dataset = r.request.datasetId
          /\ r.result.complex.fieldname = r.request.fieldname
          /\ r.result.complex.k = r.request.k
    /\ r.result.kind \in {"dataset", "values"} =>
          \/ r.result.dataset = r.request.datasetId
          \/ r.request.command = "fetchKNeighbors"
    /\ r.result.kind = "images" =>
          /\ r.result.complex.dataset = r.request.datasetId
          /\ r.result.modelLevel # -1 =>
                r.result.modelLevel \in
                    0 .. ModelLevels[r.request.datasetId]
                                    [r.request.fieldname] - 1

IInv ==
    /\ GoodMembers(m)
    /\ server \in {"up", "down"}
    /\ GoodReply(reply)

Answer(request, result) == [request |-> request, result |-> result]

\* Replies without data are good replies to every request.
LEMMA DatalessReplies ==
    ASSUME NEW request \in Request,
           NEW result \in {NoResult, SendError, Message}
    PROVE  GoodReply(Answer(request, result))
BY DEF GoodReply, Answer, NoResult, SendError, Message, Result

\* A handler's end keeps the invariant if it hands over consistent members
\* and, when it returns, a good reply.
LEMMA FinishKeepsInvariant ==
    ASSUME IInv, NEW request \in Request, NEW o \in Outcome, GoodMembers(o.m),
           NEW result,
           o.flow = "returns" => GoodReply(Answer(request, result)),
           Finish(request, o, result)
    PROVE  IInv'
<1>1. GoodMembers(m)' /\ (server \in {"up", "down"})'
  BY DEF Finish, IInv, GoodMembers
<1>2. reply' = Answer(request, IF o.flow = "returns" THEN result ELSE NoResult)
  BY DEF Finish, Answer
<1>3. GoodReply(Answer(request, NoResult))
  BY DatalessReplies
<1>4. GoodReply(reply)'
  <2>1. GoodReply(reply')
    BY <1>2, <1>3
  <2> QED
    BY <2>1 DEF GoodReply
<1> QED
  BY <1>1, <1>4 DEF IInv

\* An error, silence or a message over the members as they were.
LEMMA UnchangedMembersKeepInvariant ==
    ASSUME IInv, NEW request \in Request, NEW o \in {Returns(m), Dies(m)},
           NEW result \in {NoResult, SendError, Message},
           Finish(request, o, result)
    PROVE  IInv'
<1>1. o \in Outcome /\ GoodMembers(o.m)
  BY DEF IInv, GoodMembers, Returns, Dies, Outcome, Flow
<1>2. GoodReply(Answer(request, result))
  BY DatalessReplies
<1> QED
  BY <1>1, <1>2, FinishKeepsInvariant

\* A null pointer is caught where it is used.
LEMMA UsesKeepGood ==
    ASSUME NEW o \in Outcome, GoodMembers(o.m)
    PROVE  /\ UseDataset(o) \in Outcome
           /\ UseDataset(o).m = o.m
           /\ UseDataset(o).flow = "returns" =>
                o.flow = "returns" /\ o.m.m_currentDataset # Null
           /\ UseTopoData(o) \in Outcome
           /\ UseTopoData(o).m = o.m
           /\ UseTopoData(o).flow = "returns" =>
                o.flow = "returns" /\ o.m.m_currentTopoData # Null
BY DEF UseDataset, UseTopoData, Dies, Outcome, Flow

-----------------------------------------------------------------------------
(* The handlers, family by family.                                         *)

LEMMA DescribeDatasetKeepsInvariant ==
    ASSUME IInv, NEW request \in Request, DescribeDataset(request)
    PROVE  IInv'
<1>1. PICK l \in maybeLoadDataset(m, request.datasetId) :
        Finish(request, UseDataset(l),
               [kind |-> "dataset",
                dataset |-> UseDataset(l).m.m_currentDataset])
  BY DEF DescribeDataset
<1> DEFINE o == UseDataset(l)
           result == [kind |-> "dataset", dataset |-> o.m.m_currentDataset]
<1>2. request.datasetId \in AnyId
  BY DEF Request
<1>3. /\ l \in Outcome /\ GoodMembers(l.m)
      /\ l.flow = "returns" /\ l.m.m_currentDataset # Null =>
            l.m.m_currentDataset = request.datasetId
  BY <1>2, LoadKeepsGood DEF IInv
<1>4. o \in Outcome /\ GoodMembers(o.m)
  BY <1>3, UsesKeepGood
<1>5. o.flow = "returns" => GoodReply(Answer(request, result))
  <2> SUFFICES ASSUME o.flow = "returns"
               PROVE  GoodReply(Answer(request, result))
    OBVIOUS
  <2>1. o.m.m_currentDataset = request.datasetId /\ o.m.m_currentDataset # Null
    BY <1>3, UsesKeepGood
  <2>2. o.m.m_currentDataset \in Dataset
    BY <2>1, <1>4 DEF Outcome, Members
  <2> HIDE DEF o
  <2> QED
    BY <2>1, <2>2 DEF GoodReply, Answer, Result
<1> QED
  BY <1>1, <1>4, <1>5, FinishKeepsInvariant

LEMMA SendFieldvaluesKeepsInvariant ==
    ASSUME IInv, NEW category \in Category,
           NEW request \in Request, request.fieldname \in Field,
           SendFieldvalues(request, category)
    PROVE  IInv'
<1> DEFINE Values(s) ==
             IF request.fieldname \in FieldNames(s.m_currentDataset, category)
             THEN [kind |-> "values", dataset |-> s.m_currentDataset,
                   category |-> category, fieldname |-> request.fieldname,
                   asLoaded |-> <<category, request.fieldname>>
                                     \notin s.rewritten]
             ELSE SendError
<1>1. PICK l \in maybeLoadDataset(m, request.datasetId) :
        Finish(request, UseDataset(l), Values(UseDataset(l).m))
  BY DEF SendFieldvalues, getFieldvalues
<1> DEFINE o == UseDataset(l)
<1>2. request.datasetId \in AnyId
  BY DEF Request
<1>3. /\ l \in Outcome /\ GoodMembers(l.m)
      /\ l.flow = "returns" /\ l.m.m_currentDataset # Null =>
            l.m.m_currentDataset = request.datasetId
  BY <1>2, LoadKeepsGood DEF IInv
<1>4. o \in Outcome /\ GoodMembers(o.m)
  BY <1>3, UsesKeepGood
<1>5. o.flow = "returns" => GoodReply(Answer(request, Values(o.m)))
  <2> SUFFICES ASSUME o.flow = "returns"
               PROVE  GoodReply(Answer(request, Values(o.m)))
    OBVIOUS
  <2>1. o.m.m_currentDataset = request.datasetId /\ o.m.m_currentDataset # Null
    BY <1>3, UsesKeepGood
  <2>2. o.m.m_currentDataset \in Dataset
    BY <2>1, <1>4 DEF Outcome, Members
  <2>3. SendError \in {NoResult, SendError, Message}
    OBVIOUS
  <2> HIDE DEF o
  <2>4. CASE request.fieldname
                \in FieldNames(o.m.m_currentDataset, category)
    BY <2>1, <2>2, <2>4 DEF GoodReply, Answer, Result
  <2>5. CASE request.fieldname
                \notin FieldNames(o.m.m_currentDataset, category)
    BY <2>5, <2>3, DatalessReplies
  <2> QED
    BY <2>4, <2>5
<1> QED
  BY <1>1, <1>4, <1>5, FinishKeepsInvariant

\* The end of a handler that read an analysis: a good reply if the handler
\* asked for that analysis itself, or promises nothing of it.
LEMMA ReadAnalysisKeepsInvariant ==
    ASSUME IInv, NEW request \in Request, NEW o \in Outcome, GoodMembers(o.m),
           NEW checksLevel \in BOOLEAN, NEW end \in {"reads", "error", "dies"},
           o.flow = "returns" =>
              /\ o.m.m_currentTopoData # Null
              /\ \/ request.command = "fetchCrystalPartition"
                 \/ /\ o.m.m_currentTopoData.dataset = request.datasetId
                    /\ o.m.m_currentTopoData.fieldname = request.fieldname
                    /\ o.m.m_currentTopoData.k = request.k,
           ReadAnalysis(request, o, checksLevel, end)
    PROVE  IInv'
<1>1. /\ GoodReply(Answer(request, NoResult))
      /\ GoodReply(Answer(request, SendError))
  BY DatalessReplies
<1>2. CASE Finish(request, o, NoResult)
  BY <1>1, <1>2, FinishKeepsInvariant
<1>3. CASE Finish(request, o, SendError)
  BY <1>1, <1>3, FinishKeepsInvariant
<1>4. CASE /\ o.flow = "returns"
           /\ Finish(request,
                 IF end = "dies" THEN Dies(o.m) ELSE o,
                 IF end = "error" THEN SendError
                 ELSE [kind |-> "complex", complex |-> o.m.m_currentTopoData])
  <2>1. o.m.m_currentTopoData \in Complex
    BY <1>4 DEF Outcome, Members
  <2>2. GoodReply(Answer(request, [kind |-> "complex",
                                   complex |-> o.m.m_currentTopoData]))
    BY <1>4, <2>1 DEF GoodReply, Answer, Result
  <2>3. /\ Dies(o.m) \in Outcome
        /\ GoodMembers(Dies(o.m).m)
        /\ Dies(o.m).flow # "returns"
    BY DEF Dies, Outcome, Flow
  <2>4. CASE end = "dies"
    BY <1>4, <2>3, <2>4, FinishKeepsInvariant
  <2>5. CASE end = "error"
    BY <1>4, <2>5, <1>1, FinishKeepsInvariant
  <2>6. CASE end = "reads"
    BY <1>4, <2>6, <2>2, FinishKeepsInvariant
  <2> QED
    BY <2>4, <2>5, <2>6
<1> QED
  BY <1>2, <1>3, <1>4 DEF ReadAnalysis

LEMMA FetchAnalysisKeepsInvariant ==
    ASSUME IInv, NEW request \in Request, request.fieldname \in Field,
           NEW checksLevel \in BOOLEAN,
           NEW ends \in SUBSET {"reads", "error", "dies"},
           FetchAnalysis(request, checksLevel, ends)
    PROVE  IInv'
<1>1. CASE \/ Finish(request, Returns(m), SendError)
           \/ Finish(request, Dies(m), NoResult)
  BY <1>1, UnchangedMembersKeepInvariant
<1>2. CASE /\ ~ArgumentsInvalid(request)
           /\ m.m_currentDataset # Null
           /\ \E l \in maybeLoadDataset(m, request.datasetId) :
              \E p \in maybeProcessData(l, request.category,
                                        request.fieldname, request.k) :
              \E end \in ends :
                 ReadAnalysis(request, UseTopoData(p), checksLevel, end)
  <2>1. /\ request.datasetId \in AnyId
        /\ request.category \in Category
        /\ request.k \in K
    BY <1>2 DEF ArgumentsInvalid, Request, AnyK
  <2>2. PICK l \in maybeLoadDataset(m, request.datasetId) :
        \E p \in maybeProcessData(l, request.category,
                                  request.fieldname, request.k) :
        \E end \in ends :
            ReadAnalysis(request, UseTopoData(p), checksLevel, end)
    BY <1>2
  <2>3. PICK p \in maybeProcessData(l, request.category,
                                    request.fieldname, request.k),
             end \in ends :
            ReadAnalysis(request, UseTopoData(p), checksLevel, end)
    BY <2>2
  <2>4. /\ l \in Outcome /\ GoodMembers(l.m)
        /\ l.flow = "returns" => l.m.m_currentDataset # Null
        /\ l.flow = "returns" => l.m.m_currentDataset = request.datasetId
    BY <1>2, <2>1, LoadKeepsGood DEF IInv
  <2>5. /\ p \in Outcome
        /\ GoodMembers(p.m)
        /\ p.flow = "returns" /\ p.m.m_currentTopoData # Null =>
                /\ l.flow = "returns"
                /\ p.m.m_currentTopoData.dataset = l.m.m_currentDataset
                /\ p.m.m_currentTopoData.fieldname = request.fieldname
                /\ p.m.m_currentTopoData.k = request.k
    BY <2>1, <2>4, ProcessKeepsGood
  <2> DEFINE o == UseTopoData(p)
  <2>6. /\ o \in Outcome
        /\ o.m = p.m
        /\ o.flow = "returns" =>
                p.flow = "returns" /\ p.m.m_currentTopoData # Null
    BY <2>5, UsesKeepGood
  <2>7. o.flow = "returns" =>
            /\ o.m.m_currentTopoData # Null
            /\ o.m.m_currentTopoData.dataset = request.datasetId
            /\ o.m.m_currentTopoData.fieldname = request.fieldname
            /\ o.m.m_currentTopoData.k = request.k
    BY <2>4, <2>5, <2>6
  <2>8. ReadAnalysis(request, o, checksLevel, end)
    BY <2>3
  <2> HIDE DEF o
  <2>9. GoodMembers(o.m) /\ end \in {"reads", "error", "dies"}
    BY <2>5, <2>6
  <2> QED
    BY <2>6, <2>7, <2>8, <2>9, ReadAnalysisKeepsInvariant
<1> QED
  BY <1>1, <1>2 DEF FetchAnalysis

\* Whatever analysis is in use, the images of a crystal are of the loaded
\* dataset and, when a model makes them, of a level its models have.
LEMMA ImagesAreGood ==
    ASSUME NEW s \in Members, GoodMembers(s),
           s.m_currentTopoData # Null,
           NEW request \in Request, request.fieldname \in Field,
           request.datasetId \in Dataset, request.category \in Category,
           s.m_currentDataset # Null =>
                s.m_currentDataset = request.datasetId,
           NEW fallsBack \in BOOLEAN,
           NEW i \in Images(s, request, fallsBack)
    PROVE  /\ i[1] \in Flow
           /\ GoodReply(Answer(request, i[2]))
<1> DEFINE complex == s.m_currentTopoData
<1>1. /\ complex \in Complex
      /\ complex.dataset = request.datasetId
      /\ s.m_currentDataset = request.datasetId
  <2>1. complex \in Complex
    BY DEF Members
  <2>2. complex.dataset = s.m_currentDataset
    BY DEF GoodMembers
  <2>3. complex.dataset \in Dataset
    BY <2>1 DEF Complex
  <2>4. Null \notin Dataset
    BY ControllerAssumption
  <2> QED
    BY <2>1, <2>2, <2>3, <2>4
<1>2. GoodReply(Answer(request, NoResult))
  BY DatalessReplies
<1>3. ASSUME NEW level \in Int,
             level # -1 =>
                level \in 0 .. ModelLevels[request.datasetId]
                                          [request.fieldname] - 1
      PROVE  GoodReply(Answer(request, [kind |-> "images",
                                        complex |-> complex,
                                        modelLevel |-> level]))
  BY <1>1, <1>3 DEF GoodReply, Answer, Result
<1>4. ASSUME NEW j \in OriginalSampleImages(s, request)
      PROVE  j[1] \in Flow /\ GoodReply(Answer(request, j[2]))
  <2>1. \/ j = <<"returns", [kind |-> "images", complex |-> complex,
                             modelLevel |-> -1]>>
        \/ j = <<"throws", NoResult>>
        \/ j = <<"dies", NoResult>>
    BY DEF OriginalSampleImages
  <2>2. GoodReply(Answer(request, [kind |-> "images", complex |-> complex,
                                   modelLevel |-> -1]))
    BY <1>3
  <2> QED
    BY <2>1, <2>2, <1>2 DEF Flow
<1>5. ASSUME NEW j \in ModelImages(s, request)
      PROVE  j[1] \in Flow /\ GoodReply(Answer(request, j[2]))
  <2> DEFINE levels == ModelLevels[request.datasetId][request.fieldname]
             idx == getPersistenceLevelIdx(request.level, complex, levels)
  <2>1. \/ /\ idx \in 0 .. levels - 1
           /\ j = <<"returns", [kind |-> "images", complex |-> complex,
                                modelLevel |-> idx]>>
        \/ j = <<"throws", NoResult>>
        \/ j = <<"dies", NoResult>>
    BY <1>1 DEF ModelImages, hasModel
  <2>2. idx \in 0 .. levels - 1 =>
            GoodReply(Answer(request, [kind |-> "images", complex |-> complex,
                                       modelLevel |-> idx]))
    BY <1>3
  <2> HIDE DEF idx
  <2> QED
    BY <2>1, <2>2, <1>2 DEF Flow
<1> QED
  BY <1>4, <1>5 DEF Images

LEMMA FetchImagesKeepsInvariant ==
    ASSUME IInv, NEW request \in Request, request.fieldname \in Field,
           NEW fallsBack \in BOOLEAN,
           FetchImages(request, fallsBack)
    PROVE  IInv'
<1>1. CASE Finish(request, Returns(m), SendError)
  BY <1>1, UnchangedMembersKeepInvariant
<1>2. ASSUME request.datasetId # -1,
             NEW l \in maybeLoadDataset(m, request.datasetId),
             \/ Finish(request, l, SendError)
             \/ Finish(request, UseTopoData(l), NoResult)
             \/ /\ UseTopoData(l).flow = "returns"
                /\ request.category \in Category
                /\ \E i \in Images(l.m, request, fallsBack) :
                      Finish(request, [m |-> l.m, flow |-> i[1]], i[2])
      PROVE  IInv'
  <2>1. request.datasetId \in AnyId /\ request.datasetId \in Dataset
    BY <1>2 DEF Request, AnyId
  <2>2. /\ l \in Outcome /\ GoodMembers(l.m)
        /\ l.flow = "returns" /\ l.m.m_currentDataset # Null =>
              l.m.m_currentDataset = request.datasetId
    BY <2>1, LoadKeepsGood DEF IInv
  <2>3. /\ UseTopoData(l) \in Outcome
        /\ GoodMembers(UseTopoData(l).m)
        /\ UseTopoData(l).flow = "returns" =>
              l.flow = "returns" /\ l.m.m_currentTopoData # Null
    BY <2>2, UsesKeepGood
  <2>4. GoodReply(Answer(request, NoResult))
          /\ GoodReply(Answer(request, SendError))
    BY DatalessReplies
  <2>5. CASE \/ Finish(request, l, SendError)
             \/ Finish(request, UseTopoData(l), NoResult)
    BY <2>2, <2>3, <2>4, <2>5, FinishKeepsInvariant
  <2>6. CASE /\ UseTopoData(l).flow = "returns"
             /\ request.category \in Category
             /\ \E i \in Images(l.m, request, fallsBack) :
                   Finish(request, [m |-> l.m, flow |-> i[1]], i[2])
    <3>1. PICK i \in Images(l.m, request, fallsBack) :
                Finish(request, [m |-> l.m, flow |-> i[1]], i[2])
      BY <2>6
    <3>2. l.m \in Members
      BY <2>2 DEF Outcome
    <3>3. i[1] \in Flow /\ GoodReply(Answer(request, i[2]))
      BY <2>1, <2>2, <2>3, <2>6, <3>2, ImagesAreGood
    <3> DEFINE o == [m |-> l.m, flow |-> i[1]]
    <3>4. o \in Outcome /\ GoodMembers(o.m)
      BY <2>2, <3>2, <3>3 DEF Outcome
    <3> QED
      BY <3>1, <3>3, <3>4, FinishKeepsInvariant
  <2> QED
    BY <1>2, <2>5, <2>6
<1> QED
  BY <1>1, <1>2 DEF FetchImages

-----------------------------------------------------------------------------
(* The invariant, and what follows from it.                                *)

LEMMA InitGood == Init => IInv
<1> SUFFICES ASSUME Init PROVE IInv
  OBVIOUS
<1>1. GoodMembers(m)
  BY DEF Init, GoodMembers, Members, AnyId, AnyK
<1>2. GoodReply(reply)
  <2>1. reply = Answer(ToRequest("", -1, "invalid", NoField, -1, 0), NoResult)
    BY DEF Init, Answer
  <2>2. ToRequest("", -1, "invalid", NoField, -1, 0) \in Request
    BY DEF ToRequest, Request, Command, AnyId, AnyCategory, AnyK
  <2> QED
    BY <2>1, <2>2, DatalessReplies
<1> QED
  BY <1>1, <1>2 DEF Init, IInv

\* The handlers that send no analysis.
LEMMA DatasetHandlersKeepInvariant ==
    ASSUME IInv, NEW d \in AnyId,
           \/ fetchDatasetList
           \/ fetchImageForLatentSpaceCoord_Shapeodds
           \/ fetchAllForLatentSpaceUsingSharedGP(d)
           \/ fetchDataset(d)
           \/ fetchThumbnails(d)
           \/ fetchEmbeddingsList(d)
           \/ \E f \in Field : fetchParameter(d, f) \/ fetchQoi(d, f)
    PROVE  IInv'
<1>0. -1 \in AnyId /\ -1 \in AnyK /\ "invalid" \in AnyCategory
        /\ "parameter" \in AnyCategory /\ "qoi" \in AnyCategory
  BY DEF AnyId, AnyK, AnyCategory, Category
<1>1. CASE fetchDatasetList
  <2>1. ToRequest("fetchDatasetList", -1, "invalid", NoField, -1, 0) \in Request
    BY <1>0 DEF ToRequest, Request, Command
  <2> QED
    BY <1>1, <2>1, UnchangedMembersKeepInvariant DEF fetchDatasetList
<1>2. CASE fetchImageForLatentSpaceCoord_Shapeodds
  <2>1. ToRequest("fetchImageForLatentSpaceCoord_Shapeodds", -1, "invalid",
                  NoField, -1, 0) \in Request
    BY <1>0 DEF ToRequest, Request, Command
  <2> QED
    BY <1>2, <2>1, UnchangedMembersKeepInvariant
    DEF fetchImageForLatentSpaceCoord_Shapeodds
<1>3. CASE fetchAllForLatentSpaceUsingSharedGP(d)
  <2>1. ToRequest("fetchAllForLatentSpaceUsingSharedGP", d, "invalid",
                  NoField, -1, 0) \in Request
    BY <1>0 DEF ToRequest, Request, Command
  <2>2. (IF d = -1 THEN SendError ELSE Message)
            \in {NoResult, SendError, Message}
    OBVIOUS
  <2> QED
    BY <1>3, <2>1, <2>2, UnchangedMembersKeepInvariant
    DEF fetchAllForLatentSpaceUsingSharedGP
<1>4. CASE fetchDataset(d)
  <2>1. ToRequest("fetchDataset", d, "invalid", NoField, -1, 0) \in Request
    BY <1>0 DEF ToRequest, Request, Command
  <2> QED
    BY <1>4, <2>1, UnchangedMembersKeepInvariant,
       DescribeDatasetKeepsInvariant DEF fetchDataset
<1>5. CASE fetchThumbnails(d)
  <2>1. ToRequest("fetchThumbnails", d, "invalid", NoField, -1, 0) \in Request
    BY <1>0 DEF ToRequest, Request, Command
  <2> QED
    BY <1>5, <2>1, UnchangedMembersKeepInvariant,
       DescribeDatasetKeepsInvariant DEF fetchThumbnails
<1>6. CASE fetchEmbeddingsList(d)
  <2>1. ToRequest("fetchEmbeddingsList", d, "invalid", NoField, -1, 0)
            \in Request
    BY <1>0 DEF ToRequest, Request, Command
  <2> QED
    BY <1>6, <2>1, DescribeDatasetKeepsInvariant DEF fetchEmbeddingsList
<1>7. ASSUME NEW f \in Field, fetchParameter(d, f)
      PROVE  IInv'
  <2> DEFINE r == ToRequest("fetchParameter", d, "parameter", f, -1, 0)
  <2>1. r \in Request /\ r.fieldname \in Field
    BY <1>0 DEF ToRequest, Request, Command
  <2>2. Finish(r, Returns(m), SendError) \/ SendFieldvalues(r, "parameter")
    BY <1>7 DEF fetchParameter
  <2> HIDE DEF r
  <2> QED
    BY <2>1, <2>2, UnchangedMembersKeepInvariant,
       SendFieldvaluesKeepsInvariant DEF Category
<1>8. ASSUME NEW f \in Field, fetchQoi(d, f)
      PROVE  IInv'
  <2> DEFINE r == ToRequest("fetchQoi", d, "qoi", f, -1, 0)
  <2>1. r \in Request /\ r.fieldname \in Field
    BY <1>0 DEF ToRequest, Request, Command
  <2>2. Finish(r, Returns(m), SendError) \/ SendFieldvalues(r, "qoi")
    BY <1>8 DEF fetchQoi
  <2> HIDE DEF r
  <2> QED
    BY <2>1, <2>2, UnchangedMembersKeepInvariant,
       SendFieldvaluesKeepsInvariant DEF Category
<1> QED
  BY <1>1, <1>2, <1>3, <1>4, <1>5, <1>6, <1>7, <1>8

LEMMA fetchKNeighborsKeepsInvariant ==
    ASSUME IInv, NEW d \in AnyId, NEW k \in AnyK, fetchKNeighbors(d, k)
    PROVE  IInv'
<1> DEFINE r == ToRequest("fetchKNeighbors", d, "invalid", NoField, k, 0)
           u == UseDataset(Returns(m))
           result(o) == [kind |-> "dataset", dataset |-> o.m.m_currentDataset]
<1>1. r \in Request /\ r.command = "fetchKNeighbors"
  BY DEF ToRequest, Request, Command, AnyCategory
<1>2. \/ Finish(r, Returns(m), SendError)
      \/ \E o \in findKNN(u, k) : Finish(r, o, result(o))
  BY DEF fetchKNeighbors
<1>3. Returns(m) \in Outcome /\ GoodMembers(Returns(m).m)
  BY DEF IInv, GoodMembers, Returns, Outcome, Flow
<1>4. /\ u \in Outcome /\ GoodMembers(u.m)
      /\ u.flow = "returns" => u.m.m_currentDataset # Null
  BY <1>3, UsesKeepGood
<1> HIDE DEF u, r
<1>5. ASSUME NEW o \in findKNN(u, k)
      PROVE  /\ o \in Outcome /\ GoodMembers(o.m)
             /\ o.flow = "returns" => o.m.m_currentDataset # Null
  BY <1>4 DEF findKNN, Dies, Outcome, Flow
<1>6. CASE Finish(r, Returns(m), SendError)
  BY <1>1, <1>6, UnchangedMembersKeepInvariant
<1>7. ASSUME NEW o \in findKNN(u, k), Finish(r, o, result(o))
      PROVE  IInv'
  <2>1. o.flow = "returns" => GoodReply(Answer(r, result(o)))
    <3> SUFFICES ASSUME o.flow = "returns"
                 PROVE  GoodReply(Answer(r, result(o)))
      OBVIOUS
    <3>1. o.m.m_currentDataset \in Dataset
      BY <1>5 DEF Outcome, Members
    <3> QED
      BY <1>1, <3>1 DEF GoodReply, Answer, Result
  <2> QED
    BY <1>1, <1>5, <1>7, <2>1, FinishKeepsInvariant
<1> QED
  BY <1>2, <1>6, <1>7

LEMMA fetchCrystalPartitionKeepsInvariant ==
    ASSUME IInv, NEW d \in AnyId, NEW level \in Level,
           fetchCrystalPartition(d, level)
    PROVE  IInv'
<1> DEFINE r == ToRequest("fetchCrystalPartition", d, "invalid", NoField, -1,
                          level)
           o == UseTopoData(Returns(m))
<1>1. r \in Request /\ r.command = "fetchCrystalPartition"
  BY DEF ToRequest, Request, Command, AnyCategory, AnyK
<1>2. Finish(r, Returns(m), SendError) \/ ReadAnalysis(r, o, TRUE, "reads")
  BY DEF fetchCrystalPartition
<1>3. Returns(m) \in Outcome /\ GoodMembers(Returns(m).m)
  BY DEF IInv, GoodMembers, Returns, Outcome, Flow
<1>4. /\ o \in Outcome /\ GoodMembers(o.m)
      /\ o.flow = "returns" => o.m.m_currentTopoData # Null
  BY <1>3, UsesKeepGood
<1> HIDE DEF o, r
<1>5. CASE Finish(r, Returns(m), SendError)
  BY <1>1, <1>5, UnchangedMembersKeepInvariant
<1>6. CASE ReadAnalysis(r, o, TRUE, "reads")
  BY <1>1, <1>4, <1>6, ReadAnalysisKeepsInvariant
<1> QED
  BY <1>2, <1>5, <1>6

\* The handlers that ask for an analysis.
LEMMA AnalysisHandlersKeepInvariant ==
    ASSUME IInv, NEW d \in AnyId, NEW c \in AnyCategory, NEW f \in Field,
           NEW k \in AnyK, NEW level \in Level \cup {0}, NEW e \in 0 .. 1,
           \/ fetchMorseSmalePersistence(d, c, f, k)
           \/ fetchMorseSmaleDecomposition(d, c, f, k)
           \/ fetchMorseSmalePersistenceLevel(d, c, f, k, level)
           \/ fetchMorseSmaleCrystal(d, c, f, k, level)
           \/ fetchMorseSmaleRegression(d, c, f, k, level)
           \/ fetchMorseSmaleExtrema(d, c, f, k, level)
           \/ fetchSingleEmbedding(d, c, f, k, level, e)
    PROVE  IInv'
<1>0. {"reads"} \in SUBSET {"reads", "error", "dies"}
        /\ {"dies"} \in SUBSET {"reads", "error", "dies"}
        /\ {"reads", "error"} \in SUBSET {"reads", "error", "dies"}
  OBVIOUS
<1>1. CASE fetchMorseSmalePersistence(d, c, f, k)
  <2> DEFINE r == ToRequest("fetchMorseSmalePersistence", d, c, f, k, 0)
  <2>1. r \in Request /\ r.fieldname \in Field
    BY DEF ToRequest, Request, Command
  <2>2. FetchAnalysis(r, FALSE, {"reads"})
    BY <1>1 DEF fetchMorseSmalePersistence
  <2> HIDE DEF r
  <2> QED
    BY <1>0, <2>1, <2>2, FetchAnalysisKeepsInvariant
<1>2. CASE fetchMorseSmaleDecomposition(d, c, f, k)
  <2> DEFINE r == ToRequest("fetchMorseSmaleDecomposition", d, c, f, k, 0)
  <2>1. r \in Request /\ r.fieldname \in Field
    BY DEF ToRequest, Request, Command
  <2>2. FetchAnalysis(r, FALSE, {"reads"})
    BY <1>2 DEF fetchMorseSmaleDecomposition
  <2> HIDE DEF r
  <2> QED
    BY <1>0, <2>1, <2>2, FetchAnalysisKeepsInvariant
<1>3. CASE fetchMorseSmalePersistenceLevel(d, c, f, k, level)
  <2> DEFINE r == ToRequest("fetchMorseSmalePersistenceLevel", d, c, f, k,
                            level)
  <2>1. r \in Request /\ r.fieldname \in Field
    BY DEF ToRequest, Request, Command
  <2>2. FetchAnalysis(r, TRUE, {"reads"})
    BY <1>3 DEF fetchMorseSmalePersistenceLevel
  <2> HIDE DEF r
  <2> QED
    BY <1>0, <2>1, <2>2, FetchAnalysisKeepsInvariant
<1>4. CASE fetchMorseSmaleCrystal(d, c, f, k, level)
  <2> DEFINE r == ToRequest("fetchMorseSmaleCrystal", d, c, f, k, level)
  <2>1. r \in Request /\ r.fieldname \in Field
    BY DEF ToRequest, Request, Command
  <2>2. FetchAnalysis(r, TRUE, {"reads", "error"})
    BY <1>4 DEF fetchMorseSmaleCrystal
  <2> HIDE DEF r
  <2> QED
    BY <1>0, <2>1, <2>2, FetchAnalysisKeepsInvariant
<1>5. CASE fetchMorseSmaleRegression(d, c, f, k, level)
  <2> DEFINE r == ToRequest("fetchMorseSmaleRegression", d, c, f, k, level)
  <2>1. r \in Request /\ r.fieldname \in Field
    BY DEF ToRequest, Request, Command
  <2>2. FetchAnalysis(r, TRUE, {"reads"})
    BY <1>5 DEF fetchMorseSmaleRegression
  <2> HIDE DEF r
  <2> QED
    BY <1>0, <2>1, <2>2, FetchAnalysisKeepsInvariant
<1>6. CASE fetchMorseSmaleExtrema(d, c, f, k, level)
  <2> DEFINE r == ToRequest("fetchMorseSmaleExtrema", d, c, f, k, level)
  <2>1. r \in Request /\ r.fieldname \in Field
    BY DEF ToRequest, Request, Command
  <2>2. FetchAnalysis(r, TRUE, {"reads"})
    BY <1>6 DEF fetchMorseSmaleExtrema
  <2> HIDE DEF r
  <2> QED
    BY <1>0, <2>1, <2>2, FetchAnalysisKeepsInvariant
<1>7. CASE fetchSingleEmbedding(d, c, f, k, level, e)
  <2> DEFINE r == ToRequest("fetchSingleEmbedding", d, c, f, k, level)
  <2>1. r \in Request /\ r.fieldname \in Field
    BY DEF ToRequest, Request, Command
  <2>2. \/ FetchAnalysis(r, TRUE, {"reads"})
        \/ FetchAnalysis(r, TRUE, {"dies"})
    BY <1>7 DEF fetchSingleEmbedding
  <2> HIDE DEF r
  <2> QED
    BY <1>0, <2>1, <2>2, FetchAnalysisKeepsInvariant
<1> QED
  BY <1>1, <1>2, <1>3, <1>4, <1>5, <1>6, <1>7

LEMMA ImageHandlersKeepInvariant ==
    ASSUME IInv, NEW d \in AnyId, NEW c \in AnyCategory, NEW f \in Field,
           NEW level \in Level,
           \/ fetchNImagesForCrystal_Shapeodds(d, c, f, level)
           \/ fetchAllImagesForCrystal_Shapeodds(d, c, f, level)
    PROVE  IInv'
<1>1. CASE fetchNImagesForCrystal_Shapeodds(d, c, f, level)
  <2> DEFINE r == ToRequest("fetchNImagesForCrystal_Shapeodds", d, c, f, -1,
                            level)
  <2>1. r \in Request /\ r.fieldname \in Field
    BY DEF ToRequest, Request, Command, AnyK
  <2>2. FetchImages(r, TRUE)
    BY <1>1 DEF fetchNImagesForCrystal_Shapeodds
  <2> HIDE DEF r
  <2> QED
    BY <2>1, <2>2, FetchImagesKeepsInvariant
<1>2. CASE fetchAllImagesForCrystal_Shapeodds(d, c, f, level)
  <2> DEFINE r == ToRequest("fetchAllImagesForCrystal_Shapeodds", d, c, f, -1,
                            level)
  <2>1. r \in Request /\ r.fieldname \in Field
    BY DEF ToRequest, Request, Command, AnyK
  <2>2. FetchImages(r, FALSE)
    BY <1>2 DEF fetchAllImagesForCrystal_Shapeodds
  <2> HIDE DEF r
  <2> QED
    BY <2>1, <2>2, FetchImagesKeepsInvariant
<1> QED
  BY <1>1, <1>2

LEMMA NextKeepsInvariant == IInv /\ [Next]_vars => IInv'
<1> SUFFICES ASSUME IInv, [Next]_vars PROVE IInv'
  OBVIOUS
<1>1. CASE UNCHANGED vars
  BY <1>1 DEF IInv, GoodMembers, GoodReply, vars
<1>2. CASE Next
  <2>1. -1 \in AnyId
    BY DEF AnyId
  <2>2. CASE fetchDatasetList \/ fetchImageForLatentSpaceCoord_Shapeodds
    BY <2>1, <2>2, DatasetHandlersKeepInvariant
  <2>3. ASSUME NEW d \in AnyId,
               \/ fetchAllForLatentSpaceUsingSharedGP(d)
               \/ fetchDataset(d)
               \/ fetchThumbnails(d)
               \/ fetchEmbeddingsList(d)
               \/ \E f \in Field : fetchParameter(d, f) \/ fetchQoi(d, f)
        PROVE  IInv'
    BY <2>3, DatasetHandlersKeepInvariant
  <2>4. ASSUME NEW d \in AnyId, NEW k \in AnyK, fetchKNeighbors(d, k)
        PROVE  IInv'
    BY <2>4, fetchKNeighborsKeepsInvariant
  <2>5. ASSUME NEW d \in AnyId, NEW level \in Level,
               fetchCrystalPartition(d, level)
        PROVE  IInv'
    BY <2>5, fetchCrystalPartitionKeepsInvariant
  <2>6. ASSUME NEW d \in AnyId, NEW c \in AnyCategory, NEW f \in Field,
               NEW level \in Level,
               \/ fetchNImagesForCrystal_Shapeodds(d, c, f, level)
               \/ fetchAllImagesForCrystal_Shapeodds(d, c, f, level)
        PROVE  IInv'
    BY <2>6, ImageHandlersKeepInvariant
  <2>7. ASSUME NEW d \in AnyId, NEW c \in AnyCategory, NEW f \in Field,
               NEW k \in AnyK,
               \/ fetchMorseSmalePersistence(d, c, f, k)
               \/ fetchMorseSmaleDecomposition(d, c, f, k)
        PROVE  IInv'
    <3>1. 0 \in Level \cup {0} /\ 0 \in 0 .. 1
      OBVIOUS
    <3> QED
      BY <2>7, <3>1, AnalysisHandlersKeepInvariant
  <2>8. ASSUME NEW d \in AnyId, NEW c \in AnyCategory, NEW f \in Field,
               NEW k \in AnyK, NEW level \in Level,
               \/ fetchMorseSmalePersistenceLevel(d, c, f, k, level)
               \/ fetchMorseSmaleCrystal(d, c, f, k, level)
               \/ fetchMorseSmaleRegression(d, c, f, k, level)
               \/ fetchMorseSmaleExtrema(d, c, f, k, level)
        PROVE  IInv'
    <3>1. level \in Level \cup {0} /\ 0 \in 0 .. 1
      OBVIOUS
    <3> QED
      BY <2>8, <3>1, AnalysisHandlersKeepInvariant
  <2>9. ASSUME NEW d \in AnyId, NEW c \in AnyCategory, NEW f \in Field,
               NEW k \in AnyK, NEW level \in Level, NEW e \in 0 .. 1,
               fetchSingleEmbedding(d, c, f, k, level, e)
        PROVE  IInv'
    <3>1. level \in Level \cup {0}
      OBVIOUS
    <3> QED
      BY <2>9, <3>1, AnalysisHandlersKeepInvariant
  <2> QED
    BY <1>2, <2>2, <2>3, <2>4, <2>5, <2>6, <2>7, <2>8, <2>9
    DEF Next, handleText
<1> QED
  BY <1>1, <1>2

\* The members stay consistent and every reply truthful, whatever requests the
\* clients send, in any order, and whichever loads and computations fail.
THEOREM Invariant == Spec => []IInv
BY InitGood, NextKeepsInvariant, PTL DEF Spec

\* Every member of the Controller and every reply keeps its type.
THEOREM TypesAreCorrect == Spec => []TypeOK
<1>1. IInv => TypeOK
  BY DEF IInv, TypeOK, GoodMembers, GoodReply
<1> QED
  BY <1>1, Invariant, PTL

\* Whatever loads fail and however, the dataset in memory is the one
\* m_currentDatasetId names (maybeLoadDataset).
THEOREM LoadedDatasetIsCurrentAlways == Spec => []LoadedDatasetIsCurrent
<1>1. IInv => LoadedDatasetIsCurrent
  BY DEF IInv, LoadedDatasetIsCurrent, GoodMembers
<1> QED
  BY <1>1, Invariant, PTL

\* The analysis in memory is of the dataset in memory and of the recorded key,
\* so that the early return of maybeProcessData reuses no other dataset's.
THEOREM AnalysisMatchesKeyAlways == Spec => []AnalysisMatchesKey
<1>1. IInv => AnalysisMatchesKey
  BY DEF IInv, AnalysisMatchesKey, GoodMembers
<1> QED
  BY <1>1, Invariant, PTL

\* m_currentTopoData is null or built over the current m_currentVizData.
THEOREM TopoDataIsOfVizDataAlways == Spec => []TopoDataIsOfVizData
<1>1. IInv => TopoDataIsOfVizData
  BY DEF IInv, TopoDataIsOfVizData, GoodMembers
<1> QED
  BY <1>1, Invariant, PTL

\* No analysis is made of a field its dataset does not list, although
\* verifyFieldname looks at the dataset loaded before.
THEOREM AnalysisOfListedFieldAlways == Spec => []AnalysisOfListedField
<1>1. IInv => AnalysisOfListedField
  BY DEF IInv, AnalysisOfListedField, GoodMembers
<1> QED
  BY <1>1, Invariant, PTL

\* An analysis a handler asked for and answers with is of the requested
\* dataset, field name and neighbour count.
THEOREM AnalysisAnswersRequestAlways == Spec => []AnalysisAnswersRequest
<1>1. IInv => AnalysisAnswersRequest
  BY DEF IInv, AnalysisAnswersRequest, GoodReply
<1> QED
  BY <1>1, Invariant, PTL

\* A dataset, its values or its images are those of the requested dataset.
THEOREM DatasetAnswersRequestAlways == Spec => []DatasetAnswersRequest
<1>1. IInv => DatasetAnswersRequest
  BY DEF IInv, DatasetAnswersRequest, GoodReply
<1> QED
  BY <1>1, Invariant, PTL

\* Images made by a model come from a level the requested field's models have.
THEOREM ModelLevelInRangeAlways == Spec => []ModelLevelInRange
<1>1. IInv => ModelLevelInRange
  BY DEF IInv, ModelLevelInRange, GoodReply
<1> QED
  BY <1>1, Invariant, PTL
=============================================================================
