SPECIFICATION Spec
CONSTANTS
    Null = Null
    Dataset = {0, 1}
    Field = {"f", "g"}
    K = {3, 4}
    Level = {0, 1}
    ParameterNames <- MCParameterNames
    QoiNames <- MCQoiNames
    HasGeometry <- MCHasGeometry
    SampleCount <- MCSampleCount
    MaxLevel <- MCMaxLevel
    ModelLevels <- MCModelLevels
    EmbeddingCount <- MCEmbeddingCount
INVARIANT CurrentIdMeansLoaded
VIEW MCView
CHECK_DEADLOCK FALSE
