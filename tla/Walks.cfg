\* Walks over the object store and over the in-memory adapter.
CONSTANTS
    Keys = {1, 2, 3, 4, 5}
    Matching = {2, 3, 4, 5}
    Adapters = {"in-memory", "aliyun-oss"}
    Sizes <- SomeSizes
    PageCap = 3
    MaxChanges = 3
SPECIFICATION FairSpec
INVARIANTS TypeOK NothingSkipped
PROPERTIES NoKeyTwice WalkEnds
