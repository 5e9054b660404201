SPECIFICATION BuildSpec
CONSTANTS
    Name <- Names
    Pseudo <- VarPages
    Column = {"a", "b"}
    Worker = {w1, w2}
    SHARD_ROWS = 3
    MAX_SPLIT_ROUNDS = 1
    Dictionaries <- ADictionary
    Hierarchies <- SomeHierarchies
    MaxAlters = 1
    Nothing = Nothing
CHECK_DEADLOCK FALSE
INVARIANTS
    NoShardLost
    IndexIsComplete
