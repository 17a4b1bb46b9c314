SPECIFICATION Spec
CONSTANTS
    Threads = {t1, t2}
    Texts = {"a", "b", "c", "d"}
    BadBytes = "bad"
    Shards = {"s1", "s2"}
    ShardOf <- MCShardOf
    U32 = 3
    KeySpaces = {1, 2, 3, 4}
PROPERTIES ImplementsInterner CallsReturn
