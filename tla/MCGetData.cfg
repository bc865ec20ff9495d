\* getdata requests of up to four inventory vectors of every known type,
\* found or missing, with or without a filter and a continue hash: done
\* channels never block the output goroutine.
SPECIFICATION Spec
CONSTANTS
    b1 = b1  b2 = b2  NoHash = NoHash
    Blocks = {b1, b2}
    BloomService = TRUE
    Kinds = {"tx", "block", "filtered"}
    MaxItems = 4
    MaxMatched = 1
INVARIANT TypeOK OutputNeverBlocked
