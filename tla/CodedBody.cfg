CONSTANTS
  Chunks = {1, 2}
  MaxChunks = 3
  MaxFile = 4
SPECIFICATION BodySpec
INVARIANTS
  WholeOrRefused
  CopyOutlivesFailure
