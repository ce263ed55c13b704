CONSTANTS
  Model = "ARM"
  Writer = {w1, w2}
  Reader = {r1}
  Main = main
SPECIFICATION FairSpec
INVARIANTS TypeOK MutualExclusion FreeMeansVisible ReaderConsistent
PROPERTIES Termination
