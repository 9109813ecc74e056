CONSTANTS
  Catalogue = "decorators"
  Trees <- MCTrees
  MinHeight = 2
  Similarity <- MCSimilarity
SPECIFICATION Spec
INVARIANTS
  DeltaIsNeverEmpty
