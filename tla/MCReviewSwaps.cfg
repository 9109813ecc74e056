CONSTANTS
  Catalogue = "siblings"
  Trees <- MCTrees
  MinHeight = 2
  Similarity <- MCSimilarity
SPECIFICATION FinalizationSpec
INVARIANTS
  EntitySwapsAreTold
