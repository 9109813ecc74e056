CONSTANTS
  Catalogue = "changes"
  Trees <- MCTrees
  MinHeight = 2
  Similarity <- MCSimilarity
SPECIFICATION FinalizationSpec
INVARIANTS
  TypeOK
  OneToOne
  OperatorsFollowParents
  InternalsStayInScope
  EmptyExactlyForEqualTrees
  ChangesAreShown
  ChangesStayTold
  ChangesStayInSight
  TokensGoForAReason
  NothingIsInvented
  ChangesAreToldOnce
  DisplacedSwapsAreTold
