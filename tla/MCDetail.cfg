SPECIFICATION Spec

CONSTANTS
  Offers <- MCOffers
  Alphabet = {0, 1, 2, 3, 5}
  Seeds <- MCSeeds
  MaxGrowth = 6
  MaxExtensions = 2
  Heights = {1, 4, 8, 30}
  DETAILS = 4

INVARIANTS
  HelloWholeOrNothing
  BodiesReadBack
  ReadersAgree
  ExtensionsShownOnce
  SelectedVisible

CHECK_DEADLOCK FALSE
