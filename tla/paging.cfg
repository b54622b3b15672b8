CONSTANTS
  Items = {1, 2, 3, 4, 5}
  PageSize = 2
  MaxPages = 2
  MaxItems = 5
SPECIFICATION Spec
INVARIANTS TypeOK NothingLost GivesUpHonestly
