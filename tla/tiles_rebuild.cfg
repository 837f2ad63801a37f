SPECIFICATION FairTilesSpec
CONSTANTS
  Layer = {front, back}
  MaxVersion = 3
  MaxNesting = 2
INVARIANTS ThreadInProgress NoChangeForgotten
PROPERTIES TilesCatchUp
CHECK_DEADLOCK FALSE
