CONSTANTS
  ROWS = 2
  COLUMNS = 3
  Texts <- EditTexts
SPECIFICATION Spec
PROPERTY InsertKeepsBounds
