SPECIFICATION Spec
VIEW View
CONSTANTS
  Values = {1, 2}
  Null = null
  Error = error
  Unit = 2
  Header = 1
  MaxSize = 5
  InsertFirst = FALSE
INVARIANT TypeOK
PROPERTY AbstractSpec
