CONSTANTS
  MaxObjects = 6
  MaxFailures = 1
  ImageSize = 20
  Word = 64
  Borders = {0, 5, 34}
  NoImage = NoImage
SPECIFICATION SetupFairSpec
INVARIANTS AuthorityGrounded ContextFits CreatedIsInitialized
PROPERTIES NotebookCompletes
