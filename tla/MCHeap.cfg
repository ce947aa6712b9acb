SPECIFICATION Spec
CONSTANTS
  NPages = 3
  PageSize = 14
  Major = 2
  Minor = 2
  Alignment = 2
  PagePerChunk = 1
  Sizes = {1, 4, 15}
INVARIANT BooksOK
PROPERTIES GrowsLast Refines
