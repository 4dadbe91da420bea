SPECIFICATION PartSpec
CONSTANTS
  Full = 64
  Entries = 5
  Words = 3
  Uniforms = 3
  Images <- MCImages
INVARIANTS
  ListsTaken
  DrawsCurrent
  EnginesAgree
  CopiesCoherent
  TrianglesRight
  PixelsAgree
CHECK_DEADLOCK FALSE
