SPECIFICATION MCSpec
CONSTANTS
  Images = 2
  Texts = {t1}
  VisionJobs = {v1, v2}
  RenderJobs = {r1, r2}
  Modes = {inpaint}
  MaxSegments = 2
  MaxWrites = 3
  MaxFaults = 2
  DocxItems <- DocxSample
  EpubItems <- EpubSample
  Notes = {1, 2}
  HeadingJobs = {h1, h2}
  MaxItems = 4
  MaxTranslated = 2
SYMMETRY JobSymmetry
CONSTRAINT Focus
INVARIANTS
  RowsHaveObjects
  VerdictsAreEarned
  FigureTextsAreUnique
  ExportFollowsSource
  HeadingsAreSegmentedOnce
PROPERTIES
  RendersAreCurrent
CHECK_DEADLOCK FALSE
