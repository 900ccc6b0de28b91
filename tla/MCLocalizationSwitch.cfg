SPECIFICATION Spec
CONSTANTS
  Addr = {1, 2, 3, 4, 5, 6, 7}
  Byte = {"j", "e", "s", "f", "i", "k", "c", "g", "t", "x"}
  Langs = {"en", "es", "fr", "it"}
  Off = "off"
  Fallback <- MCFallback
  Rows <- MCRows
  TextCells = {2}
  CellTiles <- MCCells
  CellLang = "fr"
  Cleared = {3}
  BaseGlyph <- MCGlyph
  Ink = "x"
  FrameTiles <- MCFrame
  Rects <- MCRects
  CaptionArt <- MCArt
  Captures <- MCCaptures
  Lines <- MCLines
  Surfaces <- MCSurfaces
  Dialogue <- MCDialogue
  Latin <- MCLatin
  MinGuardWords = 2
  LineCells = 5
INVARIANT VerifiedRowsSwitch
