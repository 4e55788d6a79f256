SPECIFICATION Spec
CONSTANTS
  Blits = {rgb}
  Default = rgb
  ScreenW = 3
  ScreenH = 2
  LayerW = 2
  LayerH = 2
  Moves <- MCMovesOff
INVARIANT HiddenIsNotDrawn
