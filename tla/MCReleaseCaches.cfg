SPECIFICATION Spec
CONSTANTS
  q1 = q1  q2 = q2  q3 = q3
  k1 = k1  k2 = k2
  light = light  fontA = fontA  fontB = fontB  fontC = fontC  sprite = sprite
  Requests = {q1, q2, q3}
  Keys = {k1, k2}
  NoKey = NoKey
  Paths <- MCPaths
  Styles <- MCStyles
  Stacks <- MCStacks
  Has <- MCHas
  Size <- MCSize
  Limit = 2
SYMMETRY Exchangeable
INVARIANTS
  ServesOwnRelease
  OneRelease
  AssetBudget
  FirstFontWins
