SPECIFICATION ShadowSpec
CONSTANTS
  LEGUP_0 = "LEGUP_0"
  Ctl <- MCCtl
  Reg <- MCReg
  PhiReg <- MCPhi
  Value = {0, 1}
  Input <- MCInput
  NextCtl <- MCNextCtl
  Loads <- MCLoads
  Driver <- MCDriver
  PowerUp <- MCPowerUp
INVARIANTS
  StallsAreTransparent
