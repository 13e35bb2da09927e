SPECIFICATION Spec
CONSTANTS
  LoadsMemory = TRUE
  Inst <- CallInst
  Ctl <- CallCtl
  LEGUP_0 = "LEGUP_0"
  Reg <- CallReg
  PhiReg <- CallPhi
  Value = {0, 1}
  Home <- CallHome
  Port <- CallPort
  From <- CallFrom
  To <- CallTo
  Unset = 0
  Input <- CallInput
  NextCtl <- CallNextCtl
  Loads <- CallLoads
  Driver <- CallDriver
  Out <- CallOut
  PowerUp <- CallPowerUp
  Env <- CallEnv
  SYNC_VOTER_MODE = 1
  PART_VOTER_MODE = 2
  Marked = {"i"}
  main = "main"
  memory_controller = "memory_controller"
  PartID <- MainWithMemory
  FeedbackPort <- Results
  Running <- Started
  Strikes <- MemoryStrikes
  MaxUpsets = 2
INVARIANTS
  UpsetsAreConfined
