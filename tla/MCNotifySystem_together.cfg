CONSTANTS
  Dev = "dev"
  Ntf = "ntf"
  Scenes <- Together
  Keyed = {"dev", "ntf"}
  MaxCount = 0
  MaxRestarts = 0
  MaxNet = 2
SPECIFICATION Spec
INVARIANTS KeyPath NoFalseConfirm
