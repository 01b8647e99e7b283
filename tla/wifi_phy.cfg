SPECIFICATION Spec
CONSTANTS
  Frame <- MCFrame
  Header = 1
  TxDuration <- MCTxDuration
  SwitchDelay = 1
  MaxBusy = 1
  MaxPostponed = 2
  Standard <- MCStandard
  Number <- MCNumber
  Frequency <- MCFrequency
  Width <- MCWidth
  None = None
INVARIANTS ReceptionScheduled OwnHeader Tuned
PROPERTIES RetuneSwitches
