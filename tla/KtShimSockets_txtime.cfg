\* An application making up to 4 socket calls on two descriptors.
CONSTANTS
  Fds <- MC_Fds
  Prios <- MC_Prios
  IfAddrs <- MC_IfAddrs
  Dests <- MC_Dests
  MaxCalls = 4
  NoRec = NoRec
  NoIface = NoIface
SPECIFICATION Spec
INVARIANT TxtimeSendAccepted
CHECK_DEADLOCK FALSE
