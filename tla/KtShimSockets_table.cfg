\* An application making up to 10 socket calls on two descriptors.
CONSTANTS
  Fds <- MC_Fds
  Prios <- MC_Prios
  IfAddrs <- MC_IfAddrs
  Dests <- MC_Dests
  MaxCalls = 10
  NoRec = NoRec
  NoIface = NoIface
SPECIFICATION Spec
INVARIANT RecordDescribesSocket
\* The application stops after MaxCalls calls.
CHECK_DEADLOCK FALSE
