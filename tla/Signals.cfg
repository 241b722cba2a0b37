SPECIFICATION FairSpec
CONSTANTS
  Threads = {p, u1, u2}
  Processor = p
  Main = Main
  requests_mutex = requests_mutex
  requests_cond = requests_cond
  Mutexes = {requests_mutex}
  Conds = {requests_cond}
  Recursive = {}
  CountMod = 4
  NULL = NULL
  Signals = {ILLEGAL, BTN}
  Fatal = {ILLEGAL}
  Faults = {ILLEGAL}
  Buttons = {BTN}
  RingSize = 3
  HandlersFault = TRUE
INVARIANTS SignalInv
PROPERTIES TakesTheOldest SendingWakes AwakeProcessorTakes
