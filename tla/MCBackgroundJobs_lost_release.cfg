SPECIFICATION HostSpec
CONSTANTS
  j1 = j1 j2 = j2 t1 = t1 t2 = t2
  Jobs = {j1}
  Threads = {t1}
  Me = Me
  Sessions = {Me}
  NoOwner = NoOwner
  NoJob = NoJob
  Manager = Manager
  Listeners = {Manager}
  Streams = {FALSE}
  Texts = {"", "text"}
  MaxRetained = 2
  MaxReads = 0
  Grace = TRUE
  Interrupts = FALSE
  HostKills = FALSE
INVARIANT NoLostNotice
CHECK_DEADLOCK FALSE
