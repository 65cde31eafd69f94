SPECIFICATION FairSpec
CONSTANTS
  j1 = j1 j2 = j2 j3 = j3 t1 = t1 t2 = t2 l1 = l1 l2 = l2 s1 = s1 s2 = s2
  Jobs = {j1}
  Sessions = {s1}
  Threads = {t1}
  Listeners = {l1, l2}
  Streams = {TRUE, FALSE}
  Texts = {"", "text"}
  MaxRetained = 1
  MaxReads = 1
  NoOwner = NoOwner
  NoJob = NoJob
INVARIANTS TypeOK ReportedWasSeen NoticesAreSound
PROPERTIES ImplementsLifecycle KilledJobsEnd CopiedListenersAreCalled WaitersReturn
