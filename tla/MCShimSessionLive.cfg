SPECIFICATION FairSpec
CONSTANTS
  s1 = s1
  s2 = s2
  t1 = t1
  t2 = t2
  Shims = {s1, s2}
  Threads = {t1, t2}
  Nobody = none
  SocketCap = 2
  Scenes <- LiveScenes
PROPERTIES
  NothingOutlives
  WaitersReturn
