\* Two functions, an indexer that syncs up to three times, writes that fail,
\* crashes, the end of the context and Stop.
CONSTANTS
  Callbacks = {f1, f2}
  MaxHead = 3
  Nil = Nil
  Faulty = TRUE
  MayCrash = TRUE
  MayEnd = TRUE
  MayStop = TRUE
SPECIFICATION FairSpec
INVARIANTS TypeOK NoHeadTwice CallsLinkUp
PROPERTIES StopReturns EverySyncTold
CHECK_DEADLOCK FALSE
