\* Publishers that call again after an error, each with a context of its own.
CONSTANTS
  Publishers = {p1, p2, p3}
  Contexts = {c1, c2, c3}
  Digests = {d1}
  Blockless = {}
  Metadatas = {m1}
  Nil = Nil
  Faulty = FALSE
  LostReply = FALSE
  MayCrash = FALSE
  MaxAdverts = 3
  Owns <- PrivateOwns
SPECIFICATION FairSpec
PROPERTY EveryContextPublished
CHECK_DEADLOCK FALSE
