SPECIFICATION MCSpec
CONSTANTS
  None = None
  Nil = Nil
  Clients = {"c1", "c2"}
  Fds = {1, 2}
  Kinds = {"text", "fragmented"}
  MaxMessages = 1
  MaxFrames = 2
  Pieces = 2
INVARIANTS WebsocketInv TextsAreRead CoverageInv PayloadInv ChannelInv
PROPERTIES  CoverageIsPublished
CHECK_DEADLOCK FALSE
