CONSTANTS
  NoTorrent = NoTorrent
  Torrents = {t1, t2}
SPECIFICATION FairSpec
INVARIANTS TypeOK AtMostOneBroken ExitKeeps RemovalSticks
PROPERTIES QuitEnds
