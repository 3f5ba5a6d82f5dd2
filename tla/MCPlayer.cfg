SPECIFICATION Spec
CONSTANTS
  Media <- MCMedia
  RingSize <- MCRingSize
  Delay <- MCDelay
  MinFrames = 0
  Autoexit = TRUE
  Scripts <- MCScripts
INVARIANTS TypeOK FrameInUseIsKept PlayedInOrder QuitMeansPlayed NoLostWakeup
