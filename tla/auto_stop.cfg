\* A second recording begins while the first is transcribed.
SPECIFICATION FairSpec
CONSTANTS
  Jobs <- TwoJobs
  Capacity = 2
  EndSilence = 1
  MinSpeech = 1
  Frames = {"speech", "silence"}
  VadModes = {"live"}
  Faults = {}
  Controls = {"hotkey"}
  MaxPackets = 1
PROPERTY
  SilenceEndsRecording
CHECK_DEADLOCK FALSE
