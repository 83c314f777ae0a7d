\* One recording with every kind of frame, fault, with and without VAD.
SPECIFICATION FairSpec
CONSTANTS
  Jobs <- OneJob
  Capacity = 2
  EndSilence = 1
  MinSpeech = 1
  Frames = {"speech", "silence", "rejected"}
  VadModes = {"live", "off"}
  Faults = {"open", "pause", "device", "resample", "transcribe"}
  Controls = {"window", "hotkey"}
  MaxPackets = 2
INVARIANT
  CaptureIsComplete
PROPERTY
  SilenceEndsRecording
CHECK_DEADLOCK FALSE
