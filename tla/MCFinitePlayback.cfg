SPECIFICATION Spec
CONSTANTS
  Configs <- MCConfigs
  PlaybackRate = 3
  MaxToken = 24
INVARIANTS SoundRun HonestCompletionAccepted PolicyNeverStuck LeadCovers
PROPERTIES RunsApart
