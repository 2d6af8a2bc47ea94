SPECIFICATION UploadSpec
CONSTANTS
  Names = {"A"}
  Rates = {"600L"}
  DefaultRate = "600L"
  Encoders = {"TONE"}
  Profiles = {"1200"}
  MaxUpload = 2
  Blocks = 2
  Found <- MCFound
INVARIANTS ManifestMeansWhole UploadOwnsCard ReplyIsCurrent ModeIsCurrent
PROPERTIES RequestAnswered
CHECK_DEADLOCK FALSE
