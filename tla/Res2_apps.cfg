CONSTANTS
  A1 = A1  A2 = A2  A3 = A3  A4 = A4  A5 = A5  A6 = A6
  S1 = S1  S2 = S2  S3 = S3  S4 = S4  S5 = S5  S6 = S6  S7 = S7  White = White
  None = None  Bianca = White  MaxHeld = 1  MaxReload = 2  MaxFlush = 2  NotReadyMod = 256  Depth = 4
  Assets = {A1, A2, A3, A4, A5, A6}  Sigs = {S1, S2, S3, S4, S5, S6, S7}  Hands = {White, Mat}
  Apps <- FilesAndMaterialApps
  Layer <- FileLayers
  Versions <- FileVersions  Kind <- FileKind  Binds <- FileBinds
SPECIFICATION FairSpec
INVARIANTS CountersExact EdgesMirrored LiveIsOwned PipelineShadersReady SlotOwnsData
PROPERTY PolledBecomesReady
