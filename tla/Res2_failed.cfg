CONSTANTS
  A1 = A1  A2 = A2  A3 = A3  A4 = A4  A5 = A5  A6 = A6
  S1 = S1  S2 = S2  S3 = S3  S4 = S4  S5 = S5  S6 = S6  S7 = S7  White = White
  None = None  Bianca = White  MaxHeld = 1  MaxReload = 0  MaxFlush = 2  NotReadyMod = 256  Depth = 3
  Assets = {A1, A2}  Sigs = {S1, S2, S3}  Hands = {White}
  Apps <- FailingApps
  Layer <- FlatLayers
  Versions <- TextureVersions  Kind <- AllCallback  Binds <- BindsNothing
SPECIFICATION FairSpec
PROPERTY EveryLoadEnds
