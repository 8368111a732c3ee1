SPECIFICATION FilesSpec
CONSTANTS
    Probes <- AllProbes
    NewVersions <- AllVersions
    HasKey = FALSE
    HasSid = FALSE
    OldKnowsPointer = TRUE
    Weathers <- AllWeathers
    None = None
    Tasks = {t1, t2}
    Order <- CdnThenRelay
    Length = 2
    Attempts = 2
    Scenes <- AllScenes
INVARIANTS
    TypeOK
    OldVersionKept
    ReportsAreTrue
    InstalledIsArtifact
    FailureIsDeserved
PROPERTY DeviceComesBack
CHECK_DEADLOCK FALSE
