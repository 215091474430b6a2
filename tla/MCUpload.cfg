SPECIFICATION Spec
CONSTANTS
    Uploads = {"first", "second", "third", "empty", "twins"}
    WellFormed = {"first", "second", "third", "empty"}
    Sizes <- MCSizes
    Window = 2
    MaxUploads = 3
    MaxBytes = 5
    MaxFileSize = 3
    MaxClock = 4
INVARIANTS
    TypeOK
    WindowCount
    WindowBytes
    FilesKeptExactlyForRuns
    NothingForgottenEarly
PROPERTY RunHasEveryFile
CHECK_DEADLOCK FALSE
