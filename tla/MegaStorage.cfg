\* Two concurrent create_mega_file requests; inserts of batch_save_model may fail.
CONSTANTS
    EnvChoices = {TRUE, FALSE}
    root = root  projects = projects  mega = mega  import = import
    readme = readme  newf = newf  keep = keep  c1 = c1  c2 = c2  r1 = r1  r2 = r2
    GitKeep = GitKeep  InitId = InitId  None = None  NoRef = NoRef
    Requests <- MCRequests
    Names <- MCNames
    Contents <- MCContents
    GitKeepContent = keep
    Rows <- MCRows
    FileInfos <- MCFileInfos
    SaveMayFail = TRUE
    MaxCrashes = 1
SPECIFICATION Spec
INVARIANTS TypeOK RebuiltTreeCorrect GetRefFindsMain
CHECK_DEADLOCK FALSE
