\* update_ref returns Ok and main still names the init commit.
CONSTANTS
    EnvChoices = {TRUE}
    root = root  projects = projects  mega = mega  import = import
    readme = readme  newf = newf  keep = keep  c1 = c1  c2 = c2  r1 = r1  r2 = r2
    GitKeep = GitKeep  InitId = InitId  None = None  NoRef = NoRef
    Requests <- MCRequests
    Names <- MCNames
    Contents <- MCContents
    GitKeepContent = keep
    Rows <- MCRows
    FileInfos <- MCFileInfos
    SaveMayFail = FALSE
    MaxCrashes = 0
SPECIFICATION Spec
PROPERTY UpdateRefMovesMain
CHECK_DEADLOCK FALSE
