\* A failed chunk insert is dropped by join_all and the request returns Ok.
CONSTANTS
    EnvChoices = {TRUE}
    root = root  projects = projects  mega = mega  import = import
    readme = readme  newf = newf  keep = keep  c1 = c1  c2 = c2  r1 = r1  r2 = r2
    GitKeep = GitKeep  InitId = InitId  None = None  NoRef = NoRef
    Requests <- MCRequests
    Names <- MCNames
    Contents <- MCContents
    GitKeepContent = keep
    Rows <- MCRows
    FileInfos <- MCFileInfos
    SaveMayFail = TRUE
    MaxCrashes = 0
SPECIFICATION Spec
INVARIANT OkImpliesCommitSaved
CHECK_DEADLOCK FALSE
