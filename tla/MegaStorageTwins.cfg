\* Two directories with equal content share a tree id; the walk finds parents by tree id.
CONSTANTS
    EnvChoices = {TRUE}
    root = root  projects = projects  mega = mega  import = import
    readme = readme  newf = newf  keep = keep  c1 = c1  c2 = c2  r1 = r1  r2 = r2
    GitKeep = GitKeep  InitId = InitId  None = None  NoRef = NoRef
    Requests <- MCRequests
    Names <- MCNames
    Contents <- MCContents
    GitKeepContent = keep
    Rows <- MCTwinRows
    FileInfos <- MCTwinFileInfos
    SaveMayFail = FALSE
    MaxCrashes = 0
SPECIFICATION Spec
INVARIANT RebuiltTreeCorrect
CHECK_DEADLOCK FALSE
