\* Every insert succeeds; started requests run to their end (weak fairness);
\* the process may crash once, requests may come before init is done.
CONSTANTS
    EnvChoices = {TRUE}
    root = root  projects = projects  mega = mega  import = import
    readme = readme  newf = newf  keep = keep  c1 = c1  c2 = c2  r1 = r1  r2 = r2
    GitKeep = GitKeep  InitId = InitId  None = None  NoRef = NoRef
    Requests <- MCRequests
    Names <- MCNames
    Contents <- MCContents
    GitKeepContent = keep
    Rows <- MCRows
    FileInfos <- MCFileInfos
    SaveMayFail = FALSE
    MaxCrashes = 0
SPECIFICATION FairSpec
PROPERTY RequestEnds
CHECK_DEADLOCK FALSE
