\* Every input list of up to four distinct infos.
CONSTANTS
    rootdir = rootdir  projects = projects  mega = mega  readme = readme
    x = x  other = other  lost = lost  None = None
    Infos <- MCInfos
    MaxLen = 4
SPECIFICATION Spec
INVARIANT NodeTreeCorrect
CHECK_DEADLOCK FALSE
