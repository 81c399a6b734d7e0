--------------------------- MODULE MCSmartProtocol ---------------------------
EXTENDS SmartProtocol, TLC

MCPaths == {"/mega", "/projects/a"}
MCRootNames == {"/mega"}
MCServiceNames == {"git-upload-pack", "git-receive-pack", "git-upload-archive"}
MCTokens == {"side-band-64k", "report-status", "agent=git/2.40"}
=============================================================================
