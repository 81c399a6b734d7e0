\* create_database called up to ten times, any file or database call may
\* fail.  Only a failed File::create leaves no file behind, so only it can be
\* followed by a successful call; ten calls let it repeat.
CONSTANTS
    MaxCalls = 10
    MayFail = TRUE
SPECIFICATION Spec
INVARIANT OkMeansSchema
PROPERTY FileNeverTruncated
\* The caller stops after MaxCalls calls.
CHECK_DEADLOCK FALSE
