CONSTANTS
    Files <- MCFiles
    ThreadIds <- MCThreadIds
    AsyncFreq = 100
    MaxCalls = 3

SPECIFICATION Spec

INVARIANT ErrorMessageIsOwn

\* Calls are bounded by MaxCalls, and a crashed or finished object takes no
\* further step.
CHECK_DEADLOCK FALSE
