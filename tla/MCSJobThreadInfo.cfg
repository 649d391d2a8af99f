CONSTANTS
    Files <- MCFiles
    ThreadIds <- MCThreadIds
    AsyncFreq = 100
    MaxCalls = 3

SPECIFICATION Spec

INVARIANT InfoMatchesFile

\* Calls are bounded by MaxCalls, and a crashed or finished object takes no
\* further step.
CHECK_DEADLOCK FALSE
