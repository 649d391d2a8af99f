CONSTANTS
    Units = {"m", "s", ""}
    MaxCurves = 3
    Metrics <- MCMetrics
    LabelSizes <- MCLabelSizes
    MaxLabels = 3
    RRight = 200
SPECIFICATION Spec
INVARIANT EntriesSpaced
