CONSTANTS
    MaxHandEdits = 2
    MaxSaves = 2
    MaxSubs = 1
SPECIFICATION EditorSpec
INVARIANTS TextAgrees CleanIsSaved TagsResolve
