SPECIFICATION ShellSpec
CONSTANT MaxToasts = 1
INVARIANT LabelsFollowLanguage
