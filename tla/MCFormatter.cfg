SPECIFICATION Spec
CONSTANT Files <- MCFiles
INVARIANTS FormatKeeps Precedence
