SPECIFICATION Spec
CONSTANT Files <- MCStatements
INVARIANTS FormatKeepsTree
