SPECIFICATION Spec
CONSTANTS
  Lets = {"x"}
  Heads <- MCHeads
  Fns = {"f", "g"}
  Spaces = {"n"}
  Enums = {"a"}
  Types = {"t"}
  Exprs <- MCExprs
  LetForms <- MCLetForms
  Mixes <- MCLateMixes
  MaxStmts = 4
INVARIANTS
  OwnSlot
