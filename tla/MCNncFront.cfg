SPECIFICATION Spec
CONSTANTS
  Chars <- MCChars
  Keywords <- MCKeywords
  MaxOf <- MCMaxOf
  Names = {"x", "n", "T"}
  Literals = {"1"}
  TypeNames = {"i8", "T"}
  Texts <- MCTexts
  Trees <- MCTrees
  Inputs <- MCInputs
  Spell <- MCSpell
INVARIANTS
  LexesAsMunch
  LinesTrue
  LiteralsExact
  TextParsesBack
  AcceptedKeepsTokens
  ContextFits
  TokensBounded
