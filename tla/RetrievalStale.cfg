CONSTANTS
  short = short
  long = long
  s1 = s1
  s2 = s2
  None = None
  Texts <- MCTexts
  Long <- MCLong
  Snippets <- MCSnippets
  TopK = 1
  MaxUtterances = 3
  MaxSearches = 4
SPECIFICATION Spec
INVARIANT ContextFromThisUtterance
