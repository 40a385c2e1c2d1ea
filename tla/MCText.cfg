CONSTANTS
  Files <- MCFiles
  MaxToken = 5
  Templates <- MCTemplates
  Looks <- MCLooks
SPECIFICATION TextSpec
INVARIANTS StatementsFound DrawnAlike
