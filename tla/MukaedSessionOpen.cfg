SPECIFICATION MSpec
CONSTANTS
  MaxPrompts = 4
  Scripts <- MCScripts
INVARIANT SessionOpenIsTrue
