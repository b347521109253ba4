\* The line "dir port" finds the command of "dir".
SPECIFICATION Spec
CONSTANTS
  Programs <- BothPrograms
INVARIANTS
  HelpIsTrue
