SPECIFICATION FindFairSpec
CONSTANTS
  MINFIND = 2
  MAXFIND = 5
PROPERTY Answers
PROPERTY Terminates
