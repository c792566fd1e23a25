SPECIFICATION Spec
CONSTANTS
  Keys = {k1}
  Watchers = {w1, w2}
  Readers = {r1}
  MaxWrites = 4
INVARIANT StaleOnlyIfOvertaken
PROPERTY DataFollowsFile
CHECK_DEADLOCK FALSE
