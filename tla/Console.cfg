\* Four keys: two lines of one word, or one line of up to three words; processes enough for
\* all their children.
CONSTANTS
  Words = {"prog", "pipe", "exec", "demo", "shell", "shellHandler", "init"}
  Demo <- ShortDemo
  MaxProcs = 7
  MaxKeys = 4
SPECIFICATION FairSpec
INVARIANTS
  OneReader
  LineAsTyped
PROPERTIES
  LineAnswered
CHECK_DEADLOCK FALSE
