\* Four chunks, two uploads at a time, two overlapping 'readable' handlers.
SPECIFICATION FairSpec
CONSTANTS
  N = 4
  Limit = 2
  Handlers = 2
  Sources = {"blob", "web", "node"}
PROPERTIES AtomicPut UploadSettles
CHECK_DEADLOCK FALSE
