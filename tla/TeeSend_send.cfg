\* Two threads, all four backends, a command of each mode and three errors.
CONSTANTS
  Threads = {"hal", "worker"}
  Caller = "hal"
  Backends = {"qsee", "tee", "gp", "nosec"}
  Used = {"remove_finger", "set_key_data", "save_template", "test_image_capture", "test_cmd"}
  ErrLimit = 3
SPECIFICATION Spec
INVARIANTS AnswerIsOwn InputReaches BreakNeedsErrors
PROPERTIES CallsEnd
CHECK_DEADLOCK FALSE
