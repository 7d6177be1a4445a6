\* Two threads share the client while it reconnects.
SPECIFICATION RSpec
CONSTANTS
  Callers = {c1, c2}
  NoCaller = NoCaller
  MaxCalls = 1
  MaxSocks = 2
  MaxBreaks = 0
CHECK_DEADLOCK FALSE
INVARIANTS
  OwnReply
