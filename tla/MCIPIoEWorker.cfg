SPECIFICATION FairSpec
CONSTANTS
  Msgs = {m1, m2}
  NoMsg = NoMsg
  QueueLength = 1
  Word = 4
  MaxOwed = 1
INVARIANTS WakeupKept NoUnderflow Untorn
PROPERTY Answered
