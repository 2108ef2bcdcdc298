SPECIFICATION FairSpec
CONSTANTS
  Senders = {c1}
  Isr = c0
  NoCore = NoCore
  None = None
  RxDesc = 3
  TxDesc = 3
  MaxIn = 4
  LinkChanges = TRUE
INVARIANTS SentIntact ReceivedInOrder
PROPERTY SendReturns
