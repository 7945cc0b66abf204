SPECIFICATION FairSpec
CONSTANTS
  Producers = {p1, p2}
  Consumer = c
  NoThread = NoThread
  Data = {d1, d2}
  MaxPush = 4
INVARIANTS TypeOK QueueInv FifoConserved SelfSendDeferred SizeToOwner
PROPERTIES PullServesCompleted MailboxSpec EventuallyDelivered MailboxFairSpec
