SPECIFICATION FairSpec
CONSTANTS
  Apps = {"mpeg4_test", "vopd_test", "message_test", "mailbox_test", "philosophers"}
  Rounds = 1
  N = 4
  MaxCount = 3
  Preempted = {"mailbox_test", "philosophers"}
  Quanta = {1, 2, 3, 4, 5, 6, 7, 8, 10, 15, 25}
INVARIANTS MessagesSafe MailboxesSafe NeighboursExclude
PROPERTIES GetsTheCore
