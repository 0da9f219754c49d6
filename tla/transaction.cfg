SPECIFICATION MCSpec
CONSTANTS
  Window = {w1, w2}
  Client = {w1, w2}
  ClientOf <- OneClientEach
  Tx = {t1, t2}
  NoTx = NoTx
  DisableTransactions = FALSE
  Hasty = {w1}
  MaxQueue = 1
CHECK_DEADLOCK FALSE
INVARIANTS CompletesWithLastReference NoLostWakeup WaitersHaveDeadline
PROPERTIES CommitsApplied CloseAnimationsStart
