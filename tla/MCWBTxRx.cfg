SPECIFICATION Spec
CONSTANTS
  Card <- MCCard
  TxCard <- MCTxCard
  NonceStart <- MCNonceStart
  MaxGap = 10
  MaxFrames = 3
  MaxRestarts = 1
  MaxResets = 1
INVARIANTS
  TypeOK
  NoncesUnique
  LossCounted
  SessionBeforeData
