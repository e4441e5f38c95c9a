SPECIFICATION FairSpec
CONSTANTS
  Tasks = {t1, t2}
  Kinds = {"cloudsql", "postgres"}
  Sizes = {1, 2}
  MaxOpens = 2
  MaxTxs = 2
INVARIANTS
  TypeOK
  LentIsHeld
  NothingLeaks
  BindingIsUndone
  OwnStatementsInOwnTx
PROPERTIES
  CallReturns
CHECK_DEADLOCK FALSE
