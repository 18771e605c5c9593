CONSTANTS
  Jobs = {j1, j2}
  Requests = {1, 2}
  Transfers = {1}
  Amounts = {1}
  Opening = 1
  MaxFailures = 1
SPECIFICATION FairSpec
INVARIANTS ReservationsBacked LedgerExplainsCash BankMatchesBooks
PROPERTY EventuallyReconciled
CHECK_DEADLOCK FALSE
