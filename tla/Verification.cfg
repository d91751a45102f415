\* A transaction of either side, four commands.  No symmetry, for the sake of liveness.
CONSTANTS
  OurTransactions = {t1}
  TheirTransactions = {t2}
  MaxCommands = 4
  None = None
SPECIFICATION FairSpec
INVARIANTS TypeOK VerifiedIsReported CommandAnsweredOnce
PROPERTIES EveryCommandHandled
CHECK_DEADLOCK FALSE
