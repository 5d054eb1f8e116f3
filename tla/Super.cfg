SPECIFICATION Spec
CONSTANTS
  db_count = 2
INVARIANTS UnwindExact ValidMeansSynced ErrorRecorded CleanUnmount
