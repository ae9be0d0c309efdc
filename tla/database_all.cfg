SPECIFICATION DatabaseSpec
CONSTANTS
 MAX_ROWS = 2
 MAX_EVENTS = 2
 BATCH = 2
 Sizes = {1, 2}
INVARIANTS SchemaExact  ReadsScoped
CHECK_DEADLOCK FALSE
