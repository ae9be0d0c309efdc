SPECIFICATION Spec
CONSTANTS
 None = None
 NodeIds = {a, b, c}
 ConnectionIds = {x}
 AssumptionIds = {u}
 MAX_COMMANDS = 2
INVARIANTS    ValidationExact  
