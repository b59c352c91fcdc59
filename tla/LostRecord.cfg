CONSTANTS
    OrderLimit = 1

SPECIFICATION Spec
INVARIANT RecordNamesOrder
