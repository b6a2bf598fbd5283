CONSTANTS
    u1 = u1
    u2 = u2
    d1 = d1
    Uploads = {u1, u2}
    Documents = {d1}
    NewDocument = NewDocument
    Contents = {"x", "y"}
    NoUpload = NoUpload
    MaxGeneration = 2
SPECIFICATION Spec
INVARIANTS
    AttachedHasBytes
    NoResidueWithoutFault
PROPERTIES
    RequestsEnd
\* Every request ends: the system stops when the last one has.
CHECK_DEADLOCK FALSE
