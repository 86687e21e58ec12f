SPECIFICATION Spec
SYMMETRY Interchangeable
CONSTANTS
    Requests = {r1, r2, r3}
    Creators = {r1}
    Patchers = {r2, r3}
    Users = {alice}
    Names = {cash}
    Unset = Unset
    Never = Never
    NoOne = NoOne
PROPERTIES
    FirstArchiveDateIsKept
CHECK_DEADLOCK FALSE
