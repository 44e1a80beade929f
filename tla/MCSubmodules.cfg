SPECIFICATION Spec
CONSTANTS
    Subs = {gcc, binutils, newlib}
    MaxFaults = 2
    None = None
INVARIANTS TypeOK AcceptedIsFetched
PROPERTY FetchConverges
