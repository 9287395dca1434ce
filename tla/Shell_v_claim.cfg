\* A person who signs in on the welcome page.
SPECIFICATION Spec
CONSTANTS
    Users = {ann}
    Visited = {ann}
    Jams = {jam}
    Guest = Guest
    Null = Null
    MaxChanges = 3
    MaxDocs = 1
    MaxPayers = 1
    MaxCalls = 1
PROPERTIES
    DriversClaim
CHECK_DEADLOCK FALSE
