\* One client next to one collection at a time.
CONSTANTS
    Ports = {1, 2}
    Vids = {1, 2}
    Rates = {0, 5}
    Priorities = {1, 2}
    LagIds = {1, 2, 3}
    FirstDevices <- TwoDevices
    Rows <- SomeRows
    Trunks <- SomeTrunks
    EditedCats = {"vlans", "lags", "mirror", "qos", "storm", "igmp", "loop"}
    Unreliable = {"vlan-802.1q"}
    Clients = {c1}
    Collectors = {k1}
    None = None
    Unread = Unread
    MaxChanges = 1
SPECIFICATION Spec
INVARIANTS
    TypeOK
    RightIsCurrent
    MetricsAreCurrent
PROPERTIES
    OneEntryChanges
