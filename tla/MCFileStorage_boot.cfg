SPECIFICATION Spec
CONSTANTS
    Namespaces = {a, b, c}
    Drivers = {s3, disk}
    MaxOptions = 2
    None = None
CHECK_DEADLOCK FALSE
INVARIANTS
    OneClientPerSource
PROPERTIES
    BootsAsConfigured
