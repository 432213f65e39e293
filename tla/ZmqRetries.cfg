\* no retries asked for: the eight-bit counter wraps.  With RequestRetries = 2
\* the property is violated as well: the request is given up one retry early.
SPECIFICATION Spec
CONSTANTS
    MaxOutstanding = 1
    RequestRetries = 0
    RequestTimeout = 1
    Interval = 0
    Liveness = 2
    ReconnectMin = 1
    ReconnectMax = 2
    Linger = 1
    MaxViews = 1
    MaxPubs = 0
    MaxCrashes = 1
    MaxWire = 1
CHECK_DEADLOCK FALSE
INVARIANT RetriesAsDocumented
