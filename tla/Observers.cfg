SPECIFICATION Spec
CONSTANTS
    c1 = c1
    c2 = c2
    s3 = s3
    dynamodb = dynamodb
    global = global
    private = private
    Calls = {c1, c2}
    Tasks = {t1, t2}
    Threads = {p1, p2}
    Services = {s3, dynamodb}
    Observers = {global, private}
    Tracing = {global, private}
    Metrics = {global, private}
    NoObserver = NoObserver
    Unset = Unset
    ServiceOf <- MCServiceOf
    Explicit <- MCExplicit
    Settings <- MCSettings
    MaxChanges = 2
SYMMETRY Symmetry
INVARIANTS
    TraceIsOwn
    RecordedOnce
    ReportedOnce
    SettingsAreOne
