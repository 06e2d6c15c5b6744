SPECIFICATION IncidentSpec
CONSTANTS
    Threads = {t1, t2}
    Incidents = {i1}
    Services = {"sos", "incident"}
    OtherStatuses = {"ASSIGNED"}
    None = None
INVARIANTS
    RecordsAgree
    TimelineIsTrue
PROPERTIES
    OverStaysOver
SYMMETRY Symmetry
