SPECIFICATION Spec
CONSTANTS
    Tasks = {t1, t2}
    Records <- MCRecords
    NoTask = NoTask
    Never = Never
    Interval = 3
    MaxFaults = 2
    MaxEdits = 1
INVARIANTS
    TypeOK
    EventsSpaced
PROPERTY
    NotStranded
