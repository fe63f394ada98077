CONSTANTS
    Clients = {a, b, c, d}
    Worker = Worker
    Nobody = Nobody
    Failures = {"none", "events", "pools", "lock"}
SPECIFICATION Spec
INVARIANTS
    TypeOK
    ThreadHasManager
    AnswerIsOwn
    Exclusive
PROPERTY ShutdownEnds
