SPECIFICATION BusesSpec
CONSTANTS
    retry = retry
    source = source
    Kinds = {retry, source}
    Topics = {ta, tb}
    Modes = {concurrently, orderly}
    Plans <- MCPlans
    Procs = {p1, p2}
    None = None
    MaxClients = 6
    MaxChanges = 3
SYMMETRY Sym
INVARIANTS BusesTypeOK StoredServes SettledStored ForgottenOnlyByDelete
CHECK_DEADLOCK FALSE
