CONSTANTS
    c1 = c1
    c2 = c2
    k1 = k1
    Call = {c1, c2}
    Conn = {k1}
    Free = Free
SPECIFICATION FairSpec
INVARIANTS TypeOK PoolDiscipline HonestError ReadOnlyWritesNothing
PROPERTIES ImplementsUnitOfWork CallsReturn SessionsEnd
CHECK_DEADLOCK FALSE
