--------------------------------- MODULE Config ---------------------------------
(* The configuration file, its validation, and the pool that is built from it.*)
(* A setting is what the program distinguishes of it.                          *)
EXTENDS Integers

CONSTANTS IntWidth,                \* width of the pool's limits: 32 bits in the code
          DefaultMaxConns          \* pgxpool's own limit: 4, or the number of processors

ASSUME ConfigAssumption == /\ IntWidth \in Nat \ {0}
                           /\ DefaultMaxConns \in 1..(2^(IntWidth - 1) - 1)

\* The settings that must be there.
Required == {"server.listen_addr", "database.host", "database.port", "database.user",
             "database.password", "database.name"}

\* A file: why it cannot be read, the required settings left out, the rest of the
\* connection string, two durations, two limits (0 if left out).
Settings == [read : {"nil", "read file", "parse yaml"}, missing : SUBSET Required,
             dsn : {"", "disable", "bad"},
             conn_max_lifetime : {"", "30m", "bad"}, conn_max_idle_time : {"", "10m", "bad"},
             max_open_conns : Int, max_idle_conns : Int]

parseDurationAllowEmpty(raw) == IF raw = "bad" THEN "invalid duration" ELSE "nil"

validateAndNormalize(s) ==
    IF s.missing # {} THEN "must be set"
    ELSE IF parseDurationAllowEmpty(s.conn_max_lifetime) # "nil" THEN "conn_max_lifetime"
    ELSE IF parseDurationAllowEmpty(s.conn_max_idle_time) # "nil" THEN "conn_max_idle_time"
    ELSE "nil"

\* Reading the file, or its YAML, may fail first.
Load(s) == IF s.read # "nil" THEN s.read ELSE validateAndNormalize(s)

-------------------------------------------------------------------------------
\* Mistake: the limit is taken to fit.
int32Unchecked(x) == x

\* Conversion of an int to fewer bits keeps the low ones; the highest is the sign.
int32(x) == LET low == x % 2^IntWidth
            IN IF low >= 2^(IntWidth - 1) THEN low - 2^IntWidth ELSE low

Int32 == -(2^(IntWidth - 1))..(2^(IntWidth - 1) - 1)

\* The connection string carries the SSL mode, "disable" if there is none; pgx
\* refuses one it does not know, and a port that is none.
DSN(s) == IF s.dsn = "" THEN "disable" ELSE s.dsn

\* Mistake: the limit only raises the pool's own one.
BuildPoolConfigRaised(s) ==
    IF DSN(s) = "bad" THEN [err |-> "parse config"]
    ELSE [err |-> "nil",
          MaxConns |-> IF s.max_open_conns > DefaultMaxConns
                         THEN int32(s.max_open_conns) ELSE DefaultMaxConns,
          MinConns |-> IF s.max_idle_conns > 0 THEN int32(s.max_idle_conns) ELSE 0]

BuildPoolConfig(s) ==
    IF DSN(s) = "bad" THEN [err |-> "parse config"]
    ELSE [err |-> "nil",
          MaxConns |-> IF s.max_open_conns > 0 THEN int32(s.max_open_conns) ELSE DefaultMaxConns,
          MinConns |-> IF s.max_idle_conns > 0 THEN int32(s.max_idle_conns) ELSE 0]

\* pgxpool refuses a pool without connections, but not one whose limit has been
\* cut to a smaller number.
PoolError(s) == LET p == BuildPoolConfig(s) IN
                IF p.err # "nil" THEN p.err
                ELSE IF p.MaxConns < 1 THEN "MaxSize must be >= 1" ELSE "nil"
===============================================================================
