CONSTANT Studies <- MCStudies
SPECIFICATION Spec
INVARIANTS NamedSqlRuns RunAsAsked PoolAsAsked
