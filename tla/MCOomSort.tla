----------------------------- MODULE MCOomSort -----------------------------
EXTENDS OomSort

Call(src, threads, unique, fetchLock, flushLock, inMemory) ==
    [src |-> src, threads |-> threads, unique |-> unique, fetchLock |-> fetchLock,
     flushLock |-> flushLock, inMemory |-> inMemory]

\* Duplicates within a chunk, across chunks and across groups; three threads, so
\* that one may pause; all settings of the locks.
MCConfigs ==
    {Call(<<3, 1, 3, 3, 2>>, 3, u, f, f, FALSE) : u, f \in BOOLEAN}
    \cup {Call(<<2, 2, 1, 2>>, 3, u, FALSE, TRUE, FALSE) : u \in BOOLEAN}
    \cup {Call(<<4, 3, 4, 3, 4, 3>>, 1, u, TRUE, TRUE, FALSE) : u \in BOOLEAN}
    \cup {Call(<<2, 1, 2>>, 2, u, TRUE, TRUE, TRUE) : u \in BOOLEAN}
    \cup {Call(<<1, 2>>, 0, FALSE, TRUE, TRUE, FALSE)}

\* One call that flushes more than once.
MCSubmit == {Call(<<1, 2, 3, 4>>, 3, FALSE, TRUE, FALSE, FALSE)}
=============================================================================
