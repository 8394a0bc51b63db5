------------------------------- MODULE MCLinks -------------------------------
\* Values for TLC.
EXTENDS Links

OneValue == {0}
OnlyBlock == {ENV_NOT_RUNNABLE}

\* After the first misuse nothing reads the list or its history again: such states
\* are the same for every variable and property that remains.
LinksView == <<vars, free, misused, IF misused = None THEN <<sched, queued>> ELSE <<>>>>

\* The list env_init builds, insertion by insertion, is the one Links starts from.
Built[i \in 0..NENV] == IF i = 0 THEN EmptyList ELSE InsertHead(Built[i - 1], NENV - i)
ASSUME BuiltByInsertion == Built[NENV] = EnvInit
=============================================================================
