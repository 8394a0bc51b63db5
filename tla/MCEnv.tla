------------------------------- MODULE MCEnv --------------------------------
\* Values for TLC: user code may pass any status to sys_set_env_status.
EXTENDS Env

OneValue == {0}
AnyStatus == Status
=============================================================================
