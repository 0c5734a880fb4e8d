----------------------------- MODULE MCBootstrap -----------------------------
EXTENDS Bootstrap, TLC

CONSTANTS w1, w2

MCWorkers == {w1, w2}

\* Production, production with the reset left on, development with several
\* workers, and uvicorn alone as the README has it.
MCConfigs ==
    {[app_mode |-> "prod", reset |-> FALSE, workers |-> MCWorkers],
     [app_mode |-> "prod", reset |-> TRUE, workers |-> MCWorkers],
     [app_mode |-> "dev", reset |-> TRUE, workers |-> MCWorkers],
     [app_mode |-> "dev", reset |-> TRUE, workers |-> {w1}],
     [app_mode |-> "dev", reset |-> FALSE, workers |-> {w1}]}
==============================================================================
