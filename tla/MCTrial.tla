------------------------------ MODULE MCTrial -------------------------------
EXTENDS OptimisticTrial

TrialCommands ==
  {commands[c] : c \in Calls, commands \in UNION {seed_commands(w) : w \in WORKLOADS}}

Identity == [b \in Calls |-> b]

=============================================================================
