SPECIFICATION TurnSpec
CONSTANTS
  Clients = {5, 6}
  MaxTyped = 2
  MaxBurst = 2
  Vars = {"PATH", "LANG"}
  Values = {"x", "y"}
  Start <- StartEnv
INVARIANTS TurnTypeOK OwnLine InOrder OwnEnv
PROPERTY Answered
