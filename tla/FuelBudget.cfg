SPECIFICATION FuelSpec
CONSTANTS
  Callers = {c1}
  Tools = {t1, t2}
  MaxFuel = 5
  Floor = 2
  MinSamples = 2
  MaxSamples = 3
  Percent = 60
  Demands = {3}
INVARIANTS RunsWithinOwnBudget
