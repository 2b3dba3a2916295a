SPECIFICATION MarkSpec
CONSTANTS
  w1 = w1
  w2 = w2
  Worker <- Workers
  MaxTime = 4
  MaxRestart = 1
SYMMETRY Symmetry
INVARIANTS ToldAgrees 
