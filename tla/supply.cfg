SPECIFICATION Spec
CONSTANTS
  shelf = shelf
  truck = truck
  part1 = part1
  part2 = part2
  nobom = nobom
INVARIANTS TypeOK  FifoBooks BookedOnce ProductionSettles OrdersAddUp
CHECK_DEADLOCK FALSE
