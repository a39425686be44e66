SPECIFICATION Spec
CONSTANTS
  Request = {r1, r2}
  Pdv = {p1, p2}
  Ticket = {t1, t2}
  MaxFlips = 2
  Faults = {"abort", "crash", "delta"}
  None = None
SYMMETRY MCSymmetry
INVARIANTS
  TypeOK
  TicketsNumbered
  AnswersAgree
PROPERTIES
  ImplementsRoll
