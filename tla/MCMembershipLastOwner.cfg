\* The rule the membership migration states: an organisation keeps an owner.
\* It is violated by two transactions that each count the other's owner.
SPECIFICATION Spec
CONSTANTS
  User = {u1, u2, u3}
  Role = {"owner", "admin"}
  Link = {l1}
  Offer <- Offers
SYMMETRY Interchangeable
CHECK_DEADLOCK FALSE
INVARIANT KeepsAnOwner
