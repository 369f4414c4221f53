\* Three people with rights or none, and one link between them.
SPECIFICATION Spec
CONSTANTS
  User = {u1, u2, u3}
  Role = {"owner", "admin"}
  Link = {l1}
  Offer <- Offers
SYMMETRY Interchangeable
CHECK_DEADLOCK FALSE
INVARIANTS TypeOK LinkAdmitsOnce TrailTellsRoles
PROPERTY OwnersFallByOwners
