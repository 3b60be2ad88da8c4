CONSTANTS
  a1 = a1
  b1 = b1
  b2 = b2
  ind = ind
  ind2 = ind2
  take = take
  atom = atom
  ka = ka
  kb = kb
  ki = ki
  kt = kt
  s1 = s1
  s2 = s2
  None = None
  Payload <- MCPayload
  Id <- MCId
  IdOf <- MCIdOf
  Kind <- MCKind
  Children <- MCChildren
  Server <- MCServer
  Guarded <- MCGuarded
  MaxUses = 2
  MaxResults = 3
SPECIFICATION Spec
SYMMETRY Symmetry
INVARIANT ReservationHolds
