CONSTANTS
  Req = {r1, r2, r3}
  Items = {i1, i2, i3}
  None = None
  Unlimited = Unlimited
  Subs <- SomeSubs
  Limits = {1, 2}
SPECIFICATION Spec
SYMMETRY Perms
INVARIANT TypeOK
PROPERTY AddsWithinLimit
