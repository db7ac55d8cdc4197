CONSTANTS
  Req = {r1, r2, r3}
  Orders = {o1}
  Keys = {k1}
  None = None
  Total <- MCTotal
  Calls <- MixedCalls
  MAX_RESERVATION_ATTEMPTS = 3
SPECIFICATION Spec
SYMMETRY Perms
INVARIANT TypeOK
INVARIANT OncePerKey
INVARIANT AnswerFitsCall
INVARIANT PaidWithinTotal
