SPECIFICATION Spec
CONSTANTS
  Promises = {p1, p2, p3, p4, p5, p6, p7, p8, p9, p10}
  Plain = {v}
  Thenables = {t}
  BadThens = {b}
  Reasons = {r}
  Undefined = undefined
  SelfFulfillment = selfFulfillment
  CannotReturnOwn = cannotReturnOwn
  GetThenError = getThenError
  MaxDeferred = 2
  MaxSteps = 2
  Firsts = {p1}
INVARIANTS CallbacksInOrder CombinedRight CallbacksCalled
PROPERTIES SettledOnce
CHECK_DEADLOCK FALSE
