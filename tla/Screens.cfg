SPECIFICATION Spec
CONSTANTS
  p1 = p1
  p2 = p2
  leg = leg
  Payouts = {p1, p2}
  Legs = {leg}
  LegsOf <- OneLeg
  NotAnId = NotAnId
  Nothing = Nothing
  Typed <- TypedFew
  Offers = {"deletePayout", "attachDocument", "deleteTransaction", "detachDocument"}
  MaxSession = 1
  MaxHistory = 2
  MaxFlights = 2
  MaxAsked = 4
CHECK_DEADLOCK FALSE
INVARIANTS TabIsSound
PROPERTIES AnswersKeepToTheirOwn NavigationSettles ChosenArrives
