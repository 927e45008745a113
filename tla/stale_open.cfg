SPECIFICATION SubscribedSpec
CONSTANTS
  None = None
  Client = {c1, c2}
  Path = {p1}
  MaxContent = 2
  Ops <- Sharing
PROPERTY
  EventuallyFresh
