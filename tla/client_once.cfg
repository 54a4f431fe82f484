SPECIFICATION FairSpec
CONSTANTS
  Offers <- SampleOffers
  Usable = {"WebSockets", "ServerSentEvents", "LongPolling"}
  MAX_REDIRECTS = 2
  MaxStarts = 1
  MaxStops = 2
  MaxInvocations = 2
CHECK_DEADLOCK FALSE
INVARIANT AnsweredOwn
INVARIANT OneTimer
INVARIANT SettledWhenDead
PROPERTY StopSettles
