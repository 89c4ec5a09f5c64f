\* Two events and deliveries to be refused, two handlers, a loss, redelivery until a 200.
SPECIFICATION FairSpec
CONSTANTS
  None = None
  e1 = e1  e2 = e2  h1 = h1  h2 = h2
  Events <- MCEvents
  Requests <- MCRequests
  Handlers <- MCHandlers
  RowIds <- MCIds
  MaxSends = 3
  MaxLosses = 1
INVARIANTS TypeOK StoredOnce AnswersAgree EveryAnswerAudited
PROPERTIES InboxImplemented EventsAcknowledged
\* Razorpay stops sending when every event is acknowledged.
CHECK_DEADLOCK FALSE
