CONSTANTS
  p1 = p1
  p2 = p2
  p3 = p3
  Producers <- MCProducers
  Maximum = 1
  MaxSends = 2
SPECIFICATION FairSpec
INVARIANT TypeOK
INVARIANT CounterExact
PROPERTY ImplementsFifo
PROPERTY SendReturns
