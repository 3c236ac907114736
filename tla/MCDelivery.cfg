CONSTANTS
  Workers = {w1, w2, w3}
  Messages = {m1, m2}
  Legacy = {m2}
  Contents = {h1, h2}
  LeaseMs = 2
  MaxWrites = 6
  NoDelivery = NoDelivery
SPECIFICATION DeliverySpec
SYMMETRY Symmetry
INVARIANTS
  AppliedOnce
  CalledOnce
PROPERTY OutcomeSettled
