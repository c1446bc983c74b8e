CONSTANTS
  Messages = {m1, m2, m3, m4}
  Nodes = {n1, n2, n3, n4}
  Consumers = {c1, c2}
  FnResults = {TRUE}
  Nil = Nil
SPECIFICATION FairSpec
INVARIANTS ListShape DrainedOnExit
PROPERTIES ImplementsFifo AcceptedIsHandled CloseEndsConsumers
