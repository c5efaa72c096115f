SPECIFICATION Spec
CONSTANT Requests <- AllRequests
INVARIANTS RuntimesStopped ResultNeverLost
PROPERTY SessionEnds
