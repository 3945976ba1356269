\* Five keys, one of which two payloads have; a map of three.
CONSTANTS
  p1 = p1
  p2 = p2
  p3 = p3
  p4 = p4
  p5 = p5
  again = again
  Payload = {p1, p2, p3, p4, p5, again}
  KeyOf <- FiveKeys
  MapPayload = {p2, p3, again, p4}
  MaxCount = 3
  NULL <- NoNode
SPECIFICATION Spec
INVARIANT TraversalStops
\* bst_destroy and destroy_dict end the tree.
CHECK_DEADLOCK FALSE
