\* Three requests, three URIs that uploads and copies may take, one received
\* attachment, a cache of one entry: every second look-up evicts.
CONSTANTS
  q1 = q1
  q2 = q2
  u1 = u1
  u2 = u2
  u3 = u3
  u4 = u4
  q3 = q3
  Requests = {q1, q2, q3}
  Uris = {u1, u2, u3, u4}
  Received = {u1}
  MaxLoaded = 1
  None = None
SYMMETRY Symmetry
SPECIFICATION Spec
INVARIANTS TypeOK UploadsKeepKeys CachedIsStored SentWithKeys ForwardedWholly 
CHECK_DEADLOCK FALSE
