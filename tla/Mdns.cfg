SPECIFICATION MdnsSpec
CONSTANTS
  V4 = v4
  V6 = v6
  Svcs = {s1}
  ActCap = 2
  MaxEvents = 2
  None = None
INVARIANT MdnsSafe
CHECK_DEADLOCK FALSE
