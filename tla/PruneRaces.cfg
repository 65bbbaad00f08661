SPECIFICATION Spec
CONSTANTS
  w1 = w1
  w2 = w2
  s1 = s1
  s2 = s2
  s3 = s3
  d1 = d1
  d2 = d2
  Writers <- TwoWriters
  Ids <- MCIds
  Devices <- MCDevices
  DeviceOf <- MCDeviceOf
  Keep = 1
  MaxSaves = 6
  MayCrash = FALSE
INVARIANT UnresolvedAreKept
CHECK_DEADLOCK FALSE
