CONSTANTS
  Addresses = {1020, 3040}
  DataLengths = {8}
SPECIFICATION EncapSpec
INVARIANTS IpChecksumVerifies
\* the function returns
CHECK_DEADLOCK FALSE
