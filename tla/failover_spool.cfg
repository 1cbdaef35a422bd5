SPECIFICATION FailoverSpec
CONSTANTS
  Host = {h1, h2}
  First = h1
  CheckEvery = 2
  MaxMishap = 1
PROPERTY ReplacedDoesNotSpool
CHECK_DEADLOCK FALSE
