CONSTANTS
  Buffers = {b1, b2, b3}
  Null = Null
SPECIFICATION Spec
INVARIANT WholePicture
CHECK_DEADLOCK FALSE
