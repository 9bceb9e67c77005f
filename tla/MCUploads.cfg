SPECIFICATION Spec
CONSTANTS
  a = a
  b = b
  img = img
  txt = txt
  None = None
  new = new
  New = new
  Convs = {new, a, b}
  Made = {a}
  Restored = {{}, {img}, {txt}, {img, txt}}
  Files = {img, txt}
  Images = {img}
  Pastes = {txt}
  MaxAttachments = 2
  MaxInflight = 1
  MaxAttempts = 2
  MaxAsked = 3
  MaxFaults = 1
INVARIANTS
  UploadsSound
PROPERTIES
  UploadsSettle
CHECK_DEADLOCK FALSE
