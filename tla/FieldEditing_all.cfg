CONSTANTS
  w = 5
  h = 4
  Formats <- AllFormats
  Contents <- AllContents
  HeaderOf <- AllHeaders
  FunctionKeys = {3}
  Typed = {"a", "1", "-"}
  ReadOps = {"input", "mdt"}
  Cc1s = {"nothing", "reset", "reset_all_null"}
  SignKeyHack = TRUE
  FieldMinusInChar = TRUE
  DestructiveBackspace = FALSE
  MaxKeys = 4
SPECIFICATION MCSpec
CHECK_DEADLOCK FALSE
INVARIANTS TypeOK HostAgrees SearchesEnd FerAtFieldEnd
PROPERTIES ProtectedTextStays EditsSplice WrapKeepsText
