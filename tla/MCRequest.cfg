CONSTANTS
  Requests <- MCRequests
  Resources <- MCResources
  Mimes <- MCMimes
  Multipart <- MCMultipart
  Form <- MCForm
  Attributes <- MCAttributes
  Commands <- MCCommands
  Cuts = {1, 2, 5}
  CHUNK = 2
  None = None
SPECIFICATION Spec
CHECK_DEADLOCK FALSE
INVARIANTS NoFault HeapExact CutsDoNotMatter
PROPERTY ParsingEnds
