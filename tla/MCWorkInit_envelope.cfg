CONSTANTS
  Sessions = {"s1", "s2"}
  Prompts = {{}}
  IndexText = {}
  InboxFiles = {"n1", "n2"}
  ContentOf <- MCContentOf
  RefText <- MCRefText
  IndexedFiles = {"i1"}
  AnchorsOf <- MCAnchorsOf
  Signals <- MCSignals
  Tickets <- MCTickets
  AllowedByPlan = {{"i1"}}
  MaxVerbs <- MCMaxVerbs
  Attachments <- MCAttachments
SPECIFICATION WorkInitSpec
INVARIANT EnvelopeOfSignature
CHECK_DEADLOCK FALSE
