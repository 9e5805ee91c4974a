\* map_pdu_iovec for a host whose H2C PDUs end on page boundaries
\* (a maxdata that is a whole number of pages): data lands in place.
SPECIFICATION Spec
CONSTANTS
  PageSize = 4
  MaxTransfer = 24
  InlineData = 8
  MaxData = 12
  AlignedHost = TRUE
INVARIANT PduDataInPlace
