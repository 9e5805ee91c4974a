\* map_pdu_iovec with the maxdata handle_icreq advertises (0xffff, one
\* byte short of a page multiple), scaled: a host splitting at maxdata.
SPECIFICATION Spec
CONSTANTS
  PageSize = 4
  MaxTransfer = 16
  InlineData = 4
  MaxData = 7
  AlignedHost = FALSE
INVARIANT PduDataInPlace
