CONSTANTS
  Page <- MCPage
  Offst <- MCOffst
  Fpn <- MCFpn
  Swptyp <- MCSwptyp
  Swpoff <- MCSwpoffLarge
SPECIFICATION Spec
INVARIANT EntryFaithful
