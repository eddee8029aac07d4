CONSTANTS
  Page <- MCPage
  Offst <- MCOffst
  Fpn <- MCFpn
  Swptyp <- MCSwptyp
  Swpoff <- MCSwpoff
SPECIFICATION Spec
INVARIANTS TypeOK EntryFaithful TranslationInjective
