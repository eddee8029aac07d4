CONSTANTS
  Pid <- MCPid
  Page <- MCPage
  Frame <- MCFrame
  TLBSZ = 3
SPECIFICATION Spec
INVARIANTS TypeOK NoDuplicate
PROPERTIES ImplementsTlbMap CallsAgree
