SPECIFICATION Spec
CONSTANTS
  p1 = p1  p2 = p2  p3 = p3
  Proc = {p1, p2, p3}
  Command <- Commands
  Node = {"a", "b"}
  Netname = "vpn"
  Invitee = "b"
  Malformed = {"junk"}
  Padded <- Spaces
  Fragment <- Fragments
  NoFile = NoFile
  Bad = Bad
  Overlap = FALSE
  Loads = 2
  Faults = 1
SYMMETRY Symmetry
INVARIANTS TypeOK OneIdentity  LoadedIsCommitted  ExportImports InvitationWorks
 
CHECK_DEADLOCK FALSE
