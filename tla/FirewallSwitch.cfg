SPECIFICATION Spec
CONSTANTS
  r1 = r1  r2 = r2
  Firewalld = firewalld  UFW = ufw  NFTables = nftables
  Rules <- MCRules
  Unknown = Unknown
  NoRule = NoRule
  Failures = FALSE
  Crashes = FALSE
  Switches = TRUE
SYMMETRY RuleSymmetry
INVARIANTS NoLeak OnlyDesiredOpen BorrowedHasNoMarker
