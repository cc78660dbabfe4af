SPECIFICATION Spec
CONSTANTS
  r1 = r1  r2 = r2
  Firewalld = firewalld  UFW = ufw  NFTables = nftables
  Rules <- MCRules
  Unknown = Unknown
  NoRule = NoRule
  Failures = TRUE
  Crashes = FALSE
  Switches = FALSE
SYMMETRY RuleSymmetry
INVARIANT IntentRemovable
