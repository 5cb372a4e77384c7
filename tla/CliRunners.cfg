CONSTANTS
  Module = {"init", "cli"}  CliRunner = "cli"  Applications <- CalledTwice
SPECIFICATION Spec
INVARIANT LastCallOverrides
CHECK_DEADLOCK FALSE
