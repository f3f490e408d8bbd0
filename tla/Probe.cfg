\* Machines of generations 3 to 12; every count of the AUX channel is two.
SPECIFICATION ProbeSpec
CONSTANTS
  Chunk = 1
  Attempts = 2
  Retries = 2
  Sends = 2
  Writes = {1}
  Reads = {2}
  Machines <- MCMachines
INVARIANTS
  TransfersAreWhole PipesAsFound
