\* Two plugins, registered in any order or twice, with up to two middleware
\* each: enough for equal and for inverted priorities within and across
\* plugins, and for every target.
SPECIFICATION BootSpec
CONSTANTS
  auth = auth
  billing = billing
  Plugins <- MCPlugins
  Descriptors <- MCDescriptors
  MaxPlugins = 2
  MaxDescriptors = 2
  NoDeps = NoDeps
INVARIANTS ChainsInOrder ServesWithServices
\* A program that serves or has ended takes no further step.
CHECK_DEADLOCK FALSE
