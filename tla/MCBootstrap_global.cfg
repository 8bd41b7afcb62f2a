\* The code does not do what is said of it: see the property.
SPECIFICATION BootSpec
CONSTANTS
  auth = auth
  billing = billing
  Plugins <- MCPlugins
  Descriptors <- MCDescriptors
  MaxPlugins = 2
  MaxDescriptors = 1
  NoDeps = NoDeps
INVARIANT GlobalReachesPlugins
\* A program that serves or has ended takes no further step.
CHECK_DEADLOCK FALSE
