CONSTANTS
  v = v
  w = w
  alice = alice
  bob = bob
  vault = vault
  first = first
  second = second
  Validators = {v, w}
  Accounts = {alice, bob, vault}
  NoAccount = NoAccount
  Devices = {first, second}
  DerivedAccount <- AccountByDevice
  Commands <- AllCommands
  Target = w
  Safe = vault
  SafeOwners = {alice}
  Queue = Queue
SPECIFICATION CommandSpec
INVARIANT CommandTypeOK
INVARIANT OnlyEligible
INVARIANT OwnerSigns
INVARIANT OneTransport
INVARIANT ReturnsReleased
\* A command ends.
CHECK_DEADLOCK FALSE
