SPECIFICATION Spec
CONSTANTS
  se = se
  vm1 = vm1
  vm2 = vm2
  Server = {se, vm1}
  Order <- MCTwo
  Has = {se, vm1}
  Configured <- MCConfigured
  Encrypted = {vm1}
  Installed = {"VM", "VM5", "LPAR"}
  Ops = {"RESET", "ACTIVATE"}
  Mood = {"well", "impostor"}
  MaxRequests = 1
INVARIANTS OkMeansDone
