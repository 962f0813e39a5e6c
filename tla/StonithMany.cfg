\* One SE and one z/VM system that is connected to with SSL, three requests one after another.
\* A server that is mute and does nothing is one that is failing.
SPECIFICATION FairSpec
CONSTANTS
  se = se
  vm1 = vm1
  vm2 = vm2
  Server = {se, vm1}
  Order <- MCSeFirst
  Has = {se, vm1}
  Configured <- MCConfigured
  Encrypted = {vm1}
  Installed = {"VM", "VM5", "LPAR"}
  Ops = {"RESET", "DEACTIVATE"}
  Mood = {"well", "needless", "hangup", "mute", "silent", "vsmserve", "refuses", "moved"}
  MaxRequests = 3
INVARIANTS IInv OkMeansDone AgainOnlyUnheard StatusIsRight UnlessMarked
PROPERTIES EveryRequestReturns
