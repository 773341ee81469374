CONSTANTS
  BlockGasLimit = 4
  MaxU128 = 1000
  U64Modulus = 256
  alice = alice
  treasury = treasury
  bob = bob
  x = x
  k1 = k1
  k2 = k2
  Addr <- MCAddr
  Beneficiary = treasury
  Slot <- MCSlot
  Unloaded = Unloaded
  Tx <- FewTx
  Specs <- FewSpecs
  Journals <- MCJournals
  Keys = {k1}
  Time = {1}
  MaxBlocks = 3
  Faults = {"write_fails", "open_interrupted", "slot_read", "genesis_changed"}
  NoBlock = NoBlock
  NoReceipt = NoReceipt
  NoRoot = NoRoot
  NoJournal = NoJournal
  NoKey = NoKey
  NoChain = NoChain
SPECIFICATION Spec
INVARIANTS
  TypeOK
  StoreIsChain
  MemoryMatchesStore
  SealedOnce
  SupplyConserved
CHECK_DEADLOCK FALSE
