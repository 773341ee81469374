CONSTANTS
  BlockGasLimit = 4
  MaxU128 = 1000
  U64Modulus = 256
  alice = alice
  treasury = treasury
  bob = bob
  x = x
  k1 = k1
  k2 = k2
  Addr <- MCAddr
  Beneficiary = treasury
  Slot <- MCSlot
  Unloaded = Unloaded
  Tx <- MCTx
  Specs <- FewSpecs
  Journals <- NoJournals
  Keys = {k1}
  Time = {1, 2}
  MaxBlocks = 3
  Faults = {"open_interrupted"}
  NoBlock = NoBlock
  NoReceipt = NoReceipt
  NoRoot = NoRoot
  NoJournal = NoJournal
  NoKey = NoKey
  NoChain = NoChain
SPECIFICATION Spec
INVARIANT ReopenKeepsAnswers
CHECK_DEADLOCK FALSE
