SPECIFICATION FairSpec
CONSTANTS
    alice = alice
    bob = bob
    a1 = a1
    a2 = a2
    b1 = b1
    m1 = m1
    m2 = m2
    m3 = m3
    e1 = e1
    e2 = e2
    e3 = e3
    e4 = e4
    short = short
    long = long
    Account <- MCAccount
    Device <- MCDevice
    MessageId <- MCMessageId
    EnvelopeId <- MCEnvelopeId
    Ciphertext <- MCCiphertext
    Owner <- MCOwner
    Size <- MCSize
    Batch <- MCBatch
    MaxBatch = 16
    AccountLimit = 3
    TotalLimit = 4
    MaxCursor = 3
    MaxCrash = 0
    ForcePrune = FALSE
PROPERTIES
    UndeliveredKept
    RevokedMailboxPurged
CHECK_DEADLOCK FALSE
