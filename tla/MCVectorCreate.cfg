SPECIFICATION VectorSpec
CONSTANTS
    Vectors <- MCVectors
    NoVector <- MCNoVector
    MaxDelay <- MCMaxDelay
    Cqs <- MCCqs
PROPERTY MaskedAtCreation
