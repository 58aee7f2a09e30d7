SPECIFICATION Spec
CONSTANTS
    cb1 = cb1
    cb2 = cb2
    split = split
    join = join
    burn = burn
    Coinbases <- TwoCoinbases
    Payments <- ThreePayments
    vin <- PaymentInputs
    nOut <- OutputCounts
    Unspendable <- BurntOutputs
    MaxStored = 5
    MaxPayments = 2
INVARIANTS
    CoinsMatchChain
