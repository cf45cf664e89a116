\* Four calls of any kind: enough for two confirmations of one donation and a
\* boost of it, and for one donation confirmed with the payment of another.
CONSTANTS
    Calls = {c1, c2, c3, c4}
    Keys = {k1}
    Foreign = Foreign
    Declined = Declined
    None = None
SYMMETRY Symmetry
SPECIFICATION Spec
CHECK_DEADLOCK FALSE
INVARIANTS
    TypeOK
    OnePayerPerPayment
    SuccessIsLedgered
    AnnouncedIsLedgered
    BoostWasPaid
    KeyNamesItsResource
