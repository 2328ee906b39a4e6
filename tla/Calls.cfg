\* Every call of client.rs as it is built, and every instruction two changes
\* away from one.
CONSTANTS
    Radix = 4
    AddressLen = 2
    MethodType <- MCMethodType
    TextByte <- MCTextByte
    OnCurve <- MCOnCurve
    Existing <- MCExisting
    Opened <- MCOpened
    Address <- MCAddress
    Call <- MCCall
    MaxEdits = 2

SPECIFICATION ClientSpec
INVARIANTS
    UnderstoodAsMeant
    TakenIsACall
CHECK_DEADLOCK FALSE
