\* Every input of each call up to small lengths, in words of a few bits.
SPECIFICATION Spec
INVARIANTS
    ArithmeticExact
    TextsRoundTrip
    SearchesAgree
    ParsersAgree
\* A behaviour ends when its call has returned.
CHECK_DEADLOCK FALSE
