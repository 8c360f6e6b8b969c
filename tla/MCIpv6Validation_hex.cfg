\* ValidateIpv6Address on hexadecimal addresses (no embedded IPv4).
CONSTANT Addresses <- HexAddresses
SPECIFICATION Spec
INVARIANT TypeOK
INVARIANT AcceptsExactlyRfcIpv6
CHECK_DEADLOCK FALSE
