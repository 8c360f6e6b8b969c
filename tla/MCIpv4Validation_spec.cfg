\* ValidateIpv4Address on every short string over '1', '9', '.', 'a' and on long last octets.
CONSTANT Addresses <- CheckedAddresses
SPECIFICATION Spec
INVARIANT AcceptsExactlySpecIpv4
CHECK_DEADLOCK FALSE
