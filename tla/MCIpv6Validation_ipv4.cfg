\* ValidateIpv6Address on addresses that end in an embedded IPv4 address.
CONSTANT Addresses <- Ipv4TailAddresses
SPECIFICATION Spec
INVARIANT AcceptsExactlyRfcIpv6
CHECK_DEADLOCK FALSE
