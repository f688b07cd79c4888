SPECIFICATION Spec
CONSTANTS
    None = None
    c1 = c1
    c2 = c2
    c3 = c3
    Mac = {c1, c2, c3}
    Ip = {0, 1, 2, 3}
    start_ip = 1
    end_ip = 2
    lease_duration = 4
    offer_timeout = 2
    decline_timeout = 3
PROPERTY
    OfferedAddressIsAcked
