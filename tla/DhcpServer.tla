----------------------------- MODULE DhcpServer -----------------------------
(***************************************************************************)
(* The DHCP server (src/dhcp.py): its lease, OFFER and DECLINE tables, the *)
(* messages of the clients, and the passing of time.                       *)
(*                                                                         *)
(* handle_dhcp runs to its end before the next packet-in is dispatched, so *)
(* each message is one action.  Messages come from any client at any time: *)
(* a repeated, late or lost message is one that comes again, later, or     *)
(* never.  Clocks: the tables hold absolute times; the model holds what is *)
(* left of them, and Tick is one second.  The several readings of the      *)
(* clock within one message are taken to be equal.                         *)
(*                                                                         *)
(* Addresses are integers, as they are to ipaddress.  A dictionary is a    *)
(* total function that is None where the key is absent.                    *)
(*                                                                         *)
(* An operator whose name starts with Fault_ is a plausible mistake in an  *)
(* operator that follows it; no specification uses it.  The properties     *)
(* below fail when it takes that operator's place (README.md).             *)
(***************************************************************************)
EXTENDS Integers

CONSTANTS
    Mac,            \* clients
    Ip,             \* addresses that messages may name
    start_ip,       \* first address of the pool
    end_ip,         \* last address of the pool
    lease_duration,
    offer_timeout,
    decline_timeout,
    None            \* an absent entry, option or ciaddr

ASSUME PoolAssumption ==
    /\ Ip \subseteq Int
    /\ start_ip \in Int
    /\ end_ip \in Int
    /\ start_ip..end_ip \subseteq Ip

ASSUME DurationAssumption ==
    /\ lease_duration \in Nat \ {0}
    /\ offer_timeout \in Nat \ {0}
    /\ decline_timeout \in Nat \ {0}

ASSUME NoneAssumption ==
    /\ None \notin Mac
    /\ None \notin Int

VARIABLES
    tables,  \* the class attributes of DHCPServer
    reply    \* the packet that answers the last message

vars == <<tables, reply>>

Pool == start_ip..end_ip

Timer(max) == 0..max \cup {None}

Tables ==
    [mac_to_ip         : [Mac -> Ip \cup {None}],
     ip_to_mac         : [Ip -> Mac \cup {None}],
     lease_expire_time : [Ip -> Timer(lease_duration)],
     offered_ip_by_mac : [Mac -> Ip \cup {None}],
     offered_mac_by_ip : [Ip -> Mac \cup {None}],
     offer_expire_time : [Ip -> Timer(offer_timeout)],
     declined_ip_until : [Ip -> Timer(decline_timeout)]]

NoReply == [type |-> "none", mac |-> None, ip |-> None]

Replies ==
    {NoReply}
    \cup [type : {"OFFER", "ACK"}, mac : Mac, ip : Ip]
    \cup [type : {"NAK"}, mac : Mac, ip : {None}]

TypeOK == tables \in Tables /\ reply \in Replies

Init ==
    /\ tables = [mac_to_ip         |-> [m \in Mac |-> None],
                 ip_to_mac         |-> [ip \in Ip |-> None],
                 lease_expire_time |-> [ip \in Ip |-> None],
                 offered_ip_by_mac |-> [m \in Mac |-> None],
                 offered_mac_by_ip |-> [ip \in Ip |-> None],
                 offer_expire_time |-> [ip \in Ip |-> None],
                 declined_ip_until |-> [ip \in Ip |-> None]]
    /\ reply = NoReply

Answer(type, m, ip) == [type |-> type, mac |-> m, ip |-> ip]

-----------------------------------------------------------------------------
(***************************************************************************)
(* Operations on the tables.  Each takes tables s and gives the new ones.  *)
(***************************************************************************)

Fault_Without(f, S) == [x \in DOMAIN f |-> IF x \in S THEN 0 ELSE f[x]]

\* Dictionary f without the keys in S.
Without(f, S) == [x \in DOMAIN f |-> IF x \in S THEN None ELSE f[x]]

\* by_mac without the clients whose entry and by_ip agree on an address in S.
Disowned(by_mac, by_ip, S) ==
    Without(by_mac, {m \in Mac : by_mac[m] \in S /\ by_ip[by_mac[m]] = m})

Fault_ReleaseLeases(s, S) == [s EXCEPT !.ip_to_mac = Without(@, S),
                                       !.lease_expire_time = Without(@, S)]

ReleaseLeases(s, S) ==
    [s EXCEPT !.mac_to_ip = Disowned(@, s.ip_to_mac, S),
              !.ip_to_mac = Without(@, S),
              !.lease_expire_time = Without(@, S)]

ReleaseOffers(s, S) ==
    [s EXCEPT !.offered_ip_by_mac = Disowned(@, s.offered_mac_by_ip, S),
              !.offered_mac_by_ip = Without(@, S),
              !.offer_expire_time = Without(@, S)]

Fault_ReleaseOfferForMac(s, m) == [s EXCEPT !.offered_ip_by_mac[m] = None]

ReleaseOfferForMac(s, m) ==
    LET ip == s.offered_ip_by_mac[m]
    IN  [s EXCEPT !.offered_ip_by_mac[m] = None,
                  !.offered_mac_by_ip = Without(@, {ip}),
                  !.offer_expire_time = Without(@, {ip})]

Expired(timers) == {ip \in Ip : timers[ip] = 0}

\* What every message does first.
CleanupExpiredState(s) ==
    LET s1 == ReleaseLeases(s, Expired(s.lease_expire_time))
        s2 == ReleaseOffers(s1, Expired(s.offer_expire_time))
    IN  [s2 EXCEPT !.declined_ip_until =
                        Without(@, Expired(s.declined_ip_until))]

Fault_IsInPool(ip) == TRUE
Fault_NoDecline(s, ip) == TRUE
Fault_NoOther(s, ip, m) == TRUE

IsInPool(ip) == ip \in Pool

IsNotDeclined(s, ip) == s.declined_ip_until[ip] \in {None, 0}

IsNotLeasedToOther(s, ip, m) == s.ip_to_mac[ip] \in {None, m}

IsNotOfferedToOther(s, ip, m) == s.offered_mac_by_ip[ip] \in {None, m}

\* Address ip may be offered or leased to client m.
IsIpAvailableForMac(s, ip, m) ==
    /\ IsInPool(ip)
    /\ IsNotDeclined(s, ip)
    /\ IsNotLeasedToOther(s, ip, m)
    /\ IsNotOfferedToOther(s, ip, m)

\* In the calls the server makes, m has no OFFER and ip is available for m;
\* the removals that are then idle are modelled with the rest.
ReserveOfferIp(s, m, ip) ==
    LET dropped == {s.offered_ip_by_mac[m]} \ {ip}
        loser == {s.offered_mac_by_ip[ip]} \ {m}
    IN  [s EXCEPT
            !.offered_ip_by_mac = [Without(@, loser) EXCEPT ![m] = ip],
            !.offered_mac_by_ip = [Without(@, dropped) EXCEPT ![ip] = m],
            !.offer_expire_time = [Without(@, dropped) EXCEPT ![ip] = offer_timeout]]

\* The OFFER of ip, whoever holds it, ends when ip is leased.
ConsumeOffer(s, ip) ==
    IF s.offered_mac_by_ip[ip] = None THEN s
    ELSE [s EXCEPT !.offered_ip_by_mac = Without(@, {s.offered_mac_by_ip[ip]}),
                   !.offered_mac_by_ip = Without(@, {ip}),
                   !.offer_expire_time = Without(@, {ip})]

CommitLease(s, m, ip) ==
    LET dropped == {s.mac_to_ip[m]} \ {ip}
        loser == {s.ip_to_mac[ip]} \ {m}
    IN  [ReleaseOfferForMac(ConsumeOffer(s, ip), m) EXCEPT
            !.mac_to_ip = [Without(@, loser) EXCEPT ![m] = ip],
            !.ip_to_mac = [Without(@, dropped) EXCEPT ![ip] = m],
            !.lease_expire_time = [Without(@, dropped) EXCEPT ![ip] = lease_duration]]

-----------------------------------------------------------------------------
(***************************************************************************)
(* The handlers.  s is what the clean-up leaves of the tables.             *)
(***************************************************************************)

\* Client m may be offered again the address it holds in by_mac.
Holds(s, by_mac, m) ==
    by_mac[m] # None /\ IsIpAvailableForMac(s, by_mac[m], m)

\* DHCPDISCOVER: the client's lease, else its OFFER, else the first free
\* address; no answer when the pool is exhausted.
Discover(m) ==
    LET s == CleanupExpiredState(tables)
        lease == s.mac_to_ip[m]
        offer == s.offered_ip_by_mac[m]
        rest == ReleaseOfferForMac(s, m)
        free == {ip \in Pool : IsIpAvailableForMac(rest, ip, m)}
    IN  \/ /\ Holds(s, s.mac_to_ip, m)
           /\ tables' = s
           /\ reply' = Answer("OFFER", m, lease)
        \/ /\ ~Holds(s, s.mac_to_ip, m)
           /\ Holds(s, s.offered_ip_by_mac, m)
           /\ tables' = [s EXCEPT !.offer_expire_time[offer] = offer_timeout]
           /\ reply' = Answer("OFFER", m, offer)
        \/ /\ ~Holds(s, s.mac_to_ip, m)
           /\ ~Holds(s, s.offered_ip_by_mac, m)
           /\ \E ip \in free :
                 /\ \A other \in free : ip <= other
                 /\ tables' = ReserveOfferIp(rest, m, ip)
                 /\ reply' = Answer("OFFER", m, ip)
        \/ /\ ~Holds(s, s.mac_to_ip, m)
           /\ ~Holds(s, s.offered_ip_by_mac, m)
           /\ free = {}
           /\ tables' = rest
           /\ reply' = NoReply

\* The requested-address option counts before ciaddr.
RequestedIp(option, ciaddr) == IF option # None THEN option ELSE ciaddr

Fault_Valid(s, m, ip) == ip # None /\ IsIpAvailableForMac(s, ip, m)

Valid(s, m, ip) ==
    /\ ip # None
    /\ IsIpAvailableForMac(s, ip, m)
    /\ s.offered_ip_by_mac[m] \in {None, ip}

\* DHCPREQUEST; for_us when it names this server or none.
Request(m, for_us, option, ciaddr) ==
    LET s == CleanupExpiredState(tables)
        ip == RequestedIp(option, ciaddr)
    IN  \/ /\ ~for_us
           /\ tables' = s
           /\ reply' = NoReply
        \/ /\ for_us
           /\ ~Valid(s, m, ip)
           /\ tables' = s
           /\ reply' = Answer("NAK", m, None)
        \/ /\ for_us
           /\ Valid(s, m, ip)
           /\ tables' = CommitLease(s, m, ip)
           /\ reply' = Answer("ACK", m, ip)

Fault_ReleasedIp(s, m, ciaddr) ==
    IF ciaddr # None THEN ciaddr ELSE s.mac_to_ip[m]

\* The lease that a DHCPRELEASE of m ends: the one it names, if it is m's,
\* else the one m has.
ReleasedIp(s, m, ciaddr) ==
    IF ciaddr # None /\ s.ip_to_mac[ciaddr] = m THEN ciaddr ELSE s.mac_to_ip[m]

\* DHCPRELEASE.
Release(m, ciaddr) ==
    LET s == CleanupExpiredState(tables)
        ended == {ReleasedIp(s, m, ciaddr)} \ {None}
        left == ReleaseOffers(ReleaseLeases(s, ended), ended)
    IN  /\ tables' = ReleaseOfferForMac(left, m)
        /\ reply' = NoReply

\* DHCPDECLINE.  The lease of the address, if there is one, stays.
Decline(m, option) ==
    LET rest == ReleaseOfferForMac(CleanupExpiredState(tables), m)
    IN  /\ tables' = IF option \in Pool
                     THEN [ReleaseOffers(rest, {option}) EXCEPT
                              !.declined_ip_until[option] = decline_timeout]
                     ELSE rest
        /\ reply' = NoReply

\* A DHCP message of any other type.
Unsupported ==
    /\ tables' = CleanupExpiredState(tables)
    /\ reply' = NoReply

Elapsed(timers) ==
    [ip \in Ip |-> IF timers[ip] \in {None, 0} THEN timers[ip] ELSE timers[ip] - 1]

\* A second passes.  Nothing is cleaned up before the next message.
Tick ==
    /\ tables' = [tables EXCEPT !.lease_expire_time = Elapsed(@),
                                !.offer_expire_time = Elapsed(@),
                                !.declined_ip_until = Elapsed(@)]
    /\ reply' = NoReply

-----------------------------------------------------------------------------
Named == Ip \cup {None}

Message ==
    \/ Unsupported
    \/ \E m \in Mac :
        \/ Discover(m)
        \/ \E for_us \in BOOLEAN, option, ciaddr \in Named :
              Request(m, for_us, option, ciaddr)
        \/ \E ciaddr \in Named : Release(m, ciaddr)
        \/ \E option \in Named : Decline(m, option)

Next == Message \/ Tick

Spec == Init /\ [][Next]_vars

-----------------------------------------------------------------------------
(***************************************************************************)
(* Correctness.                                                            *)
(***************************************************************************)

\* The three lease tables describe one partial one-to-one map, after every
\* sequence of grants, moves to another address, releases and expiries
\* (_commit_lease, _release_lease_for_ip).
LeaseTablesAgree ==
    /\ \A m \in Mac, ip \in Ip :
          (tables.mac_to_ip[m] = ip) <=> (tables.ip_to_mac[ip] = m)
    /\ \A ip \in Ip :
          (tables.lease_expire_time[ip] = None) <=> (tables.ip_to_mac[ip] = None)

\* So do the three OFFER tables (_reserve_offer_ip, _release_offer_for_ip,
\* _release_offer_for_mac, _commit_lease).
OfferTablesAgree ==
    /\ \A m \in Mac, ip \in Ip :
          (tables.offered_ip_by_mac[m] = ip) <=> (tables.offered_mac_by_ip[ip] = m)
    /\ \A ip \in Ip :
          (tables.offer_expire_time[ip] = None) <=> (tables.offered_mac_by_ip[ip] = None)

\* No address is leased to one client and reserved for another, in the
\* tables as they stand, expired entries included
\* (_get_ip_unavailable_reason).
NoSharedAddress ==
    \A ip \in Ip :
        \/ tables.ip_to_mac[ip] = None
        \/ tables.offered_mac_by_ip[ip] \in {None, tables.ip_to_mac[ip]}

\* Whatever addresses clients name, only addresses of the pool are leased,
\* reserved or quarantined (_is_in_pool).
OnlyPoolIsUsed ==
    \A ip \in Ip \ Pool :
        /\ tables.ip_to_mac[ip] = None
        /\ tables.offered_mac_by_ip[ip] = None
        /\ tables.declined_ip_until[ip] = None

\* An address under quarantine after a DECLINE is neither offered nor
\* acknowledged, not even to a client that has it leased
\* (_get_ip_unavailable_reason).
QuarantineIsRespected ==
    reply.type \in {"OFFER", "ACK"} => tables.declined_ip_until[reply.ip] = None

\* No message of one client ends or transfers the running lease of another
\* (_handle_request, _handle_release, _handle_decline).
LeasesAreStable ==
    [][\A ip \in Ip :
          LET owner == tables.ip_to_mac[ip]
          IN  tables.lease_expire_time[ip] \notin {None, 0} =>
                 \/ tables'.ip_to_mac[ip] = owner
                 \/ \E ciaddr \in Named : Release(owner, ciaddr)
                 \/ reply'.type = "ACK" /\ reply'.mac = owner]_vars

\* A running reservation ends early only if its client takes it up or gives it
\* up, or if the address is declined: not even its own client loses it by
\* asking for another address (_pick_offer_ip, _validate_request_for_ack,
\* _commit_lease).
OffersAreStable ==
    [][\A ip \in Ip :
          LET owner == tables.offered_mac_by_ip[ip]
          IN  tables.offer_expire_time[ip] \notin {None, 0} =>
                 \/ tables'.offered_mac_by_ip[ip] = owner
                 \/ \E ciaddr \in Named : Release(owner, ciaddr)
                 \/ reply' = Answer("ACK", owner, ip)
                 \/ \E m \in Mac, option \in Named :
                       Decline(m, option) /\ (m = owner \/ option = ip)]_vars

\* The running leases and reservations, which is what clients rely on.
LiveLeases ==
    [ip \in Ip |-> IF tables.lease_expire_time[ip] \in {None, 0} THEN None
                   ELSE tables.ip_to_mac[ip]]

LiveOffers ==
    [ip \in Ip |-> IF tables.offer_expire_time[ip] \in {None, 0} THEN None
                   ELSE tables.offered_mac_by_ip[ip]]

Allocation == INSTANCE AddressAllocation WITH lease <- LiveLeases, offer <- LiveOffers

\* The server implements the abstract allocation: no address passes from one
\* client to another without being free in between.
ImplementsAllocation == Allocation!Spec

\* What the project's description of DORA says: the REQUEST of the address
\* just offered is answered with an ACK.
OfferedAddressIsAcked ==
    [][\A m \in Mac, ip \in Ip :
          (reply = Answer("OFFER", m, ip) /\ Request(m, TRUE, ip, None)) =>
              reply'.type = "ACK"]_vars

=============================================================================
