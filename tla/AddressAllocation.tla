-------------------------- MODULE AddressAllocation --------------------------
(***************************************************************************)
(* What the DHCP server promises, without its tables, clocks and messages: *)
(* an address is promised (offered) or given (leased) to at most one       *)
(* client, and passes to another client only after it has become free.     *)
(***************************************************************************)
CONSTANTS Mac, Ip, None

VARIABLES
    lease,  \* the client each address is leased to
    offer   \* the client each address is offered to

vars == <<lease, offer>>

TypeOK ==
    /\ lease \in [Ip -> Mac \cup {None}]
    /\ offer \in [Ip -> Mac \cup {None}]

Init ==
    /\ lease = [ip \in Ip |-> None]
    /\ offer = [ip \in Ip |-> None]

\* Address ip may be promised or given to client m.
FreeFor(m, ip) == lease[ip] \in {m, None} /\ offer[ip] \in {m, None}

\* Assignment f once client m has address ip and no other.
OnlyFor(f, m, ip) ==
    [a \in Ip |-> IF a = ip THEN m ELSE IF f[a] = m THEN None ELSE f[a]]

Offer(m, ip) ==
    /\ FreeFor(m, ip)
    /\ offer' = OnlyFor(offer, m, ip)
    /\ UNCHANGED lease

Grant(m, ip) ==
    /\ FreeFor(m, ip)
    /\ lease' = OnlyFor(lease, m, ip)
    /\ offer' = [a \in Ip |-> IF offer[a] = m THEN None ELSE offer[a]]

\* Addresses in L stop being leased and those in O stop being offered: they
\* expire, or a client gives them back or declines them.
Free(L, O) ==
    /\ lease' = [a \in Ip |-> IF a \in L THEN None ELSE lease[a]]
    /\ offer' = [a \in Ip |-> IF a \in O THEN None ELSE offer[a]]

Next ==
    \/ \E m \in Mac, ip \in Ip : Offer(m, ip) \/ Grant(m, ip)
    \/ \E L, O \in SUBSET Ip : Free(L, O)

Spec == Init /\ [][Next]_vars

=============================================================================
