-------------------------- MODULE DhcpServerProofs --------------------------
(***************************************************************************)
(* Proofs about DhcpServer, for every pool, every set of clients and every *)
(* choice of the durations.                                                *)
(***************************************************************************)
EXTENDS DhcpServer, TLAPS

USE NoneAssumption, PoolAssumption

-----------------------------------------------------------------------------
(***************************************************************************)
(* The invariant, of any tables s.                                         *)
(***************************************************************************)

\* by_mac and by_ip are inverse to each other and timers runs for the
\* addresses that have a client.
Agree(by_mac, by_ip, timers) ==
    /\ \A m \in Mac, ip \in Ip : by_mac[m] = ip <=> by_ip[ip] = m
    /\ \A ip \in Ip : timers[ip] = None <=> by_ip[ip] = None

Leases(s) == Agree(s.mac_to_ip, s.ip_to_mac, s.lease_expire_time)

Offers(s) == Agree(s.offered_ip_by_mac, s.offered_mac_by_ip, s.offer_expire_time)

NotShared(s) ==
    \A ip \in Ip : \/ s.ip_to_mac[ip] = None
                   \/ s.offered_mac_by_ip[ip] \in {None, s.ip_to_mac[ip]}

InPool(s) ==
    \A ip \in Ip \ Pool : /\ s.ip_to_mac[ip] = None
                          /\ s.offered_mac_by_ip[ip] = None
                          /\ s.declined_ip_until[ip] = None

\* Needed for the stability of OFFERs: no reserved address is quarantined.
Clear(s) ==
    \A ip \in Ip : s.offered_mac_by_ip[ip] = None \/ s.declined_ip_until[ip] = None

Good(s) ==
    s \in Tables /\ Leases(s) /\ Offers(s) /\ NotShared(s) /\ InPool(s) /\ Clear(s)

ByMac == [Mac -> Ip \cup {None}]
ByIp == [Ip -> Mac \cup {None}]

LEMMA NoneIsNoKey == None \notin Ip /\ None \notin Pool /\ Pool \subseteq Ip
BY DEF Pool

LEMMA TimerTypes ==
    /\ lease_duration \in Timer(lease_duration)
    /\ offer_timeout \in Timer(offer_timeout)
    /\ decline_timeout \in Timer(decline_timeout)
BY DurationAssumption DEF Timer

LEMMA ClientsWithout ==
    ASSUME NEW f \in ByIp, NEW S
    PROVE  /\ Without(f, S) \in ByIp
           /\ \A x \in Ip : Without(f, S)[x] = IF x \in S THEN None ELSE f[x]
BY DEF Without, ByIp

LEMMA AddressesWithout ==
    ASSUME NEW f \in ByMac, NEW S
    PROVE  /\ Without(f, S) \in ByMac
           /\ \A x \in Mac : Without(f, S)[x] = IF x \in S THEN None ELSE f[x]
BY DEF Without, ByMac

LEMMA TimersWithout ==
    ASSUME NEW max, NEW f \in [Ip -> Timer(max)], NEW S
    PROVE  /\ Without(f, S) \in [Ip -> Timer(max)]
           /\ \A x \in Ip : Without(f, S)[x] = IF x \in S THEN None ELSE f[x]
BY DEF Without, Timer

\* Releasing the addresses in S from a pair of inverse maps.
LEMMA DisownedAgrees ==
    ASSUME NEW by_mac \in ByMac, NEW by_ip \in ByIp, NEW max,
           NEW timers \in [Ip -> Timer(max)], Agree(by_mac, by_ip, timers), NEW S
    PROVE  /\ Disowned(by_mac, by_ip, S) \in ByMac
           /\ Agree(Disowned(by_mac, by_ip, S), Without(by_ip, S), Without(timers, S))
<1> DEFINE D == Disowned(by_mac, by_ip, S)
<1>1. D \in ByMac
  BY DEF Disowned, Without, ByMac
<1>2. \A m \in Mac : D[m] = IF by_mac[m] \in S /\ by_ip[by_mac[m]] = m THEN None
                            ELSE by_mac[m]
  BY DEF Disowned, Without, ByMac
<1>3. \A m \in Mac : by_mac[m] # None => by_ip[by_mac[m]] = m
  BY DEF ByMac, Agree
<1>4. \A m \in Mac, ip \in Ip : D[m] = ip <=> (by_mac[m] = ip /\ ip \notin S)
  BY <1>2, <1>3, NoneIsNoKey DEF ByMac
<1>5. \A ip \in Ip : Without(by_ip, S)[ip] = IF ip \in S THEN None ELSE by_ip[ip]
  BY ClientsWithout
<1>6. \A ip \in Ip : Without(timers, S)[ip] = IF ip \in S THEN None ELSE timers[ip]
  BY TimersWithout
<1>7. Agree(D, Without(by_ip, S), Without(timers, S))
  <2> HIDE DEF D
  <2> QED BY <1>4, <1>5, <1>6 DEF Agree
<1> QED BY <1>1, <1>7

-----------------------------------------------------------------------------
(***************************************************************************)
(* Every operation on the tables keeps it.                                 *)
(***************************************************************************)

LEMMA ReleaseLeasesGood ==
    ASSUME NEW s, Good(s), NEW S
    PROVE  Good(ReleaseLeases(s, S))
<1> DEFINE r == ReleaseLeases(s, S)
<1>1. /\ s.mac_to_ip \in ByMac /\ s.ip_to_mac \in ByIp
      /\ s.lease_expire_time \in [Ip -> Timer(lease_duration)]
  BY DEF Good, Tables, ByMac, ByIp
<1>2. /\ r.mac_to_ip = Disowned(s.mac_to_ip, s.ip_to_mac, S)
      /\ r.ip_to_mac = Without(s.ip_to_mac, S)
      /\ r.lease_expire_time = Without(s.lease_expire_time, S)
      /\ r.offered_ip_by_mac = s.offered_ip_by_mac
      /\ r.offered_mac_by_ip = s.offered_mac_by_ip
      /\ r.offer_expire_time = s.offer_expire_time
      /\ r.declined_ip_until = s.declined_ip_until
  BY DEF ReleaseLeases, Good, Tables
<1>3. r.mac_to_ip \in ByMac /\ Leases(r)
  BY <1>1, <1>2, DisownedAgrees DEF Good, Leases
<1>4. /\ r.ip_to_mac \in ByIp
      /\ \A ip \in Ip : r.ip_to_mac[ip] \in {None, s.ip_to_mac[ip]}
  BY <1>1, <1>2, ClientsWithout
<1>5. r.lease_expire_time \in [Ip -> Timer(lease_duration)]
  BY <1>1, <1>2, TimersWithout
<1>6. r \in Tables
  BY <1>2, <1>3, <1>4, <1>5 DEF ReleaseLeases, Good, Tables, ByMac, ByIp
<1> HIDE DEF r
<1>7. Offers(r) /\ NotShared(r) /\ InPool(r) /\ Clear(r)
  BY <1>2, <1>4 DEF Good, Offers, NotShared, InPool, Clear
<1> QED BY <1>3, <1>6, <1>7 DEF Good, r

LEMMA ReleaseOffersGood ==
    ASSUME NEW s, Good(s), NEW S
    PROVE  Good(ReleaseOffers(s, S))
<1> DEFINE r == ReleaseOffers(s, S)
<1>1. /\ s.offered_ip_by_mac \in ByMac /\ s.offered_mac_by_ip \in ByIp
      /\ s.offer_expire_time \in [Ip -> Timer(offer_timeout)]
  BY DEF Good, Tables, ByMac, ByIp
<1>2. /\ r.offered_ip_by_mac = Disowned(s.offered_ip_by_mac, s.offered_mac_by_ip, S)
      /\ r.offered_mac_by_ip = Without(s.offered_mac_by_ip, S)
      /\ r.offer_expire_time = Without(s.offer_expire_time, S)
      /\ r.mac_to_ip = s.mac_to_ip
      /\ r.ip_to_mac = s.ip_to_mac
      /\ r.lease_expire_time = s.lease_expire_time
      /\ r.declined_ip_until = s.declined_ip_until
  BY DEF ReleaseOffers, Good, Tables
<1>3. r.offered_ip_by_mac \in ByMac /\ Offers(r)
  BY <1>1, <1>2, DisownedAgrees DEF Good, Offers
<1>4. /\ r.offered_mac_by_ip \in ByIp
      /\ \A ip \in Ip : r.offered_mac_by_ip[ip] \in {None, s.offered_mac_by_ip[ip]}
  BY <1>1, <1>2, ClientsWithout
<1>5. r.offer_expire_time \in [Ip -> Timer(offer_timeout)]
  BY <1>1, <1>2, TimersWithout
<1>6. r \in Tables
  BY <1>2, <1>3, <1>4, <1>5 DEF ReleaseOffers, Good, Tables, ByMac, ByIp
<1> HIDE DEF r
<1>7. Leases(r) /\ NotShared(r) /\ InPool(r) /\ Clear(r)
  BY <1>2, <1>4 DEF Good, Leases, NotShared, InPool, Clear
<1> QED BY <1>3, <1>6, <1>7 DEF Good, r

\* Releasing a client's OFFER is releasing the OFFER of its address.
LEMMA ReleaseOfferForMacIs ==
    ASSUME NEW s, Good(s), NEW m \in Mac
    PROVE  ReleaseOfferForMac(s, m) = ReleaseOffers(s, {s.offered_ip_by_mac[m]})
<1> DEFINE ip == s.offered_ip_by_mac[m]
<1>1. s.offered_ip_by_mac \in ByMac /\ s \in Tables
  BY DEF Good, Tables, ByMac
<1>2. [s.offered_ip_by_mac EXCEPT ![m] = None]
      = Disowned(s.offered_ip_by_mac, s.offered_mac_by_ip, {ip})
  <2>1. ASSUME NEW h \in Mac
        PROVE  (IF h = m THEN None ELSE s.offered_ip_by_mac[h])
               = (IF s.offered_ip_by_mac[h] \in {ip}
                     /\ s.offered_mac_by_ip[s.offered_ip_by_mac[h]] = h
                  THEN None ELSE s.offered_ip_by_mac[h])
    <3>1. CASE ip = None
      BY <1>1, <3>1
    <3>2. CASE ip # None
      <4>1. ip \in Ip
        BY <1>1, <3>2 DEF ByMac
      <4>2. s.offered_mac_by_ip[ip] = m
        BY <4>1 DEF Good, Offers, Agree
      <4> QED BY <4>1, <4>2
    <3> QED BY <3>1, <3>2
  <2> QED BY <1>1, <2>1 DEF Disowned, Without, ByMac
<1> QED BY <1>1, <1>2 DEF ReleaseOfferForMac, ReleaseOffers, Tables

LEMMA ReleaseOfferForMacGood ==
    ASSUME NEW s, Good(s), NEW m \in Mac
    PROVE  Good(ReleaseOfferForMac(s, m))
<1>1. Good(ReleaseOffers(s, {s.offered_ip_by_mac[m]}))
  BY ReleaseOffersGood
<1> QED BY <1>1, ReleaseOfferForMacIs

LEMMA ConsumeOfferIs ==
    ASSUME NEW s, Good(s), NEW ip \in Ip
    PROVE  ConsumeOffer(s, ip) = ReleaseOffers(s, {ip})
<1> DEFINE m == s.offered_mac_by_ip[ip]
<1>1. /\ s.offered_ip_by_mac \in ByMac /\ s.offered_mac_by_ip \in ByIp
      /\ s.offer_expire_time \in [Ip -> Timer(offer_timeout)] /\ s \in Tables
  BY DEF Good, Tables, ByMac, ByIp
<1>2. \A h \in Mac : s.offered_ip_by_mac[h] = ip <=> m = h
  BY DEF Good, Offers, Agree
<1>3. CASE m = None
  <2>1. Disowned(s.offered_ip_by_mac, s.offered_mac_by_ip, {ip}) = s.offered_ip_by_mac
    BY <1>1, <1>2, <1>3 DEF Disowned, Without, ByMac
  <2>2. Without(s.offered_mac_by_ip, {ip}) = s.offered_mac_by_ip
    BY <1>1, <1>3 DEF Without, ByIp
  <2>3. s.offer_expire_time[ip] = None
    BY <1>3 DEF Good, Offers, Agree
  <2>4. Without(s.offer_expire_time, {ip}) = s.offer_expire_time
    BY <1>1, <2>3 DEF Without
  <2>5. ConsumeOffer(s, ip) = s
    BY <1>3 DEF ConsumeOffer
  <2> QED BY <1>1, <2>1, <2>2, <2>4, <2>5 DEF ReleaseOffers, Tables
<1>4. CASE m # None
  <2>1. Disowned(s.offered_ip_by_mac, s.offered_mac_by_ip, {ip})
        = Without(s.offered_ip_by_mac, {m})
    BY <1>1, <1>2, <1>4 DEF Disowned, Without, ByMac, ByIp
  <2> QED BY <1>1, <1>4, <2>1 DEF ConsumeOffer, ReleaseOffers, Tables
<1> QED BY <1>3, <1>4

\* Address ip given to client m in a pair of inverse maps, where each loses
\* the partner it had.
BoundMacs(by_mac, by_ip, m, ip) ==
    [Without(by_mac, {by_ip[ip]} \ {m}) EXCEPT ![m] = ip]

BoundIps(by_mac, by_ip, m, ip) ==
    [Without(by_ip, {by_mac[m]} \ {ip}) EXCEPT ![ip] = m]

BoundTimers(by_mac, timers, m, ip, t) ==
    [Without(timers, {by_mac[m]} \ {ip}) EXCEPT ![ip] = t]

LEMMA BindingAgrees ==
    ASSUME NEW by_mac \in ByMac, NEW by_ip \in ByIp, NEW max,
           NEW timers \in [Ip -> Timer(max)], Agree(by_mac, by_ip, timers),
           NEW m \in Mac, NEW ip \in Ip, NEW t \in Timer(max), t # None
    PROVE  LET by_mac1 == BoundMacs(by_mac, by_ip, m, ip)
               by_ip1 == BoundIps(by_mac, by_ip, m, ip)
               timers1 == BoundTimers(by_mac, timers, m, ip, t)
           IN  /\ by_mac1 \in ByMac /\ by_ip1 \in ByIp
               /\ timers1 \in [Ip -> Timer(max)]
               /\ Agree(by_mac1, by_ip1, timers1)
               /\ \A a \in Ip : by_ip1[a] = IF a = ip THEN m
                     ELSE IF a = by_mac[m] THEN None ELSE by_ip[a]
               /\ \A a \in Ip : timers1[a] = IF a = ip THEN t
                     ELSE IF a = by_mac[m] THEN None ELSE timers[a]
<1> DEFINE by_mac1 == BoundMacs(by_mac, by_ip, m, ip)
           by_ip1 == BoundIps(by_mac, by_ip, m, ip)
           timers1 == BoundTimers(by_mac, timers, m, ip, t)
<1>1. /\ by_mac1 \in ByMac
      /\ \A h \in Mac : by_mac1[h] = IF h = m THEN ip
                                     ELSE IF h = by_ip[ip] THEN None ELSE by_mac[h]
  BY AddressesWithout DEF ByMac, BoundMacs
<1>2. /\ by_ip1 \in ByIp
      /\ \A a \in Ip : by_ip1[a] = IF a = ip THEN m
                                   ELSE IF a = by_mac[m] THEN None ELSE by_ip[a]
  BY ClientsWithout DEF ByIp, BoundIps
<1>3. /\ timers1 \in [Ip -> Timer(max)]
      /\ \A a \in Ip : timers1[a] = IF a = ip THEN t
                                    ELSE IF a = by_mac[m] THEN None ELSE timers[a]
  BY TimersWithout DEF BoundTimers
<1> HIDE DEF by_mac1, by_ip1, timers1
<1>4. \A h \in Mac, a \in Ip : by_mac1[h] = a <=> by_ip1[a] = h
  <2> SUFFICES ASSUME NEW h \in Mac, NEW a \in Ip
               PROVE  by_mac1[h] = a <=> by_ip1[a] = h
    OBVIOUS
  <2>1. /\ by_mac[h] = a <=> by_ip[a] = h
        /\ by_mac[m] = a <=> by_ip[a] = m
        /\ by_mac[h] = ip <=> by_ip[ip] = h
    BY DEF Agree
  <2>2. /\ by_mac1[h] = IF h = m THEN ip
                        ELSE IF h = by_ip[ip] THEN None ELSE by_mac[h]
        /\ by_ip1[a] = IF a = ip THEN m
                       ELSE IF a = by_mac[m] THEN None ELSE by_ip[a]
        /\ None # a /\ None # h /\ None # m
    BY <1>1, <1>2, NoneIsNoKey
  <2>3. CASE h = m
    BY <2>1, <2>2, <2>3
  <2>4. CASE h # m
    BY <2>1, <2>2, <2>4
  <2> QED BY <2>3, <2>4
<1>5. \A a \in Ip : timers1[a] = None <=> by_ip1[a] = None
  BY <1>2, <1>3 DEF Agree
<1>6. Agree(by_mac1, by_ip1, timers1)
  BY <1>4, <1>5 DEF Agree
<1> QED BY <1>1, <1>2, <1>3, <1>6 DEF by_mac1, by_ip1, timers1

\* m's OFFER of ip, or its lease of ip, may begin once nothing of another
\* client stands in the way.
LEMMA ReserveOfferGood ==
    ASSUME NEW s, Good(s), NEW m \in Mac, NEW ip \in Pool,
           IsNotLeasedToOther(s, ip, m), s.declined_ip_until[ip] = None
    PROVE  /\ Good(ReserveOfferIp(s, m, ip))
           /\ ReserveOfferIp(s, m, ip).declined_ip_until = s.declined_ip_until
           /\ ReserveOfferIp(s, m, ip).ip_to_mac = s.ip_to_mac
           /\ ReserveOfferIp(s, m, ip).lease_expire_time = s.lease_expire_time
           /\ \A a \in Ip : ReserveOfferIp(s, m, ip).offered_mac_by_ip[a]
                  = IF a = ip THEN m ELSE IF a = s.offered_ip_by_mac[m] THEN None
                    ELSE s.offered_mac_by_ip[a]
           /\ \A a \in Ip : ReserveOfferIp(s, m, ip).offer_expire_time[a]
                  = IF a = ip THEN offer_timeout
                    ELSE IF a = s.offered_ip_by_mac[m] THEN None
                    ELSE s.offer_expire_time[a]
<1> DEFINE r == ReserveOfferIp(s, m, ip)
<1>1. /\ s.offered_ip_by_mac \in ByMac /\ s.offered_mac_by_ip \in ByIp
      /\ s.offer_expire_time \in [Ip -> Timer(offer_timeout)] /\ ip \in Ip
      /\ Agree(s.offered_ip_by_mac, s.offered_mac_by_ip, s.offer_expire_time)
      /\ offer_timeout \in Timer(offer_timeout) /\ offer_timeout # None
  BY NoneIsNoKey, TimerTypes, DurationAssumption
  DEF Good, Offers, Tables, ByMac, ByIp
<1>2. /\ r.offered_ip_by_mac
            = BoundMacs(s.offered_ip_by_mac, s.offered_mac_by_ip, m, ip)
      /\ r.offered_mac_by_ip
            = BoundIps(s.offered_ip_by_mac, s.offered_mac_by_ip, m, ip)
      /\ r.offer_expire_time
            = BoundTimers(s.offered_ip_by_mac, s.offer_expire_time, m, ip, offer_timeout)
      /\ r.mac_to_ip = s.mac_to_ip
      /\ r.ip_to_mac = s.ip_to_mac
      /\ r.lease_expire_time = s.lease_expire_time
      /\ r.declined_ip_until = s.declined_ip_until
  BY DEF ReserveOfferIp, Good, Tables, BoundMacs, BoundIps, BoundTimers
<1>3. /\ r.offered_ip_by_mac \in ByMac /\ r.offered_mac_by_ip \in ByIp
      /\ r.offer_expire_time \in [Ip -> Timer(offer_timeout)]
      /\ Agree(r.offered_ip_by_mac, r.offered_mac_by_ip, r.offer_expire_time)
      /\ \A a \in Ip : r.offered_mac_by_ip[a]
             = IF a = ip THEN m ELSE IF a = s.offered_ip_by_mac[m] THEN None
               ELSE s.offered_mac_by_ip[a]
      /\ \A a \in Ip : r.offer_expire_time[a]
             = IF a = ip THEN offer_timeout
               ELSE IF a = s.offered_ip_by_mac[m] THEN None
               ELSE s.offer_expire_time[a]
  <2> HIDE DEF r
  <2> QED BY <1>1, <1>2, BindingAgrees
<1>5. r \in Tables
  BY <1>2, <1>3 DEF ReserveOfferIp, Good, Tables, ByMac, ByIp
<1> HIDE DEF r
<1>6. Leases(r) /\ Offers(r) /\ NotShared(r) /\ InPool(r) /\ Clear(r)
  BY <1>2, <1>3 DEF Good, Leases, Offers, NotShared, InPool, Clear, IsNotLeasedToOther
<1>7. Good(r)
  BY <1>5, <1>6 DEF Good
<1> QED BY <1>2, <1>3, <1>7 DEF r

LEMMA ReleaseLeasesFields ==
    ASSUME NEW s, Good(s), NEW S
    PROVE  LET r == ReleaseLeases(s, S)
           IN  /\ r.offered_ip_by_mac = s.offered_ip_by_mac
               /\ r.offered_mac_by_ip = s.offered_mac_by_ip
               /\ r.offer_expire_time = s.offer_expire_time
               /\ r.declined_ip_until = s.declined_ip_until
               /\ \A a \in Ip : r.ip_to_mac[a] = IF a \in S THEN None ELSE s.ip_to_mac[a]
               /\ \A a \in Ip : r.lease_expire_time[a]
                                   = IF a \in S THEN None ELSE s.lease_expire_time[a]
<1> DEFINE r == ReleaseLeases(s, S)
<1>1. /\ s.ip_to_mac \in ByIp
      /\ s.lease_expire_time \in [Ip -> Timer(lease_duration)]
  BY DEF Good, Tables, ByIp
<1>2. /\ r.ip_to_mac = Without(s.ip_to_mac, S)
      /\ r.lease_expire_time = Without(s.lease_expire_time, S)
      /\ r.offered_ip_by_mac = s.offered_ip_by_mac
      /\ r.offered_mac_by_ip = s.offered_mac_by_ip
      /\ r.offer_expire_time = s.offer_expire_time
      /\ r.declined_ip_until = s.declined_ip_until
  BY DEF ReleaseLeases, Good, Tables
<1> QED BY <1>1, <1>2, ClientsWithout, TimersWithout

LEMMA ReleaseOffersFields ==
    ASSUME NEW s, Good(s), NEW S
    PROVE  LET r == ReleaseOffers(s, S)
           IN  /\ r.mac_to_ip = s.mac_to_ip
               /\ r.ip_to_mac = s.ip_to_mac
               /\ r.lease_expire_time = s.lease_expire_time
               /\ r.declined_ip_until = s.declined_ip_until
               /\ \A a \in Ip : r.offered_mac_by_ip[a]
                                   = IF a \in S THEN None ELSE s.offered_mac_by_ip[a]
               /\ \A a \in Ip : r.offer_expire_time[a]
                                   = IF a \in S THEN None ELSE s.offer_expire_time[a]
<1> DEFINE r == ReleaseOffers(s, S)
<1>1. /\ s.offered_mac_by_ip \in ByIp
      /\ s.offer_expire_time \in [Ip -> Timer(offer_timeout)]
  BY DEF Good, Tables, ByIp
<1>2. /\ r.offered_mac_by_ip = Without(s.offered_mac_by_ip, S)
      /\ r.offer_expire_time = Without(s.offer_expire_time, S)
      /\ r.mac_to_ip = s.mac_to_ip
      /\ r.ip_to_mac = s.ip_to_mac
      /\ r.lease_expire_time = s.lease_expire_time
      /\ r.declined_ip_until = s.declined_ip_until
  BY DEF ReleaseOffers, Good, Tables
<1> QED BY <1>1, <1>2, ClientsWithout, TimersWithout

\* What the clean-up leaves: the entries whose time has not run out.
LEMMA CleanupGood ==
    ASSUME NEW s, Good(s), NEW c, c = CleanupExpiredState(s)
    PROVE  /\ Good(c)
           /\ \A a \in Ip :
                 /\ c.ip_to_mac[a] = IF s.lease_expire_time[a] = 0 THEN None
                                     ELSE s.ip_to_mac[a]
                 /\ c.lease_expire_time[a] = IF s.lease_expire_time[a] = 0 THEN None
                                             ELSE s.lease_expire_time[a]
                 /\ c.offered_mac_by_ip[a] = IF s.offer_expire_time[a] = 0 THEN None
                                             ELSE s.offered_mac_by_ip[a]
                 /\ c.offer_expire_time[a] = IF s.offer_expire_time[a] = 0 THEN None
                                             ELSE s.offer_expire_time[a]
                 /\ c.declined_ip_until[a] = IF s.declined_ip_until[a] = 0 THEN None
                                             ELSE s.declined_ip_until[a]
<1> DEFINE L == Expired(s.lease_expire_time)
           s1 == ReleaseLeases(s, L)
           O == Expired(s1.offer_expire_time)
           s2 == ReleaseOffers(s1, O)
           D == Expired(s2.declined_ip_until)
<1>1. Good(s1)
  BY ReleaseLeasesGood
<1> HIDE DEF s1
<1>2. Good(s2)
  BY <1>1, ReleaseOffersGood
<1>3. /\ s1.offered_mac_by_ip = s.offered_mac_by_ip
      /\ s1.offer_expire_time = s.offer_expire_time
      /\ s1.declined_ip_until = s.declined_ip_until
      /\ \A a \in Ip : /\ s1.ip_to_mac[a] = IF a \in L THEN None ELSE s.ip_to_mac[a]
                       /\ s1.lease_expire_time[a]
                             = IF a \in L THEN None ELSE s.lease_expire_time[a]
  <2>1. s1 = ReleaseLeases(s, L)
    BY DEF s1
  <2> HIDE DEF L
  <2> QED BY <2>1, ReleaseLeasesFields
<1> HIDE DEF s2
<1>4. /\ s2.ip_to_mac = s1.ip_to_mac
      /\ s2.lease_expire_time = s1.lease_expire_time
      /\ s2.declined_ip_until = s1.declined_ip_until
      /\ \A a \in Ip : /\ s2.offered_mac_by_ip[a]
                             = IF a \in O THEN None ELSE s1.offered_mac_by_ip[a]
                       /\ s2.offer_expire_time[a]
                             = IF a \in O THEN None ELSE s1.offer_expire_time[a]
  <2>1. s2 = ReleaseOffers(s1, O)
    BY DEF s2
  <2> HIDE DEF O
  <2> QED BY <1>1, <2>1, ReleaseOffersFields
<1>5. c = [s2 EXCEPT !.declined_ip_until = Without(s2.declined_ip_until, D)]
  BY <1>3, <1>4 DEF CleanupExpiredState, s1, s2
<1>6. s2.declined_ip_until \in [Ip -> Timer(decline_timeout)]
  BY <1>2 DEF Good, Tables
<1> HIDE DEF D
<1>7. /\ Without(s2.declined_ip_until, D) \in [Ip -> Timer(decline_timeout)]
      /\ \A a \in Ip : Without(s2.declined_ip_until, D)[a]
                          = IF a \in D THEN None ELSE s2.declined_ip_until[a]
  BY ONLY <1>6, TimersWithout
<1>8. /\ c.mac_to_ip = s2.mac_to_ip
      /\ c.ip_to_mac = s2.ip_to_mac
      /\ c.lease_expire_time = s2.lease_expire_time
      /\ c.offered_ip_by_mac = s2.offered_ip_by_mac
      /\ c.offered_mac_by_ip = s2.offered_mac_by_ip
      /\ c.offer_expire_time = s2.offer_expire_time
      /\ c.declined_ip_until = Without(s2.declined_ip_until, D)
      /\ c \in Tables
  BY <1>2, <1>5, <1>7 DEF Good, Tables
<1>9. Good(c)
  BY <1>2, <1>7, <1>8 DEF Good, Leases, Offers, NotShared, InPool, Clear
<1>10. \A a \in Ip : /\ a \in L <=> s.lease_expire_time[a] = 0
                     /\ a \in O <=> s.offer_expire_time[a] = 0
                     /\ a \in D <=> s.declined_ip_until[a] = 0
  BY <1>3, <1>4 DEF Expired, D
<1> HIDE DEF L, O
<1> QED BY <1>3, <1>4, <1>7, <1>8, <1>9, <1>10

\* Ending the OFFER of a client leaves every other entry alone.
LEMMA ReleaseOfferForMacFields ==
    ASSUME NEW s, Good(s), NEW m \in Mac
    PROVE  LET r == ReleaseOfferForMac(s, m)
           IN  /\ Good(r)
               /\ r.mac_to_ip = s.mac_to_ip
               /\ r.ip_to_mac = s.ip_to_mac
               /\ r.lease_expire_time = s.lease_expire_time
               /\ r.declined_ip_until = s.declined_ip_until
               /\ \A a \in Ip : r.offered_mac_by_ip[a]
                     = IF s.offered_mac_by_ip[a] = m THEN None
                       ELSE s.offered_mac_by_ip[a]
               /\ \A a \in Ip : r.offer_expire_time[a]
                     = IF s.offered_mac_by_ip[a] = m THEN None
                       ELSE s.offer_expire_time[a]
<1> DEFINE ip == s.offered_ip_by_mac[m]
           r == ReleaseOffers(s, {ip})
<1>1. Good(r)
  BY ReleaseOfferForMacIs, ReleaseOfferForMacGood
<1>2. \A a \in Ip : a = ip <=> s.offered_mac_by_ip[a] = m
  BY DEF Good, Offers, Agree
<1>3. /\ r.mac_to_ip = s.mac_to_ip
      /\ r.ip_to_mac = s.ip_to_mac
      /\ r.lease_expire_time = s.lease_expire_time
      /\ r.declined_ip_until = s.declined_ip_until
      /\ \A a \in Ip : r.offered_mac_by_ip[a]
            = IF a = ip THEN None ELSE s.offered_mac_by_ip[a]
      /\ \A a \in Ip : r.offer_expire_time[a]
            = IF a = ip THEN None ELSE s.offer_expire_time[a]
  <2> HIDE DEF ip
  <2> QED BY ReleaseOffersFields
<1>4. ReleaseOfferForMac(s, m) = r
  BY ReleaseOfferForMacIs
<1> HIDE DEF r, ip
<1> QED BY <1>1, <1>2, <1>3, <1>4

LEMMA CommitLeaseGood ==
    ASSUME NEW s, Good(s), NEW m \in Mac, NEW ip \in Pool
    PROVE  LET r == CommitLease(s, m, ip)
           IN  /\ Good(r)
               /\ r.declined_ip_until = s.declined_ip_until
               /\ \A a \in Ip : r.ip_to_mac[a]
                     = IF a = ip THEN m ELSE IF a = s.mac_to_ip[m] THEN None
                       ELSE s.ip_to_mac[a]
               /\ \A a \in Ip : r.lease_expire_time[a]
                     = IF a = ip THEN lease_duration
                       ELSE IF a = s.mac_to_ip[m] THEN None
                       ELSE s.lease_expire_time[a]
               /\ \A a \in Ip : r.offered_mac_by_ip[a]
                     = IF a = ip \/ s.offered_mac_by_ip[a] = m THEN None
                       ELSE s.offered_mac_by_ip[a]
               /\ \A a \in Ip : r.offer_expire_time[a]
                     = IF a = ip \/ s.offered_mac_by_ip[a] = m THEN None
                       ELSE s.offer_expire_time[a]
<1> DEFINE r == CommitLease(s, m, ip)
           s1 == ReleaseOffers(s, {ip})
           q == ReleaseOfferForMac(s1, m)
<1>1. m \in Mac /\ ip \in Ip /\ None \notin Mac
  BY NoneIsNoKey
<1>2. Good(s1)
  BY ReleaseOffersGood
<1>3. /\ s1.mac_to_ip = s.mac_to_ip
      /\ s1.ip_to_mac = s.ip_to_mac
      /\ s1.lease_expire_time = s.lease_expire_time
      /\ s1.declined_ip_until = s.declined_ip_until
      /\ \A a \in Ip : s1.offered_mac_by_ip[a]
            = IF a = ip THEN None ELSE s.offered_mac_by_ip[a]
      /\ \A a \in Ip : s1.offer_expire_time[a]
            = IF a = ip THEN None ELSE s.offer_expire_time[a]
  BY ReleaseOffersFields
<1>4. r = [q EXCEPT
            !.mac_to_ip = BoundMacs(q.mac_to_ip, s.ip_to_mac, m, ip),
            !.ip_to_mac = BoundIps(s.mac_to_ip, q.ip_to_mac, m, ip),
            !.lease_expire_time =
                BoundTimers(s.mac_to_ip, q.lease_expire_time, m, ip, lease_duration)]
  BY <1>1, ConsumeOfferIs DEF CommitLease, BoundMacs, BoundIps, BoundTimers
<1> HIDE DEF s1
<1>5. /\ Good(q)
      /\ q.mac_to_ip = s1.mac_to_ip
      /\ q.ip_to_mac = s1.ip_to_mac
      /\ q.lease_expire_time = s1.lease_expire_time
      /\ q.declined_ip_until = s1.declined_ip_until
      /\ \A a \in Ip : q.offered_mac_by_ip[a]
            = IF s1.offered_mac_by_ip[a] = m THEN None ELSE s1.offered_mac_by_ip[a]
      /\ \A a \in Ip : q.offer_expire_time[a]
            = IF s1.offered_mac_by_ip[a] = m THEN None ELSE s1.offer_expire_time[a]
  BY <1>2, ReleaseOfferForMacFields
<1> HIDE DEF q
<1>6. /\ s.mac_to_ip \in ByMac /\ s.ip_to_mac \in ByIp
      /\ s.lease_expire_time \in [Ip -> Timer(lease_duration)]
      /\ Agree(s.mac_to_ip, s.ip_to_mac, s.lease_expire_time)
      /\ lease_duration \in Timer(lease_duration) /\ lease_duration # None
  BY TimerTypes, DurationAssumption DEF Good, Leases, Tables, ByMac, ByIp
<1>7. /\ r.mac_to_ip = BoundMacs(s.mac_to_ip, s.ip_to_mac, m, ip)
      /\ r.ip_to_mac = BoundIps(s.mac_to_ip, s.ip_to_mac, m, ip)
      /\ r.lease_expire_time
            = BoundTimers(s.mac_to_ip, s.lease_expire_time, m, ip, lease_duration)
      /\ r.offered_ip_by_mac = q.offered_ip_by_mac
      /\ r.offered_mac_by_ip = q.offered_mac_by_ip
      /\ r.offer_expire_time = q.offer_expire_time
      /\ r.declined_ip_until = q.declined_ip_until
  BY <1>3, <1>4, <1>5 DEF Good, Tables
<1>8. /\ r.mac_to_ip \in ByMac /\ r.ip_to_mac \in ByIp
      /\ r.lease_expire_time \in [Ip -> Timer(lease_duration)]
      /\ Agree(r.mac_to_ip, r.ip_to_mac, r.lease_expire_time)
      /\ \A a \in Ip : r.ip_to_mac[a]
            = IF a = ip THEN m ELSE IF a = s.mac_to_ip[m] THEN None
              ELSE s.ip_to_mac[a]
      /\ \A a \in Ip : r.lease_expire_time[a]
            = IF a = ip THEN lease_duration
              ELSE IF a = s.mac_to_ip[m] THEN None ELSE s.lease_expire_time[a]
  <2> DEFINE x == BoundMacs(s.mac_to_ip, s.ip_to_mac, m, ip)
             y == BoundIps(s.mac_to_ip, s.ip_to_mac, m, ip)
             z == BoundTimers(s.mac_to_ip, s.lease_expire_time, m, ip, lease_duration)
  <2>1. /\ x \in ByMac /\ y \in ByIp /\ z \in [Ip -> Timer(lease_duration)]
        /\ Agree(x, y, z)
        /\ \A a \in Ip : y[a] = IF a = ip THEN m
                                ELSE IF a = s.mac_to_ip[m] THEN None ELSE s.ip_to_mac[a]
        /\ \A a \in Ip : z[a] = IF a = ip THEN lease_duration
                                ELSE IF a = s.mac_to_ip[m] THEN None
                                ELSE s.lease_expire_time[a]
    BY ONLY <1>1, <1>6, BindingAgrees
  <2> HIDE DEF r, x, y, z
  <2>2. r.mac_to_ip = x /\ r.ip_to_mac = y /\ r.lease_expire_time = z
    BY <1>7 DEF x, y, z
  <2> QED BY <2>1, <2>2
<1>9. r \in Tables
  <2> HIDE DEF r
  <2> DEFINE x == BoundMacs(q.mac_to_ip, s.ip_to_mac, m, ip)
             y == BoundIps(s.mac_to_ip, q.ip_to_mac, m, ip)
             z == BoundTimers(s.mac_to_ip, q.lease_expire_time, m, ip, lease_duration)
  <2>1. x \in ByMac /\ y \in ByIp /\ z \in [Ip -> Timer(lease_duration)]
    BY <1>3, <1>5, <1>7, <1>8
  <2> HIDE DEF x, y, z
  <2> QED BY <1>4, <1>5, <2>1 DEF Good, Tables, ByMac, ByIp, x, y, z
<1> HIDE DEF r
<1>10. \A a \in Ip : /\ r.offered_mac_by_ip[a]
                           = IF a = ip \/ s.offered_mac_by_ip[a] = m THEN None
                             ELSE s.offered_mac_by_ip[a]
                     /\ r.offer_expire_time[a]
                           = IF a = ip \/ s.offered_mac_by_ip[a] = m THEN None
                             ELSE s.offer_expire_time[a]
  BY <1>1, <1>3, <1>5, <1>7, ZenonT(60)
<1>11. Leases(r) /\ Offers(r)
  BY <1>5, <1>7, <1>8 DEF Good, Leases, Offers
<1>12. NotShared(r) /\ InPool(r) /\ Clear(r)
  BY <1>3, <1>5, <1>7, <1>8, <1>10 DEF Good, NotShared, InPool, Clear
<1>13. Good(r)
  BY <1>9, <1>11, <1>12 DEF Good
<1>14. r.declined_ip_until = s.declined_ip_until
  BY <1>3, <1>5, <1>7
<1> QED BY <1>8, <1>10, <1>13, <1>14 DEF r

-----------------------------------------------------------------------------
(***************************************************************************)
(* Every message, and the passing of time, keep the invariant.             *)
(***************************************************************************)

Inv == Good(tables) /\ reply \in Replies /\ QuarantineIsRespected

LEMMA InitInv == Init => Inv
<1> SUFFICES ASSUME Init PROVE Inv
  OBVIOUS
<1>1. tables \in Tables
  BY DEF Init, Tables, Timer
<1>2. /\ \A m \in Mac : tables.mac_to_ip[m] = None /\ tables.offered_ip_by_mac[m] = None
      /\ \A ip \in Ip : /\ tables.ip_to_mac[ip] = None
                        /\ tables.lease_expire_time[ip] = None
                        /\ tables.offered_mac_by_ip[ip] = None
                        /\ tables.offer_expire_time[ip] = None
                        /\ tables.declined_ip_until[ip] = None
  BY DEF Init
<1>3. Good(tables)
  BY <1>1, <1>2, NoneIsNoKey DEF Good, Leases, Offers, Agree, NotShared, InPool, Clear
<1>4. reply \in Replies /\ QuarantineIsRespected
  BY DEF Init, Replies, NoReply, QuarantineIsRespected
<1> QED BY <1>3, <1>4 DEF Inv

LEMMA TickGood ==
    ASSUME Good(tables), Tick
    PROVE  /\ Good(tables')
           /\ tables'.ip_to_mac = tables.ip_to_mac
           /\ tables'.offered_mac_by_ip = tables.offered_mac_by_ip
<1> DEFINE L == Elapsed(tables.lease_expire_time)
           O == Elapsed(tables.offer_expire_time)
           D == Elapsed(tables.declined_ip_until)
<1>1. ASSUME NEW max \in Nat, NEW f \in [Ip -> Timer(max)]
      PROVE  /\ Elapsed(f) \in [Ip -> Timer(max)]
             /\ \A a \in Ip : Elapsed(f)[a] = None <=> f[a] = None
  <2>1. ASSUME NEW a \in Ip
        PROVE  LET t == IF f[a] \in {None, 0} THEN f[a] ELSE f[a] - 1
               IN  t \in Timer(max) /\ (t = None <=> f[a] = None)
    <3>1. f[a] = None \/ f[a] \in 0..max
      BY DEF Timer
    <3> QED BY <3>1 DEF Timer
  <2> QED BY <2>1 DEF Elapsed
<1>2. /\ tables.lease_expire_time \in [Ip -> Timer(lease_duration)]
      /\ tables.offer_expire_time \in [Ip -> Timer(offer_timeout)]
      /\ tables.declined_ip_until \in [Ip -> Timer(decline_timeout)]
  BY DEF Good, Tables
<1>3. /\ L \in [Ip -> Timer(lease_duration)]
      /\ \A a \in Ip : L[a] = None <=> tables.lease_expire_time[a] = None
  BY <1>1, <1>2, DurationAssumption
<1>4. /\ O \in [Ip -> Timer(offer_timeout)]
      /\ \A a \in Ip : O[a] = None <=> tables.offer_expire_time[a] = None
  BY <1>1, <1>2, DurationAssumption
<1>5. /\ D \in [Ip -> Timer(decline_timeout)]
      /\ \A a \in Ip : D[a] = None <=> tables.declined_ip_until[a] = None
  BY <1>1, <1>2, DurationAssumption
<1>6. tables' = [tables EXCEPT !.lease_expire_time = L,
                               !.offer_expire_time = O,
                               !.declined_ip_until = D]
  BY DEF Tick
<1> HIDE DEF L, O, D
<1>7. /\ tables' \in Tables
      /\ tables'.mac_to_ip = tables.mac_to_ip
      /\ tables'.ip_to_mac = tables.ip_to_mac
      /\ tables'.offered_ip_by_mac = tables.offered_ip_by_mac
      /\ tables'.offered_mac_by_ip = tables.offered_mac_by_ip
      /\ tables'.lease_expire_time = L
      /\ tables'.offer_expire_time = O
      /\ tables'.declined_ip_until = D
  BY <1>3, <1>4, <1>5, <1>6 DEF Good, Tables
<1>8. Leases(tables')
  BY <1>3, <1>7 DEF Good, Leases, Agree
<1>9. Offers(tables')
  BY <1>4, <1>7 DEF Good, Offers, Agree
<1>10. NotShared(tables') /\ InPool(tables') /\ Clear(tables')
  BY <1>5, <1>7 DEF Good, NotShared, InPool, Clear
<1> QED BY <1>7, <1>8, <1>9, <1>10 DEF Good

LEMMA UnsupportedGood ==
    ASSUME Good(tables), Unsupported
    PROVE  Good(tables')
BY CleanupGood DEF Unsupported

\* No entry of s is out of date.
Fresh(s) ==
    \A ip \in Ip : /\ s.lease_expire_time[ip] # 0
                   /\ s.offer_expire_time[ip] # 0
                   /\ s.declined_ip_until[ip] # 0

LEMMA CleanupFresh ==
    ASSUME NEW s, Good(s), NEW c, c = CleanupExpiredState(s)
    PROVE  Good(c) /\ Fresh(c)
<1>1. None # 0
  OBVIOUS
<1> QED BY <1>1, CleanupGood DEF Fresh

\* An address a client may have is one of the pool, free of other clients and
\* of quarantine.
LEMMA AvailableIsFree ==
    ASSUME NEW s, Fresh(s), NEW ip \in Ip, NEW m, IsIpAvailableForMac(s, ip, m)
    PROVE  /\ ip \in Pool /\ s.declined_ip_until[ip] = None
           /\ IsNotLeasedToOther(s, ip, m) /\ IsNotOfferedToOther(s, ip, m)
BY DEF IsIpAvailableForMac, IsInPool, IsNotDeclined, Fresh

\* A client that has an OFFER may always have it again.
LEMMA OfferIsHeld ==
    ASSUME NEW s, Good(s), NEW m \in Mac, s.offered_ip_by_mac[m] # None
    PROVE  Holds(s, s.offered_ip_by_mac, m)
<1> DEFINE ip == s.offered_ip_by_mac[m]
<1>1. ip \in Ip
  BY DEF Good, Tables
<1>2. s.offered_mac_by_ip[ip] = m
  BY <1>1 DEF Good, Offers, Agree
<1> HIDE DEF ip
<1>3. ip \in Pool
  BY <1>1, <1>2 DEF Good, InPool
<1>4. s.declined_ip_until[ip] = None /\ s.ip_to_mac[ip] \in {None, m}
  BY <1>1, <1>2 DEF Good, Clear, NotShared
<1>5. IsIpAvailableForMac(s, ip, m)
  BY <1>2, <1>3, <1>4
  DEF IsIpAvailableForMac, IsInPool, IsNotDeclined, IsNotLeasedToOther,
      IsNotOfferedToOther
<1> QED BY <1>1, <1>5, NoneIsNoKey DEF Holds, ip

\* A client's DISCOVER leaves all leases and OFFERs as they are, or reserves
\* one free address for a client that had no OFFER.
LEMMA DiscoverStep ==
    ASSUME Good(tables), NEW m \in Mac, Discover(m),
           NEW c, c = CleanupExpiredState(tables)
    PROVE  /\ Good(tables') /\ Fresh(tables')
           /\ reply' \in Replies /\ QuarantineIsRespected'
           /\ tables'.ip_to_mac = c.ip_to_mac
           /\ \/ \A a \in Ip : tables'.offered_mac_by_ip[a] = c.offered_mac_by_ip[a]
              \/ \E ip \in Pool :
                    /\ IsNotLeasedToOther(c, ip, m) /\ IsNotOfferedToOther(c, ip, m)
                    /\ c.offered_ip_by_mac[m] = None
                    /\ \A a \in Ip : tables'.offered_mac_by_ip[a]
                          = IF a = ip THEN m ELSE c.offered_mac_by_ip[a]
<1>1. Good(c) /\ Fresh(c)
  BY CleanupFresh
<1> DEFINE rest == ReleaseOfferForMac(c, m)
           free == {ip \in Pool : IsIpAvailableForMac(rest, ip, m)}
<1>2. CASE /\ Holds(c, c.mac_to_ip, m)
           /\ tables' = c
           /\ reply' = Answer("OFFER", m, c.mac_to_ip[m])
  <2>1. c.mac_to_ip[m] \in Ip
    BY <1>1, <1>2 DEF Good, Tables, Holds
  <2>2. c.declined_ip_until[c.mac_to_ip[m]] = None
    BY <1>1, <1>2, <2>1, AvailableIsFree DEF Holds
  <2>3. reply' \in Replies /\ QuarantineIsRespected'
    BY <1>2, <2>1, <2>2 DEF Answer, Replies, QuarantineIsRespected
  <2> QED BY <1>1, <1>2, <2>3
<1>3. CASE /\ Holds(c, c.offered_ip_by_mac, m)
           /\ tables' = [c EXCEPT !.offer_expire_time[c.offered_ip_by_mac[m]]
                                      = offer_timeout]
           /\ reply' = Answer("OFFER", m, c.offered_ip_by_mac[m])
  <2> DEFINE ip == c.offered_ip_by_mac[m]
  <2>1. ip \in Ip
    BY <1>1, <1>3 DEF Good, Tables, Holds
  <2>2. c.declined_ip_until[ip] = None /\ c.offered_mac_by_ip[ip] = m
    <3>1. c.declined_ip_until[ip] = None
      BY <1>1, <1>3, <2>1, AvailableIsFree DEF Holds
    <3>2. c.offered_mac_by_ip[ip] = m
      BY <1>1, <2>1 DEF Good, Offers, Agree
    <3> QED BY <3>1, <3>2
  <2>3. reply' \in Replies
    BY <1>3, <2>1 DEF Answer, Replies
  <2> HIDE DEF ip
  <2>4. /\ tables' \in Tables
        /\ tables'.mac_to_ip = c.mac_to_ip
        /\ tables'.ip_to_mac = c.ip_to_mac
        /\ tables'.lease_expire_time = c.lease_expire_time
        /\ tables'.offered_ip_by_mac = c.offered_ip_by_mac
        /\ tables'.offered_mac_by_ip = c.offered_mac_by_ip
        /\ tables'.offer_expire_time = [c.offer_expire_time EXCEPT ![ip] = offer_timeout]
        /\ tables'.declined_ip_until = c.declined_ip_until
    BY <1>1, <1>3, TimerTypes DEF Good, Tables, ip
  <2>5. \A a \in Ip : tables'.offer_expire_time[a]
                         = IF a = ip THEN offer_timeout ELSE c.offer_expire_time[a]
    BY <1>1, <2>4 DEF Good, Tables
  <2>6. Leases(tables') /\ NotShared(tables') /\ InPool(tables') /\ Clear(tables')
    BY <1>1, <2>4 DEF Good, Leases, NotShared, InPool, Clear
  <2>7. Offers(tables')
    BY <1>1, <2>2, <2>4, <2>5, DurationAssumption DEF Good, Offers, Agree
  <2>8. Fresh(tables')
    BY <1>1, <2>4, <2>5, DurationAssumption DEF Fresh
  <2>9. QuarantineIsRespected'
    BY <1>3, <2>2, <2>4 DEF Answer, QuarantineIsRespected, ip
  <2> QED BY <2>3, <2>4, <2>6, <2>7, <2>8, <2>9 DEF Good
<1>4. CASE /\ ~Holds(c, c.offered_ip_by_mac, m)
           /\ \E ip \in free :
                 /\ tables' = ReserveOfferIp(rest, m, ip)
                 /\ reply' = Answer("OFFER", m, ip)
  <2>1. c.offered_ip_by_mac[m] = None
    BY <1>1, <1>4, OfferIsHeld
  <2>2. \A a \in Ip : c.offered_mac_by_ip[a] # m
    BY <1>1, <2>1, NoneIsNoKey DEF Good, Offers, Agree
  <2>3. /\ Good(rest)
        /\ rest.ip_to_mac = c.ip_to_mac
        /\ rest.lease_expire_time = c.lease_expire_time
        /\ rest.declined_ip_until = c.declined_ip_until
        /\ \A a \in Ip : /\ rest.offered_mac_by_ip[a] = c.offered_mac_by_ip[a]
                         /\ rest.offer_expire_time[a] = c.offer_expire_time[a]
    BY <1>1, <2>2, ReleaseOfferForMacFields
  <2>4. rest.offered_ip_by_mac[m] = None
    BY <1>1 DEF ReleaseOfferForMac, Good, Tables
  <2> HIDE DEF rest
  <2>5. Fresh(rest)
    BY <1>1, <2>3 DEF Fresh
  <2>6. PICK ip \in Pool : /\ IsIpAvailableForMac(rest, ip, m)
                           /\ tables' = ReserveOfferIp(rest, m, ip)
                           /\ reply' = Answer("OFFER", m, ip)
    BY <1>4
  <2>7. /\ IsNotLeasedToOther(rest, ip, m) /\ IsNotOfferedToOther(rest, ip, m)
        /\ rest.declined_ip_until[ip] = None /\ ip \in Ip
    BY <2>5, <2>6, AvailableIsFree, NoneIsNoKey
  <2>8. /\ Good(tables')
        /\ tables'.declined_ip_until = rest.declined_ip_until
        /\ tables'.ip_to_mac = rest.ip_to_mac
        /\ tables'.lease_expire_time = rest.lease_expire_time
        /\ \A a \in Ip : tables'.offered_mac_by_ip[a]
              = IF a = ip THEN m ELSE IF a = rest.offered_ip_by_mac[m] THEN None
                ELSE rest.offered_mac_by_ip[a]
        /\ \A a \in Ip : tables'.offer_expire_time[a]
              = IF a = ip THEN offer_timeout
                ELSE IF a = rest.offered_ip_by_mac[m] THEN None
                ELSE rest.offer_expire_time[a]
    <3> DEFINE r == ReserveOfferIp(rest, m, ip)
    <3>1. /\ Good(r)
          /\ r.declined_ip_until = rest.declined_ip_until
          /\ r.ip_to_mac = rest.ip_to_mac
          /\ r.lease_expire_time = rest.lease_expire_time
          /\ \A a \in Ip : r.offered_mac_by_ip[a]
                = IF a = ip THEN m ELSE IF a = rest.offered_ip_by_mac[m] THEN None
                  ELSE rest.offered_mac_by_ip[a]
          /\ \A a \in Ip : r.offer_expire_time[a]
                = IF a = ip THEN offer_timeout
                  ELSE IF a = rest.offered_ip_by_mac[m] THEN None
                  ELSE rest.offer_expire_time[a]
      BY <2>3, <2>7, ReserveOfferGood
    <3>2. tables' = r
      BY <2>6
    <3> HIDE DEF r
    <3> QED BY <3>1, <3>2
  <2>9. Fresh(tables')
    BY <2>4, <2>5, <2>8, DurationAssumption, NoneIsNoKey DEF Fresh
  <2>10. reply' \in Replies /\ QuarantineIsRespected'
    BY <2>6, <2>7, <2>8 DEF Answer, Replies, QuarantineIsRespected
  <2>11. \A a \in Ip : tables'.offered_mac_by_ip[a]
              = IF a = ip THEN m ELSE c.offered_mac_by_ip[a]
    BY <2>3, <2>4, <2>8, NoneIsNoKey, ZenonT(60)
  <2>12. IsNotLeasedToOther(c, ip, m) /\ IsNotOfferedToOther(c, ip, m)
    BY <2>3, <2>7 DEF IsNotLeasedToOther, IsNotOfferedToOther
  <2> QED BY <2>1, <2>3, <2>6, <2>8, <2>9, <2>10, <2>11, <2>12
<1>5. CASE /\ ~Holds(c, c.offered_ip_by_mac, m)
           /\ tables' = rest
           /\ reply' = NoReply
  <2>1. c.offered_ip_by_mac[m] = None
    BY <1>1, <1>5, OfferIsHeld
  <2>2. \A a \in Ip : c.offered_mac_by_ip[a] # m
    BY <1>1, <2>1, NoneIsNoKey DEF Good, Offers, Agree
  <2>3. /\ Good(rest)
        /\ rest.ip_to_mac = c.ip_to_mac
        /\ rest.lease_expire_time = c.lease_expire_time
        /\ rest.declined_ip_until = c.declined_ip_until
        /\ \A a \in Ip : /\ rest.offered_mac_by_ip[a] = c.offered_mac_by_ip[a]
                         /\ rest.offer_expire_time[a] = c.offer_expire_time[a]
    BY <1>1, <2>2, ReleaseOfferForMacFields
  <2> HIDE DEF rest
  <2>4. Fresh(rest)
    BY <1>1, <2>3 DEF Fresh
  <2>5.. reply' \in Replies /\ QuarantineIsRespected'
    BY <1>5 DEF NoReply, Replies, QuarantineIsRespected
  <2> QED BY <1>5, <2>3, <2>4, <2>5
<1> QED BY <1>2, <1>3, <1>4, <1>5 DEF Discover

\* A client's REQUEST leaves everything as it is, or turns an address that is
\* free for the client, and that is the one it was offered if it was offered
\* any, into its lease.
LEMMA RequestStep ==
    ASSUME Good(tables), NEW m \in Mac, NEW for_us, NEW option \in Named,
           NEW ciaddr \in Named, Request(m, for_us, option, ciaddr),
           NEW c, c = CleanupExpiredState(tables)
    PROVE  /\ Good(tables') /\ Fresh(tables')
           /\ reply' \in Replies /\ QuarantineIsRespected'
           /\ \/ tables' = c
              \/ \E ip \in Pool :
                    /\ IsNotLeasedToOther(c, ip, m) /\ IsNotOfferedToOther(c, ip, m)
                    /\ \A a \in Ip : c.offered_mac_by_ip[a] = m => a = ip
                    /\ reply' = Answer("ACK", m, ip)
                    /\ \A a \in Ip : /\ tables'.ip_to_mac[a]
                                           = IF a = ip THEN m
                                             ELSE IF c.ip_to_mac[a] = m THEN None
                                             ELSE c.ip_to_mac[a]
                                     /\ tables'.offered_mac_by_ip[a]
                                           = IF a = ip THEN None
                                             ELSE c.offered_mac_by_ip[a]
<1>1. Good(c) /\ Fresh(c)
  BY CleanupFresh
<1>2. CASE tables' = c /\ reply' \in {NoReply, Answer("NAK", m, None)}
  <2>1. reply' \in Replies /\ QuarantineIsRespected'
    BY <1>2 DEF NoReply, Answer, Replies, QuarantineIsRespected
  <2> QED BY <1>1, <1>2, <2>1
<1>3. CASE \E ip \in Named : /\ Valid(c, m, ip)
                             /\ tables' = CommitLease(c, m, ip)
                             /\ reply' = Answer("ACK", m, ip)
  <2>1. PICK ip \in Ip : /\ Valid(c, m, ip)
                         /\ tables' = CommitLease(c, m, ip)
                         /\ reply' = Answer("ACK", m, ip)
    BY <1>3 DEF Named, Valid
  <2>2. /\ ip \in Pool /\ c.declined_ip_until[ip] = None
        /\ IsNotLeasedToOther(c, ip, m) /\ IsNotOfferedToOther(c, ip, m)
        /\ c.offered_ip_by_mac[m] \in {None, ip}
    BY <1>1, <2>1, AvailableIsFree DEF Valid
  <2>3. \A a \in Ip : c.offered_mac_by_ip[a] = m => a = ip
    BY <1>1, <2>2, NoneIsNoKey DEF Good, Offers, Agree
  <2>4. \A a \in Ip : c.ip_to_mac[a] = m <=> a = c.mac_to_ip[m]
    BY <1>1 DEF Good, Leases, Agree
  <2>5. /\ Good(tables')
        /\ tables'.declined_ip_until = c.declined_ip_until
        /\ \A a \in Ip : tables'.ip_to_mac[a]
              = IF a = ip THEN m ELSE IF a = c.mac_to_ip[m] THEN None
                ELSE c.ip_to_mac[a]
        /\ \A a \in Ip : tables'.lease_expire_time[a]
              = IF a = ip THEN lease_duration
                ELSE IF a = c.mac_to_ip[m] THEN None ELSE c.lease_expire_time[a]
        /\ \A a \in Ip : tables'.offered_mac_by_ip[a]
              = IF a = ip \/ c.offered_mac_by_ip[a] = m THEN None
                ELSE c.offered_mac_by_ip[a]
        /\ \A a \in Ip : tables'.offer_expire_time[a]
              = IF a = ip \/ c.offered_mac_by_ip[a] = m THEN None
                ELSE c.offer_expire_time[a]
    <3> DEFINE r == CommitLease(c, m, ip)
    <3>1. /\ Good(r)
          /\ r.declined_ip_until = c.declined_ip_until
          /\ \A a \in Ip : r.ip_to_mac[a]
                = IF a = ip THEN m ELSE IF a = c.mac_to_ip[m] THEN None
                  ELSE c.ip_to_mac[a]
          /\ \A a \in Ip : r.lease_expire_time[a]
                = IF a = ip THEN lease_duration
                  ELSE IF a = c.mac_to_ip[m] THEN None ELSE c.lease_expire_time[a]
          /\ \A a \in Ip : r.offered_mac_by_ip[a]
                = IF a = ip \/ c.offered_mac_by_ip[a] = m THEN None
                  ELSE c.offered_mac_by_ip[a]
          /\ \A a \in Ip : r.offer_expire_time[a]
                = IF a = ip \/ c.offered_mac_by_ip[a] = m THEN None
                  ELSE c.offer_expire_time[a]
      BY <1>1, <2>2, CommitLeaseGood
    <3>2. tables' = r
      BY <2>1
    <3> HIDE DEF r
    <3> QED BY <3>1, <3>2
  <2>6. Fresh(tables')
    BY <1>1, <2>5, DurationAssumption DEF Fresh
  <2>7. reply' \in Replies /\ QuarantineIsRespected'
    BY <2>1, <2>2, <2>5 DEF Answer, Replies, QuarantineIsRespected
  <2>8. \A a \in Ip : /\ tables'.ip_to_mac[a]
                            = IF a = ip THEN m
                              ELSE IF c.ip_to_mac[a] = m THEN None
                              ELSE c.ip_to_mac[a]
                      /\ tables'.offered_mac_by_ip[a]
                            = IF a = ip THEN None ELSE c.offered_mac_by_ip[a]
    BY <2>3, <2>4, <2>5, ZenonT(60)
  <2> QED BY <2>1, <2>2, <2>3, <2>5, <2>6, <2>7, <2>8
<1>4. RequestedIp(option, ciaddr) \in Named
  BY DEF RequestedIp
<1> QED BY <1>2, <1>3, <1>4 DEF Request

\* Ending the leases and the OFFERs of the addresses in S.
LEMMA ReleaseBothFields ==
    ASSUME NEW s, Good(s), NEW S
    PROVE  LET r == ReleaseOffers(ReleaseLeases(s, S), S)
           IN  /\ Good(r)
               /\ r.declined_ip_until = s.declined_ip_until
               /\ \A a \in Ip :
                     /\ r.ip_to_mac[a] = IF a \in S THEN None ELSE s.ip_to_mac[a]
                     /\ r.lease_expire_time[a]
                           = IF a \in S THEN None ELSE s.lease_expire_time[a]
                     /\ r.offered_mac_by_ip[a]
                           = IF a \in S THEN None ELSE s.offered_mac_by_ip[a]
                     /\ r.offer_expire_time[a]
                           = IF a \in S THEN None ELSE s.offer_expire_time[a]
<1> DEFINE q == ReleaseLeases(s, S)
           r == ReleaseOffers(q, S)
<1>1. Good(q)
  BY ReleaseLeasesGood
<1>2. /\ q.offered_mac_by_ip = s.offered_mac_by_ip
      /\ q.offer_expire_time = s.offer_expire_time
      /\ q.declined_ip_until = s.declined_ip_until
      /\ \A a \in Ip : q.ip_to_mac[a] = IF a \in S THEN None ELSE s.ip_to_mac[a]
      /\ \A a \in Ip : q.lease_expire_time[a]
                          = IF a \in S THEN None ELSE s.lease_expire_time[a]
  BY ReleaseLeasesFields
<1> HIDE DEF q
<1>3. Good(r)
  BY <1>1, ReleaseOffersGood
<1>4. /\ r.ip_to_mac = q.ip_to_mac
      /\ r.lease_expire_time = q.lease_expire_time
      /\ r.declined_ip_until = q.declined_ip_until
      /\ \A a \in Ip : r.offered_mac_by_ip[a]
                          = IF a \in S THEN None ELSE q.offered_mac_by_ip[a]
      /\ \A a \in Ip : r.offer_expire_time[a]
                          = IF a \in S THEN None ELSE q.offer_expire_time[a]
  BY <1>1, ReleaseOffersFields
<1> HIDE DEF r
<1> QED BY <1>2, <1>3, <1>4 DEF q, r

\* A client's RELEASE ends nothing that another client has.
LEMMA ReleaseStep ==
    ASSUME Good(tables), NEW m \in Mac, NEW ciaddr \in Named, Release(m, ciaddr),
           NEW c, c = CleanupExpiredState(tables)
    PROVE  /\ Good(tables') /\ Fresh(tables') /\ reply' = NoReply
           /\ \A a \in Ip :
                 /\ \/ tables'.ip_to_mac[a] = c.ip_to_mac[a]
                    \/ tables'.ip_to_mac[a] = None /\ c.ip_to_mac[a] = m
                 /\ \/ tables'.offered_mac_by_ip[a] = c.offered_mac_by_ip[a]
                    \/ tables'.offered_mac_by_ip[a] = None /\ c.offered_mac_by_ip[a] = m
<1>1. Good(c) /\ Fresh(c)
  BY CleanupFresh
<1>2. PICK ended : ended = {ReleasedIp(c, m, ciaddr)} \ {None}
  OBVIOUS
<1> DEFINE s2 == ReleaseOffers(ReleaseLeases(c, ended), ended)
           s3 == ReleaseOfferForMac(s2, m)
<1>3. /\ \A a \in ended : a \in Ip => c.ip_to_mac[a] = m
      /\ tables' = s3
      /\ reply' = NoReply
  <2>1. \A a \in Ip : a = c.mac_to_ip[m] => c.ip_to_mac[a] = m
    BY <1>1 DEF Good, Leases, Agree
  <2>2. \A a \in ended : a \in Ip => c.ip_to_mac[a] = m
    BY <1>2, <2>1 DEF ReleasedIp
  <2> QED BY <1>2, <2>2 DEF Release
<1>4. /\ Good(s2)
      /\ s2.declined_ip_until = c.declined_ip_until
      /\ \A a \in Ip :
            /\ s2.ip_to_mac[a] = IF a \in ended THEN None ELSE c.ip_to_mac[a]
            /\ s2.lease_expire_time[a]
                  = IF a \in ended THEN None ELSE c.lease_expire_time[a]
            /\ s2.offered_mac_by_ip[a]
                  = IF a \in ended THEN None ELSE c.offered_mac_by_ip[a]
            /\ s2.offer_expire_time[a]
                  = IF a \in ended THEN None ELSE c.offer_expire_time[a]
  BY <1>1, ReleaseBothFields
<1> HIDE DEF s2
<1>5. /\ Good(s3)
      /\ s3.ip_to_mac = s2.ip_to_mac
      /\ s3.lease_expire_time = s2.lease_expire_time
      /\ s3.declined_ip_until = s2.declined_ip_until
      /\ \A a \in Ip : s3.offered_mac_by_ip[a]
            = IF s2.offered_mac_by_ip[a] = m THEN None ELSE s2.offered_mac_by_ip[a]
      /\ \A a \in Ip : s3.offer_expire_time[a]
            = IF s2.offered_mac_by_ip[a] = m THEN None ELSE s2.offer_expire_time[a]
  <2>1. Good(s2)
    BY <1>4
  <2> QED BY <2>1, ReleaseOfferForMacFields
<1> HIDE DEF s3
<1>6. None # 0
  OBVIOUS
<1>7. Fresh(s3)
  BY <1>1, <1>4, <1>5, <1>6 DEF Fresh
<1>8. \A a \in ended : a \in Ip => c.offered_mac_by_ip[a] \in {None, m}
  BY <1>1, <1>3 DEF Good, NotShared
<1>9. \A a \in Ip :
          /\ \/ s3.ip_to_mac[a] = c.ip_to_mac[a]
             \/ s3.ip_to_mac[a] = None /\ c.ip_to_mac[a] = m
          /\ \/ s3.offered_mac_by_ip[a] = c.offered_mac_by_ip[a]
             \/ s3.offered_mac_by_ip[a] = None /\ c.offered_mac_by_ip[a] = m
  BY <1>3, <1>4, <1>5, <1>8
<1> QED BY <1>3, <1>5, <1>7, <1>9

\* A client's DECLINE ends no lease, and of the OFFERs only its own and that of
\* the address it names.
LEMMA DeclineStep ==
    ASSUME Good(tables), NEW m \in Mac, NEW option \in Named, Decline(m, option),
           NEW c, c = CleanupExpiredState(tables)
    PROVE  /\ Good(tables') /\ Fresh(tables') /\ reply' = NoReply
           /\ tables'.ip_to_mac = c.ip_to_mac
           /\ \A a \in Ip :
                 \/ tables'.offered_mac_by_ip[a] = c.offered_mac_by_ip[a]
                 \/ /\ tables'.offered_mac_by_ip[a] = None
                    /\ c.offered_mac_by_ip[a] = m \/ a = option
<1>1. Good(c) /\ Fresh(c)
  BY CleanupFresh
<1> DEFINE rest == ReleaseOfferForMac(c, m)
<1>2. /\ Good(rest)
      /\ rest.ip_to_mac = c.ip_to_mac
      /\ rest.lease_expire_time = c.lease_expire_time
      /\ rest.declined_ip_until = c.declined_ip_until
      /\ \A a \in Ip : rest.offered_mac_by_ip[a]
            = IF c.offered_mac_by_ip[a] = m THEN None ELSE c.offered_mac_by_ip[a]
      /\ \A a \in Ip : rest.offer_expire_time[a]
            = IF c.offered_mac_by_ip[a] = m THEN None ELSE c.offer_expire_time[a]
  BY <1>1, ReleaseOfferForMacFields
<1>3. /\ reply' = NoReply
      /\ tables' = IF option \in Pool
                   THEN [ReleaseOffers(rest, {option}) EXCEPT
                            !.declined_ip_until[option] = decline_timeout]
                   ELSE rest
  BY DEF Decline
<1> HIDE DEF rest
<1>4. Good(rest) /\ None # 0
  BY <1>2
<1>5. Fresh(rest)
  BY <1>1, <1>2, <1>4 DEF Fresh
<1>6. CASE option \notin Pool
  BY <1>2, <1>3, <1>5, <1>6
<1>7. CASE option \in Pool
  <2> DEFINE q == ReleaseOffers(rest, {option})
  <2>1. Good(q)
    BY <1>4, ReleaseOffersGood
  <2>2. /\ q.ip_to_mac = rest.ip_to_mac
        /\ q.lease_expire_time = rest.lease_expire_time
        /\ q.declined_ip_until = rest.declined_ip_until
        /\ \A a \in Ip : q.offered_mac_by_ip[a]
              = IF a \in {option} THEN None ELSE rest.offered_mac_by_ip[a]
        /\ \A a \in Ip : q.offer_expire_time[a]
              = IF a \in {option} THEN None ELSE rest.offer_expire_time[a]
    BY <1>4, ReleaseOffersFields
  <2>3. tables' = [q EXCEPT !.declined_ip_until[option] = decline_timeout]
    BY <1>3, <1>7
  <2> HIDE DEF q
  <2>4. option \in Ip
    BY <1>7, NoneIsNoKey
  <2>5. /\ tables' \in Tables
        /\ tables'.mac_to_ip = q.mac_to_ip
        /\ tables'.ip_to_mac = q.ip_to_mac
        /\ tables'.lease_expire_time = q.lease_expire_time
        /\ tables'.offered_ip_by_mac = q.offered_ip_by_mac
        /\ tables'.offered_mac_by_ip = q.offered_mac_by_ip
        /\ tables'.offer_expire_time = q.offer_expire_time
        /\ tables'.declined_ip_until
              = [q.declined_ip_until EXCEPT ![option] = decline_timeout]
    BY <2>1, <2>3, <2>4, TimerTypes DEF Good, Tables
  <2>6. \A a \in Ip : tables'.declined_ip_until[a]
              = IF a = option THEN decline_timeout ELSE q.declined_ip_until[a]
    BY <2>1, <2>5 DEF Good, Tables
  <2>7. Leases(tables') /\ Offers(tables') /\ NotShared(tables')
    BY <2>1, <2>5 DEF Good, Leases, Offers, NotShared
  <2>8. InPool(tables') /\ Clear(tables')
    BY <1>7, <2>1, <2>2, <2>5, <2>6 DEF Good, InPool, Clear
  <2>9. Fresh(tables')
    <3> SUFFICES ASSUME NEW a \in Ip
                 PROVE  /\ tables'.lease_expire_time[a] # 0
                        /\ tables'.offer_expire_time[a] # 0
                        /\ tables'.declined_ip_until[a] # 0
      BY DEF Fresh
    <3>1. /\ rest.lease_expire_time[a] # 0
          /\ rest.offer_expire_time[a] # 0
          /\ rest.declined_ip_until[a] # 0
      BY <1>5 DEF Fresh
    <3> QED BY <1>4, <2>2, <2>5, <2>6, <3>1, DurationAssumption, ZenonT(60)
  <2>10. \A a \in Ip :
            \/ tables'.offered_mac_by_ip[a] = c.offered_mac_by_ip[a]
            \/ /\ tables'.offered_mac_by_ip[a] = None
               /\ c.offered_mac_by_ip[a] = m \/ a = option
    BY <1>2, <2>2, <2>5
  <2> QED BY <1>2, <1>3, <2>2, <2>5, <2>7, <2>8, <2>9, <2>10 DEF Good
<1> QED BY <1>6, <1>7

\* The invariant is inductive.
LEMMA NextInv == Inv /\ [Next]_vars => Inv'
<1> SUFFICES ASSUME Inv, [Next]_vars
             PROVE  Inv'
  OBVIOUS
<1>1. Good(tables) /\ reply \in Replies
  BY DEF Inv
<1>2. ASSUME reply' = NoReply
      PROVE  reply' \in Replies /\ QuarantineIsRespected'
  BY <1>2 DEF NoReply, Replies, QuarantineIsRespected
<1>3. CASE Tick
  BY <1>1, <1>2, <1>3, TickGood DEF Inv, Tick
<1>4. CASE Unsupported
  BY <1>1, <1>2, <1>4, UnsupportedGood DEF Inv, Unsupported
<1>5. ASSUME NEW m \in Mac, Discover(m)
      PROVE  Inv'
  BY <1>1, <1>5, DiscoverStep DEF Inv
<1>6. ASSUME NEW m \in Mac, NEW for_us \in BOOLEAN, NEW option \in Named,
             NEW ciaddr \in Named, Request(m, for_us, option, ciaddr)
      PROVE  Inv'
  BY <1>1, <1>6, RequestStep DEF Inv
<1>7. ASSUME NEW m \in Mac, NEW ciaddr \in Named, Release(m, ciaddr)
      PROVE  Inv'
  BY <1>1, <1>2, <1>7, ReleaseStep DEF Inv
<1>8. ASSUME NEW m \in Mac, NEW option \in Named, Decline(m, option)
      PROVE  Inv'
  BY <1>1, <1>2, <1>8, DeclineStep DEF Inv
<1>9. CASE UNCHANGED vars
  BY <1>9 DEF Inv, vars, QuarantineIsRespected
<1> QED BY <1>3, <1>4, <1>5, <1>6, <1>7, <1>8, <1>9 DEF Next, Message

LEMMA Invariance == Spec => []Inv
BY InitInv, NextInv, PTL DEF Spec

-----------------------------------------------------------------------------
(***************************************************************************)
(* The theorems.                                                           *)
(***************************************************************************)

\* Whatever messages arrive in whatever order, the tables of the server keep
\* their types and its answers are those of DHCP (handle_dhcp).
THEOREM TypeCorrect == Spec => []TypeOK
<1>1. Inv => TypeOK
  BY DEF Inv, Good, TypeOK
<1> QED BY <1>1, Invariance, PTL

\* The lease tables are inverse to each other and every lease has its timer
\* (_commit_lease, _release_lease_for_ip, _cleanup_expired_leases).
THEOREM LeasesAlwaysAgree == Spec => []LeaseTablesAgree
<1>1. Inv => LeaseTablesAgree
  BY DEF Inv, Good, Leases, Agree, LeaseTablesAgree
<1> QED BY <1>1, Invariance, PTL

\* So are the OFFER tables (_reserve_offer_ip, _release_offer_for_ip,
\* _release_offer_for_mac, _cleanup_expired_offers).
THEOREM OffersAlwaysAgree == Spec => []OfferTablesAgree
<1>1. Inv => OfferTablesAgree
  BY DEF Inv, Good, Offers, Agree, OfferTablesAgree
<1> QED BY <1>1, Invariance, PTL

\* No address is ever leased to one client and reserved for another
\* (_get_ip_unavailable_reason, _validate_request_for_ack).
THEOREM AddressesNeverShared == Spec => []NoSharedAddress
<1>1. Inv => NoSharedAddress
  BY DEF Inv, Good, NotShared, NoSharedAddress
<1> QED BY <1>1, Invariance, PTL

\* No address outside the pool is ever leased, reserved or quarantined
\* (_is_in_pool).
THEOREM PoolIsAlwaysRespected == Spec => []OnlyPoolIsUsed
<1>1. Inv => OnlyPoolIsUsed
  BY DEF Inv, Good, InPool, OnlyPoolIsUsed
<1> QED BY <1>1, Invariance, PTL

\* No answer ever hands out an address under quarantine
\* (_get_ip_unavailable_reason, _handle_decline).
THEOREM QuarantineIsAlwaysRespected == Spec => []QuarantineIsRespected
<1>1. Inv => QuarantineIsRespected
  BY DEF Inv
<1> QED BY <1>1, Invariance, PTL

-----------------------------------------------------------------------------
(***************************************************************************)
(* What a step may do to the leases and OFFERs that are still running.     *)
(***************************************************************************)

\* The entries that are running are those the clean-up leaves.
LEMMA LiveIsCleaned ==
    ASSUME Good(tables), NEW c, c = CleanupExpiredState(tables)
    PROVE  \A a \in Ip : LiveLeases[a] = c.ip_to_mac[a]
                         /\ LiveOffers[a] = c.offered_mac_by_ip[a]
<1>1. \A a \in Ip :
         /\ c.ip_to_mac[a] = IF tables.lease_expire_time[a] = 0 THEN None
                             ELSE tables.ip_to_mac[a]
         /\ c.offered_mac_by_ip[a] = IF tables.offer_expire_time[a] = 0 THEN None
                                     ELSE tables.offered_mac_by_ip[a]
  BY CleanupGood
<1> SUFFICES ASSUME NEW a \in Ip
             PROVE  /\ LiveLeases[a] = c.ip_to_mac[a]
                    /\ LiveOffers[a] = c.offered_mac_by_ip[a]
  OBVIOUS
<1>2. /\ tables.lease_expire_time[a] = None <=> tables.ip_to_mac[a] = None
      /\ tables.offer_expire_time[a] = None <=> tables.offered_mac_by_ip[a] = None
  BY DEF Good, Leases, Offers, Agree
<1> QED BY <1>1, <1>2 DEF LiveLeases, LiveOffers

\* Right after a message every entry is running.
LEMMA LiveIsFresh ==
    ASSUME Good(tables'), Fresh(tables')
    PROVE  \A a \in Ip : LiveLeases'[a] = tables'.ip_to_mac[a]
                         /\ LiveOffers'[a] = tables'.offered_mac_by_ip[a]
<1> SUFFICES ASSUME NEW a \in Ip
             PROVE  /\ LiveLeases'[a] = tables'.ip_to_mac[a]
                    /\ LiveOffers'[a] = tables'.offered_mac_by_ip[a]
  OBVIOUS
<1>1. tables'.lease_expire_time[a] # 0 /\ tables'.offer_expire_time[a] # 0
  BY DEF Fresh
<1>2. /\ tables'.lease_expire_time[a] = None <=> tables'.ip_to_mac[a] = None
      /\ tables'.offer_expire_time[a] = None <=> tables'.offered_mac_by_ip[a] = None
  BY DEF Good, Leases, Offers, Agree
<1> QED BY <1>1, <1>2 DEF LiveLeases, LiveOffers

\* No message of one client ends or transfers the running lease of another
\* (_handle_request, _handle_release, _handle_decline).
THEOREM LeasesAlwaysStable == Spec => LeasesAreStable
<1> DEFINE Kept(ip) ==
              LET owner == tables.ip_to_mac[ip]
              IN  tables.lease_expire_time[ip] \notin {None, 0} =>
                     \/ tables'.ip_to_mac[ip] = owner
                     \/ \E ciaddr \in Named : Release(owner, ciaddr)
                     \/ reply'.type = "ACK" /\ reply'.mac = owner
<1>1. Inv /\ [Next]_vars => [\A ip \in Ip : Kept(ip)]_vars
  <2> SUFFICES ASSUME Inv, Next, NEW ip \in Ip,
                      tables.lease_expire_time[ip] \notin {None, 0}
               PROVE  LET owner == tables.ip_to_mac[ip]
                      IN  \/ tables'.ip_to_mac[ip] = owner
                          \/ \E ciaddr \in Named : Release(owner, ciaddr)
                          \/ reply'.type = "ACK" /\ reply'.mac = owner
    OBVIOUS
  <2> DEFINE owner == tables.ip_to_mac[ip]
             c == CleanupExpiredState(tables)
  <2>1. Good(tables)
    BY DEF Inv
  <2>2. c.ip_to_mac[ip] = owner /\ owner # None
    <3>1. c.ip_to_mac[ip] = owner
      BY <2>1, CleanupGood
    <3>2. owner # None
      BY <2>1 DEF Good, Leases, Agree
    <3> QED BY <3>1, <3>2
  <2>3. CASE Tick
    BY <2>1, <2>3, TickGood
  <2>4. CASE Unsupported
    BY <2>2, <2>4 DEF Unsupported
  <2>5. ASSUME NEW m \in Mac, Discover(m)
        PROVE  tables'.ip_to_mac[ip] = owner
    BY <2>1, <2>2, <2>5, DiscoverStep
  <2>6. ASSUME NEW m \in Mac, NEW for_us \in BOOLEAN, NEW option \in Named,
               NEW ciaddr \in Named, Request(m, for_us, option, ciaddr)
        PROVE  \/ tables'.ip_to_mac[ip] = owner
               \/ reply'.type = "ACK" /\ reply'.mac = owner
    <3> HIDE DEF c, owner
    <3>1. CASE tables' = c
      BY <2>2, <3>1
    <3>2. CASE \E x \in Pool :
                  /\ IsNotLeasedToOther(c, x, m)
                  /\ reply' = Answer("ACK", m, x)
                  /\ \A a \in Ip : tables'.ip_to_mac[a]
                                      = IF a = x THEN m
                                        ELSE IF c.ip_to_mac[a] = m THEN None
                                        ELSE c.ip_to_mac[a]
      BY <2>2, <3>2 DEF IsNotLeasedToOther, Answer
    <3>3. c = CleanupExpiredState(tables)
      BY DEF c
    <3> QED BY <2>1, <2>6, <3>1, <3>2, <3>3, RequestStep
  <2>7. ASSUME NEW m \in Mac, NEW ciaddr \in Named, Release(m, ciaddr)
        PROVE  tables'.ip_to_mac[ip] = owner \/ m = owner
    BY <2>1, <2>2, <2>7, ReleaseStep
  <2>8. ASSUME NEW m \in Mac, NEW option \in Named, Decline(m, option)
        PROVE  tables'.ip_to_mac[ip] = owner
    BY <2>1, <2>2, <2>8, DeclineStep
  <2> QED BY <2>3, <2>4, <2>5, <2>6, <2>7, <2>8 DEF Next, Message
<1> QED BY <1>1, Invariance, PTL DEF Spec, LeasesAreStable

\* A running OFFER ends early only when its client takes it up or gives it up,
\* or its address is declined (_pick_offer_ip, _commit_lease, _handle_release,
\* _handle_decline).
THEOREM OffersAlwaysStable == Spec => OffersAreStable
<1> DEFINE Kept(ip) ==
              LET owner == tables.offered_mac_by_ip[ip]
              IN  tables.offer_expire_time[ip] \notin {None, 0} =>
                     \/ tables'.offered_mac_by_ip[ip] = owner
                     \/ \E ciaddr \in Named : Release(owner, ciaddr)
                     \/ reply' = Answer("ACK", owner, ip)
                     \/ \E m \in Mac, option \in Named :
                           Decline(m, option) /\ (m = owner \/ option = ip)
<1>1. Inv /\ [Next]_vars => [\A ip \in Ip : Kept(ip)]_vars
  <2> SUFFICES ASSUME Inv, Next, NEW ip \in Ip,
                      tables.offer_expire_time[ip] \notin {None, 0}
               PROVE  LET owner == tables.offered_mac_by_ip[ip]
                      IN  \/ tables'.offered_mac_by_ip[ip] = owner
                          \/ \E ciaddr \in Named : Release(owner, ciaddr)
                          \/ reply' = Answer("ACK", owner, ip)
                          \/ \E m \in Mac, option \in Named :
                                Decline(m, option) /\ (m = owner \/ option = ip)
    OBVIOUS
  <2> DEFINE owner == tables.offered_mac_by_ip[ip]
             c == CleanupExpiredState(tables)
  <2>1. Good(tables)
    BY DEF Inv
  <2>2. c.offered_mac_by_ip[ip] = owner /\ owner # None
    <3>1. c.offered_mac_by_ip[ip] = owner
      BY <2>1, CleanupGood
    <3>2. owner # None
      BY <2>1 DEF Good, Offers, Agree
    <3> QED BY <3>1, <3>2
  <2>3. CASE Tick
    BY <2>1, <2>3, TickGood
  <2>4. CASE Unsupported
    BY <2>2, <2>4 DEF Unsupported
  <2>5. ASSUME NEW m \in Mac, Discover(m)
        PROVE  tables'.offered_mac_by_ip[ip] = owner
    <3> HIDE DEF c, owner
    <3>1. CASE \A a \in Ip : tables'.offered_mac_by_ip[a] = c.offered_mac_by_ip[a]
      BY <2>2, <3>1
    <3>2. CASE \E x \in Pool :
                  /\ IsNotOfferedToOther(c, x, m)
                  /\ \A a \in Ip : tables'.offered_mac_by_ip[a]
                                      = IF a = x THEN m ELSE c.offered_mac_by_ip[a]
      BY <2>2, <3>2 DEF IsNotOfferedToOther
    <3>3. c = CleanupExpiredState(tables)
      BY DEF c
    <3> QED BY <2>1, <2>5, <3>1, <3>2, <3>3, DiscoverStep
  <2>6. ASSUME NEW m \in Mac, NEW for_us \in BOOLEAN, NEW option \in Named,
               NEW ciaddr \in Named, Request(m, for_us, option, ciaddr)
        PROVE  \/ tables'.offered_mac_by_ip[ip] = owner
               \/ reply' = Answer("ACK", owner, ip)
    <3> HIDE DEF c, owner
    <3>1. CASE tables' = c
      BY <2>2, <3>1
    <3>2. CASE \E x \in Pool :
                  /\ IsNotOfferedToOther(c, x, m)
                  /\ reply' = Answer("ACK", m, x)
                  /\ \A a \in Ip : tables'.offered_mac_by_ip[a]
                                      = IF a = x THEN None ELSE c.offered_mac_by_ip[a]
      BY <2>2, <3>2 DEF IsNotOfferedToOther
    <3>3. c = CleanupExpiredState(tables)
      BY DEF c
    <3> QED BY <2>1, <2>6, <3>1, <3>2, <3>3, RequestStep
  <2>7. ASSUME NEW m \in Mac, NEW ciaddr \in Named, Release(m, ciaddr)
        PROVE  tables'.offered_mac_by_ip[ip] = owner \/ m = owner
    BY <2>1, <2>2, <2>7, ReleaseStep
  <2>8. ASSUME NEW m \in Mac, NEW option \in Named, Decline(m, option)
        PROVE  tables'.offered_mac_by_ip[ip] = owner \/ m = owner \/ option = ip
    <3>1. c = CleanupExpiredState(tables)
      OBVIOUS
    <3> HIDE DEF c, owner
    <3>2. \A a \in Ip :
             \/ tables'.offered_mac_by_ip[a] = c.offered_mac_by_ip[a]
             \/ c.offered_mac_by_ip[a] = m \/ a = option
      BY <2>1, <2>8, <3>1, DeclineStep
    <3> QED BY <2>2, <3>2
  <2> QED BY <2>3, <2>4, <2>5, <2>6, <2>7, <2>8 DEF Next, Message
<1> QED BY <1>1, Invariance, PTL DEF Spec, OffersAreStable

-----------------------------------------------------------------------------
(***************************************************************************)
(* The server implements the abstract allocation.                          *)
(***************************************************************************)

\* Running leases and OFFERs that only end are freed.
LEMMA FreeStep ==
    ASSUME \A a \in Ip : /\ LiveLeases'[a] \in {LiveLeases[a], None}
                         /\ LiveOffers'[a] \in {LiveOffers[a], None}
    PROVE  Allocation!Next
<1>1. PICK L \in SUBSET Ip : L = {a \in Ip : LiveLeases'[a] = None}
  OBVIOUS
<1>2. PICK O \in SUBSET Ip : O = {a \in Ip : LiveOffers'[a] = None}
  OBVIOUS
<1>3. LiveLeases' = [a \in Ip |-> IF a \in L THEN None ELSE LiveLeases[a]]
  <2>1. LiveLeases' = [a \in Ip |-> LiveLeases'[a]]
    BY DEF LiveLeases
  <2> QED BY <1>1, <2>1
<1>4. LiveOffers' = [a \in Ip |-> IF a \in O THEN None ELSE LiveOffers[a]]
  <2>1. LiveOffers' = [a \in Ip |-> LiveOffers'[a]]
    BY DEF LiveOffers
  <2> QED BY <1>2, <2>1
<1>5. Allocation!Free(L, O)
  BY <1>3, <1>4 DEF Allocation!Free
<1> QED BY <1>5 DEF Allocation!Next

\* Every step of the server is a step of the allocation (handle_dhcp).
LEMMA StepImplements ==
    ASSUME Inv, Inv', Next
    PROVE  Allocation!Next
<1>1. PICK c : c = CleanupExpiredState(tables)
  OBVIOUS
<1>2. Good(tables) /\ Good(tables')
  BY DEF Inv
<1>3. Good(c) /\ Fresh(c)
  BY <1>1, <1>2, CleanupFresh
<1>4. \A a \in Ip : LiveLeases[a] = c.ip_to_mac[a] /\ LiveOffers[a] = c.offered_mac_by_ip[a]
  BY <1>1, <1>2, LiveIsCleaned
<1>5. Fresh(tables') => \A a \in Ip : /\ LiveLeases'[a] = tables'.ip_to_mac[a]
                                      /\ LiveOffers'[a] = tables'.offered_mac_by_ip[a]
  BY <1>2, LiveIsFresh
<1>6. CASE Tick
  <2>1. ASSUME NEW a \in Ip
        PROVE  /\ LiveLeases'[a] \in {LiveLeases[a], None}
               /\ LiveOffers'[a] \in {LiveOffers[a], None}
    <3>1. /\ tables'.ip_to_mac = tables.ip_to_mac
          /\ tables'.offered_mac_by_ip = tables.offered_mac_by_ip
      BY <1>2, <1>6, TickGood
    <3>2. /\ tables'.lease_expire_time = Elapsed(tables.lease_expire_time)
          /\ tables'.offer_expire_time = Elapsed(tables.offer_expire_time)
      BY <1>2, <1>6 DEF Tick, Good, Tables
    <3>3. /\ tables.lease_expire_time[a] \in {None, 0} =>
                tables'.lease_expire_time[a] \in {None, 0}
          /\ tables.offer_expire_time[a] \in {None, 0} =>
                tables'.offer_expire_time[a] \in {None, 0}
      BY <3>2 DEF Elapsed
    <3> QED BY <3>1, <3>3 DEF LiveLeases, LiveOffers
  <2> QED BY <2>1, FreeStep
<1>7. CASE Unsupported
  <2>1. tables' = c
    BY <1>1, <1>7 DEF Unsupported
  <2>2. \A a \in Ip : LiveLeases'[a] = LiveLeases[a] /\ LiveOffers'[a] = LiveOffers[a]
    BY <1>3, <1>4, <1>5, <2>1
  <2> QED BY <2>2, FreeStep
<1>8. ASSUME NEW m \in Mac, Discover(m)
      PROVE  Allocation!Next
  <2>1. /\ Fresh(tables') /\ tables'.ip_to_mac = c.ip_to_mac
        /\ \/ \A a \in Ip : tables'.offered_mac_by_ip[a] = c.offered_mac_by_ip[a]
           \/ \E ip \in Pool :
                 /\ IsNotLeasedToOther(c, ip, m) /\ IsNotOfferedToOther(c, ip, m)
                 /\ c.offered_ip_by_mac[m] = None
                 /\ \A a \in Ip : tables'.offered_mac_by_ip[a]
                       = IF a = ip THEN m ELSE c.offered_mac_by_ip[a]
    BY <1>1, <1>2, <1>8, DiscoverStep
  <2>2. \A a \in Ip : LiveLeases'[a] = LiveLeases[a]
    BY <1>4, <1>5, <2>1
  <2>3. CASE \A a \in Ip : tables'.offered_mac_by_ip[a] = c.offered_mac_by_ip[a]
    <3>1. \A a \in Ip : LiveOffers'[a] = LiveOffers[a]
      BY <1>4, <1>5, <2>1, <2>3
    <3> QED BY <2>2, <3>1, FreeStep
  <2>4. ASSUME NEW ip \in Pool,
               IsNotLeasedToOther(c, ip, m), IsNotOfferedToOther(c, ip, m),
               c.offered_ip_by_mac[m] = None,
               \A a \in Ip : tables'.offered_mac_by_ip[a]
                                = IF a = ip THEN m ELSE c.offered_mac_by_ip[a]
        PROVE  Allocation!Next
    <3>1. ip \in Ip
      BY NoneIsNoKey
    <3>2. \A a \in Ip : c.offered_mac_by_ip[a] # m
      BY <1>3, <2>4, NoneIsNoKey DEF Good, Offers, Agree
    <3>3. Allocation!FreeFor(m, ip)
      BY <1>4, <2>4, <3>1
      DEF Allocation!FreeFor, IsNotLeasedToOther, IsNotOfferedToOther
    <3>4. \A a \in Ip : LiveOffers'[a]
                           = IF a = ip THEN m
                             ELSE IF LiveOffers[a] = m THEN None ELSE LiveOffers[a]
      BY <1>4, <1>5, <2>1, <2>4, <3>2
    <3>5. LiveOffers' = Allocation!OnlyFor(LiveOffers, m, ip)
      <4>1. LiveOffers' = [a \in Ip |-> LiveOffers'[a]]
        BY DEF LiveOffers
      <4> QED BY <3>4, <4>1 DEF Allocation!OnlyFor
    <3>6. LiveLeases' = LiveLeases
      <4>1. /\ LiveLeases = [a \in Ip |-> LiveLeases[a]]
            /\ LiveLeases' = [a \in Ip |-> LiveLeases'[a]]
        BY DEF LiveLeases
      <4> QED BY <2>2, <4>1
    <3>7. Allocation!Offer(m, ip)
      BY <3>3, <3>5, <3>6 DEF Allocation!Offer
    <3> QED BY <3>1, <3>7 DEF Allocation!Next
  <2> QED BY <2>1, <2>3, <2>4
<1>9. ASSUME NEW m \in Mac, NEW for_us \in BOOLEAN, NEW option \in Named,
             NEW ciaddr \in Named, Request(m, for_us, option, ciaddr)
      PROVE  Allocation!Next
  <2>1. /\ Fresh(tables')
        /\ \/ tables' = c
           \/ \E ip \in Pool :
                 /\ IsNotLeasedToOther(c, ip, m) /\ IsNotOfferedToOther(c, ip, m)
                 /\ \A a \in Ip : c.offered_mac_by_ip[a] = m => a = ip
                 /\ reply' = Answer("ACK", m, ip)
                 /\ \A a \in Ip : /\ tables'.ip_to_mac[a]
                                        = IF a = ip THEN m
                                          ELSE IF c.ip_to_mac[a] = m THEN None
                                          ELSE c.ip_to_mac[a]
                                  /\ tables'.offered_mac_by_ip[a]
                                        = IF a = ip THEN None
                                          ELSE c.offered_mac_by_ip[a]
    BY <1>1, <1>2, <1>9, RequestStep
  <2>2. CASE tables' = c
    <3>1. \A a \in Ip : LiveLeases'[a] = LiveLeases[a] /\ LiveOffers'[a] = LiveOffers[a]
      BY <1>4, <1>5, <2>1, <2>2
    <3> QED BY <3>1, FreeStep
  <2>3. ASSUME NEW ip \in Pool,
               IsNotLeasedToOther(c, ip, m), IsNotOfferedToOther(c, ip, m),
               \A a \in Ip : c.offered_mac_by_ip[a] = m => a = ip,
               \A a \in Ip : /\ tables'.ip_to_mac[a]
                                   = IF a = ip THEN m
                                     ELSE IF c.ip_to_mac[a] = m THEN None
                                     ELSE c.ip_to_mac[a]
                             /\ tables'.offered_mac_by_ip[a]
                                   = IF a = ip THEN None ELSE c.offered_mac_by_ip[a]
        PROVE  Allocation!Next
    <3>1. ip \in Ip
      BY NoneIsNoKey
    <3>2. Allocation!FreeFor(m, ip)
      BY <1>4, <2>3, <3>1
      DEF Allocation!FreeFor, IsNotLeasedToOther, IsNotOfferedToOther
    <3>3. \A a \in Ip : LiveLeases'[a]
                           = IF a = ip THEN m
                             ELSE IF LiveLeases[a] = m THEN None ELSE LiveLeases[a]
      BY <1>4, <1>5, <2>1, <2>3
    <3>4. \A a \in Ip : LiveOffers'[a]
                           = IF LiveOffers[a] = m THEN None ELSE LiveOffers[a]
      BY <1>4, <1>5, <2>1, <2>3, ZenonT(60) DEF IsNotOfferedToOther
    <3>5. LiveLeases' = Allocation!OnlyFor(LiveLeases, m, ip)
      <4>1. LiveLeases' = [a \in Ip |-> LiveLeases'[a]]
        BY DEF LiveLeases
      <4> QED BY <3>3, <4>1 DEF Allocation!OnlyFor
    <3>6. LiveOffers' = [a \in Ip |-> IF LiveOffers[a] = m THEN None ELSE LiveOffers[a]]
      <4>1. LiveOffers' = [a \in Ip |-> LiveOffers'[a]]
        BY DEF LiveOffers
      <4> QED BY <3>4, <4>1
    <3>7. Allocation!Grant(m, ip)
      BY <3>2, <3>5, <3>6 DEF Allocation!Grant
    <3> QED BY <3>1, <3>7 DEF Allocation!Next
  <2> QED BY <2>1, <2>2, <2>3
<1>10. ASSUME NEW m \in Mac, NEW ciaddr \in Named, Release(m, ciaddr)
       PROVE  Allocation!Next
  <2>1. /\ Fresh(tables')
        /\ \A a \in Ip : /\ tables'.ip_to_mac[a] \in {c.ip_to_mac[a], None}
                         /\ tables'.offered_mac_by_ip[a] \in {c.offered_mac_by_ip[a], None}
    BY <1>1, <1>2, <1>10, ReleaseStep, ZenonT(60)
  <2>2. \A a \in Ip : /\ LiveLeases'[a] \in {LiveLeases[a], None}
                      /\ LiveOffers'[a] \in {LiveOffers[a], None}
    BY <1>4, <1>5, <2>1
  <2> QED BY <2>2, FreeStep
<1>11. ASSUME NEW m \in Mac, NEW option \in Named, Decline(m, option)
       PROVE  Allocation!Next
  <2>1. /\ Fresh(tables')
        /\ \A a \in Ip : /\ tables'.ip_to_mac[a] = c.ip_to_mac[a]
                         /\ tables'.offered_mac_by_ip[a] \in {c.offered_mac_by_ip[a], None}
    BY <1>1, <1>2, <1>11, DeclineStep
  <2>2. \A a \in Ip : /\ LiveLeases'[a] \in {LiveLeases[a], None}
                      /\ LiveOffers'[a] \in {LiveOffers[a], None}
    BY <1>4, <1>5, <2>1
  <2> QED BY <2>2, FreeStep
<1> QED BY <1>6, <1>7, <1>8, <1>9, <1>10, <1>11 DEF Next, Message

\* The server implements AddressAllocation: an address is offered or leased to
\* one client at a time and passes to another only after it has become free
\* (handle_dhcp).
THEOREM ServerAllocates == Spec => ImplementsAllocation
<1>1. Init => Allocation!Init
  BY DEF Init, Allocation!Init, LiveLeases, LiveOffers
<1>2. Inv /\ Inv' /\ [Next]_vars => [Allocation!Next]_(Allocation!vars)
  <2>1. UNCHANGED vars => UNCHANGED Allocation!vars
    BY DEF vars, Allocation!vars, LiveLeases, LiveOffers
  <2> QED BY <2>1, StepImplements
<1> QED BY <1>1, <1>2, Invariance, PTL DEF Spec, ImplementsAllocation, Allocation!Spec

=============================================================================
