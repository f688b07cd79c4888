----------------------------- MODULE NatSessions -----------------------------
(***************************************************************************)
(* What the ICMP translation of the gateway promises: a session per remote *)
(* host and identifier, owned by the internal host that sent last, over    *)
(* after one answer or exactly Timeout seconds, whichever comes first.     *)
(***************************************************************************)
EXTENDS Naturals

CONSTANTS
    Host,      \* internal addresses
    Remote,    \* external addresses
    Id,        \* ICMP identifiers
    Timeout,   \* the life of a session
    None

Key == Remote \X Id

VARIABLES
    session,   \* session[k] = <<owner, seconds left>>, None when there is none
    heard      \* what the last step gave an internal host: <<host, key>> or None

vars == <<session, heard>>

Init ==
    /\ session = [k \in Key |-> None]
    /\ heard = None

\* Host h sends to the remote of key k.
Open(h, k) ==
    /\ session' = [session EXCEPT ![k] = <<h, Timeout>>]
    /\ heard' = None

\* A packet from the remote of key k ends the session, and reaches the owner
\* unless the network no longer knows how.
Answer(k) ==
    /\ session[k] # None
    /\ session' = [session EXCEPT ![k] = None]
    /\ heard' \in {None, <<session[k][1], k>>}

\* Anything else that happens gives no host a packet and ends no session.
Other == UNCHANGED session /\ heard' = None

\* A second passes.
Tick ==
    /\ session' = [k \in Key |->
           IF session[k] = None \/ session[k][2] = 1 THEN None
           ELSE <<session[k][1], session[k][2] - 1>>]
    /\ heard' = None

Next ==
    \/ \E k \in Key : Answer(k) \/ \E h \in Host : Open(h, k)
    \/ Tick
    \/ Other

Spec == Init /\ [][Next]_vars

=============================================================================
