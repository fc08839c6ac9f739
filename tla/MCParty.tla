------------------------------ MODULE MCParty ------------------------------
(***************************************************************************)
(* Instances of Party for TLC: players are alike, but for those who are    *)
(* exempt, and so are addresses.                                           *)
(***************************************************************************)
EXTENDS Party

Symmetry == Permutations(Players \ Exempt) \cup Permutations(Parties)

\* Shared experience and the channel of a party affect nothing else: a channel is
\* explored where nobody shares or fights and exempt players lead no party and are not
\* invited while they are in one, shared experience where no other party is.
Plain(P) == ~parties[P].active /\ ~parties[P].enabled /\ parties[P].points = {}
OneChannel ==
    /\ Cardinality(channels) = 1
    /\ \A P \in Parties : Plain(P) /\ parties[P].leader \notin Exempt
    /\ \A p \in Exempt : party[p] # NoParty => invitations[p] = {}
OneSharing == channels = {} /\ \A P, Q \in Parties : P = Q \/ Plain(P) \/ ~Exists(Q)
ChannelOrSharing == OneChannel \/ OneSharing
=============================================================================
