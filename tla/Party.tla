------------------------------- MODULE Party -------------------------------
(***************************************************************************)
(* Parties (party.cpp), the requests that change them (game.cpp), the      *)
(* players' side of membership and invitations (player.cpp) and the party  *)
(* channel of the chat (chat.cpp). The dispatcher executes one request     *)
(* after the other, so each action is a whole request. Parties are known   *)
(* by their addresses, which the allocator gives out again. Levels, places *)
(* and times enter only as the outcome of the test that they decide.       *)
(***************************************************************************)
EXTENDS SequencesExt

CONSTANTS
    Players,
    NoPlayer,         \* a null Player*
    Exempt,           \* players with PlayerFlag_NotGainInFight
    Parties,          \* bound: the addresses that Party objects can have
    NoParty           \* a null Party*

ASSUME PartyConstants ==
    /\ NoPlayer \notin Players
    /\ Exempt \subseteq Players
    /\ NoParty \notin Parties

VARIABLES
    online,           \* the players in the game
    party,            \* Player::party
    invitations,      \* Player::invitePartyList
    parties,          \* the Party object at each address
    channels,         \* the parties that Chat::m_partyChannels has a channel for
    users,            \* ChatChannel::m_users of that channel
    askedSelf,        \* history: <<player, party>> of leaders who invited themselves
    fault             \* a party was used after its deletion: undefined from here

vars == <<online, party, invitations, parties, channels, users, askedSelf, fault>>
partyVars == <<party, invitations, parties, askedSelf>>

\* A place in memory without a Party.
Deleted ==
    [leader |-> NoPlayer, members |-> <<>>, invited |-> {}, points |-> {},
     active |-> FALSE, enabled |-> FALSE]

NewParty(p) == [Deleted EXCEPT !.leader = p]

Exists(P) == parties[P] # Deleted

Init ==
    /\ online = {}
    /\ party = [p \in Players |-> NoParty]
    /\ invitations = [p \in Players |-> {}]
    /\ parties = [P \in Parties |-> Deleted]
    /\ channels = {}
    /\ users = [P \in Parties |-> {}]
    /\ askedSelf = {}
    /\ fault = FALSE

-----------------------------------------------------------------------------
(* What happens to a Party object p, as a value.                           *)

People(p) == {p.leader} \cup ToSet(p.members)

\* disbandParty(): nobody but the leader is left.
IsEmpty(p) == p.members = <<>> /\ p.invited = {}

\* The players of p who must have fought or healed for the party.
Obliged(p) == People(p) \ Exempt

\* canEnableSharedExperience: able stands for the tests of levels, places and times.
CanShare(p, able) == p.members # <<>> /\ Obliged(p) \subseteq p.points /\ able

\* Mutant of Updated: it only ever enables.
UpdatedUpwards(p, able) ==
    IF p.active /\ CanShare(p, able) THEN [p EXCEPT !.enabled = TRUE] ELSE p

\* updateSharedExperience.
Updated(p, able) ==
    IF p.active THEN [p EXCEPT !.enabled = CanShare(p, able)] ELSE p

\* std::find and erase: nobody is in the list twice.
Erased(s, player) ==
    IF player \in ToSet(s)
    THEN RemoveAt(s, CHOOSE i \in DOMAIN s : s[i] = player)
    ELSE s

\* Mutant of PassedTo: the new leader stays in the list of members.
PassedToMember(p, player) ==
    [p EXCEPT !.leader = player, !.members = <<p.leader>> \o p.members]

\* passPartyLeadership: the old leader becomes the first member.
PassedTo(p, player) ==
    [p EXCEPT !.leader = player, !.members = <<p.leader>> \o Erased(p.members, player)]

\* leaveParty: the last member leaves no leader behind when nobody is invited.
MissingLeader(p, player) ==
    /\ player = p.leader
    /\ p.members = <<>> \/ (Len(p.members) = 1 /\ p.invited = {})

Inherited(p, player) ==
    IF player = p.leader /\ ~MissingLeader(p, player)
    THEN PassedTo(p, Head(p.members))
    ELSE p

Without(p, player, able) ==
    Updated([Inherited(p, player) EXCEPT !.members = Erased(@, player),
                                         !.invited = @ \ {player},
                                         !.points = @ \ {player}], able)

-----------------------------------------------------------------------------
(* The same on all parties: a world is a record of what the requests       *)
(* change.                                                                 *)

World == [party |-> party, invitations |-> invitations, parties |-> parties]

Becomes(w) ==
    /\ party' = w.party
    /\ invitations' = w.invitations
    /\ parties' = w.parties

Disbanded(w, P) ==
    LET p == w.parties[P] IN
    [party |-> [q \in Players |-> IF q \in People(p) THEN NoParty ELSE w.party[q]],
     invitations |-> [q \in Players |-> w.invitations[q] \ (IF q \in p.invited THEN {P} ELSE {})],
     parties |-> [w.parties EXCEPT ![P] = Deleted]]

IfEmpty(w, P) == IF IsEmpty(w.parties[P]) THEN Disbanded(w, P) ELSE w

\* Party::removeInvite, for a player who is invited.
Uninvited(w, player, P) ==
    IfEmpty([w EXCEPT !.parties[P].invited = @ \ {player},
                      !.invitations[player] = @ \ {P}], P)

\* Party::leaveParty: the party, then the player, and what is left may disband.
Departed(w, player, able) ==
    LET P == w.party[player]
        left == [w EXCEPT !.parties[P] = Without(@, player, able),
                          !.party[player] = NoParty]
    IN  IF MissingLeader(w.parties[P], player) THEN Disbanded(left, P) ELSE IfEmpty(left, P)

\* Player::clearPartyInvitations: the player's list is cleared before its parties
\* are asked, and each of them only drops the player when it knows the invitation.
Declined(w, player) ==
    LET knows == {P \in w.invitations[player] : player \in w.parties[P].invited}
        gone == {P \in knows : w.parties[P].members = <<>> /\ w.parties[P].invited = {player}}
    IN  [party |-> [q \in Players |-> IF w.party[q] \in gone THEN NoParty ELSE w.party[q]],
         invitations |-> [w.invitations EXCEPT ![player] = {}],
         parties |-> [P \in Parties |->
                         IF P \in gone THEN Deleted
                         ELSE IF P \in knows
                         THEN [w.parties[P] EXCEPT !.invited = @ \ {player}]
                         ELSE w.parties[P]]]

-----------------------------------------------------------------------------
(* The requests of players.                                                *)

InParty(player) == player \in online /\ party[player] # NoParty

Inviting(leader, player) ==
    /\ party[leader] # NoParty
    /\ parties[party[leader]].leader = leader
    /\ player \in parties[party[leader]].invited

\* playerInviteToParty: a player without a party founds one. Nothing keeps a
\* player who has none from inviting himself.
InviteToParty(player, invited) ==
    /\ {player, invited} \subseteq online
    /\ party[invited] = NoParty
    /\ \E P \in Parties :
          /\ IF party[player] = NoParty
             THEN /\ ~Exists(P)
                  /\ parties' = [parties EXCEPT ![P] = [NewParty(player) EXCEPT !.invited = {invited}]]
                  /\ party' = [party EXCEPT ![player] = P]
             ELSE /\ P = party[player]
                  /\ parties[P].leader = player
                  /\ invited \notin parties[P].invited
                  /\ parties' = [parties EXCEPT ![P].invited = @ \cup {invited}]
                  /\ UNCHANGED party
          /\ invitations' = [invitations EXCEPT ![invited] = @ \cup {P}]
          /\ askedSelf' = IF player = invited THEN askedSelf \cup {<<player, P>>} ELSE askedSelf
    /\ UNCHANGED <<online, channels, users, fault>>

\* playerJoinParty and Party::joinParty.
JoinParty(player, leader) ==
    /\ {player, leader} \subseteq online
    /\ Inviting(leader, player)
    /\ party[player] = NoParty
    /\ \E able \in BOOLEAN :
          LET P == party[leader]
              p == parties[P]
          IN
          /\ parties' = [parties EXCEPT ![P] =
                Updated([p EXCEPT !.members = Append(@, player), !.invited = @ \ {player}], able)]
          /\ party' = [party EXCEPT ![player] = P]
          /\ invitations' = [invitations EXCEPT ![player] = @ \ {P}]
    /\ UNCHANGED <<online, channels, users, askedSelf, fault>>

RevokeInvitation(player, invited) ==
    /\ {player, invited} \subseteq online
    /\ Inviting(player, invited)
    /\ Becomes(Uninvited(World, invited, party[player]))
    /\ UNCHANGED <<online, channels, users, askedSelf, fault>>

PassLeadership(player, newLeader) ==
    /\ InParty(player)
    /\ newLeader \in online
    /\ parties[party[player]].leader = player
    /\ newLeader \in ToSet(parties[party[player]].members)
    /\ \E able \in BOOLEAN :
          parties' = [parties EXCEPT ![party[player]] = Updated(PassedTo(@, newLeader), able)]
    /\ UNCHANGED <<online, party, invitations, channels, users, askedSelf, fault>>

\* playerLeaveParty, for a player who is not in a fight. The player is asked to
\* close the party channel when his party is already NULL, so that
\* removeUserFromChannel finds no channel and he stays among its users.
LeaveParty(player) ==
    /\ InParty(player)
    /\ \E able \in BOOLEAN : Becomes(Departed(World, player, able))
    /\ UNCHANGED <<online, channels, users, askedSelf, fault>>

\* playerEnableSharedPartyExperience.
SetSharedExperience(player, on) ==
    /\ InParty(player)
    /\ parties[party[player]].leader = player
    /\ parties[party[player]].active # on
    /\ \E able \in BOOLEAN :
          parties' = [parties EXCEPT ![party[player]] = Updated([@ EXCEPT !.active = on], able)]
    /\ UNCHANGED <<online, party, invitations, channels, users, askedSelf, fault>>

-----------------------------------------------------------------------------
(* What else touches a party: fights, idle players, steps and levels.      *)

\* addPlayerHealedMember, addPlayerDamageMonster.
EarnPoints(player) ==
    /\ InParty(player)
    /\ player \notin Exempt
    /\ LET p == parties[party[player]] IN
       \E able \in BOOLEAN :
          parties' = [parties EXCEPT ![party[player]] =
                         Updated([p EXCEPT !.points = @ \cup {player}], able)]
    /\ UNCHANGED <<online, party, invitations, channels, users, askedSelf, fault>>

\* onIdleStatus: clearPlayerPoints updates only when there was something to clear.
BecomeIdle(player) ==
    /\ InParty(player)
    /\ player \in parties[party[player]].points
    /\ LET p == parties[party[player]] IN
       \E able \in BOOLEAN :
          parties' = [parties EXCEPT ![party[player]] =
                         Updated([p EXCEPT !.points = @ \ {player}], able)]
    /\ UNCHANGED <<online, party, invitations, channels, users, askedSelf, fault>>

\* onCreatureMove, and a new level.
MoveOrAdvance(player) ==
    /\ InParty(player)
    /\ \E able \in BOOLEAN :
          parties' = [parties EXCEPT ![party[player]] = Updated(@, able)]
    /\ UNCHANGED <<online, party, invitations, channels, users, askedSelf, fault>>

-----------------------------------------------------------------------------
(* The party channel. It is made when a member asks for the list of        *)
(* channels and never deleted, as it has no owner.                         *)

RequestChannels(player) ==
    /\ InParty(player)
    /\ channels' = channels \cup {party[player]}
    /\ UNCHANGED <<online, partyVars, users, fault>>

OpenChannel(player) ==
    /\ player \in online
    /\ party[player] \in channels
    /\ users' = [users EXCEPT ![party[player]] = @ \cup {player}]
    /\ UNCHANGED <<online, partyVars, channels, fault>>

CloseChannel(player) ==
    /\ player \in online
    /\ party[player] \in channels
    /\ users' = [users EXCEPT ![party[player]] = @ \ {player}]
    /\ UNCHANGED <<online, partyVars, channels, fault>>

\* Mutant of RemovedFromAll: the channels are found by the player's party.
RemovedFromOwn(player) ==
    [P \in Parties |-> IF P = party[player] THEN users[P] \ {player} ELSE users[P]]

\* Chat::removeUserFromAllChannels.
RemovedFromAll(player) == [P \in Parties |-> users[P] \ {player}]

-----------------------------------------------------------------------------
(* Players come and go.                                                    *)

\* A new Player object.
Login(player) ==
    /\ player \notin online
    /\ online' = online \cup {player}
    /\ UNCHANGED <<partyVars, channels, users, fault>>

\* A second login takes the player over: he leaves the channels, not the party.
TakeOver(player) ==
    /\ player \in online
    /\ users' = RemovedFromAll(player)
    /\ UNCHANGED <<online, partyVars, channels, fault>>

\* Player::onCreatureDisappear: decline the invitations, leave the party and then
\* the channels. removeCreature marks the player as removed only after this.
Logout(player) ==
    /\ player \in online
    /\ \A P \in invitations[player] : Exists(P)
    /\ \E able \in BOOLEAN :
          LET w == Declined(World, player) IN
          Becomes(IF w.party[player] = NoParty THEN w ELSE Departed(w, player, able))
    /\ online' = online \ {player}
    /\ users' = RemovedFromAll(player)
    /\ askedSelf' = {e \in askedSelf : e[1] # player}
    /\ UNCHANGED <<channels, fault>>

\* An invitation of a party that is gone: removeInvite runs on a deleted object.
LogoutFaults(player) ==
    /\ player \in online
    /\ \E P \in invitations[player] : ~Exists(P)
    /\ fault' = TRUE
    /\ UNCHANGED <<online, partyVars, channels, users>>

-----------------------------------------------------------------------------
Next ==
    /\ ~fault
    /\ \/ \E p, q \in Players :
             InviteToParty(p, q) \/ JoinParty(p, q) \/ RevokeInvitation(p, q) \/ PassLeadership(p, q)
       \/ \E p \in Players :
             \/ LeaveParty(p)
             \/ EarnPoints(p)
             \/ BecomeIdle(p)
             \/ MoveOrAdvance(p)
             \/ RequestChannels(p)
             \/ OpenChannel(p)
             \/ CloseChannel(p)
             \/ Login(p)
             \/ TakeOver(p)
             \/ Logout(p)
             \/ LogoutFaults(p)
       \/ \E p \in Players, on \in BOOLEAN : SetSharedExperience(p, on)

Spec == Init /\ [][Next]_vars
-----------------------------------------------------------------------------
(* Properties.                                                             *)

\* A player and a party agree. The leader and the members, each listed once, are the
\* players whose pointer leads to it, and all of them are online: a pointer left
\* behind would lead to a party that was deleted, or to somebody else's. A party with
\* nobody to share with is disbanded, in whatever order they leave and decline. An
\* invitation is known to both sides, but for a leader who invited himself:
\* leaveParty takes him from the party's list and leaves the party in his.
PlayersAgree ==
    /\ \A p \in Players, P \in Parties :
          /\ party[p] = P <=> Exists(P) /\ p \in People(parties[P])
          /\ p \in parties[P].invited => P \in invitations[p] /\ p \in online
          /\ P \in invitations[p] => p \in parties[P].invited \/ <<p, P>> \in askedSelf
    /\ \A P \in Parties :
          Exists(P) => /\ ~IsEmpty(parties[P])
                       /\ IsInjective(<<parties[P].leader>> \o parties[P].members)
                       /\ People(parties[P]) \subseteq online
    /\ fault => askedSelf # {}

\* Experience is shared only while the party has members and each of its players
\* but the exempt ones has fought or healed in it since he joined, whoever leaves,
\* leads or is idle.
SharedNeedsAll ==
    \A P \in Parties :
       parties[P].active /\ parties[P].enabled =>
          parties[P].members # <<>> /\ Obliged(parties[P]) \subseteq parties[P].points

\* The players a party's channel sends its messages to are in the game: m_users
\* keeps pointers to them even after they left the party or it was disbanded.
UsersOnline == \A P \in Parties : users[P] \subseteq online
=============================================================================
