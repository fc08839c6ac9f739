------------------------------- MODULE Guilds -------------------------------
(***************************************************************************)
(* Guilds and guild wars (chat.cpp, commands.cpp, ioguild.cpp): the rank   *)
(* of a character is in the database and, while it is online, in memory,   *)
(* whence it is saved; guilds and wars are in the database only. Commands  *)
(* are typed into the guild's channel, which also has a list of users.     *)
(* Invitations are left out: anybody may join. So are names of ranks,      *)
(* nicks, messages of the day and failing statements.                      *)
(***************************************************************************)
EXTENDS Integers, FiniteSets

CONSTANTS
    Mates,      \* characters
    LastGuild,  \* guilds are numbered from 1
    MaxAwaited  \* bound: events of connect that are pending for one character

ASSUME GuildsConstants == LastGuild \in Nat /\ MaxAwaited \in Nat

GuildIds == 1..LastGuild
NoGuild == 0

MEMBER == 1
VICE == 2
LEADER == 3
Rank(g, level) == [guild |-> g, level |-> level]
NoRank == Rank(NoGuild, 0)

VARIABLES
    guilds,         \* rows of the table guilds
    lastId,         \* AUTO_INCREMENT
    ownerId,        \* by guild
    rankId,         \* in the database, by character
    rank,           \* guildId and guildLevel of a Player, NoRank when offline
    matesOnline,
    matesLinked,    \* who has a client with a connection
    matesAwaited,   \* pending events of connect, by character
    wars,           \* rows of guild_wars that have not ended
    guildWarList,   \* of a Player
    guildUsers,     \* users of a guild's channel
    strays          \* history: <<character, guild>> of users who left without a client
                    \* while a connect was pending

guildsVars == <<guilds, lastId, ownerId, rankId, rank, matesOnline, matesLinked, matesAwaited,
                wars, guildWarList, guildUsers, strays>>
sessionVars == <<matesOnline, matesLinked, matesAwaited>>
channelVars == <<guildUsers, strays>>

GuildsInit ==
    /\ guilds = {} /\ lastId = 0
    /\ ownerId = [g \in {} |-> NoGuild]
    /\ rankId = [p \in Mates |-> NoRank]
    /\ rank = rankId
    /\ matesOnline = {} /\ matesLinked = {}
    /\ matesAwaited = [p \in Mates |-> 0]
    /\ wars = {}
    /\ guildWarList = [p \in Mates |-> {}]
    /\ guildUsers = [g \in GuildIds |-> {}]
    /\ strays = {}

\* getWarList: wars are by the guild that declared, to another, and declared,
\* young (at most four days) or old.
Active(w) == w.status # "declared"
WarsOf(g) == {w \in wars : Active(w) /\ g \in {w.by, w.to}}
WarList(g) == ({w.by : w \in WarsOf(g)} \cup {w.to : w \in WarsOf(g)}) \ {g}
CanLeaveWar(g) == \A w \in WarsOf(g) : w.status = "old"

\* The rank that counts: in memory when the player is online.
RankNow(p) == IF p \in matesOnline THEN rank[p] ELSE rankId[p]
MatesOf(g) == {p \in Mates : RankNow(p).guild = g}
----------------------------------------------------------------------------
(***************************************************************************)
(* Sessions.                                                               *)
(***************************************************************************)
\* getRankIdByGuildIdAndLevel, at a save: ranks go with their guild.
SavedRank(p) == IF rank[p].guild \in guilds THEN rank[p] ELSE NoRank

MateLogsIn(p) ==
    /\ p \notin matesOnline
    /\ matesOnline' = matesOnline \cup {p} /\ matesLinked' = matesLinked \cup {p}
    /\ rank' = [rank EXCEPT ![p] = rankId[p]]
    /\ guildWarList' = [guildWarList EXCEPT ![p] = WarList(rankId[p].guild)]
    /\ UNCHANGED <<guilds, lastId, ownerId, rankId, matesAwaited, wars, channelVars>>

\* removeUserFromAllChannels.
LeavesChannels(p) ==
    /\ guildUsers' = [g \in GuildIds |-> guildUsers[g] \ {p}]
    /\ strays' = {x \in strays : x[1] # p}

\* removeUserFromAllChannels and savePlayer. A connect that is pending finds
\* nobody: the next Player has another id.
MateLogsOut(p) ==
    /\ p \in matesOnline
    /\ matesOnline' = matesOnline \ {p} /\ matesLinked' = matesLinked \ {p}
    /\ matesAwaited' = [matesAwaited EXCEPT ![p] = 0]
    /\ rankId' = [rankId EXCEPT ![p] = SavedRank(p)]
    /\ rank' = [rank EXCEPT ![p] = NoRank]
    /\ guildWarList' = [guildWarList EXCEPT ![p] = {}]
    /\ LeavesChannels(p)
    /\ UNCHANGED <<guilds, lastId, ownerId, wars>>

SaveMate(p) ==
    /\ p \in matesOnline
    /\ rankId' = [rankId EXCEPT ![p] = SavedRank(p)]
    /\ UNCHANGED <<guilds, lastId, ownerId, rank, sessionVars, wars, guildWarList, channelVars>>

\* The connection is lost, the character stays in the game.
LinkLost(p) ==
    /\ p \in matesLinked
    /\ matesLinked' = matesLinked \ {p}
    /\ UNCHANGED <<guilds, lastId, ownerId, rankId, rank, matesOnline, matesAwaited, wars,
                   guildWarList, channelVars>>

\* The two ways on of a login of a character that is in the game: connect at
\* once, or in a second, when a client must be disconnected first.
MateLinkedOrAwaited(p) ==
    \/ /\ p \notin matesLinked
       /\ matesLinked' = matesLinked \cup {p} /\ UNCHANGED matesAwaited
    \/ /\ matesAwaited[p] < MaxAwaited
       /\ matesAwaited' = [matesAwaited EXCEPT ![p] = @ + 1] /\ UNCHANGED matesLinked

\* Mutant of TakenOver: who comes back stays in the channels.
TakenOverOpen(p) ==
    /\ p \in matesOnline
    /\ MateLinkedOrAwaited(p)
    /\ UNCHANGED <<guilds, lastId, ownerId, rankId, rank, matesOnline, wars, guildWarList,
                   channelVars>>

\* A new login of a character that is in the game: it leaves all channels. A
\* client whose connection is gone already, which only a connect that comes late
\* links, is awaited like one that must be disconnected.
TakenOver(p) ==
    /\ p \in matesOnline
    /\ MateLinkedOrAwaited(p)
    /\ LeavesChannels(p)
    /\ UNCHANGED <<guilds, lastId, ownerId, rankId, rank, matesOnline, wars, guildWarList>>

\* connect, a second after that login, leaves no channel: it is refused when
\* there is a client, and links nobody when its own connection is gone meanwhile.
MateConnects(p) ==
    /\ matesAwaited[p] > 0
    /\ matesAwaited' = [matesAwaited EXCEPT ![p] = @ - 1]
    /\ matesLinked' \in {matesLinked, matesLinked \cup {p}}
    /\ UNCHANGED <<guilds, lastId, ownerId, rankId, rank, matesOnline, wars, guildWarList,
                   channelVars>>

\* A request, or a task of login and connect, which comes whether or not the
\* client is still there.
OpenGuildChannel(p) ==
    /\ p \in matesOnline /\ rank[p].guild \in GuildIds
    /\ guildUsers' = [guildUsers EXCEPT ![rank[p].guild] = @ \cup {p}]
    /\ UNCHANGED <<guilds, lastId, ownerId, rankId, rank, sessionVars, wars, guildWarList,
                   strays>>

CloseGuildChannel(p) ==
    /\ p \in matesLinked /\ rank[p].guild \in GuildIds
    /\ guildUsers' = [guildUsers EXCEPT ![rank[p].guild] = @ \ {p}]
    /\ strays' = strays \ {<<p, rank[p].guild>>}
    /\ UNCHANGED <<guilds, lastId, ownerId, rankId, rank, sessionVars, wars, guildWarList>>
----------------------------------------------------------------------------
(***************************************************************************)
(* Membership.                                                             *)
(***************************************************************************)
CreateGuild(p) ==
    /\ p \in matesLinked /\ rank[p].guild = NoGuild /\ lastId < LastGuild
    /\ lastId' = lastId + 1
    /\ guilds' = guilds \cup {lastId'}
    /\ ownerId' = [g \in guilds' |-> IF g = lastId' THEN p ELSE ownerId[g]]
    /\ rank' = [rank EXCEPT ![p] = Rank(lastId', LEADER)]
    /\ UNCHANGED <<rankId, sessionVars, wars, guildWarList, channelVars>>

JoinGuild(p, g) ==
    /\ p \in matesLinked /\ rank[p].guild = NoGuild /\ g \in guilds
    /\ rank' = [rank EXCEPT ![p] = Rank(g, MEMBER)]
    /\ rankId' = [rankId EXCEPT ![p] = Rank(g, MEMBER)]
    /\ guildWarList' = [guildWarList EXCEPT ![p] = WarList(g)]
    /\ UNCHANGED <<guilds, lastId, ownerId, sessionVars, wars, channelVars>>

\* Users who leave their guild while they have no client, but will get one
\* without another removal from the channels.
StraysOf(S) ==
    {x \in S \X GuildIds : /\ rank[x[1]].guild = x[2]
                           /\ x[1] \in guildUsers[x[2]] \ matesLinked
                           /\ matesAwaited[x[1]] > 0}

\* Player::leaveGuild of the players in S. A client is told to close the
\* channel, and that takes the user out of it.
LeaveGuild(S) ==
    /\ rank' = [p \in Mates |-> IF p \in S THEN NoRank ELSE rank[p]]
    /\ guildWarList' = [p \in Mates |-> IF p \in S THEN {} ELSE guildWarList[p]]
    /\ guildUsers' = [g \in GuildIds |-> guildUsers[g] \ {p \in S \cap matesLinked : rank[p].guild = g}]
    /\ strays' = {x \in strays \cup StraysOf(S) : x[1] \in guildUsers'[x[2]]}

\* The list of wars is the one of the last login or joining.
MayLeave(p, fights) == guildWarList[p] = {} \/ (CanLeaveWar(rank[p].guild) /\ ~fights)

Leave(p, fights) ==
    /\ p \in matesLinked /\ rank[p].level \in {MEMBER, VICE} /\ MayLeave(p, fights)
    /\ LeaveGuild({p})
    /\ UNCHANGED <<guilds, lastId, ownerId, rankId, sessionVars, wars>>

Kick(p, q, fights) ==
    /\ p \in matesLinked /\ rank[p].level = LEADER
    /\ RankNow(q).guild = rank[p].guild
    /\ \/ /\ q \in matesOnline /\ rank[q].level < LEADER /\ MayLeave(q, fights)
          /\ LeaveGuild({q}) /\ UNCHANGED rankId
       \/ /\ q \notin matesOnline /\ CanLeaveWar(rank[p].guild)
          /\ rankId' = [rankId EXCEPT ![q] = NoRank]
          /\ UNCHANGED <<rank, guildWarList, channelVars>>
    /\ UNCHANGED <<guilds, lastId, ownerId, sessionVars, wars>>

\* The statement gives everybody a rank of 0, in a way of its own.
Disband(p, fights) ==
    /\ p \in matesLinked /\ rank[p].level = LEADER /\ MayLeave(p, fights)
    /\ LET g == rank[p].guild
       IN /\ rankId' = [q \in Mates |-> IF rankId[q].guild = g THEN NoRank ELSE rankId[q]]
          /\ LeaveGuild({q \in matesOnline : rank[q].guild = g})
          /\ guilds' = guilds \ {g}
          /\ ownerId' = [h \in guilds' |-> ownerId[h]]
    /\ UNCHANGED <<lastId, sessionVars, wars>>

\* setGuildLevel of the players of the domain of `level': in memory, or in the
\* database of one who is offline.
SetLevels(level) ==
    /\ rank' = [p \in Mates |-> IF p \in DOMAIN level \cap matesOnline
                                THEN [rank[p] EXCEPT !.level = level[p]] ELSE rank[p]]
    /\ rankId' = [p \in Mates |-> IF p \in DOMAIN level \ matesOnline
                                  THEN [rankId[p] EXCEPT !.level = level[p]] ELSE rankId[p]]

\* Promotion of a member, or demotion of a vice-leader.
Promote(p, q) ==
    /\ p \in matesLinked /\ rank[p].level = LEADER
    /\ RankNow(q).guild = rank[p].guild /\ RankNow(q).level \in {MEMBER, VICE}
    /\ SetLevels([r \in {q} |-> IF RankNow(q).level = MEMBER THEN VICE ELSE MEMBER])
    /\ UNCHANGED <<guilds, lastId, ownerId, sessionVars, wars, guildWarList, channelVars>>

\* Mutant of NewLevels: the old leader of an absent new one keeps the rank.
NewLevelsOnline(p, q) ==
    [r \in {q} \cup (IF q \in matesOnline THEN {p} ELSE {}) |-> IF r = q THEN LEADER ELSE VICE]

NewLevels(p, q) == [r \in {p, q} |-> IF r = q THEN LEADER ELSE VICE]

PassLeadership(p, q) ==
    /\ p \in matesLinked /\ rank[p].level = LEADER
    /\ RankNow(q) = Rank(rank[p].guild, VICE)
    /\ SetLevels(NewLevels(p, q))
    /\ ownerId' = [ownerId EXCEPT ![rank[p].guild] = q]
    /\ UNCHANGED <<guilds, lastId, sessionVars, wars, guildWarList, channelVars>>
----------------------------------------------------------------------------
(***************************************************************************)
(* Wars. A guild that was disbanded stays at war, but cannot be named.     *)
(***************************************************************************)
Declared(g, h) == \E w \in wars : ~Active(w) /\ {w.by, w.to} = {g, h}
AtWar(g, h) == \E w \in wars : Active(w) /\ {w.by, w.to} = {g, h}
Leads(p, g, h) == p \in matesLinked /\ rank[p] = Rank(g, LEADER) /\ h \in guilds \ {g}

DeclareWar(p, g, h) ==
    /\ Leads(p, g, h) /\ ~Declared(g, h) /\ ~AtWar(g, h)
    /\ wars' = wars \cup {[by |-> g, to |-> h, status |-> "declared"]}
    /\ UNCHANGED <<guilds, lastId, ownerId, rankId, rank, sessionVars, guildWarList, channelVars>>

\* The statement finds nothing when the own declaration is accepted.
AcceptWar(p, g, h) ==
    /\ Leads(p, g, h) /\ Declared(h, g) /\ ~AtWar(h, g)
    /\ wars' = {IF w = [by |-> h, to |-> g, status |-> "declared"]
                THEN [w EXCEPT !.status = "young"] ELSE w : w \in wars}
    /\ UNCHANGED <<guilds, lastId, ownerId, rankId, rank, sessionVars, guildWarList, channelVars>>

\* Refused when the guild can leave its wars.
StopWar(p, g, h) ==
    /\ Leads(p, g, h) /\ AtWar(g, h) /\ ~CanLeaveWar(g)
    /\ wars' = {w \in wars : ~(Active(w) /\ {w.by, w.to} = {g, h})}
    /\ UNCHANGED <<guilds, lastId, ownerId, rankId, rank, sessionVars, guildWarList, channelVars>>

FourDaysPass(w) ==
    /\ w \in wars /\ w.status = "young"
    /\ wars' = (wars \ {w}) \cup {[w EXCEPT !.status = "old"]}
    /\ UNCHANGED <<guilds, lastId, ownerId, rankId, rank, sessionVars, guildWarList, channelVars>>
----------------------------------------------------------------------------
GuildsNext ==
    \/ \E p \in Mates :
        \/ MateLogsIn(p) \/ MateLogsOut(p) \/ SaveMate(p) \/ LinkLost(p) \/ TakenOver(p)
        \/ MateConnects(p) \/ OpenGuildChannel(p) \/ CloseGuildChannel(p)
        \/ CreateGuild(p) \/ \E g \in GuildIds : JoinGuild(p, g)
        \/ \E fights \in BOOLEAN :
            Leave(p, fights) \/ Disband(p, fights) \/ \E q \in Mates : Kick(p, q, fights)
        \/ \E q \in Mates : Promote(p, q) \/ PassLeadership(p, q)
        \/ \E g, h \in GuildIds : DeclareWar(p, g, h) \/ AcceptWar(p, g, h) \/ StopWar(p, g, h)
    \/ \E w \in wars : FourDaysPass(w)

GuildsSpec == GuildsInit /\ [][GuildsNext]_guildsVars
----------------------------------------------------------------------------
\* A guild has one leader, who is its owner in the database, wherever the two
\* ranks that a change of leadership touches are kept, and whenever they are
\* saved and loaded in between; nobody has a rank in a guild that is gone.
OneLeader ==
    /\ \A g \in guilds : {p \in MatesOf(g) : RankNow(p).level = LEADER} = {ownerId[g]}
    /\ \A p \in Mates : RankNow(p) # NoRank => RankNow(p).guild \in guilds

\* Who listens to the channel of a guild, with a client, belongs to it: also
\* those who were expelled while their connection was lost. Excepted are users
\* whose client a connect linked that was pending when they left.
ChannelOfMembers ==
    \A g \in GuildIds : \A p \in guildUsers[g] \cap matesLinked :
        rank[p].guild = g \/ <<p, g>> \in strays
=============================================================================
