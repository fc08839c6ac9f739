--------------------------- MODULE SocietyProofs ---------------------------
(***************************************************************************)
(* Theorems about the guilds, the private channels and the waiting list of *)
(* any characters, any number of guilds and channels and any number of     *)
(* places. What counts in a guild is the rank a character has now, in      *)
(* memory or in the database: most steps move it between the two without a *)
(* change.                                                                 *)
(***************************************************************************)
EXTENDS Guilds, Channels, WaitingList, SequenceTheorems, FiniteSetTheorems,
        WellFoundedInduction, TLAPS

-----------------------------------------------------------------------------
(* Guilds.                                                                 *)

Ranks == [guild : Nat, level : 0 .. LEADER]

GuildsTypes ==
    /\ lastId \in Nat /\ guilds \subseteq 1 .. lastId
    /\ ownerId \in [guilds -> Mates]
    /\ rankId \in [Mates -> Ranks] /\ rank \in [Mates -> Ranks]
    /\ matesOnline \subseteq Mates /\ matesLinked \subseteq matesOnline
    /\ guildUsers \in [GuildIds -> SUBSET matesOnline]
    /\ matesAwaited \in [Mates -> Nat]
    /\ \A p \in Mates \ matesOnline : matesAwaited[p] = 0
    /\ strays \subseteq Mates \X GuildIds

\* Who hears a guild without belonging to it has no client, and when one is to
\* come without another removal from the channels, the history has it.
Listening ==
    \A g \in GuildIds : \A p \in guildUsers[g] :
        \/ rank[p].guild = g \/ <<p, g>> \in strays
        \/ p \notin matesLinked /\ matesAwaited[p] = 0

Leading ==
    \A g \in guilds : \A p \in Mates :
        RankNow(p).guild = g /\ RankNow(p).level = LEADER <=> p = ownerId[g]
Belonging == \A p \in Mates : RankNow(p) # NoRank => RankNow(p).guild \in guilds

GuildsInv == GuildsTypes /\ Leading /\ Belonging /\ Listening

LEMMA RanksAre ==
    /\ NoRank \in Ranks /\ NoRank.guild = 0 /\ NoRank.level = 0
    /\ \A g \in Nat, l \in 0 .. LEADER :
        /\ Rank(g, l) \in Ranks /\ Rank(g, l).guild = g /\ Rank(g, l).level = l
        /\ \A r \in Ranks : r.guild = g /\ r.level = l => r = Rank(g, l)
  BY DEF Ranks, Rank, NoRank, NoGuild, LEADER

LEMMA RankNowIs ==
    ASSUME GuildsTypes
    PROVE  \A p \in Mates : RankNow(p) \in Ranks
  BY DEF GuildsTypes, RankNow

LEMMA LeadersAreOwners ==
    ASSUME GuildsTypes, Leading, Belonging
    PROVE  OneLeader
<1>1. ASSUME NEW g \in guilds
      PROVE  {p \in MatesOf(g) : RankNow(p).level = LEADER} = {ownerId[g]}
  <2>1. ownerId[g] \in Mates
    BY DEF GuildsTypes
  <2> QED
    BY <2>1 DEF Leading, MatesOf
<1> QED
  BY <1>1 DEF OneLeader, Belonging

----------------------------------------------------------------------------
(* Steps that leave every character the rank it has now.                   *)

LEMMA RanksKept ==
    ASSUME Leading, Belonging, UNCHANGED <<guilds, ownerId>>,
           \A p \in Mates : RankNow(p)' = RankNow(p)
    PROVE  Leading' /\ Belonging'
  BY DEF Leading, Belonging

LEMMA SavedRankIsRank ==
    ASSUME GuildsTypes, Belonging, NEW p \in matesOnline
    PROVE  SavedRank(p) = rank[p]
  BY DEF GuildsTypes, Belonging, SavedRank, RankNow

LEMMA Sessions ==
    ASSUME GuildsInv, NEW p \in Mates, MateLogsIn(p) \/ MateLogsOut(p) \/ SaveMate(p)
    PROVE  GuildsInv'
<1>1. CASE MateLogsIn(p)
  <2>1. GuildsTypes'
    BY <1>1 DEF GuildsInv, GuildsTypes, MateLogsIn, channelVars
  <2>2. \A q \in Mates : RankNow(q)' = RankNow(q)
    BY <1>1 DEF GuildsInv, GuildsTypes, MateLogsIn, RankNow
  <2>3. Leading' /\ Belonging'
    BY <1>1, <2>2, RanksKept DEF GuildsInv, MateLogsIn
  <2>4. Listening'
    BY <1>1 DEF GuildsInv, GuildsTypes, Listening, MateLogsIn, channelVars
  <2> QED
    BY <2>1, <2>3, <2>4 DEF GuildsInv
<1>2. CASE MateLogsOut(p)
  <2>1. SavedRank(p) = rank[p] /\ p \in matesOnline
    BY <1>2, SavedRankIsRank DEF GuildsInv, MateLogsOut
  <2>2. GuildsTypes'
    BY <1>2, <2>1, RanksAre DEF GuildsInv, GuildsTypes, MateLogsOut, LeavesChannels
  <2>3. \A q \in Mates : RankNow(q)' = RankNow(q)
    BY <1>2, <2>1 DEF GuildsInv, GuildsTypes, MateLogsOut, RankNow
  <2>4. Leading' /\ Belonging'
    BY <1>2, <2>3, RanksKept DEF GuildsInv, MateLogsOut
  <2>5. Listening'
    BY <1>2 DEF GuildsInv, GuildsTypes, Listening, MateLogsOut, LeavesChannels
  <2> QED
    BY <2>2, <2>4, <2>5 DEF GuildsInv
<1>3. CASE SaveMate(p)
  <2>1. SavedRank(p) = rank[p] /\ p \in matesOnline
    BY <1>3, SavedRankIsRank DEF GuildsInv, SaveMate
  <2>2. GuildsTypes'
    BY <1>3, <2>1 DEF GuildsInv, GuildsTypes, SaveMate, sessionVars, channelVars
  <2>3. \A q \in Mates : RankNow(q)' = RankNow(q)
    BY <1>3, <2>1 DEF GuildsInv, GuildsTypes, SaveMate, RankNow, sessionVars
  <2>4. Leading' /\ Belonging'
    BY <1>3, <2>3, RanksKept DEF GuildsInv, SaveMate
  <2>5. Listening'
    BY <1>3 DEF GuildsInv, Listening, SaveMate, sessionVars, channelVars
  <2> QED
    BY <2>2, <2>4, <2>5 DEF GuildsInv
<1> QED
  BY <1>1, <1>2, <1>3

\* Connections, channels and wars do not touch ranks at all.
LEMMA OthersKeepRanks ==
    ASSUME GuildsInv, NEW p \in Mates,
           UNCHANGED <<guilds, lastId, ownerId, rankId, rank, matesOnline>>,
           matesLinked' \subseteq matesOnline,
           guildUsers' \in [GuildIds -> SUBSET matesOnline],
           matesAwaited' \in [Mates -> Nat],
           \A q \in Mates \ matesOnline : matesAwaited'[q] = 0,
           strays' \subseteq Mates \X GuildIds,
           \A g \in GuildIds : \A q \in guildUsers'[g] :
               \/ rank[q].guild = g \/ <<q, g>> \in strays'
               \/ q \notin matesLinked' /\ matesAwaited'[q] = 0
    PROVE  GuildsInv'
<1>1. GuildsTypes' /\ Listening'
  BY DEF GuildsInv, GuildsTypes, Listening
<1>2. \A q \in Mates : RankNow(q)' = RankNow(q)
  BY DEF RankNow
<1> QED
  BY <1>1, <1>2, RanksKept DEF GuildsInv

\* Whoever is taken out of the channels may be linked or awaited.
LEMMA TakenOverKeeps ==
    ASSUME GuildsInv, NEW p \in Mates, TakenOver(p)
    PROVE  GuildsInv'
<1>1. /\ UNCHANGED <<guilds, lastId, ownerId, rankId, rank, matesOnline>> /\ p \in matesOnline
      /\ guildUsers' = [g \in GuildIds |-> guildUsers[g] \ {p}]
      /\ strays' = {x \in strays : x[1] # p}
  BY DEF TakenOver, LeavesChannels
<1>2. /\ matesLinked' \subseteq matesOnline
      /\ matesAwaited' \in [Mates -> Nat]
      /\ \A q \in Mates \ matesOnline : matesAwaited'[q] = 0
      /\ \A q \in Mates \ {p} : /\ q \in matesLinked' <=> q \in matesLinked
                               /\ matesAwaited'[q] = matesAwaited[q]
  BY <1>1 DEF TakenOver, MateLinkedOrAwaited, GuildsInv, GuildsTypes
<1>3. /\ guildUsers' \in [GuildIds -> SUBSET matesOnline]
      /\ strays' \subseteq Mates \X GuildIds
  BY <1>1 DEF GuildsInv, GuildsTypes
<1>4. ASSUME NEW g \in GuildIds, NEW q \in guildUsers'[g]
      PROVE  \/ rank[q].guild = g \/ <<q, g>> \in strays'
             \/ q \notin matesLinked' /\ matesAwaited'[q] = 0
  <2>1. q \in guildUsers[g] /\ q # p /\ q \in Mates
    BY <1>1 DEF GuildsInv, GuildsTypes
  <2>2. \/ rank[q].guild = g \/ <<q, g>> \in strays
        \/ q \notin matesLinked /\ matesAwaited[q] = 0
    BY <2>1 DEF GuildsInv, Listening
  <2>3. <<q, g>> \in strays => <<q, g>> \in strays'
    BY <1>1, <2>1
  <2> QED
    BY <1>2, <2>1, <2>2, <2>3
<1> QED
  BY <1>1, <1>2, <1>3, <1>4, OthersKeepRanks

LEMMA ConnectionsAndChannels ==
    ASSUME GuildsInv, NEW p \in Mates,
           \/ LinkLost(p) \/ TakenOver(p) \/ MateConnects(p)
           \/ OpenGuildChannel(p) \/ CloseGuildChannel(p)
    PROVE  GuildsInv'
<1>1. CASE LinkLost(p)
  BY <1>1, OthersKeepRanks DEF GuildsInv, GuildsTypes, Listening, LinkLost, channelVars
<1>2. CASE MateConnects(p)
  <2>1. /\ matesLinked' \subseteq matesOnline
        /\ matesAwaited' \in [Mates -> Nat]
        /\ \A q \in Mates \ matesOnline : matesAwaited'[q] = 0
    BY <1>2 DEF GuildsInv, GuildsTypes, MateConnects
  <2>2. ASSUME NEW g \in GuildIds, NEW q \in guildUsers[g]
        PROVE  \/ rank[q].guild = g \/ <<q, g>> \in strays
               \/ q \notin matesLinked' /\ matesAwaited'[q] = 0
    <3>1. q \in Mates
      BY DEF GuildsInv, GuildsTypes
    <3> QED
      BY <1>2, <3>1 DEF GuildsInv, GuildsTypes, Listening, MateConnects
  <2> QED
    BY <1>2, <2>1, <2>2, OthersKeepRanks DEF GuildsInv, GuildsTypes, MateConnects, channelVars
<1>3. CASE OpenGuildChannel(p)
  <2>1. guildUsers' \in [GuildIds -> SUBSET matesOnline]
    BY <1>3 DEF GuildsInv, GuildsTypes, OpenGuildChannel
  <2> QED
    BY <1>3, <2>1, OthersKeepRanks
       DEF GuildsInv, GuildsTypes, Listening, OpenGuildChannel, sessionVars
<1>4. CASE CloseGuildChannel(p)
  <2>1. guildUsers' \in [GuildIds -> SUBSET matesOnline] /\ strays' \subseteq Mates \X GuildIds
    BY <1>4 DEF GuildsInv, GuildsTypes, CloseGuildChannel
  <2>2. ASSUME NEW g \in GuildIds, NEW q \in guildUsers'[g]
        PROVE  q \in guildUsers[g] /\ (<<q, g>> \in strays => <<q, g>> \in strays')
    BY <1>4 DEF GuildsInv, GuildsTypes, CloseGuildChannel
  <2> QED
    BY <1>4, <2>1, <2>2, OthersKeepRanks
       DEF GuildsInv, GuildsTypes, Listening, CloseGuildChannel, sessionVars
<1>5. CASE TakenOver(p)
  BY <1>5, TakenOverKeeps
<1> QED
  BY <1>1, <1>2, <1>3, <1>4, <1>5

----------------------------------------------------------------------------
(* Membership.                                                             *)

LEMMA Founded ==
    ASSUME GuildsInv, NEW p \in Mates, CreateGuild(p)
    PROVE  GuildsInv'
<1>1. /\ p \in matesOnline /\ RankNow(p) = rank[p] /\ rank[p] = NoRank
      /\ lastId + 1 \notin guilds /\ lastId' = lastId + 1 /\ lastId' \in Nat
  <2>1. p \in matesOnline /\ RankNow(p) = rank[p]
    BY DEF GuildsInv, GuildsTypes, CreateGuild, RankNow
  <2>2. rank[p] = NoRank
    BY <2>1 DEF GuildsInv, GuildsTypes, Belonging, CreateGuild, NoGuild
  <2> QED
    BY <2>1, <2>2 DEF GuildsInv, GuildsTypes, CreateGuild
<1>2. Rank(lastId', LEADER) \in Ranks /\ Rank(lastId', LEADER).guild = lastId'
      /\ Rank(lastId', LEADER).level = LEADER
  BY <1>1, RanksAre DEF LEADER
<1>3. GuildsTypes'
  BY <1>1, <1>2 DEF GuildsInv, GuildsTypes, CreateGuild, sessionVars, channelVars
<1>4. \A q \in Mates : RankNow(q)' = IF q = p THEN Rank(lastId', LEADER) ELSE RankNow(q)
  BY <1>1 DEF GuildsInv, GuildsTypes, CreateGuild, RankNow, sessionVars
<1>5. Leading'
  <2>1. ASSUME NEW g \in guilds, NEW q \in Mates
        PROVE  (RankNow(q).guild = g /\ RankNow(q).level = LEADER <=> q = ownerId[g])'
    <3>1. g # lastId' /\ ownerId'[g] = ownerId[g]
      BY <1>1 DEF CreateGuild
    <3>2. p # ownerId[g]
      BY <1>1, RanksAre DEF GuildsInv, Leading, LEADER
    <3> QED
      BY <1>2, <1>4, <3>1, <3>2 DEF GuildsInv, Leading
  <2>2. ASSUME NEW q \in Mates
        PROVE  RankNow(q)'.guild = lastId' /\ RankNow(q)'.level = LEADER <=> q = ownerId'[lastId']
    <3>1. ownerId'[lastId'] = p
      BY DEF CreateGuild
    <3>2. ASSUME q # p PROVE RankNow(q).guild # lastId'
      BY <1>1, RanksAre DEF GuildsInv, GuildsTypes, Belonging
    <3> QED
      BY <1>2, <1>4, <3>1, <3>2
  <2> QED
    BY <2>1, <2>2 DEF Leading, CreateGuild
<1>6. Belonging'
  BY <1>2, <1>4 DEF GuildsInv, Belonging, CreateGuild
<1>7. Listening'
  <2>1. ASSUME NEW h \in GuildIds, NEW q \in guildUsers[h], rank[q].guild = h
        PROVE  rank'[q].guild = h
    <3>1. q \in Mates /\ q # p
      BY <1>1, <2>1, RanksAre DEF GuildsInv, GuildsTypes, GuildIds
    <3> QED
      BY <2>1, <3>1 DEF GuildsInv, GuildsTypes, CreateGuild
  <2> QED
    BY <2>1 DEF GuildsInv, Listening, CreateGuild, sessionVars, channelVars
<1> QED
  BY <1>3, <1>5, <1>6, <1>7 DEF GuildsInv

LEMMA Joined ==
    ASSUME GuildsInv, NEW p \in Mates, NEW g \in GuildIds, JoinGuild(p, g)
    PROVE  GuildsInv'
<1>1. p \in matesOnline /\ RankNow(p) = rank[p] /\ rank[p] = NoRank
  <2>1. p \in matesOnline /\ RankNow(p) = rank[p]
    BY DEF GuildsInv, GuildsTypes, JoinGuild, RankNow
  <2> QED
    BY <2>1 DEF GuildsInv, GuildsTypes, Belonging, JoinGuild, NoGuild
<1>2. Rank(g, MEMBER) \in Ranks /\ Rank(g, MEMBER).guild = g /\ Rank(g, MEMBER).level # LEADER
  BY RanksAre DEF GuildIds, MEMBER, LEADER, GuildsInv, GuildsTypes, JoinGuild
<1>3. GuildsTypes'
  BY <1>1, <1>2 DEF GuildsInv, GuildsTypes, JoinGuild, sessionVars, channelVars
<1>4. \A q \in Mates : RankNow(q)' = IF q = p THEN Rank(g, MEMBER) ELSE RankNow(q)
  BY <1>1 DEF GuildsInv, GuildsTypes, JoinGuild, RankNow, sessionVars
<1>5. Leading'
  <2>1. \A h \in guilds : p # ownerId[h]
    BY <1>1, RanksAre DEF GuildsInv, Leading, LEADER
  <2> QED
    BY <1>2, <1>4, <2>1 DEF GuildsInv, Leading, JoinGuild
<1>6. Belonging'
  BY <1>2, <1>4 DEF GuildsInv, Belonging, JoinGuild
<1>7. Listening'
  <2>1. ASSUME NEW h \in GuildIds, NEW q \in guildUsers[h], rank[q].guild = h
        PROVE  rank'[q].guild = h
    <3>1. q \in Mates /\ q # p
      BY <1>1, <2>1, RanksAre DEF GuildsInv, GuildsTypes, GuildIds
    <3> QED
      BY <2>1, <3>1 DEF GuildsInv, GuildsTypes, JoinGuild
  <2> QED
    BY <2>1 DEF GuildsInv, Listening, JoinGuild, sessionVars, channelVars
<1> QED
  BY <1>3, <1>5, <1>6, <1>7 DEF GuildsInv

\* What leaving does to those in S, if none of them leads a guild that stays.
LEMMA LeaveKeeps ==
    ASSUME GuildsInv, NEW S \in SUBSET Mates, LeaveGuild(S)
    PROVE  /\ rank' \in [Mates -> Ranks]
           /\ \A q \in Mates : rank'[q] = IF q \in S THEN NoRank ELSE rank[q]
           /\ guildUsers' \in [GuildIds -> SUBSET matesOnline]
           /\ strays' \subseteq Mates \X GuildIds
           /\ UNCHANGED <<matesLinked, matesAwaited>> => Listening'
<1>1. /\ rank' \in [Mates -> Ranks]
      /\ \A q \in Mates : rank'[q] = IF q \in S THEN NoRank ELSE rank[q]
  BY RanksAre DEF GuildsInv, GuildsTypes, LeaveGuild
<1>2. guildUsers' \in [GuildIds -> SUBSET matesOnline] /\ strays' \subseteq Mates \X GuildIds
  BY DEF GuildsInv, GuildsTypes, LeaveGuild, StraysOf
<1>3. ASSUME NEW h \in GuildIds, NEW q \in guildUsers'[h]
      PROVE  \/ rank'[q].guild = h \/ <<q, h>> \in strays'
             \/ q \notin matesLinked /\ matesAwaited[q] = 0
  <2>1. q \in guildUsers[h] /\ q \in Mates
        /\ ~(q \in S \cap matesLinked /\ rank[q].guild = h)
    BY <1>3 DEF GuildsInv, GuildsTypes, LeaveGuild
  <2>2. <<q, h>> \in strays \cup StraysOf(S) => <<q, h>> \in strays'
    BY <1>3 DEF LeaveGuild
  <2>3. CASE <<q, h>> \in strays
    BY <2>2, <2>3
  <2>4. CASE rank[q].guild = h
    <3>1. CASE q \in S /\ matesAwaited[q] > 0
      <4>1. <<q, h>> \in StraysOf(S)
        BY <2>1, <2>4, <3>1 DEF StraysOf
      <4> QED
        BY <2>2, <4>1
    <3>2. CASE q \in S /\ ~(matesAwaited[q] > 0)
      BY <2>1, <2>4, <3>2 DEF GuildsInv, GuildsTypes
    <3>3. CASE q \notin S
      BY <1>1, <2>1, <2>4, <3>3
    <3> QED
      BY <3>1, <3>2, <3>3
  <2> QED
    BY <2>1, <2>3, <2>4 DEF GuildsInv, Listening
<1>4. UNCHANGED <<matesLinked, matesAwaited>> => Listening'
  BY <1>3 DEF Listening
<1> QED
  BY <1>1, <1>2, <1>4

LEMMA LeftOrKicked ==
    ASSUME GuildsInv, NEW q \in Mates,
           UNCHANGED <<guilds, lastId, ownerId, sessionVars>>, strays' \subseteq Mates \X GuildIds,
           rankId' \in [Mates -> Ranks], rank' \in [Mates -> Ranks],
           guildUsers' \in [GuildIds -> SUBSET matesOnline], Listening',
           RankNow(q).level # LEADER,
           \A r \in Mates : RankNow(r)' = IF r = q THEN NoRank ELSE RankNow(r)
    PROVE  GuildsInv'
<1>1. GuildsTypes'
  BY DEF GuildsInv, GuildsTypes, sessionVars
<1>2. Leading'
  <2>1. \A h \in guilds : q # ownerId[h]
    BY DEF GuildsInv, Leading
  <2> QED
    BY <2>1, RanksAre DEF GuildsInv, Leading, LEADER
<1>3. Belonging'
  BY RanksAre DEF GuildsInv, Belonging
<1> QED
  BY <1>1, <1>2, <1>3 DEF GuildsInv

LEMMA Left ==
    ASSUME GuildsInv, NEW p \in Mates, NEW fights \in BOOLEAN, Leave(p, fights)
    PROVE  GuildsInv'
<1>1. LeaveGuild({p}) /\ p \in matesOnline /\ RankNow(p) = rank[p]
  BY DEF GuildsInv, GuildsTypes, Leave, RankNow
<1>2. /\ rank' \in [Mates -> Ranks]
      /\ \A q \in Mates : rank'[q] = IF q \in {p} THEN NoRank ELSE rank[q]
      /\ guildUsers' \in [GuildIds -> SUBSET matesOnline]
      /\ strays' \subseteq Mates \X GuildIds
      /\ UNCHANGED <<matesLinked, matesAwaited>> => Listening'
  BY <1>1, LeaveKeeps
<1>3. Listening'
  BY <1>2 DEF Leave, sessionVars
<1>4. \A r \in Mates : RankNow(r)' = IF r = p THEN NoRank ELSE RankNow(r)
  BY <1>1, <1>2 DEF Leave, RankNow, sessionVars
<1>5. RankNow(p).level # LEADER
  BY <1>1 DEF Leave, MEMBER, VICE, LEADER
<1> QED
  BY <1>2, <1>3, <1>4, <1>5, LeftOrKicked DEF GuildsInv, GuildsTypes, Leave

LEMMA Kicked ==
    ASSUME GuildsInv, NEW p \in Mates, NEW q \in Mates, NEW fights \in BOOLEAN, Kick(p, q, fights)
    PROVE  GuildsInv'
<1>1. CASE q \in matesOnline /\ rank[q].level < LEADER /\ LeaveGuild({q}) /\ UNCHANGED rankId
  <2>1. /\ rank' \in [Mates -> Ranks]
        /\ \A r \in Mates : rank'[r] = IF r \in {q} THEN NoRank ELSE rank[r]
        /\ guildUsers' \in [GuildIds -> SUBSET matesOnline]
        /\ strays' \subseteq Mates \X GuildIds
        /\ UNCHANGED <<matesLinked, matesAwaited>> => Listening'
    BY <1>1, LeaveKeeps
  <2>2. Listening'
    BY <2>1 DEF Kick, sessionVars
  <2>3. \A r \in Mates : RankNow(r)' = IF r = q THEN NoRank ELSE RankNow(r)
    BY <1>1, <2>1 DEF Kick, RankNow, sessionVars
  <2>4. RankNow(q).level # LEADER
    BY <1>1 DEF RankNow, LEADER
  <2> QED
    BY <1>1, <2>1, <2>2, <2>3, <2>4, LeftOrKicked DEF GuildsInv, GuildsTypes, Kick
<1>2. CASE /\ q \notin matesOnline /\ rankId' = [rankId EXCEPT ![q] = NoRank]
           /\ UNCHANGED <<rank, guildWarList, channelVars>>
  <2>1. rankId' \in [Mates -> Ranks]
    BY <1>2, RanksAre DEF GuildsInv, GuildsTypes
  <2>2. Listening'
    BY <1>2 DEF Kick, Listening, GuildsInv, sessionVars, channelVars
  <2>3. \A r \in Mates : RankNow(r)' = IF r = q THEN NoRank ELSE RankNow(r)
    BY <1>2 DEF Kick, RankNow, GuildsInv, GuildsTypes, sessionVars
  <2>4. RankNow(q).level # LEADER
    <3>1. p \in matesOnline /\ RankNow(p) = rank[p] /\ p # q
      BY <1>2 DEF GuildsInv, GuildsTypes, Kick, RankNow
    <3>2. RankNow(p).level = LEADER /\ RankNow(q).guild = RankNow(p).guild
      BY <3>1 DEF Kick
    <3>3. RankNow(p).guild \in guilds
      BY <3>2, RanksAre DEF GuildsInv, Belonging, LEADER
    <3> QED
      BY <3>1, <3>2, <3>3 DEF GuildsInv, Leading
  <2> QED
    BY <1>2, <2>1, <2>2, <2>3, <2>4, LeftOrKicked
       DEF GuildsInv, GuildsTypes, Kick, channelVars
<1> QED
  BY <1>1, <1>2 DEF Kick

LEMMA DisbandedKeeps ==
    ASSUME GuildsInv, NEW p \in Mates, NEW fights \in BOOLEAN, Disband(p, fights)
    PROVE  GuildsInv'
<1> DEFINE g == rank[p].guild
           S == {q \in matesOnline : rank[q].guild = g}
<1>1. /\ LeaveGuild(S) /\ S \in SUBSET Mates /\ guilds' = guilds \ {g}
      /\ ownerId' = [h \in guilds' |-> ownerId[h]]
      /\ rankId' = [q \in Mates |-> IF rankId[q].guild = g THEN NoRank ELSE rankId[q]]
  BY DEF GuildsInv, GuildsTypes, Disband
<1>2. /\ rank' \in [Mates -> Ranks]
      /\ \A q \in Mates : rank'[q] = IF q \in S THEN NoRank ELSE rank[q]
      /\ guildUsers' \in [GuildIds -> SUBSET matesOnline]
      /\ strays' \subseteq Mates \X GuildIds
      /\ UNCHANGED <<matesLinked, matesAwaited>> => Listening'
  BY <1>1, LeaveKeeps
<1>3. rankId' \in [Mates -> Ranks]
  BY <1>1, RanksAre DEF GuildsInv, GuildsTypes
<1>4. GuildsTypes'
  BY <1>1, <1>2, <1>3 DEF GuildsInv, GuildsTypes, Disband, sessionVars
<1>5. \A r \in Mates : RankNow(r)' = IF RankNow(r).guild = g THEN NoRank ELSE RankNow(r)
  <2>1. ASSUME NEW r \in Mates, r \in matesOnline
        PROVE  RankNow(r)' = IF RankNow(r).guild = g THEN NoRank ELSE RankNow(r)
    BY <1>2, <2>1 DEF Disband, RankNow, sessionVars
  <2>2. ASSUME NEW r \in Mates, r \notin matesOnline
        PROVE  RankNow(r)' = IF RankNow(r).guild = g THEN NoRank ELSE RankNow(r)
    BY <1>1, <2>2 DEF Disband, RankNow, sessionVars
  <2> QED
    BY <2>1, <2>2
<1>6. Leading'
  <2>1. ASSUME NEW h \in guilds', NEW q \in Mates
        PROVE  RankNow(q)'.guild = h /\ RankNow(q)'.level = LEADER <=> q = ownerId'[h]
    <3>1. h \in guilds /\ h # g /\ ownerId'[h] = ownerId[h]
      BY <1>1
    <3>2. NoRank.level # LEADER
      BY RanksAre DEF LEADER
    <3>3. RankNow(q).guild = h /\ RankNow(q).level = LEADER <=> q = ownerId[h]
      BY <3>1 DEF GuildsInv, Leading
    <3> QED
      BY <1>5, <3>1, <3>2, <3>3
  <2> QED
    BY <2>1 DEF Leading
<1>7. Belonging'
  BY <1>1, <1>5 DEF GuildsInv, Belonging
<1>8. Listening'
  BY <1>2 DEF Disband, sessionVars
<1> QED
  BY <1>4, <1>6, <1>7, <1>8 DEF GuildsInv

----------------------------------------------------------------------------
(* Changes of rank.                                                        *)

LEMMA LevelsSet ==
    ASSUME GuildsInv, NEW D \in SUBSET Mates, NEW level \in [D -> 0 .. LEADER],
           SetLevels(level), matesOnline' = matesOnline
    PROVE  /\ rank' \in [Mates -> Ranks] /\ rankId' \in [Mates -> Ranks]
           /\ \A q \in Mates : rank'[q].guild = rank[q].guild
           /\ \A q \in Mates : RankNow(q)' =
                  IF q \in D THEN [RankNow(q) EXCEPT !.level = level[q]] ELSE RankNow(q)
<1>1. \A q \in Mates : rank'[q] = IF q \in D \cap matesOnline
                                  THEN [rank[q] EXCEPT !.level = level[q]] ELSE rank[q]
  BY DEF SetLevels
<1>2. \A q \in Mates : rankId'[q] = IF q \in D \ matesOnline
                                    THEN [rankId[q] EXCEPT !.level = level[q]] ELSE rankId[q]
  BY DEF SetLevels
<1>3. \A q \in Mates : rank[q] \in Ranks /\ rankId[q] \in Ranks
  BY DEF GuildsInv, GuildsTypes
<1>4. ASSUME NEW q \in Mates
      PROVE  rank'[q] \in Ranks /\ rankId'[q] \in Ranks /\ rank'[q].guild = rank[q].guild
  <2>1. q \in D => level[q] \in 0 .. LEADER
    OBVIOUS
  <2>2. CASE q \in D \cap matesOnline
    BY <1>1, <1>2, <1>3, <2>1, <2>2 DEF Ranks
  <2>3. CASE q \in D \ matesOnline
    BY <1>1, <1>2, <1>3, <2>1, <2>3 DEF Ranks
  <2>4. CASE q \notin D
    BY <1>1, <1>2, <1>3, <2>4
  <2> QED
    BY <2>2, <2>3, <2>4
<1>5. rank' \in [Mates -> Ranks] /\ rankId' \in [Mates -> Ranks]
  <2>1. rank' = [q \in Mates |-> rank'[q]] /\ rankId' = [q \in Mates |-> rankId'[q]]
    BY DEF SetLevels
  <2> QED
    BY <1>4, <2>1
<1>6. ASSUME NEW q \in Mates
      PROVE  RankNow(q)' = IF q \in D THEN [RankNow(q) EXCEPT !.level = level[q]] ELSE RankNow(q)
  BY <1>1, <1>2 DEF RankNow
<1> QED
  BY <1>4, <1>5, <1>6

LEMMA Promoted ==
    ASSUME GuildsInv, NEW p \in Mates, NEW q \in Mates, Promote(p, q)
    PROVE  GuildsInv'
<1> DEFINE new == IF RankNow(q).level = MEMBER THEN VICE ELSE MEMBER
           level == [r \in {q} |-> new]
<1>1. new \in 0 .. LEADER /\ new # LEADER /\ level \in [{q} -> 0 .. LEADER]
  BY DEF MEMBER, VICE, LEADER
<1>2. SetLevels(level) /\ matesOnline' = matesOnline
  BY DEF Promote, sessionVars
<1>3. /\ rank' \in [Mates -> Ranks] /\ rankId' \in [Mates -> Ranks]
      /\ \A r \in Mates : rank'[r].guild = rank[r].guild
      /\ \A r \in Mates : RankNow(r)' =
             IF r \in {q} THEN [RankNow(r) EXCEPT !.level = level[r]] ELSE RankNow(r)
  <2> HIDE DEF level
  <2> QED
    BY <1>1, <1>2, LevelsSet
<1>4. GuildsTypes' /\ Listening'
  BY <1>3 DEF GuildsInv, GuildsTypes, Listening, Promote, sessionVars, channelVars
<1>5. RankNow(q) \in Ranks
  BY RankNowIs DEF GuildsInv
<1>6. RankNow(q)'.guild = RankNow(q).guild /\ RankNow(q)'.level = new
  BY <1>3, <1>5 DEF Ranks
<1>7. RankNow(q).level # LEADER /\ RankNow(q) # NoRank
  BY RanksAre DEF Promote, MEMBER, VICE, LEADER
<1>8. Leading'
  <2>1. \A h \in guilds : q # ownerId[h]
    BY <1>7 DEF GuildsInv, Leading
  <2> QED
    BY <1>1, <1>3, <1>6, <2>1 DEF GuildsInv, Leading, Promote
<1>9. Belonging'
  BY <1>3, <1>6, <1>7 DEF GuildsInv, Belonging, Promote
<1> QED
  BY <1>4, <1>8, <1>9 DEF GuildsInv

LEMMA Passed ==
    ASSUME GuildsInv, NEW p \in Mates, NEW q \in Mates, PassLeadership(p, q)
    PROVE  GuildsInv'
<1> DEFINE g == rank[p].guild
           level == NewLevels(p, q)
<1>1. level \in [{p, q} -> 0 .. LEADER] /\ level[q] = LEADER /\ (p # q => level[p] = VICE)
  BY DEF NewLevels, VICE, LEADER
<1>2. /\ SetLevels(level) /\ matesOnline' = matesOnline /\ guilds' = guilds
      /\ ownerId' = [ownerId EXCEPT ![g] = q]
  BY DEF PassLeadership, sessionVars
<1>3. /\ rank' \in [Mates -> Ranks] /\ rankId' \in [Mates -> Ranks]
      /\ \A r \in Mates : rank'[r].guild = rank[r].guild
      /\ \A r \in Mates : RankNow(r)' =
             IF r \in {p, q} THEN [RankNow(r) EXCEPT !.level = level[r]] ELSE RankNow(r)
  <2>1. {p, q} \in SUBSET Mates /\ level \in [{p, q} -> 0 .. LEADER]
    BY <1>1
  <2>2. SetLevels(level) /\ matesOnline' = matesOnline
    BY <1>2
  <2> HIDE DEF level
  <2> QED
    BY <2>1, <2>2, LevelsSet
<1>4. p \in matesOnline /\ RankNow(p) = rank[p] /\ RankNow(p).level = LEADER
  BY DEF GuildsInv, GuildsTypes, PassLeadership, RankNow
<1>5. RankNow(q).guild = g /\ RankNow(q).level = VICE
  BY RanksAre DEF PassLeadership, Rank
<1>6. p # q /\ g \in guilds /\ ownerId[g] = p
  <2>1. p # q
    BY <1>4, <1>5 DEF VICE, LEADER
  <2>2. g \in guilds
    BY <1>4, RanksAre DEF GuildsInv, Belonging, LEADER
  <2> QED
    BY <1>4, <2>1, <2>2 DEF GuildsInv, Leading
<1>7. GuildsTypes' /\ Listening'
  BY <1>2, <1>3, <1>6
     DEF GuildsInv, GuildsTypes, Listening, PassLeadership, sessionVars, channelVars
<1>8. /\ RankNow(p)'.guild = g /\ RankNow(p)'.level = VICE
      /\ RankNow(q)'.guild = g /\ RankNow(q)'.level = LEADER
  <2>1. RankNow(p) \in Ranks /\ RankNow(q) \in Ranks
    BY RankNowIs DEF GuildsInv
  <2> QED
    BY <1>1, <1>3, <1>4, <1>5, <1>6, <2>1 DEF Ranks
<1>9. Leading'
  <2>1. ASSUME NEW h \in guilds, NEW r \in Mates
        PROVE  RankNow(r)'.guild = h /\ RankNow(r)'.level = LEADER <=> r = ownerId'[h]
    <3>1. ownerId'[h] = IF h = g THEN q ELSE ownerId[h]
      BY <1>2, <1>6 DEF GuildsInv, GuildsTypes
    <3>2. RankNow(r).guild = h /\ RankNow(r).level = LEADER <=> r = ownerId[h]
      BY DEF GuildsInv, Leading
    <3>3. VICE # LEADER
      BY DEF VICE, LEADER
    <3>4. CASE r = q
      <4>1. h # g => r # ownerId[h]
        BY <1>5, <3>2, <3>4
      <4> QED
        BY <1>8, <3>1, <3>4, <4>1
    <3>5. CASE r = p
      <4>1. h # g => r # ownerId[h]
        BY <1>4, <3>2, <3>5
      <4> QED
        BY <1>6, <1>8, <3>1, <3>3, <3>5, <4>1
    <3>6. CASE r \notin {p, q}
      BY <1>3, <1>6, <3>1, <3>2, <3>6
    <3> QED
      BY <3>4, <3>5, <3>6
  <2> QED
    BY <1>2, <2>1 DEF Leading
<1>10. Belonging'
  BY <1>2, <1>3, <1>6, <1>8 DEF GuildsInv, Belonging
<1> QED
  BY <1>7, <1>9, <1>10 DEF GuildsInv

----------------------------------------------------------------------------
LEMMA GuildsBegin == GuildsInit => GuildsInv
<1> SUFFICES ASSUME GuildsInit PROVE GuildsInv
  OBVIOUS
<1>1. GuildsTypes
  BY RanksAre DEF GuildsInit, GuildsTypes
<1>2. Leading /\ Listening
  BY DEF GuildsInit, Leading, Listening
<1>3. Belonging
  BY DEF GuildsInit, Belonging, RankNow
<1> QED
  BY <1>1, <1>2, <1>3 DEF GuildsInv

LEMMA GuildsGoOn == GuildsInv /\ [GuildsNext]_guildsVars => GuildsInv'
<1> SUFFICES ASSUME GuildsInv, [GuildsNext]_guildsVars PROVE GuildsInv'
  OBVIOUS
<1>1. ASSUME NEW p \in Mates, MateLogsIn(p) \/ MateLogsOut(p) \/ SaveMate(p)
      PROVE  GuildsInv'
  BY <1>1, Sessions
<1>2. ASSUME NEW p \in Mates,
             \/ LinkLost(p) \/ TakenOver(p) \/ MateConnects(p)
             \/ OpenGuildChannel(p) \/ CloseGuildChannel(p)
      PROVE  GuildsInv'
  BY <1>2, ConnectionsAndChannels
<1>3. ASSUME NEW p \in Mates, CreateGuild(p)
      PROVE  GuildsInv'
  BY <1>3, Founded
<1>4. ASSUME NEW p \in Mates, NEW g \in GuildIds, JoinGuild(p, g)
      PROVE  GuildsInv'
  BY <1>4, Joined
<1>5. ASSUME NEW p \in Mates, NEW fights \in BOOLEAN, Leave(p, fights)
      PROVE  GuildsInv'
  BY <1>5, Left
<1>6. ASSUME NEW p \in Mates, NEW fights \in BOOLEAN, Disband(p, fights)
      PROVE  GuildsInv'
  BY <1>6, DisbandedKeeps
<1>7. ASSUME NEW p \in Mates, NEW q \in Mates, NEW fights \in BOOLEAN, Kick(p, q, fights)
      PROVE  GuildsInv'
  BY <1>7, Kicked
<1>8. ASSUME NEW p \in Mates, NEW q \in Mates, Promote(p, q)
      PROVE  GuildsInv'
  BY <1>8, Promoted
<1>9. ASSUME NEW p \in Mates, NEW q \in Mates, PassLeadership(p, q)
      PROVE  GuildsInv'
  BY <1>9, Passed
<1>10. ASSUME UNCHANGED <<guilds, lastId, ownerId, rankId, rank, sessionVars, channelVars>>
       PROVE  GuildsInv'
  BY <1>10 DEF GuildsInv, GuildsTypes, Leading, Belonging, Listening, RankNow, sessionVars,
               channelVars
<1>11. ASSUME NEW p \in Mates, NEW g \in GuildIds, NEW h \in GuildIds,
              DeclareWar(p, g, h) \/ AcceptWar(p, g, h) \/ StopWar(p, g, h)
       PROVE  GuildsInv'
  BY <1>10, <1>11 DEF DeclareWar, AcceptWar, StopWar
<1>12. ASSUME NEW w \in wars, FourDaysPass(w)
       PROVE  GuildsInv'
  BY <1>10, <1>12 DEF FourDaysPass
<1>13. CASE UNCHANGED guildsVars
  BY <1>10, <1>13 DEF guildsVars, sessionVars, channelVars
<1> QED
  BY <1>1, <1>2, <1>3, <1>4, <1>5, <1>6, <1>7, <1>8, <1>9, <1>11, <1>12, <1>13 DEF GuildsNext

LEMMA GuildsHold == GuildsSpec => []GuildsInv
  BY GuildsBegin, GuildsGoOn, PTL DEF GuildsSpec

\* For any characters and guilds: the rank that counts makes one leader of a
\* guild, the owner in the table, and nobody has a rank in a guild that is gone,
\* whichever of the ranks a change touches is in memory or in the database.
THEOREM GuildsOneLeader == GuildsSpec => []OneLeader
<1>1. GuildsInv => OneLeader
  BY LeadersAreOwners DEF GuildsInv
<1> QED
  BY <1>1, GuildsHold, PTL

\* For any characters and guilds: who listens to a guild's channel with a client
\* is a member, also of those who lost their connection in between, but for
\* users whose client came by a connect that was pending when they left.
THEOREM GuildsChannelOfMembers == GuildsSpec => []ChannelOfMembers
<1>1. GuildsInv => ChannelOfMembers
  BY DEF GuildsInv, Listening, ChannelOfMembers
<1> QED
  BY <1>1, GuildsHold, PTL

-----------------------------------------------------------------------------
(* Private channels.                                                       *)


ChannelsTypes ==
    /\ Existing \subseteq ChannelIds
    /\ channelOwner \in [Existing -> Chatters]
    /\ invites \in [ChannelIds -> SUBSET Chatters]
    /\ users \in [ChannelIds -> SUBSET Chatters]
    /\ chattersLinked \subseteq chattersOnline /\ chattersOnline \subseteq Chatters
    /\ windows \in [Chatters -> SUBSET ChannelIds]
    /\ pending \in [Chatters -> Nat]
    /\ \A p \in Chatters \ chattersOnline : pending[p] = 0

\* The history speaks of who hears a channel with a client.
UnseenHeard ==
    \A x \in unseen : x \in chattersLinked \X ChannelIds /\ x[1] \in users[x[2]]

\* Without a client nothing is shown: a character that comes back starts anew.
NoneShown == \A p \in Chatters \ chattersLinked : windows[p] = {}

Heard == UsersInvited /\ OneChannelEach /\ OwnersListen /\ WindowsHeard /\ UnseenHeard

ChannelsInv == ChannelsTypes /\ NoneShown /\ (skipped \/ Heard)

LEMMA Created ==
    ASSUME ChannelsInv, NEW p \in Chatters, CreatePrivateChannel(p)
    PROVE  ChannelsTypes' /\ NoneShown' /\ (Heard => Heard')
<1>1. PICK c \in ChannelIds \ Existing :
          /\ channelOwner' = [d \in Existing \cup {c} |-> IF d = c THEN p ELSE channelOwner[d]]
          /\ users' = [users EXCEPT ![c] = {p}]
          /\ windows' = [windows EXCEPT ![p] = @ \cup {c}]
  BY DEF CreatePrivateChannel
<1>2. /\ p \in chattersLinked /\ p \in chattersOnline /\ OwnedBy(p) = {}
      /\ UNCHANGED <<invites, chattersOnline, chattersLinked, pending, unseen>>
  BY DEF CreatePrivateChannel, ChannelsInv, ChannelsTypes, chatterVars
<1>3. Existing' = Existing \cup {c}
  BY <1>1 DEF Existing
<1>4. ChannelsTypes'
  BY <1>1, <1>2, <1>3 DEF ChannelsInv, ChannelsTypes
<1>5. NoneShown'
  BY <1>1, <1>2 DEF ChannelsInv, ChannelsTypes, NoneShown
<1>6. ASSUME Heard
      PROVE  Heard'
  <2>1. UsersInvited'
    BY <1>1, <1>2, <1>3, <1>6 DEF ChannelsInv, ChannelsTypes, Heard, UsersInvited, IsInvited
  <2>2. OneChannelEach'
    BY <1>1, <1>2, <1>3, <1>6 DEF Heard, OneChannelEach, OwnedBy
  <2>3. OwnersListen'
    BY <1>1, <1>3, <1>6 DEF ChannelsInv, ChannelsTypes, Heard, OwnersListen
  <2>4. users[c] = {} /\ \A q \in Chatters : <<q, c>> \notin unseen
    BY <1>1, <1>6 DEF ChannelsInv, ChannelsTypes, Heard, UsersInvited, UnseenHeard
  <2>5. UnseenHeard'
    BY <1>1, <1>2, <1>6, <2>4 DEF ChannelsInv, ChannelsTypes, Heard, UnseenHeard
  <2>6. WindowsHeard'
    BY <1>1, <1>2, <1>3, <1>6, <2>4 DEF ChannelsInv, ChannelsTypes, Heard, WindowsHeard
  <2> QED
    BY <2>1, <2>2, <2>3, <2>5, <2>6 DEF Heard
<1> QED
  BY <1>4, <1>5, <1>6

LEMMA Invited ==
    ASSUME ChannelsInv, NEW p \in Chatters, NEW q \in Chatters, ChannelInvite(p, q)
    PROVE  ChannelsTypes' /\ NoneShown' /\ (Heard => Heard')
<1>1. PICK c \in OwnedBy(p) : invites' = [invites EXCEPT ![c] = @ \cup {q}]
  BY DEF ChannelInvite
<1>2. UNCHANGED <<channelOwner, users, chattersOnline, chattersLinked, pending, windows, unseen,
                  Existing>>
  BY DEF ChannelInvite, Existing, chatterVars
<1>3. ChannelsTypes' /\ NoneShown'
  BY <1>1, <1>2 DEF ChannelsInv, ChannelsTypes, NoneShown, OwnedBy
<1>4. ASSUME Heard
      PROVE  Heard'
  <2>1. \A d \in ChannelIds : invites[d] \subseteq invites'[d]
    BY <1>1 DEF ChannelsInv, ChannelsTypes
  <2>2. UsersInvited'
    BY <1>2, <1>4, <2>1 DEF Heard, UsersInvited, IsInvited
  <2> QED
    BY <1>2, <1>4, <2>2 DEF Heard, OneChannelEach, OwnersListen, WindowsHeard, UnseenHeard
<1> QED
  BY <1>3, <1>4

LEMMA ExcludedKeeps ==
    ASSUME ChannelsInv, NEW p \in Chatters, NEW q \in Chatters, ChannelExclude(p, q)
    PROVE  ChannelsTypes' /\ NoneShown' /\ (Heard => Heard')
<1>1. PICK c \in OwnedBy(p) :
          /\ invites' = [invites EXCEPT ![c] = @ \ {q}]
          /\ users' = [users EXCEPT ![c] = @ \ {q}]
          /\ windows' = [windows EXCEPT ![q] = @ \ {c}]
  BY DEF ChannelExclude, Excluded
<1>2. /\ UNCHANGED <<channelOwner, chattersOnline, chattersLinked, pending, Existing>> /\ p # q
      /\ unseen' = {x \in unseen : x[1] \in users'[x[2]]}
  BY DEF ChannelExclude, Existing, chatterVars, StillHeard
<1>3. c \in Existing /\ channelOwner[c] = p /\ c \in ChannelIds
  BY DEF OwnedBy, ChannelsInv, ChannelsTypes
<1>4. ChannelsTypes' /\ NoneShown'
  BY <1>1, <1>2, <1>3 DEF ChannelsInv, ChannelsTypes, NoneShown
<1>5. ASSUME Heard
      PROVE  Heard'
  <2>1. UsersInvited'
    BY <1>1, <1>2, <1>3, <1>5 DEF ChannelsInv, ChannelsTypes, Heard, UsersInvited, IsInvited
  <2>2. OwnersListen'
    BY <1>1, <1>2, <1>3, <1>5 DEF ChannelsInv, ChannelsTypes, Heard, OwnersListen
  <2>3. WindowsHeard'
    <3>1. \A r \in Chatters, d \in ChannelIds :
              r \in users'[d] => (<<r, d>> \in unseen' <=> <<r, d>> \in unseen)
      BY <1>2
    <3> QED
      BY <1>1, <1>2, <1>3, <1>5, <3>1 DEF ChannelsInv, ChannelsTypes, Heard, WindowsHeard
  <2>4. UnseenHeard'
    BY <1>2, <1>5 DEF Heard, UnseenHeard
  <2> QED
    BY <1>2, <1>5, <2>1, <2>2, <2>3, <2>4 DEF Heard, OneChannelEach
<1> QED
  BY <1>4, <1>5

LEMMA Opened ==
    ASSUME ChannelsInv, NEW p \in Chatters, NEW c \in ChannelIds, OpenChannel(p, c)
    PROVE  ChannelsTypes' /\ NoneShown' /\ (Heard => Heard')
<1>1. /\ p \in chattersOnline /\ c \in Existing /\ IsInvited(p, c) /\ p \notin users[c]
      /\ users' = [users EXCEPT ![c] = @ \cup {p}]
      /\ windows' = [windows EXCEPT ![p] = IF p \in chattersLinked THEN @ \cup {c} ELSE @]
      /\ UNCHANGED <<channelOwner, invites, chattersOnline, chattersLinked, pending, unseen,
                     Existing>>
  BY DEF OpenChannel, Existing, chatterVars
<1>2. ChannelsTypes' /\ NoneShown'
  BY <1>1 DEF ChannelsInv, ChannelsTypes, NoneShown
<1>3. ASSUME Heard
      PROVE  Heard'
  <2>1. UsersInvited'
    BY <1>1, <1>3 DEF ChannelsInv, ChannelsTypes, Heard, UsersInvited, IsInvited
  <2>2. OwnersListen'
    BY <1>1, <1>3 DEF ChannelsInv, ChannelsTypes, Heard, OwnersListen
  <2>3. WindowsHeard'
    <3>1. <<p, c>> \notin unseen
      BY <1>1, <1>3 DEF Heard, UnseenHeard
    <3> QED
      BY <1>1, <1>3, <3>1 DEF ChannelsInv, ChannelsTypes, Heard, WindowsHeard
  <2>4. UnseenHeard'
    BY <1>1, <1>3 DEF ChannelsInv, ChannelsTypes, Heard, UnseenHeard
  <2> QED
    BY <1>1, <1>3, <2>1, <2>2, <2>3, <2>4 DEF Heard, OneChannelEach
<1> QED
  BY <1>2, <1>3

----------------------------------------------------------------------------
(* Channels that go.                                                       *)

\* What is left when the channels C go, and who leaves, p, is no user of those
\* in D, among them C, any more.
LEMMA WithoutKeeps ==
    ASSUME ChannelsInv, Heard, NEW p \in Chatters, NEW C \in SUBSET OwnedBy(p),
           NEW D \in SUBSET ChannelIds, C \subseteq D, OwnedBy(p) \cap D \subseteq C,
           Without(C), windows' = Shown(p, C, D),
           users' = [c \in ChannelIds |-> IF c \in C THEN {}
                                          ELSE IF c \in D THEN users[c] \ {p} ELSE users[c]],
           \/ unseen' = StillHeard(unseen) /\ p \in chattersLinked'
           \/ unseen' = {x \in StillHeard(unseen) : x[1] # p} /\ D = ChannelIds,
           chattersOnline' \subseteq Chatters, chattersLinked' \subseteq chattersOnline',
           \A q \in Chatters \ {p} : /\ q \in chattersOnline => q \in chattersOnline'
                                     /\ q \in chattersLinked' <=> q \in chattersLinked,
           p \in chattersOnline' \/ D = ChannelIds,
           p \in chattersLinked' => p \in chattersLinked \/ D = ChannelIds
    PROVE  Heard'
<1>1. /\ Existing' = Existing \ C
      /\ \A c \in Existing' : channelOwner'[c] = channelOwner[c] /\ c \in ChannelIds
      /\ \A c \in Existing' : invites'[c] = invites[c]
  BY DEF Without, Existing, ChannelsInv, ChannelsTypes
<1>2. UsersInvited'
  <2>1. ASSUME NEW c \in ChannelIds, NEW q \in users'[c]
        PROVE  c \in Existing' /\ q \in chattersOnline' /\ IsInvited(q, c)'
    <3>1. c \notin C /\ q \in users[c] /\ (q # p \/ c \notin D) /\ q \in Chatters
      BY <2>1 DEF ChannelsInv, ChannelsTypes
    <3>2. c \in Existing /\ q \in chattersOnline /\ IsInvited(q, c)
      BY <3>1 DEF Heard, UsersInvited
    <3>3. c \in Existing' /\ IsInvited(q, c)'
      BY <1>1, <3>1, <3>2 DEF IsInvited
    <3> QED
      BY <3>1, <3>2, <3>3
  <2> QED
    BY <2>1 DEF UsersInvited
<1>3. OneChannelEach'
  BY <1>1 DEF Heard, OneChannelEach
<1>4. OwnersListen'
  <2>1. ASSUME NEW c \in Existing'
        PROVE  channelOwner'[c] \in users'[c]
    <3>1. c \in Existing \ C /\ c \in ChannelIds /\ channelOwner'[c] = channelOwner[c]
      BY <1>1
    <3>2. channelOwner[c] \in users[c]
      BY <3>1 DEF Heard, OwnersListen
    <3>3. c \in D => channelOwner[c] # p
      BY <3>1 DEF OwnedBy
    <3> QED
      BY <3>1, <3>2, <3>3
  <2> QED
    BY <2>1 DEF OwnersListen
<1>5. WindowsHeard'
  <2>1. ASSUME NEW q \in chattersLinked', q # p
        PROVE  windows'[q] = {c \in Existing' : q \in users'[c] /\ <<q, c>> \notin unseen'}
    <3>1. q \in Chatters /\ q \in chattersLinked /\ windows'[q] = windows[q] \ C
      BY <2>1 DEF Shown
    <3>2. windows[q] = {c \in Existing : q \in users[c] /\ <<q, c>> \notin unseen}
      BY <3>1 DEF Heard, WindowsHeard
    <3>3. \A c \in Existing' : q \in users'[c] <=> q \in users[c]
      BY <1>1, <2>1
    <3>4. \A c \in Existing' : q \in users'[c] => (<<q, c>> \in unseen' <=> <<q, c>> \in unseen)
      BY <2>1 DEF StillHeard
    <3> QED
      BY <1>1, <3>1, <3>2, <3>3, <3>4
  <2>2. ASSUME p \in chattersLinked'
        PROVE  windows'[p] = {c \in Existing' : p \in users'[c] /\ <<p, c>> \notin unseen'}
    <3>1. windows'[p] = windows[p] \ D
      BY DEF Shown
    <3>2. \A c \in Existing' : p \in users'[c] <=> p \in users[c] /\ c \notin D
      BY <1>1
    <3>3. CASE D = ChannelIds
      BY <1>1, <3>1, <3>2, <3>3 DEF ChannelsInv, ChannelsTypes
    <3>4. CASE p \in chattersLinked /\ D # ChannelIds
      <4>1. windows[p] = {c \in Existing : p \in users[c] /\ <<p, c>> \notin unseen}
        BY <3>4 DEF Heard, WindowsHeard
      <4>2. \A c \in Existing' : p \in users'[c] => (<<p, c>> \in unseen' <=> <<p, c>> \in unseen)
        BY <3>4 DEF StillHeard
      <4> QED
        BY <1>1, <3>1, <3>2, <4>1, <4>2
    <3> QED
      BY <2>2, <3>3, <3>4
  <2> QED
    BY <2>1, <2>2 DEF WindowsHeard
<1>6. UnseenHeard'
  <2>1. ASSUME NEW x \in unseen'
        PROVE  x \in chattersLinked' \X ChannelIds /\ x[1] \in users'[x[2]]
    <3>1. x \in unseen /\ x[1] \in users'[x[2]] /\ (x[1] = p => p \in chattersLinked')
      BY <2>1 DEF StillHeard
    <3>2. x \in chattersLinked \X ChannelIds /\ chattersLinked \subseteq Chatters
      BY <3>1 DEF Heard, UnseenHeard, ChannelsInv, ChannelsTypes
    <3> QED
      BY <3>1, <3>2
  <2> QED
    BY <2>1 DEF UnseenHeard
<1> QED
  BY <1>2, <1>3, <1>4, <1>5, <1>6 DEF Heard

\* The types, when players leave.
LEMMA WithoutTypes ==
    ASSUME ChannelsInv, NEW p \in Chatters, NEW C, NEW D, Without(C), windows' = Shown(p, C, D),
           users' \in [ChannelIds -> SUBSET Chatters],
           chattersOnline' \subseteq Chatters, chattersLinked' \subseteq chattersOnline',
           chattersLinked \subseteq chattersLinked' \cup {p},
           p \notin chattersLinked' => D = ChannelIds, pending' \in [Chatters -> Nat],
           \A q \in Chatters \ chattersOnline' : pending'[q] = 0
    PROVE  ChannelsTypes' /\ NoneShown'
<1>1. Existing' = Existing \ C
  BY DEF Without, Existing
<1>2. channelOwner' \in [Existing' -> Chatters] /\ invites' \in [ChannelIds -> SUBSET Chatters]
  BY <1>1 DEF ChannelsInv, ChannelsTypes, Without
<1>3. windows' \in [Chatters -> SUBSET ChannelIds]
  BY DEF ChannelsInv, ChannelsTypes, Shown
<1>4. ChannelsTypes'
  BY <1>1, <1>2, <1>3 DEF ChannelsInv, ChannelsTypes
<1>5. ASSUME NEW q \in Chatters \ chattersLinked'
      PROVE  windows'[q] = {}
  <2>1. CASE q = p
    BY <1>5, <2>1 DEF ChannelsInv, ChannelsTypes, Shown
  <2>2. CASE q # p
    BY <1>5, <2>2 DEF ChannelsInv, NoneShown, Shown
  <2> QED
    BY <2>1, <2>2
<1> QED
  BY <1>4, <1>5 DEF NoneShown

LEMMA Closed ==
    ASSUME ChannelsInv, NEW p \in Chatters, NEW c \in ChannelIds, CloseChannel(p, c)
    PROVE  ChannelsTypes' /\ NoneShown' /\ (Heard => Heard')
<1> DEFINE gone == {c} \cap OwnedBy(p)
<1>1. /\ Without(gone) /\ windows' = Shown(p, gone, {c})
      /\ users' = [users EXCEPT ![c] = IF gone = {} THEN @ \ {p} ELSE {}]
      /\ UNCHANGED <<chattersOnline, chattersLinked, pending>> /\ p \in chattersLinked
      /\ unseen' = StillHeard(unseen)
  BY DEF CloseChannel, chatterVars
<1>2. users' = [d \in ChannelIds |-> IF d \in gone THEN {}
                                     ELSE IF d \in {c} THEN users[d] \ {p} ELSE users[d]]
  BY <1>1 DEF ChannelsInv, ChannelsTypes
<1>3. users' \in [ChannelIds -> SUBSET Chatters]
  BY <1>2 DEF ChannelsInv, ChannelsTypes
<1>4. gone \in SUBSET OwnedBy(p) /\ gone \subseteq {c} /\ OwnedBy(p) \cap {c} \subseteq gone
      /\ {c} \in SUBSET ChannelIds
  OBVIOUS
<1>5. /\ chattersOnline' \subseteq Chatters /\ chattersLinked' \subseteq chattersOnline'
      /\ p \in chattersLinked' /\ p \in chattersOnline' /\ pending' \in [Chatters -> Nat]
      /\ \A q \in Chatters \ chattersOnline' : pending'[q] = 0
  BY <1>1 DEF ChannelsInv, ChannelsTypes
<1> HIDE DEF gone
<1>6. ChannelsTypes' /\ NoneShown'
  BY <1>1, <1>3, <1>5, WithoutTypes
<1>7. ASSUME Heard
      PROVE  Heard'
  BY <1>1, <1>2, <1>4, <1>5, <1>7, WithoutKeeps
<1> QED
  BY <1>6, <1>7

LEMMA LeftAll ==
    ASSUME ChannelsInv, NEW p \in Chatters, LogOut(p) \/ TakeOver(p)
    PROVE  ChannelsTypes' /\ NoneShown' /\ (skipped' \/ (~skipped /\ (Heard => Heard')))
<1> DEFINE C == OwnedBy(p)
<1>1. PICK missed \in SUBSET {c \in Existing : \E d \in C : d < c} :
          /\ Without(C) /\ windows' = Shown(p, C, ChannelIds)
          /\ users' = [c \in ChannelIds |-> Remaining(p, missed, c)]
          /\ skipped' = (skipped \/ \E c \in missed : p \in users[c])
          /\ unseen' = {x \in StillHeard(unseen) : x[1] # p}
  BY DEF LogOut, TakeOver, LeaveAllChannels
<1>2. /\ chattersOnline' \subseteq Chatters /\ chattersLinked' \subseteq chattersOnline'
      /\ chattersLinked \subseteq chattersLinked' \cup {p}
      /\ \A q \in Chatters \ {p} : /\ q \in chattersOnline => q \in chattersOnline'
                                   /\ q \in chattersLinked' <=> q \in chattersLinked
      /\ pending' \in [Chatters -> Nat]
      /\ \A q \in Chatters \ chattersOnline' : pending'[q] = 0
  BY DEF LogOut, TakeOver, ChannelsInv, ChannelsTypes
<1>3. C \in SUBSET ChannelIds
  BY DEF OwnedBy, ChannelsInv, ChannelsTypes
<1>4. users' \in [ChannelIds -> SUBSET Chatters]
  BY <1>1 DEF Remaining, ChannelsInv, ChannelsTypes
<1>5. ChannelsTypes' /\ NoneShown'
  <2> HIDE DEF C
  <2> QED
    BY <1>1, <1>2, <1>4, WithoutTypes
<1>6. ASSUME ~skipped', Heard
      PROVE  Heard'
  <2>1. \A c \in missed : p \notin users[c]
    BY <1>1, <1>6
  <2>2. users' = [c \in ChannelIds |-> IF c \in C THEN {}
                                       ELSE IF c \in ChannelIds THEN users[c] \ {p} ELSE users[c]]
    <3>1. ASSUME NEW c \in ChannelIds
          PROVE  Remaining(p, missed, c) =
                     IF c \in C THEN {} ELSE IF c \in ChannelIds THEN users[c] \ {p} ELSE users[c]
      BY <2>1 DEF Remaining
    <3> QED
      BY <1>1, <3>1
  <2>3. /\ C \in SUBSET OwnedBy(p) /\ ChannelIds \in SUBSET ChannelIds /\ C \subseteq ChannelIds
        /\ OwnedBy(p) \cap ChannelIds \subseteq C
    BY <1>3
  <2> HIDE DEF C
  <2> QED
    BY <1>1, <1>2, <1>6, <2>2, <2>3, WithoutKeeps
<1>7. skipped' \/ ~skipped
  BY <1>1
<1> QED
  BY <1>5, <1>6, <1>7

----------------------------------------------------------------------------
LEMMA CameOrLost ==
    ASSUME ChannelsInv, NEW p \in Chatters, LogIn(p) \/ ChatLinkLost(p) \/ Connect(p)
    PROVE  ChannelsTypes' /\ NoneShown' /\ (Heard => Heard')
<1>1. UNCHANGED <<channelOwner, invites, users, Existing>>
  BY DEF LogIn, ChatLinkLost, Connect, Existing
<1>2. ChannelsTypes' /\ NoneShown'
  BY <1>1 DEF LogIn, ChatLinkLost, Connect, ChannelsInv, ChannelsTypes, NoneShown
<1>3. ASSUME Heard
      PROVE  Heard'
  <2>1. UsersInvited'
    BY <1>1, <1>3 DEF LogIn, ChatLinkLost, Connect, Heard, UsersInvited, IsInvited
  <2>2. WindowsHeard' /\ UnseenHeard'
    <3>1. CASE LogIn(p)
      <4>1. windows[p] = {} /\ \A c \in Existing : p \notin users[c]
        BY <1>3, <3>1 DEF LogIn, ChannelsInv, ChannelsTypes, NoneShown, Heard, UsersInvited
      <4> QED
        BY <1>1, <1>3, <3>1, <4>1 DEF LogIn, Heard, WindowsHeard, UnseenHeard
    <3>2. CASE ChatLinkLost(p)
      <4>1. \A q \in chattersLinked' : q \in chattersLinked /\ q # p /\ windows'[q] = windows[q]
        BY <3>2 DEF ChatLinkLost, ChannelsInv, ChannelsTypes
      <4>2. \A q \in chattersLinked', c \in Existing : <<q, c>> \in unseen' <=> <<q, c>> \in unseen
        BY <3>2, <4>1 DEF ChatLinkLost
      <4>3. UnseenHeard'
        BY <1>3, <3>2 DEF ChatLinkLost, Heard, UnseenHeard
      <4> QED
        BY <1>1, <1>3, <4>1, <4>2, <4>3 DEF Heard, WindowsHeard
    <3>3. CASE Connect(p) /\ UNCHANGED <<chattersLinked, unseen>>
      BY <1>1, <1>3, <3>3 DEF Connect, Heard, WindowsHeard, UnseenHeard
    <3>4. CASE /\ Connect(p) /\ p \notin chattersLinked /\ chattersLinked' = chattersLinked \cup {p}
               /\ unseen' = unseen \cup {<<p, c>> : c \in {c \in ChannelIds : p \in users[c]}}
      <4>1. windows' = windows /\ windows[p] = {}
        BY <3>4 DEF Connect, ChannelsInv, NoneShown
      <4>2. \A c \in Existing : p \in users[c] => <<p, c>> \in unseen'
        BY <3>4 DEF ChannelsInv, ChannelsTypes
      <4>3. \A q \in chattersLinked, c \in Existing : <<q, c>> \in unseen' <=> <<q, c>> \in unseen
        BY <3>4
      <4>4. UnseenHeard'
        BY <1>1, <1>3, <3>4 DEF Heard, UnseenHeard
      <4> QED
        BY <1>1, <1>3, <3>4, <4>1, <4>2, <4>3, <4>4 DEF Heard, WindowsHeard
    <3> QED
      BY <3>1, <3>2, <3>3, <3>4 DEF Connect
  <2> QED
    BY <1>1, <1>3, <2>1, <2>2 DEF Heard, OneChannelEach, OwnersListen
<1> QED
  BY <1>2, <1>3

LEMMA ChannelsBegin == ChannelsInit => ChannelsInv
<1> SUFFICES ASSUME ChannelsInit PROVE ChannelsInv
  OBVIOUS
<1>1. Existing = {}
  BY DEF ChannelsInit, Existing
<1>2. ChannelsTypes /\ NoneShown
  BY <1>1 DEF ChannelsInit, ChannelsTypes, NoneShown
<1>3. Heard
  BY <1>1 DEF ChannelsInit, Heard, UsersInvited, OneChannelEach, OwnersListen, WindowsHeard,
              UnseenHeard
<1> QED
  BY <1>2, <1>3 DEF ChannelsInv

LEMMA ChannelsGoOn == ChannelsInv /\ [ChannelsNext]_channelsVars => ChannelsInv'
<1> SUFFICES ASSUME ChannelsInv, [ChannelsNext]_channelsVars PROVE ChannelsInv'
  OBVIOUS
<1>1. ASSUME ChannelsTypes', NoneShown', Heard => Heard', skipped' = skipped
      PROVE  ChannelsInv'
  BY <1>1 DEF ChannelsInv
<1>2. ASSUME NEW p \in Chatters, CreatePrivateChannel(p)
      PROVE  ChannelsInv'
  BY <1>1, <1>2, Created DEF CreatePrivateChannel
<1>3. ASSUME NEW p \in Chatters, NEW q \in Chatters, ChannelInvite(p, q)
      PROVE  ChannelsInv'
  BY <1>1, <1>3, Invited DEF ChannelInvite
<1>4. ASSUME NEW p \in Chatters, NEW q \in Chatters, ChannelExclude(p, q)
      PROVE  ChannelsInv'
  BY <1>1, <1>4, ExcludedKeeps DEF ChannelExclude
<1>5. ASSUME NEW p \in Chatters, NEW c \in ChannelIds, OpenChannel(p, c)
      PROVE  ChannelsInv'
  BY <1>1, <1>5, Opened DEF OpenChannel
<1>6. ASSUME NEW p \in Chatters, NEW c \in ChannelIds, CloseChannel(p, c)
      PROVE  ChannelsInv'
  BY <1>1, <1>6, Closed DEF CloseChannel
<1>7. ASSUME NEW p \in Chatters, LogIn(p) \/ ChatLinkLost(p) \/ Connect(p)
      PROVE  ChannelsInv'
  BY <1>1, <1>7, CameOrLost DEF LogIn, ChatLinkLost, Connect
<1>8. ASSUME NEW p \in Chatters, LogOut(p) \/ TakeOver(p)
      PROVE  ChannelsInv'
  BY <1>8, LeftAll DEF ChannelsInv
<1>9. CASE UNCHANGED channelsVars
  BY <1>9 DEF channelsVars, ChannelsInv, ChannelsTypes, NoneShown, Heard, UsersInvited,
              OneChannelEach, OwnersListen, WindowsHeard, UnseenHeard, Existing, IsInvited
<1> QED
  BY <1>2, <1>3, <1>4, <1>5, <1>6, <1>7, <1>8, <1>9 DEF ChannelsNext

\* For any players and any numbers of channels: unless removeUserFromAllChannels
\* missed a channel, who hears one is in the game and invited by its owner, and
\* clients show what their players hear, also when a number is given out again,
\* but for channels opened before a pending connect linked the client.
THEOREM ChannelsHeardByInvited == ChannelsSpec => []ListenersInvited
<1>1. ChannelsInv => ListenersInvited
  BY DEF ChannelsInv, Heard, ListenersInvited
<1>2. ChannelsSpec => []ChannelsInv
  BY ChannelsBegin, ChannelsGoOn, PTL DEF ChannelsSpec
<1> QED
  BY <1>1, <1>2, PTL

----------------------------------------------------------------------------
(* The waiting list. It stays in line when entries that timed out are      *)
(* dropped and when somebody is inserted or leaves, and whoever was told a *)
(* place has as much time left as the promise still needs.                 *)

PremiumFirst(s) == \A j, k \in 1 .. Len(s) : j < k /\ s[k] \in Premium => s[j] \in Premium
InLine(s) ==
    /\ s \in Seq(Clients)
    /\ \A j, k \in 1 .. Len(s) : s[j] = s[k] => j = k
    /\ PremiumFirst(s)

WaitTypes ==
    /\ timeLeft \in [Clients -> Nat] /\ waited \in [Clients -> Nat]
    /\ toldPlace \in [Clients -> Int]
    /\ playersOnline \subseteq Clients /\ IsFiniteSet(playersOnline)

Promised(c) ==
    /\ timeLeft[c] > 0 => c \in ToSet(waitList)
    /\ toldPlace[c] > 0 => timeLeft[c] + waited[c] >= GetTime(toldPlace[c]) + 3

WaitInv == WaitTypes /\ InLine(waitList) /\ \A c \in Clients : Promised(c)

LEMMA NumbersFromZero ==
    ASSUME NEW S, 0 \in S, \A n \in Nat : n \in S => n + 1 \in S
    PROVE  \A n \in Nat : n \in S
<1> DEFINE T == Nat \ S
<1>1. SUFFICES ASSUME T # {}
               PROVE  FALSE
  OBVIOUS
<1>2. PICK n \in T : \A m \in T : ~ (<<m, n>> \in OpToRel(<, Nat))
  BY <1>1, WFMin, NatLessThanWellFounded, Zenon
<1>3. \A m \in T : ~(m < n)
  BY <1>2, Zenon DEF OpToRel
<1>4. n # 0 /\ n - 1 \in Nat /\ n - 1 < n /\ n = (n - 1) + 1
  OBVIOUS
<1>5. n - 1 \in S
  BY <1>3, <1>4
<1> QED
  BY <1>4, <1>5

LEMMA TimesToWait == \A slot \in Int : GetTime(slot) \in {1, 2, 4, 12, 24}
BY DEF GetTime

LEMMA InLineIndices ==
    ASSUME NEW s \in Seq(Clients)
    PROVE  /\ Len(s) \in Nat /\ DOMAIN s = 1 .. Len(s)
           /\ ToSet(s) = {s[i] : i \in 1 .. Len(s)} /\ \A i \in 1 .. Len(s) : s[i] \in Clients
BY DEF ToSet

\* cleanUpList, entry by entry.
Cleaned(s, n) == IF timeLeft[waitList[n]] > 0 THEN Append(s, waitList[n]) ELSE s

Cleanings(n) ==
    {f \in [0 .. n -> Seq(Clients)] :
        f[0] = <<>> /\ \A m \in 1 .. n : f[m] = Cleaned(f[m - 1], m)}

LEMMA CleaningsExist ==
    ASSUME waitList \in Seq(Clients)
    PROVE  \A n \in Nat : n <= Len(waitList) => Cleanings(n) # {}
<1> DEFINE S == {n \in Nat : n <= Len(waitList) => Cleanings(n) # {}}
<1>a. Len(waitList) \in Nat /\ \A i \in 1 .. Len(waitList) : waitList[i] \in Clients
  BY InLineIndices
<1>1. 0 \in S
  <2>1. [m \in 0 .. 0 |-> <<>>] \in Cleanings(0)
    BY DEF Cleanings
  <2> QED
    BY <2>1
<1>2. ASSUME NEW n \in Nat, n \in S
      PROVE  n + 1 \in S
  <2>1. SUFFICES ASSUME n + 1 <= Len(waitList)
                 PROVE  Cleanings(n + 1) # {}
    OBVIOUS
  <2>2. PICK f : f \in Cleanings(n)
    BY <1>2, <1>a, <2>1
  <2>3. /\ f \in [0 .. n -> Seq(Clients)]
        /\ f[0] = <<>> /\ \A m \in 1 .. n : f[m] = Cleaned(f[m - 1], m)
    BY <2>2 DEF Cleanings
  <2> DEFINE next == [m \in 0 .. n + 1 |-> IF m = n + 1 THEN Cleaned(f[n], n + 1) ELSE f[m]]
  <2>4. Cleaned(f[n], n + 1) \in Seq(Clients)
    <3>1. f[n] \in Seq(Clients) /\ waitList[n + 1] \in Clients
      BY <1>a, <2>1, <2>3
    <3> QED
      BY <3>1 DEF Cleaned
  <2>5. next \in [0 .. n + 1 -> Seq(Clients)]
    BY <2>3, <2>4
  <2>6. next[0] = <<>>
    BY <2>3
  <2>7. ASSUME NEW m \in 1 .. n + 1
        PROVE  next[m] = Cleaned(next[m - 1], m)
    <3>1. CASE m = n + 1
      BY <3>1
    <3>2. CASE m # n + 1
      <4>1. m \in 1 .. n /\ m - 1 \in 0 .. n /\ m \in 0 .. n + 1 /\ m - 1 \in 0 .. n + 1 /\ m - 1 # n + 1
        BY <3>2
      <4>2. next[m] = f[m] /\ next[m - 1] = f[m - 1]
        BY <3>2, <4>1
      <4> QED
        BY <2>3, <4>1, <4>2
    <3> QED
      BY <3>1, <3>2
  <2> HIDE DEF next
  <2>8. next \in Cleanings(n + 1)
    BY <2>5, <2>6, <2>7 DEF Cleanings
  <2> QED
    BY <2>8
<1> HIDE DEF S
<1>3. \A n \in Nat : n \in S
  BY <1>1, <1>2, NumbersFromZero
<1> QED
  BY <1>3 DEF S

LEMMA CleanUpIsACleaning ==
    ASSUME waitList \in Seq(Clients)
    PROVE  \E f : /\ CleanUpList = f[Len(waitList)] /\ f[0] = <<>>
                  /\ \A n \in 1 .. Len(waitList) : f[n] = Cleaned(f[n - 1], n)
<1> DEFINE N == Len(waitList)
           list[n \in 0 .. N] ==
               IF n = 0 THEN <<>>
               ELSE IF timeLeft[waitList[n]] > 0 THEN Append(list[n - 1], waitList[n])
               ELSE list[n - 1]
<1>1. N \in Nat
  OBVIOUS
<1>2. PICK f : f \in Cleanings(N)
  BY <1>1, CleaningsExist
<1>3. /\ f \in [0 .. N -> Seq(Clients)] /\ f[0] = <<>>
      /\ \A m \in 1 .. N : f[m] = Cleaned(f[m - 1], m)
  BY <1>2 DEF Cleanings
<1>4. f = [n \in 0 .. N |-> IF n = 0 THEN <<>>
                            ELSE IF timeLeft[waitList[n]] > 0 THEN Append(f[n - 1], waitList[n])
                            ELSE f[n - 1]]
  <2>1. \A n \in 0 .. N : f[n] = IF n = 0 THEN <<>>
                                 ELSE IF timeLeft[waitList[n]] > 0 THEN Append(f[n - 1], waitList[n])
                                 ELSE f[n - 1]
    <3> SUFFICES ASSUME NEW n \in 0 .. N
                 PROVE  f[n] = IF n = 0 THEN <<>>
                               ELSE IF timeLeft[waitList[n]] > 0 THEN Append(f[n - 1], waitList[n])
                               ELSE f[n - 1]
      OBVIOUS
    <3>1. CASE n = 0
      BY <1>3, <3>1
    <3>2. CASE n # 0
      <4>1. n \in 1 .. N
        BY <1>1, <3>2
      <4> QED
        BY <1>3, <3>2, <4>1 DEF Cleaned
    <3> QED
      BY <3>1, <3>2
  <2> QED
    BY <1>3, <2>1
<1>5. list = [n \in 0 .. N |-> IF n = 0 THEN <<>>
                               ELSE IF timeLeft[waitList[n]] > 0 THEN Append(list[n - 1], waitList[n])
                               ELSE list[n - 1]]
  BY <1>4, Zenon
<1>6. CleanUpList = list[N]
  BY DEF CleanUpList
<1> HIDE DEF list
<1>7. list[0] = <<>> /\ \A n \in 1 .. N : list[n] = Cleaned(list[n - 1], n)
  <2>1. 0 \in 0 .. N /\ \A n \in 1 .. N : n \in 0 .. N /\ n # 0
    BY <1>1
  <2>2. \A n \in 0 .. N : list[n] = IF n = 0 THEN <<>>
                                    ELSE IF timeLeft[waitList[n]] > 0 THEN Append(list[n - 1], waitList[n])
                                    ELSE list[n - 1]
    BY <1>5
  <2> QED
    BY <2>1, <2>2 DEF Cleaned
<1> QED
  BY <1>6, <1>7

\* Those who are not timed out stay, in their order.
LEMMA CleanUpFacts ==
    ASSUME WaitTypes, InLine(waitList)
    PROVE  /\ InLine(CleanUpList)
           /\ ToSet(CleanUpList) = {c \in ToSet(waitList) : timeLeft[c] > 0}
           /\ waitList = <<>> => CleanUpList = <<>>
<1> DEFINE N == Len(waitList)
           Alive(n) == {waitList[i] : i \in {j \in 1 .. n : timeLeft[waitList[j]] > 0}}
<1>a. /\ N \in Nat /\ ToSet(waitList) = {waitList[i] : i \in 1 .. N}
      /\ \A i \in 1 .. N : waitList[i] \in Clients
      /\ \A j, k \in 1 .. N : waitList[j] = waitList[k] => j = k
      /\ \A j, k \in 1 .. N : j < k /\ waitList[k] \in Premium => waitList[j] \in Premium
  BY InLineIndices DEF InLine, PremiumFirst
<1>1. PICK f : /\ CleanUpList = f[N] /\ f[0] = <<>>
               /\ \A n \in 1 .. N : f[n] = Cleaned(f[n - 1], n)
  BY CleanUpIsACleaning DEF InLine
<1> DEFINE S == {n \in Nat : n <= N => InLine(f[n]) /\ ToSet(f[n]) = Alive(n)}
<1>2. 0 \in S
  <2>1. InLine(<<>>)
    BY DEF InLine, PremiumFirst
  <2>2. ToSet(<<>>) = {} /\ Alive(0) = {}
    BY DEF ToSet
  <2> QED
    BY <1>1, <2>1, <2>2
<1>3. ASSUME NEW n \in Nat, n \in S
      PROVE  n + 1 \in S
  <2>1. SUFFICES ASSUME n + 1 <= N
                 PROVE  InLine(f[n + 1]) /\ ToSet(f[n + 1]) = Alive(n + 1)
    OBVIOUS
  <2> DEFINE s == f[n]
             c == waitList[n + 1]
  <2>2. /\ n + 1 \in 1 .. N /\ (n + 1) - 1 = n /\ n <= N
        /\ \A i \in 1 .. n : i \in 1 .. N /\ i # n + 1 /\ i < n + 1
        /\ 1 .. n + 1 = (1 .. n) \cup {n + 1}
    BY <1>a, <2>1
  <2>3. InLine(s) /\ ToSet(s) = Alive(n)
    BY <1>3, <2>2
  <2>4. f[n + 1] = Cleaned(s, n + 1)
    BY <1>1, <2>2
  <2>5. c \in Clients
    BY <1>a, <2>2
  <2>6. CASE ~(timeLeft[c] > 0)
    <3>1. f[n + 1] = s
      BY <2>4, <2>6 DEF Cleaned
    <3>2. Alive(n + 1) = Alive(n)
      BY <2>2, <2>6
    <3> QED
      BY <2>3, <3>1, <3>2
  <2>7. CASE timeLeft[c] > 0
    <3>1. f[n + 1] = Append(s, c)
      BY <2>4, <2>7 DEF Cleaned
    <3>2. Alive(n + 1) = Alive(n) \cup {c}
      BY <2>2, <2>7
    <3>3. c \notin Alive(n)
      BY <1>a, <2>2
    <3>4. c \in Premium => Alive(n) \subseteq Premium
      BY <1>a, <2>2
    <3>5. /\ s \in Seq(Clients) /\ Len(s) \in Nat /\ ToSet(s) = {s[i] : i \in 1 .. Len(s)}
          /\ \A j, k \in 1 .. Len(s) : s[j] = s[k] => j = k
          /\ \A j, k \in 1 .. Len(s) : j < k /\ s[k] \in Premium => s[j] \in Premium
      BY <2>3, InLineIndices DEF InLine, PremiumFirst
    <3> HIDE DEF s, c, Alive
    <3> DEFINE t == Append(s, c)
    <3>6. /\ t \in Seq(Clients) /\ Len(t) = Len(s) + 1 /\ t[Len(s) + 1] = c
          /\ \A i \in 1 .. Len(s) : t[i] = s[i]
      BY <2>5, <3>5, AppendProperties
    <3>7. 1 .. Len(t) = (1 .. Len(s)) \cup {Len(s) + 1} /\ \A i \in 1 .. Len(s) : i < Len(s) + 1
      BY <3>5, <3>6
    <3> HIDE DEF t
    <3>8. ToSet(t) = ToSet(s) \cup {c}
      BY <3>5, <3>6, <3>7, InLineIndices
    <3>9. \A i \in 1 .. Len(s) : s[i] \in Alive(n)
      BY <2>3, <3>5
    <3>10. \A j, k \in 1 .. Len(t) : t[j] = t[k] => j = k
      BY <3>3, <3>5, <3>6, <3>7, <3>9
    <3>11. \A j, k \in 1 .. Len(t) : j < k /\ t[k] \in Premium => t[j] \in Premium
      <4> SUFFICES ASSUME NEW j \in 1 .. Len(t), NEW k \in 1 .. Len(t), j < k, t[k] \in Premium
                   PROVE  t[j] \in Premium
        OBVIOUS
      <4>1. j \in 1 .. Len(s)
        BY <3>5, <3>6
      <4>2. CASE k = Len(s) + 1
        BY <3>4, <3>6, <3>9, <4>1, <4>2
      <4>3. CASE k \in 1 .. Len(s)
        BY <3>5, <3>6, <4>1, <4>3
      <4> QED
        BY <3>7, <4>2, <4>3
    <3> QED
      BY <2>3, <3>1, <3>2, <3>6, <3>8, <3>10, <3>11 DEF InLine, PremiumFirst, t
  <2> QED
    BY <2>6, <2>7
<1> HIDE DEF S
<1>4. \A n \in Nat : n \in S
  BY <1>2, <1>3, NumbersFromZero
<1>5. InLine(CleanUpList) /\ ToSet(CleanUpList) = Alive(N)
  <2>1. N \in Nat /\ N <= N
    BY <1>a
  <2>2. InLine(f[N]) /\ ToSet(f[N]) = Alive(N)
    BY <1>4, <2>1 DEF S
  <2> QED
    BY <1>1, <2>2
<1>6. Alive(N) = {c \in ToSet(waitList) : timeLeft[c] > 0}
  BY <1>a
<1>7. waitList = <<>> => CleanUpList = <<>>
  BY <1>1
<1> QED
  BY <1>5, <1>6, <1>7

\* SubSeq, RemoveAt and InsertAt of SequencesExt.
LEMMA PartsOfALine ==
    ASSUME NEW s \in Seq(Clients), NEW k \in 1 .. Len(s) + 1
    PROVE  /\ SubSeq(s, 1, k - 1) \in Seq(Clients) /\ Len(SubSeq(s, 1, k - 1)) = k - 1
           /\ \A i \in 1 .. k - 1 : SubSeq(s, 1, k - 1)[i] = s[i]
           /\ SubSeq(s, k, Len(s)) \in Seq(Clients) /\ Len(SubSeq(s, k, Len(s))) = Len(s) + 1 - k
           /\ \A i \in 1 .. Len(s) + 1 - k : SubSeq(s, k, Len(s))[i] = s[k + i - 1]
<1> DEFINE n == Len(s)
<1>1. n \in Nat /\ \A i \in 1 .. n : s[i] \in Clients
  BY InLineIndices
<1>2. /\ SubSeq(s, 1, k - 1) \in Seq(Clients)
      /\ Len(SubSeq(s, 1, k - 1)) = IF 1 <= k - 1 THEN k - 1 - 1 + 1 ELSE 0
      /\ \A i \in 1 .. k - 1 - 1 + 1 : SubSeq(s, 1, k - 1)[i] = s[1 + i - 1]
  <2>1. \A i \in 1 .. k - 1 : s[i] \in Clients
    BY <1>1
  <2> QED
    BY <1>1, <2>1, SubSeqProperties
<1>3. /\ SubSeq(s, k, n) \in Seq(Clients)
      /\ Len(SubSeq(s, k, n)) = IF k <= n THEN n - k + 1 ELSE 0
      /\ \A i \in 1 .. n - k + 1 : SubSeq(s, k, n)[i] = s[k + i - 1]
  <2>1. \A i \in k .. n : s[i] \in Clients
    BY <1>1
  <2> QED
    BY <1>1, <2>1, SubSeqProperties
<1> DEFINE left == SubSeq(s, 1, k - 1)
           right == SubSeq(s, k, n)
<1> HIDE DEF left, right, n
<1>4. /\ left \in Seq(Clients) /\ Len(left) = k - 1 /\ \A i \in 1 .. k - 1 : left[i] = s[i]
  <2>1. k \in 1 .. n + 1
    BY DEF n
  <2> QED
    BY <1>1, <1>2, <2>1 DEF left
<1>5. /\ right \in Seq(Clients) /\ Len(right) = n + 1 - k
      /\ \A i \in 1 .. n + 1 - k : right[i] = s[k + i - 1]
  <2>1. k \in 1 .. n + 1 /\ n - k + 1 = n + 1 - k
    BY <1>1 DEF n
  <2> QED
    BY <1>1, <1>3, <2>1 DEF right
<1> QED
  BY <1>4, <1>5 DEF left, right, n

LEMMA LineWithout ==
    ASSUME NEW s, InLine(s), NEW k \in 1 .. Len(s)
    PROVE  /\ InLine(RemoveAt(s, k)) /\ ToSet(RemoveAt(s, k)) = ToSet(s) \ {s[k]}
<1> DEFINE n == Len(s)
           left == SubSeq(s, 1, k - 1)
           right == SubSeq(s, k + 1, n)
           r == RemoveAt(s, k)
<1>1. /\ s \in Seq(Clients) /\ n \in Nat /\ ToSet(s) = {s[i] : i \in 1 .. n}
      /\ \A i, j \in 1 .. n : s[i] = s[j] => i = j
      /\ \A i, j \in 1 .. n : i < j /\ s[j] \in Premium => s[i] \in Premium
  BY InLineIndices DEF InLine, PremiumFirst
<1>2. /\ left \in Seq(Clients) /\ Len(left) = k - 1 /\ \A i \in 1 .. k - 1 : left[i] = s[i]
  <2>1. k \in 1 .. Len(s) + 1
    BY <1>1
  <2> QED
    BY <1>1, <2>1, PartsOfALine
<1>3. /\ right \in Seq(Clients) /\ Len(right) = n - k /\ \A i \in 1 .. n - k : right[i] = s[k + i]
  <2>1. k + 1 \in 1 .. Len(s) + 1
    BY <1>1
  <2>2. /\ right \in Seq(Clients) /\ Len(right) = n + 1 - (k + 1)
        /\ \A i \in 1 .. n + 1 - (k + 1) : right[i] = s[k + 1 + i - 1]
    BY <1>1, <2>1, PartsOfALine
  <2>3. k \in Nat /\ n + 1 - (k + 1) = n - k /\ \A i \in 1 .. n - k : k + 1 + i - 1 = k + i
    BY <1>1
  <2> HIDE DEF n, right
  <2> QED
    BY <2>2, <2>3
<1>4. r = left \o right
  BY DEF RemoveAt
<1>5. k \in 1 .. n
  OBVIOUS
<1> HIDE DEF left, right, r, n
<1>6. /\ r \in Seq(Clients) /\ Len(r) = n - 1
      /\ \A i \in 1 .. n - 1 : r[i] = IF i < k THEN s[i] ELSE s[i + 1]
  <2>1. /\ r \in Seq(Clients) /\ Len(r) = Len(left) + Len(right)
        /\ \A i \in 1 .. Len(left) + Len(right) :
              r[i] = IF i <= Len(left) THEN left[i] ELSE right[i - Len(left)]
    BY <1>2, <1>3, <1>4, ConcatProperties
  <2>2. Len(left) + Len(right) = n - 1
    BY <1>1, <1>2, <1>3, <1>5
  <2> SUFFICES ASSUME NEW i \in 1 .. n - 1
               PROVE  r[i] = IF i < k THEN s[i] ELSE s[i + 1]
    BY <2>1, <2>2
  <2>3. r[i] = IF i <= k - 1 THEN left[i] ELSE right[i - (k - 1)]
    BY <1>2, <2>1, <2>2
  <2>4. CASE i < k
    BY <1>1, <1>2, <1>5, <2>3, <2>4
  <2>5. CASE ~(i < k)
    <3>1. i - (k - 1) \in 1 .. n - k /\ k + (i - (k - 1)) = i + 1 /\ ~(i <= k - 1)
      BY <1>1, <1>5, <2>5
    <3> QED
      BY <1>3, <2>3, <2>5, <3>1
  <2> QED
    BY <2>4, <2>5
<1>7. \A i \in 1 .. n - 1 : \E j \in 1 .. n : j = (IF i < k THEN i ELSE i + 1) /\ j # k /\ r[i] = s[j]
  BY <1>1, <1>5, <1>6
<1>8. \A j \in 1 .. n : j # k => \E i \in 1 .. n - 1 : r[i] = s[j]
  <2> SUFFICES ASSUME NEW j \in 1 .. n, j # k
               PROVE  \E i \in 1 .. n - 1 : r[i] = s[j]
    OBVIOUS
  <2>1. CASE j < k
    <3>1. j \in 1 .. n - 1
      BY <1>1, <1>5, <2>1
    <3> QED
      BY <1>6, <2>1, <3>1
  <2>2. CASE ~(j < k)
    <3>1. j - 1 \in 1 .. n - 1 /\ ~(j - 1 < k) /\ (j - 1) + 1 = j
      BY <1>1, <1>5, <2>2
    <3> QED
      BY <1>6, <3>1
  <2> QED
    BY <2>1, <2>2
<1>9. ToSet(r) = {r[i] : i \in 1 .. n - 1}
  BY <1>6, InLineIndices
<1>10. ToSet(r) = ToSet(s) \ {s[k]}
  <2>1. \A x \in ToSet(r) : x \in ToSet(s) /\ x # s[k]
    BY <1>1, <1>5, <1>7, <1>9
  <2>2. \A x \in ToSet(s) \ {s[k]} : x \in ToSet(r)
    BY <1>1, <1>8, <1>9
  <2> QED
    BY <2>1, <2>2
<1>11. \A i, j \in 1 .. n - 1 : r[i] = r[j] => i = j
  <2>1. \A i, j \in 1 .. n - 1 :
            (IF i < k THEN i ELSE i + 1) = (IF j < k THEN j ELSE j + 1) => i = j
    BY <1>1, <1>5
  <2> SUFFICES ASSUME NEW i \in 1 .. n - 1, NEW j \in 1 .. n - 1, r[i] = r[j]
               PROVE  i = j
    OBVIOUS
  <2>2. (IF i < k THEN i ELSE i + 1) = (IF j < k THEN j ELSE j + 1)
    BY <1>1, <1>7
  <2> QED
    BY <2>1, <2>2
<1>12. \A i, j \in 1 .. n - 1 : i < j /\ r[j] \in Premium => r[i] \in Premium
  <2> SUFFICES ASSUME NEW i \in 1 .. n - 1, NEW j \in 1 .. n - 1, i < j, r[j] \in Premium
               PROVE  r[i] \in Premium
    OBVIOUS
  <2>1. PICK x \in 1 .. n : x = (IF i < k THEN i ELSE i + 1) /\ r[i] = s[x]
    BY <1>7
  <2>2. PICK y \in 1 .. n : y = (IF j < k THEN j ELSE j + 1) /\ r[j] = s[y]
    BY <1>7
  <2>3. x < y
    BY <1>1, <1>5, <2>1, <2>2
  <2> QED
    BY <1>1, <2>1, <2>2, <2>3
<1> QED
  BY <1>6, <1>10, <1>11, <1>12 DEF InLine, PremiumFirst, r

\* A premium client goes in front of the first who is none, others to the end.
LEMMA LineWith ==
    ASSUME NEW s, InLine(s), NEW c \in Clients \ ToSet(s), NEW k \in InsertPlace(s, c)
    PROVE  /\ InLine(InsertAt(s, k, c)) /\ ToSet(InsertAt(s, k, c)) = ToSet(s) \cup {c}
           /\ k \in 1 .. Len(s) + 1
<1> DEFINE n == Len(s)
           left == SubSeq(s, 1, k - 1)
           right == SubSeq(s, k, n)
           front == left \o <<c>>
           r == InsertAt(s, k, c)
<1>1. /\ s \in Seq(Clients) /\ n \in Nat /\ ToSet(s) = {s[i] : i \in 1 .. n}
      /\ \A i, j \in 1 .. n : s[i] = s[j] => i = j
      /\ \A i, j \in 1 .. n : i < j /\ s[j] \in Premium => s[i] \in Premium
  BY InLineIndices DEF InLine, PremiumFirst
<1>2. /\ k \in 1 .. n + 1
      /\ c \in Premium => \A i \in 1 .. k - 1 : s[i] \in Premium
      /\ c \notin Premium => k = n + 1
      /\ c \in Premium => \A i \in k .. n : s[i] \notin Premium
  <2>1. CASE c \notin Premium
    BY <1>1, <2>1 DEF InsertPlace
  <2>2. CASE c \in Premium
    <3>1. /\ k \in 1 .. n /\ s[k] \notin Premium
          /\ \A j \in 1 .. n : s[j] \notin Premium => k <= j
      BY <2>2 DEF InsertPlace
    <3>2. \A i \in 1 .. k - 1 : i \in 1 .. n /\ ~(k <= i)
      BY <1>1, <3>1
    <3>3. \A i \in k .. n : i \in 1 .. n /\ (i = k \/ k < i)
      BY <1>1, <3>1
    <3>4. \A i \in k .. n : s[i] \notin Premium
      BY <1>1, <3>1, <3>3
    <3>5. k \in 1 .. n + 1
      BY <1>1, <3>1
    <3> QED
      BY <2>2, <3>1, <3>2, <3>4, <3>5
  <2> QED
    BY <2>1, <2>2
<1>3. /\ left \in Seq(Clients) /\ Len(left) = k - 1 /\ \A i \in 1 .. k - 1 : left[i] = s[i]
      /\ right \in Seq(Clients) /\ Len(right) = n + 1 - k
      /\ \A i \in 1 .. n + 1 - k : right[i] = s[k + i - 1]
  BY <1>1, <1>2, PartsOfALine
<1>4. r = front \o right
  BY DEF InsertAt
<1> HIDE DEF left, right, r, n
<1>5. /\ front \in Seq(Clients) /\ Len(front) = k /\ front[k] = c
      /\ \A i \in 1 .. k - 1 : front[i] = s[i]
  <2>1. <<c>> \in Seq(Clients) /\ Len(<<c>>) = 1 /\ <<c>>[1] = c
    OBVIOUS
  <2>2. /\ front \in Seq(Clients) /\ Len(front) = Len(left) + 1
        /\ \A i \in 1 .. Len(left) + 1 :
              front[i] = IF i <= Len(left) THEN left[i] ELSE <<c>>[i - Len(left)]
    BY <1>3, <2>1, ConcatProperties
  <2> HIDE DEF front
  <2>3. (k - 1) + 1 = k /\ k - (k - 1) = 1 /\ ~(k <= k - 1) /\ k \in 1 .. k
        /\ \A i \in 1 .. k - 1 : i \in 1 .. k /\ i <= k - 1
    BY <1>1, <1>2
  <2>4. front[k] = c
    <3>1. k \in 1 .. Len(left) + 1 /\ ~(k <= Len(left)) /\ k - Len(left) = 1
      BY <1>3, <2>3
    <3> QED
      BY <2>1, <2>2, <3>1
  <2>5. ASSUME NEW i \in 1 .. k - 1
        PROVE  front[i] = s[i]
    <3>1. i \in 1 .. Len(left) + 1 /\ i <= Len(left)
      BY <1>3, <2>3
    <3> QED
      BY <1>3, <2>2, <3>1
  <2> QED
    BY <1>3, <2>2, <2>3, <2>4, <2>5
<1> HIDE DEF front
<1>6. /\ r \in Seq(Clients) /\ Len(r) = n + 1 /\ r[k] = c
      /\ \A i \in 1 .. k - 1 : r[i] = s[i]
      /\ \A i \in k + 1 .. n + 1 : r[i] = s[i - 1]
  <2>1. /\ r \in Seq(Clients) /\ Len(r) = Len(front) + Len(right)
        /\ \A i \in 1 .. Len(front) + Len(right) :
              r[i] = IF i <= Len(front) THEN front[i] ELSE right[i - Len(front)]
    BY <1>3, <1>4, <1>5, ConcatProperties
  <2>2. Len(front) + Len(right) = n + 1
    BY <1>1, <1>2, <1>3, <1>5
  <2>3. \A i \in 1 .. n + 1 : r[i] = IF i <= k THEN front[i] ELSE right[i - k]
    BY <1>5, <2>1, <2>2
  <2>4. r[k] = c
    BY <1>1, <1>2, <1>5, <2>3
  <2>5. \A i \in 1 .. k - 1 : r[i] = s[i]
    BY <1>1, <1>2, <1>5, <2>3
  <2>6. ASSUME NEW i \in k + 1 .. n + 1
        PROVE  r[i] = s[i - 1]
    <3>1. i \in 1 .. n + 1 /\ ~(i <= k) /\ i - k \in 1 .. n + 1 - k /\ k + (i - k) - 1 = i - 1
      BY <1>1, <1>2
    <3> QED
      BY <1>3, <2>3, <3>1
  <2> QED
    BY <2>1, <2>2, <2>4, <2>5, <2>6
<1>7. \A i \in 1 .. n + 1 : i # k =>
         \E j \in 1 .. n : j = (IF i < k THEN i ELSE i - 1) /\ r[i] = s[j]
  <2> SUFFICES ASSUME NEW i \in 1 .. n + 1, i # k
               PROVE  \E j \in 1 .. n : j = (IF i < k THEN i ELSE i - 1) /\ r[i] = s[j]
    OBVIOUS
  <2>1. CASE i < k
    <3>1. i \in 1 .. k - 1 /\ i \in 1 .. n
      BY <1>1, <1>2, <2>1
    <3> QED
      BY <1>6, <2>1, <3>1
  <2>2. CASE ~(i < k)
    <3>1. i \in k + 1 .. n + 1 /\ i - 1 \in 1 .. n
      BY <1>1, <1>2, <2>2
    <3> QED
      BY <1>6, <2>2, <3>1
  <2> QED
    BY <2>1, <2>2
<1>8. \A j \in 1 .. n : \E i \in 1 .. n + 1 : r[i] = s[j]
  <2> SUFFICES ASSUME NEW j \in 1 .. n
               PROVE  \E i \in 1 .. n + 1 : r[i] = s[j]
    OBVIOUS
  <2>1. CASE j < k
    <3>1. j \in 1 .. k - 1 /\ j \in 1 .. n + 1
      BY <1>1, <1>2, <2>1
    <3> QED
      BY <1>6, <3>1
  <2>2. CASE ~(j < k)
    <3>1. j + 1 \in k + 1 .. n + 1 /\ j + 1 \in 1 .. n + 1 /\ (j + 1) - 1 = j
      BY <1>1, <1>2, <2>2
    <3> QED
      BY <1>6, <3>1
  <2> QED
    BY <2>1, <2>2
<1>9. ToSet(r) = {r[i] : i \in 1 .. n + 1} /\ k \in 1 .. n + 1
  BY <1>2, <1>6, InLineIndices
<1>10. ToSet(r) = ToSet(s) \cup {c}
  <2>1. \A x \in ToSet(r) : x \in ToSet(s) \/ x = c
    BY <1>1, <1>6, <1>7, <1>9
  <2>2. \A x \in ToSet(s) : x \in ToSet(r)
    BY <1>1, <1>8, <1>9
  <2>3. c \in ToSet(r)
    BY <1>6, <1>9
  <2> QED
    BY <2>1, <2>2, <2>3
<1>11. \A j \in 1 .. n : s[j] # c
  BY <1>1
<1>12. \A i, j \in 1 .. n + 1 : r[i] = r[j] => i = j
  <2> SUFFICES ASSUME NEW i \in 1 .. n + 1, NEW j \in 1 .. n + 1, r[i] = r[j]
               PROVE  i = j
    OBVIOUS
  <2>1. CASE i = k \/ j = k
    BY <1>6, <1>7, <1>11, <2>1
  <2>2. CASE i # k /\ j # k
    <3>1. (IF i < k THEN i ELSE i - 1) = (IF j < k THEN j ELSE j - 1)
      BY <1>1, <1>7, <2>2
    <3> QED
      BY <1>1, <1>2, <2>2, <3>1
  <2> QED
    BY <2>1, <2>2
<1>13. \A i, j \in 1 .. n + 1 : i < j /\ r[j] \in Premium => r[i] \in Premium
  <2> SUFFICES ASSUME NEW i \in 1 .. n + 1, NEW j \in 1 .. n + 1, i < j, r[j] \in Premium
               PROVE  r[i] \in Premium
    OBVIOUS
  <2>1. CASE j = k
    <3>1. i \in 1 .. k - 1 /\ c \in Premium
      BY <1>1, <1>2, <1>6, <2>1
    <3> QED
      BY <1>2, <1>6, <3>1
  <2>2. CASE i = k
    <3>1. j \in k + 1 .. n + 1 /\ j - 1 \in k .. n
      BY <1>1, <1>2, <2>2
    <3>2. r[j] = s[j - 1] /\ c \in Premium
      BY <1>1, <1>2, <1>6, <3>1
    <3> QED
      BY <1>2, <3>1, <3>2
  <2>3. CASE i # k /\ j # k
    <3>1. PICK x \in 1 .. n : x = (IF i < k THEN i ELSE i - 1) /\ r[i] = s[x]
      BY <1>7, <2>3
    <3>2. PICK y \in 1 .. n : y = (IF j < k THEN j ELSE j - 1) /\ r[j] = s[y]
      BY <1>7, <2>3
    <3>3. x < y
      BY <1>1, <1>2, <2>3, <3>1, <3>2
    <3> QED
      BY <1>1, <3>1, <3>2, <3>3
  <2> QED
    BY <2>1, <2>2, <2>3
<1>14. InLine(r)
  BY <1>6, <1>12, <1>13 DEF InLine, PremiumFirst
<1> QED
  BY <1>2, <1>10, <1>14 DEF r, n

\* A client that was told a place waits, or has waited too long.
LEMMA RefusedWait ==
    ASSUME WaitInv, NEW c \in Clients \ playersOnline, NEW slot \in Int, NEW place \in {slot, -1},
           Refuse(c, slot, place), InLine(waitList'),
           place = slot => c \in ToSet(waitList'),
           ToSet(waitList') \ {c} = {d \in ToSet(waitList) : timeLeft[d] > 0} \ {c}
    PROVE  WaitInv'
<1>1. /\ timeLeft' = [d \in Clients |-> IF d = c THEN (IF place = -1 THEN 0 ELSE GetTimeOut(slot))
                                        ELSE IF d \in ToSet(waitList') THEN timeLeft[d] ELSE 0]
      /\ toldPlace' = [toldPlace EXCEPT ![c] = place] /\ waited' = [waited EXCEPT ![c] = 0]
      /\ playersOnline' = playersOnline
  BY DEF Refuse
<1>2. GetTimeOut(slot) \in Nat /\ GetTimeOut(slot) = GetTime(slot) + 3
  BY TimesToWait DEF GetTimeOut
<1>3. WaitTypes'
  BY <1>1, <1>2 DEF WaitInv, WaitTypes
<1>4. ASSUME NEW d \in Clients, d # c
      PROVE  Promised(d)'
  <2>1. /\ timeLeft'[d] = (IF d \in ToSet(waitList') THEN timeLeft[d] ELSE 0)
        /\ toldPlace'[d] = toldPlace[d] /\ waited'[d] = waited[d]
    BY <1>1, <1>4 DEF WaitInv, WaitTypes
  <2>2. timeLeft[d] \in Nat /\ Promised(d)
    BY DEF WaitInv, WaitTypes
  <2>3. timeLeft'[d] = timeLeft[d]
    BY <1>4, <2>1, <2>2 DEF Promised
  <2>4. timeLeft'[d] > 0 => d \in ToSet(waitList')
    BY <2>1
  <2> QED
    BY <2>1, <2>2, <2>3, <2>4 DEF Promised
<1>5. Promised(c)'
  <2>1. toldPlace'[c] = place /\ waited'[c] = 0
        /\ timeLeft'[c] = (IF place = -1 THEN 0 ELSE GetTimeOut(slot))
    BY <1>1 DEF WaitInv, WaitTypes
  <2>2. place # -1 => place = slot
    OBVIOUS
  <2> QED
    BY <1>2, <2>1, <2>2 DEF Promised
<1> QED
  BY <1>3, <1>4, <1>5 DEF WaitInv

LEMMA EnteredWait ==
    ASSUME WaitInv, NEW c \in Clients \ playersOnline, NEW loaded \in BOOLEAN, Enter(c, loaded),
           InLine(waitList'), timeLeft' \in [Clients -> Nat],
           \A d \in Clients \ {c} : timeLeft'[d] = timeLeft[d],
           \A d \in Clients : timeLeft'[d] > 0 => d \in ToSet(waitList')
    PROVE  WaitInv'
<1>1. /\ playersOnline' = IF loaded THEN playersOnline \cup {c} ELSE playersOnline
      /\ toldPlace' = [toldPlace EXCEPT ![c] = 0] /\ waited' = [waited EXCEPT ![c] = 0]
  BY DEF Enter
<1>2. IsFiniteSet(playersOnline') /\ playersOnline' \subseteq Clients
  BY <1>1, FS_AddElement DEF WaitInv, WaitTypes
<1>3. WaitTypes'
  BY <1>1, <1>2 DEF WaitInv, WaitTypes
<1>4. ASSUME NEW d \in Clients
      PROVE  Promised(d)'
  <2>1. CASE d = c
    <3>1. toldPlace'[d] = 0
      BY <1>1, <2>1 DEF WaitInv, WaitTypes
    <3> QED
      BY <3>1 DEF Promised
  <2>2. CASE d # c
    <3>1. toldPlace'[d] = toldPlace[d] /\ waited'[d] = waited[d] /\ timeLeft'[d] = timeLeft[d]
      BY <1>1, <2>2 DEF WaitInv, WaitTypes
    <3>2. Promised(d)
      BY DEF WaitInv
    <3> QED
      BY <3>1, <3>2 DEF Promised
  <2> QED
    BY <2>1, <2>2
<1> QED
  BY <1>3, <1>4 DEF WaitInv

LEMMA PlaceFacts ==
    ASSUME NEW s, InLine(s), NEW c \in ToSet(s)
    PROVE  PlaceOf(s, c) \in 1 .. Len(s) /\ s[PlaceOf(s, c)] = c
<1>1. \E k \in 1 .. Len(s) : s[k] = c
  BY InLineIndices DEF InLine
<1> QED
  BY <1>1 DEF PlaceOf

LEMMA WaitStep ==
    ASSUME WaitInv, [WaitNext]_waitVars
    PROVE  WaitInv'
<1> DEFINE list == CleanUpList
<1>a. /\ InLine(list) /\ ToSet(list) = {d \in ToSet(waitList) : timeLeft[d] > 0}
      /\ ToSet(list) \subseteq Clients
  <2>1. InLine(list) /\ ToSet(list) = {d \in ToSet(waitList) : timeLeft[d] > 0}
    BY CleanUpFacts DEF WaitInv
  <2> QED
    BY <2>1, InLineIndices DEF InLine
<1> HIDE DEF list
<1>1. ASSUME NEW c \in Clients, NEW loaded \in BOOLEAN, LoginAtOnce(c, loaded)
      PROVE  WaitInv'
  <2>1. c \notin playersOnline /\ Enter(c, loaded) /\ UNCHANGED <<waitList, timeLeft>>
    BY <1>1 DEF LoginAtOnce
  <2>2. InLine(waitList') /\ timeLeft' \in [Clients -> Nat]
        /\ \A d \in Clients : timeLeft'[d] > 0 => d \in ToSet(waitList')
    BY <2>1 DEF WaitInv, WaitTypes, Promised
  <2> QED
    BY <2>1, <2>2, EnteredWait
<1>2. ASSUME NEW c \in Clients, NEW loaded \in BOOLEAN, LoginQueued(c, loaded)
      PROVE  WaitInv'
  <2> DEFINE slot == PlaceOf(list, c)
  <2>1. /\ c \notin playersOnline /\ c \in ToSet(list)
        /\ IF MayEnter(slot)
           THEN /\ waitList' = RemoveAt(list, slot)
                /\ timeLeft' = [d \in Clients |-> IF d \in ToSet(waitList') THEN timeLeft[d] ELSE 0]
                /\ Enter(c, loaded)
           ELSE waitList' = list /\ Refuse(c, slot, slot)
    BY <1>2 DEF LoginQueued, MustQueue, list
  <2>2. slot \in 1 .. Len(list) /\ list[slot] = c
    BY <1>a, <2>1, PlaceFacts
  <2> HIDE DEF slot
  <2>3. CASE MayEnter(slot)
    <3>1. waitList' = RemoveAt(list, slot) /\ Enter(c, loaded)
          /\ timeLeft' = [d \in Clients |-> IF d \in ToSet(waitList') THEN timeLeft[d] ELSE 0]
      BY <2>1, <2>3
    <3>2. InLine(waitList') /\ ToSet(waitList') = ToSet(list) \ {c}
      BY <1>a, <2>2, <3>1, LineWithout
    <3>3. timeLeft' \in [Clients -> Nat]
      BY <3>1 DEF WaitInv, WaitTypes
    <3>4. ASSUME NEW d \in Clients \ {c}
          PROVE  timeLeft'[d] = timeLeft[d]
      <4>1. timeLeft[d] \in Nat /\ (timeLeft[d] > 0 => d \in ToSet(waitList))
        BY DEF WaitInv, WaitTypes, Promised
      <4>2. timeLeft[d] > 0 => d \in ToSet(waitList')
        BY <1>a, <3>2, <4>1
      <4> QED
        BY <3>1, <4>1, <4>2
    <3>5. \A d \in Clients : timeLeft'[d] > 0 => d \in ToSet(waitList')
      BY <3>1
    <3> QED
      BY <2>1, <3>1, <3>2, <3>3, <3>4, <3>5, EnteredWait
  <2>4. CASE ~MayEnter(slot)
    <3>1. waitList' = list /\ Refuse(c, slot, slot) /\ slot \in Int
      BY <2>1, <2>2, <2>4
    <3> QED
      BY <1>a, <2>1, <3>1, RefusedWait
  <2> QED
    BY <2>3, <2>4
<1>3. ASSUME NEW c \in Clients, LoginNew(c)
      PROVE  WaitInv'
  <2>1. /\ c \notin playersOnline /\ c \notin ToSet(list)
        /\ \/ \E k \in InsertPlace(list, c) :
                 waitList' = InsertAt(list, k, c) /\ Refuse(c, k, k)
           \/ waitList' = list /\ Refuse(c, Len(list) + 1, -1)
    BY <1>3 DEF LoginNew, MustQueue, list
  <2>2. ASSUME NEW k \in InsertPlace(list, c), waitList' = InsertAt(list, k, c), Refuse(c, k, k)
        PROVE  WaitInv'
    <3>1. InLine(waitList') /\ ToSet(waitList') = ToSet(list) \cup {c} /\ k \in 1 .. Len(list) + 1
      BY <1>a, <2>1, <2>2, LineWith
    <3>2. k \in Int
      BY <3>1
    <3>3. ToSet(waitList') \ {c} = {d \in ToSet(waitList) : timeLeft[d] > 0} \ {c}
      BY <1>a, <3>1
    <3> QED
      BY <2>1, <2>2, <3>1, <3>2, <3>3, RefusedWait
  <2>3. CASE waitList' = list /\ Refuse(c, Len(list) + 1, -1)
    <3>1. Len(list) + 1 \in Int /\ Len(list) + 1 # -1
      BY <1>a, InLineIndices DEF InLine
    <3> QED
      BY <1>a, <2>1, <2>3, <3>1, RefusedWait
  <2> QED
    BY <2>1, <2>2, <2>3
<1>4. ASSUME NEW c \in Clients, LogoutWaiting(c)
      PROVE  WaitInv'
  <2>1. playersOnline' = playersOnline \ {c} /\ UNCHANGED <<waitList, timeLeft, toldPlace, waited>>
    BY <1>4 DEF LogoutWaiting
  <2>2. IsFiniteSet(playersOnline') /\ playersOnline' \subseteq Clients
    BY <2>1, FS_Subset DEF WaitInv, WaitTypes
  <2> QED
    BY <2>1, <2>2 DEF WaitInv, WaitTypes, Promised
<1>5. CASE TimePasses
  <2>1. /\ waited' = [c \in Clients |-> IF toldPlace[c] > 0 /\ waited[c] < GetTime(toldPlace[c]) + 3
                                        THEN waited[c] + 1 ELSE waited[c]]
        /\ timeLeft' = [c \in Clients |-> IF timeLeft[c] > 0 THEN timeLeft[c] - 1 ELSE 0]
        /\ UNCHANGED <<waitList, playersOnline, toldPlace>>
    BY <1>5 DEF TimePasses
  <2>2. WaitTypes'
    BY <2>1 DEF WaitInv, WaitTypes
  <2>3. ASSUME NEW c \in Clients
        PROVE  Promised(c)'
    <3>1. /\ timeLeft[c] \in Nat /\ waited[c] \in Nat /\ toldPlace[c] \in Int /\ Promised(c)
      BY DEF WaitInv, WaitTypes
    <3>2. GetTime(toldPlace[c]) \in Nat
      BY <3>1, TimesToWait
    <3>3. /\ timeLeft'[c] = (IF timeLeft[c] > 0 THEN timeLeft[c] - 1 ELSE 0)
          /\ waited'[c] = (IF toldPlace[c] > 0 /\ waited[c] < GetTime(toldPlace[c]) + 3
                           THEN waited[c] + 1 ELSE waited[c])
          /\ toldPlace'[c] = toldPlace[c] /\ waitList' = waitList
      BY <2>1
    <3> QED
      BY <3>1, <3>2, <3>3 DEF Promised
  <2> QED
    BY <2>1, <2>2, <2>3 DEF WaitInv
<1>6. CASE UNCHANGED waitVars
  BY <1>6 DEF waitVars, WaitInv, WaitTypes, Promised
<1> QED
  BY <1>1, <1>2, <1>3, <1>4, <1>5, <1>6 DEF WaitNext

LEMMA WaitBegins ==
    ASSUME WaitInit
    PROVE  WaitInv
<1>1. WaitTypes
  BY FS_EmptySet DEF WaitInit, WaitTypes
<1>2. InLine(waitList)
  BY DEF WaitInit, InLine, PremiumFirst
<1>3. \A c \in Clients : Promised(c)
  BY DEF WaitInit, Promised
<1> QED
  BY <1>1, <1>2, <1>3 DEF WaitInv

LEMMA WaitInductive == WaitSpec => []WaitInv
<1>1. WaitInv /\ [WaitNext]_waitVars => WaitInv'
  BY WaitStep
<1> QED
  BY <1>1, WaitBegins, PTL DEF WaitSpec

LEMMA InvPlaces ==
    ASSUME WaitInv
    PROVE  PlacesKept
<1>1. ASSUME NEW c \in Clients, toldPlace[c] > 0, waited[c] <= GetTime(toldPlace[c]) + 2
      PROVE  c \in ToSet(CleanUpList)
  <2>1. timeLeft[c] \in Nat /\ waited[c] \in Nat /\ toldPlace[c] \in Int /\ Promised(c)
    BY DEF WaitInv, WaitTypes
  <2>2. GetTime(toldPlace[c]) \in Nat
    BY <2>1, TimesToWait
  <2>3. timeLeft[c] > 0 /\ c \in ToSet(waitList)
    BY <1>1, <2>1, <2>2 DEF Promised
  <2> QED
    BY <2>3, CleanUpFacts DEF WaitInv
<1> QED
  BY <1>1 DEF PlacesKept, WaitInv, InLine, PremiumFirst

\* Who enters from the list has a place that is not behind the free ones, and those
\* in front of it are as many as the places before it.
LEMMA RoomStep ==
    ASSUME WaitInv, [WaitNext]_waitVars, NEW c \in playersOnline' \ (playersOnline \cup Staff)
    PROVE  LET ahead == {d \in ToSet(CleanUpList) :
                            c \notin ToSet(CleanUpList)
                            \/ PlaceOf(CleanUpList, d) < PlaceOf(CleanUpList, c)}
           IN Cardinality(playersOnline') + Cardinality(ahead) <= MaxPlayers
<1> DEFINE list == CleanUpList
           ahead == {d \in ToSet(list) : c \notin ToSet(list) \/ PlaceOf(list, d) < PlaceOf(list, c)}
<1>a. InLine(list) /\ (waitList = <<>> => list = <<>>)
  BY CleanUpFacts DEF WaitInv
<1>b. IsFiniteSet(playersOnline) /\ Cardinality(playersOnline) \in Nat /\ MaxPlayers \in Nat
  BY FS_CardinalityType, WaitingListConstants DEF WaitInv, WaitTypes
<1>c. PICK d \in Clients : \E loaded \in BOOLEAN : LoginAtOnce(d, loaded) \/ LoginQueued(d, loaded)
  BY DEF WaitNext, waitVars, LoginNew, Refuse, LogoutWaiting, TimePasses
<1>1. ASSUME NEW loaded \in BOOLEAN, LoginAtOnce(d, loaded)
      PROVE  Cardinality(playersOnline') + Cardinality(ahead) <= MaxPlayers
  <2>1. /\ d = c /\ c \notin Staff /\ playersOnline' = playersOnline \cup {c}
        /\ waitList = <<>> /\ Cardinality(playersOnline) < MaxPlayers
    BY <1>1 DEF LoginAtOnce, Enter
  <2>2. ahead = {}
    BY <1>a, <2>1 DEF ToSet
  <2>3. Cardinality(playersOnline') = Cardinality(playersOnline) + 1
    BY <1>b, <2>1, FS_AddElement
  <2> HIDE DEF ahead
  <2> QED
    BY <1>b, <2>1, <2>2, <2>3, FS_EmptySet
<1>2. ASSUME NEW loaded \in BOOLEAN, LoginQueued(d, loaded)
      PROVE  Cardinality(playersOnline') + Cardinality(ahead) <= MaxPlayers
  <2> DEFINE slot == PlaceOf(list, c)
  <2>1. /\ d = c /\ c \in ToSet(list) /\ MayEnter(slot) /\ playersOnline' = playersOnline \cup {c}
    BY <1>2 DEF LoginQueued, Enter, Refuse
  <2>2. slot \in 1 .. Len(list) /\ list[slot] = c /\ Len(list) \in Nat
    BY <1>a, <2>1, PlaceFacts, InLineIndices DEF InLine
  <2> DEFINE places == 1 .. slot - 1
             before == {list[i] : i \in places}
  <2> HIDE DEF list
  <2>3. ahead \subseteq before
    <3> SUFFICES ASSUME NEW e \in ahead
                 PROVE  e \in before
      OBVIOUS
    <3>1. e \in ToSet(list) /\ PlaceOf(list, e) < slot
      BY <2>1
    <3>2. PlaceOf(list, e) \in 1 .. Len(list) /\ list[PlaceOf(list, e)] = e
      BY <1>a, <3>1, PlaceFacts
    <3> HIDE DEF slot
    <3>3. PlaceOf(list, e) \in 1 .. slot - 1
      BY <2>2, <3>1, <3>2
    <3> QED
      BY <3>2, <3>3
  <2> HIDE DEF slot, ahead
  <2>4. IsFiniteSet(places) /\ Cardinality(places) = slot - 1
    <3>1. 1 \in Int /\ slot - 1 \in Int
      BY <2>2
    <3>2. IsFiniteSet(1 .. slot - 1)
          /\ Cardinality(1 .. slot - 1) = IF 1 > slot - 1 THEN 0 ELSE slot - 1 - 1 + 1
      BY <3>1, FS_Interval
    <3> QED
      BY <2>2, <3>2
  <2>5. IsFiniteSet(before) /\ Cardinality(before) <= Cardinality(places)
    <3> DEFINE f == [i \in places |-> list[i]]
    <3>1. f \in Surjection(places, before)
      BY DEF Surjection
    <3> HIDE DEF f
    <3> QED
      BY <2>4, <3>1, FS_Surjection
  <2>6. IsFiniteSet(ahead) /\ Cardinality(ahead) <= Cardinality(before)
    BY <2>3, <2>5, FS_Subset
  <2>7. Cardinality(ahead) \in Nat /\ Cardinality(before) \in Nat
    BY <2>5, <2>6, FS_CardinalityType
  <2>8. Cardinality(playersOnline') = Cardinality(playersOnline) + 1
    BY <1>b, <2>1, FS_AddElement
  <2>9. Cardinality(playersOnline) + slot <= MaxPlayers
    BY <2>1 DEF MayEnter
  <2> HIDE DEF before, places
  <2> QED
    BY <1>b, <2>2, <2>4, <2>5, <2>6, <2>7, <2>8, <2>9
<1> QED
  BY <1>1, <1>2, <1>c

\* For any clients, any number of places on the list and any number in the game:
\* whoever comes back in time still has the place told, and premium clients wait in
\* front (WaitingList::clientLogin, cleanUpList).
THEOREM WaitingPlacesKept == WaitSpec => []PlacesKept
BY WaitInductive, InvPlaces, PTL

\* Nobody of the public enters before those who hold a place in front
\* (WaitingList::clientLogin).
THEOREM WaitingRoomForThoseAhead == WaitSpec => RoomForThoseAhead
<1>1. WaitInv /\ [WaitNext]_waitVars =>
        [\A c \in playersOnline' \ (playersOnline \cup Staff) :
            LET ahead == {d \in ToSet(CleanUpList) :
                            c \notin ToSet(CleanUpList)
                            \/ PlaceOf(CleanUpList, d) < PlaceOf(CleanUpList, c)}
            IN Cardinality(playersOnline') + Cardinality(ahead) <= MaxPlayers]_waitVars
  BY RoomStep
<1> QED
  BY <1>1, WaitInductive, PTL DEF WaitSpec, RoomForThoseAhead
=============================================================================
