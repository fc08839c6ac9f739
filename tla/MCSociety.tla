----------------------------- MODULE MCSociety -----------------------------
(***************************************************************************)
(* An instance of what characters own and where they belong: their goods,  *)
(* guilds, private channels and places on the waiting list share no state. *)
(* A behaviour is one of a single component, chosen at the start, while    *)
(* the others stay as they are; every action is named, to see that it      *)
(* happens.                                                                *)
(***************************************************************************)
EXTENDS Goods, Guilds, Channels, WaitingList

CONSTANTS ann, bob, cid, dan

MCPlayers == {ann, bob}
MCStock == [p \in MCPlayers |-> IF p = ann THEN 1 ELSE 0]
MCCoins == [p \in MCPlayers |-> IF p = ann THEN 1 ELSE 2]
MCMates == {ann, bob, cid}
MCClients == {ann, bob, cid, dan}

VARIABLE focus

SocietyInit ==
    /\ focus \in {"goods", "guilds", "channels", "wait"}
    /\ GoodsInit /\ GuildsInit /\ ChannelsInit /\ WaitInit

Rest(component) ==
    /\ component # "goods"    => UNCHANGED goodsVars
    /\ component # "guilds"   => UNCHANGED guildsVars
    /\ component # "channels" => UNCHANGED channelsVars
    /\ component # "wait"     => UNCHANGED waitVars
    /\ UNCHANGED focus

OfGoods(A) == focus = "goods" /\ A /\ Rest("goods")
OfGuilds(A) == focus = "guilds" /\ A /\ Rest("guilds")
OfChannels(A) == focus = "channels" /\ A /\ Rest("channels")
OfWait(A) == focus = "wait" /\ A /\ Rest("wait")

SocietyNext ==
    \/ OfGoods(\E p \in Players : Login(p))
    \/ OfGoods(\E p \in Players : Logout(p))
    \/ OfGoods(\E p \in Players : OpenLocker(p))
    \/ OfGoods(\E p \in Players : EnterMarket(p))
    \/ OfGoods(\E p \in Players : LeaveMarket(p))
    \/ OfGoods(\E p \in Players : Store(p))
    \/ OfGoods(\E p \in Players : Fetch(p))
    \/ OfGoods(\E p \in Players : Drop(p))
    \/ OfGoods(\E p \in Players : PickUp(p))
    \/ OfGoods(\E p, q \in Players : SendItem(p, q))
    \/ OfGoods(\E p \in Players, i \in OfferIds : CancelOffer(p, i))
    \/ OfGoods(\E p \in Players, i \in OfferIds, sale \in {"buy", "sell"},
                  n \in 1 .. MaxAmount : CreateOffer(p, i, sale, n))
    \/ OfGoods(\E p \in Players, i \in OfferIds, n \in 1 .. MaxAmount : AcceptBuyOffer(p, i, n))
    \/ OfGoods(\E p \in Players, i \in OfferIds, n \in 1 .. MaxAmount : AcceptSellOffer(p, i, n))
    \/ OfGoods(\E p \in Players : BuyHouse(p))
    \/ OfGoods(\E p \in Players : SavePlayer(p))
    \/ OfGoods(\E expired \in SUBSET Listed : CheckExpiredMarketOffers(expired))
    \/ OfGoods(\E i \in OfferIds : ExpireBuyOffer(i))
    \/ OfGoods(\E i \in OfferIds : ExpireSellOffer(i))
    \/ OfGoods(\E owner \in Players \cup {NoOwner} : SetHouseOwner(owner))
    \/ OfGoods(PayRent)
    \/ OfGoods(WarnOwner)
    \/ OfGoods(Evict)
    \/ OfGoods(SaveGameState)
    \/ OfGoods(SaveHouseInfo)
    \/ OfGoods(SaveHouseItems)
    \/ OfGoods(Crash)
    \/ OfGuilds(\E p \in Mates : MateLogsIn(p))
    \/ OfGuilds(\E p \in Mates : MateLogsOut(p))
    \/ OfGuilds(\E p \in Mates : SaveMate(p))
    \/ OfGuilds(\E p \in Mates : LinkLost(p))
    \/ OfGuilds(\E p \in Mates : TakenOver(p))
    \/ OfGuilds(\E p \in Mates : MateConnects(p))
    \/ OfGuilds(\E p \in Mates : OpenGuildChannel(p))
    \/ OfGuilds(\E p \in Mates : CloseGuildChannel(p))
    \/ OfGuilds(\E p \in Mates : CreateGuild(p))
    \/ OfGuilds(\E p \in Mates, g \in GuildIds : JoinGuild(p, g))
    \/ OfGuilds(\E p \in Mates, fights \in BOOLEAN : Leave(p, fights))
    \/ OfGuilds(\E p \in Mates, fights \in BOOLEAN : Disband(p, fights))
    \/ OfGuilds(\E p, q \in Mates, fights \in BOOLEAN : Kick(p, q, fights))
    \/ OfGuilds(\E p, q \in Mates : Promote(p, q))
    \/ OfGuilds(\E p, q \in Mates : PassLeadership(p, q))
    \/ OfGuilds(\E p \in Mates, g, h \in GuildIds : DeclareWar(p, g, h))
    \/ OfGuilds(\E p \in Mates, g, h \in GuildIds : AcceptWar(p, g, h))
    \/ OfGuilds(\E p \in Mates, g, h \in GuildIds : StopWar(p, g, h))
    \/ OfGuilds(\E w \in wars : FourDaysPass(w))
    \/ OfChannels(\E p \in Chatters : CreatePrivateChannel(p))
    \/ OfChannels(\E p \in Chatters : LogIn(p))
    \/ OfChannels(\E p \in Chatters : LogOut(p))
    \/ OfChannels(\E p \in Chatters : ChatLinkLost(p))
    \/ OfChannels(\E p \in Chatters : TakeOver(p))
    \/ OfChannels(\E p \in Chatters : Connect(p))
    \/ OfChannels(\E p, q \in Chatters : ChannelInvite(p, q))
    \/ OfChannels(\E p, q \in Chatters : ChannelExclude(p, q))
    \/ OfChannels(\E p \in Chatters, x \in ChannelIds : OpenChannel(p, x))
    \/ OfChannels(\E p \in Chatters, x \in ChannelIds : CloseChannel(p, x))
    \/ OfWait(\E x \in Clients, loaded \in BOOLEAN : LoginAtOnce(x, loaded))
    \/ OfWait(\E x \in Clients, loaded \in BOOLEAN : LoginQueued(x, loaded))
    \/ OfWait(\E x \in Clients : LoginNew(x))
    \/ OfWait(\E x \in Clients : LogoutWaiting(x))
    \/ OfWait(TimePasses)

SocietySpec == SocietyInit /\ [][SocietyNext]_<<focus, goodsVars, guildsVars, channelsVars,
                                                waitVars>>
----------------------------------------------------------------------------
\* The histories of money and of losses do not change what happens, nor do the
\* initial states of the other components.
SocietyView ==
    <<focus,
      CASE focus = "goods"    -> <<session, memory, record, depotChange, offers, house,
                                   houseRecord, street, todo, faults>>
        [] focus = "guilds"   -> guildsVars
        [] focus = "channels" -> channelsVars
        [] focus = "wait"     -> waitVars>>

\* Markets and houses are explored one at a time, two players online with a house
\* while no depot is marked as changed, and after a fault only what happens until
\* somebody is online.
FewGoods ==
    /\ \/ /\ Listed = {} /\ \A p \in Players : ~AtMarket(p)
          /\ depotChange = {} \/ Cardinality({p \in Players : Online(p)}) <= 1
       \/ house = houseRecord /\ house.owner = NoOwner /\ house.floor = 0
    /\ faults = 0 \/ \A p \in Players : ~Online(p)

\* Three members are explored with one guild, no war and nobody listening, else
\* two, and wars with nobody listening; more than one unsaved rank also only
\* without wars and listeners; one character at a time has lost
\* the connection, with one guild, and a connect is pending for one at a time, the same
\* one, with one guild of two members and no war; cid is no leader.
Unlinked == matesOnline \ matesLinked
NobodyListens == \A g \in GuildIds : guildUsers[g] = {}
FewMates ==
    /\ Cardinality(Unlinked) <= 1
    /\ Unlinked = {} \/ Cardinality(guilds) <= 1
    /\ wars = {} \/ (NobodyListens /\ Unlinked = {})
    /\ \/ Cardinality({p \in Mates : RankNow(p) # NoRank}) <= 2
       \/ NobodyListens /\ wars = {} /\ Cardinality(guilds) <= 1
    /\ \/ Cardinality({p \in Mates : RankNow(p) # rankId[p]}) <= 1
       \/ NobodyListens /\ wars = {} /\ Unlinked = {}
    /\ \/ \A p \in Mates : matesAwaited[p] = 0
       \/ /\ wars = {} /\ Cardinality(guilds) <= 1
          /\ \E p \in Mates : /\ Unlinked \subseteq {p}
                              /\ \A q \in Mates \ {p} : matesAwaited[q] = 0
          /\ Cardinality({p \in Mates : RankNow(p) # NoRank}) <= 2
    /\ LEADER \notin {rankId[cid].level, rank[cid].level}

SocietyBounds ==
    CASE focus = "goods"    -> FewGoods
      [] focus = "guilds"   -> FewMates
      [] focus = "channels" -> ~skipped
      [] OTHER              -> TRUE
=============================================================================
