------------------------------ MODULE Channels ------------------------------
(***************************************************************************)
(* Private chat channels (chat.cpp and the handlers of game.cpp): a        *)
(* premium player may own one, and invites others; users hold a pointer to *)
(* the player, so they must be in the game. `windows' is what the clients  *)
(* were told to show.                                                      *)
(***************************************************************************)
EXTENDS Integers, FiniteSets

CONSTANTS
    Chatters,   \* players, all premium
    ChannelIds, \* 100..9999 in the code
    MaxPending  \* bound: events of connect that are pending for one player

ASSUME ChannelsConstants == ChannelIds \subseteq Nat /\ MaxPending \in Nat

VARIABLES
    channelOwner,   \* m_privateChannels: the owner by channel
    invites,        \* m_invites, by channel
    users,          \* m_users, by channel
    chattersOnline,
    chattersLinked, \* who has a client with a connection
    pending,        \* events of connect, by player
    windows,        \* open at the client, by player
    skipped,        \* history: removeUserFromAllChannels missed a channel
    unseen          \* history: <<player, channel>> of channels heard before the
                    \* client was linked, and since then

channelsVars == <<channelOwner, invites, users, chattersOnline, chattersLinked, pending, windows,
                  skipped, unseen>>
chatterVars == <<chattersOnline, chattersLinked, pending>>

ChannelsInit ==
    /\ channelOwner = [c \in {} |-> 0]
    /\ invites = [c \in ChannelIds |-> {}]
    /\ users = invites
    /\ chattersOnline = {} /\ chattersLinked = {}
    /\ pending = [p \in Chatters |-> 0]
    /\ windows = [p \in Chatters |-> {}]
    /\ skipped = FALSE
    /\ unseen = {}

Existing == DOMAIN channelOwner
OwnedBy(p) == {c \in Existing : channelOwner[c] = p}
IsInvited(p, c) == channelOwner[c] = p \/ p \in invites[c]
StillHeard(S) == {x \in S : x[1] \in users'[x[2]]}
----------------------------------------------------------------------------
CreatePrivateChannel(p) ==
    /\ p \in chattersLinked /\ OwnedBy(p) = {}
    /\ \E c \in ChannelIds \ Existing :
          /\ \A d \in ChannelIds : d < c => d \in Existing
          /\ channelOwner' = [d \in Existing \cup {c} |-> IF d = c THEN p ELSE channelOwner[d]]
          /\ users' = [users EXCEPT ![c] = {p}]
          /\ windows' = [windows EXCEPT ![p] = @ \cup {c}]
    /\ UNCHANGED <<invites, chatterVars, skipped, unseen>>

\* Only players in the game can be invited and excluded.
ChannelInvite(p, q) ==
    /\ p \in chattersLinked /\ q \in chattersOnline \ {p}
    /\ \E c \in OwnedBy(p) : invites' = [invites EXCEPT ![c] = @ \cup {q}]
    /\ UNCHANGED <<channelOwner, users, chatterVars, windows, skipped, unseen>>

\* Mutant of Excluded: the excluded player is only told to close the window.
ExcludedListener(c, q) ==
    /\ users' = users
    /\ windows' = [windows EXCEPT ![q] = @ \ {c}]

Excluded(c, q) ==
    /\ users' = [users EXCEPT ![c] = @ \ {q}]
    /\ windows' = [windows EXCEPT ![q] = @ \ {c}]

ChannelExclude(p, q) ==
    /\ p \in chattersLinked /\ q \in chattersOnline \ {p}
    /\ \E c \in OwnedBy(p) :
        /\ q \in invites[c]
        /\ invites' = [invites EXCEPT ![c] = @ \ {q}]
        /\ Excluded(c, q)
    /\ unseen' = StillHeard(unseen)
    /\ UNCHANGED <<channelOwner, chatterVars, skipped>>

\* A request, or a task of login and connect, which comes whether or not the
\* client is still there; sendChannel is for a client only, and only for who was
\* no user yet.
OpenChannel(p, c) ==
    /\ p \in chattersOnline /\ c \in Existing /\ IsInvited(p, c) /\ p \notin users[c]
    /\ users' = [users EXCEPT ![c] = @ \cup {p}]
    /\ windows' = [windows EXCEPT ![p] = IF p \in chattersLinked THEN @ \cup {c} ELSE @]
    /\ UNCHANGED <<channelOwner, invites, chatterVars, skipped, unseen>>

\* The channels in C leave the map, when who closes them is no user any more.
Without(C) ==
    /\ channelOwner' = [c \in Existing \ C |-> channelOwner[c]]
    /\ invites' = [c \in ChannelIds |-> IF c \in C THEN {} ELSE invites[c]]

\* deleteChannel closes the windows of the users left in the channels C; p has
\* none left of D.
Shown(p, C, D) ==
    [q \in Chatters |-> IF q = p THEN windows[q] \ D ELSE windows[q] \ C]

CloseChannel(p, c) ==
    /\ p \in chattersLinked /\ c \in Existing /\ IsInvited(p, c) /\ p \in users[c]
    /\ LET gone == {c} \cap OwnedBy(p)
       IN /\ Without(gone)
          /\ users' = [users EXCEPT ![c] = IF gone = {} THEN @ \ {p} ELSE {}]
          /\ windows' = Shown(p, gone, {c})
          /\ unseen' = StillHeard(unseen)
    /\ UNCHANGED <<chatterVars, skipped>>

\* The users of a channel when p has left all of them but `missed'.
Remaining(p, missed, c) ==
    IF c \in OwnedBy(p) THEN {} ELSE IF c \in missed THEN users[c] ELSE users[c] \ {p}

\* removeUserFromAllChannels deletes the channel of the leaving owner from the
\* map and then moves the erased iterator on: the later channels are seen, or
\* some are not (or the program crashes, and nothing follows).
LeaveAllChannels(p) ==
    \E missed \in SUBSET {c \in Existing : \E d \in OwnedBy(p) : d < c} :
        /\ Without(OwnedBy(p))
        /\ users' = [c \in ChannelIds |-> Remaining(p, missed, c)]
        /\ windows' = Shown(p, OwnedBy(p), ChannelIds)
        /\ skipped' = (skipped \/ \E c \in missed : p \in users[c])
        /\ unseen' = {x \in StillHeard(unseen) : x[1] # p}

LogIn(p) ==
    /\ p \notin chattersOnline
    /\ chattersOnline' = chattersOnline \cup {p} /\ chattersLinked' = chattersLinked \cup {p}
    /\ UNCHANGED <<channelOwner, invites, users, pending, windows, skipped, unseen>>

\* A connect that is pending finds nobody: the next Player has another id.
LogOut(p) ==
    /\ p \in chattersOnline
    /\ chattersOnline' = chattersOnline \ {p} /\ chattersLinked' = chattersLinked \ {p}
    /\ pending' = [pending EXCEPT ![p] = 0]
    /\ LeaveAllChannels(p)

\* The connection is lost, the character stays in the game.
ChatLinkLost(p) ==
    /\ p \in chattersLinked
    /\ chattersLinked' = chattersLinked \ {p}
    /\ windows' = [windows EXCEPT ![p] = {}]
    /\ unseen' = {x \in unseen : x[1] # p}
    /\ UNCHANGED <<channelOwner, invites, users, chattersOnline, pending, skipped>>

\* A new client takes the character over: at once, or in a second, when a client
\* must be disconnected first. That one counts as showing only what it is still
\* told; one whose connection is gone already, which only a connect that comes
\* late links, is awaited too.
TakeOver(p) ==
    /\ p \in chattersOnline
    /\ \/ /\ p \notin chattersLinked
          /\ chattersLinked' = chattersLinked \cup {p} /\ UNCHANGED pending
       \/ /\ pending[p] < MaxPending
          /\ pending' = [pending EXCEPT ![p] = @ + 1] /\ UNCHANGED chattersLinked
    /\ LeaveAllChannels(p)
    /\ UNCHANGED chattersOnline

\* connect leaves no channel, and the new client is told of none. It is refused
\* when there is a client, and links nobody when its own connection is gone.
Connect(p) ==
    /\ pending[p] > 0
    /\ pending' = [pending EXCEPT ![p] = @ - 1]
    /\ \/ UNCHANGED <<chattersLinked, unseen>>
       \/ /\ p \notin chattersLinked
          /\ chattersLinked' = chattersLinked \cup {p}
          /\ unseen' = unseen \cup {<<p, c>> : c \in {c \in ChannelIds : p \in users[c]}}
    /\ UNCHANGED <<channelOwner, invites, users, chattersOnline, windows, skipped>>

ChannelsNext ==
    \E p \in Chatters :
        \/ CreatePrivateChannel(p) \/ LogIn(p) \/ LogOut(p) \/ ChatLinkLost(p) \/ TakeOver(p)
        \/ Connect(p)
        \/ \E q \in Chatters : ChannelInvite(p, q) \/ ChannelExclude(p, q)
        \/ \E c \in ChannelIds : OpenChannel(p, c) \/ CloseChannel(p, c)

ChannelsSpec == ChannelsInit /\ [][ChannelsNext]_channelsVars
----------------------------------------------------------------------------
UsersInvited ==
    \A c \in ChannelIds : \A p \in users[c] :
        c \in Existing /\ p \in chattersOnline /\ IsInvited(p, c)
OneChannelEach == \A c, d \in Existing : channelOwner[c] = channelOwner[d] => c = d
OwnersListen == \A c \in Existing : channelOwner[c] \in users[c]
WindowsHeard ==
    \A p \in chattersLinked :
        windows[p] = {c \in Existing : p \in users[c] /\ <<p, c>> \notin unseen}

\* Who listens to a private channel is in the game and was invited by its
\* owner, who has no other and is in it; a client shows the channels its player
\* hears and no other one, whoever owned a channel of that number before.
\* Excepted are channels that the player opened while a connect was pending, of
\* which the client that it links is not told.
ListenersInvited ==
    skipped \/ (UsersInvited /\ OneChannelEach /\ OwnersListen /\ WindowsHeard)
=============================================================================
