---------------------------- MODULE WaitingList ----------------------------
(***************************************************************************)
(* The waiting list of a full server (waitlist.cpp): a client that is      *)
(* refused gets a place, is told when to try again, and keeps the place    *)
(* for 15 seconds more than that; premium clients wait in front. Times are *)
(* in steps of five seconds and are kept as what is left of them.          *)
(***************************************************************************)
EXTENDS Integers, FiniteSets, SequencesExt

CONSTANTS
    Clients,    \* character, account and address
    Premium,    \* premium accounts
    Staff,      \* who may always log in
    MaxPlayers

ASSUME WaitingListConstants ==
    Premium \subseteq Clients /\ Staff \subseteq Clients /\ MaxPlayers \in Nat

VARIABLES
    waitList,
    timeLeft,       \* until the timeout of an entry
    playersOnline,  \* Status::m_playersOnline, by name
    toldPlace,      \* history: the place a client was told when it was refused, or 0,
    waited          \* and how long ago, until it has lost the place

waitVars == <<waitList, timeLeft, playersOnline, toldPlace, waited>>

WaitInit ==
    /\ waitList = <<>>
    /\ timeLeft = [c \in Clients |-> 0]
    /\ playersOnline = {}
    /\ toldPlace = [c \in Clients |-> 0]
    /\ waited = [c \in Clients |-> 0]

\* getTime: when to try again, by place.
GetTime(slot) ==
    CASE slot < 5  -> 1
      [] slot \in 5 .. 9   -> 2
      [] slot \in 10 .. 19 -> 4
      [] slot \in 20 .. 49 -> 12
      [] OTHER     -> 24

\* Mutant of GetTimeOut: nobody may be late.
GetTimeOutExact(slot) == GetTime(slot)

GetTimeOut(slot) == GetTime(slot) + 3

PlaceOf(list, c) == CHOOSE k \in 1 .. Len(list) : list[k] = c

CleanUpList ==
    LET list[n \in 0 .. Len(waitList)] ==
            IF n = 0 THEN <<>>
            ELSE IF timeLeft[waitList[n]] > 0 THEN Append(list[n - 1], waitList[n])
            ELSE list[n - 1]
    IN list[Len(waitList)]

\* Where a new client is inserted: nowhere when it is premium and all others are.
InsertPlace(list, c) ==
    LET others == {k \in 1 .. Len(list) : list[k] \notin Premium}
    IN IF c \notin Premium THEN {Len(list) + 1}
       ELSE {k \in others : \A j \in others : k <= j}

\* Mutant of MayEnter: the place in the list does not count.
EnterAnyPlace(slot) == Cardinality(playersOnline) + 1 <= MaxPlayers

MayEnter(slot) == Cardinality(playersOnline) + slot <= MaxPlayers

\* The rest of ProtocolGame::login may still refuse the character.
Enter(c, loaded) ==
    /\ playersOnline' = IF loaded THEN playersOnline \cup {c} ELSE playersOnline
    /\ toldPlace' = [toldPlace EXCEPT ![c] = 0]
    /\ waited' = [waited EXCEPT ![c] = 0]

Refuse(c, slot, place) ==
    /\ timeLeft' = [d \in Clients |-> IF d = c THEN (IF place = -1 THEN 0 ELSE GetTimeOut(slot))
                                      ELSE IF d \in ToSet(waitList') THEN timeLeft[d] ELSE 0]
    /\ toldPlace' = [toldPlace EXCEPT ![c] = place]
    /\ waited' = [waited EXCEPT ![c] = 0]
    /\ UNCHANGED playersOnline

\* clientLogin, with room and nobody waiting, or for the staff: the list is
\* not even cleaned up.
LoginAtOnce(c, loaded) ==
    /\ c \notin playersOnline
    /\ c \in Staff \/ (waitList = <<>> /\ Cardinality(playersOnline) < MaxPlayers)
    /\ Enter(c, loaded)
    /\ UNCHANGED <<waitList, timeLeft>>

MustQueue(c) ==
    /\ c \notin playersOnline \cup Staff
    /\ waitList # <<>> \/ Cardinality(playersOnline) >= MaxPlayers

\* clientLogin of a client that is still on the list.
LoginQueued(c, loaded) ==
    LET list == CleanUpList
        slot == PlaceOf(list, c)
    IN /\ MustQueue(c) /\ c \in ToSet(list)
       /\ IF MayEnter(slot)
          THEN /\ waitList' = RemoveAt(list, slot)
               /\ timeLeft' = [d \in Clients |-> IF d \in ToSet(waitList') THEN timeLeft[d] ELSE 0]
               /\ Enter(c, loaded)
          ELSE waitList' = list /\ Refuse(c, slot, slot)

\* clientLogin of a new client. One that is not inserted is told place -1.
LoginNew(c) ==
    LET list == CleanUpList
    IN /\ MustQueue(c) /\ c \notin ToSet(list)
       /\ \/ \E k \in InsertPlace(list, c) :
                waitList' = InsertAt(list, k, c) /\ Refuse(c, k, k)
          \/ /\ InsertPlace(list, c) = {}
             /\ waitList' = list /\ Refuse(c, Len(list) + 1, -1)

LogoutWaiting(c) ==
    /\ c \in playersOnline
    /\ playersOnline' = playersOnline \ {c}
    /\ UNCHANGED <<waitList, timeLeft, toldPlace, waited>>

TimePasses ==
    /\ waited' = [c \in Clients |-> IF toldPlace[c] > 0 /\ waited[c] < GetTime(toldPlace[c]) + 3
                                    THEN waited[c] + 1 ELSE waited[c]]
    /\ timeLeft' = [c \in Clients |-> IF timeLeft[c] > 0 THEN timeLeft[c] - 1 ELSE 0]
    /\ UNCHANGED <<waitList, playersOnline, toldPlace>>

WaitNext ==
    \/ \E c \in Clients :
        \/ \E loaded \in BOOLEAN : LoginAtOnce(c, loaded) \/ LoginQueued(c, loaded)
        \/ LoginNew(c)
        \/ LogoutWaiting(c)
    \/ TimePasses

WaitSpec == WaitInit /\ [][WaitNext]_waitVars
----------------------------------------------------------------------------
\* Whoever was told a place and comes back when told to, or up to ten seconds
\* later, still has an entry, whoever came, went or was cleaned up in between;
\* and premium clients wait in front of the others.
PlacesKept ==
    /\ \A c \in Clients :
        toldPlace[c] > 0 /\ waited[c] <= GetTime(toldPlace[c]) + 2 => c \in ToSet(CleanUpList)
    /\ \A j, k \in 1 .. Len(waitList) :
        j < k /\ waitList[k] \in Premium => waitList[j] \in Premium

\* Nobody overtakes: whoever of the public enters leaves room for all those
\* in front who still hold their place.
RoomForThoseAhead ==
    [][\A c \in playersOnline' \ (playersOnline \cup Staff) :
        LET ahead == {d \in ToSet(CleanUpList) :
                        c \notin ToSet(CleanUpList)
                        \/ PlaceOf(CleanUpList, d) < PlaceOf(CleanUpList, c)}
        IN Cardinality(playersOnline') + Cardinality(ahead) <= MaxPlayers]_waitVars
=============================================================================
