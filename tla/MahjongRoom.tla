---------------------------- MODULE MahjongRoom ----------------------------
(***************************************************************************)
(* One full Room of the server playing hands of mahjong: from the players  *)
(* getting ready, through the deal, draws, discards and claims, to the end *)
(* of the hand and the players' choice to play another one.                *)
(*                                                                         *)
(* Every action is one command or packet handler run to completion by the  *)
(* server's single main thread.  A player is named by the seat (mPosition) *)
(* it has in the room; nobody enters or leaves the room here.              *)
(***************************************************************************)
EXTENDS Integers, FiniteSets, Sequences, SequencesExt

CONSTANTS
    MaxPlayer,      \* MAX_PLAYER, the seats of a room
    Robots,         \* the seats held by a CharacterMahjongRobot
    TileKinds,      \* number of kinds of playable tiles (1..TileKinds, in enum order)
    SingleCount,    \* MAX_SINGLE_COUNT, copies of each kind
    HuaCount,       \* number of flower tiles
    HandCount,      \* MAX_HAND_IN_COUNT, tiles held by the player whose turn it is
    CanHu(_),       \* ServerUtility::canHu, whether a sequence of tiles wins
    FirstBankers,   \* the seats the banker may have when the room fills up
    Deals           \* the deals a shuffle may produce: seat index -> tiles

Seats == 0 .. MaxPlayer - 1
Kind == 1 .. TileKinds

ASSUME ConstantsAssumption ==
    /\ MaxPlayer \in Nat \ {0}
    /\ Robots \subseteq Seats
    /\ TileKinds \in Nat \ {0}
    /\ SingleCount \in Nat
    /\ HuaCount \in Nat
    /\ HandCount \in Nat \ {0}
    /\ FirstBankers \subseteq Seats
    /\ Deals \subseteq [Seats -> Seq(Kind)]

(***************************************************************************)
(* ACTION_TYPE.  The numbers matter: a smaller one has the higher priority.*)
(***************************************************************************)
AT_HU == 0
AT_GANG == 1
AT_PENG == 2
AT_PASS == 3
AT_MAX == 4
ActionType == {AT_HU, AT_GANG, AT_PENG, AT_PASS}

PlayStates == {"MPS_WAITING", "MPS_GET_START", "MPS_NORMAL_GAMING",
               "MPS_WAIT_FOR_ACTION", "MPS_ENDING"}

VARIABLES
    playState,      \* mPlayState
    pool,           \* mMahjongPool, copies left of every kind
    huaPool,        \* mMahjongPool, flower tiles left
    handIn,         \* CharacterData::mHandIn of every seat
    pengGang,       \* CharacterData::mPengGangList of every seat
    ready,          \* CharacterData::mReady
    getStartDone,   \* CharacterData::mGetStartDone
    banker,         \* CharacterData::mBanker
    bankerPos,      \* mBankerPos
    waitList,       \* mWaitList, NoWait for a seat that is not in the map
    chooseList,     \* the keys of mPlayerChooseList
    askedDrop,      \* hand indices a seat may still answer a drop request with
    askedAction,    \* actions a seat may still answer an action request with
    wrongGang,      \* history: seats that laid down a gang of tiles they do not own
    crashed         \* the server has dereferenced a null pointer

tiles == <<pool, huaPool, handIn, pengGang, wrongGang>>
seating == <<ready, getStartDone, banker, bankerPos, chooseList>>
asking == <<playState, waitList, askedDrop, askedAction>>
vars == <<tiles, seating, asking, crashed>>

NoWait == [dropped |-> -1, mah |-> 0, actions |-> {}, confirmed |-> AT_MAX]
WaitActionInfo == [dropped: Seats, mah: Kind, actions: SUBSET ActionType,
                   confirmed: ActionType \cup {AT_MAX}]
Meld == [mah: Kind, type: {AT_GANG, AT_PENG}]

NobodyWaits == [p \in Seats |-> NoWait]
NobodyAsked == [p \in Seats |-> {}]
Waiting(p) == waitList[p] # NoWait

----------------------------------------------------------------------------
(* Hands of tiles *)

Indexes(h, t) == {i \in DOMAIN h : h[i] = t}
CountOf(h, t) == Cardinality(Indexes(h, t))

\* The places of all players, when F[p] are the places of player p.
PlacesOf(F, players) == UNION {{p} \X F[p] : p \in players}

\* How many copies of t the players hold together.
HeldCopies(hands, t) ==
    Cardinality(PlacesOf([p \in Seats |-> Indexes(hands[p], t)], Seats))

\* The tile at index i of the reordered hand is the smallest one that has at
\* least i tiles of the hand at or below it.
Unsorted(h) == h    \* variant: the hand is not sorted
Reordered(h) ==
    [i \in 1 .. Len(h) |->
        Min({t \in Kind : Cardinality({j \in 1 .. Len(h) : h[j] <= t}) >= i})]

\* Where n copies of t lie side by side in h.
RunStarts(h, t, n) ==
    {i \in 1 .. Len(h) : /\ i + n - 1 <= Len(h)
                         /\ \A k \in i .. i + n - 1 : h[k] = t}

\* The first n adjacent copies of t removed from h, or h when there are none.
\* (Variant: the loop that erases from back to front stops one too early.)
RemoveRunOneShort(h, t, n) ==
    IF RunStarts(h, t, n) = {} THEN h
    ELSE LET i == Min(RunStarts(h, t, n))
         IN  SubSeq(h, 1, i) \o SubSeq(h, i + n, Len(h))
RemoveRun(h, t, n) ==
    IF RunStarts(h, t, n) = {} THEN h
    ELSE LET i == Min(RunStarts(h, t, n))
         IN  SubSeq(h, 1, i - 1) \o SubSeq(h, i + n, Len(h))

\* The index of the first PENG of t among the melds, 0 when there is none.
PengIndexes(melds, t) == {i \in 1 .. Len(melds) : melds[i] = [mah |-> t, type |-> AT_PENG]}
HasPeng(melds, t) == PengIndexes(melds, t) # {}

PengHand(h, t) == RemoveRun(h, t, 2)
PengMelds(melds, t) == Append(melds, [mah |-> t, type |-> AT_PENG])

\* A gang upgrades a peng of the tile, or takes three adjacent copies from the
\* hand; a player that drew the tile itself then also gives up one more copy.
\* (Variant: the player that drew the tile keeps it in its hand.)
GangHandKeepsDrawn(h, melds, t, selfDrawn) ==
    IF HasPeng(melds, t) THEN h ELSE RemoveRun(h, t, 3)
GangHand(h, melds, t, selfDrawn) ==
    LET rest == IF HasPeng(melds, t) THEN h ELSE RemoveRun(h, t, 3)
    IN  IF selfDrawn THEN RemoveRun(rest, t, 1) ELSE rest
GangMelds(melds, t) ==
    IF HasPeng(melds, t)
    THEN [melds EXCEPT ![Min(PengIndexes(melds, t))] = [mah |-> t, type |-> AT_GANG]]
    ELSE Append(melds, [mah |-> t, type |-> AT_GANG])

PengOfOne(h, t) == CountOf(h, t) >= 1     \* variant: off by one
CanPeng(h, t) == CountOf(h, t) >= 2
CanGang(h, t) == CountOf(h, t) = SingleCount - 1
CanSelfGang(h) == \E t \in Kind : CountOf(h, t) = SingleCount

\* What a player that just drew t into hand h may do besides discarding.
SelfActions(h, melds, t) ==
    IF CanHu(h) THEN {AT_HU, AT_PASS}
    ELSE IF CanSelfGang(h) \/ HasPeng(melds, t) THEN {AT_GANG, AT_PASS}
    ELSE {}

\* What a player with hand h may do with another player's discard t.
ClaimActions(h, t) ==
    LET claims == {a \in {AT_HU, AT_GANG, AT_PENG} :
                      \/ a = AT_HU /\ CanHu(Append(h, t))
                      \/ a = AT_GANG /\ CanGang(h, t)
                      \/ a = AT_PENG /\ CanPeng(h, t)}
    IN  IF claims = {} THEN {} ELSE claims \cup {AT_PASS}

----------------------------------------------------------------------------
(* Asking a player.  A human answers a request message with any choice it    *)
(* offers; a robot queues one delayed command, its choice made at this       *)
(* moment, and ignores a request while the command of an earlier one is      *)
(* still queued.                                                             *)

\* (Variant: a robot does not queue an answer.)
AskActionHumansOnly(answers, p, acts) ==
    [answers EXCEPT ![p] = IF p \notin Robots THEN acts ELSE @]
AskAction(answers, p, acts) ==
    [answers EXCEPT ![p] = IF p \notin Robots THEN acts
                           ELSE IF @ # {} THEN @ ELSE {Min(acts)}]

\* (Variant: a robot takes the size of its hand for the last index.)
AskDropPastEnd(drops, p, h) ==
    [drops EXCEPT ![p] = IF p \notin Robots THEN 1 .. Len(h)
                         ELSE IF @ # {} THEN @ ELSE {Len(h) + 1}]
AskDrop(drops, p, h) ==
    [drops EXCEPT ![p] = IF p \notin Robots THEN 1 .. Len(h)
                         ELSE IF @ # {} THEN @ ELSE {Len(h)}]

NextSeat(p) == (p + 1) % MaxPlayer

\* The hand is over.  A single winner becomes the banker, several winners make
\* the player whose tile they took the banker.
\* (Variants: the wait list outlives the hand; every winner becomes banker.)
EndGameKeepsWaiters(winners, dropped) ==
    playState' = "MPS_ENDING" /\ UNCHANGED <<waitList, banker>>
EndGameAllBankers(winners, dropped) ==
    /\ playState' = "MPS_ENDING"
    /\ waitList' = NobodyWaits
    /\ banker' = IF winners = {} THEN banker ELSE [p \in Seats |-> p \in winners]
EndGame(winners, dropped) ==
    /\ playState' = "MPS_ENDING"
    /\ waitList' = NobodyWaits
    /\ banker' = IF winners = {} THEN banker
                 ELSE IF Cardinality(winners) = 1 THEN [p \in Seats |-> p \in winners]
                 ELSE [p \in Seats |-> p = dropped]

\* Player q drew t and now holds h.  confirming: the caller is
\* playerConfirmAction, which clears the wait list before it returns.
NotifyPlayerGet(q, t, h, melds, drops, answers, confirming) ==
    LET acts == SelfActions(h, melds, t)
        info == [dropped |-> q, mah |-> t, actions |-> acts, confirmed |-> AT_MAX]
    IN  /\ waitList' = IF confirming THEN NobodyWaits
                       ELSE IF acts # {} /\ ~Waiting(q) THEN [waitList EXCEPT ![q] = info]
                       ELSE waitList
        /\ playState' = IF acts = {} THEN "MPS_NORMAL_GAMING" ELSE "MPS_WAIT_FOR_ACTION"
        /\ askedDrop' = IF acts = {} THEN AskDrop(drops, q, h) ELSE drops
        /\ askedAction' = IF acts = {} THEN answers ELSE AskAction(answers, q, acts)

\* The kinds of which a tile is left (variant: the size of the pool is not tested).
AnyKind == Kind
InPool == {t \in Kind : pool[t] > 0}

\* Player q draws until the tile is not a flower; an exhausted pool ends the
\* hand without a winner.  The order of the shuffled pool is seen only through
\* the tiles drawn, so any tile left may come next.
RequestMahjong(q, hands, melds, drops, answers, confirming) ==
    \/ \E t \in InPool, hua \in 0 .. huaPool :
          /\ pool' = [pool EXCEPT ![t] = @ - 1]
          /\ huaPool' = huaPool - hua
          /\ handIn' = [hands EXCEPT ![q] = Append(@, t)]
          /\ NotifyPlayerGet(q, t, Append(hands[q], t), melds[q], drops, answers, confirming)
          /\ UNCHANGED banker
    \/ /\ InPool = {}
       /\ pool' = pool
       /\ huaPool' = 0
       /\ handIn' = hands
       /\ EndGame({}, q)
       /\ askedDrop' = drops
       /\ askedAction' = answers

----------------------------------------------------------------------------
(* The start of a hand *)

\* The deal d gives 14 tiles to index b and 13 to the others, out of the copies
\* there are.
IsDeal(d, b) ==
    /\ \A i \in Seats : Len(d[i]) = IF i = b THEN HandCount ELSE HandCount - 1
    /\ \A t \in Kind : HeldCopies(d, t) \in 0 .. SingleCount

\* The tiles dealt to index i go to the i-th player counted from the banker.
DealIndex(p) == (p + MaxPlayer - bankerPos) % MaxPlayer

\* All have reported their start hand: the banker is asked for the first discard.
\* Without a banker position the player asked is a null pointer.
AllPlayerGetStartDone(hands) ==
    /\ playState' = "MPS_NORMAL_GAMING"
    /\ crashed' = (bankerPos = -1)
    /\ askedDrop' = IF bankerPos = -1 THEN askedDrop
                    ELSE AskDrop(askedDrop, bankerPos, hands[bankerPos])

StartHand(done, hands) ==
    IF \A p \in Seats : done[p]
    THEN AllPlayerGetStartDone(hands)
    ELSE playState' = "MPS_GET_START" /\ UNCHANGED <<crashed, askedDrop>>

\* The pool is filled and dealt from; robots report their start hand at once.
StartGame ==
    LET done == [p \in Seats |-> getStartDone[p] \/ p \in Robots]
        Held(p, dealt) == LET h == handIn[p] \o dealt
                          IN  IF p \in Robots THEN Reordered(h) ELSE h
    IN  /\ ready' = [p \in Seats |-> FALSE]
        /\ getStartDone' = done
        /\ \/ /\ bankerPos = -1
              /\ pool' = [t \in Kind |-> pool[t] + SingleCount]
              /\ huaPool' = huaPool + HuaCount
              /\ handIn' = [p \in Seats |-> Held(p, <<>>)]
              /\ StartHand(done, [p \in Seats |-> Held(p, <<>>)])
           \/ \E d \in Deals, hua \in 0 .. HuaCount :
              /\ bankerPos # -1
              /\ IsDeal(d, bankerPos)
              /\ pool' = [t \in Kind |-> pool[t] + SingleCount - HeldCopies(d, t)]
              /\ huaPool' = huaPool + HuaCount - hua
              /\ handIn' = [p \in Seats |-> Held(p, d[DealIndex(p)])]
              /\ StartHand(done, [p \in Seats |-> Held(p, d[DealIndex(p)])])

----------------------------------------------------------------------------
(* Actions *)

Init ==
    /\ playState = "MPS_WAITING"
    /\ pool = [t \in Kind |-> 0]
    /\ huaPool = 0
    /\ handIn = [p \in Seats |-> <<>>]
    /\ pengGang = [p \in Seats |-> <<>>]
    /\ ready = [p \in Seats |-> FALSE]
    /\ getStartDone = [p \in Seats |-> FALSE]
    /\ bankerPos \in FirstBankers
    /\ banker = [p \in Seats |-> p = bankerPos]
    /\ waitList = NobodyWaits
    /\ chooseList = {}
    /\ askedDrop = NobodyAsked
    /\ askedAction = NobodyAsked
    /\ wrongGang = {}
    /\ crashed = FALSE

\* A player gets ready or takes it back; the last one to get ready starts the
\* hand.  A client offers this while no hand is played and, after a hand, once
\* its player chose to continue; the server readies each robot itself.
PlayerReady(p, r) ==
    /\ ~crashed
    /\ playState = "MPS_WAITING" \/ (playState = "MPS_ENDING" /\ p \in chooseList)
    /\ p \in Robots => r /\ ~ready[p]
    /\ IF \A q \in Seats : IF q = p THEN r ELSE ready[q]
       THEN StartGame
       ELSE /\ ready' = [ready EXCEPT ![p] = r]
            /\ UNCHANGED <<pool, huaPool, handIn, getStartDone, playState, askedDrop, crashed>>
    /\ UNCHANGED <<pengGang, wrongGang, banker, bankerPos, chooseList, waitList, askedAction>>

\* A human's client reports, once, that it has shown the start hand.
PlayerGetStartDone(p) ==
    LET done == [getStartDone EXCEPT ![p] = TRUE]
        hands == [handIn EXCEPT ![p] = Reordered(@)]
    IN  /\ ~crashed
        /\ playState = "MPS_GET_START"
        /\ ~getStartDone[p]
        /\ getStartDone' = done
        /\ handIn' = hands
        /\ StartHand(done, hands)
        /\ UNCHANGED <<pool, huaPool, pengGang, wrongGang, ready, banker, bankerPos,
                       chooseList, waitList, askedAction>>

\* Player p discards the i-th tile of its hand.  Everyone else that can use the
\* tile is asked; when nobody can, the next seat draws.  (requestDrop tests
\* neither the state nor the index; DropTurn below shows that a request is only
\* outstanding in this state and for tiles of the hand, so nothing is cut off.)
RequestDrop(p, i) ==
    LET t == handIn[p][i]
        hands == [handIn EXCEPT ![p] = Reordered(RemoveAt(@, i))]
        drops == [askedDrop EXCEPT ![p] = {}]
        acts == [q \in Seats |-> IF q = p THEN {} ELSE ClaimActions(handIn[q], t)]
        claimers == {q \in Seats : acts[q] # {}}
        Info(q) == [dropped |-> p, mah |-> t, actions |-> acts[q], confirmed |-> AT_MAX]
    IN  /\ ~crashed
        /\ i \in askedDrop[p] \cap DOMAIN handIn[p]
        /\ playState = "MPS_NORMAL_GAMING"
        /\ \/ /\ claimers # {}
              /\ playState' = "MPS_WAIT_FOR_ACTION"
              /\ waitList' = [q \in Seats |-> IF q \in claimers /\ ~Waiting(q)
                                             THEN Info(q) ELSE waitList[q]]
              /\ askedAction' = [q \in Seats |-> IF q \in claimers
                                    THEN AskAction(askedAction, q, acts[q])[q]
                                    ELSE askedAction[q]]
              /\ askedDrop' = drops
              /\ handIn' = hands
              /\ UNCHANGED <<pool, huaPool, banker>>
           \/ /\ claimers = {}
              /\ RequestMahjong(NextSeat(p), hands, pengGang, drops, askedAction, FALSE)
        /\ UNCHANGED <<pengGang, wrongGang, ready, getStartDone, bankerPos, chooseList, crashed>>

\* An answer of a player nobody waits for, or one it was not offered, is dropped.
ConfirmIgnored(p, a) ==
    /\ ~crashed
    /\ a \in askedAction[p]
    /\ a \notin waitList[p].actions
    /\ askedAction' = [askedAction EXCEPT ![p] = {}]
    /\ UNCHANGED <<tiles, seating, playState, waitList, askedDrop, crashed>>

\* One player's hu ends the hand, and wins it for everybody who was offered hu.
ConfirmHu(p) ==
    /\ ~crashed
    /\ AT_HU \in askedAction[p] \cap waitList[p].actions
    /\ EndGame({q \in Seats : AT_HU \in waitList[q].actions}, waitList[p].dropped)
    /\ askedAction' = [askedAction EXCEPT ![p] = {}]
    /\ UNCHANGED <<tiles, ready, getStartDone, bankerPos, chooseList, askedDrop, crashed>>

\* Anything else waits until every player in the wait list has confirmed.
ConfirmAndWait(p, a) ==
    /\ ~crashed
    /\ a \in (askedAction[p] \cap waitList[p].actions) \ {AT_HU}
    /\ \E q \in Seats \ {p} : Waiting(q) /\ waitList[q].confirmed = AT_MAX
    /\ waitList' = [waitList EXCEPT ![p].confirmed = a]
    /\ askedAction' = [askedAction EXCEPT ![p] = {}]
    /\ UNCHANGED <<tiles, seating, playState, askedDrop, crashed>>

\* Player q, in wait list entry info, carries out its confirmed action.
ExecuteGang(q, info, answers) ==
    LET selfDrawn == info.dropped = q
        hands == [handIn EXCEPT ![q] = GangHand(@, pengGang[q], info.mah, selfDrawn)]
        melds == [pengGang EXCEPT ![q] = GangMelds(@, info.mah)]
        owns == \/ ~selfDrawn
                \/ HasPeng(pengGang[q], info.mah)
                \/ CountOf(handIn[q], info.mah) = SingleCount
    IN  /\ pengGang' = melds
        /\ wrongGang' = IF owns THEN wrongGang ELSE wrongGang \cup {q}
        /\ RequestMahjong(q, hands, melds, askedDrop, answers, TRUE)

ExecutePeng(q, info, answers) ==
    LET hand == PengHand(handIn[q], info.mah)
    IN  /\ playState' = "MPS_NORMAL_GAMING"
        /\ handIn' = [handIn EXCEPT ![q] = hand]
        /\ pengGang' = [pengGang EXCEPT ![q] = PengMelds(@, info.mah)]
        /\ askedDrop' = AskDrop(askedDrop, q, hand)
        /\ askedAction' = answers
        /\ waitList' = NobodyWaits
        /\ UNCHANGED <<pool, huaPool, banker, wrongGang>>

\* Passing one's own draw means discarding; passing a discard makes the seat
\* after the discarding player draw.
ExecutePass(q, info, answers) ==
    /\ \/ /\ info.dropped = q
          /\ playState' = "MPS_NORMAL_GAMING"
          /\ askedDrop' = AskDrop(askedDrop, q, handIn[q])
          /\ askedAction' = answers
          /\ waitList' = NobodyWaits
          /\ UNCHANGED <<pool, huaPool, handIn, banker>>
       \/ /\ info.dropped # q
          /\ RequestMahjong(NextSeat(info.dropped), handIn, pengGang, askedDrop, answers, TRUE)
    /\ UNCHANGED <<pengGang, wrongGang>>

\* The last confirmation: the action of the highest priority is carried out.
\* Whatever the next player is asked is entered in the wait list first, and the
\* wait list is cleared after that.
ConfirmLast(p, a) ==
    LET confirmed == [q \in Seats |-> IF q = p THEN a ELSE waitList[q].confirmed]
        best == Min({confirmed[q] : q \in {r \in Seats : Waiting(r)}})
        answers == [askedAction EXCEPT ![p] = {}]
    IN  /\ ~crashed
        /\ a \in (askedAction[p] \cap waitList[p].actions) \ {AT_HU}
        /\ \A q \in Seats \ {p} : Waiting(q) => waitList[q].confirmed # AT_MAX
        /\ \E q \in Seats :
             /\ Waiting(q)
             /\ confirmed[q] = best
             /\ \/ best = AT_GANG /\ ExecuteGang(q, waitList[q], answers)
                \/ best = AT_PENG /\ ExecutePeng(q, waitList[q], answers)
                \/ best = AT_PASS /\ ExecutePass(q, waitList[q], answers)
        /\ UNCHANGED <<ready, getStartDone, bankerPos, chooseList, crashed>>

\* After a hand a human chooses to play on.  Once all have chosen, the room is
\* reset and waits for everybody to get ready again.
PlayerContinueGame(p) ==
    LET all == chooseList \cup {p} = Seats
    IN  /\ ~crashed
        /\ p \notin Robots
        /\ playState = "MPS_ENDING"
        /\ p \notin chooseList
        /\ handIn' = [handIn EXCEPT ![p] = <<>>]
        /\ pengGang' = [pengGang EXCEPT ![p] = <<>>]
        /\ ready' = [ready EXCEPT ![p] = FALSE]
        /\ getStartDone' = [getStartDone EXCEPT ![p] = FALSE]
        /\ wrongGang' = wrongGang \ {p}
        /\ playState' = IF all THEN "MPS_WAITING" ELSE playState
        /\ chooseList' = IF all THEN {} ELSE chooseList \cup {p}
        /\ pool' = IF all THEN [t \in Kind |-> 0] ELSE pool
        /\ huaPool' = IF all THEN 0 ELSE huaPool
        /\ waitList' = IF all THEN NobodyWaits ELSE waitList
        /\ bankerPos' = IF all THEN -1 ELSE bankerPos
        /\ UNCHANGED <<banker, askedDrop, askedAction, crashed>>

Next ==
    \E p \in Seats :
        \/ \E r \in BOOLEAN : PlayerReady(p, r)
        \/ PlayerGetStartDone(p)
        \/ \E i \in askedDrop[p] : RequestDrop(p, i)
        \/ \E a \in ActionType : \/ ConfirmIgnored(p, a)
                                 \/ ConfirmAndWait(p, a)
                                 \/ ConfirmLast(p, a)
        \/ ConfirmHu(p)
        \/ PlayerContinueGame(p)

Spec == Init /\ [][Next]_vars

(***************************************************************************)
(* What moves a hand forward without anybody's help is the robots: their   *)
(* queued commands run in the main loop once their delay has elapsed, and  *)
(* the server readies them itself.                                         *)
(***************************************************************************)
RobotStep(p) ==
    \/ PlayerReady(p, TRUE)
    \/ \E i \in askedDrop[p] : RequestDrop(p, i)
    \/ \E a \in ActionType : ConfirmIgnored(p, a) \/ ConfirmAndWait(p, a) \/ ConfirmLast(p, a)
    \/ ConfirmHu(p)

FairSpec == Spec /\ \A p \in Robots : WF_vars(RobotStep(p))

----------------------------------------------------------------------------
(* Properties *)

TypeOK ==
    /\ playState \in PlayStates
    /\ pool \in [Kind -> Nat]
    /\ huaPool \in Nat
    /\ handIn \in [Seats -> Seq(Kind)]
    /\ pengGang \in [Seats -> Seq(Meld)]
    /\ ready \in [Seats -> BOOLEAN]
    /\ getStartDone \in [Seats -> BOOLEAN]
    /\ banker \in [Seats -> BOOLEAN]
    /\ bankerPos \in Seats \cup {-1}
    /\ waitList \in [Seats -> WaitActionInfo \cup {NoWait}]
    /\ chooseList \subseteq Seats
    /\ askedDrop \in [Seats -> SUBSET Nat]
    /\ askedAction \in [Seats -> SUBSET ActionType]
    /\ wrongGang \subseteq Seats
    /\ crashed \in BOOLEAN

\* A discard is requested only in MPS_NORMAL_GAMING and of one player only; its
\* answer names a tile that player still holds; and in that state somebody is
\* always asked.  requestDrop (Room.cpp:693) checks none of this itself.
DropTurn ==
    /\ \A p \in Seats : askedDrop[p] # {} =>
         /\ playState = "MPS_NORMAL_GAMING"
         /\ askedDrop[p] \subseteq DOMAIN handIn[p]
         /\ \A q \in Seats \ {p} : askedDrop[q] = {}
    /\ playState = "MPS_NORMAL_GAMING" /\ ~crashed => \E p \in Seats : askedDrop[p] # {}

\* The wait list is only used in MPS_WAIT_FOR_ACTION, and every player it waits
\* for has a request outstanding whose answer will be accepted: no robot's
\* command and no offer is lost between asking and confirming.
WaitersAreAsked ==
    \A p \in Seats : Waiting(p) =>
        /\ playState = "MPS_WAIT_FOR_ACTION"
        /\ \E q \in Seats : Waiting(q) /\ waitList[q].confirmed = AT_MAX
        /\ waitList[p].confirmed = AT_MAX =>
             /\ askedAction[p] # {}
             /\ askedAction[p] \subseteq waitList[p].actions

\* At most one player is offered a peng or a gang of the same discard, so the
\* order in which playerConfirmAction walks its map of pointers (Room.cpp:252)
\* never decides who gets the tile.
OneClaimer ==
    \A p, q \in Seats :
        /\ waitList[p].actions \cap {AT_GANG, AT_PENG} # {}
        /\ waitList[q].actions \cap {AT_GANG, AT_PENG} # {}
        => p = q

\* The player whose move it is: asked to discard, or deciding on its own draw.
HoldsTurn(p) == askedDrop[p] # {} \/ waitList[p].dropped = p
InPlay == playState = "MPS_NORMAL_GAMING" \/ \E p \in Seats : Waiting(p)

\* Counting every meld as three tiles, the player whose move it is holds one
\* tile more than the others.  This needs FirstBankers = {0}: for a banker
\* at another seat b the tiles of the banker are dealt to seat (2 * b) mod n (DealIndex).
HandSize ==
    InPlay /\ ~crashed => \A p \in Seats \ wrongGang :
        Len(handIn[p]) + 3 * Len(pengGang[p]) = IF HoldsTurn(p) THEN HandCount ELSE HandCount - 1

IsReordered(h) == \A i, j \in DOMAIN h : i <= j => h[i] <= h[j]

\* Hands are kept sorted but for the tile just drawn, which the helpers that take
\* adjacent copies out of a hand (ServerUtility.cpp:310-342) rely on.
HandsReordered ==
    InPlay => \A p \in Seats :
        IF HoldsTurn(p) THEN IsReordered(Front(handIn[p])) ELSE IsReordered(handIn[p])

\* A peng shows three tiles of its kind, a gang four.
MeldTiles(melds, t) ==
    {tile \in (DOMAIN melds) \X (1 .. 4) :
        LET meld == melds[tile[1]]
        IN  meld.mah = t /\ (tile[2] = 4 => meld.type = AT_GANG)}
LaidCopies(melds, players, t) ==
    Cardinality(PlacesOf([p \in Seats |-> MeldTiles(melds[p], t)], players))

CopiesSeen(t, players) ==
    pool[t] + HeldCopies(handIn, t) + LaidCopies(pengGang, players, t)

\* No tile is in two places: the pool, the hands and the melds never show more
\* copies of a tile than there are.  Melds of a wrong gang are left out.
TilesConserved == \A t \in Kind : CopiesSeen(t, Seats \ wrongGang) <= SingleCount

\* There is always exactly one banker among the players.
OneBanker == \E p \in Seats : \A q \in Seats : banker[q] <=> q = p

\* The room waits for an answer that nobody will be able to give.
Stuck == playState = "MPS_WAIT_FOR_ACTION" /\ \A p \in Seats : ~Waiting(p)

\* A hand that is being played comes to its end, unless the room gets stuck.
HandEnds == playState \in {"MPS_NORMAL_GAMING", "MPS_WAIT_FOR_ACTION"} /\ ~crashed
            ~> playState = "MPS_ENDING" \/ Stuck

(* Statements of the repository that the code does not keep *)

\* GameDefine.h: in MPS_WAIT_FOR_ACTION the room waits for players to choose.
WaitStateHasWaiters == ~Stuck

\* Room.cpp:771: a gang need not be of the tile just drawn.  So whatever tile it
\* is of, that tile's copies are taken from the hand.
EveryGangIsPaid == \A t \in Kind : CopiesSeen(t, Seats) <= SingleCount

\* Room.h:100: mBankerPos is the seat of the banker of this hand.
BankerPosIsBanker ==
    playState = "MPS_GET_START" => bankerPos \in Seats /\ banker[bankerPos]
=============================================================================
