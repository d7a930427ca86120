----------------------------- MODULE GameClient -----------------------------
(***************************************************************************)
(* The browser's side of the game (class GameState of                      *)
(* leave_game/precode/static/js/game.js) and the session it shows.  The    *)
(* client asks for the state and for the names of the players every few    *)
(* animation frames, and reports the keys; the calls are independent, so   *)
(* replies come in any order and some never come.  All the replies name    *)
(* the players by their places in the session's queue of players.          *)
(*                                                                         *)
(* The screen is made of copies: every 3D object that the client creates   *)
(* for a lost object is a new one.                                         *)
(***************************************************************************)
EXTENDS Naturals, Sequences, FiniteSets, GameScreen

CONSTANTS
  Me,            \* the player of this browser
  Keys,          \* of the arrows
  Room,          \* how many objects a player can hold
  PosEvery,      \* posUpdateInterval
  PlayersEvery,  \* playersUpdateInterval
  CanFail,       \* the kinds of calls of which one (bound) may fail
  CanOvertake,   \* the kinds of which one (bound) may overtake others
  MaxCalls,      \* bound: calls under way
  MaxPresses     \* bound: key events

Kinds == {"state", "players", "action"}

ASSUME ClientAssumption ==
  /\ Me \in Persons /\ "" \notin Keys
  /\ PosEvery \in Nat \ {0} /\ PlayersEvery \in Nat \ {0} /\ PlayersEvery % PosEvery = 0
  /\ CanFail \subseteq Kinds /\ CanOvertake \subseteq Kinds

VARIABLES
  where,       \* session: the place of every lost object
  order,       \* session: its players, a queue; replies name them by their places
  joined,      \* session: who has joined, in order (history)
  retired,     \* session: who of them has retired (history)
  heading,     \* session: the move of Me that the server obeys
  calls,       \* the calls under way, in the order in which they were made
  overtaken,   \* history: the kinds of which a call was overtaken
  failed,      \* history: the kinds of which a call failed
  page,        \* "game" or, after goToRecords, "records"
  loaded,      \* stateLoaded, playersLoaded: the kinds that have been loaded
  ticks,       \* this.ticks, as far as the intervals, of which one divides the
               \* other, tell it apart
  instant,     \* requestInstantUpdate
  desired,     \* desiredState
  pressed,     \* keyState.pressedKeys
  presses,     \* how many key events there were
  screen       \* what is shown, see GameScreen

sessionVars == <<where, order, joined, retired, heading>>
networkVars == <<calls, overtaken, failed>>
clientVars  == <<page, loaded, ticks, instant, desired, pressed, presses, screen>>
vars == <<sessionVars, networkVars, clientVars>>

-----------------------------------------------------------------------------
(* The session, as the other players and its ticks change it *)

Life == INSTANCE LootLife WITH Ids <- Loot, Holders <- Persons

InGame(p) == \E i \in DOMAIN order : order[i] = p

\* The sequence s without its element k.
Without(s, k) == SubSeq(s, 1, k - 1) \o SubSeq(s, k + 1, Len(s))

Join(p) ==
  /\ ~InGame(p) /\ p \notin retired
  /\ order' = Append(order, p)
  /\ joined' = Append(joined, p)
  /\ UNCHANGED <<where, retired, heading>>

\* The players behind the one who retires move up.
Retire(p) ==
  /\ \E k \in DOMAIN order : order[k] = p /\ order' = Without(order, k)
  /\ retired' = retired \cup {p}
  /\ Life!Leave({p}, Life!Nowhere)
  /\ UNCHANGED <<joined, heading>>

MoveLoot ==
  /\ \/ \E x \in Loot : Life!Appear({x})
     \/ \E x \in Loot, p \in Persons : InGame(p) /\ Life!Take(x, p)
     \/ \E p \in Persons : Life!Leave({p}, Life!Office)
  /\ UNCHANGED <<order, joined, retired, heading>>

Session ==
  /\ MoveLoot \/ \E p \in Persons : Join(p) \/ Retire(p)
  /\ UNCHANGED <<networkVars, clientVars>>

-----------------------------------------------------------------------------
(* The calls.  A call is sent, then done or refused, and then its callback runs. *)

Call(kind, key) == [kind |-> kind, key |-> key, status |-> "sent", view |-> NoView]
States  == <<Call("state", "")>>
Players == <<Call("players", "")>>

StateView ==
  [bags  |-> [i \in DOMAIN order |-> {x \in Loot : where[x] = Life!Bag(order[i])}],
   lost  |-> {x \in Loot : where[x] = Life!OnMap},
   names |-> <<>>]
PlayersView_MeFirst == [bags |-> <<>>, lost |-> {}, names |-> <<Me>> \o order]
PlayersView == [bags |-> <<>>, lost |-> {}, names |-> order]

\* What the server replies to c now.
Reply(c) ==
  CASE ~InGame(Me)        -> [c EXCEPT !.status = "refused"]
    [] c.kind = "state"   -> [c EXCEPT !.status = "done", !.view = StateView]
    [] c.kind = "players" -> [c EXCEPT !.status = "done", !.view = PlayersView]
    [] c.kind = "action"  -> [c EXCEPT !.status = "done"]

\* Call k goes ahead of the older calls S.
Overtakes(k, S) ==
  IF calls[k].kind \in {calls[j].kind : j \in S}
  THEN calls[k].kind \in CanOvertake \ overtaken /\ overtaken' = overtaken \cup {calls[k].kind}
  ELSE UNCHANGED overtaken

\* The server handles call k.
Answer(k) ==
  /\ k \in DOMAIN calls /\ calls[k].status = "sent"
  /\ calls' = [calls EXCEPT ![k] = Reply(@)]
  /\ heading' = IF calls[k].kind = "action" /\ InGame(Me) THEN calls[k].key ELSE heading
  /\ Overtakes(k, {j \in 1 .. k - 1 : calls[j].status = "sent"})
  /\ UNCHANGED <<where, order, joined, retired, failed, clientVars>>

\* Call k is lost, on its way to the server or back.
Fail(k) ==
  /\ k \in DOMAIN calls /\ calls[k].kind \in CanFail \ failed
  /\ failed' = failed \cup {calls[k].kind}
  /\ calls' = Without(calls, k)
  /\ UNCHANGED <<sessionVars, overtaken, clientVars>>

-----------------------------------------------------------------------------
(* The client *)

Started == loaded = {"state", "players"}

\* _updateState(...).done
StateDone(view) ==
  /\ desired' = view
  /\ loaded' = loaded \cup {"state"}
  /\ screen' = IF "players" \in loaded THEN Applied(screen, view) ELSE screen
  /\ UNCHANGED <<page, instant>>

\* _syncPlayers(...).done; the very first time it may start the game.
PlayersDone(view) ==
  /\ loaded' = loaded \cup {"players"}
  /\ LET listed == Listed(screen, view.names)
     IN screen' = IF loaded = {"state"} THEN Applied(listed, desired) ELSE listed
  /\ UNCHANGED <<page, instant, desired>>

\* _pressKey(...).done
ActionDone ==
  /\ instant' = TRUE
  /\ UNCHANGED <<page, loaded, desired, screen>>

\* Only _syncPlayers looks at a refusal.
Refused(kind) ==
  /\ page' = IF kind = "players" THEN "records" ELSE page
  /\ UNCHANGED <<loaded, instant, desired, screen>>

\* The callback of call k runs.  Who leaves the page gives up all the calls.
Deliver(k) ==
  /\ k \in DOMAIN calls /\ calls[k].status # "sent"
  /\ CanCreate(screen)
  /\ LET c == calls[k]
     IN \/ c.status = "refused"                    /\ Refused(c.kind)
        \/ c.status = "done" /\ c.kind = "state"   /\ StateDone(c.view)
        \/ c.status = "done" /\ c.kind = "players" /\ PlayersDone(c.view)
        \/ c.status = "done" /\ c.kind = "action"  /\ ActionDone
  /\ calls' = IF page' = "records" THEN <<>> ELSE Without(calls, k)
  /\ Overtakes(k, 1 .. k - 1)
  /\ UNCHANGED <<sessionVars, failed, ticks, pressed, presses>>

AsksState == (ticks' % PosEvery = 0 \/ instant) /\ Started
AsksPlayers_FlagStuck == FALSE
AsksPlayers == ticks' % PlayersEvery = 0 /\ Started

\* One animation frame.  The two flags that should keep a call from being made
\* while another of its kind is under way are never found set: one is only set
\* while a list of players is worked through, the other is cleared where it is set.
Tick ==
  /\ page = "game"
  /\ ticks' = (ticks + 1) % PlayersEvery
  /\ calls' = calls \o (IF AsksState THEN States ELSE <<>>)
                    \o (IF AsksPlayers THEN Players ELSE <<>>)
  /\ Len(calls') <= MaxCalls
  /\ instant' = (instant /\ ~AsksState)
  /\ \E gone \in SUBSET Falling(screen) : screen' = Expired(screen, gone)
  /\ UNCHANGED <<sessionVars, overtaken, failed, page, loaded, desired, pressed, presses>>

\* getLastKey
LastKey(ks) == IF ks = <<>> THEN "" ELSE ks[Len(ks)]

\* The pressed keys become ks, and _pressKey tells the server the last one.
Press(ks) ==
  /\ page = "game" /\ Len(calls) < MaxCalls /\ presses < MaxPresses
  /\ pressed' = ks
  /\ presses' = presses + 1
  /\ calls' = Append(calls, Call("action", LastKey(ks)))
  /\ UNCHANGED <<sessionVars, overtaken, failed, page, loaded, ticks, instant, desired, screen>>

IsPressed(key) == \E i \in DOMAIN pressed : pressed[i] = key

KeyDown(key) == ~IsPressed(key) /\ Press(Append(pressed, key))
KeyUp_Unreported(key) ==
  /\ \E k \in DOMAIN pressed : pressed[k] = key /\ pressed' = Without(pressed, k)
  /\ UNCHANGED <<sessionVars, networkVars, page, loaded, ticks, instant, desired, presses, screen>>
KeyUp(key) == \E k \in DOMAIN pressed : pressed[k] = key /\ Press(Without(pressed, k))

-----------------------------------------------------------------------------

\* Me joined, after at most one other; the page is loaded and has made its calls.
Init ==
  /\ Life!Init /\ retired = {} /\ heading = ""
  /\ order \in {<<Me>>} \cup {<<p, Me>> : p \in Persons \ {Me}} /\ joined = order
  /\ calls = States \o Players /\ overtaken = {} /\ failed = {}
  /\ page = "game" /\ loaded = {} /\ ticks = 0 /\ instant = FALSE /\ desired = NoView
  /\ pressed = <<>> /\ presses = 0 /\ screen = EmptyScreen

Next ==
  \/ Session
  \/ \E k \in DOMAIN calls : Answer(k) \/ Deliver(k) \/ Fail(k)
  \/ Tick
  \/ \E key \in Keys : KeyDown(key) \/ KeyUp(key)

Spec == Init /\ [][Next]_vars

\* The server answers and the browser runs callbacks and animation frames.
FairSpec == Spec /\ WF_vars(Tick) /\ WF_vars(Answer(1)) /\ WF_vars(Deliver(1))
=============================================================================
