----------------------------- MODULE GameServer -----------------------------
(***************************************************************************)
(* The server process around a session: RequestHandler::OnTick, which      *)
(* records the retired players and saves the state, the state file         *)
(* (game_serialization.h), the table of records (retirement_db.cpp), and   *)
(* the start, the stop and the failures of the process (main.cpp).         *)
(*                                                                         *)
(* A manual tick runs on the strand of the listener, so no request runs    *)
(* before OnTick has returned.  The timer of --tick-period runs outside    *)
(* the strand: requests then run while the records are being inserted.     *)
(* That they may also run inside Tick and SerializeGame is a data race,    *)
(* whose outcomes this module leaves out.                                  *)
(***************************************************************************)
EXTENDS GameSessionProps, SequencesExt

CONSTANTS
  AutoTick,      \* is --tick-period given?
  Workers,       \* threads that run the io_context, the main thread included
  ClientMoves,   \* the moves the clients send
  SavePeriod,    \* --save-state-period; without it, longer than any run
  Faults,        \* what may fail: "insert", "save", "flush", "kill"
  MaxLosses,     \* bound: how often the process may end without saving
  NoFile, Corrupt, NoView   \* values that no game has

ASSUME ServerAssumption ==
  /\ AutoTick \in BOOLEAN
  /\ Workers \in Nat \ {0}
  /\ ClientMoves \subseteq Moves
  /\ SavePeriod \in Nat
  /\ MaxLosses \in Nat

\* What a state file may hold when S are the players: their order and what belongs
\* to each, the lost objects and the next id.
Entries == [pos : Point, vel : Point, bag : Seq(Item), score : Int, idle : Nat, play : Nat]
Games(S) ==
  [order : Seq(S), player : [S -> Entries], lost : SUBSET Lost, nextId : Nat,
   ledger : [delivered : SUBSET Delivery, forfeited : SUBSET Item]]

ASSUME FileAssumption ==
  \A S \in SUBSET Tokens : NoFile \notin Games(S) /\ Corrupt \notin Games(S)

VARIABLES
  mode,        \* "Serving", "Unwinding" (an exception left main's worker), "Down"
  stage,       \* "Ready", or "Record" while OnTick handles what Tick returned
  pending,     \* the RetiredPlayerInfo still to be inserted
  tickTime,    \* the time_delta_ms of the running OnTick
  sinceSave,   \* time_since_save_ms_
  armed,       \* will there be another tick?
  file,        \* the state file
  records,     \* retired_players, in the order of its ids
  issued,      \* history: all tokens ever returned to clients
  durable,     \* history: the tokens that were in some state file
  dropped,     \* history: the retired whose insertion failed
  losses,      \* history: how often the process ended without saving
  left         \* history: the game as the last clean stop left it

processVars == <<mode, stage, pending, tickTime, sinceSave, armed>>
history     == <<issued, durable, dropped, losses, left>>
serverVars  == <<vars, processVars, file, records, history>>

-----------------------------------------------------------------------------
(* The state file *)

\* The members of the sequence s that are in S, in their order.
Among(s, S) == FoldLeft(LAMBDA kept, x : IF x \in S THEN Append(kept, x) ELSE kept, <<>>, s)

LivePlayers == Among(dogs, players)

\* SerializeGame.  (The ledger is not in the file: it is history, and returns
\* to what it was when the process returns to an old file.)
Snapshot_WithoutNextId ==
  [order |-> LivePlayers, lost |-> lost, nextId |-> 0, ledger |-> ledger,
   player |-> [t \in players |-> [pos |-> pos[t], vel |-> vel[t], bag |-> bag[t],
                                  score |-> score[t], idle |-> idle[t], play |-> play[t]]]]
Snapshot ==
  [order |-> LivePlayers, lost |-> lost, nextId |-> nextId, ledger |-> ledger,
   player |-> [t \in players |-> [pos |-> pos[t], vel |-> vel[t], bag |-> bag[t],
                                  score |-> score[t], idle |-> idle[t], play |-> play[t]]]]

\* The game that LoadGame builds.
NewGame ==
  [order |-> <<>>, lost |-> {}, nextId |-> 0, player |-> <<>>,
   ledger |-> [delivered |-> {}, forfeited |-> {}]]

Entry(s, t) ==
  IF t \in Range(s.order) THEN s.player[t]
  ELSE [pos |-> Pt(0, 0), vel |-> Still, bag |-> <<>>, score |-> 0, idle |-> 0, play |-> 0]

\* DeserializeGame: the players come back with new dogs; retired dogs and the
\* clock of the loot generator do not come back.
Restore_IdleForgotten(s) ==
  /\ dogs' = s.order /\ players' = Range(s.order) /\ retired' = {}
  /\ pos' = [t \in Tokens |-> Entry(s, t).pos]
  /\ vel' = [t \in Tokens |-> Entry(s, t).vel]
  /\ bag' = [t \in Tokens |-> Entry(s, t).bag]
  /\ score' = [t \in Tokens |-> Entry(s, t).score]
  /\ idle' = [t \in Tokens |-> 0]
  /\ play' = [t \in Tokens |-> Entry(s, t).play]
  /\ lost' = s.lost /\ nextId' = s.nextId /\ waited' = 0
  /\ phase' = "Idle" /\ delta' = 0 /\ events' = {} /\ handed' = {}
  /\ ledger' = s.ledger
Restore(s) ==
  /\ dogs' = s.order /\ players' = Range(s.order) /\ retired' = {}
  /\ pos' = [t \in Tokens |-> Entry(s, t).pos]
  /\ vel' = [t \in Tokens |-> Entry(s, t).vel]
  /\ bag' = [t \in Tokens |-> Entry(s, t).bag]
  /\ score' = [t \in Tokens |-> Entry(s, t).score]
  /\ idle' = [t \in Tokens |-> Entry(s, t).idle]
  /\ play' = [t \in Tokens |-> Entry(s, t).play]
  /\ lost' = s.lost /\ nextId' = s.nextId /\ waited' = 0
  /\ phase' = "Idle" /\ delta' = 0 /\ events' = {} /\ handed' = {}
  /\ ledger' = s.ledger

\* SaveGameToFile: the temporary file is written and renamed.
Saved ==
  /\ file' = Snapshot
  /\ durable' = durable \cup players

\* A state of less than a kilobyte waits in the buffer of the stream until the
\* destructor flushes it, after the last check for errors: when the disk is full
\* then, an incomplete file is renamed.
SavedIncompletely ==
  /\ "flush" \in Faults
  /\ file' = Corrupt
  /\ UNCHANGED durable

-----------------------------------------------------------------------------
(* The process *)

ServerInit ==
  /\ Init
  /\ mode = "Down" /\ stage = "Ready" /\ pending = {} /\ tickTime = 0
  /\ sinceSave = 0 /\ armed = TRUE
  /\ file = NoFile /\ records = <<>>
  /\ issued = {} /\ durable = {} /\ dropped = {} /\ losses = 0 /\ left = NoView

Up == mode # "Down"

\* What the players of the running game can see of it.
View == <<LivePlayers, [t \in players |-> <<pos[t], vel[t], bag[t], score[t], idle[t], play[t]>>],
          lost, nextId>>

\* main: load the configuration, then the state file if there is one.  A file
\* that cannot be parsed ends the process at once.
Start ==
  /\ mode = "Down" /\ file # Corrupt
  /\ LET s == IF file = NoFile THEN NewGame ELSE file
     IN Restore(s) /\ dropped' = dropped \ Range(s.order)
  /\ mode' = "Serving"
  /\ UNCHANGED <<stage, pending, tickTime, sinceSave, armed, file, records,
                 issued, durable, losses, left>>

\* The memory of the process is gone.
Gone ==
  /\ Restore(NewGame)
  /\ mode' = "Down" /\ stage' = "Ready" /\ pending' = {} /\ tickTime' = 0
  /\ sinceSave' = 0 /\ armed' = TRUE

\* The end of the process without saving: it is killed, or an exception leaves a
\* worker that is not main's (std::terminate) or main itself.
EndUnsaved ==
  /\ losses < MaxLosses
  /\ Gone
  /\ losses' = losses + 1 /\ left' = NoView
  /\ UNCHANGED <<file, issued, durable, dropped>>

\* The final SaveStateIfNeeded of main, after the last worker has returned.
StopSaves_Not == UNCHANGED <<file, durable>>
StopSaves == Saved

\* SIGINT or SIGTERM stops the io_context; the workers return when their
\* handlers have.  When an exception has left main's worker, main only waited for
\* the other workers, and ends without saving.
Stop ==
  /\ Up /\ stage = "Ready" /\ phase = "Idle"
  /\ \/ /\ mode = "Serving"
        /\ StopSaves
        /\ Gone
        /\ left' = View
        /\ UNCHANGED <<issued, dropped, losses>>
     \/ /\ mode = "Serving" /\ SavedIncompletely
        /\ Gone
        /\ left' = NoView
        /\ UNCHANGED <<issued, dropped, losses>>
     \/ mode = "Unwinding" /\ EndUnsaved
     \/ mode = "Serving" /\ "save" \in Faults /\ EndUnsaved
  /\ UNCHANGED records

Kill == Up /\ "kill" \in Faults /\ EndUnsaved /\ UNCHANGED records

\* An exception leaves OnTick.  In main's worker it is held up by the other
\* workers, which go on serving; the timer of the ticks is not armed again.
Throw(since) ==
  \/ EndUnsaved
  \/ /\ mode = "Serving" /\ Workers > 1
     /\ losses < MaxLosses      \* the bound leaves room for the end that follows
     /\ mode' = "Unwinding"
     /\ stage' = "Ready" /\ pending' = {} /\ tickTime' = 0
     /\ armed' = ~AutoTick /\ sinceSave' = since
     /\ dropped' = dropped \cup {r.token : r \in pending}
     /\ UNCHANGED <<vars, file, issued, durable, losses, left>>

-----------------------------------------------------------------------------
(* Requests and ticks *)

Free == Up /\ (stage = "Ready" \/ AutoTick)

JoinRequest(t, p) ==
  /\ Free /\ t \notin issued
  /\ Join(t, p)
  /\ issued' = issued \cup {t}
  /\ UNCHANGED <<processVars, file, records, durable, dropped, losses, left>>

ActionRequest(t, move) ==
  /\ Free
  /\ Action(t, move)
  /\ UNCHANGED <<processVars, file, records, history>>

OnTick(dt) ==
  /\ Up /\ stage = "Ready" /\ armed
  /\ TickBegin(dt)
  /\ tickTime' = dt
  /\ UNCHANGED <<mode, stage, pending, sinceSave, armed, file, records, history>>

GatherStep ==
  /\ \E e \in events : Gather(e)
  /\ UNCHANGED <<processVars, file, records, history>>

TickReturns ==
  /\ TickEnd
  /\ stage' = "Record" /\ pending' = handed'
  /\ UNCHANGED <<mode, tickTime, sinceSave, armed, file, records, history>>

\* Whose turn it is: the players retire, and are inserted, in their order.
Foremost(r) ==
  /\ r \in pending
  /\ \A q \in pending : \E i \in DOMAIN dogs :
       dogs[i] = r.token /\ \A j \in 1 .. i - 1 : dogs[j] # q.token

\* SaveRetirements: one transaction per player.  It may fail, and it may fail to
\* learn that it has succeeded.
Insert ==
  /\ stage = "Record"
  /\ \E r \in pending :
       /\ Foremost(r)
       /\ \/ /\ records' = Append(records, r)
             /\ pending' = pending \ {r}
             /\ UNCHANGED <<vars, mode, stage, tickTime, sinceSave, armed, file, history>>
          \/ "insert" \in Faults /\ Throw(sinceSave) /\ records' \in {records, Append(records, r)}

\* When the state is saved: after the records, never before.
SaveDue_BeforeRecords == stage = "Record"
SaveDue == stage = "Record" /\ pending = {}

SaveNeeded_Late(since) == since > SavePeriod
SaveNeeded(since) == since >= SavePeriod

\* The rest of OnTick: the automatic save.
Autosave ==
  /\ SaveDue
  /\ LET since == sinceSave + tickTime
     IN IF ~SaveNeeded(since)
        THEN /\ stage' = "Ready" /\ tickTime' = 0 /\ sinceSave' = since
             /\ UNCHANGED <<vars, mode, pending, armed, file, history>>
        ELSE \/ /\ Saved \/ SavedIncompletely
                /\ stage' = "Ready" /\ tickTime' = 0 /\ sinceSave' = 0
                /\ UNCHANGED <<vars, mode, pending, armed, issued, dropped, losses, left>>
             \/ "save" \in Faults /\ Throw(since)
  /\ UNCHANGED records

OnTickStep == GatherStep \/ TickReturns \/ Insert \/ Autosave

ServerNext ==
  \/ Start \/ Stop \/ Kill
  \/ \E t \in Tokens, p \in SpawnPoints : JoinRequest(t, p)
  \/ \E t \in Tokens, move \in ClientMoves : ActionRequest(t, move)
  \/ \E dt \in Deltas : OnTick(dt)
  \/ OnTickStep

ServerSpec == ServerInit /\ [][ServerNext]_serverVars

\* An OnTick that has begun goes on as long as the process lives, and the timer
\* of --tick-period, armed again after every tick, calls the next one.
FairServerSpec ==
  /\ ServerSpec
  /\ WF_serverVars(OnTickStep)
  /\ WF_serverVars(AutoTick /\ \E dt \in Deltas \ {0} : OnTick(dt))
=============================================================================
