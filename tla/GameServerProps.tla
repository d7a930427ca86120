-------------------------- MODULE GameServerProps --------------------------
(***************************************************************************)
(* What must be true of the server process: that neither players nor       *)
(* records are lost or doubled beyond what the unsaved end of a process    *)
(* costs, and that a restart resumes the game.                             *)
(***************************************************************************)
EXTENDS GameServer

Rows(t)  == {i \in DOMAIN records : records[i].token = t}
Recorded == {t \in Tokens : Rows(t) # {}}
InFile   == IF file \in {NoFile, Corrupt} THEN {} ELSE Range(file.order)
Pending  == {r.token : r \in pending}

\* Nobody is recorded twice in one life of the process, nor across clean
\* restarts: a second row, or a row of somebody who plays, is the price of an
\* end without saving, which brings back a player who was recorded.
OneRowPerRetirement ==
  /\ \A t \in Tokens : Cardinality(Rows(t)) <= 1 + losses
  /\ losses = 0 => Recorded \cap (players \cup Pending) = {}

\* Who has once been in a state file is not forgotten, whenever the process is
\* killed: such a player plays, is about to be recorded, is in the file, or is
\* recorded; only a failed insertion loses a retired player.
NobodyForgotten ==
  \A t \in durable \ dropped :
    t \in Recorded \/ t \in InFile \/ (Up /\ t \in players \cup Pending)

\* With automatic saves, the file is never further behind the game than the save
\* period once a tick is over, unless saving fails.
AutosaveOnTime ==
  mode = "Serving" /\ stage = "Ready" => sinceSave < SavePeriod \/ sinceSave = 0

\* A restart after a clean stop resumes the game as the players left it:
\* positions, speeds, bags, scores, times, lost objects and the next id.
RestartResumes ==
  [][Start /\ left # NoView => View' = left]_serverVars

\* Whoever retires is recorded, or the insertion failed, or the process ended.
RetireesAreRecorded ==
  \A t \in Tokens : t \in Pending ~> t \in Recorded \/ t \in dropped \/ ~Up

\* A player whose client falls silent, even with the dog running, is retired:
\* the roads end, the dog stops, and the idle time adds up over restarts too.
\* Stated as: whoever is in the game leaves it, or sends moves for ever, unless
\* the process keeps ending or an exception has stopped the ticks.
SilentPlayersRetire ==
  \A t \in Tokens :
    \/ []<>(t \notin players)
    \/ []<><<\E move \in ClientMoves : ActionRequest(t, move)>>_serverVars
    \/ []<>(~Up \/ ~armed)

\* Saving reports its failures: what a save that threw no exception leaves behind
\* can be loaded.
SavedFileLoads == file # Corrupt
=============================================================================
