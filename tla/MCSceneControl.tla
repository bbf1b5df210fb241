--------------------------- MODULE MCSceneControl ---------------------------
(***************************************************************************)
(* A day of two hours of two minutes of four units (a unit stands for 15   *)
(* seconds: the check comes after 30 to 45, more than the watchdog lets    *)
(* the superloop be late); three sub-frames of two panels, so that the     *)
(* bytes written for the last panels lie beyond the table; two scenes.     *)
(***************************************************************************)
EXTENDS SceneControl, TLC

Task(h, m, s) == [hour |-> h, min |-> m, enable |-> TRUE, scene |-> s]

\* Two tasks of one minute; a disabled one and one of the day's last minute.
MCTaskLists == {<<Task(1, 0, 1), Task(1, 0, 0)>>,
                <<[Task(0, 0, 0) EXCEPT !.enable = FALSE], Task(1, 1, 1)>>}

MCScenes == (0 :> [keyCtrl |-> Panels, keyOn |-> Panels, relayCtrl |-> {0, 6}, relayOn |-> {0, 6}])
         @@ (1 :> [keyCtrl |-> {0, 2, 4}, keyOn |-> {}, relayCtrl |-> {0, 6}, relayOn |-> {}])
=============================================================================
