------------------------------ MODULE Analysis ------------------------------
(***************************************************************************)
(* The two tools that read the CSV of kvxfer: kvreplay and kvloadsim, one  *)
(* of them on one file.                                                    *)
(***************************************************************************)
EXTENDS Replay, LoadSim

CONSTANTS ReplayFiles,      \* the files kvreplay is given
          LoadSimFiles      \* and those kvloadsim is

ASSUME FilesAssumption == \A f \in ReplayFiles \cup LoadSimFiles : IsFile(f)

VARIABLE tool

replayvars == <<learners, predictions>>
loadvars == <<tr, loader, learner, sinceLoad, start, done, now, ideal, inARow>>
avars == <<tool, rows, loadvars, replayvars>>

AInit ==
    /\ tool \in {"kvreplay", "kvloadsim"}
    /\ LInit(IF tool = "kvreplay" THEN ReplayFiles ELSE LoadSimFiles)
    /\ tool = "kvreplay" => loader = AnyLoader
    /\ RInit(ReplayFiles \cup LoadSimFiles)

Replays == tool = "kvreplay" /\ ReplayRow /\ UNCHANGED <<tool, loadvars>>
Loads == tool = "kvloadsim" /\ LNext /\ UNCHANGED <<tool, replayvars>>

ANext == Replays \/ Loads

ASpec == AInit /\ [][ANext]_avars
=============================================================================
