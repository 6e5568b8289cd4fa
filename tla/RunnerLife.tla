------------------------------ MODULE RunnerLife ------------------------------
(***************************************************************************)
(* What a Runner promises whoever owns it, a RunnerSet or a user, without  *)
(* Pod, Secret, Github or reconciles.                                      *)
(*                                                                         *)
(*   exists    the Runner is on the API server.                            *)
(*   deleting  its deletionTimestamp is set.                               *)
(*   held      the controller's finalizer is on it.                        *)
(*   phase     status.phase.                                               *)
(*   inUse     its Pod runs or its token Secret exists.                    *)
(***************************************************************************)
VARIABLES exists, deleting, held, phase, inUse

lifeVars == <<exists, deleting, held, phase, inUse>>

Reported == {"Pending", "Idle", "Active", "Complete"}

Absent == exists = FALSE /\ deleting = FALSE /\ held = FALSE /\ phase = ""

LifeInit == Absent /\ inUse = FALSE

\* a new Runner starts from nothing, whatever the one before it left behind
Create ==
    /\ ~exists
    /\ exists' = TRUE /\ deleting' = FALSE /\ held' = FALSE /\ phase' = ""
    /\ UNCHANGED inUse

\* the controller holds on to the Runner; it lets go only in Release
Hold ==
    /\ exists /\ ~deleting
    /\ held' = TRUE
    /\ UNCHANGED <<exists, deleting, phase, inUse>>

\* a deletion is never withdrawn; without the finalizer it is immediate
Delete ==
    /\ exists /\ ~deleting
    /\ \/ held /\ deleting' = TRUE /\ UNCHANGED <<exists, held, phase>>
       \/ ~held /\ Absent'
    /\ UNCHANGED inUse

\* once there is a status it never disappears
Report ==
    /\ exists
    /\ phase' \in Reported
    /\ UNCHANGED <<exists, deleting, held, inUse>>

\* Pod and Secret come and go
Use == inUse' \in BOOLEAN /\ UNCHANGED <<exists, deleting, held, phase>>

\* the Runner leaves when nothing of it is in use any more
Release ==
    /\ deleting /\ ~inUse
    /\ Absent'
    /\ UNCHANGED inUse

LifeNext == Create \/ Hold \/ Delete \/ Report \/ Use \/ Release

LifeSpec == LifeInit /\ [][LifeNext]_lifeVars
=============================================================================
