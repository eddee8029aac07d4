------------------------------ MODULE MCOsSim ------------------------------
(* Configurations of OsSim like those under input/: processes of several   *)
(* priorities, some of which arrive while others run.                      *)
EXTENDS OsSim

\* Three processes on two levels; the last two arrive one after the other.
Prio3 == <<1, 0, 1>>
Start3 == <<0, 1, 1>>
Size3 == <<2, 2, 1>>

\* Four processes, the last of them an empty program.  Three share the first
\* level, whose slots are used up and refilled and whose queue holds two of them:
\* the third may find it full, which ends the program.
Prio4 == <<1, 0, 0, 0>>
Start4 == <<0, 0, 1, 1>>
Size4 == <<5, 6, 3, 0>>

\* Two one-instruction processes on two levels.
Prio2 == <<0, 1>>
Start2 == <<0, 0>>
Size2 == <<1, 1>>
=============================================================================
