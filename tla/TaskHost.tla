------------------------------ MODULE TaskHost ------------------------------
(* What a host does on its own: the tasks that fall due (TaskClaims) and the *)
(* models that it serves (ModelHost, as M).                                  *)
EXTENDS TaskClaims

CONSTANTS Slug, Drive, Home, Unknown, MaxProcs, MaxDeaths, MaxMoves
VARIABLES host, job, child, badge, chat, saved, server, started, crashed, file,
    listed, table, mounted, last, todo, moves

files == <<file, listed, table, mounted, moves>>
models == <<host, job, child, badge, chat, saved, server, started, crashed,
            files, last, todo>>

M == INSTANCE ModelHost WITH
    row <- table, crashes <- crashed, MaxCrashes <- MaxDeaths

\* What a model's row leads to verifies, and the server that answers is the one
\* the host started for the model that chat asks for (pai-models, pai-ffi).
ModelsAreSound == M!ModelsAreSound
=============================================================================
