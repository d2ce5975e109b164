---------------------------- MODULE AuditWindow ----------------------------
(***************************************************************************)
(* What audit.list promises its reader, with no locks, files or steps:     *)
(* calls are numbered in the order the server finished recording them, and *)
(* the window shows the last MaxEntries of them since the server started,  *)
(* in that order and without a hole.  A restart empties the window; a      *)
(* crash may also use up the number of the call it interrupted.            *)
(***************************************************************************)
EXTENDS Naturals, Sequences

CONSTANT MaxEntries   \* a positive number, as AuditLog assumes

VARIABLES
    total,   \* calls numbered so far, over all restarts
    window   \* the numbers audit.list shows, oldest first

Init ==
    /\ total = 0
    /\ window = <<>>

(* One more call is recorded: it becomes the newest of the window. *)
Record ==
    /\ total' = total + 1
    /\ window' = IF Len(window) < MaxEntries
                   THEN Append(window, total + 1)
                   ELSE Append(Tail(window), total + 1)

(* The process ends and starts again, perhaps in the middle of a recording. *)
Restart ==
    /\ total' \in {total, total + 1}
    /\ window' = <<>>

Next == Record \/ Restart

Spec == Init /\ [][Next]_<<total, window>>
=============================================================================
