----------------------------- MODULE AtomicFile -----------------------------
(***************************************************************************)
(* What the callers of writeSecureAtomic (src/mpc/helper.go) rely on: a    *)
(* file is replaced in one step, by the complete data of exactly one call, *)
(* or is left as it was.  A version of a file is named after the call that *)
(* wrote it, and a version is always complete.  A power failure may take a *)
(* file back to an earlier version, never to anything else.                *)
(***************************************************************************)

CONSTANTS
  Calls,      \* the calls of writeSecureAtomic
  Targets,    \* the final paths they are given
  NoFile      \* "there is no file at this path"

VARIABLES
  path,       \* path[c]: the finalPath argument of call c
  file,       \* file[t]: the version a reader of path t finds
  saved,      \* saved[t]: the version that would survive a power failure
  result      \* result[c]: what call c has returned, or "none"

vars == <<path, file, saved, result>>

Init ==
  /\ path \in [Calls -> Targets]
  /\ file = [t \in Targets |-> NoFile]
  /\ saved = [t \in Targets |-> NoFile]
  /\ result = [c \in Calls |-> "none"]

\* Call c succeeds: its data becomes the file.
Commit(c) ==
  /\ result[c] = "none"
  /\ file' = [file EXCEPT ![path[c]] = c]
  /\ result' = [result EXCEPT ![c] = "ok"]
  /\ UNCHANGED <<path, saved>>

\* Call c fails: no file changes.
Fail(c) ==
  /\ result[c] = "none"
  /\ result' = [result EXCEPT ![c] = "error"]
  /\ UNCHANGED <<path, file, saved>>

\* The current version of path t reaches the disk.
Save(t) ==
  /\ saved' = [saved EXCEPT ![t] = file[t]]
  /\ UNCHANGED <<path, file, result>>

PowerLoss ==
  /\ file' = saved
  /\ UNCHANGED <<path, saved, result>>

Next ==
  \/ \E c \in Calls : Commit(c) \/ Fail(c)
  \/ \E t \in Targets : Save(t)
  \/ PowerLoss

Spec == Init /\ [][Next]_vars
=============================================================================
