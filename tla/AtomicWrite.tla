---------------------------- MODULE AtomicWrite ----------------------------
(***************************************************************************)
(* writeSecureAtomic and secureDelete (src/mpc/helper.go), one action per  *)
(* system call, run by any number of calls at once: two operators of the   *)
(* ceremony in one directory, or one operator who tries again.             *)
(*                                                                         *)
(* Each call creates at most one file, so that file is named after the     *)
(* call.  A path is a final path together with its ".tmp" (no final path   *)
(* is another one's ".tmp").  Of a file's data only its state matters:     *)
(*   "none"    the call has not created its file,                          *)
(*   "part"    empty or incomplete,                                        *)
(*   "whole"   everything data.WriteTo had to write,                       *)
(*   "random"  overwritten by secureDelete.                                *)
(* The file system is external: names and data live in memory (temp,       *)
(* final, body) and reach the disk (tempD, finalD, bodyD) on their own or, *)
(* for data, at a Sync.  A rename is atomic, and the two names of a path   *)
(* lie in one directory, which reaches the disk as a whole.                *)
(***************************************************************************)

CONSTANTS
  Calls,      \* the calls of writeSecureAtomic
  Targets,    \* the values of finalPath
  NoFile,     \* "no file has this name"
  Faults      \* what may go wrong, a subset of FaultKinds

FaultKinds ==
  {"open", "write", "sync", "close", "rename", "scrub", "remove", "kill", "power"}

ASSUME ConstantsAssumption ==
  /\ NoFile \notin Calls
  /\ Faults \subseteq FaultKinds

VARIABLES
  path,       \* path[c]: the finalPath argument of call c
  pc,         \* pc[c]: the system call that c makes next
  err,        \* err[c]: the local variable err of c is not nil
  result,     \* result[c]: what c returns, "none" until that is settled
  temp,       \* temp[t]: the file named t.tmp, by the call that created it
  final,      \* final[t]: the file named t
  body,       \* body[c]: the data of the file of c
  tempD, finalD, bodyD    \* the same three, as they are on the disk

names == <<temp, final>>
disk == <<tempD, finalD, bodyD>>
vars == <<path, pc, err, result, temp, final, body, tempD, finalD, bodyD>>

Init ==
  /\ path \in [Calls -> Targets]
  /\ pc = [c \in Calls |-> "open"]
  /\ err = [c \in Calls |-> FALSE]
  /\ result = [c \in Calls |-> "none"]
  /\ temp = [t \in Targets |-> NoFile]
  /\ final = [t \in Targets |-> NoFile]
  /\ body = [c \in Calls |-> "none"]
  /\ tempD = temp
  /\ finalD = final
  /\ bodyD = body

-----------------------------------------------------------------------------
(* The steps of a call.                                                    *)

Goto(c, to) == pc' = [pc EXCEPT ![c] = to]

Return(c, r) == result' = [result EXCEPT ![c] = r]

\* The file of c exists, under the name t.tmp, and is empty: it has no data
\* that the disk could lack.
Create(c) ==
  /\ temp' = [temp EXCEPT ![path[c]] = c]
  /\ body' = [body EXCEPT ![c] = "part"]
  /\ bodyD' = [bodyD EXCEPT ![c] = "part"]

\* `if err != nil { return err }` once the defer is registered: c returns an
\* error, err stays set, and the deferred function runs.
Abort(c) ==
  /\ Goto(c, "defer")
  /\ err' = [err EXCEPT ![c] = TRUE]
  /\ Return(c, "error")

(* Faulty variants of the steps below: each is a bug this code could have  *)
(* had, and breaks the property it is paired with in PROJECT.json.         *)

\* O_TRUNC in place of O_EXCL: an existing t.tmp is taken over.
OpenTruncating(c) ==
  /\ pc[c] = "open"
  /\ Create(c)
  /\ Goto(c, "write")
  /\ UNCHANGED <<path, err, result, final, tempD, finalD>>

\* The error of WriteTo is dropped.
WriteToUnchecked(c) ==
  /\ pc[c] = "write"
  /\ body' \in {[body EXCEPT ![c] = b] : b \in {"part", "whole"}}
  /\ Goto(c, "sync")
  /\ UNCHANGED <<path, err, result, names, disk>>

\* No Sync before the Rename.
SyncSkipped(c) ==
  /\ pc[c] = "sync"
  /\ Goto(c, "close")
  /\ UNCHANGED <<path, err, result, names, body, disk>>

\* The destination is removed first, and the rename may then fail.
RenameAfterRemove(c) ==
  /\ pc[c] = "rename"
  /\ Goto(c, "defer")
  /\ \/ /\ final' = [final EXCEPT ![path[c]] = temp[path[c]]]
        /\ temp' = [temp EXCEPT ![path[c]] = NoFile]
        /\ Return(c, "ok")
     \/ /\ final' = [final EXCEPT ![path[c]] = NoFile]
        /\ Return(c, "error")
        /\ UNCHANGED temp
  /\ UNCHANGED <<path, err, body, disk>>

\* A failed rename is a panic.
RenamePanicking(c) ==
  /\ pc[c] = "rename"
  /\ \/ /\ Goto(c, "defer")
        /\ final' = [final EXCEPT ![path[c]] = temp[path[c]]]
        /\ temp' = [temp EXCEPT ![path[c]] = NoFile]
        /\ Return(c, "ok")
     \/ Goto(c, "panicked") /\ UNCHANGED <<names, result>>
  /\ UNCHANGED <<path, err, body, disk>>

\* The deferred function always cleans up, or never does.
DeferredAlways(c) ==
  /\ pc[c] = "defer"
  /\ Goto(c, "scrub")
  /\ UNCHANGED <<path, err, result, names, body, disk>>

DeferredNever(c) ==
  /\ pc[c] = "defer"
  /\ Goto(c, "done")
  /\ UNCHANGED <<path, err, result, names, body, disk>>

\* secureDelete removes the name as soon as it has the file open, and the
\* overwritten data reaches the disk afterwards.
ScrubRemovingFirst(c) ==
  /\ pc[c] = "scrub"
  /\ temp[path[c]] # NoFile
  /\ body' = [body EXCEPT ![temp[path[c]]] = "random"]
  /\ temp' = [temp EXCEPT ![path[c]] = NoFile]
  /\ Goto(c, "scrubSync")
  /\ UNCHANGED <<path, err, result, final, disk>>

\* secureDelete overwrites the file and leaves its name.
RemoveForgotten(c) ==
  /\ pc[c] = "remove"
  /\ Goto(c, "done")
  /\ UNCHANGED <<path, err, result, names, body, disk>>

(* The code's own steps.                                                   *)

\* os.OpenFile(tempPath, O_CREATE|O_WRONLY|O_EXCL): fails when t.tmp exists.
\* On failure c returns before the defer is registered.
Open(c) ==
  /\ pc[c] = "open"
  /\ \/ /\ temp[path[c]] = NoFile
        /\ Create(c)
        /\ Goto(c, "write")
        /\ UNCHANGED result
     \/ /\ temp[path[c]] # NoFile \/ "open" \in Faults
        /\ Goto(c, "done")
        /\ Return(c, "error")
        /\ UNCHANGED <<temp, body, bodyD>>
  /\ UNCHANGED <<path, err, final, tempD, finalD>>

\* data.WriteTo(out)
WriteTo(c) ==
  /\ pc[c] = "write"
  /\ \/ /\ body' = [body EXCEPT ![c] = "whole"]
        /\ Goto(c, "sync")
        /\ UNCHANGED <<err, result>>
     \/ "write" \in Faults /\ Abort(c) /\ UNCHANGED body
  /\ UNCHANGED <<path, names, disk>>

\* out.Sync()
Sync(c) ==
  /\ pc[c] = "sync"
  /\ \/ /\ bodyD' = [bodyD EXCEPT ![c] = body[c]]
        /\ Goto(c, "close")
        /\ UNCHANGED <<err, result>>
     \/ "sync" \in Faults /\ Abort(c) /\ UNCHANGED bodyD
  /\ UNCHANGED <<path, names, body, tempD, finalD>>

\* out.Close()
Close(c) ==
  /\ pc[c] = "close"
  /\ \/ Goto(c, "rename") /\ UNCHANGED <<err, result>>
     \/ "close" \in Faults /\ Abort(c)
  /\ UNCHANGED <<path, names, body, disk>>

\* `return os.Rename(tempPath, finalPath)`: the result has no name, so a
\* failure is returned without being stored in err.
Rename(c) ==
  /\ pc[c] = "rename"
  /\ Goto(c, "defer")
  /\ \/ /\ final' = [final EXCEPT ![path[c]] = temp[path[c]]]
        /\ temp' = [temp EXCEPT ![path[c]] = NoFile]
        /\ Return(c, "ok")
     \/ "rename" \in Faults /\ Return(c, "error") /\ UNCHANGED names
  /\ UNCHANGED <<path, err, body, disk>>

\* The deferred function: out.Close(), whose error is dropped, and
\* secureDelete(tempPath) when err is not nil.
Deferred(c) ==
  /\ pc[c] = "defer"
  /\ Goto(c, IF err[c] THEN "scrub" ELSE "done")
  /\ UNCHANGED <<path, err, result, names, body, disk>>

\* secureDelete opens t.tmp by name and overwrites whatever file that is; when
\* it cannot, it still removes the name.
Scrub(c) ==
  /\ pc[c] = "scrub"
  /\ \/ /\ temp[path[c]] # NoFile
        /\ body' = [body EXCEPT ![temp[path[c]]] = "random"]
        /\ Goto(c, "scrubSync")
     \/ /\ temp[path[c]] = NoFile \/ "scrub" \in Faults
        /\ Goto(c, "remove")
        /\ UNCHANGED body
  /\ UNCHANGED <<path, err, result, names, disk>>

\* file.Sync() in secureDelete; its error is dropped.
ScrubSync(c) ==
  /\ pc[c] = "scrubSync"
  /\ \/ bodyD' = [bodyD EXCEPT ![c] = body[c]]
     \/ "scrub" \in Faults /\ UNCHANGED bodyD
  /\ Goto(c, "remove")
  /\ UNCHANGED <<path, err, result, names, body, tempD, finalD>>

\* os.Remove(path) in secureDelete; its error is dropped.
Remove(c) ==
  /\ pc[c] = "remove"
  /\ \/ temp' = [temp EXCEPT ![path[c]] = NoFile]
     \/ "remove" \in Faults /\ UNCHANGED temp
  /\ Goto(c, "done")
  /\ UNCHANGED <<path, err, result, final, body, disk>>

Step(c) ==
  \/ Open(c) \/ WriteTo(c) \/ Sync(c) \/ Close(c) \/ Rename(c)
  \/ Deferred(c) \/ Scrub(c) \/ ScrubSync(c) \/ Remove(c)

-----------------------------------------------------------------------------
(* The environment.                                                        *)

Ended == {"done", "killed"}

\* The process of c dies; the kernel keeps what it has been given.
Kill(c) ==
  /\ "kill" \in Faults
  /\ pc[c] \notin Ended
  /\ Goto(c, "killed")
  /\ UNCHANGED <<path, err, result, names, body, disk>>

\* The machine stops and starts again: what is not on the disk is lost, and
\* no call survives.
PowerLoss ==
  /\ "power" \in Faults
  /\ pc' = [c \in Calls |-> IF pc[c] = "done" THEN "done" ELSE "killed"]
  /\ temp' = tempD
  /\ final' = finalD
  /\ body' = bodyD
  /\ UNCHANGED <<path, err, result, disk>>

\* The kernel writes the names of path t, or the data of a file, to the disk.
FlushNames(t) ==
  /\ <<tempD[t], finalD[t]>> # <<temp[t], final[t]>>
  /\ tempD' = [tempD EXCEPT ![t] = temp[t]]
  /\ finalD' = [finalD EXCEPT ![t] = final[t]]
  /\ UNCHANGED <<path, pc, err, result, names, body, bodyD>>

FlushBody(c) ==
  /\ bodyD[c] # body[c]
  /\ bodyD' = [bodyD EXCEPT ![c] = body[c]]
  /\ UNCHANGED <<path, pc, err, result, names, body, tempD, finalD>>

\* Every call has ended: nothing is left to do.
Terminated ==
  /\ \A c \in Calls : pc[c] \in Ended
  /\ UNCHANGED vars

Next ==
  \/ \E c \in Calls : Step(c) \/ Kill(c) \/ FlushBody(c)
  \/ \E t \in Targets : FlushNames(t)
  \/ PowerLoss
  \/ Terminated

Spec == Init /\ [][Next]_vars

\* A call is straight-line code and every system call returns.
FairSpec == Spec /\ \A c \in Calls : WF_vars(Step(c))

-----------------------------------------------------------------------------
(* Properties.                                                             *)

PCs == {"open", "write", "sync", "close", "rename", "defer",
        "scrub", "scrubSync", "remove", "done", "killed"}
Bodies == {"none", "part", "whole", "random"}
Names == [Targets -> Calls \cup {NoFile}]

\* Type invariant: every variable of writeSecureAtomic's calls and of the
\* files they handle keeps its type.
TypeOK ==
  /\ path \in [Calls -> Targets]
  /\ pc \in [Calls -> PCs]
  /\ err \in [Calls -> BOOLEAN]
  /\ result \in [Calls -> {"none", "ok", "error"}]
  /\ temp \in Names /\ tempD \in Names
  /\ final \in Names /\ finalD \in Names
  /\ body \in [Calls -> Bodies]
  /\ bodyD \in [Calls -> Bodies]

\* A reader of a final path finds no file or a complete one, whatever calls
\* run at the same time, whatever fails, and also after a power failure:
\* Sync comes before Rename, and secureDelete never reaches a published file.
NoTornFile ==
  \A t \in Targets :
    /\ final[t] # NoFile => body[final[t]] = "whole"
    /\ finalD[t] # NoFile => bodyD[finalD[t]] = "whole"

\* A call between os.OpenFile and its end is using the t.tmp it created, so no
\* other call is writing, renaming or erasing that name: O_EXCL is a lock.
UsingTemp == {"write", "sync", "close", "rename", "scrub", "scrubSync", "remove"}

ExclusiveTemp ==
  \A c \in Calls : pc[c] \in UsingTemp => temp[path[c]] = c

\* The inductive invariant behind these properties.  Owns: from os.OpenFile to
\* its last use of the name a call holds the t.tmp it created.  Written: the data
\* is complete after WriteTo and on the disk after Sync, and neither err nor
\* result is set on the way to Rename.  Published: the file of a final path is
\* complete, in memory and on the disk, and its call will not erase it.
Owns ==
  \A c \in Calls :
    pc[c] \in UsingTemp \/ (pc[c] = "defer" /\ err[c]) => temp[path[c]] = c

Written ==
  \A c \in Calls :
    /\ pc[c] \in {"sync", "close", "rename"} => body[c] = "whole"
    /\ pc[c] \in {"close", "rename"} => bodyD[c] = "whole"
    /\ pc[c] \in {"open", "write", "sync", "close", "rename"} =>
         ~err[c] /\ result[c] = "none"

Safe(c) ==
  /\ body[c] = "whole" /\ bodyD[c] = "whole"
  /\ pc[c] \in {"defer", "done", "killed"} /\ ~err[c]

Published ==
  \A t \in Targets :
    /\ final[t] # NoFile => Safe(final[t])
    /\ finalD[t] # NoFile => Safe(finalD[t]) /\ final[t] # NoFile

Inv == TypeOK /\ Owns /\ Written /\ Published

\* An exported file is replaced, never taken away: once a version is on the
\* disk, every later step, a power failure included, leaves one at that path.
NeverVanishes ==
  [][\A t \in Targets :
       finalD[t] # NoFile => final'[t] # NoFile /\ finalD'[t] # NoFile]_vars

\* The t.tmp of a call that has ended stays for good and, but for a power
\* failure, no later call changes the file at t: a crash between os.OpenFile and
\* os.Rename makes the path unwritable until somebody deletes t.tmp by hand.
Orphan(t) == temp[t] # NoFile /\ pc[temp[t]] \in Ended

OrphanBlocks ==
  [][\A t \in Targets :
       Orphan(t) => (Orphan(t)' /\ final'[t] = final[t]) \/ PowerLoss]_vars

\* "Secure cleanup: overwrite and delete temp file on failure" (helper.go:103):
\* a call that returned an error has left no t.tmp of its own.
TempCleaned ==
  \A c \in Calls :
    pc[c] = "done" /\ result[c] = "error" => temp[path[c]] # c

\* A call that returned an error after creating its file gives up the name, by
\* removing it, by ending or by being killed, only once its data is overwritten
\* on the disk as well: secureDelete writes, syncs and removes in this order.  A
\* failed os.Rename is the exception (TempCleaned under a failed rename), and so
\* is a power failure, which may take back the name of a directory not yet saved.
ScrubbedOnDisk ==
  \A c \in Calls :
    /\ result[c] = "error" /\ body[c] # "none"
    /\ pc[c] \in {"remove", "done"} \/ temp[path[c]] # c
    => bodyD[c] = "random"

\* Without crashes and without failures of Rename and secureDelete, a t.tmp
\* that exists goes away, so a call that found it and failed can be repeated.
TempReleased ==
  \A t \in Targets : temp[t] # NoFile ~> temp[t] = NoFile

\* Seen through the final paths, the calls implement AtomicFile: a version is
\* the call that wrote it, and a file that is not complete is no version.
Torn == "torn"
Version(file, data) ==
  [t \in Targets |->
     IF file[t] = NoFile \/ data[file[t]] = "whole" THEN file[t] ELSE Torn]

AF == INSTANCE AtomicFile WITH
        file <- Version(final, body),
        saved <- Version(finalD, bodyD)

ImplementsAtomicFile == AF!Spec
=============================================================================
