------------------------- MODULE AtomicWriteProofs -------------------------
(***************************************************************************)
(* Theorems about AtomicWrite, for any number of calls and paths and any   *)
(* set of faults.                                                          *)
(***************************************************************************)
EXTENDS AtomicWrite, TLAPS

\* The calls start with no file anywhere: Inv holds.
LEMMA InitInv == Init => Inv
BY ConstantsAssumption
   DEF Init, Inv, TypeOK, Owns, Written, Published, UsingTemp, PCs, Bodies, Names

-----------------------------------------------------------------------------
(* Type correctness.                                                       *)

\* Every step of a call, a kill and a flush keep the types.
LEMMA TypeStep == TypeOK /\ [Next]_vars => TypeOK'
<1> SUFFICES ASSUME TypeOK, [Next]_vars
             PROVE  TypeOK'
  OBVIOUS
<1> USE DEF TypeOK, Names, Bodies, PCs, names, disk, Goto, Return
<1>1. ASSUME NEW c \in Calls, Open(c) PROVE TypeOK'
  BY <1>1 DEF Open, Create
<1>2. ASSUME NEW c \in Calls, WriteTo(c) PROVE TypeOK'
  BY <1>2 DEF WriteTo, Abort
<1>3. ASSUME NEW c \in Calls, Sync(c) PROVE TypeOK'
  BY <1>3 DEF Sync, Abort
<1>4. ASSUME NEW c \in Calls, Close(c) PROVE TypeOK'
  BY <1>4 DEF Close, Abort
<1>5. ASSUME NEW c \in Calls, Rename(c) PROVE TypeOK'
  BY <1>5 DEF Rename
<1>6. ASSUME NEW c \in Calls, Deferred(c) PROVE TypeOK'
  BY <1>6 DEF Deferred
<1>7. ASSUME NEW c \in Calls, Scrub(c) PROVE TypeOK'
  BY <1>7 DEF Scrub
<1>8. ASSUME NEW c \in Calls, ScrubSync(c) PROVE TypeOK'
  BY <1>8 DEF ScrubSync
<1>9. ASSUME NEW c \in Calls, Remove(c) PROVE TypeOK'
  BY <1>9 DEF Remove
<1>10. ASSUME NEW c \in Calls, Kill(c) PROVE TypeOK'
  BY <1>10 DEF Kill
<1>11. ASSUME NEW c \in Calls, FlushBody(c) PROVE TypeOK'
  BY <1>11 DEF FlushBody
<1>12. ASSUME NEW t \in Targets, FlushNames(t) PROVE TypeOK'
  BY <1>12 DEF FlushNames
<1>13. CASE PowerLoss
  BY <1>13 DEF PowerLoss
<1>14. CASE UNCHANGED vars
  BY <1>14 DEF vars
<1> QED
  BY <1>1, <1>2, <1>3, <1>4, <1>5, <1>6, <1>7, <1>8, <1>9, <1>10, <1>11,
     <1>12, <1>13, <1>14 DEF Next, Step, Terminated

\* Every variable keeps its type.
THEOREM TypeCorrect == Spec => []TypeOK
<1>1. Init => TypeOK
  BY InitInv DEF Inv
<1> QED
  BY <1>1, TypeStep, PTL DEF Spec

-----------------------------------------------------------------------------
(* The inductive invariant.                                                *)

\* A step of a call keeps the other conjuncts of Inv.  The cases that matter
\* are Open, which takes a name nobody uses, Rename and Remove, which free a
\* name only its holder uses, and Scrub, which erases only the caller's file.
LEMMA StepInv ==
  ASSUME Inv, NEW c \in Calls, Step(c)
  PROVE  Owns' /\ Written' /\ Published'
<1> USE DEF Inv, TypeOK, Owns, Written, Published, Safe, UsingTemp, Names,
            names, disk, Goto, Return
<1>1. CASE Open(c)
  BY <1>1, ConstantsAssumption DEF Open, Create
<1>2. CASE WriteTo(c)
  BY <1>2 DEF WriteTo, Abort
<1>3. CASE Sync(c)
  BY <1>3 DEF Sync, Abort
<1>4. CASE Close(c)
  BY <1>4 DEF Close, Abort
<1>5. CASE Rename(c)
  BY <1>5, ConstantsAssumption DEF Rename
<1>6. CASE Deferred(c)
  BY <1>6 DEF Deferred
<1>7. CASE Scrub(c)
  <2>1. temp[path[c]] = c
    BY <1>7 DEF Scrub
  <2>2. \A t \in Targets : final[t] # c /\ finalD[t] # c
    BY <1>7, ConstantsAssumption DEF Scrub
  <2> QED
    BY <1>7, <2>1, <2>2, ConstantsAssumption DEF Scrub
<1>8. CASE ScrubSync(c)
  BY <1>8, ConstantsAssumption DEF ScrubSync
<1>9. CASE Remove(c)
  BY <1>9, ConstantsAssumption DEF Remove
<1> QED
  BY <1>1, <1>2, <1>3, <1>4, <1>5, <1>6, <1>7, <1>8, <1>9 DEF Step

\* So does a step of the environment.  After a power failure the data of a
\* published file is the data on the disk, which Sync has made complete.
LEMMA EnvironmentInv ==
  ASSUME Inv,
         \/ \E c \in Calls : Kill(c) \/ FlushBody(c)
         \/ \E t \in Targets : FlushNames(t)
         \/ PowerLoss
         \/ UNCHANGED vars
  PROVE  Owns' /\ Written' /\ Published'
<1> USE DEF Inv, TypeOK, Owns, Written, Published, Safe, UsingTemp, Names,
            names, disk, Goto, Ended
<1>1. ASSUME NEW c \in Calls, Kill(c) PROVE Owns' /\ Written' /\ Published'
  BY <1>1 DEF Kill
<1>2. ASSUME NEW c \in Calls, FlushBody(c)
      PROVE  Owns' /\ Written' /\ Published'
  BY <1>2 DEF FlushBody
<1>3. ASSUME NEW t \in Targets, FlushNames(t)
      PROVE  Owns' /\ Written' /\ Published'
  BY <1>3 DEF FlushNames
<1>4. CASE PowerLoss
  BY <1>4 DEF PowerLoss
<1>5. CASE UNCHANGED vars
  BY <1>5 DEF vars
<1> QED
  BY <1>1, <1>2, <1>3, <1>4, <1>5

\* Inv is inductive.
LEMMA NextInv == Inv /\ [Next]_vars => Inv'
<1> SUFFICES ASSUME Inv, [Next]_vars
             PROVE  Inv'
  OBVIOUS
<1>1. TypeOK'
  BY TypeStep DEF Inv
<1>2. Owns' /\ Written' /\ Published'
  BY StepInv, EnvironmentInv DEF Next, Terminated
<1> QED
  BY <1>1, <1>2 DEF Inv

\* The invariant that the other results rest on.
THEOREM Invariance == Spec => []Inv
BY InitInv, NextInv, PTL DEF Spec

\* No reader of a final path ever finds an incomplete file.
THEOREM NeverTorn == Spec => []NoTornFile
<1>1. Inv => NoTornFile
  BY DEF Inv, Published, Safe, NoTornFile
<1> QED
  BY <1>1, Invariance, PTL

\* O_EXCL makes t.tmp the lock of path t.
THEOREM TempIsExclusive == Spec => []ExclusiveTemp
<1>1. Inv => ExclusiveTemp
  BY DEF Inv, Owns, ExclusiveTemp
<1> QED
  BY <1>1, Invariance, PTL

-----------------------------------------------------------------------------
(* Action properties.                                                      *)

\* A version that has reached the disk is only ever replaced.
THEOREM FilesStay == Spec => NeverVanishes
<1> DEFINE Stays == \A t \in Targets :
      finalD[t] # NoFile => final'[t] # NoFile /\ finalD'[t] # NoFile
<1>1. Inv /\ [Next]_vars => Stays
  <2> SUFFICES ASSUME Inv, [Next]_vars, NEW t \in Targets, finalD[t] # NoFile
               PROVE  final'[t] # NoFile /\ finalD'[t] # NoFile
    OBVIOUS
  <2> USE DEF names, disk, Inv, TypeOK, Names
  <2>1. final[t] # NoFile
    BY DEF Published
  <2>2. ASSUME NEW c \in Calls, Step(c)
        PROVE  final'[t] # NoFile /\ finalD'[t] # NoFile
    <3>1. CASE Rename(c)
      BY <2>1, <3>1, ConstantsAssumption DEF Rename, Owns, UsingTemp
    <3>2. CASE ~Rename(c)
      BY <2>1, <2>2, <3>2 DEF Step, Open, WriteTo, Sync, Close, Deferred, Scrub,
                         ScrubSync, Remove
    <3> QED
      BY <3>1, <3>2
  <2>3. CASE UNCHANGED <<final, finalD>>
    BY <2>1, <2>3
  <2>4. ASSUME NEW u \in Targets, FlushNames(u)
        PROVE  final'[t] # NoFile /\ finalD'[t] # NoFile
    BY <2>1, <2>4 DEF FlushNames
  <2>5. CASE PowerLoss
    BY <2>1, <2>5 DEF PowerLoss
  <2> QED
    BY <2>2, <2>3, <2>4, <2>5 DEF Next, Kill, FlushBody, Terminated, vars
<1> QED
  BY <1>1, Invariance, PTL DEF Spec, NeverVanishes

\* A stale t.tmp blocks its path until a power failure or an operator's rm.
THEOREM StaleTempBlocks == Spec => OrphanBlocks
<1> DEFINE Blocked == \A t \in Targets :
      Orphan(t) => (Orphan(t)' /\ final'[t] = final[t]) \/ PowerLoss
<1>1. Inv /\ [Next]_vars => Blocked
  <2> SUFFICES ASSUME Inv, [Next]_vars, NEW t \in Targets, Orphan(t), ~PowerLoss
               PROVE  Orphan(t)' /\ final'[t] = final[t]
    OBVIOUS
  <2> USE DEF names, disk, Inv, TypeOK, Names, Orphan, Ended, Goto
  <2>1. ASSUME NEW c \in Calls, Step(c) PROVE Orphan(t)' /\ final'[t] = final[t]
    <3>1. temp[t] # c
      BY <2>1 DEF Step, Open, WriteTo, Sync, Close, Rename, Deferred, Scrub,
                  ScrubSync, Remove
    <3>2. pc[c] \in {"rename", "remove"} => path[c] # t
      BY <3>1 DEF Owns, UsingTemp
    <3>3. temp'[t] = temp[t] /\ final'[t] = final[t]
      BY <2>1, <3>1, <3>2 DEF Step, Open, Create, WriteTo, Sync, Close, Rename, Deferred,
                              Scrub, ScrubSync, Remove
    <3>4. pc'[temp[t]] = pc[temp[t]]
      BY <2>1, <3>1 DEF Step, Open, WriteTo, Sync, Close, Rename, Deferred,
                        Scrub, ScrubSync, Remove, Abort
    <3> QED
      BY <3>3, <3>4
  <2>2. ASSUME NEW c \in Calls, Kill(c) PROVE Orphan(t)' /\ final'[t] = final[t]
    BY <2>2 DEF Kill
  <2>3. CASE UNCHANGED <<pc, temp, final>>
    BY <2>3
  <2> QED
    BY <2>1, <2>2, <2>3 DEF Next, FlushNames, FlushBody, Terminated, vars
<1> QED
  BY <1>1, Invariance, PTL DEF Spec, OrphanBlocks

-----------------------------------------------------------------------------
(* The clean-up after a failure.                                           *)

\* A name is taken by Open alone and given up by a Rename or a Remove that does
\* not fail: a call that has not opened its file, or has got to the end of the
\* deferred function, has no t.tmp.
NoTempLeft ==
  \A c \in Calls :
    \/ pc[c] \in {"open", "done"} \/ (pc[c] = "defer" /\ ~err[c])
    => temp[path[c]] # c

\* The steps of the calls and of the environment keep NoTempLeft, unless Rename or
\* Remove fails or a power failure brings an old name back.
LEMMA NoTempStep ==
  ASSUME Faults \cap {"rename", "remove", "power"} = {},
         Inv, NoTempLeft, [Next]_vars
  PROVE  NoTempLeft'
<1> USE DEF Inv, TypeOK, Names, names, disk, Goto, NoTempLeft
<1>1. ASSUME NEW c \in Calls, Step(c) PROVE NoTempLeft'
  <2> USE <1>1, ConstantsAssumption
  <2>1. CASE Open(c)
    BY <2>1 DEF Open, Create
  <2>2. CASE WriteTo(c) \/ Sync(c) \/ Close(c)
    BY <2>2 DEF WriteTo, Sync, Close, Abort
  <2>3. CASE Rename(c)
    BY <2>3 DEF Rename
  <2>4. CASE Deferred(c) \/ Scrub(c) \/ ScrubSync(c)
    BY <2>4 DEF Deferred, Scrub, ScrubSync
  <2>5. CASE Remove(c)
    BY <2>5 DEF Remove
  <2> QED
    BY <2>1, <2>2, <2>3, <2>4, <2>5 DEF Step
<1>2. ASSUME NEW c \in Calls, Kill(c) \/ FlushBody(c) PROVE NoTempLeft'
  BY <1>2 DEF Kill, FlushBody
<1>3. ASSUME NEW t \in Targets, FlushNames(t) PROVE NoTempLeft'
  BY <1>3 DEF FlushNames
<1>4. CASE UNCHANGED vars
  BY <1>4 DEF vars
<1>5. ~PowerLoss
  BY DEF PowerLoss
<1> QED
  BY <1>1, <1>2, <1>3, <1>4, <1>5 DEF Next, Terminated

\* "overwrite and delete temp file on failure" (helper.go:103), with the exceptions
\* that the code makes: where os.Rename and os.Remove succeed and the power stays
\* on, a call that returned an error has left no t.tmp, killed calls beside it or
\* failures of secureDelete's overwriting notwithstanding.
THEOREM FailuresCleanUp ==
  ASSUME Faults \cap {"rename", "remove", "power"} = {}
  PROVE  Spec => []TempCleaned
<1>1. Init => NoTempLeft
  BY ConstantsAssumption DEF Init, NoTempLeft
<1>2. Inv /\ NoTempLeft /\ [Next]_vars => NoTempLeft'
  BY NoTempStep
<1>3. NoTempLeft => TempCleaned
  BY DEF NoTempLeft, TempCleaned
<1> QED
  BY <1>1, <1>2, <1>3, Invariance, PTL DEF Spec

\* Where os.Rename does not fail, a call with a file returns an error only with
\* err set.  The data of such a call is random from the Sync of secureDelete on
\* and wherever the name is gone, in memory as on the disk, so that no later
\* flush brings it back.
Scrubbing ==
  \A c \in Calls :
    /\ result[c] = "error" /\ body[c] # "none" => err[c]
    /\ pc[c] = "open" => body[c] = "none"
    /\ pc[c] \in {"scrub", "scrubSync", "remove"} => err[c]
    /\ err[c] => pc[c] \in {"defer", "scrub", "scrubSync", "remove", "done", "killed"}
    /\ pc[c] = "scrubSync" => body[c] = "random"
    /\ err[c] /\ (pc[c] \in {"remove", "done"} \/ temp[path[c]] # c) =>
         body[c] = "random" /\ bodyD[c] = "random"

LEMMA ScrubbingStep ==
  ASSUME Faults \cap {"rename", "scrub", "power"} = {},
         Inv, Scrubbing, [Next]_vars
  PROVE  Scrubbing'
<1> USE DEF Inv, TypeOK, Names, Bodies, PCs, names, disk, Goto, Return, Scrubbing
<1>1. ASSUME NEW c \in Calls, Step(c) PROVE Scrubbing'
  <2>1. CASE Open(c)
    BY <2>1, ConstantsAssumption DEF Open, Create, Written
  <2>2. CASE WriteTo(c) \/ Sync(c) \/ Close(c)
    BY <2>2 DEF WriteTo, Sync, Close, Abort, Written, Owns, UsingTemp
  <2>3. CASE Rename(c)
    BY <2>3, ConstantsAssumption DEF Rename, Written, Owns, UsingTemp
  <2>4. CASE Deferred(c)
    BY <2>4 DEF Deferred
  <2>5. CASE Scrub(c)
    <3>1. temp[path[c]] = c
      BY <2>5 DEF Scrub, Owns, UsingTemp
    <3> QED
      BY <2>5, <3>1, ConstantsAssumption DEF Scrub
  <2>6. CASE ScrubSync(c)
    BY <2>6 DEF ScrubSync
  <2>7. CASE Remove(c)
    BY <2>7, ConstantsAssumption DEF Remove, Owns, UsingTemp
  <2> QED
    BY <1>1, <2>1, <2>2, <2>3, <2>4, <2>5, <2>6, <2>7 DEF Step
<1>2. ASSUME NEW c \in Calls, Kill(c) \/ FlushBody(c) PROVE Scrubbing'
  BY <1>2 DEF Kill, FlushBody
<1>3. ASSUME NEW t \in Targets, FlushNames(t) PROVE Scrubbing'
  BY <1>3 DEF FlushNames
<1>4. CASE UNCHANGED vars
  BY <1>4 DEF vars
<1>5. ~PowerLoss
  BY DEF PowerLoss
<1> QED
  BY <1>1, <1>2, <1>3, <1>4, <1>5 DEF Next, Terminated

\* Where os.Rename does not fail, secureDelete can overwrite a file and the power
\* stays on, a call that returned an error after creating its file has the data on
\* the disk overwritten before the name goes, whatever the other calls do and
\* whoever is killed.
THEOREM FailuresScrub ==
  ASSUME Faults \cap {"rename", "scrub", "power"} = {}
  PROVE  Spec => []ScrubbedOnDisk
<1>1. Init => Scrubbing
  BY DEF Init, Scrubbing
<1>2. Inv /\ Scrubbing /\ [Next]_vars => Scrubbing'
  BY ScrubbingStep
<1>3. Scrubbing => ScrubbedOnDisk
  BY DEF Scrubbing, ScrubbedOnDisk
<1> QED
  BY <1>1, <1>2, <1>3, Invariance, PTL DEF Spec

-----------------------------------------------------------------------------
(* Refinement of AtomicFile.                                               *)

\* What a reader sees of a file whose calls are Safe is the file itself.
LEMMA VersionOfSafe ==
  ASSUME Inv
  PROVE  Version(final, body) = final /\ Version(finalD, bodyD) = finalD
BY DEF Inv, TypeOK, Names, Published, Safe, Version

\* Of a call's steps, a successful Rename is Commit, the step that settles on
\* an error is Fail, and the others change nothing a caller can see.
LEMMA StepRefines ==
  ASSUME Inv, Inv', NEW c \in Calls, Step(c)
  PROVE  AF!Commit(c) \/ AF!Fail(c) \/ UNCHANGED AF!vars
<1> DEFINE seen == <<Version(final, body), Version(finalD, bodyD)>>
<1>1. seen = <<final, finalD>> /\ seen' = <<final', finalD'>>
  BY VersionOfSafe DEF Inv, TypeOK, Names, Published, Safe, Version
<1> HIDE DEF seen
<1> USE DEF names, disk, Return
<1>2. ASSUME UNCHANGED <<path, final, finalD, result>>
      PROVE  UNCHANGED AF!vars
  BY <1>1, <1>2 DEF AF!vars, seen
<1>3. ASSUME result[c] = "none", UNCHANGED <<path, final, finalD>>,
             Return(c, "error")
      PROVE  AF!Fail(c)
  BY <1>1, <1>3 DEF AF!Fail, seen
<1>4. ASSUME pc[c] \in {"open", "write", "sync", "close", "rename"}
      PROVE  result[c] = "none"
  BY <1>4 DEF Inv, Written
<1>5. CASE Open(c)
  BY <1>5, <1>2, <1>3, <1>4 DEF Open
<1>6. CASE WriteTo(c)
  BY <1>6, <1>2, <1>3, <1>4 DEF WriteTo, Abort
<1>7. CASE Sync(c)
  BY <1>7, <1>2, <1>3, <1>4 DEF Sync, Abort
<1>8. CASE Close(c)
  BY <1>8, <1>2, <1>3, <1>4 DEF Close, Abort
<1>9. CASE Rename(c)
  <2>1. temp[path[c]] = c
    BY <1>9 DEF Rename, Inv, Owns, UsingTemp
  <2>2. ASSUME final' = [final EXCEPT ![path[c]] = temp[path[c]]],
               Return(c, "ok")
        PROVE  AF!Commit(c)
    BY <1>1, <1>4, <1>9, <2>1, <2>2 DEF Rename, AF!Commit, seen
  <2> QED
    BY <1>9, <1>3, <1>4, <2>2 DEF Rename
<1>10. CASE Deferred(c)
  BY <1>10, <1>2 DEF Deferred
<1>11. CASE Scrub(c)
  BY <1>11, <1>2 DEF Scrub
<1>12. CASE ScrubSync(c)
  BY <1>12, <1>2 DEF ScrubSync
<1>13. CASE Remove(c)
  BY <1>13, <1>2 DEF Remove
<1> QED
  BY <1>5, <1>6, <1>7, <1>8, <1>9, <1>10, <1>11, <1>12, <1>13 DEF Step

\* writeSecureAtomic keeps AtomicFile's promise to its callers.
THEOREM Refinement == Spec => ImplementsAtomicFile
<1>1. Init => AF!Init
  BY DEF Init, AF!Init, Version
<1>2. Inv /\ Inv' /\ [Next]_vars => [AF!Next]_(AF!vars)
  <2> SUFFICES ASSUME Inv, Inv', [Next]_vars
               PROVE  AF!Next \/ UNCHANGED AF!vars
    OBVIOUS
  <2> DEFINE seen == <<Version(final, body), Version(finalD, bodyD)>>
  <2>1. seen = <<final, finalD>> /\ seen' = <<final', finalD'>>
    BY VersionOfSafe DEF Inv, TypeOK, Names, Published, Safe, Version
  <2> HIDE DEF seen
  <2> USE DEF names, disk
  <2>2. ASSUME NEW c \in Calls, Step(c) PROVE AF!Next \/ UNCHANGED AF!vars
    BY <2>2, StepRefines DEF AF!Next
  <2>3. ASSUME NEW t \in Targets, FlushNames(t) PROVE AF!Save(t)
    BY <2>1, <2>3 DEF FlushNames, AF!Save, seen
  <2>4. CASE PowerLoss
    <3>1. AF!PowerLoss
      BY <2>1, <2>4 DEF PowerLoss, AF!PowerLoss, seen
    <3> QED
      BY <3>1 DEF AF!Next
  <2>5. CASE UNCHANGED <<path, final, finalD, result>>
    BY <2>1, <2>5 DEF AF!vars, seen
  <2> QED
    BY <2>2, <2>3, <2>4, <2>5
       DEF Next, Kill, FlushBody, Terminated, vars, AF!Next
<1> QED
  BY <1>1, <1>2, Invariance, PTL DEF Spec, ImplementsAtomicFile, AF!Spec
=============================================================================
