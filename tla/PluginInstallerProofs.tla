----------------------- MODULE PluginInstallerProofs ------------------------
(***************************************************************************)
(* Proofs about PluginInstaller, for any number of runs of the script.     *)
(***************************************************************************)
EXTENDS PluginInstaller, TLAPS

\* What Copy makes is a copy.
LEMMA CopiesAre ==
  /\ Nothing \in Copies
  /\ \A r \in 0..MaxRuns, w \in BOOLEAN : /\ Copy(r, w) \in Copies
                                          /\ Copy(r, w).run = r /\ Copy(r, w).whole = w
  /\ \A c \in Copies : /\ c.run \in 0..MaxRuns /\ c.whole \in BOOLEAN
                        /\ c = Copy(c.run, c.whole)
  /\ Nothing.run = 0 /\ Nothing.whole = FALSE
BY RunsAssumption DEF Copy, Nothing, Copies

\* A run that has begun is one of Runs.
Started == pc # "idle" => n \in Runs

\* Every variable keeps its type, wherever a run of the script fails or dies.
THEOREM InstallerTypes == Spec => [](TypeOK /\ Started)
<1> USE RunsAssumption DEF Runs, Labels, Started
<1>1. Init => TypeOK /\ Started
  <2> SUFFICES ASSUME Init PROVE TypeOK
    BY DEF Init
  <2>1. target \in Copies /\ Nothing \in Copies
    BY CopiesAre DEF Init, Copy, Nothing, Copies
  <2>2. n \in 0..MaxRuns /\ pc \in Labels
    BY DEF Init
  <2>3. outcome \in [Runs -> {"none", "applied", "raised", "died"}]
    BY DEF Init
  <2>4. moved \in BOOLEAN /\ installed \in BOOLEAN /\ crippled \in BOOLEAN
    BY DEF Init
  <2> QED BY <2>1, <2>2, <2>3, <2>4 DEF Init, TypeOK
<1>2. TypeOK /\ Started /\ [Next]_vars => TypeOK' /\ Started'
  <2> SUFFICES ASSUME TypeOK, Started, [Next]_vars PROVE TypeOK' /\ Started'
    OBVIOUS
  <2>0. Nothing \in Copies /\ (n \in Runs => Copy(n, FALSE) \in Copies /\ Copy(n, TRUE) \in Copies)
        /\ Copy(target.run, FALSE) \in Copies
    BY DEF TypeOK, Copy, Nothing, Copies
  <2> USE <2>0
  <2> USE DEF TypeOK, Goto, Ends, Raise, GiveUp
  <2>1. CASE Begin
    <3>1. n' \in Runs
      BY <2>1 DEF Begin
    <3>2. before' \in [Runs -> Copies]
      BY <2>1 DEF Begin
    <3>3. moved' \in BOOLEAN /\ installed' \in BOOLEAN /\ crippled' \in BOOLEAN
      BY <2>1 DEF Begin
    <3>4. /\ target' = target /\ backup' = backup /\ stage' = stage /\ outcome' = outcome
          /\ pc' = "staging"
      BY <2>1 DEF Begin
    <3> QED BY <3>1, <3>2, <3>3, <3>4
  <2>2. CASE MakeStage BY <2>2 DEF MakeStage
  <2>3. CASE MakeBackups BY <2>3 DEF MakeBackups
  <2>4. CASE WriteFiles BY <2>4 DEF WriteFiles
  <2>5. CASE MoveOld BY <2>5 DEF MoveOld
  <2>6. CASE MoveNew BY <2>6 DEF MoveNew
  <2>7. CASE Verify BY <2>7 DEF Verify
  <2>8. CASE RemoveNew BY <2>8 DEF RemoveNew
  <2>9. CASE RestoreOld BY <2>9 DEF RestoreOld
  <2>10. CASE CleanUp BY <2>10 DEF CleanUp
  <2>11. CASE Die BY <2>11 DEF Die
  <2>12. CASE UNCHANGED vars BY <2>12 DEF vars
  <2> QED BY <2>1, <2>2, <2>3, <2>4, <2>5, <2>6, <2>7, <2>8, <2>9, <2>10, <2>11,
             <2>12 DEF Next
<1> QED BY <1>1, <1>2, PTL DEF Spec

-----------------------------------------------------------------------------
(* The inductive invariant: whose copy is where.                           *)

\* Runs to come have left no trace, the present one has no outcome yet, and
\* nobody has found a copy of a later run.
HistoryInv ==
  /\ target.run <= n
  /\ pc # "idle" => n \in Runs /\ outcome[n] = "none"
  /\ \A m \in Runs : /\ m > n => before[m] = Nothing /\ outcome[m] = "none"
                     /\ before[m] # Nothing => before[m].run < m
                     /\ backup[m] # Nothing => backup[m] = before[m] /\ m <= n

\* What the run has moved, told by where it is.
SwapInv ==
  /\ pc \in {"backups", "writing", "old", "new"} => stage[n].run = n
  /\ pc \in {"staging", "backups", "writing", "old"} =>
        target = before[n] /\ backup[n] = Nothing /\ ~moved /\ ~installed
  /\ pc = "new" => target = Nothing /\ backup[n] = before[n] /\ ~installed
  /\ pc \in {"verify", "remove"} /\ installed =>
        target.run = n /\ backup[n] = before[n]
  /\ pc = "verify" => installed
  /\ pc \in {"new", "verify", "remove", "restore"} /\ moved =>
        backup[n] = before[n]

\* A run that was not interrupted at a rename knows what it has moved.
UndoInv ==
  ~crippled =>
     /\ pc \in {"new", "verify"} /\ ~moved => before[n] = Nothing
     /\ pc = "remove" /\ ~installed => target = IF moved THEN Nothing ELSE before[n]
     /\ pc = "remove" /\ installed /\ ~moved => before[n] = Nothing
     /\ pc = "restore" => target = IF moved THEN Nothing ELSE before[n]
     /\ pc = "cleanup" => target = before[n]

IInv == /\ TypeOK /\ HistoryInv /\ SwapInv /\ UndoInv
        /\ PredecessorSurvives /\ FailureRestores /\ ReportIsTrue

\* A step of a run takes away no whole copy but its own: the three places where
\* the script moves or removes a directory.
LEMMA OthersAreKept ==
  ASSUME TypeOK, HistoryInv, SwapInv, [Next]_vars,
         NEW c \in Copies, c.whole, c.run # n \/ pc = "idle", Kept(c)
  PROVE  Kept(c)'
<1> USE RunsAssumption DEF TypeOK, HistoryInv, SwapInv, Kept, Runs, Copy, Nothing, Copies
<1>1. CASE MoveOld
  <2>1. CASE target' = target /\ backup' = backup BY <2>1
  <2>2. CASE target # Nothing /\ backup' = [backup EXCEPT ![n] = target]
    <3>1. n \in Runs /\ pc = "old" /\ backup[n] = Nothing BY <1>1 DEF MoveOld
    <3>2. CASE target = c BY <2>2, <3>1, <3>2
    <3>3. CASE \E m \in Runs : backup[m] = c
      <4> PICK m \in Runs : backup[m] = c BY <3>3
      <4>1. m # n BY <3>1
      <4> QED BY <2>2, <3>1, <4>1
    <3> QED BY <3>2, <3>3
  <2> QED BY <1>1, <2>1, <2>2 DEF MoveOld
<1>2. CASE MoveNew
  BY <1>2 DEF MoveNew
<1>3. CASE RemoveNew
  BY <1>3 DEF RemoveNew
<1>4. CASE RestoreOld
  <2>1. CASE target' = target /\ backup' = backup BY <2>1
  <2>2. CASE /\ target = Nothing /\ target' = backup[n]
             /\ backup' = [backup EXCEPT ![n] = Nothing]
    <3> PICK m \in Runs : backup[m] = c BY <2>2
    <3>1. CASE m = n BY <2>2, <3>1
    <3>2. CASE m # n BY <2>2, <3>2
    <3> QED BY <3>1, <3>2
  <2> QED BY <1>4, <2>1, <2>2 DEF RestoreOld
<1>5. CASE Die
  BY <1>5 DEF Die
<1>6. CASE target' = target /\ backup' = backup
  BY <1>6
<1> QED
  BY <1>1, <1>2, <1>3, <1>4, <1>5, <1>6
     DEF Next, vars, Begin, MakeStage, MakeBackups, WriteFiles, Verify, CleanUp

\* Who may hold which copy is kept by every step.
LEMMA WhereKept ==
  TypeOK /\ HistoryInv /\ SwapInv /\ UndoInv /\ [Next]_vars
    => HistoryInv' /\ SwapInv' /\ UndoInv'
<1> SUFFICES ASSUME TypeOK, HistoryInv, SwapInv, UndoInv, [Next]_vars
             PROVE  HistoryInv' /\ SwapInv' /\ UndoInv'
  OBVIOUS
<1> USE RunsAssumption
        DEF TypeOK, HistoryInv, SwapInv, UndoInv, Runs, Copy, Nothing, Copies, Labels,
            Goto, Ends, Raise, GiveUp
<1>1. CASE Begin
  <2>0. /\ n' = n + 1 /\ n' \in Runs /\ n' # n
        /\ before'[n'] = target /\ before[n'] = Nothing
        /\ \A m \in Runs : m # n' => before'[m] = before[m]
    <3>1. n' = n + 1 /\ n' \in Runs /\ n' # n
      BY <1>1 DEF Begin
    <3>2. before' = [before EXCEPT ![n'] = target]
      BY <1>1 DEF Begin
    <3>3. ASSUME NEW k \in Runs, k = n + 1 PROVE before[k] = Nothing
      <4> HIDE DEF Nothing, Copies, SwapInv, UndoInv
      <4>1. k > n BY <3>3
      <4> QED BY <4>1
    <3>4. before[n'] = Nothing
      BY <3>1, <3>3
    <3> QED BY <3>1, <3>2, <3>4
  <2>1. HistoryInv'
    <3>1. target'.run <= n' /\ (pc' # "idle" => n' \in Runs /\ outcome'[n'] = "none")
      BY <1>1, <2>0 DEF Begin
    <3>2. ASSUME NEW m \in Runs
          PROVE  /\ m > n' => before'[m] = Nothing /\ outcome'[m] = "none"
                 /\ before'[m] # Nothing => before'[m].run < m
                 /\ backup'[m] # Nothing => backup'[m] = before'[m] /\ m <= n'
      <4>1. CASE m = n' BY <1>1, <2>0, <4>1 DEF Begin
      <4>2. CASE m # n' BY <1>1, <2>0, <4>2 DEF Begin
      <4> QED BY <4>1, <4>2
    <3> QED BY <3>1, <3>2 DEF HistoryInv
  <2>2. SwapInv' BY <1>1, <2>0 DEF Begin
  <2>3. UndoInv' BY <1>1, <2>0 DEF Begin
  <2> QED BY <2>1, <2>2, <2>3
<1>2. CASE MakeStage
  <2>1. HistoryInv' BY <1>2 DEF MakeStage
  <2>2. SwapInv' BY <1>2 DEF MakeStage
  <2>3. UndoInv' BY <1>2 DEF MakeStage
  <2> QED BY <2>1, <2>2, <2>3
<1>3. CASE MakeBackups
  <2>1. HistoryInv' BY <1>3 DEF MakeBackups
  <2>2. SwapInv' BY <1>3 DEF MakeBackups
  <2>3. UndoInv' BY <1>3 DEF MakeBackups
  <2> QED BY <2>1, <2>2, <2>3
<1>4. CASE WriteFiles
  <2>1. HistoryInv' BY <1>4 DEF WriteFiles
  <2>2. SwapInv' BY <1>4 DEF WriteFiles
  <2>3. UndoInv' BY <1>4 DEF WriteFiles
  <2> QED BY <2>1, <2>2, <2>3
<1>5. CASE MoveOld
  <2>1. HistoryInv'
    <3>1. target'.run <= n' /\ (pc' # "idle" => n' \in Runs /\ outcome'[n'] = "none")
      BY <1>5 DEF MoveOld
    <3>2. ASSUME NEW m \in Runs
          PROVE  /\ m > n' => before'[m] = Nothing /\ outcome'[m] = "none"
                 /\ before'[m] # Nothing => before'[m].run < m
                 /\ backup'[m] # Nothing => backup'[m] = before'[m] /\ m <= n'
      <4>1. CASE m = n
        <5>1. before' = before /\ n' = n /\ target = before[n] /\ outcome' = outcome
          BY <1>5 DEF MoveOld
        <5>2. backup'[n] = backup[n] \/ backup'[n] = target
          BY <1>5 DEF MoveOld
        <5>3. pc = "old" /\ n \in Runs
          BY <1>5 DEF MoveOld
        <5>4. before'[m] # Nothing => before'[m].run < m
          BY <4>1, <5>1, <5>3
        <5>5. backup'[m] # Nothing => backup'[m] = before'[m] /\ m <= n'
          <6>1. CASE backup'[n] = backup[n] BY <4>1, <5>1, <5>3, <6>1
          <6>2. CASE backup'[n] = target BY <4>1, <5>1, <5>3, <6>2
          <6> QED BY <5>2, <6>1, <6>2
        <5>6. ~(m > n')
          BY <4>1, <5>1, <5>3
        <5> QED BY <5>4, <5>5, <5>6
      <4>2. CASE m # n BY <1>5, <4>2 DEF MoveOld
      <4> QED BY <4>1, <4>2
    <3> QED BY <3>1, <3>2 DEF HistoryInv
  <2>2. SwapInv' BY <1>5 DEF MoveOld
  <2>3. UndoInv' BY <1>5 DEF MoveOld
  <2> QED BY <2>1, <2>2, <2>3
<1>6. CASE MoveNew
  <2>1. HistoryInv' BY <1>6 DEF MoveNew
  <2>2. SwapInv' BY <1>6 DEF MoveNew
  <2>3. UndoInv' BY <1>6 DEF MoveNew
  <2> QED BY <2>1, <2>2, <2>3
<1>7. CASE Verify
  <2>1. HistoryInv' BY <1>7 DEF Verify
  <2>2. SwapInv' BY <1>7 DEF Verify
  <2>3. UndoInv' BY <1>7 DEF Verify
  <2> QED BY <2>1, <2>2, <2>3
<1>8. CASE RemoveNew
  <2>1. HistoryInv' BY <1>8 DEF RemoveNew
  <2>2. SwapInv' BY <1>8 DEF RemoveNew
  <2>3. UndoInv' BY <1>8 DEF RemoveNew
  <2> QED BY <2>1, <2>2, <2>3
<1>9. CASE RestoreOld
  <2>1. HistoryInv'
    <3>1. target'.run <= n' /\ (pc' # "idle" => n' \in Runs /\ outcome'[n'] = "none")
      BY <1>9 DEF RestoreOld
    <3>2. ASSUME NEW m \in Runs
          PROVE  /\ m > n' => before'[m] = Nothing /\ outcome'[m] = "none"
                 /\ before'[m] # Nothing => before'[m].run < m
                 /\ backup'[m] # Nothing => backup'[m] = before'[m] /\ m <= n'
      <4>1. CASE m = n BY <1>9, <4>1 DEF RestoreOld
      <4>2. CASE m # n BY <1>9, <4>2 DEF RestoreOld
      <4> QED BY <4>1, <4>2
    <3> QED BY <3>1, <3>2 DEF HistoryInv
  <2>2. SwapInv' BY <1>9 DEF RestoreOld
  <2>3. UndoInv' BY <1>9 DEF RestoreOld
  <2> QED BY <2>1, <2>2, <2>3
<1>10. CASE CleanUp
  <2>1. HistoryInv' BY <1>10 DEF CleanUp
  <2>2. SwapInv' BY <1>10 DEF CleanUp
  <2>3. UndoInv' BY <1>10 DEF CleanUp
  <2> QED BY <2>1, <2>2, <2>3
<1>11. CASE Die
  <2>1. HistoryInv' BY <1>11 DEF Die
  <2>2. SwapInv' BY <1>11 DEF Die
  <2>3. UndoInv' BY <1>11 DEF Die
  <2> QED BY <2>1, <2>2, <2>3
<1>12. CASE UNCHANGED vars BY <1>12 DEF vars
<1> QED BY <1>1, <1>2, <1>3, <1>4, <1>5, <1>6, <1>7, <1>8, <1>9, <1>10, <1>11,
           <1>12 DEF Next

\* With the copies where they are, each of the three promises is kept.
LEMMA InstallerInductive == IInv /\ TypeOK' /\ [Next]_vars => IInv'
<1> SUFFICES ASSUME IInv, TypeOK', [Next]_vars PROVE IInv'
  OBVIOUS
<1> USE RunsAssumption DEF IInv
<1>1. HistoryInv' /\ SwapInv' /\ UndoInv'
  BY WhereKept
<1>2. PredecessorSurvives'
  <2> SUFFICES ASSUME NEW m \in Runs, before'[m].whole PROVE Kept(before[m])'
    BY DEF PredecessorSurvives
  <2>1. CASE before'[m] = before[m]
    <3>1. before[m] \in Copies /\ before[m].whole /\ Kept(before[m])
      BY <2>1 DEF PredecessorSurvives, TypeOK
    <3>2. before[m].run # n \/ pc = "idle"
      BY <3>1 DEF HistoryInv, TypeOK, Runs, Nothing, Copy, Copies
    <3>3. ASSUME NEW c, c = before[m] PROVE Kept(c)'
      BY <3>1, <3>2, <3>3, OthersAreKept
    <3> QED BY <2>1, <3>3 DEF Kept
  <2>2. CASE before'[m] # before[m]
    BY <2>2 DEF Next, vars, Begin, MakeStage, MakeBackups, WriteFiles, MoveOld, MoveNew,
                Verify, RemoveNew, RestoreOld, CleanUp, Die, Kept, TypeOK, Runs
  <2> QED BY <2>1, <2>2
<1>3. FailureRestores'
  BY DEF FailureRestores, Next, vars, Begin, MakeStage, MakeBackups, WriteFiles, MoveOld,
         MoveNew, Verify, RemoveNew, RestoreOld, CleanUp, Die, Goto, Ends, Raise, GiveUp,
         TypeOK, HistoryInv, SwapInv, UndoInv, Runs, Labels
<1>4. ReportIsTrue'
  <2> SUFFICES ASSUME NEW m \in Runs, outcome'[m] = "applied"
               PROVE  Kept(Copy(m, TRUE))' /\ backup'[m] = before'[m]
    BY DEF ReportIsTrue
  <2>1. CASE outcome[m] = "applied"
    <3>1. m # n \/ pc = "idle"
      BY <2>1 DEF HistoryInv
    <3>2. Kept(Copy(m, TRUE)) /\ backup[m] = before[m] /\ m # n + 1
      <4>1. Kept(Copy(m, TRUE)) /\ backup[m] = before[m]
        BY <2>1 DEF ReportIsTrue
      <4>2. HistoryInv /\ n \in 0..MaxRuns
        BY DEF TypeOK
      <4>3. m # n + 1
        BY <2>1, <4>2 DEF HistoryInv, Runs
      <4> QED BY <4>1, <4>3
    <3>3. Copy(m, TRUE) \in Copies /\ Copy(m, TRUE).whole /\ Copy(m, TRUE).run = m
      BY DEF Copy, Copies, Runs
    <3>4. ASSUME NEW c, c = Copy(m, TRUE) PROVE Kept(c)'
      BY <3>1, <3>2, <3>3, <3>4, OthersAreKept
    <3>5. backup'[m] = backup[m] /\ before'[m] = before[m]
      <4> HIDE DEF IInv
      <4>0. TypeOK /\ m # n + 1 /\ (m # n \/ pc = "idle")
        BY <3>1, <3>2 DEF IInv
      <4> QED BY <4>0 DEF Next, vars, Begin, MakeStage, MakeBackups, WriteFiles, MoveOld,
             MoveNew, Verify, RemoveNew, RestoreOld, CleanUp, Die, TypeOK, Runs
    <3> QED BY <3>2, <3>4, <3>5 DEF Kept, Copy
  <2>2. CASE outcome[m] # "applied"
    <3>1. Verify /\ m = n /\ target.whole /\ pc = "verify"
      BY <2>2 DEF Next, vars, Begin, MakeStage, MakeBackups, WriteFiles, MoveOld, MoveNew,
             Verify, RemoveNew, RestoreOld, CleanUp, Die, Goto, Ends, Raise, GiveUp, TypeOK,
             Runs
    <3>2. target = Copy(m, TRUE) /\ backup[m] = before[m]
      BY <3>1 DEF SwapInv, TypeOK, Copies, Copy
    <3> QED BY <3>1, <3>2 DEF Verify, Kept, Copy
  <2> QED BY <2>1, <2>2
<1> QED BY <1>1, <1>2, <1>3, <1>4

\* IInv holds in every state the script can leave a home directory in.
LEMMA InstallerInvariant == Spec => []IInv
<1>0. Spec => [](TypeOK /\ Started)
  BY InstallerTypes
<1>1. Init /\ TypeOK => IInv
  <2> SUFFICES ASSUME Init, TypeOK PROVE IInv
    OBVIOUS
  <2> USE RunsAssumption DEF Runs, Copy, Nothing, Copies
  <2>1. HistoryInv BY DEF Init, HistoryInv
  <2>2. SwapInv /\ UndoInv BY DEF Init, SwapInv, UndoInv
  <2>3. PredecessorSurvives /\ FailureRestores /\ ReportIsTrue
    BY DEF Init, PredecessorSurvives, FailureRestores, ReportIsTrue
  <2> QED BY <2>1, <2>2, <2>3 DEF IInv
<1>2. IInv => Started BY DEF IInv, HistoryInv, Started
<1> QED BY <1>0, <1>1, <1>2, InstallerInductive, PTL DEF Spec

\* However many runs fail, are interrupted or die, and wherever, the copy of
\* the plugin each of them found is still whole, in force or in a backup.
THEOREM PredecessorAlwaysSurvives == Spec => []PredecessorSurvives
<1>1. IInv => PredecessorSurvives BY DEF IInv
<1> QED BY <1>1, InstallerInvariant, PTL

\* A run that raised, uninterrupted, leaves the plugin directory as it found it.
THEOREM FailureAlwaysRestores == Spec => []FailureRestores
<1>1. IInv => FailureRestores BY DEF IInv
<1> QED BY <1>1, InstallerInvariant, PTL

\* What a run that reported success installed, and the backup it named, are
\* kept by every later run.
THEOREM ReportAlwaysTrue == Spec => []ReportIsTrue
<1>1. IInv => ReportIsTrue BY DEF IInv
<1> QED BY <1>1, InstallerInvariant, PTL
=============================================================================
