-------------------------- MODULE PluginInstaller ---------------------------
(***************************************************************************)
(* scripts/install_plugin.py, apply: the files of a commit are staged in a *)
(* directory of their own, the plugin directory is renamed to a backup,    *)
(* the staging directory is renamed into its place and its bytes are read  *)
(* back.  An exception undoes the renames that were made; a process that   *)
(* dies undoes nothing, and the next run starts from what it finds.  The   *)
(* script takes no lock: runs follow one another.                          *)
(***************************************************************************)
EXTENDS Naturals

CONSTANTS MaxRuns     \* bound: runs of the script

ASSUME RunsAssumption == MaxRuns \in Nat

VARIABLES target,     \* plugins/self-wake
          backup,     \* self-wake-install-backups: what each run moved there
          stage,      \* the staging directory each run made
          n,          \* runs so far
          pc,         \* where the present run is
          moved, installed,  \* what the present run knows of its renames
          outcome,    \* how each run ended
          before,     \* history: the plugin directory each run found
          crippled    \* history: the run was interrupted between a rename and
                      \* its note, or could not undo what it had done

vars == <<target, backup, stage, n, pc, moved, installed, outcome, before, crippled>>

Runs == 1..MaxRuns
\* A directory: whose copy of the plugin it holds (0: from before the first
\* run), and whether all files are there with the bytes of the commit.
Copy(run, whole) == [run |-> run, whole |-> whole]
Nothing == Copy(0, FALSE)
Copies  == [run : 0..MaxRuns, whole : BOOLEAN]
Labels  == {"idle", "staging", "backups", "writing", "old", "new", "verify",
            "remove", "restore", "cleanup"}

Init == /\ target \in {Nothing, Copy(0, TRUE)}
        /\ backup = [m \in Runs |-> Nothing]
        /\ stage = [m \in Runs |-> Nothing]
        /\ n = 0
        /\ pc = "idle"
        /\ moved = FALSE /\ installed = FALSE
        /\ outcome = [m \in Runs |-> "none"]
        /\ before = [m \in Runs |-> Nothing]
        /\ crippled = FALSE

-----------------------------------------------------------------------------
\* The run ends: with a report, or with the exception it raised.
Ends(word) == pc' = "idle" /\ outcome' = [outcome EXCEPT ![n] = word]
Goto(l)    == pc' = l /\ UNCHANGED outcome
\* An exception inside the try block, and one while that is being handled.
Raise      == Goto("remove")
GiveUp     == Goto("cleanup") /\ crippled' = TRUE

Begin == /\ pc = "idle" /\ n < MaxRuns
         /\ n' = n + 1
         /\ before' = [before EXCEPT ![n'] = target]
         /\ moved' = FALSE /\ installed' = FALSE /\ crippled' = FALSE
         /\ Goto("staging")
         /\ UNCHANGED <<target, backup, stage>>

\* mkdtemp, in the home directory and so on the file system of the target.
MakeStage == /\ pc = "staging"
             /\ \/ Goto("backups") /\ stage' = [stage EXCEPT ![n] = Copy(n, FALSE)]
                \/ Ends("raised") /\ UNCHANGED stage
             /\ UNCHANGED <<target, backup, n, moved, installed, before, crippled>>

\* This comes before the try block: an exception leaves the stage behind.
MakeBackups == /\ pc = "backups"
               /\ Goto("writing") \/ Ends("raised")
               /\ UNCHANGED <<target, backup, stage, n, moved, installed, before, crippled>>

\* Every file is written and every .py compiled.  What reached the disk may
\* differ from what was written.
WriteFiles == /\ pc = "writing"
              /\ \/ /\ Goto("old")
                    /\ \E whole \in BOOLEAN : stage' = [stage EXCEPT ![n] = Copy(n, whole)]
                 \/ Raise /\ UNCHANGED stage
              /\ UNCHANGED <<target, backup, n, moved, installed, before, crippled>>

\* The directory in force is kept; Nothing to keep is nothing to move.
MoveOld == /\ pc = "old"
           /\ \/ /\ target = Nothing
                 /\ Goto("new")
                 /\ UNCHANGED <<target, backup, moved, crippled>>
              \/ /\ target # Nothing
                 /\ target' = Nothing
                 /\ backup' = [backup EXCEPT ![n] = target]
                 /\ \/ Goto("new") /\ moved' = TRUE /\ UNCHANGED crippled
                    \/ Raise /\ UNCHANGED moved /\ crippled' = TRUE
              \/ Raise /\ UNCHANGED <<target, backup, moved, crippled>>
           /\ UNCHANGED <<stage, n, installed, before>>

MoveNew == /\ pc = "new"
           /\ \/ /\ target' = stage[n]
                 /\ stage' = [stage EXCEPT ![n] = Nothing]
                 /\ \/ Goto("verify") /\ installed' = TRUE /\ UNCHANGED crippled
                    \/ Raise /\ UNCHANGED installed /\ crippled' = TRUE
              \/ Raise /\ UNCHANGED <<target, stage, installed, crippled>>
           /\ UNCHANGED <<backup, n, moved, before>>

\* Mutant: the installed bytes are not compared with the commit.
VerifyNothing == /\ pc = "verify"
                 /\ Ends("applied")
                 /\ UNCHANGED <<target, backup, stage, n, moved, installed, before, crippled>>

\* The report is returned; there is no stage left to remove.
Verify == /\ pc = "verify"
          /\ (target.whole /\ Ends("applied")) \/ Raise
          /\ UNCHANGED <<target, backup, stage, n, moved, installed, before, crippled>>

-----------------------------------------------------------------------------
(* except BaseException, and finally.                                      *)

\* Mutant: the plugin directory is removed without asking whose copy it is.
RemoveAny == /\ pc = "remove"
             /\ target' = Nothing
             /\ Goto("restore")
             /\ UNCHANGED <<backup, stage, n, moved, installed, before, crippled>>

\* rmtree of what was installed, which may stop half-way.
RemoveNew == /\ pc = "remove"
             /\ \/ ~installed /\ Goto("restore") /\ UNCHANGED <<target, crippled>>
                \/ installed /\ target' = Nothing /\ Goto("restore") /\ UNCHANGED crippled
                \/ installed /\ target' = Copy(target.run, FALSE) /\ GiveUp
             /\ UNCHANGED <<backup, stage, n, moved, installed, before>>

\* Mutant: a failed swap leaves the predecessor in its backup.
RestoreNothing == /\ pc = "restore"
                  /\ Goto("cleanup")
                  /\ UNCHANGED <<target, backup, stage, n, moved, installed, before, crippled>>

\* A rename onto a directory that is not empty raises.
RestoreOld == /\ pc = "restore"
              /\ \/ ~moved /\ Goto("cleanup") /\ UNCHANGED <<target, backup, crippled>>
                 \/ /\ moved /\ target = Nothing
                    /\ target' = backup[n]
                    /\ backup' = [backup EXCEPT ![n] = Nothing]
                    /\ Goto("cleanup")
                    /\ UNCHANGED crippled
                 \/ moved /\ GiveUp /\ UNCHANGED <<target, backup>>
              /\ UNCHANGED <<stage, n, moved, installed, before>>

\* finally; an exception here takes the place of the first one.
CleanUp == /\ pc = "cleanup"
           /\ Ends("raised")
           /\ stage' = [stage EXCEPT ![n] = Nothing] \/ UNCHANGED stage
           /\ UNCHANGED <<target, backup, n, moved, installed, before, crippled>>

\* The process dies; a removal under way has got anywhere.
Die == /\ pc # "idle"
       /\ Ends("died")
       /\ \/ UNCHANGED target
          \/ pc = "remove" /\ installed /\ target' = Copy(target.run, FALSE)
       /\ UNCHANGED <<backup, stage, n, moved, installed, before, crippled>>

Next == \/ Begin \/ MakeStage \/ MakeBackups \/ WriteFiles \/ MoveOld \/ MoveNew
        \/ Verify \/ RemoveNew \/ RestoreOld \/ CleanUp \/ Die

Spec == Init /\ [][Next]_vars

-----------------------------------------------------------------------------
TypeOK == /\ target \in Copies
          /\ backup \in [Runs -> Copies]
          /\ stage \in [Runs -> Copies]
          /\ n \in 0..MaxRuns
          /\ pc \in Labels
          /\ moved \in BOOLEAN /\ installed \in BOOLEAN
          /\ outcome \in [Runs -> {"none", "applied", "raised", "died"}]
          /\ before \in [Runs -> Copies]
          /\ crippled \in BOOLEAN

\* The places where a copy of the plugin is kept.
Kept(copy) == target = copy \/ \E m \in Runs : backup[m] = copy

\* docs/current-paths.md, "preserves the old plugin directory": whatever a run
\* does, wherever it fails, is interrupted or dies, the copy it found is still
\* whole, in force or in a backup, after any number of further runs.
PredecessorSurvives ==
  \A m \in Runs : before[m].whole => Kept(before[m])

\* "restores the predecessor if the swap fails": a run that raised leaves the
\* plugin directory as it found it, unless it was interrupted between a rename
\* and its note of it or undoing itself failed.
FailureRestores ==
  pc = "idle" /\ n > 0 /\ outcome[n] = "raised" /\ ~crippled => target = before[n]

\* A run that reported success has put in a copy with the bytes of its commit,
\* which later runs keep, and the backup it named holds what it replaced.
ReportIsTrue ==
  \A m \in Runs : outcome[m] = "applied" => /\ Kept(Copy(m, TRUE))
                                            /\ backup[m] = before[m]
=============================================================================
