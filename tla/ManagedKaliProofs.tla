-------------------------- MODULE ManagedKaliProofs --------------------------
(* The safety of ManagedKali, whatever number of actions runs and of set-ups  *)
(* is interrupted.  The argument: a touch that is on its way finds the        *)
(* distribution RedPath imported, or was overtaken by its replacement         *)
(* (CommandInv), so the marker is in RedPath's distribution or in one that a  *)
(* touch so overtaken has marked (OwnerInv), and an action that saw it still  *)
(* finds it there, unless it was overtaken itself.                            *)
EXTENDS ManagedKali, TLAPS

USE AbandonedAssumption, ActionsAssumption

\* Before anything was installed the invariant holds.
LEMMA InitIInv == Init => IInv
  <1>1. ASSUME Init PROVE TypeOK
    <2>1. distro \in Owners /\ temporary \in Bytes /\ published \in Bytes
      BY <1>1 DEF Init, Owners, Bytes
    <2>2. marked \in BOOLEAN /\ cancelled \in BOOLEAN /\ mismarked \in BOOLEAN
      BY <1>1 DEF Init
    <2>3. code \in Codes
      BY <1>1 DEF Init, Codes
    <2>4. /\ action \in [Actions -> {"idle", "list", "marker", "exec"}]
          /\ overtaken \subseteq Actions \cup {"touch"}
      BY <1>1 DEF Init
    <2>5. imports \in Nat /\ touches \in Nat /\ interrupted \in Nat
      BY <1>1 DEF Init
    <2>. QED  BY <1>1, <2>1, <2>2, <2>3, <2>4, <2>5 DEF Init, TypeOK
  <1>2. Init => CommandInv /\ OwnerInv /\ FileInv
    BY DEF Init, CommandInv, TouchPending, OwnerInv, FileInv
  <1>3. Init => LeftoverInv /\ ActionsStayInside
    BY DEF Init, LeftoverInv, UnmarkedIsLeftover, ActionsStayInside
  <1>. QED  BY <1>1, <1>2, <1>3 DEF IInv

\* A failure is answered with one of the codes.
LEMMA FailureCode ==
  ASSUME NEW c \in Codes, AnswerFailure(c)
  PROVE  setup' = "idle" /\ code' \in Codes
  BY DEF AnswerFailure, Codes

\* A step that sends no marker, and leaves the distribution and the actions
\* alone, leaves what is known of the commands on their way alone too.
LEMMA CommandsAlone ==
  ASSUME IInv, TouchPending' => TouchPending,
         UNCHANGED <<distro, marked, action, overtaken, mismarked>>
  PROVE  CommandInv' /\ OwnerInv' /\ ActionsStayInside'
  <1>1. CommandInv'
    BY DEF IInv, CommandInv
  <1>2. OwnerInv' /\ ActionsStayInside'
    BY DEF IInv, OwnerInv, ActionsStayInside
  <1>. QED  BY <1>1, <1>2

\* The inspection, the download and the user's cancellation touch neither the
\* distribution nor a command.
LEMMA PreparationKeepsIInv ==
  ASSUME IInv, Install \/ Cancel \/ Inspecting \/ Downloading
  PROVE  IInv'
  <1>1. CASE Install
    <2>1. TypeOK'
      BY <1>1 DEF Install, wsl, files, orphans, history, IInv, TypeOK, Owners,
           Bytes, Codes
    <2>2. CommandInv' /\ OwnerInv' /\ ActionsStayInside'
      BY <1>1, CommandsAlone DEF Install, wsl, orphans, history, TouchPending,
           IInv, TypeOK
    <2>3. FileInv'
      BY <1>1 DEF Install, files, IInv, TypeOK, FileInv
    <2>4. LeftoverInv'
      BY <1>1 DEF Install, wsl, orphans, IInv, TypeOK, LeftoverInv,
           UnmarkedIsLeftover
    <2>. QED  BY <2>1, <2>2, <2>3, <2>4 DEF IInv
  <1>2. CASE Cancel
    <2>1. TypeOK'
      BY <1>2 DEF Cancel, wsl, files, orphans, history, IInv, TypeOK, Owners,
           Bytes, Codes
    <2>2. CommandInv' /\ OwnerInv' /\ ActionsStayInside'
      BY <1>2, CommandsAlone DEF Cancel, wsl, orphans, history, TouchPending,
           IInv, TypeOK
    <2>3. FileInv'
      BY <1>2 DEF Cancel, files, IInv, TypeOK, FileInv
    <2>4. LeftoverInv'
      BY <1>2 DEF Cancel, wsl, orphans, IInv, TypeOK, LeftoverInv,
           UnmarkedIsLeftover
    <2>. QED  BY <2>1, <2>2, <2>3, <2>4 DEF IInv
  <1>3. CASE CancelledEarly
    <2>1. TypeOK'
      BY <1>3 DEF CancelledEarly, Answer, wsl, files, orphans, history, IInv,
           TypeOK, Owners, Bytes, Codes
    <2>2. CommandInv' /\ OwnerInv' /\ ActionsStayInside'
      BY <1>3, CommandsAlone DEF CancelledEarly, Answer, wsl, orphans,
           history, TouchPending, IInv, TypeOK
    <2>3. FileInv'
      BY <1>3 DEF CancelledEarly, Answer, files, IInv, TypeOK, FileInv
    <2>4. LeftoverInv'
      BY <1>3 DEF CancelledEarly, Answer, wsl, orphans, IInv, TypeOK,
           LeftoverInv, UnmarkedIsLeftover
    <2>. QED  BY <2>1, <2>2, <2>3, <2>4 DEF IInv
  <1>4. CASE SetupWslFails
    <2>1. TypeOK'
      BY <1>4 DEF SetupWslFails, Answer, wsl, files, orphans, history, IInv,
           TypeOK, Owners, Bytes, Codes
    <2>2. CommandInv' /\ OwnerInv' /\ ActionsStayInside'
      BY <1>4, CommandsAlone DEF SetupWslFails, Answer, wsl, orphans, history,
           TouchPending, IInv, TypeOK
    <2>3. FileInv'
      BY <1>4 DEF SetupWslFails, Answer, files, IInv, TypeOK, FileInv
    <2>4. LeftoverInv'
      BY <1>4 DEF SetupWslFails, Answer, wsl, orphans, IInv, TypeOK,
           LeftoverInv, UnmarkedIsLeftover
    <2>. QED  BY <2>1, <2>2, <2>3, <2>4 DEF IInv
  <1>5. CASE SetupLists
    <2>1. TypeOK'
      BY <1>5 DEF SetupLists, wsl, files, orphans, history, IInv, TypeOK,
           Owners, Bytes, Codes
    <2>2. CommandInv' /\ OwnerInv' /\ ActionsStayInside'
      BY <1>5, CommandsAlone DEF SetupLists, wsl, orphans, history,
           TouchPending, IInv, TypeOK
    <2>3. FileInv'
      BY <1>5 DEF SetupLists, files, IInv, TypeOK, FileInv
    <2>4. LeftoverInv'
      BY <1>5 DEF SetupLists, wsl, orphans, IInv, TypeOK, LeftoverInv,
           UnmarkedIsLeftover
    <2>. QED  BY <2>1, <2>2, <2>3, <2>4 DEF IInv
  <1>6. CASE SetupMarkerFails
    <2>1. TypeOK'
      BY <1>6 DEF SetupMarkerFails, Answer, wsl, files, orphans, history,
           IInv, TypeOK, Owners, Bytes, Codes
    <2>2. CommandInv' /\ OwnerInv' /\ ActionsStayInside'
      BY <1>6, CommandsAlone DEF SetupMarkerFails, Answer, wsl, orphans,
           history, TouchPending, IInv, TypeOK
    <2>3. FileInv'
      BY <1>6 DEF SetupMarkerFails, Answer, files, IInv, TypeOK, FileInv
    <2>4. LeftoverInv'
      BY <1>6 DEF SetupMarkerFails, Answer, wsl, orphans, IInv, TypeOK,
           LeftoverInv, UnmarkedIsLeftover
    <2>. QED  BY <2>1, <2>2, <2>3, <2>4 DEF IInv
  <1>7. CASE SetupReadsMarker
    <2>1. TypeOK'
      BY <1>7 DEF SetupReadsMarker, Answer, wsl, files, orphans, history,
           IInv, TypeOK, Owners, Bytes, Codes
    <2>2. CommandInv' /\ OwnerInv' /\ ActionsStayInside'
      BY <1>7, CommandsAlone DEF SetupReadsMarker, Answer, wsl, orphans,
           history, TouchPending, IInv, TypeOK
    <2>3. FileInv'
      BY <1>7 DEF SetupReadsMarker, Answer, files, IInv, TypeOK, FileInv
    <2>4. LeftoverInv'
      BY <1>7 DEF SetupReadsMarker, Answer, wsl, orphans, IInv, TypeOK,
           LeftoverInv, UnmarkedIsLeftover
    <2>. QED  BY <2>1, <2>2, <2>3, <2>4 DEF IInv
  <1>8. CASE Fetch
    <2>1. TypeOK'
      BY <1>8 DEF Fetch, wsl, files, orphans, history, IInv, TypeOK, Owners,
           Bytes, Codes
    <2>2. CommandInv' /\ OwnerInv' /\ ActionsStayInside'
      BY <1>8, CommandsAlone DEF Fetch, wsl, orphans, history, TouchPending,
           IInv, TypeOK
    <2>3. FileInv'
      BY <1>8 DEF Fetch, files, IInv, TypeOK, FileInv
    <2>4. LeftoverInv'
      BY <1>8 DEF Fetch, wsl, orphans, IInv, TypeOK, LeftoverInv,
           UnmarkedIsLeftover
    <2>. QED  BY <2>1, <2>2, <2>3, <2>4 DEF IInv
  <1>9. CASE FetchFails
    <2>0. setup' = "idle" /\ code' \in Codes
      BY <1>9, FailureCode DEF FetchFails, Codes
    <2>1. TypeOK'
      BY <1>9, <2>0 DEF FetchFails, wsl, files, orphans, history, IInv,
           TypeOK, Owners, Bytes
    <2>2. CommandInv' /\ OwnerInv' /\ ActionsStayInside'
      BY <1>9, <2>0, CommandsAlone DEF FetchFails, wsl, orphans, history,
           TouchPending, IInv, TypeOK
    <2>3. FileInv'
      BY <1>9, <2>0 DEF FetchFails, files, IInv, TypeOK, FileInv
    <2>4. LeftoverInv'
      BY <1>9, <2>0 DEF FetchFails, wsl, orphans, IInv, TypeOK, LeftoverInv,
           UnmarkedIsLeftover
    <2>. QED  BY <2>1, <2>2, <2>3, <2>4 DEF IInv
  <1>10. CASE Verify
    <2>1. TypeOK'
      BY <1>10 DEF Verify, Answer, wsl, files, orphans, history, IInv, TypeOK,
           Owners, Bytes, Codes
    <2>2. CommandInv' /\ OwnerInv' /\ ActionsStayInside'
      BY <1>10, CommandsAlone DEF Verify, Answer, wsl, orphans, history,
           TouchPending, IInv, TypeOK
    <2>3. FileInv'
      BY <1>10 DEF Verify, Answer, files, IInv, TypeOK, FileInv
    <2>4. LeftoverInv'
      BY <1>10 DEF Verify, Answer, wsl, orphans, IInv, TypeOK, LeftoverInv,
           UnmarkedIsLeftover
    <2>. QED  BY <2>1, <2>2, <2>3, <2>4 DEF IInv
  <1>11. CASE Publish
    <2>1. TypeOK'
      BY <1>11 DEF Publish, wsl, files, orphans, history, IInv, TypeOK,
           Owners, Bytes, Codes
    <2>2. CommandInv' /\ OwnerInv' /\ ActionsStayInside'
      BY <1>11, CommandsAlone DEF Publish, wsl, orphans, history,
           TouchPending, IInv, TypeOK
    <2>3. FileInv'
      BY <1>11 DEF Publish, files, IInv, TypeOK, FileInv
    <2>4. LeftoverInv'
      BY <1>11 DEF Publish, wsl, orphans, IInv, TypeOK, LeftoverInv,
           UnmarkedIsLeftover
    <2>. QED  BY <2>1, <2>2, <2>3, <2>4 DEF IInv
    <1>. QED  BY <1>1, <1>2, <1>3, <1>4, <1>5, <1>6, <1>7, <1>8, <1>9, <1>10,
               <1>11 DEF Inspecting, Downloading

\* The import keeps the name for RedPath or fails.
LEMMA ImportKeepsIInv ==
  ASSUME IInv, Importing
  PROVE  IInv'
  <1>1. CASE CancelledBeforeImport
    <2>1. TypeOK'
      BY <1>1 DEF CancelledBeforeImport, Answer, wsl, files, orphans, history,
           IInv, TypeOK, Owners, Bytes, Codes
    <2>2. CommandInv' /\ OwnerInv' /\ ActionsStayInside'
      BY <1>1, CommandsAlone DEF CancelledBeforeImport, Answer, wsl, orphans,
           history, TouchPending, IInv, TypeOK
    <2>3. FileInv'
      BY <1>1 DEF CancelledBeforeImport, Answer, files, IInv, TypeOK, FileInv
    <2>4. LeftoverInv'
      BY <1>1 DEF CancelledBeforeImport, Answer, wsl, orphans, IInv, TypeOK,
           LeftoverInv, UnmarkedIsLeftover
    <2>. QED  BY <2>1, <2>2, <2>3, <2>4 DEF IInv
  <1>2. CASE NotCancelledBeforeImport
    <2>1. TypeOK'
      BY <1>2 DEF NotCancelledBeforeImport, wsl, files, orphans, history,
           IInv, TypeOK, Owners, Bytes, Codes
    <2>2. CommandInv' /\ OwnerInv' /\ ActionsStayInside'
      BY <1>2, CommandsAlone DEF NotCancelledBeforeImport, wsl, orphans,
           history, TouchPending, IInv, TypeOK
    <2>3. FileInv'
      BY <1>2 DEF NotCancelledBeforeImport, files, IInv, TypeOK, FileInv
    <2>4. LeftoverInv'
      BY <1>2 DEF NotCancelledBeforeImport, wsl, orphans, IInv, TypeOK,
           LeftoverInv, UnmarkedIsLeftover
    <2>. QED  BY <2>1, <2>2, <2>3, <2>4 DEF IInv
  <1>3. CASE ArtifactInvalid
    <2>1. TypeOK'
      BY <1>3 DEF ArtifactInvalid, Answer, wsl, files, orphans, history, IInv,
           TypeOK, Owners, Bytes, Codes
    <2>2. CommandInv' /\ OwnerInv' /\ ActionsStayInside'
      BY <1>3, CommandsAlone DEF ArtifactInvalid, Answer, wsl, orphans,
           history, TouchPending, IInv, TypeOK
    <2>3. FileInv'
      BY <1>3 DEF ArtifactInvalid, Answer, files, IInv, TypeOK, FileInv
    <2>4. LeftoverInv'
      BY <1>3 DEF ArtifactInvalid, Answer, wsl, orphans, IInv, TypeOK,
           LeftoverInv, UnmarkedIsLeftover
    <2>. QED  BY <2>1, <2>2, <2>3, <2>4 DEF IInv
  <1>4. CASE ImportStarts
    <2>1. TypeOK'
      BY <1>4 DEF ImportStarts, wsl, files, orphans, history, IInv, TypeOK,
           Owners, Bytes, Codes
    <2>2. CommandInv' /\ OwnerInv' /\ ActionsStayInside'
      BY <1>4, CommandsAlone DEF ImportStarts, wsl, orphans, history,
           TouchPending, IInv, TypeOK
    <2>3. FileInv'
      BY <1>4 DEF ImportStarts, files, IInv, TypeOK, FileInv
    <2>4. LeftoverInv'
      BY <1>4 DEF ImportStarts, wsl, orphans, IInv, TypeOK, LeftoverInv,
           UnmarkedIsLeftover
    <2>. QED  BY <2>1, <2>2, <2>3, <2>4 DEF IInv
  <1>5. CASE ImportRegisters
    <2>1. TypeOK'
      <3>1. distro' \in Owners /\ marked' \in BOOLEAN
        BY <1>5 DEF ImportRegisters, wsl, files, orphans, history, IInv,
             TypeOK, Owners
      <3>2. /\ temporary' \in Bytes /\ published' \in Bytes /\ code' \in Codes
            /\ imports' \in Nat /\ touches' \in Nat /\ interrupted' \in Nat
        BY <1>5 DEF ImportRegisters, wsl, files, orphans, history, IInv,
             TypeOK, Bytes, Codes
      <3>3. /\ action' \in [Actions -> {"idle", "list", "marker", "exec"}]
            /\ overtaken' \subseteq Actions \cup {"touch"}
        BY <1>5 DEF ImportRegisters, wsl, files, orphans, history, IInv,
             TypeOK
      <3>4. mismarked' \in BOOLEAN
        BY <1>5 DEF ImportRegisters, wsl, files, orphans, history, IInv,
             TypeOK
      <3>. QED
        BY <1>5, <3>1, <3>2, <3>3, <3>4 DEF ImportRegisters, wsl, files,
             orphans, history, IInv, TypeOK
    <2>2. CommandInv'
      BY <1>5 DEF ImportRegisters, wsl, files, orphans, history, IInv, TypeOK,
           CommandInv, TouchPending
    <2>3. OwnerInv'
      BY <1>5 DEF ImportRegisters, wsl, files, orphans, history, IInv, TypeOK,
           Owners, CommandInv, TouchPending, OwnerInv
    <2>4. ActionsStayInside'
      BY <1>5 DEF ImportRegisters, wsl, files, orphans, history, IInv, TypeOK,
           OwnerInv, ActionsStayInside
    <2>5. FileInv'
      BY <1>5 DEF ImportRegisters, wsl, files, orphans, history, IInv, TypeOK,
           FileInv
    <2>6. LeftoverInv'
      BY <1>5 DEF ImportRegisters, wsl, files, orphans, history, IInv, TypeOK,
           CommandInv, TouchPending, LeftoverInv, UnmarkedIsLeftover
    <2>. QED  BY <2>1, <2>2, <2>3, <2>4, <2>5, <2>6 DEF IInv
  <1>6. CASE ImportRefused
    <2>1. TypeOK'
      BY <1>6 DEF ImportRefused, Answer, wsl, files, orphans, history, IInv,
           TypeOK, Owners, Bytes, Codes
    <2>2. CommandInv' /\ OwnerInv' /\ ActionsStayInside'
      BY <1>6, CommandsAlone DEF ImportRefused, Answer, wsl, orphans, history,
           TouchPending, IInv, TypeOK
    <2>3. FileInv'
      BY <1>6 DEF ImportRefused, Answer, files, IInv, TypeOK, FileInv
    <2>4. LeftoverInv'
      BY <1>6 DEF ImportRefused, Answer, wsl, orphans, IInv, TypeOK,
           LeftoverInv, UnmarkedIsLeftover
    <2>. QED  BY <2>1, <2>2, <2>3, <2>4 DEF IInv
  <1>7. CASE ImportReturns
    <2>1. TypeOK'
      BY <1>7 DEF ImportReturns, wsl, files, orphans, history, IInv, TypeOK,
           Owners, Bytes, Codes
    <2>2. CommandInv' /\ OwnerInv' /\ ActionsStayInside'
      BY <1>7, CommandsAlone DEF ImportReturns, wsl, orphans, history,
           TouchPending, IInv, TypeOK
    <2>3. FileInv'
      BY <1>7 DEF ImportReturns, files, IInv, TypeOK, FileInv
    <2>4. LeftoverInv'
      BY <1>7 DEF ImportReturns, wsl, orphans, IInv, TypeOK, LeftoverInv,
           UnmarkedIsLeftover
    <2>. QED  BY <2>1, <2>2, <2>3, <2>4 DEF IInv
    <1>. QED  BY <1>1, <1>2, <1>3, <1>4, <1>5, <1>6, <1>7 DEF Importing

\* The marker is put where it was sent, unless it was overtaken.
LEMMA MarkKeepsIInv ==
  ASSUME IInv, Marking
  PROVE  IInv'
  <1>1. CASE Touch
    <2>1. TypeOK'
      <3>1. distro' \in Owners /\ marked' \in BOOLEAN
        BY <1>1 DEF Touch, MarkerAppears, wsl, files, orphans, history, IInv,
             TypeOK, Owners
      <3>2. /\ temporary' \in Bytes /\ published' \in Bytes /\ code' \in Codes
            /\ imports' \in Nat /\ touches' \in Nat /\ interrupted' \in Nat
        BY <1>1 DEF Touch, MarkerAppears, wsl, files, orphans, history, IInv,
             TypeOK, Bytes, Codes
      <3>3. /\ action' \in [Actions -> {"idle", "list", "marker", "exec"}]
            /\ overtaken' \subseteq Actions \cup {"touch"}
        BY <1>1 DEF Touch, MarkerAppears, wsl, files, orphans, history, IInv,
             TypeOK
      <3>4. mismarked' \in BOOLEAN
        BY <1>1 DEF Touch, MarkerAppears, wsl, files, orphans, history, IInv,
             TypeOK
      <3>. QED
        BY <1>1, <3>1, <3>2, <3>3, <3>4 DEF Touch, MarkerAppears, wsl, files,
             orphans, history, IInv, TypeOK
    <2>2. CommandInv'
      BY <1>1 DEF Touch, MarkerAppears, wsl, files, orphans, history, IInv,
           TypeOK, CommandInv, TouchPending
    <2>3. OwnerInv'
      BY <1>1 DEF Touch, MarkerAppears, wsl, files, orphans, history, IInv,
           TypeOK, Owners, CommandInv, TouchPending, OwnerInv
    <2>4. ActionsStayInside'
      BY <1>1 DEF Touch, MarkerAppears, wsl, files, orphans, history, IInv,
           TypeOK, OwnerInv, ActionsStayInside
    <2>5. FileInv'
      BY <1>1 DEF Touch, MarkerAppears, wsl, files, orphans, history, IInv,
           TypeOK, FileInv
    <2>6. LeftoverInv'
      BY <1>1 DEF Touch, MarkerAppears, wsl, files, orphans, history, IInv,
           TypeOK, CommandInv, TouchPending, LeftoverInv, UnmarkedIsLeftover
    <2>. QED  BY <2>1, <2>2, <2>3, <2>4, <2>5, <2>6 DEF IInv
  <1>2. CASE TouchFails
    <2>0. setup' = "idle" /\ code' \in Codes
      BY <1>2, FailureCode DEF TouchFails, Codes
    <2>1. TypeOK'
      BY <1>2, <2>0 DEF TouchFails, wsl, files, orphans, history, IInv,
           TypeOK, Owners, Bytes
    <2>2. CommandInv' /\ OwnerInv' /\ ActionsStayInside'
      BY <1>2, <2>0, CommandsAlone DEF TouchFails, wsl, orphans, history,
           TouchPending, IInv, TypeOK
    <2>3. FileInv'
      BY <1>2, <2>0 DEF TouchFails, files, IInv, TypeOK, FileInv
    <2>4. LeftoverInv'
      BY <1>2, <2>0 DEF TouchFails, wsl, orphans, IInv, TypeOK, LeftoverInv,
           UnmarkedIsLeftover
    <2>. QED  BY <2>1, <2>2, <2>3, <2>4 DEF IInv
  <1>3. CASE TouchReturns
    <2>1. TypeOK'
      BY <1>3 DEF TouchReturns, Answer, wsl, files, orphans, history, IInv,
           TypeOK, Owners, Bytes, Codes
    <2>2. CommandInv' /\ OwnerInv' /\ ActionsStayInside'
      BY <1>3, CommandsAlone DEF TouchReturns, Answer, wsl, orphans, history,
           TouchPending, IInv, TypeOK
    <2>3. FileInv'
      BY <1>3 DEF TouchReturns, Answer, files, IInv, TypeOK, FileInv
    <2>4. LeftoverInv'
      BY <1>3 DEF TouchReturns, Answer, wsl, orphans, IInv, TypeOK,
           LeftoverInv, UnmarkedIsLeftover
    <2>. QED  BY <2>1, <2>2, <2>3, <2>4 DEF IInv
    <1>. QED  BY <1>1, <1>2, <1>3 DEF Marking

\* What is given up is counted, and still goes where it was sent.
LEMMA GivingUpKeepsIInv ==
  ASSUME IInv, GiveUp \/ Crash
  PROVE  IInv'
  <1>1. CASE GiveUp
    <2>0. setup' = "idle" /\ code' \in Codes
      BY <1>1, FailureCode DEF GiveUp, Unfinished, Leave, Codes
    <2>1. TypeOK'
      BY <1>1, <2>0 DEF GiveUp, Unfinished, Leave, wsl, files, orphans,
           history, IInv, TypeOK, Owners, Bytes
    <2>2. CommandInv' /\ OwnerInv' /\ ActionsStayInside'
      BY <1>1, <2>0, CommandsAlone DEF GiveUp, Unfinished, Leave, wsl,
           orphans, history, TouchPending, IInv, TypeOK
    <2>3. FileInv'
      BY <1>1, <2>0 DEF GiveUp, Unfinished, Leave, files, IInv, TypeOK,
           FileInv
    <2>4. LeftoverInv'
      BY <1>1, <2>0 DEF GiveUp, Unfinished, Leave, wsl, orphans, IInv, TypeOK,
           LeftoverInv, UnmarkedIsLeftover
    <2>. QED  BY <2>1, <2>2, <2>3, <2>4 DEF IInv
  <1>2. CASE Crash
    <2>1. TypeOK'
      <3>1. distro' \in Owners /\ marked' \in BOOLEAN
        BY <1>2 DEF Crash, Unfinished, Leave, wsl, files, orphans, history,
             IInv, TypeOK, Owners
      <3>2. /\ temporary' \in Bytes /\ published' \in Bytes /\ code' \in Codes
            /\ imports' \in Nat /\ touches' \in Nat /\ interrupted' \in Nat
        BY <1>2 DEF Crash, Unfinished, Leave, wsl, files, orphans, history,
             IInv, TypeOK, Bytes, Codes
      <3>3. /\ action' \in [Actions -> {"idle", "list", "marker", "exec"}]
            /\ overtaken' \subseteq Actions \cup {"touch"}
        BY <1>2 DEF Crash, Unfinished, Leave, wsl, files, orphans, history,
             IInv, TypeOK
      <3>4. mismarked' \in BOOLEAN
        BY <1>2 DEF Crash, Unfinished, Leave, wsl, files, orphans, history,
             IInv, TypeOK
      <3>. QED
        BY <1>2, <3>1, <3>2, <3>3, <3>4 DEF Crash, Unfinished, Leave, wsl,
             files, orphans, history, IInv, TypeOK
    <2>2. CommandInv'
      BY <1>2 DEF Crash, Unfinished, Leave, wsl, files, orphans, history,
           IInv, TypeOK, CommandInv, TouchPending
    <2>3. OwnerInv'
      BY <1>2 DEF Crash, Unfinished, Leave, wsl, files, orphans, history,
           IInv, TypeOK, Owners, CommandInv, TouchPending, OwnerInv
    <2>4. ActionsStayInside'
      BY <1>2 DEF Crash, Unfinished, Leave, wsl, files, orphans, history,
           IInv, TypeOK, OwnerInv, ActionsStayInside
    <2>5. FileInv'
      BY <1>2 DEF Crash, Unfinished, Leave, wsl, files, orphans, history,
           IInv, TypeOK, FileInv
    <2>6. LeftoverInv'
      BY <1>2 DEF Crash, Unfinished, Leave, wsl, files, orphans, history,
           IInv, TypeOK, CommandInv, TouchPending, LeftoverInv,
           UnmarkedIsLeftover
    <2>. QED  BY <2>1, <2>2, <2>3, <2>4, <2>5, <2>6 DEF IInv
    <1>. QED  BY <1>1, <1>2

\* A step of run_in_kali: only one that has seen the marker goes on to execute.
LEMMA MovesKeepIInv ==
  ASSUME IInv, NEW a \in Actions, NEW from,
         NEW to \in {"idle", "list", "marker", "exec"}, Moves(a, from, to),
         to = "exec" => distro # "none" /\ marked,
         \/ overtaken' = overtaken
         \/ overtaken' = overtaken \ {a} /\ to # "exec"
  PROVE  IInv'
  <1>. USE DEF Moves, wsl, files, orphans
  <1>1. TypeOK'
    <2>1. /\ action' \in [Actions -> {"idle", "list", "marker", "exec"}]
          /\ overtaken' \subseteq Actions \cup {"touch"}
      BY DEF IInv, TypeOK
    <2>. QED  BY <2>1 DEF IInv, TypeOK
  <1>2. CommandInv'
    BY DEF IInv, CommandInv, TouchPending
  <1>3. OwnerInv' /\ FileInv' /\ LeftoverInv'
    BY DEF IInv, OwnerInv, FileInv, LeftoverInv, UnmarkedIsLeftover
  <1>4. ActionsStayInside'
    <2>1. SUFFICES ASSUME NEW b \in Actions, action'[b] = "exec",
                          b \notin overtaken'
                   PROVE  marked /\ (distro = "ours" \/ mismarked)
      BY DEF ActionsStayInside
    <2>2. CASE b = a
      <3>1. to = "exec"
        BY <2>1, <2>2 DEF IInv, TypeOK
      <3>. QED  BY <3>1 DEF IInv, OwnerInv
    <2>3. CASE b # a
      <3>1. action[b] = "exec" /\ b \notin overtaken
        BY <2>1, <2>3 DEF IInv, TypeOK
      <3>. QED  BY <3>1 DEF IInv, ActionsStayInside
    <2>. QED  BY <2>2, <2>3
  <1>. QED  BY <1>1, <1>2, <1>3, <1>4 DEF IInv

\* An action is executed only after it has seen the marker.
LEMMA RunKeepsIInv ==
  ASSUME IInv, Running
  PROVE  IInv'
  <1>1. PICK a \in Actions :
           Run(a) \/ RunRefused(a) \/ RunLists(a) \/ RunReadsMarker(a) \/ Exec(a)
    BY DEF Running
  <1>2. CASE Run(a) \/ RunRefused(a) \/ RunLists(a)
    BY <1>2, MovesKeepIInv DEF Run, RunRefused, RunLists
  <1>3. CASE RunReadsMarker(a)
    BY <1>3, MovesKeepIInv DEF RunReadsMarker
  <1>4. CASE Exec(a)
    BY <1>4, MovesKeepIInv DEF Exec
  <1>. QED  BY <1>1, <1>2, <1>3, <1>4

\* Abandoned commands and other users of WSL.
LEMMA ElsewhereKeepsIInv ==
  ASSUME IInv, Elsewhere
  PROVE  IInv'
  <1>1. CASE OrphanImports
    <2>1. TypeOK'
      <3>1. distro' \in Owners /\ marked' \in BOOLEAN
        BY <1>1 DEF OrphanImports, wsl, files, orphans, history, IInv, TypeOK,
             Owners
      <3>2. /\ temporary' \in Bytes /\ published' \in Bytes /\ code' \in Codes
            /\ imports' \in Nat /\ touches' \in Nat /\ interrupted' \in Nat
        BY <1>1 DEF OrphanImports, wsl, files, orphans, history, IInv, TypeOK,
             Bytes, Codes
      <3>3. /\ action' \in [Actions -> {"idle", "list", "marker", "exec"}]
            /\ overtaken' \subseteq Actions \cup {"touch"}
        BY <1>1 DEF OrphanImports, wsl, files, orphans, history, IInv, TypeOK
      <3>4. mismarked' \in BOOLEAN
        BY <1>1 DEF OrphanImports, wsl, files, orphans, history, IInv, TypeOK
      <3>. QED
        BY <1>1, <3>1, <3>2, <3>3, <3>4 DEF OrphanImports, wsl, files,
             orphans, history, IInv, TypeOK
    <2>2. CommandInv'
      BY <1>1 DEF OrphanImports, wsl, files, orphans, history, IInv, TypeOK,
           CommandInv, TouchPending
    <2>3. OwnerInv'
      BY <1>1 DEF OrphanImports, wsl, files, orphans, history, IInv, TypeOK,
           Owners, CommandInv, TouchPending, OwnerInv
    <2>4. ActionsStayInside'
      BY <1>1 DEF OrphanImports, wsl, files, orphans, history, IInv, TypeOK,
           OwnerInv, ActionsStayInside
    <2>5. FileInv'
      BY <1>1 DEF OrphanImports, wsl, files, orphans, history, IInv, TypeOK,
           FileInv
    <2>6. LeftoverInv'
      BY <1>1 DEF OrphanImports, wsl, files, orphans, history, IInv, TypeOK,
           CommandInv, TouchPending, LeftoverInv, UnmarkedIsLeftover
    <2>. QED  BY <2>1, <2>2, <2>3, <2>4, <2>5, <2>6 DEF IInv
  <1>2. CASE OrphanTouches
    <2>1. TypeOK'
      <3>1. distro' \in Owners /\ marked' \in BOOLEAN
        BY <1>2 DEF OrphanTouches, MarkerAppears, wsl, files, orphans,
             history, IInv, TypeOK, Owners
      <3>2. /\ temporary' \in Bytes /\ published' \in Bytes /\ code' \in Codes
            /\ imports' \in Nat /\ touches' \in Nat /\ interrupted' \in Nat
        BY <1>2 DEF OrphanTouches, MarkerAppears, wsl, files, orphans,
             history, IInv, TypeOK, Bytes, Codes
      <3>3. /\ action' \in [Actions -> {"idle", "list", "marker", "exec"}]
            /\ overtaken' \subseteq Actions \cup {"touch"}
        BY <1>2 DEF OrphanTouches, MarkerAppears, wsl, files, orphans,
             history, IInv, TypeOK
      <3>4. mismarked' \in BOOLEAN
        BY <1>2 DEF OrphanTouches, MarkerAppears, wsl, files, orphans,
             history, IInv, TypeOK
      <3>. QED
        BY <1>2, <3>1, <3>2, <3>3, <3>4 DEF OrphanTouches, MarkerAppears, wsl,
             files, orphans, history, IInv, TypeOK
    <2>2. CommandInv'
      BY <1>2 DEF OrphanTouches, MarkerAppears, wsl, files, orphans, history,
           IInv, TypeOK, CommandInv, TouchPending
    <2>3. OwnerInv'
      BY <1>2 DEF OrphanTouches, MarkerAppears, wsl, files, orphans, history,
           IInv, TypeOK, Owners, CommandInv, TouchPending, OwnerInv
    <2>4. ActionsStayInside'
      BY <1>2 DEF OrphanTouches, MarkerAppears, wsl, files, orphans, history,
           IInv, TypeOK, OwnerInv, ActionsStayInside
    <2>5. FileInv'
      BY <1>2 DEF OrphanTouches, MarkerAppears, wsl, files, orphans, history,
           IInv, TypeOK, FileInv
    <2>6. LeftoverInv'
      BY <1>2 DEF OrphanTouches, MarkerAppears, wsl, files, orphans, history,
           IInv, TypeOK, CommandInv, TouchPending, LeftoverInv,
           UnmarkedIsLeftover
    <2>. QED  BY <2>1, <2>2, <2>3, <2>4, <2>5, <2>6 DEF IInv
  <1>3. CASE OrphanDies
    <2>1. TypeOK'
      BY <1>3 DEF OrphanDies, wsl, files, orphans, history, IInv, TypeOK,
           Owners, Bytes, Codes
    <2>2. CommandInv' /\ OwnerInv' /\ ActionsStayInside'
      BY <1>3, CommandsAlone DEF OrphanDies, wsl, orphans, history,
           TouchPending, IInv, TypeOK
    <2>3. FileInv'
      BY <1>3 DEF OrphanDies, files, IInv, TypeOK, FileInv
    <2>4. LeftoverInv'
      BY <1>3 DEF OrphanDies, wsl, orphans, IInv, TypeOK, LeftoverInv,
           UnmarkedIsLeftover
    <2>. QED  BY <2>1, <2>2, <2>3, <2>4 DEF IInv
  <1>4. CASE RegisterForeign
    <2>1. TypeOK'
      <3>1. distro' \in Owners /\ marked' \in BOOLEAN
        BY <1>4 DEF RegisterForeign, wsl, files, orphans, history, IInv,
             TypeOK, Owners
      <3>2. /\ temporary' \in Bytes /\ published' \in Bytes /\ code' \in Codes
            /\ imports' \in Nat /\ touches' \in Nat /\ interrupted' \in Nat
        BY <1>4 DEF RegisterForeign, wsl, files, orphans, history, IInv,
             TypeOK, Bytes, Codes
      <3>3. /\ action' \in [Actions -> {"idle", "list", "marker", "exec"}]
            /\ overtaken' \subseteq Actions \cup {"touch"}
        BY <1>4 DEF RegisterForeign, wsl, files, orphans, history, IInv,
             TypeOK
      <3>4. mismarked' \in BOOLEAN
        BY <1>4 DEF RegisterForeign, wsl, files, orphans, history, IInv,
             TypeOK
      <3>. QED
        BY <1>4, <3>1, <3>2, <3>3, <3>4 DEF RegisterForeign, wsl, files,
             orphans, history, IInv, TypeOK
    <2>2. CommandInv'
      BY <1>4 DEF RegisterForeign, wsl, files, orphans, history, IInv, TypeOK,
           CommandInv, TouchPending
    <2>3. OwnerInv'
      BY <1>4 DEF RegisterForeign, wsl, files, orphans, history, IInv, TypeOK,
           Owners, CommandInv, TouchPending, OwnerInv
    <2>4. ActionsStayInside'
      BY <1>4 DEF RegisterForeign, wsl, files, orphans, history, IInv, TypeOK,
           OwnerInv, ActionsStayInside
    <2>5. FileInv'
      BY <1>4 DEF RegisterForeign, wsl, files, orphans, history, IInv, TypeOK,
           FileInv
    <2>6. LeftoverInv'
      BY <1>4 DEF RegisterForeign, wsl, files, orphans, history, IInv, TypeOK,
           CommandInv, TouchPending, LeftoverInv, UnmarkedIsLeftover
    <2>. QED  BY <2>1, <2>2, <2>3, <2>4, <2>5, <2>6 DEF IInv
  <1>5. CASE Unregister
    <2>1. TypeOK'
      <3>1. distro' \in Owners /\ marked' \in BOOLEAN
        BY <1>5 DEF Unregister, TouchPending, wsl, files, orphans, history,
             IInv, TypeOK, Owners
      <3>2. /\ temporary' \in Bytes /\ published' \in Bytes /\ code' \in Codes
            /\ imports' \in Nat /\ touches' \in Nat /\ interrupted' \in Nat
        BY <1>5 DEF Unregister, TouchPending, wsl, files, orphans, history,
             IInv, TypeOK, Bytes, Codes
      <3>3. /\ action' \in [Actions -> {"idle", "list", "marker", "exec"}]
            /\ overtaken' \subseteq Actions \cup {"touch"}
        BY <1>5 DEF Unregister, TouchPending, wsl, files, orphans, history,
             IInv, TypeOK
      <3>4. mismarked' \in BOOLEAN
        BY <1>5 DEF Unregister, TouchPending, wsl, files, orphans, history,
             IInv, TypeOK
      <3>. QED
        BY <1>5, <3>1, <3>2, <3>3, <3>4 DEF Unregister, TouchPending, wsl,
             files, orphans, history, IInv, TypeOK
    <2>2. CommandInv'
      BY <1>5 DEF Unregister, TouchPending, wsl, files, orphans, history,
           IInv, TypeOK, CommandInv, TouchPending
    <2>3. OwnerInv'
      BY <1>5 DEF Unregister, TouchPending, wsl, files, orphans, history,
           IInv, TypeOK, Owners, CommandInv, TouchPending, OwnerInv
    <2>4. ActionsStayInside'
      BY <1>5 DEF Unregister, TouchPending, wsl, files, orphans, history,
           IInv, TypeOK, OwnerInv, ActionsStayInside
    <2>5. FileInv'
      BY <1>5 DEF Unregister, TouchPending, wsl, files, orphans, history,
           IInv, TypeOK, FileInv
    <2>6. LeftoverInv'
      BY <1>5 DEF Unregister, TouchPending, wsl, files, orphans, history,
           IInv, TypeOK, CommandInv, TouchPending, LeftoverInv,
           UnmarkedIsLeftover
    <2>. QED  BY <2>1, <2>2, <2>3, <2>4, <2>5, <2>6 DEF IInv
    <1>. QED  BY <1>1, <1>2, <1>3, <1>4, <1>5 DEF Elsewhere

\* Every step preserves the invariant.
LEMMA NextIInv == IInv /\ [Next]_vars => IInv'
  <1>1. SUFFICES ASSUME IInv, [Next]_vars PROVE IInv'
    OBVIOUS
  <1>2. CASE UNCHANGED vars
    BY <1>1, <1>2 DEF vars, IInv, TypeOK, CommandInv, TouchPending, OwnerInv,
         FileInv, LeftoverInv, UnmarkedIsLeftover, ActionsStayInside
  <1>3. CASE Next
    BY <1>1, <1>3, PreparationKeepsIInv, ImportKeepsIInv, MarkKeepsIInv,
         GivingUpKeepsIInv, RunKeepsIInv, ElsewhereKeepsIInv DEF Next
  <1>. QED  BY <1>1, <1>2, <1>3

\* The distribution, the files and the commands agree in every reachable state.
THEOREM Invariance == Spec => []IInv
  <1>. QED  BY InitIInv, NextIInv, PTL DEF Spec

\* The marker gets into a distribution of somebody else only by a touch that
\* was overtaken between the import and its effect.
THEOREM OnlyOursIsMarked == Spec => []ForeignNeverMarked
  <1>1. IInv => ForeignNeverMarked
    BY DEF IInv, OwnerInv, ForeignNeverMarked
  <1>. QED  BY <1>1, Invariance, PTL

\* A checked action is executed in RedPath's marked distribution, unless that
\* was replaced after this action's own check or a touch had been overtaken.
THEOREM ActionsAreContained == Spec => []ActionsStayInside
  <1>1. IInv => ActionsStayInside
    BY DEF IInv
  <1>. QED  BY <1>1, Invariance, PTL

\* The artifact's name never stands for bytes that were not verified.
THEOREM PublicationIsVerified == Spec => []PublishedIsPinned
  <1>1. IInv => PublishedIsPinned
    BY DEF IInv, FileInv, PublishedIsPinned
  <1>. QED  BY <1>1, Invariance, PTL

\* Only an interrupted set-up leaves a distribution without its marker.
THEOREM LeftoversAreCounted == Spec => []UnmarkedIsLeftover
  <1>1. IInv => UnmarkedIsLeftover
    BY DEF IInv, LeftoverInv
  <1>. QED  BY <1>1, Invariance, PTL
-----------------------------------------------------------------------------
(* install_kali implements InstallerContract *)

\* An answer is one the contract allows.
LEMMA AnswerReturns ==
  ASSUME setup # "idle", setup' = "idle", cancelled' = cancelled,
         code' # "NONE", code' = "CANCELLED" => cancelled
  PROVE  Contract!ContractNext
  <1>1. /\ StageOf(code') \in Contract!InstallerStages
        /\ StageOf(code') = "cancelled" => cancelled
    BY DEF StageOf, Contract!InstallerStages
  <1>2. Contract!Return(StageOf(code'))
    BY <1>1 DEF Contract!Return
  <1>. QED  BY <1>1, <1>2 DEF Contract!ContractNext

\* A step of install_kali goes on or answers.
LEMMA SetupAnswers ==
  ASSUME Inspecting \/ Downloading \/ Importing \/ Marking \/ GiveUp
  PROVE  /\ setup # "idle" /\ cancelled' = cancelled
         /\ setup' # "idle" => code' = code
         /\ setup' = "idle" =>
              code' # "NONE" /\ (code' = "CANCELLED" => cancelled)
  <1>. USE DEF Answer, AnswerFailure
  <1>1. CASE Inspecting
    BY <1>1 DEF Inspecting, CancelledEarly, SetupWslFails, SetupLists,
         SetupMarkerFails, SetupReadsMarker
  <1>2. CASE Downloading
    BY <1>2 DEF Downloading, Fetch, FetchFails, Verify, Publish
  <1>3. CASE Importing
    BY <1>3 DEF Importing, CancelledBeforeImport,
         NotCancelledBeforeImport, ArtifactInvalid, ImportStarts,
         ImportRegisters, ImportRefused, ImportReturns
  <1>4. CASE Marking
    BY <1>4 DEF Marking, Touch, TouchFails, TouchReturns
  <1>5. CASE GiveUp
    BY <1>5 DEF GiveUp, Unfinished
  <1>. QED  BY <1>1, <1>2, <1>3, <1>4, <1>5

LEMMA NextRefines ==
  ASSUME [Next]_vars
  PROVE  [Contract!ContractNext]_(Contract!contract)
  <1>1. CASE Inspecting \/ Downloading \/ Importing \/ Marking \/ GiveUp
    <2>1. CASE setup' = "idle"
      BY <1>1, <2>1, SetupAnswers, AnswerReturns
    <2>2. CASE setup' # "idle"
      BY <1>1, <2>2, SetupAnswers DEF Contract!contract
    <2>. QED  BY <2>1, <2>2
  <1>2. CASE Install
    <2>1. Contract!Call
      BY <1>2 DEF Install, StageOf, Contract!Call
    <2>. QED  BY <2>1 DEF Contract!ContractNext
  <1>3. CASE Cancel
    <2>1. Contract!Cancel
      BY <1>3 DEF Cancel, Contract!Cancel
    <2>. QED  BY <2>1 DEF Contract!ContractNext
  <1>4. CASE Crash
    <2>1. Contract!Die
      BY <1>4 DEF Crash, StageOf, Contract!Die
    <2>. QED  BY <2>1 DEF Contract!ContractNext
  <1>5. CASE Running \/ Elsewhere \/ UNCHANGED vars
    <2>1. UNCHANGED <<setup, code, cancelled>>
      BY <1>5 DEF Running, Moves, Run, RunRefused, RunLists, RunReadsMarker, Exec,
           Elsewhere, OrphanImports, OrphanTouches, OrphanDies,
           RegisterForeign, Unregister, vars
    <2>. QED  BY <2>1 DEF Contract!contract
  <1>. QED  BY <1>1, <1>2, <1>3, <1>4, <1>5 DEF Next

\* install_kali keeps the promise its repair relies on (setup_api.py, _repair):
\* a download that fails, a command that is given up or refused and a marker
\* that cannot be set are no cancels unless this set-up was cancelled.
THEOREM Refinement == Spec => ImplementsContract
  <1>1. Init => Contract!ContractInit
    BY DEF Init, StageOf, Contract!ContractInit
  <1>2. [Next]_vars => [Contract!ContractNext]_(Contract!contract)
    BY NextRefines
  <1>. QED
    BY <1>1, <1>2, PTL DEF Spec, ImplementsContract, Contract!ContractSpec
=============================================================================
