------------------------ MODULE EgressAllowlistProofs ------------------------
(***************************************************************************)
(* What the broker can rely on for any number of threads, hosts, failures  *)
(* and restarts: after a change that overlapped no other, the file is      *)
(* exactly the table, and it is never a file that is still being written.  *)
(* With a single thread the claim of sync_allowfile holds without reserve. *)
(***************************************************************************)
EXTENDS EgressAllowlist, TLAPS

\* Where an undisturbed change has got to.
StageOK(t) ==
  /\ pc[t] \in {"listed", "opened"} => listed[t] = approved
  /\ pc[t] = "opened" => fd[t] = tmp /\ tmp # None /\ disk[tmp] = {}
  /\ pc[t] = "written" => tmp # None /\ disk[tmp] = approved

\* Files open only while their thread writes them; .tmp is never the live file.
FilesOK ==
  /\ tmp # live
  /\ \A t \in Threads : fd[t] # None => pc[t] = "opened"

\* As long as `alone` is not empty, only its one thread can be in a change.
AloneOK ==
  alone # {} =>
    /\ \A t \in Threads : ~Idle(t) => alone = {t}
    /\ \A t \in Threads : StageOK(t)
    /\ Quiet /\ ~syncFailed => disk[live] = approved

LoneInv == TypeOK /\ FilesOK /\ AloneOK

\* Writing into an empty file leaves exactly what was written.
LEMMA OverwriteEmpty ==
  ASSUME NEW new
  PROVE  Overwrite({}, new) = new
BY DEF Overwrite

\* Nothing a step keeps or creates holds anything but lines.
LEMMA OverwriteLines ==
  ASSUME NEW old \in SUBSET Lines, NEW new \in SUBSET Hosts
  PROVE  Overwrite(old, new) \in SUBSET Lines
BY DEF Overwrite, Lines

\* The live file and the .tmp file keep their content when others are freed.
LEMMA FreedKeeps ==
  ASSUME EgressAssumption, NEW files \in [Inodes -> SUBSET Lines],
         live' \in Inodes, tmp' \in Inodes \cup {None}
  PROVE  /\ Freed(files) \in [Inodes -> SUBSET Lines]
         /\ Freed(files)[live'] = files[live']
         /\ tmp' # None => Freed(files)[tmp'] = files[tmp']
BY DEF Freed, InUse, EgressAssumption

LEMMA LoneInit == Init => LoneInv
<1> SUFFICES ASSUME Init PROVE LoneInv
  OBVIOUS
<1>1. live \in Inodes
  BY EgressAssumption DEF Init
<1> QED
  BY <1>1, EgressAssumption
     DEF Init, LoneInv, TypeOK, Lines, PcValues, FilesOK, AloneOK, StageOK, Quiet, Idle

LEMMA LoneStep == LoneInv /\ [Next]_vars => LoneInv'
<1> SUFFICES ASSUME LoneInv, [Next]_vars PROVE LoneInv'
  OBVIOUS
<1> USE EgressAssumption
<1>1. ASSUME NEW t \in Threads, NEW hosts \in SUBSET Hosts, Change(t, hosts),
             again' = again \/ again' = again \cup {t}
      PROVE  LoneInv'
  <2> USE <1>1 DEF Change, Idle, GoTo
  <2>1. TypeOK' /\ FilesOK'
    BY DEF LoneInv, TypeOK, FilesOK, PcValues
  <2>2. AloneOK'
    <3>1. CASE \A u \in Threads : Idle(u)
      BY <3>1 DEF LoneInv, TypeOK, AloneOK, StageOK, Quiet, PcValues, Idle
    <3>2. CASE ~\A u \in Threads : Idle(u)
      BY <3>2 DEF AloneOK
    <3> QED
      BY <3>1, <3>2
  <2> QED
    BY <2>1, <2>2 DEF LoneInv
<1>2. ASSUME NEW t \in Threads, ListHosts(t)
      PROVE  LoneInv'
  BY <1>2 DEF ListHosts, LoneInv, TypeOK, FilesOK, AloneOK, StageOK, Quiet, GoTo, PcValues, Idle
<1>3. ASSUME NEW t \in Threads, OpenTmp(t) PROVE LoneInv'
  <2>1. PICK i \in Inodes \ {live} :
          /\ tmp' = i /\ fd' = [fd EXCEPT ![t] = i] /\ disk' = [disk EXCEPT ![i] = {}]
    BY <1>3 DEF OpenTmp
  <2>2. pc[t] = "listed" /\ pc' = [pc EXCEPT ![t] = "opened"]
        /\ UNCHANGED <<approved, live, again, listed, syncFailed, alone>>
    BY <1>3 DEF OpenTmp, GoTo
  <2>3. TypeOK' /\ FilesOK'
    BY <2>1, <2>2 DEF LoneInv, TypeOK, FilesOK, PcValues, Idle, Lines
  <2>4. AloneOK'
    BY <2>1, <2>2, <2>3 DEF LoneInv, TypeOK, FilesOK, AloneOK, StageOK, Quiet, PcValues, Idle
  <2> QED
    BY <2>3, <2>4 DEF LoneInv
<1>4. ASSUME NEW t \in Threads, WriteTmp(t) PROVE LoneInv'
  <2> DEFINE files == [disk EXCEPT ![fd[t]] = Overwrite(disk[fd[t]], listed[t])]
  <2>1. /\ pc[t] = "opened" /\ pc' = [pc EXCEPT ![t] = "written"]
        /\ fd' = [fd EXCEPT ![t] = None] /\ listed' = [listed EXCEPT ![t] = {}]
        /\ disk' = Freed(files)
        /\ UNCHANGED <<approved, live, tmp, again, syncFailed, alone>>
    BY <1>4 DEF WriteTmp, Drop, GoTo
  <2>2. files \in [Inodes -> SUBSET Lines]
    BY OverwriteLines DEF LoneInv, TypeOK
  <2>3. /\ disk' \in [Inodes -> SUBSET Lines]
        /\ tmp # None => disk'[tmp] = files[tmp]
    BY <2>1, <2>2, FreedKeeps DEF LoneInv, TypeOK
  <2>4. TypeOK' /\ FilesOK'
    BY <2>1, <2>3 DEF LoneInv, TypeOK, FilesOK, PcValues, Idle
  <2>5. ASSUME alone # {}
        PROVE  /\ alone = {t} /\ tmp # None /\ disk'[tmp] = approved
    <3>1. alone = {t} /\ fd[t] = tmp /\ tmp # None /\ disk[tmp] = {} /\ listed[t] = approved
      BY <2>1, <2>5 DEF LoneInv, AloneOK, StageOK, Idle
    <3>2. files[tmp] = approved
      BY <3>1, OverwriteEmpty DEF LoneInv, TypeOK
    <3> QED
      BY <3>1, <3>2, <2>3
  <2>6. AloneOK'
    BY <2>1, <2>4, <2>5 DEF LoneInv, TypeOK, AloneOK, StageOK, Quiet, PcValues, Idle
  <2> QED
    BY <2>4, <2>6 DEF LoneInv
<1>5. ASSUME NEW t \in Threads, ReplaceLive(t) PROVE LoneInv'
  <2>1. /\ pc[t] = "written" /\ pc' = [pc EXCEPT ![t] = IF t \in again THEN "changed" ELSE "idle"]
        /\ again' = again \ {t}
        /\ disk' = Freed(disk)
        /\ UNCHANGED <<approved, listed, fd, alone>>
    BY <1>5 DEF ReplaceLive, Return, GoTo
  <2>2. \/ tmp = None /\ syncFailed' = TRUE /\ UNCHANGED <<live, tmp>>
        \/ tmp # None /\ live' = tmp /\ tmp' = None /\ syncFailed' = FALSE
    BY <1>5 DEF ReplaceLive
  <2>3. disk' \in [Inodes -> SUBSET Lines] /\ disk'[live'] = disk[live']
    BY <2>1, <2>2, FreedKeeps DEF LoneInv, TypeOK
  <2>4. TypeOK' /\ FilesOK'
    BY <2>1, <2>2, <2>3 DEF LoneInv, TypeOK, FilesOK, PcValues, Idle
  <2>5. AloneOK'
    BY <2>1, <2>2, <2>3 DEF LoneInv, TypeOK, AloneOK, StageOK, Quiet, PcValues, Idle
  <2> QED
    BY <2>4, <2>5 DEF LoneInv
<1>6. ASSUME NEW t \in Threads, SyncFails(t) PROVE LoneInv'
  <2>1. /\ pc[t] \in {"listed", "opened"} /\ again' = again \ {t}
        /\ pc' = [pc EXCEPT ![t] = IF t \in again THEN "changed" ELSE "idle"]
        /\ fd' = [fd EXCEPT ![t] = None] /\ listed' = [listed EXCEPT ![t] = {}]
        /\ disk' = Freed(disk) /\ syncFailed' = TRUE
        /\ UNCHANGED <<approved, live, tmp, alone>>
    BY <1>6 DEF SyncFails, Drop, Return, GoTo
  <2>2. disk' \in [Inodes -> SUBSET Lines]
    BY <2>1, FreedKeeps DEF LoneInv, TypeOK
  <2>3. TypeOK' /\ FilesOK'
    BY <2>1, <2>2 DEF LoneInv, TypeOK, FilesOK, PcValues, Idle
  <2>4. AloneOK'
    BY <2>1, <2>2 DEF LoneInv, TypeOK, AloneOK, StageOK, Quiet, PcValues, Idle
  <2> QED
    BY <2>3, <2>4 DEF LoneInv
<1>7. CASE Restart
  <2>1. /\ approved' = approved \cup StartupHosts
        /\ pc' = [u \in Threads |-> "idle"] /\ again' = {}
        /\ listed' = [u \in Threads |-> {}]
        /\ fd' = [u \in Threads |-> None]
    BY <1>7 DEF Restart
  <2>2. CASE UNCHANGED <<live, tmp>> /\ disk' = Freed(disk) /\ alone' = {} /\ syncFailed' = TRUE
    <3>1. disk' \in [Inodes -> SUBSET Lines]
      BY <2>2, FreedKeeps DEF LoneInv, TypeOK
    <3> QED
      BY <2>1, <2>2, <3>1 DEF LoneInv, TypeOK, FilesOK, AloneOK, PcValues, Idle
  <2>3. ASSUME NEW i \in Inodes \ {live}, live' = i, tmp' = None,
               disk' = Freed([disk EXCEPT ![i] = approved']), alone' = Threads,
               syncFailed' = FALSE
        PROVE  LoneInv'
    <3>1. [disk EXCEPT ![i] = approved'] \in [Inodes -> SUBSET Lines]
      BY <2>1 DEF LoneInv, TypeOK, Lines
    <3>2. disk' \in [Inodes -> SUBSET Lines] /\ disk'[live'] = approved'
      BY <2>3, <3>1, FreedKeeps DEF LoneInv, TypeOK
    <3> QED
      BY <2>1, <2>3, <3>2
         DEF LoneInv, TypeOK, FilesOK, AloneOK, StageOK, Quiet, PcValues, Idle
  <2> QED
    BY <1>7, <2>2, <2>3 DEF Restart
<1>8. CASE UNCHANGED vars
  BY <1>8 DEF vars, LoneInv, TypeOK, FilesOK, AloneOK, StageOK, Quiet, Idle
<1>9. ASSUME NEW t \in Threads, NEW h \in Hosts,
             AddHost(t, h) \/ RemoveHost(t, h) \/ SeedLicense(t, h)
      PROVE  LoneInv'
  <2>1. approved \cup {h} \in SUBSET Hosts /\ approved \ {h} \in SUBSET Hosts
    BY DEF LoneInv, TypeOK
  <2> QED
    BY <1>1, <1>9, <2>1 DEF AddHost, RemoveHost, SeedLicense
<1> QED
  BY <1>2, <1>3, <1>4, <1>5, <1>6, <1>7, <1>8, <1>9 DEF Next, Sync

LEMMA LoneInvAlways == Spec => []LoneInv
BY LoneInit, LoneStep, PTL DEF Spec

\* The state of the allowlist keeps its types.
THEOREM TypeCorrect == Spec => []TypeOK
<1>1. LoneInv => TypeOK
  BY DEF LoneInv
<1> QED
  BY <1>1, LoneInvAlways, PTL

\* The broker enforces exactly the table after every change that no other
\* change overlapped and whose write succeeded.
THEOREM BrokerFollowsTable == Spec => []BrokerReflectsTable
<1>1. LoneInv => BrokerReflectsTable
  BY EgressAssumption DEF LoneInv, TypeOK, AloneOK, BrokerReflectsTable, LiveHosts
<1> QED
  BY <1>1, LoneInvAlways, PTL

\* The broker reads no file that is still being written, as long as changes do
\* not overlap.
THEOREM BrokerReadsWholeFiles == Spec => []NoPartialFile
<1>1. LoneInv => NoPartialFile
  BY EgressAssumption DEF LoneInv, TypeOK, FilesOK, AloneOK, StageOK, NoPartialFile
<1> QED
  BY <1>1, LoneInvAlways, PTL

\* With one thread the broker always reflects the table between two changes,
\* unless the last write failed.
THEOREM OneThreadAlwaysReflects ==
  ASSUME NEW CONSTANT t, Threads = {t}
  PROVE  Spec => []AlwaysReflects
<1> DEFINE Undisturbed == alone = {} => Idle(t) /\ syncFailed
<1>1. Init => Undisturbed
  BY DEF Init
<1>2. Undisturbed /\ [Next]_vars => Undisturbed'
  <2> SUFFICES ASSUME Undisturbed, [Next]_vars PROVE Undisturbed'
    OBVIOUS
  <2>1. ASSUME NEW h, AddHost(t, h) \/ RemoveHost(t, h) \/ SeedLicense(t, h)
        PROVE  alone' = {t}
    BY <2>1 DEF AddHost, RemoveHost, SeedLicense, Change
  <2>2. CASE Sync(t)
    BY <2>2 DEF Sync, ListHosts, OpenTmp, WriteTmp, ReplaceLive, SyncFails, Idle
  <2>3. CASE Restart
    BY <2>3 DEF Restart, Idle
  <2>4. CASE UNCHANGED vars
    BY <2>4 DEF vars, Idle
  <2> QED
    BY <2>1, <2>2, <2>3, <2>4 DEF Next
<1>3. BrokerReflectsTable /\ Undisturbed => AlwaysReflects
  BY DEF BrokerReflectsTable, AlwaysReflects
<1> QED
  BY <1>1, <1>2, <1>3, BrokerFollowsTable, PTL DEF Spec

\* sync_allowfile: the files keep their types and none is read half written.
THEOREM FilesStaySound == Spec => []FilesSound
BY TypeCorrect, BrokerReadsWholeFiles, PTL DEF FilesSound
=============================================================================
