--------------------------- MODULE EgressAllowlist ---------------------------
(***************************************************************************)
(* The approved-egress allowlist in a restricted-egress deployment: the    *)
(* approved_egress table, the allowfile written from it by sync_allowfile, *)
(* and the broker, which enforces whatever the allowfile holds when a      *)
(* CONNECT arrives.                                                        *)
(*                                                                         *)
(* add_host and remove_host commit the table and then rewrite the file:    *)
(* list_hosts, open the .tmp file, write it, rename it over the live file. *)
(* The event loop (POST /v1/egress, a license heartbeat) and thread-pool   *)
(* workers (DELETE /v1/egress, approve-egress) do this at the same time    *)
(* and share one .tmp name, so every file operation is a step and files    *)
(* are inodes: a writer keeps writing to the inode it opened wherever its  *)
(* name has gone.                                                          *)
(***************************************************************************)
EXTENDS Naturals, FiniteSets, FiniteSetsExt

CONSTANTS
  Threads,       \* the event-loop thread and the thread-pool workers
  Hosts,         \* host names, as numbers in their sort order
  HostBytes,     \* length of each host's line
  StartupHosts,  \* the sign-in hosts seed_oidc_egress approves at startup
  LicenseHosts,  \* the host seed_license_egress approves before a heartbeat
  Torn,          \* a line left over from a longer file cut in the middle
  Inodes,        \* enough file identities for every open file
  None,
  SyncMayFail    \* whether file operations may fail with OSError

ASSUME EgressAssumption ==
  /\ Hosts \subseteq Nat
  /\ HostBytes \in [Hosts -> Nat \ {0}]
  /\ StartupHosts \subseteq Hosts /\ LicenseHosts \subseteq Hosts
  /\ Torn \notin Hosts
  /\ None \notin Inodes
  /\ SyncMayFail \in BOOLEAN
  /\ Inodes # {}

VARIABLES
  approved,    \* table approved_egress
  disk,        \* the hosts in each file
  live,        \* inode of the allowfile, or None
  tmp,         \* inode of allowfile.tmp, or None
  pc,          \* where each thread is in its change
  again,       \* threads that will write the file once more
  listed,      \* what the thread's list_hosts returned
  fd,          \* the inode the thread has opened
  syncFailed,  \* history: the last synchronisation failed
  alone        \* history: the threads only whose change can be under way; {}
               \* once a change has overlapped another

vars == <<approved, disk, live, tmp, pc, again, listed, fd, syncFailed, alone>>

Lines == Hosts \cup {Torn}
PcValues == {"idle", "changed", "listed", "opened", "written"}

\* What the broker enforces: no allowfile means nothing is approved.
LiveHosts == IF live = None THEN {} ELSE disk[live]

Idle(t) == pc[t] = "idle"
Quiet == \A t \in Threads : Idle(t)
GoTo(t, there) == pc' = [pc EXCEPT ![t] = there]

\* sync_allowfile returns.
Return(t) ==
  /\ GoTo(t, IF t \in again THEN "changed" ELSE "idle")
  /\ again' = again \ {t}

-----------------------------------------------------------------------------
(* One buffered write at offset 0 of a file that already holds `old`.      *)

Bytes(S) == MapThenSumSet(LAMBDA h : HostBytes[h], S \ {Torn})
Offset(S, h) == Bytes({k \in S \ {Torn} : k < h})

\* The lines of `old` that start behind the new text survive it; a line the
\* new text ends in the middle of leaves a fragment.
Overwrite(old, new) ==
  LET end == Bytes(new)
  IN new \cup {h \in old \ {Torn} : Offset(old, h) >= end}
         \cup (IF \E h \in old \ {Torn} :
                    Offset(old, h) < end /\ end < Offset(old, h) + HostBytes[h]
               THEN {Torn} ELSE {})

-----------------------------------------------------------------------------
(* File identities.                                                        *)

\* Inodes reachable by a name or an open file.
InUse == ({live, tmp} \cup {fd[t] : t \in Threads}) \ {None}

\* A file that no name or open file reaches any more is gone.
Freed(files) == [i \in Inodes |-> IF i \in InUse' THEN files[i] ELSE {}]

\* A new file gets an identity that nothing refers to; which one is no matter.
Unused(i) == i = CHOOSE j \in Inodes : j \notin InUse

-----------------------------------------------------------------------------
\* create_app: the sign-in hosts are seeded and the file written before any
\* request is served.
Init ==
  /\ approved = StartupHosts
  /\ live = CHOOSE i \in Inodes : TRUE
  /\ disk = [i \in Inodes |-> IF i = live THEN StartupHosts ELSE {}]
  /\ tmp = None
  /\ pc = [t \in Threads |-> "idle"]
  /\ again = {}
  /\ listed = [t \in Threads |-> {}]
  /\ fd = [t \in Threads |-> None]
  /\ syncFailed = FALSE
  /\ alone = Threads

\* The committed change of the table that opens a call of add_host,
\* remove_host or sync_allowfile.
Change(t, hosts) ==
  /\ Idle(t)
  /\ approved' = hosts
  /\ GoTo(t, "changed")
  /\ alone' = IF \A u \in Threads : Idle(u) THEN {t} ELSE {}
  /\ UNCHANGED <<disk, live, tmp, listed, fd, syncFailed>>

\* An owner approves a host.
AddHost(t, h) == Change(t, approved \cup {h}) /\ UNCHANGED again

\* Mutant: a revocation does not rewrite the file.
RemoveHost_NoSync(t, h) ==
  /\ Idle(t)
  /\ approved' = approved \ {h}
  /\ UNCHANGED <<disk, live, tmp, pc, again, listed, fd, syncFailed, alone>>

\* An owner revokes a host.
RemoveHost(t, h) == Change(t, approved \ {h}) /\ UNCHANGED again

\* heartbeat_once approves the vendor's host before every heartbeat, and then
\* writes the file a second time.  Nothing in app/ schedules it; its documents
\* say daily.
SeedLicense(t, h) == Change(t, approved \cup {h}) /\ again' = again \cup {t}

\* Mutant: the writer waits for a host to list.
ListHosts_WaitsForHosts(t) ==
  /\ pc[t] = "changed"
  /\ approved # {}
  /\ listed' = [listed EXCEPT ![t] = approved]
  /\ GoTo(t, "listed")
  /\ UNCHANGED <<approved, disk, live, tmp, again, fd, syncFailed, alone>>

ListHosts(t) ==
  /\ pc[t] = "changed"
  /\ listed' = [listed EXCEPT ![t] = approved]
  /\ GoTo(t, "listed")
  /\ UNCHANGED <<approved, disk, live, tmp, again, fd, syncFailed, alone>>

\* Mutant: the live file is rewritten in place.
OpenTmp_InPlace(t) ==
  /\ pc[t] = "listed"
  /\ tmp' = live
  /\ fd' = [fd EXCEPT ![t] = live]
  /\ disk' = [disk EXCEPT ![live] = {}]
  /\ GoTo(t, "opened")
  /\ UNCHANGED <<approved, live, again, listed, syncFailed, alone>>

\* open(tmp, "w"): truncate the file of that name, or create it.
OpenTmp(t) ==
  /\ pc[t] = "listed"
  /\ \E i \in Inodes \ {live} :
       /\ IF tmp # None THEN i = tmp ELSE Unused(i)
       /\ tmp' = i
       /\ fd' = [fd EXCEPT ![t] = i]
       /\ disk' = [disk EXCEPT ![i] = {}]
  /\ GoTo(t, "opened")
  /\ UNCHANGED <<approved, live, again, listed, syncFailed, alone>>

\* The file is closed and the list goes out of scope.
Drop(t) ==
  /\ fd' = [fd EXCEPT ![t] = None]
  /\ listed' = [listed EXCEPT ![t] = {}]

\* The buffered lines reach the file when it is closed.
WriteTmp(t) ==
  /\ pc[t] = "opened"
  /\ Drop(t)
  /\ GoTo(t, "written")
  /\ UNCHANGED <<approved, live, tmp, again, syncFailed, alone>>
  /\ disk' = Freed([disk EXCEPT ![fd[t]] = Overwrite(@, listed[t])])

\* os.replace(tmp, path); when another thread has renamed the .tmp file away,
\* the FileNotFoundError is swallowed.
ReplaceLive(t) ==
  /\ pc[t] = "written"
  /\ IF tmp = None
     THEN syncFailed' = TRUE /\ UNCHANGED <<live, tmp>>
     ELSE live' = tmp /\ tmp' = None /\ syncFailed' = FALSE
  /\ Return(t)
  /\ UNCHANGED <<approved, listed, fd, alone>>
  /\ disk' = Freed(disk)

\* open or write raises OSError (disk full, permissions), which
\* sync_allowfile swallows; the table keeps the change.
SyncFails(t) ==
  /\ SyncMayFail
  /\ pc[t] \in {"listed", "opened"}
  /\ syncFailed' = TRUE
  /\ Drop(t)
  /\ Return(t)
  /\ UNCHANGED <<approved, live, tmp, alone>>
  /\ disk' = Freed(disk)

\* The process stops between any two steps and the container restarts it:
\* create_app seeds the sign-in hosts and writes the file again.
Restart ==
  /\ approved' = approved \cup StartupHosts
  /\ pc' = [t \in Threads |-> "idle"]
  /\ again' = {}
  /\ listed' = [t \in Threads |-> {}]
  /\ fd' = [t \in Threads |-> None]
  /\ \/ /\ \E i \in Inodes \ {live} :
             /\ Unused(i)
             /\ live' = i
             /\ tmp' = None
             /\ disk' = Freed([disk EXCEPT ![i] = approved'])
        /\ alone' = Threads
        /\ syncFailed' = FALSE
     \/ /\ SyncMayFail
        /\ UNCHANGED <<live, tmp>>
        /\ disk' = Freed(disk)
        /\ alone' = {}
        /\ syncFailed' = TRUE

Sync(t) == ListHosts(t) \/ OpenTmp(t) \/ WriteTmp(t) \/ ReplaceLive(t) \/ SyncFails(t)

Next ==
  \/ \E t \in Threads, h \in Hosts : AddHost(t, h) \/ RemoveHost(t, h)
  \/ \E t \in Threads, h \in LicenseHosts : SeedLicense(t, h)
  \/ \E t \in Threads : Sync(t)
  \/ Restart

Spec == Init /\ [][Next]_vars

\* A call in progress runs to its end; nobody has to call, and nothing has to
\* restart.
FairSpec == Spec /\ \A t \in Threads : WF_vars(Sync(t))

-----------------------------------------------------------------------------
(* Properties.                                                             *)

\* The types of the variables; once the program is up there is always a live
\* allowfile.
TypeOK ==
  /\ approved \subseteq Hosts
  /\ disk \in [Inodes -> SUBSET Lines]
  /\ live \in Inodes
  /\ tmp \in Inodes \cup {None}
  /\ pc \in [Threads -> PcValues]
  /\ again \subseteq {t \in Threads : ~Idle(t)}
  /\ listed \in [Threads -> SUBSET Hosts]
  /\ fd \in [Threads -> Inodes \cup {None}]
  /\ syncFailed \in BOOLEAN
  /\ alone \subseteq Threads

\* When no change is under way, the last change overlapped no other and its
\* write succeeded, the broker enforces exactly the table, whatever races,
\* failures and restarts came before: an undisturbed change repairs them.
BrokerReflectsTable == Quiet /\ ~syncFailed /\ alone # {} => LiveHosts = approved

\* The claim of sync_allowfile's comment, for overlapping changes too: the
\* broker always reflects the table once no change is under way.
AlwaysReflects == Quiet /\ ~syncFailed => LiveHosts = approved

\* The broker reads no file a thread is still writing, as long as changes do not
\* overlap: all threads share one .tmp file, and a rename can publish the file
\* that the other thread still holds open.
NoPartialFile == alone # {} => \A t \in Threads : fd[t] # live

\* A revoked host leaves the broker's file or is approved again, unless a race
\* or a failed write keeps it there.
RevocationReachesBroker ==
  \A h \in Hosts :
    h \notin approved ~> h \notin LiveHosts \/ h \in approved \/ syncFailed \/ alone = {}

\* Files and threads keep their types, and without overlapping changes the broker
\* never reads a file that is being written.
FilesSound == TypeOK /\ NoPartialFile
=============================================================================
