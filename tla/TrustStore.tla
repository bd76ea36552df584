------------------------------- MODULE TrustStore -------------------------------
(***************************************************************************)
(* The trust store of internal/trust/store.go: a map in memory under a     *)
(* read-write lock, and trust.yaml.  Several goroutines of the daemon use  *)
(* it at once: the enrollment handler, the mirror of the peer list, and    *)
(* the commands that remove a node or a trust entry.                       *)
(*                                                                         *)
(* A change is made under the lock and saved after the lock is released,   *)
(* by a Save that takes the lock again, for reading: other changes and     *)
(* other saves may come in between.                                        *)
(***************************************************************************)
CONSTANTS
    Task,         \* the goroutines
    Peer,         \* node IDs
    Fingerprint,  \* stands for the whole entry
    None          \* no entry

ASSUME NoneAssumption == None \notin Fingerprint

VARIABLES
    entries,  \* what is in memory
    file,     \* what is in trust.yaml
    task,     \* of each goroutine: how far, for which peer, with which list
    failed    \* the changes that were reported as not saved, since the last save

vars == <<entries, file, task, failed>>

Store == [Peer -> Fingerprint \union {None}]
Empty == [p \in Peer |-> None]

\* changed: not yet in Save.  saving: the lock is held for reading, and the
\* list that is about to be written is the one in memory.
Resting == [stage |-> "idle"]
TypeOK ==
    /\ entries \in Store /\ file \in Store
    /\ failed \subseteq Peer
    /\ DOMAIN task = Task
    /\ \A t \in Task :
          \/ task[t] = Resting
          \/ task[t] \in [stage : {"changed"}, peer : Peer]
          \/ task[t] \in [stage : {"saving"}, peer : Peer, list : {entries}]

Init ==
    /\ entries = Empty /\ file = Empty
    /\ task = [t \in Task |-> Resting]
    /\ failed = {}

\* Mutant of Lockable: Save holds the lock only while it copies the list.
Always == TRUE

\* Nobody reads, so the lock can be taken for writing.
Lockable == \A t \in Task : task[t].stage # "saving"

\* The entry of p is set or deleted, under the lock.
Changed(t, p, f) ==
    /\ task[t] = Resting /\ Lockable
    /\ entries' = [entries EXCEPT ![p] = f]
    /\ task' = [task EXCEPT ![t] = [stage |-> "changed", peer |-> p]]
    /\ UNCHANGED <<file, failed>>

\* An entry is added or replaced; one that is the same is saved once more.
Add(t, p) == \E f \in Fingerprint : Changed(t, p, f)

\* What is not there is neither removed nor saved.
Remove(t, p) == entries[p] # None /\ Changed(t, p, None)

\* The lock is taken for reading, beside other readers, and the list copied.
BeginSave(t) ==
    /\ task[t].stage = "changed"
    /\ task' = [task EXCEPT ![t] =
                   [stage |-> "saving", peer |-> task[t].peer, list |-> entries]]
    /\ UNCHANGED <<entries, file, failed>>

\* The new file replaces the old one, and the lock is released.
Save(t) ==
    /\ task[t].stage = "saving"
    /\ file' = task[t].list
    /\ failed' = {}
    /\ task' = [task EXCEPT ![t] = Resting]
    /\ UNCHANGED entries

\* The error is reported; what was changed stays in memory.
SaveFails(t) ==
    /\ task[t].stage = "saving"
    /\ failed' = failed \union {task[t].peer}
    /\ task' = [task EXCEPT ![t] = Resting]
    /\ UNCHANGED <<entries, file>>

\* The process ends at any moment, and Load reads the file.
Restart ==
    /\ entries' = file
    /\ task' = [t \in Task |-> Resting]
    /\ failed' = {}
    /\ UNCHANGED file

Next ==
    \/ \E t \in Task, p \in Peer : Add(t, p) \/ Remove(t, p)
    \/ \E t \in Task : BeginSave(t) \/ Save(t) \/ SaveFails(t)
    \/ Restart

Spec == Init /\ [][Next]_vars

-----------------------------------------------------------------------------
(* Properties. *)

\* A change that was reported as done is in the file, whatever other changes
\* and saves went on beside it: the file differs from memory only in what an
\* operation under way has changed, or one that reported that it could not
\* save (Add, Remove and Save; store.go:65-109).  So a restart loses nothing
\* that was reported as done, and brings nothing back that was removed.
DoneMeansSaved ==
    \A p \in Peer :
        entries[p] # file[p] =>
            p \in failed \/ \E t \in Task : task[t] # Resting /\ task[t].peer = p
=============================================================================
