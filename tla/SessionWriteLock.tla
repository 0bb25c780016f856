-------------------------- MODULE SessionWriteLock --------------------------
(***************************************************************************)
(* The lock file that keeps the writers of one file apart                  *)
(* (agents/session-write-lock.ts), and what they do under it: read the     *)
(* file, change it, write it back (agents/sandbox/registry.ts,             *)
(* config/sessions/store.ts).                                              *)
(*                                                                         *)
(* A caller is one call of acquireSessionWriteLock with its release.       *)
(* Callers share a process, and processes share the file system.  Every    *)
(* await is a place where others run: the lock file is created and then    *)
(* written, read and then removed, closed and then removed.                *)
(***************************************************************************)
EXTENDS Integers, FiniteSets

CONSTANTS
    Procs,      \* processes, the pids of the payloads
    Callers,    \* calls of acquireSessionWriteLock
    Proc,       \* Proc[c]: the process of c
    Parent,     \* Parent[c]: the caller under whose lock c runs, or None
    None

ASSUME LockAssumption ==
    /\ IsFiniteSet(Callers)
    /\ None \notin Callers \cup Procs
    /\ None \notin [by : Callers, count : Nat]
    /\ None \notin [by : Callers, written : BOOLEAN, old : BOOLEAN]
    /\ Proc \in [Callers -> Procs]
    /\ Parent \in [Callers -> Callers \cup {None}]
    /\ \A c \in Callers : Parent[c] # None => Proc[Parent[c]] = Proc[c] /\ Parent[Parent[c]] = None

VARIABLES
    reentrant,  \* do the callers allow re-entrance (a session), or not (the registry)?
    pc,         \* where each caller is
    token,      \* token[c]: the creator of the HeldLock that c has
    snap,       \* what each caller has read
    data,       \* the protected file: the callers whose change it has
    held,       \* held[p]: HELD_LOCKS of process p for this file
    removals,   \* processes whose watchdog is about to remove the lock file
    file,       \* the lock file
    alive,      \* processes that run
    broken      \* history: was a lock taken away from callers that use it?

vars == <<reentrant, pc, token, snap, data, held, removals, file, alive, broken>>

Active == {"open", "write", "read", "stale", "hold", "change", "release", "remove"}
Using == {"write", "hold", "change", "release"}

TypeOK ==
    /\ reentrant \in BOOLEAN /\ broken \in BOOLEAN
    /\ pc \in [Callers -> Active \cup {"idle", "done", "failed", "dead"}]
    /\ token \in [Callers -> Callers \cup {None}]
    /\ snap \in [Callers -> SUBSET Callers] /\ data \subseteq Callers
    /\ held \in [Procs -> [by : Callers, count : 1 .. Cardinality(Callers)] \cup {None}]
    /\ removals \subseteq Procs /\ alive \subseteq Procs
    /\ file \in [by : Callers, written : BOOLEAN, old : BOOLEAN] \cup {None}

Init ==
    /\ reentrant \in BOOLEAN
    /\ pc = [c \in Callers |-> "idle"]
    /\ token = [c \in Callers |-> None]
    /\ snap = [c \in Callers |-> {}] /\ data = {}
    /\ held = [p \in Procs |-> None]
    /\ removals = {} /\ file = None
    /\ alive = Procs
    /\ broken = FALSE

Goto(c, at) == pc' = [pc EXCEPT ![c] = at]
Users(l) == {c \in Callers : token[c] = l /\ pc[c] \in Using}

-----------------------------------------------------------------------------
(***************************************************************************)
(* The callers that allow re-entrance are run one after the other in their *)
(* process, but for one that runs under the lock of another.               *)
(***************************************************************************)
MayStart(c) ==
    /\ pc[c] = "idle" /\ Proc[c] \in alive
    /\ Parent[c] # None => reentrant /\ pc[Parent[c]] = "hold"
    /\ reentrant =>
          \A d \in Callers \ {c, Parent[c]} : Proc[d] = Proc[c] => pc[d] \notin Active

(***************************************************************************)
(* A lock that this process holds is shared, if the caller allows it.      *)
(***************************************************************************)
Acquire(c) ==
    /\ MayStart(c)
    /\ LET h == held[Proc[c]] IN
       IF reentrant /\ h # None
       THEN /\ held' = [held EXCEPT ![Proc[c]].count = @ + 1]
            /\ token' = [token EXCEPT ![c] = h.by]
            /\ Goto(c, "hold")
       ELSE Goto(c, "open") /\ UNCHANGED <<held, token>>
    /\ UNCHANGED <<reentrant, snap, data, removals, file, alive, broken>>

(***************************************************************************)
(* open with "wx": the file is created, empty, or exists.                  *)
(***************************************************************************)
OpenLock(c) ==
    /\ pc[c] = "open"
    /\ IF file = None
       THEN /\ file' = [by |-> c, written |-> FALSE, old |-> FALSE]
            /\ token' = [token EXCEPT ![c] = c]
            /\ Goto(c, "write")
       ELSE Goto(c, "read") /\ UNCHANGED <<file, token>>
    /\ UNCHANGED <<reentrant, snap, data, held, removals, alive, broken>>

(***************************************************************************)
(* The payload is written through the handle, which may be that of a file  *)
(* somebody has removed.                                                   *)
(***************************************************************************)
WritePayload(c) ==
    /\ pc[c] = "write"
    /\ file' = IF file # None /\ file.by = c THEN [file EXCEPT !.written = TRUE] ELSE file
    /\ held' = [held EXCEPT ![Proc[c]] = [by |-> c, count |-> 1]]
    /\ Goto(c, "hold")
    /\ UNCHANGED <<reentrant, token, snap, data, removals, alive, broken>>

(***************************************************************************)
(* readLockPayload and inspectLockPayload.  A file without a payload, or   *)
(* none at all, counts as stale like that of a dead process or an old one; *)
(* if the lock is not stale the caller waits and tries again.              *)
(***************************************************************************)
InspectLivePid ==               \* mutant: the pid of the payload is not looked up
    file = None \/ ~file.written \/ file.old

InspectLockPayload ==
    file = None \/ ~file.written \/ file.old \/ Proc[file.by] \notin alive

ReadPayload(c) ==
    /\ pc[c] = "read"
    /\ Goto(c, IF InspectLockPayload THEN "stale" ELSE "open")
    /\ UNCHANGED <<reentrant, token, snap, data, held, removals, file, alive, broken>>

(***************************************************************************)
(* The file that was found stale is removed, whichever is there by now.    *)
(* The lock may be taken from its users, or from one about to remove it.   *)
(* (cleanStaleLockFiles, which the gateway runs when it starts, is a       *)
(* caller that finds a file, reads and perhaps removes it, and gives up.)  *)
(***************************************************************************)
InUse == file # None /\ \E c \in Callers : token[c] = file.by /\ pc[c] \in Using \cup {"remove"}

RemoveStale(c) ==
    /\ pc[c] = "stale"
    /\ file' = None
    /\ broken' = (broken \/ InUse)
    /\ Goto(c, "open")
    /\ UNCHANGED <<reentrant, token, snap, data, held, removals, alive>>

TimesOut(c) ==
    /\ pc[c] = "open"
    /\ Goto(c, "failed")
    /\ UNCHANGED <<reentrant, token, snap, data, held, removals, file, alive, broken>>

-----------------------------------------------------------------------------
(***************************************************************************)
(* Under the lock: withRegistryMutation, updateSessionStore.               *)
(***************************************************************************)
ReadData(c) ==
    /\ pc[c] = "hold"
    /\ \A d \in Callers : Parent[d] = c => pc[d] \notin Active
    /\ snap' = [snap EXCEPT ![c] = data]
    /\ Goto(c, "change")
    /\ UNCHANGED <<reentrant, token, data, held, removals, file, alive, broken>>

WriteData(c) ==
    /\ pc[c] = "change"
    /\ data' = snap[c] \cup {c}
    /\ snap' = [snap EXCEPT ![c] = {}]
    /\ Goto(c, "release")
    /\ UNCHANGED <<reentrant, token, held, removals, file, alive, broken>>

(***************************************************************************)
(* releaseHeldLock, until it awaits the handle.  A lock that is no longer  *)
(* the one of HELD_LOCKS is left alone.                                    *)
(***************************************************************************)
ReleaseUncounted(c) ==          \* mutant: the first release of a shared lock lets it go
    /\ pc[c] = "release"
    /\ LET h == held[Proc[c]] IN
       IF h # None /\ h.by = token[c]
       THEN held' = [held EXCEPT ![Proc[c]] = None] /\ Goto(c, "remove")
       ELSE Goto(c, "done") /\ UNCHANGED held
    /\ UNCHANGED <<reentrant, token, snap, data, removals, file, alive, broken>>

ReleaseAny(c) ==                \* mutant: a release counts for whatever lock is held
    /\ pc[c] = "release"
    /\ LET h == held[Proc[c]] IN
       CASE h # None /\ h.count = 1 ->
              held' = [held EXCEPT ![Proc[c]] = None] /\ Goto(c, "remove")
         [] h # None /\ h.count > 1 ->
              held' = [held EXCEPT ![Proc[c]].count = @ - 1] /\ Goto(c, "done")
         [] OTHER -> Goto(c, "done") /\ UNCHANGED held
    /\ UNCHANGED <<reentrant, token, snap, data, removals, file, alive, broken>>

Release(c) ==
    /\ pc[c] = "release"
    /\ LET h == held[Proc[c]]
           mine == h # None /\ h.by = token[c]
       IN  CASE mine /\ h.count = 1 ->
                  held' = [held EXCEPT ![Proc[c]] = None] /\ Goto(c, "remove")
             [] mine /\ h.count > 1 ->
                  held' = [held EXCEPT ![Proc[c]].count = @ - 1] /\ Goto(c, "done")
             [] OTHER -> Goto(c, "done") /\ UNCHANGED held
    /\ UNCHANGED <<reentrant, token, snap, data, removals, file, alive, broken>>

(***************************************************************************)
(* The handle is closed and the file of that name removed.                 *)
(***************************************************************************)
RemoveOwn(c) ==
    /\ pc[c] = "remove"
    /\ file' = None
    /\ Goto(c, "done")
    /\ UNCHANGED <<reentrant, token, snap, data, held, removals, alive, broken>>

-----------------------------------------------------------------------------
(***************************************************************************)
(* Time passes: a lock is older than staleMs.  The watchdog lets go a lock *)
(* that was held longer than maxHoldMs.                                    *)
(***************************************************************************)
Ages ==
    /\ file # None /\ ~file.old
    /\ file' = [file EXCEPT !.old = TRUE]
    /\ UNCHANGED <<reentrant, pc, token, snap, data, held, removals, alive, broken>>

RunLockWatchdogCheck(p) ==
    /\ held[p] # None /\ p \notin removals
    /\ held' = [held EXCEPT ![p] = None]
    /\ removals' = removals \cup {p}
    /\ broken' = TRUE
    /\ UNCHANGED <<reentrant, pc, token, snap, data, file, alive>>

WatchdogRemoves(p) ==
    /\ p \in removals
    /\ removals' = removals \ {p}
    /\ file' = None
    /\ UNCHANGED <<reentrant, pc, token, snap, data, held, alive, broken>>

(***************************************************************************)
(* releaseAllLocksSync: on a signal others handle too, after which the     *)
(* process goes on, and when the process exits.  A crash releases nothing. *)
(***************************************************************************)
ReleaseAllLocksSync(p) ==
    /\ held[p] # None
    /\ held' = [held EXCEPT ![p] = None]
    /\ file' = None
    /\ broken' = TRUE
    /\ UNCHANGED <<reentrant, pc, token, snap, data, removals, alive>>

Dies(p) ==
    /\ p \in alive
    /\ alive' = alive \ {p}
    /\ pc' = [c \in Callers |-> IF Proc[c] = p /\ pc[c] \in Active \cup {"idle"} THEN "dead" ELSE pc[c]]
    /\ held' = [held EXCEPT ![p] = None]
    /\ removals' = removals \ {p}
    /\ \/ UNCHANGED file
       \/ held[p] # None /\ file' = None
    /\ UNCHANGED <<reentrant, token, snap, data, broken>>

CallerStep(c) ==
    \/ OpenLock(c)
    \/ WritePayload(c)
    \/ ReadPayload(c)
    \/ RemoveStale(c)
    \/ ReadData(c)
    \/ WriteData(c)
    \/ Release(c)
    \/ RemoveOwn(c)

Next ==
    \/ \E c \in Callers : Acquire(c) \/ CallerStep(c) \/ TimesOut(c)
    \/ \E p \in Procs :
          \/ RunLockWatchdogCheck(p)
          \/ WatchdogRemoves(p)
          \/ ReleaseAllLocksSync(p)
          \/ Dies(p)
    \/ Ages

(***************************************************************************)
(* Calls of the file system return, and timers fire.  That a lock grows    *)
(* old, or that a caller's time runs out, is not relied on.                *)
(***************************************************************************)
Fairness ==
    /\ \A c \in Callers : WF_vars(CallerStep(c))
    /\ \A p \in Procs : WF_vars(WatchdogRemoves(p))

Spec == Init /\ [][Next]_vars /\ Fairness

-----------------------------------------------------------------------------
(***************************************************************************)
(* The change of every caller that has written is in the file, as long as  *)
(* no lock was taken from a caller that uses it: by one that takes its     *)
(* file for stale, by the watchdog or by a signal.                         *)
(***************************************************************************)
UpdatesKept ==
    ~broken => \A c \in Callers : pc[c] \in {"release", "remove", "done"} => c \in data

(***************************************************************************)
(* A caller's step never lets go a lock that callers still use: its own    *)
(* before the last release, or, once the watchdog or a signal has taken    *)
(* its own, the one that another caller of the process has since created.  *)
(***************************************************************************)
HeldUntilLastRelease ==
    [][pc' # pc /\ alive' = alive =>
          \A p \in Procs :
              held[p] # None /\ held'[p] = None =>
                  \A c \in Callers : token'[c] = held[p].by => pc'[c] \notin Using]_vars

Waiting(c) == pc[c] \in {"open", "write", "read", "stale"}

(***************************************************************************)
(* A caller that wants the lock gets it, gives up or dies: a file left     *)
(* behind by a crash, or by any race of releases, blocks nobody for ever.  *)
(***************************************************************************)
LockIsObtained == \A c \in Callers : Waiting(c) ~> ~Waiting(c)
=============================================================================
