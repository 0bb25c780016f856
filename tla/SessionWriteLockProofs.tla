----------------------- MODULE SessionWriteLockProofs -----------------------
(***************************************************************************)
(* That a caller's release never lets go a lock that others still use, and *)
(* that no update is lost while no lock is taken from its users, for every *)
(* number of processes and callers.                                        *)
(***************************************************************************)
EXTENDS SessionWriteLock, FiniteSetTheorems, TLAPS

(***************************************************************************)
(* The types, without the bound on the count of a lock, which follows from *)
(* what it counts.                                                         *)
(***************************************************************************)
Locks == [by : Callers, count : Nat \ {0}]
Files == [by : Callers, written : BOOLEAN, old : BOOLEAN]
States == Active \cup {"idle", "done", "failed", "dead"}

Types ==
    /\ reentrant \in BOOLEAN /\ broken \in BOOLEAN
    /\ pc \in [Callers -> States]
    /\ token \in [Callers -> Callers \cup {None}]
    /\ snap \in [Callers -> SUBSET Callers] /\ data \subseteq Callers
    /\ held \in [Procs -> Locks \cup {None}]
    /\ removals \subseteq Procs /\ alive \subseteq Procs
    /\ file \in Files \cup {None}

(***************************************************************************)
(* The users of a lock when the callers are at these places with these     *)
(* locks, for now and for the next state.                                  *)
(***************************************************************************)
UsersIn(tok, at, l) == {c \in Callers : tok[c] = l /\ at[c] \in Using}

Holding == Using \cup {"remove"}
PastWrite == {"hold", "change", "release", "remove", "done", "dead"}

(***************************************************************************)
(* A caller with a lock has its creator, a caller of the same process,     *)
(* noted; only the creator itself is in the middle of writing its payload, *)
(* and what others share has been written.                                 *)
(***************************************************************************)
TokensOK ==
    \A c \in Callers :
        /\ pc[c] \in Holding => token[c] # None
        /\ pc[c] = "write" => token[c] = c
        /\ token[c] # None => Proc[token[c]] = Proc[c]
        /\ \A b \in Callers : b # c /\ token[c] = b => pc[b] \in PastWrite

(***************************************************************************)
(* The entry of HELD_LOCKS counts the callers that use the lock.           *)
(***************************************************************************)
HeldOK ==
    \A p \in Procs : held[p] # None =>
        /\ Proc[held[p].by] = p
        /\ pc[held[p].by] \in PastWrite
        /\ held[p].count = Cardinality(Users(held[p].by))

(***************************************************************************)
(* A caller that removes the file was the last user of its lock, and the   *)
(* lock is no longer in HELD_LOCKS.                                        *)
(***************************************************************************)
LastRemoves ==
    \A c \in Callers : pc[c] = "remove" =>
        /\ held[Proc[c]] # None => held[Proc[c]].by # token[c]
        /\ \A d \in Callers : d # c /\ token[d] = token[c] => pc[d] \notin Holding

LockInv == Types /\ TokensOK /\ HeldOK /\ LastRemoves

(***************************************************************************)
(* As long as no lock is taken from its users, the lock file is that of    *)
(* everybody who has a lock.                                               *)
(***************************************************************************)
FileIsTheirs ==
    ~broken => /\ removals = {}
               /\ \A c \in Callers : pc[c] \in Holding => file # None /\ file.by = token[c]

(***************************************************************************)
(* A lock is only shared where callers allow it; these run one at a time   *)
(* in a process, but for one under the lock of another that waits for it.  *)
(***************************************************************************)
SharedByParent ==
    \A c, d \in Callers : c # d =>
        /\ token[c] = d => reentrant
        /\ reentrant /\ Proc[c] = Proc[d] /\ pc[c] \in Active /\ pc[d] \in Active =>
              \/ Parent[c] = d /\ pc[d] = "hold"
              \/ Parent[d] = c /\ pc[c] = "hold"

(***************************************************************************)
(* What a caller has read is still in the file when it writes.             *)
(***************************************************************************)
SnapshotIsFresh ==
    ~broken => \A c \in Callers : pc[c] = "change" => snap[c] = data

IInv == LockInv /\ FileIsTheirs /\ SharedByParent /\ SnapshotIsFresh /\ UpdatesKept

-----------------------------------------------------------------------------
(***************************************************************************)
(* None is neither a lock nor a file.                                      *)
(***************************************************************************)
LEMMA NoneIsNothing == None \notin Locks /\ None \notin Files
  BY LockAssumption DEF Locks, Files

(***************************************************************************)
(* The users of a lock are finitely many.                                  *)
(***************************************************************************)
LEMMA UsersFinite ==
  ASSUME NEW l
  PROVE  /\ IsFiniteSet(UsersIn(token, pc, l)) /\ Cardinality(UsersIn(token, pc, l)) \in Nat
         /\ Cardinality(UsersIn(token, pc, l)) <= Cardinality(Callers)
         /\ Cardinality(Callers) \in Nat
  <1>1. UsersIn(token, pc, l) \in SUBSET Callers
    BY DEF UsersIn
  <1> QED
    BY <1>1, LockAssumption, FS_Subset, FS_CardinalityType

(***************************************************************************)
(* The invariant implies the type invariant.                               *)
(***************************************************************************)
LEMMA TypesBound == LockInv => TypeOK
  <1> SUFFICES ASSUME LockInv PROVE TypeOK
    OBVIOUS
  <1>1. ASSUME NEW p \in Procs, held[p] # None
        PROVE  held[p] \in [by : Callers, count : 1 .. Cardinality(Callers)]
    <2>1. held[p] \in Locks /\ held[p].count = Cardinality(UsersIn(token, pc, held[p].by))
      BY <1>1 DEF LockInv, Types, HeldOK, Users, UsersIn
    <2>2. held[p].count \in 1 .. Cardinality(Callers)
      BY <2>1, UsersFinite DEF Locks
    <2> QED
      BY <2>1, <2>2 DEF Locks
  <1>2. held \in [Procs -> [by : Callers, count : 1 .. Cardinality(Callers)] \cup {None}]
    BY <1>1 DEF LockInv, Types
  <1> QED
    BY <1>2 DEF LockInv, Types, TypeOK, States, Files

(***************************************************************************)
(* A step that moves one caller from place to place without taking, using  *)
(* or leaving a lock.                                                      *)
(***************************************************************************)
LEMMA JustMoves ==
  ASSUME LockInv, NEW c \in Callers, NEW at \in States, Goto(c, at), UNCHANGED <<token, held>>,
         pc[c] \in Using <=> at \in Using, at \notin {"write", "remove"},
         pc[c] \in PastWrite => at \in PastWrite
  PROVE  TokensOK' /\ HeldOK' /\ LastRemoves'
  <1>1. /\ pc \in [Callers -> States] /\ pc' = [pc EXCEPT ![c] = at]
        /\ pc'[c] = at /\ \A d \in Callers : d # c => pc'[d] = pc[d]
    BY DEF LockInv, Types, Goto
  <1>2. \A d \in Callers : /\ pc'[d] \in Using <=> pc[d] \in Using
                           /\ pc'[d] \in Holding => pc[d] \in Holding
                           /\ pc'[d] \in {"write", "remove"} => pc'[d] = pc[d]
                           /\ pc[d] \in PastWrite => pc'[d] \in PastWrite
    BY <1>1 DEF Holding, Using
  <1>3. TokensOK'
    BY <1>2 DEF LockInv, TokensOK
  <1>4. \A l : UsersIn(token', pc', l) = UsersIn(token, pc, l)
    BY <1>2 DEF UsersIn
  <1>5. HeldOK'
    <2> SUFFICES ASSUME NEW p \in Procs, held[p] # None
                 PROVE  /\ Proc[held[p].by] = p
                        /\ pc'[held[p].by] \in PastWrite
                        /\ held[p].count = Cardinality(UsersIn(token', pc', held[p].by))
      BY DEF HeldOK, Users, UsersIn
    <2>1. held[p] \in Locks
      BY DEF LockInv, Types
    <2> QED
      BY <1>2, <1>4, <2>1 DEF LockInv, HeldOK, Locks, Users, UsersIn
  <1>6. LastRemoves'
    BY <1>2 DEF LockInv, LastRemoves
  <1> QED
    BY <1>3, <1>5, <1>6

(***************************************************************************)
(* A lock of the process is shared: one user more, and one more counted.   *)
(***************************************************************************)
LEMMA SharesLock ==
  ASSUME LockInv, NEW c \in Callers, Acquire(c), reentrant, held[Proc[c]] # None
  PROVE  TokensOK' /\ HeldOK' /\ LastRemoves' /\ held' \in [Procs -> Locks \cup {None}]
  <1> DEFINE p == Proc[c]
             h == held[p]
             g == [h EXCEPT !.count = @ + 1]
  <1>1. /\ pc[c] = "idle" /\ p \in Procs
        /\ held' = [held EXCEPT ![p] = g]
        /\ token' = [token EXCEPT ![c] = h.by]
        /\ pc' = [pc EXCEPT ![c] = "hold"]
    BY LockAssumption DEF Acquire, MayStart, Goto, LockInv, Types
  <1>2. /\ h \in Locks /\ Proc[h.by] = p /\ pc[h.by] \in PastWrite /\ h.by \in Callers
        /\ h.count = Cardinality(UsersIn(token, pc, h.by)) /\ h.count \in Nat
    BY <1>1 DEF LockInv, Types, HeldOK, Locks, Users, UsersIn
  <1>3. g \in Locks /\ g.by = h.by /\ g.count = h.count + 1
    BY <1>2 DEF Locks
  <1> HIDE DEF g
  <1>4. /\ held' \in [Procs -> Locks \cup {None}] /\ held'[p] = g
        /\ \A q \in Procs : q # p => held'[q] = held[q]
    BY <1>1, <1>3 DEF LockInv, Types
  <1>5. /\ token'[c] = h.by /\ pc'[c] = "hold" /\ h.by # c
        /\ \A d \in Callers : d # c => token'[d] = token[d] /\ pc'[d] = pc[d]
    BY <1>1, <1>2 DEF LockInv, Types, PastWrite
  <1>6. TokensOK'
    BY <1>1, <1>2, <1>5, LockAssumption DEF LockInv, TokensOK, PastWrite, Holding, Using
  <1>7. /\ UsersIn(token', pc', h.by) = UsersIn(token, pc, h.by) \cup {c}
        /\ c \notin UsersIn(token, pc, h.by)
    BY <1>1, <1>5 DEF UsersIn, Using
  <1>8. \A l : l # h.by => UsersIn(token', pc', l) = UsersIn(token, pc, l)
    BY <1>1, <1>5 DEF UsersIn, Using
  <1>9. HeldOK'
    <2> SUFFICES ASSUME NEW q \in Procs, held'[q] # None
                 PROVE  /\ Proc[held'[q].by] = q
                        /\ pc'[held'[q].by] \in PastWrite
                        /\ held'[q].count = Cardinality(UsersIn(token', pc', held'[q].by))
      BY DEF HeldOK, Users, UsersIn
    <2>1. CASE q = p
      <3>1. Cardinality(UsersIn(token', pc', h.by)) = Cardinality(UsersIn(token, pc, h.by)) + 1
        BY <1>7, UsersFinite, FS_AddElement, Zenon
      <3> QED
        BY <1>2, <1>3, <1>4, <1>5, <2>1, <3>1 DEF PastWrite
    <2>2. CASE q # p
      <3>1. /\ held'[q] = held[q] /\ held[q] \in Locks /\ Proc[held[q].by] = q
            /\ pc[held[q].by] \in PastWrite /\ held[q].count = Cardinality(UsersIn(token, pc, held[q].by))
        BY <1>4, <2>2 DEF LockInv, Types, HeldOK, Users, UsersIn
      <3>2. held[q].by # h.by /\ held[q].by # c /\ held[q].by \in Callers
        BY <1>1, <1>2, <2>2, <3>1 DEF Locks
      <3>3. UsersIn(token', pc', held[q].by) = UsersIn(token, pc, held[q].by)
        BY <1>8, <3>2
      <3> QED
        BY <1>5, <3>1, <3>2, <3>3
    <2> QED
      BY <2>1, <2>2
  <1>10. LastRemoves'
    <2> SUFFICES ASSUME NEW d \in Callers, pc'[d] = "remove"
                 PROVE  /\ held'[Proc[d]] # None => held'[Proc[d]].by # token'[d]
                        /\ \A e \in Callers : e # d /\ token'[e] = token'[d] => pc'[e] \notin Holding
      BY DEF LastRemoves
    <2>1. d # c /\ pc[d] = "remove" /\ token'[d] = token[d] /\ Proc[d] \in Procs
      BY <1>5, LockAssumption
    <2>2. held[Proc[d]] # None => held[Proc[d]].by # token[d]
      BY <2>1 DEF LockInv, LastRemoves
    <2>3. held'[Proc[d]] # None => held'[Proc[d]].by # token'[d]
      BY <1>3, <1>4, <2>1, <2>2
    <2>4. token[d] # h.by
      <3>1. token[d] # None => Proc[token[d]] = Proc[d]
        BY DEF LockInv, TokensOK
      <3> QED
        BY <1>2, <2>2, <3>1, LockAssumption
    <2> QED
      BY <1>5, <2>1, <2>3, <2>4 DEF LockInv, LastRemoves
  <1> QED
    BY <1>4, <1>6, <1>9, <1>10

(***************************************************************************)
(* The lock file is created: nobody else has its creator noted yet.        *)
(***************************************************************************)
LEMMA CreatesLock ==
  ASSUME LockInv, NEW c \in Callers, pc[c] = "open", Goto(c, "write"),
         token' = [token EXCEPT ![c] = c], UNCHANGED held
  PROVE  TokensOK' /\ HeldOK' /\ LastRemoves'
  <1>1. /\ token'[c] = c /\ pc'[c] = "write"
        /\ \A d \in Callers : d # c => token'[d] = token[d] /\ pc'[d] = pc[d]
    BY DEF LockInv, Types, Goto
  <1>2. \A d \in Callers : d # c => token[d] # c
    BY DEF LockInv, TokensOK, PastWrite
  <1>3. TokensOK'
    BY <1>1, <1>2, LockAssumption DEF LockInv, TokensOK, PastWrite, Holding, Using
  <1>4. HeldOK'
    <2> SUFFICES ASSUME NEW q \in Procs, held[q] # None
                 PROVE  /\ Proc[held[q].by] = q
                        /\ pc'[held[q].by] \in PastWrite
                        /\ held[q].count = Cardinality(UsersIn(token', pc', held[q].by))
      BY DEF HeldOK, Users, UsersIn
    <2>1. /\ held[q] \in Locks /\ Proc[held[q].by] = q
          /\ pc[held[q].by] \in PastWrite /\ held[q].count = Cardinality(UsersIn(token, pc, held[q].by))
      BY DEF LockInv, Types, HeldOK, Users, UsersIn
    <2>2. held[q].by # c /\ held[q].by \in Callers
      BY <2>1 DEF Locks, PastWrite
    <2>3. UsersIn(token', pc', held[q].by) = UsersIn(token, pc, held[q].by)
      BY <1>1, <2>2 DEF UsersIn, Using
    <2> QED
      BY <1>1, <2>1, <2>2, <2>3
  <1>5. LastRemoves'
    <2> SUFFICES ASSUME NEW d \in Callers, pc'[d] = "remove"
                 PROVE  /\ held[Proc[d]] # None => held[Proc[d]].by # token'[d]
                        /\ \A e \in Callers : e # d /\ token'[e] = token'[d] => pc'[e] \notin Holding
      BY DEF LastRemoves
    <2>1. d # c /\ pc[d] = "remove" /\ token'[d] = token[d] /\ token[d] # c
      BY <1>1, <1>2
    <2> QED
      BY <1>1, <2>1 DEF LockInv, LastRemoves
  <1> QED
    BY <1>3, <1>4, <1>5

(***************************************************************************)
(* The payload is written and the lock entered in HELD_LOCKS, in place of  *)
(* whatever was there; its creator is its only user.                       *)
(***************************************************************************)
LEMMA EntersLock ==
  ASSUME LockInv, NEW c \in Callers, WritePayload(c)
  PROVE  TokensOK' /\ HeldOK' /\ LastRemoves' /\ held' \in [Procs -> Locks \cup {None}]
  <1> DEFINE p == Proc[c]
             g == [by |-> c, count |-> 1]
  <1>1. /\ pc[c] = "write" /\ token[c] = c /\ p \in Procs /\ token' = token
        /\ held' = [held EXCEPT ![p] = g] /\ pc' = [pc EXCEPT ![c] = "hold"]
    BY LockAssumption DEF WritePayload, Goto, LockInv, TokensOK
  <1>2. g \in Locks /\ g.by = c /\ g.count = 1
    BY DEF Locks
  <1> HIDE DEF g
  <1>3. /\ held' \in [Procs -> Locks \cup {None}] /\ held'[p] = g
        /\ \A q \in Procs : q # p => held'[q] = held[q]
    BY <1>1, <1>2 DEF LockInv, Types
  <1>4. pc'[c] = "hold" /\ \A d \in Callers : d # c => pc'[d] = pc[d]
    BY <1>1 DEF LockInv, Types
  <1>5. \A d \in Callers : d # c => token[d] # c
    BY <1>1 DEF LockInv, TokensOK, PastWrite
  <1>6. TokensOK'
    BY <1>1, <1>4, <1>5, LockAssumption DEF LockInv, TokensOK, PastWrite, Holding, Using
  <1>7. UsersIn(token', pc', c) = {c}
    BY <1>1, <1>4, <1>5 DEF UsersIn, Using
  <1>8. \A l : UsersIn(token', pc', l) = UsersIn(token, pc, l)
    BY <1>1, <1>4 DEF UsersIn, Using
  <1>9. HeldOK'
    <2> SUFFICES ASSUME NEW q \in Procs, held'[q] # None
                 PROVE  /\ Proc[held'[q].by] = q
                        /\ pc'[held'[q].by] \in PastWrite
                        /\ held'[q].count = Cardinality(UsersIn(token', pc', held'[q].by))
      BY DEF HeldOK, Users, UsersIn
    <2>1. CASE q = p
      <3>1. Cardinality(UsersIn(token', pc', c)) = 1
        BY <1>7, FS_Singleton
      <3> QED
        BY <1>2, <1>3, <1>4, <2>1, <3>1 DEF PastWrite
    <2>2. CASE q # p
      <3>1. /\ held'[q] = held[q] /\ held[q] \in Locks /\ Proc[held[q].by] = q
            /\ pc[held[q].by] \in PastWrite /\ held[q].count = Cardinality(UsersIn(token, pc, held[q].by))
        BY <1>3, <2>2 DEF LockInv, Types, HeldOK, Users, UsersIn
      <3>2. held[q].by # c /\ held[q].by \in Callers
        BY <2>2, <3>1 DEF Locks
      <3> QED
        BY <1>4, <1>8, <3>1, <3>2
    <2> QED
      BY <2>1, <2>2
  <1>10. LastRemoves'
    <2> SUFFICES ASSUME NEW d \in Callers, pc'[d] = "remove"
                 PROVE  /\ held'[Proc[d]] # None => held'[Proc[d]].by # token[d]
                        /\ \A e \in Callers : e # d /\ token[e] = token[d] => pc'[e] \notin Holding
      BY <1>1 DEF LastRemoves
    <2>1. d # c /\ pc[d] = "remove" /\ token[d] # c /\ Proc[d] \in Procs
      BY <1>4, <1>5, LockAssumption
    <2> QED
      BY <1>1, <1>2, <1>3, <1>4, <2>1 DEF LockInv, LastRemoves
  <1> QED
    BY <1>3, <1>6, <1>9, <1>10

(***************************************************************************)
(* releaseHeldLock: the count goes down with the users.  A lock is let go  *)
(* when its count is 1, that is when the caller was its last user.         *)
(***************************************************************************)
LetsGo(p) == held[p] # None /\ held'[p] = None

LEMMA ReleasesLock ==
  ASSUME LockInv, NEW c \in Callers, Release(c)
  PROVE  /\ TokensOK' /\ HeldOK' /\ LastRemoves'
         /\ pc' \in [Callers -> States] /\ held' \in [Procs -> Locks \cup {None}]
         /\ \A p \in Procs : LetsGo(p) => UsersIn(token', pc', held[p].by) = {}
  <1> DEFINE p == Proc[c]
             h == held[p]
             mine == h # None /\ h.by = token[c]
  <1>1. /\ pc[c] = "release" /\ p \in Procs /\ token' = token
        /\ token[c] # None /\ token[c] \in Callers /\ Proc[token[c]] = p
    BY LockAssumption DEF Release, LockInv, Types, TokensOK, Holding, Using
  <1>2. PICK at \in {"remove", "done"} : Goto(c, at)
    BY DEF Release, Goto
  <1>3. /\ pc' \in [Callers -> States] /\ pc'[c] = at
        /\ \A d \in Callers : d # c => pc'[d] = pc[d]
    BY <1>2 DEF LockInv, Types, Goto, States, Active
  <1>4. \A d \in Callers : /\ pc[d] \in PastWrite => pc'[d] \in PastWrite
                           /\ pc'[d] \in Holding => pc[d] \in Holding
    BY <1>1, <1>3 DEF PastWrite, Holding, Using
  <1>5. TokensOK'
    BY <1>1, <1>3, <1>4 DEF LockInv, TokensOK
  <1>6. /\ UsersIn(token', pc', token[c]) = UsersIn(token, pc, token[c]) \ {c}
        /\ c \in UsersIn(token, pc, token[c])
        /\ \A l : l # token[c] => UsersIn(token', pc', l) = UsersIn(token, pc, l)
    BY <1>1, <1>2, <1>3 DEF UsersIn, Using
  <1>7. /\ IsFiniteSet(UsersIn(token', pc', token[c]))
        /\ Cardinality(UsersIn(token', pc', token[c])) = Cardinality(UsersIn(token, pc, token[c])) - 1
    <2> DEFINE S == UsersIn(token, pc, token[c])
               T == UsersIn(token', pc', token[c])
    <2>1. IsFiniteSet(S) /\ T = S \ {c} /\ c \in S
      BY <1>6, UsersFinite
    <2> HIDE DEF S, T
    <2>2. IsFiniteSet(T) /\ Cardinality(T) = Cardinality(S) - 1
      BY <2>1, FS_RemoveElement
    <2> QED
      BY <2>2 DEF S, T
  <1>8. ASSUME NEW q \in Procs, held[q] # None
        PROVE  /\ held[q] \in Locks /\ held[q].by \in Callers /\ Proc[held[q].by] = q
               /\ held[q].count \in Nat \ {0}
               /\ pc'[held[q].by] \in PastWrite
               /\ held[q].count = Cardinality(UsersIn(token, pc, held[q].by))
               /\ q # p => held[q].by # token[c]
    BY <1>1, <1>4, <1>8 DEF LockInv, Types, HeldOK, Users, UsersIn, Locks
  <1>9. CASE mine /\ h.count = 1
    <2>1. at = "remove" /\ held' = [held EXCEPT ![p] = None]
      BY <1>1, <1>2, <1>9 DEF Release, Goto, LockInv, Types
    <2>2. /\ held' \in [Procs -> Locks \cup {None}] /\ held'[p] = None
          /\ \A q \in Procs : q # p => held'[q] = held[q]
      BY <1>1, <2>1 DEF LockInv, Types
    <2>3. UsersIn(token', pc', token[c]) = {}
      <3> DEFINE U == UsersIn(token', pc', token[c])
      <3>1. Cardinality(UsersIn(token, pc, token[c])) = 1
        BY <1>1, <1>8, <1>9
      <3>2. Cardinality(U) = 0
        BY <1>7, <3>1
      <3>3. IsFiniteSet(U)
        BY <1>7
      <3> HIDE DEF U
      <3>4. U = {}
        BY <3>2, <3>3, FS_EmptySet
      <3> QED
        BY <3>4 DEF U
    <2>4. HeldOK'
      <3> SUFFICES ASSUME NEW q \in Procs, held'[q] # None
                   PROVE  /\ Proc[held'[q].by] = q
                          /\ pc'[held'[q].by] \in PastWrite
                          /\ held'[q].count = Cardinality(UsersIn(token', pc', held'[q].by))
        BY DEF HeldOK, Users, UsersIn
      <3> QED
        BY <1>6, <1>8, <2>2
    <2>5. \A d \in Callers : d # c /\ token[d] = token[c] => pc'[d] \notin Holding
      <3> SUFFICES ASSUME NEW d \in Callers, d # c, token[d] = token[c], pc[d] = "remove"
                   PROVE  FALSE
        BY <1>1, <1>3, <2>3 DEF UsersIn, Holding
      <3>1. d \in Callers /\ Proc[d] = p
        BY <1>1 DEF LockInv, TokensOK
      <3> QED
        BY <1>9, <3>1 DEF LockInv, LastRemoves
    <2>6. LastRemoves'
      <3> SUFFICES ASSUME NEW d \in Callers, pc'[d] = "remove"
                   PROVE  /\ held'[Proc[d]] # None => held'[Proc[d]].by # token[d]
                          /\ \A e \in Callers : e # d /\ token[e] = token[d] => pc'[e] \notin Holding
        BY <1>1 DEF LastRemoves
      <3>1. CASE d = c
        BY <2>2, <2>5, <3>1
      <3>2. CASE d # c
        <4>1. pc[d] = "remove" /\ Proc[d] \in Procs
          BY <1>3, <3>2, LockAssumption
        <4> QED
          BY <1>4, <2>2, <4>1 DEF LockInv, LastRemoves
      <3> QED
        BY <3>1, <3>2
    <2>7. \A q \in Procs : LetsGo(q) => UsersIn(token', pc', held[q].by) = {}
      BY <1>9, <2>2, <2>3 DEF LetsGo
    <2> QED
      BY <1>3, <1>5, <2>2, <2>4, <2>6, <2>7
  <1>10. ASSUME at = "done", NEW g, held' = [held EXCEPT ![p] = g],
                g \in Locks \cup {None}, g = None <=> h = None,
                g # None => g.by = h.by,
                g # None => g.count = Cardinality(UsersIn(token', pc', h.by))
         PROVE  /\ HeldOK' /\ LastRemoves' /\ held' \in [Procs -> Locks \cup {None}]
                /\ \A q \in Procs : LetsGo(q) => UsersIn(token', pc', held[q].by) = {}
    <2>1. /\ held' \in [Procs -> Locks \cup {None}] /\ held'[p] = g
          /\ \A q \in Procs : q # p => held'[q] = held[q]
      BY <1>1, <1>10 DEF LockInv, Types
    <2>2. HeldOK'
      <3> SUFFICES ASSUME NEW q \in Procs, held'[q] # None
                   PROVE  /\ Proc[held'[q].by] = q
                          /\ pc'[held'[q].by] \in PastWrite
                          /\ held'[q].count = Cardinality(UsersIn(token', pc', held'[q].by))
        BY DEF HeldOK, Users, UsersIn
      <3>1. CASE q = p
        BY <1>1, <1>8, <1>10, <2>1, <3>1
      <3>2. CASE q # p
        BY <1>6, <1>8, <2>1, <3>2
      <3> QED
        BY <3>1, <3>2
    <2>3. LastRemoves'
      <3> SUFFICES ASSUME NEW d \in Callers, pc'[d] = "remove"
                   PROVE  /\ held'[Proc[d]] # None => held'[Proc[d]].by # token[d]
                          /\ \A e \in Callers : e # d /\ token[e] = token[d] => pc'[e] \notin Holding
        BY <1>1 DEF LastRemoves
      <3>1. d # c /\ pc[d] = "remove" /\ Proc[d] \in Procs
        BY <1>3, <1>10, LockAssumption
      <3> QED
        BY <1>4, <1>10, <2>1, <3>1 DEF LockInv, LastRemoves
    <2>4. \A q \in Procs : ~LetsGo(q)
      BY <1>10, <2>1 DEF LetsGo
    <2> QED
      BY <2>1, <2>2, <2>3, <2>4
  <1>11. CASE mine /\ h.count > 1
    <2> DEFINE g == [h EXCEPT !.count = @ - 1]
    <2>1. at = "done" /\ held' = [held EXCEPT ![p] = g]
      BY <1>1, <1>2, <1>11 DEF Release, Goto, LockInv, Types
    <2>2. g \in Locks /\ g.by = h.by /\ g.count = h.count - 1 /\ g # None /\ h # None
      BY <1>1, <1>8, <1>11, NoneIsNothing DEF Locks
    <2>3. g.count = Cardinality(UsersIn(token', pc', h.by))
      BY <1>1, <1>7, <1>8, <1>11, <2>2
    <2> HIDE DEF g
    <2> QED
      BY <1>3, <1>5, <1>10, <2>1, <2>2, <2>3
  <1>12. CASE ~mine
    <2>1. at = "done" /\ held' = held
      BY <1>1, <1>2, <1>12 DEF Release, Goto, LockInv, Types
    <2>2. held' = [held EXCEPT ![p] = h] /\ h \in Locks \cup {None}
      BY <1>1, <2>1 DEF LockInv, Types
    <2>3. h # None => h.count = Cardinality(UsersIn(token', pc', h.by))
      BY <1>1, <1>6, <1>8, <1>12
    <2> QED
      BY <1>3, <1>5, <1>10, <2>1, <2>2, <2>3
  <1>13. mine => h.count = 1 \/ h.count > 1
    BY <1>1, <1>8
  <1> QED
    BY <1>9, <1>11, <1>12, <1>13

(***************************************************************************)
(* The watchdog, or a signal, takes the entry of a process: nothing else   *)
(* counts on it.                                                           *)
(***************************************************************************)
LEMMA LosesLock ==
  ASSUME LockInv, NEW p \in Procs, held' = [held EXCEPT ![p] = None], UNCHANGED <<pc, token>>
  PROVE  TokensOK' /\ HeldOK' /\ LastRemoves' /\ held' \in [Procs -> Locks \cup {None}]
  <1>1. /\ held' \in [Procs -> Locks \cup {None}] /\ held'[p] = None
        /\ \A q \in Procs : q # p => held'[q] = held[q]
    BY DEF LockInv, Types
  <1>2. TokensOK'
    BY DEF LockInv, TokensOK
  <1>3. HeldOK'
    BY <1>1 DEF LockInv, HeldOK, Users
  <1>4. LastRemoves'
    BY <1>1, LockAssumption DEF LockInv, LastRemoves
  <1> QED
    BY <1>1, <1>2, <1>3, <1>4

(***************************************************************************)
(* A process that dies takes the users of its own lock with it, and leaves *)
(* those of the others alone.                                              *)
(***************************************************************************)
LEMMA LosesProcess ==
  ASSUME LockInv, NEW p \in Procs, Dies(p)
  PROVE  /\ TokensOK' /\ HeldOK' /\ LastRemoves'
         /\ pc' \in [Callers -> States] /\ held' \in [Procs -> Locks \cup {None}]
  <1>1. /\ held' \in [Procs -> Locks \cup {None}] /\ held'[p] = None
        /\ \A q \in Procs : q # p => held'[q] = held[q]
    BY DEF LockInv, Types, Dies
  <1>2. /\ pc' \in [Callers -> States] /\ token' = token
        /\ \A d \in Callers : /\ pc'[d] = pc[d] \/ pc'[d] = "dead"
                              /\ Proc[d] # p => pc'[d] = pc[d]
                              /\ pc[d] \in PastWrite => pc'[d] \in PastWrite
    BY DEF LockInv, Types, Dies, States, Active, PastWrite
  <1>3. TokensOK'
    BY <1>2 DEF LockInv, TokensOK, Holding, Using
  <1>4. HeldOK'
    <2> SUFFICES ASSUME NEW q \in Procs, held'[q] # None
                 PROVE  /\ Proc[held'[q].by] = q
                        /\ pc'[held'[q].by] \in PastWrite
                        /\ held'[q].count = Cardinality(UsersIn(token', pc', held'[q].by))
      BY DEF HeldOK, Users, UsersIn
    <2>1. /\ q # p /\ held'[q] = held[q] /\ held[q].by \in Callers /\ Proc[held[q].by] = q
          /\ pc[held[q].by] \in PastWrite /\ held[q].count = Cardinality(UsersIn(token, pc, held[q].by))
      BY <1>1 DEF LockInv, Types, HeldOK, Locks, Users, UsersIn
    <2>2. held[q].by # None
      BY <2>1, LockAssumption
    <2>3. \A d \in Callers : token[d] = held[q].by => Proc[d] = q
      BY <2>1, <2>2 DEF LockInv, TokensOK
    <2>4. UsersIn(token', pc', held[q].by) = UsersIn(token, pc, held[q].by)
      BY <1>2, <2>1, <2>3 DEF UsersIn
    <2> QED
      BY <1>2, <2>1, <2>4
  <1>5. LastRemoves'
    BY <1>1, <1>2, LockAssumption DEF LockInv, LastRemoves, Holding, Using
  <1> QED
    BY <1>1, <1>2, <1>3, <1>4, <1>5

(***************************************************************************)
(* Initially nobody has a lock.                                            *)
(***************************************************************************)
LEMMA LockInit == Init => LockInv
  <1> SUFFICES ASSUME Init PROVE LockInv
    OBVIOUS
  <1>1. Types
    BY DEF Init, Types, States
  <1>2. TokensOK
    BY LockAssumption DEF Init, TokensOK, Holding, Using
  <1>3. HeldOK /\ LastRemoves
    BY DEF Init, HeldOK, LastRemoves
  <1> QED
    BY <1>1, <1>2, <1>3 DEF LockInv

(***************************************************************************)
(* No step breaks the counting of the locks.                               *)
(***************************************************************************)
LEMMA LockStep == LockInv /\ [Next]_vars => LockInv'
  <1> SUFFICES ASSUME LockInv, [Next]_vars PROVE LockInv'
    OBVIOUS
  <1>1. CASE UNCHANGED vars
    BY <1>1 DEF vars, LockInv, Types, TokensOK, HeldOK, LastRemoves, Users
  <1>2. ASSUME NEW c \in Callers, Acquire(c)
        PROVE  LockInv'
    <2>1. CASE reentrant /\ held[Proc[c]] # None
      <3>1. TokensOK' /\ HeldOK' /\ LastRemoves' /\ held' \in [Procs -> Locks \cup {None}]
        BY <1>2, <2>1, SharesLock
      <3>2. held[Proc[c]].by \in Callers
        BY <2>1, LockAssumption DEF LockInv, Types, Locks
      <3>3. pc' \in [Callers -> States] /\ token' \in [Callers -> Callers \cup {None}]
        BY <1>2, <2>1, <3>2 DEF Acquire, Goto, LockInv, Types, States, Active
      <3> QED
        BY <1>2, <3>1, <3>3 DEF Acquire, LockInv, Types
    <2>2. CASE ~(reentrant /\ held[Proc[c]] # None)
      <3>1. Goto(c, "open") /\ UNCHANGED <<token, held>> /\ pc[c] = "idle"
        BY <1>2, <2>2 DEF Acquire, MayStart
      <3>2. TokensOK' /\ HeldOK' /\ LastRemoves'
        BY <3>1, JustMoves DEF States, Active, Using, PastWrite
      <3>3. Types'
        BY <1>2, <3>1 DEF Acquire, Goto, LockInv, Types, States, Active
      <3> QED
        BY <3>2, <3>3 DEF LockInv
    <2> QED
      BY <2>1, <2>2
  <1>3. ASSUME NEW c \in Callers, OpenLock(c)
        PROVE  LockInv'
    <2>1. CASE file = None
      <3> DEFINE f == [by |-> c, written |-> FALSE, old |-> FALSE]
      <3>1. f \in Files
        BY DEF Files
      <3>2. file' = f
        BY <1>3, <2>1 DEF OpenLock
      <3> HIDE DEF f
      <3>3. /\ pc[c] = "open" /\ Goto(c, "write") /\ token' = [token EXCEPT ![c] = c] /\ UNCHANGED held
        BY <1>3, <2>1 DEF OpenLock
      <3>4. TokensOK' /\ HeldOK' /\ LastRemoves'
        BY <3>3, CreatesLock
      <3>5. pc' \in [Callers -> States] /\ token' \in [Callers -> Callers \cup {None}]
        BY <3>3 DEF Goto, LockInv, Types, States, Active
      <3> QED
        BY <1>3, <3>1, <3>2, <3>4, <3>5 DEF OpenLock, LockInv, Types
    <2>2. CASE file # None
      <3>1. Goto(c, "read") /\ UNCHANGED <<token, held>> /\ pc[c] = "open"
        BY <1>3, <2>2 DEF OpenLock
      <3>2. TokensOK' /\ HeldOK' /\ LastRemoves'
        BY <3>1, JustMoves DEF States, Active, Using, PastWrite
      <3>3. Types'
        BY <1>3, <2>2, <3>1 DEF OpenLock, Goto, LockInv, Types, States, Active
      <3> QED
        BY <3>2, <3>3 DEF LockInv
    <2> QED
      BY <2>1, <2>2
  <1>4. ASSUME NEW c \in Callers, WritePayload(c)
        PROVE  LockInv'
    <2>1. TokensOK' /\ HeldOK' /\ LastRemoves' /\ held' \in [Procs -> Locks \cup {None}]
      BY <1>4, EntersLock
    <2>2. file' \in Files \cup {None}
      BY <1>4 DEF WritePayload, LockInv, Types, Files
    <2>3. pc' \in [Callers -> States]
      BY <1>4 DEF WritePayload, Goto, LockInv, Types, States, Active
    <2> QED
      BY <1>4, <2>1, <2>2, <2>3 DEF WritePayload, LockInv, Types
  <1>5. ASSUME NEW c \in Callers, ReadPayload(c) \/ RemoveStale(c) \/ TimesOut(c)
        PROVE  LockInv'
    <2>1. PICK at \in {"stale", "open", "failed"} : Goto(c, at)
      BY <1>5 DEF ReadPayload, RemoveStale, TimesOut
    <2>2. pc[c] \in {"read", "stale", "open"} /\ UNCHANGED <<token, held>>
      BY <1>5 DEF ReadPayload, RemoveStale, TimesOut
    <2>3. TokensOK' /\ HeldOK' /\ LastRemoves'
      BY <2>1, <2>2, JustMoves DEF States, Active, Using, PastWrite
    <2>4. pc' \in [Callers -> States]
      BY <2>1 DEF Goto, LockInv, Types, States, Active
    <2>5. broken' \in BOOLEAN /\ file' \in Files \cup {None}
      BY <1>5 DEF ReadPayload, RemoveStale, TimesOut, InUse, LockInv, Types
    <2> QED
      BY <1>5, <2>2, <2>3, <2>4, <2>5 DEF ReadPayload, RemoveStale, TimesOut, LockInv, Types
  <1>6. ASSUME NEW c \in Callers, ReadData(c) \/ WriteData(c) \/ RemoveOwn(c)
        PROVE  LockInv'
    <2>1. PICK at \in {"change", "release", "done"} : Goto(c, at) /\ (at = "done" <=> pc[c] = "remove")
      BY <1>6 DEF ReadData, WriteData, RemoveOwn
    <2>2. pc[c] \in {"hold", "change", "remove"} /\ UNCHANGED <<token, held>>
      BY <1>6 DEF ReadData, WriteData, RemoveOwn
    <2>3. TokensOK' /\ HeldOK' /\ LastRemoves'
      BY <2>1, <2>2, JustMoves DEF States, Active, Using, PastWrite
    <2>4. pc' \in [Callers -> States]
      BY <2>1 DEF Goto, LockInv, Types, States, Active
    <2>5. snap' \in [Callers -> SUBSET Callers] /\ data' \subseteq Callers /\ file' \in Files \cup {None}
      BY <1>6 DEF ReadData, WriteData, RemoveOwn, LockInv, Types
    <2> QED
      BY <1>6, <2>2, <2>3, <2>4, <2>5 DEF ReadData, WriteData, RemoveOwn, LockInv, Types
  <1>7. ASSUME NEW c \in Callers, Release(c)
        PROVE  LockInv'
    BY <1>7, ReleasesLock DEF Release, LockInv, Types
  <1>8. ASSUME NEW p \in Procs, RunLockWatchdogCheck(p) \/ ReleaseAllLocksSync(p)
        PROVE  LockInv'
    <2>1. TokensOK' /\ HeldOK' /\ LastRemoves' /\ held' \in [Procs -> Locks \cup {None}]
      BY <1>8, LosesLock DEF RunLockWatchdogCheck, ReleaseAllLocksSync
    <2> QED
      BY <1>8, <2>1 DEF RunLockWatchdogCheck, ReleaseAllLocksSync, LockInv, Types
  <1>9. ASSUME NEW p \in Procs, Dies(p)
        PROVE  LockInv'
    BY <1>9, LosesProcess DEF Dies, LockInv, Types
  <1>10. CASE Ages \/ \E p \in Procs : WatchdogRemoves(p)
    <2>1. UNCHANGED <<reentrant, pc, token, snap, data, held, alive, broken>>
      BY <1>10 DEF Ages, WatchdogRemoves
    <2>2. file' \in Files \cup {None} /\ removals' \subseteq Procs
      BY <1>10 DEF Ages, WatchdogRemoves, LockInv, Types, Files
    <2> QED
      BY <2>1, <2>2 DEF LockInv, Types, TokensOK, HeldOK, LastRemoves, Users
  <1> QED
    BY <1>1, <1>2, <1>3, <1>4, <1>5, <1>6, <1>7, <1>8, <1>9, <1>10 DEF Next, CallerStep

(***************************************************************************)
(* The locks are counted right in every reachable state.                   *)
(***************************************************************************)
LEMMA LockAlways == Spec => []LockInv
  BY LockInit, LockStep, PTL DEF Spec

(***************************************************************************)
(* Every variable keeps its type; in particular the count of a lock never  *)
(* leaves 1 .. the number of callers.                                      *)
(***************************************************************************)
THEOREM TypeCorrect == Spec => []TypeOK
  BY LockAlways, TypesBound, PTL

(***************************************************************************)
(* A step of a caller that takes the entry of a process out of HELD_LOCKS  *)
(* is the release of the last user.                                        *)
(***************************************************************************)
LEMMA LastReleaseStep ==
  ASSUME LockInv, LockInv', Next, pc' # pc, alive' = alive, NEW p \in Procs, LetsGo(p)
  PROVE  UsersIn(token', pc', held[p].by) = {}
  <1>1. held' # held
    BY DEF LetsGo
  <1>2. ASSUME NEW c \in Callers, Acquire(c)
        PROVE  FALSE
    <2>1. reentrant /\ held[Proc[c]] # None
      BY <1>1, <1>2 DEF Acquire
    <2> DEFINE g == [held[Proc[c]] EXCEPT !.count = @ + 1]
    <2>2. Proc[c] \in Procs /\ held[Proc[c]] \in Locks
      BY <2>1, LockAssumption DEF LockInv, Types
    <2>3. held' = [held EXCEPT ![Proc[c]] = g]
      BY <1>2, <2>1, <2>2 DEF Acquire, LockInv, Types
    <2>4. g \in Locks
      BY <2>2 DEF Locks
    <2> HIDE DEF g
    <2> QED
      BY <2>2, <2>3, <2>4, NoneIsNothing DEF LetsGo, LockInv, Types
  <1>3. ASSUME NEW c \in Callers, WritePayload(c)
        PROVE  FALSE
    <2> DEFINE g == [by |-> c, count |-> 1]
    <2>1. g \in Locks /\ held' = [held EXCEPT ![Proc[c]] = g]
      BY <1>3 DEF WritePayload, Locks
    <2> HIDE DEF g
    <2> QED
      BY <2>1, NoneIsNothing, LockAssumption DEF LetsGo, LockInv, Types
  <1>4. ASSUME NEW c \in Callers, Release(c)
        PROVE  UsersIn(token', pc', held[p].by) = {}
    BY <1>4, ReleasesLock
  <1>5. ASSUME NEW q \in Procs, Dies(q)
        PROVE  FALSE
    BY <1>5 DEF Dies
  <1> QED
    BY <1>1, <1>2, <1>3, <1>4, <1>5
       DEF Next, CallerStep, OpenLock, ReadPayload, RemoveStale, TimesOut, ReadData, WriteData,
           RemoveOwn, Ages, RunLockWatchdogCheck, WatchdogRemoves, ReleaseAllLocksSync

(***************************************************************************)
(* releaseHeldLock never lets go a lock that callers still use, whatever   *)
(* watchdogs, signals and other callers have done to it in between.        *)
(***************************************************************************)
THEOREM SharedLockIsKept == Spec => HeldUntilLastRelease
  <1>1. LockInv /\ LockInv' /\ [Next]_vars =>
          [pc' # pc /\ alive' = alive =>
              \A p \in Procs :
                  held[p] # None /\ held'[p] = None =>
                      \A c \in Callers : token'[c] = held[p].by => pc'[c] \notin Using]_vars
    <2> SUFFICES ASSUME LockInv, LockInv', Next, pc' # pc, alive' = alive,
                        NEW p \in Procs, held[p] # None, held'[p] = None,
                        NEW c \in Callers, token'[c] = held[p].by
                 PROVE  pc'[c] \notin Using
      BY DEF vars
    <2>1. UsersIn(token', pc', held[p].by) = {}
      BY LastReleaseStep DEF LetsGo
    <2> QED
      BY <2>1 DEF UsersIn
  <1> QED
    BY <1>1, LockAlways, PTL DEF HeldUntilLastRelease, Spec

-----------------------------------------------------------------------------
(***************************************************************************)
(* A step that leaves the files, the watchdogs and the locks of those who  *)
(* have one alone keeps the file theirs.                                   *)
(***************************************************************************)
LEMMA FileStep ==
  ASSUME LockInv, LockInv', FileIsTheirs, [Next]_vars
  PROVE  FileIsTheirs'
  <1> USE DEF Holding, Using
  <1>1. CASE UNCHANGED vars
    BY <1>1 DEF vars, FileIsTheirs
  <1>2. ASSUME NEW c \in Callers, Acquire(c)
        PROVE  FileIsTheirs'
    <2>1. CASE reentrant /\ held[Proc[c]] # None
      <3> DEFINE h == held[Proc[c]]
      <3>1. h \in Locks /\ h.count = Cardinality(UsersIn(token, pc, h.by)) /\ h.count # 0
        BY <2>1, LockAssumption DEF LockInv, Types, HeldOK, Locks, Users, UsersIn
      <3>2. UsersIn(token, pc, h.by) # {}
        BY <3>1, FS_EmptySet, Zenon
      <3>3. PICK d \in Callers : token[d] = h.by /\ pc[d] \in Holding
        BY <3>2 DEF UsersIn
      <3>4. /\ token'[c] = h.by /\ UNCHANGED <<file, removals, broken>>
            /\ \A e \in Callers : e # c => token'[e] = token[e] /\ pc'[e] = pc[e]
        BY <1>2, <2>1 DEF Acquire, Goto, LockInv, Types
      <3> QED
        BY <3>3, <3>4 DEF FileIsTheirs
    <2>2. CASE ~(reentrant /\ held[Proc[c]] # None)
      BY <1>2, <2>2 DEF Acquire, Goto, FileIsTheirs, LockInv, Types
    <2> QED
      BY <2>1, <2>2
  <1>3. ASSUME NEW c \in Callers, OpenLock(c)
        PROVE  FileIsTheirs'
    <2>1. CASE file = None
      <3> DEFINE f == [by |-> c, written |-> FALSE, old |-> FALSE]
      <3>1. file' = f /\ f.by = c /\ f \in Files
        BY <1>3, <2>1 DEF OpenLock, Files
      <3> HIDE DEF f
      <3>2. /\ UNCHANGED <<removals, broken>> /\ token'[c] = c
            /\ \A e \in Callers : e # c => token'[e] = token[e] /\ pc'[e] = pc[e]
        BY <1>3, <2>1 DEF OpenLock, Goto, LockInv, Types
      <3> QED
        BY <2>1, <3>1, <3>2, NoneIsNothing DEF FileIsTheirs
    <2>2. CASE file # None
      BY <1>3, <2>2 DEF OpenLock, Goto, FileIsTheirs, LockInv, Types
    <2> QED
      BY <2>1, <2>2
  <1>4. ASSUME NEW c \in Callers, WritePayload(c)
        PROVE  FileIsTheirs'
    <2>1. /\ pc[c] = "write" /\ UNCHANGED <<token, removals, broken>>
          /\ \A e \in Callers : e # c => pc'[e] = pc[e]
      BY <1>4 DEF WritePayload, Goto, LockInv, Types
    <2>2. file # None => file' # None /\ file'.by = file.by
      BY <1>4, NoneIsNothing DEF WritePayload, LockInv, Types, Files
    <2> QED
      BY <2>1, <2>2 DEF FileIsTheirs
  <1>5. ASSUME NEW c \in Callers, ReadPayload(c) \/ TimesOut(c) \/ ReadData(c) \/ WriteData(c) \/ Release(c)
        PROVE  FileIsTheirs'
    <2>1. /\ UNCHANGED <<token, removals, broken, file>>
          /\ pc'[c] \in Holding => pc[c] \in Holding
          /\ \A e \in Callers : e # c => pc'[e] = pc[e]
      BY <1>5 DEF ReadPayload, TimesOut, ReadData, WriteData, Release, Goto, LockInv, Types
    <2> QED
      BY <2>1 DEF FileIsTheirs
  <1>6. ASSUME NEW c \in Callers, RemoveStale(c)
        PROVE  FileIsTheirs'
    <2>1. /\ pc[c] = "stale" /\ pc'[c] = "open" /\ UNCHANGED <<token, removals>>
          /\ \A e \in Callers : e # c => pc'[e] = pc[e]
          /\ broken' = (broken \/ InUse)
      BY <1>6 DEF RemoveStale, Goto, LockInv, Types
    <2> QED
      BY <2>1 DEF FileIsTheirs, InUse
  <1>7. ASSUME NEW c \in Callers, RemoveOwn(c)
        PROVE  FileIsTheirs'
    <2>1. /\ pc[c] = "remove" /\ pc'[c] = "done" /\ UNCHANGED <<token, removals, broken>>
          /\ \A e \in Callers : e # c => pc'[e] = pc[e]
      BY <1>7 DEF RemoveOwn, Goto, LockInv, Types
    <2> QED
      BY <2>1 DEF FileIsTheirs, LockInv, LastRemoves
  <1>8. ASSUME NEW p \in Procs, RunLockWatchdogCheck(p) \/ WatchdogRemoves(p) \/ ReleaseAllLocksSync(p)
        PROVE  FileIsTheirs'
    BY <1>8 DEF RunLockWatchdogCheck, WatchdogRemoves, ReleaseAllLocksSync, FileIsTheirs
  <1>9. ASSUME NEW p \in Procs, Dies(p)
        PROVE  FileIsTheirs'
    <2>1. /\ UNCHANGED <<token, broken>> /\ removals' \subseteq removals
          /\ \A e \in Callers : /\ pc'[e] \in Holding => pc'[e] = pc[e] /\ Proc[e] # p
      BY <1>9 DEF Dies, LockInv, Types, States, Active
    <2>2. CASE file' = file
      BY <2>1, <2>2 DEF FileIsTheirs
    <2>3. CASE held[p] # None
      <3> DEFINE h == held[p]
      <3>1. h \in Locks /\ h.count = Cardinality(UsersIn(token, pc, h.by)) /\ h.count # 0 /\ Proc[h.by] = p
        BY <2>3 DEF LockInv, Types, HeldOK, Locks, Users, UsersIn
      <3>2. UsersIn(token, pc, h.by) # {}
        BY <3>1, FS_EmptySet, Zenon
      <3>3. PICK d \in Callers : token[d] = h.by /\ pc[d] \in Holding
        BY <3>2 DEF UsersIn
      <3>4. ~broken => \A e \in Callers : pc[e] \in Holding => token[e] = h.by
        BY <3>3 DEF FileIsTheirs
      <3>5. ~broken => \A e \in Callers : pc[e] \in Holding => Proc[e] = p
        BY <3>1, <3>4 DEF LockInv, TokensOK
      <3> QED
        BY <2>1, <3>5 DEF FileIsTheirs
    <2> QED
      BY <1>9, <2>2, <2>3 DEF Dies
  <1>10. CASE Ages
    <2>1. UNCHANGED <<pc, token, removals, broken>>
      BY <1>10 DEF Ages
    <2>2. file # None /\ file' # None /\ file'.by = file.by
      BY <1>10, NoneIsNothing DEF Ages, LockInv, Types, Files
    <2> QED
      BY <2>1, <2>2 DEF FileIsTheirs
  <1> QED
    BY <1>1, <1>2, <1>3, <1>4, <1>5, <1>6, <1>7, <1>8, <1>9, <1>10 DEF Next, CallerStep

(***************************************************************************)
(* Who shares a lock allows it, and runs under its parent's.               *)
(***************************************************************************)
LEMMA SharedStep ==
  ASSUME LockInv, SharedByParent, [Next]_vars
  PROVE  SharedByParent'
  <1>1. CASE UNCHANGED vars
    BY <1>1 DEF vars, SharedByParent
  <1>2. ASSUME NEW c \in Callers, Acquire(c)
        PROVE  SharedByParent'
    <2>1. /\ pc[c] = "idle" /\ reentrant' = reentrant /\ pc'[c] \in {"hold", "open"}
          /\ \A e \in Callers : e # c => token'[e] = token[e] /\ pc'[e] = pc[e]
          /\ token'[c] # token[c] => reentrant
      BY <1>2 DEF Acquire, MayStart, Goto, LockInv, Types
    <2>2. reentrant => \A d \in Callers : d # c /\ Proc[d] = Proc[c] /\ pc[d] \in Active =>
                          Parent[c] = d /\ pc[d] = "hold"
      BY <1>2, LockAssumption DEF Acquire, MayStart
    <2>3. ASSUME NEW a \in Callers, NEW d \in Callers, a # d, token'[a] = d
          PROVE  reentrant'
      BY <2>1, <2>3 DEF SharedByParent
    <2>4. ASSUME NEW a \in Callers, NEW d \in Callers, a # d,
                 reentrant' /\ Proc[a] = Proc[d] /\ pc'[a] \in Active /\ pc'[d] \in Active
          PROVE  \/ Parent[a] = d /\ pc'[d] = "hold"
                 \/ Parent[d] = a /\ pc'[a] = "hold"
      BY <2>1, <2>2, <2>4 DEF SharedByParent
    <2> QED
      BY <2>3, <2>4 DEF SharedByParent
  <1>3. ASSUME NEW c \in Callers, ReadData(c)
        PROVE  SharedByParent'
    <2>1. /\ pc[c] = "hold" /\ UNCHANGED <<reentrant, token>> /\ pc'[c] = "change"
          /\ \A e \in Callers : e # c => pc'[e] = pc[e]
          /\ \A d \in Callers : Parent[d] = c => pc[d] \notin Active
      BY <1>3 DEF ReadData, Goto, LockInv, Types
    <2> QED
      BY <2>1 DEF SharedByParent, Active
  <1>4. ASSUME NEW c \in Callers, CallerStep(c) \/ TimesOut(c), ~ReadData(c)
        PROVE  SharedByParent'
    <2>1. /\ pc[c] \in Active \ {"hold"} /\ reentrant' = reentrant
          /\ token'[c] = token[c] \/ token'[c] = c
          /\ \A e \in Callers : e # c => token'[e] = token[e] /\ pc'[e] = pc[e]
      <3> USE DEF Goto, LockInv, Types, Active
      <3>1. CASE OpenLock(c)
        BY <3>1 DEF OpenLock
      <3>2. CASE WritePayload(c)
        BY <3>2 DEF WritePayload
      <3>3. CASE Release(c)
        BY <3>3 DEF Release
      <3>4. CASE ReadPayload(c) \/ RemoveStale(c) \/ WriteData(c) \/ RemoveOwn(c) \/ TimesOut(c)
        BY <3>4 DEF ReadPayload, RemoveStale, WriteData, RemoveOwn, TimesOut
      <3> QED
        BY <1>4, <3>1, <3>2, <3>3, <3>4 DEF CallerStep
    <2> QED
      BY <2>1 DEF SharedByParent
  <1>5. ASSUME NEW p \in Procs, Dies(p)
        PROVE  SharedByParent'
    <2>1. /\ UNCHANGED <<reentrant, token>>
          /\ \A e, d \in Callers : pc'[e] \in Active /\ pc'[d] \in Active /\ Proc[e] = Proc[d] =>
                                      pc'[e] = pc[e] /\ pc'[d] = pc[d]
      BY <1>5 DEF Dies, LockInv, Types, Active
    <2> QED
      BY <2>1 DEF SharedByParent
  <1>6. CASE Ages \/ \E p \in Procs : \/ RunLockWatchdogCheck(p)
                                      \/ WatchdogRemoves(p)
                                      \/ ReleaseAllLocksSync(p)
    <2>1. UNCHANGED <<reentrant, pc, token>>
      BY <1>6 DEF Ages, RunLockWatchdogCheck, WatchdogRemoves, ReleaseAllLocksSync
    <2> QED
      BY <2>1 DEF SharedByParent
  <1> QED
    BY <1>1, <1>2, <1>3, <1>4, <1>5, <1>6 DEF Next

(***************************************************************************)
(* While no lock is taken from its users, at most one caller is between    *)
(* reading the file and writing it.                                        *)
(***************************************************************************)
LEMMA OneChanges ==
  ASSUME LockInv, FileIsTheirs, SharedByParent, ~broken,
         NEW c \in Callers, NEW d \in Callers, pc[c] = "change", pc[d] = "change"
  PROVE  c = d
  <1> SUFFICES ASSUME c # d PROVE FALSE
    OBVIOUS
  <1>1. token[c] = token[d] /\ token[c] \in Callers
    BY LockAssumption DEF FileIsTheirs, Holding, Using, LockInv, Types, TokensOK
  <1>2. Proc[c] = Proc[d]
    BY <1>1, LockAssumption DEF LockInv, TokensOK
  <1>3. reentrant
    BY <1>1 DEF SharedByParent
  <1> QED
    BY <1>2, <1>3 DEF SharedByParent, Active

(***************************************************************************)
(* What has been read is still there when it is written back.              *)
(***************************************************************************)
LEMMA FreshStep ==
  ASSUME LockInv, FileIsTheirs, SharedByParent, SnapshotIsFresh, UpdatesKept, [Next]_vars
  PROVE  SnapshotIsFresh' /\ UpdatesKept'
  <1>1. CASE UNCHANGED vars
    BY <1>1 DEF vars, SnapshotIsFresh, UpdatesKept
  <1>2. ASSUME NEW c \in Callers, ReadData(c)
        PROVE  SnapshotIsFresh' /\ UpdatesKept'
    BY <1>2 DEF ReadData, Goto, SnapshotIsFresh, UpdatesKept, LockInv, Types
  <1>3. ASSUME NEW c \in Callers, WriteData(c)
        PROVE  SnapshotIsFresh' /\ UpdatesKept'
    <2>1. /\ pc[c] = "change" /\ broken' = broken /\ data' = snap[c] \cup {c}
          /\ pc'[c] = "release" /\ \A e \in Callers : e # c => pc'[e] = pc[e] /\ snap'[e] = snap[e]
      BY <1>3 DEF WriteData, Goto, LockInv, Types
    <2>2. SnapshotIsFresh'
      BY <2>1, OneChanges DEF SnapshotIsFresh
    <2>3. ~broken => snap[c] = data
      BY <2>1 DEF SnapshotIsFresh
    <2> QED
      BY <2>1, <2>2, <2>3 DEF UpdatesKept
  <1>4. ASSUME NEW c \in Callers, Acquire(c) \/ CallerStep(c) \/ TimesOut(c), ~ReadData(c), ~WriteData(c)
        PROVE  SnapshotIsFresh' /\ UpdatesKept'
    <2>1. /\ UNCHANGED <<snap, data>>
          /\ broken => broken'
          /\ pc'[c] # "change"
          /\ pc'[c] \in {"release", "remove", "done"} => pc[c] \in {"release", "remove", "done"}
          /\ \A e \in Callers : e # c => pc'[e] = pc[e]
      <3> USE DEF Goto, LockInv, Types
      <3>1. CASE Acquire(c)
        BY <3>1 DEF Acquire
      <3>2. CASE OpenLock(c)
        BY <3>2 DEF OpenLock
      <3>3. CASE WritePayload(c)
        BY <3>3 DEF WritePayload
      <3>4. CASE Release(c)
        BY <3>4 DEF Release
      <3>5. CASE ReadPayload(c) \/ RemoveStale(c) \/ RemoveOwn(c) \/ TimesOut(c)
        BY <3>5 DEF ReadPayload, RemoveStale, RemoveOwn, TimesOut
      <3> QED
        BY <1>4, <3>1, <3>2, <3>3, <3>4, <3>5 DEF CallerStep
    <2> QED
      BY <2>1 DEF SnapshotIsFresh, UpdatesKept
  <1>5. ASSUME NEW p \in Procs, Dies(p)
        PROVE  SnapshotIsFresh' /\ UpdatesKept'
    <2>1. /\ UNCHANGED <<snap, data, broken>>
          /\ \A e \in Callers : pc'[e] = pc[e] \/ pc'[e] = "dead"
      BY <1>5 DEF Dies, LockInv, Types
    <2> QED
      BY <2>1 DEF SnapshotIsFresh, UpdatesKept
  <1>6. CASE Ages \/ \E p \in Procs : \/ RunLockWatchdogCheck(p)
                                      \/ WatchdogRemoves(p)
                                      \/ ReleaseAllLocksSync(p)
    <2>1. UNCHANGED <<pc, snap, data>> /\ (broken => broken')
      BY <1>6 DEF Ages, RunLockWatchdogCheck, WatchdogRemoves, ReleaseAllLocksSync
    <2> QED
      BY <2>1 DEF SnapshotIsFresh, UpdatesKept
  <1> QED
    BY <1>1, <1>2, <1>3, <1>4, <1>5, <1>6 DEF Next

(***************************************************************************)
(* As long as no lock is taken from callers that use it, by one that takes *)
(* its file for stale, by the watchdog or by a signal, every change that a *)
(* caller has written is in the protected file, whatever crashes.          *)
(***************************************************************************)
THEOREM NoLostUpdate == Spec => []UpdatesKept
  <1>1. Init => IInv
    <2> SUFFICES ASSUME Init PROVE IInv
      OBVIOUS
    <2>1. LockInv
      BY LockInit
    <2>2. FileIsTheirs /\ SnapshotIsFresh /\ UpdatesKept
      BY DEF Init, FileIsTheirs, SnapshotIsFresh, UpdatesKept, Holding, Using
    <2>3. SharedByParent
      BY LockAssumption DEF Init, SharedByParent, Active
    <2> QED
      BY <2>1, <2>2, <2>3 DEF IInv
  <1>2. IInv /\ [Next]_vars => IInv'
    <2> SUFFICES ASSUME IInv, [Next]_vars PROVE IInv'
      OBVIOUS
    <2>1. LockInv /\ LockInv'
      BY LockStep DEF IInv
    <2> QED
      BY <2>1, FileStep, SharedStep, FreshStep DEF IInv
  <1>3. IInv => UpdatesKept
    BY DEF IInv
  <1> QED
    BY <1>1, <1>2, <1>3, PTL DEF Spec
=============================================================================
