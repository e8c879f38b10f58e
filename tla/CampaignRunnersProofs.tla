------------------------ MODULE CampaignRunnersProofs ------------------------
(* For any number of invocations, campaigns and crashes: a campaign has one    *)
(* runner, and one dispatcher at most is past the two scans of the lock files. *)
EXTENDS CampaignRunners, FiniteSetTheorems, SequenceTheorems, WellFoundedInduction, TLAPS

Holders == Runners \cup {Free, Monitor}

Types ==
    /\ files \subseteq Campaigns
    /\ lock \in [Campaigns -> Holders]
    /\ pc \in [Runners -> PcValues]
    /\ left \in [Runners -> SUBSET Campaigns] /\ held \in [Runners -> SUBSET Campaigns]
    /\ at \in [Runners -> Campaigns \cup {0}]
    /\ \A r \in Runners : pc[r] = "lock" => Target[r] \in files

\* A runner past flock owns its campaign's lock and file; a probe owns what it probes.
Owns ==
    /\ \A r \in Runners : HasLock(r) => lock[Target[r]] = r /\ Target[r] \in files
    /\ \A r \in Runners : pc[r] \in {"probe", "reprobe"} =>
          at[r] \in Campaigns /\ lock[at[r]] = r
    /\ \A r \in Runners : pc[r] = "reprobe" => at[r] # Target[r]

\* Dispatcher r has looked at campaign c after it took its own lock, and found it free.
Cleared(r, c) ==
    \/ pc[r] \in {"rescan", "reprobe"} /\ c \notin left[r] /\ c \notin held[r]
    \/ pc[r] \in {"gate", "run", "drain"}

\* Of two dispatchers that hold their locks, one has not cleared the other.
NotBoth ==
    \A r, s \in Parallel : (r # s /\ HasLock(r) /\ HasLock(s)) =>
        ~(Cleared(r, Target[s]) /\ Cleared(s, Target[r]))

LockInv == Types /\ Owns /\ NotBoth

-----------------------------------------------------------------------------
LEMMA InitLock == Init => LockInv
  BY RunnersOK DEF Init, LockInv, Types, Owns, NotBoth, Holders, PcValues, HasLock

\* A runner that ends drops its locks and keeps every other one.
LEMMA LeaveStep ==
  ASSUME LockInv, NEW r \in Runners, NEW how \in {"refused", "ended", "crashed"},
         Leave(r, how), files' = files \/ files' = files \cup {Target[r]}, UNCHANGED probe
  PROVE  LockInv'
  <1>1. Types'
    BY RunnersOK DEF LockInv, Types, Leave, Holders, PcValues, probe
  <1>2. /\ pc'[r] = how /\ \A s \in Runners \ {r} : pc'[s] = pc[s]
        /\ \A c \in Campaigns : lock[c] # r => lock'[c] = lock[c]
        /\ left' = left /\ held' = held /\ at' = at
    BY DEF LockInv, Types, Leave, probe
  <1>3. \A s \in Runners : HasLock(s)' => s # r /\ HasLock(s)
    BY <1>2 DEF HasLock
  <1>4. Owns'
    BY <1>2, <1>3, RunnersOK DEF LockInv, Owns, HasLock
  <1>5. \A s \in Runners : \A c \in Campaigns : (s # r /\ Cleared(s, c)') => Cleared(s, c)
    BY <1>2 DEF Cleared
  <1>6. NotBoth'
    BY <1>3, <1>5, RunnersOK DEF LockInv, NotBoth
  <1>7. QED
    BY <1>1, <1>4, <1>6 DEF LockInv

\* Locks, scans and places stay the same: nothing to show.
LEMMA SameLocks ==
  ASSUME LockInv, UNCHANGED <<locks, probe, pc>>
  PROVE  LockInv'
  <1>1. /\ files' = files /\ lock' = lock /\ pc' = pc
        /\ left' = left /\ held' = held /\ at' = at
    BY DEF locks, probe
  <1>2. /\ \A r \in Runners : HasLock(r)' <=> HasLock(r)
        /\ \A r \in Runners : \A c \in Campaigns : Cleared(r, c)' <=> Cleared(r, c)
    BY <1>1 DEF HasLock, Cleared
  <1>3. Types'
    BY <1>1 DEF LockInv, Types
  <1>4. Owns'
    BY <1>1 DEF LockInv, Owns, HasLock
  <1>5. NotBoth'
    BY <1>1 DEF LockInv, NotBoth, HasLock, Cleared
  <1>6. QED
    BY <1>3, <1>4, <1>5 DEF LockInv

\* A runner that has no lock moves to a place without one.
LEMMA QuietMove ==
  ASSUME LockInv, NEW r \in Runners, pc[r] \in {"idle", "scan"},
         pc' = [pc EXCEPT ![r] = "open"],
         UNCHANGED <<files, lock, left, held, at>>
  PROVE  LockInv'
  <1>1. Types'
    BY DEF LockInv, Types, PcValues
  <1>2. Owns'
    BY DEF LockInv, Types, Owns, HasLock
  <1>3. NotBoth'
    BY RunnersOK DEF LockInv, Types, NotBoth, HasLock, Cleared
  <1>4. QED
    BY <1>1, <1>2, <1>3 DEF LockInv

\* A runner that is past its scans stays there.
LEMMA RunningMove ==
  ASSUME LockInv, NEW r \in Runners, pc[r] \in {"gate", "run", "drain"},
         NEW next \in {"run", "drain"}, pc' = [pc EXCEPT ![r] = next],
         UNCHANGED <<files, lock, left, held, at>>
  PROVE  LockInv'
  <1>1. Types'
    BY DEF LockInv, Types, PcValues
  <1>2. /\ \A s \in Runners : HasLock(s)' => HasLock(s)
        /\ \A s \in Runners : \A c \in Campaigns : Cleared(s, c)' => Cleared(s, c)
    BY DEF LockInv, Types, HasLock, Cleared
  <1>3. Owns'
    BY DEF LockInv, Types, Owns, HasLock
  <1>4. NotBoth'
    BY <1>2, RunnersOK DEF LockInv, NotBoth
  <1>5. QED
    BY <1>1, <1>3, <1>4 DEF LockInv

LEMMA ScanStep ==
  ASSUME LockInv, NEW r \in Runners, Scan(r)
  PROVE  LockInv'
  <1>1. CASE StartScan(r)
    <2>1. /\ pc[r] = "idle" /\ pc' = [pc EXCEPT ![r] = "scan"]
          /\ left' = [left EXCEPT ![r] = files] /\ UNCHANGED <<files, lock, held, at>>
      BY <1>1 DEF StartScan, locks
    <2>2. Types'
      BY <2>1 DEF LockInv, Types, PcValues
    <2>3. Owns'
      BY <2>1 DEF LockInv, Types, Owns, HasLock
    <2>4. NotBoth'
      BY <2>1, RunnersOK DEF LockInv, Types, NotBoth, HasLock, Cleared
    <2>5. QED
      BY <2>2, <2>3, <2>4 DEF LockInv
  <1>2. CASE ProbeHeld(r)
    <2>1. PICK c \in left[r] :
            /\ pc[r] \in {"scan", "rescan"} /\ lock[c] # Free
            /\ held' = [held EXCEPT ![r] = @ \cup {c}]
            /\ left' = [left EXCEPT ![r] = @ \ {c}]
            /\ UNCHANGED <<files, lock, at, pc>>
      BY <1>2 DEF ProbeHeld, locks
    <2>2. Types'
      BY <2>1 DEF LockInv, Types
    <2>3. Owns'
      BY <2>1 DEF LockInv, Types, Owns, HasLock
    <2>4. \A s \in Runners : \A d \in Campaigns : Cleared(s, d)' => Cleared(s, d)
      BY <2>1 DEF LockInv, Types, Cleared
    <2>5. NotBoth'
      BY <2>1, <2>4, RunnersOK DEF LockInv, NotBoth, HasLock
    <2>6. QED
      BY <2>2, <2>3, <2>5 DEF LockInv
  <1>3. CASE ProbeTake(r)
    <2>1. PICK c \in left[r] :
            /\ pc[r] \in {"scan", "rescan"} /\ lock[c] = Free
            /\ lock' = [lock EXCEPT ![c] = r]
            /\ at' = [at EXCEPT ![r] = c]
            /\ pc' = [pc EXCEPT ![r] = IF pc[r] = "scan" THEN "probe" ELSE "reprobe"]
            /\ UNCHANGED <<files, left, held>>
      BY <1>3 DEF ProbeTake
    <2>2. Types'
      BY <2>1 DEF LockInv, Types, PcValues, Holders
    <2>3. /\ c \in Campaigns /\ Free \notin Runners
          /\ \A s \in Runners : HasLock(s)' <=> HasLock(s)
      BY <2>1, RunnersOK DEF LockInv, Types, HasLock
    <2>4. Owns'
      <3>1. \A s \in Runners : HasLock(s) => Target[s] # c
        BY <2>1, <2>3, RunnersOK DEF LockInv, Owns
      <3>2. \A s \in Runners : HasLock(s)' => lock'[Target[s]] = s /\ Target[s] \in files'
        BY <2>1, <2>3, <3>1, RunnersOK DEF LockInv, Types, Owns
      <3>3. \A s \in Runners : (s # r /\ pc[s] \in {"probe", "reprobe"}) => at[s] # c
        BY <2>1, <2>3, RunnersOK DEF LockInv, Owns
      <3>4. \A s \in Runners : pc'[s] \in {"probe", "reprobe"} =>
              at'[s] \in Campaigns /\ lock'[at'[s]] = s
        BY <2>1, <2>3, <3>3 DEF LockInv, Types, Owns
      <3>5. \A s \in Runners : pc'[s] = "reprobe" => at'[s] # Target[s]
        BY <2>1, <2>3, <3>1 DEF LockInv, Types, Owns, HasLock
      <3>6. QED
        BY <3>2, <3>4, <3>5 DEF Owns
    <2>5. \A s \in Runners : \A d \in Campaigns : Cleared(s, d)' => Cleared(s, d)
      BY <2>1 DEF LockInv, Types, Cleared
    <2>6. NotBoth'
      BY <2>3, <2>5, RunnersOK DEF LockInv, NotBoth
    <2>7. QED
      BY <2>2, <2>4, <2>6 DEF LockInv
  <1>4. CASE ProbeRelease(r)
    <2>1. /\ pc[r] \in {"probe", "reprobe"}
          /\ lock' = [lock EXCEPT ![at[r]] = Free]
          /\ left' = [left EXCEPT ![r] = @ \ {at[r]}]
          /\ pc' = [pc EXCEPT ![r] = IF pc[r] = "probe" THEN "scan" ELSE "rescan"]
          /\ UNCHANGED <<files, held, at>>
      BY <1>4 DEF ProbeRelease
    <2>2. at[r] \in Campaigns /\ lock[at[r]] = r /\ r # Free
      BY <2>1, RunnersOK DEF LockInv, Owns
    <2>3. Types'
      BY <2>1 DEF LockInv, Types, PcValues, Holders
    <2>4. \A s \in Runners : HasLock(s)' => HasLock(s) /\ Target[s] # at[r]
      <3>1. \A s \in Runners : HasLock(s)' => HasLock(s)
        BY <2>1 DEF LockInv, Types, HasLock
      <3>2. \A s \in Runners : (s # r /\ HasLock(s)) => Target[s] # at[r]
        BY <2>2 DEF LockInv, Owns
      <3>3. HasLock(r)' => Target[r] # at[r]
        BY <2>1 DEF LockInv, Types, Owns, HasLock
      <3>4. QED
        BY <3>1, <3>2, <3>3
    <2>5. Owns'
      <3>1. \A s \in Runners : HasLock(s)' => lock'[Target[s]] = s /\ Target[s] \in files'
        BY <2>1, <2>4, RunnersOK DEF LockInv, Types, Owns
      <3>2. \A s \in Runners : pc'[s] \in {"probe", "reprobe"} =>
              s # r /\ pc[s] \in {"probe", "reprobe"}
        BY <2>1 DEF LockInv, Types
      <3>3. \A s \in Runners : pc'[s] \in {"probe", "reprobe"} =>
              at'[s] \in Campaigns /\ lock'[at'[s]] = s
        BY <2>1, <2>2, <3>2 DEF LockInv, Types, Owns
      <3>4. \A s \in Runners : pc'[s] = "reprobe" => at'[s] # Target[s]
        BY <2>1 DEF LockInv, Types, Owns
      <3>5. QED
        BY <3>1, <3>3, <3>4 DEF Owns
    <2>6. \A s \in Runners : \A d \in Campaigns :
            (Cleared(s, d)' /\ ~Cleared(s, d)) => s = r /\ d = at[r]
      BY <2>1 DEF LockInv, Types, Cleared
    <2>7. NotBoth'
      BY <2>4, <2>6, RunnersOK DEF LockInv, NotBoth
    <2>8. QED
      BY <2>3, <2>5, <2>7 DEF LockInv
  <1>5. CASE EndScan(r)
    <2>1. CASE Leave(r, "refused")
      BY <1>5, <2>1, LeaveStep DEF EndScan
    <2>2. CASE pc' = [pc EXCEPT ![r] = "open"] /\ UNCHANGED lock
      <3>1. /\ pc[r] = "scan" /\ pc' = [pc EXCEPT ![r] = "open"]
            /\ UNCHANGED <<files, lock, left, held, at>>
        BY <1>5, <2>2 DEF EndScan, probe
      <3>2. QED
        BY <3>1, QuietMove
    <2>3. QED
      BY <1>5, <2>1, <2>2 DEF EndScan
  <1>6. QED
    BY <1>1, <1>2, <1>3, <1>4, <1>5 DEF Scan

\* Taking the lock and looking again.
LEMMA AcquireStep ==
  ASSUME LockInv, NEW r \in Runners, Acquire(r)
  PROVE  LockInv'
  <1>1. CASE StartSequential(r)
    <2>1. /\ pc[r] = "idle" /\ pc' = [pc EXCEPT ![r] = "open"]
          /\ UNCHANGED <<files, lock, left, held, at>>
      BY <1>1 DEF StartSequential, locks, probe
    <2>2. QED
      BY <2>1, QuietMove
  <1>2. CASE OpenLock(r)
    <2>1. CASE Leave(r, "refused")
      BY <1>2, <2>1, LeaveStep DEF OpenLock
    <2>2. CASE /\ files' = files \cup {Target[r]}
               /\ pc' = [pc EXCEPT ![r] = "lock"] /\ UNCHANGED lock
      <3>1. pc[r] = "open" /\ left' = left /\ held' = held /\ at' = at
        BY <1>2 DEF OpenLock, probe
      <3>2. Types'
        BY <2>2, <3>1, RunnersOK DEF LockInv, Types, PcValues
      <3>3. Owns'
        BY <2>2, <3>1 DEF LockInv, Types, Owns, HasLock
      <3>4. NotBoth'
        BY <2>2, <3>1, RunnersOK DEF LockInv, Types, NotBoth, HasLock, Cleared
      <3>5. QED
        BY <3>2, <3>3, <3>4 DEF LockInv
    <2>3. QED
      BY <1>2, <2>1, <2>2 DEF OpenLock
  <1>3. CASE TakeLock(r)
    <2>1. /\ pc[r] = "lock" /\ lock[Target[r]] = Free
          /\ lock' = [lock EXCEPT ![Target[r]] = r]
          /\ pc' = [pc EXCEPT ![r] = IF r \in Parallel THEN "locked" ELSE "gate"]
          /\ files' = files /\ left' = left /\ held' = held /\ at' = at
      BY <1>3 DEF TakeLock, probe
    <2>2. Target[r] \in files
      BY <2>1 DEF LockInv, Types
    <2>3. Types'
      BY <2>1 DEF LockInv, Types, PcValues, Holders
    <2>4. Owns'
      <3>1. \A s \in Runners : HasLock(s) => Target[s] # Target[r]
        BY <2>1, RunnersOK DEF LockInv, Owns
      <3>2. \A s \in Runners : HasLock(s)' => lock'[Target[s]] = s /\ Target[s] \in files'
        BY <2>1, <2>2, <3>1, RunnersOK DEF LockInv, Types, Owns, HasLock
      <3>3. \A s \in Runners : pc'[s] \in {"probe", "reprobe"} =>
              s # r /\ at'[s] \in Campaigns /\ lock'[at'[s]] = s
        BY <2>1, RunnersOK DEF LockInv, Types, Owns
      <3>4. \A s \in Runners : pc'[s] = "reprobe" => at'[s] # Target[s]
        BY <2>1, <3>3 DEF LockInv, Types, Owns
      <3>5. QED
        BY <3>2, <3>3, <3>4 DEF Owns
    <2>5. \A s \in Parallel : \A d \in Campaigns : Cleared(s, d)' => s # r /\ Cleared(s, d)
      BY <2>1, RunnersOK DEF LockInv, Types, Cleared
    <2>6. NotBoth'
      BY <2>1, <2>5, RunnersOK DEF LockInv, Types, NotBoth, HasLock
    <2>7. QED
      BY <2>3, <2>4, <2>6 DEF LockInv
  <1>4. CASE LockRefused(r)
    BY <1>4, LeaveStep DEF LockRefused
  <1>5. CASE StartRescan(r)
    <2>1. /\ pc[r] = "locked" /\ pc' = [pc EXCEPT ![r] = "rescan"]
          /\ left' = [left EXCEPT ![r] = files] /\ held' = [held EXCEPT ![r] = {}]
          /\ files' = files /\ lock' = lock /\ at' = at
      BY <1>5 DEF StartRescan, locks
    <2>2. Types'
      BY <2>1 DEF LockInv, Types, PcValues
    <2>3. Owns'
      BY <2>1 DEF LockInv, Types, Owns, HasLock
    \* The files of the others that hold a lock are all in the list.
    <2>4. \A s \in Runners : HasLock(s)' => HasLock(s) /\ Target[s] \in files
      BY <2>1 DEF LockInv, Types, Owns, HasLock
    <2>5. \A s \in Runners : \A d \in files : Cleared(s, d)' => s # r /\ Cleared(s, d)
      BY <2>1 DEF LockInv, Types, Cleared
    <2>6. NotBoth'
      BY <2>4, <2>5, RunnersOK DEF LockInv, NotBoth
    <2>7. QED
      BY <2>2, <2>3, <2>6 DEF LockInv
  <1>6. CASE EndRescan(r)
    <2>1. CASE Leave(r, "refused")
      BY <1>6, <2>1, LeaveStep DEF EndRescan
    <2>2. CASE ~Leave(r, "refused")
      <3>1. /\ pc[r] = "rescan" /\ left[r] = {} /\ held[r] = {Target[r]}
            /\ pc' = [pc EXCEPT ![r] = "gate"]
            /\ files' = files /\ lock' = lock /\ left' = left /\ held' = held /\ at' = at
        BY <1>6, <2>2 DEF EndRescan, probe
      <3>2. Types'
        BY <3>1 DEF LockInv, Types, PcValues
      <3>3. Owns'
        BY <3>1 DEF LockInv, Types, Owns, HasLock
      <3>4. \A s \in Runners : HasLock(s)' <=> HasLock(s)
        BY <3>1 DEF LockInv, Types, HasLock
      <3>5. \A s \in Runners : s # r /\ HasLock(s) => Target[s] # Target[r]
        BY <3>1 DEF LockInv, Owns, HasLock
      <3>6. \A s \in Runners : \A d \in Campaigns :
              Cleared(s, d)' => Cleared(s, d) \/ (s = r /\ d = Target[r])
        BY <3>1 DEF LockInv, Types, Cleared
      <3>7. NotBoth'
        BY <3>4, <3>5, <3>6, RunnersOK DEF LockInv, NotBoth
      <3>8. QED
        BY <3>2, <3>3, <3>7 DEF LockInv
    <2>3. QED
      BY <2>1, <2>2
  <1>7. CASE Gate(r)
    <2>1. CASE Leave(r, "refused")
      BY <1>7, <2>1, LeaveStep DEF Gate
    <2>2. CASE pc' = [pc EXCEPT ![r] = "run"] /\ UNCHANGED lock
      BY <1>7, <2>2, RunningMove DEF Gate, probe
    <2>3. QED
      BY <1>7, <2>1, <2>2 DEF Gate
  <1>8. QED
    BY <1>1, <1>2, <1>3, <1>4, <1>5, <1>6, <1>7 DEF Acquire

\* Running episodes changes no lock until the runner ends.
LEMMA ExecuteStep ==
  ASSUME LockInv, NEW r \in Runners, Execute(r) \/ Crash(r)
  PROVE  LockInv'
  <1>1. CASE Claim(r) \/ RunNext(r)
    BY <1>1, SameLocks DEF Claim, RunNext
  <1>2. CASE Record(r)
    <2>1. PICK next \in {pc[r], "drain"} : pc' = [pc EXCEPT ![r] = next]
      BY <1>2 DEF Record
    <2>2. /\ pc[r] \in {"run", "drain"} /\ next \in {"run", "drain"}
          /\ UNCHANGED <<files, lock, left, held, at>>
      BY <1>2, <2>1 DEF Record, locks, probe
    <2>3. QED
      BY <2>1, <2>2, RunningMove
  <1>3. CASE Finish(r)
    BY <1>3, LeaveStep DEF Finish
  <1>4. CASE Crash(r)
    BY <1>4, LeaveStep DEF Crash
  <1>5. QED
    BY <1>1, <1>2, <1>3, <1>4 DEF Execute

\* The monitor takes a lock nobody has, and gives back its own.
LEMMA MonitorStep ==
  ASSUME LockInv, MonitorTake \/ MonitorRelease
  PROVE  LockInv'
  <1>1. PICK c \in Campaigns :
          /\ lock[c] \in {Free, Monitor}
          /\ \E h \in {Free, Monitor} : lock' = [lock EXCEPT ![c] = h]
          /\ files' = files \/ files' = files \cup {c}
    BY DEF MonitorTake, MonitorRelease
  <1>2. pc' = pc /\ left' = left /\ held' = held /\ at' = at
    BY DEF MonitorTake, MonitorRelease, probe
  <1>3. Types'
    BY <1>1, <1>2 DEF LockInv, Types, Holders
  <1>4. \A d \in Campaigns : lock[d] \in Runners => lock'[d] = lock[d]
    BY <1>1, RunnersOK DEF LockInv, Types
  <1>5. Owns'
    BY <1>1, <1>2, <1>4, RunnersOK DEF LockInv, Owns, HasLock
  <1>6. NotBoth'
    BY <1>2 DEF LockInv, NotBoth, HasLock, Cleared
  <1>7. QED
    BY <1>3, <1>5, <1>6 DEF LockInv

LEMMA LockInvariance == Spec => []LockInv
  <1>1. LockInv /\ [Next]_vars => LockInv'
    <2> SUFFICES ASSUME LockInv, [Next]_vars
                 PROVE  LockInv'
      OBVIOUS
    <2>1. ASSUME NEW r \in Runners, Scan(r) \/ Acquire(r) \/ Execute(r) \/ Crash(r)
          PROVE  LockInv'
      BY <2>1, ScanStep, AcquireStep, ExecuteStep
    <2>2. CASE OrphanEnds
      BY <2>2, SameLocks DEF OrphanEnds
    <2>3. CASE MonitorTake \/ MonitorRelease
      BY <2>3, MonitorStep
    <2>4. CASE UNCHANGED vars
      BY <2>4, SameLocks DEF vars
    <2>5. QED
      BY <2>1, <2>2, <2>3, <2>4 DEF Next
  <1>2. QED
    BY <1>1, InitLock, PTL DEF Spec

-----------------------------------------------------------------------------
\* A campaign has one runner at a time: whoever holds its flock, which no probe of
\* another runner and no monitor can take away.
THEOREM OneRunner == Spec => []OneRunnerPerCampaign
  <1>1. LockInv => OneRunnerPerCampaign
    BY DEF LockInv, Owns, OneRunnerPerCampaign
  <1>2. QED
    BY <1>1, LockInvariance, PTL

\* The second scan makes the dispatchers of all campaigns exclude each other, although
\* a lock can only be tested by taking it and each scan probes one lock at a time.
THEOREM DispatchersExclude == Spec => []OneDispatcher
  <1>1. ASSUME LockInv, NEW r \in Runners, NEW s \in Runners,
               Admitted(r), Admitted(s), r # s
        PROVE  FALSE
    <2>1. HasLock(r) /\ HasLock(s) /\ r \in Parallel /\ s \in Parallel
      BY <1>1 DEF Admitted, HasLock
    <2>2. Cleared(r, Target[s]) /\ Cleared(s, Target[r])
      BY <1>1 DEF Admitted, Cleared
    <2>3. QED
      BY <1>1, <2>1, <2>2 DEF LockInv, NotBoth
  <1>2. LockInv => OneDispatcher
    BY <1>1 DEF OneDispatcher
  <1>3. QED
    BY <1>2, LockInvariance, PTL

-----------------------------------------------------------------------------
(* The account of the attempts.                                            *)

WorkTypes ==
    /\ ledger \in [Campaigns -> Seq(Keys)] /\ todo \in [Runners -> SUBSET Keys]
    /\ procs \subseteq [by : Runners, key : Keys]
    /\ launched \in [Campaigns -> [Keys -> Nat]]

\* Only a runner that has its lock, or was killed, has episode processes.
ByRunning == \A p \in procs : pc[p.by] \in {"run", "drain", "crashed"}

\* What a dispatcher runs has no row yet: it is the only writer of its ledger.
InFlightNew ==
    \A r \in Parallel : pc[r] \in {"run", "drain"} =>
        \A k \in InFlight(r) : k \notin Attempted(Target[r])

Accounted(c, k) ==
    /\ Known(c, k) <= launched[c][k]
    /\ launched[c][k] <= Known(c, k) + Cardinality(Killed(c))

WorkInv ==
    /\ WorkTypes /\ ByRunning /\ InFlightNew
    /\ \A c \in Campaigns : IsFiniteSet(Killed(c))
    /\ \A c \in Campaigns : \A k \in Keys : Accounted(c, k)

LEMMA InitWork == Init => WorkInv
  <1> SUFFICES ASSUME Init PROVE WorkInv
    OBVIOUS
  <1>1. WorkTypes /\ ByRunning
    BY DEF Init, WorkTypes, ByRunning
  <1>2. InFlightNew
    BY DEF Init, InFlightNew, InFlight, ProcsOf
  <1>n. \A c \in Campaigns : Killed(c) = {}
    BY DEF Init, Killed
  <1>3. ASSUME NEW c \in Campaigns, NEW k \in Keys
        PROVE  Accounted(c, k)
    <2>1. RowsOf(c, k) = {} /\ Runs(c, k) = {}
      BY DEF Init, RowsOf, Runs
    <2>2. launched[c][k] = 0
      BY DEF Init
    <2>3. QED
      BY <1>n, <2>1, <2>2, FS_EmptySet DEF Accounted, Known
  <1>4. QED
    BY <1>n, <1>1, <1>2, <1>3, FS_EmptySet DEF WorkInv

LEMMA AtMostOne ==
  ASSUME NEW S, \A p, q \in S : p = q
  PROVE  IsFiniteSet(S) /\ Cardinality(S) = IF S = {} THEN 0 ELSE 1
  <1>1. CASE S = {}
    BY <1>1, FS_EmptySet
  <1>2. CASE S # {}
    <2>1. PICK p \in S : TRUE
      BY <1>2
    <2>2. S = {p}
      BY <2>1
    <2>3. QED
      BY <1>2, <2>2, FS_Singleton
  <1>3. QED
    BY <1>1, <1>2

\* A campaign has one runner, and that runs an episode in one process.
LEMMA RunsOnce ==
  ASSUME LockInv, WorkTypes, ByRunning, NEW c, NEW k
  PROVE  /\ \A p \in Runs(c, k) : p = [by |-> p.by, key |-> k] /\ p.by \in Runners
                                   /\ pc[p.by] \in {"run", "drain"} /\ Target[p.by] = c
         /\ \A p, q \in Runs(c, k) : p = q
         /\ Cardinality(Runs(c, k)) = IF Runs(c, k) = {} THEN 0 ELSE 1
  <1>1. ASSUME NEW p \in Runs(c, k)
        PROVE  /\ p = [by |-> p.by, key |-> k] /\ p.by \in Runners
               /\ pc[p.by] \in {"run", "drain"} /\ Target[p.by] = c
    <2>1. p \in [by : Runners, key : Keys] /\ p.key = k /\ Target[p.by] = c
      BY DEF Runs, WorkTypes
    <2>2. pc[p.by] \in {"run", "drain"}
      BY DEF Runs, Alive, ByRunning
    <2>3. QED
      BY <2>1, <2>2
  <1>2. ASSUME NEW p \in Runs(c, k), NEW q \in Runs(c, k)
        PROVE  p = q
    <2>1. HasLock(p.by) /\ HasLock(q.by)
      BY <1>1 DEF HasLock
    <2>2. lock[c] = p.by /\ lock[c] = q.by
      BY <1>1, <2>1 DEF LockInv, Owns
    <2>3. QED
      BY <1>1, <2>2
  <1>3. QED
    BY <1>1, <1>2, AtMostOne

LEMMA RowsFinite ==
  ASSUME WorkTypes, NEW c \in Campaigns, NEW k
  PROVE  IsFiniteSet(RowsOf(c, k)) /\ Cardinality(RowsOf(c, k)) \in Nat
  <1>1. ledger[c] \in Seq(Keys)
    BY DEF WorkTypes
  <1>2. RowsOf(c, k) \subseteq 1..Len(ledger[c]) /\ Len(ledger[c]) \in Nat
    BY <1>1 DEF RowsOf
  <1>3. IsFiniteSet(1..Len(ledger[c]))
    BY <1>2, FS_Interval
  <1>4. QED
    BY <1>2, <1>3, FS_Subset, FS_CardinalityType

\* What the two inequalities add up.
LEMMA CountTypes ==
  ASSUME LockInv, WorkInv, NEW c \in Campaigns, NEW k \in Keys
  PROVE  /\ Cardinality(RowsOf(c, k)) \in Nat /\ Cardinality(Runs(c, k)) \in Nat
         /\ Cardinality(Killed(c)) \in Nat /\ launched[c][k] \in Nat
  <1>1. WorkTypes /\ ByRunning /\ IsFiniteSet(Killed(c))
    BY DEF WorkInv
  <1>2. Cardinality(RowsOf(c, k)) \in Nat
    BY <1>1, RowsFinite
  <1>3. Cardinality(Runs(c, k)) \in Nat
    BY <1>1, RunsOnce
  <1>4. Cardinality(Killed(c)) \in Nat /\ launched[c][k] \in Nat
    BY <1>1, FS_CardinalityType DEF WorkTypes
  <1>5. QED
    BY <1>2, <1>3, <1>4

\* Nothing is launched or recorded, and no runner is killed.
LEMMA SameWork ==
  ASSUME WorkInv, UNCHANGED <<ledger, procs, launched>>,
         \A c \in Campaigns : Killed(c)' = Killed(c),
         todo' \in [Runners -> SUBSET Keys],
         \A p \in procs : pc'[p.by] = pc[p.by]
  PROVE  WorkInv'
  <1>1. WorkTypes' /\ ByRunning'
    BY DEF WorkInv, WorkTypes, ByRunning
  <1>2. InFlightNew'
    <2>1. ASSUME NEW r \in Parallel, pc'[r] \in {"run", "drain"}, NEW k \in InFlight(r)
          PROVE  k \notin Attempted(Target[r])
      <3>1. PICK p \in procs : p.by = r /\ p.key = k
        BY DEF InFlight, ProcsOf
      <3>2. pc[r] \in {"run", "drain"}
        BY <2>1, <3>1
      <3>3. QED
        BY <3>2 DEF WorkInv, InFlightNew
    <2>2. QED
      BY <2>1 DEF InFlightNew, InFlight, ProcsOf, Attempted
  <1>3. ASSUME NEW c \in Campaigns, NEW k \in Keys
        PROVE  Accounted(c, k)'
    <2>1. Runs(c, k)' = Runs(c, k)
      BY DEF Runs, Alive
    <2>2. RowsOf(c, k)' = RowsOf(c, k)
      BY DEF RowsOf
    <2>3. QED
      BY <2>1, <2>2 DEF WorkInv, Accounted, Known
  <1>4. QED
    BY <1>1, <1>2, <1>3 DEF WorkInv

\* A runner without processes goes where it likes, short of being killed.
LEMMA FreeMove ==
  ASSUME LockInv, WorkInv, NEW r \in Runners, \A p \in procs : p.by # r,
         \A s \in Runners \ {r} : pc'[s] = pc[s], pc[r] # "crashed", pc'[r] # "crashed",
         UNCHANGED <<ledger, procs, launched>>, todo' \in [Runners -> SUBSET Keys]
  PROVE  WorkInv'
  <1>1. \A p \in procs : p.by \in Runners \ {r}
    BY DEF WorkInv, WorkTypes
  <1>2. \A c \in Campaigns : Killed(c)' = Killed(c)
    BY DEF Killed
  <1>3. QED
    BY <1>1, <1>2, SameWork

LEMMA ScanAccounts ==
  ASSUME LockInv, WorkInv, NEW r \in Runners, Scan(r) \/ Acquire(r) \/ Finish(r)
  PROVE  WorkInv'
  <1>1. \A p \in procs : p.by # r
    BY DEF WorkInv, ByRunning, Scan, StartScan, ProbeHeld, ProbeTake, ProbeRelease, EndScan,
           Acquire, StartSequential, OpenLock, TakeLock, LockRefused, StartRescan, EndRescan,
           Gate, Finish, ProcsOf
  <1>2. UNCHANGED <<ledger, procs, launched>>
    BY DEF Scan, StartScan, ProbeHeld, ProbeTake, ProbeRelease, EndScan, Acquire,
           StartSequential, OpenLock, TakeLock, LockRefused, StartRescan, EndRescan, Gate,
           Finish, work
  <1>3. \A s \in Runners \ {r} : pc'[s] = pc[s]
    <2>1. pc' = pc \/ \E where : pc' = [pc EXCEPT ![r] = where]
      BY DEF Scan, StartScan, ProbeHeld, ProbeTake, ProbeRelease, EndScan, Acquire,
             StartSequential, OpenLock, TakeLock, LockRefused, StartRescan, EndRescan, Gate,
             Finish, Leave
    <2>2. QED
      BY <2>1 DEF LockInv, Types
  <1>6. pc[r] # "crashed" /\ pc'[r] # "crashed"
    <2>1. pc \in [Runners -> PcValues]
      BY DEF LockInv, Types
    <2>2. CASE Scan(r)
      BY <2>1, <2>2 DEF Scan, StartScan, ProbeHeld, ProbeTake, ProbeRelease, EndScan, Leave
    <2>3. CASE Acquire(r)
      BY <2>1, <2>3 DEF Acquire, StartSequential, OpenLock, TakeLock, LockRefused, StartRescan,
                        EndRescan, Gate, Leave
    <2>4. CASE Finish(r)
      BY <2>1, <2>4 DEF Finish, Leave
    <2>5. QED
      BY <2>2, <2>3, <2>4
  <1>4. todo' \in [Runners -> SUBSET Keys]
    <2>1. todo \in [Runners -> SUBSET Keys]
      BY DEF WorkInv, WorkTypes
    <2>2. CASE StartSequential(r)
      <3>1. Planned(Target[r]) \subseteq Keys
        BY DEF Planned
      <3>2. QED
        BY <2>1, <2>2, <3>1 DEF StartSequential
    <2>3. CASE ~StartSequential(r)
      <3>1. todo' = todo
        BY <2>3 DEF Scan, StartScan, ProbeHeld, ProbeTake, ProbeRelease, EndScan, Acquire,
                    OpenLock, TakeLock, LockRefused, StartRescan, EndRescan, Gate, Finish, work
      <3>2. QED
        BY <2>1, <3>1
    <2>4. QED
      BY <2>2, <2>3
  <1>5. QED
    BY <1>1, <1>2, <1>3, <1>4, <1>6, FreeMove

\* The next episode is one of the set it is taken from.
LEMMA MinExists ==
  ASSUME NEW T, T \subseteq Nat, T # {}
  PROVE  Min(T) \in T
  <1>1. \E x \in T : \A y \in T : ~(<<y, x>> \in OpToRel(<, Nat))
    BY NatLessThanWellFounded, WFMin
  <1>2. ASSUME NEW x \in Nat, NEW y \in Nat
        PROVE  <<y, x>> \in OpToRel(<, Nat) <=> y < x
    BY <1>2 DEF OpToRel
  <1>3. PICK x \in T : \A y \in T : ~(<<y, x>> \in OpToRel(<, Nat))
    BY <1>1
  <1>4. ASSUME NEW y \in T
        PROVE  x <= y
    <2>1. x \in Nat /\ y \in Nat
      OBVIOUS
    <2>2. ~(y < x)
      BY <1>2, <1>3, <2>1
    <2>3. QED
      BY <2>1, <2>2
  <1>5. QED
    BY <1>4 DEF Min

\* One more attempt, and one more process.
LEMMA LaunchAccounts ==
  ASSUME LockInv, WorkInv, NEW r \in Runners, NEW key \in Keys, pc[r] = "run",
         key \notin InFlight(r), r \in Parallel => key \notin Attempted(Target[r]),
         Launch(r, key), UNCHANGED <<ledger, pc>>, todo' \in [Runners -> SUBSET Keys]
  PROVE  WorkInv'
  <1> DEFINE new == [by |-> r, key |-> key]
             home == Target[r]
  <1>0. /\ procs' = procs \cup {new}
        /\ launched' = [launched EXCEPT ![home][key] = @ + 1]
        /\ new \in [by : Runners, key : Keys] /\ new.by = r /\ new.key = key
        /\ home \in Campaigns
    BY RunnersOK DEF Launch
  <1>t. WorkTypes /\ ByRunning
    BY DEF WorkInv
  <1> HIDE DEF new, home
  <1>1. WorkTypes' /\ ByRunning'
    BY <1>0, <1>t DEF WorkTypes, ByRunning
  <1>k. \A c \in Campaigns : IsFiniteSet(Killed(c)')
    BY DEF WorkInv, Killed
  <1>2. InFlightNew'
    <2>1. ASSUME NEW s \in Parallel, pc[s] \in {"run", "drain"}, NEW p \in procs', p.by = s
          PROVE  p.key \notin Attempted(Target[s])
      <3>1. CASE p = new
        BY <1>0, <2>1, <3>1
      <3>2. CASE p \in procs
        BY <2>1, <3>2 DEF WorkInv, InFlightNew, InFlight, ProcsOf
      <3>3. QED
        BY <1>0, <3>1, <3>2
    <2>2. QED
      BY <2>1 DEF InFlightNew, InFlight, ProcsOf, Attempted
  <1>3. ASSUME NEW c \in Campaigns, NEW k \in Keys
        PROVE  Accounted(c, k)'
    <2>1. RowsOf(c, k)' = RowsOf(c, k) /\ Killed(c)' = Killed(c) /\ Accounted(c, k)
      BY DEF RowsOf, WorkInv, Killed
    <2>2. Cardinality(Runs(c, k)) = IF Runs(c, k) = {} THEN 0 ELSE 1
      BY <1>t, RunsOnce
    <2>3. CASE c = home /\ k = key
      <3>1. Runs(c, k) = {}
        <4>1. SUFFICES ASSUME NEW p \in Runs(c, k) PROVE FALSE
          OBVIOUS
        <4>2. /\ p \in procs /\ p.key = key /\ p.by \in Runners /\ Target[p.by] = Target[r]
              /\ pc[p.by] \in {"run", "drain"}
          BY <1>t, <2>3, RunsOnce DEF Runs, home
        <4>3. HasLock(p.by) /\ HasLock(r)
          BY <4>2 DEF HasLock
        <4>4. p.by = r
          BY <4>2, <4>3 DEF LockInv, Owns
        <4>5. QED
          BY <4>2, <4>4 DEF InFlight, ProcsOf
      <3>2. Runs(c, k)' = {new}
        <4>1. new \in Runs(c, k)'
          BY <1>0, <2>3 DEF Runs, Alive, home
        <4>2. \A p \in procs' : p \in procs \/ p = new
          BY <1>0
        <4>3. \A p \in Runs(c, k)' : p = new
          BY <3>1, <4>2 DEF Runs, Alive
        <4>4. QED
          BY <4>1, <4>3
      <3>3. Cardinality(Runs(c, k)') = 1
        BY <3>2, FS_Singleton
      <3>4. launched'[c][k] = launched[c][k] + 1
        BY <1>0, <1>t, <2>3 DEF WorkTypes
      <3>5. Cardinality(Runs(c, k)) = 0
        BY <2>2, <3>1
      <3>6. QED
        BY <2>1, <3>3, <3>4, <3>5, CountTypes DEF Accounted, Known
    <2>4. CASE ~(c = home /\ k = key)
      <3>1. Runs(c, k)' = Runs(c, k)
        <4>1. \A p \in procs' : p \in procs \/ p = new
          BY <1>0
        <4>2. ~(new.key = k /\ Target[new.by] = c)
          BY <1>0, <2>4 DEF home
        <4>3. procs \subseteq procs'
          BY <1>0
        <4>4. QED
          BY <4>1, <4>2, <4>3 DEF Runs, Alive
      <3>2. launched'[c][k] = launched[c][k]
        BY <1>0, <1>t, <2>4 DEF WorkTypes
      <3>3. QED
        BY <2>1, <3>1, <3>2 DEF Accounted, Known
    <2>5. QED
      BY <2>3, <2>4
  <1>4. QED
    BY <1>1, <1>k, <1>2, <1>3 DEF WorkInv

LEMMA ExecuteAccounts ==
  ASSUME LockInv, WorkInv, NEW r \in Runners, Claim(r) \/ RunNext(r)
  PROVE  WorkInv'
  <1>t. todo \in [Runners -> SUBSET Keys] /\ Keys \subseteq Nat
    BY DEF WorkInv, WorkTypes, Keys
  <1>1. CASE Claim(r)
    <2> DEFINE key == Min(Claimable(r))
    <2>1. key \in Claimable(r)
      <3>1. Claimable(r) \subseteq Nat /\ Claimable(r) # {}
        BY <1>t, <1>1 DEF Claimable, Claim
      <3>2. QED
        BY <3>1, MinExists
    <2>2. key \in Keys /\ key \notin InFlight(r) /\ key \notin Attempted(Target[r])
      BY <2>1 DEF Claimable
    <2>3. pc[r] = "run" /\ Launch(r, key) /\ UNCHANGED <<ledger, pc, todo>>
      BY <1>1 DEF Claim
    <2> HIDE DEF key
    <2>4. QED
      BY <1>t, <2>2, <2>3, LaunchAccounts
  <1>2. CASE RunNext(r)
    <2> DEFINE key == Min(todo[r])
    <2>1. key \in todo[r]
      <3>1. todo[r] \subseteq Nat /\ todo[r] # {}
        BY <1>t, <1>2 DEF RunNext
      <3>2. QED
        BY <3>1, MinExists
    <2>2. key \in Keys /\ key \notin InFlight(r) /\ r \notin Parallel
      BY <1>t, <1>2, <2>1 DEF RunNext, InFlight
    <2>3. pc[r] = "run" /\ Launch(r, key) /\ UNCHANGED <<ledger, pc>>
      BY <1>2 DEF RunNext
    <2>4. todo' \in [Runners -> SUBSET Keys]
      BY <1>t, <1>2 DEF RunNext
    <2> HIDE DEF key
    <2>5. QED
      BY <2>2, <2>3, <2>4, LaunchAccounts
  <1>3. QED
    BY <1>1, <1>2

\* The process ends and gets its row.  A dispatcher never finds a row there already.
LEMMA RecordAccounts ==
  ASSUME LockInv, WorkInv, NEW r \in Runners, Record(r)
  PROVE  WorkInv'
  <1>t. WorkTypes /\ ByRunning /\ pc \in [Runners -> PcValues]
    BY DEF WorkInv, LockInv, Types
  <1>1. PICK p \in ProcsOf(r) :
          /\ procs' = procs \ {p}
          /\ ledger' = IF r \in Parallel /\ p.key \in Attempted(Target[r]) THEN ledger
                       ELSE [ledger EXCEPT ![Target[r]] = Append(@, p.key)]
    BY DEF Record
  <1>2. PICK next \in {pc[r], "drain"} : pc' = [pc EXCEPT ![r] = next]
    BY DEF Record
  <1>p. pc[r] \in {"run", "drain"} /\ UNCHANGED <<todo, launched>>
    BY DEF Record
  <1> DEFINE home == Target[r]
             key == p.key
  <1>3. /\ p \in procs /\ p.by = r /\ p = [by |-> r, key |-> key] /\ key \in Keys
        /\ home \in Campaigns
    BY <1>t, RunnersOK DEF ProcsOf, WorkTypes
  <1>4. r \in Parallel => key \notin Attempted(home)
    BY <1>1, <1>p DEF WorkInv, InFlightNew, InFlight
  <1>5. ledger' = [ledger EXCEPT ![home] = Append(@, key)]
    BY <1>1, <1>4
  <1> HIDE DEF home, key
  <1>6. /\ pc'[r] \in {"run", "drain"} /\ \A s \in Runners \ {r} : pc'[s] = pc[s]
        /\ \A s \in Runners : Alive(s)' <=> Alive(s)
    BY <1>t, <1>2, <1>p DEF Alive
  <1>7. /\ ledger \in [Campaigns -> Seq(Keys)]
        /\ ledger[home] \in Seq(Keys) /\ ledger'[home] = Append(ledger[home], key)
        /\ \A c \in Campaigns \ {home} : ledger'[c] = ledger[c]
    BY <1>3, <1>5, <1>t DEF WorkTypes
  <1>8. WorkTypes' /\ ByRunning'
    <2>1. Append(ledger[home], key) \in Seq(Keys)
      BY <1>3, <1>7
    <2>2. ledger' \in [Campaigns -> Seq(Keys)]
      BY <1>5, <1>7, <2>1
    <2>3. WorkTypes'
      BY <1>1, <1>p, <1>t, <2>2 DEF WorkTypes
    <2>4. QED
      BY <1>1, <1>6, <1>t, <2>3 DEF ByRunning, WorkTypes
  <1>n. DEFINE n == Len(ledger[home])
  <1>9. /\ DOMAIN ledger[home] = 1..n /\ n \in Nat /\ DOMAIN ledger'[home] = 1..(n + 1)
        /\ \A i \in 1..n : ledger'[home][i] = ledger[home][i]
        /\ ledger'[home][n + 1] = key
    BY <1>3, <1>7
  <1> HIDE DEF n
  <1>10. InFlightNew'
    <2>1. ASSUME NEW s \in Parallel, pc'[s] \in {"run", "drain"}, NEW q \in procs', q.by = s
          PROVE  q.key \notin Attempted(Target[s])'
      <3>1. s \in Runners /\ q \in procs /\ q # p /\ q = [by |-> s, key |-> q.key]
        BY <1>1, <1>t, <2>1, RunnersOK DEF WorkTypes
      <3>2. pc[s] \in {"run", "drain"}
        BY <1>6, <1>p, <2>1, <3>1
      <3>3. q.key \notin Attempted(Target[s])
        BY <2>1, <3>1, <3>2 DEF WorkInv, InFlightNew, InFlight, ProcsOf
      <3>4. CASE Target[s] = home
        <4>1. HasLock(s) /\ HasLock(r)
          BY <1>p, <3>2 DEF HasLock
        <4>2. s = r
          BY <3>1, <3>4, <4>1 DEF LockInv, Owns, home
        <4>3. q.key # key
          BY <1>3, <3>1, <4>2
        <4>4. \A i \in DOMAIN ledger'[home] : i \in 1..n \/ i = n + 1
          BY <1>9
        <4>5. QED
          BY <1>9, <3>3, <3>4, <4>3, <4>4 DEF Attempted
      <3>5. CASE Target[s] # home
        <4>1. Target[s] \in Campaigns
          BY <3>1, RunnersOK
        <4>2. QED
          BY <1>7, <3>3, <3>5, <4>1 DEF Attempted
      <3>6. QED
        BY <3>4, <3>5
    <2>2. QED
      BY <2>1 DEF InFlightNew, InFlight, ProcsOf
  <1>k. \A c \in Campaigns : Killed(c)' = Killed(c)
    BY <1>6, <1>p DEF Killed
  <1>11. ASSUME NEW c \in Campaigns, NEW k \in Keys
         PROVE  Accounted(c, k)'
    <2>1. launched' = launched /\ Killed(c)' = Killed(c) /\ Accounted(c, k)
      BY <1>p, <1>k DEF WorkInv
    <2>2. CASE c = home /\ k = key
      <3>1. p \in Runs(c, k)
        BY <1>3, <1>p, <2>2 DEF Runs, Alive, home, key
      <3>2. Cardinality(Runs(c, k)) = 1
        BY <1>t, <3>1, RunsOnce
      <3>3. Runs(c, k)' = {}
        <4>1. \A q \in Runs(c, k)' : q \in Runs(c, k) /\ q # p
          BY <1>1, <1>6, <1>t DEF Runs, WorkTypes
        <4>2. QED
          BY <1>t, <3>1, <4>1, RunsOnce
      <3>4. RowsOf(c, k)' = RowsOf(c, k) \cup {n + 1} /\ n + 1 \notin RowsOf(c, k)
        <4>1. \A i : i \in 1..(n + 1) <=> i \in 1..n \/ i = n + 1
          BY <1>9
        <4>2. n + 1 \notin 1..n
          BY <1>9
        <4>3. /\ RowsOf(c, k) = {i \in 1..n : ledger[home][i] = key}
              /\ RowsOf(c, k)' = {i \in 1..(n + 1) : ledger'[home][i] = key}
          BY <1>9, <2>2 DEF RowsOf
        <4>4. {i \in 1..(n + 1) : ledger'[home][i] = key}
                = {i \in 1..n : ledger[home][i] = key} \cup {n + 1}
          BY <1>9, <4>1
        <4>5. QED
          BY <4>2, <4>3, <4>4
      <3>5. Cardinality(RowsOf(c, k)') = Cardinality(RowsOf(c, k)) + 1
        BY <1>t, <3>4, RowsFinite, FS_AddElement
      <3>6. Cardinality(Runs(c, k)') = 0
        BY <3>3, FS_EmptySet
      <3>7. QED
        BY <2>1, <3>2, <3>5, <3>6, CountTypes DEF Accounted, Known
    <2>3. CASE ~(c = home /\ k = key)
      <3>1. Runs(c, k)' = Runs(c, k)
        <4>1. p \notin Runs(c, k)
          BY <1>3, <2>3 DEF Runs, home, key
        <4>2. \A q \in procs : q.by \in Runners
          BY <1>t DEF WorkTypes
        <4>3. QED
          BY <1>1, <1>6, <4>1, <4>2 DEF Runs
      <3>2. RowsOf(c, k)' = RowsOf(c, k)
        <4>1. CASE c = home
          BY <1>9, <2>3, <4>1 DEF RowsOf
        <4>2. CASE c # home
          BY <1>7, <4>2 DEF RowsOf
        <4>3. QED
          BY <4>1, <4>2
      <3>3. QED
        BY <2>1, <3>1, <3>2 DEF Accounted, Known
    <2>4. QED
      BY <2>2, <2>3
  <1>12. QED
    BY <1>8, <1>10, <1>11, <1>k DEF WorkInv

\* A kill takes at most one attempt of each episode, whatever of its processes survives.
LEMMA CrashAccounts ==
  ASSUME LockInv, WorkInv, NEW r \in Runners, Crash(r)
  PROVE  WorkInv'
  <1>t. WorkTypes /\ ByRunning /\ pc \in [Runners -> PcValues]
    BY DEF WorkInv, LockInv, Types
  <1> DEFINE home == Target[r]
  <1>1. /\ pc[r] \notin {"idle", "ended", "refused", "crashed"}
        /\ pc' = [pc EXCEPT ![r] = "crashed"] /\ UNCHANGED <<ledger, todo, launched>>
        /\ home \in Campaigns
    BY RunnersOK DEF Crash, Leave, Alive
  <1>2. PICK dead \in SUBSET ProcsOf(r) : procs' = procs \ dead
    BY DEF Crash
  <1>3. /\ pc'[r] = "crashed" /\ \A s \in Runners \ {r} : pc'[s] = pc[s]
        /\ ~Alive(r)' /\ \A s \in Runners \ {r} : Alive(s)' <=> Alive(s)
        /\ \A q \in procs : q.by \in Runners /\ q = [by |-> q.by, key |-> q.key]
    BY <1>1, <1>t DEF Alive, WorkTypes
  <1>4. procs' \subseteq procs /\ \A q \in procs : q.by # r => q \in procs'
    BY <1>2 DEF ProcsOf
  <1> HIDE DEF home
  <1>5. /\ r \in Killed(home)' /\ r \notin Killed(home)
        /\ Killed(home)' = Killed(home) \cup {r}
        /\ \A c \in Campaigns \ {home} : Killed(c)' = Killed(c)
    BY <1>1, <1>3 DEF Killed, home
  <1>6. \A c \in Campaigns : /\ IsFiniteSet(Killed(c)') /\ Cardinality(Killed(c)) \in Nat
                              /\ Cardinality(Killed(c)') = IF c = home
                                   THEN Cardinality(Killed(c)) + 1 ELSE Cardinality(Killed(c))
    BY <1>1, <1>5, FS_AddElement, FS_CardinalityType DEF WorkInv
  <1>7. WorkTypes' /\ ByRunning'
    BY <1>1, <1>3, <1>4, <1>t DEF WorkTypes, ByRunning
  <1>8. InFlightNew'
    <2>1. ASSUME NEW s \in Parallel, pc'[s] \in {"run", "drain"}, NEW q \in procs', q.by = s
          PROVE  q.key \notin Attempted(Target[s])
      <3>1. s \in Runners /\ s # r /\ pc[s] \in {"run", "drain"} /\ q \in procs
        BY <1>3, <1>4, <2>1, RunnersOK
      <3>2. QED
        BY <2>1, <3>1 DEF WorkInv, InFlightNew, InFlight, ProcsOf
    <2>2. QED
      BY <1>1, <2>1 DEF InFlightNew, InFlight, ProcsOf, Attempted
  <1>9. ASSUME NEW c \in Campaigns, NEW k \in Keys
        PROVE  Accounted(c, k)'
    <2>1. Accounted(c, k) /\ launched' = launched
      BY <1>1 DEF WorkInv
    <2>2. RowsOf(c, k)' = RowsOf(c, k)
      BY <1>1 DEF RowsOf
    <2>3. CASE c = home /\ k \in InFlight(r)
      <3>1. PICK p \in procs : p.by = r /\ p.key = k
        BY <2>3 DEF InFlight, ProcsOf
      <3>2. p \in Runs(c, k)
        BY <1>1, <2>3, <3>1 DEF Runs, Alive, home
      <3>3. Cardinality(Runs(c, k)) = 1
        BY <1>t, <3>2, RunsOnce
      <3>4. Runs(c, k)' = {}
        <4>1. \A q \in Runs(c, k)' : q \in Runs(c, k) /\ q.by # r
          BY <1>3, <1>4 DEF Runs
        <4>2. QED
          BY <1>t, <3>1, <3>2, <4>1, RunsOnce
      <3>5. Cardinality(Runs(c, k)') = 0
        BY <3>4, FS_EmptySet
      <3>6. QED
        BY <1>6, <2>1, <2>2, <2>3, <3>3, <3>5, CountTypes DEF Accounted, Known
    <2>4. CASE ~(c = home /\ k \in InFlight(r))
      <3>1. \A q \in Runs(c, k) : q.by # r
        BY <2>4 DEF Runs, InFlight, ProcsOf, home
      <3>2. Runs(c, k)' = Runs(c, k)
        <4>1. \A q \in Runs(c, k)' : q \in Runs(c, k)
          BY <1>3, <1>4 DEF Runs
        <4>2. \A q \in Runs(c, k) : q \in Runs(c, k)'
          BY <1>3, <1>4, <3>1 DEF Runs
        <4>3. QED
          BY <4>1, <4>2
      <3>3. QED
        BY <1>6, <2>1, <2>2, <3>2, CountTypes DEF Accounted, Known
    <2>5. QED
      BY <2>3, <2>4
  <1>10. QED
    BY <1>6, <1>7, <1>8, <1>9 DEF WorkInv

LEMMA OrphanAccounts ==
  ASSUME LockInv, WorkInv, OrphanEnds
  PROVE  WorkInv'
  <1>1. PICK p \in procs : pc[p.by] = "crashed" /\ procs' = procs \ {p}
    BY DEF OrphanEnds
  <1>2. UNCHANGED <<ledger, todo, launched, pc>>
    BY DEF OrphanEnds
  <1>k. \A c \in Campaigns : Killed(c)' = Killed(c)
    BY <1>2 DEF Killed
  <1>3. WorkTypes' /\ ByRunning' /\ InFlightNew'
    <2>1. WorkTypes' /\ ByRunning'
      BY <1>1, <1>2 DEF WorkInv, WorkTypes, ByRunning
    <2>2. \A r : InFlight(r)' \subseteq InFlight(r)
      BY <1>1 DEF InFlight, ProcsOf
    <2>3. InFlightNew'
      BY <1>2, <2>2 DEF WorkInv, InFlightNew, Attempted
    <2>4. QED
      BY <2>1, <2>3
  <1>4. ASSUME NEW c \in Campaigns, NEW k \in Keys
        PROVE  Accounted(c, k)'
    <2>1. p \notin Runs(c, k)
      BY <1>1 DEF Runs, Alive
    <2>2. Runs(c, k)' = Runs(c, k)
      BY <1>1, <1>2, <2>1 DEF Runs, Alive
    <2>3. RowsOf(c, k)' = RowsOf(c, k)
      BY <1>2 DEF RowsOf
    <2>4. QED
      BY <1>2, <1>k, <2>2, <2>3 DEF WorkInv, Accounted, Known
  <1>5. QED
    BY <1>3, <1>4, <1>k DEF WorkInv

\* No attempt is forgotten, however many invocations run, end or are killed in whatever
\* order: a process that was started has its row or runs under a live runner, and a kill
\* costs an episode at most one attempt.  A campaign whose runners were never killed has
\* a row for each of its attempts that is not running, and no row without an attempt.
THEOREM NoAttemptForgotten == Spec => []AttemptsAccounted
  <1>1. LockInv /\ WorkInv /\ [Next]_vars => WorkInv'
    <2> SUFFICES ASSUME LockInv, WorkInv, [Next]_vars PROVE WorkInv'
      OBVIOUS
    <2>1. ASSUME NEW r \in Runners, Scan(r) \/ Acquire(r) \/ Finish(r)
          PROVE  WorkInv'
      BY <2>1, ScanAccounts
    <2>2. ASSUME NEW r \in Runners, Claim(r) \/ RunNext(r) \/ Record(r) \/ Crash(r)
          PROVE  WorkInv'
      BY <2>2, ExecuteAccounts, RecordAccounts, CrashAccounts
    <2>3. CASE OrphanEnds
      BY <2>3, OrphanAccounts
    <2>4. CASE MonitorTake \/ MonitorRelease \/ UNCHANGED vars
      <3>1. UNCHANGED <<ledger, procs, launched, todo, pc>>
        BY <2>4 DEF MonitorTake, MonitorRelease, vars, work
      <3>k. \A c \in Campaigns : Killed(c)' = Killed(c)
        BY <3>1 DEF Killed
      <3>2. QED
        BY <3>1, <3>k, SameWork DEF WorkInv, WorkTypes
    <2>5. QED
      BY <2>1, <2>2, <2>3, <2>4 DEF Next, Execute
  <1>2. WorkInv => AttemptsAccounted
    BY DEF WorkInv, Accounted, AttemptsAccounted
  <1>3. QED
    BY <1>1, <1>2, InitWork, LockInvariance, PTL DEF Spec
=============================================================================
