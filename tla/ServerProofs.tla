------------------------------ MODULE ServerProofs ------------------------------
(***************************************************************************)
(* Proofs about what surrounds the loops: Startup, for any number of       *)
(* instances and any configurations, contents and faults, WorkerPool, for  *)
(* any number of threads, permits, repositories and requests, and          *)
(* Discover, for any tree, any roots and any changes during the walk.      *)
(***************************************************************************)
EXTENDS Startup, WorkerPool, Discover, FiniteSetTheorems, TLAPS

-----------------------------------------------------------------------------
(* The life of the processes.                                              *)

LEMMA StartupTypeInductive == StartupTypeOK /\ [Next]_vars => StartupTypeOK'
<1> SUFFICES ASSUME StartupTypeOK, [Next]_vars PROVE StartupTypeOK'
  OBVIOUS
<1> USE StartupAssumption DEF StartupAssumption, StartupTypeOK, Texts, Phase
<1>1. CASE EditConfig \/ DiskChange
  BY <1>1 DEF EditConfig, DiskChange
<1>2. ASSUME NEW k \in Instances, Start(k) PROVE StartupTypeOK'
  BY <1>2 DEF Start, Go
<1>3. ASSUME NEW k \in Instances, Read(k) PROVE StartupTypeOK'
  <2>1. Readable(file) => Parsed(file) \in Configs
    BY DEF Readable, Parsed
  <2> QED BY <1>3, <2>1 DEF Read, Load, Go
<1>4. ASSUME NEW k \in Instances, Truncate(k) \/ WriteDefault(k) PROVE StartupTypeOK'
  BY <1>4 DEF Truncate, WriteDefault, Go
<1>5. ASSUME NEW k \in Instances, OpenDb(k) \/ Bind(k) PROVE StartupTypeOK'
  BY <1>5 DEF OpenDb, Bind, Go
<1>6. ASSUME NEW k \in Instances, Die(k) PROVE StartupTypeOK'
  BY <1>6 DEF Die, Go
<1>7. ASSUME NEW k \in Instances, Scan(k) \/ Check(k) PROVE StartupTypeOK'
  BY <1>7 DEF Scan, Check
<1>8. CASE UNCHANGED vars
  BY <1>8 DEF vars
<1> QED BY <1>1, <1>2, <1>3, <1>4, <1>5, <1>6, <1>7, <1>8 DEF Next, Goes

LEMMA InitStartupType == Init => StartupTypeOK
BY StartupAssumption DEF StartupAssumption, Init, StartupTypeOK, Texts, Phase

\* Every reachable state of disk, processes and history has its type.
THEOREM StartupTypeCorrect == Spec => []StartupTypeOK
BY InitStartupType, StartupTypeInductive, PTL DEF Spec

-----------------------------------------------------------------------------
(* The configuration in memory.                                            *)

\* LoadedIsFile holds from the moment the configuration is loaded.
LoadedInv ==
    \A k \in Instances :
        pc[k] \in {"opening", "binding", "serving"} /\ k \notin edited
            => Readable(file) /\ cfg[k] = Parsed(file)

\* Whoever is in step with the file stays so when it becomes empty and when the defaults
\* are written into it.
LEMMA SameMeaning ==
    ASSUME Readable(file), file \in {Absent, Empty, Default}
    PROVE  Parsed(file) = Default
BY StartupAssumption DEF StartupAssumption, Readable, Parsed

LEMMA EmptyMeansDefault ==
    /\ Readable(Empty) /\ Parsed(Empty) = Default
    /\ Readable(Default) /\ Parsed(Default) = Default
BY StartupAssumption DEF StartupAssumption, Readable, Parsed

\* A step that changes neither the file nor anyone's configuration, and lets no process
\* with another configuration go on.
LEMMA LoadedFrame ==
    ASSUME LoadedInv, UNCHANGED <<file, cfg, edited>>,
           \A k \in Instances : pc'[k] \in {"opening", "binding", "serving"}
                                  => pc[k] \in {"opening", "binding", "serving"}
    PROVE  LoadedInv'
BY DEF LoadedInv, Readable, Parsed

LEMMA LoadedInductive == StartupTypeOK /\ LoadedInv /\ [Next]_vars => LoadedInv'
<1> SUFFICES ASSUME StartupTypeOK, LoadedInv, [Next]_vars PROVE LoadedInv'
  OBVIOUS
<1> USE DEF StartupTypeOK
<1>1. CASE EditConfig
  BY <1>1 DEF EditConfig, LoadedInv
<1>2. CASE DiskChange
  BY <1>2, LoadedFrame DEF DiskChange
<1>3. ASSUME NEW k \in Instances, Start(k) PROVE LoadedInv'
  BY <1>3, LoadedFrame DEF Start, Go
<1>4. ASSUME NEW k \in Instances, Read(k) PROVE LoadedInv'
  <2>1. CASE Readable(file)
    <3>1. /\ \A j \in Instances \ {k} :
                pc'[j] = pc[j] /\ cfg'[j] = cfg[j] /\ (j \in edited' <=> j \in edited)
          /\ cfg'[k] = Parsed(file)
          /\ file' = file
      BY <1>4, <2>1 DEF Read, Load, Go
    <3> QED BY <3>1, <2>1 DEF LoadedInv, Readable, Parsed
  <2>2. CASE ~Readable(file)
    BY <1>4, <2>2, LoadedFrame DEF Read, Go
  <2> QED BY <2>1, <2>2
<1>5. ASSUME NEW k \in Instances, Truncate(k) PROVE LoadedInv'
  <2> SUFFICES ASSUME NEW j \in Instances, pc'[j] \in {"opening", "binding", "serving"},
                      j \notin edited'
               PROVE  Readable(file)' /\ cfg'[j] = Parsed(file)'
    BY DEF LoadedInv
  <2>1. pc[j] \in {"opening", "binding", "serving"} /\ cfg'[j] = cfg[j]
    BY <1>5 DEF Truncate, Go
  <2>2. file \in {Absent, Empty, Default} /\ j \notin edited
    BY <1>5 DEF Truncate
  <2>3. Readable(file) /\ cfg[j] = Parsed(file)
    BY <2>1, <2>2 DEF LoadedInv
  <2>4. cfg'[j] = Default /\ file' = Empty
    BY <1>5, <2>1, <2>2, <2>3, SameMeaning DEF Truncate
  <2> QED BY <2>4, EmptyMeansDefault DEF Readable, Parsed
<1>6. ASSUME NEW k \in Instances, WriteDefault(k) PROVE LoadedInv'
  <2> SUFFICES ASSUME NEW j \in Instances, pc'[j] \in {"opening", "binding", "serving"},
                      j \notin edited'
               PROVE  Readable(file)' /\ cfg'[j] = Parsed(file)'
    BY DEF LoadedInv
  <2>1. CASE j = k
    BY <1>6, <2>1, EmptyMeansDefault DEF WriteDefault, Readable, Parsed
  <2>2. CASE j # k
    <3>1. pc[j] \in {"opening", "binding", "serving"} /\ cfg'[j] = cfg[j]
      BY <1>6, <2>2 DEF WriteDefault, Go
    <3>2. file \in {Absent, Empty, Default} /\ j \notin edited
      BY <1>6, <2>2 DEF WriteDefault
    <3>3. Readable(file) /\ cfg[j] = Parsed(file)
      BY <3>1, <3>2 DEF LoadedInv
    <3>4. cfg'[j] = Default /\ file' = Default
      BY <1>6, <3>1, <3>2, <3>3, SameMeaning DEF WriteDefault
    <3> QED BY <3>4, EmptyMeansDefault DEF Readable, Parsed
  <2> QED BY <2>1, <2>2
<1>7. ASSUME NEW k \in Instances, OpenDb(k) \/ Bind(k) PROVE LoadedInv'
  BY <1>7, LoadedFrame DEF OpenDb, Bind, Go
<1>8. ASSUME NEW k \in Instances, Die(k) PROVE LoadedInv'
  <2>1. CASE file' = file
    BY <1>8, <2>1, LoadedFrame DEF Die, Go
  <2>2. CASE file' # file
    BY <1>8, <2>2 DEF Die, LoadedInv
  <2> QED BY <2>1, <2>2
<1>9. ASSUME NEW k \in Instances, Scan(k) \/ Check(k) PROVE LoadedInv'
  BY <1>9, LoadedFrame DEF Scan, Check
<1>10. CASE UNCHANGED vars
  BY <1>10, LoadedFrame DEF vars
<1> QED
  BY <1>1, <1>2, <1>3, <1>4, <1>5, <1>6, <1>7, <1>8, <1>9, <1>10 DEF Next, Goes

\* A process that serves, and whose file nobody has changed since it loaded it, has in
\* memory what the file says.
THEOREM FileIsLoaded == Spec => []LoadedIsFile
<1>1. Init => StartupTypeOK /\ LoadedInv
  BY InitStartupType DEF Init, LoadedInv
<1>2. StartupTypeOK /\ LoadedInv /\ [Next]_vars => (StartupTypeOK /\ LoadedInv)'
  BY StartupTypeInductive, LoadedInductive
<1>3. StartupTypeOK /\ LoadedInv => LoadedIsFile
  BY DEF LoadedInv, LoadedIsFile
<1> QED BY <1>1, <1>2, <1>3, PTL DEF Spec

-----------------------------------------------------------------------------
(* The caches of several processes.                                        *)

OneAddress == \A c, d \in Configs : c.addr = d.addr

\* With one address at most one process serves; a process that has not bound it yet has an
\* empty cache, and one that serves has a cache that the row agrees with.
OwnerInv ==
    /\ \A j, k \in Instances : pc[j] = "serving" /\ pc[k] = "serving" => j = k
    /\ \A k \in Instances : pc[k] = "binding" => cache[k] = Null
    /\ CacheAgrees

LEMMA OwnerFrame ==
    ASSUME OwnerInv, UNCHANGED <<row, cache>>,
           \A k \in Instances : pc'[k] \in {"binding", "serving"} => pc'[k] = pc[k]
    PROVE  OwnerInv'
BY DEF OwnerInv, CacheAgrees

LEMMA OwnerInductive ==
    ASSUME OneAddress
    PROVE  StartupTypeOK /\ OwnerInv /\ [Next]_vars => OwnerInv'
<1> SUFFICES ASSUME StartupTypeOK, OwnerInv, [Next]_vars PROVE OwnerInv'
  OBVIOUS
<1> USE DEF StartupTypeOK
<1>1. CASE EditConfig \/ DiskChange
  BY <1>1, OwnerFrame DEF EditConfig, DiskChange
<1>2. ASSUME NEW k \in Instances, Start(k) PROVE OwnerInv'
  BY <1>2, OwnerFrame DEF Start, Go
<1>3. ASSUME NEW k \in Instances, Read(k) PROVE OwnerInv'
  BY <1>3, OwnerFrame DEF Read, Load, Go
<1>4. ASSUME NEW k \in Instances, Truncate(k) \/ WriteDefault(k) PROVE OwnerInv'
  BY <1>4, OwnerFrame DEF Truncate, WriteDefault, Go
<1>5. ASSUME NEW k \in Instances, OpenDb(k) PROVE OwnerInv'
  BY <1>5 DEF OpenDb, Go, OwnerInv, CacheAgrees
<1>6. ASSUME NEW k \in Instances, Bind(k) PROVE OwnerInv'
  <2>1. CASE \E j \in Instances : pc[j] = "serving"
    <3>1. PICK j \in Instances : pc[j] = "serving" /\ cfg[j].addr = cfg[k].addr
      BY <2>1 DEF OneAddress
    <3>2. pc' = [pc EXCEPT ![k] = "off"] /\ UNCHANGED <<row, cache>>
      BY <1>6, <3>1 DEF Bind, Go
    <3> QED BY <3>2, OwnerFrame
  <2>2. CASE \A j \in Instances : pc[j] # "serving"
    <3>1. pc' = [pc EXCEPT ![k] = "serving"] /\ UNCHANGED <<row, cache>> /\ cache[k] = Null
      BY <1>6, <2>2 DEF Bind, Go, OwnerInv
    <3> QED BY <3>1, <2>2 DEF OwnerInv, CacheAgrees
  <2> QED BY <2>1, <2>2
<1>7. ASSUME NEW k \in Instances, Die(k) PROVE OwnerInv'
  BY <1>7, OwnerFrame DEF Die, Go
<1>8. ASSUME NEW k \in Instances, Scan(k) PROVE OwnerInv'
  <2>1. \A j \in Instances : pc[j] = "serving" => j = k
    BY <1>8 DEF Scan, Works, OwnerInv
  <2>2. cache[k] = Null
    BY <1>8, StartupAssumption
    DEF Scan, Works, OwnerInv, CacheAgrees, StartupAssumption
  <2> QED BY <1>8, <2>1, <2>2 DEF Scan, OwnerInv, CacheAgrees
<1>9. ASSUME NEW k \in Instances, Check(k) PROVE OwnerInv'
  <2>1. pc[k] = "serving" /\ pc' = pc /\ cache' = [cache EXCEPT ![k] = disk]
    BY <1>9 DEF Check, Works
  <2>2. row' = disk
    <3>1. cache[k] # Null => cache[k] = row
      BY <2>1 DEF OwnerInv, CacheAgrees
    <3> QED BY <1>9, <3>1 DEF Check
  <2>3. \A j \in Instances : pc[j] = "serving" => j = k
    BY <2>1 DEF OwnerInv
  <2>4. \A j \in Instances : pc[j] = "binding" => cache'[j] = Null
    BY <2>1 DEF OwnerInv
  <2> QED BY <2>1, <2>2, <2>3, <2>4 DEF OwnerInv, CacheAgrees
<1>10. CASE UNCHANGED vars
  BY <1>10, OwnerFrame DEF vars
<1> QED
  BY <1>1, <1>2, <1>3, <1>4, <1>5, <1>6, <1>7, <1>8, <1>9, <1>10 DEF Next, Goes

\* Where all configurations have one address, the cache of the process that serves agrees
\* with the table, through all restarts and handovers.
THEOREM CachesAgree ==
    ASSUME OneAddress
    PROVE  Spec => []CacheAgrees
<1>1. Init => StartupTypeOK /\ OwnerInv
  BY InitStartupType DEF Init, OwnerInv, CacheAgrees
<1>2. StartupTypeOK /\ OwnerInv /\ [Next]_vars => (StartupTypeOK /\ OwnerInv)'
  BY StartupTypeInductive, OwnerInductive
<1>3. StartupTypeOK /\ OwnerInv => CacheAgrees
  BY DEF OwnerInv
<1> QED BY <1>1, <1>2, <1>3, PTL DEF Spec

\* While the repository does not change, a row that is right is left alone by every
\* process, and every check of a discovered repository makes the row right.
StoreStep ==
    /\ row = disk /\ disk' = disk => row' = row
    /\ \A k \in Instances : Check(k) => row' = disk

\* The step that StoredInTheEnd rests on, where all configurations have one address: no
\* restart, second instance or cache of an earlier owner undoes what is stored, or keeps a
\* check from storing it.
THEOREM RightRowStays ==
    ASSUME OneAddress
    PROVE  Spec => [][StoreStep]_vars
<1>1. Init => StartupTypeOK /\ OwnerInv
  BY InitStartupType DEF Init, OwnerInv, CacheAgrees
<1>2. StartupTypeOK /\ OwnerInv /\ [Next]_vars => (StartupTypeOK /\ OwnerInv)'
  BY StartupTypeInductive, OwnerInductive
<1>3. StartupTypeOK /\ OwnerInv /\ [Next]_vars => [StoreStep]_vars
  <2> SUFFICES ASSUME StartupTypeOK, OwnerInv, [Next]_vars PROVE StoreStep
    OBVIOUS
  <2>1. ASSUME NEW k \in Instances, Check(k) PROVE row' = disk
    <3>1. cache[k] # Null => cache[k] = row
      BY <2>1 DEF Check, Works, OwnerInv, CacheAgrees
    <3> QED BY <2>1, <3>1 DEF Check
  <2>2. ASSUME NEW k \in Instances, Scan(k) PROVE row # disk
    BY <2>2, StartupAssumption DEF Scan, StartupTypeOK, StartupAssumption
  <2>3. ASSUME row = disk, disk' = disk PROVE row' = row
    BY <2>1, <2>2, <2>3
    DEF Next, Goes, EditConfig, DiskChange, Start, Read, Truncate, WriteDefault, OpenDb,
        Bind, Die, vars
  <2> QED BY <2>1, <2>3 DEF StoreStep
<1> QED BY <1>1, <1>2, <1>3, PTL DEF Spec

-----------------------------------------------------------------------------
(* Who serves.                                                             *)

\* No two processes serve at one address, whatever the configurations say.
OnePerAddress ==
    \A j, k \in Instances :
        pc[j] = "serving" /\ pc[k] = "serving" /\ cfg[j].addr = cfg[k].addr => j = k

\* A step that lets nobody begin to serve and changes no configuration of one who does.
LEMMA AddressFrame ==
    ASSUME OnePerAddress,
           \A k \in Instances :
               pc'[k] = "serving" => pc[k] = "serving" /\ cfg'[k] = cfg[k]
    PROVE  OnePerAddress'
BY DEF OnePerAddress

LEMMA AddressInductive == StartupTypeOK /\ OnePerAddress /\ [Next]_vars => OnePerAddress'
<1> SUFFICES ASSUME StartupTypeOK, OnePerAddress, [Next]_vars PROVE OnePerAddress'
  OBVIOUS
<1> USE DEF StartupTypeOK
<1>1. ASSUME UNCHANGED <<pc, cfg>> PROVE OnePerAddress'
  BY <1>1, AddressFrame
<1>2. ASSUME NEW k \in Instances, Start(k) \/ Truncate(k) \/ OpenDb(k) PROVE OnePerAddress'
  BY <1>2, AddressFrame DEF Start, Truncate, OpenDb, Go
<1>3. ASSUME NEW k \in Instances, Read(k) \/ WriteDefault(k) PROVE OnePerAddress'
  BY <1>3, AddressFrame DEF Read, WriteDefault, Load, Go
<1>4. ASSUME NEW k \in Instances, Bind(k) PROVE OnePerAddress'
  <2>1. CASE pc' = [pc EXCEPT ![k] = "off"]
    BY <1>4, <2>1, AddressFrame DEF Bind
  <2>2. CASE pc' # [pc EXCEPT ![k] = "off"]
    <3>1. /\ pc' = [pc EXCEPT ![k] = "serving"] /\ cfg' = cfg
          /\ \A j \in Instances : pc[j] = "serving" => cfg[j].addr # cfg[k].addr
      BY <1>4, <2>2 DEF Bind, Go
    <3> QED BY <3>1 DEF OnePerAddress
  <2> QED BY <2>1, <2>2
<1>5. ASSUME NEW k \in Instances, Die(k) PROVE OnePerAddress'
  BY <1>5, AddressFrame DEF Die, Go
<1> QED
  BY <1>1, <1>2, <1>3, <1>4, <1>5
  DEF Next, Goes, EditConfig, DiskChange, Scan, Check, vars

\* The test that bind makes is enough: no restart, edit of the file or second instance
\* leads to two servers of one address.
THEOREM OneServerPerAddress == Spec => []OnePerAddress
<1>1. Init => OnePerAddress
  BY DEF Init, OnePerAddress
<1> QED BY <1>1, InitStartupType, StartupTypeInductive, AddressInductive, PTL DEF Spec

\* How far a process is from serving.
Ahead == [off |-> 5, reading |-> 4, creating |-> 4, writing |-> 3, opening |-> 2,
          binding |-> 1, serving |-> 0]

\* A process that does not end only comes closer to serving; one that serves goes on with
\* the configuration that it has; and one that ends without a fault, while the file can be
\* read, leaves someone who serves at the address it wanted.
ServeStep ==
    \A k \in Instances :
        /\ pc'[k] # "off" => Ahead[pc'[k]] <= Ahead[pc[k]]
        /\ pc[k] = "serving" /\ faults' = faults
              => pc'[k] = "serving" /\ cfg'[k] = cfg[k]
        /\ pc[k] # "off" /\ pc'[k] = "off" /\ faults' = faults /\ Readable(file)
              => \E j \in Instances : pc'[j] = "serving" /\ cfg'[j].addr = cfg[k].addr

\* The steps that ComesUp rests on: nothing but a fault undoes what a start has reached,
\* and every start that runs to its end leaves the service running.
THEOREM StartsOnlyAdvance == Spec => [][ServeStep]_vars
<1>1. StartupTypeOK /\ [Next]_vars => [ServeStep]_vars
  <2> SUFFICES ASSUME StartupTypeOK, [Next]_vars, NEW j \in Instances
               PROVE  /\ pc'[j] # "off" => Ahead[pc'[j]] <= Ahead[pc[j]]
                      /\ pc[j] = "serving" /\ faults' = faults
                            => pc'[j] = "serving" /\ cfg'[j] = cfg[j]
                      /\ pc[j] # "off" /\ pc'[j] = "off" /\ faults' = faults
                            /\ Readable(file)
                            => \E i \in Instances :
                                  pc'[i] = "serving" /\ cfg'[i].addr = cfg[j].addr
    BY DEF ServeStep
  <2> DEFINE A == pc'[j] # "off" => Ahead[pc'[j]] <= Ahead[pc[j]]
             B == pc[j] = "serving" /\ faults' = faults
                     => pc'[j] = "serving" /\ cfg'[j] = cfg[j]
             C == pc[j] # "off" /\ pc'[j] = "off" /\ faults' = faults /\ Readable(file)
                     => \E i \in Instances :
                           pc'[i] = "serving" /\ cfg'[i].addr = cfg[j].addr
  <2>a. pc \in [Instances -> Phase] /\ cfg \in [Instances -> Configs]
    BY DEF StartupTypeOK
  <2>1. ASSUME pc'[j] = pc[j], cfg'[j] = cfg[j] PROVE A /\ B /\ C
    <3>1. Ahead[pc[j]] <= Ahead[pc[j]]
      BY <2>a DEF Ahead, Phase
    <3> QED BY <2>1, <3>1
  <2>2. ASSUME NEW k \in Instances, Start(k) \/ Truncate(k) \/ OpenDb(k) PROVE A /\ B /\ C
    <3>1. CASE j = k
      BY <2>2, <3>1, <2>a DEF Start, Truncate, OpenDb, Go, Ahead
    <3>2. CASE j # k
      BY <2>1, <2>2, <3>2, <2>a DEF Start, Truncate, OpenDb, Go
    <3> QED BY <3>1, <3>2
  <2>3. ASSUME NEW k \in Instances, Read(k) \/ WriteDefault(k) PROVE A /\ B /\ C
    <3>1. CASE j = k
      BY <2>3, <3>1, <2>a DEF Read, WriteDefault, Load, Go, Ahead
    <3>2. CASE j # k
      BY <2>1, <2>3, <3>2, <2>a DEF Read, WriteDefault, Load, Go
    <3> QED BY <3>1, <3>2
  <2>4. ASSUME NEW k \in Instances, Bind(k) PROVE A /\ B /\ C
    <3>1. CASE j # k
      BY <2>1, <2>4, <3>1, <2>a DEF Bind, Go
    <3>2. ASSUME j = k, NEW i \in Instances, pc[i] = "serving", cfg[i].addr = cfg[k].addr
          PROVE  A /\ B /\ C
      <4>1. pc[j] = "binding" /\ pc'[j] = "off" /\ pc'[i] = "serving" /\ cfg' = cfg
        BY <2>4, <3>2, <2>a DEF Bind, Go
      <4> QED BY <3>2, <4>1
    <3>3. ASSUME j = k,
                 ~\E i \in Instances : pc[i] = "serving" /\ cfg[i].addr = cfg[k].addr
          PROVE  A /\ B /\ C
      <4>1. pc[j] = "binding" /\ pc'[j] = "serving"
        BY <2>4, <3>3, <2>a DEF Bind, Go
      <4> QED BY <4>1 DEF Ahead
    <3> QED BY <3>1, <3>2, <3>3
  <2>5. ASSUME NEW k \in Instances, Die(k) PROVE A /\ B /\ C
    <3>1. CASE j = k
      <4>1. pc'[j] = "off" /\ faults' # faults
        BY <2>5, <3>1, <2>a DEF Die, Go, StartupTypeOK
      <4> QED BY <4>1
    <3>2. CASE j # k
      BY <2>1, <2>5, <3>2, <2>a DEF Die, Go
    <3> QED BY <3>1, <3>2
  <2>6. ASSUME UNCHANGED <<pc, cfg>> PROVE A /\ B /\ C
    BY <2>1, <2>6
  <2> QED
    BY <2>2, <2>3, <2>4, <2>5, <2>6
    DEF Next, Goes, EditConfig, DiskChange, Scan, Check, vars
<1> QED BY <1>1, InitStartupType, StartupTypeInductive, PTL DEF Spec

-----------------------------------------------------------------------------
(* The pool of blocking threads.                                           *)

JobOf(n, k, p) == pool[n].by = k /\ pool[n].path = p

\* A task that waits has a job, a job that is waited for has its task, and no two jobs are
\* waited for by the same task.
JobsMatchTasks ==
    /\ \A k \in Procs, p \in Repos :
          task[k][p] = "sent" <=> \E n \in DOMAIN pool : JobOf(n, k, p)
    /\ \A i, j \in DOMAIN pool :
          pool[i].by # Nobody /\ pool[i].by = pool[j].by /\ pool[i].path = pool[j].path
              => i = j

PoolInv == WorkerPoolTypeOK /\ JobsMatchTasks

Job == [git : BOOLEAN, path : Repos, by : Procs \cup {Nobody}]

LEMMA ProcFacts ==
    CheckLoop \in Procs /\ FetchLoop \in Procs /\ Cards \subseteq Procs /\ Nobody \notin Procs
BY WorkerPoolAssumption DEF Procs, WorkerPoolAssumption

LEMMA RemovedJob ==
    ASSUME NEW S, NEW s \in Seq(S), NEW n \in DOMAIN s
    PROVE  /\ RemoveAt(s, n) \in Seq(S)
           /\ DOMAIN RemoveAt(s, n) = 1 .. Len(s) - 1
           /\ \A i \in 1 .. Len(s) - 1 :
                 RemoveAt(s, n)[i] = IF i < n THEN s[i] ELSE s[i + 1]
<1> DEFINE a == SubSeq(s, 1, n - 1)
           b == SubSeq(s, n + 1, Len(s))
<1>1. n \in 1 .. Len(s) /\ Len(s) \in Nat
  OBVIOUS
<1>2. a \in Seq(S) /\ Len(a) = n - 1 /\ \A i \in 1 .. n - 1 : a[i] = s[i]
  BY <1>1
<1>3. b \in Seq(S) /\ Len(b) = Len(s) - n /\ \A i \in 1 .. Len(s) - n : b[i] = s[n + i]
  BY <1>1
<1>4. RemoveAt(s, n) = a \o b
  BY DEF RemoveAt
<1> HIDE DEF a, b
<1>5. /\ a \o b \in Seq(S) /\ Len(a \o b) = Len(s) - 1
      /\ \A i \in 1 .. Len(s) - 1 :
            (a \o b)[i] = IF i <= Len(a) THEN a[i] ELSE b[i - Len(a)]
  <2>1. a \in Seq(S) /\ b \in Seq(S)
    BY <1>2, <1>3
  <2>2. a \o b \in Seq(S) /\ Len(a \o b) = Len(a) + Len(b)
    BY <2>1
  <2>3. Len(a) + Len(b) = Len(s) - 1
    BY <1>1, <1>2, <1>3
  <2>4. \A i \in 1 .. Len(a) + Len(b) :
           (a \o b)[i] = IF i <= Len(a) THEN a[i] ELSE b[i - Len(a)]
    BY <2>1
  <2> QED BY <2>2, <2>3, <2>4
<1>6. ASSUME NEW i \in 1 .. Len(s) - 1 PROVE (a \o b)[i] = IF i < n THEN s[i] ELSE s[i + 1]
  <2>1. CASE i < n
    <3>1. i <= Len(a) /\ i \in 1 .. n - 1
      BY <2>1, <1>1, <1>2
    <3> QED BY <3>1, <2>1, <1>2, <1>5
  <2>2. CASE ~(i < n)
    <3>1. /\ ~(i <= Len(a)) /\ i - Len(a) \in 1 .. Len(s) - n
          /\ n + (i - Len(a)) = i + 1
      BY <2>2, <1>1, <1>2
    <3> QED BY <3>1, <2>2, <1>3, <1>5
  <2> QED BY <2>1, <2>2
<1>7. DOMAIN (a \o b) = 1 .. Len(s) - 1
  BY <1>5
<1> QED BY <1>4, <1>5, <1>6, <1>7

LEMMA MinOfTwo ==
    ASSUME NEW a \in Nat, NEW b \in Nat
    PROVE  Min({a, b}) \in {a, b} /\ Min({a, b}) <= a /\ Min({a, b}) <= b
<1>1. \E x \in {a, b} : \A y \in {a, b} : x <= y
  OBVIOUS
<1> QED BY <1>1 DEF Min

LEMMA InitPool == PoolInit => PoolInv
<1> SUFFICES ASSUME PoolInit PROVE PoolInv
  OBVIOUS
<1>1. pool = << >> /\ DOMAIN pool = {}
  BY DEF PoolInit
<1>2. \A k \in Procs, p \in Repos : task[k][p] = "none"
  BY DEF PoolInit, None
<1>3. WorkerPoolTypeOK
  BY <1>1 DEF PoolInit, None, WorkerPoolTypeOK
<1> QED BY <1>1, <1>2, <1>3 DEF PoolInv, JobsMatchTasks

\* A job is sent, and its task waits for it from now on.
LEMMA SendJob ==
    ASSUME PoolInv, NEW k \in Procs, NEW p \in Repos, task[k][p] # "sent",
           pool' = SpawnBlocking(k, p), task' = [task EXCEPT ![k][p] = "sent"]
    PROVE  pool' \in Seq(Job) /\ task' \in [Procs -> [Repos -> {"none", "listed", "sent", "done"}]]
               /\ JobsMatchTasks'
<1> DEFINE new == [git |-> k = FetchLoop, path |-> p, by |-> k]
<1>1. pool \in Seq(Job) /\ task \in [Procs -> [Repos -> {"none", "listed", "sent", "done"}]]
      /\ JobsMatchTasks
  BY DEF PoolInv, WorkerPoolTypeOK, Job
<1>2. new \in Job
  BY DEF Job
<1>3. /\ pool' \in Seq(Job)
      /\ DOMAIN pool' = 1 .. Len(pool) + 1 /\ DOMAIN pool = 1 .. Len(pool) /\ Len(pool) \in Nat
      /\ \A n \in DOMAIN pool : pool'[n] = pool[n]
      /\ pool'[Len(pool) + 1].by = k /\ pool'[Len(pool) + 1].path = p
  <2> HIDE DEF new
  <2>1. pool' = Append(pool, new)
    BY DEF SpawnBlocking, new
  <2>2. /\ pool' \in Seq(Job)
        /\ DOMAIN pool' = 1 .. Len(pool) + 1 /\ DOMAIN pool = 1 .. Len(pool) /\ Len(pool) \in Nat
        /\ \A n \in DOMAIN pool : pool'[n] = pool[n]
        /\ pool'[Len(pool) + 1] = new
    BY <1>1, <1>2, <2>1
  <2>3. new.by = k /\ new.path = p
    BY DEF new
  <2> QED BY <2>2, <2>3
<1>4. /\ task' \in [Procs -> [Repos -> {"none", "listed", "sent", "done"}]]
      /\ task'[k][p] = "sent"
      /\ \A j \in Procs, q \in Repos : (j # k \/ q # p) => task'[j][q] = task[j][q]
  BY <1>1
<1>5. ASSUME NEW j \in Procs, NEW q \in Repos
      PROVE  task'[j][q] = "sent"
                 <=> \E n \in DOMAIN pool' : pool'[n].by = j /\ pool'[n].path = q
  <2>1. CASE j = k /\ q = p
    <3>1. Len(pool) + 1 \in DOMAIN pool'
      BY <1>3
    <3> QED BY <2>1, <3>1, <1>3, <1>4
  <2>2. CASE j # k \/ q # p
    <3>1. task[j][q] = "sent" <=> \E n \in DOMAIN pool : pool[n].by = j /\ pool[n].path = q
      BY <1>1 DEF JobsMatchTasks, JobOf
    <3>2. \A n \in DOMAIN pool' : n \in DOMAIN pool \/ n = Len(pool) + 1
      BY <1>3
    <3>3. DOMAIN pool \subseteq DOMAIN pool'
      BY <1>3
    <3> QED BY <2>2, <3>1, <3>2, <3>3, <1>3, <1>4
  <2> QED BY <2>1, <2>2
<1>6. \A n \in DOMAIN pool : ~(pool[n].by = k /\ pool[n].path = p)
  BY <1>1 DEF JobsMatchTasks, JobOf
<1>7. ASSUME NEW i \in DOMAIN pool', NEW j \in DOMAIN pool',
             pool'[i].by # Nobody, pool'[i].by = pool'[j].by, pool'[i].path = pool'[j].path
      PROVE  i = j
  <2>1. /\ i \in DOMAIN pool \/ i = Len(pool) + 1
        /\ j \in DOMAIN pool \/ j = Len(pool) + 1
    BY <1>3
  <2>2. CASE i \in DOMAIN pool /\ j \in DOMAIN pool
    BY <2>2, <1>1, <1>3, <1>7 DEF JobsMatchTasks
  <2> QED BY <2>1, <2>2, <1>3, <1>6, <1>7
<1> QED BY <1>3, <1>4, <1>5, <1>7 DEF JobsMatchTasks, JobOf

\* The tasks of k for S give up waiting for their jobs.
LEMMA AbandonJobs ==
    ASSUME PoolInv, NEW k \in Procs, NEW S \in SUBSET Repos, Abandon(k, S),
           task' \in [Procs -> [Repos -> {"none", "listed", "sent", "done"}]],
           \A p \in S : task'[k][p] # "sent",
           \A j \in Procs, p \in Repos : (j # k \/ p \notin S) => task'[j][p] = task[j][p]
    PROVE  pool' \in Seq(Job) /\ JobsMatchTasks'
<1>1. pool \in Seq(Job) /\ JobsMatchTasks
  BY DEF PoolInv, WorkerPoolTypeOK, Job
<1>2. /\ DOMAIN pool' = DOMAIN pool
      /\ \A n \in DOMAIN pool :
            pool'[n] = IF pool[n].by = k /\ pool[n].path \in S
                       THEN [pool[n] EXCEPT !.by = Nobody] ELSE pool[n]
  BY DEF Abandon
<1>3. \A n \in DOMAIN pool : pool[n] \in Job
  BY <1>1
<1>4. ASSUME NEW n \in DOMAIN pool
      PROVE  /\ pool'[n] \in Job /\ pool'[n].path = pool[n].path
             /\ pool'[n].by = IF pool[n].by = k /\ pool[n].path \in S THEN Nobody
                              ELSE pool[n].by
  BY <1>2, <1>3 DEF Job
<1>5. pool' \in Seq(Job)
  <2>1. DOMAIN pool = 1 .. Len(pool) /\ Len(pool) \in Nat
    BY <1>1
  <2>2. pool' = [n \in 1 .. Len(pool) |-> pool'[n]]
    BY <2>1 DEF Abandon
  <2> QED BY <1>4, <2>1, <2>2
<1>6. ASSUME NEW j \in Procs, NEW q \in Repos
      PROVE  task'[j][q] = "sent"
                 <=> \E n \in DOMAIN pool' : pool'[n].by = j /\ pool'[n].path = q
  <2>1. j # Nobody
    BY ProcFacts
  <2>2. task[j][q] = "sent" <=> \E n \in DOMAIN pool : pool[n].by = j /\ pool[n].path = q
    BY <1>1 DEF JobsMatchTasks, JobOf
  <2>3. CASE j = k /\ q \in S
    BY <2>1, <2>3, <1>2, <1>4
  <2>4. CASE j # k \/ q \notin S
    BY <2>1, <2>2, <2>4, <1>2, <1>4
  <2> QED BY <2>3, <2>4
<1>7. ASSUME NEW i \in DOMAIN pool', NEW j \in DOMAIN pool',
             pool'[i].by # Nobody, pool'[i].by = pool'[j].by, pool'[i].path = pool'[j].path
      PROVE  i = j
  <2>1. pool[i].by = pool'[i].by /\ pool[j].by = pool'[j].by
    BY <1>2, <1>4, <1>7
  <2> QED BY <2>1, <1>1, <1>2, <1>4, <1>7 DEF JobsMatchTasks
<1> QED BY <1>5, <1>6, <1>7 DEF JobsMatchTasks, JobOf

\* A job ends, and so does the waiting for it.
LEMMA EndJob ==
    ASSUME PoolInv, NEW n \in DOMAIN pool, End(n)
    PROVE  PoolInv'
<1> DEFINE Left == 1 .. Len(pool) - 1
           was(i) == IF i < n THEN i ELSE i + 1
<1>1. /\ pool \in Seq(Job) /\ task \in [Procs -> [Repos -> {"none", "listed", "sent", "done"}]]
      /\ busy \in SUBSET Procs /\ JobsMatchTasks
  BY DEF PoolInv, WorkerPoolTypeOK, Job
<1>2. pool[n] \in Job /\ n \in 1 .. Len(pool) /\ Len(pool) \in Nat /\ DOMAIN pool = 1 .. Len(pool)
  BY <1>1
<1>3. /\ pool' \in Seq(Job) /\ DOMAIN pool' = Left
      /\ \A i \in Left : pool'[i] = pool[was(i)]
  <2>1. pool' = RemoveAt(pool, n)
    BY DEF End
  <2>2. /\ RemoveAt(pool, n) \in Seq(Job)
        /\ DOMAIN RemoveAt(pool, n) = Left
        /\ \A i \in Left : RemoveAt(pool, n)[i] = IF i < n THEN pool[i] ELSE pool[i + 1]
    BY <1>1, RemovedJob
  <2> QED BY <2>1, <2>2
<1>4. /\ \A i \in Left : was(i) \in DOMAIN pool /\ was(i) # n
      /\ \A m \in DOMAIN pool : m # n => \E i \in Left : was(i) = m
      /\ \A i, j \in Left : was(i) = was(j) => i = j
  <2>1. \A i \in Left : was(i) \in DOMAIN pool /\ was(i) # n
    BY <1>2
  <2>2. ASSUME NEW m \in DOMAIN pool, m # n PROVE \E i \in Left : was(i) = m
    <3>1. CASE m < n
      <4>1. m \in Left /\ was(m) = m
        BY <3>1, <1>2
      <4> QED BY <4>1
    <3>2. CASE m > n
      <4>1. m - 1 \in Left /\ was(m - 1) = m
        BY <3>2, <1>2
      <4> QED BY <4>1
    <3> QED BY <2>2, <3>1, <3>2, <1>2
  <2>3. \A i, j \in Left : was(i) = was(j) => i = j
    BY <1>2
  <2> QED BY <2>1, <2>2, <2>3
<1> HIDE DEF was, Left
<1>5. ASSUME NEW k \in Procs, NEW p \in Repos
      PROVE  (\E i \in DOMAIN pool' : pool'[i].by = k /\ pool'[i].path = p)
                 <=> /\ \E m \in DOMAIN pool : pool[m].by = k /\ pool[m].path = p
                     /\ ~(pool[n].by = k /\ pool[n].path = p)
  <2>1. k # Nobody
    BY ProcFacts
  <2>2. \A m \in DOMAIN pool : pool[m].by = k /\ pool[m].path = p
                                   /\ pool[n].by = k /\ pool[n].path = p => m = n
    BY <2>1, <1>1 DEF JobsMatchTasks
  <2> QED BY <2>2, <1>3, <1>4
<1>6. ASSUME NEW k \in Procs, NEW p \in Repos
      PROVE  /\ task'[k][p] = IF pool[n].by = k /\ pool[n].path = p THEN "done" ELSE task[k][p]
             /\ task' \in [Procs -> [Repos -> {"none", "listed", "sent", "done"}]]
  <2>1. pool[n].by \in Procs \cup {Nobody} /\ pool[n].path \in Repos
    BY <1>2 DEF Job
  <2>2. task' = IF pool[n].by = Nobody THEN task
                ELSE [task EXCEPT ![pool[n].by][pool[n].path] = "done"]
    BY DEF End
  <2> QED BY <2>1, <2>2, <1>1, ProcFacts
<1>7. task' \in [Procs -> [Repos -> {"none", "listed", "sent", "done"}]]
  <2>1. pool[n].by \in Procs \cup {Nobody} /\ pool[n].path \in Repos
    BY <1>2 DEF Job
  <2>2. task' = IF pool[n].by = Nobody THEN task
                ELSE [task EXCEPT ![pool[n].by][pool[n].path] = "done"]
    BY DEF End
  <2> QED BY <2>1, <2>2, <1>1
<1>8. ASSUME NEW i \in DOMAIN pool', NEW j \in DOMAIN pool',
             pool'[i].by # Nobody, pool'[i].by = pool'[j].by, pool'[i].path = pool'[j].path
      PROVE  i = j
  <2>1. /\ was(i) \in DOMAIN pool /\ was(j) \in DOMAIN pool
        /\ pool'[i] = pool[was(i)] /\ pool'[j] = pool[was(j)]
    BY <1>3, <1>4
  <2>2. was(i) = was(j)
    BY <2>1, <1>1, <1>8 DEF JobsMatchTasks
  <2> QED BY <2>2, <1>3, <1>4
<1>9. JobsMatchTasks'
  <2>1. ASSUME NEW k \in Procs, NEW p \in Repos
        PROVE  task'[k][p] = "sent"
                   <=> \E i \in DOMAIN pool' : pool'[i].by = k /\ pool'[i].path = p
    BY <1>1, <1>5, <1>6 DEF JobsMatchTasks, JobOf
  <2> QED BY <2>1, <1>8 DEF JobsMatchTasks, JobOf
<1>10. busy' \in SUBSET Procs
  BY <1>1 DEF End
<1> QED BY <1>3, <1>7, <1>9, <1>10 DEF PoolInv, WorkerPoolTypeOK, Job

\* Tasks that do not wait before and do not wait afterwards leave the jobs alone.
LEMMA OtherTasks ==
    ASSUME PoolInv, UNCHANGED pool, busy' \in SUBSET Procs,
           task' \in [Procs -> [Repos -> {"none", "listed", "sent", "done"}]],
           \A k \in Procs, p \in Repos : task'[k][p] = "sent" <=> task[k][p] = "sent"
    PROVE  PoolInv'
BY DEF PoolInv, WorkerPoolTypeOK, JobsMatchTasks, JobOf

\* One who is not in a pass has no task.
IdleInv == \A k \in Procs \ busy : task[k] = None

LEMMA PoolInductive == PoolInv /\ IdleInv /\ [PoolNext]_poolVars => PoolInv' /\ IdleInv'
<1> SUFFICES ASSUME PoolInv, IdleInv, [PoolNext]_poolVars PROVE PoolInv' /\ IdleInv'
  OBVIOUS
<1> DEFINE Tasks == [Procs -> [Repos -> {"none", "listed", "sent", "done"}]]
<1>a. pool \in Seq(Job) /\ busy \in SUBSET Procs /\ task \in Tasks
  BY DEF PoolInv, WorkerPoolTypeOK, Job
<1>1. ASSUME NEW n \in Running, End(n) PROVE PoolInv' /\ IdleInv'
  <2>1. n \in DOMAIN pool
    <3>1. Len(pool) \in Nat /\ DOMAIN pool = 1 .. Len(pool)
      BY <1>a
    <3>2. /\ Min({Threads, Len(pool)}) \in Nat
          /\ Min({Threads, Len(pool)}) <= Len(pool)
      BY <3>1, MinOfTwo, WorkerPoolAssumption DEF WorkerPoolAssumption
    <3>3. n \in 1 .. Min({Threads, Len(pool)})
      BY DEF Running
    <3> HIDE DEF Tasks
    <3> QED BY <3>1, <3>2, <3>3
  <2>2. PoolInv'
    BY <1>1, <2>1, EndJob
  <2>3. ASSUME NEW k \in Procs \ busy' PROVE task'[k] = None
    <3>1. k \in Procs \ busy /\ task[k] = None
      BY <1>1 DEF End, IdleInv
    <3>2. pool[n].by # k
      <4>1. \A p \in Repos : task[k][p] # "sent"
        BY <3>1 DEF None
      <4>2. pool[n].path \in Repos
        <5>1. pool[n] \in Job
          BY <1>a, <2>1
        <5> QED BY <5>1 DEF Job
      <4> QED BY <3>1, <4>1, <4>2, <2>1 DEF PoolInv, JobsMatchTasks, JobOf
    <3> QED BY <1>1, <3>1, <3>2, <1>a DEF End
  <2> QED BY <2>2, <2>3 DEF IdleInv
<1>2. ASSUME NEW k \in Procs, NEW S \in SUBSET Repos, Begin(k, S) PROVE PoolInv' /\ IdleInv'
  <2>1. task[k] = None
    BY <1>2 DEF Begin, IdleInv
  <2>2. task' = [task EXCEPT ![k] = [p \in Repos |-> IF p \in S THEN "listed" ELSE "none"]]
        /\ pool' = pool /\ busy' = busy \cup {k}
    BY <1>2 DEF Begin
  <2>3. /\ task' \in Tasks
        /\ \A p \in Repos : task'[k][p] # "sent" /\ task[k][p] # "sent"
        /\ \A j \in Procs : j # k => task'[j] = task[j]
    BY <2>1, <2>2, <1>a DEF None
  <2>4. PoolInv'
    BY <2>2, <2>3, <1>a, OtherTasks
  <2> QED BY <2>2, <2>3, <2>4 DEF IdleInv
<1>3. ASSUME NEW k \in Cards, NEW p \in Repos, RequestCard(k, p) PROVE PoolInv' /\ IdleInv'
  <2>1. k \in Procs /\ task[k] = None
    BY <1>3, ProcFacts DEF RequestCard, IdleInv
  <2>2. task[k][p] # "sent"
    BY <2>1 DEF None
  <2>3. /\ task' = [task EXCEPT ![k][p] = "sent"] /\ pool' = SpawnBlocking(k, p)
        /\ busy' = busy \cup {k}
    BY <1>3 DEF RequestCard
  <2>4. pool' \in Seq(Job) /\ task' \in Tasks /\ JobsMatchTasks'
    BY <2>1, <2>2, <2>3, SendJob
  <2>5. \A j \in Procs : j # k => task'[j] = task[j]
    BY <2>3, <1>a
  <2> QED BY <2>1, <2>3, <2>4, <2>5, <1>a DEF PoolInv, WorkerPoolTypeOK, Job, IdleInv
<1>4. ASSUME NEW k \in Procs, NEW p \in Repos, Spawn(k, p) PROVE PoolInv' /\ IdleInv'
  <2>1. task[k][p] = "listed" /\ task[k][p] # "sent"
    BY <1>4 DEF Spawn
  <2>2. k \in busy
    BY <2>1 DEF IdleInv, None
  <2>3. /\ task' = [task EXCEPT ![k][p] = "sent"] /\ pool' = SpawnBlocking(k, p)
        /\ busy' = busy
    BY <1>4 DEF Spawn
  <2>4. pool' \in Seq(Job) /\ task' \in Tasks /\ JobsMatchTasks'
    BY <2>1, <2>3, SendJob
  <2>5. \A j \in Procs : j # k => task'[j] = task[j]
    BY <2>3, <1>a
  <2> QED BY <2>2, <2>3, <2>4, <2>5, <1>a DEF PoolInv, WorkerPoolTypeOK, Job, IdleInv
<1>5. ASSUME NEW k \in Procs, NEW p \in Repos, Resume(k, p) PROVE PoolInv' /\ IdleInv'
  <2>1. /\ task[k][p] = "done" /\ task' = [task EXCEPT ![k][p] = "none"]
        /\ UNCHANGED <<pool, busy>>
    BY <1>5 DEF Resume
  <2>2. k \in busy
    BY <2>1 DEF IdleInv, None
  <2>3. /\ task' \in Tasks
        /\ \A j \in Procs, q \in Repos : task'[j][q] = "sent" <=> task[j][q] = "sent"
        /\ \A j \in Procs : j # k => task'[j] = task[j]
    BY <2>1, <1>a
  <2>4. PoolInv'
    BY <2>1, <2>3, <1>a, OtherTasks
  <2> QED BY <2>1, <2>2, <2>3, <2>4 DEF IdleInv
<1>6. ASSUME NEW p \in Repos, Timeout(p) PROVE PoolInv' /\ IdleInv'
  <2>1. /\ task[FetchLoop][p] = "sent" /\ task' = [task EXCEPT ![FetchLoop][p] = "none"]
        /\ Abandon(FetchLoop, {p}) /\ busy' = busy
    BY <1>6 DEF Timeout
  <2>2. FetchLoop \in Procs /\ FetchLoop \in busy
    BY <2>1, ProcFacts DEF IdleInv, None
  <2>3. /\ task' \in Tasks
        /\ \A q \in {p} : task'[FetchLoop][q] # "sent"
        /\ \A j \in Procs, q \in Repos :
              (j # FetchLoop \/ q \notin {p}) => task'[j][q] = task[j][q]
        /\ \A j \in Procs : j # FetchLoop => task'[j] = task[j]
    BY <2>1, <2>2, <1>a
  <2>4. pool' \in Seq(Job) /\ JobsMatchTasks'
    <3>1. {p} \in SUBSET Repos
      OBVIOUS
    <3> HIDE DEF Tasks
    <3> QED BY <2>1, <2>2, <2>3, <3>1, AbandonJobs DEF Tasks
  <2> QED BY <2>1, <2>2, <2>3, <2>4, <1>a DEF PoolInv, WorkerPoolTypeOK, Job, IdleInv
<1>7. ASSUME NEW k \in Procs, Finish(k) PROVE PoolInv' /\ IdleInv'
  <2>1. task[k] = None /\ busy' = busy \ {k} /\ UNCHANGED <<pool, task>>
    BY <1>7 DEF Finish
  <2>2. PoolInv'
    BY <2>1, <1>a, OtherTasks
  <2> QED BY <2>1, <2>2 DEF IdleInv, None
<1>8. ASSUME NEW k \in Cards, Disconnect(k) PROVE PoolInv' /\ IdleInv'
  <2>1. /\ k \in Procs /\ task' = [task EXCEPT ![k] = None]
        /\ Abandon(k, Repos) /\ busy' = busy \ {k}
    BY <1>8, ProcFacts DEF Disconnect
  <2>2. /\ task' \in Tasks /\ task'[k] = None
        /\ \A q \in Repos : task'[k][q] # "sent"
        /\ \A j \in Procs : j # k => task'[j] = task[j]
    BY <2>1, <1>a DEF None
  <2>3. pool' \in Seq(Job) /\ JobsMatchTasks'
    BY <2>1, <2>2, AbandonJobs
  <2> QED BY <2>1, <2>2, <2>3, <1>a DEF PoolInv, WorkerPoolTypeOK, Job, IdleInv
<1>9. CASE UNCHANGED poolVars
  BY <1>9 DEF poolVars, PoolInv, WorkerPoolTypeOK, JobsMatchTasks, JobOf, IdleInv
<1> QED BY <1>1, <1>2, <1>3, <1>4, <1>5, <1>6, <1>7, <1>8, <1>9, ProcFacts
        DEF PoolNext, BeginCheck, BeginFetch

LEMMA PoolInvariant == PoolSpec => [](PoolInv /\ IdleInv)
<1>1. PoolInit => PoolInv /\ IdleInv
  BY InitPool DEF PoolInit, IdleInv
<1> QED BY <1>1, PoolInductive, PTL DEF PoolSpec

\* The variables of the pool and of the passes keep their types.
THEOREM WorkerPoolTypeCorrect == PoolSpec => []WorkerPoolTypeOK
<1>1. PoolInv => WorkerPoolTypeOK
  BY DEF PoolInv
<1> QED BY <1>1, PoolInvariant, PTL

\* No pass has more than Concurrency operations under way (a card has one).
PermitsBounded ==
    \A k \in Procs : IsFiniteSet(Permits(k)) /\ Cardinality(Permits(k)) <= Concurrency

\* A permit is taken where fewer than all are, and otherwise only given back.
LEMMA PermitStep ==
    ASSUME PoolInv, NEW k \in Procs, IsFiniteSet(Permits(k)),
           Cardinality(Permits(k)) <= Concurrency,
           \/ Permits(k)' \subseteq Permits(k)
           \/ /\ Cardinality(Permits(k)) < Concurrency
              /\ \E p \in Repos : Permits(k)' \subseteq Permits(k) \cup {p}
    PROVE  IsFiniteSet(Permits(k)') /\ Cardinality(Permits(k)') <= Concurrency
<1>1. Concurrency \in Nat /\ Cardinality(Permits(k)) \in Nat
  BY FS_CardinalityType, WorkerPoolAssumption DEF WorkerPoolAssumption
<1>2. CASE Permits(k)' \subseteq Permits(k)
  <2>1. /\ IsFiniteSet(Permits(k)')
        /\ Cardinality(Permits(k)') <= Cardinality(Permits(k))
    BY <1>2, FS_Subset
  <2>2. Cardinality(Permits(k)') \in Nat
    BY <2>1, FS_CardinalityType
  <2> QED BY <1>1, <2>1, <2>2
<1>3. ASSUME Cardinality(Permits(k)) < Concurrency, NEW p \in Repos,
             Permits(k)' \subseteq Permits(k) \cup {p}
      PROVE  IsFiniteSet(Permits(k)') /\ Cardinality(Permits(k)') <= Concurrency
  <2> DEFINE more == Permits(k) \cup {p}
  <2>1. /\ IsFiniteSet(more)
        /\ Cardinality(more) \in {Cardinality(Permits(k)), Cardinality(Permits(k)) + 1}
    BY FS_AddElement
  <2>2. /\ IsFiniteSet(Permits(k)')
        /\ Cardinality(Permits(k)') <= Cardinality(more)
    BY <1>3, <2>1, FS_Subset
  <2>3. Cardinality(Permits(k)') \in Nat
    BY <2>2, FS_CardinalityType
  <2> HIDE DEF more
  <2> QED BY <1>1, <1>3, <2>1, <2>2, <2>3
<1> QED BY <1>2, <1>3

LEMMA PermitsInductive ==
    PoolInv /\ IdleInv /\ PermitsBounded /\ [PoolNext]_poolVars => PermitsBounded'
<1> SUFFICES ASSUME PoolInv, IdleInv, PermitsBounded, [PoolNext]_poolVars, NEW k \in Procs
             PROVE  \/ Permits(k)' \subseteq Permits(k)
                    \/ /\ Cardinality(Permits(k)) < Concurrency
                       /\ \E p \in Repos : Permits(k)' \subseteq Permits(k) \cup {p}
  BY PermitStep DEF PermitsBounded
<1> DEFINE Fewer == Permits(k)' \subseteq Permits(k)
           OneMore == /\ Cardinality(Permits(k)) < Concurrency
                      /\ \E p \in Repos : Permits(k)' \subseteq Permits(k) \cup {p}
<1>a. task \in [Procs -> [Repos -> {"none", "listed", "sent", "done"}]]
  BY DEF PoolInv, WorkerPoolTypeOK
<1>1. ASSUME NEW n \in Running, End(n) PROVE Fewer
  <2>1. CASE pool[n].by = Nobody
    BY <1>1, <2>1 DEF End, Permits
  <2>2. CASE pool[n].by # Nobody
    <3>1. n \in DOMAIN pool /\ pool[n] \in Job
      <4>1. pool \in Seq(Job) /\ Len(pool) \in Nat /\ DOMAIN pool = 1 .. Len(pool)
        BY DEF PoolInv, WorkerPoolTypeOK, Job
      <4>2. Min({Threads, Len(pool)}) \in Nat /\ Min({Threads, Len(pool)}) <= Len(pool)
        BY <4>1, MinOfTwo, WorkerPoolAssumption DEF WorkerPoolAssumption
      <4>3. n \in 1 .. Min({Threads, Len(pool)})
        BY DEF Running
      <4> QED BY <4>1, <4>2, <4>3
    <3>2. pool[n].by \in Procs /\ pool[n].path \in Repos
      BY <2>2, <3>1 DEF Job
    <3>3. task[pool[n].by][pool[n].path] = "sent"
      BY <3>1, <3>2 DEF PoolInv, JobsMatchTasks, JobOf
    <3>4. task' = [task EXCEPT ![pool[n].by][pool[n].path] = "done"]
      BY <1>1, <2>2 DEF End
    <3> QED BY <3>2, <3>3, <3>4, <1>a DEF Permits
  <2> QED BY <2>1, <2>2
<1>2. ASSUME NEW j \in Procs, NEW S \in SUBSET Repos, Begin(j, S) PROVE Fewer
  BY <1>2, <1>a DEF Begin, Permits
<1>3. ASSUME NEW j \in Cards, NEW p \in Repos, RequestCard(j, p) PROVE Fewer \/ OneMore
  <2>1. j \in Procs /\ task[j] = None
    BY <1>3, ProcFacts DEF RequestCard, IdleInv
  <2>2. Permits(j) = {}
    BY <2>1 DEF Permits, None
  <2>3. Cardinality(Permits(j)) < Concurrency
    BY <2>2, FS_EmptySet, WorkerPoolAssumption DEF WorkerPoolAssumption
  <2>4. task' = [task EXCEPT ![j][p] = "sent"]
    BY <1>3 DEF RequestCard
  <2>5. CASE j = k
    <3>1. Permits(k)' \subseteq Permits(k) \cup {p}
      BY <2>1, <2>4, <2>5, <1>a DEF Permits
    <3> QED BY <2>3, <2>5, <3>1
  <2>6. CASE j # k
    BY <2>1, <2>4, <2>6, <1>a DEF Permits
  <2> QED BY <2>5, <2>6
<1>4. ASSUME NEW j \in Procs, NEW p \in Repos, Spawn(j, p) PROVE Fewer \/ OneMore
  <2>1. Cardinality(Permits(j)) < Concurrency /\ task' = [task EXCEPT ![j][p] = "sent"]
    BY <1>4 DEF Spawn
  <2>2. CASE j = k
    <3>1. Permits(k)' \subseteq Permits(k) \cup {p}
      BY <2>1, <2>2, <1>a DEF Permits
    <3> QED BY <2>1, <2>2, <3>1
  <2>3. CASE j # k
    BY <2>1, <2>3, <1>a DEF Permits
  <2> QED BY <2>2, <2>3
<1>5. ASSUME NEW j \in Procs, NEW p \in Repos, Resume(j, p) PROVE Fewer
  BY <1>5, <1>a DEF Resume, Permits
<1>6. ASSUME NEW p \in Repos, Timeout(p) PROVE Fewer
  BY <1>6, <1>a DEF Timeout, Permits
<1>7. ASSUME NEW j \in Procs, Finish(j) PROVE Fewer
  BY <1>7 DEF Finish, Permits
<1>8. ASSUME NEW j \in Cards, Disconnect(j) PROVE Fewer
  BY <1>8, <1>a DEF Disconnect, Permits, None
<1>9. CASE UNCHANGED poolVars
  BY <1>9 DEF poolVars, Permits
<1> QED BY <1>1, <1>2, <1>3, <1>4, <1>5, <1>6, <1>7, <1>8, <1>9, ProcFacts
        DEF PoolNext, BeginCheck, BeginFetch

\* The semaphore of a pass is never overdrawn, whatever times out, panics or is abandoned.
THEOREM PermitsNeverOverdrawn == PoolSpec => []PermitsBounded
<1>1. PoolInit => PermitsBounded
  <2> SUFFICES ASSUME PoolInit, NEW k \in Procs
               PROVE  IsFiniteSet(Permits(k)) /\ Cardinality(Permits(k)) <= Concurrency
    BY DEF PermitsBounded
  <2>1. Permits(k) = {}
    BY DEF PoolInit, None, Permits
  <2> QED BY <2>1, FS_EmptySet, WorkerPoolAssumption DEF WorkerPoolAssumption
<1> QED BY <1>1, PermitsInductive, PoolInvariant, PTL DEF PoolSpec

\* A card has one job at most.
OneJobPerCard ==
    \A k \in Cards, p, q \in Repos : task[k][p] # "none" /\ task[k][q] # "none" => p = q

LEMMA CardsInductive ==
    PoolInv /\ IdleInv /\ OneJobPerCard /\ [PoolNext]_poolVars => OneJobPerCard'
<1> SUFFICES ASSUME PoolInv, IdleInv, OneJobPerCard, [PoolNext]_poolVars, NEW k \in Cards
             PROVE  \A p, q \in Repos : task'[k][p] # "none" /\ task'[k][q] # "none" => p = q
  BY DEF OneJobPerCard
<1>a. /\ task \in [Procs -> [Repos -> {"none", "listed", "sent", "done"}]]
      /\ k \in Procs /\ k # CheckLoop /\ k # FetchLoop
      /\ \A p, q \in Repos : task[k][p] # "none" /\ task[k][q] # "none" => p = q
  BY ProcFacts, WorkerPoolAssumption
  DEF PoolInv, WorkerPoolTypeOK, OneJobPerCard, WorkerPoolAssumption
<1> DEFINE NoneNew == \A p \in Repos : task'[k][p] # "none" => task[k][p] # "none"
           Goal == \A p, q \in Repos : task'[k][p] # "none" /\ task'[k][q] # "none" => p = q
<1>1. NoneNew => Goal
  BY <1>a
<1>2. ASSUME NEW n \in Running, End(n) PROVE NoneNew
  <2>1. CASE pool[n].by = Nobody
    BY <1>2, <2>1 DEF End
  <2>2. CASE pool[n].by # Nobody
    <3>1. n \in DOMAIN pool /\ pool[n] \in Job
      <4>1. pool \in Seq(Job) /\ Len(pool) \in Nat /\ DOMAIN pool = 1 .. Len(pool)
        BY DEF PoolInv, WorkerPoolTypeOK, Job
      <4>2. Min({Threads, Len(pool)}) \in Nat /\ Min({Threads, Len(pool)}) <= Len(pool)
        BY <4>1, MinOfTwo, WorkerPoolAssumption DEF WorkerPoolAssumption
      <4>3. n \in 1 .. Min({Threads, Len(pool)})
        BY DEF Running
      <4> QED BY <4>1, <4>2, <4>3
    <3>2. pool[n].by \in Procs /\ pool[n].path \in Repos
      BY <2>2, <3>1 DEF Job
    <3>3. task[pool[n].by][pool[n].path] = "sent"
      BY <3>1, <3>2 DEF PoolInv, JobsMatchTasks, JobOf
    <3>4. task' = [task EXCEPT ![pool[n].by][pool[n].path] = "done"]
      BY <1>2, <2>2 DEF End
    <3> QED BY <3>2, <3>3, <3>4, <1>a
  <2> QED BY <2>1, <2>2
<1>3. ASSUME NEW j \in Procs \ Cards, NEW S \in SUBSET Repos, Begin(j, S) PROVE NoneNew
  BY <1>3, <1>a DEF Begin
<1>4. ASSUME NEW j \in Cards, NEW p \in Repos, RequestCard(j, p) PROVE Goal
  <2>1. j \in Procs /\ task[j] = None /\ task' = [task EXCEPT ![j][p] = "sent"]
    BY <1>4, ProcFacts DEF RequestCard, IdleInv
  <2>2. CASE j = k
    BY <2>1, <2>2, <1>a DEF None
  <2>3. CASE j # k
    BY <2>1, <2>3, <1>a
  <2> QED BY <2>2, <2>3
<1>5. ASSUME NEW j \in Procs, NEW p \in Repos, Spawn(j, p) PROVE NoneNew
  BY <1>5, <1>a DEF Spawn
<1>6. ASSUME NEW j \in Procs, NEW p \in Repos, Resume(j, p) PROVE NoneNew
  BY <1>6, <1>a DEF Resume
<1>7. ASSUME NEW p \in Repos, Timeout(p) PROVE NoneNew
  BY <1>7, <1>a DEF Timeout
<1>8. ASSUME NEW j \in Cards, Disconnect(j) PROVE NoneNew
  BY <1>8, <1>a DEF Disconnect, None
<1>9. ASSUME UNCHANGED task PROVE NoneNew
  BY <1>9
<1>10. CheckLoop \in Procs \ Cards /\ FetchLoop \in Procs \ Cards
  BY ProcFacts, WorkerPoolAssumption DEF WorkerPoolAssumption
<1> QED
  BY <1>1, <1>2, <1>3, <1>4, <1>5, <1>6, <1>7, <1>8, <1>9, <1>10
  DEF PoolNext, BeginCheck, BeginFetch, Finish, poolVars

LEMMA UnionBound ==
    ASSUME NEW S, IsFiniteSet(S), NEW T, IsFiniteSet(T)
    PROVE  /\ IsFiniteSet(S \cup T)
           /\ Cardinality(S \cup T) <= Cardinality(S) + Cardinality(T)
<1>1. /\ IsFiniteSet(S \cup T)
      /\ Cardinality(S \cup T) = Cardinality(S) + Cardinality(T) - Cardinality(S \cap T)
  BY FS_Union
<1>2. IsFiniteSet(S \cap T)
  <2>1. S \cap T \in SUBSET S
    OBVIOUS
  <2> QED BY <2>1, FS_Subset
<1>3. Cardinality(S) \in Nat /\ Cardinality(T) \in Nat /\ Cardinality(S \cap T) \in Nat
  BY <1>2, FS_CardinalityType
<1> QED BY <1>1, <1>3

\* The jobs that the pass of k waits for are at most as many as its permits.
LEMMA AwaitedByPass ==
    ASSUME PoolInv, PermitsBounded, NEW k \in Procs
    PROVE  LET mine == {n \in DOMAIN pool : pool[n].by = k}
           IN  IsFiniteSet(mine) /\ Cardinality(mine) <= Concurrency
<1> DEFINE mine == {n \in DOMAIN pool : pool[n].by = k}
           path == [n \in mine |-> pool[n].path]
<1>1. pool \in Seq(Job) /\ k # Nobody
  BY ProcFacts DEF PoolInv, WorkerPoolTypeOK, Job
<1>2. ASSUME NEW n \in mine PROVE pool[n].path \in Permits(k)
  <2>1. n \in DOMAIN pool /\ pool[n] \in Job
    BY <1>1
  <2>2. pool[n].path \in Repos
    BY <2>1 DEF Job
  <2>3. task[k][pool[n].path] = "sent"
    BY <2>1, <2>2 DEF PoolInv, JobsMatchTasks, JobOf
  <2> QED BY <2>2, <2>3 DEF Permits
<1>3. \A i, j \in mine : path[i] = path[j] => i = j
  BY <1>1 DEF PoolInv, JobsMatchTasks
<1>4. path \in Injection(mine, Permits(k))
  BY <1>2, <1>3 DEF Injection, IsInjective
<1>5. IsFiniteSet(Permits(k)) /\ Cardinality(Permits(k)) <= Concurrency
  BY DEF PermitsBounded
<1>6. IsFiniteSet(mine) /\ Cardinality(mine) <= Cardinality(Permits(k))
  BY <1>4, <1>5, FS_Injection
<1>7. Cardinality(mine) \in Nat /\ Cardinality(Permits(k)) \in Nat /\ Concurrency \in Nat
  BY <1>5, <1>6, FS_CardinalityType, WorkerPoolAssumption DEF WorkerPoolAssumption
<1> QED BY <1>5, <1>6, <1>7

\* The jobs that cards wait for are at most as many as the cards.
LEMMA AwaitedByCards ==
    ASSUME PoolInv, OneJobPerCard
    PROVE  LET theirs == {n \in DOMAIN pool : pool[n].by \in Cards}
           IN  IsFiniteSet(theirs) /\ Cardinality(theirs) <= Cardinality(Cards)
<1> DEFINE theirs == {n \in DOMAIN pool : pool[n].by \in Cards}
           card == [n \in theirs |-> pool[n].by]
<1>1. pool \in Seq(Job) /\ Cards \subseteq Procs /\ Nobody \notin Cards
  BY ProcFacts DEF PoolInv, WorkerPoolTypeOK, Job
<1>2. ASSUME NEW i \in theirs, NEW j \in theirs, pool[i].by = pool[j].by PROVE i = j
  <2>1. pool[i] \in Job /\ pool[j] \in Job /\ pool[i].by \in Cards
    BY <1>1
  <2>2. pool[i].path \in Repos /\ pool[j].path \in Repos
    BY <2>1 DEF Job
  <2>3. task[pool[i].by][pool[i].path] = "sent" /\ task[pool[i].by][pool[j].path] = "sent"
    BY <1>1, <1>2, <2>1, <2>2 DEF PoolInv, JobsMatchTasks, JobOf
  <2>4. pool[i].path = pool[j].path
    BY <2>1, <2>2, <2>3 DEF OneJobPerCard
  <2> QED BY <1>1, <1>2, <2>1, <2>4 DEF PoolInv, JobsMatchTasks
<1>3. card \in Injection(theirs, Cards)
  BY <1>2 DEF Injection, IsInjective
<1> QED BY <1>3, FS_Injection, WorkerPoolAssumption DEF WorkerPoolAssumption

\* Jobs without a thread are owed to those that were given up: for any number of threads,
\* permits, repositories and cards.
THEOREM OnlyGivenUpWorkStarves == PoolSpec => []OnlyGivenUpStarves
<1>1. ASSUME PoolInv, PermitsBounded, OneJobPerCard,
             Cardinality(Abandoned) + Share <= Threads
      PROVE  Len(pool) <= Threads
  <2> DEFINE check == {n \in DOMAIN pool : pool[n].by = CheckLoop}
             fetch == {n \in DOMAIN pool : pool[n].by = FetchLoop}
             cards == {n \in DOMAIN pool : pool[n].by \in Cards}
             left == Abandoned
  <2>1. /\ pool \in Seq(Job) /\ Len(pool) \in Nat /\ DOMAIN pool = 1 .. Len(pool)
        /\ Threads \in Nat /\ Concurrency \in Nat /\ Cardinality(Cards) \in Nat
    BY <1>1, FS_CardinalityType, WorkerPoolAssumption
    DEF PoolInv, WorkerPoolTypeOK, Job, WorkerPoolAssumption
  <2>2. IsFiniteSet(DOMAIN pool) /\ Cardinality(DOMAIN pool) = Len(pool)
    <3> DEFINE l == Len(pool)
    <3>1. l \in Nat /\ DOMAIN pool = 1 .. l
      BY <2>1
    <3> HIDE DEF l
    <3>2. IsFiniteSet(1 .. l) /\ Cardinality(1 .. l) = IF 1 > l THEN 0 ELSE l - 1 + 1
      BY <3>1, FS_Interval
    <3>3. Cardinality(1 .. l) = l
      BY <3>1, <3>2
    <3> QED BY <3>1, <3>2, <3>3 DEF l
  <2>3. /\ IsFiniteSet(check) /\ Cardinality(check) <= Concurrency
        /\ IsFiniteSet(fetch) /\ Cardinality(fetch) <= Concurrency
    BY <1>1, AwaitedByPass, ProcFacts
  <2>4. IsFiniteSet(cards) /\ Cardinality(cards) <= Cardinality(Cards)
    BY <1>1, AwaitedByCards
  <2>5. IsFiniteSet(left)
    BY <2>2, FS_Subset DEF Abandoned
  <2>6. DOMAIN pool = ((check \cup fetch) \cup cards) \cup left
    <3>1. ASSUME NEW n \in DOMAIN pool PROVE n \in ((check \cup fetch) \cup cards) \cup left
      <4>1. pool[n] \in Job
        BY <2>1
      <4>2. pool[n].by \in Procs \cup {Nobody}
        BY <4>1 DEF Job
      <4> QED BY <4>2 DEF Procs, Abandoned
    <3> QED BY <3>1 DEF Abandoned
  <2> HIDE DEF check, fetch, cards, left
  <2>7. /\ IsFiniteSet(check \cup fetch)
        /\ Cardinality(check \cup fetch) <= Cardinality(check) + Cardinality(fetch)
    BY <2>3, UnionBound
  <2>8. /\ IsFiniteSet((check \cup fetch) \cup cards)
        /\ Cardinality((check \cup fetch) \cup cards)
              <= Cardinality(check \cup fetch) + Cardinality(cards)
    BY <2>4, <2>7, UnionBound
  <2>9. Cardinality(DOMAIN pool)
            <= Cardinality((check \cup fetch) \cup cards) + Cardinality(left)
    BY <2>5, <2>6, <2>8, UnionBound
  <2>10. /\ Cardinality(check) \in Nat /\ Cardinality(fetch) \in Nat
         /\ Cardinality(cards) \in Nat /\ Cardinality(left) \in Nat
         /\ Cardinality(check \cup fetch) \in Nat
         /\ Cardinality((check \cup fetch) \cup cards) \in Nat
    BY <2>3, <2>4, <2>5, <2>7, <2>8, FS_CardinalityType
  <2>11. Cardinality(left) + (2 * Concurrency + Cardinality(Cards)) <= Threads
    BY <1>1 DEF left, Share
  <2> QED BY <2>1, <2>2, <2>3, <2>4, <2>7, <2>8, <2>9, <2>10, <2>11
<1>2. ASSUME PoolInv, Len(pool) <= Threads, NEW n \in DOMAIN pool PROVE n \in Running
  <2>1. pool \in Seq(Job) /\ Len(pool) \in Nat /\ Threads \in Nat /\ n \in 1 .. Len(pool)
    BY <1>2, WorkerPoolAssumption DEF PoolInv, WorkerPoolTypeOK, Job, WorkerPoolAssumption
  <2>2. Min({Threads, Len(pool)}) \in {Threads, Len(pool)}
    BY <2>1, MinOfTwo
  <2> QED BY <1>2, <2>1, <2>2 DEF Running
<1>3. PoolInv /\ PermitsBounded /\ OneJobPerCard => OnlyGivenUpStarves
  BY <1>1, <1>2 DEF OnlyGivenUpStarves
<1>4. PoolInit => OneJobPerCard
  BY ProcFacts DEF PoolInit, None, OneJobPerCard
<1> QED
  BY <1>3, <1>4, CardsInductive, PermitsNeverOverdrawn, PoolInvariant, PTL DEF PoolSpec

\* Whoever is in a pass is finished, or a task of it can resume, or waits for a job of its
\* own that is in the pool, or the next path can take a permit: nobody waits for a permit
\* that no one will give back.
NeverStuck ==
    \A k \in busy :
        \/ task[k] = None
        \/ \E p \in Repos : task[k][p] = "done"
        \/ \E p \in Repos, n \in DOMAIN pool : task[k][p] = "sent" /\ JobOf(n, k, p)
        \/ \E p \in Repos : task[k][p] = "listed" /\ Cardinality(Permits(k)) < Concurrency

\* What NeverWedged and PassesEnd need besides fairness, first half: no pass ever stands
\* still for another reason than a job of its own.
THEOREM NoPassIsStuck == PoolSpec => []NeverStuck
<1>1. ASSUME PoolInv PROVE NeverStuck
  <2> SUFFICES ASSUME NEW k \in busy, task[k] # None,
                      \A p \in Repos : task[k][p] # "done",
                      \A p \in Repos, n \in DOMAIN pool :
                          ~(task[k][p] = "sent" /\ JobOf(n, k, p))
               PROVE  \E p \in Repos :
                          task[k][p] = "listed" /\ Cardinality(Permits(k)) < Concurrency
    BY DEF NeverStuck
  <2>1. k \in Procs /\ task[k] \in [Repos -> {"none", "listed", "sent", "done"}]
    BY <1>1 DEF PoolInv, WorkerPoolTypeOK
  <2>2. \A p \in Repos : task[k][p] # "sent"
    BY <1>1, <2>1 DEF PoolInv, JobsMatchTasks
  <2>3. Permits(k) = {}
    BY <2>2 DEF Permits
  <2>4. Cardinality(Permits(k)) < Concurrency
    BY <2>3, FS_EmptySet, WorkerPoolAssumption DEF WorkerPoolAssumption
  <2>5. PICK p \in Repos : task[k][p] # "none"
    BY <2>1 DEF None
  <2> QED BY <2>1, <2>2, <2>4, <2>5
<1>2. PoolInv => NeverStuck
  BY <1>1
<1> QED BY <1>2, PoolInvariant, PTL

Forward == {<<"listed", "sent">>, <<"sent", "done">>, <<"sent", "none">>, <<"done", "none">>}

\* Within a pass a path only advances, and a job that still waits for a thread stays in the
\* queue, loses no place to another one, and loses at most the one who waits for it.
AdvanceStep ==
    /\ \A k \in busy \cap busy', p \in Repos :
          task'[k][p] = task[k][p] \/ <<task[k][p], task'[k][p]>> \in Forward
    /\ \A n \in DOMAIN pool \ Running : \E m \in DOMAIN pool' :
          /\ m \in {n - 1, n}
          /\ pool'[m].git = pool[n].git /\ pool'[m].path = pool[n].path
          /\ pool'[m].by \in {pool[n].by, Nobody}

\* The queue, for each of the ways in which a step changes it.
LEMMA QueueKept ==
    ASSUME PoolInv, NEW n \in DOMAIN pool \ Running,
           \/ pool' = pool
           \/ \E k \in Procs, p \in Repos : pool' = SpawnBlocking(k, p)
           \/ \E k \in Procs, S \in SUBSET Repos : Abandon(k, S)
           \/ \E i \in Running : pool' = RemoveAt(pool, i)
    PROVE  \E m \in DOMAIN pool' :
               /\ m \in {n - 1, n}
               /\ pool'[m].git = pool[n].git /\ pool'[m].path = pool[n].path
               /\ pool'[m].by \in {pool[n].by, Nobody}
<1>1. /\ pool \in Seq(Job) /\ Len(pool) \in Nat /\ DOMAIN pool = 1 .. Len(pool)
      /\ n \in 1 .. Len(pool) /\ pool[n] \in Job
  <2>1. pool \in Seq(Job)
    BY DEF PoolInv, WorkerPoolTypeOK, Job
  <2> QED BY <2>1
<1>2. CASE pool' = pool
  BY <1>2
<1>3. ASSUME NEW k \in Procs, NEW p \in Repos, pool' = SpawnBlocking(k, p)
      PROVE  n \in DOMAIN pool' /\ pool'[n] = pool[n]
  <2> DEFINE new == [git |-> k = FetchLoop, path |-> p, by |-> k]
  <2>1. new \in Job
    BY DEF Job
  <2>2. pool' = Append(pool, new)
    BY <1>3 DEF SpawnBlocking
  <2> HIDE DEF new
  <2>3. DOMAIN Append(pool, new) = 1 .. Len(pool) + 1 /\ Append(pool, new)[n] = pool[n]
    BY ONLY <1>1, <2>1
  <2>4. n \in 1 .. Len(pool) + 1
    BY ONLY <1>1
  <2> QED BY <2>2, <2>3, <2>4
<1>4. ASSUME NEW k \in Procs, NEW S \in SUBSET Repos, Abandon(k, S)
      PROVE  /\ n \in DOMAIN pool'
             /\ pool'[n].git = pool[n].git /\ pool'[n].path = pool[n].path
             /\ pool'[n].by \in {pool[n].by, Nobody}
  <2>1. pool' = [i \in DOMAIN pool |->
                    IF pool[i].by = k /\ pool[i].path \in S
                    THEN [pool[i] EXCEPT !.by = Nobody] ELSE pool[i]]
    BY <1>4 DEF Abandon
  <2>2. /\ n \in DOMAIN pool'
        /\ pool'[n] = IF pool[n].by = k /\ pool[n].path \in S
                      THEN [pool[n] EXCEPT !.by = Nobody] ELSE pool[n]
    BY <1>1, <2>1
  <2> QED BY <1>1, <2>2 DEF Job
<1>5. ASSUME NEW i \in Running, pool' = RemoveAt(pool, i)
      PROVE  n - 1 \in DOMAIN pool' /\ pool'[n - 1] = pool[n]
  <2>1. /\ Min({Threads, Len(pool)}) \in Nat /\ Min({Threads, Len(pool)}) <= Len(pool)
        /\ Running = 1 .. Min({Threads, Len(pool)})
    BY <1>1, MinOfTwo, WorkerPoolAssumption DEF WorkerPoolAssumption, Running
  <2>2. i \in DOMAIN pool /\ i \in Nat /\ i < n /\ n - 1 \in 1 .. Len(pool) - 1
    BY <1>1, <2>1
  <2>3. /\ DOMAIN pool' = 1 .. Len(pool) - 1
        /\ pool'[n - 1] = IF n - 1 < i THEN pool[n - 1] ELSE pool[(n - 1) + 1]
    BY <1>1, <1>5, <2>2, RemovedJob
  <2>4. ~(n - 1 < i) /\ (n - 1) + 1 = n
    BY <1>1, <2>2
  <2> QED BY <2>2, <2>3, <2>4
<1> QED BY <1>2, <1>3, <1>4, <1>5

\* Second half: nobody in a pass is ever set back, and no job that waits for a thread is
\* passed by another or taken out of the queue.
THEOREM PassesOnlyAdvance == PoolSpec => [][AdvanceStep]_poolVars
<1>1. ASSUME PoolInv, IdleInv, PoolNext PROVE AdvanceStep
  <2> DEFINE Kept == \/ pool' = pool
                     \/ \E k \in Procs, p \in Repos : pool' = SpawnBlocking(k, p)
                     \/ \E k \in Procs, S \in SUBSET Repos : Abandon(k, S)
                     \/ \E i \in Running : pool' = RemoveAt(pool, i)
             Moves == \A k \in busy \cap busy', p \in Repos :
                         task'[k][p] = task[k][p] \/ <<task[k][p], task'[k][p]>> \in Forward
  <2>a. /\ task \in [Procs -> [Repos -> {"none", "listed", "sent", "done"}]]
        /\ busy \subseteq Procs
    BY <1>1 DEF PoolInv, WorkerPoolTypeOK
  <2>1. ASSUME NEW n \in Running, End(n) PROVE Kept /\ Moves
    <3>1. CASE pool[n].by = Nobody
      BY <2>1, <3>1 DEF End
    <3>2. CASE pool[n].by # Nobody
      <4>1. n \in DOMAIN pool /\ pool[n] \in Job
        <5>1. pool \in Seq(Job) /\ Len(pool) \in Nat /\ DOMAIN pool = 1 .. Len(pool)
          BY <1>1 DEF PoolInv, WorkerPoolTypeOK, Job
        <5>2. Min({Threads, Len(pool)}) \in Nat /\ Min({Threads, Len(pool)}) <= Len(pool)
          BY <5>1, MinOfTwo, WorkerPoolAssumption DEF WorkerPoolAssumption
        <5>3. n \in 1 .. Min({Threads, Len(pool)})
          BY DEF Running
        <5> QED BY <5>1, <5>2, <5>3
      <4>2. pool[n].by \in Procs /\ pool[n].path \in Repos
        BY <3>2, <4>1 DEF Job
      <4>3. task[pool[n].by][pool[n].path] = "sent"
        BY <1>1, <4>1, <4>2 DEF PoolInv, JobsMatchTasks, JobOf
      <4>4. task' = [task EXCEPT ![pool[n].by][pool[n].path] = "done"]
        BY <2>1, <3>2 DEF End
      <4>5. Moves
        BY <4>2, <4>3, <4>4, <2>a DEF Forward
      <4> QED BY <2>1, <4>5 DEF End
    <3> QED BY <3>1, <3>2
  <2>2. ASSUME NEW j \in Procs, NEW S \in SUBSET Repos, Begin(j, S) PROVE Kept /\ Moves
    BY <2>2, <2>a DEF Begin
  <2>3. ASSUME NEW j \in Cards, NEW p \in Repos, RequestCard(j, p) PROVE Kept /\ Moves
    BY <2>3, <2>a, ProcFacts DEF RequestCard
  <2>4. ASSUME NEW j \in Procs, NEW p \in Repos, Spawn(j, p) PROVE Kept /\ Moves
    BY <2>4, <2>a DEF Spawn, Forward
  <2>5. ASSUME NEW j \in Procs, NEW p \in Repos, Resume(j, p) PROVE Kept /\ Moves
    BY <2>5, <2>a DEF Resume, Forward
  <2>6. ASSUME NEW p \in Repos, Timeout(p) PROVE Kept /\ Moves
    <3>1. FetchLoop \in Procs /\ {p} \in SUBSET Repos
      BY ProcFacts
    <3>2. Kept
      BY <2>6, <3>1 DEF Timeout
    <3>3. Moves
      BY <2>6, <2>a DEF Timeout, Forward
    <3> QED BY <3>2, <3>3
  <2>7. ASSUME NEW j \in Procs, Finish(j) PROVE Kept /\ Moves
    BY <2>7 DEF Finish
  <2>8. ASSUME NEW j \in Cards, Disconnect(j) PROVE Kept /\ Moves
    <3>1. j \in Procs /\ Repos \in SUBSET Repos
      BY ProcFacts
    <3>2. Kept
      BY <2>8, <3>1 DEF Disconnect
    <3>3. Moves
      BY <2>8, <2>a DEF Disconnect
    <3> QED BY <3>2, <3>3
  <2>9. Kept /\ Moves
    BY <1>1, <2>1, <2>2, <2>3, <2>4, <2>5, <2>6, <2>7, <2>8, ProcFacts
    DEF PoolNext, BeginCheck, BeginFetch
  <2>10. \A n \in DOMAIN pool \ Running : \E m \in DOMAIN pool' :
            /\ m \in {n - 1, n}
            /\ pool'[m].git = pool[n].git /\ pool'[m].path = pool[n].path
            /\ pool'[m].by \in {pool[n].by, Nobody}
    BY <1>1, <2>9, QueueKept
  <2> QED BY <2>9, <2>10 DEF AdvanceStep
<1>2. PoolInv /\ IdleInv /\ [PoolNext]_poolVars => [AdvanceStep]_poolVars
  BY <1>1
<1> QED BY <1>2, PoolInvariant, PTL DEF PoolSpec

-----------------------------------------------------------------------------
(* Discovery.                                                              *)

Open(n, D) == n \in D /\ kind[n] = "dir" /\ name[n] = "plain"

\* What a walk of the tree D comes to: the roots and what is in a visible place.
Reached(D) == {n \in D : n \in RootSet \/ Parent[n] \in Visible(D)}

OnStack(s) == {n \in Nodes : \E i \in DOMAIN s : n \in s[i]}

\* What is still to be yielded: entries of open directories, and roots.
Pending == OnStack(stack) \cup {Roots[i] : i \in next .. Len(Roots)}

\* Of a tree that has stayed, everything is behind the walk but a part of which each
\* node is pending or in a directory of that part that will be listed.
BehindOrAhead ==
    \A D \in SUBSET always : \E T \in SUBSET D :
        /\ \A n \in Reached(D) \ T : name[n] = "git" /\ kind[n] # "file" => Parent[n] \in found
        /\ \A n \in T : n \in Pending \/ (Parent[n] \in T /\ Open(Parent[n], D))

PendingReached == OnStack(stack) \subseteq Reached(ever)
RecordedReached ==
    \A p \in found : \E g \in Reached(ever) :
        p = Parent[g] /\ name[g] = "git" /\ kind[g] # "file"

WalkInv == DiscoverTypeOK /\ PendingReached /\ RecordedReached /\ BehindOrAhead

\* Visible is the one solution of its recursion: there is a solution (the union of all
\* sets that follow from themselves), and the tree has no cycles.
LEMMA VisibleEquation ==
    ASSUME NEW D
    PROVE  /\ Visible(D) \subseteq Nodes
           /\ \A n \in Nodes :
                 n \in Visible(D) <=>
                     Open(n, D) /\ (n \in RootSet \/ Parent[n] \in Visible(D))
<1> DEFINE F(V) == {n \in Nodes : Open(n, D) /\ (n \in RootSet \/ Parent[n] \in V)}
           G == UNION {V \in SUBSET Nodes : V \subseteq F(V)}
           Solves(w) == w = [n \in Nodes |->
               /\ n \in D /\ kind[n] = "dir" /\ name[n] = "plain"
               /\ n \in RootSet \/ (Parent[n] \in Nodes /\ w[Parent[n]])]
<1>1. G = F(G)
  <2>1. G \subseteq Nodes /\ G \subseteq F(G)
    OBVIOUS
  <2>2. F(G) \subseteq F(F(G))
    BY <2>1
  <2> QED BY <2>1, <2>2
<1>2. Solves([n \in Nodes |-> n \in G])
  <2> DEFINE w == [n \in Nodes |-> n \in G]
             body(n) == /\ n \in D /\ kind[n] = "dir" /\ name[n] = "plain"
                        /\ n \in RootSet \/ (Parent[n] \in Nodes /\ w[Parent[n]])
  <2>1. G \subseteq Nodes
    OBVIOUS
  <2>2. ASSUME NEW n \in Nodes PROVE (n \in G) = body(n)
    <3>1. n \in G <=> Open(n, D) /\ (n \in RootSet \/ Parent[n] \in G)
      BY <1>1
    <3>2. Parent[n] \in G <=> Parent[n] \in Nodes /\ w[Parent[n]]
      BY <2>1
    <3> HIDE DEF G, w
    <3>3. n \in G <=> body(n)
      BY <3>1, <3>2 DEF Open
    <3>4. body(n) \in BOOLEAN /\ (n \in G) \in BOOLEAN
      OBVIOUS
    <3> HIDE DEF body
    <3> QED BY <3>3, <3>4
  <2> HIDE DEF G
  <2>3. w = [n \in Nodes |-> body(n)]
    <3> HIDE DEF body
    <3> QED BY <2>2
  <2> QED BY <2>3
<1>3. Solves(CHOOSE w : Solves(w))
  BY <1>2
<1> DEFINE W == CHOOSE w : Solves(w)
<1>4. Visible(D) = {n \in Nodes : W[n]}
  BY DEF Visible
<1> QED BY <1>3, <1>4 DEF Open

\* More on disk means more that is visible: nothing hides a directory but its own kind
\* and name and those above it.
LEMMA VisibleGrows ==
    ASSUME NEW D, NEW E, D \subseteq E
    PROVE  Visible(D) \subseteq Visible(E) /\ Reached(D) \subseteq Reached(E)
<1>1. Visible(D) \subseteq Visible(E)
  <2> DEFINE S == Visible(D) \ Visible(E)
  <2>1. S \subseteq Nodes
    BY VisibleEquation
  <2>2. ASSUME S # {} PROVE FALSE
    <3>1. PICK n \in S : Parent[n] \notin S
      BY <2>1, <2>2, DiscoverAssumption DEF DiscoverAssumption
    <3>2. Open(n, E) /\ (n \in RootSet \/ Parent[n] \in Visible(D))
      BY <2>1, VisibleEquation DEF Open
    <3>3. n \in RootSet \/ Parent[n] \in Visible(E)
      BY <3>1, <3>2
    <3> QED BY <2>1, <3>2, <3>3, VisibleEquation
  <2> QED BY <2>2
<1> QED BY <1>1 DEF Reached

\* A directory that can be listed leads to what is in it.
LEMMA ReachedBelow ==
    ASSUME NEW D \in SUBSET Nodes, NEW n \in Reached(D), Open(n, D),
           NEW c \in D, Parent[c] = n
    PROVE  c \in Reached(D)
<1>1. n \in Visible(D)
  BY VisibleEquation DEF Reached
<1> QED BY <1>1 DEF Reached

\* The stack of open directories.
LEMMA StackFacts ==
    ASSUME NEW s \in Seq(SUBSET Nodes), s # <<>>
    PROVE  /\ Head(s) \in SUBSET Nodes /\ Tail(s) \in Seq(SUBSET Nodes)
           /\ OnStack(s) = Head(s) \cup OnStack(Tail(s))
<1>1. Len(s) \in Nat /\ Len(s) > 0 /\ 1 \in DOMAIN s /\ Head(s) = s[1]
  OBVIOUS
<1>2. Tail(s) \in Seq(SUBSET Nodes) /\ Len(Tail(s)) = Len(s) - 1
  BY <1>1
<1>3. \A i \in 1 .. Len(s) - 1 : Tail(s)[i] = s[i + 1]
  BY <1>1
<1>4. \A j \in DOMAIN s : j = 1 \/ (j - 1 \in DOMAIN Tail(s) /\ Tail(s)[j - 1] = s[j])
  BY <1>1, <1>2, <1>3
<1>5. \A j \in DOMAIN Tail(s) : j + 1 \in DOMAIN s /\ Tail(s)[j] = s[j + 1]
  BY <1>1, <1>2, <1>3
<1>6. Head(s) \in SUBSET Nodes
  BY <1>1
<1>7. OnStack(s) \subseteq Head(s) \cup OnStack(Tail(s))
  BY <1>1, <1>4 DEF OnStack
<1>8. Head(s) \cup OnStack(Tail(s)) \subseteq OnStack(s)
  BY <1>1, <1>5, <1>6 DEF OnStack
<1> QED BY <1>2, <1>6, <1>7, <1>8

LEMMA PushFacts ==
    ASSUME NEW s \in Seq(SUBSET Nodes), NEW e \in SUBSET Nodes
    PROVE  /\ << e >> \o s \in Seq(SUBSET Nodes)
           /\ OnStack(<< e >> \o s) = e \cup OnStack(s)
           /\ Tail(<< e >> \o s) = s
<1> DEFINE t == << e >> \o s
<1>1. t \in Seq(SUBSET Nodes) /\ t # <<>> /\ Head(t) = e
  OBVIOUS
<1>2. Tail(t) = s
  OBVIOUS
<1> QED BY <1>1, <1>2, StackFacts

\* What one entry does, whatever it is: it leaves the stack, what it leads to enters the
\* stack, and a repository that it shows is recorded.
LEMMA YieldFacts ==
    ASSUME DiscoverTypeOK, NEW n \in Nodes, Yield(n)
    PROVE  /\ stack' \in Seq(SUBSET Nodes) /\ n \in OnStack(stack)
           /\ OnStack(stack) \subseteq {n} \cup OnStack(stack')
           /\ \A c \in OnStack(stack') :
                 \/ c \in OnStack(stack)
                 \/ c \in there /\ Parent[c] = n /\ Open(n, there)
           /\ Open(n, there) => \A c \in there : Parent[c] = n => c \in OnStack(stack')
           /\ \/ found' = found
              \/ name[n] = "git" /\ kind[n] # "file" /\ found' = found \cup {Parent[n]}
           /\ n \in there /\ name[n] = "git" /\ kind[n] # "file" => Parent[n] \in found'
           /\ found \subseteq found'
           /\ UNCHANGED <<tree, there, changes, next, always, ever>>
<1> DEFINE top == Head(stack) \ {n}
           rest == << top >> \o Tail(stack)
<1>1. stack \in Seq(SUBSET Nodes) /\ stack # <<>> /\ n \in Head(stack)
  BY DEF DiscoverTypeOK, Yield
<1>2. /\ top \in SUBSET Nodes /\ Tail(stack) \in Seq(SUBSET Nodes)
      /\ OnStack(stack) = Head(stack) \cup OnStack(Tail(stack))
  BY <1>1, StackFacts
<1>3. rest \in Seq(SUBSET Nodes) /\ OnStack(rest) = top \cup OnStack(Tail(stack))
  BY <1>2, PushFacts
<1>4. Listing(n) = {c \in there : Parent[c] = n /\ n \in there /\ kind[n] = "dir"}
  BY DEF Listing, Children, DiscoverTypeOK
<1>5. Listing(n) \in SUBSET Nodes
  BY DEF Listing, Children
<1>6. /\ << Listing(n) >> \o rest \in Seq(SUBSET Nodes)
      /\ OnStack(<< Listing(n) >> \o rest) = Listing(n) \cup OnStack(rest)
      /\ Tail(<< Listing(n) >> \o rest) = rest
  BY <1>3, <1>5, PushFacts
<1>7. UNCHANGED <<tree, there, changes, next, always, ever>>
  BY DEF Yield
<1>8. kind[n] \in {"dir", "locked", "file"} /\ name[n] \in {"git", "excluded", "plain"}
  BY DEF DiscoverTypeOK
<1>9. \/ stack' = rest /\ found' = found
           /\ ~(n \in there /\ name[n] = "git" /\ kind[n] # "file") /\ ~Open(n, there)
      \/ stack' = rest /\ name[n] = "git" /\ kind[n] # "file" /\ found' = found \cup {Parent[n]}
      \/ /\ stack' = << Listing(n) >> \o rest /\ found' = found
         /\ kind[n] # "file" /\ name[n] = "plain"
  <2>1. CASE n \notin there /\ Len(stack) = 1
    <3>1. stack' = << top >> /\ found' = found
      BY <2>1 DEF Yield
    <3>2. rest = << top >>
      <4>1. Tail(stack) = <<>>
        <5>1. Tail(stack) \in Seq(SUBSET Nodes) /\ Len(Tail(stack)) = 0
          BY <1>1, <1>2, <2>1
        <5>2. \A s \in Seq(SUBSET Nodes) : Len(s) = 0 => s = <<>>
          OBVIOUS
        <5> QED BY <5>1, <5>2
      <4> HIDE DEF top
      <4>2. << top >> \o <<>> = << top >>
        OBVIOUS
      <4> QED BY <4>1, <4>2
    <3> QED BY <2>1, <3>1, <3>2 DEF Open
  <2>2. CASE ~(n \notin there /\ Len(stack) = 1)
    <3>1. Entry(n)
      BY <2>2 DEF Yield
    <3>2. Entered(n) = IF kind[n] = "file" THEN rest ELSE << Listing(n) >> \o rest
      BY DEF Entered
    <3> HIDE DEF rest, top
    <3> QED BY <1>6, <1>8, <3>1, <3>2 DEF Entry, SkipCurrentDir, Open
  <2> QED BY <2>1, <2>2
<1>10. n \in OnStack(stack) /\ OnStack(stack) \subseteq {n} \cup OnStack(rest)
       /\ OnStack(rest) \subseteq OnStack(stack)
  BY <1>1, <1>2, <1>3
<1> HIDE DEF rest, top
<1>11. CASE stack' = rest /\ ~Open(n, there)
  BY <1>3, <1>7, <1>9, <1>10, <1>11
<1>12. CASE stack' = rest /\ name[n] = "git"
  BY <1>3, <1>7, <1>9, <1>10, <1>12 DEF Open
<1>13. CASE /\ stack' = << Listing(n) >> \o rest /\ found' = found
            /\ kind[n] # "file" /\ name[n] = "plain"
  BY <1>3, <1>4, <1>6, <1>7, <1>10, <1>13 DEF Open
<1> QED BY <1>9, <1>11, <1>12, <1>13

LEMMA InitWalk == WalkInit => WalkInv
<1> SUFFICES ASSUME WalkInit PROVE WalkInv
  OBVIOUS
<1> USE DiscoverAssumption DEF DiscoverAssumption
<1>1. DiscoverTypeOK
  BY DEF WalkInit, DiscoverTypeOK
<1>2. OnStack(stack) = {}
  BY DEF WalkInit, OnStack
<1>3. PendingReached /\ RecordedReached
  BY <1>2 DEF WalkInit, PendingReached, RecordedReached
<1>4. ASSUME NEW D \in SUBSET always
      PROVE  \A n \in Reached(D) : n \in Pending \/ (Parent[n] \in Reached(D) /\ Open(Parent[n], D))
  <2>1. next = 1
    BY DEF WalkInit
  <2>2. RootSet \subseteq Pending
    BY <2>1 DEF RootSet, Pending
  <2>3. ASSUME NEW p \in Visible(D) PROVE p \in Reached(D) /\ Open(p, D)
    BY VisibleEquation DEF Reached, Open
  <2> QED BY <2>2, <2>3 DEF Reached
<1>5. BehindOrAhead
  <2>1. \A D \in SUBSET always : Reached(D) \in SUBSET D
    BY DEF Reached
  <2> QED BY <1>4, <2>1 DEF BehindOrAhead
<1> QED BY <1>1, <1>3, <1>5 DEF WalkInv

\* Which nodes are visible in a given tree does not change.
LEMMA SameTree ==
    ASSUME UNCHANGED tree
    PROVE  (\A D : Reached(D)' = Reached(D)) /\ Reached(ever)' = Reached(ever')
<1> DEFINE W(k, m, D) == {n \in Nodes : (CHOOSE w : w = [c \in Nodes |->
               /\ c \in D /\ k[c] = "dir" /\ m[c] = "plain"
               /\ c \in RootSet \/ (Parent[c] \in Nodes /\ w[Parent[c]])])[n]}
<1>1. kind' = kind /\ name' = name
  BY DEF tree
<1>2. ASSUME NEW D PROVE Visible(D)' = Visible(D)
  <2>1. Visible(D) = W(kind, name, D)
    BY DEF Visible
  <2>2. Visible(D)' = W(kind', name', D)
    BY DEF Visible, RootSet
  <2> HIDE DEF W
  <2> QED BY <1>1, <2>1, <2>2
<1>3. Visible(ever)' = Visible(ever')
  <2>1. Visible(ever') = W(kind, name, ever')
    BY DEF Visible
  <2>2. Visible(ever)' = W(kind', name', ever')
    BY DEF Visible, RootSet
  <2> HIDE DEF W
  <2> QED BY <1>1, <2>1, <2>2
<1> QED BY <1>2, <1>3 DEF Reached, RootSet

LEMMA WalkInductive == WalkInv /\ [WalkNext]_walkVars => WalkInv'
<1> SUFFICES ASSUME WalkInv, [WalkNext]_walkVars PROVE WalkInv'
  OBVIOUS
<1> USE DiscoverAssumption DEF DiscoverAssumption
<1>0. DiscoverTypeOK /\ PendingReached /\ RecordedReached /\ BehindOrAhead
  BY DEF WalkInv
<1>1. UNCHANGED tree
  BY DEF WalkNext, Walk, NextRoot, Leave, Yield, Change, walkVars, tree
<1>2. (\A D : Reached(D)' = Reached(D)) /\ Reached(ever)' = Reached(ever')
  BY <1>1, SameTree
<1>3. kind' = kind /\ name' = name /\ \A n, D : Open(n, D)' <=> Open(n, D)
  BY <1>1 DEF tree, Open
<1>4. there \subseteq ever /\ always \subseteq there /\ ever \subseteq Nodes
  BY <1>0 DEF DiscoverTypeOK
<1>5. ASSUME NEW n \in Nodes, Change(n) PROVE WalkInv'
  <2>1. /\ always' \subseteq always /\ ever \subseteq ever'
        /\ stack' = stack /\ next' = next /\ found' = found
    BY <1>5 DEF Change
  <2>2. DiscoverTypeOK'
    BY <1>0, <1>5, <1>3 DEF Change, DiscoverTypeOK
  <2>3. Reached(ever) \subseteq Reached(ever)' /\ OnStack(stack)' = OnStack(stack)
    BY <1>2, <2>1, VisibleGrows DEF OnStack
  <2>4. PendingReached' /\ RecordedReached'
    BY <1>0, <1>3, <2>1, <2>3 DEF PendingReached, RecordedReached
  <2>5. Pending' = Pending
    BY <2>1, <2>3 DEF Pending
  <2>6. BehindOrAhead'
    BY <1>0, <1>2, <1>3, <2>1, <2>5 DEF BehindOrAhead
  <2> QED BY <2>2, <2>4, <2>6 DEF WalkInv
\* A step of the walk: `found` grows, and what leaves Pending has been dealt with.
<1>6. ASSUME UNCHANGED <<there, changes, always, ever>>, DiscoverTypeOK',
             PendingReached', RecordedReached', found \subseteq found',
             NEW gone \in SUBSET Nodes, Pending \subseteq gone \cup Pending',
             \A n \in gone \cap always :
                 /\ name[n] = "git" /\ kind[n] # "file" => Parent[n] \in found'
                 /\ Open(n, there) => \A c \in there : Parent[c] = n => c \in Pending'
      PROVE  WalkInv'
  <2>1. ASSUME NEW D \in SUBSET always, NEW T \in SUBSET D,
               \A n \in Reached(D) \ T :
                   name[n] = "git" /\ kind[n] # "file" => Parent[n] \in found,
               \A n \in T : n \in Pending \/ (Parent[n] \in T /\ Open(Parent[n], D))
        PROVE  /\ \A n \in Reached(D) \ (T \ gone) :
                     name[n] = "git" /\ kind[n] # "file" => Parent[n] \in found'
               /\ \A n \in T \ gone :
                     \/ n \in Pending'
                     \/ Parent[n] \in T \ gone /\ Open(Parent[n], D)
    <3>1. Reached(D) \subseteq always
      BY DEF Reached
    <3>2. ASSUME NEW n \in T \ gone, Parent[n] \in gone, Open(Parent[n], D)
          PROVE  n \in Pending'
      BY <1>4, <1>6, <3>2 DEF Open
    <3> QED BY <1>6, <2>1, <3>1, <3>2
  <2>2. ASSUME NEW D \in SUBSET always'
        PROVE  \E T \in SUBSET D :
                  /\ \A n \in Reached(D)' \ T :
                        name'[n] = "git" /\ kind'[n] # "file" => Parent[n] \in found'
                  /\ \A n \in T : n \in Pending' \/ (Parent[n] \in T /\ Open(Parent[n], D)')
    <3>1. D \in SUBSET always
      BY <1>6
    <3>2. PICK T \in SUBSET D :
              /\ \A n \in Reached(D) \ T :
                    name[n] = "git" /\ kind[n] # "file" => Parent[n] \in found
              /\ \A n \in T : n \in Pending \/ (Parent[n] \in T /\ Open(Parent[n], D))
      BY <1>0, <3>1 DEF BehindOrAhead
    <3>3. T \ gone \in SUBSET D
      OBVIOUS
    <3> QED BY <1>2, <1>3, <2>1, <3>1, <3>2, <3>3
  <2>3. BehindOrAhead'
    BY <2>2 DEF BehindOrAhead
  <2> QED BY <1>6, <2>3 DEF WalkInv
<1>7. ASSUME NextRoot PROVE WalkInv'
  <2> DEFINE n == Roots[next]
  <2>1. /\ stack = <<>> /\ next \in 1 .. Len(Roots) /\ next' = next + 1 /\ n \in Nodes
        /\ stack' = (IF n \in there THEN << {n} >> ELSE <<>>)
        /\ UNCHANGED <<there, changes, found, always, ever>>
    BY <1>0, <1>7 DEF NextRoot, DiscoverTypeOK
  <2> HIDE DEF n
  <2>2. /\ stack' \in Seq(SUBSET Nodes) /\ OnStack(stack) = {}
        /\ OnStack(stack') = (IF n \in there THEN {n} ELSE {})
    <3>1. << {n} >> \in Seq(SUBSET Nodes) /\ OnStack(<< {n} >>) = {n}
      BY <2>1 DEF OnStack
    <3>2. <<>> \in Seq(SUBSET Nodes) /\ OnStack(<<>>) = {}
      BY DEF OnStack
    <3> QED BY <2>1, <3>1, <3>2
  <2>3. DiscoverTypeOK'
    BY <1>0, <1>3, <2>1, <2>2 DEF DiscoverTypeOK
  <2>4. n \in RootSet
    BY <2>1 DEF RootSet, n
  <2>5. PendingReached'
    <3>1. n \in there => n \in Reached(ever)
      BY <1>4, <2>4 DEF Reached
    <3>2. OnStack(stack)' = OnStack(stack')
      BY DEF OnStack
    <3>3. Reached(ever)' = Reached(ever)
      BY <1>2, <2>1
    <3> QED BY <2>2, <3>1, <3>2, <3>3 DEF PendingReached
  <2>6. RecordedReached'
    <3>1. Reached(ever)' = Reached(ever)
      BY <1>2, <2>1
    <3> QED BY <1>0, <1>3, <2>1, <3>1 DEF RecordedReached
  <2> DEFINE gone == IF n \in there THEN {} ELSE {n}
  <2>7. Pending \subseteq gone \cup Pending'
    <3>1. OnStack(stack)' = OnStack(stack')
      BY DEF OnStack
    <3>2. \A i \in next .. Len(Roots) : Roots[i] = n \/ i \in next' .. Len(Roots)'
      BY <2>1 DEF n
    <3> QED BY <2>2, <3>1, <3>2 DEF Pending
  <2>8. gone \in SUBSET Nodes /\ gone \cap always = {}
    BY <1>4, <2>1
  <2> HIDE DEF gone
  <2> QED BY <1>6, <2>1, <2>3, <2>5, <2>6, <2>7, <2>8
<1>8. ASSUME Leave PROVE WalkInv'
  <2>1. /\ stack \in Seq(SUBSET Nodes) /\ stack # <<>> /\ Head(stack) = {}
        /\ stack' = Tail(stack) /\ UNCHANGED <<there, changes, next, found, always, ever>>
    BY <1>0, <1>8 DEF Leave, DiscoverTypeOK
  <2>2. stack' \in Seq(SUBSET Nodes) /\ OnStack(stack)' = OnStack(stack)
    <3>1. OnStack(stack)' = OnStack(stack')
      BY DEF OnStack
    <3>2. /\ Tail(stack) \in Seq(SUBSET Nodes)
          /\ OnStack(stack) = Head(stack) \cup OnStack(Tail(stack))
      <4>1. stack \in Seq(SUBSET Nodes) /\ stack # <<>>
        BY <2>1
      <4> QED BY <4>1, StackFacts
    <3>3. Head(stack) = {} /\ stack' = Tail(stack)
      BY <2>1
    <3>4. OnStack(stack') = OnStack(Tail(stack))
      BY <3>3
    <3>5. OnStack(stack) = OnStack(Tail(stack))
      BY <3>2, <3>3
    <3> QED BY <3>1, <3>2, <3>3, <3>4, <3>5
  <2>3. DiscoverTypeOK'
    BY <1>0, <1>3, <2>1, <2>2 DEF DiscoverTypeOK
  <2>4. Reached(ever)' = Reached(ever)
    BY <1>2, <2>1
  <2>5. PendingReached' /\ RecordedReached'
    BY <1>0, <1>3, <2>1, <2>2, <2>4 DEF PendingReached, RecordedReached
  <2>6. Pending \subseteq {} \cup Pending'
    BY <2>1, <2>2 DEF Pending
  <2> QED BY <1>6, <2>1, <2>3, <2>5, <2>6
<1>9. ASSUME NEW n \in Nodes, Yield(n) PROVE WalkInv'
  <2>1. /\ stack' \in Seq(SUBSET Nodes) /\ n \in OnStack(stack)
        /\ OnStack(stack) \subseteq {n} \cup OnStack(stack')
        /\ \A c \in OnStack(stack') :
              \/ c \in OnStack(stack)
              \/ c \in there /\ Parent[c] = n /\ Open(n, there)
        /\ Open(n, there) => \A c \in there : Parent[c] = n => c \in OnStack(stack')
        /\ \/ found' = found
           \/ name[n] = "git" /\ kind[n] # "file" /\ found' = found \cup {Parent[n]}
        /\ n \in there /\ name[n] = "git" /\ kind[n] # "file" => Parent[n] \in found'
        /\ found \subseteq found'
        /\ UNCHANGED <<there, changes, next, always, ever>>
    BY <1>0, <1>9, YieldFacts
  <2>2. OnStack(stack)' = OnStack(stack')
    BY DEF OnStack
  <2>3. DiscoverTypeOK'
    BY <1>0, <1>3, <2>1 DEF DiscoverTypeOK
  <2>4. Reached(ever)' = Reached(ever) /\ n \in Reached(ever)
    BY <1>0, <1>2, <2>1 DEF PendingReached
  <2>5. PendingReached'
    <3>1. ASSUME NEW c \in there, Parent[c] = n, Open(n, there) PROVE c \in Reached(ever)
      BY <1>4, <2>4, <3>1, ReachedBelow DEF Open
    <3> QED BY <1>0, <2>1, <2>2, <2>4, <3>1 DEF PendingReached
  <2>6. RecordedReached'
    BY <1>0, <1>3, <2>1, <2>4 DEF RecordedReached
  <2> DEFINE gone == {n}
  <2>7. gone \in SUBSET Nodes /\ Pending \subseteq gone \cup Pending'
    BY <2>1, <2>2 DEF Pending
  <2>8. \A m \in gone \cap always :
            /\ name[m] = "git" /\ kind[m] # "file" => Parent[m] \in found'
            /\ Open(m, there) => \A c \in there : Parent[c] = m => c \in Pending'
    BY <1>4, <2>1, <2>2 DEF Pending
  <2> HIDE DEF gone
  <2> QED BY <1>6, <2>1, <2>3, <2>5, <2>6, <2>7, <2>8
<1>10. CASE UNCHANGED walkVars
  <2>1. UNCHANGED <<there, changes, always, ever, stack, next, found>>
    BY <1>10 DEF walkVars
  <2>2. OnStack(stack)' = OnStack(stack) /\ Reached(ever)' = Reached(ever)
    BY <1>2, <2>1 DEF OnStack
  <2>3. DiscoverTypeOK' /\ PendingReached' /\ RecordedReached'
    BY <1>0, <1>3, <2>1, <2>2 DEF DiscoverTypeOK, PendingReached, RecordedReached
  <2>4. Pending \subseteq {} \cup Pending'
    BY <2>1, <2>2 DEF Pending
  <2> QED BY <1>6, <2>1, <2>3, <2>4
<1> QED BY <1>5, <1>7, <1>8, <1>9, <1>10 DEF WalkNext, Walk

LEMMA WalkInvariant == WalkSpec => []WalkInv
BY InitWalk, WalkInductive, PTL DEF WalkSpec

\* The stack holds sets of nodes and the index of the next root stays in range; a node
\* that has been there throughout is there, and one that is there has been there.
THEOREM DiscoverTypeCorrect == WalkSpec => []DiscoverTypeOK
<1>1. WalkInv => DiscoverTypeOK
  BY DEF WalkInv
<1> QED BY <1>1, WalkInvariant, PTL

\* What is recorded was, at some time during the walk, a repository in a place that the
\* walk may look into.
THEOREM NoneInvented == WalkSpec => []NothingInvented
<1>1. WalkInv => NothingInvented
  BY DEF WalkInv, RecordedReached, Reached, NothingInvented, Repositories
<1> QED BY <1>1, WalkInvariant, PTL

\* Once the walk is done, every repository that was in a visible place throughout has
\* been recorded, also the ones inside others: nothing is pending, so nothing is ahead.
THEOREM NoneMissed == WalkSpec => []NothingMissed
<1>1. ASSUME WalkInv, Done PROVE Repositories(always) \subseteq found
  <2>1. /\ DiscoverTypeOK /\ OnStack(stack) = {} /\ next .. Len(Roots) = {}
        /\ always \in SUBSET Nodes
    <3>1. next \in 1 .. Len(Roots) + 1 /\ Len(Roots) \in Nat
      BY <1>1, DiscoverAssumption DEF WalkInv, DiscoverTypeOK, DiscoverAssumption
    <3> QED BY <1>1, <3>1 DEF WalkInv, DiscoverTypeOK, Done, OnStack
  <2>2. Pending = {}
    BY <2>1 DEF Pending
  <2>3. PICK T \in SUBSET always :
            /\ \A n \in Reached(always) \ T :
                  name[n] = "git" /\ kind[n] # "file" => Parent[n] \in found
            /\ \A n \in T : n \in Pending \/ (Parent[n] \in T /\ Open(Parent[n], always))
    BY <1>1 DEF WalkInv, BehindOrAhead
  <2>4. T = {}
    BY <2>1, <2>2, <2>3, DiscoverAssumption DEF DiscoverAssumption
  <2> QED BY <2>3, <2>4 DEF Repositories, Reached
<1>2. WalkInv => NothingMissed
  BY <1>1 DEF NothingMissed, Outermost
<1> QED BY <1>2, WalkInvariant, PTL
=============================================================================
